SPECIFICATION FairSpec
CONSTANTS
    hello = hello
    bye = bye
    note = note
    Call = {c1}
    Msg = {m1}
    Person = {p1, p2}
    Text = {hello, bye, note}
    Empty = Empty
    None = None
    HandlerTries = 2
    ReaderTries = 1
    Env <- MCEnv
    Config <- MCConfig
    MaxWrites = 1
INVARIANTS
    TypeOK
    EnvWins
    PeersNamed
    NoReplyToLID
    ReportsTruthful
PROPERTIES
    AnswerCurrent
    ReadAfterHandover
    RepliesReported
CHECK_DEADLOCK FALSE
