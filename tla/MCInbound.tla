----------------------------- MODULE MCInbound ------------------------------
(***************************************************************************)
(* Inbound with an environment that leaves everything to UnoAPI and one    *)
(* that decides all but the rejection of calls; and with configurations    *)
(* that say nothing, or the opposite of the defaults with either of two    *)
(* answers, of which one comes with an interval.                           *)
(***************************************************************************)
EXTENDS Inbound

CONSTANTS hello, bye, note

Unset == [f \in Flag |-> None]
MCEnv ==
    {[flag |-> Unset, text |-> None, every |-> 0],
     [flag |-> [f \in Flag |-> IF f = "RejectCalls" THEN None ELSE "true"],
      text |-> note, every |-> 30]}

UnoFlag == Flag \ {"RejectCalls"}
Opposite == [f \in UnoFlag |-> IF Default[f] = "true" THEN "false" ELSE "true"]
MCConfig ==
    {[flag |-> [f \in UnoFlag |-> None], text |-> Empty, every |-> 0],
     [flag |-> Opposite, text |-> hello, every |-> 0],
     [flag |-> Opposite, text |-> bye, every |-> 5]}

=============================================================================
