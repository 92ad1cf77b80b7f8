--------------------------- MODULE MCOutboundSend ---------------------------
(***************************************************************************)
(* OutboundSend with recipients that have two forms, with and without the  *)
(* ninth digit.                                                            *)
(***************************************************************************)
EXTENDS OutboundSend

Local(first) == <<first, 8, 0, 0, 0, 0, 0, 0>>

\* A mobile of nine digits in national format: what WhatsApp is asked about,
\* and may answer with, differs from what is written.
MCNumber == {[country |-> "none", local |-> <<9>> \o Local(8)]}

\* A mobile of eight digits that begin with nine.
MCNineOfEight == {[country |-> "55", local |-> Local(9)]}

=============================================================================
