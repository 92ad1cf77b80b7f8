--------------------------- MODULE RegistryProofs ---------------------------
(***************************************************************************)
(* What a registry guarantees, for any sessions and clients.               *)
(***************************************************************************)
EXTENDS Registry, TLAPS

\* A client belongs to one session, and outside a registry entry there are
\* only clients that were told to disconnect: what SessionManager inherits by
\* implementing Registry.
THEOREM RegistryAccounts ==
  ASSUME None \notin Client
  PROVE  Spec => [](TypeOK /\ Accounted /\ Exclusive)
<1> DEFINE Inv == TypeOK /\ Accounted /\ Exclusive
<1>1. Init => Inv
  BY DEF Init, TypeOK, Accounted, Exclusive
<1>2. Inv /\ [Next]_vars => Inv'
  <2> SUFFICES ASSUME Inv, [Next]_vars PROVE Inv'
    OBVIOUS
  <2> USE DEF TypeOK, Accounted, Exclusive
  <2>1. ASSUME NEW s \in Session, NEW c \in Client, Open(s, c) PROVE Inv'
    <3>1. reg' = [reg EXCEPT ![s] = c] /\ reg[s] = None /\ c # None
      BY <2>1 DEF Open
    <3>2. {reg'[t] : t \in Session} \ {None} =
            ({reg[t] : t \in Session} \ {None}) \cup {c}
      BY <3>1
    <3>3. c \notin opened /\ c \notin stopped /\ opened' = opened \cup {c}
          /\ stopped' = stopped
      BY <2>1 DEF Open
    <3>4. \A t \in Session : reg[t] # c
      BY <3>1, <3>3
    <3>5. Accounted'
      BY <3>2, <3>3
    <3> QED
      BY <3>1, <3>3, <3>4, <3>5
  <2>2. ASSUME NEW s \in Session, Close(s) PROVE Inv'
    <3> DEFINE c == reg[s]
    <3>1. /\ reg' = [reg EXCEPT ![s] = None] /\ c # None
          /\ opened' = opened /\ stopped' = stopped \cup {c}
      BY <2>2 DEF Close
    <3>2. c \in Client /\ c \in opened
      BY <3>1
    <3>3. {reg'[t] : t \in Session} \ {None} =
            ({reg[t] : t \in Session} \ {None}) \ {c}
      BY <3>1
    <3>4. Accounted'
      BY <3>1, <3>2, <3>3
    <3> QED
      BY <3>1, <3>2, <3>4
  <2>3. CASE Restart
    BY <2>3 DEF Restart
  <2>4. CASE UNCHANGED vars
    BY <2>4 DEF vars
  <2> QED
    BY <2>1, <2>2, <2>3, <2>4 DEF Next
<1> QED
  BY <1>1, <1>2, PTL DEF Spec

=============================================================================
