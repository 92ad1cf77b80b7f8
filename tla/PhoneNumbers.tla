---------------------------- MODULE PhoneNumbers ----------------------------
(***************************************************************************)
(* The ninth digit of Brazilian mobile numbers. WhatsApp may know a mobile *)
(* by eight digits after the area code or by the same eight after a nine;  *)
(* UnoAPI writes either, in national format too. Two rules deal with it,   *)
(* independently: candidatesBR (resolver.go) lists the forms to ask        *)
(* WhatsApp about, phoneNumberToJIDDigits (send.go) picks one unasked.     *)
(*                                                                         *)
(* A number is its country code and the digits after the area code, which  *)
(* no rule looks at; a number too short for either is of country "other".  *)
(***************************************************************************)
EXTENDS Naturals, Sequences

Digit == 0..9

\* "none" is national format: the country code is left out.
PhoneNumber == [country : {"55", "other", "none"}, local : Seq(Digit)]

WithNine(n) == [country |-> n.country, local |-> <<9>> \o n.local]
WithoutNine(n) == [country |-> n.country, local |-> Tail(n.local)]

\* normalizeE164Local: the phonenumbers library takes a number without a
\* country code for a Brazilian one.
E164(n) == [n EXCEPT !.country = IF @ = "none" THEN "55" ELSE @]

\* candidatesBR: the number, then its form with, or without, a leading nine.
CandidatesBR(n) ==
    IF n.country # "55" \/ Len(n.local) < 8 THEN <<n>>
    ELSE IF n.local[1] # 9 THEN <<n, WithNine(n)>>
    ELSE IF Len(n.local) >= 9 THEN <<n, WithoutNine(n)>>
    ELSE <<n>>

\* phoneNumberToJIDDigits: the digits as they were written, except that a
\* mobile of nine digits loses its nine and one of eight gets it.
JIDDigits(n) ==
    LET mobile(length, first) ==
          n.country = "55" /\ Len(n.local) = length /\ n.local[1] \in first
    IN  IF mobile(9, {9}) THEN WithoutNine(n)
        ELSE IF mobile(8, 6..9) THEN WithNine(n)
        ELSE n

-----------------------------------------------------------------------------
(* What the rules are about.                                               *)

Eight(n) == n.country = "55" /\ Len(n.local) = 8
Nine(n) == n.country = "55" /\ Len(n.local) = 9 /\ n.local[1] = 9

\* The forms under which the owner of a number may have an account.
Forms(n) == {n} \cup (IF Eight(n) THEN {WithNine(n)} ELSE {})
                \cup (IF Nine(n) THEN {WithoutNine(n)} ELSE {})

\* Mobiles: the first of the eight digits is 6, 7, 8 or 9.
Mobile(n) == \/ Eight(n) /\ n.local[1] \in 6..9
             \/ Nine(n) /\ n.local[2] \in 6..9

\* The numbers candidatesBR does not complete: it takes the first of eight
\* digits for the ninth.
NineOfEight(n) == Eight(n) /\ n.local[1] = 9

=============================================================================
