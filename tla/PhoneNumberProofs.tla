-------------------------- MODULE PhoneNumberProofs --------------------------
(***************************************************************************)
(* What the two ninth-digit rules return, for every number.                *)
(***************************************************************************)
EXTENDS PhoneNumbers, TLAPS

\* A leading nine can be put on and taken off again, and makes another number.
LEMMA NineOnOff ==
  ASSUME NEW n \in PhoneNumber
  PROVE  /\ WithNine(n) \in PhoneNumber
         /\ Len(WithNine(n).local) = Len(n.local) + 1
         /\ WithNine(n).local[1] = 9
         /\ \A i \in 1..Len(n.local) : WithNine(n).local[i + 1] = n.local[i]
         /\ WithNine(n).country = n.country
         /\ WithoutNine(WithNine(n)) = n
<1>1. <<9>> \o n.local \in Seq(Digit) /\ Len(<<9>> \o n.local) = Len(n.local) + 1
  BY DEF PhoneNumber, Digit
<1>2. (<<9>> \o n.local)[1] = 9
      /\ \A i \in 1..Len(n.local) : (<<9>> \o n.local)[i + 1] = n.local[i]
  BY DEF PhoneNumber, Digit
<1>3. Tail(<<9>> \o n.local) = n.local
  BY <1>1, <1>2 DEF PhoneNumber, Digit
<1> QED
  BY <1>1, <1>2, <1>3 DEF PhoneNumber, WithNine, WithoutNine

\* And the other way round for a number that begins with nine.
LEMMA NineOffOn ==
  ASSUME NEW n \in PhoneNumber, Len(n.local) > 0
  PROVE  /\ WithoutNine(n) \in PhoneNumber
         /\ Len(WithoutNine(n).local) = Len(n.local) - 1
         /\ \A i \in 1..(Len(n.local) - 1) :
              WithoutNine(n).local[i] = n.local[i + 1]
         /\ WithoutNine(n).country = n.country
         /\ n.local[1] = 9 => WithNine(WithoutNine(n)) = n
<1>1. Tail(n.local) \in Seq(Digit) /\ Len(Tail(n.local)) = Len(n.local) - 1
      /\ \A i \in 1..(Len(n.local) - 1) : Tail(n.local)[i] = n.local[i + 1]
  BY DEF PhoneNumber, Digit
<1>2. ASSUME n.local[1] = 9 PROVE <<9>> \o Tail(n.local) = n.local
  BY <1>1, <1>2 DEF PhoneNumber, Digit
<1> QED
  BY <1>1, <1>2 DEF PhoneNumber, WithNine, WithoutNine

\* Eight digits are left of nine.
LEMMA TailOfNine ==
  ASSUME NEW s \in Seq(Digit), Len(s) = 9
  PROVE  Len(Tail(s)) = 8 /\ Tail(s)[1] = s[2]
<1>1. Len(Tail(s)) = 8
  OBVIOUS
<1>2. 1 \in 1..Len(Tail(s))
  BY <1>1
<1> QED
  BY <1>1, <1>2

\* Every form of a number is a number.
LEMMA FormsAreNumbers == ASSUME NEW n \in PhoneNumber PROVE Forms(n) \subseteq PhoneNumber
<1>1. WithNine(n) \in PhoneNumber
  BY NineOnOff
<1>2. ASSUME Len(n.local) = 9 PROVE WithoutNine(n) \in PhoneNumber
  <2>1. Len(n.local) > 0
    BY <1>2
  <2> QED
    BY <2>1, NineOffOn
<1> QED
  BY <1>1, <1>2 DEF Forms, Nine

\* What the length tests of the rules exclude.
LEMMA Lengths ==
  ASSUME NEW k \in Nat
  PROVE  /\ k >= 9 => k # 8
         /\ k < 8 => k # 8 /\ k # 9
         /\ k < 9 => k # 9 /\ (k < 8 \/ k = 8)
  OBVIOUS

\* The candidates of a number begin with itself, are at most two, and include
\* every form its owner may have an account under; except when the first of
\* eight digits is a nine: then the form with the ninth digit is missing.
THEOREM CandidatesCover ==
  ASSUME NEW n \in PhoneNumber
  PROVE  /\ CandidatesBR(n) \in Seq(PhoneNumber)
         /\ Len(CandidatesBR(n)) \in 1..2
         /\ CandidatesBR(n)[1] = n
         /\ ~NineOfEight(n) =>
              \A f \in Forms(n) :
                \E i \in 1..Len(CandidatesBR(n)) : CandidatesBR(n)[i] = f
         /\ NineOfEight(n) => WithNine(n) \in Forms(n)
                              /\ \A i \in 1..Len(CandidatesBR(n)) :
                                   CandidatesBR(n)[i] # WithNine(n)
<1>1. Len(n.local) \in Nat
  BY DEF PhoneNumber
<1>2. WithNine(n) \in PhoneNumber /\ WithNine(n) # n
  BY NineOnOff, <1>1
<1>3. Len(n.local) > 0 => WithoutNine(n) \in PhoneNumber
  BY NineOffOn
<1>4. CASE n.country = "55" /\ Len(n.local) >= 8 /\ n.local[1] # 9
  <2>1. CandidatesBR(n) = <<n, WithNine(n)>>
    BY <1>1, <1>4 DEF CandidatesBR
  <2>2. Forms(n) \subseteq {n, WithNine(n)}
    BY <1>4 DEF Forms, Nine
  <2>3. ~NineOfEight(n)
    BY <1>4 DEF NineOfEight
  <2> QED
    BY <1>2, <2>1, <2>2, <2>3
<1>5. CASE n.country = "55" /\ Len(n.local) >= 9 /\ n.local[1] = 9
  <2>1. CandidatesBR(n) = <<n, WithoutNine(n)>>
    BY <1>1, <1>5 DEF CandidatesBR
  <2>2a. Len(n.local) # 8
    BY <1>1, <1>5, Lengths, Zenon
  <2>2. Forms(n) \subseteq {n, WithoutNine(n)} /\ ~NineOfEight(n)
    BY <2>2a DEF Forms, Eight, NineOfEight
  <2> QED
    BY <1>1, <1>3, <1>5, <2>1, <2>2
<1>6. CASE \/ n.country # "55" \/ Len(n.local) < 8
           \/ n.local[1] = 9 /\ Len(n.local) < 9
  <2>1. CandidatesBR(n) = <<n>>
    BY <1>1, <1>6 DEF CandidatesBR
  <2>2a. ~NineOfEight(n) => ~Eight(n)
    BY <1>1, <1>6, Lengths, Zenon DEF Eight, NineOfEight
  <2>2b. ~Nine(n)
    BY <1>1, <1>6, Lengths, Zenon DEF Nine
  <2>2. ~NineOfEight(n) => Forms(n) = {n}
    BY <2>2a, <2>2b DEF Forms
  <2>3. NineOfEight(n) => WithNine(n) \in Forms(n)
    BY DEF NineOfEight, Forms
  <2> QED
    BY <1>2, <2>1, <2>2, <2>3
<1> QED
  BY <1>1, <1>4, <1>5, <1>6

\* The number that is picked unasked belongs to the same owner.
THEOREM DigitsOfSameOwner ==
  ASSUME NEW n \in PhoneNumber
  PROVE  JIDDigits(n) \in PhoneNumber /\ JIDDigits(n) \in Forms(n)
<1>1. WithNine(n) \in PhoneNumber
  BY NineOnOff
<1>2. Len(n.local) > 0 => WithoutNine(n) \in PhoneNumber
  BY NineOffOn
<1> QED
  BY <1>1, <1>2 DEF JIDDigits, Forms, Eight, Nine, PhoneNumber

\* The second rule is its own inverse on mobiles: applied twice it gives back
\* the number, and it never leaves one as it is. A caller must not apply it to
\* a number it has been applied to.
THEOREM DigitsTwice ==
  ASSUME NEW n \in PhoneNumber, Mobile(n)
  PROVE  JIDDigits(n) # n /\ JIDDigits(JIDDigits(n)) = n
<1>1. CASE Eight(n) /\ n.local[1] \in 6..9
  <2>1. JIDDigits(n) = WithNine(n)
    BY <1>1 DEF Eight, JIDDigits
  <2>2a. /\ WithNine(n).country = n.country
         /\ Len(WithNine(n).local) = Len(n.local) + 1
         /\ WithNine(n).local[1] = 9
    BY NineOnOff
  <2>2. Nine(WithNine(n))
    BY <1>1, <2>2a DEF Eight, Nine
  <2>3. JIDDigits(WithNine(n)) = WithoutNine(WithNine(n))
    BY <2>2 DEF Nine, JIDDigits
  <2>4. WithNine(n) # n
    BY <1>1, NineOnOff DEF Eight
  <2> QED
    BY <2>1, <2>3, <2>4, NineOnOff
<1>2. CASE Nine(n) /\ n.local[2] \in 6..9
  <2>1. JIDDigits(n) = WithoutNine(n)
    BY <1>2 DEF Nine, JIDDigits
  <2>2a. Len(n.local) = 9
    BY <1>2 DEF Nine
  <2>2b. WithoutNine(n).country = n.country
    BY DEF WithoutNine
  <2>2c. n.local \in Seq(Digit)
    BY DEF PhoneNumber
  <2>2d. Len(Tail(n.local)) = 8 /\ Tail(n.local)[1] = n.local[2]
    BY <2>2a, <2>2c, TailOfNine, Zenon
  <2>2. Eight(WithoutNine(n)) /\ WithoutNine(n).local[1] \in 6..9
    BY <1>2, <2>2b, <2>2d DEF Eight, Nine, WithoutNine
  <2>3. JIDDigits(WithoutNine(n)) = WithNine(WithoutNine(n))
    BY <2>2 DEF Eight, JIDDigits
  <2>4. WithoutNine(n) # n
    BY <1>2, <2>2 DEF Eight, Nine
  <2> QED
    BY <1>2, <2>1, <2>3, <2>4, NineOffOn DEF Nine
<1> QED
  BY <1>1, <1>2 DEF Mobile

=============================================================================
