---------------------------- MODULE SequenceFacts ----------------------------
(* Facts about sequences and their places that the proofs share.           *)
EXTENDS Integers, Sequences, SequenceTheorems, WellFoundedInduction, TLAPS

\* The last of some places.
LEMMA LargestPlace ==
  ASSUME NEW n \in Nat, NEW T \in SUBSET (1..n), T # {}
  PROVE  \E j \in T : \A k \in T : k <= j
<1> DEFINE R == {ss \in Nat \X Nat : ss[1] < ss[2]}
           U == {n - j : j \in T}
<1>1. R = OpToRel(<, Nat)
  BY Zenon DEF OpToRel
<1>2. IsWellFoundedOn(R, Nat)
  BY <1>1, NatLessThanWellFounded
<1>3. \A j \in T : j \in Nat /\ n - j \in Nat
  OBVIOUS
<1>4. U \subseteq Nat /\ U # {}
  BY <1>3
<1>5. PICK x \in U : \A y \in U : ~ (<<y, x>> \in R)
  <2> HIDE DEF R, U
  <2> QED BY <1>2, <1>4, WFMin
<1>6. PICK j \in T : x = n - j
  BY <1>5
<1>7. \A k \in T : n - k \in U /\ ~(n - k < n - j)
  BY <1>3, <1>5, <1>6
<1>8. QED
  BY <1>3, <1>7

\* All but the last element.
LEMMA FrontSeq ==
  ASSUME NEW S, NEW s \in Seq(S), Len(s) > 0
  PROVE  /\ SubSeq(s, 1, Len(s) - 1) \in Seq(S)
         /\ Len(SubSeq(s, 1, Len(s) - 1)) = Len(s) - 1
         /\ \A i \in 1..Len(s) - 1 : SubSeq(s, 1, Len(s) - 1)[i] = s[i]
<1> DEFINE n == Len(s) - 1
<1>1. n \in Nat /\ \A i \in 1..n : s[i] \in S
  OBVIOUS
<1>2. /\ SubSeq(s, 1, n) \in Seq(S)
      /\ Len(SubSeq(s, 1, n)) = IF 1 <= n THEN n - 1 + 1 ELSE 0
      /\ \A i \in 1..(n - 1 + 1) : SubSeq(s, 1, n)[i] = s[1 + i - 1]
  <2> HIDE DEF n
  <2> QED BY <1>1, SubSeqProperties
<1>3. /\ SubSeq(s, 1, n) \in Seq(S) /\ Len(SubSeq(s, 1, n)) = n
      /\ \A i \in 1..n : SubSeq(s, 1, n)[i] = s[i]
  <2> HIDE DEF n
  <2>1. \A i \in 1..n : i \in 1..(n - 1 + 1) /\ 1 + i - 1 = i
    BY <1>1
  <2>2. QED
    BY <1>1, <1>2, <2>1
<1>4. QED
  BY <1>3

\* What is left of a sequence from one of its elements on.
LEMMA RestSeq ==
  ASSUME NEW S, NEW s \in Seq(S), NEW p \in 1..Len(s)
  PROVE  LET rest == SubSeq(s, p, Len(s)) IN
         /\ rest \in Seq(S) /\ Len(rest) = Len(s) - p + 1
         /\ Head(rest) = s[p]
         /\ p < Len(s) => Tail(rest) = SubSeq(s, p + 1, Len(s))
<1>1. PICK n \in Nat : n = Len(s)
  OBVIOUS
<1> DEFINE rest == SubSeq(s, p, n)
           next == SubSeq(s, p + 1, n)
<1>2. p \in 1..n /\ p \in Nat /\ \A i \in 1..n : s[i] \in S
  BY <1>1
<1>3. /\ rest \in Seq(S) /\ Len(rest) = n - p + 1
      /\ \A i \in 1..n - p + 1 : rest[i] = s[p + i - 1]
  <2>1. /\ SubSeq(s, p, n) \in Seq(S)
        /\ Len(SubSeq(s, p, n)) = IF p <= n THEN n - p + 1 ELSE 0
        /\ \A i \in 1..(n - p + 1) : SubSeq(s, p, n)[i] = s[p + i - 1]
    BY <1>1, <1>2, SubSeqProperties
  <2>2. QED
    BY <1>2, <2>1
<1>4. p < n => /\ next \in Seq(S) /\ Len(next) = n - p
               /\ \A i \in 1..n - p : next[i] = s[p + i]
  <2> SUFFICES ASSUME p < n
               PROVE  /\ next \in Seq(S) /\ Len(next) = n - p
                      /\ \A i \in 1..n - p : next[i] = s[p + i]
    OBVIOUS
  <2>1. p + 1 \in 1..n
    BY <1>2
  <2>2. PICK q \in 1..n : q = p + 1
    BY <2>1
  <2>3. \A i \in q..n : s[i] \in S
    BY <1>2, <2>2
  <2>4. /\ SubSeq(s, q, n) \in Seq(S)
        /\ Len(SubSeq(s, q, n)) = IF q <= n THEN n - q + 1 ELSE 0
        /\ \A i \in 1..(n - q + 1) : SubSeq(s, q, n)[i] = s[q + i - 1]
    BY <1>1, <1>2, <2>2, <2>3, SubSeqProperties
  <2>5. n - q + 1 = n - p /\ \A i \in 1..n - p : q + i - 1 = p + i
    BY <1>2, <2>2
  <2>6. QED
    BY <1>2, <2>2, <2>4, <2>5
<1> HIDE DEF rest, next
<1>5. Len(rest) \in Nat \ {0} /\ Head(rest) = s[p]
  <2>1. 1 \in 1..n - p + 1 /\ p + 1 - 1 = p
    BY <1>2
  <2>2. QED
    BY <1>3, <2>1
<1>6. ASSUME p < n
      PROVE  Tail(rest) = next
  <2>1. /\ Tail(rest) \in Seq(S) /\ Len(Tail(rest)) = n - p
        /\ \A i \in 1..n - p : Tail(rest)[i] = rest[i + 1]
    BY <1>2, <1>3, <1>5
  <2>2. \A i \in 1..n - p : rest[i + 1] = s[p + i]
    <3> TAKE i \in 1..n - p
    <3>1. i + 1 \in 1..n - p + 1 /\ p + (i + 1) - 1 = p + i
      BY <1>2
    <3>2. QED
      BY <1>3, <3>1
  <2>3. \A i \in 1..n - p : Tail(rest)[i] = next[i]
    BY <1>4, <1>6, <2>1, <2>2
  <2>4. QED
    BY <1>4, <1>6, <2>1, <2>3, SeqEqual
<1>7. QED
  BY <1>1, <1>3, <1>5, <1>6 DEF rest, next
=============================================================================
