---------------------------- MODULE ChainLemmas -----------------------------
(* Facts about the linked lists of make, as sequences, and about numbers.  *)
EXTENDS Integers, SequencesExt, SequenceTheorems, WellFoundedInduction, TLAPS

(* An element that is not in a list yet goes to its end.                   *)
LEMMA AppendToChain ==
  ASSUME NEW S, NEW s \in Seq(S), NEW e \in S, IsInjective(s), e \notin ToSet(s)
  PROVE  /\ Append(s, e) \in Seq(S)
         /\ IsInjective(Append(s, e))
         /\ ToSet(Append(s, e)) = ToSet(s) \cup {e}
PROOF
<1> DEFINE t == Append(s, e)
<1>1. /\ t \in Seq(S)
      /\ Len(t) = Len(s) + 1
      /\ \A i \in 1..Len(s) : t[i] = s[i]
      /\ t[Len(s) + 1] = e
  BY AppendProperties
<1>2. Len(s) \in Nat /\ DOMAIN s = 1..Len(s) /\ DOMAIN t = 1..(Len(s) + 1)
  BY <1>1, LenProperties
<1> HIDE DEF t
<1>3. \A a, b \in DOMAIN s : s[a] = s[b] => a = b
  BY DEF IsInjective
<1>4. \A a \in DOMAIN s : s[a] # e
  BY DEF ToSet
<1>5. ASSUME NEW a \in DOMAIN t, NEW b \in DOMAIN t, t[a] = t[b]
      PROVE  a = b
  <2>1. /\ a \in 1..Len(s) \/ a = Len(s) + 1
        /\ b \in 1..Len(s) \/ b = Len(s) + 1
    BY <1>2
  <2> QED BY <1>1, <1>2, <1>3, <1>4, <1>5, <2>1
<1>6. ToSet(t) = ToSet(s) \cup {e}
  <2>1. DOMAIN t = DOMAIN s \cup {Len(s) + 1}
    BY <1>2
  <2> QED BY <1>1, <1>2, <2>1 DEF ToSet
<1> QED BY <1>1, <1>5, <1>6 DEF IsInjective, t

(* Taking out one element keeps the others in their order.                 *)
LEMMA RemoveAtProperties ==
  ASSUME NEW S, NEW s \in Seq(S), NEW i \in 1..Len(s)
  PROVE  /\ RemoveAt(s, i) \in Seq(S)
         /\ Len(RemoveAt(s, i)) = Len(s) - 1
         /\ \A j \in 1..(Len(s) - 1) :
               RemoveAt(s, i)[j] = IF j < i THEN s[j] ELSE s[j + 1]
PROOF
<1> DEFINE a == SubSeq(s, 1, i - 1)
           b == SubSeq(s, i + 1, Len(s))
<1> HIDE DEF a, b
<1>1. \A k \in 1..Len(s) : s[k] \in S
  BY ElementOfSeq
<1>2. /\ a \in Seq(S)
      /\ Len(a) = i - 1
      /\ \A j \in 1..(i - 1) : a[j] = s[j]
  <2>1. Len(s) \in Nat /\ 1 \in Int /\ i - 1 \in Int
    BY LenProperties
  <2>2. \A k \in 1..(i - 1) : s[k] \in S
    BY <1>1, <2>1
  <2>3. /\ a \in Seq(S)
        /\ Len(a) = IF 1 <= i - 1 THEN i - 1 - 1 + 1 ELSE 0
        /\ \A j \in 1..(i - 1 - 1 + 1) : a[j] = s[1 + j - 1]
    BY <2>1, <2>2, SubSeqProperties DEF a
  <2> QED BY <2>1, <2>3
<1>3. /\ b \in Seq(S)
      /\ Len(b) = Len(s) - i
      /\ \A j \in 1..(Len(s) - i) : b[j] = s[i + j]
  <2>1. Len(s) \in Nat /\ i + 1 \in Int /\ Len(s) \in Int
    BY LenProperties
  <2>2. \A k \in (i + 1)..Len(s) : s[k] \in S
    BY <1>1, <2>1
  <2>3. /\ b \in Seq(S)
        /\ Len(b) = IF i + 1 <= Len(s) THEN Len(s) - (i + 1) + 1 ELSE 0
        /\ \A j \in 1..(Len(s) - (i + 1) + 1) : b[j] = s[i + 1 + j - 1]
    BY <2>1, <2>2, SubSeqProperties DEF b
  <2> QED BY <2>1, <2>3
<1>4. /\ a \o b \in Seq(S)
      /\ Len(a \o b) = Len(a) + Len(b)
      /\ \A j \in 1..(Len(a) + Len(b)) :
            (a \o b)[j] = IF j <= Len(a) THEN a[j] ELSE b[j - Len(a)]
  BY <1>2, <1>3, ConcatProperties
<1>5. RemoveAt(s, i) = a \o b
  BY DEF RemoveAt, a, b
<1>6. Len(s) \in Nat
  BY LenProperties
<1>7. ASSUME NEW j \in 1..(Len(s) - 1)
      PROVE  (a \o b)[j] = IF j < i THEN s[j] ELSE s[j + 1]
  BY <1>2, <1>3, <1>4, <1>6
<1>8. a \o b \in Seq(S) /\ Len(a \o b) = Len(s) - 1
  BY <1>2, <1>3, <1>4, <1>6
<1> QED BY <1>5, <1>7, <1>8

(* A child put at the head of a chain.                                     *)
LEMMA PushProperties ==
  ASSUME NEW S, NEW s \in Seq(S), NEW e \in S
  PROVE  /\ <<e>> \o s \in Seq(S)
         /\ Len(<<e>> \o s) = Len(s) + 1
         /\ (<<e>> \o s)[1] = e
         /\ \A j \in 1..Len(s) : (<<e>> \o s)[j + 1] = s[j]
PROOF
<1>1. <<e>> \in Seq(S) /\ Len(<<e>>) = 1 /\ <<e>>[1] = e
  OBVIOUS
<1>2. /\ <<e>> \o s \in Seq(S)
      /\ Len(<<e>> \o s) = 1 + Len(s)
      /\ \A i \in 1..(1 + Len(s)) :
            (<<e>> \o s)[i] = IF i <= 1 THEN <<e>>[i] ELSE s[i - 1]
  BY <1>1, ConcatProperties
<1>3. Len(s) \in Nat
  BY LenProperties
<1> QED BY <1>1, <1>2, <1>3

(* Chains without repetition stay so when an element is pushed that is not *)
(* on them, popped, or removed from anywhere.                              *)
LEMMA PushOnChain ==
  ASSUME NEW S, NEW s \in Seq(S), NEW e \in S, IsInjective(s), e \notin ToSet(s)
  PROVE  /\ IsInjective(<<e>> \o s)
         /\ ToSet(<<e>> \o s) = ToSet(s) \cup {e}
PROOF
<1> DEFINE t == <<e>> \o s
<1>1. /\ t \in Seq(S)
      /\ Len(t) = Len(s) + 1
      /\ t[1] = e
      /\ \A j \in 1..Len(s) : t[j + 1] = s[j]
  BY PushProperties
<1>2. Len(s) \in Nat /\ DOMAIN s = 1..Len(s) /\ DOMAIN t = 1..(Len(s) + 1)
  BY <1>1, LenProperties
<1> HIDE DEF t
<1>3. \A j \in 2..(Len(s) + 1) : j - 1 \in 1..Len(s) /\ t[j] = s[j - 1]
  <2> TAKE j \in 2..(Len(s) + 1)
  <2>1. j - 1 \in 1..Len(s) /\ (j - 1) + 1 = j
    BY <1>2
  <2> QED BY <1>1, <2>1
<1>4. \A a, b \in DOMAIN s : s[a] = s[b] => a = b
  BY DEF IsInjective
<1>5. \A a \in DOMAIN s : s[a] # e
  BY DEF ToSet
<1>6. ASSUME NEW a \in DOMAIN t, NEW b \in DOMAIN t, t[a] = t[b]
      PROVE  a = b
  <2>1. CASE a = 1 /\ b = 1
    BY <2>1
  <2>2. CASE a \in 2..(Len(s) + 1) /\ b = 1
    BY <1>1, <1>2, <1>3, <1>5, <1>6, <2>2
  <2>3. CASE a = 1 /\ b \in 2..(Len(s) + 1)
    BY <1>1, <1>2, <1>3, <1>5, <1>6, <2>3
  <2>4. CASE a \in 2..(Len(s) + 1) /\ b \in 2..(Len(s) + 1)
    BY <1>2, <1>3, <1>4, <1>6, <2>4
  <2> QED BY <1>2, <2>1, <2>2, <2>3, <2>4
<1>7. ToSet(t) = ToSet(s) \cup {e}
  <2>1. ASSUME NEW a \in DOMAIN t PROVE t[a] \in ToSet(s) \cup {e}
    <3>1. a = 1 \/ a \in 2..(Len(s) + 1)
      BY <1>2
    <3> QED BY <1>1, <1>2, <1>3, <3>1 DEF ToSet
  <2>2. ASSUME NEW a \in DOMAIN s PROVE s[a] \in ToSet(t)
    <3>1. a + 1 \in DOMAIN t /\ t[a + 1] = s[a]
      BY <1>1, <1>2
    <3> QED BY <3>1 DEF ToSet
  <2>3. e \in ToSet(t)
    BY <1>1, <1>2 DEF ToSet
  <2> QED BY <2>1, <2>2, <2>3 DEF ToSet
<1> QED BY <1>6, <1>7 DEF IsInjective, t

LEMMA PopFromChain ==
  ASSUME NEW S, NEW s \in Seq(S), s # << >>, IsInjective(s)
  PROVE  /\ IsInjective(Tail(s))
         /\ Head(s) \in ToSet(s)
         /\ ToSet(Tail(s)) = ToSet(s) \ {Head(s)}
PROOF
<1>1. /\ Len(s) \in Nat \ {0}
      /\ Tail(s) \in Seq(S)
      /\ Head(s) = s[1]
      /\ Len(Tail(s)) = Len(s) - 1
      /\ \A j \in 1..(Len(s) - 1) : Tail(s)[j] = s[j + 1]
  BY EmptySeq, HeadTailProperties
<1>2. DOMAIN s = 1..Len(s) /\ DOMAIN Tail(s) = 1..(Len(s) - 1)
  BY <1>1, LenProperties
<1>3. \A a, b \in DOMAIN s : s[a] = s[b] => a = b
  BY DEF IsInjective
<1>4. IsInjective(Tail(s))
  BY <1>1, <1>2, <1>3 DEF IsInjective
<1>5. \A j \in 2..Len(s) : j - 1 \in 1..(Len(s) - 1) /\ s[j] = Tail(s)[j - 1]
  <2> TAKE j \in 2..Len(s)
  <2>1. j - 1 \in 1..(Len(s) - 1) /\ (j - 1) + 1 = j
    BY <1>1
  <2> QED BY <1>1, <2>1
<1>6. ToSet(Tail(s)) \subseteq ToSet(s) \ {Head(s)}
  BY <1>1, <1>2, <1>3 DEF ToSet
<1>7. ASSUME NEW x \in ToSet(s), x # Head(s) PROVE x \in ToSet(Tail(s))
  <2>1. PICK j \in 1..Len(s) : x = s[j]
    BY <1>2 DEF ToSet
  <2>2. j \in 2..Len(s)
    BY <1>1, <1>7, <2>1
  <2> QED BY <1>2, <1>5, <2>1, <2>2 DEF ToSet
<1>8. Head(s) \in ToSet(s)
  BY <1>1, <1>2 DEF ToSet
<1> QED BY <1>4, <1>6, <1>7, <1>8

LEMMA RemoveFromChain ==
  ASSUME NEW S, NEW s \in Seq(S), NEW i \in 1..Len(s), IsInjective(s)
  PROVE  /\ IsInjective(RemoveAt(s, i))
         /\ ToSet(RemoveAt(s, i)) = ToSet(s) \ {s[i]}
PROOF
<1> DEFINE t == RemoveAt(s, i)
<1>1. /\ t \in Seq(S)
      /\ Len(t) = Len(s) - 1
      /\ \A j \in 1..(Len(s) - 1) : t[j] = IF j < i THEN s[j] ELSE s[j + 1]
  BY RemoveAtProperties
<1>2. /\ Len(s) \in Nat
      /\ DOMAIN s = 1..Len(s)
      /\ DOMAIN t = 1..(Len(s) - 1)
  BY <1>1, LenProperties
<1> HIDE DEF t
<1>3. \A a, b \in DOMAIN s : s[a] = s[b] => a = b
  BY DEF IsInjective
<1>4. IsInjective(t)
  <2>1. ASSUME NEW a \in DOMAIN t, NEW b \in DOMAIN t, t[a] = t[b]
        PROVE  a = b
    <3>1. /\ t[a] = IF a < i THEN s[a] ELSE s[a + 1]
          /\ t[b] = IF b < i THEN s[b] ELSE s[b + 1]
      BY <1>1, <1>2
    <3>2. {a, b, a + 1, b + 1} \subseteq DOMAIN s /\ a \in Int /\ b \in Int
      BY <1>2
    <3>3. CASE a < i /\ b < i
      BY <1>3, <2>1, <3>1, <3>2, <3>3
    <3>4. CASE a < i /\ ~(b < i)
      <4>1. a = b + 1
        BY <1>3, <2>1, <3>1, <3>2, <3>4
      <4> QED BY <3>2, <3>4, <4>1
    <3>5. CASE ~(a < i) /\ b < i
      <4>1. a + 1 = b
        BY <1>3, <2>1, <3>1, <3>2, <3>5
      <4> QED BY <3>2, <3>5, <4>1
    <3>6. CASE ~(a < i) /\ ~(b < i)
      <4>1. a + 1 = b + 1
        BY <1>3, <2>1, <3>1, <3>2, <3>6
      <4> QED BY <3>2, <4>1
    <3> QED BY <3>3, <3>4, <3>5, <3>6
  <2> QED BY <2>1 DEF IsInjective
<1>5. ToSet(t) \subseteq ToSet(s) \ {s[i]}
  BY <1>1, <1>2, <1>3 DEF ToSet
<1>6. ASSUME NEW a \in 1..Len(s), a # i
      PROVE  \E b \in DOMAIN t : t[b] = s[a]
  <2>1. CASE a < i
    BY <1>1, <1>2, <2>1
  <2>2. CASE a > i
    <3>1. a - 1 \in DOMAIN t /\ ~(a - 1 < i) /\ (a - 1) + 1 = a
      BY <1>2, <2>2
    <3> QED BY <1>1, <1>2, <3>1
  <2> QED BY <1>2, <1>6, <2>1, <2>2
<1>7. ToSet(s) \ {s[i]} \subseteq ToSet(t)
  BY <1>2, <1>6 DEF ToSet
<1> QED BY <1>4, <1>5, <1>7 DEF t

(* Removing the last element.                                              *)
LEMMA RemoveLast ==
  ASSUME NEW S, NEW s \in Seq(S), s # << >>
  PROVE  RemoveAt(s, Len(s)) = Front(s)
PROOF
<1>1. Len(s) \in Nat \ {0}
  BY EmptySeq
<1>2. SubSeq(s, Len(s) + 1, Len(s)) = << >>
  BY <1>1, SubSeqEmpty
<1>3. Front(s) \in Seq(S)
  <2>1. \A k \in 1..(Len(s) - 1) : s[k] \in S
    BY <1>1, ElementOfSeq
  <2> QED BY <1>1, <2>1, SubSeqProperties DEF Front
<1>4. Front(s) \o << >> = Front(s)
  BY <1>3, ConcatEmptySeq
<1> QED BY <1>2, <1>4 DEF RemoveAt, Front

(* A set of natural numbers that is not empty has a least element.         *)
LEMMA Unpreceded ==
  ASSUME NEW R, NEW T \in SUBSET Nat,
         \E x \in T : \A y \in T : ~ (<<y, x>> \in R),
         \A x \in T, y \in T : y < x => <<y, x>> \in R
  PROVE  \E m \in T : \A k \in T : m <= k
<1>1. PICK x \in T : \A y \in T : ~ (<<y, x>> \in R)  OBVIOUS
<1>2. \A y \in T : ~(y < x)  BY <1>1
<1>3. x \in Nat /\ \A y \in T : y \in Nat  OBVIOUS
<1> QED  BY <1>2, <1>3

LEMMA Least ==
  ASSUME NEW T \in SUBSET Nat, T # {}
  PROVE  \E m \in T : \A k \in T : m <= k
<1> DEFINE R == OpToRel(<, Nat)
<1>1. \E x \in T : \A y \in T : ~ (<<y, x>> \in R)
  BY NatLessThanWellFounded, WFMin
<1>2. \A x \in T, y \in T : y < x => <<y, x>> \in R
  BY DEF OpToRel
<1> HIDE DEF R
<1> QED  BY <1>1, <1>2, Unpreceded, Zenon

(* And one that is bounded has a greatest.                                 *)
LEMMA Greatest ==
  ASSUME NEW S \in SUBSET Nat, S # {}, NEW b \in Nat, \A x \in S : x <= b
  PROVE  Max(S) \in S /\ \A y \in S : y <= Max(S)
<1> DEFINE T == {b - x : x \in S}
<1>1. T \in SUBSET Nat /\ T # {}
  OBVIOUS
<1>2. PICK m \in T : \A k \in T : m <= k
  BY <1>1, Least
<1>3. PICK x \in S : m = b - x
  BY <1>2
<1>4. \A y \in S : x >= y
  <2> TAKE y \in S
  <2>1. m <= b - y
    BY <1>2
  <2> QED BY <1>3, <2>1
<1> HIDE DEF T
<1>5. \E z \in S : \A y \in S : z >= y
  BY <1>4
<1>6. Max(S) \in S /\ \A y \in S : Max(S) >= y
  BY <1>5 DEF Max
<1> QED BY <1>6
=============================================================================
