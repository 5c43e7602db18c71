--------------------------- MODULE Removal_proofs ---------------------------
(***************************************************************************)
(* What is left of a list of things under way when one of them is removed. *)
(***************************************************************************)
EXTENDS Integers, SequencesExt, SequenceTheorems, TLAPS

LEMMA RemovedAt ==
    ASSUME NEW S, NEW s \in Seq(S), NEW i \in DOMAIN s
    PROVE  /\ RemoveAt(s, i) \in Seq(S)
           /\ Len(RemoveAt(s, i)) = Len(s) - 1
           /\ \A k \in DOMAIN RemoveAt(s, i) :
                /\ RemoveAt(s, i)[k] = s[IF k < i THEN k ELSE k + 1]
                /\ (IF k < i THEN k ELSE k + 1) \in DOMAIN s \ {i}
<1> DEFINE a == SubSeq(s, 1, i - 1)
           b == SubSeq(s, i + 1, Len(s))
<1>1. Len(s) \in Nat /\ DOMAIN s = 1..Len(s) /\ i \in 1..Len(s) /\ s \in [1..Len(s) -> S]
  BY LenProperties
<1>2. /\ a \in Seq(S) /\ Len(a) = i - 1
      /\ \A k \in 1..(i - 1) : a[k] = s[k]
  <2>1. \A k \in 1..(i - 1) : s[k] \in S
    BY <1>1
  <2>2. /\ a \in Seq(S) /\ Len(a) = IF 1 <= i - 1 THEN (i - 1) - 1 + 1 ELSE 0
        /\ \A k \in 1..((i - 1) - 1 + 1) : a[k] = s[1 + k - 1]
    BY <1>1, <2>1, SubSeqProperties
  <2>3. QED
    BY <1>1, <2>2
<1>3. /\ b \in Seq(S) /\ Len(b) = Len(s) - i
      /\ \A k \in 1..(Len(s) - i) : b[k] = s[k + i]
  <2>1. \A k \in (i + 1)..Len(s) : s[k] \in S
    BY <1>1
  <2>2. /\ b \in Seq(S) /\ Len(b) = IF i + 1 <= Len(s) THEN Len(s) - (i + 1) + 1 ELSE 0
        /\ \A k \in 1..(Len(s) - (i + 1) + 1) : b[k] = s[(i + 1) + k - 1]
    BY <1>1, <2>1, SubSeqProperties
  <2>3. QED
    BY <1>1, <2>2
<1>4. /\ a \o b \in Seq(S) /\ Len(a \o b) = Len(a) + Len(b)
      /\ \A k \in 1..(Len(a) + Len(b)) :
            (a \o b)[k] = IF k <= Len(a) THEN a[k] ELSE b[k - Len(a)]
  BY <1>2, <1>3, ConcatProperties
<1>5. RemoveAt(s, i) = a \o b
  BY DEF RemoveAt
<1>6. Len(RemoveAt(s, i)) = Len(s) - 1 /\ DOMAIN RemoveAt(s, i) = 1..(Len(s) - 1)
  BY <1>1, <1>2, <1>3, <1>4, <1>5, LenProperties
<1>7. ASSUME NEW k \in 1..(Len(s) - 1)
      PROVE  /\ RemoveAt(s, i)[k] = s[IF k < i THEN k ELSE k + 1]
             /\ (IF k < i THEN k ELSE k + 1) \in DOMAIN s \ {i}
  <2>1. CASE k < i
    <3>1. k \in 1..(i - 1) /\ k <= Len(a) /\ k \in 1..(Len(a) + Len(b))
      BY <1>1, <1>2, <1>3, <2>1
    <3>2. (a \o b)[k] = s[k]
      BY <1>2, <1>4, <3>1
    <3>3. QED
      BY <1>1, <1>5, <2>1, <3>2
  <2>2. CASE k >= i
    <3>1. k - (i - 1) \in 1..(Len(s) - i) /\ (k - (i - 1)) + i = k + 1
      BY <1>1, <2>2
    <3>2. b[k - (i - 1)] = s[k + 1]
      BY <1>3, <3>1
    <3>3. k > Len(a) /\ k \in 1..(Len(a) + Len(b)) /\ k - Len(a) = k - (i - 1)
      BY <1>1, <1>2, <1>3, <2>2
    <3>4. (a \o b)[k] = s[k + 1]
      <4>1. (a \o b)[k] = b[k - Len(a)]
        BY <1>4, <3>3
      <4>2. QED
        BY <3>2, <3>3, <4>1
    <3>5. QED
      BY <1>1, <1>5, <2>2, <3>4
  <2>3. QED
    BY <1>1, <2>1, <2>2
<1>8. QED
  BY <1>4, <1>5, <1>6, <1>7

(* r is s without its place i, renumbered: was names the old places. *)
Rest(r, s, i, was) ==
    /\ was \in [DOMAIN r -> DOMAIN s \ {i}]
    /\ \A k \in DOMAIN r : r[k] = s[was[k]]
    /\ \A k, l \in DOMAIN r : was[k] = was[l] => k = l
    /\ \A j \in DOMAIN s \ {i} : \E k \in DOMAIN r : was[k] = j

LEMMA RestOf ==
    ASSUME NEW S, NEW s \in Seq(S), NEW i \in DOMAIN s
    PROVE  /\ RemoveAt(s, i) \in Seq(S)
           /\ \E was : Rest(RemoveAt(s, i), s, i, was)
<1> DEFINE r == RemoveAt(s, i)
           was == [k \in DOMAIN r |-> IF k < i THEN k ELSE k + 1]
<1>1. /\ r \in Seq(S) /\ Len(r) = Len(s) - 1
      /\ \A k \in DOMAIN r : r[k] = s[was[k]] /\ was[k] \in DOMAIN s \ {i}
  BY RemovedAt
<1>2. Len(s) \in Nat /\ DOMAIN s = 1..Len(s) /\ DOMAIN r = 1..(Len(s) - 1)
  BY <1>1, LenProperties
<1>3. was \in [DOMAIN r -> DOMAIN s \ {i}]
  BY <1>1
<1>4. \A k, l \in DOMAIN r : was[k] = was[l] => k = l
  BY <1>2
<1>5. ASSUME NEW j \in DOMAIN s \ {i} PROVE \E k \in DOMAIN r : was[k] = j
  <2>1. CASE j < i
    <3>1. j \in DOMAIN r /\ was[j] = j
      BY <1>2, <2>1
    <3>2. QED
      BY <3>1
  <2>2. CASE j > i
    <3>1. j - 1 \in DOMAIN r /\ was[j - 1] = j
      BY <1>2, <2>2
    <3>2. QED
      BY <3>1
  <2>3. QED
    BY <1>2, <2>1, <2>2
<1>6. Rest(r, s, i, was)
  <2> HIDE DEF r, was
  <2>1. QED
    BY <1>1, <1>3, <1>4, <1>5 DEF Rest
<1>7. QED
  BY <1>1, <1>6

(* What a list is after something was put at its end. *)
LEMMA Appended ==
    ASSUME NEW S, NEW s \in Seq(S), NEW e \in S
    PROVE  /\ Append(s, e) \in Seq(S) /\ Len(Append(s, e)) = Len(s) + 1
           /\ Len(s) + 1 \notin DOMAIN s
           /\ DOMAIN Append(s, e) = DOMAIN s \cup {Len(s) + 1}
           /\ Append(s, e)[Len(s) + 1] = e
           /\ \A k \in DOMAIN s : Append(s, e)[k] = s[k]
<1>1. Len(s) \in Nat /\ DOMAIN s = 1..Len(s)
  BY LenProperties
<1>2. /\ Append(s, e) \in Seq(S) /\ Len(Append(s, e)) = Len(s) + 1
      /\ \A k \in 1..Len(s) : Append(s, e)[k] = s[k]
      /\ Append(s, e)[Len(s) + 1] = e
  BY AppendProperties
<1>3. DOMAIN Append(s, e) = 1..(Len(s) + 1)
  BY <1>2, LenProperties
<1>4. QED
  BY <1>1, <1>2, <1>3

(* A list with the places of another has its length. *)
LEMMA SameLength ==
    ASSUME NEW S, NEW s \in Seq(S), NEW r \in Seq(S), DOMAIN r = DOMAIN s
    PROVE  Len(r) = Len(s)
<1>1. Len(r) \in Nat /\ Len(s) \in Nat /\ 1..Len(r) = 1..Len(s)
  BY LenProperties
<1>2. \A n \in Nat : n \in 1..Len(r) <=> n \in 1..Len(s)
  BY <1>1
<1>3. QED
  BY <1>1, <1>2
=============================================================================
