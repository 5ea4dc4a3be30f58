------------------------- MODULE SignalLists_proofs -------------------------
(***************************************************************************)
(* Proofs about the lists of available signals of ReceiverControl, for     *)
(* every number of channels, satellites and bands that assign_channels     *)
(* accepts, provided that no GLONASS band is crowded.  Those of the first  *)
(* part hold whatever telecommands the receiver gets; those of the second  *)
(* part, on the satellites tied to a channel and on the order of the       *)
(* lists, need a receiver that gets none, and use the invariant of         *)
(* ReceiverControl_proofs.                                                 *)
(***************************************************************************)
EXTENDS ReceiverControl_proofs, SequenceTheorems

-----------------------------------------------------------------------------
(* Ranks in a finite set of positions.                                     *)

LEMMA Positions ==
    ASSUME NEW n \in Nat, NEW P \in SUBSET (0 .. n)
    PROVE  IsFiniteSet(P) /\ Cardinality(P) \in Nat
<1>1. IsFiniteSet(0 .. n)
  BY FS_Interval
<1> QED
  BY <1>1, FS_Subset, FS_CardinalityType

LEMMA RankIncreases ==
    ASSUME NEW n \in Nat, NEW P \in SUBSET (0 .. n), NEW i \in P, NEW j \in P, i < j
    PROVE  Rank(P, i) < Rank(P, j)
<1> DEFINE A == {k \in P : k <= i}
           B == {k \in P : k <= j}
<1>0. j <= j /\ ~(j <= i) /\ \A k \in P : k <= i => k <= j
  OBVIOUS
<1>1. A \in SUBSET B /\ j \in B /\ j \notin A
  BY <1>0
<1>2. B \in SUBSET (0 .. n) /\ A \in SUBSET (0 .. n)
  OBVIOUS
<1> HIDE DEF A, B
<1>3. IsFiniteSet(B) /\ Cardinality(B) \in Nat /\ Cardinality(A) \in Nat
  BY <1>2, Positions
<1>4. Cardinality(A) <= Cardinality(B) /\ Cardinality(A) # Cardinality(B)
  BY <1>1, <1>3, FS_Subset
<1>5. Cardinality(A) < Cardinality(B)
  BY <1>3, <1>4
<1> QED
  BY <1>5 DEF Rank, A, B

LEMMA RankRange ==
    ASSUME NEW n \in Nat, NEW P \in SUBSET (0 .. n), NEW i \in P
    PROVE  Rank(P, i) \in 1 .. Cardinality(P)
<1> DEFINE A == {k \in P : k <= i}
<1>0. i <= i
  OBVIOUS
<1>1. A \in SUBSET P /\ i \in A /\ A \in SUBSET (0 .. n)
  BY <1>0
<1> HIDE DEF A
<1>2. IsFiniteSet(P) /\ IsFiniteSet(A) /\ Cardinality(P) \in Nat /\ Cardinality(A) \in Nat
  BY <1>1, Positions
<1>3. Cardinality(A) <= Cardinality(P)
  BY <1>1, <1>2, FS_Subset
<1>4. Cardinality(A) # 0
  BY <1>1, <1>2, FS_EmptySet
<1>5. Cardinality(A) \in 1 .. Cardinality(P)
  BY <1>2, <1>3, <1>4
<1> QED
  BY <1>5 DEF Rank, A

(* The position of rank k.                                                 *)
At(P, k) == CHOOSE i \in P : Rank(P, i) = k

(* Ranks number the positions from 1 without gaps: the rank is an          *)
(* injection into a set of the same size, so it is onto.                   *)
LEMMA AtProperties ==
    ASSUME NEW n \in Nat, NEW P \in SUBSET (0 .. n)
    PROVE  /\ \A k \in 1 .. Cardinality(P) : At(P, k) \in P /\ Rank(P, At(P, k)) = k
           /\ \A i \in P : Rank(P, i) \in 1 .. Cardinality(P) /\ At(P, Rank(P, i)) = i
           /\ \A k, l \in 1 .. Cardinality(P) : k < l => At(P, k) < At(P, l)
<1> DEFINE T == 1 .. Cardinality(P)
           f == [i \in P |-> Rank(P, i)]
<1>1. IsFiniteSet(P) /\ Cardinality(P) \in Nat
  BY Positions
<1>2. IsFiniteSet(T) /\ Cardinality(T) = Cardinality(P)
  BY <1>1, FS_Interval
<1>3. \A i \in P : Rank(P, i) \in T
  BY RankRange
<1>4. \A i, j \in P : i < j => Rank(P, i) < Rank(P, j)
  BY RankIncreases
<1>5. \A i, j \in P : Rank(P, i) = Rank(P, j) => i = j
  <2> SUFFICES ASSUME NEW i \in P, NEW j \in P, Rank(P, i) = Rank(P, j), i # j PROVE FALSE
    OBVIOUS
  <2>1. Rank(P, i) \in Nat /\ Rank(P, j) \in Nat
    BY <1>1, <1>3
  <2>2. i < j \/ j < i
    OBVIOUS
  <2> QED
    BY <1>4, <2>1, <2>2
<1>6. f \in [P -> T] /\ \A i \in P : f[i] = Rank(P, i)
  BY <1>3
<1> HIDE DEF f, T
<1>7. f \in Injection(P, T)
  BY <1>5, <1>6 DEF Injection, IsInjective
<1>8. f \in Surjection(P, T)
  BY <1>2, <1>7, FS_Injection
<1>9. \A k \in T : \E i \in P : Rank(P, i) = k
  BY <1>6, <1>8 DEF Surjection
<1>10. \A k \in T : At(P, k) \in P /\ Rank(P, At(P, k)) = k
  BY <1>9 DEF At
<1>11. \A i \in P : At(P, Rank(P, i)) = i
  BY <1>3, <1>5, <1>10
<1>12. ASSUME NEW k \in T, NEW l \in T, k < l PROVE At(P, k) < At(P, l)
  <2>1. /\ At(P, k) \in P /\ Rank(P, At(P, k)) = k
        /\ At(P, l) \in P /\ Rank(P, At(P, l)) = l
    BY <1>10
  <2>2. k \in Nat /\ l \in Nat /\ ~(l < k) /\ k # l
    BY <1>1, <1>12 DEF T
  <2>3. At(P, k) # At(P, l) /\ ~(At(P, l) < At(P, k))
    BY <1>4, <2>1, <2>2
  <2>4. At(P, k) \in 0 .. n /\ At(P, l) \in 0 .. n
    BY <2>1
  <2> QED
    BY <2>3, <2>4
<1>13. \A k, l \in T : k < l => At(P, k) < At(P, l)
  BY <1>12
<1> QED
  BY <1>3, <1>10, <1>11, <1>13 DEF T

-----------------------------------------------------------------------------
(* The operations on lists.                                                *)

LEMMA KeepProperties ==
    ASSUME NEW X, NEW list \in Seq(X), NEW S, NEW P, P = Chosen(list, S)
    PROVE  /\ P \in SUBSET (1 .. Len(list)) /\ Cardinality(P) \in Nat
           /\ Keep(list, S) \in Seq(X)
           /\ Len(Keep(list, S)) = Cardinality(P)
           /\ \A k \in 1 .. Cardinality(P) : Keep(list, S)[k] = list[At(P, k)]
<1>1. P \in SUBSET (1 .. Len(list)) /\ Len(list) \in Nat
  BY DEF Chosen
<1>1a. P \in SUBSET (0 .. Len(list))
  BY <1>1
<1>2. Cardinality(P) \in Nat
  BY <1>1, <1>1a, Positions
<1>3. \A k \in 1 .. Cardinality(P) : At(P, k) \in P
  BY <1>1, <1>1a, AtProperties
<1>4. \A k \in 1 .. Cardinality(P) : list[At(P, k)] \in X
  BY <1>1, <1>3
<1>5. Keep(list, S) = [k \in 1 .. Cardinality(P) |-> list[At(P, k)]]
  BY DEF Keep, At
<1>6. [k \in 1 .. Cardinality(P) |-> list[At(P, k)]] \in Seq(X)
  BY <1>2, <1>4
<1> QED
  BY <1>1, <1>2, <1>5, <1>6

LEMMA KeepListed ==
    ASSUME NEW X, NEW list \in Seq(X), NEW S
    PROVE  /\ Keep(list, S) \in Seq(X)
           /\ Listed(Keep(list, S)) = Listed(list) \cap S
           /\ NoRepeats(list) => NoRepeats(Keep(list, S))
<1> DEFINE P == Chosen(list, S)
           r == Keep(list, S)
<1>1. /\ P \in SUBSET (1 .. Len(list)) /\ Cardinality(P) \in Nat
      /\ r \in Seq(X) /\ Len(r) = Cardinality(P)
      /\ \A k \in 1 .. Cardinality(P) : r[k] = list[At(P, k)]
  BY KeepProperties
<1>2. \A i \in 1 .. Len(list) : i \in P <=> list[i] \in S
  BY DEF Chosen
<1>3. Len(list) \in Nat /\ P \in SUBSET (0 .. Len(list))
  BY <1>1
<1> HIDE DEF P, r
<1>4. /\ \A k \in 1 .. Cardinality(P) : At(P, k) \in P /\ Rank(P, At(P, k)) = k
      /\ \A i \in P : Rank(P, i) \in 1 .. Cardinality(P) /\ At(P, Rank(P, i)) = i
  BY <1>1, <1>3, AtProperties
<1>5. ASSUME NEW x \in Listed(r) PROVE x \in Listed(list) \cap S
  <2>1. PICK k \in 1 .. Len(r) : x = r[k]
    BY <1>5 DEF Listed
  <2>2. At(P, k) \in 1 .. Len(list) /\ x = list[At(P, k)] /\ list[At(P, k)] \in S
    BY <1>1, <1>2, <1>4, <2>1
  <2> QED
    BY <2>2 DEF Listed
<1>6. ASSUME NEW x \in Listed(list) \cap S PROVE x \in Listed(r)
  <2>1. PICK i \in 1 .. Len(list) : x = list[i]
    BY <1>6 DEF Listed
  <2>2. i \in P
    BY <1>2, <1>6, <2>1
  <2>3. Rank(P, i) \in 1 .. Len(r) /\ r[Rank(P, i)] = x
    BY <1>1, <1>4, <2>1, <2>2
  <2> QED
    BY <2>3 DEF Listed
<1>7. ASSUME NoRepeats(list) PROVE NoRepeats(r)
  <2> SUFFICES ASSUME NEW k \in 1 .. Len(r), NEW l \in 1 .. Len(r), r[k] = r[l] PROVE k = l
    BY DEF NoRepeats
  <2>1. /\ list[At(P, k)] = list[At(P, l)]
        /\ At(P, k) \in 1 .. Len(list) /\ At(P, l) \in 1 .. Len(list)
    BY <1>1, <1>4
  <2>2. At(P, k) = At(P, l)
    BY <1>7, <2>1 DEF NoRepeats
  <2> QED
    BY <1>1, <1>4, <2>2
<1>8. Listed(r) = Listed(list) \cap S
  BY <1>5, <1>6
<1> QED
  BY <1>1, <1>7, <1>8 DEF r

LEMMA RemoveListed ==
    ASSUME NEW X, NEW list \in Seq(X), NEW s
    PROVE  /\ remove_signal(list, s) \in Seq(X)
           /\ Listed(remove_signal(list, s)) = Listed(list) \ {s}
           /\ NoRepeats(list) => NoRepeats(remove_signal(list, s))
<1>1. Listed(list) \cap (Listed(list) \ {s}) = Listed(list) \ {s}
  OBVIOUS
<1> QED
  BY <1>1, KeepListed DEF remove_signal

LEMMA AppendListed ==
    ASSUME NEW X, NEW list \in Seq(X), NEW s \in X, s \notin Listed(list)
    PROVE  /\ Append(list, s) \in Seq(X)
           /\ Listed(Append(list, s)) = Listed(list) \cup {s}
           /\ NoRepeats(list) => NoRepeats(Append(list, s))
<1> DEFINE r == Append(list, s)
<1>1. /\ r \in Seq(X) /\ Len(r) = Len(list) + 1 /\ Len(list) \in Nat
      /\ \A i \in 1 .. Len(list) : r[i] = list[i]
      /\ r[Len(list) + 1] = s
  OBVIOUS
<1> HIDE DEF r
<1>2. \A i \in 1 .. Len(r) : i \in 1 .. Len(list) \/ i = Len(list) + 1
  BY <1>1
<1>3. Listed(r) = Listed(list) \cup {s}
  <2>1. ASSUME NEW x \in Listed(r) PROVE x \in Listed(list) \cup {s}
    BY <1>1, <1>2, <2>1 DEF Listed
  <2>2. ASSUME NEW x \in Listed(list) \cup {s} PROVE x \in Listed(r)
    <3>1. Len(list) + 1 \in 1 .. Len(r) /\ \A i \in 1 .. Len(list) : i \in 1 .. Len(r)
      BY <1>1
    <3> QED
      BY <1>1, <2>2, <3>1 DEF Listed
  <2> QED
    BY <2>1, <2>2
<1>4. \A i \in 1 .. Len(list) : list[i] # s
  BY DEF Listed
<1>5. NoRepeats(list) => NoRepeats(r)
  BY <1>1, <1>2, <1>4 DEF NoRepeats
<1> QED
  BY <1>1, <1>3, <1>5 DEF r

LEMMA PushBackListed ==
    ASSUME NEW X, NEW list \in Seq(X), NEW s \in X
    PROVE  /\ push_back_signal(list, s) \in Seq(X)
           /\ Listed(push_back_signal(list, s)) = Listed(list) \cup {s}
           /\ NoRepeats(list) => NoRepeats(push_back_signal(list, s))
<1> DEFINE r == remove_signal(list, s)
<1>1. r \in Seq(X) /\ Listed(r) = Listed(list) \ {s} /\ (NoRepeats(list) => NoRepeats(r))
  BY RemoveListed
<1> HIDE DEF r
<1>2. s \notin Listed(r) /\ Listed(r) \cup {s} = Listed(list) \cup {s}
  BY <1>1
<1>3. /\ Append(r, s) \in Seq(X) /\ Listed(Append(r, s)) = Listed(r) \cup {s}
      /\ NoRepeats(r) => NoRepeats(Append(r, s))
  BY <1>1, <1>2, AppendListed
<1> QED
  BY <1>1, <1>2, <1>3 DEF push_back_signal, r

LEMMA RotateListed ==
    ASSUME NEW X, NEW list \in Seq(X), list # <<>>
    PROVE  /\ rotate(list) \in Seq(X)
           /\ Listed(rotate(list)) = Listed(list)
           /\ NoRepeats(list) => NoRepeats(rotate(list))
           /\ Head(list) \in X /\ Head(list) \in Listed(list)
<1> DEFINE r == rotate(list)
           n == Len(list)
<1>1. /\ r \in Seq(X) /\ Len(r) = n /\ n \in Nat \ {0} /\ Head(list) = list[1]
      /\ \A i \in 1 .. n : r[i] = IF i = n THEN list[1] ELSE list[i + 1]
  BY DEF rotate
<1>2. list[1] \in X
  BY <1>1
<1> HIDE DEF r, n
<1>3. /\ \A i \in 1 .. n : IF i = n THEN 1 \in 1 .. n ELSE i + 1 \in 1 .. n
      /\ \A i \in 1 .. n : i # 1 => i - 1 \in 1 .. n /\ i - 1 # n /\ (i - 1) + 1 = i
      /\ n \in 1 .. n /\ 1 \in 1 .. n
  BY <1>1
<1>4. ASSUME NEW x \in Listed(r) PROVE x \in Listed(list)
  BY <1>1, <1>3, <1>4 DEF Listed, n
<1>5. ASSUME NEW x \in Listed(list) PROVE x \in Listed(r)
  <2>1. PICK i \in 1 .. n : x = list[i]
    BY <1>5 DEF Listed, n
  <2>2. CASE i = 1
    <3>1. r[n] = x
      BY <1>1, <1>3, <2>1, <2>2
    <3> QED
      BY <1>1, <1>3, <3>1 DEF Listed
  <2>3. CASE i # 1
    <3>1. i - 1 \in 1 .. n /\ r[i - 1] = x
      BY <1>1, <1>3, <2>1, <2>3
    <3> QED
      BY <1>1, <3>1 DEF Listed
  <2> QED
    BY <2>2, <2>3
<1>6. ASSUME NoRepeats(list) PROVE NoRepeats(r)
  <2> SUFFICES ASSUME NEW i \in 1 .. n, NEW j \in 1 .. n, r[i] = r[j] PROVE i = j
    BY <1>1 DEF NoRepeats
  <2>1. \A k, l \in 1 .. n : list[k] = list[l] => k = l
    BY <1>6 DEF NoRepeats, n
  <2>2. CASE i = n
    BY <1>1, <1>3, <2>1, <2>2
  <2>3. CASE i # n
    BY <1>1, <1>3, <2>1, <2>3
  <2> QED
    BY <2>2, <2>3
<1> QED
  BY <1>1, <1>2, <1>3, <1>4, <1>5, <1>6 DEF r, Listed, n

(* The concatenation of two lists with nothing in common.                  *)
LEMMA ConcatListed ==
    ASSUME NEW X, NEW s \in Seq(X), NEW t \in Seq(X)
    PROVE  /\ s \o t \in Seq(X)
           /\ Listed(s \o t) = Listed(s) \cup Listed(t)
           /\ NoRepeats(s) /\ NoRepeats(t) /\ Listed(s) \cap Listed(t) = {} => NoRepeats(s \o t)
<1> DEFINE r == s \o t
<1>1. /\ r \in Seq(X) /\ Len(r) = Len(s) + Len(t) /\ Len(s) \in Nat /\ Len(t) \in Nat
      /\ \A i \in 1 .. Len(s) + Len(t) : r[i] = IF i <= Len(s) THEN s[i] ELSE t[i - Len(s)]
  BY ConcatProperties
<1> HIDE DEF r
<1>2. \A i \in 1 .. Len(r) :
         IF i <= Len(s) THEN i \in 1 .. Len(s) ELSE i - Len(s) \in 1 .. Len(t)
  BY <1>1
<1>3. ASSUME NEW x \in Listed(r) PROVE x \in Listed(s) \cup Listed(t)
  BY <1>1, <1>2, <1>3 DEF Listed
<1>4. ASSUME NEW x \in Listed(s) \cup Listed(t) PROVE x \in Listed(r)
  <2>1. CASE x \in Listed(s)
    <3>1. PICK i \in 1 .. Len(s) : x = s[i]
      BY <2>1 DEF Listed
    <3>2. i \in 1 .. Len(r) /\ r[i] = x
      BY <1>1, <3>1
    <3> QED
      BY <3>2 DEF Listed
  <2>2. CASE x \in Listed(t)
    <3>1. PICK i \in 1 .. Len(t) : x = t[i]
      BY <2>2 DEF Listed
    <3>2. /\ i + Len(s) \in 1 .. Len(r) /\ i + Len(s) \in 1 .. Len(s) + Len(t)
          /\ ~(i + Len(s) <= Len(s)) /\ (i + Len(s)) - Len(s) = i
      BY <1>1, <3>1
    <3>3. r[i + Len(s)] = x
      BY <1>1, <3>1, <3>2
    <3> QED
      BY <3>2, <3>3 DEF Listed
  <2> QED
    BY <1>4, <2>1, <2>2
<1>5. ASSUME NoRepeats(s), NoRepeats(t), Listed(s) \cap Listed(t) = {} PROVE NoRepeats(r)
  <2> SUFFICES ASSUME NEW i \in 1 .. Len(r), NEW j \in 1 .. Len(r), r[i] = r[j] PROVE i = j
    BY DEF NoRepeats
  <2>1. \A k \in 1 .. Len(s), l \in 1 .. Len(t) : s[k] # t[l]
    BY <1>5 DEF Listed
  <2>2. i \in 1 .. Len(s) + Len(t) /\ j \in 1 .. Len(s) + Len(t)
    BY <1>1
  <2>3. CASE i <= Len(s) /\ j <= Len(s)
    BY <1>1, <1>2, <1>5, <2>2, <2>3 DEF NoRepeats
  <2>4. CASE i <= Len(s) /\ ~(j <= Len(s))
    BY <1>1, <1>2, <2>1, <2>2, <2>4
  <2>5. CASE ~(i <= Len(s)) /\ j <= Len(s)
    BY <1>1, <1>2, <2>1, <2>2, <2>5
  <2>6. CASE ~(i <= Len(s)) /\ ~(j <= Len(s))
    <3>1. t[i - Len(s)] = t[j - Len(s)] /\ i - Len(s) \in 1 .. Len(t) /\ j - Len(s) \in 1 .. Len(t)
      BY <1>1, <1>2, <2>2, <2>6
    <3>2. i - Len(s) = j - Len(s)
      BY <1>5, <3>1 DEF NoRepeats
    <3> QED
      BY <1>1, <2>2, <3>2
  <2> QED
    BY <2>3, <2>4, <2>5, <2>6
<1>6. Listed(r) = Listed(s) \cup Listed(t)
  BY <1>3, <1>4
<1> QED
  BY <1>1, <1>5, <1>6 DEF r

Reversed(list) == [i \in 1 .. Len(list) |-> list[Len(list) + 1 - i]]

LEMMA ReversedListed ==
    ASSUME NEW X, NEW list \in Seq(X)
    PROVE  /\ Reversed(list) \in Seq(X)
           /\ Listed(Reversed(list)) = Listed(list)
           /\ NoRepeats(list) => NoRepeats(Reversed(list))
<1> DEFINE r == Reversed(list)
           n == Len(list)
<1>1. n \in Nat
  OBVIOUS
<1>2. \A i \in 1 .. n : n + 1 - i \in 1 .. n /\ n + 1 - (n + 1 - i) = i
  BY <1>1
<1>3. \A i \in 1 .. n : list[n + 1 - i] \in X
  BY <1>2
<1>4. r \in Seq(X) /\ Len(r) = n /\ \A i \in 1 .. n : r[i] = list[n + 1 - i]
  BY <1>1, <1>3 DEF Reversed
<1> HIDE DEF r, n
<1>5. ASSUME NEW x \in Listed(r) PROVE x \in Listed(list)
  BY <1>2, <1>4, <1>5 DEF Listed, n
<1>6. ASSUME NEW x \in Listed(list) PROVE x \in Listed(r)
  <2>1. PICK i \in 1 .. n : x = list[i]
    BY <1>6 DEF Listed, n
  <2>2. n + 1 - i \in 1 .. n /\ r[n + 1 - i] = x
    BY <1>2, <1>4, <2>1
  <2> QED
    BY <1>4, <2>2 DEF Listed
<1>7. ASSUME NoRepeats(list) PROVE NoRepeats(r)
  <2> SUFFICES ASSUME NEW i \in 1 .. n, NEW j \in 1 .. n, r[i] = r[j] PROVE i = j
    BY <1>4 DEF NoRepeats
  <2>1. n + 1 - i = n + 1 - j
    BY <1>2, <1>4, <1>7 DEF NoRepeats, n
  <2> QED
    BY <1>1, <2>1
<1> QED
  BY <1>4, <1>5, <1>6, <1>7 DEF r

LEMMA PriorizeListed ==
    ASSUME NEW X, NEW list \in Seq(X), NEW visible \in Seq(X)
    PROVE  /\ priorize_satellites(list, visible) \in Seq(X)
           /\ Listed(priorize_satellites(list, visible)) = Listed(list)
           /\ NoRepeats(list) /\ NoRepeats(visible)
                  => NoRepeats(priorize_satellites(list, visible))
<1> DEFINE found == Keep(visible, Listed(list))
           rest == Keep(list, Listed(list) \ Listed(visible))
<1>1. /\ found \in Seq(X) /\ Listed(found) = Listed(visible) \cap Listed(list)
      /\ NoRepeats(visible) => NoRepeats(found)
  BY KeepListed
<1>2. /\ rest \in Seq(X) /\ Listed(rest) = Listed(list) \cap (Listed(list) \ Listed(visible))
      /\ NoRepeats(list) => NoRepeats(rest)
  BY KeepListed
<1>3. priorize_satellites(list, visible) = Reversed(found) \o rest
  BY DEF priorize_satellites, Reversed
<1> HIDE DEF found, rest
<1>4. /\ Reversed(found) \in Seq(X) /\ Listed(Reversed(found)) = Listed(found)
      /\ NoRepeats(found) => NoRepeats(Reversed(found))
  BY <1>1, ReversedListed
<1>5. /\ Reversed(found) \o rest \in Seq(X)
      /\ Listed(Reversed(found) \o rest) = Listed(found) \cup Listed(rest)
      /\ NoRepeats(Reversed(found)) /\ NoRepeats(rest) /\ Listed(found) \cap Listed(rest) = {}
            => NoRepeats(Reversed(found) \o rest)
  BY <1>2, <1>4, ConcatListed
<1>6. /\ Listed(found) \cap Listed(rest) = {}
      /\ Listed(found) \cup Listed(rest) = Listed(list)
  BY <1>1, <1>2
<1> QED
  BY <1>1, <1>2, <1>3, <1>4, <1>5, <1>6

(* A set of naturals that is not empty has a least element.                *)
LEMMA LeastElement ==
    ASSUME NEW n \in Nat, NEW P \in SUBSET (0 .. n), P # {}
    PROVE  \E i \in P : \A j \in P : i <= j
<1>1. Cardinality(P) \in Nat /\ Cardinality(P) # 0
  BY Positions, FS_EmptySet
<1>2. 1 \in 1 .. Cardinality(P)
  BY <1>1
<1>3. At(P, 1) \in P /\ Rank(P, At(P, 1)) = 1
  BY <1>2, AtProperties
<1>4. ASSUME NEW j \in P, j < At(P, 1) PROVE FALSE
  <2>1. Rank(P, j) < Rank(P, At(P, 1))
    BY <1>3, <1>4, RankIncreases
  <2>2. Rank(P, j) \in 1 .. Cardinality(P)
    BY RankRange
  <2> QED
    BY <1>1, <1>3, <2>1, <2>2
<1>5. ASSUME NEW j \in P PROVE At(P, 1) <= j
  <2>1. ~(j < At(P, 1))
    BY <1>4
  <2>2. j \in 0 .. n /\ At(P, 1) \in 0 .. n
    BY <1>3
  <2> QED
    BY <2>1, <2>2
<1> QED
  BY <1>3, <1>5

-----------------------------------------------------------------------------
(* The invariant of the lists, whatever the telecommands.                  *)

(* The check of assign_channels, where no GLONASS band is crowded.         *)
LEMMA SatelliteToSpare ==
    ASSUME Uncrowded, NEW b \in Bands PROVE Cardinality(BandChannels(b)) <= NSats - 1
<1>1. Cardinality(BandChannels(b)) \in Nat /\ NSats \in Nat
  BY ChannelsFinite, ControlAssumption DEF BandChannels
<1> QED
  BY <1>1, ChannelsFit DEF EnoughSatellites, Uncrowded

Handlers == [loop : LoopNames, who : Channels, i : 0 .. NChannels, gs : 0 .. NSats]

FlowgraphTypes ==
    /\ channels_state \in [Channels -> 0 .. 2]
    /\ acq_count \in 0 .. NChannels
    /\ available \in [Bands -> Seq(Sats)]
    /\ assigned \in [Channels -> Sats]
    /\ status \in [Channels -> 0 .. NSats]
    /\ handler \in Handlers

ThreadTypes ==
    /\ standby \in BOOLEAN /\ stop \in BOOLEAN /\ running \in BOOLEAN
    /\ commands \in 0 .. MaxCommands

NoListRepeats == \A b \in Bands : NoRepeats(available[b])

(* Where a signal of a band is accounted for.                              *)
Accounted(b, s) ==
    \/ s \in Listed(available[b])
    \/ \E c \in BandChannels(b) : Holds(c, s)
    \/ handler.gs = s /\ BandOf[handler.who] = b

(* Where a satellite is tied to a channel it stays.                        *)
FixedStay == \A c \in Channels : FixedSat[c] # 0 => assigned[c] = FixedSat[c]

(* Only the acquisition manager returns to a pending push_back_signal, and *)
(* it does not run in standby.                                             *)
HandlerAgrees ==
    /\ handler.loop # "manager" => handler.gs = 0
    /\ standby => handler.loop # "manager"

SignalInv ==
    /\ Uncrowded
    /\ FsmTypes /\ FlowgraphTypes /\ ThreadTypes
    /\ NoListRepeats
    /\ SignalsConserved
    /\ FixedStay
    /\ HandlerAgrees

LEMMA TypesTogether == TypeOK <=> FsmTypes /\ FlowgraphTypes /\ ThreadTypes
BY DEF TypeOK, FsmTypes, FlowgraphTypes, ThreadTypes, Handlers, Messages

LEMMA HandlerFields ==
    ASSUME handler \in Handlers
    PROVE  /\ handler.loop \in LoopNames /\ handler.who \in Channels
           /\ handler.i \in 0 .. NChannels /\ handler.gs \in 0 .. NSats
BY DEF Handlers

LEMMA HandlersMade ==
    /\ Idle \in Handlers
    /\ \A c \in Channels, g \in 0 .. NSats : Managing(c, g) \in Handlers
    /\ \A l \in {"standby", "assist", "stop"} : Stopping(l) \in Handlers
    /\ handler \in Handlers /\ handler.i < NChannels /\ Advance => handler' \in Handlers
<1>1. 0 \in Channels /\ 0 \in 0 .. NChannels /\ 0 \in 0 .. NSats
  BY ChannelsAssumption, ControlAssumption DEF Channels
<1>2. Idle \in Handlers
  BY <1>1 DEF Idle, Handlers, LoopNames
<1>3. \A c \in Channels, g \in 0 .. NSats : Managing(c, g) \in Handlers
  BY <1>1 DEF Managing, Handlers, LoopNames
<1>4. \A l \in {"standby", "assist", "stop"} : Stopping(l) \in Handlers
  BY <1>1 DEF Stopping, Handlers, LoopNames
<1>5. ASSUME handler \in Handlers, handler.i < NChannels, Advance PROVE handler' \in Handlers
  <2>1. handler.i + 1 \in 0 .. NChannels
    BY <1>5, ChannelsAssumption DEF Handlers
  <2> QED
    BY <1>5, <2>1 DEF Handlers, Advance
<1> QED
  BY <1>2, <1>3, <1>4, <1>5

LEMMA AdvanceKeeps ==
    ASSUME handler \in Handlers, Advance
    PROVE  /\ handler'.loop = handler.loop /\ handler'.who = handler.who /\ handler'.gs = handler.gs
           /\ handler'.i = handler.i + 1
BY DEF Handlers, Advance

LEMMA CurrentChannel ==
    ASSUME handler \in Handlers PROVE Current \in Channels
<1>1. handler.i \in Nat /\ handler.who \in Nat /\ NChannels \in Nat \ {0}
  BY ChannelsAssumption DEF Handlers, Channels
<1>2. \A a, n \in Nat : n # 0 => a % n \in 0 .. (n - 1)
  OBVIOUS
<1>3. handler.i + handler.who + 1 \in Nat
  BY <1>1
<1> QED
  BY <1>1, <1>2, <1>3 DEF Current, Channels

(* One channel changes, and at most its band's list.                       *)
LEMMA Conserve ==
    ASSUME SignalsConserved, NEW c \in Channels,
           \A d \in Channels \ {c} : assigned'[d] = assigned[d] /\ channels_state'[d] = channels_state[d],
           \A b \in Bands : \A s \in Listed(available[b]) :
               s \in Listed(available'[b]) \/ (b = BandOf[c] /\ Holds(c, s)'),
           \A s \in Sats : Holds(c, s) => Accounted(BandOf[c], s)',
           \A b \in Bands, s \in Sats :
               handler.gs = s /\ BandOf[handler.who] = b => Accounted(b, s)'
    PROVE  SignalsConserved'
<1> SUFFICES ASSUME NEW b \in Bands, NEW s \in Sats PROVE Accounted(b, s)'
  BY DEF SignalsConserved, Accounted
<1>1. Accounted(b, s)
  BY DEF SignalsConserved, Accounted
<1>2. CASE s \in Listed(available[b])
  <2>1. s \in Listed(available'[b]) \/ (b = BandOf[c] /\ Holds(c, s)')
    BY <1>2
  <2>2. c \in BandChannels(b) <=> b = BandOf[c]
    BY DEF BandChannels
  <2> QED
    BY <2>1, <2>2 DEF Accounted, BandChannels
<1>3. ASSUME NEW d \in BandChannels(b), Holds(d, s) PROVE Accounted(b, s)'
  <2>1. d \in Channels /\ BandOf[d] = b
    BY DEF BandChannels
  <2>2. CASE d = c
    BY <1>3, <2>1, <2>2
  <2>3. CASE d # c
    <3>1. Holds(d, s)'
      BY <1>3, <2>1, <2>3 DEF Holds
    <3> QED
      BY <2>1, <3>1 DEF Accounted, BandChannels
  <2> QED
    BY <2>2, <2>3
<1>4. CASE handler.gs = s /\ BandOf[handler.who] = b
  BY <1>4
<1> QED
  BY <1>1, <1>2, <1>3, <1>4 DEF Accounted

(* The list of one band is replaced.                                       *)
LEMMA OneBand ==
    ASSUME available \in [Bands -> Seq(Sats)], NoListRepeats, NEW b \in Bands,
           NEW list \in Seq(Sats), NoRepeats(list),
           available' = [available EXCEPT ![b] = list]
    PROVE  /\ available' \in [Bands -> Seq(Sats)]
           /\ NoListRepeats'
           /\ available'[b] = list
           /\ \A e \in Bands \ {b} : available'[e] = available[e]
<1>1. /\ available' \in [Bands -> Seq(Sats)] /\ available'[b] = list
      /\ \A e \in Bands \ {b} : available'[e] = available[e]
  OBVIOUS
<1>2. NoListRepeats'
  BY <1>1 DEF NoListRepeats
<1> QED
  BY <1>1, <1>2

(* Every list is reordered.                                                *)
LEMMA Priorized ==
    ASSUME available \in [Bands -> Seq(Sats)], NoListRepeats,
           NEW visible \in [Bands -> Seq(Sats)], \A b \in Bands : NoRepeats(visible[b]),
           available' = [b \in Bands |-> priorize_satellites(available[b], visible[b])]
    PROVE  /\ available' \in [Bands -> Seq(Sats)]
           /\ NoListRepeats'
           /\ \A b \in Bands : Listed(available'[b]) = Listed(available[b])
<1>1. ASSUME NEW b \in Bands
      PROVE  /\ available'[b] \in Seq(Sats) /\ NoRepeats(available'[b])
             /\ Listed(available'[b]) = Listed(available[b])
  <2>1. available'[b] = priorize_satellites(available[b], visible[b])
    OBVIOUS
  <2>2. /\ available[b] \in Seq(Sats) /\ visible[b] \in Seq(Sats)
        /\ NoRepeats(available[b]) /\ NoRepeats(visible[b])
    BY DEF NoListRepeats
  <2> QED
    BY <2>1, <2>2, PriorizeListed
<1>2. available' \in [Bands -> Seq(Sats)]
  BY <1>1
<1> QED
  BY <1>1, <1>2 DEF NoListRepeats

(* A channel that looks for a signal holds none: the others of its band,   *)
(* and the signal about to be pushed back, are fewer than the satellites.  *)
LEMMA SearchFinds == SignalInv => SearchFindsSignal
<1> SUFFICES ASSUME SignalInv, ManagerTurn, SlotFor(Current), FixedSat[Current] = 0,
                    available[BandOf[Current]] = <<>>
             PROVE  FALSE
  BY DEF SearchFindsSignal
<1> DEFINE c == Current
           b == BandOf[c]
           others == BandChannels(b) \ {c}
           None == NChannels
           T == others \cup {None}
           holder(s) == CHOOSE d \in T : IF d = None THEN handler.gs = s ELSE assigned[d] = s
           f == [s \in Sats |-> holder(s)]
<1>1. c \in Channels /\ b \in Bands
  BY CurrentChannel, ControlAssumption DEF SignalInv, FlowgraphTypes
<1>2. channels_state[c] = 0 /\ FixedSat[c] = 0
  BY DEF SlotFor
<1>3. Listed(available[b]) = {}
  BY DEF Listed
<1>4. NSats \in Nat /\ NChannels \in Nat /\ NChannels \notin Channels
  BY ControlAssumption, ChannelsAssumption DEF Channels
<1>5. c \in BandChannels(b) /\ BandChannels(b) \in SUBSET Channels
  BY <1>1 DEF BandChannels
<1>6. IsFiniteSet(BandChannels(b)) /\ Cardinality(BandChannels(b)) \in Nat
  BY <1>5, ChannelsFinite
<1>7. Cardinality(BandChannels(b)) <= NSats - 1
  BY <1>1, SatelliteToSpare DEF SignalInv
<1> HIDE DEF c, b
<1>8. IsFiniteSet(T) /\ Cardinality(T) < NSats
  <2>1. IsFiniteSet(others) /\ Cardinality(others) = Cardinality(BandChannels(b)) - 1
    BY <1>5, <1>6, FS_RemoveElement
  <2>2. None \notin others
    BY <1>4, <1>5
  <2>3. IsFiniteSet(T) /\ Cardinality(T) = Cardinality(others) + 1
    BY <2>1, <2>2, FS_AddElement
  <2> QED
    BY <1>4, <1>6, <1>7, <2>1, <2>3
<1>9. IsFiniteSet(Sats) /\ Cardinality(Sats) = NSats
  BY <1>4, FS_Interval DEF Sats
<1>10. ASSUME NEW s \in Sats
       PROVE  \E d \in T : IF d = None THEN handler.gs = s ELSE assigned[d] = s
  <2>1. Accounted(b, s)
    BY <1>1 DEF SignalInv, SignalsConserved, Accounted, b, c
  <2>2. s # 0
    BY <1>4 DEF Sats
  <2>3. ~Holds(c, s)
    BY <1>2, <2>2 DEF Holds
  <2>4. CASE handler.gs = s
    BY <2>4
  <2>5. ASSUME NEW d \in BandChannels(b), Holds(d, s)
        PROVE  d \in others /\ d # None /\ assigned[d] = s
    BY <1>4, <1>5, <2>3, <2>5 DEF Holds
  <2> QED
    BY <1>3, <2>1, <2>4, <2>5 DEF Accounted
<1>11. \A s \in Sats : /\ holder(s) \in T
                       /\ IF holder(s) = None THEN handler.gs = s ELSE assigned[holder(s)] = s
  BY <1>10
<1> HIDE DEF T, None, others, holder
<1>12. f \in [Sats -> T] /\ \A s \in Sats : f[s] = holder(s)
  BY <1>11
<1> HIDE DEF f
<1>13. PICK x \in Sats, y \in Sats : x # y /\ f[x] = f[y]
  BY <1>8, <1>9, <1>12, FS_PigeonHole
<1> QED
  BY <1>11, <1>12, <1>13

(* The search finds a satellite of the list, and keeps the others.         *)
LEMMA NextSatProperties ==
    ASSUME FlowgraphTypes, NEW b \in Bands, available[b] # <<>>, NoRepeats(available[b])
    PROVE  /\ NextSat(b) \in Sats /\ NextSat(b) \in Listed(available[b])
           /\ ListAfterSearch(b) \in Seq(Sats)
           /\ NoRepeats(ListAfterSearch(b))
           /\ Listed(available[b]) = Listed(ListAfterSearch(b)) \cup {NextSat(b)}
<1>1. available[b] \in Seq(Sats)
  BY DEF FlowgraphTypes
<1>2. \A s \in Listed(available[b]) : s \in Sats
  BY <1>1 DEF Listed
<1>3. CASE Assistants(b) = {}
  <2>1. NextSat(b) = Head(available[b]) /\ ListAfterSearch(b) = rotate(available[b])
    BY <1>3 DEF NextSat, ListAfterSearch
  <2> QED
    BY <1>1, <1>2, <2>1, RotateListed
<1>4. CASE Assistants(b) # {}
  <2>1. Assistants(b) \in SUBSET (0 .. NChannels) /\ NChannels \in Nat
    BY ChannelsAssumption DEF Assistants, Channels
  <2>2. \E d \in Assistants(b) : \A e \in Assistants(b) : d <= e
    BY <1>4, <2>1, LeastElement
  <2>3. NextSat(b) = status[CHOOSE d \in Assistants(b) : \A e \in Assistants(b) : d <= e]
    BY <1>4 DEF NextSat
  <2>4. \E d \in Assistants(b) : NextSat(b) = status[d]
    BY <2>2, <2>3
  <2>5. NextSat(b) \in Listed(available[b])
    BY <2>4 DEF Assistants
  <2>6. ListAfterSearch(b) = remove_signal(available[b], NextSat(b))
    BY <1>4 DEF ListAfterSearch
  <2>7. /\ ListAfterSearch(b) \in Seq(Sats) /\ NoRepeats(ListAfterSearch(b))
        /\ Listed(ListAfterSearch(b)) = Listed(available[b]) \ {NextSat(b)}
    BY <1>1, <2>6, RemoveListed
  <2> QED
    BY <1>2, <2>5, <2>7
<1> QED
  BY <1>3, <1>4

LEMMA EventPopped ==
    ASSUME FsmTypes, NEW w, ChannelEventPopped(w)
    PROVE  (\E c \in Channels : c = Who) /\ queue' \in Seq(Messages) /\ handler = Idle
<1>1. /\ queue # <<>> /\ queue \in Seq(Messages) /\ queue' = Tail(queue) /\ handler = Idle
      /\ Head(queue).kind = "channel"
  BY DEF FsmTypes, ChannelEventPopped, Popped
<1>2. Head(queue) \in Messages /\ Tail(queue) \in Seq(Messages)
  BY <1>1
<1>3. Head(queue) \in ChannelEvents
  BY <1>1, <1>2 DEF Messages, CommandEvents, CommandEvent
<1>4. PICK c \in Channels, v \in 0 .. 2 : Head(queue) = ChannelEvent(c, v)
  BY <1>3 DEF ChannelEvents
<1>5. Who = c
  BY <1>4 DEF ChannelEvent, Who
<1> QED
  BY <1>1, <1>2, <1>5

-----------------------------------------------------------------------------
(* The steps of the flow graph.                                            *)

IdleNeedsNoSignal == Idle.gs = 0 /\ Idle.loop = "none" /\ 0 \notin Sats

LEMMA IdleFacts == IdleNeedsNoSignal
BY ControlAssumption DEF IdleNeedsNoSignal, Idle, Sats

LEMMA DecrementedTypes ==
    ASSUME acq_count \in 0 .. NChannels PROVE Decremented \in 0 .. NChannels
BY ChannelsAssumption DEF Decremented

LEMMA FailedSignals == SignalInv /\ AcquisitionFailed => SignalInv'
<1> SUFFICES ASSUME SignalInv, AcquisitionFailed PROVE SignalInv'
  OBVIOUS
<1>1. /\ FsmTypes /\ FlowgraphTypes /\ ThreadTypes /\ NoListRepeats
      /\ SignalsConserved /\ FixedStay
  BY DEF SignalInv
<1>2. PICK c \in Channels : c = Who /\ queue' \in Seq(Messages) /\ handler = Idle
  BY <1>1, EventPopped DEF AcquisitionFailed
<1>3. /\ channels_state' = [channels_state EXCEPT ![c] = 0]
      /\ acq_count' = Decremented
      /\ handler' = Managing(c, GivesBack(c))
      /\ UNCHANGED <<state, acq, trk, events, available, assigned, threadVars, status>>
  BY <1>2 DEF AcquisitionFailed
<1>3a. ~standby /\ standby' = standby
  BY <1>3 DEF AcquisitionFailed, ChannelEventPopped, threadVars
<1>4. /\ assigned[c] \in Sats /\ NSats \in Nat /\ BandOf[c] \in Bands
      /\ GivesBack(c) \in 0 .. NSats
  BY <1>1, <1>2, ControlAssumption DEF FlowgraphTypes, GivesBack, Sats
<1>5. /\ handler' \in Handlers /\ handler'.gs = GivesBack(c) /\ handler'.who = c
      /\ handler'.loop = "manager"
  BY <1>2, <1>3, <1>4, HandlersMade DEF Managing
<1>6. FsmTypes' /\ FlowgraphTypes' /\ ThreadTypes'
  <2>1. FsmTypes'
    BY <1>1, <1>2, <1>3 DEF FsmTypes
  <2>2. acq_count' \in 0 .. NChannels
    BY <1>1, <1>3, DecrementedTypes DEF FlowgraphTypes
  <2>3. FlowgraphTypes'
    BY <1>1, <1>2, <1>3, <1>5, <2>2 DEF FlowgraphTypes
  <2> QED
    BY <1>1, <1>3, <2>1, <2>3 DEF ThreadTypes, threadVars
<1>7. /\ \A d \in Channels \ {c} : channels_state'[d] = channels_state[d]
      /\ available' = available /\ assigned' = assigned
  BY <1>1, <1>2, <1>3 DEF FlowgraphTypes
<1>8. ASSUME NEW s \in Sats, Holds(c, s) PROVE Accounted(BandOf[c], s)'
  <2>1. assigned[c] = s
    BY <1>8 DEF Holds
  <2>2. CASE FixedSat[c] = 0
    BY <1>2, <1>5, <2>1, <2>2 DEF GivesBack, Accounted
  <2>3. CASE FixedSat[c] # 0
    <3>1. Holds(c, s)'
      BY <1>1, <1>2, <1>7, <2>1, <2>3 DEF FixedStay, Holds
    <3> QED
      BY <1>2, <3>1 DEF Accounted, BandChannels
  <2> QED
    BY <2>2, <2>3
<1>9. SignalsConserved'
  <2>1. handler.gs \notin Sats
    BY <1>2, IdleFacts DEF IdleNeedsNoSignal
  <2> QED
    BY <1>1, <1>2, <1>7, <1>8, <2>1, Conserve
<1>10. NoListRepeats' /\ FixedStay' /\ HandlerAgrees'
  BY <1>1, <1>3a, <1>5, <1>7 DEF NoListRepeats, FixedStay, HandlerAgrees
<1> QED
  BY <1>6, <1>9, <1>10 DEF SignalInv

LEMMA SucceededSignals == SignalInv /\ AcquisitionSucceeded => SignalInv'
<1> SUFFICES ASSUME SignalInv, AcquisitionSucceeded PROVE SignalInv'
  OBVIOUS
<1>1. /\ FsmTypes /\ FlowgraphTypes /\ ThreadTypes /\ NoListRepeats
      /\ SignalsConserved /\ FixedStay
  BY DEF SignalInv
<1>2. PICK c \in Channels : c = Who /\ queue' \in Seq(Messages) /\ handler = Idle
  BY <1>1, EventPopped DEF AcquisitionSucceeded
<1>3. /\ channels_state' = [channels_state EXCEPT ![c] = 2]
      /\ acq_count' = Decremented
      /\ handler' = Managing(c, 0)
      /\ available' = [available EXCEPT ![BandOf[c]] = remove_signal(@, assigned[c])]
      /\ UNCHANGED <<state, acq, trk, events, assigned, threadVars, status>>
  BY <1>2 DEF AcquisitionSucceeded
<1>3a. ~standby /\ standby' = standby
  BY <1>3 DEF AcquisitionSucceeded, ChannelEventPopped, threadVars
<1> DEFINE list == remove_signal(available[BandOf[c]], assigned[c])
<1>4. /\ BandOf[c] \in Bands /\ 0 \in 0 .. NSats
      /\ available[BandOf[c]] \in Seq(Sats) /\ NoRepeats(available[BandOf[c]])
  BY <1>1, <1>2, ControlAssumption DEF FlowgraphTypes, NoListRepeats
<1>5. /\ handler' \in Handlers /\ handler'.gs = 0 /\ handler'.loop = "manager"
  BY <1>2, <1>3, <1>4, HandlersMade DEF Managing
<1>6. /\ list \in Seq(Sats) /\ NoRepeats(list)
      /\ Listed(list) = Listed(available[BandOf[c]]) \ {assigned[c]}
  BY <1>4, RemoveListed
<1>7. available' = [available EXCEPT ![BandOf[c]] = list]
  BY <1>1, <1>3, <1>4 DEF FlowgraphTypes
<1> HIDE DEF list
<1>8. /\ available' \in [Bands -> Seq(Sats)] /\ NoListRepeats'
      /\ available'[BandOf[c]] = list
      /\ \A e \in Bands \ {BandOf[c]} : available'[e] = available[e]
  BY <1>1, <1>4, <1>6, <1>7, OneBand DEF FlowgraphTypes
<1>9. FsmTypes' /\ FlowgraphTypes' /\ ThreadTypes'
  <2>1. FsmTypes'
    BY <1>1, <1>2, <1>3 DEF FsmTypes
  <2>2. acq_count' \in 0 .. NChannels
    BY <1>1, <1>3, DecrementedTypes DEF FlowgraphTypes
  <2>3. FlowgraphTypes'
    BY <1>1, <1>2, <1>3, <1>5, <1>8, <2>2 DEF FlowgraphTypes
  <2> QED
    BY <1>1, <1>3, <2>1, <2>3 DEF ThreadTypes, threadVars
<1>10. /\ \A d \in Channels \ {c} : channels_state'[d] = channels_state[d]
       /\ channels_state'[c] = 2 /\ assigned' = assigned
  BY <1>1, <1>2, <1>3 DEF FlowgraphTypes
<1>12. SignalsConserved'
  <2>1. handler.gs \notin Sats
    BY <1>2, IdleFacts DEF IdleNeedsNoSignal
  <2>2. \A s \in Sats : Holds(c, s) => Accounted(BandOf[c], s)'
    BY <1>2, <1>10 DEF Holds, Accounted, BandChannels
  <2>3. \A s : s = assigned[c] => Holds(c, s)'
    BY <1>10 DEF Holds
  <2>4. \A b \in Bands : \A s \in Listed(available[b]) :
           s \in Listed(available'[b]) \/ (b = BandOf[c] /\ Holds(c, s)')
    BY <1>6, <1>8, <2>3
  <2> QED
    BY <1>1, <1>2, <1>10, <2>1, <2>2, <2>4, Conserve
<1>13. FixedStay' /\ HandlerAgrees'
  BY <1>1, <1>3a, <1>5, <1>10 DEF FixedStay, HandlerAgrees
<1> QED
  BY <1>8, <1>9, <1>12, <1>13 DEF SignalInv

LEMMA PushedBack ==
    ASSUME FlowgraphTypes, NoListRepeats, NEW b \in Bands, NEW s \in Sats,
           available' = [available EXCEPT ![b] = push_back_signal(@, s)]
    PROVE  /\ available' \in [Bands -> Seq(Sats)] /\ NoListRepeats'
           /\ Listed(available'[b]) = Listed(available[b]) \cup {s}
           /\ \A e \in Bands \ {b} : available'[e] = available[e]
           /\ \A e \in Bands : Listed(available[e]) \subseteq Listed(available'[e])
<1> DEFINE list == push_back_signal(available[b], s)
<1>1. available[b] \in Seq(Sats) /\ NoRepeats(available[b]) /\ available \in [Bands -> Seq(Sats)]
  BY DEF FlowgraphTypes, NoListRepeats
<1>2. /\ list \in Seq(Sats) /\ NoRepeats(list)
      /\ Listed(list) = Listed(available[b]) \cup {s}
  BY <1>1, PushBackListed
<1>3. available' = [available EXCEPT ![b] = list]
  BY <1>1
<1> HIDE DEF list
<1>4. /\ available' \in [Bands -> Seq(Sats)] /\ NoListRepeats' /\ available'[b] = list
      /\ \A e \in Bands \ {b} : available'[e] = available[e]
  BY <1>1, <1>2, <1>3, OneBand
<1> QED
  BY <1>2, <1>4

LEMMA LostSignals == SignalInv /\ TrackingLost => SignalInv'
<1> SUFFICES ASSUME SignalInv, TrackingLost PROVE SignalInv'
  OBVIOUS
<1>1. /\ FsmTypes /\ FlowgraphTypes /\ ThreadTypes /\ NoListRepeats
      /\ SignalsConserved /\ FixedStay /\ HandlerAgrees
  BY DEF SignalInv
<1>2. PICK c \in Channels : c = Who /\ queue' \in Seq(Messages) /\ handler = Idle
  BY <1>1, EventPopped DEF TrackingLost
<1>3. UNCHANGED <<events, assigned, handler, threadVars, status>>
  BY DEF TrackingLost
<1>4. BandOf[c] \in Bands /\ assigned[c] \in Sats /\ handler.gs \notin Sats
  BY <1>1, <1>2, ControlAssumption, IdleFacts DEF FlowgraphTypes, IdleNeedsNoSignal
<1>5. FixedStay' /\ HandlerAgrees' /\ ThreadTypes'
  BY <1>1, <1>3 DEF FixedStay, HandlerAgrees, ThreadTypes, threadVars
<1>6. CASE acq_count < MaxAcq
  <2>1. /\ channels_state' = [channels_state EXCEPT ![c] = 1]
        /\ acq_count' = acq_count + 1
        /\ Event_start_acquisition({c}) /\ UNCHANGED available
    BY <1>2, <1>6 DEF TrackingLost
  <2>2. FsmTypes'
    BY <1>1, <1>2, <1>3, <2>1, StartTypes
  <2>3. acq_count' \in 0 .. NChannels
    BY <1>1, <1>6, <2>1, ControlAssumption, ChannelsAssumption DEF FlowgraphTypes
  <2>4. FlowgraphTypes'
    BY <1>1, <1>2, <1>3, <2>1, <2>3 DEF FlowgraphTypes
  <2>5. /\ \A d \in Channels \ {c} : channels_state'[d] = channels_state[d]
        /\ channels_state'[c] = 1
    BY <1>1, <1>2, <2>1 DEF FlowgraphTypes
  <2>6. \A s \in Sats : Holds(c, s) => Accounted(BandOf[c], s)'
    BY <1>3, <2>5 DEF Holds, Accounted, BandChannels
  <2>7. SignalsConserved'
    BY <1>1, <1>3, <1>4, <2>1, <2>5, <2>6, Conserve
  <2>8. NoListRepeats'
    BY <1>1, <2>1 DEF NoListRepeats
  <2> QED
    BY <1>5, <2>2, <2>4, <2>7, <2>8 DEF SignalInv
<1>7. CASE ~(acq_count < MaxAcq)
  <2>1. /\ channels_state' = [channels_state EXCEPT ![c] = 0]
        /\ available' = IF FixedSat[c] # 0 THEN available
                         ELSE [available EXCEPT ![BandOf[c]] = push_back_signal(@, assigned[c])]
        /\ UNCHANGED <<acq_count, state, acq, trk>>
    BY <1>2, <1>7 DEF TrackingLost
  <2>2. FsmTypes'
    BY <1>1, <1>2, <1>3, <2>1 DEF FsmTypes
  <2>3. /\ available' \in [Bands -> Seq(Sats)] /\ NoListRepeats'
        /\ \A b \in Bands : Listed(available[b]) \subseteq Listed(available'[b])
        /\ FixedSat[c] = 0 => assigned[c] \in Listed(available'[BandOf[c]])
    <3>1. CASE FixedSat[c] # 0
      BY <1>1, <2>1, <3>1 DEF FlowgraphTypes, NoListRepeats
    <3>2. CASE FixedSat[c] = 0
      <4>1. available' = [available EXCEPT ![BandOf[c]] = push_back_signal(@, assigned[c])]
        BY <2>1, <3>2
      <4>2. /\ available' \in [Bands -> Seq(Sats)] /\ NoListRepeats'
            /\ Listed(available'[BandOf[c]]) = Listed(available[BandOf[c]]) \cup {assigned[c]}
            /\ \A b \in Bands : Listed(available[b]) \subseteq Listed(available'[b])
        BY <1>1, <1>4, <4>1, PushedBack
      <4> QED
        BY <4>2
    <3> QED
      BY <3>1, <3>2
  <2>4. FlowgraphTypes'
    BY <1>1, <1>2, <1>3, <2>1, <2>3 DEF FlowgraphTypes
  <2>5. \A d \in Channels \ {c} : channels_state'[d] = channels_state[d]
    BY <1>1, <1>2, <2>1 DEF FlowgraphTypes
  <2>6. \A s \in Sats : Holds(c, s) => Accounted(BandOf[c], s)'
    <3> SUFFICES ASSUME NEW s \in Sats, Holds(c, s) PROVE Accounted(BandOf[c], s)'
      OBVIOUS
    <3>1. assigned[c] = s
      BY DEF Holds
    <3>2. CASE FixedSat[c] = 0
      BY <2>3, <3>1, <3>2 DEF Accounted
    <3>3. CASE FixedSat[c] # 0
      <4>1. Holds(c, s)'
        BY <1>1, <1>3, <3>1, <3>3 DEF FixedStay, Holds
      <4> QED
        BY <4>1 DEF Accounted, BandChannels
    <3> QED
      BY <3>2, <3>3
  <2>7. SignalsConserved'
    BY <1>1, <1>3, <1>4, <2>3, <2>5, <2>6, Conserve
  <2> QED
    BY <1>5, <2>2, <2>3, <2>4, <2>7 DEF SignalInv
<1> QED
  BY <1>6, <1>7

(* StartChannel on a channel, with its signal.                             *)
LEMMA StartedTypes ==
    ASSUME FsmTypes, FlowgraphTypes, NEW c \in Channels, SlotFor(c), StartChannel(c)
    PROVE  /\ FsmTypes' /\ acq_count' \in 0 .. NChannels
           /\ channels_state' \in [Channels -> 0 .. 2] /\ channels_state'[c] = 1
           /\ \A d \in Channels \ {c} : channels_state'[d] = channels_state[d]
<1>1. /\ channels_state' = [channels_state EXCEPT ![c] = 1]
      /\ acq_count' = acq_count + 1 /\ acq_count < MaxAcq
      /\ Event_start_acquisition({c}) /\ UNCHANGED <<events, queue>>
  BY DEF StartChannel, SlotFor
<1>2. queue' \in Seq(Messages)
  BY <1>1 DEF FsmTypes
<1>3. FsmTypes'
  BY <1>1, <1>2, StartTypes
<1>4. acq_count' \in 0 .. NChannels
  BY <1>1, ControlAssumption, ChannelsAssumption DEF FlowgraphTypes
<1> QED
  BY <1>1, <1>3, <1>4 DEF FlowgraphTypes

(* The turn of the manager ends with the next channel.                     *)
LEMMA TurnEnds ==
    ASSUME SignalInv, ManagerTurn, Advance, UNCHANGED threadVars
    PROVE  /\ handler' \in Handlers /\ HandlerAgrees' /\ ThreadTypes'
           /\ handler'.gs = handler.gs /\ handler'.who = handler.who
<1>1. handler \in Handlers /\ handler.i < NChannels /\ HandlerAgrees /\ ThreadTypes
  BY DEF SignalInv, FlowgraphTypes, ManagerTurn
<1>2. handler' \in Handlers
  BY <1>1, HandlersMade
<1>3. /\ handler'.loop = handler.loop /\ handler'.who = handler.who /\ handler'.gs = handler.gs
  BY <1>1, AdvanceKeeps
<1> QED
  BY <1>1, <1>2, <1>3 DEF HandlerAgrees, ThreadTypes, threadVars

LEMMA StartsFixedSignals == SignalInv /\ ManagerStartsFixed => SignalInv'
<1> SUFFICES ASSUME SignalInv, ManagerStartsFixed PROVE SignalInv'
  OBVIOUS
<1>1. /\ FsmTypes /\ FlowgraphTypes /\ NoListRepeats /\ SignalsConserved /\ FixedStay
  BY DEF SignalInv
<1>2. PICK c \in Channels : c = Current
  BY <1>1, CurrentChannel DEF FlowgraphTypes
<1>3. /\ ManagerTurn /\ SlotFor(c) /\ FixedSat[c] # 0 /\ StartChannel(c) /\ Advance
      /\ UNCHANGED <<available, assigned, threadVars, status>>
  BY <1>2 DEF ManagerStartsFixed
<1>4. /\ FsmTypes' /\ acq_count' \in 0 .. NChannels
      /\ channels_state' \in [Channels -> 0 .. 2] /\ channels_state'[c] = 1
      /\ \A d \in Channels \ {c} : channels_state'[d] = channels_state[d]
  BY <1>1, <1>3, StartedTypes
<1>5. /\ handler' \in Handlers /\ HandlerAgrees' /\ ThreadTypes'
      /\ handler'.gs = handler.gs /\ handler'.who = handler.who
  BY <1>3, TurnEnds
<1>6. FlowgraphTypes'
  BY <1>1, <1>3, <1>4, <1>5 DEF FlowgraphTypes
<1>7. \A s \in Sats : Holds(c, s) => Accounted(BandOf[c], s)'
  BY <1>3, <1>4 DEF Holds, Accounted, BandChannels
<1>8. \A b \in Bands, s \in Sats : handler.gs = s /\ BandOf[handler.who] = b => Accounted(b, s)'
  BY <1>5 DEF Accounted
<1>9. SignalsConserved'
  BY <1>1, <1>3, <1>4, <1>7, <1>8, Conserve
<1>10. NoListRepeats' /\ FixedStay'
  BY <1>1, <1>3 DEF NoListRepeats, FixedStay
<1> QED
  BY <1>4, <1>5, <1>6, <1>9, <1>10 DEF SignalInv

LEMMA SearchesSignals == SignalInv /\ ManagerSearches => SignalInv'
<1> SUFFICES ASSUME SignalInv, ManagerSearches PROVE SignalInv'
  OBVIOUS
<1>1. /\ FsmTypes /\ FlowgraphTypes /\ NoListRepeats /\ SignalsConserved /\ FixedStay
  BY DEF SignalInv
<1>2. PICK c \in Channels : c = Current
  BY <1>1, CurrentChannel DEF FlowgraphTypes
<1>2a. PICK b \in Bands : b = BandOf[c]
  BY <1>2, ControlAssumption
<1>3. /\ ManagerTurn /\ SlotFor(c) /\ FixedSat[c] = 0 /\ Advance
      /\ assigned' = [assigned EXCEPT ![c] = NextSat(b)]
      /\ UNCHANGED <<threadVars, status>>
  BY <1>2, <1>2a DEF ManagerSearches
<1>4. available[b] # <<>> /\ NoRepeats(available[b]) /\ available[b] \in Seq(Sats)
  BY <1>1, <1>2, <1>2a, <1>3, SearchFinds
     DEF SearchFindsSignal, NoListRepeats, FlowgraphTypes
<1>5. PICK g \in Sats : g = NextSat(b)
  BY <1>1, <1>4, NextSatProperties
<1>5a. PICK list \in Seq(Sats) : list = ListAfterSearch(b)
  BY <1>1, <1>4, NextSatProperties
<1>6. NoRepeats(list) /\ Listed(available[b]) = Listed(list) \cup {g}
  BY <1>1, <1>4, <1>5, <1>5a, NextSatProperties
<1>7. /\ handler' \in Handlers /\ HandlerAgrees' /\ ThreadTypes'
      /\ handler'.gs = handler.gs /\ handler'.who = handler.who
  BY <1>3, TurnEnds
<1>8. /\ assigned' \in [Channels -> Sats] /\ assigned'[c] = g
      /\ \A d \in Channels \ {c} : assigned'[d] = assigned[d]
  BY <1>1, <1>3, <1>5 DEF FlowgraphTypes
<1>9. FixedStay'
  BY <1>1, <1>3, <1>8 DEF FixedStay
<1>10. \A s \in Sats : ~Holds(c, s)
  <2>1. 0 \notin Sats
    BY IdleFacts DEF IdleNeedsNoSignal
  <2> QED
    BY <1>3, <2>1 DEF Holds, SlotFor
<1>11. \A e \in Bands, s \in Sats : handler.gs = s /\ BandOf[handler.who] = e => Accounted(e, s)'
  BY <1>7 DEF Accounted
<1>12. CASE StartAllowed(b)
  <2>1. available' = [available EXCEPT ![b] = list] /\ StartChannel(c)
    BY <1>2, <1>2a, <1>5a, <1>12 DEF ManagerSearches
  <2>2. /\ available' \in [Bands -> Seq(Sats)] /\ NoListRepeats' /\ available'[b] = list
        /\ \A e \in Bands \ {b} : available'[e] = available[e]
    BY <1>1, <1>6, <2>1, OneBand DEF FlowgraphTypes
  <2>3. /\ FsmTypes' /\ acq_count' \in 0 .. NChannels
        /\ channels_state' \in [Channels -> 0 .. 2] /\ channels_state'[c] = 1
        /\ \A d \in Channels \ {c} : channels_state'[d] = channels_state[d]
    BY <1>1, <1>3, <2>1, StartedTypes
  <2>4. FlowgraphTypes'
    BY <1>1, <1>3, <1>7, <1>8, <2>2, <2>3 DEF FlowgraphTypes
  <2>5. \A s : s = g => Holds(c, s)'
    BY <1>8, <2>3 DEF Holds
  <2>6. \A e \in Bands : \A s \in Listed(available[e]) :
           s \in Listed(available'[e]) \/ (e = BandOf[c] /\ Holds(c, s)')
    BY <1>2a, <1>6, <2>2, <2>5
  <2>7. SignalsConserved'
    BY <1>1, <1>8, <1>10, <1>11, <2>3, <2>6, Conserve
  <2> QED
    BY <1>7, <1>9, <2>2, <2>3, <2>4, <2>7 DEF SignalInv
<1>13. CASE ~StartAllowed(b)
  <2>1. /\ available' = [available EXCEPT ![b] = push_back_signal(list, g)]
        /\ UNCHANGED <<fsmVars, channels_state, acq_count>>
    BY <1>2, <1>2a, <1>5, <1>5a, <1>13 DEF ManagerSearches
  <2> DEFINE back == push_back_signal(list, g)
  <2>2. back \in Seq(Sats) /\ NoRepeats(back) /\ Listed(back) = Listed(available[b])
    BY <1>6, PushBackListed
  <2> HIDE DEF back
  <2>3. /\ available' \in [Bands -> Seq(Sats)] /\ NoListRepeats' /\ available'[b] = back
        /\ \A e \in Bands \ {b} : available'[e] = available[e]
    BY <1>1, <2>1, <2>2, OneBand DEF FlowgraphTypes, back
  <2>4. FsmTypes' /\ FlowgraphTypes'
    BY <1>1, <1>3, <1>7, <1>8, <2>1, <2>3 DEF FlowgraphTypes, FsmTypes, fsmVars
  <2>5. \A e \in Bands : Listed(available[e]) = Listed(available'[e])
    BY <2>2, <2>3
  <2>6. SignalsConserved'
    BY <1>1, <1>8, <1>10, <1>11, <2>1, <2>5, Conserve
  <2> QED
    BY <1>7, <1>9, <2>3, <2>4, <2>6 DEF SignalInv
<1> QED
  BY <1>12, <1>13

(* Nothing that the lists depend on changes, except that signals may come  *)
(* back to them.                                                           *)
LEMMA ConserveMore ==
    ASSUME SignalsConserved, UNCHANGED <<assigned, channels_state>>,
           \A b \in Bands : Listed(available[b]) \subseteq Listed(available'[b]),
           \A b \in Bands, s \in Sats :
               handler.gs = s /\ BandOf[handler.who] = b => Accounted(b, s)'
    PROVE  SignalsConserved'
<1>1. PICK c \in Channels : TRUE
  BY ChannelsAssumption DEF Channels
<1>2. \A s \in Sats : Holds(c, s) => Accounted(BandOf[c], s)'
  BY DEF Holds, Accounted, BandChannels
<1> QED
  BY <1>2, Conserve

LEMMA ManagerReturnsSignals == SignalInv /\ ManagerReturns => SignalInv'
<1> SUFFICES ASSUME SignalInv, ManagerReturns PROVE SignalInv'
  OBVIOUS
<1>1. /\ FsmTypes /\ FlowgraphTypes /\ ThreadTypes /\ NoListRepeats
      /\ SignalsConserved /\ FixedStay
  BY DEF SignalInv
<1>2. /\ handler' = Idle
      /\ UNCHANGED <<fsmVars, channels_state, acq_count, assigned, threadVars, status>>
  BY DEF ManagerReturns
<1>3. /\ handler' \in Handlers /\ HandlerAgrees'
  BY <1>2, HandlersMade DEF HandlerAgrees, Idle
<1>4. PICK b \in Bands : b = BandOf[handler.who]
  BY <1>1, HandlerFields, ControlAssumption DEF FlowgraphTypes
<1>4a. PICK g \in 0 .. NSats : g = handler.gs
  BY <1>1, HandlerFields DEF FlowgraphTypes
<1>5. /\ available' \in [Bands -> Seq(Sats)] /\ NoListRepeats'
      /\ \A e \in Bands : Listed(available[e]) \subseteq Listed(available'[e])
      /\ g # 0 => g \in Listed(available'[b])
  <2>1. CASE g # 0
    <3>1. available' = [available EXCEPT ![b] = push_back_signal(@, g)]
      BY <1>4, <1>4a, <2>1 DEF ManagerReturns
    <3>2. g \in Sats
      BY <2>1, ControlAssumption DEF Sats
    <3>3. /\ available' \in [Bands -> Seq(Sats)] /\ NoListRepeats'
          /\ Listed(available'[b]) = Listed(available[b]) \cup {g}
          /\ \A e \in Bands : Listed(available[e]) \subseteq Listed(available'[e])
      BY <1>1, <3>1, <3>2, PushedBack
    <3> QED
      BY <3>3
  <2>2. CASE g = 0
    BY <1>1, <1>4a, <2>2 DEF ManagerReturns, FlowgraphTypes, NoListRepeats
  <2> QED
    BY <2>1, <2>2
<1>6. FsmTypes' /\ FlowgraphTypes' /\ ThreadTypes' /\ FixedStay'
  BY <1>1, <1>2, <1>3, <1>5
     DEF FsmTypes, FlowgraphTypes, ThreadTypes, FixedStay, fsmVars, threadVars
<1>7. \A e \in Bands, s \in Sats : handler.gs = s /\ BandOf[handler.who] = e => Accounted(e, s)'
  <2>1. 0 \notin Sats
    BY IdleFacts DEF IdleNeedsNoSignal
  <2> QED
    BY <1>4, <1>4a, <1>5, <2>1 DEF Accounted
<1>8. SignalsConserved'
  BY <1>1, <1>2, <1>5, <1>7, ConserveMore
<1> QED
  BY <1>3, <1>5, <1>6, <1>8 DEF SignalInv

LEMMA StandbyStopsSignals == SignalInv /\ StandbyStopsChannel => SignalInv'
<1> SUFFICES ASSUME SignalInv, StandbyStopsChannel PROVE SignalInv'
  OBVIOUS
<1>1. /\ FsmTypes /\ FlowgraphTypes /\ ThreadTypes /\ NoListRepeats
      /\ SignalsConserved /\ FixedStay /\ HandlerAgrees
  BY DEF SignalInv
<1>2. /\ handler \in Handlers /\ handler.loop # "manager" /\ handler.i < NChannels /\ Advance
      /\ handler.i \in 0 .. NChannels
  BY <1>1, HandlerFields DEF StandbyStopsChannel, StoppingTurn, FlowgraphTypes
<1>3. PICK c \in Channels : c = handler.i
  BY <1>2, ChannelsAssumption DEF Channels
<1>4. PICK b \in Bands : b = BandOf[c]
  BY ControlAssumption
<1>5. PICK g \in Sats : g = assigned[c]
  BY <1>1 DEF FlowgraphTypes
<1>6. /\ available' = [available EXCEPT ![b] = push_back_signal(@, g)]
      /\ Event_stop_channel({c})
      /\ channels_state' = [channels_state EXCEPT ![c] = 0]
      /\ UNCHANGED <<events, queue, acq_count, assigned, threadVars, status>>
  BY <1>3, <1>4, <1>5 DEF StandbyStopsChannel
<1>7. /\ handler' \in Handlers
      /\ handler'.loop = handler.loop /\ handler'.who = handler.who /\ handler'.gs = handler.gs
  BY <1>2, HandlersMade, AdvanceKeeps
<1>8. HandlerAgrees' /\ ThreadTypes' /\ FixedStay'
  BY <1>1, <1>6, <1>7 DEF HandlerAgrees, ThreadTypes, FixedStay, threadVars
<1>9. FsmTypes'
  BY <1>1, <1>6, StopTypes
<1>10. /\ available' \in [Bands -> Seq(Sats)] /\ NoListRepeats'
       /\ Listed(available'[b]) = Listed(available[b]) \cup {g}
       /\ \A e \in Bands : Listed(available[e]) \subseteq Listed(available'[e])
  BY <1>1, <1>6, PushedBack
<1>11. /\ channels_state' \in [Channels -> 0 .. 2]
       /\ \A d \in Channels \ {c} : channels_state'[d] = channels_state[d]
  BY <1>1, <1>6 DEF FlowgraphTypes
<1>12. FlowgraphTypes'
  BY <1>1, <1>6, <1>7, <1>10, <1>11 DEF FlowgraphTypes
<1>13. \A s \in Sats : Holds(c, s) => Accounted(BandOf[c], s)'
  BY <1>4, <1>5, <1>10 DEF Holds, Accounted
<1>14. handler.gs \notin Sats
  BY <1>1, <1>2, IdleFacts DEF HandlerAgrees, IdleNeedsNoSignal
<1>15. SignalsConserved'
  BY <1>1, <1>6, <1>10, <1>11, <1>13, <1>14, Conserve
<1> QED
  BY <1>8, <1>9, <1>10, <1>12, <1>15 DEF SignalInv

LEMMA StandbyReturnsSignals == SignalInv /\ StandbyReturns => SignalInv'
<1> SUFFICES ASSUME SignalInv, StandbyReturns PROVE SignalInv'
  OBVIOUS
<1>1. /\ FsmTypes /\ FlowgraphTypes /\ ThreadTypes /\ NoListRepeats
      /\ SignalsConserved /\ FixedStay /\ HandlerAgrees
  BY DEF SignalInv
<1>2. /\ handler' = Idle /\ acq_count' = 0 /\ handler.loop # "manager"
      /\ UNCHANGED <<fsmVars, channels_state, assigned, threadVars, status>>
  BY DEF StandbyReturns
<1>3. /\ handler' \in Handlers /\ HandlerAgrees'
  BY <1>2, HandlersMade DEF HandlerAgrees, Idle
<1>4. /\ available' \in [Bands -> Seq(Sats)] /\ NoListRepeats'
      /\ \A b \in Bands : Listed(available'[b]) = Listed(available[b])
  <2>1. CASE handler.loop = "assist"
    <3>1. PICK visible \in VisibleLists :
            available' = [b \in Bands |-> priorize_satellites(available[b], visible[b])]
      BY <2>1 DEF StandbyReturns
    <3>2. visible \in [Bands -> Seq(Sats)] /\ \A b \in Bands : NoRepeats(visible[b])
      BY ControlAssumption
    <3> QED
      BY <1>1, <3>1, <3>2, Priorized DEF FlowgraphTypes
  <2>2. CASE handler.loop # "assist"
    BY <1>1, <2>2 DEF StandbyReturns, FlowgraphTypes, NoListRepeats
  <2> QED
    BY <2>1, <2>2
<1>5. FsmTypes' /\ ThreadTypes' /\ FixedStay'
  BY <1>1, <1>2 DEF FsmTypes, ThreadTypes, FixedStay, fsmVars, threadVars
<1>6. FlowgraphTypes'
  <2>1. 0 \in 0 .. NChannels
    BY ChannelsAssumption
  <2> QED
    BY <1>1, <1>2, <1>3, <1>4, <2>1 DEF FlowgraphTypes
<1>7. handler.gs \notin Sats
  BY <1>1, <1>2, IdleFacts DEF HandlerAgrees, IdleNeedsNoSignal
<1>8. SignalsConserved'
  BY <1>1, <1>2, <1>4, <1>7, ConserveMore
<1> QED
  BY <1>3, <1>4, <1>5, <1>6, <1>8 DEF SignalInv

(* Popping a command leaves a queue of messages.                           *)
LEMMA CommandTypes ==
    ASSUME FsmTypes, NEW id, NEW what, CommandPopped(id, what)
    PROVE  FsmTypes' /\ handler = Idle
<1>1. /\ queue # <<>> /\ queue' = Tail(queue) /\ queue \in Seq(Messages)
      /\ handler = Idle /\ UNCHANGED <<state, acq, trk, events>>
  BY DEF CommandPopped, Popped, FsmTypes
<1>2. queue' \in Seq(Messages)
  BY <1>1
<1> QED
  BY <1>1, <1>2 DEF FsmTypes

LEMMA StartSignals ==
    ASSUME SignalInv, NEW what, NEW visible \in [Bands -> Seq(Sats)],
           \A b \in Bands : NoRepeats(visible[b]), Start(what, visible)
    PROVE  SignalInv'
<1>1. /\ FsmTypes /\ FlowgraphTypes /\ ThreadTypes /\ NoListRepeats
      /\ SignalsConserved /\ FixedStay /\ HandlerAgrees
  BY DEF SignalInv
<1>2. /\ available' = [b \in Bands |-> priorize_satellites(available[b], visible[b])]
      /\ standby' = FALSE
      /\ UNCHANGED <<channels_state, acq_count, assigned, stop, running, commands, status, handler>>
  BY DEF Start
<1>3. FsmTypes'
  BY <1>1, CommandTypes DEF Start
<1>4. /\ available' \in [Bands -> Seq(Sats)] /\ NoListRepeats'
      /\ \A b \in Bands : Listed(available'[b]) = Listed(available[b])
  BY <1>1, <1>2, Priorized DEF FlowgraphTypes
<1>5. FlowgraphTypes' /\ FixedStay' /\ HandlerAgrees'
  BY <1>1, <1>2, <1>4 DEF FlowgraphTypes, FixedStay, HandlerAgrees
<1>6. ThreadTypes'
  BY <1>1, <1>2, Zenon DEF ThreadTypes
<1>7. \A b \in Bands, s \in Sats : handler.gs = s /\ BandOf[handler.who] = b => Accounted(b, s)'
  BY <1>2 DEF Accounted
<1>8. SignalsConserved'
  BY <1>1, <1>2, <1>4, <1>7, ConserveMore
<1> QED
  BY <1>3, <1>4, <1>5, <1>6, <1>8 DEF SignalInv

(* Nothing of the flow graph changes but the handler and the status map.   *)
LEMMA QuietSignals ==
    ASSUME SignalInv, FsmTypes', ThreadTypes', HandlerAgrees', handler' \in Handlers,
           status' \in [Channels -> 0 .. NSats],
           UNCHANGED <<channels_state, acq_count, available, assigned>>,
           handler.gs = 0 \/ (handler'.gs = handler.gs /\ handler'.who = handler.who)
    PROVE  SignalInv'
<1>1. FlowgraphTypes /\ NoListRepeats /\ SignalsConserved /\ FixedStay
  BY DEF SignalInv
<1>2. FlowgraphTypes' /\ NoListRepeats' /\ FixedStay'
  BY <1>1 DEF FlowgraphTypes, NoListRepeats, FixedStay
<1>3. 0 \notin Sats
  BY IdleFacts DEF IdleNeedsNoSignal
<1>4. \A b \in Bands, s \in Sats : handler.gs = s /\ BandOf[handler.who] = b => Accounted(b, s)'
  BY <1>3 DEF Accounted
<1>5. SignalsConserved'
  BY <1>1, <1>4, ConserveMore
<1> QED
  BY <1>2, <1>5 DEF SignalInv

LEMMA CommandPushed ==
    ASSUME FsmTypes, NEW cmd \in Commands \cup {<<200, 0>>},
           queue' = Append(queue, CommandEvent(cmd[1], cmd[2])), UNCHANGED <<state, acq, trk, events>>
    PROVE  FsmTypes'
<1>1. CommandEvent(cmd[1], cmd[2]) \in Messages
  BY DEF Messages, CommandEvents
<1> QED
  BY <1>1 DEF FsmTypes

LEMMA ManagerSignals == SignalInv /\ acquisition_manager => SignalInv'
<1> SUFFICES ASSUME SignalInv, ManagerSkips PROVE SignalInv'
  BY StartsFixedSignals, SearchesSignals, ManagerReturnsSignals DEF acquisition_manager
<1>1. /\ ManagerTurn /\ Advance /\ UNCHANGED <<fsmVars, flowgraphVars, threadVars, status>>
  BY DEF ManagerSkips
<1>2. /\ handler' \in Handlers /\ HandlerAgrees' /\ ThreadTypes'
      /\ handler'.gs = handler.gs /\ handler'.who = handler.who
  BY <1>1, TurnEnds
<1>3. FsmTypes' /\ status' \in [Channels -> 0 .. NSats]
  BY <1>1 DEF SignalInv, FsmTypes, FlowgraphTypes, fsmVars
<1> QED
  BY <1>1, <1>2, <1>3, QuietSignals DEF flowgraphVars

LEMMA ControlThreadSignals == SignalInv /\ ControlThread => SignalInv'
<1> SUFFICES ASSUME SignalInv, ControlThread PROVE SignalInv'
  OBVIOUS
<1>1. /\ FsmTypes /\ FlowgraphTypes /\ ThreadTypes /\ HandlerAgrees /\ handler \in Handlers
      /\ status \in [Channels -> 0 .. NSats]
  BY DEF SignalInv, FlowgraphTypes
<1>2. CASE EventDropped
  <2>1. /\ queue # <<>> /\ queue' = Tail(queue) /\ queue \in Seq(Messages)
        /\ UNCHANGED <<state, acq, trk, events, flowgraphVars, threadVars, status, handler>>
    BY <1>1, <1>2 DEF EventDropped, Popped, FsmTypes
  <2>2. queue' \in Seq(Messages)
    BY <2>1
  <2>3. FsmTypes' /\ ThreadTypes' /\ HandlerAgrees'
    BY <1>1, <2>1, <2>2 DEF FsmTypes, ThreadTypes, HandlerAgrees, threadVars
  <2> QED
    BY <1>1, <2>1, <2>3, QuietSignals DEF flowgraphVars
<1>3. CASE Timeout
  <2>1. /\ handler = Idle /\ handler' = Managing(0, 0) /\ ~standby
        /\ UNCHANGED <<fsmVars, flowgraphVars, threadVars, status>>
    BY <1>3 DEF Timeout
  <2>2. 0 \in Channels /\ 0 \in 0 .. NSats
    BY ChannelsAssumption, ControlAssumption DEF Channels
  <2>3. handler' \in Handlers /\ handler.gs = 0
    BY <2>1, <2>2, HandlersMade DEF Idle
  <2>4. handler'.loop = "manager" /\ standby' = standby
    BY <2>1 DEF Managing, threadVars
  <2>5. FsmTypes' /\ ThreadTypes' /\ HandlerAgrees'
    BY <1>1, <2>1, <2>4 DEF FsmTypes, ThreadTypes, HandlerAgrees, fsmVars, threadVars
  <2> QED
    BY <1>1, <2>1, <2>3, <2>5, QuietSignals DEF flowgraphVars
<1>4. CASE TimeoutInStandby
  <2>1. UNCHANGED vars
    BY <1>4 DEF TimeoutInStandby
  <2>2. FsmTypes' /\ ThreadTypes' /\ HandlerAgrees'
    BY <1>1, <2>1 DEF FsmTypes, ThreadTypes, HandlerAgrees, fsmVars, threadVars, vars
  <2> QED
    BY <1>1, <2>1, <2>2, QuietSignals DEF flowgraphVars, vars
<1>5. CASE StandbySkips
  <2>1. /\ handler.i < NChannels /\ Advance
        /\ UNCHANGED <<fsmVars, flowgraphVars, threadVars, status>>
    BY <1>5 DEF StandbySkips, StoppingTurn
  <2>2. /\ handler' \in Handlers
        /\ handler'.loop = handler.loop /\ handler'.who = handler.who /\ handler'.gs = handler.gs
    BY <1>1, <2>1, HandlersMade, AdvanceKeeps
  <2>3. FsmTypes' /\ ThreadTypes' /\ HandlerAgrees'
    BY <1>1, <2>1, <2>2 DEF FsmTypes, ThreadTypes, HandlerAgrees, fsmVars, threadVars
  <2> QED
    BY <1>1, <2>1, <2>2, <2>3, QuietSignals DEF flowgraphVars
<1>6. CASE StopCommand
  <2>1. FsmTypes'
    BY <1>1, <1>6, CommandTypes DEF StopCommand
  <2>2. /\ stop' = TRUE
        /\ UNCHANGED <<flowgraphVars, standby, running, commands, status, handler>>
    BY <1>6 DEF StopCommand
  <2>3. ThreadTypes' /\ HandlerAgrees'
    BY <1>1, <2>2 DEF ThreadTypes, HandlerAgrees
  <2> QED
    BY <1>1, <2>1, <2>2, <2>3, QuietSignals DEF flowgraphVars
<1>7. CASE StandbyCommand
  <2>1. FsmTypes' /\ handler = Idle
    BY <1>1, <1>7, CommandTypes DEF StandbyCommand
  <2>2. /\ standby' = TRUE /\ handler' = Stopping("standby")
        /\ UNCHANGED <<flowgraphVars, stop, running, commands, status>>
    BY <1>7 DEF StandbyCommand
  <2>3. handler' \in Handlers /\ handler'.loop = "standby" /\ handler'.gs = 0 /\ handler.gs = 0
    BY <2>1, <2>2, HandlersMade DEF Idle, Stopping
  <2>4. ThreadTypes' /\ HandlerAgrees'
    BY <1>1, <2>2, <2>3 DEF ThreadTypes, HandlerAgrees
  <2> QED
    BY <1>1, <2>1, <2>2, <2>3, <2>4, QuietSignals DEF flowgraphVars
<1>8. CASE ColdStart \/ WarmStart
  <2> DEFINE none == [b \in Bands |-> <<>>]
  <2>1. none \in [Bands -> Seq(Sats)] /\ \A b \in Bands : NoRepeats(none[b])
    BY DEF NoRepeats
  <2>2. Start(11, none) \/ Start(13, none)
    BY <1>8 DEF ColdStart, WarmStart
  <2> HIDE DEF none
  <2> QED
    BY <2>1, <2>2, StartSignals
<1>9. CASE HotStart
  <2>1. PICK visible \in VisibleLists : Start(12, visible)
    BY <1>9 DEF HotStart
  <2>2. visible \in [Bands -> Seq(Sats)] /\ \A b \in Bands : NoRepeats(visible[b])
    BY ControlAssumption
  <2> QED
    BY <2>1, <2>2, StartSignals
<1> QED
  BY <1>2, <1>3, <1>4, <1>5, <1>6, <1>7, <1>8, <1>9, FailedSignals, SucceededSignals,
     LostSignals, ManagerSignals, StandbyStopsSignals, StandbyReturnsSignals DEF ControlThread

LEMMA StopFlowgraphSignals == SignalInv /\ StopFlowgraph => SignalInv'
<1> SUFFICES ASSUME SignalInv, StopFlowgraph PROVE SignalInv'
  OBVIOUS
<1>1. /\ FsmTypes /\ FlowgraphTypes /\ ThreadTypes /\ HandlerAgrees /\ handler \in Handlers
      /\ status \in [Channels -> 0 .. NSats]
  BY DEF SignalInv, FlowgraphTypes
<1>2. CASE StopBegins
  <2>1. /\ handler = Idle /\ handler' = Stopping("stop")
        /\ UNCHANGED <<fsmVars, flowgraphVars, threadVars, status>>
    BY <1>2 DEF StopBegins
  <2>2. handler' \in Handlers /\ handler'.loop = "stop" /\ handler'.gs = 0 /\ handler.gs = 0
    BY <2>1, HandlersMade DEF Idle, Stopping
  <2>3. FsmTypes' /\ ThreadTypes' /\ HandlerAgrees'
    BY <1>1, <2>1, <2>2 DEF FsmTypes, ThreadTypes, HandlerAgrees, fsmVars, threadVars
  <2> QED
    BY <1>1, <2>1, <2>2, <2>3, QuietSignals DEF flowgraphVars
<1>3. CASE StopsChannel
  <2>1. /\ handler.i < NChannels /\ Event_stop_channel({handler.i}) /\ Advance
        /\ UNCHANGED <<events, queue, flowgraphVars, threadVars, status>>
    BY <1>3 DEF StopsChannel
  <2>2. /\ handler' \in Handlers
        /\ handler'.loop = handler.loop /\ handler'.who = handler.who /\ handler'.gs = handler.gs
    BY <1>1, <2>1, HandlersMade, AdvanceKeeps
  <2>3. FsmTypes'
    BY <1>1, <2>1, StopTypes
  <2>4. ThreadTypes' /\ HandlerAgrees'
    BY <1>1, <2>1, <2>2 DEF ThreadTypes, HandlerAgrees, threadVars
  <2> QED
    BY <1>1, <2>1, <2>2, <2>3, <2>4, QuietSignals DEF flowgraphVars
<1>4. CASE BlocksStopped
  <2>1. /\ handler.loop # "manager" /\ handler' = Idle /\ running' = FALSE
        /\ UNCHANGED <<fsmVars, flowgraphVars, standby, stop, commands, status>>
    BY <1>4 DEF BlocksStopped
  <2>2. handler' \in Handlers /\ handler'.loop = "none" /\ handler'.gs = 0 /\ handler.gs = 0
    BY <1>1, <2>1, HandlersMade DEF Idle, HandlerAgrees
  <2>3. FsmTypes' /\ ThreadTypes' /\ HandlerAgrees'
    BY <1>1, <2>1, <2>2 DEF FsmTypes, ThreadTypes, HandlerAgrees, fsmVars
  <2> QED
    BY <1>1, <2>1, <2>2, <2>3, QuietSignals DEF flowgraphVars
<1> QED
  BY <1>2, <1>3, <1>4 DEF StopFlowgraph

LEMMA SignalInvStep == SignalInv /\ [Next]_vars => SignalInv'
<1> SUFFICES ASSUME SignalInv, [Next]_vars PROVE SignalInv'
  OBVIOUS
<1>1. /\ FsmTypes /\ FlowgraphTypes /\ ThreadTypes /\ HandlerAgrees /\ handler \in Handlers
      /\ status \in [Channels -> 0 .. NSats] /\ assigned \in [Channels -> Sats]
  BY DEF SignalInv, FlowgraphTypes
<1>1a. commands > 0 => commands - 1 \in 0 .. MaxCommands
  BY <1>1, ControlAssumption DEF ThreadTypes
<1>2. CASE PushCommand
  <2>1. PICK cmd \in Commands : queue' = Append(queue, CommandEvent(cmd[1], cmd[2]))
    BY <1>2 DEF PushCommand
  <2>2. /\ commands > 0 /\ commands' = commands - 1
        /\ UNCHANGED <<state, acq, trk, events, flowgraphVars, standby, stop, running, status, handler>>
    BY <1>2 DEF PushCommand
  <2>3. FsmTypes'
    BY <1>1, <2>1, <2>2, CommandPushed
  <2>4. ThreadTypes' /\ HandlerAgrees'
    BY <1>1, <1>1a, <2>2 DEF ThreadTypes, HandlerAgrees
  <2> QED
    BY <1>1, <2>2, <2>3, <2>4, QuietSignals DEF flowgraphVars
<1>3. CASE QuitKey
  <2>1. queue' = Append(queue, CommandEvent(<<200, 0>>[1], <<200, 0>>[2]))
    BY <1>3 DEF QuitKey
  <2>2. /\ commands > 0 /\ commands' = commands - 1 /\ stop' = TRUE
        /\ UNCHANGED <<state, acq, trk, events, flowgraphVars, standby, running, status, handler>>
    BY <1>3 DEF QuitKey
  <2>3. FsmTypes'
    BY <1>1, <2>1, <2>2, CommandPushed
  <2>4. ThreadTypes' /\ HandlerAgrees'
    BY <1>1, <1>1a, <2>2 DEF ThreadTypes, HandlerAgrees
  <2> QED
    BY <1>1, <2>2, <2>3, <2>4, QuietSignals DEF flowgraphVars
<1>4. ASSUME NEW c \in Channels, Channel(c) PROVE SignalInv'
  <2>1. ChannelStep(c) /\ UNCHANGED <<flowgraphVars, threadVars, status, handler>>
    BY <1>4 DEF Channel
  <2>2. FsmTypes'
    BY <1>1, <2>1, ChannelStepTypes
  <2>3. ThreadTypes' /\ HandlerAgrees'
    BY <1>1, <2>1 DEF ThreadTypes, HandlerAgrees, threadVars
  <2> QED
    BY <1>1, <2>1, <2>2, <2>3, QuietSignals DEF flowgraphVars
<1>5. ASSUME NEW c \in Channels, StatusReport(c) PROVE SignalInv'
  <2>1. PICK valid \in BOOLEAN :
          status' = [status EXCEPT ![c] = IF trk[c] /\ valid THEN assigned[c] ELSE 0]
    BY <1>5 DEF StatusReport
  <2>2. UNCHANGED <<fsmVars, flowgraphVars, threadVars, handler>>
    BY <1>5 DEF StatusReport
  <2>3. assigned[c] \in 0 .. NSats /\ 0 \in 0 .. NSats
    BY <1>1, ControlAssumption DEF Sats
  <2>4. status' \in [Channels -> 0 .. NSats]
    BY <1>1, <2>1, <2>3
  <2>5. FsmTypes' /\ ThreadTypes' /\ HandlerAgrees'
    BY <1>1, <2>2 DEF FsmTypes, ThreadTypes, HandlerAgrees, fsmVars, threadVars
  <2> QED
    BY <1>1, <2>2, <2>4, <2>5, QuietSignals DEF flowgraphVars
<1>6. CASE UNCHANGED vars
  <2>1. FsmTypes' /\ ThreadTypes' /\ HandlerAgrees'
    BY <1>1, <1>6 DEF FsmTypes, ThreadTypes, HandlerAgrees, fsmVars, threadVars, vars
  <2> QED
    BY <1>1, <1>6, <2>1, QuietSignals DEF flowgraphVars, vars
<1> QED
  BY <1>2, <1>3, <1>4, <1>5, <1>6, ControlThreadSignals, StopFlowgraphSignals DEF Next, Stopped

-----------------------------------------------------------------------------
(* The lists that assign_channels leaves.                                  *)

(* The first k elements go to the end.                                     *)
Turned(list, k) == SubSeq(list, k + 1, Len(list)) \o SubSeq(list, 1, k)

LEMMA SubSeqListed ==
    ASSUME NEW X, NEW list \in Seq(X), NEW m \in Nat \ {0}, NEW n \in 0 .. Len(list)
    PROVE  /\ SubSeq(list, m, n) \in Seq(X)
           /\ Listed(SubSeq(list, m, n)) = {list[i] : i \in m .. n}
           /\ NoRepeats(list) => NoRepeats(SubSeq(list, m, n))
<1> DEFINE r == SubSeq(list, m, n)
<1>1. Len(list) \in Nat /\ n \in Nat /\ n \in Int /\ m \in Int
  OBVIOUS
<1>2. \A i \in m .. n : i \in 1 .. Len(list) /\ list[i] \in X
  BY <1>1
<1>3. /\ r \in Seq(X) /\ Len(r) = IF m <= n THEN n - m + 1 ELSE 0
      /\ \A i \in 1 .. n - m + 1 : r[i] = list[m + i - 1]
  BY <1>1, <1>2, SubSeqProperties
<1> HIDE DEF r
<1>4. \A i \in 1 .. Len(r) : r[i] = list[m + i - 1] /\ m + i - 1 \in m .. n
  BY <1>1, <1>3
<1>5. \A i \in m .. n : i - m + 1 \in 1 .. Len(r) /\ m + (i - m + 1) - 1 = i
  BY <1>1, <1>3
<1>6. Listed(r) = {list[i] : i \in m .. n}
  <2>1. ASSUME NEW x \in Listed(r) PROVE x \in {list[i] : i \in m .. n}
    BY <1>4, <2>1 DEF Listed
  <2>2. ASSUME NEW i \in m .. n PROVE list[i] \in Listed(r)
    <3>1. i - m + 1 \in 1 .. Len(r) /\ r[i - m + 1] = list[i]
      BY <1>4, <1>5
    <3> QED
      BY <3>1 DEF Listed
  <2> QED
    BY <2>1, <2>2
<1>7. ASSUME NoRepeats(list) PROVE NoRepeats(r)
  <2> SUFFICES ASSUME NEW i \in 1 .. Len(r), NEW j \in 1 .. Len(r), r[i] = r[j] PROVE i = j
    BY DEF NoRepeats
  <2>1. m + i - 1 = m + j - 1
    BY <1>2, <1>4, <1>7 DEF NoRepeats
  <2>2. i \in Int /\ j \in Int
    OBVIOUS
  <2> QED
    BY <1>1, <2>1, <2>2
<1> QED
  BY <1>3, <1>6, <1>7 DEF r

LEMMA TurnedListed ==
    ASSUME NEW X, NEW list \in Seq(X), NEW k \in 0 .. Len(list)
    PROVE  /\ Turned(list, k) \in Seq(X)
           /\ Listed(Turned(list, k)) = Listed(list)
           /\ NoRepeats(list) => NoRepeats(Turned(list, k))
<1> DEFINE n == Len(list)
           s == SubSeq(list, k + 1, n)
           t == SubSeq(list, 1, k)
<1>1. n \in Nat /\ k \in Nat /\ k <= n /\ k + 1 \in Nat \ {0} /\ n \in 0 .. n /\ 1 \in Nat \ {0}
  OBVIOUS
<1>2. /\ s \in Seq(X) /\ Listed(s) = {list[i] : i \in (k + 1) .. n}
      /\ NoRepeats(list) => NoRepeats(s)
  BY <1>1, SubSeqListed
<1>3. /\ t \in Seq(X) /\ Listed(t) = {list[i] : i \in 1 .. k}
      /\ NoRepeats(list) => NoRepeats(t)
  BY <1>1, SubSeqListed
<1>4. Turned(list, k) = s \o t
  BY DEF Turned
<1> HIDE DEF s, t
<1>5. /\ s \o t \in Seq(X) /\ Listed(s \o t) = Listed(s) \cup Listed(t)
      /\ NoRepeats(s) /\ NoRepeats(t) /\ Listed(s) \cap Listed(t) = {} => NoRepeats(s \o t)
  BY <1>2, <1>3, ConcatListed
<1>6. \A i : i \in 1 .. n <=> i \in (k + 1) .. n \/ i \in 1 .. k
  BY <1>1
<1>7. Listed(s) \cup Listed(t) = Listed(list)
  BY <1>2, <1>3, <1>6 DEF Listed
<1>8. ASSUME NoRepeats(list) PROVE Listed(s) \cap Listed(t) = {}
  <2> SUFFICES ASSUME NEW i \in (k + 1) .. n, NEW j \in 1 .. k, list[i] = list[j] PROVE FALSE
    BY <1>2, <1>3
  <2>1. i = j
    BY <1>6, <1>8 DEF NoRepeats
  <2> QED
    BY <1>1, <2>1
<1> QED
  BY <1>2, <1>3, <1>4, <1>5, <1>7, <1>8

(* Every satellite that is not tied to a channel of the band, once; they   *)
(* are enough for the channels that are not tied to one.                   *)
LEMMA InitialListed ==
    ASSUME Uncrowded, NEW b \in Bands
    PROVE  /\ InitialList(b) \in Seq(Sats)
           /\ Listed(InitialList(b)) = Sats \ Fixed(b)
           /\ NoRepeats(InitialList(b))
           /\ Len(InitialList(b)) \in Nat \ {0}
           /\ Cardinality(Free(b)) \in 0 .. (Len(InitialList(b)) - 1)
<1> DEFINE all == [i \in 1 .. NSats |-> i]
           S == Sats \ Fixed(b)
<1>1. NSats \in Nat
  BY ControlAssumption
<1>2. all \in Seq(Sats) /\ Len(all) = NSats /\ \A i \in 1 .. NSats : all[i] = i
  BY <1>1 DEF Sats
<1>3. InitialList(b) = Keep(all, S)
  BY DEF InitialList
<1> HIDE DEF all
<1>4. Listed(all) = Sats /\ NoRepeats(all) /\ Chosen(all, S) = S
  BY <1>2 DEF Listed, NoRepeats, Chosen, Sats
<1>5. /\ Keep(all, S) \in Seq(Sats) /\ Listed(Keep(all, S)) = Sats \cap S
      /\ NoRepeats(Keep(all, S))
  BY <1>2, <1>4, KeepListed
<1>6. Len(Keep(all, S)) = Cardinality(S) /\ Cardinality(S) \in Nat
  BY <1>2, <1>4, KeepProperties
<1>7. Cardinality(Free(b)) < Cardinality(S) /\ Cardinality(Free(b)) \in Nat
  <2> DEFINE C == BandChannels(b)
             T == C \ Free(b)
             f == [c \in T |-> FixedSat[c]]
  <2>1. C \in SUBSET Channels /\ Free(b) \in SUBSET C /\ T \in SUBSET Channels
    BY DEF BandChannels, Free
  <2>2. /\ IsFiniteSet(C) /\ Cardinality(C) \in Nat /\ Cardinality(C) <= NSats - 1
        /\ Cardinality(Free(b)) \in Nat /\ IsFiniteSet(T) /\ Cardinality(T) \in Nat
    BY <2>1, ChannelsFinite, SatelliteToSpare
  <2>3. Cardinality(T) = Cardinality(C) - Cardinality(Free(b))
    <3>1. C \cap Free(b) = Free(b)
      BY <2>1
    <3> QED
      BY <2>2, <3>1, FS_Difference
  <2>4. f \in Surjection(T, Fixed(b))
    <3>1. \A c \in T : FixedSat[c] \in Fixed(b)
      BY DEF Fixed, Free
    <3>2. f \in [T -> Fixed(b)]
      BY <3>1
    <3>3. ASSUME NEW s \in Fixed(b) PROVE \E c \in T : f[c] = s
      <4>1. PICK c \in C : FixedSat[c] = s /\ s # 0
        BY <3>3 DEF Fixed
      <4>2. c \in T
        BY <4>1 DEF Free
      <4> QED
        BY <4>1, <4>2
    <3> HIDE DEF f, T
    <3> QED
      BY <3>2, <3>3 DEF Surjection
  <2> HIDE DEF f, T, C
  <2>5. IsFiniteSet(Fixed(b)) /\ Cardinality(Fixed(b)) <= Cardinality(T)
    BY <2>2, <2>4, FS_Surjection
  <2>6. IsFiniteSet(Sats) /\ Cardinality(Sats) = NSats
    BY <1>1, FS_Interval DEF Sats
  <2>7. Cardinality(S) = NSats - Cardinality(Sats \cap Fixed(b))
    BY <2>6, FS_Difference
  <2>8. /\ Cardinality(Sats \cap Fixed(b)) <= Cardinality(Fixed(b))
        /\ Cardinality(Fixed(b)) \in Nat
    BY <2>5, FS_Intersection, FS_CardinalityType
  <2>9. Cardinality(Sats \cap Fixed(b)) \in Nat
    BY <2>6, FS_Intersection, FS_CardinalityType
  <2> QED
    BY <1>1, <2>2, <2>3, <2>5, <2>7, <2>8, <2>9
<1>8. /\ Len(InitialList(b)) \in Nat \ {0}
      /\ Cardinality(Free(b)) \in 0 .. (Len(InitialList(b)) - 1)
  BY <1>3, <1>6, <1>7
<1>9. Sats \cap S = S
  OBVIOUS
<1> QED
  BY <1>3, <1>5, <1>8, <1>9

LEMMA InitFacts ==
    ASSUME Uncrowded, Init
    PROVE  /\ \A b \in Bands : /\ available[b] \in Seq(Sats) /\ NoRepeats(available[b])
                               /\ Listed(available[b]) = Sats \ Fixed(b)
           /\ \A c \in Channels : /\ assigned[c] \in Sats
                                  /\ IF FixedSat[c] = 0 THEN assigned[c] \notin Fixed(BandOf[c])
                                                        ELSE assigned[c] = FixedSat[c]
<1>1. NChannels \in Nat \ {0} /\ NSats \in Nat
  BY ChannelsAssumption, ControlAssumption
<1>1a. \A n \in Nat \ {0} : \A k \in 0 .. (n - 1) : k % n = k
  OBVIOUS
<1>2. ASSUME NEW b \in Bands
      PROVE  /\ available[b] \in Seq(Sats) /\ NoRepeats(available[b])
             /\ Listed(available[b]) = Sats \ Fixed(b)
  <2> DEFINE l == InitialList(b)
             k == Cardinality(Free(b))
             m == IF Free(b) = {} THEN 0 ELSE k % Len(l)
  <2>1. available[b] = Turned(l, m)
    BY DEF Init, assign_channels, Turned
  <2>2. /\ l \in Seq(Sats) /\ Listed(l) = Sats \ Fixed(b) /\ NoRepeats(l)
        /\ Len(l) \in Nat \ {0} /\ k \in 0 .. (Len(l) - 1)
    BY InitialListed
  <2> HIDE DEF l, k
  <2>3. m \in 0 .. Len(l)
    BY <1>1a, <2>2
  <2> HIDE DEF m
  <2> QED
    BY <2>1, <2>2, <2>3, TurnedListed
<1>3. ASSUME NEW c \in Channels
      PROVE  /\ assigned[c] \in Sats
             /\ IF FixedSat[c] = 0 THEN assigned[c] \notin Fixed(BandOf[c])
                                   ELSE assigned[c] = FixedSat[c]
  <2>1. assigned[c] = IF FixedSat[c] # 0 THEN FixedSat[c]
                      ELSE InitialList(BandOf[c])[((Turn(c) - 1) % Len(InitialList(BandOf[c]))) + 1]
    BY DEF Init, assign_channels
  <2>2. CASE FixedSat[c] # 0
    <3>1. FixedSat[c] \in 0 .. NSats
      BY ControlAssumption
    <3> QED
      BY <1>1, <2>1, <2>2, <3>1 DEF Sats
  <2>3. CASE FixedSat[c] = 0
    <3> DEFINE b == BandOf[c]
               P == Free(b)
    <3>1. b \in Bands /\ c \in P /\ P \in SUBSET (0 .. NChannels)
      BY <1>1, <2>3, ControlAssumption DEF Free, BandChannels, Channels
    <3>2. Turn(c) = Rank(P, c)
      BY DEF Turn, Rank
    <3> HIDE DEF P, b
    <3>3. Rank(P, c) \in 1 .. Cardinality(P)
      BY <1>1, <3>1, RankRange
    <3>4. /\ Cardinality(P) \in 0 .. (Len(InitialList(b)) - 1) /\ InitialList(b) \in Seq(Sats)
          /\ Len(InitialList(b)) \in Nat \ {0}
          /\ Listed(InitialList(b)) = Sats \ Fixed(b)
      BY <3>1, InitialListed DEF P
    <3>5. Turn(c) \in 1 .. Len(InitialList(b)) /\ Turn(c) - 1 \in 0 .. (Len(InitialList(b)) - 1)
      BY <3>2, <3>3, <3>4
    <3>5a. (Turn(c) - 1) % Len(InitialList(b)) = Turn(c) - 1 /\ (Turn(c) - 1) + 1 = Turn(c)
      BY <1>1a, <3>4, <3>5
    <3>6. InitialList(b)[Turn(c)] \in Listed(InitialList(b))
      BY <3>5 DEF Listed
    <3> QED
      BY <2>1, <2>3, <3>4, <3>5a, <3>6 DEF b
  <2> QED
    BY <2>2, <2>3
<1> QED
  BY <1>2, <1>3

LEMMA SignalInvInit == Uncrowded /\ Init => SignalInv
<1> SUFFICES ASSUME Uncrowded, Init PROVE SignalInv
  OBVIOUS
<1>1. NChannels \in Nat \ {0} /\ MaxAcq \in 0 .. NChannels /\ NSats \in Nat
  BY ChannelsAssumption, ControlAssumption
<1>2. FsmTypes
  <2>1. \A c \in Channels : (c < MaxAcq) \in BOOLEAN
    BY <1>1 DEF Channels
  <2>2. acq \in [Channels -> BOOLEAN] /\ trk \in [Channels -> BOOLEAN]
    BY <2>1, Zenon DEF Init
  <2>3. state \in [Channels -> 0 .. 3] /\ events \in [Channels -> Seq(1 .. 3)] /\ queue \in Seq(Messages)
    BY DEF Init
  <2> QED
    BY <2>2, <2>3 DEF FsmTypes
<1>3. handler \in Handlers /\ handler.loop # "manager" /\ handler.gs = 0
  BY HandlersMade DEF Init, Idle, Stopping
<1>4. ThreadTypes /\ HandlerAgrees
  <2>1. commands \in 0 .. MaxCommands
    BY ControlAssumption DEF Init
  <2>2. standby = FALSE /\ stop = FALSE /\ running = TRUE
    BY DEF Init
  <2> QED
    BY <1>3, <2>1, <2>2, Zenon DEF ThreadTypes, HandlerAgrees
<1>5. \A b \in Bands : /\ available[b] \in Seq(Sats) /\ NoRepeats(available[b])
                        /\ Listed(available[b]) = Sats \ Fixed(b)
  BY InitFacts
<1>6. available \in [Bands -> Seq(Sats)]
  <2>1. available = [b \in Bands |-> available[b]]
    BY DEF Init, assign_channels
  <2> QED
    BY <1>5, <2>1
<1>7. \A c \in Channels : assigned[c] \in Sats /\ (FixedSat[c] # 0 => assigned[c] = FixedSat[c])
  BY InitFacts
<1>8. assigned \in [Channels -> Sats]
  <2>1. assigned = [c \in Channels |-> assigned[c]]
    BY DEF Init, assign_channels
  <2> QED
    BY <1>7, <2>1
<1>9. FlowgraphTypes
  <2>1. /\ channels_state \in [Channels -> 0 .. 2] /\ acq_count \in 0 .. NChannels
        /\ status \in [Channels -> 0 .. NSats]
    BY <1>1 DEF Init, set_channels_state
  <2> QED
    BY <1>3, <1>6, <1>8, <2>1 DEF FlowgraphTypes
<1>10. NoListRepeats /\ FixedStay
  BY <1>5, <1>7 DEF NoListRepeats, FixedStay
<1>11. SignalsConserved
  <2> SUFFICES ASSUME NEW b \in Bands, NEW s \in Sats, s \notin Listed(available[b])
               PROVE  \E c \in BandChannels(b) : Holds(c, s)
    BY DEF SignalsConserved
  <2>1. s \in Fixed(b)
    BY <1>5
  <2>2. PICK c \in BandChannels(b) : FixedSat[c] = s /\ s # 0
    BY <2>1 DEF Fixed
  <2>3. c \in Channels
    BY DEF BandChannels
  <2>4. Holds(c, s)
    BY <1>7, <2>2, <2>3 DEF Holds
  <2> QED
    BY <2>4
<1> QED
  BY <1>2, <1>4, <1>9, <1>10, <1>11 DEF SignalInv

-----------------------------------------------------------------------------
(* The theorems, whatever telecommands the receiver gets.                  *)

LEMMA SignalInvariant == Uncrowded => (Spec => []SignalInv)
<1> SUFFICES ASSUME Uncrowded PROVE Spec => []SignalInv
  OBVIOUS
<1>1. Init => SignalInv
  BY SignalInvInit
<1> QED
  BY <1>1, SignalInvStep, PTL DEF Spec

(* Every variable of the control plane keeps its type: in particular the   *)
(* search always assigns a satellite of the constellation and              *)
(* acq_channels_count_ stays between 0 and the number of channels, also    *)
(* through the standbys and starts of the telecommands.                    *)
THEOREM ControlTypesKept == Uncrowded => (Spec => []TypeOK)
<1>1. SignalInv => TypeOK
  BY TypesTogether DEF SignalInv
<1> QED
  BY <1>1, SignalInvariant, PTL

(* No signal is lost between the lists, the channels and the signal that   *)
(* apply_action is about to push back, whatever fails, succeeds, is lost   *)
(* or is stopped in between.                                               *)
THEOREM SignalsAlwaysConserved == Uncrowded => (Spec => []SignalsConserved)
<1>1. SignalInv => SignalsConserved
  BY DEF SignalInv
<1> QED
  BY <1>1, SignalInvariant, PTL

(* The removal before every push keeps the lists free of duplicates.       *)
THEOREM NeverListedTwice == Uncrowded => (Spec => []ListsHaveNoDuplicates)
<1>1. SignalInv => ListsHaveNoDuplicates
  <2> SUFFICES ASSUME SignalInv, NEW b \in Bands
               PROVE  Cardinality(Listed(available[b])) = Len(available[b])
    BY DEF ListsHaveNoDuplicates
  <2> DEFINE list == available[b]
             n == Len(list)
  <2>1. list \in Seq(Sats) /\ NoRepeats(list) /\ n \in Nat
    BY DEF SignalInv, FlowgraphTypes, NoListRepeats
  <2>2. list \in [1 .. n -> Listed(list)]
    BY <2>1 DEF Listed
  <2>3. list \in Surjection(1 .. n, Listed(list))
    BY <2>2 DEF Surjection, Listed
  <2>4. list \in Injection(1 .. n, Listed(list))
    BY <2>1, <2>2 DEF Injection, IsInjective, NoRepeats
  <2> HIDE DEF list, n
  <2>5. IsFiniteSet(1 .. n) /\ Cardinality(1 .. n) = n
    <3>1. n \in Int /\ 1 \in Int /\ (IF 1 > n THEN 0 ELSE n - 1 + 1) = n
      BY <2>1
    <3> QED
      BY <3>1, FS_Interval
  <2>6. Cardinality(Listed(list)) = n
    BY <2>3, <2>4, <2>5, FS_Surjection
  <2> QED
    BY <2>6 DEF list, n
<1> QED
  BY <1>1, SignalInvariant, PTL

(* The acquisition manager never takes the front of an empty list in a     *)
(* receiver whose GLONASS bands have fewer channels than listed signals:   *)
(* for the other bands the check of assign_channels (one satellite more    *)
(* than channels) is enough, by counting.  For GLONASS it is not, as it    *)
(* lets seven channels more through than there are signals.                *)
THEOREM SearchAlwaysFinds == Uncrowded => (Spec => []SearchFindsSignal)
BY SearchFinds, SignalInvariant, PTL

(* In standby no step takes a channel out of its idle states: the manager  *)
(* is not running when standby begins, and nothing starts it before a      *)
(* start command.                                                          *)
THEOREM StandbyStartsNothing == Uncrowded => (Spec => NoStartInStandby)
<1> SUFFICES ASSUME Uncrowded PROVE Spec => NoStartInStandby
  OBVIOUS
<1> DEFINE Quiet == standby => \A c \in Channels : state[c] \in {0, 3} => state'[c] \in {0, 3}
<1>1. SignalInv /\ [Next]_vars => Quiet \/ UNCHANGED vars
  <2> SUFFICES ASSUME SignalInv, Next, standby, NEW c \in Channels, state[c] \in {0, 3}
               PROVE  state'[c] \in {0, 3}
    BY DEF vars
  <2>1. FsmTypes /\ handler.loop # "manager"
    BY DEF SignalInv, HandlerAgrees
  <2>2. state' = state => state'[c] \in {0, 3}
    OBVIOUS
  <2>3. \A S : Event_stop_channel(S) => state'[c] \in {0, 3}
    BY DEF Event_stop_channel
  <2>4. \A w : ~ChannelEventPopped(w)
    BY DEF ChannelEventPopped
  <2>5. ~acquisition_manager
    BY <2>1 DEF acquisition_manager, ManagerSkips, ManagerStartsFixed, ManagerSearches,
                ManagerReturns, ManagerTurn
  <2>6. CASE ControlThread
    <3>1. ~AcquisitionFailed /\ ~AcquisitionSucceeded /\ ~TrackingLost
      BY <2>4 DEF AcquisitionFailed, AcquisitionSucceeded, TrackingLost
    <3>2. EventDropped \/ Timeout \/ TimeoutInStandby \/ StandbySkips \/ StandbyReturns => state' = state
      BY DEF EventDropped, Timeout, TimeoutInStandby, StandbySkips, StandbyReturns, vars, fsmVars
    <3>3. StopCommand \/ StandbyCommand \/ ColdStart \/ WarmStart \/ HotStart => state' = state
      BY DEF StopCommand, StandbyCommand, ColdStart, WarmStart, HotStart, Start, CommandPopped
    <3>4. StandbyStopsChannel => state'[c] \in {0, 3}
      BY <2>3 DEF StandbyStopsChannel
    <3> QED
      BY <2>2, <2>5, <2>6, <3>1, <3>2, <3>3, <3>4 DEF ControlThread
  <2>7. CASE PushCommand \/ QuitKey \/ Stopped \/ StopFlowgraph
    BY <2>2, <2>3, <2>7 DEF PushCommand, QuitKey, Stopped, StopFlowgraph, StopBegins, StopsChannel,
                            BlocksStopped, vars, fsmVars
  <2>8. ASSUME NEW d \in Channels, StatusReport(d) PROVE state' = state
    BY <2>8 DEF StatusReport, fsmVars
  <2>9. ASSUME NEW d \in Channels, Channel(d) PROVE state'[c] \in {0, 3}
    <3>1. state \in [Channels -> 0 .. 3]
      BY <2>1 DEF FsmTypes
    <3>2. ChannelStep(d)
      BY <2>9 DEF Channel
    <3>3. PositiveAcquisition(d) \/ HandleValidAcquisition(d) => state'[c] \in {0, 3}
      BY <3>1 DEF PositiveAcquisition, HandleValidAcquisition, Event_valid_acquisition
    <3>4. NegativeAcquisition(d) \/ LateSearchEnds(d) \/ LossOfLock(d) => state' = state
      BY DEF NegativeAcquisition, LateSearchEnds, LossOfLock
    <3>5. HandleAcquisitionFailed(d) \/ HandleLossOfLock(d) => state'[c] \in {0, 3}
      BY <3>1 DEF HandleAcquisitionFailed, HandleLossOfLock, Event_failed_acquisition_repeat,
                  Event_failed_acquisition_no_repeat, Event_failed_tracking_standby
    <3> QED
      BY <2>2, <3>2, <3>3, <3>4, <3>5 DEF ChannelStep
  <2> QED
    BY <2>2, <2>6, <2>7, <2>8, <2>9 DEF Next
<1>2. SignalInv /\ [Next]_vars => [Quiet]_vars
  BY <1>1
<1>3. Spec => [][Quiet]_vars
  BY <1>2, SignalInvariant, PTL DEF Spec
<1> QED
  BY <1>3 DEF NoStartInStandby

-----------------------------------------------------------------------------
(* Without telecommands: the eight things a step does to the lists, the    *)
(* signals of the channels and the signal about to be pushed back.         *)

SignalVars == <<available, assigned, channels_state>>
SamePending == handler'.gs = handler.gs /\ handler'.who = handler.who

Untouched == UNCHANGED SignalVars /\ (handler'.gs = 0 \/ SamePending)

GivesUp(c) ==
    /\ channels_state[c] # 0
    /\ channels_state' = [channels_state EXCEPT ![c] = 0]
    /\ handler'.gs = GivesBack(c) /\ handler'.who = c
    /\ UNCHANGED <<available, assigned>>

Succeeds(c) ==
    /\ channels_state[c] # 0
    /\ channels_state' = [channels_state EXCEPT ![c] = 2]
    /\ available' = [available EXCEPT ![BandOf[c]] = remove_signal(@, assigned[c])]
    /\ handler'.gs = 0
    /\ UNCHANGED assigned

Retries(c) ==
    /\ channels_state[c] # 0
    /\ channels_state' = [channels_state EXCEPT ![c] = 1]
    /\ UNCHANGED <<available, assigned, handler>>

GoesIdle(c) ==
    /\ channels_state[c] # 0
    /\ channels_state' = [channels_state EXCEPT ![c] = 0]
    /\ available' = IF FixedSat[c] # 0 THEN available
                     ELSE [available EXCEPT ![BandOf[c]] = push_back_signal(@, assigned[c])]
    /\ UNCHANGED <<assigned, handler>>

StartsFixed(c) ==
    /\ channels_state[c] = 0 /\ FixedSat[c] # 0
    /\ channels_state' = [channels_state EXCEPT ![c] = 1]
    /\ SamePending
    /\ UNCHANGED <<available, assigned>>

Searches(c, b, g, list) ==
    /\ channels_state[c] = 0 /\ FixedSat[c] = 0 /\ b = BandOf[c]
    /\ available[b] # <<>> /\ g = NextSat(b) /\ list = ListAfterSearch(b)
    /\ assigned' = [assigned EXCEPT ![c] = g]
    /\ \/ /\ StartAllowed(b)
          /\ channels_state' = [channels_state EXCEPT ![c] = 1]
          /\ available' = [available EXCEPT ![b] = list]
       \/ /\ channels_state' = channels_state
          /\ available' = [available EXCEPT ![b] = push_back_signal(list, g)]
    /\ SamePending

Returns(b, g) ==
    /\ g = handler.gs /\ b = BandOf[handler.who]
    /\ available' = [available EXCEPT ![b] = push_back_signal(@, g)]
    /\ handler'.gs = 0
    /\ UNCHANGED <<assigned, channels_state>>

(* An event of a channel in the queue says that the channel was busy.      *)
LEMMA EventOfBusy ==
    ASSUME ControlInv, NEW w, ChannelEventPopped(w)
    PROVE  \E c \in Channels : c = Who /\ channels_state[c] # 0
<1>1. ControlTypes
  BY DEF ControlInv
<1>2. PICK c \in Channels : Served(c, w)
  BY <1>1, HeadEvent
<1>3. ViewAgrees(c) /\ ~NoEvent(queue, c) /\ c = Who
  BY <1>2, PopOwn DEF ControlInv, FlowgraphViewAgrees, Served
<1> QED
  BY <1>3 DEF ViewAgrees

LEMMA ListStep ==
    ASSUME NoTelecommands, ControlInv, SignalInv, [Next]_vars
    PROVE  \/ Untouched
           \/ \E c \in Channels : GivesUp(c) \/ Succeeds(c) \/ Retries(c) \/ GoesIdle(c) \/ StartsFixed(c)
           \/ \E c \in Channels, b \in Bands, g \in Sats, list \in Seq(Sats) : Searches(c, b, g, list)
           \/ \E b \in Bands, g \in Sats : Returns(b, g)
<1>1. /\ FsmTypes /\ FlowgraphTypes /\ handler \in Handlers /\ ControlTypes /\ NoListRepeats
      /\ handler.loop \in {"none", "manager", "stop"} /\ standby = FALSE
  BY DEF SignalInv, FlowgraphTypes, ControlInv, ControlTypes
<1>2. CASE AcquisitionFailed
  <2>1. PICK c \in Channels : c = Who /\ channels_state[c] # 0
    BY <1>2, EventOfBusy DEF AcquisitionFailed
  <2>2. GivesUp(c)
    BY <1>2, <2>1 DEF AcquisitionFailed, GivesUp, Managing
  <2> QED
    BY <2>2
<1>3. CASE AcquisitionSucceeded
  <2>1. PICK c \in Channels : c = Who /\ channels_state[c] # 0
    BY <1>3, EventOfBusy DEF AcquisitionSucceeded
  <2>2. Succeeds(c)
    BY <1>3, <2>1 DEF AcquisitionSucceeded, Succeeds, Managing
  <2> QED
    BY <2>2
<1>4. CASE TrackingLost
  <2>1. PICK c \in Channels : c = Who /\ channels_state[c] # 0
    BY <1>4, EventOfBusy DEF TrackingLost
  <2>2. Retries(c) \/ GoesIdle(c)
    BY <1>4, <2>1 DEF TrackingLost, Retries, GoesIdle
  <2> QED
    BY <2>2
<1>5. CASE ManagerSkips
  BY <1>1, <1>5, AdvanceKeeps DEF ManagerSkips, Untouched, SignalVars, SamePending, flowgraphVars
<1>6. CASE ManagerStartsFixed
  <2>1. PICK c \in Channels : c = Current
    BY <1>1, CurrentChannel
  <2>2. StartsFixed(c)
    BY <1>1, <1>6, <2>1, AdvanceKeeps
       DEF ManagerStartsFixed, StartChannel, StartsFixed, SlotFor, SamePending
  <2> QED
    BY <2>2
<1>7. CASE ManagerSearches
  <2>1. PICK c \in Channels : c = Current
    BY <1>1, CurrentChannel
  <2>2. PICK b \in Bands : b = BandOf[c]
    BY ControlAssumption
  <2>3. /\ ManagerTurn /\ SlotFor(c) /\ FixedSat[c] = 0 /\ Advance
        /\ assigned' = [assigned EXCEPT ![c] = NextSat(b)]
        /\ IF StartAllowed(b)
             THEN available' = [available EXCEPT ![b] = ListAfterSearch(b)] /\ StartChannel(c)
             ELSE /\ available' = [available EXCEPT
                           ![b] = push_back_signal(ListAfterSearch(b), NextSat(b))]
                  /\ UNCHANGED <<fsmVars, channels_state, acq_count>>
    BY <1>7, <2>1, <2>2 DEF ManagerSearches
  <2>4. available[b] # <<>> /\ NoRepeats(available[b])
    BY <1>1, <2>1, <2>2, <2>3, SearchFinds DEF SearchFindsSignal, NoListRepeats
  <2>5. NextSat(b) \in Sats /\ ListAfterSearch(b) \in Seq(Sats)
    BY <1>1, <2>4, NextSatProperties
  <2>6. SamePending
    BY <1>1, <2>3, AdvanceKeeps DEF SamePending
  <2>7. Searches(c, b, NextSat(b), ListAfterSearch(b))
    BY <2>2, <2>3, <2>4, <2>6 DEF Searches, StartChannel, SlotFor
  <2> QED
    BY <2>5, <2>7
<1>8. CASE ManagerReturns
  <2>1. PICK b \in Bands : b = BandOf[handler.who]
    BY <1>1, HandlerFields, ControlAssumption
  <2>2. handler.gs \in 0 .. NSats /\ handler'.gs = 0
    BY <1>1, <1>8, HandlerFields DEF ManagerReturns, Idle
  <2>3. CASE handler.gs = 0
    BY <1>8, <2>2, <2>3 DEF ManagerReturns, Untouched, SignalVars
  <2>4. CASE handler.gs # 0
    <3>1. handler.gs \in Sats
      BY <2>2, <2>4, ControlAssumption DEF Sats
    <3>2. Returns(b, handler.gs)
      BY <1>8, <2>1, <2>2, <2>4 DEF ManagerReturns, Returns
    <3> QED
      BY <3>1, <3>2
  <2> QED
    BY <2>3, <2>4
<1>9. CASE Timeout
  BY <1>9 DEF Timeout, Managing, Untouched, SignalVars, flowgraphVars
<1>10. CASE StopCommand \/ PushCommand \/ QuitKey
  BY <1>10 DEF StopCommand, PushCommand, QuitKey, Untouched, SignalVars, SamePending, flowgraphVars
<1>10a. CASE StopFlowgraph
  BY <1>1, <1>10a, AdvanceKeeps DEF StopFlowgraph, StopBegins, StopsChannel, BlocksStopped, Stopping,
     Idle, Untouched, SignalVars, SamePending, flowgraphVars
<1>11. CASE UNCHANGED <<flowgraphVars, handler>>
  BY <1>11 DEF Untouched, SignalVars, SamePending, flowgraphVars
<1>12. ~EventDropped /\ ~TimeoutInStandby /\ ~StandbyStopsChannel /\ ~StandbySkips /\ ~StandbyReturns
  BY <1>1 DEF EventDropped, TimeoutInStandby, StandbyStopsChannel, StandbySkips, StandbyReturns,
              StoppingTurn
<1>13. \A what : ~CommandPopped(300, what)
  BY <1>1, CommandsStop
<1>14. ~StandbyCommand /\ ~ColdStart /\ ~WarmStart /\ ~HotStart
  BY <1>13 DEF StandbyCommand, ColdStart, WarmStart, HotStart, Start
<1>15. \A c \in Channels : Channel(c) \/ StatusReport(c) => UNCHANGED <<flowgraphVars, handler>>
  BY DEF Channel, StatusReport
<1>16. Stopped \/ UNCHANGED vars => UNCHANGED <<flowgraphVars, handler>>
  BY DEF Stopped, vars
<1>17. CASE ControlThread
  BY <1>2, <1>3, <1>4, <1>5, <1>6, <1>7, <1>8, <1>9, <1>10, <1>12, <1>14, <1>17
     DEF ControlThread, acquisition_manager
<1> QED
  BY <1>10, <1>10a, <1>11, <1>15, <1>16, <1>17 DEF Next

-----------------------------------------------------------------------------
(* The satellites that the configuration ties to channels.                 *)

ReservedInv ==
    /\ \A b \in Bands : Listed(available[b]) \cap Fixed(b) = {}
    /\ \A c \in Channels : FixedSat[c] = 0 => assigned[c] \notin Fixed(BandOf[c])
    /\ handler.gs # 0 => handler.gs \notin Fixed(BandOf[handler.who])

(* A list that loses signals, or gains one that is not tied.               *)
LEMMA ReservedList ==
    ASSUME FlowgraphTypes, ReservedInv, NEW b \in Bands, NEW g, g \notin Fixed(b), NEW list,
           Listed(list) \subseteq Listed(available[b]) \cup {g},
           available' = [available EXCEPT ![b] = list]
    PROVE  \A e \in Bands : Listed(available'[e]) \cap Fixed(e) = {}
<1>1. available'[b] = list /\ \A e \in Bands \ {b} : available'[e] = available[e]
  BY DEF FlowgraphTypes
<1> QED
  BY <1>1 DEF ReservedInv

LEMMA ReservedStep ==
    ASSUME NoTelecommands, ControlInv, SignalInv, ReservedInv, [Next]_vars
    PROVE  ReservedInv'
<1>1. FlowgraphTypes /\ NoListRepeats /\ available \in [Bands -> Seq(Sats)]
      /\ assigned \in [Channels -> Sats]
  BY DEF SignalInv, FlowgraphTypes
<1>2. CASE Untouched
  BY <1>2 DEF Untouched, SignalVars, SamePending, ReservedInv
<1>3. ASSUME NEW c \in Channels, GivesUp(c) PROVE ReservedInv'
  BY <1>3 DEF GivesUp, GivesBack, ReservedInv
<1>4. ASSUME NEW c \in Channels, Succeeds(c) PROVE ReservedInv'
  <2> DEFINE b == BandOf[c]
             list == remove_signal(available[b], assigned[c])
  <2>1. b \in Bands /\ available[b] \in Seq(Sats)
    BY <1>1, ControlAssumption
  <2>2. available' = [available EXCEPT ![b] = list] /\ handler'.gs = 0 /\ assigned' = assigned
    BY <1>1, <1>4, <2>1 DEF Succeeds
  <2>3. Listed(list) \subseteq Listed(available[b]) \cup {0}
    BY <2>1, RemoveListed
  <2>4. 0 \notin Fixed(b)
    BY DEF Fixed
  <2> HIDE DEF list, b
  <2>5. \A e \in Bands : Listed(available'[e]) \cap Fixed(e) = {}
    BY <1>1, <2>1, <2>2, <2>3, <2>4, ReservedList
  <2> QED
    BY <2>2, <2>5 DEF ReservedInv
<1>5. ASSUME NEW c \in Channels, Retries(c) \/ StartsFixed(c) PROVE ReservedInv'
  BY <1>5 DEF Retries, StartsFixed, SamePending, ReservedInv
<1>6. ASSUME NEW c \in Channels, GoesIdle(c) PROVE ReservedInv'
  <2>1. CASE FixedSat[c] # 0
    BY <1>6, <2>1 DEF GoesIdle, ReservedInv
  <2>2. CASE FixedSat[c] = 0
    <3> DEFINE b == BandOf[c]
               list == push_back_signal(available[b], assigned[c])
    <3>1. b \in Bands /\ available[b] \in Seq(Sats) /\ assigned[c] \in Sats
      BY <1>1, ControlAssumption
    <3>2. available' = [available EXCEPT ![b] = list] /\ handler' = handler /\ assigned' = assigned
      BY <1>1, <1>6, <2>2, <3>1 DEF GoesIdle
    <3>3. Listed(list) \subseteq Listed(available[b]) \cup {assigned[c]}
      BY <3>1, PushBackListed
    <3>4. assigned[c] \notin Fixed(b)
      BY <2>2 DEF ReservedInv
    <3> HIDE DEF list, b
    <3>5. \A e \in Bands : Listed(available'[e]) \cap Fixed(e) = {}
      BY <1>1, <3>1, <3>2, <3>3, <3>4, ReservedList
    <3> QED
      BY <3>2, <3>5 DEF ReservedInv
  <2> QED
    BY <2>1, <2>2
<1>7. ASSUME NEW c \in Channels, NEW b \in Bands, NEW g \in Sats, NEW list \in Seq(Sats),
             Searches(c, b, g, list)
      PROVE  ReservedInv'
  <2>1. /\ FixedSat[c] = 0 /\ b = BandOf[c] /\ assigned' = [assigned EXCEPT ![c] = g]
        /\ available[b] # <<>> /\ g = NextSat(b) /\ list = ListAfterSearch(b) /\ SamePending
    BY <1>7 DEF Searches
  <2>2. /\ g \in Listed(available[b]) /\ Listed(available[b]) = Listed(list) \cup {g}
    BY <1>1, <2>1, NextSatProperties DEF NoListRepeats
  <2>3. g \notin Fixed(b)
    BY <2>2 DEF ReservedInv
  <2>4. \E l : Listed(l) \subseteq Listed(available[b]) \cup {g} /\ available' = [available EXCEPT ![b] = l]
    <3>1. Listed(list) \subseteq Listed(available[b]) \cup {g}
      BY <2>2
    <3>2. Listed(push_back_signal(list, g)) \subseteq Listed(available[b]) \cup {g}
      BY <2>2, PushBackListed
    <3>3. \/ available' = [available EXCEPT ![b] = list]
          \/ available' = [available EXCEPT ![b] = push_back_signal(list, g)]
      BY <1>7 DEF Searches
    <3> QED
      BY <3>1, <3>2, <3>3
  <2>5. \A e \in Bands : Listed(available'[e]) \cap Fixed(e) = {}
    BY <1>1, <2>3, <2>4, ReservedList
  <2>6. /\ assigned'[c] = g /\ \A d \in Channels \ {c} : assigned'[d] = assigned[d]
    BY <1>1, <2>1
  <2>7. \A d \in Channels : FixedSat[d] = 0 => assigned'[d] \notin Fixed(BandOf[d])
    BY <2>1, <2>3, <2>6 DEF ReservedInv
  <2> QED
    BY <2>1, <2>5, <2>7 DEF ReservedInv, SamePending
<1>8. ASSUME NEW b \in Bands, NEW g \in Sats, Returns(b, g) PROVE ReservedInv'
  <2> DEFINE list == push_back_signal(available[b], g)
  <2>1. available' = [available EXCEPT ![b] = list] /\ handler'.gs = 0 /\ assigned' = assigned
    BY <1>1, <1>8 DEF Returns
  <2>2. g \notin Fixed(b)
    <3>1. g # 0
      BY IdleFacts DEF IdleNeedsNoSignal
    <3> QED
      BY <1>8, <3>1 DEF Returns, ReservedInv
  <2>3. Listed(list) \subseteq Listed(available[b]) \cup {g}
    BY <1>1, PushBackListed
  <2> HIDE DEF list
  <2>4. \A e \in Bands : Listed(available'[e]) \cap Fixed(e) = {}
    BY <1>1, <2>1, <2>2, <2>3, ReservedList
  <2> QED
    BY <2>1, <2>4 DEF ReservedInv
<1> QED
  BY <1>2, <1>3, <1>4, <1>5, <1>6, <1>7, <1>8, ListStep

LEMMA ReservedInit == ASSUME Uncrowded, NoTelecommands PROVE Init => ReservedInv
<1> SUFFICES ASSUME Init PROVE ReservedInv
  OBVIOUS
<1>1. handler.gs = 0
  BY DEF Init, NoTelecommands, Idle
<1>2. /\ \A b \in Bands : Listed(available[b]) = Sats \ Fixed(b)
      /\ \A c \in Channels : FixedSat[c] = 0 => assigned[c] \notin Fixed(BandOf[c])
  BY InitFacts
<1> QED
  BY <1>1, <1>2 DEF ReservedInv

LEMMA ReservedInvariant == Uncrowded /\ NoTelecommands => (Spec => []ReservedInv)
<1> SUFFICES ASSUME Uncrowded, NoTelecommands PROVE Spec => []ReservedInv
  OBVIOUS
<1>1. Init => ReservedInv
  BY ReservedInit
<1>2. Spec => []ControlInv
  BY ControlInvariant
<1>3. ControlInv /\ SignalInv /\ ReservedInv /\ [Next]_vars => ReservedInv'
  BY ReservedStep
<1> QED
  BY <1>1, <1>2, <1>3, SignalInvariant, PTL DEF Spec

(* Without telecommands a satellite that the configuration ties to a       *)
(* channel is never offered to another channel of its band.                *)
THEOREM FixedAlwaysReserved ==
    Uncrowded /\ NoTelecommands => (Spec => []FixedSatellitesReserved)
<1>1. ReservedInv => FixedSatellitesReserved
  <2> SUFFICES ASSUME ReservedInv, NEW c \in Channels, FixedSat[c] # 0
               PROVE  FixedSat[c] \notin Listed(available[BandOf[c]])
    BY DEF FixedSatellitesReserved
  <2>1. BandOf[c] \in Bands /\ FixedSat[c] \in Fixed(BandOf[c])
    BY ControlAssumption DEF Fixed, BandChannels
  <2> QED
    BY <2>1 DEF ReservedInv
<1> QED
  BY <1>1, ReservedInvariant, PTL

-----------------------------------------------------------------------------
(* The bands that need assistance: what their busy channels work on is not *)
(* in the list, is different from one to the other, and is not about to be *)
(* pushed back.                                                            *)

Busy(c) == channels_state[c] # 0

AssistedAt(b) ==
    /\ \A c \in BandChannels(b) : Busy(c) => assigned[c] \notin Listed(available[b])
    /\ \A c, d \in BandChannels(b) : Busy(c) /\ Busy(d) /\ assigned[c] = assigned[d] => c = d
    /\ handler.gs # 0 /\ BandOf[handler.who] = b =>
            /\ handler.gs \notin Listed(available[b])
            /\ \A c \in BandChannels(b) : Busy(c) => assigned[c] # handler.gs

(* The configuration does not tie a satellite to two channels of a band.   *)
TiedOnce ==
    \A c, d \in Channels :
        FixedSat[c] # 0 /\ FixedSat[c] = FixedSat[d] /\ BandOf[c] = BandOf[d] => c = d

LEMMA AssistedStep ==
    ASSUME NoTelecommands, AssistDual, TiedOnce, ControlInv, SignalInv, ReservedInv, [Next]_vars,
           NEW b \in Bands, b \notin Primary, AssistedAt(b)
    PROVE  AssistedAt(b)'
<1>1. /\ FlowgraphTypes /\ NoListRepeats /\ FixedStay /\ available \in [Bands -> Seq(Sats)]
      /\ assigned \in [Channels -> Sats] /\ channels_state \in [Channels -> 0 .. 2]
  BY DEF SignalInv, FlowgraphTypes
<1>2. /\ \A c \in BandChannels(b) : c \in Channels /\ BandOf[c] = b
      /\ \A c \in Channels : BandOf[c] = b => c \in BandChannels(b)
      /\ \A c \in Channels : BandOf[c] \in Bands
  BY ControlAssumption DEF BandChannels
<1>3. 0 \notin Sats
  BY IdleFacts DEF IdleNeedsNoSignal
<1>4. CASE Untouched
  BY <1>4 DEF Untouched, SignalVars, SamePending, AssistedAt, Busy
<1>5. ASSUME NEW c \in Channels, GivesUp(c) PROVE AssistedAt(b)'
  <2>1. /\ channels_state[c] # 0 /\ channels_state'[c] = 0
        /\ \A d \in Channels \ {c} : channels_state'[d] = channels_state[d]
        /\ handler'.gs = GivesBack(c) /\ handler'.who = c /\ UNCHANGED <<available, assigned>>
    BY <1>1, <1>5 DEF GivesUp
  <2>2. \A d \in BandChannels(b) : Busy(d)' => Busy(d) /\ d # c
    BY <1>2, <2>1 DEF Busy
  <2>3. handler'.gs # 0 => handler'.gs = assigned[c]
    BY <2>1 DEF GivesBack
  <2> QED
    BY <1>2, <2>1, <2>2, <2>3 DEF AssistedAt, Busy
<1>6. ASSUME NEW c \in Channels, Succeeds(c) PROVE AssistedAt(b)'
  <2> DEFINE e == BandOf[c]
             list == remove_signal(available[e], assigned[c])
  <2>1. e \in Bands /\ available[e] \in Seq(Sats)
    BY <1>1, <1>2
  <2>2. /\ available' = [available EXCEPT ![e] = list] /\ handler'.gs = 0 /\ assigned' = assigned
        /\ channels_state[c] # 0 /\ channels_state'[c] = 2
        /\ \A d \in Channels \ {c} : channels_state'[d] = channels_state[d]
    BY <1>1, <1>6, <2>1 DEF Succeeds
  <2>3. Listed(list) \subseteq Listed(available[e])
    BY <2>1, RemoveListed
  <2> HIDE DEF list, e
  <2>4. Listed(available'[b]) \subseteq Listed(available[b])
    BY <1>1, <2>1, <2>2, <2>3
  <2>5. \A d \in BandChannels(b) : Busy(d)' => Busy(d)
    BY <1>2, <2>2 DEF Busy
  <2> QED
    BY <2>2, <2>4, <2>5 DEF AssistedAt
<1>7. ASSUME NEW c \in Channels, Retries(c) PROVE AssistedAt(b)'
  <2>1. /\ UNCHANGED <<available, assigned, handler>> /\ channels_state[c] # 0
        /\ \A d \in Channels \ {c} : channels_state'[d] = channels_state[d]
    BY <1>1, <1>7 DEF Retries
  <2>2. \A d \in BandChannels(b) : Busy(d)' => Busy(d)
    BY <1>2, <2>1 DEF Busy
  <2> QED
    BY <2>1, <2>2 DEF AssistedAt
<1>8. ASSUME NEW c \in Channels, GoesIdle(c) PROVE AssistedAt(b)'
  <2>1. /\ UNCHANGED <<assigned, handler>> /\ channels_state[c] # 0 /\ channels_state'[c] = 0
        /\ \A d \in Channels \ {c} : channels_state'[d] = channels_state[d]
    BY <1>1, <1>8 DEF GoesIdle
  <2>2. \A d \in BandChannels(b) : Busy(d)' => Busy(d) /\ d # c
    BY <1>2, <2>1 DEF Busy
  <2>3. CASE BandOf[c] # b \/ FixedSat[c] # 0
    <3>1. available'[b] = available[b]
      BY <1>1, <1>2, <1>8, <2>3 DEF GoesIdle
    <3> QED
      BY <2>1, <2>2, <3>1 DEF AssistedAt
  <2>4. CASE BandOf[c] = b /\ FixedSat[c] = 0
    <3>1. available' = [available EXCEPT ![b] = push_back_signal(@, assigned[c])]
      BY <1>8, <2>4 DEF GoesIdle
    <3>2. Listed(available'[b]) = Listed(available[b]) \cup {assigned[c]}
      BY <1>1, <3>1, PushedBack
    <3>3. c \in BandChannels(b) /\ Busy(c)
      BY <1>2, <2>1, <2>4 DEF Busy
    <3>4. \A d \in BandChannels(b) : Busy(d)' => assigned'[d] \notin Listed(available'[b])
      BY <2>1, <2>2, <3>2, <3>3 DEF AssistedAt
    <3>5. handler.gs # 0 /\ BandOf[handler.who] = b => handler.gs \notin Listed(available'[b])
      BY <3>2, <3>3 DEF AssistedAt
    <3> QED
      BY <2>1, <2>2, <3>4, <3>5 DEF AssistedAt
  <2> QED
    BY <2>3, <2>4
<1>9. ASSUME NEW c \in Channels, StartsFixed(c) PROVE AssistedAt(b)'
  <2>1. /\ UNCHANGED <<available, assigned>> /\ FixedSat[c] # 0 /\ SamePending
        /\ \A d \in Channels \ {c} : channels_state'[d] = channels_state[d]
    BY <1>1, <1>9 DEF StartsFixed
  <2>2. \A d \in BandChannels(b) : Busy(d)' => Busy(d) \/ d = c
    BY <1>2, <2>1 DEF Busy
  <2>3. assigned[c] = FixedSat[c] /\ FixedSat[c] \in Fixed(BandOf[c])
    BY <1>1, <2>1 DEF FixedStay, Fixed, BandChannels
  <2>4. CASE BandOf[c] # b
    BY <1>2, <2>1, <2>2, <2>4 DEF AssistedAt, SamePending
  <2>5. CASE BandOf[c] = b
    <3>1. assigned[c] \notin Listed(available[b])
      BY <2>3, <2>5 DEF ReservedInv
    <3>2. ASSUME NEW d \in BandChannels(b), assigned[d] = assigned[c] PROVE d = c
      <4>1. d \in Channels /\ BandOf[d] = b
        BY <1>2
      <4>2. FixedSat[d] # 0
        BY <2>3, <2>5, <3>2, <4>1 DEF ReservedInv
      <4>3. assigned[d] = FixedSat[d]
        BY <1>1, <4>1, <4>2 DEF FixedStay
      <4> QED
        BY <2>1, <2>3, <2>5, <3>2, <4>1, <4>3 DEF TiedOnce
    <3>3. handler.gs # 0 /\ BandOf[handler.who] = b => handler.gs # assigned[c]
      BY <2>3, <2>5 DEF ReservedInv
    <3> QED
      BY <2>1, <2>2, <3>1, <3>2, <3>3 DEF AssistedAt, SamePending
  <2> QED
    BY <2>4, <2>5
<1>10. ASSUME NEW c \in Channels, NEW e \in Bands, NEW g \in Sats, NEW list \in Seq(Sats),
              Searches(c, e, g, list)
       PROVE  AssistedAt(b)'
  <2>1. /\ channels_state[c] = 0 /\ e = BandOf[c] /\ assigned' = [assigned EXCEPT ![c] = g]
        /\ available[e] # <<>> /\ g = NextSat(e) /\ list = ListAfterSearch(e) /\ SamePending
    BY <1>10 DEF Searches
  <2>2. /\ g \in Listed(available[e]) /\ Listed(available[e]) = Listed(list) \cup {g}
    BY <1>1, <2>1, NextSatProperties DEF NoListRepeats
  <2>3. /\ assigned'[c] = g /\ \A d \in Channels \ {c} : assigned'[d] = assigned[d]
    BY <1>1, <2>1
  <2>4. CASE e # b
    <3>1. available'[b] = available[b] /\ \A d \in Channels \ {c} : channels_state'[d] = channels_state[d]
      BY <1>1, <1>10, <2>4 DEF Searches
    <3>2. \A d \in BandChannels(b) : d # c /\ (Busy(d)' <=> Busy(d)) /\ assigned'[d] = assigned[d]
      BY <1>2, <2>1, <2>3, <2>4, <3>1 DEF Busy
    <3> QED
      BY <2>1, <3>1, <3>2 DEF AssistedAt, SamePending
  <2>5. CASE e = b /\ StartAllowed(b) /\ available' = [available EXCEPT ![b] = list]
             /\ channels_state' = [channels_state EXCEPT ![c] = 1]
    <3>1. Assistants(b) # {}
      BY <2>5 DEF StartAllowed
    <3>2. available'[b] = list /\ list = remove_signal(available[b], g)
      BY <1>1, <2>1, <2>5, <3>1 DEF ListAfterSearch
    <3>3. Listed(available'[b]) = Listed(available[b]) \ {g}
      BY <1>1, <3>2, RemoveListed
    <3>4. \A d \in BandChannels(b) : Busy(d)' => d = c \/ (Busy(d) /\ assigned'[d] = assigned[d])
      BY <1>1, <1>2, <2>3, <2>5 DEF Busy
    <3>5. \A d \in BandChannels(b) : Busy(d) => assigned[d] # g
      BY <2>2, <2>5 DEF AssistedAt
    <3>6. handler.gs # 0 /\ BandOf[handler.who] = b => handler.gs # g
      BY <2>2, <2>5 DEF AssistedAt
    <3> QED
      BY <2>1, <2>3, <3>3, <3>4, <3>5, <3>6 DEF AssistedAt, SamePending
  <2>6. CASE e = b /\ available' = [available EXCEPT ![b] = push_back_signal(list, g)]
             /\ channels_state' = channels_state
    <3>1. Listed(available'[b]) = Listed(available[b])
      <4>1. available'[b] = push_back_signal(list, g)
        BY <1>1, <2>6
      <4>2. Listed(push_back_signal(list, g)) = Listed(list) \cup {g}
        BY PushBackListed
      <4> QED
        BY <2>2, <2>6, <4>1, <4>2
    <3>2. \A d \in BandChannels(b) : Busy(d)' => Busy(d) /\ assigned'[d] = assigned[d]
      BY <1>2, <2>1, <2>3, <2>6 DEF Busy
    <3> QED
      BY <2>1, <3>1, <3>2 DEF AssistedAt, SamePending
  <2> QED
    BY <1>10, <2>4, <2>5, <2>6 DEF Searches
<1>11. ASSUME NEW e \in Bands, NEW g \in Sats, Returns(e, g) PROVE AssistedAt(b)'
  <2>1. /\ available' = [available EXCEPT ![e] = push_back_signal(@, g)]
        /\ g = handler.gs /\ e = BandOf[handler.who] /\ g # 0
        /\ handler'.gs = 0 /\ UNCHANGED <<assigned, channels_state>>
    BY <1>3, <1>11 DEF Returns
  <2>2. /\ Listed(available'[e]) = Listed(available[e]) \cup {g}
        /\ \A a \in Bands \ {e} : available'[a] = available[a]
    BY <1>1, <2>1, PushedBack
  <2>3. \A c \in BandChannels(b) : Busy(c) => assigned[c] \notin Listed(available'[b])
    BY <2>1, <2>2 DEF AssistedAt
  <2> QED
    BY <2>1, <2>3 DEF AssistedAt, Busy
<1> QED
  BY <1>4, <1>5, <1>6, <1>7, <1>8, <1>9, <1>10, <1>11, ListStep

(* With GNSS-SDR.assist_dual_frequency_acq, and without telecommands, no   *)
(* two channels of a band that needs assistance ever work on the same      *)
(* satellite: the search takes it out of the list, and only the channel    *)
(* that held it puts it back.                                              *)
THEOREM AssistedAlwaysOnce ==
    Uncrowded /\ NoTelecommands /\ AssistDual /\ TiedOnce => (Spec => []AssistedOnce)
<1> SUFFICES ASSUME Uncrowded, NoTelecommands, AssistDual, TiedOnce PROVE Spec => []AssistedOnce
  OBVIOUS
<1> DEFINE Inv == PrimaryFirst => \A b \in Bands \ Primary : AssistedAt(b)
<1>1. Init => Inv
  <2> SUFFICES ASSUME Init, PrimaryFirst, NEW b \in Bands \ Primary PROVE AssistedAt(b)
    OBVIOUS
  <2>1. handler.gs = 0
    BY DEF Init, NoTelecommands, Idle
  <2>2. \A c \in BandChannels(b) : ~Busy(c)
    BY DEF PrimaryFirst, BandChannels, Busy, Init, set_channels_state
  <2> QED
    BY <2>1, <2>2 DEF AssistedAt
<1>2. ControlInv /\ SignalInv /\ ReservedInv /\ Inv /\ [Next]_vars => Inv'
  <2> SUFFICES ASSUME ControlInv, SignalInv, ReservedInv, Inv, [Next]_vars, PrimaryFirst,
                      NEW b \in Bands \ Primary
               PROVE  AssistedAt(b)'
    BY DEF PrimaryFirst
  <2> QED
    BY AssistedStep
<1>3. Inv => AssistedOnce
  <2> SUFFICES ASSUME Inv, PrimaryFirst, NEW c \in Channels, NEW d \in Channels,
                      BandOf[c] = BandOf[d], BandOf[c] \notin Primary,
                      channels_state[c] # 0, channels_state[d] # 0, assigned[c] = assigned[d]
               PROVE  c = d
    BY DEF AssistedOnce
  <2>1. BandOf[c] \in Bands /\ c \in BandChannels(BandOf[c]) /\ d \in BandChannels(BandOf[c])
    BY ControlAssumption DEF BandChannels
  <2>2. AssistedAt(BandOf[c])
    BY <2>1
  <2> QED
    BY <2>1, <2>2 DEF AssistedAt, Busy
<1>4. Spec => []ControlInv
  BY ControlInvariant
<1>5. Spec => []ReservedInv
  BY ReservedInvariant
<1> HIDE DEF Inv
<1>6. Spec => []Inv
  BY <1>1, <1>2, <1>4, <1>5, SignalInvariant, PTL DEF Spec
<1> QED
  BY <1>3, <1>6, PTL

-----------------------------------------------------------------------------
(* The order of the lists.                                                 *)

LEMMA PositionIs ==
    ASSUME NEW list, NoRepeats(list), NEW i \in 1 .. Len(list)
    PROVE  Position(list, list[i]) = i
BY DEF Position, NoRepeats

LEMMA PositionOf ==
    ASSUME NEW list, NEW s \in Listed(list)
    PROVE  Position(list, s) \in 1 .. Len(list) /\ list[Position(list, s)] = s
BY DEF Position, Listed

LEMMA RankBelow ==
    ASSUME NEW n \in Nat, NEW P \in SUBSET (1 .. n), NEW i \in P
    PROVE  Rank(P, i) <= i
<1> DEFINE A == {j \in P : j <= i}
<1>1. i \in Nat /\ i \in Int /\ 1 <= i
  OBVIOUS
<1>2. A \in SUBSET (1 .. i)
  <2>1. \A j \in P : j \in 1 .. n
    OBVIOUS
  <2>2. \A j \in 1 .. n : j <= i => j \in 1 .. i
    BY <1>1
  <2>3. \A j \in A : j \in 1 .. i
    BY <2>1, <2>2
  <2> HIDE DEF A
  <2> QED
    BY <2>3
<1>3. IsFiniteSet(1 .. i) /\ Cardinality(1 .. i) = i
  BY <1>1, FS_Interval
<1> HIDE DEF A
<1>4. Cardinality(A) <= i
  BY <1>2, <1>3, FS_Subset
<1> QED
  BY <1>4 DEF A, Rank

(* Taking signals out of a list moves none of the others back.             *)
LEMMA KeepOrder ==
    ASSUME NEW X, NEW list \in Seq(X), NoRepeats(list), NEW S, NEW s \in Listed(list), s \in S
    PROVE  Position(Keep(list, S), s) <= Position(list, s)
<1> DEFINE P == Chosen(list, S)
           r == Keep(list, S)
           i == Position(list, s)
           k == Rank(P, i)
<1>1. i \in 1 .. Len(list) /\ list[i] = s /\ Len(list) \in Nat
  BY PositionOf
<1>2. /\ P \in SUBSET (1 .. Len(list)) /\ Len(r) = Cardinality(P)
      /\ \A m \in 1 .. Cardinality(P) : r[m] = list[At(P, m)]
  BY KeepProperties
<1>3. P \in SUBSET (0 .. Len(list)) /\ i \in P /\ NoRepeats(r)
  BY <1>1, <1>2, KeepListed DEF Chosen
<1> HIDE DEF P, r, i
<1>4. k \in 1 .. Cardinality(P) /\ At(P, k) = i
  BY <1>1, <1>3, AtProperties
<1>5. k <= i
  BY <1>1, <1>2, <1>3, RankBelow
<1>6. k \in 1 .. Len(r) /\ r[k] = s
  BY <1>1, <1>2, <1>4
<1>7. Position(r, s) = k
  BY <1>3, <1>6, PositionIs
<1> QED
  BY <1>5, <1>7 DEF r, i

LEMMA RemoveOrder ==
    ASSUME NEW X, NEW list \in Seq(X), NoRepeats(list), NEW x, NEW s \in Listed(list), s # x
    PROVE  Position(remove_signal(list, x), s) <= Position(list, s)
BY KeepOrder DEF remove_signal

LEMMA PushBackOrder ==
    ASSUME NEW X, NEW list \in Seq(X), NoRepeats(list), NEW x \in X, NEW s \in Listed(list), s # x
    PROVE  Position(push_back_signal(list, x), s) <= Position(list, s)
<1> DEFINE r == remove_signal(list, x)
           p == push_back_signal(list, x)
           k == Position(r, s)
<1>1. r \in Seq(X) /\ s \in Listed(r)
  BY RemoveListed
<1>2. p = Append(r, x) /\ NoRepeats(p)
  BY PushBackListed DEF push_back_signal
<1>3. k <= Position(list, s)
  BY RemoveOrder
<1> HIDE DEF r, p
<1>4. k \in 1 .. Len(r) /\ r[k] = s
  BY <1>1, PositionOf
<1>5. k \in 1 .. Len(p) /\ p[k] = s
  BY <1>1, <1>2, <1>4
<1>6. Position(p, s) = k
  BY <1>2, <1>5, PositionIs
<1> QED
  BY <1>3, <1>6 DEF p

LEMMA RotateOrder ==
    ASSUME NEW X, NEW list \in Seq(X), NoRepeats(list), NEW s \in Listed(list), s # Head(list)
    PROVE  Position(rotate(list), s) <= Position(list, s)
<1> DEFINE r == rotate(list)
           n == Len(list)
           i == Position(list, s)
<1>1. i \in 1 .. n /\ list[i] = s
  BY PositionOf
<1>2. list # <<>>
  BY <1>1
<1>3. /\ Len(r) = n /\ n \in Nat \ {0} /\ Head(list) = list[1]
      /\ \A j \in 1 .. n : r[j] = IF j = n THEN list[1] ELSE list[j + 1]
  BY <1>2 DEF rotate
<1>4. NoRepeats(r)
  BY <1>2, RotateListed
<1> HIDE DEF r, n, i
<1>5. i # 1
  BY <1>1, <1>3
<1>6. i - 1 \in 1 .. n /\ i - 1 # n /\ (i - 1) + 1 = i /\ i - 1 <= i
  BY <1>1, <1>3, <1>5
<1>7. r[i - 1] = s /\ i - 1 \in 1 .. Len(r)
  BY <1>1, <1>3, <1>6
<1>8. Position(r, s) = i - 1
  BY <1>4, <1>7, PositionIs
<1> QED
  BY <1>6, <1>8 DEF r, i

(* The search moves back only the satellite it returns.                    *)
LEMMA SearchOrder ==
    ASSUME FlowgraphTypes, NoListRepeats, NEW b \in Bands, available[b] # <<>>,
           NEW s \in Listed(available[b]), s # NextSat(b)
    PROVE  Position(ListAfterSearch(b), s) <= Position(available[b], s)
<1>1. available[b] \in Seq(Sats) /\ NoRepeats(available[b])
  BY DEF FlowgraphTypes, NoListRepeats
<1>2. CASE Assistants(b) = {}
  <2>1. NextSat(b) = Head(available[b]) /\ ListAfterSearch(b) = rotate(available[b])
    BY <1>2 DEF NextSat, ListAfterSearch
  <2> QED
    BY <1>1, <2>1, RotateOrder
<1>3. CASE Assistants(b) # {}
  <2>1. ListAfterSearch(b) = remove_signal(available[b], NextSat(b))
    BY <1>3 DEF ListAfterSearch
  <2> QED
    BY <1>1, <2>1, RemoveOrder
<1> QED
  BY <1>2, <1>3

LEMMA OrderStep ==
    ASSUME NoTelecommands, ControlInv, SignalInv, [Next]_vars,
           NEW b \in Bands, NEW s \in Sats, Overtaken(b, s),
           \A c \in BandChannels(b) : assigned'[c] # s, handler.gs # s
    PROVE  FALSE
<1>1. /\ FlowgraphTypes /\ NoListRepeats /\ available \in [Bands -> Seq(Sats)]
      /\ assigned \in [Channels -> Sats]
      /\ available[b] \in Seq(Sats) /\ NoRepeats(available[b])
  BY DEF SignalInv, FlowgraphTypes, NoListRepeats
<1>2. /\ s \in Listed(available[b]) /\ s \in Listed(available'[b])
      /\ Position(available'[b], s) > Position(available[b], s)
  BY DEF Overtaken
<1>3. Position(available[b], s) \in Nat
  <2>1. Position(available[b], s) \in 1 .. Len(available[b])
    BY <1>2, PositionOf
  <2> QED
    BY <2>1
<1>4. Position(available'[b], s) \in Nat
  <2>1. Position(available'[b], s) \in 1 .. Len(available'[b])
    BY <1>2, PositionOf
  <2> QED
    BY <2>1
<1>5. /\ available'[b] # available[b]
      /\ ~(Position(available'[b], s) <= Position(available[b], s))
  BY <1>2, <1>3, <1>4
<1>6. \A c \in Channels : BandOf[c] = b => assigned'[c] # s
  BY DEF BandChannels
<1>7. ~Untouched
  BY <1>5 DEF Untouched, SignalVars
<1>8. ASSUME NEW c \in Channels, GivesUp(c) \/ Retries(c) \/ StartsFixed(c) PROVE FALSE
  BY <1>5, <1>8 DEF GivesUp, Retries, StartsFixed
<1>9. ASSUME NEW c \in Channels, Succeeds(c) PROVE FALSE
  <2>1. b = BandOf[c] /\ assigned' = assigned
    BY <1>1, <1>5, <1>9 DEF Succeeds
  <2>2. available'[b] = remove_signal(available[b], assigned[c]) /\ s # assigned[c]
    BY <1>1, <1>6, <1>9, <2>1 DEF Succeeds
  <2> QED
    BY <1>1, <1>2, <1>5, <2>2, RemoveOrder
<1>10. ASSUME NEW c \in Channels, GoesIdle(c) PROVE FALSE
  <2>1. b = BandOf[c] /\ assigned' = assigned /\ FixedSat[c] = 0
    BY <1>1, <1>5, <1>10 DEF GoesIdle
  <2>2. available' = [available EXCEPT ![b] = push_back_signal(@, assigned[c])]
    BY <1>10, <2>1 DEF GoesIdle
  <2>3. /\ available'[b] = push_back_signal(available[b], assigned[c]) /\ s # assigned[c]
        /\ assigned[c] \in Sats
    BY <1>1, <1>6, <2>1, <2>2
  <2> QED
    BY <1>1, <1>2, <1>5, <2>3, PushBackOrder
<1>11. ASSUME NEW c \in Channels, NEW e \in Bands, NEW g \in Sats, NEW list \in Seq(Sats),
              Searches(c, e, g, list)
       PROVE  FALSE
  <2>1. /\ e = BandOf[c] /\ assigned' = [assigned EXCEPT ![c] = g]
        /\ available[e] # <<>> /\ g = NextSat(e) /\ list = ListAfterSearch(e)
        /\ \/ available' = [available EXCEPT ![e] = list]
           \/ available' = [available EXCEPT ![e] = push_back_signal(list, g)]
    BY <1>11 DEF Searches
  <2>2. b = e /\ (available'[b] = list \/ available'[b] = push_back_signal(list, g))
    BY <1>1, <1>5, <2>1
  <2>3. assigned'[c] = g /\ s # g
    BY <1>1, <1>6, <2>1, <2>2
  <2>4. Position(list, s) <= Position(available[b], s)
    BY <1>1, <1>2, <2>1, <2>2, <2>3, SearchOrder
  <2>5. NoRepeats(list) /\ s \in Listed(list)
    BY <1>1, <1>2, <2>1, <2>2, <2>3, NextSatProperties
  <2>6. Position(push_back_signal(list, g), s) <= Position(list, s)
    BY <2>3, <2>5, PushBackOrder
  <2>7. Position(list, s) \in Nat
    <3>1. Position(list, s) \in 1 .. Len(list)
      BY <2>5, PositionOf
    <3> QED
      BY <3>1
  <2> QED
    BY <1>3, <1>4, <1>5, <2>2, <2>4, <2>6, <2>7
<1>12. ASSUME NEW e \in Bands, NEW g \in Sats, Returns(e, g) PROVE FALSE
  <2>1. available' = [available EXCEPT ![e] = push_back_signal(@, g)] /\ s # g
    BY <1>12 DEF Returns
  <2>2. b = e /\ available'[b] = push_back_signal(available[b], g)
    BY <1>1, <1>5, <2>1
  <2> QED
    BY <1>1, <1>2, <1>5, <2>1, <2>2, PushBackOrder
<1> QED
  BY <1>7, <1>8, <1>9, <1>10, <1>11, <1>12, ListStep

(* Without telecommands a waiting signal only moves forward in its list:   *)
(* nothing overtakes it, except when a channel takes it or it is given     *)
(* back.                                                                   *)
THEOREM NeverOvertaken == Uncrowded /\ NoTelecommands => (Spec => NoOvertaking)
<1> SUFFICES ASSUME Uncrowded, NoTelecommands PROVE Spec => NoOvertaking
  OBVIOUS
<1> DEFINE Fair == \A b \in Bands, s \in Sats :
                       Overtaken(b, s) => \/ \E c \in BandChannels(b) : assigned'[c] = s
                                          \/ handler.gs = s
<1>1. ControlInv /\ SignalInv /\ [Next]_vars => Fair
  BY OrderStep
<1>2. ControlInv /\ SignalInv /\ [Next]_vars => [Fair]_vars
  BY <1>1
<1>3. Spec => []ControlInv
  BY ControlInvariant
<1>4. Spec => [][Fair]_vars
  BY <1>2, <1>3, SignalInvariant, PTL DEF Spec
<1> QED
  BY <1>4 DEF NoOvertaking
=============================================================================
