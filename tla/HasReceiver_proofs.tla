------------------------- MODULE HasReceiver_proofs -------------------------
(* Proofs about HasReceiver, for every set of message and page             *)
(* identifiers, every size of message and every time-out.                  *)
EXTENDS HasReceiver, FiniteSetTheorems, FunctionTheorems, TLAPS

-----------------------------------------------------------------------------
(* The inductive invariant, for one MID: n is its message_size, q the age  *)
(* of its last page, H its pages and T their times.                        *)

Pages(m) == [pid : PidsOf[m], current : BOOLEAN, age : Ages]

(* No two pages are the same row.                                          *)
DifferentRows(m, H) ==
    /\ H \subseteq Pages(m) /\ IsFiniteSet(H)
    /\ \A p1, p2 \in H : p1.pid = p2.pid => p1 = p2

(* Every page has a time, and the pages of the message that is being sent  *)
(* are not yet enough to decode it.                                        *)
Incomplete(n, H, T) ==
    /\ Cardinality(H) <= Len(T)
    /\ (\A p \in H : p.current) => Cardinality(H) < n

(* No time is later than that of the last page.                            *)
TimesBefore(q, T) == \A k \in 1 .. Len(T) : T[k] >= q

(* The pages are all of the same message, and out of date if that is not   *)
(* the one that is being sent.                                             *)
SameMessage(H, T) ==
    (\E p \in H : ~p.current) => T[1] = Old /\ \A p \in H : ~p.current

(* If there are no more times than pages, they are those of the pages.     *)
TimesOfPages(H, T) ==
    Len(T) = Cardinality(H) => \A k \in 1 .. Len(T) : \E p \in H : p.age = T[k]

MidInv(m, n, q, H, T) ==
    /\ n \in SizesOf[m] /\ q \in Ages /\ T \in Seq(Ages)
    /\ DifferentRows(m, H)
    /\ Incomplete(n, H, T)
    /\ TimesBefore(q, T)
    /\ SameMessage(H, T)
    /\ TimesOfPages(H, T)

(* The variables are arrays indexed by the MID.                            *)
PerMid ==
    /\ DOMAIN size = Mids /\ quiet = [m \in Mids |-> quiet[m]]
    /\ DOMAIN held = Mids /\ stamps = [m \in Mids |-> stamps[m]]

(* A MID that may be published was not within the time-out.                *)
Marks ==
    /\ printed \in [Mids -> BOOLEAN] /\ printed_at \in [Mids -> Ages]
    /\ \A m \in Mids : ~printed[m] => printed_at[m] > Window

LastOK ==
    /\ last.kind \in {"none", "page", "message"}
    /\ last.kind # "none" => last.mid \in Mids
    /\ MessageIsWhole /\ NeverStuck /\ PublishedOnce

HasInv ==
    /\ PerMid
    /\ \A m \in Mids : MidInv(m, size[m], quiet[m], held[m], stamps[m])
    /\ Marks
    /\ mask \in BOOLEAN
    /\ LastOK

-----------------------------------------------------------------------------
(* Facts about ages, times and pages.                                      *)

LEMMA AgeFacts ==
    /\ Old \in Nat /\ Ages = 0 .. Old /\ Old \in Ages /\ 0 \in Ages
    /\ \A a \in Ages : Older(a) \in Ages /\ Older(a) >= a
    /\ \A a, b \in Ages : a <= b => Older(a) <= Older(b)
    /\ Older(Old) = Old
    /\ 0 .. Jitter \subseteq Ages
    /\ Window \in Nat /\ Old > Window
    /\ \A late \in 0 .. Jitter : late \in Nat /\ Old - late > Window
  BY HasAssumption DEF Old, Ages, Older

LEMMA SizeFacts == ASSUME NEW m \in Mids, NEW n \in SizesOf[m]
                   PROVE  n \in Nat /\ n >= 1 /\ MaxSize(m) \in Nat /\ n <= MaxSize(m)
<1>1. SizesOf[m] \subseteq 1 .. (FirstParity - 1) /\ FirstParity \in Nat
  BY HasAssumption
<1>2. PICK k \in SizesOf[m] : \A j \in SizesOf[m] : j <= k
  BY HasAssumption
<1>3. MaxSize(m) \in SizesOf[m] /\ \A j \in SizesOf[m] : j <= MaxSize(m)
  BY <1>2 DEF MaxSize
<1> QED
  BY <1>1, <1>3

(* A change of the pages that keeps their rows keeps their number.         *)
LEMMA Relabelled ==
    ASSUME NEW m \in Mids, NEW H, DifferentRows(m, H),
           NEW f \in [H -> Pages(m)], \A p \in H : f[p].pid = p.pid
    PROVE  /\ DifferentRows(m, {f[p] : p \in H})
           /\ Cardinality({f[p] : p \in H}) = Cardinality(H)
<1> DEFINE G == {f[p] : p \in H}
<1>1. f \in [H -> G] /\ \A g \in G : \E p \in H : f[p] = g
  OBVIOUS
<1>2. \A a, b \in H : f[a] = f[b] => a = b
  BY DEF DifferentRows
<1>3. f \in Bijection(H, G)
  BY <1>1, <1>2, Fun_IsBij
<1>4. IsFiniteSet(G) /\ Cardinality(G) = Cardinality(H)
  BY <1>3, FS_Bijection DEF ExistsBijection, DifferentRows
<1>5. \A p1, p2 \in G : p1.pid = p2.pid => p1 = p2
  BY DEF DifferentRows
<1> QED
  BY <1>4, <1>5 DEF DifferentRows

(* A MID without pages.                                                    *)
LEMMA EmptyMid ==
    ASSUME NEW m \in Mids, NEW n \in SizesOf[m], NEW q \in Ages, NEW T \in Seq(Ages),
           TimesBefore(q, T)
    PROVE  MidInv(m, n, q, {}, T)
<1>1. Cardinality({}) = 0 /\ IsFiniteSet({}) /\ n \in Nat /\ n >= 1
  BY FS_EmptySet, SizeFacts
<1>2. Len(T) \in Nat
  OBVIOUS
<1> QED
  BY <1>1, <1>2 DEF MidInv, DifferentRows, Incomplete, SameMessage, TimesOfPages

LEMMA NoTimes == ASSUME NEW q PROVE <<>> \in Seq(Ages) /\ TimesBefore(q, <<>>)
  BY DEF TimesBefore

(* Time passes.                                                            *)
Aged(H) == {[p EXCEPT !.age = Older(@)] : p \in H}
AgedTimes(T) == [k \in DOMAIN T |-> Older(T[k])]

LEMMA MidAges ==
    ASSUME NEW m \in Mids, NEW n, NEW q, NEW H, NEW T, MidInv(m, n, q, H, T)
    PROVE  MidInv(m, n, Older(q), Aged(H), AgedTimes(T))
<1> DEFINE f == [p \in H |-> [p EXCEPT !.age = Older(@)]]
           G == {f[p] : p \in H}
           U == AgedTimes(T)
<1>1. H \subseteq Pages(m) /\ DifferentRows(m, H) /\ T \in Seq(Ages) /\ q \in Ages
  BY DEF MidInv, DifferentRows
<1>2. f \in [H -> Pages(m)]
  BY <1>1, AgeFacts DEF Pages
<1>3. \A p \in H : /\ f[p].pid = p.pid /\ f[p].current = p.current
                   /\ f[p].age = Older(p.age)
  BY <1>1 DEF Pages
<1>4. DifferentRows(m, G) /\ Cardinality(G) = Cardinality(H)
  <2> HIDE DEF f
  <2> QED
    BY <1>1, <1>2, <1>3, Relabelled
<1>5. U \in Seq(Ages) /\ Len(U) = Len(T) /\ \A k \in 1 .. Len(T) : U[k] = Older(T[k])
  <2>1. DOMAIN T = 1 .. Len(T) /\ Len(T) \in Nat /\ \A k \in 1 .. Len(T) : T[k] \in Ages
    BY <1>1
  <2>2. U \in [1 .. Len(T) -> Ages]
    BY <2>1, AgeFacts DEF AgedTimes
  <2> QED
    BY <2>1, <2>2 DEF AgedTimes
<1>6. Incomplete(n, G, U)
  BY <1>3, <1>4, <1>5 DEF Incomplete, MidInv
<1>7. TimesBefore(Older(q), U)
  <2>1. \A k \in 1 .. Len(T) : T[k] \in Ages
    BY <1>1
  <2>2. \A k \in 1 .. Len(T) : T[k] >= q
    BY DEF TimesBefore, MidInv
  <2>3. \A a, b \in Ages : b >= a => Older(b) >= Older(a)
    BY HasAssumption DEF Ages, Old, Older
  <2> QED
    BY <1>1, <1>5, <2>1, <2>2, <2>3 DEF TimesBefore
<1>8. SameMessage(G, U)
  <2> SUFFICES ASSUME NEW g \in G, ~g.current
               PROVE  U[1] = Old /\ \A h \in G : ~h.current
    BY DEF SameMessage
  <2>1. PICK p \in H : g = f[p]
    OBVIOUS
  <2>2. T[1] = Old /\ \A h \in H : ~h.current
    BY <1>3, <2>1 DEF SameMessage, MidInv
  <2>3. Cardinality(H) \in Nat /\ Cardinality(H) >= 1 /\ Cardinality(H) <= Len(T)
    <3>1. IsFiniteSet(H) /\ H # {}
      BY <1>1, <2>1 DEF DifferentRows
    <3>2. Cardinality(H) \in Nat /\ Cardinality(H) # 0
      BY <3>1, FS_CardinalityType, FS_EmptySet
    <3> QED
      BY <3>2 DEF MidInv, Incomplete
  <2>4. 1 \in 1 .. Len(T)
    BY <1>1, <2>3
  <2>5. U[1] = Old
    BY <1>5, <2>2, <2>4, AgeFacts
  <2>6. \A h \in G : ~h.current
    BY <1>3, <2>2
  <2> QED
    BY <2>5, <2>6
<1>9. TimesOfPages(G, U)
  <2> SUFFICES ASSUME Len(U) = Cardinality(G), NEW k \in 1 .. Len(U)
               PROVE  \E g \in G : g.age = U[k]
    BY DEF TimesOfPages
  <2>1. PICK p \in H : p.age = T[k]
    BY <1>4, <1>5 DEF TimesOfPages, MidInv
  <2> QED
    BY <1>3, <1>5, <2>1
<1>10. G = Aged(H)
  BY DEF Aged
<1> HIDE DEF G, U
<1>11. n \in SizesOf[m] /\ Older(q) \in Ages
  BY <1>1, AgeFacts DEF MidInv
<1> QED
  BY <1>4, <1>5, <1>6, <1>7, <1>8, <1>9, <1>10, <1>11 DEF MidInv, U

(* The MID is used for another message: its pages are out of date.         *)
Replaced(H) == {[p EXCEPT !.current = FALSE] : p \in H}

LEMMA MidChanges ==
    ASSUME NEW m \in Mids, NEW n, NEW q, NEW H, NEW T, MidInv(m, n, q, H, T), q > Gap,
           NEW size1 \in SizesOf[m]
    PROVE  MidInv(m, size1, q, Replaced(H), T)
<1> DEFINE f == [p \in H |-> [p EXCEPT !.current = FALSE]]
           G == {f[p] : p \in H}
<1>1. DifferentRows(m, H) /\ T \in Seq(Ages) /\ q \in Ages /\ H \subseteq Pages(m)
  BY DEF MidInv, DifferentRows
<1>2. f \in [H -> Pages(m)]
  BY <1>1 DEF Pages
<1>3. \A p \in H : f[p].pid = p.pid /\ ~f[p].current /\ f[p].age = p.age
  BY <1>1 DEF Pages
<1>4. DifferentRows(m, G) /\ Cardinality(G) = Cardinality(H)
  <2> HIDE DEF f
  <2> QED
    BY <1>1, <1>2, <1>3, Relabelled
<1>5. IsFiniteSet(G) /\ Cardinality(G) \in Nat /\ (G # {} => Cardinality(G) # 0)
  BY <1>4, FS_CardinalityType, FS_EmptySet DEF DifferentRows
<1>6. Incomplete(size1, G, T)
  <2>1. Cardinality(G) <= Len(T)
    BY <1>4 DEF MidInv, Incomplete
  <2>2. CASE G = {}
    <3>1. Cardinality(G) = 0 /\ size1 \in Nat /\ size1 >= 1
      BY <2>2, FS_EmptySet, SizeFacts
    <3> QED
      BY <2>1, <3>1 DEF Incomplete
  <2>3. CASE G # {}
    BY <1>3, <2>1, <2>3 DEF Incomplete
  <2> QED
    BY <2>2, <2>3
<1>7. SameMessage(G, T)
  <2>1. \A g \in G : ~g.current
    BY <1>3
  <2>2. G # {} => T[1] = Old
    <3> SUFFICES ASSUME G # {} PROVE T[1] = Old
      OBVIOUS
    <3>1. Cardinality(G) <= Len(T) /\ Len(T) \in Nat
      BY <1>1, <1>6 DEF Incomplete
    <3>2. 1 \in 1 .. Len(T)
      BY <1>5, <3>1
    <3>3. T[1] \in Ages /\ T[1] >= q
      BY <1>1, <3>2 DEF MidInv, TimesBefore
    <3> QED
      BY <1>1, <3>3, HasAssumption DEF Ages, Old
  <2> QED
    BY <2>1, <2>2 DEF SameMessage
<1>8. TimesOfPages(G, T)
  <2> SUFFICES ASSUME Len(T) = Cardinality(G), NEW k \in 1 .. Len(T)
               PROVE  \E g \in G : g.age = T[k]
    BY DEF TimesOfPages
  <2>1. PICK p \in H : p.age = T[k]
    BY <1>4 DEF TimesOfPages, MidInv
  <2> QED
    BY <1>3, <2>1
<1>9. G = Replaced(H)
  BY DEF Replaced
<1>10. TimesBefore(q, T)
  BY DEF MidInv
<1> HIDE DEF G
<1> QED
  BY <1>1, <1>4, <1>6, <1>7, <1>8, <1>9, <1>10 DEF MidInv

(* What delete_outdated_data leaves of a MID: the pages that stay are of   *)
(* the message that is being sent.                                         *)
TimeOut(H, T, late) == \E k \in 1 .. Cardinality(H) : TooOld(T[k], late)

LEMMA MidKept ==
    ASSUME NEW m \in Mids, NEW n, NEW q, NEW H, NEW T, MidInv(m, n, q, H, T),
           NEW late \in 0 .. Jitter
    PROVE  /\ MidInv(m, n, q, IF TimeOut(H, T, late) THEN {} ELSE H,
                     IF TimeOut(H, T, late) THEN <<>> ELSE T)
           /\ ~TimeOut(H, T, late) => \A p \in H : p.current
<1>1. MidInv(m, n, q, {}, <<>>)
  BY EmptyMid, NoTimes DEF MidInv
<1>2. ASSUME NEW p \in H, ~p.current PROVE TimeOut(H, T, late)
  <2>1. T[1] = Old
    BY <1>2 DEF MidInv, SameMessage
  <2>2. Cardinality(H) \in Nat /\ Cardinality(H) # 0
    BY <1>2, FS_CardinalityType, FS_EmptySet DEF MidInv, DifferentRows
  <2>3. 1 \in 1 .. Cardinality(H)
    BY <2>2
  <2> QED
    BY <2>1, <2>3, AgeFacts DEF TimeOut, TooOld
<1> QED
  BY <1>1, <1>2

(* A page is annotated.                                                    *)
LEMMA MidGrows ==
    ASSUME NEW m \in Mids, NEW n, NEW q, NEW H, NEW T, MidInv(m, n, q, H, T),
           \A p \in H : p.current, NEW pid \in PidsOf[m], NEW late \in 0 .. Jitter
    PROVE  LET G == Annotate(H, Page(pid, late))
               U == Noted(m, T, H, Page(pid, late))
           IN  /\ \A p \in G : p.current
               /\ Cardinality(G) \in Nat /\ Cardinality(G) <= n
               /\ U \in Seq(Ages) /\ TimesBefore(0, U)
               /\ Cardinality(G) # n => MidInv(m, n, 0, G, U)
<1> DEFINE new == Page(pid, late)
           G == Annotate(H, new)
           U == Noted(m, T, H, new)
<1>0. DifferentRows(m, H) /\ T \in Seq(Ages) /\ H \subseteq Pages(m) /\ IsFiniteSet(H)
  BY DEF MidInv, DifferentRows
<1>1. Cardinality(H) \in Nat /\ Cardinality(H) < n /\ Cardinality(H) <= Len(T)
      /\ n \in Nat /\ MaxSize(m) \in Nat /\ n <= MaxSize(m) /\ Len(T) \in Nat
  BY <1>0, FS_CardinalityType, SizeFacts DEF MidInv, Incomplete
<1>2. \A k \in 1 .. Len(T) : T[k] \in Ages /\ T[k] >= 0
  <2>1. \A a \in Ages : a >= 0
    BY HasAssumption DEF Ages, Old
  <2>2. \A k \in 1 .. Len(T) : T[k] \in Ages
    BY <1>0
  <2> QED
    BY <2>1, <2>2
<1>3. new \in Pages(m) /\ new.pid = pid /\ new.current = TRUE /\ new.age = late
  BY AgeFacts DEF Page, Pages
<1>4. late \in Ages /\ late >= 0 /\ 0 \in Ages
  BY AgeFacts
<1> HIDE DEF new
<1>5. CASE pid \in {p.pid : p \in H}
  <2>1. G = H /\ U = T
    BY <1>3, <1>5 DEF Annotate, Noted
  <2>2. TimesBefore(0, T)
    BY <1>2 DEF TimesBefore
  <2>3. MidInv(m, n, 0, H, T)
    BY <1>4, <2>2 DEF MidInv
  <2> HIDE DEF G, U
  <2>4. /\ \A p \in G : p.current
        /\ Cardinality(G) \in Nat /\ Cardinality(G) <= n
        /\ U \in Seq(Ages) /\ TimesBefore(0, U)
        /\ MidInv(m, n, 0, G, U)
    BY <1>0, <1>1, <2>1, <2>2, <2>3
  <2> QED
    BY <2>4 DEF G, U, new
<1>6. CASE pid \notin {p.pid : p \in H}
  <2>1. G = H \cup {new} /\ U = Truncated(m, Append(T, late))
    BY <1>3, <1>6 DEF Annotate, Noted
  <2>2. new \notin H
    BY <1>3, <1>6
  <2>3. IsFiniteSet(G) /\ Cardinality(G) = Cardinality(H) + 1
    BY <1>0, <2>1, <2>2, FS_AddElement
  <2>4. /\ U \in Seq(Ages)
        /\ Len(U) = (IF Len(T) + 1 > MaxSize(m) THEN MaxSize(m) ELSE Len(T) + 1)
        /\ \A k \in 1 .. Len(U) : U[k] = Append(T, late)[k]
    BY <1>0, <1>1, <1>4, <2>1 DEF Truncated
  <2>5. \A k \in 1 .. Len(U) : U[k] = IF k <= Len(T) THEN T[k] ELSE late
    BY <1>0, <1>1, <2>4
  <2>6. TimesBefore(0, U)
    BY <1>1, <1>2, <1>4, <2>4, <2>5 DEF TimesBefore
  <2>7. \A p \in G : p.current
    BY <1>3, <2>1
  <2>8. DifferentRows(m, G)
    BY <1>0, <1>3, <1>6, <2>1, <2>3 DEF DifferentRows
  <2>9. SameMessage(G, U)
    BY <2>7 DEF SameMessage
  <2>10. ASSUME Cardinality(G) # n PROVE Incomplete(n, G, U)
    BY <1>1, <2>3, <2>4, <2>10 DEF Incomplete
  <2>11. ASSUME Cardinality(G) # n PROVE TimesOfPages(G, U)
    <3> SUFFICES ASSUME Len(U) = Cardinality(G), NEW k \in 1 .. Len(U)
                 PROVE  \E p \in G : p.age = U[k]
      BY DEF TimesOfPages
    <3>1. CASE Len(T) = Cardinality(H)
      <4>1. CASE k <= Len(T)
        <5>1. k \in 1 .. Len(T)
          BY <1>1, <2>4, <4>1
        <5>2. PICK p \in H : p.age = T[k]
          BY <3>1, <5>1 DEF TimesOfPages, MidInv
        <5> QED
          BY <2>1, <2>5, <4>1, <5>2
      <4>2. CASE ~(k <= Len(T))
        BY <1>3, <2>1, <2>5, <4>2
      <4> QED
        BY <4>1, <4>2
    <3>2. CASE Len(T) # Cardinality(H)
      BY <1>1, <2>3, <2>4, <2>11, <3>2
    <3> QED
      BY <3>1, <3>2
  <2> HIDE DEF G, U
  <2>12. Cardinality(G) # n => MidInv(m, n, 0, G, U)
    BY <1>4, <2>4, <2>6, <2>8, <2>9, <2>10, <2>11 DEF MidInv
  <2>13. Cardinality(G) \in Nat /\ Cardinality(G) <= n
    BY <1>1, <2>3
  <2> QED
    BY <2>4, <2>6, <2>7, <2>12, <2>13 DEF G, U, new
<1> QED
  BY <1>5, <1>6

-----------------------------------------------------------------------------
(* The invariant holds.                                                    *)

LEMMA HasInvInit == Init => HasInv
<1> SUFFICES ASSUME Init PROVE HasInv
  OBVIOUS
<1>1. PerMid
  BY DEF Init, PerMid
<1>2. ASSUME NEW m \in Mids PROVE MidInv(m, size[m], quiet[m], held[m], stamps[m])
  <2>1. size[m] \in SizesOf[m] /\ quiet[m] = Old /\ held[m] = {} /\ stamps[m] = <<>>
    BY DEF Init
  <2> QED
    BY <2>1, EmptyMid, NoTimes, AgeFacts
<1>3. Marks
  BY AgeFacts DEF Init, Marks
<1>4. LastOK
  BY DEF Init, LastOK, Nothing, MessageIsWhole, NeverStuck, PublishedOnce
<1>5. mask \in BOOLEAN
  BY DEF Init
<1> QED
  BY <1>1, <1>2, <1>3, <1>4, <1>5 DEF HasInv

LEMMA NothingOK == ASSUME last' = Nothing PROVE LastOK'
  BY DEF Nothing, LastOK, MessageIsWhole, NeverStuck, PublishedOnce

LEMMA TickKeeps == ASSUME HasInv, Tick PROVE HasInv'
<1>1. PerMid'
  BY DEF Tick, PerMid, HasInv
<1>2. ASSUME NEW m \in Mids PROVE MidInv(m, size'[m], quiet'[m], held'[m], stamps'[m])
  <2>1. MidInv(m, size[m], quiet[m], held[m], stamps[m])
    BY DEF HasInv
  <2>2. /\ size'[m] = size[m] /\ quiet'[m] = Older(quiet[m])
        /\ held'[m] = Aged(held[m]) /\ stamps'[m] = AgedTimes(stamps[m])
    BY DEF Tick, Aged, AgedTimes
  <2> QED
    BY <2>1, <2>2, MidAges
<1>3. Marks'
  <2>1. printed' = printed /\ printed_at' = [m \in Mids |-> Older(printed_at[m])]
    BY DEF Tick
  <2>2. printed \in [Mids -> BOOLEAN] /\ \A m \in Mids : printed_at[m] \in Ages
    BY DEF HasInv, Marks
  <2>3. printed_at' \in [Mids -> Ages]
    BY <2>1, <2>2, AgeFacts
  <2>4. ASSUME NEW m \in Mids, ~printed[m] PROVE printed_at'[m] > Window
    <3>1. printed_at[m] > Window /\ printed_at[m] \in Ages
      BY <2>2, <2>4 DEF HasInv, Marks
    <3>2. printed_at'[m] >= printed_at[m] /\ printed_at'[m] \in Ages
      BY <2>1, <3>1, AgeFacts
    <3>3. printed_at[m] \in Nat /\ printed_at'[m] \in Nat /\ Window \in Nat
      BY <3>1, <3>2, AgeFacts
    <3>4. \A a, b, w \in Nat : a > w /\ b >= a => b > w
      OBVIOUS
    <3> QED
      BY <3>1, <3>2, <3>3, <3>4
  <2> QED
    BY <2>1, <2>2, <2>3, <2>4 DEF Marks
<1>4. LastOK' /\ mask' \in BOOLEAN
  BY NothingOK DEF Tick, HasInv
<1> QED
  BY <1>1, <1>2, <1>3, <1>4 DEF HasInv

LEMMA MidReusedKeeps == ASSUME HasInv, NEW m \in Mids, MidReused(m) PROVE HasInv'
<1>1. PerMid'
  BY DEF MidReused, PerMid, HasInv
<1>2. ASSUME NEW k \in Mids PROVE MidInv(k, size'[k], quiet'[k], held'[k], stamps'[k])
  <2>1. MidInv(k, size[k], quiet[k], held[k], stamps[k]) /\ PerMid
    BY DEF HasInv
  <2>2. PICK n \in SizesOf[m] : size' = [size EXCEPT ![m] = n]
    BY DEF MidReused
  <2>3. quiet'[k] = quiet[k] /\ stamps'[k] = stamps[k]
    BY DEF MidReused
  <2>4. CASE k = m
    <3>1. size'[k] = n /\ held'[k] = Replaced(held[k]) /\ quiet[k] > Gap
      BY <2>1, <2>2, <2>4 DEF MidReused, PerMid, Replaced
    <3> QED
      BY <2>1, <2>2, <2>3, <2>4, <3>1, MidChanges
  <2>5. CASE k # m
    <3>1. size'[k] = size[k] /\ held'[k] = held[k]
      BY <2>1, <2>2, <2>5 DEF MidReused, PerMid
    <3> QED
      BY <2>1, <2>3, <3>1
  <2> QED
    BY <2>4, <2>5
<1>3. Marks' /\ mask' \in BOOLEAN /\ LastOK'
  BY NothingOK DEF MidReused, HasInv, Marks
<1> QED
  BY <1>1, <1>2, <1>3 DEF HasInv

(* The MIDs after delete_outdated_data.                                    *)
LEMMA AfterDelete ==
    ASSUME HasInv, NEW late \in 0 .. Jitter, NEW k \in Mids
    PROVE  /\ MidInv(k, size[k], quiet[k], Kept(late)[k], KeptStamps(late)[k])
           /\ \A p \in Kept(late)[k] : p.current
<1>1. Outdated(k, late) <=> TimeOut(held[k], stamps[k], late)
  BY DEF Outdated, TimeOut
<1>2. /\ Kept(late)[k] = IF TimeOut(held[k], stamps[k], late) THEN {} ELSE held[k]
      /\ KeptStamps(late)[k] = IF TimeOut(held[k], stamps[k], late) THEN <<>> ELSE stamps[k]
  BY <1>1 DEF Kept, KeptStamps
<1>3. MidInv(k, size[k], quiet[k], held[k], stamps[k])
  BY DEF HasInv
<1> QED
  BY <1>2, <1>3, MidKept

(* ... and the marks it leaves.                                            *)
LEMMA MarksAfterDelete ==
    ASSUME HasInv, NEW late \in 0 .. Jitter
    PROVE  /\ StillPrinted(late) \in [Mids -> BOOLEAN]
           /\ \A k \in Mids : ~StillPrinted(late)[k] => printed_at[k] > Window
<1>1. StillPrinted(late) \in [Mids -> BOOLEAN]
  BY DEF StillPrinted
<1>2. ASSUME NEW k \in Mids, ~StillPrinted(late)[k] PROVE printed_at[k] > Window
  <2>1. printed_at[k] \in Nat /\ Window \in Nat /\ late \in Nat
    BY AgeFacts DEF HasInv, Marks
  <2>2. CASE ~printed[k]
    BY <2>2 DEF HasInv, Marks
  <2>3. CASE printed[k]
    <3>1. TooOld(printed_at[k], late)
      BY <1>2, <2>3 DEF StillPrinted, Forgotten
    <3>2. \A a, b, w \in Nat : a - b > w => a > w
      OBVIOUS
    <3> QED
      BY <2>1, <3>1, <3>2 DEF TooOld
  <2> QED
    BY <2>2, <2>3
<1> QED
  BY <1>1, <1>2

(* Handlers that leave the receiver alone: PageSkipped and PageIgnored.    *)
LEMMA UntouchedKeeps ==
    ASSUME HasInv, NEW m \in Mids, Arrives(m), last' = Nothing, UNCHANGED receiverVars
    PROVE  HasInv'
<1>1. PerMid'
  BY DEF HasInv, PerMid, Arrives, receiverVars
<1>2. ASSUME NEW k \in Mids PROVE MidInv(k, size'[k], quiet'[k], held'[k], stamps'[k])
  <2>1. MidInv(k, size[k], quiet[k], held[k], stamps[k]) /\ PerMid
    BY DEF HasInv
  <2>2. size'[k] = size[k] /\ held'[k] = held[k] /\ stamps'[k] = stamps[k]
    BY DEF Arrives, receiverVars
  <2>3. quiet'[k] = 0 \/ quiet'[k] = quiet[k]
    BY <2>1 DEF Arrives, PerMid
  <2>4. TimesBefore(quiet'[k], stamps[k]) /\ quiet'[k] \in Ages
    <3>1. stamps[k] \in Seq(Ages) /\ TimesBefore(quiet[k], stamps[k]) /\ quiet[k] \in Ages
      BY <2>1 DEF MidInv
    <3>2. \A j \in 1 .. Len(stamps[k]) : stamps[k][j] \in Ages
      BY <3>1
    <3>3. \A a \in Ages : a >= 0
      BY HasAssumption DEF Ages, Old
    <3> QED
      BY <2>3, <3>1, <3>2, <3>3, AgeFacts DEF TimesBefore
  <2> QED
    BY <2>1, <2>2, <2>4 DEF MidInv
<1>3. Marks' /\ mask' \in BOOLEAN /\ LastOK'
  BY NothingOK DEF HasInv, Marks, receiverVars
<1> QED
  BY <1>1, <1>2, <1>3 DEF HasInv

(* The handlers that annotate a page or give up the rows of a MID: what    *)
(* they do to the collection, with `pages' and `times' for the MID m.      *)
LEMMA CollectionKeeps ==
    ASSUME HasInv, NEW m \in Mids, Arrives(m), NEW late \in 0 .. Jitter,
           NEW pages, NEW times, MidInv(m, size[m], 0, pages, times),
           held' = [Kept(late) EXCEPT ![m] = pages],
           stamps' = [KeptStamps(late) EXCEPT ![m] = times]
    PROVE  /\ PerMid'
           /\ \A k \in Mids : MidInv(k, size'[k], quiet'[k], held'[k], stamps'[k])
<1>0. PerMid
  BY DEF HasInv
<1>1. PerMid'
  BY <1>0 DEF PerMid, Arrives, Kept, KeptStamps
<1>2. ASSUME NEW k \in Mids PROVE MidInv(k, size'[k], quiet'[k], held'[k], stamps'[k])
  <2>1. size'[k] = size[k]
    BY DEF Arrives
  <2>2. CASE k = m
    <3>1. quiet'[k] = 0 /\ held'[k] = pages /\ stamps'[k] = times
      BY <1>0, <2>2 DEF PerMid, Arrives, Kept, KeptStamps
    <3> QED
      BY <2>1, <2>2, <3>1
  <2>3. CASE k # m
    <3>1. quiet'[k] = quiet[k] /\ held'[k] = Kept(late)[k] /\ stamps'[k] = KeptStamps(late)[k]
      BY <1>0, <2>3 DEF PerMid, Arrives, Kept, KeptStamps
    <3> QED
      BY <2>1, <3>1, AfterDelete
  <2> QED
    BY <2>2, <2>3
<1> QED
  BY <1>1, <1>2

(* A page of the MID, after the old ones are deleted.                      *)
LEMMA PageAnnotated ==
    ASSUME HasInv, NEW m \in Mids, NEW pid \in PidsOf[m], NEW late \in 0 .. Jitter
    PROVE  LET pages == Annotate(Kept(late)[m], Page(pid, late))
               times == Noted(m, KeptStamps(late)[m], Kept(late)[m], Page(pid, late))
           IN  /\ \A p \in pages : p.current
               /\ Cardinality(pages) \in Nat /\ Cardinality(pages) <= size[m]
               /\ Cardinality(pages) # size[m] => MidInv(m, size[m], 0, pages, times)
               /\ MidInv(m, size[m], 0, {}, times)
<1> DEFINE pages == Annotate(Kept(late)[m], Page(pid, late))
           times == Noted(m, KeptStamps(late)[m], Kept(late)[m], Page(pid, late))
<1>1. /\ MidInv(m, size[m], quiet[m], Kept(late)[m], KeptStamps(late)[m])
      /\ \A p \in Kept(late)[m] : p.current
  BY AfterDelete
<1>2. /\ \A p \in pages : p.current
      /\ Cardinality(pages) \in Nat /\ Cardinality(pages) <= size[m]
      /\ times \in Seq(Ages) /\ TimesBefore(0, times)
      /\ Cardinality(pages) # size[m] => MidInv(m, size[m], 0, pages, times)
  BY <1>1, MidGrows
<1>3. size[m] \in SizesOf[m] /\ 0 \in Ages
  BY <1>1, AgeFacts DEF MidInv
<1> HIDE DEF pages, times
<1>4. MidInv(m, size[m], 0, {}, times)
  BY <1>2, <1>3, EmptyMid
<1> QED
  BY <1>2, <1>4 DEF pages, times

LEMMA CollectedKeeps ==
    ASSUME HasInv, NEW m \in Mids, NEW pid \in PidsOf[m], NEW late \in 0 .. Jitter,
           PageCollected(m, pid, late)
    PROVE  HasInv'
<1> DEFINE pages == Annotate(Kept(late)[m], Page(pid, late))
           times == Noted(m, KeptStamps(late)[m], Kept(late)[m], Page(pid, late))
<1>1. /\ Arrives(m) /\ Cardinality(pages) # size[m]
      /\ held' = [Kept(late) EXCEPT ![m] = pages]
      /\ stamps' = [KeptStamps(late) EXCEPT ![m] = times]
      /\ printed' = StillPrinted(late) /\ last' = Handled(m)
      /\ printed_at' = printed_at /\ mask' = mask
  BY DEF PageCollected, KeptStamps
<1>2. /\ Cardinality(pages) \in Nat /\ Cardinality(pages) <= size[m]
      /\ MidInv(m, size[m], 0, pages, times)
  BY <1>1, PageAnnotated
<1> HIDE DEF pages, times
<1>3. /\ PerMid'
      /\ \A k \in Mids : MidInv(k, size'[k], quiet'[k], held'[k], stamps'[k])
  BY <1>1, <1>2, CollectionKeeps
<1>4. Marks' /\ mask' \in BOOLEAN
  BY <1>1, MarksAfterDelete DEF HasInv, Marks
<1>5. LastOK'
  <2>1. held'[m] = pages /\ size'[m] = size[m]
    BY <1>1 DEF Kept, Arrives
  <2>2. Cardinality(held'[m]) < size'[m]
    <3>1. size[m] \in Nat
      BY <1>2, SizeFacts DEF MidInv
    <3> QED
      BY <1>1, <1>2, <2>1, <3>1
  <2>3. last'.kind = "page" /\ last'.mid = m
    BY <1>1 DEF Handled
  <2> QED
    BY <2>2, <2>3 DEF LastOK, MessageIsWhole, NeverStuck, PublishedOnce
<1> QED
  BY <1>3, <1>4, <1>5 DEF HasInv

(* decode_message_type1 on the rows of a MID that are all of one message.  *)
LEMMA DecodedKeeps ==
    ASSUME HasInv, NEW m \in Mids, ~printed[m], NEW late \in 0 .. Jitter,
           NEW pages, \A p, q \in pages : p.current = q.current,
           NEW marks \in [Mids -> BOOLEAN],
           \A k \in Mids : ~marks[k] => printed_at[k] > Window,
           NEW content \in Contents, NEW n, MessageDecoded(m, n, pages, marks, late, content),
           held'[m] = {}, size'[m] = size[m], size[m] \in Nat, size[m] >= 1
    PROVE  Marks' /\ mask' \in BOOLEAN /\ LastOK'
<1> DEFINE decoded == Decodable(n, pages)
           sent == decoded /\ (content = "mask" \/ (content = "plain" /\ mask))
<1>1. /\ mask' \in IF decoded THEN MaskAfter(content) ELSE {mask}
      /\ printed' = [marks EXCEPT ![m] = sent]
      /\ printed_at' = IF sent THEN [printed_at EXCEPT ![m] = late] ELSE printed_at
      /\ last' = IF sent THEN Published(m, pages, printed_at[m]) ELSE Handled(m)
  BY DEF MessageDecoded
<1>2. sent \in BOOLEAN
  BY DEF Decodable
<1>3. printed_at \in [Mids -> Ages] /\ mask \in BOOLEAN /\ printed_at[m] > Window
  BY DEF HasInv, Marks
<1>4. mask' \in BOOLEAN
  BY <1>1, <1>3 DEF MaskAfter, Contents
<1>5. Cardinality(held'[m]) < size'[m]
  BY FS_EmptySet
<1> HIDE DEF sent
<1>6. Marks'
  <2>1. printed' \in [Mids -> BOOLEAN]
    BY <1>1, <1>2
  <2>2. printed_at' \in [Mids -> Ages]
    BY <1>1, <1>3, AgeFacts
  <2>3. ASSUME NEW k \in Mids, ~printed'[k] PROVE printed_at'[k] > Window
    <3>1. CASE k = m
      <4>1. ~sent
        BY <1>1, <2>3, <3>1
      <4> QED
        BY <1>1, <1>3, <3>1, <4>1
    <3>2. CASE k # m
      <4>1. printed'[k] = marks[k] /\ printed_at'[k] = printed_at[k]
        BY <1>1, <1>3, <3>2
      <4> QED
        BY <2>3, <4>1
    <3> QED
      BY <3>1, <3>2
  <2> QED
    BY <2>1, <2>2, <2>3 DEF Marks
<1>7. LastOK'
  <2>1. CASE sent
    <3>1. /\ last'.kind = "message" /\ last'.mid = m /\ last'.since = printed_at[m]
          /\ last'.whole = (\A p, q \in pages : p.current = q.current)
      BY <1>1, <2>1 DEF Published
    <3> QED
      BY <1>3, <1>5, <3>1 DEF LastOK, MessageIsWhole, NeverStuck, PublishedOnce
  <2>2. CASE ~sent
    <3>1. last'.kind = "page" /\ last'.mid = m
      BY <1>1, <2>2 DEF Handled
    <3> QED
      BY <1>5, <3>1 DEF LastOK, MessageIsWhole, NeverStuck, PublishedOnce
  <2> QED
    BY <2>1, <2>2
<1> QED
  BY <1>4, <1>6, <1>7

LEMMA CompleteKeeps ==
    ASSUME HasInv, NEW m \in Mids, NEW pid \in PidsOf[m], NEW late \in 0 .. Jitter,
           NEW content \in Contents, MessageComplete(m, pid, late, content)
    PROVE  HasInv'
<1> DEFINE pages == Annotate(Kept(late)[m], Page(pid, late))
           times == Noted(m, KeptStamps(late)[m], Kept(late)[m], Page(pid, late))
<1>1. /\ ~printed[m] /\ Arrives(m)
      /\ held' = [Kept(late) EXCEPT ![m] = {}]
      /\ stamps' = [KeptStamps(late) EXCEPT ![m] = times]
      /\ MessageDecoded(m, size[m], pages, StillPrinted(late), late, content)
  BY DEF MessageComplete, KeptStamps
<1>2. (\A p \in pages : p.current) /\ MidInv(m, size[m], 0, {}, times)
  BY PageAnnotated
<1>3. \A p \in pages : p.current = TRUE
  <2>1. \A p \in pages : p \in Pages(m)
    <3>1. Kept(late)[m] \subseteq Pages(m)
      BY AfterDelete DEF MidInv, DifferentRows
    <3>2. Page(pid, late) \in Pages(m)
      BY AgeFacts DEF Page, Pages
    <3> QED
      BY <3>1, <3>2 DEF Annotate
  <2> HIDE DEF pages
  <2> QED
    BY <1>2, <2>1 DEF Pages
<1> HIDE DEF pages, times
<1>4. /\ PerMid'
      /\ \A k \in Mids : MidInv(k, size'[k], quiet'[k], held'[k], stamps'[k])
  BY <1>1, <1>2, CollectionKeeps
<1>5. held'[m] = {} /\ size'[m] = size[m] /\ size[m] \in Nat /\ size[m] >= 1
  BY <1>1, <1>2, SizeFacts DEF Kept, Arrives, MidInv
<1>6. Marks' /\ mask' \in BOOLEAN /\ LastOK'
  BY <1>1, <1>3, <1>5, MarksAfterDelete, DecodedKeeps
<1> QED
  BY <1>4, <1>6 DEF HasInv

LEMMA IgnoredCompletesKeeps ==
    ASSUME HasInv, NEW m \in Mids, NEW n \in Sizes, NEW late \in 0 .. Jitter,
           NEW content \in Contents, IgnoredPageCompletes(m, n, late, content)
    PROVE  HasInv'
<1>1. /\ ~printed[m] /\ Arrives(m) /\ held' = [held EXCEPT ![m] = {}] /\ stamps' = stamps
      /\ MessageDecoded(m, n, held[m], printed, late, content)
  BY DEF IgnoredPageCompletes
<1>2. PerMid /\ MidInv(m, size[m], quiet[m], held[m], stamps[m])
  BY DEF HasInv
<1>3. PerMid'
  BY <1>1, <1>2 DEF PerMid, Arrives
<1>4. ASSUME NEW k \in Mids PROVE MidInv(k, size'[k], quiet'[k], held'[k], stamps'[k])
  <2>1. MidInv(k, size[k], quiet[k], held[k], stamps[k])
    BY DEF HasInv
  <2>2. size'[k] = size[k] /\ stamps'[k] = stamps[k]
    BY <1>1 DEF Arrives
  <2>3. CASE k = m
    <3>1. quiet'[k] = 0 /\ held'[k] = {}
      BY <1>1, <1>2, <2>3 DEF PerMid, Arrives
    <3>2. stamps[k] \in Seq(Ages) /\ size[k] \in SizesOf[k] /\ 0 \in Ages
      BY <2>1, AgeFacts DEF MidInv
    <3>3. TimesBefore(0, stamps[k])
      <4>1. \A j \in 1 .. Len(stamps[k]) : stamps[k][j] \in Ages
        BY <3>2
      <4>2. \A a \in Ages : a >= 0
        BY HasAssumption DEF Ages, Old
      <4> QED
        BY <4>1, <4>2 DEF TimesBefore
    <3>4. MidInv(k, size[k], 0, {}, stamps[k])
      BY <3>2, <3>3, EmptyMid
    <3> QED
      BY <2>2, <3>1, <3>4
  <2>4. CASE k # m
    <3>1. quiet'[k] = quiet[k] /\ held'[k] = held[k]
      BY <1>1, <1>2, <2>4 DEF PerMid, Arrives
    <3> QED
      BY <2>1, <2>2, <3>1
  <2> QED
    BY <2>3, <2>4
<1>5. \A p, q \in held[m] : p.current = q.current
  <2>1. \A p \in held[m] : p.current \in BOOLEAN
    BY <1>2 DEF MidInv, DifferentRows, Pages
  <2> QED
    BY <1>2, <2>1 DEF MidInv, SameMessage
<1>6. held'[m] = {} /\ size'[m] = size[m] /\ size[m] \in Nat /\ size[m] >= 1
  BY <1>1, <1>2, SizeFacts DEF PerMid, Arrives, MidInv
<1>7. printed \in [Mids -> BOOLEAN] /\ \A k \in Mids : ~printed[k] => printed_at[k] > Window
  BY DEF HasInv, Marks
<1>8. Marks' /\ mask' \in BOOLEAN /\ LastOK'
  BY <1>1, <1>5, <1>6, <1>7, DecodedKeeps
<1> QED
  BY <1>3, <1>4, <1>8 DEF HasInv

LEMMA HandlerKeeps ==
    ASSUME HasInv, NEW m \in Mids, msg_handler_galileo_e6_has(m) PROVE HasInv'
<1>1. CASE PageSkipped(m)
  BY <1>1, UntouchedKeeps DEF PageSkipped
<1>2. ASSUME NEW n \in Sizes, PageIgnored(m, n) PROVE HasInv'
  BY <1>2, UntouchedKeeps DEF PageIgnored
<1>3. ASSUME NEW n \in Sizes, NEW late \in 0 .. Jitter, NEW content \in Contents,
             IgnoredPageCompletes(m, n, late, content)
      PROVE  HasInv'
  BY <1>3, IgnoredCompletesKeeps
<1>4. ASSUME NEW pid \in PidsOf[m], NEW late \in 0 .. Jitter,
             \/ PageCollected(m, pid, late)
             \/ \E content \in Contents : MessageComplete(m, pid, late, content)
      PROVE  HasInv'
  BY <1>4, CollectedKeeps, CompleteKeeps
<1> QED
  BY <1>1, <1>2, <1>3, <1>4 DEF msg_handler_galileo_e6_has

LEMMA HasInvStep == HasInv /\ [Next]_vars => HasInv'
<1> SUFFICES ASSUME HasInv, [Next]_vars PROVE HasInv'
  OBVIOUS
<1>1. CASE Next
  BY <1>1, TickKeeps, MidReusedKeeps, HandlerKeeps DEF Next
<1>2. CASE UNCHANGED vars
  <2>1. UNCHANGED <<size, quiet, held, stamps, printed, printed_at, mask, last>>
    BY <1>2 DEF vars, sourceVars, receiverVars
  <2>2. PerMid' /\ Marks' /\ mask' \in BOOLEAN
    BY <2>1 DEF HasInv, PerMid, Marks
  <2>3. \A m \in Mids : MidInv(m, size'[m], quiet'[m], held'[m], stamps'[m])
    BY <2>1 DEF HasInv
  <2>4. LastOK'
    BY <2>1 DEF HasInv, LastOK, MessageIsWhole, NeverStuck, PublishedOnce
  <2> QED
    BY <2>2, <2>3, <2>4 DEF HasInv
<1> QED
  BY <1>1, <1>2

LEMMA HasInvHolds == Spec => []HasInv
  BY HasInvInit, HasInvStep, PTL DEF Spec

-----------------------------------------------------------------------------
(* What follows from it.                                                   *)

(* The types of the HAS receiver; d_received_pids never holds the same row *)
(* of a message twice.                                                     *)
THEOREM HasTypes == Spec => []TypeOK
<1>1. HasInv => TypeOK
  <2> SUFFICES ASSUME HasInv PROVE TypeOK
    OBVIOUS
  <2>1. \A m \in Mids : /\ size[m] \in SizesOf[m] /\ quiet[m] \in Ages
                        /\ stamps[m] \in Seq(Ages)
                        /\ held[m] \subseteq Pages(m)
                        /\ \A p, q \in held[m] : p.pid = q.pid => p = q
    BY DEF HasInv, MidInv, DifferentRows
  <2>2. quiet \in [Mids -> Ages] /\ stamps \in [Mids -> Seq(Ages)]
    <3>1. quiet = [m \in Mids |-> quiet[m]] /\ stamps = [m \in Mids |-> stamps[m]]
      BY DEF HasInv, PerMid
    <3> QED
      BY <2>1, <3>1
  <2> QED
    BY <2>1, <2>2 DEF HasInv, Marks, LastOK, TypeOK, Pages
<1> QED
  BY <1>1, HasInvHolds, PTL

(* decode_message_type1 publishes rows of one message only: its pages may  *)
(* be up to Jitter seconds late and the MID rests for the time-out plus    *)
(* that long before it is used again.                                      *)
THEOREM HasMessageIsWhole == Spec => []MessageIsWhole
  BY HasInvHolds, PTL DEF HasInv, LastOK

(* After every page that is handled fewer rows are held than the message   *)
(* needs, so the comparison for equality in msg_handler_galileo_e6_has is  *)
(* met by a later page.                                                    *)
THEOREM HasNeverStuck == Spec => []NeverStuck
  BY HasInvHolds, PTL DEF HasInv, LastOK

(* d_printed_mids keeps a message from being published twice within the    *)
(* time-out.                                                               *)
THEOREM HasPublishedOnce == Spec => []PublishedOnce
  BY HasInvHolds, PTL DEF HasInv, LastOK

(* delete_outdated_data forgets the pages of a MID only if one of them is  *)
(* too old, while the times it keeps are those of the pages.               *)
THEOREM HasFreshPagesKept == Spec => FreshPagesKept
<1> DEFINE A == \A m \in Mids :
          /\ TimesMatch(m) /\ held[m] # {}
          /\ held'[m] = {} /\ last'.kind # "none" /\ last'.mid # m
          => \E p \in held[m] : p.age > Window
<1>1. HasInv /\ [Next]_vars => [A]_vars
  <2> SUFFICES ASSUME HasInv, Next, NEW m \in Mids, TimesMatch(m), held[m] # {},
                      held'[m] = {}, last'.kind # "none", last'.mid # m
               PROVE  \E p \in held[m] : p.age > Window
    OBVIOUS
  <2>0. DOMAIN held = Mids
    BY DEF HasInv, PerMid
  <2>1. \E late \in 0 .. Jitter : Outdated(m, late)
    <3>1. PICK k \in Mids : msg_handler_galileo_e6_has(k)
      BY DEF Next, Tick, MidReused, Nothing
    <3>2. CASE PageSkipped(k) \/ \E n \in Sizes : PageIgnored(k, n)
      BY <3>2 DEF PageSkipped, PageIgnored, Nothing
    <3>3. ASSUME NEW n \in Sizes, NEW late \in 0 .. Jitter, NEW content \in Contents,
                 IgnoredPageCompletes(k, n, late, content)
          PROVE  FALSE
      <4>1. last'.mid = k
        BY <3>3 DEF IgnoredPageCompletes, MessageDecoded, Published, Handled
      <4>2. held'[m] = held[m]
        BY <2>0, <3>3, <4>1 DEF IgnoredPageCompletes
      <4> QED
        BY <4>2
    <3>4. ASSUME NEW late \in 0 .. Jitter, last'.mid = k,
                 NEW pages, held' = [Kept(late) EXCEPT ![k] = pages]
          PROVE  Outdated(m, late)
      <4>1. held'[m] = Kept(late)[m]
        BY <3>4 DEF Kept
      <4> QED
        BY <4>1 DEF Kept
    <3>5. ASSUME NEW pid \in PidsOf[k], NEW late \in 0 .. Jitter, PageCollected(k, pid, late)
          PROVE  Outdated(m, late)
      BY <3>4, <3>5 DEF PageCollected, Handled
    <3>6. ASSUME NEW pid \in PidsOf[k], NEW late \in 0 .. Jitter, NEW content \in Contents,
                 MessageComplete(k, pid, late, content)
          PROVE  Outdated(m, late)
      BY <3>4, <3>6 DEF MessageComplete, MessageDecoded, Published, Handled
    <3> QED
      BY <3>1, <3>2, <3>3, <3>5, <3>6 DEF msg_handler_galileo_e6_has
  <2>2. PICK late \in 0 .. Jitter : Outdated(m, late)
    BY <2>1
  <2>3. PICK j \in 1 .. Cardinality(held[m]) : TooOld(stamps[m][j], late)
    BY <2>2 DEF Outdated
  <2>4. MidInv(m, size[m], quiet[m], held[m], stamps[m])
    BY DEF HasInv
  <2>5. PICK p \in held[m] : p.age = stamps[m][j]
    BY <2>3, <2>4 DEF MidInv, TimesOfPages, TimesMatch
  <2>6. p.age \in Nat /\ late \in Nat /\ Window \in Nat
    BY <2>4, AgeFacts DEF MidInv, DifferentRows, Pages
  <2>7. \A a, b, w \in Nat : a - b > w => a > w
    OBVIOUS
  <2> QED
    BY <2>3, <2>5, <2>6, <2>7 DEF TooOld
<1> QED
  BY <1>1, HasInvHolds, PTL DEF Spec, FreshPagesKept
=============================================================================
