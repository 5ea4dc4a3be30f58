----------------------- MODULE OsnmaSubframes_proofs -----------------------
(* Proofs about OsnmaSubframes, for every set of satellites and every      *)
(* pattern of losses and repetitions.                                      *)
EXTENDS OsnmaSubframes, TLAPS

(* Types of the environment: the page on the air and the page last         *)
(* delivered are pages.                                                    *)
AirOK ==
    /\ next_ind \in [PRNs -> 0 .. (PAGES_IN_SUBFRAME - 1)]
    /\ subframe \in [PRNs -> Seq(PageIds)]
    /\ air \in [PRNs -> PageIds]
    /\ last \in [PRNs -> [page : PageIds, type : WordTypes \cup {-1}]]

(* The inductive invariant: IndexAgrees with the types of the functions.   *)
IndexInv == AirOK /\ \A p \in PRNs : Len(subframe[p]) = next_ind[p]

LEMMA WordSeqTypes ==
    ASSUME NEW i \in 0 .. (PAGES_IN_SUBFRAME - 1)
    PROVE  WORD_SEQ[i + 1] \subseteq WordTypes
BY DEF WORD_SEQ, WordTypes, PAGES_IN_SUBFRAME

(* The modulus of feed_page never bites: a full subframe resets the index. *)
LEMMA NoWrap == ASSUME NEW n \in 1 .. 14 PROVE n % 15 = n
OBVIOUS

(* Whatever page is fed, the two maps stay in step.                        *)
LEMMA FeedKeepsIndex ==
    ASSUME AirOK, \A p \in PRNs : Len(subframe[p]) = next_ind[p],
           NEW p \in PRNs, NEW page \in PageIds, NEW type,
           feed_page(p, page, type)
    PROVE  /\ next_ind' \in [PRNs -> 0 .. (PAGES_IN_SUBFRAME - 1)]
           /\ subframe' \in [PRNs -> Seq(PageIds)]
           /\ \A q \in PRNs : Len(subframe'[q]) = next_ind'[q]
<1>1. /\ next_ind[p] \in 0 .. 14 /\ subframe[p] \in Seq(PageIds)
      /\ Added(p, page) \in Seq(PageIds)
      /\ Len(Added(p, page)) = next_ind[p] + 1
  BY DEF AirOK, Added, PAGES_IN_SUBFRAME
<1>2. CASE reset_current_subframe(p)
  BY <1>2 DEF reset_current_subframe, AirOK, PAGES_IN_SUBFRAME
<1>3. CASE /\ ~subframe_ready(Added(p, page))
           /\ next_ind' = [next_ind EXCEPT ![p] = (@ + 1) % PAGES_IN_SUBFRAME]
           /\ subframe' = [subframe EXCEPT ![p] = Added(p, page)]
  <2>1. next_ind[p] + 1 # 15
    BY <1>1, <1>3 DEF subframe_ready, PAGES_IN_SUBFRAME
  <2>2. next_ind[p] + 1 \in 1 .. 14
    <3>1. next_ind[p] \in 0 .. 14
      BY <1>1
    <3> QED
      BY <2>1, <3>1
  <2>3. (next_ind[p] + 1) % 15 = next_ind[p] + 1
    BY <2>2, NoWrap
  <2> QED
    BY <1>1, <1>3, <2>2, <2>3 DEF AirOK, PAGES_IN_SUBFRAME
<1> QED
  BY <1>2, <1>3 DEF feed_page

LEMMA FollowingPage == ASSUME NEW page \in PageIds PROVE Following(page) \in PageIds
BY DEF PageIds, Following, Page, PAGES_IN_SUBFRAME

LEMMA IndexInvInit == Init => IndexInv
<1> SUFFICES ASSUME Init PROVE IndexInv
  OBVIOUS
<1>1. \A pos \in 0 .. (PAGES_IN_SUBFRAME - 1) : Page(0, pos) \in PageIds
  BY DEF Page, PageIds, PAGES_IN_SUBFRAME
<1>2. NoPage \in [page : PageIds, type : WordTypes \cup {-1}]
  BY <1>1 DEF NoPage, PAGES_IN_SUBFRAME
<1>3. <<>> \in Seq(PageIds) /\ Len(<<>>) = 0
  OBVIOUS
<1> QED
  BY <1>1, <1>2, <1>3 DEF Init, IndexInv, AirOK, PAGES_IN_SUBFRAME

LEMMA IndexInvStep == IndexInv /\ [Next]_vars => IndexInv'
<1> SUFFICES ASSUME IndexInv, [Next]_vars PROVE IndexInv'
  OBVIOUS
<1> USE DEF IndexInv
<1>1. ASSUME NEW p \in PRNs, PageDelivered(p) PROVE IndexInv'
  <2>1. air[p] \in PageIds /\ air[p][2] \in 0 .. (PAGES_IN_SUBFRAME - 1)
    BY DEF AirOK, PageIds
  <2>2. PICK type \in WORD_SEQ[air[p][2] + 1] :
          /\ feed_page(p, air[p], type)
          /\ last' = [last EXCEPT ![p] = [page |-> air[p], type |-> type]]
    BY <1>1 DEF PageDelivered
  <2>3. type \in WordTypes
    BY <2>1, <2>2, WordSeqTypes
  <2>4. air' \in [PRNs -> PageIds]
    BY <1>1, <2>1, FollowingPage DEF PageDelivered, Sends, AirOK
  <2>5. last' \in [PRNs -> [page : PageIds, type : WordTypes \cup {-1}]]
    BY <2>1, <2>2, <2>3 DEF AirOK
  <2> QED
    BY <2>1, <2>2, <2>4, <2>5, FeedKeepsIndex DEF AirOK
<1>2. ASSUME NEW p \in PRNs, PageLost(p) PROVE IndexInv'
  <2>1. air' \in [PRNs -> PageIds]
    BY <1>2, FollowingPage DEF PageLost, Sends, AirOK
  <2> QED
    BY <1>2, <2>1 DEF PageLost, processorVars, AirOK
<1>3. ASSUME NEW p \in PRNs, NEW q \in PRNs, PageRepeated(p, q) PROVE IndexInv'
  <2>1. last[q].page \in PageIds
    BY DEF AirOK
  <2>2. last' \in [PRNs -> [page : PageIds, type : WordTypes \cup {-1}]]
    BY <1>3 DEF PageRepeated, AirOK
  <2> QED
    BY <1>3, <2>1, <2>2, FeedKeepsIndex DEF PageRepeated, AirOK
<1>4. CASE UNCHANGED vars
  BY <1>4 DEF vars, processorVars, AirOK
<1> QED
  BY <1>1, <1>2, <1>3, <1>4 DEF Next, Done

(* The two maps of the processor always agree: a subframe never gets more  *)
(* than fifteen pages and the index never leaves the table of word types.  *)
THEOREM IndexAlwaysAgrees == Spec => []IndexAgrees
<1>1. IndexInv => IndexAgrees
  BY DEF IndexInv, AirOK, IndexAgrees
<1> QED
  BY <1>1, IndexInvInit, IndexInvStep, PTL DEF Spec

-----------------------------------------------------------------------------
(* The word types.                                                         *)

Positions == 0 .. (PAGES_IN_SUBFRAME - 1)

(* Positions whose words other positions may carry as well; every other    *)
(* position has word types of its own.                                     *)
Vague == {5, 6, 7, 8, 9, 13, 14}

LEMMA OwnWords ==
    ASSUME NEW i \in Positions, NEW j \in Positions, NEW type,
           type \in WORD_SEQ[i + 1], type \in WORD_SEQ[j + 1], i # j
    PROVE  i \in Vague /\ j \in Vague
<1> DEFINE Home == [t \in WordTypes |->
      CASE t = 2 -> 0 [] t = 4 -> 1 [] t = 6 -> 2 [] t \in {7, 9} -> 3 [] t \in {8, 10} -> 4
        [] t = 1 -> 10 [] t = 3 -> 11 [] t = 5 -> 12 [] OTHER -> -1]
<1>1. ASSUME NEW k \in Positions, NEW t \in WORD_SEQ[k + 1]
      PROVE  IF k \in Vague THEN Home[t] = -1 ELSE Home[t] = k
  <2>1. k \in 0 .. 14
    BY DEF Positions, PAGES_IN_SUBFRAME
  <2>2. CASE k \in {0, 1, 2}
    BY <1>1, <2>2 DEF WORD_SEQ, WordTypes, Vague
  <2>3. CASE k \in {3, 4}
    BY <1>1, <2>3 DEF WORD_SEQ, WordTypes, Vague
  <2>4. CASE k \in {5, 6, 7}
    BY <1>1, <2>4 DEF WORD_SEQ, WordTypes, Vague
  <2>5. CASE k \in {8, 9, 13, 14}
    BY <1>1, <2>5 DEF WORD_SEQ, WordTypes, Vague
  <2>6. CASE k \in {10, 11, 12}
    BY <1>1, <2>6 DEF WORD_SEQ, WordTypes, Vague
  <2> QED
    BY <2>1, <2>2, <2>3, <2>4, <2>5, <2>6
<1>2. -1 \notin Positions
  BY DEF Positions, PAGES_IN_SUBFRAME
<1> HIDE DEF Home
<1> QED
  BY <1>1, <1>2

-----------------------------------------------------------------------------
(* What feeding a page does to its satellite and to the others.            *)

HistoryOK ==
    /\ processed \in [PRNs -> Seq(PageIds)]
    /\ lost \in [PRNs -> Nat]
    /\ streak \in [PRNs -> 0 .. StreakCap]
    /\ mixed \in [PRNs -> BOOLEAN]
    /\ \A p \in PRNs : air[p][1] \in 0 .. MaxSubframes

Rejects(p, type) ==
    /\ type \notin WORD_SEQ[next_ind[p] + 1]
    /\ next_ind'[p] = 0 /\ subframe'[p] = <<>> /\ processed'[p] = processed[p]

Completes(p, page, type) ==
    /\ type \in WORD_SEQ[next_ind[p] + 1]
    /\ next_ind[p] = 14
    /\ next_ind'[p] = 0 /\ subframe'[p] = <<>>
    /\ processed'[p] = Append(subframe[p], page)

Collects(p, page, type) ==
    /\ type \in WORD_SEQ[next_ind[p] + 1]
    /\ next_ind[p] \in 0 .. 13
    /\ next_ind'[p] = next_ind[p] + 1 /\ subframe'[p] = Append(subframe[p], page)
    /\ processed'[p] = processed[p]

LEMMA FeedCases ==
    ASSUME IndexInv, HistoryOK, NEW p \in PRNs, NEW page \in PageIds, NEW type,
           feed_page(p, page, type)
    PROVE  /\ Rejects(p, type) \/ Completes(p, page, type) \/ Collects(p, page, type)
           /\ \A q \in PRNs : q # p => /\ next_ind'[q] = next_ind[q]
                                       /\ subframe'[q] = subframe[q]
                                       /\ processed'[q] = processed[q]
           /\ processed' \in [PRNs -> Seq(PageIds)]
<1>1. /\ next_ind[p] \in 0 .. 14 /\ subframe[p] \in Seq(PageIds)
      /\ Len(subframe[p]) = next_ind[p]
      /\ Added(p, page) = Append(subframe[p], page)
      /\ Added(p, page) \in Seq(PageIds)
      /\ Len(Added(p, page)) = next_ind[p] + 1
  BY DEF IndexInv, AirOK, Added, PAGES_IN_SUBFRAME
<1>2. CASE ~word_sequence_valid(p, type)
  <2>1. reset_current_subframe(p) /\ processed' = processed
    BY <1>2 DEF feed_page
  <2> QED
    BY <1>2, <2>1 DEF reset_current_subframe, word_sequence_valid, Rejects,
                      IndexInv, AirOK, HistoryOK
<1>3. CASE word_sequence_valid(p, type) /\ subframe_ready(Added(p, page))
  <2>1. /\ reset_current_subframe(p)
        /\ processed' = [processed EXCEPT ![p] = Added(p, page)]
    BY <1>3 DEF feed_page
  <2>2. next_ind[p] = 14
    BY <1>1, <1>3 DEF subframe_ready, PAGES_IN_SUBFRAME
  <2> QED
    BY <1>1, <1>3, <2>1, <2>2 DEF reset_current_subframe, word_sequence_valid, Completes,
                                  IndexInv, AirOK, HistoryOK
<1>4. CASE word_sequence_valid(p, type) /\ ~subframe_ready(Added(p, page))
  <2>1. /\ next_ind' = [next_ind EXCEPT ![p] = (next_ind[p] + 1) % 15]
        /\ subframe' = [subframe EXCEPT ![p] = Added(p, page)]
        /\ processed' = processed
    BY <1>4 DEF feed_page, PAGES_IN_SUBFRAME
  <2>2. next_ind[p] \in 0 .. 13 /\ next_ind[p] + 1 \in 1 .. 14
    <3>1. next_ind[p] + 1 # 15
      BY <1>1, <1>4 DEF subframe_ready, PAGES_IN_SUBFRAME
    <3> QED
      BY <1>1, <3>1
  <2>3. (next_ind[p] + 1) % 15 = next_ind[p] + 1
    BY <2>2, NoWrap
  <2>4. Collects(p, page, type)
    BY <1>1, <1>4, <2>1, <2>2, <2>3 DEF word_sequence_valid, Collects, IndexInv, AirOK
  <2> QED
    BY <2>1, <2>4 DEF IndexInv, AirOK, HistoryOK
<1> QED
  BY <1>2, <1>3, <1>4

LEMMA AppendPages ==
    ASSUME NEW s \in Seq(PageIds), NEW page \in PageIds
    PROVE  /\ Append(s, page) \in Seq(PageIds)
           /\ Len(Append(s, page)) = Len(s) + 1
           /\ \A i \in 1 .. Len(s) : Append(s, page)[i] = s[i]
           /\ Append(s, page)[Len(s) + 1] = page
OBVIOUS

(* Fifteen pages in order are a subframe.                                  *)
LEMMA WholeSubframe ==
    ASSUME NEW s \in Seq(PageIds), Len(s) = 15, NEW n \in Nat,
           \A i \in 1 .. 15 : s[i] = Page(n, i - 1)
    PROVE  s = Subframe(n)
<1>1. s = [i \in 1 .. 15 |-> s[i]]
  OBVIOUS
<1> QED
  BY <1>1 DEF Subframe, PAGES_IN_SUBFRAME

-----------------------------------------------------------------------------
(* The page on the air, counted from the start.                            *)

Number(page) == 15 * page[1] + page[2]

LEMMA NumberFollows ==
    ASSUME NEW page \in PageIds
    PROVE  /\ Number(Following(page)) = Number(page) + 1 /\ Number(page) \in Nat
           /\ page[1] \in Nat /\ page[2] \in 0 .. 14 /\ page = Page(page[1], page[2])
           /\ page[2] = 14 => Following(page) = Page(page[1] + 1, 0)
           /\ page[2] # 14 => Following(page) = Page(page[1], page[2] + 1)
BY DEF PageIds, Number, Following, Page, PAGES_IN_SUBFRAME

(* The pages are the first ones of subframe n.                             *)
Prefix(s, n) == \A i \in 1 .. Len(s) : s[i] = Page(n, i - 1)

LEMMA PrefixAppend ==
    ASSUME NEW s \in Seq(PageIds), NEW n \in Nat, Prefix(s, n), Len(s) \in Positions
    PROVE  Prefix(Append(s, Page(n, Len(s))), n)
<1> DEFINE page == Page(n, Len(s))
           t == Append(s, page)
<1>1. page \in PageIds
  BY DEF Page, PageIds, Positions
<1> HIDE DEF page
<1>2. /\ Len(t) = Len(s) + 1 /\ t[Len(s) + 1] = page /\ Len(s) \in Nat
      /\ \A i \in 1 .. Len(s) : t[i] = s[i]
  BY <1>1, AppendPages
<1> HIDE DEF t
<1>3. ASSUME NEW i \in 1 .. Len(t) PROVE t[i] = Page(n, i - 1)
  <2>1. CASE i \in 1 .. Len(s)
    BY <1>2, <2>1 DEF Prefix
  <2>2. CASE i = Len(s) + 1
    <3>1. i - 1 = Len(s)
      BY <1>2, <2>2
    <3> QED
      BY <1>2, <2>2, <3>1 DEF page
  <2> QED
    BY <1>2, <2>1, <2>2
<1> QED
  BY <1>3 DEF t, page, Prefix

-----------------------------------------------------------------------------
(* The steps of one satellite, and the types of the history.               *)

(* Satellite q is not concerned.                                           *)
Apart(q) ==
    /\ next_ind'[q] = next_ind[q] /\ subframe'[q] = subframe[q]
    /\ processed'[q] = processed[q] /\ air'[q] = air[q] /\ lost'[q] = lost[q]
    /\ streak'[q] = streak[q] /\ mixed'[q] = mixed[q]

Delivers(p) ==
    /\ \E type \in WORD_SEQ[air[p][2] + 1] :
         Rejects(p, type) \/ Completes(p, air[p], type) \/ Collects(p, air[p], type)
    /\ air'[p] = Following(air[p]) /\ air[p][1] < MaxSubframes
    /\ lost'[p] = 0
    /\ streak'[p] = IF streak[p] < 30 THEN streak[p] + 1 ELSE streak[p]
    /\ mixed'[p] = mixed[p]

Loses(p) ==
    /\ next_ind'[p] = next_ind[p] /\ subframe'[p] = subframe[p]
    /\ processed'[p] = processed[p]
    /\ air'[p] = Following(air[p]) /\ air[p][1] < MaxSubframes
    /\ lost'[p] = lost[p] + 1
    /\ streak'[p] = 0
    /\ mixed'[p] = (mixed[p] \/ lost[p] = 4)

Repeats(p) ==
    air'[p] = air[p] /\ lost'[p] = lost[p] /\ streak'[p] = 0 /\ mixed'[p] = TRUE

(* Every step is a step of at most one satellite.                          *)
LEMMA OneSatelliteSteps ==
    ASSUME IndexInv, HistoryOK, [Next]_vars
    PROVE  /\ \A p \in PRNs : Apart(p) \/ Delivers(p) \/ Loses(p) \/ Repeats(p)
           /\ processed' \in [PRNs -> Seq(PageIds)]
           /\ lost' \in [PRNs -> Nat]
           /\ streak' \in [PRNs -> 0 .. StreakCap]
           /\ mixed' \in [PRNs -> BOOLEAN]
<1> USE DEF StreakCap, PAGES_IN_SUBFRAME, LongBurst
<1> DEFINE Goal == /\ \A p \in PRNs : Apart(p) \/ Delivers(p) \/ Loses(p) \/ Repeats(p)
                   /\ processed' \in [PRNs -> Seq(PageIds)]
                   /\ lost' \in [PRNs -> Nat]
                   /\ streak' \in [PRNs -> 0 .. StreakCap]
                   /\ mixed' \in [PRNs -> BOOLEAN]
<1>1. ASSUME NEW p \in PRNs, PageDelivered(p) PROVE Goal
  <2>1. air[p] \in PageIds
    BY DEF IndexInv, AirOK
  <2>2. PICK type \in WORD_SEQ[air[p][2] + 1] : feed_page(p, air[p], type)
    BY <1>1 DEF PageDelivered
  <2>3. /\ Rejects(p, type) \/ Completes(p, air[p], type) \/ Collects(p, air[p], type)
        /\ \A q \in PRNs : q # p => /\ next_ind'[q] = next_ind[q]
                                    /\ subframe'[q] = subframe[q]
                                    /\ processed'[q] = processed[q]
        /\ processed' \in [PRNs -> Seq(PageIds)]
    BY <2>1, <2>2, FeedCases
  <2>4. /\ air' = [air EXCEPT ![p] = Following(air[p])] /\ air[p][1] < MaxSubframes
        /\ lost' = [lost EXCEPT ![p] = 0]
        /\ streak' = [streak EXCEPT ![p] = IF streak[p] < 30 THEN streak[p] + 1 ELSE streak[p]]
        /\ mixed' = mixed
    BY <1>1 DEF PageDelivered, Sends
  <2>5. Delivers(p)
    BY <2>2, <2>3, <2>4 DEF Delivers, IndexInv, AirOK, HistoryOK
  <2>6. \A q \in PRNs : q # p => Apart(q)
    BY <2>3, <2>4 DEF Apart, IndexInv, AirOK, HistoryOK
  <2>7. lost' \in [PRNs -> Nat] /\ streak' \in [PRNs -> 0 .. StreakCap]
    <3>1. streak[p] \in 0 .. 30
      BY DEF HistoryOK
    <3>2. (IF streak[p] < 30 THEN streak[p] + 1 ELSE streak[p]) \in 0 .. StreakCap
      BY <3>1
    <3> QED
      BY <2>4, <3>2 DEF HistoryOK
  <2>8. mixed' \in [PRNs -> BOOLEAN]
    BY <2>4 DEF HistoryOK
  <2> QED
    BY <2>3, <2>5, <2>6, <2>7, <2>8
<1>2. ASSUME NEW p \in PRNs, PageLost(p) PROVE Goal
  <2>1. /\ air' = [air EXCEPT ![p] = Following(air[p])] /\ air[p][1] < MaxSubframes
        /\ lost' = [lost EXCEPT ![p] = lost[p] + 1]
        /\ streak' = [streak EXCEPT ![p] = 0]
        /\ mixed' = [mixed EXCEPT ![p] = mixed[p] \/ lost[p] = 4]
        /\ next_ind' = next_ind /\ subframe' = subframe /\ processed' = processed
    BY <1>2 DEF PageLost, Sends, processorVars
  <2>2. mixed' \in [PRNs -> BOOLEAN] /\ mixed'[p] = (mixed[p] \/ lost[p] = 4)
    BY <2>1 DEF HistoryOK
  <2>3. Loses(p)
    BY <2>1, <2>2 DEF Loses, IndexInv, AirOK, HistoryOK
  <2>4. \A q \in PRNs : q # p => Apart(q)
    BY <2>1 DEF Apart, IndexInv, AirOK, HistoryOK
  <2>5. /\ lost' \in [PRNs -> Nat] /\ streak' \in [PRNs -> 0 .. StreakCap]
        /\ processed' \in [PRNs -> Seq(PageIds)]
    BY <2>1 DEF HistoryOK
  <2> QED
    BY <2>2, <2>3, <2>4, <2>5
<1>3. ASSUME NEW p \in PRNs, NEW r \in PRNs, PageRepeated(p, r) PROVE Goal
  <2>1. last[r].page \in PageIds
    BY DEF IndexInv, AirOK
  <2>2. feed_page(p, last[r].page, last[r].type)
    BY <1>3 DEF PageRepeated
  <2>3. /\ \A q \in PRNs : q # p => /\ next_ind'[q] = next_ind[q]
                                    /\ subframe'[q] = subframe[q]
                                    /\ processed'[q] = processed[q]
        /\ processed' \in [PRNs -> Seq(PageIds)]
    BY <2>1, <2>2, FeedCases
  <2>4. /\ air' = air /\ lost' = lost
        /\ streak' = [streak EXCEPT ![p] = 0]
        /\ mixed' = [mixed EXCEPT ![p] = TRUE]
    BY <1>3 DEF PageRepeated
  <2>5. Repeats(p)
    BY <2>4 DEF Repeats, HistoryOK
  <2>6. \A q \in PRNs : q # p => Apart(q)
    BY <2>3, <2>4 DEF Apart, HistoryOK
  <2>7. lost' \in [PRNs -> Nat] /\ streak' \in [PRNs -> 0 .. StreakCap]
    BY <2>4 DEF HistoryOK
  <2>8. mixed' \in [PRNs -> BOOLEAN]
    BY <2>4 DEF HistoryOK
  <2> QED
    BY <2>3, <2>5, <2>6, <2>7, <2>8
<1>4. ASSUME UNCHANGED vars PROVE Goal
  BY <1>4 DEF vars, processorVars, Apart, HistoryOK
<1> HIDE DEF Goal
<1>5. Goal
  BY <1>1, <1>2, <1>3, <1>4 DEF Next, Done
<1> QED
  BY <1>5 DEF Goal

LEMMA HistoryStep ==
    ASSUME IndexInv, HistoryOK, [Next]_vars
    PROVE  HistoryOK'
<1>1. MaxSubframes \in Nat
  BY SubframesAssumption
<1>2. ASSUME NEW p \in PRNs PROVE air'[p][1] \in 0 .. MaxSubframes
  <2>1. air[p] \in PageIds /\ air[p][1] \in 0 .. MaxSubframes
    BY DEF IndexInv, AirOK, HistoryOK
  <2>2. CASE air'[p] = air[p]
    BY <2>1, <2>2
  <2>3. CASE air'[p] = Following(air[p]) /\ air[p][1] < MaxSubframes
    <3>1. Following(air[p])[1] \in {air[p][1], air[p][1] + 1}
      BY <2>1, NumberFollows DEF Page
    <3> QED
      BY <1>1, <2>1, <2>3, <3>1
  <2> QED
    BY <2>2, <2>3, OneSatelliteSteps DEF Apart, Delivers, Loses, Repeats
<1> QED
  BY <1>2, OneSatelliteSteps DEF HistoryOK

-----------------------------------------------------------------------------
(* Resynchronisation.                                                      *)

(* The inductive invariant.  The word types of position 12 occur nowhere   *)
(* else, so that page puts the position right or clears it, and the next   *)
(* two keep it so: after three pages the next subframe is collected from   *)
(* its first page on.                                                      *)
Closing(p) ==
    /\ streak[p] >= 1 /\ air[p][2] = 13 => next_ind[p] \in {0, 13}
    /\ streak[p] >= 2 /\ air[p][2] = 14 => next_ind[p] \in {0, 14}

InStep(p) ==
    streak[p] >= 3 + air[p][2] => /\ next_ind[p] = air[p][2]
                                  /\ Prefix(subframe[p], air[p][1])

Caught(p) ==
    streak[p] >= 18 /\ air[p][2] = 0 => processed[p] = Subframe(air[p][1] - 1)

InStepInv == \A p \in PRNs : Closing(p) /\ InStep(p) /\ Caught(p)

LEMMA InStepInit == Init => InStepInv
<1> SUFFICES ASSUME Init, NEW p \in PRNs PROVE Closing(p) /\ InStep(p) /\ Caught(p)
  BY DEF InStepInv
<1>1. streak[p] = 0 /\ air[p][2] \in 0 .. 14
  BY DEF Init, Page, PAGES_IN_SUBFRAME
<1> QED
  BY <1>1 DEF Closing, InStep, Caught

LEMMA InStepDelivers ==
    ASSUME IndexInv, HistoryOK, NEW p \in PRNs,
           Closing(p), InStep(p), Caught(p), Delivers(p)
    PROVE  Closing(p)' /\ InStep(p)' /\ Caught(p)'
<1> DEFINE q == air[p][2]
           n == air[p][1]
           k == next_ind[p]
           s == subframe[p]
<1>1. /\ air[p] \in PageIds /\ q \in 0 .. 14 /\ n \in Nat /\ air[p] = Page(n, q)
      /\ q = 14 => air'[p] = Page(n + 1, 0)
      /\ q # 14 => air'[p] = Page(n, q + 1)
  BY NumberFollows DEF IndexInv, AirOK, Delivers
<1>2. k \in 0 .. 14 /\ s \in Seq(PageIds) /\ Len(s) = k
  BY DEF IndexInv, AirOK, PAGES_IN_SUBFRAME
<1>3. streak[p] \in 0 .. 30 /\ streak'[p] = IF streak[p] < 30 THEN streak[p] + 1 ELSE streak[p]
  BY DEF HistoryOK, StreakCap, PAGES_IN_SUBFRAME, Delivers
<1>4. PICK type \in WORD_SEQ[q + 1] :
        Rejects(p, type) \/ Completes(p, air[p], type) \/ Collects(p, air[p], type)
  BY DEF Delivers
<1>5. type \in WORD_SEQ[k + 1] => k = q \/ (k \in Vague /\ q \in Vague)
  <2>1. k \in Positions /\ q \in Positions /\ type \in WORD_SEQ[q + 1]
    BY <1>1, <1>2, <1>4 DEF Positions, PAGES_IN_SUBFRAME
  <2> HIDE DEF k, q
  <2> QED
    BY <2>1, OwnWords
<1>6. /\ q # 14 => air'[p][2] = q + 1 /\ air'[p][1] = n
      /\ q = 14 => air'[p][2] = 0 /\ air'[p][1] = n + 1
  BY <1>1 DEF Page
<1>7. next_ind'[p] \in {0, k + 1} /\ (next_ind'[p] # 0 => type \in WORD_SEQ[k + 1])
  BY <1>2, <1>4 DEF Rejects, Completes, Collects
<1>8. Closing(p)'
  <2>1. CASE q = 12
    <3>1. next_ind'[p] \in {0, 13}
      BY <1>2, <1>5, <1>7, <2>1 DEF Vague
    <3> QED
      BY <1>6, <2>1, <3>1 DEF Closing
  <2>2. CASE q = 13
    <3>1. streak'[p] >= 2 => k \in {0, 13}
      BY <1>3, <2>2 DEF Closing
    <3>2. type \in WORD_SEQ[k + 1] => k # 0
      BY <1>5, <2>2 DEF Vague
    <3>3. streak'[p] >= 2 => next_ind'[p] \in {0, 14}
      BY <1>2, <1>7, <3>1, <3>2
    <3> QED
      BY <1>6, <2>2, <3>3 DEF Closing
  <2>3. CASE q \notin {12, 13}
    BY <1>1, <1>6, <2>3 DEF Closing
  <2> QED
    BY <2>1, <2>2, <2>3
<1>9. ASSUME streak[p] >= 3 + q
      PROVE  k = q /\ Prefix(s, n) /\ Append(s, air[p]) \in Seq(PageIds)
             /\ Prefix(Append(s, air[p]), n) /\ Len(Append(s, air[p])) = q + 1
             /\ (Completes(p, air[p], type) \/ Collects(p, air[p], type))
  <2>1. k = q /\ Prefix(s, n)
    BY <1>9 DEF InStep
  <2>2. air[p] = Page(n, Len(s)) /\ Len(s) \in Positions
    BY <1>1, <1>2, <2>1 DEF Positions, PAGES_IN_SUBFRAME
  <2>3. Prefix(Append(s, air[p]), n)
    BY <1>1, <1>2, <2>1, <2>2, PrefixAppend
  <2>4. Append(s, air[p]) \in Seq(PageIds) /\ Len(Append(s, air[p])) = q + 1
    BY <1>1, <1>2, <2>1, AppendPages
  <2>5. ~Rejects(p, type)
    BY <1>4, <2>1 DEF Rejects
  <2> QED
    BY <1>4, <2>1, <2>3, <2>4, <2>5
<1> HIDE DEF q, n, k, s
<1>10. CASE q # 14
  <2>1. ASSUME streak'[p] >= 3 + (q + 1)
        PROVE  next_ind'[p] = q + 1 /\ Prefix(subframe'[p], n)
    <3>1. streak[p] >= 3 + q
      BY <1>1, <1>3, <2>1
    <3>2. k = q /\ Prefix(Append(s, air[p]), n)
          /\ (Completes(p, air[p], type) \/ Collects(p, air[p], type))
      BY <1>9, <3>1
    <3>3. Collects(p, air[p], type)
      BY <1>10, <3>2 DEF Completes, k
    <3> QED
      BY <3>2, <3>3 DEF Collects, k, s
  <2>2. InStep(p)'
    BY <1>6, <1>10, <2>1 DEF InStep
  <2>3. air'[p][2] # 0
    BY <1>1, <1>6, <1>10
  <2> QED
    BY <1>8, <2>2, <2>3 DEF Caught
<1>11. CASE q = 14
  <2>1. ASSUME streak'[p] >= 3 PROVE next_ind'[p] = 0 /\ subframe'[p] = <<>>
    <3>1. k \in {0, 14}
      BY <1>3, <1>11, <2>1 DEF Closing, q, k
    <3>2. type \in WORD_SEQ[k + 1] => k # 0
      BY <1>5, <1>11 DEF Vague
    <3>3. ~Collects(p, air[p], type)
      BY <3>1, <3>2 DEF Collects, k
    <3> QED
      BY <1>4, <3>3 DEF Rejects, Completes
  <2>2. ASSUME streak'[p] >= 18 PROVE processed'[p] = Subframe(n)
    <3>1. streak[p] >= 3 + q
      BY <1>3, <1>11, <2>2
    <3>2. /\ k = q /\ Prefix(Append(s, air[p]), n) /\ Append(s, air[p]) \in Seq(PageIds)
          /\ Len(Append(s, air[p])) = 15
          /\ Completes(p, air[p], type) \/ Collects(p, air[p], type)
      BY <1>9, <1>11, <3>1
    <3>3. Completes(p, air[p], type)
      BY <1>11, <3>2 DEF Collects, k
    <3>4. processed'[p] = Append(s, air[p])
      BY <3>3 DEF Completes, s
    <3> QED
      BY <1>1, <3>2, <3>4, WholeSubframe DEF Prefix
  <2>3. Prefix(<<>>, n + 1)
    BY DEF Prefix
  <2>4. InStep(p)'
    BY <1>6, <1>11, <2>1, <2>3 DEF InStep
  <2>5. (n + 1) - 1 = n
    BY <1>1
  <2> QED
    BY <1>6, <1>8, <1>11, <2>2, <2>4, <2>5 DEF Caught
<1> QED
  BY <1>10, <1>11

LEMMA InStepStep ==
    ASSUME IndexInv, HistoryOK, InStepInv, [Next]_vars
    PROVE  InStepInv'
<1> SUFFICES ASSUME NEW p \in PRNs PROVE Closing(p)' /\ InStep(p)' /\ Caught(p)'
  BY DEF InStepInv
<1>1. Closing(p) /\ InStep(p) /\ Caught(p)
  BY DEF InStepInv
<1>2. CASE Apart(p)
  BY <1>1, <1>2 DEF Apart, Closing, InStep, Caught
<1>3. CASE Delivers(p)
  BY <1>1, <1>3, InStepDelivers
<1>4. CASE Loses(p) \/ Repeats(p)
  <2>1. streak'[p] = 0
    BY <1>4 DEF Loses, Repeats
  <2>2. air'[p][2] \in 0 .. 14
    BY <1>4, FollowingPage, NumberFollows DEF Loses, Repeats, IndexInv, AirOK
  <2> QED
    BY <2>1, <2>2 DEF Closing, InStep, Caught
<1> QED
  BY <1>2, <1>3, <1>4, OneSatelliteSteps

LEMMA HistoryInit == Init => HistoryOK
<1> SUFFICES ASSUME Init PROVE HistoryOK
  OBVIOUS
<1>1. <<>> \in Seq(PageIds) /\ MaxSubframes \in Nat /\ 0 \in 0 .. StreakCap
  BY SubframesAssumption DEF StreakCap, PAGES_IN_SUBFRAME
<1>2. ASSUME NEW p \in PRNs PROVE air[p][1] = 0
  <2>1. air[p] \in {Page(0, pos) : pos \in 0 .. (PAGES_IN_SUBFRAME - 1)}
    BY DEF Init
  <2>2. PICK pos \in 0 .. (PAGES_IN_SUBFRAME - 1) : air[p] = Page(0, pos)
    BY <2>1
  <2> QED
    BY <2>2 DEF Page
<1>3. ASSUME NEW p \in PRNs PROVE air[p][1] \in 0 .. MaxSubframes
  <2>1. air[p][1] = 0 /\ 0 \in 0 .. MaxSubframes
    BY <1>1, <1>2
  <2> QED
    BY <2>1, Zenon
<1>4. mixed \in [PRNs -> BOOLEAN]
  BY DEF Init
<1> QED
  BY <1>1, <1>3, <1>4 DEF Init, HistoryOK

(* Resynchronises, for every number of satellites and every pattern of     *)
(* losses and repetitions before: three good pages are always enough to    *)
(* put the position of feed_page right for the next subframe.              *)
THEOREM AlwaysResynchronises == Spec => []Resynchronises
<1> DEFINE Inv == IndexInv /\ HistoryOK /\ InStepInv
<1>1. Init => Inv
  BY IndexInvInit, HistoryInit, InStepInit
<1>2. Inv /\ [Next]_vars => Inv'
  BY IndexInvStep, HistoryStep, InStepStep
<1>3. Inv => Resynchronises
  BY DEF InStepInv, Caught, Resynchronises, PAGES_IN_SUBFRAME
<1> QED
  BY <1>1, <1>2, <1>3, PTL DEF Spec

-----------------------------------------------------------------------------
(* Genuine subframes.                                                      *)

(* The inductive invariant.  Word types repeat, so feed_page may take a    *)
(* later page for the one it waits for; the collection is then astray: its *)
(* last page is ahead of its position.  A burst of at most four pages      *)
(* cannot bring the next subframe round to such a position again, and the  *)
(* words of position 10, or of the subframe's end, find it out.            *)
Astray(s) ==
    \/ Len(s) \in 6 .. 10 /\ s[Len(s)][2] >= Len(s)
    \/ Len(s) = 14 /\ s[Len(s)][2] = 14

OnTrack(p) ==
    /\ lost[p] \in 0 .. 4
    /\ next_ind[p] > 0 =>
         /\ Number(air[p]) = Number(subframe[p][next_ind[p]]) + lost[p] + 1
         /\ Astray(subframe[p]) \/ \E n \in Nat : Prefix(subframe[p], n)

Handed(p) ==
    processed[p] # <<>> => \E n \in 0 .. MaxSubframes : processed[p] = Subframe(n)

GenuineInv == \A p \in PRNs : ~mixed[p] => OnTrack(p) /\ Handed(p)

LEMMA GenuineInit == Init => GenuineInv
<1> SUFFICES ASSUME Init, NEW p \in PRNs PROVE OnTrack(p) /\ Handed(p)
  BY DEF GenuineInv
<1>1. lost[p] = 0 /\ next_ind[p] = 0 /\ processed[p] = <<>>
  BY DEF Init
<1> QED
  BY <1>1 DEF OnTrack, Handed

(* How far the position moves in one to five pages.                        *)
LEMMA Ahead ==
    ASSUME NEW old \in PageIds, NEW page \in PageIds, NEW gap \in 0 .. 4,
           Number(page) = Number(old) + gap + 1
    PROVE  \/ page[1] = old[1] /\ page[2] = old[2] + gap + 1
           \/ page[1] = old[1] + 1 /\ page[2] = old[2] + gap - 14
<1> DEFINE n == old[1]
           m == page[1]
           i == old[2]
           j == page[2]
<1>1. n \in Nat /\ m \in Nat /\ i \in 0 .. 14 /\ j \in 0 .. 14
  BY NumberFollows
<1>2. 15 * m + j = 15 * n + i + gap + 1
  BY DEF Number
<1> HIDE DEF n, m, i, j
<1>3. m = n \/ m = n + 1
  BY <1>1, <1>2
<1>4. (m = n /\ j = i + gap + 1) \/ (m = n + 1 /\ j = i + gap - 14)
  BY <1>1, <1>2, <1>3
<1> QED
  BY <1>4 DEF n, m, i, j

(* How a collection goes astray, and how it stays so.                      *)
LEMMA AstrayBegins ==
    ASSUME NEW k \in 0 .. 14, NEW q \in 0 .. 14, NEW gap \in 0 .. 4,
           k # q, k \in Vague, q \in Vague,
           q = (k - 1) + gap + 1 \/ q = (k - 1) + gap - 14
    PROVE  q >= k + 1 /\ (k \in 5 .. 9 \/ k = 13) /\ (k = 13 => q = 14)
<1>1. q >= 5
  BY DEF Vague
<1>2. q = k + gap
  BY <1>1
<1>3. q >= k + 1
  BY <1>2
<1>4. k \in 5 .. 9 \/ k = 13 \/ k = 14
  BY DEF Vague
<1> QED
  BY <1>3, <1>4

LEMMA AstrayLasts ==
    ASSUME NEW k \in 6 .. 10, NEW q \in 0 .. 14, NEW i \in 0 .. 14, NEW gap \in 0 .. 4,
           i >= k, q = i + gap + 1 \/ q = i + gap - 14,
           k = q \/ (k \in Vague /\ q \in Vague)
    PROVE  k \in 6 .. 9 /\ q >= k + 1
<1>1. q >= k + 1 \/ q < 5
  OBVIOUS
<1>2. k # q
  BY <1>1
<1>3. q >= 5 /\ k # 10
  BY <1>2 DEF Vague
<1> QED
  BY <1>1, <1>3

(* A page that is accepted continues the subframe or leads it astray; when *)
(* it is the fifteenth, it continues it.                                   *)
LEMMA Accepted ==
    ASSUME NEW s \in Seq(PageIds), NEW page \in PageIds, NEW gap \in 0 .. 4, NEW type,
           Len(s) \in 0 .. 14,
           type \in WORD_SEQ[Len(s) + 1], type \in WORD_SEQ[page[2] + 1],
           Len(s) > 0 => /\ Number(page) = Number(s[Len(s)]) + gap + 1
                         /\ Astray(s) \/ \E n \in Nat : Prefix(s, n)
    PROVE  \/ Prefix(Append(s, page), page[1])
           \/ Len(s) # 14 /\ Astray(Append(s, page))
<1> DEFINE k == Len(s)
           q == page[2]
           e == s[k]
           t == Append(s, page)
<1>1. q \in 0 .. 14 /\ page[1] \in Nat /\ page = Page(page[1], q) /\ k \in 0 .. 14
  BY NumberFollows
<1>2. k = q \/ (k \in Vague /\ q \in Vague)
  <2>1. k \in Positions /\ q \in Positions
    BY <1>1 DEF Positions, PAGES_IN_SUBFRAME
  <2> HIDE DEF k, q
  <2> QED
    BY <2>1, OwnWords DEF k, q
<1>3. Len(t) = k + 1 /\ t[k + 1] = page
  BY AppendPages
<1>4. ASSUME Prefix(s, page[1]), k = q PROVE Prefix(t, page[1])
  <2>1. page = Page(page[1], Len(s)) /\ Len(s) \in Positions
    BY <1>1, <1>4 DEF Positions, PAGES_IN_SUBFRAME
  <2> QED
    BY <1>1, <1>4, <2>1, PrefixAppend
<1>5. CASE k = 0
  <2>1. q = 0
    BY <1>2, <1>5 DEF Vague
  <2>2. Prefix(s, page[1])
    BY <1>5 DEF Prefix
  <2> QED
    BY <1>4, <1>5, <2>1, <2>2
<1>6. CASE k > 0
  <2>1. /\ e \in PageIds /\ e[1] \in Nat /\ e[2] \in 0 .. 14
        /\ Number(page) = Number(e) + gap + 1
        /\ Astray(s) \/ \E n \in Nat : Prefix(s, n)
    <3>1. k \in 1 .. Len(s)
      BY <1>1, <1>6
    <3>2. e \in PageIds
      BY <3>1
    <3> QED
      BY <1>6, <3>2, NumberFollows
  <2>2. \/ page[1] = e[1] /\ q = e[2] + gap + 1
        \/ page[1] = e[1] + 1 /\ q = e[2] + gap - 14
    BY <2>1, Ahead
  <2>3. ASSUME NEW n \in Nat, Prefix(s, n)
        PROVE  Prefix(t, page[1]) \/ (k # 14 /\ Astray(t))
    <3>1. e = Page(n, k - 1)
      BY <1>1, <1>6, <2>3 DEF Prefix
    <3>2. e[1] = n /\ e[2] = k - 1
      BY <3>1 DEF Page
    <3>3. CASE k = q
      <4>1. page[1] = n
        BY <1>1, <2>2, <3>2, <3>3
      <4> QED
        BY <1>4, <2>3, <3>3, <4>1
    <3>4. CASE k # q
      <4>1. k \in Vague /\ q \in Vague
        BY <1>2, <3>4
      <4>2. q = (k - 1) + gap + 1 \/ q = (k - 1) + gap - 14
        BY <2>2, <3>2
      <4> HIDE DEF k, q, t
      <4>3. q >= k + 1 /\ (k \in 5 .. 9 \/ k = 13) /\ (k = 13 => q = 14)
        BY <1>1, <3>4, <4>1, <4>2, AstrayBegins
      <4>4. Len(t) = k + 1 /\ t[Len(t)][2] = q
        BY <1>3 DEF q
      <4>5. (Len(t) \in 6 .. 10 /\ q >= Len(t)) \/ (Len(t) = 14 /\ q = 14)
        BY <4>3, <4>4
      <4> QED
        BY <4>3, <4>4, <4>5 DEF Astray
    <3> QED
      BY <3>3, <3>4
  <2>4. CASE Astray(s)
    <3>1. (k \in 6 .. 10 /\ e[2] >= k) \/ (k = 14 /\ e[2] = 14)
      BY <2>4 DEF Astray
    <3>2. k \in 6 .. 10 /\ e[2] >= k
      <4>1. ASSUME k = 14, e[2] = 14 PROVE FALSE
        <5>1. q \in 0 .. 4
          BY <1>1, <2>2, <4>1
        <5> QED
          BY <1>2, <4>1, <5>1 DEF Vague
      <4> QED
        BY <3>1, <4>1
    <3> DEFINE i == e[2]
    <3>3. i \in 0 .. 14 /\ i >= k /\ (q = i + gap + 1 \/ q = i + gap - 14)
      BY <2>1, <2>2, <3>2
    <3> HIDE DEF i
    <3> HIDE DEF k, q, t
    <3>5. k \in 6 .. 9 /\ q >= k + 1
      BY <1>1, <1>2, <3>2, <3>3, AstrayLasts
    <3>6. Len(t) = k + 1 /\ t[Len(t)][2] = q
      BY <1>3 DEF q
    <3>7. Len(t) \in 6 .. 10 /\ q >= Len(t) /\ k # 14
      BY <3>5, <3>6
    <3>8. Astray(t)
      BY <3>6, <3>7 DEF Astray
    <3> QED
      BY <3>7, <3>8 DEF k, t
  <2> QED
    BY <2>1, <2>3, <2>4
<1> QED
  BY <1>1, <1>5, <1>6

LEMMA GenuineDelivers ==
    ASSUME IndexInv, HistoryOK, NEW p \in PRNs, OnTrack(p), Handed(p), Delivers(p)
    PROVE  OnTrack(p)' /\ Handed(p)'
<1> DEFINE s == subframe[p]
           page == air[p]
<1>1. /\ page \in PageIds /\ page[1] \in Nat /\ page[1] \in 0 .. MaxSubframes
      /\ Number(air'[p]) = Number(page) + 1 /\ Number(page) \in Nat
  BY NumberFollows DEF IndexInv, AirOK, HistoryOK, Delivers
<1>2. next_ind[p] \in 0 .. 14 /\ s \in Seq(PageIds) /\ Len(s) = next_ind[p]
  BY DEF IndexInv, AirOK, PAGES_IN_SUBFRAME
<1>3. lost'[p] = 0 /\ lost[p] \in 0 .. 4
  BY DEF Delivers, OnTrack
<1>4. PICK type \in WORD_SEQ[page[2] + 1] :
        Rejects(p, type) \/ Completes(p, page, type) \/ Collects(p, page, type)
  BY DEF Delivers
<1>5. ASSUME type \in WORD_SEQ[next_ind[p] + 1]
      PROVE  \/ Prefix(Append(s, page), page[1])
             \/ Len(s) # 14 /\ Astray(Append(s, page))
  <2>1. /\ type \in WORD_SEQ[Len(s) + 1] /\ Len(s) \in 0 .. 14
        /\ Len(s) > 0 => /\ Number(page) = Number(s[Len(s)]) + lost[p] + 1
                         /\ Astray(s) \/ \E n \in Nat : Prefix(s, n)
    BY <1>2, <1>5 DEF OnTrack
  <2> HIDE DEF s, page
  <2> QED
    BY <1>1, <1>2, <1>3, <1>4, <2>1, Accepted
<1>6. CASE Rejects(p, type)
  BY <1>3, <1>6 DEF Rejects, OnTrack, Handed
<1>7. CASE Completes(p, page, type)
  <2>1. Prefix(Append(s, page), page[1])
    <3>1. Len(s) = 14 /\ type \in WORD_SEQ[next_ind[p] + 1]
      BY <1>2, <1>7 DEF Completes
    <3> HIDE DEF s, page
    <3> QED
      BY <1>5, <3>1
  <2>2. Len(Append(s, page)) = 15 /\ Append(s, page) \in Seq(PageIds)
    <3>1. Len(s) = 14
      BY <1>2, <1>7 DEF Completes
    <3> HIDE DEF s, page
    <3>2. Len(Append(s, page)) = Len(s) + 1 /\ Append(s, page) \in Seq(PageIds)
      BY <1>1, <1>2, AppendPages
    <3> QED
      BY <3>1, <3>2
  <2>3. Append(s, page) = Subframe(page[1])
    BY <1>1, <2>1, <2>2, WholeSubframe DEF Prefix
  <2>4. Handed(p)'
    BY <1>1, <1>7, <2>3 DEF Completes, Handed
  <2>5. OnTrack(p)'
    BY <1>3, <1>7 DEF Completes, OnTrack
  <2> QED
    BY <2>4, <2>5
<1>8. CASE Collects(p, page, type)
  <2>1. Astray(Append(s, page)) \/ Prefix(Append(s, page), page[1])
    BY <1>5, <1>8 DEF Collects
  <2>2. /\ subframe'[p] = Append(s, page) /\ next_ind'[p] = Len(s) + 1
        /\ processed'[p] = processed[p]
    BY <1>2, <1>8 DEF Collects
  <2>3. subframe'[p][next_ind'[p]] = page
    BY <1>1, <1>2, <2>2, AppendPages
  <2>4. Number(air'[p]) = Number(subframe'[p][next_ind'[p]]) + lost'[p] + 1
    BY <1>1, <1>3, <2>3
  <2>5. OnTrack(p)'
    BY <1>1, <1>3, <2>1, <2>2, <2>4 DEF OnTrack
  <2> QED
    BY <2>2, <2>5 DEF Handed
<1> QED
  BY <1>4, <1>6, <1>7, <1>8

LEMMA GenuineStep ==
    ASSUME IndexInv, HistoryOK, GenuineInv, [Next]_vars
    PROVE  GenuineInv'
<1> SUFFICES ASSUME NEW p \in PRNs, ~mixed'[p] PROVE OnTrack(p)' /\ Handed(p)'
  BY DEF GenuineInv
<1>1. CASE Apart(p)
  BY <1>1 DEF Apart, GenuineInv, OnTrack, Handed
<1>2. CASE Delivers(p)
  BY <1>2, GenuineDelivers DEF Delivers, GenuineInv
<1>3. CASE Loses(p)
  <2>1. ~mixed[p] /\ lost[p] # 4
    BY <1>3 DEF Loses
  <2>2. OnTrack(p) /\ Handed(p)
    BY <2>1 DEF GenuineInv
  <2>3. lost[p] \in 0 .. 4 /\ lost'[p] = lost[p] + 1 /\ lost'[p] \in 0 .. 4
    BY <1>3, <2>1, <2>2 DEF Loses, OnTrack
  <2>4. Number(air'[p]) = Number(air[p]) + 1 /\ Number(air[p]) \in Nat
    BY <1>3, NumberFollows DEF Loses, IndexInv, AirOK
  <2>5. UNCHANGED <<next_ind[p], subframe[p], processed[p]>>
    BY <1>3 DEF Loses
  <2>6. ASSUME next_ind[p] > 0
        PROVE  Number(air'[p]) = Number(subframe[p][next_ind[p]]) + lost'[p] + 1
    <3>1. next_ind[p] \in 1 .. Len(subframe[p]) /\ subframe[p] \in Seq(PageIds)
      BY <2>6 DEF IndexInv, AirOK
    <3>2. subframe[p][next_ind[p]] \in PageIds
      BY <3>1
    <3>3. Number(subframe[p][next_ind[p]]) \in Nat
      BY <3>2, NumberFollows
    <3>4. Number(air[p]) = Number(subframe[p][next_ind[p]]) + lost[p] + 1
      BY <2>2, <2>6 DEF OnTrack
    <3> QED
      BY <2>3, <2>4, <3>3, <3>4
  <2> QED
    BY <2>2, <2>3, <2>5, <2>6 DEF OnTrack, Handed
<1>4. CASE Repeats(p)
  BY <1>4 DEF Repeats
<1> QED
  BY <1>1, <1>2, <1>3, <1>4, OneSatelliteSteps

(* SubframesGenuine, for every number of satellites and subframes: without *)
(* a burst of five lost pages and without a repetition, what feed_page     *)
(* hands on is a subframe as it was sent.                                  *)
THEOREM SubframesAlwaysGenuine == Spec => []SubframesGenuine
<1> DEFINE Inv == IndexInv /\ HistoryOK /\ GenuineInv
<1>1. Init => Inv
  BY IndexInvInit, HistoryInit, GenuineInit
<1>2. Inv /\ [Next]_vars => Inv'
  BY IndexInvStep, HistoryStep, GenuineStep
<1>3. Inv => SubframesGenuine
  BY DEF GenuineInv, Handed, SubframesGenuine
<1> QED
  BY <1>1, <1>2, <1>3, PTL DEF Spec
=============================================================================
