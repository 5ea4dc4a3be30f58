--------------------------- MODULE OsnmaSubframes ---------------------------
(***************************************************************************)
(* The collection of OSNMA subframes by OSNMAProcessor::feed_page: fifteen *)
(* I/NAV pages of a satellite make a subframe, and the only thing that     *)
(* tells the receiver where it is in a subframe is the type of the word of *)
(* each page (GALILEO_E1_INAV_WORD_SEQ).                                   *)
(*                                                                         *)
(* A satellite sends page after page; pages are lost (CRC errors, loss of  *)
(* lock) or delivered again (see InavPages).  Pages are identified by the  *)
(* subframe and the position they were sent in.                            *)
(***************************************************************************)
EXTENDS Integers, Sequences

CONSTANTS
    PRNs,          \* satellites
    MaxSubframes,  \* bound on the subframes each one sends
    MaxBurst,      \* bound on consecutive pages lost
    Duplicates     \* the last page may be delivered again

ASSUME SubframesAssumption ==
    /\ MaxSubframes \in Nat \ {0} /\ MaxBurst \in Nat
    /\ Duplicates \in BOOLEAN

PAGES_IN_SUBFRAME == 15

(* GALILEO_E1_INAV_WORD_SEQ: the word types a position may carry.          *)
WORD_SEQ == <<{2}, {4}, {6}, {7, 9}, {8, 10}, {17, 18, 0}, {19, 20, 0}, {16, 0},
              {0}, {0}, {1}, {3}, {5}, {0}, {16, 0}>>

WordTypes == {0, 1, 2, 3, 4, 5, 6, 7, 8, 9, 10, 16, 17, 18, 19, 20}

Page(n, pos) == <<n, pos>>
PageIds == Nat \X (0 .. (PAGES_IN_SUBFRAME - 1))

VARIABLES
    next_ind,   \* prns_next_word_seq_ind
    subframe,   \* pages in prn_current_subframe_map, in order
    air,        \* the next page each satellite sends
    lost,       \* pages lost in a row
    streak,     \* pages delivered in a row, capped (history)
    mixed,      \* pages may have been mixed up: a repetition or a long burst (history)
    last,       \* the last page delivered and its word type
    processed   \* the last subframe handed to process_subframe (history)

processorVars == <<next_ind, subframe, processed>>
vars == <<processorVars, air, lost, streak, mixed, last>>

NoPage == [page |-> Page(0, 0), type |-> -1]

(* A satellite is met at any position of a subframe.                       *)
Init ==
    /\ next_ind = [p \in PRNs |-> 0]
    /\ subframe = [p \in PRNs |-> <<>>]
    /\ air \in [PRNs -> {Page(0, pos) : pos \in 0 .. (PAGES_IN_SUBFRAME - 1)}]
    /\ lost = [p \in PRNs |-> 0]
    /\ streak = [p \in PRNs |-> 0]
    /\ mixed = [p \in PRNs |-> FALSE]
    /\ last = [p \in PRNs |-> NoPage]
    /\ processed = [p \in PRNs |-> <<>>]

(* Bounds of the history variables: a streak is counted up to two          *)
(* subframes, and a burst of more than four pages is a long one.           *)
StreakCap == 2 * PAGES_IN_SUBFRAME
LongBurst == 4

Following(page) ==
    IF page[2] = PAGES_IN_SUBFRAME - 1 THEN Page(page[1] + 1, 0)
                                       ELSE Page(page[1], page[2] + 1)

Sends(p) ==
    /\ air[p][1] < MaxSubframes
    /\ air' = [air EXCEPT ![p] = Following(@)]

-----------------------------------------------------------------------------
(* feed_page.  The lengths of the fields are those of the decoder, so the  *)
(* first test never fires; a satellite seen for the first time starts with *)
(* an empty subframe, as in Init.                                          *)

(* Fault variant: the position is forgotten, the pages are not.            *)
ResetPosition(p) == next_ind' = [next_ind EXCEPT ![p] = 0] /\ UNCHANGED subframe

reset_current_subframe(p) ==
    /\ next_ind' = [next_ind EXCEPT ![p] = 0]
    /\ subframe' = [subframe EXCEPT ![p] = <<>>]

(* Fault variant: any word will do.                                        *)
AnyWord(p, type) == type \in WordTypes

word_sequence_valid(p, type) == type \in WORD_SEQ[next_ind[p] + 1]

(* OSNMASubframe::add_page on a subframe that is not yet full.             *)
Added(p, page) == Append(subframe[p], page)

(* Fault variant: one page too few.                                        *)
ReadyEarly(pages) == Len(pages) = PAGES_IN_SUBFRAME - 1
subframe_ready(pages) == Len(pages) = PAGES_IN_SUBFRAME

feed_page(p, page, type) ==
    IF ~word_sequence_valid(p, type)
      THEN reset_current_subframe(p) /\ UNCHANGED processed
      ELSE IF subframe_ready(Added(p, page))
        THEN /\ processed' = [processed EXCEPT ![p] = Added(p, page)]
             /\ reset_current_subframe(p)
        ELSE /\ next_ind' = [next_ind EXCEPT ![p] = (@ + 1) % PAGES_IN_SUBFRAME]
             /\ subframe' = [subframe EXCEPT ![p] = Added(p, page)]
             /\ UNCHANGED processed

-----------------------------------------------------------------------------

PageDelivered(p) ==
    /\ Sends(p)
    /\ \E type \in WORD_SEQ[air[p][2] + 1] :
         /\ feed_page(p, air[p], type)
         /\ last' = [last EXCEPT ![p] = [page |-> air[p], type |-> type]]
    /\ lost' = [lost EXCEPT ![p] = 0]
    /\ streak' = [streak EXCEPT ![p] = IF @ < StreakCap THEN @ + 1 ELSE @]
    /\ UNCHANGED mixed

PageLost(p) ==
    /\ lost[p] < MaxBurst
    /\ Sends(p)
    /\ lost' = [lost EXCEPT ![p] = @ + 1]
    /\ streak' = [streak EXCEPT ![p] = 0]
    /\ mixed' = [mixed EXCEPT ![p] = @ \/ lost[p] = LongBurst]
    /\ UNCHANGED <<processorVars, last>>

(* The last page of a channel is published again (PageStream), under its   *)
(* own PRN or, after a reassignment, under another.  A satellite is        *)
(* tracked by one channel, so that its last page is that of the channel.   *)
PageRepeated(p, q) ==
    /\ Duplicates
    /\ last[q] # NoPage
    /\ feed_page(p, last[q].page, last[q].type)
    /\ last' = [last EXCEPT ![p] = last[q]]
    /\ streak' = [streak EXCEPT ![p] = 0]
    /\ mixed' = [mixed EXCEPT ![p] = TRUE]
    /\ UNCHANGED <<air, lost>>

(* The bound on the subframes ends the behaviour.                          *)
Done ==
    /\ \A p \in PRNs : air[p][1] = MaxSubframes
    /\ UNCHANGED vars

Next ==
    \/ \E p \in PRNs : PageDelivered(p) \/ PageLost(p)
    \/ \E p, q \in PRNs : PageRepeated(p, q)
    \/ Done

Spec == Init /\ [][Next]_vars

-----------------------------------------------------------------------------
(* Properties.                                                             *)

(* The position and the pages are kept in two maps that are updated in     *)
(* different places; they always agree, so that no subframe ever gets more *)
(* than fifteen pages, and a full one is processed at once.                *)
IndexAgrees ==
    \A p \in PRNs :
        /\ next_ind[p] \in 0 .. (PAGES_IN_SUBFRAME - 1)
        /\ subframe[p] \in Seq(PageIds)
        /\ Len(subframe[p]) = next_ind[p]

(* A subframe that is processed was sent: its pages are the fifteen pages  *)
(* of one subframe in order.  The word types alone do not tell subframes   *)
(* apart: this needs bursts of losses shorter than five pages, and no page *)
(* delivered twice.                                                        *)
Subframe(n) == [i \in 1 .. PAGES_IN_SUBFRAME |-> Page(n, i - 1)]

SubframesGenuine ==
    \A p \in PRNs :
        ~mixed[p] /\ processed[p] # <<>> => \E n \in 0 .. MaxSubframes : processed[p] = Subframe(n)

(* Losses never desynchronise the processor for long: a subframe that      *)
(* arrives whole, with at least three pages before it, is processed: the  *)
(* word types of the last three positions put the position right.          *)
Resynchronises ==
    \A p \in PRNs :
        /\ air[p][2] = 0
        /\ streak[p] >= PAGES_IN_SUBFRAME + 3
        => processed[p] = Subframe(air[p][1] - 1)
=============================================================================
