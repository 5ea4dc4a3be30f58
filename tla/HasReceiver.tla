---------------------------- MODULE HasReceiver ----------------------------
(***************************************************************************)
(* The collection of Galileo HAS messages (galileo_e6_has_msg_receiver).   *)
(* A message is sent as pages under a message identifier (MID).  Each page *)
(* is one row, named by its page identifier (PID), of a Reed-Solomon code  *)
(* word: any message_size different rows give the message back.  The       *)
(* satellites send different rows of the same message at the same time and *)
(* reuse its MID later.  The receiver collects rows of every MID, decodes  *)
(* when it has message_size of them, and forgets what is too old.          *)
(*                                                                         *)
(* Nothing in a page says which of two messages with the same MID it is a  *)
(* row of, and a decoder without redundant rows accepts any mixture: only  *)
(* the times of the pages keep the messages apart.  Times are modelled as  *)
(* ages, in seconds, that stop growing once they are too old to matter.    *)
(*                                                                         *)
(* Fault variants, as elsewhere, are used by no specification.             *)
(***************************************************************************)
EXTENDS Integers, Sequences, FiniteSets

CONSTANTS
    Mids,          \* message identifiers
    PidsOf,        \* for each MID, the page identifiers that are received
    SizesOf,       \* for each MID, message_size of its messages
    FirstParity,   \* first PID of a parity row (33); the rows in between are padding
    Window,        \* MAX_SECONDS_REMEMBERING_MID
    Jitter,        \* how late a channel may deliver a page, at most
    Gap            \* silence of a MID before it is reused for another message

ASSUME HasAssumption ==
    /\ Mids # {} /\ IsFiniteSet(Mids)
    /\ PidsOf \in [Mids -> SUBSET (Nat \ {0})]
    /\ FirstParity \in Nat /\ SizesOf \in [Mids -> SUBSET (1 .. (FirstParity - 1))]
    /\ \A m \in Mids : \E n \in SizesOf[m] : \A k \in SizesOf[m] : k <= n
    /\ Window \in Nat /\ Jitter \in Nat /\ Gap \in Nat
    /\ Gap >= Window + Jitter

(* Ages from Old on are all the same.                                      *)
Old == Gap + 1
Ages == 0 .. Old
Older(a) == IF a < Old THEN a + 1 ELSE Old

(* What message_size may be: five bits of the page header, plus one.       *)
Sizes == 1 .. (FirstParity - 1)

(* d_received_pids only ever meets the first entries of the times.         *)
MaxSize(m) == CHOOSE n \in SizesOf[m] : \A k \in SizesOf[m] : k <= n
Truncated(m, times) == IF Len(times) > MaxSize(m) THEN SubSeq(times, 1, MaxSize(m)) ELSE times

VARIABLES
    size,       \* message_size of the message now sent under each MID
    quiet,      \* age of the last page of each MID
    held,       \* d_received_pids and d_C_matrix: pages kept for each MID
    stamps,     \* d_received_timestamps, as ages
    printed,    \* d_printed_mids
    printed_at, \* d_printed_timestamps, as ages
    mask,       \* d_nsat_in_mask_id is not zero, for the mask in use
    last        \* what the handler did with the last page

sourceVars == <<size, quiet>>
receiverVars == <<held, stamps, printed, printed_at, mask>>
vars == <<sourceVars, receiverVars, last>>

(* `current' says that the page belongs to the message its MID now stands  *)
(* for, and `age' is its own age.                                          *)
Page(pid, age) == [pid |-> pid, current |-> TRUE, age |-> age]

Nothing == [kind |-> "none"]
Handled(m) == [kind |-> "page", mid |-> m]
Published(m, pages, age) ==
    [kind |-> "message", mid |-> m, whole |-> \A p, q \in pages : p.current = q.current, since |-> age]

Init ==
    /\ size \in {n \in [Mids -> Sizes] : \A m \in Mids : n[m] \in SizesOf[m]}
    /\ quiet = [m \in Mids |-> Old]
    /\ held = [m \in Mids |-> {}]
    /\ stamps = [m \in Mids |-> <<>>]
    /\ printed = [m \in Mids |-> FALSE]
    /\ printed_at = [m \in Mids |-> Old]
    /\ mask = FALSE
    /\ last = Nothing

-----------------------------------------------------------------------------
(* The satellites and time.                                                *)

Tick ==
    /\ quiet' = [m \in Mids |-> Older(quiet[m])]
    /\ held' = [m \in Mids |-> {[p EXCEPT !.age = Older(@)] : p \in held[m]}]
    /\ stamps' = [m \in Mids |-> [k \in DOMAIN stamps[m] |-> Older(stamps[m][k])]]
    /\ printed_at' = [m \in Mids |-> Older(printed_at[m])]
    /\ last' = Nothing
    /\ UNCHANGED <<size, printed, mask>>

(* A MID is used again, for another message.                               *)
MidReused(m) ==
    /\ quiet[m] > Gap
    /\ \E n \in SizesOf[m] : size' = [size EXCEPT ![m] = n]
    /\ held' = [held EXCEPT ![m] = {[p EXCEPT !.current = FALSE] : p \in @}]
    /\ last' = Nothing
    /\ UNCHANGED <<quiet, stamps, printed, printed_at, mask>>

-----------------------------------------------------------------------------
(* delete_outdated_data, for a page that is `late' seconds old.            *)

(* Fault variant: one second early.                                        *)
TooOldEarly(age, late) == age - late >= Window

TooOld(age, late) == age - late > Window

(* Fault variant: nothing is ever deleted.                                 *)
NeverOutdated(m, late) == FALSE

(* One of the first size() times of the MID is too old.                    *)
Outdated(m, late) ==
    \E k \in 1 .. Cardinality(held[m]) : TooOld(stamps[m][k], late)

Kept(late) == [m \in Mids |-> IF Outdated(m, late) THEN {} ELSE held[m]]
KeptStamps(late) == [m \in Mids |-> IF Outdated(m, late) THEN <<>> ELSE stamps[m]]

(* Fault variant: a published MID is forgotten with the first page.        *)
ForgottenAtOnce(m, late) == printed[m]

Forgotten(m, late) == printed[m] /\ TooOld(printed_at[m], late)

StillPrinted(late) == [m \in Mids |-> printed[m] /\ ~Forgotten(m, late)]

-----------------------------------------------------------------------------
(* msg_handler_galileo_e6_has, with process_HAS_page and                   *)
(* decode_message_type1.                                                   *)

Arrives(m) == quiet' = [quiet EXCEPT ![m] = 0] /\ UNCHANGED size

(* The message of this MID has been published not long ago.                *)
PageSkipped(m) ==
    /\ printed[m]
    /\ Arrives(m)
    /\ last' = Nothing
    /\ UNCHANGED receiverVars

(* Fault variant: repeated pages are counted.                              *)
AnnotateTwice(pages, p) == pages \cup {p}

Annotate(pages, p) ==
    IF p.pid \in {q.pid : q \in pages} THEN pages ELSE pages \cup {p}

Noted(m, times, pages, p) ==
    IF p.pid \in {q.pid : q \in pages} THEN times
    ELSE Truncated(m, Append(times, p.age))

(* A page is annotated and there are not message_size of them yet.         *)
PageCollected(m, pid, late) ==
    LET pages == Annotate(Kept(late)[m], Page(pid, late))
    IN  /\ ~printed[m]
        /\ Cardinality(pages) # size[m]
        /\ Arrives(m)
        /\ held' = [Kept(late) EXCEPT ![m] = pages]
        /\ stamps' = [KeptStamps(late) EXCEPT
                         ![m] = Noted(m, @, Kept(late)[m], Page(pid, late))]
        /\ printed' = StillPrinted(late)
        /\ last' = Handled(m)
        /\ UNCHANGED <<printed_at, mask>>

(* The rows that are missing can be computed for a message of n rows: none *)
(* of those received is padding.                                           *)
Decodable(n, pages) == \A p \in pages : p.pid <= n \/ p.pid >= FirstParity

(* What read_MT1_header and read_MT1_body find in a decoded message: a     *)
(* mask of its own, a reference to an earlier one, or values that are out  *)
(* of range or do not fit, which may cost the mask.                        *)
Contents == {"mask", "plain", "wrong"}

MaskAfter(content) ==
    CASE content = "mask" -> {TRUE} [] content = "plain" -> {mask} [] OTHER -> BOOLEAN

(* decode_message_type1 on the rows of a MID, as many as the page that was *)
(* received last says (n), and what follows from it.  The rows are given   *)
(* up, decoded or not; the times of the MID stay.  The message goes to the *)
(* PVT block if its mask is known.  The branch that returns with the rows  *)
(* kept, when the Reed-Solomon decoder gives up, is never taken: n rows    *)
(* without padding leave exactly as many erasures as there are parity      *)
(* symbols, which the decoder always fills in.                             *)
MessageDecoded(m, n, pages, marks, late, content) ==
    LET decoded == Decodable(n, pages)
        sent == decoded /\ (content = "mask" \/ (content = "plain" /\ mask))
    IN  /\ mask' \in IF decoded THEN MaskAfter(content) ELSE {mask}
        /\ printed' = [marks EXCEPT ![m] = sent]
        /\ printed_at' = IF sent THEN [printed_at EXCEPT ![m] = late] ELSE printed_at
        /\ last' = IF sent THEN Published(m, pages, printed_at[m]) ELSE Handled(m)

(* The last page that was missing.                                         *)
MessageComplete(m, pid, late, content) ==
    LET pages == Annotate(Kept(late)[m], Page(pid, late))
    IN  /\ ~printed[m]
        /\ Cardinality(pages) = size[m]
        /\ Arrives(m)
        /\ held' = [Kept(late) EXCEPT ![m] = {}]
        /\ stamps' = [KeptStamps(late) EXCEPT
                         ![m] = Noted(m, @, Kept(late)[m], Page(pid, late))]
        /\ MessageDecoded(m, size[m], pages, StillPrinted(late), late, content)

(* A page with the reserved PID or of another message type is not          *)
(* annotated and deletes nothing; the message_size n that it carries, be   *)
(* it the message's own or not, is compared nevertheless.                  *)
PageIgnored(m, n) ==
    /\ ~printed[m]
    /\ Cardinality(held[m]) # n
    /\ Arrives(m)
    /\ last' = Nothing
    /\ UNCHANGED receiverVars

IgnoredPageCompletes(m, n, late, content) ==
    /\ ~printed[m]
    /\ Cardinality(held[m]) = n
    /\ Arrives(m)
    /\ held' = [held EXCEPT ![m] = {}]
    /\ UNCHANGED stamps
    /\ MessageDecoded(m, n, held[m], printed, late, content)

msg_handler_galileo_e6_has(m) ==
    \/ PageSkipped(m)
    \/ \E n \in Sizes :
         \/ PageIgnored(m, n)
         \/ \E late \in 0 .. Jitter, content \in Contents :
              IgnoredPageCompletes(m, n, late, content)
    \/ \E pid \in PidsOf[m], late \in 0 .. Jitter :
         \/ PageCollected(m, pid, late)
         \/ \E content \in Contents : MessageComplete(m, pid, late, content)

Next == Tick \/ \E m \in Mids : MidReused(m) \/ msg_handler_galileo_e6_has(m)

Spec == Init /\ [][Next]_vars

-----------------------------------------------------------------------------
(* Properties.                                                             *)

(* Types; no MID keeps two pages with the same PID.                        *)
TypeOK ==
    /\ \A m \in Mids : size[m] \in SizesOf[m]
    /\ quiet \in [Mids -> Ages] /\ printed_at \in [Mids -> Ages]
    /\ stamps \in [Mids -> Seq(Ages)]
    /\ printed \in [Mids -> BOOLEAN] /\ mask \in BOOLEAN
    /\ \A m \in Mids :
         /\ held[m] \subseteq [pid : PidsOf[m], current : BOOLEAN, age : Ages]
         /\ \A p, q \in held[m] : p.pid = q.pid => p = q
    /\ last.kind \in {"none", "page", "message"}

(* What goes to the PVT block is made from rows of one message, never from *)
(* a mixture of two with the same MID, as long as a MID rests for the      *)
(* time-out (and the time a page may be late) before it is reused.  That   *)
(* the rows are all of it is not so: a page that is ignored may carry      *)
(* another message_size and have too few rows decoded.                     *)
MessageIsWhole ==
    last.kind = "message" => last.whole

(* No MID gets stuck: the size is compared for equality, and a MID that    *)
(* ever had more pages than that would not be decoded before its time-out. *)
NeverStuck == last.kind # "none" => Cardinality(held[last.mid]) < size[last.mid]

(* A message goes to the PVT block once: the same MID is published again   *)
(* only after the time-out.                                                *)
PublishedOnce == last.kind = "message" => last.since > Window

(* Pages are forgotten only when one of them is from before the time-out,  *)
(* as long as the times of the MID are those of its pages.  They are not   *)
(* after a message is decoded, which clears d_received_pids and leaves     *)
(* d_received_timestamps: then fresh pages are forgotten too.              *)
TimesMatch(m) == Len(stamps[m]) = Cardinality(held[m])

FreshPagesKept ==
    [][\A m \in Mids :
          /\ TimesMatch(m) /\ held[m] # {}
          /\ held'[m] = {} /\ last'.kind # "none" /\ last'.mid # m
          => \E p \in held[m] : p.age > Window]_vars
=============================================================================
