----------------------------- MODULE InavPages -----------------------------
(***************************************************************************)
(* How the telemetry decoder of a Galileo E1 channel                       *)
(* (galileo_telemetry_decoder_gs, Galileo_Inav_Message) puts the two       *)
(* halves of an I/NAV page together and publishes the page to the OSNMA    *)
(* worker.                                                                 *)
(*                                                                         *)
(* One step is one half page, one second of signal.  Page n of a satellite *)
(* is sent as an even half, then an odd one.  A half may be damaged; a     *)
(* damaged half may even be taken for one of the other parity, since the   *)
(* parity is its first bit.  The CRC is assumed to be perfect: it holds    *)
(* when both halves are intact and belong to the same page.                *)
(***************************************************************************)
EXTENDS Integers

CONSTANTS
    Sats,        \* satellites the channel may be given
    MaxPages,    \* bound on the pages of a behaviour
    ErrorLimit,  \* CRC_ERROR_LIMIT
    Misreads,    \* damaged halves may be taken for the other parity
    Reassigns    \* the channel may lose its satellite and be given another

ASSUME InavAssumption ==
    /\ Sats # {}
    /\ MaxPages \in Nat \ {0} /\ ErrorLimit \in Nat
    /\ {Misreads, Reassigns} \subseteq BOOLEAN

VARIABLES
    satellite,     \* d_satellite
    d_stat,        \* 0 no preamble, 1 one preamble seen, 2 in sync
    since,         \* half pages since the first preamble: 1, or 2 for more
    even_arrived,  \* d_flag_even_word_arrived
    page_Even,     \* the page whose even half is kept, or Damaged
    flag_CRC_test,
    data,          \* the page in data_nav and data_OSNMA, or Damaged
    errors,        \* d_CRC_error_counter
    sent,          \* the half on the air: page n of every satellite, odd or even
    rx,            \* the last half that was decoded, or NoHalf (history)
    pub            \* publications so far, the last page and its PRN label (history)

decoderVars == <<d_stat, since, even_arrived, page_Even, flag_CRC_test, data, errors>>
vars == <<satellite, decoderVars, sent, rx, pub>>

Page(s, n) == [sat |-> s, n |-> n]
Damaged == [sat |-> "none", n |-> -1]
NoHalf == [n |-> -1, odd |-> FALSE, intact |-> FALSE]

Init ==
    /\ satellite \in Sats
    /\ d_stat = 0
    /\ since = 1
    /\ even_arrived = FALSE
    /\ page_Even = Damaged
    /\ flag_CRC_test = FALSE
    /\ data = Damaged
    /\ errors = 0
    /\ sent = [n |-> 0, odd |-> FALSE]
    /\ rx = NoHalf
    /\ pub = [count |-> 0, page |-> Damaged, prn |-> "none"]

(* The next half page comes on the air.                                    *)
Passes ==
    /\ sent.n < MaxPages
    /\ sent' = [n |-> IF sent.odd THEN sent.n + 1 ELSE sent.n, odd |-> ~sent.odd]

-----------------------------------------------------------------------------
(* Frame synchronisation (d_stat 0 and 1 of general_work).                 *)

PreambleFound ==
    /\ d_stat = 0
    /\ Passes
    /\ d_stat' = 1
    /\ since' = 1
    /\ rx' = NoHalf
    /\ UNCHANGED <<satellite, even_arrived, page_Even, flag_CRC_test, data, errors, pub>>

(* In state 1 the test of the separation waits for the next preamble.      *)
PreambleMissed ==
    /\ d_stat \in {0, 1}
    /\ Passes
    /\ since' = IF d_stat = 1 THEN 2 ELSE since
    /\ rx' = NoHalf
    /\ UNCHANGED <<satellite, d_stat, even_arrived, page_Even, flag_CRC_test, data, errors, pub>>

(* The second preamble comes one period after the first.  The decoder is   *)
(* called a period later, with the half that the third preamble begins:    *)
(* the half of the second one is not decoded either.                       *)
PreambleConfirmed ==
    /\ d_stat = 1 /\ since = 1
    /\ Passes
    /\ d_stat' = 2
    /\ errors' = 0
    /\ rx' = NoHalf
    /\ UNCHANGED <<satellite, since, even_arrived, page_Even, flag_CRC_test, data, pub>>

PreambleLate ==
    /\ d_stat = 1 /\ since = 2
    /\ Passes
    /\ d_stat' = 0
    /\ rx' = NoHalf
    /\ UNCHANGED <<satellite, since, even_arrived, page_Even, flag_CRC_test, data, errors, pub>>

-----------------------------------------------------------------------------
(* In sync: decode_INAV_word on the half just received (split_page and the *)
(* publication of the page), and the supervision of the CRC.               *)

(* The odd half: with an even half in memory the CRC decides; without one  *)
(* the flag and the data stay what they were.                              *)
SplitOdd(page) ==
    IF even_arrived
      THEN IF page # Damaged /\ page_Even = page
             THEN flag_CRC_test' = TRUE /\ data' = page
             ELSE flag_CRC_test' = FALSE /\ UNCHANGED data
      ELSE UNCHANGED <<flag_CRC_test, data>>

Publish == pub' = [count |-> pub.count + 1, page |-> data', prn |-> satellite]

(* Fault variant: the even half is not remembered.                         *)
EvenForgotten == even_arrived' = FALSE
EvenKept == even_arrived' = TRUE

SplitEven(page) ==
    /\ page_Even' = page
    /\ EvenKept
    /\ UNCHANGED <<flag_CRC_test, data, pub>>

(* Fault variants: the CRC is not looked at, or the counter never trips.   *)
CrcIgnored == TRUE
CrcOk == flag_CRC_test'

NeverTrips == errors + 1 > ErrorLimit + 1
SyncLost == errors + 1 > ErrorLimit

Supervise ==
    IF flag_CRC_test'
      THEN errors' = 0 /\ UNCHANGED d_stat
      ELSE /\ errors' = errors + 1
           /\ d_stat' = IF SyncLost THEN 0 ELSE d_stat

Decode(odd, page) ==
    /\ IF odd
         THEN /\ SplitOdd(page)
              /\ IF CrcOk THEN Publish ELSE UNCHANGED pub
              /\ even_arrived' = FALSE
              /\ UNCHANGED page_Even
         ELSE SplitEven(page)
    /\ Supervise

HalfReceived(odd, intact) ==
    /\ d_stat = 2
    /\ Passes
    /\ Decode(odd, IF intact THEN Page(satellite, sent.n) ELSE Damaged)
    /\ rx' = [n |-> sent.n, odd |-> sent.odd, intact |-> intact]
    /\ UNCHANGED <<satellite, since>>

IntactHalf == HalfReceived(sent.odd, TRUE)
DamagedHalf == HalfReceived(sent.odd, FALSE)
MisreadHalf == Misreads /\ HalfReceived(~sent.odd, FALSE)

-----------------------------------------------------------------------------
(* The channel is given a satellite, maybe the same: set_satellite and     *)
(* reset.  What is left of the last page stays.                            *)
Reassign(s) ==
    /\ Reassigns
    /\ satellite' = s
    /\ d_stat' = 0
    /\ rx' = NoHalf
    /\ UNCHANGED <<since, even_arrived, page_Even, flag_CRC_test, data, errors, sent, pub>>

(* The bound on the pages ends the behaviour.                              *)
Done == sent.n = MaxPages /\ UNCHANGED vars

Next ==
    \/ PreambleFound \/ PreambleMissed \/ PreambleConfirmed \/ PreambleLate
    \/ IntactHalf \/ DamagedHalf \/ MisreadHalf
    \/ \E s \in Sats : Reassign(s)
    \/ Done

Spec == Init /\ [][Next]_vars

-----------------------------------------------------------------------------
(* Properties.                                                             *)

Pages == [sat : Sats, n : 0 .. (MaxPages - 1)] \cup {Damaged}

(* Types; the counter of CRC errors never passes the limit while the       *)
(* decoder claims to be in sync.                                           *)
TypeOK ==
    /\ satellite \in Sats
    /\ d_stat \in 0 .. 2 /\ since \in 1 .. 2
    /\ even_arrived \in BOOLEAN /\ flag_CRC_test \in BOOLEAN
    /\ page_Even \in Pages /\ data \in Pages
    /\ errors \in 0 .. (ErrorLimit + 1)
    /\ d_stat = 2 => errors <= ErrorLimit
    /\ sent \in [n : 0 .. MaxPages, odd : BOOLEAN]
    /\ pub.count \in Nat /\ pub.page \in Pages

(* A page whose two halves arrive intact, one after the other, is          *)
(* published, whatever happened before.                                    *)
IntactPagesPublished ==
    [][/\ rx.intact /\ ~rx.odd
       /\ rx'.intact /\ rx'.odd /\ rx'.n = rx.n
       => pub' = [count |-> pub.count + 1, page |-> Page(satellite, rx.n), prn |-> satellite]]_vars

(* The decoder keeps the promise of PageStream: what it publishes is the   *)
(* page its satellite has just sent or the last page once more, however    *)
(* the halves before it were damaged or misread and whatever satellite it  *)
(* had before; nothing damaged and nothing older.                          *)
Stream == INSTANCE PageStream WITH on_air <- sent.n, Nothing <- Damaged

ImplementsPageStream == Stream!StreamSpec

(* What is published as a new message from a satellite is the page that    *)
(* satellite has just sent.                                                *)
PublishedIsNew ==
    [][pub'.count # pub.count => pub'.page = Page(satellite, sent.n)]_vars
=============================================================================
