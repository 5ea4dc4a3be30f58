------------------------- MODULE InavPages_proofs -------------------------
(* Proofs about InavPages, for every set of satellites, every limit of CRC *)
(* errors and every pattern of damage, misreading and reassignment.        *)
EXTENDS InavPages, TLAPS

(* The inductive invariant.  The two flags of Galileo_Inav_Message outlive *)
(* the page they are about, and even the satellite: what makes that        *)
(* harmless up to a repetition is that the data kept with a raised flag    *)
(* are always those that were published last.                              *)
LastPublished ==
    /\ pub.count \in Nat
    /\ flag_CRC_test => pub.count > 0
    /\ pub.count > 0 => data = pub.page

StreamInv ==
    /\ satellite \in Sats
    /\ sent \in [n : Nat, odd : BOOLEAN]
    /\ flag_CRC_test \in BOOLEAN
    /\ LastPublished

LEMMA StreamInvInit == Init => StreamInv
<1> SUFFICES ASSUME Init PROVE StreamInv
  OBVIOUS
<1>1. pub.count = 0
  BY DEF Init
<1>2. flag_CRC_test = FALSE /\ satellite \in Sats
  BY DEF Init
<1>3. sent \in [n : Nat, odd : BOOLEAN]
  BY DEF Init
<1>4. LastPublished
  BY <1>1, <1>2 DEF LastPublished
<1> QED
  BY <1>2, <1>3, <1>4 DEF StreamInv

(* The air: half a page at a time, and an odd half ends its page.          *)
LEMMA PassesAir ==
    ASSUME StreamInv, Passes
    PROVE  /\ sent' \in [n : Nat, odd : BOOLEAN]
           /\ sent'.n \in {sent.n, sent.n + 1}
           /\ sent.odd => sent'.n = sent.n + 1
BY DEF StreamInv, Passes

(* A step that leaves the message alone is a page missed.                  *)
LEMMA QuietStep ==
    ASSUME StreamInv, satellite' \in Sats, Passes \/ UNCHANGED sent,
           UNCHANGED <<flag_CRC_test, data, pub>>
    PROVE  StreamInv' /\ Stream!Missed
<1>1. sent' \in [n : Nat, odd : BOOLEAN] /\ sent'.n \in {sent.n, sent.n + 1}
  BY PassesAir DEF StreamInv
<1> QED
  BY <1>1 DEF StreamInv, LastPublished, Stream!Missed, Stream!TimePasses

(* A half page in sync: the page is new, or repeated, or nothing is        *)
(* published.  Only an odd half that is intact can complete a page.        *)
LEMMA HalfStep ==
    ASSUME StreamInv, NEW odd \in BOOLEAN, NEW intact \in BOOLEAN,
           HalfReceived(odd, intact), intact => odd = sent.odd
    PROVE  StreamInv' /\ Stream!StreamNext
<1> DEFINE page == IF intact THEN Page(satellite, sent.n) ELSE Damaged
<1>1. Passes /\ Decode(odd, page) /\ satellite' = satellite
  BY DEF HalfReceived
<1>2. /\ sent' \in [n : Nat, odd : BOOLEAN]
      /\ sent'.n \in {sent.n, sent.n + 1}
      /\ sent.odd => sent'.n = sent.n + 1
  BY <1>1, PassesAir
<1>3. CASE ~odd
  <2>1. UNCHANGED <<flag_CRC_test, data, pub>>
    BY <1>1, <1>3 DEF Decode, SplitEven
  <2>2. satellite' \in Sats
    BY <1>1 DEF StreamInv
  <2> QED
    BY <1>1, <2>1, <2>2, QuietStep DEF Stream!StreamNext
<1>4. CASE odd /\ even_arrived /\ page # Damaged /\ page_Even = page
  <2>1. /\ flag_CRC_test' = TRUE /\ data' = page
        /\ pub' = [count |-> pub.count + 1, page |-> page, prn |-> satellite]
    BY <1>1, <1>4 DEF Decode, SplitOdd, CrcOk, Publish
  <2>2. intact /\ page = [sat |-> satellite, n |-> sent.n] /\ sent'.n = sent.n + 1
    BY <1>2, <1>4 DEF Page
  <2>3. StreamInv'
    BY <1>1, <1>2, <2>1 DEF StreamInv, LastPublished
  <2>4. Stream!Delivered(satellite)
    BY <2>1, <2>2 DEF Stream!Delivered, Stream!Publication
  <2> QED
    BY <2>3, <2>4 DEF StreamInv, Stream!StreamNext
<1>5. CASE odd /\ even_arrived /\ ~(page # Damaged /\ page_Even = page)
  <2>1. flag_CRC_test' = FALSE /\ UNCHANGED <<data, pub>>
    BY <1>1, <1>5 DEF Decode, SplitOdd, CrcOk
  <2> QED
    BY <1>1, <1>2, <2>1
       DEF StreamInv, LastPublished, Stream!StreamNext, Stream!Missed, Stream!TimePasses
<1>6. CASE odd /\ ~even_arrived
  <2>1. UNCHANGED <<flag_CRC_test, data>>
    BY <1>1, <1>6 DEF Decode, SplitOdd
  <2>2. CASE ~flag_CRC_test
    <3>1. UNCHANGED pub /\ satellite' \in Sats
      BY <1>1, <1>6, <2>1, <2>2 DEF Decode, CrcOk, StreamInv
    <3> QED
      BY <1>1, <2>1, <3>1, QuietStep DEF Stream!StreamNext
  <2>3. CASE flag_CRC_test
    <3>1. pub' = [count |-> pub.count + 1, page |-> data, prn |-> satellite]
      BY <1>1, <1>6, <2>1, <2>3 DEF Decode, CrcOk, Publish
    <3>2. pub.count > 0 /\ data = pub.page
      BY <2>3 DEF StreamInv, LastPublished
    <3>3. StreamInv'
      BY <1>1, <1>2, <2>1, <3>1, <3>2 DEF StreamInv, LastPublished
    <3>4. Stream!Repeated(satellite)
      BY <1>2, <3>1, <3>2 DEF Stream!Repeated, Stream!Publication, Stream!TimePasses
    <3> QED
      BY <3>3, <3>4 DEF StreamInv, Stream!StreamNext
  <2> QED
    BY <2>2, <2>3
<1> QED
  BY <1>3, <1>4, <1>5, <1>6

LEMMA StreamStep ==
    ASSUME StreamInv, [Next]_vars
    PROVE  StreamInv' /\ [Stream!StreamNext]_(Stream!streamVars)
<1> USE DEF Stream!StreamNext
<1>1. CASE PreambleFound \/ PreambleMissed \/ PreambleConfirmed \/ PreambleLate
  <2>1. /\ satellite' \in Sats /\ (Passes \/ UNCHANGED sent)
        /\ UNCHANGED <<flag_CRC_test, data, pub>>
    BY <1>1 DEF StreamInv, PreambleFound, PreambleMissed, PreambleConfirmed, PreambleLate
  <2> QED
    BY <2>1, QuietStep
<1>2. CASE IntactHalf \/ DamagedHalf \/ MisreadHalf
  <2>1. PICK odd \in BOOLEAN, intact \in BOOLEAN :
          HalfReceived(odd, intact) /\ (intact => odd = sent.odd)
    BY <1>2 DEF StreamInv, IntactHalf, DamagedHalf, MisreadHalf
  <2> QED
    BY <2>1, HalfStep
<1>3. ASSUME NEW s \in Sats, Reassign(s)
      PROVE  StreamInv' /\ [Stream!StreamNext]_(Stream!streamVars)
  <2>1. satellite' \in Sats /\ UNCHANGED sent /\ UNCHANGED <<flag_CRC_test, data, pub>>
    BY <1>3 DEF Reassign
  <2> QED
    BY <2>1, QuietStep
<1>4. CASE UNCHANGED vars
  BY <1>4 DEF vars, decoderVars, StreamInv, LastPublished, Stream!streamVars
<1> QED
  BY <1>1, <1>2, <1>3, <1>4 DEF Next, Done

(* The telemetry decoder implements the page stream that the OSNMA         *)
(* processor relies on: a publication is the page just sent or the last    *)
(* page once more (ImplementsPageStream).                                  *)
THEOREM DecoderImplementsStream == Spec => ImplementsPageStream
<1>1. Init => Stream!StreamInit
  BY DEF Init, Stream!StreamInit
<1> QED
  BY <1>1, StreamInvInit, StreamStep, PTL
     DEF Spec, ImplementsPageStream, Stream!StreamSpec

-----------------------------------------------------------------------------
(* Types.                                                                  *)

(* TypeOK with the history of the halves, and what that history tells of   *)
(* the message: an even half that has just arrived intact is the one kept, *)
(* under the satellite the channel still has.                              *)
HalfTypes == rx \in [n : Int, odd : BOOLEAN, intact : BOOLEAN]

EvenRemembered ==
    rx.intact /\ ~rx.odd => /\ even_arrived /\ page_Even = Page(satellite, rx.n)
                            /\ rx.n \in Nat

PageInv == TypeOK /\ HalfTypes /\ EvenRemembered

LEMMA PageTypes ==
    ASSUME NEW s \in Sats, NEW n \in 0 .. (MaxPages - 1)
    PROVE  Page(s, n) \in Pages /\ Damaged \in Pages /\ Page(s, n) # Damaged
<1>1. Page(s, n) \in [sat : Sats, n : 0 .. (MaxPages - 1)]
  BY DEF Page
<1>2. Page(s, n).n = n /\ Damaged.n = -1 /\ n # -1
  BY DEF Page, Damaged
<1>3. Page(s, n) # Damaged
  BY <1>2
<1> QED
  BY <1>1, <1>3 DEF Pages

LEMMA PageInvInit == Init => PageInv
<1> SUFFICES ASSUME Init PROVE PageInv
  OBVIOUS
<1>1. /\ MaxPages \in Nat /\ MaxPages > 0 /\ ErrorLimit \in Nat
      /\ 0 \in 0 .. MaxPages /\ 0 \in 0 .. (ErrorLimit + 1)
  BY InavAssumption
<1>2. Damaged \in Pages /\ pub.count = 0 /\ pub.page = Damaged
  BY DEF Init, Pages
<1>3. sent \in [n : 0 .. MaxPages, odd : BOOLEAN]
  BY <1>1 DEF Init
<1>4. TypeOK
  <2>1. /\ satellite \in Sats
        /\ d_stat = 0 /\ since = 1 /\ errors = 0
        /\ even_arrived = FALSE /\ flag_CRC_test = FALSE
        /\ page_Even = Damaged /\ data = Damaged
    BY DEF Init
  <2>2. d_stat \in 0 .. 2 /\ since \in 1 .. 2 /\ errors \in 0 .. (ErrorLimit + 1) /\ d_stat # 2
    BY <1>1, <2>1
  <2>3. pub.count \in Nat /\ pub.page \in Pages /\ page_Even \in Pages /\ data \in Pages
    BY <1>2, <2>1
  <2>4. even_arrived \in BOOLEAN /\ flag_CRC_test \in BOOLEAN
    BY <2>1
  <2> QED
    BY <1>3, <2>1, <2>2, <2>3, <2>4, Zenon DEF TypeOK
<1>5. rx \in [n : Int, odd : BOOLEAN, intact : BOOLEAN] /\ rx.intact = FALSE
  BY DEF Init, NoHalf
<1> QED
  BY <1>4, <1>5 DEF PageInv, HalfTypes, EvenRemembered

LEMMA PassesTypes ==
    ASSUME TypeOK, Passes
    PROVE  /\ sent' \in [n : 0 .. MaxPages, odd : BOOLEAN]
           /\ sent.n \in 0 .. (MaxPages - 1)
           /\ sent.odd \in BOOLEAN
<1>1. MaxPages \in Nat
  BY InavAssumption
<1>2. sent.n \in 0 .. MaxPages /\ sent.odd \in BOOLEAN
  BY DEF TypeOK
<1>3. sent.n < MaxPages
  BY DEF Passes
<1>4. sent.n \in 0 .. (MaxPages - 1) /\ sent.n + 1 \in 0 .. MaxPages
  BY <1>1, <1>2, <1>3
<1> QED
  BY <1>1, <1>2, <1>4 DEF Passes

LEMMA NoHalfTypes == NoHalf \in [n : Int, odd : BOOLEAN, intact : BOOLEAN] /\ ~NoHalf.intact
BY DEF NoHalf

(* Looking for preambles touches neither the message nor the counter,      *)
(* except to clear it.                                                     *)
LEMMA PreambleTypes ==
    ASSUME PageInv, PreambleFound \/ PreambleMissed \/ PreambleConfirmed \/ PreambleLate
    PROVE  PageInv'
<1>1. /\ sent' \in [n : 0 .. MaxPages, odd : BOOLEAN]
  BY PassesTypes
     DEF PageInv, TypeOK, PreambleFound, PreambleMissed, PreambleConfirmed, PreambleLate
<1>2. d_stat' \in 0 .. 2 /\ since' \in 1 .. 2
  BY DEF PageInv, TypeOK, PreambleFound, PreambleMissed, PreambleConfirmed, PreambleLate
<1>3. errors' \in 0 .. (ErrorLimit + 1) /\ (d_stat' = 2 => errors' <= ErrorLimit)
  BY InavAssumption
     DEF PageInv, TypeOK, PreambleFound, PreambleMissed, PreambleConfirmed, PreambleLate
<1>4. UNCHANGED <<satellite, even_arrived, page_Even, flag_CRC_test, data, pub>>
  BY DEF PreambleFound, PreambleMissed, PreambleConfirmed, PreambleLate
<1>5. TypeOK'
  BY <1>1, <1>2, <1>3, <1>4 DEF PageInv, TypeOK
<1>6. rx' = NoHalf \/ rx' = rx
  BY DEF PreambleFound, PreambleMissed, PreambleConfirmed, PreambleLate
<1>7. HalfTypes'
  BY <1>6, NoHalfTypes DEF PageInv, HalfTypes
<1>8. EvenRemembered'
  BY <1>4, <1>6, NoHalfTypes DEF PageInv, EvenRemembered
<1> QED
  BY <1>5, <1>7, <1>8 DEF PageInv

LEMMA HalfTypesKept ==
    ASSUME PageInv, NEW odd \in BOOLEAN, NEW intact \in BOOLEAN,
           HalfReceived(odd, intact), intact => odd = sent.odd
    PROVE  PageInv'
<1> DEFINE page == IF intact THEN Page(satellite, sent.n) ELSE Damaged
<1>1. /\ d_stat = 2 /\ Passes /\ Decode(odd, page) /\ UNCHANGED <<satellite, since>>
      /\ rx' = [n |-> sent.n, odd |-> sent.odd, intact |-> intact]
  BY DEF HalfReceived
<1>2. /\ sent' \in [n : 0 .. MaxPages, odd : BOOLEAN]
      /\ sent.n \in 0 .. (MaxPages - 1) /\ sent.odd \in BOOLEAN
  BY <1>1, PassesTypes DEF PageInv
<1>3. page \in Pages
  BY <1>2, PageTypes DEF PageInv, TypeOK
<1> HIDE DEF page
<1>4. CASE odd
  <2>1. SplitOdd(page) /\ even_arrived' = FALSE /\ UNCHANGED page_Even
    BY <1>1, <1>4 DEF Decode
  <2>2. flag_CRC_test' \in BOOLEAN /\ data' \in Pages
    BY <1>3, <2>1 DEF SplitOdd, PageInv, TypeOK
  <2>3. pub' = [count |-> pub.count + 1, page |-> data', prn |-> satellite] \/ pub' = pub
    BY <1>1, <1>4 DEF Decode, Publish
  <2>4. pub'.count \in Nat /\ pub'.page \in Pages
    BY <2>2, <2>3 DEF PageInv, TypeOK
  <2>5. page_Even' \in Pages /\ even_arrived' \in BOOLEAN
    BY <2>1 DEF PageInv, TypeOK
  <2> QED
    <3>1. Supervise
      BY <1>1 DEF Decode
    <3>2. /\ d_stat' \in 0 .. 2 /\ errors' \in 0 .. (ErrorLimit + 1)
          /\ d_stat' = 2 => errors' <= ErrorLimit
      BY <1>1, <3>1, InavAssumption DEF Supervise, SyncLost, PageInv, TypeOK
    <3>3. TypeOK'
      BY <1>1, <1>2, <2>2, <2>4, <2>5, <3>2 DEF PageInv, TypeOK
    <3>4. HalfTypes'
      BY <1>1, <1>2 DEF HalfTypes
    <3>5. rx'.intact = intact /\ rx'.odd = sent.odd
      BY <1>1
    <3>6. EvenRemembered'
      BY <1>4, <3>5 DEF EvenRemembered
    <3> QED
      BY <3>3, <3>4, <3>6 DEF PageInv
<1>5. CASE ~odd
  <2>1. /\ page_Even' = page /\ even_arrived' = TRUE
        /\ UNCHANGED <<flag_CRC_test, data, pub>> /\ Supervise
    BY <1>1, <1>5 DEF Decode, SplitEven, EvenKept
  <2>2. /\ d_stat' \in 0 .. 2 /\ errors' \in 0 .. (ErrorLimit + 1)
        /\ d_stat' = 2 => errors' <= ErrorLimit
    BY <1>1, <2>1, InavAssumption DEF Supervise, SyncLost, PageInv, TypeOK
  <2>3. TypeOK'
    BY <1>1, <1>2, <1>3, <2>1, <2>2 DEF PageInv, TypeOK
  <2>4. HalfTypes'
    BY <1>1, <1>2 DEF HalfTypes
  <2>5. rx'.intact = intact /\ rx'.n = sent.n /\ sent.n \in Nat
    BY <1>1, <1>2
  <2>6. EvenRemembered'
    BY <1>1, <2>1, <2>5 DEF EvenRemembered, page, Page
  <2> QED
    BY <2>3, <2>4, <2>6 DEF PageInv
<1> QED
  BY <1>4, <1>5

(* Whatever half it is, a decoded half is damaged or read with its parity. *)
LEMMA SomeHalf ==
    ASSUME TypeOK, IntactHalf \/ DamagedHalf \/ MisreadHalf
    PROVE  \E odd, intact \in BOOLEAN :
             HalfReceived(odd, intact) /\ (intact => odd = sent.odd)
BY DEF TypeOK, IntactHalf, DamagedHalf, MisreadHalf

LEMMA PageInvStep == PageInv /\ [Next]_vars => PageInv'
<1> SUFFICES ASSUME PageInv, [Next]_vars PROVE PageInv'
  OBVIOUS
<1>1. CASE PreambleFound \/ PreambleMissed \/ PreambleConfirmed \/ PreambleLate
  BY <1>1, PreambleTypes
<1>2. CASE IntactHalf \/ DamagedHalf \/ MisreadHalf
  BY <1>2, SomeHalf, HalfTypesKept DEF PageInv
<1>3. ASSUME NEW s \in Sats, Reassign(s) PROVE PageInv'
  <2>1. /\ satellite' = s /\ d_stat' = 0 /\ rx' = NoHalf
        /\ UNCHANGED <<since, even_arrived, page_Even, flag_CRC_test, data, errors, sent, pub>>
    BY <1>3 DEF Reassign
  <2>2. TypeOK'
    BY <2>1 DEF PageInv, TypeOK
  <2> QED
    BY <2>1, <2>2, NoHalfTypes DEF PageInv, HalfTypes, EvenRemembered
<1>4. CASE UNCHANGED vars
  BY <1>4 DEF vars, decoderVars, PageInv, TypeOK, HalfTypes, EvenRemembered
<1> QED
  BY <1>1, <1>2, <1>3, <1>4 DEF Next, Done

(* The types of the decoder (TypeOK); the CRC error counter never passes   *)
(* its limit while the decoder claims to be in sync, although an even half *)
(* is judged by the flag the last odd one left.                            *)
THEOREM DecoderTypes == Spec => []TypeOK
<1>1. PageInv => TypeOK
  BY DEF PageInv
<1> QED
  BY <1>1, PageInvInit, PageInvStep, PTL DEF Spec

(* Both halves intact, one after the other: the page is published with its *)
(* own content and PRN, whatever the flags were before                     *)
(* (IntactPagesPublished).                                                 *)
LEMMA WholePage ==
    ASSUME PageInv, [Next]_vars,
           rx.intact, ~rx.odd, rx'.intact, rx'.odd, rx'.n = rx.n
    PROVE  pub' = [count |-> pub.count + 1, page |-> Page(satellite, rx.n), prn |-> satellite]
<1>1. rx' # rx /\ rx' # NoHalf
  BY NoHalfTypes
<1>2. IntactHalf \/ DamagedHalf \/ MisreadHalf
  BY <1>1 DEF Next, Done, vars, PreambleFound, PreambleMissed, PreambleConfirmed,
              PreambleLate, Reassign
<1>3. PICK odd \in BOOLEAN, intact \in BOOLEAN :
        HalfReceived(odd, intact) /\ (intact => odd = sent.odd)
  BY <1>2, SomeHalf DEF PageInv
<1>4. rx' = [n |-> sent.n, odd |-> sent.odd, intact |-> intact]
  BY <1>3 DEF HalfReceived
<1>5. intact /\ sent.odd /\ sent.n = rx.n
  BY <1>4
<1>6. Decode(TRUE, Page(satellite, rx.n)) /\ Passes
  BY <1>3, <1>5 DEF HalfReceived
<1>7. even_arrived /\ page_Even = Page(satellite, rx.n)
  BY DEF PageInv, EvenRemembered
<1>8. Page(satellite, rx.n) # Damaged
  BY <1>5, <1>6, PassesTypes, PageTypes DEF PageInv, TypeOK
<1> QED
  BY <1>6, <1>7, <1>8 DEF Decode, SplitOdd, CrcOk, Publish

(* A page that arrives whole is always published (IntactPagesPublished):   *)
(* no flag left behind by an earlier page, a misread half or another       *)
(* satellite can suppress or replace it.                                   *)
THEOREM WholePagesPublished == Spec => IntactPagesPublished
<1> DEFINE Published ==
      /\ rx.intact /\ ~rx.odd
      /\ rx'.intact /\ rx'.odd /\ rx'.n = rx.n
      => pub' = [count |-> pub.count + 1, page |-> Page(satellite, rx.n), prn |-> satellite]
<1>1. PageInv /\ [Next]_vars => Published
  BY WholePage
<1> QED
  BY <1>1, PageInvInit, PageInvStep, PTL DEF Spec, IntactPagesPublished
=============================================================================
