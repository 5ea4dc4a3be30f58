--------------------------- MODULE TrackingLoop ---------------------------
(***************************************************************************)
(* The tracking block of a channel (dll_pll_veml_tracking) and the watch   *)
(* that the telemetry decoder keeps on it (galileo_telemetry_decoder_gs).  *)
(* A tracked satellite is given up when its carrier or code lock fails too *)
(* often, when it is not synchronised in time, and when the decoder finds  *)
(* no valid frame in its symbols for too long.  The decoder says so once,  *)
(* in a message to the tracking block; the tracking block reports the loss *)
(* in a message to the state machine of the channel, which is reduced here *)
(* to what starts and stops the block.                                     *)
(*                                                                         *)
(* The scheduler runs each block in a thread of its own, and the messages  *)
(* and the symbols in between take any time.  The quality of the signal is *)
(* left open.  Time is counted in calls of general_work, and symbols are   *)
(* those of Galileo E1.                                                    *)
(*                                                                         *)
(* Fault variants, as elsewhere, are used by no specification.             *)
(***************************************************************************)
EXTENDS Integers, Sequences

CONSTANTS
    Cn0Samples,   \* cn0_samples: calls without a verdict on the lock
    MaxFail,      \* max_carrier_lock_fail and max_code_lock_fail
    PullIn,       \* pull_in_time_s
    SyncLimit,    \* bit_synchronization_time_limit_s
    Extend,       \* extend_correlation_symbols; more than 1 extends the integration
    MaxSilent,    \* d_max_symbols_without_valid_frame
    MaxSymbols,   \* bound: symbols that fit between the two blocks
    MaxMessages   \* bound: messages of each kind on their way when a channel starts

ASSUME TrackingAssumption ==
    /\ {Cn0Samples, MaxFail, PullIn, SyncLimit, MaxSilent} \subseteq Nat
    /\ PullIn < SyncLimit
    /\ {Extend, MaxSymbols, MaxMessages} \subseteq Nat \ {0}

(* The value that forces a loss of lock: far above the limit.              *)
Forced == MaxFail + 2

VARIABLES
    d_state,     \* 0 standby, 1 pull-in, 2 wide, 3 coherent integration, 4 narrow
    pull_in,     \* d_pull_in_transitory
    age,         \* time since the acquisition, up to SyncLimit + 1
    filled,      \* d_cn0_estimation_counter, up to Cn0Samples
    carrier,     \* d_carrier_lock_fail_counter
    code,        \* d_code_lock_fail_counter
    extended,    \* d_extend_correlation_symbols_count
    symbols,     \* items on the way to the telemetry decoder
    silent,      \* d_symbol_counter - d_last_valid_preamble, up to MaxSilent + 1
    sent,        \* d_sent_tlm_failed_msg
    speaks,      \* the satellite of the channel sends valid frames
    faults,      \* messages of the decoder on their way to the tracking block
    losses,      \* messages of the tracking block on their way to the channel
    fsm          \* state_ of the ChannelFsm; 0 stands for 3, waiting for a satellite, too

trackingVars == <<d_state, pull_in, age, filled, carrier, code, extended>>
telemetryVars == <<silent, sent, speaks>>
vars == <<trackingVars, telemetryVars, symbols, faults, losses, fsm>>

Init ==
    /\ d_state = 0
    /\ pull_in = TRUE
    /\ age = 0
    /\ filled = 0
    /\ carrier = 0 /\ code = 0
    /\ extended = 0
    /\ symbols = 0
    /\ silent = 0 /\ sent = FALSE /\ speaks \in BOOLEAN
    /\ faults = 0
    /\ losses = 0
    /\ fsm = 0

-----------------------------------------------------------------------------
(* dll_pll_veml_tracking::general_work, under d_setlock.                   *)

Capped(n, limit) == IF n < limit THEN n + 1 ELSE limit

(* The end of the pull-in clears both counters.                            *)
PullInEnds == pull_in /\ PullIn < age
CarrierNow == IF PullInEnds THEN 0 ELSE carrier
CodeNow == IF PullInEnds THEN 0 ELSE code

WorkCalled ==
    /\ pull_in' = (pull_in /\ ~PullInEnds)
    /\ age' = Capped(age, SyncLimit + 1)
    /\ UNCHANGED <<telemetryVars, faults, fsm>>

WorkStandsBy ==
    /\ d_state = 0
    /\ WorkCalled
    /\ carrier' = CarrierNow /\ code' = CodeNow
    /\ UNCHANGED <<d_state, filled, extended, symbols, losses>>

(* The first samples are skipped to align the local replica.               *)
WorkPullsIn ==
    /\ d_state = 1
    /\ WorkCalled
    /\ d_state' = 2
    /\ carrier' = CarrierNow /\ code' = CodeNow
    /\ UNCHANGED <<filled, extended, symbols, losses>>

(* A counter of failures after one more test.                              *)
CountedUnguarded(n, good) == IF pull_in' THEN n ELSE IF good THEN n - 1 ELSE n + 1

Counted(n, good) ==
    CASE pull_in' -> n
      [] ~pull_in' /\ ~good -> n + 1
      [] ~pull_in' /\ good -> IF n > 0 THEN n - 1 ELSE 0

(* cn0_and_tracking_lock_status from a given value of the carrier counter: *)
(* no verdict before the buffer is full; the limits hold in the pull-in    *)
(* too.                                                                    *)
LockKept(from, good_carrier, good_code) ==
    IF filled < Cn0Samples
      THEN /\ filled' = filled + 1
           /\ carrier' = from /\ code' = CodeNow
      ELSE /\ filled' = filled
           /\ carrier' = Counted(from, good_carrier)
           /\ code' = Counted(CodeNow, good_code)
           /\ carrier' <= MaxFail /\ code' <= MaxFail

LockLost(from, good_carrier, good_code) ==
    /\ filled >= Cn0Samples
    /\ \/ Counted(from, good_carrier) > MaxFail
       \/ Counted(CodeNow, good_code) > MaxFail
    /\ filled' = filled
    /\ carrier' = 0 /\ code' = 0

(* The loss is reported, and an item without a valid symbol goes on to the *)
(* telemetry decoder.  Fault variant: nobody is told.                      *)
LossUnreported ==
    /\ d_state' = 0
    /\ symbols < MaxSymbols /\ symbols' = symbols + 1
    /\ UNCHANGED <<losses, extended>>

LossReported ==
    /\ d_state' = 0
    /\ losses' = losses + 1
    /\ symbols < MaxSymbols /\ symbols' = symbols + 1
    /\ UNCHANGED extended

(* Fault variant: the time limit of the synchronisation is not enforced.   *)
NoTimeLimit == CarrierNow

CarrierInTime == IF SyncLimit < age THEN Forced ELSE CarrierNow

(* Wide tracking.  Once the pull-in is over, the secondary code or the     *)
(* bits may be found synchronised.                                         *)
WorkWide ==
    /\ d_state = 2
    /\ WorkCalled
    /\ \E good_carrier, good_code \in BOOLEAN :
         \/ /\ LockLost(CarrierInTime, good_carrier, good_code)
            /\ LossReported
         \/ /\ LockKept(CarrierInTime, good_carrier, good_code)
            /\ \/ d_state' = 2 /\ extended' = extended
               \/ ~pull_in' /\ d_state' = (IF Extend > 1 THEN 3 ELSE 4) /\ extended' = 0
            /\ UNCHANGED <<symbols, losses>>

(* Symbols leave in the next two states, when the scheduler has room.  A   *)
(* call ends a symbol, as on Galileo E1, where it is one code period long. *)
SymbolSent == symbols < MaxSymbols /\ symbols' = symbols + 1

WorkIntegrates ==
    /\ d_state = 3
    /\ WorkCalled
    /\ SymbolSent
    /\ IF extended + 1 = Extend - 1
         THEN d_state' = 4 /\ extended' = 0
         ELSE d_state' = 3 /\ extended' = extended + 1
    /\ carrier' = CarrierNow /\ code' = CodeNow
    /\ UNCHANGED <<filled, losses>>

WorkNarrow ==
    /\ d_state = 4
    /\ WorkCalled
    /\ \E good_carrier, good_code \in BOOLEAN :
         \/ /\ LockLost(CarrierNow, good_carrier, good_code)
            /\ LossReported
         \/ /\ LockKept(CarrierNow, good_carrier, good_code)
            /\ SymbolSent
            /\ d_state' = (IF Extend > 1 THEN 3 ELSE 4)
            /\ UNCHANGED <<extended, losses>>

Work == WorkStandsBy \/ WorkPullsIn \/ WorkWide \/ WorkIntegrates \/ WorkNarrow

(* msg_handler_telemetry_to_trk.                                           *)
FaultReceived ==
    /\ faults > 0
    /\ faults' = faults - 1
    /\ carrier' = Forced
    /\ UNCHANGED <<d_state, pull_in, age, filled, code, extended, telemetryVars,
                   symbols, losses, fsm>>

-----------------------------------------------------------------------------
(* galileo_telemetry_decoder_gs::general_work: one symbol.                 *)

TelemetryWork ==
    /\ symbols > 0
    /\ symbols' = symbols - 1
    /\ IF ~sent /\ Capped(silent, MaxSilent + 1) > MaxSilent
         THEN sent' = TRUE /\ faults' = faults + 1
         ELSE UNCHANGED <<sent, faults>>
    /\ \/ silent' = Capped(silent, MaxSilent + 1)
       \/ speaks /\ silent' = 0
    /\ UNCHANGED <<trackingVars, speaks, losses, fsm>>

-----------------------------------------------------------------------------
(* The channel.                                                            *)

(* Fault variant: the watch is not armed again.                            *)
WatchNotArmed == silent' = 0 /\ UNCHANGED sent

(* set_satellite and reset of the decoder.                                 *)
WatchArmed == silent' = 0 /\ sent' = FALSE

AcquisitionStarts ==
    /\ fsm = 0
    /\ faults < MaxMessages /\ losses < MaxMessages
    /\ fsm' = 1
    /\ speaks' \in BOOLEAN
    /\ WatchArmed
    /\ UNCHANGED <<trackingVars, symbols, faults, losses>>

(* A channel that repeats a failed acquisition starts again at once.       *)
AcquisitionFails ==
    /\ fsm = 1
    /\ fsm' = 0
    /\ UNCHANGED <<trackingVars, telemetryVars, symbols, faults, losses>>

(* Event_valid_acquisition and dll_pll_veml_tracking::start_tracking; the  *)
(* acquisition may have taken any time.                                    *)
TrackingStarts ==
    /\ fsm = 1
    /\ fsm' = 2
    /\ carrier' = 0 /\ code' = 0
    /\ filled' = 0
    /\ age' \in 0 .. (SyncLimit + 1)
    /\ d_state' = 1
    /\ pull_in' = TRUE
    /\ UNCHANGED <<extended, telemetryVars, symbols, faults, losses>>

(* Event_failed_tracking_standby.                                          *)
LossReceived ==
    /\ losses > 0
    /\ losses' = losses - 1
    /\ fsm' = IF fsm = 2 THEN 0 ELSE fsm
    /\ UNCHANGED <<trackingVars, telemetryVars, symbols, faults>>

(* Event_stop_channel.                                                     *)
ChannelStops ==
    /\ fsm \in {1, 2}
    /\ fsm' = 0
    /\ d_state' = IF fsm = 2 THEN 0 ELSE d_state
    /\ UNCHANGED <<pull_in, age, filled, carrier, code, extended, telemetryVars,
                   symbols, faults, losses>>

Channel == AcquisitionStarts \/ AcquisitionFails \/ TrackingStarts \/ ChannelStops

Next == Work \/ FaultReceived \/ TelemetryWork \/ LossReceived \/ Channel

Spec == Init /\ [][Next]_vars

(* Samples keep coming and every thread is scheduled.  Nothing obliges the *)
(* channel to be started or stopped.                                       *)
FairSpec ==
    /\ Spec
    /\ WF_vars(Work) /\ WF_vars(TelemetryWork)
    /\ WF_vars(FaultReceived) /\ WF_vars(LossReceived)

-----------------------------------------------------------------------------
(* Properties.                                                             *)

(* Types; the counters of failures never go below zero, and the counter of *)
(* the extended integration, tested for equality, stays below its end.     *)
TypeOK ==
    /\ d_state \in 0 .. 4
    /\ {pull_in, sent, speaks} \subseteq BOOLEAN
    /\ age \in 0 .. (SyncLimit + 1)
    /\ filled \in 0 .. Cn0Samples
    /\ carrier \in 0 .. Forced /\ code \in 0 .. MaxFail
    /\ extended \in 0 .. Extend /\ (Extend > 1 => extended < Extend - 1)
    /\ symbols \in 0 .. MaxSymbols
    /\ silent \in 0 .. (MaxSilent + 1)
    /\ faults \in Nat /\ losses \in Nat
    /\ fsm \in 0 .. 2

(* A channel never believes to be tracking while its tracking block stands *)
(* by and nobody will tell: the block runs, or its report of the loss is   *)
(* on the way, whatever was stopped, restarted or delayed before.          *)
NoSilentLoss == fsm = 2 => d_state # 0 \/ losses > 0

(* A satellite that sends no valid frame is given up, although the decoder *)
(* complains only once and the end of the pull-in forgets complaints: when *)
(* its tracking starts, the symbols counted against it and those still on  *)
(* their way must be too few for a complaint.  They can be too many: a     *)
(* late report of a loss leaves the block running through the next search, *)
(* and then the only complaint is made, and forgotten, in the pull-in.     *)
SilentSatelliteDropped ==
    (fsm = 2 /\ d_state = 1 /\ ~speaks /\ silent + symbols <= MaxSilent) ~> fsm # 2

(* Wide tracking ends: in synchronisation, in a loss of lock or because    *)
(* the channel is stopped.  This is what the time limit of the             *)
(* synchronisation is for.                                                 *)
WideTrackingEnds == d_state = 2 ~> d_state # 2
=============================================================================
