----------------------- MODULE TrackingLoop_proofs -----------------------
(* Proofs about TrackingLoop, for every length of the buffers and every    *)
(* limit, and whatever the messages between the blocks are delayed.        *)
EXTENDS TrackingLoop, TLAPS

(* The inductive invariant: the types of the counters, the extended        *)
(* integration entered only when there is one, and NoSilentLoss.           *)
Counters ==
    /\ age \in 0 .. (SyncLimit + 1)
    /\ filled \in 0 .. Cn0Samples
    /\ carrier \in 0 .. Forced
    /\ code \in 0 .. MaxFail
    /\ symbols \in 0 .. MaxSymbols
    /\ silent \in 0 .. (MaxSilent + 1)
    /\ faults \in Nat /\ losses \in Nat

Flags == pull_in \in BOOLEAN /\ sent \in BOOLEAN /\ speaks \in BOOLEAN

Integration ==
    /\ extended \in 0 .. Extend
    /\ Extend > 1 => extended < Extend - 1
    /\ d_state = 3 => Extend > 1

States == d_state \in 0 .. 4 /\ fsm \in 0 .. 2

LossInv == States /\ Flags /\ Counters /\ Integration /\ NoSilentLoss

LEMMA LossInvInit == Init => LossInv
<1> SUFFICES ASSUME Init PROVE LossInv
  OBVIOUS
<1>1. States /\ NoSilentLoss
  BY DEF Init, States, NoSilentLoss
<1>2. Flags
  BY DEF Init, Flags
<1>3. Counters
  BY TrackingAssumption DEF Init, Counters, Forced
<1>4. Integration
  BY TrackingAssumption DEF Init, Integration
<1> QED
  BY <1>1, <1>2, <1>3, <1>4 DEF LossInv

LEMMA CappedType ==
    ASSUME NEW limit \in Nat, NEW n \in 0 .. limit PROVE Capped(n, limit) \in 0 .. limit
BY DEF Capped

(* What every call of general_work keeps.                                  *)
LEMMA CallKeeps ==
    ASSUME LossInv, WorkCalled
    PROVE  /\ Flags'
           /\ age' \in 0 .. (SyncLimit + 1)
           /\ silent' \in 0 .. (MaxSilent + 1) /\ faults' \in Nat
           /\ fsm' = fsm /\ fsm' \in 0 .. 2
           /\ CarrierNow \in 0 .. Forced /\ CodeNow \in 0 .. MaxFail
<1>1. age' \in 0 .. (SyncLimit + 1)
  BY TrackingAssumption, CappedType DEF LossInv, Counters, WorkCalled
<1>2. Flags'
  BY DEF LossInv, Flags, WorkCalled, telemetryVars
<1>3. CarrierNow \in 0 .. Forced /\ CodeNow \in 0 .. MaxFail
  BY TrackingAssumption DEF LossInv, Counters, CarrierNow, CodeNow, Forced
<1> QED
  BY <1>1, <1>2, <1>3 DEF LossInv, Counters, States, WorkCalled, telemetryVars

(* A lock that is kept leaves the counters within their limits.            *)
LEMMA LockKeptTypes ==
    ASSUME LossInv, WorkCalled, NEW from \in 0 .. Forced,
           NEW gc \in BOOLEAN, NEW gd \in BOOLEAN, LockKept(from, gc, gd)
    PROVE  filled' \in 0 .. Cn0Samples /\ carrier' \in 0 .. Forced /\ code' \in 0 .. MaxFail
<1>1. CodeNow \in 0 .. MaxFail /\ Forced = MaxFail + 2 /\ MaxFail \in Nat /\ pull_in' \in BOOLEAN
  BY CallKeeps, TrackingAssumption DEF Forced, Flags
<1>2. filled \in 0 .. Cn0Samples /\ Cn0Samples \in Nat
  BY TrackingAssumption DEF LossInv, Counters
<1>3. CASE filled < Cn0Samples
  BY <1>1, <1>2, <1>3 DEF LockKept
<1>4. CASE ~(filled < Cn0Samples)
  <2>1. Counted(from, gc) \in Nat
    BY <1>1 DEF Counted
  <2>2. Counted(CodeNow, gd) \in Nat
    BY <1>1 DEF Counted
  <2> QED
    BY <1>1, <1>2, <1>4, <2>1, <2>2 DEF LockKept
<1> QED
  BY <1>3, <1>4

(* A loss is always reported.                                              *)
LEMMA LossStep ==
    ASSUME LossInv, WorkCalled, NEW from, NEW gc, NEW gd,
           LockLost(from, gc, gd), LossReported
    PROVE  LossInv'
<1>1. States' /\ NoSilentLoss'
  BY CallKeeps DEF LossInv, Counters, States, LossReported, NoSilentLoss
<1>2. Counters'
  BY CallKeeps, TrackingAssumption DEF LossInv, Counters, LossReported, LockLost, Forced
<1>3. Integration'
  BY DEF LossInv, Integration, LossReported
<1> QED
  BY <1>1, <1>2, <1>3, CallKeeps DEF LossInv

LEMMA WorkKeeps == ASSUME LossInv, Work PROVE LossInv'
<1>1. WorkCalled
  BY DEF Work, WorkStandsBy, WorkPullsIn, WorkWide, WorkIntegrates, WorkNarrow
<1>2. /\ Flags' /\ age' \in 0 .. (SyncLimit + 1)
      /\ silent' \in 0 .. (MaxSilent + 1) /\ faults' \in Nat
      /\ fsm' = fsm /\ fsm' \in 0 .. 2
      /\ CarrierNow \in 0 .. Forced /\ CodeNow \in 0 .. MaxFail
  BY <1>1, CallKeeps
<1>3. CASE WorkStandsBy
  BY <1>2, <1>3 DEF WorkStandsBy, LossInv, States, Counters, Integration, NoSilentLoss
<1>4. CASE WorkPullsIn
  BY <1>2, <1>4 DEF WorkPullsIn, LossInv, States, Counters, Integration, NoSilentLoss
<1>5. CASE WorkWide
  <2>1. PICK gc \in BOOLEAN, gd \in BOOLEAN :
          \/ LockLost(CarrierInTime, gc, gd) /\ LossReported
          \/ /\ LockKept(CarrierInTime, gc, gd)
             /\ \/ d_state' = 2 /\ extended' = extended
                \/ d_state' = (IF Extend > 1 THEN 3 ELSE 4) /\ extended' = 0
             /\ UNCHANGED <<symbols, losses>>
    BY <1>5 DEF WorkWide
  <2>2. CarrierInTime \in 0 .. Forced
    BY <1>2, TrackingAssumption DEF CarrierInTime, Forced
  <2>3. CASE LockLost(CarrierInTime, gc, gd) /\ LossReported
    BY <1>1, <2>3, LossStep
  <2>4. CASE /\ LockKept(CarrierInTime, gc, gd)
             /\ \/ d_state' = 2 /\ extended' = extended
                \/ d_state' = (IF Extend > 1 THEN 3 ELSE 4) /\ extended' = 0
             /\ UNCHANGED <<symbols, losses>>
    <3>1. filled' \in 0 .. Cn0Samples /\ carrier' \in 0 .. Forced /\ code' \in 0 .. MaxFail
      BY <1>1, <2>2, <2>4, LockKeptTypes
    <3>2. Counters'
      BY <1>2, <2>4, <3>1 DEF LossInv, Counters
    <3>3. States' /\ NoSilentLoss'
      BY <1>2, <2>4 DEF States, NoSilentLoss
    <3>4. Integration'
      BY <2>4, TrackingAssumption DEF LossInv, Integration
    <3> QED
      BY <1>2, <3>2, <3>3, <3>4 DEF LossInv
  <2> QED
    BY <2>1, <2>3, <2>4
<1>6. CASE WorkIntegrates
  <2>1. /\ d_state = 3 /\ symbols < MaxSymbols /\ symbols' = symbols + 1
        /\ IF extended + 1 = Extend - 1
             THEN d_state' = 4 /\ extended' = 0
             ELSE d_state' = 3 /\ extended' = extended + 1
        /\ carrier' = CarrierNow /\ code' = CodeNow /\ UNCHANGED <<filled, losses>>
    BY <1>6 DEF WorkIntegrates, SymbolSent
  <2>2. Counters'
    BY <1>2, <2>1, TrackingAssumption DEF LossInv, Counters
  <2>3. States' /\ NoSilentLoss'
    BY <1>2, <2>1 DEF States, NoSilentLoss
  <2>4. Integration'
    BY <2>1, TrackingAssumption DEF LossInv, Integration
  <2> QED
    BY <1>2, <2>2, <2>3, <2>4 DEF LossInv
<1>7. CASE WorkNarrow
  <2>1. PICK gc \in BOOLEAN, gd \in BOOLEAN :
          \/ LockLost(CarrierNow, gc, gd) /\ LossReported
          \/ /\ LockKept(CarrierNow, gc, gd)
             /\ SymbolSent
             /\ d_state' = (IF Extend > 1 THEN 3 ELSE 4)
             /\ UNCHANGED <<extended, losses>>
    BY <1>7 DEF WorkNarrow
  <2>2. CASE LockLost(CarrierNow, gc, gd) /\ LossReported
    BY <1>1, <2>2, LossStep
  <2>3. CASE /\ LockKept(CarrierNow, gc, gd)
             /\ SymbolSent
             /\ d_state' = (IF Extend > 1 THEN 3 ELSE 4)
             /\ UNCHANGED <<extended, losses>>
    <3>1. filled' \in 0 .. Cn0Samples /\ carrier' \in 0 .. Forced /\ code' \in 0 .. MaxFail
      BY <1>1, <1>2, <2>3, LockKeptTypes
    <3>2. Counters'
      BY <1>2, <2>3, <3>1, TrackingAssumption DEF LossInv, Counters, SymbolSent
    <3>3. States' /\ NoSilentLoss'
      BY <1>2, <2>3 DEF States, NoSilentLoss
    <3>4. Integration'
      BY <2>3, TrackingAssumption DEF LossInv, Integration
    <3> QED
      BY <1>2, <3>2, <3>3, <3>4 DEF LossInv
  <2> QED
    BY <2>1, <2>2, <2>3
<1> QED
  BY <1>3, <1>4, <1>5, <1>6, <1>7 DEF Work

(* The messages, the decoder and the channel.                              *)
LEMMA OthersKeep ==
    ASSUME LossInv, FaultReceived \/ TelemetryWork \/ LossReceived \/ Channel
    PROVE  LossInv'
<1> USE DEF LossInv
<1>1. CASE FaultReceived
  <2>1. Counters'
    BY <1>1, TrackingAssumption DEF FaultReceived, telemetryVars, Counters, Forced
  <2> QED
    BY <1>1, <2>1 DEF FaultReceived, telemetryVars, States, Flags, Integration, NoSilentLoss
<1>2. CASE TelemetryWork
  <2>1. Capped(silent, MaxSilent + 1) \in 0 .. (MaxSilent + 1)
    BY TrackingAssumption, CappedType DEF Counters
  <2>2. /\ silent' \in 0 .. (MaxSilent + 1) /\ faults' \in Nat
        /\ symbols' \in 0 .. MaxSymbols
    BY <1>2, <2>1, TrackingAssumption DEF TelemetryWork, Counters
  <2>3. Flags'
    BY <1>2 DEF TelemetryWork, trackingVars, Flags
  <2> QED
    BY <1>2, <2>2, <2>3
       DEF TelemetryWork, trackingVars, Counters, States, Integration, NoSilentLoss
<1>3. CASE LossReceived
  <2>1. losses' \in Nat
    BY <1>3 DEF LossReceived, Counters
  <2>2. fsm' \in 0 .. 1
    BY <1>3 DEF LossReceived, States
  <2> QED
    BY <1>3, <2>1, <2>2
       DEF LossReceived, trackingVars, telemetryVars, Counters, States, Flags, Integration,
           NoSilentLoss
<1>4. CASE AcquisitionStarts
  <2>1. Counters'
    BY <1>4, TrackingAssumption DEF AcquisitionStarts, WatchArmed, trackingVars, Counters
  <2>2. Flags'
    BY <1>4 DEF AcquisitionStarts, WatchArmed, trackingVars, Flags
  <2> QED
    BY <1>4, <2>1, <2>2
       DEF AcquisitionStarts, trackingVars, States, Integration, NoSilentLoss
<1>5. CASE AcquisitionFails
  BY <1>5 DEF AcquisitionFails, trackingVars, telemetryVars, Counters, States, Flags,
              Integration, NoSilentLoss
<1>6. CASE TrackingStarts
  <2>1. Counters'
    BY <1>6, TrackingAssumption DEF TrackingStarts, telemetryVars, Counters, Forced
  <2>2. Flags'
    BY <1>6 DEF TrackingStarts, telemetryVars, Flags
  <2> QED
    BY <1>6, <2>1, <2>2 DEF TrackingStarts, States, Integration, NoSilentLoss
<1>7. CASE ChannelStops
  <2>1. d_state' \in 0 .. 4 /\ (d_state' = 3 => d_state = 3)
    BY <1>7 DEF ChannelStops, States
  <2> QED
    BY <1>7, <2>1 DEF ChannelStops, telemetryVars, Counters, States, Flags, Integration,
                      NoSilentLoss
<1> QED
  BY <1>1, <1>2, <1>3, <1>4, <1>5, <1>6, <1>7 DEF Channel

LEMMA LossInvStep == LossInv /\ [Next]_vars => LossInv'
<1> SUFFICES ASSUME LossInv, [Next]_vars PROVE LossInv'
  OBVIOUS
<1>1. CASE UNCHANGED vars
  BY <1>1 DEF vars, trackingVars, telemetryVars, LossInv, States, Flags, Counters,
              Integration, NoSilentLoss
<1> QED
  BY <1>1, WorkKeeps, OthersKeep DEF Next

(* The counters stay within their limits, whatever the signal does.        *)
THEOREM TrackingTypes == Spec => []TypeOK
<1>1. LossInv => TypeOK
  BY DEF LossInv, States, Flags, Counters, Integration, TypeOK
<1> QED
  BY <1>1, LossInvInit, LossInvStep, PTL DEF Spec

(* No loss of lock goes unreported: a channel that believes to be tracking *)
(* has a tracking block that runs, or a report on its way to it.           *)
THEOREM LossNeverSilent == Spec => []NoSilentLoss
<1>1. LossInv => NoSilentLoss
  BY DEF LossInv
<1> QED
  BY <1>1, LossInvInit, LossInvStep, PTL DEF Spec
=============================================================================
