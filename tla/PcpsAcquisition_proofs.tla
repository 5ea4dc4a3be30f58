----------------------- MODULE PcpsAcquisition_proofs -----------------------
(* Proofs about PcpsAcquisition, for every number of dwells and stops and  *)
(* every configuration of the block.                                       *)
EXTENDS PcpsAcquisition, TLAPS

(* The inductive invariant.  First the types, in parts.                    *)
Flags ==
    /\ d_active \in BOOLEAN /\ d_worker_active \in BOOLEAN /\ d_step_two \in BOOLEAN
    /\ trk \in BOOLEAN

BlockTypes ==
    /\ conf \in Configs
    /\ d_state \in 0 .. 2
    /\ dwells \in 0 .. MaxDwells
    /\ core \in {"none", "launched", "searching", "reporting"}
    /\ target \in 0 .. 1 /\ searched \in 0 .. 1

ChannelTypes ==
    /\ fsm \in 0 .. 3
    /\ port \in Seq({2, 3})
    /\ queue \in Seq(0 .. 2)

ThreadTypes ==
    /\ ctl \in {"idle", "signal set", "starting", "stop requested", "stopping", "stopped"}
    /\ rcv \in {"idle", "resetting"}
    /\ setlock \in {"free", "core"}
    /\ mx \in {"free", "control", "receiver"}
    /\ stops \in 0 .. MaxStops

(* Who owns the locks, and that the mark of a busy search is right.        *)
Owners ==
    /\ d_worker_active <=> ~conf.blocking /\ core # "none"
    /\ setlock = "core" <=> core = "reporting" \/ (core = "searching" /\ ~conf.blocking)
    /\ mx = "control" <=> ctl \in {"starting", "stopping"}
    /\ mx = "receiver" <=> rcv = "resetting"

(* What a thread that waits for its second lock found with the first one.  *)
Waiting ==
    /\ ctl \in {"signal set", "starting"} => fsm \in {0, 3}
    /\ ctl = "stopping" => fsm = 1
    /\ rcv = "resetting" => fsm = 1 /\ conf.repeat

(* A search has a dwell left when it begins, is inactive when it reports,  *)
(* and is active before that unless its channel was stopped.               *)
SearchState ==
    /\ core \in {"none", "launched"} => dwells < MaxDwells
    /\ core = "reporting" => ~d_active
    /\ core \in {"launched", "searching"} /\ fsm = 1 => d_active

LockInv ==
    Flags /\ BlockTypes /\ ChannelTypes /\ ThreadTypes /\ Owners /\ Waiting /\ SearchState

(* A channel that was never stopped: nothing is left of a search when its  *)
(* verdict is out, and the verdict is about the satellite of the channel.  *)
AllQuiet == ~d_active /\ core = "none" /\ ~d_step_two /\ dwells = 0

Undisturbed ==
    /\ ctl \in {"idle", "signal set", "starting"}
    /\ fsm \in {0, 3} => AllQuiet /\ ~trk /\ port = <<>>
    /\ fsm = 1 =>
          /\ ~trk
          /\ \/ port = <<>> /\ rcv = "idle"
             \/ port = <<2>> /\ rcv = "idle" /\ AllQuiet
             \/ port = <<>> /\ rcv = "resetting" /\ AllQuiet
    /\ fsm = 2 => AllQuiet /\ ((trk /\ port = <<>>) \/ (~trk /\ port = <<3>>))
    /\ core \in {"searching", "reporting"} => searched = target

AcquisitionInv == LockInv /\ (stops = 0 => Undisturbed)

(* The states of the machine and the messages of its port, for the leaves  *)
(* that have to tell them apart.                                           *)
LEMMA StatesDiffer == 0 # 1 /\ 0 # 2 /\ 0 # 3 /\ 1 # 2 /\ 1 # 3 /\ 2 # 3
  OBVIOUS

LEMMA FsmStates == ASSUME ChannelTypes PROVE fsm = 0 \/ fsm = 1 \/ fsm = 2 \/ fsm = 3
  BY DEF ChannelTypes

LEMMA OneMessage ==
    /\ \A m : <<m>> # <<>> /\ Head(<<m>>) = m /\ Tail(<<m>>) = <<>> /\ Append(<<>>, m) = <<m>>
  OBVIOUS

LEMMA QueueGrows == \A q \in Seq(0 .. 2) : \A w \in 0 .. 2 : Append(q, w) \in Seq(0 .. 2)
  OBVIOUS

LEMMA ResultsInRange == 0 \in 0 .. 3 /\ 2 \in 0 .. 3 /\ 3 \in 0 .. 3
                        /\ 0 \in 0 .. 2 /\ 1 \in 0 .. 2 /\ 2 \in 0 .. 2
  OBVIOUS

LEMMA AcquisitionInvInit == Init => AcquisitionInv
<1> SUFFICES ASSUME Init PROVE AcquisitionInv
  OBVIOUS
<1>0. Flags
  BY DEF Init, Flags
<1>1. BlockTypes
  BY AcquisitionAssumption DEF Init, BlockTypes
<1>2. ThreadTypes
  BY AcquisitionAssumption DEF Init, ThreadTypes
<1>3. ChannelTypes
  BY DEF Init, ChannelTypes
<1>4. Owners /\ Waiting /\ SearchState
  BY AcquisitionAssumption DEF Init, Owners, Waiting, SearchState
<1>5. Undisturbed
  BY DEF Init, Undisturbed, AllQuiet
<1> QED
  BY <1>0, <1>1, <1>2, <1>3, <1>4, <1>5 DEF AcquisitionInv, LockInv

(* What general_work keeps.                                                *)
LEMMA WorkKeeps == ASSUME AcquisitionInv, Work PROVE AcquisitionInv'
<1> USE DEF AcquisitionInv, LockInv
<1>1. CASE WorkPasses
  <2>1. ChannelTypes' /\ ThreadTypes' /\ Owners' /\ Waiting'
    BY <1>1 DEF WorkPasses, WorkCalled, frozen, fsmVars, signalVars, ChannelTypes,
                ThreadTypes, Owners, Waiting
  <2>2. Flags'
    BY <1>1 DEF WorkPasses, WorkCalled, frozen, fsmVars, signalVars, Flags
  <2>3. BlockTypes'
    BY <1>1 DEF WorkPasses, WorkCalled, frozen, fsmVars, signalVars, BlockTypes
  <2>4. SearchState'
    BY <1>1 DEF WorkPasses, WorkCalled, frozen, fsmVars, signalVars, SearchState,
                BlockTypes, Owners
  <2>5. stops' = 0 => Undisturbed'
    BY <1>1 DEF WorkPasses, WorkCalled, frozen, fsmVars, signalVars, Undisturbed,
                AllQuiet, ChannelTypes, ThreadTypes, Owners, Waiting
  <2> QED
    BY <2>1, <2>2, <2>3, <2>4, <2>5
<1>2. CASE WorkBuffers
  <2>1. /\ Flags' /\ ChannelTypes' /\ ThreadTypes' /\ Owners' /\ Waiting'
        /\ SearchState' /\ (stops' = 0 => Undisturbed')
    BY <1>2 DEF WorkBuffers, WorkCalled, frozen, fsmVars, signalVars, Flags,
                ChannelTypes, ThreadTypes, Owners, Waiting, SearchState, Undisturbed,
                AllQuiet
  <2>2. BlockTypes'
    BY <1>2 DEF WorkBuffers, WorkCalled, frozen, fsmVars, signalVars, BlockTypes
  <2> QED
    BY <2>1, <2>2
<1>3. CASE WorkLaunchesSearch
  <2>0. core = "none"
    BY <1>3 DEF WorkLaunchesSearch, Launch, WorkCalled, frozen, fsmVars, signalVars,
                Owners
  <2>1. ChannelTypes' /\ ThreadTypes' /\ Waiting'
    BY <1>3 DEF WorkLaunchesSearch, Launch, WorkCalled, frozen, fsmVars, signalVars,
                ChannelTypes, ThreadTypes, Waiting
  <2>2. Flags'
    BY <1>3, <2>0 DEF WorkLaunchesSearch, Launch, WorkCalled, frozen, fsmVars,
                      signalVars, Flags
  <2>3. BlockTypes'
    BY <1>3, <2>0 DEF WorkLaunchesSearch, Launch, WorkCalled, frozen, fsmVars,
                      signalVars, BlockTypes
  <2>4. Owners'
    BY <1>3, <2>0 DEF WorkLaunchesSearch, Launch, WorkCalled, frozen, fsmVars,
                      signalVars, Owners, ThreadTypes, BlockTypes
  <2>5. SearchState'
    BY <1>3, <2>0 DEF WorkLaunchesSearch, Launch, WorkCalled, frozen, fsmVars,
                      signalVars, SearchState, BlockTypes, Owners
  <2>6. stops' = 0 => Undisturbed'
    BY <1>3, <2>0 DEF WorkLaunchesSearch, Launch, WorkCalled, frozen, fsmVars,
                      signalVars, Undisturbed, AllQuiet, ChannelTypes, ThreadTypes,
                      Owners, Waiting
  <2> QED
    BY <2>1, <2>2, <2>3, <2>4, <2>5, <2>6
<1> QED
  BY <1>1, <1>2, <1>3 DEF Work

(* What acquisition_core keeps.                                            *)
LEMMA CoreKeeps == ASSUME AcquisitionInv, Core PROVE AcquisitionInv'
<1> USE DEF AcquisitionInv, LockInv
<1>1. CASE CoreStarts
  <2>1. Flags' /\ ChannelTypes' /\ Waiting'
    BY <1>1 DEF CoreStarts, CountDwell, frozen, fsmVars, signalVars, Flags,
                ChannelTypes, Waiting
  <2>2. BlockTypes'
    BY <1>1, AcquisitionAssumption
       DEF CoreStarts, CountDwell, frozen, fsmVars, signalVars, BlockTypes,
           SearchState
  <2>3. ThreadTypes'
    BY <1>1 DEF CoreStarts, CountDwell, frozen, fsmVars, signalVars, ThreadTypes
  <2>4. Owners'
    BY <1>1 DEF CoreStarts, CountDwell, frozen, fsmVars, signalVars, Owners,
                ThreadTypes, BlockTypes
  <2>5. SearchState'
    BY <1>1, AcquisitionAssumption
       DEF CoreStarts, CountDwell, frozen, fsmVars, signalVars, SearchState,
           BlockTypes, Owners
  <2>6. stops' = 0 => Undisturbed'
    BY <1>1 DEF CoreStarts, CountDwell, frozen, fsmVars, signalVars, Undisturbed,
                AllQuiet, ChannelTypes, ThreadTypes, Owners, Waiting
  <2> QED
    BY <2>1, <2>2, <2>3, <2>4, <2>5, <2>6
<1>2. CASE CoreReportsPositive
  <2>1. ChannelTypes' /\ Waiting'
    BY <1>2 DEF CoreReportsPositive, CoreMayDecide, Deactivate, frozen, fsmVars,
                signalVars, ChannelTypes, Waiting
  <2>2. Flags'
    BY <1>2 DEF CoreReportsPositive, CoreMayDecide, Deactivate, frozen, fsmVars,
                signalVars, Flags
  <2>3. BlockTypes'
    BY <1>2, AcquisitionAssumption
       DEF CoreReportsPositive, CoreMayDecide, Deactivate, frozen, fsmVars,
           signalVars, BlockTypes, SearchState
  <2>4. ThreadTypes'
    BY <1>2 DEF CoreReportsPositive, CoreMayDecide, Deactivate, frozen, fsmVars,
                signalVars, ThreadTypes
  <2>5. Owners'
    BY <1>2 DEF CoreReportsPositive, CoreMayDecide, Deactivate, frozen, fsmVars,
                signalVars, Owners, ThreadTypes, BlockTypes
  <2>6. SearchState'
    BY <1>2, AcquisitionAssumption
       DEF CoreReportsPositive, CoreMayDecide, Deactivate, frozen, fsmVars,
           signalVars, SearchState, BlockTypes, Owners
  <2>7. stops' = 0 => Undisturbed'
    BY <1>2 DEF CoreReportsPositive, CoreMayDecide, Deactivate, frozen, fsmVars,
                signalVars, Undisturbed, AllQuiet, ChannelTypes, ThreadTypes, Owners,
                Waiting
  <2> QED
    BY <2>1, <2>2, <2>3, <2>4, <2>5, <2>6, <2>7
<1>3. CASE CoreValid
  <2>1. Flags'
    BY <1>3 DEF CoreValid, ResetSearch, CoreEnds, frozen, fsmVars, signalVars, Flags
  <2>2. BlockTypes'
    BY <1>3, AcquisitionAssumption
       DEF CoreValid, ResetSearch, CoreEnds, frozen, fsmVars, signalVars, BlockTypes,
           SearchState
  <2>3. ChannelTypes'
    BY <1>3 DEF CoreValid, ResetSearch, CoreEnds, frozen, fsmVars, signalVars,
                ChannelTypes
  <2>4. ThreadTypes'
    BY <1>3 DEF CoreValid, ResetSearch, CoreEnds, frozen, fsmVars, signalVars,
                ThreadTypes
  <2>5. Owners'
    BY <1>3 DEF CoreValid, ResetSearch, CoreEnds, frozen, fsmVars, signalVars, Owners,
                ThreadTypes, BlockTypes
  <2>6. Waiting'
    <3>1. /\ mx = "free" /\ ctl' = ctl /\ rcv' = rcv /\ conf' = conf
          /\ (fsm = 1 /\ fsm' = 2) \/ fsm' = fsm
      BY <1>3 DEF CoreValid, ResetSearch, CoreEnds, frozen, signalVars
    <3>2. rcv # "resetting" /\ ctl # "starting" /\ ctl # "stopping"
      BY <3>1 DEF Owners
    <3>3. ctl = "signal set" => fsm \in {0, 3}
      BY DEF Waiting
    <3>4. fsm = 1 => ctl # "signal set"
      BY <3>3, StatesDiffer
    <3> QED
      BY <3>1, <3>2, <3>3, <3>4 DEF Waiting
  <2>7. SearchState'
    BY <1>3, AcquisitionAssumption
       DEF CoreValid, ResetSearch, CoreEnds, frozen, fsmVars, signalVars, SearchState,
           BlockTypes, Owners
  <2>8. stops' = 0 => Undisturbed'
    <3>0. stops' = stops
      BY <1>3 DEF CoreValid, ResetSearch, CoreEnds, frozen, signalVars
    <3> SUFFICES ASSUME stops = 0 PROVE Undisturbed'
      BY <3>0
    <3> HIDE DEF AcquisitionInv
    <3>1. Undisturbed /\ ChannelTypes
      BY DEF AcquisitionInv
    <3>2. core = "reporting" /\ ~AllQuiet
      BY <1>3 DEF CoreValid, ResetSearch, CoreEnds, frozen, signalVars, AllQuiet
    <3>3. fsm = 1
      BY <3>1, <3>2, FsmStates DEF Undisturbed
    <3>4. port = <<>> /\ ctl \in {"idle", "signal set", "starting"}
      BY <3>1, <3>2, <3>3 DEF Undisturbed
    <3>5. AllQuiet'
      BY <1>3 DEF CoreValid, ResetSearch, CoreEnds, frozen, signalVars, SearchState,
                  AllQuiet, AcquisitionInv
    <3>6. fsm' = 2 /\ trk' /\ port' = <<>> /\ ctl' = ctl /\ core' = "none"
      BY <1>3, <3>3, <3>4 DEF CoreValid, ResetSearch, CoreEnds, frozen, signalVars
    <3> QED
      BY <3>4, <3>5, <3>6, StatesDiffer DEF Undisturbed
  <2> QED
    BY <2>1, <2>2, <2>3, <2>4, <2>5, <2>6, <2>7, <2>8
<1>4. CASE CoreRefines
  <2>1. ChannelTypes' /\ Waiting'
    BY <1>4 DEF CoreRefines, CoreMayDecide, Deactivate, CoreEnds, frozen, fsmVars,
                signalVars, ChannelTypes, Waiting
  <2>2. Flags'
    BY <1>4 DEF CoreRefines, CoreMayDecide, Deactivate, CoreEnds, frozen, fsmVars,
                signalVars, Flags
  <2>3. BlockTypes'
    BY <1>4, AcquisitionAssumption
       DEF CoreRefines, CoreMayDecide, Deactivate, CoreEnds, frozen, fsmVars,
           signalVars, BlockTypes, SearchState
  <2>4. ThreadTypes'
    BY <1>4 DEF CoreRefines, CoreMayDecide, Deactivate, CoreEnds, frozen, fsmVars,
                signalVars, ThreadTypes
  <2>5. Owners'
    BY <1>4 DEF CoreRefines, CoreMayDecide, Deactivate, CoreEnds, frozen, fsmVars,
                signalVars, Owners, ThreadTypes, BlockTypes
  <2>6. SearchState'
    BY <1>4, AcquisitionAssumption
       DEF CoreRefines, CoreMayDecide, Deactivate, CoreEnds, frozen, fsmVars,
           signalVars, SearchState, BlockTypes, Owners
  <2>7. stops' = 0 => Undisturbed'
    BY <1>4 DEF CoreRefines, CoreMayDecide, Deactivate, CoreEnds, frozen, fsmVars,
                signalVars, Undisturbed, AllQuiet, ChannelTypes, ThreadTypes, Owners,
                Waiting
  <2> QED
    BY <2>1, <2>2, <2>3, <2>4, <2>5, <2>6, <2>7
<1>5. CASE CoreDwellsAgain
  <2>1. ChannelTypes' /\ Waiting'
    BY <1>5 DEF CoreDwellsAgain, CoreMayDecide, CoreEnds, frozen, fsmVars, signalVars,
                ChannelTypes, Waiting
  <2>2. Flags'
    BY <1>5 DEF CoreDwellsAgain, CoreMayDecide, CoreEnds, frozen, fsmVars, signalVars,
                Flags
  <2>3. BlockTypes'
    BY <1>5, AcquisitionAssumption
       DEF CoreDwellsAgain, CoreMayDecide, CoreEnds, frozen, fsmVars, signalVars,
           BlockTypes, SearchState
  <2>4. ThreadTypes'
    BY <1>5 DEF CoreDwellsAgain, CoreMayDecide, CoreEnds, frozen, fsmVars, signalVars,
                ThreadTypes
  <2>5. Owners'
    BY <1>5 DEF CoreDwellsAgain, CoreMayDecide, CoreEnds, frozen, fsmVars, signalVars,
                Owners, ThreadTypes, BlockTypes
  <2>6. SearchState'
    BY <1>5, AcquisitionAssumption
       DEF CoreDwellsAgain, CoreMayDecide, CoreEnds, frozen, fsmVars, signalVars,
           SearchState, BlockTypes, Owners
  <2>7. stops' = 0 => Undisturbed'
    BY <1>5 DEF CoreDwellsAgain, CoreMayDecide, CoreEnds, frozen, fsmVars, signalVars,
                Undisturbed, AllQuiet, ChannelTypes, ThreadTypes, Owners, Waiting
  <2> QED
    BY <2>1, <2>2, <2>3, <2>4, <2>5, <2>6, <2>7
<1>6. CASE CoreReportsNegative
  <2>1. Waiting'
    BY <1>6 DEF CoreReportsNegative, CoreMayDecide, Deactivate, ResetSearch, CoreEnds,
                frozen, fsmVars, signalVars, Waiting
  <2>2. Flags'
    BY <1>6 DEF CoreReportsNegative, CoreMayDecide, Deactivate, ResetSearch, CoreEnds,
                frozen, fsmVars, signalVars, Flags
  <2>3. BlockTypes'
    BY <1>6, AcquisitionAssumption
       DEF CoreReportsNegative, CoreMayDecide, Deactivate, ResetSearch, CoreEnds,
           frozen, fsmVars, signalVars, BlockTypes, SearchState
  <2>4. ChannelTypes'
    BY <1>6 DEF CoreReportsNegative, CoreMayDecide, Deactivate, ResetSearch, CoreEnds,
                frozen, fsmVars, signalVars, ChannelTypes
  <2>5. ThreadTypes'
    BY <1>6 DEF CoreReportsNegative, CoreMayDecide, Deactivate, ResetSearch, CoreEnds,
                frozen, fsmVars, signalVars, ThreadTypes
  <2>6. Owners'
    BY <1>6 DEF CoreReportsNegative, CoreMayDecide, Deactivate, ResetSearch, CoreEnds,
                frozen, fsmVars, signalVars, Owners, ThreadTypes, BlockTypes
  <2>7. SearchState'
    BY <1>6, AcquisitionAssumption
       DEF CoreReportsNegative, CoreMayDecide, Deactivate, ResetSearch, CoreEnds,
           frozen, fsmVars, signalVars, SearchState, BlockTypes, Owners
  <2>8. stops' = 0 => Undisturbed'
    <3>0. stops' = stops
      BY <1>6 DEF CoreReportsNegative, CoreMayDecide, Deactivate, ResetSearch,
                  CoreEnds, frozen, signalVars
    <3> SUFFICES ASSUME stops = 0 PROVE Undisturbed'
      BY <3>0
    <3> HIDE DEF AcquisitionInv
    <3>1. Undisturbed /\ ChannelTypes
      BY DEF AcquisitionInv
    <3>2. core = "searching" /\ ~AllQuiet
      BY <1>6 DEF CoreReportsNegative, CoreMayDecide, Deactivate, ResetSearch,
                  CoreEnds, frozen, signalVars, AllQuiet
    <3>3. fsm = 1
      BY <3>1, <3>2, FsmStates DEF Undisturbed
    <3>4. port = <<>> /\ rcv = "idle" /\ ~trk /\ ctl \in {"idle", "signal set", "starting"}
      BY <3>1, <3>2, <3>3 DEF Undisturbed
    <3>5. AllQuiet'
      BY <1>6 DEF CoreReportsNegative, CoreMayDecide, Deactivate, ResetSearch,
                  CoreEnds, frozen, signalVars, AllQuiet
    <3>6. /\ fsm' = 1 /\ ~trk' /\ port' = Append(<<>>, 2) /\ rcv' = "idle"
          /\ ctl' = ctl /\ core' = "none"
      BY <1>6, <3>3, <3>4 DEF CoreReportsNegative, CoreMayDecide, Deactivate,
                              ResetSearch, CoreEnds, frozen, signalVars
    <3> QED
      BY <3>4, <3>5, <3>6, StatesDiffer, OneMessage DEF Undisturbed
  <2> QED
    BY <2>1, <2>2, <2>3, <2>4, <2>5, <2>6, <2>7, <2>8
<1> QED
  BY <1>1, <1>2, <1>3, <1>4, <1>5, <1>6 DEF Core

(* What the message thread and the tracking block keep.                    *)
LEMMA ReceiverKeeps == ASSUME AcquisitionInv, Receiver \/ LossOfLock PROVE AcquisitionInv'
<1> USE DEF AcquisitionInv, LockInv
<1>1. CASE ReceiverRequestsSatellite
  <2>1. Flags' /\ BlockTypes' /\ ThreadTypes' /\ Owners'
    BY <1>1 DEF ReceiverRequestsSatellite, Received, blockVars, frozen, fsmVars,
                signalVars, Flags, BlockTypes, ThreadTypes, Owners
  <2>2. ChannelTypes'
    <3>1. port' \in Seq({2, 3})
      BY <1>1 DEF ReceiverRequestsSatellite, Received, blockVars, frozen, signalVars,
                  ChannelTypes
    <3>2. (fsm' = 3 /\ queue' = Append(queue, 0)) \/ (fsm' = fsm /\ queue' = queue)
      BY <1>1 DEF ReceiverRequestsSatellite, Received, blockVars, frozen, signalVars
    <3>3. fsm \in 0 .. 3 /\ queue \in Seq(0 .. 2)
      BY DEF ChannelTypes
    <3> QED
      BY <3>1, <3>2, <3>3, QueueGrows, ResultsInRange DEF ChannelTypes
  <2>3. Waiting'
    BY <1>1 DEF ReceiverRequestsSatellite, Received, blockVars, frozen, fsmVars,
                signalVars, Waiting, Owners, ThreadTypes, ChannelTypes
  <2>4. SearchState'
    BY <1>1 DEF ReceiverRequestsSatellite, Received, blockVars, frozen, fsmVars,
                signalVars, SearchState, BlockTypes, Owners
  <2>5. stops' = 0 => Undisturbed'
    <3>0. stops' = stops
      BY <1>1 DEF ReceiverRequestsSatellite, Received, blockVars, frozen, signalVars
    <3> SUFFICES ASSUME stops = 0 PROVE Undisturbed'
      BY <3>0
    <3> HIDE DEF AcquisitionInv
    <3>1. Undisturbed /\ ChannelTypes
      BY DEF AcquisitionInv
    <3>2. port # <<>> /\ Head(port) = 2
      BY <1>1 DEF ReceiverRequestsSatellite, Received, blockVars, frozen, signalVars
    <3>3. fsm = 1
      BY <3>1, <3>2, FsmStates, StatesDiffer, OneMessage DEF Undisturbed
    <3>4. /\ port = <<2>> /\ ~trk /\ AllQuiet
          /\ ctl \in {"idle", "signal set", "starting"}
      BY <3>1, <3>2, <3>3, StatesDiffer, OneMessage DEF Undisturbed
    <3>5. AllQuiet'
      BY <1>1, <3>4 DEF ReceiverRequestsSatellite, Received, blockVars, frozen,
                        signalVars, AllQuiet
    <3>6. fsm' = 3 /\ port' = <<>> /\ ctl' = ctl /\ ~trk'
      BY <1>1, <3>3, <3>4, OneMessage
         DEF ReceiverRequestsSatellite, Received, blockVars, frozen, signalVars
    <3>7. core' = "none"
      BY <3>5 DEF AllQuiet
    <3> QED
      BY <3>4, <3>5, <3>6, <3>7, StatesDiffer DEF Undisturbed
  <2> QED
    BY <2>1, <2>2, <2>3, <2>4, <2>5
<1>2. CASE ReceiverRepeats
  <2>1. Flags' /\ BlockTypes' /\ SearchState'
    BY <1>2 DEF ReceiverRepeats, Received, blockVars, frozen, fsmVars, signalVars,
                Flags, BlockTypes, SearchState
  <2>2. ChannelTypes'
    BY <1>2 DEF ReceiverRepeats, Received, blockVars, frozen, fsmVars, signalVars,
                ChannelTypes
  <2>3. ThreadTypes'
    BY <1>2 DEF ReceiverRepeats, Received, blockVars, frozen, fsmVars, signalVars,
                ThreadTypes
  <2>4. Owners'
    BY <1>2 DEF ReceiverRepeats, Received, blockVars, frozen, fsmVars, signalVars,
                Owners, ThreadTypes, BlockTypes
  <2>5. Waiting'
    BY <1>2 DEF ReceiverRepeats, Received, blockVars, frozen, fsmVars, signalVars,
                Waiting, Owners, ThreadTypes, ChannelTypes
  <2>6. stops' = 0 => Undisturbed'
    <3>0. stops' = stops
      BY <1>2 DEF ReceiverRepeats, Received, blockVars, frozen, signalVars
    <3> SUFFICES ASSUME stops = 0 PROVE Undisturbed'
      BY <3>0
    <3> HIDE DEF AcquisitionInv
    <3>1. Undisturbed /\ ChannelTypes
      BY DEF AcquisitionInv
    <3>2. port # <<>> /\ Head(port) = 2
      BY <1>2 DEF ReceiverRepeats, Received, blockVars, frozen, signalVars
    <3>3. fsm = 1
      BY <3>1, <3>2, FsmStates, StatesDiffer, OneMessage DEF Undisturbed
    <3>4. /\ port = <<2>> /\ ~trk /\ AllQuiet
          /\ ctl \in {"idle", "signal set", "starting"}
      BY <3>1, <3>2, <3>3, StatesDiffer, OneMessage DEF Undisturbed
    <3>5. AllQuiet'
      BY <1>2, <3>4 DEF ReceiverRepeats, Received, blockVars, frozen, signalVars,
                        AllQuiet
    <3>6. fsm' = 1 /\ port' = <<>> /\ rcv' = "resetting" /\ ctl' = ctl /\ ~trk'
      BY <1>2, <3>3, <3>4, OneMessage
         DEF ReceiverRepeats, Received, blockVars, frozen, signalVars
    <3>7. core' = "none"
      BY <3>5 DEF AllQuiet
    <3> QED
      BY <3>4, <3>5, <3>6, <3>7, StatesDiffer DEF Undisturbed
  <2> QED
    BY <2>1, <2>2, <2>3, <2>4, <2>5, <2>6
<1>3. CASE ReceiverResets
  <2>1. BlockTypes' /\ ChannelTypes'
    BY <1>3 DEF ReceiverResets, frozen, fsmVars, signalVars, BlockTypes, ChannelTypes
  <2>2. Flags'
    BY <1>3 DEF ReceiverResets, frozen, fsmVars, signalVars, Flags
  <2>3. ThreadTypes'
    BY <1>3 DEF ReceiverResets, frozen, fsmVars, signalVars, ThreadTypes
  <2>4. Owners'
    BY <1>3 DEF ReceiverResets, frozen, fsmVars, signalVars, Owners, ThreadTypes,
                BlockTypes
  <2>5. Waiting'
    BY <1>3 DEF ReceiverResets, frozen, fsmVars, signalVars, Waiting, Owners,
                ThreadTypes, ChannelTypes
  <2>6. SearchState'
    BY <1>3 DEF ReceiverResets, frozen, fsmVars, signalVars, SearchState, BlockTypes,
                Owners
  <2>7. stops' = 0 => Undisturbed'
    <3>0. stops' = stops
      BY <1>3 DEF ReceiverResets, fsmVars, frozen, signalVars
    <3> SUFFICES ASSUME stops = 0 PROVE Undisturbed'
      BY <3>0
    <3> HIDE DEF AcquisitionInv
    <3>1. Undisturbed /\ ChannelTypes
      BY DEF AcquisitionInv
    <3>2. rcv = "resetting" /\ fsm = 1
      BY <1>3 DEF ReceiverResets, fsmVars, frozen, signalVars, Waiting, AcquisitionInv
    <3>3. port = <<>> /\ ~trk /\ core = "none" /\ ctl \in {"idle", "signal set", "starting"}
      BY <3>1, <3>2 DEF Undisturbed, AllQuiet
    <3>4. /\ fsm' = 1 /\ port' = <<>> /\ rcv' = "idle" /\ ctl' = ctl /\ ~trk'
          /\ core' = "none"
      BY <1>3, <3>2, <3>3 DEF ReceiverResets, fsmVars, frozen, signalVars
    <3> QED
      BY <3>3, <3>4, StatesDiffer DEF Undisturbed
  <2> QED
    BY <2>1, <2>2, <2>3, <2>4, <2>5, <2>6, <2>7
<1>4. CASE ReceiverReleases
  <2>1. Flags' /\ BlockTypes' /\ ThreadTypes' /\ Owners'
    BY <1>4 DEF ReceiverReleases, Received, blockVars, frozen, fsmVars, signalVars,
                Flags, BlockTypes, ThreadTypes, Owners
  <2>2. ChannelTypes'
    <3>1. port' \in Seq({2, 3})
      BY <1>4 DEF ReceiverReleases, Received, blockVars, frozen, signalVars,
                  ChannelTypes
    <3>2. (fsm' = 0 /\ queue' = Append(queue, 2)) \/ (fsm' = fsm /\ queue' = queue)
      BY <1>4 DEF ReceiverReleases, Received, blockVars, frozen, signalVars
    <3>3. fsm \in 0 .. 3 /\ queue \in Seq(0 .. 2)
      BY DEF ChannelTypes
    <3> QED
      BY <3>1, <3>2, <3>3, QueueGrows, ResultsInRange DEF ChannelTypes
  <2>3. Waiting'
    BY <1>4 DEF ReceiverReleases, Received, blockVars, frozen, fsmVars, signalVars,
                Waiting, Owners, ThreadTypes, ChannelTypes
  <2>4. SearchState'
    BY <1>4 DEF ReceiverReleases, Received, blockVars, frozen, fsmVars, signalVars,
                SearchState, BlockTypes, Owners
  <2>5. stops' = 0 => Undisturbed'
    <3>0. stops' = stops
      BY <1>4 DEF ReceiverReleases, Received, blockVars, frozen, signalVars
    <3> SUFFICES ASSUME stops = 0 PROVE Undisturbed'
      BY <3>0
    <3> HIDE DEF AcquisitionInv
    <3>1. Undisturbed /\ ChannelTypes
      BY DEF AcquisitionInv
    <3>2. port # <<>> /\ Head(port) = 3
      BY <1>4 DEF ReceiverReleases, Received, blockVars, frozen, signalVars
    <3>3. fsm = 2
      BY <3>1, <3>2, FsmStates, StatesDiffer, OneMessage DEF Undisturbed
    <3>4. /\ port = <<3>> /\ ~trk /\ AllQuiet
          /\ ctl \in {"idle", "signal set", "starting"}
      BY <3>1, <3>2, <3>3, StatesDiffer, OneMessage DEF Undisturbed
    <3>5. AllQuiet'
      BY <1>4, <3>4 DEF ReceiverReleases, Received, blockVars, frozen, signalVars,
                        AllQuiet
    <3>6. fsm' = 0 /\ port' = <<>> /\ ctl' = ctl /\ ~trk'
      BY <1>4, <3>3, <3>4, OneMessage
         DEF ReceiverReleases, Received, blockVars, frozen, signalVars
    <3>7. core' = "none"
      BY <3>5 DEF AllQuiet
    <3> QED
      BY <3>4, <3>5, <3>6, <3>7, StatesDiffer DEF Undisturbed
  <2> QED
    BY <2>1, <2>2, <2>3, <2>4, <2>5
<1>5. CASE LossOfLock
  <2>1. BlockTypes' /\ ThreadTypes' /\ Owners' /\ Waiting' /\ SearchState'
    BY <1>5 DEF LossOfLock, blockVars, frozen, fsmVars, signalVars, BlockTypes,
                ThreadTypes, Owners, Waiting, SearchState
  <2>2. Flags'
    BY <1>5 DEF LossOfLock, blockVars, frozen, fsmVars, signalVars, Flags
  <2>3. ChannelTypes'
    BY <1>5 DEF LossOfLock, blockVars, frozen, fsmVars, signalVars, ChannelTypes
  <2>4. stops' = 0 => Undisturbed'
    <3>0. stops' = stops
      BY <1>5 DEF LossOfLock, blockVars, frozen, signalVars
    <3> SUFFICES ASSUME stops = 0 PROVE Undisturbed'
      BY <3>0
    <3> HIDE DEF AcquisitionInv
    <3>1. Undisturbed /\ ChannelTypes
      BY DEF AcquisitionInv
    <3>2. trk
      BY <1>5 DEF LossOfLock, blockVars, frozen, signalVars
    <3>3. fsm = 2
      BY <3>1, <3>2, FsmStates DEF Undisturbed
    <3>4. port = <<>> /\ AllQuiet /\ ctl \in {"idle", "signal set", "starting"}
      BY <3>1, <3>2, <3>3 DEF Undisturbed
    <3>5. AllQuiet'
      BY <1>5, <3>4 DEF LossOfLock, blockVars, frozen, signalVars, AllQuiet
    <3>6. fsm' = 2 /\ port' = Append(<<>>, 3) /\ ctl' = ctl /\ ~trk'
      BY <1>5, <3>3, <3>4 DEF LossOfLock, blockVars, frozen, signalVars
    <3>7. core' = "none"
      BY <3>5 DEF AllQuiet
    <3> QED
      BY <3>4, <3>5, <3>6, <3>7, StatesDiffer, OneMessage DEF Undisturbed
  <2> QED
    BY <2>1, <2>2, <2>3, <2>4
<1> QED
  BY <1>1, <1>2, <1>3, <1>4, <1>5 DEF Receiver

(* What the control thread keeps.                                          *)
LEMMA ControlKeeps ==
    ASSUME AcquisitionInv, Control \/ ControlRequestsStop \/ ControlResumes
    PROVE  AcquisitionInv'
<1> USE DEF AcquisitionInv, LockInv
<1>1. CASE ControlReads
  <2>1. /\ Flags' /\ BlockTypes' /\ ThreadTypes' /\ Owners' /\ Waiting'
        /\ SearchState' /\ (stops' = 0 => Undisturbed')
    BY <1>1 DEF ControlReads, blockVars, frozen, fsmVars, signalVars, Flags,
                BlockTypes, ThreadTypes, Owners, Waiting, SearchState, Undisturbed,
                AllQuiet
  <2>2. ChannelTypes'
    BY <1>1 DEF ControlReads, blockVars, frozen, fsmVars, signalVars, ChannelTypes
  <2> QED
    BY <2>1, <2>2
<1>2. CASE ControlSetsSignal
  <2>1. Flags' /\ ChannelTypes' /\ SearchState'
    BY <1>2 DEF ControlSetsSignal, blockVars, frozen, fsmVars, signalVars, Flags,
                ChannelTypes, SearchState
  <2>2. BlockTypes'
    BY <1>2 DEF ControlSetsSignal, blockVars, frozen, fsmVars, signalVars, BlockTypes
  <2>3. ThreadTypes'
    BY <1>2 DEF ControlSetsSignal, blockVars, frozen, fsmVars, signalVars, ThreadTypes
  <2>4. Owners'
    BY <1>2 DEF ControlSetsSignal, blockVars, frozen, fsmVars, signalVars, Owners,
                ThreadTypes, BlockTypes
  <2>5. Waiting'
    BY <1>2 DEF ControlSetsSignal, blockVars, frozen, fsmVars, signalVars, Waiting,
                Owners, ThreadTypes, ChannelTypes
  <2>6. stops' = 0 => Undisturbed'
    BY <1>2 DEF ControlSetsSignal, blockVars, frozen, fsmVars, signalVars,
                Undisturbed, AllQuiet, ChannelTypes, ThreadTypes, Owners, Waiting
  <2> QED
    BY <2>1, <2>2, <2>3, <2>4, <2>5, <2>6
<1>3. CASE ControlStarts
  <2>1. Flags' /\ BlockTypes' /\ ChannelTypes' /\ SearchState'
    BY <1>3 DEF ControlStarts, blockVars, frozen, fsmVars, signalVars, Flags,
                BlockTypes, ChannelTypes, SearchState
  <2>2. ThreadTypes'
    BY <1>3 DEF ControlStarts, blockVars, frozen, fsmVars, signalVars, ThreadTypes
  <2>3. Owners'
    BY <1>3 DEF ControlStarts, blockVars, frozen, fsmVars, signalVars, Owners,
                ThreadTypes, BlockTypes
  <2>4. Waiting'
    BY <1>3 DEF ControlStarts, blockVars, frozen, fsmVars, signalVars, Waiting,
                Owners, ThreadTypes, ChannelTypes
  <2>5. stops' = 0 => Undisturbed'
    BY <1>3 DEF ControlStarts, blockVars, frozen, fsmVars, signalVars, Undisturbed,
                AllQuiet, ChannelTypes, ThreadTypes, Owners, Waiting
  <2> QED
    BY <2>1, <2>2, <2>3, <2>4, <2>5
<1>4. CASE ControlActivates
  <2>1. BlockTypes'
    BY <1>4 DEF ControlActivates, frozen, fsmVars, signalVars, BlockTypes
  <2>2. Flags'
    BY <1>4 DEF ControlActivates, frozen, fsmVars, signalVars, Flags
  <2>3. ChannelTypes'
    BY <1>4 DEF ControlActivates, frozen, fsmVars, signalVars, ChannelTypes
  <2>4. ThreadTypes'
    BY <1>4 DEF ControlActivates, frozen, fsmVars, signalVars, ThreadTypes
  <2>5. Owners'
    BY <1>4 DEF ControlActivates, frozen, fsmVars, signalVars, Owners, ThreadTypes,
                BlockTypes
  <2>6. Waiting'
    BY <1>4 DEF ControlActivates, frozen, fsmVars, signalVars, Waiting, Owners,
                ThreadTypes, ChannelTypes
  <2>7. SearchState'
    BY <1>4 DEF ControlActivates, frozen, fsmVars, signalVars, SearchState,
                BlockTypes, Owners
  <2>8. stops' = 0 => Undisturbed'
    BY <1>4 DEF ControlActivates, frozen, fsmVars, signalVars, Undisturbed, AllQuiet,
                ChannelTypes, ThreadTypes, Owners, Waiting
  <2> QED
    BY <2>1, <2>2, <2>3, <2>4, <2>5, <2>6, <2>7, <2>8
<1>5. CASE ControlStops
  <2>1. BlockTypes'
    BY <1>5 DEF ControlStops, blockVars, frozen, fsmVars, signalVars, BlockTypes
  <2>2. Flags'
    BY <1>5 DEF ControlStops, blockVars, frozen, fsmVars, signalVars, Flags
  <2>3. ChannelTypes'
    <3>1. fsm' \in {0, fsm} /\ UNCHANGED <<port, queue>>
      BY <1>5 DEF ControlStops, blockVars, frozen, fsmVars, signalVars
    <3> QED
      BY <3>1 DEF ChannelTypes
  <2>4. ThreadTypes'
    BY <1>5 DEF ControlStops, blockVars, frozen, fsmVars, signalVars, ThreadTypes
  <2>5. Owners'
    BY <1>5 DEF ControlStops, blockVars, frozen, fsmVars, signalVars, Owners,
                ThreadTypes, BlockTypes
  <2>6. Waiting'
    <3>1. /\ rcv' = rcv /\ conf' = conf /\ mx = "free"
          /\ (fsm = 1 /\ ctl' = "stopping" /\ fsm' = fsm) \/ ctl' = "stopped"
      BY <1>5, StatesDiffer DEF ControlStops, blockVars, frozen, signalVars
    <3>2. rcv # "resetting"
      BY <3>1 DEF Owners
    <3> QED
      BY <3>1, <3>2 DEF Waiting
  <2>7. SearchState'
    BY <1>5 DEF ControlStops, blockVars, frozen, fsmVars, signalVars, SearchState,
                BlockTypes, Owners
  <2>8. stops' = 0 => Undisturbed'
    BY <1>5 DEF ControlStops, blockVars, frozen, fsmVars, signalVars, Undisturbed,
                AllQuiet, ChannelTypes, ThreadTypes, Owners, Waiting
  <2> QED
    BY <2>1, <2>2, <2>3, <2>4, <2>5, <2>6, <2>7, <2>8
<1>6. CASE ControlDeactivates
  <2>1. BlockTypes'
    BY <1>6 DEF ControlDeactivates, frozen, fsmVars, signalVars, BlockTypes
  <2>2. Flags'
    BY <1>6 DEF ControlDeactivates, frozen, fsmVars, signalVars, Flags
  <2>3. ChannelTypes'
    BY <1>6 DEF ControlDeactivates, frozen, fsmVars, signalVars, ChannelTypes
  <2>4. ThreadTypes'
    BY <1>6 DEF ControlDeactivates, frozen, fsmVars, signalVars, ThreadTypes
  <2>5. Owners'
    BY <1>6 DEF ControlDeactivates, frozen, fsmVars, signalVars, Owners, ThreadTypes,
                BlockTypes
  <2>6. Waiting'
    BY <1>6 DEF ControlDeactivates, frozen, fsmVars, signalVars, Waiting, Owners,
                ThreadTypes, ChannelTypes
  <2>7. SearchState'
    BY <1>6 DEF ControlDeactivates, frozen, fsmVars, signalVars, SearchState,
                BlockTypes, Owners
  <2>8. stops' = 0 => Undisturbed'
    BY <1>6 DEF ControlDeactivates, frozen, fsmVars, signalVars, Undisturbed,
                AllQuiet, ChannelTypes, ThreadTypes, Owners, Waiting
  <2> QED
    BY <2>1, <2>2, <2>3, <2>4, <2>5, <2>6, <2>7, <2>8
<1>7. CASE ControlRequestsStop
  <2>1. Flags' /\ BlockTypes' /\ ChannelTypes' /\ SearchState'
    BY <1>7 DEF ControlRequestsStop, blockVars, frozen, fsmVars, signalVars, Flags,
                BlockTypes, ChannelTypes, SearchState
  <2>2. ThreadTypes'
    <3>1. stops < MaxStops /\ stops' = stops + 1 /\ stops \in 0 .. MaxStops
      BY <1>7 DEF ControlRequestsStop, ThreadTypes
    <3>2. stops' \in 0 .. MaxStops
      BY <3>1, AcquisitionAssumption
    <3>3. ctl' = "stop requested" /\ rcv' = rcv /\ setlock' = setlock /\ mx' = mx
      BY <1>7 DEF ControlRequestsStop, blockVars, fsmVars, signalVars
    <3> QED
      BY <3>2, <3>3 DEF ThreadTypes
  <2>3. Owners'
    BY <1>7 DEF ControlRequestsStop, blockVars, frozen, fsmVars, signalVars, Owners,
                ThreadTypes, BlockTypes
  <2>4. Waiting'
    BY <1>7 DEF ControlRequestsStop, blockVars, frozen, fsmVars, signalVars, Waiting,
                Owners, ThreadTypes, ChannelTypes
  <2>5. stops' = 0 => Undisturbed'
    <3>1. stops' = stops + 1 /\ stops \in 0 .. MaxStops
      BY <1>7 DEF ControlRequestsStop, ThreadTypes
    <3> QED
      BY <3>1, AcquisitionAssumption
  <2> QED
    BY <2>1, <2>2, <2>3, <2>4, <2>5
<1>8. CASE ControlResumes
  <2>1. Flags' /\ BlockTypes' /\ ChannelTypes' /\ SearchState'
    BY <1>8 DEF ControlResumes, blockVars, frozen, fsmVars, signalVars, Flags,
                BlockTypes, ChannelTypes, SearchState
  <2>2. ThreadTypes'
    BY <1>8 DEF ControlResumes, blockVars, frozen, fsmVars, signalVars, ThreadTypes
  <2>3. Owners'
    BY <1>8 DEF ControlResumes, blockVars, frozen, fsmVars, signalVars, Owners,
                ThreadTypes, BlockTypes
  <2>4. Waiting'
    BY <1>8 DEF ControlResumes, blockVars, frozen, fsmVars, signalVars, Waiting,
                Owners, ThreadTypes, ChannelTypes
  <2>5. stops' = 0 => Undisturbed'
    BY <1>8 DEF ControlResumes, blockVars, frozen, fsmVars, signalVars, Undisturbed,
                AllQuiet, ChannelTypes, ThreadTypes, Owners, Waiting
  <2> QED
    BY <2>1, <2>2, <2>3, <2>4, <2>5
<1> QED
  BY <1>1, <1>2, <1>3, <1>4, <1>5, <1>6, <1>7, <1>8 DEF Control

(* What every step keeps.                                                  *)
LEMMA AcquisitionInvStep == AcquisitionInv /\ [Next]_vars => AcquisitionInv'
<1> SUFFICES ASSUME AcquisitionInv, [Next]_vars PROVE AcquisitionInv'
  OBVIOUS
<1>1. CASE Next
  BY <1>1, WorkKeeps, CoreKeeps, ReceiverKeeps, ControlKeeps DEF Next
<1>2. CASE UNCHANGED vars
  <2>1. Flags' /\ BlockTypes' /\ ChannelTypes' /\ ThreadTypes'
    <3>1. Flags /\ BlockTypes /\ ChannelTypes /\ ThreadTypes
      BY DEF AcquisitionInv, LockInv
    <3>2. Flags'
      BY <1>2, <3>1, Zenon DEF vars, blockVars, fsmVars, Flags
    <3>3. BlockTypes'
      BY <1>2, <3>1 DEF vars, blockVars, fsmVars, BlockTypes
    <3>4. ChannelTypes'
      BY <1>2, <3>1 DEF vars, fsmVars, ChannelTypes
    <3>5. ThreadTypes'
      BY <1>2, <3>1 DEF vars, ThreadTypes
    <3> QED
      BY <3>2, <3>3, <3>4, <3>5
  <2>2. Owners' /\ Waiting' /\ SearchState'
    BY <1>2 DEF vars, blockVars, fsmVars, AcquisitionInv, LockInv, Owners, Waiting,
                SearchState
  <2>3. stops' = 0 => Undisturbed'
    BY <1>2 DEF vars, blockVars, fsmVars, AcquisitionInv, Undisturbed, AllQuiet
  <2> QED
    BY <2>1, <2>2, <2>3 DEF AcquisitionInv, LockInv
<1> QED
  BY <1>1, <1>2

LEMMA AcquisitionInvHolds == Spec => []AcquisitionInv
  BY AcquisitionInvInit, AcquisitionInvStep, PTL DEF Spec

(* The types of the acquisition block and its threads; the counter of      *)
(* dwells of acquisition_core never passes max_dwells.                     *)
THEOREM AcquisitionTypes == Spec => []TypeOK
<1>1. AcquisitionInv => TypeOK
  BY DEF AcquisitionInv, LockInv, Flags, BlockTypes, ChannelTypes, ThreadTypes, TypeOK
<1> QED
  BY <1>1, AcquisitionInvHolds, PTL

(* general_work launches no search while acquisition_core still has the    *)
(* buffers of the block, in blocking mode or with a thread of its own,     *)
(* however often the channel is stopped and restarted.                     *)
THEOREM OneSearchAtATime == Spec => []SingleSearch
<1>1. AcquisitionInv => SingleSearch
  BY DEF AcquisitionInv, LockInv, Owners, SingleSearch, WorkCalled
<1> QED
  BY <1>1, AcquisitionInvHolds, PTL

(* Event_start_acquisition finds nothing left of an earlier search on a    *)
(* channel that Event_stop_channel never interrupted.                      *)
THEOREM StartsFresh == Spec => []FreshStart
<1>1. AcquisitionInv => FreshStart
  <2> SUFFICES ASSUME AcquisitionInv, stops = 0, ctl = "starting"
               PROVE  dwells = 0 /\ ~d_step_two /\ core = "none" /\ port = <<>>
    BY DEF FreshStart
  <2>1. fsm \in {0, 3} /\ Undisturbed
    BY DEF AcquisitionInv, LockInv, Waiting
  <2> QED
    BY <2>1 DEF Undisturbed, AllQuiet
<1> QED
  BY <1>1, AcquisitionInvHolds, PTL

(* Event_valid_acquisition starts tracking only on the satellite that      *)
(* acquisition_core searched, unless the channel was stopped before.       *)
THEOREM VerdictForTarget == Spec => []VerdictIsForTarget
<1>1. AcquisitionInv => VerdictIsForTarget
  BY DEF AcquisitionInv, Undisturbed, VerdictIsForTarget
<1> QED
  BY <1>1, AcquisitionInvHolds, PTL

-----------------------------------------------------------------------------
(* The refinement of ChannelFsm.  The two instances differ in what a       *)
(* failed acquisition leads to; every other step is a step of both.        *)

LEMMA OneChannelFacts ==
    /\ \A x : [c \in {0} |-> x][0] = x
    /\ \A x, y : [[c \in {0} |-> x] EXCEPT ![0] = y] = [c \in {0} |-> y]
  OBVIOUS

LEMMA SoleChannel == RequestingFsm!Channels = {0} /\ RepeatingFsm!Channels = {0}
  BY DEF RequestingFsm!Channels, RepeatingFsm!Channels

(* The queue as ChannelFsm sees it.                                        *)
LEMMA EventsGrow == \A q \in Seq(0 .. 2) : \A w \in 0 .. 2 :
    AsEvents(Append(q, w)) = Append(AsEvents(q), [kind |-> "channel", who |-> 0, what |-> w])
  BY DEF AsEvents

LEMMA EventsShrink == \A q \in Seq(0 .. 2) :
    q # <<>> => AsEvents(q) # <<>> /\ AsEvents(Tail(q)) = Tail(AsEvents(q))
  BY DEF AsEvents

(* The port with the message that is being handled in front.               *)
LEMMA PendingGrows ==
    ASSUME port \in Seq({2, 3}), NEW m \in {2, 3}, port' = Append(port, m), rcv' = rcv
    PROVE  Pending' = Append(Pending, m)
<1>1. <<2>> \o Append(port, m) = Append(<<2>> \o port, m)
  OBVIOUS
<1> QED
  BY <1>1 DEF Pending

LEMMA PendingHandled ==
    /\ \A p \in Seq({2, 3}) : p # <<>> /\ Head(p) = 2 => <<2>> \o Tail(p) = p
    /\ \A p \in Seq({2, 3}) : /\ <<2>> \o p # <<>> /\ Head(<<2>> \o p) = 2
                              /\ Tail(<<2>> \o p) = p
  OBVIOUS

FsmStep == RequestingFsm!FsmNext /\ RepeatingFsm!FsmNext

(* Each step of ChannelFsm, from what it does to the mapped variables.     *)
LEMMA MapsToPositive ==
    ASSUME Searching, ~Searching', Pending' = Pending, queue \in Seq(0 .. 2),
           IF fsm = 1 THEN fsm' = 2 /\ trk' = TRUE /\ queue' = Append(queue, 1)
                      ELSE fsm' = fsm /\ trk' = trk /\ queue' = queue
    PROVE  FsmStep
<1>1. RequestingFsm!PositiveAcquisition(0) /\ RepeatingFsm!PositiveAcquisition(0)
  BY OneChannelFacts, EventsGrow
     DEF RequestingFsm!PositiveAcquisition, RepeatingFsm!PositiveAcquisition, OneChannel,
         RequestingFsm!Event_valid_acquisition, RepeatingFsm!Event_valid_acquisition,
         RequestingFsm!ChannelEvent, RepeatingFsm!ChannelEvent
<1> QED
  BY <1>1, SoleChannel DEF FsmStep, RequestingFsm!FsmNext, RepeatingFsm!FsmNext,
                           RequestingFsm!ChannelStep, RepeatingFsm!ChannelStep

LEMMA MapsToNegative ==
    ASSUME Searching, ~Searching', Pending' = Append(Pending, 2),
           fsm' = fsm, trk' = trk, queue' = queue
    PROVE  FsmStep
<1>1. RequestingFsm!NegativeAcquisition(0) /\ RepeatingFsm!NegativeAcquisition(0)
  BY OneChannelFacts
     DEF RequestingFsm!NegativeAcquisition, RepeatingFsm!NegativeAcquisition, OneChannel
<1> QED
  BY <1>1, SoleChannel DEF FsmStep, RequestingFsm!FsmNext, RepeatingFsm!FsmNext,
                           RequestingFsm!ChannelStep, RepeatingFsm!ChannelStep

LEMMA MapsToLateEnd ==
    ASSUME Searching, ~Searching', fsm # 1,
           fsm' = fsm, trk' = trk, Pending' = Pending, queue' = queue
    PROVE  FsmStep
<1>1. RequestingFsm!LateSearchEnds(0) /\ RepeatingFsm!LateSearchEnds(0)
  BY OneChannelFacts DEF RequestingFsm!LateSearchEnds, RepeatingFsm!LateSearchEnds,
                         OneChannel
<1> QED
  BY <1>1, SoleChannel DEF FsmStep, RequestingFsm!FsmNext, RepeatingFsm!FsmNext,
                           RequestingFsm!ChannelStep, RepeatingFsm!ChannelStep

LEMMA MapsToLoss ==
    ASSUME trk, trk' = FALSE, Pending' = Append(Pending, 3),
           fsm' = fsm, Searching' = Searching, queue' = queue
    PROVE  FsmStep
<1>1. RequestingFsm!LossOfLock(0) /\ RepeatingFsm!LossOfLock(0)
  BY OneChannelFacts DEF RequestingFsm!LossOfLock, RepeatingFsm!LossOfLock, OneChannel
<1> QED
  BY <1>1, SoleChannel DEF FsmStep, RequestingFsm!FsmNext, RepeatingFsm!FsmNext,
                           RequestingFsm!ChannelStep, RepeatingFsm!ChannelStep

LEMMA MapsToRequest ==
    ASSUME Pending # <<>>, Head(Pending) = 2, Pending' = Tail(Pending), queue \in Seq(0 .. 2),
           IF fsm = 1 THEN fsm' = 3 /\ queue' = Append(queue, 0)
                      ELSE fsm' = fsm /\ queue' = queue,
           Searching' = Searching, trk' = trk
    PROVE  RequestingFsm!FsmNext
<1>1. RequestingFsm!HandleAcquisitionFailed(0)
  BY OneChannelFacts, EventsGrow
     DEF RequestingFsm!HandleAcquisitionFailed, OneChannel, RequestingFsm!ChannelEvent,
         RequestingFsm!Event_failed_acquisition_no_repeat
<1> QED
  BY <1>1, SoleChannel DEF RequestingFsm!FsmNext, RequestingFsm!ChannelStep

LEMMA MapsToRepeat ==
    ASSUME Pending # <<>>, Head(Pending) = 2, Pending' = Tail(Pending),
           IF fsm = 1 THEN Searching' ELSE Searching' = Searching,
           fsm' = fsm, queue' = queue, trk' = trk
    PROVE  RepeatingFsm!FsmNext
<1>1. RepeatingFsm!HandleAcquisitionFailed(0)
  BY OneChannelFacts
     DEF RepeatingFsm!HandleAcquisitionFailed, OneChannel,
         RepeatingFsm!Event_failed_acquisition_repeat
<1> QED
  BY <1>1, SoleChannel DEF RepeatingFsm!FsmNext, RepeatingFsm!ChannelStep

LEMMA MapsToRelease ==
    ASSUME Pending # <<>>, Head(Pending) = 3, Pending' = Tail(Pending), queue \in Seq(0 .. 2),
           IF fsm = 2 THEN fsm' = 0 /\ queue' = Append(queue, 2)
                      ELSE fsm' = fsm /\ queue' = queue,
           Searching' = Searching, trk' = trk
    PROVE  FsmStep
<1>1. RequestingFsm!HandleLossOfLock(0) /\ RepeatingFsm!HandleLossOfLock(0)
  BY OneChannelFacts, EventsGrow
     DEF RequestingFsm!HandleLossOfLock, RepeatingFsm!HandleLossOfLock, OneChannel,
         RequestingFsm!Event_failed_tracking_standby, RepeatingFsm!Event_failed_tracking_standby,
         RequestingFsm!ChannelEvent, RepeatingFsm!ChannelEvent
<1> QED
  BY <1>1, SoleChannel DEF FsmStep, RequestingFsm!FsmNext, RepeatingFsm!FsmNext,
                           RequestingFsm!ChannelStep, RepeatingFsm!ChannelStep

LEMMA MapsToRead ==
    ASSUME queue # <<>>, queue' = Tail(queue), queue \in Seq(0 .. 2),
           fsm' = fsm, Searching' = Searching, trk' = trk, Pending' = Pending
    PROVE  FsmStep
<1>1. RequestingFsm!ControlReads /\ RepeatingFsm!ControlReads
  BY EventsShrink DEF RequestingFsm!ControlReads, RepeatingFsm!ControlReads,
                      OneChannel
<1> QED
  BY <1>1 DEF FsmStep, RequestingFsm!FsmNext, RepeatingFsm!FsmNext

LEMMA MapsToStart ==
    ASSUME fsm \notin {1, 2}, fsm' = 1, Searching',
           trk' = trk, Pending' = Pending, queue' = queue
    PROVE  FsmStep
<1>1. RequestingFsm!Event_start_acquisition({0}) /\ RepeatingFsm!Event_start_acquisition({0})
  BY OneChannelFacts, SoleChannel
     DEF RequestingFsm!Event_start_acquisition, RepeatingFsm!Event_start_acquisition, OneChannel
<1>2. RequestingFsm!ControlCalls(0) /\ RepeatingFsm!ControlCalls(0)
  BY <1>1 DEF RequestingFsm!ControlCalls, RepeatingFsm!ControlCalls, OneChannel
<1> QED
  BY <1>2, SoleChannel DEF FsmStep, RequestingFsm!FsmNext, RepeatingFsm!FsmNext

LEMMA MapsToStop ==
    ASSUME fsm' = 0, Pending' = Pending, queue' = queue, trk \in BOOLEAN,
           \/ fsm = 1 /\ (Searching' => Searching) /\ trk' = trk
           \/ fsm = 2 /\ Searching' = Searching /\ trk' = FALSE
    PROVE  FsmStep
<1> DEFINE late == IF Searching' THEN {0} ELSE {}
<1>1. RequestingFsm!Event_stop_channel({0}) /\ RepeatingFsm!Event_stop_channel({0})
  <2>1. late \in SUBSET {0}
    OBVIOUS
  <2>2. OneChannel(fsm)' = [c \in {0} |-> IF c \in {0} /\ OneChannel(fsm)[c] \in {1, 2}
                                             THEN 0 ELSE OneChannel(fsm)[c]]
    BY DEF OneChannel
  <2>3. OneChannel(Searching)' =
            [c \in {0} |-> OneChannel(Searching)[c]
                             /\ (c \in {0} /\ OneChannel(fsm)[c] = 1 => c \in late)]
    <3>1. Searching' = (Searching /\ (fsm = 1 => 0 \in late))
      BY StatesDiffer DEF Searching
    <3> QED
      BY <3>1 DEF OneChannel
  <2>4. OneChannel(trk)' =
            [c \in {0} |-> OneChannel(trk)[c] /\ ~(c \in {0} /\ OneChannel(fsm)[c] = 2)]
    <3>1. trk' = (trk /\ ~(fsm = 2))
      BY StatesDiffer
    <3> QED
      BY <3>1 DEF OneChannel
  <2> QED
    BY <2>1, <2>2, <2>3, <2>4, SoleChannel
       DEF RequestingFsm!Event_stop_channel, RepeatingFsm!Event_stop_channel
<1>2. RequestingFsm!ControlCalls(0) /\ RepeatingFsm!ControlCalls(0)
  BY <1>1 DEF RequestingFsm!ControlCalls, RepeatingFsm!ControlCalls, OneChannel
<1> QED
  BY <1>2, SoleChannel DEF FsmStep, RequestingFsm!FsmNext, RepeatingFsm!FsmNext

(* Every step of the block and its threads is a step of the channel or     *)
(* leaves the mapped variables as they are.                                *)
mapped == <<fsm, Searching, trk, Pending, queue>>

ModeStep == IF conf.repeat THEN RepeatingFsm!FsmNext ELSE RequestingFsm!FsmNext

LEMMA BothModes == FsmStep => [ModeStep]_mapped
  BY DEF FsmStep, ModeStep

LEMMA WorkRefines == ASSUME Work PROVE UNCHANGED mapped
<1>1. UNCHANGED <<fsm, trk, port, queue, rcv, d_step_two>>
  BY DEF Work, WorkPasses, WorkBuffers, WorkLaunchesSearch, frozen, fsmVars
<1>2. Searching' = Searching
  BY DEF Work, WorkPasses, WorkBuffers, WorkLaunchesSearch, Launch, Searching
<1> QED
  BY <1>1, <1>2 DEF mapped, Pending

LEMMA CoreRefinesFsm == ASSUME AcquisitionInv, Core PROVE [ModeStep]_mapped
<1>0. queue \in Seq(0 .. 2) /\ port \in Seq({2, 3})
  BY DEF AcquisitionInv, LockInv, ChannelTypes
<1>1. CASE CoreStarts \/ CoreReportsPositive \/ CoreRefines
  <2>1. UNCHANGED <<fsm, trk, port, queue, rcv>>
    BY <1>1 DEF CoreStarts, CoreReportsPositive, CoreRefines, fsmVars
  <2>2. Searching' = Searching
    BY <1>1 DEF CoreStarts, CoreReportsPositive, CoreRefines, CoreMayDecide, Searching
  <2> QED
    BY <2>1, <2>2 DEF mapped, Pending
<1>2. CASE CoreValid
  <2>1. Searching /\ ~Searching'
    BY <1>2 DEF CoreValid, ResetSearch, CoreEnds, Searching, AcquisitionInv, LockInv,
                SearchState
  <2>2. Pending' = Pending
    BY <1>2 DEF CoreValid, Pending
  <2> QED
    BY <1>0, <1>2, <2>1, <2>2, MapsToPositive, BothModes DEF CoreValid
<1>3. CASE CoreDwellsAgain
  <2>1. /\ UNCHANGED <<fsm, trk, port, queue, rcv, d_active, d_step_two>>
        /\ core = "searching" /\ core' = "none"
    BY <1>3 DEF CoreDwellsAgain, CoreMayDecide, CoreEnds, fsmVars
  <2>2. CASE Searching'
    <3>1. Searching' = Searching
      BY <2>1, <2>2 DEF Searching
    <3> QED
      BY <2>1, <3>1 DEF mapped, Pending
  <2>3. CASE ~Searching'
    <3>1. Searching /\ fsm # 1
      BY <2>1, <2>3 DEF Searching, AcquisitionInv, LockInv, SearchState
    <3> QED
      BY <2>1, <2>3, <3>1, MapsToLateEnd, BothModes DEF Pending
  <2> QED
    BY <2>2, <2>3
<1>4. CASE CoreReportsNegative
  <2>1. Searching /\ ~Searching'
    BY <1>4 DEF CoreReportsNegative, CoreMayDecide, Deactivate, ResetSearch, CoreEnds,
                Searching
  <2>2. Pending' = Append(Pending, 2)
    BY <1>0, <1>4, PendingGrows DEF CoreReportsNegative
  <2> QED
    BY <1>4, <2>1, <2>2, MapsToNegative, BothModes DEF CoreReportsNegative
<1> QED
  BY <1>1, <1>2, <1>3, <1>4 DEF Core

LEMMA ReceiverRefinesFsm ==
    ASSUME AcquisitionInv, Receiver \/ LossOfLock PROVE [ModeStep]_mapped
<1>0. queue \in Seq(0 .. 2) /\ port \in Seq({2, 3})
  BY DEF AcquisitionInv, LockInv, ChannelTypes
<1>1. CASE ReceiverRequestsSatellite
  <2>1. Pending = port /\ Pending' = port' /\ ~conf.repeat
    BY <1>1 DEF ReceiverRequestsSatellite, Received, Pending
  <2>2. Searching' = Searching
    BY <1>1 DEF ReceiverRequestsSatellite, blockVars, Searching
  <2>3. RequestingFsm!FsmNext
    BY <1>0, <1>1, <2>1, <2>2, MapsToRequest DEF ReceiverRequestsSatellite, Received
  <2> QED
    BY <2>1, <2>3 DEF ModeStep
<1>2. CASE ReceiverRepeats
  <2>1. /\ UNCHANGED <<fsm, trk, queue>> /\ conf.repeat
        /\ port # <<>> /\ Head(port) = 2 /\ port' = Tail(port) /\ rcv = "idle"
    BY <1>2 DEF ReceiverRepeats, Received
  <2>2. Searching' = Searching
    BY <1>2 DEF ReceiverRepeats, blockVars, Searching
  <2>3. CASE fsm = 1
    <3>1. rcv' = "resetting"
      BY <1>2, <2>3 DEF ReceiverRepeats
    <3>2. Pending' = Pending
      BY <1>0, <2>1, <3>1, PendingHandled DEF Pending
    <3> QED
      BY <2>1, <2>2, <3>2 DEF mapped
  <2>4. CASE fsm # 1
    <3>1. rcv' = "idle"
      BY <1>2, <2>1, <2>4 DEF ReceiverRepeats
    <3>2. Pending = port /\ Pending' = port'
      BY <2>1, <3>1 DEF Pending
    <3>3. RepeatingFsm!FsmNext
      BY <2>1, <2>2, <2>4, <3>2, MapsToRepeat
    <3> QED
      BY <2>1, <3>3 DEF ModeStep
  <2> QED
    BY <2>3, <2>4
<1>3. CASE ReceiverResets
  <2>1. /\ UNCHANGED <<fsm, trk, queue, port>>
        /\ rcv = "resetting" /\ rcv' = "idle" /\ d_active'
    BY <1>3 DEF ReceiverResets, fsmVars
  <2>2. conf.repeat /\ Searching'
    BY <2>1 DEF AcquisitionInv, LockInv, Waiting, Searching
  <2>3. Pending = <<2>> \o port /\ Pending' = port
    BY <2>1 DEF Pending
  <2>4. Pending # <<>> /\ Head(Pending) = 2 /\ Pending' = Tail(Pending)
    BY <1>0, <2>3, PendingHandled
  <2>5. fsm = 1
    BY <2>1 DEF AcquisitionInv, LockInv, Waiting
  <2>6. RepeatingFsm!FsmNext
    BY <2>1, <2>2, <2>4, <2>5, MapsToRepeat
  <2> QED
    BY <2>2, <2>6 DEF ModeStep
<1>4. CASE ReceiverReleases
  <2>1. Pending = port /\ Pending' = port'
    BY <1>4 DEF ReceiverReleases, Received, Pending
  <2>2. Searching' = Searching
    BY <1>4 DEF ReceiverReleases, blockVars, Searching
  <2> QED
    BY <1>0, <1>4, <2>1, <2>2, MapsToRelease, BothModes DEF ReceiverReleases, Received
<1>5. CASE LossOfLock
  <2>1. Pending' = Append(Pending, 3)
    BY <1>0, <1>5, PendingGrows DEF LossOfLock
  <2>2. Searching' = Searching
    BY <1>5 DEF LossOfLock, blockVars, Searching
  <2> QED
    BY <1>5, <2>1, <2>2, MapsToLoss, BothModes DEF LossOfLock
<1> QED
  BY <1>1, <1>2, <1>3, <1>4, <1>5 DEF Receiver

LEMMA ControlRefinesFsm ==
    ASSUME AcquisitionInv, Control \/ ControlRequestsStop \/ ControlResumes
    PROVE  [ModeStep]_mapped
<1>0. queue \in Seq(0 .. 2) /\ trk \in BOOLEAN
  BY DEF AcquisitionInv, LockInv, ChannelTypes, Flags
<1>1. CASE ControlReads
  <2>1. Searching' = Searching /\ Pending' = Pending
    BY <1>1 DEF ControlReads, blockVars, Searching, Pending
  <2> QED
    BY <1>0, <1>1, <2>1, MapsToRead, BothModes DEF ControlReads
<1>2. CASE ControlSetsSignal \/ ControlStarts \/ ControlRequestsStop \/ ControlResumes
  <2>1. UNCHANGED <<blockVars, core, fsmVars, rcv>>
    BY <1>2 DEF ControlSetsSignal, ControlStarts, ControlRequestsStop, ControlResumes
  <2> QED
    BY <2>1 DEF mapped, Pending, Searching, blockVars, fsmVars
<1>3. CASE ControlActivates
  <2>1. /\ /\ UNCHANGED <<trk, queue, port, rcv>> /\ fsm' = 1 /\ d_active'
        /\ ctl = "starting"
    BY <1>3 DEF ControlActivates
  <2>2. fsm \notin {1, 2}
    <3>1. fsm = 0 \/ fsm = 3
      BY <2>1 DEF AcquisitionInv, LockInv, Waiting
    <3> QED
      BY <3>1
  <2>3. Pending' = Pending /\ Searching'
    BY <2>1 DEF Pending, Searching
  <2> QED
    BY <2>1, <2>2, <2>3, MapsToStart, BothModes
<1>4. CASE ControlStops
  <2>1. UNCHANGED <<queue, port, rcv, d_active, core, d_step_two>>
    BY <1>4 DEF ControlStops, blockVars
  <2>2. Pending' = Pending /\ Searching' = Searching
    BY <2>1 DEF Pending, Searching
  <2>3. CASE fsm = 2
    <3>1. fsm' = 0 /\ trk' = FALSE
      BY <1>4, <2>3 DEF ControlStops
    <3> QED
      BY <1>0, <2>1, <2>2, <2>3, <3>1, MapsToStop, BothModes
  <2>4. CASE fsm # 2
    <3>1. fsm' = fsm /\ trk' = trk
      BY <1>4, <2>4 DEF ControlStops
    <3> QED
      BY <2>1, <2>2, <3>1 DEF mapped
  <2> QED
    BY <2>3, <2>4
<1>5. CASE ControlDeactivates
  <2>1. /\ UNCHANGED <<trk, queue, port, rcv, core, d_step_two>>
        /\ fsm' = 0 /\ ~d_active' /\ ctl = "stopping"
    BY <1>5 DEF ControlDeactivates
  <2>2. fsm = 1
    BY <2>1 DEF AcquisitionInv, LockInv, Waiting
  <2>3. Pending' = Pending /\ (Searching' => Searching)
    BY <2>1 DEF Pending, Searching
  <2> QED
    BY <1>0, <2>1, <2>2, <2>3, MapsToStop, BothModes
<1> QED
  BY <1>1, <1>2, <1>3, <1>4, <1>5 DEF Control

LEMMA StepRefinesFsm == AcquisitionInv /\ [Next]_vars => [ModeStep]_mapped
<1> SUFFICES ASSUME AcquisitionInv, [Next]_vars PROVE [ModeStep]_mapped
  OBVIOUS
<1>1. CASE Next
  BY <1>1, WorkRefines, CoreRefinesFsm, ReceiverRefinesFsm, ControlRefinesFsm DEF Next
<1>2. CASE UNCHANGED vars
  BY <1>2 DEF vars, blockVars, fsmVars, mapped, Pending, Searching
<1> QED
  BY <1>1, <1>2

(* The acquisition block, its threads and its two locks implement one      *)
(* channel of ChannelFsm: every Event_* call appears to be atomic, each    *)
(* search gives at most one verdict, and a stopped search may still give   *)
(* one.  ReceiverControl composes the channels of that specification.      *)
THEOREM AcquisitionIsAChannel == Spec => ImplementsChannelFsm
<1>1. Init => RequestingFsm!FsmInit
  <2> SUFFICES ASSUME Init PROVE RequestingFsm!FsmInit
    OBVIOUS
  <2>1. /\ fsm = 0 /\ Searching = FALSE /\ trk = FALSE /\ Pending = <<>>
        /\ AsEvents(queue) = <<>>
    BY DEF Init, Searching, Pending, AsEvents
  <2>2. OneChannel(fsm) \in [{0} -> {0, 1}]
    BY <2>1 DEF OneChannel
  <2>3. OneChannel(Searching) = [c \in {0} |-> OneChannel(fsm)[c] = 1]
    BY <2>1, StatesDiffer DEF OneChannel
  <2> QED
    BY <2>1, <2>2, <2>3, SoleChannel DEF RequestingFsm!FsmInit, OneChannel
<1> QED
  BY <1>1, AcquisitionInvHolds, StepRefinesFsm, PTL
     DEF Spec, ImplementsChannelFsm, ModeStep, mapped
=============================================================================
