-------------------------- MODULE PcpsAcquisition --------------------------
(***************************************************************************)
(* The acquisition block of one channel (pcps_acquisition) and the locks   *)
(* it shares with the state machine of the channel.  Four threads meet     *)
(* here: the GNU Radio scheduler in general_work, the search itself        *)
(* (acquisition_core: a thread of its own, or the scheduler's in blocking  *)
(* mode), the control thread that starts and stops the channel, and the    *)
(* thread of channel_msg_receiver_cc.                                      *)
(*                                                                         *)
(* d_setlock protects the block and mx_ the state machine.  The search     *)
(* reports a positive result with d_setlock held and needs mx_ for it; the *)
(* events of the state machine hold mx_ and need d_setlock to activate or  *)
(* deactivate the block.  A step that takes and releases one lock only is  *)
(* one action, guarded by that lock being free.                            *)
(***************************************************************************)
EXTENDS Integers, Sequences

CONSTANTS
    MaxDwells,      \* max_dwells
    Configs,        \* the configurations of the block to consider
    MaxStops,       \* bound on the calls of stop_channel
    MaxQueue        \* bound on the events of the channel nobody has read yet

(* make_2_steps, bit_transition_flag and blocking of the block, and        *)
(* repeat_satellite of channel_msg_receiver_cc.                            *)
AllConfigs == [two_steps : BOOLEAN, bit_transition : BOOLEAN,
               blocking : BOOLEAN, repeat : BOOLEAN]

ASSUME AcquisitionAssumption ==
    /\ MaxDwells \in Nat \ {0}
    /\ Configs \subseteq AllConfigs
    /\ MaxStops \in Nat /\ MaxQueue \in Nat

VARIABLES
    conf,             \* the configuration, read when the block is made
    d_state,          \* 0 restart, 1 filling the buffer, 2 buffer full
    d_active,
    d_worker_active,
    d_step_two,       \* the second, finer search is on
    dwells,           \* d_num_noncoherent_integrations_counter
    core,             \* where acquisition_core is
    setlock,          \* owner of d_setlock
    mx,               \* owner of mx_ of the ChannelFsm
    fsm,              \* state_ of the ChannelFsm
    trk,              \* the tracking block is out of its standby state
    port,             \* messages on the way to channel_msg_receiver_cc
    queue,            \* events of the channel in the control queue
    ctl,              \* where the control thread is
    rcv,              \* where the message thread is
    target,           \* the satellite the channel is set to, one of two
    searched,         \* the satellite acquisition_core started to search
    stops             \* calls of stop_channel so far

blockVars == <<d_state, d_active, d_worker_active, d_step_two, dwells>>
fsmVars == <<fsm, trk, port, queue>>
signalVars == <<target, searched>>
frozen == <<conf, stops>>
vars == <<conf, blockVars, core, setlock, mx, fsmVars, ctl, rcv, target, searched, stops>>

Init ==
    /\ conf \in Configs
    /\ d_state = 0
    /\ d_active = FALSE
    /\ d_worker_active = FALSE
    /\ d_step_two = FALSE
    /\ dwells = 0
    /\ core = "none"
    /\ setlock = "free"
    /\ mx = "free"
    /\ fsm = 0
    /\ trk = FALSE
    /\ port = <<>>
    /\ queue = <<>>
    /\ ctl = "idle"
    /\ rcv = "idle"
    /\ target = 0
    /\ searched = 0
    /\ stops = 0

-----------------------------------------------------------------------------
(* general_work, in the scheduler's thread.  In blocking mode that thread  *)
(* runs acquisition_core and is not available meanwhile.                   *)

WorkCalled ==
    /\ setlock = "free"
    /\ ~(conf.blocking /\ core # "none")

(* Not active, or the search thread is busy.                               *)
WorkPasses ==
    /\ WorkCalled
    /\ ~d_active \/ d_worker_active
    /\ IF d_step_two THEN d_state' = 0 /\ d_active' = TRUE
                     ELSE UNCHANGED <<d_state, d_active>>
    /\ UNCHANGED <<frozen, d_worker_active, d_step_two, dwells, core, setlock,
                   mx, fsmVars, ctl, rcv, signalVars>>

(* Buffering: the number of calls it takes is left open.                   *)
WorkBuffers ==
    /\ WorkCalled
    /\ d_active /\ ~d_worker_active
    /\ d_state \in {0, 1}
    /\ d_state' = d_state + 1
    /\ UNCHANGED <<frozen, d_active, d_worker_active, d_step_two, dwells, core,
                   setlock, mx, fsmVars, ctl, rcv, signalVars>>

(* The thread is marked as busy before it can run.  The fault variant of   *)
(* an operator, like the first one here, is a plausible mistake that the   *)
(* properties must tell from it; the specification does not use it.        *)
LaunchUnmarked == core' = "launched" /\ d_worker_active' = FALSE

Launch == core' = "launched" /\ d_worker_active' = ~conf.blocking

WorkLaunchesSearch ==
    /\ WorkCalled
    /\ d_active /\ ~d_worker_active
    /\ d_state = 2
    /\ Launch
    /\ UNCHANGED <<frozen, d_state, d_active, d_step_two, dwells, setlock, mx,
                   fsmVars, ctl, rcv, signalVars>>

-----------------------------------------------------------------------------
(* acquisition_core.                                                       *)

DwellNotCounted == dwells' = dwells

CountDwell == dwells' = dwells + 1

(* It takes the lock; the search proper runs unlocked in blocking mode.    *)
CoreStarts ==
    /\ core = "launched"
    /\ setlock = "free"
    /\ CountDwell
    /\ searched' = target
    /\ core' = "searching"
    /\ setlock' = IF conf.blocking THEN "free" ELSE "core"
    /\ UNCHANGED <<frozen, d_state, d_active, d_worker_active, d_step_two, mx,
                   fsmVars, ctl, rcv, target>>

CoreMayDecide ==
    /\ core = "searching"
    /\ setlock = IF conf.blocking THEN "free" ELSE "core"

CoreEnds ==
    /\ core' = "none"
    /\ setlock' = "free"
    /\ d_worker_active' = FALSE

StaysActive == d_active' = d_active

Deactivate == d_active' = FALSE

(* After a verdict the counter restarts and the second step is over.       *)
ResetForgetsDwells == dwells' = dwells /\ d_step_two' = FALSE
ResetForgetsStepTwo == dwells' = 0 /\ d_step_two' = d_step_two

ResetSearch == dwells' = 0 /\ d_step_two' = FALSE

Final == d_step_two \/ ~conf.two_steps

(* Above the threshold in the last step: the state machine is told while   *)
(* d_setlock is held.                                                      *)
CoreReportsPositive ==
    /\ CoreMayDecide
    /\ Final
    /\ Deactivate
    /\ core' = "reporting"
    /\ setlock' = "core"
    /\ UNCHANGED <<frozen, d_state, d_worker_active, d_step_two, dwells, mx,
                   fsmVars, ctl, rcv, signalVars>>

(* Event_valid_acquisition, and the rest of acquisition_core.              *)
CoreValid ==
    /\ core = "reporting"
    /\ mx = "free"
    /\ IF fsm = 1
         THEN fsm' = 2 /\ trk' = TRUE /\ queue' = Append(queue, 1)
         ELSE UNCHANGED <<fsm, trk, queue>>
    /\ d_state' = 0
    /\ ResetSearch
    /\ CoreEnds
    /\ UNCHANGED <<frozen, d_active, mx, port, ctl, rcv, signalVars>>

(* Above the threshold in the first of two steps: a finer search follows.  *)
CoreRefines ==
    /\ CoreMayDecide
    /\ ~Final
    /\ Deactivate
    /\ d_step_two' = TRUE
    /\ dwells' = 0
    /\ d_state' = 0
    /\ CoreEnds
    /\ UNCHANGED <<frozen, mx, fsmVars, ctl, rcv, signalVars>>

(* Below the threshold with dwells left: integrate one more buffer.        *)
CoreDwellsAgain ==
    /\ CoreMayDecide
    /\ ~conf.bit_transition
    /\ dwells # MaxDwells
    /\ d_state' = 1
    /\ CoreEnds
    /\ UNCHANGED <<frozen, d_active, d_step_two, dwells, mx, fsmVars, ctl, rcv,
                   signalVars>>

(* Below the threshold and no dwell left: negative acquisition.            *)
CoreReportsNegative ==
    /\ CoreMayDecide
    /\ conf.bit_transition \/ dwells = MaxDwells
    /\ port' = Append(port, 2)
    /\ d_state' = 0
    /\ Deactivate
    /\ ResetSearch
    /\ CoreEnds
    /\ UNCHANGED <<frozen, mx, fsm, trk, queue, ctl, rcv, signalVars>>

Core == \/ CoreStarts \/ CoreReportsPositive \/ CoreValid
        \/ CoreRefines \/ CoreDwellsAgain \/ CoreReportsNegative

-----------------------------------------------------------------------------
(* channel_msg_receiver_cc.                                                *)

Received(what) ==
    /\ rcv = "idle"
    /\ port # <<>> /\ Head(port) = what
    /\ mx = "free"
    /\ port' = Tail(port)

(* Fault variant: the state is not looked at.                              *)
RequestsAnyway ==
    /\ Received(2)
    /\ ~conf.repeat
    /\ fsm' = 3 /\ queue' = Append(queue, 0)
    /\ UNCHANGED <<frozen, blockVars, core, setlock, mx, trk, ctl, rcv, signalVars>>

(* Event_failed_acquisition_no_repeat.                                     *)
ReceiverRequestsSatellite ==
    /\ Received(2)
    /\ ~conf.repeat
    /\ IF fsm = 1 THEN fsm' = 3 /\ queue' = Append(queue, 0) ELSE UNCHANGED <<fsm, queue>>
    /\ UNCHANGED <<frozen, blockVars, core, setlock, mx, trk, ctl, rcv, signalVars>>

(* Event_failed_acquisition_repeat: mx_ is held while the block is reset.  *)
ReceiverRepeats ==
    /\ Received(2)
    /\ conf.repeat
    /\ IF fsm = 1 THEN rcv' = "resetting" /\ mx' = "receiver"
                  ELSE UNCHANGED <<rcv, mx>>
    /\ UNCHANGED <<frozen, blockVars, core, setlock, fsm, trk, queue, ctl, signalVars>>

ReceiverResets ==
    /\ rcv = "resetting"
    /\ setlock = "free"
    /\ d_active' = TRUE
    /\ rcv' = "idle"
    /\ mx' = "free"
    /\ UNCHANGED <<frozen, d_state, d_worker_active, d_step_two, dwells, core,
                   setlock, fsmVars, ctl, signalVars>>

(* Event_failed_tracking_standby.                                          *)
ReceiverReleases ==
    /\ Received(3)
    /\ IF fsm = 2 THEN fsm' = 0 /\ queue' = Append(queue, 2) ELSE UNCHANGED <<fsm, queue>>
    /\ UNCHANGED <<frozen, blockVars, core, setlock, mx, trk, ctl, rcv, signalVars>>

(* Loss of lock: the tracking block reports it and goes to its standby.    *)
LossOfLock ==
    /\ trk
    /\ trk' = FALSE
    /\ port' = Append(port, 3)
    /\ UNCHANGED <<frozen, blockVars, core, setlock, mx, fsm, queue, ctl, rcv, signalVars>>

-----------------------------------------------------------------------------
(* The control thread.                                                     *)

(* The control thread reads an event of the channel.                       *)
ControlReads ==
    /\ ctl = "idle"
    /\ queue # <<>>
    /\ queue' = Tail(queue)
    /\ UNCHANGED <<frozen, blockVars, core, setlock, mx, fsm, trk, port, ctl, rcv, signalVars>>

(* Channel::set_signal, called for a channel whose failure or loss was     *)
(* read, or, after a standby, whatever is still in the queue;              *)
(* set_local_code takes d_setlock.  It may be the same satellite again.    *)
ControlSetsSignal ==
    /\ ctl = "idle"
    /\ fsm \in {0, 3}
    /\ queue = <<>> \/ (stops > 0 /\ Len(queue) < MaxQueue)
    /\ setlock = "free"
    /\ target' \in 0 .. 1
    /\ ctl' = "signal set"
    /\ UNCHANGED <<frozen, blockVars, core, setlock, mx, fsmVars, rcv,
                   searched>>

(* Event_start_acquisition.  It assigns state_ before it activates the     *)
(* block; mx_ is held until both are done and nobody reads state_ without  *)
(* it, so the model assigns it in the step that releases mx_.              *)
ControlStarts ==
    /\ ctl = "signal set"
    /\ mx = "free"
    /\ IF fsm \in {1, 2}
         THEN ctl' = "idle" /\ UNCHANGED mx
         ELSE ctl' = "starting" /\ mx' = "control"
    /\ UNCHANGED <<frozen, blockVars, core, setlock, fsmVars, rcv, signalVars>>

ControlActivates ==
    /\ ctl = "starting"
    /\ setlock = "free"
    /\ d_active' = TRUE
    /\ fsm' = 1
    /\ ctl' = "idle"
    /\ mx' = "free"
    /\ UNCHANGED <<frozen, d_state, d_worker_active, d_step_two, dwells, core,
                   setlock, trk, port, queue, rcv, signalVars>>

(* stop_channel is requested by a standby command or by the shutdown.      *)
ControlRequestsStop ==
    /\ stops < MaxStops
    /\ ctl = "idle"
    /\ stops' = stops + 1
    /\ ctl' = "stop requested"
    /\ UNCHANGED <<conf, blockVars, core, setlock, mx, fsmVars, rcv,
                   signalVars>>

(* Event_stop_channel; as above, state_ is assigned when mx_ is released.  *)
ControlStops ==
    /\ ctl = "stop requested"
    /\ mx = "free"
    /\ IF fsm = 1
         THEN ctl' = "stopping" /\ mx' = "control"
         ELSE ctl' = "stopped" /\ UNCHANGED mx
    /\ IF fsm = 2 THEN fsm' = 0 /\ trk' = FALSE ELSE UNCHANGED <<fsm, trk>>
    /\ UNCHANGED <<frozen, blockVars, core, setlock, port, queue, rcv, signalVars>>

ControlDeactivates ==
    /\ ctl = "stopping"
    /\ setlock = "free"
    /\ d_active' = FALSE
    /\ fsm' = 0
    /\ ctl' = "stopped"
    /\ mx' = "free"
    /\ UNCHANGED <<frozen, d_state, d_worker_active, d_step_two, dwells, core,
                   setlock, trk, port, queue, rcv, signalVars>>

(* A start command after the standby.                                      *)
ControlResumes ==
    /\ ctl = "stopped"
    /\ ctl' = "idle"
    /\ UNCHANGED <<frozen, blockVars, core, setlock, mx, fsmVars, rcv,
                   signalVars>>

Work == WorkPasses \/ WorkBuffers \/ WorkLaunchesSearch

Receiver ==
    ReceiverRequestsSatellite \/ ReceiverRepeats \/ ReceiverResets \/ ReceiverReleases

(* The calls the control thread completes once it has begun them.          *)
Control ==
    \/ ControlReads \/ ControlSetsSignal \/ ControlStarts \/ ControlActivates
    \/ ControlStops \/ ControlDeactivates

Next ==
    \/ Work \/ Core \/ Receiver \/ LossOfLock
    \/ Control \/ ControlRequestsStop \/ ControlResumes

Spec == Init /\ [][Next]_vars

(* Samples keep coming and every thread is scheduled; nobody has to stop   *)
(* or resume the channel, and a tracked signal need not be lost.           *)
FairSpec ==
    /\ Spec
    /\ WF_vars(Work) /\ WF_vars(Core) /\ WF_vars(Receiver) /\ WF_vars(Control)

-----------------------------------------------------------------------------
(* Properties.                                                             *)

(* Types; the counter of dwells never passes max_dwells, which is tested   *)
(* for equality and would never be met again.                              *)
TypeOK ==
    /\ d_state \in 0 .. 2
    /\ {d_active, d_worker_active, d_step_two} \subseteq BOOLEAN
    /\ dwells \in 0 .. MaxDwells
    /\ core \in {"none", "launched", "searching", "reporting"}
    /\ setlock \in {"free", "core"}
    /\ mx \in {"free", "control", "receiver"}
    /\ fsm \in 0 .. 3
    /\ trk \in BOOLEAN /\ port \in Seq({2, 3}) /\ queue \in Seq(0 .. 2)
    /\ ctl \in {"idle", "signal set", "starting", "stop requested", "stopping", "stopped"}
    /\ rcv \in {"idle", "resetting"}
    /\ target \in 0 .. 1 /\ searched \in 0 .. 1
    /\ stops \in 0 .. MaxStops /\ conf \in Configs

(* One search at a time, however the channel is stopped and restarted: no  *)
(* search is launched while another one has the buffers of the block.      *)
SingleSearch ==
    d_active /\ ~d_worker_active /\ d_state = 2 /\ WorkCalled => core = "none"

(* A new satellite is never searched with what is left of the search of    *)
(* another: when the block is activated no dwell is counted, no second     *)
(* step is pending and no search is running.  set_active(false) resets     *)
(* none of these, so this is said of a channel that is never stopped.      *)
FreshStart ==
    stops = 0 /\ ctl = "starting"
        => dwells = 0 /\ ~d_step_two /\ core = "none" /\ port = <<>>

(* A positive result starts tracking only for the satellite that was       *)
(* searched, on a channel that is never stopped.                           *)
VerdictIsForTarget == stops = 0 /\ core = "reporting" /\ fsm = 1 => searched = target

(* Every acquisition ends, with tracking or with a request for another     *)
(* satellite, unless the configuration asks to repeat failed ones or the   *)
(* channel is stopped.                                                     *)
AcquisitionEnds == fsm = 1 /\ ~conf.repeat ~> fsm \in {2, 3} \/ stops > 0

(* stop_channel returns.                                                   *)
StopReturns == ctl = "stop requested" ~> ctl = "stopped"

-----------------------------------------------------------------------------
(* Refinement: the block, its threads and its locks are one channel of     *)
(* ChannelFsm.  The block counts as searching from its activation to its   *)
(* verdict, the pauses between two steps of a search included, and a       *)
(* message counts as received when the event it causes is over.            *)

Searching == d_active \/ core # "none" \/ d_step_two

Pending == IF rcv = "resetting" THEN <<2>> \o port ELSE port

OneChannel(x) == [c \in {0} |-> x]

AsEvents(q) == [k \in DOMAIN q |-> [kind |-> "channel", who |-> 0, what |-> q[k]]]

RequestingFsm == INSTANCE ChannelFsm WITH
    NChannels <- 1, Repeat <- {}, ByPort <- {},
    state <- OneChannel(fsm), acq <- OneChannel(Searching), trk <- OneChannel(trk),
    events <- OneChannel(Pending), queue <- AsEvents(queue)

RepeatingFsm == INSTANCE ChannelFsm WITH
    NChannels <- 1, Repeat <- {0}, ByPort <- {},
    state <- OneChannel(fsm), acq <- OneChannel(Searching), trk <- OneChannel(trk),
    events <- OneChannel(Pending), queue <- AsEvents(queue)

(* Seen from the control thread, the block with its threads is a channel   *)
(* of ChannelFsm, stopped and restarted at any moment: each search gives   *)
(* at most one verdict, after a stop it may still give one, and every      *)
(* event of the state machine appears to be atomic although it holds two   *)
(* locks.  The configuration never changes, so either mode implements the  *)
(* channel of its kind.                                                    *)
ImplementsChannelFsm ==
    /\ RequestingFsm!FsmInit
    /\ [][IF conf.repeat THEN RepeatingFsm!FsmNext ELSE RequestingFsm!FsmNext]_<<fsm,
            Searching, trk, Pending, queue>>
=============================================================================
