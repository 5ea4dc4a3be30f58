---------------------------- MODULE ChannelFsm ----------------------------
(***************************************************************************)
(* The channels of the receiver: the state machine of each one             *)
(* (ChannelFsm), the block that turns the messages of the acquisition and  *)
(* tracking blocks into events of that machine (channel_msg_receiver_cc),  *)
(* and the calls the flow graph makes on a channel (Channel).              *)
(*                                                                         *)
(* Each Event_* method runs under the mutex mx_ of the machine, so each    *)
(* one is an action.  The threads that call them are the control thread    *)
(* (start and stop), the message thread of channel_msg_receiver_cc and     *)
(* the acquisition thread (Event_valid_acquisition is called directly).    *)
(* The locks those calls nest are the subject of PcpsAcquisition.          *)
(*                                                                         *)
(* A definition introduced as a fault variant is a plausible mistake in    *)
(* the one that follows it.  No specification uses it; the properties are  *)
(* checked to tell the two apart.                                          *)
(***************************************************************************)
EXTENDS Integers, Sequences

CONSTANTS
    NChannels,   \* channels_count_
    Repeat,      \* the channels with Acquisition.repeat_satellite set
    ByPort       \* the channels whose acquisition block has no pointer to the ChannelFsm

ASSUME ChannelsAssumption == NChannels \in Nat \ {0}

Channels == 0 .. (NChannels - 1)

ASSUME ChannelKindsAssumption == Repeat \subseteq Channels /\ ByPort \subseteq Channels

VARIABLES
    state,    \* state_ of ChannelFsm: 0 standby, 1 acquisition, 2 tracking, 3 satellite requested
    acq,      \* the acquisition block is active, or a search of it is still running
    trk,      \* the tracking block of the channel is out of its standby state
    events,   \* input port "events" of channel_msg_receiver_cc, in order of arrival
    queue     \* control_queue_, shared by all the channels and the listeners

fsmVars == <<state, acq, trk, events, queue>>

(* Messages of the control queue: channel_event and command_event objects. *)
ChannelEvent(c, what) == [kind |-> "channel", who |-> c, what |-> what]
CommandEvent(id, what) == [kind |-> "command", who |-> id, what |-> what]

ChannelEvents == {ChannelEvent(c, w) : c \in Channels, w \in 0 .. 2}

-----------------------------------------------------------------------------
(* Calls of the control thread.                                            *)

(* Channel::stop_channel on every channel of S; the callers loop over the  *)
(* channels, so that S is one of them.                                     *)
(* The block is deactivated, but a search that is running is not           *)
(* interrupted: `late' are the channels where one is.                      *)
Event_stop_channel(S) ==
    /\ state' = [c \in Channels |->
                    IF c \in S /\ state[c] \in {1, 2} THEN 0 ELSE state[c]]
    /\ \E late \in SUBSET S :
         acq' = [c \in Channels |-> acq[c] /\ (c \in S /\ state[c] = 1 => c \in late)]
    /\ trk' = [c \in Channels |-> trk[c] /\ ~(c \in S /\ state[c] = 2)]

(* Fault variant: a requested satellite (state 3) does not restart.        *)
StartsFromStandbyOnly(S) ==
    /\ state' = [c \in Channels |-> IF c \in S /\ state[c] = 0 THEN 1 ELSE state[c]]
    /\ acq' = [c \in Channels |-> acq[c] \/ (c \in S /\ state[c] = 0)]
    /\ UNCHANGED trk

(* Channel::start_acquisition on the channels of S: refused, with no       *)
(* effect, in the states 1 and 2.                                          *)
Event_start_acquisition(S) ==
    /\ state' = [c \in Channels |->
                    IF c \in S /\ state[c] \notin {1, 2} THEN 1 ELSE state[c]]
    /\ acq' = [c \in Channels |-> acq[c] \/ (c \in S /\ state[c] \notin {1, 2})]
    /\ UNCHANGED trk

-----------------------------------------------------------------------------
(* The acquisition and tracking blocks.                                    *)

(* Tracking starts and the flow graph is told, under one lock.              *)
Event_valid_acquisition(c) ==
    IF state[c] = 1
      THEN /\ state' = [state EXCEPT ![c] = 2]
           /\ trk' = [trk EXCEPT ![c] = TRUE]
           /\ queue' = Append(queue, ChannelEvent(c, 1))
      ELSE UNCHANGED <<state, trk, queue>>

(* A positive acquisition: the block deactivates itself and reports to the *)
(* state machine, directly when it has a pointer to it.                    *)
PositiveAcquisition(c) ==
    /\ acq[c]
    /\ acq' = [acq EXCEPT ![c] = FALSE]
    /\ IF c \in ByPort
         THEN /\ events' = [events EXCEPT ![c] = Append(@, 1)]
              /\ UNCHANGED <<state, trk, queue>>
         ELSE /\ Event_valid_acquisition(c)
              /\ UNCHANGED events

(* A negative acquisition: the verdict travels through the message port.   *)
NegativeAcquisition(c) ==
    /\ acq[c]
    /\ acq' = [acq EXCEPT ![c] = FALSE]
    /\ events' = [events EXCEPT ![c] = Append(@, 2)]
    /\ UNCHANGED <<state, trk, queue>>

(* A search that was running when the channel was stopped may end without  *)
(* a verdict: it would have needed more dwells, and the block is inactive. *)
LateSearchEnds(c) ==
    /\ acq[c]
    /\ state[c] # 1
    /\ acq' = [acq EXCEPT ![c] = FALSE]
    /\ UNCHANGED <<state, trk, events, queue>>

(* Loss of lock: the tracking block reports it and goes to its standby.    *)
LossOfLock(c) ==
    /\ trk[c]
    /\ trk' = [trk EXCEPT ![c] = FALSE]
    /\ events' = [events EXCEPT ![c] = Append(@, 3)]
    /\ UNCHANGED <<state, acq, queue>>

-----------------------------------------------------------------------------
(* channel_msg_receiver_cc::msg_handler_channel_events, by message.        *)

Event_failed_acquisition_repeat(c) ==
    /\ IF state[c] = 1 THEN acq' = [acq EXCEPT ![c] = TRUE] ELSE UNCHANGED acq
    /\ UNCHANGED <<state, queue>>

(* Fault variant: the block goes on searching while a satellite is         *)
(* requested.                                                              *)
FailureKeepsSearching(c) ==
    /\ state' = [state EXCEPT ![c] = 3]
    /\ queue' = Append(queue, ChannelEvent(c, 0))
    /\ acq' = [acq EXCEPT ![c] = TRUE]

Event_failed_acquisition_no_repeat(c) ==
    /\ IF state[c] = 1
         THEN /\ state' = [state EXCEPT ![c] = 3]
              /\ queue' = Append(queue, ChannelEvent(c, 0))
         ELSE UNCHANGED <<state, queue>>
    /\ UNCHANGED acq

Event_failed_tracking_standby(c) ==
    /\ IF state[c] = 2
         THEN /\ state' = [state EXCEPT ![c] = 0]
              /\ queue' = Append(queue, ChannelEvent(c, 2))
         ELSE UNCHANGED <<state, queue>>
    /\ UNCHANGED acq

HandleValidAcquisition(c) ==
    /\ events[c] # <<>> /\ Head(events[c]) = 1
    /\ events' = [events EXCEPT ![c] = Tail(@)]
    /\ Event_valid_acquisition(c)
    /\ UNCHANGED acq

HandleAcquisitionFailed(c) ==
    /\ events[c] # <<>> /\ Head(events[c]) = 2
    /\ events' = [events EXCEPT ![c] = Tail(@)]
    /\ IF c \in Repeat
         THEN Event_failed_acquisition_repeat(c)
         ELSE Event_failed_acquisition_no_repeat(c)
    /\ UNCHANGED trk

HandleLossOfLock(c) ==
    /\ events[c] # <<>> /\ Head(events[c]) = 3
    /\ events' = [events EXCEPT ![c] = Tail(@)]
    /\ Event_failed_tracking_standby(c)
    /\ UNCHANGED trk

(* Everything a channel does by itself.                                    *)
ChannelStep(c) ==
    \/ PositiveAcquisition(c)
    \/ NegativeAcquisition(c)
    \/ LateSearchEnds(c)
    \/ LossOfLock(c)
    \/ HandleValidAcquisition(c)
    \/ HandleAcquisitionFailed(c)
    \/ HandleLossOfLock(c)

-----------------------------------------------------------------------------
(* The channels on their own, with a control thread that may start and     *)
(* stop them and read the queue as it likes: what the blocks of a channel  *)
(* promise to the rest of the receiver.                                    *)

FsmInit ==
    /\ state \in [Channels -> {0, 1}]
    /\ acq = [c \in Channels |-> state[c] = 1]
    /\ trk = [c \in Channels |-> FALSE]
    /\ events = [c \in Channels |-> <<>>]
    /\ queue = <<>>

ControlCalls(c) ==
    /\ Event_start_acquisition({c}) \/ Event_stop_channel({c})
    /\ UNCHANGED <<events, queue>>

ControlReads ==
    /\ queue # <<>>
    /\ queue' = Tail(queue)
    /\ UNCHANGED <<state, acq, trk, events>>

FsmNext == (\E c \in Channels : ChannelStep(c) \/ ControlCalls(c)) \/ ControlReads

FsmSpec == FsmInit /\ [][FsmNext]_fsmVars
=============================================================================
