-------------------------- MODULE ReceiverControl --------------------------
(***************************************************************************)
(* The control plane of the receiver: the control thread (ControlThread),  *)
(* which pops the control queue and, when it stays empty for 100 ms, looks *)
(* for idle channels; the acquisition manager and the lists of available   *)
(* signals of the flow graph (GNSSFlowgraph); and the channels of          *)
(* ChannelFsm, which push their events on the queue while the control      *)
(* thread is busy.                                                         *)
(*                                                                         *)
(* A handler of the control thread loops over the channels, and events of  *)
(* the channels interleave with that loop.  `handler' is the program       *)
(* counter of the loop; nothing else of the control thread runs until it   *)
(* is idle again.  A satellite is its PRN, 0 stands for none (the value of *)
(* ChannelN.satellite when the configuration does not fix one), and a      *)
(* signal is a PRN in the list of a band.                                  *)
(***************************************************************************)
EXTENDS ChannelFsm, FiniteSets

CONSTANTS
    MaxAcq,       \* Channels.in_acquisition
    NSats,        \* satellites of each band
    Bands,        \* "1C", "2S", "1B", "5X", ...
    Primary,      \* the bands search_next_signal marks as primary
    Glonass,      \* the bands of GLONASS, "1G" and "2G"
    AssistedBy,   \* for each band, the band whose tracked satellites assist it
    BandOf,       \* signal of each channel
    FixedSat,     \* ChannelN.satellite
    AssistDual,   \* GNSS-SDR.assist_dual_frequency_acq
    Agnss,        \* assistance data loaded at start-up (SUPL or XML)
    VisibleLists, \* what get_visible_sats may return, by the band it is about
    Commands,     \* <<id, what>> of the commands the listeners may push
    MaxCommands   \* bound on the commands of a behaviour

Sats == 1 .. NSats
NoBand == "none"

BandChannels(b) == {c \in Channels : BandOf[c] = b}

(* No element of a list appears in it twice.                               *)
NoRepeats(list) == \A i, j \in 1 .. Len(list) : list[i] = list[j] => i = j

ASSUME ControlAssumption ==
    /\ MaxAcq \in 0 .. NChannels
    /\ NSats \in Nat
    /\ Primary \subseteq Bands /\ Glonass \subseteq Bands
    /\ AssistedBy \in [Bands -> Primary \cup {NoBand}]
    /\ BandOf \in [Channels -> Bands]
    /\ FixedSat \in [Channels -> 0 .. NSats]
    /\ AssistDual \in BOOLEAN /\ Agnss \in BOOLEAN
    /\ VisibleLists \subseteq [Bands -> Seq(Sats)]
    /\ \A visible \in VisibleLists, b \in Bands : NoRepeats(visible[b])
    /\ Commands \subseteq {200, 300} \X (0 .. 13)
    /\ MaxCommands \in Nat

VARIABLES
    channels_state,  \* channels_state_: 0 idle, 1 in acquisition, 2 in tracking
    acq_count,       \* acq_channels_count_
    available,       \* available_*_signals_, for each band
    assigned,        \* PRN of gnss_signal_ of each channel
    status,          \* d_channel_status_map: PRN last reported by each channel, 0 if absent
    handler,         \* the loop the control thread is in
    standby,         \* receiver_on_standby_
    stop,            \* stop_
    running,         \* running_ of the flow graph
    commands         \* commands the listeners may still push

flowgraphVars == <<channels_state, acq_count, available, assigned>>
threadVars == <<standby, stop, running, commands>>
vars == <<fsmVars, flowgraphVars, threadVars, status, handler>>

(* The loops of the control thread; `gs' is the signal apply_action pushes *)
(* back after the acquisition manager returns, 0 if none.                  *)
Idle == [loop |-> "none", who |-> 0, i |-> 0, gs |-> 0]
Managing(who, gs) == [loop |-> "manager", who |-> who, i |-> 0, gs |-> gs]
Stopping(loop) == [loop |-> loop, who |-> 0, i |-> 0, gs |-> 0]

-----------------------------------------------------------------------------
(* The lists of available signals.                                         *)

Listed(list) == {list[i] : i \in 1 .. Len(list)}

(* The elements of a list that are in S, in the order of the list.         *)
Chosen(list, S) == {i \in 1 .. Len(list) : list[i] \in S}
Rank(P, i) == Cardinality({j \in P : j <= i})

Keep(list, S) ==
    LET P == Chosen(list, S)
    IN  [k \in 1 .. Cardinality(P) |-> list[CHOOSE i \in P : Rank(P, i) = k]]

remove_signal(list, s) == Keep(list, Listed(list) \ {s})

(* Fault variants: the signal is lost, listed twice, or put first.         *)
push_back_loses(list, s) == remove_signal(list, s)
push_back_repeats(list, s) == Append(list, s)
push_front(list, s) == <<s>> \o remove_signal(list, s)

push_back_signal(list, s) == Append(remove_signal(list, s), s)

rotate(list) == Append(Tail(list), Head(list))

(* Each visible satellite still in the list moves to the front, the last   *)
(* one of the argument to the very front.                                  *)
priorize_satellites(list, visible) ==
    LET found == Keep(visible, Listed(list))
    IN  [i \in 1 .. Len(found) |-> found[Len(found) + 1 - i]]
          \o Keep(list, Listed(list) \ Listed(visible))

(* The channels of the status map that can assist band b now: they report  *)
(* a satellite on the assisting band that is available on b.               *)
Assistants(b) ==
    {d \in Channels : /\ BandOf[d] = AssistedBy[b]
                      /\ status[d] \in Listed(available[b])}

(* The satellite search_next_signal returns, and the list it leaves.       *)
NextSat(b) ==
    IF Assistants(b) = {}
      THEN Head(available[b])
      ELSE status[CHOOSE d \in Assistants(b) : \A e \in Assistants(b) : d <= e]

(* Fault variant: an assisted satellite is still offered.                  *)
ListStillOffers(b) == IF Assistants(b) = {} THEN rotate(available[b]) ELSE available[b]

ListAfterSearch(b) ==
    IF Assistants(b) = {}
      THEN rotate(available[b])
      ELSE remove_signal(available[b], NextSat(b))

-----------------------------------------------------------------------------
(* The state when the main loop starts: set_signals_list and               *)
(* set_channels_state have run, assign_channels has taken the fixed        *)
(* satellites out and given each other channel the next satellite of its   *)
(* band, and the first MaxAcq channels are in acquisition.                 *)

(* assign_channels: the channels with a fixed satellite come first; then,  *)
(* in channel order, the n-th other channel of a band takes the n-th       *)
(* satellite of the list, which rotates.                                   *)
Free(b) == {c \in BandChannels(b) : FixedSat[c] = 0}
Fixed(b) == {FixedSat[c] : c \in BandChannels(b)} \ {0}
InitialList(b) == Keep([i \in 1 .. NSats |-> i], Sats \ Fixed(b))
Turn(c) == Cardinality({d \in Free(BandOf[c]) : d <= c})

assign_channels ==
    /\ assigned = [c \in Channels |->
                      IF FixedSat[c] # 0 THEN FixedSat[c]
                      ELSE LET l == InitialList(BandOf[c])
                           IN  l[((Turn(c) - 1) % Len(l)) + 1]]
    /\ available = [b \in Bands |->
                       LET l == InitialList(b)
                           k == IF Free(b) = {} THEN 0 ELSE Cardinality(Free(b)) % Len(l)
                       IN  SubSeq(l, k + 1, Len(l)) \o SubSeq(l, 1, k)]

(* The configurations that assign_channels accepts: one satellite more     *)
(* than channels, except that a GLONASS band may have seven channels more  *)
(* than the signals of its list (two satellites share a frequency number). *)
EnoughSatellites ==
    \A b \in Bands :
        Cardinality(BandChannels(b)) <= IF b \in Glonass THEN NSats + 7 ELSE NSats - 1

ASSUME ChannelsFit == EnoughSatellites

(* No GLONASS band makes use of that exception.  When one does, all the    *)
(* signals of its list may be tracked while a channel looks for one, and   *)
(* the front of the empty list is undefined (Head(<<>>) in NextSat).       *)
Uncrowded == \A b \in Glonass : Cardinality(BandChannels(b)) < NSats

set_channels_state ==
    /\ channels_state = [c \in Channels |-> IF c < MaxAcq THEN 1 ELSE 0]
    /\ acq_count = MaxAcq

Init ==
    /\ events = [c \in Channels |-> <<>>]
    /\ queue = <<>>
    /\ trk = [c \in Channels |-> FALSE]
    /\ assign_channels
    /\ set_channels_state
    /\ state = [c \in Channels |-> IF c < MaxAcq THEN 1 ELSE 0]
    /\ acq = [c \in Channels |-> c < MaxAcq]
    /\ status = [c \in Channels |-> 0]
    /\ handler = IF Agnss THEN Stopping("assist") ELSE Idle
    /\ standby = FALSE
    /\ stop = FALSE
    /\ running = TRUE
    /\ commands = MaxCommands

-----------------------------------------------------------------------------
(* GNSSFlowgraph::acquisition_manager, one channel of its loop at a time.  *)

(* Fault variant: the loop begins with the channel that has just failed.   *)
CurrentFirst == (handler.i + handler.who) % NChannels

Current == (handler.i + handler.who + 1) % NChannels

Advance == handler' = [handler EXCEPT !.i = @ + 1]

ManagerTurn ==
    /\ handler.loop = "manager"
    /\ handler.i < NChannels

(* Fault variant: an idle channel always gets a slot.                      *)
SlotIgnored(c) == channels_state[c] = 0

SlotFor(c) == acq_count < MaxAcq /\ channels_state[c] = 0

(* No slot, or the channel is busy.                                        *)
ManagerSkips ==
    /\ ManagerTurn
    /\ ~SlotFor(Current)
    /\ Advance
    /\ UNCHANGED <<fsmVars, flowgraphVars, threadVars, status>>

StartChannel(c) ==
    /\ channels_state' = [channels_state EXCEPT ![c] = 1]
    /\ acq_count' = acq_count + 1
    /\ Event_start_acquisition({c})
    /\ UNCHANGED <<events, queue>>

(* The channel has a satellite of its own.                                 *)
ManagerStartsFixed ==
    /\ ManagerTurn
    /\ SlotFor(Current)
    /\ FixedSat[Current] # 0
    /\ StartChannel(Current)
    /\ Advance
    /\ UNCHANGED <<available, assigned, threadVars, status>>

StartAllowed(b) == b \in Primary \/ Assistants(b) # {} \/ ~AssistDual

(* The channel takes the next signal of its band; on a secondary band      *)
(* without assistance the signal goes back and the channel stays idle.     *)
ManagerSearches ==
    /\ ManagerTurn
    /\ SlotFor(Current)
    /\ FixedSat[Current] = 0
    /\ LET b == BandOf[Current]
       IN  /\ assigned' = [assigned EXCEPT ![Current] = NextSat(b)]
           /\ IF StartAllowed(b)
                THEN /\ available' = [available EXCEPT ![b] = ListAfterSearch(b)]
                     /\ StartChannel(Current)
                ELSE /\ available' = [available EXCEPT
                            ![b] = push_back_signal(ListAfterSearch(b), NextSat(b))]
                     /\ UNCHANGED <<fsmVars, channels_state, acq_count>>
    /\ Advance
    /\ UNCHANGED <<threadVars, status>>

(* Return of the manager; a failed acquisition then gives its signal back. *)
ManagerReturns ==
    /\ handler.loop = "manager"
    /\ handler.i = NChannels
    /\ IF handler.gs # 0
         THEN LET b == BandOf[handler.who]
              IN  available' = [available EXCEPT ![b] = push_back_signal(@, handler.gs)]
         ELSE UNCHANGED available
    /\ handler' = Idle
    /\ UNCHANGED <<fsmVars, channels_state, acq_count, assigned, threadVars, status>>

acquisition_manager ==
    ManagerSkips \/ ManagerStartsFixed \/ ManagerSearches \/ ManagerReturns

-----------------------------------------------------------------------------
(* GNSSFlowgraph::apply_action for the events of the channels.             *)

(* The main loop of ControlThread::run pops the front of the queue.  Its   *)
(* test of stop_ and the pop are one step: what is popped just after the   *)
(* quit key could as well have been popped just before it.                 *)
Popped(kind) ==
    /\ running /\ ~stop
    /\ handler = Idle
    /\ queue # <<>>
    /\ Head(queue).kind = kind
    /\ queue' = Tail(queue)

(* Fault variant: standby is not looked at.                                *)
PoppedAnyway(what) == Popped("channel") /\ Head(queue).what = what

ChannelEventPopped(what) ==
    /\ Popped("channel")
    /\ ~standby
    /\ Head(queue).what = what

Who == Head(queue).who

(* Fault variants: not decremented, and not guarded.                       *)
NotDecremented == acq_count
Unguarded == acq_count - 1

Decremented == IF acq_count > 0 THEN acq_count - 1 ELSE acq_count

(* What a failed channel gives back.  Fault variant: fixed satellites too. *)
GivesAllBack(c) == assigned[c]
GivesBack(c) == IF FixedSat[c] = 0 THEN assigned[c] ELSE 0

AcquisitionFailed ==
    /\ ChannelEventPopped(0)
    /\ channels_state' = [channels_state EXCEPT ![Who] = 0]
    /\ acq_count' = Decremented
    /\ handler' = Managing(Who, GivesBack(Who))
    /\ UNCHANGED <<state, acq, trk, events, available, assigned, threadVars, status>>

AcquisitionSucceeded ==
    /\ ChannelEventPopped(1)
    /\ available' = [available EXCEPT ![BandOf[Who]] = remove_signal(@, assigned[Who])]
    /\ channels_state' = [channels_state EXCEPT ![Who] = 2]
    /\ acq_count' = Decremented
    /\ handler' = Managing(Who, 0)
    /\ UNCHANGED <<state, acq, trk, events, assigned, threadVars, status>>

(* The same satellite is tried again if there is a slot; otherwise the     *)
(* channel goes idle and its signal is given back.                         *)
TrackingLost ==
    /\ ChannelEventPopped(2)
    /\ IF acq_count < MaxAcq
         THEN /\ channels_state' = [channels_state EXCEPT ![Who] = 1]
              /\ acq_count' = acq_count + 1
              /\ Event_start_acquisition({Who})
              /\ UNCHANGED available
         ELSE /\ channels_state' = [channels_state EXCEPT ![Who] = 0]
              /\ available' = IF FixedSat[Who] # 0 THEN available
                              ELSE [available EXCEPT ![BandOf[Who]] =
                                        push_back_signal(@, assigned[Who])]
              /\ UNCHANGED <<acq_count, state, acq, trk>>
    /\ UNCHANGED <<events, assigned, handler, threadVars, status>>

(* ControlThread::event_dispatcher drops channel events in standby.        *)
EventDropped ==
    /\ Popped("channel")
    /\ standby
    /\ UNCHANGED <<state, acq, trk, events, flowgraphVars, threadVars, status, handler>>

(* Nothing came in 100 ms: low-priority management.                        *)
Timeout ==
    /\ running /\ ~stop /\ ~standby
    /\ handler = Idle
    /\ queue = <<>>
    /\ handler' = Managing(0, 0)
    /\ UNCHANGED <<fsmVars, flowgraphVars, threadVars, status>>

(* In standby the same timeout does nothing.                               *)
TimeoutInStandby ==
    /\ running /\ ~stop /\ standby
    /\ handler = Idle
    /\ queue = <<>>
    /\ UNCHANGED vars

-----------------------------------------------------------------------------
(* Standby: apply_action(.., 10), one channel of its loop at a time.       *)

StoppingTurn ==
    /\ handler.loop \in {"standby", "assist"}
    /\ handler.i < NChannels

StandbyStopsChannel ==
    /\ StoppingTurn
    /\ channels_state[handler.i] \in {1, 2}
    /\ available' = [available EXCEPT ![BandOf[handler.i]] =
                        push_back_signal(@, assigned[handler.i])]
    /\ Event_stop_channel({handler.i})
    /\ channels_state' = [channels_state EXCEPT ![handler.i] = 0]
    /\ Advance
    /\ UNCHANGED <<events, queue, acq_count, assigned, threadVars, status>>

StandbySkips ==
    /\ StoppingTurn
    /\ channels_state[handler.i] = 0
    /\ Advance
    /\ UNCHANGED <<fsmVars, flowgraphVars, threadVars, status>>

(* The end of the loop.  When the assistance of the start-up asked for it, *)
(* the visible satellites go first; its "hot start" (what = 12) has no     *)
(* case in apply_action.                                                   *)
StandbyReturns ==
    /\ handler.loop \in {"standby", "assist"}
    /\ handler.i = NChannels
    /\ acq_count' = 0
    /\ IF handler.loop = "assist"
         THEN \E visible \in VisibleLists :
                available' = [b \in Bands |-> priorize_satellites(available[b], visible[b])]
         ELSE UNCHANGED available
    /\ handler' = Idle
    /\ UNCHANGED <<fsmVars, channels_state, assigned, threadVars, status>>

-----------------------------------------------------------------------------
(* ControlThread::apply_action, by command.                                *)

CommandPopped(id, what) ==
    /\ Popped("command")
    /\ Head(queue).who = id
    /\ Head(queue).what = what
    /\ UNCHANGED <<state, acq, trk, events>>

(* Fault variant: the command is dropped.                                  *)
StopDropped ==
    /\ \E what \in {0, 1} : CommandPopped(200, what)
    /\ UNCHANGED <<flowgraphVars, threadVars, status, handler>>

(* STOP and RESTART end the main loop.                                     *)
StopCommand ==
    /\ \E what \in {0, 1} : CommandPopped(200, what)
    /\ stop' = TRUE
    /\ UNCHANGED <<flowgraphVars, standby, running, commands, status, handler>>

StandbyCommand ==
    /\ CommandPopped(300, 10)
    /\ standby' = TRUE
    /\ handler' = Stopping("standby")
    /\ UNCHANGED <<flowgraphVars, stop, running, commands, status>>

(* A start command leaves standby with the lists of signals reordered.     *)
Start(what, visible) ==
    /\ CommandPopped(300, what)
    /\ available' = [b \in Bands |-> priorize_satellites(available[b], visible[b])]
    /\ standby' = FALSE
    /\ UNCHANGED <<channels_state, acq_count, assigned, stop, running, commands, status, handler>>

ColdStart == Start(11, [b \in Bands |-> <<>>])

(* The visible satellites are computed but not stored: the list that is    *)
(* given priority is the empty one.                                        *)
WarmStart == Start(13, [b \in Bands |-> <<>>])

HotStart == \E visible \in VisibleLists : Start(12, visible)

(* The listeners: TCP telecommand, System V queue and keyboard.            *)
PushCommand ==
    /\ running /\ commands > 0
    /\ \E cmd \in Commands : queue' = Append(queue, CommandEvent(cmd[1], cmd[2]))
    /\ commands' = commands - 1
    /\ UNCHANGED <<state, acq, trk, events, flowgraphVars, standby, stop, running, status, handler>>

(* The quit key also raises stop_ itself, without waiting for the queue.   *)
QuitKey ==
    /\ running /\ commands > 0
    /\ <<200, 0>> \in Commands
    /\ queue' = Append(queue, CommandEvent(200, 0))
    /\ stop' = TRUE
    /\ commands' = commands - 1
    /\ UNCHANGED <<state, acq, trk, events, flowgraphVars, standby, running, status, handler>>

(* The end of ControlThread::run: GNSSFlowgraph::stop, which stops one     *)
(* channel at a time, then the threads of the blocks.  The channels not    *)
(* yet stopped go on meanwhile.  A call of stop_channel need not return    *)
(* (PcpsAcquisition), so nothing obliges these steps to be taken.          *)
StopBegins ==
    /\ running /\ stop
    /\ handler = Idle
    /\ handler' = Stopping("stop")
    /\ UNCHANGED <<fsmVars, flowgraphVars, threadVars, status>>

StopsChannel ==
    /\ handler.loop = "stop"
    /\ handler.i < NChannels
    /\ Event_stop_channel({handler.i})
    /\ Advance
    /\ UNCHANGED <<events, queue, flowgraphVars, threadVars, status>>

BlocksStopped ==
    /\ handler.loop = "stop"
    /\ handler.i = NChannels
    /\ running' = FALSE
    /\ handler' = Idle
    /\ UNCHANGED <<fsmVars, flowgraphVars, standby, stop, commands, status>>

StopFlowgraph == StopBegins \/ StopsChannel \/ BlocksStopped

-----------------------------------------------------------------------------
(* The rest of the flow graph.                                             *)

Channel(c) ==
    /\ running
    /\ ChannelStep(c)
    /\ UNCHANGED <<flowgraphVars, threadVars, status, handler>>

(* The periodic report of the observables block on channel c, kept or      *)
(* erased by channel_status_msg_receiver; a channel in tracking may not    *)
(* have a valid pseudorange yet.  Only the entries of the channels that    *)
(* can assist another band are ever read.                                  *)
StatusReport(c) ==
    /\ running
    /\ \E b \in Bands : AssistedBy[b] = BandOf[c]
    /\ \E valid \in BOOLEAN :
         status' = [status EXCEPT ![c] = IF trk[c] /\ valid THEN assigned[c] ELSE 0]
    /\ UNCHANGED <<fsmVars, flowgraphVars, threadVars, handler>>

(* After run() has returned nothing happens any more.                      *)
Stopped == ~running /\ UNCHANGED vars

(* The main loop of ControlThread::run.                                    *)
ControlThread ==
    \/ AcquisitionFailed
    \/ AcquisitionSucceeded
    \/ TrackingLost
    \/ EventDropped
    \/ Timeout
    \/ TimeoutInStandby
    \/ acquisition_manager
    \/ StandbyStopsChannel
    \/ StandbySkips
    \/ StandbyReturns
    \/ StopCommand
    \/ StandbyCommand
    \/ ColdStart
    \/ WarmStart
    \/ HotStart

Next ==
    \/ ControlThread
    \/ StopFlowgraph
    \/ PushCommand
    \/ QuitKey
    \/ \E c \in Channels : Channel(c) \/ StatusReport(c)
    \/ Stopped

Spec == Init /\ [][Next]_vars

(* The main loop waits for at most 100 ms, and of the calls it makes only  *)
(* those on a channel that is or was stopped may block for good (see       *)
(* PcpsAcquisition): a receiver without standby stops none before its      *)
(* shutdown, and the shutdown is not fair.  The threads of the message     *)
(* receivers serve their ports, and an acquisition ends with a verdict     *)
(* (after max_dwells).  Nothing obliges a tracked signal to be lost.       *)
Verdict(c) ==
    /\ running
    /\ PositiveAcquisition(c) \/ NegativeAcquisition(c)
    /\ UNCHANGED <<flowgraphVars, threadVars, status, handler>>

Reception(c) ==
    /\ running
    /\ HandleValidAcquisition(c) \/ HandleAcquisitionFailed(c) \/ HandleLossOfLock(c)
    /\ UNCHANGED <<flowgraphVars, threadVars, status, handler>>

Fairness ==
    /\ WF_vars(ControlThread)
    /\ \A c \in Channels : WF_vars(Verdict(c)) /\ WF_vars(Reception(c))

FairSpec == Spec /\ Fairness

-----------------------------------------------------------------------------
(* Properties.                                                             *)

LoopNames == {"none", "manager", "standby", "assist", "stop"}

CommandEvents == {CommandEvent(cmd[1], cmd[2]) : cmd \in Commands \cup {<<200, 0>>}}

(* Every variable keeps its type: a channel of the control queue exists,   *)
(* the lists hold satellites of the constellation, acq_channels_count_     *)
(* never goes below zero or above the number of channels.                  *)
TypeOK ==
    /\ state \in [Channels -> 0 .. 3]
    /\ acq \in [Channels -> BOOLEAN]
    /\ trk \in [Channels -> BOOLEAN]
    /\ events \in [Channels -> Seq(1 .. 3)]
    /\ queue \in Seq(ChannelEvents \cup CommandEvents)
    /\ channels_state \in [Channels -> 0 .. 2]
    /\ acq_count \in 0 .. NChannels
    /\ available \in [Bands -> Seq(Sats)]
    /\ assigned \in [Channels -> Sats]
    /\ status \in [Channels -> 0 .. NSats]
    /\ handler \in [loop : LoopNames, who : Channels, i : 0 .. NChannels, gs : 0 .. NSats]
    /\ standby \in BOOLEAN /\ stop \in BOOLEAN /\ running \in BOOLEAN
    /\ commands \in 0 .. MaxCommands

(* acq_channels_count_ is incremented and decremented in four places of    *)
(* the flow graph; it always is the number of channels marked as being in  *)
(* acquisition, and never exceeds Channels.in_acquisition.                 *)
InAcquisition == {c \in Channels : channels_state[c] = 1}

AcqCountExact ==
    /\ acq_count = Cardinality(InAcquisition)
    /\ acq_count <= MaxAcq

(* No, exactly one, and exactly two events of channel c are in the queue.  *)
IsEvent(q, k, c) == q[k].kind = "channel" /\ q[k].who = c

NoEvent(q, c) == \A k \in 1 .. Len(q) : ~IsEvent(q, k, c)

OneEvent(q, c, what) ==
    \E k \in 1 .. Len(q) :
        /\ q[k] = ChannelEvent(c, what)
        /\ \A j \in 1 .. Len(q) : IsEvent(q, j, c) => j = k

TwoEvents(q, c, first, second) ==
    \E k, l \in 1 .. Len(q) :
        /\ k < l
        /\ q[k] = ChannelEvent(c, first)
        /\ q[l] = ChannelEvent(c, second)
        /\ \A j \in 1 .. Len(q) : IsEvent(q, j, c) => j \in {k, l}

(* The receiver works: its shutdown, which takes the channels out of step  *)
(* with the flow graph for good, has not begun.                            *)
Operating == running /\ handler.loop # "stop"

(* What the flow graph believes of channel c (channels_state_) is what its *)
(* state machine was when the flow graph last heard of it: the events      *)
(* still in the queue are exactly those that lead from one to the other.   *)
ViewAgrees(c) ==
    /\ channels_state[c] = 0 => state[c] \in {0, 3} /\ NoEvent(queue, c)
    /\ channels_state[c] = 1 =>
            \/ state[c] = 1 /\ NoEvent(queue, c)
            \/ state[c] = 3 /\ OneEvent(queue, c, 0)
            \/ state[c] = 2 /\ OneEvent(queue, c, 1)
            \/ state[c] = 0 /\ TwoEvents(queue, c, 1, 2)
    /\ channels_state[c] = 2 =>
            \/ state[c] = 2 /\ NoEvent(queue, c)
            \/ state[c] = 0 /\ OneEvent(queue, c, 2)

FlowgraphViewAgrees == Operating => \A c \in Channels : ViewAgrees(c)

(* The blocks of a channel do what its state machine says: in acquisition  *)
(* the acquisition block is searching or its verdict is on the way, in     *)
(* tracking the tracking block is on or its loss of lock is on the way,    *)
(* and nothing runs in the other states.                                   *)
BlocksAgree(c) ==
    /\ state[c] = 1 =>
            /\ ~trk[c]
            /\ (acq[c] /\ events[c] = <<>>) \/ (~acq[c] /\ events[c] \in {<<1>>, <<2>>})
    /\ state[c] = 2 =>
            /\ ~acq[c]
            /\ (trk[c] /\ events[c] = <<>>) \/ (~trk[c] /\ events[c] = <<3>>)
    /\ state[c] \in {0, 3} => ~acq[c] /\ ~trk[c] /\ events[c] = <<>>

ChannelBlocksAgree == Operating => \A c \in Channels : BlocksAgree(c)

(* No signal is ever lost: it is in the list of its band, or a channel     *)
(* holds it (working on it, or by configuration), or apply_action is about *)
(* to push it back.                                                        *)
Holds(c, s) == assigned[c] = s /\ (channels_state[c] # 0 \/ FixedSat[c] = s)

SignalsConserved ==
    \A b \in Bands, s \in Sats :
        \/ s \in Listed(available[b])
        \/ \E c \in BandChannels(b) : Holds(c, s)
        \/ handler.gs = s /\ BandOf[handler.who] = b

(* No list ever holds a signal twice.                                      *)
ListsHaveNoDuplicates ==
    \A b \in Bands : Cardinality(Listed(available[b])) = Len(available[b])

(* A satellite that the configuration ties to a channel is never offered   *)
(* to another one.                                                         *)
FixedSatellitesReserved ==
    \A c \in Channels : FixedSat[c] # 0 => FixedSat[c] \notin Listed(available[BandOf[c]])

(* When the manager looks for a signal its list is not empty, so front()   *)
(* is defined: this is what the check of assign_channels is for, and with  *)
(* it the property holds as long as no GLONASS band is crowded.            *)
SearchFindsSignal ==
    ManagerTurn /\ SlotFor(Current) /\ FixedSat[Current] = 0
        => available[BandOf[Current]] # <<>>

(* The search is fair to satellites: as long as a signal stays in a list   *)
(* and is neither taken nor given back, nothing overtakes it.              *)
Position(list, s) == CHOOSE i \in 1 .. Len(list) : list[i] = s

Overtaken(b, s) ==
    /\ s \in Listed(available[b]) /\ s \in Listed(available'[b])
    /\ Position(available'[b], s) > Position(available[b], s)

NoOvertaking ==
    [][\A b \in Bands, s \in Sats :
          Overtaken(b, s) =>
              \/ \E c \in BandChannels(b) : assigned'[c] = s
              \/ handler.gs = s]_vars

(* No channel of a primary band starves: an idle one is given a slot, as   *)
(* long as the receiver runs, whatever the other channels do.  A channel   *)
(* that repeats failed acquisitions would keep its slot for ever.          *)
NoStarvation ==
    \A c \in Channels :
        /\ BandOf[c] \in Primary /\ MaxAcq > 0 /\ Repeat = {}
        /\ channels_state[c] = 0
        ~> channels_state[c] = 1 \/ stop

(* In standby no channel leaves its idle states.                           *)
NoStartInStandby ==
    [][standby => \A c \in Channels : state[c] \in {0, 3} => state'[c] \in {0, 3}]_vars

(* On a band that needs assistance a satellite is never worked on by two   *)
(* channels: the search takes it out of the list.  The satellites that     *)
(* assign_channels gives out stay in the lists, so this needs that the     *)
(* channels that acquire from the start are on primary bands.              *)
PrimaryFirst == \A c \in Channels : c < MaxAcq => BandOf[c] \in Primary

AssistedOnce ==
    PrimaryFirst =>
        \A c, d \in Channels :
            /\ BandOf[c] = BandOf[d] /\ BandOf[c] \notin Primary
            /\ channels_state[c] # 0 /\ channels_state[d] # 0
            /\ assigned[c] = assigned[d]
            => c = d

(* The channels that really are in acquisition, whatever the flow graph    *)
(* believes, are limited by Channels.in_acquisition.                       *)
AcquisitionsLimited == Cardinality({c \in Channels : state[c] = 1}) <= MaxAcq

(* After a start command every channel works again.                        *)
StartResumes ==
    \A c \in Channels : ~standby ~> (state[c] \in {1, 2} \/ stop \/ standby)

(* A stop command at the end of a queue that the channels keep feeding is  *)
(* reached: the main loop ends.  (That GNSSFlowgraph::stop then returns is *)
(* another question, see StopReturns of PcpsAcquisition.)                  *)
StopReached ==
    (\E k \in 1 .. Len(queue) : queue[k] = CommandEvent(200, 0)) ~> stop
=============================================================================
