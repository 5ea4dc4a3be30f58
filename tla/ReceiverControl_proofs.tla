----------------------- MODULE ReceiverControl_proofs -----------------------
(***************************************************************************)
(* Proofs about ReceiverControl, for every number of channels, satellites, *)
(* bands and acquisition slots, and every interleaving of the channels     *)
(* with the control thread.  They are about a receiver that gets no        *)
(* telecommand and no start-up assistance: events that were queued before  *)
(* a standby break the properties after it (see run start_not_resumed).    *)
(* A receiver with a crowded GLONASS band is left out too: what it does    *)
(* after the front of an empty list was taken is not defined.              *)
(***************************************************************************)
EXTENDS ReceiverControl, FiniteSetTheorems, TLAPS

NoTelecommands == ~Agnss /\ \A cmd \in Commands : cmd[1] = 200

Messages == ChannelEvents \cup CommandEvents

-----------------------------------------------------------------------------
(* What a push and a pop do to the events of a channel in the queue.       *)

Belongs(e, c) == e.kind = "channel" /\ e.who = c

LEMMA PushOther ==
    ASSUME NEW q \in Seq(Messages), NEW e \in Messages, NEW c, ~Belongs(e, c)
    PROVE  /\ NoEvent(q, c) => NoEvent(Append(q, e), c)
           /\ \A w : OneEvent(q, c, w) => OneEvent(Append(q, e), c, w)
           /\ \A v, w : TwoEvents(q, c, v, w) => TwoEvents(Append(q, e), c, v, w)
<1> DEFINE r == Append(q, e)
<1>1. /\ Len(r) = Len(q) + 1 /\ Len(q) \in Nat
      /\ \A k \in 1 .. Len(q) : r[k] = q[k]
      /\ r[Len(q) + 1] = e
  OBVIOUS
<1> HIDE DEF r
<1>2. \A j \in 1 .. Len(r) : IsEvent(r, j, c) => j \in 1 .. Len(q) /\ IsEvent(q, j, c)
  BY <1>1 DEF IsEvent, Belongs
<1>3. NoEvent(q, c) => NoEvent(r, c)
  BY <1>2 DEF NoEvent
<1>4. ASSUME NEW w, OneEvent(q, c, w) PROVE OneEvent(r, c, w)
  <2>1. PICK k \in 1 .. Len(q) :
          q[k] = ChannelEvent(c, w) /\ \A j \in 1 .. Len(q) : IsEvent(q, j, c) => j = k
    BY <1>4 DEF OneEvent
  <2>2. k \in 1 .. Len(r) /\ r[k] = ChannelEvent(c, w)
    BY <1>1, <2>1
  <2> QED
    BY <1>2, <2>1, <2>2 DEF OneEvent
<1>5. ASSUME NEW v, NEW w, TwoEvents(q, c, v, w) PROVE TwoEvents(r, c, v, w)
  <2>1. PICK k \in 1 .. Len(q), l \in 1 .. Len(q) :
          /\ k < l /\ q[k] = ChannelEvent(c, v) /\ q[l] = ChannelEvent(c, w)
          /\ \A j \in 1 .. Len(q) : IsEvent(q, j, c) => j \in {k, l}
    BY <1>5 DEF TwoEvents
  <2>2. k \in 1 .. Len(r) /\ r[k] = ChannelEvent(c, v) /\ l \in 1 .. Len(r) /\ r[l] = ChannelEvent(c, w)
    BY <1>1, <2>1
  <2> QED
    BY <1>2, <2>1, <2>2 DEF TwoEvents
<1> QED
  BY <1>3, <1>4, <1>5 DEF r

LEMMA PushFirst ==
    ASSUME NEW q \in Seq(Messages), NEW c, NEW w, NoEvent(q, c)
    PROVE  OneEvent(Append(q, ChannelEvent(c, w)), c, w)
<1> DEFINE r == Append(q, ChannelEvent(c, w))
<1>1. /\ Len(r) = Len(q) + 1 /\ Len(q) \in Nat
      /\ \A k \in 1 .. Len(q) : r[k] = q[k]
      /\ r[Len(q) + 1] = ChannelEvent(c, w)
  OBVIOUS
<1> HIDE DEF r
<1>2. \A j \in 1 .. Len(r) : IsEvent(r, j, c) => j = Len(q) + 1
  BY <1>1 DEF IsEvent, NoEvent
<1>3. Len(q) + 1 \in 1 .. Len(r)
  BY <1>1
<1>4. OneEvent(r, c, w)
  BY <1>1, <1>2, <1>3 DEF OneEvent
<1> QED
  BY <1>4 DEF r

LEMMA PushSecond ==
    ASSUME NEW q \in Seq(Messages), NEW c, NEW v, NEW w, OneEvent(q, c, v)
    PROVE  TwoEvents(Append(q, ChannelEvent(c, w)), c, v, w)
<1> DEFINE r == Append(q, ChannelEvent(c, w))
<1>1. /\ Len(r) = Len(q) + 1 /\ Len(q) \in Nat
      /\ \A k \in 1 .. Len(q) : r[k] = q[k]
      /\ r[Len(q) + 1] = ChannelEvent(c, w)
  OBVIOUS
<1> HIDE DEF r
<1>2. PICK k \in 1 .. Len(q) :
        q[k] = ChannelEvent(c, v) /\ \A j \in 1 .. Len(q) : IsEvent(q, j, c) => j = k
  BY DEF OneEvent
<1>3. \A j \in 1 .. Len(r) : IsEvent(r, j, c) => j \in {k, Len(q) + 1}
  BY <1>1, <1>2 DEF IsEvent
<1>4. /\ k \in 1 .. Len(r) /\ Len(q) + 1 \in 1 .. Len(r) /\ k < Len(q) + 1
      /\ r[k] = ChannelEvent(c, v)
  BY <1>1, <1>2
<1>5. TwoEvents(r, c, v, w)
  BY <1>1, <1>3, <1>4 DEF TwoEvents
<1> QED
  BY <1>5 DEF r

LEMMA PopOther ==
    ASSUME NEW q \in Seq(Messages), q # <<>>, NEW c, ~Belongs(Head(q), c)
    PROVE  /\ NoEvent(q, c) => NoEvent(Tail(q), c)
           /\ \A w : OneEvent(q, c, w) => OneEvent(Tail(q), c, w)
           /\ \A v, w : TwoEvents(q, c, v, w) => TwoEvents(Tail(q), c, v, w)
<1> DEFINE r == Tail(q)
<1>1. /\ Len(q) = Len(r) + 1 /\ Len(r) \in Nat /\ Head(q) = q[1]
      /\ \A k \in 1 .. Len(r) : r[k] = q[k + 1]
  OBVIOUS
<1> HIDE DEF r
<1>2. \A j \in 1 .. Len(r) : IsEvent(r, j, c) => j + 1 \in 1 .. Len(q) /\ IsEvent(q, j + 1, c)
  BY <1>1 DEF IsEvent
<1>3. ASSUME NEW k \in 1 .. Len(q), NEW w, q[k] = ChannelEvent(c, w)
      PROVE  k - 1 \in 1 .. Len(r) /\ r[k - 1] = ChannelEvent(c, w)
  <2>1. k # 1
    BY <1>1, <1>3 DEF Belongs, ChannelEvent
  <2>2. k - 1 \in 1 .. Len(r) /\ (k - 1) + 1 = k
    BY <1>1, <2>1
  <2> QED
    BY <1>1, <1>3, <2>2
<1>4. NoEvent(q, c) => NoEvent(r, c)
  BY <1>2 DEF NoEvent
<1>5. ASSUME NEW w, OneEvent(q, c, w) PROVE OneEvent(r, c, w)
  <2>1. PICK k \in 1 .. Len(q) :
          q[k] = ChannelEvent(c, w) /\ \A j \in 1 .. Len(q) : IsEvent(q, j, c) => j = k
    BY <1>5 DEF OneEvent
  <2>2. \A j \in 1 .. Len(r) : IsEvent(r, j, c) => j = k - 1
    BY <1>1, <1>2, <2>1
  <2> QED
    BY <1>3, <2>1, <2>2 DEF OneEvent
<1>6. ASSUME NEW v, NEW w, TwoEvents(q, c, v, w) PROVE TwoEvents(r, c, v, w)
  <2>1. PICK k \in 1 .. Len(q), l \in 1 .. Len(q) :
          /\ k < l /\ q[k] = ChannelEvent(c, v) /\ q[l] = ChannelEvent(c, w)
          /\ \A j \in 1 .. Len(q) : IsEvent(q, j, c) => j \in {k, l}
    BY <1>6 DEF TwoEvents
  <2>2. \A j \in 1 .. Len(r) : IsEvent(r, j, c) => j \in {k - 1, l - 1}
    BY <1>1, <1>2, <2>1
  <2>3. k - 1 < l - 1
    BY <1>1, <2>1
  <2>4. /\ k - 1 \in 1 .. Len(r) /\ r[k - 1] = ChannelEvent(c, v)
        /\ l - 1 \in 1 .. Len(r) /\ r[l - 1] = ChannelEvent(c, w)
    BY <1>3, <2>1
  <2> QED
    BY <2>2, <2>3, <2>4 DEF TwoEvents
<1> QED
  BY <1>4, <1>5, <1>6 DEF r

LEMMA PopOwn ==
    ASSUME NEW q \in Seq(Messages), q # <<>>, NEW c, NEW x, Head(q) = ChannelEvent(c, x)
    PROVE  /\ ~NoEvent(q, c)
           /\ \A w : OneEvent(q, c, w) => w = x /\ NoEvent(Tail(q), c)
           /\ \A v, w : TwoEvents(q, c, v, w) => v = x /\ OneEvent(Tail(q), c, w)
<1> DEFINE r == Tail(q)
<1>1. /\ Len(q) = Len(r) + 1 /\ Len(r) \in Nat /\ Head(q) = q[1] /\ 1 \in 1 .. Len(q)
      /\ \A k \in 1 .. Len(r) : r[k] = q[k + 1]
  OBVIOUS
<1> HIDE DEF r
<1>2. IsEvent(q, 1, c)
  BY <1>1 DEF IsEvent, ChannelEvent
<1>3. \A j \in 1 .. Len(r) : IsEvent(r, j, c) => j + 1 \in 1 .. Len(q) /\ IsEvent(q, j + 1, c)
  BY <1>1 DEF IsEvent
<1>4. \A v, w : ChannelEvent(c, v) = ChannelEvent(c, w) => v = w
  BY DEF ChannelEvent
<1>5. ~NoEvent(q, c)
  BY <1>1, <1>2 DEF NoEvent
<1>6. ASSUME NEW w, OneEvent(q, c, w) PROVE w = x /\ NoEvent(r, c)
  <2>1. PICK k \in 1 .. Len(q) :
          q[k] = ChannelEvent(c, w) /\ \A j \in 1 .. Len(q) : IsEvent(q, j, c) => j = k
    BY <1>6 DEF OneEvent
  <2>2. k = 1
    BY <1>1, <1>2, <2>1
  <2>3. w = x
    BY <1>1, <1>4, <2>1, <2>2
  <2>4. NoEvent(r, c)
    BY <1>3, <2>1, <2>2 DEF NoEvent
  <2> QED
    BY <2>3, <2>4
<1>7. ASSUME NEW v, NEW w, TwoEvents(q, c, v, w) PROVE v = x /\ OneEvent(r, c, w)
  <2>1. PICK k \in 1 .. Len(q), l \in 1 .. Len(q) :
          /\ k < l /\ q[k] = ChannelEvent(c, v) /\ q[l] = ChannelEvent(c, w)
          /\ \A j \in 1 .. Len(q) : IsEvent(q, j, c) => j \in {k, l}
    BY <1>7 DEF TwoEvents
  <2>2. k = 1
    BY <1>1, <1>2, <2>1
  <2>3. v = x
    BY <1>1, <1>4, <2>1, <2>2
  <2>4. l - 1 \in 1 .. Len(r) /\ (l - 1) + 1 = l
    BY <1>1, <2>1, <2>2
  <2>5. r[l - 1] = ChannelEvent(c, w)
    BY <1>1, <2>1, <2>4
  <2>6. \A j \in 1 .. Len(r) : IsEvent(r, j, c) => j = l - 1
    BY <1>1, <1>3, <2>1, <2>2
  <2>7. OneEvent(r, c, w)
    BY <2>4, <2>5, <2>6 DEF OneEvent
  <2> QED
    BY <2>3, <2>7
<1> QED
  BY <1>5, <1>6, <1>7 DEF r

-----------------------------------------------------------------------------
(* The inductive invariant.                                                *)

ControlTypes ==
    /\ state \in [Channels -> 0 .. 3]
    /\ acq \in [Channels -> BOOLEAN]
    /\ trk \in [Channels -> BOOLEAN]
    /\ events \in [Channels -> Seq(1 .. 3)]
    /\ queue \in Seq(Messages)
    /\ channels_state \in [Channels -> 0 .. 2]
    /\ acq_count \in Nat
    /\ handler = [loop |-> handler.loop, who |-> handler.who, i |-> handler.i, gs |-> handler.gs]
    /\ handler.loop \in {"none", "manager", "stop"}
    /\ handler.who \in Channels
    /\ handler.i \in 0 .. NChannels
    /\ standby = FALSE

ControlInv ==
    /\ ControlTypes
    /\ AcqCountExact
    /\ FlowgraphViewAgrees
    /\ ChannelBlocksAgree
    /\ ~running => handler = Idle
    /\ ~Operating => \A c \in Channels : state[c] = 1 => channels_state[c] = 1

LEMMA ChannelsFinite ==
    ASSUME NEW S \in SUBSET Channels
    PROVE  IsFiniteSet(S) /\ Cardinality(S) \in Nat
<1>1. IsFiniteSet(Channels)
  BY ChannelsAssumption, FS_Interval DEF Channels
<1> QED
  BY <1>1, FS_Subset, FS_CardinalityType

(* The events of channel d are untouched by what happened to the queue.    *)
QueueSpares(d) ==
    \/ queue' = queue
    \/ \E e \in Messages : ~Belongs(e, d) /\ queue' = Append(queue, e)
    \/ queue # <<>> /\ ~Belongs(Head(queue), d) /\ queue' = Tail(queue)

LEMMA ViewKept ==
    ASSUME ControlTypes, NEW d \in Channels, ViewAgrees(d), QueueSpares(d),
           state'[d] = state[d], channels_state'[d] = channels_state[d]
    PROVE  ViewAgrees(d)'
<1>1. queue \in Seq(Messages)
  BY DEF ControlTypes
<1>2. /\ NoEvent(queue, d) => NoEvent(queue', d)
      /\ \A w : OneEvent(queue, d, w) => OneEvent(queue', d, w)
      /\ \A v, w : TwoEvents(queue, d, v, w) => TwoEvents(queue', d, v, w)
  BY <1>1, PushOther, PopOther DEF QueueSpares
<1> QED
  BY <1>2 DEF ViewAgrees

LEMMA BlocksKept ==
    ASSUME NEW d \in Channels, BlocksAgree(d), state'[d] = state[d],
           acq'[d] = acq[d], trk'[d] = trk[d], events'[d] = events[d]
    PROVE  BlocksAgree(d)'
BY DEF BlocksAgree

(* The count follows the set of the channels in acquisition.               *)
LEMMA CountKept ==
    ASSUME AcqCountExact, UNCHANGED <<channels_state, acq_count>>
    PROVE  AcqCountExact'
BY DEF AcqCountExact, InAcquisition

LEMMA CountStarts ==
    ASSUME ControlTypes, AcqCountExact, NEW c \in Channels, channels_state[c] # 1,
           acq_count < MaxAcq, acq_count' = acq_count + 1,
           channels_state' = [channels_state EXCEPT ![c] = 1]
    PROVE  AcqCountExact' /\ acq_count' \in Nat
<1>1. InAcquisition' = InAcquisition \cup {c} /\ c \notin InAcquisition
  BY DEF InAcquisition, ControlTypes
<1>2. IsFiniteSet(InAcquisition)
  BY ChannelsFinite DEF InAcquisition
<1>3. Cardinality(InAcquisition') = Cardinality(InAcquisition) + 1
  BY <1>1, <1>2, FS_AddElement
<1>4. MaxAcq \in Nat /\ acq_count \in Nat
  BY ControlAssumption, ChannelsAssumption DEF ControlTypes
<1> QED
  BY <1>3, <1>4 DEF AcqCountExact

LEMMA CountEnds ==
    ASSUME ControlTypes, AcqCountExact, NEW c \in Channels, channels_state[c] = 1,
           NEW s \in {0, 2}, acq_count' = Decremented,
           channels_state' = [channels_state EXCEPT ![c] = s]
    PROVE  AcqCountExact' /\ acq_count' \in Nat
<1>1. InAcquisition' = InAcquisition \ {c} /\ c \in InAcquisition
  BY DEF InAcquisition, ControlTypes
<1>2. IsFiniteSet(InAcquisition) /\ IsFiniteSet(InAcquisition \ {c})
  BY ChannelsFinite DEF InAcquisition
<1>3. Cardinality(InAcquisition') = Cardinality(InAcquisition) - 1
  BY <1>1, <1>2, FS_RemoveElement
<1>4. Cardinality(InAcquisition') \in Nat
  BY <1>1, <1>2, FS_CardinalityType
<1>5. MaxAcq \in Nat /\ acq_count \in Nat
  BY ControlAssumption, ChannelsAssumption DEF ControlTypes
<1> QED
  BY <1>3, <1>4, <1>5 DEF AcqCountExact, Decremented

-----------------------------------------------------------------------------
(* The types of the channels and of the queue.                             *)

FsmTypes ==
    /\ state \in [Channels -> 0 .. 3]
    /\ acq \in [Channels -> BOOLEAN]
    /\ trk \in [Channels -> BOOLEAN]
    /\ events \in [Channels -> Seq(1 .. 3)]
    /\ queue \in Seq(Messages)

LEMMA ChannelEventIsMessage ==
    ASSUME NEW c \in Channels, NEW w \in 0 .. 2
    PROVE  ChannelEvent(c, w) \in Messages /\ Belongs(ChannelEvent(c, w), c)
BY DEF Messages, ChannelEvents, Belongs, ChannelEvent

LEMMA ControlTypesFsm == ControlTypes => FsmTypes
BY DEF ControlTypes, FsmTypes

LEMMA StartTypes ==
    ASSUME FsmTypes, NEW S, Event_start_acquisition(S), events' = events, queue' \in Seq(Messages)
    PROVE  FsmTypes'
<1>1. /\ state' = [d \in Channels |->
                     IF d \in S /\ state[d] \notin {1, 2} THEN 1 ELSE state[d]]
      /\ acq' = [d \in Channels |-> acq[d] \/ (d \in S /\ state[d] \notin {1, 2})]
      /\ trk' = trk
  BY DEF Event_start_acquisition
<1>2. state' \in [Channels -> 0 .. 3]
  BY <1>1 DEF FsmTypes
<1>3. acq' \in [Channels -> BOOLEAN]
  BY <1>1, Zenon
<1> QED
  BY <1>1, <1>2, <1>3 DEF FsmTypes

LEMMA StopTypes ==
    ASSUME FsmTypes, NEW S, Event_stop_channel(S), UNCHANGED <<events, queue>>
    PROVE  FsmTypes'
<1>1. state' \in [Channels -> 0 .. 3]
  BY DEF Event_stop_channel, FsmTypes
<1>2. PICK late \in SUBSET S :
        acq' = [d \in Channels |-> acq[d] /\ (d \in S /\ state[d] = 1 => d \in late)]
  BY Zenon DEF Event_stop_channel
<1>3. trk' = [d \in Channels |-> trk[d] /\ ~(d \in S /\ state[d] = 2)]
  BY Zenon DEF Event_stop_channel
<1>4. acq' \in [Channels -> BOOLEAN] /\ trk' \in [Channels -> BOOLEAN]
  BY <1>2, <1>3, Zenon
<1> QED
  BY <1>1, <1>4 DEF FsmTypes

LEMMA PushTypes ==
    ASSUME FsmTypes, NEW c \in Channels, NEW w \in 0 .. 2
    PROVE  Append(queue, ChannelEvent(c, w)) \in Seq(Messages)
BY ChannelEventIsMessage DEF FsmTypes

LEMMA PortTypes ==
    ASSUME FsmTypes, NEW c \in Channels
    PROVE  /\ \A m \in 1 .. 3 : [events EXCEPT ![c] = Append(@, m)] \in [Channels -> Seq(1 .. 3)]
           /\ events[c] # <<>> => [events EXCEPT ![c] = Tail(@)] \in [Channels -> Seq(1 .. 3)]
<1>1. events \in [Channels -> Seq(1 .. 3)] /\ events[c] \in Seq(1 .. 3)
  BY DEF FsmTypes
<1>2. \A m \in 1 .. 3 : Append(events[c], m) \in Seq(1 .. 3)
  BY <1>1
<1>3. events[c] # <<>> => Tail(events[c]) \in Seq(1 .. 3)
  BY <1>1
<1> QED
  BY <1>1, <1>2, <1>3

LEMMA ChannelStepTypes ==
    ASSUME FsmTypes, NEW c \in Channels, ChannelStep(c)
    PROVE  FsmTypes'
<1>1. /\ state \in [Channels -> 0 .. 3] /\ acq \in [Channels -> BOOLEAN]
      /\ trk \in [Channels -> BOOLEAN] /\ queue \in Seq(Messages)
  BY DEF FsmTypes
<1>2. /\ [acq EXCEPT ![c] = TRUE] \in [Channels -> BOOLEAN]
      /\ [acq EXCEPT ![c] = FALSE] \in [Channels -> BOOLEAN]
      /\ [trk EXCEPT ![c] = TRUE] \in [Channels -> BOOLEAN]
      /\ [trk EXCEPT ![c] = FALSE] \in [Channels -> BOOLEAN]
  BY <1>1, Zenon
<1>2a. /\ [state EXCEPT ![c] = 0] \in [Channels -> 0 .. 3]
       /\ [state EXCEPT ![c] = 2] \in [Channels -> 0 .. 3]
       /\ [state EXCEPT ![c] = 3] \in [Channels -> 0 .. 3]
  BY <1>1
<1>3. /\ Append(queue, ChannelEvent(c, 0)) \in Seq(Messages)
      /\ Append(queue, ChannelEvent(c, 1)) \in Seq(Messages)
      /\ Append(queue, ChannelEvent(c, 2)) \in Seq(Messages)
  BY PushTypes
<1>4. Event_valid_acquisition(c) =>
        /\ state' \in [Channels -> 0 .. 3] /\ trk' \in [Channels -> BOOLEAN]
        /\ queue' \in Seq(Messages)
  BY <1>1, <1>2, <1>2a, <1>3, Zenon DEF Event_valid_acquisition
<1>5. CASE PositiveAcquisition(c)
  <2>1. acq' \in [Channels -> BOOLEAN]
    BY <1>2, <1>5 DEF PositiveAcquisition
  <2>2. events' \in [Channels -> Seq(1 .. 3)]
    <3>1. [events EXCEPT ![c] = Append(@, 1)] \in [Channels -> Seq(1 .. 3)]
      BY PortTypes
    <3> QED
      BY <1>5, <3>1, Zenon DEF PositiveAcquisition, FsmTypes
  <2> QED
    BY <1>1, <1>4, <1>5, <2>1, <2>2 DEF PositiveAcquisition, FsmTypes
<1>6. CASE NegativeAcquisition(c)
  BY <1>1, <1>2, <1>6, PortTypes DEF NegativeAcquisition, FsmTypes
<1>7. CASE LateSearchEnds(c)
  BY <1>2, <1>7 DEF LateSearchEnds, FsmTypes
<1>8. CASE LossOfLock(c)
  BY <1>1, <1>2, <1>8, PortTypes DEF LossOfLock, FsmTypes
<1>9. CASE HandleValidAcquisition(c)
  BY <1>1, <1>4, <1>9, PortTypes DEF HandleValidAcquisition, FsmTypes
<1>10. CASE HandleAcquisitionFailed(c)
  <2>1. events' \in [Channels -> Seq(1 .. 3)] /\ trk' = trk
    BY <1>10, PortTypes DEF HandleAcquisitionFailed
  <2>2. CASE c \in Repeat
    BY <1>1, <1>2, <1>10, <2>1, <2>2
       DEF HandleAcquisitionFailed, Event_failed_acquisition_repeat, FsmTypes
  <2>3. CASE c \notin Repeat
    BY <1>1, <1>2a, <1>3, <1>10, <2>1, <2>3, Zenon
       DEF HandleAcquisitionFailed, Event_failed_acquisition_no_repeat, FsmTypes
  <2> QED
    BY <2>2, <2>3
<1>11. CASE HandleLossOfLock(c)
  <2>1. events' \in [Channels -> Seq(1 .. 3)] /\ trk' = trk /\ Event_failed_tracking_standby(c)
    BY <1>11, PortTypes DEF HandleLossOfLock
  <2> QED
    BY <1>1, <1>2a, <1>3, <2>1, Zenon DEF Event_failed_tracking_standby, FsmTypes
<1> QED
  BY <1>5, <1>6, <1>7, <1>8, <1>9, <1>10, <1>11 DEF ChannelStep

-----------------------------------------------------------------------------
(* The steps of the channels.                                              *)

(* Only channel c moves: what is left to show is about c alone.            *)
LEMMA OnlyOneMoves ==
    ASSUME ControlInv, Operating, NEW c \in Channels,
           UNCHANGED <<flowgraphVars, threadVars, status, handler>>,
           ControlTypes',
           queue' = queue \/ \E e \in Messages : Belongs(e, c) /\ queue' = Append(queue, e),
           \A d \in Channels \ {c} : /\ state'[d] = state[d] /\ acq'[d] = acq[d]
                                     /\ trk'[d] = trk[d] /\ events'[d] = events[d],
           ViewAgrees(c)', BlocksAgree(c)'
    PROVE  ControlInv'
<1>1. AcqCountExact'
  BY CountKept DEF ControlInv, flowgraphVars
<1>2. ASSUME NEW d \in Channels PROVE ViewAgrees(d)' /\ BlocksAgree(d)'
  <2>1. CASE d = c
    BY <2>1
  <2>2. CASE d # c
    <3>1. ViewAgrees(d) /\ BlocksAgree(d) /\ ControlTypes
      BY DEF ControlInv, FlowgraphViewAgrees, ChannelBlocksAgree
    <3>2. QueueSpares(d)
      BY <2>2 DEF QueueSpares, Belongs
    <3> QED
      BY <2>2, <3>1, <3>2, ViewKept, BlocksKept DEF flowgraphVars
  <2> QED
    BY <2>1, <2>2
<1>3. Operating'
  BY DEF Operating, threadVars
<1> QED
  BY <1>1, <1>2, <1>3 DEF ControlInv, FlowgraphViewAgrees, ChannelBlocksAgree, Operating

(* Event_valid_acquisition, from the acquisition thread or the message     *)
(* thread, on a channel in acquisition: one event tells the flow graph.    *)
LEMMA ValidAcquisitionKeeps ==
    ASSUME ControlInv, Operating, NEW c \in Channels,
           UNCHANGED <<flowgraphVars, threadVars, status, handler>>,
           state[c] = 1, Event_valid_acquisition(c),
           acq' = [acq EXCEPT ![c] = FALSE],
           events' \in [Channels -> Seq(1 .. 3)], events'[c] = <<>>,
           \A d \in Channels \ {c} : events'[d] = events[d]
    PROVE  ControlInv'
<1>1. ControlTypes /\ ViewAgrees(c)
  BY DEF ControlInv, FlowgraphViewAgrees
<1>2. /\ state' = [state EXCEPT ![c] = 2]
      /\ trk' = [trk EXCEPT ![c] = TRUE]
      /\ queue' = Append(queue, ChannelEvent(c, 1))
  BY DEF Event_valid_acquisition
<1>3. queue \in Seq(Messages) /\ ChannelEvent(c, 1) \in Messages /\ Belongs(ChannelEvent(c, 1), c)
  BY <1>1, ChannelEventIsMessage DEF ControlTypes
<1>4. ControlTypes'
  BY <1>1, <1>2, <1>3 DEF ControlTypes, flowgraphVars, threadVars
<1>5. channels_state[c] = 1 /\ NoEvent(queue, c)
  BY <1>1 DEF ViewAgrees, ControlTypes
<1>6. OneEvent(queue', c, 1)
  BY <1>2, <1>3, <1>5, PushFirst
<1>7. state'[c] = 2 /\ trk'[c] /\ ~acq'[c] /\ channels_state'[c] = 1
  BY <1>1, <1>2, <1>5 DEF ControlTypes, flowgraphVars
<1>8. ViewAgrees(c)' /\ BlocksAgree(c)'
  BY <1>6, <1>7 DEF ViewAgrees, BlocksAgree
<1>9. \A d \in Channels \ {c} : state'[d] = state[d] /\ acq'[d] = acq[d] /\ trk'[d] = trk[d]
  BY <1>1, <1>2 DEF ControlTypes
<1> QED
  BY <1>2, <1>3, <1>4, <1>8, <1>9, OnlyOneMoves

LEMMA PositiveKeeps ==
    ASSUME ControlInv, Operating, NEW c \in Channels,
           UNCHANGED <<flowgraphVars, threadVars, status, handler>>, PositiveAcquisition(c)
    PROVE  ControlInv'
<1>1. ControlTypes /\ ViewAgrees(c) /\ BlocksAgree(c)
  BY DEF ControlInv, FlowgraphViewAgrees, ChannelBlocksAgree
<1>2. acq[c] /\ acq' = [acq EXCEPT ![c] = FALSE]
  BY DEF PositiveAcquisition
<1>3. state[c] = 1 /\ ~trk[c] /\ events[c] = <<>>
  BY <1>1, <1>2 DEF BlocksAgree, ControlTypes
<1>4. CASE c \in ByPort
  <2>1. events' = [events EXCEPT ![c] = Append(@, 1)] /\ UNCHANGED <<state, trk, queue>>
    BY <1>4 DEF PositiveAcquisition
  <2>2. Append(events[c], 1) = <<1>> /\ Append(events[c], 1) \in Seq(1 .. 3)
    BY <1>3
  <2>3. ControlTypes'
    BY <1>1, <1>2, <2>1, <2>2 DEF ControlTypes, flowgraphVars, threadVars
  <2>4. ViewAgrees(c)'
    BY <1>1, <2>1 DEF ViewAgrees, flowgraphVars
  <2>5. BlocksAgree(c)'
    BY <1>1, <1>2, <1>3, <2>1, <2>2 DEF BlocksAgree, ControlTypes
  <2>6. \A d \in Channels \ {c} : /\ state'[d] = state[d] /\ acq'[d] = acq[d]
                                  /\ trk'[d] = trk[d] /\ events'[d] = events[d]
    BY <1>1, <1>2, <2>1 DEF ControlTypes
  <2> QED
    BY <2>1, <2>3, <2>4, <2>5, <2>6, OnlyOneMoves
<1>5. CASE c \notin ByPort
  <2>1. Event_valid_acquisition(c) /\ events' = events
    BY <1>5 DEF PositiveAcquisition
  <2> QED
    BY <1>1, <1>2, <1>3, <2>1, ValidAcquisitionKeeps DEF ControlTypes
<1> QED
  BY <1>4, <1>5

LEMMA NegativeKeeps ==
    ASSUME ControlInv, Operating, NEW c \in Channels,
           UNCHANGED <<flowgraphVars, threadVars, status, handler>>, NegativeAcquisition(c)
    PROVE  ControlInv'
<1>1. ControlTypes /\ ViewAgrees(c) /\ BlocksAgree(c)
  BY DEF ControlInv, FlowgraphViewAgrees, ChannelBlocksAgree
<1>2. /\ acq[c] /\ acq' = [acq EXCEPT ![c] = FALSE]
      /\ events' = [events EXCEPT ![c] = Append(@, 2)] /\ UNCHANGED <<state, trk, queue>>
  BY DEF NegativeAcquisition
<1>3. state[c] = 1 /\ ~trk[c] /\ events[c] = <<>>
  BY <1>1, <1>2 DEF BlocksAgree, ControlTypes
<1>4. Append(events[c], 2) = <<2>> /\ Append(events[c], 2) \in Seq(1 .. 3)
  BY <1>3
<1>5. ControlTypes'
  BY <1>1, <1>2, <1>4 DEF ControlTypes, flowgraphVars, threadVars
<1>6. ViewAgrees(c)'
  BY <1>1, <1>2 DEF ViewAgrees, flowgraphVars
<1>7. BlocksAgree(c)'
  BY <1>1, <1>2, <1>3, <1>4 DEF BlocksAgree, ControlTypes
<1>8. \A d \in Channels \ {c} : /\ state'[d] = state[d] /\ acq'[d] = acq[d]
                                /\ trk'[d] = trk[d] /\ events'[d] = events[d]
  BY <1>1, <1>2 DEF ControlTypes
<1> QED
  BY <1>2, <1>5, <1>6, <1>7, <1>8, OnlyOneMoves

LEMMA LossKeeps ==
    ASSUME ControlInv, Operating, NEW c \in Channels,
           UNCHANGED <<flowgraphVars, threadVars, status, handler>>, LossOfLock(c)
    PROVE  ControlInv'
<1>1. ControlTypes /\ ViewAgrees(c) /\ BlocksAgree(c)
  BY DEF ControlInv, FlowgraphViewAgrees, ChannelBlocksAgree
<1>2. /\ trk[c] /\ trk' = [trk EXCEPT ![c] = FALSE]
      /\ events' = [events EXCEPT ![c] = Append(@, 3)] /\ UNCHANGED <<state, acq, queue>>
  BY DEF LossOfLock
<1>3. state[c] = 2 /\ ~acq[c] /\ events[c] = <<>>
  BY <1>1, <1>2 DEF BlocksAgree, ControlTypes
<1>4. Append(events[c], 3) = <<3>> /\ Append(events[c], 3) \in Seq(1 .. 3)
  BY <1>3
<1>5. ControlTypes'
  BY <1>1, <1>2, <1>4 DEF ControlTypes, flowgraphVars, threadVars
<1>6. ViewAgrees(c)'
  BY <1>1, <1>2 DEF ViewAgrees, flowgraphVars
<1>7. BlocksAgree(c)'
  BY <1>1, <1>2, <1>3, <1>4 DEF BlocksAgree, ControlTypes
<1>8. \A d \in Channels \ {c} : /\ state'[d] = state[d] /\ acq'[d] = acq[d]
                                /\ trk'[d] = trk[d] /\ events'[d] = events[d]
  BY <1>1, <1>2 DEF ControlTypes
<1> QED
  BY <1>2, <1>5, <1>6, <1>7, <1>8, OnlyOneMoves

(* The message thread takes its only message.                              *)
LEMMA PortServed ==
    ASSUME ControlTypes, NEW c \in Channels, Tail(events[c]) = <<>>,
           events' = [events EXCEPT ![c] = Tail(@)]
    PROVE  /\ events' \in [Channels -> Seq(1 .. 3)]
           /\ events'[c] = <<>>
           /\ \A d \in Channels \ {c} : events'[d] = events[d]
<1>1. <<>> \in Seq(1 .. 3)
  OBVIOUS
<1> QED
  BY <1>1 DEF ControlTypes

LEMMA HandleValidKeeps ==
    ASSUME ControlInv, Operating, NEW c \in Channels,
           UNCHANGED <<flowgraphVars, threadVars, status, handler>>, HandleValidAcquisition(c)
    PROVE  ControlInv'
<1>1. ControlTypes /\ BlocksAgree(c)
  BY DEF ControlInv, ChannelBlocksAgree
<1>2. /\ events[c] # <<>> /\ Head(events[c]) = 1
      /\ events' = [events EXCEPT ![c] = Tail(@)]
      /\ Event_valid_acquisition(c) /\ UNCHANGED acq
  BY DEF HandleValidAcquisition
<1>3. state[c] = 1 /\ ~acq[c] /\ events[c] = <<1>>
  BY <1>1, <1>2 DEF BlocksAgree, ControlTypes
<1>3a. Tail(events[c]) = <<>>
  BY <1>3
<1>4. acq' = [acq EXCEPT ![c] = FALSE]
  BY <1>1, <1>2, <1>3, Zenon DEF ControlTypes
<1> QED
  BY <1>3a, <1>1, <1>2, <1>3, <1>4, PortServed, ValidAcquisitionKeeps

LEMMA HandleFailedKeeps ==
    ASSUME ControlInv, Operating, NEW c \in Channels,
           UNCHANGED <<flowgraphVars, threadVars, status, handler>>, HandleAcquisitionFailed(c)
    PROVE  ControlInv'
<1>1. ControlTypes /\ ViewAgrees(c) /\ BlocksAgree(c)
  BY DEF ControlInv, FlowgraphViewAgrees, ChannelBlocksAgree
<1>2. /\ events[c] # <<>> /\ Head(events[c]) = 2
      /\ events' = [events EXCEPT ![c] = Tail(@)] /\ UNCHANGED trk
  BY DEF HandleAcquisitionFailed
<1>3. state[c] = 1 /\ ~trk[c] /\ ~acq[c] /\ events[c] = <<2>>
  BY <1>1, <1>2 DEF BlocksAgree, ControlTypes
<1>3a. Tail(events[c]) = <<>>
  BY <1>3
<1>4. /\ events' \in [Channels -> Seq(1 .. 3)] /\ events'[c] = <<>>
      /\ \A d \in Channels \ {c} : events'[d] = events[d]
  BY <1>3a, <1>1, <1>2, PortServed
<1>5. channels_state[c] = 1 /\ NoEvent(queue, c) /\ channels_state' = channels_state
  BY <1>1, <1>3 DEF ViewAgrees, ControlTypes, flowgraphVars
<1>6. CASE c \in Repeat
  <2>1. acq' = [acq EXCEPT ![c] = TRUE] /\ UNCHANGED <<state, queue>>
    BY <1>3, <1>6 DEF HandleAcquisitionFailed, Event_failed_acquisition_repeat
  <2>2. ControlTypes'
    BY <1>1, <1>2, <1>4, <2>1 DEF ControlTypes, flowgraphVars, threadVars
  <2>3. ViewAgrees(c)' /\ BlocksAgree(c)'
    BY <1>1, <1>2, <1>3, <1>4, <1>5, <2>1 DEF ViewAgrees, BlocksAgree, ControlTypes
  <2>4. \A d \in Channels \ {c} : state'[d] = state[d] /\ acq'[d] = acq[d] /\ trk'[d] = trk[d]
    BY <1>1, <1>2, <2>1 DEF ControlTypes
  <2> QED
    BY <1>4, <2>1, <2>2, <2>3, <2>4, OnlyOneMoves
<1>7. CASE c \notin Repeat
  <2>1. /\ state' = [state EXCEPT ![c] = 3]
        /\ queue' = Append(queue, ChannelEvent(c, 0)) /\ UNCHANGED acq
    BY <1>3, <1>7 DEF HandleAcquisitionFailed, Event_failed_acquisition_no_repeat
  <2>2. ChannelEvent(c, 0) \in Messages /\ Belongs(ChannelEvent(c, 0), c) /\ queue \in Seq(Messages)
    BY <1>1, ChannelEventIsMessage DEF ControlTypes
  <2>3. ControlTypes'
    BY <1>1, <1>2, <1>4, <2>1, <2>2 DEF ControlTypes, flowgraphVars, threadVars
  <2>4. OneEvent(queue', c, 0)
    BY <1>5, <2>1, <2>2, PushFirst
  <2>5. ViewAgrees(c)' /\ BlocksAgree(c)'
    BY <1>1, <1>2, <1>3, <1>4, <1>5, <2>1, <2>4 DEF ViewAgrees, BlocksAgree, ControlTypes
  <2>6. \A d \in Channels \ {c} : state'[d] = state[d] /\ acq'[d] = acq[d] /\ trk'[d] = trk[d]
    BY <1>1, <1>2, <2>1 DEF ControlTypes
  <2> QED
    BY <1>4, <2>1, <2>2, <2>3, <2>5, <2>6, OnlyOneMoves
<1> QED
  BY <1>6, <1>7

(* The loss may be reported before the flow graph has heard of the lock:   *)
(* then two events of the channel are in the queue.                        *)
LEMMA HandleLossKeeps ==
    ASSUME ControlInv, Operating, NEW c \in Channels,
           UNCHANGED <<flowgraphVars, threadVars, status, handler>>, HandleLossOfLock(c)
    PROVE  ControlInv'
<1>1. ControlTypes /\ ViewAgrees(c) /\ BlocksAgree(c)
  BY DEF ControlInv, FlowgraphViewAgrees, ChannelBlocksAgree
<1>2. /\ events[c] # <<>> /\ Head(events[c]) = 3
      /\ events' = [events EXCEPT ![c] = Tail(@)] /\ UNCHANGED trk
  BY DEF HandleLossOfLock
<1>3. state[c] = 2 /\ ~trk[c] /\ ~acq[c] /\ events[c] = <<3>>
  BY <1>1, <1>2 DEF BlocksAgree, ControlTypes
<1>3a. Tail(events[c]) = <<>>
  BY <1>3
<1>4. /\ events' \in [Channels -> Seq(1 .. 3)] /\ events'[c] = <<>>
      /\ \A d \in Channels \ {c} : events'[d] = events[d]
  BY <1>3a, <1>1, <1>2, PortServed
<1>5. /\ state' = [state EXCEPT ![c] = 0]
      /\ queue' = Append(queue, ChannelEvent(c, 2)) /\ UNCHANGED acq
  BY <1>3 DEF HandleLossOfLock, Event_failed_tracking_standby
<1>6. ChannelEvent(c, 2) \in Messages /\ Belongs(ChannelEvent(c, 2), c) /\ queue \in Seq(Messages)
  BY <1>1, ChannelEventIsMessage DEF ControlTypes
<1>7. ControlTypes'
  BY <1>1, <1>2, <1>4, <1>5, <1>6 DEF ControlTypes, flowgraphVars, threadVars
<1>8. state'[c] = 0 /\ channels_state' = channels_state
  BY <1>1, <1>5 DEF ControlTypes, flowgraphVars
<1>9. ViewAgrees(c)'
  <2>1. CASE channels_state[c] = 1
    <3>1. OneEvent(queue, c, 1)
      BY <1>1, <1>3, <2>1 DEF ViewAgrees
    <3>2. TwoEvents(queue', c, 1, 2)
      BY <1>5, <1>6, <3>1, PushSecond
    <3> QED
      BY <1>8, <2>1, <3>2 DEF ViewAgrees
  <2>2. CASE channels_state[c] = 2
    <3>1. NoEvent(queue, c)
      BY <1>1, <1>3, <2>2 DEF ViewAgrees
    <3>2. OneEvent(queue', c, 2)
      BY <1>5, <1>6, <3>1, PushFirst
    <3> QED
      BY <1>8, <2>2, <3>2 DEF ViewAgrees
  <2> QED
    BY <1>1, <1>3, <2>1, <2>2 DEF ViewAgrees, ControlTypes
<1>10. BlocksAgree(c)'
  BY <1>2, <1>3, <1>4, <1>5, <1>8 DEF BlocksAgree
<1>11. \A d \in Channels \ {c} : state'[d] = state[d] /\ acq'[d] = acq[d] /\ trk'[d] = trk[d]
  BY <1>1, <1>2, <1>5 DEF ControlTypes
<1> QED
  BY <1>4, <1>5, <1>6, <1>7, <1>9, <1>10, <1>11, OnlyOneMoves

-----------------------------------------------------------------------------
(* The steps of the control thread.                                        *)

LEMMA OneChannelServed ==
    ASSUME ControlInv, Operating, Operating', NEW c \in Channels, ControlTypes', AcqCountExact',
           \A d \in Channels \ {c} : /\ state'[d] = state[d] /\ acq'[d] = acq[d]
                                     /\ trk'[d] = trk[d] /\ events'[d] = events[d]
                                     /\ channels_state'[d] = channels_state[d]
                                     /\ QueueSpares(d),
           ViewAgrees(c)', BlocksAgree(c)'
    PROVE  ControlInv'
<1>1. ASSUME NEW d \in Channels PROVE ViewAgrees(d)' /\ BlocksAgree(d)'
  <2>1. CASE d = c
    BY <2>1
  <2>2. CASE d # c
    <3>1. ViewAgrees(d) /\ BlocksAgree(d) /\ ControlTypes
      BY DEF ControlInv, FlowgraphViewAgrees, ChannelBlocksAgree
    <3> QED
      BY <2>2, <3>1, ViewKept, BlocksKept
  <2> QED
    BY <2>1, <2>2
<1> QED
  BY <1>1 DEF ControlInv, FlowgraphViewAgrees, ChannelBlocksAgree, Operating

(* The channel whose event is at the head of the queue.                    *)
Served(c, w) ==
    /\ Operating /\ queue # <<>> /\ queue \in Seq(Messages)
    /\ queue' = Tail(queue) /\ queue' \in Seq(Messages)
    /\ Who = c /\ Head(queue) = ChannelEvent(c, w)
    /\ \A d \in Channels \ {c} : QueueSpares(d)

LEMMA HeadEvent ==
    ASSUME ControlTypes, NEW w, ChannelEventPopped(w)
    PROVE  \E c \in Channels : Served(c, w)
<1>1. /\ Operating /\ queue # <<>> /\ queue \in Seq(Messages) /\ queue' = Tail(queue)
      /\ Head(queue).kind = "channel" /\ Head(queue).what = w
  BY DEF ControlTypes, ChannelEventPopped, Popped, Operating, Idle
<1>2. Head(queue) \in Messages /\ Tail(queue) \in Seq(Messages)
  BY <1>1
<1>3. Head(queue) \in ChannelEvents
  BY <1>1, <1>2 DEF Messages, CommandEvents, CommandEvent
<1>4. PICK c \in Channels, v \in 0 .. 2 : Head(queue) = ChannelEvent(c, v)
  BY <1>3 DEF ChannelEvents
<1>5. Who = c /\ w = v
  BY <1>1, <1>4 DEF ChannelEvent, Who
<1>6. \A d \in Channels \ {c} : QueueSpares(d)
  BY <1>1, <1>5 DEF QueueSpares, Belongs, Who
<1> QED
  BY <1>1, <1>2, <1>4, <1>5, <1>6 DEF Served

LEMMA ManagingTypes ==
    ASSUME NEW who \in Channels, NEW gs, handler' = Managing(who, gs)
    PROVE  /\ handler' = [loop |-> handler'.loop, who |-> handler'.who,
                          i |-> handler'.i, gs |-> handler'.gs]
           /\ handler'.loop \in {"none", "manager"}
           /\ handler'.who \in Channels /\ handler'.i \in 0 .. NChannels
BY ChannelsAssumption DEF Managing

LEMMA FailedKeeps == ControlInv /\ AcquisitionFailed => ControlInv'
<1> SUFFICES ASSUME ControlInv, AcquisitionFailed PROVE ControlInv'
  OBVIOUS
<1>1. ControlTypes /\ AcqCountExact /\ ChannelEventPopped(0)
  BY DEF ControlInv, AcquisitionFailed
<1>2. PICK c \in Channels : Served(c, 0)
  BY <1>1, HeadEvent
<1>3. ViewAgrees(c) /\ BlocksAgree(c)
  BY <1>2 DEF ControlInv, FlowgraphViewAgrees, ChannelBlocksAgree, Served
<1>4. /\ channels_state' = [channels_state EXCEPT ![c] = 0]
      /\ acq_count' = Decremented
      /\ handler' = Managing(c, GivesBack(c))
      /\ UNCHANGED <<state, acq, trk, events, standby, running>>
  BY <1>2 DEF AcquisitionFailed, threadVars, Served
<1>5. /\ ~NoEvent(queue, c)
      /\ \A w : OneEvent(queue, c, w) => w = 0 /\ NoEvent(queue', c)
      /\ \A v, w : TwoEvents(queue, c, v, w) => v = 0
  BY <1>2, PopOwn DEF Served
<1>6. channels_state[c] = 1 /\ state[c] = 3 /\ NoEvent(queue', c)
  BY <1>1, <1>3, <1>5 DEF ViewAgrees, ControlTypes
<1>7. AcqCountExact' /\ acq_count' \in Nat
  BY <1>1, <1>4, <1>6, CountEnds
<1>8. ControlTypes'
  BY <1>1, <1>2, <1>4, <1>7, ManagingTypes DEF ControlTypes, Served
<1>9. /\ channels_state'[c] = 0 /\ state'[c] = 3
      /\ \A d \in Channels \ {c} : channels_state'[d] = channels_state[d]
  BY <1>1, <1>4, <1>6 DEF ControlTypes
<1>10. ViewAgrees(c)' /\ BlocksAgree(c)'
  BY <1>3, <1>4, <1>6, <1>9 DEF ViewAgrees, BlocksAgree
<1>11. Operating'
  BY <1>2, <1>4 DEF Served, Operating, Managing
<1> QED
  BY <1>2, <1>4, <1>7, <1>8, <1>9, <1>10, <1>11, OneChannelServed DEF Served

LEMMA SucceededKeeps == ControlInv /\ AcquisitionSucceeded => ControlInv'
<1> SUFFICES ASSUME ControlInv, AcquisitionSucceeded PROVE ControlInv'
  OBVIOUS
<1>1. ControlTypes /\ AcqCountExact /\ ChannelEventPopped(1)
  BY DEF ControlInv, AcquisitionSucceeded
<1>2. PICK c \in Channels : Served(c, 1)
  BY <1>1, HeadEvent
<1>3. ViewAgrees(c) /\ BlocksAgree(c)
  BY <1>2 DEF ControlInv, FlowgraphViewAgrees, ChannelBlocksAgree, Served
<1>4. /\ channels_state' = [channels_state EXCEPT ![c] = 2]
      /\ acq_count' = Decremented
      /\ handler' = Managing(c, 0)
      /\ UNCHANGED <<state, acq, trk, events, standby, running>>
  BY <1>2 DEF AcquisitionSucceeded, threadVars, Served
<1>5. /\ ~NoEvent(queue, c)
      /\ \A w : OneEvent(queue, c, w) => w = 1 /\ NoEvent(queue', c)
      /\ \A v, w : TwoEvents(queue, c, v, w) => v = 1 /\ OneEvent(queue', c, w)
  BY <1>2, PopOwn DEF Served
<1>6. /\ channels_state[c] = 1
      /\ \/ state[c] = 2 /\ NoEvent(queue', c)
         \/ state[c] = 0 /\ OneEvent(queue', c, 2)
  BY <1>1, <1>3, <1>5 DEF ViewAgrees, ControlTypes
<1>7. AcqCountExact' /\ acq_count' \in Nat
  BY <1>1, <1>4, <1>6, CountEnds
<1>8. ControlTypes'
  BY <1>1, <1>2, <1>4, <1>7, ManagingTypes DEF ControlTypes, Served
<1>9. /\ channels_state'[c] = 2 /\ state'[c] = state[c]
      /\ \A d \in Channels \ {c} : channels_state'[d] = channels_state[d]
  BY <1>1, <1>4 DEF ControlTypes
<1>10. ViewAgrees(c)' /\ BlocksAgree(c)'
  BY <1>3, <1>4, <1>6, <1>9 DEF ViewAgrees, BlocksAgree
<1>11. Operating'
  BY <1>2, <1>4 DEF Served, Operating, Managing
<1> QED
  BY <1>2, <1>4, <1>7, <1>8, <1>9, <1>10, <1>11, OneChannelServed DEF Served

(* Event_start_acquisition on a channel that is not busy.                  *)
LEMMA StartFacts ==
    ASSUME ControlTypes, NEW c \in Channels, state[c] \in {0, 3}, BlocksAgree(c),
           Event_start_acquisition({c}), UNCHANGED events
    PROVE  /\ state' \in [Channels -> 0 .. 3] /\ acq' \in [Channels -> BOOLEAN] /\ trk' = trk
           /\ state'[c] = 1 /\ BlocksAgree(c)'
           /\ \A d \in Channels \ {c} : state'[d] = state[d] /\ acq'[d] = acq[d]
<1>1. /\ state' = [d \in Channels |->
                     IF d \in {c} /\ state[d] \notin {1, 2} THEN 1 ELSE state[d]]
      /\ acq' = [d \in Channels |-> acq[d] \/ (d \in {c} /\ state[d] \notin {1, 2})]
      /\ trk' = trk
  BY DEF Event_start_acquisition
<1>2. state' \in [Channels -> 0 .. 3] /\ state'[c] = 1
  BY <1>1 DEF ControlTypes
<1>3. acq' \in [Channels -> BOOLEAN]
  BY <1>1, Zenon
<1>4. acq'[c]
  <2>1. c \in {c} /\ state[c] \notin {1, 2}
    OBVIOUS
  <2> QED
    BY <1>1, <2>1, Zenon
<1>5. ASSUME NEW d \in Channels \ {c} PROVE state'[d] = state[d] /\ acq'[d] = acq[d]
  <2>1. state'[d] = state[d]
    BY <1>1
  <2>2. acq'[d] = (acq[d] \/ (d \in {c} /\ state[d] \notin {1, 2})) /\ acq[d] \in BOOLEAN
    BY <1>1, Zenon DEF ControlTypes
  <2> QED
    BY <2>1, <2>2
<1>6. BlocksAgree(c)'
  BY <1>1, <1>2, <1>4 DEF BlocksAgree
<1> QED
  BY <1>1, <1>2, <1>3, <1>5, <1>6

LEMMA LostKeeps == ControlInv /\ TrackingLost => ControlInv'
<1> SUFFICES ASSUME ControlInv, TrackingLost PROVE ControlInv'
  OBVIOUS
<1>1. ControlTypes /\ AcqCountExact /\ ChannelEventPopped(2)
  BY DEF ControlInv, TrackingLost
<1>2. PICK c \in Channels : Served(c, 2)
  BY <1>1, HeadEvent
<1>3. ViewAgrees(c) /\ BlocksAgree(c)
  BY <1>2 DEF ControlInv, FlowgraphViewAgrees, ChannelBlocksAgree, Served
<1>4. /\ ~NoEvent(queue, c)
      /\ \A w : OneEvent(queue, c, w) => w = 2 /\ NoEvent(queue', c)
      /\ \A v, w : TwoEvents(queue, c, v, w) => v = 2
  BY <1>2, PopOwn DEF Served
<1>5. channels_state[c] = 2 /\ state[c] = 0 /\ NoEvent(queue', c)
  BY <1>1, <1>3, <1>4 DEF ViewAgrees, ControlTypes
<1>6. UNCHANGED <<events, handler, standby, running>>
  BY DEF TrackingLost, threadVars
<1>6a. Operating'
  BY <1>2, <1>6 DEF Served, Operating
<1>7. CASE acq_count < MaxAcq
  <2>1. /\ channels_state' = [channels_state EXCEPT ![c] = 1]
        /\ acq_count' = acq_count + 1
        /\ Event_start_acquisition({c})
    BY <1>2, <1>7 DEF TrackingLost, Served
  <2>2. AcqCountExact' /\ acq_count' \in Nat
    <3>1. channels_state[c] # 1
      BY <1>5
    <3> QED
      BY <1>1, <1>7, <2>1, <3>1, CountStarts
  <2>3. /\ state' \in [Channels -> 0 .. 3] /\ acq' \in [Channels -> BOOLEAN] /\ trk' = trk
        /\ state'[c] = 1 /\ BlocksAgree(c)'
        /\ \A d \in Channels \ {c} : state'[d] = state[d] /\ acq'[d] = acq[d]
    BY <1>1, <1>3, <1>5, <1>6, <2>1, StartFacts
  <2>4. ControlTypes'
    <3>1. channels_state' \in [Channels -> 0 .. 2] /\ trk' \in [Channels -> BOOLEAN]
      BY <1>1, <2>1, <2>3 DEF ControlTypes
    <3> QED
      BY <1>1, <1>2, <1>6, <2>2, <2>3, <3>1 DEF ControlTypes, Served
  <2>5. /\ channels_state'[c] = 1
        /\ \A d \in Channels \ {c} : channels_state'[d] = channels_state[d]
    BY <1>1, <2>1 DEF ControlTypes
  <2>6. ViewAgrees(c)'
    BY <1>5, <2>3, <2>5 DEF ViewAgrees
  <2> QED
    BY <1>2, <1>6, <1>6a, <2>2, <2>3, <2>4, <2>5, <2>6, OneChannelServed DEF Served
<1>8. CASE ~(acq_count < MaxAcq)
  <2>1. /\ channels_state' = [channels_state EXCEPT ![c] = 0]
        /\ UNCHANGED <<acq_count, state, acq, trk>>
    BY <1>2, <1>8 DEF TrackingLost, Served
  <2>2. /\ channels_state'[c] = 0
        /\ \A d \in Channels \ {c} : channels_state'[d] = channels_state[d]
    BY <1>1, <2>1 DEF ControlTypes
  <2>3. InAcquisition' = InAcquisition
    BY <1>5, <2>2 DEF InAcquisition
  <2>4. AcqCountExact'
    BY <1>1, <2>1, <2>3 DEF AcqCountExact
  <2>5. ControlTypes'
    BY <1>1, <1>2, <1>6, <2>1 DEF ControlTypes, Served
  <2>6. ViewAgrees(c)' /\ BlocksAgree(c)'
    BY <1>3, <1>5, <1>6, <2>1, <2>2 DEF ViewAgrees, BlocksAgree
  <2> QED
    BY <1>2, <1>6, <1>6a, <2>1, <2>2, <2>4, <2>5, <2>6, OneChannelServed DEF Served
<1> QED
  BY <1>7, <1>8

LEMMA CurrentIsChannel ==
    ASSUME ControlTypes, ManagerTurn
    PROVE  /\ Current \in Channels
           /\ Advance => /\ handler' = [loop |-> handler'.loop, who |-> handler'.who,
                                        i |-> handler'.i, gs |-> handler'.gs]
                         /\ handler'.loop = "manager" /\ handler'.who \in Channels
                         /\ handler'.i \in 0 .. NChannels
<1>1. handler.i \in 0 .. NChannels /\ handler.who \in 0 .. (NChannels - 1) /\ NChannels \in Nat \ {0}
  BY ChannelsAssumption DEF ControlTypes, Channels
<1>2. \A n \in Nat : n % NChannels \in 0 .. (NChannels - 1)
  BY <1>1
<1>3. Current \in Channels
  BY <1>1, <1>2 DEF Current, Channels
<1>4. ASSUME Advance
      PROVE  /\ handler' = [loop |-> handler.loop, who |-> handler.who,
                            i |-> handler.i + 1, gs |-> handler.gs]
    BY <1>4 DEF Advance, ControlTypes
<1> QED
  BY <1>1, <1>3, <1>4 DEF ManagerTurn, Channels

(* The manager starts the channel it is at.                                *)
LEMMA ManagerStartKeeps ==
    ASSUME ControlInv, ManagerTurn, SlotFor(Current), StartChannel(Current), Advance,
           UNCHANGED threadVars
    PROVE  ControlInv'
<1>1. ControlTypes /\ AcqCountExact
  BY DEF ControlInv
<1>2. Operating
  BY DEF ControlInv, ManagerTurn, Idle, Operating
<1>3. PICK c \in Channels : c = Current
  BY <1>1, CurrentIsChannel
<1>4. acq_count < MaxAcq /\ channels_state[c] = 0
  BY <1>3 DEF SlotFor
<1>5. ViewAgrees(c) /\ BlocksAgree(c)
  BY <1>2 DEF ControlInv, FlowgraphViewAgrees, ChannelBlocksAgree
<1>6. state[c] \in {0, 3} /\ NoEvent(queue, c)
  BY <1>4, <1>5 DEF ViewAgrees
<1>7. /\ channels_state' = [channels_state EXCEPT ![c] = 1]
      /\ acq_count' = acq_count + 1
      /\ Event_start_acquisition({c})
      /\ UNCHANGED <<events, queue, standby, running>>
  BY <1>3 DEF StartChannel, threadVars
<1>8. AcqCountExact' /\ acq_count' \in Nat
  <2>1. channels_state[c] # 1
    BY <1>4
  <2> QED
    BY <1>1, <1>4, <1>7, <2>1, CountStarts
<1>9. /\ state' \in [Channels -> 0 .. 3] /\ acq' \in [Channels -> BOOLEAN] /\ trk' = trk
      /\ state'[c] = 1 /\ BlocksAgree(c)'
      /\ \A d \in Channels \ {c} : state'[d] = state[d] /\ acq'[d] = acq[d]
  BY <1>1, <1>5, <1>6, <1>7, StartFacts
<1>10. ControlTypes'
  <2>1. channels_state' \in [Channels -> 0 .. 2] /\ trk' \in [Channels -> BOOLEAN]
    BY <1>1, <1>7, <1>9 DEF ControlTypes
  <2> QED
    BY <1>1, <1>7, <1>8, <1>9, <2>1, CurrentIsChannel DEF ControlTypes
<1>11. /\ channels_state'[c] = 1
       /\ \A d \in Channels \ {c} : channels_state'[d] = channels_state[d]
  BY <1>1, <1>7 DEF ControlTypes
<1>12. ViewAgrees(c)'
  BY <1>6, <1>7, <1>9, <1>11 DEF ViewAgrees
<1>13. \A d \in Channels : QueueSpares(d)
  BY <1>7 DEF QueueSpares
<1>14. Operating'
  BY <1>1, <1>2, <1>7, CurrentIsChannel DEF Operating
<1> QED
  BY <1>2, <1>7, <1>8, <1>9, <1>10, <1>11, <1>12, <1>13, <1>14, OneChannelServed

(* A channel in acquisition is marked so, also during the shutdown.        *)
LEMMA AcquiringSeen ==
    ASSUME ControlInv, NEW c \in Channels, state[c] = 1 PROVE channels_state[c] = 1
<1>1. CASE Operating
  <2>1. ViewAgrees(c) /\ channels_state[c] \in 0 .. 2
    BY <1>1 DEF ControlInv, ControlTypes, FlowgraphViewAgrees
  <2> QED
    BY <2>1 DEF ViewAgrees
<1>2. CASE ~Operating
  BY <1>2 DEF ControlInv
<1> QED
  BY <1>1, <1>2

(* A step that leaves the channels and the view of the flow graph alone.   *)
LEMMA QuietKeeps ==
    ASSUME ControlInv, ControlTypes', \A d \in Channels : QueueSpares(d),
           UNCHANGED <<state, acq, trk, events, channels_state, acq_count, running>>,
           handler' = handler \/ handler.loop # "stop",
           handler' = handler \/ handler' = Idle \/ running
    PROVE  ControlInv'
<1>1. AcqCountExact'
  BY CountKept DEF ControlInv
<1>2. Operating' => Operating
  BY DEF Operating
<1>3. ASSUME Operating, NEW d \in Channels PROVE ViewAgrees(d)' /\ BlocksAgree(d)'
  <2>1. ViewAgrees(d) /\ BlocksAgree(d) /\ ControlTypes
    BY <1>3 DEF ControlInv, FlowgraphViewAgrees, ChannelBlocksAgree
  <2> QED
    BY <2>1, ViewKept, BlocksKept
<1>4. \A d \in Channels : state'[d] = 1 => channels_state'[d] = 1
  BY AcquiringSeen
<1> QED
  BY <1>1, <1>2, <1>3, <1>4 DEF ControlInv, FlowgraphViewAgrees, ChannelBlocksAgree

(* A step of the shutdown, or of a channel during it.                      *)
LEMMA ShutdownKeeps ==
    ASSUME ControlInv, ControlTypes', ~Operating', ~running' => handler' = Idle,
           UNCHANGED <<channels_state, acq_count>>,
           \A d \in Channels : state'[d] = 1 => state[d] = 1
    PROVE  ControlInv'
<1>1. AcqCountExact'
  BY CountKept DEF ControlInv
<1>2. \A d \in Channels : state'[d] = 1 => channels_state'[d] = 1
  BY AcquiringSeen
<1> QED
  BY <1>1, <1>2 DEF ControlInv, FlowgraphViewAgrees, ChannelBlocksAgree

LEMMA IdleTypes ==
    ASSUME handler' = Idle
    PROVE  /\ handler' = [loop |-> handler'.loop, who |-> handler'.who,
                          i |-> handler'.i, gs |-> handler'.gs]
           /\ handler'.loop \in {"none", "manager"}
           /\ handler'.who \in Channels /\ handler'.i \in 0 .. NChannels
BY ChannelsAssumption DEF Idle, Channels

LEMMA ManagerKeeps == ControlInv /\ acquisition_manager => ControlInv'
<1> SUFFICES ASSUME ControlInv, acquisition_manager PROVE ControlInv'
  OBVIOUS
<1>1. ControlTypes
  BY DEF ControlInv
<1>2. CASE ManagerSkips
  <2>1. /\ ManagerTurn /\ Advance
        /\ UNCHANGED <<state, acq, trk, events, queue, channels_state, acq_count, running, standby>>
    BY <1>2 DEF ManagerSkips, fsmVars, flowgraphVars, threadVars
  <2>2. ControlTypes'
    BY <1>1, <2>1, CurrentIsChannel DEF ControlTypes
  <2>3. running /\ handler.loop # "stop"
    BY <2>1 DEF ControlInv, ManagerTurn, Idle
  <2> QED
    BY <2>1, <2>2, <2>3, QuietKeeps DEF QueueSpares
<1>3. CASE ManagerStartsFixed
  BY <1>3, ManagerStartKeeps DEF ManagerStartsFixed
<1>4. CASE ManagerSearches
  <2>1. CASE StartAllowed(BandOf[Current])
    <3>1. /\ ManagerTurn /\ SlotFor(Current) /\ StartChannel(Current) /\ Advance
          /\ UNCHANGED threadVars
      BY <1>4, <2>1 DEF ManagerSearches
    <3> QED
      BY <3>1, ManagerStartKeeps
  <2>2. CASE ~StartAllowed(BandOf[Current])
    <3>1. /\ ManagerTurn /\ Advance
          /\ UNCHANGED <<state, acq, trk, events, queue, channels_state, acq_count, running, standby>>
      BY <1>4, <2>2 DEF ManagerSearches, fsmVars, threadVars
    <3>2. ControlTypes'
      BY <1>1, <3>1, CurrentIsChannel DEF ControlTypes
    <3>3. running /\ handler.loop # "stop"
      BY <3>1 DEF ControlInv, ManagerTurn, Idle
    <3> QED
      BY <3>1, <3>2, <3>3, QuietKeeps DEF QueueSpares
  <2> QED
    BY <2>1, <2>2
<1>5. CASE ManagerReturns
  <2>1. /\ handler' = Idle /\ handler.loop # "stop"
        /\ UNCHANGED <<state, acq, trk, events, queue, channels_state, acq_count, running, standby>>
    BY <1>5 DEF ManagerReturns, fsmVars, threadVars
  <2>2. ControlTypes'
    BY <1>1, <2>1, IdleTypes DEF ControlTypes
  <2> QED
    BY <2>1, <2>2, QuietKeeps DEF QueueSpares
<1> QED
  BY <1>2, <1>3, <1>4, <1>5 DEF acquisition_manager

-----------------------------------------------------------------------------
(* The remaining steps.                                                    *)

(* Without telecommands the only commands are those that stop the receiver *)
(* and no command is an event of a channel.                                *)
LEMMA CommandsStop ==
    ASSUME NoTelecommands, ControlTypes, NEW id, NEW what, CommandPopped(id, what)
    PROVE  /\ id = 200
           /\ queue' \in Seq(Messages) /\ running
           /\ \A d \in Channels : QueueSpares(d)
<1>1. /\ queue # <<>> /\ queue \in Seq(Messages) /\ queue' = Tail(queue) /\ running
      /\ Head(queue).kind = "command" /\ Head(queue).who = id
  BY DEF CommandPopped, Popped, ControlTypes
<1>2. Head(queue) \in Messages /\ Tail(queue) \in Seq(Messages)
  BY <1>1
<1>3. Head(queue) \in CommandEvents
  BY <1>1, <1>2 DEF Messages, ChannelEvents, ChannelEvent
<1>4. PICK cmd \in Commands \cup {<<200, 0>>} : Head(queue) = CommandEvent(cmd[1], cmd[2])
  BY <1>3 DEF CommandEvents
<1>5. cmd[1] = 200
  BY <1>4 DEF NoTelecommands
<1>6. id = 200
  BY <1>1, <1>4, <1>5 DEF CommandEvent
<1> QED
  BY <1>1, <1>2, <1>6 DEF QueueSpares, Belongs

LEMMA CommandsNotEvents ==
    ASSUME ControlTypes, NEW cmd \in Commands \cup {<<200, 0>>},
           queue' = Append(queue, CommandEvent(cmd[1], cmd[2]))
    PROVE  queue' \in Seq(Messages) /\ \A d \in Channels : QueueSpares(d)
<1>1. CommandEvent(cmd[1], cmd[2]) \in Messages
  BY DEF Messages, CommandEvents
<1>2. \A d \in Channels : ~Belongs(CommandEvent(cmd[1], cmd[2]), d)
  BY DEF Belongs, CommandEvent
<1> QED
  BY <1>1, <1>2 DEF QueueSpares, ControlTypes

LEMMA ControlThreadKeeps ==
    ASSUME NoTelecommands, ControlInv, ControlThread PROVE ControlInv'
<1>1. ControlTypes
  BY DEF ControlInv
<1>2. CASE Timeout
  <2>1. /\ running /\ handler' = Managing(0, 0) /\ handler.loop # "stop"
        /\ UNCHANGED <<state, acq, trk, events, queue, channels_state, acq_count, running, standby>>
    BY <1>2 DEF Timeout, fsmVars, flowgraphVars, threadVars, Idle
  <2>2. 0 \in Channels
    BY ChannelsAssumption DEF Channels
  <2>3. ControlTypes'
    BY <1>1, <2>1, <2>2, ManagingTypes DEF ControlTypes
  <2> QED
    BY <2>1, <2>3, QuietKeeps DEF QueueSpares
<1>3. CASE StopCommand
  <2>1. PICK what \in {0, 1} : CommandPopped(200, what)
    BY <1>3 DEF StopCommand
  <2>2. UNCHANGED <<state, acq, trk, events, channels_state, acq_count, running, standby, handler>>
    BY <1>3 DEF StopCommand, CommandPopped, flowgraphVars
  <2>3. queue' \in Seq(Messages) /\ \A d \in Channels : QueueSpares(d)
    BY <1>1, <2>1, CommandsStop
  <2>4. ControlTypes'
    BY <1>1, <2>2, <2>3 DEF ControlTypes
  <2> QED
    BY <2>2, <2>3, <2>4, QuietKeeps
<1>5. ~EventDropped /\ ~TimeoutInStandby
  BY <1>1 DEF EventDropped, TimeoutInStandby, ControlTypes
<1>6. ~StandbyStopsChannel /\ ~StandbySkips /\ ~StandbyReturns
  BY <1>1 DEF StandbyStopsChannel, StandbySkips, StandbyReturns, StoppingTurn, ControlTypes
<1>7. \A what : ~CommandPopped(300, what)
  BY <1>1, CommandsStop
<1>8. ~StandbyCommand /\ ~ColdStart /\ ~WarmStart /\ ~HotStart
  BY <1>7 DEF StandbyCommand, ColdStart, WarmStart, HotStart, Start
<1> QED
  BY <1>2, <1>3, <1>5, <1>6, <1>8, FailedKeeps, SucceededKeeps, LostKeeps, ManagerKeeps
     DEF ControlThread

LEMMA StopFlowgraphKeeps ==
    ASSUME ControlInv, StopFlowgraph PROVE ControlInv'
<1>1. ControlTypes
  BY DEF ControlInv
<1>2. CASE StopBegins
  <2>1. /\ handler' = Stopping("stop") /\ handler.loop # "stop" /\ running
        /\ UNCHANGED <<state, acq, trk, events, queue, channels_state, acq_count, running, standby>>
    BY <1>2 DEF StopBegins, Idle, fsmVars, flowgraphVars, threadVars
  <2>2. 0 \in Channels /\ 0 \in 0 .. NChannels
    BY ChannelsAssumption DEF Channels
  <2>3. ControlTypes'
    BY <1>1, <2>1, <2>2 DEF ControlTypes, Stopping
  <2> QED
    BY <2>1, <2>3, QuietKeeps DEF QueueSpares
<1>3. CASE StopsChannel
  <2>1. /\ handler.loop = "stop" /\ handler.i < NChannels /\ Event_stop_channel({handler.i}) /\ Advance
        /\ UNCHANGED <<events, queue, channels_state, acq_count, standby, running>>
    BY <1>3 DEF StopsChannel, flowgraphVars, threadVars
  <2>2. FsmTypes'
    BY <1>1, <2>1, ControlTypesFsm, StopTypes
  <2>3. handler' = [loop |-> "stop", who |-> handler.who, i |-> handler.i + 1, gs |-> handler.gs]
    BY <1>1, <2>1 DEF ControlTypes, Advance
  <2>4. handler.i + 1 \in 0 .. NChannels
    BY <1>1, <2>1, ChannelsAssumption DEF ControlTypes
  <2>5. ControlTypes'
    BY <1>1, <2>1, <2>2, <2>3, <2>4 DEF ControlTypes, FsmTypes
  <2>6. \A d \in Channels : state'[d] = 1 => state[d] = 1
    BY <2>1 DEF Event_stop_channel
  <2>7. ~Operating' /\ running
    BY <2>1, <2>3 DEF Operating, ControlInv, Idle
  <2> QED
    BY <2>1, <2>5, <2>6, <2>7, ShutdownKeeps
<1>4. CASE BlocksStopped
  <2>1. /\ handler' = Idle /\ running' = FALSE
        /\ UNCHANGED <<state, acq, trk, events, queue, channels_state, acq_count, standby>>
    BY <1>4 DEF BlocksStopped, fsmVars, flowgraphVars
  <2>2. ControlTypes'
    BY <1>1, <2>1, IdleTypes DEF ControlTypes
  <2> QED
    BY <2>1, <2>2, ShutdownKeeps DEF Operating
<1> QED
  BY <1>2, <1>3, <1>4 DEF StopFlowgraph

(* A channel never starts an acquisition by itself.                        *)
LEMMA ChannelStartsNothing ==
    ASSUME FsmTypes, NEW c \in Channels, ChannelStep(c)
    PROVE  \A d \in Channels : state'[d] = 1 => state[d] = 1
<1>1. state \in [Channels -> 0 .. 3]
  BY DEF FsmTypes
<1>2. PositiveAcquisition(c) \/ HandleValidAcquisition(c) =>
        \A d \in Channels : state'[d] = 1 => state[d] = 1
  BY <1>1 DEF PositiveAcquisition, HandleValidAcquisition, Event_valid_acquisition
<1>3. NegativeAcquisition(c) \/ LateSearchEnds(c) \/ LossOfLock(c) => state' = state
  BY DEF NegativeAcquisition, LateSearchEnds, LossOfLock
<1>4. HandleAcquisitionFailed(c) \/ HandleLossOfLock(c) =>
        \A d \in Channels : state'[d] = 1 => state[d] = 1
  BY <1>1 DEF HandleAcquisitionFailed, HandleLossOfLock, Event_failed_acquisition_repeat,
              Event_failed_acquisition_no_repeat, Event_failed_tracking_standby
<1> QED
  BY <1>2, <1>3, <1>4 DEF ChannelStep

LEMMA ChannelKeeps ==
    ASSUME ControlInv, NEW c \in Channels, Channel(c) PROVE ControlInv'
<1>1. running /\ UNCHANGED <<flowgraphVars, threadVars, status, handler>> /\ ChannelStep(c)
  BY DEF Channel
<1>2. CASE Operating
  <2>1. ~LateSearchEnds(c)
    BY <1>2 DEF LateSearchEnds, ControlInv, ControlTypes, ChannelBlocksAgree, BlocksAgree
  <2> QED
    BY <1>1, <1>2, <2>1, PositiveKeeps, NegativeKeeps, LossKeeps, HandleValidKeeps,
       HandleFailedKeeps, HandleLossKeeps DEF ChannelStep
<1>3. CASE ~Operating
  <2>1. ControlTypes /\ FsmTypes
    BY ControlTypesFsm DEF ControlInv
  <2>2. FsmTypes' /\ \A d \in Channels : state'[d] = 1 => state[d] = 1
    BY <1>1, <2>1, ChannelStepTypes, ChannelStartsNothing
  <2>3. UNCHANGED <<channels_state, acq_count, running, standby, handler>>
    BY <1>1 DEF flowgraphVars, threadVars
  <2>4. ControlTypes'
    BY <2>1, <2>2, <2>3 DEF ControlTypes, FsmTypes
  <2>5. ~Operating' /\ running'
    BY <1>1, <1>3, <2>3 DEF Operating
  <2> QED
    BY <2>2, <2>3, <2>4, <2>5, ShutdownKeeps
<1> QED
  BY <1>2, <1>3

LEMMA ControlInvStep ==
    ASSUME NoTelecommands PROVE ControlInv /\ [Next]_vars => ControlInv'
<1> SUFFICES ASSUME ControlInv, [Next]_vars PROVE ControlInv'
  OBVIOUS
<1>1. ControlTypes
  BY DEF ControlInv
<1>2. CASE ControlThread \/ StopFlowgraph
  BY <1>2, ControlThreadKeeps, StopFlowgraphKeeps
<1>3. CASE PushCommand
  <2>1. PICK cmd \in Commands : queue' = Append(queue, CommandEvent(cmd[1], cmd[2]))
    BY <1>3 DEF PushCommand
  <2>2. UNCHANGED <<state, acq, trk, events, channels_state, acq_count, running, standby, handler>>
    BY <1>3 DEF PushCommand, flowgraphVars
  <2>3. queue' \in Seq(Messages) /\ \A d \in Channels : QueueSpares(d)
    BY <1>1, <2>1, CommandsNotEvents
  <2>4. ControlTypes'
    BY <1>1, <2>2, <2>3 DEF ControlTypes
  <2> QED
    BY <2>2, <2>3, <2>4, QuietKeeps
<1>4. CASE QuitKey
  <2>1. queue' = Append(queue, CommandEvent(<<200, 0>>[1], <<200, 0>>[2]))
    BY <1>4 DEF QuitKey
  <2>2. UNCHANGED <<state, acq, trk, events, channels_state, acq_count, running, standby, handler>>
    BY <1>4 DEF QuitKey, flowgraphVars
  <2>3. queue' \in Seq(Messages) /\ \A d \in Channels : QueueSpares(d)
    BY <1>1, <2>1, CommandsNotEvents
  <2>4. ControlTypes'
    BY <1>1, <2>2, <2>3 DEF ControlTypes
  <2> QED
    BY <2>2, <2>3, <2>4, QuietKeeps
<1>5. ASSUME NEW c \in Channels, Channel(c) PROVE ControlInv'
  BY <1>5, ChannelKeeps
<1>6. CASE UNCHANGED <<fsmVars, flowgraphVars, threadVars, handler>>
  <2>1. UNCHANGED <<state, acq, trk, events, queue, channels_state, acq_count, running, standby, handler>>
    BY <1>6 DEF fsmVars, flowgraphVars, threadVars
  <2>2. ControlTypes'
    BY <1>1, <2>1 DEF ControlTypes
  <2> QED
    BY <2>1, <2>2, QuietKeeps DEF QueueSpares
<1> QED
  BY <1>2, <1>3, <1>4, <1>5, <1>6 DEF Next, StatusReport, Stopped, vars

LEMMA ControlInvInit == ASSUME NoTelecommands PROVE Init => ControlInv
<1> SUFFICES ASSUME Init PROVE ControlInv
  OBVIOUS
<1>1. NChannels \in Nat \ {0} /\ MaxAcq \in 0 .. NChannels
  BY ChannelsAssumption, ControlAssumption
<1>2. handler = Idle
  BY DEF Init, NoTelecommands
<1>3. /\ handler = [loop |-> handler.loop, who |-> handler.who, i |-> handler.i, gs |-> handler.gs]
      /\ handler.loop \in {"none", "manager"}
      /\ handler.who \in Channels /\ handler.i \in 0 .. NChannels
  BY <1>1, <1>2 DEF Idle, Channels
<1>4. ASSUME NEW c \in Channels
      PROVE  /\ state[c] = channels_state[c] /\ channels_state[c] \in {0, 1}
             /\ (acq[c] <=> channels_state[c] = 1) /\ ~trk[c] /\ events[c] = <<>>
  <2>1. /\ state[c] = IF c < MaxAcq THEN 1 ELSE 0
        /\ channels_state[c] = IF c < MaxAcq THEN 1 ELSE 0
        /\ events[c] = <<>>
    BY DEF Init, set_channels_state
  <2>2. acq[c] = (c < MaxAcq) /\ trk[c] = FALSE
    BY Zenon DEF Init
  <2>3. CASE c < MaxAcq
    BY <2>1, <2>2, <2>3
  <2>4. CASE ~(c < MaxAcq)
    <3>1. ~acq[c] /\ ~trk[c]
      BY <2>2, <2>4, Zenon
    <3>2. state[c] = 0 /\ channels_state[c] = 0 /\ channels_state[c] # 1
      BY <2>1, <2>4
    <3> QED
      BY <2>1, <3>1, <3>2
  <2> QED
    BY <2>3, <2>4
<1>5. \A c \in Channels : NoEvent(queue, c)
  BY DEF Init, NoEvent
<1>6. acq \in [Channels -> BOOLEAN] /\ trk \in [Channels -> BOOLEAN]
  <2>1. \A c \in Channels : (c < MaxAcq) \in BOOLEAN
    BY <1>1 DEF Channels
  <2> QED
    BY <2>1, Zenon DEF Init
<1>7. ControlTypes
  BY <1>1, <1>3, <1>6 DEF Init, set_channels_state, ControlTypes
<1>8. AcqCountExact
  <2>1. InAcquisition = 0 .. (MaxAcq - 1)
    <3>1. InAcquisition = {c \in Channels : c < MaxAcq}
      BY DEF Init, set_channels_state, InAcquisition
    <3> QED
      BY <1>1, <3>1 DEF Channels
  <2>2. Cardinality(0 .. (MaxAcq - 1)) = MaxAcq
    BY <1>1, FS_Interval
  <2> QED
    BY <1>1, <2>1, <2>2 DEF Init, set_channels_state, AcqCountExact
<1>9. FlowgraphViewAgrees /\ ChannelBlocksAgree
  BY <1>4, <1>5 DEF FlowgraphViewAgrees, ChannelBlocksAgree, ViewAgrees, BlocksAgree
<1>10. running /\ Operating
  BY <1>2 DEF Init, Idle, Operating
<1> QED
  BY <1>7, <1>8, <1>9, <1>10 DEF ControlInv

-----------------------------------------------------------------------------
(* The theorems.                                                           *)

LEMMA ControlInvariant == NoTelecommands => (Spec => []ControlInv)
<1> SUFFICES ASSUME NoTelecommands PROVE Spec => []ControlInv
  OBVIOUS
<1>1. Init => ControlInv
  BY ControlInvInit
<1>2. ControlInv /\ [Next]_vars => ControlInv'
  BY ControlInvStep
<1> QED
  BY <1>1, <1>2, PTL DEF Spec

(* The counter of acquisitions in progress is exact and never exceeds      *)
(* Channels.in_acquisition, however the events of the channels and the     *)
(* loops of the control thread interleave.                                 *)
THEOREM CountAlwaysExact ==
    Uncrowded /\ NoTelecommands => (Spec => []AcqCountExact)
<1>1. ControlInv => AcqCountExact
  BY DEF ControlInv
<1> QED
  BY <1>1, ControlInvariant, PTL

(* The flow graph's view of every channel differs from the channel's own   *)
(* state only by the events still in the queue: none is lost, doubled or   *)
(* applied to the wrong state.                                             *)
THEOREM ViewAlwaysAgrees ==
    Uncrowded /\ NoTelecommands => (Spec => []FlowgraphViewAgrees)
<1>1. ControlInv => FlowgraphViewAgrees
  BY DEF ControlInv
<1> QED
  BY <1>1, ControlInvariant, PTL

(* The acquisition and tracking blocks of a channel never run in a state   *)
(* of its state machine in which they should not.                          *)
THEOREM BlocksAlwaysAgree ==
    Uncrowded /\ NoTelecommands => (Spec => []ChannelBlocksAgree)
<1>1. ControlInv => ChannelBlocksAgree
  BY DEF ControlInv
<1> QED
  BY <1>1, ControlInvariant, PTL

(* Without a standby no more channels acquire at a time than               *)
(* Channels.in_acquisition allows.                                         *)
THEOREM AcquisitionsAlwaysLimited ==
    Uncrowded /\ NoTelecommands => (Spec => []AcquisitionsLimited)
<1>1. ControlInv => AcquisitionsLimited
  <2> SUFFICES ASSUME ControlInv PROVE AcquisitionsLimited
    OBVIOUS
  <2> DEFINE A == {c \in Channels : state[c] = 1}
  <2>1. A \subseteq InAcquisition
    BY AcquiringSeen DEF InAcquisition
  <2>2. InAcquisition \subseteq Channels /\ A \subseteq Channels
    BY DEF InAcquisition
  <2>3. /\ Cardinality(A) <= Cardinality(InAcquisition)
        /\ Cardinality(A) \in Nat /\ Cardinality(InAcquisition) \in Nat
    BY <2>1, <2>2, ChannelsFinite, FS_Subset
  <2>4. MaxAcq \in Nat /\ Cardinality(InAcquisition) <= MaxAcq
    BY ControlAssumption, ChannelsAssumption DEF ControlInv, AcqCountExact
  <2> HIDE DEF A
  <2>5. Cardinality(A) <= MaxAcq
    BY <2>3, <2>4
  <2> QED
    BY <2>5 DEF AcquisitionsLimited, A
<1> QED
  BY <1>1, ControlInvariant, PTL
=============================================================================
