# A formal model of GNSS-SDR-OSNMA

GNSS-SDR is a software receiver for satellite navigation. This repository is a
version of it that also authenticates Galileo: it collects the OSNMA bits of the
I/NAV pages and verifies the root key message (DSM-KROOT) they carry. This
directory holds TLA+ modules of the parts of the receiver whose correctness
depends on order and interleaving, the TLC configurations that check them on
small instances, and TLAPS proofs for instances of every size. Paths below are
relative to the root of the repository; `core/` and `algorithms/` are under `src/`.

* [The system](#the-system)
* [The modules and the code](#the-modules-and-the-code)
* [What the runs check](#what-the-runs-check)
* [Bounds](#bounds)
* [Fairness](#fairness)
* [Proofs](#proofs)
* [Where the code and its words disagree](#where-the-code-and-its-words-disagree)
* [What is not modelled](#what-is-not-modelled)
* [Plan](#plan)

## The system

The receiver is a GNU Radio flow graph with a thread that governs it. Samples
flow from the source through the conditioner to the channels; each channel
acquires the signal of one satellite, tracks it and decodes its telemetry; the
observables of all the channels go to the positioning block. Next to this data
plane there is a control plane, which decides which channel works on which
satellite, the OSNMA chain, which starts in the telemetry decoder, and the
collection of the Galileo High Accuracy Service (HAS) messages.

### Inventory

| Part | Code | State | Operations | Modelled in |
|---|---|---|---|---|
| Channel state machine | `channel_fsm.cc`, `channel_msg_receiver_cc.cc`, `channel.cc` | `state_` (standby, acquisition, tracking, satellite requested) under `mx_`; message port `events` | `Event_start_acquisition`, `Event_stop_channel`, `Event_valid_acquisition`, `Event_failed_acquisition_repeat`, `..._no_repeat`, `Event_failed_tracking_standby` | `ChannelFsm` |
| Acquisition block | `pcps_acquisition.cc/.h` | `d_state`, `d_active`, `d_worker_active`, `d_step_two`, dwell counter, under `d_setlock` | `general_work`, `acquisition_core`, `set_active`, `set_local_code`, the reports of a verdict | `PcpsAcquisition`; seen from outside in `ChannelFsm` |
| Flow graph, acquisition management | `gnss_flowgraph.cc` | `channels_state_`, `acq_channels_count_`, the lists of available signals, the signal of each channel | `assign_channels`, `acquisition_manager`, `search_next_signal`, `push_back_signal`, `remove_signal`, `priorize_satellites`, `apply_action` | `ReceiverControl` |
| Control thread | `control_thread.cc` | `stop_`, `receiver_on_standby_` | `run`, `event_dispatcher`, `apply_action`, `assist_GNSS`, the listeners | `ReceiverControl` |
| Control queue | `concurrent_queue.h` | a FIFO under a mutex | `push`, `timed_wait_and_pop` | `ChannelFsm` (push), `ReceiverControl` (pop) |
| Telecommands | `tcp_cmd_interface.cc` | socket | reset, standby, cold, warm and hot start | as producers of commands in `ReceiverControl` |
| Channel status map | `channel_status_msg_receiver.cc` | last valid report of each channel | `msg_handler_channel_status` | `ReceiverControl` |
| Galileo I/NAV decoder | `galileo_telemetry_decoder_gs.cc`, `galileo_inav_message.cc` | synchronisation state, the even half, the CRC flag, the last page | `general_work`, `decode_INAV_word`, `split_page`, `set_satellite`, `reset` | `InavPages` |
| OSNMA subframes | `osnma_processor.cc`, `osnma_subframe.cc`, `galileo_osnma_worker.cc` | for each satellite, the position in the subframe and the pages so far | `feed_page`, `add_page`, `reset_current_subframe` | `OsnmaSubframes` |
| OSNMA messages | `osnma_processor.cc/.h`, `osnma_dsm_message.h` | for each DSM identifier, header, blocks, number of blocks, processed or not | `process_subframe`, `process_dsm_kroot_block` | `OsnmaDsm` |
| Tracking block | `dll_pll_veml_tracking.cc` | `d_state` (standby, pull-in, wide, extended, narrow), the counters of lock failures, the C/N0 buffer, under `d_setlock` | `general_work`, `start_tracking`, `stop_tracking`, `msg_handler_telemetry_to_trk` | `TrackingLoop`; seen from outside in `ChannelFsm` |
| Telemetry watch | `galileo_telemetry_decoder_gs.cc` | symbols since the last valid preamble, `d_sent_tlm_failed_msg` | `general_work`, `set_satellite`, `reset` | `TrackingLoop` |
| HAS receiver | `galileo_e6_has_msg_receiver.cc` | for each message identifier, the rows received, their times, published or not; the masks | `msg_handler_galileo_e6_has`, `process_HAS_page`, `delete_outdated_data`, `decode_message_type1` | `HasReceiver` |
| Observables, PVT, signal sources, other decoders, key store, monitors, configuration, volk_gnsssdr | | signal processing, formats, I/O | | see [What is not modelled](#what-is-not-modelled) |

### Who talks to whom

```
             commands                     pops, or 100 ms pass
  listeners ---------> control queue -------------------------> control thread
                         ^                                          |
                         | channel events 0, 1, 2                   | acquisition_manager,
                         |                                          | apply_action
     acquisition --verdict--> state machine <--start, stop-- channel <--
     tracking ---loss of lock--^     (mx_)
      |    ^
      |    +--telemetry fault--+
      +--symbols--> telemetry decoder

  telemetry decoders --HAS page--> HAS receiver --message--> PVT

  telemetry decoder --page--> OSNMA worker: feed_page --subframe--> process_subframe
                                                       --block--> process_dsm_kroot_block
```

* A verdict of the acquisition reaches the state machine directly
  (`Event_valid_acquisition`, in the thread of the search) when it is positive and
  the block has a pointer to the machine, and as a message to
  `channel_msg_receiver_cc` otherwise. A loss of lock always is a message.
* The state machine pushes an event on the control queue and goes on. The flow
  graph hears of it when the control thread gets there; by then the channel may
  have moved on. `channels_state_` is thus a delayed copy of the channels' states.
* The control thread starts and stops channels by direct calls, which take `mx_`
  and then the lock of the acquisition block.
* Tracking and telemetry blocks run in threads of their own. Symbols wait in a
  buffer; the complaint of the decoder about a silent satellite and the report
  of a loss are messages, which nothing ties to the satellite they are about.
* The single HAS receiver gets the pages of all the channels through its input
  port, in the order and with the delay of their threads.
* Telemetry decoders publish pages to the single OSNMA worker through its input
  port; the worker has one thread.

### What is hard here

* The handlers of the control thread loop over channels that go on working:
  every step of a channel may come between two iterations.
* The flow graph acts on its delayed copy of the state of a channel.
* Two locks (`mx_`, `d_setlock`) are taken in both orders.
* Signals move between the lists and the channels in many places; on one band
  the signal leaves its list when it is given out, on another when it is tracked.
* Commands, the loss of satellites and changes of satellite come at any time.
* Pages are damaged, lost and repeated, and the only clue to the position of a
  page is the type of its word; blocks of a message come in any order and blocks
  of an older message with the same identifier may be in between.

* A loss of lock is a message, a change of state and an item for the decoder; a
  stop, a restart and a late message of the tracking before may come in between.
* Rows of a HAS message say nothing about the message but an identifier that is
  reused; only their times keep two messages apart.

`PROJECT.json` lists each such hazard with its line and the properties about it.

### What makes each part correct

* *Control plane*: the number of acquisitions is counted right and limited; what
  the flow graph believes is explained by the events in the queue; each block
  does what its state machine says; no satellite is ever lost from, or listed
  twice in, the lists; a search finds a list that is not empty; no channel and no
  satellite starves; a stop command is reached; standby is quiet.
* *Acquisition*: one search at a time, one verdict per search, about the
  satellite the channel is set to, starting from a clean state; every search ends.
* *Tracking*: a channel that believes to be tracking does, or will be told; a
  satellite without valid frames is given up; the search for the bits ends.
* *Page decoder*: an intact page is published, a damaged one never.
* *Subframes*: the two maps agree; what is processed was sent; losses do not
  desynchronise the processor for long.
* *Messages*: what counts as verified is one whole message; no message makes
  the worker fail; what is sent for long enough is verified.
* *HAS*: no mixture of two messages is published, none is published twice, none
  gets stuck, and rows are forgotten only when they are old.

## The modules and the code

| Module | Models | Runs | Proofs |
|---|---|---|---|
| `ChannelFsm` | a channel as the control thread sees it | within `ReceiverControl`; abstract specification of `PcpsAcquisition` | in `ReceiverControl_proofs`, `PcpsAcquisition_proofs` |
| `ReceiverControl` | control thread and flow graph | `liveness`, `dualband`, `telecommand`, `start_not_resumed` | `ReceiverControl_proofs`, `SignalLists_proofs` |
| `PcpsAcquisition` | acquisition block, its threads and locks | `acquisition`, `stop_deadlock` | `PcpsAcquisition_proofs` |
| `TrackingLoop` | tracking block, telemetry watch | `tracking` | `TrackingLoop_proofs` |
| `PageStream` | abstract: what a decoder publishes | within `InavPages` | in `InavPages_proofs` |
| `InavPages` | I/NAV half pages to pages | `inav_pages`, `stale_page` | `InavPages_proofs` |
| `OsnmaSubframes` | pages to subframes | `subframes` | `OsnmaSubframes_proofs` |
| `OsnmaDsm` | subframes to a verified root key | `dsm` | `OsnmaDsm_proofs` |
| `HasReceiver` | C/NAV pages to HAS messages | `has` | `HasReceiver_proofs` |

`ReceiverControl` EXTENDS `ChannelFsm`: together they are the control plane, with
the channels as the environment of the control thread and the other way round.
`PcpsAcquisition` opens the acquisition block and the locks of a single channel,
which `ChannelFsm` treats as a verdict in one step, and `TrackingLoop` the
tracking block, which `ChannelFsm` treats as a loss of lock at any moment.
`InavPages`, `OsnmaSubframes` and `OsnmaDsm` are the three stages of the OSNMA
chain; `PageStream` is the contract between the first two. Each has an `MC`
module with the values of its constants. Definitions keep the names of the code
where they model a function.

Two refinements tie the modules together:

* `ImplementsChannelFsm` (checked and proved): the acquisition block with its detached
  search, the message thread and the control thread, stopped and restarted at any
  moment, is a channel of `ChannelFsm`. The mapping takes the block to be searching while it
  is active, while a search is running and between its two steps; an event
  whose handler holds `mx_` and waits for `d_setlock` counts as not yet received. This is
  what justifies that `ReceiverControl` treats a verdict and an event as atomic.
* `ImplementsPageStream` (checked and proved): whatever is damaged, misread or cut
  short by a change of satellite, a publication of the decoder is the page just sent or
  the last one again. `OsnmaSubframes` takes its pages from such a stream:
  `Delivered`, `Missed` and `Repeated` are `PageDelivered`, `PageLost` and
  `PageRepeated` there.

A definition marked *fault variant* is a plausible mistake in the definition
that follows it: a test left out, a reset forgotten. No specification uses it.
For each property of each passing run `PROJECT.json` names one such variant,
with which the property fails; a property that no mistake could break would say
nothing.

### ChannelFsm

State: `state` is `state_`; `acq` says that the acquisition block is active or that a
search of it is still running, which a stop does not interrupt; `trk`
says that the tracking block is out of standby; `events` is the input port of
`channel_msg_receiver_cc`; `queue` is the control queue. Every `Event_*` method
holds `mx_` throughout and so is atomic. `PositiveAcquisition`,
`NegativeAcquisition` and `LossOfLock` are the reports of the blocks,
`HandleValidAcquisition`, `HandleAcquisitionFailed` and `HandleLossOfLock` the
branches of `msg_handler_channel_events`. `Repeat` are the channels configured to
repeat failed acquisitions, `ByPort` those whose acquisition block was never
given a pointer to the state machine.

### ReceiverControl

State: `channels_state`, `acq_count`, `available`, `assigned` of the flow graph;
`standby`, `stop` of the control thread; `status` is the map of
`channel_status_msg_receiver`. `handler` is the program counter of the loop the
control thread is in: the loops of `acquisition_manager`, of the standby case
of `apply_action` and of `GNSSFlowgraph::stop` do one channel per step, because starting or
stopping one channel takes locks and the others go on meanwhile. The rest of a handler touches
state of the control thread only and is atomic.

Actions: `AcquisitionFailed`, `AcquisitionSucceeded`, `TrackingLost` are
`GNSSFlowgraph::apply_action` for the events 0, 1, 2; `ManagerSkips`,
`ManagerStartsFixed`, `ManagerSearches`, `ManagerReturns` are
`acquisition_manager` with `search_next_signal`; `EventDropped` is the
dispatcher in standby, `Timeout` an empty queue for 100 ms; `StandbyCommand`
with `StandbyStopsChannel`, `StandbySkips`, `StandbyReturns`; the start commands;
`StopCommand`; `StopBegins`, `StopsChannel`, `BlocksStopped`, which together are
`StopFlowgraph`, the loop of `GNSSFlowgraph::stop` and what follows it; `PushCommand`, `QuitKey` are the listeners.
`Init` is the state at the start of the main loop; with `Agnss` the control
thread first runs the standby loop that the start-up assistance asks for.

Abstractions. A signal is the PRN in the list of its band, since each list belongs
to a system and a band. `get_visible_sats` computes orbits; it returns any element of
`VisibleLists`, a list for each band. No satellite is in such a list twice: the loops over the
almanacs (`control_thread.cc:977`) skip those the ephemerides gave. What `std::list::remove`
leaves is `Keep`, the part of a list that is in a set, written in closed form so that it can be
reasoned about; `MCReceiverControl` checks on short lists that it is `SelectSeq`. The order of `d_channel_status_map` is that of its keys, the
channel numbers, which is what `NextSat` uses.

`EnoughSatellites` is the check of `assign_channels`, an assumption of the module: on each band
fewer channels than signals, except on those of GLONASS (`Glonass`), where up to
seven channels more than signals are allowed. `Uncrowded` says that no GLONASS band makes use
of that. When one does, all its signals may be tracked while another channel looks for
one, and `search_next_signal` takes the front of an empty list; TLC shows it with three channels and two
satellites. What follows in C++ is undefined, so the runs and the theorems are about
uncrowded receivers.

### PcpsAcquisition

State: the fields of the block under their own names; `core` says where
`acquisition_core` is (launched, searching, reporting), `setlock` and `mx` who
owns the two locks, `ctl` and `rcv` where the control thread and the message
thread are. Actions: `WorkPasses`, `WorkBuffers`, `WorkLaunchesSearch` are the
cases of `general_work`; `CoreStarts`, `CoreReportsPositive`, `CoreValid`,
`CoreRefines`, `CoreDwellsAgain`, `CoreReportsNegative` the parts of
`acquisition_core` between its lock operations; `Receiver...` and `Control...`
the calls of the other threads, one step up to the second lock and one after it.
Whether the correlation passes the threshold is a choice. All sixteen combinations
of `make_2_steps`, `bit_transition_flag`, `blocking` and `repeat_satellite` are
initial states of the run. `LossOfLock` is the message of the tracking block, `ReceiverReleases`
its handler. `queue` is the control queue, of at most `MaxQueue`
events of this channel, which the control thread pops.

### TrackingLoop

State: `d_state`, `pull_in`, `carrier`, `code`, `filled` and `extended` are fields of
the tracking block; `silent` and `sent` are the watch of the decoder; `symbols` is the
buffer between the two; `faults` and `losses` are the messages under way; `fsm` is
`state_` of the channel, reduced to standby, acquisition and tracking. `speaks` says
whether the satellite sends valid frames. One step of `Work` is one call of
`general_work`, by `d_state`: `WorkStandsBy`, `WorkPullsIn`, `WorkWide`,
`WorkIntegrates`, `WorkNarrow`. `FaultReceived` is
`msg_handler_telemetry_to_trk`, `TelemetryWork` one symbol in the decoder, the others
are the events of the channel.

Abstractions. Correlators and discriminators are a choice: carrier and code are good or
bad at each test. Time is counted in calls, `age` since the acquisition, whose length is
open, so that it starts anywhere. A symbol is one call, as on Galileo E1. The values
200000 and 300000 that force a loss are `Forced`, two above the limit: the code can take
off at most one before it compares. `sent` and `silent` follow the order of the
code: the complaint is made before the preamble of the same symbol is looked at.

### InavPages

One step is a half page. `d_stat` is the synchronisation state, `since` how long
ago the first preamble was, `even_arrived` and `page_Even` the half in memory,
`flag_CRC_test` and `data` what the last `split_page` left, `errors` the CRC
error counter. A half is intact, damaged, or damaged so that its parity bit is
wrong (`MisreadHalf`). The CRC is taken as perfect: two intact halves of one page
pass and nothing else does. The half with which the second preamble is found
(`PreambleConfirmed`) is passed over: the frame to be decoded begins later in the buffer of
symbols. `Stream` is the instance of `PageStream` with the same
`pub`, and the number of the page on the air as its clock. `Reassign` is `set_satellite` and `reset`. `pub` and
`rx` are history: what was published, and the half received last.

### OsnmaSubframes

`next_ind` and `subframe` are the two maps of the processor. The pages a satellite
sends are numbered by subframe and position; the type of a word is chosen from
`GALILEO_E1_INAV_WORD_SEQ`. `PageDelivered`, `PageLost` and `PageRepeated` feed
the processor as a `PageStream` may; the last one exists because of the stale page
that `InavPages` shows, and delivers the last page of a satellite any number of times, perhaps
under the PRN of another satellite; pages before the last one do not come again. `streak`, `mixed` and `processed` are history.

### OsnmaDsm

`dsm` is `dsm_id_dsm_message_map` with its four fields. A block is the pair of its
message and its number, so that a mix of blocks can be told from a message.
`process_dsm_kroot_block` follows the early returns of the code in order: already
processed, not ready, no usable key, a layout longer than the data (`substr`
throws, and the exception ends the thread: `alive`), pad or signature wrong,
verified. The lengths of the fields are computed in bits from the tables of
`osnma_processor.h`. Hash and signature are external and perfect: they accept
exactly header and blocks of one message that was sent. `PublicKeys` stands for
the keys `load_keys` found. `process_subframe` passes on any identifier and any block number
(`osnma_processor.cc:170`) unchecked; the model has subframes whose header and block belong to a message of
the schedule, and what it shows is about those.

### HasReceiver

`held` stands for `d_received_pids` and `d_C_matrix` of each message identifier (MID),
`stamps` for `d_received_timestamps`, `printed` and `printed_at` for the MIDs published and when;
`mask` says that a mask is stored. Times are ages, which stop growing when they are too old to
matter. `Tick` is a second; `MidReused` lets the satellites use a MID for another message
after a silence of `Gap`. A page is skipped (`PageSkipped`), not usable (`PageIgnored`,
`IgnoredPageCompletes`), one of several (`PageCollected`) or the last one
(`MessageComplete`); a page may be late by up to `Jitter`. A page that is not usable
carries any size its five bits can express, and this size is compared with the number of
rows held. What is read from a
decoded message is one of `Contents`. The Reed-Solomon decoder is taken as perfect: it gives
back a message from as many rows as the message has, unless one of them is a padding row. The branch
for a failing decoder (`galileo_e6_has_msg_receiver.cc:360`) is left out, because it cannot be reached: the
decoder is called with exactly as many erasures as there are parity rows, and then accepts
anything. That is also why `MessageIsWhole` matters. It says that what is published comes from
rows of one message; when an ignored page has another size, they need not be all its rows.
`current` marks the rows of the message a MID now stands for, so that a mixture can
be told.

## What the runs check

Sizes are numbers of distinct states.

| Run | Instance | Properties | States |
|---|---|---|---|
| `liveness` | 3 channels (one fixed satellite, one by port), 1 slot, 4 satellites, a stop command | `AcqCountExact`, `AcquisitionsLimited`, `FlowgraphViewAgrees`, `ChannelBlocksAgree`, `FixedSatellitesReserved`, `NoOvertaking`, `NoStarvation`, `StopReached` | 651 000 |
| `dualband` | two E1 channels, tied to a satellite each, and two E5a channels, 2 slots, dual-frequency assistance | `SignalsConserved`, `AssistedOnce` | 3 140 000 |
| `telecommand` | 2 channels, start-up assistance, any two commands | `TypeOK`, `SignalsConserved`, `ListsHaveNoDuplicates`, `SearchFindsSignal`, `NoStartInStandby` | 1 865 000 |
| `acquisition` | all 16 configurations, 3 dwells, 2 stops | `TypeOK`, `SingleSearch`, `FreshStart`, `VerdictIsForTarget`, `AcquisitionEnds`, `ImplementsChannelFsm` | 147 000 |
| `tracking` | extended integration, buffers of 2, stops and restarts at any moment | `TypeOK`, `NoSilentLoss`, `SilentSatelliteDropped`, `WideTrackingEnds` | 87 000 |
| `inav_pages` | 8 pages, 2 satellites, all faults | `TypeOK`, `IntactPagesPublished`, `ImplementsPageStream` | 142 000 |
| `subframes` | 2 subframes from any start, losses of any length, any repetitions | `SubframesGenuine`, `IndexAgrees`, `Resynchronises` | 2 350 000 |
| `dsm` | 3 messages, two with one identifier, overlapping | `TypeOK`, `ProcessedIsWhole`, `NeverThrows`, `EventuallyVerified` | 8 500 |
| `has` | a MID with messages of 2 and 3 pages and one of single pages, late pages | `TypeOK`, `MessageIsWhole`, `NeverStuck`, `PublishedOnce`, `FreshPagesKept` | 364 000 |
| `stop_deadlock`, `start_not_resumed`, `stale_page` | the smallest instance that shows it | one each, violated | |

What they show:

* **liveness.** The delayed copy is right: at any moment the events in the queue
  are exactly the ones that explain the difference between `channels_state_` and
  the state of each channel, never more than two per channel. The counter of
  acquisitions is exact, and the channels that really acquire are limited too. The
  fixed satellite is not offered to others, and a satellite that waits in a list is not
  overtaken. An idle channel of a primary band gets a slot again and again,
  whatever the others do; a channel with `repeat_satellite` would keep its slot for
  ever, so the property is about receivers without one. A stop command is reached
  through the traffic; that the receiver then ends is not claimed, since `stop_channel`
  may block (`stop_deadlock`).
* **dualband.** On a band that needs assistance a satellite leaves its list when
  it is given out, so that two channels never work on it, provided that the
  channels that acquire from the start are on primary bands (`PrimaryFirst`): what
  `assign_channels` gives out stays in the lists, and an assisted channel may
  then be given a satellite that another one is already searching. On a primary
  band a satellite stays in its list until it is tracked, and two channels may
  search it: that is the code's way and no property forbids it.
* **telecommand.** With commands the counter and the copy of the states are no
  longer right (see `start_not_resumed` below), but the lists survive every
  sequence of two commands, front() is never called on an empty list (no GLONASS band is
  crowded here), and no channel starts in standby.
* **acquisition.** However a channel is stopped and started, two searches never
  use the buffers at once. On a channel that is never stopped a
  verdict is about its own satellite, and the next search starts clean.
  The condition `stops = 0` is needed: `set_active(false)` leaves the dwell
  counter, the second step and a running search alone. What the control thread
  sees of all this is a channel of `ChannelFsm`, with and without stops: one
  verdict per search. The run does not check for
  deadlock, because stopping a channel can deadlock; the run `stop_deadlock`
  shows how.
* **tracking.** However late its messages are, a loss is never silent: the channel
  tracks, or a report is on its way. A report may come so late that it stops the
  *next* satellite of the channel; the tracking block then runs on without a channel,
  through the next search, and its symbols are counted against whatever comes next.
  That is why `SilentSatelliteDropped` has a condition: the decoder complains once, and a
  complaint made in the pull-in is forgotten when its end clears the counters.
  If the symbols left over from such an orphan are enough for that complaint, a satellite that
  never sends a valid frame keeps its channel. Otherwise it is always given up. Wide
  tracking ends in any case, because the time limit holds.
* **inav_pages.** A page that arrives whole is published with its own content,
  whatever came before it; what is published is that, or the last page again.
* **subframes.** The position always is the number of pages collected. A subframe
  handed on was sent as such, unless five pages in a row were lost or one was
  repeated; with a limit of five instead of four the property fails, because the
  word types of the positions before and after such a burst can fit. A
  whole subframe after three more good pages always is processed.
* **dsm.** A message that counts as verified is whole and stays so, also when
  blocks of another message with the same identifier come in between or later.
* **has.** As long as a MID rests for the time-out before it is used again, no mixture of two
  messages is published, and nothing twice within the time-out. `FreshPagesKept` has a condition:
  decoding clears the rows of a MID and not their times, so that later rows are judged
  by the times of earlier ones; the property is about MIDs whose times are those of their
  rows. Without it fresh rows are deleted, and the message is received later than it might be.

## Bounds

* Three channels are the fewest in which the rotation of `acquisition_manager`,
  a busy channel and an idle one differ; one slot fewer than channels makes them
  compete. `dualband` needs a fourth one, so that two channels of the assisted
  band can search at the same time. Every band has more satellites than
  channels, as `assign_channels` requires of all but those of GLONASS.
  A channel never has more than two events in the queue (checked, and proved),
  so the queue needs no bound in `ReceiverControl`.
* `MaxCommands` = 2: a standby and a start, or two of the same, at any moment.
* `MaxDwells` = 3 distinguishes the first, a middle and the last dwell;
  `MaxStops` = 2 a stop after a restart; `MaxQueue` = 2 events of one channel.
* `tracking`: `Extend` = 3 gives an extended integration of two calls, `MaxFail` = 2 a
  counter that can go up and down before the limit, `PullIn` = 1 and `SyncLimit` = 5 a time in
  which every order of pull-in, full buffer and synchronisation happens. `MaxSilent` = 3
  and `MaxSymbols` = 2 let a complaint come before, in and after the pull-in.
  `MaxMessages` = 2 bounds the messages still under way when a channel starts again.
* `has`: `Window` = 1, `Jitter` = 1 and `Gap` = 2 are the smallest values for which a row can be
  within the window, just outside and late. Page 3 is a padding row in a message of two pages and
  a row of one of three; page 4 is a parity row. A second MID with one page shows what the
  pages of one MID do to another.
* `MaxPages` = 8, sixteen halves, with `CRC_ERROR_LIMIT` = 6 is enough to gain synchronisation
  (two halves), to lose it by errors (seven halves), to gain it again and to publish.
* `MaxSubframes` = 2 with every starting position and `MaxBurst` = 15, a whole
  subframe: every pair of positions before and after a burst occurs. There is one satellite,
  because two make the run too large. Satellites share nothing in the processor, but for a page
  that is repeated under another PRN; that case is in the model and in the proofs, which are for
  any set of satellites, and not in the run.
* The schedule of `dsm` has a message that must be ignored and two of the
  shortest length with the same identifier; each block in any order makes
  2^7 sets of blocks of each, mixed. `Resynchronises` and `SubframesGenuine` are
  about one satellite.

No symmetry is used: the channels are numbered and the order matters, and the
lists of satellites are ordered from the start.

## Fairness

* `ReceiverControl`: weak fairness of the control thread as a whole (its loop
  waits at most 100 ms for an event), of the verdict of each active search (an
  acquisition ends after `max_dwells`, which `AcquisitionEnds` shows of the
  block itself) and of the message thread of each channel. The steps of `GNSSFlowgraph::stop`
  are not among those the control thread has to take: `stop_channel` may wait for ever. A tracked signal need
  not be lost, and nobody needs to send a command.
* `PcpsAcquisition`: weak fairness of each thread; samples keep coming. Nobody
  needs to stop or resume the channel. The outcome of a search is never assumed.
* `TrackingLoop`: weak fairness of `Work`, `TelemetryWork`, `FaultReceived` and
  `LossReceived`: samples keep coming and GNU Radio schedules each block's thread. Nothing
  obliges a channel to start, to stop or to find a satellite, and the quality of the signal
  is never assumed.
* `OsnmaDsm`: satellites repeat the blocks of a message for as long as they send
  it, so each block is received again and again; an overlap of two messages ends.
  The property only speaks of a message that is not replaced before.

## Proofs

TLAPS checks these for every value of the constants allowed by the named
assumptions of the modules.

| Module | Theorem | Says | Needs |
|---|---|---|---|
| `ReceiverControl_proofs` | `CountAlwaysExact` | `AcqCountExact` | `Uncrowded`, `NoTelecommands` |
| | `ViewAlwaysAgrees` | `FlowgraphViewAgrees` | `Uncrowded`, `NoTelecommands` |
| | `BlocksAlwaysAgree` | `ChannelBlocksAgree` | `Uncrowded`, `NoTelecommands` |
| | `AcquisitionsAlwaysLimited` | `AcquisitionsLimited` | `Uncrowded`, `NoTelecommands` |
| `SignalLists_proofs` | `ControlTypesKept` | `TypeOK` | `Uncrowded` |
| | `SignalsAlwaysConserved` | `SignalsConserved` | `Uncrowded` |
| | `NeverListedTwice` | `ListsHaveNoDuplicates` | `Uncrowded` |
| | `SearchAlwaysFinds` | `SearchFindsSignal` | `Uncrowded` |
| | `StandbyStartsNothing` | `NoStartInStandby` | `Uncrowded` |
| | `FixedAlwaysReserved` | `FixedSatellitesReserved` | `Uncrowded`, `NoTelecommands` |
| | `AssistedAlwaysOnce` | `AssistedOnce` | `Uncrowded`, `NoTelecommands`, `AssistDual`, `TiedOnce` |
| | `NeverOvertaken` | `NoOvertaking` | `Uncrowded`, `NoTelecommands` |
| `PcpsAcquisition_proofs` | `AcquisitionTypes` | `TypeOK` | |
| | `OneSearchAtATime` | `SingleSearch` | |
| | `StartsFresh` | `FreshStart` | |
| | `VerdictForTarget` | `VerdictIsForTarget` | |
| | `AcquisitionIsAChannel` | `PcpsAcquisition` implements `ChannelFsm` (`ImplementsChannelFsm`) | |
| `TrackingLoop_proofs` | `LossNeverSilent` | `NoSilentLoss` | |
| | `TrackingTypes` | `TypeOK` | |
| `InavPages_proofs` | `DecoderTypes` | `TypeOK` | |
| | `WholePagesPublished` | `IntactPagesPublished` | |
| | `DecoderImplementsStream` | `InavPages` implements `PageStream` (`ImplementsPageStream`) | |
| `OsnmaSubframes_proofs` | `IndexAlwaysAgrees` | `IndexAgrees` | |
| | `SubframesAlwaysGenuine` | `SubframesGenuine` | |
| | `AlwaysResynchronises` | `Resynchronises` | |
| `OsnmaDsm_proofs` | `TypeCorrect` | `TypeOK` | |
| | `ProcessedAlwaysWhole` | `ProcessedIsWhole` | |
| | `WorkerNeverThrows` | `NeverThrows` | `WellFormedSchedule` |
| `HasReceiver_proofs` | `HasTypes` | `TypeOK` | |
| | `HasMessageIsWhole` | `MessageIsWhole` | |
| | `HasNeverStuck` | `NeverStuck` | |
| | `HasPublishedOnce` | `PublishedOnce` | |
| | `HasFreshPagesKept` | `FreshPagesKept` | |

*Control plane.* `NoTelecommands` says that only stop and restart commands come
and that there is no start-up assistance; with standby the theorems are false. `Uncrowded`
is not used in these four proofs; it is stated because in a crowded receiver the code may take
the front of an empty list, after which it promises nothing. None
of the four is inductive alone. That the counter is exact needs that an event 0
or 1 in the queue comes from a channel the flow graph has marked as acquiring;
that is `FlowgraphViewAgrees`. It is not inductive without knowing that a verdict
on its way means a block that has stopped searching, `ChannelBlocksAgree`. The
invariant `ControlInv` is the conjunction of the three with the types and two facts
about the shutdown. Its proof has one lemma per action; those that push or
pop events rest on five lemmas about the queue (`PushOther`, `PushFirst`,
`PushSecond`, `PopOther`, `PopOwn`): what pushing or popping an event does
to the events of its own channel and of another one. The limit on real acquisitions
follows: each channel in acquisition is marked as such or its event is on the way.

*Lists of signals.* The first five theorems of `SignalLists_proofs` hold whatever telecommands
come, so they cannot use `ControlInv`, which a standby breaks. Their invariant `SignalInv` is
the types, that no list repeats a signal, `SignalsConserved`, that a tied channel keeps its
satellite, and that a push that is pending belongs to the acquisition manager, which does not
run in standby. Below it are lemmas about the operations on lists: what `Keep`, `remove_signal`,
`push_back_signal`, `rotate` and `priorize_satellites` do to the set of signals, to their number
and to repetitions. They rest on the ranks of a set of positions (`RankIncreases`, `AtProperties`):
the k-th smallest position exists and is the only one, which replaces an induction over the
list. That a search never meets an empty list follows by counting: were the list empty, every
satellite of the band would be held by one of its channels, other than the one that searches, or
be the one pending; there are more satellites than that, by `EnoughSatellites` (the check of
`assign_channels`) on every band but those of GLONASS, and by the hypothesis `Uncrowded` on these.

The last three are about a receiver without telecommands. `ListStep` reduces the steps
of the receiver to eight kinds as far as lists, assignments and states are
concerned, and each proof goes through these eight. `ReservedInv` says that no list, no
untied channel and no pending push has a tied satellite. `AssistedAt` says of a band that needs
assistance that the satellites of its busy channels are out of its list and different, and none
of them pending; the hypothesis `TiedOnce` is that the configuration does not itself tie one
satellite to two channels of the band. For `NoOvertaking` lemmas say which way each
operation moves the position of a signal.

*Acquisition.* `LockInv` says who owns `d_setlock` and `mx_` at each point of
`acquisition_core`, the message thread and the control thread, when `d_worker_active` is
set, and who may be waiting. `SingleSearch` follows from it, with any stops. `Undisturbed` adds
what holds on a channel that was never stopped: in each state of the channel, whether the
block is quiet, what is in the message port, and that what is searched is the target; it is
false after a stop, and the invariant is `LockInv /\ (stops = 0 => Undisturbed)`. The refinement
of `ChannelFsm` has one fact per action: those between two lock operations are stutters, and the
step that takes the second lock or pushes the event is the abstract one.

*Subframes.* `IndexInv` adds the types of the pages on the air and of the last
one delivered; `FeedKeepsIndex` is the lemma about `feed_page`. Everything else rests on
`OwnWords`: two positions share a word type only if both are among the seven *vague* ones, 5 to 9,
13 and 14. For `Resynchronises` the invariant follows the last three positions: the words of
position 12 put the index right or clear it, and the next two keep it so. `SubframesGenuine` is not
inductive, because between positions 5 and 9, and at 13, `feed_page` does accept a later
page for the one it waits for. The invariant (`OnTrack`) says that the pages collected are the
first ones of a subframe, or that the collection is `Astray`, its last page ahead of its
position. With at most four pages lost in a row it stays ahead until position 10 or the end of the
subframe, whose words reject it; `Ahead` is the arithmetic that needs the four.

*Messages.* `DsmInv` says that each entry is a block with its own number and
that block 0 is there once the number of blocks is known. The interesting step:
when the message is ready, the number of its entries is right, but entries
could be the wrong ones. By the pigeonhole principle (`FullOrGap`) they are
exactly the blocks wanted, or there is a gap, and then the join creates an empty
entry that no signature accepts. For `WorkerNeverThrows` the invariant
`GenuineInv` adds that the number of blocks is the one that every message of this
identifier has. `PaddingFits` shows that the layout computed by the code never
has a negative padding, nor one of a block or more.

*Page decoder.* The refinement has one non-temporal fact for `Init` and one per
action: a step of the decoder is `Delivered`, `Repeated`, `Missed` or a stutter. The
interesting case is the odd half without an even one, which publishes what `split_page` left:
that this is a repetition needs `LastPublished`, that a CRC flag left set belongs to
data that has been published. `StreamInv` adds the few types this rests on. That a whole page is
published needs `EvenRemembered`: an even half just received intact is the one in memory, under the
satellite the channel still has.

*Tracking.* `NoSilentLoss` and the types are one invariant, `LossInv`, with one
lemma per action. The counter of the extended integration is compared for equality, so it
must be shown to stay below its end in every state, also while the block stands
by, because a stop leaves it as it is (`Integration`). That the code counter stays within its
limit needs that a loss clears it.

*HAS.* The invariant is about each MID on its own (`MidInv`): its rows are different, each has a
time, the rows of the message being sent are fewer than its size, and rows of an
earlier message are all of that one message and out of date. The last part is where the rest of a MID
for `Gap` seconds is used: when the MID is reused, the first time of its rows is already too old, and the next
page clears them before it is counted. `TimesOfPages` ties the times to the
rows as long as they are equally many, which is the condition of `FreshPagesKept`. The assumption
that a MID has a longest message is that of the format: at most as many pages as there
are rows before the parity.

Every invariant and action property that a passing run checks is proved. Only model-checked are the
liveness properties (`NoStarvation`, `StopReached`, `AcquisitionEnds`,
`SilentSatelliteDropped`, `WideTrackingEnds`, `EventuallyVerified`), because fairness and
ENABLED are beyond this prover, and the three violations, which are counterexamples of an
instance. The condition `NoTelecommands` is needed: the standby handler gives back tied satellites
and lets the counter and the copy of the states go wrong, and a start reorders the lists.

## Where the code and its words disagree

Three runs check what a comment or message of the code says and find it violated.

* `stop_deadlock`. `GNSSFlowgraph::stop` calls `stop_channel`, "stop the
  acquisition or tracking operation". The state machine holds `mx_` and wants
  `d_setlock`; a search that has just succeeded holds `d_setlock` and wants `mx_`.
  Neither gives way, and the receiver does not stop.
* `start_not_resumed`. A channel pushes its event, is stopped by the standby
  handler, and a start command comes before the event is popped. The event then
  marks the channel as tracking although its state machine is in standby, and
  no event will ever free it; the start is to "start again the satellite
  acquisitions".
* `stale_page`. After a loss or change of satellite a first half that is odd makes
  the decoder publish the page it had before as a "New Galileo OSNMA message",
  under the PRN of the satellite it has now.

Also met while modelling, and visible in the modules: a warm start computes the list of
visible satellites and drops it (`control_thread.cc:964`), so that "reorder the satellite queue
to acquire first those visible satellites" reorders nothing (`WarmStart`); a
late report of a loss leaves the tracking block without a channel (`LossReceived`), and the only
complaint about a silent satellite may be forgotten (`PullInEnds`); decoding a HAS message leaves
the times of its rows (`MessageDecoded`), a page that is to be ignored is
compared with the size nevertheless (`IgnoredPageCompletes`), so that one of another size may have too
few rows, or old ones, decoded, and a published MID becomes free again only
when a page of another MID comes after the time-out (`PageSkipped`); the second step of a
two-step search re-activates a block that was stopped in between
(`WorkPasses`); the standby handler gives back satellites that are fixed by
configuration (`StandbyStopsChannel`), for which reason `FixedSatellitesReserved`
is stated of a receiver without standby; the what = 12 that the start-up
assistance sends to the flow graph has no case there (`StandbyReturns`);
a GLONASS band with as many channels as signals may find its list empty (`Uncrowded`);
an identifier reused for a message with another number of blocks may make `substr`
throw (the condition of `WorkerNeverThrows`); the key directory is read from
`Galileo.keys_dir` while `README.md` documents `Galileo.osnma_keys_dir`.

## What is not modelled

* Correlators, discriminators and filters of the tracking block and its Kalman and FPGA
  variants; observables, PVT, signal sources, conditioning and the kernels of
  volk_gnsssdr: floating-point signal processing. What the control plane sees of
  them (a loss of lock, a report) is in `ChannelFsm` and `ReceiverControl`.
* The other telemetry decoders (GPS, GLONASS, BeiDou, F/NAV, C/NAV), Reed-Solomon
  in I/NAV and in HAS, and the decoding of navigation data and HAS fields.
* The key store of OSNMA reads files through pugixml and gnutls; `OsnmaDsm` takes its result
  as the constant `PublicKeys`. A key file with an unknown algorithm leaves `sign_algorithm`
  uninitialised there (`osnma_processor.cc:114`); the proof of `WorkerNeverThrows`
  is for keys with a known one.
* Reading assistance data and configurations; the TCP server; monitors; the FIFO of the
  IP packet signal source.
* The MACK section of OSNMA and DSM-PKR messages: the code does not process them.
* The FPGA variants of the acquisition and of the channel.

## Plan

The control plane came first, as everything else depends on it; then the
acquisition block, where the locks are; then the OSNMA chain from the page to the
verified key; then the tracking block, the HAS receiver, the two refinements and
the proofs of all the safety properties. Next, in this order:

1. **What the conditions cost.** Which part of the control plane's invariant
   survives a standby, stated and proved without `NoTelecommands`: how far the counter and the
   copy of the states can drift from the channels.
2. **Composition.** The pages of `OsnmaSubframes` as those of one `InavPages` decoder per
   channel, instead of the contract `PageStream` between them.
3. **Other decoders.** The GPS decoder has the same preamble, synchronisation and parity
   supervision as I/NAV, and the F/NAV and C/NAV branches of the Galileo decoder a simpler one.
