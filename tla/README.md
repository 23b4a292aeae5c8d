# TLA+ models of zmk-esb-endpoint

zmk-esb-endpoint turns the last BLE profile slot of a ZMK keyboard into a
transmitter of Nordic's Enhanced ShockBurst (ESB) protocol that talks to a USB
dongle. This directory holds TLA+ models of its parts, the TLC configurations
that check them on small instances, and TLAPS proofs of what matters most for
every value of the constants. Paths below are relative to the repository.

## 1. The system: inventory

| Component | State it keeps | Operations | Talks to |
|---|---|---|---|
| Wire protocol (`include/zmk_esb/protocol.h`) | none | packet types, pipes | everything |
| Pairing (`src/esb/pairing.c`) | state IDLE / UNPAIRED / VERIFYING / CONNECTED, peer id, two periodic work items, a record in flash | `pairing_start/stop/unpair`, `pairing_on_rx`, `beacon_work`, `verify_work` | transport (send), settings, hooks of the channel hopper and the shell relay |
| Endpoint (`src/esb/esb_endpoint.c`) | `esb_active`, command queue | profile listener, boot check, control thread, wraps of BLE advertising and HoG | ZMK BLE, transport, pairing |
| Transport (`src/esb/esb_transport.c`) | receive mailbox, rings of outstanding packets, link statistics, channel, quiet windows, saved link-layer state | send, send_blocking, set_channel, event callback, slot start / stop | ESB engine, hopper |
| ESB engine (`vendor/nrf-esb/subsys/esb.c`) | TX FIFO, packet ids, PDU on the air; as receiver per-pipe reply queues and the last packet seen | write, flush, init / disable, radio interrupt | radio |
| Channel quarantine and picker (`src/esb/channel_hop.c`) | expiry per channel | add, is, reset, pick | hopper, dongle |
| Channel-hop endpoint (`src/esb/channel_hop_ep.c`) | link and activity, the agreed next channel and the previous one, burst counter, cooldowns, the phase of a cooperative hop, seven work items | on_connected / disconnected, note_user_tx, on_rx, the TX hooks of the radio ISR, the works | transport, picker |
| HID relay (`src/esb/hid_relay.c`) | reports, modifier counts, deferred reports | key listener, retry work | transport, pairing |
| Input processor (`src/esb/input_processor_esb.c`) | buttons, accumulated motion and its age, queued button edges | input event, retry work | transport |
| Shell relay (`src/shell/shell_relay.c`) | session, command line, output ring, five work items | SHELL_REQ and SHELL_DATA, polls, timers, exec thread, stdout hook and log backend, hooks of pairing | transport, Zephyr shell |
| Benchmark (`src/esb/bench.c`) | counters of one test | burst, report | transport |
| Dongle (`dongle/src/main.c`) | state LISTENING / PAIRING / CONNECTED / VERIFYING, peer | ESB event handler | ESB engine (PRX), USB |

Who runs what: the radio ISR interleaves anywhere. The system workqueue and the
control thread are cooperative; they switch only where one of them blocks, which
is in `k_msgq_get` and the quiesce sleep of ACTIVATE (control thread) and in
`settings_save_one` (handlers). So a handler is one atomic step, or two when it
saves. Two more calls sleep on the workqueue: the rendezvous side trip and the
flush before an IDLE packet. The input thread and the threads that execute shell
commands are preemptible. `pairing_unpair` has two callers: the keymap behavior,
which runs on the system workqueue, and the shell command `esb unpair`, which any
handler and the control thread can cut into between two of its stores.

What is hard here: replies of the dongle travel on the acknowledgement of a
*later* packet, so questions and answers are out of step; the radio loses packets
and acknowledgements separately; a power cut may hit between two steps; the
endpoint's state is read when an event arrives and acted on 50 ms later; ZMK keeps
its own idea of BLE's state; 32-bit time wraps; queues are short and drop silently.

What makes each part correct, in one line:

* pairing: it never goes silent, what it believes and what flash says agree, it
  connects only to the dongle on record, and only while the slot is active;
* keyboard and dongle together: a keyboard that has a dongle on record is known
  to that dongle, no acknowledged report is dropped, and a verifying keyboard
  reconnects;
* endpoint: BLE gets its radio and its advertising back, the slot follows the
  selected profile;
* quarantine and picker: a hold lasts exactly as long as asked, the picked
  channel is the best there is;
* transport: outstanding packets and their bookkeeping stay in step;
* HID relay and input processor: what the host believes is pressed is pressed,
  states are told in order and none twice, and what was deferred is delivered;
* hopper: an active endpoint and a handshake always have something scheduled
  that moves them on, and a dead channel is left;
* shell relay: the line typed is the line executed, a session ends, output that
  was refused is taken up again.

## 2. Modules and how they correspond to the code

| Module | Models | State | Actions |
|---|---|---|---|
| `EsbProtocol` | packet types and pipes | | |
| `EsbPtx` | the transmitting half of the ESB engine and the part of `esb_transport_send` that pairing depends on | `tx_fifo`, `pids`, `pdu` (the buffer on the air) | `WriteOnto`, `TxAcked`, `TxFailed`, `esb_disable` (used by the next module) |
| `Pairing` | `pairing.c`, the receive mailbox, ACTIVATE / DEACTIVATE | the static variables of `pairing.c`, `record` (flash), `rx_buf`, `link_up` (hooks), where the workqueue stands in a handler (`pc`) and what it is about to save (`rec`), where the shell thread stands in `pairing_unpair` (`shell_pc`) | one per work item, per packet type, per save, and the control thread's two calls; one per store of a shell unpair; power cut |
| `Dongle` | `dongle/src/main.c` and the receiving half of the engine | `d_state`, `d_peer`, reply queues, last packet seen | reception per packet type, reset |
| `PairingLink` | `Pairing` and `Dongle` over one radio | both, and `faults` | attempt acknowledged, acknowledgement lost, given up, and every keyboard and dongle step |
| `Endpoint` | `esb_endpoint.c`, slot start / stop, link-layer suspend | command queue, where the thread stands, what ESB holds of the radio, ZMK's view of advertising | listener, boot check, thread (split at its sleep), advertising |
| `ChannelHop` | `channel_hop.c` | uptime, expiry per channel | tick, add, reset; the picker is an operator |
| `Transport` | the transmitting side of `esb_transport.c` over the engine's queue | `tx_fifo`, `pdu`, `rf_channel`; `m_addr_channel`, the motion ring, its in-flight count and refund, the side-trip flag, `quiet`; where the input thread stands | sends of the workqueue, a mouse report in three steps, TX_SUCCESS, TX_FAILED, channel change, side trip (split at its wait), slot start / stop |
| `HidRelay` | `hid_relay.c` | both reports, the modifier counts and flags, the deferred reports, the retry work, `was_active` | press or release of a position, retry work; the endpoint and the quiet window change under it |
| `DeferredReports` | an abstract specification, of no code by itself: what a device promises a host it cannot always reach | `current`, `backlog`, `host` | change, defer, deliver, report |
| `InputProcessor` | `input_processor_esb.c` | buttons, motion (none, fresh, stale), the queue of edges and its count, the retry work, where the handler stands | button and motion events, the handler's steps, retry work, ageing; endpoint, quiet window and back-pressure change under it |
| `ShellRelay` | `shell_relay.c` and the calls into it of pairing and endpoint | `cmd_buf`, `cmd_len`, `out_rb`, `stdout_buf_len`, the scheduled works, the link, a save in progress, the FIFO's fill | one per packet, work item, hook and log or stdout call; the exec thread in three steps (takes the work, copies the line, has executed it) |
| `ChannelHopEp` | `channel_hop_ep.c` | its static variables, `channel`, the scheduled works, what the workqueue sleeps in, a user thread inside `note_user_tx` | one per work item, hook and packet; the ends of the two sleeps; time |

Definitions keep the names of the code. `PROJECT.json` maps each one to its
lines. A handler is one action, except that the ones which save are split where
`settings_save_one` blocks (`pc` says where), and ACTIVATE is split at its
quiesce sleep. A few variables are history: `heard`, `crossed`, `due`, `hurried`,
`hid_dropped`; in `Transport` `sends`, `heard`, `moved`, `arrived`, `drift` and
`stray`; in `HidRelay` `held`, `host_kb`, `host_cons`, `missed`, `unseen` and
`overflowed`; in `InputProcessor` `down`, `host`, `lost`, `untracked`; in
`ShellRelay` `typed`, `line`, `clobbered`, `timed_out`, `astray`; in
`ChannelHopEp` `offer` and `overtaken`. Nothing but the properties and the bounds reads them (`held` and `down` also
tell a press from a release, and `offer` says which ACCEPT can arrive).

In `Pairing` ACTIVATE may find a packet of an earlier session in the mailbox: the
quiesce sleep usually lets `rx_work` handle it, but not while the workqueue waits
in a save. Such a packet counts as heard. A shell unpair is six steps
(`cmd_esb_unpair` to `ShellBeacon`); the cancellations on both sides of its test of
`m_state` are one step with the test. Its save waits for a handler's save that is
under way, as the settings subsystem serves one caller at a time; a handler that
saves meanwhile writes after it. `crossed` is set by the two crossings that make it
act on what is no longer so: a PAIR_REQ obeyed after it has started and before it
has stored UNPAIRED, and the slot left between its test and that store.

`EsbPtx` and `Transport` look at the same code from two sides. Pairing needs
packet ids, pipes and the receive mailbox and sends no motion; the transport
needs the rings, the channels and the input thread. One module with both would
multiply two state spaces that do not influence each other.

`Transport` splits a mouse report where the preemptible input thread has read
what others write: the refund (`MouseBegin`), the in-flight count
(`MouseApply`), the write itself (`MousePush`). The configuration is the default
one: no `HID_NOACK`, no `CRITICAL_MAX_RETRANSMIT`, no fast channel switching.

`HidRelay` and `InputProcessor` solve the same problem, and both are shown to
implement `DeferredReports` (instances `KbReport` and `ConsReport`, and `Edges`):
the host moves to a state that waits, past all that waited longer, or to the
current one; it sees no state twice and none that was overtaken. The handler of
the input processor runs on a preemptible thread: it is cut between the reading
and the writing of `pending_count` and between two entries of the drain loop. The
instance `Edges` holds but for steps in which the retry work runs inside the
handler; `ButtonsCatchUp` has no such exception.

`ChannelHopEp` keeps uptimes as what the code asks of them (does the cooldown run,
how long was the link silent), and takes a pick as any other channel or none:
which one is best is `ChannelHop`'s. The failure window and the link-quality window
of the transport are triggers that may come with any TX event. The burst counter
is a byte and wraps. Rendezvous, cooperative hops and the burst are configured.

Abstractions: a device id is a model value; a packet is its type and the id it
carries; a transmission attempt with its retransmits is a choice among
acknowledged, acknowledgement lost, given up; the pseudo-random choice of a
channel is any candidate; timers fire whenever they are armed.

Operators whose name ends in `_Something` and whose comment begins with "Mutant
of" are wrong variants of the definition that follows them. No specification
uses them. Put in place of the definition they show that a property can fail:
`PROJECT.json` names one for every property.

## 3. Runs

`tlc -workers 2 -config X.cfg M`, with `X` and `M` from `PROJECT.json`.

| Run | Checks | Bounds |
|---|---|---|
| `pairing` | `NeverSilent`, `RecordAgrees`, `ConnectedPeerAnswered`, `InactiveNeverConnected`, `RecordNeverSwaps`: the state machine against a dongle that replies anything, any time, with a shell unpair that anything can cut into | 2 dongles (one known, one foreign), FIFO of 2 (flush at full is reached), 2 packet ids |
| `link` | `ReplyBacklogBounded`, `StoredPeerKnowsUs`, `HidNeverDropped`, `ReconnectUnderLoss` | five scenarios: all faults but dongle resets and the shell; the same without losses; dongle resets with losses, unpairs and reports; a shell unpair with power cuts, switches and reports; losses and switches only (the one `ReconnectUnderLoss` speaks of). 2 packet ids: fewer than the 4 of the radio, so a new packet is taken for a retransmission sooner |
| `endpoint` | `RadioReturned`, `AdvertisingInSync`, `SlotFollowsCalmUser` | queue of 3, so duplicates overflow it; crystal and engine may fail |
| `channel_hop` | `HeldLongEnough`, `FreedOnTime`, `PickIsBest` | 5 channels (distance 2 needs 5 to be satisfiable beside one bad channel), a counter of 8 values, uptime up to 2, holds of 1 and 3 |
| `transport` | `BookkeepingInStep`, `ChannelAsIntended`, `SideTripOver`, `InOrder` | FIFO of 3 (a failed packet with one behind it, and a full queue), ring of 2 (overruns happen), cap 1, int16 cut to 1 (saturation happens), 2 channels, 4 sends |
| `hid_relay` | `ReportIsTruth`, `HostCatchesUp`, `TapsNotSwallowed`, `ReportsAreDeferred` (refinement), `DeferredDelivered` | 6 positions: a modifier, two keys of one usage of which one has an implicit modifier, a key that finds no slot, a consumer usage with a modifier, another page; queues of 2 and 1 (overruns happen) |
| `pointer` | `ButtonsCatchUp`, `PointerIsDeferred` (refinement), `EdgesDelivered` | 2 buttons, a queue of 2 (overruns and preemption at every entry happen) |
| `shell` | `ExecutesLines`, `BackgroundPoll`, `SessionEnds`, `DrainResumes` | a command buffer of 4 (the fourth byte is refused), ring of 3 and FIFO of 2 packets (both refuse), packets with a newline before or after a letter |
| `hop_ep` | `ActiveIsDriven`, `HandshakeDriven`, `DeadLinkLeft` | 3 channels (the one it is on, the one it came from, another), a burst of 2 with a side trip on every tick but the first, a byte of 4 values (the counter wraps) |
| `link_disconnect`, `link_as_built`, `hop_offer` | a violated statement each, section 5 | the two of the link with the real 4 packet ids |

`Scenarios` is a set of sets of faults; a behaviour picks one at the start and
keeps it, so one run covers them all and a property may speak of a scenario.
"Paced" says that without losses an exchange (about a millisecond) is over
before a periodic work item (tens of milliseconds) runs again; with losses no
such assumption is made.

Fairness. `rx_work`, the periodic work items, a save that blocks and the control
thread run when they are due: the system workqueue and the thread are scheduled
by Zephyr and nothing above them loops for ever (weak fairness; strong for
`rx_work`, which has no delay and is in the queue before any periodic item that
could overtake it again). An acknowledgement gets through at some point
(strong fairness of `AttemptAcked`): the engine retransmits and the work items
send again; on a radio that never gets one through nothing can be promised. The
user, power cuts, losses and dongle resets are never fair. The retry work of the
HID relay is weakly fair; `DeferredDelivered` promises delivery only if the
quiet windows stop at some point, since every hop opens a new one. The same
holds of `EdgesDelivered` and the back-pressure; the thread of the pointer's
handler is not starved either (weak fairness of `HandlerStep`). In `ShellRelay`
a save ends, the inactivity timer expires once nobody types, not every poll falls
into a quiet window (strong fairness of the poll), and a packet that is sent again
and again is acknowledged at some point; `SessionEnds` promises an end only once
nobody types.

`DeadLinkLeft` is about a link on which no send succeeds any more, so sends that
fail are fair (strongly: the triggers come again whenever the endpoint sends),
the hop work and its retry are served by the workqueue, `set_channel` is not
refused for ever (`HopMoves`: the packet on the air ends after its retransmits),
cooldowns and the workqueue's two sleeps are bounded by timeouts.

`link` and `link_disconnect` set `PrxStarted`: they are about the dongle its event
handler is written for. `link_as_built` is about the dongle as `main()` starts it.

`RecordAgrees`, `InactiveNeverConnected` and `RecordNeverSwaps` exclude states in which
`crossed` is set, the first only in one direction; dropping an exclusion makes TLC
show the run in section 5. `NeverSilent` excludes nothing.

`BookkeepingInStep` speaks of states with `drift` empty and `ChannelAsIntended`
and `SideTripOver` of states without `stray`. The two record what the code does
not survive (section 5): a report cut into by another context, a ring overrun, an
engine reset; a side trip that timed out on the air or was cut into. A flush
clears `drift`, as it resets the records.

## 4. Proofs

For every value of the constants, with the assumptions the modules name:

* `PairingLinkProofs`, the keyboard. The invariant `PairingInv` is the type
  invariant with parts that none of the properties has on its own: a state that
  needs a peer has one, unless an unpair is under way (`StateHasPeer`); between the
  two halves of a handler the record to be saved is the one in RAM (`SaveMatches`),
  and what flash holds is in step with how far a shell unpair has come
  (`ShellForgets`, `FlashInStep`); what sits in the mailbox has been heard
  (`MailboxHeard`); an inactive slot has neither work nor connection
  (`InactiveIsQuiet`); and the work a state needs is scheduled or about to be
  (`WorkScheduled`). From it: `TypeCorrect`, `KeepsTrying`, `FlashAgrees`,
  `ConnectedToKnown`, `NoLateConnect`, `NoSwap`.
* `PairingLinkProofs`, the dongle. At most two replies wait on a pipe
  (`BacklogIsBounded`): a reply is queued only when a new packet is received, and
  its acknowledgement takes the one before away.
* `PairingLinkProofs`, the link. Lemmas say that every step of the composition is
  a step or a stutter of the keyboard and of the dongle, so what is proved of the
  parts holds in the whole. What only the two guarantee together rests on `OwnTraffic` (everything the dongle
  hears is this keyboard's own, and never a DISCONNECT) and on sets that the
  replies under way stay in (`Mail`, `MailKept`).
  `StoredPeerAcceptsUs`: a dongle that keeps power and does not have this keyboard
  as its peer has left no trace in the keyboard's flash, its RAM, its mailbox or
  the reply queues (`Acquainted`). Its hypothesis `MyId \notin InitPeers` is
  needed: a keyboard that comes with this dongle on record meets a dongle that has
  just booted and knows nobody, which is the dongle reset the property excludes.
  `NoReportDropped`: on a radio without losses the front of the FIFO is what is on
  the air; while the dongle is not ready to forward, no VERIFY_RESP is under way,
  no PAIR_RESP has been received (so the one that comes is not taken for a
  retransmission), every queued report is behind a PAIR_RESP, and there is one if
  the keyboard believes itself connected; while it listens, no PAIR_REQ is under
  way either, so no PAIR_RESP can be queued (`CalmInv`).
* `EndpointProofs`. `SlotInv` relates what ESB holds of the radio to where the
  thread stands; from it `BleGetsRadioBack` and `BleAdvertisesAgain`.
* `ChannelHopProofs`. While the uptime stays within half the range of the counter
  (the hypothesis `MaxUptime <= Half`) wrapped and true time compare alike:
  `QuarantineHolds`, `QuarantineEnds`. `PickBest` holds of any quarantine, band
  and distance.
* `TransportProofs`. `RadioInv` adds to the types what the properties do not say
  by themselves: the queue is sorted and nothing in it is older than the packet
  on the air, which is no older than what was heard (`Sorted`); everything
  queued is meant for the channel the radio is set to, and a side trip holds at
  most its own packet, on the air until its event (`OnChannel`). From it
  `HeardInOrder`, `SentOnChannel`, `SideTripEnds`. `InStep` adds to
  `BookkeepingInStep` what a mouse report under way has read and that a side trip
  finds an empty ring; with the cardinality of the set of records under a push and
  under a consumption (`RecordPushed`, `RecordConsumed`) it gives `RecordsInStep`.
  `TransportTypes` is the type invariant.
* `HidRelayProofs`. `HidInv`: a modifier's count is the number of keys down that
  hold it (`CountsTell`), by the theorems on cardinalities of finite sets. From
  it `NothingStranded`. `QueueInv` bounds what waits; `StepKb` and `StepCons` say
  what any step does to a queue, `Enqueued` that an overrun gives up entries from
  the front only. With both, every step is a step of `DeferredReports`
  (`RelayRefines`), the last report deferred or sent is the current one
  (`HostUpToDate`), and a keystroke within a quiet window stays in the queue until
  it is overrun (`KeystrokesKept`): for every keymap, report size and depth.
* `ChannelHopEpProofs`. The type invariant, in parts (`HopTypeCorrect`), and two
  invariants that each action keeps on their own: `ActiveDriven` (a work is only
  taken off the schedule together with `m_active`, or puts itself back) and
  `HandshakesEnd` (the tag, the offer work and the commit timer hand the
  handshake on to each other).
* `InputProcessorProofs`. `IpInv`: the buttons the driver tracks are the ones down
  but for the untracked (`Tracked`), and at every point of the handler the last
  state told, queued or about to be sent is the tracked one (`ToldLast`), wherever
  the retry work cut in. From it `HostCatchesUpWithButtons`. `EdgesAreDeferred`: the
  backlog is a window of the array, and each step of the handler and of the retry
  work moves the window as `DeferredReports` allows.
* `ShellRelayProofs`. `CmdOK`: the buffer starts with what was typed, leaves room
  for the end mark, and a line that waits is in it with its end mark unless it is
  known to be spoilt. Each byte keeps it (`ByteKeeps`), so a packet does
  (`TakenKeeps`): the induction over the bytes is over a *set* of numbers
  (`SetInduction`, from the well-foundedness of <), since the library's induction
  theorems cannot be instantiated. From it `ExecutesWhatWasTyped`. `PollInv` adds to
  `BackgroundPoll` that the record of a disconnect is saved only without a
  connection: `PollsInBackground`. `ShellTypes` is the type invariant: no buffer
  overflows.

Each inductive invariant was checked with TLC, on the instance of its component's
run, before it was proved.

Only model-checked: what holds under fairness (`ReconnectUnderLoss`, `SlotFollowsCalmUser`, `DeferredDelivered`,
`EdgesDelivered`, `SessionEnds`, `DrainResumes`, `DeadLinkLeft`), which the proof
system does not reach. Its safety half is proved where it is not obvious: the work
that a liveness property waits for is scheduled as long as it is needed
(`SessionIsDriven`, `RetryIsScheduled`, `EdgeRetryIsScheduled`, beside `KeepsTrying`,
`ActiveDriven` and `HandshakesEnd`). Every invariant, action property and refinement of a
passing run is proved.

## 5. What disagrees

* `link_disconnect`: a dongle that lost its peer answers *every* VERIFY_REQ with a
  DISCONNECT, and replies travel one packet late, so a second DISCONNECT is
  queued when the first is obeyed. It arrives with the acknowledgement of the
  new PAIR_RESP and tears the new pairing down, on the keyboard only.
* `link_as_built`: `main()` of the dongle never calls `esb_start_rx()`, and `esb_init`
  leaves the engine idle, so no beacon is received (`BeaconReceived`), although
  `dongle/src/main.c:14` has pipe 0 receive it and `main()` logs that it listens. Two
  devices that never met cannot pair with the dongle of this repository as it is.
* `hop_offer`: the hopper tags the handshake and not the packet, so the next
  acknowledged packet of any kind arms the commit timer, also when the OFFER is
  still queued, was flushed or failed; the endpoint then hops alone.

Stated in the modules and refuted by TLC when added to a configuration, but not
among the runs:

* `SlotFollowsProfile` (`Endpoint`, with nothing failing and the real queue of 5):
  the listener compares with `esb_active`, which ACTIVATE sets after its sleep.
  Leaving the ESB profile during the sleep queues nothing.
* `MotionDeliveredOnce` (`Transport`, with `RingSize = 4`, `Int16Max = 4`,
  `Deltas = {1}`, `HeardAnyway = {FALSE}`, `MaxSends = 3`): a failed report stays
  at the front of the engine's queue and goes out again with the next write, while
  its motion is also refunded into the next report.
* `PointerNotStuck` (`Transport`, same constants): stopping or restarting the slot
  empties the engine's queue and leaves the motion records and the in-flight
  count; back-pressure can hold the pointer with nothing queued.

Seen while modelling, without a run of their own (for the first, drop `crossed` from
the property named):

* `esb unpair` in the shell is cut into. A PAIR_REQ obeyed after it has forgotten
  the peer is saved and then erased by its own save: RAM knows the new dongle and
  flash does not, and the state may be UNPAIRED with a peer in RAM
  (`RecordAgrees`); the new dongle's save may come first or last, so flash may go
  from the old dongle to the new one at once (`RecordNeverSwaps`). If the slot is
  left between the test of `m_state` and the store, an inactive keyboard is
  UNPAIRED, hears what is left in the mailbox and connects
  (`InactiveNeverConnected`);

* the dongle never sends RESYNC and does not persist its peer; it answers a beacon
  only in LISTENING, which it reaches again by DISCONNECT or a reboot, and the
  keyboard never sends DISCONNECT, so a keyboard that unpaired cannot pair again
  before the dongle loses power; `pairing_unpair` does not call the disconnect
  hooks (`BackgroundPoll` and `ActiveIsDriven` say what survives that);
* `now + hold_ms` of the quarantine wraps and is compared unsigned, so a hold
  across the wrap of the uptime counter is lost (hence `MaxUptime <= Half`); an
  expired quarantine that nobody renews is in force again 2^31 ms later;
* the refund and the in-flight count are read, changed and written by the input
  thread without a lock against the radio ISR (`drift` has "cut_in");
* with the shell relay the ring (24) is smaller than the FIFO (32), and records
  of queued packets are overwritten ("overrun");
* a side trip that times out with its packet on the air gets -EBUSY when it
  restores the channel, and a mouse report that passed the check before the trip
  is sent on the rendezvous channel (`stray`);
* a flush under a packet on the air lets the completion of that packet remove
  the payload written after the flush;
* the pointer's lower retransmit count stays in force when the restore finds the
  radio busy, until the next event or a change of the adaptive target;
* hopper: `hop_work` survives a disconnect, and `hop_retry_work` tries again
  without looking, so `protocol.h:195`, the endpoint "only ever hops when it is
  active", does not hold; the fallback flag is consumed before `set_channel`, so a
  fallback refused with -EBUSY is forgotten, contrary to the comments at
  `channel_hop_ep.c:606-609` and `654-658`; a disconnect during a side trip resets
  the burst counter, which the returning tick takes below zero (255 more ticks);
  a user's packet sent while `enter_idle_state` sleeps in its flush is dropped or
  followed by IDLE although the endpoint is active again; an OFFER whose failure
  ends the handshake takes the place of a hop trigger; with the default values
  (burst 2, a side trip every 4) no side trip ever happens; a user thread
  overtaken by a disconnect inside `note_user_tx` leaves the endpoint active
  without a link (`overtaken`), until the next disconnect or until it idles after a
  reconnect: `idle_check_work_fn` returns without a link;
* pointer: motion that is deferred without an edge schedules no retry, although
  the comments (`input_processor_esb.c:101-108`, `128-131`) have the retry worker
  flush it; a retry work that preempts the drain loop replays edges the loop has
  replayed, so the host can see a click twice; a button touched while the
  endpoint is inactive keeps its old state in `d->buttons` (`untracked`);
* shell: the exec thread copies `cmd_buf` after later bytes may have overwritten
  it (`clobbered`), and a newline between its taking the work and the copy submits
  the work again, so one line runs twice; background polling does not resume after a session timed out
  (`timed_out`); SHELL_REQ is obeyed after a disconnect or after the slot was
  left; the hook of a connection can be called after the slot was left (`astray`);
* a key held when the slot is left stays pressed on the ESB host until the next
  report after the slot is entered again (`missed`).

## 6. Not modelled, and why

Left out of steps that are modelled: `esb_transport_send` drops what is sent in a
quiet window or during a side trip; `Transport` and `ChannelHopEp` have that, but for the
pairing packets of `EsbPtx` it is left out (a quiet window follows a hop, which
takes a connection; the workqueue that sends them sleeps through a side trip).
`ring_buf_put` of the shell's output is atomic, although the exec thread and the
log thread are preemptible: what a torn write leaves in the ring is text, which the
model does not have.

Radio registers, timers, PPI and DPPI set-up, the vector table and the clocks
behind the crystal request are hardware programming without protocol state. USB,
logging, shell output and the statistics are output. Motion has one axis and one
sign; retransmits of one attempt are not counted. The adaptive retransmit count
changes how often the radio tries, which no property tells apart; the fail window
and the link-quality window are counters whose crossings are triggers in
`ChannelHopEp`. The benchmark is a diagnostic tool nothing depends on. The dongle's
side of channel hopping is not in this repository: CONFIRM and ACCEPT may come
with any channel, so that both ends meet again cannot be stated. Neither can the
composition of hopper and transport be checked in one run of useful size; the two
meet in the interface each module names (`OfferLost`, `HopRefused`, `blocked` in the
one; `esb_transport_set_channel`, `SideTripEnd`, `stray` in the other).

## 7. Plan

Done, in this order: the pairing core and its composition with the dongle, the
endpoint's control thread, quarantine and picker, the transmitting side of the
transport, the HID relay; then the shell relay, the input processor, the abstract
specification both relays implement, and the channel-hop endpoint.

Next, most important first:

1. Proofs: the safety half of `DeadLinkLeft` and `SlotFollowsCalmUser` (a trigger
   that is suppressed leaves something scheduled; the queue ends on the command
   the profile asks for unless the user was hurried).
2. `LinkMonitor`: the fail window, the weak-link clock and the link-quality
   window with its hysteresis as counters, to replace the nondeterministic
   triggers of `ChannelHopEp`: a dead link triggers within two windows, a
   healthy one never.
3. `InputProcessor` over `Transport`: motion end to end.
