------------------------------ MODULE Transport ------------------------------
(***************************************************************************)
(* The transmitting side of src/esb/esb_transport.c in its default         *)
(* configuration: esb_transport_send, the ring of motion records that is    *)
(* meant to stay in step with the engine's TX FIFO, the refund of motion    *)
(* that failed, back-pressure, channel changes, the blocking side trip to   *)
(* the rendezvous channel, and slot start / stop.                          *)
(*                                                                         *)
(* Three contexts run here.  The radio ISR (TxAcked, TxFailed) interleaves  *)
(* anywhere.  The system workqueue and the control thread are cooperative:  *)
(* their calls are one step.  The input thread is preemptible, so a mouse   *)
(* report is sent in three steps, cut where it has read a variable that the *)
(* other contexts write and has yet to write it back.                      *)
(*                                                                         *)
(* Motion is one axis with deltas of one sign.  How often a packet is       *)
(* retransmitted, and so the retransmit count, is not visible here.         *)
(***************************************************************************)
EXTENDS Integers, Sequences, FiniteSets

CONSTANTS
    FifoDepth,      \* CONFIG_ESB_TX_FIFO_SIZE
    RingSize,       \* ..._POINTER_MOTION_RING_SIZE
    Cap,            \* ..._POINTER_INFLIGHT_CAP
    Int16Max,       \* where sat16 saturates
    Deltas,         \* motion of one mouse report; 0 is a buttons-only report
    Channels,
    Rendezvous,     \* m_addr.boot_channel
    HeardAnyway,    \* whether the dongle may have heard a packet that failed
    MaxSends,       \* bound on the number of sends
    NoPdu,          \* nothing is on the air: esb_state = ESB_STATE_IDLE
    NoSend          \* the input thread is not inside esb_transport_send

ASSUME FifoDepthAssumption == FifoDepth \in Nat \ {0}
ASSUME RingSizeAssumption == RingSize \in Nat \ {0}
ASSUME CapAssumption == Cap \in Nat \ {0}
ASSUME Int16MaxAssumption == Int16Max \in Nat \ {0}
ASSUME DeltasAssumption == Deltas \subseteq 0..Int16Max
ASSUME RendezvousAssumption == Rendezvous \in Channels
ASSUME HeardAnywayAssumption == HeardAnyway \subseteq BOOLEAN
ASSUME MaxSendsAssumption == MaxSends \in Nat

Kinds == {"user", "shell", "mouse", "sync"}

Packets == [id : 1..(MaxSends + 1), kind : Kinds, motion : 0..Int16Max, chan : Channels]

ASSUME NoPduAssumption == NoPdu \notin [pkt : Packets, chan : Channels]

VARIABLES
    active,         \* the slot is started: esb_initialized and m_addr.configured
    tx_fifo,        \* the engine's queue, front first
    pdu,            \* the packet on the air and the channel it was started on
    rf_channel,     \* the channel the next transaction starts on
    m_addr_channel, \* m_addr.channel, the channel in use
    m_recent_motion,            \* motion records between tail and head
    m_pointer_inflight_count,
    m_motion_refund,
    m_sync_tx_in_progress,
    quiet,          \* m_tx_quiet_until_ms lies ahead
    trip,           \* the workqueue waits in esb_transport_send_blocking
    mouse,          \* where the input thread stands in esb_transport_send
    sends,          \* history: packets written or refused, numbering them
    heard,          \* history: number of the packet the dongle heard last
    moved,          \* history: motion handed to esb_transport_send
    arrived,        \* history: motion the dongle has heard
    drift,          \* history: what has disturbed the records since a flush
    stray           \* history: a side trip was cut short or cut into

radioVars == <<tx_fifo, pdu, rf_channel>>
ringVars == <<m_recent_motion, m_pointer_inflight_count, m_motion_refund>>
ledgerVars == <<heard, moved, arrived>>
transportVars == <<active, radioVars, m_addr_channel, ringVars, m_sync_tx_in_progress,
                   quiet, trip, mouse, sends, ledgerVars, drift, stray>>

----------------------------------------------------------------------------
(* The engine.                                                              *)

esb_tx_full == Len(tx_fifo) >= FifoDepth

\* start_tx_transaction: the packet is copied, the frequency set.
OnAir(pkt) == [pkt |-> pkt, chan |-> rf_channel']

\* esb_write_payload onto the queue `fifo' of a packet meant for channel
\* `chan'; an idle radio starts with the front of the queue.
Writable(fifo) == active /\ Len(fifo) < FifoDepth

esb_write_payload(fifo, kind, motion, chan) ==
    LET pkt == [id |-> sends', kind |-> kind, motion |-> motion, chan |-> chan]
    IN  /\ sends' = sends + 1
        /\ tx_fifo' = IF Writable(fifo) THEN Append(fifo, pkt) ELSE fifo
        /\ pdu' = IF Writable(fifo) /\ pdu = NoPdu THEN OnAir(Head(tx_fifo')) ELSE pdu

\* esb_set_rf_channel: -EBUSY while a transaction runs.
esb_set_rf_channel(ch) == rf_channel' = IF pdu = NoPdu THEN ch ELSE rf_channel

\* The dongle drops a packet it has just heard.
Arrive(pkt) ==
    /\ heard' = pkt.id
    /\ arrived' = IF heard = pkt.id THEN arrived ELSE arrived + pkt.motion
    /\ UNCHANGED moved

----------------------------------------------------------------------------
(* The motion ring.                                                         *)

\* Mutant of sat16: the sum is not kept to 16 bits.
sat16_Wide(v) == v

sat16(v) == IF v > Int16Max THEN Int16Max ELSE v

\* motion_ring_push: with more than RingSize records outstanding the slot of
\* an older one is overwritten.
motion_ring_push(ring, motion) ==
    LET alias == Len(ring) + 1 - RingSize
    IN  Append(IF alias > 0 THEN [ring EXCEPT ![alias] = motion] ELSE ring, motion)

Overrun(ring) == IF Len(ring) >= RingSize THEN {"overrun"} ELSE {}
Refused(fifo) == IF Writable(fifo) THEN {} ELSE {"slot"}
CutIn == IF mouse = NoSend THEN {} ELSE {"cut_in"}

\* The oldest record is taken for that of the packet the event is about.
motion_ring_consume(failed) ==
    IF m_recent_motion = <<>> THEN UNCHANGED ringVars
    ELSE /\ m_recent_motion' = Tail(m_recent_motion)
         /\ m_pointer_inflight_count' =
                IF Head(m_recent_motion) # 0 /\ m_pointer_inflight_count > 0
                THEN m_pointer_inflight_count - 1 ELSE m_pointer_inflight_count
         /\ m_motion_refund' = m_motion_refund + (IF failed THEN Head(m_recent_motion) ELSE 0)

\* The records of esb_flush_tx_and_reset; the refund survives it.
ring_reset ==
    /\ m_recent_motion' = <<>>
    /\ m_pointer_inflight_count' = 0

esb_transport_pointer_backpressure == m_pointer_inflight_count >= Cap

----------------------------------------------------------------------------
(* esb_transport_send.                                                      *)

\* The workqueue sends while it does not wait in a side trip; a packet of a
\* quiet window is dropped.  Shell traffic never flushes a full queue.
Send(kind, fifo, ring, inflight, since) ==
    /\ sends < MaxSends
    /\ trip = "no" /\ ~m_sync_tx_in_progress /\ ~quiet
    /\ UNCHANGED rf_channel
    /\ esb_write_payload(fifo, kind, 0, m_addr_channel)
    /\ m_recent_motion' = motion_ring_push(ring, 0)
    /\ m_pointer_inflight_count' = inflight
    /\ drift' = since \cup CutIn \cup Overrun(ring) \cup Refused(fifo)
    /\ mouse' = IF mouse = NoSend THEN NoSend ELSE [mouse EXCEPT !.overwritten = TRUE]
    /\ UNCHANGED <<active, m_addr_channel, m_motion_refund, m_sync_tx_in_progress,
                   quiet, trip, ledgerVars, stray>>

SendQueued(kind) ==
    /\ ~esb_tx_full
    /\ kind = "shell" => active
    /\ Send(kind, tx_fifo, m_recent_motion, m_pointer_inflight_count, drift)

\* Mutant of SendFlushing: the bare esb_flush_tx, which leaves the records.
SendFlushing_Bare(idle) ==
    /\ idle \/ esb_tx_full
    /\ Send("user", <<>>, m_recent_motion, m_pointer_inflight_count, {})

\* A send that finds the queue full, and send_idle_packet, which flushes
\* before it sends.
SendFlushing(idle) ==
    /\ idle \/ esb_tx_full
    /\ Send("user", <<>>, <<>>, 0, {})

\* The workqueue wakes before the input thread goes on.
InputThreadRuns == trip = "no" \/ m_sync_tx_in_progress

\* A mouse report, up to motion_refund_apply having read the refund.  Where
\* the refund is stale it is dropped.
MouseBegin(delta) ==
    /\ mouse = NoSend /\ active /\ sends < MaxSends
    /\ trip = "no" /\ ~m_sync_tx_in_progress /\ ~quiet
    /\ IF esb_tx_full THEN ring_reset /\ tx_fifo' = <<>> /\ drift' = {}
       ELSE UNCHANGED <<m_recent_motion, m_pointer_inflight_count, tx_fifo, drift>>
    /\ \E stale \in IF m_motion_refund = 0 THEN {FALSE} ELSE BOOLEAN :
        /\ m_motion_refund' = IF stale THEN 0 ELSE m_motion_refund
        /\ mouse' = [at |-> "apply", motion |-> delta + m_motion_refund',
                     refunds |-> m_motion_refund' # 0, count |-> 0, overwritten |-> FALSE]
    /\ moved' = moved + delta
    /\ UNCHANGED <<active, pdu, rf_channel, m_addr_channel, m_sync_tx_in_progress,
                   quiet, trip, sends, heard, arrived, stray>>

\* motion_refund_apply writes the residual back; motion_ring_push fills its slot
\* and reads the count.
MouseApply ==
    /\ InputThreadRuns
    /\ mouse # NoSend /\ mouse.at = "apply"
    /\ m_motion_refund' = IF mouse.refunds THEN mouse.motion - sat16(mouse.motion)
                          ELSE m_motion_refund
    /\ mouse' = [mouse EXCEPT !.at = "push", !.motion = sat16(mouse.motion),
                              !.count = m_pointer_inflight_count,
                              !.overwritten = FALSE]
    /\ UNCHANGED <<active, radioVars, m_addr_channel, m_recent_motion,
                   m_pointer_inflight_count, m_sync_tx_in_progress, quiet, trip,
                   sends, ledgerVars, drift, stray>>

\* The count is written, the head advanced over the slot (whatever is in it if
\* another send used it meanwhile), the packet written.
MousePush ==
    /\ InputThreadRuns
    /\ mouse # NoSend /\ mouse.at = "push"
    /\ m_pointer_inflight_count' =
            IF mouse.motion # 0 THEN mouse.count + 1 ELSE m_pointer_inflight_count
    /\ \E record \in IF mouse.overwritten THEN 0..Int16Max ELSE {mouse.motion} :
            m_recent_motion' = motion_ring_push(m_recent_motion, record)
    /\ UNCHANGED rf_channel
    /\ esb_write_payload(tx_fifo, "mouse", mouse.motion, m_addr_channel)
    /\ drift' = drift \cup Overrun(m_recent_motion) \cup Refused(tx_fifo)
    /\ stray' = (stray \/ trip # "no")
    /\ mouse' = NoSend
    /\ UNCHANGED <<active, m_addr_channel, m_motion_refund, m_sync_tx_in_progress,
                   quiet, trip, ledgerVars>>

----------------------------------------------------------------------------
(* zmk_esb_transport_evt_cb, in the ISR, after the engine's own bookkeeping. *)

\* ESB_EVENT_TX_SUCCESS: the engine has removed the front of its queue and
\* started the next packet before the handler runs.
TxAcked ==
    /\ pdu # NoPdu
    /\ Arrive(pdu.pkt)
    /\ UNCHANGED rf_channel
    /\ tx_fifo' = IF tx_fifo = <<>> THEN <<>> ELSE Tail(tx_fifo)
    /\ pdu' = IF tx_fifo' = <<>> THEN NoPdu ELSE OnAir(Head(tx_fifo'))
    /\ m_sync_tx_in_progress' = FALSE
    /\ IF m_sync_tx_in_progress THEN UNCHANGED ringVars ELSE motion_ring_consume(FALSE)
    /\ drift' = drift \cup CutIn
    /\ UNCHANGED <<active, m_addr_channel, quiet, trip, mouse, sends, stray>>

\* Mutant of LeftInFifo: a failed packet goes to the back of the queue.
LeftInFifo_Requeued ==
    IF Len(tx_fifo) > 1 THEN Append(Tail(tx_fifo), Head(tx_fifo)) ELSE tx_fifo

\* The engine leaves the failed packet at the front of its queue.
LeftInFifo == tx_fifo

\* ESB_EVENT_TX_FAILED; the dongle may have heard the packet all the same.
TxFailed(got) ==
    /\ pdu # NoPdu
    /\ IF got THEN Arrive(pdu.pkt) ELSE UNCHANGED ledgerVars
    /\ pdu' = NoPdu
    /\ m_sync_tx_in_progress' = FALSE
    /\ IF m_sync_tx_in_progress THEN ring_reset /\ UNCHANGED m_motion_refund
       ELSE IF esb_tx_full
       THEN /\ ring_reset
            /\ m_motion_refund' = m_motion_refund
                    + (IF m_recent_motion = <<>> THEN 0 ELSE Head(m_recent_motion))
       ELSE motion_ring_consume(TRUE)
    /\ LET flush == m_sync_tx_in_progress \/ esb_tx_full
       IN  /\ tx_fifo' = IF flush THEN <<>> ELSE LeftInFifo
           /\ drift' = (IF flush THEN {} ELSE drift) \cup CutIn
    /\ UNCHANGED <<active, rf_channel, m_addr_channel, quiet, trip, mouse, sends, stray>>

----------------------------------------------------------------------------
(* Channels.                                                                *)

\* esb_flush_tx_and_reset, for the calls that flush first of all.
esb_flush_tx_and_reset ==
    /\ ring_reset
    /\ drift' = CutIn

\* Mutant of esb_transport_set_channel: the queue goes along to the new channel.
esb_transport_set_channel_Queued(ch) ==
    /\ active /\ trip = "no"
    /\ pdu = NoPdu
    /\ rf_channel' = ch
    /\ m_addr_channel' = ch
    /\ m_motion_refund' = 0
    /\ quiet' = TRUE
    /\ UNCHANGED <<active, tx_fifo, pdu, m_recent_motion, m_pointer_inflight_count,
                   m_sync_tx_in_progress, trip, mouse, sends, ledgerVars, drift, stray>>

\* The queue is flushed even if the radio is busy and the channel stays.
esb_transport_set_channel(ch) ==
    /\ active /\ trip = "no"
    /\ tx_fifo' = <<>>
    /\ esb_set_rf_channel(ch)
    /\ IF pdu = NoPdu
       THEN m_addr_channel' = ch /\ m_motion_refund' = 0 /\ quiet' = TRUE
       ELSE UNCHANGED <<m_addr_channel, m_motion_refund, quiet>>
    /\ esb_flush_tx_and_reset
    /\ UNCHANGED <<active, pdu, m_sync_tx_in_progress, trip, mouse, sends,
                   ledgerVars, stray>>

QuietOver ==
    /\ quiet
    /\ quiet' = FALSE
    /\ UNCHANGED <<active, radioVars, m_addr_channel, ringVars, m_sync_tx_in_progress,
                   trip, mouse, sends, ledgerVars, drift, stray>>

\* esb_transport_send_blocking up to its wait, called with the rendezvous
\* channel while another one is in use; -EBUSY if a packet is on the air.
esb_transport_send_blocking ==
    /\ active /\ trip = "no" /\ ~m_sync_tx_in_progress
    /\ m_addr_channel # Rendezvous
    /\ sends < MaxSends
    /\ esb_set_rf_channel(Rendezvous)
    /\ IF pdu = NoPdu
       THEN /\ m_sync_tx_in_progress' = TRUE
            /\ trip' = "wait"
            /\ esb_write_payload(<<>>, "sync", 0, Rendezvous)
       ELSE tx_fifo' = <<>> /\ UNCHANGED <<m_sync_tx_in_progress, trip, pdu, sends>>
    /\ UNCHANGED m_motion_refund
    /\ esb_flush_tx_and_reset
    /\ UNCHANGED <<active, m_addr_channel, quiet, mouse, ledgerVars, stray>>

\* Mutant of SideTripEnd: a timeout leaves the flag set.
SideTripEnd_Flag ==
    /\ trip = "wait"
    /\ trip' = "no"
    /\ esb_set_rf_channel(m_addr_channel)
    /\ stray' = (stray \/ (m_sync_tx_in_progress /\ pdu # NoPdu))
    /\ UNCHANGED <<active, tx_fifo, pdu, m_addr_channel, ringVars, m_sync_tx_in_progress,
                   quiet, mouse, sends, ledgerVars, drift>>

\* From the wait on, woken by the event or by the timeout: the flag tells which.
SideTripEnd ==
    /\ trip = "wait"
    /\ trip' = "no"
    /\ esb_set_rf_channel(m_addr_channel)
    /\ m_sync_tx_in_progress' = FALSE
    /\ stray' = (stray \/ (m_sync_tx_in_progress /\ pdu # NoPdu))
    /\ UNCHANGED <<active, tx_fifo, pdu, m_addr_channel, ringVars, quiet, mouse, sends,
                   ledgerVars, drift>>

----------------------------------------------------------------------------
(* Slot start and stop.  The engine is reset, the records are not.          *)

SlotReset(on, ch) ==
    /\ active' = on
    /\ tx_fifo' = <<>>
    /\ pdu' = NoPdu
    /\ rf_channel' = ch
    /\ m_addr_channel' = ch
    /\ drift' = drift \cup CutIn \cup (IF m_recent_motion = <<>> THEN {} ELSE {"slot"})
    /\ UNCHANGED <<ringVars, m_sync_tx_in_progress, quiet, trip, mouse, sends,
                   ledgerVars, stray>>

\* ACTIVATE, also of an active slot: back to the channel of the device tree.
SlotStart == SlotReset(TRUE, Rendezvous)

SlotStop == active /\ SlotReset(FALSE, m_addr_channel)

----------------------------------------------------------------------------

TransportInit ==
    /\ active = FALSE
    /\ tx_fifo = <<>>
    /\ pdu = NoPdu
    /\ rf_channel = Rendezvous
    /\ m_addr_channel = Rendezvous
    /\ m_recent_motion = <<>>
    /\ m_pointer_inflight_count = 0
    /\ m_motion_refund = 0
    /\ m_sync_tx_in_progress = FALSE
    /\ quiet = FALSE
    /\ trip = "no"
    /\ mouse = NoSend
    /\ sends = 0
    /\ heard = 0
    /\ moved = 0
    /\ arrived = 0
    /\ drift = {}
    /\ stray = FALSE

TransportNext ==
    \/ \E kind \in {"user", "shell"} : SendQueued(kind)
    \/ \E idle \in BOOLEAN : SendFlushing(idle)
    \/ \E delta \in Deltas : MouseBegin(delta)
    \/ MouseApply
    \/ MousePush
    \/ TxAcked
    \/ \E got \in HeardAnyway : TxFailed(got)
    \/ \E ch \in Channels : esb_transport_set_channel(ch)
    \/ QuietOver
    \/ esb_transport_send_blocking
    \/ SideTripEnd
    \/ SlotStart
    \/ SlotStop

TransportSpec == TransportInit /\ [][TransportNext]_transportVars

----------------------------------------------------------------------------
(* Properties.                                                              *)

\* Type invariant of the transport.
TransportTypeOK ==
    /\ active \in BOOLEAN
    /\ tx_fifo \in Seq(Packets) /\ Len(tx_fifo) <= FifoDepth
    /\ pdu \in [pkt : Packets, chan : Channels] \cup {NoPdu}
    /\ rf_channel \in Channels /\ m_addr_channel \in Channels
    /\ m_recent_motion \in Seq(0..Int16Max)
    /\ m_pointer_inflight_count \in Nat
    /\ m_motion_refund \in Nat
    /\ m_sync_tx_in_progress \in BOOLEAN
    /\ quiet \in BOOLEAN
    /\ trip \in {"no", "wait"}
    /\ mouse \in [at : {"apply", "push"}, motion : Nat, refunds : BOOLEAN,
                   count : Nat, overwritten : BOOLEAN] \cup {NoSend}
    /\ sends \in 0..(MaxSends + 1)
    /\ heard \in 0..sends
    /\ moved \in Nat /\ arrived \in Nat
    /\ drift \subseteq {"cut_in", "overrun", "slot"}
    /\ stray \in BOOLEAN

\* The records of packets with motion.
MotionRecords(ring) == {i \in DOMAIN ring : ring[i] # 0}

\* Flushes, failures that leave a packet queued, flushes under a packet on the
\* air and side trips keep the records in step with the queue: there are
\* never more of them than packets, and the in-flight count is the number of
\* those with motion.  So back-pressure ends with the queue.
BookkeepingInStep ==
    drift = {} =>
        /\ Len(m_recent_motion) <= Len(tx_fifo)
        /\ m_pointer_inflight_count = Cardinality(MotionRecords(m_recent_motion))

\* The dongle never hears an older packet after a newer one, although a packet
\* that failed is sent again later and the queue is flushed under the radio.
InOrder == [][heard' >= heard]_transportVars

\* A packet goes out on the channel that was in use when it was queued, a side
\* trip's on the rendezvous channel, unless a side trip was cut short by its
\* timeout or cut into by a report that had passed the check before it.
ChannelAsIntended == pdu # NoPdu /\ ~stray => pdu.chan = pdu.pkt.chan

\* When esb_transport_send_blocking has returned, traffic is let through again
\* and goes to the channel in use: no later send is dropped or lost for it.
SideTripOver ==
    trip = "no" => /\ ~m_sync_tx_in_progress
                   /\ ~stray => rf_channel = m_addr_channel

\* Kconfig: the deltas of a failed report are added to the next one "instead of
\* staying queued in ESB's TX FIFO": motion is delivered at most once.
MotionDeliveredOnce == arrived <= moved

\* esb_flush_tx_and_reset: "Every caller that flushes queued traffic must
\* therefore go through this wrapper".  With nothing queued and the last packet
\* heard no TX event will come, so the input processor must not be held back
\* until one does.
PointerNotStuck ==
    active /\ tx_fifo = <<>> /\ heard = sends /\ drift \subseteq {"slot"}
        => ~esb_transport_pointer_backpressure
=============================================================================
