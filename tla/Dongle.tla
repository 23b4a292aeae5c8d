------------------------------- MODULE Dongle -------------------------------
(***************************************************************************)
(* The USB dongle (dongle/src/main.c) on top of the receiving (PRX) half   *)
(* of the vendored ESB engine.                                             *)
(*                                                                         *)
(* The engine answers a packet before the application has seen it, so a    *)
(* reply written by the event handler travels on the acknowledgement of a  *)
(* LATER packet on the same pipe, and stays queued until one more new      *)
(* packet shows that it arrived.                                           *)
(*                                                                         *)
(* main() never calls esb_start_rx(); without it the engine receives       *)
(* nothing.  The constant PrxStarted says whether the receiver runs: TRUE  *)
(* is the dongle its event handler is written for, FALSE is main() as it   *)
(* stands.                                                                 *)
(***************************************************************************)
EXTENDS EsbProtocol, Sequences

CONSTANTS
    MyId,          \* m_my_device_id
    AckDepth,      \* CONFIG_ESB_TX_FIFO_SIZE of the dongle build
    RxPids,        \* packet ids a received packet may carry
    PrxStarted     \* the radio listens

ASSUME MyIdAssumption == MyId \in DongleIds
ASSUME AckDepthAssumption == AckDepth \in Nat \ {0}
ASSUME PrxStartedAssumption == PrxStarted \in BOOLEAN

VARIABLES
    d_state,        \* enum dongle_state
    d_peer,         \* m_peer: a keyboard id, or NoId for has_peer = false
    ack_fifo,       \* ack_pl_wrap_pipe[pipe]: replies waiting, per pipe
    ack_payload,    \* pipe_info.ack_payload: the last ACK carried a reply
    last_rx,        \* pipe_info.pid and .crc: what was last received
    hid_dropped     \* history: a new HID report reached a dongle that was in
                    \* no state to forward it

dongleVars == <<d_state, d_peer, ack_fifo, ack_payload, last_rx, hid_dropped>>

DongleStates == {"LISTENING", "PAIRING", "CONNECTED", "VERIFYING"}

RxPdus == {p \in [pipe : Pipes, pid : RxPids, pkt : TxPackets] :
              p.pipe = PipeOf(p.pkt)}

\* A pipe that has received nothing yet.
ASSUME NothingReceivedAssumption == NoPkt \notin RxPdus

\* Power-on up to the idle loop of main(): nothing is persisted.
DongleInit ==
    /\ d_state = "LISTENING"
    /\ d_peer = NoId
    /\ ack_fifo = [p \in Pipes |-> <<>>]
    /\ ack_payload = [p \in Pipes |-> FALSE]
    /\ last_rx = [p \in Pipes |-> NoPkt]
    /\ hid_dropped = FALSE

\* The dongle loses power and boots again.
DongleReset ==
    /\ d_state' = "LISTENING"
    /\ d_peer' = NoId
    /\ ack_fifo' = [p \in Pipes |-> <<>>]
    /\ ack_payload' = [p \in Pipes |-> FALSE]
    /\ last_rx' = [p \in Pipes |-> NoPkt]
    /\ UNCHANGED hid_dropped

----------------------------------------------------------------------------
(* The receiving engine.                                                    *)

\* on_radio_disabled_rx: same packet id and CRC as before is a retransmission.
IsRetransmit(rx) == last_rx[rx.pipe] = rx

\* Mutant of RepliesAfter: a reply that arrived is not dropped.
RepliesAfter_Kept(rx) == ack_fifo[rx.pipe]

\* on_radio_disabled_rx_dpl: a new packet proves that the reply carried by the
\* ACK before was received, and drops it from the queue.
RepliesAfter(rx) ==
    LET queue == ack_fifo[rx.pipe]
    IN  IF queue # <<>> /\ ack_payload[rx.pipe] /\ ~IsRetransmit(rx)
        THEN Tail(queue) ELSE queue

\* The payload the acknowledgement of rx carries.
AckReply(rx) ==
    IF RepliesAfter(rx) = <<>> THEN NoPkt ELSE Head(RepliesAfter(rx))

\* tx_fifo.count: the replies queued on all pipes.
Queued(fifo) == Len(fifo[PIPE_PAIRING]) + Len(fifo[PIPE_DATA])

\* esb_write_payload in PRX mode: refused when every slot is taken.
WriteReply(fifo, pipe, reply) ==
    IF Queued(fifo) >= AckDepth THEN fifo
    ELSE [fifo EXCEPT ![pipe] = Append(@, reply)]

----------------------------------------------------------------------------
(* esb_evt_handler, case by packet type; fifo is the reply queue after the  *)
(* engine has dealt with the packet.                                        *)

\* Mutant of OnBeacon: the dongle records its own id as the peer's.
OnBeacon_OwnId(rx, fifo) ==
    /\ rx.pkt.type = "BEACON"
    /\ IF d_state = "LISTENING"
       THEN /\ d_peer' = MyId
            /\ ack_fifo' = WriteReply(fifo, rx.pipe, Pkt("PAIR_REQ", MyId))
            /\ d_state' = "PAIRING"
       ELSE ack_fifo' = fifo /\ UNCHANGED <<d_state, d_peer>>
    /\ UNCHANGED hid_dropped

OnBeacon(rx, fifo) ==
    /\ rx.pkt.type = "BEACON"
    /\ IF d_state = "LISTENING"
       THEN /\ d_peer' = rx.pkt.device_id
            /\ ack_fifo' = WriteReply(fifo, rx.pipe, Pkt("PAIR_REQ", MyId))
            /\ d_state' = "PAIRING"
       ELSE ack_fifo' = fifo /\ UNCHANGED <<d_state, d_peer>>
    /\ UNCHANGED hid_dropped

OnPairResp(rx, fifo) ==
    /\ rx.pkt.type = "PAIR_RESP"
    /\ d_state' = IF d_state = "PAIRING" THEN "CONNECTED" ELSE d_state
    /\ ack_fifo' = fifo
    /\ UNCHANGED <<d_peer, hid_dropped>>

\* A report is forwarded to USB in CONNECTED or VERIFYING, otherwise dropped
\* although the engine has acknowledged it.
OnHidReport(rx, fifo) ==
    /\ rx.pkt.type = "HID_REPORT"
    /\ hid_dropped' = (hid_dropped \/ d_state \notin {"CONNECTED", "VERIFYING"})
    /\ ack_fifo' = fifo
    /\ UNCHANGED <<d_state, d_peer>>

OnVerifyReq(rx, fifo) ==
    /\ rx.pkt.type = "VERIFY_REQ"
    /\ IF d_peer = rx.pkt.device_id
       THEN /\ ack_fifo' = WriteReply(fifo, rx.pipe, Pkt("VERIFY_RESP", MyId))
            /\ d_state' = "VERIFYING"
       ELSE /\ ack_fifo' = WriteReply(fifo, rx.pipe, Pkt("DISCONNECT", NoId))
            /\ UNCHANGED d_state
    /\ UNCHANGED <<d_peer, hid_dropped>>

\* DISCONNECT from a keyboard: the dongle listens again, but keeps m_peer.
OnKbDisconnect(rx, fifo) ==
    /\ rx.pkt.type = "DISCONNECT"
    /\ d_state' = "LISTENING"
    /\ ack_fifo' = fifo
    /\ UNCHANGED <<d_peer, hid_dropped>>

esb_evt_handler(rx, fifo) ==
    \/ OnBeacon(rx, fifo)
    \/ OnPairResp(rx, fifo)
    \/ OnHidReport(rx, fifo)
    \/ OnVerifyReq(rx, fifo)
    \/ OnKbDisconnect(rx, fifo)

\* A packet reaches the receiver: it is acknowledged with AckReply(rx), and
\* handed to the event handler unless it is a retransmission.
DongleReceive(rx) ==
    /\ PrxStarted
    /\ LET fifo == [ack_fifo EXCEPT ![rx.pipe] = RepliesAfter(rx)]
       IN  \/ /\ IsRetransmit(rx)
              /\ ack_fifo' = fifo
              /\ UNCHANGED <<d_state, d_peer, hid_dropped>>
           \/ ~IsRetransmit(rx) /\ esb_evt_handler(rx, fifo)
    /\ ack_payload' = [ack_payload EXCEPT ![rx.pipe] = AckReply(rx) # NoPkt]
    /\ last_rx' = [last_rx EXCEPT ![rx.pipe] = rx]

----------------------------------------------------------------------------
(* The dongle among keyboards nothing is assumed of.                        *)

DongleNext == DongleReset \/ \E rx \in RxPdus : DongleReceive(rx)

DongleSpec == DongleInit /\ [][DongleNext]_dongleVars

\* Type invariant of the dongle.
DongleTypeOK ==
    /\ d_state \in DongleStates
    /\ d_peer \in KeyboardIds \cup {NoId}
    /\ ack_fifo \in [Pipes -> Seq(RxPackets)]
    /\ ack_payload \in [Pipes -> BOOLEAN]
    /\ last_rx \in [Pipes -> RxPdus \cup {NoPkt}]
    /\ hid_dropped \in BOOLEAN

\* However keyboards flood the dongle with VERIFY_REQs and beacons, at most two
\* replies wait on a pipe: the one the next ACK repeats and the one behind it.
\* So with at least four slots esb_write_payload, whose result main.c ignores,
\* never refuses a reply.
ReplyBacklogBounded ==
    \A p \in Pipes : Len(ack_fifo[p]) <= IF ack_payload[p] THEN 2 ELSE 1
=============================================================================
