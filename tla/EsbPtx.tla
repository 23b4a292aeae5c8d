------------------------------- MODULE EsbPtx -------------------------------
(***************************************************************************)
(* The transmitting (PTX) half of the vendored Enhanced ShockBurst engine  *)
(* (vendor/nrf-esb/subsys/esb.c) as the keyboard configures it: DPL        *)
(* protocol, ESB_TXMODE_AUTO, every packet acknowledged.                   *)
(*                                                                         *)
(* A packet lives in two places at once: in tx_fifo, and, while a          *)
(* transaction runs, in the PDU buffer the radio sends from.  The engine   *)
(* never checks that the two agree: completion removes whatever is at the  *)
(* front of tx_fifo.                                                       *)
(***************************************************************************)
EXTENDS EsbProtocol, Sequences

CONSTANTS
    TxDepth,    \* CONFIG_ESB_TX_FIFO_SIZE
    PidCount,   \* PID_MAX + 1: the packet id is two bits wide on the air
    NoPdu       \* no transaction is running: esb_state = ESB_STATE_IDLE

ASSUME TxDepthAssumption == TxDepth \in Nat \ {0}
ASSUME PidCountAssumption == PidCount \in Nat \ {0}

VARIABLES
    tx_fifo,    \* queued payloads, front first
    pids,       \* last packet id used on each pipe
    pdu         \* tx_payload_buffer while a transaction runs, else NoPdu

ptxVars == <<tx_fifo, pids, pdu>>

\* What the radio sends: a packet, its pipe and its packet id.
Pdus == {p \in [pipe : Pipes, pid : 0..(PidCount - 1), pkt : TxPackets] :
            p.pipe = PipeOf(p.pkt)}

PtxTypeOK ==
    /\ tx_fifo \in Seq(Pdus)
    /\ pids \in [Pipes -> 0..(PidCount - 1)]
    /\ pdu \in Pdus \cup {NoPdu}

PtxInit ==
    /\ tx_fifo = <<>>
    /\ pids = [p \in Pipes |-> 0]
    /\ pdu = NoPdu

esb_tx_full == Len(tx_fifo) >= TxDepth

\* start_tx_transaction copies the front of the FIFO into the PDU buffer.
start_tx_transaction(fifo) == pdu' = Head(fifo)

\* tx_fifo_remove_last: drops the front entry, and does nothing when empty.
tx_fifo_remove_last == IF tx_fifo = <<>> THEN <<>> ELSE Tail(tx_fifo)

\* Mutant of NextPid: the packet id is not kept to its two bits.
NextPid_Unwrapped(pipe) == pids[pipe] + 1

\* pids[pipe] = (pids[pipe] + 1) % (PID_MAX + 1)
NextPid(pipe) == (pids[pipe] + 1) % PidCount

\* esb_write_payload on top of the FIFO content `fifo', known not to be full;
\* an idle radio starts at once, from the FRONT of the FIFO.
WriteOnto(fifo, pkt) ==
    LET pipe == PipeOf(pkt)
        pid  == NextPid(pipe)
        next == Append(fifo, [pipe |-> pipe, pid |-> pid, pkt |-> pkt])
    IN  /\ pids' = [pids EXCEPT ![pipe] = pid]
        /\ tx_fifo' = next
        /\ IF pdu = NoPdu THEN start_tx_transaction(next) ELSE UNCHANGED pdu

\* esb_transport_send of anything but shell traffic: a full FIFO is flushed
\* (the packet on the air keeps going), then the payload is written.
esb_transport_send(pkt) ==
    WriteOnto(IF esb_tx_full THEN <<>> ELSE tx_fifo, pkt)

\* on_radio_disabled_tx_wait_for_ack, ACK received: the front entry is removed
\* and the next one is started.
TxAcked ==
    /\ pdu # NoPdu
    /\ tx_fifo' = tx_fifo_remove_last
    /\ IF tx_fifo' = <<>> THEN pdu' = NoPdu ELSE start_tx_transaction(tx_fifo')
    /\ UNCHANGED pids

\* on_radio_disabled_tx_wait_for_ack, retransmits exhausted: the engine goes
\* idle and leaves the packet at the front of the FIFO; the ESB_EVENT_TX_FAILED
\* handler of the transport then flushes, but only a full FIFO.
TxFailed ==
    /\ pdu # NoPdu
    /\ pdu' = NoPdu
    /\ tx_fifo' = IF esb_tx_full THEN <<>> ELSE tx_fifo
    /\ UNCHANGED pids

\* esb_disable (and esb_init): FIFO, packet ids and radio state are reset.
esb_disable ==
    /\ tx_fifo' = <<>>
    /\ pids' = [p \in Pipes |-> 0]
    /\ pdu' = NoPdu
=============================================================================
