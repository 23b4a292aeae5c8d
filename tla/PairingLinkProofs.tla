------------------------- MODULE PairingLinkProofs -------------------------
(***************************************************************************)
(* Proofs about the keyboard (module Pairing), the dongle (module Dongle)  *)
(* and the two over one radio link (module PairingLink), for every set of  *)
(* devices, every FIFO depth and packet id width, and every scenario.      *)
(*                                                                         *)
(* Part 1, the keyboard among arbitrary dongles.  None of its safety       *)
(* properties is inductive by itself: the packet in the mailbox, the half- *)
(* finished handler, the half-finished shell unpair and the record in      *)
(* flash depend on each other.  PairingInv is their common inductive       *)
(* strengthening.                                                          *)
(*                                                                         *)
(* Part 2, the dongle among arbitrary keyboards.                           *)
(*                                                                         *)
(* Part 3, the link.  What only the two together guarantee needs the       *)
(* packets between them: queued by the keyboard, on the air, queued by the *)
(* dongle and in the mailbox.                                              *)
(***************************************************************************)
EXTENDS PairingLink, SequenceTheorems, TLAPS

(***************************************************************************)
(* Part 1: the keyboard.                                                   *)
(***************************************************************************)

\* A shell unpair that no PAIR_REQ has crossed has forgotten the dongle, up to
\* the moment the keyboard advertises again.
ShellForgets ==
    ~crossed =>
        /\ shell_pc \in {"flag", "forgot", "saved", "checked"} => ~m_has_stored_peer
        /\ shell_pc \in {"forgot", "saved", "checked"} => m_peer_device_id = NoId

\* The state goes with the stored peer, except while an unpair, which forgets
\* the peer first, has not set the state.
StateHasPeer ==
    pc # "save_unpair" /\ shell_pc \in {"none", "unpaired"} =>
        /\ m_state \in {"VERIFYING", "CONNECTED"} => m_has_stored_peer
        /\ m_state = "CONNECTED" => m_peer_device_id \in heard
        /\ m_state = "UNPAIRED" /\ ~crossed => ~m_has_stored_peer

\* What each handler that waits for its save has left to do, and to write.
SaveMatches ==
    /\ pc = "save_pair" =>
          /\ ~crossed => ~record.paired
          /\ shell_pc \notin {"flag", "forgot"} =>
                m_has_stored_peer /\ rec = PairedWith(m_peer_device_id)
    /\ pc \in {"save_disconnect", "save_unpair"} =>
          ~m_has_stored_peer /\ m_peer_device_id = NoId /\ rec = Unpaired
    /\ pc = "save_disconnect" => m_state \in {"IDLE", "UNPAIRED"}

\* Whoever is named in the mailbox has been heard.
MailboxHeard ==
    rx_buf # NoPkt => rx_buf.device_id \in heard \cup {NoId}

\* With the slot inactive nothing is on the air, and an unpaired keyboard has
\* an empty mailbox: no PAIR_REQ can connect it.
InactiveIsQuiet ==
    ~esb_active =>
        /\ pdu = NoPdu
        /\ (m_state = "UNPAIRED" \/ shell_pc = "checked") /\ ~crossed => rx_buf = NoPkt

\* The work a state needs is scheduled, also while PAIR_REQ is being saved and
\* in the steps of a shell unpair that have not cancelled it.
WorkScheduled ==
    pc \in {"run", "save_pair"} =>
        /\ m_state = "UNPAIRED" /\ shell_pc \notin {"checked", "unpaired"} => beacon_work
        /\ m_state = "VERIFYING" /\ shell_pc # "checked" => verify_work

\* RAM and flash agree except between forgetting and saving.
FlashInStep ==
    pc = "run" /\ shell_pc \notin {"flag", "forgot"} /\ (record.paired \/ ~crossed)
        => /\ record.paired = m_has_stored_peer
           /\ record.device_id = m_peer_device_id

PairingInv ==
    /\ TypeOK
    /\ ShellForgets
    /\ StateHasPeer
    /\ SaveMatches
    /\ MailboxHeard
    /\ InactiveIsQuiet
    /\ WorkScheduled
    /\ FlashInStep
    /\ InactiveNeverConnected

----------------------------------------------------------------------------
(* The engine keeps its types.                                              *)

\* A packet id is taken modulo PidCount.
LEMMA PidType ==
    ASSUME NEW n \in 0..(PidCount - 1)
    PROVE  (n + 1) % PidCount \in 0..(PidCount - 1)
BY PidCountAssumption

\* Every packet has one of the two pipes (protocol.h).
LEMMA PipeOfType ==
    ASSUME NEW pkt \in TxPackets
    PROVE  PipeOf(pkt) \in Pipes
BY DEF PipeOf, Pipes

\* esb_transport_send keeps FIFO, packet ids and PDU buffer well-formed, flush
\* or no flush.
LEMMA SendType ==
    ASSUME PtxTypeOK, NEW pkt \in TxPackets, esb_transport_send(pkt)
    PROVE  PtxTypeOK'
<1> DEFINE fifo == IF esb_tx_full THEN <<>> ELSE tx_fifo
           pipe == PipeOf(pkt)
           pid  == NextPid(pipe)
           new  == [pipe |-> pipe, pid |-> pid, pkt |-> pkt]
           next == Append(fifo, new)
<1>1. pipe \in Pipes
  BY PipeOfType
<1>2. pid \in 0..(PidCount - 1)
  <2>1. pids[pipe] \in 0..(PidCount - 1)
    BY <1>1 DEF PtxTypeOK
  <2> QED BY <2>1, PidType DEF NextPid
<1>3. new \in Pdus
  BY <1>1, <1>2 DEF Pdus
<1>4. fifo \in Seq(Pdus)
  BY DEF PtxTypeOK
<1>5. next \in Seq(Pdus) /\ next # <<>>
  BY <1>3, <1>4
<1>6. Head(next) \in Pdus
  BY <1>5
<1>7. /\ pids' = [pids EXCEPT ![pipe] = pid]
      /\ tx_fifo' = next
      /\ pdu' = Head(next) \/ pdu' = pdu
  BY DEF esb_transport_send, WriteOnto, start_tx_transaction
<1> QED
  BY <1>1, <1>2, <1>5, <1>6, <1>7 DEF PtxTypeOK

\* A completed transmission keeps the engine well-formed.
LEMMA AckedType ==
    ASSUME PtxTypeOK, TxAcked
    PROVE  PtxTypeOK'
<1>1. tx_fifo' \in Seq(Pdus)
  BY DEF PtxTypeOK, TxAcked, tx_fifo_remove_last
<1>2. pdu' \in Pdus \cup {NoPdu}
  BY <1>1 DEF TxAcked, start_tx_transaction
<1> QED
  BY <1>1, <1>2 DEF PtxTypeOK, TxAcked

\* A failed transmission keeps the engine well-formed.
LEMMA FailedType ==
    ASSUME PtxTypeOK, TxFailed
    PROVE  PtxTypeOK'
BY DEF PtxTypeOK, TxFailed

\* So does switching the engine off.
LEMMA DisableType ==
    ASSUME esb_disable
    PROVE  PtxTypeOK' /\ pdu' = NoPdu
BY PidCountAssumption DEF PtxTypeOK, esb_disable

\* The keyboard's own packets are packets.
LEMMA OwnPackets ==
    /\ \A t \in {"BEACON", "PAIR_RESP", "VERIFY_REQ"} : Pkt(t, KbId) \in TxPackets
    /\ Pkt("HID_REPORT", NoId) \in TxPackets
BY KbIdAssumption DEF TxPackets

\* What the mailbox may hold.
LEMMA RxPacketType ==
    ASSUME NEW pkt \in RxPackets
    PROVE  /\ pkt.type \in {"PAIR_REQ", "VERIFY_RESP"} => pkt.device_id \in DongleIds
           /\ pkt.device_id \in DongleIds \cup {NoId}
BY DEF RxPackets, Pkt

----------------------------------------------------------------------------
(* The invariant.                                                           *)

\* It holds when the keyboard has booted with any record in flash.
LEMMA InitInv == PairingInit => PairingInv
<1> SUFFICES ASSUME PairingInit PROVE PairingInv
  OBVIOUS
<1>0. record = Unpaired \/ \E d \in DongleIds : record = PairedWith(d)
  BY DEF PairingInit
<1>1. \/ record.paired = FALSE /\ record.device_id = NoId
      \/ record.paired = TRUE /\ record.device_id \in DongleIds
  BY <1>0 DEF Unpaired, PairedWith
<1>2. record \in [paired : BOOLEAN, device_id : DongleIds \cup {NoId}]
  <2>1. CASE record = Unpaired
    BY <2>1 DEF Unpaired
  <2>2. ASSUME NEW d \in DongleIds, record = PairedWith(d)
        PROVE  record \in [paired : BOOLEAN, device_id : DongleIds \cup {NoId}]
    BY <2>2 DEF PairedWith
  <2> QED BY <1>0, <2>1, <2>2
<1>3. TypeOK
  <2>1. PtxTypeOK
    BY PidCountAssumption DEF PairingInit, PtxInit, PtxTypeOK
  <2>2. m_peer_device_id \in DongleIds \cup {NoId} /\ m_has_stored_peer \in BOOLEAN
    BY <1>1 DEF PairingInit
  <2>3. rec \in [paired : BOOLEAN, device_id : DongleIds \cup {NoId}]
    BY DEF PairingInit, Unpaired
  <2> QED BY <1>2, <2>1, <2>2, <2>3 DEF PairingInit, TypeOK, States
<1>4. FlashInStep
  BY DEF PairingInit, FlashInStep
<1> QED
  BY <1>3, <1>4
  DEF PairingInit, PtxInit, PairingInv, ShellForgets, StateHasPeer, SaveMatches,
      MailboxHeard,
      InactiveIsQuiet, WorkScheduled, InactiveNeverConnected

\* Every step keeps it.
LEMMA StepInv == PairingInv /\ [PairingNext]_pairingAllVars => PairingInv'
<1> SUFFICES ASSUME PairingInv, [PairingNext]_pairingAllVars PROVE PairingInv'
  OBVIOUS
<1> USE DEF PairingInv
<1>1. CASE beacon_work_fn
  <2>a. PtxTypeOK'
    BY <1>1, SendType, OwnPackets DEF beacon_work_fn, TypeOK, ptxVars, PtxTypeOK
  <2>b. beacon_work' \in BOOLEAN
    BY <1>1 DEF beacon_work_fn, TypeOK
  <2>1. TypeOK'
    BY <1>1, <2>b, <2>a DEF beacon_work_fn, TypeOK, peerVars, handlerVars, shellVars
  <2> QED
    BY <1>1, <2>1
    DEF beacon_work_fn, esb_transport_send, WriteOnto,
        TypeOK, peerVars, workVars, handlerVars, shellVars, ptxVars,
        ShellForgets, StateHasPeer, SaveMatches, MailboxHeard, InactiveIsQuiet,
        WorkScheduled, FlashInStep, InactiveNeverConnected
<1>2. CASE verify_work_fn
  <2>a. PtxTypeOK'
    BY <1>2, SendType, OwnPackets DEF verify_work_fn, TypeOK, ptxVars, PtxTypeOK
  <2>b. verify_work' \in BOOLEAN
    BY <1>2 DEF verify_work_fn, TypeOK
  <2>1. TypeOK'
    BY <1>2, <2>b, <2>a DEF verify_work_fn, TypeOK, peerVars, handlerVars, shellVars
  <2> QED
    BY <1>2, <2>1
    DEF verify_work_fn, esb_transport_send, WriteOnto,
        TypeOK, peerVars, workVars, handlerVars, shellVars, ptxVars,
        ShellForgets, StateHasPeer, SaveMatches, MailboxHeard, InactiveIsQuiet,
        WorkScheduled, FlashInStep, InactiveNeverConnected
<1>3. CASE rx_work_fn /\ OnPairReq
  <2>r. rx_buf \in RxPackets
    BY <1>3 DEF rx_work_fn, TypeOK
  <2>a. PtxTypeOK'
    BY <1>3, SendType, OwnPackets DEF OnPairReq, TypeOK, ptxVars, PtxTypeOK
  <2>1. TypeOK'
    BY <1>3, <2>a, <2>r, RxPacketType
    DEF rx_work_fn, OnPairReq, TypeOK, States, peerVars, workVars, handlerVars,
        shellVars,
        forget_peer, save_paired, SavedRecord, PairedWith, Unpaired
  <2> QED
    BY <1>3, <2>1, <2>r, RxPacketType, NoIdAssumption
    DEF rx_work_fn, OnPairReq, forget_peer, save_paired, SavedRecord,
        TypeOK, peerVars, workVars, handlerVars, shellVars, ptxVars,
        ShellForgets, StateHasPeer, SaveMatches, MailboxHeard, InactiveIsQuiet,
        WorkScheduled, FlashInStep, InactiveNeverConnected
<1>4. CASE rx_work_fn /\ OnVerifyResp
  <2>r. rx_buf \in RxPackets
    BY <1>4 DEF rx_work_fn, TypeOK
  <2>a. PtxTypeOK'
    BY <1>4 DEF OnVerifyResp, TypeOK, ptxVars, PtxTypeOK
  <2>1. TypeOK'
    BY <1>4, <2>a, <2>r, RxPacketType
    DEF rx_work_fn, OnVerifyResp, TypeOK, States, peerVars, workVars, handlerVars,
        shellVars,
        forget_peer, save_paired, SavedRecord, PairedWith, Unpaired
  <2> QED
    BY <1>4, <2>1, <2>r, RxPacketType, NoIdAssumption
    DEF rx_work_fn, OnVerifyResp, forget_peer, save_paired, SavedRecord,
        TypeOK, peerVars, workVars, handlerVars, shellVars, ptxVars,
        ShellForgets, StateHasPeer, SaveMatches, MailboxHeard, InactiveIsQuiet,
        WorkScheduled, FlashInStep, InactiveNeverConnected
<1>5. CASE rx_work_fn /\ OnDisconnect
  <2>r. rx_buf \in RxPackets
    BY <1>5 DEF rx_work_fn, TypeOK
  <2>a. PtxTypeOK'
    BY <1>5 DEF OnDisconnect, TypeOK, ptxVars, PtxTypeOK
  <2>1. TypeOK'
    BY <1>5, <2>a, <2>r, RxPacketType
    DEF rx_work_fn, OnDisconnect, TypeOK, States, peerVars, workVars, handlerVars,
        shellVars,
        forget_peer, save_paired, SavedRecord, PairedWith, Unpaired
  <2> QED
    BY <1>5, <2>1, <2>r, RxPacketType, NoIdAssumption
    DEF rx_work_fn, OnDisconnect, forget_peer, save_paired, SavedRecord,
        TypeOK, peerVars, workVars, handlerVars, shellVars, ptxVars,
        ShellForgets, StateHasPeer, SaveMatches, MailboxHeard, InactiveIsQuiet,
        WorkScheduled, FlashInStep, InactiveNeverConnected
<1>6. CASE rx_work_fn /\ OnResync
  <2>r. rx_buf \in RxPackets
    BY <1>6 DEF rx_work_fn, TypeOK
  <2>a. PtxTypeOK'
    BY <1>6 DEF OnResync, TypeOK, ptxVars, PtxTypeOK
  <2>1. TypeOK'
    BY <1>6, <2>a, <2>r, RxPacketType
    DEF rx_work_fn, OnResync, TypeOK, States, peerVars, workVars, handlerVars,
        shellVars,
        forget_peer, save_paired, SavedRecord, PairedWith, Unpaired
  <2> QED
    BY <1>6, <2>1, <2>r, RxPacketType, NoIdAssumption
    DEF rx_work_fn, OnResync, forget_peer, save_paired, SavedRecord,
        TypeOK, peerVars, workVars, handlerVars, shellVars, ptxVars,
        ShellForgets, StateHasPeer, SaveMatches, MailboxHeard, InactiveIsQuiet,
        WorkScheduled, FlashInStep, InactiveNeverConnected
<1>7. CASE rx_work_fn /\ OnIgnored
  <2>r. rx_buf \in RxPackets
    BY <1>7 DEF rx_work_fn, TypeOK
  <2>a. PtxTypeOK'
    BY <1>7 DEF OnIgnored, TypeOK, ptxVars, PtxTypeOK
  <2>1. TypeOK'
    BY <1>7, <2>a, <2>r, RxPacketType
    DEF rx_work_fn, OnIgnored, TypeOK, States, peerVars, workVars, handlerVars,
        shellVars,
        forget_peer, save_paired, SavedRecord, PairedWith, Unpaired
  <2> QED
    BY <1>7, <2>1, <2>r, RxPacketType, NoIdAssumption
    DEF rx_work_fn, OnIgnored, forget_peer, save_paired, SavedRecord,
        TypeOK, peerVars, workVars, handlerVars, shellVars, ptxVars,
        ShellForgets, StateHasPeer, SaveMatches, MailboxHeard, InactiveIsQuiet,
        WorkScheduled, FlashInStep, InactiveNeverConnected
<1>8. CASE SavePair
  <2>1. TypeOK'
    BY <1>8 DEF SavePair, SaveDone, TypeOK, PtxTypeOK, peerVars, workVars,
        handlerVars, shellVars, ptxVars, States, Unpaired
  <2> QED
    BY <1>8, <2>1
    DEF SavePair, SaveDone, PairedWith, Unpaired,
        TypeOK, peerVars, workVars, handlerVars, shellVars, ptxVars,
        ShellForgets, StateHasPeer, SaveMatches, MailboxHeard, InactiveIsQuiet,
        WorkScheduled, FlashInStep, InactiveNeverConnected
<1>9. CASE SaveDisconnect
  <2>b. beacon_work' \in BOOLEAN /\ verify_work' \in BOOLEAN /\ link_up' \in BOOLEAN
    BY <1>9 DEF SaveDisconnect, TypeOK
  <2>1. TypeOK'
    BY <1>9, <2>b DEF SaveDisconnect, SaveDone, TypeOK, PtxTypeOK, peerVars,
        workVars, handlerVars, shellVars, ptxVars, States, Unpaired
  <2> QED
    BY <1>9, <2>1
    DEF SaveDisconnect, SaveDone, PairedWith, Unpaired,
        TypeOK, peerVars, workVars, handlerVars, shellVars, ptxVars,
        ShellForgets, StateHasPeer, SaveMatches, MailboxHeard, InactiveIsQuiet,
        WorkScheduled, FlashInStep, InactiveNeverConnected
<1>10. CASE SaveUnpair
  <2>b. beacon_work' \in BOOLEAN /\ verify_work' \in BOOLEAN
    BY <1>10 DEF SaveUnpair, TypeOK
  <2>1. TypeOK'
    BY <1>10, <2>b DEF SaveUnpair, SaveDone, TypeOK, PtxTypeOK, peerVars, workVars,
        handlerVars, shellVars, ptxVars, States, Unpaired
  <2> QED
    BY <1>10, <2>1
    DEF SaveUnpair, SaveDone, PairedWith, Unpaired,
        TypeOK, peerVars, workVars, handlerVars, shellVars, ptxVars,
        ShellForgets, StateHasPeer, SaveMatches, MailboxHeard, InactiveIsQuiet,
        WorkScheduled, FlashInStep, InactiveNeverConnected
<1>11. CASE Activate
  <2>1. TypeOK'
    BY <1>11, DisableType, RxPacketType
    DEF Activate, pairing_start, TypeOK, States, peerVars, handlerVars, shellVars,
        Waiting
  <2> QED
    BY <1>11, <2>1, DisableType
    DEF Activate, pairing_start, Waiting,
        TypeOK, peerVars, workVars, handlerVars, shellVars, ptxVars,
        ShellForgets, StateHasPeer, SaveMatches, MailboxHeard, InactiveIsQuiet,
        WorkScheduled, FlashInStep, InactiveNeverConnected
<1>12. CASE Deactivate
  <2>1. TypeOK'
    BY <1>12, DisableType
    DEF Deactivate, pairing_stop, TypeOK, States, peerVars, handlerVars
  <2> QED
    BY <1>12, <2>1, DisableType
    DEF Deactivate, pairing_stop,
        TypeOK, peerVars, workVars, handlerVars, shellVars, ptxVars,
        ShellForgets, StateHasPeer, SaveMatches, MailboxHeard, InactiveIsQuiet,
        WorkScheduled, FlashInStep, InactiveNeverConnected
<1>13. CASE pairing_unpair
  <2>1. TypeOK'
    BY <1>13
    DEF pairing_unpair, forget_peer, save_paired, SavedRecord, Unpaired, TypeOK,
        PtxTypeOK,
        ptxVars, workVars, shellVars
  <2> QED
    BY <1>13, <2>1
    DEF pairing_unpair, forget_peer, save_paired, SavedRecord,
        TypeOK, peerVars, workVars, handlerVars, shellVars, ptxVars,
        ShellForgets, StateHasPeer, SaveMatches, MailboxHeard, InactiveIsQuiet,
        WorkScheduled, FlashInStep, InactiveNeverConnected
<1>14. CASE cmd_esb_unpair
  <2>b. beacon_work' \in BOOLEAN /\ verify_work' \in BOOLEAN /\ m_has_stored_peer' \in BOOLEAN
    BY <1>14 DEF cmd_esb_unpair, workVars, TypeOK
  <2>1. TypeOK'
    BY <1>14, <2>b
    DEF cmd_esb_unpair, ShellStep, TypeOK, PtxTypeOK, peerVars, workVars,
        handlerVars, shellVars, ptxVars
  <2> QED
    BY <1>14, <2>1
    DEF cmd_esb_unpair, ShellStep,
        TypeOK, peerVars, workVars, handlerVars, shellVars, ptxVars,
        ShellForgets, StateHasPeer, SaveMatches, MailboxHeard, InactiveIsQuiet,
        WorkScheduled, FlashInStep, InactiveNeverConnected
<1>15. CASE ShellForget
  <2>1. TypeOK'
    BY <1>15
    DEF ShellForget, ShellStep, TypeOK, PtxTypeOK, peerVars, workVars, handlerVars,
        shellVars, ptxVars
  <2> QED
    BY <1>15, <2>1
    DEF ShellForget, ShellStep,
        TypeOK, peerVars, workVars, handlerVars, shellVars, ptxVars,
        ShellForgets, StateHasPeer, SaveMatches, MailboxHeard, InactiveIsQuiet,
        WorkScheduled, FlashInStep, InactiveNeverConnected
<1>16. CASE ShellSave
  <2>1. TypeOK'
    BY <1>16
    DEF ShellSave, ShellStep, SavedRecord, Unpaired, TypeOK, PtxTypeOK, peerVars,
        workVars, handlerVars, shellVars, ptxVars
  <2> QED
    BY <1>16, <2>1
    DEF ShellSave, ShellStep, SavedRecord, Unpaired,
        TypeOK, peerVars, workVars, handlerVars, shellVars, ptxVars,
        ShellForgets, StateHasPeer, SaveMatches, MailboxHeard, InactiveIsQuiet,
        WorkScheduled, FlashInStep, InactiveNeverConnected
<1>17. CASE ShellCheck
  <2>b. beacon_work' \in BOOLEAN /\ verify_work' \in BOOLEAN /\ m_has_stored_peer' \in BOOLEAN
    BY <1>17 DEF ShellCheck, peerVars, TypeOK
  <2>1. TypeOK'
    BY <1>17, <2>b
    DEF ShellCheck, ShellStep, TypeOK, PtxTypeOK, peerVars, workVars, handlerVars,
        shellVars, ptxVars
  <2> QED
    BY <1>17, <2>1
    DEF ShellCheck, ShellStep,
        TypeOK, peerVars, workVars, handlerVars, shellVars, ptxVars,
        ShellForgets, StateHasPeer, SaveMatches, MailboxHeard, InactiveIsQuiet,
        WorkScheduled, FlashInStep, InactiveNeverConnected
<1>18. CASE ShellUnpaired
  <2>1. TypeOK'
    BY <1>18
    DEF ShellUnpaired, ShellStep, States, TypeOK, PtxTypeOK, peerVars, workVars,
        handlerVars, shellVars, ptxVars
  <2> QED
    BY <1>18, <2>1
    DEF ShellUnpaired, ShellStep, States,
        TypeOK, peerVars, workVars, handlerVars, shellVars, ptxVars,
        ShellForgets, StateHasPeer, SaveMatches, MailboxHeard, InactiveIsQuiet,
        WorkScheduled, FlashInStep, InactiveNeverConnected
<1>19. CASE ShellBeacon
  <2>1. TypeOK'
    BY <1>19
    DEF ShellBeacon, ShellStep, TypeOK, PtxTypeOK, peerVars, workVars, handlerVars,
        shellVars, ptxVars
  <2> QED
    BY <1>19, <2>1
    DEF ShellBeacon, ShellStep,
        TypeOK, peerVars, workVars, handlerVars, shellVars, ptxVars,
        ShellForgets, StateHasPeer, SaveMatches, MailboxHeard, InactiveIsQuiet,
        WorkScheduled, FlashInStep, InactiveNeverConnected
<1>20. CASE PowerCycle
  <2>1. TypeOK'
    BY <1>20, DisableType
    DEF PowerCycle, settings_load_cb, TypeOK, States, Unpaired
  <2> QED
    BY <1>20, <2>1, DisableType
    DEF PowerCycle, settings_load_cb,
        TypeOK, peerVars, workVars, handlerVars, shellVars, ptxVars,
        ShellForgets, StateHasPeer, SaveMatches, MailboxHeard, InactiveIsQuiet,
        WorkScheduled, FlashInStep, InactiveNeverConnected
<1>21. CASE SendHid
  <2>1. TypeOK'
    BY <1>21, SendType, OwnPackets DEF SendHid, pairingVars, TypeOK
  <2> QED
    BY <1>21, <2>1
    DEF SendHid, pairingVars,
        TypeOK, peerVars, workVars, handlerVars, shellVars, ptxVars,
        ShellForgets, StateHasPeer, SaveMatches, MailboxHeard, InactiveIsQuiet,
        WorkScheduled, FlashInStep, InactiveNeverConnected
<1>22. CASE RadioAcked
  <2>1. TypeOK'
    BY <1>22, AckedType, RxPacketType
    DEF RadioAcked, DeliverAckPayload, TypeOK, peerVars, workVars, handlerVars,
        shellVars
  <2> QED
    BY <1>22, <2>1, RxPacketType
    DEF RadioAcked, DeliverAckPayload, TxAcked,
        TypeOK, peerVars, workVars, handlerVars, shellVars, ptxVars,
        ShellForgets, StateHasPeer, SaveMatches, MailboxHeard, InactiveIsQuiet,
        WorkScheduled, FlashInStep, InactiveNeverConnected
<1>23. CASE RadioFailed
  <2>1. TypeOK'
    BY <1>23, FailedType DEF RadioFailed, pairingVars, TypeOK
  <2> QED
    BY <1>23, <2>1
    DEF RadioFailed, TxFailed, pairingVars,
        TypeOK, peerVars, workVars, handlerVars, shellVars, ptxVars,
        ShellForgets, StateHasPeer, SaveMatches, MailboxHeard, InactiveIsQuiet,
        WorkScheduled, FlashInStep, InactiveNeverConnected
<1>24. CASE UNCHANGED pairingAllVars
  <2>1. TypeOK'
    BY <1>24 DEF pairingAllVars, pairingVars, ptxVars, TypeOK, PtxTypeOK
  <2> QED
    BY <1>24, <2>1
    DEF pairingAllVars, pairingVars,
        TypeOK, peerVars, workVars, handlerVars, shellVars, ptxVars,
        ShellForgets, StateHasPeer, SaveMatches, MailboxHeard, InactiveIsQuiet,
        WorkScheduled, FlashInStep, InactiveNeverConnected
<1> QED
  BY <1>1, <1>2, <1>3, <1>4, <1>5, <1>6, <1>7, <1>8, <1>9, <1>10, <1>11, <1>12,
     <1>13, <1>14, <1>15, <1>16, <1>17, <1>18, <1>19, <1>20, <1>21, <1>22, <1>23,
     <1>24
  DEF PairingNext, rx_work_fn, Shell

----------------------------------------------------------------------------
(* Theorems.                                                                *)

\* The strengthened invariant holds in every reachable state.
THEOREM PairingInvariant == PairingSpec => []PairingInv
BY InitInv, StepInv, PTL DEF PairingSpec

\* Type correctness of the pairing state machine and of the engine under it.
THEOREM TypeCorrect == PairingSpec => []TypeOK
<1>1. PairingInv => TypeOK
  BY DEF PairingInv
<1> QED BY <1>1, PairingInvariant, PTL

\* No sequence of packets, commands, shell unpairs and power cuts leaves the
\* keyboard in UNPAIRED without a beacon or in VERIFYING without a VERIFY_REQ
\* scheduled.
THEOREM KeepsTrying == PairingSpec => []NeverSilent
<1>1. PairingInv => NeverSilent
  BY DEF PairingInv, WorkScheduled, NeverSilent, Settled
<1> QED BY <1>1, PairingInvariant, PTL

\* With no handler and no shell unpair under way a dongle in flash is the one
\* in RAM, and a dongle in RAM is in flash unless its PAIR_REQ was obeyed in
\* the middle of a shell unpair (pairing_unpair on a preemptible thread).
THEOREM FlashAgrees == PairingSpec => []RecordAgrees
<1>1. PairingInv => RecordAgrees
  BY DEF PairingInv, FlashInStep, RecordAgrees, Settled
<1> QED BY <1>1, PairingInvariant, PTL

\* HID is released only to the stored dongle, and only after that dongle has
\* sent its id over the slot's current activation or in the packet that waited
\* when it began.
THEOREM ConnectedToKnown == PairingSpec => []ConnectedPeerAnswered
<1>1. PairingInv => ConnectedPeerAnswered
  BY DEF PairingInv, StateHasPeer, ConnectedPeerAnswered
<1> QED BY <1>1, PairingInvariant, PTL

\* A packet handled after pairing_stop never connects the keyboard, unless the
\* slot was left between the test and the store of a shell unpair.
THEOREM NoLateConnect == PairingSpec => []InactiveNeverConnected
<1>1. PairingInv => InactiveNeverConnected
  BY DEF PairingInv
<1> QED BY <1>1, PairingInvariant, PTL

\* In flash one dongle never replaces another without an unpaired record in
\* between, unless a PAIR_REQ was obeyed in the middle of a shell unpair.
THEOREM NoSwap == PairingSpec => RecordNeverSwaps
<1> DEFINE Keeps == record.paired /\ record'.paired /\ ~crossed
                        => record'.device_id = record.device_id
<1>1. PairingInv /\ [PairingNext]_pairingAllVars => [Keeps]_record
  <2> SUFFICES ASSUME PairingInv, [PairingNext]_pairingAllVars, record' # record
               PROVE  Keeps
    OBVIOUS
  <2>1. SavePair \/ SaveDisconnect \/ SaveUnpair \/ ShellSave
    BY DEF PairingNext, pairingAllVars, pairingVars, ptxVars, beacon_work_fn,
           verify_work_fn, rx_work_fn, OnPairReq, OnVerifyResp, OnDisconnect,
           OnResync, OnIgnored, Activate, Deactivate, pairing_unpair, PowerCycle,
           SendHid, RadioAcked, RadioFailed, Shell, cmd_esb_unpair, ShellForget,
           ShellCheck, ShellUnpaired, ShellBeacon
  <2>2. CASE SavePair
    BY <2>2 DEF SavePair, SaveDone, PairingInv, SaveMatches
  <2>3. CASE SaveDisconnect \/ SaveUnpair
    BY <2>3 DEF SaveDisconnect, SaveUnpair, SaveDone, PairingInv, SaveMatches, Unpaired
  <2>4. CASE ShellSave
    BY <2>4 DEF ShellSave, SavedRecord, Unpaired
  <2> QED BY <2>1, <2>2, <2>3, <2>4
<1> QED BY <1>1, PairingInvariant, PTL DEF PairingSpec, RecordNeverSwaps

(***************************************************************************)
(* Part 2: the dongle.                                                     *)
(***************************************************************************)

DongleInv ==
    /\ DongleTypeOK
    /\ ReplyBacklogBounded

----------------------------------------------------------------------------
(* The receiving engine.                                                    *)

\* The reply the acknowledgement carries is a reply, and there is one exactly
\* if one is queued.
LEMMA AckReplyType ==
    ASSUME DongleTypeOK, NEW rx \in RxPdus
    PROVE  /\ RepliesAfter(rx) \in Seq(RxPackets)
           /\ AckReply(rx) \in RxPackets \cup {NoPkt}
           /\ AckReply(rx) # NoPkt <=> RepliesAfter(rx) # <<>>
<1>1. rx.pipe \in Pipes
  BY DEF RxPdus
<1>2. ack_fifo[rx.pipe] \in Seq(RxPackets)
  BY <1>1 DEF DongleTypeOK
<1>3. RepliesAfter(rx) \in Seq(RxPackets)
  BY <1>2 DEF RepliesAfter
<1>4. RepliesAfter(rx) # <<>> => Head(RepliesAfter(rx)) \in RxPackets
  BY <1>3
<1> QED BY <1>3, <1>4, NoPktAssumption DEF AckReply

\* After the engine has dealt with a packet at most one reply waits behind the
\* one in the acknowledgement, and a new packet leaves none behind it.
LEMMA RepliesAfterLength ==
    ASSUME DongleTypeOK, ReplyBacklogBounded, NEW rx \in RxPdus
    PROVE  /\ Len(RepliesAfter(rx)) <= 2
           /\ ~IsRetransmit(rx) => Len(RepliesAfter(rx)) <= 1
<1>1. rx.pipe \in Pipes
  BY DEF RxPdus
<1>2. ack_fifo[rx.pipe] \in Seq(RxPackets)
  BY <1>1 DEF DongleTypeOK
<1>3. Len(ack_fifo[rx.pipe]) <= IF ack_payload[rx.pipe] THEN 2 ELSE 1
  BY <1>1 DEF ReplyBacklogBounded
<1> QED BY <1>2, <1>3 DEF RepliesAfter

\* A reply is appended to the queue of its pipe, or refused.
LEMMA WriteReplyType ==
    ASSUME NEW fifo \in [Pipes -> Seq(RxPackets)], NEW pipe \in Pipes,
           NEW reply \in RxPackets
    PROVE  /\ WriteReply(fifo, pipe, reply) \in [Pipes -> Seq(RxPackets)]
           /\ \A p \in Pipes \ {pipe} : WriteReply(fifo, pipe, reply)[p] = fifo[p]
           /\ Len(WriteReply(fifo, pipe, reply)[pipe]) <= Len(fifo[pipe]) + 1
BY DEF WriteReply

\* The dongle's replies are replies.
LEMMA ReplyPackets ==
    /\ \A t \in {"PAIR_REQ", "VERIFY_RESP"} : Pkt(t, MyId) \in RxPackets
    /\ Pkt("DISCONNECT", NoId) \in RxPackets
BY MyIdAssumption DEF RxPackets

\* What the event handler may do to the queue: nothing, or append one reply.
LEMMA HandlerType ==
    ASSUME DongleTypeOK, NEW rx \in RxPdus,
           NEW fifo \in [Pipes -> Seq(RxPackets)], esb_evt_handler(rx, fifo)
    PROVE  /\ d_state' \in DongleStates
           /\ d_peer' \in KeyboardIds \cup {NoId}
           /\ hid_dropped' \in BOOLEAN
           /\ ack_fifo' \in [Pipes -> Seq(RxPackets)]
           /\ \A p \in Pipes \ {rx.pipe} : ack_fifo'[p] = fifo[p]
           /\ Len(ack_fifo'[rx.pipe]) <= Len(fifo[rx.pipe]) + 1
<1>1. /\ rx.pipe \in Pipes
      /\ rx.pkt \in TxPackets
  BY DEF RxPdus
<1>2. rx.pkt.type \in {"BEACON", "VERIFY_REQ"} => rx.pkt.device_id \in KeyboardIds
  BY <1>1 DEF TxPackets, Pkt
<1>3. /\ \A t \in {"PAIR_REQ", "VERIFY_RESP"} : Pkt(t, MyId) \in RxPackets
      /\ Pkt("DISCONNECT", NoId) \in RxPackets
  BY ReplyPackets
<1>4. Len(fifo[rx.pipe]) \in Nat
  BY <1>1
<1> USE DEF DongleTypeOK, DongleStates
<1>5. CASE OnBeacon(rx, fifo)
  <2>1. CASE d_state = "LISTENING"
    <3>1. ack_fifo' = WriteReply(fifo, rx.pipe, Pkt("PAIR_REQ", MyId))
      BY <1>5, <2>1 DEF OnBeacon
    <3> HIDE DEF DongleTypeOK
    <3>2. /\ ack_fifo' \in [Pipes -> Seq(RxPackets)]
          /\ \A p \in Pipes \ {rx.pipe} : ack_fifo'[p] = fifo[p]
          /\ Len(ack_fifo'[rx.pipe]) <= Len(fifo[rx.pipe]) + 1
      BY <1>1, <1>3, <3>1, WriteReplyType
    <3> USE DEF DongleTypeOK
    <3> QED BY <1>2, <1>5, <2>1, <3>2 DEF OnBeacon
  <2>2. CASE d_state # "LISTENING"
    BY <1>1, <1>4, <1>5, <2>2 DEF OnBeacon
  <2> QED BY <2>1, <2>2
<1>6. CASE OnPairResp(rx, fifo)
  BY <1>1, <1>4, <1>6 DEF OnPairResp
<1>7. CASE OnHidReport(rx, fifo)
  BY <1>1, <1>4, <1>7 DEF OnHidReport
<1>8. CASE OnVerifyReq(rx, fifo)
  <2>1. CASE d_peer = rx.pkt.device_id
    <3>1. ack_fifo' = WriteReply(fifo, rx.pipe, Pkt("VERIFY_RESP", MyId))
      BY <1>8, <2>1 DEF OnVerifyReq
    <3> HIDE DEF DongleTypeOK
    <3>2. /\ ack_fifo' \in [Pipes -> Seq(RxPackets)]
          /\ \A p \in Pipes \ {rx.pipe} : ack_fifo'[p] = fifo[p]
          /\ Len(ack_fifo'[rx.pipe]) <= Len(fifo[rx.pipe]) + 1
      BY <1>1, <1>3, <3>1, WriteReplyType
    <3> USE DEF DongleTypeOK
    <3> QED BY <1>2, <1>8, <2>1, <3>2 DEF OnVerifyReq
  <2>2. CASE d_peer # rx.pkt.device_id
    <3>1. ack_fifo' = WriteReply(fifo, rx.pipe, Pkt("DISCONNECT", NoId))
      BY <1>8, <2>2 DEF OnVerifyReq
    <3> HIDE DEF DongleTypeOK
    <3>2. /\ ack_fifo' \in [Pipes -> Seq(RxPackets)]
          /\ \A p \in Pipes \ {rx.pipe} : ack_fifo'[p] = fifo[p]
          /\ Len(ack_fifo'[rx.pipe]) <= Len(fifo[rx.pipe]) + 1
      BY <1>1, <1>3, <3>1, WriteReplyType
    <3> USE DEF DongleTypeOK
    <3> QED BY <1>2, <1>8, <2>2, <3>2 DEF OnVerifyReq
  <2> QED BY <2>1, <2>2
<1>9. CASE OnKbDisconnect(rx, fifo)
  BY <1>1, <1>4, <1>9 DEF OnKbDisconnect
<1> QED
  BY <1>5, <1>6, <1>7, <1>8, <1>9 DEF esb_evt_handler

\* Receiving any packet keeps the invariant.
LEMMA ReceiveInv ==
    ASSUME DongleInv, NEW rx \in RxPdus, DongleReceive(rx)
    PROVE  DongleInv'
<1> DEFINE replies == RepliesAfter(rx)
           fifo    == [ack_fifo EXCEPT ![rx.pipe] = replies]
<1> USE DEF DongleInv
<1>1. rx.pipe \in Pipes
  BY DEF RxPdus
<1>2. /\ replies \in Seq(RxPackets)
      /\ AckReply(rx) # NoPkt <=> replies # <<>>
      /\ Len(replies) \in Nat
      /\ replies # <<>> <=> Len(replies) > 0
  BY AckReplyType
<1>3. Len(replies) <= 2 /\ (~IsRetransmit(rx) => Len(replies) <= 1)
  BY RepliesAfterLength
<1>4. fifo \in [Pipes -> Seq(RxPackets)] /\ fifo[rx.pipe] = replies
      /\ \A p \in Pipes \ {rx.pipe} : fifo[p] = ack_fifo[p]
  BY <1>1, <1>2 DEF DongleTypeOK
<1>5. /\ ack_payload' \in [Pipes -> BOOLEAN]
      /\ ack_payload'[rx.pipe] = (replies # <<>>)
      /\ \A p \in Pipes \ {rx.pipe} : ack_payload'[p] = ack_payload[p]
  BY <1>1, <1>2 DEF DongleReceive, DongleTypeOK
<1>6. last_rx' \in [Pipes -> RxPdus \cup {NoPkt}]
  BY <1>1 DEF DongleReceive, DongleTypeOK
<1>7. CASE IsRetransmit(rx)
  <2>1. /\ ack_fifo' = fifo
        /\ UNCHANGED <<d_state, d_peer, hid_dropped>>
    BY <1>7 DEF DongleReceive
  <2>2. DongleTypeOK'
    BY <1>4, <1>5, <1>6, <2>1 DEF DongleTypeOK
  <2>3. ReplyBacklogBounded'
    BY <1>2, <1>3, <1>4, <1>5, <2>1 DEF ReplyBacklogBounded
  <2> QED BY <2>2, <2>3
<1>8. CASE ~IsRetransmit(rx)
  <2>1. esb_evt_handler(rx, fifo)
    BY <1>8 DEF DongleReceive
  <2>2. /\ d_state' \in DongleStates
        /\ d_peer' \in KeyboardIds \cup {NoId}
        /\ hid_dropped' \in BOOLEAN
        /\ ack_fifo' \in [Pipes -> Seq(RxPackets)]
        /\ \A p \in Pipes \ {rx.pipe} : ack_fifo'[p] = fifo[p]
        /\ Len(ack_fifo'[rx.pipe]) <= Len(fifo[rx.pipe]) + 1
    BY <1>4, <2>1, HandlerType
  <2>3. DongleTypeOK'
    BY <1>5, <1>6, <2>2 DEF DongleTypeOK
  <2>4. Len(ack_fifo'[rx.pipe]) \in Nat
    BY <1>1, <2>2
  <2>5. Len(ack_fifo'[rx.pipe]) <= IF ack_payload'[rx.pipe] THEN 2 ELSE 1
    BY <1>2, <1>3, <1>4, <1>5, <1>8, <2>2, <2>4
  <2>6. ReplyBacklogBounded'
    BY <1>4, <1>5, <2>2, <2>5 DEF ReplyBacklogBounded
  <2> QED BY <2>3, <2>6
<1> QED BY <1>7, <1>8

\* A freshly booted dongle satisfies it.
LEMMA BootInv == DongleInit => DongleInv
<1> SUFFICES ASSUME DongleInit PROVE DongleInv
  OBVIOUS
<1>1. ack_fifo \in [Pipes -> Seq(RxPackets)] /\ \A p \in Pipes : Len(ack_fifo[p]) = 0
  BY DEF DongleInit
<1>2. DongleTypeOK
  BY <1>1 DEF DongleInit, DongleTypeOK, DongleStates
<1>3. ReplyBacklogBounded
  BY <1>1 DEF DongleInit, ReplyBacklogBounded
<1> QED BY <1>2, <1>3 DEF DongleInit, DongleInv

\* So does one that loses power.
LEMMA ResetInv ==
    ASSUME DongleInv, DongleReset
    PROVE  DongleInv'
<1>1. ack_fifo' \in [Pipes -> Seq(RxPackets)] /\ \A p \in Pipes : Len(ack_fifo'[p]) = 0
  BY DEF DongleReset
<1>2. DongleTypeOK'
  BY <1>1 DEF DongleReset, DongleInv, DongleTypeOK, DongleStates
<1>3. ReplyBacklogBounded'
  BY <1>1 DEF DongleReset, ReplyBacklogBounded
<1> QED BY <1>2, <1>3 DEF DongleReset, DongleInv

\* Every step keeps it.
LEMMA DongleStepInv ==
    ASSUME DongleInv, [DongleNext]_dongleVars
    PROVE  DongleInv'
<1>1. CASE UNCHANGED dongleVars
  BY <1>1
  DEF dongleVars, DongleInv, DongleTypeOK, ReplyBacklogBounded
<1> QED BY <1>1, ReceiveInv, ResetInv DEF DongleNext

\* Type correctness and the two invariants of the dongle.
THEOREM DongleInvariant == DongleSpec => []DongleInv
<1>1. DongleInv /\ [DongleNext]_dongleVars => DongleInv'
  BY DongleStepInv
<1> QED BY <1>1, BootInv, PTL DEF DongleSpec

\* However many packets keyboards send, at most two replies wait on a pipe, so
\* the unchecked esb_write_payload of main.c never fails with four slots.
THEOREM BacklogIsBounded == DongleSpec => []ReplyBacklogBounded
<1>1. DongleInv => ReplyBacklogBounded
  BY DEF DongleInv
<1> QED BY <1>1, DongleInvariant, PTL

(***************************************************************************)
(* Part 3: the link.                                                       *)
(***************************************************************************)

LinkInv == PairingInv /\ DongleInv

\* What the keyboard has on the air is something the dongle may receive.
LEMMA OnAirType ==
    ASSUME PtxTypeOK, pdu # NoPdu
    PROVE  pdu \in RxPdus
BY RxPidsAssumption DEF PtxTypeOK, Pdus, RxPdus

\* A step of the whole is a step of the keyboard or leaves it alone.
LEMMA LinkStepPairing ==
    ASSUME LinkInv, [LinkNext]_linkVars
    PROVE  [PairingNext]_pairingAllVars
<1>1. CASE AttemptAcked
  <2>1. pdu \in RxPdus
    BY <1>1, OnAirType DEF AttemptAcked, LinkInv, PairingInv, TypeOK
  <2>2. AckReply(pdu) \in RxPackets \cup {NoPkt}
    BY <2>1, AckReplyType DEF LinkInv, DongleInv
  <2>3. RadioAcked
    BY <1>1, <2>2 DEF AttemptAcked, RadioAcked
  <2> QED BY <2>3 DEF PairingNext
<1>2. CASE AttemptAckLost
  BY <1>2 DEF AttemptAckLost, pairingAllVars
<1>3. CASE GiveUp
  BY <1>3 DEF GiveUp, PairingNext
<1>4. CASE KeyboardStep /\ UNCHANGED besideKeyboard
  BY <1>4 DEF KeyboardStep, PairingNext
<1>5. CASE DongleReset /\ UNCHANGED <<pairingVars, ptxVars, faults>>
  BY <1>5 DEF pairingAllVars
<1>6. CASE UNCHANGED linkVars
  BY <1>6 DEF linkVars, pairingAllVars
<1> QED
  BY <1>1, <1>2, <1>3, <1>4, <1>5, <1>6 DEF LinkNext

\* A step of the whole is a step of the dongle or leaves it alone.
LEMMA LinkStepDongle ==
    ASSUME LinkInv, [LinkNext]_linkVars
    PROVE  [DongleNext]_dongleVars
<1>1. CASE AttemptAcked \/ AttemptAckLost
  <2>1. DongleReceive(pdu) /\ pdu # NoPdu
    BY <1>1 DEF AttemptAcked, AttemptAckLost
  <2>2. pdu \in RxPdus
    BY <2>1, OnAirType DEF LinkInv, PairingInv, TypeOK
  <2> QED BY <2>1, <2>2 DEF DongleNext
<1>2. CASE GiveUp \/ (KeyboardStep /\ UNCHANGED besideKeyboard)
  BY <1>2 DEF GiveUp, besideKeyboard
<1>3. CASE DongleReset /\ UNCHANGED <<pairingVars, ptxVars, faults>>
  BY <1>3 DEF DongleNext
<1>4. CASE UNCHANGED linkVars
  BY <1>4 DEF linkVars
<1> QED
  BY <1>1, <1>2, <1>3, <1>4 DEF LinkNext

\* Both parts keep their invariants in the composition.
LEMMA LinkInvariant == LinkSpec => []LinkInv
<1>1. LinkInit => LinkInv
  BY InitInv, BootInv DEF LinkInit, LinkInv
<1>2. LinkInv /\ [LinkNext]_linkVars => LinkInv'
  <2> SUFFICES ASSUME LinkInv, [LinkNext]_linkVars PROVE LinkInv'
    OBVIOUS
  <2>1. PairingInv'
    BY LinkStepPairing, StepInv DEF LinkInv
  <2>2. DongleInv'
    BY LinkStepDongle, DongleStepInv DEF LinkInv
  <2> QED BY <2>1, <2>2 DEF LinkInv
<1> QED BY <1>1, <1>2, PTL DEF LinkSpec

----------------------------------------------------------------------------
(* The packets between the two.                                             *)

OwnPkts == {Pkt(t, KbId) : t \in {"BEACON", "PAIR_RESP", "VERIFY_REQ"}}
               \cup {Pkt("HID_REPORT", NoId)}

OwnPdus == {p \in Pdus : p.pkt \in OwnPkts}

\* All the dongle hears is what this keyboard sends: never a DISCONNECT, never
\* another keyboard's id.
OwnTraffic == tx_fifo \in Seq(OwnPdus) /\ pdu \in OwnPdus \cup {NoPdu}

\* Replies that wait, at the dongle or in the keyboard's mailbox, are in S.
Mail(S) == rx_buf \in S \cup {NoPkt} /\ ack_fifo \in [Pipes -> Seq(S)]

\* What a packet of this keyboard may say.
LEMMA OwnFields ==
    ASSUME NEW p \in OwnPdus
    PROVE  /\ p \in Pdus /\ p \in RxPdus /\ p.pipe \in Pipes
           /\ p.pkt.type \in {"BEACON", "PAIR_RESP", "VERIFY_REQ", "HID_REPORT"}
           /\ p.pkt.type \in {"BEACON", "VERIFY_REQ"} => p.pkt.device_id = KbId
           /\ p.pkt.type = "PAIR_RESP" => p.pipe = PIPE_DATA
<1>1. p \in Pdus /\ p.pkt \in OwnPkts
  BY DEF OwnPdus
<1>2. p \in RxPdus /\ p.pipe \in Pipes /\ p.pipe = PipeOf(p.pkt)
  BY <1>1, RxPidsAssumption DEF Pdus, RxPdus
<1>3. /\ p.pkt.type \in {"BEACON", "PAIR_RESP", "VERIFY_REQ", "HID_REPORT"}
      /\ p.pkt.type \in {"BEACON", "VERIFY_REQ"} => p.pkt.device_id = KbId
  BY <1>1 DEF OwnPkts, Pkt
<1>4. p.pkt.type = "PAIR_RESP" => p.pipe = PIPE_DATA
  BY <1>2 DEF PipeOf
<1> QED
  BY <1>1, <1>2, <1>3, <1>4

\* esb_transport_send appends one packet, after a flush if the FIFO was full.
LEMMA SendAppends ==
    ASSUME PtxTypeOK, OwnTraffic, NEW pkt \in OwnPkts, esb_transport_send(pkt)
    PROVE  \E new \in OwnPdus :
               /\ new.pkt = pkt
               /\ tx_fifo' = Append(IF esb_tx_full THEN <<>> ELSE tx_fifo, new)
               /\ pdu' = IF pdu = NoPdu THEN Head(tx_fifo') ELSE pdu
<1> DEFINE pipe == PipeOf(pkt)
           pid  == NextPid(pipe)
           new  == [pipe |-> pipe, pid |-> pid, pkt |-> pkt]
<1>1. pkt \in TxPackets
  BY OwnPackets DEF OwnPkts
<1>2. pipe \in Pipes
  BY <1>1, PipeOfType
<1>3. pid \in 0..(PidCount - 1)
  <2>1. pids[pipe] \in 0..(PidCount - 1)
    BY <1>2 DEF PtxTypeOK
  <2> QED
    BY <2>1, PidType DEF NextPid
<1>4. new \in OwnPdus /\ new.pkt = pkt
  BY <1>1, <1>2, <1>3 DEF OwnPdus, Pdus
<1>5. /\ tx_fifo' = Append(IF esb_tx_full THEN <<>> ELSE tx_fifo, new)
      /\ pdu' = IF pdu = NoPdu THEN Head(tx_fifo') ELSE pdu
  BY DEF esb_transport_send, WriteOnto, start_tx_transaction
<1> HIDE DEF new
<1> QED
  BY <1>4, <1>5

\* What the keyboard does to its engine in a step of its own.
LEMMA KeyboardSends ==
    ASSUME KeyboardStep
    PROVE  \/ UNCHANGED ptxVars
           \/ esb_disable
           \/ \E pkt \in OwnPkts : esb_transport_send(pkt)
<1>1. /\ \A t \in {"BEACON", "PAIR_RESP", "VERIFY_REQ"} : Pkt(t, KbId) \in OwnPkts
      /\ Pkt("HID_REPORT", NoId) \in OwnPkts
  BY DEF OwnPkts
<1>2. CASE beacon_work_fn
  BY <1>1, <1>2 DEF beacon_work_fn
<1>3. CASE verify_work_fn
  BY <1>1, <1>3 DEF verify_work_fn
<1>4. CASE rx_work_fn
  BY <1>1, <1>4 DEF rx_work_fn, OnPairReq, OnVerifyResp, OnDisconnect, OnResync,
      OnIgnored
<1>5. CASE SavePair \/ SaveDisconnect \/ SaveUnpair \/ pairing_unpair
  BY <1>5 DEF SavePair, SaveDisconnect, SaveUnpair, pairing_unpair
<1>8. CASE cmd_esb_unpair \/ Shell
  BY <1>8 DEF cmd_esb_unpair, Shell, ShellForget, ShellSave, ShellCheck, ShellUnpaired,
              ShellBeacon, ShellStep
<1>6. CASE Activate \/ Deactivate \/ PowerCycle
  BY <1>6 DEF Activate, Deactivate, PowerCycle
<1>7. CASE SendHid
  BY <1>1, <1>7 DEF SendHid
<1> QED
  BY <1>2, <1>3, <1>4, <1>5, <1>6, <1>7, <1>8 DEF KeyboardStep

\* The traffic stays the keyboard's own.
LEMMA StepOwn ==
    ASSUME LinkInv, OwnTraffic, [LinkNext]_linkVars
    PROVE  OwnTraffic'
<1>0. PtxTypeOK
  BY DEF LinkInv, PairingInv, TypeOK
<1>1. CASE UNCHANGED ptxVars
  BY <1>1 DEF ptxVars, OwnTraffic
<1>2. CASE esb_disable
  BY <1>2 DEF esb_disable, OwnTraffic
<1>3. ASSUME NEW pkt \in OwnPkts, esb_transport_send(pkt) PROVE OwnTraffic'
  <2> DEFINE fifo == IF esb_tx_full THEN <<>> ELSE tx_fifo
  <2>1. PICK new \in OwnPdus : /\ tx_fifo' = Append(fifo, new)
                               /\ pdu' = IF pdu = NoPdu THEN Head(tx_fifo') ELSE pdu
    BY <1>0, <1>3, SendAppends
  <2>2. fifo \in Seq(OwnPdus)
    BY DEF OwnTraffic
  <2> HIDE DEF fifo
  <2>3. tx_fifo' \in Seq(OwnPdus) /\ Len(tx_fifo') > 0
    BY <2>1, <2>2
  <2>4. Head(tx_fifo') \in OwnPdus
    BY <2>3
  <2> QED
    BY <2>1, <2>3, <2>4 DEF OwnTraffic
<1>4. CASE TxAcked
  <2>1. tx_fifo' \in Seq(OwnPdus)
    BY <1>4 DEF TxAcked, tx_fifo_remove_last, OwnTraffic
  <2>2. tx_fifo' # <<>> => Head(tx_fifo') \in OwnPdus
    BY <2>1
  <2> QED
    BY <1>4, <2>1, <2>2 DEF TxAcked, start_tx_transaction, OwnTraffic
<1>5. CASE TxFailed
  BY <1>5 DEF TxFailed, OwnTraffic
<1> QED
  BY <1>1, <1>2, <1>3, <1>4, <1>5, KeyboardSends
  DEF LinkNext, AttemptAcked, AttemptAckLost, GiveUp, RadioFailed, linkVars

\* Replies the dongle's handler may append to a packet it has not seen before.
MayReply(rx, S) ==
    ~IsRetransmit(rx) =>
        /\ rx.pkt.type = "BEACON" /\ d_state = "LISTENING" => Pkt("PAIR_REQ", MyId) \in S
        /\ rx.pkt.type = "VERIFY_REQ" =>
              IF d_peer = rx.pkt.device_id THEN Pkt("VERIFY_RESP", MyId) \in S
                                           ELSE Pkt("DISCONNECT", NoId) \in S

\* The engine's part and the handler's part of the reply queues.
LEMMA MailKept ==
    ASSUME DongleTypeOK, NEW rx \in RxPdus, DongleReceive(rx),
           NEW S, ack_fifo \in [Pipes -> Seq(S)], MayReply(rx, S)
    PROVE  ack_fifo' \in [Pipes -> Seq(S)] /\ AckReply(rx) \in S \cup {NoPkt}
<1> DEFINE replies == RepliesAfter(rx)
           fifo    == [ack_fifo EXCEPT ![rx.pipe] = replies]
<1>1. rx.pipe \in Pipes
  BY DEF RxPdus
<1>2. ack_fifo[rx.pipe] \in Seq(S)
  BY <1>1
<1>3. replies \in Seq(S)
  BY <1>2 DEF RepliesAfter
<1>4. AckReply(rx) \in S \cup {NoPkt}
  <2>1. replies # <<>> => Head(replies) \in S
    BY <1>3
  <2> QED
    BY <2>1 DEF AckReply
<1>5. fifo \in [Pipes -> Seq(S)]
  BY <1>1, <1>3
<1>6. ASSUME NEW reply \in S PROVE WriteReply(fifo, rx.pipe, reply) \in [Pipes -> Seq(S)]
  <2> HIDE DEF fifo
  <2>1. Append(fifo[rx.pipe], reply) \in Seq(S)
    BY <1>1, <1>5
  <2> QED
    BY <1>1, <1>5, <2>1 DEF WriteReply
<1>7. CASE IsRetransmit(rx)
  BY <1>4, <1>5, <1>7 DEF DongleReceive
<1>8. CASE ~IsRetransmit(rx)
  <2>1. esb_evt_handler(rx, fifo)
    BY <1>8 DEF DongleReceive
  <2> HIDE DEF fifo
  <2>2. ack_fifo' \in [Pipes -> Seq(S)]
    BY <1>5, <1>6, <1>8, <2>1
    DEF esb_evt_handler, OnBeacon, OnPairResp, OnHidReport, OnVerifyReq,
        OnKbDisconnect, MayReply
  <2> QED
    BY <1>4, <2>2
<1> QED
  BY <1>7, <1>8

\* What a packet of this keyboard does to the dongle.
LEMMA OwnHandled ==
    ASSUME NEW rx \in OwnPdus, DongleReceive(rx)
    PROVE  /\ d_peer' \in {KbId, d_peer}
           /\ d_state' = "LISTENING" => d_state = "LISTENING"
           /\ d_state \in {"CONNECTED", "VERIFYING"} => d_state' \in {"CONNECTED", "VERIFYING"}
           /\ hid_dropped' => \/ hid_dropped
                              \/ /\ rx.pkt.type = "HID_REPORT"
                                 /\ d_state \notin {"CONNECTED", "VERIFYING"}
           /\ ~IsRetransmit(rx) =>
                 /\ rx.pkt.type = "BEACON" /\ d_state = "LISTENING"
                       => d_peer' = KbId /\ d_state' = "PAIRING"
                 /\ rx.pkt.type = "VERIFY_REQ" /\ d_peer = rx.pkt.device_id
                       => d_peer = KbId /\ d_state' = "VERIFYING"
                 /\ rx.pkt.type = "PAIR_RESP" /\ d_state = "PAIRING" => d_state' = "CONNECTED"
<1>1. /\ rx.pkt.type \in {"BEACON", "PAIR_RESP", "VERIFY_REQ", "HID_REPORT"}
      /\ rx.pkt.type \in {"BEACON", "VERIFY_REQ"} => rx.pkt.device_id = KbId
  BY OwnFields
<1>2. CASE IsRetransmit(rx)
  BY <1>2 DEF DongleReceive
<1>3. CASE ~IsRetransmit(rx)
  <2>1. PICK fifo : esb_evt_handler(rx, fifo)
    BY <1>3 DEF DongleReceive
  <2>2. hid_dropped' => \/ hid_dropped
                        \/ /\ rx.pkt.type = "HID_REPORT"
                           /\ d_state \notin {"CONNECTED", "VERIFYING"}
    <3>1. CASE OnHidReport(rx, fifo)
      BY <3>1 DEF OnHidReport
    <3>2. CASE ~OnHidReport(rx, fifo)
      <4>1. hid_dropped' = hid_dropped
        BY <2>1, <3>2 DEF esb_evt_handler, OnBeacon, OnPairResp, OnVerifyReq,
            OnKbDisconnect
      <4> QED
        BY <4>1
    <3> QED
      BY <3>1, <3>2
  <2>3. /\ d_peer' \in {KbId, d_peer}
        /\ d_state' = "LISTENING" => d_state = "LISTENING"
        /\ d_state \in {"CONNECTED", "VERIFYING"} => d_state' \in {"CONNECTED", "VERIFYING"}
    BY <1>1, <2>1
    DEF esb_evt_handler, OnBeacon, OnPairResp, OnHidReport, OnVerifyReq, OnKbDisconnect
  <2>4. /\ rx.pkt.type = "BEACON" /\ d_state = "LISTENING"
              => d_peer' = KbId /\ d_state' = "PAIRING"
        /\ rx.pkt.type = "VERIFY_REQ" /\ d_peer = rx.pkt.device_id
              => d_peer = KbId /\ d_state' = "VERIFYING"
        /\ rx.pkt.type = "PAIR_RESP" /\ d_state = "PAIRING" => d_state' = "CONNECTED"
    BY <1>1, <2>1
    DEF esb_evt_handler, OnBeacon, OnPairResp, OnHidReport, OnVerifyReq, OnKbDisconnect
  <2> QED
    BY <2>2, <2>3, <2>4
<1> QED
  BY <1>2, <1>3

----------------------------------------------------------------------------
(* A stored peer knows us.                                                  *)

\* Replies that do not carry this dongle's id.
Strange == {r \in RxPackets : r.device_id # MyId}

\* A dongle that keeps power and has not met this keyboard has left no trace:
\* not in the keyboard's flash, not in its RAM, not in any packet under way.
NoTrace ==
    /\ record.device_id # MyId
    /\ rec.device_id # MyId
    /\ m_peer_device_id # MyId
    /\ Mail(Strange)

Acquainted == "dongle_reset" \notin faults /\ d_peer # KbId => NoTrace

\* What the keyboard knows comes from its RAM, its flash or its mailbox.
LEMMA KeyboardPeers ==
    ASSUME TypeOK, KeyboardStep
    PROVE  /\ record'.device_id \in {record.device_id, rec.device_id, NoId}
           /\ \/ rec'.device_id \in {rec.device_id, NoId}
              \/ rx_buf # NoPkt /\ rec'.device_id = rx_buf.device_id
           /\ \/ m_peer_device_id' \in {m_peer_device_id, record.device_id, NoId}
              \/ rx_buf # NoPkt /\ m_peer_device_id' = rx_buf.device_id
           /\ rx_buf' \in {rx_buf, NoPkt}
<1>1. CASE beacon_work_fn \/ verify_work_fn \/ SendHid
  BY <1>1 DEF beacon_work_fn, verify_work_fn, SendHid, peerVars, handlerVars,
      pairingVars
<1>2. CASE rx_work_fn
  BY <1>2 DEF rx_work_fn, OnPairReq, OnVerifyResp, OnDisconnect, OnResync, OnIgnored,
      peerVars,
              handlerVars, forget_peer, save_paired, SavedRecord, PairedWith, Unpaired
<1>3. CASE SavePair \/ SaveDisconnect \/ SaveUnpair
  BY <1>3 DEF SavePair, SaveDisconnect, SaveUnpair, SaveDone, peerVars, Unpaired
<1>4. CASE Activate \/ Deactivate \/ pairing_unpair \/ PowerCycle
  BY <1>4 DEF Activate, Deactivate, pairing_unpair, PowerCycle, peerVars, handlerVars,
              forget_peer, settings_load_cb, save_paired, SavedRecord, Unpaired
<1>5. CASE cmd_esb_unpair \/ Shell
  BY <1>5 DEF cmd_esb_unpair, Shell, ShellForget, ShellSave, ShellCheck, ShellUnpaired,
              ShellBeacon, ShellStep, peerVars, handlerVars, SavedRecord, Unpaired
<1> QED
  BY <1>1, <1>2, <1>3, <1>4, <1>5 DEF KeyboardStep

\* Every step keeps it.
LEMMA StepAcquainted ==
    ASSUME LinkInv, OwnTraffic, Acquainted, [LinkNext]_linkVars
    PROVE  Acquainted'
<1> SUFFICES ASSUME "dongle_reset" \notin faults', d_peer' # KbId PROVE NoTrace'
  BY DEF Acquainted
<1>0. faults' = faults
  BY DEF LinkNext, AttemptAcked, AttemptAckLost, GiveUp, besideKeyboard, linkVars
<1>t. TypeOK /\ DongleTypeOK /\ NoId # MyId
  BY NoIdAssumption, MyIdAssumption DEF LinkInv, PairingInv, DongleInv
<1>1. ASSUME pdu # NoPdu, DongleReceive(pdu)
      PROVE  NoTrace /\ ack_fifo' \in [Pipes -> Seq(Strange)]
                     /\ AckReply(pdu) \in Strange \cup {NoPkt}
  <2>1. pdu \in OwnPdus /\ pdu \in RxPdus
    BY <1>1, OwnFields DEF OwnTraffic
  <2>2. d_peer # KbId
    BY <1>1, <2>1, OwnHandled
  <2>3. NoTrace
    BY <1>0, <2>2 DEF Acquainted
  <2>4. MayReply(pdu, Strange)
    <3>1. Pkt("DISCONNECT", NoId) \in Strange
      BY <1>t DEF Strange, RxPackets, Pkt
    <3> QED
      BY <1>1, <2>1, <2>2, <3>1, OwnHandled DEF MayReply
  <2> QED
    BY <1>1, <1>t, <2>1, <2>3, <2>4, MailKept DEF NoTrace, Mail
<1>2. CASE AttemptAcked
  <2>1. UNCHANGED <<record, rec, m_peer_device_id>>
    BY <1>2 DEF AttemptAcked, peerVars, handlerVars
  <2>2. rx_buf' \in {rx_buf, AckReply(pdu)}
    BY <1>2 DEF AttemptAcked, DeliverAckPayload
  <2>3. pdu # NoPdu /\ DongleReceive(pdu)
    BY <1>2 DEF AttemptAcked
  <2> QED
    BY <1>1, <2>1, <2>2, <2>3 DEF NoTrace, Mail
<1>3. CASE AttemptAckLost
  <2>1. UNCHANGED <<record, rec, m_peer_device_id, rx_buf>>
    BY <1>3 DEF AttemptAckLost, pairingVars
  <2>2. pdu # NoPdu /\ DongleReceive(pdu)
    BY <1>3 DEF AttemptAckLost
  <2> QED
    BY <1>1, <2>1, <2>2 DEF NoTrace, Mail
<1>4. CASE GiveUp \/ UNCHANGED linkVars
  <2>1. UNCHANGED <<record, rec, m_peer_device_id, rx_buf, ack_fifo, d_peer>>
    BY <1>4 DEF GiveUp, RadioFailed, pairingVars, besideKeyboard, dongleVars, linkVars
  <2> QED
    BY <1>0, <2>1 DEF Acquainted, NoTrace, Mail
<1>5. CASE KeyboardStep /\ UNCHANGED besideKeyboard
  <2>1. UNCHANGED <<ack_fifo, d_peer>>
    BY <1>5 DEF besideKeyboard, dongleVars
  <2>2. NoTrace
    BY <1>0, <2>1 DEF Acquainted
  <2>3. rx_buf # NoPkt => rx_buf.device_id # MyId
    BY <2>2 DEF NoTrace, Mail, Strange
  <2> QED
    BY <1>5, <1>t, <2>1, <2>2, <2>3, KeyboardPeers DEF NoTrace, Mail
<1> QED
  BY <1>0, <1>2, <1>3, <1>4, <1>5 DEF LinkNext

\* All that holds of the link in every scenario.
LEMMA LinkTraffic == LinkSpec => [](LinkInv /\ OwnTraffic)
<1>1. LinkInit => OwnTraffic
  BY DEF LinkInit, PairingInit, PtxInit, OwnTraffic
<1>2. LinkInv /\ OwnTraffic /\ [LinkNext]_linkVars => OwnTraffic'
  BY StepOwn
<1> QED
  BY <1>1, <1>2, LinkInvariant, PTL DEF LinkSpec

\* As long as the dongle keeps power, a keyboard with this dongle on record is
\* the keyboard this dongle accepts (pairing_on_rx, save_paired,
\* esb_evt_handler), whatever was lost, cut or unpaired, provided the record
\* the keyboard came with is not of an earlier life of this dongle.
THEOREM StoredPeerAcceptsUs ==
    ASSUME MyId \notin InitPeers
    PROVE  LinkSpec => []StoredPeerKnowsUs
<1>1. LinkInit => Acquainted
  <2> SUFFICES ASSUME LinkInit PROVE NoTrace
    BY DEF Acquainted
  <2>1. record.device_id # MyId
    <3>1. record = Unpaired \/ \E d \in InitPeers : record = PairedWith(d)
      BY DEF LinkInit
    <3> QED
      BY <3>1, NoIdAssumption, MyIdAssumption DEF Unpaired, PairedWith
  <2>2. m_peer_device_id # MyId /\ rec.device_id # MyId /\ rx_buf = NoPkt
    BY <2>1, NoIdAssumption, MyIdAssumption DEF LinkInit, PairingInit, Unpaired
  <2>3. ack_fifo \in [Pipes -> Seq(Strange)]
    BY DEF LinkInit, DongleInit
  <2> QED
    BY <2>1, <2>2, <2>3 DEF NoTrace, Mail
<1>2. LinkInv /\ OwnTraffic /\ Acquainted /\ [LinkNext]_linkVars => Acquainted'
  BY StepAcquainted
<1>3. Acquainted => StoredPeerKnowsUs
  BY DEF Acquainted, NoTrace, StoredPeerKnowsUs, PairedWith
<1> QED
  BY <1>1, <1>2, <1>3, LinkTraffic, PTL DEF LinkSpec

----------------------------------------------------------------------------
(* No report is dropped.                                                    *)

\* The dongle forwards reports.
Ready == d_state \in {"CONNECTED", "VERIFYING"}

Without(type) == {r \in RxPackets : r.type # type}

\* A PAIR_RESP is queued, and every report is queued behind one.
Answers(fifo) == \E m \in 1..Len(fifo) : fifo[m].pkt.type = "PAIR_RESP"
HidBehind(fifo) ==
    \A n \in 1..Len(fifo) : fifo[n].pkt.type = "HID_REPORT"
        => \E m \in 1..(n - 1) : fifo[m].pkt.type = "PAIR_RESP"

\* The radio sends the front of the FIFO.
FrontOnAir == pdu = IF tx_fifo = <<>> THEN NoPdu ELSE Head(tx_fifo)

\* A dongle that listens has asked nobody to pair.
AskedNobody == Mail(Without("PAIR_REQ")) /\ ~Answers(tx_fifo)

\* A dongle that is not ready has verified nobody and has not heard a PAIR_RESP;
\* one is under way before any report, if the keyboard takes itself for
\* connected over an active slot.
AnswerUnderWay ==
    /\ HidBehind(tx_fifo)
    /\ m_state = "CONNECTED" /\ esb_active => Answers(tx_fifo)

NotAnswered ==
    /\ Mail(Without("VERIFY_RESP"))
    /\ \A rx \in OwnPdus : rx.pkt.type = "PAIR_RESP" => last_rx[PIPE_DATA] # rx

CalmInv ==
    /\ FrontOnAir
    /\ d_state = "LISTENING" => AskedNobody
    /\ ~Ready => AnswerUnderWay /\ NotAnswered

\* An empty FIFO holds neither answers nor reports.
LEMMA EmptyFifo == ~Answers(<<>>) /\ HidBehind(<<>>)
BY DEF Answers, HidBehind

\* A packet more at the end.
LEMMA FifoGrows ==
    ASSUME NEW fifo \in Seq(OwnPdus), NEW new \in OwnPdus
    PROVE  /\ Answers(Append(fifo, new)) <=> Answers(fifo) \/ new.pkt.type = "PAIR_RESP"
           /\ HidBehind(fifo) /\ (new.pkt.type = "HID_REPORT" => Answers(fifo))
                => HidBehind(Append(fifo, new))
           /\ Append(fifo, new) # <<>>
           /\ fifo # <<>> => Head(Append(fifo, new)) = Head(fifo)
<1> DEFINE t == Append(fifo, new)
           k == Len(fifo)
<1>1. /\ t \in Seq(OwnPdus) /\ Len(t) = k + 1 /\ t[k + 1] = new /\ k \in Nat
      /\ \A n \in 1..k : t[n] = fifo[n]
  BY AppendProperties
<1>2. t # <<>> /\ (fifo # <<>> => Head(t) = Head(fifo))
  <2>1. fifo # <<>> => 1 \in 1..k
    OBVIOUS
  <2> HIDE DEF t
  <2> QED
    BY <1>1, <2>1
<1> HIDE DEF t
<1>3. \A n \in 1..Len(t) : n \in 1..k \/ n = k + 1
  BY <1>1
<1>4. (\A n \in 1..k : n \in 1..Len(t)) /\ k + 1 \in 1..Len(t)
  BY <1>1
<1>5. Answers(t) <=> Answers(fifo) \/ new.pkt.type = "PAIR_RESP"
  BY <1>1, <1>3, <1>4 DEF Answers
<1>6. ASSUME HidBehind(fifo), new.pkt.type = "HID_REPORT" => Answers(fifo)
      PROVE  HidBehind(t)
  <2> SUFFICES ASSUME NEW n \in 1..Len(t), t[n].pkt.type = "HID_REPORT"
               PROVE  \E m \in 1..(n - 1) : t[m].pkt.type = "PAIR_RESP"
    BY DEF HidBehind
  <2>1. CASE n \in 1..k
    <3>1. PICK m \in 1..(n - 1) : fifo[m].pkt.type = "PAIR_RESP"
      BY <1>1, <1>6, <2>1 DEF HidBehind
    <3>2. m \in 1..k
      BY <1>1, <2>1
    <3> QED
      BY <1>1, <3>1, <3>2
  <2>2. CASE n = k + 1
    <3>1. PICK m \in 1..k : fifo[m].pkt.type = "PAIR_RESP"
      BY <1>1, <1>6, <2>2 DEF Answers
    <3>2. m \in 1..(n - 1)
      BY <1>1, <2>2
    <3> QED
      BY <1>1, <3>1, <3>2
  <2> QED
    BY <1>3, <2>1, <2>2
<1> QED
  BY <1>2, <1>5, <1>6 DEF t

\* The front packet leaves.
LEMMA FifoShrinks ==
    ASSUME NEW fifo \in Seq(OwnPdus), fifo # <<>>
    PROVE  /\ Answers(Tail(fifo)) => Answers(fifo)
           /\ Head(fifo).pkt.type = "PAIR_RESP" => Answers(fifo)
           /\ Head(fifo).pkt.type # "PAIR_RESP" =>
                 /\ Answers(fifo) => Answers(Tail(fifo))
                 /\ HidBehind(fifo) => HidBehind(Tail(fifo))
           /\ HidBehind(fifo) => Head(fifo).pkt.type # "HID_REPORT"
<1> DEFINE t == Tail(fifo)
           k == Len(fifo)
<1>1. /\ t \in Seq(OwnPdus) /\ Len(t) = k - 1 /\ k \in Nat \ {0}
      /\ Head(fifo) = fifo[1]
      /\ \A n \in 1..(k - 1) : t[n] = fifo[n + 1]
  BY HeadTailProperties, EmptySeq
<1> HIDE DEF t
<1>2. 1 \in 1..k /\ \A m \in 1..(k - 1) : m + 1 \in 1..k
  BY <1>1
<1>3. \A m \in 1..k : m = 1 \/ (m - 1 \in 1..(k - 1) /\ (m - 1) + 1 = m)
  BY <1>1
<1>4. Answers(t) => Answers(fifo)
  BY <1>1, <1>2 DEF Answers
<1>5. Head(fifo).pkt.type = "PAIR_RESP" => Answers(fifo)
  BY <1>1, <1>2 DEF Answers
<1>6. ASSUME Head(fifo).pkt.type # "PAIR_RESP", Answers(fifo) PROVE Answers(t)
  <2>1. PICK m \in 1..k : fifo[m].pkt.type = "PAIR_RESP"
    BY <1>6 DEF Answers
  <2>2. m # 1
    BY <1>1, <1>6, <2>1
  <2>3. m - 1 \in 1..(k - 1) /\ t[m - 1] = fifo[m]
    BY <1>1, <1>3, <2>2
  <2> QED
    BY <1>1, <2>1, <2>3 DEF Answers
<1>7. ASSUME Head(fifo).pkt.type # "PAIR_RESP", HidBehind(fifo) PROVE HidBehind(t)
  <2> SUFFICES ASSUME NEW n \in 1..(k - 1), t[n].pkt.type = "HID_REPORT"
               PROVE  \E m \in 1..(n - 1) : t[m].pkt.type = "PAIR_RESP"
    BY <1>1 DEF HidBehind
  <2>1. n + 1 \in 1..k /\ (n + 1) - 1 = n
    BY <1>1
  <2>2. PICK m \in 1..n : fifo[m].pkt.type = "PAIR_RESP"
    BY <1>1, <1>7, <2>1 DEF HidBehind
  <2>3. m # 1
    BY <1>1, <1>7, <2>2
  <2>4. m - 1 \in 1..(n - 1) /\ m - 1 \in 1..(k - 1) /\ (m - 1) + 1 = m
    BY <1>1, <2>3
  <2> QED
    BY <1>1, <2>2, <2>4
<1>8. HidBehind(fifo) => Head(fifo).pkt.type # "HID_REPORT"
  <2>1. ~\E m \in 1..(1 - 1) : fifo[m].pkt.type = "PAIR_RESP"
    OBVIOUS
  <2> QED
    BY <1>1, <1>2, <2>1 DEF HidBehind
<1> QED
  BY <1>4, <1>5, <1>6, <1>7, <1>8 DEF t

\* A step of the dongle: what is on the air is the front of the FIFO, so the
\* first report to arrive finds PAIR_RESP answered before it.
LEMMA AckedCalm ==
    ASSUME LinkInv, OwnTraffic, CalmInv, AttemptAcked
    PROVE  CalmInv' /\ (hid_dropped' => hid_dropped)
<1>t. DongleTypeOK /\ tx_fifo \in Seq(OwnPdus)
  BY DEF LinkInv, DongleInv, OwnTraffic
<1>1. /\ pdu # NoPdu /\ DongleReceive(pdu) /\ TxAcked
      /\ m_state' = m_state /\ esb_active' = esb_active
      /\ rx_buf' \in {rx_buf, AckReply(pdu)}
  BY DEF AttemptAcked, DeliverAckPayload
<1>2. tx_fifo # <<>> /\ pdu = Head(tx_fifo)
  BY <1>1 DEF CalmInv, FrontOnAir
<1>3. pdu \in OwnPdus /\ pdu \in RxPdus /\ pdu.pipe \in Pipes
      /\ (pdu.pkt.type = "PAIR_RESP" => pdu.pipe = PIPE_DATA)
  BY <1>1, OwnFields DEF OwnTraffic
<1>4. tx_fifo' = Tail(tx_fifo) /\ FrontOnAir'
  BY <1>1, <1>2 DEF TxAcked, tx_fifo_remove_last, start_tx_transaction, FrontOnAir
<1>5. /\ Ready => Ready'
      /\ d_state' = "LISTENING" => d_state = "LISTENING"
  BY <1>1, <1>3, OwnHandled DEF Ready
<1>6. hid_dropped' => hid_dropped
  <2>1. ~Ready => pdu.pkt.type # "HID_REPORT"
    BY <1>t, <1>2, FifoShrinks DEF CalmInv, AnswerUnderWay
  <2> QED
    BY <1>1, <1>3, <2>1, OwnHandled DEF Ready
<1>7. ASSUME d_state' = "LISTENING" PROVE AskedNobody'
  <2>1. AskedNobody
    BY <1>5, <1>7 DEF CalmInv
  <2>2. ~Answers(tx_fifo')
    BY <1>t, <1>2, <1>4, <2>1, FifoShrinks DEF AskedNobody
  <2> DEFINE S == Without("PAIR_REQ")
  <2>3. MayReply(pdu, S)
    <3>1. Pkt("DISCONNECT", NoId) \in S /\ Pkt("VERIFY_RESP", MyId) \in S
      BY MyIdAssumption DEF Without, RxPackets, Pkt
    <3> QED
      BY <1>1, <1>3, <1>7, <3>1, OwnHandled DEF MayReply
  <2> HIDE DEF S
  <2>4. ack_fifo' \in [Pipes -> Seq(S)] /\ AckReply(pdu) \in S \cup {NoPkt}
    BY <1>t, <1>1, <1>3, <2>1, <2>3, MailKept DEF AskedNobody, Mail, S
  <2> QED
    BY <1>1, <2>1, <2>2, <2>4 DEF AskedNobody, Mail, S
<1>8. ASSUME ~Ready' PROVE AnswerUnderWay' /\ NotAnswered'
  <2>1. ~Ready /\ AnswerUnderWay /\ NotAnswered
    BY <1>5, <1>8 DEF CalmInv
  <2>2. pdu.pkt.type # "PAIR_RESP"
    <3> SUFFICES ASSUME pdu.pkt.type = "PAIR_RESP" PROVE FALSE
      OBVIOUS
    <3>1. ~IsRetransmit(pdu)
      BY <1>3, <2>1 DEF NotAnswered, IsRetransmit
    <3>2. d_state # "LISTENING"
      BY <1>t, <1>2, FifoShrinks DEF CalmInv, AskedNobody
    <3>3. d_state = "PAIRING"
      BY <1>t, <2>1, <3>2 DEF DongleTypeOK, DongleStates, Ready
    <3> QED
      BY <1>1, <1>3, <1>8, <3>1, <3>3, OwnHandled DEF Ready
  <2>3. AnswerUnderWay'
    BY <1>t, <1>1, <1>2, <1>4, <2>1, <2>2, FifoShrinks DEF AnswerUnderWay
  <2> DEFINE S == Without("VERIFY_RESP")
  <2>4. MayReply(pdu, S)
    <3>1. Pkt("DISCONNECT", NoId) \in S /\ Pkt("PAIR_REQ", MyId) \in S
      BY MyIdAssumption DEF Without, RxPackets, Pkt
    <3>2. ~IsRetransmit(pdu) /\ pdu.pkt.type = "VERIFY_REQ" => d_peer # pdu.pkt.device_id
      BY <1>1, <1>3, <1>8, OwnHandled DEF Ready
    <3> QED
      BY <3>1, <3>2 DEF MayReply
  <2> HIDE DEF S
  <2>5. ack_fifo' \in [Pipes -> Seq(S)] /\ AckReply(pdu) \in S \cup {NoPkt}
    BY <1>t, <1>1, <1>3, <2>1, <2>4, MailKept DEF NotAnswered, Mail, S
  <2>6. Mail(Without("VERIFY_RESP"))'
    BY <1>1, <2>1, <2>5 DEF NotAnswered, Mail, S, Without
  <2>7. last_rx'[PIPE_DATA] \in {last_rx[PIPE_DATA], pdu}
    BY <1>1, <1>t DEF DongleReceive, DongleTypeOK, Pipes
  <2> QED
    BY <2>1, <2>2, <2>3, <2>6, <2>7 DEF NotAnswered
<1> QED
  BY <1>4, <1>6, <1>7, <1>8 DEF CalmInv

\* A step of the keyboard that sends nothing and receives nothing new.
LEMMA SilentCalm ==
    ASSUME CalmInv, UNCHANGED <<tx_fifo, pdu, d_state, last_rx, ack_fifo, esb_active>>,
           rx_buf' \in {rx_buf, NoPkt},
           m_state' = "CONNECTED" => m_state = "CONNECTED" \/ Ready \/ ~esb_active
    PROVE  CalmInv'
<1>1. FrontOnAir' /\ (Ready' <=> Ready) /\ d_state' = d_state
  BY DEF CalmInv, FrontOnAir, Ready
<1>2. AskedNobody => AskedNobody'
  BY DEF AskedNobody, Mail, Answers, Without
<1>3. ~Ready /\ AnswerUnderWay => AnswerUnderWay'
  BY DEF AnswerUnderWay, HidBehind, Answers
<1>4. NotAnswered => NotAnswered'
  BY DEF NotAnswered, Mail, Without
<1> QED
  BY <1>1, <1>2, <1>3, <1>4 DEF CalmInv

\* The engine is switched off.
LEMMA DisableCalm ==
    ASSUME CalmInv, esb_disable, UNCHANGED <<d_state, last_rx, ack_fifo>>,
           rx_buf' \in {rx_buf, NoPkt}, m_state' # "CONNECTED"
    PROVE  CalmInv'
<1>0. tx_fifo' = <<>> /\ pdu' = NoPdu
  BY DEF esb_disable
<1>1. FrontOnAir' /\ (Ready' <=> Ready) /\ d_state' = d_state
  BY <1>0 DEF FrontOnAir, Ready
<1>2. AskedNobody => AskedNobody'
  BY <1>0, EmptyFifo DEF AskedNobody, Mail, Without
<1>3. AnswerUnderWay'
  BY <1>0, EmptyFifo DEF AnswerUnderWay
<1>4. NotAnswered => NotAnswered'
  BY DEF NotAnswered, Mail, Without
<1> QED
  BY <1>1, <1>2, <1>3, <1>4 DEF CalmInv

\* A packet is queued, into a FIFO that is not full: nothing is flushed.
LEMMA SendCalm ==
    ASSUME LinkInv, OwnTraffic, CalmInv, NEW pkt \in OwnPkts, esb_transport_send(pkt),
           ~esb_tx_full, UNCHANGED <<d_state, last_rx, ack_fifo, esb_active>>,
           rx_buf' \in {rx_buf, NoPkt},
           pkt.type = "PAIR_RESP" => d_state # "LISTENING",
           pkt.type = "HID_REPORT" => m_state = "CONNECTED" /\ esb_active,
           m_state' = "CONNECTED" => m_state = "CONNECTED" \/ pkt.type = "PAIR_RESP"
    PROVE  CalmInv'
<1>t. PtxTypeOK /\ tx_fifo \in Seq(OwnPdus)
  BY DEF LinkInv, PairingInv, TypeOK, OwnTraffic
<1>0. PICK new \in OwnPdus :
         /\ new.pkt = pkt
         /\ tx_fifo' = Append(tx_fifo, new)
         /\ pdu' = IF pdu = NoPdu THEN Head(tx_fifo') ELSE pdu
  BY <1>t, SendAppends
<1>1. /\ Answers(tx_fifo') <=> Answers(tx_fifo) \/ pkt.type = "PAIR_RESP"
      /\ HidBehind(tx_fifo) /\ (pkt.type = "HID_REPORT" => Answers(tx_fifo))
           => HidBehind(tx_fifo')
      /\ tx_fifo' # <<>>
      /\ tx_fifo # <<>> => Head(tx_fifo') = Head(tx_fifo)
  BY <1>t, <1>0, FifoGrows
<1>2. FrontOnAir' /\ (Ready' <=> Ready) /\ d_state' = d_state
  BY <1>0, <1>1 DEF CalmInv, FrontOnAir, Ready
<1>3. d_state = "LISTENING" /\ AskedNobody => AskedNobody'
  BY <1>1 DEF AskedNobody, Mail, Without
<1>4. AnswerUnderWay => AnswerUnderWay'
  BY <1>1 DEF AnswerUnderWay
<1>5. NotAnswered => NotAnswered'
  BY DEF NotAnswered, Mail, Without
<1> QED
  BY <1>2, <1>3, <1>4, <1>5 DEF CalmInv

\* Every step of the keyboard.
LEMMA KeyboardCalm ==
    ASSUME LinkInv, OwnTraffic, CalmInv, "loss" \notin faults, KeyboardStep,
           UNCHANGED dongleVars
    PROVE  CalmInv'
<1>0. UNCHANGED <<d_state, last_rx, ack_fifo>>
  BY DEF dongleVars
<1>p. /\ \A t \in {"BEACON", "PAIR_RESP", "VERIFY_REQ"} :
            Pkt(t, KbId) \in OwnPkts /\ Pkt(t, KbId).type = t
      /\ Pkt("HID_REPORT", NoId) \in OwnPkts /\ Pkt("HID_REPORT", NoId).type = "HID_REPORT"
  BY DEF OwnPkts, Pkt
<1>1. CASE Paced /\ beacon_work_fn
  <2>1. UNCHANGED <<m_state, rx_buf, esb_active>> /\ ~esb_tx_full
    BY <1>1 DEF beacon_work_fn, Paced
  <2>2. CASE UNCHANGED ptxVars
    BY <1>0, <2>1, <2>2, SilentCalm DEF ptxVars
  <2>3. CASE esb_transport_send(Pkt("BEACON", KbId))
    BY <1>0, <1>p, <2>1, <2>3, SendCalm
  <2> QED
    BY <1>1, <2>2, <2>3 DEF beacon_work_fn
<1>2. CASE Paced /\ verify_work_fn
  <2>1. UNCHANGED <<m_state, rx_buf, esb_active>> /\ ~esb_tx_full
    BY <1>2 DEF verify_work_fn, Paced
  <2>2. CASE UNCHANGED ptxVars
    BY <1>0, <2>1, <2>2, SilentCalm DEF ptxVars
  <2>3. CASE esb_transport_send(Pkt("VERIFY_REQ", KbId))
    BY <1>0, <1>p, <2>1, <2>3, SendCalm
  <2> QED
    BY <1>2, <2>2, <2>3 DEF verify_work_fn
<1>3. CASE Paced /\ rx_work_fn
  <2>1. rx_buf' = NoPkt /\ rx_buf # NoPkt /\ ~esb_tx_full /\ esb_active' = esb_active
    BY <1>3 DEF rx_work_fn, Paced
  <2>2. CASE OnPairReq
    <3>1. CASE esb_active
      <4>1. esb_transport_send(Pkt("PAIR_RESP", KbId))
        BY <2>2, <3>1 DEF OnPairReq
      <4>2. d_state # "LISTENING"
        BY <2>1, <2>2 DEF OnPairReq, CalmInv, AskedNobody, Mail, Without
      <4> QED
        BY <1>0, <1>p, <2>1, <4>1, <4>2, SendCalm
    <3>2. CASE ~esb_active
      <4>1. UNCHANGED ptxVars
        BY <2>2, <3>2 DEF OnPairReq
      <4> QED
        BY <1>0, <2>1, <3>2, <4>1, SilentCalm DEF ptxVars
    <3> QED
      BY <3>1, <3>2
  <2>3. CASE OnVerifyResp
    <3>1. UNCHANGED ptxVars
      BY <2>3 DEF OnVerifyResp
    <3>2. Ready
      BY <2>1, <2>3 DEF OnVerifyResp, CalmInv, NotAnswered, Mail, Without
    <3> QED
      BY <1>0, <2>1, <3>1, <3>2, SilentCalm DEF ptxVars
  <2>4. CASE OnDisconnect \/ OnResync \/ OnIgnored
    <3>1. UNCHANGED ptxVars /\ (m_state' = "CONNECTED" => m_state = "CONNECTED")
      BY <2>4 DEF OnDisconnect, OnResync, OnIgnored
    <3> QED
      BY <1>0, <2>1, <3>1, SilentCalm DEF ptxVars
  <2> QED
    BY <1>3, <2>2, <2>3, <2>4 DEF rx_work_fn
<1>4. CASE SavePair \/ SaveDisconnect \/ SaveUnpair \/ pairing_unpair \/ cmd_esb_unpair \/ Shell
  <2>1. /\ UNCHANGED ptxVars /\ rx_buf' = rx_buf /\ esb_active' = esb_active
        /\ m_state' = "CONNECTED" => m_state = "CONNECTED"
    BY <1>4
    DEF SavePair, SaveDisconnect, SaveUnpair, pairing_unpair, cmd_esb_unpair, Shell,
        ShellForget, ShellSave, ShellCheck, ShellUnpaired, ShellBeacon, ShellStep
  <2> QED
    BY <1>0, <2>1, SilentCalm DEF ptxVars
<1>5. CASE Activate \/ Deactivate \/ PowerCycle
  <2>1. esb_disable /\ m_state' # "CONNECTED" /\ rx_buf' \in {rx_buf, NoPkt}
    BY <1>5 DEF Activate, Deactivate, PowerCycle, pairing_start, pairing_stop
  <2> QED
    BY <1>0, <2>1, DisableCalm
<1>6. CASE Paced /\ SendHid
  <2>1. /\ UNCHANGED <<m_state, rx_buf, esb_active>> /\ ~esb_tx_full
        /\ m_state = "CONNECTED" /\ esb_active
    BY <1>6 DEF SendHid, Paced, pairingVars
  <2>2. esb_transport_send(Pkt("HID_REPORT", NoId))
    BY <1>6 DEF SendHid
  <2> QED
    BY <1>0, <1>p, <2>1, <2>2, SendCalm
<1> QED
  BY <1>1, <1>2, <1>3, <1>4, <1>5, <1>6 DEF KeyboardStep

\* Without a receiver nothing arrives; with one and without faults of the link
\* nothing arrives too early.
NothingDropped ==
    faults \cap {"loss", "dongle_reset"} = {} => ~hid_dropped /\ (PrxStarted => CalmInv)

\* Every step keeps it.
LEMMA StepNothingDropped ==
    ASSUME LinkInv, OwnTraffic, NothingDropped, [LinkNext]_linkVars
    PROVE  NothingDropped'
<1>0. faults' = faults
  BY DEF LinkNext, AttemptAcked, AttemptAckLost, GiveUp, besideKeyboard, linkVars
<1> SUFFICES ASSUME faults \cap {"loss", "dongle_reset"} = {}
             PROVE  ~hid_dropped' /\ (PrxStarted => CalmInv')
  BY <1>0 DEF NothingDropped
<1>1. ~hid_dropped /\ (PrxStarted => CalmInv) /\ "loss" \notin faults
        /\ "dongle_reset" \notin faults
  BY DEF NothingDropped
<1>2. CASE AttemptAcked
  <2>1. PrxStarted
    BY <1>2 DEF AttemptAcked, DongleReceive
  <2> QED
    BY <1>1, <1>2, <2>1, AckedCalm
<1>3. CASE GiveUp
  <2>1. ~PrxStarted /\ hid_dropped' = hid_dropped
    BY <1>1, <1>3 DEF GiveUp, besideKeyboard, dongleVars
  <2> QED
    BY <1>1, <2>1
<1>4. CASE KeyboardStep /\ UNCHANGED besideKeyboard
  <2>1. UNCHANGED dongleVars /\ hid_dropped' = hid_dropped
    BY <1>4 DEF besideKeyboard, dongleVars
  <2> QED
    BY <1>1, <1>4, <2>1, KeyboardCalm
<1>5. CASE UNCHANGED linkVars
  <2>1. /\ UNCHANGED <<tx_fifo, pdu, d_state, last_rx, ack_fifo, rx_buf, m_state, esb_active>>
        /\ hid_dropped' = hid_dropped
    BY <1>5 DEF linkVars, pairingVars, ptxVars, dongleVars
  <2> QED
    BY <1>1, <2>1, SilentCalm
<1> QED
  BY <1>1, <1>2, <1>3, <1>4, <1>5 DEF LinkNext, AttemptAckLost

\* A report the dongle acknowledges is a report it forwards (SendHid over a
\* CONNECTED link, esb_evt_handler), if the radio loses nothing and the dongle
\* keeps power: whatever the user and the keyboard's power supply do, PAIR_RESP
\* or VERIFY_REQ has arrived before.
THEOREM NoReportDropped == LinkSpec => []HidNeverDropped
<1>1. LinkInit => NothingDropped
  <2> SUFFICES ASSUME LinkInit PROVE ~hid_dropped /\ CalmInv
    BY DEF NothingDropped
  <2>1. /\ tx_fifo = <<>> /\ pdu = NoPdu /\ rx_buf = NoPkt /\ m_state = "IDLE"
        /\ ack_fifo = [p \in Pipes |-> <<>>] /\ last_rx = [p \in Pipes |-> NoPkt]
        /\ hid_dropped = FALSE
    BY DEF LinkInit, PairingInit, PtxInit, DongleInit
  <2>2. \A S : Mail(S)
    BY <2>1 DEF Mail
  <2>3. FrontOnAir /\ AskedNobody /\ AnswerUnderWay
    BY <2>1, <2>2, EmptyFifo DEF FrontOnAir, AskedNobody, AnswerUnderWay
  <2>4. \A rx \in OwnPdus : last_rx[PIPE_DATA] # rx
    <3>1. last_rx[PIPE_DATA] = NoPkt
      BY <2>1 DEF Pipes
    <3> QED
      BY <3>1, OwnFields, NothingReceivedAssumption
  <2> QED
    BY <2>1, <2>2, <2>3, <2>4 DEF CalmInv, NotAnswered
<1>2. LinkInv /\ OwnTraffic /\ NothingDropped /\ [LinkNext]_linkVars => NothingDropped'
  BY StepNothingDropped
<1>3. NothingDropped => HidNeverDropped
  BY DEF NothingDropped, HidNeverDropped
<1> QED
  BY <1>1, <1>2, <1>3, LinkTraffic, PTL DEF LinkSpec
=============================================================================
