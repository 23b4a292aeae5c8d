------------------------------ MODULE Pairing ------------------------------
(***************************************************************************)
(* The keyboard's pairing state machine (src/esb/pairing.c) with the two   *)
(* pieces of the endpoint it cannot be understood without: the one-slot    *)
(* receive mailbox between the radio ISR and the system workqueue          *)
(* (esb_transport.c, rx_buf / rx_work), and the activate / deactivate      *)
(* sequence of the control thread (esb_endpoint.c).                        *)
(*                                                                         *)
(* Work items and the control thread are cooperative: a handler runs       *)
(* without another thread in between until it blocks, which the ones that  *)
(* save do in settings_save_one, waiting for the flash.  So each handler   *)
(* that saves is two steps, up to the save and from the save on, with the  *)
(* radio ISR, the other threads or a power cut possible in between.        *)
(*                                                                         *)
(* The thread that executes shell commands is preemptible: `esb unpair'    *)
(* may be cut into between any two of its stores.  It is a process of its  *)
(* own, with shell_pc for its place in pairing_unpair.                     *)
(*                                                                         *)
(* Here the dongle is anything: RxPackets may arrive in any order, as the  *)
(* ACK payload of any transmission.  Module PairingLink composes the       *)
(* keyboard with the dongle firmware of this repository.                   *)
(***************************************************************************)
EXTENDS EsbPtx

CONSTANT KbId   \* m_device_id, the keyboard's own FICR device id

ASSUME KbIdAssumption == KbId \in KeyboardIds

VARIABLES
    m_state,            \* pairing_state_t
    m_peer_device_id,
    m_has_stored_peer,
    beacon_work,        \* the delayable work is scheduled
    verify_work,
    record,             \* the settings record esb_ep/paired, in flash
    rx_buf,             \* payload rx_work has still to handle
    link_up,            \* what the on_connected / on_disconnected hooks last
                        \* told the channel hopper and the shell relay
    esb_active,         \* the ESB slot is active and the radio is ESB's
    pc,                 \* where the system workqueue stands in a handler
    rec,                \* the local rec of save_paired in that handler
    shell_pc,           \* where the shell thread stands in pairing_unpair
    heard,              \* history: ids that identified themselves since the
                        \* slot last became active
    crossed             \* history, since boot: a PAIR_REQ was obeyed, or the
                        \* slot left, in the middle of a shell unpair

peerVars == <<m_peer_device_id, m_has_stored_peer>>
workVars == <<beacon_work, verify_work>>
pairingVars == <<m_state, m_peer_device_id, m_has_stored_peer, beacon_work,
                 verify_work, record, rx_buf, link_up, esb_active, pc, rec,
                 shell_pc, heard, crossed>>
handlerVars == <<pc, rec>>
shellVars == <<shell_pc, crossed>>

States == {"IDLE", "UNPAIRED", "VERIFYING", "CONNECTED"}

Unpaired == [paired |-> FALSE, device_id |-> NoId]
PairedWith(d) == [paired |-> TRUE, device_id |-> d]

\* Mutant of SavedRecord: unpairing does not erase the record.
SavedRecord_Kept(paired, id) == IF paired THEN PairedWith(id) ELSE record

\* save_paired: the device id is written only with the paired flag.
SavedRecord(paired, id) == IF paired THEN PairedWith(id) ELSE Unpaired

\* A handler has built its record and waits for the flash, with the settings
\* mutex taken or queued for.
save_paired(paired, id, resume) ==
    /\ rec' = SavedRecord(paired, id)
    /\ pc' = resume

\* The flash is written, once the mutex is the handler's.
SaveDone(resume) ==
    /\ pc = resume
    /\ record' = rec
    /\ pc' = "run"
    /\ rec' = Unpaired

\* settings_load_cb, run by pairing_init at boot.
settings_load_cb ==
    /\ m_has_stored_peer' = record.paired
    /\ m_peer_device_id' = record.device_id

forget_peer ==
    /\ m_has_stored_peer' = FALSE
    /\ m_peer_device_id' = NoId

----------------------------------------------------------------------------
(* Work items.                                                              *)

\* beacon_work_fn: a beacon while unpaired, and the next one scheduled.
\* With ESB disabled esb_write_payload refuses and nothing is queued.
beacon_work_fn ==
    /\ pc = "run" /\ beacon_work
    /\ IF m_state = "UNPAIRED"
       THEN /\ UNCHANGED beacon_work
            /\ IF esb_active THEN esb_transport_send(Pkt("BEACON", KbId))
                             ELSE UNCHANGED ptxVars
       ELSE /\ beacon_work' = FALSE
            /\ UNCHANGED ptxVars
    /\ UNCHANGED <<m_state, peerVars, verify_work, record, rx_buf, link_up,
                   esb_active, handlerVars, shellVars, heard>>

verify_work_fn ==
    /\ pc = "run" /\ verify_work
    /\ IF m_state = "VERIFYING"
       THEN /\ UNCHANGED verify_work
            /\ IF esb_active THEN esb_transport_send(Pkt("VERIFY_REQ", KbId))
                             ELSE UNCHANGED ptxVars
       ELSE /\ verify_work' = FALSE
            /\ UNCHANGED ptxVars
    /\ UNCHANGED <<m_state, peerVars, beacon_work, record, rx_buf, link_up,
                   esb_active, handlerVars, shellVars, heard>>

----------------------------------------------------------------------------
(* pairing_on_rx, called by rx_work with the packet in the mailbox.         *)

\* Mutant of OnPairReq: obeyed in every state.
OnPairReq_AnyState ==
    /\ rx_buf.type = "PAIR_REQ"
    /\ m_peer_device_id' = rx_buf.device_id
    /\ m_has_stored_peer' = TRUE
    /\ m_state' = "CONNECTED"
    /\ save_paired(TRUE, rx_buf.device_id, "save_pair")
    /\ UNCHANGED <<workVars, record, link_up, shellVars, ptxVars>>

\* PAIR_REQ while unpaired: adopt the dongle, answer, CONNECTED, then save.
OnPairReq ==
    /\ rx_buf.type = "PAIR_REQ" /\ m_state = "UNPAIRED"
    /\ m_peer_device_id' = rx_buf.device_id
    /\ beacon_work' = FALSE
    /\ IF esb_active THEN esb_transport_send(Pkt("PAIR_RESP", KbId))
                     ELSE UNCHANGED ptxVars
    /\ m_has_stored_peer' = TRUE
    /\ m_state' = "CONNECTED"
    /\ save_paired(TRUE, rx_buf.device_id, "save_pair")
    /\ crossed' = (crossed \/ shell_pc \in {"flag", "forgot", "saved", "checked"})
    /\ UNCHANGED <<verify_work, record, link_up, shell_pc>>

\* ... and from the save on: the hooks learn of the connection.
SavePair ==
    /\ SaveDone("save_pair")
    /\ link_up' = TRUE
    /\ UNCHANGED <<m_state, peerVars, workVars, rx_buf, esb_active, shellVars, heard,
                   ptxVars>>

\* Mutant of OnVerifyResp: the id in the answer is not compared.
OnVerifyResp_AnyId ==
    /\ rx_buf.type = "VERIFY_RESP" /\ m_state = "VERIFYING"
    /\ verify_work' = FALSE
    /\ m_state' = "CONNECTED"
    /\ link_up' = TRUE
    /\ UNCHANGED <<peerVars, beacon_work, record, handlerVars, shellVars, ptxVars>>

OnVerifyResp ==
    /\ rx_buf.type = "VERIFY_RESP" /\ m_state = "VERIFYING"
    /\ rx_buf.device_id = m_peer_device_id
    /\ verify_work' = FALSE
    /\ m_state' = "CONNECTED"
    /\ link_up' = TRUE
    /\ UNCHANGED <<peerVars, beacon_work, record, handlerVars, shellVars, ptxVars>>

\* DISCONNECT is obeyed in every state, IDLE included.
OnDisconnect ==
    /\ rx_buf.type = "DISCONNECT"
    /\ m_state' = "UNPAIRED"
    /\ forget_peer
    /\ save_paired(FALSE, NoId, "save_disconnect")
    /\ UNCHANGED <<workVars, record, link_up, shellVars, ptxVars>>

SaveDisconnect ==
    /\ SaveDone("save_disconnect")
    /\ verify_work' = FALSE
    /\ beacon_work' = TRUE
    /\ link_up' = FALSE
    /\ UNCHANGED <<m_state, peerVars, rx_buf, esb_active, shellVars, heard, ptxVars>>

OnResync ==
    /\ rx_buf.type = "RESYNC" /\ m_state = "CONNECTED"
    /\ m_state' = "VERIFYING"
    /\ verify_work' = TRUE
    /\ link_up' = FALSE
    /\ UNCHANGED <<peerVars, beacon_work, record, handlerVars, shellVars, ptxVars>>

\* Every other packet, or a packet in a state that has no use for it.
OnIgnored ==
    /\ \/ rx_buf.type = "PAIR_REQ" /\ m_state # "UNPAIRED"
       \/ /\ rx_buf.type = "VERIFY_RESP"
          /\ m_state # "VERIFYING" \/ rx_buf.device_id # m_peer_device_id
       \/ rx_buf.type = "RESYNC" /\ m_state # "CONNECTED"
    /\ UNCHANGED <<m_state, peerVars, workVars, record, link_up, handlerVars, shellVars,
                   ptxVars>>

rx_work_fn ==
    /\ pc = "run" /\ rx_buf # NoPkt
    /\ OnPairReq \/ OnVerifyResp \/ OnDisconnect \/ OnResync \/ OnIgnored
    /\ rx_buf' = NoPkt
    /\ UNCHANGED <<esb_active, heard>>

----------------------------------------------------------------------------
(* Calls from the endpoint and the keymap.                                  *)

\* Mutant of pairing_start: VERIFYING is entered without scheduling its work.
pairing_start_NoVerify ==
    /\ m_state' = IF m_has_stored_peer THEN "VERIFYING" ELSE "UNPAIRED"
    /\ beacon_work' = (beacon_work \/ ~m_has_stored_peer)
    /\ UNCHANGED verify_work

pairing_start ==
    /\ m_state' = IF m_has_stored_peer THEN "VERIFYING" ELSE "UNPAIRED"
    /\ verify_work' = (verify_work \/ m_has_stored_peer)
    /\ beacon_work' = (beacon_work \/ ~m_has_stored_peer)

\* Who is named by the packet that waits in the mailbox.
Waiting == IF rx_buf = NoPkt THEN {} ELSE {rx_buf.device_id} \ {NoId}

\* ESB_CMD_ACTIVATE from the quiesce sleep on.  The sleep leaves rx_work time
\* to handle what was received before the slot was last left, unless the
\* workqueue is held up.  The command is not refused when the slot is active
\* already (two profile events in a row).
Activate ==
    /\ pairing_start
    /\ esb_disable
    /\ esb_active' = TRUE
    /\ heard' = IF esb_active THEN heard ELSE Waiting
    /\ UNCHANGED <<peerVars, record, rx_buf, link_up, handlerVars, shellVars>>

pairing_stop ==
    /\ m_state' = "IDLE"
    /\ beacon_work' = FALSE
    /\ verify_work' = FALSE
    /\ link_up' = FALSE

\* ESB_CMD_DEACTIVATE: a submitted rx_work is not cancelled.
Deactivate ==
    /\ esb_active' = FALSE
    /\ esb_disable
    /\ pairing_stop
    /\ crossed' = (crossed \/ shell_pc = "checked")
    /\ UNCHANGED <<peerVars, record, rx_buf, handlerVars, shell_pc, heard>>

\* pairing_unpair by the keymap behavior, which ZMK runs on the system
\* workqueue, up to its save ...
pairing_unpair ==
    /\ pc = "run"
    /\ forget_peer
    /\ save_paired(FALSE, NoId, "save_unpair")
    /\ UNCHANGED <<m_state, workVars, record, rx_buf, link_up, esb_active,
                   shellVars, heard, ptxVars>>

\* ... and from the save on.  The hooks are not told.
SaveUnpair ==
    /\ SaveDone("save_unpair")
    /\ verify_work' = FALSE
    /\ IF m_state = "IDLE"
       THEN UNCHANGED <<m_state, beacon_work>>
       ELSE /\ m_state' = "UNPAIRED"
            /\ beacon_work' = TRUE
    /\ UNCHANGED <<peerVars, rx_buf, link_up, esb_active, shellVars, heard, ptxVars>>

----------------------------------------------------------------------------
(* The shell thread in pairing_unpair.  Handlers and the control thread run  *)
(* between any two of its steps; it runs while they sleep or wait.           *)

ShellStep(from, to) ==
    /\ shell_pc = from
    /\ shell_pc' = to
    /\ UNCHANGED <<rx_buf, link_up, esb_active, handlerVars, heard, crossed, ptxVars>>

\* cmd_esb_unpair, and the first store of pairing_unpair.
cmd_esb_unpair ==
    /\ ShellStep("none", "flag")
    /\ m_has_stored_peer' = FALSE
    /\ UNCHANGED <<m_state, m_peer_device_id, workVars, record>>

\* The memset.  An id adopted just before is cleared or torn: it names nobody.
ShellForget ==
    /\ ShellStep("flag", "forgot")
    /\ m_peer_device_id' = NoId
    /\ UNCHANGED <<m_state, m_has_stored_peer, workVars, record>>

\* save_paired(false).  A handler that waits in its own save took the settings
\* mutex before; one that comes while this save runs finds it done.
ShellSave ==
    /\ ShellStep("forgot", "saved")
    /\ pc = "run"
    /\ record' = SavedRecord(FALSE, NoId)
    /\ UNCHANGED <<m_state, peerVars, workVars>>

\* The test of m_state, with the cancellations before and after it.
ShellCheck ==
    /\ ShellStep("saved", IF m_state = "IDLE" THEN "none" ELSE "checked")
    /\ verify_work' = FALSE
    /\ beacon_work' = (beacon_work /\ m_state = "IDLE")
    /\ UNCHANGED <<m_state, peerVars, record>>

ShellUnpaired ==
    /\ ShellStep("checked", "unpaired")
    /\ m_state' = "UNPAIRED"
    /\ UNCHANGED <<peerVars, workVars, record>>

\* Mutant of ShellBeacon: the beacon is not scheduled again.
ShellBeacon_Silent ==
    /\ ShellStep("unpaired", "none")
    /\ UNCHANGED <<m_state, peerVars, workVars, record>>

ShellBeacon ==
    /\ ShellStep("unpaired", "none")
    /\ beacon_work' = TRUE
    /\ UNCHANGED <<m_state, peerVars, verify_work, record>>

Shell ==
    \/ ShellForget
    \/ ShellSave
    \/ ShellCheck
    \/ ShellUnpaired
    \/ ShellBeacon

----------------------------------------------------------------------------
(* Power, and the reports the endpoint sends.                                *)

\* A power cut at any point, and the boot that follows: RAM is cleared and
\* pairing_init loads the record.
PowerCycle ==
    /\ m_state' = "IDLE"
    /\ settings_load_cb
    /\ beacon_work' = FALSE
    /\ verify_work' = FALSE
    /\ rx_buf' = NoPkt
    /\ link_up' = FALSE
    /\ esb_active' = FALSE
    /\ pc' = "run"
    /\ rec' = Unpaired
    /\ shell_pc' = "none"
    /\ heard' = {}
    /\ crossed' = FALSE
    /\ esb_disable
    /\ UNCHANGED record

\* Mutant of SendHid: the pairing state is not asked.
SendHid_Unpaired ==
    /\ pc = "run" /\ esb_active
    /\ esb_transport_send(Pkt("HID_REPORT", NoId))
    /\ UNCHANGED pairingVars

\* A HID report is sent only over an active, connected link.
SendHid ==
    /\ pc = "run" /\ esb_active /\ m_state = "CONNECTED"
    /\ esb_transport_send(Pkt("HID_REPORT", NoId))
    /\ UNCHANGED pairingVars

----------------------------------------------------------------------------
(* The radio ISR.                                                           *)

\* ESB_EVENT_RX_RECEIVED: the payload overwrites the mailbox, whether or not
\* rx_work has read the one before.
DeliverAckPayload(pkt) ==
    /\ rx_buf' = pkt
    /\ heard' = heard \cup ({pkt.device_id} \ {NoId})

\* A transmission acknowledged by a dongle nothing is assumed of.
RadioAcked ==
    /\ TxAcked
    /\ \/ UNCHANGED <<rx_buf, heard>>
       \/ \E pkt \in RxPackets : DeliverAckPayload(pkt)
    /\ UNCHANGED <<m_state, peerVars, workVars, record, link_up, esb_active,
                   handlerVars, shellVars>>

RadioFailed == TxFailed /\ UNCHANGED pairingVars

----------------------------------------------------------------------------

PairingInit ==
    /\ PtxInit
    /\ record \in {Unpaired} \cup {PairedWith(d) : d \in DongleIds}
    /\ m_state = "IDLE"
    /\ m_has_stored_peer = record.paired
    /\ m_peer_device_id = record.device_id
    /\ beacon_work = FALSE
    /\ verify_work = FALSE
    /\ rx_buf = NoPkt
    /\ link_up = FALSE
    /\ esb_active = FALSE
    /\ pc = "run"
    /\ rec = Unpaired
    /\ shell_pc = "none"
    /\ heard = {}
    /\ crossed = FALSE

PairingNext ==
    \/ beacon_work_fn
    \/ verify_work_fn
    \/ rx_work_fn
    \/ SavePair
    \/ SaveDisconnect
    \/ SaveUnpair
    \/ Activate
    \/ Deactivate
    \/ pairing_unpair
    \/ cmd_esb_unpair
    \/ Shell
    \/ PowerCycle
    \/ SendHid
    \/ RadioAcked
    \/ RadioFailed

pairingAllVars == <<pairingVars, ptxVars>>

PairingSpec == PairingInit /\ [][PairingNext]_pairingAllVars

----------------------------------------------------------------------------
(* Properties.                                                              *)

\* Type invariant of the pairing state machine and of the engine under it.
TypeOK ==
    /\ m_state \in States
    /\ m_peer_device_id \in DongleIds \cup {NoId}
    /\ m_has_stored_peer \in BOOLEAN
    /\ beacon_work \in BOOLEAN
    /\ verify_work \in BOOLEAN
    /\ record \in [paired : BOOLEAN, device_id : DongleIds \cup {NoId}]
    /\ rx_buf \in RxPackets \cup {NoPkt}
    /\ link_up \in BOOLEAN
    /\ esb_active \in BOOLEAN
    /\ pc \in {"run", "save_pair", "save_disconnect", "save_unpair"}
    /\ rec \in [paired : BOOLEAN, device_id : DongleIds \cup {NoId}]
    /\ shell_pc \in {"none", "flag", "forgot", "saved", "checked", "unpaired"}
    /\ heard \in SUBSET DongleIds
    /\ crossed \in BOOLEAN
    /\ PtxTypeOK

\* Neither a handler nor a shell unpair is under way.
Settled == pc = "run" /\ shell_pc = "none"

\* In a settled keyboard the periodic work that keeps the handshake going is
\* scheduled in the state that needs it, whatever sequence of packets, profile
\* switches, unpairs and power cuts came before, and wherever the control
\* thread or a handler cut into another: an unpaired keyboard never falls
\* silent and a verifying one never stops asking.
NeverSilent ==
    Settled => /\ m_state = "UNPAIRED" => beacon_work
               /\ m_state = "VERIFYING" => verify_work

\* In a settled keyboard a dongle in flash is the dongle in RAM: nothing that
\* was unpaired comes back with the next boot.  The converse, that the dongle
\* in RAM is in flash, holds unless a PAIR_REQ was obeyed in the middle of a
\* shell unpair, whose save then erases the new dongle.
RecordAgrees ==
    Settled /\ (record.paired \/ ~crossed)
        => /\ record.paired = m_has_stored_peer
           /\ record.device_id = m_peer_device_id

\* HID is released (CONNECTED) only to a dongle that sent its own id, in a
\* PAIR_REQ or VERIFY_RESP, since the slot last became active, or in the packet
\* that waited in the mailbox then; that id is the stored one.  (README: HID
\* stays suppressed until the dongle's live id matches the stored one.)  Only
\* an unpair under way has forgotten the dongle before it leaves CONNECTED.
ConnectedPeerAnswered ==
    m_state = "CONNECTED" /\ pc # "save_unpair" /\ shell_pc = "none"
        => m_has_stored_peer /\ m_peer_device_id \in heard

\* A packet still in the mailbox when the slot is deactivated is handled after
\* pairing_stop; it may unpair the keyboard but never connects it, unless the
\* slot was left between the test and the store of m_state in a shell unpair.
InactiveNeverConnected ==
    ~esb_active /\ ~crossed => m_state \in {"IDLE", "UNPAIRED"}

\* The record never goes from one dongle to another: the old dongle is
\* forgotten in flash before a new one is stored, unless a PAIR_REQ was obeyed
\* in the middle of a shell unpair.
RecordNeverSwaps ==
    [][record.paired /\ record'.paired /\ ~crossed
            => record'.device_id = record.device_id]_record
=============================================================================
