---------------------------- MODULE PairingLink ----------------------------
(***************************************************************************)
(* The keyboard's pairing state machine and the repository's dongle over   *)
(* one ESB radio link.  One step of the air is one transmission attempt:   *)
(* the dongle receives it or not, the acknowledgement (and the reply in    *)
(* it) comes back or not; the engine retransmits until it is acknowledged  *)
(* or gives up.                                                            *)
(*                                                                         *)
(* A behaviour belongs to a scenario: faults is what the environment may    *)
(* do in it besides a working link:                                        *)
(* "loss" (the radio), "dongle_reset", "power_cut" (of the keyboard),      *)
(* "switch" (the user leaves and re-enters the ESB slot), "reactivate"     *)
(* (a second ACTIVATE command while the slot is active), "unpair" (by the  *)
(* keymap), "shell" (the shell's unpair) and "hid" (key reports are sent). *)
(***************************************************************************)
EXTENDS Pairing, Dongle

CONSTANTS
    Scenarios,  \* the sets of faults to consider
    InitPeers   \* dongles the keyboard may already have on record

Faults == {"loss", "dongle_reset", "power_cut", "switch", "reactivate",
           "unpair", "shell", "hid"}

ASSUME ScenariosAssumption == Scenarios \subseteq SUBSET Faults
ASSUME InitPeersAssumption == InitPeers \subseteq DongleIds
ASSUME RxPidsAssumption == RxPids = 0..(PidCount - 1)

VARIABLE faults

besideKeyboard == <<dongleVars, faults>>
linkVars == <<pairingVars, ptxVars, dongleVars, faults>>

\* Without losses an exchange takes about a millisecond and the periodic work
\* items tens to hundreds: no sender finds the FIFO full.
Paced == "loss" \in faults \/ ~esb_tx_full

\* An attempt is received and its acknowledgement comes back.
AttemptAcked ==
    /\ pdu # NoPdu
    /\ DongleReceive(pdu)
    /\ TxAcked
    /\ IF AckReply(pdu) = NoPkt THEN UNCHANGED <<rx_buf, heard>>
                                ELSE DeliverAckPayload(AckReply(pdu))
    /\ UNCHANGED <<m_state, peerVars, workVars, record, link_up, esb_active,
                   handlerVars, shellVars, faults>>

\* An attempt is received but the acknowledgement is lost; the engine will
\* retransmit the same packet.
AttemptAckLost ==
    /\ "loss" \in faults
    /\ pdu # NoPdu
    /\ DongleReceive(pdu)
    /\ UNCHANGED <<pairingVars, ptxVars, faults>>

\* No attempt was acknowledged and the retransmits are used up.
GiveUp ==
    /\ "loss" \in faults \/ ~PrxStarted
    /\ RadioFailed
    /\ UNCHANGED besideKeyboard

KeyboardStep ==
    \/ Paced /\ beacon_work_fn
    \/ Paced /\ verify_work_fn
    \/ Paced /\ rx_work_fn
    \/ SavePair
    \/ SaveDisconnect
    \/ SaveUnpair
    \/ (~esb_active \/ "reactivate" \in faults) /\ Activate
    \/ "switch" \in faults /\ Deactivate
    \/ "unpair" \in faults /\ pairing_unpair
    \/ "shell" \in faults /\ cmd_esb_unpair
    \/ Shell
    \/ "power_cut" \in faults /\ PowerCycle
    \/ "hid" \in faults /\ Paced /\ SendHid

LinkInit ==
    /\ PairingInit
    /\ record \in {Unpaired} \cup {PairedWith(d) : d \in InitPeers}
    /\ DongleInit
    /\ faults \in Scenarios

LinkNext ==
    \/ AttemptAcked
    \/ AttemptAckLost
    \/ GiveUp
    \/ KeyboardStep /\ UNCHANGED besideKeyboard
    \/ "dongle_reset" \in faults /\ DongleReset /\ UNCHANGED <<pairingVars, ptxVars, faults>>

\* Work items run when they are due (rx_work has no delay: it is not overtaken
\* for ever by periodic work refilling the FIFO), a save returns, the boot check
\* activates the slot; the radio retries, so a transmission that is attempted
\* again and again is acknowledged at some point.
LinkFairness ==
    /\ WF_linkVars(Paced /\ beacon_work_fn /\ UNCHANGED besideKeyboard)
    /\ WF_linkVars(Paced /\ verify_work_fn /\ UNCHANGED besideKeyboard)
    /\ SF_linkVars(Paced /\ rx_work_fn /\ UNCHANGED besideKeyboard)
    /\ WF_linkVars((SavePair \/ SaveDisconnect \/ SaveUnpair) /\ UNCHANGED besideKeyboard)
    /\ WF_linkVars(~esb_active /\ Activate /\ UNCHANGED besideKeyboard)
    /\ WF_linkVars(GiveUp)
    /\ SF_linkVars(AttemptAcked)

LinkSpec == LinkInit /\ [][LinkNext]_linkVars

FairLinkSpec == LinkSpec /\ LinkFairness

----------------------------------------------------------------------------
(* Properties.                                                              *)

\* As long as the dongle keeps power, a keyboard with this dongle on record is
\* the keyboard this dongle accepts: the next VERIFY_REQ will be answered with
\* VERIFY_RESP and never with DISCONNECT, whatever was lost, interrupted by a
\* power cut or unpaired in between.
StoredPeerKnowsUs ==
    "dongle_reset" \notin faults /\ record = PairedWith(MyId) => d_peer = KbId

\* A report the dongle acknowledges is a report it forwards: without losses no
\* report reaches it before PAIR_RESP or VERIFY_REQ has, whatever the user and
\* the keyboard's power supply do.
HidNeverDropped ==
    faults \cap {"loss", "dongle_reset"} = {} => ~hid_dropped

\* No DISCONNECT waits at the dongle or in the keyboard's mailbox.
NoRefusal ==
    LET refusal == Pkt("DISCONNECT", NoId)
    IN  /\ rx_buf # refusal
        /\ \A p \in Pipes : \A i \in DOMAIN ack_fifo[p] : ack_fifo[p][i] # refusal

\* A keyboard that verifies against a dongle that remembers it, with no earlier
\* refusal under way, gets connected, however lossy the radio, unless the user
\* leaves the slot first.
ReconnectUnderLoss ==
    (/\ faults \subseteq {"loss", "switch"}
     /\ m_state = "VERIFYING" /\ m_peer_device_id = MyId /\ d_peer = KbId
     /\ NoRefusal)
        ~> (m_state \in {"CONNECTED", "IDLE"})

\* README: an unpaired dongle that receives VERIFY_REQ answers with DISCONNECT
\* "so the keyboard unpairs and re-beacons cleanly": the two pair anew,
\* and for good.
RepairsAfterDisconnect ==
    (m_state = "VERIFYING" /\ d_peer = NoId)
        ~> [](m_state = "CONNECTED" /\ d_state = "CONNECTED")

\* dongle/src/main.c, of the dongle: "pipe 0 (pairing): receives BEACON, sends
\* PAIR_REQ in ACK".  A keyboard that never stops beaconing is heard at last.
BeaconReceived == <>(d_state # "LISTENING")
=============================================================================
