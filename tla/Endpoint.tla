------------------------------ MODULE Endpoint ------------------------------
(***************************************************************************)
(* The endpoint's control thread (src/esb/esb_endpoint.c): the profile     *)
(* listener queues ACTIVATE and DEACTIVATE commands, the thread executes   *)
(* them and hands the radio from the BLE link layer to ESB and back        *)
(* (esb_transport_on_slot_start / _stop in esb_transport.c).               *)
(*                                                                         *)
(* The thread is cooperative and blocks in two places only, k_msgq_get and *)
(* the quiesce sleep of ACTIVATE; a command is atomic but for that sleep.  *)
(* ZMK's BLE code is external: it keeps its own idea of whether it         *)
(* advertises (advertising_status), starts advertising through the wrapped *)
(* bt_le_adv_start, and does nothing when it believes the wanted state is  *)
(* there already.                                                          *)
(***************************************************************************)
EXTENDS Naturals, Sequences

CONSTANTS
    MsgqDepth,      \* CONFIG_ZMK_ESB_ENDPOINT_CTRL_MSGQ_DEPTH
    Outcomes        \* results hfxo_request and esb_init may have: {TRUE} when
                    \* the hardware works, BOOLEAN when it may fail

ASSUME MsgqDepthAssumption == MsgqDepth \in Nat \ {0}
ASSUME OutcomesAssumption == Outcomes \in (SUBSET BOOLEAN) \ {{}}

VARIABLES
    profile,            \* active ZMK profile: the ESB slot or another one
    boot_check,         \* boot_profile_check_work has still to run
    esb_ctrl_msgq,
    ctrl,               \* where the control thread waits
    esb_active,
    bt_ll_suspended,
    ll_ppi,             \* the link layer's PPI channels are enabled
    saved_ppi,          \* saved_bt_ll_ppi_chen
    hfclk_held,
    radio_vector,       \* whose RADIO interrupt handler is installed
    configured,         \* m_addr.configured
    adv_status,         \* ZMK believes it advertises
    adv_on,             \* the link layer advertises
    hurried             \* history: a profile was selected while a command was
                        \* pending

slotVars == <<bt_ll_suspended, ll_ppi, saved_ppi, hfclk_held, radio_vector, configured>>
advVars == <<adv_status, adv_on>>
endpointVars == <<profile, boot_check, esb_ctrl_msgq, ctrl, esb_active,
                  slotVars, advVars, hurried>>

Profiles == {"esb", "ble"}
Commands == {"ACTIVATE", "DEACTIVATE"}

\* No command is queued or being executed.
Settled == ctrl = "wait" /\ esb_ctrl_msgq = <<>>

----------------------------------------------------------------------------
(* Queueing commands.                                                       *)

\* k_msgq_put with K_NO_WAIT: a full queue drops the command.
k_msgq_put(cmd) ==
    esb_ctrl_msgq' = IF Len(esb_ctrl_msgq) < MsgqDepth
                     THEN Append(esb_ctrl_msgq, cmd) ELSE esb_ctrl_msgq

\* Mutant of profile_listener_cb: leaving the slot queues nothing.
profile_listener_cb_OneWay(index) ==
    IF index = "esb" /\ ~esb_active THEN k_msgq_put("ACTIVATE")
    ELSE UNCHANGED esb_ctrl_msgq

\* The listener compares the event with esb_active as it is NOW, whatever the
\* control thread is in the middle of.
profile_listener_cb(index) ==
    IF (index = "esb") = esb_active THEN UNCHANGED esb_ctrl_msgq
    ELSE k_msgq_put(IF index = "esb" THEN "ACTIVATE" ELSE "DEACTIVATE")

boot_profile_check_fn ==
    /\ boot_check
    /\ boot_check' = FALSE
    /\ IF profile = "esb" /\ ~esb_active THEN k_msgq_put("ACTIVATE")
                                         ELSE UNCHANGED esb_ctrl_msgq
    /\ UNCHANGED <<profile, ctrl, esb_active, slotVars, advVars, hurried>>

----------------------------------------------------------------------------
(* ZMK's advertising, seen through the wrapped bt_le_adv_start.             *)

\* A start is swallowed, with success, while ESB has the radio.
wrap_bt_le_adv_start(active, on) == IF active THEN on ELSE TRUE

\* The ESB slot has no bonded peer and always wants to be advertised, another
\* profile wants it or not.
AdvWanted == IF profile = "esb" THEN {TRUE} ELSE BOOLEAN

update_advertising ==
    \E wanted \in AdvWanted :
        /\ wanted # adv_status
        /\ adv_status' = wanted
        /\ adv_on' = IF wanted THEN wrap_bt_le_adv_start(esb_active, adv_on) ELSE FALSE
        /\ UNCHANGED <<profile, boot_check, esb_ctrl_msgq, ctrl, esb_active,
                       slotVars, hurried>>

\* A profile event: the user selects a profile, or a peer of the active one
\* connects or disconnects.
ProfileChanged(index) ==
    /\ profile' = index
    /\ hurried' = (hurried \/ (index # profile /\ ~Settled))
    /\ profile_listener_cb(index)
    /\ UNCHANGED <<boot_check, ctrl, esb_active, slotVars, advVars>>

----------------------------------------------------------------------------
(* esb_transport_on_slot_start and _stop.                                   *)

\* Mutant of bt_ll_suspend: a second suspend saves the mask it cleared.
bt_ll_suspend_Again ==
    /\ saved_ppi' = ll_ppi
    /\ ll_ppi' = FALSE
    /\ bt_ll_suspended' = TRUE

bt_ll_suspend ==
    IF bt_ll_suspended THEN UNCHANGED <<saved_ppi, ll_ppi, bt_ll_suspended>>
    ELSE /\ saved_ppi' = ll_ppi
         /\ ll_ppi' = FALSE
         /\ bt_ll_suspended' = TRUE

bt_ll_resume ==
    /\ ll_ppi' = (ll_ppi \/ (bt_ll_suspended /\ saved_ppi))
    /\ bt_ll_suspended' = FALSE
    /\ UNCHANGED saved_ppi

\* The interrupt vector is patched only after esb_init succeeded.
esb_transport_on_slot_start(hfxo_ok, init_ok) ==
    /\ bt_ll_suspend
    /\ hfclk_held' = (hfclk_held \/ hfxo_ok)
    /\ radio_vector' = IF init_ok THEN "ESB" ELSE radio_vector

esb_transport_on_slot_stop ==
    /\ radio_vector' = "BLE"
    /\ bt_ll_resume
    /\ hfclk_held' = FALSE

----------------------------------------------------------------------------
(* esb_ctrl_thread_fn.                                                      *)

TakeCommand(cmd) ==
    /\ ctrl = "wait" /\ esb_ctrl_msgq # <<>>
    /\ Head(esb_ctrl_msgq) = cmd
    /\ esb_ctrl_msgq' = Tail(esb_ctrl_msgq)

\* ACTIVATE up to the sleep: peers are disconnected, advertising is stopped
\* behind ZMK's back.
BeginActivate ==
    /\ TakeCommand("ACTIVATE")
    /\ adv_on' = FALSE
    /\ ctrl' = "quiesce"
    /\ UNCHANGED <<profile, boot_check, esb_active, slotVars, adv_status, hurried>>

\* ACTIVATE from the sleep on; a failed slot start is only logged.
FinishActivate ==
    /\ ctrl = "quiesce"
    /\ configured' = TRUE
    /\ \E hfxo_ok, init_ok \in Outcomes : esb_transport_on_slot_start(hfxo_ok, init_ok)
    /\ esb_active' = TRUE
    /\ ctrl' = "wait"
    /\ UNCHANGED <<profile, boot_check, esb_ctrl_msgq, advVars, hurried>>

\* Mutant of zmk_ble_set_device_name: ZMK is not made to advertise afresh.
zmk_ble_set_device_name_Unused(active) == UNCHANGED advVars

\* External: stops advertising, clears advertising_status and runs
\* update_advertising, for real once ESB is inactive.
zmk_ble_set_device_name(active) ==
    \E wanted \in AdvWanted :
        /\ adv_status' = wanted
        /\ adv_on' = IF wanted THEN wrap_bt_le_adv_start(active, FALSE) ELSE FALSE

\* DEACTIVATE; ZMK is resynchronised by setting the device name it has.
Deactivate ==
    /\ TakeCommand("DEACTIVATE")
    /\ esb_active' = FALSE
    /\ esb_transport_on_slot_stop
    /\ configured' = FALSE
    /\ zmk_ble_set_device_name(FALSE)
    /\ UNCHANGED <<profile, boot_check, ctrl, hurried>>

----------------------------------------------------------------------------

\* esb_endpoint_init: any profile may have been loaded from the settings.
EndpointInit ==
    /\ profile \in Profiles
    /\ boot_check = TRUE
    /\ esb_ctrl_msgq = <<>>
    /\ ctrl = "wait"
    /\ esb_active = FALSE
    /\ bt_ll_suspended = FALSE
    /\ ll_ppi = TRUE
    /\ saved_ppi = FALSE
    /\ hfclk_held = FALSE
    /\ radio_vector = "BLE"
    /\ configured = FALSE
    /\ adv_status = FALSE
    /\ adv_on = FALSE
    /\ hurried = FALSE

ControlThread == BeginActivate \/ FinishActivate \/ Deactivate

EndpointNext ==
    \/ boot_profile_check_fn
    \/ update_advertising
    \/ \E index \in Profiles : ProfileChanged(index)
    \/ ControlThread

EndpointSpec == EndpointInit /\ [][EndpointNext]_endpointVars

\* The thread runs when it is ready, the boot check when its delay is over.
FairEndpointSpec ==
    /\ EndpointSpec
    /\ WF_endpointVars(ControlThread)
    /\ WF_endpointVars(boot_profile_check_fn)

----------------------------------------------------------------------------
(* Properties.                                                              *)

\* Type invariant of the endpoint.
EndpointTypeOK ==
    /\ profile \in Profiles
    /\ boot_check \in BOOLEAN
    /\ esb_ctrl_msgq \in Seq(Commands) /\ Len(esb_ctrl_msgq) <= MsgqDepth
    /\ ctrl \in {"wait", "quiesce"}
    /\ esb_active \in BOOLEAN
    /\ bt_ll_suspended \in BOOLEAN
    /\ ll_ppi \in BOOLEAN
    /\ saved_ppi \in BOOLEAN
    /\ hfclk_held \in BOOLEAN
    /\ radio_vector \in {"BLE", "ESB"}
    /\ configured \in BOOLEAN
    /\ adv_status \in BOOLEAN
    /\ adv_on \in BOOLEAN
    /\ hurried \in BOOLEAN

\* Whatever commands were queued twice, dropped or failed half way, while ESB
\* is inactive BLE has its whole radio back: the interrupt vector, every PPI
\* channel it had, and no clock request of ESB's is left behind.
RadioReturned ==
    ~esb_active => /\ radio_vector = "BLE"
                   /\ ll_ppi /\ ~bt_ll_suspended
                   /\ ~hfclk_held /\ ~configured

\* While ESB is inactive and not about to start, ZMK's idea of advertising is
\* the truth, although ESB swallowed its starts and stopped it unasked: no BLE
\* profile is left unreachable.
AdvertisingInSync ==
    ~esb_active /\ ctrl = "wait" => adv_status = adv_on

\* README: selecting the ESB slot hands ESB the radio, "pick a different one
\* and BLE comes back": the slot ends up active exactly if it is the profile
\* the user has settled on.
SlotFollowsProfile ==
    \A p \in Profiles :
        profile = p ~> (profile # p \/ (Settled /\ esb_active = (p = "esb")))

\* The same for a user who never selects a profile while a command is pending:
\* the slot follows, however often peers come and go, whatever fails in the
\* hardware and although duplicate commands overflow the queue.
SlotFollowsCalmUser ==
    \A p \in Profiles :
        profile = p ~> \/ profile # p \/ hurried
                       \/ Settled /\ esb_active = (p = "esb")
=============================================================================
