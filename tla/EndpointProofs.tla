--------------------------- MODULE EndpointProofs ---------------------------
(***************************************************************************)
(* Proofs about module Endpoint, for every depth of the command queue,     *)
(* with failing hardware and a hurried user.  What BLE gets back when ESB  *)
(* is left depends on what was saved when ESB was entered, through any     *)
(* number of repeated commands; SlotInv is the invariant that carries it.  *)
(***************************************************************************)
EXTENDS Endpoint, TLAPS

\* The link layer is suspended exactly while ESB is active, and what was saved
\* is the enabled state it had before.
SlotInv ==
    /\ bt_ll_suspended = esb_active
    /\ bt_ll_suspended => saved_ppi
    /\ ~bt_ll_suspended => ll_ppi

EndpointInv ==
    /\ EndpointTypeOK
    /\ SlotInv
    /\ RadioReturned
    /\ AdvertisingInSync

\* It holds at boot.
LEMMA EndpointInitInv == EndpointInit => EndpointInv
<1> SUFFICES ASSUME EndpointInit PROVE EndpointInv
  OBVIOUS
<1>1. esb_ctrl_msgq \in Seq(Commands) /\ Len(esb_ctrl_msgq) <= MsgqDepth
  BY MsgqDepthAssumption DEF EndpointInit
<1>2. EndpointTypeOK
  BY <1>1 DEF EndpointInit, EndpointTypeOK
<1>3. SlotInv /\ RadioReturned /\ AdvertisingInSync
  BY DEF EndpointInit, SlotInv, RadioReturned, AdvertisingInSync
<1> QED BY <1>2, <1>3 DEF EndpointInv

\* Queueing a command keeps the queue within its depth.
LEMMA PutType ==
    ASSUME EndpointTypeOK, NEW cmd \in Commands, k_msgq_put(cmd)
    PROVE  esb_ctrl_msgq' \in Seq(Commands) /\ Len(esb_ctrl_msgq') <= MsgqDepth
BY MsgqDepthAssumption DEF EndpointTypeOK, k_msgq_put

\* Taking one does, too.
LEMMA TakeType ==
    ASSUME EndpointTypeOK, NEW cmd \in Commands, TakeCommand(cmd)
    PROVE  esb_ctrl_msgq' \in Seq(Commands) /\ Len(esb_ctrl_msgq') <= MsgqDepth
BY MsgqDepthAssumption DEF EndpointTypeOK, TakeCommand

\* Every step keeps the invariant.
LEMMA EndpointStepInv ==
    ASSUME EndpointInv, [EndpointNext]_endpointVars
    PROVE  EndpointInv'
<1> USE DEF EndpointInv
<1>1. CASE boot_profile_check_fn
  <2>1. EndpointTypeOK'
    BY <1>1, PutType
    DEF boot_profile_check_fn, EndpointTypeOK, Commands, slotVars, advVars
  <2> QED
    BY <1>1, <2>1
    DEF boot_profile_check_fn, SlotInv, RadioReturned, AdvertisingInSync,
        slotVars, advVars
<1>2. CASE update_advertising
  <2>1. EndpointTypeOK'
    BY <1>2
    DEF update_advertising, AdvWanted, wrap_bt_le_adv_start, EndpointTypeOK, slotVars
  <2> QED
    BY <1>2, <2>1
    DEF update_advertising, AdvWanted, wrap_bt_le_adv_start, EndpointTypeOK, SlotInv,
        RadioReturned, AdvertisingInSync, slotVars
<1>3. ASSUME NEW index \in Profiles, ProfileChanged(index)
      PROVE  EndpointInv'
  <2>1. EndpointTypeOK'
    BY <1>3, PutType
    DEF ProfileChanged, profile_listener_cb, EndpointTypeOK, Commands, slotVars, advVars
  <2> QED
    BY <1>3, <2>1
    DEF ProfileChanged, SlotInv, RadioReturned, AdvertisingInSync, slotVars, advVars
<1>4. CASE BeginActivate
  <2>1. EndpointTypeOK'
    BY <1>4, TakeType DEF BeginActivate, EndpointTypeOK, Commands, slotVars
  <2> QED
    BY <1>4, <2>1
    DEF BeginActivate, SlotInv, RadioReturned, AdvertisingInSync, slotVars
<1>5. CASE FinishActivate
  <2>1. PICK hfxo_ok \in Outcomes, init_ok \in Outcomes :
            esb_transport_on_slot_start(hfxo_ok, init_ok)
    BY <1>5 DEF FinishActivate
  <2>2. hfxo_ok \in BOOLEAN /\ init_ok \in BOOLEAN
    BY OutcomesAssumption
  <2>3. EndpointTypeOK'
    BY <1>5, <2>1, <2>2
    DEF FinishActivate, esb_transport_on_slot_start, bt_ll_suspend, EndpointTypeOK, advVars
  <2> QED
    BY <1>5, <2>1, <2>3
    DEF FinishActivate, esb_transport_on_slot_start, bt_ll_suspend, EndpointTypeOK,
        SlotInv, RadioReturned, AdvertisingInSync
<1>6. CASE Deactivate
  <2>1. EndpointTypeOK'
    BY <1>6, TakeType
    DEF Deactivate, zmk_ble_set_device_name, esb_transport_on_slot_stop, bt_ll_resume, AdvWanted,
        wrap_bt_le_adv_start, EndpointTypeOK, Commands
  <2> QED
    BY <1>6, <2>1
    DEF Deactivate, zmk_ble_set_device_name, esb_transport_on_slot_stop, bt_ll_resume, AdvWanted,
        wrap_bt_le_adv_start, EndpointTypeOK, SlotInv, RadioReturned, AdvertisingInSync
<1>7. CASE UNCHANGED endpointVars
  BY <1>7
  DEF endpointVars, slotVars, advVars, EndpointTypeOK, SlotInv, RadioReturned,
      AdvertisingInSync
<1> QED
  BY <1>1, <1>2, <1>3, <1>4, <1>5, <1>6, <1>7 DEF EndpointNext, ControlThread

\* The combined invariant of the control thread.
THEOREM EndpointInvariant == EndpointSpec => []EndpointInv
<1>1. EndpointInv /\ [EndpointNext]_endpointVars => EndpointInv'
  BY EndpointStepInv
<1> QED BY <1>1, EndpointInitInv, PTL DEF EndpointSpec

\* While ESB is inactive BLE has its interrupt vector and all its PPI channels,
\* whatever commands were repeated, dropped or failed.
THEOREM BleGetsRadioBack == EndpointSpec => []RadioReturned
<1>1. EndpointInv => RadioReturned
  BY DEF EndpointInv
<1> QED BY <1>1, EndpointInvariant, PTL

\* ZMK's advertising_status is the truth whenever ESB is inactive and not about
\* to start.
THEOREM BleAdvertisesAgain == EndpointSpec => []AdvertisingInSync
<1>1. EndpointInv => AdvertisingInSync
  BY DEF EndpointInv
<1> QED BY <1>1, EndpointInvariant, PTL
=============================================================================
