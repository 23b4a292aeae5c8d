-------------------------- MODULE ChannelHopEpProofs --------------------------
(***************************************************************************)
(* Proofs about module ChannelHopEp, for any band, length of the burst and *)
(* width of its counter: every work item an active endpoint or a handshake *)
(* waits for stays scheduled through every handler, interrupt and          *)
(* disconnect.                                                             *)
(***************************************************************************)
EXTENDS ChannelHopEp, TLAPS

\* The burst's counter as HopTypeOK has it.
BurstInByte == m_post_hop_burst_remaining \in 0..(ByteMod - 1)

\* Every step keeps the flags Boolean.
LEMMA FlagsStep ==
    ASSUME HopFlagsOK, [HopNext]_hopVars
    PROVE  HopFlagsOK'
<1> USE DEF HopFlagsOK, linkVars, coopVars, targetVars, timeVars
<1>1. CASE negotiate_work_fn
  BY <1>1 DEF negotiate_work_fn, Runs
<1>2. CASE idle_check_work_fn
  BY <1>2 DEF idle_check_work_fn, Runs, enter_idle_state, coop_hop_abort,
        HandshakeOver
<1>3. CASE send_idle_packet
  BY <1>3 DEF send_idle_packet, OfferFlushed
<1>4. CASE post_hop_burst_work_fn
  BY <1>4 DEF post_hop_burst_work_fn, Runs, BurstTick, OfferFlushed
<1>5. CASE SideTripEnds
  BY <1>5 DEF SideTripEnds, BurstTick
<1>6. CASE hop_retry_work_fn
  BY <1>6 DEF hop_retry_work_fn, Runs
<1>7. CASE hop_work_fn
  BY <1>7 DEF hop_work_fn, Runs, HopStays, HopRefused, HopCommits,
        commit_hop_bookkeeping, OfferFlushed
<1>8. CASE coop_hop_offer_work_fn
  BY <1>8 DEF coop_hop_offer_work_fn, Runs, HandshakeOver
<1>9. CASE coop_hop_commit_work_fn
  BY <1>9 DEF coop_hop_commit_work_fn, Runs, HandshakeOver,
        commit_hop_bookkeeping
<1>10. CASE channel_hop_ep_on_connected
  BY <1>10 DEF channel_hop_ep_on_connected, Activation
<1>11. CASE channel_hop_ep_on_disconnected
  BY <1>11 DEF channel_hop_ep_on_disconnected, coop_hop_abort, HandshakeOver
<1>12. CASE channel_hop_ep_note_user_tx \/ enter_active_state
  BY <1>12 DEF channel_hop_ep_note_user_tx, enter_active_state
<1>13. CASE EntersActive
  BY <1>13 DEF EntersActive, Activation
<1>14. ASSUME NEW agreed \in Channels, channel_hop_ep_on_rx_confirm(agreed)
      PROVE  HopFlagsOK'
  BY <1>14 DEF channel_hop_ep_on_rx_confirm
<1>15. ASSUME NEW agreed \in Channels, channel_hop_ep_on_rx_accept(agreed)
      PROVE  HopFlagsOK'
  BY <1>15 DEF channel_hop_ep_on_rx_accept
<1>16. CASE channel_hop_ep_on_request
  BY <1>16 DEF channel_hop_ep_on_request, channel_hop_ep_on_tx_fail_isr,
        HandshakeOver
<1>17. CASE TxFailTrigger
  BY <1>17 DEF TxFailTrigger, channel_hop_ep_on_tx_fail_isr, HandshakeOver
<1>18. CASE OfferLost
  BY <1>18 DEF OfferLost
<1>19. CASE TxSuccess
  BY <1>19 DEF TxSuccess, channel_hop_ep_on_tx_success_isr,
        channel_hop_ep_on_link_degraded_isr
<1>20. CASE CooldownEnds
  BY <1>20 DEF CooldownEnds
<1>21. CASE SilenceGrows
  BY <1>21 DEF SilenceGrows
<1>22. CASE UNCHANGED hopVars
  BY <1>22 DEF hopVars
<1> QED
  BY <1>1, <1>2, <1>3, <1>4, <1>5, <1>6, <1>7, <1>8, <1>9, <1>10, <1>11,
        <1>12, <1>13, <1>14, <1>15, <1>16, <1>17, <1>18, <1>19, <1>20,
        <1>21, <1>22
  DEF HopNext, WorkqueueNext

\* Every step keeps to the channels of the band.
LEMMA ChannelsStep ==
    ASSUME HopChannelsOK, [HopNext]_hopVars
    PROVE  HopChannelsOK'
<1> USE HopChannelsAssumption
    DEF HopChannelsOK, linkVars, coopVars, targetVars, timeVars
<1>1. CASE negotiate_work_fn
  BY <1>1 DEF negotiate_work_fn, Runs
<1>2. CASE idle_check_work_fn
  BY <1>2 DEF idle_check_work_fn, Runs, enter_idle_state, coop_hop_abort,
        HandshakeOver
<1>3. CASE send_idle_packet
  BY <1>3 DEF send_idle_packet, OfferFlushed
<1>4. CASE post_hop_burst_work_fn
  BY <1>4 DEF post_hop_burst_work_fn, Runs, BurstTick, OfferFlushed
<1>5. CASE SideTripEnds
  BY <1>5 DEF SideTripEnds, BurstTick
<1>6. CASE hop_retry_work_fn
  BY <1>6 DEF hop_retry_work_fn, Runs
<1>7. CASE hop_work_fn
  BY <1>7 DEF hop_work_fn, Runs, HopStays, HopRefused, HopCommits,
        commit_hop_bookkeeping, OfferFlushed, start_post_hop_burst,
        HopTargets, AgreedOrPick, Picks, IsRevert
<1>8. CASE coop_hop_offer_work_fn
  BY <1>8 DEF coop_hop_offer_work_fn, Runs, HandshakeOver, AgreedOrPick, Picks
<1>9. CASE coop_hop_commit_work_fn
  BY <1>9 DEF coop_hop_commit_work_fn, Runs, HandshakeOver,
        commit_hop_bookkeeping, start_post_hop_burst
<1>10. CASE channel_hop_ep_on_connected
  BY <1>10 DEF channel_hop_ep_on_connected, Activation
<1>11. CASE channel_hop_ep_on_disconnected
  BY <1>11 DEF channel_hop_ep_on_disconnected, coop_hop_abort, HandshakeOver
<1>12. CASE channel_hop_ep_note_user_tx \/ enter_active_state
  BY <1>12 DEF channel_hop_ep_note_user_tx, enter_active_state
<1>13. CASE EntersActive
  BY <1>13 DEF EntersActive, Activation
<1>14. ASSUME NEW agreed \in Channels, channel_hop_ep_on_rx_confirm(agreed)
      PROVE  HopChannelsOK'
  BY <1>14 DEF channel_hop_ep_on_rx_confirm
<1>15. ASSUME NEW agreed \in Channels, channel_hop_ep_on_rx_accept(agreed)
      PROVE  HopChannelsOK'
  BY <1>15 DEF channel_hop_ep_on_rx_accept
<1>16. CASE channel_hop_ep_on_request
  BY <1>16 DEF channel_hop_ep_on_request, channel_hop_ep_on_tx_fail_isr,
        HandshakeOver
<1>17. CASE TxFailTrigger
  BY <1>17 DEF TxFailTrigger, channel_hop_ep_on_tx_fail_isr, HandshakeOver
<1>18. CASE OfferLost
  BY <1>18 DEF OfferLost
<1>19. CASE TxSuccess
  BY <1>19 DEF TxSuccess, channel_hop_ep_on_tx_success_isr,
        channel_hop_ep_on_link_degraded_isr
<1>20. CASE CooldownEnds
  BY <1>20 DEF CooldownEnds
<1>21. CASE SilenceGrows
  BY <1>21 DEF SilenceGrows
<1>22. CASE UNCHANGED hopVars
  BY <1>22 DEF hopVars
<1> QED
  BY <1>1, <1>2, <1>3, <1>4, <1>5, <1>6, <1>7, <1>8, <1>9, <1>10, <1>11,
        <1>12, <1>13, <1>14, <1>15, <1>16, <1>17, <1>18, <1>19, <1>20,
        <1>21, <1>22
  DEF HopNext, WorkqueueNext

\* Every step keeps the phases, and schedules only the hopper's own work.
LEMMA PhasesStep ==
    ASSUME HopPhasesOK, [HopNext]_hopVars
    PROVE  HopPhasesOK'
<1> USE DEF HopPhasesOK, Works, linkVars, coopVars, targetVars, timeVars
<1>1. CASE negotiate_work_fn
  BY <1>1 DEF negotiate_work_fn, Runs
<1>2. CASE idle_check_work_fn
  BY <1>2 DEF idle_check_work_fn, Runs, enter_idle_state, coop_hop_abort,
        HandshakeOver
<1>3. CASE send_idle_packet
  BY <1>3 DEF send_idle_packet, OfferFlushed
<1>4. CASE post_hop_burst_work_fn
  BY <1>4 DEF post_hop_burst_work_fn, Runs, BurstTick, OfferFlushed
<1>5. CASE SideTripEnds
  BY <1>5 DEF SideTripEnds, BurstTick
<1>6. CASE hop_retry_work_fn
  BY <1>6 DEF hop_retry_work_fn, Runs
<1>7. CASE hop_work_fn
  BY <1>7 DEF hop_work_fn, Runs, HopStays, HopRefused, HopCommits,
        commit_hop_bookkeeping, OfferFlushed
<1>8. CASE coop_hop_offer_work_fn
  BY <1>8 DEF coop_hop_offer_work_fn, Runs, HandshakeOver
<1>9. CASE coop_hop_commit_work_fn
  BY <1>9 DEF coop_hop_commit_work_fn, Runs, HandshakeOver,
        commit_hop_bookkeeping
<1>10. CASE channel_hop_ep_on_connected
  BY <1>10 DEF channel_hop_ep_on_connected, Activation
<1>11. CASE channel_hop_ep_on_disconnected
  BY <1>11 DEF channel_hop_ep_on_disconnected, coop_hop_abort, HandshakeOver
<1>12. CASE channel_hop_ep_note_user_tx \/ enter_active_state
  BY <1>12 DEF channel_hop_ep_note_user_tx, enter_active_state
<1>13. CASE EntersActive
  BY <1>13 DEF EntersActive, Activation
<1>14. ASSUME NEW agreed \in Channels, channel_hop_ep_on_rx_confirm(agreed)
      PROVE  HopPhasesOK'
  BY <1>14 DEF channel_hop_ep_on_rx_confirm
<1>15. ASSUME NEW agreed \in Channels, channel_hop_ep_on_rx_accept(agreed)
      PROVE  HopPhasesOK'
  BY <1>15 DEF channel_hop_ep_on_rx_accept
<1>16. CASE channel_hop_ep_on_request
  BY <1>16 DEF channel_hop_ep_on_request, channel_hop_ep_on_tx_fail_isr,
        HandshakeOver
<1>17. CASE TxFailTrigger
  BY <1>17 DEF TxFailTrigger, channel_hop_ep_on_tx_fail_isr, HandshakeOver
<1>18. CASE OfferLost
  BY <1>18 DEF OfferLost
<1>19. CASE TxSuccess
  BY <1>19 DEF TxSuccess, channel_hop_ep_on_tx_success_isr,
        channel_hop_ep_on_link_degraded_isr
<1>20. CASE CooldownEnds
  BY <1>20 DEF CooldownEnds
<1>21. CASE SilenceGrows
  BY <1>21 DEF SilenceGrows
<1>22. CASE UNCHANGED hopVars
  BY <1>22 DEF hopVars
<1> QED
  BY <1>1, <1>2, <1>3, <1>4, <1>5, <1>6, <1>7, <1>8, <1>9, <1>10, <1>11,
        <1>12, <1>13, <1>14, <1>15, <1>16, <1>17, <1>18, <1>19, <1>20,
        <1>21, <1>22
  DEF HopNext, WorkqueueNext

\* The burst's counter stays in a byte, also when it wraps below zero.
LEMMA BurstStep ==
    ASSUME BurstInByte, [HopNext]_hopVars
    PROVE  BurstInByte'
<1> USE BurstAssumption DEF BurstInByte, timeVars
<1>1. CASE negotiate_work_fn
  BY <1>1 DEF negotiate_work_fn, Runs
<1>2. CASE idle_check_work_fn
  BY <1>2 DEF idle_check_work_fn, Runs, enter_idle_state, coop_hop_abort,
        HandshakeOver
<1>3. CASE send_idle_packet
  BY <1>3 DEF send_idle_packet, OfferFlushed
<1>4. CASE post_hop_burst_work_fn
  <2>1. (m_post_hop_burst_remaining - 1) % ByteMod \in 0..(ByteMod - 1)
    OBVIOUS
  <2> QED BY <1>4, <2>1 DEF post_hop_burst_work_fn, BurstTick
<1>5. CASE SideTripEnds
  <2>1. (m_post_hop_burst_remaining - 1) % ByteMod \in 0..(ByteMod - 1)
    OBVIOUS
  <2> QED BY <1>5, <2>1 DEF SideTripEnds, BurstTick
<1>6. CASE hop_retry_work_fn
  BY <1>6 DEF hop_retry_work_fn, Runs
<1>7. CASE hop_work_fn
  BY <1>7 DEF hop_work_fn, Runs, HopStays, HopRefused, HopCommits,
        commit_hop_bookkeeping, OfferFlushed, start_post_hop_burst
<1>8. CASE coop_hop_offer_work_fn
  BY <1>8 DEF coop_hop_offer_work_fn, Runs, HandshakeOver
<1>9. CASE coop_hop_commit_work_fn
  BY <1>9 DEF coop_hop_commit_work_fn, Runs, HandshakeOver,
        commit_hop_bookkeeping, start_post_hop_burst
<1>10. CASE channel_hop_ep_on_connected
  BY <1>10 DEF channel_hop_ep_on_connected, Activation
<1>11. CASE channel_hop_ep_on_disconnected
  BY <1>11 DEF channel_hop_ep_on_disconnected, coop_hop_abort, HandshakeOver
<1>12. CASE channel_hop_ep_note_user_tx \/ enter_active_state
  BY <1>12 DEF channel_hop_ep_note_user_tx, enter_active_state
<1>13. CASE EntersActive
  BY <1>13 DEF EntersActive, Activation
<1>14. ASSUME NEW agreed \in Channels, channel_hop_ep_on_rx_confirm(agreed)
      PROVE  BurstInByte'
  BY <1>14 DEF channel_hop_ep_on_rx_confirm
<1>15. ASSUME NEW agreed \in Channels, channel_hop_ep_on_rx_accept(agreed)
      PROVE  BurstInByte'
  BY <1>15 DEF channel_hop_ep_on_rx_accept
<1>16. CASE channel_hop_ep_on_request
  BY <1>16 DEF channel_hop_ep_on_request, channel_hop_ep_on_tx_fail_isr,
        HandshakeOver
<1>17. CASE TxFailTrigger
  BY <1>17 DEF TxFailTrigger, channel_hop_ep_on_tx_fail_isr, HandshakeOver
<1>18. CASE OfferLost
  BY <1>18 DEF OfferLost
<1>19. CASE TxSuccess
  BY <1>19 DEF TxSuccess, channel_hop_ep_on_tx_success_isr,
        channel_hop_ep_on_link_degraded_isr
<1>20. CASE CooldownEnds
  BY <1>20 DEF CooldownEnds
<1>21. CASE SilenceGrows
  BY <1>21 DEF SilenceGrows
<1>22. CASE UNCHANGED hopVars
  BY <1>22 DEF hopVars
<1> QED
  BY <1>1, <1>2, <1>3, <1>4, <1>5, <1>6, <1>7, <1>8, <1>9, <1>10, <1>11,
        <1>12, <1>13, <1>14, <1>15, <1>16, <1>17, <1>18, <1>19, <1>20,
        <1>21, <1>22
  DEF HopNext, WorkqueueNext

\* No step takes a work item from an active endpoint without the link or the
\* activity ending with it.
LEMMA ActiveStep ==
    ASSUME HopFlagsOK, ActiveIsDriven, [HopNext]_hopVars
    PROVE  ActiveIsDriven'
<1> USE DEF HopFlagsOK, ActiveIsDriven, linkVars, coopVars, targetVars, timeVars
<1>1. CASE negotiate_work_fn
  BY <1>1 DEF negotiate_work_fn, Runs
<1>2. CASE idle_check_work_fn
  <2>1. CASE m_link_up /\ m_active
    BY <1>2, <2>1 DEF idle_check_work_fn, enter_idle_state
  <2>2. CASE ~(m_link_up /\ m_active)
    <3>1. UNCHANGED <<m_active, overtaken, m_link_up>>
      BY <1>2, <2>2 DEF idle_check_work_fn
    <3> QED BY <2>2, <3>1
  <2> QED BY <2>1, <2>2
<1>3. CASE send_idle_packet
  BY <1>3 DEF send_idle_packet, OfferFlushed
<1>4. CASE post_hop_burst_work_fn
  BY <1>4 DEF post_hop_burst_work_fn, Runs, BurstTick, OfferFlushed
<1>5. CASE SideTripEnds
  BY <1>5 DEF SideTripEnds, BurstTick
<1>6. CASE hop_retry_work_fn
  BY <1>6 DEF hop_retry_work_fn, Runs
<1>7. CASE hop_work_fn
  BY <1>7 DEF hop_work_fn, Runs, HopStays, HopRefused, HopCommits,
        commit_hop_bookkeeping, OfferFlushed
<1>8. CASE coop_hop_offer_work_fn
  BY <1>8 DEF coop_hop_offer_work_fn, Runs, HandshakeOver
<1>9. CASE coop_hop_commit_work_fn
  BY <1>9 DEF coop_hop_commit_work_fn, Runs, HandshakeOver,
        commit_hop_bookkeeping
<1>10. CASE channel_hop_ep_on_connected
  BY <1>10 DEF channel_hop_ep_on_connected, Activation
<1>11. CASE channel_hop_ep_on_disconnected
  BY <1>11 DEF channel_hop_ep_on_disconnected, coop_hop_abort, HandshakeOver
<1>12. CASE channel_hop_ep_note_user_tx \/ enter_active_state
  BY <1>12 DEF channel_hop_ep_note_user_tx, enter_active_state
<1>13. CASE EntersActive
  BY <1>13 DEF EntersActive, Activation
<1>14. ASSUME NEW agreed \in Channels, channel_hop_ep_on_rx_confirm(agreed)
      PROVE  ActiveIsDriven'
  BY <1>14 DEF channel_hop_ep_on_rx_confirm
<1>15. ASSUME NEW agreed \in Channels, channel_hop_ep_on_rx_accept(agreed)
      PROVE  ActiveIsDriven'
  BY <1>15 DEF channel_hop_ep_on_rx_accept
<1>16. CASE channel_hop_ep_on_request
  BY <1>16 DEF channel_hop_ep_on_request, channel_hop_ep_on_tx_fail_isr,
        HandshakeOver
<1>17. CASE TxFailTrigger
  BY <1>17 DEF TxFailTrigger, channel_hop_ep_on_tx_fail_isr, HandshakeOver
<1>18. CASE OfferLost
  BY <1>18 DEF OfferLost
<1>19. CASE TxSuccess
  BY <1>19 DEF TxSuccess, channel_hop_ep_on_tx_success_isr,
        channel_hop_ep_on_link_degraded_isr
<1>20. CASE CooldownEnds
  BY <1>20 DEF CooldownEnds
<1>21. CASE SilenceGrows
  BY <1>21 DEF SilenceGrows
<1>22. CASE UNCHANGED hopVars
  BY <1>22 DEF hopVars
<1> QED
  BY <1>1, <1>2, <1>3, <1>4, <1>5, <1>6, <1>7, <1>8, <1>9, <1>10, <1>11,
        <1>12, <1>13, <1>14, <1>15, <1>16, <1>17, <1>18, <1>19, <1>20,
        <1>21, <1>22
  DEF HopNext, WorkqueueNext

\* No step takes from a handshake what will end it, and no handshake ends
\* without its tag.
LEMMA HandshakeStep ==
    ASSUME HopFlagsOK, HandshakeDriven, [HopNext]_hopVars
    PROVE  HandshakeDriven'
<1> USE DEF HopFlagsOK, HandshakeDriven, linkVars, coopVars, targetVars, timeVars
<1>1. CASE negotiate_work_fn
  BY <1>1 DEF negotiate_work_fn, Runs
<1>2. CASE idle_check_work_fn
  BY <1>2 DEF idle_check_work_fn, Runs, enter_idle_state, coop_hop_abort,
        HandshakeOver
<1>3. CASE send_idle_packet
  BY <1>3 DEF send_idle_packet, OfferFlushed
<1>4. CASE post_hop_burst_work_fn
  BY <1>4 DEF post_hop_burst_work_fn, Runs, BurstTick, OfferFlushed
<1>5. CASE SideTripEnds
  BY <1>5 DEF SideTripEnds, BurstTick
<1>6. CASE hop_retry_work_fn
  BY <1>6 DEF hop_retry_work_fn, Runs
<1>7. CASE hop_work_fn
  BY <1>7 DEF hop_work_fn, Runs, HopStays, HopRefused, HopCommits,
        commit_hop_bookkeeping, OfferFlushed
<1>8. CASE coop_hop_offer_work_fn
  BY <1>8 DEF coop_hop_offer_work_fn, Runs, HandshakeOver
<1>9. CASE coop_hop_commit_work_fn
  BY <1>9 DEF coop_hop_commit_work_fn, Runs, HandshakeOver,
        commit_hop_bookkeeping
<1>10. CASE channel_hop_ep_on_connected
  BY <1>10 DEF channel_hop_ep_on_connected, Activation
<1>11. CASE channel_hop_ep_on_disconnected
  BY <1>11 DEF channel_hop_ep_on_disconnected, coop_hop_abort, HandshakeOver
<1>12. CASE channel_hop_ep_note_user_tx \/ enter_active_state
  BY <1>12 DEF channel_hop_ep_note_user_tx, enter_active_state
<1>13. CASE EntersActive
  BY <1>13 DEF EntersActive, Activation
<1>14. ASSUME NEW agreed \in Channels, channel_hop_ep_on_rx_confirm(agreed)
      PROVE  HandshakeDriven'
  BY <1>14 DEF channel_hop_ep_on_rx_confirm
<1>15. ASSUME NEW agreed \in Channels, channel_hop_ep_on_rx_accept(agreed)
      PROVE  HandshakeDriven'
  BY <1>15 DEF channel_hop_ep_on_rx_accept
<1>16. CASE channel_hop_ep_on_request
  BY <1>16 DEF channel_hop_ep_on_request, channel_hop_ep_on_tx_fail_isr,
        HandshakeOver
<1>17. CASE TxFailTrigger
  BY <1>17 DEF TxFailTrigger, channel_hop_ep_on_tx_fail_isr, HandshakeOver
<1>18. CASE OfferLost
  BY <1>18 DEF OfferLost
<1>19. CASE TxSuccess
  BY <1>19 DEF TxSuccess, channel_hop_ep_on_tx_success_isr,
        channel_hop_ep_on_link_degraded_isr
<1>20. CASE CooldownEnds
  BY <1>20 DEF CooldownEnds
<1>21. CASE SilenceGrows
  BY <1>21 DEF SilenceGrows
<1>22. CASE UNCHANGED hopVars
  BY <1>22 DEF hopVars
<1> QED
  BY <1>1, <1>2, <1>3, <1>4, <1>5, <1>6, <1>7, <1>8, <1>9, <1>10, <1>11,
        <1>12, <1>13, <1>14, <1>15, <1>16, <1>17, <1>18, <1>19, <1>20,
        <1>21, <1>22
  DEF HopNext, WorkqueueNext

\* The hopper keeps its types, for every band and burst; the burst's counter
\* stays a byte when a disconnect during a side trip makes it wrap.
THEOREM HopTypeCorrect == HopSpec => []HopTypeOK
<1>1. channel_hop_ep_init => HopFlagsOK
  BY DEF channel_hop_ep_init, HopFlagsOK
<1>2. channel_hop_ep_init => HopChannelsOK
  BY HopChannelsAssumption DEF channel_hop_ep_init, HopChannelsOK
<1>3. channel_hop_ep_init => HopPhasesOK
  BY DEF channel_hop_ep_init, HopPhasesOK
<1>4. channel_hop_ep_init => BurstInByte
  BY BurstAssumption DEF channel_hop_ep_init, BurstInByte
<1>5. HopFlagsOK /\ HopChannelsOK /\ HopPhasesOK /\ BurstInByte => HopTypeOK
  BY DEF HopTypeOK, BurstInByte
<1> QED
  BY <1>1, <1>2, <1>3, <1>4, <1>5, FlagsStep, ChannelsStep, PhasesStep, BurstStep, PTL
  DEF HopSpec

\* For every band and burst: an active endpoint negotiates and watches its idle
\* deadline, unless a user thread was overtaken by a disconnect.
THEOREM ActiveDriven == HopSpec => []ActiveIsDriven
<1>1. channel_hop_ep_init => ActiveIsDriven
  BY DEF channel_hop_ep_init, ActiveIsDriven
<1>2. HopTypeOK => HopFlagsOK
  BY DEF HopTypeOK
<1> QED BY <1>1, ActiveStep, HopTypeCorrect, <1>2, PTL DEF HopSpec

\* For every band and burst: no handshake is left without what will end it, and
\* no tag without its handshake.
THEOREM HandshakesEnd == HopSpec => []HandshakeDriven
<1>1. channel_hop_ep_init => HandshakeDriven
  BY DEF channel_hop_ep_init, HandshakeDriven
<1>2. HopTypeOK => HopFlagsOK
  BY DEF HopTypeOK
<1> QED BY <1>1, HandshakeStep, HopTypeCorrect, <1>2, PTL DEF HopSpec
=============================================================================
