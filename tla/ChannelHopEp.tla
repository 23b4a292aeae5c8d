---------------------------- MODULE ChannelHopEp ----------------------------
(***************************************************************************)
(* The keyboard's channel hopper (src/esb/channel_hop_ep.c).  Its work     *)
(* items run one at a time on the system workqueue; the TX events reach it *)
(* from the RADIO interrupt, the disconnect from the control thread, and   *)
(* user traffic from any thread.  The workqueue sleeps in two places, the  *)
(* rendezvous side trip and the flush before an IDLE packet, and there the *)
(* others overtake it.                                                     *)
(*                                                                         *)
(* Left out: what only decides which PROPOSAL is sent or how soon          *)
(* (m_committed_synced, m_pending_candidate, m_request_burst_remaining),   *)
(* and the quarantine, which module ChannelHop has: a pick is any channel  *)
(* but the current one, or none.  Uptimes are kept as what the code asks   *)
(* of them: whether the cooldown runs, and how long the link was silent.   *)
(***************************************************************************)
EXTENDS Integers

CONSTANTS
    Channels,       \* 0..CHANNEL_HOP_CHANNEL_COUNT - 1
    INVALID,        \* CHANNEL_HOP_INVALID
    Rendezvous,     \* esb_transport_get_rendezvous_channel
    BurstCount,     \* CHANNEL_HOP_POST_BURST_COUNT
    RdvEvery,       \* CHANNEL_HOP_POST_BURST_RENDEZVOUS_EVERY
    ByteMod         \* the range of a uint8_t

ASSUME HopChannelsAssumption == INVALID \notin Channels /\ Rendezvous \in Channels
ASSUME BurstAssumption ==
    /\ ByteMod \in Nat \ {0} /\ BurstCount \in 1..(ByteMod - 1)
    /\ RdvEvery \in 1..(ByteMod - 1)

Works == {"negotiate", "idle_check", "burst", "hop_retry", "hop", "offer", "commit"}

VARIABLES
    channel,                        \* esb_transport_get_channel
    m_link_up,
    m_active,
    m_committed_next,
    m_prev_channel,
    m_post_hop_burst_remaining,
    m_rendezvous_fallback_pending,
    cooldown,                       \* hop_cooldown_active
    silence,                        \* since m_last_link_event_ms: "never" when it is 0
    m_coop_hop_state,
    m_coop_hop_target,              \* INVALID between handshakes, when it is not read
    m_last_tx_was_offer,
    offer,                          \* where this handshake's OFFER is: "none", "queued", "acked"
    works,                          \* the work items that are scheduled or queued
    blocked,                        \* what the workqueue sleeps in: "no", "trip", "flush"
    noting,                         \* a user thread inside note_user_tx, and what it read
    overtaken                       \* history: that thread was overtaken by a disconnect

linkVars == <<m_link_up, m_active, overtaken>>
targetVars == <<channel, m_committed_next, m_prev_channel>>
timeVars == <<cooldown, silence>>
coopVars == <<m_coop_hop_state, m_coop_hop_target, m_last_tx_was_offer, offer>>
hopVars == <<channel, m_link_up, m_active, m_committed_next, m_prev_channel,
             m_post_hop_burst_remaining, m_rendezvous_fallback_pending,
             cooldown, silence, m_coop_hop_state, m_coop_hop_target,
             m_last_tx_was_offer, offer, works, blocked, noting, overtaken>>

\* The types, in parts: flags, channels, phases, and the burst's byte.
HopFlagsOK ==
    /\ m_link_up \in BOOLEAN /\ m_active \in BOOLEAN /\ overtaken \in BOOLEAN
    /\ m_rendezvous_fallback_pending \in BOOLEAN
    /\ cooldown \in BOOLEAN
    /\ m_last_tx_was_offer \in BOOLEAN

HopChannelsOK ==
    /\ channel \in Channels
    /\ m_committed_next \in Channels \cup {INVALID}
    /\ m_prev_channel \in Channels \cup {INVALID}
    /\ m_coop_hop_target \in Channels \cup {INVALID}

HopPhasesOK ==
    /\ silence \in {"never", "recent", "long"}
    /\ m_coop_hop_state \in {"COOP_IDLE", "COOP_OFFERED", "COOP_ARMED"}
    /\ offer \in {"none", "queued", "acked"}
    /\ blocked \in {"no", "trip", "flush"}
    /\ noting \in {"no", "linked", "refresh", "activate"}
    /\ works \subseteq Works

HopTypeOK ==
    /\ HopFlagsOK /\ HopChannelsOK /\ HopPhasesOK
    /\ m_post_hop_burst_remaining \in 0..(ByteMod - 1)

channel_hop_ep_init ==
    /\ channel = Rendezvous
    /\ m_link_up = FALSE /\ m_active = FALSE
    /\ m_committed_next = INVALID /\ m_prev_channel = INVALID
    /\ m_post_hop_burst_remaining = 0
    /\ m_rendezvous_fallback_pending = FALSE
    /\ cooldown = FALSE /\ silence = "never"
    /\ m_coop_hop_state = "COOP_IDLE" /\ m_coop_hop_target = INVALID
    /\ m_last_tx_was_offer = FALSE /\ offer = "none"
    /\ works = {} /\ blocked = "no" /\ noting = "no" /\ overtaken = FALSE

----------------------------------------------------------------------------
(* The workqueue.                                                           *)

\* Work item w is taken off the queue and its handler entered.
Runs(w) == w \in works /\ blocked = "no"

\* channel_hop_pick away from the current channel, or no candidate.
Picks == (Channels \ {channel}) \cup {INVALID}

\* The pre-negotiated channel if it is of use, else a pick; a quarantined
\* one is of no use either, whatever the quarantine holds.
AgreedOrPick(mayBeQuarantined) ==
    IF m_committed_next \in {INVALID, channel} THEN Picks
    ELSE IF mayBeQuarantined THEN Picks \cup {m_committed_next}
    ELSE {m_committed_next}

\* A flush drops whatever waits to be sent, an OFFER among it.
OfferFlushed == offer' = IF offer = "queued" THEN "none" ELSE offer

\* The handshake is over, however it ended.
HandshakeOver ==
    /\ m_coop_hop_state' = "COOP_IDLE" /\ m_coop_hop_target' = INVALID
    /\ offer' = "none"

\* The PROPOSAL it sends changes nothing here; it stops ticking only when
\* the link is down.
negotiate_work_fn ==
    /\ Runs("negotiate")
    /\ works' = IF m_link_up THEN works ELSE works \ {"negotiate"}
    /\ UNCHANGED <<linkVars, targetVars, timeVars, coopVars, blocked, noting,
                   m_post_hop_burst_remaining, m_rendezvous_fallback_pending>>

coop_hop_abort == HandshakeOver /\ m_last_tx_was_offer' = FALSE

enter_idle_state ==
    /\ m_active' = FALSE /\ overtaken' = FALSE
    /\ works' = works \ {"negotiate", "idle_check", "offer", "commit"}
    /\ coop_hop_abort
    /\ blocked' = "flush"

idle_check_work_fn ==
    /\ Runs("idle_check")
    /\ \/ m_link_up /\ m_active /\ enter_idle_state
       \/ /\ ~(m_link_up /\ m_active)
          /\ works' = works \ {"idle_check"}
          /\ UNCHANGED <<m_active, overtaken, coopVars, blocked>>
    /\ UNCHANGED <<targetVars, timeVars, m_link_up, noting,
                   m_post_hop_burst_remaining, m_rendezvous_fallback_pending>>

\* The sleep in esb_transport_flush_tx ends and the IDLE packet is queued.
send_idle_packet ==
    /\ blocked = "flush"
    /\ blocked' = "no"
    /\ OfferFlushed
    /\ UNCHANGED <<linkVars, targetVars, timeVars, works, noting,
                   m_coop_hop_state, m_coop_hop_target, m_last_tx_was_offer,
                   m_post_hop_burst_remaining, m_rendezvous_fallback_pending>>

----------------------------------------------------------------------------
(* The burst of PROPOSALs after a hop.                                      *)

\* The end of a tick: the uint8_t counter wraps below zero.
BurstTick ==
    LET left == (m_post_hop_burst_remaining - 1) % ByteMod
    IN  /\ m_post_hop_burst_remaining' = left
        /\ works' = IF left > 0 THEN works \cup {"burst"} ELSE works \ {"burst"}
        /\ blocked' = IF left = 0 /\ ~m_active THEN "flush" ELSE "no"

\* Every RdvEvery-th tick goes to the rendezvous channel, the first one never.
SideTripDue ==
    LET tick_index == (BurstCount - m_post_hop_burst_remaining) % ByteMod
    IN  tick_index > 0 /\ tick_index % RdvEvery = 0 /\ Rendezvous # channel

post_hop_burst_work_fn ==
    /\ Runs("burst")
    /\ \/ /\ m_post_hop_burst_remaining = 0
          /\ works' = works \ {"burst"}
          /\ UNCHANGED <<m_post_hop_burst_remaining, blocked, offer>>
       \/ /\ m_post_hop_burst_remaining # 0 /\ SideTripDue
          /\ works' = works \ {"burst"}
          /\ blocked' = "trip"
          /\ OfferFlushed
          /\ UNCHANGED m_post_hop_burst_remaining
       \/ /\ m_post_hop_burst_remaining # 0 /\ ~SideTripDue
          /\ BurstTick
          /\ UNCHANGED offer
    /\ UNCHANGED <<linkVars, targetVars, timeVars, noting, m_coop_hop_state,
                   m_coop_hop_target, m_last_tx_was_offer, m_rendezvous_fallback_pending>>

\* esb_transport_send_blocking returns, answered or timed out.
SideTripEnds ==
    /\ blocked = "trip"
    /\ BurstTick
    /\ UNCHANGED <<linkVars, targetVars, timeVars, coopVars, noting,
                   m_rendezvous_fallback_pending>>

start_post_hop_burst == m_post_hop_burst_remaining' = BurstCount

----------------------------------------------------------------------------
(* Hopping.                                                                 *)

\* After set_channel(target) returned 0: the tail every hop shares, the
\* burst and the fast negotiation included; done is the work item that hopped.
commit_hop_bookkeeping(target, done) ==
    /\ channel' = target
    /\ m_committed_next' = INVALID
    /\ cooldown' = TRUE /\ silence' = "recent"
    /\ start_post_hop_burst
    /\ works' = (works \ {done}) \cup {"burst", "negotiate"}

hop_retry_work_fn ==
    /\ Runs("hop_retry")
    /\ works' = (works \ {"hop_retry"}) \cup {"hop"}
    /\ UNCHANGED <<linkVars, targetVars, timeVars, coopVars, blocked, noting,
                   m_post_hop_burst_remaining, m_rendezvous_fallback_pending>>

\* The previous hop brought not one success: go back.
IsRevert == m_prev_channel \notin {INVALID, channel}

HopTargets ==
    IF m_rendezvous_fallback_pending THEN {Rendezvous}
    ELSE IF IsRevert THEN {m_prev_channel}
    ELSE AgreedOrPick(FALSE)

\* No candidate, or a fallback to the channel it is on.
HopStays ==
    /\ works' = works \ {"hop"}
    /\ UNCHANGED <<targetVars, timeVars, m_post_hop_burst_remaining, offer>>

\* -EBUSY: the queue is flushed and the hop tried again later.
HopRefused ==
    /\ works' = (works \ {"hop"}) \cup {"hop_retry"}
    /\ OfferFlushed
    /\ UNCHANGED <<targetVars, timeVars, m_post_hop_burst_remaining>>

HopCommits(target) ==
    /\ m_prev_channel' = IF m_rendezvous_fallback_pending \/ IsRevert
                         THEN INVALID ELSE channel
    /\ commit_hop_bookkeeping(target, "hop")
    /\ OfferFlushed

\* Mutant of hop_work_fn: the fallback is not consumed.
hop_work_fn_Sticky ==
    /\ Runs("hop")
    /\ \E target \in HopTargets :
          \/ target \in {INVALID, channel} /\ HopStays
          \/ target \notin {INVALID, channel} /\ (HopRefused \/ HopCommits(target))
    /\ UNCHANGED <<linkVars, blocked, noting, m_coop_hop_state, m_coop_hop_target,
                   m_last_tx_was_offer, m_rendezvous_fallback_pending>>

hop_work_fn ==
    /\ Runs("hop")
    /\ m_rendezvous_fallback_pending' = FALSE
    /\ \E target \in HopTargets :
          \/ target \in {INVALID, channel} /\ HopStays
          \/ target \notin {INVALID, channel} /\ (HopRefused \/ HopCommits(target))
    /\ UNCHANGED <<linkVars, blocked, noting, m_coop_hop_state, m_coop_hop_target,
                   m_last_tx_was_offer>>

----------------------------------------------------------------------------
(* The cooperative handshake.                                               *)

\* Sent, silently dropped in the transport's quiet window, or refused.
coop_hop_offer_work_fn ==
    /\ Runs("offer")
    /\ works' = works \ {"offer"}
    /\ \/ /\ ~(m_link_up /\ m_active)
          /\ HandshakeOver
          /\ UNCHANGED m_last_tx_was_offer
       \/ /\ m_link_up /\ m_active /\ m_coop_hop_state # "COOP_OFFERED"
          /\ UNCHANGED coopVars
       \/ /\ m_link_up /\ m_active /\ m_coop_hop_state = "COOP_OFFERED"
          /\ \E target \in AgreedOrPick(TRUE) :
                \/ /\ target # INVALID
                   /\ m_coop_hop_target' = target
                   /\ m_last_tx_was_offer' = TRUE
                   /\ offer' \in {"queued", "none"}
                   /\ UNCHANGED m_coop_hop_state
                \/ /\ HandshakeOver
                   /\ m_last_tx_was_offer' =
                         IF target = INVALID THEN m_last_tx_was_offer ELSE FALSE
    /\ UNCHANGED <<linkVars, targetVars, timeVars, blocked, noting,
                   m_post_hop_burst_remaining, m_rendezvous_fallback_pending>>

coop_hop_commit_work_fn ==
    /\ Runs("commit")
    /\ \/ /\ m_coop_hop_state # "COOP_ARMED"
          /\ works' = works \ {"commit"}
          /\ UNCHANGED <<coopVars, targetVars, timeVars, m_post_hop_burst_remaining>>
       \/ /\ m_coop_hop_state = "COOP_ARMED"
          /\ HandshakeOver
          /\ UNCHANGED m_last_tx_was_offer
          /\ \/ /\ m_coop_hop_target \in {INVALID, channel}
                /\ works' = works \ {"commit"}
                /\ UNCHANGED <<targetVars, timeVars, m_post_hop_burst_remaining>>
             \/ /\ m_coop_hop_target \notin {INVALID, channel}
                /\ works' = (works \ {"commit"}) \cup {"hop_retry"}
                /\ UNCHANGED <<targetVars, timeVars, m_post_hop_burst_remaining>>
             \/ /\ m_coop_hop_target \notin {INVALID, channel}
                /\ m_prev_channel' = INVALID
                /\ commit_hop_bookkeeping(m_coop_hop_target, "commit")
    /\ UNCHANGED <<linkVars, blocked, noting, m_rendezvous_fallback_pending>>

----------------------------------------------------------------------------
(* What the pairing state machine and the user's traffic call.              *)

\* What k_work_reschedules enter_active_state makes, given what it read.
Activation(wasActive) == {"idle_check"} \cup (IF wasActive THEN {} ELSE {"negotiate"})

channel_hop_ep_on_connected ==
    /\ blocked = "no"
    /\ m_link_up' = TRUE /\ m_active' = TRUE
    /\ works' = works \cup Activation(m_active)
    /\ UNCHANGED <<targetVars, timeVars, coopVars, blocked, noting, overtaken,
                   m_post_hop_burst_remaining, m_rendezvous_fallback_pending>>

\* Mutant of channel_hop_ep_on_disconnected: the endpoint stays active.
channel_hop_ep_on_disconnected_Active ==
    /\ m_link_up' = FALSE
    /\ m_committed_next' = INVALID /\ m_prev_channel' = INVALID
    /\ m_post_hop_burst_remaining' = 0
    /\ cooldown' = FALSE /\ silence' = "never"
    /\ m_rendezvous_fallback_pending' = FALSE
    /\ works' = works \cap {"hop"}
    /\ coop_hop_abort
    /\ UNCHANGED <<m_active, overtaken, channel, blocked, noting>>

\* hop_work is the one item that is not cancelled.
channel_hop_ep_on_disconnected ==
    /\ m_link_up' = FALSE /\ m_active' = FALSE /\ overtaken' = FALSE
    /\ m_committed_next' = INVALID /\ m_prev_channel' = INVALID
    /\ m_post_hop_burst_remaining' = 0
    /\ cooldown' = FALSE /\ silence' = "never"
    /\ m_rendezvous_fallback_pending' = FALSE
    /\ works' = works \cap {"hop"}
    /\ coop_hop_abort
    /\ UNCHANGED <<channel, blocked, noting>>

\* A user thread finds the link up; sends during a side trip are dropped before
\* they come here.
channel_hop_ep_note_user_tx ==
    /\ noting = "no" /\ m_link_up /\ blocked # "trip"
    /\ noting' = "linked"
    /\ UNCHANGED <<linkVars, targetVars, timeVars, coopVars, works, blocked,
                   m_post_hop_burst_remaining, m_rendezvous_fallback_pending>>

\* enter_active_state on that thread: it reads m_active ...
enter_active_state ==
    /\ noting = "linked"
    /\ noting' = IF m_active THEN "refresh" ELSE "activate"
    /\ UNCHANGED <<linkVars, targetVars, timeVars, coopVars, works, blocked,
                   m_post_hop_burst_remaining, m_rendezvous_fallback_pending>>

\* ... and acts on what it read, which may no longer be so.
EntersActive ==
    /\ noting \in {"refresh", "activate"}
    /\ noting' = "no"
    /\ m_active' = (m_active \/ noting = "activate")
    /\ overtaken' = (overtaken \/ (noting = "activate" /\ ~m_link_up))
    /\ works' = works \cup Activation(noting = "refresh")
    /\ UNCHANGED <<m_link_up, targetVars, timeVars, coopVars, blocked,
                   m_post_hop_burst_remaining, m_rendezvous_fallback_pending>>

\* A CONFIRM, which is taken whether or not the link is up.
channel_hop_ep_on_rx_confirm(agreed) ==
    /\ blocked = "no"
    /\ m_committed_next' = agreed
    /\ works' = IF m_committed_next = INVALID /\ m_link_up /\ m_active
                THEN works \cup {"negotiate"} ELSE works
    /\ UNCHANGED <<linkVars, channel, m_prev_channel, timeVars, coopVars, blocked,
                   noting, m_post_hop_burst_remaining, m_rendezvous_fallback_pending>>

\* An ACCEPT with this handshake's seq: it rode on the ACK of the OFFER.
channel_hop_ep_on_rx_accept(agreed) ==
    /\ blocked = "no" /\ offer = "acked"
    /\ m_coop_hop_state \in {"COOP_OFFERED", "COOP_ARMED"}
    /\ m_coop_hop_target' = agreed
    /\ UNCHANGED <<linkVars, targetVars, timeVars, m_coop_hop_state,
                   m_last_tx_was_offer, offer, works, blocked, noting,
                   m_post_hop_burst_remaining, m_rendezvous_fallback_pending>>

----------------------------------------------------------------------------
(* TX events, from the RADIO interrupt.  Those of a side trip go to the     *)
(* thread that waits for them.                                              *)

\* Mutant of channel_hop_ep_on_tx_fail_isr: the tag goes, the state stays.
channel_hop_ep_on_tx_fail_isr_Tag(scheduled) ==
    /\ m_last_tx_was_offer' = FALSE
    /\ works' = IF m_last_tx_was_offer \/ ~m_active \/ cooldown
                THEN scheduled ELSE scheduled \cup {"hop"}
    /\ UNCHANGED <<m_coop_hop_state, m_coop_hop_target, offer,
                   m_rendezvous_fallback_pending>>

\* A failed OFFER ends the handshake and does not count; else the endpoint
\* hops if it is active, and during the cooldown only to the rendezvous
\* channel, after a long silence, once.
channel_hop_ep_on_tx_fail_isr(scheduled) ==
    LET failedOffer == m_last_tx_was_offer /\ m_coop_hop_state = "COOP_OFFERED"
        fallback == /\ m_active /\ cooldown /\ silence = "long"
                    /\ ~m_rendezvous_fallback_pending
    IN  /\ m_last_tx_was_offer' = FALSE
        /\ \/ /\ failedOffer
              /\ HandshakeOver
              /\ works' = scheduled
              /\ UNCHANGED m_rendezvous_fallback_pending
           \/ /\ ~failedOffer
              /\ works' = IF fallback \/ (m_active /\ ~cooldown)
                          THEN scheduled \cup {"hop"} ELSE scheduled
              /\ m_rendezvous_fallback_pending' = (m_rendezvous_fallback_pending \/ fallback)
              /\ UNCHANGED <<m_coop_hop_state, m_coop_hop_target, offer>>

\* The transport calls the hook when a window of failures is full, whichever
\* packet it was that failed last.
TxFailTrigger ==
    /\ blocked # "trip"
    /\ channel_hop_ep_on_tx_fail_isr(works)
    /\ UNCHANGED <<linkVars, targetVars, timeVars, blocked, noting,
                   m_post_hop_burst_remaining>>

\* The OFFER fails before the window is full, or a full TX queue is flushed:
\* the hopper is not told.
OfferLost ==
    /\ offer = "queued" /\ blocked # "trip"
    /\ offer' = "none"
    /\ UNCHANGED <<linkVars, targetVars, timeVars, works, blocked, noting,
                   m_coop_hop_state, m_coop_hop_target, m_last_tx_was_offer,
                   m_post_hop_burst_remaining, m_rendezvous_fallback_pending>>

\* REQUEST: negotiate at once, and hop as if sends had failed.
channel_hop_ep_on_request ==
    /\ blocked = "no" /\ m_link_up
    /\ channel_hop_ep_on_tx_fail_isr(works \cup {"negotiate"})
    /\ UNCHANGED <<linkVars, targetVars, timeVars, blocked, noting,
                   m_post_hop_burst_remaining>>

\* degraded: the link-quality window crossed its threshold with this event,
\* and the cooperative cooldown is over.
channel_hop_ep_on_link_degraded_isr(degraded) ==
    /\ degraded /\ m_link_up /\ m_active /\ ~cooldown
    /\ m_coop_hop_state = "COOP_IDLE"
    /\ m_coop_hop_state' = "COOP_OFFERED"
    /\ works' = works \cup {"offer"}

\* own: the packet acknowledged is the OFFER.  Any acknowledged packet arms
\* the commit once an OFFER is tagged.
channel_hop_ep_on_tx_success_isr(own, degraded) ==
    /\ blocked # "trip"
    /\ own => offer = "queued"
    /\ offer' = IF own THEN "acked" ELSE offer
    /\ m_last_tx_was_offer' = FALSE
    /\ m_prev_channel' = INVALID
    /\ silence' = "recent"
    /\ \/ /\ m_last_tx_was_offer /\ m_coop_hop_state = "COOP_OFFERED"
          /\ m_coop_hop_state' = "COOP_ARMED"
          /\ works' = works \cup {"commit"}
       \/ channel_hop_ep_on_link_degraded_isr(degraded)
       \/ /\ ~(m_last_tx_was_offer /\ m_coop_hop_state = "COOP_OFFERED")
          /\ ~degraded
          /\ UNCHANGED <<m_coop_hop_state, works>>
    /\ UNCHANGED <<linkVars, channel, m_committed_next, cooldown, m_coop_hop_target,
                   blocked, noting, m_post_hop_burst_remaining,
                   m_rendezvous_fallback_pending>>

TxSuccess ==
    \E own, degraded \in BOOLEAN : channel_hop_ep_on_tx_success_isr(own, degraded)

----------------------------------------------------------------------------
(* Time.                                                                    *)

\* hop_cooldown_active turns false.
CooldownEnds ==
    /\ cooldown
    /\ cooldown' = FALSE
    /\ UNCHANGED <<linkVars, targetVars, coopVars, silence, works, blocked, noting,
                   m_post_hop_burst_remaining, m_rendezvous_fallback_pending>>

\* CHANNEL_HOP_RENDEZVOUS_FALLBACK_MS pass without a positive link event.
SilenceGrows ==
    /\ silence = "recent"
    /\ silence' = "long"
    /\ UNCHANGED <<linkVars, targetVars, coopVars, cooldown, works, blocked, noting,
                   m_post_hop_burst_remaining, m_rendezvous_fallback_pending>>

----------------------------------------------------------------------------

WorkqueueNext ==
    \/ negotiate_work_fn
    \/ idle_check_work_fn
    \/ send_idle_packet
    \/ post_hop_burst_work_fn
    \/ SideTripEnds
    \/ hop_retry_work_fn
    \/ hop_work_fn
    \/ coop_hop_offer_work_fn
    \/ coop_hop_commit_work_fn

HopNext ==
    \/ WorkqueueNext
    \/ channel_hop_ep_on_connected
    \/ channel_hop_ep_on_disconnected
    \/ channel_hop_ep_note_user_tx
    \/ enter_active_state
    \/ EntersActive
    \/ \E agreed \in Channels : channel_hop_ep_on_rx_confirm(agreed)
    \/ \E agreed \in Channels : channel_hop_ep_on_rx_accept(agreed)
    \/ channel_hop_ep_on_request
    \/ TxFailTrigger
    \/ OfferLost
    \/ TxSuccess
    \/ CooldownEnds
    \/ SilenceGrows

HopSpec == channel_hop_ep_init /\ [][HopNext]_hopVars

\* set_channel is not refused for ever, and a quarantine ends.
HopMoves == hop_work_fn /\ channel' # channel

\* The workqueue serves every item in turn and its sleeps are bounded; a
\* cooldown is; and the link in question is one on which sends go on failing.
HopFairness ==
    /\ WF_hopVars(send_idle_packet)
    /\ WF_hopVars(SideTripEnds)
    /\ SF_hopVars(hop_retry_work_fn)
    /\ SF_hopVars(hop_work_fn)
    /\ SF_hopVars(HopMoves)
    /\ WF_hopVars(CooldownEnds)
    /\ SF_hopVars(TxFailTrigger)

FairHopSpec == HopSpec /\ HopFairness

----------------------------------------------------------------------------
(* Properties.                                                              *)

\* While the endpoint is active its link is up, the negotiation ticks and the
\* idle deadline runs, across hops, reconnects and RESYNCs: an active endpoint
\* never waits for a work item nobody scheduled.  The exception is a user
\* thread that was overtaken by a disconnect inside note_user_tx.
ActiveIsDriven ==
    m_active /\ ~overtaken => m_link_up /\ {"negotiate", "idle_check"} \subseteq works

\* A cooperative handshake always has something that will end it: an offered
\* one its work item or the tag that the next TX event consumes, an armed one
\* its commit timer.  And the tag never outlives its handshake, so it cannot
\* arm the next one before its OFFER is sent.
HandshakeDriven ==
    /\ m_coop_hop_state = "COOP_OFFERED" => ("offer" \in works \/ m_last_tx_was_offer)
    /\ m_coop_hop_state = "COOP_ARMED" => "commit" \in works
    /\ m_last_tx_was_offer => m_coop_hop_state = "COOP_OFFERED" /\ "offer" \notin works

\* An active endpoint whose sends all fail is never stuck on one channel: not
\* by the cooldown, not by a revert, not by a fallback to the rendezvous
\* channel when it is there already, not by a refused set_channel, not by an
\* OFFER whose failure takes the place of a trigger.
DeadLinkLeft ==
    \/ []<><<TxSuccess>>_hopVars
    \/ \A c \in Channels : []<>(channel # c \/ ~m_active)

\* "Endpoint TX_SUCCESS on the OFFER ... -> endpoint arms its commit timer;
\* OFFER TX_FAILED -> endpoint never arms" (include/zmk_esb/protocol.h).
ArmedMeansHeard == m_coop_hop_state = "COOP_ARMED" => offer = "acked"
=============================================================================
