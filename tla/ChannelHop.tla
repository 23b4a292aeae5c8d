----------------------------- MODULE ChannelHop -----------------------------
(***************************************************************************)
(* The channel quarantine and the channel picker shared by keyboard and    *)
(* dongle (src/esb/channel_hop.c).  Times are the 32-bit millisecond       *)
(* uptime, which wraps around after 49.7 days; the word is 2 * Half wide,  *)
(* Half = 2^31 in the code.                                                *)
(***************************************************************************)
EXTENDS Integers

CONSTANTS
    ChannelCount,   \* CHANNEL_HOP_CHANNEL_COUNT
    INVALID,        \* CHANNEL_HOP_INVALID
    MinDistance,    \* the min_distance argument of channel_hop_pick
    Half,           \* half the range of the uptime counter
    Holds,          \* hold times callers use
    MaxUptime       \* bound on how long the system runs

ASSUME ChannelCountAssumption == ChannelCount \in Nat \ {0}
ASSUME InvalidAssumption == INVALID \in Nat /\ INVALID >= ChannelCount
ASSUME MinDistanceAssumption == MinDistance \in Nat
ASSUME HalfAssumption == Half \in Nat \ {0}
ASSUME HoldsAssumption == Holds \subseteq 1..(Half - 1)
ASSUME MaxUptimeAssumption == MaxUptime \in Nat

VARIABLES
    uptime,         \* milliseconds since boot, not wrapped
    expires_at,     \* quarantine_state: the wrapped expiry of each channel
    due             \* history: when the holds really end (0: none was asked)

channelHopVars == <<uptime, expires_at, due>>

Channels == 0..(ChannelCount - 1)
Word == 2 * Half

\* uint32_t arithmetic.
Wrap(n) == n % Word
k_uptime_get_32 == Wrap(uptime)

----------------------------------------------------------------------------
(* Quarantine.                                                              *)

\* Mutant of quarantine_is: the moment of expiry still counts.
quarantine_is_Late(ch) ==
    /\ expires_at[ch] # 0
    /\ Wrap(expires_at[ch] - k_uptime_get_32) \in 0..(Half - 1)

\* (int32_t)(e - now) > 0, and an expiry of 0 means never quarantined.
quarantine_is(ch) ==
    /\ expires_at[ch] # 0
    /\ Wrap(expires_at[ch] - k_uptime_get_32) \in 1..(Half - 1)

\* Mutant of quarantine_add: the last hold asked for wins.
quarantine_add_Last(ch, hold_ms) ==
    /\ expires_at' = [expires_at EXCEPT ![ch] = Wrap(k_uptime_get_32 + hold_ms)]
    /\ due' = IF uptime + hold_ms > due[ch]
              THEN [due EXCEPT ![ch] = uptime + hold_ms] ELSE due
    /\ UNCHANGED uptime

\* The later of the two expiries stays, by an unsigned compare.
quarantine_add(ch, hold_ms) ==
    LET new_expiry == Wrap(k_uptime_get_32 + hold_ms)
    IN  /\ expires_at' = IF new_expiry > expires_at[ch]
                         THEN [expires_at EXCEPT ![ch] = new_expiry]
                         ELSE expires_at
        /\ due' = IF uptime + hold_ms > due[ch]
                  THEN [due EXCEPT ![ch] = uptime + hold_ms] ELSE due
        /\ UNCHANGED uptime

quarantine_reset ==
    /\ expires_at' = [ch \in Channels |-> 0]
    /\ due' = [ch \in Channels |-> 0]
    /\ UNCHANGED uptime

Tick ==
    /\ uptime < MaxUptime
    /\ uptime' = uptime + 1
    /\ UNCHANGED <<expires_at, due>>

----------------------------------------------------------------------------
(* Picking a channel.                                                       *)

Distance(a, b) == IF a < b THEN b - a ELSE a - b

within_distance_of_quarantine(ch, d) ==
    \E i \in ((ch - d)..(ch + d)) \cap Channels : i # ch /\ quarantine_is(i)

\* Channels that pass at distance d; avoid may be INVALID.
Candidates(d, avoid) ==
    {ch \in Channels :
        /\ ~quarantine_is(ch)
        /\ ch # avoid
        /\ d > 0 => /\ ~within_distance_of_quarantine(ch, d)
                    /\ avoid \in Channels => Distance(ch, avoid) > d}

\* Mutant of StopsAt: the distance grows instead of shrinking.
StopsAt_First(d, min_distance, avoid) ==
    /\ Candidates(d, avoid) # {}
    /\ \A e \in 0..(d - 1) : Candidates(e, avoid) = {}

\* The distance the search stops at: the largest one with a candidate.
StopsAt(d, min_distance, avoid) ==
    /\ Candidates(d, avoid) # {}
    /\ \A e \in (d + 1)..min_distance : Candidates(e, avoid) = {}

\* Every result the pseudo-random choice may give.
channel_hop_pick(min_distance, avoid) ==
    IF \E d \in 0..min_distance : StopsAt(d, min_distance, avoid)
    THEN UNION {Candidates(d, avoid) :
                    d \in {e \in 0..min_distance : StopsAt(e, min_distance, avoid)}}
    ELSE {INVALID}

----------------------------------------------------------------------------

ChannelHopInit ==
    /\ uptime = 0
    /\ expires_at = [ch \in Channels |-> 0]
    /\ due = [ch \in Channels |-> 0]

ChannelHopNext ==
    \/ Tick
    \/ quarantine_reset
    \/ \E ch \in Channels, hold_ms \in Holds : quarantine_add(ch, hold_ms)

ChannelHopSpec == ChannelHopInit /\ [][ChannelHopNext]_channelHopVars

----------------------------------------------------------------------------
(* Properties.                                                              *)

\* Type invariant of the quarantine.
ChannelHopTypeOK ==
    /\ uptime \in 0..MaxUptime
    /\ expires_at \in [Channels -> 0..(Word - 1)]
    /\ due \in [Channels -> Nat]

\* channel_hop.h: a channel added is quarantined "for at least hold_ms from
\* now", and a longer hold that is running is not cut short.
HeldLongEnough ==
    \A ch \in Channels : due[ch] > uptime => quarantine_is(ch)

\* channel_hop.h: a channel is quarantined "iff expires_at[ch] >
\* k_uptime_get_32()": once its hold is over it is free again, and stays free.
FreedOnTime ==
    \A ch \in Channels : due[ch] <= uptime => ~quarantine_is(ch)

\* What a pick must be kept away from.
Bad(avoid) == {ch \in Channels : ch = avoid \/ quarantine_is(ch)}

\* No channel is bad at distance d or less from ch.
Clear(ch, d, avoid) == \A b \in Bad(avoid) : Distance(ch, b) > d

\* The relaxing search of channel_hop_pick finds the best there is: its result
\* is usable (INVALID only if nothing is), keeps min_distance if any channel
\* does, and otherwise is as far from every quarantined channel and from
\* avoid_channel as any channel.
PickIsBest ==
    \A avoid \in Channels \cup {INVALID} :
        \A ch \in channel_hop_pick(MinDistance, avoid) :
            IF Bad(avoid) = Channels THEN ch = INVALID
            ELSE /\ ch \in Channels \ Bad(avoid)
                 /\ \A other \in Channels, d \in 0..MinDistance :
                        Clear(other, d, avoid) => Clear(ch, d, avoid)
=============================================================================
