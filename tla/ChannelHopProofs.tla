-------------------------- MODULE ChannelHopProofs --------------------------
(***************************************************************************)
(* Proofs about module ChannelHop, for every number of channels and every  *)
(* width of the uptime counter: the quarantine is exact as long as the     *)
(* system has been up for at most half the range of the counter, and the   *)
(* picker never returns a bad channel.                                     *)
(***************************************************************************)
EXTENDS ChannelHop, WellFoundedInduction, TLAPS

\* Until half the range is used up no sum has wrapped: what is stored is the
\* true expiry.
StoredIsDue ==
    /\ uptime \in 0..MaxUptime
    /\ expires_at = due
    /\ due \in [Channels -> Nat]
    /\ \A ch \in Channels : due[ch] < uptime + Half

----------------------------------------------------------------------------
(* Modular arithmetic on uint32_t.                                          *)

\* A number that fits is not changed.
LEMMA WrapSmall ==
    ASSUME NEW n \in 0..(Word - 1)
    PROVE  Wrap(n) = n
BY HalfAssumption DEF Wrap, Word

\* A negative difference comes out near the top of the range.
LEMMA WrapNegative ==
    ASSUME NEW n \in (1 - Word)..(-1)
    PROVE  Wrap(n) = n + Word
BY HalfAssumption DEF Wrap, Word

----------------------------------------------------------------------------
(* Quarantine.                                                              *)

\* quarantine_reset and boot leave nothing behind.
LEMMA QuarantineInit == ChannelHopInit => StoredIsDue
BY HalfAssumption, MaxUptimeAssumption DEF ChannelHopInit, StoredIsDue

\* In the first half of the range quarantine_add stores the true expiry.
LEMMA QuarantineStep ==
    ASSUME MaxUptime <= Half, StoredIsDue, [ChannelHopNext]_channelHopVars
    PROVE  StoredIsDue'
<1>1. CASE Tick
  BY <1>1, HalfAssumption, MaxUptimeAssumption DEF Tick, StoredIsDue
<1>2. CASE quarantine_reset
  BY <1>2, HalfAssumption, MaxUptimeAssumption DEF quarantine_reset, StoredIsDue
<1>3. ASSUME NEW ch \in Channels, NEW hold_ms \in Holds, quarantine_add(ch, hold_ms)
      PROVE  StoredIsDue'
  <2>1. hold_ms \in 1..(Half - 1)
    BY HoldsAssumption
  <2>2. uptime \in 0..(Word - 1) /\ uptime + hold_ms \in 0..(Word - 1)
    BY <2>1, HalfAssumption, MaxUptimeAssumption DEF StoredIsDue, Word
  <2>3. Wrap(k_uptime_get_32 + hold_ms) = uptime + hold_ms
    BY <2>2, WrapSmall DEF k_uptime_get_32
  <2>4. expires_at' = due'
    BY <1>3, <2>3 DEF quarantine_add, StoredIsDue
  <2>5. due' \in [Channels -> Nat] /\ \A c \in Channels : due'[c] < uptime + Half
    BY <1>3, <2>1, HalfAssumption, MaxUptimeAssumption DEF quarantine_add, StoredIsDue
  <2> QED BY <1>3, <2>4, <2>5 DEF quarantine_add, StoredIsDue
<1>4. CASE UNCHANGED channelHopVars
  BY <1>4 DEF channelHopVars, StoredIsDue
<1> QED BY <1>1, <1>2, <1>3, <1>4 DEF ChannelHopNext

\* Then the signed compare of quarantine_is is the compare of true times.
LEMMA QuarantineExact ==
    ASSUME MaxUptime <= Half, StoredIsDue, NEW ch \in Channels
    PROVE  quarantine_is(ch) <=> due[ch] > uptime
<1>1. /\ uptime \in 0..Half
      /\ due[ch] \in Nat
      /\ due[ch] < uptime + Half
      /\ expires_at[ch] = due[ch]
  BY HalfAssumption, MaxUptimeAssumption DEF StoredIsDue
<1>2. k_uptime_get_32 = uptime
  BY <1>1, HalfAssumption, WrapSmall DEF k_uptime_get_32, Word
<1> DEFINE diff == due[ch] - uptime
<1>3. CASE diff >= 0
  <2>1. diff \in 0..(Word - 1)
    BY <1>1, <1>3, HalfAssumption, MaxUptimeAssumption DEF Word
  <2>2. Wrap(diff) = diff
    BY <2>1, WrapSmall
  <2> QED
    BY <1>1, <1>2, <2>1, <2>2, HalfAssumption DEF quarantine_is, Word
<1>4. CASE diff < 0
  <2>1. diff \in (1 - Word)..(-1)
    BY <1>1, <1>4, HalfAssumption DEF Word
  <2>2. Wrap(diff) = diff + Word
    BY <2>1, WrapNegative
  <2> QED
    BY <1>1, <1>2, <1>4, <2>1, <2>2, HalfAssumption DEF quarantine_is, Word
<1> QED BY <1>1, <1>3, <1>4

\* channel_hop.h's promises hold in the first half of the counter's range
\* (24.8 days for 32 bits): a hold lasts as long as asked, and ends then.
THEOREM QuarantineHolds ==
    MaxUptime <= Half => (ChannelHopSpec => []HeldLongEnough)
<1> SUFFICES ASSUME MaxUptime <= Half PROVE ChannelHopSpec => []HeldLongEnough
  OBVIOUS
<1>1. StoredIsDue => HeldLongEnough
  BY QuarantineExact DEF HeldLongEnough
<1>2. StoredIsDue /\ [ChannelHopNext]_channelHopVars => StoredIsDue'
  BY QuarantineStep
<1> QED BY <1>1, <1>2, QuarantineInit, PTL DEF ChannelHopSpec

\* ... and ends then: no channel is shut out longer than asked for.
THEOREM QuarantineEnds ==
    MaxUptime <= Half => (ChannelHopSpec => []FreedOnTime)
<1> SUFFICES ASSUME MaxUptime <= Half PROVE ChannelHopSpec => []FreedOnTime
  OBVIOUS
<1>1. StoredIsDue => FreedOnTime
  <2> SUFFICES ASSUME StoredIsDue, NEW ch \in Channels, due[ch] <= uptime
               PROVE  ~quarantine_is(ch)
    BY DEF FreedOnTime
  <2>1. due[ch] \in Nat /\ uptime \in Nat
    BY MaxUptimeAssumption DEF StoredIsDue
  <2> QED BY <2>1, QuarantineExact
<1>2. StoredIsDue /\ [ChannelHopNext]_channelHopVars => StoredIsDue'
  BY QuarantineStep
<1> QED BY <1>1, <1>2, QuarantineInit, PTL DEF ChannelHopSpec

----------------------------------------------------------------------------
(* Picking a channel.                                                       *)

\* Distance 0 leaves only the hard exclusions.
LEMMA CandidatesAtZero ==
    ASSUME NEW avoid \in Channels \cup {INVALID}
    PROVE  Candidates(0, avoid) = Channels \ Bad(avoid)
BY DEF Candidates, Bad

\* Every candidate is usable, and nothing bad is within the distance.
LEMMA CandidatesClear ==
    ASSUME NEW avoid \in Channels \cup {INVALID}, NEW d \in Nat,
           NEW ch \in Candidates(d, avoid)
    PROVE  ch \in Channels \ Bad(avoid) /\ Clear(ch, d, avoid)
<1>1. ch \in Channels \ Bad(avoid)
  BY DEF Candidates, Bad
<1>2. ASSUME NEW b \in Bad(avoid) PROVE Distance(ch, b) > d
  <2>1. b \in Channels /\ b # ch /\ ch \in Int /\ b \in Int
    BY <1>1, ChannelCountAssumption DEF Bad, Channels
  <2>2. CASE d = 0
    BY <2>1, <2>2 DEF Distance
  <2>3. CASE d > 0 /\ b = avoid
    BY <2>1, <2>3 DEF Candidates
  <2>4. CASE d > 0 /\ quarantine_is(b)
    <3>1. ~within_distance_of_quarantine(ch, d)
      BY <2>4 DEF Candidates
    <3>2. b \notin (ch - d)..(ch + d)
      BY <2>1, <2>4, <3>1 DEF within_distance_of_quarantine
    <3> QED BY <2>1, <3>2 DEF Distance
  <2> QED BY <2>2, <2>3, <2>4 DEF Bad
<1> QED BY <1>1, <1>2 DEF Clear

\* Conversely, a usable channel with nothing bad within the distance is one.
LEMMA ClearIsCandidate ==
    ASSUME NEW avoid \in Channels \cup {INVALID}, NEW d \in Nat,
           NEW ch \in Channels \ Bad(avoid), Clear(ch, d, avoid)
    PROVE  ch \in Candidates(d, avoid)
<1>1. ch \in Int
  BY ChannelCountAssumption DEF Channels
<1>2. ~within_distance_of_quarantine(ch, d)
  <2> SUFFICES ASSUME NEW i \in ((ch - d)..(ch + d)) \cap Channels, i # ch,
                      quarantine_is(i)
               PROVE  FALSE
    BY DEF within_distance_of_quarantine
  <2>1. Distance(ch, i) > d
    BY DEF Clear, Bad
  <2> QED BY <1>1, <2>1 DEF Distance
<1>3. avoid \in Channels => Distance(ch, avoid) > d
  BY DEF Clear, Bad
<1> QED BY <1>2, <1>3 DEF Candidates, Bad

\* The search finds a distance as soon as one channel is usable.
LEMMA SearchStops ==
    ASSUME NEW avoid \in Channels \cup {INVALID}, NEW m \in Nat,
           Candidates(0, avoid) # {}
    PROVE  \E d \in 0..m : StopsAt(d, m, avoid)
<1> DEFINE Slack == {m - d : d \in {e \in 0..m : Candidates(e, avoid) # {}}}
           Less  == OpToRel(<, Nat)
<1>1. Slack \subseteq Nat /\ Slack # {}
  OBVIOUS
<1>2. PICK k \in Slack : \A j \in Slack : ~(<<j, k>> \in Less)
  BY <1>1, NatLessThanWellFounded, WFMin
<1>3. \A j \in Slack : ~(j < k)
  BY <1>1, <1>2 DEF OpToRel
<1>4. PICK d \in 0..m : k = m - d /\ Candidates(d, avoid) # {}
  OBVIOUS
<1>5. ASSUME NEW e \in (d + 1)..m PROVE Candidates(e, avoid) = {}
  <2>1. e \in 0..m /\ m - e < k
    BY <1>4
  <2> QED BY <1>3, <2>1
<1> QED BY <1>4, <1>5 DEF StopsAt

\* The picker is right whatever the quarantine looks like.
LEMMA PickLemma == PickIsBest
<1> SUFFICES ASSUME NEW avoid \in Channels \cup {INVALID},
                    NEW ch \in channel_hop_pick(MinDistance, avoid)
             PROVE  IF Bad(avoid) = Channels THEN ch = INVALID
                    ELSE /\ ch \in Channels \ Bad(avoid)
                         /\ \A other \in Channels, d \in 0..MinDistance :
                                Clear(other, d, avoid) => Clear(ch, d, avoid)
  BY DEF PickIsBest
<1>1. Bad(avoid) \subseteq Channels
  BY DEF Bad
<1>2. CASE Bad(avoid) = Channels
  <2>1. \A d \in 0..MinDistance : Candidates(d, avoid) = {}
    BY <1>2, CandidatesClear, MinDistanceAssumption
  <2> QED BY <1>2, <2>1 DEF channel_hop_pick, StopsAt
<1>3. CASE Bad(avoid) # Channels
  <2>1. Candidates(0, avoid) # {}
    BY <1>1, <1>3, CandidatesAtZero
  <2>2. \E d \in 0..MinDistance : StopsAt(d, MinDistance, avoid)
    BY <2>1, SearchStops, MinDistanceAssumption
  <2>3. PICK stop \in 0..MinDistance : /\ StopsAt(stop, MinDistance, avoid)
                                       /\ ch \in Candidates(stop, avoid)
    BY <2>2 DEF channel_hop_pick
  <2>4. stop \in Nat
    BY <2>3, MinDistanceAssumption
  <2>5. ch \in Channels \ Bad(avoid) /\ Clear(ch, stop, avoid)
    BY <2>3, <2>4, CandidatesClear
  <2>6. ASSUME NEW other \in Channels, NEW d \in 0..MinDistance, Clear(other, d, avoid)
        PROVE  Clear(ch, d, avoid)
    <3>1. CASE d <= stop
      <4> SUFFICES ASSUME NEW b \in Bad(avoid) PROVE Distance(ch, b) > d
        BY DEF Clear
      <4>1. Distance(ch, b) > stop
        BY <2>5 DEF Clear
      <4>2. Distance(ch, b) \in Int
        BY <2>5, ChannelCountAssumption DEF Distance, Bad, Channels
      <4> QED BY <2>4, <3>1, <4>1, <4>2
    <3>2. CASE d > stop
      <4>1. d \in Nat /\ d \in (stop + 1)..MinDistance
        BY <2>4, <3>2, MinDistanceAssumption
      <4>2. other \notin Bad(avoid)
        <5>1. Distance(other, other) = 0
          BY ChannelCountAssumption DEF Distance, Channels
        <5> QED BY <2>6, <4>1, <5>1 DEF Clear
      <4>3. other \in Candidates(d, avoid)
        BY <2>6, <4>1, <4>2, ClearIsCandidate
      <4> QED BY <2>3, <4>1, <4>3 DEF StopsAt
    <3> QED BY <2>4, <3>1, <3>2
  <2> QED BY <1>3, <2>5, <2>6
<1> QED BY <1>2, <1>3

\* channel_hop_pick returns a usable channel if there is one, keeps the asked
\* distance if any channel does, and otherwise is as far from the bad ones as
\* any channel; it answers INVALID only if every channel is bad.
THEOREM PickBest == ChannelHopSpec => []PickIsBest
BY PickLemma, PTL
=============================================================================
