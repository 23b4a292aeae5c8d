--------------------------- MODULE HidRelayProofs ---------------------------
(***************************************************************************)
(* Proofs about module HidRelay, for every keymap, report size and depth of *)
(* the queues.  The reports never strand a modifier or a usage: each count  *)
(* is the number of keys that hold the modifier, which is what makes        *)
(* "cleared by the last" right.  And the deferred reports implement module  *)
(* DeferredReports and end on the latest state: what waits is bounded, and  *)
(* a step adds to its end or takes from its front.                         *)
(***************************************************************************)
EXTENDS HidRelay, FiniteSetTheorems, SequenceTheorems, TLAPS

\* Keys of a set that hold a modifier.
Holders(keys, mods, m) == {p \in keys : m \in mods[p]}

\* A count and the flags it belongs to tell who holds what.
CountsTell(rc, out, keys, mods) ==
    /\ rc \in [Mods -> Nat]
    /\ \A m \in Mods : rc[m] = Cardinality(Holders(keys, mods, m))
    /\ out = {m \in Mods : rc[m] > 0}

\* The inductive invariant behind ReportIsTruth.
HidInv ==
    /\ held \subseteq Positions
    /\ CountsTell(explicit_mod_refcount, explicit_mods, held, emods)
    /\ CountsTell(implicit_mod_refcount, implicit_mods, held, imods)
    /\ kb_keys \subseteq {usage[p] : p \in Down({"key"})}
    /\ cons_keys \subseteq {usage[p] : p \in Down({"consumer"})}

----------------------------------------------------------------------------

\* A modifier's holders are finitely many, and the count is zero exactly when
\* there are none.
LEMMA HoldersCount ==
    ASSUME NEW keys \in SUBSET Positions, NEW mods, NEW m
    PROVE  /\ IsFiniteSet(Holders(keys, mods, m))
           /\ Cardinality(Holders(keys, mods, m)) \in Nat
           /\ Cardinality(Holders(keys, mods, m)) = 0 <=> Holders(keys, mods, m) = {}
<1>1. Holders(keys, mods, m) \subseteq Positions
  BY DEF Holders
<1>2. IsFiniteSet(Holders(keys, mods, m))
  BY <1>1, PositionsAssumption, FS_Subset
<1> QED
  BY <1>2, FS_CardinalityType, FS_EmptySet

\* A press adds the key to the holders of its modifiers and to no others.
LEMMA PressCounts ==
    ASSUME NEW keys \in SUBSET Positions, NEW p \in Positions \ keys, NEW mods, NEW m
    PROVE  Cardinality(Holders(keys \cup {p}, mods, m)) =
               Cardinality(Holders(keys, mods, m)) + (IF m \in mods[p] THEN 1 ELSE 0)
<1>1. CASE m \in mods[p]
  <2>1. Holders(keys \cup {p}, mods, m) = Holders(keys, mods, m) \cup {p}
    BY <1>1 DEF Holders
  <2>2. p \notin Holders(keys, mods, m)
    BY DEF Holders
  <2>3. Cardinality(Holders(keys, mods, m) \cup {p}) = Cardinality(Holders(keys, mods, m)) + 1
    <3>1. IsFiniteSet(Holders(keys, mods, m))
      BY HoldersCount
    <3> QED
      BY <2>2, <3>1, FS_AddElement
  <2> QED
    BY <1>1, <2>1, <2>3
<1>2. CASE m \notin mods[p]
  <2>1. Holders(keys \cup {p}, mods, m) = Holders(keys, mods, m)
    BY <1>2 DEF Holders
  <2> QED
    BY <1>2, <2>1, HoldersCount
<1> QED
  BY <1>1, <1>2

\* A release takes the key from the holders of its modifiers.
LEMMA ReleaseCounts ==
    ASSUME NEW keys \in SUBSET Positions, NEW p \in keys, NEW mods, NEW m
    PROVE  Cardinality(Holders(keys \ {p}, mods, m)) =
               Cardinality(Holders(keys, mods, m)) - (IF m \in mods[p] THEN 1 ELSE 0)
<1>1. CASE m \in mods[p]
  <2>1. Holders(keys \ {p}, mods, m) = Holders(keys, mods, m) \ {p}
    BY <1>1 DEF Holders
  <2>2. p \in Holders(keys, mods, m)
    BY <1>1 DEF Holders
  <2>3. Cardinality(Holders(keys, mods, m) \ {p}) = Cardinality(Holders(keys, mods, m)) - 1
    <3>1. IsFiniteSet(Holders(keys, mods, m))
      BY HoldersCount
    <3> QED
      BY <2>2, <3>1, FS_RemoveElement
  <2> QED
    BY <1>1, <2>1, <2>3
<1>2. CASE m \notin mods[p]
  <2>1. Holders(keys \ {p}, mods, m) = Holders(keys, mods, m)
    BY <1>2 DEF Holders
  <2> QED
    BY <1>2, <2>1, HoldersCount
<1> QED
  BY <1>1, <1>2

\* mods_inc and mods_dec keep counts, flags and holders in agreement.
LEMMA ModsStep ==
    ASSUME NEW keys \in SUBSET Positions, NEW p \in Positions,
           NEW mods \in [Positions -> SUBSET Mods], NEW rc, NEW out,
           CountsTell(rc, out, keys, mods)
    PROVE  LET pressed == p \notin keys
               after == IF pressed THEN keys \cup {p} ELSE keys \ {p}
           IN  CountsTell(CountsAfter(rc, mods[p], pressed),
                          ModsAfter(out, rc, mods[p], pressed), after, mods)
<1>1. CASE p \notin keys
  <2>1. \A m \in Mods : Cardinality(Holders(keys \cup {p}, mods, m)) =
                            rc[m] + (IF m \in mods[p] THEN 1 ELSE 0)
    BY <1>1, PressCounts DEF CountsTell
  <2>2. CountsTell(mods_inc(rc, mods[p]), out \cup {m \in mods[p] : rc[m] = 0},
                   keys \cup {p}, mods)
    BY <2>1 DEF CountsTell, mods_inc
  <2> QED
    BY <1>1, <2>2 DEF CountsAfter, ModsAfter
<1>2. CASE p \in keys
  <2>1. \A m \in Mods : Cardinality(Holders(keys \ {p}, mods, m)) =
                            rc[m] - (IF m \in mods[p] THEN 1 ELSE 0)
    BY <1>2, ReleaseCounts DEF CountsTell
  <2>2. \A m \in Mods : m \in mods[p] => rc[m] > 0
    <3> SUFFICES ASSUME NEW m \in Mods, m \in mods[p] PROVE rc[m] > 0
      OBVIOUS
    <3>1. Holders(keys, mods, m) # {}
      BY <1>2 DEF Holders
    <3>2. rc[m] = Cardinality(Holders(keys, mods, m))
      BY DEF CountsTell
    <3>3. rc[m] \in Nat /\ rc[m] # 0
      BY <3>1, <3>2, HoldersCount
    <3> QED
      BY <3>3
  <2>3. CountsTell(mods_dec(rc, mods[p]), out \ {m \in mods[p] : rc[m] = 1},
                   keys \ {p}, mods)
    <3> DEFINE rc2 == mods_dec(rc, mods[p])
    <3>1. rc2 = [m \in Mods |-> IF m \in mods[p] THEN rc[m] - 1 ELSE rc[m]]
      BY <2>2 DEF mods_dec
    <3>2. rc2 \in [Mods -> Nat]
      BY <2>2, <3>1 DEF CountsTell
    <3>3. \A m \in Mods : rc2[m] = Cardinality(Holders(keys \ {p}, mods, m))
      <4>1. \A m \in Mods : rc2[m] = rc[m] - (IF m \in mods[p] THEN 1 ELSE 0)
        BY <3>1 DEF CountsTell
      <4> HIDE DEF rc2
      <4> QED
        BY <2>1, <4>1
    <3>4. out \ {m \in mods[p] : rc[m] = 1} = {m \in Mods : rc2[m] > 0}
      BY <2>2, <3>1 DEF CountsTell
    <3> QED
      BY <3>2, <3>3, <3>4 DEF CountsTell
  <2> QED
    BY <1>2, <2>3 DEF CountsAfter, ModsAfter
<1> QED
  BY <1>1, <1>2

\* A usage stays in a report only while a key of its page holds it.
LEMMA KeysStep ==
    ASSUME NEW keys \in SUBSET Positions, NEW p \in Positions, NEW kind, NEW slots,
           NEW report \in SUBSET {usage[q] : q \in {r \in keys : page[r] = kind}}
    PROVE  LET pressed == p \notin keys
               after == IF pressed THEN keys \cup {p} ELSE keys \ {p}
           IN  (IF page[p] = kind THEN KeysAfter(report, slots, usage[p], pressed)
                ELSE report) \subseteq {usage[q] : q \in {r \in after : page[r] = kind}}
<1>1. CASE p \notin keys
  BY <1>1 DEF KeysAfter
<1>2. CASE p \in keys
  BY <1>2 DEF KeysAfter
<1> QED
  BY <1>1, <1>2

\* The invariant follows the handler whatever it sends.
LEMMA TrackKeepsInv ==
    ASSUME HidInv, NEW p \in Positions, Track(p, p \notin held)
    PROVE  HidInv'
<1> DEFINE after == IF p \notin held THEN held \cup {p} ELSE held \ {p}
<1>1. held' = after /\ held \in SUBSET Positions /\ after \subseteq Positions
  BY DEF HidInv, Track
<1>2. CountsTell(explicit_mod_refcount, explicit_mods, held, emods)' 
  <2>1. CountsTell(explicit_mod_refcount', explicit_mods', after, emods)
    BY <1>1, ModsStep, BindingAssumption DEF HidInv, Track
  <2> QED
    BY <1>1, <2>1 DEF CountsTell
<1>3. CountsTell(implicit_mod_refcount, implicit_mods, held, imods)' 
  <2>1. CountsTell(implicit_mod_refcount', implicit_mods', after, imods)
    BY <1>1, ModsStep, BindingAssumption DEF HidInv, Track
  <2> QED
    BY <1>1, <2>1 DEF CountsTell
<1>4. kb_keys' \subseteq {usage[q] : q \in {r \in after : page[r] = "key"}}
  <2>1. kb_keys \in SUBSET {usage[q] : q \in {r \in held : page[r] = "key"}}
    BY DEF HidInv, Down
  <2>2. kb_keys' = IF page[p] = "key" THEN KeysAfter(kb_keys, KeySlots, usage[p], p \notin held)
                   ELSE kb_keys
    BY DEF Track
  <2> QED
    BY <1>1, <2>1, <2>2, KeysStep
<1>5. cons_keys' \subseteq {usage[q] : q \in {r \in after : page[r] = "consumer"}}
  <2>1. cons_keys \in SUBSET {usage[q] : q \in {r \in held : page[r] = "consumer"}}
    BY DEF HidInv, Down
  <2>2. cons_keys' = IF page[p] = "consumer" THEN KeysAfter(cons_keys, ConsSlots, usage[p], p \notin held)
                   ELSE cons_keys
    BY DEF Track
  <2> QED
    BY <1>1, <2>1, <2>2, KeysStep
<1> QED
  BY <1>1, <1>2, <1>3, <1>4, <1>5 DEF HidInv, Down

\* The counts make the reports true.
LEMMA InvIsTruth == HidInv => ReportIsTruth
<1> SUFFICES ASSUME HidInv PROVE ReportIsTruth
  OBVIOUS
<1>1. \A m \in Mods : explicit_mod_refcount[m] > 0 <=> Holders(held, emods, m) # {}
  BY HoldersCount DEF HidInv, CountsTell
<1>2. \A m \in Mods : implicit_mod_refcount[m] > 0 <=> Holders(held, imods, m) # {}
  BY HoldersCount DEF HidInv, CountsTell
<1>3. explicit_mods = HeldMods(emods)
  BY <1>1 DEF HidInv, CountsTell, HeldMods, Holders
<1>4. implicit_mods = HeldMods(imods)
  BY <1>2 DEF HidInv, CountsTell, HeldMods, Holders
<1> QED
  BY <1>3, <1>4 DEF HidInv, ReportIsTruth

\* The counts agree at start.
LEMMA InvInit == HidInit => HidInv
<1> SUFFICES ASSUME HidInit PROVE HidInv
  OBVIOUS
<1>1. \A mods : \A m \in Mods : Cardinality(Holders({}, mods, m)) = 0
  BY FS_EmptySet DEF Holders
<1> QED
  BY <1>1 DEF HidInit, HidInv, CountsTell, NoMods, Down

\* Only the handler touches what the invariant is about.
LEMMA InvStep == HidInv /\ [HidNext]_hidVars => HidInv'
<1> SUFFICES ASSUME HidInv, [HidNext]_hidVars PROVE HidInv'
  OBVIOUS
<1>1. ASSUME NEW p \in Positions, hid_relay_cb(p) PROVE HidInv'
  BY <1>1, TrackKeepsInv DEF hid_relay_cb
<1>2. CASE UNCHANGED <<held, kb_keys, cons_keys, modVars>>
  BY <1>2 DEF HidInv, CountsTell, Down, modVars
<1>3. hid_retry_work_fn \/ ActiveChanges \/ QuietChanges \/ UNCHANGED hidVars
          => UNCHANGED <<held, kb_keys, cons_keys, modVars>>
  BY DEF hid_retry_work_fn, ActiveChanges, QuietChanges, hidVars, modVars
<1> QED
  BY <1>1, <1>2, <1>3 DEF HidNext

\* Nothing is stranded in the relay's reports, whatever the keymap, the order of
\* presses and releases, the quiet windows and the profile switches.
THEOREM NothingStranded == HidSpec => []ReportIsTruth
  BY InvInit, InvStep, InvIsTruth, PTL DEF HidSpec

----------------------------------------------------------------------------
(* The deferred reports.                                                    *)

\* What waits is a sequence of reports no longer than its depth.
QueueInv ==
    /\ kb_pending \in Seq(KbReports) /\ Len(kb_pending) <= KbDepth
    /\ cons_pending \in Seq(SUBSET Usages) /\ Len(cons_pending) <= ConsDepth

\* The entries given up for a new report are the oldest.
FrontOnly(q, q2, body) ==
    \E n \in 0..Len(q) : q2 = Append(SubSeq(q, n + 1, Len(q)), body)

\* A report appended is the last of a longer queue.
LEMMA Appended ==
    ASSUME NEW S, NEW t \in Seq(S), NEW body \in S
    PROVE  /\ Append(t, body) \in Seq(S) /\ Len(Append(t, body)) = Len(t) + 1
           /\ Append(t, body) # <<>>
           /\ Append(t, body)[Len(Append(t, body))] = body
  BY AppendProperties

\* Enqueueing keeps the depth, ends on the report put in, and gives up entries
\* from the front only.
LEMMA Enqueued ==
    ASSUME NEW S, NEW q \in Seq(S), NEW depth \in Nat \ {0}, Len(q) <= depth,
           NEW body \in S
    PROVE  LET q2 == enqueue_pending(q, depth, body)
           IN  /\ q2 \in Seq(S) /\ Len(q2) <= depth
               /\ q2 # <<>> /\ q2[Len(q2)] = body
               /\ FrontOnly(q, q2, body)
               /\ Len(q) < depth => q2 = Append(q, body)
<1>1. CASE Len(q) < depth
  <2>1. SubSeq(q, 0 + 1, Len(q)) = q
    BY SubSeqFull
  <2>2. enqueue_pending(q, depth, body) = Append(q, body)
    BY <1>1 DEF enqueue_pending
  <2>3. FrontOnly(q, Append(q, body), body)
    BY <2>1 DEF FrontOnly
  <2> DEFINE q2 == Append(q, body)
  <2>4. /\ q2 \in Seq(S) /\ Len(q2) = Len(q) + 1
        /\ q2 # <<>> /\ q2[Len(q2)] = body
    BY Appended
  <2>5. Len(q2) <= depth
    BY <1>1, <2>4
  <2> QED
    BY <1>1, <2>2, <2>3, <2>4, <2>5
<1>2. CASE Len(q) >= depth
  <2>1. q # <<>> /\ Len(q) \in Nat
    BY <1>2
  <2>2. Tail(q) \in Seq(S) /\ Len(Tail(q)) = Len(q) - 1
    BY <2>1
  <2>3. Tail(q) = SubSeq(q, 1 + 1, Len(q))
    BY <2>1, TailIsSubSeq
  <2> DEFINE t == Tail(q)
             q2 == Append(t, body)
  <2>4. enqueue_pending(q, depth, body) = q2
    BY <1>2 DEF enqueue_pending
  <2>5. FrontOnly(q, q2, body)
    <3>1. 1 \in 0..Len(q)
      BY <2>1
    <3> QED
      BY <2>3, <3>1 DEF FrontOnly
  <2>6. t \in Seq(S) /\ Len(t) = Len(q) - 1
    BY <2>2
  <2> HIDE DEF t
  <2>7. /\ q2 \in Seq(S) /\ Len(q2) = Len(t) + 1
        /\ q2 # <<>> /\ q2[Len(q2)] = body
    BY <2>6, Appended
  <2> HIDE DEF q2
  <2>8. Len(q2) <= depth /\ ~(Len(q) < depth)
    BY <1>2, <2>1, <2>6, <2>7
  <2> QED
    BY <2>4, <2>5, <2>7, <2>8
<1> QED
  BY <1>1, <1>2

\* Giving up the whole queue is giving up all of its entries.
LEMMA AllTaken ==
    ASSUME NEW S, NEW q \in Seq(S), q # <<>>
    PROVE  Len(q) \in 1..Len(q) /\ SubSeq(q, Len(q) + 1, Len(q)) = <<>>
<1>1. Len(q) \in Nat /\ Len(q) > 0
  OBVIOUS
<1> QED
  BY <1>1, SubSeqEmpty

\* The reports the relay assembles are reports.
LEMMA Bodies == HidInv' => KbBody' \in KbReports /\ cons_keys' \in SUBSET Usages
<1> SUFFICES ASSUME HidInv' PROVE KbBody' \in KbReports /\ cons_keys' \in SUBSET Usages
  OBVIOUS
<1>1. kb_keys' \subseteq Usages /\ cons_keys' \subseteq Usages
  BY BindingAssumption DEF HidInv, Down
<1>2. explicit_mods' \subseteq Mods /\ implicit_mods' \subseteq Mods
  BY DEF HidInv, CountsTell
<1> QED
  BY <1>1, <1>2 DEF KbBody, KbReports

\* What a step does to the deferred keyboard reports: nothing, or it takes all of
\* them and tells the host the last or none, or defers one more, or sends.
LEMMA StepKb ==
    ASSUME [HidNext]_hidVars
    PROVE  \/ UNCHANGED <<kb_pending, host_kb>>
           \/ /\ kb_pending # <<>> /\ kb_pending' = <<>>
              /\ host_kb' \in {kb_pending[Len(kb_pending)], host_kb}
           \/ /\ kb_pending' = enqueue_pending(kb_pending, KbDepth, KbBody')
              /\ UNCHANGED host_kb
           \/ kb_pending' = <<>> /\ host_kb' = KbBody'
<1> DEFINE Step == \/ UNCHANGED <<kb_pending, host_kb>>
                   \/ /\ kb_pending # <<>> /\ kb_pending' = <<>>
                      /\ host_kb' \in {kb_pending[Len(kb_pending)], host_kb}
                   \/ /\ kb_pending' = enqueue_pending(kb_pending, KbDepth, KbBody')
                      /\ UNCHANGED host_kb
                   \/ kb_pending' = <<>> /\ host_kb' = KbBody'
<1>1. ASSUME NEW p \in Positions, hid_relay_cb(p) PROVE Step
  <2>1. CASE active /\ SendsKeyboard(p)
    BY <1>1, <2>1 DEF hid_relay_cb, send_keyboard
  <2>2. CASE ~(active /\ SendsKeyboard(p))
    BY <1>1, <2>2 DEF hid_relay_cb
  <2> QED
    BY <2>1, <2>2
<1>2. CASE hid_retry_work_fn
  <2>1. CASE kb_pending = <<>>
    BY <1>2, <2>1 DEF hid_retry_work_fn, Drain
  <2>2. CASE kb_pending # <<>>
    BY <1>2, <2>2 DEF hid_retry_work_fn, Drain
  <2> QED
    BY <2>1, <2>2
<1>3. ActiveChanges \/ QuietChanges \/ UNCHANGED hidVars => Step
  BY DEF ActiveChanges, QuietChanges, hidVars, queueVars
<1> QED
  BY <1>1, <1>2, <1>3 DEF HidNext

\* What a step does to the deferred consumer reports: nothing, or it takes all of
\* them and tells the host the last or none, or defers one more, or sends.
LEMMA StepCons ==
    ASSUME [HidNext]_hidVars
    PROVE  \/ UNCHANGED <<cons_pending, host_cons>>
           \/ /\ cons_pending # <<>> /\ cons_pending' = <<>>
              /\ host_cons' \in {cons_pending[Len(cons_pending)], host_cons}
           \/ /\ cons_pending' = enqueue_pending(cons_pending, ConsDepth, cons_keys')
              /\ UNCHANGED host_cons
           \/ cons_pending' = <<>> /\ host_cons' = cons_keys'
<1> DEFINE Step == \/ UNCHANGED <<cons_pending, host_cons>>
                   \/ /\ cons_pending # <<>> /\ cons_pending' = <<>>
                      /\ host_cons' \in {cons_pending[Len(cons_pending)], host_cons}
                   \/ /\ cons_pending' = enqueue_pending(cons_pending, ConsDepth, cons_keys')
                      /\ UNCHANGED host_cons
                   \/ cons_pending' = <<>> /\ host_cons' = cons_keys'
<1>1. ASSUME NEW p \in Positions, hid_relay_cb(p) PROVE Step
  <2>1. CASE active /\ page[p] = "consumer"
    BY <1>1, <2>1 DEF hid_relay_cb, send_consumer
  <2>2. CASE ~(active /\ page[p] = "consumer")
    BY <1>1, <2>2 DEF hid_relay_cb
  <2> QED
    BY <2>1, <2>2
<1>2. CASE hid_retry_work_fn
  <2>1. CASE cons_pending = <<>>
    BY <1>2, <2>1 DEF hid_retry_work_fn, Drain
  <2>2. CASE cons_pending # <<>>
    BY <1>2, <2>2 DEF hid_retry_work_fn, Drain
  <2> QED
    BY <2>1, <2>2
<1>3. ActiveChanges \/ QuietChanges \/ UNCHANGED hidVars => Step
  BY DEF ActiveChanges, QuietChanges, hidVars, queueVars
<1> QED
  BY <1>1, <1>2, <1>3 DEF HidNext

\* What waits stays within its depth.
LEMMA QueueStep == HidInv' /\ QueueInv /\ [HidNext]_hidVars => QueueInv'
<1> SUFFICES ASSUME HidInv', QueueInv, [HidNext]_hidVars PROVE QueueInv'
  OBVIOUS
<1>1. KbBody' \in KbReports /\ cons_keys' \in SUBSET Usages
  BY Bodies
<1>2. kb_pending' \in Seq(KbReports) /\ Len(kb_pending') <= KbDepth
  <2>1. LET q == enqueue_pending(kb_pending, KbDepth, KbBody')
        IN  q \in Seq(KbReports) /\ Len(q) <= KbDepth
    BY <1>1, Enqueued, DepthAssumption DEF QueueInv
  <2>2. <<>> \in Seq(KbReports) /\ Len(<<>>) <= KbDepth
    BY DepthAssumption
  <2> QED
    BY <2>1, <2>2, StepKb DEF QueueInv
<1>3. cons_pending' \in Seq(SUBSET Usages) /\ Len(cons_pending') <= ConsDepth
  <2>1. LET q == enqueue_pending(cons_pending, ConsDepth, cons_keys')
        IN  q \in Seq(SUBSET Usages) /\ Len(q) <= ConsDepth
    BY <1>1, Enqueued, DepthAssumption DEF QueueInv
  <2>2. <<>> \in Seq(SUBSET Usages) /\ Len(<<>>) <= ConsDepth
    BY DepthAssumption
  <2> QED
    BY <2>1, <2>2, StepCons DEF QueueInv
<1> QED
  BY <1>2, <1>3 DEF QueueInv

\* The inductive invariants hold throughout.
LEMMA RelayInv == HidSpec => [](HidInv /\ QueueInv)
<1>1. HidInit => QueueInv
  BY DepthAssumption DEF HidInit, QueueInv
<1> QED
  BY <1>1, InvInit, InvStep, QueueStep, PTL DEF HidSpec

\* Every step is one of the deferred reports' specification.
LEMMA KbRefines ==
    ASSUME HidInv', QueueInv, [HidNext]_hidVars
    PROVE  KbReport!DeferredNext
<1>1. KbBody' \in KbReports
  BY Bodies
<1>2. CASE UNCHANGED <<kb_pending, host_kb>>
  BY <1>2 DEF KbReport!DeferredNext, KbReport!Change
<1>3. CASE /\ kb_pending # <<>> /\ kb_pending' = <<>>
           /\ host_kb' \in {kb_pending[Len(kb_pending)], host_kb}
  <2>1. Len(kb_pending) \in 1..Len(kb_pending)
          /\ SubSeq(kb_pending, Len(kb_pending) + 1, Len(kb_pending)) = <<>>
    BY <1>3, AllTaken DEF QueueInv
  <2>2. KbReport!Deliver(Len(kb_pending))
    BY <1>3, <2>1 DEF KbReport!Deliver
  <2> QED
    BY <2>1, <2>2 DEF KbReport!DeferredNext
<1>4. CASE /\ kb_pending' = enqueue_pending(kb_pending, KbDepth, KbBody')
           /\ UNCHANGED host_kb
  <2>0. FrontOnly(kb_pending, enqueue_pending(kb_pending, KbDepth, KbBody'), KbBody')
    BY <1>1, Enqueued, DepthAssumption DEF QueueInv
  <2>1. PICK n \in 0..Len(kb_pending) :
            enqueue_pending(kb_pending, KbDepth, KbBody')
                = Append(SubSeq(kb_pending, n + 1, Len(kb_pending)), KbBody')
    BY <2>0, Zenon DEF FrontOnly
  <2>2. Len(enqueue_pending(kb_pending, KbDepth, KbBody')) <= KbDepth
    BY <1>1, Enqueued, DepthAssumption DEF QueueInv
  <2>3. KbReport!Defer(n)
    BY <1>4, <2>1, <2>2 DEF KbReport!Defer
  <2> QED
    BY <2>1, <2>3 DEF KbReport!DeferredNext
<1>5. CASE kb_pending' = <<>> /\ host_kb' = KbBody'
  BY <1>5 DEF KbReport!DeferredNext, KbReport!Report
<1> QED
  BY <1>2, <1>3, <1>4, <1>5, StepKb

\* Every step is one of the deferred reports' specification.
LEMMA ConsRefines ==
    ASSUME HidInv', QueueInv, [HidNext]_hidVars
    PROVE  ConsReport!DeferredNext
<1>1. cons_keys' \in SUBSET Usages
  BY Bodies
<1>2. CASE UNCHANGED <<cons_pending, host_cons>>
  BY <1>2 DEF ConsReport!DeferredNext, ConsReport!Change
<1>3. CASE /\ cons_pending # <<>> /\ cons_pending' = <<>>
           /\ host_cons' \in {cons_pending[Len(cons_pending)], host_cons}
  <2>1. Len(cons_pending) \in 1..Len(cons_pending)
          /\ SubSeq(cons_pending, Len(cons_pending) + 1, Len(cons_pending)) = <<>>
    BY <1>3, AllTaken DEF QueueInv
  <2>2. ConsReport!Deliver(Len(cons_pending))
    BY <1>3, <2>1 DEF ConsReport!Deliver
  <2> QED
    BY <2>1, <2>2 DEF ConsReport!DeferredNext
<1>4. CASE /\ cons_pending' = enqueue_pending(cons_pending, ConsDepth, cons_keys')
           /\ UNCHANGED host_cons
  <2>0. FrontOnly(cons_pending, enqueue_pending(cons_pending, ConsDepth, cons_keys'), cons_keys')
    BY <1>1, Enqueued, DepthAssumption DEF QueueInv
  <2>1. PICK n \in 0..Len(cons_pending) :
            enqueue_pending(cons_pending, ConsDepth, cons_keys')
                = Append(SubSeq(cons_pending, n + 1, Len(cons_pending)), cons_keys')
    BY <2>0, Zenon DEF FrontOnly
  <2>2. Len(enqueue_pending(cons_pending, ConsDepth, cons_keys')) <= ConsDepth
    BY <1>1, Enqueued, DepthAssumption DEF QueueInv
  <2>3. ConsReport!Defer(n)
    BY <1>4, <2>1, <2>2 DEF ConsReport!Defer
  <2> QED
    BY <2>1, <2>3 DEF ConsReport!DeferredNext
<1>5. CASE cons_pending' = <<>> /\ host_cons' = cons_keys'
  BY <1>5 DEF ConsReport!DeferredNext, ConsReport!Report
<1> QED
  BY <1>2, <1>3, <1>4, <1>5, StepCons

\* Both kinds of report implement module DeferredReports: whatever the depth of
\* the queues, the host only moves forward.
THEOREM RelayRefines == HidSpec => ReportsAreDeferred
<1>1. HidInit => KbReport!DeferredInit /\ ConsReport!DeferredInit
  BY DEF HidInit, KbReport!DeferredInit, ConsReport!DeferredInit
<1>2. HidInv' /\ QueueInv /\ [HidNext]_hidVars
        => [KbReport!DeferredNext]_(KbReport!deferredVars)
             /\ [ConsReport!DeferredNext]_(ConsReport!deferredVars)
  BY KbRefines, ConsRefines
<1> QED
  BY <1>1, <1>2, RelayInv, PTL
  DEF HidSpec, ReportsAreDeferred, KbReport!DeferredSpec, ConsReport!DeferredSpec

----------------------------------------------------------------------------
(* The host catches up.                                                     *)

\* An event that is not for the keyboard report leaves it as it is.
LEMMA UntouchedKb ==
    ASSUME NEW p \in Positions, hid_relay_cb(p),
           page[p] \notin {"mod", "key"}, emods[p] \cup imods[p] = {}
    PROVE  KbBody' = KbBody
<1>1. emods[p] = {} /\ imods[p] = {}
  OBVIOUS
<1>2. explicit_mods' = explicit_mods /\ implicit_mods' = implicit_mods
  BY <1>1 DEF hid_relay_cb, Track, ModsAfter
<1>3. kb_keys' = kb_keys
  BY DEF hid_relay_cb, Track
<1> QED
  BY <1>2, <1>3 DEF KbBody

\* The last keyboard report deferred or sent is the current one.
KbLatest ==
    "kb" \notin missed =>
        KbBody = IF kb_pending = <<>> THEN host_kb ELSE kb_pending[Len(kb_pending)]

ConsLatest ==
    "cons" \notin missed =>
        cons_keys = IF cons_pending = <<>> THEN host_cons
                    ELSE cons_pending[Len(cons_pending)]

\* A keyboard report that changes is deferred, sent or counted as missed.
LEMMA KbLatestStep ==
    ASSUME HidInv', QueueInv, KbLatest, [HidNext]_hidVars
    PROVE  KbLatest'
<1>0. KbBody' \in KbReports
  BY Bodies
<1>1. ASSUME NEW p \in Positions, hid_relay_cb(p) PROVE KbLatest'
  <2>1. CASE active /\ SendsKeyboard(p) /\ quiet
    <3> DEFINE q == enqueue_pending(kb_pending, KbDepth, KbBody')
    <3>1. kb_pending' = q
      BY <1>1, <2>1 DEF hid_relay_cb, send_keyboard
    <3>2. q # <<>> /\ q[Len(q)] = KbBody'
      BY <1>0, Enqueued, DepthAssumption DEF QueueInv
    <3> QED
      BY <3>1, <3>2 DEF KbLatest
  <2>2. CASE active /\ SendsKeyboard(p) /\ ~quiet
    BY <1>1, <2>2 DEF hid_relay_cb, send_keyboard, KbLatest
  <2>3. CASE active /\ ~SendsKeyboard(p)
    <3>1. page[p] \notin {"mod", "key"} /\ emods[p] \cup imods[p] = {}
      BY <2>3, BindingAssumption DEF SendsKeyboard
    <3>2. KbBody' = KbBody
      BY <1>1, <3>1, UntouchedKb
    <3>3. kb_pending' = kb_pending /\ host_kb' = host_kb /\ missed' = missed \ Touched(p)
      BY <1>1, <2>3 DEF hid_relay_cb
    <3>4. "kb" \notin Touched(p)
      BY <3>1 DEF Touched
    <3> QED
      BY <3>2, <3>3, <3>4 DEF KbLatest
  <2>4. CASE ~active
    <3> SUFFICES ASSUME "kb" \notin missed' PROVE KbLatest'
      BY DEF KbLatest
    <3>1. "kb" \notin missed /\ "kb" \notin Touched(p)
      BY <1>1, <2>4 DEF hid_relay_cb
    <3>2. KbBody' = KbBody
      BY <1>1, <3>1, UntouchedKb DEF Touched
    <3>3. host_kb' = host_kb /\ kb_pending' = kb_pending
      BY <1>1, <2>4 DEF hid_relay_cb, Deferred
    <3> QED
      BY <3>1, <3>2, <3>3 DEF KbLatest
  <2> QED
    BY <2>1, <2>2, <2>3, <2>4
<1>2. CASE hid_retry_work_fn
  <2>1. KbBody' = KbBody /\ kb_pending' = <<>> /\ host_kb' \in Drain(kb_pending, host_kb)
          /\ missed' = IF active THEN missed ELSE missed \cup Deferred
    BY <1>2 DEF hid_retry_work_fn, KbBody, modVars
  <2> QED
    BY <2>1 DEF Drain, Deferred, KbLatest
<1>3. CASE ActiveChanges \/ QuietChanges \/ UNCHANGED hidVars
  BY <1>3 DEF ActiveChanges, QuietChanges, hidVars, queueVars, modVars, KbBody, KbLatest
<1> QED
  BY <1>1, <1>2, <1>3 DEF HidNext

\* So is a consumer report.
LEMMA ConsLatestStep ==
    ASSUME HidInv', QueueInv, ConsLatest, [HidNext]_hidVars
    PROVE  ConsLatest'
<1>0. cons_keys' \in SUBSET Usages
  BY Bodies
<1>1. ASSUME NEW p \in Positions, hid_relay_cb(p) PROVE ConsLatest'
  <2>1. CASE active /\ page[p] = "consumer" /\ quiet
    <3> DEFINE q == enqueue_pending(cons_pending, ConsDepth, cons_keys')
    <3>1. cons_pending' = q
      BY <1>1, <2>1 DEF hid_relay_cb, send_consumer
    <3>2. q # <<>> /\ q[Len(q)] = cons_keys'
      BY <1>0, Enqueued, DepthAssumption DEF QueueInv
    <3> QED
      BY <3>1, <3>2 DEF ConsLatest
  <2>2. CASE active /\ page[p] = "consumer" /\ ~quiet
    BY <1>1, <2>2 DEF hid_relay_cb, send_consumer, ConsLatest
  <2>3. CASE active /\ page[p] # "consumer"
    BY <1>1, <2>3 DEF hid_relay_cb, Track, Touched, ConsLatest
  <2>4. CASE ~active
    BY <1>1, <2>4 DEF hid_relay_cb, Track, Touched, Deferred, ConsLatest
  <2> QED
    BY <2>1, <2>2, <2>3, <2>4
<1>2. CASE hid_retry_work_fn
  BY <1>2 DEF hid_retry_work_fn, Drain, Deferred, ConsLatest
<1>3. CASE ActiveChanges \/ QuietChanges \/ UNCHANGED hidVars
  BY <1>3 DEF ActiveChanges, QuietChanges, hidVars, queueVars, ConsLatest
<1> QED
  BY <1>1, <1>2, <1>3 DEF HidNext

\* However the queues are overrun and the profile switched, the last report of
\* each kind deferred or sent is the current one.
THEOREM HostUpToDate == HidSpec => []HostCatchesUp
<1>1. HidInit => KbLatest /\ ConsLatest
  BY DEF HidInit, KbLatest, ConsLatest
<1>2. HidInv' /\ QueueInv /\ KbLatest /\ ConsLatest /\ [HidNext]_hidVars
        => KbLatest' /\ ConsLatest'
  BY KbLatestStep, ConsLatestStep
<1>3. KbLatest /\ ConsLatest => HostCatchesUp
  BY DEF KbLatest, ConsLatest, HostCatchesUp
<1> QED
  BY <1>1, <1>2, <1>3, RelayInv, PTL DEF HidSpec

----------------------------------------------------------------------------
(* Keystrokes are not swallowed.                                            *)

\* A report put at the end is shown, and so is all that was.
LEMMA ShownAppend ==
    ASSUME NEW q \in Seq(KbReports), NEW body \in KbReports
    PROVE  Shown(q) \cup body.keys \subseteq Shown(Append(q, body))
<1> DEFINE q2 == Append(q, body)
<1>1. /\ Len(q) \in Nat /\ Len(q2) = Len(q) + 1
      /\ DOMAIN q = 1..Len(q) /\ DOMAIN q2 = 1..Len(q2)
      /\ q2[Len(q) + 1] = body
      /\ \A i \in 1..Len(q) : q2[i] = q[i]
  BY AppendProperties
<1> HIDE DEF q2
<1>2. \A i \in DOMAIN q : i \in DOMAIN q2 /\ q2[i] = q[i]
  BY <1>1
<1>3. Len(q) + 1 \in DOMAIN q2
  BY <1>1
<1>4. Shown(q) \subseteq Shown(q2)
  BY <1>2 DEF Shown
<1>5. body.keys \subseteq Shown(q2)
  BY <1>1, <1>3 DEF Shown
<1> QED
  BY <1>4, <1>5 DEF q2

\* While the queue has not been overrun, a keystroke made within a quiet window
\* is in a deferred report.
THEOREM KeystrokesKept == HidSpec => []TapsNotSwallowed
<1>1. HidInit => TapsNotSwallowed
  BY DEF HidInit, TapsNotSwallowed
<1>2. HidInv' /\ QueueInv /\ TapsNotSwallowed /\ [HidNext]_hidVars => TapsNotSwallowed'
  <2> SUFFICES ASSUME HidInv', QueueInv, TapsNotSwallowed, [HidNext]_hidVars
               PROVE  TapsNotSwallowed'
    OBVIOUS
  <2>0. KbBody' \in KbReports /\ KbBody'.keys = kb_keys'
    BY Bodies DEF KbBody
  <2>1. ASSUME NEW p \in Positions, hid_relay_cb(p) PROVE TapsNotSwallowed'
    <3>1. CASE (was_active /\ ~active) \/ (active /\ SendsKeyboard(p) /\ ~quiet)
      BY <2>1, <3>1 DEF hid_relay_cb, TapsNotSwallowed
    <3>2. CASE active /\ SendsKeyboard(p) /\ quiet
      <4> SUFFICES ASSUME ~overflowed' PROVE unseen' \subseteq Shown(kb_pending')
        BY DEF TapsNotSwallowed, Shown
      <4>1. kb_pending' = enqueue_pending(kb_pending, KbDepth, KbBody')
              /\ overflowed' = (overflowed \/ Len(kb_pending) >= KbDepth)
        BY <2>1, <3>2 DEF hid_relay_cb, send_keyboard
      <4>2. ~overflowed /\ ~(Len(kb_pending) >= KbDepth)
        BY <4>1
      <4>3. kb_pending' = Append(kb_pending, KbBody')
        BY <4>1, <4>2 DEF enqueue_pending
      <4>4. Shown(kb_pending) \cup kb_keys' \subseteq Shown(kb_pending')
        BY <2>0, <4>3, ShownAppend DEF QueueInv
      <4>5. unseen' \subseteq unseen \cup kb_keys'
        BY <2>1, <3>2 DEF hid_relay_cb
      <4> QED
        BY <4>2, <4>4, <4>5 DEF TapsNotSwallowed
    <3>3. CASE ~(was_active /\ ~active) /\ ~(active /\ SendsKeyboard(p))
      BY <2>1, <3>3 DEF hid_relay_cb, TapsNotSwallowed, Shown
    <3> QED
      BY <3>1, <3>2, <3>3
  <2>2. CASE hid_retry_work_fn
    BY <2>2 DEF hid_retry_work_fn, TapsNotSwallowed
  <2>3. CASE ActiveChanges \/ QuietChanges \/ UNCHANGED hidVars
    BY <2>3 DEF ActiveChanges, QuietChanges, hidVars, queueVars, TapsNotSwallowed, Shown
  <2> QED
    BY <2>1, <2>2, <2>3 DEF HidNext
<1> QED
  BY <1>1, <1>2, RelayInv, PTL DEF HidSpec

----------------------------------------------------------------------------
(* What DeferredDelivered rests on.                                         *)

\* Deferred reports have somebody to send them.
RetryScheduled == kb_pending # <<>> \/ cons_pending # <<>> => hid_retry_work

\* As long as a report is deferred the retry work is scheduled (hid_relay_cb,
\* hid_retry_work_fn): no report is left waiting for the next keystroke.
THEOREM RetryIsScheduled == HidSpec => []RetryScheduled
<1>1. HidInit => RetryScheduled
  BY DEF HidInit, RetryScheduled
<1>2. RetryScheduled /\ [HidNext]_hidVars => RetryScheduled'
  <2> SUFFICES ASSUME RetryScheduled, [HidNext]_hidVars PROVE RetryScheduled'
    OBVIOUS
  <2> USE DEF RetryScheduled
  <2>1. ASSUME NEW p \in Positions, hid_relay_cb(p) PROVE RetryScheduled'
    BY <2>1 DEF hid_relay_cb, send_keyboard, send_consumer
  <2>2. CASE hid_retry_work_fn
    BY <2>2 DEF hid_retry_work_fn
  <2>3. CASE ActiveChanges \/ QuietChanges \/ UNCHANGED hidVars
    BY <2>3 DEF ActiveChanges, QuietChanges, hidVars, queueVars
  <2> QED
    BY <2>1, <2>2, <2>3 DEF HidNext
<1> QED
  BY <1>1, <1>2, PTL DEF HidSpec
=============================================================================
