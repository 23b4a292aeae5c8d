------------------------ MODULE InputProcessorProofs ------------------------
(***************************************************************************)
(* Proofs about module InputProcessor, for every set of buttons and every   *)
(* depth of the queue.  The host catches up with the buttons: what the      *)
(* handler has tracked is what it reports, queues last or leaves to be      *)
(* replayed last, wherever the retry work cuts in.  And edges are deferred  *)
(* as module DeferredReports says: the backlog is a window of the array,    *)
(* which moves forward over it.                                            *)
(***************************************************************************)
EXTENDS InputProcessor, SequenceTheorems, TLAPS

Reports == SUBSET Buttons
Slots == 0..(QueueDepth - 1)

\* The types the arguments need, and where the handler's index may stand.
IpTypeOK ==
    /\ buttons \in Reports
    /\ pending_buttons \in [Slots -> Reports]
    /\ pending_count \in 0..QueueDepth
    /\ pc \in {"idle", "enqueue", "append", "drain", "send"}
    /\ i \in Nat
    /\ pc \notin {"append", "drain"} => i = 0
    /\ pc = "append" => i \in Slots
    /\ pc = "send" => pending_count = 0

\* What is tracked is true of every button that was not touched while the
\* endpoint was inactive.
Tracked == \A b \in Buttons \ untracked : b \in buttons <=> b \in down

LastQueued == pending_buttons[pending_count - 1]

\* What is tracked is what the host is told last: between events, while a drain
\* is under way that nothing will follow, and after it.
ToldLast ==
    /\ pc = "idle" =>
          /\ pending_count > 0 => LastQueued = buttons
          /\ pending_count = 0 /\ ~lost => host = buttons
    /\ pc = "drain" /\ ~button_changed =>
          /\ pending_count > 0 => LastQueued = buttons
          /\ i >= pending_count /\ ~lost => host = buttons
    /\ pc = "send" /\ ~button_changed /\ ~lost => host = buttons

IpInv == IpTypeOK /\ Tracked /\ ToldLast

----------------------------------------------------------------------------
(* Types.                                                                   *)

\* A handler that begins starts with its index at zero.
LEMMA BeginTypes ==
    ASSUME IpTypeOK, pc = "idle", NEW changed, NEW sync, send_mouse_report(changed, sync),
           buttons' \in Reports, UNCHANGED <<queueVars, i>>
    PROVE  IpTypeOK' /\ pc' \in {"idle", "enqueue", "drain"}
<1>1. pc' \in {"idle", "enqueue", "drain"}
  BY DEF send_mouse_report
<1> QED
  BY <1>1 DEF IpTypeOK, queueVars

\* The steps of the handler keep to the array.
LEMMA HandlerTypes ==
    ASSUME IpTypeOK, HandlerStep
    PROVE  IpTypeOK'
<1> USE QueueDepthAssumption
<1>1. CASE enqueue_pending_button
  <2>1. CASE pending_count < QueueDepth
    BY <1>1, <2>1 DEF enqueue_pending_button, queueVars, IpTypeOK, Slots
  <2>2. CASE ~(pending_count < QueueDepth)
    <3>1. /\ pc' = "append" /\ i' = QueueDepth - 1 /\ pending_count' = QueueDepth - 1
          /\ buttons' = buttons
          /\ pending_buttons' = [n \in Slots |->
                    pending_buttons[IF n < QueueDepth - 1 THEN n + 1 ELSE n]]
      BY <1>1, <2>2 DEF enqueue_pending_button, Slots
    <3>2. pending_buttons' \in [Slots -> Reports]
      <4>1. \A n \in Slots : (IF n < QueueDepth - 1 THEN n + 1 ELSE n) \in Slots
        BY DEF Slots
      <4> QED
        BY <3>1, <4>1 DEF IpTypeOK
    <3> QED
      BY <3>1, <3>2 DEF IpTypeOK, Slots
  <2> QED
    BY <2>1, <2>2
<1>2. CASE AppendPending
  <2>1. /\ pc = "append" /\ pc' = "idle" /\ i' = 0 /\ pending_count' = i + 1
        /\ pending_buttons' = [pending_buttons EXCEPT ![i] = buttons]
        /\ buttons' = buttons
    BY <1>2 DEF AppendPending
  <2>2. pending_buttons' \in [Slots -> Reports]
    BY <2>1 DEF IpTypeOK
  <2>3. pending_count' \in 0..QueueDepth
    BY <2>1 DEF IpTypeOK, Slots
  <2> QED
    BY <2>1, <2>2, <2>3 DEF IpTypeOK
<1>3. CASE drain_pending_buttons
  <2>1. pc = "drain" /\ buttons' = buttons /\ pending_buttons' = pending_buttons
    BY <1>3 DEF drain_pending_buttons
  <2>2. \/ pc' = pc /\ pending_count' = pending_count /\ i' = i + 1
        \/ pc' = "send" /\ i' = 0 /\ pending_count' = 0
    BY <1>3 DEF drain_pending_buttons
  <2> QED
    BY <2>1, <2>2 DEF IpTypeOK
<1>4. CASE SendCurrent
  <2>1. /\ pc = "send" /\ pc' = "idle"
        /\ UNCHANGED <<buttons, pending_buttons, pending_count, i>>
    BY <1>4 DEF SendCurrent, queueVars
  <2> QED
    BY <2>1 DEF IpTypeOK
<1> QED
  BY <1>1, <1>2, <1>3, <1>4 DEF HandlerStep

\* So does every step.
LEMMA StepTypes ==
    ASSUME IpTypeOK, [IpNext]_ipVars
    PROVE  IpTypeOK'
<1>1. ASSUME NEW sync \in BOOLEAN, NEW b \in Buttons, ButtonEvent(b, sync) PROVE IpTypeOK'
  <2>1. pc = "idle" /\ UNCHANGED <<queueVars, i>>
    BY <1>1 DEF ButtonEvent
  <2>2. CASE active
    <3>1. buttons' \in Reports /\ \E changed : send_mouse_report(changed, sync)
      BY <1>1, <2>2 DEF ButtonEvent, IpTypeOK, Reports
    <3> QED
      BY <2>1, <3>1, BeginTypes
  <2>3. CASE ~active
    BY <1>1, <2>1, <2>3 DEF ButtonEvent, queueVars, IpTypeOK
  <2> QED
    BY <2>2, <2>3
<1>2. ASSUME NEW sync \in BOOLEAN, MotionEvent(sync) PROVE IpTypeOK'
  <2>1. /\ pc = "idle" /\ UNCHANGED <<queueVars, i>> /\ buttons' \in Reports
        /\ send_mouse_report(FALSE, sync)
    BY <1>2 DEF MotionEvent, IpTypeOK
  <2> QED
    BY <2>1, BeginTypes
<1>3. CASE HandlerStep
  BY <1>3, HandlerTypes
<1>4. CASE retry_work_fn
  BY <1>4, QueueDepthAssumption DEF retry_work_fn, threadVars, IpTypeOK
<1>5. CASE Ages \/ ActiveChanges \/ QuietChanges \/ PressureChanges \/ UNCHANGED ipVars
  BY <1>5 DEF Ages, ActiveChanges, QuietChanges, PressureChanges, ipVars, queueVars,
              threadVars, IpTypeOK
<1> QED
  BY <1>1, <1>2, <1>3, <1>4, <1>5 DEF IpNext

----------------------------------------------------------------------------
(* The host catches up.                                                     *)

\* Only an event changes what is tracked, and it is true then.
LEMMA StepTracked ==
    ASSUME Tracked, [IpNext]_ipVars
    PROVE  Tracked'
<1>1. ASSUME NEW sync \in BOOLEAN, NEW b \in Buttons, ButtonEvent(b, sync) PROVE Tracked'
  <2>1. CASE active
    BY <1>1, <2>1 DEF ButtonEvent, Tracked
  <2>2. CASE ~active
    BY <1>1, <2>2 DEF ButtonEvent, Tracked
  <2> QED
    BY <2>1, <2>2
<1>2. CASE UNCHANGED <<down, buttons, untracked>>
  BY <1>2 DEF Tracked
<1> QED
  BY <1>1, <1>2 DEF IpNext, MotionEvent, HandlerStep, enqueue_pending_button, AppendPending,
       drain_pending_buttons, SendCurrent, retry_work_fn, Ages, ActiveChanges, QuietChanges,
       PressureChanges, ipVars

\* An event that changes no button leaves the last report true; one that does
\* is followed by a report of its own.
LEMMA BeginToldLast ==
    ASSUME IpTypeOK, ToldLast, pc = "idle", NEW changed \in BOOLEAN, NEW sync,
           send_mouse_report(changed, sync), ~changed => buttons' = buttons,
           UNCHANGED <<queueVars, i, host, lost>>
    PROVE  ToldLast'
<1>1. i' = 0 /\ pending_count \in Nat
  BY DEF IpTypeOK
<1>2. UNCHANGED <<pending_buttons, pending_count, host, lost>> /\ button_changed' = changed
  BY DEF queueVars, send_mouse_report
<1>3. CASE changed
  <2>1. pc' \in {"enqueue", "drain"}
    BY <1>3 DEF send_mouse_report
  <2> QED
    BY <1>2, <1>3, <2>1 DEF ToldLast
<1>4. CASE ~changed
  <2>1. pc' \in {"idle", "drain"} /\ buttons' = buttons
    BY <1>4 DEF send_mouse_report
  <2>2. /\ pending_count > 0 => LastQueued = buttons
        /\ pending_count = 0 /\ ~lost => host = buttons
    BY DEF ToldLast
  <2> QED
    BY <1>1, <1>2, <2>1, <2>2 DEF ToldLast, LastQueued
<1> QED
  BY <1>3, <1>4

\* A report that is sent is what the host has, or it is known to be lost.
LEMMA Sent ==
    ASSUME NEW report, send_hid_report_raw(report)
    PROVE  ~lost' => host' = report
BY DEF send_hid_report_raw

\* The handler ends on the buttons it tracks.
LEMMA HandlerToldLast ==
    ASSUME IpTypeOK, ToldLast, HandlerStep
    PROVE  ToldLast'
<1>1. CASE enqueue_pending_button
  BY <1>1 DEF enqueue_pending_button, ToldLast
<1>2. CASE AppendPending
  <2>1. /\ pc' = "idle" /\ pending_count' = i + 1 /\ i \in Slots /\ buttons' = buttons
        /\ pending_buttons' = [pending_buttons EXCEPT ![i] = buttons]
    BY <1>2 DEF AppendPending, IpTypeOK
  <2>2. pending_count' > 0 /\ pending_count' - 1 = i
    BY <2>1, QueueDepthAssumption DEF Slots
  <2>3. LastQueued' = buttons'
    BY <2>1, <2>2 DEF LastQueued, IpTypeOK
  <2>4. ~(pending_count' = 0)
    BY <2>2
  <2> QED
    BY <2>1, <2>3, <2>4 DEF ToldLast
<1>3. CASE drain_pending_buttons
  <2>1. pc = "drain" /\ UNCHANGED <<buttons, pending_buttons, button_changed>>
    BY <1>3 DEF drain_pending_buttons
  <2>2. CASE i < pending_count
    <3>1. /\ pc' = "drain" /\ pending_count' = pending_count /\ i' = i + 1
          /\ send_hid_report_raw(pending_buttons[i])
      BY <1>3, <2>1, <2>2 DEF drain_pending_buttons
    <3>2. ~lost' => host' = pending_buttons[i]
      BY <3>1, Sent
    <3>3. i' >= pending_count' => i = pending_count - 1
      BY <2>2, <3>1 DEF IpTypeOK
    <3>4. pending_count > 0
      BY <2>2 DEF IpTypeOK
    <3>5. ~button_changed => LastQueued = buttons
      BY <2>1, <3>4 DEF ToldLast
    <3>6. LastQueued' = LastQueued
      BY <2>1, <3>1 DEF LastQueued
    <3>7. ~button_changed' /\ i' >= pending_count' /\ ~lost' => host' = buttons'
      BY <2>1, <3>2, <3>3, <3>5 DEF LastQueued
    <3> QED
      BY <2>1, <3>1, <3>5, <3>6, <3>7 DEF ToldLast
  <2>3. CASE ~(i < pending_count)
    <3>1. pc' = "send" /\ UNCHANGED <<host, lost>>
      BY <1>3, <2>3 DEF drain_pending_buttons
    <3>2. i >= pending_count
      BY <2>3 DEF IpTypeOK
    <3> QED
      BY <2>1, <3>1, <3>2 DEF ToldLast
  <2> QED
    BY <2>2, <2>3
<1>4. CASE SendCurrent
  <2>1. /\ pc = "send" /\ pc' = "idle" /\ pending_count' = 0 /\ buttons' = buttons
        /\ \/ ~button_changed /\ UNCHANGED <<host, lost>>
           \/ send_hid_report_raw(buttons)
    BY <1>4 DEF SendCurrent, queueVars, IpTypeOK
  <2>2. ~lost' => host' = buttons'
    BY <2>1, Sent DEF ToldLast
  <2>3. ~(pending_count' > 0)
    BY <2>1
  <2> QED
    BY <2>1, <2>2, <2>3 DEF ToldLast
<1> QED
  BY <1>1, <1>2, <1>3, <1>4 DEF HandlerStep

\* The retry work replays what is queued, then what is tracked, wherever it
\* cuts into the handler.
LEMMA RetryToldLast ==
    ASSUME IpTypeOK, ToldLast, retry_work_fn
    PROVE  ToldLast'
<1>1. /\ UNCHANGED <<buttons, pending_buttons, pc, i, button_changed>> /\ pending_count' = 0
      /\ \/ UNCHANGED <<host, lost>> /\ ~(pending_count > 0)
         \/ send_hid_report_raw(LastRetried) /\ (pending_count > 0 \/ motion = "fresh")
  BY DEF retry_work_fn, threadVars
<1>2. ~(pending_count' > 0) /\ pending_count \in Nat /\ i \in Nat
  BY <1>1 DEF IpTypeOK
<1>3. CASE ~(pc \in {"idle", "send"} \/ (pc = "drain" /\ ~button_changed))
  BY <1>1, <1>3 DEF ToldLast
<1>4. CASE pc \in {"idle", "send"} \/ (pc = "drain" /\ ~button_changed)
  <2>1. pending_count > 0 => LastQueued = buttons /\ pc # "send"
    BY <1>4 DEF ToldLast, IpTypeOK
  <2>2. CASE UNCHANGED <<host, lost>> /\ ~(pending_count > 0)
    <3>1. pending_count = 0 /\ i >= pending_count
      BY <1>2, <2>2
    <3> QED
      BY <1>1, <1>2, <2>2, <3>1 DEF ToldLast
  <2>3. CASE send_hid_report_raw(LastRetried) /\ (pending_count > 0 \/ motion = "fresh")
    <3>1. LastRetried = buttons
      BY <2>1, <2>3 DEF LastRetried, LastQueued
    <3>2. ~lost' => host' = buttons'
      BY <1>1, <2>3, <3>1, Sent
    <3> QED
      BY <1>1, <1>2, <3>2 DEF ToldLast
  <2> QED
    BY <1>1, <2>2, <2>3
<1> QED
  BY <1>3, <1>4

\* So every step ends on what is tracked.
LEMMA StepToldLast ==
    ASSUME IpTypeOK, ToldLast, [IpNext]_ipVars
    PROVE  ToldLast'
<1>1. ASSUME NEW sync \in BOOLEAN, NEW b \in Buttons, ButtonEvent(b, sync) PROVE ToldLast'
  <2>1. pc = "idle" /\ UNCHANGED <<queueVars, i, host, lost>>
    BY <1>1 DEF ButtonEvent
  <2>2. CASE active
    <3>1. \E changed \in BOOLEAN : /\ send_mouse_report(changed, sync)
                                   /\ ~changed => buttons' = buttons
      <4> DEFINE after == IF b \notin down THEN buttons \cup {b} ELSE buttons \ {b}
      <4>1. buttons' = after /\ send_mouse_report(after # buttons, sync)
        BY <1>1, <2>2 DEF ButtonEvent
      <4> HIDE DEF after
      <4>2. (after # buttons) \in BOOLEAN /\ (~(after # buttons) => buttons' = buttons)
        BY <4>1
      <4> QED
        BY <4>1, <4>2
    <3> QED
      BY <2>1, <3>1, BeginToldLast
  <2>3. CASE ~active
    <3>1. UNCHANGED <<buttons, pc, button_changed>>
      BY <1>1, <2>3 DEF ButtonEvent
    <3> QED
      BY <2>1, <3>1 DEF queueVars, ToldLast, LastQueued
  <2> QED
    BY <2>2, <2>3
<1>2. ASSUME NEW sync \in BOOLEAN, MotionEvent(sync) PROVE ToldLast'
  <2>1. /\ pc = "idle" /\ UNCHANGED <<queueVars, i, host, lost>> /\ buttons' = buttons
        /\ send_mouse_report(FALSE, sync) /\ FALSE \in BOOLEAN
    BY <1>2 DEF MotionEvent
  <2> QED
    BY <2>1, BeginToldLast
<1>3. CASE HandlerStep
  BY <1>3, HandlerToldLast
<1>4. CASE retry_work_fn
  BY <1>4, RetryToldLast
<1>5. CASE Ages \/ ActiveChanges \/ QuietChanges \/ PressureChanges \/ UNCHANGED ipVars
  <2>1. UNCHANGED <<buttons, pending_buttons, pending_count, pc, i, button_changed, host, lost>>
    BY <1>5 DEF Ages, ActiveChanges, QuietChanges, PressureChanges, ipVars, queueVars,
                threadVars
  <2> QED
    BY <2>1 DEF ToldLast, LastQueued
<1> QED
  BY <1>1, <1>2, <1>3, <1>4, <1>5 DEF IpNext

\* No button is down and nothing is queued at first.
LEMMA InitKeeps == IpInit => IpInv
<1> SUFFICES ASSUME IpInit PROVE IpInv
  OBVIOUS
<1>1. IpTypeOK
  BY QueueDepthAssumption DEF IpInit, IpTypeOK, Slots, Reports
<1>2. Tracked /\ ToldLast
  BY DEF IpInit, Tracked, ToldLast
<1> QED
  BY <1>1, <1>2 DEF IpInv

\* The inductive invariant holds throughout.
LEMMA IpInvariant == IpSpec => []IpInv
<1>1. IpInv /\ [IpNext]_ipVars => IpInv'
  BY StepTypes, StepTracked, StepToldLast DEF IpInv
<1> QED
  BY <1>1, InitKeeps, PTL DEF IpSpec

\* Between events the host is told, or will be told last, which buttons are
\* down (d->buttons, pending_buttons, retry_work_fn), however deep the queue is
\* and wherever the retry work preempts the handler.
THEOREM HostCatchesUpWithButtons == IpSpec => []ButtonsCatchUp
<1>1. IpInv => ButtonsCatchUp
  <2> SUFFICES ASSUME IpInv, pc = "idle", pending_count > 0 \/ ~lost
               PROVE  LastTold = buttons
    BY DEF IpInv, Tracked, ButtonsCatchUp
  <2>1. pending_count \in Nat
    BY DEF IpInv, IpTypeOK
  <2>2. CASE pending_count > 0
    BY <2>2 DEF IpInv, ToldLast, LastTold, LastQueued
  <2>3. CASE ~(pending_count > 0)
    <3>1. pending_count = 0
      BY <2>1, <2>3
    <3> QED
      BY <2>3, <3>1 DEF IpInv, ToldLast, LastTold
  <2> QED
    BY <2>2, <2>3
<1> QED
  BY <1>1, IpInvariant, PTL

----------------------------------------------------------------------------
(* Edges are deferred as module DeferredReports says.                       *)

\* The entries of an array from one index up to another, as a sequence.
Window(f, lo, hi) == [n \in 1..(hi - lo) |-> f[lo + n - 1]]

First == IF pc = "drain" THEN i ELSE 0

\* A window is a sequence of reports.
LEMMA WindowSeq ==
    ASSUME NEW f \in [Slots -> Reports], NEW lo \in Nat, NEW hi \in 0..QueueDepth, lo <= hi
    PROVE  /\ Window(f, lo, hi) \in Seq(Reports) /\ Len(Window(f, lo, hi)) = hi - lo
           /\ \A n \in 1..(hi - lo) : Window(f, lo, hi)[n] = f[lo + n - 1]
<1> DEFINE w == Window(f, lo, hi)
<1>1. hi - lo \in Nat
  BY QueueDepthAssumption
<1>2. \A n \in 1..(hi - lo) : lo + n - 1 \in Slots
  BY QueueDepthAssumption DEF Slots
<1>3. w \in [1..(hi - lo) -> Reports]
  BY <1>2 DEF Window
<1>4. w \in Seq(Reports)
  BY <1>1, <1>3, SeqDef
<1>5. DOMAIN w = 1..(hi - lo)
  BY DEF Window
<1> HIDE DEF w
<1>6. Len(w) = hi - lo
  BY <1>1, <1>4, <1>5, LenProperties
<1> QED
  BY <1>4, <1>6 DEF w, Window

\* Nothing lies between an index and a lower one.
LEMMA WindowEmpty ==
    ASSUME NEW f, NEW lo \in Nat, NEW hi \in Nat, hi <= lo
    PROVE  Window(f, lo, hi) = <<>>
<1>1. 1..(hi - lo) = {}
  OBVIOUS
<1> QED
  BY <1>1 DEF Window

\* Two windows onto the same reports, the second from one further on.
OneFurther(f, lo, hi, f2, lo2, hi2) ==
    /\ lo < hi /\ hi2 - lo2 = hi - (lo + 1)
    /\ \A n \in 1..(hi2 - lo2) : f2[lo2 + n - 1] = f[lo + n]

\* The second lacks the oldest of the first.
LEMMA WindowMoves ==
    ASSUME NEW f \in [Slots -> Reports], NEW lo \in Nat, NEW hi \in 0..QueueDepth,
           NEW f2 \in [Slots -> Reports], NEW lo2 \in Nat, NEW hi2 \in 0..QueueDepth,
           OneFurther(f, lo, hi, f2, lo2, hi2)
    PROVE  /\ Window(f2, lo2, hi2) = SubSeq(Window(f, lo, hi), 1 + 1, Len(Window(f, lo, hi)))
           /\ 1 \in 1..Len(Window(f, lo, hi)) /\ Window(f, lo, hi)[1] = f[lo]
<1> DEFINE w == Window(f, lo, hi)
           w2 == Window(f2, lo2, hi2)
<1>0. /\ hi \in Nat /\ hi2 \in Nat /\ lo < hi /\ lo <= hi /\ lo2 <= hi2
      /\ hi2 - lo2 = hi - (lo + 1)
  BY QueueDepthAssumption DEF OneFurther
<1>1. /\ w \in Seq(Reports) /\ Len(w) = hi - lo
      /\ \A n \in 1..(hi - lo) : w[n] = f[lo + n - 1]
  BY <1>0, WindowSeq
<1>2. /\ w2 \in Seq(Reports) /\ Len(w2) = hi2 - lo2
      /\ \A n \in 1..(hi2 - lo2) : w2[n] = f2[lo2 + n - 1]
  BY <1>0, WindowSeq
<1> HIDE DEF w, w2
<1>3. w # <<>>
  BY <1>0, <1>1
<1>4. Tail(w) = SubSeq(w, 1 + 1, Len(w))
  BY <1>1, <1>3, TailIsSubSeq
<1> DEFINE t == Tail(w)
<1>5. /\ t \in Seq(Reports) /\ Len(t) = Len(w) - 1
      /\ \A n \in 1..Len(t) : t[n] = w[n + 1]
  BY <1>1, <1>3, HeadTailProperties
<1> HIDE DEF t
<1>6. Len(w2) = Len(t) /\ \A n \in 1..Len(w2) : w2[n] = t[n]
  <2>1. Len(w2) = Len(t)
    BY <1>0, <1>1, <1>2, <1>5
  <2>2. ASSUME NEW n \in 1..Len(w2) PROVE w2[n] = t[n]
    <3>1. n + 1 \in 1..(hi - lo) /\ n \in Nat /\ n \in 1..(hi2 - lo2) /\ n \in 1..Len(t)
      BY <1>0, <1>1, <1>2, <1>5, <2>1
    <3>2. w2[n] = f[lo + n]
      BY <1>2, <3>1 DEF OneFurther
    <3>3. t[n] = w[n + 1]
      BY <1>5, <3>1
    <3>4. w[n + 1] = f[lo + n]
      <4>1. w[n + 1] = f[lo + (n + 1) - 1]
        BY <1>1, <3>1
      <4>2. lo + (n + 1) - 1 = lo + n
        BY <3>1
      <4> QED
        BY <4>1, <4>2
    <3> QED
      BY <3>2, <3>3, <3>4
  <2> QED
    BY <2>1, <2>2
<1>7. w2 = t
  BY <1>2, <1>5, <1>6, SeqEqual
<1>8. 1 \in 1..Len(w) /\ w[1] = f[lo]
  <2>1. 1 \in 1..(hi - lo) /\ lo + 1 - 1 = lo
    BY <1>0
  <2> QED
    BY <1>1, <2>1
<1> QED
  BY <1>4, <1>7, <1>8 DEF w, w2, t

\* Writing the entry after a window lengthens it.
LEMMA WindowGrows ==
    ASSUME NEW f \in [Slots -> Reports], NEW hi \in Slots, NEW report \in Reports
    PROVE  Window([f EXCEPT ![hi] = report], 0, hi + 1) = Append(Window(f, 0, hi), report)
<1> DEFINE f2 == [f EXCEPT ![hi] = report]
           w == Window(f, 0, hi)
           w2 == Window(f2, 0, hi + 1)
<1>0. /\ hi \in Nat /\ hi \in 0..QueueDepth /\ hi + 1 \in 0..QueueDepth
      /\ 0 \in Nat /\ 0 <= hi /\ 0 <= hi + 1
  BY QueueDepthAssumption DEF Slots
<1>1. /\ f2 \in [Slots -> Reports] /\ f2[hi] = report
      /\ \A n \in Slots : n # hi => f2[n] = f[n]
  OBVIOUS
<1> HIDE DEF f2
<1>2. w \in Seq(Reports) /\ Len(w) = hi /\ \A n \in 1..hi : w[n] = f[n - 1]
  <2>1. /\ w \in Seq(Reports) /\ Len(w) = hi - 0
        /\ \A n \in 1..(hi - 0) : w[n] = f[0 + n - 1]
    BY <1>0, WindowSeq
  <2> HIDE DEF w
  <2> QED
    BY <1>0, <2>1
<1>3. w2 \in Seq(Reports) /\ Len(w2) = hi + 1 /\ \A n \in 1..(hi + 1) : w2[n] = f2[n - 1]
  <2>1. /\ w2 \in Seq(Reports) /\ Len(w2) = (hi + 1) - 0
        /\ \A n \in 1..((hi + 1) - 0) : w2[n] = f2[0 + n - 1]
    BY <1>0, <1>1, WindowSeq
  <2> HIDE DEF w2
  <2> QED
    BY <1>0, <2>1
<1> HIDE DEF w, w2
<1> DEFINE longer == Append(w, report)
<1>4. /\ longer \in Seq(Reports) /\ Len(longer) = hi + 1
      /\ \A n \in 1..hi : longer[n] = w[n]
  <2>1. /\ longer \in Seq(Reports) /\ Len(longer) = Len(w) + 1
        /\ \A n \in 1..Len(w) : longer[n] = w[n]
    BY <1>2, AppendProperties
  <2> HIDE DEF longer
  <2> QED
    BY <1>2, <2>1
<1>5. longer[hi + 1] = report
  <2>1. longer[Len(w) + 1] = report
    BY <1>2, AppendProperties
  <2> QED
    BY <1>2, <2>1
<1> HIDE DEF longer
<1>6. \A n \in 1..(hi + 1) : w2[n] = longer[n]
  <2> SUFFICES ASSUME NEW n \in 1..(hi + 1) PROVE w2[n] = longer[n]
    OBVIOUS
  <2>1. CASE n = hi + 1
    <3>1. n - 1 = hi
      BY <1>0, <2>1
    <3> QED
      BY <1>1, <1>3, <1>5, <2>1, <3>1
  <2>2. CASE n # hi + 1
    <3>1. n \in 1..hi /\ n - 1 # hi /\ n - 1 \in Slots
      BY <1>0, <2>2, QueueDepthAssumption DEF Slots
    <3> QED
      BY <1>1, <1>2, <1>3, <1>4, <3>1
  <2> QED
    BY <2>1, <2>2
<1>7. w2 = longer
  BY <1>3, <1>4, <1>6, SeqEqual
<1> QED
  BY <1>7 DEF w, w2, longer, f2

\* The backlog is the window of the array that is still to be replayed.
LEMMA BacklogIsWindow ==
    /\ Backlog = Window(pending_buttons, First, pending_count)
    /\ Backlog' = Window(pending_buttons', First', pending_count')
BY DEF Backlog, Window, First

\* A step that leaves the window and the host alone.
LEMMA StillChange ==
    ASSUME UNCHANGED <<pending_buttons, First, pending_count, host>>
    PROVE  Edges!DeferredNext
<1>1. Backlog' = Backlog
  BY BacklogIsWindow
<1> QED
  BY <1>1 DEF Edges!DeferredNext, Edges!Change

\* Entries are shifted out, appended or replayed one at a time.
LEMMA HandlerRefines ==
    ASSUME IpTypeOK, HandlerStep, ~AfterOvertaking
    PROVE  Edges!DeferredNext
<1> USE QueueDepthAssumption
<1>0. /\ pending_buttons \in [Slots -> Reports] /\ pending_count \in 0..QueueDepth
      /\ pending_count \in Nat /\ i \in Nat /\ QueueDepth - 1 \in 0..QueueDepth
      /\ QueueDepth \in 0..QueueDepth /\ 0 \in Nat
  BY DEF IpTypeOK
<1>1. CASE enqueue_pending_button
  <2>1. First = 0 /\ First' = 0 /\ UNCHANGED host
    BY <1>1 DEF enqueue_pending_button, First
  <2>2. CASE pending_count < QueueDepth
    <3>1. UNCHANGED <<pending_buttons, pending_count>>
      BY <1>1, <2>2 DEF enqueue_pending_button, queueVars
    <3> QED
      BY <2>1, <3>1, StillChange
  <2>3. CASE ~(pending_count < QueueDepth)
    <3>1. /\ pending_count = QueueDepth /\ pending_count' = QueueDepth - 1
          /\ pending_buttons' = [n \in Slots |->
                  pending_buttons[IF n < QueueDepth - 1 THEN n + 1 ELSE n]]
      BY <1>0, <1>1, <2>3 DEF enqueue_pending_button, Slots
    <3>2. pending_buttons' \in [Slots -> Reports]
      BY HandlerTypes DEF IpTypeOK
    <3>3. \A n \in 1..((QueueDepth - 1) - 0) : pending_buttons'[0 + n - 1] = pending_buttons[0 + n]
      <4> SUFFICES ASSUME NEW n \in 1..((QueueDepth - 1) - 0)
                   PROVE  pending_buttons'[0 + n - 1] = pending_buttons[0 + n]
        OBVIOUS
      <4>1. n - 1 \in Slots /\ n - 1 < QueueDepth - 1 /\ (n - 1) + 1 = n /\ 0 + n - 1 = n - 1
            /\ 0 + n = n
        BY DEF Slots
      <4>2. pending_buttons'[n - 1] = pending_buttons[(n - 1) + 1]
        BY <3>1, <4>1
      <4> QED
        BY <4>1, <4>2
    <3>4. (QueueDepth - 1) - 0 = QueueDepth - (0 + 1) /\ 0 < QueueDepth
      OBVIOUS
    <3>5. OneFurther(pending_buttons, 0, QueueDepth, pending_buttons', 0, QueueDepth - 1)
      BY <3>3, <3>4 DEF OneFurther
    <3>6. /\ Window(pending_buttons', 0, QueueDepth - 1)
                = SubSeq(Window(pending_buttons, 0, QueueDepth), 1 + 1,
                         Len(Window(pending_buttons, 0, QueueDepth)))
          /\ 1 \in 1..Len(Window(pending_buttons, 0, QueueDepth))
      BY <1>0, <3>2, <3>5, WindowMoves
    <3>7. Backlog' = SubSeq(Backlog, 1 + 1, Len(Backlog)) /\ 1 \in 1..Len(Backlog)
      BY <2>1, <3>1, <3>6, BacklogIsWindow
    <3> QED
      BY <2>1, <3>7 DEF Edges!DeferredNext, Edges!Deliver
  <2> QED
    BY <2>2, <2>3
<1>2. CASE AppendPending
  <2>1. /\ First = 0 /\ First' = 0 /\ UNCHANGED <<host, buttons>>
        /\ i = pending_count /\ i \in Slots /\ pending_count' = i + 1
        /\ pending_buttons' = [pending_buttons EXCEPT ![i] = buttons]
    BY <1>2 DEF AppendPending, First, AfterOvertaking, IpTypeOK
  <2>2. Window(pending_buttons', 0, i + 1) = Append(Window(pending_buttons, 0, i), buttons)
    BY <1>0, <2>1, WindowGrows DEF IpTypeOK
  <2>3. Backlog \in Seq(Reports) /\ Len(Backlog) = i /\ Backlog' = Append(Backlog, buttons')
    <3>1. Backlog = Window(pending_buttons, 0, i) /\ Backlog' = Window(pending_buttons', 0, i + 1)
      BY <2>1, BacklogIsWindow
    <3>2. /\ Window(pending_buttons, 0, i) \in Seq(Reports)
          /\ Len(Window(pending_buttons, 0, i)) = i - 0
      <4>1. 0 <= i
        BY <1>0
      <4> QED
        BY <1>0, <2>1, <4>1, WindowSeq
    <3>3. i - 0 = i
      BY <1>0
    <3> QED
      BY <2>1, <2>2, <3>1, <3>2, <3>3
  <2>4. SubSeq(Backlog, 0 + 1, Len(Backlog)) = Backlog
    BY <2>3, SubSeqFull
  <2>5. Len(Backlog') <= QueueDepth /\ 0 \in 0..Len(Backlog)
    <3>1. Len(Backlog') = i + 1
      <4>1. buttons' \in Reports
        BY <2>1 DEF IpTypeOK
      <4> QED
        BY <2>3, <4>1, AppendProperties
    <3> QED
      BY <2>1, <2>3, <3>1 DEF Slots
  <2>6. Edges!Defer(0)
    BY <2>1, <2>3, <2>4, <2>5 DEF Edges!Defer
  <2> QED
    BY <2>5, <2>6 DEF Edges!DeferredNext
<1>3. CASE drain_pending_buttons
  <2>1. pc = "drain" /\ First = i /\ UNCHANGED pending_buttons
    BY <1>3 DEF drain_pending_buttons, First
  <2>2. CASE i < pending_count
    <3>1. /\ First' = i + 1 /\ pending_count' = pending_count
          /\ host' \in {pending_buttons[i], host}
      BY <1>3, <2>1, <2>2 DEF drain_pending_buttons, send_hid_report_raw, First
    <3>2. \A n \in 1..(pending_count - (i + 1)) :
              pending_buttons[(i + 1) + n - 1] = pending_buttons[i + n]
      <4>1. \A n \in 1..(pending_count - (i + 1)) : (i + 1) + n - 1 = i + n
        BY <1>0
      <4> QED
        BY <4>1
    <3>3. i + 1 \in Nat /\ pending_count - (i + 1) = pending_count - (i + 1)
      BY <1>0
    <3>4. OneFurther(pending_buttons, i, pending_count, pending_buttons, i + 1, pending_count)
      BY <2>2, <3>2, <3>3 DEF OneFurther
    <3>5. /\ Window(pending_buttons, i + 1, pending_count)
                = SubSeq(Window(pending_buttons, i, pending_count), 1 + 1,
                         Len(Window(pending_buttons, i, pending_count)))
          /\ 1 \in 1..Len(Window(pending_buttons, i, pending_count))
          /\ Window(pending_buttons, i, pending_count)[1] = pending_buttons[i]
      BY <1>0, <3>3, <3>4, WindowMoves
    <3>6. /\ Backlog' = SubSeq(Backlog, 1 + 1, Len(Backlog)) /\ 1 \in 1..Len(Backlog)
          /\ Backlog[1] = pending_buttons[i]
      BY <2>1, <3>1, <3>5, BacklogIsWindow
    <3> QED
      BY <3>1, <3>6 DEF Edges!DeferredNext, Edges!Deliver
  <2>3. CASE ~(i < pending_count)
    <3>1. First' = 0 /\ pending_count' = 0 /\ UNCHANGED host
      BY <1>3, <2>3 DEF drain_pending_buttons, First
    <3>2. Backlog = <<>>
      BY <1>0, <2>1, <2>3, WindowEmpty, BacklogIsWindow
    <3>3. Backlog' = <<>>
      BY <3>1, WindowEmpty, BacklogIsWindow
    <3> QED
      BY <3>1, <3>2, <3>3 DEF Edges!DeferredNext, Edges!Change
  <2> QED
    BY <2>2, <2>3
<1>4. CASE SendCurrent
  <2>1. /\ First' = 0 /\ pending_count' = 0 /\ pending_count = 0 /\ First = 0
        /\ UNCHANGED <<pending_buttons, buttons>>
        /\ host' = buttons \/ UNCHANGED host
    BY <1>4 DEF SendCurrent, queueVars, send_hid_report_raw, First, IpTypeOK
  <2>2. CASE UNCHANGED host
    BY <2>1, <2>2, StillChange
  <2>3. CASE host' = buttons
    <3>1. Backlog' = <<>>
      BY <2>1, WindowEmpty, BacklogIsWindow
    <3> QED
      BY <2>1, <2>3, <3>1 DEF Edges!DeferredNext, Edges!Report
  <2> QED
    BY <2>1, <2>2, <2>3
<1> QED
  BY <1>1, <1>2, <1>3, <1>4 DEF HandlerStep

\* The retry work that finds the handler idle replays all that waits, and then
\* motion with the buttons as they are.
LEMMA RetryRefines ==
    ASSUME IpTypeOK, retry_work_fn, ~Overtaken
    PROVE  Edges!DeferredNext
<1>1. pc = "idle" /\ First = 0 /\ First' = 0 /\ pending_count' = 0 /\ UNCHANGED buttons
  BY DEF retry_work_fn, Overtaken, threadVars, First
<1>2. Backlog' = <<>>
  BY <1>1, WindowEmpty, BacklogIsWindow
<1>3. CASE motion = "fresh" /\ host' = buttons
  BY <1>1, <1>2, <1>3 DEF Edges!DeferredNext, Edges!Report
<1>4. CASE pending_count > 0 /\ host' \in {LastQueued, host}
  <2>1. /\ Backlog \in Seq(Reports) /\ Len(Backlog) = pending_count
        /\ Backlog[pending_count] = LastQueued
    <3>0. /\ pending_buttons \in [Slots -> Reports] /\ pending_count \in 0..QueueDepth
          /\ 0 \in Nat /\ 0 <= pending_count /\ pending_count \in Nat
      BY QueueDepthAssumption DEF IpTypeOK
    <3> DEFINE w == Window(pending_buttons, 0, pending_count)
    <3>1. /\ w \in Seq(Reports) /\ Len(w) = pending_count - 0
          /\ \A n \in 1..(pending_count - 0) : w[n] = pending_buttons[0 + n - 1]
      BY <3>0, WindowSeq
    <3>2. w = Backlog
      BY <1>1, BacklogIsWindow
    <3> HIDE DEF w
    <3>3. pending_count - 0 = pending_count /\ pending_count \in 1..(pending_count - 0)
            /\ 0 + pending_count - 1 = pending_count - 1
      BY <1>4, <3>0
    <3>4. w[pending_count] = pending_buttons[pending_count - 1]
      BY <3>1, <3>3
    <3> QED
      BY <3>1, <3>2, <3>3, <3>4 DEF LastQueued
  <2>2. /\ pending_count \in 1..Len(Backlog)
        /\ SubSeq(Backlog, pending_count + 1, Len(Backlog)) = <<>>
    <3>1. pending_count \in Nat
      BY QueueDepthAssumption DEF IpTypeOK
    <3> QED
      BY <1>4, <2>1, <3>1, SubSeqEmpty
  <2>3. Edges!Deliver(pending_count)
    BY <1>2, <1>4, <2>1, <2>2 DEF Edges!Deliver
  <2> QED
    BY <2>2, <2>3 DEF Edges!DeferredNext
<1>5. CASE ~(pending_count > 0) /\ UNCHANGED host
  <2>1. pending_count = 0
    BY <1>5, QueueDepthAssumption DEF IpTypeOK
  <2>2. Backlog = <<>>
    BY <1>1, <2>1, WindowEmpty, BacklogIsWindow
  <2> QED
    BY <1>2, <1>5, <2>2 DEF Edges!DeferredNext, Edges!Change
<1>6. \/ motion = "fresh" /\ host' = buttons
      \/ pending_count > 0 /\ host' \in {LastQueued, host}
      \/ ~(pending_count > 0) /\ UNCHANGED host
  BY DEF retry_work_fn, send_hid_report_raw, LastRetried, LastQueued
<1> QED
  BY <1>3, <1>4, <1>5, <1>6

\* Every step is one of the deferred reports' specification, but for a retry
\* work that preempts the handler.
LEMMA StepRefines ==
    ASSUME IpTypeOK, [IpNext]_ipVars
    PROVE  Overtaken \/ AfterOvertaking \/ Edges!DeferredNext
<1>1. ASSUME NEW sync \in BOOLEAN, NEW b \in Buttons, ButtonEvent(b, sync) PROVE Edges!DeferredNext
  <2>1. pc = "idle" /\ i = 0 /\ i' = i /\ UNCHANGED <<pending_buttons, pending_count, host>>
    BY <1>1 DEF ButtonEvent, queueVars, IpTypeOK
  <2>2. First' = First
    BY <2>1 DEF First
  <2> QED
    BY <2>1, <2>2, StillChange
<1>2. ASSUME NEW sync \in BOOLEAN, MotionEvent(sync) PROVE Edges!DeferredNext
  <2>1. pc = "idle" /\ i = 0 /\ i' = i /\ UNCHANGED <<pending_buttons, pending_count, host>>
    BY <1>2 DEF MotionEvent, queueVars, IpTypeOK
  <2>2. First' = First
    BY <2>1 DEF First
  <2> QED
    BY <2>1, <2>2, StillChange
<1>3. CASE HandlerStep
  BY <1>3, HandlerRefines
<1>4. CASE retry_work_fn
  BY <1>4, RetryRefines
<1>5. CASE Ages \/ ActiveChanges \/ QuietChanges \/ PressureChanges \/ UNCHANGED ipVars
  <2>1. UNCHANGED <<pending_buttons, pending_count, pc, i, host>>
    BY <1>5 DEF Ages, ActiveChanges, QuietChanges, PressureChanges, ipVars, queueVars,
                threadVars
  <2>2. First' = First
    BY <2>1 DEF First
  <2> QED
    BY <2>1, <2>2, StillChange
<1> QED
  BY <1>1, <1>2, <1>3, <1>4, <1>5 DEF IpNext

\* Button edges reach the host as module DeferredReports says, each at most
\* once and in order (enqueue_pending_button, drain_pending_buttons,
\* retry_work_fn), whatever the depth of the queue, but for a retry work that
\* preempts the handler.
THEOREM EdgesAreDeferred == IpSpec => PointerIsDeferred
<1>1. IpInit => Edges!DeferredInit
  <2> SUFFICES ASSUME IpInit PROVE Edges!DeferredInit
    OBVIOUS
  <2>1. First = 0 /\ pending_count = 0 /\ host = buttons
    BY DEF IpInit, First
  <2>2. Backlog = <<>>
    BY <2>1, WindowEmpty, BacklogIsWindow
  <2> QED
    BY <2>1, <2>2 DEF Edges!DeferredInit
<1>2. IpInv /\ [IpNext]_ipVars
        => [Overtaken \/ AfterOvertaking \/ Edges!DeferredNext]_Edges!deferredVars
  BY StepRefines DEF IpInv
<1> QED
  BY <1>1, <1>2, IpInvariant, PTL DEF IpSpec, PointerIsDeferred

----------------------------------------------------------------------------
(* What EdgesDelivered rests on.                                            *)

\* Queued edges have somebody to replay them.
EdgeRetryScheduled == pending_count > 0 => retry_work

\* As long as an edge is queued the retry work is scheduled (send_mouse_report,
\* enqueue_pending_button, drain_pending_buttons, retry_work_fn), also when the
\* work ran between the handler's reading and writing of pending_count.
THEOREM EdgeRetryIsScheduled == IpSpec => []EdgeRetryScheduled
<1>1. IpInit => EdgeRetryScheduled
  BY DEF IpInit, EdgeRetryScheduled
<1>2. IpInv /\ EdgeRetryScheduled /\ [IpNext]_ipVars => EdgeRetryScheduled'
  <2> SUFFICES ASSUME IpInv, EdgeRetryScheduled, [IpNext]_ipVars PROVE EdgeRetryScheduled'
    OBVIOUS
  <2> USE DEF EdgeRetryScheduled
  <2>1. CASE UNCHANGED <<pending_count, retry_work>>
    BY <2>1
  <2>2. CASE enqueue_pending_button
    <3>1. pending_count \in 0..QueueDepth /\ QueueDepth \in Nat \ {0}
      BY QueueDepthAssumption DEF IpInv, IpTypeOK
    <3>2. retry_work' = retry_work
      BY <2>2 DEF enqueue_pending_button
    <3>3. pending_count' > 0 => pending_count > 0
      BY <2>2, <3>1 DEF enqueue_pending_button, queueVars
    <3> QED
      BY <3>2, <3>3
  <2>3. CASE AppendPending
    BY <2>3 DEF AppendPending
  <2>4. CASE drain_pending_buttons \/ retry_work_fn
    <3>1. pending_count' = 0 \/ UNCHANGED <<pending_count, retry_work>>
      BY <2>4 DEF drain_pending_buttons, retry_work_fn
    <3> QED
      BY <3>1
  <2>5. CASE \/ SendCurrent \/ Ages \/ ActiveChanges \/ QuietChanges \/ PressureChanges
             \/ UNCHANGED ipVars
             \/ \E sync \in BOOLEAN : (\E b \in Buttons : ButtonEvent(b, sync)) \/ MotionEvent(sync)
    BY <2>1, <2>5 DEF SendCurrent, Ages, ActiveChanges, QuietChanges, PressureChanges, ipVars,
         ButtonEvent, MotionEvent, queueVars
  <2> QED
    BY <2>2, <2>3, <2>4, <2>5 DEF IpNext, HandlerStep
<1> QED
  BY <1>1, <1>2, IpInvariant, PTL DEF IpSpec
=============================================================================
