--------------------------- MODULE InputProcessor ---------------------------
(***************************************************************************)
(* The pointing device of src/esb/input_processor_esb.c.  Motion is summed  *)
(* up and button edges are queued while the transport is quiet or holds too *)
(* many reports; a retry work replays them.                                *)
(*                                                                         *)
(* Events are handled on a preemptible thread, the retry work runs on the   *)
(* cooperative workqueue: the handler is cut where the two touch the same   *)
(* memory and where the transport may turn quiet, the work is one step.    *)
(* Motion is only told apart by its age: none, fresh or stale; deltas that  *)
(* cancel each other out are left aside.                                   *)
(***************************************************************************)
EXTENDS Integers, Sequences

CONSTANTS
    Buttons,    \* INPUT_BTN_0 .. INPUT_BTN_4
    QueueDepth  \* ..._IP_PENDING_BTN_QUEUE

ASSUME QueueDepthAssumption == QueueDepth \in Nat \ {0}

VARIABLES
    down,           \* the buttons that are physically down
    buttons,        \* d->buttons
    motion,         \* dx .. scroll_y and accum_start_ms: "none", "fresh", "stale"
    pending_buttons, pending_count,
    retry_work,     \* the delayable work is scheduled
    pc,             \* of the handler: "idle", "enqueue", "append", "drain", "send"
    i,              \* its index into pending_buttons
    button_changed,
    active,         \* the endpoint is active and connected
    quiet,          \* esb_transport_is_quiet()
    pressure,       \* esb_transport_pointer_backpressure()
    host,           \* the buttons of the last report sent
    lost,           \* history: the last report fell into a quiet window or a
                    \* slot that is gone
    untracked       \* history: buttons last touched while inactive

queueVars == <<pending_buttons, pending_count>>
threadVars == <<pc, i, button_changed>>
transportVars == <<active, quiet, pressure>>
ipVars == <<down, buttons, motion, queueVars, retry_work, threadVars, transportVars,
            host, lost, untracked>>

----------------------------------------------------------------------------
(* Reports.                                                                 *)

Deferring == quiet \/ pressure

\* esb_transport_send drops the report in a quiet window.  Once the endpoint is
\* inactive it refuses it, or sends it where only the connection was lost.
send_hid_report_raw(report) ==
    \/ /\ ~quiet /\ host' = report /\ lost' = FALSE
    \/ /\ quiet \/ ~active
       /\ lost' = TRUE /\ UNCHANGED host

\* Mutant of enqueue_pending_button: a full queue keeps its oldest entries.
enqueue_pending_button_Full ==
    /\ pc = "enqueue" /\ pc' = IF pending_count < QueueDepth THEN "append" ELSE "idle"
    /\ i' = IF pending_count < QueueDepth THEN pending_count ELSE 0
    /\ UNCHANGED <<down, buttons, motion, queueVars, retry_work, button_changed,
                   transportVars, host, lost, untracked>>

\* enqueue_pending_button up to the reading of pending_count: room is made by
\* shifting out the oldest entry.
enqueue_pending_button ==
    /\ pc = "enqueue" /\ pc' = "append"
    /\ IF pending_count < QueueDepth
       THEN i' = pending_count /\ UNCHANGED queueVars
       ELSE /\ i' = QueueDepth - 1 /\ pending_count' = QueueDepth - 1
            /\ pending_buttons' = [n \in 0..(QueueDepth - 1) |->
                    pending_buttons[IF n < QueueDepth - 1 THEN n + 1 ELSE n]]
    /\ UNCHANGED <<down, buttons, motion, retry_work, button_changed, transportVars,
                   host, lost, untracked>>

\* Its last line, and the scheduling of the retry work by send_mouse_report.
AppendPending ==
    /\ pc = "append" /\ pc' = "idle" /\ i' = 0
    /\ pending_buttons' = [pending_buttons EXCEPT ![i] = buttons]
    /\ pending_count' = i + 1
    /\ retry_work' = TRUE
    /\ UNCHANGED <<down, buttons, motion, button_changed, transportVars, host, lost,
                   untracked>>

\* Mutant of drain_pending_buttons: the entries stay in the queue.
drain_pending_buttons_Kept ==
    /\ pc = "drain"
    /\ IF i < pending_count
       THEN /\ send_hid_report_raw(pending_buttons[i])
            /\ i' = i + 1 /\ UNCHANGED pc
       ELSE /\ pc' = "send" /\ i' = 0
            /\ UNCHANGED <<host, lost>>
    /\ UNCHANGED <<down, buttons, motion, queueVars, retry_work, button_changed,
                   transportVars, untracked>>

\* One entry at a time; then the queue is emptied.
drain_pending_buttons ==
    /\ pc = "drain"
    /\ IF i < pending_count
       THEN /\ send_hid_report_raw(pending_buttons[i])
            /\ i' = i + 1
            /\ UNCHANGED <<pc, pending_count>>
       ELSE /\ pc' = "send" /\ i' = 0 /\ pending_count' = 0
            /\ UNCHANGED <<host, lost>>
    /\ UNCHANGED <<down, buttons, motion, pending_buttons, retry_work, button_changed,
                   transportVars, untracked>>

\* The end of send_mouse_report: stale motion is dropped, unless a button
\* changed; without a report, then.
SendCurrent ==
    /\ pc = "send" /\ pc' = "idle"
    /\ motion' = "none"
    /\ IF ~button_changed /\ motion = "stale"
       THEN UNCHANGED <<host, lost>>
       ELSE send_hid_report_raw(buttons)
    /\ UNCHANGED <<down, buttons, queueVars, retry_work, i, button_changed, transportVars,
                   untracked>>

----------------------------------------------------------------------------
(* Events.                                                                  *)

\* send_mouse_report up to its decision: motion that is deferred waits for the
\* next event, or for a retry work an edge has scheduled.
send_mouse_report(changed, sync) ==
    /\ button_changed' = changed
    /\ pc' = CASE ~(sync \/ changed) \/ (Deferring /\ ~changed) -> "idle"
               [] Deferring /\ changed -> "enqueue"
               [] OTHER -> "drain"

\* A button is pressed or released.  While the endpoint is inactive the event
\* goes to ZMK's own pointing and d->buttons is left as it is.
ButtonEvent(b, sync) ==
    LET pressed == b \notin down
        after == IF pressed THEN buttons \cup {b} ELSE buttons \ {b}
    IN  /\ pc = "idle"
        /\ down' = IF pressed THEN down \cup {b} ELSE down \ {b}
        /\ IF active
           THEN /\ buttons' = after
                /\ untracked' = untracked \ {b}
                /\ send_mouse_report(after # buttons, sync)
           ELSE /\ untracked' = untracked \cup {b}
                /\ UNCHANGED <<buttons, pc, button_changed>>
        /\ UNCHANGED <<motion, queueVars, retry_work, i, transportVars, host, lost>>

\* INPUT_EV_REL; accum_start_ms is stamped by the first delta.
MotionEvent(sync) ==
    /\ pc = "idle" /\ active
    /\ motion' = IF motion = "none" THEN "fresh" ELSE motion
    /\ send_mouse_report(FALSE, sync)
    /\ UNCHANGED <<down, buttons, queueVars, retry_work, i, transportVars, host, lost,
                   untracked>>

\* Motion gets older than MOTION_MAX_STALE_MS.
Ages ==
    /\ motion = "fresh" /\ motion' = "stale"
    /\ UNCHANGED <<down, buttons, queueVars, retry_work, threadVars, transportVars, host,
                   lost, untracked>>

----------------------------------------------------------------------------
(* The retry work.                                                          *)

\* What the host has after the whole queue and fresh motion have been sent.
LastRetried ==
    IF motion = "fresh" THEN buttons
    ELSE IF pending_count > 0 THEN pending_buttons[pending_count - 1]
    ELSE host

\* Mutant of retry_work_fn: a try within the window is the last one.
retry_work_fn_Once ==
    /\ retry_work /\ retry_work' = FALSE
    /\ IF Deferring THEN UNCHANGED <<host, lost, pending_count, motion>>
       ELSE /\ IF pending_count > 0 \/ motion = "fresh" THEN send_hid_report_raw(LastRetried)
               ELSE UNCHANGED <<host, lost>>
            /\ pending_count' = 0 /\ motion' = "none"
    /\ UNCHANGED <<down, buttons, pending_buttons, threadVars, transportVars, untracked>>

\* While the transport defers, the work schedules itself again.
retry_work_fn ==
    /\ retry_work /\ ~Deferring
    /\ retry_work' = FALSE
    /\ IF pending_count > 0 \/ motion = "fresh" THEN send_hid_report_raw(LastRetried)
       ELSE UNCHANGED <<host, lost>>
    /\ pending_count' = 0 /\ motion' = "none"
    /\ UNCHANGED <<down, buttons, pending_buttons, threadVars, transportVars, untracked>>

----------------------------------------------------------------------------
(* The transport and the endpoint.                                          *)

ActiveChanges ==
    /\ active' = ~active
    /\ UNCHANGED <<down, buttons, motion, queueVars, retry_work, threadVars, quiet,
                   pressure, host, lost, untracked>>

QuietChanges ==
    /\ quiet' = ~quiet
    /\ UNCHANGED <<down, buttons, motion, queueVars, retry_work, threadVars, active,
                   pressure, host, lost, untracked>>

PressureChanges ==
    /\ pressure' = ~pressure
    /\ UNCHANGED <<down, buttons, motion, queueVars, retry_work, threadVars, active,
                   quiet, host, lost, untracked>>

----------------------------------------------------------------------------

IpInit ==
    /\ down = {} /\ buttons = {} /\ motion = "none"
    /\ pending_buttons = [n \in 0..(QueueDepth - 1) |-> {}] /\ pending_count = 0
    /\ retry_work = FALSE
    /\ pc = "idle" /\ i = 0 /\ button_changed = FALSE
    /\ active = FALSE /\ quiet = FALSE /\ pressure = FALSE
    /\ host = {} /\ lost = FALSE /\ untracked = {}

HandlerStep ==
    \/ enqueue_pending_button
    \/ AppendPending
    \/ drain_pending_buttons
    \/ SendCurrent

IpNext ==
    \/ \E sync \in BOOLEAN :
        \/ \E b \in Buttons : ButtonEvent(b, sync)
        \/ MotionEvent(sync)
    \/ HandlerStep
    \/ retry_work_fn
    \/ Ages
    \/ ActiveChanges
    \/ QuietChanges
    \/ PressureChanges

IpSpec == IpInit /\ [][IpNext]_ipVars

\* A scheduled work item is run, and the handler's thread is not starved.
FairIpSpec == IpSpec /\ WF_ipVars(retry_work_fn) /\ WF_ipVars(HandlerStep)

----------------------------------------------------------------------------
(* Properties.                                                              *)

\* The state the host has been told last, or will be told last.
LastTold == IF pending_count > 0 THEN pending_buttons[pending_count - 1] ELSE host

\* "the queue still ends on the latest state": between events, whatever the
\* retry work did while the handler ran and however the queue was overrun, the
\* host is told, or will be told last, which buttons are down; except for
\* buttons touched while the endpoint was inactive, and unless the last report
\* fell into a window that opened after the handler had looked.
ButtonsCatchUp ==
    pc = "idle" /\ (pending_count > 0 \/ ~lost) =>
        \A b \in Buttons \ untracked : b \in LastTold <=> b \in down

\* The entries the handler or the retry work will still replay.
Backlog ==
    LET first == IF pc = "drain" THEN i ELSE 0
    IN  [n \in 1..(pending_count - first) |-> pending_buttons[first + n - 1]]

Edges == INSTANCE DeferredReports WITH
            Depth <- QueueDepth, current <- buttons, backlog <- Backlog, host <- host

\* The retry work has preempted the handler: it may replay edges the handler
\* has replayed or shifted out.
Overtaken == retry_work /\ ~retry_work' /\ pc # "idle"
AfterOvertaking == pc = "append" /\ i # pending_count

\* "the host eventually sees each press/release in order": edges reach the host
\* as the specification of deferred reports says, each at most once and none
\* out of order, but for a retry work that preempts the handler.
PointerIsDeferred ==
    Edges!DeferredInit
    /\ [][Overtaken \/ AfterOvertaking \/ Edges!DeferredNext]_Edges!deferredVars

\* "Drained in order by retry_work once the quiet window ends": edges do not lie
\* about once the windows stop, even if the device is not touched any more.
EdgesDelivered ==
    <>[](~quiet /\ ~pressure) => (pending_count > 0 ~> pending_count = 0)
=============================================================================
