------------------------------ MODULE HidRelay ------------------------------
(***************************************************************************)
(* The key listener of src/esb/hid_relay.c: it keeps its own keyboard and   *)
(* consumer reports, counts who holds a modifier, and defers reports past   *)
(* the windows in which the transport drops what it is given.              *)
(*                                                                         *)
(* A position of the keymap is bound to one usage with its modifiers; the   *)
(* press and the release event of a position carry the same ones.  The     *)
(* handler and the retry work run on the system workqueue and do not block: *)
(* each is one step, so a report is never cut off between the check of      *)
(* esb_transport_is_quiet and esb_transport_send.                          *)
(***************************************************************************)
EXTENDS Integers, Sequences, FiniteSets

CONSTANTS
    Positions,  \* keys of the keyboard
    Mods,       \* modifier flags
    Usages,     \* keycodes
    page,       \* of each position: "mod", "key", "consumer" or "other"
    usage,      \* keycode of each position
    emods,      \* explicit modifiers of each position; its own for a "mod"
    imods,      \* implicit modifiers of each position
    KeySlots,   \* CONFIG_ZMK_HID_KEYBOARD_REPORT_SIZE (HKRO)
    ConsSlots,  \* CONFIG_ZMK_HID_CONSUMER_REPORT_SIZE
    KbDepth,    \* ..._HID_QUIET_KB_QUEUE_DEPTH
    ConsDepth   \* ..._HID_QUIET_CONS_QUEUE_DEPTH

ASSUME PositionsAssumption == IsFiniteSet(Positions)
ASSUME BindingAssumption ==
    /\ page \in [Positions -> {"mod", "key", "consumer", "other"}]
    /\ usage \in [Positions -> Usages]
    /\ emods \in [Positions -> SUBSET Mods]
    /\ imods \in [Positions -> SUBSET Mods]
    /\ \A p \in Positions : /\ page[p] \in {"mod", "other"} => imods[p] = {}
                            /\ page[p] = "other" => emods[p] = {}
ASSUME SlotsAssumption == KeySlots \in Nat \ {0} /\ ConsSlots \in Nat \ {0}
ASSUME DepthAssumption == KbDepth \in Nat \ {0} /\ ConsDepth \in Nat \ {0}

VARIABLES
    held,                   \* positions that are down
    kb_keys,                \* kb_body.keys
    cons_keys,              \* cons_body.keys
    explicit_mod_refcount, implicit_mod_refcount,
    explicit_mods, implicit_mods,
    kb_pending, cons_pending,
    hid_retry_work,         \* the delayable work is scheduled
    was_active,
    active,                 \* the endpoint is active and connected
    quiet,                  \* esb_transport_is_quiet()
    host_kb, host_cons,     \* the last report of each kind that was sent
    missed,                 \* history: kinds of which a change was never sent
    unseen,                 \* history: usages pressed that no sent report shows
    overflowed              \* history: kb_pending has dropped its oldest

modVars == <<explicit_mod_refcount, implicit_mod_refcount, explicit_mods, implicit_mods>>
queueVars == <<kb_pending, cons_pending, hid_retry_work>>
hidVars == <<held, kb_keys, cons_keys, modVars, queueVars, was_active, active, quiet,
             host_kb, host_cons, missed, unseen, overflowed>>

----------------------------------------------------------------------------
(* Reports and modifiers.                                                   *)

\* The keyboard report send_keyboard assembles.
KbBody == [modifiers |-> explicit_mods \cup implicit_mods, keys |-> kb_keys]

mods_inc(rc, mods) == [m \in Mods |-> IF m \in mods THEN rc[m] + 1 ELSE rc[m]]
mods_dec(rc, mods) == [m \in Mods |-> IF m \in mods /\ rc[m] > 0 THEN rc[m] - 1 ELSE rc[m]]

\* Mutant of ModsAfter: a release clears the flags whoever else holds them.
ModsAfter_Uncounted(out, rc, mods, pressed) ==
    IF pressed THEN out \cup {m \in mods : rc[m] = 0} ELSE out \ mods

\* The flags: set by the first to hold a modifier, cleared by the last.
ModsAfter(out, rc, mods, pressed) ==
    IF pressed THEN out \cup {m \in mods : rc[m] = 0}
               ELSE out \ {m \in mods : rc[m] = 1}

CountsAfter(rc, mods, pressed) == IF pressed THEN mods_inc(rc, mods) ELSE mods_dec(rc, mods)

\* A usage enters a report if a slot is free, and leaves it with the first of
\* its keys to be released.
KeysAfter(keys, slots, code, pressed) ==
    IF ~pressed THEN keys \ {code}
    ELSE IF Cardinality(keys) < slots THEN keys \cup {code} ELSE keys

----------------------------------------------------------------------------
(* Deferred reports.                                                        *)

\* On overrun the oldest entry is shifted out.
enqueue_pending(queue, depth, body) ==
    Append(IF Len(queue) >= depth THEN Tail(queue) ELSE queue, body)

\* Keys some report of a sequence shows.
Shown(reports) == UNION {reports[i].keys : i \in DOMAIN reports}

\* Mutant of send_keyboard: only the latest state is kept.
send_keyboard_Latest(queue) ==
    IF quiet
    THEN /\ kb_pending' = <<KbBody'>>
         /\ overflowed' = overflowed
         /\ UNCHANGED host_kb
    ELSE /\ kb_pending' = <<>>
         /\ overflowed' = FALSE
         /\ host_kb' = KbBody'

\* Deferred while the transport is quiet, else sent after what was deferred.
send_keyboard(queue) ==
    IF quiet
    THEN /\ kb_pending' = enqueue_pending(queue, KbDepth, KbBody')
         /\ overflowed' = (overflowed \/ Len(queue) >= KbDepth)
         /\ UNCHANGED host_kb
    ELSE /\ kb_pending' = <<>>
         /\ overflowed' = FALSE
         /\ host_kb' = KbBody'

send_consumer(queue) ==
    IF quiet
    THEN /\ cons_pending' = enqueue_pending(queue, ConsDepth, cons_keys')
         /\ UNCHANGED host_cons
    ELSE /\ cons_pending' = <<>>
         /\ host_cons' = cons_keys'

\* Mutant of SendsKeyboard: a consumer usage never touches the keyboard report.
SendsKeyboard_NotConsumer(p) == page[p] \in {"mod", "key"}

\* A consumer usage with modifiers changes the keyboard report too.
SendsKeyboard(p) ==
    page[p] \in {"mod", "key"} \/ (page[p] = "consumer" /\ emods[p] \cup imods[p] # {})

\* The modifiers and usages a press or release leaves behind: tracked whether
\* or not the endpoint is active.
Track(p, pressed) ==
    /\ held' = IF pressed THEN held \cup {p} ELSE held \ {p}
    /\ explicit_mods' = ModsAfter(explicit_mods, explicit_mod_refcount, emods[p], pressed)
    /\ implicit_mods' = ModsAfter(implicit_mods, implicit_mod_refcount, imods[p], pressed)
    /\ explicit_mod_refcount' = CountsAfter(explicit_mod_refcount, emods[p], pressed)
    /\ implicit_mod_refcount' = CountsAfter(implicit_mod_refcount, imods[p], pressed)
    /\ kb_keys' = IF page[p] = "key" THEN KeysAfter(kb_keys, KeySlots, usage[p], pressed)
                  ELSE kb_keys
    /\ cons_keys' = IF page[p] = "consumer"
                    THEN KeysAfter(cons_keys, ConsSlots, usage[p], pressed)
                    ELSE cons_keys

\* Kinds of report an event changes, and kinds that have reports deferred.
Touched(p) == (IF page[p] \in {"mod", "key"} \/ emods[p] \cup imods[p] # {} THEN {"kb"} ELSE {})
                \cup (IF page[p] = "consumer" THEN {"cons"} ELSE {})
Deferred == (IF kb_pending = <<>> THEN {} ELSE {"kb"})
                \cup (IF cons_pending = <<>> THEN {} ELSE {"cons"})

\* hid_relay_cb for the press or the release of a position.  `fell' is the
\* falling edge, at which the deferred reports are given up.
hid_relay_cb(p) ==
    LET pressed == p \notin held
        fell == was_active /\ ~active
        kbq == IF fell THEN <<>> ELSE kb_pending
        consq == IF fell THEN <<>> ELSE cons_pending
        kb == active /\ SendsKeyboard(p)
        cons == active /\ page[p] = "consumer"
    IN  /\ was_active' = active
        /\ Track(p, pressed)
        /\ IF kb THEN send_keyboard(kbq)
           ELSE /\ kb_pending' = kbq
                /\ overflowed' = (overflowed /\ ~fell)
                /\ UNCHANGED host_kb
        /\ IF cons THEN send_consumer(consq)
           ELSE cons_pending' = consq /\ UNCHANGED host_cons
        /\ hid_retry_work' = ((hid_retry_work /\ ~fell) \/ (quiet /\ (kb \/ cons)))
        /\ missed' = IF active THEN missed \ Touched(p)
                     ELSE missed \cup Touched(p) \cup (IF fell THEN Deferred ELSE {})
        /\ unseen' = IF fell \/ (kb /\ ~quiet) THEN {}
                     ELSE IF kb /\ pressed /\ page[p] = "key" /\ usage[p] \in kb_keys'
                     THEN unseen \cup {usage[p]}
                     ELSE unseen
        /\ UNCHANGED <<active, quiet>>

\* What drain_pending_kb and drain_pending_cons leave with the host; once the
\* endpoint is inactive the transport refuses the reports, or still sends them
\* where it is only the connection that was lost.
Drain(queue, host) ==
    IF queue = <<>> THEN {host}
    ELSE {queue[Len(queue)]} \cup (IF active THEN {} ELSE {host})

\* Mutant of hid_retry_work_fn: a try within the window is the last one.
hid_retry_work_fn_Once ==
    /\ hid_retry_work
    /\ hid_retry_work' = FALSE
    /\ IF quiet THEN UNCHANGED <<kb_pending, cons_pending, host_kb, host_cons, missed,
                                 unseen, overflowed>>
       ELSE /\ kb_pending' = <<>> /\ cons_pending' = <<>>
            /\ host_kb' \in Drain(kb_pending, host_kb)
            /\ host_cons' \in Drain(cons_pending, host_cons)
            /\ missed' = IF active THEN missed ELSE missed \cup Deferred
            /\ unseen' = {} /\ overflowed' = FALSE
    /\ UNCHANGED <<held, kb_keys, cons_keys, modVars, was_active, active, quiet>>

\* Mutant of hid_retry_work_fn: the reports sent stay in the queues.
hid_retry_work_fn_Kept ==
    /\ hid_retry_work /\ ~quiet
    /\ hid_retry_work' = FALSE
    /\ host_kb' \in Drain(kb_pending, host_kb)
    /\ host_cons' \in Drain(cons_pending, host_cons)
    /\ missed' = IF active THEN missed ELSE missed \cup Deferred
    /\ unseen' = {} /\ overflowed' = FALSE
    /\ UNCHANGED <<held, kb_keys, cons_keys, modVars, kb_pending, cons_pending, was_active,
                   active, quiet>>

\* The retry work; while the transport is quiet it schedules itself again.
hid_retry_work_fn ==
    /\ hid_retry_work /\ ~quiet
    /\ hid_retry_work' = FALSE
    /\ kb_pending' = <<>> /\ cons_pending' = <<>>
    /\ host_kb' \in Drain(kb_pending, host_kb)
    /\ host_cons' \in Drain(cons_pending, host_cons)
    /\ missed' = IF active THEN missed ELSE missed \cup Deferred
    /\ unseen' = {} /\ overflowed' = FALSE
    /\ UNCHANGED <<held, kb_keys, cons_keys, modVars, was_active, active, quiet>>

\* The endpoint is activated or left, the connection made or lost; a window
\* opens or ends.
ActiveChanges ==
    /\ active' = ~active
    /\ UNCHANGED <<held, kb_keys, cons_keys, modVars, queueVars, was_active, quiet,
                   host_kb, host_cons, missed, unseen, overflowed>>

QuietChanges ==
    /\ quiet' = ~quiet
    /\ UNCHANGED <<held, kb_keys, cons_keys, modVars, queueVars, was_active, active,
                   host_kb, host_cons, missed, unseen, overflowed>>

----------------------------------------------------------------------------

NoMods == [m \in Mods |-> 0]

HidInit ==
    /\ held = {} /\ kb_keys = {} /\ cons_keys = {}
    /\ explicit_mod_refcount = NoMods /\ implicit_mod_refcount = NoMods
    /\ explicit_mods = {} /\ implicit_mods = {}
    /\ kb_pending = <<>> /\ cons_pending = <<>>
    /\ hid_retry_work = FALSE
    /\ was_active = FALSE /\ active = FALSE /\ quiet = FALSE
    /\ host_kb = KbBody /\ host_cons = {}
    /\ missed = {} /\ unseen = {} /\ overflowed = FALSE

HidNext ==
    \/ \E p \in Positions : hid_relay_cb(p)
    \/ hid_retry_work_fn
    \/ ActiveChanges
    \/ QuietChanges

HidSpec == HidInit /\ [][HidNext]_hidVars

\* A scheduled work item is run.
FairHidSpec == HidSpec /\ WF_hidVars(hid_retry_work_fn)

----------------------------------------------------------------------------
(* Properties.                                                              *)

KbReports == [modifiers : SUBSET Mods, keys : SUBSET Usages]

\* Type invariant: the reports fit their slots, the queues their depth.
HidTypeOK ==
    /\ held \subseteq Positions
    /\ kb_keys \subseteq Usages /\ Cardinality(kb_keys) <= KeySlots
    /\ cons_keys \subseteq Usages /\ Cardinality(cons_keys) <= ConsSlots
    /\ explicit_mod_refcount \in [Mods -> Nat] /\ implicit_mod_refcount \in [Mods -> Nat]
    /\ explicit_mods \subseteq Mods /\ implicit_mods \subseteq Mods
    /\ kb_pending \in Seq(KbReports) /\ Len(kb_pending) <= KbDepth
    /\ cons_pending \in Seq(SUBSET Usages) /\ Len(cons_pending) <= ConsDepth
    /\ hid_retry_work \in BOOLEAN
    /\ was_active \in BOOLEAN /\ active \in BOOLEAN /\ quiet \in BOOLEAN
    /\ host_kb \in KbReports /\ host_cons \subseteq Usages
    /\ missed \subseteq {"kb", "cons"}
    /\ unseen \subseteq Usages
    /\ overflowed \in BOOLEAN

\* The positions of a page that are down, and the modifiers held by anyone.
Down(pages) == {p \in held : page[p] \in pages}
HeldMods(mods) == {m \in Mods : \E p \in held : m \in mods[p]}

\* However presses and releases of keys that share modifiers overlap, a
\* modifier is reported exactly while some key holds it, and no usage is
\* reported that no key holds: nothing is stranded in the report.
ReportIsTruth ==
    /\ explicit_mods = HeldMods(emods)
    /\ implicit_mods = HeldMods(imods)
    /\ kb_keys \subseteq {usage[p] : p \in Down({"key"})}
    /\ cons_keys \subseteq {usage[p] : p \in Down({"consumer"})}

\* The queue "still ends on the latest state" however it is overrun: the last
\* report sent, or the last one deferred, is the current one, for each kind
\* of report with no change made while the endpoint was inactive.
HostCatchesUp ==
    /\ "kb" \notin missed =>
            KbBody = IF kb_pending = <<>> THEN host_kb ELSE kb_pending[Len(kb_pending)]
    /\ "cons" \notin missed =>
            cons_keys = IF cons_pending = <<>> THEN host_cons
                        ELSE cons_pending[Len(cons_pending)]

KbReport == INSTANCE DeferredReports WITH
    Depth <- KbDepth, current <- KbBody, backlog <- kb_pending, host <- host_kb
ConsReport == INSTANCE DeferredReports WITH
    Depth <- ConsDepth, current <- cons_keys, backlog <- cons_pending, host <- host_cons

\* Refinement: each kind of report reaches the host as the specification of
\* deferred reports says, across windows, overruns and profile switches; no
\* press or release is replayed, and none is told after a later one.
ReportsAreDeferred == KbReport!DeferredSpec /\ ConsReport!DeferredSpec

\* A key pressed within a quiet window, released there or not, is shown by a
\* deferred report until reports are sent again, unless the queue was overrun:
\* keystrokes are not swallowed.
TapsNotSwallowed == ~overflowed => unseen \subseteq Shown(kb_pending)

\* Deferred reports do not lie about once the quiet windows stop, even if no
\* key is touched any more.
DeferredDelivered ==
    <>[]~quiet => (kb_pending # <<>> \/ cons_pending # <<>>
                        ~> kb_pending = <<>> /\ cons_pending = <<>>)
=============================================================================
