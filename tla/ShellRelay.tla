----------------------------- MODULE ShellRelay -----------------------------
(***************************************************************************)
(* The keyboard's shell relay, src/shell/shell_relay.c, with background     *)
(* polling configured.  The dongle opens a session with SHELL_REQ, sends    *)
(* the bytes typed at its terminal as SHELL_DATA, and gets output back.     *)
(*                                                                         *)
(* Packets and all work items but one run on the system workqueue, hooks of *)
(* the pairing module there or on the control thread; both are cooperative  *)
(* and a handler is one step.  Commands run on a preemptible thread of      *)
(* their own: copying the command and writing its output are two steps.    *)
(*                                                                         *)
(* Output is counted in packets; its text, the colours and the line breaks  *)
(* of log messages are left out.  A send may fall into a quiet window or a  *)
(* side trip of the transport at any time: `dropped' below.                *)
(***************************************************************************)
EXTENDS Integers, Sequences

CONSTANTS
    Letters,        \* bytes that are neither of the following
    NUL, NL, BS,    \* end of string, newline or return, backspace or delete
    Packets,        \* contents of one SHELL_DATA from the dongle
    CmdSize,        \* ..._SHELL_CMD_BUF_SIZE
    OutSize,        \* ..._SHELL_OUT_BUF_SIZE, in packets
    StdoutSize,     \* ..._SHELL_STDOUT_COALESCE_BYTES
    FifoDepth       \* CONFIG_ESB_TX_FIFO_SIZE

ASSUME BytesAssumption == NUL \notin Letters /\ NL \notin Letters /\ BS \notin Letters
ASSUME PacketsAssumption == Packets \subseteq Seq(Letters \cup {NL, BS})
ASSUME SizesAssumption == /\ CmdSize \in Nat \ {0} /\ OutSize \in Nat \ {0}
                          /\ StdoutSize \in Nat \ {0} /\ FifoDepth \in Nat \ {0}

VARIABLES
    m_shell_active,
    cmd_buf, cmd_len,
    exec_work,      \* shell_exec_work waits for its thread
    dequeued,       \* the thread has taken the work and not yet copied cmd_buf
    running,        \* the thread is inside shell_execute_cmd
    out_rb,         \* packets of output in the ring
    stdout_buf_len,
    works,          \* scheduled: "poll", "inactivity", "drain", "flush", "bg_poll"
    link,           \* slot "off", "up" without a peer, or "connected"
    saving,         \* the workqueue is blocked in save_paired and will then call
                    \* the hook "connected" or "disconnected", or "none"
    tx_queued,      \* packets in the engine's TX FIFO
    typing,         \* somebody is typing at the dongle's terminal
    typed,          \* history: the line so far, as the user sees it
    line,           \* history: the line exec_work was submitted for
    clobbered,      \* history: bytes came in before the thread copied that line
    timed_out,      \* history: a session of this connection ended by itself
    astray          \* history: the hook was not called, or called too late

threadVars == <<dequeued, running>>
cmdVars == <<cmd_buf, cmd_len, exec_work, typed, line, clobbered>>
envVars == <<link, saving, typing, timed_out, astray>>
shellVars == <<m_shell_active, cmdVars, threadVars, out_rb, stdout_buf_len, works,
               tx_queued, envVars>>

----------------------------------------------------------------------------
(* The workqueue and the transport, as the relay meets them.                *)

WorkqueueFree == saving = "none"

Least(a, b) == IF a < b THEN a ELSE b

\* Shell data, polls and stops are refused by a full FIFO.
SendsShell(n, dropped) ==
    IF link = "off" \/ dropped THEN tx_queued ELSE Least(tx_queued + n, FifoDepth)

\* Every other packet flushes a full FIFO.
SendsOther(dropped) ==
    IF link = "off" \/ dropped THEN tx_queued
    ELSE IF tx_queued = FifoDepth THEN 1 ELSE tx_queued + 1

----------------------------------------------------------------------------
(* Output.                                                                  *)

\* out_enqueue: what does not fit is dropped.
out_enqueue(rb, n) == Least(rb + n, OutSize)

\* Packets leave the ring until it is empty or the FIFO is full; any other
\* error costs one packet and ends the loop.
out_drain_work_fn(dropped) ==
    /\ WorkqueueFree /\ "drain" \in works
    /\ works' = works \ {"drain"}
    /\ tx_queued' = IF m_shell_active THEN SendsShell(out_rb, dropped) ELSE tx_queued
    /\ out_rb' = CASE ~m_shell_active -> out_rb
                   [] m_shell_active /\ link = "off" -> IF out_rb > 0 THEN out_rb - 1 ELSE 0
                   [] m_shell_active /\ link # "off" /\ dropped -> 0
                   [] OTHER -> out_rb - (tx_queued' - tx_queued)
    /\ UNCHANGED <<m_shell_active, cmdVars, threadVars, stdout_buf_len, envVars>>

\* esb_stdout_hook, installed while the slot is active; it is called by any
\* thread, and looks at m_shell_active first.
esb_stdout_hook ==
    /\ link # "off" /\ m_shell_active
    /\ stdout_buf_len' = Least(stdout_buf_len + 1, StdoutSize)
    /\ works' = works \cup {"flush"}
    /\ UNCHANGED <<m_shell_active, cmdVars, threadVars, out_rb, tx_queued, envVars>>

stdout_flush_work_fn ==
    LET out == stdout_buf_len > 0 /\ m_shell_active
    IN  /\ WorkqueueFree /\ "flush" \in works
        /\ stdout_buf_len' = 0
        /\ out_rb' = IF out THEN out_enqueue(out_rb, 1) ELSE out_rb
        /\ works' = (works \ {"flush"}) \cup (IF out THEN {"drain"} ELSE {})
        /\ UNCHANGED <<m_shell_active, cmdVars, threadVars, tx_queued, envVars>>

\* A log message.
esb_log_backend_process ==
    /\ m_shell_active
    /\ out_rb' = out_enqueue(out_rb, 1)
    /\ works' = works \cup {"drain"}
    /\ UNCHANGED <<m_shell_active, cmdVars, threadVars, stdout_buf_len, tx_queued, envVars>>

----------------------------------------------------------------------------
(* Commands.                                                                *)

\* The command as strncpy reads it.
Text(buf) ==
    LET ends == {n \in 0..(CmdSize - 1) : buf[n] = NUL \/ n = CmdSize - 1}
        n == CHOOSE n \in ends : \A m \in ends : n <= m
    IN  [i \in 1..n |-> buf[i - 1]]

\* Mutant of Newline: the string is not terminated.
Newline_Open(s) ==
    IF s.len = 0 THEN s
    ELSE [s EXCEPT !.len = 0, !.exec = TRUE, !.line = s.typed, !.typed = <<>>,
                   !.clobbered = FALSE]

\* Submitting the work item again while it waits changes nothing.
Newline(s) ==
    IF s.len = 0 THEN s
    ELSE [s EXCEPT !.buf[s.len] = NUL, !.len = 0, !.exec = TRUE, !.line = s.typed,
                   !.typed = <<>>, !.clobbered = FALSE]

\* Erased on the dongle's terminal too.
Backspace(s) ==
    IF s.len = 0 THEN s
    ELSE [s EXCEPT !.len = @ - 1, !.typed = SubSeq(@, 1, Len(@) - 1), !.erased = @ + 1]

\* Mutant of Letter: the last byte of the buffer is used as well.
Letter_Full(s, b) ==
    IF s.len < CmdSize
    THEN [s EXCEPT !.buf = [n \in 0..s.len |-> IF n = s.len THEN b ELSE s.buf[n]],
                   !.len = @ + 1, !.typed = Append(@, b), !.clobbered = (s.exec \/ dequeued)]
    ELSE s

Letter(s, b) ==
    IF s.len < CmdSize - 1
    THEN [s EXCEPT !.buf[s.len] = b, !.len = @ + 1, !.typed = Append(@, b),
                   !.clobbered = (s.exec \/ dequeued)]
    ELSE s

Byte(s, b) == IF b = NL THEN Newline(s) ELSE IF b = BS THEN Backspace(s) ELSE Letter(s, b)

\* The bytes of a packet are taken one by one.
Taken(s0, pkt) ==
    LET s[n \in 0..Len(pkt)] == IF n = 0 THEN s0 ELSE Byte(s[n - 1], pkt[n])
    IN  s[Len(pkt)]

\* esb_shell_relay_on_data in a session.
DataInSession(pkt) ==
    LET s == Taken([buf |-> cmd_buf, len |-> cmd_len, exec |-> exec_work, typed |-> typed,
                    line |-> line, clobbered |-> clobbered, erased |-> 0], pkt)
    IN  /\ cmd_buf' = s.buf /\ cmd_len' = s.len /\ exec_work' = s.exec
        /\ typed' = s.typed /\ line' = s.line /\ clobbered' = s.clobbered
        /\ out_rb' = out_enqueue(out_rb, s.erased)
        /\ works' = works \cup {"inactivity"} \cup (IF s.erased > 0 THEN {"drain"} ELSE {})
        /\ UNCHANGED tx_queued

\* Data without a session: the dongle is told, unless it was told just before.
Nudge(nudges, dropped) ==
    /\ tx_queued' = IF nudges THEN SendsShell(1, dropped) ELSE tx_queued
    /\ UNCHANGED <<cmdVars, out_rb, works>>

esb_shell_relay_on_data(pkt, nudges, dropped) ==
    /\ WorkqueueFree /\ typing
    /\ IF m_shell_active THEN DataInSession(pkt) ELSE Nudge(nudges, dropped)
    /\ UNCHANGED <<m_shell_active, threadVars, stdout_buf_len, envVars>>

\* The thread takes the work off its queue: from now on a newline submits it
\* again.
ExecTake ==
    /\ exec_work /\ ~dequeued /\ ~running
    /\ exec_work' = FALSE
    /\ dequeued' = TRUE
    /\ UNCHANGED <<m_shell_active, cmd_buf, cmd_len, typed, line, clobbered, running, out_rb,
                   stdout_buf_len, works, tx_queued, envVars>>

\* shell_exec_work_fn up to the end of the copy.  With the work submitted again
\* meanwhile, the same line will be copied once more.
ExecCopy ==
    /\ dequeued
    /\ dequeued' = FALSE
    /\ running' = TRUE
    /\ line' = IF exec_work THEN line ELSE <<>>
    /\ clobbered' = (clobbered /\ exec_work)
    /\ UNCHANGED <<m_shell_active, cmd_buf, cmd_len, exec_work, typed, out_rb,
                   stdout_buf_len, works, tx_queued, envVars>>

\* Its output and the prompt, whether or not the session is still there.
ExecDone(n) ==
    /\ running
    /\ running' = FALSE
    /\ UNCHANGED dequeued
    /\ out_rb' = out_enqueue(out_rb, n + 1)
    /\ works' = works \cup {"drain"}
    /\ UNCHANGED <<m_shell_active, cmdVars, stdout_buf_len, tx_queued, envVars>>

----------------------------------------------------------------------------
(* The session.                                                             *)

\* Mutant of esb_shell_relay_on_req: the timeout starts with the first byte.
esb_shell_relay_on_req_Untimed ==
    /\ WorkqueueFree /\ ~m_shell_active
    /\ m_shell_active' = TRUE
    /\ cmd_len' = 0 /\ typed' = <<>>
    /\ stdout_buf_len' = 0
    /\ out_rb' = out_enqueue(0, 1)
    /\ works' = (works \ {"flush", "bg_poll"}) \cup {"poll", "drain"}
    /\ UNCHANGED <<cmd_buf, exec_work, line, clobbered, threadVars, tx_queued, envVars>>

\* SHELL_REQ; it is obeyed in every state of the pairing module, also when it
\* was received before the slot was left.
esb_shell_relay_on_req ==
    /\ WorkqueueFree /\ ~m_shell_active
    /\ m_shell_active' = TRUE
    /\ cmd_len' = 0 /\ typed' = <<>>
    /\ stdout_buf_len' = 0
    /\ out_rb' = out_enqueue(0, 1)
    /\ works' = (works \ {"flush", "bg_poll"}) \cup {"poll", "inactivity", "drain"}
    /\ UNCHANGED <<cmd_buf, exec_work, line, clobbered, threadVars, tx_queued, envVars>>

\* Mutant of shell_poll_work_fn: a refused poll is the last one.
shell_poll_work_fn_GivesUp(dropped) ==
    /\ WorkqueueFree /\ "poll" \in works
    /\ works' = IF m_shell_active /\ tx_queued < FifoDepth THEN works ELSE works \ {"poll"}
    /\ tx_queued' = IF m_shell_active THEN SendsShell(1, dropped) ELSE tx_queued
    /\ UNCHANGED <<m_shell_active, cmdVars, threadVars, out_rb, stdout_buf_len, envVars>>

\* The poll schedules itself again whatever became of the packet.
shell_poll_work_fn(dropped) ==
    /\ WorkqueueFree /\ "poll" \in works
    /\ works' = IF m_shell_active THEN works ELSE works \ {"poll"}
    /\ tx_queued' = IF m_shell_active THEN SendsShell(1, dropped) ELSE tx_queued
    /\ UNCHANGED <<m_shell_active, cmdVars, threadVars, out_rb, stdout_buf_len, envVars>>

inactivity_work_fn(dropped) ==
    /\ WorkqueueFree /\ "inactivity" \in works
    /\ m_shell_active' = FALSE
    /\ works' = works \ {"inactivity", "poll", "flush"}
    /\ stdout_buf_len' = 0
    /\ out_rb' = 0
    /\ tx_queued' = SendsShell(1, dropped)
    /\ timed_out' = TRUE
    /\ UNCHANGED <<cmdVars, threadVars, link, saving, typing, astray>>

\* In a session the work ends without scheduling itself again; outside of one
\* the packet is sent only if there was traffic of late.
bg_poll_work_fn(recent, dropped) ==
    /\ WorkqueueFree /\ "bg_poll" \in works
    /\ works' = IF m_shell_active THEN works \ {"bg_poll"} ELSE works
    /\ tx_queued' = IF ~m_shell_active /\ recent THEN SendsOther(dropped) ELSE tx_queued
    /\ UNCHANGED <<m_shell_active, cmdVars, threadVars, out_rb, stdout_buf_len, envVars>>

\* The user asks for a session with the &esb_shell_req behavior.
esb_shell_relay_request(dropped) ==
    /\ link # "off" /\ ~m_shell_active
    /\ tx_queued' = SendsOther(dropped)
    /\ UNCHANGED <<m_shell_active, cmdVars, threadVars, out_rb, stdout_buf_len, works,
                   envVars>>

----------------------------------------------------------------------------
(* Hooks of the pairing module and of the endpoint.                         *)

\* Mutant of esb_shell_relay_on_connected: polling is left as it is.
esb_shell_relay_on_connected_Silent ==
    /\ m_shell_active' = FALSE
    /\ works' = works \ {"poll", "inactivity", "flush"}
    /\ stdout_buf_len' = 0 /\ out_rb' = 0
    /\ cmd_len' = 0 /\ typed' = <<>>
    /\ UNCHANGED <<cmd_buf, exec_work, line, clobbered, threadVars, tx_queued, typing>>

esb_shell_relay_on_connected ==
    /\ m_shell_active' = FALSE
    /\ works' = (works \ {"poll", "inactivity", "flush"}) \cup {"bg_poll"}
    /\ stdout_buf_len' = 0 /\ out_rb' = 0
    /\ cmd_len' = 0 /\ typed' = <<>>
    /\ UNCHANGED <<cmd_buf, exec_work, line, clobbered, threadVars, tx_queued, typing>>

esb_shell_relay_on_disconnected ==
    /\ m_shell_active' = FALSE
    /\ works' = works \ (IF m_shell_active THEN {"bg_poll", "poll", "inactivity", "flush"}
                         ELSE {"bg_poll"})
    /\ stdout_buf_len' = IF m_shell_active THEN 0 ELSE stdout_buf_len
    /\ out_rb' = IF m_shell_active THEN 0 ELSE out_rb
    /\ UNCHANGED <<cmdVars, threadVars, typing>>

\* VERIFY_RESP.
Verified ==
    /\ WorkqueueFree /\ link = "up" /\ link' = "connected"
    /\ esb_shell_relay_on_connected
    /\ timed_out' = FALSE /\ astray' = FALSE
    /\ UNCHANGED saving

\* RESYNC.
Resync ==
    /\ WorkqueueFree /\ link = "connected" /\ link' = "up"
    /\ esb_shell_relay_on_disconnected
    /\ astray' = FALSE
    /\ UNCHANGED <<tx_queued, timed_out, saving>>

\* PAIR_REQ, and DISCONNECT, which is obeyed even if the slot was left
\* meanwhile: the state changes, then the record is saved.
SaveBegins(hook) ==
    /\ WorkqueueFree /\ saving' = hook
    /\ \/ hook = "connected" /\ link = "up" /\ link' = "connected"
       \/ hook = "disconnected" /\ link' = IF link = "off" THEN "off" ELSE "up"
    /\ UNCHANGED <<m_shell_active, cmdVars, threadVars, out_rb, stdout_buf_len, works,
                   tx_queued, typing, timed_out, astray>>

\* The hook is called whatever the control thread has done in the meantime.
SaveEnds ==
    /\ saving # "none" /\ saving' = "none"
    /\ \/ /\ saving = "connected" /\ esb_shell_relay_on_connected
          /\ timed_out' = FALSE /\ astray' = (link # "connected")
       \/ /\ saving = "disconnected" /\ esb_shell_relay_on_disconnected
          /\ astray' = FALSE /\ UNCHANGED <<tx_queued, timed_out>>
    /\ UNCHANGED link

\* The slot is left: the engine drops its queue, then pairing_stop.
Deactivate ==
    /\ link # "off" /\ link' = "off"
    /\ esb_shell_relay_on_disconnected
    /\ tx_queued' = 0 /\ astray' = FALSE
    /\ UNCHANGED <<timed_out, saving>>

\* ACTIVATE, also of an active slot: esb_init drops the queue, pairing_start
\* leaves CONNECTED and calls no hook.
Activate ==
    /\ link' = "up"
    /\ tx_queued' = 0
    /\ astray' = (astray \/ link = "connected")
    /\ UNCHANGED <<m_shell_active, cmdVars, threadVars, out_rb, stdout_buf_len, works, saving,
                   typing, timed_out>>

\* pairing_unpair calls no hook.
Unpair ==
    /\ link = "connected" /\ link' = "up"
    /\ astray' = TRUE
    /\ UNCHANGED <<m_shell_active, cmdVars, threadVars, out_rb, stdout_buf_len, works,
                   tx_queued, typing, timed_out, saving>>

----------------------------------------------------------------------------
(* The radio, other traffic and the user.                                   *)

\* A packet is acknowledged; esb_shell_relay_notify_tx.
TxSuccess ==
    /\ tx_queued > 0
    /\ tx_queued' = tx_queued - 1
    /\ works' = works \cup (IF m_shell_active /\ out_rb > 0 THEN {"drain"} ELSE {})
    /\ UNCHANGED <<m_shell_active, cmdVars, threadVars, out_rb, stdout_buf_len, envVars>>

\* A packet that failed stays queued, unless the FIFO is full.
TxFailed ==
    /\ tx_queued > 0
    /\ tx_queued' = IF tx_queued = FifoDepth THEN 0 ELSE tx_queued
    /\ UNCHANGED <<m_shell_active, cmdVars, threadVars, out_rb, stdout_buf_len, works,
                   envVars>>

OtherTraffic ==
    /\ link # "off"
    /\ tx_queued' = SendsOther(FALSE)
    /\ UNCHANGED <<m_shell_active, cmdVars, threadVars, out_rb, stdout_buf_len, works,
                   envVars>>

UserPauses ==
    /\ typing' = ~typing
    /\ UNCHANGED <<m_shell_active, cmdVars, threadVars, out_rb, stdout_buf_len, works, link,
                   tx_queued, timed_out, astray, saving>>

----------------------------------------------------------------------------

ShellInit ==
    /\ m_shell_active = FALSE
    /\ cmd_buf = [n \in 0..(CmdSize - 1) |-> NUL] /\ cmd_len = 0
    /\ exec_work = FALSE /\ dequeued = FALSE /\ running = FALSE
    /\ out_rb = 0 /\ stdout_buf_len = 0
    /\ works = {}
    /\ link = "off" /\ saving = "none" /\ tx_queued = 0
    /\ typing = FALSE
    /\ typed = <<>> /\ line = <<>> /\ clobbered = FALSE
    /\ timed_out = FALSE /\ astray = FALSE

ShellNext ==
    \/ \E pkt \in Packets, nudges, dropped \in BOOLEAN :
            esb_shell_relay_on_data(pkt, nudges, dropped)
    \/ \E dropped \in BOOLEAN :
        \/ out_drain_work_fn(dropped)
        \/ shell_poll_work_fn(dropped)
        \/ inactivity_work_fn(dropped)
        \/ esb_shell_relay_request(dropped)
        \/ \E recent \in BOOLEAN : bg_poll_work_fn(recent, dropped)
    \/ esb_shell_relay_on_req
    \/ Verified
    \/ Resync
    \/ \E hook \in {"connected", "disconnected"} : SaveBegins(hook)
    \/ SaveEnds
    \/ esb_stdout_hook
    \/ stdout_flush_work_fn
    \/ esb_log_backend_process
    \/ ExecTake
    \/ ExecCopy
    \/ \E n \in 0..1 : ExecDone(n)
    \/ Deactivate
    \/ Activate
    \/ Unpair
    \/ TxSuccess
    \/ TxFailed
    \/ OtherTraffic
    \/ UserPauses

ShellSpec == ShellInit /\ [][ShellNext]_shellVars

\* Scheduled work items run, and a save ends.  The inactivity timer expires only if nobody
\* types; quiet windows end, so not every poll falls into one; a packet that is
\* sent again and again is acknowledged.
FairShellSpec ==
    /\ ShellSpec
    /\ \A dropped \in BOOLEAN : WF_shellVars(~typing /\ inactivity_work_fn(dropped))
    /\ SF_shellVars(shell_poll_work_fn(FALSE))
    /\ SF_shellVars(TxSuccess)
    /\ WF_shellVars(SaveEnds)

----------------------------------------------------------------------------
(* Properties.                                                              *)

\* Type invariant: above all, bytes stay inside cmd_buf.
ShellTypeOK ==
    /\ m_shell_active \in BOOLEAN
    /\ cmd_buf \in [0..(CmdSize - 1) -> Letters \cup {NUL}]
    /\ cmd_len \in 0..(CmdSize - 1)
    /\ exec_work \in BOOLEAN /\ dequeued \in BOOLEAN /\ running \in BOOLEAN
    /\ out_rb \in 0..OutSize
    /\ stdout_buf_len \in 0..StdoutSize
    /\ works \subseteq {"poll", "inactivity", "drain", "flush", "bg_poll"}
    /\ link \in {"off", "up", "connected"}
    /\ saving \in {"none", "connected", "disconnected"}
    /\ tx_queued \in 0..FifoDepth
    /\ typing \in BOOLEAN
    /\ typed \in Seq(Letters) /\ line \in Seq(Letters)
    /\ clobbered \in BOOLEAN /\ timed_out \in BOOLEAN /\ astray \in BOOLEAN

\* "Received SHELL_DATA bytes are accumulated until a newline, then executed":
\* whatever was typed before, erased, cut off by the size of the buffer or
\* left over from a session that ended, the text the exec thread will copy is
\* the line the user completed last, unless more bytes have come in since.
ExecutesLines == (exec_work \/ dequeued) /\ ~clobbered => Text(cmd_buf) = line

\* Kconfig: in a connection without a session the keyboard polls in the
\* background, so that a SHELL_REQ can reach it, and stops with the connection;
\* not so after a session that has timed out, nor where the hook was not called
\* or was overtaken by the control thread.
BackgroundPoll ==
    WorkqueueFree =>
        /\ link = "connected" /\ ~m_shell_active /\ ~timed_out => "bg_poll" \in works
        /\ "bg_poll" \in works => link = "connected" \/ astray

\* Kconfig: "The session ends automatically after SHELL_INACTIVITY_S of no
\* input", however it came about and whatever goes on beside it.
SessionEnds == m_shell_active /\ ~typing ~> ~m_shell_active \/ typing

\* "draining resumes on TX_SUCCESS": output the FIFO refused is not left lying,
\* even if every packet that stood in its way was lost.
DrainResumes ==
    m_shell_active /\ out_rb > 0 /\ link # "off"
        ~> "drain" \in works \/ ~m_shell_active \/ link = "off"
=============================================================================
