-------------------------- MODULE ShellRelayProofs --------------------------
(***************************************************************************)
(* Proofs about module ShellRelay, for every size of the buffers and every  *)
(* packet.  Bytes stay inside cmd_buf, and the text the exec thread copies  *)
(* is the line the user completed last: what was typed is what the buffer   *)
(* starts with, byte after byte, and a byte that comes in while a command   *)
(* waits is known to have spoilt it.  The keyboard polls in the background  *)
(* while it is connected without a session.  And no buffer overflows.      *)
(***************************************************************************)
EXTENDS ShellRelay, SequenceTheorems, WellFoundedInduction, TLAPS

----------------------------------------------------------------------------
(* Background polling.                                                      *)

\* While the record of a disconnect is saved the keyboard is not connected.
PollInv ==
    /\ BackgroundPoll
    /\ saving = "disconnected" => link # "connected"
    /\ saving \in {"none", "connected", "disconnected"}
    /\ link \in {"off", "up", "connected"}

\* What a step that calls no hook leaves alone.
LEMMA PollUntouched ==
    ASSUME PollInv, UNCHANGED <<link, saving, timed_out, astray, m_shell_active>>,
           "bg_poll" \in works' <=> "bg_poll" \in works
    PROVE  PollInv'
BY DEF PollInv, BackgroundPoll, WorkqueueFree

\* Polling starts and stops with the hooks of the pairing module.
LEMMA StepPoll ==
    ASSUME PollInv, [ShellNext]_shellVars
    PROVE  PollInv'
<1> USE DEF envVars
<1>1. ASSUME NEW pkt \in Packets, NEW nudges \in BOOLEAN, NEW dropped \in BOOLEAN,
             esb_shell_relay_on_data(pkt, nudges, dropped)
      PROVE  PollInv'
  <2>1. "bg_poll" \in works' <=> "bg_poll" \in works
    BY <1>1 DEF esb_shell_relay_on_data, DataInSession, Nudge
  <2>2. UNCHANGED <<link, saving, timed_out, astray, m_shell_active>>
    BY <1>1 DEF esb_shell_relay_on_data
  <2> QED
    BY <2>1, <2>2, PollUntouched
<1>2. ASSUME NEW dropped \in BOOLEAN,
             \/ out_drain_work_fn(dropped) \/ shell_poll_work_fn(dropped)
             \/ esb_shell_relay_request(dropped)
      PROVE  PollInv'
  BY <1>2, PollUntouched DEF out_drain_work_fn, shell_poll_work_fn, esb_shell_relay_request
<1>3. ASSUME NEW n \in 0..1,
             \/ esb_stdout_hook \/ stdout_flush_work_fn \/ esb_log_backend_process
             \/ ExecTake \/ ExecCopy
             \/ ExecDone(n) \/ TxSuccess \/ TxFailed \/ OtherTraffic \/ UserPauses
             \/ UNCHANGED shellVars
      PROVE  PollInv'
  BY <1>3, PollUntouched DEF esb_stdout_hook, stdout_flush_work_fn, esb_log_backend_process,
       ExecTake, ExecCopy, ExecDone, TxSuccess, TxFailed, OtherTraffic, UserPauses, shellVars
<1>4. ASSUME NEW dropped \in BOOLEAN,
             \/ inactivity_work_fn(dropped)
             \/ \E recent \in BOOLEAN : bg_poll_work_fn(recent, dropped)
      PROVE  PollInv'
  BY <1>4 DEF inactivity_work_fn, bg_poll_work_fn, PollInv, BackgroundPoll, WorkqueueFree
<1>5. CASE esb_shell_relay_on_req
  BY <1>5 DEF esb_shell_relay_on_req, PollInv, BackgroundPoll, WorkqueueFree
<1>6. CASE Verified \/ Resync
  BY <1>6 DEF Verified, Resync, esb_shell_relay_on_connected, esb_shell_relay_on_disconnected,
       PollInv, BackgroundPoll, WorkqueueFree
<1>7. ASSUME NEW hook \in {"connected", "disconnected"}, SaveBegins(hook) PROVE PollInv'
  BY <1>7 DEF SaveBegins, PollInv, BackgroundPoll, WorkqueueFree
<1>8. CASE SaveEnds
  BY <1>8 DEF SaveEnds, esb_shell_relay_on_connected, esb_shell_relay_on_disconnected,
       PollInv, BackgroundPoll, WorkqueueFree
<1>9. CASE Deactivate \/ Activate \/ Unpair
  BY <1>9 DEF Deactivate, Activate, Unpair, esb_shell_relay_on_disconnected,
       PollInv, BackgroundPoll, WorkqueueFree
<1> QED
  BY <1>1, <1>2, <1>3, <1>4, <1>5, <1>6, <1>7, <1>8, <1>9 DEF ShellNext

\* The keyboard polls in the background while it is connected without a session
\* and stops with the connection (esb_shell_relay_on_connected,
\* esb_shell_relay_on_disconnected, bg_poll_work_fn), except where a session
\* has timed out or the hook was not called or came too late.
THEOREM PollsInBackground == ShellSpec => []BackgroundPoll
<1>1. ShellInit => PollInv
  BY DEF ShellInit, PollInv, BackgroundPoll
<1>2. PollInv => BackgroundPoll
  BY DEF PollInv
<1> QED
  BY <1>1, <1>2, StepPoll, PTL DEF ShellSpec

----------------------------------------------------------------------------
(* The command buffer.                                                      *)

Bytes == Letters \cup {NUL}
Offsets == 0..(CmdSize - 1)

\* The buffer starts with the text.
Holds(buf, text) == Len(text) < CmdSize /\ \A n \in 1..Len(text) : buf[n - 1] = text[n]

CmdStates == [buf : [Offsets -> Bytes], len : Offsets, exec : BOOLEAN, typed : Seq(Letters),
              line : Seq(Letters), clobbered : BOOLEAN, erased : Nat]

\* The buffer holds what was typed, and the line that waits with its end mark
\* unless it was spoilt.
CmdOK(s) ==
    /\ s \in CmdStates
    /\ Len(s.typed) = s.len /\ Holds(s.buf, s.typed)
    /\ (s.exec \/ dequeued) /\ ~s.clobbered => Holds(s.buf, s.line) /\ s.buf[Len(s.line)] = NUL

\* A newline ends the string where the line ends.
LEMMA NewlineKeeps ==
    ASSUME NEW s, CmdOK(s)
    PROVE  CmdOK(Newline(s))
<1> DEFINE t == Newline(s)
<1>1. CASE s.len = 0
  BY <1>1 DEF Newline
<1>2. CASE s.len # 0
  <2>0. s \in CmdStates /\ s.len \in Offsets /\ s.buf \in [Offsets -> Bytes] /\ NUL \in Bytes
    BY DEF CmdOK, CmdStates, Bytes
  <2>1. /\ t = [s EXCEPT !.buf = [s.buf EXCEPT ![s.len] = NUL], !.len = 0, !.exec = TRUE,
                         !.line = s.typed, !.typed = <<>>, !.clobbered = FALSE]
    BY <1>2 DEF Newline
  <2> HIDE DEF t
  <2>2. /\ t.buf = [s.buf EXCEPT ![s.len] = NUL] /\ t.len = 0 /\ t.line = s.typed
        /\ t.typed = <<>>
    BY <2>0, <2>1 DEF CmdStates
  <2>3. [s.buf EXCEPT ![s.len] = NUL] \in [Offsets -> Bytes] /\ 0 \in Offsets
          /\ <<>> \in Seq(Letters) /\ s.typed \in Seq(Letters)
    BY <2>0, SizesAssumption DEF Offsets, CmdStates
  <2>4. t \in CmdStates
    BY <2>0, <2>1, <2>3 DEF CmdStates
  <2>5. Len(s.typed) = s.len /\ Holds(s.buf, s.typed) /\ s.len \in Nat
    BY <2>0, SizesAssumption DEF CmdOK, Offsets
  <2>6. t.buf[Len(t.line)] = NUL
    BY <2>0, <2>2, <2>5
  <2>7. Holds(t.buf, t.line)
    <3>1. \A n \in 1..Len(s.typed) : n - 1 \in Offsets /\ n - 1 # s.len
      BY <2>0, <2>5, SizesAssumption DEF Offsets
    <3>2. \A n \in Offsets : n # s.len => t.buf[n] = s.buf[n]
      BY <2>0, <2>2
    <3> QED
      BY <2>2, <2>5, <3>1, <3>2 DEF Holds
  <2>8. Len(t.typed) = t.len /\ Holds(t.buf, t.typed)
    BY <2>2, SizesAssumption DEF Holds
  <2> QED
    BY <2>4, <2>6, <2>7, <2>8 DEF CmdOK, t
<1> QED
  BY <1>1, <1>2

\* A backspace takes the last byte back.
LEMMA BackspaceKeeps ==
    ASSUME NEW s, CmdOK(s)
    PROVE  CmdOK(Backspace(s))
<1> DEFINE t == Backspace(s)
<1>1. CASE s.len = 0
  BY <1>1 DEF Backspace
<1>2. CASE s.len # 0
  <2> DEFINE front == SubSeq(s.typed, 1, Len(s.typed) - 1)
  <2>0. /\ s \in CmdStates /\ s.len \in Offsets /\ s.typed \in Seq(Letters) /\ s.erased \in Nat
        /\ Len(s.typed) = s.len /\ Holds(s.buf, s.typed)
    BY DEF CmdOK, CmdStates
  <2>1. t = [s EXCEPT !.len = s.len - 1, !.typed = front, !.erased = s.erased + 1]
    BY <1>2, <2>0 DEF Backspace, CmdStates
  <2>2. /\ front \in Seq(Letters) /\ Len(front) = s.len - 1
        /\ \A n \in 1..(s.len - 1) : front[n] = s.typed[n]
    <3>1. s.len \in Nat \ {0}
      BY <1>2, <2>0, SizesAssumption DEF Offsets
    <3>2. \A n \in 1..(Len(s.typed) - 1) : s.typed[n] \in Letters
      BY <2>0, <3>1
    <3>3. /\ front \in Seq(Letters)
          /\ Len(front) = IF 1 <= Len(s.typed) - 1 THEN (Len(s.typed) - 1) - 1 + 1 ELSE 0
          /\ \A n \in 1..((Len(s.typed) - 1) - 1 + 1) : front[n] = s.typed[1 + n - 1]
      <4>1. Len(s.typed) - 1 \in Int /\ 1 \in Int
        BY <2>0, <3>1
      <4> QED
        BY <3>2, <4>1, SubSeqProperties
    <3> HIDE DEF front
    <3> QED
      BY <2>0, <3>1, <3>3
  <2> HIDE DEF t, front
  <2>3. t.len = s.len - 1 /\ t.typed = front /\ t.buf = s.buf /\ t.line = s.line
          /\ t.exec = s.exec /\ t.clobbered = s.clobbered
    BY <2>0, <2>1 DEF CmdStates
  <2>4. t \in CmdStates
    <3>1. s.len - 1 \in Offsets /\ s.erased + 1 \in Nat
      BY <1>2, <2>0, SizesAssumption DEF Offsets
    <3> QED
      BY <2>0, <2>1, <2>2, <3>1 DEF CmdStates
  <2>5. Holds(t.buf, t.typed)
    BY <2>0, <2>2, <2>3, SizesAssumption DEF Holds, Offsets
  <2>6. (s.exec \/ dequeued) /\ ~s.clobbered => Holds(s.buf, s.line) /\ s.buf[Len(s.line)] = NUL
    BY DEF CmdOK
  <2> QED
    BY <2>2, <2>3, <2>4, <2>5, <2>6 DEF CmdOK, t
<1> QED
  BY <1>1, <1>2

\* A letter goes to the end, leaves room for the end mark, and spoils a line
\* that waits.
LEMMA LetterKeeps ==
    ASSUME NEW s, CmdOK(s), NEW b \in Letters
    PROVE  CmdOK(Letter(s, b))
<1> DEFINE t == Letter(s, b)
<1>1. CASE ~(s.len < CmdSize - 1)
  BY <1>1 DEF Letter
<1>2. CASE s.len < CmdSize - 1
  <2> DEFINE longer == Append(s.typed, b)
  <2>0. /\ s \in CmdStates /\ s.len \in Offsets /\ s.typed \in Seq(Letters)
        /\ s.buf \in [Offsets -> Bytes] /\ b \in Bytes
        /\ Len(s.typed) = s.len /\ Holds(s.buf, s.typed)
    BY DEF CmdOK, CmdStates, Bytes
  <2>1. t = [s EXCEPT !.buf = [s.buf EXCEPT ![s.len] = b], !.len = s.len + 1, !.typed = longer,
                      !.clobbered = (s.exec \/ dequeued)]
    BY <1>2, <2>0 DEF Letter, CmdStates
  <2>2. /\ longer \in Seq(Letters) /\ Len(longer) = s.len + 1 /\ longer[s.len + 1] = b
        /\ \A n \in 1..s.len : longer[n] = s.typed[n]
    BY <2>0, AppendProperties
  <2> HIDE DEF t, longer
  <2>3. /\ t.len = s.len + 1 /\ t.typed = longer /\ t.buf = [s.buf EXCEPT ![s.len] = b]
        /\ t.exec = s.exec /\ t.clobbered = (s.exec \/ dequeued)
    BY <2>0, <2>1 DEF CmdStates
  <2>4. s.len + 1 \in Offsets /\ s.len \in Nat
    BY <1>2, <2>0, SizesAssumption DEF Offsets
  <2>5. t \in CmdStates
    <3>1. [s.buf EXCEPT ![s.len] = b] \in [Offsets -> Bytes]
      BY <2>0
    <3>2. (s.exec \/ dequeued) \in BOOLEAN
      OBVIOUS
    <3> QED
      BY <2>0, <2>1, <2>2, <2>4, <3>1, <3>2 DEF CmdStates
  <2>6. Holds(t.buf, t.typed)
    <3>1. Len(longer) < CmdSize
      BY <1>2, <2>2, <2>4, SizesAssumption
    <3>2. ASSUME NEW n \in 1..(s.len + 1) PROVE t.buf[n - 1] = longer[n]
      <4>1. CASE n = s.len + 1
        <5>1. n - 1 = s.len
          BY <2>4, <4>1
        <5> QED
          BY <2>0, <2>2, <2>3, <4>1, <5>1
      <4>2. CASE n # s.len + 1
        <5>1. n \in 1..s.len /\ n - 1 # s.len /\ n - 1 \in Offsets
          BY <2>0, <2>4, <4>2, SizesAssumption DEF Offsets
        <5>2. t.buf[n - 1] = s.buf[n - 1]
          BY <2>0, <2>3, <5>1
        <5>3. s.buf[n - 1] = s.typed[n]
          BY <2>0, <5>1 DEF Holds
        <5> QED
          BY <2>2, <5>1, <5>2, <5>3
      <4> QED
        BY <4>1, <4>2
    <3> QED
      BY <2>2, <2>3, <3>1, <3>2 DEF Holds
  <2> QED
    BY <2>2, <2>3, <2>5, <2>6 DEF CmdOK, t
<1> QED
  BY <1>1, <1>2

\* So every byte keeps the buffer in order.
LEMMA ByteKeeps ==
    ASSUME NEW s, CmdOK(s), NEW b \in Letters \cup {NL, BS}
    PROVE  CmdOK(Byte(s, b))
BY NewlineKeeps, BackspaceKeeps, LetterKeeps DEF Byte

\* A set of numbers that contains 0 and every successor contains all of them:
\* a number missing would have a least one, and that one's predecessor is there.
LEMMA SetInduction ==
    ASSUME NEW T, T \subseteq Nat, 0 \in T, \A n \in T : n + 1 \in T
    PROVE  T = Nat
<1> SUFFICES ASSUME Nat \ T # {} PROVE FALSE
  OBVIOUS
<1> DEFINE R == OpToRel(<, Nat)
           M == Nat \ T
<1>1. IsWellFoundedOn(R, Nat) /\ M \subseteq Nat /\ M # {}
  BY NatLessThanWellFounded
<1>2. \A m, n \in Nat : m < n => <<m, n>> \in R
  BY DEF OpToRel
<1> HIDE DEF R, M
<1>3. PICK x \in M : \A y \in M : ~(<<y, x>> \in R)
  BY <1>1, WFMin
<1>4. x \in Nat /\ x \notin T
  BY DEF M
<1>5. x # 0 /\ x - 1 \in Nat /\ x - 1 < x /\ (x - 1) + 1 = x
  BY <1>4
<1>6. x - 1 \notin M
  BY <1>2, <1>3, <1>4, <1>5
<1>7. x - 1 \in T
  BY <1>5, <1>6 DEF M
<1> QED
  BY <1>4, <1>5, <1>7

\* The states after each byte of a prefix.
Run(f, s0, pkt, k) ==
    f = [n \in 0..k |-> IF n = 0 THEN s0 ELSE Byte(f[n - 1], pkt[n])]

\* Every packet can be taken byte by byte.
LEMMA RunExists ==
    ASSUME NEW s0, NEW pkt, NEW k \in Nat
    PROVE  \E f : Run(f, s0, pkt, k)
<1> DEFINE T == {n \in Nat : \E f : Run(f, s0, pkt, n)}
<1>1. 0 \in T
  <2> DEFINE f == [n \in 0..0 |-> s0]
  <2>1. f = [n \in 0..0 |-> IF n = 0 THEN s0 ELSE Byte(f[n - 1], pkt[n])]
    OBVIOUS
  <2> QED
    BY <2>1 DEF Run
<1>2. ASSUME NEW n \in T PROVE n + 1 \in T
  <2>1. n \in Nat
    OBVIOUS
  <2>2. PICK f : Run(f, s0, pkt, n)
    OBVIOUS
  <2> DEFINE rhs(g, m) == IF m = 0 THEN s0 ELSE Byte(g[m - 1], pkt[m])
             g == [m \in 0..(n + 1) |-> IF m <= n THEN f[m] ELSE rhs(f, m)]
  <2>3. \A m \in 0..n : g[m] = f[m] /\ f[m] = rhs(f, m)
    BY <2>1, <2>2 DEF Run
  <2>4. ASSUME NEW m \in 0..(n + 1) PROVE g[m] = rhs(f, m)
    <3>1. CASE m <= n
      <4>1. m \in 0..n
        BY <2>1, <3>1
      <4> QED
        BY <2>3, <4>1
    <3>2. CASE ~(m <= n)
      BY <3>2
    <3> QED
      BY <3>1, <3>2
  <2>5. \A m \in 0..(n + 1) : m # 0 => m - 1 \in 0..n
    BY <2>1
  <2>6. \A m \in 0..(n + 1) : rhs(f, m) = rhs(g, m)
    BY <2>3, <2>5
  <2>7. g = [m \in 0..(n + 1) |-> rhs(g, m)]
    BY <2>4, <2>6
  <2>8. Run(g, s0, pkt, n + 1)
    BY <2>7 DEF Run
  <2> HIDE DEF g
  <2> QED
    BY <2>1, <2>8
<1> HIDE DEF T
<1>3. T = Nat
  <2>1. T \subseteq Nat
    BY DEF T
  <2> QED
    BY <1>1, <1>2, <2>1, SetInduction
<1> QED
  BY <1>3 DEF T

\* So a packet keeps the buffer in order.
LEMMA TakenKeeps ==
    ASSUME NEW s0, CmdOK(s0), NEW pkt \in Seq(Letters \cup {NL, BS})
    PROVE  CmdOK(Taken(s0, pkt))
<1> DEFINE f == CHOOSE f : Run(f, s0, pkt, Len(pkt))
<1>0. Len(pkt) \in Nat
  OBVIOUS
<1>1. Run(f, s0, pkt, Len(pkt))
  BY <1>0, RunExists
<1>2. Taken(s0, pkt) = f[Len(pkt)]
  BY Zenon DEF Taken, Run
<1> HIDE DEF f
<1> DEFINE T == {n \in Nat : n <= Len(pkt) => CmdOK(f[n])}
<1>3. 0 \in T
  BY <1>0, <1>1 DEF Run
<1>4. ASSUME NEW n \in T PROVE n + 1 \in T
  <2> SUFFICES ASSUME n + 1 <= Len(pkt) PROVE CmdOK(f[n + 1])
    OBVIOUS
  <2>1. CmdOK(f[n]) /\ n + 1 \in 1..Len(pkt) /\ (n + 1) - 1 = n
    BY <1>0
  <2>2. pkt[n + 1] \in Letters \cup {NL, BS}
    BY <2>1, ElementOfSeq
  <2>3. f[n + 1] = Byte(f[n], pkt[n + 1])
    BY <1>0, <1>1, <2>1 DEF Run
  <2> QED
    BY <2>1, <2>2, <2>3, ByteKeeps
<1> HIDE DEF T
<1>5. T = Nat
  <2>1. T \subseteq Nat
    BY DEF T
  <2> QED
    BY <1>3, <1>4, <2>1, SetInduction
<1>6. CmdOK(f[Len(pkt)])
  BY <1>0, <1>5 DEF T
<1> QED
  BY <1>2, <1>6

CmdNow == [buf |-> cmd_buf, len |-> cmd_len, exec |-> exec_work, typed |-> typed,
           line |-> line, clobbered |-> clobbered, erased |-> 0]

\* The buffer is in order, written out.
LEMMA CmdFields ==
    CmdOK(CmdNow) <=>
        /\ cmd_buf \in [Offsets -> Bytes] /\ cmd_len \in Offsets /\ exec_work \in BOOLEAN
        /\ typed \in Seq(Letters) /\ line \in Seq(Letters) /\ clobbered \in BOOLEAN
        /\ Len(typed) = cmd_len /\ Holds(cmd_buf, typed)
        /\ (exec_work \/ dequeued) /\ ~clobbered
              => Holds(cmd_buf, line) /\ cmd_buf[Len(line)] = NUL
BY DEF CmdOK, CmdNow, CmdStates

\* The same of the next state.
LEMMA CmdFieldsNext ==
    CmdOK(CmdNow)' <=>
        /\ cmd_buf' \in [Offsets -> Bytes] /\ cmd_len' \in Offsets /\ exec_work' \in BOOLEAN
        /\ typed' \in Seq(Letters) /\ line' \in Seq(Letters) /\ clobbered' \in BOOLEAN
        /\ Len(typed') = cmd_len' /\ Holds(cmd_buf', typed')
        /\ (exec_work' \/ dequeued') /\ ~clobbered'
              => Holds(cmd_buf', line') /\ cmd_buf'[Len(line')] = NUL
BY DEF CmdOK, CmdNow, CmdStates, Holds

\* The bytes of a packet.
LEMMA DataKeeps ==
    ASSUME CmdOK(CmdNow), NEW pkt \in Packets, DataInSession(pkt), UNCHANGED dequeued
    PROVE  CmdOK(CmdNow)' /\ Taken(CmdNow, pkt).erased \in Nat
<1> DEFINE s == Taken(CmdNow, pkt)
<1>1. CmdOK(s)
  BY PacketsAssumption, TakenKeeps
<1>2. /\ cmd_buf' = s.buf /\ cmd_len' = s.len /\ exec_work' = s.exec
      /\ typed' = s.typed /\ line' = s.line /\ clobbered' = s.clobbered
  BY DEF DataInSession, CmdNow
<1> HIDE DEF s
<1>3. CmdOK(CmdNow)'
  BY <1>1, <1>2, CmdFieldsNext DEF CmdOK, CmdStates
<1>4. s.erased \in Nat
  BY <1>1 DEF CmdOK, CmdStates
<1> QED
  BY <1>3, <1>4 DEF s

\* The buffer starts afresh.
LEMMA AfreshKeeps ==
    ASSUME CmdOK(CmdNow), cmd_len' = 0, typed' = <<>>,
           UNCHANGED <<cmd_buf, exec_work, dequeued, line, clobbered>>
    PROVE  CmdOK(CmdNow)'
<1>1. /\ 0 \in Offsets /\ <<>> \in Seq(Letters) /\ Len(<<>>) = 0 /\ Holds(cmd_buf, <<>>)
  BY SizesAssumption DEF Offsets, Holds
<1> QED
  BY <1>1, CmdFields, CmdFieldsNext

\* Every step keeps the buffer in order.
LEMMA StepCmd ==
    ASSUME CmdOK(CmdNow), [ShellNext]_shellVars
    PROVE  CmdOK(CmdNow)'
<1>1. CASE UNCHANGED <<cmdVars, dequeued>>
  BY <1>1, CmdFields, CmdFieldsNext DEF cmdVars
<1>2. ASSUME NEW pkt \in Packets, DataInSession(pkt), UNCHANGED dequeued PROVE CmdOK(CmdNow)'
  BY <1>2, DataKeeps
<1>3. CASE /\ cmd_len' = 0 /\ typed' = <<>>
           /\ UNCHANGED <<cmd_buf, exec_work, dequeued, line, clobbered>>
  BY <1>3, AfreshKeeps
<1>4. CASE ExecTake \/ ExecCopy
  <2>1. CASE ExecTake
    BY <1>4, <2>1, CmdFields, CmdFieldsNext DEF ExecTake
  <2>2. CASE ExecCopy /\ exec_work
    <3>1. clobbered \in BOOLEAN
      BY CmdFields
    <3>2. clobbered' = clobbered
      BY <2>2, <3>1 DEF ExecCopy
    <3> QED
      BY <2>2, <3>2, CmdFields, CmdFieldsNext DEF ExecCopy
  <2>3. CASE ExecCopy /\ ~exec_work
    <3>1. /\ ~exec_work' /\ ~dequeued' /\ line' = <<>> /\ clobbered' \in BOOLEAN
          /\ UNCHANGED <<cmd_buf, cmd_len, exec_work, typed>> /\ <<>> \in Seq(Letters)
      BY <2>3 DEF ExecCopy
    <3> QED
      BY <3>1, CmdFields, CmdFieldsNext
  <2> QED
    BY <1>4, <2>1, <2>2, <2>3
<1>5. ASSUME NEW pkt \in Packets, NEW nudges \in BOOLEAN, NEW dropped \in BOOLEAN,
             esb_shell_relay_on_data(pkt, nudges, dropped)
      PROVE  \/ DataInSession(pkt) /\ UNCHANGED dequeued
             \/ UNCHANGED <<cmdVars, dequeued>>
  BY <1>5 DEF esb_shell_relay_on_data, Nudge, threadVars
<1>6. ASSUME NEW dropped \in BOOLEAN,
             \/ out_drain_work_fn(dropped) \/ shell_poll_work_fn(dropped)
             \/ inactivity_work_fn(dropped) \/ esb_shell_relay_request(dropped)
             \/ \E recent \in BOOLEAN : bg_poll_work_fn(recent, dropped)
      PROVE  UNCHANGED <<cmdVars, dequeued>>
  BY <1>6 DEF out_drain_work_fn, shell_poll_work_fn, inactivity_work_fn,
       esb_shell_relay_request, bg_poll_work_fn, threadVars
<1>7. ASSUME \/ Resync \/ esb_stdout_hook \/ stdout_flush_work_fn \/ esb_log_backend_process
             \/ (\E n \in 0..1 : ExecDone(n)) \/ Deactivate \/ Activate \/ Unpair \/ TxSuccess
             \/ TxFailed \/ OtherTraffic \/ UserPauses \/ UNCHANGED shellVars
             \/ \E hook \in {"connected", "disconnected"} : SaveBegins(hook)
      PROVE  UNCHANGED <<cmdVars, dequeued>>
  BY <1>7 DEF Resync, esb_stdout_hook, stdout_flush_work_fn, esb_log_backend_process, ExecDone,
       Deactivate, Activate, Unpair, TxSuccess, TxFailed, OtherTraffic, UserPauses, shellVars,
       SaveBegins, esb_shell_relay_on_disconnected, threadVars
<1>8. ASSUME esb_shell_relay_on_req \/ Verified \/ SaveEnds
      PROVE  \/ UNCHANGED <<cmdVars, dequeued>>
             \/ /\ cmd_len' = 0 /\ typed' = <<>>
                /\ UNCHANGED <<cmd_buf, exec_work, dequeued, line, clobbered>>
  BY <1>8 DEF esb_shell_relay_on_req, Verified, SaveEnds, esb_shell_relay_on_connected,
       esb_shell_relay_on_disconnected, threadVars
<1> QED
  BY <1>1, <1>2, <1>3, <1>4, <1>5, <1>6, <1>7, <1>8 DEF ShellNext

\* The buffer is empty at first.
LEMMA InitCmd == ShellInit => CmdOK(CmdNow)
<1> SUFFICES ASSUME ShellInit PROVE CmdOK(CmdNow)
  OBVIOUS
<1>1. /\ cmd_buf = [n \in Offsets |-> NUL] /\ cmd_len = 0 /\ typed = <<>> /\ line = <<>>
      /\ exec_work = FALSE /\ dequeued = FALSE /\ clobbered = FALSE
  BY DEF ShellInit, Offsets
<1>2. 0 \in Offsets /\ <<>> \in Seq(Letters) /\ Len(<<>>) = 0 /\ Holds(cmd_buf, <<>>)
  BY SizesAssumption DEF Offsets, Holds
<1>3. cmd_buf \in [Offsets -> Bytes]
  BY <1>1 DEF Bytes
<1> QED
  BY <1>1, <1>2, <1>3, CmdFields

\* The buffer is in order throughout.
LEMMA CmdInvariant == ShellSpec => []CmdOK(CmdNow)
BY InitCmd, StepCmd, PTL DEF ShellSpec

\* strncpy stops at the end mark: it reads the text the buffer holds.
LEMMA ReadsText ==
    ASSUME NEW buf \in [Offsets -> Bytes], NEW text \in Seq(Letters), Holds(buf, text),
           buf[Len(text)] = NUL
    PROVE  Text(buf) = text
<1> DEFINE ends == {n \in 0..(CmdSize - 1) : buf[n] = NUL \/ n = CmdSize - 1}
           k == Len(text)
<1>1. k \in Nat /\ k \in ends /\ k < CmdSize
  BY SizesAssumption DEF Holds
<1>2. \A m \in ends : k <= m
  <2> SUFFICES ASSUME NEW m \in ends, m < k PROVE FALSE
    BY <1>1, SizesAssumption
  <2>1. m + 1 \in 1..k /\ (m + 1) - 1 = m /\ m # CmdSize - 1
    BY <1>1, SizesAssumption
  <2>2. buf[m] = text[m + 1] /\ text[m + 1] \in Letters
    BY <2>1 DEF Holds
  <2> QED
    BY <2>1, <2>2, BytesAssumption
<1>3. \A n \in ends : (\A m \in ends : n <= m) => n = k
  BY <1>1, <1>2, SizesAssumption
<1>4. k = CHOOSE n \in ends : \A m \in ends : n <= m
  <2> HIDE DEF ends, k
  <2> QED
    BY <1>1, <1>2, <1>3
<1>5. Text(buf) = [n \in 1..k |-> buf[n - 1]]
  BY <1>4, Zenon DEF Text
<1>6. text = [n \in 1..k |-> text[n]]
  BY LenProperties
<1>7. \A n \in 1..k : buf[n - 1] = text[n]
  BY DEF Holds
<1> HIDE DEF k, ends
<1> QED
  BY <1>5, <1>6, <1>7

\* The text the exec thread will copy is the line the user completed last
\* (esb_shell_relay_on_data, shell_exec_work_fn), whatever the size of the
\* buffer and however the bytes were split into packets, unless more bytes have
\* come in since.
THEOREM ExecutesWhatWasTyped == ShellSpec => []ExecutesLines
<1>1. CmdOK(CmdNow) => ExecutesLines
  BY CmdFields, ReadsText DEF ExecutesLines
<1> QED
  BY <1>1, CmdInvariant, PTL

----------------------------------------------------------------------------
(* Types.                                                                   *)

Filled ==
    /\ out_rb \in 0..OutSize
    /\ stdout_buf_len \in 0..StdoutSize
    /\ tx_queued \in 0..FifoDepth

\* A minimum is at most either of its arguments.
LEMMA LeastBounded ==
    ASSUME NEW a \in Nat, NEW b \in Nat
    PROVE  Least(a, b) \in 0..b /\ Least(a, b) <= a
BY DEF Least

\* A full FIFO refuses shell packets: no more than were offered get in.
LEMMA ShellSendFits ==
    ASSUME tx_queued \in 0..FifoDepth, NEW n \in Nat, NEW dropped
    PROVE  /\ SendsShell(n, dropped) \in 0..FifoDepth
           /\ SendsShell(n, dropped) - tx_queued \in 0..n
BY SizesAssumption DEF SendsShell, Least

\* A full FIFO is flushed for any other packet.
LEMMA OtherSendFits ==
    ASSUME tx_queued \in 0..FifoDepth, NEW dropped
    PROVE  SendsOther(dropped) \in 0..FifoDepth
BY SizesAssumption DEF SendsOther

\* What does not fit into the ring is dropped.
LEMMA OutputFits ==
    ASSUME NEW rb \in 0..OutSize, NEW n \in Nat
    PROVE  out_enqueue(rb, n) \in 0..OutSize
BY SizesAssumption DEF out_enqueue, Least

\* The ring gives what the FIFO takes, and never more than it holds.
LEMMA DrainFits ==
    ASSUME Filled, NEW dropped, out_drain_work_fn(dropped)
    PROVE  Filled'
<1>1. out_rb \in Nat /\ tx_queued \in Nat /\ out_rb <= OutSize
  BY SizesAssumption DEF Filled
<1>2. CASE ~m_shell_active
  BY <1>2 DEF Filled, out_drain_work_fn
<1>3. CASE m_shell_active
  <2>1. tx_queued' \in 0..FifoDepth /\ tx_queued' - tx_queued \in 0..out_rb
    BY <1>1, <1>3, ShellSendFits DEF Filled, out_drain_work_fn
  <2>2. \/ out_rb' = IF out_rb > 0 THEN out_rb - 1 ELSE 0
        \/ out_rb' = 0
        \/ out_rb' = out_rb - (tx_queued' - tx_queued)
    BY <1>3 DEF out_drain_work_fn
  <2> DEFINE sent == tx_queued' - tx_queued
  <2>3. out_rb - sent \in 0..OutSize
    <3>1. sent \in 0..out_rb /\ OutSize \in Nat
      BY <2>1, SizesAssumption
    <3> HIDE DEF sent
    <3> QED
      BY <1>1, <3>1
  <2>4. (IF out_rb > 0 THEN out_rb - 1 ELSE 0) \in 0..OutSize /\ 0 \in 0..OutSize
    BY <1>1, SizesAssumption
  <2>5. out_rb' \in 0..OutSize
    BY <2>2, <2>3, <2>4
  <2> QED
    BY <2>1, <2>5 DEF Filled, out_drain_work_fn
<1> QED
  BY <1>2, <1>3

\* Every step keeps the three counts within their buffers.
LEMMA StepFits ==
    ASSUME Filled, CmdOK(CmdNow), [ShellNext]_shellVars
    PROVE  Filled'
<1> USE DEF Filled
<1>0. 0 \in 0..OutSize /\ 0 \in 0..StdoutSize /\ 0 \in 0..FifoDepth /\ 1 \in Nat
  BY SizesAssumption
<1>1. ASSUME NEW pkt \in Packets, NEW nudges \in BOOLEAN, NEW dropped \in BOOLEAN,
             esb_shell_relay_on_data(pkt, nudges, dropped)
      PROVE  Filled'
  <2>1. CASE m_shell_active
    <3>1. DataInSession(pkt) /\ UNCHANGED <<stdout_buf_len, tx_queued>>
      BY <1>1, <2>1 DEF esb_shell_relay_on_data, DataInSession
    <3>2. Taken(CmdNow, pkt).erased \in Nat
      BY <1>1, <3>1, DataKeeps DEF esb_shell_relay_on_data, threadVars
    <3>3. out_rb' = out_enqueue(out_rb, Taken(CmdNow, pkt).erased)
      BY <3>1 DEF DataInSession, CmdNow
    <3> QED
      BY <3>1, <3>2, <3>3, OutputFits
  <2>2. CASE ~m_shell_active
    BY <1>0, <1>1, <2>2, ShellSendFits DEF esb_shell_relay_on_data, Nudge
  <2> QED
    BY <2>1, <2>2
<1>2. ASSUME NEW dropped \in BOOLEAN, out_drain_work_fn(dropped) PROVE Filled'
  BY <1>2, DrainFits
<1>3. ASSUME NEW dropped \in BOOLEAN,
             \/ shell_poll_work_fn(dropped) \/ inactivity_work_fn(dropped)
             \/ esb_shell_relay_request(dropped)
             \/ \E recent \in BOOLEAN : bg_poll_work_fn(recent, dropped)
      PROVE  Filled'
  BY <1>0, <1>3, ShellSendFits, OtherSendFits DEF shell_poll_work_fn, inactivity_work_fn,
       esb_shell_relay_request, bg_poll_work_fn
<1>4. CASE esb_shell_relay_on_req
  BY <1>0, <1>4, OutputFits DEF esb_shell_relay_on_req
<1>5. CASE Verified \/ Resync \/ SaveEnds \/ Deactivate
  BY <1>0, <1>5 DEF Verified, Resync, SaveEnds, Deactivate, esb_shell_relay_on_connected,
       esb_shell_relay_on_disconnected
<1>6. CASE esb_stdout_hook
  <2>1. stdout_buf_len + 1 \in Nat /\ StdoutSize \in Nat
    BY SizesAssumption
  <2> QED
    BY <1>6, <2>1, LeastBounded DEF esb_stdout_hook
<1>7. CASE stdout_flush_work_fn \/ esb_log_backend_process
  BY <1>0, <1>7, OutputFits DEF stdout_flush_work_fn, esb_log_backend_process
<1>8. ASSUME NEW n \in 0..1, ExecDone(n) PROVE Filled'
  <2>1. n + 1 \in Nat
    OBVIOUS
  <2> QED
    BY <1>8, <2>1, OutputFits DEF ExecDone
<1>9. CASE TxSuccess \/ TxFailed \/ OtherTraffic
  <2>1. UNCHANGED <<out_rb, stdout_buf_len>>
    BY <1>9 DEF TxSuccess, TxFailed, OtherTraffic
  <2>2. CASE TxSuccess
    <3>1. tx_queued' = tx_queued - 1 /\ tx_queued > 0
      BY <2>2 DEF TxSuccess
    <3>2. tx_queued' \in 0..FifoDepth
      BY <3>1, SizesAssumption
    <3> QED
      BY <2>1, <3>2
  <2>3. CASE TxFailed \/ OtherTraffic
    BY <1>0, <2>1, <2>3, OtherSendFits DEF TxFailed, OtherTraffic
  <2> QED
    BY <1>9, <2>2, <2>3
<1>10. CASE \/ ExecTake \/ ExecCopy \/ Activate \/ Unpair \/ UserPauses \/ UNCHANGED shellVars
            \/ \E hook \in {"connected", "disconnected"} : SaveBegins(hook)
  BY <1>0, <1>10 DEF ExecTake, ExecCopy, Activate, Unpair, UserPauses, SaveBegins, shellVars
<1> QED
  BY <1>1, <1>2, <1>3, <1>4, <1>5, <1>6, <1>7, <1>8, <1>9, <1>10 DEF ShellNext

Named ==
    /\ works \subseteq {"poll", "inactivity", "drain", "flush", "bg_poll"}
    /\ link \in {"off", "up", "connected"}
    /\ saving \in {"none", "connected", "disconnected"}
    /\ m_shell_active \in BOOLEAN /\ dequeued \in BOOLEAN /\ running \in BOOLEAN
    /\ typing \in BOOLEAN
    /\ timed_out \in BOOLEAN /\ astray \in BOOLEAN

\* Work items, link states and flags are what they are named.
LEMMA StepNamed ==
    ASSUME Named, [ShellNext]_shellVars
    PROVE  Named'
<1> USE DEF Named, envVars, threadVars
<1>1. ASSUME NEW pkt \in Packets, NEW nudges \in BOOLEAN, NEW dropped \in BOOLEAN,
             esb_shell_relay_on_data(pkt, nudges, dropped)
      PROVE  Named'
  <2>1. works' \subseteq works \cup {"inactivity", "drain"}
    BY <1>1 DEF esb_shell_relay_on_data, DataInSession, Nudge
  <2> QED
    BY <1>1, <2>1 DEF esb_shell_relay_on_data
<1>2. ASSUME NEW dropped \in BOOLEAN,
             \/ out_drain_work_fn(dropped) \/ shell_poll_work_fn(dropped)
             \/ inactivity_work_fn(dropped) \/ esb_shell_relay_request(dropped)
             \/ \E recent \in BOOLEAN : bg_poll_work_fn(recent, dropped)
      PROVE  Named'
  BY <1>2 DEF out_drain_work_fn, shell_poll_work_fn, inactivity_work_fn,
       esb_shell_relay_request, bg_poll_work_fn
<1>3. CASE esb_shell_relay_on_req
  BY <1>3 DEF esb_shell_relay_on_req
<1>4. CASE Verified \/ Resync \/ SaveEnds \/ Deactivate
  BY <1>4 DEF Verified, Resync, SaveEnds, Deactivate, esb_shell_relay_on_connected,
       esb_shell_relay_on_disconnected
<1>5. ASSUME NEW n \in 0..1,
             \/ esb_stdout_hook \/ stdout_flush_work_fn \/ esb_log_backend_process
             \/ ExecTake \/ ExecCopy \/ ExecDone(n) \/ TxSuccess \/ TxFailed \/ OtherTraffic
      PROVE  Named'
  BY <1>5 DEF esb_stdout_hook, stdout_flush_work_fn, esb_log_backend_process,
       ExecTake, ExecCopy, ExecDone, TxSuccess, TxFailed, OtherTraffic
<1>6. ASSUME NEW hook \in {"connected", "disconnected"}, SaveBegins(hook) PROVE Named'
  BY <1>6 DEF SaveBegins
<1>7. CASE Activate \/ Unpair \/ UserPauses \/ UNCHANGED shellVars
  BY <1>7 DEF Activate, Unpair, UserPauses, shellVars
<1> QED
  BY <1>1, <1>2, <1>3, <1>4, <1>5, <1>6, <1>7 DEF ShellNext

\* The variables have their types: bytes stay inside cmd_buf with room for the
\* end mark (esb_shell_relay_on_data), output inside its ring and its staging
\* buffer (out_enqueue, out_drain_work_fn, esb_stdout_hook), packets inside
\* the FIFO, for every size of them.
THEOREM ShellTypes == ShellSpec => []ShellTypeOK
<1> DEFINE Inv == Filled /\ Named
<1>1. ShellInit => Inv
  <2>1. 0 \in 0..OutSize /\ 0 \in 0..StdoutSize /\ 0 \in 0..FifoDepth
    BY SizesAssumption
  <2>2. ShellInit => Filled
    BY <2>1 DEF ShellInit, Filled
  <2>3. ShellInit => Named
    BY DEF ShellInit, Named
  <2> QED
    BY <2>2, <2>3
<1>2. Inv /\ CmdOK(CmdNow) /\ [ShellNext]_shellVars => Inv'
  BY StepFits, StepNamed
<1>3. Inv /\ CmdOK(CmdNow) => ShellTypeOK
  BY CmdFields DEF Filled, Named, ShellTypeOK, Offsets, Bytes
<1> QED
  BY <1>1, <1>2, <1>3, CmdInvariant, PTL DEF ShellSpec

----------------------------------------------------------------------------
(* What SessionEnds and DrainResumes rest on.                               *)

\* A session has its timer and its poll.
SessionDriven == m_shell_active => {"poll", "inactivity"} \subseteq works

\* As long as there is a session, the timer that ends it and the poll that
\* brings the output going again are scheduled (esb_shell_relay_on_req,
\* shell_poll_work_fn, inactivity_work_fn and the hooks), whatever else is
\* submitted, cancelled or refused.
THEOREM SessionIsDriven == ShellSpec => []SessionDriven
<1>1. ShellInit => SessionDriven
  BY DEF ShellInit, SessionDriven
<1>2. SessionDriven /\ [ShellNext]_shellVars => SessionDriven'
  <2> SUFFICES ASSUME SessionDriven, [ShellNext]_shellVars PROVE SessionDriven'
    OBVIOUS
  <2> USE DEF SessionDriven
  <2>1. ASSUME NEW pkt \in Packets, NEW nudges \in BOOLEAN, NEW dropped \in BOOLEAN,
               esb_shell_relay_on_data(pkt, nudges, dropped)
        PROVE  SessionDriven'
    <3>1. works \subseteq works' /\ m_shell_active' = m_shell_active
      BY <2>1 DEF esb_shell_relay_on_data, DataInSession, Nudge
    <3> QED
      BY <3>1
  <2>2. ASSUME NEW dropped \in BOOLEAN,
               \/ out_drain_work_fn(dropped) \/ shell_poll_work_fn(dropped)
               \/ inactivity_work_fn(dropped) \/ esb_shell_relay_request(dropped)
               \/ \E recent \in BOOLEAN : bg_poll_work_fn(recent, dropped)
        PROVE  SessionDriven'
    BY <2>2 DEF out_drain_work_fn, shell_poll_work_fn, inactivity_work_fn,
         esb_shell_relay_request, bg_poll_work_fn
  <2>3. CASE \/ esb_shell_relay_on_req \/ Verified \/ Resync \/ SaveEnds \/ Deactivate
    BY <2>3 DEF esb_shell_relay_on_req, Verified, Resync, SaveEnds, Deactivate,
         esb_shell_relay_on_connected, esb_shell_relay_on_disconnected
  <2>4. CASE \/ esb_stdout_hook \/ stdout_flush_work_fn \/ esb_log_backend_process
             \/ (\E n \in 0..1 : ExecDone(n)) \/ TxSuccess
    BY <2>4 DEF esb_stdout_hook, stdout_flush_work_fn, esb_log_backend_process, ExecDone,
         TxSuccess
  <2>5. CASE \/ ExecTake \/ ExecCopy \/ Activate \/ Unpair \/ TxFailed \/ OtherTraffic \/ UserPauses
             \/ UNCHANGED shellVars
             \/ \E hook \in {"connected", "disconnected"} : SaveBegins(hook)
    BY <2>5 DEF ExecTake, ExecCopy, Activate, Unpair, TxFailed, OtherTraffic, UserPauses,
         shellVars, SaveBegins
  <2> QED
    BY <2>1, <2>2, <2>3, <2>4, <2>5 DEF ShellNext
<1> QED
  BY <1>1, <1>2, PTL DEF ShellSpec
=============================================================================
