--------------------------- MODULE DeferredReports ---------------------------
(***************************************************************************)
(* What the HID relay and the input processor promise the host while the    *)
(* transport comes and goes.  A device has a current state; states the      *)
(* transport could not take at once wait in a backlog of bounded depth.    *)
(* Whatever is dropped, the host only moves forward: to a state that waits, *)
(* past all that waited longer, or to the current one, past all that waits. *)
(* It never sees a state twice, nor one that was overtaken.                *)
(***************************************************************************)
EXTENDS Integers, Sequences

CONSTANT Depth      \* entries the backlog can hold, at least one

VARIABLES
    current,        \* the state of the device
    backlog,        \* states that wait, oldest first
    host            \* the state the host was told last

deferredVars == <<current, backlog, host>>

----------------------------------------------------------------------------

\* A change that will be told later, or never.
Change ==
    UNCHANGED <<backlog, host>>

\* The state waits, and the n oldest entries are given up to make room.
Defer(n) ==
    /\ backlog' = Append(SubSeq(backlog, n + 1, Len(backlog)), current')
    /\ Len(backlog') <= Depth
    /\ UNCHANGED host

\* The first n entries leave the backlog; the last of them was told, or the
\* transport has lost it.
Deliver(n) ==
    /\ backlog' = SubSeq(backlog, n + 1, Len(backlog))
    /\ host' \in {backlog[n], host}

\* All that waits and then the current state are told.
Report ==
    /\ backlog' = <<>>
    /\ host' = current'

DeferredInit == backlog = <<>> /\ host = current

DeferredNext ==
    \/ Change
    \/ \E n \in 0..Len(backlog) : Defer(n)
    \/ \E n \in 1..Len(backlog) : Deliver(n)
    \/ Report

DeferredSpec == DeferredInit /\ [][DeferredNext]_deferredVars
=============================================================================
