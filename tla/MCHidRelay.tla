----------------------------- MODULE MCHidRelay -----------------------------
(* Instance of HidRelay for TLC: two keys of one usage, modifiers held by     *)
(* several keys, a consumer usage with a modifier, a key of another page.   *)
EXTENDS HidRelay, TLC

CONSTANTS shift, a, A, b, vol, sys, Shift, KeyA, KeyB, Vol, Sys

MCPositions == {shift, a, A, b, vol, sys}
MCPage == shift :> "mod" @@ a :> "key" @@ A :> "key" @@ b :> "key"
            @@ vol :> "consumer" @@ sys :> "other"
MCUsage == shift :> Shift @@ a :> KeyA @@ A :> KeyA @@ b :> KeyB @@ vol :> Vol @@ sys :> Sys
MCExplicit == [p \in MCPositions |-> IF p \in {shift, vol} THEN {Shift} ELSE {}]
MCImplicit == [p \in MCPositions |-> IF p = A THEN {Shift} ELSE {}]
=============================================================================
