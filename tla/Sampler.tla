------------------------------- MODULE Sampler -------------------------------
(***************************************************************************)
(* A value that is looked at now and then: what is shown is always one     *)
(* look at the truth, whole, and looks are shown in the order they were    *)
(* taken.  A look may come to nothing.                                     *)
(***************************************************************************)
CONSTANTS Blank,    \* what is shown before any look
          NoLook

VARIABLES truth, look, shown

Init == look = NoLook /\ shown = Blank

Change == UNCHANGED <<look, shown>>

Look == look = NoLook /\ look' = truth /\ UNCHANGED <<truth, shown>>

Show == look # NoLook /\ shown' = look /\ look' = NoLook /\ UNCHANGED truth

Lose == look' = NoLook /\ UNCHANGED <<truth, shown>>

Next == Change \/ Look \/ Show \/ Lose

Spec == Init /\ [][Next]_<<truth, look, shown>>
=============================================================================
