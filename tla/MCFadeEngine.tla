---------------------------- MODULE MCFadeEngine ----------------------------
(* Small instances of the fade engine: each behaviour is bounded by one of *)
(* these, so that every kind of trouble is met, one at a time.             *)
EXTENDS FadeEngine

Budget(s, a, f, r, c, e) ==
    [signals |-> s, adds |-> a, faults |-> f, restarts |-> r, screens |-> c, edits |-> e]

MCBounds == {Budget(2, 1, 0, 0, 0, 0), Budget(3, 0, 1, 0, 0, 0),
             Budget(2, 0, 0, 1, 0, 0), Budget(1, 0, 0, 0, 1, 1)}

MCSymmetry == Permutations(Market)
=============================================================================
