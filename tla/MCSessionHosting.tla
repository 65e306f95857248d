------------------------- MODULE MCSessionHosting -------------------------
(* Two processes; the first runs two runtime owners, one with two tasks.     *)
EXTENDS SessionHosting, TLC

CONSTANTS p1, p2, a, b, c, ta1, ta2, tb, tc

MCProcessOf == (a :> p1) @@ (b :> p1) @@ (c :> p2)

MCOwnerOf == (ta1 :> a) @@ (ta2 :> a) @@ (tb :> b) @@ (tc :> c)
=============================================================================
