------------------------- MODULE ExclusiveHosting -------------------------
(***************************************************************************)
(* What hosting claims promise: at any time at most one runtime owner       *)
(* hosts a session.  A tenure begins on a session nobody hosts, and settles *)
(* the loss of the earlier owner at most once before it ends.               *)
(***************************************************************************)

CONSTANTS Owners, None

VARIABLES
    host,       \* the runtime owner that hosts the session, or None
    settled     \* has this tenure settled the earlier owner's loss?

vars == <<host, settled>>

TypeOK == host \in Owners \cup {None} /\ settled \in BOOLEAN

Init == host = None /\ settled = FALSE

Begin(o) == host = None /\ host' = o /\ settled' = FALSE

Settle == host # None /\ ~settled /\ settled' = TRUE /\ UNCHANGED host

End == host # None /\ host' = None /\ settled' = FALSE

Next == (\E o \in Owners : Begin(o)) \/ Settle \/ End

Spec == Init /\ [][Next]_vars
=============================================================================
