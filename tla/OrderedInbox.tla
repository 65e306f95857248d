---------------------------- MODULE OrderedInbox ----------------------------
(***************************************************************************)
(* What the delivery inbox of a runtime promises: an append-only log of    *)
(* distinct deliveries, each settled exactly once and in log order.  A     *)
(* delivery whose effect reached its runtime by another path may be        *)
(* acknowledged before its turn; it is then settled as applied when its    *)
(* turn comes, and never waits at the head.                                *)
(***************************************************************************)
EXTENDS Sequences, Naturals

CONSTANT DeliveryIds

VARIABLES
    log,            \* the committed deliveries, oldest first
    fate,           \* what became of the settled prefix of the log
    early           \* deliveries acknowledged before their turn

vars == <<log, fate, early>>

Fates == {"Applied", "Refused", "Mixed"}

Init ==
    /\ log = <<>>
    /\ fate = <<>>
    /\ early = {}

\* The settled prefix becomes f and takes in the early deliveries next to it.
Absorb(l, f, e) ==
    \E n \in 0..(Len(l) - Len(f)) :
        /\ \A i \in 1..n : l[Len(f) + i] \in e
        /\ Len(f) + n < Len(l) => l[Len(f) + n + 1] \notin e
        /\ fate' = f \o [i \in 1..n |-> "Applied"]
        /\ early' = e \ {l[Len(f) + i] : i \in 1..n}

Submit(id) ==
    /\ \A i \in 1..Len(log) : log[i] # id
    /\ log' = Append(log, id)
    /\ UNCHANGED <<fate, early>>

\* The delivery's effect was there before the delivery.
SubmitAcknowledged(id) ==
    /\ \A i \in 1..Len(log) : log[i] # id
    /\ log' = Append(log, id)
    /\ Absorb(log', fate, early \cup {id})

Settle(f) ==
    /\ Len(fate) < Len(log)
    /\ Absorb(log, Append(fate, f), early)
    /\ UNCHANGED log

Acknowledge(id) ==
    /\ \E i \in (Len(fate) + 2)..Len(log) : log[i] = id
    /\ early' = early \cup {id}
    /\ UNCHANGED <<log, fate>>

Next ==
    \/ \E id \in DeliveryIds :
          Submit(id) \/ SubmitAcknowledged(id) \/ Acknowledge(id)
    \/ \E f \in Fates : Settle(f)

Spec == Init /\ [][Next]_vars

=============================================================================
