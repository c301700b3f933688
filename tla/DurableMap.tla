----------------------------- MODULE DurableMap -----------------------------
(***************************************************************************)
(* What the session stores promise about their durable content: a map from *)
(* identifiers to versioned values.  One commit changes one entry, a new   *)
(* entry has revision one, a changed entry has the next revision.  Process *)
(* death, restart and compaction change nothing.                           *)
(***************************************************************************)
EXTENDS Integers, Functions, TLC

CONSTANT Keys
VARIABLE db

Init == db = <<>>

Put(k, old, new) ==
    /\ k \in DOMAIN new
    /\ new = (k :> new[k]) @@ old
    /\ new[k].revision = IF k \in DOMAIN old THEN old[k].revision + 1 ELSE 1

Remove(k, old, new) ==
    /\ k \in DOMAIN old
    /\ new = Restrict(old, DOMAIN old \ {k})

Next ==
    LET old == db
        new == db'
    IN  \E k \in Keys : Put(k, old, new) \/ Remove(k, old, new)

Spec == Init /\ [][Next]_db
=============================================================================
