----------------------------- MODULE OneHolder -----------------------------
(***************************************************************************)
(* What a lock file promises, however it is made and removed: one process  *)
(* takes it while nobody has it, does its work and lets it go; if it dies, *)
(* the lock is free again.  The promise is for as long as no process that  *)
(* lives is robbed of it.                                                  *)
(***************************************************************************)
CONSTANTS Procs, Nobody

VARIABLES
  holder,  \* who has the lock, Nobody when it is free
  inside,  \* who is at work under it
  robbed   \* whether it was ever taken from a process that lives

vars == <<holder, inside, robbed>>

Init == holder = Nobody /\ inside = {} /\ robbed = FALSE

Acquire(p) ==
  /\ holder = Nobody /\ holder' = p
  /\ UNCHANGED <<inside, robbed>>

Enter(p) ==
  /\ holder = p /\ inside' = inside \cup {p}
  /\ UNCHANGED <<holder, robbed>>

Leave(p) ==
  /\ inside' = inside \ {p}
  /\ UNCHANGED <<holder, robbed>>

Release(p) ==
  /\ holder = p /\ p \notin inside
  /\ holder' = Nobody
  /\ UNCHANGED <<inside, robbed>>

Die(p) ==
  /\ holder' = IF holder = p THEN Nobody ELSE holder
  /\ inside' = inside \ {p}
  /\ UNCHANGED robbed

(* From a robbery on nothing is promised *)
Robbed ==
  /\ robbed' = TRUE
  /\ holder' \in Procs \cup {Nobody} /\ inside' \in SUBSET Procs

Next ==
  \/ \E p \in Procs : Acquire(p) \/ Enter(p) \/ Leave(p) \/ Release(p) \/ Die(p)
  \/ Robbed

Spec == Init /\ [][Next]_vars

(* Whoever is at work has the lock, until a robbery. *)
Exclusive == robbed \/ inside \subseteq {holder} \ {Nobody}
=============================================================================
