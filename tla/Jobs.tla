-------------------------------- MODULE Jobs --------------------------------
(***************************************************************************)
(* What the daemon's jobs have in common (core/daemon.ts): a worker is a   *)
(* process that takes turns, the daemon's loop, `myna run --once=true` or  *)
(* a command, one job at a time.  A step is what runs between two awaits.  *)
(* A call of a network is made in one step and its answer is handled in    *)
(* the next, so that the process may die in between.                       *)
(***************************************************************************)
EXTENDS Integers, FiniteSets

CONSTANTS
  Workers,    \* the processes
  MaxFaults   \* bound: crashes and lost answers in one behaviour

ASSUME JobsAssumption == MaxFaults \in Nat

VARIABLE faults   \* how many of them there were

Fault == faults < MaxFaults /\ faults' = faults + 1

(* What became of a call: it was answered, it was carried out but the      *)
(* answer was lost, or it was refused                                      *)
Outcomes == {"ok", "lost", "refused"}
Landed(res) == res \in {"ok", "lost"}
Faulty(res) == IF res = "lost" THEN Fault ELSE UNCHANGED faults
=============================================================================
