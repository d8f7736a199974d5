----------------------------- MODULE MCMailQueue -----------------------------
(* TLC instances of MailQueue. *)
EXTENDS MailQueue, TLC

(* For the safety run only *)
Symmetry == Permutations(Procs) \cup Permutations(Messages)
=============================================================================
