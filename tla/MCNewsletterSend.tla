-------------------------- MODULE MCNewsletterSend --------------------------
(* TLC instances of NewsletterSend.                                         *)
EXTENDS NewsletterSend, TLC

(* Everybody is on every list but "few", which has one person *)
MCMembers ==
  [l \in Lists |-> IF l = "few" THEN {CHOOSE c \in Contacts : TRUE} ELSE Contacts]

(* Every run is a process of its own, the daemon's among them *)
MCProcOf == [r \in Runs |-> r]

Symmetry == Permutations(Contacts)
=============================================================================
