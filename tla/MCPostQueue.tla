------------------------------ MODULE MCPostQueue ------------------------------
(* TLC instances of PostQueue.                                              *)
EXTENDS PostQueue

(* Every account is on one network *)
MCNetworkOf == [a \in Accounts |-> "social"]
MCGapOf == [a \in Accounts |-> 2]

(* A text goes out as it is or as the other, which is what its tags or a cut *)
(* make of it                                                               *)
MCTailorOf == [a \in Accounts |-> [t \in Texts |-> Texts]]

(* A behaviour has posts of two kinds, or paced ones and what happens to a   *)
(* queue, or entries for several accounts                                    *)
MCUses == {{"paced", "front"}, {"paced", "now"}, {"paced", "ahead"},
           {"paced", "cancel", "archive", "crash"}, {"schedule", "archive", "crash"}}

MCSymmetry == Permutations(Texts) \cup Permutations(Accounts)
=============================================================================
