---------------------------- MODULE MCDaemonJobs ----------------------------
(* TLC instances of the vault and five of the daemon's jobs.  They share no  *)
(* state, and a worker does one after the other, so a behaviour exercises   *)
(* one of them, part, and the others stay as they began.                    *)
EXTENDS Mirror, WebCopies, Engage, Upvotes, Asks, Vault, TLC

CONSTANT MaxSaid   \* bound: asks a person sets by hand

VARIABLE part

MCPersonOf == [n \in Notes |-> "bo"]
MCAuthorOf == [p \in Found |-> "ann"]
MCAskerOf == [a \in Asked |-> a]

jobsVars == <<mirrorVars, webVars, engageVars, upvoteVars, asksVars, vaultVars, faults, part>>

Init ==
  /\ faults = 0 /\ part \in {"mirror", "web", "engage", "upvotes", "asks", "vault"}
  /\ MirrorInit /\ (part = "mirror" \/ mirror = {})
  /\ WebInit /\ EngageInit /\ UpvoteInit /\ AsksInit
  /\ VaultInit /\ (part = "vault" \/ made = 0)

(* Once its file was read by two at a time, or a process died with an act,  *)
(* nothing is said of engage.json, upvote.json or asks.json, and nothing of *)
(* the vault once two made or changed its key at once: the behaviour ends   *)
Next ==
  /\ UNCHANGED part
  /\ \/ /\ part = "mirror" /\ MirrorNext
        /\ UNCHANGED <<webVars, engageVars, upvoteVars, asksVars, vaultVars>>
     \/ /\ part = "web" /\ WebNext
        /\ UNCHANGED <<mirrorVars, engageVars, upvoteVars, asksVars, vaultVars>>
     \/ /\ part = "engage" /\ ~torn /\ EngageNext
        /\ UNCHANGED <<mirrorVars, webVars, upvoteVars, asksVars, vaultVars>>
     \/ /\ part = "upvotes" /\ ~clashed /\ UpvoteNext
        /\ UNCHANGED <<mirrorVars, webVars, engageVars, asksVars, vaultVars>>
     \/ /\ part = "asks" /\ ~strayed /\ AsksNext /\ Cardinality(said') <= MaxSaid
        /\ UNCHANGED <<mirrorVars, webVars, engageVars, upvoteVars, vaultVars>>
     \/ /\ part = "vault" /\ ~unsafe /\ VaultNext
        /\ UNCHANGED <<mirrorVars, webVars, engageVars, upvoteVars, asksVars>>

Spec == Init /\ [][Next]_jobsVars

(* Sets no definition relates share their model values, to be permuted as one *)
MCSymmetry == Permutations(Workers) \cup Permutations(Notes)
=============================================================================
