-------------------------- MODULE MCCloudExchange --------------------------
(* TLC instances of the exchanges machines have through the cloud.  A       *)
(* behaviour is one of reshares, or of settings in one account, with faults, *)
(* or of settings in several, without, or of unsubscribes, or of mail.      *)
EXTENDS Reshare, SynConfig, UnsubscribeSync, HostedMail, TLC

CONSTANTS w1, w2, u1, m1, m2, a1, x1, x2, y1

VARIABLE part

(* Two installs of one sharer *)
MCUserOf == w1 :> u1 @@ w2 :> u1
MCMachineOf == w1 :> m1 @@ w2 :> m2

(* Two messages of one ledger, and one of another *)
MCInstallOf == x1 :> w1 @@ x2 :> w1 @@ y1 :> w2

exchangeVars == <<reshareVars, synVars, syncVars, hostedVars, faults, part>>

Init ==
  /\ faults = 0 /\ part \in {"reshare", "settings", "accounts", "unsubscribes", "mail"}
  /\ ReshareInit /\ SynInit /\ SyncInit /\ HostedInit
  /\ part # "accounts" => signedIn = [m \in Machines |-> a1]
  /\ part \in {"reshare", "unsubscribes", "mail"} => \A m, o \in Machines : files[m] = files[o]

Revisions(s) == Len(s[a1]) + Len(s[CHOOSE a \in Accounts : a # a1])

(* Three presses, changes by hand and faults in all; a clash of two         *)
(* processes over contacts.json is not gone on from                         *)
Few == ~crossed /\ clock' + faults' + Cardinality(outByHand') + Cardinality(forgotten') <= 3

Next ==
  /\ UNCHANGED part
  /\ \/ /\ part = "reshare" /\ ReshareNext
        /\ UNCHANGED <<synVars, syncVars, hostedVars>>
     \/ /\ part = "settings" /\ SynNext
        /\ UNCHANGED <<reshareVars, syncVars, hostedVars, signedIn>>
     \/ /\ part = "accounts" /\ SynNext /\ Revisions(saves') <= 2
        /\ UNCHANGED <<reshareVars, syncVars, hostedVars, faults>>
     \/ /\ part = "unsubscribes" /\ SyncNext /\ Few
        /\ UNCHANGED <<reshareVars, synVars, hostedVars>>
     \/ /\ part = "mail" /\ HostedNext
        /\ UNCHANGED <<reshareVars, synVars, syncVars>>

Spec == Init /\ [][Next]_exchangeVars

MCSymmetry ==
  Permutations(Networks) \cup Permutations(Contents) \cup Permutations(People)
=============================================================================
