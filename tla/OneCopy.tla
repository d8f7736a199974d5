------------------------------ MODULE OneCopy ------------------------------
(***************************************************************************)
(* What a ledger of mail promises, whatever sends it: a person's copy is   *)
(* attempted only while it is owed, an attempt ends the debt before        *)
(* anything is handed over, and only an attempt known to have failed       *)
(* renews it.  Beyond that a copy goes out again only if it was asked for: *)
(* by somebody who wants the uncertain ones sent, or by a queue that does  *)
(* not know what a dead worker did, or if the answer to a call denied a    *)
(* copy that it had taken.                                                 *)
(***************************************************************************)
EXTENDS Naturals

CONSTANT Contacts

VARIABLES
  owed,    \* who may be sent to without being asked
  copies,  \* copies handed over, per person
  asks     \* times a further copy was asked for, or one was denied that went out

vars == <<owed, copies, asks>>

Init ==
  /\ owed = Contacts
  /\ copies = [c \in Contacts |-> 0]
  /\ asks = [c \in Contacts |-> 0]

Attempt(c) ==
  /\ owed' = owed \ {c}
  /\ UNCHANGED <<copies, asks>>

(* One call may carry several copies, S, and its answer deny some of them, D *)
HandOver(S, D) ==
  /\ D \subseteq S
  /\ \A c \in S : c \notin owed /\ copies[c] <= asks[c]
  /\ copies' = [c \in Contacts |-> IF c \in S THEN copies[c] + 1 ELSE copies[c]]
  /\ asks' = [c \in Contacts |-> IF c \in D THEN asks[c] + 1 ELSE asks[c]]
  /\ UNCHANGED owed

Fail(c) ==
  /\ copies[c] <= asks[c]
  /\ owed' = owed \cup {c}
  /\ UNCHANGED <<copies, asks>>

Ask(S) ==
  /\ S \cap owed = {}
  /\ asks' = [c \in Contacts |-> IF c \in S THEN asks[c] + 1 ELSE asks[c]]
  /\ UNCHANGED <<owed, copies>>

(* Asked for and owed again at once *)
Renew(S) ==
  /\ S \cap owed = {}
  /\ asks' = [c \in Contacts |-> IF c \in S THEN asks[c] + 1 ELSE asks[c]]
  /\ owed' = owed \cup S
  /\ UNCHANGED copies

Next ==
  \/ \E c \in Contacts : Attempt(c) \/ Fail(c)
  \/ \E S, D \in SUBSET Contacts : HandOver(S, D)
  \/ \E S \in SUBSET Contacts : Ask(S) \/ Renew(S)

Spec == Init /\ [][Next]_vars
=============================================================================
