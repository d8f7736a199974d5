----------------------------- MODULE SynConfig -----------------------------
(***************************************************************************)
(* Settings on every machine (packages/synconfig, apps/api/synconfig.ts):  *)
(* a machine saves its files under the revision it last saw, or loads the  *)
(* latest; the daemon does a load and then a save, a person either, with   *)
(* or without force.  The marker (sync.json) says what a machine last had  *)
(* in common with the cloud.                                               *)
(*                                                                         *)
(* A machine's synced files are one value here: load judges file by file,  *)
(* but it refuses as soon as one it would replace was edited.  Each worker *)
(* runs on one machine; machines may sign in to another account.           *)
(***************************************************************************)
EXTENDS Jobs, Sequences

CONSTANTS
  Machines, MachineOf,   \* and the one each worker runs on
  Accounts,              \* the cloud accounts
  Contents,              \* what the files may hold
  Retries,               \* the length of BACKOFF_MS
  MaxSaves               \* bound: revisions of each account in one behaviour

ASSUME SynConfigAssumption ==
  /\ MachineOf \in [Workers -> Machines]
  /\ Retries \in Nat /\ MaxSaves \in Nat /\ "none" \notin Accounts

VARIABLES
  files,    \* each machine's files
  marker,   \* its sync.json, <<>> when there is none
  signedIn, \* its account
  saves,    \* an account's settings_snapshots, the first revision first
  spc, call,\* where each worker is, and with what
  seen      \* history: the accounts whose latest revision a machine has had

synVars == <<files, marker, signedIn, saves, spc, call, seen>>

NoCall == [account |-> "none", snapshot |-> "none", if |-> 0, of |-> "none", force |-> FALSE,
           pre |-> 0, got |-> 0, left |-> 0]

(* of: whose revision the marker names, which it does not say itself *)
Mark(rev, content, account) == [rev |-> rev, content |-> content, of |-> account]
NoMark == Mark(0, "none", "none")

SynInit ==
  /\ files \in [Machines -> Contents] /\ marker = [m \in Machines |-> NoMark]
  /\ signedIn \in [Machines -> Accounts]
  /\ saves = [a \in Accounts |-> <<>>]
  /\ spc = [w \in Workers |-> "idle"] /\ call = [w \in Workers |-> NoCall]
  /\ seen = [a \in Accounts |-> {}]

Is(w, where, c) == spc' = [spc EXCEPT ![w] = where] /\ call' = [call EXCEPT ![w] = c]

Latest(a) == Len(saves[a])

(***************************************************************************)
(* save                                                                    *)
(***************************************************************************)
(* The files and the marker are read; ifRevision 0 stands for null *)
Save_(w, force) ==
  LET m == MachineOf[w]
  IN  /\ spc[w] = "idle"
      /\ Is(w, "put", [NoCall EXCEPT !.account = signedIn[m], !.snapshot = files[m],
                         !.if = IF force THEN 0 ELSE marker[m].rev, !.of = marker[m].of,
                         !.force = force, !.left = Retries])
      /\ UNCHANGED <<files, marker, signedIn, saves, seen, faults>>

(* An answer is lost, or the request was: it is sent again, or given up *)
LostAnswer(w) ==
  LET c == call[w]
  IN  /\ Fault
      /\ IF c.left = 0 THEN Is(w, "idle", NoCall)
         ELSE Is(w, "put", [c EXCEPT !.left = @ - 1, !.pre = 0])

(* handlePut: what is the latest already is the old revision again; to an   *)
(* account with nothing in it the precondition is dropped                   *)
PutRead(w) ==
  LET c == call[w]
      rev == Latest(c.account)
  IN  /\ spc[w] = "put"
      /\ \/ /\ rev > 0 /\ saves[c.account][rev] = c.snapshot
            /\ seen' = [seen EXCEPT ![c.account] = @ \cup {MachineOf[w]}]
            /\ \/ Is(w, "mark", [c EXCEPT !.got = rev]) /\ UNCHANGED faults
               \/ LostAnswer(w)
         \/ /\ ~(rev > 0 /\ saves[c.account][rev] = c.snapshot)
            /\ Is(w, "insert", [c EXCEPT !.pre = IF rev > 0 THEN c.if ELSE 0])
            /\ UNCHANGED <<seen, faults>>
         \/ LostAnswer(w) /\ UNCHANGED seen
      /\ UNCHANGED <<files, marker, signedIn, saves>>

(* mutant: the precondition is judged when the latest revision is read *)
JudgedBefore(c) == TRUE

(* The statement's having clause, judged as it inserts *)
Holds(c) == c.pre = 0 \/ c.pre = Latest(c.account)

(* 409: another revision is the latest, or another statement took the       *)
(* number in the same moment (the unique index)                             *)
PutInsert(w) ==
  LET c == call[w]
      a == c.account
  IN  /\ spc[w] = "insert"
      /\ \/ /\ ~Holds(c) \/ c.pre = 0
            /\ UNCHANGED <<saves, seen>>
            /\ \/ Is(w, "idle", NoCall) /\ UNCHANGED faults
               \/ LostAnswer(w)
         \/ /\ Holds(c) /\ Latest(a) < MaxSaves
            /\ saves' = [saves EXCEPT ![a] = Append(@, c.snapshot)]
            /\ seen' = [seen EXCEPT ![a] = {MachineOf[w]}]
            /\ \/ Is(w, "mark", [c EXCEPT !.got = Latest(a) + 1]) /\ UNCHANGED faults
               \/ LostAnswer(w)
      /\ UNCHANGED <<files, marker, signedIn>>

(* mutant: the marker notes the files as they are by now *)
MarkOfNow(w) == Mark(call[w].got, files[MachineOf[w]], call[w].account)

MarkOfSave(w) == Mark(call[w].got, call[w].snapshot, call[w].account)

SaveMarker(w) ==
  /\ spc[w] = "mark" /\ Is(w, "idle", NoCall)
  /\ marker' = [marker EXCEPT ![MachineOf[w]] = MarkOfSave(w)]
  /\ UNCHANGED <<files, signedIn, saves, seen, faults>>

(***************************************************************************)
(* load                                                                    *)
(***************************************************************************)
Get(w, force) ==
  LET a == signedIn[MachineOf[w]]
  IN  /\ spc[w] = "idle" /\ Latest(a) > 0
      /\ Is(w, "apply", [NoCall EXCEPT !.account = a, !.got = Latest(a), !.force = force])
      /\ UNCHANGED <<files, marker, signedIn, saves, seen, faults>>

(* Edited here since the marker, or there is no marker to tell *)
Drifted(m) == marker[m] # NoMark /\ files[m] # marker[m].content

(* mutant: under the number the cloud is at by now *)
MarkOfLatest(c) == Mark(Latest(c.account), saves[c.account][c.got], c.account)

MarkOfLoad(c) == Mark(c.got, saves[c.account][c.got], c.account)

Apply(w) ==
  LET m == MachineOf[w]
      c == call[w]
      new == saves[c.account][c.got]
  IN  /\ spc[w] = "apply" /\ Is(w, "idle", NoCall)
      /\ IF Drifted(m) /\ files[m] # new /\ ~c.force
         THEN UNCHANGED <<files, marker, seen>>
         ELSE /\ files' = [files EXCEPT ![m] = new]
              /\ marker' = [marker EXCEPT ![m] = MarkOfLoad(c)]
              /\ seen' = IF c.got = Latest(c.account)
                         THEN [seen EXCEPT ![c.account] = @ \cup {m}] ELSE seen
      /\ UNCHANGED <<signedIn, saves, faults>>

SynCrash(w) ==
  /\ spc[w] # "idle" /\ Fault /\ Is(w, "idle", NoCall)
  /\ UNCHANGED <<files, marker, signedIn, saves, seen>>

(***************************************************************************)
(* The people                                                              *)
(***************************************************************************)
EditFiles(m, content) ==
  /\ files[m] # content /\ files' = [files EXCEPT ![m] = content]
  /\ UNCHANGED <<marker, signedIn, saves, spc, call, seen, faults>>

(* myna cloud logout and login: the marker stays *)
SignIn(m, a) ==
  /\ signedIn[m] # a /\ signedIn' = [signedIn EXCEPT ![m] = a]
  /\ UNCHANGED <<files, marker, saves, spc, call, seen, faults>>

SynNext ==
  \/ \E w \in Workers :
       \/ PutRead(w) \/ PutInsert(w) \/ SaveMarker(w) \/ Apply(w) \/ SynCrash(w)
       \/ \E force \in BOOLEAN : Save_(w, force) \/ Get(w, force)
  \/ \E m \in Machines : \/ \E content \in Contents : EditFiles(m, content)
                         \/ \E a \in Accounts : SignIn(m, a)

SynSpec == faults = 0 /\ SynInit /\ [][SynNext]_<<synVars, faults>>

(***************************************************************************)
(* Properties                                                              *)
(***************************************************************************)
Marks == [rev : Nat, content : Contents \cup {"none"}, of : Accounts \cup {"none"}]

(* The type of every variable; a marker names a revision there is, with     *)
(* what it holds.                                                           *)
SynTypeOK ==
  /\ files \in [Machines -> Contents] /\ signedIn \in [Machines -> Accounts]
  /\ saves \in [Accounts -> Seq(Contents)]
  /\ \A m \in Machines : LET k == marker[m] IN
       \/ k = NoMark
       \/ k.of \in Accounts /\ k.rev \in 1..Latest(k.of) /\ saves[k.of][k.rev] = k.content
  /\ spc \in [Workers -> {"idle", "put", "insert", "mark", "apply"}]
  /\ \A w \in Workers : spc[w] # "idle" =>
       /\ call[w].account \in Accounts /\ call[w].left \in 0..Retries
       /\ spc[w] \in {"mark", "apply"} => call[w].got \in 1..Latest(call[w].account)
  /\ seen \in [Accounts -> SUBSET Machines]

(* packages/synconfig/src/sync.ts:4, "The server refuses if another machine   *)
(* has saved since": an unforced save, of a machine that has synced with this *)
(* account before, replaces a revision only when the machine has had it,      *)
(* whatever was sent twice and whoever saved between its two statements.      *)
NothingLost ==
  [][\A w \in Workers :
       LET c == call[w]
       IN  /\ spc[w] = "insert" /\ spc'[w] # "insert"
           /\ saves'[c.account] # saves[c.account]
           /\ ~c.force /\ c.of = c.account
           => MachineOf[w] \in seen[c.account]]_<<synVars, faults>>

(* packages/synconfig/src/sync.ts:7, "an unsynced local change is never       *)
(* silently lost": what an unforced load replaces on a machine that has a     *)
(* marker, the cloud has a revision of.                                       *)
EditsKept ==
  [][\A w \in Workers :
       LET m == MachineOf[w]
       IN  /\ spc[w] = "apply" /\ spc'[w] = "idle" /\ ~call[w].force
           /\ marker[m] # NoMark /\ files'[m] # files[m]
           => \E a \in Accounts : \E i \in 1..Latest(a) : saves[a][i] = files[m]
    ]_<<synVars, faults>>
=============================================================================
