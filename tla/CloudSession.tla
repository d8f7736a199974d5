---------------------------- MODULE CloudSession ----------------------------
(***************************************************************************)
(* The myna cloud sign-in: cloud.json and its refresh lock, shared by the  *)
(* daemon and every foreground command (packages/core/src/store/cloud.ts,  *)
(* core/daemon.ts), and the token families of the server that answers them *)
(* (apps/api/src/oauth.ts, apps/api/src/cloud.ts).                         *)
(*                                                                         *)
(* A family is one sign-in: an OAuth session whose refresh token is        *)
(* replaced at each use, or a token without one (signup).  Token n of a    *)
(* family is its n-th pair of access and refresh token.  A step is what a  *)
(* process does between two awaits, or between two accesses of a file that *)
(* another process may also touch; a server's transaction is one step.     *)
(***************************************************************************)
EXTENDS Naturals

CONSTANTS
  Procs,       \* processes: the daemon, commands, the TUI, an MCP server
  Daemons,     \* those that run the daemon's monitor
  Nobody,      \* no process
  MaxLogins,   \* bound: sign-ins in one behaviour
  MaxTurns,    \* bound: rotations of one family
  MaxFaults    \* bound: answers lost, processes killed, holders put to sleep

ASSUME ProcsAssumption == Daemons \subseteq Procs /\ Nobody \notin Procs
ASSUME BoundsAssumption ==
  MaxLogins \in Nat /\ MaxTurns \in Nat /\ MaxFaults \in Nat

VARIABLES
  file,        \* cloud.json: out, active with a token, or expired
  lock,        \* who made the refresh-lock file, Nobody when there is none
  lockOld,     \* its mtime is more than 30 seconds ago
  \* the server
  fams,        \* families made so far: 1..fams
  legacy,      \* those without refresh tokens
  issued,      \* tokens handed out
  used,        \* refresh tokens spent
  revoked,     \* families that are over
  due,         \* tokens the client finds due: access over within a minute, or
               \* none to refresh with and not checked in the last one
  \* processes
  pc,
  call,        \* the local variables of the call under way
  \* bounds and history
  faults,
  lost,        \* a rotation was committed and its answer never stored
  robbed,      \* a lock was unlinked while its maker was inside
  reused,      \* a spent refresh token was presented again
  signedOut    \* families whose sign-out has been completed

server == <<fams, legacy, issued, used, revoked, due>>
history == <<faults, lost, robbed, reused, signedOut>>
vars == <<file, lock, lockOld, server, pc, call, history>>

Families == 1..MaxLogins
Tokens == [fam: Families, n: 0..MaxTurns]
NoToken == [fam |-> 0, n |-> 0]
Outcomes == {"none", "active", "expired", "out", "thrown"}
Jobs == {"none", "monitor", "fetch", "login", "logout"}
Calls == [job: Jobs, force: BOOLEAN, rotates: BOOLEAN,
          token: Tokens \cup {NoToken}, reply: Tokens \cup {NoToken},
          outcome: Outcomes]
NoCall == [job |-> "none", force |-> FALSE, rotates |-> FALSE,
           token |-> NoToken, reply |-> NoToken, outcome |-> "none"]

SignedOut == [state |-> "out", token |-> NoToken]
Expired == [state |-> "expired", token |-> NoToken]
Active(t) == [state |-> "active", token |-> t]
Files == {SignedOut, Expired} \cup {Active(t) : t \in Tokens}

(* Inside withRefreshLock *)
Inside == {"read", "rotate", "me", "answered", "revoke", "clear", "unlock"}
Places == Inside \cup {"idle", "landed", "forced", "lock", "steal",
                       "require", "send", "mark"}

Init ==
  /\ file = SignedOut /\ lock = Nobody /\ lockOld = FALSE
  /\ fams = 0 /\ legacy = {} /\ issued = {} /\ used = {} /\ revoked = {}
  /\ due = {}
  /\ pc = [p \in Procs |-> "idle"] /\ call = [p \in Procs |-> NoCall]
  /\ faults = 0 /\ lost = FALSE /\ robbed = FALSE /\ reused = FALSE /\ signedOut = {}

Goto(p, place) == pc' = [pc EXCEPT ![p] = place]
Rotates(t) == t.fam \notin legacy

Leave(p) == Goto(p, "idle") /\ call' = [call EXCEPT ![p] = NoCall]

(* refreshSession or logout is over: cloudFetch goes on with the session it *)
(* finds, unless it was told of an expiry or an error                       *)
Return(p, c, outcome) ==
  \/ /\ c.job = "fetch" /\ outcome \in {"active", "out"}
     /\ Goto(p, "require")
     /\ call' = [call EXCEPT ![p] = [NoCall EXCEPT !.job = "fetch", !.force = c.force]]
  \/ /\ c.job # "fetch" \/ outcome \in {"expired", "thrown"}
     /\ Leave(p)

(* The same, from inside the lock *)
Finish(p, outcome) ==
  /\ Goto(p, "unlock")
  /\ call' = [call EXCEPT ![p].outcome = outcome, ![p].token = NoToken,
                          ![p].reply = NoToken]

(***************************************************************************)
(* refreshSession, before the lock: a session that is fresh, or was        *)
(* checked within the minute, needs nothing                                *)
(***************************************************************************)
Fresh(t, force) == ~force /\ t \notin due

RefreshSession(p, c) ==
  LET t == file.token IN
  \/ file = SignedOut /\ Return(p, c, "out")
  \/ file = Expired /\ Return(p, c, "expired")
  \/ file.state = "active" /\ Fresh(t, c.force) /\ Return(p, c, "active")
  \/ /\ file.state = "active"
     /\ ~Fresh(t, c.force)
     /\ call' = [call EXCEPT ![p] = [c EXCEPT !.rotates = Rotates(t)]]
     /\ Goto(p, "lock")

(***************************************************************************)
(* Calls                                                                   *)
(***************************************************************************)
Begin(p, job, place) ==
  /\ Goto(p, place)
  /\ call' = [call EXCEPT ![p].job = job]

(* monitorCloudSession, once a turn *)
Monitor(p) ==
  /\ p \in Daemons /\ pc[p] = "idle"
  /\ RefreshSession(p, [NoCall EXCEPT !.job = "monitor"])
  /\ UNCHANGED <<file, lock, lockOld, server, history>>

(* cloudFetch: refresh early when there is a refresh token *)
Fetch(p) ==
  /\ pc[p] = "idle" /\ file.state = "active"
  /\ \/ Rotates(file.token) /\ RefreshSession(p, [NoCall EXCEPT !.job = "fetch"])
     \/ ~Rotates(file.token) /\ Begin(p, "fetch", "require")
  /\ UNCHANGED <<file, lock, lockOld, server, history>>

(* mutant: a sign-out does not wait for a refresh under way *)
SignOutAtOnce(p) ==
  /\ p \notin Daemons /\ pc[p] = "idle"
  /\ Begin(p, "logout", "read")
  /\ UNCHANGED <<file, lock, lockOld, server, history>>

SignOut(p) ==
  /\ p \notin Daemons /\ pc[p] = "idle"
  /\ Begin(p, "logout", "lock")
  /\ UNCHANGED <<file, lock, lockOld, server, history>>

(* A code or a device code is spent, or a signup: the server makes a family *)
SignIn(p) ==
  LET t == [fam |-> fams + 1, n |-> 0] IN
  /\ p \notin Daemons /\ pc[p] = "idle" /\ fams < MaxLogins
  /\ fams' = fams + 1
  /\ \/ UNCHANGED <<legacy, due>>
     \/ legacy' = legacy \cup {t.fam} /\ due' = due \cup {t}
  /\ issued' = issued \cup {t}
  /\ call' = [call EXCEPT ![p] = [NoCall EXCEPT !.job = "login", !.token = t]]
  /\ Goto(p, "landed")
  /\ UNCHANGED <<file, lock, lockOld, used, revoked, history>>

(* installTokenSet, signup and login take no lock *)
Land(p) ==
  /\ pc[p] = "landed"
  /\ file' = Active(call[p].token)
  /\ Leave(p)
  /\ UNCHANGED <<lock, lockOld, server, history>>

(***************************************************************************)
(* withRefreshLock                                                         *)
(***************************************************************************)
(* mutant: the lock is opened without "x" *)
OpenAnyway(p) ==
  /\ pc[p] = "lock"
  /\ lock' = p /\ lockOld' = FALSE
  /\ Goto(p, "read")
  /\ UNCHANGED <<file, server, call, history>>

Open(p) ==
  /\ pc[p] = "lock" /\ lock = Nobody
  /\ lock' = p /\ lockOld' = FALSE
  /\ Goto(p, "read")
  /\ UNCHANGED <<file, server, call, history>>

(* statSync finds a lock of more than 30 seconds *)
Stat(p) ==
  /\ pc[p] = "lock" /\ lock # Nobody /\ lockOld
  /\ Goto(p, "steal")
  /\ UNCHANGED <<file, lock, lockOld, server, call, history>>

(* unlinkSync removes whatever lock is there by now; the wait may be over *)
Steal(p) ==
  /\ pc[p] = "steal"
  /\ robbed' = (robbed \/ (lock # Nobody /\ pc[lock] \in Inside))
  /\ lock' = Nobody /\ lockOld' = FALSE
  /\ \/ Goto(p, "lock") /\ UNCHANGED call
     \/ Return(p, call[p], "thrown")
  /\ UNCHANGED <<file, server, faults, lost, reused, signedOut>>

(* 30 seconds of waiting for a lock that is younger than that *)
TimeOut(p) ==
  /\ pc[p] = "lock" /\ lock # Nobody /\ ~lockOld
  /\ Return(p, call[p], "thrown")
  /\ UNCHANGED <<file, lock, lockOld, server, history>>

(* finally: the lock file goes, whoever made it *)
Unlock(p) ==
  /\ pc[p] = "unlock"
  /\ robbed' = (robbed \/ (lock \notin {p, Nobody} /\ pc[lock] \in Inside))
  /\ lock' = Nobody /\ lockOld' = FALSE
  /\ Return(p, call[p], call[p].outcome)
  /\ UNCHANGED <<file, server, faults, lost, reused, signedOut>>

(***************************************************************************)
(* Inside the lock                                                         *)
(***************************************************************************)
(* The session is read again: another process may have rotated meanwhile *)
ReadToRefresh(p) ==
  LET t == file.token
      fresh == Fresh(t, call[p].force)
      same == Rotates(t) <=> call[p].rotates
  IN
  /\ pc[p] = "read" /\ call[p].job # "logout"
  /\ \/ file = SignedOut /\ Finish(p, "out")
     \/ file = Expired /\ Finish(p, "expired")
     \/ file.state = "active" /\ (~same \/ fresh) /\ Finish(p, "active")
     \/ /\ file.state = "active" /\ same /\ ~fresh
        /\ call' = [call EXCEPT ![p].token = t]
        /\ Goto(p, IF Rotates(t) THEN "rotate" ELSE "me")
  /\ UNCHANGED <<file, lock, lockOld, server, history>>

ReadToSignOut(p) ==
  /\ pc[p] = "read" /\ call[p].job = "logout"
  /\ call' = [call EXCEPT ![p].token = file.token]
  /\ Goto(p, IF file.token = NoToken THEN "clear" ELSE "revoke")
  /\ UNCHANGED <<file, lock, lockOld, server, history>>

(* The refresh grant: a live token is spent for the next, at most MaxTurns  *)
(* times here, and a dead or spent one revokes its family                   *)
Rotate(p) ==
  LET t == call[p].token
      good == t.fam \notin revoked /\ t \notin used
      next == [t EXCEPT !.n = @ + 1]
  IN
  /\ pc[p] = "rotate"
  /\ \/ /\ good /\ t.n < MaxTurns
        /\ used' = used \cup {t} /\ issued' = issued \cup {next}
        /\ call' = [call EXCEPT ![p].reply = next]
        /\ UNCHANGED <<revoked, reused>>
     \/ /\ ~good
        /\ revoked' = revoked \cup {t.fam}
        /\ reused' = (reused \/ t \in used)
        /\ call' = [call EXCEPT ![p].reply = NoToken]
        /\ UNCHANGED <<used, issued>>
  /\ Goto(p, "answered")
  /\ UNCHANGED <<file, lock, lockOld, fams, legacy, due, faults, lost, robbed, signedOut>>

(* GET /me with a token that has no refresh token *)
Me(p) ==
  LET t == call[p].token IN
  /\ pc[p] = "me"
  /\ call' = [call EXCEPT ![p].reply = IF t.fam \in revoked THEN NoToken ELSE t]
  /\ Goto(p, "answered")
  /\ UNCHANGED <<file, lock, lockOld, server, history>>

(* mutant: invalid_grant is thrown like any other error *)
SettleThrown(p) ==
  LET t == call[p].reply IN
  /\ pc[p] = "answered"
  /\ file' = IF t = NoToken THEN file ELSE Active(t)
  /\ due' = due \ {t}
  /\ Finish(p, IF t = NoToken THEN "thrown" ELSE "active")
  /\ UNCHANGED <<lock, lockOld, fams, legacy, issued, used, revoked, history>>

(* mutant: the rotated tokens are handed back and not saved *)
SettleUnsaved(p) ==
  LET t == call[p].reply IN
  /\ pc[p] = "answered"
  /\ file' = IF t = NoToken THEN Expired ELSE file
  /\ due' = due \ {t}
  /\ Finish(p, IF t = NoToken THEN "expired" ELSE "active")
  /\ UNCHANGED <<lock, lockOld, fams, legacy, issued, used, revoked, history>>

(* installTokenSet, checkedAt or markExpired *)
Settle(p) ==
  LET t == call[p].reply IN
  /\ pc[p] = "answered"
  /\ file' = IF t = NoToken THEN Expired ELSE Active(t)
  /\ due' = due \ {t}
  /\ Finish(p, IF t = NoToken THEN "expired" ELSE "active")
  /\ UNCHANGED <<lock, lockOld, fams, legacy, issued, used, revoked, history>>

(* The answer never arrives; a rotation stays committed *)
LoseAnswer(p) ==
  /\ pc[p] = "answered" /\ faults < MaxFaults
  /\ faults' = faults + 1
  /\ lost' = (lost \/ call[p].reply \notin {NoToken, call[p].token})
  /\ Finish(p, "thrown")
  /\ UNCHANGED <<file, lock, lockOld, server, robbed, reused, signedOut>>

Revoke(p) ==
  /\ pc[p] = "revoke"
  /\ revoked' = revoked \cup {call[p].token.fam}
  /\ Goto(p, "clear")
  /\ UNCHANGED <<file, lock, lockOld, fams, legacy, issued, used, due, call, history>>

(* The server cannot be reached: a refresh throws, a sign-out goes on *)
RequestFails(p) ==
  /\ \/ pc[p] \in {"rotate", "me"} /\ Finish(p, "thrown")
     \/ pc[p] = "revoke" /\ Goto(p, "clear") /\ UNCHANGED call
  /\ UNCHANGED <<file, lock, lockOld, server, history>>

Clear(p) ==
  /\ pc[p] = "clear"
  /\ file' = SignedOut
  /\ signedOut' = signedOut \cup ({call[p].token.fam} \cap Families)
  /\ Finish(p, "out")
  /\ UNCHANGED <<lock, lockOld, server, faults, lost, robbed, reused>>

(***************************************************************************)
(* cloudFetch, after the refresh                                           *)
(***************************************************************************)
(* requireSession *)
Require(p) ==
  /\ pc[p] = "require"
  /\ \/ file.state # "active" /\ Leave(p)
     \/ /\ file.state = "active"
        /\ call' = [call EXCEPT ![p].token = file.token]
        /\ Goto(p, "send")
  /\ UNCHANGED <<file, lock, lockOld, server, history>>

(* 200, any other answer or none; or 401, at which a token is refreshed and *)
(* sent once more                                                           *)
Send(p) ==
  LET t == call[p].token IN
  /\ pc[p] = "send"
  /\ \/ Leave(p)
     \/ /\ t.fam \in revoked \/ (Rotates(t) /\ t \in due)
        /\ \/ /\ Rotates(t) /\ ~call[p].force
              /\ call' = [call EXCEPT ![p].force = TRUE, ![p].token = NoToken]
              /\ Goto(p, "forced")
           \/ /\ ~Rotates(t) \/ call[p].force
              /\ Goto(p, "mark") /\ UNCHANGED call
  /\ UNCHANGED <<file, lock, lockOld, server, history>>

(* refreshSession({ force: true }) *)
Forced(p) ==
  /\ pc[p] = "forced"
  /\ RefreshSession(p, call[p])
  /\ UNCHANGED <<file, lock, lockOld, server, history>>

(* markExpired, without the lock *)
Mark(p) ==
  /\ pc[p] = "mark"
  /\ file' = Expired
  /\ Leave(p)
  /\ UNCHANGED <<lock, lockOld, server, history>>

(***************************************************************************)
(* Meanwhile                                                               *)
(***************************************************************************)
(* Tokens that make a difference: on disk, or in a process's hands *)
InUse == {file.token} \cup UNION {{call[p].token, call[p].reply} : p \in Procs}

(* A password reset, another device's sign-out, 30 days without a refresh *)
Kill(f) ==
  /\ f \notin revoked /\ \E t \in InUse : t.fam = f
  /\ revoked' = revoked \cup {f}
  /\ UNCHANGED <<file, lock, lockOld, fams, legacy, issued, used, due, pc, call, history>>

(* An access token lives 15 minutes, a check is good for one *)
Age(t) ==
  /\ t \in (issued \cap InUse) \ due
  /\ due' = due \cup {t}
  /\ UNCHANGED <<file, lock, lockOld, fams, legacy, issued, used, revoked, pc, call, history>>

(* A living holder is slow only when its machine sleeps, or in a sign-out   *)
(* whose request times out after just as long                               *)
LockAges ==
  /\ lock # Nobody /\ ~lockOld
  /\ lockOld' = TRUE
  /\ \/ pc[lock] \notin Inside /\ UNCHANGED faults
     \/ pc[lock] \in Inside /\ faults < MaxFaults /\ faults' = faults + 1
  /\ UNCHANGED <<file, lock, server, pc, call, lost, robbed, reused, signedOut>>

Crash(p) ==
  /\ pc[p] # "idle" /\ faults < MaxFaults
  /\ faults' = faults + 1
  /\ lost' = (lost \/ (pc[p] = "answered"
                         /\ call[p].reply \notin {NoToken, call[p].token}))
  /\ Leave(p)
  /\ UNCHANGED <<file, lock, lockOld, server, robbed, reused, signedOut>>

Step(p) ==
  \/ Land(p)
  \/ Open(p) \/ Stat(p) \/ Steal(p) \/ TimeOut(p) \/ Unlock(p)
  \/ ReadToRefresh(p) \/ ReadToSignOut(p) \/ Rotate(p) \/ Me(p) \/ Settle(p)
  \/ RequestFails(p) \/ Revoke(p) \/ Clear(p)
  \/ Require(p) \/ Send(p) \/ Forced(p) \/ Mark(p)

Next ==
  \/ \E p \in Procs :
       \/ Monitor(p) \/ Fetch(p) \/ SignIn(p) \/ SignOut(p)
       \/ Step(p) \/ LoseAnswer(p) \/ Crash(p)
  \/ \E f \in Families : Kill(f)
  \/ \E t \in Tokens : Age(t)
  \/ LockAges

Spec == Init /\ [][Next]_vars

(* A process runs on, the daemon takes its turns and the clock moves; the   *)
(* server is not out of reach for ever.                                     *)
Fairness ==
  /\ \A p \in Procs : WF_vars(Step(p)) /\ SF_vars(Rotate(p)) /\ SF_vars(Me(p))
  /\ \A p \in Daemons : SF_vars(Monitor(p))
  /\ WF_vars(Age(file.token))
  /\ WF_vars(LockAges)

FairSpec == Spec /\ Fairness

(***************************************************************************)
(* Properties                                                              *)
(***************************************************************************)
(* The type of every variable. *)
TypeOK ==
  /\ file \in Files /\ lock \in Procs \cup {Nobody} /\ lockOld \in BOOLEAN
  /\ fams \in 0..MaxLogins /\ legacy \subseteq Families
  /\ issued \subseteq Tokens /\ used \subseteq issued
  /\ revoked \subseteq Families /\ due \subseteq issued
  /\ pc \in [Procs -> Places] /\ call \in [Procs -> Calls]
  /\ faults \in 0..MaxFaults
  /\ lost \in BOOLEAN /\ robbed \in BOOLEAN /\ reused \in BOOLEAN
  /\ signedOut \subseteq Families

(* cloud.ts:330: the lock is there to "serialize rotation across a daemon    *)
(* and foreground CLI".  It does, until a lock is unlinked under its holder. *)
RotationSerialized ==
  \A p, q \in Procs :
    pc[p] \in Inside /\ pc[q] \in Inside /\ p # q => robbed

(* The same as a specification: the refresh lock is one lock, taken and let  *)
(* go at once.  A process has it while it is inside, and is at work from its *)
(* look at the session to the last write; the lock of one that died there is *)
(* nobody's, and stealing it changes nothing.                                *)
Holder == IF lock # Nobody /\ pc[lock] \in Inside THEN lock ELSE Nobody
AtWork == {p \in Procs : pc[p] \in Inside \ {"read", "unlock"}}
TheLock == INSTANCE OneHolder WITH holder <- Holder, inside <- AtWork
IsOneHolder == TheLock!Spec

(* Presenting a spent refresh token revokes the whole sign-in at the server: *)
(* the client does it only when a committed rotation's answer was lost, by   *)
(* the network or a crash, or when a lock was unlinked under its holder,     *)
(* and never by signing in, out or fetching beside a refresh.                *)
ReuseOnlyAfterLoss == reused => lost \/ robbed

(* cloud.ts:426: a sign-out "must not leave a token on this disk": no token  *)
(* of a sign-in that was signed out of comes back, whatever refresh, check   *)
(* or fetch was under way.                                                   *)
SignedOutStaysOut ==
  ~robbed /\ file.state = "active" => file.token.fam \notin signedOut

(* README.md:1499: "the daemon checks a revoked session": a sign-in the      *)
(* server has ended does not stay on disk as active, whatever crashed with   *)
(* the lock in its hand.                                                     *)
RevokedIsNoticed ==
  \A f \in Families :
    (file.state = "active" /\ file.token.fam = f /\ f \in revoked)
      ~> (file.state # "active" \/ file.token.fam # f)
=============================================================================
