------------------------ MODULE CloudSession_proofs ------------------------
(***************************************************************************)
(* Two arguments about the session of one account, for any number of        *)
(* processes, sign-ins, rotations and faults.                               *)
(*                                                                          *)
(* The lock.  RotationSerialized is not inductive: it does not say whose    *)
(* file the lock is.  Held does: until a robbery, whoever is inside made    *)
(* the lock file that is there, so there is one such process, and none when *)
(* there is no file.                                                        *)
(*                                                                          *)
(* The tokens.  ReuseOnlyAfterLoss and SignedOutStaysOut speak of what has  *)
(* happened, or is on disk; TokenInv says of every hand a token can be in   *)
(* why it cannot happen next.  Until a loss or a robbery, what is on disk   *)
(* or about to be presented is unspent, except that the one process inside  *)
(* the lock may have spent the token on disk and still has to store its     *)
(* successor (Unspent); a successor is only handed out for a spent token,   *)
(* so a fresh one is unspent (Chain); a sign-in on its way to disk, which   *)
(* takes no lock, is in nobody else's hands (Landing); and no hand from     *)
(* which a token is written holds one that was signed out of (Ended).       *)
(***************************************************************************)
EXTENDS CloudSession, TLAPS

(* What the lock needs to know of the types *)
LockTypeOK ==
  /\ lock \in Procs \cup {Nobody}
  /\ pc \in [Procs -> Places]
  /\ robbed \in BOOLEAN

Held == \A p \in Procs : pc[p] \in Inside /\ ~robbed => lock = p

LockInv == LockTypeOK /\ Held

(***************************************************************************)
(* What a step can do to the lock                                          *)
(***************************************************************************)
(* Process p moves, and does not get inside *)
Outwards(p) ==
  \E place \in Places :
    /\ Goto(p, place)
    /\ place \in Inside => pc[p] \in Inside
    /\ UNCHANGED <<lock, robbed>>

(* The lock file goes *)
Unlinks(p) ==
  /\ \E place \in Places \ Inside : Goto(p, place)
  /\ lock' = Nobody
  /\ robbed' = (robbed \/ (lock \notin {p, Nobody} /\ pc[lock] \in Inside))

LEMMA PlacesInside == Inside \subseteq Places /\ "idle" \in Places \ Inside
BY DEF Inside, Places

(* A call that ends, or goes on to requireSession, is outside the lock. *)
LEMMA ReturnIsOutside ==
  ASSUME NEW p, NEW c, NEW outcome, Return(p, c, outcome)
  PROVE  \E place \in Places \ Inside : Goto(p, place)
BY DEF Return, Leave, Goto, Places, Inside

(* Before the lock, refreshSession returns or waits for it. *)
LEMMA RefreshIsOutside ==
  ASSUME NEW p, NEW c, RefreshSession(p, c)
  PROVE  \E place \in Places \ Inside : Goto(p, place)
<1>1. ASSUME NEW outcome, Return(p, c, outcome)
      PROVE  \E place \in Places \ Inside : Goto(p, place)
  BY <1>1, ReturnIsOutside
<1>2. ASSUME Goto(p, "lock")
      PROVE  \E place \in Places \ Inside : Goto(p, place)
  BY <1>2 DEF Places, Inside
<1> QED BY <1>1, <1>2 DEF RefreshSession

(***************************************************************************)
(* Each of them keeps the invariant                                        *)
(***************************************************************************)
LEMMA OutwardsKeeps ==
  ASSUME NEW p \in Procs, LockInv, Outwards(p)
  PROVE  LockInv'
BY DEF LockInv, LockTypeOK, Held, Outwards, Goto

(* Whoever unlinks a lock while its maker is inside robs it; otherwise, as   *)
(* everybody inside made the lock, nobody but p is.                          *)
LEMMA UnlinksKeeps ==
  ASSUME NEW p \in Procs, LockInv, Unlinks(p)
  PROVE  LockInv'
<1>1. PICK place \in Places \ Inside : Goto(p, place)
  BY DEF Unlinks
<1>2. LockTypeOK'
  BY <1>1 DEF LockInv, LockTypeOK, Unlinks, Goto
<1>3. ASSUME NEW q \in Procs, pc'[q] \in Inside, ~robbed'
      PROVE  FALSE
  <2>1. q # p /\ pc[q] \in Inside
    BY <1>1, <1>3 DEF LockInv, LockTypeOK, Goto
  <2>2. ~robbed /\ ~(lock \notin {p, Nobody} /\ pc[lock] \in Inside)
    BY <1>3 DEF Unlinks, LockInv, LockTypeOK
  <2>3. lock = q
    BY <2>1, <2>2 DEF LockInv, Held
  <2> QED BY <2>1, <2>2, <2>3, ProcsAssumption
<1> QED BY <1>2, <1>3 DEF LockInv, Held

LEMMA OpenKeeps ==
  ASSUME NEW p \in Procs, LockInv, Open(p)
  PROVE  LockInv'
<1>1. lock = Nobody /\ lock' = p /\ pc' = [pc EXCEPT ![p] = "read"] /\ robbed' = robbed
  BY DEF Open, Goto, history
<1>2. ASSUME NEW q \in Procs, pc[q] \in Inside, ~robbed
      PROVE  FALSE
  BY <1>1, <1>2, ProcsAssumption DEF LockInv, Held
<1> QED BY <1>1, <1>2, PlacesInside DEF LockInv, LockTypeOK, Held, Inside

(***************************************************************************)
(* Every step of the protocol is one of them                               *)
(***************************************************************************)
LEMMA ReturnIsOutwards ==
  ASSUME NEW p, \E place \in Places \ Inside : Goto(p, place),
         UNCHANGED <<lock, robbed>>
  PROVE  Outwards(p)
BY PlacesInside DEF Outwards

LEMMA OutsideSteps ==
  ASSUME NEW p \in Procs,
         \/ Monitor(p) \/ Fetch(p) \/ SignIn(p) \/ SignOut(p) \/ Land(p)
         \/ Stat(p) \/ TimeOut(p) \/ Require(p) \/ Send(p) \/ Forced(p)
         \/ Mark(p) \/ Crash(p)
  PROVE  Outwards(p)
<1> USE DEF history, server
<1>1. CASE Monitor(p)
  BY <1>1, RefreshIsOutside, ReturnIsOutwards DEF Monitor
<1>2. CASE Fetch(p)
  <2>1. CASE RefreshSession(p, [NoCall EXCEPT !.job = "fetch"])
    BY <1>2, <2>1, RefreshIsOutside, ReturnIsOutwards DEF Fetch
  <2>2. CASE Goto(p, "require")
    BY <1>2, <2>2 DEF Fetch, Outwards, Places, Inside
  <2> QED BY <1>2, <2>1, <2>2 DEF Fetch, Begin
<1>3. CASE SignIn(p)
  BY <1>3 DEF SignIn, Outwards, Places, Inside
<1>4. CASE SignOut(p)
  BY <1>4 DEF SignOut, Begin, Outwards, Places, Inside
<1>5. CASE Land(p)
  BY <1>5 DEF Land, Leave, Outwards, Places, Inside
<1>6. CASE Stat(p)
  BY <1>6 DEF Stat, Outwards, Places, Inside
<1>7. CASE TimeOut(p)
  BY <1>7, ReturnIsOutside, ReturnIsOutwards DEF TimeOut
<1>8. CASE Require(p)
  BY <1>8 DEF Require, Leave, Outwards, Places, Inside
<1>9. CASE Send(p)
  BY <1>9 DEF Send, Leave, Outwards, Places, Inside
<1>10. CASE Forced(p)
  BY <1>10, RefreshIsOutside, ReturnIsOutwards DEF Forced
<1>11. CASE Mark(p)
  BY <1>11 DEF Mark, Leave, Outwards, Places, Inside
<1>12. CASE Crash(p)
  BY <1>12 DEF Crash, Leave, Outwards, Places, Inside
<1> QED
  BY <1>1, <1>2, <1>3, <1>4, <1>5, <1>6, <1>7, <1>8, <1>9, <1>10, <1>11, <1>12

LEMMA InsideSteps ==
  ASSUME NEW p \in Procs,
         \/ ReadToRefresh(p) \/ ReadToSignOut(p) \/ Rotate(p) \/ Me(p)
         \/ Settle(p) \/ LoseAnswer(p) \/ Revoke(p) \/ RequestFails(p)
         \/ Clear(p)
  PROVE  Outwards(p)
<1> USE DEF history, server, Finish, Outwards, Places, Inside
<1>1. CASE ReadToRefresh(p)
  BY <1>1 DEF ReadToRefresh
<1>2. CASE ReadToSignOut(p)
  BY <1>2 DEF ReadToSignOut
<1>3. CASE Rotate(p)
  BY <1>3 DEF Rotate
<1>4. CASE Me(p)
  BY <1>4 DEF Me
<1>5. CASE Settle(p)
  BY <1>5 DEF Settle
<1>6. CASE LoseAnswer(p)
  BY <1>6 DEF LoseAnswer
<1>7. CASE Revoke(p)
  BY <1>7 DEF Revoke
<1>8. CASE RequestFails(p)
  BY <1>8 DEF RequestFails
<1>9. CASE Clear(p)
  BY <1>9 DEF Clear
<1> QED BY <1>1, <1>2, <1>3, <1>4, <1>5, <1>6, <1>7, <1>8, <1>9

LEMMA UnlinkSteps ==
  ASSUME NEW p \in Procs, LockTypeOK, Steal(p) \/ Unlock(p)
  PROVE  Unlinks(p)
<1> USE DEF history
<1>1. CASE Steal(p)
  <2>1. ~(lock = p /\ pc[lock] \in Inside)
    BY <1>1 DEF Steal, Inside
  <2>2. lock' = Nobody
    BY <1>1 DEF Steal
  <2>3. robbed' = (robbed \/ (lock # Nobody /\ pc[lock] \in Inside))
    BY <1>1 DEF Steal
  <2>4. \E place \in Places \ Inside : Goto(p, place)
    <3>1. CASE Goto(p, "lock")
      BY <3>1 DEF Places, Inside
    <3>2. CASE Return(p, call[p], "thrown")
      BY <3>2, ReturnIsOutside
    <3> QED BY <1>1, <3>1, <3>2 DEF Steal
  <2> QED BY <2>1, <2>2, <2>3, <2>4 DEF Unlinks
<1>2. CASE Unlock(p)
  BY <1>2, ReturnIsOutside DEF Unlock, Unlinks
<1> QED BY <1>1, <1>2

(***************************************************************************)
(* The theorem                                                             *)
(***************************************************************************)
LEMMA InitLockInv == Init => LockInv
BY DEF Init, LockInv, LockTypeOK, Held, Inside, Places

LEMMA NextLockInv == LockInv /\ [Next]_vars => LockInv'
<1> SUFFICES ASSUME LockInv, [Next]_vars PROVE LockInv'
  OBVIOUS
<1>1. ASSUME NEW p \in Procs, Outwards(p) \/ Unlinks(p) \/ Open(p)
      PROVE  LockInv'
  BY <1>1, OutwardsKeeps, UnlinksKeeps, OpenKeeps
<1>2. ASSUME NEW p \in Procs,
             \/ Monitor(p) \/ Fetch(p) \/ SignIn(p) \/ SignOut(p)
             \/ Step(p) \/ LoseAnswer(p) \/ Crash(p)
      PROVE  LockInv'
  BY <1>1, <1>2, OutsideSteps, InsideSteps, UnlinkSteps DEF Step, LockInv
<1>3. ASSUME UNCHANGED <<lock, pc, robbed>>
      PROVE  LockInv'
  BY <1>3 DEF LockInv, LockTypeOK, Held
<1>4. ASSUME NEW f, Kill(f)
      PROVE  LockInv'
  BY <1>3, <1>4 DEF Kill, history
<1>5. ASSUME NEW t, Age(t)
      PROVE  LockInv'
  BY <1>3, <1>5 DEF Age, history
<1>6. CASE LockAges
  BY <1>3, <1>6 DEF LockAges
<1>7. CASE UNCHANGED vars
  BY <1>3, <1>7 DEF vars, history
<1> QED BY <1>2, <1>4, <1>5, <1>6, <1>7 DEF Next

(* Two processes are inside the refresh lock at once only after one of them *)
(* unlinked it under its holder, with any number of processes and faults    *)
(* (withRefreshLock, store/cloud.ts).                                       *)
THEOREM Serialized == Spec => []RotationSerialized
<1>1. LockInv => RotationSerialized
  BY DEF LockInv, Held, RotationSerialized
<1> QED
  BY <1>1, InitLockInv, NextLockInv, PTL DEF Spec

(***************************************************************************)
(* CloudSession implements OneHolder                                       *)
(***************************************************************************)
Works == Inside \ {"read", "unlock"}

(* A step in which only p moves changes the workers by p at most. *)
LEMMA AtWorkAfter ==
  ASSUME LockTypeOK, NEW p \in Procs, NEW place, Goto(p, place)
  PROVE  /\ (place \in Works <=> pc[p] \in Works) => AtWork' = AtWork
         /\ place \in Works => AtWork' = AtWork \cup {p}
         /\ place \notin Works => AtWork' = AtWork \ {p}
<1>1. pc'[p] = place /\ \A q \in Procs \ {p} : pc'[q] = pc[q]
  BY DEF LockTypeOK, Goto
<1>2. /\ AtWork = {q \in Procs : pc[q] \in Works}
      /\ AtWork' = {q \in Procs : pc'[q] \in Works}
  BY DEF AtWork, Works
<1> QED BY <1>1, <1>2

LEMMA OutwardsUnderTheLock ==
  ASSUME NEW p \in Procs, LockInv, ~robbed, Outwards(p)
  PROVE  [TheLock!Next]_(TheLock!vars)
<1>0. LockTypeOK /\ Held
  BY DEF LockInv
<1>1. PICK place \in Places : /\ Goto(p, place)
                              /\ place \in Inside => pc[p] \in Inside
                              /\ UNCHANGED <<lock, robbed>>
  BY DEF Outwards
<1>2. pc'[p] = place /\ \A q \in Procs \ {p} : pc'[q] = pc[q]
  BY <1>0, <1>1 DEF LockTypeOK, Goto
<1>3. CASE pc[p] \notin Inside
  <2>1. Holder' = Holder
    BY <1>0, <1>1, <1>2, <1>3, ProcsAssumption DEF LockTypeOK, Holder
  <2>2. AtWork' = AtWork
    BY <1>0, <1>1, <1>3, AtWorkAfter DEF Works
  <2> QED BY <1>1, <2>1, <2>2 DEF TheLock!vars
<1>4. CASE pc[p] \in Inside
  <2>1. lock = p /\ Holder = p
    BY <1>0, <1>4, ProcsAssumption DEF Held, Holder
  <2>2. CASE place \in Inside
    <3>1. Holder' = p
      BY <1>1, <1>2, <2>1, <2>2, ProcsAssumption DEF Holder
    <3>2. AtWork' = AtWork \cup {p} \/ AtWork' = AtWork \ {p}
      BY <1>0, <1>1, AtWorkAfter
    <3>3. TheLock!Enter(p) \/ TheLock!Leave(p)
      BY <1>1, <2>1, <3>1, <3>2 DEF TheLock!Enter, TheLock!Leave
    <3> QED BY <3>3 DEF TheLock!Next
  <2>3. CASE place \notin Inside
    <3>1. Holder' = Nobody
      BY <1>1, <1>2, <2>1, <2>3 DEF Holder
    <3>2. AtWork' = AtWork \ {p}
      BY <1>0, <1>1, <2>3, AtWorkAfter DEF Works
    <3>3. TheLock!Die(p)
      BY <1>1, <2>1, <3>1, <3>2 DEF TheLock!Die
    <3> QED BY <3>3 DEF TheLock!Next
  <2> QED BY <2>2, <2>3
<1> QED BY <1>3, <1>4

LEMMA UnlinksUnderTheLock ==
  ASSUME NEW p \in Procs, LockInv, ~robbed, ~robbed', Unlinks(p),
         pc[p] \notin Works
  PROVE  [TheLock!Next]_(TheLock!vars)
<1>0. LockTypeOK /\ Held
  BY DEF LockInv
<1>1. PICK place \in Places \ Inside : Goto(p, place)
  BY DEF Unlinks
<1>2. Holder' = Nobody
  BY DEF Unlinks, Holder
<1>3. AtWork' = AtWork /\ p \notin AtWork
  BY <1>0, <1>1, AtWorkAfter DEF AtWork, Works
<1>4. ~(lock \notin {p, Nobody} /\ pc[lock] \in Inside)
  BY Zenon DEF Unlinks
<1>5. robbed' = robbed
  BY <1>0, <1>4 DEF Unlinks, LockTypeOK
<1>6. CASE pc[p] \in Inside
  <2>1. Holder = p
    BY <1>0, <1>6, ProcsAssumption DEF Held, Holder
  <2>2. TheLock!Release(p)
    BY <1>2, <1>3, <1>5, <2>1 DEF TheLock!Release
  <2> QED BY <2>2 DEF TheLock!Next
<1>7. CASE pc[p] \notin Inside
  <2>1. Holder = Nobody
    BY <1>4, <1>7 DEF Holder
  <2> QED BY <1>2, <1>3, <1>5, <2>1 DEF TheLock!vars
<1> QED BY <1>6, <1>7

LEMMA OpenUnderTheLock ==
  ASSUME NEW p \in Procs, LockInv, Open(p)
  PROVE  [TheLock!Next]_(TheLock!vars)
<1>0. LockTypeOK
  BY DEF LockInv
<1>1. /\ pc[p] = "lock" /\ lock = Nobody /\ lock' = p /\ robbed' = robbed
      /\ Goto(p, "read")
  BY DEF Open, history
<1>2. pc'[p] = "read"
  BY <1>0, <1>1 DEF LockTypeOK, Goto
<1>3. Holder = Nobody /\ Holder' = p
  BY <1>1, <1>2, ProcsAssumption DEF Holder, Inside
<1>4. AtWork' = AtWork
  BY <1>0, <1>1, AtWorkAfter DEF Works, Inside
<1>5. TheLock!Acquire(p)
  BY <1>1, <1>3, <1>4 DEF TheLock!Acquire
<1> QED BY <1>5 DEF TheLock!Next

LEMMA NextUnderTheLock ==
  ASSUME LockInv, LockInv', [Next]_vars
  PROVE  [TheLock!Next]_(TheLock!vars)
<1>1. ASSUME UNCHANGED <<lock, pc, robbed>>
      PROVE  UNCHANGED TheLock!vars
  BY <1>1 DEF TheLock!vars, Holder, AtWork
<1>2. CASE robbed'
  <2>1. robbed' = TRUE
    BY <1>2 DEF LockInv, LockTypeOK
  <2>2. Holder' \in Procs \cup {Nobody} /\ AtWork' \in SUBSET Procs
    BY DEF LockInv, LockTypeOK, Holder, AtWork
  <2> QED BY <2>1, <2>2 DEF TheLock!Next, TheLock!Robbed
<1>3. ASSUME NEW p \in Procs, ~robbed', Outwards(p)
      PROVE  [TheLock!Next]_(TheLock!vars)
  <2>1. ~robbed
    BY <1>3 DEF Outwards
  <2> QED BY <1>3, <2>1, OutwardsUnderTheLock
<1>4. ASSUME NEW p \in Procs, ~robbed', Steal(p) \/ Unlock(p)
      PROVE  [TheLock!Next]_(TheLock!vars)
  <2>1. Unlinks(p)
    BY <1>4, UnlinkSteps DEF LockInv
  <2>2. ~robbed
    BY <1>4, <2>1, Zenon DEF Unlinks
  <2>3. pc[p] \notin Works
    BY <1>4 DEF Steal, Unlock, Works, Inside
  <2> QED BY <1>4, <2>1, <2>2, <2>3, UnlinksUnderTheLock
<1>5. ASSUME NEW p \in Procs, ~robbed',
             \/ Monitor(p) \/ Fetch(p) \/ SignIn(p) \/ SignOut(p)
             \/ Step(p) \/ LoseAnswer(p) \/ Crash(p)
      PROVE  [TheLock!Next]_(TheLock!vars)
  BY <1>3, <1>4, <1>5, OutsideSteps, InsideSteps, OpenUnderTheLock DEF Step
<1>6. ASSUME NEW f, Kill(f)
      PROVE  UNCHANGED TheLock!vars
  BY <1>1, <1>6 DEF Kill, history
<1>7. ASSUME NEW t, Age(t)
      PROVE  UNCHANGED TheLock!vars
  BY <1>1, <1>7 DEF Age, history
<1>8. CASE LockAges \/ UNCHANGED vars
  BY <1>1, <1>8 DEF LockAges, vars, history
<1> QED BY <1>2, <1>5, <1>6, <1>7, <1>8 DEF Next

(* Every run of CloudSession is one of OneHolder: withRefreshLock's file is  *)
(* one lock, taken by the open and let go by the unlink, and stealing the    *)
(* lock of a process that died under it changes nothing.                     *)
THEOREM RefreshLockIsOneLock == Spec => IsOneHolder
<1>1. Init => TheLock!Init
  BY DEF Init, Holder, AtWork, Inside, TheLock!Init
<1>2. LockInv /\ LockInv' /\ [Next]_vars => [TheLock!Next]_(TheLock!vars)
  BY NextUnderTheLock
<1> QED
  BY <1>1, <1>2, InitLockInv, NextLockInv, PTL DEF Spec, IsOneHolder, TheLock!Spec

(***************************************************************************)
(* Tokens in hand                                                          *)
(***************************************************************************)
(* Every token on disk or in a call was handed out *)
Known(t) == t \in issued \cup {NoToken}

HandsOK ==
  /\ Known(file.token)
  /\ \A p \in Procs :
       /\ Known(call[p].token) /\ Known(call[p].reply)
       /\ pc[p] \in {"landed", "rotate", "me", "revoke"} => call[p].token \in issued
  /\ \A t \in issued : t.fam \in 1..fams
  /\ legacy \subseteq 1..fams /\ signedOut \subseteq 1..fams

TypeInv == TypeOK /\ HandsOK

(* A sign-in that is not yet on disk is in nobody else's hands *)
Landing ==
  \A p \in Procs :
    pc[p] = "landed" =>
      LET f == call[p].token.fam
      IN  /\ f \notin signedOut /\ f # file.token.fam
          /\ \A t \in used : t.fam # f
          /\ \A q \in Procs \ {p} : call[q].token.fam # f /\ call[q].reply.fam # f

(* A token follows one that was spent; without a refresh token none is spent *)
Chain ==
  /\ \A t \in Tokens : [t EXCEPT !.n = @ + 1] \in issued => t \in used
  /\ \A t \in used : t.fam \notin legacy
  /\ \A p \in Procs : /\ pc[p] = "rotate" => call[p].token.fam \notin legacy
                      /\ pc[p] = "me" => call[p].token.fam \in legacy

(* What is presented, and what is on disk, is not spent; but the process    *)
(* that has just spent the token on disk still has to store its successor   *)
Successor(p, t) ==
  pc[p] = "answered" /\ call[p].token = t /\ call[p].reply \notin {NoToken, t}

Unspent ==
  ~lost /\ ~robbed =>
    /\ ~reused
    /\ \A p \in Procs : /\ pc[p] = "rotate" => call[p].token \notin used
                        /\ pc[p] = "answered" => call[p].reply \notin used
    /\ file.token \in used => \E p \in Procs : Successor(p, file.token)

(* Nothing that is or will be written belongs to a sign-in signed out of *)
Ended ==
  ~robbed =>
    /\ file.token.fam \notin signedOut
    /\ \A p \in Procs : /\ pc[p] \in {"rotate", "me"} => call[p].token.fam \notin signedOut
                        /\ pc[p] = "answered" => call[p].reply.fam \notin signedOut

TokenInv == TypeInv /\ LockInv /\ Landing /\ Chain /\ Unspent /\ Ended

(***************************************************************************)
(* Steps that bring no token to disk or to the server: process p gets to    *)
(* place with call c, which holds nothing but what p had or what is on disk *)
(***************************************************************************)
Holding == {"landed", "rotate", "me", "answered", "revoke"}

Moves(p, place, c) ==
  pc' = [pc EXCEPT ![p] = place] /\ call' = [call EXCEPT ![p] = c]

Plain(p) ==
  /\ \E place \in (Places \ Holding) \cup {"revoke"}, c \in Calls :
       /\ Moves(p, place, c) /\ (place = "revoke" => c.token \in issued)
       /\ c.token \in {NoToken, call[p].token, file.token}
       /\ c.reply \in {NoToken, call[p].reply}
  /\ UNCHANGED <<file, fams, legacy, issued, used, due, reused, signedOut>>
  /\ lock' \in Procs \cup {Nobody} /\ lockOld' \in BOOLEAN /\ revoked' \subseteq Families
  /\ faults' \in 0..MaxFaults /\ lost' \in BOOLEAN /\ robbed' \in BOOLEAN
  /\ (lost => lost') /\ (robbed => robbed')
  /\ Successor(p, file.token) => lost'

LEMMA NoCallIsACall ==
  NoCall \in Calls /\ \A job \in Jobs, force \in BOOLEAN, t \in Tokens \cup {NoToken} :
    [NoCall EXCEPT !.job = job, !.force = force, !.token = t] \in Calls
BY DEF NoCall, Calls, Jobs, Outcomes

(* A call that ends holds nothing. *)
LEMMA ReturnMoves ==
  ASSUME NEW p \in Procs, NEW c \in Calls, NEW outcome, Return(p, c, outcome)
  PROVE  \E place \in Places \ Holding, d \in Calls :
           Moves(p, place, d) /\ d.token = NoToken /\ d.reply = NoToken
<1>1. CASE Leave(p)
  <2>1. Moves(p, "idle", NoCall)
    BY <1>1 DEF Leave, Goto, Moves
  <2> QED BY <2>1, NoCallIsACall DEF NoCall, Places, Holding
<1>2. CASE /\ Goto(p, "require")
           /\ call' = [call EXCEPT ![p] = [NoCall EXCEPT !.job = "fetch", !.force = c.force]]
  <2> DEFINE d == [NoCall EXCEPT !.job = "fetch", !.force = c.force]
  <2>1. Moves(p, "require", d)
    BY <1>2 DEF Goto, Moves
  <2>2. d \in Calls /\ d.token = NoToken /\ d.reply = NoToken
    BY DEF NoCall, Calls, Jobs, Outcomes
  <2> QED BY <2>1, <2>2 DEF Places, Holding
<1> QED BY <1>1, <1>2 DEF Return

(* So is what refreshSession does before the lock: it waits, or returns. *)
LEMMA RefreshMoves ==
  ASSUME NEW p \in Procs, NEW c \in Calls, RefreshSession(p, c)
  PROVE  \E place \in Places \ Holding, d \in Calls :
           /\ Moves(p, place, d)
           /\ d.token \in {NoToken, c.token} /\ d.reply \in {NoToken, c.reply}
<1>1. ASSUME NEW outcome, Return(p, c, outcome)
      PROVE  \E place \in Places \ Holding, d \in Calls :
               /\ Moves(p, place, d)
               /\ d.token \in {NoToken, c.token} /\ d.reply \in {NoToken, c.reply}
  BY <1>1, ReturnMoves
<1>2. ASSUME Goto(p, "lock"),
             call' = [call EXCEPT ![p] = [c EXCEPT !.rotates = Rotates(file.token)]]
      PROVE  \E place \in Places \ Holding, d \in Calls :
               /\ Moves(p, place, d)
               /\ d.token \in {NoToken, c.token} /\ d.reply \in {NoToken, c.reply}
  <2> DEFINE d == [c EXCEPT !.rotates = Rotates(file.token)]
  <2>1. Moves(p, "lock", d)
    BY <1>2 DEF Goto, Moves
  <2>2. Rotates(file.token) \in BOOLEAN
    BY DEF Rotates
  <2>3. d \in Calls /\ d.token = c.token /\ d.reply = c.reply
    BY <2>2 DEF Calls
  <2> QED BY <2>1, <2>3 DEF Places, Holding
<1> QED BY <1>1, <1>2 DEF RefreshSession

LEMMA FinishMoves ==
  ASSUME NEW p \in Procs, call \in [Procs -> Calls], NEW outcome \in Outcomes,
         Finish(p, outcome)
  PROVE  \E d \in Calls : Moves(p, "unlock", d) /\ d.token = NoToken /\ d.reply = NoToken
<1> DEFINE d == [call[p] EXCEPT !.outcome = outcome, !.token = NoToken, !.reply = NoToken]
<1>1. d \in Calls /\ d.token = NoToken /\ d.reply = NoToken
  BY DEF Calls
<1>2. Moves(p, "unlock", d)
  BY DEF Finish, Goto, Moves, Calls
<1> QED BY <1>1, <1>2

LEMMA PlainSteps ==
  ASSUME TypeInv, NEW p \in Procs,
         \/ Monitor(p) \/ Fetch(p) \/ SignOut(p) \/ Open(p) \/ Stat(p) \/ Steal(p)
         \/ TimeOut(p) \/ Unlock(p) \/ Revoke(p) \/ RequestFails(p) \/ LoseAnswer(p)
         \/ Require(p) \/ Send(p) \/ Forced(p) \/ Crash(p)
         \/ ReadToSignOut(p)
  PROVE  Plain(p)
<1> DEFINE Ends == \E place \in Places \ Holding, c \in Calls :
                     Moves(p, place, c) /\ c.token = NoToken /\ c.reply = NoToken
           Same == UNCHANGED <<file, fams, legacy, issued, used, due, reused, signedOut>>
           Bounds == /\ lock' \in Procs \cup {Nobody} /\ lockOld' \in BOOLEAN
                     /\ revoked' \subseteq Families /\ faults' \in 0..MaxFaults
                     /\ lost' \in BOOLEAN /\ robbed' \in BOOLEAN
                     /\ (lost => lost') /\ (robbed => robbed')
<1>1. /\ call \in [Procs -> Calls] /\ pc \in [Procs -> Places]
      /\ call[p] \in Calls /\ pc[p] \in Places
      /\ lock \in Procs \cup {Nobody} /\ lockOld \in BOOLEAN /\ revoked \subseteq Families
      /\ faults \in 0..MaxFaults /\ lost \in BOOLEAN /\ robbed \in BOOLEAN
  BY DEF TypeInv, TypeOK
<1>2. ASSUME UNCHANGED <<file, server, history>>, lock' \in Procs \cup {Nobody},
             lockOld' \in BOOLEAN
      PROVE  Same /\ Bounds
  BY <1>1, <1>2 DEF server, history
<1>3. ASSUME Ends, Same, Bounds, pc[p] # "answered"
      PROVE  Plain(p)
  BY <1>3 DEF Plain, Successor, Holding
<1>4. ASSUME pc[p] # "answered", NEW place \in Places \ Holding, pc' = [pc EXCEPT ![p] = place],
             UNCHANGED call, Same, Bounds
      PROVE  Plain(p)
  <2>1. Moves(p, place, call[p])
    BY <1>1, <1>4 DEF Moves
  <2> QED BY <1>1, <1>4, <2>1 DEF Plain, Successor, Holding
<1>5. CASE Monitor(p)
  <2> DEFINE c == [NoCall EXCEPT !.job = "monitor"]
  <2>1. c \in Calls /\ c.token = NoToken /\ c.reply = NoToken
    BY DEF NoCall, Calls, Jobs, Outcomes
  <2>2. RefreshSession(p, c)
    BY <1>5 DEF Monitor
  <2>3. Ends
    <3> HIDE DEF c
    <3> QED BY <2>1, <2>2, RefreshMoves
  <2> QED BY <1>1, <1>2, <1>3, <1>5, <2>3 DEF Monitor
<1>6. CASE Fetch(p)
  <2> DEFINE c == [NoCall EXCEPT !.job = "fetch"]
             d == [call[p] EXCEPT !.job = "fetch"]
  <2>1. c \in Calls /\ c.token = NoToken /\ c.reply = NoToken
    BY DEF NoCall, Calls, Jobs, Outcomes
  <2>2. Same /\ Bounds /\ pc[p] # "answered"
    BY <1>1, <1>2, <1>6 DEF Fetch
  <2>3. CASE RefreshSession(p, c)
    <3>1. Ends
      <4> HIDE DEF c
      <4> QED BY <2>1, <2>3, RefreshMoves
    <3> QED BY <1>3, <2>2, <3>1
  <2>4. CASE Begin(p, "fetch", "require")
    <3>1. d \in Calls /\ d.token = call[p].token /\ d.reply = call[p].reply
      BY <1>1 DEF Calls, Jobs
    <3>2. Moves(p, "require", d)
      BY <2>4 DEF Begin, Goto, Moves
    <3> QED BY <2>2, <3>1, <3>2 DEF Plain, Successor, Places, Holding
  <2> QED BY <1>6, <2>3, <2>4 DEF Fetch
<1>7. CASE SignOut(p)
  <2> DEFINE d == [call[p] EXCEPT !.job = "logout"]
  <2>1. d \in Calls /\ d.token = call[p].token /\ d.reply = call[p].reply
    BY <1>1 DEF Calls, Jobs
  <2>2. Moves(p, "lock", d)
    BY <1>7 DEF SignOut, Begin, Goto, Moves
  <2>3. Same /\ Bounds /\ pc[p] # "answered"
    BY <1>1, <1>2, <1>7 DEF SignOut
  <2> QED BY <2>1, <2>2, <2>3 DEF Plain, Successor, Places, Holding
<1>8. CASE Open(p)
  <2>1. Same /\ Bounds /\ pc[p] # "answered"
    BY <1>1, <1>8 DEF Open, server, history
  <2> QED BY <1>4, <1>8, <2>1 DEF Open, Goto, Places, Inside, Holding
<1>9. CASE Stat(p)
  <2>1. Same /\ Bounds /\ pc[p] # "answered"
    BY <1>1, <1>2, <1>9 DEF Stat
  <2> QED BY <1>4, <1>9, <2>1 DEF Stat, Goto, Places, Holding
<1>10. CASE Steal(p)
  <2>1. Same /\ Bounds /\ pc[p] # "answered"
    BY <1>1, <1>10 DEF Steal, server
  <2>2. CASE Goto(p, "lock") /\ UNCHANGED call
    BY <1>4, <2>1, <2>2 DEF Goto, Places, Holding
  <2>3. CASE Return(p, call[p], "thrown")
    BY <1>1, <1>3, <2>1, <2>3, ReturnMoves
  <2> QED BY <1>10, <2>2, <2>3 DEF Steal
<1>11. CASE TimeOut(p)
  BY <1>1, <1>2, <1>3, <1>11, ReturnMoves DEF TimeOut
<1>12. CASE Unlock(p)
  <2>1. Same /\ Bounds /\ pc[p] # "answered"
    BY <1>1, <1>12 DEF Unlock, server
  <2> QED BY <1>1, <1>3, <1>12, <2>1, ReturnMoves DEF Unlock
<1>13. CASE Revoke(p)
  <2>1. call[p].token \in Tokens
    BY <1>13 DEF TypeInv, TypeOK, HandsOK, Revoke
  <2>2. Same /\ Bounds /\ pc[p] # "answered"
    BY <1>1, <1>13, <2>1 DEF Revoke, history, Tokens
  <2> QED BY <1>4, <1>13, <2>2 DEF Revoke, Goto, Places, Inside, Holding
<1>14. CASE RequestFails(p)
  <2>1. Same /\ Bounds /\ pc[p] # "answered"
    BY <1>1, <1>2, <1>14 DEF RequestFails
  <2>2. CASE Finish(p, "thrown")
    BY <1>1, <1>3, <2>1, <2>2, FinishMoves DEF Outcomes, Places, Inside, Holding
  <2>3. CASE Goto(p, "clear") /\ UNCHANGED call
    BY <1>4, <2>1, <2>3 DEF Goto, Places, Inside, Holding
  <2> QED BY <1>14, <2>2, <2>3 DEF RequestFails
<1>15. CASE LoseAnswer(p)
  <2>1. Same /\ Bounds
    <3>1. faults' \in 0..MaxFaults
      BY <1>1, <1>15, BoundsAssumption DEF LoseAnswer
    <3> QED BY <1>1, <1>15, <3>1 DEF LoseAnswer, server
  <2>2. Ends
    BY <1>1, <1>15, FinishMoves DEF LoseAnswer, Outcomes, Places, Inside, Holding
  <2>3. Successor(p, file.token) => lost'
    BY <1>15 DEF LoseAnswer, Successor
  <2> QED BY <2>1, <2>2, <2>3 DEF Plain, Holding
<1>16. CASE Require(p)
  <2>1. Same /\ Bounds /\ pc[p] # "answered"
    BY <1>1, <1>2, <1>16 DEF Require
  <2>2. CASE Leave(p)
    <3>1. Moves(p, "idle", NoCall)
      BY <2>2 DEF Leave, Goto, Moves
    <3>2. Ends
      BY <3>1, NoCallIsACall DEF NoCall, Places, Holding
    <3> QED BY <1>3, <2>1, <3>2
  <2>3. CASE file.state = "active" /\ call' = [call EXCEPT ![p].token = file.token] /\ Goto(p, "send")
    <3> DEFINE d == [call[p] EXCEPT !.token = file.token]
    <3>1. file.token \in Tokens \cup {NoToken}
      BY DEF TypeInv, HandsOK, TypeOK, Known
    <3>2. d \in Calls /\ d.token = file.token /\ d.reply = call[p].reply
      BY <1>1, <3>1 DEF Calls
    <3>3. Moves(p, "send", d)
      BY <2>3 DEF Goto, Moves
    <3> QED BY <2>1, <3>2, <3>3 DEF Plain, Successor, Places, Holding
  <2> QED BY <1>16, <2>2, <2>3 DEF Require
<1>17. CASE Send(p)
  <2>1. Same /\ Bounds /\ pc[p] # "answered"
    BY <1>1, <1>2, <1>17 DEF Send
  <2>2. CASE Leave(p)
    <3>1. Moves(p, "idle", NoCall)
      BY <2>2 DEF Leave, Goto, Moves
    <3>2. Ends
      BY <3>1, NoCallIsACall DEF NoCall, Places, Holding
    <3> QED BY <1>3, <2>1, <3>2
  <2>3. CASE call' = [call EXCEPT ![p].force = TRUE, ![p].token = NoToken] /\ Goto(p, "forced")
    <3> DEFINE d == [call[p] EXCEPT !.force = TRUE, !.token = NoToken]
    <3>1. d \in Calls /\ d.token = NoToken /\ d.reply = call[p].reply
      BY <1>1 DEF Calls
    <3>2. Moves(p, "forced", d)
      BY <1>1, <2>3 DEF Goto, Moves, Calls
    <3> QED BY <2>1, <3>1, <3>2 DEF Plain, Successor, Places, Holding
  <2>4. CASE Goto(p, "mark") /\ UNCHANGED call
    BY <1>4, <2>1, <2>4 DEF Goto, Places, Holding
  <2> QED BY <1>17, <2>2, <2>3, <2>4 DEF Send
<1>18. CASE Forced(p)
  <2>1. Same /\ Bounds /\ pc[p] # "answered"
    BY <1>1, <1>2, <1>18 DEF Forced
  <2>2. \E place \in Places \ Holding, d \in Calls :
          /\ Moves(p, place, d)
          /\ d.token \in {NoToken, call[p].token} /\ d.reply \in {NoToken, call[p].reply}
    BY <1>1, <1>18, RefreshMoves DEF Forced
  <2> QED BY <2>1, <2>2 DEF Plain, Successor, Holding
<1>19. CASE Crash(p)
  <2>1. Same /\ Bounds
    <3>1. faults' \in 0..MaxFaults
      BY <1>1, <1>19, BoundsAssumption DEF Crash
    <3> QED BY <1>1, <1>19, <3>1 DEF Crash, server
  <2>2. Moves(p, "idle", NoCall)
    BY <1>19 DEF Crash, Leave, Goto, Moves
  <2>3. Ends
    BY <2>2, NoCallIsACall DEF NoCall, Places, Holding
  <2>4. Successor(p, file.token) => lost'
    BY <1>19 DEF Crash, Successor
  <2> QED BY <2>1, <2>3, <2>4 DEF Plain, Holding
<1>20. CASE ReadToSignOut(p)
  <2> DEFINE d == [call[p] EXCEPT !.token = file.token]
             place == IF file.token = NoToken THEN "clear" ELSE "revoke"
  <2>1. Same /\ Bounds /\ pc[p] # "answered"
    BY <1>1, <1>2, <1>20 DEF ReadToSignOut
  <2>2. file.token \in Tokens \cup {NoToken} /\ (place = "revoke" => file.token \in issued)
    BY DEF TypeInv, HandsOK, TypeOK, Known
  <2>3. d \in Calls /\ d.token = file.token /\ d.reply = call[p].reply
    BY <1>1, <2>2 DEF Calls
  <2>4. Moves(p, place, d)
    BY <1>20 DEF ReadToSignOut, Goto, Moves
  <2> QED BY <2>1, <2>2, <2>3, <2>4 DEF Plain, Successor, Places, Inside, Holding
<1> QED
  BY <1>5, <1>6, <1>7, <1>8, <1>9, <1>10, <1>11, <1>12, <1>13, <1>14, <1>15, <1>16,
     <1>17, <1>18, <1>19, <1>20

(* A plain step keeps everything that is said of tokens. *)
LEMMA PlainKeeps ==
  ASSUME TokenInv, NEW p \in Procs, Plain(p), LockInv'
  PROVE  TokenInv'
<1>1. PICK place \in (Places \ Holding) \cup {"revoke"}, c \in Calls :
        /\ Moves(p, place, c) /\ (place = "revoke" => c.token \in issued)
        /\ c.token \in {NoToken, call[p].token, file.token}
        /\ c.reply \in {NoToken, call[p].reply}
  BY DEF Plain
<1>2. UNCHANGED <<file, fams, legacy, issued, used, due, reused, signedOut>>
  BY DEF Plain
<1>3. TypeOK /\ HandsOK
  BY DEF TokenInv, TypeInv
<1>4. /\ pc' = [pc EXCEPT ![p] = place] /\ call' = [call EXCEPT ![p] = c]
      /\ \A q \in Procs : /\ q # p => pc'[q] = pc[q] /\ call'[q] = call[q]
                          /\ q = p => pc'[q] = place /\ call'[q] = c
  BY <1>1, <1>3 DEF Moves, TypeOK
<1>5. TypeOK'
  BY <1>1, <1>2, <1>3, <1>4 DEF TypeOK, Plain, Places, Inside
<1>6. HandsOK'
  BY <1>1, <1>2, <1>3, <1>4 DEF HandsOK, Known, Holding
<1>7. Landing'
  <2> SUFFICES ASSUME NEW q \in Procs, pc'[q] = "landed"
               PROVE  LET f == call'[q].token.fam
                      IN  /\ f \notin signedOut' /\ f # file'.token.fam
                          /\ \A t \in used' : t.fam # f
                          /\ \A r \in Procs \ {q} : call'[r].token.fam # f /\ call'[r].reply.fam # f
    BY DEF Landing
  <2>1. q # p /\ pc[q] = "landed" /\ call'[q] = call[q]
    BY <1>1, <1>4 DEF Holding
  <2> DEFINE f == call[q].token.fam
  <2>2. /\ f \notin signedOut /\ f # file.token.fam /\ \A t \in used : t.fam # f
        /\ \A r \in Procs \ {q} : call[r].token.fam # f /\ call[r].reply.fam # f
    BY <2>1 DEF TokenInv, Landing
  <2>3. f # NoToken.fam
    BY <1>3, <2>1 DEF HandsOK, NoToken
  <2>4. ASSUME NEW r \in Procs \ {q}
        PROVE  call'[r].token.fam # f /\ call'[r].reply.fam # f
    BY <1>1, <1>4, <2>1, <2>2, <2>3, <2>4
  <2> QED BY <1>2, <2>1, <2>2, <2>4
<1>8. Chain'
  BY <1>1, <1>2, <1>4 DEF TokenInv, Chain, Holding
<1>9. Unspent'
  <2> SUFFICES ASSUME ~lost', ~robbed'
               PROVE  /\ ~reused'
                      /\ \A q \in Procs :
                           /\ pc'[q] = "rotate" => call'[q].token \notin used'
                           /\ pc'[q] = "answered" => call'[q].reply \notin used'
                      /\ file'.token \in used' => \E q \in Procs : Successor(q, file.token)'
    BY <1>2 DEF Unspent
  <2>1. ~lost /\ ~robbed /\ ~Successor(p, file.token)
    BY DEF Plain
  <2>2. /\ ~reused
        /\ \A q \in Procs : /\ pc[q] = "rotate" => call[q].token \notin used
                            /\ pc[q] = "answered" => call[q].reply \notin used
        /\ file.token \in used => \E q \in Procs : Successor(q, file.token)
    BY <2>1 DEF TokenInv, Unspent
  <2>3. ASSUME NEW q \in Procs, Successor(q, file.token)
        PROVE  Successor(q, file.token)'
    BY <1>2, <1>4, <2>1, <2>3 DEF Successor
  <2> QED BY <1>1, <1>2, <1>4, <2>2, <2>3 DEF Holding
<1>10. Ended'
  BY <1>1, <1>2, <1>4 DEF TokenInv, Ended, Holding, Plain
<1> QED BY <1>5, <1>6, <1>7, <1>8, <1>9, <1>10 DEF TokenInv, TypeInv

(* Nothing is said of what a revocation, a clock or a sleeping holder change. *)
LEMMA OthersKeep ==
  ASSUME TokenInv, LockInv', TypeOK',
         UNCHANGED <<file, fams, legacy, issued, used, pc, call, lost, robbed, reused, signedOut>>
  PROVE  TokenInv'
<1>1. HandsOK'
  BY DEF TokenInv, TypeInv, HandsOK, Known
<1>2. Landing' /\ Chain'
  BY DEF TokenInv, Landing, Chain
<1>3. Unspent'
  BY DEF TokenInv, Unspent, Successor
<1>4. Ended'
  BY DEF TokenInv, Ended
<1> QED BY <1>1, <1>2, <1>3, <1>4 DEF TokenInv, TypeInv

(* Before a lock was unlinked under its holder, whoever is inside is alone. *)
LEMMA InsideAlone ==
  ASSUME LockInv, ~robbed, NEW p \in Procs, pc[p] \in Inside, NEW q \in Procs, pc[q] \in Inside
  PROVE  q = p
BY DEF LockInv, Held

LEMMA NoTokenIsNone ==
  /\ NoToken \notin Tokens /\ NoToken.fam = 0 /\ 0 \notin Families
  /\ \A fam \in Nat : 0 \notin 1..fam
BY BoundsAssumption DEF NoToken, Tokens, Families

LEMMA SignInKeeps ==
  ASSUME TokenInv, NEW p \in Procs, SignIn(p), LockInv'
  PROVE  TokenInv'
<1> DEFINE t == [fam |-> fams + 1, n |-> 0]
           c == [NoCall EXCEPT !.job = "login", !.token = t]
<1>1. TypeOK /\ HandsOK /\ fams \in Nat /\ fams < MaxLogins
  BY DEF TokenInv, TypeInv, TypeOK, SignIn
<1>2. /\ t \in Tokens /\ c \in Calls /\ c.token = t /\ c.reply = NoToken
      /\ t.fam = fams + 1 /\ t.n = 0
  <2>1. t \in Tokens /\ t.fam = fams + 1 /\ t.n = 0
    BY <1>1, BoundsAssumption DEF Tokens, Families
  <2>2. c \in Calls /\ c.token = t /\ c.reply = NoToken
    BY <2>1 DEF NoCall, Calls, Jobs, Outcomes
  <2> QED BY <2>1, <2>2
<1> HIDE DEF c, t
<1>3. /\ pc' = [pc EXCEPT ![p] = "landed"] /\ call' = [call EXCEPT ![p] = c]
      /\ \A q \in Procs : /\ q # p => pc'[q] = pc[q] /\ call'[q] = call[q]
                          /\ q = p => pc'[q] = "landed" /\ call'[q] = c
  BY <1>1 DEF SignIn, Goto, TypeOK, c, t
<1>4. /\ fams' = fams + 1 /\ issued' = issued \cup {t} /\ UNCHANGED <<file, used, revoked>>
      /\ UNCHANGED <<lock, lockOld, faults, lost, robbed, reused, signedOut>>
      /\ \/ UNCHANGED <<legacy, due>>
         \/ legacy' = legacy \cup {fams + 1} /\ due' = due \cup {t}
  BY <1>2 DEF SignIn, history, t
<1>5. TypeOK'
  <2>1. fams' \in 0..MaxLogins /\ legacy' \subseteq Families
    <3>1. fams + 1 \in 1..MaxLogins /\ fams + 1 \in 0..MaxLogins
      BY <1>1, BoundsAssumption
    <3>2. legacy \subseteq 1..MaxLogins
      BY <1>1 DEF TypeOK, Families
    <3> QED BY <1>4, <3>1, <3>2 DEF Families
  <2>2. issued' \subseteq Tokens /\ used' \subseteq issued' /\ due' \subseteq issued'
    BY <1>1, <1>2, <1>4 DEF TypeOK
  <2>3. pc' \in [Procs -> Places] /\ call' \in [Procs -> Calls]
    BY <1>1, <1>2, <1>3 DEF TypeOK, Places
  <2> QED BY <1>1, <1>4, <2>1, <2>2, <2>3 DEF TypeOK
<1>6. /\ \A s \in issued : s.fam \in 1..fams
      /\ \A s \in issued \cup {NoToken} : s.fam # fams + 1
      /\ \A q \in Procs : /\ call[q].token.fam # fams + 1 /\ call[q].reply.fam # fams + 1
                          /\ pc[q] \in {"landed", "rotate", "me"} => call[q].token.fam \in 1..fams
      /\ file.token.fam # fams + 1 /\ fams + 1 \notin signedOut
      /\ \A s \in used : s.fam # fams + 1
  BY <1>1, NoTokenIsNone DEF HandsOK, Known, TypeOK
<1>7. HandsOK'
  <2>1. \A s \in issued' : s.fam \in 1..fams'
    BY <1>1, <1>2, <1>4, <1>6
  <2>2. legacy' \subseteq 1..fams' /\ signedOut' \subseteq 1..fams'
    BY <1>1, <1>4 DEF HandsOK
  <2>3. \A q \in Procs :
          /\ Known(call[q].token)' /\ Known(call[q].reply)'
          /\ pc'[q] \in {"landed", "rotate", "me", "revoke"} => call'[q].token \in issued'
    BY <1>1, <1>2, <1>3, <1>4 DEF HandsOK, Known
  <2> QED BY <1>1, <1>4, <2>1, <2>2, <2>3 DEF HandsOK, Known
<1>8. Landing'
  <2> SUFFICES ASSUME NEW q \in Procs, pc'[q] = "landed"
               PROVE  LET f == call'[q].token.fam
                      IN  /\ f \notin signedOut' /\ f # file'.token.fam
                          /\ \A s \in used' : s.fam # f
                          /\ \A r \in Procs \ {q} : call'[r].token.fam # f /\ call'[r].reply.fam # f
    BY DEF Landing
  <2>1. CASE q = p
    BY <1>2, <1>3, <1>4, <1>6, <2>1
  <2>2. CASE q # p
    <3>1. pc[q] = "landed" /\ call'[q] = call[q] /\ call[q].token.fam \in 1..fams
      BY <1>3, <1>6, <2>2
    <3>2. c.token.fam # call[q].token.fam /\ c.reply.fam # call[q].token.fam
      BY <1>1, <1>2, <3>1, NoTokenIsNone
    <3> QED BY <1>3, <1>4, <2>2, <3>1, <3>2 DEF TokenInv, Landing
  <2> QED BY <2>1, <2>2
<1>9. Chain'
  <2>1. \A s \in Tokens : [s EXCEPT !.n = @ + 1] # t
    BY <1>2 DEF Tokens
  <2>2. \A s \in used : s.fam \notin legacy'
    BY <1>4, <1>6 DEF TokenInv, Chain
  <2>3. \A q \in Procs : /\ pc'[q] = "rotate" => call'[q].token.fam \notin legacy'
                         /\ pc'[q] = "me" => call'[q].token.fam \in legacy'
    BY <1>3, <1>4, <1>6 DEF TokenInv, Chain
  <2> QED BY <1>4, <2>1, <2>2, <2>3 DEF TokenInv, Chain
<1>10. Unspent'
  <2>1. ASSUME NEW q \in Procs, Successor(q, file.token)
        PROVE  Successor(q, file.token)'
    <3>1. q # p
      BY <2>1 DEF SignIn, Successor
    <3> QED BY <1>3, <1>4, <2>1, <3>1 DEF Successor
  <2> QED BY <1>3, <1>4, <2>1 DEF TokenInv, Unspent
<1>11. Ended'
  BY <1>3, <1>4 DEF TokenInv, Ended
<1> QED BY <1>5, <1>7, <1>8, <1>9, <1>10, <1>11 DEF TokenInv, TypeInv

(* Process p leaves its place and forgets its tokens, and disk gets token t: *)
(* none, or one that nobody else holds and that is neither spent nor of a    *)
(* sign-in that is over                                                      *)
Stores(p, t) ==
  /\ \E place \in Places \ Holding, c \in Calls :
       Moves(p, place, c) /\ c.token = NoToken /\ c.reply = NoToken
  /\ t \in {call[p].token, call[p].reply, NoToken}
  /\ file' \in Files /\ file'.token = t /\ due' \subseteq due
  /\ UNCHANGED <<lockOld, lock, fams, legacy, issued, used, revoked, faults, lost, robbed, reused>>

LEMMA StoresKeeps ==
  ASSUME TokenInv, NEW p \in Procs, NEW t, Stores(p, t), LockInv',
         signedOut' \subseteq 1..fams,
         \A q \in Procs \ {p} : pc[q] = "landed" => call[q].token.fam \notin signedOut',
         ~lost /\ ~robbed => t \notin used,
         ~robbed => t.fam \notin signedOut',
         ~robbed => \A q \in Procs \ {p} :
                      /\ pc[q] \in {"rotate", "me"} => call[q].token.fam \notin signedOut'
                      /\ pc[q] = "answered" => call[q].reply.fam \notin signedOut'
  PROVE  TokenInv'
<1>1. PICK place \in Places \ Holding, c \in Calls :
        Moves(p, place, c) /\ c.token = NoToken /\ c.reply = NoToken
  BY DEF Stores
<1>2. TypeOK /\ HandsOK
  BY DEF TokenInv, TypeInv
<1>3. /\ pc' = [pc EXCEPT ![p] = place] /\ call' = [call EXCEPT ![p] = c]
      /\ \A q \in Procs : /\ q # p => pc'[q] = pc[q] /\ call'[q] = call[q]
                          /\ q = p => pc'[q] = place /\ call'[q] = c
  BY <1>1, <1>2 DEF Moves, TypeOK
<1>4. /\ UNCHANGED <<lockOld, lock, fams, legacy, issued, used, revoked, faults, lost, robbed, reused>>
      /\ file' \in Files /\ file'.token = t /\ due' \subseteq due
      /\ t \in {call[p].token, call[p].reply, NoToken}
  BY DEF Stores
<1>5. TypeOK'
  <2>1. signedOut' \subseteq Families
    <3>1. fams \in 0..MaxLogins
      BY <1>2 DEF TypeOK
    <3>2. \A f \in 1..fams : f \in 1..MaxLogins
      BY <3>1, BoundsAssumption
    <3> QED BY <3>2 DEF Families
  <2> QED BY <1>1, <1>2, <1>3, <1>4, <2>1 DEF TypeOK
<1>6. HandsOK'
  BY <1>1, <1>2, <1>3, <1>4 DEF HandsOK, Known, Holding
<1>7. Landing'
  <2> SUFFICES ASSUME NEW q \in Procs, pc'[q] = "landed"
               PROVE  LET f == call'[q].token.fam
                      IN  /\ f \notin signedOut' /\ f # file'.token.fam
                          /\ \A s \in used' : s.fam # f
                          /\ \A r \in Procs \ {q} : call'[r].token.fam # f /\ call'[r].reply.fam # f
    BY DEF Landing
  <2>1. q # p /\ pc[q] = "landed" /\ call'[q] = call[q]
    BY <1>1, <1>3 DEF Holding
  <2> DEFINE f == call[q].token.fam
  <2>2. /\ f \notin signedOut' /\ \A s \in used : s.fam # f
        /\ \A r \in Procs \ {q} : call[r].token.fam # f /\ call[r].reply.fam # f
    BY <2>1 DEF TokenInv, Landing
  <2>3. f # NoToken.fam
    BY <1>2, <2>1, NoTokenIsNone DEF HandsOK, TypeOK
  <2>4. f # t.fam
    BY <1>4, <2>1, <2>2, <2>3
  <2>5. ASSUME NEW r \in Procs \ {q}
        PROVE  call'[r].token.fam # f /\ call'[r].reply.fam # f
    BY <1>1, <1>3, <2>1, <2>2, <2>3, <2>5
  <2> QED BY <1>4, <2>1, <2>2, <2>4, <2>5
<1>8. Chain'
  BY <1>1, <1>3, <1>4 DEF TokenInv, Chain, Holding
<1>9. Unspent'
  BY <1>1, <1>3, <1>4 DEF TokenInv, Unspent, Holding
<1>10. Ended'
  BY <1>1, <1>3, <1>4 DEF Ended, Holding
<1> QED BY <1>5, <1>6, <1>7, <1>8, <1>9, <1>10 DEF TokenInv, TypeInv

LEMMA LandKeeps ==
  ASSUME TokenInv, NEW p \in Procs, Land(p), LockInv'
  PROVE  TokenInv'
<1> DEFINE t == call[p].token
<1>1. t \in issued /\ t \in Tokens
  BY DEF TokenInv, TypeInv, TypeOK, HandsOK, Land
<1>2. Stores(p, t)
  <2>1. Moves(p, "idle", NoCall)
    BY DEF Land, Leave, Goto, Moves
  <2>2. file' \in Files /\ file'.token = t
    BY <1>1 DEF Land, Active, Files
  <2> QED BY <2>1, <2>2, NoCallIsACall DEF Stores, Land, server, history, NoCall, Places, Holding
<1>3. signedOut' = signedOut
  BY DEF Land, history
<1>4. t.fam \notin signedOut /\ t \notin used
  BY DEF TokenInv, Landing, Land
<1>5. signedOut \subseteq 1..fams
  BY DEF TokenInv, TypeInv, HandsOK
<1>6. \A q \in Procs : pc[q] = "landed" => call[q].token.fam \notin signedOut
  BY DEF TokenInv, Landing
<1>7. ~robbed => \A q \in Procs :
                   /\ pc[q] \in {"rotate", "me"} => call[q].token.fam \notin signedOut
                   /\ pc[q] = "answered" => call[q].reply.fam \notin signedOut
  BY DEF TokenInv, Ended
<1> HIDE DEF t
<1> QED BY <1>2, <1>3, <1>4, <1>5, <1>6, <1>7, StoresKeeps

LEMMA MarkKeeps ==
  ASSUME TokenInv, NEW p \in Procs, Mark(p), LockInv'
  PROVE  TokenInv'
<1>1. Stores(p, NoToken)
  <2>1. Moves(p, "idle", NoCall)
    BY DEF Mark, Leave, Goto, Moves
  <2>2. file' \in Files /\ file'.token = NoToken
    BY DEF Mark, Expired, Files
  <2> QED BY <2>1, <2>2, NoCallIsACall DEF Stores, Mark, server, history, NoCall, Places, Holding
<1>2. signedOut' = signedOut
  BY DEF Mark, history
<1>3. signedOut \subseteq 1..fams /\ fams \in Nat /\ used \subseteq Tokens
  BY BoundsAssumption DEF TokenInv, TypeInv, HandsOK, TypeOK
<1>4. NoToken.fam \notin signedOut /\ NoToken \notin used
  BY <1>3, NoTokenIsNone
<1>5. \A q \in Procs : pc[q] = "landed" => call[q].token.fam \notin signedOut
  BY DEF TokenInv, Landing
<1>6. ~robbed => \A q \in Procs :
                   /\ pc[q] \in {"rotate", "me"} => call[q].token.fam \notin signedOut
                   /\ pc[q] = "answered" => call[q].reply.fam \notin signedOut
  BY DEF TokenInv, Ended
<1> QED BY <1>1, <1>2, <1>3, <1>4, <1>5, <1>6, StoresKeeps

(* Whoever answers is alone inside, so no other call is about to store. *)
LEMMA SettleKeeps ==
  ASSUME TokenInv, NEW p \in Procs, Settle(p), LockInv'
  PROVE  TokenInv'
<1> DEFINE t == call[p].reply
           outcome == IF t = NoToken THEN "expired" ELSE "active"
<1>1. /\ t \in issued \cup {NoToken} /\ issued \subseteq Tokens /\ used \subseteq issued
      /\ call \in [Procs -> Calls] /\ signedOut \subseteq 1..fams /\ fams \in Nat
  BY BoundsAssumption DEF TokenInv, TypeInv, TypeOK, HandsOK, Known
<1>2. Stores(p, t)
  <2>1. \E d \in Calls : Moves(p, "unlock", d) /\ d.token = NoToken /\ d.reply = NoToken
    <3>1. Finish(p, outcome) /\ outcome \in Outcomes
      BY DEF Settle, Outcomes
    <3> HIDE DEF outcome
    <3> QED BY <1>1, <3>1, FinishMoves
  <2>2. file' \in Files /\ file'.token = t
    BY <1>1 DEF Settle, Active, Expired, Files
  <2>3. due' \subseteq due
    BY DEF Settle
  <2>4. UNCHANGED <<lockOld, lock, fams, legacy, issued, used, revoked, faults, lost, robbed, reused>>
    BY DEF Settle, history
  <2>5. "unlock" \in Places \ Holding
    BY DEF Places, Inside, Holding
  <2> QED BY <2>1, <2>2, <2>3, <2>4, <2>5 DEF Stores
<1>3. signedOut' = signedOut
  BY DEF Settle, history
<1>4. (~lost /\ ~robbed => t \notin used) /\ (~robbed => t.fam \notin signedOut)
  BY DEF TokenInv, Unspent, Ended, Settle
<1>5. \A q \in Procs : pc[q] = "landed" => call[q].token.fam \notin signedOut
  BY DEF TokenInv, Landing
<1>6. ~robbed => \A q \in Procs :
                   /\ pc[q] \in {"rotate", "me"} => call[q].token.fam \notin signedOut
                   /\ pc[q] = "answered" => call[q].reply.fam \notin signedOut
  BY DEF TokenInv, Ended
<1> HIDE DEF t
<1> QED BY <1>1, <1>2, <1>3, <1>4, <1>5, <1>6, StoresKeeps

(* Nobody else is inside, and who has just signed in has another sign-in's   *)
(* token.                                                                    *)
LEMMA ClearKeeps ==
  ASSUME TokenInv, NEW p \in Procs, Clear(p), LockInv'
  PROVE  TokenInv'
<1> DEFINE fam == call[p].token.fam
<1>1. /\ call[p].token \in issued \cup {NoToken} /\ issued \subseteq Tokens /\ used \subseteq issued
      /\ call \in [Procs -> Calls] /\ signedOut \subseteq 1..fams /\ fams \in Nat
      /\ \A s \in issued : s.fam \in 1..fams
  BY BoundsAssumption DEF TokenInv, TypeInv, TypeOK, HandsOK, Known
<1>2. Stores(p, NoToken)
  <2>1. \E d \in Calls : Moves(p, "unlock", d) /\ d.token = NoToken /\ d.reply = NoToken
    BY <1>1, FinishMoves DEF Clear, Outcomes
  <2>2. file' \in Files /\ file'.token = NoToken
    BY DEF Clear, SignedOut, Files
  <2> QED BY <2>1, <2>2 DEF Stores, Clear, server, Places, Inside, Holding
<1>3. signedOut' = signedOut \cup ({fam} \cap Families)
  BY DEF Clear
<1>4. signedOut' \subseteq 1..fams
  BY <1>1, <1>3, NoTokenIsNone
<1>5. NoToken.fam \notin signedOut' /\ NoToken \notin used
  BY <1>1, <1>4, NoTokenIsNone
<1>6. \A q \in Procs \ {p} : pc[q] = "landed" => call[q].token.fam \notin signedOut'
  BY <1>3 DEF TokenInv, Landing
<1>7. ASSUME ~robbed, NEW q \in Procs \ {p}
      PROVE  pc[q] \notin {"rotate", "me", "answered"}
  <2>1. LockInv /\ pc[p] \in Inside
    BY DEF TokenInv, Clear, Inside
  <2> QED BY <1>7, <2>1, InsideAlone DEF Inside
<1> QED BY <1>2, <1>4, <1>5, <1>6, <1>7, StoresKeeps

(* What is on disk is not spent when it is read: whoever spent it would be   *)
(* inside.                                                                   *)
LEMMA ReadToRefreshKeeps ==
  ASSUME TokenInv, NEW p \in Procs, ReadToRefresh(p), LockInv'
  PROVE  TokenInv'
<1> DEFINE t == file.token
           Same == UNCHANGED <<file, fams, legacy, issued, used, due, reused, signedOut, lock,
                               lockOld, revoked, faults, lost, robbed>>
<1>1. TypeOK /\ HandsOK /\ Same /\ pc[p] = "read" /\ call[p] \in Calls /\ call \in [Procs -> Calls]
  BY DEF TokenInv, TypeInv, TypeOK, ReadToRefresh, server, history
<1>2. ASSUME NEW outcome \in Outcomes, Finish(p, outcome)
      PROVE  TokenInv'
  <2>1. \E d \in Calls : Moves(p, "unlock", d) /\ d.token = NoToken /\ d.reply = NoToken
    BY <1>1, <1>2, FinishMoves
  <2>2. Plain(p)
    BY <1>1, <2>1 DEF Plain, Successor, TypeOK, Places, Inside, Holding
  <2> QED BY <2>2, PlainKeeps
<1>3. ASSUME file.state = "active", Rotates(t) <=> call[p].rotates,
             call' = [call EXCEPT ![p].token = t],
             Goto(p, IF Rotates(t) THEN "rotate" ELSE "me")
      PROVE  TokenInv'
  <2> DEFINE place == IF Rotates(t) THEN "rotate" ELSE "me"
             c == [call[p] EXCEPT !.token = t]
  <2>1. t \in issued /\ t \in Tokens
    BY <1>1, <1>3, NoTokenIsNone DEF HandsOK, Known, TypeOK, Files, SignedOut, Expired, Active
  <2>2. c \in Calls /\ c.token = t /\ c.reply = call[p].reply
    BY <1>1, <2>1 DEF Calls
  <2>3. place \in {"rotate", "me"} /\ place \in Places
    BY DEF Places, Inside
  <2>4. pc' = [pc EXCEPT ![p] = place] /\ call' = [call EXCEPT ![p] = c]
    BY <1>3 DEF Goto
  <2>5. (place = "rotate" => t.fam \notin legacy) /\ (place = "me" => t.fam \in legacy)
    BY DEF Rotates
  <2> HIDE DEF place, c
  <2>6. \A q \in Procs : /\ q # p => pc'[q] = pc[q] /\ call'[q] = call[q]
                         /\ q = p => pc'[q] = place /\ call'[q] = c
    BY <1>1, <2>4 DEF TypeOK
  <2>7. TypeOK'
    BY <1>1, <2>2, <2>3, <2>4 DEF TypeOK
  <2>8. HandsOK'
    BY <1>1, <2>1, <2>2, <2>3, <2>6 DEF HandsOK, Known
  <2>9. Landing'
    <3>1. \A q \in Procs : pc'[q] = "landed" => q # p
      BY <2>3, <2>6
    <3> QED BY <1>1, <2>2, <2>6, <3>1 DEF TokenInv, Landing
  <2>10. Chain'
    BY <1>1, <2>2, <2>3, <2>5, <2>6 DEF TokenInv, Chain
  <2>11. Unspent'
    <3> SUFFICES ASSUME ~lost, ~robbed
                 PROVE  /\ ~reused'
                        /\ \A q \in Procs :
                             /\ pc'[q] = "rotate" => call'[q].token \notin used'
                             /\ pc'[q] = "answered" => call'[q].reply \notin used'
                        /\ file'.token \in used' => \E q \in Procs : Successor(q, file.token)'
      BY <1>1 DEF Unspent
    <3>1. t \notin used
      <4>1. \A q \in Procs : ~Successor(q, t)
        BY <1>1, InsideAlone DEF TokenInv, Successor, Inside
      <4> QED BY <4>1 DEF TokenInv, Unspent
    <3> QED BY <1>1, <2>2, <2>3, <2>6, <3>1 DEF TokenInv, Unspent
  <2>12. Ended'
    BY <1>1, <2>2, <2>3, <2>6 DEF TokenInv, Ended
  <2> QED BY <2>7, <2>8, <2>9, <2>10, <2>11, <2>12 DEF TokenInv, TypeInv
<1> QED BY <1>2, <1>3 DEF ReadToRefresh, Outcomes

(* Process p has its answer, and the server may have spent its token *)
Answered(p, reply) ==
  /\ Goto(p, "answered") /\ call' = [call EXCEPT ![p].reply = reply]
  /\ UNCHANGED <<file, lock, lockOld, fams, legacy, due, faults, lost, robbed, signedOut>>

LEMMA AnsweredKeeps ==
  ASSUME TokenInv, NEW p \in Procs, NEW reply, Answered(p, reply), LockInv',
         reply \in (issued' \cap Tokens) \cup {NoToken},
         reply # NoToken => reply.fam = call[p].token.fam,
         pc[p] \in {"rotate", "me"}, Chain', TypeOK',
         issued \subseteq issued', \A s \in issued' : s.fam \in 1..fams,
         \A s \in used' : s \in used \/ (s = call[p].token /\ reply \notin {NoToken, s}),
         ~lost /\ ~robbed => ~reused' /\ reply \notin used'
  PROVE  TokenInv'
<1> DEFINE c == [call[p] EXCEPT !.reply = reply]
<1>1. TypeOK /\ HandsOK /\ call \in [Procs -> Calls] /\ call[p] \in Calls /\ fams \in Nat
  BY BoundsAssumption DEF TokenInv, TypeInv, TypeOK
<1>2. c \in Calls /\ c.token = call[p].token /\ c.reply = reply
  BY <1>1 DEF Calls
<1>3. pc' = [pc EXCEPT ![p] = "answered"] /\ call' = [call EXCEPT ![p] = c]
  BY DEF Answered, Goto
<1> HIDE DEF c
<1>4. \A q \in Procs : /\ q # p => pc'[q] = pc[q] /\ call'[q] = call[q]
                       /\ q = p => pc'[q] = "answered" /\ call'[q] = c
  BY <1>1, <1>3 DEF TypeOK
<1>5. UNCHANGED <<file, fams, legacy, lost, robbed, signedOut>>
  BY DEF Answered
<1>6. HandsOK'
  <2>1. \A q \in Procs :
          /\ Known(call[q].token)' /\ Known(call[q].reply)'
          /\ pc'[q] \in {"landed", "rotate", "me", "revoke"} => call'[q].token \in issued'
    BY <1>1, <1>2, <1>4 DEF HandsOK, Known
  <2> QED BY <1>1, <1>5, <2>1 DEF HandsOK, Known
<1>7. Landing'
  <2> SUFFICES ASSUME NEW q \in Procs, pc'[q] = "landed"
               PROVE  LET f == call'[q].token.fam
                      IN  /\ f \notin signedOut' /\ f # file'.token.fam
                          /\ \A s \in used' : s.fam # f
                          /\ \A r \in Procs \ {q} : call'[r].token.fam # f /\ call'[r].reply.fam # f
    BY DEF Landing
  <2>1. q # p /\ pc[q] = "landed" /\ call'[q] = call[q]
    BY <1>4
  <2> DEFINE f == call[q].token.fam
  <2>2. /\ f \notin signedOut /\ f # file.token.fam /\ \A s \in used : s.fam # f
        /\ \A r \in Procs \ {q} : call[r].token.fam # f /\ call[r].reply.fam # f
    BY <2>1 DEF TokenInv, Landing
  <2>3. f # NoToken.fam
    BY <1>1, <2>1, NoTokenIsNone DEF HandsOK, TypeOK
  <2>4. \A s \in used' : s.fam # f
    BY <2>1, <2>2
  <2>5. reply.fam # f
    BY <2>1, <2>2, <2>3
  <2>6. ASSUME NEW r \in Procs \ {q}
        PROVE  call'[r].token.fam # f /\ call'[r].reply.fam # f
    BY <1>2, <1>4, <2>1, <2>2, <2>5, <2>6
  <2> QED BY <1>5, <2>1, <2>2, <2>4, <2>6
<1>8. Unspent'
  <2> SUFFICES ASSUME ~lost, ~robbed
               PROVE  /\ ~reused'
                      /\ \A q \in Procs :
                           /\ pc'[q] = "rotate" => call'[q].token \notin used'
                           /\ pc'[q] = "answered" => call'[q].reply \notin used'
                      /\ file'.token \in used' => \E q \in Procs : Successor(q, file.token)'
    BY <1>5 DEF Unspent
  <2>1. \A q \in Procs \ {p} : pc[q] \notin Inside
    BY InsideAlone DEF TokenInv, Inside
  <2>2. \A q \in Procs : /\ pc'[q] = "rotate" => call'[q].token \notin used'
                         /\ pc'[q] = "answered" => call'[q].reply \notin used'
    BY <1>2, <1>4, <2>1 DEF Inside
  <2>3. file.token \notin used
    BY <2>1 DEF TokenInv, Unspent, Successor, Inside
  <2>4. file'.token \in used' => Successor(p, file.token)'
    BY <1>2, <1>4, <1>5, <2>3 DEF Successor
  <2> QED BY <2>2, <2>4
<1>9. Ended'
  <2>1. ~robbed => reply.fam \notin signedOut
    BY <1>1, NoTokenIsNone DEF TokenInv, Ended, HandsOK
  <2> QED BY <1>2, <1>4, <1>5, <2>1 DEF TokenInv, Ended
<1> QED BY <1>6, <1>7, <1>8, <1>9 DEF TokenInv, TypeInv

LEMMA MeKeeps ==
  ASSUME TokenInv, NEW p \in Procs, Me(p), LockInv'
  PROVE  TokenInv'
<1> DEFINE t == call[p].token
           reply == IF t.fam \in revoked THEN NoToken ELSE t
<1>1. /\ TypeOK /\ HandsOK /\ Chain /\ Unspent /\ t \in issued /\ issued \subseteq Tokens
      /\ used \subseteq issued /\ call \in [Procs -> Calls] /\ pc[p] = "me" /\ t.fam \in legacy
  BY DEF TokenInv, TypeInv, TypeOK, HandsOK, Me, Chain
<1>2. reply \in issued \cup {NoToken} /\ (reply # NoToken => reply = t)
  BY <1>1
<1>3. /\ Answered(p, reply) /\ UNCHANGED <<issued, used, reused, revoked, legacy>>
  BY DEF Answered, Me, server, history
<1> HIDE DEF reply
<1>4. reply \notin used
  BY <1>1, <1>2, NoTokenIsNone DEF Chain
<1>5. pc' = [pc EXCEPT ![p] = "answered"] /\ call' = [call EXCEPT ![p].reply = reply]
  BY <1>3 DEF Answered, Goto
<1>6. TypeOK'
  <2>1. [call[p] EXCEPT !.reply = reply] \in Calls
    BY <1>1, <1>2 DEF Calls
  <2>2. call' \in [Procs -> Calls] /\ pc' \in [Procs -> Places]
    BY <1>1, <1>5, <2>1 DEF TypeOK, Places, Inside
  <2> QED BY <1>1, <1>3, <2>2 DEF TypeOK, Answered
<1>7. Chain'
  <2>1. \A q \in Procs : pc'[q] \in {"rotate", "me"} =>
          pc'[q] = pc[q] /\ call'[q].token = call[q].token
    BY <1>1, <1>5 DEF TypeOK
  <2> QED BY <1>1, <1>3, <2>1 DEF Chain
<1>8. \A s \in issued : s.fam \in 1..fams
  BY <1>1 DEF HandsOK
<1> QED BY <1>1, <1>2, <1>3, <1>4, <1>6, <1>7, <1>8, AnsweredKeeps DEF Unspent

(* A token is spent once: its successor was never handed out before. *)
LEMMA RotateKeeps ==
  ASSUME TokenInv, NEW p \in Procs, Rotate(p), LockInv'
  PROVE  TokenInv'
<1> DEFINE t == call[p].token
           next == [t EXCEPT !.n = @ + 1]
<1>1. /\ TypeOK /\ HandsOK /\ Chain /\ Unspent /\ t \in issued /\ issued \subseteq Tokens
      /\ used \subseteq issued /\ call \in [Procs -> Calls] /\ pc[p] = "rotate"
      /\ t \in Tokens /\ t.fam \notin legacy /\ t.fam \in Families
      /\ \A s \in issued : s.fam \in 1..fams
  BY DEF TokenInv, TypeInv, TypeOK, HandsOK, Rotate, Chain, Tokens
<1>2. ASSUME NEW reply \in Tokens \cup {NoToken}, call' = [call EXCEPT ![p].reply = reply],
             issued' \subseteq Tokens, used' \subseteq issued', issued \subseteq issued',
             revoked' \subseteq Families, reused' \in BOOLEAN
      PROVE  TypeOK'
  <2>1. [call[p] EXCEPT !.reply = reply] \in Calls
    BY <1>1 DEF Calls
  <2>2. call' \in [Procs -> Calls] /\ pc' \in [Procs -> Places]
    BY <1>1, <1>2, <2>1 DEF TypeOK, Places, Inside, Rotate, Goto
  <2>3. UNCHANGED <<file, lock, lockOld, fams, legacy, due, faults, lost, robbed, signedOut>>
    BY DEF Rotate
  <2> QED BY <1>1, <1>2, <2>2, <2>3 DEF TypeOK
<1>3. ASSUME NEW reply, call' = [call EXCEPT ![p].reply = reply]
      PROVE  /\ Answered(p, reply)
             /\ \A q \in Procs : pc'[q] \in {"rotate", "me"} =>
                  pc'[q] = pc[q] /\ call'[q].token = call[q].token
  BY <1>1, <1>3 DEF Rotate, Answered, Goto, TypeOK
<1>4. CASE /\ t \notin used /\ t.n < MaxTurns
           /\ used' = used \cup {t} /\ issued' = issued \cup {next}
           /\ call' = [call EXCEPT ![p].reply = next]
           /\ UNCHANGED <<revoked, reused>>
  <2>1. next \in Tokens /\ next.fam = t.fam /\ next.n = t.n + 1 /\ next # t
    BY <1>1, <1>4, BoundsAssumption DEF Tokens
  <2>2. next \notin used \cup {t}
    BY <1>1, <1>4, <2>1 DEF Chain
  <2>3. next # NoToken
    BY <2>1, NoTokenIsNone
  <2>4. ASSUME NEW s \in Tokens, [s EXCEPT !.n = @ + 1] = next
        PROVE  s = t
    <3>1. s.fam = next.fam /\ s.n + 1 = next.n
      BY <2>1, <2>4 DEF Tokens
    <3>2. s.fam = t.fam /\ s.n = t.n
      BY <1>1, <2>1, <3>1 DEF Tokens
    <3> QED BY <1>1, <3>2 DEF Tokens
  <2> HIDE DEF next
  <2>5. TypeOK'
    <3>1. issued' \subseteq Tokens /\ used' \subseteq issued' /\ issued \subseteq issued'
      BY <1>1, <1>4, <2>1
    <3>2. revoked' \subseteq Families /\ reused' \in BOOLEAN
      BY <1>1, <1>4 DEF TypeOK
    <3> QED BY <1>2, <1>4, <2>1, <3>1, <3>2
  <2>6. Chain'
    <3>1. legacy' = legacy
      BY DEF Rotate
    <3>2. \A s \in Tokens : [s EXCEPT !.n = @ + 1] \in issued' => s \in used'
      BY <1>1, <1>4, <2>4 DEF Chain
    <3>3. \A s \in used' : s.fam \notin legacy'
      BY <1>1, <1>4, <3>1 DEF Chain
    <3>4. \A q \in Procs : pc'[q] \in {"rotate", "me"} =>
                             pc'[q] = pc[q] /\ call'[q].token = call[q].token
      BY <1>3, <1>4
    <3>5. \A q \in Procs : /\ pc'[q] = "rotate" => call'[q].token.fam \notin legacy'
                           /\ pc'[q] = "me" => call'[q].token.fam \in legacy'
      BY <1>1, <3>1, <3>4 DEF Chain
    <3> QED BY <3>2, <3>3, <3>5 DEF Chain
  <2>7. \A s \in used' : s \in used \/ (s = t /\ next \notin {NoToken, s})
    BY <1>4, <2>1, <2>3
  <2>8. \A s \in issued' : s.fam \in 1..fams
    BY <1>1, <1>4, <2>1
  <2>9. Answered(p, next)
    BY <1>3, <1>4
  <2> QED BY <1>1, <1>4, <2>1, <2>2, <2>3, <2>5, <2>6, <2>7, <2>8, <2>9, AnsweredKeeps DEF Unspent
<1>5. CASE /\ revoked' = revoked \cup {t.fam} /\ reused' = (reused \/ t \in used)
           /\ call' = [call EXCEPT ![p].reply = NoToken]
           /\ UNCHANGED <<used, issued>>
  <2>1. TypeOK'
    <3>1. revoked' \subseteq Families /\ reused' \in BOOLEAN
      BY <1>1, <1>5 DEF TypeOK
    <3> QED BY <1>1, <1>2, <1>5, <3>1
  <2>2. Chain'
    <3>1. legacy' = legacy
      BY DEF Rotate
    <3>2. \A q \in Procs : pc'[q] \in {"rotate", "me"} =>
                             pc'[q] = pc[q] /\ call'[q].token = call[q].token
      BY <1>3, <1>5
    <3> QED BY <1>1, <1>5, <3>1, <3>2 DEF Chain
  <2>3. Answered(p, NoToken)
    BY <1>3, <1>5
  <2>4. NoToken \notin used
    BY <1>1, NoTokenIsNone
  <2>5. ~lost /\ ~robbed => ~reused' /\ NoToken \notin used'
    BY <1>1, <1>5, <2>4 DEF Unspent
  <2> QED BY <1>1, <1>5, <2>1, <2>2, <2>3, <2>5, AnsweredKeeps
<1> QED BY <1>4, <1>5 DEF Rotate

(***************************************************************************)
(* The theorems about tokens                                               *)
(***************************************************************************)
LEMMA InitTokenInv == Init => TokenInv
<1> SUFFICES ASSUME Init PROVE TokenInv
  OBVIOUS
<1>1. NoCall \in Calls /\ NoCall.token = NoToken /\ NoCall.reply = NoToken
  BY DEF NoCall, Calls, Jobs, Outcomes
<1>2. file = SignedOut /\ file.token = NoToken /\ file \in Files
  BY DEF Init, SignedOut, Files
<1>3. \A p \in Procs : pc[p] = "idle" /\ call[p] = NoCall
  BY DEF Init
<1>4. call \in [Procs -> Calls] /\ pc \in [Procs -> Places]
  <2>1. "idle" \in Places
    BY DEF Places
  <2> QED BY <1>1, <2>1 DEF Init
<1>5. TypeOK
  <2>1. /\ lock \in Procs \cup {Nobody} /\ lockOld \in BOOLEAN
        /\ fams \in 0..MaxLogins /\ faults \in 0..MaxFaults
    <3>1. lock = Nobody /\ lockOld = FALSE /\ fams = 0 /\ faults = 0
      BY DEF Init
    <3>2. 0 \in 0..MaxLogins /\ 0 \in 0..MaxFaults
      BY BoundsAssumption
    <3> QED BY <3>1, <3>2
  <2>2. /\ legacy \subseteq Families /\ issued \subseteq Tokens /\ used \subseteq issued
        /\ revoked \subseteq Families /\ due \subseteq issued /\ signedOut \subseteq Families
        /\ lost \in BOOLEAN /\ robbed \in BOOLEAN /\ reused \in BOOLEAN
    BY DEF Init
  <2> QED BY <1>2, <1>4, <2>1, <2>2 DEF TypeOK
<1>6. HandsOK
  BY <1>1, <1>2, <1>3 DEF Init, HandsOK, Known
<1>7. Landing /\ Chain
  BY <1>3 DEF Init, Landing, Chain
<1>8. Unspent /\ Ended
  BY <1>2, <1>3 DEF Init, Unspent, Ended
<1> QED BY <1>5, <1>6, <1>7, <1>8, InitLockInv DEF TokenInv, TypeInv

LEMMA NextTokenInv == TokenInv /\ [Next]_vars => TokenInv'
<1> SUFFICES ASSUME TokenInv, [Next]_vars PROVE TokenInv'
  OBVIOUS
<1>1. LockInv'
  BY NextLockInv DEF TokenInv
<1>2. TypeOK /\ TypeInv
  BY DEF TokenInv, TypeInv
<1>3. ASSUME NEW p \in Procs,
             \/ Monitor(p) \/ Fetch(p) \/ SignOut(p) \/ Open(p) \/ Stat(p) \/ Steal(p)
             \/ TimeOut(p) \/ Unlock(p) \/ Revoke(p) \/ RequestFails(p) \/ LoseAnswer(p)
             \/ Require(p) \/ Send(p) \/ Forced(p) \/ Crash(p)
             \/ ReadToSignOut(p)
      PROVE  TokenInv'
  BY <1>1, <1>2, <1>3, PlainSteps, PlainKeeps
<1>4. ASSUME NEW p \in Procs,
             \/ SignIn(p) \/ Land(p) \/ Mark(p) \/ Settle(p) \/ Clear(p)
             \/ ReadToRefresh(p) \/ Me(p) \/ Rotate(p)
      PROVE  TokenInv'
  BY <1>1, <1>4, SignInKeeps, LandKeeps, MarkKeeps, SettleKeeps, ClearKeeps,
     ReadToRefreshKeeps, MeKeeps, RotateKeeps
<1>5. ASSUME UNCHANGED <<file, fams, legacy, issued, used, pc, call, lost, robbed, reused,
                         signedOut>>,
             lock' = lock, lockOld' \in BOOLEAN, revoked' \subseteq Families,
             due' \subseteq issued, faults' \in 0..MaxFaults
      PROVE  TokenInv'
  <2>1. TypeOK'
    BY <1>2, <1>5 DEF TypeOK
  <2> QED BY <1>1, <1>5, <2>1, OthersKeep
<1>6. ASSUME NEW f \in Families, Kill(f)
      PROVE  TokenInv'
  BY <1>2, <1>5, <1>6 DEF Kill, history, TypeOK
<1>7. ASSUME NEW t \in Tokens, Age(t)
      PROVE  TokenInv'
  BY <1>2, <1>5, <1>7 DEF Age, history, TypeOK
<1>8. CASE LockAges
  <2>1. faults' \in 0..MaxFaults
    BY <1>2, <1>8, BoundsAssumption DEF LockAges, TypeOK
  <2> QED BY <1>2, <1>5, <1>8, <2>1 DEF LockAges, server, TypeOK
<1>9. CASE UNCHANGED vars
  BY <1>2, <1>5, <1>9 DEF vars, server, history, TypeOK
<1> QED BY <1>3, <1>4, <1>6, <1>7, <1>8, <1>9 DEF Next, Step

(* Every variable keeps its type: what is on disk, in a call or at the      *)
(* server is a session, call or token the code could have written, and a    *)
(* token is spent only after it was handed out (store/cloud.ts and the      *)
(* API's refresh grant).                                                    *)
THEOREM SessionTypeCorrect == Spec => []TypeOK
<1>1. TokenInv => TypeOK
  BY DEF TokenInv, TypeInv
<1> QED
  BY <1>1, InitTokenInv, NextTokenInv, PTL DEF Spec

(* A spent refresh token is presented only after the answer to a committed  *)
(* rotation was lost or a lock was unlinked under its holder: signing in    *)
(* and out, checking and fetching beside a refresh never do it, however     *)
(* many processes take turns (refreshSession, store/cloud.ts).              *)
THEOREM ReuseOnlyWhenLost == Spec => []ReuseOnlyAfterLoss
<1>1. TokenInv => ReuseOnlyAfterLoss
  BY DEF TokenInv, TypeInv, TypeOK, Unspent, ReuseOnlyAfterLoss
<1> QED
  BY <1>1, InitTokenInv, NextTokenInv, PTL DEF Spec

(* While no lock is unlinked under its holder, a sign-in that was signed    *)
(* out of does not come back to disk, whatever refresh, check or fetch was  *)
(* under way at the sign-out (logout, store/cloud.ts).                      *)
THEOREM SignOutIsFinal == Spec => []SignedOutStaysOut
<1>1. TokenInv => SignedOutStaysOut
  BY DEF TokenInv, Ended, SignedOutStaysOut
<1> QED
  BY <1>1, InitTokenInv, NextTokenInv, PTL DEF Spec
=============================================================================
