--------------------------- MODULE SendLock_proofs ---------------------------
(***************************************************************************)
(* SendLock for any number of processes, attempts and deaths: its type     *)
(* invariant, that two processes walk one ledger only after a live         *)
(* process's lock has been unlinked by another, that no lock is left       *)
(* behind, and that the file is the one lock of OneHolder until then.      *)
(***************************************************************************)
EXTENDS SendLock, TLAPS

(* A process while nobody was robbed.  It relies on the file only when the   *)
(* file is in its name, and whole outside its own writes; the outer frame    *)
(* drops it if this process made it, and nobody does if it was found.        *)
Orderly(p) ==
  /\ Relies(p) => file.by = p
  /\ Relies(p) /\ pc[p] \notin {"write", "fill"} => ~file.torn
  /\ pc[p] = "write" => file = Torn(p, cmd[p])
  /\ pc[p] = "fill" => file = Torn(p, call[p].seen.cmd)
  /\ Relies(p) /\ pc[p] # "write" => call[p].real \in {{}, {1}}
  /\ ~Relies(p) \/ pc[p] = "write" => call[p].real = {} /\ call[p].frame = 1
  /\ call[p].frame = 2 => pc[p] \notin {"idle", "clear"}
  /\ call[p].frame = 2 /\ pc[p] = "judge" => call[p].seen.by = p
  /\ call[p].quit => pc[p] \in {"release", "unlink"}
  /\ pc[p] = "unlink" => call[p].quit \/ call[p].frame = 1
  /\ alive[p] \/ pc[p] = "idle"

LockInv == ~robbed => \A p \in Procs : Orderly(p)

-----------------------------------------------------------------------------
(* The values the actions write have the types their variables promise. *)
LEMMA FilesTyped ==
  /\ NoFile \in Files
  /\ \A p \in Procs, c \in Commands \cup {Foreign} :
       Lock(p, c) \in Files /\ Torn(p, c) \in Files
BY Zenon DEF Files, NoFile, Lock, Torn

LEMMA NoCallTyped == NoCall \in Calls
<1>1. 0 \in 0..(MaxTries - 1)
  BY TriesAssumption
<1>2. {} \in SUBSET {1, 2}
  OBVIOUS
<1> QED
  BY <1>1, <1>2, FilesTyped, Zenon DEF NoCall, Calls

(* The updates of a call that the actions make keep its type. *)
LEMMA CallsTyped ==
  ASSUME NEW c \in Calls
  PROVE  /\ c.frame \in {1, 2} /\ c.tries \in 0..(MaxTries - 1)
         /\ c.seen.cmd \in Commands \cup {Foreign}
         /\ \A w \in BOOLEAN : [c EXCEPT !.worker = w] \in Calls
         /\ [c EXCEPT !.quit = TRUE] \in Calls
         /\ [c EXCEPT !.frame = 1] \in Calls
         /\ [c EXCEPT !.real = @ \cup {c.frame}] \in Calls
         /\ \A f \in Files : [c EXCEPT !.seen = f] \in Calls
         /\ [c EXCEPT !.frame = 2, !.tries = 0, !.seen = NoFile] \in Calls
         /\ c.tries + 1 < MaxTries =>
              [c EXCEPT !.tries = @ + 1, !.seen = NoFile] \in Calls
<1>1. c.frame \in {1, 2} /\ c.tries \in 0..(MaxTries - 1)
  BY DEF Calls
<1>9. c.seen.cmd \in Commands \cup {Foreign}
  <2>1. c.seen \in Files
    BY DEF Calls
  <2> QED
    BY <2>1 DEF Files
<1>2. \A w \in BOOLEAN : [c EXCEPT !.worker = w] \in Calls
  BY Zenon DEF Calls
<1>3. [c EXCEPT !.quit = TRUE] \in Calls
  BY Zenon DEF Calls
<1>4. [c EXCEPT !.frame = 1] \in Calls
  BY DEF Calls
<1>5. [c EXCEPT !.real = @ \cup {c.frame}] \in Calls
  BY <1>1 DEF Calls
<1>6. \A f \in Files : [c EXCEPT !.seen = f] \in Calls
  BY Zenon DEF Calls
<1>7. [c EXCEPT !.frame = 2, !.tries = 0, !.seen = NoFile] \in Calls
  <2>1. PICK d : d = [c EXCEPT !.frame = 2]
    OBVIOUS
  <2>2. PICK e : e = [d EXCEPT !.tries = 0]
    OBVIOUS
  <2>3. d \in Calls
    BY <2>1 DEF Calls
  <2>4. e \in Calls
    BY <2>2, <2>3, TriesAssumption DEF Calls
  <2>5. [e EXCEPT !.seen = NoFile] \in Calls
    BY <2>4, FilesTyped, Zenon DEF Calls
  <2>6. [c EXCEPT !.frame = 2, !.tries = 0, !.seen = NoFile]
          = [e EXCEPT !.seen = NoFile]
    BY <2>1, <2>2
  <2> QED
    BY <2>5, <2>6
<1>8. c.tries + 1 < MaxTries =>
         [c EXCEPT !.tries = @ + 1, !.seen = NoFile] \in Calls
  <2> SUFFICES ASSUME c.tries + 1 < MaxTries
               PROVE  [c EXCEPT !.tries = @ + 1, !.seen = NoFile] \in Calls
    OBVIOUS
  <2>1. PICK d : d = [c EXCEPT !.tries = @ + 1]
    OBVIOUS
  <2>2. c.tries + 1 \in 0..(MaxTries - 1)
    BY <1>1, TriesAssumption
  <2>3. d \in Calls
    BY <2>1, <2>2 DEF Calls
  <2>4. [d EXCEPT !.seen = NoFile] \in Calls
    BY <2>3, FilesTyped, Zenon DEF Calls
  <2>5. [c EXCEPT !.tries = @ + 1, !.seen = NoFile] = [d EXCEPT !.seen = NoFile]
    BY <2>1
  <2> QED
    BY <2>4, <2>5
<1> QED
  BY <1>1, <1>2, <1>3, <1>4, <1>5, <1>6, <1>7, <1>8, <1>9

LEMMA DiesTyped ==
  ASSUME TypeOK, Dies PROVE deaths' \in 0..MaxDeaths
BY DeathsAssumption DEF TypeOK, Dies

LEMMA ReadTyped ==
  TypeOK => ReadSendLock \in Files
BY FilesTyped DEF TypeOK, ReadSendLock

(* The shared parts of the actions: a process moves, forgets its send, goes  *)
(* on to the inner acquire, throws, or returns from a release.               *)
LocalsTyped == pc \in [Procs -> Places] /\ call \in [Procs -> Calls]

LEMMA MovesTyped ==
  ASSUME TypeOK, NEW p \in Procs
  PROVE  /\ \A place \in Places : Goto(p, place) => pc' \in [Procs -> Places]
         /\ Forget(p) => LocalsTyped'
         /\ Inner(p) => LocalsTyped'
         /\ Throw(p) => LocalsTyped'
         /\ Pop(p) => LocalsTyped' /\ alive' \in [Procs -> BOOLEAN]
<1> USE NoCallTyped, CallsTyped DEF TypeOK, LocalsTyped
<1>1. \A place \in Places : Goto(p, place) => pc' \in [Procs -> Places]
  BY DEF Goto
<1>2. Forget(p) => LocalsTyped'
  BY DEF Forget, Goto, Places
<1>3. Inner(p) => LocalsTyped'
  <2> SUFFICES ASSUME Inner(p) PROVE LocalsTyped'
    OBVIOUS
  <2>1. call' = [call EXCEPT ![p] =
                   [call[p] EXCEPT !.frame = 2, !.tries = 0, !.seen = NoFile]]
    BY DEF Inner
  <2>2. [call[p] EXCEPT !.frame = 2, !.tries = 0, !.seen = NoFile] \in Calls
    BY CallsTyped
  <2>3. call' \in [Procs -> Calls]
    BY <2>1, <2>2
  <2>4. pc' \in [Procs -> Places]
    BY <1>1 DEF Inner, Places
  <2> QED
    BY <2>3, <2>4
<1>4. Throw(p) => LocalsTyped'
  <2>1. ASSUME Throw(p), call[p].frame = 2 PROVE LocalsTyped'
    <3>1. call' = [call EXCEPT ![p] = [call[p] EXCEPT !.frame = 1]]
      BY <2>1 DEF Throw
    <3>2. [call[p] EXCEPT !.frame = 1] \in Calls
      BY CallsTyped
    <3>3. pc' \in [Procs -> Places]
      BY <2>1, <1>1 DEF Throw, Places
    <3> QED
      BY <3>1, <3>2, <3>3
  <2>2. CASE call[p].frame # 2
    BY <2>2, <1>2 DEF Throw
  <2> QED
    BY <2>1, <2>2
<1>5. Pop(p) => LocalsTyped' /\ alive' \in [Procs -> BOOLEAN]
  BY <1>2, <1>4 DEF Pop
<1> QED
  BY <1>1, <1>2, <1>3, <1>4, <1>5

LEMMA UnlinkTyped ==
  ASSUME TypeOK, NEW p \in Procs, Unlink(p)
  PROVE  file' \in Files /\ robbed' \in BOOLEAN /\ left' \in BOOLEAN
<1>1. file' \in Files
  BY FilesTyped DEF Unlink
<1>2. robbed' \in BOOLEAN /\ left' \in BOOLEAN
  BY Zenon DEF Unlink
<1> QED
  BY <1>1, <1>2

(* Every variable keeps its type, whatever the processes do. *)
THEOREM TypeCorrect == Spec => []TypeOK
<1>1. Init => TypeOK
  <2>1. 0 \in 0..MaxDeaths
    BY DeathsAssumption
  <2>2. Init => cmd \in [Procs -> Commands \cup {Foreign}]
    BY DEF Init
  <2> QED
    BY <2>1, <2>2, FilesTyped, NoCallTyped, Zenon DEF Init, TypeOK, Places
<1>2. TypeOK /\ [Next]_vars => TypeOK'
  <2> SUFFICES ASSUME TypeOK, [Next]_vars PROVE TypeOK'
    OBVIOUS
  <2> USE FilesTyped, NoCallTyped, CallsTyped, ReadTyped DEF TypeOK, Places
  <2>1. ASSUME NEW p \in Procs, Start(p) PROVE TypeOK'
    <3>1. PICK w \in BOOLEAN : call' = [call EXCEPT ![p].worker = w]
      BY <2>1 DEF Start
    <3>2. call' \in [Procs -> Calls]
      BY <3>1
    <3> QED
      BY <2>1, <3>2 DEF Start, Goto
  <2>2. ASSUME NEW p \in Procs, Open(p) PROVE TypeOK'
    <3>1. cmd[p] \in Commands \cup {Foreign}
      OBVIOUS
    <3>2. Torn(p, cmd[p]) \in Files
      BY <3>1, FilesTyped, Zenon
    <3>3. file' \in Files /\ left' \in BOOLEAN
      BY <2>2, <3>2, Zenon DEF Open
    <3> QED
      BY <2>2, <3>3 DEF Open, Goto, At
  <2>3. ASSUME NEW p \in Procs, Write(p) PROVE TypeOK'
    BY <2>3 DEF Write, Goto, At, Acquired
  <2>4. ASSUME NEW p \in Procs, Read(p) PROVE TypeOK'
    BY <2>4 DEF Read, Goto, At
  <2>5. ASSUME NEW p \in Procs, Judge(p) PROVE TypeOK'
    <3>1. LocalsTyped'
      <4>1. Throw(p) => LocalsTyped'
        BY MovesTyped
      <4>2. Goto(p, "clear") /\ UNCHANGED call => LocalsTyped'
        BY DEF Goto, LocalsTyped
      <4>3. Goto(p, Acquired(p)) /\ UNCHANGED call => LocalsTyped'
        BY DEF Goto, Acquired, LocalsTyped
      <4> QED
        BY <2>5, <4>1, <4>2, <4>3 DEF Judge
    <3> QED
      BY <2>5, <3>1 DEF Judge, LocalsTyped
  <2>6. ASSUME NEW p \in Procs, Clear(p) PROVE TypeOK'
    <3>1. file' \in Files /\ robbed' \in BOOLEAN /\ left' \in BOOLEAN
      BY <2>6, UnlinkTyped DEF Clear
    <3>2. LocalsTyped'
      <4>1. Throw(p) => LocalsTyped'
        BY MovesTyped
      <4>2. CASE /\ call[p].tries + 1 < MaxTries
                 /\ call' = [call EXCEPT ![p].tries = @ + 1, ![p].seen = NoFile]
                 /\ Goto(p, "open")
        BY <4>2 DEF Goto, LocalsTyped
      <4> QED
        BY <2>6, <4>1, <4>2 DEF Clear
    <3> QED
      BY <2>6, <3>1, <3>2 DEF Clear, LocalsTyped
  <2>7. ASSUME NEW p \in Procs, UpdateRead(p) PROVE TypeOK'
    <3>1. LocalsTyped'
      <4>1. Inner(p) => LocalsTyped'
        BY MovesTyped
      <4>2. Goto(p, "truncate") /\ call' = [call EXCEPT ![p].seen = ReadSendLock]
              => LocalsTyped'
        <5>1. [call[p] EXCEPT !.seen = ReadSendLock] \in Calls
          BY CallsTyped, ReadTyped, Zenon
        <5> QED
          BY <5>1 DEF Goto, LocalsTyped
      <4> QED
        BY <2>7, <4>1, <4>2 DEF UpdateRead
    <3> QED
      BY <2>7, <3>1 DEF UpdateRead, LocalsTyped
  <2>8. ASSUME NEW p \in Procs, UpdateTruncate(p) PROVE TypeOK'
    <3>1. call[p].seen.cmd \in Commands \cup {Foreign}
      BY CallsTyped
    <3>2. file' \in Files
      BY <2>8, <3>1 DEF UpdateTruncate
    <3> QED
      BY <2>8, <3>2 DEF UpdateTruncate, Goto, At
  <2>9. ASSUME NEW p \in Procs, UpdateFill(p) PROVE TypeOK'
    <3>1. call[p].seen.cmd \in Commands \cup {Foreign}
      BY CallsTyped
    <3>2. file' \in Files
      BY <2>9, <3>1, Zenon DEF UpdateFill
    <3>3. LocalsTyped'
      BY <2>9, MovesTyped DEF UpdateFill
    <3> QED
      BY <2>9, <3>2, <3>3 DEF UpdateFill, LocalsTyped
  <2>10. ASSUME NEW p \in Procs, Finish(p) PROVE TypeOK'
    BY <2>10 DEF Finish, Goto, At
  <2>11. ASSUME NEW p \in Procs, ReleaseRead(p) PROVE TypeOK'
    <3>1. LocalsTyped' /\ alive' \in [Procs -> BOOLEAN]
      <4>1. Pop(p) => LocalsTyped' /\ alive' \in [Procs -> BOOLEAN]
        BY MovesTyped
      <4>2. Goto(p, "unlink") /\ UNCHANGED <<alive, call>>
              => LocalsTyped' /\ alive' \in [Procs -> BOOLEAN]
        BY DEF Goto, LocalsTyped
      <4> QED
        BY <2>11, <4>1, <4>2 DEF ReleaseRead
    <3> QED
      BY <2>11, <3>1 DEF ReleaseRead, LocalsTyped
  <2>12. ASSUME NEW p \in Procs, ReleaseUnlink(p) PROVE TypeOK'
    <3>1. file' \in Files /\ robbed' \in BOOLEAN /\ left' \in BOOLEAN
      BY <2>12, UnlinkTyped DEF ReleaseUnlink
    <3>2. LocalsTyped' /\ alive' \in [Procs -> BOOLEAN]
      BY <2>12, MovesTyped DEF ReleaseUnlink
    <3> QED
      BY <2>12, <3>1, <3>2 DEF ReleaseUnlink, LocalsTyped
  <2>13. ASSUME NEW p \in Procs, Signal(p) PROVE TypeOK'
    BY <2>13, DiesTyped DEF Signal, Goto, At
  <2>14. ASSUME NEW p \in Procs, Die(p) PROVE TypeOK'
    <3>1. deaths' \in 0..MaxDeaths /\ left' \in BOOLEAN
      BY <2>14, DiesTyped DEF Die
    <3>2. LocalsTyped'
      BY <2>14, MovesTyped DEF Die
    <3> QED
      BY <2>14, <3>1, <3>2 DEF Die, LocalsTyped
  <2>15. ASSUME NEW p \in Procs, Reborn(p) PROVE TypeOK'
    BY <2>15 DEF Reborn
  <2>16. CASE UNCHANGED vars
    BY <2>16 DEF vars
  <2> QED
    BY <2>1, <2>2, <2>3, <2>4, <2>5, <2>6, <2>7, <2>8, <2>9, <2>10, <2>11, <2>12, <2>13, <2>14, <2>15, <2>16 DEF Next, Step
<1> QED
  BY <1>1, <1>2, PTL DEF Spec

-----------------------------------------------------------------------------
(* What the mutual exclusion rests on: while nobody was robbed, every        *)
(* process is Orderly, the dead ones too.                                    *)
LEMMA LockInvInductive ==
  ASSUME TypeOK, TypeOK', LockInv, [Next]_vars
  PROVE  LockInv'
<1> SUFFICES ASSUME ~robbed', NEW q \in Procs
             PROVE  Orderly(q)'
  BY DEF LockInv
<1> USE NoProcAssumption
    DEF TypeOK, Files, Calls, NoFile, Lock, Torn, NoCall, At, Goto, Relies, Orderly
<1>0. ~robbed /\ \A p \in Procs : Orderly(p)
  <2>1. CASE \E p \in Procs : Clear(p) \/ ReleaseUnlink(p)
    BY <2>1, Zenon DEF LockInv, Clear, ReleaseUnlink, Unlink
  <2>2. CASE ~\E p \in Procs : Clear(p) \/ ReleaseUnlink(p)
    <3>1. robbed' = robbed
      BY <2>2 DEF Next, Step, vars, Start, Open, Write, Read, Judge, UpdateRead,
                  UpdateTruncate, UpdateFill, Finish, Signal, ReleaseRead, Die, Reborn
    <3> QED
      BY <3>1 DEF LockInv
  <2> QED
    BY <2>1, <2>2
<1>1. ASSUME NEW p \in Procs, Start(p) PROVE Orderly(q)'
  <2>1. CASE p = q
    BY <1>0, <1>1, <2>1 DEF Start
  <2>2. CASE p # q
    BY <1>0, <1>1, <2>2 DEF Start
  <2> QED
    BY <2>1, <2>2
<1>2. ASSUME NEW p \in Procs, Open(p) PROVE Orderly(q)'
  <2>1. CASE p = q
    BY <1>0, <1>2, <2>1 DEF Open
  <2>2. CASE p # q
    BY <1>0, <1>2, <2>2 DEF Open
  <2> QED
    BY <2>1, <2>2
<1>3. ASSUME NEW p \in Procs, Write(p) PROVE Orderly(q)'
  <2>1. CASE p = q
    BY <1>0, <1>3, <2>1 DEF Write, Acquired
  <2>2. CASE p # q
    BY <1>0, <1>3, <2>2 DEF Write, Acquired
  <2> QED
    BY <2>1, <2>2
<1>4. ASSUME NEW p \in Procs, Read(p) PROVE Orderly(q)'
  <2>1. CASE p = q
    BY <1>0, <1>4, <2>1 DEF Read, ReadSendLock
  <2>2. CASE p # q
    BY <1>0, <1>4, <2>2 DEF Read, ReadSendLock
  <2> QED
    BY <2>1, <2>2
<1>5. ASSUME NEW p \in Procs, Judge(p) PROVE Orderly(q)'
  <2>1. CASE p = q
    BY <1>0, <1>5, <2>1 DEF Judge, Acquired, Throw, Forget
  <2>2. CASE p # q
    BY <1>0, <1>5, <2>2 DEF Judge, Acquired, Throw, Forget
  <2> QED
    BY <2>1, <2>2
<1>6. ASSUME NEW p \in Procs, Clear(p) PROVE Orderly(q)'
  <2>1. CASE p = q
    BY <1>0, <1>6, <2>1 DEF Clear, Unlink, Throw, Forget
  <2>2. CASE p # q
    BY <1>0, <1>6, <2>2 DEF Clear, Unlink, Throw, Forget
  <2> QED
    BY <2>1, <2>2
<1>7. ASSUME NEW p \in Procs, UpdateRead(p) PROVE Orderly(q)'
  <2>1. CASE p = q
    BY <1>0, <1>7, <2>1 DEF UpdateRead, Inner, ReadSendLock
  <2>2. CASE p # q
    BY <1>0, <1>7, <2>2 DEF UpdateRead, Inner, ReadSendLock
  <2> QED
    BY <2>1, <2>2
<1>8. ASSUME NEW p \in Procs, UpdateTruncate(p) PROVE Orderly(q)'
  <2>1. CASE p = q
    BY <1>0, <1>8, <2>1 DEF UpdateTruncate
  <2>2. CASE p # q
    BY <1>0, <1>8, <2>2 DEF UpdateTruncate
  <2> QED
    BY <2>1, <2>2
<1>9. ASSUME NEW p \in Procs, UpdateFill(p) PROVE Orderly(q)'
  <2>1. CASE p = q
    BY <1>0, <1>9, <2>1 DEF UpdateFill, Inner
  <2>2. CASE p # q
    BY <1>0, <1>9, <2>2 DEF UpdateFill, Inner
  <2> QED
    BY <2>1, <2>2
<1>10. ASSUME NEW p \in Procs, Finish(p) PROVE Orderly(q)'
  <2>1. CASE p = q
    BY <1>0, <1>10, <2>1 DEF Finish
  <2>2. CASE p # q
    BY <1>0, <1>10, <2>2 DEF Finish
  <2> QED
    BY <2>1, <2>2
<1>11. ASSUME NEW p \in Procs, ReleaseRead(p) PROVE Orderly(q)'
  <2>1. CASE p = q
    <3>1. Relies(p) /\ file.by = p /\ ReadSendLock = file
      BY <1>0, <1>11 DEF ReleaseRead, ReadSendLock
    <3>2. file' = file /\ alive[p] /\ pc[p] = "release"
      BY <1>11 DEF ReleaseRead
    <3>3. CASE Goto(p, "unlink") /\ UNCHANGED <<alive, call>>
      <4>1. call[p].quit \/ call[p].frame = 1
        BY <1>0, <1>11, <3>1, <3>3 DEF ReleaseRead, Pop, Throw, Forget
      <4> QED
        BY <1>0, <2>1, <3>1, <3>2, <3>3, <4>1
    <3>4. CASE Pop(p)
      BY <1>0, <2>1, <3>1, <3>2, <3>4 DEF Pop, Throw, Forget
    <3> QED
      BY <1>11, <3>3, <3>4 DEF ReleaseRead
  <2>2. CASE p # q
    BY <1>0, <1>11, <2>2 DEF ReleaseRead, ReadSendLock, Pop, Throw, Forget
  <2> QED
    BY <2>1, <2>2
<1>12. ASSUME NEW p \in Procs, ReleaseUnlink(p) PROVE Orderly(q)'
  <2>1. CASE p = q
    BY <1>0, <1>12, <2>1 DEF ReleaseUnlink, Unlink, Pop, Throw, Forget
  <2>2. CASE p # q
    BY <1>0, <1>12, <2>2 DEF ReleaseUnlink, Unlink, Pop, Throw, Forget
  <2> QED
    BY <2>1, <2>2
<1>13. ASSUME NEW p \in Procs, Signal(p) PROVE Orderly(q)'
  <2>1. CASE p = q
    BY <1>0, <1>13, <2>1 DEF Signal
  <2>2. CASE p # q
    BY <1>0, <1>13, <2>2 DEF Signal
  <2> QED
    BY <2>1, <2>2
<1>14. ASSUME NEW p \in Procs, Die(p) PROVE Orderly(q)'
  <2>1. CASE p = q
    BY <1>0, <1>14, <2>1 DEF Die, Forget
  <2>2. CASE p # q
    BY <1>0, <1>14, <2>2 DEF Die, Forget
  <2> QED
    BY <2>1, <2>2
<1>15. ASSUME NEW p \in Procs, Reborn(p) PROVE Orderly(q)'
  <2>1. CASE p = q
    BY <1>0, <1>15, <2>1 DEF Reborn
  <2>2. CASE p # q
    BY <1>0, <1>15, <2>2 DEF Reborn
  <2> QED
    BY <2>1, <2>2
<1>16. CASE UNCHANGED vars
  BY <1>0, <1>16 DEF vars
<1> QED
  BY <1>1, <1>2, <1>3, <1>4, <1>5, <1>6, <1>7, <1>8, <1>9, <1>10, <1>11, <1>12, <1>13, <1>14, <1>15, <1>16 DEF Next, Step

(* Two processes walk one issue's ledger only after a live process's lock    *)
(* has been unlinked by another.                                             *)
THEOREM MutualExclusionUntilRobbery == Spec => []OnlyRobberyAdmitsTwo
<1>1. Init => LockInv
  BY NoProcAssumption DEF Init, LockInv, Orderly, Relies, NoCall, NoFile
<1>2. TypeOK /\ TypeOK' /\ LockInv /\ [Next]_vars => LockInv'
  BY LockInvInductive
<1>3. TypeOK /\ LockInv => OnlyRobberyAdmitsTwo
  BY DEF LockInv, Orderly, Relies, OnlyRobberyAdmitsTwo, OneWalker, At
<1> QED
  BY <1>1, <1>2, <1>3, TypeCorrect, PTL DEF Spec

-----------------------------------------------------------------------------
(* Robbed or not: a file in p's name that nobody left is p's own, and p is   *)
(* about to write it or has a frame on its stack whose release will drop it. *)
WillDrop(p) ==
  \/ pc[p] = "write"
  \/ 1 \in call[p].real
  \/ call[p].frame = 2 /\ 2 \in call[p].real

Tidy(p) ==
  /\ file.by = p /\ ~left => WillDrop(p) /\ alive[p]
  /\ call[p].frame = 1 /\ pc[p] \in {"open", "exists", "judge", "clear", "write"} =>
       call[p].real = {}
  /\ pc[p] \in {"open", "exists", "judge", "clear", "update", "truncate", "fill"} =>
       2 \notin call[p].real
  /\ pc[p] \in {"update", "truncate", "fill"} => call[p].frame = 1
  /\ pc[p] = "idle" => call[p].real = {} /\ call[p].frame = 1

TidyInv == \A p \in Procs : Tidy(p)

(* Nobody writes a lock in another's name, nor finds out who left it *)
LEMMA OwnName ==
  ASSUME TypeOK, [Next]_vars, NEW p \in Procs,
         ~(Start(p) \/ Step(p) \/ Signal(p) \/ Die(p) \/ Reborn(p))
  PROVE  /\ file'.by = p => file.by = p /\ (left => left')
         /\ pc'[p] = pc[p] /\ call'[p] = call[p] /\ alive'[p] = alive[p]
<1> USE NoProcAssumption
    DEF TypeOK, At, Goto, NoFile, Lock, Torn
<1>1. CASE UNCHANGED vars
  BY <1>1 DEF vars
<1>2. ASSUME NEW q \in Procs \ {p}, Start(q) \/ Step(q) \/ Signal(q) \/ Die(q) \/ Reborn(q)
      PROVE  /\ file'.by = p => file.by = p /\ (left => left')
             /\ pc'[p] = pc[p] /\ call'[p] = call[p] /\ alive'[p] = alive[p]
  <2>1. CASE Start(q) \/ Signal(q) \/ Die(q) \/ Reborn(q)
    BY <1>2, <2>1 DEF Start, Signal, Die, Forget, Reborn
  <2>2. CASE Open(q) \/ Write(q) \/ Read(q)
    BY <1>2, <2>2 DEF Open, Write, Read
  <2>3. CASE Judge(q) \/ Clear(q)
    BY <1>2, <2>3 DEF Judge, Clear, Unlink, Throw, Forget
  <2>4. CASE UpdateRead(q) \/ UpdateTruncate(q) \/ UpdateFill(q)
    BY <1>2, <2>4 DEF UpdateRead, UpdateTruncate, UpdateFill, Inner
  <2>5. CASE Finish(q) \/ ReleaseRead(q) \/ ReleaseUnlink(q)
    BY <1>2, <2>5 DEF Finish, ReleaseRead, ReleaseUnlink, Unlink, Pop, Throw, Forget
  <2> QED
    BY <1>2, <2>1, <2>2, <2>3, <2>4, <2>5 DEF Step
<1> QED
  BY <1>1, <1>2 DEF Next

LEMMA TidyInvInductive ==
  ASSUME TypeOK, TypeOK', TidyInv, [Next]_vars
  PROVE  TidyInv'
<1> SUFFICES ASSUME NEW p \in Procs
             PROVE  Tidy(p)'
  BY DEF TidyInv
<1>1. CASE ~(Start(p) \/ Step(p) \/ Signal(p) \/ Die(p) \/ Reborn(p))
  BY <1>1, OwnName DEF TidyInv, Tidy, WillDrop
<1> USE NoProcAssumption
    DEF TypeOK, Files, Calls, NoFile, Lock, Torn, NoCall, At, Goto, Tidy, TidyInv, WillDrop
<1>2. CASE Start(p)
  BY <1>2 DEF Start
<1>3. CASE Open(p)
  BY <1>3 DEF Open
<1>4. CASE Write(p)
  BY <1>4 DEF Write, Acquired
<1>5. CASE Read(p)
  BY <1>5 DEF Read, ReadSendLock
<1>6. CASE Judge(p)
  BY <1>6 DEF Judge, Acquired, Throw, Forget
<1>7. CASE Clear(p)
  <2>1. file'.by # p
    BY <1>7 DEF Clear, Unlink
  <2>2. ASSUME call' = [call EXCEPT ![p].tries = @ + 1, ![p].seen = NoFile], Goto(p, "open")
        PROVE  Tidy(p)'
    <3>1. call'[p].frame = call[p].frame /\ call'[p].real = call[p].real
      BY <2>2
    <3> QED
      BY <1>7, <2>1, <2>2, <3>1 DEF Clear
  <2>3. CASE Throw(p)
    BY <1>7, <2>1, <2>3 DEF Clear, Throw, Forget
  <2> QED
    BY <1>7, <2>2, <2>3 DEF Clear
<1>8. CASE UpdateRead(p) \/ UpdateTruncate(p) \/ UpdateFill(p)
  <2>1. CASE UpdateRead(p)
    <3>1. call'[p].real = call[p].real /\ file' = file /\ left' = left /\ alive' = alive
      BY <2>1 DEF UpdateRead, Inner
    <3>2. \/ pc'[p] = "truncate" /\ call'[p].frame = call[p].frame
          \/ pc'[p] = "open" /\ call'[p].frame = 2
      BY <2>1 DEF UpdateRead, Inner
    <3>3. pc[p] = "update"
      BY <2>1 DEF UpdateRead
    <3> QED
      BY <3>1, <3>2, <3>3
  <2>2. CASE UpdateTruncate(p)
    BY <2>2 DEF UpdateTruncate
  <2>3. CASE UpdateFill(p)
    BY <2>3 DEF UpdateFill, Inner
  <2> QED
    BY <1>8, <2>1, <2>2, <2>3
<1>9. CASE Finish(p) \/ Signal(p) \/ Die(p) \/ Reborn(p)
  BY <1>9 DEF Finish, Signal, Die, Forget, Reborn
<1>10. CASE ReleaseRead(p)
  <2>1. CASE Goto(p, "unlink") /\ UNCHANGED <<alive, call>>
    BY <1>10, <2>1 DEF ReleaseRead
  <2> DEFINE mine == ReadSendLock.by \in {NoProc, p}
  <2>2. ASSUME Pop(p), call[p].quit PROVE Tidy(p)'
    <3>1. pc'[p] = "idle" /\ call'[p] = NoCall
      BY <2>2 DEF Pop, Forget
    <3>2. alive[p] /\ ~alive'[p] /\ file' = file
      BY <1>10, <2>2 DEF ReleaseRead, Pop
    <3>3. file'.by = p => left'
      BY <1>10, <3>2 DEF ReleaseRead
    <3> QED
      BY <3>1, <3>3
  <2>3. ASSUME Pop(p), ~call[p].quit, ~(call[p].frame \in call[p].real /\ mine)
        PROVE  Tidy(p)'
    <3>1. call[p].frame \in call[p].real => file.by # p
      BY <2>3 DEF ReadSendLock
    <3>2. alive' = alive /\ Throw(p)
      BY <2>3 DEF Pop
    <3>3. file' = file /\ left' = left /\ pc[p] = "release" /\ alive[p]
      BY <1>10, <3>2 DEF ReleaseRead
    <3>4. CASE call[p].frame = 2
      <4>1. pc'[p] = "release" /\ call'[p].real = call[p].real
        BY <3>2, <3>4 DEF Throw
      <4> QED
        BY <3>1, <3>2, <3>3, <3>4, <4>1
    <3>5. CASE call[p].frame = 1
      <4>1. pc'[p] = "idle" /\ call'[p] = NoCall
        BY <3>2, <3>5 DEF Throw, Forget
      <4>2. file.by = p => left
        BY <3>1, <3>3, <3>5
      <4> QED
        BY <3>3, <4>1, <4>2
    <3> QED
      BY <3>4, <3>5
  <2> QED
    BY <1>10, <2>1, <2>2, <2>3 DEF ReleaseRead
<1>11. CASE ReleaseUnlink(p)
  BY <1>11 DEF ReleaseUnlink, Unlink, Pop, Throw, Forget
<1> QED
  BY <1>1, <1>2, <1>3, <1>4, <1>5, <1>6, <1>7, <1>8, <1>9, <1>10, <1>11 DEF Step

(* A process whose send has ended leaves no lock of its own behind, robbed   *)
(* or not, for any number of processes, attempts, deaths and pids given      *)
(* again.                                                                    *)
THEOREM LocksAreCleared == Spec => []NoLockLeftBehind
<1>1. Init => TidyInv
  BY NoProcAssumption DEF Init, TidyInv, Tidy, WillDrop, NoCall, NoFile
<1>2. TypeOK /\ TypeOK' /\ TidyInv /\ [Next]_vars => TidyInv'
  BY TidyInvInductive
<1>3. TypeOK /\ TidyInv => NoLockLeftBehind
  BY DEF TypeOK, Calls, TidyInv, Tidy, WillDrop, NoLockLeftBehind, At
<1> QED
  BY <1>1, <1>2, <1>3, TypeCorrect, PTL DEF Spec

-----------------------------------------------------------------------------
(* SendLock implements OneHolder.  A step of p changes its own place among   *)
(* the walkers and among those who rely on the file, and nobody else's.      *)
LEMMA WalkersAfter ==
  ASSUME NEW p \in Procs,
         \A q \in Procs \ {p} : At(q, "walk")' <=> At(q, "walk")
  PROVE  /\ (At(p, "walk")' <=> At(p, "walk")) => Walkers' = Walkers
         /\ At(p, "walk")' => Walkers' = Walkers \cup {p}
         /\ ~At(p, "walk")' => Walkers' = Walkers \ {p}
BY DEF Walkers

LEMMA EachItsOwn ==
  ASSUME TypeOK, NEW p \in Procs, Start(p) \/ Step(p) \/ Signal(p) \/ Die(p) \/ Reborn(p)
  PROVE  \A q \in Procs \ {p} :
           /\ At(q, "walk")' <=> At(q, "walk")
           /\ alive'[q] = alive[q] /\ (Relies(q)' <=> Relies(q))
<1> USE DEF TypeOK, At, Goto, Relies
<1>1. CASE Start(p) \/ Signal(p) \/ Die(p) \/ Reborn(p)
  BY <1>1 DEF Start, Signal, Die, Forget, Reborn
<1>2. CASE Open(p) \/ Write(p) \/ Read(p)
  BY <1>2 DEF Open, Write, Read
<1>3. CASE Judge(p) \/ Clear(p)
  BY <1>3 DEF Judge, Clear, Unlink, Throw, Forget
<1>4. CASE UpdateRead(p) \/ UpdateTruncate(p) \/ UpdateFill(p)
  BY <1>4 DEF UpdateRead, UpdateTruncate, UpdateFill, Inner
<1>5. CASE Finish(p) \/ ReleaseRead(p) \/ ReleaseUnlink(p)
  BY <1>5 DEF Finish, ReleaseRead, ReleaseUnlink, Unlink, Pop, Throw, Forget
<1> QED
  BY <1>1, <1>2, <1>3, <1>4, <1>5 DEF Step

(* Who has the lock after a step of p that leaves the file in the name it    *)
(* was in.                                                                   *)
LEMMA HolderAfter ==
  ASSUME TypeOK, NEW p \in Procs, Start(p) \/ Step(p) \/ Signal(p) \/ Die(p) \/ Reborn(p),
         file'.by = file.by
  PROVE  /\ file.by # p => Holder' = Holder
         /\ file.by = p => Holder' = (IF alive'[p] /\ Relies(p)' THEN p ELSE NoProc)
<1>1. file.by \in Procs \cup {NoProc}
  BY DEF TypeOK, Files
<1> QED
  BY <1>1, EachItsOwn, NoProcAssumption DEF Holder

(* What a step of p makes of the abstract lock: nothing, or it takes the     *)
(* lock, enters, leaves, lets it go or dies.                                 *)
Stutters == UNCHANGED TheLock!vars

LEMMA StepOfTheLock ==
  ASSUME NEW p \in Procs,
         \/ Stutters \/ TheLock!Acquire(p) \/ TheLock!Enter(p) \/ TheLock!Leave(p)
         \/ TheLock!Release(p) \/ TheLock!Die(p) \/ TheLock!Robbed
  PROVE  [TheLock!Next]_(TheLock!vars)
BY Zenon DEF TheLock!Next, Stutters

(* A process that relies on the file has the lock. *)
LEMMA WhoReliesHasIt ==
  ASSUME NEW p \in Procs, Orderly(p)
  PROVE  /\ Relies(p) => alive[p] /\ file.by = p /\ Holder = p
         /\ ~Relies(p) => Holder # p
<1>1. Relies(p) => alive[p] /\ file.by = p
  BY DEF Orderly, Relies
<1> QED
  BY <1>1, NoProcAssumption DEF Holder

(* Taking it: the open, the write, and finding it in one's own name. *)
LEMMA TakingIt ==
  ASSUME TypeOK, TypeOK', NEW p \in Procs, ~robbed, Orderly(p), Orderly(p)',
         Open(p) \/ Write(p) \/ Read(p) \/ Judge(p)
  PROVE  Stutters \/ TheLock!Acquire(p) \/ TheLock!Enter(p)
<1> USE NoProcAssumption DEF TypeOK, At, Goto
<1>0. \A q \in Procs \ {p} : At(q, "walk")' <=> At(q, "walk")
  BY EachItsOwn DEF Step
<1>a. robbed' = robbed /\ alive' = alive
  BY DEF Open, Write, Read, Judge
<1>1. CASE Open(p)
  <2>1. Walkers' = Walkers
    BY <1>0, <1>1, WalkersAfter DEF Open
  <2>2. CASE file = NoFile /\ file' = Torn(p, cmd[p]) /\ Goto(p, "write")
    <3>1. Holder = NoProc
      BY <2>2 DEF Holder, NoFile
    <3>2. Relies(p)'
      BY <2>2 DEF Relies
    <3>3. Holder' = p
      BY <3>2, WhoReliesHasIt DEF Holder, Orderly, Relies
    <3> QED
      BY <1>a, <2>1, <3>1, <3>3 DEF TheLock!Acquire
  <2>3. CASE UNCHANGED file /\ Goto(p, "exists")
    <3>1. Relies(p)' <=> Relies(p)
      BY <1>1, <2>3 DEF Open, Relies
    <3>2. Holder' = Holder
      BY <1>1, <1>a, <2>3, <3>1, HolderAfter DEF Holder, Step
    <3> QED
      BY <1>a, <2>1, <3>2 DEF Stutters, TheLock!vars
  <2> QED
    BY <1>1, <2>2, <2>3 DEF Open
<1>2. CASE Write(p)
  <2>1. Relies(p) /\ Relies(p)'
    BY <1>2 DEF Write, Acquired, Relies
  <2>2. Holder = p /\ Holder' = p
    BY <2>1 DEF Orderly, Relies, Holder
  <2>3. Walkers' = Walkers \/ Walkers' = Walkers \cup {p}
    BY <1>0, <1>2, WalkersAfter DEF Write
  <2> QED
    BY <1>a, <2>2, <2>3 DEF Stutters, TheLock!vars, TheLock!Enter
<1>3. CASE Read(p)
  <2>1. ~At(p, "walk") /\ ~At(p, "walk")'
    BY <1>3 DEF Read
  <2>2. Walkers' = Walkers
    BY <1>0, <2>1, WalkersAfter
  <2>3. file' = file
    BY <1>3 DEF Read
  <2>4. Holder' = Holder \/ (Holder = NoProc /\ Holder' = p)
    <3>1. CASE Relies(p)
      <4>1. Relies(p)'
        BY <1>3, <3>1 DEF Read, Relies, Calls
      <4> QED
        BY <3>1, <4>1 DEF Orderly, Relies, Holder
    <3>2. CASE ~Relies(p)
      BY <1>3, <2>3, <3>2, HolderAfter DEF Step, Holder
    <3> QED
      BY <3>1, <3>2
  <2> QED
    BY <1>a, <2>2, <2>4 DEF Stutters, TheLock!vars, TheLock!Acquire
<1>4. CASE Judge(p)
  <2>1. file' = file
    BY <1>4 DEF Judge
  <2>2. CASE call[p].seen.by = p
    <3>1. Relies(p) /\ Relies(p)'
      BY <1>4, <2>2 DEF Judge, Relies, Acquired
    <3>2. Holder = p /\ Holder' = p
      BY <3>1 DEF Orderly, Relies, Holder
    <3>3. Walkers' = Walkers \/ Walkers' = Walkers \cup {p}
      BY <1>0, <1>4, <2>2, WalkersAfter DEF Judge
    <3> QED
      BY <1>a, <3>2, <3>3 DEF Stutters, TheLock!vars, TheLock!Enter
  <2>3. CASE call[p].seen.by # p
    <3>1. ~At(p, "walk") /\ ~At(p, "walk")'
      BY <1>4, <2>3 DEF Judge, Throw, Forget
    <3>2. Walkers' = Walkers
      BY <1>0, <3>1, WalkersAfter
    <3>3. call[p].frame = 1
      BY <1>4, <2>3 DEF Judge, Orderly, Calls
    <3>4. ~Relies(p) /\ ~Relies(p)'
      BY <1>4, <2>3, <3>3 DEF Judge, Relies, Throw, Forget, NoCall
    <3>5. Holder' = Holder
      BY <1>4, <2>1, <3>4, HolderAfter DEF Step, Holder
    <3> QED
      BY <1>a, <3>2, <3>5 DEF Stutters, TheLock!vars
  <2> QED
    BY <2>2, <2>3
<1> QED
  BY <1>1, <1>2, <1>3, <1>4

(* Keeping it: the update of the worker's lock leaves it the worker's. *)
LEMMA KeepingIt ==
  ASSUME TypeOK, NEW p \in Procs, ~robbed, Orderly(p), Orderly(p)',
         UpdateRead(p) \/ UpdateTruncate(p) \/ UpdateFill(p)
  PROVE  Stutters
<1> USE NoProcAssumption DEF TypeOK, At, Goto
<1>1. \A q \in Procs \ {p} : At(q, "walk")' <=> At(q, "walk")
  BY EachItsOwn DEF Step
<1>2. ~At(p, "walk") /\ ~At(p, "walk")'
  BY DEF UpdateRead, UpdateTruncate, UpdateFill, Inner
<1>3. Walkers' = Walkers
  BY <1>1, <1>2, WalkersAfter
<1>4. robbed' = robbed /\ alive' = alive
  BY DEF UpdateRead, UpdateTruncate, UpdateFill
<1>5. Relies(p) /\ Relies(p)'
  <2>1. CASE UpdateRead(p)
    BY <2>1 DEF UpdateRead, Inner, Relies, Calls
  <2>2. CASE UpdateTruncate(p)
    BY <2>2 DEF UpdateTruncate, Relies
  <2>3. CASE UpdateFill(p)
    BY <2>3 DEF UpdateFill, Inner, Relies, Calls
  <2> QED
    BY <2>1, <2>2, <2>3
<1>6. Holder = p /\ Holder' = p
  BY <1>5 DEF Orderly, Relies, Holder
<1> QED
  BY <1>3, <1>4, <1>6 DEF Stutters, TheLock!vars

(* Letting it go: the end of the walk, the release that drops it, and the    *)
(* return from a send whose lock was found.                                  *)
LEMMA LettingItGo ==
  ASSUME TypeOK, TypeOK', NEW p \in Procs, ~robbed, ~robbed', Orderly(p), Orderly(p)',
         Finish(p) \/ Signal(p) \/ ReleaseRead(p) \/ ReleaseUnlink(p)
  PROVE  Stutters \/ TheLock!Leave(p) \/ TheLock!Release(p)
<1> USE NoProcAssumption DEF TypeOK, At, Goto
<1>0. \A q \in Procs \ {p} : At(q, "walk")' <=> At(q, "walk")
  BY EachItsOwn DEF Step
<1>a. robbed' = robbed
  OBVIOUS
<1>b. Relies(p) /\ Holder = p /\ file.by = p
  <2>1. Relies(p)
    BY DEF Finish, Signal, ReleaseRead, ReleaseUnlink, Relies
  <2> QED
    BY <2>1, WhoReliesHasIt
<1>1. CASE Finish(p) \/ Signal(p)
  <2>1. ~At(p, "walk")'
    BY <1>1 DEF Finish, Signal
  <2>2. Walkers' = Walkers \ {p}
    BY <1>0, <2>1, WalkersAfter
  <2>3. Relies(p)'
    BY <1>1 DEF Finish, Signal, Relies
  <2>4. Holder' = p
    BY <2>3 DEF Orderly, Relies, Holder
  <2> QED
    BY <1>a, <1>b, <2>2, <2>4 DEF TheLock!Leave
<1>2. CASE ReleaseRead(p)
  <2>1. ~At(p, "walk") /\ ~At(p, "walk")'
    BY <1>2 DEF ReleaseRead, Pop, Throw, Forget
  <2>2. Walkers' = Walkers /\ p \notin Walkers
    BY <1>0, <2>1, WalkersAfter DEF Walkers
  <2>3. file' = file
    BY <1>2 DEF ReleaseRead
  <2>4. Holder' \in {p, NoProc}
    BY <1>2, <1>b, <2>3, HolderAfter DEF Step
  <2> QED
    BY <1>a, <1>b, <2>2, <2>4 DEF Stutters, TheLock!vars, TheLock!Release
<1>3. CASE ReleaseUnlink(p)
  <2>1. ~At(p, "walk") /\ ~At(p, "walk")'
    BY <1>3 DEF ReleaseUnlink, Pop, Throw, Forget
  <2>2. Walkers' = Walkers /\ p \notin Walkers
    BY <1>0, <2>1, WalkersAfter DEF Walkers
  <2>3. Holder' = NoProc
    BY <1>3 DEF ReleaseUnlink, Unlink, Holder, NoFile
  <2> QED
    BY <1>a, <1>b, <2>2, <2>3 DEF TheLock!Release
<1> QED
  BY <1>1, <1>2, <1>3

(* Clearing a lock that is stale takes it from nobody. *)
LEMMA ClearingIt ==
  ASSUME TypeOK, TypeOK', NEW p \in Procs, ~robbed, ~robbed', Orderly(p), Clear(p)
  PROVE  Stutters
<1> USE NoProcAssumption DEF TypeOK, At, Goto
<1>1. \A q \in Procs \ {p} : At(q, "walk")' <=> At(q, "walk")
  BY EachItsOwn DEF Step
<1>2. ~Relies(p)
  BY DEF Clear, Orderly, Relies
<1>3. ~At(p, "walk") /\ ~At(p, "walk")'
  BY DEF Clear, Throw, Forget
<1>4. Walkers' = Walkers
  BY <1>1, <1>3, WalkersAfter
<1>5. Holder = NoProc
  BY <1>2 DEF Clear, Unlink, Holder
<1>6. Holder' = NoProc
  BY DEF Clear, Unlink, Holder, NoFile
<1>7. robbed' = robbed
  OBVIOUS
<1> QED
  BY <1>4, <1>5, <1>6, <1>7 DEF Stutters, TheLock!vars

(* The rest touches no file: a start, a pid given to a new process, and a    *)
(* death, whose lock is nobody's.                                            *)
LEMMA BesideIt ==
  ASSUME TypeOK, NEW p \in Procs, Orderly(p), Orderly(p)',
         Start(p) \/ Die(p) \/ Reborn(p)
  PROVE  Stutters \/ TheLock!Die(p)
<1> USE NoProcAssumption DEF TypeOK, At, Goto
<1>1. \A q \in Procs \ {p} : At(q, "walk")' <=> At(q, "walk")
  BY EachItsOwn
<1>a. robbed' = robbed /\ file' = file
  BY DEF Start, Die, Reborn
<1>2. CASE Start(p) \/ Reborn(p)
  <2>1. ~At(p, "walk") /\ ~At(p, "walk")'
    BY <1>2 DEF Start, Reborn, Orderly
  <2>2. Walkers' = Walkers
    BY <1>1, <2>1, WalkersAfter
  <2>3. ~Relies(p) /\ ~Relies(p)'
    BY <1>2 DEF Start, Reborn, Orderly, Relies, Calls
  <2>4. Holder' = Holder
    BY <1>2, <1>a, <2>3, HolderAfter DEF Holder
  <2> QED
    BY <1>a, <2>2, <2>4 DEF Stutters, TheLock!vars
<1>3. CASE Die(p)
  <2>1. ~At(p, "walk")' /\ ~alive'[p]
    BY <1>3 DEF Die
  <2>2. Walkers' = Walkers \ {p}
    BY <1>1, <2>1, WalkersAfter
  <2>3. Holder' = IF Holder = p THEN NoProc ELSE Holder
    BY <1>3, <1>a, <2>1, HolderAfter DEF Holder
  <2> QED
    BY <1>a, <2>2, <2>3 DEF TheLock!Die
<1> QED
  BY <1>2, <1>3

LEMMA StepKeepsTheLock ==
  ASSUME TypeOK, TypeOK', LockInv, LockInv', [Next]_vars
  PROVE  [TheLock!Next]_(TheLock!vars)
<1>1. CASE UNCHANGED vars
  BY <1>1 DEF vars, TheLock!vars, Holder, Walkers, At, Relies
<1>2. CASE robbed'
  <2>1. Holder' \in Procs \cup {NoProc} /\ Walkers' \in SUBSET Procs
    BY DEF TypeOK, Files, Holder, Walkers
  <2> QED
    BY <1>2, <2>1 DEF TheLock!Next, TheLock!Robbed
<1>3. ASSUME ~robbed', NEW p \in Procs, Start(p) \/ Step(p) \/ Signal(p) \/ Die(p) \/ Reborn(p)
      PROVE  [TheLock!Next]_(TheLock!vars)
  <2>1. ~robbed
    <3>1. CASE Clear(p) \/ ReleaseUnlink(p)
      BY <1>3, <3>1, Zenon DEF Clear, ReleaseUnlink, Unlink
    <3>2. CASE ~(Clear(p) \/ ReleaseUnlink(p))
      BY <1>3, <3>2 DEF Step, Start, Open, Write, Read, Judge, UpdateRead,
                        UpdateTruncate, UpdateFill, Finish, Signal, ReleaseRead, Die, Reborn
    <3> QED
      BY <3>1, <3>2
  <2>2. Orderly(p) /\ Orderly(p)'
    BY <1>3, <2>1 DEF LockInv
  <2> QED
    BY <1>3, <2>1, <2>2, TakingIt, KeepingIt, LettingItGo, ClearingIt, BesideIt,
       StepOfTheLock DEF Step
<1> QED
  BY <1>1, <1>2, <1>3 DEF Next

(* What OneHolder promises of itself: whoever is at work has the lock. *)
LEMMA TheLockExcludes == TheLock!Spec => []TheLock!Exclusive
<1>1. TheLock!Init => TheLock!Exclusive
  BY DEF TheLock!Init, TheLock!Exclusive
<1>2. TheLock!Exclusive /\ [TheLock!Next]_(TheLock!vars) => TheLock!Exclusive'
  <2> SUFFICES ASSUME TheLock!Exclusive, [TheLock!Next]_(TheLock!vars)
               PROVE  TheLock!Exclusive'
    OBVIOUS
  <2>1. CASE UNCHANGED TheLock!vars \/ TheLock!Robbed
    BY <2>1 DEF TheLock!Exclusive, TheLock!vars, TheLock!Robbed
  <2>2. ASSUME NEW p \in Procs, TheLock!Acquire(p) \/ TheLock!Enter(p) \/ TheLock!Leave(p)
        PROVE  TheLock!Exclusive'
    BY <2>2, NoProcAssumption DEF TheLock!Exclusive, TheLock!Acquire, TheLock!Enter, TheLock!Leave
  <2>3. ASSUME NEW p \in Procs, TheLock!Release(p) \/ TheLock!Die(p)
        PROVE  TheLock!Exclusive'
    BY <2>3 DEF TheLock!Exclusive, TheLock!Release, TheLock!Die
  <2> QED
    BY <2>1, <2>2, <2>3 DEF TheLock!Next
<1> QED
  BY <1>1, <1>2, PTL DEF TheLock!Spec

(* Every run of SendLock is one of OneHolder: the exclusive open takes the   *)
(* lock, or the read of a predecessor's with the same pid, the unlink, the   *)
(* end of the send or a death lets it go, and the torn files, failed         *)
(* attempts, nested acquires, stale locks and reborn pids in between change  *)
(* nothing.                                                                  *)
THEOREM LockFileIsOneLock == Spec => IsOneHolder
<1>1. Init => TheLock!Init
  BY DEF Init, NoFile, Holder, Walkers, At, TheLock!Init
<1>2. TypeOK /\ TypeOK' /\ LockInv /\ LockInv' /\ [Next]_vars => [TheLock!Next]_(TheLock!vars)
  BY StepKeepsTheLock
<1>3. Init => LockInv
  BY NoProcAssumption DEF Init, LockInv, Orderly, Relies, NoCall, NoFile
<1>4. TypeOK /\ TypeOK' /\ LockInv /\ [Next]_vars => LockInv'
  BY LockInvInductive
<1> QED
  BY <1>1, <1>2, <1>3, <1>4, TypeCorrect, PTL DEF Spec, IsOneHolder, TheLock!Spec
=============================================================================
