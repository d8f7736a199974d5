------------------------------ MODULE SendLock ------------------------------
(***************************************************************************)
(* The per-issue send lock (packages/core/src/core/newsletter-lock.ts) and *)
(* the two ways it is taken: a direct send (sendNewsletter, core/          *)
(* newsletter.ts) takes it once; the background worker (runSendWorker,     *)
(* apps/cli/src/cli/newsletter-blast.ts) takes it, updates it, and calls   *)
(* sendNewsletter, which takes it a second time.                           *)
(*                                                                         *)
(* One step is one system call on the lock file: the exclusive open, the   *)
(* write that fills it, the read, the unlink.  Between any two of them     *)
(* another process runs, or this one dies.  A process that died leaves its *)
(* pid, which the system may give to another: to myna, with the same       *)
(* command line or not, or to a foreign program.                           *)
(***************************************************************************)
EXTENDS Naturals, FiniteSets

CONSTANTS
  Procs,      \* the pids of processes that may send the issue
  NoProc,     \* a pid nobody has: an unreadable or absent lock
  Commands,   \* the command lines of myna (the daemon's, a send's)
  Foreign,    \* the command line of another program
  MaxTries,   \* attempts of one acquireSendLock call; 3 in the code
  MaxDeaths   \* bound: processes killed or signalled in one behaviour

ASSUME NoProcAssumption == NoProc \notin Procs
ASSUME CommandsAssumption == Foreign \notin Commands
ASSUME TriesAssumption == MaxTries \in Nat \ {0}
ASSUME DeathsAssumption == MaxDeaths \in Nat

VARIABLES
  file,       \* the lock file: its pid, the command line in it, whether it is whole
  alive,      \* which pids are a process's
  cmd,        \* the command line of each pid's present or last process
  pc,         \* the next system call of each process
  call,       \* the local variables of each process's send
  deaths,     \* how many have been killed or signalled
  left,       \* history: the lock file was left by a process that is gone
  robbed      \* history: a lock was unlinked by another under a process that lives

vars == <<file, alive, cmd, pc, call, deaths, left, robbed>>

(***************************************************************************)
(* The lock file.  It is torn between its creation (or truncation) and the *)
(* write of its text: JSON.parse fails on it.                              *)
(***************************************************************************)
NoFile == [by |-> NoProc, torn |-> FALSE, cmd |-> Foreign]
Lock(p, c) == [by |-> p, torn |-> FALSE, cmd |-> c]
Torn(p, c) == [by |-> p, torn |-> TRUE, cmd |-> c]
Files == [by: Procs \cup {NoProc}, torn: BOOLEAN, cmd: Commands \cup {Foreign}]

(* readSendLock: null for an absent or unreadable file *)
ReadSendLock == IF file.torn THEN NoFile ELSE file

(* mutant: the pid alone *)
LockIsLiveByPidAlone(lock) == lock # NoFile /\ alive[lock.by]

(* pidAlive, and the command line the lock was taken with *)
LockIsLive(lock) == lock # NoFile /\ alive[lock.by] /\ cmd[lock.by] = lock.cmd

(***************************************************************************)
(* A send's local variables: whether runSendWorker makes it, which acquire *)
(* is under way (1 the outer one, 2 sendNewsletter's inside the worker),   *)
(* the failed attempts of that acquire, the lock it last read, the frames  *)
(* whose release drops the lock rather than being a no-op, and whether a   *)
(* signal handler is on its way to process.exit.                           *)
(***************************************************************************)
Calls == [worker: BOOLEAN, frame: {1, 2}, tries: 0..(MaxTries - 1),
          seen: Files, real: SUBSET {1, 2}, quit: BOOLEAN]
NoCall == [worker |-> FALSE, frame |-> 1, tries |-> 0,
           seen |-> NoFile, real |-> {}, quit |-> FALSE]

Places == {"idle", "open", "exists", "judge", "clear", "write", "update",
           "truncate", "fill", "walk", "release", "unlink"}

Init ==
  /\ file = NoFile
  /\ alive = [p \in Procs |-> TRUE]
  /\ cmd \in [Procs -> Commands]
  /\ pc = [p \in Procs |-> "idle"]
  /\ call = [p \in Procs |-> NoCall]
  /\ deaths = 0 /\ left = FALSE /\ robbed = FALSE

Dies == deaths < MaxDeaths /\ deaths' = deaths + 1

At(p, place) == alive[p] /\ pc[p] = place
Goto(p, place) == pc' = [pc EXCEPT ![p] = place]

(* A process's memory goes with it, and a send's with its return *)
Forget(p) == Goto(p, "idle") /\ call' = [call EXCEPT ![p] = NoCall]

(* Whether p's process goes on under a lock in its name: it made the file,   *)
(* or found it there (a predecessor's, with the same pid)                    *)
Relies(p) ==
  \/ call[p].frame = 2
  \/ pc[p] \in {"write", "update", "truncate", "fill", "walk", "release", "unlink"}
  \/ pc[p] = "judge" /\ call[p].seen.by = p

(* Where acquireSendLock returns to once the lock is this process's *)
Acquired(p) == IF call[p].worker /\ call[p].frame = 1 THEN "update" ELSE "walk"

(* mutant: the worker's finally is skipped *)
ThrowPastFinally(p) == Forget(p)

(* A refused or failed acquire throws.  In the worker's inner one, runSend- *)
(* Worker catches it and its finally releases the outer one.                *)
Throw(p) ==
  IF call[p].frame = 2
  THEN Goto(p, "release") /\ call' = [call EXCEPT ![p].frame = 1]
  ELSE Forget(p)

(***************************************************************************)
(* acquireSendLock                                                         *)
(***************************************************************************)
Start(p) ==
  /\ At(p, "idle") /\ cmd[p] # Foreign
  /\ \E w \in BOOLEAN : call' = [call EXCEPT ![p].worker = w]
  /\ Goto(p, "open")
  /\ UNCHANGED <<file, alive, cmd, deaths, left, robbed>>

(* mutant: openSync(path, "w") *)
OpenOverwriting(p) ==
  /\ At(p, "open")
  /\ file' = Torn(p, cmd[p]) /\ left' = FALSE
  /\ Goto(p, "write")
  /\ UNCHANGED <<alive, cmd, call, deaths, robbed>>

(* openSync(path, "wx") *)
Open(p) ==
  /\ At(p, "open")
  /\ \/ file = NoFile /\ file' = Torn(p, cmd[p]) /\ left' = FALSE /\ Goto(p, "write")
     \/ file # NoFile /\ UNCHANGED <<file, left>> /\ Goto(p, "exists")
  /\ UNCHANGED <<alive, cmd, call, deaths, robbed>>

(* writeFileSync(fd): lost when the path no longer names the file fd opened *)
Write(p) ==
  /\ At(p, "write")
  /\ file' = IF file = Torn(p, cmd[p]) THEN Lock(p, cmd[p]) ELSE file
  /\ call' = [call EXCEPT ![p].real = @ \cup {call[p].frame}]
  /\ Goto(p, Acquired(p))
  /\ UNCHANGED <<alive, cmd, deaths, left, robbed>>

(* EEXIST: read who holds it *)
Read(p) ==
  /\ At(p, "exists")
  /\ call' = [call EXCEPT ![p].seen = ReadSendLock]
  /\ Goto(p, "judge")
  /\ UNCHANGED <<file, alive, cmd, deaths, left, robbed>>

(* In this process's pid, its own or a dead predecessor's: a no-op release.  *)
(* Live: SendLockedError.  Else clear.                                       *)
Judge(p) ==
  /\ At(p, "judge")
  /\ LET held == call[p].seen IN
       \/ held.by = p /\ Goto(p, Acquired(p)) /\ UNCHANGED call
       \/ held.by # p /\ LockIsLive(held) /\ Throw(p)
       \/ held.by # p /\ ~LockIsLive(held) /\ Goto(p, "clear") /\ UNCHANGED call
  /\ UNCHANGED <<file, alive, cmd, deaths, left, robbed>>

(* unlinkSync takes whatever the path names by now *)
Unlink(p) ==
  /\ file' = NoFile /\ left' = FALSE
  /\ robbed' = (robbed \/ (file.by \notin {NoProc, p} /\ alive[file.by] /\ Relies(file.by)))

Clear(p) ==
  /\ At(p, "clear")
  /\ Unlink(p)
  /\ \/ /\ call[p].tries + 1 < MaxTries
        /\ call' = [call EXCEPT ![p].tries = @ + 1, ![p].seen = NoFile]
        /\ Goto(p, "open")
     \/ call[p].tries + 1 = MaxTries /\ Throw(p)
  /\ UNCHANGED <<alive, cmd, deaths>>

(***************************************************************************)
(* updateSendLock, between the worker's two acquires                       *)
(***************************************************************************)
Inner(p) ==
  /\ call' = [call EXCEPT ![p].frame = 2, ![p].tries = 0, ![p].seen = NoFile]
  /\ Goto(p, "open")

UpdateRead(p) ==
  /\ At(p, "update")
  /\ \/ /\ ReadSendLock.by = p /\ Goto(p, "truncate")
        /\ call' = [call EXCEPT ![p].seen = ReadSendLock]
     \/ ReadSendLock.by # p /\ Inner(p)
  /\ UNCHANGED <<file, alive, cmd, deaths, left, robbed>>

(* writeFileSync(path) truncates, or creates when the path is gone, ...  A   *)
(* lock that was only found stays nobody's to drop.                          *)
UpdateTruncate(p) ==
  /\ At(p, "truncate")
  /\ file' = Torn(p, call[p].seen.cmd)
  /\ left' = (call[p].real = {})
  /\ Goto(p, "fill")
  /\ UNCHANGED <<alive, cmd, call, deaths, robbed>>

(* ... then writes the merged lock, its command line as it was *)
UpdateFill(p) ==
  /\ At(p, "fill")
  /\ LET c == call[p].seen.cmd
     IN  file' = IF file = Torn(p, c) THEN Lock(p, c) ELSE file
  /\ Inner(p)
  /\ UNCHANGED <<alive, cmd, deaths, left, robbed>>

(***************************************************************************)
(* releaseSendLock                                                         *)
(***************************************************************************)
(* sendNewsletterUnlocked returned or threw: the finally runs *)
Finish(p) ==
  /\ At(p, "walk")
  /\ Goto(p, "release")
  /\ UNCHANGED <<file, alive, cmd, call, deaths, left, robbed>>

(* SIGTERM reaches the worker while it awaits the provider *)
Signal(p) ==
  /\ At(p, "walk")
  /\ call[p].worker
  /\ Dies
  /\ call' = [call EXCEPT ![p].quit = TRUE]
  /\ Goto(p, "release")
  /\ UNCHANGED <<file, alive, cmd, left, robbed>>

(* A release has returned: to process.exit, to the outer frame, or for good *)
Pop(p) ==
  \/ /\ call[p].quit
     /\ Forget(p)
     /\ alive' = [alive EXCEPT ![p] = FALSE]
  \/ /\ ~call[p].quit
     /\ Throw(p)
     /\ UNCHANGED alive

ReleaseRead(p) ==
  LET drops == call[p].quit \/ call[p].frame \in call[p].real
      mine == ReadSendLock.by \in {NoProc, p}
  IN
  /\ At(p, "release")
  /\ \/ drops /\ mine /\ Goto(p, "unlink") /\ UNCHANGED <<alive, call>>
     \/ ~(drops /\ mine) /\ Pop(p)
  /\ left' = (left \/ (alive'[p] # alive[p] /\ file.by = p))
  /\ UNCHANGED <<file, cmd, deaths, robbed>>

ReleaseUnlink(p) ==
  /\ At(p, "unlink")
  /\ Unlink(p)
  /\ Pop(p)
  /\ UNCHANGED <<cmd, deaths>>

(* Killed outright, between any two system calls: the file stays as it is *)
Die(p) ==
  /\ alive[p] /\ Dies
  /\ alive' = [alive EXCEPT ![p] = FALSE]
  /\ left' = (left \/ file.by = p)
  /\ Forget(p)
  /\ UNCHANGED <<file, cmd, robbed>>

(* The system gives the pid to a new process *)
Reborn(p) ==
  /\ ~alive[p]
  /\ alive' = [alive EXCEPT ![p] = TRUE]
  /\ \E c \in Commands \cup {Foreign} : cmd' = [cmd EXCEPT ![p] = c]
  /\ UNCHANGED <<file, pc, call, deaths, left, robbed>>

Step(p) ==
  \/ Open(p) \/ Write(p) \/ Read(p) \/ Judge(p) \/ Clear(p)
  \/ UpdateRead(p) \/ UpdateTruncate(p) \/ UpdateFill(p)
  \/ Finish(p) \/ ReleaseRead(p) \/ ReleaseUnlink(p)

Next ==
  \E p \in Procs : Start(p) \/ Step(p) \/ Signal(p) \/ Die(p) \/ Reborn(p)

(* A process runs until it exits; the daemon and the user try again later.   *)
(* Nobody has to die or to be given a pid.                                   *)
Fairness == \A p \in Procs : WF_vars(Step(p)) /\ WF_vars(Start(p))

Spec == Init /\ [][Next]_vars
FairSpec == Spec /\ Fairness

(***************************************************************************)
(* Properties                                                              *)
(***************************************************************************)
(* The type of every variable. *)
TypeOK ==
  /\ file \in Files
  /\ alive \in [Procs -> BOOLEAN]
  /\ pc \in [Procs -> Places]
  /\ cmd \in [Procs -> Commands \cup {Foreign}]
  /\ call \in [Procs -> Calls]
  /\ deaths \in 0..MaxDeaths
  /\ left \in BOOLEAN /\ robbed \in BOOLEAN

(* newsletter-lock.ts:7: "two processes never walk the same ledger at once". *)
OneWalker ==
  \A p, q \in Procs : At(p, "walk") /\ At(q, "walk") => p = q

(* The only way to two walkers is the unlink of a lock by another under a    *)
(* process that lives, which made it or found it in its own name: crashes at *)
(* any system call, stale and torn locks, pids that are used again, nested   *)
(* acquires, signals and updates never bring a second process into the       *)
(* ledger by themselves.                                                     *)
OnlyRobberyAdmitsTwo == ~robbed => OneWalker

(* A process whose send has ended leaves no lock of its own behind, robbed   *)
(* or not, whichever frame really took it.  What it found in its own name    *)
(* (newsletter-lock.ts:103) stays, as a predecessor left it.                 *)
NoLockLeftBehind ==
  \A p \in Procs : At(p, "idle") /\ file.by = p => left

(* newsletter-lock.ts:7, as a specification: the lock file is one lock, taken *)
(* and let go at once.  A process has it from the exclusive open on, or from  *)
(* the read of one in its name, and is at work while it walks the ledger; a   *)
(* file that was left is nobody's, and clearing it changes nothing.           *)
Holder ==
  IF file.by # NoProc /\ alive[file.by] /\ Relies(file.by) THEN file.by ELSE NoProc
Walkers == {p \in Procs : At(p, "walk")}
TheLock == INSTANCE OneHolder WITH Nobody <- NoProc, holder <- Holder, inside <- Walkers
IsOneHolder == TheLock!Spec

(* newsletter-lock.ts:8: "A lock whose pid is gone, or whose pid now belongs *)
(* to some other program, is stale and is cleared."  One that was left,      *)
(* complete or torn, does not stop the issue for good, though its pid be     *)
(* given to others, as long as some other process tries to send; only a      *)
(* successor with the same command line may take it over.                    *)
Stale(p) == file.by = p /\ left /\ (~alive[p] \/ cmd[p] # file.cmd \/ file.torn)
StaleLockIsCleared ==
  \A p \in Procs :
    Stale(p) ~> (~Stale(p) \/ \A q \in Procs \ {p} : ~alive[q] \/ cmd[q] = Foreign)
=============================================================================
