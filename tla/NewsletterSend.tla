--------------------------- MODULE NewsletterSend ---------------------------
(***************************************************************************)
(* Sending one issue of a newsletter to a list: sendNewsletter and the     *)
(* daemon's runDueNewsletters (packages/core/src/core/newsletter.ts), the  *)
(* chunked walk of sendEach (core/mail/index.ts), the throttle recovery of *)
(* core/mail/retry.ts, the ledger and the edits of store/newsletters.ts,   *)
(* the daily cap of store/outreach.ts.                                     *)
(*                                                                         *)
(* A run is a place a call of sendNewsletter is made from, again and       *)
(* again: a command, the background worker, a TUI, an MCP tool call, or    *)
(* the daemon's turn.  A step is what runs between two awaits, or between  *)
(* two writes of the store when a crash could tell them apart.  The send   *)
(* lock is one atomic variable here; SendLock has its system calls.        *)
(***************************************************************************)
EXTENDS Integers, FiniteSets

CONSTANTS
  Contacts,    \* the people the issue may go to
  Lists,       \* the contact lists
  Members,     \* who is on each list
  Runs,        \* the places a send is started from
  Daemons,     \* the runs that are the daemon's turns
  Procs,       \* the processes (pids)
  ProcOf,      \* the process of each run
  Nobody,      \* a pid nobody has
  BatchSize,   \* messages in one call of the provider
  Cap,         \* outreach.maxEmailsPerDay
  Caps,        \* that and the values --max-per-day may have
  Limits,      \* the values --limit may have
  Times,       \* when the issue may be scheduled for
  Sessions,    \* the states the myna cloud session may be in
  Leavers,     \* the people who may leave in one behaviour
  OtherMail,   \* whether `myna email` sends under the same cap meanwhile
  MaxBeside,   \* bound: other messages that go out beside a run, and test copies
  MaxAsks,     \* bound: --retry-uncertain sends of one person's copy
  MaxDenials,  \* bound: one person's copies taken by a call that says they were not
  MaxCrashes   \* bound: processes killed in one behaviour

ASSUME ContactsAssumption == IsFiniteSet(Contacts)
ASSUME ListsAssumption == Members \in [Lists -> SUBSET Contacts]
ASSUME RunsAssumption == ProcOf \in [Runs -> Procs] /\ Daemons \subseteq Runs
ASSUME NobodyAssumption == Nobody \notin Procs
ASSUME SizesAssumption ==
  /\ BatchSize \in Nat \ {0} /\ Caps \subseteq Nat /\ Cap \in Caps /\ Limits \subseteq Nat
  /\ MaxAsks \in Nat /\ MaxDenials \in Nat /\ MaxBeside \in Nat /\ MaxCrashes \in Nat
ASSUME TimesAssumption == Times \subseteq {"never", "later", "now"}
ASSUME SessionsAssumption == Sessions \subseteq {"in", "expired", "out"}
ASSUME LeaversAssumption == Leavers \subseteq Contacts
ASSUME OtherMailAssumption == OtherMail \in BOOLEAN

VARIABLES
  \* the issue, in newsletters.json
  status,      \* draft, scheduled, sending, sent
  when,        \* scheduledFor: never, later (in the future) or now (past)
  list,        \* the list it goes to
  sentAt,      \* whether it has once been finished
  announced,   \* newsletter.sent events handed to the relay
  \* the ledger and the world it records
  ledger,      \* each person's delivery; retry is failed with retryable
  copies,      \* copies of the issue the provider took, per person
  asks,        \* times a --retry-uncertain send included the person
  denied,      \* history: copies taken by a call whose answer said they were not
  counted,     \* e-mails of the last 24 hours in outreach.json
  uncounted,   \* history: copies a provider took that no record counts (yet)
  allowed,     \* history: the highest cap a run was given
  leeway,      \* history: a chunk for each call a record cannot tell the copies of
  beside,      \* history: messages that went out beside a run, and test copies
  \* leaving
  optedOut,    \* contacts.json
  left,        \* pressed the hosted unsubscribe, not pulled yet
  session,     \* the myna cloud session
  \* processes
  lock,        \* the process holding the issue's send lock
  crashes,
  pc,          \* the next step of each run, and its local variables:
  opt,         \* the options it was called with
  owns,        \* its release drops the lock
  gone,        \* history: who had left when it pulled
  audience,    \* who is on the list it was called for, then who of them can be mailed
  todo,        \* the batch it has not marked yet
  chunk,       \* marked pending, its answer not handled yet
  answers,     \* the provider's answers to the call under way
  cut,         \* some were due and did not fit the cap or the limit
  stopped      \* the provider asked for a pause

issue == <<status, when, list, sentAt, announced>>
day == <<counted, uncounted, allowed, leeway, beside>>
mail == <<ledger, copies, asks, denied, day>>
leaving == <<optedOut, left, session>>
locals == <<opt, gone, audience, todo, chunk, answers, cut, stopped>>
vars == <<issue, mail, leaving, lock, crashes, pc, owns, locals>>

Statuses == {"draft", "scheduled", "sending", "sent"}
Whens == {"never", "later", "now"}
Deliveries == {"none", "pending", "sent", "failed", "retry"}
Places == {"idle", "picked", "sync", "begin", "mark", "answer", "close",
           "relay", "release"}
(* exhausted: refused for throttling three times (retry.ts) *)
Answers == {"ok", "died", "retry", "refused", "exhausted"}
NoAnswer == [c \in Contacts |-> "none"]

(* Without --limit a run takes what the cap leaves: a limit of the cap *)
Options ==
  {o \in [limit: Limits \cup Caps, cap: Caps, uncertain: BOOLEAN, failed: BOOLEAN] :
     o.limit \in Limits \cup {o.cap}}
NoOptions == [limit |-> Cap, cap |-> Cap, uncertain |-> FALSE, failed |-> FALSE]

Init ==
  /\ status = "draft" /\ when = "never" /\ list \in Lists
  /\ sentAt = FALSE /\ announced = 0
  /\ ledger = [c \in Contacts |-> "none"]
  /\ copies = [c \in Contacts |-> 0] /\ asks = [c \in Contacts |-> 0]
  /\ denied = [c \in Contacts |-> 0]
  /\ counted = 0 /\ uncounted = 0 /\ allowed = Cap /\ leeway = 0 /\ beside = 0
  /\ optedOut = {} /\ left = {} /\ session \in Sessions
  /\ lock = Nobody /\ crashes = 0
  /\ pc = [r \in Runs |-> "idle"]
  /\ opt = [r \in Runs |-> NoOptions]
  /\ owns = [r \in Runs |-> FALSE]
  /\ gone = [r \in Runs |-> {}]
  /\ audience = [r \in Runs |-> {}]
  /\ todo = [r \in Runs |-> {}]
  /\ chunk = [r \in Runs |-> {}]
  /\ answers = [r \in Runs |-> NoAnswer]
  /\ cut = [r \in Runs |-> FALSE]
  /\ stopped = [r \in Runs |-> FALSE]

Goto(r, place) == pc' = [pc EXCEPT ![r] = place]

(* A call's local variables go with its return, or with its process *)
Forget(S) ==
  /\ pc' = [r \in Runs |-> IF r \in S THEN "idle" ELSE pc[r]]
  /\ opt' = [r \in Runs |-> IF r \in S THEN NoOptions ELSE opt[r]]
  /\ owns' = [r \in Runs |-> IF r \in S THEN FALSE ELSE owns[r]]
  /\ gone' = [r \in Runs |-> IF r \in S THEN {} ELSE gone[r]]
  /\ audience' = [r \in Runs |-> IF r \in S THEN {} ELSE audience[r]]
  /\ todo' = [r \in Runs |-> IF r \in S THEN {} ELSE todo[r]]
  /\ chunk' = [r \in Runs |-> IF r \in S THEN {} ELSE chunk[r]]
  /\ answers' = [r \in Runs |-> IF r \in S THEN NoAnswer ELSE answers[r]]
  /\ cut' = [r \in Runs |-> IF r \in S THEN FALSE ELSE cut[r]]
  /\ stopped' = [r \in Runs |-> IF r \in S THEN FALSE ELSE stopped[r]]

(***************************************************************************)
(* Starting.  acquireSendLock is refused while another process holds the   *)
(* lock, and a no-op with a no-op release when this process does.  The     *)
(* issue is read now, and an edit of its list comes too late for this run. *)
(***************************************************************************)
Acquire(r, o) ==
  /\ lock \in {Nobody, ProcOf[r]}
  /\ lock' = ProcOf[r]
  /\ owns' = [owns EXCEPT ![r] = (lock = Nobody)]
  /\ opt' = [opt EXCEPT ![r] = o]
  /\ allowed' = IF o.cap > allowed THEN o.cap ELSE allowed
  /\ audience' = [audience EXCEPT ![r] = Members[list]]
  /\ Goto(r, "sync")
  /\ UNCHANGED <<issue, ledger, copies, asks, denied, counted, uncounted, leeway,
                 beside, leaving, crashes, gone, todo, chunk, answers, cut, stopped>>

(* A person, a worker or a tool call sends, whatever the status is *)
Start(r, o) ==
  /\ r \notin Daemons /\ pc[r] = "idle"
  /\ o.uncertain => \A c \in Contacts : asks[c] < MaxAsks
  /\ Acquire(r, o)

(* mutant: an issue part way out is not carried on *)
DaemonPickOnce(r) ==
  /\ r \in Daemons /\ pc[r] = "idle"
  /\ when = "now" /\ status = "scheduled"
  /\ Goto(r, "picked")
  /\ UNCHANGED <<issue, mail, leaving, lock, crashes, owns, locals>>

(* runDueNewsletters reads every due issue, then sends one after another *)
DaemonPick(r) ==
  /\ r \in Daemons /\ pc[r] = "idle"
  /\ when = "now" /\ status \in {"scheduled", "sending"}
  /\ Goto(r, "picked")
  /\ UNCHANGED <<issue, mail, leaving, lock, crashes, owns, locals>>

DaemonSend(r) == pc[r] = "picked" /\ Acquire(r, NoOptions)

(* Another process is sending it, or an earlier issue spent the cap *)
DaemonSkip(r) ==
  /\ pc[r] = "picked"
  /\ lock \notin {Nobody, ProcOf[r]} \/ counted >= Cap
  /\ Goto(r, "idle")
  /\ UNCHANGED <<issue, mail, leaving, lock, crashes, owns, locals>>

(***************************************************************************)
(* syncAllUnsubscribes, before the audience is read                        *)
(***************************************************************************)
PullAnswered(r) ==
  /\ optedOut' = optedOut \cup left
  /\ left' = {}
  /\ gone' = [gone EXCEPT ![r] = optedOut \cup left]
  /\ Goto(r, "begin")
  /\ UNCHANGED <<issue, mail, session, lock, crashes, owns, opt, audience,
                 todo, chunk, answers, cut, stopped>>

(* mutant: an unreadable source is only warned about, as for a test copy *)
PullFailedOpen(r) ==
  /\ gone' = [gone EXCEPT ![r] = optedOut \cup left]
  /\ Goto(r, "begin")
  /\ UNCHANGED <<issue, mail, leaving, lock, crashes, owns, opt, audience,
                 todo, chunk, answers, cut, stopped>>

(* Fail closed: the send throws *)
PullFailed(r) ==
  /\ gone' = [gone EXCEPT ![r] = optedOut \cup left]
  /\ Goto(r, "release")
  /\ UNCHANGED <<issue, mail, leaving, lock, crashes, owns, opt, audience,
                 todo, chunk, answers, cut, stopped>>

(* Signed out, syncUnsubscribes returns an empty result and no error *)
PullSkipped(r) ==
  /\ gone' = [gone EXCEPT ![r] = optedOut \cup left]
  /\ Goto(r, "begin")
  /\ UNCHANGED <<issue, mail, leaving, lock, crashes, owns, opt, audience,
                 todo, chunk, answers, cut, stopped>>

Sync(r) ==
  /\ pc[r] = "sync"
  /\ \/ session = "in" /\ PullAnswered(r)
     \/ session # "out" /\ PullFailed(r)
     \/ session = "out" /\ PullSkipped(r)

(***************************************************************************)
(* Who is due                                                              *)
(***************************************************************************)
Recipients(r) == audience[r] \ optedOut

(* mutant: rows left pending by a crash are sent again without being asked *)
DuePendingToo(r) ==
  {c \in Recipients(r) :
     \/ ledger[c] \in {"none", "retry", "pending"}
     \/ ledger[c] = "failed" /\ opt[r].failed}

Due(r) ==
  {c \in Recipients(r) :
     \/ ledger[c] \in {"none", "retry"}
     \/ ledger[c] = "pending" /\ opt[r].uncertain
     \/ ledger[c] = "failed" /\ opt[r].failed}

Least(m, n) == IF m <= n THEN m ELSE n
CapLeft(cap) == IF counted <= cap THEN cap - counted ELSE 0

(* mutant: the cap is read from the settings, not from what today left of it *)
RoomOfAFreshDay(o) == Least(o.cap, o.limit)

Room(o) == Least(CapLeft(o.cap), o.limit)

(* The first Room of the list: any, since a list may stand in any order *)
Begin(r) ==
  /\ pc[r] = "begin"
  /\ Recipients(r) # {}
  /\ \E batch \in SUBSET Due(r) :
       /\ Cardinality(batch) = Least(Cardinality(Due(r)), Room(opt[r]))
       /\ todo' = [todo EXCEPT ![r] = batch]
       /\ cut' = [cut EXCEPT ![r] = (batch # Due(r))]
       /\ asks' = [c \in Contacts |->
                     IF c \in batch /\ ledger[c] = "pending" /\ opt[r].uncertain
                     THEN asks[c] + 1 ELSE asks[c]]
       /\ Goto(r, IF batch = {} THEN "close" ELSE "mark")
  /\ audience' = [audience EXCEPT ![r] = Recipients(r)]
  /\ opt' = [opt EXCEPT ![r] = NoOptions]  \* not read again
  /\ UNCHANGED <<issue, ledger, copies, denied, day, leaving, lock, crashes, owns,
                 gone, chunk, answers, stopped>>

(* Nobody on the list, no sender, no postal address, no unsubscribe link *)
Refuse(r) ==
  /\ pc[r] = "begin"
  /\ Goto(r, "release")
  /\ UNCHANGED <<issue, mail, leaving, lock, crashes, owns, locals>>

(***************************************************************************)
(* sendEach: mark a chunk, call the provider, handle each answer           *)
(***************************************************************************)
(* mutant: the row is written only when the answer is in *)
MarkNothing(r, c) ==
  /\ pc[r] = "mark" /\ c \in todo[r]
  /\ Cardinality(chunk[r]) < BatchSize
  /\ todo' = [todo EXCEPT ![r] = @ \ {c}]
  /\ chunk' = [chunk EXCEPT ![r] = @ \cup {c}]
  /\ UNCHANGED <<issue, mail, leaving, lock, crashes, pc, owns, opt,
                 gone, audience, answers, cut, stopped>>

(* before: the row says pending ahead of the call *)
Mark(r, c) ==
  /\ pc[r] = "mark" /\ c \in todo[r]
  /\ Cardinality(chunk[r]) < BatchSize
  /\ ledger' = [ledger EXCEPT ![c] = "pending"]
  /\ todo' = [todo EXCEPT ![r] = @ \ {c}]
  /\ chunk' = [chunk EXCEPT ![r] = @ \cup {c}]
  /\ UNCHANGED <<issue, copies, asks, denied, day, leaving, lock, crashes, pc, owns,
                 opt, gone, audience, answers, cut, stopped>>

(* What the provider may answer to a chunk and take of it.  A connection    *)
(* that died says nothing of the copies it carried, and any other answer    *)
(* may deny a copy that was taken: a status whose body is lost is a failure *)
(* of the whole chunk, to be tried again or final, and a 5xx may come from  *)
(* a proxy or a server whose own answer was lost.  Only throttling is taken *)
(* at its word.  A chunk that was throttled as a whole is tried three       *)
(* times; else throttling is a retry.                                       *)
Exchange(S, reply, taken) ==
  /\ \A c \in S : (reply[c] = "ok" => c \in taken)
  /\ \A c \in taken : reply[c] # "exhausted"
  /\ (\E c \in S : reply[c] = "exhausted") => \A c \in S : reply[c] = "exhausted"

(* The copies that were taken though the answer says they were not *)
Denied(reply, taken) == {c \in taken : reply[c] \in {"retry", "refused"}}

Call(r) ==
  /\ pc[r] = "mark"
  /\ Cardinality(chunk[r]) = BatchSize \/ todo[r] = {}
  /\ \E reply \in [chunk[r] -> Answers], taken \in SUBSET chunk[r] :
       /\ Exchange(chunk[r], reply, taken)
       /\ \A c \in Denied(reply, taken) : denied[c] < MaxDenials
       /\ copies' = [c \in Contacts |->
                       IF c \in taken THEN copies[c] + 1 ELSE copies[c]]
       /\ denied' = [c \in Contacts |->
                       IF c \in Denied(reply, taken) THEN denied[c] + 1 ELSE denied[c]]
       /\ uncounted' = uncounted + Cardinality(taken)
       /\ leeway' = leeway + (IF \A c \in taken : reply[c] = "ok" THEN 0 ELSE BatchSize)
       /\ answers' = [answers EXCEPT ![r] =
                        [c \in Contacts |->
                           IF c \in chunk[r] THEN reply[c] ELSE "none"]]
  /\ Goto(r, "answer")
  /\ UNCHANGED <<issue, ledger, asks, counted, allowed, beside, leaving, lock, crashes,
                 owns, opt, gone, audience, todo, chunk, cut, stopped>>

(* mutant: a failed row is written over one that may have gone out *)
RowDiedIsFailed(was, answer) ==
  CASE answer = "ok" -> "sent"
    [] answer = "retry" -> "retry"
    [] answer \in {"died", "refused", "exhausted"} -> "failed"

(* The row after an answer *)
Row(was, answer) ==
  CASE answer = "ok" -> "sent"
    [] answer = "died" -> was
    [] answer = "retry" -> "retry"
    [] answer \in {"refused", "exhausted"} -> "failed"

(* With the chunk's last answer, stop or go on to the next chunk *)
Handled(r, c, stops) ==
  /\ stopped' = [stopped EXCEPT ![r] = stops]
  /\ chunk' = [chunk EXCEPT ![r] = @ \ {c}]
  /\ answers' = [answers EXCEPT ![r] = [@ EXCEPT ![c] = "none"]]
  /\ Goto(r, IF chunk[r] # {c} THEN "answer"
             ELSE IF stops \/ todo[r] = {} THEN "close" ELSE "mark")

(* The answers are handled one after another *)
Between(r) == pc[r] = "answer" /\ \A c \in chunk[r] : answers[r][c] # "recorded"

(* after, for a message that is out: recordDelivery ... *)
Record(r, c) ==
  /\ Between(r) /\ c \in chunk[r] /\ answers[r][c] = "ok"
  /\ ledger' = [ledger EXCEPT ![c] = Row(@, "ok")]
  /\ answers' = [answers EXCEPT ![r] = [@ EXCEPT ![c] = "recorded"]]
  /\ UNCHANGED <<issue, copies, asks, denied, day, leaving, lock, crashes, pc, owns,
                 opt, gone, audience, todo, chunk, cut, stopped>>

(* ... and recordSent, which the cap counts *)
Count(r, c) ==
  /\ pc[r] = "answer" /\ c \in chunk[r] /\ answers[r][c] = "recorded"
  /\ counted' = counted + 1 /\ uncounted' = uncounted - 1
  /\ Handled(r, c, stopped[r])
  /\ UNCHANGED <<issue, ledger, copies, asks, denied, allowed, leeway, beside, leaving,
                 lock, crashes, owns, opt, gone, audience, todo, cut>>

(* after, for one that is not: its record in outreach.json counts for nothing *)
After(r, c) ==
  LET answer == answers[r][c] IN
  /\ Between(r) /\ c \in chunk[r] /\ answer # "ok"
  /\ ledger' = [ledger EXCEPT ![c] = Row(@, answer)]
  /\ Handled(r, c, stopped[r] \/ answer \in {"died", "retry"})
  /\ UNCHANGED <<issue, copies, asks, denied, day, leaving, lock, crashes, owns, opt,
                 gone, audience, todo, cut>>

(***************************************************************************)
(* The end of a run                                                        *)
(***************************************************************************)
(* mutant: what the cap and --limit held back is not counted as remaining *)
DoneWhenCut(r) == todo[r] = {}

(* report.remaining = 0 *)
Done(r) == ~cut[r] /\ todo[r] = {}

(* mutant: every run that ends with nobody left announces the issue *)
FinishedAgain(r) == Done(r)

(* The first time there is nobody left *)
Finished(r) == Done(r) /\ ~sentAt

Close(r) ==
  /\ pc[r] = "close"
  /\ status' = IF Done(r) THEN "sent" ELSE "sending"
  /\ sentAt' = (sentAt \/ Done(r))
  /\ Goto(r, IF Finished(r) THEN "relay" ELSE "release")
  /\ UNCHANGED <<when, list, announced, mail, leaving, lock, crashes, owns, locals>>

(* relayEvents newsletter.sent, still under the lock *)
Relay(r) ==
  /\ pc[r] = "relay"
  /\ announced' = announced + 1
  /\ Goto(r, "release")
  /\ UNCHANGED <<status, when, list, sentAt, mail, leaving, lock, crashes, owns, locals>>

Release(r) ==
  /\ pc[r] = "release"
  /\ lock' = IF owns[r] /\ lock = ProcOf[r] THEN Nobody ELSE lock
  /\ Forget({r})
  /\ UNCHANGED <<issue, mail, leaving, crashes>>

(* Whether r's call has been made and its answers not all recorded *)
InCall(r) == pc[r] = "answer"

(* Killed: the lock it leaves is stale, and the next acquire clears it *)
Crash(p) ==
  /\ crashes < MaxCrashes
  /\ leeway' = leeway + (IF \E r \in Runs : ProcOf[r] = p /\ InCall(r) THEN BatchSize ELSE 0)
  /\ \E r \in Runs : ProcOf[r] = p /\ pc[r] # "idle"
  /\ crashes' = crashes + 1
  /\ lock' = IF lock = p THEN Nobody ELSE lock
  /\ Forget({r \in Runs : ProcOf[r] = p})
  /\ UNCHANGED <<issue, ledger, copies, asks, denied, counted, uncounted, allowed,
                 beside, leaving>>

(***************************************************************************)
(* Meanwhile: edits of the issue, the clock, other mail, people leaving    *)
(***************************************************************************)
(* editNewsletter's at and draft *)
Schedule(w) ==
  /\ status # "sent"
  /\ when' = w
  /\ status' = CASE status = "sending" -> "sending"
                 [] status # "sending" /\ w = "never" -> "draft"
                 [] status # "sending" /\ w # "never" -> "scheduled"
  /\ UNCHANGED <<list, sentAt, announced, mail, leaving, lock, crashes, pc, owns, locals>>

(* editNewsletter's list *)
EditList(l) ==
  /\ status \notin {"sent", "sending"}
  /\ list' = l
  /\ UNCHANGED <<status, when, sentAt, announced, mail, leaving, lock, crashes,
                 pc, owns, locals>>

TimePasses ==
  /\ when = "later" /\ when' = "now"
  /\ UNCHANGED <<status, list, sentAt, announced, mail, leaving, lock, crashes,
                 pc, owns, locals>>

(* A record of outreach.json is a day old *)
Expire ==
  /\ counted > 0 /\ counted' = counted - 1
  /\ UNCHANGED <<issue, ledger, copies, asks, denied, uncounted, allowed, leeway, beside,
                 leaving, lock, crashes, pc, owns, locals>>

Choosing(r) == pc[r] \in {"mark", "answer"}

(* `myna email` checks the cap, sends and records, with no run meanwhile *)
OtherSend ==
  /\ OtherMail /\ \A r \in Runs : ~Choosing(r)
  /\ counted < Cap /\ counted' = counted + 1
  /\ UNCHANGED <<issue, ledger, copies, asks, denied, uncounted, allowed, leeway, beside,
                 leaving, lock, crashes, pc, owns, locals>>

(* It checked before a run chose its batch, or while one was sending it; or  *)
(* a test copy, which asks neither the cap nor the lock                      *)
SendBeside ==
  /\ beside < MaxBeside /\ beside' = beside + 1
  /\ counted' = counted + 1
  /\ UNCHANGED <<issue, ledger, copies, asks, denied, uncounted, allowed, leeway, leaving,
                 lock, crashes, pc, owns, locals>>

(* The hosted unsubscribe page *)
Leave(c) ==
  /\ c \notin left \cup optedOut
  /\ left' = left \cup {c}
  /\ UNCHANGED <<issue, mail, optedOut, session, lock, crashes, pc, owns, locals>>

(* unsubscribe: the person asked the sender *)
OptOut(c) ==
  /\ c \notin optedOut
  /\ optedOut' = optedOut \cup {c}
  /\ UNCHANGED <<issue, mail, left, session, lock, crashes, pc, owns, locals>>

(* The daemon's turn when no issue is scheduled *)
DaemonPull ==
  /\ Daemons # {} /\ session = "in" /\ left # {}
  /\ when = "never" \/ status = "sent"
  /\ optedOut' = optedOut \cup left /\ left' = {}
  /\ UNCHANGED <<issue, mail, session, lock, crashes, pc, owns, locals>>

(* The session runs out, is signed out of or signed in again *)
Session(s) ==
  /\ session # s /\ session' = s
  /\ UNCHANGED <<issue, mail, optedOut, left, lock, crashes, pc, owns, locals>>

Step(r) ==
  \/ Sync(r) \/ Begin(r) \/ Refuse(r)
  \/ (\E c \in Contacts : Mark(r, c)) \/ Call(r)
  \/ (\E c \in Contacts : Record(r, c) \/ Count(r, c) \/ After(r, c))
  \/ Close(r) \/ Relay(r) \/ Release(r)
  \/ DaemonPick(r) \/ DaemonSend(r) \/ DaemonSkip(r)

Around ==
  \/ \E p \in Procs : Crash(p)
  \/ \E w \in Times : Schedule(w)
  \/ \E l \in Lists : EditList(l)
  \/ TimePasses \/ Expire \/ OtherSend \/ SendBeside \/ DaemonPull
  \/ \E c \in Leavers : Leave(c) \/ OptOut(c)
  \/ \E s \in Sessions : Session(s)

Next ==
  \/ \E r \in Runs : Step(r) \/ \E o \in Options : Start(r, o)
  \/ Around

Spec == Init /\ [][Next]_vars

(* A process runs on, days pass, and what fails for a while does not fail   *)
(* forever: a pull is answered, a send finds its sender, a provider settles *)
(* a whole chunk.  The daemon's timer fires again and again.                *)
Settles(r) ==
  Call(r) /\ \A c \in chunk[r] : answers'[r][c] \in {"ok", "refused", "exhausted"}

Fairness ==
  /\ WF_vars(Expire)
  /\ \A r \in Runs :
       /\ WF_vars(Step(r)) /\ SF_vars(DaemonSend(r))
       /\ SF_vars(Sync(r) /\ pc'[r] = "begin") /\ SF_vars(Begin(r))
       /\ SF_vars(Settles(r))

(* Nobody sends by hand for ever, and so holds the lock whenever the daemon *)
(* looks.                                                                   *)
ManualSendsEnd ==
  <>[][\A r \in Runs \ Daemons : pc[r] = "idle" => pc'[r] = "idle"]_vars

FairSpec == Spec /\ Fairness /\ ManualSendsEnd

(***************************************************************************)
(* Properties                                                              *)
(***************************************************************************)
(* The type of every variable. *)
TypeOK ==
  /\ status \in Statuses /\ when \in Whens /\ list \in Lists
  /\ sentAt \in BOOLEAN /\ announced \in Nat
  /\ ledger \in [Contacts -> Deliveries]
  /\ copies \in [Contacts -> Nat] /\ asks \in [Contacts -> Nat]
  /\ denied \in [Contacts -> Nat]
  /\ counted \in Nat /\ uncounted \in Int /\ allowed \in Nat
  /\ leeway \in Nat /\ beside \in Nat
  /\ optedOut \subseteq Contacts /\ left \subseteq Contacts
  /\ session \in Sessions
  /\ lock \in Procs \cup {Nobody} /\ crashes \in Nat
  /\ pc \in [Runs -> Places] /\ opt \in [Runs -> Options]
  /\ owns \in [Runs -> BOOLEAN]
  /\ gone \in [Runs -> SUBSET Contacts] /\ audience \in [Runs -> SUBSET Contacts]
  /\ todo \in [Runs -> SUBSET Contacts] /\ chunk \in [Runs -> SUBSET Contacts]
  /\ answers \in [Runs -> [Contacts -> Answers \cup {"none", "recorded"}]]
  /\ cut \in [Runs -> BOOLEAN] /\ stopped \in [Runs -> BOOLEAN]

(* README.md:68: "resumes from a per-recipient ledger so nobody gets an      *)
(* issue twice".  One copy, and one more for each time somebody asked for    *)
(* the uncertain ones again or a call's answer denied a copy it had taken,   *)
(* whatever crashes and stops happen.                                        *)
Allowance(c) == asks[c] + denied[c]
NobodyTwice == \A c \in Contacts : copies[c] <= 1 + Allowance(c)

(* --retry-failed, and the next run for a retry, send again without asking:  *)
(* a row that says so, or none, stands for a copy nobody took, unless it was *)
(* an answer that lied.  What a crash or a dead connection leaves open never *)
(* gets such a row.                                                          *)
Unrecorded(c) == ledger[c] \in {"none", "failed", "retry"}
NotTakenUnlessRecorded ==
  \A c \in Contacts : Unrecorded(c) => copies[c] <= Allowance(c)

(* The ledger keeps the promise of OneCopy: a row marks the attempt before   *)
(* the call, and only an answer that says nothing went out takes it back.    *)
Promise == INSTANCE OneCopy WITH
  owed <- {c \in Contacts : Unrecorded(c)},
  asks <- [c \in Contacts |-> Allowance(c)]
KeepsThePromise == Promise!Spec

(* newsletter-lock.ts:7, "two processes never walk the same ledger at once": *)
(* the lock this module sends under is the one SendLock is shown to make of  *)
(* files.  A process is at work from its look at the ledger to the last      *)
(* write; nobody is robbed of the lock here.                                 *)
Working == {p \in Procs : \E r \in Runs :
              ProcOf[r] = p /\ pc[r] \in {"begin", "mark", "answer", "close", "relay"}}
TheLock == INSTANCE OneHolder WITH holder <- lock, inside <- Working, robbed <- FALSE
SendsUnderOneLock == TheLock!Spec

(* newsletter.ts:846: "a list send never goes out while any unsubscribe      *)
(* source that is set up could not be read, so nobody who left is written to *)
(* again": nobody who had left when a run pulled is in what it sends.        *)
NobodyWhoHadLeft ==
  \A r \in Runs : (todo[r] \cup chunk[r]) \cap gone[r] = {}

(* The relay hears of the issue once, however often it is finished: by a     *)
(* --retry-failed, by a later run on a longer list.                          *)
AnnouncedOnce == announced <= 1

(* outreach.maxEmailsPerDay holds for the mail that really went out, not for *)
(* the records alone: with what calls that hid their copies and crashes      *)
(* carried, taken for as old as today's, the day exceeds the highest cap a   *)
(* run was given by a chunk at most for each such call, and by the messages  *)
(* that went out beside a run or as test copies.                             *)
CapHonoured == counted + uncounted <= allowed + leeway + beside

(* newsletter.ts:958: "Sent once everyone on the list has had their turn":   *)
(* no issue turns to sent, and so out of the daemon's reach, before          *)
(* everybody its last run found on the list has a row.                       *)
SentMeansEveryoneHadATurn ==
  [][(status # "sent" /\ status' = "sent") =>
       \A r \in Runs : (pc[r] = "close" /\ pc'[r] # "close") =>
         \A c \in audience[r] : ledger[c] # "none"]_vars

(* newsletter.ts:1115: the daemon carries on with an issue the cap cut       *)
(* short: while it stays scheduled, everybody on its list gets a turn.  (An  *)
(* edit of the list while a run is under way is another matter: that run     *)
(* still closes the issue.)                                                  *)
OnItsList(c) == c \in Members[list] \ optedOut
ScheduledIssueReachesEveryone ==
  \A c \in Contacts :
    (when = "now" /\ status \in {"scheduled", "sending"} /\ OnItsList(c))
      ~> (ledger[c] # "none" \/ when # "now" \/ ~OnItsList(c))
=============================================================================
