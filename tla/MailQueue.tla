------------------------------ MODULE MailQueue ------------------------------
(***************************************************************************)
(* The queue every Resend and Gmail message of myna goes through           *)
(* (packages/email-queue/src/index.ts): queuedDelivery, the worker it      *)
(* starts, the daily quota, the breaker and its pause, and the operator's  *)
(* cancelEmail, pauseEmailQueue and resumeEmailQueue.                      *)
(*                                                                         *)
(* A message is one job id: one sender, one recipient, one dedupe key.     *)
(* Each process makes one call of queuedDelivery at a time (pc, at); from  *)
(* the moment its job is in the queue it also runs a worker, which takes   *)
(* any job that waits there (wk, on).  A step is one command of Redis or   *)
(* one exchange with the provider; the two reads before an enqueue, and    *)
(* the two before a send, are one step each.  There is no audit store, as  *)
(* myna passes none.  One window of the quota is modelled, and a receipt   *)
(* outlives it (30 days).                                                  *)
(*                                                                         *)
(* Redis and BullMQ are modelled by what the code relies on: adding a job  *)
(* id that exists changes nothing, a paused queue hands out no job, a job  *)
(* is handed to one worker at a time, and the job of a worker that died,   *)
(* or did not renew its lock on the job, is handed out once more, then     *)
(* failed.  The connections of a process are lost together, for good       *)
(* (connectRedis gives up after three attempts), or one command fails.     *)
(***************************************************************************)
EXTENDS Naturals, FiniteSets

CONSTANTS
  Messages,   \* the messages, by job id
  NoMessage,  \* what a process has in hand between two of them
  Procs,      \* the processes that send
  Limit,      \* the smallest quota: messages a day
  Acts,       \* what others do meanwhile: cancel, pause, suppress
  MaxFaults   \* bound: crashes, failed commands and false answers

ASSUME MessagesAssumption == IsFiniteSet(Messages) /\ NoMessage \notin Messages
ASSUME ProcsAssumption == IsFiniteSet(Procs)
ASSUME ActsAssumption == Acts \subseteq {"cancel", "pause", "suppress"}
ASSUME SizesAssumption == Limit \in Nat \ {0} /\ MaxFaults \in Nat

VARIABLES
  \* Redis
  job,          \* none, waiting, active, completed, failed
  receipt,      \* the return value a completed job keeps
  used,         \* the quota counter
  breaker,      \* whether circuitKey is set
  paused,       \* whether the queue is
  suppressed,   \* messages whose recipient is on the suppression list
  pausing,      \* processes whose queue.pause() is on its way
  operator,     \* the operator: idle, pausing, resuming
  \* processes
  pc, at,       \* the step of queuedDelivery, and its message
  deaf,         \* processes whose connections to Redis have ended
  wk, on, res,  \* the step of the worker, its message and result
  lapsed,       \* workers that lost the lock on their job
  \* history
  copies,       \* copies the provider took, per message
  taken,        \* and of all messages together
  redelivered,  \* times the job was handed out after its worker died or lapsed
  denied,       \* times a refusal stood for a copy that was taken
  faults

redis == <<job, receipt, used, breaker, paused, suppressed>>
producer == <<pc, at, deaf>>
worker == <<wk, on, res, lapsed>>
counts == <<copies, taken, redelivered, denied>>
history == <<counts, faults>>
vars == <<redis, pausing, operator, producer, worker, history>>

JobStates == {"none", "waiting", "active", "completed", "failed"}
Places == {"idle", "check", "lookup", "reserve", "add", "giveback", "await",
           "pause", "close"}
Turns == {"idle", "gate", "send", "answered", "refund", "complete"}
(* accepted; unknown: no answer, or status 0; refused: this message only;   *)
(* bounced: no such mailbox; restricted: the sender must stop, which is any *)
(* decision of providerCircuitDecision, three throttles among them; gated:  *)
(* the worker did not send                                                  *)
Answers == {"accepted", "unknown", "refused", "bounced", "restricted"}
Results == Answers \cup {"gated"}
Refusals == Results \ {"accepted", "unknown"}

Init ==
  /\ job = [m \in Messages |-> "none"]
  /\ receipt = [m \in Messages |-> "none"]
  /\ used = 0 /\ breaker = FALSE /\ paused = FALSE /\ suppressed = {}
  /\ pausing = {} /\ operator = "idle"
  /\ pc = [p \in Procs |-> "idle"] /\ at = [p \in Procs |-> NoMessage]
  /\ wk = [p \in Procs |-> "idle"] /\ on = [p \in Procs |-> NoMessage]
  /\ res = [p \in Procs |-> "none"]
  /\ deaf = {} /\ lapsed = {}
  /\ copies = [m \in Messages |-> 0] /\ redelivered = [m \in Messages |-> 0]
  /\ denied = [m \in Messages |-> 0]
  /\ taken = 0 /\ faults = 0

Goto(p, place) == pc' = [pc EXCEPT ![p] = place] /\ UNCHANGED <<at, deaf>>

(* The next call opens connections of its own *)
Return(p) ==
  /\ pc' = [pc EXCEPT ![p] = "idle"] /\ at' = [at EXCEPT ![p] = NoMessage]
  /\ deaf' = deaf \ {p}

Fault == faults < MaxFaults /\ faults' = faults + 1

(* refundScript: never below zero *)
Less == used' = IF used > 0 THEN used - 1 ELSE 0

(***************************************************************************)
(* queuedDelivery                                                          *)
(***************************************************************************)
Submit(p, m) ==
  /\ pc[p] = "idle"
  /\ pc' = [pc EXCEPT ![p] = "check"] /\ at' = [at EXCEPT ![p] = m]
  /\ UNCHANGED <<redis, pausing, operator, deaf, worker, history>>

(* openCircuit and getSuppression *)
Check(p) ==
  /\ pc[p] = "check"
  /\ IF breaker \/ at[p] \in suppressed THEN Return(p) ELSE Goto(p, "lookup")
  /\ UNCHANGED <<redis, pausing, operator, worker, history>>

(* queue.getJob *)
Lookup(p) ==
  /\ pc[p] = "lookup"
  /\ Goto(p, IF job[at[p]] = "none" THEN "reserve" ELSE "await")
  /\ UNCHANGED <<redis, pausing, operator, worker, history>>

(* reserveQuota, atomic over its scopes; an exhausted one is answered       *)
(* "retryable" and leaves no job                                            *)
Reserve(p) ==
  /\ pc[p] = "reserve"
  /\ \/ used < Limit /\ used' = used + 1 /\ Goto(p, "add")
     \/ used = Limit /\ UNCHANGED used /\ Return(p)
  /\ UNCHANGED <<job, receipt, breaker, paused, suppressed, pausing, operator,
                 worker, history>>

(* mutant: a job another process is sending is put back in the queue *)
EnqueueActive(m) ==
  job' = [job EXCEPT ![m] = IF @ \in {"none", "active"} THEN "waiting" ELSE @]

(* mutant: a message that was not accepted is queued again *)
EnqueueRefused(m) ==
  job' = [job EXCEPT ![m] =
            IF @ = "none" \/ receipt[m] \in {"refused", "unknown"}
            THEN "waiting" ELSE @]

(* Adding a job id that exists changes nothing *)
Enqueue(m) ==
  job' = [job EXCEPT ![m] = IF @ = "none" THEN "waiting" ELSE @]

(* queue.add, and the worker starts *)
Add(p) ==
  /\ pc[p] = "add"
  /\ Enqueue(at[p])
  /\ Goto(p, "await")
  /\ UNCHANGED <<receipt, used, breaker, paused, suppressed, pausing, operator,
                 worker, history>>

(* queue.add threw: the command or only its answer was lost *)
AddFails(p) ==
  /\ pc[p] = "add" /\ Fault
  /\ UNCHANGED job \/ Enqueue(at[p])
  /\ Goto(p, "giveback")
  /\ UNCHANGED <<receipt, used, breaker, paused, suppressed, pausing, operator,
                 worker, counts>>

(* refundQuota, whose failure is ignored *)
GiveBack(p) ==
  /\ pc[p] = "giveback"
  /\ Less \/ UNCHANGED used
  /\ Return(p)
  /\ UNCHANGED <<job, receipt, breaker, paused, suppressed, pausing, operator,
                 worker, history>>

(* getState, or the end of waitUntilFinished, which looks at the breaker *)
Observe(p) ==
  /\ pc[p] = "await" /\ p \notin deaf /\ job[at[p]] \in {"completed", "failed"}
  /\ \/ Goto(p, "close")
     \/ breaker /\ job[at[p]] = "completed" /\ Goto(p, "pause")
  /\ UNCHANGED <<redis, pausing, operator, worker, history>>

Pause(p) ==
  /\ pc[p] = "pause"
  /\ paused' = TRUE
  /\ Goto(p, "close")
  /\ UNCHANGED <<job, receipt, used, breaker, suppressed, pausing, operator,
                 worker, history>>

(* worker.close waits for the job the worker is at *)
Close(p) ==
  /\ pc[p] = "close" /\ wk[p] = "idle"
  /\ Return(p)
  /\ UNCHANGED <<redis, pausing, operator, worker, history>>

(* Redis cannot be reached before there is a job: queuedDelivery throws,    *)
(* and a reservation whose answer was lost stays                            *)
Unavailable(p) ==
  /\ pc[p] \in {"check", "lookup", "reserve"} /\ Fault
  /\ \/ UNCHANGED used
     \/ pc[p] = "reserve" /\ used < Limit /\ used' = used + 1
  /\ Return(p)
  /\ UNCHANGED <<job, receipt, breaker, paused, suppressed, pausing, operator,
                 worker, counts>>

(* Redis is lost while there is a worker.  A getState, a look at the        *)
(* breaker or a pause that follows throws, and the call closes;             *)
(* waitUntilFinished may never end.  Nobody renews the lock on the job.     *)
LoseRedis(p) ==
  /\ pc[p] \in {"await", "pause", "close"} /\ p \notin deaf /\ Fault
  /\ deaf' = deaf \cup {p} /\ UNCHANGED at
  /\ \/ pc' = [pc EXCEPT ![p] = "close"]
     \/ pc[p] = "await" /\ UNCHANGED pc
  /\ lapsed' = IF wk[p] = "idle" THEN lapsed ELSE lapsed \cup {p}
  /\ pausing' \in {pausing, pausing \ {p}}
  /\ UNCHANGED <<redis, operator, wk, on, res, counts>>

(***************************************************************************)
(* The worker: processDeliveryJob                                          *)
(***************************************************************************)
Turn(p, turn) == wk' = [wk EXCEPT ![p] = turn] /\ UNCHANGED <<on, lapsed>>

(* The worker is done with its job *)
Rest(p) ==
  /\ wk' = [wk EXCEPT ![p] = "idle"] /\ on' = [on EXCEPT ![p] = NoMessage]
  /\ res' = [res EXCEPT ![p] = "none"]
  /\ lapsed' = lapsed \ {p}

Take(p, m) ==
  /\ pc[p] \in {"await", "pause"} /\ p \notin deaf /\ wk[p] = "idle"
  /\ ~paused /\ job[m] = "waiting"
  /\ job' = [job EXCEPT ![m] = "active"]
  /\ wk' = [wk EXCEPT ![p] = "gate"] /\ on' = [on EXCEPT ![p] = m]
  /\ UNCHANGED <<receipt, used, breaker, paused, suppressed, pausing, operator,
                 producer, res, lapsed, history>>

(* openCircuit; readJobMessage, getSuppression and bulkComplianceFailure *)
Gate(p) ==
  /\ wk[p] = "gate" /\ p \notin deaf
  /\ \/ ~breaker /\ on[p] \notin suppressed /\ Turn(p, "send")
        /\ UNCHANGED <<res, pausing>>
     \/ /\ Turn(p, "refund") /\ res' = [res EXCEPT ![p] = "gated"]
        /\ pausing' = IF breaker THEN pausing \cup {p} ELSE pausing
  /\ UNCHANGED <<redis, operator, producer, history>>

(* openCircuit or getSuppression threw: BullMQ fails the job, which has one *)
(* attempt, without a result and without a refund                           *)
GateFails(p) ==
  /\ wk[p] = "gate" /\ p \notin deaf /\ Fault
  /\ job' = IF p \in lapsed THEN job ELSE [job EXCEPT ![on[p]] = "failed"]
  /\ Rest(p)
  /\ UNCHANGED <<receipt, used, breaker, paused, suppressed, pausing, operator,
                 producer, counts>>

(* sendWithThrottleRecovery, its attempts as one exchange: a throttle is a  *)
(* definite refusal.  A message that is not answered may have been taken,   *)
(* and so may one refused by somebody before the provider, a proxy's 5xx.   *)
Send(p) ==
  /\ wk[p] = "send"
  /\ \E a \in Answers, n \in {0, 1} :
       /\ a = "accepted" => n = 1
       /\ \/ /\ a \notin Refusals \/ n = 0
             /\ UNCHANGED <<denied, faults>>
          \/ /\ a \in Refusals /\ n = 1 /\ Fault
             /\ denied' = [denied EXCEPT ![on[p]] = @ + 1]
       /\ res' = [res EXCEPT ![p] = a]
       /\ copies' = [copies EXCEPT ![on[p]] = @ + n] /\ taken' = taken + n
  /\ Turn(p, "answered")
  /\ UNCHANGED <<redis, pausing, operator, producer, redelivered>>

(* mutant: whatever was not accepted is refunded *)
RefundsAll(r) == r # "accepted"

(* finish's refund: a definite refusal *)
Refunds(r) == r \notin {"accepted", "unknown"}

(* tripCircuit and suppress *)
Handle(p) ==
  /\ wk[p] = "answered" /\ p \notin deaf
  /\ breaker' = (breaker \/ res[p] = "restricted")
  /\ pausing' = IF res[p] = "restricted" THEN pausing \cup {p} ELSE pausing
  /\ suppressed' = IF res[p] = "bounced" THEN suppressed \cup {on[p]}
                                         ELSE suppressed
  /\ Turn(p, IF Refunds(res[p]) THEN "refund" ELSE "complete")
  /\ UNCHANGED <<job, receipt, used, paused, operator, producer, res, history>>

(* tripCircuit threw, perhaps after it set the breaker: the refusal ends as *)
(* unknown, which is not refunded; a failure of suppress is ignored         *)
HandleFails(p) ==
  /\ wk[p] = "answered" /\ p \notin deaf /\ Fault
  /\ \/ /\ res[p] = "restricted" /\ res' = [res EXCEPT ![p] = "unknown"]
        /\ breaker' \in {breaker, TRUE}
        /\ Turn(p, "complete")
     \/ /\ res[p] = "bounced" /\ Turn(p, "refund") /\ UNCHANGED <<res, breaker>>
  /\ UNCHANGED <<job, receipt, used, paused, suppressed, pausing, operator,
                 producer, counts>>

Refund(p) ==
  /\ wk[p] = "refund" /\ p \notin deaf
  /\ \/ Less /\ UNCHANGED faults
     \/ UNCHANGED used /\ Fault
  /\ Turn(p, "complete")
  /\ UNCHANGED <<job, receipt, breaker, paused, suppressed, pausing, operator,
                 producer, res, counts>>

(* The job is completed whatever the result, its receipt; BullMQ refuses a  *)
(* worker that does not hold its lock                                       *)
Complete(p) ==
  /\ wk[p] = "complete" /\ p \notin deaf
  /\ IF p \in lapsed THEN UNCHANGED <<job, receipt>>
     ELSE /\ job' = [job EXCEPT ![on[p]] = "completed"]
          /\ receipt' = [receipt EXCEPT ![on[p]] = res[p]]
  /\ Rest(p)
  /\ UNCHANGED <<used, breaker, paused, suppressed, pausing, operator,
                 producer, history>>

(* Without Redis the job ends in an error or an answer nobody records *)
Drop(p) ==
  /\ p \in deaf /\ wk[p] \notin {"idle", "send"}
  /\ Rest(p)
  /\ UNCHANGED <<redis, pausing, operator, producer, history>>

(* The pause tripCircuit and the gate do not wait for *)
PauseLands(p) ==
  /\ p \in pausing
  /\ paused' = TRUE /\ pausing' = pausing \ {p}
  /\ UNCHANGED <<job, receipt, used, breaker, suppressed, operator, producer,
                 worker, history>>

(***************************************************************************)
(* Crashes and lost locks                                                  *)
(***************************************************************************)
(* A pause on its way may still arrive *)
Crash(p) ==
  /\ pc[p] # "idle" /\ Fault
  /\ Return(p) /\ Rest(p)
  /\ pausing' \in {pausing, pausing \ {p}}
  /\ UNCHANGED <<redis, operator, counts>>

(* A process put to sleep, or busy, does not renew its lock in time, and    *)
(* goes on                                                                  *)
LoseLock(p) ==
  /\ wk[p] # "idle" /\ p \notin lapsed /\ Fault
  /\ lapsed' = lapsed \cup {p}
  /\ UNCHANGED <<redis, pausing, operator, producer, wk, on, res, counts>>

(* BullMQ's stalled check, in any worker, of a job nobody has the lock on:  *)
(* it is handed out again; a second time, unless it was cancelled and added *)
(* anew, it is failed                                                       *)
Stalled(m) ==
  /\ job[m] = "active" /\ \A p \in Procs : on[p] = m => p \in lapsed
  /\ \E p \in Procs \ deaf : pc[p] \in {"await", "pause", "close"}
  /\ \/ /\ job' = [job EXCEPT ![m] = "waiting"]
        /\ redelivered' = [redelivered EXCEPT ![m] = @ + 1]
     \/ /\ redelivered[m] > 0
        /\ job' = [job EXCEPT ![m] = "failed"] /\ UNCHANGED redelivered
  /\ UNCHANGED <<receipt, used, breaker, paused, suppressed, pausing, operator,
                 producer, worker, copies, taken, denied, faults>>

(***************************************************************************)
(* The operator, and people leaving                                        *)
(***************************************************************************)
(* cancelEmail: no refund *)
Cancel(m) ==
  /\ "cancel" \in Acts /\ job[m] = "waiting"
  /\ job' = [job EXCEPT ![m] = "none"]
  /\ UNCHANGED <<receipt, used, breaker, paused, suppressed, pausing, operator,
                 producer, worker, history>>

(* pauseEmailQueue and resumeEmailQueue: the breaker, then the queue *)
Operate(what) ==
  /\ operator = "idle"
  /\ operator' = what /\ breaker' = (what = "pausing")
  /\ UNCHANGED <<job, receipt, used, paused, suppressed, pausing, producer,
                 worker, history>>

PauseQueue == "pause" \in Acts /\ Operate("pausing")

Resume == (breaker \/ paused) /\ Operate("resuming")

(* mutant: resuming only closes the breaker *)
OperatedBreakerOnly ==
  /\ operator # "idle" /\ operator' = "idle"
  /\ paused' = (paused \/ operator = "pausing")
  /\ UNCHANGED <<job, receipt, used, breaker, suppressed, pausing, producer,
                 worker, history>>

Operated ==
  /\ operator # "idle" /\ operator' = "idle"
  /\ paused' = (operator = "pausing")
  /\ UNCHANGED <<job, receipt, used, breaker, suppressed, pausing, producer,
                 worker, history>>

(* suppress: an unsubscribe, a complaint, a webhook *)
Suppress(m) ==
  /\ "suppress" \in Acts /\ m \notin suppressed
  /\ suppressed' = suppressed \cup {m}
  /\ UNCHANGED <<job, receipt, used, breaker, paused, pausing, operator,
                 producer, worker, history>>

Deliver(p) ==
  \/ Check(p) \/ Lookup(p) \/ Reserve(p) \/ Add(p) \/ GiveBack(p)
  \/ Observe(p) \/ Pause(p) \/ Close(p)

Process(p) ==
  \/ Gate(p) \/ Send(p) \/ Handle(p) \/ Refund(p) \/ Complete(p)
  \/ Drop(p)

Fails(p) ==
  \/ AddFails(p) \/ Unavailable(p) \/ LoseRedis(p)
  \/ GateFails(p) \/ HandleFails(p) \/ LoseLock(p) \/ Crash(p)

Next ==
  \/ \E p \in Procs :
       \/ \E m \in Messages : Submit(p, m) \/ Take(p, m)
       \/ Deliver(p) \/ Process(p) \/ PauseLands(p) \/ Fails(p)
  \/ \E m \in Messages : Stalled(m) \/ Cancel(m) \/ Suppress(m)
  \/ PauseQueue \/ Resume \/ Operated

Spec == Init /\ [][Next]_vars

(* A process runs on, commands arrive, BullMQ's timers fire and its queue   *)
(* is first in, first out.  An operator resumes a queue in the end, also    *)
(* one that getProviderHealth calls available because a pause landed late.  *)
Fairness ==
  /\ \A p \in Procs : WF_vars(Deliver(p)) /\ WF_vars(Process(p))
  /\ \A m \in Messages :
       WF_vars(Stalled(m)) /\ SF_vars(\E p \in Procs : Take(p, m))
  /\ SF_vars(Resume) /\ WF_vars(Operated)

FairSpec == Spec /\ Fairness

(***************************************************************************)
(* Properties                                                              *)
(***************************************************************************)
(* The type of every variable. *)
TypeOK ==
  /\ job \in [Messages -> JobStates]
  /\ receipt \in [Messages -> Results \cup {"none"}]
  /\ used \in 0..Limit /\ breaker \in BOOLEAN /\ paused \in BOOLEAN
  /\ suppressed \subseteq Messages /\ pausing \subseteq Procs
  /\ operator \in {"idle", "pausing", "resuming"}
  /\ pc \in [Procs -> Places] /\ at \in [Procs -> Messages \cup {NoMessage}]
  /\ wk \in [Procs -> Turns] /\ on \in [Procs -> Messages \cup {NoMessage}]
  /\ res \in [Procs -> Results \cup {"none"}]
  /\ deaf \subseteq Procs /\ lapsed \subseteq Procs
  /\ copies \in [Messages -> Nat] /\ redelivered \in [Messages -> Nat]
  /\ denied \in [Messages -> Nat]
  /\ taken \in Nat /\ faults \in 0..MaxFaults

(* index.ts:196: "a retried call can never send twice".  However many        *)
(* processes and calls hand in one message, it is sent once; a second copy   *)
(* takes a job handed out again, of a worker that died or lost its lock.     *)
SentOnce == \A m \in Messages : copies[m] <= 1 + redelivered[m]

(* The queue keeps the promise of OneCopy, as a ledger whose rows are jobs:  *)
(* a message is owed until a worker has its job, is handed over after that,  *)
(* and is owed again only when its job is handed out again.  A copy that the *)
(* answer denied counts as asked for: nothing sends it again.                *)
Promise == INSTANCE OneCopy WITH
  Contacts <- Messages,
  owed <- {m \in Messages : /\ job[m] \in {"none", "waiting"}
                            /\ \A p \in Procs : on[p] # m},
  asks <- [m \in Messages |-> redelivered[m] + denied[m]]
KeepsThePromise == Promise!Spec

(* index.ts:559: an uncertain result is recorded, "NEVER retry               *)
(* automatically".  A receipt of any kind is final: no call, cancel, resume  *)
(* or redelivery changes it, or sends the message again, but for a worker    *)
(* that had the job, lost its lock, and was about to send.                   *)
ReceiptIsFinal ==
  [][\A m \in Messages : receipt[m] # "none" =>
       /\ receipt'[m] = receipt[m]
       /\ \/ copies'[m] = copies[m]
          \/ \E p \in lapsed : on[p] = m /\ wk[p] = "send"]_vars

(* index.ts:87, "the API accepted the request", and index.ts:482, "the       *)
(* message definitely did not reach the provider": what a receipt says is    *)
(* true, of the worker that wrote it.  Accepted was taken; a refusal stands  *)
(* for no copy but those of jobs handed out again, and one that a refusal    *)
(* denied.                                                                   *)
AnswersAreTrue ==
  \A m \in Messages :
    /\ receipt[m] = "accepted" => copies[m] >= 1
    /\ receipt[m] \in Refusals => copies[m] <= redelivered[m] + denied[m]

(* packages/email-queue/README.md:36: the quota is refunded when a message   *)
(* "definitely did not reach the provider" and kept for an unknown outcome.  *)
(* The provider never takes more than the quota, but for one message for     *)
(* each crash, failed command or false answer: a dead worker's copy is       *)
(* refunded when the job is refused the second time, a lost answer to        *)
(* queue.add is refunded and the job sent, and so is a copy denied.          *)
CapHonoured == taken <= Limit + faults

(* A call of queuedDelivery, and the newsletter run and send lock behind it, *)
(* does not wait for ever: not for a job of a dead process, one that another *)
(* process's worker refused, or one in a paused queue, if somebody resumes   *)
(* it.  Only a cancelled job, and one whose end is announced over a          *)
(* connection that is gone, are waited for without end.                      *)
WaitersReturn ==
  \A p \in Procs :
    pc[p] = "await" ~> (pc[p] # "await" \/ job[at[p]] = "none" \/ p \in deaf)
=============================================================================
