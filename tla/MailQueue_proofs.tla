-------------------------- MODULE MailQueue_proofs --------------------------
(***************************************************************************)
(* For any number of messages, processes and faults: types, that a message *)
(* is sent once unless its job is handed out again, that a receipt is      *)
(* final and true, that the provider takes no more than the quota and the  *)
(* faults allow, and that the queue implements OneCopy.                    *)
(*                                                                         *)
(* SentOnce is not inductive: a job that waits may be sent at any time,    *)
(* and several workers may have it in their hands, all but one without its *)
(* lock.  Budget counts them: the copies taken, and those of the workers   *)
(* yet to send, are no more than the times the job was handed out; and a   *)
(* worker that was refused leaves one of these unused.                     *)
(***************************************************************************)
EXTENDS MailQueue, FiniteSetTheorems, TLAPS

(* What the argument needs to know of the types *)
JobTypeOK ==
  /\ job \in [Messages -> JobStates]
  /\ receipt \in [Messages -> Results \cup {"none"}]
  /\ wk \in [Procs -> Turns] /\ on \in [Procs -> Messages \cup {NoMessage}]
  /\ res \in [Procs -> Results \cup {"none"}]
  /\ lapsed \subseteq Procs
  /\ copies \in [Messages -> Nat] /\ redelivered \in [Messages -> Nat]
  /\ denied \in [Messages -> Nat]

(* A worker that is not idle holds a job, which is active unless it lost the *)
(* lock, and holds it alone but for those that lost theirs                   *)
InHand ==
  \A p \in Procs :
    /\ wk[p] # "idle" => on[p] \in Messages
    /\ wk[p] # "idle" /\ p \notin lapsed => job[on[p]] = "active"
    /\ wk[p] = "idle" => on[p] = NoMessage /\ res[p] = "none" /\ p \notin lapsed
    /\ p \in deaf /\ wk[p] # "idle" => p \in lapsed
    /\ \A q \in Procs :
         on[p] = on[q] /\ on[p] # NoMessage /\ p \notin lapsed /\ q \notin lapsed => p = q

(* The workers that have yet to send m, and those that have not spent their  *)
(* copy: it was refused, or the gate held it                                 *)
Before(m) == {p \in Procs : on[p] = m /\ wk[p] \in {"gate", "send"}}
Spare(m) ==
  {p \in Procs : on[p] = m /\ (wk[p] \in {"gate", "send"} \/ res[p] \in Refusals)}

Out(m) == IF job[m] \in {"none", "waiting"} THEN 0 ELSE 1
TurnedDown(m) == IF receipt[m] \in Refusals THEN 1 ELSE 0

(* The copies taken, and those workers may still ask for; and what is left   *)
(* over of each refusal that told the truth                                  *)
BudgetOf(m) ==
  /\ copies[m] + Cardinality(Before(m)) <= redelivered[m] + Out(m)
  /\ copies[m] + Cardinality(Spare(m)) + TurnedDown(m)
       <= redelivered[m] + denied[m] + Out(m)
Budget == \A m \in Messages : BudgetOf(m)

ReceiptMeansCompleted ==
  \A m \in Messages : receipt[m] # "none" => job[m] = "completed"

JobInv == JobTypeOK /\ InHand /\ Budget /\ ReceiptMeansCompleted

(***************************************************************************)
(* Counting                                                                *)
(***************************************************************************)
(* How far the sizes of two sets that differ in one element are apart *)
LEMMA AtMost ==
  ASSUME NEW S, NEW T, IsFiniteSet(S), T \subseteq S
  PROVE  Cardinality(T) <= Cardinality(S)
BY FS_Subset

LEMMA OneMore ==
  ASSUME NEW S, NEW T, NEW x, IsFiniteSet(S), T \subseteq S \cup {x}
  PROVE  Cardinality(T) <= Cardinality(S) + 1
<1>1. /\ IsFiniteSet(S \cup {x}) /\ Cardinality(S \cup {x}) \in Nat
      /\ Cardinality(S) \in Nat
      /\ Cardinality(S \cup {x}) \in {Cardinality(S), Cardinality(S) + 1}
  BY FS_AddElement, FS_CardinalityType
<1>2. Cardinality(T) <= Cardinality(S \cup {x}) /\ Cardinality(T) \in Nat
  BY <1>1, FS_Subset, FS_CardinalityType
<1> QED BY <1>1, <1>2

LEMMA OneLess ==
  ASSUME NEW S, NEW T, NEW x \in S, IsFiniteSet(S), T \subseteq S \ {x}
  PROVE  Cardinality(T) <= Cardinality(S) - 1
<1>1. /\ IsFiniteSet(S \ {x}) /\ Cardinality(S \ {x}) = Cardinality(S) - 1
      /\ Cardinality(S) \in Nat
  BY FS_RemoveElement, FS_CardinalityType
<1>2. Cardinality(T) <= Cardinality(S \ {x})
  BY <1>1, FS_Subset
<1> QED BY <1>1, <1>2

LEMMA HolderSizes ==
  ASSUME NEW m
  PROVE  /\ IsFiniteSet(Before(m)) /\ Cardinality(Before(m)) \in Nat
         /\ IsFiniteSet(Spare(m)) /\ Cardinality(Spare(m)) \in Nat
         /\ IsFiniteSet(Before(m)') /\ Cardinality(Before(m)') \in Nat
         /\ IsFiniteSet(Spare(m)') /\ Cardinality(Spare(m)') \in Nat
<1>1. /\ Before(m) \subseteq Procs /\ Spare(m) \subseteq Procs
      /\ Before(m)' \subseteq Procs /\ Spare(m)' \subseteq Procs
  BY DEF Before, Spare
<1> QED BY <1>1, ProcsAssumption, FS_Subset, FS_CardinalityType

LEMMA BudgetNumbers ==
  ASSUME JobTypeOK, JobTypeOK', NEW m \in Messages
  PROVE  /\ copies[m] \in Nat /\ redelivered[m] \in Nat /\ denied[m] \in Nat
         /\ copies'[m] \in Nat /\ redelivered'[m] \in Nat /\ denied'[m] \in Nat
         /\ Out(m) \in {0, 1} /\ TurnedDown(m) \in {0, 1}
         /\ Out(m)' \in {0, 1} /\ TurnedDown(m)' \in {0, 1}
BY DEF JobTypeOK, Out, TurnedDown

(* A message whose copies and receipt stay as they are, and which no further *)
(* worker holds                                                              *)
LEMMA QuietBudget ==
  ASSUME JobTypeOK, JobTypeOK', NEW m \in Messages, BudgetOf(m),
         copies'[m] = copies[m], TurnedDown(m)' = TurnedDown(m),
         Before(m)' \subseteq Before(m), Spare(m)' \subseteq Spare(m),
         denied'[m] = denied[m],
         redelivered'[m] + Out(m)' >= redelivered[m] + Out(m)
  PROVE  BudgetOf(m)'
<1>1. Cardinality(Before(m)') <= Cardinality(Before(m))
      /\ Cardinality(Spare(m)') <= Cardinality(Spare(m))
  BY HolderSizes, AtMost
<1> QED BY <1>1, HolderSizes, BudgetNumbers DEF BudgetOf

(***************************************************************************)
(* Types                                                                   *)
(***************************************************************************)
LEMMA TypeInit == Init => TypeOK
<1> SUFFICES ASSUME Init PROVE TypeOK
  OBVIOUS
<1>1. used \in 0..Limit /\ faults \in 0..MaxFaults
  BY SizesAssumption DEF Init
<1>2. breaker \in BOOLEAN /\ paused \in BOOLEAN
  BY DEF Init
<1> QED BY <1>1, <1>2 DEF Init, TypeOK, JobStates, Places, Turns

LEMMA DeliverType ==
  ASSUME TypeOK, NEW p \in Procs, Deliver(p)
  PROVE  TypeOK'
<1> USE DEF TypeOK, redis, producer, worker, counts, history, Goto, Return,
            Places
<1>1. CASE Check(p)
  BY <1>1 DEF Check
<1>2. CASE Lookup(p)
  BY <1>2 DEF Lookup
<1>3. CASE Reserve(p)
  BY <1>3, SizesAssumption DEF Reserve
<1>4. CASE Add(p)
  BY <1>4 DEF Add, Enqueue, JobStates
<1>5. CASE GiveBack(p)
  BY <1>5, SizesAssumption DEF GiveBack, Less
<1>6. CASE Observe(p)
  BY <1>6 DEF Observe
<1>7. CASE Pause(p)
  BY <1>7 DEF Pause
<1>8. CASE Close(p)
  BY <1>8 DEF Close
<1> QED BY <1>1, <1>2, <1>3, <1>4, <1>5, <1>6, <1>7, <1>8 DEF Deliver

LEMMA ProcessType ==
  ASSUME TypeOK, InHand, NEW p \in Procs, Process(p)
  PROVE  TypeOK'
<1> USE DEF TypeOK, redis, producer, worker, counts, history, Turn, Turns,
            Results, Answers, Rest
<1>1. CASE Gate(p)
  BY <1>1 DEF Gate
<1>2. CASE Send(p)
  <2>1. PICK a \in Answers, n \in {0, 1} :
          /\ \/ UNCHANGED <<denied, faults>>
             \/ Fault /\ denied' = [denied EXCEPT ![on[p]] = @ + 1]
          /\ res' = [res EXCEPT ![p] = a]
          /\ copies' = [copies EXCEPT ![on[p]] = @ + n] /\ taken' = taken + n
    BY <1>2 DEF Send
  <2>0. on[p] \in Messages
    BY <1>2 DEF Send, InHand
  <2>2. copies' \in [Messages -> Nat] /\ taken' \in Nat
    BY <2>0, <2>1
  <2>3. res' \in [Procs -> Results \cup {"none"}]
    BY <2>1
  <2>4. denied' \in [Messages -> Nat] /\ faults' \in 0..MaxFaults
    BY <2>0, <2>1, SizesAssumption DEF Fault
  <2> QED BY <1>2, <2>2, <2>3, <2>4 DEF Send
<1>3. CASE Handle(p)
  <2>1. on[p] \in Messages
    BY <1>3 DEF Handle, InHand
  <2> QED BY <1>3, <2>1 DEF Handle
<1>4. CASE Refund(p)
  BY <1>4, SizesAssumption DEF Refund, Less, Fault
<1>5. CASE Complete(p)
  BY <1>5 DEF Complete, JobStates
<1>6. CASE Drop(p)
  BY <1>6 DEF Drop
<1> QED BY <1>1, <1>2, <1>3, <1>4, <1>5, <1>6 DEF Process

LEMMA FailsType ==
  ASSUME TypeOK, NEW p \in Procs, Fails(p)
  PROVE  TypeOK'
<1> USE DEF TypeOK, redis, producer, worker, counts, history, Goto, Return,
            Places, Turn, Turns, JobStates, Rest
<1>0. ASSUME Fault
      PROVE  faults' \in 0..MaxFaults
  BY <1>0, SizesAssumption DEF Fault
<1>1. CASE AddFails(p)
  BY <1>0, <1>1 DEF AddFails, Enqueue
<1>2. CASE Unavailable(p)
  BY <1>0, <1>2, SizesAssumption DEF Unavailable
<1>3. CASE LoseRedis(p)
  BY <1>0, <1>3 DEF LoseRedis
<1>4. CASE GateFails(p)
  BY <1>0, <1>4 DEF GateFails
<1>5. CASE HandleFails(p)
  BY <1>0, <1>5 DEF HandleFails, Results, Answers
<1>6. CASE LoseLock(p)
  BY <1>0, <1>6 DEF LoseLock
<1>7. CASE Crash(p)
  BY <1>0, <1>7 DEF Crash
<1> QED BY <1>1, <1>2, <1>3, <1>4, <1>5, <1>6, <1>7 DEF Fails

LEMMA OtherType ==
  ASSUME TypeOK,
         \/ \E p \in Procs :
              \/ \E m \in Messages : Submit(p, m) \/ Take(p, m)
              \/ PauseLands(p)
         \/ \E m \in Messages : Stalled(m) \/ Cancel(m) \/ Suppress(m)
         \/ PauseQueue \/ Resume \/ Operated
  PROVE  TypeOK'
<1> USE DEF TypeOK, redis, producer, worker, counts, history, Places, Turns,
            JobStates
<1>1. ASSUME NEW p \in Procs, NEW m \in Messages, Submit(p, m)
      PROVE  TypeOK'
  BY <1>1 DEF Submit
<1>2. ASSUME NEW p \in Procs, NEW m \in Messages, Take(p, m)
      PROVE  TypeOK'
  BY <1>2 DEF Take
<1>3. ASSUME NEW p \in Procs, PauseLands(p)
      PROVE  TypeOK'
  BY <1>3 DEF PauseLands
<1>4. ASSUME NEW m \in Messages, Stalled(m) \/ Cancel(m) \/ Suppress(m)
      PROVE  TypeOK'
  BY <1>4 DEF Stalled, Cancel, Suppress
<1>5. CASE PauseQueue \/ Resume \/ Operated
  BY <1>5 DEF PauseQueue, Resume, Operate, Operated
<1> QED BY <1>1, <1>2, <1>3, <1>4, <1>5

(***************************************************************************)
(* The invariant                                                           *)
(***************************************************************************)
LEMMA InvInit == Init => JobInv
<1> SUFFICES ASSUME Init PROVE JobInv
  OBVIOUS
<1>1. JobTypeOK /\ InHand /\ ReceiptMeansCompleted
  BY DEF Init, JobTypeOK, InHand, ReceiptMeansCompleted, JobStates, Turns
<1>2. ASSUME NEW m \in Messages
      PROVE  BudgetOf(m)
  <2>1. Before(m) = {} /\ Spare(m) = {}
    BY MessagesAssumption DEF Init, Before, Spare
  <2>2. Cardinality(Before(m)) = 0 /\ Cardinality(Spare(m)) = 0
    BY <2>1, FS_EmptySet
  <2> QED BY <2>2 DEF Init, BudgetOf, Out, TurnedDown, Refusals, Results, Answers
<1> QED BY <1>1, <1>2 DEF JobInv, Budget

jobs == <<job, receipt, worker, deaf, copies, redelivered, denied>>

(* Steps that touch no job *)
LEMMA QuietKeeps == ASSUME JobInv, UNCHANGED jobs PROVE JobInv'
<1>1. JobTypeOK' /\ InHand' /\ ReceiptMeansCompleted'
  BY DEF JobInv, JobTypeOK, InHand, ReceiptMeansCompleted, jobs, worker
<1>2. Budget'
  BY DEF JobInv, Budget, BudgetOf, Before, Spare, Out, TurnedDown, jobs, worker
<1> QED BY <1>1, <1>2 DEF JobInv

(* A call that ends opens no ears of a worker that has a job *)
LEMMA FewerDeaf ==
  ASSUME JobInv, deaf' \subseteq deaf,
         UNCHANGED <<job, receipt, worker, copies, redelivered, denied>>
  PROVE  JobInv'
<1>1. JobTypeOK' /\ InHand' /\ ReceiptMeansCompleted'
  BY DEF JobInv, JobTypeOK, InHand, ReceiptMeansCompleted, worker
<1>2. Budget'
  BY DEF JobInv, Budget, BudgetOf, Before, Spare, Out, TurnedDown, worker
<1> QED BY <1>1, <1>2 DEF JobInv

(* A job that is added waits; one that is there stays as it is *)
LEMMA EnqueueKeeps ==
  ASSUME JobInv, NEW m \in Messages, Enqueue(m),
         UNCHANGED <<receipt, worker, deaf, copies, redelivered, denied>>
  PROVE  JobInv'
<1>1. JobTypeOK' /\ ReceiptMeansCompleted'
  BY DEF JobInv, JobTypeOK, ReceiptMeansCompleted, Enqueue, worker, JobStates
<1>2. \A n \in Messages : job'[n] = job[n] \/ (job[n] = "none" /\ job'[n] = "waiting")
  BY DEF JobInv, JobTypeOK, Enqueue
<1>3. InHand'
  BY <1>2 DEF JobInv, InHand, worker
<1>4. ASSUME NEW n \in Messages
      PROVE  BudgetOf(n)'
  BY <1>2 DEF JobInv, Budget, BudgetOf, Before, Spare, Out, TurnedDown, worker
<1> QED BY <1>1, <1>3, <1>4 DEF JobInv, Budget

LEMMA TakeKeeps ==
  ASSUME JobInv, NEW p \in Procs, NEW m \in Messages, Take(p, m)
  PROVE  JobInv'
<1> USE DEF history, counts
<1>0. JobTypeOK /\ on[p] = NoMessage /\ res[p] = "none" /\ p \notin lapsed
  BY DEF JobInv, InHand, Take
<1>1. \A q \in Procs : on[q] = m => q \in lapsed
  BY MessagesAssumption DEF JobInv, JobTypeOK, InHand, Take
<1>2. JobTypeOK' /\ ReceiptMeansCompleted'
  BY DEF JobInv, JobTypeOK, ReceiptMeansCompleted, Take, JobStates, Turns
<1>3. InHand'
  <2>1. /\ p \notin deaf /\ job'[m] = "active"
        /\ \A n \in Messages \ {m} : job'[n] = job[n]
        /\ wk'[p] = "gate" /\ on'[p] = m
        /\ \A q \in Procs \ {p} : wk'[q] = wk[q] /\ on'[q] = on[q]
        /\ res' = res /\ lapsed' = lapsed /\ deaf' = deaf
    BY <1>0 DEF JobTypeOK, Take, producer
  <2> QED BY <1>0, <1>1, <2>1, MessagesAssumption DEF JobInv, InHand
<1>4. ASSUME NEW n \in Messages
      PROVE  BudgetOf(n)'
  <2>1. /\ copies' = copies /\ redelivered' = redelivered /\ denied' = denied
        /\ TurnedDown(n)' = TurnedDown(n)
    BY DEF Take, TurnedDown
  <2>2. BudgetOf(n)
    BY DEF JobInv, Budget
  <2>3. CASE n # m
    <3>1. /\ Before(n)' \subseteq Before(n) /\ Spare(n)' \subseteq Spare(n)
          /\ Out(n)' = Out(n)
      BY <1>0, <2>3 DEF JobTypeOK, Take, Before, Spare, Out
    <3> QED BY <1>0, <1>2, <2>1, <2>2, <3>1, QuietBudget, BudgetNumbers
  <2>4. CASE n = m
    <3>1. /\ Before(n)' \subseteq Before(n) \cup {p}
          /\ Spare(n)' \subseteq Spare(n) \cup {p}
      BY <1>0, <2>4 DEF JobTypeOK, Take, Before, Spare
    <3>2. Out(n) = 0 /\ Out(n)' = 1
      BY <1>0, <2>4 DEF JobTypeOK, Take, Out
    <3>3. /\ Cardinality(Before(n)') <= Cardinality(Before(n)) + 1
          /\ Cardinality(Spare(n)') <= Cardinality(Spare(n)) + 1
      BY <3>1, HolderSizes, OneMore
    <3> QED BY <1>0, <1>2, <2>1, <2>2, <3>2, <3>3, HolderSizes, BudgetNumbers
            DEF BudgetOf
  <2> QED BY <2>3, <2>4
<1> QED BY <1>2, <1>3, <1>4 DEF JobInv, Budget

(* A worker that goes on, without sending, with its job in the same state *)
LEMMA TurnKeeps ==
  ASSUME JobInv, NEW p \in Procs, NEW turn \in Turns \ {"idle", "gate"},
         wk[p] # "idle", Turn(p, turn), turn = "send" => wk[p] = "gate",
         res' \in [Procs -> Results \cup {"none"}],
         \A q \in Procs \ {p} : res'[q] = res[q],
         res'[p] \in Refusals => res[p] \in Refusals \/ wk[p] = "gate",
         UNCHANGED <<job, receipt, deaf, copies, redelivered, denied>>
  PROVE  JobInv'
<1>0. JobTypeOK
  BY DEF JobInv
<1>1. JobTypeOK' /\ ReceiptMeansCompleted'
  BY DEF JobInv, JobTypeOK, ReceiptMeansCompleted, Turn
<1>2. InHand'
  BY DEF JobInv, JobTypeOK, InHand, Turn
<1>3. ASSUME NEW m \in Messages
      PROVE  BudgetOf(m)'
  <2>1. /\ Before(m)' \subseteq Before(m)
        /\ Out(m)' = Out(m) /\ TurnedDown(m)' = TurnedDown(m)
    BY <1>0 DEF JobTypeOK, Turn, Before, Out, TurnedDown
  <2>2. Spare(m)' \subseteq Spare(m)
    BY <1>0 DEF JobTypeOK, Turn, Spare
  <2>3. BudgetOf(m)
    BY DEF JobInv, Budget
  <2> QED BY <1>0, <1>1, <2>1, <2>2, <2>3, QuietBudget, BudgetNumbers
<1> QED BY <1>1, <1>2, <1>3 DEF JobInv, Budget

LEMMA SendKeeps ==
  ASSUME JobInv, NEW p \in Procs, Send(p)
  PROVE  JobInv'
<1>0. JobTypeOK
  BY DEF JobInv
<1>1. PICK a \in Answers, n \in {0, 1} :
        /\ \/ (a \notin Refusals \/ n = 0) /\ UNCHANGED <<denied, faults>>
           \/ a \in Refusals /\ n = 1 /\ denied' = [denied EXCEPT ![on[p]] = @ + 1]
        /\ res' = [res EXCEPT ![p] = a]
        /\ copies' = [copies EXCEPT ![on[p]] = @ + n]
  BY DEF Send
<1>2. /\ wk[p] = "send" /\ wk' = [wk EXCEPT ![p] = "answered"]
      /\ UNCHANGED <<job, receipt, on, lapsed, deaf, redelivered>>
  BY DEF Send, Turn, redis, producer
<1>3. on[p] \in Messages
  BY <1>2 DEF JobInv, InHand
<1>4. JobTypeOK' /\ ReceiptMeansCompleted'
  BY <1>0, <1>1, <1>2, <1>3
  DEF JobInv, JobTypeOK, ReceiptMeansCompleted, Turns, Results
<1>5. InHand'
  BY <1>0, <1>1, <1>2 DEF JobInv, JobTypeOK, InHand
<1>6. ASSUME NEW m \in Messages
      PROVE  BudgetOf(m)'
  <2>1. /\ BudgetOf(m) /\ Out(m)' = Out(m) /\ TurnedDown(m)' = TurnedDown(m)
        /\ redelivered'[m] = redelivered[m]
    BY <1>2 DEF JobInv, Budget, Out, TurnedDown
  <2>2. CASE m # on[p]
    <3>1. Before(m)' \subseteq Before(m) /\ Spare(m)' \subseteq Spare(m)
      BY <1>0, <1>1, <1>2, <2>2 DEF JobTypeOK, Before, Spare
    <3>2. copies'[m] = copies[m] /\ denied'[m] = denied[m]
      BY <1>0, <1>1, <2>2 DEF JobTypeOK
    <3> QED BY <1>0, <1>4, <2>1, <3>1, <3>2, QuietBudget, BudgetNumbers
  <2>3. CASE m = on[p]
    <3>1. p \in Before(m) /\ p \in Spare(m)
      BY <1>2, <2>3 DEF Before, Spare
    <3>2. Before(m)' \subseteq Before(m) \ {p} /\ Spare(m)' \subseteq Spare(m)
      BY <1>0, <1>1, <1>2, <2>3 DEF JobTypeOK, Before, Spare
    <3>3. /\ Cardinality(Before(m)') <= Cardinality(Before(m)) - 1
          /\ Cardinality(Spare(m)') <= Cardinality(Spare(m))
      BY <3>1, <3>2, HolderSizes, OneLess, AtMost
    <3>4. copies'[m] = copies[m] + n
      BY <1>0, <1>1, <2>3 DEF JobTypeOK
    <3>5. CASE n = 0
      <4>1. denied'[m] = denied[m] \/ denied'[m] = denied[m] + 1
        BY <1>0, <1>1, <2>3 DEF JobTypeOK
      <4> QED BY <1>0, <1>4, <2>1, <3>3, <3>4, <3>5, <4>1, HolderSizes,
                 BudgetNumbers DEF BudgetOf
    <3>6. CASE n = 1 /\ a \in Refusals
      <4>1. denied'[m] = denied[m] + 1
        BY <1>0, <1>1, <2>3, <3>6 DEF JobTypeOK
      <4> QED BY <1>0, <1>4, <2>1, <3>3, <3>4, <3>6, <4>1, HolderSizes,
                 BudgetNumbers DEF BudgetOf
    <3>7. CASE n = 1 /\ a \notin Refusals
      <4>1. denied'[m] = denied[m]
        BY <1>1, <3>7
      <4>2. wk'[p] = "answered" /\ res'[p] = a
        BY <1>0, <1>1, <1>2 DEF JobTypeOK
      <4>3. Spare(m)' \subseteq Spare(m) \ {p}
        BY <3>2, <3>7, <4>2 DEF Spare
      <4>4. Cardinality(Spare(m)') <= Cardinality(Spare(m)) - 1
        BY <3>1, <4>3, HolderSizes, OneLess
      <4> QED BY <1>0, <1>4, <2>1, <3>3, <3>4, <3>7, <4>1, <4>4, HolderSizes,
                 BudgetNumbers DEF BudgetOf
    <3> QED BY <3>5, <3>6, <3>7
  <2> QED BY <2>2, <2>3
<1> QED BY <1>4, <1>5, <1>6 DEF JobInv, Budget

(* A worker lets go of its job: the job stays as it is, or ends *)
LEMMA RestKeeps ==
  ASSUME JobInv, NEW p \in Procs, wk[p] # "idle", Rest(p),
         UNCHANGED <<copies, redelivered, denied>>, deaf' \subseteq deaf,
         \/ UNCHANGED <<job, receipt>>
         \/ /\ p \notin lapsed /\ UNCHANGED receipt
            /\ job' = [job EXCEPT ![on[p]] = "failed"]
         \/ /\ p \notin lapsed /\ wk[p] = "complete"
            /\ job' = [job EXCEPT ![on[p]] = "completed"]
            /\ receipt' = [receipt EXCEPT ![on[p]] = res[p]]
  PROVE  JobInv'
<1>0. JobTypeOK /\ on[p] \in Messages
  BY DEF JobInv, InHand
<1>1. /\ wk' = [wk EXCEPT ![p] = "idle"] /\ on' = [on EXCEPT ![p] = NoMessage]
      /\ res' = [res EXCEPT ![p] = "none"] /\ lapsed' = lapsed \ {p}
  BY DEF Rest
<1>2. p \notin lapsed => job[on[p]] = "active" /\ receipt[on[p]] = "none"
  BY <1>0 DEF JobInv, InHand, ReceiptMeansCompleted
<1>3. JobTypeOK'
  BY <1>0, <1>1 DEF JobTypeOK, JobStates, Turns
<1>4. ReceiptMeansCompleted'
  BY <1>0, <1>2 DEF JobInv, JobTypeOK, ReceiptMeansCompleted
<1>5. ASSUME NEW m \in Messages \ {on[p]}
      PROVE  job'[m] = job[m] /\ receipt'[m] = receipt[m]
  BY <1>0, <1>5 DEF JobTypeOK
<1>6. InHand'
  <2>1. \A q \in Procs \ {p} : /\ wk'[q] = wk[q] /\ on'[q] = on[q] /\ res'[q] = res[q]
                               /\ q \in lapsed' <=> q \in lapsed
    BY <1>0, <1>1 DEF JobTypeOK
  <2>2. wk'[p] = "idle" /\ on'[p] = NoMessage /\ res'[p] = "none" /\ p \notin lapsed'
    BY <1>0, <1>1 DEF JobTypeOK
  <2>3. ASSUME NEW q \in Procs \ {p}, wk[q] # "idle", q \notin lapsed
        PROVE  job'[on[q]] = "active"
    <3>1. on[q] \in Messages /\ job[on[q]] = "active"
      BY <2>3 DEF JobInv, InHand
    <3>2. CASE UNCHANGED <<job, receipt>>
      BY <3>1, <3>2
    <3>3. CASE p \notin lapsed
      <4>1. on[q] # on[p]
        BY <1>0, <2>3, <3>3, MessagesAssumption DEF JobInv, InHand
      <4> QED BY <1>5, <3>1, <4>1
    <3> QED BY <3>2, <3>3
  <2> QED BY <2>1, <2>2, <2>3 DEF JobInv, InHand
<1>7. ASSUME NEW m \in Messages
      PROVE  BudgetOf(m)'
  <2>1. BudgetOf(m)
    BY DEF JobInv, Budget
  <2>2. Before(m)' \subseteq Before(m) \ {p} /\ Spare(m)' \subseteq Spare(m) \ {p}
    BY <1>0, <1>1, MessagesAssumption DEF JobTypeOK, Before, Spare
  <2>3. Out(m)' = Out(m)
    <3>1. CASE m = on[p] /\ p \notin lapsed
      BY <1>0, <1>2, <3>1 DEF JobTypeOK, Out
    <3>2. CASE m # on[p]
      BY <1>5, <3>2 DEF Out
    <3>3. CASE p \in lapsed
      BY <3>3 DEF Out
    <3> QED BY <3>1, <3>2, <3>3
  <2>4. CASE TurnedDown(m)' = TurnedDown(m)
    BY <1>0, <1>3, <2>1, <2>2, <2>3, <2>4, QuietBudget, BudgetNumbers
  <2>5. CASE TurnedDown(m)' # TurnedDown(m)
    <3>1. /\ m = on[p] /\ p \notin lapsed /\ wk[p] = "complete"
          /\ receipt' = [receipt EXCEPT ![on[p]] = res[p]]
      BY <1>5, <2>5 DEF TurnedDown
    <3>2. receipt[m] = "none" /\ receipt'[m] = res[p]
      BY <1>0, <1>2, <3>1 DEF JobTypeOK
    <3>3. "none" \notin Refusals
      BY DEF Refusals, Results, Answers
    <3>4. res[p] \in Refusals /\ TurnedDown(m) = 0 /\ TurnedDown(m)' = 1
      BY <2>5, <3>2, <3>3 DEF TurnedDown
    <3>5. p \in Spare(m)
      BY <3>1, <3>4 DEF Spare
    <3>6. /\ Cardinality(Before(m)') <= Cardinality(Before(m))
          /\ Cardinality(Spare(m)') <= Cardinality(Spare(m)) - 1
      BY <2>2, <3>5, HolderSizes, AtMost, OneLess
    <3> QED BY <1>0, <1>3, <2>1, <2>3, <3>4, <3>6, HolderSizes, BudgetNumbers
            DEF BudgetOf
  <2> QED BY <2>4, <2>5
<1> QED BY <1>3, <1>4, <1>6, <1>7 DEF JobInv, Budget

LEMMA ProcessKeeps ==
  ASSUME JobInv, NEW p \in Procs, Process(p)
  PROVE  JobInv'
<1> USE DEF redis, producer, counts, history
<1>0. JobTypeOK
  BY DEF JobInv
<1>1. CASE Gate(p)
  <2>1. CASE Turn(p, "send") /\ res' = res
    BY <1>0, <1>1, <2>1, TurnKeeps DEF Gate, JobTypeOK, Turns
  <2>2. CASE Turn(p, "refund") /\ res' = [res EXCEPT ![p] = "gated"]
    <3>1. /\ res' \in [Procs -> Results \cup {"none"}]
          /\ \A q \in Procs \ {p} : res'[q] = res[q]
      BY <1>0, <2>2 DEF JobTypeOK, Results
    <3> QED BY <1>1, <2>2, <3>1, TurnKeeps DEF Gate, Turns
  <2> QED BY <1>1, <2>1, <2>2 DEF Gate
<1>2. CASE Send(p)
  BY <1>2, SendKeeps
<1>3. CASE Handle(p)
  <2>1. PICK turn \in {"refund", "complete"} : Turn(p, turn)
    BY <1>3 DEF Handle
  <2> QED BY <1>0, <1>3, <2>1, TurnKeeps DEF Handle, JobTypeOK, Turns
<1>4. CASE Refund(p)
  BY <1>0, <1>4, TurnKeeps DEF Refund, JobTypeOK, Turns
<1>5. CASE Complete(p)
  BY <1>5, RestKeeps DEF Complete
<1>6. CASE Drop(p)
  BY <1>6, RestKeeps DEF Drop
<1> QED BY <1>1, <1>2, <1>3, <1>4, <1>5, <1>6 DEF Process

(* A worker that loses its lock keeps what it has in hand *)
LEMMA LapseKeeps ==
  ASSUME JobInv, lapsed \subseteq lapsed', lapsed' \subseteq Procs,
         \A p \in lapsed' \ lapsed : wk[p] # "idle",
         \A p \in Procs : p \in deaf' \ deaf /\ wk[p] # "idle" => p \in lapsed',
         UNCHANGED <<job, receipt, wk, on, res, copies, redelivered, denied>>
  PROVE  JobInv'
<1>1. JobTypeOK' /\ InHand' /\ ReceiptMeansCompleted'
  BY DEF JobInv, JobTypeOK, InHand, ReceiptMeansCompleted
<1>2. Budget'
  BY DEF JobInv, Budget, BudgetOf, Before, Spare, Out, TurnedDown
<1> QED BY <1>1, <1>2 DEF JobInv

LEMMA FailsKeeps ==
  ASSUME TypeOK, JobInv, NEW p \in Procs, Fails(p)
  PROVE  JobInv'
<1> USE DEF redis, worker, counts, history
<1>0. JobTypeOK
  BY DEF JobInv
<1>1. CASE AddFails(p)
  <2>1. UNCHANGED <<receipt, worker, deaf, copies, redelivered, denied>>
    BY <1>1 DEF AddFails, Goto
  <2>2. CASE Enqueue(at[p])
    <3>1. CASE at[p] \in Messages
      BY <2>1, <2>2, <3>1, EnqueueKeeps
    <3>2. CASE at[p] \notin Messages
      BY <1>0, <2>1, <2>2, <3>2, QuietKeeps DEF Enqueue, JobTypeOK, jobs
    <3> QED BY <3>1, <3>2
  <2>3. CASE UNCHANGED job
    BY <2>1, <2>3, QuietKeeps DEF jobs
  <2> QED BY <1>1, <2>2, <2>3 DEF AddFails
<1>2. CASE Unavailable(p)
  BY <1>2, FewerDeaf DEF Unavailable, Return
<1>3. CASE LoseRedis(p)
  <2>1. /\ deaf' = deaf \cup {p}
        /\ lapsed' = IF wk[p] = "idle" THEN lapsed ELSE lapsed \cup {p}
        /\ UNCHANGED <<job, receipt, wk, on, res, copies, redelivered, denied>>
    BY <1>3 DEF LoseRedis
  <2>2. lapsed \subseteq Procs
    BY DEF TypeOK
  <2> QED BY <2>1, <2>2, LapseKeeps
<1>4. CASE GateFails(p)
  BY <1>4, RestKeeps DEF GateFails, producer
<1>5. CASE HandleFails(p)
  <2>1. PICK turn \in {"refund", "complete"} : Turn(p, turn)
    BY <1>5 DEF HandleFails
  <2>2. /\ res' \in [Procs -> Results \cup {"none"}]
        /\ \A q \in Procs \ {p} : res'[q] = res[q]
        /\ res'[p] = res[p] \/ res'[p] = "unknown"
    BY <1>0, <1>5 DEF HandleFails, JobTypeOK, Results, Answers
  <2>3. "unknown" \notin Refusals
    BY DEF Refusals
  <2> QED BY <1>5, <2>1, <2>2, <2>3, TurnKeeps DEF HandleFails, Turns, producer
<1>6. CASE LoseLock(p)
  <2>1. /\ wk[p] # "idle" /\ lapsed' = lapsed \cup {p}
        /\ UNCHANGED <<job, receipt, wk, on, res, deaf, copies, redelivered, denied>>
    BY <1>6 DEF LoseLock, producer
  <2>2. lapsed \subseteq Procs
    BY DEF TypeOK
  <2> QED BY <2>1, <2>2, LapseKeeps
<1>7. CASE Crash(p)
  <2>1. /\ Rest(p) /\ deaf' \subseteq deaf
        /\ UNCHANGED <<job, receipt, copies, redelivered, denied>>
    BY <1>7 DEF Crash, Return
  <2>2. CASE wk[p] # "idle"
    BY <2>1, <2>2, RestKeeps
  <2>3. CASE wk[p] = "idle"
    <3>1. UNCHANGED worker
      BY <1>0, <2>1, <2>3 DEF JobInv, JobTypeOK, InHand, Rest
    <3> QED BY <2>1, <3>1, FewerDeaf
  <2> QED BY <2>2, <2>3
<1> QED BY <1>1, <1>2, <1>3, <1>4, <1>5, <1>6, <1>7 DEF Fails

(* Handed out again, the job has one more copy to spare *)
LEMMA StalledKeeps ==
  ASSUME JobInv, NEW m \in Messages, Stalled(m)
  PROVE  JobInv'
<1> USE DEF worker
<1>0. JobTypeOK /\ job[m] = "active" /\ \A q \in Procs : on[q] = m => q \in lapsed
  BY DEF JobInv, Stalled
<1>1. JobTypeOK' /\ ReceiptMeansCompleted'
  BY DEF Stalled, JobStates, JobInv, JobTypeOK, ReceiptMeansCompleted
<1>2. \A n \in Messages \ {m} : job'[n] = job[n] /\ redelivered'[n] = redelivered[n]
  BY <1>0 DEF Stalled, JobTypeOK
<1>3. UNCHANGED <<receipt, wk, on, res, lapsed, deaf, copies, denied>>
  BY DEF Stalled, producer
<1>4. InHand'
  BY <1>0, <1>2, <1>3 DEF JobInv, InHand
<1>5. \/ job'[m] = "waiting" /\ redelivered'[m] = redelivered[m] + 1
      \/ job'[m] = "failed" /\ redelivered'[m] = redelivered[m]
  BY <1>0 DEF Stalled, JobTypeOK
<1>6. ASSUME NEW n \in Messages
      PROVE  BudgetOf(n)'
  <2>1. BudgetOf(n) /\ Before(n)' = Before(n) /\ Spare(n)' = Spare(n)
        /\ TurnedDown(n)' = TurnedDown(n)
    BY <1>3 DEF JobInv, Budget, Before, Spare, TurnedDown
  <2>2. redelivered'[n] + Out(n)' >= redelivered[n] + Out(n)
    BY <1>0, <1>1, <1>2, <1>5, BudgetNumbers DEF Out
  <2> QED BY <1>0, <1>1, <1>3, <2>1, <2>2, QuietBudget
<1> QED BY <1>1, <1>4, <1>6 DEF JobInv, Budget

LEMMA CancelKeeps ==
  ASSUME JobInv, NEW m \in Messages, Cancel(m)
  PROVE  JobInv'
<1> USE DEF worker, counts, history
<1>1. JobTypeOK' /\ InHand' /\ ReceiptMeansCompleted'
  BY DEF Cancel, producer, JobStates, JobInv, JobTypeOK, InHand, ReceiptMeansCompleted
<1>2. job[m] = "waiting" /\ job' = [job EXCEPT ![m] = "none"] /\ JobTypeOK
  BY DEF Cancel, JobInv
<1>3. \A n \in Messages : Out(n)' = Out(n)
  BY <1>2 DEF JobTypeOK, Out
<1>4. Budget'
  BY <1>3 DEF Cancel, JobInv, Budget, BudgetOf, Before, Spare, TurnedDown
<1> QED BY <1>1, <1>4 DEF JobInv

LEMMA InvNext ==
  ASSUME TypeOK, JobInv, [Next]_vars
  PROVE  JobInv'
<1> USE DEF jobs, redis, producer, worker, counts, history
<1>1. ASSUME NEW p \in Procs, NEW m \in Messages, Submit(p, m)
      PROVE  JobInv'
  BY <1>1, QuietKeeps DEF Submit
<1>2. ASSUME NEW p \in Procs, NEW m \in Messages, Take(p, m)
      PROVE  JobInv'
  BY <1>2, TakeKeeps
<1>3. ASSUME NEW p \in Procs, Add(p)
      PROVE  JobInv'
  <2>1. CASE at[p] \in Messages
    BY <1>3, <2>1, EnqueueKeeps DEF Add, Goto
  <2>2. CASE at[p] \notin Messages
    BY <1>3, <2>2, QuietKeeps DEF Add, Goto, Enqueue, JobInv, JobTypeOK
  <2> QED BY <2>1, <2>2
<1>4. ASSUME NEW p \in Procs,
             \/ Check(p) \/ Lookup(p) \/ Reserve(p) \/ GiveBack(p)
             \/ Observe(p) \/ Pause(p) \/ Close(p)
      PROVE  JobInv'
  <2>1. /\ deaf' \subseteq deaf
        /\ UNCHANGED <<job, receipt, worker, copies, redelivered, denied>>
    BY <1>4 DEF Check, Lookup, Reserve, GiveBack, Observe, Pause, Close, Goto,
                Return
  <2> QED BY <2>1, FewerDeaf
<1>5. ASSUME NEW p \in Procs, PauseLands(p)
      PROVE  JobInv'
  BY <1>5, QuietKeeps DEF PauseLands
<1>6. ASSUME NEW p \in Procs, Fails(p) \/ Process(p)
      PROVE  JobInv'
  BY <1>6, FailsKeeps, ProcessKeeps
<1>7. ASSUME NEW m \in Messages, Stalled(m) \/ Cancel(m) \/ Suppress(m)
      PROVE  JobInv'
  BY <1>7, StalledKeeps, CancelKeeps, QuietKeeps DEF Suppress
<1>8. CASE PauseQueue \/ Resume \/ Operated
  BY <1>8, QuietKeeps DEF PauseQueue, Resume, Operate, Operated
<1>9. CASE UNCHANGED vars
  BY <1>9, QuietKeeps DEF vars
<1> QED BY <1>1, <1>2, <1>3, <1>4, <1>5, <1>6, <1>7, <1>8, <1>9
        DEF Next, Deliver

LEMMA TypeNext ==
  ASSUME TypeOK, JobInv, [Next]_vars
  PROVE  TypeOK'
<1>1. CASE UNCHANGED vars
  BY <1>1 DEF vars, redis, producer, worker, counts, history, TypeOK
<1>2. ASSUME NEW p \in Procs, Deliver(p)
      PROVE  TypeOK'
  BY <1>2, DeliverType
<1>3. ASSUME NEW p \in Procs, Process(p)
      PROVE  TypeOK'
  BY <1>3, ProcessType DEF JobInv
<1>4. ASSUME NEW p \in Procs, Fails(p)
      PROVE  TypeOK'
  BY <1>4, FailsType
<1> QED BY <1>1, <1>2, <1>3, <1>4, OtherType DEF Next

(***************************************************************************)
(* Theorems                                                                *)
(***************************************************************************)
LEMMA Invariance == Spec => [](TypeOK /\ JobInv)
<1>1. Init => TypeOK /\ JobInv
  BY TypeInit, InvInit
<1>2. TypeOK /\ JobInv /\ [Next]_vars => (TypeOK /\ JobInv)'
  BY TypeNext, InvNext
<1> QED BY <1>1, <1>2, PTL DEF Spec

(* Every variable keeps its type, the quota counter never leaves 0..Limit    *)
(* whatever is refunded twice.                                               *)
THEOREM TypeCorrect == Spec => []TypeOK
BY Invariance, PTL

(* mailJobId, queuedDelivery and the worker: however many processes, calls   *)
(* and cancellations, a message goes out once, and once more each time its   *)
(* job was handed out again, because its worker died or lost its lock.       *)
THEOREM OneCopyPerDelivery == Spec => []SentOnce
<1>1. JobInv => SentOnce
  <2> SUFFICES ASSUME JobInv, NEW m \in Messages
               PROVE  copies[m] <= 1 + redelivered[m]
    BY DEF SentOnce
  <2>1. BudgetOf(m) /\ copies[m] \in Nat /\ redelivered[m] \in Nat
        /\ Out(m) \in {0, 1}
    BY DEF JobInv, JobTypeOK, Budget, Out
  <2>2. Cardinality(Before(m)) \in Nat
    BY HolderSizes
  <2> QED BY <2>1, <2>2 DEF BudgetOf
<1> QED BY <1>1, Invariance, PTL

(* Once there is a receipt it stays as it is, and the message is not sent    *)
(* but by a worker that lost the lock on its job and does not know it yet.   *)
THEOREM ReceiptsAreFinal == Spec => ReceiptIsFinal
<1> DEFINE Final == \A m \in Messages : receipt[m] # "none" =>
                      /\ receipt'[m] = receipt[m]
                      /\ \/ copies'[m] = copies[m]
                         \/ \E p \in lapsed : on[p] = m /\ wk[p] = "send"
<1>1. ASSUME JobInv, Next
      PROVE  Final
  <2>1. CASE UNCHANGED <<receipt, copies>>
    BY <2>1
  <2>0. ASSUME NEW p \in Procs, wk[p] # "idle"
        PROVE  /\ on[p] \in Messages
               /\ p \notin lapsed => receipt[on[p]] = "none"
    BY <1>1, <2>0 DEF JobInv, InHand, ReceiptMeansCompleted
  <2>2. ASSUME NEW p \in Procs, Send(p)
        PROVE  Final
    <3>1. PICK n \in {0, 1} : copies' = [copies EXCEPT ![on[p]] = @ + n]
      BY <2>2 DEF Send
    <3>2. wk[p] = "send" /\ receipt' = receipt
      BY <2>2 DEF Send, redis
    <3>3. \A m \in Messages \ {on[p]} : copies'[m] = copies[m]
      BY <1>1, <3>1 DEF JobInv, JobTypeOK
    <3> QED BY <2>0, <3>2, <3>3
  <2>3. ASSUME NEW p \in Procs, Complete(p)
        PROVE  Final
    <3>1. wk[p] = "complete" /\ copies' = copies
      BY <2>3 DEF Complete, history, counts
    <3>2. CASE p \in lapsed
      BY <2>1, <2>3, <3>1, <3>2 DEF Complete
    <3>3. CASE p \notin lapsed
      <4>1. receipt' = [receipt EXCEPT ![on[p]] = res[p]]
        BY <2>3, <3>3 DEF Complete
      <4> QED BY <1>1, <2>0, <3>1, <3>3, <4>1 DEF JobInv, JobTypeOK
    <3> QED BY <3>2, <3>3
  <2> USE DEF redis, counts, history
  <2>4. ASSUME NEW p \in Procs, Deliver(p)
        PROVE  UNCHANGED <<receipt, copies>>
    BY <2>4 DEF Deliver, Check, Lookup, Reserve, Add, GiveBack, Observe,
                Pause, Close
  <2>5. ASSUME NEW p \in Procs, Gate(p) \/ Handle(p) \/ Refund(p) \/ Drop(p)
        PROVE  UNCHANGED <<receipt, copies>>
    BY <2>5 DEF Gate, Handle, Refund, Drop
  <2>6. ASSUME NEW p \in Procs, Fails(p)
        PROVE  UNCHANGED <<receipt, copies>>
    BY <2>6 DEF Fails, AddFails, Unavailable, LoseRedis, GateFails, HandleFails,
                LoseLock, Crash
  <2>7. ASSUME NEW p \in Procs,
               PauseLands(p) \/ \E m \in Messages : Submit(p, m) \/ Take(p, m)
        PROVE  UNCHANGED <<receipt, copies>>
    BY <2>7 DEF PauseLands, Submit, Take
  <2>8. ASSUME NEW m \in Messages, Stalled(m) \/ Cancel(m) \/ Suppress(m)
        PROVE  UNCHANGED <<receipt, copies>>
    BY <2>8 DEF Stalled, Cancel, Suppress
  <2>9. CASE PauseQueue \/ Resume \/ Operated
    BY <2>9 DEF PauseQueue, Resume, Operate, Operated
  <2> HIDE DEF Final
  <2> QED BY <1>1, <2>1, <2>2, <2>3, <2>4, <2>5, <2>6, <2>7, <2>8, <2>9
          DEF Next, Process
<1>2. JobInv /\ [Next]_vars => [Final]_vars
  BY <1>1
<1> QED BY <1>2, Invariance, PTL DEF Spec, ReceiptIsFinal

(***************************************************************************)
(* The queue keeps the promise of OneCopy.                                 *)
(***************************************************************************)
(* The messages that are owed: nobody has the job, nor has lost it and may   *)
(* send it still; and how often a copy was asked for or denied.              *)
Unsent == {m \in Messages : /\ job[m] \in {"none", "waiting"}
                            /\ \A p \in Procs : on[p] # m}
Asked == [m \in Messages |-> redelivered[m] + denied[m]]

(* A copy to spare is one that may be asked for *)
LEMMA BudgetSpares ==
  ASSUME JobInv, NEW m \in Messages,
         job[m] \in {"none", "waiting"} \/ \E p \in Procs : p \in Spare(m)
  PROVE  copies[m] <= Asked[m]
<1>1. /\ BudgetOf(m) /\ Out(m) \in {0, 1} /\ TurnedDown(m) \in {0, 1}
      /\ copies[m] \in Nat /\ redelivered[m] \in Nat /\ denied[m] \in Nat
  BY DEF JobInv, JobTypeOK, Budget, Out, TurnedDown
<1>2. Cardinality(Spare(m)) \in Nat
  BY HolderSizes
<1>3. CASE job[m] \in {"none", "waiting"}
  <2>1. Out(m) = 0
    BY <1>3 DEF Out
  <2> QED BY <1>1, <1>2, <2>1 DEF BudgetOf, Asked
<1>4. ASSUME NEW p \in Spare(m)
      PROVE  copies[m] <= Asked[m]
  <2>1. Cardinality({}) <= Cardinality(Spare(m)) - 1 /\ Cardinality({}) = 0
    BY <1>4, HolderSizes, OneLess, FS_EmptySet
  <2> QED BY <1>1, <1>2, <2>1 DEF BudgetOf, Asked
<1> QED BY <1>3, <1>4

LEMMA EnqueueOwesNothing ==
  ASSUME JobTypeOK, NEW m, Enqueue(m), UNCHANGED on
  PROVE  Unsent' = Unsent
<1>1. \A n \in Messages : job'[n] = job[n] \/ (job[n] = "none" /\ job'[n] = "waiting")
  BY DEF JobTypeOK, Enqueue
<1> QED BY <1>1 DEF Unsent

LEMMA SendHandsOver ==
  ASSUME JobInv, NEW p \in Procs, Send(p)
  PROVE  [Promise!Next]_(Promise!vars)
<1>1. PICK a \in Answers, n \in {0, 1} :
        /\ \/ (a \notin Refusals \/ n = 0) /\ UNCHANGED <<denied, faults>>
           \/ a \in Refusals /\ n = 1 /\ denied' = [denied EXCEPT ![on[p]] = @ + 1]
        /\ copies' = [copies EXCEPT ![on[p]] = @ + n]
  BY DEF Send
<1>2. /\ wk[p] = "send" /\ on[p] \in Messages /\ JobTypeOK
      /\ UNCHANGED <<job, on, redelivered>>
  BY DEF Send, Turn, redis, JobInv, InHand
<1>3. p \in Spare(on[p]) /\ on[p] \notin Unsent
  BY <1>2 DEF Spare, Unsent
<1>4. copies[on[p]] <= Asked[on[p]]
  BY <1>2, <1>3, BudgetSpares
<1>5. Unsent' = Unsent
  BY <1>2 DEF Unsent
<1> DEFINE S == {on[p]}
<1>6. CASE n = 0
  <2>1. copies' = copies /\ denied' = denied
    BY <1>1, <1>2, <1>6 DEF JobTypeOK
  <2> QED BY <1>2, <1>5, <2>1 DEF Promise!vars, Unsent
<1>7. CASE n = 1
  <2>1. copies' = [m \in Messages |-> IF m \in S THEN copies[m] + 1 ELSE copies[m]]
    BY <1>1, <1>2, <1>7 DEF JobTypeOK
  <2>2. PICK D \in {{}, S} :
          denied' = [m \in Messages |-> IF m \in D THEN denied[m] + 1 ELSE denied[m]]
    <3>1. CASE denied' = denied
      <4>1. denied' = [m \in Messages |-> IF m \in {} THEN denied[m] + 1 ELSE denied[m]]
        BY <1>2, <3>1 DEF JobTypeOK
      <4> QED BY <4>1
    <3>2. CASE denied' = [denied EXCEPT ![on[p]] = @ + 1]
      <4>1. denied' = [m \in Messages |-> IF m \in S THEN denied[m] + 1 ELSE denied[m]]
        BY <1>2, <3>2 DEF JobTypeOK
      <4> QED BY <4>1
    <3> QED BY <1>1, <3>1, <3>2
  <2>3. Asked' = [m \in Messages |-> IF m \in D THEN Asked[m] + 1 ELSE Asked[m]]
    BY <1>2, <2>2 DEF JobTypeOK, Asked
  <2>4. /\ D \subseteq S
        /\ \A m \in S : m \notin Unsent /\ copies[m] <= Asked[m]
    BY <1>3, <1>4, <2>2
  <2> HIDE DEF S
  <2>5. Promise!HandOver(S, D)
    BY <1>5, <2>1, <2>3, <2>4 DEF Promise!HandOver, Unsent, Asked
  <2>6. S \in SUBSET Messages /\ D \in SUBSET Messages
    BY <1>2, <2>4 DEF S
  <2> QED BY <2>5, <2>6 DEF Promise!Next
<1> QED BY <1>6, <1>7

(* Handed out again: owed again at once, unless a worker that lost it is     *)
(* still at it                                                               *)
LEMMA StalledRenews ==
  ASSUME JobInv, NEW m \in Messages, Stalled(m)
  PROVE  [Promise!Next]_(Promise!vars)
<1>0. JobTypeOK
  BY DEF JobInv
<1>1. job[m] = "active" /\ UNCHANGED <<copies, denied, on>> /\ m \notin Unsent
  BY DEF Stalled, worker, Unsent
<1>2. CASE /\ job' = [job EXCEPT ![m] = "waiting"]
           /\ redelivered' = [redelivered EXCEPT ![m] = @ + 1]
  <2> DEFINE S == {m}
  <2>1. job'[m] = "waiting" /\ \A n \in Messages \ {m} : job'[n] = job[n]
    BY <1>0, <1>2 DEF JobTypeOK
  <2>2. Asked' = [n \in Messages |-> IF n \in S THEN Asked[n] + 1 ELSE Asked[n]]
    BY <1>0, <1>1, <1>2 DEF JobTypeOK, Asked
  <2>3. S \cap Unsent = {} /\ S \in SUBSET Messages
    BY <1>1
  <2>4. CASE \A p \in Procs : on[p] # m
    <3>1. Unsent' = Unsent \cup S
      BY <1>1, <2>1, <2>4 DEF Unsent
    <3>2. Promise!Renew(S)
      BY <1>1, <2>2, <2>3, <3>1 DEF Promise!Renew, Unsent, Asked
    <3> QED BY <2>3, <3>2 DEF Promise!Next
  <2>5. CASE \E p \in Procs : on[p] = m
    <3>1. Unsent' = Unsent
      BY <1>1, <2>1, <2>5 DEF Unsent
    <3>2. Promise!Ask(S)
      BY <1>1, <2>2, <2>3, <3>1 DEF Promise!Ask, Unsent, Asked
    <3> QED BY <2>3, <3>2 DEF Promise!Next
  <2> QED BY <2>4, <2>5
<1>3. CASE job' = [job EXCEPT ![m] = "failed"] /\ UNCHANGED redelivered
  <2>1. job'[m] = "failed" /\ \A n \in Messages \ {m} : job'[n] = job[n]
    BY <1>0, <1>3 DEF JobTypeOK
  <2>2. Unsent' = Unsent
    BY <1>1, <2>1 DEF Unsent
  <2> QED BY <1>1, <1>3, <2>2 DEF Promise!vars, Unsent
<1> QED BY <1>2, <1>3 DEF Stalled

(* A worker that lets go of a job it had lost leaves it owed: a failure that *)
(* is known, for nobody else may send it                                     *)
LEMMA RestOwes ==
  ASSUME JobInv, NEW p \in Procs, Rest(p),
         UNCHANGED <<copies, redelivered, denied>>,
         \A m \in Messages : job'[m] = job[m] \/ (job[m] = "active" /\ job'[m] \notin {"none", "waiting"})
  PROVE  [Promise!Next]_(Promise!vars)
<1>1. /\ on' = [on EXCEPT ![p] = NoMessage] /\ JobTypeOK
      /\ \A m \in Messages : job'[m] \in {"none", "waiting"} <=> job[m] \in {"none", "waiting"}
  BY DEF Rest, JobInv
<1>2. \A q \in Procs \ {p} : on'[q] = on[q]
  BY <1>1 DEF JobTypeOK
<1>3. on'[p] = NoMessage
  BY <1>1 DEF JobTypeOK
<1>4. CASE Unsent' = Unsent
  BY <1>4 DEF Promise!vars, Unsent
<1>5. CASE Unsent' # Unsent
  <2>1. Unsent \subseteq Unsent'
    BY <1>1, <1>2, <1>3, MessagesAssumption DEF Unsent
  <2>2. \A m \in Unsent' \ Unsent : m = on[p]
    BY <1>1, <1>2 DEF Unsent
  <2>3. /\ on[p] \in Messages /\ job[on[p]] \in {"none", "waiting"}
        /\ Unsent' = Unsent \cup {on[p]}
    BY <1>1, <1>5, <2>1, <2>2 DEF Unsent
  <2>4. PICK m \in Messages : m = on[p]
    BY <2>3
  <2>5. copies[m] <= Asked[m]
    BY <2>3, <2>4, BudgetSpares
  <2>6. Promise!Fail(m)
    BY <2>3, <2>4, <2>5 DEF Promise!Fail, Unsent, Asked
  <2> QED BY <2>6 DEF Promise!Next
<1> QED BY <1>4, <1>5

LEMMA StepKeepsThePromise ==
  ASSUME JobInv, [Next]_vars
  PROVE  [Promise!Next]_(Promise!vars)
<1>0. JobTypeOK /\ InHand
  BY DEF JobInv
<1>1. ASSUME Unsent' = Unsent, UNCHANGED <<copies, redelivered, denied>>
      PROVE  UNCHANGED Promise!vars
  BY <1>1 DEF Promise!vars, Unsent
<1>2. ASSUME UNCHANGED <<job, on, copies, redelivered, denied>>
      PROVE  UNCHANGED Promise!vars
  BY <1>1, <1>2 DEF Unsent
<1> USE DEF redis, worker, counts, history
<1>3. ASSUME NEW p \in Procs, NEW m \in Messages, Take(p, m)
      PROVE  [Promise!Next]_(Promise!vars)
  <2>1. /\ job'[m] = "active" /\ \A n \in Messages \ {m} : job'[n] = job[n]
        /\ on[p] = NoMessage /\ on'[p] = m
        /\ \A q \in Procs \ {p} : on'[q] = on[q]
    BY <1>0, <1>3 DEF Take, JobTypeOK, InHand
  <2>2. Unsent' = Unsent \ {m}
    BY <2>1, MessagesAssumption DEF Unsent
  <2>3. Promise!Attempt(m)
    BY <1>3, <2>2 DEF Take, Promise!Attempt, Unsent
  <2> QED BY <2>3 DEF Promise!Next
<1>4. ASSUME NEW p \in Procs, Deliver(p)
      PROVE  [Promise!Next]_(Promise!vars)
  <2>1. CASE Add(p)
    BY <1>0, <1>1, <2>1, EnqueueOwesNothing DEF Add
  <2>2. CASE ~Add(p)
    BY <1>2, <1>4, <2>2 DEF Deliver, Check, Lookup, Reserve, GiveBack, Observe,
                            Pause, Close
  <2> QED BY <2>1, <2>2
<1>5. ASSUME NEW p \in Procs, Process(p)
      PROVE  [Promise!Next]_(Promise!vars)
  <2>1. CASE Gate(p) \/ Handle(p) \/ Refund(p)
    BY <1>2, <2>1 DEF Gate, Handle, Refund, Turn
  <2>2. CASE Complete(p)
    <3>1. \A m \in Messages : job'[m] = job[m] \/ (job[m] = "active" /\ job'[m] = "completed")
      BY <1>0, <2>2 DEF Complete, JobTypeOK, InHand
    <3> QED BY <2>2, <3>1, RestOwes DEF Complete
  <2>3. CASE Drop(p)
    BY <2>3, RestOwes DEF Drop
  <2> QED BY <1>5, <2>1, <2>2, <2>3, SendHandsOver DEF Process
<1>6. ASSUME NEW p \in Procs, Fails(p)
      PROVE  [Promise!Next]_(Promise!vars)
  <2>1. CASE AddFails(p)
    <3>1. Unsent' = Unsent
      BY <1>0, <2>1, EnqueueOwesNothing DEF AddFails, Unsent
    <3> QED BY <1>1, <2>1, <3>1 DEF AddFails
  <2>2. CASE Unavailable(p) \/ LoseRedis(p) \/ HandleFails(p) \/ LoseLock(p)
    BY <1>2, <2>2 DEF Unavailable, LoseRedis, HandleFails, LoseLock, Turn
  <2>3. CASE GateFails(p)
    <3>1. \A m \in Messages : job'[m] = job[m] \/ (job[m] = "active" /\ job'[m] = "failed")
      BY <1>0, <2>3 DEF GateFails, JobTypeOK, InHand
    <3> QED BY <2>3, <3>1, RestOwes DEF GateFails
  <2>4. CASE Crash(p)
    BY <2>4, RestOwes DEF Crash
  <2> QED BY <1>6, <2>1, <2>2, <2>3, <2>4 DEF Fails
<1>7. ASSUME NEW p \in Procs, PauseLands(p) \/ \E m \in Messages : Submit(p, m)
      PROVE  UNCHANGED Promise!vars
  BY <1>2, <1>7 DEF PauseLands, Submit
<1>8. ASSUME NEW m \in Messages, Cancel(m) \/ Suppress(m)
      PROVE  UNCHANGED Promise!vars
  <2>1. CASE Cancel(m)
    <3>1. Unsent' = Unsent
      BY <1>0, <2>1 DEF Cancel, JobTypeOK, Unsent
    <3> QED BY <1>1, <2>1, <3>1 DEF Cancel
  <2>2. CASE Suppress(m)
    BY <1>2, <2>2 DEF Suppress
  <2> QED BY <1>8, <2>1, <2>2
<1>9. CASE PauseQueue \/ Resume \/ Operated
  BY <1>2, <1>9 DEF PauseQueue, Resume, Operate, Operated
<1>10. CASE UNCHANGED vars
  BY <1>2, <1>10 DEF vars
<1> QED BY <1>3, <1>4, <1>5, <1>6, <1>7, <1>8, <1>9, <1>10, StalledRenews DEF Next

(* Every run of MailQueue is one of OneCopy: a message is handed over only    *)
(* by a worker that took its job, and owed again only when the queue hands    *)
(* out the job of a worker that died or lost its lock; and a copy that the    *)
(* provider took while its answer denied it is not owed again.                *)
THEOREM QueueKeepsThePromise == Spec => KeepsThePromise
<1>1. Init => Promise!Init
  BY MessagesAssumption DEF Init, Promise!Init
<1>2. JobInv /\ [Next]_vars => [Promise!Next]_(Promise!vars)
  BY StepKeepsThePromise
<1> QED BY <1>1, <1>2, Invariance, PTL DEF Spec, KeepsThePromise, Promise!Spec

(***************************************************************************)
(* What a receipt says is true.  Of a refusal, Budget says it; of an       *)
(* acceptance, the answer in a worker's hand already was.                  *)
(***************************************************************************)
Took ==
  /\ \A p \in Procs : res[p] = "accepted" => copies[on[p]] >= 1
  /\ \A m \in Messages : receipt[m] = "accepted" => copies[m] >= 1

LEMMA TookNext ==
  ASSUME JobInv, JobInv', Took, [Next]_vars
  PROVE  Took'
<1> USE DEF redis, producer, worker, counts, history
<1>0. JobTypeOK /\ JobTypeOK' /\ InHand
  BY DEF JobInv
(* Whoever has the answer had it before, and what was taken stays so *)
<1>1. ASSUME \A m \in Messages : copies'[m] >= copies[m],
             \A q \in Procs : res'[q] = "accepted" =>
               \/ res[q] = "accepted" /\ on'[q] = on[q]
               \/ on'[q] \in Messages /\ copies'[on'[q]] >= 1,
             \A m \in Messages : receipt'[m] = "accepted" =>
               \/ receipt[m] = "accepted"
               \/ copies'[m] >= 1
      PROVE  Took'
  <2>1. ASSUME NEW q \in Procs, res'[q] = "accepted"
        PROVE  copies'[on'[q]] >= 1
    <3>1. CASE res[q] = "accepted" /\ on'[q] = on[q]
      <4>1. on[q] \in Messages /\ copies[on[q]] >= 1
        BY <1>0, <3>1 DEF InHand, Took
      <4> QED BY <1>0, <1>1, <3>1, <4>1 DEF JobTypeOK
    <3> QED BY <1>1, <2>1, <3>1
  <2>2. ASSUME NEW m \in Messages, receipt'[m] = "accepted"
        PROVE  copies'[m] >= 1
    <3>1. CASE receipt[m] = "accepted"
      BY <1>0, <1>1, <3>1 DEF JobTypeOK, Took
    <3> QED BY <1>1, <2>2, <3>1
  <2> QED BY <2>1, <2>2 DEF Took
<1>2. ASSUME UNCHANGED <<on, res, copies, receipt>>
      PROVE  Took'
  BY <1>2 DEF Took
<1>3. ASSUME copies' = copies
      PROVE  \A m \in Messages : copies'[m] >= copies[m]
  BY <1>0, <1>3 DEF JobTypeOK
<1>4. ASSUME NEW p \in Procs, Send(p)
      PROVE  Took'
  <2>1. PICK a \in Answers, n \in {0, 1} :
          /\ a = "accepted" => n = 1
          /\ res' = [res EXCEPT ![p] = a]
          /\ copies' = [copies EXCEPT ![on[p]] = @ + n]
    BY <1>4 DEF Send
  <2>2. on[p] \in Messages /\ on' = on /\ receipt' = receipt
    BY <1>0, <1>4 DEF Send, Turn, InHand
  <2>3. \A m \in Messages : copies'[m] >= copies[m]
    BY <1>0, <2>1, <2>2 DEF JobTypeOK
  <2>4. ASSUME NEW q \in Procs, res'[q] = "accepted"
        PROVE  \/ res[q] = "accepted" /\ on'[q] = on[q]
               \/ on'[q] \in Messages /\ copies'[on'[q]] >= 1
    <3>1. CASE q = p
      <4>1. a = "accepted"
        BY <1>0, <2>1, <2>4, <3>1 DEF JobTypeOK
      <4> QED BY <1>0, <2>1, <2>2, <3>1, <4>1 DEF JobTypeOK
    <3>2. CASE q # p
      BY <1>0, <2>1, <2>2, <2>4, <3>2 DEF JobTypeOK
    <3> QED BY <3>1, <3>2
  <2> QED BY <1>1, <2>2, <2>3, <2>4
<1>5. ASSUME NEW p \in Procs, Rest(p), copies' = copies,
             \A m \in Messages : receipt'[m] = "accepted" =>
               receipt[m] = "accepted" \/ (m = on[p] /\ res[p] = "accepted")
      PROVE  Took'
  <2>1. \A q \in Procs : res'[q] = "accepted" => res[q] = "accepted" /\ on'[q] = on[q]
    BY <1>0, <1>5 DEF Rest, JobTypeOK
  <2>2. \A m \in Messages : receipt'[m] = "accepted" =>
          receipt[m] = "accepted" \/ copies'[m] >= 1
    BY <1>5 DEF Took
  <2> QED BY <1>1, <1>3, <1>5, <2>1, <2>2
<1>6. ASSUME NEW p \in Procs, Complete(p)
      PROVE  Took'
  <2>1. \A m \in Messages : receipt'[m] = "accepted" =>
          receipt[m] = "accepted" \/ (m = on[p] /\ res[p] = "accepted")
    BY <1>0, <1>6 DEF Complete, JobTypeOK
  <2> QED BY <1>5, <1>6, <2>1 DEF Complete
<1>7. ASSUME NEW p \in Procs, Drop(p) \/ GateFails(p) \/ Crash(p)
      PROVE  Took'
  BY <1>5, <1>7 DEF Drop, GateFails, Crash
<1>8. ASSUME NEW p \in Procs,
             \/ Handle(p) \/ Refund(p) \/ Deliver(p) \/ PauseLands(p)
             \/ AddFails(p) \/ Unavailable(p) \/ LoseRedis(p) \/ LoseLock(p)
             \/ \E m \in Messages : Submit(p, m)
      PROVE  Took'
  BY <1>2, <1>8 DEF Handle, Refund, Turn, Deliver, Check, Lookup, Reserve, Add,
                    GiveBack, Observe, Pause, Close, PauseLands, AddFails,
                    Unavailable, LoseRedis, LoseLock, Submit
<1>9. ASSUME NEW p \in Procs, Gate(p) \/ HandleFails(p)
      PROVE  Took'
  <2>1. \A q \in Procs : res'[q] = "accepted" => res[q] = "accepted" /\ on'[q] = on[q]
    BY <1>0, <1>9 DEF Gate, HandleFails, Turn, JobTypeOK
  <2>2. copies' = copies /\ receipt' = receipt
    BY <1>9 DEF Gate, HandleFails
  <2> QED BY <1>1, <1>3, <2>1, <2>2
<1>10. ASSUME NEW p \in Procs, NEW m \in Messages, Take(p, m)
       PROVE  Took'
  <2>1. \A q \in Procs : res'[q] = "accepted" => res[q] = "accepted" /\ on'[q] = on[q]
    BY <1>0, <1>10 DEF Take, JobTypeOK, InHand
  <2>2. copies' = copies /\ receipt' = receipt
    BY <1>10 DEF Take
  <2> QED BY <1>1, <1>3, <2>1, <2>2
<1>11. ASSUME NEW m \in Messages, Stalled(m) \/ Cancel(m) \/ Suppress(m)
       PROVE  Took'
  BY <1>2, <1>11 DEF Stalled, Cancel, Suppress
<1>12. CASE PauseQueue \/ Resume \/ Operated
  BY <1>2, <1>12 DEF PauseQueue, Resume, Operate, Operated
<1>13. CASE UNCHANGED vars
  BY <1>2, <1>13 DEF vars
<1> QED BY <1>4, <1>6, <1>7, <1>8, <1>9, <1>10, <1>11, <1>12, <1>13
        DEF Next, Process, Fails

(* A receipt that says accepted stands for a copy the provider took, and one  *)
(* that says the message did not reach it for none, but of jobs handed out    *)
(* again and of a false answer: what the refund of the quota and the row of   *)
(* the ledger go by.                                                          *)
THEOREM ReceiptsTellTheTruth == Spec => []AnswersAreTrue
<1>1. Init => Took
  BY DEF Init, Took
<1>2. JobInv /\ JobInv' /\ Took /\ [Next]_vars => Took'
  BY TookNext
<1>3. JobInv /\ Took => AnswersAreTrue
  <2> SUFFICES ASSUME JobInv, NEW m \in Messages, receipt[m] \in Refusals
               PROVE  copies[m] <= redelivered[m] + denied[m]
    BY DEF AnswersAreTrue, Took
  <2>1. /\ BudgetOf(m) /\ Out(m) \in {0, 1} /\ TurnedDown(m) = 1
        /\ copies[m] \in Nat /\ redelivered[m] \in Nat /\ denied[m] \in Nat
    BY DEF JobInv, JobTypeOK, Budget, Out, TurnedDown
  <2>2. Cardinality(Spare(m)) \in Nat
    BY HolderSizes
  <2> QED BY <2>1, <2>2 DEF BudgetOf
<1> QED BY <1>1, <1>2, <1>3, Invariance, PTL DEF Spec

(***************************************************************************)
(* The quota.  A unit reserved stands behind each copy taken, behind each  *)
(* process about to queue a job or to give a unit back, behind each job    *)
(* that waits or that nobody has the lock on, and behind each worker that  *)
(* may still send or refund.  A fault is what lets one unit stand behind   *)
(* two of them.                                                            *)
(***************************************************************************)
Claims == {p \in Procs : pc[p] \in {"add", "giveback"}}

Adrift ==
  {m \in Messages :
     \/ job[m] = "waiting"
     \/ job[m] = "active" /\ \A p \in Procs : on[p] = m => p \in lapsed}

(* The worker's message was taken, or may have been: its unit is spent *)
Spends(p) ==
  \/ wk[p] = "complete"
  \/ wk[p] = "answered" /\ ~Refunds(res[p])

Holders == {p \in Procs : wk[p] # "idle" /\ ~Spends(p)}

QuotaInv ==
  taken + Cardinality(Claims) + Cardinality(Adrift) + Cardinality(Holders)
    <= used + faults

LEMMA Sizes ==
  /\ IsFiniteSet(Claims) /\ Cardinality(Claims) \in Nat
  /\ IsFiniteSet(Adrift) /\ Cardinality(Adrift) \in Nat
  /\ IsFiniteSet(Holders) /\ Cardinality(Holders) \in Nat
  /\ IsFiniteSet(Claims') /\ Cardinality(Claims') \in Nat
  /\ IsFiniteSet(Adrift') /\ Cardinality(Adrift') \in Nat
  /\ IsFiniteSet(Holders') /\ Cardinality(Holders') \in Nat
<1>1. /\ Claims \subseteq Procs /\ Claims' \subseteq Procs
      /\ Holders \subseteq Procs /\ Holders' \subseteq Procs
  BY DEF Claims, Holders
<1>2. Adrift \subseteq Messages /\ Adrift' \subseteq Messages
  BY DEF Adrift
<1> QED BY <1>1, <1>2, ProcsAssumption, MessagesAssumption, FS_Subset,
           FS_CardinalityType

(* The arithmetic common to every step: what is taken, used and failed, each *)
(* a number.                                                                 *)
LEMMA QuotaNumbers ==
  ASSUME TypeOK, TypeOK'
  PROVE  /\ taken \in Nat /\ used \in Nat /\ faults \in Nat
         /\ taken' \in Nat /\ used' \in Nat /\ faults' \in Nat
BY SizesAssumption DEF TypeOK

(* A step that needs no further unit *)
LEMMA QuietKeepsQuota ==
  ASSUME TypeOK, TypeOK', QuotaInv, taken' = taken,
         used' + faults' >= used + faults, Claims' \subseteq Claims,
         Adrift' \subseteq Adrift, Holders' \subseteq Holders
  PROVE  QuotaInv'
<1>1. /\ Cardinality(Claims') <= Cardinality(Claims)
      /\ Cardinality(Adrift') <= Cardinality(Adrift)
      /\ Cardinality(Holders') <= Cardinality(Holders)
  BY Sizes, AtMost
<1> QED BY <1>1, Sizes, QuotaNumbers DEF QuotaInv

(* A fault that sets a job adrift: one unit, the fault's *)
LEMMA FaultKeepsQuota ==
  ASSUME TypeOK, TypeOK', QuotaInv, NEW m, taken' = taken, used' = used,
         faults' = faults + 1, Claims' \subseteq Claims,
         Adrift' \subseteq Adrift \cup {m}, Holders' \subseteq Holders
  PROVE  QuotaInv'
<1>1. /\ Cardinality(Claims') <= Cardinality(Claims)
      /\ Cardinality(Adrift') <= Cardinality(Adrift) + 1
      /\ Cardinality(Holders') <= Cardinality(Holders)
  BY Sizes, AtMost, OneMore
<1> QED BY <1>1, Sizes, QuotaNumbers DEF QuotaInv

LEMMA DeliverKeepsQuota ==
  ASSUME TypeOK, TypeOK', QuotaInv, NEW p \in Procs, Deliver(p)
  PROVE  QuotaInv'
<1> USE DEF redis, worker, counts, history
<1>0. UNCHANGED <<worker, taken, faults>>
  BY DEF Deliver, Check, Lookup, Reserve, Add, GiveBack, Observe, Pause, Close
<1>1. Holders' = Holders /\ (UNCHANGED job => Adrift' = Adrift)
  BY <1>0 DEF Adrift, Holders, Spends
<1>2. CASE Check(p) \/ Lookup(p) \/ Observe(p) \/ Pause(p) \/ Close(p)
  <2>1. Claims' \subseteq Claims
    BY <1>2 DEF TypeOK, Check, Lookup, Observe, Pause, Close, Goto, Return, Claims
  <2>2. UNCHANGED job /\ used' = used
    BY <1>2 DEF Check, Lookup, Observe, Pause, Close
  <2> QED BY <1>0, <1>1, <2>1, <2>2, QuietKeepsQuota, QuotaNumbers
<1>3. CASE Reserve(p)
  <2>1. UNCHANGED job
    BY <1>3 DEF Reserve
  <2>2. CASE used' = used /\ Return(p)
    <3>1. Claims' \subseteq Claims
      BY <2>2 DEF TypeOK, Return, Claims
    <3> QED BY <1>0, <1>1, <2>1, <2>2, <3>1, QuietKeepsQuota, QuotaNumbers
  <2>3. CASE used' = used + 1 /\ Goto(p, "add")
    <3>1. Claims' \subseteq Claims \cup {p}
      BY <2>3 DEF TypeOK, Goto, Claims
    <3>2. Cardinality(Claims') <= Cardinality(Claims) + 1
      BY <3>1, Sizes, OneMore
    <3> QED BY <1>0, <1>1, <2>1, <2>3, <3>2, Sizes, QuotaNumbers DEF QuotaInv
  <2> QED BY <1>3, <2>2, <2>3 DEF Reserve
<1>4. CASE Add(p)
  <2>1. /\ pc[p] = "add" /\ pc' = [pc EXCEPT ![p] = "await"]
        /\ job' = [job EXCEPT ![at[p]] = IF job[at[p]] = "none" THEN "waiting" ELSE job[at[p]]]
        /\ used' = used
    BY <1>4 DEF Add, Goto, Enqueue
  <2>2. p \in Claims /\ Claims' \subseteq Claims \ {p}
    BY <2>1 DEF TypeOK, Claims
  <2>3. Adrift' \subseteq Adrift \cup {at[p]}
    BY <1>0, <2>1 DEF TypeOK, Adrift
  <2>4. /\ Cardinality(Claims') <= Cardinality(Claims) - 1
        /\ Cardinality(Adrift') <= Cardinality(Adrift) + 1
    BY <2>2, <2>3, Sizes, OneMore, OneLess
  <2> QED BY <1>0, <1>1, <2>1, <2>4, Sizes, QuotaNumbers DEF QuotaInv
<1>5. CASE GiveBack(p)
  <2>1. /\ pc[p] = "giveback" /\ pc' = [pc EXCEPT ![p] = "idle"]
        /\ UNCHANGED job
        /\ \/ used' = used
           \/ used' = IF used > 0 THEN used - 1 ELSE 0
    BY <1>5 DEF GiveBack, Return, Less
  <2>2. p \in Claims /\ Claims' \subseteq Claims \ {p}
    BY <2>1 DEF TypeOK, Claims
  <2>3. Cardinality(Claims') <= Cardinality(Claims) - 1
    BY <2>2, Sizes, OneLess
  <2>4. used' >= used - 1
    BY <2>1, QuotaNumbers
  <2> QED BY <1>0, <1>1, <2>1, <2>3, <2>4, Sizes, QuotaNumbers DEF QuotaInv
<1> QED BY <1>2, <1>3, <1>4, <1>5 DEF Deliver

(* A worker lets go.  A job it had the lock on is adrift unless it ended.    *)
LEMMA RestSets ==
  ASSUME TypeOK, NEW p \in Procs, Rest(p),
         \A m \in Messages : job'[m] = job[m] \/ job'[m] \in {"completed", "failed"}
  PROVE  /\ Holders' \subseteq Holders \ {p}
         /\ Adrift' \subseteq Adrift \cup {on[p]}
         /\ p \in lapsed \/ on[p] \notin Messages \/ job'[on[p]] \in {"completed", "failed"}
              => Adrift' \subseteq Adrift
<1>1. /\ wk'[p] = "idle" /\ on'[p] = NoMessage
      /\ \A q \in Procs \ {p} : /\ wk'[q] = wk[q] /\ on'[q] = on[q] /\ res'[q] = res[q]
                                /\ q \in lapsed' <=> q \in lapsed
  BY DEF TypeOK, Rest
<1>2. Holders' \subseteq Holders \ {p}
  BY <1>1 DEF Holders, Spends
<1>3. ASSUME NEW m \in Adrift', m # on[p] \/ p \in lapsed
      PROVE  m \in Adrift
  <2>1. m \in Messages /\ job'[m] = job[m] /\ job[m] \in {"waiting", "active"}
    BY <1>3 DEF Adrift
  <2>2. job[m] = "waiting" \/ \A q \in Procs : on'[q] = m => q \in lapsed'
    BY <1>3, <2>1 DEF Adrift
  <2>3. job[m] = "waiting" \/ \A q \in Procs : on[q] = m => q \in lapsed
    BY <1>1, <1>3, <2>2
  <2> QED BY <2>1, <2>3 DEF Adrift
<1>4. ASSUME on[p] \notin Messages \/ job'[on[p]] \in {"completed", "failed"}
      PROVE  on[p] \notin Adrift'
  BY <1>4 DEF Adrift
<1> QED BY <1>2, <1>3, <1>4

(* The unit behind a job goes to its copy, or is given back *)
LEMMA ProcessKeepsQuota ==
  ASSUME TypeOK, TypeOK', InHand, QuotaInv, NEW p \in Procs, Process(p)
  PROVE  QuotaInv'
<1> USE DEF redis, producer, counts, history
<1>1. pc' = pc /\ Claims' = Claims
  BY DEF Process, Gate, Send, Handle, Refund, Complete, Drop, Claims
<1>2. on[p] \in Messages /\ (p \notin lapsed => job[on[p]] = "active")
  BY DEF InHand, Process, Gate, Send, Handle, Refund, Complete, Drop
<1>3. ASSUME UNCHANGED <<job, on, lapsed>>
      PROVE  Adrift' = Adrift
  BY <1>3 DEF Adrift
<1>4. CASE Gate(p)
  <2>1. /\ wk[p] = "gate" /\ UNCHANGED <<job, on, lapsed, taken, used, faults>>
        /\ \A q \in Procs \ {p} : wk'[q] = wk[q] /\ res'[q] = res[q]
    BY <1>4 DEF TypeOK, Gate, Turn
  <2>2. Holders' \subseteq Holders
    BY <2>1 DEF Holders, Spends
  <2> QED BY <1>1, <1>3, <2>1, <2>2, QuietKeepsQuota, QuotaNumbers
<1>5. CASE Send(p)
  <2>1. PICK a \in Answers, n \in {0, 1} :
          /\ \/ (a \notin Refusals \/ n = 0) /\ UNCHANGED <<denied, faults>>
             \/ a \in Refusals /\ n = 1 /\ Fault
          /\ res' = [res EXCEPT ![p] = a] /\ taken' = taken + n
    BY <1>5 DEF Send
  <2>2. /\ wk[p] = "send" /\ wk' = [wk EXCEPT ![p] = "answered"]
        /\ UNCHANGED <<job, on, lapsed, used>>
    BY <1>5 DEF Send, Turn
  <2>3. /\ wk'[p] = "answered" /\ res'[p] = a
        /\ \A q \in Procs \ {p} : wk'[q] = wk[q] /\ res'[q] = res[q]
    BY <2>1, <2>2 DEF TypeOK
  <2>4. p \in Holders /\ Holders' \subseteq Holders
    BY <2>2, <2>3 DEF Holders, Spends
  <2>5. CASE n = 0
    <3>1. faults' = faults
      BY <2>1, <2>5
    <3> QED BY <1>1, <1>3, <2>1, <2>2, <2>4, <2>5, <3>1, QuietKeepsQuota,
               QuotaNumbers
  <2>6. CASE n = 1 /\ a \in Refusals
    <3>1. faults' = faults + 1
      BY <2>1, <2>6 DEF Fault
    <3>2. Cardinality(Holders') <= Cardinality(Holders) /\ Adrift' = Adrift
      BY <1>3, <2>2, <2>4, Sizes, AtMost
    <3> QED BY <1>1, <2>1, <2>2, <2>6, <3>1, <3>2, Sizes, QuotaNumbers
            DEF QuotaInv
  <2>7. CASE n = 1 /\ a \notin Refusals
    <3>1. faults' = faults /\ a \in {"accepted", "unknown"}
      BY <2>1, <2>7 DEF Refusals, Results
    <3>2. Spends(p)'
      BY <2>3, <3>1 DEF Spends, Refunds
    <3>3. Holders' \subseteq Holders \ {p}
      BY <2>4, <3>2 DEF Holders
    <3>4. Cardinality(Holders') <= Cardinality(Holders) - 1 /\ Adrift' = Adrift
      BY <1>3, <2>2, <2>4, <3>3, Sizes, OneLess
    <3> QED BY <1>1, <2>1, <2>2, <2>7, <3>1, <3>4, Sizes, QuotaNumbers
            DEF QuotaInv
  <2> QED BY <2>5, <2>6, <2>7
<1>6. CASE Handle(p)
  <2>1. /\ wk[p] = "answered"
        /\ UNCHANGED <<job, on, lapsed, res, taken, used, faults>>
        /\ wk' = [wk EXCEPT ![p] = IF Refunds(res[p]) THEN "refund" ELSE "complete"]
    BY <1>6 DEF Handle, Turn
  <2>2. Holders' \subseteq Holders
    BY <2>1 DEF TypeOK, Holders, Spends
  <2> QED BY <1>1, <1>3, <2>1, <2>2, QuietKeepsQuota, QuotaNumbers
<1>7. CASE Refund(p)
  <2>1. /\ wk[p] = "refund" /\ wk' = [wk EXCEPT ![p] = "complete"]
        /\ UNCHANGED <<job, on, lapsed, res, taken>>
        /\ \/ used' = (IF used > 0 THEN used - 1 ELSE 0) /\ faults' = faults
           \/ used' = used /\ faults' = faults + 1
    BY <1>7 DEF Refund, Turn, Less, Fault
  <2>2. p \in Holders /\ Holders' \subseteq Holders \ {p}
    BY <2>1 DEF TypeOK, Holders, Spends
  <2>3. Cardinality(Holders') <= Cardinality(Holders) - 1 /\ Adrift' = Adrift
    BY <1>3, <2>1, <2>2, Sizes, OneLess
  <2>4. used' + faults' >= used + faults - 1
    BY <2>1, QuotaNumbers
  <2> QED BY <1>1, <2>1, <2>3, <2>4, Sizes, QuotaNumbers DEF QuotaInv
<1>8. CASE Complete(p)
  <2>1. /\ Rest(p) /\ UNCHANGED <<taken, used, faults>>
        /\ p \in lapsed => UNCHANGED job
        /\ p \notin lapsed => job' = [job EXCEPT ![on[p]] = "completed"]
    BY <1>8 DEF Complete
  <2>2. /\ \A m \in Messages : job'[m] = job[m] \/ job'[m] \in {"completed", "failed"}
        /\ p \in lapsed \/ job'[on[p]] \in {"completed", "failed"}
    BY <1>2, <2>1 DEF TypeOK
  <2> QED BY <1>1, <2>1, <2>2, RestSets, QuietKeepsQuota, QuotaNumbers
<1>9. CASE Drop(p)
  <2>1. Rest(p) /\ p \in lapsed /\ UNCHANGED <<job, taken, used, faults>>
    BY <1>9 DEF Drop, InHand
  <2> QED BY <1>1, <2>1, RestSets, QuietKeepsQuota, QuotaNumbers
<1> QED BY <1>4, <1>5, <1>6, <1>7, <1>8, <1>9 DEF Process

LEMMA FailsKeepsQuota ==
  ASSUME TypeOK, TypeOK', InHand, QuotaInv, NEW p \in Procs, Fails(p)
  PROVE  QuotaInv'
<1> USE DEF redis, worker, counts, history
<1>0. faults' = faults + 1 /\ taken' = taken
  BY DEF Fails, AddFails, Unavailable, LoseRedis, GateFails, HandleFails,
         LoseLock, Crash, Fault
<1>1. CASE AddFails(p)
  <2>1. /\ pc[p] = "add" /\ pc' = [pc EXCEPT ![p] = "giveback"]
        /\ \/ job' = job
           \/ job' = [job EXCEPT ![at[p]] = IF job[at[p]] = "none" THEN "waiting" ELSE job[at[p]]]
        /\ UNCHANGED <<worker, used>>
    BY <1>1 DEF AddFails, Goto, Enqueue
  <2>2. Claims' \subseteq Claims /\ Holders' = Holders
    BY <2>1 DEF TypeOK, Claims, Holders, Spends
  <2>3. Adrift' \subseteq Adrift \cup {at[p]}
    BY <2>1 DEF TypeOK, Adrift
  <2> QED BY <1>0, <2>1, <2>2, <2>3, FaultKeepsQuota
<1>2. CASE Unavailable(p)
  <2>1. /\ pc' = [pc EXCEPT ![p] = "idle"]
        /\ used' \in {used, used + 1} /\ UNCHANGED <<job, worker>>
    BY <1>2 DEF Unavailable, Return
  <2>2. Claims' \subseteq Claims /\ Adrift' = Adrift /\ Holders' = Holders
    BY <2>1 DEF TypeOK, Claims, Adrift, Holders, Spends
  <2> QED BY <1>0, <2>1, <2>2, QuietKeepsQuota, QuotaNumbers
<1>3. CASE LoseRedis(p) \/ LoseLock(p)
  <2>1. /\ UNCHANGED <<job, wk, on, res, used>>
        /\ \A q \in Procs \ {p} : q \in lapsed' <=> q \in lapsed
    BY <1>3 DEF LoseRedis, LoseLock
  <2>2. Holders' = Holders
    BY <2>1 DEF Holders, Spends
  <2>3. Claims' \subseteq Claims
    BY <1>3 DEF TypeOK, LoseRedis, LoseLock, producer, Claims
  <2>4. Adrift' \subseteq Adrift \cup {on[p]}
    BY <2>1 DEF Adrift
  <2> QED BY <1>0, <2>1, <2>2, <2>3, <2>4, FaultKeepsQuota
<1>4. CASE GateFails(p)
  <2>1. /\ Rest(p) /\ used' = used /\ pc' = pc
        /\ job' = IF p \in lapsed THEN job ELSE [job EXCEPT ![on[p]] = "failed"]
    BY <1>4 DEF GateFails, producer
  <2>2. \A m \in Messages : job'[m] = job[m] \/ job'[m] \in {"completed", "failed"}
    BY <2>1 DEF TypeOK
  <2>3. Claims' = Claims
    BY <2>1 DEF Claims
  <2>4. Holders' \subseteq Holders /\ Adrift' \subseteq Adrift \cup {on[p]}
    BY <2>1, <2>2, RestSets
  <2> QED BY <1>0, <2>1, <2>3, <2>4, FaultKeepsQuota
<1>5. CASE HandleFails(p)
  <2>1. /\ wk[p] = "answered" /\ UNCHANGED <<pc, job, on, lapsed, used>>
        /\ \A q \in Procs \ {p} : wk'[q] = wk[q] /\ res'[q] = res[q]
        /\ res[p] \in {"restricted", "bounced"}
    BY <1>5 DEF TypeOK, HandleFails, Turn, producer
  <2>2. p \in Holders
    BY <2>1 DEF Holders, Spends, Refunds
  <2>3. Claims' = Claims /\ Adrift' = Adrift /\ Holders' \subseteq Holders
    BY <2>1, <2>2 DEF Claims, Adrift, Holders, Spends
  <2> QED BY <1>0, <2>1, <2>3, QuietKeepsQuota, QuotaNumbers
<1>6. CASE Crash(p)
  <2>1. /\ Rest(p) /\ UNCHANGED <<job, used>> /\ pc' = [pc EXCEPT ![p] = "idle"]
    BY <1>6 DEF Crash, Return
  <2>2. Claims' \subseteq Claims
    BY <2>1 DEF TypeOK, Claims
  <2>3. Holders' \subseteq Holders /\ Adrift' \subseteq Adrift \cup {on[p]}
    BY <2>1, RestSets
  <2> QED BY <1>0, <2>1, <2>2, <2>3, FaultKeepsQuota
<1> QED BY <1>1, <1>2, <1>3, <1>4, <1>5, <1>6 DEF Fails

(* The unit of a job that waits goes to the worker that takes it *)
LEMMA TakeKeepsQuota ==
  ASSUME TypeOK, TypeOK', InHand, QuotaInv, NEW p \in Procs, NEW m \in Messages,
         Take(p, m)
  PROVE  QuotaInv'
<1>1. /\ wk[p] = "idle" /\ on[p] = NoMessage /\ p \notin lapsed /\ job[m] = "waiting"
      /\ job' = [job EXCEPT ![m] = "active"]
      /\ wk' = [wk EXCEPT ![p] = "gate"] /\ on' = [on EXCEPT ![p] = m]
      /\ UNCHANGED <<pc, res, lapsed, used, taken, faults>>
  BY DEF Take, InHand, producer, counts, history
<1>2. m \in Adrift /\ Adrift' \subseteq Adrift \ {m}
  BY <1>1, MessagesAssumption DEF TypeOK, Adrift
<1>3. Holders' \subseteq Holders \cup {p}
  BY <1>1 DEF TypeOK, Holders, Spends
<1>4. Claims' = Claims
  BY <1>1 DEF Claims
<1>5. /\ Cardinality(Adrift') <= Cardinality(Adrift) - 1
      /\ Cardinality(Holders') <= Cardinality(Holders) + 1
  BY <1>2, <1>3, Sizes, OneMore, OneLess
<1> QED BY <1>1, <1>4, <1>5, Sizes, QuotaNumbers DEF QuotaInv

LEMMA QuotaNext ==
  ASSUME TypeOK, TypeOK', InHand, QuotaInv, [Next]_vars
  PROVE  QuotaInv'
<1> USE DEF redis, producer, worker, counts, history
<1>1. ASSUME UNCHANGED <<job, worker, taken, used, faults>>, Claims' \subseteq Claims
      PROVE  QuotaInv'
  <2>1. Adrift' = Adrift /\ Holders' = Holders
    BY <1>1 DEF Adrift, Holders, Spends
  <2> QED BY <1>1, <2>1, QuietKeepsQuota, QuotaNumbers
<1>2. ASSUME UNCHANGED pc
      PROVE  Claims' = Claims
  BY <1>2 DEF Claims
<1>3. ASSUME NEW p \in Procs, NEW m \in Messages, Submit(p, m)
      PROVE  QuotaInv'
  <2>1. Claims' \subseteq Claims
    BY <1>3 DEF TypeOK, Submit, Claims
  <2> QED BY <1>1, <1>3, <2>1 DEF Submit
<1>4. ASSUME NEW p \in Procs, PauseLands(p)
      PROVE  QuotaInv'
  BY <1>1, <1>2, <1>4 DEF PauseLands
<1>5. ASSUME NEW m \in Messages, Stalled(m) \/ Cancel(m)
      PROVE  QuotaInv'
  <2>1. UNCHANGED <<pc, worker, taken, used, faults>>
    BY <1>5 DEF Stalled, Cancel
  <2>2. Adrift' \subseteq Adrift /\ Holders' = Holders
    BY <1>5, <2>1 DEF TypeOK, Stalled, Cancel, Adrift, Holders, Spends
  <2> QED BY <1>2, <2>1, <2>2, QuietKeepsQuota, QuotaNumbers
<1>6. ASSUME NEW m \in Messages, Suppress(m)
      PROVE  QuotaInv'
  BY <1>1, <1>2, <1>6 DEF Suppress
<1>7. CASE PauseQueue \/ Resume \/ Operated
  BY <1>1, <1>2, <1>7 DEF PauseQueue, Resume, Operate, Operated
<1>8. CASE UNCHANGED vars
  BY <1>1, <1>2, <1>8 DEF vars
<1> QED BY <1>3, <1>4, <1>5, <1>6, <1>7, <1>8, DeliverKeepsQuota,
           ProcessKeepsQuota, FailsKeepsQuota, TakeKeepsQuota DEF Next

(* In no order of reservations, sends, refusals, refunds, crashes, lost locks *)
(* and second deliveries does the provider take more copies than the quota,   *)
(* but for one for each fault.                                                *)
THEOREM QuotaIsHonoured == Spec => []CapHonoured
<1>1. Init => QuotaInv
  <2> SUFFICES ASSUME Init PROVE QuotaInv
    OBVIOUS
  <2>1. Claims = {} /\ Adrift = {} /\ Holders = {}
    BY DEF Init, Claims, Adrift, Holders
  <2> QED BY <2>1, FS_EmptySet DEF Init, QuotaInv
<1>2. (TypeOK /\ JobInv) /\ (TypeOK /\ JobInv)' /\ QuotaInv /\ [Next]_vars => QuotaInv'
  BY QuotaNext DEF JobInv
<1>3. TypeOK /\ QuotaInv => CapHonoured
  <2> SUFFICES ASSUME TypeOK, QuotaInv PROVE CapHonoured
    OBVIOUS
  <2>1. taken \in Nat /\ used \in Nat /\ faults \in Nat /\ used <= Limit
    BY SizesAssumption DEF TypeOK
  <2> QED BY <2>1, Sizes, SizesAssumption DEF QuotaInv, CapHonoured
<1> QED BY Invariance, <1>1, <1>2, <1>3, PTL DEF Spec
=============================================================================
