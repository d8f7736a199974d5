------------------------ MODULE CloudExchange_proofs ------------------------
(***************************************************************************)
(* What machines exchange through the cloud: reshares (Reshare), settings  *)
(* (SynConfig), who wants no mail (UnsubscribeSync) and the mail the cloud *)
(* sends for them (HostedMail), for every value of the constants.          *)
(***************************************************************************)
EXTENDS Reshare, SynConfig, UnsubscribeSync, HostedMail, FiniteSetTheorems, TLAPS

(***************************************************************************)
(* A request is shared once for a sharer and network, for any number of    *)
(* people, installs, requests and faults.                                  *)
(*                                                                         *)
(* SharedOnce is not inductive: it does not say who may still share.       *)
(* HandInv does: whoever inserted the row is the only one that shares and  *)
(* reports it, its row waits for the report, and the network took as many  *)
(* shares as the answer in its hand admits.                                *)
(***************************************************************************)

SharePlaces == {"idle", "match", "next", "claim", "insert", "share", "report", "record"}
WithKey == {"claim", "insert", "share", "report", "record"}
Tasks == [budget : 0..PerDay, todo : SUBSET Keys, key : Keys \cup {<<>>},
          res : Outcomes \cup {"none"}]

(***************************************************************************)
(* Types                                                                   *)
(***************************************************************************)
(* What a worker has to do is for its own user *)
OwnTodo == \A w \in Workers : \A k \in task[w].todo : k[2] = UserOf[w]

TaskTypeOK ==
  /\ rpc \in [Workers -> SharePlaces] /\ task \in [Workers -> Tasks] /\ OwnTodo
  /\ \A w \in Workers : rpc[w] \in WithKey =>
       task[w].key \in Keys /\ task[w].key[2] = UserOf[w] /\ task[w].budget > 0

(* A worker goes on with a task that is its own *)
LEMMA GoesType ==
  ASSUME TaskTypeOK, NEW w \in Workers, NEW where \in SharePlaces, NEW t \in Tasks,
         Goes(w, where, t),
         \A k \in t.todo : k[2] = UserOf[w],
         where \in WithKey => t.key \in Keys /\ t.key[2] = UserOf[w] /\ t.budget > 0
  PROVE  TaskTypeOK'
BY DEF TaskTypeOK, OwnTodo, Goes

LEMMA TaskTypes ==
  ASSUME TaskTypeOK, NEW w \in Workers
  PROVE  /\ task[w] \in Tasks /\ \A k \in task[w].todo : k[2] = UserOf[w]
         /\ NoTask \in Tasks /\ NoTask.todo = {}
         /\ SharePlaces = {"idle", "match", "next", "claim", "insert", "share", "report", "record"}
BY ReshareAssumption DEF TaskTypeOK, OwnTodo, Tasks, NoTask, SharePlaces

LEMMA DayIsFinite ==
  ASSUME NEW S \in SUBSET Keys
  PROVE  IsFiniteSet(S) /\ Cardinality(S) \in Nat
BY ReshareAssumption, FS_Subset, FS_CardinalityType

LEMMA TurnTaskType ==
  ASSUME ReshareTypeOK, TaskTypeOK, NEW w \in Workers, ReshareTurn(w)
  PROVE  TaskTypeOK'
<1> DEFINE u == UserOf[w]
           t == [NoTask EXCEPT !.budget = PerDay - Cardinality(today[u])]
<1>1. Cardinality(today[u]) \in Nat /\ Cardinality(today[u]) < PerDay
  BY ReshareAssumption, DayIsFinite DEF ReshareTurn, ReshareTypeOK
<1>2. PerDay - Cardinality(today[u]) \in 0..PerDay
  BY <1>1, ReshareAssumption
<1>3. t \in Tasks /\ t.todo = {}
  BY <1>2 DEF NoTask, Tasks
<1>4. Goes(w, "match", t)
  BY DEF ReshareTurn
<1> HIDE DEF t
<1> QED BY <1>3, <1>4, GoesType DEF SharePlaces, WithKey

LEMMA MatchesTaskType ==
  ASSUME ReshareTypeOK, TaskTypeOK, NEW w \in Workers, Matches(w)
  PROVE  TaskTypeOK'
<1>1. task[w] \in Tasks /\ NoTask \in Tasks /\ NoTask.todo = {}
  BY TaskTypes
<1>2. CASE Goes(w, "idle", NoTask)
  BY <1>1, <1>2, GoesType DEF SharePlaces, WithKey
<1>3. ASSUME NEW S \in SUBSET Keys, \A k \in S : k[2] = UserOf[w],
             Goes(w, "next", [task[w] EXCEPT !.todo = S])
      PROVE  TaskTypeOK'
  <2>1. [task[w] EXCEPT !.todo = S] \in Tasks /\ [task[w] EXCEPT !.todo = S].todo = S
    BY <1>1, <1>3 DEF Tasks
  <2> QED BY <1>3, <2>1, GoesType DEF SharePlaces, WithKey
<1>4. \A new \in SUBSET Requests : \A S \in SUBSET (new \X {UserOf[w]} \X Networks) :
        S \in SUBSET Keys /\ \A k \in S : k[2] = UserOf[w]
  BY ReshareAssumption DEF Keys
<1> QED BY <1>2, <1>3, <1>4 DEF Matches

LEMMA NextTaskType ==
  ASSUME ReshareTypeOK, TaskTypeOK, NEW w \in Workers, NextMatch(w)
  PROVE  TaskTypeOK'
<1>1. /\ task[w] \in Tasks /\ NoTask \in Tasks /\ NoTask.todo = {}
      /\ \A k \in task[w].todo : k[2] = UserOf[w]
  BY TaskTypes
<1>2. CASE Next_(w, "idle", NoTask)
  BY <1>1, <1>2, GoesType DEF SharePlaces, WithKey, Next_
<1>3. ASSUME NEW k \in task[w].todo, task[w].budget > 0,
             Next_(w, "claim", [task[w] EXCEPT !.todo = @ \ {k}, !.key = k])
      PROVE  TaskTypeOK'
  <2> DEFINE t == [task[w] EXCEPT !.todo = @ \ {k}, !.key = k]
  <2>1. t \in Tasks /\ t.todo \subseteq task[w].todo /\ t.key = k /\ k \in Keys /\ t.budget > 0
    BY <1>1, <1>3 DEF Tasks
  <2>2. Goes(w, "claim", t)
    BY <1>3 DEF Next_
  <2> HIDE DEF t
  <2> QED BY <1>1, <1>3, <2>1, <2>2, GoesType DEF SharePlaces, WithKey
<1> QED BY <1>2, <1>3 DEF NextMatch

(* The steps that go on with the task there is, or drop it *)
LEMMA KeptTaskType ==
  ASSUME ReshareTypeOK, TaskTypeOK, NEW w \in Workers,
         ClaimCount(w) \/ ClaimInsert(w) \/ Report(w) \/ ReshareCrash(w)
  PROVE  TaskTypeOK'
<1>1. /\ task[w] \in Tasks /\ NoTask \in Tasks /\ NoTask.todo = {}
      /\ \A k \in task[w].todo : k[2] = UserOf[w]
  BY TaskTypes
<1>2. rpc[w] \in WithKey =>
        task[w].key \in Keys /\ task[w].key[2] = UserOf[w] /\ task[w].budget > 0
  BY DEF TaskTypeOK
<1>3. CASE Goes(w, "idle", NoTask)
  BY <1>1, <1>3, GoesType DEF SharePlaces, WithKey
<1>4. ASSUME rpc[w] \in WithKey, NEW where \in SharePlaces, Goes(w, where, task[w])
      PROVE  TaskTypeOK'
  BY <1>1, <1>2, <1>4, GoesType
<1> QED BY <1>3, <1>4 DEF ClaimCount, ClaimInsert, Report, ReshareCrash, Next_, SharePlaces, WithKey

LEMMA ShareTaskType ==
  ASSUME ReshareTypeOK, TaskTypeOK, NEW w \in Workers, Share(w) \/ RecordDone(w)
  PROVE  TaskTypeOK'
<1>1. task[w] \in Tasks /\ \A k \in task[w].todo : k[2] = UserOf[w]
  BY TaskTypes
<1>2. CASE Share(w)
  <2>1. PICK res \in Outcomes : Goes(w, "report", [task[w] EXCEPT !.res = res])
    BY <1>2 DEF Share
  <2>2. /\ [task[w] EXCEPT !.res = res] \in Tasks
        /\ [task[w] EXCEPT !.res = res].todo = task[w].todo
        /\ [task[w] EXCEPT !.res = res].key = task[w].key
        /\ [task[w] EXCEPT !.res = res].budget = task[w].budget
    BY <1>1 DEF Tasks
  <2>3. task[w].key \in Keys /\ task[w].key[2] = UserOf[w] /\ task[w].budget > 0
    BY <1>2 DEF Share, TaskTypeOK, WithKey
  <2> QED BY <1>1, <2>1, <2>2, <2>3, GoesType DEF SharePlaces
<1>3. CASE RecordDone(w)
  <2> DEFINE t == [task[w] EXCEPT !.key = <<>>, !.res = "none",
                                  !.budget = IF task[w].res = "ok" THEN @ - 1 ELSE @]
  <2>1. Goes(w, "next", t)
    BY <1>3 DEF RecordDone
  <2>2. task[w].budget \in 0..PerDay /\ task[w].budget > 0
    BY <1>1, <1>3 DEF RecordDone, TaskTypeOK, WithKey, Tasks
  <2>3. task[w].budget \in 0..PerDay /\ task[w].budget - 1 \in 0..PerDay
    BY <2>2, ReshareAssumption
  <2>4. t \in Tasks /\ t.todo = task[w].todo
    BY <1>1, <2>3 DEF Tasks
  <2> HIDE DEF t
  <2> QED BY <1>1, <2>1, <2>4, GoesType DEF SharePlaces, WithKey
<1> QED BY <1>2, <1>3

(* The rows and the records *)
RowTypeOK ==
  /\ active \subseteq Users /\ joined \subseteq Users /\ strained \subseteq Users
  /\ request \in [Requests -> {"none", "open", "closed"}]
  /\ claims \in [Keys -> {"none", "claimed", "done", "failed"}] /\ paid \subseteq Keys
  /\ today \in [Users -> SUBSET Keys]
  /\ shares \in [Keys -> 0..2] /\ passed \subseteq Workers
  /\ overfull \in [Requests -> Nat]

RowsAndTasks == RowTypeOK /\ TaskTypeOK

LEMMA RowsAndTasksIsType == RowsAndTasks => ReshareTypeOK
BY DEF RowsAndTasks, RowTypeOK, TaskTypeOK, ReshareTypeOK, Tasks, SharePlaces, WithKey

LEMMA WorkerRowType ==
  ASSUME RowsAndTasks, NEW w \in Workers,
         \/ ReshareTurn(w) \/ Matches(w) \/ NextMatch(w) \/ ClaimCount(w) \/ ClaimInsert(w)
         \/ Share(w) \/ Report(w) \/ RecordDone(w) \/ ReshareCrash(w)
  PROVE  RowTypeOK'
<1>1. /\ UserOf[w] \in Users
      /\ rpc[w] \in WithKey => /\ task[w].key \in Keys
                              /\ task[w].key[1] \in Requests
  BY ReshareAssumption DEF RowsAndTasks, TaskTypeOK, Keys
<1>2. CASE ReshareTurn(w) \/ Matches(w) \/ NextMatch(w) \/ ClaimCount(w) \/ ReshareCrash(w)
  BY <1>1, <1>2 DEF ReshareTurn, Matches, NextMatch, ClaimCount, ReshareCrash, Next_, RowsAndTasks,
                    RowTypeOK
<1>3. CASE ClaimInsert(w)
  BY <1>1, <1>3 DEF ClaimInsert, Next_, RowsAndTasks, RowTypeOK, WithKey
<1>4. CASE Share(w)
  BY <1>1, <1>4 DEF Share, RowsAndTasks, RowTypeOK, WithKey
<1>5. CASE Report(w)
  BY <1>1, <1>5 DEF Report, RowsAndTasks, RowTypeOK, WithKey
<1>6. CASE RecordDone(w)
  BY <1>1, <1>6 DEF RecordDone, RowsAndTasks, RowTypeOK, WithKey
<1> QED BY <1>2, <1>3, <1>4, <1>5, <1>6

LEMMA PeopleType ==
  ASSUME RowsAndTasks,
         \/ \E u \in Users : Join(u) \/ Leave(u) \/ DayGoes(u)
         \/ \E r \in Requests : Ask(r)
         \/ \E k \in Keys : markPaid(k)
  PROVE  RowsAndTasks'
<1>1. UNCHANGED <<rpc, task>>
  BY DEF Join, Leave, DayGoes, Ask, markPaid
<1>2. TaskTypeOK'
  BY <1>1 DEF RowsAndTasks, TaskTypeOK, OwnTodo
<1>3. RowTypeOK'
  BY DEF Join, Leave, DayGoes, Ask, markPaid, RowsAndTasks, RowTypeOK
<1> QED BY <1>2, <1>3 DEF RowsAndTasks

LEMMA RowsAndTasksInit == ReshareInit => RowsAndTasks
<1> SUFFICES ASSUME ReshareInit PROVE RowsAndTasks
  OBVIOUS
<1>1. NoTask \in Tasks /\ NoTask.todo = {}
  BY ReshareAssumption DEF NoTask, Tasks
<1> QED BY <1>1 DEF ReshareInit, RowsAndTasks, RowTypeOK, TaskTypeOK, OwnTodo, SharePlaces, WithKey

LEMMA RowsAndTasksStep == RowsAndTasks /\ [ReshareNext]_<<reshareVars, faults>> => RowsAndTasks'
<1> SUFFICES ASSUME RowsAndTasks, [ReshareNext]_<<reshareVars, faults>> PROVE RowsAndTasks'
  OBVIOUS
<1>1. ReshareTypeOK /\ TaskTypeOK
  BY RowsAndTasksIsType DEF RowsAndTasks
<1>2. CASE UNCHANGED <<reshareVars, faults>>
  BY <1>2 DEF reshareVars, RowsAndTasks, RowTypeOK, TaskTypeOK, OwnTodo
<1>3. ASSUME NEW w \in Workers,
             \/ ReshareTurn(w) \/ Matches(w) \/ NextMatch(w) \/ ClaimCount(w) \/ ClaimInsert(w)
             \/ Share(w) \/ Report(w) \/ RecordDone(w) \/ ReshareCrash(w)
      PROVE  RowsAndTasks'
  BY <1>1, <1>3, WorkerRowType, TurnTaskType, MatchesTaskType, NextTaskType, KeptTaskType,
     ShareTaskType DEF RowsAndTasks
<1> QED BY <1>2, <1>3, PeopleType DEF ReshareNext

(* Every variable of the network keeps its type, and a worker has a request  *)
(* in hand for its own user only.                                            *)
THEOREM ReshareTypeCorrect == ReshareSpec => []ReshareTypeOK
<1> QED BY RowsAndTasksInit, RowsAndTasksStep, RowsAndTasksIsType, PTL DEF ReshareSpec

(***************************************************************************)
(* One share                                                               *)
(***************************************************************************)
Has(w, k) == rpc[w] \in {"share", "report"} /\ task[w].key = k

HandInv ==
  /\ \A w \in Workers, k \in Keys : Has(w, k) =>
       /\ claims[k] = "claimed"
       /\ rpc[w] = "share" => shares[k] = 0
       /\ rpc[w] = "report" =>
            task[w].res \in Outcomes /\ shares[k] = IF Landed(task[w].res) THEN 1 ELSE 0
  /\ \A w, o \in Workers, k \in Keys : Has(w, k) /\ Has(o, k) => w = o

ShareInv == HandInv /\ SharedOnce

LEMMA ShareInit == ReshareInit => ShareInv
BY DEF ReshareInit, ShareInv, HandInv, SharedOnce, Has

(* A step that moves no row and takes no share, of a worker that comes to   *)
(* neither sharing nor reporting, or of nobody                              *)
LEMMA RowsStay ==
  ASSUME ShareInv, RowsAndTasks, UNCHANGED <<claims, paid, shares>>,
         \A w \in Workers, k \in Keys : Has(w, k)' =>
           Has(w, k) /\ rpc'[w] = rpc[w] /\ task'[w].res = task[w].res
  PROVE  ShareInv'
<1>1. SharedOnce'
  BY DEF ShareInv, SharedOnce
<1>2. HandInv'
  BY DEF ShareInv, HandInv
<1> QED BY <1>1, <1>2 DEF ShareInv

LEMMA OthersStay ==
  ASSUME RowsAndTasks, NEW w \in Workers, NEW where, NEW t, Goes(w, where, t)
  PROVE  /\ rpc'[w] = where /\ task'[w] = t
         /\ \A o \in Workers \ {w}, k \in Keys : Has(o, k)' <=> Has(o, k)
         /\ \A o \in Workers \ {w} : rpc'[o] = rpc[o] /\ task'[o] = task[o]
BY DEF Goes, Has, RowsAndTasks, TaskTypeOK

(* Elsewhere: neither sharing nor reporting *)
LEMMA ElsewhereStep ==
  ASSUME ShareInv, RowsAndTasks, NEW w \in Workers,
         ReshareTurn(w) \/ Matches(w) \/ NextMatch(w) \/ ClaimCount(w) \/ RecordDone(w)
           \/ ReshareCrash(w)
  PROVE  ShareInv'
<1>1. UNCHANGED <<claims, paid, shares>>
  BY DEF ReshareTurn, Matches, NextMatch, ClaimCount, RecordDone, ReshareCrash, Next_
<1>2. \E where \in SharePlaces \ {"share", "report"} : \E t : Goes(w, where, t)
  BY DEF ReshareTurn, Matches, NextMatch, ClaimCount, RecordDone, ReshareCrash, Next_, SharePlaces
<1>3. PICK where \in SharePlaces \ {"share", "report"} : \E t : Goes(w, where, t)
  BY <1>2
<1>4. PICK t : Goes(w, where, t)
  BY <1>3
<1>5. \A k \in Keys : ~Has(w, k)'
  BY <1>4, OthersStay DEF Has
<1> QED BY <1>1, <1>4, <1>5, OthersStay, RowsStay

(* The row is inserted, and is nobody else's *)
LEMMA InsertStep ==
  ASSUME ShareInv, RowsAndTasks, NEW w \in Workers, ClaimInsert(w)
  PROVE  ShareInv'
<1> DEFINE k == task[w].key
<1>1. k \in Keys /\ rpc[w] = "insert"
  BY DEF ClaimInsert, RowsAndTasks, TaskTypeOK, WithKey
<1>2. CASE Next_(w, "next", task[w])
  <2>1. UNCHANGED <<claims, paid, shares>> /\ Goes(w, "next", task[w])
    BY <1>2 DEF Next_
  <2>2. \A j \in Keys : ~Has(w, j)'
    BY <2>1, OthersStay DEF Has
  <2> QED BY <2>1, <2>2, OthersStay, RowsStay
<1>3. CASE Unclaimed(k) /\ ~Next_(w, "next", task[w])
  <2>1. /\ claims' = [claims EXCEPT ![k] = "claimed"] /\ UNCHANGED <<paid, shares>>
        /\ \E where \in {"share", "next"} : Goes(w, where, task[w])
    BY <1>3 DEF ClaimInsert
  <2>2. PICK where \in {"share", "next"} : Goes(w, where, task[w])
    BY <2>1
  <2>3. claims[k] = "none" /\ shares[k] = 0 /\ k \notin paid
    <3>1. claims[k] = "none"
      BY <1>3 DEF Unclaimed
    <3>2. shares[k] \in 0..2
      BY <1>1 DEF RowsAndTasks, RowTypeOK
    <3> QED BY <1>1, <3>1, <3>2 DEF ShareInv, SharedOnce
  <2>4. \A o \in Workers : ~Has(o, k)
    BY <1>1, <2>3 DEF ShareInv, HandInv
  <2>5. claims'[k] = "claimed" /\ \A j \in Keys \ {k} : claims'[j] = claims[j]
    BY <1>1, <2>1 DEF RowsAndTasks, RowTypeOK
  <2>6. SharedOnce'
    BY <2>1, <2>3, <2>5 DEF ShareInv, SharedOnce
  <2>7. \A j \in Keys : Has(w, j)' => j = k /\ rpc'[w] = "share"
    BY <2>2, OthersStay DEF Has
  <2>8. HandInv'
    BY <1>1, <2>1, <2>2, <2>3, <2>4, <2>5, <2>7, OthersStay DEF ShareInv, HandInv
  <2> QED BY <2>6, <2>8 DEF ShareInv
<1> QED BY <1>2, <1>3 DEF ClaimInsert

(* The network takes the share of the one who has the row *)
LEMMA ShareStep ==
  ASSUME ShareInv, RowsAndTasks, NEW w \in Workers, Share(w)
  PROVE  ShareInv'
<1> DEFINE k == task[w].key
<1>1. k \in Keys /\ rpc[w] = "share" /\ task[w] \in Tasks
  BY DEF Share, RowsAndTasks, TaskTypeOK, WithKey
<1>2. claims[k] = "claimed" /\ shares[k] = 0
  BY <1>1 DEF ShareInv, HandInv, Has
<1>3. PICK res \in Outcomes :
        /\ Goes(w, "report", [task[w] EXCEPT !.res = res])
        /\ shares' = IF Landed(res) /\ shares[k] < 2
                     THEN [shares EXCEPT ![k] = @ + 1] ELSE shares
  BY DEF Share
<1>4. UNCHANGED <<claims, paid>>
  BY DEF Share
<1>5. /\ shares'[k] = IF Landed(res) THEN 1 ELSE 0
      /\ \A j \in Keys \ {k} : shares'[j] = shares[j]
  BY <1>1, <1>2, <1>3 DEF RowsAndTasks, RowTypeOK
<1>6. k \notin paid
  BY <1>1, <1>2 DEF ShareInv, SharedOnce
<1>7. SharedOnce'
  BY <1>2, <1>4, <1>5, <1>6 DEF ShareInv, SharedOnce
<1>8. /\ [task[w] EXCEPT !.res = res].key = k
      /\ [task[w] EXCEPT !.res = res].res = res
  BY <1>1 DEF Tasks
<1>9. /\ rpc'[w] = "report" /\ task'[w].key = k /\ task'[w].res = res
      /\ \A j \in Keys : Has(w, j)' => j = k
  <2> DEFINE t == [task[w] EXCEPT !.res = res]
  <2>1. Goes(w, "report", t) /\ t.key = k /\ t.res = res
    BY <1>3, <1>8
  <2> HIDE DEF t, k
  <2>2. rpc'[w] = "report" /\ task'[w] = t
    BY <2>1, OthersStay
  <2> QED BY <2>1, <2>2 DEF Has
<1>10. \A o \in Workers \ {w} : ~Has(o, k)
  BY <1>1 DEF ShareInv, HandInv, Has
<1>11. HandInv'
  BY <1>1, <1>2, <1>3, <1>4, <1>5, <1>9, <1>10, OthersStay DEF ShareInv, HandInv
<1> QED BY <1>7, <1>11 DEF ShareInv

(* Its row is settled by what the network said, or keeps its place *)
LEMMA ReportStep ==
  ASSUME ShareInv, RowsAndTasks, NEW w \in Workers, Report(w)
  PROVE  ShareInv'
<1> DEFINE k == task[w].key
<1>1. k \in Keys /\ rpc[w] = "report"
  BY DEF Report, RowsAndTasks, TaskTypeOK, WithKey
<1>2. /\ claims[k] = "claimed" /\ task[w].res \in Outcomes
      /\ shares[k] = IF Landed(task[w].res) THEN 1 ELSE 0
  BY <1>1 DEF ShareInv, HandInv, Has
<1>3. Goes(w, "record", task[w]) /\ UNCHANGED <<paid, shares>>
  BY DEF Report
<1>4. /\ claims'[k] \in {"claimed", "failed", "done"}
      /\ claims'[k] = "done" => task[w].res = "ok"
      /\ \A j \in Keys \ {k} : claims'[j] = claims[j]
  BY <1>1, <1>2 DEF Report, RowsAndTasks, RowTypeOK
<1>5. shares[k] <= 1 /\ (claims'[k] = "done" => shares[k] = 1)
  BY <1>2, <1>4 DEF Landed, Outcomes
<1>6. SharedOnce'
  BY <1>3, <1>4, <1>5 DEF ShareInv, SharedOnce
<1>7. \A j \in Keys : ~Has(w, j)'
  BY <1>3, OthersStay DEF Has
<1>8. \A o \in Workers \ {w} : ~Has(o, k)
  BY <1>1 DEF ShareInv, HandInv, Has
<1>9. HandInv'
  BY <1>3, <1>4, <1>7, <1>8, OthersStay DEF ShareInv, HandInv
<1> QED BY <1>6, <1>9 DEF ShareInv

LEMMA ShareInvStep ==
  RowsAndTasks /\ ShareInv /\ [ReshareNext]_<<reshareVars, faults>> => ShareInv'
<1> SUFFICES ASSUME RowsAndTasks, ShareInv, [ReshareNext]_<<reshareVars, faults>> PROVE ShareInv'
  OBVIOUS
<1>1. CASE UNCHANGED <<reshareVars, faults>>
  BY <1>1, RowsStay DEF reshareVars, Has
<1>2. CASE \/ \E u \in Users : Join(u) \/ Leave(u) \/ DayGoes(u)
           \/ \E r \in Requests : Ask(r)
  BY <1>2, RowsStay DEF Join, Leave, DayGoes, Ask, Has
<1>3. ASSUME NEW k \in Keys, markPaid(k) PROVE ShareInv'
  <2>1. /\ claims[k] = "done" /\ paid' = paid \cup {k}
        /\ UNCHANGED <<rpc, task, claims, shares>>
    BY <1>3 DEF markPaid
  <2>2. SharedOnce'
    BY <2>1 DEF ShareInv, SharedOnce
  <2>3. HandInv'
    BY <2>1 DEF ShareInv, HandInv, Has
  <2> QED BY <2>2, <2>3 DEF ShareInv
<1> QED BY <1>1, <1>2, <1>3, ElsewhereStep, InsertStep, ShareStep, ReportStep DEF ReshareNext

(* For any number of sharers, installs of each, requests and faults, a        *)
(* request is shared once for a sharer and network, what is done was shared,  *)
(* and nothing else is paid for.                                              *)
THEOREM SharedByOne == ReshareSpec => []SharedOnce
<1>1. ReshareInit => RowsAndTasks /\ ShareInv
  BY RowsAndTasksInit, ShareInit
<1>2. RowsAndTasks /\ ShareInv /\ [ReshareNext]_<<reshareVars, faults>> => (RowsAndTasks /\ ShareInv)'
  BY RowsAndTasksStep, ShareInvStep
<1>3. ShareInv => SharedOnce
  BY DEF ShareInv
<1> QED BY <1>1, <1>2, <1>3, PTL DEF ReshareSpec

(***************************************************************************)
(* The limits, for any number of sharers, workers and requests.            *)
(*                                                                         *)
(* A worker whose count is not out of date may still insert (CountHolds),  *)
(* since an insert makes every other count of that request out of date;    *)
(* and what a turn may still share is what the day leaves (TurnFits), as   *)
(* long as the turn is the user's only one.                                *)
(***************************************************************************)
PlacesKept == \A r \in Requests : Cardinality(Taken(r)) <= MaxSharers + overfull[r]

CountHolds ==
  \A w \in Workers : rpc[w] = "insert" /\ w \notin passed =>
    Cardinality(Taken(task[w].key[1])) < MaxSharers + overfull[task[w].key[1]]

DayKept == \A u \in Users \ strained : Cardinality(today[u]) <= PerDay

TurnFits ==
  \A w \in Workers : rpc[w] # "idle" /\ UserOf[w] \notin strained =>
    Cardinality(today[UserOf[w]]) + task[w].budget <= PerDay

OneTurn ==
  \A v, w \in Workers : rpc[v] # "idle" /\ rpc[w] # "idle" /\ UserOf[v] = UserOf[w]
    /\ UserOf[w] \notin strained => v = w

PlaceInv == PlacesKept /\ CountHolds
DayInv == DayKept /\ TurnFits /\ OneTurn

LEMMA FewerKeys ==
  ASSUME NEW S \in SUBSET Keys, NEW T \in SUBSET S
  PROVE  /\ Cardinality(T) \in Nat /\ Cardinality(S) \in Nat
         /\ Cardinality(T) <= Cardinality(S)
BY ReshareAssumption, FS_Subset, FS_CardinalityType

LEMMA OneMoreKey ==
  ASSUME NEW S \in SUBSET Keys, NEW k \in Keys
  PROVE  /\ Cardinality(S) \in Nat /\ Cardinality(S \cup {k}) \in Nat
         /\ Cardinality(S \cup {k}) <= Cardinality(S) + 1
<1>1. IsFiniteSet(S) /\ Cardinality(S) \in Nat
  BY DayIsFinite
<1>2. CASE k \in S
  <2>1. S \cup {k} = S
    BY <1>2
  <2>2. Cardinality(S) <= Cardinality(S) + 1
    BY <1>1
  <2> QED BY <1>1, <2>1, <2>2
<1>3. CASE k \notin S
  <2>1. Cardinality(S \cup {k}) = Cardinality(S) + 1
    BY <1>1, <1>3, FS_AddElement
  <2> QED BY <1>1, <2>1
<1> QED BY <1>2, <1>3

LEMMA LimitsInit == ReshareInit => PlaceInv /\ DayInv
<1> SUFFICES ASSUME ReshareInit PROVE PlaceInv /\ DayInv
  OBVIOUS
<1>1. \A r \in Requests : Taken(r) = {} /\ overfull[r] = 0
  BY DEF ReshareInit, Taken
<1>2. \A u \in Users : today[u] = {}
  BY DEF ReshareInit
<1>3. \A w \in Workers : rpc[w] = "idle"
  BY DEF ReshareInit
<1>4. PlaceInv
  BY <1>1, <1>3, ReshareAssumption, FS_EmptySet DEF PlaceInv, PlacesKept, CountHolds
<1>5. DayInv
  <2>1. DayKept
    BY <1>2, ReshareAssumption, FS_EmptySet DEF DayKept
  <2>2. TurnFits /\ OneTurn
    BY <1>3 DEF TurnFits, OneTurn
  <2> QED BY <2>1, <2>2 DEF DayInv
<1> QED BY <1>4, <1>5

(***************************************************************************)
(* The places of a request                                                 *)
(***************************************************************************)
LEMMA TakenType ==
  ASSUME NEW r
  PROVE  Taken(r) \in SUBSET Keys /\ Cardinality(Taken(r)) \in Nat
BY DayIsFinite DEF Taken

(* A step that takes no place, of workers that come to no insert *)
LEMMA PlacesStay ==
  ASSUME PlaceInv, RowsAndTasks,
         \A k \in Keys : claims'[k] \notin {"none", "failed"} => claims[k] \notin {"none", "failed"},
         overfull' = overfull,
         \A w \in Workers : rpc'[w] = "insert" /\ w \notin passed' =>
           rpc[w] = "insert" /\ w \notin passed /\ task'[w].key = task[w].key
  PROVE  PlaceInv'
<1>1. ASSUME NEW r \in Requests
      PROVE  /\ Cardinality(Taken(r)') \in Nat /\ Cardinality(Taken(r)) \in Nat
             /\ Cardinality(Taken(r)') <= Cardinality(Taken(r))
  <2>1. Taken(r) \in SUBSET Keys /\ Taken(r)' \in SUBSET Taken(r)
    BY DEF Taken
  <2> QED BY <2>1, FewerKeys
<1>2. \A r \in Requests : overfull[r] \in Nat
  BY DEF RowsAndTasks, RowTypeOK
<1>3. PlacesKept'
  <2> SUFFICES ASSUME NEW r \in Requests
               PROVE  Cardinality(Taken(r)') <= MaxSharers + overfull[r]
    BY DEF PlacesKept
  <2>1. Cardinality(Taken(r)) <= MaxSharers + overfull[r]
    BY DEF PlaceInv, PlacesKept
  <2> QED BY <1>1, <1>2, <2>1, ReshareAssumption
<1>4. CountHolds'
  <2> SUFFICES ASSUME NEW w \in Workers, rpc'[w] = "insert", w \notin passed'
               PROVE  (Cardinality(Taken(task[w].key[1])) < MaxSharers + overfull[task[w].key[1]])'
    BY DEF CountHolds
  <2>1. PICK r : r = task[w].key[1]
    OBVIOUS
  <2>2. r \in Requests /\ task'[w].key[1] = r /\ rpc[w] = "insert"
    BY <2>1 DEF RowsAndTasks, TaskTypeOK, WithKey, Keys
  <2>3. Cardinality(Taken(r)) < MaxSharers + overfull[r]
    BY <2>1, <2>2 DEF PlaceInv, CountHolds
  <2>4. Cardinality(Taken(r)') < MaxSharers + overfull[r]
    BY <1>1, <1>2, <2>2, <2>3, ReshareAssumption
  <2>5. Taken(task[w].key[1])' = Taken(r)'
    BY <2>2 DEF Taken
  <2> QED BY <2>2, <2>4, <2>5
<1> QED BY <1>3, <1>4 DEF PlaceInv

(* A count lets its worker go on to the insert *)
LEMMA CountPlace ==
  ASSUME PlaceInv, RowsAndTasks, NEW w \in Workers, ClaimCount(w)
  PROVE  PlaceInv'
<1>1. PICK where \in {"insert", "next"} :
        /\ Next_(w, where, task[w])
        /\ where = "insert" => Cardinality(Taken(task[w].key[1])) < MaxSharers
  BY DEF ClaimCount
<1>2. /\ UNCHANGED <<claims, overfull>> /\ passed' = passed \ {w}
      /\ Goes(w, where, task[w])
  BY <1>1 DEF Next_
<1>3. /\ rpc'[w] = where /\ task'[w] = task[w]
      /\ \A o \in Workers \ {w} : rpc'[o] = rpc[o] /\ task'[o] = task[o]
  BY <1>2, OthersStay
<1>4. \A r : Taken(r)' = Taken(r)
  BY <1>2 DEF Taken
<1>5. PlacesKept'
  BY <1>2, <1>4 DEF PlaceInv, PlacesKept
<1>6. CountHolds'
  <2> SUFFICES ASSUME NEW o \in Workers, rpc'[o] = "insert", o \notin passed'
               PROVE  (Cardinality(Taken(task[o].key[1])) < MaxSharers + overfull[task[o].key[1]])'
    BY DEF CountHolds
  <2>1. PICK r : r = task[o].key[1]
    OBVIOUS
  <2>2. task'[o].key[1] = r /\ (Taken(task[o].key[1]))' = Taken(r)
    BY <1>3, <1>4, <2>1 DEF Taken
  <2>3. CASE o = w
    <3>1. r \in Requests
      BY <2>1, <2>3 DEF ClaimCount, RowsAndTasks, TaskTypeOK, WithKey, Keys
    <3>2. overfull[r] \in Nat /\ Cardinality(Taken(r)) \in Nat
      BY <3>1, TakenType DEF RowsAndTasks, RowTypeOK
    <3>3. Cardinality(Taken(r)) < MaxSharers
      BY <1>1, <1>3, <2>1, <2>3
    <3>4. Cardinality(Taken(r)) < MaxSharers + overfull[r]
      BY <3>2, <3>3, ReshareAssumption
    <3> QED BY <1>2, <2>2, <3>4
  <2>4. CASE o # w
    <3>1. rpc[o] = "insert" /\ o \notin passed
      BY <1>2, <1>3, <2>4
    <3>2. Cardinality(Taken(r)) < MaxSharers + overfull[r]
      BY <2>1, <3>1 DEF PlaceInv, CountHolds
    <3> QED BY <1>2, <2>2, <3>2
  <2> QED BY <2>3, <2>4
<1> QED BY <1>5, <1>6 DEF PlaceInv

(* An insert takes a place: the one that was counted, or one too many; and  *)
(* every other count of the request is out of date                          *)
LEMMA InsertPlace ==
  ASSUME PlaceInv, RowsAndTasks, NEW w \in Workers, ClaimInsert(w)
  PROVE  PlaceInv'
<1>1. PICK k : k = task[w].key
  OBVIOUS
<1>2. PICK r : r = k[1]
  OBVIOUS
<1>3. k \in Keys /\ r \in Requests /\ rpc[w] = "insert"
  BY <1>1, <1>2 DEF ClaimInsert, RowsAndTasks, TaskTypeOK, WithKey, Keys
<1>4. CASE Next_(w, "next", task[w])
  <2>1. UNCHANGED <<claims, overfull>> /\ passed' = passed \ {w} /\ Goes(w, "next", task[w])
    BY <1>4 DEF Next_
  <2>2. /\ rpc'[w] = "next"
        /\ \A o \in Workers \ {w} : rpc'[o] = rpc[o] /\ task'[o] = task[o]
    BY <2>1, OthersStay
  <2> QED BY <2>1, <2>2, PlacesStay
<1>5. CASE ~Next_(w, "next", task[w])
  <2>1. /\ claims' = [claims EXCEPT ![k] = "claimed"]
        /\ passed' = (passed \cup {o \in Workers : rpc[o] = "insert" /\ task[o].key[1] = r}) \ {w}
        /\ overfull' = IF w \in passed THEN [overfull EXCEPT ![r] = @ + 1] ELSE overfull
        /\ \E where \in {"share", "next"} : Goes(w, where, task[w])
    BY <1>1, <1>2, <1>5 DEF ClaimInsert
  <2>2. PICK where \in {"share", "next"} : Goes(w, where, task[w])
    BY <2>1
  <2>3. /\ rpc'[w] = where
        /\ \A o \in Workers \ {w} : rpc'[o] = rpc[o] /\ task'[o] = task[o]
    BY <2>2, OthersStay
  <2>4. \A j \in Keys \ {k} : claims'[j] = claims[j]
    BY <1>3, <2>1 DEF RowsAndTasks, RowTypeOK
  <2>5. Taken(r)' \in SUBSET (Taken(r) \cup {k}) /\ \A q : q # r => Taken(q)' = Taken(q)
    BY <1>2, <2>4 DEF Taken
  <2>6. overfull \in [Requests -> Nat]
    BY DEF RowsAndTasks, RowTypeOK
  <2>7. /\ overfull'[r] = IF w \in passed THEN overfull[r] + 1 ELSE overfull[r]
        /\ \A q \in Requests \ {r} : overfull'[q] = overfull[q]
    BY <1>3, <2>1, <2>6
  <2>8. Cardinality(Taken(r)') \in Nat /\ Cardinality(Taken(r)') <= Cardinality(Taken(r)) + 1
    <3>1. Taken(r) \in SUBSET Keys /\ Cardinality(Taken(r)) \in Nat
      BY TakenType
    <3>2. /\ Cardinality(Taken(r) \cup {k}) \in Nat
          /\ Cardinality(Taken(r) \cup {k}) <= Cardinality(Taken(r)) + 1
      BY <1>3, <3>1, OneMoreKey
    <3>3. Taken(r) \cup {k} \in SUBSET Keys
      BY <1>3, <3>1
    <3>4. Cardinality(Taken(r)') \in Nat /\ Cardinality(Taken(r)') <= Cardinality(Taken(r) \cup {k})
      BY <2>5, <3>3, FewerKeys
    <3> QED BY <3>1, <3>2, <3>4
  <2>9. Cardinality(Taken(r)') <= MaxSharers + overfull'[r]
    <3>1. Cardinality(Taken(r)) \in Nat /\ overfull[r] \in Nat
      BY <1>3, <2>6, TakenType
    <3>2. CASE w \in passed
      <4>1. Cardinality(Taken(r)) <= MaxSharers + overfull[r]
        BY <1>3 DEF PlaceInv, PlacesKept
      <4> QED BY <2>7, <2>8, <3>1, <3>2, <4>1, ReshareAssumption
    <3>3. CASE w \notin passed
      <4>1. Cardinality(Taken(r)) < MaxSharers + overfull[r]
        BY <1>1, <1>2, <1>3, <3>3 DEF PlaceInv, CountHolds
      <4> QED BY <2>7, <2>8, <3>1, <3>3, <4>1, ReshareAssumption
    <3> QED BY <3>2, <3>3
  <2>10. PlacesKept'
    <3> SUFFICES ASSUME NEW q \in Requests
                 PROVE  Cardinality(Taken(q)') <= MaxSharers + overfull'[q]
      BY DEF PlacesKept
    <3>1. CASE q = r
      BY <2>9, <3>1
    <3>2. CASE q # r
      BY <2>5, <2>7, <3>2 DEF PlaceInv, PlacesKept
    <3> QED BY <3>1, <3>2
  <2>11. CountHolds'
    <3> SUFFICES ASSUME NEW o \in Workers, rpc'[o] = "insert", o \notin passed'
                 PROVE  (Cardinality(Taken(task[o].key[1])) < MaxSharers + overfull[task[o].key[1]])'
      BY DEF CountHolds
    <3>1. PICK q : q = task[o].key[1]
      OBVIOUS
    <3>2. o # w /\ rpc[o] = "insert" /\ task'[o] = task[o]
      BY <2>3
    <3>3. q # r /\ o \notin passed
      BY <2>1, <3>1, <3>2
    <3>4. q \in Requests
      BY <3>1, <3>2 DEF RowsAndTasks, TaskTypeOK, WithKey, Keys
    <3>5. Cardinality(Taken(q)) < MaxSharers + overfull[q]
      BY <3>1, <3>2, <3>3 DEF PlaceInv, CountHolds
    <3>6. task'[o].key[1] = q /\ Taken(task[o].key[1])' = Taken(q)'
      BY <3>1, <3>2 DEF Taken
    <3> QED BY <2>5, <2>7, <3>3, <3>4, <3>5, <3>6
  <2> QED BY <2>10, <2>11 DEF PlaceInv
<1> QED BY <1>4, <1>5

(* The steps of a worker that come to no insert and take no place *)
LEMMA ElsewherePlace ==
  ASSUME PlaceInv, RowsAndTasks, NEW w \in Workers,
         ReshareTurn(w) \/ Matches(w) \/ NextMatch(w) \/ Share(w) \/ Report(w) \/ RecordDone(w)
           \/ ReshareCrash(w)
  PROVE  PlaceInv'
<1>1. overfull' = overfull /\ (passed' = passed \/ passed' = passed \ {w})
  BY DEF ReshareTurn, Matches, NextMatch, Share, Report, RecordDone, ReshareCrash, Next_
<1>2. \E where \in SharePlaces \ {"insert"} : \E t : Goes(w, where, t)
  BY DEF ReshareTurn, Matches, NextMatch, Share, Report, RecordDone, ReshareCrash, Next_, SharePlaces
<1>3. PICK where \in SharePlaces \ {"insert"} : \E t : Goes(w, where, t)
  BY <1>2
<1>4. PICK t : Goes(w, where, t)
  BY <1>3
<1>5. /\ rpc'[w] # "insert"
      /\ \A o \in Workers \ {w} : rpc'[o] = rpc[o] /\ task'[o] = task[o]
  BY <1>4, OthersStay
<1>6. \A k \in Keys : claims'[k] \notin {"none", "failed"} => claims[k] \notin {"none", "failed"}
  <2>1. CASE Report(w)
    <3>1. task[w].key \in Keys
      BY <2>1 DEF Report, RowsAndTasks, TaskTypeOK, WithKey
    <3> QED BY <2>1, <3>1 DEF Report, RowsAndTasks, RowTypeOK
  <2>2. CASE ~Report(w)
    BY <2>2 DEF ReshareTurn, Matches, NextMatch, Share, RecordDone, ReshareCrash, Next_
  <2> QED BY <2>1, <2>2
<1> QED BY <1>1, <1>5, <1>6, PlacesStay

LEMMA PeoplePlace ==
  ASSUME PlaceInv, RowsAndTasks,
         \/ UNCHANGED <<reshareVars, faults>>
         \/ \E u \in Users : Join(u) \/ Leave(u) \/ DayGoes(u)
         \/ \E r \in Requests : Ask(r)
         \/ \E k \in Keys : markPaid(k)
  PROVE  PlaceInv'
<1>1. UNCHANGED <<claims, rpc, task, passed, overfull>>
  BY DEF reshareVars, Join, Leave, DayGoes, Ask, markPaid
<1> QED BY <1>1, PlacesStay

(***************************************************************************)
(* The shares of a day                                                     *)
(***************************************************************************)
(* A step that adds no share to a day and starts no turn *)
LEMMA DaysStay ==
  ASSUME DayInv, RowsAndTasks,
         \A u \in Users : today'[u] \subseteq today[u],
         strained \subseteq strained',
         \A w \in Workers : rpc'[w] # "idle" =>
           rpc[w] # "idle" /\ task'[w].budget = task[w].budget
  PROVE  DayInv'
<1>1. ASSUME NEW u \in Users
      PROVE  /\ Cardinality(today'[u]) \in Nat /\ Cardinality(today[u]) \in Nat
             /\ Cardinality(today'[u]) <= Cardinality(today[u])
  <2>1. today[u] \in SUBSET Keys
    BY DEF RowsAndTasks, RowTypeOK
  <2> QED BY <2>1, FewerKeys
<1>2. DayKept'
  BY <1>1, ReshareAssumption DEF DayInv, DayKept
<1>3. TurnFits'
  <2> SUFFICES ASSUME NEW w \in Workers, rpc'[w] # "idle", UserOf[w] \notin strained'
               PROVE  Cardinality(today'[UserOf[w]]) + task'[w].budget <= PerDay
    BY DEF TurnFits
  <2>1. UserOf[w] \in Users /\ UserOf[w] \notin strained
    BY ReshareAssumption
  <2>2. Cardinality(today[UserOf[w]]) + task[w].budget <= PerDay
    BY <2>1 DEF DayInv, TurnFits
  <2>3. task[w].budget \in Nat /\ task'[w].budget = task[w].budget
    BY DEF RowsAndTasks, TaskTypeOK, Tasks
  <2> QED BY <1>1, <2>1, <2>2, <2>3, ReshareAssumption
<1>4. OneTurn'
  BY DEF DayInv, OneTurn
<1> QED BY <1>2, <1>3, <1>4 DEF DayInv

(* A turn takes what the day leaves; a second one of the user strains it *)
LEMMA TurnDay ==
  ASSUME DayInv, RowsAndTasks, NEW w \in Workers, ReshareTurn(w)
  PROVE  DayInv'
<1>1. PICK u : u = UserOf[w]
  OBVIOUS
<1>2. PICK n : n = Cardinality(today[u])
  OBVIOUS
<1>3. u \in Users /\ today[u] \in SUBSET Keys
  BY <1>1, ReshareAssumption DEF RowsAndTasks, RowTypeOK
<1>4. n \in Nat /\ n < PerDay
  BY <1>1, <1>2, <1>3, DayIsFinite DEF ReshareTurn
<1>5. PICK t : t = [NoTask EXCEPT !.budget = PerDay - Cardinality(today[u])]
  OBVIOUS
<1>6. t.budget = PerDay - n
  BY <1>2, <1>5 DEF NoTask
<1>7. /\ Goes(w, "match", t) /\ today' = today
      /\ strained' = IF \E o \in Workers \ {w} : UserOf[o] = u /\ rpc[o] # "idle"
                     THEN strained \cup {u} ELSE strained
  BY <1>1, <1>5 DEF ReshareTurn
<1>8. /\ rpc'[w] = "match" /\ task'[w] = t
      /\ \A o \in Workers \ {w} : rpc'[o] = rpc[o] /\ task'[o] = task[o]
  BY <1>7, OthersStay
<1>9. strained \subseteq strained'
  BY <1>7
<1>10. DayKept'
  BY <1>7, <1>9 DEF DayInv, DayKept
<1>11. TurnFits'
  <2> SUFFICES ASSUME NEW o \in Workers, rpc'[o] # "idle", UserOf[o] \notin strained'
               PROVE  Cardinality(today[UserOf[o]]) + task'[o].budget <= PerDay
    BY <1>7 DEF TurnFits
  <2>1. CASE o = w
    BY <1>1, <1>2, <1>4, <1>6, <1>8, <2>1, ReshareAssumption
  <2>2. CASE o # w
    BY <1>8, <1>9, <2>2 DEF DayInv, TurnFits
  <2> QED BY <2>1, <2>2
<1>12. OneTurn'
  <2> SUFFICES ASSUME NEW v \in Workers, NEW o \in Workers, rpc'[v] # "idle", rpc'[o] # "idle",
                      UserOf[v] = UserOf[o], UserOf[o] \notin strained'
               PROVE  v = o
    BY DEF OneTurn
  <2>1. UserOf[o] = u => \A i \in Workers \ {w} : UserOf[i] = u => rpc[i] = "idle"
    BY <1>7
  <2>2. CASE v # w /\ o # w
    BY <1>8, <1>9, <2>2 DEF DayInv, OneTurn
  <2>3. CASE v = w \/ o = w
    BY <1>1, <1>8, <2>1, <2>3
  <2> QED BY <2>2, <2>3
<1> QED BY <1>10, <1>11, <1>12 DEF DayInv

(* A share that is recorded is one the turn may share no more *)
LEMMA RecordDay ==
  ASSUME DayInv, RowsAndTasks, NEW w \in Workers, RecordDone(w)
  PROVE  DayInv'
<1>1. PICK u : u = UserOf[w]
  OBVIOUS
<1>2. PICK t : t = [task[w] EXCEPT !.key = <<>>, !.res = "none",
                                   !.budget = IF task[w].res = "ok" THEN @ - 1 ELSE @]
  OBVIOUS
<1>3. Goes(w, "next", t) /\ UNCHANGED strained
  BY <1>2 DEF RecordDone
<1>4. /\ rpc'[w] = "next" /\ task'[w] = t /\ rpc[w] # "idle"
      /\ \A o \in Workers \ {w} : rpc'[o] = rpc[o] /\ task'[o] = task[o]
  BY <1>3, OthersStay DEF RecordDone
<1>5. /\ task[w].key \in Keys /\ task[w].budget \in Nat /\ task[w].budget > 0
      /\ t.budget = IF task[w].res = "ok" THEN task[w].budget - 1 ELSE task[w].budget
  <2>1. task[w] \in Tasks
    BY DEF RowsAndTasks, TaskTypeOK
  <2>2. rpc[w] \in WithKey
    BY DEF RecordDone, WithKey
  <2>3. task[w].key \in Keys /\ task[w].budget > 0
    BY <2>2 DEF RowsAndTasks, TaskTypeOK
  <2>4. task[w].budget \in Nat
    BY <2>1 DEF Tasks
  <2>5. t.budget = IF task[w].res = "ok" THEN task[w].budget - 1 ELSE task[w].budget
    BY <1>2, <2>1 DEF Tasks
  <2> QED BY <2>3, <2>4, <2>5
<1>6. CASE task[w].res # "ok"
  <2>1. today' = today
    BY <1>6 DEF RecordDone
  <2> QED BY <1>3, <1>4, <1>5, <1>6, <2>1, DaysStay
<1>7. CASE task[w].res = "ok"
  <2>1. u \in Users /\ today[u] \in SUBSET Keys
    BY <1>1, ReshareAssumption DEF RowsAndTasks, RowTypeOK
  <2>2. /\ today'[u] = today[u] \cup {task[w].key}
        /\ \A q \in Users \ {u} : today'[q] = today[q]
    BY <1>1, <1>7, <2>1 DEF RecordDone, RowsAndTasks, RowTypeOK
  <2>3. /\ Cardinality(today[u]) \in Nat /\ Cardinality(today'[u]) \in Nat
        /\ Cardinality(today'[u]) <= Cardinality(today[u]) + 1
    BY <1>5, <2>1, <2>2, OneMoreKey
  <2>4. u \notin strained => Cardinality(today'[u]) + t.budget <= PerDay
    <3>1. u \notin strained => Cardinality(today[u]) + task[w].budget <= PerDay
      BY <1>1, <1>4 DEF DayInv, TurnFits
    <3> QED BY <1>5, <1>7, <2>3, <3>1, ReshareAssumption
  <2>5. DayKept'
    <3>1. u \notin strained => Cardinality(today'[u]) <= PerDay
      BY <1>5, <1>7, <2>3, <2>4, ReshareAssumption
    <3> QED BY <1>3, <2>2, <3>1 DEF DayInv, DayKept
  <2>6. TurnFits'
    <3> SUFFICES ASSUME NEW o \in Workers, rpc'[o] # "idle", UserOf[o] \notin strained
                 PROVE  Cardinality(today'[UserOf[o]]) + task'[o].budget <= PerDay
      BY <1>3 DEF TurnFits
    <3>1. CASE o = w
      BY <1>1, <1>4, <2>4, <3>1
    <3>2. CASE o # w
      <4>1. rpc[o] # "idle" /\ task'[o] = task[o]
        BY <1>4, <3>2
      <4>2. UserOf[o] \in Users \ {u}
        BY <1>1, <1>4, <3>2, <4>1, ReshareAssumption DEF DayInv, OneTurn
      <4> QED BY <2>2, <4>1, <4>2 DEF DayInv, TurnFits
    <3> QED BY <3>1, <3>2
  <2>7. OneTurn'
    <3>1. \A o \in Workers : rpc'[o] # "idle" => rpc[o] # "idle"
      BY <1>4
    <3> QED BY <1>3, <3>1 DEF DayInv, OneTurn
  <2> QED BY <2>5, <2>6, <2>7 DEF DayInv
<1> QED BY <1>6, <1>7

(* The other steps of a worker share nothing that counts *)
LEMMA OtherDay ==
  ASSUME DayInv, RowsAndTasks, NEW w \in Workers,
         Matches(w) \/ NextMatch(w) \/ ClaimCount(w) \/ ClaimInsert(w) \/ Share(w) \/ Report(w)
           \/ ReshareCrash(w)
  PROVE  DayInv'
<1>1. task[w] \in Tasks /\ rpc[w] # "idle"
  BY DEF RowsAndTasks, TaskTypeOK, Matches, NextMatch, ClaimCount, ClaimInsert, Share, Report,
         ReshareCrash
<1>2. today' = today /\ strained \subseteq strained'
  BY DEF Matches, NextMatch, ClaimCount, ClaimInsert, Share, Report, ReshareCrash, Next_
<1>3. \E where, t : Goes(w, where, t) /\ (where = "idle" \/ t.budget = task[w].budget)
  <2>1. CASE Matches(w)
    <3>1. \A S : [task[w] EXCEPT !.todo = S].budget = task[w].budget
      BY <1>1 DEF Tasks
    <3> QED BY <2>1, <3>1 DEF Matches
  <2>2. CASE NextMatch(w)
    <3>1. \A k : [task[w] EXCEPT !.todo = @ \ {k}, !.key = k].budget = task[w].budget
      BY <1>1 DEF Tasks
    <3> QED BY <2>2, <3>1 DEF NextMatch, Next_
  <2>3. CASE Share(w)
    <3>1. \A res : [task[w] EXCEPT !.res = res].budget = task[w].budget
      BY <1>1 DEF Tasks
    <3> QED BY <2>3, <3>1 DEF Share
  <2>4. CASE ClaimCount(w) \/ ClaimInsert(w) \/ Report(w) \/ ReshareCrash(w)
    BY <2>4 DEF ClaimCount, ClaimInsert, Report, ReshareCrash, Next_
  <2> QED BY <2>1, <2>2, <2>3, <2>4
<1>4. PICK where, t : Goes(w, where, t) /\ (where = "idle" \/ t.budget = task[w].budget)
  BY <1>3
<1>5. /\ rpc'[w] = where /\ task'[w] = t
      /\ \A o \in Workers \ {w} : rpc'[o] = rpc[o] /\ task'[o] = task[o]
  BY <1>4, OthersStay
<1>6. \A o \in Workers : rpc'[o] # "idle" => rpc[o] # "idle" /\ task'[o].budget = task[o].budget
  BY <1>1, <1>4, <1>5
<1> QED BY <1>2, <1>6, DaysStay

LEMMA PeopleDay ==
  ASSUME DayInv, RowsAndTasks,
         \/ UNCHANGED <<reshareVars, faults>>
         \/ \E u \in Users : Join(u) \/ Leave(u) \/ DayGoes(u)
         \/ \E r \in Requests : Ask(r)
         \/ \E k \in Keys : markPaid(k)
  PROVE  DayInv'
<1>1. UNCHANGED <<rpc, task, strained>>
  BY DEF reshareVars, Join, Leave, DayGoes, Ask, markPaid
<1>2. \A u \in Users : today'[u] \subseteq today[u]
  <2>1. CASE \E v \in Users : DayGoes(v)
    BY <2>1 DEF DayGoes, RowsAndTasks, RowTypeOK
  <2>2. CASE today' = today
    BY <2>2
  <2> QED BY <2>1, <2>2 DEF reshareVars, Join, Leave, Ask, markPaid
<1> QED BY <1>1, <1>2, DaysStay

LEMMA LimitsStep ==
  PlaceInv /\ DayInv /\ RowsAndTasks /\ [ReshareNext]_<<reshareVars, faults>>
    => PlaceInv' /\ DayInv'
<1> SUFFICES ASSUME PlaceInv, DayInv, RowsAndTasks, [ReshareNext]_<<reshareVars, faults>>
             PROVE  PlaceInv' /\ DayInv'
  OBVIOUS
<1>1. ASSUME NEW w \in Workers,
             \/ ReshareTurn(w) \/ Matches(w) \/ NextMatch(w) \/ ClaimCount(w) \/ ClaimInsert(w)
             \/ Share(w) \/ Report(w) \/ RecordDone(w) \/ ReshareCrash(w)
      PROVE  PlaceInv' /\ DayInv'
  BY <1>1, CountPlace, InsertPlace, ElsewherePlace, TurnDay, RecordDay, OtherDay
<1>2. CASE UNCHANGED <<reshareVars, faults>>
  BY <1>2, PeoplePlace, PeopleDay
<1> QED BY <1>1, <1>2, PeoplePlace, PeopleDay DEF ReshareNext

(* A request is taken more often than it asks for only by claims that were   *)
(* counted before another was inserted, and inserted after; and an install   *)
(* that takes one turn at a time and notes its shares makes no more of them  *)
(* a day than it was set to.                                                 *)
THEOREM LimitsAreHeld == ReshareSpec => []LimitsHeld
<1>1. ReshareInit => RowsAndTasks /\ PlaceInv /\ DayInv
  BY RowsAndTasksInit, LimitsInit
<1>2. RowsAndTasks /\ PlaceInv /\ DayInv /\ [ReshareNext]_<<reshareVars, faults>>
        => (RowsAndTasks /\ PlaceInv /\ DayInv)'
  BY RowsAndTasksStep, LimitsStep
<1>3. RowsAndTasks /\ PlaceInv /\ DayInv => LimitsHeld
  <2> SUFFICES ASSUME RowsAndTasks, PlaceInv, DayInv PROVE LimitsHeld
    OBVIOUS
  <2>1. \A r : {k \in Keys : k[1] = r /\ claims[k] \in {"claimed", "done"}} = Taken(r)
    BY DEF RowsAndTasks, RowTypeOK, Taken
  <2> QED BY <2>1 DEF PlaceInv, PlacesKept, DayInv, DayKept, LimitsHeld
<1> QED BY <1>1, <1>2, <1>3, PTL DEF ReshareSpec

(***************************************************************************)
(* What a save replaces was seen and what a load replaces was saved, for   *)
(* any number of machines, workers, accounts, revisions and faults.        *)
(*                                                                         *)
(* The argument follows a revision's number from the marker to the         *)
(* precondition: a marker names a revision there is, with what it holds    *)
(* (MarkerOK), and a call under way carries such a number (CallOK).  As    *)
(* long as that revision is the latest, the machine has had the latest;    *)
(* and an unforced save to the account its number comes from is judged by  *)
(* it.  Revisions are only ever added (Later), which keeps all of it.      *)
(***************************************************************************)

Calls == [account : Accounts \cup {"none"}, snapshot : Contents \cup {"none"}, if : Nat,
          of : Accounts \cup {"none"}, force : BOOLEAN, pre : Nat, got : Nat, left : 0..Retries]
CallPlaces == {"idle", "put", "insert", "mark", "apply"}

CloudOK ==
  /\ files \in [Machines -> Contents] /\ signedIn \in [Machines -> Accounts]
  /\ saves \in [Accounts -> Seq(Contents)] /\ seen \in [Accounts -> SUBSET Machines]
  /\ marker \in [Machines -> Marks]
  /\ spc \in [Workers -> CallPlaces] /\ call \in [Workers -> Calls]

(* Machine m has had revision i of account a, if it is still the latest *)
Had(m, a, i) == i \in 1..Latest(a) /\ (i = Latest(a) => m \in seen[a])

MarkerOK(m) ==
  LET k == marker[m] IN
  \/ k = NoMark
  \/ k.of \in Accounts /\ Had(m, k.of, k.rev) /\ saves[k.of][k.rev] = k.content

CallOK(w) ==
  LET c == call[w] IN
  /\ spc[w] # "idle" => c.account \in Accounts
  /\ spc[w] \in {"put", "insert", "mark"} => c.snapshot \in Contents
  /\ spc[w] \in {"put", "insert"} /\ ~c.force =>
       c.of = "none" \/ (c.of \in Accounts /\ Had(MachineOf[w], c.of, c.if))
  /\ spc[w] = "insert" /\ ~c.force /\ c.of = c.account => c.pre = c.if
  /\ spc[w] = "apply" => c.got \in 1..Latest(c.account)
  /\ spc[w] = "mark" => /\ Had(MachineOf[w], c.account, c.got)
                        /\ saves[c.account][c.got] = c.snapshot

SynInv == CloudOK /\ (\A m \in Machines : MarkerOK(m)) /\ (\A w \in Workers : CallOK(w))

LEMMA SynInvIsType == SynInv => SynTypeOK
BY DEF SynInv, CloudOK, MarkerOK, CallOK, Had, SynTypeOK, Calls, CallPlaces

LEMMA SynInvInit == SynInit => SynInv
<1> SUFFICES ASSUME SynInit PROVE SynInv
  OBVIOUS
<1>1. NoMark \in Marks /\ NoCall \in Calls
  BY SynConfigAssumption DEF NoMark, Mark, Marks, NoCall, Calls
<1>2. CloudOK
  BY <1>1 DEF SynInit, CloudOK, CallPlaces
<1> QED BY <1>2 DEF SynInit, SynInv, MarkerOK, CallOK

(***************************************************************************)
(* Revisions are only added                                                *)
(***************************************************************************)
(* ... and a machine that has had the latest has had it until another is    *)
Later ==
  \A a \in Accounts :
    /\ Latest(a) \in Nat /\ Latest(a)' \in Nat /\ Latest(a) <= Latest(a)'
    /\ \A i \in 1..Latest(a) : saves'[a][i] = saves[a][i]
    /\ Latest(a)' = Latest(a) => seen[a] \subseteq seen'[a]

LEMMA HadLater ==
  ASSUME Later, NEW m, NEW a \in Accounts, NEW i, Had(m, a, i)
  PROVE  Had(m, a, i)' /\ saves'[a][i] = saves[a][i]
BY DEF Later, Had

LEMMA MarkerLater ==
  ASSUME Later, NEW m \in Machines, MarkerOK(m), marker'[m] = marker[m]
  PROVE  MarkerOK(m)'
BY HadLater DEF MarkerOK

LEMMA CallLater ==
  ASSUME Later, NEW w \in Workers, CallOK(w), spc'[w] = spc[w], call'[w] = call[w]
  PROVE  CallOK(w)'
<1>1. /\ call[w].account \in Accounts => Latest(call[w].account) <= Latest(call[w].account)'
      /\ call[w].account \in Accounts => Latest(call[w].account) \in Nat
      /\ call[w].account \in Accounts => Latest(call[w].account)' \in Nat
  BY DEF Later
<1> QED BY <1>1, HadLater DEF CallOK

LEMMA SameIsLater == ASSUME CloudOK, UNCHANGED <<saves, seen>> PROVE Later
BY DEF CloudOK, Later, Latest

(* A step of one worker *)
LEMMA WorkerStep ==
  ASSUME SynInv, CloudOK', Later, NEW w \in Workers, NEW where, NEW c, Is(w, where, c),
         CallOK(w)',
         \A m \in Machines : marker'[m] = marker[m] \/ MarkerOK(m)'
  PROVE  SynInv'
<1>1. \A o \in Workers \ {w} : spc'[o] = spc[o] /\ call'[o] = call[o]
  BY DEF SynInv, CloudOK, Is
<1>2. \A o \in Workers : CallOK(o)'
  BY <1>1, CallLater DEF SynInv
<1>3. \A m \in Machines : MarkerOK(m)'
  BY MarkerLater DEF SynInv
<1> QED BY <1>2, <1>3 DEF SynInv

LEMMA IsType ==
  ASSUME SynInv, NEW w \in Workers, NEW where \in CallPlaces, NEW c \in Calls, Is(w, where, c)
  PROVE  /\ spc' \in [Workers -> CallPlaces] /\ call' \in [Workers -> Calls]
         /\ spc'[w] = where /\ call'[w] = c
BY DEF SynInv, CloudOK, Is

LEMMA Hands ==
  ASSUME SynInv, NEW w \in Workers
  PROVE  /\ CloudOK /\ CallOK(w) /\ call[w] \in Calls /\ spc[w] \in CallPlaces
         /\ MachineOf[w] \in Machines /\ NoCall \in Calls
BY SynConfigAssumption DEF SynInv, CloudOK, NoCall, Calls

(* A worker that is done, or gives up *)
LEMMA IdleStep ==
  ASSUME SynInv, NEW w \in Workers, Is(w, "idle", NoCall), Later,
         UNCHANGED <<files, marker, signedIn, saves>>, seen' \in [Accounts -> SUBSET Machines]
  PROVE  SynInv'
<1>1. CloudOK'
  BY Hands, IsType DEF CloudOK, CallPlaces
<1>2. CallOK(w)'
  BY Hands, IsType DEF CallOK, CallPlaces
<1> QED BY <1>1, <1>2, WorkerStep

(***************************************************************************)
(* save                                                                    *)
(***************************************************************************)
LEMMA SaveStep ==
  ASSUME SynInv, NEW w \in Workers, NEW force \in BOOLEAN, Save_(w, force)
  PROVE  SynInv'
<1> DEFINE m == MachineOf[w]
           c == [NoCall EXCEPT !.account = signedIn[m], !.snapshot = files[m],
                         !.if = IF force THEN 0 ELSE marker[m].rev, !.of = marker[m].of,
                         !.force = force, !.left = Retries]
<1>1. m \in Machines /\ marker[m] \in Marks /\ MarkerOK(m) /\ signedIn[m] \in Accounts
      /\ files[m] \in Contents
  BY Hands DEF SynInv, CloudOK
<1>2. c \in Calls
  <2> DEFINE if == IF force THEN 0 ELSE marker[m].rev
  <2>1. if \in Nat /\ marker[m].of \in Accounts \cup {"none"} /\ Retries \in 0..Retries
    BY <1>1, SynConfigAssumption DEF Marks
  <2> HIDE DEF if
  <2>2. [NoCall EXCEPT !.account = signedIn[m], !.snapshot = files[m], !.if = if,
                       !.of = marker[m].of, !.force = force, !.left = Retries] \in Calls
    BY <1>1, <2>1 DEF NoCall, Calls
  <2> QED BY <2>2 DEF if
<1>3. /\ c.account = signedIn[m] /\ c.snapshot = files[m] /\ c.of = marker[m].of
      /\ c.force = force /\ (~force => c.if = marker[m].rev)
  BY DEF NoCall
<1>4. Is(w, "put", c) /\ UNCHANGED <<files, marker, signedIn, saves, seen>>
  BY DEF Save_
<1>5. marker[m].of = "none" \/ (marker[m].of \in Accounts /\ Had(m, marker[m].of, marker[m].rev))
  BY <1>1 DEF MarkerOK, NoMark, Mark
<1> HIDE DEF c
<1>6. spc'[w] = "put" /\ call'[w] = c
  BY <1>2, <1>4, IsType DEF CallPlaces
<1>7. \A a, i : Had(m, a, i)' <=> Had(m, a, i)
  BY <1>4 DEF Had, Latest
<1>8. CallOK(w)'
  BY <1>1, <1>3, <1>5, <1>6, <1>7 DEF CallOK
<1>9. CloudOK'
  BY <1>2, <1>4, Hands, IsType DEF CloudOK, CallPlaces
<1> QED BY <1>4, <1>8, <1>9, WorkerStep, SameIsLater DEF SynInv

(* The request is sent again, or given up *)
LEMMA LostStep ==
  ASSUME SynInv, NEW w \in Workers, spc[w] \in {"put", "insert"}, LostAnswer(w), Later,
         UNCHANGED <<files, marker, signedIn>>, saves' \in [Accounts -> Seq(Contents)],
         seen' \in [Accounts -> SUBSET Machines]
  PROVE  SynInv'
<1>1. CASE Is(w, "idle", NoCall)
  <2>1. CloudOK'
    BY <1>1, Hands, IsType DEF CloudOK, CallPlaces
  <2>2. CallOK(w)'
    BY <1>1, Hands, IsType DEF CallOK, CallPlaces
  <2> QED BY <1>1, <2>1, <2>2, WorkerStep
<1>2. CASE call[w].left # 0 /\ Is(w, "put", [call[w] EXCEPT !.left = @ - 1, !.pre = 0])
  <2> DEFINE c == [call[w] EXCEPT !.left = @ - 1, !.pre = 0]
  <2>1. call[w].left \in 0..Retries /\ call[w].left # 0
    BY <1>2, Hands DEF Calls
  <2>2. call[w].left - 1 \in 0..Retries
    BY <2>1, SynConfigAssumption
  <2>3. c \in Calls
    BY <2>2, Hands DEF Calls
  <2>4. /\ c.account = call[w].account /\ c.snapshot = call[w].snapshot /\ c.of = call[w].of
        /\ c.force = call[w].force /\ c.if = call[w].if
    BY Hands DEF Calls
  <2> HIDE DEF c
  <2>5. spc'[w] = "put" /\ call'[w] = c
    BY <1>2, <2>3, IsType DEF CallPlaces, c
  <2>6. CallOK(w)'
    BY <2>4, <2>5, Hands, HadLater DEF CallOK
  <2>7. CloudOK'
    BY <1>2, <2>3, Hands, IsType DEF CloudOK, CallPlaces, c
  <2> QED BY <1>2, <2>6, <2>7, WorkerStep
<1> QED BY <1>1, <1>2 DEF LostAnswer

LEMMA GotType ==
  ASSUME NEW c \in Calls, NEW rev \in Nat
  PROVE  LET d == [c EXCEPT !.got = rev]
         IN  d \in Calls /\ d.account = c.account /\ d.snapshot = c.snapshot /\ d.got = rev
BY DEF Calls

LEMMA PreType ==
  ASSUME NEW c \in Calls, NEW pre \in Nat
  PROVE  LET d == [c EXCEPT !.pre = pre]
         IN  /\ d \in Calls /\ d.account = c.account /\ d.snapshot = c.snapshot
             /\ d.pre = pre /\ d.of = c.of /\ d.if = c.if /\ d.force = c.force
BY DEF Calls

(* What a statement reads is the latest, and stays it until another is     *)
LEMMA HadByNow ==
  ASSUME CloudOK, NEW w \in Workers, NEW a \in Accounts, NEW rev, rev = Latest(a), rev > 0,
         seen' = [seen EXCEPT ![a] = @ \cup {MachineOf[w]}], UNCHANGED saves
  PROVE  /\ Later /\ seen' \in [Accounts -> SUBSET Machines]
         /\ Had(MachineOf[w], a, rev)'
BY SynConfigAssumption DEF CloudOK, Later, Had, Latest

LEMMA PutReadStep ==
  ASSUME SynInv, NEW w \in Workers, PutRead(w)
  PROVE  SynInv'
<1>0. PICK c, a, rev : c = call[w] /\ a = c.account /\ rev = Latest(a)
  OBVIOUS
<1>1. /\ spc[w] = "put" /\ a \in Accounts /\ c \in Calls /\ c.snapshot \in Contents
      /\ UNCHANGED <<files, marker, signedIn, saves>>
  BY <1>0, Hands DEF PutRead, CallOK
<1>2. rev \in Nat /\ saves \in [Accounts -> Seq(Contents)] /\ seen \in [Accounts -> SUBSET Machines]
  BY <1>0, <1>1, Hands DEF CloudOK, Latest
<1>3. CASE /\ rev > 0 /\ saves[a][rev] = c.snapshot
           /\ seen' = [seen EXCEPT ![a] = @ \cup {MachineOf[w]}]
           /\ Is(w, "mark", [c EXCEPT !.got = rev]) \/ LostAnswer(w)
  <2>1. Later /\ seen' \in [Accounts -> SUBSET Machines] /\ Had(MachineOf[w], a, rev)'
    BY <1>0, <1>1, <1>3, Hands, HadByNow
  <2>2. CASE LostAnswer(w)
    BY <1>1, <1>2, <2>1, <2>2, LostStep
  <2>3. CASE Is(w, "mark", [c EXCEPT !.got = rev])
    <3> DEFINE d == [c EXCEPT !.got = rev]
    <3>1. d \in Calls /\ d.account = a /\ d.snapshot = c.snapshot /\ d.got = rev
      BY <1>0, <1>1, <1>2, GotType
    <3>2. Is(w, "mark", d)
      BY <2>3
    <3> HIDE DEF d
    <3>3. spc'[w] = "mark" /\ call'[w] = d
      BY <3>1, <3>2, IsType DEF CallPlaces
    <3>4. CloudOK'
      BY <1>1, <2>1, <3>1, <3>2, Hands, IsType DEF CloudOK, CallPlaces
    <3>5. CallOK(w)'
      BY <1>1, <1>3, <2>1, <3>1, <3>3 DEF CallOK
    <3> QED BY <1>1, <2>1, <3>2, <3>4, <3>5, WorkerStep
  <2> QED BY <1>3, <2>2, <2>3
<1>4. CASE UNCHANGED seen /\ Is(w, "insert", [c EXCEPT !.pre = IF rev > 0 THEN c.if ELSE 0])
  <2> DEFINE pre == IF rev > 0 THEN c.if ELSE 0
             d == [c EXCEPT !.pre = pre]
  <2>1. pre \in Nat
    BY <1>1, <1>2 DEF Calls
  <2>2. Is(w, "insert", d)
    BY <1>4
  <2>3. \A i : Had(MachineOf[w], a, i) => pre = c.if
    BY <1>0, <1>2, <1>1 DEF Had
  <2> HIDE DEF pre
  <2>4. /\ d \in Calls /\ d.account = a /\ d.snapshot = c.snapshot /\ d.pre = pre
        /\ d.of = c.of /\ d.if = c.if /\ d.force = c.force
    BY <1>0, <1>1, <2>1, PreType
  <2> HIDE DEF d
  <2>5. spc'[w] = "insert" /\ call'[w] = d
    BY <2>2, <2>4, IsType DEF CallPlaces
  <2>6. \A m, b, i : Had(m, b, i)' <=> Had(m, b, i)
    BY <1>1, <1>4 DEF Had, Latest
  <2>7. ~c.force => c.of = "none" \/ (c.of \in Accounts /\ Had(MachineOf[w], c.of, c.if))
    BY <1>0, <1>1, Hands DEF CallOK
  <2>8. ~c.force /\ c.of = a => pre = c.if
    BY <1>1, <2>3, <2>7, SynConfigAssumption
  <2>9. CallOK(w)'
    BY <1>1, <2>4, <2>5, <2>6, <2>7, <2>8 DEF CallOK
  <2>10. CloudOK'
    BY <1>1, <1>4, <2>2, <2>4, Hands, IsType DEF CloudOK, CallPlaces
  <2> QED BY <1>1, <1>4, <2>2, <2>9, <2>10, WorkerStep, SameIsLater, Hands
<1>5. CASE UNCHANGED seen /\ LostAnswer(w)
  BY <1>1, <1>2, <1>5, LostStep, SameIsLater, Hands
<1> QED BY <1>0, <1>3, <1>4, <1>5 DEF PutRead

(* A revision is added, and is the latest *)
Adds(w, a, content) == /\ saves' = [saves EXCEPT ![a] = Append(@, content)]
                       /\ seen' = [seen EXCEPT ![a] = {MachineOf[w]}]

LEMMA Added ==
  ASSUME CloudOK, NEW w \in Workers, NEW a \in Accounts, NEW content \in Contents,
         NEW rev, rev = Latest(a) + 1,
         Adds(w, a, content)
  PROVE  /\ Later /\ seen' \in [Accounts -> SUBSET Machines]
         /\ saves' \in [Accounts -> Seq(Contents)]
         /\ rev \in Nat /\ saves'[a][rev] = content /\ Had(MachineOf[w], a, rev)'
<1>1. /\ saves[a] \in Seq(Contents) /\ saves'[a] = Append(saves[a], content)
      /\ \A b \in Accounts \ {a} : saves'[b] = saves[b] /\ seen'[b] = seen[b]
      /\ seen'[a] = {MachineOf[w]} /\ MachineOf[w] \in Machines
  BY SynConfigAssumption DEF CloudOK, Adds
<1>2. /\ Len(saves[a]) \in Nat /\ Len(saves'[a]) = Len(saves[a]) + 1
      /\ saves'[a][Len(saves[a]) + 1] = content
      /\ \A i \in 1..Len(saves[a]) : saves'[a][i] = saves[a][i]
  BY <1>1
<1>3. \A b \in Accounts : Len(saves[b]) \in Nat
  BY DEF CloudOK
<1>4. Later
  BY <1>1, <1>2, <1>3 DEF Later, Latest
<1>5. saves' \in [Accounts -> Seq(Contents)] /\ seen' \in [Accounts -> SUBSET Machines]
  BY <1>1 DEF CloudOK, Adds
<1>6. Had(MachineOf[w], a, rev)'
  BY <1>1, <1>2 DEF Had, Latest
<1> QED BY <1>2, <1>4, <1>5, <1>6 DEF Latest

LEMMA PutInsertStep ==
  ASSUME SynInv, NEW w \in Workers, PutInsert(w)
  PROVE  SynInv'
<1>0. PICK c, a, rev : c = call[w] /\ a = c.account /\ rev = Latest(a) + 1
  OBVIOUS
<1>1. /\ spc[w] = "insert" /\ a \in Accounts /\ c \in Calls /\ c.snapshot \in Contents
      /\ UNCHANGED <<files, marker, signedIn>>
  BY <1>0, Hands DEF PutInsert, CallOK
<1>2. CASE UNCHANGED <<saves, seen>> /\ (Is(w, "idle", NoCall) \/ LostAnswer(w))
  BY <1>1, <1>2, IdleStep, LostStep, SameIsLater, Hands DEF CloudOK
<1>3. CASE /\ saves' = [saves EXCEPT ![a] = Append(@, c.snapshot)]
           /\ seen' = [seen EXCEPT ![a] = {MachineOf[w]}]
           /\ Is(w, "mark", [c EXCEPT !.got = rev]) \/ LostAnswer(w)
  <2>1. /\ Later /\ seen' \in [Accounts -> SUBSET Machines]
        /\ saves' \in [Accounts -> Seq(Contents)]
        /\ rev \in Nat /\ saves'[a][rev] = c.snapshot /\ Had(MachineOf[w], a, rev)'
    <3>1. CloudOK
      BY Hands
    <3>2. Adds(w, a, c.snapshot)
      BY <1>3 DEF Adds
    <3> QED BY <1>0, <1>1, <3>1, <3>2, Added
  <2>2. CASE LostAnswer(w)
    BY <1>1, <2>1, <2>2, LostStep
  <2>3. CASE Is(w, "mark", [c EXCEPT !.got = rev])
    <3> DEFINE d == [c EXCEPT !.got = rev]
    <3>1. d \in Calls /\ d.account = a /\ d.snapshot = c.snapshot /\ d.got = rev
      BY <1>0, <1>1, <2>1, GotType
    <3>2. Is(w, "mark", d)
      BY <2>3
    <3> HIDE DEF d
    <3>3. spc'[w] = "mark" /\ call'[w] = d
      BY <3>1, <3>2, IsType DEF CallPlaces
    <3>4. CloudOK'
      BY <1>1, <2>1, <3>1, <3>2, Hands, IsType DEF CloudOK, CallPlaces
    <3>5. CallOK(w)'
      BY <1>1, <2>1, <3>1, <3>3 DEF CallOK
    <3> QED BY <1>1, <2>1, <3>2, <3>4, <3>5, WorkerStep
  <2> QED BY <1>3, <2>2, <2>3
<1> QED BY <1>0, <1>2, <1>3 DEF PutInsert

LEMMA SaveMarkerStep ==
  ASSUME SynInv, NEW w \in Workers, SaveMarker(w)
  PROVE  SynInv'
<1>0. PICK c, m, k : c = call[w] /\ m = MachineOf[w] /\ k = Mark(c.got, c.snapshot, c.account)
  OBVIOUS
<1>1. /\ c \in Calls /\ c.account \in Accounts /\ c.snapshot \in Contents /\ m \in Machines
      /\ Had(m, c.account, c.got) /\ saves[c.account][c.got] = c.snapshot
      /\ marker' = [marker EXCEPT ![m] = k] /\ Is(w, "idle", NoCall)
      /\ UNCHANGED <<files, signedIn, saves, seen>>
  BY <1>0, Hands DEF SaveMarker, CallOK, MarkOfSave
<1>2. k \in Marks /\ k.rev = c.got /\ k.content = c.snapshot /\ k.of = c.account
  BY <1>0, <1>1 DEF Mark, Marks, Calls
<1>3. marker \in [Machines -> Marks] /\ marker' \in [Machines -> Marks]
  BY <1>1, <1>2, Hands DEF CloudOK
<1>4. CloudOK'
  BY <1>1, <1>3, Hands, IsType DEF CloudOK, CallPlaces
<1>5. CallOK(w)'
  BY <1>1, Hands, IsType DEF CallOK, CallPlaces
<1>6. Later
  BY <1>1, SameIsLater, Hands
<1>7. MarkerOK(m)'
  BY <1>1, <1>2, <1>3, <1>6, HadLater DEF MarkerOK
<1>8. \A n \in Machines : marker'[n] = marker[n] \/ MarkerOK(n)'
  BY <1>1, <1>3, <1>7
<1> QED BY <1>1, <1>4, <1>5, <1>6, <1>8, WorkerStep

(***************************************************************************)
(* load                                                                    *)
(***************************************************************************)
LEMMA GetStep ==
  ASSUME SynInv, NEW w \in Workers, NEW force \in BOOLEAN, Get(w, force)
  PROVE  SynInv'
<1>0. PICK a, rev : a = signedIn[MachineOf[w]] /\ rev = Latest(a)
  OBVIOUS
<1>1. /\ a \in Accounts /\ rev \in Nat /\ rev > 0 /\ UNCHANGED <<files, marker, signedIn, saves, seen>>
      /\ Is(w, "apply", [NoCall EXCEPT !.account = a, !.got = rev, !.force = force])
  BY <1>0, Hands DEF Get, CloudOK, Latest
<1> DEFINE c == [NoCall EXCEPT !.account = a, !.got = rev, !.force = force]
<1>2. NoCall \in Calls
  BY Hands
<1>3. c \in Calls /\ c.account = a /\ c.got = rev /\ c.snapshot = "none"
  BY <1>1, <1>2 DEF NoCall, Calls
<1>4. Is(w, "apply", c)
  BY <1>1
<1> HIDE DEF c
<1>5. spc'[w] = "apply" /\ call'[w] = c
  BY <1>3, <1>4, IsType DEF CallPlaces
<1>6. rev \in 1..Latest(a)'
  BY <1>0, <1>1 DEF Latest
<1>7. CallOK(w)'
  BY <1>1, <1>3, <1>5, <1>6 DEF CallOK
<1>8. CloudOK'
  BY <1>1, <1>3, <1>4, Hands, IsType DEF CloudOK, CallPlaces
<1> QED BY <1>1, <1>4, <1>7, <1>8, WorkerStep, SameIsLater, Hands

LEMMA ApplyStep ==
  ASSUME SynInv, NEW w \in Workers, Apply(w)
  PROVE  SynInv'
<1>0. PICK c, m, a, new, k :
        /\ c = call[w] /\ m = MachineOf[w] /\ a = c.account /\ new = saves[a][c.got]
        /\ k = Mark(c.got, new, a)
  OBVIOUS
<1>1. /\ c \in Calls /\ a \in Accounts /\ m \in Machines /\ c.got \in 1..Latest(a)
      /\ Is(w, "idle", NoCall) /\ UNCHANGED <<signedIn, saves>>
  BY <1>0, Hands DEF Apply, CallOK
<1>2. CASE UNCHANGED <<files, marker, seen>>
  BY <1>1, <1>2, IdleStep, SameIsLater, Hands DEF CloudOK
<1>3. CASE /\ files' = [files EXCEPT ![m] = new] /\ marker' = [marker EXCEPT ![m] = k]
           /\ seen' = IF c.got = Latest(a) THEN [seen EXCEPT ![a] = @ \cup {m}] ELSE seen
  <2>1. /\ saves \in [Accounts -> Seq(Contents)] /\ seen \in [Accounts -> SUBSET Machines]
        /\ Latest(a) \in Nat /\ marker \in [Machines -> Marks] /\ files \in [Machines -> Contents]
    BY <1>1, Hands DEF CloudOK, Latest
  <2>2. new \in Contents
    BY <1>0, <1>1, <2>1 DEF Latest
  <2>3. k \in Marks /\ k.rev = c.got /\ k.content = new /\ k.of = a
    BY <1>0, <1>1, <2>2 DEF Mark, Marks, Calls
  <2>4. /\ seen' \in [Accounts -> SUBSET Machines] /\ \A b \in Accounts : seen[b] \subseteq seen'[b]
        /\ c.got = Latest(a) => m \in seen'[a]
    BY <1>1, <1>3, <2>1
  <2>5. Later /\ Had(m, a, c.got)'
    BY <1>1, <2>1, <2>4 DEF Later, Had, Latest
  <2>6. marker' \in [Machines -> Marks] /\ files' \in [Machines -> Contents]
    BY <1>3, <2>1, <2>2, <2>3
  <2>7. CloudOK'
    BY <1>1, <2>4, <2>6, Hands, IsType DEF CloudOK, CallPlaces
  <2>8. CallOK(w)'
    BY <1>1, Hands, IsType DEF CallOK, CallPlaces
  <2>9. saves'[a][c.got] = new
    BY <1>0, <1>1
  <2>10. MarkerOK(m)'
    BY <1>1, <1>3, <2>1, <2>3, <2>5, <2>9 DEF MarkerOK
  <2>11. \A n \in Machines : marker'[n] = marker[n] \/ MarkerOK(n)'
    BY <1>1, <1>3, <2>1, <2>10
  <2> QED BY <1>1, <2>5, <2>7, <2>8, <2>11, WorkerStep
<1> QED BY <1>0, <1>2, <1>3 DEF Apply, MarkOfLoad

(***************************************************************************)
(* The people                                                              *)
(***************************************************************************)
LEMMA PeopleStep ==
  ASSUME SynInv, UNCHANGED <<marker, saves, spc, call, seen>>,
         files' \in [Machines -> Contents], signedIn' \in [Machines -> Accounts]
  PROVE  SynInv'
<1>1. CloudOK' /\ Later
  BY SameIsLater DEF SynInv, CloudOK
<1>2. \A m \in Machines : MarkerOK(m)'
  BY <1>1, MarkerLater DEF SynInv
<1>3. \A w \in Workers : CallOK(w)'
  BY <1>1, CallLater DEF SynInv
<1> QED BY <1>1, <1>2, <1>3 DEF SynInv

LEMMA SynInvStep == SynInv /\ [SynNext]_<<synVars, faults>> => SynInv'
<1> SUFFICES ASSUME SynInv, [SynNext]_<<synVars, faults>> PROVE SynInv'
  OBVIOUS
<1>1. ASSUME NEW w \in Workers, PutRead(w) PROVE SynInv'
  BY <1>1, PutReadStep
<1>2. ASSUME NEW w \in Workers, PutInsert(w) PROVE SynInv'
  BY <1>2, PutInsertStep
<1>3. ASSUME NEW w \in Workers, SaveMarker(w) PROVE SynInv'
  BY <1>3, SaveMarkerStep
<1>4. ASSUME NEW w \in Workers, Apply(w) PROVE SynInv'
  BY <1>4, ApplyStep
<1>5. ASSUME NEW w \in Workers, SynCrash(w) PROVE SynInv'
  BY <1>5, IdleStep, SameIsLater, Hands DEF SynCrash, CloudOK
<1>6. ASSUME NEW w \in Workers, NEW force \in BOOLEAN, Save_(w, force) PROVE SynInv'
  BY <1>6, SaveStep
<1>7. ASSUME NEW w \in Workers, NEW force \in BOOLEAN, Get(w, force) PROVE SynInv'
  BY <1>7, GetStep
<1>8. ASSUME NEW m \in Machines, NEW content \in Contents, EditFiles(m, content) PROVE SynInv'
  BY <1>8, PeopleStep DEF EditFiles, SynInv, CloudOK
<1>9. ASSUME NEW m \in Machines, NEW a \in Accounts, SignIn(m, a) PROVE SynInv'
  BY <1>9, PeopleStep DEF SignIn, SynInv, CloudOK
<1>10. CASE UNCHANGED <<synVars, faults>>
  BY <1>10, PeopleStep DEF synVars, SynInv, CloudOK
<1> QED BY <1>1, <1>2, <1>3, <1>4, <1>5, <1>6, <1>7, <1>8, <1>9, <1>10 DEF SynNext

LEMMA SynInvAlways == SynSpec => []SynInv
BY SynInvInit, SynInvStep, PTL DEF SynSpec

(* Whatever is saved, loaded, edited, lost and sent again: a marker names a *)
(* revision there is with what it holds, and a call under way an account    *)
(* and a revision there are.                                                *)
THEOREM SynTypeCorrect == SynSpec => []SynTypeOK
BY SynInvAlways, SynInvIsType, PTL

(***************************************************************************)
(* What a save replaces                                                    *)
(***************************************************************************)
(* Where a worker is, only its own step changes *)
LEMMA OwnStep ==
  ASSUME SynInv, [SynNext]_<<synVars, faults>>, NEW w \in Workers, spc'[w] # spc[w]
  PROVE  \/ PutRead(w) \/ PutInsert(w) \/ SaveMarker(w) \/ Apply(w) \/ SynCrash(w)
         \/ \E force \in BOOLEAN : Save_(w, force) \/ Get(w, force)
<1>1. spc \in [Workers -> CallPlaces]
  BY DEF SynInv, CloudOK
<1>2. \A o \in Workers : \A where, c : Is(o, where, c) => o = w
  BY <1>1 DEF Is
<1>3. \A o \in Workers : LostAnswer(o) => o = w
  BY <1>2 DEF LostAnswer
<1>4. \A o \in Workers : PutRead(o) \/ PutInsert(o) => o = w
  BY <1>2, <1>3 DEF PutRead, PutInsert
<1>5. \A o \in Workers : SaveMarker(o) \/ Apply(o) \/ SynCrash(o) => o = w
  BY <1>2 DEF SaveMarker, Apply, SynCrash
<1>6. \A o \in Workers, force \in BOOLEAN : Save_(o, force) \/ Get(o, force) => o = w
  BY <1>2 DEF Save_, Get
<1>7. /\ \A m, content : ~EditFiles(m, content)
      /\ \A m, a : ~SignIn(m, a)
      /\ ~UNCHANGED <<synVars, faults>>
  BY DEF EditFiles, SignIn, synVars
<1> QED BY <1>4, <1>5, <1>6, <1>7 DEF SynNext

(* A step that leaves an insert and changes what the account has is the     *)
(* insert itself, and its precondition held                                 *)
LEMMA InsertOfOwn ==
  ASSUME SynInv, [SynNext]_<<synVars, faults>>, NEW w \in Workers, spc[w] = "insert",
         spc'[w] # "insert", saves' # saves
  PROVE  PutInsert(w) /\ Holds(call[w])
<1>1. \A force : ~PutRead(w) /\ ~SaveMarker(w) /\ ~Apply(w) /\ ~Save_(w, force) /\ ~Get(w, force)
  BY DEF PutRead, SaveMarker, Apply, Save_, Get
<1>2. ~SynCrash(w)
  BY DEF SynCrash
<1>3. PutInsert(w)
  BY <1>1, <1>2, OwnStep
<1> QED BY <1>3 DEF PutInsert

LEMMA ReplacedWasSeen ==
  ASSUME SynInv, [SynNext]_<<synVars, faults>>, NEW w \in Workers, spc[w] = "insert",
         spc'[w] # "insert", saves'[call[w].account] # saves[call[w].account],
         ~call[w].force, call[w].of = call[w].account
  PROVE  MachineOf[w] \in seen[call[w].account]
<1>1. Holds(call[w])
  BY InsertOfOwn
<1>2. /\ call[w].account \in Accounts /\ call[w].pre = call[w].if
      /\ Had(MachineOf[w], call[w].account, call[w].if)
  BY Hands, SynConfigAssumption DEF CallOK
<1> QED BY <1>1, <1>2 DEF Holds, Had

(* However many machines save to an account at once, and whatever was sent  *)
(* twice: an unforced save replaces a revision only of a machine that has   *)
(* had it.                                                                  *)
THEOREM NothingIsLost == SynSpec => NothingLost
<1>1. SynInv /\ [SynNext]_<<synVars, faults>> =>
        [\A w \in Workers :
           LET c == call[w]
           IN  /\ spc[w] = "insert" /\ spc'[w] # "insert"
               /\ saves'[c.account] # saves[c.account]
               /\ ~c.force /\ c.of = c.account
               => MachineOf[w] \in seen[c.account]]_<<synVars, faults>>
  BY ReplacedWasSeen
<1> QED BY <1>1, SynInvAlways, PTL DEF SynSpec, NothingLost

(***************************************************************************)
(* What a load replaces                                                    *)
(***************************************************************************)
LEMMA ReplacedWasSaved ==
  ASSUME SynInv, [SynNext]_<<synVars, faults>>, NEW w \in Workers, spc[w] = "apply",
         spc'[w] = "idle", ~call[w].force, marker[MachineOf[w]] # NoMark,
         files'[MachineOf[w]] # files[MachineOf[w]]
  PROVE  \E a \in Accounts : \E i \in 1..Latest(a) : saves[a][i] = files[MachineOf[w]]
<1>0. PICK m : m = MachineOf[w]
  OBVIOUS
<1>1. Apply(w)
  <2>1. \A force : ~PutRead(w) /\ ~PutInsert(w) /\ ~SaveMarker(w) /\ ~Save_(w, force) /\ ~Get(w, force)
    BY DEF PutRead, PutInsert, SaveMarker, Save_, Get
  <2>2. ~SynCrash(w)
    BY DEF SynCrash
  <2> QED BY <2>1, <2>2, OwnStep
<1>2. ~Drifted(m)
  BY <1>0, <1>1, Hands DEF Apply, CloudOK
<1>3. MarkerOK(m)
  BY <1>0, Hands DEF SynInv
<1> QED BY <1>0, <1>2, <1>3 DEF Drifted, MarkerOK, Had

(* An unforced load replaces only what the cloud has a revision of, however *)
(* late it is applied.                                                      *)
THEOREM EditsAreKept == SynSpec => EditsKept
<1>1. SynInv /\ [SynNext]_<<synVars, faults>> =>
        [\A w \in Workers :
           LET m == MachineOf[w]
           IN  /\ spc[w] = "apply" /\ spc'[w] = "idle" /\ ~call[w].force
               /\ marker[m] # NoMark /\ files'[m] # files[m]
               => \E a \in Accounts : \E i \in 1..Latest(a) : saves[a][i] = files[m]
        ]_<<synVars, faults>>
  BY ReplacedWasSaved
<1> QED BY <1>1, SynInvAlways, PTL DEF SynSpec, EditsKept

(***************************************************************************)
(* A reader's newest press counts, for any number of people, presses,      *)
(* processes and faults.                                                   *)
(*                                                                         *)
(* NewestPressCounts speaks of the moments when nothing is being applied.  *)
(* What holds at every moment is that a press a cursor is past is settled, *)
(* and one a pull is past is settled or still among what was pulled        *)
(* (CoverInv).  It is, because all that is ever applied was pressed        *)
(* (PressInv), and because only one process at a time applies anything, to *)
(* the contacts as they are (ContactInv): else it would be crossed.        *)
(***************************************************************************)

(***************************************************************************)
(* What a pull is answered                                                 *)
(***************************************************************************)
Among(s) == {s[i] : i \in 1..Len(s)}

(* No two are of one time *)
Apart(S) == \A c, d \in S : c.at = d.at => c = d

LEMMA ApartIsFinite ==
  ASSUME NEW S \in SUBSET Changes, Apart(S)
  PROVE  IsFiniteSet(S)
<1>1. PICK f : f = [c \in S |-> c.at]
  OBVIOUS
<1>2. f \in Injection(S, 0..MaxPresses)
  BY <1>1 DEF Changes, Apart, Injection, IsInjective
<1>3. IsFiniteSet(0..MaxPresses)
  BY SyncAssumption, FS_Interval
<1> QED BY <1>2, <1>3, FS_Injection

(* The places of what is in order are those of 1..n, each taken once *)
LEMMA PlacesTaken ==
  ASSUME NEW S \in SUBSET Changes, Apart(S)
  PROVE  /\ Cardinality(S) \in Nat
         /\ \A c \in S : Cardinality(UpTo(c, S)) \in 1..Cardinality(S)
         /\ \A c, d \in S : /\ c.at <= d.at <=> Cardinality(UpTo(c, S)) <= Cardinality(UpTo(d, S))
                            /\ Cardinality(UpTo(c, S)) = Cardinality(UpTo(d, S)) => c = d
         /\ \A i \in 1..Cardinality(S) : \E c \in S : Cardinality(UpTo(c, S)) = i
<1>1. IsFiniteSet(S) /\ Cardinality(S) \in Nat
  BY ApartIsFinite, FS_CardinalityType
<1>2. \A c \in S : c.at \in Int
  BY DEF Changes
<1>3. \A c \in S : c \in UpTo(c, S) /\ UpTo(c, S) \in SUBSET S
  BY <1>2 DEF UpTo
<1>4. ASSUME NEW c \in S
      PROVE  /\ IsFiniteSet(UpTo(c, S)) /\ Cardinality(UpTo(c, S)) \in Nat
             /\ Cardinality(UpTo(c, S)) \in 1..Cardinality(S)
  <2>1. /\ IsFiniteSet(UpTo(c, S)) /\ Cardinality(UpTo(c, S)) \in Nat
        /\ Cardinality(UpTo(c, S)) <= Cardinality(S)
    BY <1>1, <1>3, FS_Subset, FS_CardinalityType
  <2>2. Cardinality(UpTo(c, S)) # 0
    BY <1>3, <2>1, FS_EmptySet
  <2> QED BY <1>1, <2>1, <2>2
<1>5. ASSUME NEW c \in S, NEW d \in S, c.at < d.at
      PROVE  Cardinality(UpTo(c, S)) < Cardinality(UpTo(d, S))
  <2>1. UpTo(c, S) \in SUBSET UpTo(d, S) /\ d \notin UpTo(c, S) /\ d \in UpTo(d, S)
    BY <1>2, <1>5 DEF UpTo
  <2>2. UpTo(c, S) # UpTo(d, S)
    BY <2>1
  <2>3. /\ Cardinality(UpTo(c, S)) <= Cardinality(UpTo(d, S))
        /\ Cardinality(UpTo(c, S)) # Cardinality(UpTo(d, S))
    BY <1>4, <2>1, <2>2, FS_Subset
  <2> QED BY <1>4, <2>3
<1>6. \A c, d \in S : /\ c.at <= d.at <=> Cardinality(UpTo(c, S)) <= Cardinality(UpTo(d, S))
                      /\ Cardinality(UpTo(c, S)) = Cardinality(UpTo(d, S)) => c = d
  <2> SUFFICES ASSUME NEW c \in S, NEW d \in S
               PROVE  /\ c.at <= d.at <=> Cardinality(UpTo(c, S)) <= Cardinality(UpTo(d, S))
                      /\ Cardinality(UpTo(c, S)) = Cardinality(UpTo(d, S)) => c = d
    OBVIOUS
  <2>1. CASE c.at < d.at
    BY <1>2, <1>4, <1>5, <2>1
  <2>2. CASE d.at < c.at
    BY <1>2, <1>4, <1>5, <2>2
  <2>3. CASE c.at = d.at
    BY <1>2, <1>4, <2>3 DEF Apart
  <2> QED BY <1>2, <2>1, <2>2, <2>3
<1>7. \A i \in 1..Cardinality(S) : \E c \in S : Cardinality(UpTo(c, S)) = i
  <2>1. PICK f : f = [c \in S |-> Cardinality(UpTo(c, S))]
    OBVIOUS
  <2>2. f \in Injection(S, 1..Cardinality(S))
    BY <1>4, <1>6, <2>1 DEF Injection, IsInjective
  <2>3. IsFiniteSet(1..Cardinality(S)) /\ Cardinality(1..Cardinality(S)) = Cardinality(S)
    BY <1>1, FS_Interval
  <2>4. f \in Surjection(S, 1..Cardinality(S))
    BY <2>2, <2>3, FS_Injection
  <2> QED BY <2>1, <2>4 DEF Surjection
<1> QED BY <1>1, <1>4, <1>6, <1>7

LEMMA InOrderIs ==
  ASSUME NEW S \in SUBSET Changes, Apart(S)
  PROVE  /\ InOrder(S) \in Seq(S) /\ Len(InOrder(S)) = Cardinality(S) /\ Cardinality(S) \in Nat
         /\ \A i \in 1..Cardinality(S) :
              InOrder(S)[i] \in S /\ Cardinality(UpTo(InOrder(S)[i], S)) = i
         /\ Among(InOrder(S)) = S
<1>1. /\ Cardinality(S) \in Nat
      /\ \A i \in 1..Cardinality(S) : \E c \in S : Cardinality(UpTo(c, S)) = i
      /\ \A c \in S : Cardinality(UpTo(c, S)) \in 1..Cardinality(S)
      /\ \A c, d \in S : Cardinality(UpTo(c, S)) = Cardinality(UpTo(d, S)) => c = d
  BY PlacesTaken
<1>2. \A i \in 1..Cardinality(S) :
        InOrder(S)[i] \in S /\ Cardinality(UpTo(InOrder(S)[i], S)) = i
  BY <1>1 DEF InOrder
<1>3. InOrder(S) \in [1..Cardinality(S) -> S]
  BY <1>2 DEF InOrder
<1>4. InOrder(S) \in Seq(S) /\ Len(InOrder(S)) = Cardinality(S)
  BY <1>1, <1>3
<1>5. Among(InOrder(S)) = S
  BY <1>1, <1>2, <1>4 DEF Among
<1> QED BY <1>1, <1>2, <1>4, <1>5

(* A page holds all there is up to the last of it *)
LEMMA PageIs ==
  ASSUME NEW S \in SUBSET Changes, Apart(S), \A c \in S : c.at > 0
  PROVE  /\ Page(InOrder(S)) \in Seq(Changes)
         /\ Among(Page(InOrder(S))) \subseteq S
         /\ Last_(Page(InOrder(S))) \in 0..MaxPresses
         /\ Last_(Page(InOrder(S))) # 0 => \E c \in S : c.at = Last_(Page(InOrder(S)))
         /\ \A c \in S : c.at <= Last_(Page(InOrder(S))) => c \in Among(Page(InOrder(S)))
<1>1. PICK s : s = InOrder(S)
  OBVIOUS
<1>2. /\ s \in Seq(S) /\ Len(s) = Cardinality(S) /\ Cardinality(S) \in Nat
      /\ \A i \in 1..Cardinality(S) : s[i] \in S /\ Cardinality(UpTo(s[i], S)) = i
      /\ Among(s) = S
  BY <1>1, InOrderIs
<1>3. PICK n : n = IF Len(s) < PageSize THEN Len(s) ELSE PageSize
  OBVIOUS
<1>4. n \in Nat /\ n <= Len(s)
  BY <1>2, <1>3, SyncAssumption
<1>5. PICK page : page = Page(s)
  OBVIOUS
<1>6. page = SubSeq(s, 1, n)
  BY <1>3, <1>5 DEF Page
<1>7. page \in Seq(S) /\ Len(page) = n /\ \A i \in 1..n : page[i] = s[i]
  BY <1>2, <1>4, <1>6
<1>8. page \in Seq(Changes) /\ Among(page) \subseteq S
  BY <1>7 DEF Among
<1>9. Last_(page) = IF n = 0 THEN 0 ELSE s[n].at
  BY <1>4, <1>7 DEF Last_
<1>10. Last_(page) \in 0..MaxPresses /\ (Last_(page) # 0 => \E c \in S : c.at = Last_(page))
  <2>1. CASE n = 0
    BY <1>9, <2>1, SyncAssumption
  <2>2. CASE n # 0
    <3>1. s[n] \in S
      BY <1>2, <1>4, <2>2
    <3> QED BY <1>9, <2>2, <3>1 DEF Changes
  <2> QED BY <2>1, <2>2
<1>11. ASSUME NEW c \in S, c.at <= Last_(page)
       PROVE  c \in Among(page)
  <2>1. c.at \in 0..MaxPresses /\ c.at > 0
    BY DEF Changes
  <2>2. n # 0 /\ c.at <= s[n].at
    BY <1>9, <1>11, <2>1
  <2>3. n \in 1..Cardinality(S) /\ s[n] \in S /\ Cardinality(UpTo(s[n], S)) = n
    BY <1>2, <1>4, <2>2
  <2>4. Cardinality(UpTo(c, S)) \in 1..Cardinality(S) /\ Cardinality(UpTo(c, S)) <= n
    BY <2>2, <2>3, PlacesTaken
  <2>5. PICK i : i = Cardinality(UpTo(c, S))
    OBVIOUS
  <2>6. i \in 1..n /\ s[i] \in S /\ Cardinality(UpTo(s[i], S)) = i
    BY <1>2, <1>4, <2>4, <2>5
  <2>7. s[i] = c
    BY <2>5, <2>6, PlacesTaken
  <2> QED BY <1>7, <2>6, <2>7 DEF Among
<1> QED BY <1>1, <1>5, <1>8, <1>10, <1>11

(***************************************************************************)
(* Types                                                                   *)
(***************************************************************************)
SyncPlaces == {"idle", "asking", "cloud", "optCloud", "fetch", "fetching", "crawlproof",
               "optCrawlproof"}
Pulls == [entries : Seq(Changes), contacts : ContactFiles, newest : 0..MaxPresses]

(* Who is opted out as a pull saw it was a contact there, and an entry that *)
(* is applied is there                                                      *)
PullOK(w) ==
  /\ pull[w].contacts.out \subseteq pull[w].contacts.known
  /\ syncpc[w] \in {"optCloud", "optCrawlproof"} => pull[w].entries # <<>>
  /\ syncpc[w] = "optCloud" => Head(pull[w].entries).who \in pull[w].contacts.known

ReaderTypeOK ==
  /\ clock \in 0..MaxPresses /\ under \subseteq Changes /\ events \subseteq Changes
  /\ rows \in [People -> Changes] /\ newest \in [People -> Changes]
  /\ cursor \in [cloud : 0..MaxPresses, crawlproof : 0..MaxPresses]
  /\ outByHand \subseteq People /\ forgotten \subseteq People /\ missed \subseteq People
  /\ crossed \in BOOLEAN

FileTypeOK ==
  /\ optChanges \in [People -> Changes]
  /\ contacts \in ContactFiles /\ contacts.out \subseteq contacts.known

PullTypeOK ==
  /\ syncpc \in [Workers -> SyncPlaces] /\ pull \in [Workers -> Pulls]
  /\ \A w \in Workers : PullOK(w)

SyncOK == ReaderTypeOK /\ FileTypeOK /\ PullTypeOK

LEMMA MovesType ==
  ASSUME PullTypeOK, NEW w \in Workers, NEW where \in SyncPlaces, NEW t \in Pulls,
         Moves(w, where, t), t.contacts.out \subseteq t.contacts.known,
         where \in {"optCloud", "optCrawlproof"} => t.entries # <<>>,
         where = "optCloud" => Head(t.entries).who \in t.contacts.known
  PROVE  PullTypeOK'
BY DEF PullTypeOK, Moves, PullOK

LEMMA PullTypes ==
  ASSUME PullTypeOK, NEW w \in Workers
  PROVE  /\ pull[w] \in Pulls /\ pull[w].entries \in Seq(Changes)
         /\ pull[w].contacts \in ContactFiles /\ pull[w].newest \in 0..MaxPresses
         /\ pull[w].contacts.out \subseteq pull[w].contacts.known
         /\ NoPull \in Pulls /\ NoPull.entries = <<>> /\ NoPull.newest = 0
         /\ NoPull.contacts.out \subseteq NoPull.contacts.known
BY SyncAssumption DEF PullTypeOK, PullOK, Pulls, NoPull, ContactFiles

(* The first of what was pulled, and the rest *)
LEMMA FirstAndRest ==
  ASSUME NEW s \in Seq(Changes), s # <<>>
  PROVE  /\ Head(s) \in Changes /\ Tail(s) \in Seq(Changes)
         /\ Head(s) \in Among(s) /\ Among(Tail(s)) \subseteq Among(s)
         /\ Among(s) \subseteq {Head(s)} \cup Among(Tail(s))
<1>1. /\ Len(s) \in Nat /\ Len(s) # 0 /\ Head(s) = s[1] /\ Tail(s) \in Seq(Changes)
      /\ Len(Tail(s)) = Len(s) - 1 /\ \A i \in 1..Len(s) - 1 : Tail(s)[i] = s[i + 1]
  OBVIOUS
<1>2. \A i \in 1..Len(s) : s[i] \in Changes
  OBVIOUS
<1>3. Among(Tail(s)) \subseteq Among(s)
  BY <1>1 DEF Among
<1>4. ASSUME NEW i \in 1..Len(s)
      PROVE  s[i] = Head(s) \/ s[i] \in Among(Tail(s))
  <2>1. CASE i = 1
    BY <1>1, <2>1
  <2>2. CASE i # 1
    <3>1. i - 1 \in 1..Len(s) - 1 /\ Tail(s)[i - 1] = s[i]
      BY <1>1, <2>2
    <3> QED BY <1>1, <3>1 DEF Among
  <2> QED BY <2>1, <2>2
<1>5. Head(s) \in Changes /\ Head(s) \in Among(s)
  BY <1>1, <1>2 DEF Among
<1> QED BY <1>1, <1>3, <1>4, <1>5 DEF Among

LEMMA RestType ==
  ASSUME NEW t \in Pulls, t.entries # <<>>
  PROVE  /\ Rest(t) \in Pulls /\ Rest(t).entries = Tail(t.entries)
         /\ Rest(t).contacts = t.contacts /\ Rest(t).newest = t.newest
         /\ \A f \in ContactFiles : [Rest(t) EXCEPT !.contacts = f] \in Pulls
<1>1. Tail(t.entries) \in Seq(Changes)
  BY FirstAndRest DEF Pulls
<1> QED BY <1>1 DEF Rest, Pulls

LEMMA SyncInitType == SyncInit => SyncOK
<1> SUFFICES ASSUME SyncInit PROVE SyncOK
  OBVIOUS
<1>1. NoPull \in Pulls /\ NoPull.contacts.out \subseteq NoPull.contacts.known
  BY SyncAssumption DEF NoPull, Pulls, ContactFiles
<1>2. \A p \in People : NoChange(p) \in Changes
  BY SyncAssumption DEF NoChange, Change, Changes
<1>3. ReaderTypeOK
  <2>1. 0 \in 0..MaxPresses
    BY SyncAssumption
  <2>2. cursor \in [cloud : 0..MaxPresses, crawlproof : 0..MaxPresses]
    BY <2>1 DEF SyncInit
  <2>3. rows \in [People -> Changes] /\ newest \in [People -> Changes]
    BY <1>2 DEF SyncInit
  <2> QED BY <2>1, <2>2, <2>3 DEF SyncInit, ReaderTypeOK
<1>4. FileTypeOK
  BY <1>2 DEF SyncInit, FileTypeOK, ContactFiles
<1>5. PullTypeOK
  BY <1>1 DEF SyncInit, PullTypeOK, PullOK, SyncPlaces
<1> QED BY <1>3, <1>4, <1>5 DEF SyncOK

(* A clock that goes on is within its bound *)
LEMMA ClockGoesOn ==
  ASSUME clock \in 0..MaxPresses, clock < MaxPresses
  PROVE  clock + 1 \in 0..MaxPresses /\ clock + 1 > clock /\ clock \in Nat
BY SyncAssumption

LEMMA ReaderType ==
  ASSUME SyncOK,
         \/ \E p \in People : \/ \E s \in {"unsubscribed", "resubscribed"} : Press(p, s)
                              \/ PressTracked(p) \/ OptOutByHand(p) \/ RemoveContact(p) \/ AddContact(p)
         \/ \E c \in under : Pressed(c)
  PROVE  SyncOK'
<1>1. UNCHANGED <<syncpc, pull>>
  BY DEF Press, PressTracked, OptOutByHand, RemoveContact, AddContact, Pressed
<1>2. PullTypeOK'
  BY <1>1 DEF SyncOK, PullTypeOK, PullOK
<1>3. ReaderTypeOK /\ FileTypeOK
  BY DEF SyncOK
<1>4. CASE \E p \in People : \/ \E s \in {"unsubscribed", "resubscribed"} : Press(p, s)
                             \/ PressTracked(p)
  <2>1. clock \in 0..MaxPresses /\ clock < MaxPresses /\ clock' = clock + 1
    BY <1>3, <1>4 DEF Press, PressTracked, ReaderTypeOK
  <2>2. clock' \in 0..MaxPresses
    BY <2>1, ClockGoesOn
  <2>3. ReaderTypeOK'
    <3>1. ASSUME NEW p \in People, NEW s \in {"unsubscribed", "resubscribed"},
                 NEW from \in {"cloud", "crawlproof"}
          PROVE  Change(p, s, clock', from) \in Changes
      BY <2>2 DEF Change, Changes
    <3>2. CASE \E p \in People : \E s \in {"unsubscribed", "resubscribed"} : Press(p, s)
      BY <1>3, <2>2, <3>1, <3>2 DEF Press, ReaderTypeOK
    <3>3. CASE \E p \in People : PressTracked(p)
      BY <1>3, <2>2, <3>1, <3>3 DEF PressTracked, ReaderTypeOK
    <3> QED BY <1>4, <3>2, <3>3
  <2>4. FileTypeOK'
    BY <1>3, <1>4 DEF Press, PressTracked, FileTypeOK
  <2> QED BY <1>2, <2>3, <2>4 DEF SyncOK
<1>5. CASE \E p \in People : OptOutByHand(p) \/ RemoveContact(p) \/ AddContact(p)
  <2>1. ReaderTypeOK'
    BY <1>3, <1>5 DEF OptOutByHand, RemoveContact, AddContact, ReaderTypeOK
  <2>2. FileTypeOK'
    BY <1>3, <1>5 DEF OptOutByHand, RemoveContact, AddContact, FileTypeOK, ContactFiles
  <2> QED BY <1>2, <2>1, <2>2 DEF SyncOK
<1>6. ASSUME NEW c \in under, Pressed(c) PROVE SyncOK'
  <2>1. c \in Changes /\ c.who \in People
    BY <1>3 DEF ReaderTypeOK, Changes
  <2>2. Newer(c, newest[c.who]) \in Changes
    BY <1>3, <2>1 DEF Newer, ReaderTypeOK
  <2>3. ReaderTypeOK'
    BY <1>3, <1>6, <2>1, <2>2 DEF Pressed, ReaderTypeOK
  <2>4. FileTypeOK'
    BY <1>3, <1>6 DEF Pressed, FileTypeOK
  <2> QED BY <1>2, <2>3, <2>4 DEF SyncOK
<1> QED BY <1>4, <1>5, <1>6

(***************************************************************************)
(* All that is applied was pressed                                         *)
(***************************************************************************)
TrackedAt == {"fetching", "crawlproof", "optCrawlproof"}

Heard ==
  events \cup {rows[p] : p \in People} \cup {newest[p] : p \in People}
    \cup {optChanges[p] : p \in People} \cup UNION {Among(pull[w].entries) : w \in Workers}

(* What was heard of somebody is not newer than their newest press *)
Known(c) == c.at <= clock /\ c.at <= newest[c.who].at

(* A row that is being written is newer than the one it takes the place of *)
Writing(c) == c.source = "cloud" /\ 0 < c.at /\ c.at <= clock /\ rows[c.who].at < c.at

(* A person's newest press is the row, or one of the events *)
Stands(p) ==
  /\ rows[p].who = p /\ newest[p].who = p /\ optChanges[p].who = p
  /\ newest[p].source = "cloud" => newest[p] = rows[p]
  /\ newest[p].source = "crawlproof" => newest[p] \in events

PulledOK(w) ==
  /\ pull[w].newest <= clock
  /\ \A c \in Among(pull[w].entries) : c.at > 0 /\ (syncpc[w] \in TrackedAt => c.state = "unsubscribed")

PressInv ==
  /\ \A c \in Heard : Known(c)
  /\ \A c \in under : Writing(c)
  /\ \A c, d \in under : c.who = d.who => c = d
  /\ \A c, d \in Heard \cup under : c.at = d.at /\ c.at > 0 => c = d
  /\ \A p \in People : Stands(p)
  /\ \A c \in events : c.state = "unsubscribed" /\ c.at > 0
  /\ \A w \in Workers : PulledOK(w)
  /\ cursor.cloud <= clock /\ cursor.crawlproof <= clock

LEMMA HeardType == SyncOK => Heard \subseteq Changes
BY DEF SyncOK, ReaderTypeOK, FileTypeOK, PullTypeOK, Pulls, Heard, Among

LEMMA PressInit == SyncInit => PressInv
<1> SUFFICES ASSUME SyncInit PROVE PressInv
  OBVIOUS
<1>1. \A w \in Workers : Among(pull[w].entries) = {} /\ pull[w].newest = 0
  BY DEF SyncInit, Among, NoPull
<1>2. \A c \in Heard : c.at = 0 /\ c.who \in People
  BY <1>1 DEF SyncInit, Heard, NoChange, Change
<1>3. \A p \in People : newest[p].at = 0 /\ Stands(p)
  BY DEF SyncInit, NoChange, Change, Stands
<1>4. \A c \in Heard : Known(c)
  BY <1>2, <1>3 DEF SyncInit, Known
<1>5. \A c, d \in Heard \cup under : c.at = d.at /\ c.at > 0 => c = d
  BY <1>2 DEF SyncInit
<1>6. \A w \in Workers : PulledOK(w)
  BY <1>1 DEF SyncInit, PulledOK
<1> QED BY <1>3, <1>4, <1>5, <1>6 DEF SyncInit, PressInv

(***************************************************************************)
(* The readers' presses                                                    *)
(***************************************************************************)
(* A step that begins a press is later than all of before *)
LEMMA PressBegins ==
  ASSUME SyncOK, PressInv, NEW p \in People, NEW s \in {"unsubscribed", "resubscribed"}, Press(p, s)
  PROVE  PressInv'
<1>1. PICK c : c = Change(p, s, clock', "cloud")
  OBVIOUS
<1>2. /\ under' = under \cup {c} /\ \A d \in under : d.who # p
      /\ clock' = clock + 1 /\ clock \in Nat
  BY <1>1, SyncAssumption DEF Press, SyncOK, ReaderTypeOK
<1>3. c.at = clock + 1 /\ c.source = "cloud" /\ c.who = p
  BY <1>1, <1>2 DEF Change
<1>4. UNCHANGED <<rows, events, optChanges, cursor, syncpc, pull, newest>>
  BY DEF Press
<1>5. Heard' = Heard
  BY <1>4 DEF Heard
<1>6. \A d \in Heard : d.at \in Nat /\ d.at <= clock
  BY HeardType DEF PressInv, Known, Changes
<1>7. \A d \in Heard : Known(d)'
  BY <1>2, <1>4, <1>6 DEF PressInv, Known
<1>8. \A d \in under : d.at \in Nat /\ d.at <= clock /\ Writing(d)
  BY DEF PressInv, Writing, SyncOK, ReaderTypeOK, Changes
<1>9. (\A d \in under : Writing(d))'
  <2>1. rows[p] \in Heard
    BY DEF Heard
  <2>2. Writing(c)'
    BY <1>2, <1>3, <1>4, <1>6, <2>1 DEF Writing
  <2> QED BY <1>2, <1>4, <1>8, <2>2 DEF Writing
<1>10. (\A d, e \in Heard \cup under : d.at = e.at /\ d.at > 0 => d = e)'
  BY <1>2, <1>3, <1>5, <1>6, <1>8 DEF PressInv
<1>11. (\A d, e \in under : d.who = e.who => d = e)'
  BY <1>2, <1>3 DEF PressInv
<1>12. (\A q \in People : Stands(q))'
  BY <1>4 DEF PressInv, Stands
<1>13. (\A w \in Workers : PulledOK(w))'
  <2>1. \A w \in Workers : pull[w].newest \in Nat
    BY DEF SyncOK, PullTypeOK, Pulls
  <2> QED BY <1>2, <1>4, <2>1 DEF PressInv, PulledOK
<1>14. (cursor.cloud <= clock /\ cursor.crawlproof <= clock)'
  <2>1. cursor.cloud \in Nat /\ cursor.crawlproof \in Nat
    BY DEF SyncOK, ReaderTypeOK
  <2> QED BY <1>2, <1>4, <2>1 DEF PressInv
<1> QED BY <1>4, <1>5, <1>7, <1>9, <1>10, <1>11, <1>12, <1>13, <1>14 DEF PressInv

(* Its row is there: the newest, but for an event that was pressed after it *)
LEMMA PressEnds ==
  ASSUME SyncOK, PressInv, NEW c \in under, Pressed(c)
  PROVE  PressInv'
<1>1. c \in Changes /\ Writing(c) /\ c.who \in People /\ c.at \in Nat
  BY DEF SyncOK, ReaderTypeOK, PressInv, Changes
<1>2. PICK p : p = c.who
  OBVIOUS
<1>3. /\ rows' = [rows EXCEPT ![p] = c] /\ newest' = [newest EXCEPT ![p] = Newer(c, @)]
      /\ under' = under \ {c} /\ UNCHANGED <<clock, events, optChanges, cursor, syncpc, pull>>
  BY <1>2 DEF Pressed
<1>4. /\ rows'[p] = c /\ newest'[p] = Newer(c, newest[p])
      /\ \A q \in People \ {p} : rows'[q] = rows[q] /\ newest'[q] = newest[q]
  BY <1>1, <1>2, <1>3 DEF SyncOK, ReaderTypeOK
<1>5. \A q \in People : newest[q] \in Changes /\ newest[q].at \in Nat
  BY DEF SyncOK, ReaderTypeOK, Changes
<1>6. /\ newest'[p] = c \/ newest'[p] = newest[p]
      /\ newest'[p].at >= newest[p].at /\ newest'[p].at >= c.at
      /\ newest'[p] = newest[p] => newest'[p] = c \/ newest[p].at >= c.at
  BY <1>1, <1>2, <1>4, <1>5 DEF Newer
<1>7. Heard' \subseteq Heard \cup {c}
  BY <1>3, <1>4, <1>6 DEF Heard
<1>8. \A d \in Heard : d \in Changes /\ d.at \in Nat /\ d.who \in People /\ Known(d)
  BY HeardType DEF PressInv, Changes
<1>9. (\A d \in Heard : Known(d))'
  <2> SUFFICES ASSUME NEW d \in Heard' PROVE Known(d)'
    OBVIOUS
  <2>1. CASE d = c
    BY <1>1, <1>2, <1>3, <1>6, <2>1 DEF Known, Writing
  <2>2. CASE d # c
    <3>1. d.at <= clock /\ d.at <= newest[d.who].at /\ d.who \in People /\ d.at \in Nat
      BY <1>7, <1>8, <2>2 DEF Known
    <3>2. newest'[d.who].at >= newest[d.who].at /\ newest[d.who].at \in Nat /\ newest'[d.who].at \in Nat
      BY <1>1, <1>4, <1>5, <1>6, <3>1
    <3> QED BY <1>3, <3>1, <3>2 DEF Known
  <2> QED BY <2>1, <2>2
<1>10. (\A d, e \in Heard \cup under : d.at = e.at /\ d.at > 0 => d = e)'
  BY <1>3, <1>7 DEF PressInv
<1>11. (\A d \in under : Writing(d))'
  <2> SUFFICES ASSUME NEW d \in under \ {c} PROVE Writing(d)'
    BY <1>3
  <2>1. d.who \in People \ {p} /\ Writing(d)
    BY <1>2 DEF PressInv, SyncOK, ReaderTypeOK, Changes
  <2> QED BY <1>3, <1>4, <2>1 DEF Writing
<1>12. (\A d, e \in under : d.who = e.who => d = e)'
  BY <1>3 DEF PressInv
<1>13. (\A q \in People : Stands(q))'
  <2> SUFFICES ASSUME NEW q \in People PROVE Stands(q)'
    OBVIOUS
  <2>1. Stands(q)
    BY DEF PressInv
  <2>2. CASE q # p
    BY <1>3, <1>4, <2>1, <2>2 DEF Stands
  <2>3. CASE q = p /\ newest'[p] = c
    BY <1>1, <1>2, <1>3, <1>4, <2>1, <2>3 DEF Stands, Writing
  <2>4. CASE q = p /\ newest'[p] # c
    <3>1. newest'[p] = newest[p] /\ newest[p].at >= c.at
      BY <1>6, <2>4
    <3>2. newest[p].source # "cloud"
      <4>1. rows[p].at < c.at /\ rows[p].at \in Nat
        BY <1>1, <1>2, <2>4 DEF Writing, SyncOK, ReaderTypeOK, Changes
      <4> QED BY <1>1, <2>1, <2>4, <3>1, <4>1 DEF Stands
    <3> QED BY <1>2, <1>3, <1>4, <2>1, <2>4, <3>1, <3>2 DEF Stands
  <2> QED BY <2>2, <2>3, <2>4
<1>14. (\A w \in Workers : PulledOK(w))'
  BY <1>3 DEF PressInv, PulledOK
<1> QED BY <1>3, <1>9, <1>10, <1>11, <1>12, <1>13, <1>14 DEF PressInv

(* An event is there at once, and later than all of before *)
LEMMA PressTracks ==
  ASSUME SyncOK, PressInv, NEW p \in People, PressTracked(p)
  PROVE  PressInv'
<1>1. PICK c : c = Change(p, "unsubscribed", clock', "crawlproof")
  OBVIOUS
<1>2. clock' = clock + 1 /\ clock \in Nat
  BY SyncAssumption DEF PressTracked, SyncOK, ReaderTypeOK
<1>3. c.who = p /\ c.at = clock + 1 /\ c.source = "crawlproof" /\ c.state = "unsubscribed"
  BY <1>1, <1>2 DEF Change
<1>4. /\ events' = events \cup {c} /\ newest' = [newest EXCEPT ![p] = c]
      /\ UNCHANGED <<under, rows, optChanges, cursor, syncpc, pull>>
  BY <1>1 DEF PressTracked
<1>5. newest'[p] = c /\ \A q \in People \ {p} : newest'[q] = newest[q]
  BY <1>4 DEF SyncOK, ReaderTypeOK
<1>6. Heard' \subseteq Heard \cup {c}
  BY <1>4, <1>5 DEF Heard
<1>7. \A d \in Heard : d \in Changes /\ d.at \in Nat /\ d.who \in People /\ Known(d)
  BY HeardType DEF PressInv, Changes
<1>8. \A d \in under : d.at \in Nat /\ Writing(d)
  BY DEF PressInv, SyncOK, ReaderTypeOK, Changes
<1>9. (\A d \in Heard : Known(d))'
  <2> SUFFICES ASSUME NEW d \in Heard' PROVE Known(d)'
    OBVIOUS
  <2>1. CASE d = c
    BY <1>2, <1>3, <1>5, <2>1 DEF Known
  <2>2. CASE d # c
    <3>1. d.at <= clock /\ d.at <= newest[d.who].at /\ d.who \in People /\ d.at \in Nat
      BY <1>6, <1>7, <2>2 DEF Known
    <3>2. CASE d.who = p
      BY <1>2, <1>3, <1>5, <3>1, <3>2 DEF Known
    <3>3. CASE d.who # p
      BY <1>2, <1>5, <3>1, <3>3 DEF Known
    <3> QED BY <3>2, <3>3
  <2> QED BY <2>1, <2>2
<1>10. (\A d \in under : Writing(d))'
  BY <1>2, <1>4, <1>8 DEF Writing
<1>11. (\A d, e \in Heard \cup under : d.at = e.at /\ d.at > 0 => d = e)'
  <2>1. \A d \in Heard \cup under : d.at \in Nat /\ d.at <= clock
    BY <1>7, <1>8 DEF Known, Writing
  <2> QED BY <1>2, <1>3, <1>4, <1>6, <2>1 DEF PressInv
<1>12. (\A q \in People : Stands(q))'
  BY <1>3, <1>4, <1>5 DEF PressInv, Stands
<1>13. (\A d \in events : d.state = "unsubscribed" /\ d.at > 0)'
  BY <1>2, <1>3, <1>4 DEF PressInv
<1>14. (\A w \in Workers : PulledOK(w))'
  <2>1. \A w \in Workers : pull[w].newest \in Nat
    BY DEF SyncOK, PullTypeOK, Pulls
  <2> QED BY <1>2, <1>4, <2>1 DEF PressInv, PulledOK
<1>15. (cursor.cloud <= clock /\ cursor.crawlproof <= clock)'
  <2>1. cursor.cloud \in Nat /\ cursor.crawlproof \in Nat
    BY DEF SyncOK, ReaderTypeOK
  <2> QED BY <1>2, <1>4, <2>1 DEF PressInv
<1> QED BY <1>4, <1>9, <1>10, <1>11, <1>12, <1>13, <1>14, <1>15 DEF PressInv

(***************************************************************************)
(* The pulls                                                               *)
(***************************************************************************)
(* Where a worker goes, with what: all of it was pressed *)
Sound(where, t) ==
  /\ where \in SyncPlaces /\ t \in Pulls /\ t.contacts.out \subseteq t.contacts.known
  /\ where \in {"optCloud", "optCrawlproof"} => t.entries # <<>>
  /\ where = "optCloud" => Head(t.entries).who \in t.contacts.known
  /\ t.newest <= clock
  /\ \A c \in Among(t.entries) :
       c \in Heard /\ c.at > 0 /\ (where \in TrackedAt => c.state = "unsubscribed")

WorkerActs(w) ==
  \/ AskCloud(w) \/ HearCloud(w) \/ ClaimCloud(w) \/ OptCloud(w) \/ AdvanceCloud(w) \/ Fetch(w)
  \/ HearTracked(w) \/ ClaimTracked(w) \/ OptTracked(w) \/ AdvanceTracked(w) \/ SyncCrash(w)

LEMMA NothingIsSound ==
  ASSUME SyncOK, NEW where \in {"idle", "fetch"}
  PROVE  Sound(where, NoPull)
<1>1. NoPull \in Pulls /\ NoPull.contacts.out \subseteq NoPull.contacts.known /\ NoPull.newest = 0
  BY SyncAssumption DEF NoPull, Pulls, ContactFiles
<1>2. Among(NoPull.entries) = {}
  BY DEF NoPull, Among
<1>3. 0 <= clock
  BY DEF SyncOK, ReaderTypeOK
<1> QED BY <1>1, <1>2, <1>3 DEF Sound, SyncPlaces

(* The rows, and the events, that are newer than a cursor *)
LEMMA RowsAndEventsApart ==
  ASSUME SyncOK, PressInv, NEW S \in SUBSET Heard, \A c \in S : c.at > 0
  PROVE  S \in SUBSET Changes /\ Apart(S) /\ \A c \in S : c.at <= clock
BY HeardType DEF PressInv, Apart, Known

(* What asking the cloud is answered: a page that holds all there is between *)
(* the cursor and the newest of it                                           *)
LEMMA AskIs ==
  ASSUME SyncOK, PressInv, NEW w \in Workers, AskCloud(w)
  PROVE  \E where, t :
           /\ Moves(w, where, t) /\ Sound(where, t)
           /\ \/ where = "fetch"
              \/ /\ where = "asking"
                 /\ \A p \in People : rows[p].at > cursor.cloud /\ rows[p].at <= t.newest
                      => rows[p] \in Among(t.entries)
<1>1. PICK S : S = {rows[p] : p \in {q \in People : rows[q].at > cursor.cloud}}
  OBVIOUS
<1>2. cursor.cloud \in 0..MaxPresses /\ cursor.cloud <= clock /\ clock \in Nat
  BY SyncAssumption DEF SyncOK, ReaderTypeOK, PressInv
<1>3. \A p \in People : rows[p] \in Changes /\ rows[p].at \in Nat
  BY DEF SyncOK, ReaderTypeOK, Changes
<1>4. S \in SUBSET Heard /\ \A c \in S : c.at > 0 /\ c.at > cursor.cloud
  BY <1>1, <1>2, <1>3 DEF Heard
<1>5. S \in SUBSET Changes /\ Apart(S) /\ \A c \in S : c.at <= clock
  BY <1>4, RowsAndEventsApart
<1>6. PICK page : page = Page(InOrder(S))
  OBVIOUS
<1>7. /\ page \in Seq(Changes) /\ Among(page) \subseteq S /\ Last_(page) \in 0..MaxPresses
      /\ Last_(page) # 0 => \E c \in S : c.at = Last_(page)
      /\ \A c \in S : c.at <= Last_(page) => c \in Among(page)
  BY <1>4, <1>5, <1>6, PageIs
<1>8. PICK n : n = Larger(cursor.cloud, Last_(page))
  OBVIOUS
<1>9. n \in 0..MaxPresses /\ n <= clock /\ (n = cursor.cloud \/ n = Last_(page))
  BY <1>2, <1>5, <1>7, <1>8 DEF Larger
<1>10. PICK t : t = [NoPull EXCEPT !.entries = page, !.newest = n]
  OBVIOUS
<1>11. CASE Moves(w, "fetch", NoPull)
  BY <1>11, NothingIsSound
<1>12. CASE Moves(w, "asking", t)
  <2>1. t.entries = page /\ t.newest = n /\ t.contacts = [known |-> {}, out |-> {}]
    BY <1>10 DEF NoPull
  <2>2. t \in Pulls
    <3>1. t = [entries |-> page, contacts |-> [known |-> {}, out |-> {}], newest |-> n]
      BY <1>10 DEF NoPull
    <3>2. [known |-> {}, out |-> {}] \in ContactFiles
      BY DEF ContactFiles
    <3> QED BY <1>7, <1>9, <3>1, <3>2 DEF Pulls
  <2>3. Sound("asking", t)
    BY <1>4, <1>7, <1>9, <2>1, <2>2 DEF Sound, SyncPlaces, TrackedAt
  <2>4. \A p \in People : rows[p].at > cursor.cloud /\ rows[p].at <= t.newest => rows[p] \in Among(t.entries)
    <3> SUFFICES ASSUME NEW p \in People, rows[p].at > cursor.cloud, rows[p].at <= n
                 PROVE  rows[p] \in Among(page)
      BY <2>1
    <3>1. rows[p] \in S
      BY <1>1
    <3>2. n = Last_(page)
      BY <1>2, <1>3, <1>9
    <3> QED BY <1>7, <3>1, <3>2
  <2> QED BY <1>12, <2>3, <2>4
<1> QED BY <1>1, <1>6, <1>8, <1>10, <1>11, <1>12 DEF AskCloud

LEMMA FetchIs ==
  ASSUME SyncOK, PressInv, NEW w \in Workers, Fetch(w)
  PROVE  \E where, t :
           /\ Moves(w, where, t) /\ Sound(where, t)
           /\ \/ where = "idle"
              \/ /\ where = "fetching"
                 /\ \A c \in events : c.at > cursor.crawlproof => c \in Among(t.entries)
<1>1. PICK S : S = {c \in events : c.at > cursor.crawlproof}
  OBVIOUS
<1>2. cursor.crawlproof \in Nat
  BY DEF SyncOK, ReaderTypeOK
<1>3. S \in SUBSET Heard /\ \A c \in S : c.at > 0 /\ c.state = "unsubscribed"
  BY <1>1 DEF Heard, PressInv
<1>4. S \in SUBSET Changes /\ Apart(S) /\ \A c \in S : c.at <= clock
  BY <1>3, RowsAndEventsApart
<1>5. PICK all : all = InOrder(S)
  OBVIOUS
<1>6. all \in Seq(S) /\ Among(all) = S
  BY <1>4, <1>5, InOrderIs
<1>7. Last_(all) \in 0..MaxPresses /\ Last_(all) <= clock
  <2>1. clock \in Nat
    BY SyncAssumption DEF SyncOK, ReaderTypeOK
  <2>2. CASE all = <<>>
    BY <2>1, <2>2, SyncAssumption DEF Last_
  <2>3. CASE all # <<>>
    <3>1. all[Len(all)] \in S
      BY <1>6, <2>3
    <3> QED BY <1>4, <2>3, <3>1 DEF Last_, Changes
  <2> QED BY <2>2, <2>3
<1>8. PICK t : t = [NoPull EXCEPT !.entries = all, !.newest = Last_(all)]
  OBVIOUS
<1>9. CASE Moves(w, "idle", NoPull)
  BY <1>9, NothingIsSound
<1>10. CASE Moves(w, "fetching", t)
  <2>1. t = [entries |-> all, contacts |-> [known |-> {}, out |-> {}], newest |-> Last_(all)]
    BY <1>8 DEF NoPull
  <2>2. all \in Seq(Changes)
    BY <1>4, <1>6
  <2>3. [known |-> {}, out |-> {}] \in ContactFiles
    BY DEF ContactFiles
  <2>4. t \in Pulls
    BY <1>7, <2>1, <2>2, <2>3 DEF Pulls
  <2>5. Sound("fetching", t)
    BY <1>3, <1>6, <1>7, <2>1, <2>4 DEF Sound, SyncPlaces
  <2> QED BY <1>1, <1>6, <1>10, <2>1, <2>5
<1> QED BY <1>1, <1>5, <1>8, <1>9, <1>10 DEF Fetch

(* What was pulled stays sound while it is applied *)
LEMMA KeptIsSound ==
  ASSUME SyncOK, PressInv, NEW w \in Workers, NEW where \in SyncPlaces, NEW t \in Pulls,
         where \in TrackedAt => syncpc[w] \in TrackedAt,
         t.contacts.out \subseteq t.contacts.known, t.newest = pull[w].newest,
         Among(t.entries) \subseteq Among(pull[w].entries),
         where \in {"optCloud", "optCrawlproof"} => t.entries # <<>>,
         where = "optCloud" => Head(t.entries).who \in t.contacts.known
  PROVE  Sound(where, t)
<1>1. \A c \in Among(pull[w].entries) : c \in Heard
  BY DEF Heard
<1>2. PulledOK(w)
  BY DEF PressInv
<1> QED BY <1>1, <1>2 DEF Sound, PulledOK

LEMMA HearIs ==
  ASSUME SyncOK, PressInv, NEW w \in Workers, NEW where \in {"cloud", "crawlproof"},
         where = "crawlproof" => syncpc[w] = "fetching"
  PROVE  /\ Sound(where, [pull[w] EXCEPT !.contacts = contacts])
         /\ [pull[w] EXCEPT !.contacts = contacts].entries = pull[w].entries
         /\ [pull[w] EXCEPT !.contacts = contacts].newest = pull[w].newest
         /\ [pull[w] EXCEPT !.contacts = contacts].contacts = contacts
<1>1. pull[w] \in Pulls /\ contacts \in ContactFiles /\ contacts.out \subseteq contacts.known
  BY DEF SyncOK, PullTypeOK, FileTypeOK
<1>2. PICK t : t = [pull[w] EXCEPT !.contacts = contacts]
  OBVIOUS
<1>3. t \in Pulls /\ t.entries = pull[w].entries /\ t.newest = pull[w].newest /\ t.contacts = contacts
  BY <1>1, <1>2 DEF Pulls
<1>4. Sound(where, t)
  BY <1>1, <1>3, KeptIsSound DEF SyncPlaces, TrackedAt
<1> QED BY <1>2, <1>3, <1>4

LEMMA RestIs ==
  ASSUME SyncOK, PressInv, NEW w \in Workers, NEW where \in {"cloud", "crawlproof"},
         where = "crawlproof" => syncpc[w] \in TrackedAt, pull[w].entries # <<>>
  PROVE  /\ Sound(where, Rest(pull[w]))
         /\ \A f \in ContactFiles : f.out \subseteq f.known
              => Sound(where, [Rest(pull[w]) EXCEPT !.contacts = f])
<1>1. /\ pull[w] \in Pulls /\ pull[w].entries \in Seq(Changes)
      /\ pull[w].contacts.out \subseteq pull[w].contacts.known
  BY PullTypes DEF SyncOK
<1>2. PICK t : t = Rest(pull[w])
  OBVIOUS
<1>3. /\ t \in Pulls /\ t.entries = Tail(pull[w].entries)
      /\ t.contacts = pull[w].contacts /\ t.newest = pull[w].newest
      /\ \A f \in ContactFiles : [t EXCEPT !.contacts = f] \in Pulls
  BY <1>1, <1>2, RestType
<1>4. Among(t.entries) \subseteq Among(pull[w].entries)
  BY <1>1, <1>3, FirstAndRest
<1>5. Sound(where, t)
  BY <1>1, <1>3, <1>4, KeptIsSound DEF SyncPlaces, TrackedAt
<1>6. ASSUME NEW f \in ContactFiles, f.out \subseteq f.known
      PROVE  Sound(where, [t EXCEPT !.contacts = f])
  <2>1. PICK r : r = [t EXCEPT !.contacts = f]
    OBVIOUS
  <2>2. r \in Pulls /\ r.entries = t.entries /\ r.newest = t.newest /\ r.contacts = f
    BY <1>3, <1>6, <2>1 DEF Pulls
  <2>3. Sound(where, r)
    BY <1>3, <1>4, <1>6, <2>2, KeptIsSound DEF SyncPlaces, TrackedAt
  <2> QED BY <2>1, <2>3
<1> QED BY <1>2, <1>5, <1>6

(* What is claimed was heard, and of its own person *)
LEMMA FirstIs ==
  ASSUME SyncOK, PressInv, NEW w \in Workers, pull[w].entries # <<>>
  PROVE  /\ Head(pull[w].entries) \in Changes /\ Head(pull[w].entries) \in Heard
         /\ Head(pull[w].entries) \in Among(pull[w].entries)
         /\ Head(pull[w].entries).who \in People
<1>1. pull[w].entries \in Seq(Changes)
  BY PullTypes DEF SyncOK
<1>2. PICK s : s = pull[w].entries
  OBVIOUS
<1>3. Head(s) \in Changes /\ Head(s) \in Among(s)
  BY <1>1, <1>2, FirstAndRest
<1>4. Among(pull[w].entries) \subseteq Heard
  BY DEF Heard
<1> QED BY <1>2, <1>3, <1>4 DEF Changes

LEMMA PullStep ==
  ASSUME SyncOK, PressInv, NEW w \in Workers, NEW where, NEW t, Moves(w, where, t), Sound(where, t),
         FileTypeOK', crossed' \in BOOLEAN,
         UNCHANGED <<clock, under, rows, events, newest, outByHand, forgotten, missed>>,
         cursor' = cursor \/ \E s \in {"cloud", "crawlproof"} : Cursor(w, s),
         \A p \in People : \/ optChanges'[p] = optChanges[p]
                           \/ optChanges'[p] \in Heard /\ optChanges'[p].who = p
  PROVE  SyncOK' /\ PressInv'
<1>1. PullTypeOK'
  BY MovesType DEF Sound, SyncOK
<1>2. pull[w].newest \in 0..MaxPresses /\ pull[w].newest <= clock
  BY PullTypes DEF SyncOK, PressInv, PulledOK
<1>3. cursor \in [cloud : 0..MaxPresses, crawlproof : 0..MaxPresses]
  BY DEF SyncOK, ReaderTypeOK
<1>4. /\ cursor' \in [cloud : 0..MaxPresses, crawlproof : 0..MaxPresses]
      /\ cursor'.cloud <= clock /\ cursor'.crawlproof <= clock
  BY <1>2, <1>3 DEF Cursor, PressInv
<1>5. ReaderTypeOK'
  BY <1>4 DEF SyncOK, ReaderTypeOK
<1>6. /\ syncpc'[w] = where /\ pull'[w] = t
      /\ \A o \in Workers \ {w} : syncpc'[o] = syncpc[o] /\ pull'[o] = pull[o]
  BY DEF Moves, SyncOK, PullTypeOK
<1>7. \A c \in Among(t.entries) : c \in Heard
  BY DEF Sound
<1>8. Heard' \subseteq Heard
  <2> SUFFICES ASSUME NEW c \in Heard' PROVE c \in Heard
    OBVIOUS
  <2>1. CASE c \in events' \cup {rows'[p] : p \in People} \cup {newest'[p] : p \in People}
    BY <2>1 DEF Heard
  <2>2. CASE \E p \in People : c = optChanges'[p]
    BY <2>2 DEF Heard
  <2>3. CASE \E o \in Workers : c \in Among(pull'[o].entries)
    <3>1. PICK o \in Workers : c \in Among(pull'[o].entries)
      BY <2>3
    <3>2. CASE o = w
      BY <1>6, <1>7, <3>1, <3>2
    <3>3. CASE o # w
      <4>1. c \in Among(pull[o].entries)
        BY <1>6, <3>1, <3>3
      <4> QED BY <4>1 DEF Heard
    <3> QED BY <3>2, <3>3
  <2> QED BY <2>1, <2>2, <2>3 DEF Heard
<1>9. (\A c \in Heard : Known(c))'
  BY <1>8 DEF PressInv, Known
<1>10. (\A c \in under : Writing(c))'
  BY DEF PressInv, Writing
<1>11. (\A c, d \in Heard \cup under : c.at = d.at /\ c.at > 0 => c = d)'
  BY <1>8 DEF PressInv
<1>12. (\A p \in People : Stands(p))'
  BY DEF PressInv, Stands
<1>13. (\A o \in Workers : PulledOK(o))'
  BY <1>6 DEF PressInv, PulledOK, Sound
<1>14. PressInv'
  BY <1>4, <1>9, <1>10, <1>11, <1>12, <1>13 DEF PressInv
<1> QED BY <1>1, <1>5, <1>14 DEF SyncOK

(* An entry is claimed, or passed *)
LEMMA ClaimStep ==
  ASSUME SyncOK, PressInv, NEW w \in Workers, ClaimCloud(w) \/ ClaimTracked(w)
  PROVE  SyncOK' /\ PressInv'
<1>1. PICK c : c = Head(pull[w].entries)
  OBVIOUS
<1>2. /\ pull[w].entries # <<>> /\ pull[w].contacts.out \subseteq pull[w].contacts.known
      /\ c \in Changes /\ c \in Heard /\ c.who \in People
  BY <1>1, FirstIs, PullTypes DEF ClaimCloud, ClaimTracked, SyncOK
<1>3. /\ UNCHANGED <<clock, under, rows, events, newest, outByHand, forgotten, missed, cursor,
                     contacts, crossed>>
      /\ crossed \in BOOLEAN /\ FileTypeOK
  BY DEF ClaimCloud, ClaimTracked, SyncOK, ReaderTypeOK
<1>4. CASE optChanges' = optChanges /\ \E where \in {"cloud", "crawlproof"} :
             /\ where = "crawlproof" => syncpc[w] = "crawlproof"
             /\ Moves(w, where, Rest(pull[w]))
  <2>1. PICK where \in {"cloud", "crawlproof"} : /\ where = "crawlproof" => syncpc[w] = "crawlproof"
                                                 /\ Moves(w, where, Rest(pull[w]))
    BY <1>4
  <2>2. Sound(where, Rest(pull[w]))
    BY <1>2, <2>1, RestIs DEF TrackedAt
  <2>3. FileTypeOK'
    BY <1>3, <1>4 DEF FileTypeOK
  <2> QED BY <1>3, <1>4, <2>1, <2>2, <2>3, PullStep
<1>5. ASSUME optChanges' = [optChanges EXCEPT ![c.who] = c], NEW where, NEW t,
             Moves(w, where, t), Sound(where, t)
      PROVE  SyncOK' /\ PressInv'
  <2>1. FileTypeOK'
    BY <1>2, <1>3, <1>5 DEF FileTypeOK
  <2>2. \A p \in People : \/ optChanges'[p] = optChanges[p]
                          \/ optChanges'[p] \in Heard /\ optChanges'[p].who = p
    BY <1>2, <1>3, <1>5 DEF FileTypeOK
  <2> QED BY <1>3, <1>5, <2>1, <2>2, PullStep
<1>6. CASE ClaimCloud(w)
  <2>1. CASE c.who \in pull[w].contacts.known /\ Fresh(c)
    <3>1. pull[w] \in Pulls /\ syncpc[w] = "cloud"
      BY <1>6 DEF SyncOK, PullTypeOK, ClaimCloud
    <3>2. Sound("optCloud", pull[w])
      BY <1>1, <1>2, <2>1, <3>1, KeptIsSound DEF SyncPlaces, TrackedAt
    <3> QED BY <1>1, <1>5, <1>6, <2>1, <3>2 DEF ClaimCloud
  <2>2. CASE ~(c.who \in pull[w].contacts.known /\ Fresh(c))
    BY <1>1, <1>4, <1>6, <2>2 DEF ClaimCloud
  <2> QED BY <2>1, <2>2
<1>7. CASE ClaimTracked(w)
  <2>1. CASE Fresh(c)
    <3>1. PICK t : t = [pull[w] EXCEPT !.contacts = contacts]
      OBVIOUS
    <3>2. pull[w] \in Pulls /\ syncpc[w] = "crawlproof"
      BY <1>7 DEF SyncOK, PullTypeOK, ClaimTracked
    <3>3. contacts \in ContactFiles /\ contacts.out \subseteq contacts.known
      BY <1>3 DEF FileTypeOK
    <3>4. /\ t \in Pulls /\ t.entries = pull[w].entries /\ t.newest = pull[w].newest
          /\ t.contacts = contacts
      BY <3>1, <3>2, <3>3 DEF Pulls
    <3>5. Sound("optCrawlproof", t)
      BY <1>2, <3>2, <3>3, <3>4, KeptIsSound DEF SyncPlaces, TrackedAt
    <3> QED BY <1>1, <1>5, <1>7, <2>1, <3>1, <3>5 DEF ClaimTracked
  <2>2. CASE ~Fresh(c)
    BY <1>1, <1>4, <1>7, <2>2 DEF ClaimTracked
  <2> QED BY <2>1, <2>2
<1> QED BY <1>6, <1>7

(* ... and whose it is, opted out or in *)
LEMMA OptStep ==
  ASSUME SyncOK, PressInv, NEW w \in Workers, OptCloud(w) \/ OptTracked(w)
  PROVE  SyncOK' /\ PressInv'
<1>1. PICK c : c = Head(pull[w].entries)
  OBVIOUS
<1>2. PICK f : f = pull[w].contacts
  OBVIOUS
<1>3. PullOK(w)
  BY DEF SyncOK, PullTypeOK
<1>4. /\ pull[w].entries # <<>> /\ f \in ContactFiles /\ f.out \subseteq f.known
      /\ c \in Changes /\ c.who \in People
  BY <1>1, <1>2, <1>3, FirstIs, PullTypes DEF OptCloud, OptTracked, SyncOK, PullOK
<1>5. /\ UNCHANGED <<clock, under, rows, events, newest, outByHand, forgotten, missed, cursor,
                     optChanges, crossed>>
      /\ crossed \in BOOLEAN /\ FileTypeOK
  BY DEF OptCloud, OptTracked, SyncOK, ReaderTypeOK
<1>6. CASE OptCloud(w)
  <2>1. PICK now : now = IF c.state = "unsubscribed" THEN f.out \cup {c.who} ELSE f.out \ {c.who}
    OBVIOUS
  <2>2. PICK next : next = [f EXCEPT !.out = now]
    OBVIOUS
  <2>3. c.who \in f.known
    BY <1>1, <1>2, <1>3, <1>6 DEF OptCloud, PullOK
  <2>4. next \in ContactFiles /\ next.out = now /\ next.out \subseteq next.known
    BY <1>4, <2>1, <2>2, <2>3 DEF ContactFiles
  <2>5. /\ contacts' = IF now = f.out THEN contacts ELSE next
        /\ Moves(w, "cloud", [Rest(pull[w]) EXCEPT !.contacts = next])
    BY <1>1, <1>2, <1>6, <2>1, <2>2 DEF OptCloud
  <2>6. FileTypeOK'
    BY <1>5, <2>4, <2>5 DEF FileTypeOK
  <2>7. Sound("cloud", [Rest(pull[w]) EXCEPT !.contacts = next])
    BY <1>4, <2>4, RestIs
  <2> QED BY <1>5, <2>5, <2>6, <2>7, PullStep
<1>7. CASE OptTracked(w)
  <2>1. /\ contacts' = IF c.who \in f.out THEN contacts
                       ELSE [known |-> f.known \cup {c.who}, out |-> f.out \cup {c.who}]
        /\ Moves(w, "crawlproof", Rest(pull[w])) /\ syncpc[w] = "optCrawlproof"
    BY <1>1, <1>2, <1>7 DEF OptTracked
  <2>2. FileTypeOK'
    <3>1. [known |-> f.known \cup {c.who}, out |-> f.out \cup {c.who}] \in ContactFiles
      BY <1>4 DEF ContactFiles
    <3> QED BY <1>4, <1>5, <2>1, <3>1 DEF FileTypeOK
  <2>3. Sound("crawlproof", Rest(pull[w]))
    BY <1>4, <2>1, RestIs DEF TrackedAt
  <2> QED BY <1>5, <2>1, <2>2, <2>3, PullStep
<1> QED BY <1>6, <1>7

LEMMA OtherSyncStep ==
  ASSUME SyncOK, PressInv, NEW w \in Workers,
         \/ AskCloud(w) \/ HearCloud(w) \/ AdvanceCloud(w) \/ Fetch(w) \/ HearTracked(w)
         \/ AdvanceTracked(w) \/ SyncCrash(w)
  PROVE  SyncOK' /\ PressInv'
<1>1. /\ UNCHANGED <<clock, under, rows, events, newest, outByHand, forgotten, missed, optChanges,
                     contacts>>
      /\ crossed' \in BOOLEAN /\ FileTypeOK
  BY DEF AskCloud, HearCloud, AdvanceCloud, Fetch, HearTracked, AdvanceTracked, SyncCrash, SyncOK,
         ReaderTypeOK
<1>2. FileTypeOK'
  BY <1>1 DEF FileTypeOK
<1>3. cursor' = cursor \/ \E s \in {"cloud", "crawlproof"} : Cursor(w, s)
  BY DEF AskCloud, HearCloud, AdvanceCloud, Fetch, HearTracked, AdvanceTracked, SyncCrash
<1>4. \E where, t : Moves(w, where, t) /\ Sound(where, t)
  <2>1. CASE AskCloud(w)
    BY <2>1, AskIs
  <2>2. CASE Fetch(w)
    BY <2>2, FetchIs
  <2>3. CASE HearCloud(w) \/ HearTracked(w)
    BY <2>3, HearIs DEF HearCloud, HearTracked
  <2>4. CASE AdvanceCloud(w) \/ AdvanceTracked(w) \/ SyncCrash(w)
    BY <2>4, NothingIsSound DEF AdvanceCloud, AdvanceTracked, SyncCrash
  <2> QED BY <2>1, <2>2, <2>3, <2>4
<1> QED BY <1>1, <1>2, <1>3, <1>4, PullStep

LEMMA SyncStep == SyncOK /\ PressInv /\ [SyncNext]_<<syncVars, faults>> => SyncOK' /\ PressInv'
<1> SUFFICES ASSUME SyncOK, PressInv, [SyncNext]_<<syncVars, faults>> PROVE SyncOK' /\ PressInv'
  OBVIOUS
<1>1. CASE UNCHANGED <<syncVars, faults>>
  <2>1. SyncOK'
    BY <1>1 DEF syncVars, SyncOK, ReaderTypeOK, FileTypeOK, PullTypeOK, PullOK
  <2>2. UNCHANGED <<clock, under, rows, events, optChanges, cursor, syncpc, pull, newest>>
    BY <1>1 DEF syncVars
  <2>3. Heard' = Heard
    BY <2>2 DEF Heard
  <2>4. PressInv'
    BY <2>2, <2>3 DEF PressInv, Known, Writing, Stands, PulledOK
  <2> QED BY <2>1, <2>4
<1>2. ASSUME NEW w \in Workers, WorkerActs(w) PROVE SyncOK' /\ PressInv'
  BY <1>2, ClaimStep, OptStep, OtherSyncStep DEF WorkerActs
<1>3. ASSUME NEW p \in People, OptOutByHand(p) \/ RemoveContact(p) \/ AddContact(p)
      PROVE  SyncOK' /\ PressInv'
  <2>1. UNCHANGED <<clock, under, rows, events, optChanges, cursor, syncpc, pull, newest>>
    BY <1>3 DEF OptOutByHand, RemoveContact, AddContact
  <2>2. Heard' = Heard
    BY <2>1 DEF Heard
  <2>3. PressInv'
    BY <2>1, <2>2 DEF PressInv, Known, Writing, Stands, PulledOK
  <2> QED BY <1>3, <2>3, ReaderType
<1>4. ASSUME NEW p \in People,
             (\E s \in {"unsubscribed", "resubscribed"} : Press(p, s)) \/ PressTracked(p)
      PROVE  SyncOK' /\ PressInv'
  BY <1>4, ReaderType, PressBegins, PressTracks
<1>5. ASSUME NEW c \in under, Pressed(c) PROVE SyncOK' /\ PressInv'
  BY <1>5, ReaderType, PressEnds
<1> QED BY <1>1, <1>2, <1>3, <1>4, <1>5 DEF SyncNext, WorkerActs

LEMMA SyncOKIsType == SyncOK /\ PressInv => SyncTypeOK
<1> SUFFICES ASSUME SyncOK, PressInv PROVE SyncTypeOK
  OBVIOUS
<1>1. \A p \in People : optChanges[p].who = p /\ optChanges[p].at <= newest[p].at
  <2>1. \A p \in People : optChanges[p] \in Heard /\ Stands(p)
    BY DEF Heard, PressInv
  <2> QED BY <2>1 DEF PressInv, Known, Stands
<1>2. \A w \in Workers : /\ pull[w].entries \in Seq(Changes)
                         /\ pull[w].contacts \in ContactFiles
                         /\ pull[w].newest \in 0..MaxPresses
  BY PullTypes DEF SyncOK
<1> QED BY <1>1, <1>2 DEF SyncOK, ReaderTypeOK, FileTypeOK, PullTypeOK, SyncPlaces, SyncTypeOK

(* Every variable of the unsubscribes keeps its type; only contacts are      *)
(* opted out, and what was claimed of somebody is a press of theirs.         *)
THEOREM SyncTypeCorrect == SyncSpec => []SyncTypeOK
<1> QED BY SyncInitType, PressInit, SyncStep, SyncOKIsType, PTL DEF SyncSpec

(***************************************************************************)
(* One process at a time applies, to the contacts as they are              *)
(***************************************************************************)
(* The contacts are what the pull holds, and what is applied is claimed *)
AsPulled(w) ==
  /\ syncpc[w] \in {"cloud", "optCloud", "optCrawlproof"} => pull[w].contacts = contacts
  /\ syncpc[w] \in {"optCloud", "optCrawlproof"} =>
       optChanges[Head(pull[w].entries).who] = Head(pull[w].entries)

ContactInv ==
  /\ \A v, w \in Applying : v = w
  /\ \A w \in Workers : AsPulled(w)
  /\ People \ forgotten \subseteq contacts.known

LEMMA ContactInit == SyncInit => ContactInv
BY DEF SyncInit, ContactInv, AsPulled, Applying

LEMMA OthersPull ==
  ASSUME SyncOK, NEW w \in Workers, NEW where, NEW t, Moves(w, where, t)
  PROVE  /\ syncpc'[w] = where /\ pull'[w] = t
         /\ \A o \in Workers \ {w} : syncpc'[o] = syncpc[o] /\ pull'[o] = pull[o]
BY DEF Moves, SyncOK, PullTypeOK

(* What an opt does to the contacts, and to whom *)
LEMMA OptIs ==
  ASSUME SyncOK, PressInv, ContactInv, NEW w \in Workers, OptCloud(w) \/ OptTracked(w),
         NEW c, c = Head(pull[w].entries)
  PROVE  /\ optChanges[c.who] = c /\ UNCHANGED <<optChanges, newest, outByHand, forgotten, missed, cursor>>
         /\ contacts.known \subseteq contacts'.known
         /\ contacts'.out = IF c.state = "unsubscribed" THEN contacts.out \cup {c.who}
                                                        ELSE contacts.out \ {c.who}
         /\ OptCloud(w) => \E t : Moves(w, "cloud", t) /\ t.contacts = contacts'
                                  /\ t.entries = Tail(pull[w].entries) /\ t.newest = pull[w].newest
         /\ OptTracked(w) => \E t : Moves(w, "crawlproof", t)
                                  /\ t.entries = Tail(pull[w].entries) /\ t.newest = pull[w].newest
<1>1. AsPulled(w) /\ PullOK(w) /\ pull[w] \in Pulls /\ contacts \in ContactFiles
  BY DEF ContactInv, SyncOK, PullTypeOK, FileTypeOK
<1>2. /\ optChanges[c.who] = c /\ pull[w].contacts = contacts /\ pull[w].entries # <<>>
      /\ UNCHANGED <<optChanges, newest, outByHand, forgotten, missed, cursor>>
  BY <1>1 DEF OptCloud, OptTracked, AsPulled, PullOK
<1>3. PICK r : r = Rest(pull[w])
  OBVIOUS
<1>4. /\ r \in Pulls /\ r.entries = Tail(pull[w].entries) /\ r.newest = pull[w].newest
  BY <1>1, <1>2, <1>3, RestType
<1>5. CASE OptCloud(w)
  <2>1. PICK now : now = IF c.state = "unsubscribed" THEN contacts.out \cup {c.who}
                                                     ELSE contacts.out \ {c.who}
    OBVIOUS
  <2>2. PICK next : next = [contacts EXCEPT !.out = now]
    OBVIOUS
  <2>3. /\ contacts' = IF now = contacts.out THEN contacts ELSE next
        /\ Moves(w, "cloud", [r EXCEPT !.contacts = next]) /\ syncpc[w] = "optCloud"
    BY <1>2, <1>3, <1>5, <2>1, <2>2 DEF OptCloud
  <2>4. /\ next.out = now /\ next.known = contacts.known
        /\ now = contacts.out => next = contacts
    BY <1>1, <2>2 DEF ContactFiles
  <2>5. contacts' = next
    BY <2>3, <2>4
  <2>6. PICK t : t = [r EXCEPT !.contacts = next]
    OBVIOUS
  <2>7. t.contacts = next /\ t.entries = r.entries /\ t.newest = r.newest
    BY <1>4, <2>6 DEF Pulls
  <2> QED BY <1>2, <1>4, <1>5, <2>1, <2>3, <2>4, <2>5, <2>6, <2>7 DEF OptTracked
<1>6. CASE OptTracked(w)
  <2>1. /\ contacts' = IF c.who \in contacts.out THEN contacts
                       ELSE [known |-> contacts.known \cup {c.who}, out |-> contacts.out \cup {c.who}]
        /\ Moves(w, "crawlproof", r) /\ syncpc[w] = "optCrawlproof"
    BY <1>2, <1>3, <1>6 DEF OptTracked
  <2>2. c.state = "unsubscribed"
    <3>1. c \in Among(pull[w].entries)
      BY <1>2, FirstIs
    <3> QED BY <2>1, <3>1 DEF PressInv, PulledOK, TrackedAt
  <2> QED BY <1>2, <1>4, <1>6, <2>1, <2>2 DEF OptCloud
<1> QED BY <1>5, <1>6

(* A worker that comes to nothing that is applied *)
LEMMA ContactsLeft ==
  ASSUME SyncOK, ContactInv, NEW w \in Workers,
         NEW where \in {"idle", "asking", "fetch", "fetching"}, NEW t, Moves(w, where, t),
         UNCHANGED <<contacts, optChanges, forgotten>>
  PROVE  ContactInv'
<1>1. /\ syncpc'[w] = where
      /\ \A o \in Workers \ {w} : syncpc'[o] = syncpc[o] /\ pull'[o] = pull[o]
  BY OthersPull
<1>2. Applying' \subseteq Applying
  BY <1>1 DEF Applying
<1>3. \A o \in Workers : AsPulled(o)'
  BY <1>1 DEF ContactInv, AsPulled
<1> QED BY <1>2, <1>3 DEF ContactInv

(* A worker that applies, and is the only one *)
LEMMA ContactsApplied ==
  ASSUME SyncOK, ContactInv, NEW w \in Workers, NEW where, NEW t, Moves(w, where, t),
         Applying \subseteq {w}, AsPulled(w)',
         forgotten' = forgotten, contacts.known \subseteq contacts'.known
  PROVE  ContactInv'
<1>1. \A o \in Workers \ {w} : syncpc'[o] = syncpc[o] /\ o \notin Applying
  BY OthersPull
<1>2. Applying' \subseteq {w}
  BY <1>1 DEF Applying
<1>3. ASSUME NEW o \in Workers \ {w}
      PROVE  AsPulled(o)'
  BY <1>1 DEF AsPulled, Applying
<1>4. (\A o \in Workers : AsPulled(o))'
  BY <1>3
<1>5. People \ forgotten' \subseteq contacts'.known
  BY DEF ContactInv
<1> QED BY <1>2, <1>4, <1>5 DEF ContactInv

LEMMA ContactWorker ==
  ASSUME SyncOK, PressInv, ContactInv, NEW w \in Workers, WorkerActs(w), ~crossed'
  PROVE  ContactInv'
<1>1. CASE AskCloud(w) \/ AdvanceCloud(w) \/ Fetch(w) \/ AdvanceTracked(w) \/ SyncCrash(w)
  <2>1. /\ UNCHANGED <<contacts, optChanges, forgotten>>
        /\ \E where \in {"idle", "asking", "fetch", "fetching"} : \E t : Moves(w, where, t)
    BY <1>1 DEF AskCloud, AdvanceCloud, Fetch, AdvanceTracked, SyncCrash
  <2> QED BY <2>1, ContactsLeft
<1>2. CASE HearCloud(w) \/ HearTracked(w)
  <2>1. Applying = {} /\ UNCHANGED <<contacts, optChanges, forgotten>>
    BY <1>2 DEF HearCloud, HearTracked
  <2>2. PICK t : t = [pull[w] EXCEPT !.contacts = contacts]
    OBVIOUS
  <2>3. PICK where \in {"cloud", "crawlproof"} : Moves(w, where, t)
    BY <1>2, <2>2 DEF HearCloud, HearTracked
  <2>4. t.contacts = contacts
    <3>1. pull[w] \in Pulls
      BY DEF SyncOK, PullTypeOK
    <3> QED BY <2>2, <3>1 DEF Pulls
  <2>5. AsPulled(w)'
    BY <2>1, <2>3, <2>4, OthersPull DEF AsPulled
  <2> QED BY <2>1, <2>3, <2>5, ContactsApplied
<1>3. CASE ClaimCloud(w) \/ ClaimTracked(w)
  <2>1. PICK c : c = Head(pull[w].entries)
    OBVIOUS
  <2>2. /\ pull[w].entries # <<>> /\ c.who \in People /\ pull[w] \in Pulls
        /\ UNCHANGED <<contacts, forgotten>> /\ AsPulled(w) /\ optChanges \in [People -> Changes]
    BY <1>3, <2>1, FirstIs DEF ClaimCloud, ClaimTracked, ContactInv, SyncOK, PullTypeOK, FileTypeOK
  <2>3. Applying \subseteq {w}
    BY <1>3 DEF ClaimCloud, ClaimTracked, ContactInv, Applying
  <2>4. CASE ClaimCloud(w)
    <3>1. pull[w].contacts = contacts
      BY <2>2, <2>4 DEF ClaimCloud, AsPulled
    <3>2. CASE Moves(w, "optCloud", pull[w]) /\ optChanges' = [optChanges EXCEPT ![c.who] = c]
      <4>1. optChanges'[c.who] = c
        BY <2>2, <3>2
      <4>2. syncpc'[w] = "optCloud" /\ pull'[w] = pull[w]
        BY <3>2, OthersPull
      <4>3. AsPulled(w)'
        BY <2>1, <2>2, <3>1, <4>1, <4>2 DEF AsPulled
      <4> QED BY <2>2, <2>3, <3>2, <4>3, ContactsApplied
    <3>3. CASE Moves(w, "cloud", Rest(pull[w]))
      <4>1. Rest(pull[w]).contacts = contacts
        BY <2>2, <3>1, RestType
      <4>2. AsPulled(w)'
        BY <2>2, <3>3, <4>1, OthersPull DEF AsPulled
      <4> QED BY <2>2, <2>3, <3>3, <4>2, ContactsApplied
    <3> QED BY <2>1, <2>4, <3>2, <3>3 DEF ClaimCloud
  <2>5. CASE ClaimTracked(w)
    <3>1. PICK t : t = [pull[w] EXCEPT !.contacts = contacts]
      OBVIOUS
    <3>2. t.contacts = contacts /\ t.entries = pull[w].entries
      BY <2>2, <3>1 DEF Pulls
    <3>3. CASE Moves(w, "optCrawlproof", t) /\ optChanges' = [optChanges EXCEPT ![c.who] = c]
      <4>1. optChanges'[c.who] = c
        BY <2>2, <3>3
      <4>2. syncpc'[w] = "optCrawlproof" /\ pull'[w] = t
        BY <3>3, OthersPull
      <4>3. AsPulled(w)'
        BY <2>1, <2>2, <3>2, <4>1, <4>2 DEF AsPulled
      <4> QED BY <2>2, <2>3, <3>3, <4>3, ContactsApplied
    <3>4. CASE Moves(w, "crawlproof", Rest(pull[w]))
      <4>1. AsPulled(w)'
        BY <3>4, OthersPull DEF AsPulled
      <4> QED BY <2>2, <2>3, <3>4, <4>1, ContactsApplied
    <3> QED BY <2>1, <2>5, <3>1, <3>3, <3>4 DEF ClaimTracked
  <2> QED BY <1>3, <2>4, <2>5
<1>4. CASE OptCloud(w) \/ OptTracked(w)
  <2>1. Applying \subseteq {w} /\ forgotten' = forgotten
    BY <1>4 DEF OptCloud, OptTracked, ContactInv, Applying
  <2>2. contacts.known \subseteq contacts'.known
    BY <1>4, OptIs
  <2>3. CASE OptCloud(w)
    <3>1. PICK t : Moves(w, "cloud", t) /\ t.contacts = contacts'
      BY <2>3, OptIs
    <3>2. AsPulled(w)'
      BY <3>1, OthersPull DEF AsPulled
    <3> QED BY <2>1, <2>2, <3>1, <3>2, ContactsApplied
  <2>4. CASE OptTracked(w)
    <3>1. PICK t : Moves(w, "crawlproof", t)
      BY <2>4, OptIs
    <3>2. AsPulled(w)'
      BY <3>1, OthersPull DEF AsPulled
    <3> QED BY <2>1, <2>2, <3>1, <3>2, ContactsApplied
  <2> QED BY <1>4, <2>3, <2>4
<1> QED BY <1>1, <1>2, <1>3, <1>4 DEF WorkerActs

LEMMA ContactReader ==
  ASSUME SyncOK, ContactInv, ~crossed',
         \/ \E p \in People : \/ \E s \in {"unsubscribed", "resubscribed"} : Press(p, s)
                              \/ PressTracked(p) \/ OptOutByHand(p) \/ RemoveContact(p) \/ AddContact(p)
         \/ \E c \in under : Pressed(c)
  PROVE  ContactInv'
<1>1. CASE UNCHANGED <<contacts, optChanges, syncpc, pull, forgotten>>
  BY <1>1 DEF ContactInv, AsPulled, Applying
<1>2. ASSUME NEW p \in People, OptOutByHand(p) \/ RemoveContact(p) \/ AddContact(p)
      PROVE  ContactInv'
  <2>1. Applying = {} /\ UNCHANGED <<syncpc, pull, optChanges>>
    BY <1>2 DEF OptOutByHand, RemoveContact, AddContact
  <2>2. Applying' = {}
    BY <2>1 DEF Applying
  <2>3. (\A w \in Workers : AsPulled(w))'
    BY <2>2 DEF AsPulled, Applying
  <2>4. People \ forgotten' \subseteq contacts'.known
    BY <1>2 DEF OptOutByHand, RemoveContact, AddContact, ContactInv, SyncOK, FileTypeOK, ContactFiles
  <2> QED BY <2>2, <2>3, <2>4 DEF ContactInv
<1> QED BY <1>1, <1>2 DEF Press, PressTracked, Pressed

(***************************************************************************)
(* What a cursor or a pull is past                                         *)
(***************************************************************************)
(* The newest press of somebody is claimed, and they are opted out or in *)
Settled(p) ==
  /\ optChanges[p] = newest[p]
  /\ IF newest[p].state = "unsubscribed" THEN p \in contacts.out
                                         ELSE p \in contacts.out => p \in outByHand

(* The newest press is of that source, and not after a time; none excuses it *)
Due(p, source, at) ==
  p \notin forgotten \cup missed /\ newest[p].source = source /\ newest[p].at <= at

Sources == {"cloud", "crawlproof"}
CloudAt == {"asking", "cloud", "optCloud"}

CursorCovers == \A p \in People, s \in Sources : Due(p, s, cursor[s]) => Settled(p)

PullCovers(w) ==
  \A p \in People :
    \/ syncpc[w] \in CloudAt /\ Due(p, "cloud", pull[w].newest)
    \/ syncpc[w] \in TrackedAt /\ Due(p, "crawlproof", pull[w].newest)
    => Settled(p) \/ newest[p] \in Among(pull[w].entries)

CoverInv == CursorCovers /\ \A w \in Workers : PullCovers(w)

LEMMA CoverInit == SyncInit => CoverInv
BY DEF SyncInit, CoverInv, CursorCovers, PullCovers, Due, Sources, NoChange, Change

(* What is settled stays settled, whatever a worker applies: nothing older  *)
(* is fresh, and what is as new is the same press                           *)
LEMMA ClaimKeepsSettled ==
  ASSUME SyncOK, PressInv, NEW w \in Workers, ClaimCloud(w) \/ ClaimTracked(w),
         NEW p \in People, Settled(p)
  PROVE  Settled(p)'
<1>1. PICK c : c = Head(pull[w].entries)
  OBVIOUS
<1>2. /\ pull[w].entries # <<>> /\ c \in Heard /\ c \in Among(pull[w].entries) /\ c.who \in People
      /\ UNCHANGED <<newest, contacts, outByHand>> /\ optChanges \in [People -> Changes]
      /\ optChanges' # optChanges => Fresh(c) /\ optChanges' = [optChanges EXCEPT ![c.who] = c]
  <2>1. pull[w].entries # <<>> /\ optChanges \in [People -> Changes]
    BY DEF ClaimCloud, ClaimTracked, SyncOK, FileTypeOK
  <2>2. c \in Heard /\ c \in Among(pull[w].entries) /\ c.who \in People
    BY <1>1, <2>1, FirstIs
  <2> QED BY <1>1, <2>1, <2>2 DEF ClaimCloud, ClaimTracked
<1>3. ASSUME optChanges' # optChanges, c.who = p
      PROVE  optChanges'[p] = newest[p]
  <2>1. Fresh(c) /\ optChanges'[p] = c
    BY <1>2, <1>3
  <2>2. c.at >= newest[p].at
    BY <1>3, <2>1 DEF Fresh, Settled
  <2>3. c.at <= newest[p].at /\ c.at > 0
    BY <1>2, <1>3 DEF PressInv, Known, PulledOK
  <2>4. c.at \in Nat /\ newest[p].at \in Nat /\ newest[p] \in Heard
    BY <1>2, HeardType DEF SyncOK, ReaderTypeOK, Changes, Heard
  <2>5. c.at = newest[p].at
    BY <2>2, <2>3, <2>4
  <2>6. c = newest[p]
    BY <1>2, <2>3, <2>4, <2>5 DEF PressInv
  <2> QED BY <2>1, <2>6
<1>4. optChanges'[p] = newest[p]
  <2>1. CASE optChanges' = optChanges \/ c.who # p
    BY <1>2, <2>1 DEF Settled
  <2>2. CASE optChanges' # optChanges /\ c.who = p
    BY <1>3, <2>2
  <2> QED BY <2>1, <2>2
<1> QED BY <1>2, <1>4 DEF Settled

LEMMA OptSettles ==
  ASSUME SyncOK, PressInv, ContactInv, NEW w \in Workers, OptCloud(w) \/ OptTracked(w),
         NEW p \in People, Settled(p) \/ newest[p] = Head(pull[w].entries)
  PROVE  Settled(p)'
<1>1. PICK c : c = Head(pull[w].entries)
  OBVIOUS
<1>2. /\ optChanges[c.who] = c /\ UNCHANGED <<optChanges, newest, outByHand>>
      /\ contacts'.out = IF c.state = "unsubscribed" THEN contacts.out \cup {c.who}
                                                     ELSE contacts.out \ {c.who}
  BY <1>1, OptIs
<1>3. newest[p].who = p
  BY DEF PressInv, Stands
<1>4. CASE c.who = p
  <2>1. newest[p] = c
    BY <1>1, <1>2, <1>4 DEF Settled
  <2> QED BY <1>2, <1>4, <2>1 DEF Settled
<1>5. CASE c.who # p
  BY <1>1, <1>2, <1>3, <1>5 DEF Settled
<1> QED BY <1>4, <1>5

(* A worker's step that keeps what is settled, and covers what it is past *)
LEMMA CoversKept ==
  ASSUME SyncOK, CoverInv, NEW w \in Workers, NEW where, NEW t, Moves(w, where, t),
         UNCHANGED <<newest, forgotten, missed>>,
         \A p \in People : Settled(p) => Settled(p)',
         CursorCovers', PullCovers(w)'
  PROVE  CoverInv'
<1>1. \A o \in Workers \ {w} : syncpc'[o] = syncpc[o] /\ pull'[o] = pull[o]
  BY OthersPull
<1>2. ASSUME NEW o \in Workers \ {w}
      PROVE  PullCovers(o)'
  BY <1>1 DEF CoverInv, PullCovers, Due
<1> QED BY <1>2 DEF CoverInv

LEMMA CursorKept ==
  ASSUME CoverInv, UNCHANGED <<newest, forgotten, missed, cursor>>,
         \A p \in People : Settled(p) => Settled(p)'
  PROVE  CursorCovers'
BY DEF CoverInv, CursorCovers, Due

(* What is asked for, and what was asked *)
LEMMA CoverAsk ==
  ASSUME SyncOK, PressInv, CoverInv, NEW w \in Workers, AskCloud(w) \/ Fetch(w)
  PROVE  CoverInv'
<1>1. UNCHANGED <<newest, forgotten, missed, cursor, optChanges, contacts, outByHand>>
  BY DEF AskCloud, Fetch
<1>2. \A p \in People : Settled(p)' <=> Settled(p)
  BY <1>1 DEF Settled
<1>3. CursorCovers'
  BY <1>1, <1>2, CursorKept
<1>4. ASSUME NEW p \in People
      PROVE  /\ Stands(p) /\ newest[p].at \in Nat
             /\ cursor.cloud \in Nat /\ cursor.crawlproof \in Nat
             /\ Due(p, "cloud", cursor.cloud) => Settled(p)
             /\ Due(p, "crawlproof", cursor.crawlproof) => Settled(p)
  BY DEF PressInv, SyncOK, ReaderTypeOK, Changes, CoverInv, CursorCovers, Sources
<1>5. CASE AskCloud(w)
  <2>1. PICK where, t :
          /\ Moves(w, where, t) /\ Sound(where, t)
          /\ \/ where = "fetch"
             \/ /\ where = "asking"
                /\ \A p \in People : rows[p].at > cursor.cloud /\ rows[p].at <= t.newest
                     => rows[p] \in Among(t.entries)
    BY <1>5, AskIs
  <2>2. syncpc'[w] = where /\ pull'[w] = t
    BY <2>1, OthersPull
  <2>3. PullCovers(w)'
    <3> SUFFICES ASSUME NEW p \in People, where = "asking", Due(p, "cloud", t.newest)
                 PROVE  Settled(p) \/ newest[p] \in Among(t.entries)
      BY <1>1, <1>2, <2>1, <2>2 DEF PullCovers, Due, CloudAt, TrackedAt
    <3>1. newest[p] = rows[p] /\ newest[p].at <= t.newest
      BY <1>4 DEF Due, Stands
    <3>2. CASE newest[p].at <= cursor.cloud
      BY <1>4, <3>2 DEF Due
    <3>3. CASE newest[p].at > cursor.cloud
      BY <2>1, <3>1, <3>3
    <3> QED BY <1>4, <3>2, <3>3
  <2> QED BY <1>1, <1>2, <1>3, <2>1, <2>3, CoversKept
<1>6. CASE Fetch(w)
  <2>1. PICK where, t :
          /\ Moves(w, where, t) /\ Sound(where, t)
          /\ \/ where = "idle"
             \/ /\ where = "fetching"
                /\ \A c \in events : c.at > cursor.crawlproof => c \in Among(t.entries)
    BY <1>6, FetchIs
  <2>2. syncpc'[w] = where /\ pull'[w] = t
    BY <2>1, OthersPull
  <2>3. PullCovers(w)'
    <3> SUFFICES ASSUME NEW p \in People, where = "fetching", Due(p, "crawlproof", t.newest)
                 PROVE  Settled(p) \/ newest[p] \in Among(t.entries)
      BY <1>1, <1>2, <2>1, <2>2 DEF PullCovers, Due, CloudAt, TrackedAt
    <3>1. newest[p] \in events
      BY <1>4 DEF Due, Stands
    <3>2. CASE newest[p].at <= cursor.crawlproof
      BY <1>4, <3>2 DEF Due
    <3>3. CASE newest[p].at > cursor.crawlproof
      BY <2>1, <3>1, <3>3
    <3> QED BY <1>4, <3>2, <3>3
  <2> QED BY <1>1, <1>2, <1>3, <2>1, <2>3, CoversKept
<1> QED BY <1>5, <1>6

LEMMA CoverHear ==
  ASSUME SyncOK, CoverInv, NEW w \in Workers, HearCloud(w) \/ HearTracked(w) \/ SyncCrash(w)
  PROVE  CoverInv'
<1>1. UNCHANGED <<newest, forgotten, missed, cursor, optChanges, contacts, outByHand>>
  BY DEF HearCloud, HearTracked, SyncCrash
<1>2. \A p \in People : Settled(p)' <=> Settled(p)
  BY <1>1 DEF Settled
<1>3. CursorCovers'
  BY <1>1, <1>2, CursorKept
<1>4. PICK where, t :
        /\ Moves(w, where, t)
        /\ \/ where = "idle"
           \/ /\ <<syncpc[w], where>> \in {<<"asking", "cloud">>, <<"fetching", "crawlproof">>}
              /\ t = [pull[w] EXCEPT !.contacts = contacts]
  <2>1. CASE HearCloud(w) \/ HearTracked(w)
    BY <2>1 DEF HearCloud, HearTracked
  <2>2. CASE SyncCrash(w)
    BY <2>2 DEF SyncCrash
  <2> QED BY <2>1, <2>2
<1>5. syncpc'[w] = where /\ pull'[w] = t
  BY <1>4, OthersPull
<1>6. where # "idle" => t.entries = pull[w].entries /\ t.newest = pull[w].newest
  BY <1>4 DEF SyncOK, PullTypeOK, Pulls
<1>7. PullCovers(w)'
  BY <1>1, <1>2, <1>4, <1>5, <1>6 DEF CoverInv, PullCovers, Due, CloudAt, TrackedAt
<1> QED BY <1>1, <1>2, <1>3, <1>4, <1>7, CoversKept

(* The newest press of a contact that is there is never passed *)
LEMMA NewestIsFresh ==
  ASSUME SyncOK, PressInv, NEW p \in People
  PROVE  newest[p].who = p /\ Fresh(newest[p])
<1>1. optChanges[p] \in Heard /\ Stands(p)
  BY DEF Heard, PressInv
<1>2. optChanges[p].at <= newest[p].at
  BY <1>1 DEF PressInv, Known, Stands
<1>3. optChanges[p].at \in Nat /\ newest[p].at \in Nat
  BY DEF SyncOK, ReaderTypeOK, FileTypeOK, Changes
<1> QED BY <1>1, <1>2, <1>3 DEF Fresh, Stands

LEMMA CoverClaim ==
  ASSUME SyncOK, PressInv, ContactInv, CoverInv, NEW w \in Workers, ClaimCloud(w) \/ ClaimTracked(w)
  PROVE  CoverInv'
<1>1. PICK c : c = Head(pull[w].entries)
  OBVIOUS
<1>2. /\ UNCHANGED <<newest, forgotten, missed, cursor, contacts, outByHand>>
      /\ pull[w] \in Pulls /\ pull[w].entries # <<>> /\ AsPulled(w)
  BY DEF ClaimCloud, ClaimTracked, SyncOK, PullTypeOK, ContactInv
<1>3. \A p \in People : Settled(p) => Settled(p)'
  BY ClaimKeepsSettled
<1>4. CursorCovers'
  BY <1>2, <1>3, CursorKept
<1>5. pull[w].entries \in Seq(Changes)
  BY <1>2 DEF Pulls
<1>6. Among(pull[w].entries) \subseteq {c} \cup Among(Tail(pull[w].entries))
  BY <1>1, <1>2, <1>5, FirstAndRest
<1>7. PICK where, t :
        /\ Moves(w, where, t) /\ t.newest = pull[w].newest
        /\ where \in CloudAt => syncpc[w] \in CloudAt
        /\ where \in TrackedAt => syncpc[w] \in TrackedAt
        /\ \/ t.entries = pull[w].entries
           \/ /\ t.entries = Tail(pull[w].entries)
              /\ ~Fresh(c) \/ c.who \notin contacts.known
  <2>1. CASE ClaimCloud(w)
    <3>1. pull[w].contacts = contacts /\ syncpc[w] = "cloud"
      BY <1>2, <2>1 DEF ClaimCloud, AsPulled
    <3>2. CASE c.who \in contacts.known /\ Fresh(c)
      <4>1. Moves(w, "optCloud", pull[w])
        BY <1>1, <2>1, <3>1, <3>2 DEF ClaimCloud
      <4> QED BY <3>1, <4>1 DEF CloudAt, TrackedAt
    <3>3. CASE ~(c.who \in contacts.known /\ Fresh(c))
      <4>1. Moves(w, "cloud", Rest(pull[w]))
        BY <1>1, <2>1, <3>1, <3>3 DEF ClaimCloud
      <4>2. Rest(pull[w]).entries = Tail(pull[w].entries) /\ Rest(pull[w]).newest = pull[w].newest
        BY <1>2, RestType
      <4> QED BY <3>1, <3>3, <4>1, <4>2 DEF CloudAt, TrackedAt
    <3> QED BY <3>2, <3>3
  <2>2. CASE ClaimTracked(w)
    <3>1. syncpc[w] = "crawlproof"
      BY <2>2 DEF ClaimTracked
    <3>2. CASE Fresh(c)
      <4>1. Moves(w, "optCrawlproof", [pull[w] EXCEPT !.contacts = contacts])
        BY <1>1, <2>2, <3>2 DEF ClaimTracked
      <4>2. /\ [pull[w] EXCEPT !.contacts = contacts].entries = pull[w].entries
            /\ [pull[w] EXCEPT !.contacts = contacts].newest = pull[w].newest
        BY <1>2 DEF Pulls
      <4> QED BY <3>1, <4>1, <4>2 DEF CloudAt, TrackedAt
    <3>3. CASE ~Fresh(c)
      <4>1. Moves(w, "crawlproof", Rest(pull[w]))
        BY <1>1, <2>2, <3>3 DEF ClaimTracked
      <4>2. Rest(pull[w]).entries = Tail(pull[w].entries) /\ Rest(pull[w]).newest = pull[w].newest
        BY <1>2, RestType
      <4> QED BY <3>1, <3>3, <4>1, <4>2 DEF CloudAt, TrackedAt
    <3> QED BY <3>2, <3>3
  <2> QED BY <2>1, <2>2
<1>8. syncpc'[w] = where /\ pull'[w] = t
  BY <1>7, OthersPull
<1>9. PullCovers(w)'
  <2> SUFFICES ASSUME NEW p \in People,
                      \/ where \in CloudAt /\ Due(p, "cloud", pull[w].newest)
                      \/ where \in TrackedAt /\ Due(p, "crawlproof", pull[w].newest)
               PROVE  Settled(p) \/ newest[p] \in Among(t.entries)
    BY <1>2, <1>3, <1>7, <1>8 DEF PullCovers, Due
  <2>1. p \in contacts.known
    BY DEF Due, ContactInv
  <2>2. Settled(p) \/ newest[p] \in Among(pull[w].entries)
    BY <1>7 DEF CoverInv, PullCovers
  <2>3. newest[p] = c => c.who = p /\ Fresh(c)
    BY NewestIsFresh
  <2> QED BY <1>6, <1>7, <2>1, <2>2, <2>3
<1> QED BY <1>2, <1>3, <1>4, <1>7, <1>9, CoversKept

LEMMA CoverOpt ==
  ASSUME SyncOK, PressInv, ContactInv, CoverInv, NEW w \in Workers, OptCloud(w) \/ OptTracked(w)
  PROVE  CoverInv'
<1>1. PICK c : c = Head(pull[w].entries)
  OBVIOUS
<1>2. UNCHANGED <<newest, forgotten, missed, cursor>>
  BY DEF OptCloud, OptTracked
<1>3. \A p \in People : Settled(p) \/ newest[p] = c => Settled(p)'
  BY <1>1, OptSettles
<1>4. CursorCovers'
  BY <1>2, <1>3, CursorKept
<1>5. PullOK(w) /\ pull[w].entries \in Seq(Changes)
  BY PullTypes DEF SyncOK, PullTypeOK
<1>6. Among(pull[w].entries) \subseteq {c} \cup Among(Tail(pull[w].entries))
  BY <1>1, <1>5, FirstAndRest DEF PullOK, OptCloud, OptTracked
<1>7. PICK where, t :
        /\ Moves(w, where, t) /\ t.newest = pull[w].newest /\ t.entries = Tail(pull[w].entries)
        /\ <<syncpc[w], where>> \in {<<"optCloud", "cloud">>, <<"optCrawlproof", "crawlproof">>}
  <2>1. CASE OptCloud(w)
    BY <1>1, <2>1, OptIs DEF OptCloud
  <2>2. CASE OptTracked(w)
    BY <1>1, <2>2, OptIs DEF OptTracked
  <2> QED BY <2>1, <2>2
<1>8. syncpc'[w] = where /\ pull'[w] = t
  BY <1>7, OthersPull
<1>9. PullCovers(w)'
  <2> SUFFICES ASSUME NEW p \in People,
                      \/ where \in CloudAt /\ Due(p, "cloud", pull[w].newest)
                      \/ where \in TrackedAt /\ Due(p, "crawlproof", pull[w].newest)
               PROVE  Settled(p)' \/ newest[p] \in Among(Tail(pull[w].entries))
    BY <1>2, <1>7, <1>8 DEF PullCovers, Due
  <2>1. Settled(p) \/ newest[p] \in Among(pull[w].entries)
    BY <1>7 DEF CoverInv, PullCovers, CloudAt, TrackedAt
  <2> QED BY <1>3, <1>6, <2>1
<1> QED BY <1>2, <1>3, <1>4, <1>7, <1>9, CoversKept

(* A cursor goes where the pull is past, when nothing is left of it *)
LEMMA CoverAdvance ==
  ASSUME SyncOK, CoverInv, NEW w \in Workers, AdvanceCloud(w) \/ AdvanceTracked(w)
  PROVE  CoverInv'
<1>1. /\ UNCHANGED <<newest, forgotten, missed, optChanges, contacts, outByHand>>
      /\ Among(pull[w].entries) = {} /\ PullCovers(w)
  BY DEF AdvanceCloud, AdvanceTracked, CoverInv, Among
<1>2. \A p \in People : Settled(p)' <=> Settled(p)
  BY <1>1 DEF Settled
<1>3. CursorCovers'
  <2> SUFFICES ASSUME NEW p \in People, NEW s \in Sources, Due(p, s, cursor'[s])
               PROVE  Settled(p)
    BY <1>1, <1>2 DEF CursorCovers, Due
  <2>1. CASE cursor'[s] = cursor[s]
    BY <2>1 DEF CoverInv, CursorCovers
  <2>2. CASE cursor'[s] # cursor[s]
    <3>1. \/ s = "cloud" /\ syncpc[w] \in CloudAt /\ cursor'[s] = pull[w].newest
          \/ s = "crawlproof" /\ syncpc[w] \in TrackedAt /\ cursor'[s] = pull[w].newest
      BY <2>2 DEF AdvanceCloud, AdvanceTracked, Cursor, SyncOK, ReaderTypeOK, Sources, CloudAt, TrackedAt
    <3> QED BY <1>1, <3>1 DEF PullCovers
  <2> QED BY <2>1, <2>2
<1>4. PICK where \in {"fetch", "idle"} : Moves(w, where, NoPull)
  BY DEF AdvanceCloud, AdvanceTracked
<1>5. PullCovers(w)'
  BY <1>4, OthersPull DEF PullCovers, CloudAt, TrackedAt
<1> QED BY <1>1, <1>2, <1>3, <1>4, <1>5, CoversKept

LEMMA CoverWorker ==
  ASSUME SyncOK, PressInv, ContactInv, CoverInv, NEW w \in Workers, WorkerActs(w)
  PROVE  CoverInv'
BY CoverAsk, CoverHear, CoverClaim, CoverOpt, CoverAdvance DEF WorkerActs

(* A press that comes in behind a cursor or a pull is excused, and an event  *)
(* never does                                                                *)
LEMMA CoverPress ==
  ASSUME SyncOK, PressInv, CoverInv, (\E c \in under : Pressed(c)) \/ (\E p \in People : PressTracked(p))
  PROVE  CoverInv'
<1>1. /\ UNCHANGED <<syncpc, pull, cursor, optChanges, contacts, outByHand, forgotten>>
      /\ missed \subseteq missed'
  BY DEF Pressed, PressTracked
<1>2. ASSUME NEW p \in People, newest'[p] # newest[p], p \notin missed'
      PROVE  /\ \A s \in Sources : newest'[p].source = s => newest'[p].at > cursor'[s]
             /\ \A w \in Workers : /\ syncpc[w] \in CloudAt /\ newest'[p].source = "cloud"
                                        => newest'[p].at > pull[w].newest
                                   /\ syncpc[w] \in TrackedAt /\ newest'[p].source = "crawlproof"
                                        => newest'[p].at > pull[w].newest
  <2>1. /\ cursor.cloud \in Nat /\ cursor.crawlproof \in Nat /\ clock \in Nat
        /\ cursor.cloud <= clock /\ cursor.crawlproof <= clock
        /\ \A w \in Workers : pull[w].newest \in Nat /\ pull[w].newest <= clock
    BY SyncAssumption DEF PressInv, PulledOK, SyncOK, ReaderTypeOK, PullTypeOK, Pulls
  <2>2. CASE \E c \in under : Pressed(c)
    <3>1. PICK c \in under : Pressed(c)
      BY <2>2
    <3>2. c \in Changes /\ c.at \in Nat /\ c.source = "cloud"
      BY DEF SyncOK, ReaderTypeOK, Changes, PressInv, Writing
    <3>3. newest' = [newest EXCEPT ![c.who] = Newer(c, @)]
      BY <3>1 DEF Pressed
    <3>4. c.who = p /\ newest'[p] = c
      BY <1>2, <3>3 DEF Newer, SyncOK, ReaderTypeOK
    <3>5. ~Behind(c)
      BY <1>2, <3>1, <3>4 DEF Pressed
    <3> QED BY <1>1, <2>1, <3>2, <3>4, <3>5 DEF Behind, CloudAt, TrackedAt, Sources
  <2>3. CASE \E q \in People : PressTracked(q)
    <3>1. PICK q \in People : PressTracked(q)
      BY <2>3
    <3>2. newest'[p].at = clock + 1
      BY <1>2, <3>1 DEF PressTracked, Change, SyncOK, ReaderTypeOK
    <3>3. cursor'.cloud < clock + 1 /\ cursor'.crawlproof < clock + 1
      BY <1>1, <2>1
    <3>4. \A w \in Workers : pull[w].newest < clock + 1
      BY <2>1
    <3> QED BY <3>2, <3>3, <3>4, <2>1, <1>1 DEF Sources
  <2> QED BY <2>2, <2>3
<1>3. \A p \in People : newest[p] \in Changes /\ newest'[p] \in Changes
  BY ReaderType DEF SyncOK, ReaderTypeOK
<1>4. \A p \in People : newest'[p].at \in Nat
  BY <1>3 DEF Changes
<1>5. \A p \in People : newest'[p] = newest[p] => (Settled(p) => Settled(p)')
  BY <1>1 DEF Settled
<1>6. CursorCovers'
  <2> SUFFICES ASSUME NEW p \in People, NEW s \in Sources, Due(p, s, cursor[s])'
               PROVE  Settled(p)'
    BY DEF CursorCovers
  <2>1. cursor[s] \in Nat
    BY DEF SyncOK, ReaderTypeOK, Sources
  <2>2. newest'[p] = newest[p]
    BY <1>1, <1>2, <1>4, <2>1 DEF Due
  <2>3. Due(p, s, cursor[s])
    BY <1>1, <2>2 DEF Due
  <2> QED BY <1>5, <2>2, <2>3 DEF CoverInv, CursorCovers
<1>7. ASSUME NEW w \in Workers PROVE PullCovers(w)'
  <2> SUFFICES ASSUME NEW p \in People,
                      \/ syncpc[w] \in CloudAt /\ Due(p, "cloud", pull[w].newest)'
                      \/ syncpc[w] \in TrackedAt /\ Due(p, "crawlproof", pull[w].newest)'
               PROVE  Settled(p)' \/ newest'[p] \in Among(pull[w].entries)
    BY <1>1 DEF PullCovers
  <2>1. pull[w].newest \in Nat
    BY DEF SyncOK, PullTypeOK, Pulls
  <2>2. newest'[p] = newest[p]
    BY <1>1, <1>2, <1>4, <2>1 DEF Due
  <2>3. \/ syncpc[w] \in CloudAt /\ Due(p, "cloud", pull[w].newest)
        \/ syncpc[w] \in TrackedAt /\ Due(p, "crawlproof", pull[w].newest)
    BY <1>1, <2>2 DEF Due
  <2> QED BY <1>5, <2>2, <2>3 DEF CoverInv, PullCovers
<1> QED BY <1>6, <1>7 DEF CoverInv

(* By hand: somebody opted out stays so, somebody removed is excused *)
LEMMA CoverHand ==
  ASSUME SyncOK, CoverInv,
         \/ UNCHANGED <<syncVars, faults>>
         \/ \E p \in People : \/ \E s \in {"unsubscribed", "resubscribed"} : Press(p, s)
                              \/ OptOutByHand(p) \/ RemoveContact(p) \/ AddContact(p)
  PROVE  CoverInv'
<1>1. UNCHANGED <<syncpc, pull, cursor, optChanges, newest, missed>> /\ forgotten \subseteq forgotten'
  BY DEF syncVars, Press, OptOutByHand, RemoveContact, AddContact
<1>2. ASSUME NEW p \in People, p \notin forgotten', Settled(p)
      PROVE  Settled(p)'
  <2>1. /\ p \in contacts.out => p \in contacts'.out
        /\ p \in outByHand => p \in outByHand'
        /\ p \in contacts'.out => p \in contacts.out \/ p \in outByHand'
    BY <1>2 DEF syncVars, Press, OptOutByHand, RemoveContact, AddContact, SyncOK, FileTypeOK,
                ContactFiles
  <2> QED BY <1>1, <1>2, <2>1 DEF Settled
<1>3. CursorCovers'
  BY <1>1, <1>2 DEF CoverInv, CursorCovers, Due
<1>4. ASSUME NEW w \in Workers PROVE PullCovers(w)'
  BY <1>1, <1>2 DEF CoverInv, PullCovers, Due
<1> QED BY <1>3, <1>4 DEF CoverInv

OptOutInv == SyncOK /\ PressInv /\ (crossed \/ (ContactInv /\ CoverInv))

LEMMA OptOutInit == SyncInit => OptOutInv
BY SyncInitType, PressInit, ContactInit, CoverInit DEF OptOutInv

LEMMA OptOutStep == OptOutInv /\ [SyncNext]_<<syncVars, faults>> => OptOutInv'
<1> SUFFICES ASSUME OptOutInv, [SyncNext]_<<syncVars, faults>>, ~crossed'
             PROVE  ContactInv' /\ CoverInv'
  BY SyncStep DEF OptOutInv
<1>1. ~crossed
  BY DEF SyncNext, AskCloud, HearCloud, ClaimCloud, OptCloud, AdvanceCloud, Fetch, HearTracked,
         ClaimTracked, OptTracked, AdvanceTracked, SyncCrash, Press, PressTracked, OptOutByHand,
         RemoveContact, AddContact, Pressed, syncVars
<1>2. SyncOK /\ PressInv /\ ContactInv /\ CoverInv
  BY <1>1 DEF OptOutInv
<1>3. CASE UNCHANGED <<syncVars, faults>>
  <2>1. ContactInv'
    BY <1>2, <1>3 DEF syncVars, ContactInv, AsPulled, Applying
  <2> QED BY <1>2, <1>3, <2>1, CoverHand
<1>4. ASSUME NEW w \in Workers, WorkerActs(w) PROVE ContactInv' /\ CoverInv'
  BY <1>2, <1>4, ContactWorker, CoverWorker
<1>5. ASSUME \/ \E p \in People : \/ \E s \in {"unsubscribed", "resubscribed"} : Press(p, s)
                                  \/ PressTracked(p) \/ OptOutByHand(p) \/ RemoveContact(p)
                                  \/ AddContact(p)
             \/ \E c \in under : Pressed(c)
      PROVE  ContactInv' /\ CoverInv'
  BY <1>2, <1>5, ContactReader, CoverPress, CoverHand
<1> QED BY <1>3, <1>4, <1>5 DEF SyncNext, WorkerActs

LEMMA OptOutCounts == OptOutInv => NewestPressCounts
<1> SUFFICES ASSUME OptOutInv, ~crossed,
                    NEW p \in contacts.known \ (forgotten \cup missed),
                    newest[p].source # "none", newest[p].at <= cursor[newest[p].source]
             PROVE  IF newest[p].state = "unsubscribed" THEN p \in contacts.out
                                                       ELSE p \in contacts.out => p \in outByHand
  BY DEF NewestPressCounts
<1>1. SyncOK /\ CoverInv
  BY DEF OptOutInv
<1>2. p \in People
  BY <1>1 DEF SyncOK, FileTypeOK, ContactFiles
<1>3. newest[p].source \in Sources
  BY <1>1, <1>2 DEF SyncOK, ReaderTypeOK, Changes, Sources
<1>4. Settled(p)
  BY <1>1, <1>2, <1>3 DEF CoverInv, CursorCovers, Due
<1> QED BY <1>4 DEF Settled

(* Once the cursor of its source is past somebody's newest press, they are   *)
(* opted out if it was Unsubscribe and else not, unless by hand: in whatever *)
(* order pulls are answered, and if a process died half way through one.     *)
THEOREM NewestPressIsWhatCounts == SyncSpec => []NewestPressCounts
<1> QED BY OptOutInit, OptOutStep, OptOutCounts, PTL DEF SyncSpec

(***************************************************************************)
(* Hosted mail (HostedMail), for any number of installs, messages and      *)
(* posts and any cap: types, that the daily cap is kept, and that a        *)
(* message is taken once.                                                  *)
(*                                                                         *)
(* The cap is kept because what has passed the count was in the sum when   *)
(* the last of it passed (Allowed), and only shrinks afterwards.  A        *)
(* message is taken once because the rows of a chunk are pending while any *)
(* post with them is on its way, and pending rows are in no second chunk.  *)
(***************************************************************************)

(***************************************************************************)
(* Types                                                                   *)
(***************************************************************************)
LEMMA HostedTypeInit == HostedInit => HostedTypeOK
<1> SUFFICES ASSUME HostedInit PROVE HostedTypeOK
  OBVIOUS
<1>1. NoPost \in Rows
  BY DEF NoPost, Rows
<1>2. NoChunk \in Chunks /\ NoChunk.batch = {} /\ NoChunk.post = "none"
  BY HostedAssumption DEF NoChunk, Chunks
<1> QED BY <1>1, <1>2 DEF HostedInit, HostedTypeOK

LEMMA FreeIsFree ==
  ASSUME \E p \in Posts : post[p].state = "none"
  PROVE  FreePost \in Posts /\ post[FreePost].state = "none"
BY DEF FreePost

LEMMA InstallType ==
  ASSUME HostedTypeOK, NEW w \in Workers,
         \/ MarkChunk(w) \/ Reserve(w) \/ Hear(w)
         \/ Unheard(w) \/ HearStatus(w) \/ ProxyFails(w)
  PROVE  HostedTypeOK'
<1> DEFINE States == {"owed", "pending", "sent", "failed", "retry"}
<1>1. ASSUME NEW S \in SUBSET Mails, NEW noted \in [S -> States], Ledger(noted)
      PROVE  mail' \in [Mails -> States]
  BY <1>1 DEF Ledger, HostedTypeOK
<1>2. ASSUME NEW c \in Chunks, NEW where \in {"idle", "post", "wait"}, SendAt(w, where, c),
             \A m \in c.batch : InstallOf[m] = w, where = "wait" <=> c.post # "none"
      PROVE  /\ hpc' \in [Workers -> {"idle", "post", "wait"}]
             /\ chunk' \in [Workers -> Chunks]
             /\ \A v \in Workers : /\ \A m \in chunk'[v].batch : InstallOf[m] = v
                                   /\ hpc'[v] = "wait" <=> chunk'[v].post # "none"
  BY <1>2 DEF SendAt, HostedTypeOK
<1>3. chunk[w] \in Chunks /\ chunk[w].batch \subseteq Mails
  BY DEF HostedTypeOK, Chunks
<1>4. NoChunk \in Chunks /\ NoChunk.batch = {} /\ NoChunk.post = "none"
  BY HostedAssumption DEF NoChunk, Chunks
<1>5. CASE MarkChunk(w)
  <2>1. PICK batch \in SUBSET {m \in Mails : InstallOf[m] = w /\ mail[m] \in {"owed", "retry"}} :
          /\ Ledger([m \in batch |-> "pending"])
          /\ SendAt(w, "post", [NoChunk EXCEPT !.batch = batch, !.attempt = 1])
    BY <1>5 DEF MarkChunk
  <2>2. mail' \in [Mails -> States]
    BY <1>1, <2>1
  <2>5. 1 \in 0..Attempts
    BY HostedAssumption
  <2>3. [NoChunk EXCEPT !.batch = batch, !.attempt = 1] \in Chunks
    BY <2>5 DEF NoChunk, Chunks
  <2>4. /\ [NoChunk EXCEPT !.batch = batch, !.attempt = 1].batch = batch
        /\ [NoChunk EXCEPT !.batch = batch, !.attempt = 1].post = "none"
    BY DEF NoChunk
  <2>6. UNCHANGED <<post, copies, vague, misheard>>
    BY <1>5 DEF MarkChunk
  <2> HIDE DEF States
  <2>7. /\ hpc' \in [Workers -> {"idle", "post", "wait"}] /\ chunk' \in [Workers -> Chunks]
        /\ \A v \in Workers : /\ \A m \in chunk'[v].batch : InstallOf[m] = v
                              /\ hpc'[v] = "wait" <=> chunk'[v].post # "none"
    BY <1>2, <2>1, <2>3, <2>4
  <2> QED BY <2>2, <2>6, <2>7 DEF HostedTypeOK, States
<1>6. CASE Reserve(w)
  <2>1. CASE /\ \E p \in Posts : post[p].state = "none"
             /\ PostIs(FreePost, [NoPost EXCEPT !.state = "count", !.units = chunk[w].batch])
             /\ SendAt(w, "wait", [chunk[w] EXCEPT !.post = FreePost])
             /\ UNCHANGED mail
    <3>1. FreePost \in Posts /\ FreePost # "none"
      BY <2>1, FreeIsFree, HostedAssumption
    <3>2. [NoPost EXCEPT !.state = "count", !.units = chunk[w].batch] \in Rows
      BY <1>3 DEF NoPost, Rows
    <3>3. post' \in [Posts -> Rows]
      BY <2>1, <3>1, <3>2 DEF PostIs, HostedTypeOK
    <3>4. [chunk[w] EXCEPT !.post = FreePost] \in Chunks
      BY <1>3, <3>1 DEF Chunks
    <3>5. /\ [chunk[w] EXCEPT !.post = FreePost].batch = chunk[w].batch
          /\ [chunk[w] EXCEPT !.post = FreePost].post = FreePost
      BY <1>3 DEF Chunks
    <3>6. \A m \in chunk[w].batch : InstallOf[m] = w
      BY DEF HostedTypeOK
    <3> QED BY <1>2, <1>6, <2>1, <3>1, <3>3, <3>4, <3>5, <3>6 DEF Reserve, HostedTypeOK
  <2>2. CASE /\ Ledger([m \in chunk[w].batch |-> "failed"]) /\ SendAt(w, "idle", NoChunk)
             /\ UNCHANGED post
    <3>1. mail' \in [Mails -> States]
      BY <1>1, <1>3, <2>2
    <3> QED BY <1>2, <1>4, <1>6, <2>2, <3>1 DEF Reserve, HostedTypeOK
  <2> QED BY <1>6, <2>1, <2>2 DEF Reserve
<1>7. CASE Hear(w)
  <2>1. CASE /\ chunk[w].attempt < Attempts
             /\ SendAt(w, "post", [chunk[w] EXCEPT !.post = "none", !.attempt = @ + 1])
             /\ UNCHANGED mail
    <3> DEFINE again == [chunk[w] EXCEPT !.post = "none", !.attempt = @ + 1]
    <3>4. chunk[w].attempt \in 0..Attempts
      BY <1>3 DEF Chunks
    <3>5. chunk[w].attempt + 1 \in 0..Attempts
      BY <2>1, <3>4, HostedAssumption
    <3>1. again \in Chunks
      BY <1>3, <3>5 DEF Chunks
    <3>2. again.batch = chunk[w].batch /\ again.post = "none"
      BY <1>3 DEF Chunks
    <3>3. \A m \in again.batch : InstallOf[m] = w
      BY <3>2 DEF HostedTypeOK
    <3>6. SendAt(w, "post", again) /\ UNCHANGED mail
      BY <2>1
    <3> HIDE DEF again
    <3> QED BY <1>2, <1>7, <3>1, <3>2, <3>3, <3>6 DEF Hear, HostedTypeOK
  <2>2. CASE /\ SendAt(w, "idle", NoChunk)
             /\ \E noted \in [chunk[w].batch -> States] : Ledger(noted)
    <3>1. mail' \in [Mails -> States]
      BY <1>1, <1>3, <2>2
    <3> QED BY <1>2, <1>4, <1>7, <2>2, <3>1 DEF Hear, HostedTypeOK
  <2> QED BY <1>7, <2>1, <2>2 DEF Hear
<1>8. CASE Unheard(w)
  <2>1. mail' \in [Mails -> States]
    BY <1>1, <1>3, <1>8 DEF Unheard, Unsure
  <2> QED BY <1>2, <1>4, <1>8, <2>1 DEF Unheard, HostedTypeOK
<1>9. CASE HearStatus(w)
  <2>1. \E noted \in [chunk[w].batch -> States] : Ledger(noted)
    BY <1>9 DEF HearStatus
  <2>2. mail' \in [Mails -> States]
    BY <1>1, <1>3, <2>1
  <2>3. chunk[w].post \in Posts
    BY <1>9 DEF HearStatus, HostedTypeOK, Chunks
  <2>4. post[chunk[w].post].took \subseteq Mails
    BY <2>3 DEF HostedTypeOK, Rows
  <2>5. SendAt(w, "idle", NoChunk) /\ misheard' \subseteq Mails /\ UNCHANGED <<post, copies, vague>>
    BY <1>9, <2>4 DEF HearStatus, HostedTypeOK
  <2> QED BY <1>2, <1>4, <2>2, <2>5 DEF HostedTypeOK
<1>10. CASE ProxyFails(w)
  <2>1. mail' \in [Mails -> States]
    BY <1>1, <1>3, <1>10 DEF ProxyFails
  <2>2. Doubted(w) \subseteq Mails
    BY <1>3 DEF Doubted
  <2>3. SendAt(w, "idle", NoChunk) /\ misheard' \subseteq Mails /\ UNCHANGED <<post, copies, vague>>
    BY <1>10, <2>2 DEF ProxyFails, HostedTypeOK
  <2> QED BY <1>2, <1>4, <2>1, <2>3 DEF HostedTypeOK
<1> QED BY <1>5, <1>6, <1>7, <1>8, <1>9, <1>10

LEMMA ServerType ==
  ASSUME HostedTypeOK, NEW p \in Posts,
         Count(p) \/ Exchange(p) \/ Settle(p) \/ ServerFails(p) \/ RowGetsOld(p)
  PROVE  HostedTypeOK'
<1>1. ASSUME NEW row \in Rows, PostIs(p, row)
      PROVE  post' \in [Posts -> Rows]
  BY <1>1 DEF PostIs, HostedTypeOK
<1>2. post[p] \in Rows
  BY DEF HostedTypeOK
<1>3. CASE Count(p)
  BY <1>1, <1>2, <1>3 DEF Count, HostedTypeOK, Rows
<1>4. CASE Exchange(p)
  <2>1. PICK S \in SUBSET post[p].units, answer \in {"ids", "noids", "refused", "throttled", "silent"} :
          Takes(p, S, answer)
    BY <1>4 DEF Exchange
  <2>2. S \subseteq Mails /\ vague' \subseteq Mails
    BY <1>2, <1>4, <2>1 DEF Exchange, HostedTypeOK, Rows
  <2>3. [post[p] EXCEPT !.state = "settle", !.took = S, !.res = answer] \in Rows
    BY <1>2, <2>2 DEF Rows
  <2>4. post' \in [Posts -> Rows]
    BY <1>1, <2>1, <2>3 DEF Takes
  <2>5. copies' \in [Mails -> 0..2]
    BY <2>1 DEF Takes, HostedTypeOK
  <2> QED BY <1>4, <2>2, <2>4, <2>5 DEF Exchange, HostedTypeOK
<1>5. CASE Settle(p)
  BY <1>1, <1>2, <1>5 DEF Settle, HostedTypeOK, Rows
<1>6. CASE ServerFails(p)
  BY <1>1, <1>2, <1>6 DEF ServerFails, HostedTypeOK, Rows
<1>7. CASE RowGetsOld(p)
  BY <1>1, <1>2, <1>7 DEF RowGetsOld, HostedTypeOK, NoPost, Rows
<1> QED BY <1>3, <1>4, <1>5, <1>6, <1>7

LEMMA HostedTypeStep == HostedTypeOK /\ [HostedNext]_<<hostedVars, faults>> => HostedTypeOK'
<1> SUFFICES ASSUME HostedTypeOK, [HostedNext]_<<hostedVars, faults>>
             PROVE  HostedTypeOK'
  OBVIOUS
<1>1. ASSUME NEW m \in Mails, RetryFailed(m)
      PROVE  HostedTypeOK'
  BY <1>1 DEF RetryFailed, HostedTypeOK
<1>2. CASE UNCHANGED <<hostedVars, faults>>
  BY <1>2 DEF hostedVars, HostedTypeOK
<1> QED BY <1>1, <1>2, InstallType, ServerType DEF HostedNext

(* Every variable of a hosted send keeps its type, and an install has only   *)
(* its own messages in hand.                                                 *)
THEOREM HostedTypeCorrect == HostedSpec => []HostedTypeOK
<1> QED BY HostedTypeInit, HostedTypeStep, PTL DEF HostedSpec

(***************************************************************************)
(* The daily cap                                                           *)
(***************************************************************************)
(* What passed the count and was not given back *)
Allowed == {u \in Posts \X Mails :
              /\ u[2] \in post[u[1]].units
              /\ post[u[1]].state = "call" \/ u[2] \in post[u[1]].took}

(* What was taken is in the row's count, but for what the server cannot tell *)
TookInv ==
  \A p \in Posts :
    /\ post[p].state \in {"none", "count", "call"} => post[p].took = {}
    /\ post[p].res # "ids" => post[p].took \subseteq vague
    /\ post[p].took \ vague \subseteq post[p].units
    /\ post[p].state # "done" => post[p].took \subseteq post[p].units

CapInv == TookInv /\ Cardinality(Allowed) <= DailyCap

LEMMA Smaller ==
  ASSUME NEW S \in SUBSET (Posts \X Mails), NEW T \in SUBSET S, Cardinality(S) <= DailyCap
  PROVE  Cardinality(T) <= DailyCap
<1>1. IsFiniteSet(S)
  BY HostedAssumption, FS_Product, FS_Subset
<1>2. IsFiniteSet(T) /\ Cardinality(T) <= Cardinality(S)
  BY <1>1, FS_Subset
<1>3. Cardinality(S) \in Nat /\ Cardinality(T) \in Nat
  BY <1>1, <1>2, FS_CardinalityType
<1> QED BY <1>2, <1>3, HostedAssumption

LEMMA CapInit == HostedInit => CapInv
<1> SUFFICES ASSUME HostedInit PROVE CapInv
  OBVIOUS
<1>1. \A p \in Posts : post[p].state = "none" /\ post[p].units = {} /\ post[p].took = {}
  BY DEF HostedInit, NoPost
<1>2. Allowed = {}
  BY <1>1 DEF Allowed
<1>3. Cardinality(Allowed) = 0
  BY <1>2, FS_EmptySet
<1> QED BY <1>1, <1>3, HostedAssumption DEF CapInv, TookInv

(* A step of the server at one post *)
LEMMA PostStep ==
  ASSUME HostedTypeOK, CapInv, NEW p \in Posts, NEW row \in Rows, PostIs(p, row),
         vague \subseteq vague',
         row.state \in {"none", "count", "call"} => row.took = {},
         row.res # "ids" => row.took \subseteq vague',
         row.took \ vague' \subseteq row.units,
         row.state # "done" => row.took \subseteq row.units,
         row.state # "call",
         \A m \in row.units \cap row.took :
           m \in post[p].units /\ (post[p].state = "call" \/ m \in post[p].took)
  PROVE  CapInv'
<1>1. post' \in [Posts -> Rows] /\ post'[p] = row /\ \A q \in Posts \ {p} : post'[q] = post[q]
  BY DEF PostIs, HostedTypeOK
<1>2. TookInv'
  BY <1>1 DEF CapInv, TookInv
<1>3. Allowed' \subseteq Allowed
  BY <1>1 DEF Allowed
<1>4. Allowed \subseteq Posts \X Mails
  BY DEF Allowed
<1>5. Cardinality(Allowed') <= DailyCap
  BY <1>3, <1>4, Smaller DEF CapInv
<1> QED BY <1>2, <1>5 DEF CapInv

LEMMA ServerCap ==
  ASSUME HostedTypeOK, CapInv, NEW p \in Posts,
         Count(p) \/ Exchange(p) \/ Settle(p) \/ ServerFails(p) \/ RowGetsOld(p)
  PROVE  CapInv'
<1>1. post[p] \in Rows
  BY DEF HostedTypeOK
<1>2. TookInv
  BY DEF CapInv
<1>3. CASE Count(p) /\ Cardinality(Used) <= DailyCap
  <2>1. /\ post' \in [Posts -> Rows] /\ vague' = vague
        /\ \A q \in Posts \ {p} : post'[q] = post[q]
        /\ post'[p].units = post[p].units /\ post'[p].took = post[p].took
        /\ post'[p].res = post[p].res
        /\ post[p].state = "count"
    BY <1>1, <1>3 DEF Count, PostIs, HostedTypeOK, Rows
  <2>2. TookInv'
    BY <1>2, <2>1 DEF TookInv
  <2>3. Allowed' \subseteq Used /\ Used \subseteq Posts \X Mails
    BY <2>1 DEF Allowed, Used
  <2>4. Cardinality(Allowed') <= DailyCap
    BY <1>3, <2>3, Smaller
  <2> QED BY <2>2, <2>4 DEF CapInv
<1>4. CASE Count(p) /\ ~(Cardinality(Used) <= DailyCap)
  <2> DEFINE row == [post[p] EXCEPT !.state = "settle", !.res = "throttled"]
  <2>1. PostIs(p, row) /\ vague' = vague /\ post[p].took = {}
    BY <1>2, <1>4 DEF Count, TookInv
  <2>2. /\ row \in Rows /\ row.state = "settle" /\ row.res = "throttled"
        /\ row.units = post[p].units /\ row.took = post[p].took
    BY <1>1 DEF Rows
  <2> HIDE DEF row
  <2> QED BY <2>1, <2>2, PostStep
<1>5. CASE Exchange(p)
  <2>1. PICK S \in SUBSET post[p].units, answer \in {"ids", "noids", "refused", "throttled", "silent"} :
          /\ Takes(p, S, answer)
          /\ vague \subseteq vague'
          /\ answer # "ids" => S \subseteq vague'
    BY <1>5 DEF Exchange
  <2> DEFINE row == [post[p] EXCEPT !.state = "settle", !.took = S, !.res = answer]
  <2>2. PostIs(p, row) /\ post[p].state = "call"
    BY <1>5, <2>1 DEF Takes, Exchange
  <2>3. /\ row \in Rows /\ row.state = "settle" /\ row.res = answer
        /\ row.units = post[p].units /\ row.took = S
    BY <1>1, <2>1 DEF Rows
  <2> HIDE DEF row
  <2> QED BY <2>1, <2>2, <2>3, PostStep
<1>6. CASE Settle(p)
  <2> DEFINE row == [post[p] EXCEPT !.state = "done",
                       !.units = IF post[p].res = "ids" THEN post[p].took
                                 ELSE IF post[p].res = "silent" THEN @ ELSE {}]
  <2>1. PostIs(p, row) /\ vague' = vague
    BY <1>6 DEF Settle
  <2>2. /\ row \in Rows /\ row.state = "done" /\ row.res = post[p].res
        /\ row.took = post[p].took
        /\ row.res = "ids" => row.units = post[p].took
        /\ row.res # "ids" => row.units = post[p].units \/ row.units = {}
    BY <1>1 DEF Rows
  <2> HIDE DEF row
  <2>3. row.took \ vague' \subseteq row.units
    BY <1>2, <2>1, <2>2 DEF TookInv
  <2>4. post[p].took \subseteq post[p].units
    BY <1>2, <1>6 DEF TookInv, Settle
  <2>5. row.res # "ids" => row.took \subseteq vague'
    BY <1>2, <2>1, <2>2 DEF TookInv
  <2>6. \A m \in row.units \cap row.took :
          m \in post[p].units /\ (post[p].state = "call" \/ m \in post[p].took)
    BY <2>2, <2>4
  <2> QED BY <2>1, <2>2, <2>3, <2>5, <2>6, PostStep
<1>7. CASE ServerFails(p)
  <2> DEFINE row == [post[p] EXCEPT !.state = "done", !.res = "silent"]
  <2>1. PostIs(p, row) /\ vague' = vague \cup post[p].took
    BY <1>7 DEF ServerFails
  <2>2. /\ row \in Rows /\ row.state = "done" /\ row.res = "silent"
        /\ row.units = post[p].units /\ row.took = post[p].took
    BY <1>1 DEF Rows
  <2> HIDE DEF row
  <2> QED BY <2>1, <2>2, PostStep
<1>8. CASE RowGetsOld(p)
  <2>1. PostIs(p, NoPost) /\ vague' = vague
    BY <1>8 DEF RowGetsOld
  <2>2. NoPost \in Rows /\ NoPost.state = "none" /\ NoPost.took = {} /\ NoPost.units = {}
    BY DEF NoPost, Rows
  <2> QED BY <2>1, <2>2, PostStep
<1> QED BY <1>3, <1>4, <1>5, <1>6, <1>7, <1>8

LEMMA InstallCap ==
  ASSUME HostedTypeOK, CapInv, NEW w \in Workers,
         \/ MarkChunk(w) \/ Reserve(w) \/ Hear(w)
         \/ Unheard(w) \/ HearStatus(w) \/ ProxyFails(w)
  PROVE  CapInv'
<1>1. CASE UNCHANGED <<post, vague>>
  BY <1>1 DEF CapInv, TookInv, Allowed
<1>2. CASE /\ \E p \in Posts : post[p].state = "none"
           /\ PostIs(FreePost, [NoPost EXCEPT !.state = "count", !.units = chunk[w].batch])
           /\ UNCHANGED vague
  <2> DEFINE row == [NoPost EXCEPT !.state = "count", !.units = chunk[w].batch]
  <2>1. FreePost \in Posts
    BY <1>2, FreeIsFree
  <2>2. row \in Rows /\ row.state = "count" /\ row.took = {}
    BY DEF HostedTypeOK, Chunks, NoPost, Rows
  <2> HIDE DEF row
  <2>3. PostIs(FreePost, row)
    BY <1>2 DEF row
  <2> QED BY <1>2, <2>1, <2>2, <2>3, PostStep
<1> QED BY <1>1, <1>2 DEF MarkChunk, Reserve, Hear, Unheard, HearStatus, ProxyFails

LEMMA CapStep ==
  HostedTypeOK /\ CapInv /\ [HostedNext]_<<hostedVars, faults>> => CapInv'
<1> SUFFICES ASSUME HostedTypeOK, CapInv, [HostedNext]_<<hostedVars, faults>>
             PROVE  CapInv'
  OBVIOUS
<1>1. ASSUME NEW m \in Mails, RetryFailed(m)
      PROVE  CapInv'
  BY <1>1 DEF RetryFailed, CapInv, TookInv, Allowed
<1>2. CASE UNCHANGED <<hostedVars, faults>>
  BY <1>2 DEF hostedVars, CapInv, TookInv, Allowed
<1> QED BY <1>1, <1>2, InstallCap, ServerCap DEF HostedNext

LEMMA CapInvImplies == CapInv => DailyCapHeld
<1> SUFFICES ASSUME CapInv PROVE DailyCapHeld
  OBVIOUS
<1> DEFINE S == {u \in Posts \X Mails : u[2] \in post[u[1]].took \ vague}
<1>1. S \subseteq Allowed
  BY DEF CapInv, TookInv, Allowed
<1>2. Allowed \subseteq Posts \X Mails
  BY DEF Allowed
<1>3. Cardinality(S) <= DailyCap
  BY <1>1, <1>2, Smaller DEF CapInv
<1> QED BY <1>3 DEF DailyCapHeld

(* The daily cap of an account holds whichever installs send at once, for    *)
(* any cap, and any number of calls under way (mail.ts:10).                  *)
THEOREM DailyCapIsKept == HostedSpec => []DailyCapHeld
<1>1. HostedInit => HostedTypeOK /\ CapInv
  BY HostedTypeInit, CapInit
<1>2. HostedTypeOK /\ CapInv /\ [HostedNext]_<<hostedVars, faults>> => (HostedTypeOK /\ CapInv)'
  BY HostedTypeStep, CapStep
<1> QED BY <1>1, <1>2, CapInvImplies, PTL DEF HostedSpec

(***************************************************************************)
(* One copy                                                                *)
(***************************************************************************)
Going(p) == post[p].state \in {"count", "call"}

Hidden == vague \cup misheard

Untaken(m) == m \in Hidden \/ copies[m] = 0

(* A message on its way is pending and was not taken, and is in one post,    *)
(* unless a proxy answered for the server                                    *)
GoingInv ==
  /\ \A p \in Posts : \A m \in post[p].units :
       Going(p) /\ m \notin misheard => mail[m] = "pending" /\ Untaken(m)
  /\ \A p, q \in Posts : Going(p) /\ Going(q) /\ p # q =>
       \A m \in post[p].units \cap post[q].units : m \in misheard

(* What an install is about to post is on no way yet *)
ToPostInv ==
  \A w \in Workers : hpc[w] = "post" => \A m \in chunk[w].batch :
    /\ mail[m] = "pending" /\ Untaken(m)
    /\ m \notin misheard => \A p \in Posts : Going(p) => m \notin post[p].units

(* What it waits for is in the post it waits for, and in no other *)
WaitInv ==
  \A w \in Workers : hpc[w] = "wait" =>
    /\ post[chunk[w].post].state # "none"
    /\ Going(chunk[w].post) => post[chunk[w].post].units = chunk[w].batch
    /\ \A m \in chunk[w].batch :
         /\ mail[m] = "pending"
         /\ m \notin misheard =>
              \A q \in Posts : Going(q) /\ m \in post[q].units => q = chunk[w].post
         /\ ~Going(chunk[w].post) /\ m \notin Hidden =>
              copies[m] = IF m \in post[chunk[w].post].took THEN 1 ELSE 0

(* What a post took was taken *)
TakenInv == \A p \in Posts : \A m \in post[p].took : copies[m] >= 1

OnceInv == GoingInv /\ ToPostInv /\ WaitInv /\ TakenInv /\ HostedOnce

LEMMA OnceInit == HostedInit => OnceInv
<1> SUFFICES ASSUME HostedInit PROVE OnceInv
  OBVIOUS
<1>1. \A p \in Posts : post[p].units = {} /\ post[p].took = {}
  BY DEF HostedInit, NoPost
<1>2. \A m \in Mails : copies[m] = 0 /\ mail[m] = "owed"
  BY DEF HostedInit
<1>3. \A w \in Workers : hpc[w] = "idle"
  BY DEF HostedInit
<1> QED BY <1>1, <1>2, <1>3 DEF OnceInv, GoingInv, ToPostInv, WaitInv, TakenInv, HostedOnce, Going

LEMMA MarkOnce ==
  ASSUME HostedTypeOK, OnceInv, NEW w \in Workers, MarkChunk(w)
  PROVE  OnceInv'
<1>1. PICK batch \in SUBSET {m \in Mails : InstallOf[m] = w /\ mail[m] \in {"owed", "retry"}} :
        /\ Ledger([m \in batch |-> "pending"])
        /\ SendAt(w, "post", [NoChunk EXCEPT !.batch = batch, !.attempt = 1])
        /\ UNCHANGED <<post, copies, vague, misheard>> /\ hpc[w] = "idle"
  BY DEF MarkChunk
<1>2. \A m \in Mails : mail'[m] = IF m \in batch THEN "pending" ELSE mail[m]
  BY <1>1 DEF Ledger
<1>3. /\ hpc'[w] = "post" /\ chunk'[w].batch = batch
      /\ \A v \in Workers \ {w} : hpc'[v] = hpc[v] /\ chunk'[v] = chunk[v]
  BY <1>1 DEF SendAt, HostedTypeOK, NoChunk
<1>4. \A m \in batch : /\ Untaken(m)
                       /\ m \notin misheard => \A p \in Posts : Going(p) => m \notin post[p].units
  BY <1>1 DEF OnceInv, GoingInv, HostedOnce, Untaken, Hidden
<1>5. \A p \in Posts : post[p].units \subseteq Mails /\ (Going(p)' <=> Going(p))
  BY <1>1 DEF HostedTypeOK, Rows, Going
<1>6. \A m \in Mails : Untaken(m)' <=> Untaken(m)
  BY <1>1 DEF Untaken, Hidden
<1>7. \A v \in Workers : chunk[v].batch \subseteq Mails
  BY DEF HostedTypeOK, Chunks
<1>8. GoingInv'
  BY <1>1, <1>2, <1>5, <1>6 DEF OnceInv, GoingInv
<1>9. ToPostInv'
  <2>1. ASSUME NEW v \in Workers, hpc'[v] = "post", NEW m \in chunk'[v].batch
        PROVE  /\ m \in Mails /\ mail'[m] = "pending" /\ Untaken(m)
               /\ m \notin misheard => \A p \in Posts : Going(p) => m \notin post[p].units
    <3>1. CASE v = w
      <4>1. m \in batch /\ m \in Mails
        BY <1>3, <2>1, <3>1
      <4>2. mail'[m] = "pending"
        BY <1>2, <4>1
      <4>3. Untaken(m) /\ (m \notin misheard => \A p \in Posts : Going(p) => m \notin post[p].units)
        BY <1>4, <4>1
      <4> QED BY <4>1, <4>2, <4>3
    <3>2. CASE v # w
      BY <1>2, <1>3, <1>7, <2>1, <3>2 DEF OnceInv, ToPostInv
    <3> QED BY <3>1, <3>2
  <2> QED BY <1>1, <1>5, <1>6, <2>1 DEF ToPostInv
<1>10. \A v \in Workers : hpc'[v] = "wait" => chunk[v].post \in Posts /\ v # w
  BY <1>3 DEF HostedTypeOK, Chunks
<1>11. WaitInv'
  BY <1>1, <1>2, <1>3, <1>5, <1>7, <1>10 DEF OnceInv, WaitInv, Hidden
<1>12. HostedOnce'
  BY <1>1, <1>2 DEF OnceInv, HostedOnce
<1>13. TakenInv'
  BY <1>1 DEF OnceInv, TakenInv
<1> QED BY <1>8, <1>9, <1>11, <1>12, <1>13 DEF OnceInv

(* The rows of a chunk are answered, and nobody is at them any more *)
LEMMA EndOnce ==
  ASSUME HostedTypeOK, OnceInv, NEW w \in Workers,
         NEW noted \in [chunk[w].batch -> {"pending", "sent", "failed", "retry"}],
         Ledger(noted), SendAt(w, "idle", NoChunk), UNCHANGED <<post, copies, vague>>,
         misheard \subseteq misheard',
         \A m \in chunk[w].batch : noted[m] = "pending" => mail[m] = "pending",
         \A m \in chunk[w].batch : noted[m] = "sent" => copies[m] >= 1,
         \A m \in chunk[w].batch \ Hidden' :
           copies[m] <= 1 /\ (noted[m] \in {"failed", "retry"} => copies[m] = 0),
         \A m \in chunk[w].batch : noted[m] # "pending" /\ m \notin misheard' =>
           \A p \in Posts : Going(p) => m \notin post[p].units
  PROVE  OnceInv'
<1>1. \A m \in Mails : mail'[m] = IF m \in chunk[w].batch THEN noted[m] ELSE mail[m]
  BY DEF Ledger
<1>2. /\ hpc'[w] = "idle" /\ \A v \in Workers \ {w} : hpc'[v] = hpc[v] /\ chunk'[v] = chunk[v]
  BY DEF SendAt, HostedTypeOK
<1>3. \A p \in Posts : post[p].units \subseteq Mails /\ (Going(p)' <=> Going(p))
  BY DEF HostedTypeOK, Rows, Going
<1>4. \A m \in Mails : /\ Untaken(m) => Untaken(m)'
                       /\ m \notin Hidden' => m \notin Hidden
  BY DEF Untaken, Hidden
<1>5. \A v \in Workers : chunk[v].batch \subseteq Mails /\ \A m \in chunk[v].batch : InstallOf[m] = v
  BY DEF HostedTypeOK, Chunks
<1>6. \A v \in Workers \ {w} : \A m \in chunk[v].batch : mail'[m] = mail[m]
  BY <1>1, <1>5
<1>7. GoingInv'
  <2>1. ASSUME NEW p \in Posts, NEW m \in post[p].units, Going(p), m \notin misheard'
        PROVE  mail'[m] = "pending" /\ Untaken(m)
    BY <1>1, <1>3, <2>1 DEF OnceInv, GoingInv
  <2>2. \A p, q \in Posts : Going(p) /\ Going(q) /\ p # q =>
          \A m \in post[p].units \cap post[q].units : m \in misheard'
    BY DEF OnceInv, GoingInv
  <2>3. ASSUME NEW p \in Posts, NEW m \in post[p].units, Going(p), m \notin misheard'
        PROVE  mail'[m] = "pending" /\ Untaken(m)'
    <3>1. m \in Mails
      BY <1>3
    <3>2. mail'[m] = "pending" /\ Untaken(m)
      BY <2>1, <2>3
    <3> QED BY <1>4, <3>1, <3>2
  <2> QED BY <1>3, <2>2, <2>3 DEF GoingInv
<1>8. ToPostInv'
  <2>1. ASSUME NEW v \in Workers, hpc'[v] = "post", NEW m \in chunk'[v].batch
        PROVE  /\ mail'[m] = "pending" /\ Untaken(m)'
               /\ m \notin misheard' => \A p \in Posts : Going(p) => m \notin post[p].units
    <3>1. v # w /\ hpc[v] = "post" /\ m \in chunk[v].batch /\ m \in Mails
      BY <1>2, <1>5, <2>1
    <3>2. /\ mail[m] = "pending" /\ Untaken(m)
          /\ m \notin misheard => \A p \in Posts : Going(p) => m \notin post[p].units
      BY <3>1 DEF OnceInv, ToPostInv
    <3>3. mail'[m] = "pending"
      BY <1>6, <3>1, <3>2
    <3>4. Untaken(m)'
      BY <1>4, <3>1, <3>2
    <3>5. m \notin misheard' => \A p \in Posts : Going(p) => m \notin post[p].units
      BY <3>2
    <3> QED BY <3>3, <3>4, <3>5
  <2> QED BY <1>3, <2>1 DEF ToPostInv
<1>9. \A v \in Workers : hpc'[v] = "wait" => chunk[v].post \in Posts /\ v # w
  BY <1>2 DEF HostedTypeOK, Chunks
<1>10. WaitInv'
  <2>1. ASSUME NEW v \in Workers, hpc'[v] = "wait"
        PROVE  /\ v # w /\ hpc[v] = "wait" /\ chunk'[v] = chunk[v]
               /\ chunk[v].batch \subseteq Mails /\ chunk[v].post \in Posts
    BY <1>2, <1>5, <1>9, <2>1
  <2>2. ASSUME NEW v \in Workers, hpc'[v] = "wait"
        PROVE  /\ post[chunk[v].post].state # "none"
               /\ Going(chunk[v].post) => post[chunk[v].post].units = chunk[v].batch
    BY <2>1, <2>2 DEF OnceInv, WaitInv
  <2>3. ASSUME NEW v \in Workers, hpc'[v] = "wait", NEW m \in chunk[v].batch
        PROVE  /\ mail'[m] = "pending"
               /\ m \notin misheard' =>
                    \A q \in Posts : Going(q) /\ m \in post[q].units => q = chunk[v].post
               /\ ~Going(chunk[v].post) /\ m \notin Hidden' =>
                    copies[m] = IF m \in post[chunk[v].post].took THEN 1 ELSE 0
    <3>1. /\ mail[m] = "pending" /\ m \in Mails
          /\ m \notin misheard =>
               \A q \in Posts : Going(q) /\ m \in post[q].units => q = chunk[v].post
          /\ ~Going(chunk[v].post) /\ m \notin Hidden =>
               copies[m] = IF m \in post[chunk[v].post].took THEN 1 ELSE 0
      BY <2>1, <2>3 DEF OnceInv, WaitInv
    <3>2. mail'[m] = "pending"
      BY <1>6, <2>1, <2>3, <3>1
    <3>3. m \notin misheard' => m \notin misheard
      OBVIOUS
    <3>4. m \notin Hidden' => m \notin Hidden
      BY <1>4, <3>1
    <3> QED BY <3>1, <3>2, <3>3, <3>4
  <2> QED BY <1>3, <2>1, <2>2, <2>3 DEF WaitInv
<1>11. HostedOnce'
  BY <1>1 DEF OnceInv, HostedOnce, Hidden
<1>12. TakenInv'
  BY DEF OnceInv, TakenInv
<1> QED BY <1>7, <1>8, <1>10, <1>11, <1>12 DEF OnceInv

LEMMA ReserveOnce ==
  ASSUME HostedTypeOK, OnceInv, NEW w \in Workers, Reserve(w)
  PROVE  OnceInv'
<1>1. hpc[w] = "post" /\ UNCHANGED <<copies, vague, misheard>>
  BY DEF Reserve
<1>2. \A m \in chunk[w].batch :
        /\ mail[m] = "pending" /\ Untaken(m)
        /\ m \notin misheard => \A p \in Posts : Going(p) => m \notin post[p].units
  BY <1>1 DEF OnceInv, ToPostInv
<1>3. \A v \in Workers : chunk[v].batch \subseteq Mails /\ \A m \in chunk[v].batch : InstallOf[m] = v
  BY DEF HostedTypeOK, Chunks
<1>4. CASE /\ Ledger([m \in chunk[w].batch |-> "failed"]) /\ SendAt(w, "idle", NoChunk)
           /\ UNCHANGED post
  <2> DEFINE noted == [m \in chunk[w].batch |-> "failed"]
  <2>1. \A m \in chunk[w].batch \ Hidden : copies[m] = 0
    BY <1>2 DEF Untaken
  <2>2. noted \in [chunk[w].batch -> {"pending", "sent", "failed", "retry"}]
        /\ \A m \in chunk[w].batch : noted[m] = "failed"
    OBVIOUS
  <2>3. Ledger(noted) /\ Hidden' = Hidden
    BY <1>1, <1>4 DEF Hidden
  <2> HIDE DEF noted
  <2> QED BY <1>1, <1>2, <1>4, <2>1, <2>2, <2>3, EndOnce
<1>5. CASE /\ \E p \in Posts : post[p].state = "none"
           /\ PostIs(FreePost, [NoPost EXCEPT !.state = "count", !.units = chunk[w].batch])
           /\ SendAt(w, "wait", [chunk[w] EXCEPT !.post = FreePost])
           /\ UNCHANGED mail
  <2>1. PICK f \in Posts : f = FreePost /\ post[f].state = "none"
    BY <1>5, FreeIsFree
  <2>2. /\ post'[f].state = "count" /\ post'[f].units = chunk[w].batch /\ post'[f].took = {}
        /\ \A q \in Posts \ {f} : post'[q] = post[q]
    BY <1>5, <2>1 DEF PostIs, HostedTypeOK, NoPost
  <2>3. /\ hpc'[w] = "wait" /\ chunk'[w].post = f /\ chunk'[w].batch = chunk[w].batch
        /\ \A v \in Workers \ {w} : hpc'[v] = hpc[v] /\ chunk'[v] = chunk[v]
    BY <1>5, <2>1 DEF SendAt, HostedTypeOK, Chunks
  <2>4. /\ Going(f)' /\ ~Going(f)
        /\ \A q \in Posts \ {f} : Going(q)' <=> Going(q)
    BY <2>1, <2>2 DEF Going
  <2>5. /\ \A m \in Mails : (Untaken(m)' <=> Untaken(m)) /\ mail'[m] = mail[m]
        /\ Hidden' = Hidden
    BY <1>1, <1>5 DEF Untaken, Hidden
  <2>6. \A p \in Posts : post[p].units \subseteq Mails
    BY DEF HostedTypeOK, Rows
  <2>7. GoingInv'
    BY <1>1, <1>2, <1>3, <2>1, <2>2, <2>4, <2>5, <2>6 DEF OnceInv, GoingInv
  <2>8. \A v \in Workers \ {w} : \A m \in chunk[v].batch : m \notin chunk[w].batch
    BY <1>3
  <2>9. ToPostInv'
    BY <1>1, <1>3, <2>1, <2>2, <2>3, <2>4, <2>5, <2>8 DEF OnceInv, ToPostInv
  <2>10. \A v \in Workers : hpc[v] = "wait" =>
           chunk[v].post \in Posts /\ chunk[v].post # f
    BY <2>1 DEF HostedTypeOK, Chunks, OnceInv, WaitInv
  <2>11. ASSUME NEW v \in Workers \ {w}, hpc'[v] = "wait"
         PROVE  /\ post'[chunk'[v].post].state # "none"
                /\ Going(chunk[v].post)' => post'[chunk'[v].post].units = chunk'[v].batch
                /\ \A m \in chunk'[v].batch :
                     /\ mail'[m] = "pending"
                     /\ m \notin misheard' =>
                          \A q \in Posts : Going(q)' /\ m \in post'[q].units => q = chunk'[v].post
                     /\ ~Going(chunk[v].post)' /\ m \notin Hidden' =>
                          copies'[m] = IF m \in post'[chunk'[v].post].took THEN 1 ELSE 0
    BY <1>1, <1>3, <2>2, <2>3, <2>4, <2>5, <2>8, <2>10, <2>11 DEF OnceInv, WaitInv
  <2>12. /\ post'[f].state # "none" /\ post'[f].units = chunk'[w].batch
         /\ \A m \in chunk'[w].batch :
              /\ mail'[m] = "pending"
              /\ m \notin misheard' => \A q \in Posts : Going(q)' /\ m \in post'[q].units => q = f
    BY <1>1, <1>2, <1>3, <2>2, <2>3, <2>4, <2>5
  <2>13. WaitInv'
    BY <2>3, <2>4, <2>11, <2>12 DEF WaitInv, Going
  <2>14. HostedOnce'
    BY <1>1, <1>5 DEF OnceInv, HostedOnce
  <2>15. TakenInv'
    BY <1>1, <2>2 DEF OnceInv, TakenInv
  <2> QED BY <2>7, <2>9, <2>13, <2>14, <2>15 DEF OnceInv
<1> QED BY <1>4, <1>5 DEF Reserve

LEMMA HearOnce ==
  ASSUME HostedTypeOK, OnceInv, TookInv, NEW w \in Workers, Hear(w)
  PROVE  OnceInv'
<1>1. PICK p \in Posts : p = chunk[w].post
  BY DEF Hear, HostedTypeOK, Chunks
<1>2. /\ hpc[w] = "wait" /\ post[p].state = "done" /\ ~Going(p)
      /\ UNCHANGED <<post, copies, vague, misheard>> /\ Hidden' = Hidden
  BY <1>1 DEF Hear, Going, Hidden
<1>3. \A m \in chunk[w].batch :
        /\ mail[m] = "pending"
        /\ m \notin misheard => \A q \in Posts : Going(q) => m \notin post[q].units
        /\ m \notin Hidden => copies[m] = IF m \in post[p].took THEN 1 ELSE 0
  BY <1>1, <1>2 DEF OnceInv, WaitInv
<1>4. post[p].res # "ids" => \A m \in chunk[w].batch : Untaken(m)
  BY <1>3 DEF TookInv, Untaken, Hidden
<1>5. CASE /\ post[p].res = "throttled"
           /\ SendAt(w, "post", [chunk[w] EXCEPT !.post = "none", !.attempt = @ + 1])
           /\ UNCHANGED mail
  <2>1. /\ hpc'[w] = "post" /\ chunk'[w].batch = chunk[w].batch
        /\ \A v \in Workers \ {w} : hpc'[v] = hpc[v] /\ chunk'[v] = chunk[v]
    BY <1>5 DEF SendAt, HostedTypeOK, Chunks
  <2>2. /\ \A q \in Posts : Going(q)' <=> Going(q)
        /\ \A m \in Mails : (Untaken(m)' <=> Untaken(m)) /\ mail'[m] = mail[m]
    BY <1>2, <1>5 DEF Going, Untaken
  <2>3. /\ \A q \in Posts : post[q].units \subseteq Mails
        /\ \A v \in Workers : chunk[v].batch \subseteq Mails
    BY DEF HostedTypeOK, Rows, Chunks
  <2>4. GoingInv'
    BY <1>2, <2>2, <2>3 DEF OnceInv, GoingInv
  <2>5. ToPostInv'
    BY <1>2, <1>3, <1>4, <1>5, <2>1, <2>2, <2>3 DEF OnceInv, ToPostInv
  <2>6. \A v \in Workers : hpc'[v] = "wait" => chunk[v].post \in Posts /\ v # w
    BY <2>1 DEF HostedTypeOK, Chunks
  <2>7. WaitInv'
    BY <1>2, <2>1, <2>2, <2>3, <2>6 DEF OnceInv, WaitInv
  <2>8. HostedOnce' /\ TakenInv'
    BY <1>2, <1>5 DEF OnceInv, HostedOnce, TakenInv
  <2> QED BY <2>4, <2>5, <2>7, <2>8 DEF OnceInv
<1>6. CASE /\ SendAt(w, "idle", NoChunk)
           /\ Ledger([m \in chunk[w].batch |->
                        IF post[p].res = "ids" /\ m \in post[p].took THEN "sent"
                        ELSE IF post[p].res = "silent" THEN "retry" ELSE "failed"])
  <2> DEFINE noted == [m \in chunk[w].batch |->
                        IF post[p].res = "ids" /\ m \in post[p].took THEN "sent"
                        ELSE IF post[p].res = "silent" THEN "retry" ELSE "failed"]
  <2>1. noted \in [chunk[w].batch -> {"pending", "sent", "failed", "retry"}] /\ Ledger(noted)
    BY <1>6
  <2>2. \A m \in chunk[w].batch :
          /\ noted[m] # "pending"
          /\ noted[m] = "sent" => m \in post[p].took
          /\ noted[m] \in {"failed", "retry"} => post[p].res # "ids" \/ m \notin post[p].took
    OBVIOUS
  <2> HIDE DEF noted
  <2>3. \A m \in chunk[w].batch \ Hidden :
          copies[m] <= 1 /\ (noted[m] \in {"failed", "retry"} => copies[m] = 0)
    BY <1>3, <1>4, <2>2 DEF Untaken
  <2>4. \A m \in chunk[w].batch : noted[m] = "sent" => copies[m] >= 1
    BY <2>2 DEF OnceInv, TakenInv
  <2> QED BY <1>2, <1>3, <1>6, <2>1, <2>2, <2>3, <2>4, EndOnce
<1> QED BY <1>1, <1>5, <1>6 DEF Hear

LEMMA UnheardOnce ==
  ASSUME HostedTypeOK, OnceInv, NEW w \in Workers, Unheard(w)
  PROVE  OnceInv'
<1> DEFINE noted == [m \in chunk[w].batch |-> Unsure]
<1>1. /\ noted \in [chunk[w].batch -> {"pending", "sent", "failed", "retry"}]
      /\ \A m \in chunk[w].batch : noted[m] = "pending"
  BY DEF Unsure
<1>2. /\ Ledger(noted) /\ SendAt(w, "idle", NoChunk)
      /\ UNCHANGED <<post, copies, vague, misheard>> /\ Hidden' = Hidden
  BY DEF Unheard, Hidden
<1> HIDE DEF noted
<1>3. \A m \in chunk[w].batch : mail[m] = "pending"
  BY DEF Unheard, OnceInv, ToPostInv, WaitInv
<1>4. \A m \in chunk[w].batch \ Hidden : copies[m] <= 1
  BY DEF HostedTypeOK, Chunks, OnceInv, HostedOnce, Hidden
<1> QED BY <1>1, <1>2, <1>3, <1>4, EndOnce

(* A chunk of which the install is told nothing went, rightly or wrongly *)
LEMMA DeniedOnce ==
  ASSUME HostedTypeOK, OnceInv, NEW w \in Workers, HearStatus(w) \/ ProxyFails(w)
  PROVE  OnceInv'
<1>1. PICK row \in {"failed", "retry"} : Ledger([m \in chunk[w].batch |-> row])
  BY DEF HearStatus, ProxyFails
<1> DEFINE noted == [m \in chunk[w].batch |-> row]
<1>2. /\ noted \in [chunk[w].batch -> {"pending", "sent", "failed", "retry"}] /\ Ledger(noted)
      /\ \A m \in chunk[w].batch : noted[m] \in {"failed", "retry"}
  BY <1>1
<1> HIDE DEF noted
<1>3. /\ SendAt(w, "idle", NoChunk) /\ UNCHANGED <<post, copies, vague>>
      /\ misheard \subseteq misheard'
  BY DEF HearStatus, ProxyFails
<1>4. \A m \in chunk[w].batch : m \notin Hidden' => m \notin Hidden /\ m \notin misheard'
  BY <1>3 DEF Hidden
<1>5. CASE hpc[w] = "post"
  <2>1. \A m \in chunk[w].batch :
          /\ m \notin Hidden => copies[m] = 0
          /\ m \notin misheard => \A p \in Posts : Going(p) => m \notin post[p].units
    BY <1>5 DEF OnceInv, ToPostInv, Untaken
  <2> QED BY <1>2, <1>3, <1>4, <2>1, EndOnce
<1>6. CASE hpc[w] = "wait"
  <2>1. PICK p \in Posts : p = chunk[w].post
    BY <1>6 DEF HostedTypeOK, Chunks
  <2>2. \A m \in chunk[w].batch \ misheard' : ~Going(p) /\ m \notin post[p].took
    BY <1>6, <2>1 DEF HearStatus, ProxyFails, Doubted, Going
  <2>3. \A m \in chunk[w].batch :
          /\ m \notin misheard => \A q \in Posts : Going(q) /\ m \in post[q].units => q = p
          /\ ~Going(p) /\ m \notin Hidden => copies[m] = IF m \in post[p].took THEN 1 ELSE 0
    BY <1>6, <2>1 DEF OnceInv, WaitInv
  <2>4. \A m \in chunk[w].batch \ Hidden' : copies[m] = 0
    BY <1>4, <2>2, <2>3
  <2>5. \A m \in chunk[w].batch \ misheard' : \A q \in Posts : Going(q) => m \notin post[q].units
    BY <1>3, <2>2, <2>3
  <2> QED BY <1>2, <1>3, <2>4, <2>5, EndOnce
<1> QED BY <1>5, <1>6 DEF HearStatus, ProxyFails

LEMMA RetryOnce ==
  ASSUME HostedTypeOK, OnceInv, NEW n \in Mails, RetryFailed(n)
  PROVE  OnceInv'
<1>1. /\ mail[n] = "failed" /\ UNCHANGED <<hpc, chunk, post, copies, vague, misheard>>
      /\ \A m \in Mails : mail'[m] = IF m = n THEN "owed" ELSE mail[m]
  BY DEF RetryFailed, HostedTypeOK
<1>2. /\ \A q \in Posts : (Going(q)' <=> Going(q)) /\ post[q].units \subseteq Mails
      /\ \A m \in Mails : Untaken(m)' <=> Untaken(m)
      /\ Hidden' = Hidden
  BY <1>1 DEF Going, Untaken, Hidden, HostedTypeOK, Rows
<1>3. \A v \in Workers : chunk[v].batch \subseteq Mails
  BY DEF HostedTypeOK, Chunks
<1>4. GoingInv'
  BY <1>1, <1>2 DEF OnceInv, GoingInv
<1>5. ToPostInv'
  BY <1>1, <1>2, <1>3 DEF OnceInv, ToPostInv
<1>6. \A v \in Workers : hpc[v] = "wait" => chunk[v].post \in Posts
  BY DEF HostedTypeOK, Chunks
<1>7. WaitInv'
  BY <1>1, <1>2, <1>3, <1>6 DEF OnceInv, WaitInv
<1>8. HostedOnce' /\ TakenInv'
  BY <1>1 DEF OnceInv, HostedOnce, TakenInv
<1> QED BY <1>4, <1>5, <1>7, <1>8 DEF OnceInv

(* A post is on its way no longer, or was not before *)
LEMMA StopOnce ==
  ASSUME HostedTypeOK, OnceInv, NEW p \in Posts, NEW row \in Rows, PostIs(p, row),
         post[p].state # "none", row.state \in {"settle", "done"},
         UNCHANGED <<mail, hpc, chunk, misheard>>, vague \subseteq vague',
         ~Going(p) => row.took = post[p].took,
         \A m \in Mails : /\ copies'[m] \in Int /\ copies'[m] >= copies[m]
                          /\ m \in row.took => copies'[m] >= 1,
         \A m \in Mails \ Hidden' :
           copies'[m] = IF Going(p) /\ m \in post[p].units
                        THEN IF m \in row.took THEN 1 ELSE 0 ELSE copies[m]
  PROVE  OnceInv'
<1>1. post'[p] = row /\ \A q \in Posts \ {p} : post'[q] = post[q]
  BY DEF PostIs, HostedTypeOK
<1>2. ~Going(p)' /\ \A q \in Posts \ {p} : Going(q)' <=> Going(q)
  BY <1>1 DEF Going
<1>3. \A q \in Posts : post[q].units \subseteq Mails
  BY DEF HostedTypeOK, Rows
<1>4. /\ \A m \in Mails : (Going(p) => m \notin post[p].units) /\ Untaken(m) => Untaken(m)'
      /\ \A m \in Mails : m \in Hidden => m \in Hidden'
      /\ \A m \in Mails : m \in misheard => m \in Hidden'
  BY DEF Untaken, Hidden
<1>5. \A v \in Workers : chunk[v].batch \subseteq Mails
  BY DEF HostedTypeOK, Chunks
<1>6. GoingInv'
  <2>1. ASSUME NEW q \in Posts, NEW m \in post'[q].units, Going(q)', m \notin misheard
        PROVE  mail'[m] = "pending" /\ Untaken(m)'
    <3>1. q # p /\ Going(q) /\ m \in post[q].units /\ m \in Mails
      BY <1>1, <1>2, <1>3, <2>1
    <3>2. mail[m] = "pending" /\ Untaken(m) /\ (Going(p) => m \notin post[p].units)
      BY <2>1, <3>1 DEF OnceInv, GoingInv
    <3> QED BY <1>4, <3>1, <3>2
  <2>2. \A q, r \in Posts : Going(q)' /\ Going(r)' /\ q # r =>
          \A m \in post'[q].units \cap post'[r].units : m \in misheard
    BY <1>1, <1>2 DEF OnceInv, GoingInv
  <2> QED BY <2>1, <2>2 DEF GoingInv
<1>7. ToPostInv'
  <2>1. ASSUME NEW v \in Workers, hpc[v] = "post", NEW m \in chunk[v].batch
        PROVE  /\ mail[m] = "pending" /\ Untaken(m)'
               /\ m \notin misheard => \A q \in Posts : Going(q)' => m \notin post'[q].units
    <3>1. /\ m \in Mails /\ mail[m] = "pending" /\ Untaken(m)
          /\ m \notin misheard => \A q \in Posts : Going(q) => m \notin post[q].units
      BY <1>5, <2>1 DEF OnceInv, ToPostInv
    <3>2. CASE m \in misheard
      BY <1>4, <3>1, <3>2 DEF Untaken
    <3>3. CASE m \notin misheard
      BY <1>1, <1>2, <1>4, <3>1, <3>3
    <3> QED BY <3>2, <3>3
  <2> QED BY <2>1 DEF ToPostInv
<1>8. ASSUME NEW v \in Workers, hpc[v] = "wait"
      PROVE  /\ post'[chunk[v].post].state # "none"
             /\ chunk[v].post # p => (Going(chunk[v].post) => post'[chunk[v].post].units = chunk[v].batch)
             /\ \A m \in chunk[v].batch :
                  /\ mail[m] = "pending"
                  /\ m \notin misheard =>
                       \A q \in Posts : Going(q)' /\ m \in post'[q].units => q = chunk[v].post
  BY <1>1, <1>2, <1>8 DEF OnceInv, WaitInv, HostedTypeOK, Chunks
<1>9. ASSUME NEW v \in Workers, hpc[v] = "wait", NEW m \in chunk[v].batch, m \notin Hidden'
      PROVE  /\ chunk[v].post = p =>
                  copies'[m] = IF m \in row.took THEN 1 ELSE 0
             /\ chunk[v].post # p /\ ~Going(chunk[v].post) =>
                  copies'[m] = IF m \in post[chunk[v].post].took THEN 1 ELSE 0
  <2>1. /\ m \in Mails /\ chunk[v].post \in Posts
        /\ m \notin misheard /\ m \notin Hidden
    BY <1>4, <1>5, <1>9 DEF HostedTypeOK, Chunks
  <2>2. /\ Going(chunk[v].post) => post[chunk[v].post].units = chunk[v].batch
        /\ Going(p) /\ m \in post[p].units => p = chunk[v].post
        /\ ~Going(chunk[v].post) =>
             copies[m] = IF m \in post[chunk[v].post].took THEN 1 ELSE 0
    BY <1>9, <2>1 DEF OnceInv, WaitInv
  <2> QED BY <1>9, <2>1, <2>2
<1>10. WaitInv'
  <2> SUFFICES ASSUME NEW v \in Workers, hpc[v] = "wait"
               PROVE  /\ post'[chunk[v].post].state # "none"
                      /\ Going(chunk[v].post)' => post'[chunk[v].post].units = chunk[v].batch
                      /\ \A m \in chunk[v].batch :
                           /\ mail[m] = "pending"
                           /\ m \notin misheard =>
                                \A q \in Posts : Going(q)' /\ m \in post'[q].units => q = chunk[v].post
                           /\ ~Going(chunk[v].post)' /\ m \notin Hidden' =>
                                copies'[m] = IF m \in post'[chunk[v].post].took THEN 1 ELSE 0
    BY DEF WaitInv
  <2>1. PICK q \in Posts : q = chunk[v].post /\ chunk'[v].post = q
    BY DEF HostedTypeOK, Chunks
  <2> QED BY <1>1, <1>2, <1>8, <1>9, <2>1
<1>11. HostedOnce'
  <2>1. ASSUME NEW m \in Mails \ Hidden'
        PROVE  /\ copies'[m] <= 1
               /\ mail[m] \in {"owed", "failed", "retry"} => copies'[m] = 0
    <3>1. m \notin misheard /\ m \notin Hidden
      BY <1>4
    <3>2. CASE Going(p) /\ m \in post[p].units
      BY <3>1, <3>2 DEF OnceInv, GoingInv
    <3>3. CASE ~(Going(p) /\ m \in post[p].units)
      BY <3>1, <3>3 DEF OnceInv, HostedOnce, Hidden
    <3> QED BY <3>2, <3>3
  <2>2. ASSUME NEW m \in Mails, mail[m] = "sent" PROVE copies'[m] >= 1
    <3>1. copies[m] >= 1 /\ copies[m] \in Int
      BY <2>2 DEF OnceInv, HostedOnce, HostedTypeOK
    <3>2. copies'[m] >= copies[m] /\ copies'[m] \in Int
      OBVIOUS
    <3> QED BY <3>1, <3>2
  <2> QED BY <2>1, <2>2 DEF HostedOnce, Hidden
<1>12. TakenInv'
  <2> SUFFICES ASSUME NEW q \in Posts, NEW m \in post'[q].took
               PROVE  copies'[m] >= 1
    BY DEF TakenInv
  <2>1. m \in Mails
    BY <1>1 DEF HostedTypeOK, Rows
  <2>2. CASE q = p
    BY <1>1, <2>1, <2>2
  <2>3. CASE q # p
    <3>1. copies[m] >= 1 /\ copies[m] \in Int
      BY <1>1, <2>1, <2>3 DEF OnceInv, TakenInv, HostedTypeOK
    <3>2. copies'[m] >= copies[m] /\ copies'[m] \in Int
      BY <2>1, Z3
    <3> QED BY <3>1, <3>2
  <2> QED BY <2>2, <2>3
<1> QED BY <1>6, <1>7, <1>10, <1>11, <1>12 DEF OnceInv

(* A post that is still on its way, or a row that is forgotten *)
LEMMA PassOnce ==
  ASSUME HostedTypeOK, OnceInv, NEW p \in Posts, NEW row \in Rows, PostIs(p, row),
         UNCHANGED <<mail, hpc, chunk, copies, vague, misheard>>, row.took \subseteq post[p].took,
         \/ Going(p) /\ row.state = "call" /\ row.units = post[p].units
         \/ /\ row.state = "none" /\ row.units = {}
            /\ \A w \in Workers : chunk[w].post # p
  PROVE  OnceInv'
<1>1. post'[p] = row /\ \A q \in Posts \ {p} : post'[q] = post[q]
  BY DEF PostIs, HostedTypeOK
<1>2. \A q \in Posts : /\ Going(q)' => Going(q)
                       /\ post'[q].units \subseteq post[q].units
                       /\ post[q].units \subseteq Mails
  BY <1>1 DEF Going, HostedTypeOK, Rows
<1>3. \A m \in Mails : Untaken(m)' <=> Untaken(m)
  BY DEF Untaken, Hidden
<1>4. \A v \in Workers : chunk[v].batch \subseteq Mails
  BY DEF HostedTypeOK, Chunks
<1>5. GoingInv'
  <2>1. ASSUME NEW q \in Posts, NEW m \in post'[q].units, Going(q)', m \notin misheard
        PROVE  mail'[m] = "pending" /\ Untaken(m)'
    <3>1. Going(q) /\ m \in post[q].units /\ m \in Mails
      BY <1>2, <2>1
    <3> QED BY <1>3, <2>1, <3>1 DEF OnceInv, GoingInv
  <2>2. ASSUME NEW q \in Posts, NEW r \in Posts, Going(q)', Going(r)', q # r,
               NEW m \in post'[q].units \cap post'[r].units
        PROVE  m \in misheard
    <3>1. m \in post[q].units \cap post[r].units
      BY <1>2
    <3> QED BY <1>2, <2>2, <3>1 DEF OnceInv, GoingInv
  <2> QED BY <2>1, <2>2 DEF GoingInv
<1>6. ToPostInv'
  <2>1. ASSUME NEW v \in Workers, hpc[v] = "post", NEW m \in chunk[v].batch
        PROVE  /\ mail[m] = "pending" /\ Untaken(m)'
               /\ m \notin misheard => \A q \in Posts : Going(q)' => m \notin post'[q].units
    BY <1>2, <1>3, <1>4, <2>1 DEF OnceInv, ToPostInv
  <2> QED BY <2>1 DEF ToPostInv
<1>7. WaitInv'
  <2> SUFFICES ASSUME NEW v \in Workers, hpc[v] = "wait"
               PROVE  /\ post'[chunk[v].post].state # "none"
                      /\ Going(chunk[v].post)' => post'[chunk[v].post].units = chunk[v].batch
                      /\ \A m \in chunk[v].batch :
                           /\ mail[m] = "pending"
                           /\ m \notin misheard =>
                                \A q \in Posts : Going(q)' /\ m \in post'[q].units => q = chunk[v].post
                           /\ ~Going(chunk[v].post)' /\ m \notin Hidden =>
                                copies[m] = IF m \in post'[chunk[v].post].took THEN 1 ELSE 0
    BY DEF WaitInv, Hidden
  <2>1. PICK q \in Posts : q = chunk[v].post
    BY DEF HostedTypeOK, Chunks
  <2>2. /\ post[q].state # "none" /\ (Going(q) => post[q].units = chunk[v].batch)
        /\ \A m \in chunk[v].batch :
             /\ mail[m] = "pending"
             /\ m \notin misheard => \A r \in Posts : Going(r) /\ m \in post[r].units => r = q
             /\ ~Going(q) /\ m \notin Hidden => copies[m] = IF m \in post[q].took THEN 1 ELSE 0
    BY <2>1 DEF OnceInv, WaitInv
  <2>3. \A m \in chunk[v].batch : m \notin misheard =>
          \A r \in Posts : Going(r)' /\ m \in post'[r].units => r = q
    BY <1>2, <2>2
  <2>4. /\ post'[q].state # "none" /\ (Going(q)' => post'[q].units = chunk[v].batch)
        /\ ~Going(q)' => ~Going(q) /\ post'[q] = post[q]
    BY <1>1, <2>1, <2>2 DEF Going
  <2>5. \A m \in chunk[v].batch :
          ~Going(q)' /\ m \notin Hidden => copies[m] = IF m \in post'[q].took THEN 1 ELSE 0
    BY <2>2, <2>4
  <2> QED BY <2>1, <2>2, <2>3, <2>4, <2>5 DEF Going
<1>8. HostedOnce'
  BY DEF OnceInv, HostedOnce
<1>9. TakenInv'
  BY <1>1 DEF OnceInv, TakenInv
<1> QED BY <1>5, <1>6, <1>7, <1>8, <1>9 DEF OnceInv

LEMMA ServerOnce ==
  ASSUME HostedTypeOK, TookInv, OnceInv, NEW p \in Posts,
         Count(p) \/ Exchange(p) \/ Settle(p) \/ ServerFails(p) \/ RowGetsOld(p)
  PROVE  OnceInv'
<1>1. post[p] \in Rows
  BY DEF HostedTypeOK
<1>2. \A m \in post[p].units : Going(p) /\ m \notin Hidden => copies[m] = 0
  BY DEF OnceInv, GoingInv, Untaken, Hidden
<1>3. Going(p) => post[p].took = {}
  BY DEF Going, TookInv
<1>10. \A m \in Mails : copies[m] \in 0..2 /\ (m \in post[p].took => copies[m] >= 1)
  BY DEF HostedTypeOK, OnceInv, TakenInv
<1>4. CASE Count(p) /\ Cardinality(Used) <= DailyCap
  <2> DEFINE row == [post[p] EXCEPT !.state = "call"]
  <2>1. PostIs(p, row) /\ Going(p) /\ UNCHANGED <<mail, hpc, chunk, copies, vague, misheard>>
    BY <1>4 DEF Count, Going
  <2>2. /\ row \in Rows /\ row.state = "call" /\ row.units = post[p].units
        /\ row.took = post[p].took
    BY <1>1 DEF Rows
  <2> HIDE DEF row
  <2> QED BY <2>1, <2>2, PassOnce
<1>5. CASE RowGetsOld(p)
  <2>1. /\ PostIs(p, NoPost) /\ UNCHANGED <<mail, hpc, chunk, copies, vague, misheard>>
        /\ \A w \in Workers : chunk[w].post # p
    BY <1>5 DEF RowGetsOld
  <2>2. /\ NoPost \in Rows /\ NoPost.state = "none" /\ NoPost.units = {}
        /\ NoPost.took \subseteq post[p].took
    BY DEF NoPost, Rows
  <2> QED BY <2>1, <2>2, PassOnce
<1>6. CASE Count(p) /\ ~(Cardinality(Used) <= DailyCap)
  <2> DEFINE row == [post[p] EXCEPT !.state = "settle", !.res = "throttled"]
  <2>1. /\ PostIs(p, row) /\ Going(p) /\ post[p].state # "none"
        /\ UNCHANGED <<mail, hpc, chunk, copies, vague, misheard>>
    BY <1>6 DEF Count, Going
  <2>2. row \in Rows /\ row.state = "settle" /\ row.took = post[p].took
    BY <1>1 DEF Rows
  <2> HIDE DEF row
  <2>3. \A m \in Mails : /\ copies'[m] \in Int /\ copies'[m] >= copies[m]
                         /\ m \in row.took => copies'[m] >= 1
    BY <1>10, <2>1, <2>2
  <2>4. \A m \in Mails \ Hidden' :
          copies'[m] = IF Going(p) /\ m \in post[p].units
                       THEN IF m \in row.took THEN 1 ELSE 0 ELSE copies[m]
    BY <1>2, <1>3, <2>1, <2>2 DEF Hidden
  <2> QED BY <2>1, <2>2, <2>3, <2>4, StopOnce
<1>7. CASE Exchange(p)
  <2>1. PICK S \in SUBSET post[p].units, answer \in {"ids", "noids", "refused", "throttled", "silent"} :
          Takes(p, S, answer)
    BY <1>7 DEF Exchange
  <2> DEFINE row == [post[p] EXCEPT !.state = "settle", !.took = S, !.res = answer]
  <2>2. /\ PostIs(p, row) /\ Going(p) /\ post[p].state # "none"
        /\ UNCHANGED <<mail, hpc, chunk, misheard>> /\ vague \subseteq vague'
    BY <1>7, <2>1 DEF Takes, Exchange, Going
  <2>3. row \in Rows /\ row.state = "settle" /\ row.took = S
    BY <1>1, <2>1 DEF Rows
  <2>4. \A m \in Mails : copies'[m] = IF m \in S /\ copies[m] < 2 THEN copies[m] + 1 ELSE copies[m]
    BY <2>1 DEF Takes
  <2>5. \A m \in Mails \ Hidden' :
          copies'[m] = IF m \in post[p].units THEN IF m \in S THEN 1 ELSE 0 ELSE copies[m]
    BY <1>2, <2>1, <2>2, <2>4 DEF Hidden
  <2> HIDE DEF row
  <2>6. \A m \in Mails : /\ copies'[m] \in Int /\ copies'[m] >= copies[m]
                         /\ m \in row.took => copies'[m] >= 1
    BY <1>10, <2>3, <2>4
  <2> QED BY <2>2, <2>3, <2>5, <2>6, StopOnce
<1>8. CASE Settle(p)
  <2> DEFINE row == [post[p] EXCEPT !.state = "done",
                       !.units = IF post[p].res = "ids" THEN post[p].took
                                 ELSE IF post[p].res = "silent" THEN @ ELSE {}]
  <2>1. /\ PostIs(p, row) /\ ~Going(p) /\ post[p].state # "none"
        /\ UNCHANGED <<mail, hpc, chunk, copies, vague, misheard>>
    BY <1>8 DEF Settle, Going
  <2>2. row \in Rows /\ row.state = "done" /\ row.took = post[p].took
    BY <1>1 DEF Rows
  <2> HIDE DEF row
  <2>3. \A m \in Mails : /\ copies'[m] \in Int /\ copies'[m] >= copies[m]
                         /\ m \in row.took => copies'[m] >= 1
    BY <1>10, <2>1, <2>2
  <2> QED BY <2>1, <2>2, <2>3, StopOnce
<1>9. CASE ServerFails(p)
  <2> DEFINE row == [post[p] EXCEPT !.state = "done", !.res = "silent"]
  <2>1. /\ PostIs(p, row) /\ post[p].state # "none" /\ vague \subseteq vague'
        /\ UNCHANGED <<mail, hpc, chunk, copies, misheard>>
    BY <1>9 DEF ServerFails
  <2>2. row \in Rows /\ row.state = "done" /\ row.took = post[p].took
    BY <1>1 DEF Rows
  <2> HIDE DEF row
  <2>3. \A m \in Mails \ Hidden' :
          copies'[m] = IF Going(p) /\ m \in post[p].units
                       THEN IF m \in row.took THEN 1 ELSE 0 ELSE copies[m]
    BY <1>2, <1>3, <2>1, <2>2 DEF Hidden
  <2>4. \A m \in Mails : /\ copies'[m] \in Int /\ copies'[m] >= copies[m]
                         /\ m \in row.took => copies'[m] >= 1
    BY <1>10, <2>1, <2>2
  <2> QED BY <2>1, <2>2, <2>3, <2>4, StopOnce
<1> QED BY <1>4, <1>5, <1>6, <1>7, <1>8, <1>9

LEMMA OnceStep ==
  HostedTypeOK /\ CapInv /\ OnceInv /\ [HostedNext]_<<hostedVars, faults>> => OnceInv'
<1> SUFFICES ASSUME HostedTypeOK, TookInv, OnceInv, [HostedNext]_<<hostedVars, faults>>
             PROVE  OnceInv'
  BY DEF CapInv
<1>1. CASE UNCHANGED <<hostedVars, faults>>
  BY <1>1 DEF hostedVars, OnceInv, GoingInv, ToPostInv, WaitInv, TakenInv, HostedOnce, Going, Untaken, Hidden
<1> QED BY <1>1, MarkOnce, ReserveOnce, HearOnce, UnheardOnce, DeniedOnce, RetryOnce, ServerOnce
        DEF HostedNext

(* Through lost and wrong answers, dead installs and servers, throttling and *)
(* retries what the ledger calls sent was taken; and Resend takes a message  *)
(* once, and the ledger says of it what happened, unless the server could    *)
(* not tell or the install was told otherwise (core/mail/retry.ts:29).       *)
THEOREM HostedSentOnce == HostedSpec => []HostedOnce
<1>1. HostedInit => HostedTypeOK /\ CapInv /\ OnceInv
  BY HostedTypeInit, CapInit, OnceInit
<1>2. HostedTypeOK /\ CapInv /\ OnceInv /\ [HostedNext]_<<hostedVars, faults>>
        => (HostedTypeOK /\ CapInv /\ OnceInv)'
  BY HostedTypeStep, CapStep, OnceStep
<1>3. OnceInv => HostedOnce
  BY DEF OnceInv
<1> QED BY <1>1, <1>2, <1>3, PTL DEF HostedSpec
==============================================================================
