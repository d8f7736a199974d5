----------------------- MODULE NewsletterSend_proofs -----------------------
(***************************************************************************)
(* Theorems about NewsletterSend, for every list, batch size, cap, number  *)
(* of runs, crashes and re-asked sends.                                    *)
(***************************************************************************)
EXTENDS NewsletterSend, FiniteSetTheorems, TLAPS

(* The daemon's options are options. *)
LEMMA DaemonsOptions == NoOptions \in Options
  BY SizesAssumption DEF NoOptions, Options

(* A crash's or a return's reset keeps the locals' types. *)
LEMMA ForgetTyped ==
  ASSUME TypeOK, NEW S, Forget(S)
  PROVE  /\ pc' \in [Runs -> Places] /\ opt' \in [Runs -> Options]
         /\ owns' \in [Runs -> BOOLEAN]
         /\ gone' \in [Runs -> SUBSET Contacts]
         /\ audience' \in [Runs -> SUBSET Contacts]
         /\ todo' \in [Runs -> SUBSET Contacts]
         /\ chunk' \in [Runs -> SUBSET Contacts]
         /\ answers' \in [Runs -> [Contacts -> Answers \cup {"none", "recorded"}]]
         /\ cut' \in [Runs -> BOOLEAN] /\ stopped' \in [Runs -> BOOLEAN]
  <1>1. pc' \in [Runs -> Places]
    BY DEF TypeOK, Forget, Places
  <1>2. opt' \in [Runs -> Options]
    BY DaemonsOptions DEF TypeOK, Forget
  <1>3. owns' \in [Runs -> BOOLEAN] /\ cut' \in [Runs -> BOOLEAN]
        /\ stopped' \in [Runs -> BOOLEAN]
    BY DEF TypeOK, Forget
  <1>4. /\ gone' \in [Runs -> SUBSET Contacts]
        /\ audience' \in [Runs -> SUBSET Contacts]
        /\ todo' \in [Runs -> SUBSET Contacts]
        /\ chunk' \in [Runs -> SUBSET Contacts]
    BY DEF TypeOK, Forget
  <1>5. answers' \in [Runs -> [Contacts -> Answers \cup {"none", "recorded"}]]
    BY DEF TypeOK, Forget, NoAnswer
  <1> QED BY <1>1, <1>2, <1>3, <1>4, <1>5

(* While a run handles answers, everybody left in its chunk has one. *)
Answered ==
  \A r \in Runs : pc[r] = "answer" =>
    \A c \in chunk[r] : answers[r][c] \in Answers \cup {"recorded"}

Typed == TypeOK /\ Answered

(* Sets of contacts are finite, so their sizes are numbers. *)
LEMMA SizeOf ==
  ASSUME NEW S \in SUBSET Contacts
  PROVE  IsFiniteSet(S) /\ Cardinality(S) \in Nat
  BY ContactsAssumption, FS_Subset, FS_CardinalityType

(* What starting a send moves keeps its type. *)
LEMMA AcquireTyped ==
  ASSUME TypeOK, NEW r \in Runs, NEW o \in Options, Acquire(r, o)
  PROVE  TypeOK'
  <1>1. owns' \in [Runs -> BOOLEAN]
    BY Zenon DEF TypeOK, Acquire
  <1>2. opt' \in [Runs -> Options] /\ pc' \in [Runs -> Places]
    BY DEF TypeOK, Acquire, Goto, Places
  <1>3. audience' \in [Runs -> SUBSET Contacts]
    BY ListsAssumption DEF TypeOK, Acquire
  <1>4. allowed' \in Nat
    BY SizesAssumption DEF TypeOK, Acquire, Options
  <1> QED
    BY <1>1, <1>2, <1>3, <1>4, RunsAssumption DEF TypeOK, Acquire, issue, leaving

(* So does what the end of an answer moves. *)
LEMMA HandledTyped ==
  ASSUME TypeOK, NEW r \in Runs, NEW c \in Contacts, NEW stops \in BOOLEAN,
         Handled(r, c, stops)
  PROVE  /\ pc' \in [Runs -> Places] /\ chunk' \in [Runs -> SUBSET Contacts]
         /\ answers' \in [Runs -> [Contacts -> Answers \cup {"none", "recorded"}]]
         /\ stopped' \in [Runs -> BOOLEAN]
  <1>1. [answers[r] EXCEPT ![c] = "none"]
          \in [Contacts -> Answers \cup {"none", "recorded"}]
    BY DEF TypeOK
  <1>2. answers' \in [Runs -> [Contacts -> Answers \cup {"none", "recorded"}]]
    BY <1>1 DEF TypeOK, Handled
  <1>3. pc' \in [Runs -> Places] /\ chunk' \in [Runs -> SUBSET Contacts]
    BY DEF TypeOK, Handled, Goto, Places
  <1>4. stopped' \in [Runs -> BOOLEAN]
    BY DEF TypeOK, Handled
  <1> QED
    BY <1>2, <1>3, <1>4

(* A run's steps keep every variable in its type. *)
LEMMA StepTyped ==
  ASSUME Typed, NEW r \in Runs, Step(r)
  PROVE  TypeOK'
  <1> USE SizesAssumption, RunsAssumption, ListsAssumption
  <1>0. TypeOK /\ Answered
    BY DEF Typed
  <1>1. CASE Sync(r)
    <2>1. /\ gone' = [gone EXCEPT ![r] = optedOut \cup left]
          /\ \/ Goto(r, "begin") \/ Goto(r, "release")
          /\ \/ optedOut' = optedOut \cup left /\ left' = {}
             \/ UNCHANGED <<optedOut, left>>
          /\ UNCHANGED <<issue, mail, session, lock, crashes, owns, opt, audience,
                         todo, chunk, answers, cut, stopped>>
      BY <1>1 DEF Sync, PullAnswered, PullFailed, PullSkipped, leaving
    <2>2. gone' \in [Runs -> SUBSET Contacts] /\ pc' \in [Runs -> Places]
      BY <1>0, <2>1 DEF TypeOK, Goto, Places
    <2> QED
      BY <1>0, <2>1, <2>2 DEF TypeOK, issue, mail, day
  <1>2. CASE Begin(r)
    <2>1. Recipients(r) \subseteq Contacts
      BY <1>0 DEF TypeOK, Recipients
    <2>2. Due(r) \subseteq Contacts
      BY <2>1 DEF Due
    <2>3. PICK batch \in SUBSET Due(r) :
            /\ todo' = [todo EXCEPT ![r] = batch]
            /\ cut' = [cut EXCEPT ![r] = (batch # Due(r))]
            /\ asks' = [c \in Contacts |->
                          IF c \in batch /\ ledger[c] = "pending" /\ opt[r].uncertain
                          THEN asks[c] + 1 ELSE asks[c]]
            /\ Goto(r, IF batch = {} THEN "close" ELSE "mark")
      BY <1>2 DEF Begin
    <2>4. /\ todo' \in [Runs -> SUBSET Contacts] /\ pc' \in [Runs -> Places]
          /\ asks' \in [Contacts -> Nat]
      BY <1>0, <2>2, <2>3 DEF TypeOK, Goto, Places
    <2>5. cut' \in [Runs -> BOOLEAN]
      BY Zenon, <1>0, <2>3 DEF TypeOK
    <2>6. audience' \in [Runs -> SUBSET Contacts] /\ opt' \in [Runs -> Options]
      BY <1>0, <1>2, <2>1, DaemonsOptions DEF TypeOK, Begin
    <2> QED
      BY <1>0, <1>2, <2>4, <2>5, <2>6 DEF TypeOK, Begin, issue, leaving, day
  <1>3. CASE Refuse(r)
    BY <1>0, <1>3 DEF TypeOK, Refuse, Goto, Places, issue, mail, day, leaving, locals
  <1>4. ASSUME NEW c \in Contacts, Mark(r, c)
        PROVE  TypeOK'
    BY <1>0, <1>4 DEF TypeOK, Mark, Deliveries, issue, leaving, day
  <1>5. CASE Call(r)
    <2>1. PICK reply \in [chunk[r] -> Answers], taken \in SUBSET chunk[r] :
            /\ copies' = [c \in Contacts |->
                            IF c \in taken THEN copies[c] + 1 ELSE copies[c]]
            /\ denied' = [c \in Contacts |->
                            IF c \in Denied(reply, taken) THEN denied[c] + 1 ELSE denied[c]]
            /\ uncounted' = uncounted + Cardinality(taken)
            /\ leeway' = leeway + (IF \A c \in taken : reply[c] = "ok"
                                   THEN 0 ELSE BatchSize)
            /\ answers' = [answers EXCEPT ![r] =
                             [c \in Contacts |->
                                IF c \in chunk[r] THEN reply[c] ELSE "none"]]
      BY <1>5 DEF Call
    <2>2. [c \in Contacts |-> IF c \in chunk[r] THEN reply[c] ELSE "none"]
            \in [Contacts -> Answers \cup {"none", "recorded"}]
      BY <1>0 DEF TypeOK
    <2>3. answers' \in [Runs -> [Contacts -> Answers \cup {"none", "recorded"}]]
      BY <1>0, <2>1, <2>2 DEF TypeOK
    <2>4. copies' \in [Contacts -> Nat] /\ denied' \in [Contacts -> Nat]
      BY <1>0, <2>1 DEF TypeOK
    <2>5. Cardinality(taken) \in Nat
      BY <1>0, SizeOf DEF TypeOK
    <2>6. uncounted' \in Int /\ leeway' \in Nat
      BY <1>0, <2>1, <2>5 DEF TypeOK
    <2> QED
      BY <1>0, <1>5, <2>3, <2>4, <2>6 DEF TypeOK, Call, Goto, Places, issue, leaving
  <1>6. ASSUME NEW c \in Contacts, Record(r, c)
        PROVE  TypeOK'
    <2>1. answers' \in [Runs -> [Contacts -> Answers \cup {"none", "recorded"}]]
      BY <1>0, <1>6 DEF TypeOK, Record
    <2>2. ledger' \in [Contacts -> Deliveries]
      BY <1>0, <1>6 DEF TypeOK, Record, Row, Deliveries
    <2> QED
      BY <1>0, <1>6, <2>1, <2>2 DEF TypeOK, Record, issue, leaving, day
  <1>13. ASSUME NEW c \in Contacts, Count(r, c)
         PROVE  TypeOK'
    <2>1. Handled(r, c, stopped[r]) /\ stopped[r] \in BOOLEAN
      BY <1>0, <1>13 DEF TypeOK, Count
    <2>2. /\ pc' \in [Runs -> Places] /\ chunk' \in [Runs -> SUBSET Contacts]
          /\ answers' \in [Runs -> [Contacts -> Answers \cup {"none", "recorded"}]]
          /\ stopped' \in [Runs -> BOOLEAN]
      BY <1>0, <2>1, HandledTyped
    <2> QED
      BY <1>0, <1>13, <2>2 DEF TypeOK, Count, issue, leaving
  <1>14. ASSUME NEW c \in Contacts, After(r, c)
         PROVE  TypeOK'
    <2>1. PICK stops \in BOOLEAN : Handled(r, c, stops)
      BY <1>14 DEF After
    <2>2. /\ pc' \in [Runs -> Places] /\ chunk' \in [Runs -> SUBSET Contacts]
          /\ answers' \in [Runs -> [Contacts -> Answers \cup {"none", "recorded"}]]
          /\ stopped' \in [Runs -> BOOLEAN]
      BY <1>0, <2>1, HandledTyped
    <2>3. answers[r][c] \in Answers
      BY <1>0, <1>14 DEF Answered, After, Between
    <2>4. Row(ledger[c], answers[r][c]) \in Deliveries
      BY <1>0, <2>3 DEF TypeOK, Row, Answers, Deliveries
    <2>5. ledger' \in [Contacts -> Deliveries]
      BY <1>0, <1>14, <2>4 DEF TypeOK, After
    <2> QED
      BY <1>0, <1>14, <2>2, <2>5 DEF TypeOK, After, issue, leaving, day
  <1>7. CASE Close(r)
    BY <1>0, <1>7 DEF TypeOK, Close, Goto, Places, Statuses, issue, mail, day, leaving, locals
  <1>8. CASE Relay(r)
    BY <1>0, <1>8 DEF TypeOK, Relay, Goto, Places, issue, mail, day, leaving, locals
  <1>9. CASE Release(r)
    BY <1>0, <1>9, ForgetTyped DEF TypeOK, Release, issue, mail, day, leaving
  <1>10. CASE DaemonPick(r)
    BY <1>0, <1>10 DEF TypeOK, DaemonPick, Goto, Places, issue, mail, day, leaving, locals
  <1>11. CASE DaemonSend(r)
    BY <1>0, <1>11, DaemonsOptions, AcquireTyped DEF DaemonSend
  <1>12. CASE DaemonSkip(r)
    BY <1>0, <1>12 DEF TypeOK, DaemonSkip, Goto, Places, issue, mail, day, leaving, locals
  <1> QED
    BY <1>1, <1>2, <1>3, <1>4, <1>5, <1>6, <1>7, <1>8, <1>9, <1>10, <1>11, <1>12,
       <1>13, <1>14 DEF Step

(* A run's steps keep the answers of a chunk complete. *)
LEMMA StepAnswered ==
  ASSUME Typed, NEW r \in Runs, Step(r)
  PROVE  Answered'
  <1>0. TypeOK /\ Answered
    BY DEF Typed
  <1>1. CASE Call(r)
    <2>1. PICK reply \in [chunk[r] -> Answers] :
            answers' = [answers EXCEPT ![r] =
                          [c \in Contacts |->
                             IF c \in chunk[r] THEN reply[c] ELSE "none"]]
      BY <1>1 DEF Call
    <2>2. chunk' = chunk /\ pc' = [pc EXCEPT ![r] = "answer"]
      BY <1>1 DEF Call, Goto
    <2> QED
      BY <1>0, <2>1, <2>2 DEF TypeOK, Answered
  <1>2. ASSUME NEW c \in Contacts, After(r, c) \/ Count(r, c)
        PROVE  Answered'
    <2>1. /\ pc[r] = "answer" /\ c \in chunk[r]
          /\ chunk' = [chunk EXCEPT ![r] = chunk[r] \ {c}]
          /\ answers' = [answers EXCEPT ![r] = [answers[r] EXCEPT ![c] = "none"]]
          /\ \E place \in Places : pc' = [pc EXCEPT ![r] = place]
      BY <1>2 DEF After, Count, Handled, Between, Goto, Places
    <2> QED
      BY <1>0, <2>1 DEF TypeOK, Answered
  <1>7. ASSUME NEW c \in Contacts, Record(r, c)
        PROVE  Answered'
    BY <1>0, <1>7 DEF TypeOK, Answered, Record
  <1>3. ASSUME NEW c \in Contacts, Mark(r, c)
        PROVE  Answered'
    BY <1>0, <1>3 DEF TypeOK, Answered, Mark
  <1>4. CASE Release(r)
    BY <1>0, <1>4 DEF TypeOK, Answered, Release, Forget
  <1>5. CASE Sync(r) \/ Begin(r)
    <2>1. /\ \E place \in Places \ {"answer"} : pc' = [pc EXCEPT ![r] = place]
          /\ UNCHANGED <<chunk, answers>>
      BY <1>5 DEF Sync, PullAnswered, PullFailed, PullSkipped, Begin, Goto, Places
    <2> QED
      BY <1>0, <2>1 DEF TypeOK, Answered
  <1>6. CASE Refuse(r) \/ Close(r) \/ Relay(r) \/ DaemonPick(r) \/ DaemonSend(r) \/ DaemonSkip(r)
    BY <1>0, <1>6 DEF TypeOK, Answered, Refuse, Close, Relay, DaemonPick, DaemonSend,
                      DaemonSkip, Acquire, Goto, locals
  <1> QED
    BY <1>1, <1>2, <1>3, <1>4, <1>5, <1>6, <1>7 DEF Step

(* So does everything that happens around the runs. *)
LEMMA AroundTyped ==
  ASSUME Typed, Around
  PROVE  Typed'
  <1>0. TypeOK /\ Answered
    BY DEF Typed
  <1>1. ASSUME NEW p \in Procs, Crash(p)
        PROVE  Typed'
    <2>1. TypeOK'
      BY <1>0, <1>1, ForgetTyped, SizesAssumption DEF TypeOK, Crash, issue, leaving
    <2>2. Answered'
      BY <1>0, <1>1 DEF TypeOK, Answered, Crash, Forget
    <2> QED BY <2>1, <2>2 DEF Typed
  <1>2. ASSUME NEW w \in Times, Schedule(w)
        PROVE  Typed'
    BY <1>0, <1>2, TimesAssumption
       DEF Typed, TypeOK, Answered, Schedule, Statuses, Whens, mail, day, leaving, locals
  <1>3. ASSUME NEW l \in Lists, EditList(l)
        PROVE  Typed'
    BY <1>0, <1>3 DEF Typed, TypeOK, Answered, EditList, mail, day, leaving, locals
  <1>4. CASE TimePasses
    BY <1>0, <1>4 DEF Typed, TypeOK, Answered, TimePasses, Whens, mail, day, leaving, locals
  <1>5. CASE Expire \/ OtherSend \/ SendBeside
    BY <1>0, <1>5
       DEF Typed, TypeOK, Answered, Expire, OtherSend, SendBeside, issue, leaving, locals
  <1>6. CASE DaemonPull
    BY <1>0, <1>6 DEF Typed, TypeOK, Answered, DaemonPull, issue, mail, day, locals
  <1>7. ASSUME NEW c \in Leavers, Leave(c) \/ OptOut(c)
        PROVE  Typed'
    BY <1>0, <1>7, LeaversAssumption
       DEF Typed, TypeOK, Answered, Leave, OptOut, issue, mail, day, locals
  <1>8. ASSUME NEW s \in Sessions, Session(s)
        PROVE  Typed'
    BY <1>0, <1>8 DEF Typed, TypeOK, Answered, Session, issue, mail, day, locals
  <1> QED
    BY <1>1, <1>2, <1>3, <1>4, <1>5, <1>6, <1>7, <1>8 DEF Around

(* Starting a send only moves a run and the lock. *)
LEMMA StartTyped ==
  ASSUME Typed, NEW r \in Runs, NEW o \in Options, Start(r, o)
  PROVE  Typed'
  <1>0. TypeOK /\ Answered
    BY DEF Typed
  <1>1. TypeOK'
    BY <1>0, AcquireTyped DEF Start
  <1>2. Answered'
    BY <1>0 DEF TypeOK, Answered, Start, Acquire, Goto
  <1> QED BY <1>1, <1>2 DEF Typed

LEMMA InitTyped == Init => Typed
  <1> SUFFICES ASSUME Init
               PROVE  Typed
    OBVIOUS
  <1>1. /\ pc \in [Runs -> Places] /\ opt \in [Runs -> Options]
        /\ answers \in [Runs -> [Contacts -> Answers \cup {"none", "recorded"}]]
    BY DaemonsOptions DEF Init, Places, NoAnswer
  <1>2. /\ owns \in [Runs -> BOOLEAN] /\ cut \in [Runs -> BOOLEAN]
        /\ stopped \in [Runs -> BOOLEAN]
    BY DEF Init
  <1>3. /\ gone \in [Runs -> SUBSET Contacts] /\ audience \in [Runs -> SUBSET Contacts]
        /\ todo \in [Runs -> SUBSET Contacts] /\ chunk \in [Runs -> SUBSET Contacts]
        /\ ledger \in [Contacts -> Deliveries]
        /\ copies \in [Contacts -> Nat] /\ asks \in [Contacts -> Nat]
        /\ denied \in [Contacts -> Nat]
    BY DEF Init, Deliveries
  <1>4. /\ counted \in Nat /\ uncounted \in Int /\ allowed \in Nat
        /\ leeway \in Nat /\ beside \in Nat /\ announced \in Nat /\ crashes \in Nat
    BY SizesAssumption DEF Init
  <1>5. TypeOK
    BY <1>1, <1>2, <1>3, <1>4 DEF Init, TypeOK, Statuses, Whens
  <1> QED
    BY <1>5 DEF Init, Typed, Answered

LEMMA TypedInductive == Typed /\ [Next]_vars => Typed'
  <1> SUFFICES ASSUME Typed, [Next]_vars
               PROVE  Typed'
    OBVIOUS
  <1>1. ASSUME NEW r \in Runs, Step(r)
        PROVE  Typed'
    BY <1>1, StepTyped, StepAnswered DEF Typed
  <1>2. CASE UNCHANGED vars
    BY <1>2 DEF Typed, TypeOK, Answered, vars, issue, mail, day, leaving, locals
  <1> QED
    BY <1>1, <1>2, StartTyped, AroundTyped DEF Next

(* Every variable keeps its type, on every list and in every crash. *)
THEOREM TypeCorrect == Spec => []TypeOK
  <1>1. Typed => TypeOK
    BY DEF Typed
  <1> QED
    BY InitTyped, TypedInductive, <1>1, PTL DEF Spec

(***************************************************************************)
(* Nobody gets the issue twice.  The lock lets one run at a time into the  *)
(* ledger, provided each run is a process of its own: the lock does not    *)
(* keep two calls of one process apart.                                    *)
(***************************************************************************)
OneRunPerProcess == \A r, s \in Runs : ProcOf[r] = ProcOf[s] => r = s

Walking == {"mark", "answer", "close", "relay", "release"}
Busy == Walking \cup {"sync", "begin"}

LockHeld == \A r \in Runs : pc[r] \in Busy => lock = ProcOf[r]

(* A batch exists only during its run; a chunk, between mark and answer. *)
Batches ==
  \A r \in Runs :
    /\ pc[r] \notin Walking => todo[r] = {}
    /\ pc[r] \notin {"mark", "answer"} => chunk[r] = {}
    /\ todo[r] \cap chunk[r] = {}

(* The person has no copy that nobody asked for again. *)
Open(c) == copies[c] <= Allowance(c)

BatchIsOpen == \A r \in Runs : \A c \in todo[r] : Open(c)

ChunkIsPending ==
  \A r \in Runs : \A c \in chunk[r] :
    /\ \/ ledger[c] = "pending"
       \/ ledger[c] = "sent" /\ pc[r] = "answer" /\ answers[r][c] = "recorded"
    /\ pc[r] = "mark" => Open(c)
    /\ pc[r] = "answer" /\ answers[r][c] \in {"retry", "refused", "exhausted"} => Open(c)

LedgerInv ==
  /\ Typed
  /\ LockHeld /\ Batches /\ BatchIsOpen /\ ChunkIsPending
  /\ NotTakenUnlessRecorded /\ NobodyTwice

(* Only the run that holds the lock has a batch or a chunk. *)
LEMMA OthersAreOut ==
  ASSUME OneRunPerProcess, LockHeld, Batches,
         NEW r \in Runs, pc[r] \in Busy, NEW s \in Runs, s # r
  PROVE  pc[s] \notin Busy /\ todo[s] = {} /\ chunk[s] = {}
  BY DEF OneRunPerProcess, LockHeld, Batches, Busy, Walking

(* The provider takes each copy of a chunk at most once, and only of people  *)
(* whose row has been marked.                                                *)
LEMMA CallKeepsLedger ==
  ASSUME OneRunPerProcess, LedgerInv, NEW r \in Runs, Call(r), Typed'
  PROVE  LedgerInv'
  <1>0. /\ Typed /\ TypeOK /\ LockHeld /\ Batches /\ BatchIsOpen /\ ChunkIsPending
        /\ NotTakenUnlessRecorded /\ NobodyTwice
    BY DEF LedgerInv, Typed
  <1>1. PICK reply \in [chunk[r] -> Answers], taken \in SUBSET chunk[r] :
          /\ Exchange(chunk[r], reply, taken)
          /\ copies' = [c \in Contacts |->
                          IF c \in taken THEN copies[c] + 1 ELSE copies[c]]
          /\ denied' = [c \in Contacts |->
                          IF c \in Denied(reply, taken) THEN denied[c] + 1 ELSE denied[c]]
          /\ answers' = [answers EXCEPT ![r] =
                           [c \in Contacts |->
                              IF c \in chunk[r] THEN reply[c] ELSE "none"]]
    BY DEF Call
  <1>2. /\ pc[r] = "mark" /\ pc' = [pc EXCEPT ![r] = "answer"]
        /\ UNCHANGED <<ledger, asks, lock, todo, chunk>>
    BY DEF Call, Goto
  <1>3. \A s \in Runs \ {r} : todo[s] = {} /\ chunk[s] = {} /\ pc[s] \notin Busy
    BY <1>0, <1>2, OthersAreOut DEF Busy, Walking
  <1>4. \A c \in chunk[r] : /\ c \in Contacts /\ c \notin todo[r]
                            /\ Open(c) /\ ledger[c] = "pending"
    BY <1>0, <1>2 DEF TypeOK, ChunkIsPending, Batches
  <1>5. \A c \in Contacts \ taken : copies'[c] = copies[c] /\ denied'[c] = denied[c]
    BY <1>1 DEF Denied
  <1>6. \A c \in taken :
          /\ copies'[c] = copies[c] + 1 /\ denied'[c] \in {denied[c], denied[c] + 1}
          /\ reply[c] \in {"retry", "refused"} => denied'[c] = denied[c] + 1
          /\ reply[c] # "exhausted"
    BY <1>1, <1>4 DEF Denied, Exchange
  <1>7. LockHeld' /\ Batches'
    BY <1>0, <1>2 DEF TypeOK, LockHeld, Batches, Busy, Walking
  <1>8. BatchIsOpen'
    BY <1>0, <1>2, <1>3, <1>4, <1>5 DEF TypeOK, BatchIsOpen, Open, Allowance
  <1>9. ChunkIsPending'
    <2> SUFFICES ASSUME NEW s \in Runs, NEW c \in chunk'[s]
                 PROVE  /\ ledger'[c] = "pending" /\ pc'[s] # "mark"
                        /\ answers'[s][c] \in {"retry", "refused", "exhausted"} => Open(c)'
      BY DEF ChunkIsPending
    <2>1. s = r /\ c \in chunk[r] /\ c \in Contacts
      BY <1>0, <1>2, <1>3 DEF TypeOK
    <2>2. answers'[r][c] = reply[c]
      BY <1>0, <1>1, <2>1 DEF TypeOK
    <2>3. pc'[r] = "answer" /\ ledger[c] = "pending" /\ Open(c)
      BY <1>0, <1>2, <1>4, <2>1 DEF TypeOK
    <2>4. reply[c] \in {"retry", "refused", "exhausted"} => Open(c)'
      BY <1>0, <1>2, <1>5, <1>6, <2>1, <2>3 DEF TypeOK, Open, Allowance
    <2> QED
      BY <1>2, <2>1, <2>2, <2>3, <2>4
  <1>10. NotTakenUnlessRecorded'
    BY <1>0, <1>2, <1>4, <1>5 DEF NotTakenUnlessRecorded, Unrecorded, Allowance
  <1>11. NobodyTwice'
    <2> SUFFICES ASSUME NEW c \in Contacts
                 PROVE  copies'[c] <= 1 + (asks'[c] + denied'[c])
      BY DEF NobodyTwice, Allowance
    <2>1. /\ copies[c] \in Nat /\ asks[c] \in Nat /\ denied[c] \in Nat
          /\ copies[c] <= 1 + (asks[c] + denied[c]) /\ asks'[c] = asks[c]
      BY <1>0, <1>2 DEF TypeOK, NobodyTwice, Allowance
    <2>2. CASE c \in taken
      <3>1. copies[c] <= asks[c] + denied[c]
        BY <1>4, <2>2 DEF Open, Allowance
      <3>2. copies'[c] = copies[c] + 1 /\ denied'[c] \in {denied[c], denied[c] + 1}
        BY <1>6, <2>2
      <3> QED
        BY <2>1, <3>1, <3>2
    <2>3. CASE c \notin taken
      BY <1>5, <2>1, <2>3
    <2> QED BY <2>2, <2>3
  <1> QED
    BY <1>7, <1>8, <1>9, <1>10, <1>11 DEF LedgerInv

(* What both ways of ending an answer do. *)
LEMMA HandledMoves ==
  ASSUME Typed, NEW r \in Runs, NEW c \in Contacts, NEW stops, Handled(r, c, stops),
         pc[r] = "answer", c \in chunk[r], todo' = todo
  PROVE  /\ chunk'[r] = chunk[r] \ {c} /\ answers'[r][c] = "none"
         /\ pc'[r] = "answer" \/ (chunk[r] = {c} /\ pc'[r] \in {"close", "mark"})
         /\ \A d \in Contacts \ {c} : answers'[r][d] = answers[r][d]
         /\ \A s \in Runs \ {r} : /\ pc'[s] = pc[s] /\ chunk'[s] = chunk[s]
                                  /\ answers'[s] = answers[s]
  BY DEF Typed, TypeOK, Handled, Goto

(* A row that is written as its answer is handled: only a person with no     *)
(* copy but what was asked for or denied is left to be sent to again.        *)
LEMMA HandledKeepsLedger ==
  ASSUME OneRunPerProcess, LedgerInv, Typed', NEW r \in Runs, NEW c \in Contacts,
         NEW stops, Handled(r, c, stops), pc[r] = "answer", c \in chunk[r],
         UNCHANGED <<copies, asks, denied, lock, todo>>,
         \A d \in Contacts \ {c} : ledger'[d] = ledger[d],
         Unrecorded(c)' => Open(c)
  PROVE  LedgerInv'
  <1>0. /\ Typed /\ TypeOK /\ LockHeld /\ Batches /\ BatchIsOpen
        /\ ChunkIsPending /\ NotTakenUnlessRecorded /\ NobodyTwice
    BY DEF LedgerInv, Typed
  <1>1. /\ chunk'[r] = chunk[r] \ {c}
        /\ pc'[r] = "answer" \/ (chunk[r] = {c} /\ pc'[r] \in {"close", "mark"})
        /\ \A d \in Contacts \ {c} : answers'[r][d] = answers[r][d]
        /\ \A s \in Runs \ {r} : /\ pc'[s] = pc[s] /\ chunk'[s] = chunk[s]
                                 /\ answers'[s] = answers[s]
    BY <1>0, HandledMoves
  <1>2. \A s \in Runs \ {r} : todo[s] = {} /\ chunk[s] = {} /\ pc[s] \notin Busy
    BY <1>0, OthersAreOut DEF Busy, Walking
  <1>3. LockHeld' /\ Batches'
    BY <1>0, <1>1, <1>2 DEF LockHeld, Batches, Busy, Walking
  <1>4. BatchIsOpen'
    BY <1>0 DEF BatchIsOpen, Open, Allowance
  <1>5. ChunkIsPending'
    <2> SUFFICES ASSUME NEW s \in Runs, NEW d \in chunk'[s]
                 PROVE  /\ \/ ledger'[d] = "pending"
                           \/ ledger'[d] = "sent" /\ answers'[s][d] = "recorded"
                        /\ pc'[s] = "answer"
                        /\ answers'[s][d] \in {"retry", "refused", "exhausted"} => Open(d)'
      BY DEF ChunkIsPending
    <2>1. s = r /\ d \in chunk[r] /\ d # c /\ d \in Contacts
      BY <1>0, <1>1, <1>2 DEF TypeOK
    <2>2. pc'[r] = "answer" /\ answers'[r][d] = answers[r][d] /\ ledger'[d] = ledger[d]
      BY <1>1, <2>1
    <2> QED
      BY <1>0, <2>1, <2>2 DEF ChunkIsPending, Open, Allowance
  <1>6. NotTakenUnlessRecorded'
    BY <1>0 DEF NotTakenUnlessRecorded, Unrecorded, Open, Allowance
  <1>7. NobodyTwice'
    BY <1>0 DEF NobodyTwice, Allowance
  <1> QED
    BY <1>3, <1>4, <1>5, <1>6, <1>7 DEF LedgerInv

(* An answer takes the mark back only from a person with no copy but those. *)
LEMMA AfterKeepsLedger ==
  ASSUME OneRunPerProcess, LedgerInv, NEW r \in Runs, NEW c \in Contacts,
         After(r, c), Typed'
  PROVE  LedgerInv'
  <1>0. /\ Typed /\ TypeOK /\ Answered /\ ChunkIsPending
    BY DEF LedgerInv, Typed
  <1>1. /\ pc[r] = "answer" /\ c \in chunk[r] /\ answers[r][c] \notin {"ok", "recorded"}
        /\ ledger' = [ledger EXCEPT ![c] = Row(ledger[c], answers[r][c])]
        /\ Handled(r, c, stopped[r] \/ answers[r][c] \in {"died", "retry"})
        /\ UNCHANGED <<copies, asks, denied, lock, todo>>
    BY DEF After, Between
  <1>2. /\ answers[r][c] \in Answers /\ ledger[c] = "pending"
        /\ answers[r][c] \in {"retry", "refused", "exhausted"} => Open(c)
    BY <1>0, <1>1 DEF Answered, ChunkIsPending
  <1>3. Unrecorded(c)' => Open(c)
    BY <1>0, <1>1, <1>2 DEF TypeOK, Row, Answers, Unrecorded
  <1>4. \A d \in Contacts \ {c} : ledger'[d] = ledger[d]
    BY <1>0, <1>1 DEF TypeOK
  <1> QED
    BY <1>1, <1>3, <1>4, HandledKeepsLedger

(* The row of a message that is out says so, before it is counted ... *)
LEMMA RecordKeepsLedger ==
  ASSUME OneRunPerProcess, LedgerInv, NEW r \in Runs, NEW c \in Contacts,
         Record(r, c), Typed'
  PROVE  LedgerInv'
  <1>0. /\ Typed /\ TypeOK /\ LockHeld /\ Batches /\ BatchIsOpen /\ ChunkIsPending
        /\ NotTakenUnlessRecorded /\ NobodyTwice
    BY DEF LedgerInv, Typed
  <1>1. /\ pc[r] = "answer" /\ c \in chunk[r]
        /\ ledger' = [ledger EXCEPT ![c] = "sent"]
        /\ answers' = [answers EXCEPT ![r] = [answers[r] EXCEPT ![c] = "recorded"]]
        /\ UNCHANGED <<copies, asks, denied, lock, todo, chunk, pc>>
    BY DEF Record, Between, Row
  <1>2. \A s \in Runs \ {r} : chunk[s] = {}
    BY <1>0, <1>1, OthersAreOut DEF Busy, Walking
  <1>3. LockHeld' /\ Batches' /\ BatchIsOpen' /\ NobodyTwice'
    BY <1>0, <1>1 DEF LockHeld, Batches, BatchIsOpen, NobodyTwice, Open, Allowance
  <1>4. ChunkIsPending'
    BY <1>0, <1>1, <1>2 DEF TypeOK, ChunkIsPending, Open, Allowance
  <1>5. NotTakenUnlessRecorded'
    BY <1>0, <1>1 DEF TypeOK, NotTakenUnlessRecorded, Unrecorded, Allowance
  <1> QED
    BY <1>3, <1>4, <1>5 DEF LedgerInv

(* ... and stays as it is when it is. *)
LEMMA CountKeepsLedger ==
  ASSUME OneRunPerProcess, LedgerInv, NEW r \in Runs, NEW c \in Contacts,
         Count(r, c), Typed'
  PROVE  LedgerInv'
  <1>0. Typed /\ ChunkIsPending
    BY DEF LedgerInv
  <1>1. /\ pc[r] = "answer" /\ c \in chunk[r] /\ answers[r][c] = "recorded"
        /\ Handled(r, c, stopped[r])
        /\ UNCHANGED <<ledger, copies, asks, denied, lock, todo>>
    BY DEF Count
  <1>2. Unrecorded(c)' => Unrecorded(c)
    BY <1>1 DEF Unrecorded
  <1>3. Unrecorded(c) => Open(c)
    BY DEF LedgerInv, NotTakenUnlessRecorded, Open
  <1> QED
    BY <1>1, <1>2, <1>3, HandledKeepsLedger

(* A batch is drawn from people with no copy, and from uncertain ones whose  *)
(* copy is being asked for again.                                            *)
LEMMA BeginKeepsLedger ==
  ASSUME OneRunPerProcess, LedgerInv, NEW r \in Runs, Begin(r), Typed'
  PROVE  LedgerInv'
  <1>0. /\ Typed /\ TypeOK /\ LockHeld /\ Batches /\ BatchIsOpen /\ ChunkIsPending
        /\ NotTakenUnlessRecorded /\ NobodyTwice
    BY DEF LedgerInv, Typed
  <1>1. PICK batch \in SUBSET Due(r) :
          /\ todo' = [todo EXCEPT ![r] = batch]
          /\ asks' = [c \in Contacts |->
                        IF c \in batch /\ ledger[c] = "pending" /\ opt[r].uncertain
                        THEN asks[c] + 1 ELSE asks[c]]
          /\ Goto(r, IF batch = {} THEN "close" ELSE "mark")
    BY DEF Begin
  <1>2. pc[r] = "begin" /\ UNCHANGED <<ledger, copies, denied, lock, chunk, answers>>
    BY DEF Begin
  <1>3. \A s \in Runs \ {r} : todo[s] = {} /\ chunk[s] = {} /\ pc[s] \notin Busy
    BY <1>0, <1>2, OthersAreOut DEF Busy, Walking
  <1>4. \A s \in Runs : chunk[s] = {}
    BY <1>0, <1>2, <1>3 DEF Batches
  <1>5. \A c \in batch : /\ c \in Contacts
                         /\ \/ ledger[c] \in {"none", "retry", "failed"}
                            \/ ledger[c] = "pending" /\ opt[r].uncertain
    BY <1>0, ListsAssumption DEF TypeOK, Due, Recipients
  <1>6. \A c \in Contacts : asks'[c] \in Nat /\ asks[c] \in Nat /\ asks[c] <= asks'[c]
                            /\ copies[c] \in Nat /\ denied[c] \in Nat
    BY <1>0, <1>1 DEF TypeOK
  <1>7. \A c \in batch : copies[c] <= asks'[c] + denied[c]
    BY <1>0, <1>1, <1>5, <1>6
       DEF NobodyTwice, NotTakenUnlessRecorded, Unrecorded, Allowance, TypeOK
  <1>8. LockHeld' /\ Batches'
    BY <1>0, <1>1, <1>2, <1>4 DEF TypeOK, LockHeld, Batches, Busy, Walking, Goto
  <1>9. BatchIsOpen'
    BY <1>0, <1>1, <1>2, <1>3, <1>7 DEF TypeOK, BatchIsOpen, Open, Allowance
  <1>10. ChunkIsPending'
    BY <1>2, <1>4 DEF ChunkIsPending
  <1>11. NotTakenUnlessRecorded' /\ NobodyTwice'
    BY <1>0, <1>2, <1>6 DEF TypeOK, NotTakenUnlessRecorded, NobodyTwice, Unrecorded, Allowance
  <1> QED
    BY <1>8, <1>9, <1>10, <1>11 DEF LedgerInv

(* The row is written before the call: whoever is marked was open. *)
LEMMA MarkKeepsLedger ==
  ASSUME OneRunPerProcess, LedgerInv, NEW r \in Runs, NEW c \in Contacts,
         Mark(r, c), Typed'
  PROVE  LedgerInv'
  <1>0. /\ Typed /\ TypeOK /\ LockHeld /\ Batches /\ BatchIsOpen /\ ChunkIsPending
        /\ NotTakenUnlessRecorded /\ NobodyTwice
    BY DEF LedgerInv, Typed
  <1>1. /\ pc[r] = "mark" /\ c \in todo[r]
        /\ ledger' = [ledger EXCEPT ![c] = "pending"]
        /\ todo' = [todo EXCEPT ![r] = todo[r] \ {c}]
        /\ chunk' = [chunk EXCEPT ![r] = chunk[r] \cup {c}]
        /\ UNCHANGED <<copies, asks, denied, lock, pc, answers>>
    BY DEF Mark
  <1>2. \A s \in Runs \ {r} : todo[s] = {} /\ chunk[s] = {}
    BY <1>0, <1>1, OthersAreOut DEF Busy, Walking
  <1>3. LockHeld' /\ Batches'
    BY <1>0, <1>1 DEF TypeOK, LockHeld, Batches, Walking
  <1>4. BatchIsOpen'
    BY <1>0, <1>1, <1>2 DEF TypeOK, BatchIsOpen, Open, Allowance
  <1>5. ChunkIsPending'
    BY <1>0, <1>1, <1>2 DEF TypeOK, ChunkIsPending, BatchIsOpen, Open, Allowance
  <1>6. NotTakenUnlessRecorded' /\ NobodyTwice'
    BY <1>0, <1>1 DEF TypeOK, NotTakenUnlessRecorded, NobodyTwice, Unrecorded, Allowance
  <1> QED
    BY <1>3, <1>4, <1>5, <1>6 DEF LedgerInv

(* A return and a crash drop the lock with the batch; rows stay as written. *)
LEMMA EndKeepsLedger ==
  ASSUME OneRunPerProcess, LedgerInv, Typed',
         NEW S \in SUBSET Runs, Forget(S), UNCHANGED <<ledger, copies, asks, denied>>,
         \A r \in Runs \ S : pc[r] \in Busy => lock' = lock
  PROVE  LedgerInv'
  <1>0. /\ Typed /\ TypeOK /\ LockHeld /\ Batches /\ BatchIsOpen /\ ChunkIsPending
        /\ NotTakenUnlessRecorded /\ NobodyTwice
    BY DEF LedgerInv, Typed
  <1>1. UNCHANGED <<ledger, copies, asks, denied>>
    OBVIOUS
  <1>2. \A r \in S : pc'[r] = "idle" /\ todo'[r] = {} /\ chunk'[r] = {}
    BY DEF Forget
  <1>3. \A r \in Runs \ S : /\ pc'[r] = pc[r] /\ todo'[r] = todo[r]
                            /\ chunk'[r] = chunk[r] /\ answers'[r] = answers[r]
    BY DEF Forget
  <1>4. LockHeld' /\ Batches'
    BY <1>0, <1>2, <1>3 DEF LockHeld, Batches, Busy, Walking
  <1>5. BatchIsOpen' /\ ChunkIsPending'
    BY <1>0, <1>1, <1>2, <1>3 DEF BatchIsOpen, ChunkIsPending, Open, Allowance
  <1>6. NotTakenUnlessRecorded' /\ NobodyTwice'
    BY <1>0, <1>1 DEF NotTakenUnlessRecorded, NobodyTwice, Unrecorded, Allowance
  <1> QED
    BY <1>4, <1>5, <1>6 DEF LedgerInv

(* A step that touches neither the ledger nor a batch, and takes a run from  *)
(* outside the walk only to where it has the lock, keeps the invariant.      *)
LEMMA AsideKeepsLedger ==
  ASSUME LedgerInv, Typed', UNCHANGED <<ledger, copies, asks, denied, todo, chunk, answers>>,
         LockHeld',
         \A r \in Runs : \/ pc'[r] = pc[r]
                         \/ /\ pc[r] \in Walking => pc'[r] \in Walking
                            /\ pc[r] \notin {"mark", "answer"}
                            /\ pc'[r] \notin {"mark", "answer"}
  PROVE  LedgerInv'
  <1>1. Batches'
    BY DEF LedgerInv, Batches, Walking
  <1>2. BatchIsOpen' /\ ChunkIsPending'
    BY DEF LedgerInv, BatchIsOpen, ChunkIsPending, Open, Allowance, Batches
  <1>3. NotTakenUnlessRecorded' /\ NobodyTwice'
    BY DEF LedgerInv, NotTakenUnlessRecorded, NobodyTwice, Unrecorded, Allowance
  <1> QED
    BY <1>1, <1>2, <1>3 DEF LedgerInv

LEMMA AcquireKeepsLedger ==
  ASSUME OneRunPerProcess, LedgerInv, Typed', NEW r \in Runs, NEW o,
         Acquire(r, o), pc[r] \notin Busy
  PROVE  LedgerInv'
  <1>1. /\ lock \in {Nobody, ProcOf[r]} /\ lock' = ProcOf[r]
        /\ pc' = [pc EXCEPT ![r] = "sync"]
        /\ UNCHANGED <<ledger, copies, asks, denied, todo, chunk, answers>>
    BY DEF Acquire, Goto, mail, day
  <1>2. \A s \in Runs : pc[s] \in Busy => lock = ProcOf[s] /\ ProcOf[s] \in Procs
    BY RunsAssumption DEF LedgerInv, LockHeld
  <1>3. \A s \in Runs : pc[s] \notin Busy
    BY <1>1, <1>2, NobodyAssumption DEF OneRunPerProcess
  <1>4. LockHeld'
    BY <1>1, <1>3 DEF LedgerInv, Typed, TypeOK, LockHeld
  <1> QED
    BY <1>1, <1>3, <1>4, AsideKeepsLedger DEF LedgerInv, Typed, TypeOK, Busy, Walking

LEMMA LedgerInvInductive ==
  ASSUME OneRunPerProcess, LedgerInv, [Next]_vars
  PROVE  LedgerInv'
  <1>0. Typed /\ TypeOK /\ LockHeld /\ Typed'
    BY TypedInductive DEF LedgerInv, Typed
  <1>1. ASSUME NEW r \in Runs, Step(r)
        PROVE  LedgerInv'
    <2>1. CASE Sync(r) \/ Refuse(r) \/ Close(r) \/ Relay(r)
      <3>1. UNCHANGED <<ledger, copies, asks, denied, todo, chunk, answers, lock>>
        BY <2>1 DEF Sync, PullAnswered, PullFailed, PullSkipped, Refuse, Close, Relay,
                    mail, day, locals
      <3>2. /\ pc[r] \in {"sync", "begin", "close", "relay"}
            /\ \E place \in {"begin", "release", "relay"} :
                 /\ pc' = [pc EXCEPT ![r] = place]
                 /\ pc[r] \in Walking => place \in Walking
        BY <2>1 DEF Sync, PullAnswered, PullFailed, PullSkipped, Refuse, Close, Relay,
                    Goto, Walking
      <3>3. LockHeld'
        BY <1>0, <3>1, <3>2 DEF TypeOK, LockHeld, Busy, Walking
      <3> QED
        BY <1>0, <3>1, <3>2, <3>3, AsideKeepsLedger DEF TypeOK
    <2>2. CASE DaemonPick(r) \/ DaemonSkip(r)
      <3>1. UNCHANGED <<ledger, copies, asks, denied, todo, chunk, answers, lock>>
        BY <2>2 DEF DaemonPick, DaemonSkip, mail, day, locals
      <3>2. /\ pc[r] \in {"idle", "picked"}
            /\ \E place \in {"idle", "picked"} : pc' = [pc EXCEPT ![r] = place]
        BY <2>2 DEF DaemonPick, DaemonSkip, Goto
      <3>3. LockHeld'
        BY <1>0, <3>1, <3>2 DEF TypeOK, LockHeld, Busy, Walking
      <3> QED
        BY <1>0, <3>1, <3>2, <3>3, AsideKeepsLedger DEF TypeOK, Walking
    <2>3. CASE DaemonSend(r)
      BY <1>0, <2>3, AcquireKeepsLedger DEF DaemonSend, Busy, Walking
    <2>4. CASE Release(r)
      <3>1. \A s \in Runs \ {r} : pc[s] \notin Busy
        BY <1>0, <2>4, OthersAreOut DEF LedgerInv, Release, Busy, Walking
      <3> QED
        BY <1>0, <2>4, <3>1, EndKeepsLedger DEF Release, mail
    <2> QED
      BY <1>0, <1>1, <2>1, <2>2, <2>3, <2>4, BeginKeepsLedger, MarkKeepsLedger,
         CallKeepsLedger, RecordKeepsLedger, CountKeepsLedger, AfterKeepsLedger DEF Step
  <1>2. ASSUME NEW r \in Runs, NEW o \in Options, Start(r, o)
        PROVE  LedgerInv'
    BY <1>0, <1>2, AcquireKeepsLedger DEF Start, Busy, Walking
  <1>3. ASSUME NEW p \in Procs, Crash(p)
        PROVE  LedgerInv'
    <2>1. \A r \in Runs : ProcOf[r] # p /\ pc[r] \in Busy => lock' = lock
      BY <1>0, <1>3 DEF LockHeld, Crash
    <2> DEFINE S == {r \in Runs : ProcOf[r] = p}
    <2>2. \A r \in Runs \ S : pc[r] \in Busy => lock' = lock
      BY <2>1
    <2>3. Forget(S) /\ UNCHANGED <<ledger, copies, asks, denied>>
      BY <1>3 DEF Crash
    <2> QED
      BY <1>0, <2>2, <2>3, EndKeepsLedger
  <1>4. ASSUME UNCHANGED <<ledger, copies, asks, denied, todo, chunk, answers, lock, pc>>
        PROVE  LedgerInv'
    BY <1>0, <1>4, AsideKeepsLedger DEF LockHeld
  <1>5. CASE UNCHANGED vars
    BY <1>4, <1>5 DEF vars, mail, day, locals
  <1>6. CASE Around
    <2>1. CASE \E w \in Times : Schedule(w)
      BY <1>4, <2>1 DEF Schedule, mail, day, locals
    <2>2. CASE \E l \in Lists : EditList(l)
      BY <1>4, <2>2 DEF EditList, mail, day, locals
    <2>3. CASE TimePasses \/ Expire \/ OtherSend \/ SendBeside \/ DaemonPull
      BY <1>4, <2>3 DEF TimePasses, Expire, OtherSend, SendBeside, DaemonPull, mail, day, locals
    <2>4. CASE \E c \in Leavers : Leave(c) \/ OptOut(c)
      BY <1>4, <2>4 DEF Leave, OptOut, mail, day, locals
    <2>5. CASE \E s \in Sessions : Session(s)
      BY <1>4, <2>5 DEF Session, mail, day, locals
    <2> QED
      BY <1>3, <1>6, <2>1, <2>2, <2>3, <2>4, <2>5 DEF Around
  <1> QED
    BY <1>1, <1>2, <1>5, <1>6 DEF Next

LEMMA LedgerInvInit == Init => LedgerInv
  <1> SUFFICES ASSUME Init
               PROVE  LedgerInv
    OBVIOUS
  <1>1. Typed
    BY InitTyped
  <1>2. LockHeld /\ Batches /\ BatchIsOpen /\ ChunkIsPending
    BY DEF Init, LockHeld, Batches, BatchIsOpen, ChunkIsPending, Busy, Walking
  <1>3. NotTakenUnlessRecorded /\ NobodyTwice
    BY DEF Init, NotTakenUnlessRecorded, NobodyTwice, Unrecorded, Allowance
  <1> QED
    BY <1>1, <1>2, <1>3 DEF LedgerInv

LEMMA LedgerInvAlways == OneRunPerProcess => (Spec => []LedgerInv)
  <1> SUFFICES ASSUME OneRunPerProcess
               PROVE  Spec => []LedgerInv
    OBVIOUS
  <1>1. LedgerInv /\ [Next]_vars => LedgerInv'
    BY LedgerInvInductive
  <1> QED
    BY LedgerInvInit, <1>1, PTL DEF Spec

(* README.md:69: on no list, in no batch size and after no crash does anybody *)
(* get one copy more than was asked for.                                     *)
THEOREM NobodyGetsItTwice == OneRunPerProcess => (Spec => []NobodyTwice)
  <1>1. LedgerInv => NobodyTwice
    BY DEF LedgerInv
  <1> QED
    BY LedgerInvAlways, <1>1, PTL

(* What --retry-failed and the next run send without asking, nobody has. *)
THEOREM RefusedMeansNotTaken == OneRunPerProcess => (Spec => []NotTakenUnlessRecorded)
  <1>1. LedgerInv => NotTakenUnlessRecorded
    BY DEF LedgerInv
  <1> QED
    BY LedgerInvAlways, <1>1, PTL

(***************************************************************************)
(* The ledger keeps the promise of OneCopy.                                *)
(***************************************************************************)
LEMMA StepKeepsThePromise ==
  ASSUME LedgerInv, [Next]_vars
  PROVE  [Promise!Next]_(Promise!vars)
  <1> DEFINE Owed == {c \in Contacts : Unrecorded(c)}
  <1>0. TypeOK /\ Answered /\ ChunkIsPending /\ Batches
    BY DEF LedgerInv, Typed
  <1>1. ASSUME UNCHANGED <<ledger, copies, asks, denied>>
        PROVE  UNCHANGED Promise!vars
    BY <1>1 DEF Promise!vars, Unrecorded, Allowance
  <1>2. ASSUME NEW r \in Runs, Begin(r)
        PROVE  Promise!Next
    <2>1. PICK batch \in SUBSET Due(r) :
            asks' = [c \in Contacts |->
                       IF c \in batch /\ ledger[c] = "pending" /\ opt[r].uncertain
                       THEN asks[c] + 1 ELSE asks[c]]
      BY <1>2 DEF Begin
    <2> DEFINE S == {c \in Contacts : c \in batch /\ ledger[c] = "pending" /\ opt[r].uncertain}
    <2>2. S \cap Owed = {}
      BY DEF Unrecorded
    <2>4. UNCHANGED <<ledger, copies, denied>>
      BY <1>2 DEF Begin
    <2>3. [c \in Contacts |-> Allowance(c)'] =
            [c \in Contacts |-> IF c \in S THEN Allowance(c) + 1 ELSE Allowance(c)]
      BY <1>0, <2>1, <2>4 DEF TypeOK, Allowance
    <2>5. Promise!Ask(S)
      BY <2>2, <2>3, <2>4 DEF Promise!Ask, Unrecorded
    <2> QED
      BY <2>5 DEF Promise!Next
  <1>3. ASSUME NEW r \in Runs, NEW c \in Contacts, Mark(r, c)
        PROVE  Promise!Next
    <2>1. ledger' = [ledger EXCEPT ![c] = "pending"] /\ UNCHANGED <<copies, asks, denied>>
      BY <1>3 DEF Mark
    <2>2. {d \in Contacts : Unrecorded(d)'} = Owed \ {c}
      BY <1>0, <2>1 DEF TypeOK, Unrecorded
    <2>3. Promise!Attempt(c)
      BY <2>1, <2>2 DEF Promise!Attempt, Allowance
    <2> QED
      BY <2>3 DEF Promise!Next
  <1>4. ASSUME NEW r \in Runs, Call(r)
        PROVE  Promise!Next
    <2>1. PICK reply \in [chunk[r] -> Answers], taken \in SUBSET chunk[r] :
            /\ copies' = [c \in Contacts |->
                            IF c \in taken THEN copies[c] + 1 ELSE copies[c]]
            /\ denied' = [c \in Contacts |->
                            IF c \in Denied(reply, taken) THEN denied[c] + 1 ELSE denied[c]]
      BY <1>4 DEF Call
    <2> DEFINE D == Denied(reply, taken)
    <2>2. pc[r] = "mark" /\ UNCHANGED <<ledger, asks>>
      BY <1>4 DEF Call
    <2>3. \A c \in taken : c \notin Owed /\ copies[c] <= Allowance(c)
      BY <1>0, <2>2 DEF ChunkIsPending, Open, Unrecorded
    <2>4. taken \in SUBSET Contacts /\ D \subseteq taken
      BY <1>0 DEF TypeOK, Denied
    <2>5. [c \in Contacts |-> Allowance(c)'] =
            [c \in Contacts |-> IF c \in D THEN Allowance(c) + 1 ELSE Allowance(c)]
      BY <1>0, <2>1, <2>2 DEF TypeOK, Allowance
    <2>6. \A c \in taken : copies[c] <= [d \in Contacts |-> Allowance(d)][c]
      BY <2>3, <2>4
    <2>7. Promise!HandOver(taken, D)
      BY <2>1, <2>2, <2>3, <2>4, <2>5, <2>6 DEF Promise!HandOver, Unrecorded
    <2> QED
      BY <2>4, <2>7 DEF Promise!Next
  <1>5. ASSUME NEW r \in Runs, NEW c \in Contacts, After(r, c)
        PROVE  [Promise!Next]_(Promise!vars)
    <2>1. /\ pc[r] = "answer" /\ c \in chunk[r]
          /\ ledger' = [ledger EXCEPT ![c] = Row(ledger[c], answers[r][c])]
          /\ answers[r][c] \notin {"ok", "recorded"} /\ UNCHANGED <<copies, asks, denied>>
      BY <1>5 DEF After, Between
    <2>2. /\ answers[r][c] \in Answers /\ ledger[c] = "pending"
          /\ answers[r][c] # "died" => copies[c] <= Allowance(c)
      BY <1>0, <2>1 DEF Answered, Answers, ChunkIsPending, Open
    <2>3. CASE answers[r][c] = "died"
      <3>1. ledger'[c] \in {"sent", "pending"}
            /\ \A d \in Contacts \ {c} : ledger'[d] = ledger[d]
        BY <1>0, <2>1, <2>2, <2>3 DEF TypeOK, Row
      <3>2. {d \in Contacts : Unrecorded(d)'} = Owed
        BY <2>2, <3>1 DEF Unrecorded
      <3> QED
        BY <2>1, <3>2 DEF Promise!vars, Allowance
    <2>4. CASE answers[r][c] # "died"
      <3>1. ledger'[c] \in {"failed", "retry"}
            /\ \A d \in Contacts \ {c} : ledger'[d] = ledger[d]
        BY <1>0, <2>1, <2>2, <2>4 DEF TypeOK, Row, Answers
      <3>2. {d \in Contacts : Unrecorded(d)'} = Owed \cup {c}
        BY <3>1 DEF Unrecorded
      <3>3. Promise!Fail(c)
        BY <2>1, <2>2, <2>4, <3>2 DEF Promise!Fail, Allowance
      <3> QED
        BY <3>3 DEF Promise!Next
    <2> QED BY <2>3, <2>4
  <1>10. ASSUME NEW r \in Runs, NEW c \in Contacts, Record(r, c)
         PROVE  UNCHANGED Promise!vars
    <2>1. /\ c \in chunk[r] /\ pc[r] = "answer"
          /\ ledger' = [ledger EXCEPT ![c] = "sent"] /\ UNCHANGED <<copies, asks, denied>>
      BY <1>10 DEF Record, Between, Row
    <2>2. ~Unrecorded(c) /\ ~Unrecorded(c)'
      BY <1>0, <2>1 DEF TypeOK, ChunkIsPending, Unrecorded
    <2>3. \A d \in Contacts \ {c} : Unrecorded(d)' = Unrecorded(d)
      BY <1>0, <2>1 DEF TypeOK, Unrecorded
    <2>4. {d \in Contacts : Unrecorded(d)'} = Owed
      BY <2>2, <2>3
    <2> QED
      BY <2>1, <2>4 DEF Promise!vars, Allowance
  <1>6. ASSUME NEW r \in Runs, Step(r)
        PROVE  [Promise!Next]_(Promise!vars)
    <2>1. CASE Sync(r) \/ Refuse(r) \/ Close(r) \/ Relay(r) \/ Release(r)
      BY <1>1, <2>1 DEF Sync, PullAnswered, PullFailed, PullSkipped, Refuse, Close,
                        Relay, Release, mail, day
    <2>2. CASE DaemonPick(r) \/ DaemonSend(r) \/ DaemonSkip(r)
      BY <1>1, <2>2 DEF DaemonPick, DaemonSend, DaemonSkip, Acquire, mail, day
    <2>3. ASSUME NEW c \in Contacts, Count(r, c)
          PROVE  UNCHANGED Promise!vars
      BY <1>1, <2>3 DEF Count
    <2> QED
      BY <1>2, <1>3, <1>4, <1>5, <1>6, <1>10, <2>1, <2>2, <2>3 DEF Step
  <1>7. ASSUME NEW r \in Runs, NEW o \in Options, Start(r, o)
        PROVE  UNCHANGED Promise!vars
    BY <1>1, <1>7 DEF Start, Acquire, mail, day
  <1>8. CASE Around
    BY <1>1, <1>8 DEF Around, Crash, Schedule, EditList, TimePasses, Expire, OtherSend, SendBeside,
                      DaemonPull, Leave, OptOut, Session, mail, day
  <1>9. CASE UNCHANGED vars
    BY <1>1, <1>9 DEF vars, mail, day
  <1> QED
    BY <1>6, <1>7, <1>8, <1>9 DEF Next

(* Every run of NewsletterSend is one of OneCopy: a copy is attempted only   *)
(* while owed, and the debt ends before the provider is called.              *)
THEOREM LedgerKeepsThePromise == OneRunPerProcess => (Spec => KeepsThePromise)
  <1> SUFFICES ASSUME OneRunPerProcess
               PROVE  Spec => KeepsThePromise
    OBVIOUS
  <1>1. Init => Promise!Init
    BY DEF Init, Promise!Init, Unrecorded, Allowance
  <1>2. LedgerInv /\ [Next]_vars => [Promise!Next]_(Promise!vars)
    BY StepKeepsThePromise
  <1>3. Spec => []LedgerInv
    BY LedgerInvAlways
  <1> QED
    BY <1>1, <1>2, <1>3, PTL DEF Spec, KeepsThePromise, Promise!Spec

(***************************************************************************)
(* The lock of this module is the one SendLock makes of files: it is taken *)
(* in one step, let go in one, and only its holder is at work.             *)
(***************************************************************************)
AtWork(r) == pc[r] \in {"begin", "mark", "answer", "close", "relay"}

(* A run that moves changes its own process among those at work. *)
LEMMA WorkingAfter ==
  ASSUME OneRunPerProcess, NEW r \in Runs, \A s \in Runs \ {r} : pc'[s] = pc[s]
  PROVE  /\ (AtWork(r)' <=> AtWork(r)) => Working' = Working
         /\ AtWork(r)' => Working' = Working \cup {ProcOf[r]}
         /\ ~AtWork(r)' => Working' = Working \ {ProcOf[r]}
  <1>1. \A s \in Runs \ {r} : AtWork(s)' <=> AtWork(s)
    BY DEF AtWork
  <1>2. /\ Working = {p \in Procs : \E s \in Runs : ProcOf[s] = p /\ AtWork(s)}
        /\ Working' = {p \in Procs : \E s \in Runs : ProcOf[s] = p /\ AtWork(s)'}
    BY DEF Working, AtWork
  <1>3. ProcOf[r] \in Procs /\ \A s \in Runs \ {r} : ProcOf[s] # ProcOf[r]
    BY RunsAssumption DEF OneRunPerProcess
  <1>4. \A p \in Procs \ {ProcOf[r]} : p \in Working' <=> p \in Working
    BY <1>1, <1>2
  <1>5. /\ ProcOf[r] \in Working <=> AtWork(r)
        /\ ProcOf[r] \in Working' <=> AtWork(r)'
    BY <1>2, <1>3
  <1>6. Working \subseteq Procs /\ Working' \subseteq Procs
    BY <1>2
  <1> QED
    BY <1>4, <1>5, <1>6

Aside(r) == lock' = lock /\ (AtWork(r)' <=> AtWork(r))

LEMMA AsideStutters ==
  ASSUME OneRunPerProcess, NEW r \in Runs, \A s \in Runs \ {r} : pc'[s] = pc[s], Aside(r)
  PROVE  UNCHANGED TheLock!vars
  BY WorkingAfter DEF Aside, TheLock!vars

LEMMA TakesTheLock ==
  ASSUME OneRunPerProcess, TypeOK, NEW r \in Runs, NEW o, Acquire(r, o), ~AtWork(r)
  PROVE  [TheLock!Next]_(TheLock!vars)
  <1>1. /\ lock \in {Nobody, ProcOf[r]} /\ lock' = ProcOf[r]
        /\ pc' = [pc EXCEPT ![r] = "sync"]
    BY DEF Acquire, Goto
  <1>2. ~AtWork(r)' /\ \A s \in Runs \ {r} : pc'[s] = pc[s]
    BY <1>1 DEF TypeOK, AtWork
  <1>3. Working' = Working
    BY <1>2, WorkingAfter
  <1>4. CASE lock = ProcOf[r]
    BY <1>1, <1>3, <1>4 DEF TheLock!vars
  <1>5. CASE lock = Nobody
    <2>1. TheLock!Acquire(ProcOf[r])
      BY <1>1, <1>3, <1>5 DEF TheLock!Acquire
    <2> QED
      BY <2>1, RunsAssumption DEF TheLock!Next
  <1> QED
    BY <1>1, <1>4, <1>5

LEMMA StepUnderTheLock ==
  ASSUME OneRunPerProcess, LedgerInv, NEW r \in Runs, Step(r)
  PROVE  [TheLock!Next]_(TheLock!vars)
  <1>0. TypeOK /\ LockHeld
    BY DEF LedgerInv, Typed
  <1>1. \A s \in Runs \ {r} : pc'[s] = pc[s]
    <2>1. CASE Sync(r) \/ Begin(r) \/ Refuse(r) \/ Call(r) \/ Close(r) \/ Relay(r)
      BY <1>0, <2>1 DEF TypeOK, Sync, PullAnswered, PullFailed, PullSkipped, Begin,
                        Refuse, Call, Close, Relay, Goto
    <2>2. CASE Release(r)
      BY <2>2 DEF Release, Forget
    <2>3. CASE \E c \in Contacts : Mark(r, c) \/ Record(r, c) \/ Count(r, c) \/ After(r, c)
      BY <1>0, <2>3 DEF TypeOK, Mark, Record, Count, After, Handled, Goto
    <2>4. CASE DaemonPick(r) \/ DaemonSend(r) \/ DaemonSkip(r)
      BY <1>0, <2>4 DEF TypeOK, DaemonPick, DaemonSend, DaemonSkip, Acquire, Goto
    <2> QED
      BY <2>1, <2>2, <2>3, <2>4 DEF Step
  <1>2. ProcOf[r] \in Procs
    BY RunsAssumption
  <1>3. CASE Sync(r)
    <2>1. lock = ProcOf[r] /\ lock' = lock /\ ~AtWork(r)
      BY <1>0, <1>3 DEF LockHeld, Busy, Sync, PullAnswered, PullFailed, PullSkipped,
                        AtWork
    <2>2. CASE AtWork(r)'
      <3>1. Working' = Working \cup {ProcOf[r]}
        BY <1>1, <2>2, WorkingAfter
      <3>2. TheLock!Enter(ProcOf[r])
        BY <2>1, <3>1 DEF TheLock!Enter
      <3> QED
        BY <1>2, <3>2 DEF TheLock!Next
    <2>3. CASE ~AtWork(r)'
      BY <1>1, <2>1, <2>3, AsideStutters DEF Aside
    <2> QED
      BY <2>2, <2>3
  <1>4. CASE Refuse(r) \/ Close(r) \/ Relay(r)
    <2>1. lock' = lock /\ AtWork(r)
      BY <1>4 DEF Refuse, Close, Relay, AtWork
    <2>2. CASE AtWork(r)'
      BY <1>1, <2>1, <2>2, AsideStutters DEF Aside
    <2>3. CASE ~AtWork(r)'
      <3>1. Working' = Working \ {ProcOf[r]}
        BY <1>1, <2>3, WorkingAfter
      <3>2. TheLock!Leave(ProcOf[r])
        BY <2>1, <3>1 DEF TheLock!Leave
      <3> QED
        BY <1>2, <3>2 DEF TheLock!Next
    <2> QED
      BY <2>2, <2>3
  <1>5. CASE Begin(r)
    <2>1. lock' = lock /\ AtWork(r) /\ AtWork(r)'
      BY <1>0, <1>5 DEF Begin, AtWork, Goto, TypeOK
    <2> QED
      BY <1>1, <2>1, AsideStutters DEF Aside
  <1>6. CASE Call(r) \/ \E c \in Contacts :
               Mark(r, c) \/ Record(r, c) \/ Count(r, c) \/ After(r, c)
    <2>1. lock' = lock /\ AtWork(r) /\ AtWork(r)'
      BY <1>0, <1>6
         DEF Mark, Call, Record, Count, After, Handled, Between, AtWork, Goto, TypeOK
    <2> QED
      BY <1>1, <2>1, AsideStutters DEF Aside
  <1>7. CASE Release(r)
    <2>1. lock = ProcOf[r] /\ ~AtWork(r) /\ ~AtWork(r)'
      BY <1>0, <1>7 DEF LockHeld, Busy, Walking, Release, Forget, AtWork
    <2>2. Working' = Working /\ Working' = Working \ {ProcOf[r]}
      BY <1>1, <2>1, WorkingAfter
    <2>3. CASE lock' = lock
      BY <2>2, <2>3 DEF TheLock!vars
    <2>4. CASE lock' = Nobody
      <3>1. TheLock!Release(ProcOf[r])
        BY <2>1, <2>2, <2>4 DEF TheLock!Release
      <3> QED
        BY <1>2, <3>1 DEF TheLock!Next
    <2> QED
      BY <1>7, <2>3, <2>4 DEF Release
  <1>8. CASE DaemonPick(r) \/ DaemonSkip(r)
    <2>1. lock' = lock /\ ~AtWork(r) /\ ~AtWork(r)'
      BY <1>0, <1>8 DEF DaemonPick, DaemonSkip, AtWork, Goto, TypeOK
    <2> QED
      BY <1>1, <2>1, AsideStutters DEF Aside
  <1>9. CASE DaemonSend(r)
    BY <1>0, <1>9, TakesTheLock DEF DaemonSend, AtWork
  <1> QED
    BY <1>3, <1>4, <1>5, <1>6, <1>7, <1>8, <1>9 DEF Step

LEMMA NextUnderTheLock ==
  ASSUME OneRunPerProcess, LedgerInv, [Next]_vars
  PROVE  [TheLock!Next]_(TheLock!vars)
  <1>0. TypeOK
    BY DEF LedgerInv, Typed
  <1>1. ASSUME UNCHANGED <<pc, lock>>
        PROVE  UNCHANGED TheLock!vars
    BY <1>1 DEF TheLock!vars, Working
  <1>2. ASSUME NEW r \in Runs, NEW o \in Options, Start(r, o)
        PROVE  [TheLock!Next]_(TheLock!vars)
    BY <1>0, <1>2, TakesTheLock DEF Start, AtWork
  <1>3. ASSUME NEW p \in Procs, Crash(p)
        PROVE  [TheLock!Next]_(TheLock!vars)
    <2>1. lock' = IF lock = p THEN Nobody ELSE lock
      BY <1>3 DEF Crash
    <2>2. \A r \in Runs : pc'[r] = IF ProcOf[r] = p THEN "idle" ELSE pc[r]
      BY <1>3 DEF Crash, Forget
    <2>3. Working' = Working \ {p}
      BY <2>2 DEF Working
    <2>4. TheLock!Die(p)
      BY <2>1, <2>3 DEF TheLock!Die
    <2> QED
      BY <2>4 DEF TheLock!Next
  <1>4. CASE Around /\ ~ \E p \in Procs : Crash(p)
    BY <1>1, <1>4 DEF Around, Schedule, EditList, TimePasses, Expire, OtherSend, SendBeside,
                      DaemonPull, Leave, OptOut, Session
  <1>5. CASE UNCHANGED vars
    BY <1>1, <1>5 DEF vars
  <1> QED
    BY <1>2, <1>3, <1>4, <1>5, StepUnderTheLock DEF Next, Around

(* Every run of NewsletterSend sends under the lock of OneHolder, which      *)
(* SendLock implements with a file: what its steps say of one atomic lock    *)
(* the code keeps as long as no process that lives is robbed of the file.    *)
THEOREM SendsUnderTheLock == OneRunPerProcess => (Spec => SendsUnderOneLock)
  <1> SUFFICES ASSUME OneRunPerProcess
               PROVE  Spec => SendsUnderOneLock
    OBVIOUS
  <1>1. Init => TheLock!Init
    BY DEF Init, TheLock!Init, Working
  <1>2. LedgerInv /\ [Next]_vars => [TheLock!Next]_(TheLock!vars)
    BY NextUnderTheLock
  <1>3. Spec => []LedgerInv
    BY LedgerInvAlways
  <1> QED
    BY <1>1, <1>2, <1>3, PTL DEF Spec, SendsUnderOneLock, TheLock!Spec

(***************************************************************************)
(* The issue is announced once.  Close reads and sets sentAt in one step,  *)
(* so this holds of any runs, of one process or of several.                *)
(***************************************************************************)
(* The announcement is still to come, is one run's to make, or is made. *)
AnnounceInv ==
  /\ TypeOK
  /\ ~sentAt => announced = 0 /\ \A r \in Runs : pc[r] # "relay"
  /\ AnnouncedOnce
  /\ \A r \in Runs : pc[r] = "relay" =>
       announced = 0 /\ \A s \in Runs : pc[s] = "relay" => s = r

(* A step that neither finishes the issue nor relays it. *)
LEMMA AsideKeepsAnnounced ==
  ASSUME AnnounceInv, TypeOK', UNCHANGED <<sentAt, announced>>,
         \A r \in Runs : pc'[r] = "relay" => pc[r] = "relay"
  PROVE  AnnounceInv'
  BY DEF AnnounceInv, AnnouncedOnce

LEMMA AnnounceInvInductive ==
  ASSUME AnnounceInv, Typed, Typed', [Next]_vars
  PROVE  AnnounceInv'
  <1>0. TypeOK /\ TypeOK' /\ pc \in [Runs -> Places] /\ announced \in Nat
    BY DEF Typed, TypeOK
  <1>1. ASSUME NEW r \in Runs, Close(r)
        PROVE  AnnounceInv'
    <2>1. /\ pc[r] = "close" /\ announced' = announced
          /\ sentAt' = (sentAt \/ Done(r))
          /\ pc' = [pc EXCEPT ![r] = IF Done(r) /\ ~sentAt THEN "relay" ELSE "release"]
      BY <1>1 DEF Close, Goto, Finished
    <2>2. CASE Done(r) /\ ~sentAt
      BY <1>0, <2>1, <2>2 DEF AnnounceInv, AnnouncedOnce
    <2>3. CASE ~(Done(r) /\ ~sentAt)
      BY <1>0, <2>1, <2>3 DEF AnnounceInv, AnnouncedOnce
    <2> QED BY <2>2, <2>3
  <1>2. ASSUME NEW r \in Runs, Relay(r)
        PROVE  AnnounceInv'
    <2>1. /\ pc[r] = "relay" /\ announced' = announced + 1 /\ sentAt' = sentAt
          /\ pc' = [pc EXCEPT ![r] = "release"]
      BY <1>2 DEF Relay, Goto
    <2> QED
      BY <1>0, <2>1 DEF AnnounceInv, AnnouncedOnce
  <1>3. ASSUME NEW r \in Runs, Step(r)
        PROVE  AnnounceInv'
    <2>1. CASE Sync(r) \/ Refuse(r) \/ Call(r)
      BY <1>0, <2>1, AsideKeepsAnnounced
         DEF Sync, PullAnswered, PullFailed, PullSkipped, Refuse, Call, Goto, issue
    <2>4. CASE Begin(r)
      BY <1>0, <2>4, AsideKeepsAnnounced DEF Begin, Goto, issue
    <2>5. CASE Release(r)
      BY <1>0, <2>5, AsideKeepsAnnounced DEF Release, Forget, issue
    <2>2. ASSUME NEW c \in Contacts,
                 Mark(r, c) \/ Record(r, c) \/ Count(r, c) \/ After(r, c)
          PROVE  AnnounceInv'
      BY <1>0, <2>2, AsideKeepsAnnounced
         DEF Mark, Record, Count, After, Handled, Goto, issue
    <2>3. CASE DaemonPick(r) \/ DaemonSend(r) \/ DaemonSkip(r)
      BY <1>0, <2>3, AsideKeepsAnnounced
         DEF DaemonPick, DaemonSend, DaemonSkip, Acquire, Goto, issue
    <2> QED
      BY <1>1, <1>2, <1>3, <2>1, <2>2, <2>3, <2>4, <2>5 DEF Step
  <1>4. ASSUME NEW r \in Runs, NEW o \in Options, Start(r, o)
        PROVE  AnnounceInv'
    BY <1>0, <1>4, AsideKeepsAnnounced DEF Start, Acquire, Goto, issue
  <1>5. CASE Around
    <2>1. UNCHANGED <<sentAt, announced>>
      BY <1>5 DEF Around, Crash, Schedule, EditList, TimePasses, Expire, OtherSend, SendBeside,
                  DaemonPull, Leave, OptOut, Session, issue
    <2>2. \A r \in Runs : pc'[r] = "relay" => pc[r] = "relay"
      <3>1. ASSUME NEW p \in Procs, Crash(p)
            PROVE  \A r \in Runs : pc'[r] = "relay" => pc[r] = "relay"
        BY <3>1 DEF Crash, Forget
      <3> QED
        BY <1>5, <3>1 DEF Around, Schedule, EditList, TimePasses, Expire, OtherSend, SendBeside,
                          DaemonPull, Leave, OptOut, Session
    <2> QED
      BY <1>0, <2>1, <2>2, AsideKeepsAnnounced
  <1>6. CASE UNCHANGED vars
    BY <1>0, <1>6, AsideKeepsAnnounced DEF vars, issue
  <1> QED
    BY <1>3, <1>4, <1>5, <1>6 DEF Next

(* However often an issue is finished, the relay hears of it once. *)
THEOREM RelayedOnce == Spec => []AnnouncedOnce
  <1>1. Init => AnnounceInv
    BY InitTyped DEF Typed, Init, AnnounceInv, AnnouncedOnce
  <1>2. AnnounceInv /\ Typed /\ [Next]_vars => AnnounceInv'
    BY AnnounceInvInductive, TypedInductive
  <1>3. AnnounceInv => AnnouncedOnce
    BY DEF AnnounceInv
  <1> QED
    BY InitTyped, TypedInductive, <1>1, <1>2, <1>3, PTL DEF Spec

(***************************************************************************)
(* The cap.  The batch a run has not had answers for fits what is left of  *)
(* the cap, whatever has been answered meanwhile; what no record counts is *)
(* in hand, or was added to the leeway when its record became uncertain.   *)
(***************************************************************************)
(* Answered copies of the call under way whose record will be written. *)
InHand(r) == {c \in chunk[r] : answers[r][c] \in {"ok", "recorded"}}

Answering(r) == pc[r] = "answer"

(* What a run may still hand over. *)
Ahead(r) == IF pc[r] = "mark" THEN todo[r] \cup chunk[r] ELSE todo[r]

(* No run is given more than the highest cap, nor marks more than a chunk. *)
Sized ==
  /\ Cap <= allowed
  /\ \A r \in Runs : opt[r].cap <= allowed /\ Cardinality(chunk[r]) <= BatchSize

UncountedInHand ==
  /\ (\A r \in Runs : ~Answering(r)) => uncounted <= leeway
  /\ \A r \in Runs : Answering(r) => uncounted <= leeway + Cardinality(InHand(r))

RoomAhead ==
  \A r \in Runs : Choosing(r) =>
    counted + uncounted + Cardinality(Ahead(r)) <= allowed + leeway + beside

CapInv == Sized /\ UncountedInHand /\ RoomAhead /\ CapHonoured

LEMMA CapNumbers ==
  ASSUME TypeOK
  PROVE  /\ counted \in Nat /\ uncounted \in Int /\ allowed \in Nat
         /\ leeway \in Nat /\ beside \in Nat /\ BatchSize \in Nat
         /\ \A r \in Runs : /\ Cardinality(todo[r]) \in Nat
                            /\ Cardinality(chunk[r]) \in Nat
                            /\ Cardinality(InHand(r)) \in Nat
                            /\ Cardinality(Ahead(r)) \in Nat
                            /\ todo[r] \in SUBSET Contacts /\ chunk[r] \in SUBSET Contacts
                            /\ InHand(r) \in SUBSET Contacts /\ Ahead(r) \in SUBSET Contacts
  <1>1. \A r \in Runs : /\ todo[r] \in SUBSET Contacts /\ chunk[r] \in SUBSET Contacts
                        /\ InHand(r) \in SUBSET Contacts /\ Ahead(r) \in SUBSET Contacts
    BY DEF TypeOK, InHand, Ahead
  <1> QED
    BY <1>1, SizeOf, SizesAssumption DEF TypeOK

LEMMA InHandIsSmall ==
  ASSUME TypeOK, Sized, NEW r \in Runs
  PROVE  Cardinality(InHand(r)) <= BatchSize
  <1>1. Cardinality(InHand(r)) <= Cardinality(chunk[r])
    BY SizeOf, FS_Subset DEF TypeOK, InHand
  <1> QED
    BY <1>1, CapNumbers DEF Sized

(* A step that counts nothing and moves no batch, chunk or answer. *)
LEMMA AsideKeepsCap ==
  ASSUME CapInv, TypeOK,
         UNCHANGED <<counted, uncounted, leeway, beside, todo, chunk, answers>>,
         allowed <= allowed', allowed' \in Nat,
         \A r \in Runs : opt'[r].cap <= allowed',
         \A r \in Runs : \/ pc'[r] = pc[r]
                         \/ ~Choosing(r) /\ ~Choosing(r)'
  PROVE  CapInv'
  <1>1. \A r \in Runs : Choosing(r)' => pc'[r] = pc[r] /\ Choosing(r)
    BY DEF Choosing
  <1>2. \A r \in Runs : Answering(r)' <=> Answering(r)
    BY DEF Choosing, Answering
  <1>3. \A r \in Runs : InHand(r)' = InHand(r) /\ (Choosing(r)' => Ahead(r)' = Ahead(r))
    BY <1>1 DEF InHand, Ahead
  <1>4. Cap <= allowed'
    BY CapNumbers, SizesAssumption DEF CapInv, Sized
  <1>5. Sized'
    BY <1>4 DEF CapInv, Sized
  <1>6. UncountedInHand'
    BY <1>2, <1>3 DEF CapInv, UncountedInHand
  <1>7. RoomAhead'
    BY <1>1, <1>3, CapNumbers DEF CapInv, RoomAhead
  <1>8. CapHonoured'
    BY CapNumbers DEF CapInv, CapHonoured
  <1> QED
    BY <1>5, <1>6, <1>7, <1>8 DEF CapInv

LEMMA AcquireKeepsCap ==
  ASSUME CapInv, TypeOK, NEW r \in Runs, NEW o \in Options, Acquire(r, o),
         ~Choosing(r)
  PROVE  CapInv'
  <1>1. /\ o.cap \in Nat /\ allowed \in Nat
        /\ allowed' = IF o.cap > allowed THEN o.cap ELSE allowed
        /\ opt' = [opt EXCEPT ![r] = o]
        /\ pc' = [pc EXCEPT ![r] = "sync"]
    BY SizesAssumption DEF TypeOK, Acquire, Options, Goto
  <1>2. allowed' \in Nat /\ allowed <= allowed' /\ o.cap <= allowed'
    BY <1>1
  <1>3. ASSUME NEW s \in Runs
        PROVE  opt'[s].cap <= allowed'
    <2>1. CASE s = r
      BY <1>1, <1>2, <2>1 DEF TypeOK
    <2>2. CASE s # r
      <3>1. opt'[s] = opt[s] /\ opt[s].cap \in Nat /\ opt[s].cap <= allowed
        BY <1>1, <2>2, SizesAssumption DEF TypeOK, Options, CapInv, Sized
      <3> QED
        BY <1>1, <1>2, <3>1
    <2> QED BY <2>1, <2>2
  <1>4. \A s \in Runs : pc'[s] = pc[s] \/ (~Choosing(s) /\ ~Choosing(s)')
    BY <1>1 DEF TypeOK, Choosing
  <1>5. UNCHANGED <<counted, uncounted, leeway, beside, todo, chunk, answers>>
    BY DEF Acquire
  <1> QED
    BY <1>2, <1>3, <1>4, <1>5, AsideKeepsCap

(* A run takes at most what its cap leaves when it begins, and is alone. *)
LEMMA BeginKeepsCap ==
  ASSUME OneRunPerProcess, LedgerInv, LedgerInv', CapInv, NEW r \in Runs, Begin(r)
  PROVE  CapInv'
  <1>0. TypeOK /\ TypeOK' /\ LockHeld /\ Batches /\ Batches'
    BY DEF LedgerInv, Typed
  <1>1. PICK batch \in SUBSET Due(r) :
          /\ Cardinality(batch) = Least(Cardinality(Due(r)), Room(opt[r]))
          /\ todo' = [todo EXCEPT ![r] = batch]
          /\ pc' = [pc EXCEPT ![r] = IF batch = {} THEN "close" ELSE "mark"]
    BY DEF Begin, Goto
  <1>2. pc[r] = "begin" /\ UNCHANGED <<counted, uncounted, allowed, leeway, beside, chunk>>
        /\ opt' = [opt EXCEPT ![r] = NoOptions]
    BY DEF Begin, day
  <1>3. \A s \in Runs : ~Choosing(s) /\ ~Answering(s)
    BY <1>0, <1>2, OthersAreOut DEF Choosing, Answering, Busy, Walking
  <1>4. uncounted <= leeway
    BY <1>3 DEF CapInv, UncountedInHand
  <1>5. Due(r) \in SUBSET Contacts
    BY <1>0 DEF TypeOK, Due, Recipients
  <1>6. opt[r].limit \in Nat /\ opt[r].cap \in Nat /\ opt[r].cap <= allowed
    BY <1>0, SizesAssumption DEF TypeOK, Options, CapInv, Sized
  <1>7. Cardinality(batch) \in Nat /\ Cardinality(Due(r)) \in Nat
    BY <1>5, SizeOf
  <1>8. batch # {} => counted + Cardinality(batch) <= opt[r].cap
    <2>1. Cardinality(batch) <= CapLeft(opt[r].cap)
      BY <1>0, <1>1, <1>6, <1>7, CapNumbers DEF Room, CapLeft, Least
    <2>2. CASE counted <= opt[r].cap
      BY <1>0, <1>6, <1>7, <2>1, <2>2, CapNumbers DEF CapLeft
    <2>3. CASE ~(counted <= opt[r].cap)
      <3>1. Cardinality(batch) = 0
        BY <1>7, <2>1, <2>3 DEF CapLeft
      <3> QED
        BY <1>5, <3>1, SizeOf, FS_EmptySet
    <2> QED BY <2>2, <2>3
  <1>9. Sized'
    BY <1>0, <1>2, SizesAssumption DEF TypeOK, CapInv, Sized, NoOptions
  <1>10. \A s \in Runs : ~Answering(s)' /\ (Choosing(s)' => s = r /\ batch # {})
    BY <1>0, <1>1, <1>3 DEF TypeOK, Choosing, Answering
  <1>11. UncountedInHand'
    BY <1>2, <1>4, <1>10 DEF UncountedInHand
  <1>12. RoomAhead'
    <2> SUFFICES ASSUME batch # {}, Choosing(r)'
                 PROVE  (counted + uncounted + Cardinality(Ahead(r))
                           <= allowed + leeway + beside)'
      BY <1>10 DEF RoomAhead
    <2>1. chunk[r] = {}
      BY <1>0, <1>2 DEF Batches
    <2>2. Ahead(r)' = batch
      BY <1>0, <1>1, <1>2, <2>1 DEF TypeOK, Ahead
    <2>3. counted + uncounted + Cardinality(batch) <= allowed + leeway + beside
      BY <1>0, <1>4, <1>6, <1>7, <1>8, CapNumbers
    <2> QED
      BY <1>2, <2>2, <2>3
  <1>13. CapHonoured'
    BY <1>2 DEF CapInv, CapHonoured
  <1> QED
    BY <1>9, <1>11, <1>12, <1>13 DEF CapInv

LEMMA MarkKeepsCap ==
  ASSUME TypeOK, Batches, CapInv, NEW r \in Runs, NEW c \in Contacts, Mark(r, c)
  PROVE  CapInv'
  <1>1. /\ pc[r] = "mark" /\ c \in todo[r] /\ Cardinality(chunk[r]) < BatchSize
        /\ todo' = [todo EXCEPT ![r] = todo[r] \ {c}]
        /\ chunk' = [chunk EXCEPT ![r] = chunk[r] \cup {c}]
        /\ UNCHANGED <<counted, uncounted, allowed, leeway, beside, pc, opt, answers>>
    BY DEF Mark, day
  <1>2. c \notin chunk[r] /\ chunk[r] \in SUBSET Contacts
    BY <1>1 DEF TypeOK, Batches
  <1>3. Cardinality(chunk[r] \cup {c}) = Cardinality(chunk[r]) + 1
    BY <1>2, SizeOf, FS_AddElement
  <1>4. Cardinality(chunk'[r]) <= BatchSize
    BY <1>1, <1>3, CapNumbers DEF TypeOK
  <1>5. \A s \in Runs \ {r} : todo'[s] = todo[s] /\ chunk'[s] = chunk[s]
    BY <1>1 DEF TypeOK
  <1>6. Sized'
    BY <1>1, <1>4, <1>5 DEF CapInv, Sized
  <1>7. \A s \in Runs : Answering(s) => InHand(s)' = InHand(s)
    BY <1>1, <1>5 DEF Answering, InHand
  <1>8. UncountedInHand'
    BY <1>1, <1>7 DEF CapInv, UncountedInHand, Answering
  <1>9. \A s \in Runs : Ahead(s)' = Ahead(s)
    <2>1. Ahead(r)' = Ahead(r)
      BY <1>1 DEF TypeOK, Ahead
    <2>2. \A s \in Runs \ {r} : Ahead(s)' = Ahead(s)
      BY <1>1, <1>5 DEF Ahead
    <2> QED BY <2>1, <2>2
  <1>10. RoomAhead'
    BY <1>1, <1>9 DEF CapInv, RoomAhead, Choosing
  <1>11. CapHonoured'
    BY <1>1 DEF CapInv, CapHonoured
  <1> QED
    BY <1>6, <1>8, <1>10, <1>11 DEF CapInv

(* A copy that is taken was ahead; if its answer hides it, a chunk's worth   *)
(* of leeway comes with the call.                                            *)
LEMMA CallKeepsCap ==
  ASSUME OneRunPerProcess, LedgerInv, LedgerInv', CapInv, NEW r \in Runs, Call(r)
  PROVE  CapInv'
  <1>0. TypeOK /\ TypeOK' /\ LockHeld /\ Batches
    BY DEF LedgerInv, Typed
  <1>1. PICK reply \in [chunk[r] -> Answers], taken \in SUBSET chunk[r] :
          /\ uncounted' = uncounted + Cardinality(taken)
          /\ leeway' = leeway + (IF \A c \in taken : reply[c] = "ok" THEN 0 ELSE BatchSize)
          /\ answers' = [answers EXCEPT ![r] =
                           [c \in Contacts |->
                              IF c \in chunk[r] THEN reply[c] ELSE "none"]]
    BY DEF Call
  <1>2. /\ pc[r] = "mark" /\ pc' = [pc EXCEPT ![r] = "answer"]
        /\ UNCHANGED <<counted, allowed, beside, todo, chunk, opt>>
    BY DEF Call, Goto
  <1>3. \A s \in Runs \ {r} : pc[s] \notin Busy
    BY <1>0, <1>2, OthersAreOut DEF Busy, Walking
  <1>4. \A s \in Runs : /\ ~Answering(s) /\ (Choosing(s)' <=> s = r)
                        /\ (Answering(s)' <=> s = r)
    BY <1>0, <1>2, <1>3 DEF TypeOK, Choosing, Answering, Busy, Walking
  <1>5. uncounted <= leeway
    BY <1>4 DEF CapInv, UncountedInHand
  <1>6. counted + uncounted + Cardinality(todo[r] \cup chunk[r]) <= allowed + leeway + beside
    BY <1>2 DEF CapInv, RoomAhead, Choosing, Ahead
  <1>7. /\ taken \in SUBSET Contacts /\ chunk[r] \in SUBSET Contacts
        /\ todo[r] \in SUBSET Contacts /\ todo[r] \cap chunk[r] = {}
    BY <1>0 DEF TypeOK, Batches
  <1>8. /\ Cardinality(taken) \in Nat /\ Cardinality(taken) <= Cardinality(chunk[r])
        /\ Cardinality(chunk[r]) \in Nat /\ Cardinality(todo[r]) \in Nat
        /\ Cardinality(chunk[r]) <= BatchSize
    BY <1>7, SizeOf, FS_Subset DEF CapInv, Sized
  <1>9. Cardinality(todo[r] \cup chunk[r]) = Cardinality(todo[r]) + Cardinality(chunk[r])
    <2>1. IsFiniteSet(todo[r]) /\ IsFiniteSet(chunk[r])
      BY <1>7, SizeOf
    <2>2. Cardinality(todo[r] \cup chunk[r])
            = Cardinality(todo[r]) + Cardinality(chunk[r]) - Cardinality(todo[r] \cap chunk[r])
      BY <2>1, FS_Union
    <2>3. Cardinality(todo[r] \cap chunk[r]) = 0
      BY <1>7, FS_EmptySet
    <2> QED
      BY <1>8, <2>2, <2>3
  <1>10. /\ leeway \in Nat /\ leeway' \in Nat /\ leeway <= leeway' /\ BatchSize \in Nat
         /\ (\A c \in taken : reply[c] = "ok") \/ leeway' = leeway + BatchSize
    BY <1>0, <1>1, CapNumbers DEF TypeOK
  <1>11. Sized'
    BY <1>2 DEF CapInv, Sized
  <1>12. UncountedInHand'
    <2>1. uncounted' <= leeway' + Cardinality(InHand(r)')
      <3>1. InHand(r)' \in SUBSET Contacts /\ Cardinality(InHand(r)') \in Nat
        <4>1. InHand(r)' \subseteq chunk[r]
          BY <1>2 DEF InHand
        <4> QED BY <1>7, <4>1, SizeOf
      <3>2. CASE \A c \in taken : reply[c] = "ok"
        <4>1. \A c \in taken : c \in chunk'[r] /\ answers'[r][c] = "ok"
          BY <1>0, <1>1, <1>2, <1>7, <3>2 DEF TypeOK
        <4>2. taken \subseteq InHand(r)'
          BY <4>1 DEF InHand
        <4>3. Cardinality(taken) <= Cardinality(InHand(r)')
          BY <3>1, <4>2, SizeOf, FS_Subset
        <4> QED
          BY <1>0, <1>1, <1>5, <1>8, <1>10, <3>1, <4>3, CapNumbers
      <3>3. CASE leeway' = leeway + BatchSize
        BY <1>0, <1>1, <1>5, <1>8, <1>10, <3>1, <3>3, CapNumbers
      <3> QED BY <1>10, <3>2, <3>3
    <2> QED
      BY <1>4, <2>1 DEF UncountedInHand
  <1>13. RoomAhead'
    <2>1. Ahead(r)' = todo[r]
      BY <1>0, <1>2 DEF TypeOK, Ahead
    <2>2. counted + uncounted' + Cardinality(todo[r]) <= allowed + leeway' + beside
      BY <1>0, <1>1, <1>6, <1>8, <1>9, <1>10, CapNumbers
    <2> QED
      BY <1>2, <1>4, <2>1, <2>2 DEF RoomAhead
  <1>14. CapHonoured'
    BY <1>0, <1>1, <1>2, <1>6, <1>8, <1>9, <1>10, CapNumbers DEF CapHonoured
  <1> QED
    BY <1>11, <1>12, <1>13, <1>14 DEF CapInv

(* Its row says sent, and its record is still to come. *)
LEMMA RecordKeepsCap ==
  ASSUME TypeOK, CapInv, NEW r \in Runs, NEW c \in Contacts, Record(r, c)
  PROVE  CapInv'
  <1>1. /\ pc[r] = "answer" /\ c \in chunk[r] /\ answers[r][c] = "ok"
        /\ answers' = [answers EXCEPT ![r] = [answers[r] EXCEPT ![c] = "recorded"]]
        /\ UNCHANGED <<counted, uncounted, allowed, leeway, beside, pc, opt, todo, chunk>>
    BY DEF Record, Between, day
  <1>2. \A s \in Runs : InHand(s)' = InHand(s)
    BY <1>1 DEF TypeOK, InHand
  <1> QED
    BY <1>1, <1>2 DEF CapInv, Sized, UncountedInHand, RoomAhead, CapHonoured, Answering,
                      Choosing, Ahead

(* An answer leaves the chunk: its copy is counted, or was not in hand. *)
LEMMA HandledKeepsCap ==
  ASSUME OneRunPerProcess, LedgerInv, LedgerInv', CapInv, NEW r \in Runs,
         NEW c \in Contacts, NEW stops, Handled(r, c, stops),
         pc[r] = "answer", c \in chunk[r],
         UNCHANGED <<allowed, leeway, beside, todo, opt>>,
         \/ /\ c \notin InHand(r) /\ UNCHANGED <<counted, uncounted>>
         \/ /\ c \in InHand(r) /\ counted' = counted + 1 /\ uncounted' = uncounted - 1
  PROVE  CapInv'
  <1>0. Typed /\ TypeOK /\ TypeOK' /\ LockHeld /\ Batches
    BY DEF LedgerInv, Typed
  <1>1. /\ chunk'[r] = chunk[r] \ {c} /\ answers'[r][c] = "none"
        /\ pc'[r] = "answer" \/ (chunk[r] = {c} /\ pc'[r] \in {"close", "mark"})
        /\ \A d \in Contacts \ {c} : answers'[r][d] = answers[r][d]
        /\ \A s \in Runs \ {r} : /\ pc'[s] = pc[s] /\ chunk'[s] = chunk[s]
                                 /\ answers'[s] = answers[s]
    BY <1>0, HandledMoves
  <1>2. \A s \in Runs \ {r} : pc[s] \notin Busy
    BY <1>0, OthersAreOut DEF Busy, Walking
  <1>3. \A s \in Runs \ {r} : ~Answering(s)' /\ ~Choosing(s)'
    BY <1>1, <1>2 DEF Answering, Choosing, Busy, Walking
  <1>4. chunk[r] \in SUBSET Contacts /\ InHand(r) \in SUBSET Contacts
    BY <1>0 DEF TypeOK, InHand
  <1>5. InHand(r)' = InHand(r) \ {c}
    BY <1>1, <1>4 DEF InHand
  <1>6. uncounted <= leeway + Cardinality(InHand(r))
    BY DEF CapInv, UncountedInHand, Answering
  <1>7. counted + uncounted + Cardinality(todo[r]) <= allowed + leeway + beside
    BY DEF CapInv, RoomAhead, Choosing, Ahead
  <1>8. counted' + uncounted' = counted + uncounted
    BY <1>0, CapNumbers
  <1>9. uncounted' <= leeway' + Cardinality(InHand(r)')
    <2>1. CASE c \notin InHand(r)
      BY <1>5, <1>6, <2>1
    <2>2. CASE c \in InHand(r)
      <3>1. Cardinality(InHand(r)') = Cardinality(InHand(r)) - 1
        BY <1>4, <1>5, <2>2, SizeOf, FS_RemoveElement
      <3> QED
        BY <1>0, <1>6, <2>2, <3>1, CapNumbers
    <2> QED BY <2>1, <2>2
  <1>10. UncountedInHand'
    <2>1. CASE Answering(r)'
      BY <1>3, <1>9, <2>1 DEF UncountedInHand
    <2>2. CASE ~Answering(r)'
      <3>1. InHand(r)' = {}
        BY <1>1, <2>2 DEF Answering, InHand
      <3>2. Cardinality(InHand(r)') = 0
        BY <3>1, FS_EmptySet
      <3>3. uncounted' <= leeway'
        BY <1>0, <1>9, <3>2 DEF TypeOK
      <3> QED
        BY <1>3, <2>2, <3>3 DEF UncountedInHand
    <2> QED BY <2>1, <2>2
  <1>11. Sized'
    <2>1. Cardinality(chunk'[r]) <= Cardinality(chunk[r])
      BY <1>1, <1>4, SizeOf, FS_Subset
    <2>2. Cardinality(chunk'[r]) \in Nat
      BY <1>1, <1>4, SizeOf
    <2>3. Cardinality(chunk'[r]) <= BatchSize
      BY <1>0, <2>1, <2>2, CapNumbers DEF CapInv, Sized
    <2> QED
      BY <1>1, <2>3 DEF CapInv, Sized
  <1>12. RoomAhead'
    <2>1. Choosing(r)' => Ahead(r)' = todo[r]
      BY <1>1 DEF Choosing, Ahead
    <2> QED
      BY <1>3, <1>7, <1>8, <2>1 DEF RoomAhead
  <1>13. CapHonoured'
    BY <1>8 DEF CapInv, CapHonoured
  <1> QED
    BY <1>10, <1>11, <1>12, <1>13 DEF CapInv

(* A return ends no chunk; a crash adds one to the leeway if it ends one. *)
LEMMA ForgetKeepsCap ==
  ASSUME CapInv, TypeOK, TypeOK', NEW S \in SUBSET Runs, Forget(S),
         UNCHANGED <<counted, uncounted, allowed, beside>>,
         leeway <= leeway',
         \A r \in S : Answering(r) =>
           /\ leeway + BatchSize <= leeway'
           /\ \A s \in Runs : Answering(s) => s = r
  PROVE  CapInv'
  <1>1. /\ \A r \in S : pc'[r] = "idle" /\ chunk'[r] = {} /\ opt'[r] = NoOptions
        /\ \A r \in Runs \ S : /\ pc'[r] = pc[r] /\ chunk'[r] = chunk[r]
                               /\ todo'[r] = todo[r] /\ opt'[r] = opt[r]
                               /\ answers'[r] = answers[r]
    BY DEF Forget
  <1>2. \A r \in Runs : /\ Choosing(r)' => r \notin S /\ Choosing(r)
                        /\ Answering(r)' => r \notin S /\ Answering(r)
    BY <1>1 DEF Choosing, Answering
  <1>3. \A r \in Runs \ S : InHand(r)' = InHand(r) /\ Ahead(r)' = Ahead(r)
    BY <1>1 DEF InHand, Ahead
  <1>4. leeway \in Nat /\ leeway' \in Nat
    BY DEF TypeOK
  <1>5. Sized'
    <2>1. Cardinality({}) = 0
      BY FS_EmptySet
    <2>2. 0 <= BatchSize /\ Cap <= allowed'
      BY SizesAssumption DEF CapInv, Sized
    <2>3. ASSUME NEW r \in S
          PROVE  opt'[r].cap <= allowed' /\ Cardinality(chunk'[r]) <= BatchSize
      <3>1. opt'[r].cap = Cap /\ chunk'[r] = {}
        BY <1>1 DEF NoOptions
      <3> QED BY <2>1, <2>2, <3>1
    <2> QED
      BY <1>1, <2>2, <2>3 DEF CapInv, Sized
  <1>6. UncountedInHand'
    <2>1. \A r \in Runs : Answering(r)' => uncounted' <= leeway' + Cardinality(InHand(r)')
      BY <1>2, <1>3, <1>4, CapNumbers DEF CapInv, UncountedInHand
    <2>2. CASE \A r \in Runs : ~Answering(r)
      BY <1>4, <2>1, <2>2, CapNumbers DEF CapInv, UncountedInHand
    <2>3. CASE \E r \in S : Answering(r)
      <3>1. PICK r \in S : Answering(r)
        BY <2>3
      <3>2. uncounted <= leeway + Cardinality(InHand(r))
        BY <3>1 DEF CapInv, UncountedInHand
      <3>3. Cardinality(InHand(r)) <= BatchSize /\ Cardinality(InHand(r)) \in Nat
        BY <3>1, InHandIsSmall, CapNumbers DEF CapInv
      <3>4. uncounted' <= leeway'
        BY <1>4, <3>1, <3>2, <3>3, CapNumbers
      <3> QED
        BY <2>1, <3>4 DEF UncountedInHand
    <2>4. CASE \E r \in Runs \ S : Answering(r)
      <3>1. PICK r \in Runs \ S : Answering(r)
        BY <2>4
      <3>2. Answering(r)'
        BY <1>1, <3>1 DEF Answering
      <3> QED
        BY <2>1, <3>2 DEF UncountedInHand
    <2> QED BY <2>2, <2>3, <2>4
  <1>7. RoomAhead'
    BY <1>2, <1>3, <1>4, CapNumbers DEF CapInv, RoomAhead
  <1>8. CapHonoured'
    BY <1>4, CapNumbers DEF CapInv, CapHonoured
  <1> QED
    BY <1>5, <1>6, <1>7, <1>8 DEF CapInv

(* Mail beside the runs: counted under the cap when none is choosing, or as  *)
(* what went out beside one.                                                 *)
LEMMA OtherMailKeepsCap ==
  ASSUME CapInv, TypeOK, Expire \/ OtherSend \/ SendBeside
  PROVE  CapInv'
  <1>1. UNCHANGED <<uncounted, allowed, leeway, pc, opt, todo, chunk, answers>>
    BY DEF Expire, OtherSend, SendBeside, locals
  <1>2. \A r \in Runs : /\ InHand(r)' = InHand(r) /\ Ahead(r)' = Ahead(r)
                        /\ (Choosing(r)' <=> Choosing(r)) /\ (Answering(r)' <=> Answering(r))
    BY <1>1 DEF InHand, Ahead, Choosing, Answering
  <1>3. Sized' /\ UncountedInHand'
    BY <1>1, <1>2 DEF CapInv, Sized, UncountedInHand
  <1>4. \/ counted' <= counted /\ counted' \in Nat /\ beside' = beside
        \/ counted' = counted + 1 /\ beside' = beside + 1
        \/ /\ counted < Cap /\ counted' = counted + 1 /\ beside' = beside
           /\ \A r \in Runs : ~Choosing(r)
    BY CapNumbers DEF Expire, OtherSend, SendBeside
  <1>5. (\A r \in Runs : ~Choosing(r)) => uncounted <= leeway
    BY DEF CapInv, UncountedInHand, Choosing, Answering
  <1>6. CapHonoured'
    BY <1>1, <1>4, <1>5, CapNumbers, SizesAssumption DEF CapInv, Sized, CapHonoured
  <1>7. RoomAhead'
    BY <1>1, <1>2, <1>4, CapNumbers DEF CapInv, RoomAhead
  <1> QED
    BY <1>3, <1>6, <1>7 DEF CapInv

LEMMA CapInvInductive ==
  ASSUME OneRunPerProcess, LedgerInv, LedgerInv', CapInv, [Next]_vars
  PROVE  CapInv'
  <1>0. TypeOK /\ TypeOK' /\ LockHeld /\ Batches
    BY DEF LedgerInv, Typed
  <1>1. ASSUME UNCHANGED <<day, todo, chunk, answers, opt>>,
               \A r \in Runs : pc'[r] = pc[r] \/ (~Choosing(r) /\ ~Choosing(r)')
        PROVE  CapInv'
    BY <1>0, <1>1, AsideKeepsCap, CapNumbers DEF day, CapInv, Sized
  <1>2. ASSUME NEW r \in Runs, Step(r)
        PROVE  CapInv'
    <2>1. CASE Sync(r) \/ Refuse(r) \/ Close(r) \/ Relay(r)
      BY <1>0, <1>1, <2>1 DEF TypeOK, Sync, PullAnswered, PullFailed, PullSkipped, Refuse,
                              Close, Relay, Goto, Choosing, mail, locals
    <2>2. CASE DaemonPick(r) \/ DaemonSkip(r)
      BY <1>0, <1>1, <2>2 DEF TypeOK, DaemonPick, DaemonSkip, Goto, Choosing, mail, locals
    <2>3. CASE DaemonSend(r)
      BY <1>0, <2>3, DaemonsOptions, AcquireKeepsCap DEF DaemonSend, Choosing
    <2>4. CASE Release(r)
      <3>1. Forget({r}) /\ UNCHANGED day /\ pc[r] = "release"
        BY <2>4 DEF Release, mail
      <3>2. leeway' = leeway /\ leeway \in Nat /\ ~Answering(r)
        BY <1>0, <3>1 DEF day, Answering, TypeOK
      <3> QED
        BY <1>0, <3>1, <3>2, ForgetKeepsCap DEF day
    <2>5. ASSUME NEW c \in Contacts, Count(r, c)
          PROVE  CapInv'
      <3>1. c \in InHand(r)
        BY <2>5 DEF Count, InHand
      <3> QED
        BY <2>5, <3>1, HandledKeepsCap DEF Count
    <2>6. ASSUME NEW c \in Contacts, After(r, c)
          PROVE  CapInv'
      <3>1. c \notin InHand(r) /\ pc[r] = "answer" /\ c \in chunk[r]
            /\ Handled(r, c, stopped[r] \/ answers[r][c] \in {"died", "retry"})
            /\ UNCHANGED <<day, todo, opt>>
        BY <2>6 DEF After, Between, InHand
      <3> QED
        BY <3>1, HandledKeepsCap DEF day
    <2> QED
      BY <1>0, <1>2, <2>1, <2>2, <2>3, <2>4, <2>5, <2>6, BeginKeepsCap, MarkKeepsCap,
         CallKeepsCap, RecordKeepsCap DEF Step
  <1>3. ASSUME NEW r \in Runs, NEW o \in Options, Start(r, o)
        PROVE  CapInv'
    BY <1>0, <1>3, AcquireKeepsCap DEF Start, Choosing
  <1>4. CASE Around
    <2>1. ASSUME NEW p \in Procs, Crash(p)
          PROVE  CapInv'
      <3> DEFINE S == {r \in Runs : ProcOf[r] = p}
      <3>1. /\ S \in SUBSET Runs /\ Forget(S)
            /\ UNCHANGED <<counted, uncounted, allowed, beside>>
            /\ leeway' = leeway + (IF \E r \in Runs : ProcOf[r] = p /\ pc[r] = "answer"
                                   THEN BatchSize ELSE 0)
        BY <2>1 DEF Crash, InCall
      <3>2. leeway <= leeway' /\ leeway \in Nat /\ BatchSize \in Nat
        BY <1>0, <3>1, CapNumbers
      <3>3. ASSUME NEW r \in S, Answering(r)
            PROVE  /\ leeway + BatchSize <= leeway'
                   /\ \A s \in Runs : Answering(s) => s = r
        BY <1>0, <3>1, <3>2, <3>3, OthersAreOut DEF Answering, Busy, Walking
      <3> QED
        BY <1>0, <3>1, <3>2, <3>3, ForgetKeepsCap
    <2>2. CASE Expire \/ OtherSend \/ SendBeside
      BY <1>0, <2>2, OtherMailKeepsCap
    <2>3. CASE (\E w \in Times : Schedule(w)) \/ (\E l \in Lists : EditList(l)) \/ TimePasses
      BY <1>1, <2>3 DEF Schedule, EditList, TimePasses, mail, locals
    <2>4. CASE DaemonPull \/ (\E c \in Leavers : Leave(c) \/ OptOut(c))
               \/ (\E s \in Sessions : Session(s))
      BY <1>1, <2>4 DEF DaemonPull, Leave, OptOut, Session, mail, locals
    <2> QED
      BY <1>4, <2>1, <2>2, <2>3, <2>4 DEF Around
  <1>5. CASE UNCHANGED vars
    BY <1>1, <1>5 DEF vars, mail, locals
  <1> QED
    BY <1>2, <1>3, <1>4, <1>5 DEF Next

(* What really goes out of the issues, in whatever batches and limits, with  *)
(* whatever answers, crashes and mail beside, exceeds the highest cap a run  *)
(* was given by the leeway and by what went out beside, and no more.         *)
THEOREM CapIsHonoured == OneRunPerProcess => (Spec => []CapHonoured)
  <1> SUFFICES ASSUME OneRunPerProcess
               PROVE  Spec => []CapHonoured
    OBVIOUS
  <1>1. Init => CapInv
    <2> SUFFICES ASSUME Init
                 PROVE  CapInv
      OBVIOUS
    <2>1. Sized
      BY FS_EmptySet, SizesAssumption DEF Init, Sized, NoOptions
    <2>2. UncountedInHand /\ RoomAhead /\ CapHonoured
      BY SizesAssumption DEF Init, UncountedInHand, RoomAhead, CapHonoured, Answering, Choosing
    <2> QED BY <2>1, <2>2 DEF CapInv
  <1>2. LedgerInv /\ LedgerInv' /\ CapInv /\ [Next]_vars => CapInv'
    BY CapInvInductive
  <1>3. CapInv => CapHonoured
    BY DEF CapInv
  <1> QED
    BY LedgerInvAlways, <1>1, <1>2, <1>3, PTL DEF Spec

(***************************************************************************)
(* Who has left.  No lock is needed for these two: each is about one run   *)
(* and the rows, and a row is never taken away.                            *)
(***************************************************************************)
LEMMA BatchesInductive ==
  ASSUME Typed, Batches, [Next]_vars
  PROVE  Batches'
  <1>0. TypeOK
    BY DEF Typed
  <1>1. ASSUME NEW r \in Runs, Step(r)
        PROVE  Batches'
    <2>1. CASE Begin(r)
      <3>1. PICK batch \in SUBSET Due(r) :
              /\ todo' = [todo EXCEPT ![r] = batch]
              /\ pc' = [pc EXCEPT ![r] = IF batch = {} THEN "close" ELSE "mark"]
        BY <2>1 DEF Begin, Goto
      <3>2. pc[r] = "begin" /\ chunk' = chunk
        BY <2>1 DEF Begin
      <3> QED
        BY <1>0, <3>1, <3>2 DEF TypeOK, Batches, Walking
    <2>2. ASSUME NEW c \in Contacts, Mark(r, c)
          PROVE  Batches'
      BY <1>0, <2>2 DEF TypeOK, Mark, Batches, Walking
    <2>7. ASSUME NEW c \in Contacts, Record(r, c)
          PROVE  Batches'
      BY <2>7 DEF Record, Batches
    <2>3. ASSUME NEW c \in Contacts, Count(r, c) \/ After(r, c)
          PROVE  Batches'
      <3>1. /\ pc[r] = "answer" /\ todo' = todo
            /\ chunk' = [chunk EXCEPT ![r] = chunk[r] \ {c}]
            /\ \E place \in {"answer", "close", "mark"} :
                 /\ pc' = [pc EXCEPT ![r] = place]
                 /\ place # "answer" => chunk[r] = {c}
        BY <2>3 DEF Count, After, Handled, Between, Goto
      <3> QED
        BY <1>0, <3>1 DEF TypeOK, Batches, Walking
    <2>4. CASE Call(r)
      BY <1>0, <2>4 DEF TypeOK, Call, Goto, Batches, Walking
    <2>5. CASE Release(r)
      BY <1>0, <2>5 DEF TypeOK, Release, Forget, Batches, Walking
    <2>6. CASE Sync(r) \/ Refuse(r) \/ Close(r) \/ Relay(r) \/ DaemonPick(r)
               \/ DaemonSend(r) \/ DaemonSkip(r)
      <3>1. UNCHANGED <<todo, chunk>>
        BY <2>6 DEF Sync, PullAnswered, PullFailed, PullSkipped, Refuse, Close, Relay,
                    DaemonPick, DaemonSend, DaemonSkip, Acquire, locals
      <3>2. \E place \in Places \ {"mark", "answer"} :
              /\ pc' = [pc EXCEPT ![r] = place]
              /\ pc[r] \in Walking => place \in Walking
              /\ pc[r] \notin {"mark", "answer"}
        BY <2>6 DEF Sync, PullAnswered, PullFailed, PullSkipped, Refuse, Close, Relay,
                    DaemonPick, DaemonSend, DaemonSkip, Acquire, Goto, Walking, Places
      <3> QED
        BY <1>0, <3>1, <3>2 DEF TypeOK, Batches, Walking
    <2> QED
      BY <1>1, <2>1, <2>2, <2>3, <2>4, <2>5, <2>6, <2>7 DEF Step
  <1>2. ASSUME NEW r \in Runs, NEW o \in Options, Start(r, o)
        PROVE  Batches'
    BY <1>0, <1>2 DEF TypeOK, Start, Acquire, Goto, Batches, Walking
  <1>3. ASSUME NEW p \in Procs, Crash(p)
        PROVE  Batches'
    BY <1>0, <1>3 DEF TypeOK, Crash, Forget, Batches, Walking
  <1>4. CASE Around
    BY <1>3, <1>4 DEF Around, Schedule, EditList, TimePasses, Expire, OtherSend, SendBeside,
                      DaemonPull, Leave, OptOut, Session, locals, Batches
  <1>5. CASE UNCHANGED vars
    BY <1>5 DEF vars, locals, Batches
  <1> QED
    BY <1>1, <1>2, <1>4, <1>5 DEF Next

(* Whoever had left when a run pulled is opted out by the time it reads the  *)
(* list, and stays so.                                                       *)
PulledIn == \A r \in Runs : pc[r] = "begin" => gone[r] \subseteq optedOut

LeftInv == Typed /\ Batches /\ PulledIn /\ NobodyWhoHadLeft

(* Nobody is put back on the list, and a batch grows only where it is made. *)
LEMMA LaterKeepsLeft ==
  ASSUME LeftInv, Typed', Batches', gone' = gone, optedOut \subseteq optedOut',
         \A r \in Runs : /\ pc'[r] = "begin" => pc[r] = "begin"
                         /\ todo'[r] \cup chunk'[r] \subseteq todo[r] \cup chunk[r]
  PROVE  LeftInv'
  <1>1. PulledIn'
    BY DEF LeftInv, PulledIn
  <1>2. NobodyWhoHadLeft'
    BY DEF LeftInv, NobodyWhoHadLeft
  <1> QED
    BY <1>1, <1>2 DEF LeftInv

(* What a return and a crash forget of the pull goes with its batch. *)
LEMMA ForgetKeepsLeft ==
  ASSUME LeftInv, Typed', Batches', NEW S, Forget(S), optedOut' = optedOut
  PROVE  LeftInv'
  <1>1. PulledIn'
    BY DEF LeftInv, Typed, TypeOK, PulledIn, Forget
  <1>2. NobodyWhoHadLeft'
    BY DEF LeftInv, Typed, TypeOK, NobodyWhoHadLeft, Forget
  <1> QED
    BY <1>1, <1>2 DEF LeftInv

(* Signed in or expired, a pull is answered, and its answer stored, or fails *)
(* and the run ends: there is no third way.                                  *)
LEMMA SyncKeepsLeft ==
  ASSUME "out" \notin Sessions, LeftInv, Typed', Batches', NEW r \in Runs, Sync(r)
  PROVE  LeftInv'
  <1>0. TypeOK /\ Batches /\ PulledIn /\ NobodyWhoHadLeft
    BY DEF LeftInv, Typed
  <1>1. pc[r] = "sync" /\ session # "out"
    BY <1>0 DEF TypeOK, Sync
  <1>2. /\ gone' = [gone EXCEPT ![r] = optedOut \cup left]
        /\ optedOut \subseteq optedOut' /\ UNCHANGED <<todo, chunk>>
        /\ \/ pc' = [pc EXCEPT ![r] = "release"]
           \/ pc' = [pc EXCEPT ![r] = "begin"] /\ optedOut' = optedOut \cup left
    BY <1>1 DEF Sync, PullAnswered, PullFailed, Goto, leaving
  <1>3. todo[r] = {} /\ chunk[r] = {}
    BY <1>0, <1>1 DEF Batches, Walking
  <1>4. PulledIn'
    BY <1>0, <1>2 DEF TypeOK, PulledIn
  <1>5. NobodyWhoHadLeft'
    BY <1>0, <1>2, <1>3 DEF TypeOK, NobodyWhoHadLeft
  <1> QED
    BY <1>4, <1>5 DEF LeftInv

LEMMA BeginKeepsLeft ==
  ASSUME LeftInv, Typed', Batches', NEW r \in Runs, Begin(r)
  PROVE  LeftInv'
  <1>0. TypeOK /\ Batches /\ PulledIn /\ NobodyWhoHadLeft
    BY DEF LeftInv, Typed
  <1>1. PICK batch \in SUBSET Due(r) :
          /\ todo' = [todo EXCEPT ![r] = batch]
          /\ pc' = [pc EXCEPT ![r] = IF batch = {} THEN "close" ELSE "mark"]
    BY DEF Begin, Goto
  <1>2. pc[r] = "begin" /\ UNCHANGED <<chunk, gone, optedOut>>
    BY DEF Begin, leaving
  <1>3. batch \cap gone[r] = {} /\ chunk[r] = {}
    BY <1>0, <1>2 DEF PulledIn, Batches, Due, Recipients
  <1>4. PulledIn'
    BY <1>0, <1>1, <1>2 DEF TypeOK, PulledIn
  <1>5. NobodyWhoHadLeft'
    BY <1>0, <1>1, <1>2, <1>3 DEF TypeOK, NobodyWhoHadLeft
  <1> QED
    BY <1>4, <1>5 DEF LeftInv

LEMMA LeftInvInductive ==
  ASSUME "out" \notin Sessions, LeftInv, [Next]_vars
  PROVE  LeftInv'
  <1>0. TypeOK /\ Batches /\ Typed' /\ Batches'
    BY TypedInductive, BatchesInductive DEF LeftInv, Typed
  <1>1. ASSUME NEW r \in Runs, Step(r)
        PROVE  LeftInv'
    <2>1. ASSUME NEW c \in Contacts,
                 Mark(r, c) \/ Record(r, c) \/ Count(r, c) \/ After(r, c)
          PROVE  LeftInv'
      <3>1. UNCHANGED <<gone, optedOut>>
        BY <2>1 DEF Mark, Record, Count, After, leaving
      <3>2. \A s \in Runs : todo'[s] \cup chunk'[s] \subseteq todo[s] \cup chunk[s]
        BY <1>0, <2>1 DEF TypeOK, Mark, Record, Count, After, Handled
      <3>3. \A s \in Runs : pc'[s] = "begin" => pc[s] = "begin"
        BY <1>0, <2>1 DEF TypeOK, Mark, Record, Count, After, Handled, Goto
      <3> QED
        BY <1>0, <3>1, <3>2, <3>3, LaterKeepsLeft
    <2>2. CASE Release(r)
      BY <1>0, <2>2, ForgetKeepsLeft DEF Release, leaving
    <2>3. CASE Refuse(r) \/ Call(r) \/ Close(r) \/ Relay(r)
      BY <1>0, <2>3, LaterKeepsLeft
         DEF TypeOK, Refuse, Call, Close, Relay, Goto, leaving, locals
    <2>4. CASE DaemonPick(r) \/ DaemonSend(r) \/ DaemonSkip(r)
      BY <1>0, <2>4, LaterKeepsLeft
         DEF TypeOK, DaemonPick, DaemonSend, DaemonSkip, Acquire, Goto, leaving, locals
    <2> QED
      BY <1>0, <1>1, <2>1, <2>2, <2>3, <2>4, SyncKeepsLeft, BeginKeepsLeft DEF Step
  <1>2. ASSUME NEW r \in Runs, NEW o \in Options, Start(r, o)
        PROVE  LeftInv'
    BY <1>0, <1>2, LaterKeepsLeft DEF TypeOK, Start, Acquire, Goto, leaving
  <1>3. ASSUME NEW p \in Procs, Crash(p)
        PROVE  LeftInv'
    BY <1>0, <1>3, ForgetKeepsLeft DEF Crash, leaving
  <1>4. CASE Around
    <2>1. CASE (\E w \in Times : Schedule(w)) \/ (\E l \in Lists : EditList(l))
               \/ TimePasses \/ Expire \/ OtherSend \/ SendBeside \/ DaemonPull
      BY <1>0, <2>1, LaterKeepsLeft
         DEF Schedule, EditList, TimePasses, Expire, OtherSend, SendBeside, DaemonPull,
             leaving, locals
    <2>2. CASE (\E c \in Leavers : Leave(c) \/ OptOut(c)) \/ (\E s \in Sessions : Session(s))
      BY <1>0, <2>2, LaterKeepsLeft DEF Leave, OptOut, Session, locals
    <2> QED
      BY <1>3, <1>4, <2>1, <2>2 DEF Around
  <1>5. CASE UNCHANGED vars
    BY <1>0, <1>5, LaterKeepsLeft DEF vars, leaving, locals
  <1> QED
    BY <1>1, <1>2, <1>4, <1>5 DEF Next

(* Where somebody is signed in to myna cloud, or was and the session ran     *)
(* out, no list, edit, crash or order of leaving and pulling puts a person   *)
(* who had left by the time a run pulled into what the run sends.  Signed    *)
(* out there is no source that is set up, and nothing is promised.           *)
THEOREM WhoLeftGetsNothing == "out" \notin Sessions => (Spec => []NobodyWhoHadLeft)
  <1> SUFFICES ASSUME "out" \notin Sessions
               PROVE  Spec => []NobodyWhoHadLeft
    OBVIOUS
  <1>1. Init => LeftInv
    BY InitTyped DEF Init, LeftInv, Batches, PulledIn, NobodyWhoHadLeft
  <1>2. LeftInv /\ [Next]_vars => LeftInv'
    BY LeftInvInductive
  <1>3. LeftInv => NobodyWhoHadLeft
    BY DEF LeftInv
  <1> QED
    BY <1>1, <1>2, <1>3, PTL DEF Spec

(***************************************************************************)
(* Sent means everybody had a turn                                         *)
(***************************************************************************)
(* A marked row stays a row: no answer turns it back into none. *)
ChunkHasRows == \A r \in Runs : \A c \in chunk[r] : ledger[c] # "none"

(* Whoever a run found on the list and has no row is still in its batch, or  *)
(* was cut from it, and then the run does not finish the issue.              *)
NobodyForgotten ==
  \A r \in Runs : pc[r] \in {"mark", "answer", "close"} =>
    \A c \in audience[r] : ledger[c] # "none" \/ c \in todo[r] \/ cut[r]

TurnInv == Typed /\ ChunkHasRows /\ NobodyForgotten

(* A step that takes no row away, and no run's batch or place of the walk. *)
LEMMA RowsStayKeepsTurn ==
  ASSUME TurnInv, Typed', \A c \in Contacts : ledger[c] # "none" => ledger'[c] # "none",
         \A r \in Runs :
           /\ chunk'[r] \subseteq chunk[r]
           /\ \/ pc'[r] \notin {"mark", "answer", "close"}
              \/ /\ pc[r] \in {"mark", "answer", "close"}
                 /\ audience'[r] = audience[r] /\ todo'[r] = todo[r] /\ cut'[r] = cut[r]
  PROVE  TurnInv'
  <1>1. ChunkHasRows'
    BY DEF TurnInv, Typed, TypeOK, ChunkHasRows
  <1>2. NobodyForgotten'
    BY DEF TurnInv, Typed, TypeOK, NobodyForgotten
  <1> QED
    BY <1>1, <1>2 DEF TurnInv

LEMMA BeginKeepsTurn ==
  ASSUME TurnInv, Typed', NEW r \in Runs, Begin(r)
  PROVE  TurnInv'
  <1>0. TypeOK /\ TypeOK' /\ ChunkHasRows /\ NobodyForgotten
    BY DEF TurnInv, Typed
  <1>1. PICK batch \in SUBSET Due(r) :
          /\ todo' = [todo EXCEPT ![r] = batch]
          /\ cut' = [cut EXCEPT ![r] = (batch # Due(r))]
    BY DEF Begin
  <1>2. /\ audience' = [audience EXCEPT ![r] = Recipients(r)]
        /\ UNCHANGED <<ledger, chunk>>
        /\ \A s \in Runs \ {r} : pc'[s] = pc[s]
    BY DEF Begin, Goto
  <1>3. \A c \in Recipients(r) : ledger[c] = "none" => c \in Due(r)
    BY DEF Due
  <1>4. /\ todo'[r] = batch /\ audience'[r] = Recipients(r)
        /\ \A s \in Runs \ {r} : todo'[s] = todo[s] /\ audience'[s] = audience[s]
    BY <1>0, <1>1, <1>2 DEF TypeOK
  <1>5. /\ batch # Due(r) => cut'[r]
        /\ \A s \in Runs \ {r} : cut'[s] = cut[s]
    BY Zenon, <1>0, <1>1 DEF TypeOK
  <1>6. ChunkHasRows'
    BY <1>0, <1>2 DEF ChunkHasRows
  <1>7. NobodyForgotten'
    BY <1>0, <1>2, <1>3, <1>4, <1>5 DEF NobodyForgotten
  <1> QED
    BY <1>6, <1>7 DEF TurnInv

LEMMA MarkKeepsTurn ==
  ASSUME TurnInv, Typed', NEW r \in Runs, NEW c \in Contacts, Mark(r, c)
  PROVE  TurnInv'
  <1>0. TypeOK /\ ChunkHasRows /\ NobodyForgotten
    BY DEF TurnInv, Typed
  <1>1. /\ ledger' = [ledger EXCEPT ![c] = "pending"]
        /\ todo' = [todo EXCEPT ![r] = todo[r] \ {c}]
        /\ chunk' = [chunk EXCEPT ![r] = chunk[r] \cup {c}]
        /\ UNCHANGED <<pc, audience, cut>>
    BY DEF Mark
  <1>2. ledger'[c] # "none" /\ \A d \in Contacts \ {c} : ledger'[d] = ledger[d]
    BY <1>0, <1>1 DEF TypeOK
  <1>3. ChunkHasRows'
    BY <1>0, <1>1, <1>2 DEF TypeOK, ChunkHasRows
  <1>4. NobodyForgotten'
    BY <1>0, <1>1, <1>2 DEF TypeOK, NobodyForgotten
  <1> QED
    BY <1>3, <1>4 DEF TurnInv

LEMMA AfterKeepsTurn ==
  ASSUME TurnInv, Typed', NEW r \in Runs, NEW c \in Contacts,
         Record(r, c) \/ Count(r, c) \/ After(r, c)
  PROVE  TurnInv'
  <1>0. TypeOK /\ Answered /\ ChunkHasRows
    BY DEF TurnInv, Typed
  <1>1. /\ pc[r] = "answer" /\ c \in chunk[r]
        /\ \/ ledger' = ledger
           \/ /\ ledger' = [ledger EXCEPT ![c] = Row(ledger[c], answers[r][c])]
              /\ answers[r][c] # "recorded"
        /\ \/ chunk' = chunk
           \/ chunk' = [chunk EXCEPT ![r] = chunk[r] \ {c}]
        /\ UNCHANGED <<todo, audience, cut>>
        /\ \A s \in Runs \ {r} : pc'[s] = pc[s]
    <2>1. CASE Record(r, c)
      BY <2>1 DEF Record, Between
    <2>2. CASE Count(r, c)
      BY <2>2 DEF Count, Handled, Goto
    <2>3. CASE After(r, c)
      <3>1. answers[r][c] # "recorded"
        BY <2>3 DEF After, Between
      <3> QED
        BY <2>3, <3>1 DEF After, Handled, Between, Goto
    <2> QED BY <2>1, <2>2, <2>3
  <1>2. answers[r][c] \in Answers \cup {"recorded"} /\ ledger[c] # "none"
    BY <1>0, <1>1 DEF Answered, ChunkHasRows
  <1>3. answers[r][c] # "recorded" => Row(ledger[c], answers[r][c]) # "none"
    BY <1>2 DEF Row, Answers
  <1>4. \A d \in Contacts : ledger[d] # "none" => ledger'[d] # "none"
    BY <1>0, <1>1, <1>3 DEF TypeOK
  <1>5. \A s \in Runs : chunk'[s] \subseteq chunk[s]
    BY <1>0, <1>1 DEF TypeOK
  <1>6. \A s \in Runs : pc'[s] \in {"mark", "answer", "close"} =>
                         pc[s] \in {"mark", "answer", "close"}
    BY <1>1
  <1>7. \A s \in Runs : audience'[s] = audience[s] /\ todo'[s] = todo[s] /\ cut'[s] = cut[s]
    BY <1>1
  <1> QED
    BY <1>4, <1>5, <1>6, <1>7, RowsStayKeepsTurn

LEMMA TurnInvInductive ==
  ASSUME TurnInv, [Next]_vars
  PROVE  TurnInv'
  <1>0. TypeOK /\ Typed'
    BY TypedInductive DEF TurnInv, Typed
  <1>8. ASSUME NEW r \in Runs, NEW o, Acquire(r, o)
        PROVE  TurnInv'
    <2>1. /\ ledger' = ledger /\ chunk' = chunk /\ todo' = todo /\ cut' = cut
          /\ pc'[r] = "sync"
          /\ \A s \in Runs \ {r} : audience'[s] = audience[s] /\ pc'[s] = pc[s]
      BY <1>0, <1>8 DEF TypeOK, Acquire, Goto
    <2> QED
      BY <1>0, <2>1, RowsStayKeepsTurn
  <1>1. ASSUME ledger' = ledger, UNCHANGED <<chunk, todo, cut, audience>>,
               \A r \in Runs : \/ pc'[r] = pc[r]
                               \/ pc'[r] \notin {"mark", "answer", "close"}
                               \/ pc[r] \in {"mark", "answer", "close"}
        PROVE  TurnInv'
    BY <1>0, <1>1, RowsStayKeepsTurn
  <1>2. ASSUME NEW S, Forget(S), ledger' = ledger
        PROVE  TurnInv'
    <2>1. \A r \in Runs : /\ chunk'[r] \subseteq chunk[r]
                          /\ r \in S => pc'[r] = "idle"
      BY <1>2 DEF Forget
    <2>2. \A r \in Runs \ S : /\ pc'[r] = pc[r] /\ audience'[r] = audience[r]
                              /\ todo'[r] = todo[r] /\ cut'[r] = cut[r]
      BY <1>2 DEF Forget
    <2> QED
      BY <1>0, <1>2, <2>1, <2>2, RowsStayKeepsTurn
  <1>3. ASSUME NEW r \in Runs, Step(r)
        PROVE  TurnInv'
    <2>1. CASE Sync(r) \/ Refuse(r)
      BY <1>0, <1>1, <2>1
         DEF TypeOK, Sync, PullAnswered, PullFailed, PullSkipped, Refuse, Goto, mail, day, locals
    <2>2. CASE Call(r)
      BY <1>0, <1>1, <2>2 DEF TypeOK, Call, Goto
    <2>3. CASE Close(r) \/ Relay(r)
      BY <1>0, <1>1, <2>3 DEF TypeOK, Close, Relay, Goto, mail, day, locals
    <2>4. CASE Release(r)
      BY <1>2, <2>4 DEF Release, mail, day
    <2>5. CASE DaemonPick(r) \/ DaemonSkip(r)
      BY <1>0, <1>1, <2>5
         DEF TypeOK, DaemonPick, DaemonSkip, Goto, mail, day, locals
    <2>6. CASE DaemonSend(r)
      BY <1>8, <2>6 DEF DaemonSend
    <2> QED
      BY <1>0, <1>3, <2>1, <2>2, <2>3, <2>4, <2>5, <2>6, BeginKeepsTurn, MarkKeepsTurn,
         AfterKeepsTurn DEF Step
  <1>4. ASSUME NEW r \in Runs, NEW o \in Options, Start(r, o)
        PROVE  TurnInv'
    BY <1>4, <1>8 DEF Start
  <1>5. ASSUME NEW p \in Procs, Crash(p)
        PROVE  TurnInv'
    BY <1>2, <1>5 DEF Crash, mail, day
  <1>6. CASE Around
    BY <1>1, <1>5, <1>6 DEF Around, Schedule, EditList, TimePasses, Expire, OtherSend, SendBeside,
                            DaemonPull, Leave, OptOut, Session, mail, day, locals
  <1>7. CASE UNCHANGED vars
    BY <1>1, <1>7 DEF vars, mail, day, locals
  <1> QED
    BY <1>3, <1>4, <1>6, <1>7 DEF Next

(* Only a run that closes with nothing cut and nothing left turns an issue to *)
(* sent.                                                                      *)
LEMMA ClosedAfterEveryone ==
  ASSUME TurnInv, [Next]_vars, status # "sent", status' = "sent",
         NEW s \in Runs, pc[s] = "close", pc'[s] # "close"
  PROVE  \A c \in audience[s] : ledger[c] # "none"
  <1>0. TypeOK /\ NobodyForgotten
    BY DEF TurnInv, Typed
  <1>1. PICK r \in Runs : Close(r)
    <2>1. ASSUME NEW r \in Runs, Step(r), ~Close(r)
          PROVE  status' = status
      BY <2>1 DEF Step, Sync, PullAnswered, PullFailed, PullSkipped, Begin, Refuse, Mark,
                  Call, Record, Count, After, Relay, Release, DaemonPick, DaemonSend, DaemonSkip,
                  Acquire, issue
    <2>2. ASSUME NEW r \in Runs, NEW o \in Options, Start(r, o)
          PROVE  status' = status
      BY <2>2 DEF Start, Acquire, issue
    <2>3. ASSUME NEW w \in Times, Schedule(w)
          PROVE  status' # "sent"
      BY <2>3 DEF Schedule
    <2>4. CASE Around
      BY <2>3, <2>4 DEF Around, Crash, EditList, TimePasses, Expire, OtherSend, SendBeside,
                        DaemonPull, Leave, OptOut, Session, issue
    <2> QED
      BY <2>1, <2>2, <2>4 DEF Next, vars, issue
  <1>2. Done(r) /\ pc[r] = "close" /\ s = r
    BY <1>0, <1>1 DEF TypeOK, Close, Goto
  <1> QED
    BY <1>0, <1>2 DEF Done, NobodyForgotten

(* An issue that is sent, and so out of the daemon's reach, has had everybody *)
(* its last run found on the list, in whatever runs, options and crashes.     *)
THEOREM SentAfterEveryone == Spec => SentMeansEveryoneHadATurn
  <1>1. Init => TurnInv
    BY InitTyped DEF Init, TurnInv, ChunkHasRows, NobodyForgotten
  <1>2. TurnInv /\ [Next]_vars => TurnInv'
    BY TurnInvInductive
  <1>3. TurnInv /\ [Next]_vars =>
          [(status # "sent" /\ status' = "sent") =>
             \A r \in Runs : (pc[r] = "close" /\ pc'[r] # "close") =>
               \A c \in audience[r] : ledger[c] # "none"]_vars
    BY ClosedAfterEveryone
  <1> QED
    BY <1>1, <1>2, <1>3, PTL DEF Spec, SentMeansEveryoneHadATurn
=============================================================================
