------------------------------ MODULE PostQueue ------------------------------
(***************************************************************************)
(* Posts to accounts, now and later: postPaced (core/poster.ts), the paced *)
(* plan (core/pacing.ts), queue.json (store/queue.ts), history.json, and   *)
(* the scheduler's runDuePosts (core/scheduler.ts), in any number of       *)
(* processes on one vault.                                                 *)
(*                                                                         *)
(* Times are relative to the present, in units of a coarse clock: a        *)
(* booking at -1 was due one unit ago.  What is older than any window no   *)
(* longer matters, so a behaviour has no last moment.  A process runs      *)
(* until it awaits a network: a step is one entry up to its first call,    *)
(* the calls and the history they leave, or what goes to the queue last.   *)
(***************************************************************************)
EXTENDS Integers, SequencesExt

CONSTANTS
  Accounts, Texts,
  NetworkOf,   \* the network of each account
  GapOf,       \* minGap, or what the account's skill widens it to
  TailorOf,    \* what a text may go out as: tagged, signed, cut to the limit
  Drip,        \* the window a post to several accounts is spread over
  RepostGap,   \* the same text to the same account waits this long
  Day,         \* the window of the daily cap
  MaxPerDay,   \* the daily cap of each account
  Horizon,     \* bound: no window is longer
  MaxEntries,  \* bound: entries in the queue at once
  Schedulers,  \* processes that run runDuePosts
  People,      \* processes that call postPaced
  Lead,        \* how far ahead they schedule
  Uses,        \* bound: what one behaviour has
  MaxForced,   \* bound: what is booked, past and to come, when one is forced
  MaxLag,      \* bound: units of time the calls of a turn take
  MaxOdd       \* bound: crashes, removals and archivals in one behaviour

NoText == "none"
Procs == Schedulers \cup People
Places == 1..MaxEntries

ASSUME AccountsAssumption ==
  /\ IsFiniteSet(Accounts)
  /\ DOMAIN NetworkOf = Accounts /\ GapOf \in [Accounts -> 1..Horizon]
  /\ TailorOf \in [Accounts -> [Texts -> (SUBSET Texts) \ {{}}]]
ASSUME WindowsAssumption ==
  /\ {Drip, RepostGap, Day, Horizon, MaxEntries, MaxForced, MaxLag, MaxOdd} \subseteq Nat
  /\ MaxPerDay \in Nat \ {0} /\ RepostGap <= Horizon /\ Day <= Horizon
ASSUME UsesAssumption ==
  /\ Uses \subseteq SUBSET {"paced", "front", "now", "ahead", "schedule",
                         "cancel", "archive", "crash"}
  /\ Schedulers \cap People = {} /\ Lead \in Nat /\ NoText \notin Texts

VARIABLES
  queue,     \* the entry at each place
  history,   \* the bag of what was recorded inside the windows
  archived,  \* accounts that are archived
  pc, work,  \* where each process is, and with what
  uses,      \* of Uses
  odd        \* how many of them there were

vars == <<queue, history, archived, pc, work, uses, odd>>


(* carried (history): the accounts the entry was handed to *)
Entry(at, targets, text, force) ==
  [at |-> at, targets |-> targets, text |-> text, force |-> force,
   status |-> "pending", carried |-> {}]
NoEntry == [Entry(0, {}, NoText, FALSE) EXCEPT !.status = "none"]


(* due: what duePosts returned and is still to do; clock: the moment the    *)
(* process acts at; place: of the entry, 0 for a post by hand; to: the      *)
(* accounts called; later: the slots to enqueue; alone (history): no other  *)
(* process was at anything meanwhile                                        *)
Idle == [due |-> {}, clock |-> 0, place |-> 0, to |-> {},
         text |-> NoText, force |-> FALSE, later |-> <<>>, alone |-> TRUE]

Init ==
  /\ queue = [i \in Places |-> NoEntry] /\ history = EmptyBag /\ archived = {}
  /\ pc = [p \in Procs |-> "idle"] /\ work = [p \in Procs |-> Idle]
  /\ uses \in Uses /\ odd = 0

Only(f, S) == [a \in DOMAIN f \cap S |-> f[a]]

(***************************************************************************)
(* The plan (core/pacing.ts)                                               *)
(***************************************************************************)
Booked(i) == queue[i].status \in {"pending", "sending"}
On(n, i) == \E a \in queue[i].targets : NetworkOf[a] = n

(* The network was tried, or will be: failures count *)
bookingsPerNetwork(others, n) ==
  {h.at : h \in {x \in DOMAIN history : NetworkOf[x.account] = n}}
    \cup {queue[i].at : i \in {j \in others : Booked(j) /\ On(n, j)}}

(* mutant: the gap after a booking is off by one *)
ClearShort(times, gap, t) == \A b \in times : ~(b - gap <= t /\ t < b + gap - 1)

(* nextSlotFor, whose walk over the sorted bookings ends at the first       *)
(* moment that is outside the gap of each                                   *)
Clear(times, gap, t) == \A b \in times : ~(b - gap <= t /\ t < b + gap)

(* mutant: what the daily cap counts is what is promised *)
PromisedOnly(others, a, t) ==
  Cardinality({i \in others : Booked(i) /\ a \in queue[i].targets
                 /\ queue[i].at \in (t - Day + 1)..t}) < MaxPerDay

(* nextUnderCap, from drop to drop, and so to the first moment that has     *)
(* fewer than maxPerDay in the day that ends there                          *)
Landed(a, from, to) ==
  Cardinality(UNION {{h} \X (1..history[h]) :
    h \in {x \in DOMAIN history : x.account = a /\ x.ok /\ x.at \in from..to}})

UnderCap(others, a, t) ==
  Landed(a, t - Day + 1, t)
    + Cardinality({i \in others : Booked(i) /\ a \in queue[i].targets
                 /\ queue[i].at \in (t - Day + 1)..t})
    < MaxPerDay

(* mutant: only what went out before this moment is a repeat *)
recentDuplicateBefore(text, a, clock) ==
  \E h \in DOMAIN history :
    /\ h.account = a /\ h.ok /\ h.text = text
    /\ h.at < clock /\ clock - h.at < RepostGap

recentDuplicate(text, a, clock) ==
  \E h \in DOMAIN history :
    h.account = a /\ h.ok /\ h.text = text /\ clock - h.at < RepostGap

(* The first moment from turn on that keeps the gap to times and the cap:   *)
(* turn itself, or one where a gap or a day ends                            *)
firstSlot(a, turn, times, others) ==
  LET openings == {turn} \cup {b + GapOf[a] : b \in times}
                    \cup {b + Day : b \in bookingsPerNetwork(others, NetworkOf[a])}
  IN  Min({t \in openings : t >= turn /\ Clear(times, GapOf[a], t) /\ UnderCap(others, a, t)})

(* planTargets.  Each account of order goes at its turn of the drip, or at  *)
(* the first moment after it that keeps the network's gap and the account's *)
(* cap; those before it on its network are booked.  front sees no future    *)
(* booking for the gap and drips over one gap; now waits for nothing.       *)
planTargets(order, others, clock, from, mode) ==
  LET window == IF mode = "front" THEN Min(Range(GapOf)) ELSE Drip
      step == IF Len(order) > 1 THEN window \div (Len(order) - 1) ELSE 0
      seen == IF mode = "front" THEN {i \in others : queue[i].at <= clock}
                                ELSE others
      slot[k \in 1..Len(order)] ==
        LET n == NetworkOf[order[k]]
            before == {j \in 1..(k - 1) : NetworkOf[order[j]] = n}
        IN  IF mode = "now" THEN Max({from, clock})
            ELSE firstSlot(order[k], Max({clock, from + (k - 1) * step}),
                           bookingsPerNetwork(seen, n) \cup {slot[j] : j \in before}, others)
  IN  [a \in Range(order) |-> slot[CHOOSE k \in 1..Len(order) : order[k] = a]]

(* The entries of a network from the first slot taken on *)
After(n, taken) == {i \in Places : Booked(i) /\ On(n, i) /\ \E t \in taken : t <= queue[i].at}

(* mutant: only the entry next to a slot makes room *)
reflowNext(n, taken, line) ==
  LET gap == Min(Range(GapOf))
  IN  [k \in 1..Len(line) |->
         Max({queue[line[k]].at} \cup {t + gap : t \in {u \in taken :
           line[k] \in After(n, taken) /\ u <= queue[line[k]].at}})]

(* reflowQueue on one network, in order of time: an entry moves to a gap    *)
(* behind the slots and the entries that are now before it                  *)
reflowOn(n, taken, line) ==
  LET gap == Min(Range(GapOf))
      at[k \in 1..Len(line)] ==
        LET i == line[k]
            ahead == {t \in taken : t <= queue[i].at}
                       \cup {at[j] : j \in {l \in 1..(k - 1) : line[l] \in After(n, taken)}}
        IN  IF i \in After(n, taken) THEN Max({queue[i].at} \cup {t + gap : t \in ahead})
                                     ELSE queue[i].at
  IN  at

(* Places in order of time, those of one time in any order *)
InLine ==
  {line \in SetToSeqs(Places) :
     \A k, l \in Places : k < l => queue[line[k]].at <= queue[line[l]].at}

(* An entry on several networks gets the latest of what they propose *)
reflowQueue(slots, line) ==
  LET taken(n) == {slots[a] : a \in {b \in DOMAIN slots : NetworkOf[b] = n}}
      to == [n \in Range(NetworkOf) |-> reflowOn(n, taken(n), line)]
  IN  [i \in Places |->
         LET k == CHOOSE l \in Places : line[l] = i
         IN  [queue[i] EXCEPT !.at = Max({to[n][k] : n \in Range(NetworkOf)})]]

(***************************************************************************)
(* The queue (store/queue.ts)                                              *)
(***************************************************************************)
(* An entry that is not in the file any more is not updated *)
updateQueued(q, i, entry) ==
  IF q[i].status = "none" THEN q ELSE [q EXCEPT ![i] = entry]

InHand(i, others) ==
  \E p \in others : work[p].place = i \/ \E d \in work[p].due : d.place = i

(* Sent, failed or cancelled: nothing reads the entry again but a process   *)
(* that took it up before                                                   *)
Done(i, others) ==
  IF queue[i].status # "none" /\ InHand(i, others)
  THEN [NoEntry EXCEPT !.status = "done", !.carried = queue[i].carried]
  ELSE NoEntry

Free(q) == {i \in Places : q[i].status \in {"none", "done"} /\ ~InHand(i, Procs)}

(* bound: places are left for what is to be enqueued *)
Fits(q, slots) ==
  Cardinality(Free(q)) >= Cardinality(DOMAIN slots)
    + Cardinality(UNION {{p} \X DOMAIN work[p].later : p \in Procs})

(* One entry for each account *)
enqueue(q, slots, text, force) ==
  LET place == CHOOSE f \in Injection(DOMAIN slots, Free(q)) : TRUE
  IN  [i \in Places |->
         IF \A a \in DOMAIN slots : place[a] # i THEN q[i]
         ELSE LET a == CHOOSE b \in DOMAIN slots : place[b] = i
              IN  Entry(slots[a], {a}, text, force)]

(***************************************************************************)
(* postPaced (core/poster.ts)                                              *)
(***************************************************************************)
(* The process is at work, and so is no longer alone with others that are *)
Starts(p, w) ==
  work' = [q \in Procs |->
    IF q = p THEN [w EXCEPT !.alone = \A o \in Procs \ {p} : pc[o] = "idle"]
    ELSE IF pc[q] = "idle" THEN work[q] ELSE [work[q] EXCEPT !.alone = FALSE]]

Goto(p, where) == pc' = [pc EXCEPT ![p] = where]

(* mode: paced, --front, --now, or scheduled ahead.  With nobody to post to  *)
(* now the entries are made at once.                                         *)
Post(p, targets, text, mode) ==
  /\ pc[p] = "idle" /\ targets # {} /\ targets \cap archived = {}
  /\ mode = "now" =>
       BagCardinality(history) + Cardinality({i \in Places : Booked(i)}) <= MaxForced
  /\ \E order \in SetToSeqs({a \in targets : ~recentDuplicate(text, a, 0)}),
        line \in IF mode = "front" THEN InLine ELSE {<<>>} :
       LET slots == planTargets(order, Places, 0, IF mode = "ahead" THEN Lead ELSE 0, mode)
           now == {a \in DOMAIN slots : slots[a] <= 0}
           later == Only(slots, DOMAIN slots \ now)
           room == IF mode = "front" THEN reflowQueue(slots, line)
                                                     ELSE queue
       IN  /\ Fits(room, later)
           /\ \/ /\ now = {}
                 /\ queue' = enqueue(room, later, text, mode = "now")
                 /\ UNCHANGED <<pc, work>>
              \/ /\ now # {}
                 /\ queue' = room
                 /\ Goto(p, "send")
                 /\ Starts(p, [Idle EXCEPT !.to = now, !.later = later,
                                 !.text = text, !.force = (mode = "now")])
  /\ UNCHANGED <<history, archived, uses, odd>>

(***************************************************************************)
(* runDuePosts (core/scheduler.ts)                                         *)
(***************************************************************************)
(* mutant: what a crash left is tried again *)
duePostsAndSending ==
  {[place |-> i, entry |-> queue[i]] : i \in {j \in Places : Booked(j) /\ queue[j].at <= 0}}

duePosts ==
  {[place |-> i, entry |-> queue[i]] :
     i \in {j \in Places : queue[j].status = "pending" /\ queue[j].at <= 0}}

Tick(p) ==
  /\ pc[p] = "idle" /\ duePosts # {}
  /\ Goto(p, "walk") /\ Starts(p, [Idle EXCEPT !.due = duePosts])
  /\ UNCHANGED <<queue, history, archived, uses, odd>>

(* The next entry is taken up, or the turn ends *)
GoesOn(p, w) ==
  /\ work' = [work EXCEPT ![p] = IF w.due = {} THEN Idle
                ELSE [Idle EXCEPT !.due = w.due, !.clock = w.clock,
                                  !.alone = w.alone]]
  /\ Goto(p, IF w.due = {} THEN "idle" ELSE "walk")

(* mutant: an archived account's entries were dropped when it was archived *)
LiveDropped(targets) == targets

(* Targets that are not off limits *)
Live(targets) == targets \ archived

(* One entry, as it was when the turn began, up to the calls.  The others   *)
(* are the queue as it is.                                                  *)
Walk(p, d) ==
  LET i == d.place
      e == d.entry
      w == [work[p] EXCEPT !.due = @ \ {d}]
      live == Live(e.targets)
      cancel == updateQueued(queue, i, Done(i, Procs \ {p}))
  IN  /\ pc[p] = "walk" /\ d \in work[p].due
      /\ \A o \in work[p].due : d.entry.at <= o.entry.at
      /\ \/ live = {} /\ queue' = cancel /\ GoesOn(p, w)
         \/ /\ live # {}
            /\ \E order \in SetToSeqs({a \in live :
                              ~recentDuplicate(e.text, a, w.clock)}) :
                 LET slots == planTargets(order, Places \ {i}, w.clock, w.clock,
                                IF e.force THEN "now" ELSE "paced")
                     now == {a \in DOMAIN slots : slots[a] <= w.clock}
                     later == Only(slots, DOMAIN slots \ now)
                 IN  \/ DOMAIN slots = {} /\ queue' = cancel /\ GoesOn(p, w)
                     \/ /\ DOMAIN slots # {} /\ now = {}
                        /\ \E first \in DOMAIN slots :
                             LET rest == Only(slots, DOMAIN slots \ {first})
                             IN  /\ \A a \in DOMAIN slots : slots[first] <= slots[a]
                                 /\ Fits(queue, rest)
                                 /\ queue' = enqueue(updateQueued(queue, i,
                                      [queue[i] EXCEPT !.at = slots[first],
                                                       !.targets = {first}]),
                                      rest, e.text, e.force)
                        /\ GoesOn(p, w)
                     \/ /\ now # {} /\ Fits(queue, later)
                        /\ queue' = enqueue(updateQueued(queue, i,
                             [queue[i] EXCEPT !.status = "sending", !.targets = now,
                                              !.carried = @ \cup now]),
                             later, e.text, e.force)
                        /\ Goto(p, "send")
                        /\ work' = [work EXCEPT ![p] =
                             [w EXCEPT !.place = i, !.to = now,
                                       !.text = e.text, !.force = e.force]]
      /\ UNCHANGED <<history, archived, uses, odd>>

(***************************************************************************)
(* postToAll (core/poster.ts), and what its callers do after it            *)
(***************************************************************************)
(* How many failed at one moment makes no difference *)
Recorded(sends) == [h \in DOMAIN sends |-> IF h.ok THEN sends[h] ELSE 1]

(* What each network makes of the text                                       *)
tailor(targets, text) ==
  {sent \in [targets -> Texts] : \A a \in targets : sent[a] \in TailorOf[a][text]}

(* The calls are made, and recordHistory keeps what went out, dated at the  *)
(* clock the caller acts at                                                  *)
Land(p) ==
  /\ pc[p] = "send"
  /\ \E ok \in SUBSET work[p].to : \E sent \in tailor(ok, work[p].text) :
       history' = Recorded(history (+) SetToBag(
         {[at |-> work[p].clock, account |-> a, ok |-> a \in ok,
           text |-> IF a \in ok THEN sent[a] ELSE NoText] : a \in work[p].to}))
  /\ Goto(p, "finish")
  /\ UNCHANGED <<queue, archived, work, uses, odd>>

(* The entry's result, or the entries of the accounts whose turn is later *)
Finish(p) ==
  /\ pc[p] = "finish"
  /\ LET w == work[p]
     IN  /\ queue' = IF w.place = 0
                     THEN enqueue(queue, w.later, w.text, w.force)
                     ELSE updateQueued(queue, w.place, Done(w.place, Procs \ {p}))
         /\ GoesOn(p, w)
  /\ UNCHANGED <<history, archived, uses, odd>>

Odd == odd < MaxOdd /\ odd' = odd + 1

Crash(p) ==
  /\ "crash" \in uses /\ pc[p] # "idle" /\ Odd
  /\ Goto(p, "idle") /\ work' = [work EXCEPT ![p] = Idle]
  /\ UNCHANGED <<queue, history, archived, uses>>

(* What stays of an entry: what goes now, or the first to go later           *)
Stays(slots, clock) ==
  LET now == {a \in DOMAIN slots : slots[a] <= clock}
  IN  IF now # {} THEN {now}
      ELSE {{a} : a \in {x \in DOMAIN slots : \A b \in DOMAIN slots : slots[x] <= slots[b]}}

(* A crash between the writes of one entry: some of its parts are queued,   *)
(* earliest first, and the entry waits as before                            *)
CutOff(p, d) ==
  LET i == d.place
      e == d.entry
      clock == work[p].clock
      live == Live(e.targets)
      trimmed == IF live = e.targets THEN queue
                 ELSE updateQueued(queue, i, [queue[i] EXCEPT !.targets = live])
  IN  /\ "crash" \in uses /\ pc[p] = "walk" /\ d \in work[p].due /\ live # {}
      /\ \A o \in work[p].due : d.entry.at <= o.entry.at
      /\ \E order \in SetToSeqs({a \in live : ~recentDuplicate(e.text, a, clock)}) :
           LET slots == planTargets(order, Places \ {i}, clock, clock,
                          IF e.force THEN "now" ELSE "paced")
           IN  \E stay \in Stays(slots, clock) : \E parts \in SUBSET (DOMAIN slots \ stay) :
                 /\ \A a \in parts, b \in DOMAIN slots \ (stay \cup parts) : slots[a] <= slots[b]
                 /\ Fits(trimmed, Only(slots, parts))
                 /\ queue' = enqueue(trimmed, Only(slots, parts), e.text, e.force)
      /\ Odd /\ Goto(p, "idle") /\ work' = [work EXCEPT ![p] = Idle]
      /\ UNCHANGED <<history, archived, uses>>

(***************************************************************************)
(* What else is done to the queue                                          *)
(***************************************************************************)
(* schedule (apps/api): one entry for all its accounts, and no plan yet     *)
schedule(targets, text) ==
  /\ "schedule" \in uses /\ targets # {} /\ targets \cap archived = {}
  /\ \E i \in Free(queue) :
       /\ Fits([queue EXCEPT ![i] = Entry(Lead, targets, text, FALSE)], <<>>)
       /\ queue' = [queue EXCEPT ![i] = Entry(Lead, targets, text, FALSE)]
  /\ UNCHANGED <<history, archived, pc, work, uses, odd>>

(* removeQueued *)
Cancel(i) ==
  /\ "cancel" \in uses /\ Booked(i) /\ Odd
  /\ queue' = [queue EXCEPT ![i] = NoEntry]
  /\ UNCHANGED <<history, archived, pc, work, uses>>

(* archiveAccount, then dropQueuedFor: pending entries lose the account;    *)
(* bound: one account at a time                                             *)
Archive(a) ==
  /\ "archive" \in uses /\ archived = {} /\ Odd
  /\ archived' = archived \cup {a}
  /\ queue' = [i \in Places |->
       IF queue[i].status # "pending" \/ a \notin queue[i].targets THEN queue[i]
       ELSE IF queue[i].targets = {a} THEN Done(i, Procs)
       ELSE [queue[i] EXCEPT !.targets = @ \ {a}]]
  /\ UNCHANGED <<history, pc, work, uses>>

restoreAccount(a) ==
  /\ a \in archived /\ archived' = archived \ {a}
  /\ UNCHANGED <<queue, history, pc, work, uses, odd>>

(* A unit of time passes *)
Old == Horizon + MaxLag

Pass ==
  LET earlier(t) == Max({t - 1, -Old})
      before(e) == [e EXCEPT !.at = earlier(@)]
  IN  /\ \A p \in Procs : pc[p] # "idle" => work[p].clock > -MaxLag
      /\ queue' = [i \in Places |->
           IF Booked(i) THEN before(queue[i]) ELSE queue[i]]
      /\ history' = [h \in {before(o) : o \in {x \in DOMAIN history : x.at > 1 - Old}} |->
                       history[[h EXCEPT !.at = @ + 1]]]
      /\ work' = [p \in Procs |->
           IF pc[p] = "idle" THEN work[p]
           ELSE [work[p] EXCEPT !.clock = @ - 1,
                   !.later = [a \in DOMAIN @ |-> @[a] - 1],
                   !.due = {[d EXCEPT !.entry = before(@)] : d \in @}]]
      /\ UNCHANGED <<archived, pc, uses, odd>>

Next ==
  \/ \E p \in People, A \in SUBSET Accounts, t \in Texts,
        m \in uses \cap {"paced", "front", "now", "ahead"} : Post(p, A, t, m)
  \/ \E A \in SUBSET Accounts, t \in Texts : schedule(A, t)
  \/ \E p \in Schedulers : Tick(p) \/ \E d \in work[p].due : Walk(p, d) \/ CutOff(p, d)
  \/ \E p \in Procs : Land(p) \/ Finish(p) \/ Crash(p)
  \/ \E i \in Places : Cancel(i)
  \/ \E a \in Accounts : Archive(a) \/ restoreAccount(a)
  \/ Pass

Spec == Init /\ [][Next]_vars

(* The daemon's timer (core/scheduler.ts:227) and its turn go on; nobody has *)
(* to post, and nothing has to crash                                         *)
Fairness ==
  /\ WF_vars(Pass)
  /\ \A p \in Schedulers :
       WF_vars(Tick(p) \/ (\E d \in work[p].due : Walk(p, d)) \/ Land(p) \/ Finish(p))

FairSpec == Spec /\ Fairness

(***************************************************************************)
(* Properties                                                              *)
(***************************************************************************)
(* The type of every variable; and what is booked is for somebody. *)
TypeOK ==
  /\ \A i \in Places :
       /\ queue[i].at \in Int /\ queue[i].text \in Texts \cup {NoText}
       /\ queue[i].targets \subseteq Accounts /\ queue[i].carried \subseteq Accounts
       /\ queue[i].status \in {"none", "pending", "sending", "done"}
       /\ Booked(i) => queue[i].targets # {}
  /\ \A h \in DOMAIN history :
       /\ history[h] \in Nat \ {0} /\ h.at \in -Old..0
       /\ h.account \in Accounts /\ h.text \in Texts \cup {NoText}
  /\ archived \subseteq Accounts
  /\ pc \in [Procs -> {"idle", "walk", "send", "finish"}]
  /\ \A p \in Procs :
       /\ work[p].to \subseteq Accounts /\ work[p].place \in Places \cup {0}
       /\ work[p].clock \in -MaxLag..0
  /\ uses \in Uses /\ odd \in 0..MaxOdd

(* The process makes its calls, and no other did anything since it began:   *)
(* processes that send at the same time do not know of each other           *)
Lands(p) == pc[p] = "send" /\ pc'[p] = "finish" /\ work[p].alone

(* core/pacing.ts:9-16: whatever was queued, moved, jumped and cancelled,    *)
(* and whenever the daemon comes round, a send that is not forced is a gap   *)
(* behind all that went out on its network before.                           *)
GapKept ==
  [][\A p \in Procs : Lands(p) /\ ~work[p].force => \A a \in work[p].to :
       /\ \A h \in DOMAIN history : NetworkOf[h.account] = NetworkOf[a]
            => work[p].clock >= h.at + GapOf[a]
       /\ \A b \in work[p].to \ {a} : NetworkOf[b] # NetworkOf[a]]_vars

(* core/pacing.ts:18: no account gets more than its maxPerDay in any rolling *)
(* day, though slots are booked while others are free before and after them. *)
CapKept ==
  [][\A p \in Procs : Lands(p) /\ ~work[p].force => \A a \in work[p].to :
       Landed(a, work[p].clock - Day + 1, 0) < MaxPerDay]_vars

(* core/pacing.ts:14: an account is not called with a text that went out to *)
(* it within the repost gap: not by an entry queued before that, nor by one *)
(* that a crash left beside its parts, nor by hand, nor with --now.  What   *)
(* went out is what its network made of a text (core/poster.ts:239): a text *)
(* that was changed on its way is not known again.                          *)
NoRepeat ==
  [][\A p \in Procs : Lands(p) => \A h \in DOMAIN history :
       h.ok /\ h.account \in work[p].to /\ h.text = work[p].text
         => work[p].clock >= h.at + RepostGap]_vars

(* core/scheduler.ts:4: "a crash mid-send leaves evidence rather than        *)
(* silently re-posting everywhere on the next tick".  An entry is handed to  *)
(* an account once, whatever crashes and moves, unless two schedulers were   *)
(* at work at once; a part that was split off is an entry of its own.        *)
OncePerEntry ==
  [][\A p \in Schedulers :
       pc[p] = "walk" /\ pc'[p] = "send" /\ work'[p].alone =>
         queue[work'[p].place].carried \cap work'[p].to = {}]_vars

(* core/poster.ts:286: "an archived account is not posted to": no send       *)
(* begins for one, not from an entry of before, nor one made by a post that  *)
(* was under way when the account was archived.                              *)
ArchivedGetsNothing ==
  [][\A p \in Procs : pc[p] # "send" /\ pc'[p] = "send" =>
       work'[p].to \cap archived = {}]_vars

(* store/queue.ts:18: "A post due in the past is sent on the next tick."     *)
(* What is due is at least taken up at some time.                            *)
DueIsSent ==
  \A i \in Places :
    (queue[i].status = "pending" /\ queue[i].at <= 0) ~> queue[i].status # "pending"

(* core/pacing.ts:206: a post at the front makes room: where it moves an      *)
(* entry, every later one that goes to the same network alone is then a gap  *)
(* apart from it, also where it was not before; and nothing moves to an      *)
(* earlier time.                                                             *)
RoomIsMade ==
  [][(\A p \in Schedulers : pc'[p] = pc[p] /\ work'[p].due = work[p].due) =>
       \A i, j \in {k \in Places : queue[k].status = "pending" /\ queue'[k].status = "pending"} :
         (i # j /\ queue'[i].at > queue[i].at) =>
           /\ queue'[j].at >= queue[j].at
           /\ (queue[j].at >= queue[i].at
                /\ \A a \in queue[i].targets, b \in queue[j].targets : NetworkOf[a] = NetworkOf[b])
                => \/ queue'[j].at >= queue'[i].at + Min(Range(GapOf))
                   \/ queue'[i].at >= queue'[j].at + Min(Range(GapOf))]_vars
=============================================================================
