------------------------------ MODULE Reshare ------------------------------
(***************************************************************************)
(* The reshare network (apps/api/src/reshare.ts, core/reshare.ts,          *)
(* store/reshare.ts): an author asks for a post to be shared, the sharers' *)
(* own installs claim it, one network at a time, share it there and report *)
(* back, and the author pays.                                              *)
(*                                                                         *)
(* The server's statements are atomic, its handlers are not: claim counts  *)
(* in one statement and inserts in another.  Which request fits which      *)
(* sharer (scoreMatch) is left open.                                       *)
(***************************************************************************)
EXTENDS Jobs

CONSTANTS
  Requests,     \* every author's; no sharer here is an author
  Users,        \* the sharers
  Networks,
  UserOf,       \* whose install each worker runs on
  MaxSharers,   \* max_sharers of a request
  PerDay        \* settings.reshare.perDay

Keys == Requests \X Users \X Networks

ASSUME ReshareAssumption ==
  /\ UserOf \in [Workers -> Users]
  /\ MaxSharers \in Nat \ {0} /\ PerDay \in Nat \ {0}
  /\ IsFiniteSet(Keys)

VARIABLES
  active,     \* the server: the users whose profile is active
  request,    \* whether each request was made, and is still open
  claims,     \* reshare_claims: the status of each row
  paid,       \* the rows with a paid_at
  joined,     \* the users whose reshare.json has a joinedAt
  today,      \* the keys in each user's reshare.json, done in the last day
  rpc, task,  \* where each worker is, and with what
  shares,     \* history: the times the network took each share, at most two
  passed,     \* history: workers whose count is out of date
  overfull,   \* history: claims inserted after such a count
  strained    \* history: users with two turns at once, or a share not noted

reshareVars == <<active, request, claims, paid, joined, today, rpc, task,
                 shares, passed, overfull, strained>>

NoTask == [budget |-> 0, todo |-> {}, key |-> <<>>, res |-> "none"]

ReshareInit ==
  /\ active = {} /\ joined = {}
  /\ request = [r \in Requests |-> "none"]
  /\ claims = [k \in Keys |-> "none"] /\ paid = {}
  /\ today = [u \in Users |-> {}]
  /\ rpc = [w \in Workers |-> "idle"] /\ task = [w \in Workers |-> NoTask]
  /\ shares = [k \in Keys |-> 0] /\ passed = {}
  /\ overfull = [r \in Requests |-> 0] /\ strained = {}

Goes(w, where, t) == rpc' = [rpc EXCEPT ![w] = where] /\ task' = [task EXCEPT ![w] = t]

(***************************************************************************)
(* One turn: runReshare, and the server's handlers it calls                *)
(***************************************************************************)
(* The daily limit is what the file leaves of it, read once *)
ReshareTurn(w) ==
  LET u == UserOf[w]
      already == Cardinality(today[u])
  IN  /\ rpc[w] = "idle" /\ u \in joined /\ already < PerDay
      /\ Goes(w, "match", [NoTask EXCEPT !.budget = PerDay - already])
      /\ strained' = IF \E o \in Workers \ {w} : UserOf[o] = u /\ rpc[o] # "idle"
                     THEN strained \cup {u} ELSE strained
      /\ UNCHANGED <<active, request, claims, paid, joined, today, shares, passed,
                     overfull, faults>>

(* matchesFor: open requests this user has no claim of, on any network *)
Matches(w) ==
  LET u == UserOf[w]
      new == {r \in Requests : request[r] = "open" /\ \A n \in Networks : claims[<<r, u, n>>] = "none"}
  IN  /\ rpc[w] = "match"
      /\ \/ /\ u \in active
            /\ \E S \in SUBSET (new \X {u} \X Networks) :
                 Goes(w, "next", [task[w] EXCEPT !.todo = S])
         \/ Goes(w, "idle", NoTask)
      /\ UNCHANGED <<active, request, claims, paid, joined, today, shares, passed,
                     overfull, strained, faults>>

Next_(w, where, t) ==
  /\ Goes(w, where, t) /\ passed' = passed \ {w}
  /\ UNCHANGED <<active, request, claims, paid, joined, today, shares, overfull,
                 strained, faults>>

NextMatch(w) ==
  /\ rpc[w] = "next"
  /\ LET t == task[w]
     IN  \/ (t.todo = {} \/ t.budget = 0) /\ Next_(w, "idle", NoTask)
         \/ /\ t.budget > 0
            /\ \E k \in t.todo : Next_(w, "claim", [t EXCEPT !.todo = @ \ {k}, !.key = k])

(* mutant: only what is done is counted *)
TakenDone(r) == {k \in Keys : k[1] = r /\ claims[k] = "done"}

(* A claim that failed frees its place *)
Taken(r) == {k \in Keys : k[1] = r /\ claims[k] \notin {"none", "failed"}}

(* claim, its first statement; a refusal goes on with the next match *)
ClaimCount(w) ==
  LET r == task[w].key[1]
  IN  /\ rpc[w] = "claim"
      /\ IF /\ UserOf[w] \in active /\ request[r] = "open"
            /\ Cardinality(Taken(r)) < MaxSharers
         THEN Next_(w, "insert", task[w]) ELSE Next_(w, "next", task[w])

(* mutant: insert on conflict do update, or no unique index *)
ClaimAnyway(k) == TRUE

(* unique (request_id, sharer_id, network) *)
Unclaimed(k) == claims[k] = "none"

(* its second: insert on conflict do nothing; an answer that is lost leaves *)
(* the row to nobody                                                        *)
ClaimInsert(w) ==
  LET k == task[w].key
      r == k[1]
  IN  /\ rpc[w] = "insert"
      /\ \/ ~Unclaimed(k) /\ Next_(w, "next", task[w])
         \/ /\ Unclaimed(k)
            /\ claims' = [claims EXCEPT ![k] = "claimed"]
            /\ passed' = (passed \cup {o \in Workers : rpc[o] = "insert" /\ task[o].key[1] = r}) \ {w}
            /\ overfull' = IF w \in passed THEN [overfull EXCEPT ![r] = @ + 1] ELSE overfull
            /\ \/ Goes(w, "share", task[w]) /\ UNCHANGED faults
               \/ Goes(w, "next", task[w]) /\ Fault
            /\ UNCHANGED <<active, request, paid, joined, today, shares, strained>>

(* network.repost, or network.post with the link *)
Share(w) ==
  LET k == task[w].key
  IN  /\ rpc[w] = "share"
      /\ \E res \in Outcomes :
           /\ Faulty(res)
           /\ Goes(w, "report", [task[w] EXCEPT !.res = res])
           /\ shares' = IF Landed(res) /\ shares[k] < 2
                        THEN [shares EXCEPT ![k] = @ + 1] ELSE shares
           /\ strained' = IF res = "lost" THEN strained \cup {UserOf[w]} ELSE strained
      /\ UNCHANGED <<active, request, claims, paid, joined, today, passed, overfull>>

(* report; one that does not get there is let go *)
Report(w) ==
  LET k == task[w].key
  IN  /\ rpc[w] = "report"
      /\ \/ /\ claims' = IF claims[k] = "claimed"
                         THEN [claims EXCEPT ![k] = IF task[w].res = "ok" THEN "done" ELSE "failed"]
                         ELSE claims
            /\ UNCHANGED faults
         \/ UNCHANGED claims /\ Fault
      /\ Goes(w, "record", task[w])
      /\ UNCHANGED <<active, request, paid, joined, today, shares, passed, overfull, strained>>

(* recordDone; a failure costs nothing of the budget *)
RecordDone(w) ==
  LET t == task[w]
      u == UserOf[w]
  IN  /\ rpc[w] = "record"
      /\ today' = IF t.res = "ok" THEN [today EXCEPT ![u] = @ \cup {t.key}] ELSE today
      /\ Goes(w, "next", [t EXCEPT !.key = <<>>, !.res = "none",
                                   !.budget = IF t.res = "ok" THEN @ - 1 ELSE @])
      /\ UNCHANGED <<active, request, claims, paid, joined, shares, passed, overfull,
                     strained, faults>>

ReshareCrash(w) ==
  /\ rpc[w] # "idle" /\ Fault /\ Goes(w, "idle", NoTask)
  /\ strained' = IF rpc[w] \in {"report", "record"} THEN strained \cup {UserOf[w]} ELSE strained
  /\ passed' = passed \ {w}
  /\ UNCHANGED <<active, request, claims, paid, joined, today, shares, overfull>>

(***************************************************************************)
(* The people                                                              *)
(***************************************************************************)
(* join and leave: the server's profile, then, if it answered, reshare.json *)
Join(u) ==
  /\ active' = active \cup {u}
  /\ \/ joined' = joined \cup {u} /\ UNCHANGED faults
     \/ UNCHANGED joined /\ Fault
  /\ UNCHANGED <<request, claims, paid, today, rpc, task, shares, passed, overfull, strained>>

Leave(u) ==
  /\ active' = active \ {u}
  /\ \/ joined' = joined \ {u} /\ UNCHANGED faults
     \/ UNCHANGED joined /\ Fault
  /\ UNCHANGED <<request, claims, paid, today, rpc, task, shares, passed, overfull, strained>>

(* createRequest; closeRequest, or the seven days are over *)
Ask(r) ==
  /\ \/ request[r] = "none" /\ request' = [request EXCEPT ![r] = "open"]
     \/ request[r] = "open" /\ request' = [request EXCEPT ![r] = "closed"]
  /\ UNCHANGED <<active, claims, paid, joined, today, rpc, task, shares, passed, overfull,
                 strained, faults>>

markPaid(k) ==
  /\ claims[k] = "done" /\ k \notin paid /\ paid' = paid \cup {k}
  /\ UNCHANGED <<active, request, claims, joined, today, rpc, task, shares, passed,
                 overfull, strained, faults>>

(* What was done a day ago no longer counts *)
DayGoes(u) ==
  /\ today[u] # {}
  /\ \E old \in SUBSET today[u] : old # {} /\ today' = [today EXCEPT ![u] = @ \ old]
  /\ UNCHANGED <<active, request, claims, paid, joined, rpc, task, shares, passed,
                 overfull, strained, faults>>

ReshareNext ==
  \/ \E w \in Workers :
       \/ ReshareTurn(w) \/ Matches(w) \/ NextMatch(w) \/ ClaimCount(w) \/ ClaimInsert(w)
       \/ Share(w) \/ Report(w) \/ RecordDone(w) \/ ReshareCrash(w)
  \/ \E u \in Users : Join(u) \/ Leave(u) \/ DayGoes(u)
  \/ \E r \in Requests : Ask(r)
  \/ \E k \in Keys : markPaid(k)

ReshareSpec == faults = 0 /\ ReshareInit /\ [][ReshareNext]_<<reshareVars, faults>>

(***************************************************************************)
(* Properties                                                              *)
(***************************************************************************)
(* The type of every variable; a worker that has a request in hand has it   *)
(* for its own user.                                                        *)
ReshareTypeOK ==
  /\ active \subseteq Users /\ joined \subseteq Users /\ strained \subseteq Users
  /\ request \in [Requests -> {"none", "open", "closed"}]
  /\ claims \in [Keys -> {"none", "claimed", "done", "failed"}] /\ paid \subseteq Keys
  /\ today \in [Users -> SUBSET Keys]
  /\ rpc \in [Workers -> {"idle", "match", "next", "claim", "insert", "share", "report", "record"}]
  /\ task \in [Workers -> [budget : 0..PerDay, todo : SUBSET Keys,
                           key : Keys \cup {<<>>}, res : Outcomes \cup {"none"}]]
  /\ \A w \in Workers :
       rpc[w] \in {"claim", "insert", "share", "report", "record"} =>
         task[w].key \in Keys /\ task[w].key[2] = UserOf[w]
  /\ shares \in [Keys -> 0..2] /\ passed \subseteq Workers
  /\ overfull \in [Requests -> Nat]

(* schema.sql:226, "One sharer, one request, one network": through crashes,  *)
(* lost answers and any number of a person's processes a request is shared   *)
(* once for a sharer and network; a claim that is done was shared, and       *)
(* nothing else is paid for.                                                 *)
SharedOnce ==
  \A k \in Keys : /\ shares[k] <= 1
                  /\ claims[k] = "done" \/ k \in paid => shares[k] = 1
                  /\ shares[k] > 0 => claims[k] # "none"

(* docs/reshare.md:86, "how many people may take one request", and :70, "the  *)
(* most reshares this install does for others in a rolling day".  A request   *)
(* is taken more often than it asks for only by claims that were counted      *)
(* before another was inserted, and inserted after; an install shares no more *)
(* a day than it was set to, when it takes one turn at a time and no share    *)
(* goes unnoted.                                                              *)
LimitsHeld ==
  /\ \A r \in Requests :
       Cardinality({k \in Keys : k[1] = r /\ claims[k] \in {"claimed", "done"}})
         <= MaxSharers + overfull[r]
  /\ \A u \in Users \ strained : Cardinality(today[u]) <= PerDay
=============================================================================
