------------------------------- MODULE Upvotes -------------------------------
(***************************************************************************)
(* Votes, reposts and links under other people's posts (core/upvote.ts,    *)
(* store/upvote.ts): a scan searches and queues, a run acts on what is     *)
(* due.  Both read upvote.json whole, await networks, and write it whole   *)
(* at the end, in the daemon, a command, an MCP tool or the API.           *)
(*                                                                         *)
(* One account is modelled, on a network that can vote, share and reply.   *)
(***************************************************************************)
EXTENDS Jobs

CONSTANTS
  Found,       \* the posts a search may find
  AuthorOf,    \* who wrote each
  UpvoteCap,   \* settings.upvote.maxPerDay
  LinkCap,     \* settings.upvote.linkPerDay
  Spaced,      \* whether settings.upvote.gapMinutes is more than zero
  Manual       \* whether the network is manual only

ASSUME UpvotesAssumption ==
  /\ IsFiniteSet(Found) /\ DOMAIN AuthorOf = Found
  /\ UpvoteCap \in Nat \ {0} /\ LinkCap \in Nat
  /\ Spaced \in BOOLEAN /\ Manual \in BOOLEAN

VARIABLES
  upvotes,     \* upvote.json: the posts seen, the authors acted on, the items
  present,     \* whether the account is there
  dueItems,    \* posts whose item's dueAt has passed
  warm,        \* authors last acted on inside the cooldown
  since,       \* how long ago each post was acted on
  upc, held,   \* where each worker is, and what it has of the file
  links,       \* history: replies the network took under each post
  dropped,     \* history: posts somebody skipped before they were acted on
  clashed      \* history: two had the file at once, or one died with an act

upvoteVars == <<upvotes, present, dueItems, warm, since, upc, held, links, dropped, clashed>>

Kinds == {"vote", "repost", "reply"}
Unqueued == [status |-> "none", action |-> "vote"]
NotHeld == [file |-> <<>>, todo |-> {}, home |-> TRUE, post |-> "none",
            any |-> FALSE, acted |-> FALSE]

UpvoteInit ==
  /\ upvotes = [seen |-> {}, authors |-> {}, item |-> [p \in Found |-> Unqueued]]
  /\ present = TRUE /\ dueItems = {} /\ warm = {}
  /\ since = [p \in Found |-> "never"]
  /\ upc = [w \in Workers |-> "idle"] /\ held = [w \in Workers |-> NotHeld]
  /\ links = [p \in Found |-> 0] /\ dropped = {} /\ clashed = FALSE

Holds(w, where, h) == upc' = [upc EXCEPT ![w] = where] /\ held' = [held EXCEPT ![w] = h]
AtIt(S) == \E w \in S : upc[w] # "idle"

readUpvotes(w, where, h) ==
  /\ upc[w] = "idle" /\ Holds(w, where, [h EXCEPT !.file = upvotes])
  /\ clashed' = (clashed \/ AtIt(Workers \ {w}))

writeUpvotes(w, file) == upvotes' = file /\ Holds(w, "idle", NotHeld)

recentlyActed(file, p) == AuthorOf[p] \in file.authors \cap warm

(***************************************************************************)
(* scanUpvotes                                                             *)
(***************************************************************************)
Search(w) ==
  /\ readUpvotes(w, "search", NotHeld)
  /\ UNCHANGED <<upvotes, present, dueItems, warm, since, links, dropped, faults>>

(* Every post found is seen; of the new ones, of authors not acted on of    *)
(* late, some are queued: one of each author, a day's worth at most, and    *)
(* links no more than linkPerDay.  The first may be due at once.            *)
Queue(w) ==
  /\ upc[w] = "search"
  /\ LET file == held[w].file
     IN  \E found \in SUBSET (Found \ file.seen) : \E new \in SUBSET found :
           /\ \A p \in new : ~recentlyActed(file, p)
           /\ \A p, q \in new : AuthorOf[p] = AuthorOf[q] => p = q
           /\ Cardinality(new) <= UpvoteCap
           /\ \E does \in [new -> Kinds], now \in SUBSET new :
                /\ Cardinality({p \in new : does[p] = "reply"}) <= LinkCap
                /\ Cardinality(now) <= 1
                /\ writeUpvotes(w, [file EXCEPT !.seen = @ \cup found,
                     !.item = [p \in Found |->
                        IF p \in new THEN [status |-> "pending", action |-> does[p]] ELSE @[p]]])
                /\ dueItems' = (dueItems \ new) \cup now
  /\ UNCHANGED <<present, warm, since, links, dropped, clashed, faults>>

(***************************************************************************)
(* runUpvotes                                                              *)
(***************************************************************************)
(* A person may ask for a network that is manual only *)
UpvoteTurn(w, asked) ==
  /\ readUpvotes(w, "walk", [NotHeld EXCEPT !.home = present,
       !.todo = IF Manual /\ ~asked /\ present THEN {}
                ELSE {p \in Found : upvotes.item[p].status = "pending" /\ p \in dueItems}])
  /\ UNCHANGED <<upvotes, present, dueItems, warm, since, links, dropped, faults>>

actedToday(file, kinds) ==
  {p \in Found : /\ file.item[p].status = "done" /\ file.item[p].action \in kinds
                 /\ since[p] \in {"now", "today"}}

Full(h, p) ==
  \/ Cardinality(actedToday(h.file, Kinds)) >= UpvoteCap
  \/ /\ h.file.item[p].action = "reply"
     /\ Cardinality(actedToday(h.file, {"reply"})) >= LinkCap
  \/ Spaced /\ (h.acted \/ \E q \in actedToday(h.file, Kinds) : since[q] = "now")

(* mutant: only the scan asks whether the author was acted on *)
SkipsGone(h, p) == ~h.home

(* The author may have been acted on since the scan *)
Skips(h, p) == ~h.home \/ recentlyActed(h.file, p)

WalkQueue(w) ==
  /\ upc[w] = "walk"
  /\ LET h == held[w]
     IN  \/ (h.todo = {} \/ h.acted) /\ writeUpvotes(w, h.file)
         \/ \E p \in h.todo :
              LET rest == [h EXCEPT !.todo = @ \ {p}]
              IN  /\ UNCHANGED upvotes
                  /\ \/ h.home /\ Full(h, p) /\ Holds(w, "walk", rest)
                     \/ /\ ~(h.home /\ Full(h, p)) /\ Skips(h, p)
                        /\ Holds(w, "walk", [rest EXCEPT !.file.item[p].status = "skipped"])
                     \/ /\ ~Full(h, p) /\ ~Skips(h, p)
                        /\ Holds(w, "vote", [rest EXCEPT !.post = p])
  /\ UNCHANGED <<present, dueItems, warm, since, links, dropped, clashed, faults>>

(* network.upvote *)
Vote(w) ==
  /\ upc[w] = "vote"
  /\ \E ok \in BOOLEAN : Holds(w, "more", [held[w] EXCEPT !.any = ok])
  /\ UNCHANGED <<upvotes, present, dueItems, warm, since, links, dropped, clashed, faults>>

(* The repost or the reply, and what the item becomes: a failure that has   *)
(* nothing to its credit is not tried again, nor does it note the author    *)
More(w) ==
  /\ upc[w] = "more"
  /\ LET h == held[w]
         p == h.post
         kind == h.file.item[p].action
     IN  \E res \in IF kind = "vote" THEN {"ok"} ELSE Outcomes :
           LET done == h.any \/ (kind # "vote" /\ res = "ok")
           IN  /\ Faulty(res)
               /\ links' = IF kind = "reply" /\ Landed(res) /\ links[p] < 2
                           THEN [links EXCEPT ![p] = @ + 1] ELSE links
               /\ since' = [since EXCEPT ![p] = "now"]
               /\ warm' = IF done THEN warm \cup {AuthorOf[p]} ELSE warm
               /\ Holds(w, "walk", [h EXCEPT !.post = "none", !.any = FALSE, !.acted = TRUE,
                    !.file.item[p].status = IF done THEN "done" ELSE "failed",
                    !.file.authors = IF done THEN @ \cup {AuthorOf[p]} ELSE @])
  /\ UNCHANGED <<upvotes, present, dueItems, dropped, clashed>>

UpvoteCrash(w) ==
  /\ upc[w] # "idle" /\ Fault /\ Holds(w, "idle", NotHeld)
  /\ clashed' = (clashed \/ held[w].acted)
  /\ UNCHANGED <<upvotes, present, dueItems, warm, since, links, dropped>>

(***************************************************************************)
(* Around it                                                               *)
(***************************************************************************)
(* updateUpvote: skip, or edit, which makes any item a reply, whatever has  *)
(* become of it                                                             *)
SkipItem(p) ==
  LET status == upvotes.item[p].status
  IN  /\ status \notin {"none", "skipped"}
      /\ upvotes' = [upvotes EXCEPT !.item[p].status = "skipped"]
      /\ dropped' = IF status = "pending" THEN dropped \cup {p} ELSE dropped
      /\ clashed' = (clashed \/ AtIt(Workers))
      /\ UNCHANGED <<present, dueItems, warm, since, upc, held, links, faults>>

EditItem(p) ==
  /\ upvotes.item[p].status # "none" /\ upvotes.item[p].action # "reply"
  /\ upvotes' = [upvotes EXCEPT !.item[p].action = "reply"]
  /\ clashed' = (clashed \/ AtIt(Workers))
  /\ UNCHANGED <<present, dueItems, warm, since, upc, held, links, dropped, faults>>

Presence ==
  /\ present' = ~present
  /\ UNCHANGED <<upvotes, dueItems, warm, since, upc, held, links, dropped, clashed, faults>>

UpvoteDue(p) ==
  /\ upvotes.item[p].status = "pending" /\ p \notin dueItems
  /\ dueItems' = dueItems \cup {p}
  /\ UNCHANGED <<upvotes, present, warm, since, upc, held, links, dropped, clashed, faults>>

(* A gap or a day goes by.  The cooldown (settings.upvote.cooldownDays, 3)  *)
(* is taken to be a day at least.                                           *)
TimeGoes ==
  /\ \E day \in BOOLEAN :
       since' = [p \in Found |-> IF since[p] = "now" /\ ~day THEN "today"
                                 ELSE IF since[p] = "never" THEN "never"
                                 ELSE IF day THEN "old" ELSE since[p]]
  /\ since' # since
  /\ UNCHANGED <<upvotes, present, dueItems, warm, upc, held, links, dropped, clashed, faults>>

CooldownEnds(a) ==
  /\ a \in warm /\ \A p \in Found : AuthorOf[p] = a => since[p] \in {"never", "old"}
  /\ warm' = warm \ {a}
  /\ UNCHANGED <<upvotes, present, dueItems, since, upc, held, links, dropped, clashed, faults>>

UpvoteNext ==
  \/ \E w \in Workers : \/ Search(w) \/ Queue(w) \/ WalkQueue(w) \/ Vote(w) \/ More(w)
                        \/ UpvoteCrash(w) \/ \E asked \in BOOLEAN : UpvoteTurn(w, asked)
  \/ \E p \in Found : SkipItem(p) \/ EditItem(p) \/ UpvoteDue(p) \/ CooldownEnds(AuthorOf[p])
  \/ Presence \/ TimeGoes

UpvoteSpec == faults = 0 /\ UpvoteInit /\ [][UpvoteNext]_<<upvoteVars, faults>>

(***************************************************************************)
(* Properties                                                              *)
(***************************************************************************)
Queues == [Found -> [status : {"none", "pending", "done", "failed", "skipped"}, action : Kinds]]
UpvoteFiles == [seen : SUBSET Found, authors : SUBSET {AuthorOf[p] : p \in Found}, item : Queues]

(* The type of every variable; an item that is queued was seen. *)
UpvoteTypeOK ==
  /\ upvotes \in UpvoteFiles /\ present \in BOOLEAN
  /\ \A p \in Found : upvotes.item[p].status # "none" => p \in upvotes.seen
  /\ dueItems \subseteq Found /\ dropped \subseteq Found
  /\ warm \subseteq {AuthorOf[p] : p \in Found}
  /\ since \in [Found -> {"never", "now", "today", "old"}]
  /\ upc \in [Workers -> {"idle", "search", "walk", "vote", "more"}]
  /\ \A w \in Workers : /\ held[w].file \in {<<>>} \cup UpvoteFiles
                        /\ held[w].todo \subseteq Found /\ held[w].post \in Found \cup {"none"}
  /\ links \in [Found -> 0..2] /\ clashed \in BOOLEAN

(* core/upvote.ts:425: "never past the daily cap, never past the separate    *)
(* daily cap on replies carrying a link ... not retried", and                *)
(* store/upvote.ts:128, the cooldown: "a scan asks before queueing and a send *)
(* asks again".  While one at a time has the file and nobody dies with an    *)
(* act, a post gets one link at most, none when a person skipped it first,   *)
(* the day's links and acts stay under their caps, and an author is acted on *)
(* once in a cooldown, whatever was queued and edited meanwhile and but for  *)
(* what a person skipped after it was done.                                  *)
VotedOnce ==
  clashed \/ /\ \A p \in Found : links[p] <= 1
             /\ \A p \in dropped : links[p] = 0
             /\ Cardinality({p \in actedToday(upvotes, Kinds) : links[p] > 0}) <= LinkCap
             /\ Cardinality(actedToday(upvotes, Kinds)) <= UpvoteCap
             /\ \A p, q \in actedToday(upvotes, Kinds) : AuthorOf[p] = AuthorOf[q] => p = q
=============================================================================
