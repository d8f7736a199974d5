------------------------------- MODULE Engage -------------------------------
(***************************************************************************)
(* Follow-ups to the people who reply, repost or follow (core/engage.ts,   *)
(* store/engage.ts): a scan reads the notifications and opens follow-ups,  *)
(* a send replies to those that are due.  Either reads engage.json whole,  *)
(* awaits a network, and writes it whole at its end; `myna engage skip`    *)
(* and `edit` do so at once.                                               *)
(*                                                                         *)
(* One account is modelled; each has its own gap and cap.                  *)
(***************************************************************************)
EXTENDS Jobs

CONSTANTS
  Notes,       \* the notifications
  PersonOf,    \* who each is from
  EngageCap,   \* settings.engage.maxPerDay
  HasGap       \* whether settings.engage.gapMinutes is more than zero

ASSUME EngageAssumption ==
  /\ IsFiniteSet(Notes) /\ DOMAIN PersonOf = Notes
  /\ EngageCap \in Nat \ {0} /\ HasGap \in BOOLEAN

VARIABLES
  arrived,   \* the notifications there are
  account,   \* whether the account is there
  engage,    \* engage.json: the notes seen, the item each opened
  ready,     \* notes whose item's dueAt has passed
  cold,      \* notes whose item was created longer ago than the cooldown
  age,       \* how long ago the item of each note was sent
  epc, hand, \* where each worker is, and with what
  replies,   \* history: replies the network took to each note
  refused,   \* history: notes somebody skipped before they were sent
  torn       \* history: two had the file at once, or one died with a reply

engageVars == <<arrived, account, engage, ready, cold, age, epc, hand,
                replies, refused, torn>>

NoItem == [status |-> "none", reply |-> FALSE, follow |-> FALSE]
NoHand == [seen |-> {}, item |-> <<>>, home |-> TRUE, todo |-> {}, note |-> "none",
           failed |-> FALSE, done |-> FALSE, replied |-> FALSE]

EngageInit ==
  /\ arrived = {} /\ account = TRUE
  /\ engage = [seen |-> {}, item |-> [n \in Notes |-> NoItem]]
  /\ ready = {} /\ cold = {} /\ age = [n \in Notes |-> "never"]
  /\ epc = [w \in Workers |-> "idle"] /\ hand = [w \in Workers |-> NoHand]
  /\ replies = [n \in Notes |-> 0] /\ refused = {} /\ torn = FALSE

To(w, where, h) == epc' = [epc EXCEPT ![w] = where] /\ hand' = [hand EXCEPT ![w] = h]
Busy(S) == \E w \in S : epc[w] # "idle"

(* readEngage *)
Opened(w, where, h) ==
  /\ epc[w] = "idle"
  /\ To(w, where, [h EXCEPT !.seen = engage.seen, !.item = engage.item])
  /\ torn' = (torn \/ Busy(Workers \ {w}))

(* writeEngage *)
WriteEngage(w, h) ==
  engage' = [seen |-> h.seen, item |-> h.item] /\ To(w, "idle", NoHand)

(***************************************************************************)
(* scanEngagement                                                          *)
(***************************************************************************)
ScanTurn(w) ==
  /\ Opened(w, "scan", NoHand)
  /\ UNCHANGED <<arrived, account, engage, ready, cold, age, replies, refused, faults>>

(* The people who have a follow-up inside the cooldown *)
Recent(item) ==
  {PersonOf[n] : n \in {m \in Notes : item[m].status \in {"pending", "sent"} /\ m \notin cold}}

(* Every note the feed shows is seen; some open an item, the first of a     *)
(* person who has none; the feed may fail.  An item asks for a reply, a     *)
(* follow or both, and the first may be due at once.                        *)
ScanWrite(w) ==
  /\ epc[w] = "scan"
  /\ LET h == hand[w]
     IN  \E fresh \in SUBSET (arrived \ h.seen) : \E new \in SUBSET fresh :
           /\ \A n \in new : PersonOf[n] \notin Recent(h.item)
           /\ \A m, n \in new : PersonOf[m] = PersonOf[n] => m = n
           /\ \E asks \in [new -> (SUBSET {"reply", "follow"}) \ {{}}], now \in SUBSET new :
                /\ Cardinality(now) <= 1
                /\ WriteEngage(w, [h EXCEPT !.seen = @ \cup fresh,
                     !.item = [n \in Notes |->
                        IF n \in new THEN [status |-> "pending", reply |-> "reply" \in asks[n],
                                           follow |-> "follow" \in asks[n]]
                        ELSE @[n]]])
                /\ ready' = (ready \ new) \cup now
                /\ cold' = cold \ new
  /\ UNCHANGED <<arrived, account, age, replies, refused, torn, faults>>

(***************************************************************************)
(* sendFollowUps                                                           *)
(***************************************************************************)
(* mutant: a reply that failed is tried again *)
DueAgain(item) == {n \in Notes : item[n].status \in {"pending", "failed"} /\ n \in ready}

Due(item) == {n \in Notes : item[n].status = "pending" /\ n \in ready}

SendTurn(w) ==
  /\ Opened(w, "walk", [NoHand EXCEPT !.todo = Due(engage.item), !.home = account])
  /\ UNCHANGED <<arrived, account, engage, ready, cold, age, replies, refused, faults>>

Sent(item) == {n \in Notes : item[n].status = "sent"}
sentToday(item) == {n \in Sent(item) : age[n] \in {"now", "today"}}

(* The turn goes on with the item, or leaves it for a later one: the day is *)
(* full, or this account sent one a moment ago, this turn's failures too     *)
Held(h) ==
  \/ Cardinality(sentToday(h.item)) >= EngageCap
  \/ HasGap /\ (h.done \/ \E n \in Sent(h.item) : age[n] = "now")

(* The turn ends with the last item, or at its --limit *)
WalkItems(w) ==
  /\ epc[w] = "walk"
  /\ LET h == hand[w]
     IN  \/ (h.todo = {} \/ h.done) /\ WriteEngage(w, h)
         \/ \E n \in h.todo :
              LET rest == [h EXCEPT !.todo = @ \ {n}]
              IN  /\ UNCHANGED engage
                  /\ \/ ~h.home /\ To(w, "walk", [rest EXCEPT !.item[n].status = "skipped"])
                     \/ h.home /\ Held(h) /\ To(w, "walk", rest)
                     \/ h.home /\ ~Held(h) /\ To(w, "follow", [rest EXCEPT !.note = n])
  /\ UNCHANGED <<arrived, account, ready, cold, age, replies, refused, torn, faults>>

(* ok: the follow went through or there was one before; a network that has   *)
(* no follow does nothing, and that is no failure                            *)
Follow(w) ==
  /\ epc[w] = "follow"
  /\ LET h == hand[w]
     IN  \E ok, failed \in BOOLEAN :
           /\ ~(ok /\ failed) /\ (ok \/ failed => h.item[h.note].follow)
           /\ To(w, "reply", [h EXCEPT !.replied = ok, !.failed = failed])
  /\ UNCHANGED <<arrived, account, engage, ready, cold, age, replies, refused, torn, faults>>

(* network.post, if there is a text and a post to put it under, and what    *)
(* the item becomes: anything that went through makes it sent.  A process   *)
(* that dies from here to its write tears the file                          *)
Reply(w) ==
  /\ epc[w] = "reply"
  /\ LET h == hand[w]
         n == h.note
     IN  \E res \in (IF h.item[n].reply THEN Outcomes ELSE {}) \cup {"none"} :
           LET any == h.replied \/ res = "ok"
               errors == h.failed \/ res \in {"lost", "refused"}
           IN  /\ Faulty(res)
               /\ replies' = IF Landed(res) /\ replies[n] < 2
                             THEN [replies EXCEPT ![n] = @ + 1] ELSE replies
               /\ age' = [age EXCEPT ![n] = "now"]
               /\ To(w, "walk", [h EXCEPT !.note = "none", !.done = TRUE,
                    !.replied = FALSE, !.failed = FALSE,
                    !.item[n].status = IF errors /\ ~any THEN "failed" ELSE "sent"])
  /\ UNCHANGED <<arrived, account, engage, ready, cold, refused, torn>>

EngageCrash(w) ==
  /\ epc[w] # "idle" /\ Fault /\ To(w, "idle", NoHand)
  /\ torn' = (torn \/ hand[w].done)
  /\ UNCHANGED <<arrived, account, engage, ready, cold, age, replies, refused>>

(***************************************************************************)
(* Around it                                                               *)
(***************************************************************************)
(* updateFollowUp: skip, or edit, which gives a reply, whatever has become  *)
(* of the item.  One that was sent and is skipped counts no more.           *)
Skip(n) ==
  LET status == engage.item[n].status
  IN  /\ status \notin {"none", "skipped"}
      /\ engage' = [engage EXCEPT !.item[n].status = "skipped"]
      /\ refused' = IF status = "pending" THEN refused \cup {n} ELSE refused
      /\ torn' = (torn \/ Busy(Workers))
      /\ UNCHANGED <<arrived, account, ready, cold, age, epc, hand, replies, faults>>

Edit(n) ==
  /\ engage.item[n].status # "none" /\ ~engage.item[n].reply
  /\ engage' = [engage EXCEPT !.item[n].reply = TRUE]
  /\ torn' = (torn \/ Busy(Workers))
  /\ UNCHANGED <<arrived, account, ready, cold, age, epc, hand, replies, refused, faults>>

Arrive(n) ==
  /\ n \notin arrived /\ arrived' = arrived \cup {n}
  /\ UNCHANGED <<account, engage, ready, cold, age, epc, hand, replies, refused, torn, faults>>

(* The account is archived or removed, or comes back *)
Account ==
  /\ account' = ~account
  /\ UNCHANGED <<arrived, engage, ready, cold, age, epc, hand, replies, refused, torn, faults>>

(* Time passes: an item comes due; a gap, a day or the cooldown is over *)
ItemDue(n) ==
  /\ engage.item[n].status = "pending" /\ n \notin ready /\ ready' = ready \cup {n}
  /\ UNCHANGED <<arrived, account, engage, cold, age, epc, hand, replies, refused, torn, faults>>

Later ==
  /\ \E day \in BOOLEAN :
       age' = [n \in Notes |-> IF age[n] = "now" /\ ~day THEN "today"
                               ELSE IF age[n] = "never" THEN "never"
                               ELSE IF day THEN "old" ELSE age[n]]
  /\ age' # age
  /\ UNCHANGED <<arrived, account, engage, ready, cold, epc, hand, replies, refused, torn, faults>>

CoolsDown(n) ==
  /\ engage.item[n].status # "none" /\ n \notin cold /\ age[n] \in {"never", "old"}
  /\ cold' = cold \cup {n}
  /\ UNCHANGED <<arrived, account, engage, ready, age, epc, hand, replies, refused, torn, faults>>

EngageNext ==
  \/ \E w \in Workers : \/ ScanTurn(w) \/ ScanWrite(w) \/ SendTurn(w) \/ WalkItems(w)
                        \/ Follow(w) \/ Reply(w) \/ EngageCrash(w)
  \/ \E n \in Notes : Skip(n) \/ Edit(n) \/ Arrive(n) \/ ItemDue(n) \/ CoolsDown(n)
  \/ Account \/ Later

EngageSpec == faults = 0 /\ EngageInit /\ [][EngageNext]_<<engageVars, faults>>

(***************************************************************************)
(* Properties                                                              *)
(***************************************************************************)
Items == [Notes -> [status : {"none", "pending", "sent", "failed", "skipped"},
                    reply : BOOLEAN, follow : BOOLEAN]]

(* The type of every variable; an item that is open asks for something, and *)
(* was seen.                                                                *)
EngageTypeOK ==
  /\ arrived \subseteq Notes /\ account \in BOOLEAN
  /\ engage.seen \subseteq Notes /\ engage.item \in Items
  /\ \A n \in Notes : LET i == engage.item[n] IN i.status # "none" =>
       n \in engage.seen /\ (i.reply \/ i.follow)
  /\ ready \subseteq Notes /\ cold \subseteq Notes /\ refused \subseteq Notes
  /\ age \in [Notes -> {"never", "now", "today", "old"}]
  /\ epc \in [Workers -> {"idle", "scan", "walk", "follow", "reply"}]
  /\ \A w \in Workers : /\ hand[w].seen \subseteq Notes /\ hand[w].todo \subseteq Notes
                        /\ hand[w].item \in {<<>>} \cup Items
                        /\ hand[w].note \in Notes \cup {"none"}
  /\ replies \in [Notes -> 0..2] /\ torn \in BOOLEAN

(* core/engage.ts:300: "never inside the gap of the last one sent, never past *)
(* the daily cap ... not retried, because the second attempt at a reply is    *)
(* how someone gets two".  While the file is read and written by one at a     *)
(* time and nobody dies with a reply, no note is replied to twice, whatever   *)
(* answers are lost; one who was skipped first is not answered; and but for   *)
(* what a person skipped after it was sent nobody is answered twice inside    *)
(* the cooldown and the day's cap holds.                                      *)
AnsweredOnce ==
  torn \/ /\ \A n \in Notes : replies[n] <= 1
          /\ \A n \in refused : replies[n] = 0
          /\ \A m, n \in Notes \ cold :
               {m, n} \subseteq Sent(engage.item) /\ PersonOf[m] = PersonOf[n] => m = n
          /\ Cardinality(sentToday(engage.item)) <= EngageCap
=============================================================================
