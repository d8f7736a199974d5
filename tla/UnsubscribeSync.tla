--------------------------- MODULE UnsubscribeSync ---------------------------
(***************************************************************************)
(* Who wants no mail (core/newsletter.ts, store/contacts.ts,               *)
(* apps/api/newsletter.ts): a reader presses Unsubscribe or Re-subscribe   *)
(* on the hosted page, or Unsubscribe on crawlproof's; each worker pulls   *)
(* what changed at either since its cursor and opts people out or in; and  *)
(* a person does so by hand, removes contacts and adds them again.         *)
(*                                                                         *)
(* `asking` and `fetching` await an answer; what follows is not            *)
(* interrupted in its process, but writes two files, one entry at a time,  *)
(* so the process may die in it, and another process run at the same time. *)
(* Opting out somebody who is no contact, two writes, is one step here.    *)
(***************************************************************************)
EXTENDS Jobs, Sequences

CONSTANTS
  People,      \* everybody who was sent an issue
  PageSize,    \* the rows the hosted page's server answers at most
  MaxPresses   \* bound: presses in one behaviour, which number the time

ASSUME SyncAssumption == PageSize \in Nat \ {0} /\ MaxPresses \in Nat

VARIABLES
  clock,       \* how many presses were begun
  under,       \* presses whose row is being written, each with its time
  rows,        \* newsletter_unsubscribes: a token's latest state, and when
  events,      \* crawlproof's unsubscribes
  contacts,    \* contacts.json: the contacts there are, and the opted out
  optChanges,  \* newsletters.json: the newest change applied to each
  cursor,       \* newsletters.json: the cursor of either source
  syncpc, pull,   \* where each worker is, and with what
  newest,      \* history: each person's newest press
  outByHand,      \* history: those opted out by hand
  forgotten,   \* history: those whose contact was removed
  missed,      \* history: those whose press came in behind a cursor
  crossed      \* history: two processes applied at once, or a hand in between

syncVars == <<clock, under, rows, events, contacts, optChanges, cursor, syncpc, pull,
              newest, outByHand, forgotten, missed, crossed>>

Change(p, state, at, source) == [who |-> p, state |-> state, at |-> at, source |-> source]
NoChange(p) == Change(p, "none", 0, "none")
NoPull == [entries |-> <<>>, contacts |-> [known |-> {}, out |-> {}], newest |-> 0]

SyncInit ==
  /\ clock = 0 /\ under = {} /\ rows = [p \in People |-> NoChange(p)] /\ events = {}
  /\ contacts = [known |-> People, out |-> {}]
  /\ optChanges = [p \in People |-> NoChange(p)] /\ cursor = [cloud |-> 0, crawlproof |-> 0]
  /\ syncpc = [w \in Workers |-> "idle"] /\ pull = [w \in Workers |-> NoPull]
  /\ newest = [p \in People |-> NoChange(p)]
  /\ outByHand = {} /\ forgotten = {} /\ missed = {} /\ crossed = FALSE

Moves(w, where, p) == syncpc' = [syncpc EXCEPT ![w] = where] /\ pull' = [pull EXCEPT ![w] = p]
Applying == {w \in Workers : syncpc[w] \in {"cloud", "optCloud", "crawlproof", "optCrawlproof"}}

(***************************************************************************)
(* The readers                                                             *)
(***************************************************************************)
(* recordState: `at` is when its statement began, and rows may be there in   *)
(* another order.  A reader presses one button at a time, and pressing twice *)
(* keeps the first time.                                                    *)
Press(p, state) ==
  /\ clock < MaxPresses /\ (\A c \in under : c.who # p) /\ rows[p].state # state
  /\ state = "resubscribed" => rows[p].state = "unsubscribed"
  /\ clock' = clock + 1 /\ under' = under \cup {Change(p, state, clock', "cloud")}
  /\ UNCHANGED <<rows, events, contacts, optChanges, cursor, syncpc, pull, newest,
                 outByHand, forgotten, missed, crossed, faults>>

Newer(c, d) == IF c.at > d.at THEN c ELSE d

Behind(c) ==
  \/ c.at <= cursor.cloud
  \/ \E w \in Workers : syncpc[w] \in {"asking", "cloud", "optCloud"} /\ c.at <= pull[w].newest

Pressed(c) ==
  /\ c \in under /\ under' = under \ {c}
  /\ rows' = [rows EXCEPT ![c.who] = c]
  /\ newest' = [newest EXCEPT ![c.who] = Newer(c, @)]
  /\ missed' = IF Behind(c) THEN missed \cup {c.who} ELSE missed
  /\ UNCHANGED <<clock, events, contacts, optChanges, cursor, syncpc, pull, outByHand,
                 forgotten, crossed, faults>>

(* The signed link of an issue with tracking *)
PressTracked(p) ==
  /\ clock < MaxPresses /\ clock' = clock + 1
  /\ LET c == Change(p, "unsubscribed", clock', "crawlproof")
     IN  events' = events \cup {c} /\ newest' = [newest EXCEPT ![p] = c]
  /\ UNCHANGED <<under, rows, contacts, optChanges, cursor, syncpc, pull, outByHand,
                 forgotten, missed, crossed, faults>>

(***************************************************************************)
(* syncAllUnsubscribes: syncUnsubscribes                                   *)
(***************************************************************************)
(* order by updated_at: each comes after those of before, no two are of one *)
(* time                                                                      *)
UpTo(c, S) == {d \in S : d.at <= c.at}
InOrder(S) == [i \in 1..Cardinality(S) |-> CHOOSE c \in S : Cardinality(UpTo(c, S)) = i]
Last_(s) == IF s = <<>> THEN 0 ELSE s[Len(s)].at
Larger(a, b) == IF a > b THEN a ELSE b

Page(s) == SubSeq(s, 1, IF Len(s) < PageSize THEN Len(s) ELSE PageSize)

(* listUnsubscribes is answered; or is not, there is no inbox or no session *)
AskCloud(w) ==
  /\ syncpc[w] = "idle"
  /\ LET page == Page(InOrder({rows[p] : p \in {q \in People : rows[q].at > cursor.cloud}}))
     IN  \/ Moves(w, "asking", [NoPull EXCEPT !.entries = page,
                                 !.newest = Larger(cursor.cloud, Last_(page))])
         \/ Moves(w, "fetch", NoPull)
  /\ UNCHANGED <<clock, under, rows, events, contacts, optChanges, cursor, newest,
                 outByHand, forgotten, missed, crossed, faults>>

(* The answer arrives and contacts.json is read, for all of its entries *)
HearCloud(w) ==
  /\ syncpc[w] = "asking"
  /\ Moves(w, "cloud", [pull[w] EXCEPT !.contacts = contacts])
  /\ crossed' = (crossed \/ Applying # {})
  /\ UNCHANGED <<clock, under, rows, events, contacts, optChanges, cursor, newest,
                 outByHand, forgotten, missed, faults>>

Rest(p) == [p EXCEPT !.entries = Tail(@)]

(* Mutants: whatever is pulled is applied; what was claimed is not applied again *)
FreshAnyway(c) == TRUE
FreshOnce(c) == c.at > optChanges[c.who].at

(* claimOptChange, but for its write *)
Fresh(c) == c.at >= optChanges[c.who].at

(* An entry of somebody who is no contact, or of an older event, is passed *)
ClaimCloud(w) ==
  /\ syncpc[w] = "cloud" /\ pull[w].entries # <<>>
  /\ LET c == Head(pull[w].entries)
     IN  IF c.who \in pull[w].contacts.known /\ Fresh(c)
         THEN /\ optChanges' = [optChanges EXCEPT ![c.who] = c]
              /\ Moves(w, "optCloud", pull[w])
         ELSE Moves(w, "cloud", Rest(pull[w])) /\ UNCHANGED optChanges
  /\ UNCHANGED <<clock, under, rows, events, contacts, cursor, newest, outByHand,
                 forgotten, missed, crossed, faults>>

(* optOut or optIn, which write the contacts as they were read if they      *)
(* change anything                                                          *)
OptCloud(w) ==
  /\ syncpc[w] = "optCloud"
  /\ LET c == Head(pull[w].entries)
         out == pull[w].contacts.out
         now == IF c.state = "unsubscribed" THEN out \cup {c.who} ELSE out \ {c.who}
         next == [pull[w].contacts EXCEPT !.out = now]
     IN  /\ contacts' = IF now = out THEN contacts ELSE next
         /\ Moves(w, "cloud", [Rest(pull[w]) EXCEPT !.contacts = next])
  /\ UNCHANGED <<clock, under, rows, events, optChanges, cursor, newest, outByHand,
                 forgotten, missed, crossed, faults>>

Cursor(w, source) == cursor' = [cursor EXCEPT ![source] = pull[w].newest]

AdvanceCloud(w) ==
  /\ syncpc[w] = "cloud" /\ pull[w].entries = <<>>
  /\ Cursor(w, "cloud") /\ Moves(w, "fetch", NoPull)
  /\ UNCHANGED <<clock, under, rows, events, contacts, optChanges, newest, outByHand,
                 forgotten, missed, crossed, faults>>

(***************************************************************************)
(* syncTrackingUnsubscribes, which reads the contacts for every event      *)
(***************************************************************************)
(* Every page is read; or tracking is off, or one could not be read         *)
Fetch(w) ==
  /\ syncpc[w] = "fetch"
  /\ LET all == InOrder({c \in events : c.at > cursor.crawlproof})
     IN  \/ Moves(w, "fetching", [NoPull EXCEPT !.entries = all, !.newest = Last_(all)])
         \/ Moves(w, "idle", NoPull)
  /\ UNCHANGED <<clock, under, rows, events, contacts, optChanges, cursor, newest,
                 outByHand, forgotten, missed, crossed, faults>>

HearTracked(w) ==
  /\ syncpc[w] = "fetching" /\ Moves(w, "crawlproof", [pull[w] EXCEPT !.contacts = contacts])
  /\ crossed' = (crossed \/ Applying # {})
  /\ UNCHANGED <<clock, under, rows, events, contacts, optChanges, cursor, newest,
                 outByHand, forgotten, missed, faults>>

ClaimTracked(w) ==
  /\ syncpc[w] = "crawlproof" /\ pull[w].entries # <<>>
  /\ LET c == Head(pull[w].entries)
     IN  IF Fresh(c)
         THEN /\ optChanges' = [optChanges EXCEPT ![c.who] = c]
              /\ Moves(w, "optCrawlproof", [pull[w] EXCEPT !.contacts = contacts])
         ELSE Moves(w, "crawlproof", Rest(pull[w])) /\ UNCHANGED optChanges
  /\ UNCHANGED <<clock, under, rows, events, contacts, cursor, newest, outByHand,
                 forgotten, missed, crossed, faults>>

(* Somebody who is no contact becomes one, opted out *)
OptTracked(w) ==
  /\ syncpc[w] = "optCrawlproof"
  /\ LET p == Head(pull[w].entries).who
         had == pull[w].contacts
     IN  contacts' = IF p \in had.out THEN contacts
                     ELSE [known |-> had.known \cup {p}, out |-> had.out \cup {p}]
  /\ Moves(w, "crawlproof", Rest(pull[w]))
  /\ UNCHANGED <<clock, under, rows, events, optChanges, cursor, newest, outByHand,
                 forgotten, missed, crossed, faults>>

(* Nothing is written if nothing is new *)
AdvanceTracked(w) ==
  /\ syncpc[w] = "crawlproof" /\ pull[w].entries = <<>>
  /\ IF pull[w].newest = 0 THEN UNCHANGED cursor ELSE Cursor(w, "crawlproof")
  /\ Moves(w, "idle", NoPull)
  /\ UNCHANGED <<clock, under, rows, events, contacts, optChanges, newest, outByHand,
                 forgotten, missed, crossed, faults>>

SyncCrash(w) ==
  /\ syncpc[w] # "idle" /\ Fault /\ Moves(w, "idle", NoPull)
  /\ UNCHANGED <<clock, under, rows, events, contacts, optChanges, cursor, newest,
                 outByHand, forgotten, missed, crossed>>

(***************************************************************************)
(* By hand                                                                 *)
(***************************************************************************)
(* unsubscribe without a list, `myna contacts optout`: no change is claimed *)
OptOutByHand(p) ==
  /\ p \in contacts.known \ contacts.out
  /\ contacts' = [contacts EXCEPT !.out = @ \cup {p}] /\ outByHand' = outByHand \cup {p}
  /\ crossed' = (crossed \/ Applying # {})
  /\ UNCHANGED <<clock, under, rows, events, optChanges, cursor, syncpc, pull, newest,
                 forgotten, missed, faults>>

(* removeContact: the opt-out goes with the contact, the token stays *)
RemoveContact(p) ==
  /\ p \in contacts.known
  /\ contacts' = [known |-> contacts.known \ {p}, out |-> contacts.out \ {p}]
  /\ forgotten' = forgotten \cup {p} /\ crossed' = (crossed \/ Applying # {})
  /\ UNCHANGED <<clock, under, rows, events, optChanges, cursor, syncpc, pull, newest,
                 outByHand, missed, faults>>

(* upsertContact: subscribe, an import.  Nobody is opted in by it. *)
AddContact(p) ==
  /\ p \notin contacts.known /\ contacts' = [contacts EXCEPT !.known = @ \cup {p}]
  /\ crossed' = (crossed \/ Applying # {})
  /\ UNCHANGED <<clock, under, rows, events, optChanges, cursor, syncpc, pull, newest,
                 outByHand, forgotten, missed, faults>>

SyncNext ==
  \/ \E w \in Workers : \/ AskCloud(w) \/ HearCloud(w) \/ ClaimCloud(w) \/ OptCloud(w)
                        \/ AdvanceCloud(w) \/ Fetch(w) \/ HearTracked(w)
                        \/ ClaimTracked(w) \/ OptTracked(w) \/ AdvanceTracked(w)
                        \/ SyncCrash(w)
  \/ \E p \in People : \/ \E s \in {"unsubscribed", "resubscribed"} : Press(p, s)
                       \/ PressTracked(p) \/ OptOutByHand(p) \/ RemoveContact(p) \/ AddContact(p)
  \/ \E c \in under : Pressed(c)

SyncSpec == faults = 0 /\ SyncInit /\ [][SyncNext]_<<syncVars, faults>>

(***************************************************************************)
(* Properties                                                              *)
(***************************************************************************)
Changes == [who : People, state : {"none", "unsubscribed", "resubscribed"},
            at : 0..MaxPresses, source : {"none", "cloud", "crawlproof"}]
ContactFiles == [known : SUBSET People, out : SUBSET People]

(* The type of every variable; only contacts are opted out, and what was    *)
(* claimed of somebody is a press of theirs.                                *)
SyncTypeOK ==
  /\ clock \in 0..MaxPresses /\ under \subseteq Changes /\ events \subseteq Changes
  /\ rows \in [People -> Changes] /\ newest \in [People -> Changes]
  /\ optChanges \in [People -> Changes]
  /\ \A p \in People : optChanges[p].who = p /\ optChanges[p].at <= newest[p].at
  /\ contacts \in ContactFiles /\ contacts.out \subseteq contacts.known
  /\ cursor \in [cloud : 0..MaxPresses, crawlproof : 0..MaxPresses]
  /\ syncpc \in [Workers -> {"idle", "asking", "cloud", "optCloud", "fetch", "fetching",
                          "crawlproof", "optCrawlproof"}]
  /\ \A w \in Workers : /\ pull[w].entries \in Seq(Changes)
                        /\ pull[w].contacts \in ContactFiles
                        /\ pull[w].newest \in 0..MaxPresses
  /\ \A S \in {outByHand, forgotten, missed} : S \subseteq People
  /\ crossed \in BOOLEAN

(* store/newsletters.ts:109: "a myna cloud re-subscribe is never undone by  *)
(* an older crawlproof unsubscribe that arrives later, or the reverse", and *)
(* nothing that was pulled is lost.  Once the cursor of its source is past  *)
(* somebody's newest press and no pull is being applied, they are opted out *)
(* if it was Unsubscribe and else not, unless by hand: in whatever order    *)
(* pulls of several processes are answered, and if one died half way.       *)
(* Excused are presses whose row became visible behind the cursor, people   *)
(* whose contact was removed, and two processes applying at one moment.     *)
NewestPressCounts ==
  crossed \/ Applying # {} \/
    \A p \in contacts.known \ (forgotten \cup missed) :
      LET c == newest[p]
      IN  c.source # "none" /\ c.at <= cursor[c.source] =>
            IF c.state = "unsubscribed" THEN p \in contacts.out
                                        ELSE p \in contacts.out => p \in outByHand
=============================================================================
