-------------------------------- MODULE Asks --------------------------------
(***************************************************************************)
(* People asking for a thing (core/asks.ts, store/asks.ts): a scan files   *)
(* asks under ideas, a reply puts the answer on a card a person pastes     *)
(* (store/handoffs.ts), stats notice what was pasted.  Each reads          *)
(* asks.json whole, awaits feeds, the writer or the cloud, and writes it   *)
(* whole; commands change it at once.                                      *)
(***************************************************************************)
EXTENDS Jobs

CONSTANTS
  Asked,      \* the posts a scan may find to be asks
  AskerOf,    \* who wrote each
  Topics,     \* bound: ideas at one time ("none" is no idea)
  Cards,      \* bound: reply cards
  NoCard,
  BuildAt,    \* settings.asks.buildAt
  AskLimit    \* ASK_LIMIT

ASSUME AsksAssumption ==
  /\ IsFiniteSet(Asked) /\ DOMAIN AskerOf = Asked /\ NoCard \notin Cards
  /\ "none" \notin Topics
  /\ BuildAt \in Nat \ {0} /\ AskLimit \in Nat

VARIABLES
  asks,          \* asks.json: the posts seen, the asks, the ideas
  cards,         \* handoffs.json
  apc, mine,     \* where each worker is, and with what
  pasted,        \* history: asks whose reply was pasted
  said,          \* history: asks whose status or cards a person set by hand
  strayed        \* history: two had the file at once, or one died with a card

asksVars == <<asks, cards, apc, mine, pasted, said, strayed>>

NoTopic == "none"
NoAsk == [status |-> "none", topic |-> NoTopic, card |-> NoCard]
NoIdea == [status |-> "none", asks |-> {}]
NoAsks == [seen |-> {}, ask |-> [a \in Asked |-> NoAsk], idea |-> [i \in Topics |-> NoIdea]]
NotMine == [file |-> NoAsks, ask |-> "none", card |-> NoCard]

AsksInit ==
  /\ asks = NoAsks /\ cards = [c \in Cards |-> [ask |-> "none", state |-> "none"]]
  /\ apc = [w \in Workers |-> "idle"] /\ mine = [w \in Workers |-> NotMine]
  /\ pasted = {} /\ said = {} /\ strayed = FALSE

Holding(w, where, m) == apc' = [apc EXCEPT ![w] = where] /\ mine' = [mine EXCEPT ![w] = m]
AtWork(S) == \E w \in S : apc[w] # "idle"

Present(f) == {a \in Asked : f.ask[a].status # "none"}

(***************************************************************************)
(* The file                                                                *)
(***************************************************************************)
(* readAsks, before an await *)
readAsks(w, where, m) ==
  /\ apc[w] = "idle" /\ Holding(w, where, m)
  /\ strayed' = (strayed \/ AtWork(Workers \ {w}))

(* mutant: the asks that go stay counted *)
WithoutAsks(f, gone) ==
  [f EXCEPT !.ask = [a \in Asked |-> IF a \in gone THEN NoAsk ELSE @[a]]]

Without(f, gone) ==
  LET left(i) == f.idea[i].asks \ gone IN
  [f EXCEPT
    !.ask = [a \in Asked |-> IF a \in gone THEN NoAsk ELSE @[a]],
    !.idea = [i \in Topics |->
                IF left(i) = {} /\ @[i].status = "watching" THEN NoIdea
                ELSE [@[i] EXCEPT !.asks = left(i)]]]

(* writeAsks: past the limit, as many of those nobody acted on go (the      *)
(* oldest, in the code) as there are too many                               *)
writeAsks(f) ==
  LET idle == {a \in Asked : f.ask[a].status \in {"new", "skipped"}}
      over == Cardinality(Present(f)) - AskLimit
  IN  \/ over <= 0 /\ asks' = f
      \/ /\ over > 0
         /\ \E gone \in SUBSET idle :
              /\ Cardinality(gone) = over \/ (gone = idle /\ Cardinality(idle) < over)
              /\ asks' = Without(f, gone)

(* ... and is done with it *)
Written(w, f) == writeAsks(f) /\ Holding(w, "idle", NotMine)

(* flagIdeas: of the ideas watched that enough people ask for, those they   *)
(* asked for inside the window                                              *)
Asking(f, i) == {AskerOf[a] : a \in {b \in f.idea[i].asks : f.ask[b].status # "skipped"}}
Flagged(f) ==
  {[f EXCEPT !.idea = [i \in Topics |-> IF i \in now THEN [@[i] EXCEPT !.status = "build"] ELSE @[i]]] :
     now \in SUBSET {i \in Topics : /\ f.idea[i].status = "watching"
                                    /\ Cardinality(Asking(f, i)) >= BuildAt}}

(***************************************************************************)
(* scanAsks                                                                *)
(***************************************************************************)
AskScan(w) ==
  /\ readAsks(w, "feeds", [NotMine EXCEPT !.file = asks])
  /\ UNCHANGED <<asks, cards, pasted, said, faults>>

(* assignIdea files an ask under an idea there is, whatever its status, or  *)
(* a new one; a complaint gets none                                         *)
Filed(f, topic) ==
  [f EXCEPT
    !.ask = [a \in Asked |-> IF a \in DOMAIN topic
                             THEN [NoAsk EXCEPT !.status = "new", !.topic = topic[a]] ELSE @[a]],
    !.idea = [i \in Topics |->
                LET new == {a \in DOMAIN topic : topic[a] = i} IN
                IF new = {} THEN @[i]
                ELSE [status |-> IF @[i].status = "none" THEN "watching" ELSE @[i].status,
                      asks |-> @[i].asks \cup new]]]

(* What was judged is seen, ask or not; what the judge left is found again  *)
AskScanEnd(w) ==
  /\ apc[w] = "feeds"
  /\ LET f == mine[w].file
     IN  \E judged \in SUBSET (Asked \ (f.seen \cup Present(f))) : \E kept \in SUBSET judged :
         \E topic \in [kept -> Topics \cup {NoTopic}] :
         \E g \in Flagged(Filed([f EXCEPT !.seen = @ \cup judged], topic)) : Written(w, g)
  /\ UNCHANGED <<cards, pasted, said, strayed, faults>>

(***************************************************************************)
(* replyToAsk                                                              *)
(***************************************************************************)
(* mutant: only --force looks at the card there is *)
WaitsForced(a) == FALSE

(* A card that waits is handed back *)
Waits(a) ==
  LET ask == asks.ask[a]
  IN  ask.status = "drafted" /\ ask.card # NoCard /\ cards[ask.card].state = "open"

AskReply(w, a, force) ==
  /\ a \in Present(asks) /\ (force \/ ~Waits(a))
  /\ readAsks(w, "writer", [NotMine EXCEPT !.file = asks, !.ask = a])
  /\ said' = IF force THEN said \cup {a} ELSE said
  /\ UNCHANGED <<asks, cards, pasted, faults>>

(* The writer answers or declines; addHandoff, and the card is published *)
AskCard(w) ==
  /\ apc[w] = "writer"
  /\ \/ Holding(w, "idle", NotMine) /\ UNCHANGED cards
     \/ \E c \in Cards :
          /\ cards[c].state = "none"
          /\ cards' = [cards EXCEPT ![c] = [ask |-> mine[w].ask, state |-> "open"]]
          /\ Holding(w, "cloud", [mine[w] EXCEPT !.card = c])
  /\ UNCHANGED <<asks, pasted, said, strayed, faults>>

(* Published or not *)
AskReplyEnd(w) ==
  /\ apc[w] = "cloud"
  /\ LET m == mine[w]
     IN  Written(w, [m.file EXCEPT !.ask[m.ask].status = "drafted", !.ask[m.ask].card = m.card])
  /\ UNCHANGED <<cards, pasted, said, strayed, faults>>

(***************************************************************************)
(* refreshAskStats, and the lists that begin like it                       *)
(***************************************************************************)
(* mutant: a card that is gone counts as done *)
DoneOrGone(c) == c # NoCard /\ cards[c].state # "open"

Done(c) == c # NoCard /\ cards[c].state = "done"

syncReplies(f) ==
  [f EXCEPT !.ask = [a \in Asked |-> IF @[a].status = "drafted" /\ Done(@[a].card)
                                     THEN [@[a] EXCEPT !.status = "replied"] ELSE @[a]]]

AskStats(w) ==
  /\ readAsks(w, "archive", [NotMine EXCEPT !.file = syncReplies(asks)])
  /\ UNCHANGED <<asks, cards, pasted, said, faults>>

(* Our comment under a thread shows that a forgotten card was pasted *)
AskStatsEnd(w) ==
  /\ apc[w] = "archive"
  /\ LET f == mine[w].file
     IN  \E ours \in SUBSET {a \in pasted : f.ask[a].status = "drafted"} :
         \E g \in Flagged([f EXCEPT !.ask = [a \in Asked |->
                             IF a \in ours THEN [@[a] EXCEPT !.status = "replied"] ELSE @[a]]]) :
           Written(w, g)
  /\ UNCHANGED <<cards, pasted, said, strayed, faults>>

AsksCrash(w) ==
  /\ apc[w] # "idle" /\ Fault /\ Holding(w, "idle", NotMine)
  /\ strayed' = (strayed \/ apc[w] = "cloud")
  /\ UNCHANGED <<asks, cards, pasted, said>>

(***************************************************************************)
(* By hand                                                                 *)
(***************************************************************************)
(* A command that reads and writes the file at once *)
AtOnce(f) ==
  /\ writeAsks(f)
  /\ strayed' = (strayed \/ AtWork(Workers))
  /\ UNCHANGED <<cards, apc, mine, pasted, faults>>

(* myna asks list *)
AskList == syncReplies(asks) # asks /\ AtOnce(syncReplies(asks)) /\ UNCHANGED said

setAskStatus(a, status) ==
  /\ a \in Present(asks) /\ asks.ask[a].status # status
  /\ AtOnce([asks EXCEPT !.ask[a].status = status])
  /\ said' = said \cup {a}

(* taken: building, shipped or ignored *)
setIdea(i, status) ==
  /\ asks.idea[i].status \notin {"none", status}
  /\ AtOnce([asks EXCEPT !.idea[i].status = status])
  /\ UNCHANGED said

(* mutant: the asks that move keep the id of the idea they came from *)
Moved(ask, into, from) == ask

Move(ask, into, from) ==
  [a \in Asked |-> IF ask[a].topic = from THEN [ask[a] EXCEPT !.topic = into] ELSE ask[a]]

mergeIdeas(into, from) ==
  /\ into # from /\ asks.idea[into].status # "none" /\ asks.idea[from].status # "none"
  /\ AtOnce([asks EXCEPT !.ask = Move(@, into, from), !.idea[from] = NoIdea,
                         !.idea[into].asks = @ \cup asks.idea[from].asks])
  /\ UNCHANGED said

(* What was seen may be found again *)
clearAsks == asks # NoAsks /\ AtOnce(NoAsks) /\ said' = Asked

(* The reply is pasted, and its card marked then, later or never *)
Paste(c, mark) ==
  /\ cards[c].state = "open" /\ (mark \/ cards[c].ask \notin pasted)
  /\ pasted' = pasted \cup {cards[c].ask}
  /\ cards' = IF mark THEN [cards EXCEPT ![c].state = "done"] ELSE cards
  /\ UNCHANGED <<asks, apc, mine, said, strayed, faults>>

(* myna handoff undo, and rm *)
Unmark(c) ==
  /\ cards[c].state = "done"
  /\ cards' = [cards EXCEPT ![c].state = "open"] /\ said' = said \cup {cards[c].ask}
  /\ UNCHANGED <<asks, apc, mine, pasted, strayed, faults>>

RemoveCard(c) ==
  /\ cards[c].state \in {"open", "done"}
  /\ cards' = [cards EXCEPT ![c].state = "gone"]
  /\ UNCHANGED <<asks, apc, mine, pasted, said, strayed, faults>>

AsksNext ==
  \/ \E w \in Workers :
       \/ AskScan(w) \/ AskScanEnd(w) \/ AskStats(w) \/ AskStatsEnd(w)
       \/ \E a \in Asked, force \in BOOLEAN : AskReply(w, a, force)
       \/ AskCard(w) \/ AskReplyEnd(w) \/ AsksCrash(w)
  \/ \E a \in Asked, status \in {"new", "skipped", "replied"} : setAskStatus(a, status)
  \/ \E i \in Topics, status \in {"watching", "build", "taken"} : setIdea(i, status)
  \/ \E i, j \in Topics : mergeIdeas(i, j)
  \/ AskList \/ clearAsks
  \/ \E c \in Cards : Unmark(c) \/ RemoveCard(c) \/ \E mark \in BOOLEAN : Paste(c, mark)

AsksSpec == faults = 0 /\ AsksInit /\ [][AsksNext]_<<asksVars, faults>>

(***************************************************************************)
(* Properties                                                              *)
(***************************************************************************)
(* The type of every variable. *)
AsksTypeOK ==
  /\ asks.seen \subseteq Asked
  /\ \A a \in Asked : asks.ask[a] \in [status : {"none", "new", "drafted", "replied", "skipped"},
                        topic : Topics \cup {NoTopic}, card : Cards \cup {NoCard}]
  /\ \A i \in Topics : asks.idea[i] \in [status : {"none", "watching", "build", "taken"},
                                          asks : SUBSET Asked]
  /\ cards \in [Cards -> [ask : Asked \cup {"none"}, state : {"none", "open", "done", "gone"}]]
  /\ apc \in [Workers -> {"idle", "feeds", "writer", "cloud", "archive"}]
  /\ pasted \subseteq Asked /\ said \subseteq Asked /\ strayed \in BOOLEAN

(* An ask is counted under the one idea it names, and an idea is there as   *)
(* long as an ask names it                                                  *)
AddUp ==
  \A a \in Asked, i \in Topics :
    /\ a \in asks.idea[i].asks <=> asks.ask[a].topic = i
    /\ asks.ask[a].topic = i => asks.ask[a].status # "none" /\ asks.idea[i].status # "none"

OpenCards(a) == {c \in Cards : cards[c] = [ask |-> a, state |-> "open"]}

(* docs/asks.md:120: "Mark the card done once it is pasted ... The ask is    *)
(* then replied", and asks.ts:917: one card waits for one ask.  Whatever is  *)
(* scanned, answered, merged, dropped and written back by whom, the ideas'   *)
(* counts and the asks' ideas agree; and while the file is held by one at a  *)
(* time and nobody dies with a card, an ask a person has not set by hand is  *)
(* replied only if its reply was pasted, and before that has one card open.  *)
AsksAddUp ==
  /\ AddUp
  /\ strayed \/ \A a \in Asked \ said :
       /\ asks.ask[a].status = "replied" => a \in pasted
       /\ a \notin pasted => Cardinality(OpenCards(a)) <= 1
=============================================================================
