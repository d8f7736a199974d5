------------------------------- MODULE Mirror -------------------------------
(***************************************************************************)
(* A mirror account (core/mirror.ts): a turn reads the source's profile,   *)
(* writes each original post it has not seen in mirror.json, and then      *)
(* reposts and likes at most one that is due.                              *)
(***************************************************************************)
EXTENDS Jobs

CONSTANTS
  Posts,       \* the source's original posts
  MaxAttempts  \* a failing post is tried this often

Acts == {"repost", "like"}

ASSUME MirrorAssumption == MaxAttempts \in Nat \ {0}

VARIABLES
  mirror,     \* what the account is set to do, nothing when it is no mirror
  published,  \* the posts there are
  network,    \* what the network shows this account did to each
  ledger,     \* mirror.json
  mpc, turn,  \* where each worker is, and with what
  calls,      \* history: how often the mirror did each act to each post
  shown,      \* history: the acts the network showed when a post was read
  excused     \* history: the posts and acts nobody could tell were done

mirrorVars == <<mirror, published, network, ledger, mpc, turn, calls, shown, excused>>

Unseen == [state |-> "unseen", acts |-> {}, tries |-> 0, due |-> FALSE]

(* cfg: the setting when the turn began; feed: what it shows done to each   *)
(* post in it; post: the one it acts on, acts: what is known to be done to  *)
(* it; act: the one under way, res: what became of it                       *)
NoTurn == [cfg |-> {}, feed |-> <<>>, post |-> "none", acts |-> {},
           act |-> "none", res |-> "none"]

MirrorInit ==
  /\ mirror \in SUBSET Acts /\ published = {}
  /\ network = [p \in Posts |-> {}] /\ ledger = [p \in Posts |-> Unseen]
  /\ mpc = [w \in Workers |-> "idle"] /\ turn = [w \in Workers |-> NoTurn]
  /\ calls = [p \in Posts |-> [a \in Acts |-> 0]]
  /\ shown = [p \in Posts |-> {}] /\ excused = [p \in Posts |-> {}]

Steps(w, where, t) ==
  /\ mpc' = [mpc EXCEPT ![w] = where] /\ turn' = [turn EXCEPT ![w] = t]

(* save: the entry of the post, if it is still pending *)
Save(p, entry) ==
  IF ledger[p].state = "pending" THEN [ledger EXCEPT ![p] = entry] ELSE ledger

Close(entry) == [entry EXCEPT !.state = "done", !.due = FALSE]

(***************************************************************************)
(* A turn                                                                  *)
(***************************************************************************)
(* What is still to do to the post in hand, the repost first *)
Wanted(t) == t.cfg \ t.acts
First(t) == IF "repost" \in Wanted(t) THEN "repost" ELSE "like"

InHand(w, p) == mpc[w] \in {"call", "answer"} /\ turn[w].post = p

(* At most one due post, as file says; without an act to do it is done *)
ActOn(w, t, file) ==
  LET due == {p \in Posts : file[p].state = "pending" /\ file[p].due}
  IN  \/ due = {} /\ ledger' = file /\ Steps(w, "idle", NoTurn)
         /\ UNCHANGED excused
      \/ \E p \in due :
           LET hand == [t EXCEPT !.feed = <<>>, !.post = p, !.acts = file[p].acts]
           IN  \/ /\ Wanted(hand) = {}
                  /\ ledger' = [file EXCEPT ![p] = Close(@)]
                  /\ Steps(w, "idle", NoTurn) /\ UNCHANGED excused
               \/ /\ Wanted(hand) # {} /\ ledger' = file
                  /\ Steps(w, "call", [hand EXCEPT !.act = First(hand)])
                  /\ excused' = IF \E o \in Workers \ {w} : InHand(o, p)
                                THEN [excused EXCEPT ![p] = Acts] ELSE excused

(* The feed is asked for, or was read a while ago only *)
MirrorTurn(w) ==
  /\ mpc[w] = "idle" /\ mirror # {}
  /\ LET t == [NoTurn EXCEPT !.cfg = mirror]
     IN  \/ Steps(w, "feed", t) /\ UNCHANGED <<ledger, excused>>
         \/ ActOn(w, t, ledger)
  /\ UNCHANGED <<mirror, published, network, calls, shown, faults>>

(* The network makes up the feed: some of the posts, and its flags *)
AuthorFeed(w) ==
  /\ mpc[w] = "feed"
  /\ \/ \E S \in SUBSET published :
          Steps(w, "read", [turn[w] EXCEPT !.feed = [p \in S |-> network[p]]])
     \/ Steps(w, "idle", NoTurn)
  /\ UNCHANGED <<mirror, published, network, ledger, calls, shown, excused, faults>>

(* An act the network already reports is one not to repeat *)
Entered(flags, cfg, due) ==
  IF cfg \subseteq flags THEN [Unseen EXCEPT !.state = "done"]
  ELSE [Unseen EXCEPT !.state = "pending", !.acts = flags, !.due = due]

(* The ledger is read again, the posts it has not seen are entered, and it  *)
(* is written; of those only the first may be due at once                   *)
ReadFeed(w) ==
  /\ mpc[w] = "read"
  /\ LET t == turn[w]
         fresh == {p \in DOMAIN t.feed : ledger[p].state = "unseen"}
     IN  \E now \in SUBSET fresh :
           /\ Cardinality(now) <= 1
           /\ ActOn(w, t, [p \in Posts |->
                IF p \in fresh THEN Entered(t.feed[p], t.cfg, p \in now) ELSE ledger[p]])
           /\ shown' = [p \in Posts |-> IF p \in fresh THEN t.feed[p] ELSE shown[p]]
  /\ UNCHANGED <<mirror, published, network, calls, faults>>

(* network.repost or network.upvote *)
Act(w) ==
  /\ mpc[w] = "call"
  /\ LET t == turn[w]
     IN  \E res \in Outcomes :
           /\ Faulty(res)
           /\ Steps(w, "answer", [t EXCEPT !.res = res])
           /\ IF Landed(res)
              THEN /\ calls' = [calls EXCEPT ![t.post][t.act] = @ + 1]
                   /\ network' = [network EXCEPT ![t.post] = @ \cup {t.act}]
              ELSE UNCHANGED <<calls, network>>
           /\ excused' = IF res = "lost" THEN [excused EXCEPT ![t.post] = @ \cup {t.act}]
                         ELSE excused
  /\ UNCHANGED <<mirror, published, ledger, shown>>

(* mutant: an act is recorded when the post is done, not before *)
MarkedLate(entry, a) == entry

Marked(entry, a) == [entry EXCEPT !.acts = @ \cup {a}]

(* The act is recorded at once, and the next one made or the post done *)
Acted(w) ==
  /\ mpc[w] = "answer" /\ turn[w].res = "ok"
  /\ LET t == turn[w]
         hand == [t EXCEPT !.acts = @ \cup {t.act}, !.res = "none"]
         entry == Marked(ledger[t.post], t.act)
     IN  IF Wanted(hand) = {}
         THEN ledger' = Save(t.post, Close(entry)) /\ Steps(w, "idle", NoTurn)
         ELSE /\ ledger' = Save(t.post, entry)
              /\ Steps(w, "call", [hand EXCEPT !.act = First(hand)])
  /\ UNCHANGED <<mirror, published, network, calls, shown, excused, faults>>

(* One more attempt; the last one ends it *)
Failed(entry) ==
  IF entry.tries + 1 >= MaxAttempts THEN Close([entry EXCEPT !.tries = @ + 1])
  ELSE [entry EXCEPT !.tries = @ + 1, !.due = FALSE]

ActFailed(w) ==
  /\ mpc[w] = "answer" /\ turn[w].res # "ok"
  /\ ledger' = Save(turn[w].post, Failed(ledger[turn[w].post]))
  /\ Steps(w, "idle", NoTurn)
  /\ UNCHANGED <<mirror, published, network, calls, shown, excused, faults>>

MirrorCrash(w) ==
  /\ mpc[w] # "idle" /\ Fault
  /\ excused' = IF mpc[w] = "answer" /\ Landed(turn[w].res)
                THEN [excused EXCEPT ![turn[w].post] = @ \cup {turn[w].act}]
                ELSE excused
  /\ Steps(w, "idle", NoTurn)
  /\ UNCHANGED <<mirror, published, network, ledger, calls, shown>>

(***************************************************************************)
(* Around it                                                               *)
(***************************************************************************)
Publish(p) ==
  /\ p \notin published /\ published' = published \cup {p}
  /\ UNCHANGED <<mirror, network, ledger, mpc, turn, calls, shown, excused, faults>>

(* The owner of the account reposts or likes by hand *)
ByHand(p, a) ==
  /\ p \in published /\ a \notin network[p]
  /\ network' = [network EXCEPT ![p] = @ \cup {a}]
  /\ UNCHANGED <<mirror, published, ledger, mpc, turn, calls, shown, excused, faults>>

ComesDue(p) ==
  /\ ledger[p].state = "pending" /\ ~ledger[p].due
  /\ ledger' = [ledger EXCEPT ![p].due = TRUE]
  /\ UNCHANGED <<mirror, published, network, mpc, turn, calls, shown, excused, faults>>

(* setMirror, or with no act clearMirror; the ledger stays *)
SetMirror(cfg) ==
  /\ mirror # cfg /\ mirror' = cfg
  /\ UNCHANGED <<published, network, ledger, mpc, turn, calls, shown, excused, faults>>

MirrorNext ==
  \/ \E w \in Workers : \/ MirrorTurn(w) \/ AuthorFeed(w) \/ ReadFeed(w) \/ Act(w)
                        \/ Acted(w) \/ ActFailed(w) \/ MirrorCrash(w)
  \/ \E p \in Posts : Publish(p) \/ ComesDue(p) \/ \E a \in Acts : ByHand(p, a)
  \/ \E cfg \in SUBSET Acts : SetMirror(cfg)

MirrorSpec ==
  faults = 0 /\ MirrorInit /\ [][MirrorNext]_<<mirrorVars, faults>>

(***************************************************************************)
(* Properties                                                              *)
(***************************************************************************)
(* The type of every variable; a pending post has attempts left. *)
MirrorTypeOK ==
  /\ mirror \in SUBSET Acts /\ published \subseteq Posts
  /\ network \in [Posts -> SUBSET Acts]
  /\ ledger \in [Posts -> [state : {"unseen", "pending", "done"}, acts : SUBSET Acts,
                           tries : 0..MaxAttempts, due : BOOLEAN]]
  /\ \A p \in Posts : ledger[p].state = "pending" => ledger[p].tries < MaxAttempts
  /\ mpc \in [Workers -> {"idle", "feed", "read", "call", "answer"}]
  /\ turn \in [Workers -> [cfg : SUBSET Acts,
        feed : UNION {[S -> SUBSET Acts] : S \in SUBSET Posts}, post : Posts \cup {"none"},
        acts : SUBSET Acts, act : Acts \cup {"none"}, res : Outcomes \cup {"none"}]]
  /\ \A w \in Workers : mpc[w] \in {"call", "answer"} =>
       turn[w].post \in Posts /\ turn[w].act \in Acts
  /\ calls \in [Posts -> [Acts -> Nat]]
  /\ shown \in [Posts -> SUBSET Acts] /\ excused \in [Posts -> SUBSET Acts]
  /\ faults \in 0..MaxFaults

(* core/mirror.ts:54: "Set once each action has gone through, so a retry     *)
(* never repeats it", and core/mirror.ts:223: what the network already       *)
(* reports is not repeated either.  Through failures of the other act,      *)
(* retries, crashes and changes of the setting, a post is reposted once and *)
(* liked once, unless nobody could know: the answer was lost, the process   *)
(* died before it, or two processes had the post in hand.                    *)
MirroredOnce ==
  \A p \in Posts : \A a \in Acts \ excused[p] :
    calls[p][a] <= IF a \in shown[p] THEN 0 ELSE 1
=============================================================================
