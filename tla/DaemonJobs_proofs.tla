-------------------------- MODULE DaemonJobs_proofs --------------------------
(***************************************************************************)
(* What the jobs that keep a file of their own promise, for every value of *)
(* the constants: the mirror's ledger (Mirror), the copies of an issue on  *)
(* blogs (WebCopies), the vault (Vault), asks and reply cards (Asks).      *)
(***************************************************************************)
EXTENDS Mirror, WebCopies, Asks, Vault, FiniteSetTheorems, TLAPS

(***************************************************************************)
(* A mirror acts once on a post, for any number of posts, workers, turns,  *)
(* attempts and faults.                                                    *)
(*                                                                         *)
(* MirroredOnce does not say who may still act.  The invariant does: what  *)
(* is missing from a pending entry was neither done nor shown, or the      *)
(* worker that did it is about to record it (RowOK); what is missing from  *)
(* what a worker knows of the post in its hand was neither done nor shown  *)
(* (HandOK); and a post is in one hand, or nobody can know (Alone).        *)
(***************************************************************************)

MirrorPlaces == {"idle", "feed", "read", "call", "answer"}
Entries == [state : {"unseen", "pending", "done"}, acts : SUBSET Acts,
            tries : 0..MaxAttempts, due : BOOLEAN]
Feeds == UNION {[S -> SUBSET Acts] : S \in SUBSET Posts}
MirrorTurns == [cfg : SUBSET Acts, feed : Feeds, post : Posts \cup {"none"},
          acts : SUBSET Acts, act : Acts \cup {"none"}, res : Outcomes \cup {"none"}]

(* A turn that has a post in hand, at the given place *)
Handy(where, t) ==
  where \in {"call", "answer"} =>
    t.post \in Posts /\ t.act \in Acts \ t.acts /\ (where = "answer" => t.res \in Outcomes)

EntryOK(e) == e \in Entries /\ (e.state = "pending" => e.tries < MaxAttempts)

(* f and s stand for the ledger and for what the network showed, which a    *)
(* turn that reads the feed changes before it acts                          *)
FilesOK(f, s) ==
  /\ DOMAIN f = Posts /\ f = [p \in Posts |-> f[p]] /\ \A p \in Posts : EntryOK(f[p])
  /\ s \in [Posts -> SUBSET Acts]

WorkersOK ==
  /\ mpc \in [Workers -> MirrorPlaces] /\ turn \in [Workers -> MirrorTurns]
  /\ \A w \in Workers : Handy(mpc[w], turn[w])

WorldOK ==
  /\ mirror \in SUBSET Acts /\ published \subseteq Posts
  /\ network \in [Posts -> SUBSET Acts] /\ calls \in [Posts -> [Acts -> Nat]]
  /\ excused \in [Posts -> SUBSET Acts] /\ faults \in 0..MaxFaults

MirrorTyped == FilesOK(ledger, shown) /\ WorkersOK /\ WorldOK

LEMMA MirrorTypedIsType == MirrorTyped => MirrorTypeOK
BY DEF MirrorTyped, FilesOK, EntryOK, WorkersOK, WorldOK, Handy, MirrorTypeOK, MirrorPlaces, Entries,
       MirrorTurns, Feeds

(***************************************************************************)
(* The values                                                              *)
(***************************************************************************)
LEMMA ClosedEntry ==
  ASSUME NEW e, EntryOK(e)
  PROVE  EntryOK(Close(e)) /\ Close(e).state = "done"
BY DEF EntryOK, Entries, Close

LEMMA MarkedEntry ==
  ASSUME NEW e, EntryOK(e), NEW a \in Acts
  PROVE  /\ EntryOK(Marked(e, a)) /\ Marked(e, a).state = e.state
         /\ Marked(e, a).acts = e.acts \cup {a}
BY DEF EntryOK, Entries, Marked

LEMMA FailedEntry ==
  ASSUME NEW e, EntryOK(e), e.state = "pending"
  PROVE  /\ EntryOK(Failed(e)) /\ Failed(e).state # "unseen" /\ Failed(e).acts = e.acts
<1>1. e \in Entries /\ e.tries \in Nat /\ e.tries + 1 \in 0..MaxAttempts
  BY MirrorAssumption DEF EntryOK, Entries
<1>2. CASE e.tries + 1 >= MaxAttempts
  BY <1>1, <1>2 DEF EntryOK, Entries, Failed, Close
<1>3. CASE ~(e.tries + 1 >= MaxAttempts)
  <2>1. Failed(e) = [e EXCEPT !.tries = @ + 1, !.due = FALSE]
    BY <1>3 DEF Failed
  <2>2. e.tries + 1 < MaxAttempts
    BY <1>1, <1>3, MirrorAssumption
  <2> QED BY <1>1, <2>1, <2>2 DEF EntryOK, Entries
<1> QED BY <1>2, <1>3

LEMMA EnteredEntry ==
  ASSUME NEW flags \in SUBSET Acts, NEW cfg, NEW due \in BOOLEAN
  PROVE  /\ EntryOK(Entered(flags, cfg, due)) /\ Entered(flags, cfg, due).state # "unseen"
         /\ Entered(flags, cfg, due).state = "pending" => Entered(flags, cfg, due).acts = flags
<1>1. 0 < MaxAttempts /\ 0 \in 0..MaxAttempts
  BY MirrorAssumption
<1>2. CASE cfg \subseteq flags
  BY <1>1, <1>2 DEF EntryOK, Entries, Entered, Unseen
<1>3. CASE ~(cfg \subseteq flags)
  <2>1. Entered(flags, cfg, due) = [state |-> "pending", acts |-> flags, tries |-> 0, due |-> due]
    BY <1>3 DEF Entered, Unseen
  <2> QED BY <1>1, <2>1 DEF EntryOK, Entries
<1> QED BY <1>2, <1>3

LEMMA NoTurnType == NoTurn \in MirrorTurns
<1>1. <<>> \in [{} -> SUBSET Acts]
  OBVIOUS
<1>2. <<>> \in Feeds
  BY <1>1 DEF Feeds
<1> QED BY <1>2 DEF NoTurn, MirrorTurns

LEMMA FirstWanted ==
  ASSUME NEW t \in MirrorTurns, Wanted(t) # {}
  PROVE  First(t) \in Acts \ t.acts
BY DEF Wanted, First, MirrorTurns, Acts

(***************************************************************************)
(* Types                                                                   *)
(***************************************************************************)
LEMMA StepsType ==
  ASSUME WorkersOK, NEW w \in Workers, NEW where \in MirrorPlaces, NEW t \in MirrorTurns,
         Handy(where, t), Steps(w, where, t)
  PROVE  /\ WorkersOK' /\ mpc'[w] = where /\ turn'[w] = t
         /\ \A o \in Workers \ {w} : mpc'[o] = mpc[o] /\ turn'[o] = turn[o]
BY DEF WorkersOK, Steps

LEMMA DoneType ==
  ASSUME WorkersOK, NEW w \in Workers, Steps(w, "idle", NoTurn)
  PROVE  /\ WorkersOK' /\ mpc'[w] = "idle"
         /\ \A o \in Workers \ {w} : mpc'[o] = mpc[o] /\ turn'[o] = turn[o]
BY StepsType, NoTurnType DEF MirrorPlaces, Handy

LEMMA SavedFile ==
  ASSUME FilesOK(ledger, shown), NEW p \in Posts, NEW e,
         ledger[p].state = "pending" => EntryOK(e), ledger' = Save(p, e), shown' = shown
  PROVE  /\ FilesOK(ledger', shown')
         /\ ledger'[p] = IF ledger[p].state = "pending" THEN e ELSE ledger[p]
         /\ \A q \in Posts \ {p} : ledger'[q] = ledger[q]
BY DEF FilesOK, Save

(***************************************************************************)
(* Who may still act                                                       *)
(***************************************************************************)
(* Worker w did act a to post p, and is about to record it *)
DidAct(w, p, a) ==
  mpc[w] = "answer" /\ turn[w].post = p /\ turn[w].act = a /\ turn[w].res = "ok"

RowOK(f, s, p) ==
  /\ f[p].state = "unseen" =>
       s[p] = {} /\ (\A a \in Acts : calls[p][a] = 0) /\ (\A w \in Workers : ~InHand(w, p))
  /\ f[p].state = "pending" => \A a \in Acts \ (f[p].acts \cup excused[p]) :
       a \notin s[p] /\ (calls[p][a] = 0 \/ \E w \in Workers : DidAct(w, p, a))
  /\ \A a \in Acts \ excused[p] : calls[p][a] <= IF a \in s[p] THEN 0 ELSE 1

HandOK(s, w, p) ==
  InHand(w, p) => \A a \in Acts \ (turn[w].acts \cup excused[p]) :
    a \notin s[p] /\ (calls[p][a] = 0 \/ DidAct(w, p, a))

Alone ==
  \A w, o \in Workers, p \in Posts : w # o /\ InHand(w, p) /\ InHand(o, p) =>
    Acts \subseteq excused[p]

OnceInv(f, s) ==
  Alone /\ \A p \in Posts : RowOK(f, s, p) /\ \A w \in Workers : HandOK(s, w, p)

MirrorInv == MirrorTyped /\ OnceInv(ledger, shown)

LEMMA MirrorInvInit == faults = 0 /\ MirrorInit => MirrorInv
<1> SUFFICES ASSUME faults = 0, MirrorInit PROVE MirrorInv
  OBVIOUS
<1>1. EntryOK(Unseen) /\ Unseen.state = "unseen"
  BY MirrorAssumption DEF EntryOK, Entries, Unseen
<1>2. MirrorTyped
  BY <1>1, NoTurnType, JobsAssumption
  DEF MirrorInit, MirrorTyped, FilesOK, WorkersOK, WorldOK, MirrorPlaces, Handy
<1>3. \A w \in Workers, p \in Posts : ~InHand(w, p)
  BY DEF MirrorInit, InHand
<1>4. OnceInv(ledger, shown)
  BY <1>1, <1>3 DEF MirrorInit, OnceInv, Alone, RowOK, HandOK
<1> QED BY <1>2, <1>4 DEF MirrorInv

(* Whatever neither acts nor reads a post, and puts no post in a hand: an   *)
(* entry keeps what is known of it, and an act that was made and not        *)
(* recorded stays in hand, or nobody can know                               *)
LEMMA Elsewhere ==
  ASSUME NEW f, NEW s, OnceInv(f, s), UNCHANGED calls, shown' = s,
         \A p \in Posts : excused[p] \subseteq excused'[p],
         \A p \in Posts : \/ ledger'[p].state = "done"
                          \/ ledger'[p].state = f[p].state /\ ledger'[p].acts = f[p].acts,
         \A w \in Workers, p \in Posts : InHand(w, p)' =>
           InHand(w, p) /\ mpc'[w] = mpc[w] /\ turn'[w] = turn[w],
         \A w \in Workers, p \in Posts : \A a \in Acts : DidAct(w, p, a) =>
           DidAct(w, p, a)' \/ a \in excused'[p]
  PROVE  OnceInv(ledger, shown)'
<1>1. Alone'
  BY DEF OnceInv, Alone
<1>2. ASSUME NEW p \in Posts PROVE RowOK(ledger, shown, p)'
  <2>1. RowOK(f, s, p)
    BY DEF OnceInv
  <2> QED BY <1>2, <2>1 DEF RowOK
<1>3. ASSUME NEW p \in Posts, NEW w \in Workers PROVE HandOK(shown, w, p)'
  <2>1. HandOK(s, w, p)
    BY DEF OnceInv
  <2> QED BY <1>3, <2>1 DEF HandOK, DidAct
<1> QED BY <1>1, <1>2, <1>3 DEF OnceInv

LEMMA HandIsWorking ==
  ASSUME NEW w \in Workers, mpc[w] \in {"idle", "feed", "read"}
  PROVE  \A p, a : ~InHand(w, p) /\ ~DidAct(w, p, a)
BY DEF InHand, DidAct

(* A worker with nothing in hand goes somewhere else with nothing in hand *)
LEMMA EmptyHanded ==
  ASSUME WorkersOK, NEW f, NEW s, OnceInv(f, s), UNCHANGED <<calls, excused>>, shown' = s,
         \A p \in Posts : \/ ledger'[p].state = "done"
                          \/ ledger'[p].state = f[p].state /\ ledger'[p].acts = f[p].acts,
         NEW w \in Workers, mpc[w] \in {"idle", "feed", "read"},
         mpc'[w] \in {"idle", "feed", "read"},
         \A o \in Workers \ {w} : mpc'[o] = mpc[o] /\ turn'[o] = turn[o]
  PROVE  OnceInv(ledger, shown)'
<1>1. \A p, a : ~InHand(w, p) /\ ~DidAct(w, p, a)
  BY HandIsWorking
<1>2. \A p : ~InHand(w, p)'
  BY DEF InHand
<1>3. \A o \in Workers, p \in Posts : InHand(o, p)' =>
        InHand(o, p) /\ mpc'[o] = mpc[o] /\ turn'[o] = turn[o]
  BY <1>2 DEF InHand
<1>4. \A o \in Workers, p \in Posts : \A a \in Acts : DidAct(o, p, a) => DidAct(o, p, a)'
  BY <1>1 DEF DidAct
<1> QED BY <1>3, <1>4, Elsewhere

LEMMA ActOnStep ==
  ASSUME WorkersOK, WorldOK, NEW file, NEW s, FilesOK(file, s), OnceInv(file, s),
         NEW w \in Workers, mpc[w] \in {"idle", "feed", "read"}, NEW t \in MirrorTurns,
         ActOn(w, t, file), shown' = s,
         UNCHANGED <<mirror, published, network, calls, faults>>
  PROVE  MirrorInv'
<1>1. CASE ledger' = file /\ Steps(w, "idle", NoTurn) /\ UNCHANGED excused
  <2>1. WorkersOK' /\ mpc'[w] = "idle"
        /\ \A o \in Workers \ {w} : mpc'[o] = mpc[o] /\ turn'[o] = turn[o]
    BY <1>1, DoneType
  <2>2. MirrorTyped'
    BY <1>1, <2>1 DEF MirrorTyped, FilesOK, WorldOK
  <2>3. OnceInv(ledger, shown)'
    BY <1>1, <2>1, EmptyHanded
  <2> QED BY <2>2, <2>3 DEF MirrorInv
<1>2. ASSUME NEW p \in Posts, ledger' = [file EXCEPT ![p] = Close(@)],
             Steps(w, "idle", NoTurn), UNCHANGED excused
      PROVE  MirrorInv'
  <2>1. WorkersOK' /\ mpc'[w] = "idle"
        /\ \A o \in Workers \ {w} : mpc'[o] = mpc[o] /\ turn'[o] = turn[o]
    BY <1>2, DoneType
  <2>2. /\ DOMAIN ledger' = Posts /\ ledger' = [q \in Posts |-> ledger'[q]]
        /\ ledger'[p] = Close(file[p]) /\ \A q \in Posts \ {p} : ledger'[q] = file[q]
    BY <1>2 DEF FilesOK
  <2>3. EntryOK(ledger'[p]) /\ ledger'[p].state = "done"
    BY <2>2, ClosedEntry DEF FilesOK
  <2>4. FilesOK(ledger', shown')
    BY <2>2, <2>3 DEF FilesOK
  <2>5. MirrorTyped'
    BY <1>2, <2>1, <2>4 DEF MirrorTyped, WorldOK, FilesOK
  <2>6. OnceInv(ledger, shown)'
    BY <1>2, <2>1, <2>2, <2>3, EmptyHanded
  <2> QED BY <2>5, <2>6 DEF MirrorInv
<1>3. ASSUME NEW p \in Posts, file[p].state = "pending", ledger' = file, NEW inhand,
             inhand = [t EXCEPT !.feed = <<>>, !.post = p, !.acts = file[p].acts],
             Wanted(inhand) # {}, Steps(w, "call", [inhand EXCEPT !.act = First(inhand)]),
             excused' = IF \E o \in Workers \ {w} : InHand(o, p)
                        THEN [excused EXCEPT ![p] = Acts] ELSE excused
      PROVE  MirrorInv'
  <2>1. PICK u : u = [inhand EXCEPT !.act = First(inhand)]
    OBVIOUS
  <2>2. <<>> \in Feeds /\ file[p].acts \in SUBSET Acts
    BY NoTurnType DEF NoTurn, MirrorTurns, FilesOK, EntryOK, Entries
  <2>3. inhand \in MirrorTurns /\ inhand.post = p /\ inhand.acts = file[p].acts
    BY <1>3, <2>2 DEF MirrorTurns
  <2>4. First(inhand) \in Acts \ inhand.acts
    BY <1>3, <2>3, FirstWanted
  <2>5. u \in MirrorTurns /\ u.post = p /\ u.acts = file[p].acts /\ u.act \in Acts \ u.acts
    BY <2>1, <2>3, <2>4 DEF MirrorTurns
  <2>6. /\ WorkersOK' /\ mpc'[w] = "call" /\ turn'[w] = u
        /\ \A o \in Workers \ {w} : mpc'[o] = mpc[o] /\ turn'[o] = turn[o]
    BY <1>3, <2>1, <2>5, StepsType DEF MirrorPlaces, Handy
  <2>7. excused \in [Posts -> SUBSET Acts]
    BY DEF WorldOK
  <2>8. /\ excused' \in [Posts -> SUBSET Acts] /\ \A q \in Posts : excused[q] \subseteq excused'[q]
        /\ (\E o \in Workers \ {w} : InHand(o, p)) => excused'[p] = Acts
    BY <1>3, <2>7
  <2>9. MirrorTyped'
    BY <1>3, <2>6, <2>8 DEF MirrorTyped, FilesOK, WorldOK
  <2>10. \A q, a : ~InHand(w, q) /\ ~DidAct(w, q, a)
    BY HandIsWorking
  <2>11. \A q \in Posts : InHand(w, q)' => q = p
    BY <2>5, <2>6 DEF InHand
  <2>12. \A o \in Workers \ {w}, q \in Posts : /\ InHand(o, q)' <=> InHand(o, q)
                                              /\ \A a \in Acts : DidAct(o, q, a)' <=> DidAct(o, q, a)
    BY <2>6 DEF InHand, DidAct
  <2>13. Alone'
    BY <2>8, <2>11, <2>12 DEF OnceInv, Alone
  <2>14. ASSUME NEW q \in Posts PROVE RowOK(ledger, shown, q)'
    <3>1. RowOK(file, s, q)
      BY DEF OnceInv
    <3>2. file[q].state = "unseen" => \A o \in Workers : ~InHand(o, q)'
      BY <1>3, <2>11, <2>12, <3>1 DEF RowOK
    <3> QED BY <1>3, <2>8, <2>10, <2>12, <3>1, <3>2 DEF RowOK
  <2>15. ASSUME NEW q \in Posts, NEW o \in Workers \ {w} PROVE HandOK(shown, o, q)'
    <3>1. HandOK(s, o, q)
      BY DEF OnceInv
    <3> QED BY <2>6, <2>8, <2>12, <3>1 DEF HandOK
  <2>16. ASSUME NEW q \in Posts PROVE HandOK(shown, w, q)'
    <3>1. RowOK(file, s, p)
      BY DEF OnceInv
    <3>2. SUFFICES ASSUME q = p, NEW a \in Acts \ (file[p].acts \cup excused'[p])
                   PROVE  a \notin s[p] /\ calls[p][a] = 0
      BY <2>5, <2>6, <2>11 DEF HandOK
    <3>3. \A o \in Workers : ~DidAct(o, p, a)
      BY <2>8, <2>10, <3>2 DEF DidAct, InHand
    <3> QED BY <1>3, <2>8, <3>1, <3>2, <3>3 DEF RowOK
  <2>17. OnceInv(ledger, shown)'
    BY <2>13, <2>14, <2>15, <2>16 DEF OnceInv
  <2> QED BY <2>9, <2>17 DEF MirrorInv
<1> QED BY <1>1, <1>2, <1>3 DEF ActOn

(***************************************************************************)
(* A turn                                                                  *)
(***************************************************************************)
LEMMA TurnStep ==
  ASSUME MirrorInv, NEW w \in Workers, MirrorTurn(w)
  PROVE  MirrorInv'
<1>1. /\ FilesOK(ledger, shown) /\ WorkersOK /\ WorldOK /\ OnceInv(ledger, shown)
      /\ mpc[w] = "idle" /\ UNCHANGED <<mirror, published, network, calls, shown, faults>>
  BY DEF MirrorInv, MirrorTyped, MirrorTurn
<1>2. PICK t : t = [NoTurn EXCEPT !.cfg = mirror]
  OBVIOUS
<1>3. t \in MirrorTurns
  BY <1>1, <1>2, NoTurnType DEF WorldOK, NoTurn, MirrorTurns
<1>4. CASE Steps(w, "feed", t) /\ UNCHANGED <<ledger, excused>>
  <2>1. WorkersOK' /\ mpc'[w] = "feed"
        /\ \A o \in Workers \ {w} : mpc'[o] = mpc[o] /\ turn'[o] = turn[o]
    BY <1>1, <1>3, <1>4, StepsType DEF MirrorPlaces, Handy
  <2>2. OnceInv(ledger, shown)'
    BY <1>1, <1>4, <2>1, EmptyHanded
  <2> QED BY <1>1, <1>4, <2>1, <2>2 DEF MirrorInv, MirrorTyped, FilesOK, WorldOK
<1>5. CASE ActOn(w, t, ledger)
  BY <1>1, <1>3, <1>5, ActOnStep
<1> QED BY <1>2, <1>4, <1>5 DEF MirrorTurn

LEMMA FeedStep ==
  ASSUME MirrorInv, NEW w \in Workers, AuthorFeed(w)
  PROVE  MirrorInv'
<1>1. /\ FilesOK(ledger, shown) /\ WorkersOK /\ WorldOK /\ OnceInv(ledger, shown)
      /\ mpc[w] = "feed" /\ turn[w] \in MirrorTurns
      /\ UNCHANGED <<mirror, published, network, ledger, calls, shown, excused, faults>>
  BY DEF MirrorInv, MirrorTyped, AuthorFeed, WorkersOK
<1>2. /\ WorkersOK' /\ mpc'[w] \in {"idle", "read"}
      /\ \A o \in Workers \ {w} : mpc'[o] = mpc[o] /\ turn'[o] = turn[o]
  <2>1. CASE Steps(w, "idle", NoTurn)
    BY <1>1, <2>1, DoneType
  <2>2. ASSUME NEW S \in SUBSET published,
               Steps(w, "read", [turn[w] EXCEPT !.feed = [p \in S |-> network[p]]])
        PROVE  /\ WorkersOK' /\ mpc'[w] \in {"idle", "read"}
               /\ \A o \in Workers \ {w} : mpc'[o] = mpc[o] /\ turn'[o] = turn[o]
    <3>1. PICK feed, t : feed = [p \in S |-> network[p]] /\ t = [turn[w] EXCEPT !.feed = feed]
      OBVIOUS
    <3>2. S \in SUBSET Posts /\ feed \in [S -> SUBSET Acts]
      BY <1>1, <3>1 DEF WorldOK
    <3>3. feed \in Feeds
      BY <3>2 DEF Feeds
    <3>4. t \in MirrorTurns
      BY <1>1, <3>1, <3>3 DEF MirrorTurns
    <3>5. Steps(w, "read", t)
      BY <2>2, <3>1
    <3> QED BY <1>1, <3>4, <3>5, StepsType DEF MirrorPlaces, Handy
  <2> QED BY <2>1, <2>2 DEF AuthorFeed
<1>3. OnceInv(ledger, shown)'
  BY <1>1, <1>2, EmptyHanded
<1> QED BY <1>1, <1>2, <1>3 DEF MirrorInv, MirrorTyped, FilesOK, WorldOK

(* What a turn reads that it has not seen was not done, and is in no hand *)
LEMMA ReadStep ==
  ASSUME MirrorInv, NEW w \in Workers, ReadFeed(w)
  PROVE  MirrorInv'
<1>1. /\ FilesOK(ledger, shown) /\ WorkersOK /\ WorldOK /\ OnceInv(ledger, shown)
      /\ mpc[w] = "read" /\ turn[w] \in MirrorTurns
      /\ UNCHANGED <<mirror, published, network, calls, faults>>
  BY DEF MirrorInv, MirrorTyped, ReadFeed, WorkersOK
<1>2. PICK t, fresh : t = turn[w] /\ fresh = {p \in DOMAIN t.feed : ledger[p].state = "unseen"}
  OBVIOUS
<1>3. PICK now \in SUBSET fresh :
        /\ ActOn(w, t, [p \in Posts |->
             IF p \in fresh THEN Entered(t.feed[p], t.cfg, p \in now) ELSE ledger[p]])
        /\ shown' = [p \in Posts |-> IF p \in fresh THEN t.feed[p] ELSE shown[p]]
  BY <1>2 DEF ReadFeed
<1>4. PICK file, s :
        /\ file = [p \in Posts |->
             IF p \in fresh THEN Entered(t.feed[p], t.cfg, p \in now) ELSE ledger[p]]
        /\ s = [p \in Posts |-> IF p \in fresh THEN t.feed[p] ELSE shown[p]]
  OBVIOUS
<1>5. PICK S \in SUBSET Posts : t.feed \in [S -> SUBSET Acts]
  BY <1>1, <1>2 DEF MirrorTurns, Feeds
<1>6. /\ fresh \subseteq Posts
      /\ \A p \in fresh : t.feed[p] \in SUBSET Acts /\ ledger[p].state = "unseen"
  BY <1>2, <1>5
<1>7. ASSUME NEW p \in fresh
      PROVE  /\ EntryOK(file[p]) /\ file[p].state # "unseen" /\ s[p] = t.feed[p]
             /\ file[p].state = "pending" => file[p].acts = s[p]
  <2>1. file[p] = Entered(t.feed[p], t.cfg, p \in now) /\ s[p] = t.feed[p]
    BY <1>4, <1>6
  <2>2. t.feed[p] \in SUBSET Acts /\ (p \in now) \in BOOLEAN
    BY <1>6
  <2>3. /\ EntryOK(Entered(t.feed[p], t.cfg, p \in now))
        /\ Entered(t.feed[p], t.cfg, p \in now).state # "unseen"
        /\ Entered(t.feed[p], t.cfg, p \in now).state = "pending" =>
             Entered(t.feed[p], t.cfg, p \in now).acts = t.feed[p]
    BY <2>2, EnteredEntry, Zenon
  <2> QED BY <2>1, <2>3
<1>8. \A p \in Posts \ fresh : file[p] = ledger[p] /\ s[p] = shown[p]
  BY <1>4
<1>9. FilesOK(file, s)
  <2>1. \A p \in Posts : EntryOK(file[p])
    BY <1>1, <1>7, <1>8 DEF FilesOK
  <2>2. s \in [Posts -> SUBSET Acts]
    BY <1>1, <1>4, <1>6 DEF FilesOK
  <2>3. DOMAIN file = Posts /\ file = [p \in Posts |-> file[p]]
    BY <1>4
  <2> QED BY <2>1, <2>2, <2>3 DEF FilesOK
<1>10. OnceInv(file, s)
  <2>1. ASSUME NEW p \in fresh
        PROVE  RowOK(file, s, p) /\ \A o \in Workers : HandOK(s, o, p)
    <3>1. (\A a \in Acts : calls[p][a] = 0) /\ \A o \in Workers : ~InHand(o, p)
      BY <1>1, <1>6, <2>1 DEF OnceInv, RowOK
    <3>2. \A a \in Acts : 0 <= IF a \in s[p] THEN 0 ELSE 1
      OBVIOUS
    <3> QED BY <1>7, <3>1, <3>2 DEF RowOK, HandOK
  <2>2. ASSUME NEW p \in Posts \ fresh
        PROVE  RowOK(file, s, p) /\ \A o \in Workers : HandOK(s, o, p)
    BY <1>1, <1>8, <2>2 DEF OnceInv, RowOK, HandOK
  <2> QED BY <1>1, <2>1, <2>2 DEF OnceInv
<1>11. ActOn(w, t, file) /\ shown' = s
  BY <1>3, <1>4
<1> QED BY <1>1, <1>2, <1>9, <1>10, <1>11, ActOnStep

(* An act that lands was not done before, if anybody can know: what the     *)
(* worker knows of the post in its hand says so                             *)
LEMMA ActStep ==
  ASSUME MirrorInv, NEW w \in Workers, Act(w)
  PROVE  MirrorInv'
<1>1. /\ FilesOK(ledger, shown) /\ WorkersOK /\ WorldOK /\ OnceInv(ledger, shown)
      /\ mpc[w] = "call" /\ UNCHANGED <<mirror, published, ledger, shown>>
  BY DEF MirrorInv, MirrorTyped, Act, WorkersOK
<1>2. PICK t, p, b : t = turn[w] /\ p = t.post /\ b = t.act
  OBVIOUS
<1>3. t \in MirrorTurns /\ p \in Posts /\ b \in Acts \ t.acts
  BY <1>1, <1>2 DEF WorkersOK, Handy
<1>4. PICK res \in Outcomes :
        /\ Faulty(res) /\ Steps(w, "answer", [t EXCEPT !.res = res])
        /\ IF Landed(res)
           THEN /\ calls' = [calls EXCEPT ![p][b] = @ + 1]
                /\ network' = [network EXCEPT ![p] = @ \cup {b}]
           ELSE UNCHANGED <<calls, network>>
        /\ excused' = IF res = "lost" THEN [excused EXCEPT ![p] = @ \cup {b}] ELSE excused
  BY <1>2 DEF Act
<1>5. PICK u : u = [t EXCEPT !.res = res]
  OBVIOUS
<1>6. u \in MirrorTurns /\ u.post = p /\ u.act = b /\ u.acts = t.acts /\ u.res = res
  BY <1>2, <1>3, <1>5 DEF MirrorTurns
<1>7. /\ WorkersOK' /\ mpc'[w] = "answer" /\ turn'[w] = u
      /\ \A o \in Workers \ {w} : mpc'[o] = mpc[o] /\ turn'[o] = turn[o]
  BY <1>1, <1>3, <1>4, <1>5, <1>6, StepsType DEF MirrorPlaces, Handy
<1>8. /\ calls \in [Posts -> [Acts -> Nat]] /\ network \in [Posts -> SUBSET Acts]
      /\ excused \in [Posts -> SUBSET Acts] /\ faults \in 0..MaxFaults
  BY <1>1 DEF WorldOK
<1>9. /\ calls' \in [Posts -> [Acts -> Nat]]
      /\ \A q \in Posts, a \in Acts : q # p \/ a # b => calls'[q][a] = calls[q][a]
      /\ calls'[p][b] = calls[p][b] + IF Landed(res) THEN 1 ELSE 0
  <2>1. CASE Landed(res)
    <3>1. /\ calls[p] \in [Acts -> Nat]
          /\ calls' = [calls EXCEPT ![p] = [calls[p] EXCEPT ![b] = calls[p][b] + 1]]
      BY <1>3, <1>4, <1>8, <2>1
    <3>2. [calls[p] EXCEPT ![b] = calls[p][b] + 1] \in [Acts -> Nat]
      BY <1>3, <3>1
    <3> QED BY <1>3, <1>8, <2>1, <3>1, <3>2
  <2>2. CASE ~Landed(res)
    BY <1>3, <1>4, <1>8, <2>2
  <2> QED BY <2>1, <2>2
<1>10. /\ excused' \in [Posts -> SUBSET Acts] /\ \A q \in Posts : excused[q] \subseteq excused'[q]
       /\ res = "lost" => b \in excused'[p]
  BY <1>3, <1>4, <1>8
<1>11. MirrorTyped'
  <2>1. network' \in [Posts -> SUBSET Acts]
    BY <1>3, <1>4, <1>8
  <2>2. faults' \in 0..MaxFaults
    BY <1>4, <1>8, JobsAssumption DEF Faulty, Fault
  <2> QED BY <1>1, <1>7, <1>9, <1>10, <2>1, <2>2 DEF MirrorTyped, FilesOK, WorldOK
<1>12. /\ InHand(w, p) /\ \A q, a : ~DidAct(w, q, a)
       /\ \A q \in Posts : (InHand(w, q) <=> q = p) /\ (InHand(w, q)' <=> q = p)
       /\ \A o \in Workers \ {w}, q \in Posts :
            /\ InHand(o, q)' <=> InHand(o, q)
            /\ \A a \in Acts : DidAct(o, q, a)' <=> DidAct(o, q, a)
  BY <1>1, <1>2, <1>6, <1>7 DEF InHand, DidAct
<1>13. b \notin excused[p] => b \notin shown[p] /\ calls[p][b] = 0
  <2>1. HandOK(shown, w, p)
    BY <1>1, <1>3 DEF OnceInv
  <2> QED BY <1>2, <1>3, <1>12, <2>1 DEF HandOK
<1>14. Landed(res) /\ b \notin excused'[p] => DidAct(w, p, b)'
  BY <1>6, <1>7, <1>10 DEF Landed, Outcomes, DidAct
<1>15. Alone'
  BY <1>1, <1>10, <1>12 DEF OnceInv, Alone
<1>16. ASSUME NEW q \in Posts PROVE RowOK(ledger, shown, q)'
  <2>1. RowOK(ledger, shown, q) /\ ledger'[q] = ledger[q] /\ shown'[q] = shown[q]
    BY <1>1 DEF OnceInv
  <2>2. ledger[q].state = "unseen" => q # p /\ \A o \in Workers : ~InHand(o, q)'
    BY <1>12, <2>1 DEF RowOK
  <2>3. ASSUME NEW a \in Acts, ledger[q].state = "pending",
               a \notin ledger[q].acts, a \notin excused'[q]
        PROVE  a \notin shown[q] /\ (calls'[q][a] = 0 \/ \E o \in Workers : DidAct(o, q, a)')
    <3>1. a \notin shown[q] /\ (calls[q][a] = 0 \/ \E o \in Workers \ {w} : DidAct(o, q, a))
      BY <1>10, <1>12, <2>1, <2>3 DEF RowOK
    <3>2. CASE q # p \/ a # b
      BY <1>9, <1>12, <3>1, <3>2
    <3>3. CASE q = p /\ a = b
      BY <1>8, <1>9, <1>12, <1>14, <2>3, <3>1, <3>3
    <3> QED BY <3>1, <3>2, <3>3
  <2>4. ASSUME NEW a \in Acts, a \notin excused'[q]
        PROVE  calls'[q][a] <= IF a \in shown[q] THEN 0 ELSE 1
    <3>1. CASE q # p \/ a # b
      BY <1>9, <1>10, <2>1, <2>4, <3>1 DEF RowOK
    <3>2. CASE q = p /\ a = b
      BY <1>9, <1>10, <1>13, <2>4, <3>2
    <3> QED BY <3>1, <3>2
  <2>5. ledger[q].state = "unseen" => shown[q] = {} /\ \A a \in Acts : calls'[q][a] = 0
    BY <1>9, <2>1, <2>2 DEF RowOK
  <2> QED BY <2>1, <2>2, <2>3, <2>4, <2>5 DEF RowOK
<1>17. ASSUME NEW q \in Posts, NEW o \in Workers PROVE HandOK(shown, o, q)'
  <2>1. HandOK(shown, o, q)
    BY <1>1 DEF OnceInv
  <2>2. CASE o # w /\ q = p
    BY <1>1, <1>10, <1>12, <2>2 DEF HandOK, OnceInv, Alone
  <2>3. CASE o # w /\ q # p
    BY <1>1, <1>7, <1>9, <1>10, <1>12, <2>1, <2>3 DEF HandOK
  <2>4. CASE o = w /\ q = p
    <3>1. ASSUME NEW a \in Acts, a \notin t.acts, a \notin excused'[p]
          PROVE  a \notin shown[p] /\ (calls'[p][a] = 0 \/ DidAct(w, p, a)')
      <4>1. a \notin shown[p] /\ calls[p][a] = 0
        BY <1>2, <1>10, <1>12, <2>1, <2>4, <3>1 DEF HandOK
      <4>2. a # b \/ ~Landed(res) => calls'[p][a] = calls[p][a]
        BY <1>3, <1>8, <1>9, <3>1
      <4> QED BY <1>14, <3>1, <4>1, <4>2
    <3> QED BY <1>1, <1>6, <1>7, <2>4, <3>1 DEF HandOK
  <2>5. CASE o = w /\ q # p
    BY <1>12, <2>5 DEF HandOK
  <2> QED BY <2>2, <2>3, <2>4, <2>5
<1> QED BY <1>11, <1>15, <1>16, <1>17 DEF MirrorInv, OnceInv

(* What was done is recorded before the next act, or before the worker ends *)
LEMMA ActedStep ==
  ASSUME MirrorInv, NEW w \in Workers, Acted(w)
  PROVE  MirrorInv'
<1>1. /\ FilesOK(ledger, shown) /\ WorkersOK /\ WorldOK /\ OnceInv(ledger, shown)
      /\ mpc[w] = "answer" /\ turn[w].res = "ok"
      /\ UNCHANGED <<mirror, published, network, calls, shown, excused, faults>>
  BY DEF MirrorInv, MirrorTyped, Acted, WorkersOK
<1>2. PICK t, p, b, inhand, entry :
        /\ t = turn[w] /\ p = t.post /\ b = t.act
        /\ inhand = [t EXCEPT !.acts = @ \cup {b}, !.res = "none"]
        /\ entry = Marked(ledger[p], b)
  OBVIOUS
<1>3. t \in MirrorTurns /\ p \in Posts /\ b \in Acts \ t.acts
  BY <1>1, <1>2 DEF WorkersOK, Handy
<1>4. /\ EntryOK(entry) /\ entry.state = ledger[p].state
      /\ entry.acts = ledger[p].acts \cup {b}
      /\ EntryOK(Close(entry)) /\ Close(entry).state = "done"
  <2>1. EntryOK(ledger[p])
    BY <1>1, <1>3 DEF FilesOK
  <2> QED BY <1>2, <1>3, <2>1, MarkedEntry, ClosedEntry
<1>5. inhand \in MirrorTurns /\ inhand.post = p /\ inhand.acts = t.acts \cup {b}
  BY <1>2, <1>3 DEF MirrorTurns
<1>6. PICK e \in {entry, Close(entry)} :
        /\ ledger' = Save(p, e)
        /\ \/ e = Close(entry) /\ Steps(w, "idle", NoTurn)
           \/ Wanted(inhand) # {} /\ e = entry /\ Steps(w, "call", [inhand EXCEPT !.act = First(inhand)])
  BY <1>2 DEF Acted
<1>7. /\ FilesOK(ledger', shown')
      /\ ledger'[p] = IF ledger[p].state = "pending" THEN e ELSE ledger[p]
      /\ \A q \in Posts \ {p} : ledger'[q] = ledger[q]
  BY <1>1, <1>3, <1>4, <1>6, SavedFile
<1>8. /\ WorkersOK' /\ mpc'[w] \in {"idle", "call"}
      /\ mpc'[w] = "call" => turn'[w].post = p /\ turn'[w].acts = t.acts \cup {b}
      /\ \A o \in Workers \ {w} : mpc'[o] = mpc[o] /\ turn'[o] = turn[o]
  <2>1. CASE Steps(w, "idle", NoTurn)
    BY <1>1, <2>1, DoneType
  <2>2. CASE Wanted(inhand) # {} /\ Steps(w, "call", [inhand EXCEPT !.act = First(inhand)])
    <3>1. PICK u : u = [inhand EXCEPT !.act = First(inhand)]
      OBVIOUS
    <3>2. First(inhand) \in Acts \ inhand.acts
      BY <1>5, <2>2, FirstWanted
    <3>3. u \in MirrorTurns /\ u.post = p /\ u.acts = inhand.acts /\ u.act \in Acts \ u.acts
      BY <1>5, <3>1, <3>2 DEF MirrorTurns
    <3>4. Steps(w, "call", u) /\ Handy("call", u)
      BY <1>3, <2>2, <3>1, <3>3 DEF Handy
    <3> QED BY <1>1, <1>5, <3>3, <3>4, StepsType DEF MirrorPlaces
  <2> QED BY <1>6, <2>1, <2>2
<1>9. /\ InHand(w, p) /\ \A q \in Posts, a \in Acts : DidAct(w, q, a) => q = p /\ a = b
      /\ \A q \in Posts : InHand(w, q)' => q = p
      /\ \A o \in Workers \ {w}, q \in Posts :
           /\ InHand(o, q)' <=> InHand(o, q)
           /\ \A a \in Acts : DidAct(o, q, a)' <=> DidAct(o, q, a)
  BY <1>1, <1>2, <1>8 DEF InHand, DidAct
<1>10. Alone'
  BY <1>1, <1>9 DEF OnceInv, Alone
<1>11. ASSUME NEW q \in Posts PROVE RowOK(ledger, shown, q)'
  <2>1. RowOK(ledger, shown, q)
    BY <1>1 DEF OnceInv
  <2>2. /\ ledger'[q].state = "unseen" => ledger[q].state = "unseen" /\ q # p
        /\ ledger'[q].state = "pending" =>
             /\ ledger[q].state = "pending" /\ ledger[q].acts \subseteq ledger'[q].acts
             /\ q = p => b \in ledger'[q].acts
    BY <1>4, <1>6, <1>7, <1>9, <2>1 DEF RowOK
  <2>3. ASSUME NEW a \in Acts, ledger'[q].state = "pending",
               a \notin ledger'[q].acts, a \notin excused[q]
        PROVE  a \notin shown[q] /\ (calls[q][a] = 0 \/ \E o \in Workers : DidAct(o, q, a)')
    BY <1>9, <2>1, <2>2, <2>3 DEF RowOK
  <2> QED BY <1>1, <1>9, <2>1, <2>2, <2>3 DEF RowOK
<1>12. ASSUME NEW q \in Posts, NEW o \in Workers PROVE HandOK(shown, o, q)'
  <2>1. HandOK(shown, o, q)
    BY <1>1 DEF OnceInv
  <2>2. CASE o # w
    BY <1>1, <1>8, <1>9, <2>1, <2>2 DEF HandOK
  <2>3. CASE o = w
    BY <1>1, <1>2, <1>8, <1>9, <2>1, <2>3 DEF HandOK, InHand
  <2> QED BY <2>2, <2>3
<1>13. MirrorTyped'
  BY <1>1, <1>7, <1>8 DEF MirrorTyped, WorldOK, FilesOK
<1> QED BY <1>10, <1>11, <1>12, <1>13 DEF MirrorInv, OnceInv

LEMMA FailedStep ==
  ASSUME MirrorInv, NEW w \in Workers, ActFailed(w)
  PROVE  MirrorInv'
<1>1. /\ FilesOK(ledger, shown) /\ WorkersOK /\ WorldOK /\ OnceInv(ledger, shown)
      /\ mpc[w] = "answer" /\ turn[w].res # "ok" /\ Steps(w, "idle", NoTurn)
      /\ UNCHANGED <<mirror, published, network, calls, shown, excused, faults>>
  BY DEF MirrorInv, MirrorTyped, ActFailed
<1>2. PICK p \in Posts : p = turn[w].post /\ ledger' = Save(p, Failed(ledger[p]))
  BY <1>1 DEF ActFailed, WorkersOK, Handy
<1>3. ledger[p].state = "pending" =>
        /\ EntryOK(Failed(ledger[p])) /\ Failed(ledger[p]).state # "unseen"
        /\ Failed(ledger[p]).acts = ledger[p].acts
  BY <1>1, FailedEntry DEF FilesOK
<1>4. /\ FilesOK(ledger', shown')
      /\ ledger'[p] = IF ledger[p].state = "pending" THEN Failed(ledger[p]) ELSE ledger[p]
      /\ \A q \in Posts \ {p} : ledger'[q] = ledger[q]
  BY <1>1, <1>2, <1>3, SavedFile
<1>5. \A q \in Posts : \/ ledger'[q].state = "done"
                       \/ ledger'[q].state = ledger[q].state /\ ledger'[q].acts = ledger[q].acts
  BY <1>3, <1>4 DEF FilesOK, EntryOK, Entries
<1>6. /\ WorkersOK' /\ mpc'[w] = "idle"
      /\ \A o \in Workers \ {w} : mpc'[o] = mpc[o] /\ turn'[o] = turn[o]
  BY <1>1, DoneType
<1>7. \A o \in Workers, q \in Posts :
        /\ InHand(o, q)' => InHand(o, q) /\ mpc'[o] = mpc[o] /\ turn'[o] = turn[o]
        /\ \A a \in Acts : DidAct(o, q, a) => DidAct(o, q, a)'
  BY <1>1, <1>6 DEF InHand, DidAct
<1>8. OnceInv(ledger, shown)'
  BY <1>1, <1>5, <1>7, Elsewhere
<1>9. MirrorTyped'
  BY <1>1, <1>4, <1>6 DEF MirrorTyped, WorldOK, FilesOK
<1> QED BY <1>8, <1>9 DEF MirrorInv

LEMMA CrashStep ==
  ASSUME MirrorInv, NEW w \in Workers, MirrorCrash(w)
  PROVE  MirrorInv'
<1>1. /\ FilesOK(ledger, shown) /\ WorkersOK /\ WorldOK /\ OnceInv(ledger, shown)
      /\ Fault /\ Steps(w, "idle", NoTurn)
      /\ UNCHANGED <<mirror, published, network, ledger, calls, shown>>
  BY DEF MirrorInv, MirrorTyped, MirrorCrash
<1>2. /\ excused' \in [Posts -> SUBSET Acts] /\ \A q \in Posts : excused[q] \subseteq excused'[q]
      /\ mpc[w] = "answer" /\ turn[w].res = "ok" => turn[w].act \in excused'[turn[w].post]
  BY <1>1 DEF MirrorCrash, WorldOK, WorkersOK, Handy, Landed
<1>3. /\ WorkersOK' /\ mpc'[w] = "idle"
      /\ \A o \in Workers \ {w} : mpc'[o] = mpc[o] /\ turn'[o] = turn[o]
  BY <1>1, DoneType
<1>4. \A o \in Workers, q \in Posts :
        /\ InHand(o, q)' => InHand(o, q) /\ mpc'[o] = mpc[o] /\ turn'[o] = turn[o]
        /\ \A a \in Acts : DidAct(o, q, a) => DidAct(o, q, a)' \/ a \in excused'[q]
  BY <1>2, <1>3 DEF InHand, DidAct
<1>5. OnceInv(ledger, shown)'
  BY <1>1, <1>2, <1>4, Elsewhere
<1>6. faults' \in 0..MaxFaults
  BY <1>1, JobsAssumption DEF Fault, WorldOK
<1> QED BY <1>1, <1>2, <1>3, <1>5, <1>6 DEF MirrorInv, MirrorTyped, WorldOK, FilesOK

(* What happens around the workers *)
LEMMA AroundStep ==
  ASSUME MirrorInv, UNCHANGED <<mpc, turn, calls, shown, excused, faults>>,
         mirror' \in SUBSET Acts, published' \subseteq Posts, network' \in [Posts -> SUBSET Acts],
         FilesOK(ledger', shown'),
         \A p \in Posts : ledger'[p].state = ledger[p].state /\ ledger'[p].acts = ledger[p].acts
  PROVE  MirrorInv'
<1>1. OnceInv(ledger, shown)'
  BY Elsewhere DEF MirrorInv, InHand, DidAct
<1>2. MirrorTyped'
  BY DEF MirrorInv, MirrorTyped, WorkersOK, WorldOK, FilesOK
<1> QED BY <1>1, <1>2 DEF MirrorInv

LEMMA DueStep ==
  ASSUME MirrorInv, NEW p \in Posts, ComesDue(p)
  PROVE  MirrorInv'
<1>1. /\ FilesOK(ledger, shown) /\ WorldOK /\ ledger' = [ledger EXCEPT ![p].due = TRUE]
      /\ UNCHANGED <<mirror, published, network, mpc, turn, calls, shown, excused, faults>>
  BY DEF MirrorInv, MirrorTyped, ComesDue
<1>2. PICK e : e = [ledger[p] EXCEPT !.due = TRUE]
  OBVIOUS
<1>3. EntryOK(e) /\ e.state = ledger[p].state /\ e.acts = ledger[p].acts
  BY <1>1, <1>2 DEF FilesOK, EntryOK, Entries
<1>4. /\ DOMAIN ledger' = Posts /\ ledger' = [q \in Posts |-> ledger'[q]]
      /\ ledger'[p] = e /\ \A q \in Posts \ {p} : ledger'[q] = ledger[q]
  BY <1>1, <1>2 DEF FilesOK
<1>5. FilesOK(ledger', shown')
  BY <1>1, <1>3, <1>4 DEF FilesOK
<1> QED BY <1>1, <1>3, <1>4, <1>5, AroundStep DEF WorldOK

LEMMA MirrorInvStep == MirrorInv /\ [MirrorNext]_<<mirrorVars, faults>> => MirrorInv'
<1> SUFFICES ASSUME MirrorInv, [MirrorNext]_<<mirrorVars, faults>> PROVE MirrorInv'
  OBVIOUS
<1>1. ASSUME NEW w \in Workers,
             \/ MirrorTurn(w) \/ AuthorFeed(w) \/ ReadFeed(w) \/ Act(w)
             \/ Acted(w) \/ ActFailed(w) \/ MirrorCrash(w)
      PROVE  MirrorInv'
  BY <1>1, TurnStep, FeedStep, ReadStep, ActStep, ActedStep, FailedStep, CrashStep
<1>2. ASSUME NEW p \in Posts, Publish(p) PROVE MirrorInv'
  BY <1>2, AroundStep DEF Publish, MirrorInv, MirrorTyped, WorldOK, FilesOK
<1>3. ASSUME NEW p \in Posts, NEW a \in Acts, ByHand(p, a) PROVE MirrorInv'
  BY <1>3, AroundStep DEF ByHand, MirrorInv, MirrorTyped, WorldOK, FilesOK
<1>4. ASSUME NEW cfg \in SUBSET Acts, SetMirror(cfg) PROVE MirrorInv'
  BY <1>4, AroundStep DEF SetMirror, MirrorInv, MirrorTyped, WorldOK, FilesOK
<1>5. CASE UNCHANGED <<mirrorVars, faults>>
  BY <1>5, AroundStep DEF mirrorVars, MirrorInv, MirrorTyped, WorldOK, FilesOK
<1> QED BY <1>1, <1>2, <1>3, <1>4, <1>5, DueStep DEF MirrorNext

LEMMA MirrorInvAlways == MirrorSpec => []MirrorInv
<1>1. faults = 0 /\ MirrorInit => MirrorInv
  BY MirrorInvInit
<1> QED BY <1>1, MirrorInvStep, PTL DEF MirrorSpec

(* For any number of posts, workers and faults every variable keeps its     *)
(* type, and a pending post has attempts left.                              *)
THEOREM MirrorTypeCorrect == MirrorSpec => []MirrorTypeOK
<1>1. MirrorInv => MirrorTypeOK
  BY MirrorTypedIsType DEF MirrorInv
<1> QED BY <1>1, MirrorInvAlways, PTL

(* However often the setting changes, an act fails, a worker dies or two of *)
(* them read the same file: a post is reposted once and liked once, unless  *)
(* nobody could know.                                                       *)
THEOREM ActedOnOnce == MirrorSpec => []MirroredOnce
<1>1. MirrorInv => MirroredOnce
  BY DEF MirrorInv, OnceInv, RowOK, MirroredOnce
<1> QED BY <1>1, MirrorInvAlways, PTL

(***************************************************************************)
(* An account gets one copy of an issue, for any number of accounts,       *)
(* workers, attempts and faults (WebCopies).                               *)
(*                                                                         *)
(* What was read of an account in hand is still what is recorded, and the  *)
(* record says whether the account took the copy, but for a worker that    *)
(* has yet to record its answer (CopyOK); an account is in one hand, and   *)
(* in no hand that forces the copy, or nobody can know (OneHand).          *)
(***************************************************************************)
Attempts == [ok : BOOLEAN, tries : Nat]
WebPlaces == {"idle", "open", "next", "answer"}
WebJobs == [earlier : {<<>>} \cup [Blogs -> Attempts], todo : SUBSET Blogs,
            blog : Blogs \cup {"none"}, force : BOOLEAN, daemon : BOOLEAN,
            res : Outcomes \cup {"none"}]

(* What a worker's place says of its job *)
JobOK(where, j) ==
  /\ where # "idle" => Blogs # {}
  /\ where \in {"next", "answer"} => j.earlier \in [Blogs -> Attempts]
  /\ where = "answer" => j.blog \in Blogs /\ j.res \in Outcomes

WebWorkersOK ==
  /\ wpc \in [Workers -> WebPlaces] /\ job \in [Workers -> WebJobs]
  /\ \A w \in Workers : JobOK(wpc[w], job[w])

WebWorldOK ==
  /\ out \in BOOLEAN /\ offLimits \subseteq Blogs /\ unsure \subseteq Blogs
  /\ copy \in [Blogs -> Attempts] /\ byHand \in 0..MaxByHand
  /\ landed \in [Blogs -> 0..2] /\ tried \in [Blogs -> 0..(MaxTries + 1)]

(* The account is still to come, or its answer is *)
ToCome(w, b) == wpc[w] # "idle" /\ b \in job[w].todo
Answering(w, b) == wpc[w] = "answer" /\ b = job[w].blog
BlogInHand(w, b) == ToCome(w, b) \/ Answering(w, b)

OneHand(b) ==
  /\ \A w, o \in Workers : BlogInHand(w, b) /\ BlogInHand(o, b) => w = o
  /\ \A w \in Workers : BlogInHand(w, b) => ~job[w].force
  /\ \A w \in Workers : Answering(w, b) => b \notin job[w].todo

ReadOK(b) ==
  \A w \in Workers : BlogInHand(w, b) =>
    /\ wpc[w] # "open" => job[w].earlier[b] = copy[b]
    /\ job[w].daemon /\ ToCome(w, b) => copy[b].tries < MaxTries

AnswerOK(b) ==
  \A w \in Workers : Answering(w, b) =>
    /\ ~copy[b].ok /\ landed[b] = (IF job[w].res = "ok" THEN 1 ELSE 0)
    /\ tried[b] <= copy[b].tries + 1

Settled(b) ==
  (\A w \in Workers : ~Answering(w, b)) =>
    landed[b] = (IF copy[b].ok THEN 1 ELSE 0) /\ tried[b] <= copy[b].tries

CopyOK(b) == ReadOK(b) /\ AnswerOK(b) /\ Settled(b) /\ tried[b] <= MaxTries

WebInv ==
  /\ WebWorkersOK /\ WebWorldOK
  /\ \A b \in Blogs \ unsure : OneHand(b) /\ CopyOK(b)

LEMMA NoJobType == NoJob \in WebJobs /\ JobOK("idle", NoJob)
BY DEF NoJob, WebJobs, JobOK

LEMMA AttemptsNotEmpty ==
  ASSUME Blogs # {}, NEW f \in [Blogs -> Attempts]
  PROVE  f # <<>>
<1>1. DOMAIN <<>> = {}
  OBVIOUS
<1> QED BY <1>1

LEMMA WebInvIsType == WebInv => WebTypeOK
<1> SUFFICES ASSUME WebInv PROVE WebTypeOK
  OBVIOUS
<1>1. \A w \in Workers : wpc[w] \in {"next", "answer"} => job[w].earlier # <<>>
  BY AttemptsNotEmpty DEF WebInv, WebWorkersOK, JobOK, WebJobs
<1> QED BY <1>1 DEF WebInv, WebWorkersOK, WebWorldOK, JobOK, WebTypeOK, WebPlaces, WebJobs, Attempts

LEMMA WebInvInit == faults = 0 /\ WebInit => WebInv
<1> SUFFICES ASSUME WebInit PROVE WebInv
  OBVIOUS
<1>1. \A w \in Workers : wpc[w] = "idle" /\ job[w] = NoJob
  BY DEF WebInit
<1>2. WebWorkersOK
  BY <1>1, NoJobType DEF WebInit, WebWorkersOK, WebPlaces
<1>3. WebWorldOK
  <2>1. 0 \in 0..2 /\ 0 \in 0..(MaxTries + 1) /\ 0 \in 0..MaxByHand /\ Never \in Attempts
    BY WebAssumption DEF Never, Attempts
  <2> QED BY <2>1 DEF WebInit, WebWorldOK
<1>4. \A w \in Workers, b \in Blogs : ~BlogInHand(w, b) /\ ~Answering(w, b)
  BY <1>1 DEF BlogInHand, ToCome, Answering
<1>5. \A b \in Blogs : OneHand(b) /\ CopyOK(b)
  BY <1>4, WebAssumption DEF WebInit, OneHand, CopyOK, ReadOK, AnswerOK, Settled, Never
<1> QED BY <1>2, <1>3, <1>5 DEF WebInv

LEMMA AtType ==
  ASSUME WebWorkersOK, NEW w \in Workers, NEW where \in WebPlaces, NEW j \in WebJobs,
         JobOK(where, j), At(w, where, j)
  PROVE  /\ WebWorkersOK' /\ wpc'[w] = where /\ job'[w] = j
         /\ \A o \in Workers \ {w} : wpc'[o] = wpc[o] /\ job'[o] = job[o]
BY DEF WebWorkersOK, At

(* A worker that has no account in hand leaves what is said of all alone *)
LEMMA NothingMoves ==
  ASSUME NEW b, OneHand(b), CopyOK(b), NEW w \in Workers,
         \A o \in Workers \ {w} : wpc'[o] = wpc[o] /\ job'[o] = job[o],
         ~BlogInHand(w, b)', ~Answering(w, b),
         copy'[b] = copy[b], landed'[b] = landed[b], tried'[b] = tried[b]
  PROVE  OneHand(b)' /\ CopyOK(b)'
BY DEF OneHand, CopyOK, ReadOK, AnswerOK, Settled, BlogInHand, ToCome, Answering

(* A worker takes up some accounts: those another has in hand, and those it *)
(* forces, nobody knows of                                                  *)
LEMMA TakesUp ==
  ASSUME WebInv, NEW w \in Workers, NEW j \in WebJobs, wpc[w] = "idle", At(w, "open", j),
         j.todo # {}, j.todo \subseteq Blogs, unsure' \in SUBSET Blogs, unsure \subseteq unsure',
         \A b \in j.todo \ unsure' :
           b \notin Others(w) /\ ~j.force /\ (j.daemon => copy[b].tries < MaxTries),
         byHand' \in 0..MaxByHand, UNCHANGED <<out, copy, offLimits, landed, tried>>
  PROVE  WebInv'
<1>1. WebWorkersOK /\ WebWorldOK
  BY DEF WebInv
<1>2. /\ WebWorkersOK' /\ wpc'[w] = "open" /\ job'[w] = j
      /\ \A o \in Workers \ {w} : wpc'[o] = wpc[o] /\ job'[o] = job[o]
  BY <1>1, AtType DEF JobOK, WebPlaces
<1>3. ASSUME NEW b \in Blogs \ unsure' PROVE OneHand(b)' /\ CopyOK(b)'
  <2>1. OneHand(b) /\ CopyOK(b)
    BY <1>3 DEF WebInv
  <2>2. CASE b \notin j.todo
    <3>1. ~BlogInHand(w, b)' /\ ~Answering(w, b)
      BY <2>2, <1>2 DEF BlogInHand, ToCome, Answering
    <3> QED BY <3>1, <2>1, <1>2, NothingMoves
  <2>3. CASE b \in j.todo
    <3>1. \A o \in Workers \ {w} : ~BlogInHand(o, b) /\ ~BlogInHand(o, b)'
      BY <1>2, <2>3, <1>3 DEF Others, BlogInHand, ToCome, Answering
    <3>2. BlogInHand(w, b)' /\ ~Answering(w, b)' /\ ~Answering(w, b)
      BY <1>2, <2>3 DEF BlogInHand, ToCome, Answering
    <3>3. \A o \in Workers : ~Answering(o, b) /\ ~Answering(o, b)'
      BY <3>1, <3>2 DEF BlogInHand
    <3> QED BY <1>2, <1>3, <2>1, <2>3, <3>1, <3>2, <3>3 DEF OneHand, CopyOK, ReadOK, AnswerOK, Settled
  <2> QED BY <2>2, <2>3
<1>4. WebWorldOK'
  BY <1>1 DEF WebWorldOK
<1> QED BY <1>2, <1>3, <1>4 DEF WebInv

LEMMA PublishDueStep ==
  ASSUME WebInv, NEW w \in Workers, PublishDue(w)
  PROVE  WebInv'
<1>1. PICK j : j = [NoJob EXCEPT !.todo = Owed, !.daemon = TRUE]
  OBVIOUS
<1>2. j \in WebJobs /\ j.todo = Owed /\ ~j.force
  BY <1>1, NoJobType DEF NoJob, WebJobs, Owed
<1>3. unsure' \in SUBSET Blogs /\ unsure \subseteq unsure'
  BY DEF PublishDue, Owed, WebInv, WebWorldOK
<1>4. \A b \in j.todo \ unsure' : b \notin Others(w) /\ copy[b].tries < MaxTries
  BY <1>2 DEF PublishDue, Owed
<1>5. /\ wpc[w] = "idle" /\ At(w, "open", j) /\ j.todo # {} /\ j.todo \subseteq Blogs
      /\ UNCHANGED <<out, copy, offLimits, byHand, landed, tried>>
  BY <1>1, <1>2 DEF PublishDue, Owed
<1>6. byHand' \in 0..MaxByHand
  BY <1>5 DEF WebInv, WebWorldOK
<1> QED BY <1>2, <1>3, <1>4, <1>5, <1>6, TakesUp

LEMMA PublishByHandStep ==
  ASSUME WebInv, NEW w \in Workers, NEW to \in SUBSET Blogs, NEW force \in BOOLEAN,
         PublishByHand(w, to, force)
  PROVE  WebInv'
<1>1. PICK j : j = [NoJob EXCEPT !.todo = to, !.force = force]
  OBVIOUS
<1>2. j \in WebJobs /\ j.todo = to /\ j.force = force /\ ~j.daemon
  BY <1>1, NoJobType DEF NoJob, WebJobs
<1>3. unsure' \in SUBSET Blogs /\ unsure \subseteq unsure'
  BY DEF PublishByHand, WebInv, WebWorldOK
<1>4. \A b \in j.todo \ unsure' : b \notin Others(w) /\ ~j.force
  BY <1>2 DEF PublishByHand
<1>5. /\ wpc[w] = "idle" /\ At(w, "open", j) /\ j.todo # {} /\ j.todo \subseteq Blogs
      /\ UNCHANGED <<out, copy, offLimits, landed, tried>>
  BY <1>1, <1>2 DEF PublishByHand
<1>6. byHand' \in 0..MaxByHand
  BY WebAssumption DEF PublishByHand, WebInv, WebWorldOK
<1> QED BY <1>2, <1>3, <1>4, <1>5, <1>6, TakesUp

LEMMA OpenStep ==
  ASSUME WebInv, NEW w \in Workers, Open(w)
  PROVE  WebInv'
<1>1. WebWorkersOK /\ WebWorldOK /\ wpc[w] = "open" /\ JobOK(wpc[w], job[w]) /\ job[w] \in WebJobs
  BY DEF WebInv, WebWorkersOK, Open
<1>2. PICK j : j = [job[w] EXCEPT !.earlier = copy]
  OBVIOUS
<1>3. /\ j \in WebJobs /\ j.earlier = copy /\ j.todo = job[w].todo /\ j.force = job[w].force
      /\ j.daemon = job[w].daemon /\ JobOK("next", j)
  BY <1>1, <1>2 DEF WebJobs, JobOK, WebWorldOK
<1>4. /\ At(w, "next", j)
      /\ UNCHANGED <<out, copy, offLimits, byHand, landed, tried, unsure, faults>>
  BY <1>2 DEF Open
<1>5. /\ WebWorkersOK' /\ wpc'[w] = "next" /\ job'[w] = j
      /\ \A o \in Workers \ {w} : wpc'[o] = wpc[o] /\ job'[o] = job[o]
  BY <1>1, <1>3, <1>4, AtType DEF WebPlaces
<1>6. ASSUME NEW b \in Blogs \ unsure' PROVE OneHand(b)' /\ CopyOK(b)'
  <2>1. OneHand(b) /\ CopyOK(b)
    BY <1>4, <1>6 DEF WebInv
  <2>2. \A o \in Workers : /\ BlogInHand(o, b)' <=> BlogInHand(o, b)
                           /\ Answering(o, b)' <=> Answering(o, b)
                           /\ ToCome(o, b)' <=> ToCome(o, b)
                           /\ job'[o].force = job[o].force /\ job'[o].daemon = job[o].daemon
                           /\ job'[o].todo = job[o].todo
    BY <1>1, <1>3, <1>5 DEF BlogInHand, ToCome, Answering
  <2>3. ~Answering(w, b) /\ ~Answering(w, b)'
    BY <1>1, <1>5 DEF Answering
  <2>4. \A o \in Workers \ {w} : job'[o] = job[o] /\ wpc'[o] = wpc[o]
    BY <1>5
  <2>5. OneHand(b)'
    BY <2>1, <2>2 DEF OneHand
  <2>6. CopyOK(b)'
    BY <1>3, <1>4, <1>5, <2>1, <2>2, <2>3, <2>4 DEF CopyOK, ReadOK, AnswerOK, Settled
  <2> QED BY <2>5, <2>6
<1>7. WebWorldOK'
  BY <1>1, <1>4 DEF WebWorldOK
<1> QED BY <1>5, <1>6, <1>7 DEF WebInv

(* The next account of a turn: none is left *)
LEMMA NoBlogStep ==
  ASSUME WebInv, NEW w \in Workers, wpc[w] = "next", job[w].todo = {}, At(w, "idle", NoJob),
         UNCHANGED <<out, copy, offLimits, byHand, landed, tried, unsure>>
  PROVE  WebInv'
<1>1. WebWorkersOK /\ WebWorldOK
  BY DEF WebInv
<1>2. /\ WebWorkersOK' /\ wpc'[w] = "idle"
      /\ \A o \in Workers \ {w} : wpc'[o] = wpc[o] /\ job'[o] = job[o]
  BY <1>1, NoJobType, AtType DEF WebPlaces
<1>3. ASSUME NEW b \in Blogs \ unsure' PROVE OneHand(b)' /\ CopyOK(b)'
  <2>1. OneHand(b) /\ CopyOK(b)
    BY <1>3 DEF WebInv
  <2>2. ~BlogInHand(w, b)' /\ ~Answering(w, b)
    BY <1>2 DEF BlogInHand, ToCome, Answering
  <2> QED BY <1>2, <2>1, <2>2, NothingMoves
<1> QED BY <1>1, <1>2, <1>3 DEF WebInv, WebWorldOK

(* It is passed over *)
LEMMA PassBlogStep ==
  ASSUME WebInv, NEW w \in Workers, wpc[w] = "next", NEW c \in job[w].todo,
         At(w, "next", [job[w] EXCEPT !.todo = @ \ {c}]),
         UNCHANGED <<out, copy, offLimits, byHand, landed, tried, unsure>>
  PROVE  WebInv'
<1>1. WebWorkersOK /\ WebWorldOK /\ JobOK(wpc[w], job[w]) /\ job[w] \in WebJobs
  BY DEF WebInv, WebWorkersOK
<1>2. PICK j : j = [job[w] EXCEPT !.todo = @ \ {c}]
  OBVIOUS
<1>3. /\ j \in WebJobs /\ j.todo = job[w].todo \ {c} /\ j.force = job[w].force
      /\ j.daemon = job[w].daemon /\ j.earlier = job[w].earlier /\ JobOK("next", j)
  BY <1>1, <1>2 DEF WebJobs, JobOK
<1>4. /\ WebWorkersOK' /\ wpc'[w] = "next" /\ job'[w] = j
      /\ \A o \in Workers \ {w} : wpc'[o] = wpc[o] /\ job'[o] = job[o]
  BY <1>1, <1>2, <1>3, AtType DEF WebPlaces
<1>5. ASSUME NEW b \in Blogs \ unsure' PROVE OneHand(b)' /\ CopyOK(b)'
  <2>1. OneHand(b) /\ CopyOK(b)
    BY <1>5 DEF WebInv
  <2>2. \A o \in Workers : /\ BlogInHand(o, b)' => BlogInHand(o, b)
                           /\ Answering(o, b)' <=> Answering(o, b)
                           /\ ToCome(o, b)' => ToCome(o, b)
                           /\ job'[o].force = job[o].force /\ job'[o].daemon = job[o].daemon
                           /\ job'[o].todo \subseteq job[o].todo /\ job'[o].earlier = job[o].earlier
    BY <1>3, <1>4 DEF BlogInHand, ToCome, Answering
  <2>3. ~Answering(w, b) /\ ~Answering(w, b)'
    BY <1>4 DEF Answering
  <2>4. \A o \in Workers : wpc'[o] = wpc[o] /\ (o # w => job'[o] = job[o])
    BY <1>4
  <2>5. OneHand(b)'
    BY <2>1, <2>2 DEF OneHand
  <2>6. CopyOK(b)'
    BY <2>1, <2>2, <2>3, <2>4 DEF CopyOK, ReadOK, AnswerOK, Settled
  <2> QED BY <2>5, <2>6
<1> QED BY <1>1, <1>4, <1>5 DEF WebInv, WebWorldOK

(* It is called *)
LEMMA CallBlogStep ==
  ASSUME WebInv, NEW w \in Workers, wpc[w] = "next", NEW c \in job[w].todo,
         ~job[w].earlier[c].ok \/ job[w].force, NEW res \in Outcomes,
         At(w, "answer", [job[w] EXCEPT !.todo = @ \ {c}, !.blog = c, !.res = res]),
         landed' = IF Landed(res) /\ landed[c] < 2
                   THEN [landed EXCEPT ![c] = @ + 1] ELSE landed,
         unsure' = IF res = "lost" THEN unsure \cup {c} ELSE unsure,
         tried' = IF job[w].daemon /\ tried[c] <= MaxTries
                  THEN [tried EXCEPT ![c] = @ + 1] ELSE tried,
         UNCHANGED <<out, copy, offLimits, byHand>>
  PROVE  WebInv'
<1>1. WebWorkersOK /\ WebWorldOK /\ JobOK(wpc[w], job[w]) /\ job[w] \in WebJobs /\ c \in Blogs
  BY DEF WebInv, WebWorkersOK, WebJobs
<1>2. PICK j : j = [job[w] EXCEPT !.todo = @ \ {c}, !.blog = c, !.res = res]
  OBVIOUS
<1>3. /\ j \in WebJobs /\ j.todo = job[w].todo \ {c} /\ j.force = job[w].force
      /\ j.daemon = job[w].daemon /\ j.earlier = job[w].earlier /\ j.blog = c /\ j.res = res
      /\ JobOK("answer", j)
  BY <1>1, <1>2 DEF WebJobs, JobOK
<1>4. /\ WebWorkersOK' /\ wpc'[w] = "answer" /\ job'[w] = j
      /\ \A o \in Workers \ {w} : wpc'[o] = wpc[o] /\ job'[o] = job[o]
  BY <1>1, <1>2, <1>3, AtType DEF WebPlaces
<1>5. /\ landed' \in [Blogs -> 0..2] /\ \A b \in Blogs \ {c} : landed'[b] = landed[b]
      /\ landed'[c] = IF Landed(res) /\ landed[c] < 2 THEN landed[c] + 1 ELSE landed[c]
  BY <1>1 DEF WebWorldOK
<1>6. /\ tried' \in [Blogs -> 0..(MaxTries + 1)] /\ \A b \in Blogs \ {c} : tried'[b] = tried[b]
      /\ tried'[c] = IF job[w].daemon /\ tried[c] <= MaxTries THEN tried[c] + 1 ELSE tried[c]
  BY <1>1, WebAssumption DEF WebWorldOK
<1>7. unsure \subseteq unsure' /\ unsure' \subseteq Blogs
  BY <1>1 DEF WebWorldOK
<1>8. WebWorldOK'
  BY <1>1, <1>5, <1>6, <1>7 DEF WebWorldOK
<1>9. ASSUME NEW b \in Blogs \ unsure' PROVE OneHand(b)' /\ CopyOK(b)'
  <2>1. OneHand(b) /\ CopyOK(b) /\ b \notin unsure
    BY <1>7, <1>9 DEF WebInv
  <2>2. \A o \in Workers : /\ BlogInHand(o, b)' <=> BlogInHand(o, b)
                           /\ job'[o].force = job[o].force /\ job'[o].daemon = job[o].daemon
                           /\ job'[o].todo \subseteq job[o].todo /\ job'[o].earlier = job[o].earlier
                           /\ ToCome(o, b)' => ToCome(o, b)
    BY <1>3, <1>4 DEF BlogInHand, ToCome, Answering
  <2>3. \A o \in Workers \ {w} : wpc'[o] = wpc[o] /\ job'[o] = job[o]
                                 /\ (Answering(o, b)' <=> Answering(o, b))
    BY <1>4 DEF Answering
  <2>4. /\ ~Answering(w, b) /\ (Answering(w, b)' <=> b = c)
        /\ Answering(w, b)' => b \notin job'[w].todo
    BY <1>3, <1>4 DEF Answering
  <2>5. OneHand(b)'
    BY <2>1, <2>2, <2>3, <2>4 DEF OneHand
  <2>6. CASE b # c
    <3>1. landed'[b] = landed[b] /\ tried'[b] = tried[b] /\ copy'[b] = copy[b]
      BY <1>5, <1>6, <2>6
    <3>2. \A o \in Workers : /\ Answering(o, b)' <=> Answering(o, b)
                             /\ Answering(o, b) => job'[o] = job[o]
                             /\ BlogInHand(o, b) => (wpc'[o] = "open" <=> wpc[o] = "open")
      BY <1>4, <2>3, <2>4, <2>6
    <3>3. ReadOK(b)'
      BY <2>1, <2>2, <3>1, <3>2 DEF CopyOK, ReadOK
    <3>4. AnswerOK(b)'
      BY <2>1, <3>1, <3>2 DEF CopyOK, AnswerOK
    <3>5. Settled(b)' /\ tried'[b] <= MaxTries
      BY <2>1, <3>1, <3>2 DEF CopyOK, Settled
    <3> QED BY <2>5, <3>3, <3>4, <3>5 DEF CopyOK
  <2>7. CASE b = c
    <3>1. BlogInHand(w, c) /\ ToCome(w, c) /\ ~job[w].force
      BY <2>1, <2>7 DEF OneHand, BlogInHand, ToCome
    <3>2. \A o \in Workers : ~Answering(o, c)
      BY <2>1, <2>4, <2>7, <3>1 DEF OneHand, BlogInHand
    <3>3. job[w].earlier[c] = copy[c] /\ ~copy[c].ok /\ landed[c] = 0 /\ tried[c] <= copy[c].tries
      BY <2>1, <2>7, <3>1, <3>2 DEF CopyOK, ReadOK, AnswerOK, Settled
    <3>4. job[w].daemon => copy[c].tries < MaxTries
      BY <2>1, <2>7, <3>1 DEF CopyOK, ReadOK, AnswerOK, Settled
    <3>5. landed'[c] = (IF job'[w].res = "ok" THEN 1 ELSE 0)
      BY <1>3, <1>4, <1>5, <1>9, <2>7, <3>3 DEF Landed
    <3>6. copy[c].tries \in Nat /\ tried[c] \in Nat /\ MaxTries \in Nat
      BY <1>1, WebAssumption DEF WebWorldOK, Attempts
    <3>7. tried'[c] <= copy[c].tries + 1 /\ tried'[c] <= MaxTries
      <4>1. tried[c] <= MaxTries
        BY <2>1, <2>7 DEF CopyOK, ReadOK, AnswerOK, Settled
      <4> QED BY <1>6, <3>3, <3>4, <3>6, <4>1
    <3>8. \A o \in Workers : BlogInHand(o, c)' => o = w
      BY <2>1, <2>2, <2>7, <3>1 DEF OneHand
    <3>9. Answering(w, c)' /\ ~ToCome(w, c)' /\ \A o \in Workers : Answering(o, c)' => o = w
      BY <1>3, <1>4, <2>7, <2>4, <3>8 DEF BlogInHand, ToCome
    <3>10. copy' = copy /\ job'[w].earlier[c] = copy[c]
      BY <2>2, <3>3
    <3>11. ReadOK(c)'
      BY <3>8, <3>9, <3>10 DEF ReadOK
    <3>12. AnswerOK(c)'
      BY <3>3, <3>5, <3>7, <3>9, <3>10 DEF AnswerOK
    <3>13. Settled(c)'
      BY <1>4, <3>9 DEF Settled
    <3> QED BY <2>5, <2>7, <3>7, <3>11, <3>12, <3>13 DEF CopyOK
  <2> QED BY <2>5, <2>6, <2>7
<1> QED BY <1>4, <1>8, <1>9 DEF WebInv

LEMMA NextBlogStep ==
  ASSUME WebInv, NEW w \in Workers, NextBlog(w)
  PROVE  WebInv'
<1>1. wpc[w] = "next" /\ UNCHANGED <<out, copy, offLimits, byHand>>
  BY DEF NextBlog
<1>2. CASE job[w].todo = {} /\ At(w, "idle", NoJob) /\ UNCHANGED <<landed, tried, unsure, faults>>
  BY <1>1, <1>2, NoBlogStep
<1>3. ASSUME NEW b \in job[w].todo, At(w, "next", [job[w] EXCEPT !.todo = @ \ {b}]),
             UNCHANGED <<landed, tried, unsure, faults>>
      PROVE  WebInv'
  BY <1>1, <1>3, PassBlogStep
<1>4. ASSUME NEW b \in job[w].todo, ~job[w].earlier[b].ok \/ job[w].force, NEW res \in Outcomes,
             At(w, "answer", [job[w] EXCEPT !.todo = @ \ {b}, !.blog = b, !.res = res]),
             landed' = IF Landed(res) /\ landed[b] < 2
                       THEN [landed EXCEPT ![b] = @ + 1] ELSE landed,
             unsure' = IF res = "lost" THEN unsure \cup {b} ELSE unsure,
             tried' = IF job[w].daemon /\ tried[b] <= MaxTries
                      THEN [tried EXCEPT ![b] = @ + 1] ELSE tried
      PROVE  WebInv'
  BY <1>1, <1>4, CallBlogStep
<1> QED BY <1>2, <1>3, <1>4 DEF NextBlog

LEMMA RecordStep ==
  ASSUME WebInv, NEW w \in Workers, Record(w)
  PROVE  WebInv'
<1>1. WebWorkersOK /\ WebWorldOK /\ wpc[w] = "answer" /\ JobOK(wpc[w], job[w]) /\ job[w] \in WebJobs
  BY DEF WebInv, WebWorkersOK, Record
<1>2. PICK c : c = job[w].blog
  OBVIOUS
<1>3. PICK try : try = Attempt(job[w].earlier[c], job[w].res)
  OBVIOUS
<1>4. /\ c \in Blogs /\ job[w].earlier \in [Blogs -> Attempts] /\ try \in Attempts
      /\ try.ok = (job[w].res = "ok") /\ try.tries = job[w].earlier[c].tries + 1
  BY <1>1, <1>2, <1>3 DEF JobOK, Attempt, Attempts
<1>5. PICK j : j = [job[w] EXCEPT !.earlier[c] = try, !.blog = "none", !.res = "none"]
  OBVIOUS
<1>6. /\ j.earlier = [job[w].earlier EXCEPT ![c] = try] /\ j.blog = "none" /\ j.res = "none"
      /\ j.todo = job[w].todo /\ j.force = job[w].force /\ j.daemon = job[w].daemon
  BY <1>1, <1>5 DEF WebJobs
<1>7. j \in WebJobs /\ JobOK("next", j)
  BY <1>1, <1>4, <1>5 DEF WebJobs, JobOK
<1>8. /\ copy' = [copy EXCEPT ![c] = try] /\ At(w, "next", j)
      /\ UNCHANGED <<out, offLimits, byHand, landed, tried, unsure, faults>>
  BY <1>2, <1>3, <1>5 DEF Record
<1>9. copy' \in [Blogs -> Attempts] /\ copy'[c] = try /\ \A b \in Blogs \ {c} : copy'[b] = copy[b]
  BY <1>1, <1>4, <1>8 DEF WebWorldOK
<1>10. /\ WebWorkersOK' /\ wpc'[w] = "next" /\ job'[w] = j
       /\ \A o \in Workers \ {w} : wpc'[o] = wpc[o] /\ job'[o] = job[o]
  BY <1>1, <1>7, <1>8, AtType DEF WebPlaces
<1>11. WebWorldOK'
  BY <1>1, <1>8, <1>9 DEF WebWorldOK
<1>12. ASSUME NEW b \in Blogs \ unsure' PROVE OneHand(b)' /\ CopyOK(b)'
  <2>1. OneHand(b) /\ CopyOK(b)
    BY <1>8, <1>12 DEF WebInv
  <2>2. \A o \in Workers : /\ BlogInHand(o, b)' => BlogInHand(o, b)
                           /\ ToCome(o, b)' => ToCome(o, b)
                           /\ Answering(o, b)' => Answering(o, b) /\ o # w
                           /\ job'[o].force = job[o].force /\ job'[o].daemon = job[o].daemon
                           /\ job'[o].todo = job[o].todo
    BY <1>1, <1>6, <1>10 DEF BlogInHand, ToCome, Answering
  <2>3. OneHand(b)'
    BY <2>1, <2>2 DEF OneHand
  <2>4. CASE b # c
    <3>1. landed'[b] = landed[b] /\ tried'[b] = tried[b] /\ copy'[b] = copy[b]
      BY <1>8, <1>9, <2>4
    <3>2. job'[w].earlier[b] = job[w].earlier[b] /\ wpc[w] # "open"
      BY <1>1, <1>4, <1>6, <1>10, <2>4
    <3>3. ~Answering(w, b)
      BY <1>2, <2>4 DEF Answering
    <3>4. \A o \in Workers \ {w} : /\ wpc'[o] = wpc[o] /\ job'[o] = job[o]
                                   /\ Answering(o, b)' <=> Answering(o, b)
      BY <1>10 DEF Answering
    <3>5. ReadOK(b)'
      BY <2>1, <2>2, <3>1, <3>2, <3>4 DEF CopyOK, ReadOK
    <3>6. AnswerOK(b)'
      BY <2>1, <2>2, <3>1, <3>4 DEF CopyOK, AnswerOK
    <3>7. Settled(b)' /\ tried'[b] <= MaxTries
      <4>1. (\A o \in Workers : ~Answering(o, b)') => \A o \in Workers : ~Answering(o, b)
        BY <3>3, <3>4
      <4> QED BY <2>1, <3>1, <4>1 DEF CopyOK, Settled
    <3> QED BY <2>3, <3>5, <3>6, <3>7 DEF CopyOK
  <2>5. CASE b = c
    <3>1. Answering(w, c) /\ BlogInHand(w, c) /\ ~ToCome(w, c)
      BY <1>1, <1>2, <2>1, <2>5 DEF Answering, BlogInHand, OneHand, ToCome
    <3>2. \A o \in Workers : ~BlogInHand(o, c)'
      <4>1. \A o \in Workers \ {w} : ~BlogInHand(o, c)
        BY <2>1, <2>5, <3>1 DEF OneHand
      <4>2. ~BlogInHand(w, c)'
        BY <1>6, <1>10, <3>1, <1>1 DEF BlogInHand, ToCome, Answering
      <4> QED BY <2>2, <2>5, <4>1, <4>2
    <3>3. \A o \in Workers : ~Answering(o, c)'
      BY <3>2 DEF BlogInHand
    <3>4. /\ job[w].earlier[c] = copy[c] /\ landed[c] = (IF job[w].res = "ok" THEN 1 ELSE 0)
          /\ tried[c] <= copy[c].tries + 1 /\ tried[c] <= MaxTries
      BY <1>1, <2>1, <2>5, <3>1 DEF CopyOK, ReadOK, AnswerOK, Settled
    <3>5. ReadOK(c)' /\ AnswerOK(c)'
      BY <3>2, <3>3 DEF ReadOK, AnswerOK
    <3>6. Settled(c)'
      BY <1>4, <1>8, <1>9, <3>4 DEF Settled
    <3>7. tried'[c] <= MaxTries
      BY <1>8, <3>4
    <3> QED BY <2>3, <2>5, <3>5, <3>6, <3>7 DEF CopyOK
  <2> QED BY <2>3, <2>4, <2>5
<1> QED BY <1>10, <1>11, <1>12 DEF WebInv

LEMMA WebCrashStep ==
  ASSUME WebInv, NEW w \in Workers, WebCrash(w)
  PROVE  WebInv'
<1>1. WebWorkersOK /\ WebWorldOK
  BY DEF WebInv
<1>2. /\ WebWorkersOK' /\ wpc'[w] = "idle"
      /\ \A o \in Workers \ {w} : wpc'[o] = wpc[o] /\ job'[o] = job[o]
  BY <1>1, NoJobType, AtType DEF WebPlaces, WebCrash
<1>3. unsure \subseteq unsure' /\ unsure' \subseteq Blogs
  BY <1>1 DEF WebCrash, WebWorldOK, WebWorkersOK, JobOK
<1>4. ASSUME NEW b \in Blogs \ unsure' PROVE OneHand(b)' /\ CopyOK(b)'
  <2>1. OneHand(b) /\ CopyOK(b)
    BY <1>3, <1>4 DEF WebInv
  <2>2. ~BlogInHand(w, b)' /\ ~Answering(w, b)
    BY <1>2, <1>4 DEF BlogInHand, ToCome, Answering, WebCrash
  <2> QED BY <1>2, <2>1, <2>2, NothingMoves DEF WebCrash
<1>5. WebWorldOK'
  BY <1>1, <1>3 DEF WebCrash, WebWorldOK
<1> QED BY <1>2, <1>4, <1>5 DEF WebInv

LEMMA AroundWebStep ==
  ASSUME WebInv, UNCHANGED <<copy, wpc, job, byHand, landed, tried, unsure>>,
         out' \in BOOLEAN, offLimits' \subseteq Blogs
  PROVE  WebInv'
BY DEF WebInv, WebWorkersOK, WebWorldOK, OneHand, CopyOK, ReadOK, AnswerOK, Settled, BlogInHand, ToCome, Answering

LEMMA WebInvStep == WebInv /\ [WebNext]_<<webVars, faults>> => WebInv'
<1> SUFFICES ASSUME WebInv, [WebNext]_<<webVars, faults>> PROVE WebInv'
  OBVIOUS
<1>1. ASSUME NEW w \in Workers,
             PublishDue(w) \/ Open(w) \/ NextBlog(w) \/ Record(w) \/ WebCrash(w)
      PROVE  WebInv'
  BY <1>1, PublishDueStep, OpenStep, NextBlogStep, RecordStep, WebCrashStep
<1>2. CASE GoOut
  BY <1>2, AroundWebStep DEF GoOut, WebInv, WebWorldOK
<1>3. ASSUME NEW b \in Blogs, Shelve(b) PROVE WebInv'
  BY <1>3, AroundWebStep DEF Shelve, WebInv, WebWorldOK
<1>4. CASE UNCHANGED <<webVars, faults>>
  BY <1>4, AroundWebStep DEF webVars, WebInv, WebWorldOK
<1> QED BY <1>1, <1>2, <1>3, <1>4, PublishByHandStep DEF WebNext

LEMMA WebInvAlways == WebSpec => []WebInv
<1>1. faults = 0 /\ WebInit => WebInv
  BY WebInvInit
<1> QED BY <1>1, WebInvStep, PTL DEF WebSpec

(* For any number of accounts, workers and faults every variable of the web *)
(* copies keeps its type, and a worker that is called back has an account.  *)
THEOREM WebTypeCorrect == WebSpec => []WebTypeOK
<1>1. WebInv => WebTypeOK
  BY WebInvIsType
<1> QED BY <1>1, WebInvAlways, PTL

(* However often the daemon comes round, the command is used beside it, an  *)
(* account is shelved, a call is refused or a worker dies: an account gets  *)
(* one copy and no more tries than it is given, unless nobody could know.   *)
THEOREM CopiedOnce == WebSpec => []PublishedOnce
<1>1. WebInv => PublishedOnce
  BY DEF WebInv, WebWorldOK, CopyOK, ReadOK, AnswerOK, Settled, PublishedOnce
<1> QED BY <1>1, WebInvAlways, PTL

(***************************************************************************)
(* The vault stays open to who has its key, and keeps what was saved, for  *)
(* any number of processes, changes and crashes (Vault).                   *)
(*                                                                         *)
(* That the keys agree is inductive once one also says which key every     *)
(* session and every update under way has (KeysAgree).  That nothing saved *)
(* is lost is not about the file alone: what was written and not raced is  *)
(* in every payload somebody may still write, and in every copy in memory  *)
(* that would pass for fresh (NothingLost).                                *)
(***************************************************************************)
VaultPlaces == {"idle", "load", "key", "make", "save", "write", "stamp", "prompt", "unlink"}
VaultsUpTo(n) == [stamp : Nat, mode : {"none", "keyfile", "passphrase"}, salt : 0..n,
                  key : 0..n, holds : SUBSET Edits]
VaultOps(n) == [edit : Edits \cup {"none", "seal"}, stamp : Nat, file : VaultsUpTo(n),
                key : 0..n, payload : SUBSET Edits, save : BOOLEAN]
Caches == [stamp : Int, holds : SUBSET Edits]

(* What a worker's place says of its update *)
OpOK(where, op) ==
  /\ where \in {"load", "key", "make"} => op.edit \in Edits \cup {"seal"}
  /\ where \in {"save", "write", "stamp"} \/ (where # "idle" /\ op.save) =>
       op.edit \in Edits /\ op.edit \in op.payload
  /\ where \in {"load", "save", "prompt", "unlink"} => ~op.save
  /\ where \in {"key", "write"} => op.file.mode \in {"keyfile", "passphrase"}
  /\ where = "make" => op.file.mode = "keyfile"

VaultFileOK ==
  /\ made \in Nat /\ keyFile \in 0..made /\ vault \in VaultsUpTo(made)
  /\ vault.mode = "none" <=> vault = NoVault

ProcessesOK ==
  /\ knows \subseteq Workers /\ session \in [Workers -> 0..made]
  /\ cache \in [Workers -> Caches] /\ \A w \in Workers : cache[w].stamp <= vault.stamp
  /\ vpc \in [Workers -> VaultPlaces] /\ vop \in [Workers -> VaultOps(made)]
  /\ \A w \in Workers : /\ OpOK(vpc[w], vop[w])
                        /\ vpc[w] # "idle" => vop[w].stamp <= vault.stamp
                        /\ vpc[w] # "idle" /\ vop[w].edit = "seal" => vault.mode # "none"

PastOK == saved \subseteq Edits /\ raced \subseteq Edits /\ unsafe \in BOOLEAN

(* The key of every update under way *)
UpdateKeys(w) ==
  /\ vpc[w] \in {"key", "make", "write"} /\ vop[w].file.mode = "passphrase" =>
       /\ vault.mode = "passphrase" /\ vop[w].file.salt = vault.salt
       /\ vpc[w] = "write" => vop[w].key = vault.salt
  /\ vpc[w] = "write" /\ vop[w].file.mode = "keyfile" /\ vault.mode # "passphrase" =>
       vop[w].key = keyFile /\ keyFile # 0
  /\ vpc[w] = "unlink" => vault.mode = "passphrase"

VaultKeys ==
  /\ vault.mode = "keyfile" => keyFile = vault.key /\ keyFile # 0
  /\ vault.mode = "passphrase" => vault.key = vault.salt

KeysAgree ==
  ~unsafe =>
    /\ VaultKeys
    /\ \A w \in Workers : /\ session[w] # 0 => vault.mode = "passphrase" /\ session[w] = vault.key
                          /\ UpdateKeys(w)

(* What is in the file for good, or would be were it not for a race *)
InFile == saved \cup {vop[o].edit : o \in {x \in Workers : vpc[x] = "stamp"}}
Kept(S) == InFile \ raced \subseteq S

HasPayload(w) ==
  \/ vpc[w] \in {"save", "write", "stamp", "prompt"}
  \/ vpc[w] \in {"key", "make"} /\ vop[w].save

KeptBy(w) ==
  /\ HasPayload(w) => Kept(vop[w].payload)
  /\ vpc[w] \in {"key", "make"} /\ ~vop[w].save => Kept(vop[w].file.holds)
  /\ cache[w].stamp = vault.stamp => Kept(cache[w].holds)

NothingLost == Kept(vault.holds) /\ \A w \in Workers : KeptBy(w)

VaultInv == VaultFileOK /\ ProcessesOK /\ PastOK /\ KeysAgree /\ NothingLost

LEMMA VaultsGrow ==
  ASSUME NEW m \in Nat, NEW n \in Nat, m <= n
  PROVE  0..m \subseteq 0..n /\ VaultsUpTo(m) \subseteq VaultsUpTo(n) /\ VaultOps(m) \subseteq VaultOps(n)
<1>1. 0..m \subseteq 0..n
  OBVIOUS
<1>2. VaultsUpTo(m) \subseteq VaultsUpTo(n)
  BY <1>1 DEF VaultsUpTo
<1> QED BY <1>1, <1>2 DEF VaultOps

LEMMA NoOpType ==
  ASSUME NEW n \in Nat
  PROVE  /\ NoVault \in VaultsUpTo(n) /\ NoOp \in VaultOps(n) /\ NoCache \in Caches
         /\ OpOK("idle", NoOp)
<1>1. NoVault \in VaultsUpTo(n)
  BY DEF NoVault, VaultsUpTo
<1> QED BY <1>1 DEF NoOp, VaultOps, NoCache, Caches, OpOK

LEMMA VaultInvIsType == VaultInv => VaultTypeOK
BY DEF VaultInv, VaultFileOK, ProcessesOK, PastOK, VaultTypeOK, VaultsUpTo, Vaults, VaultOps, Caches,
       VaultPlaces

LEMMA VaultInvInit == faults = 0 /\ VaultInit => VaultInv
<1> SUFFICES ASSUME VaultInit PROVE VaultInv
  OBVIOUS
<1>1. made \in Nat /\ made \in {0, 1} /\ keyFile = made /\ unsafe = FALSE
  BY DEF VaultInit
<1>2. /\ vault.stamp = made /\ vault.key = made /\ vault.salt = 0 /\ vault.holds = {}
      /\ vault.mode = (IF made = 1 THEN "keyfile" ELSE "none")
      /\ vault \in VaultsUpTo(made) /\ (made = 0 => vault = NoVault)
  <2>1. vault = [stamp |-> made, mode |-> IF made = 1 THEN "keyfile" ELSE "none",
                 salt |-> 0, key |-> made, holds |-> {}]
    BY DEF VaultInit, NoVault
  <2> QED BY <1>1, <2>1 DEF VaultsUpTo, NoVault
<1>3. VaultFileOK
  BY <1>1, <1>2 DEF VaultFileOK, NoVault
<1>4. \A w \in Workers :
        /\ session[w] = 0 /\ vpc[w] = "idle" /\ vop[w] = NoOp
        /\ cache[w] \in Caches /\ cache[w].stamp <= vault.stamp
  BY <1>1, <1>2 DEF VaultInit, NoCache, Caches
<1>5. ProcessesOK
  BY <1>1, <1>4, NoOpType DEF VaultInit, ProcessesOK, VaultPlaces
<1>6. KeysAgree
  BY <1>1, <1>2, <1>4 DEF KeysAgree, VaultKeys, UpdateKeys
<1>7. InFile \ raced = {}
  BY <1>4 DEF VaultInit, InFile
<1>8. NothingLost
  BY <1>4, <1>7 DEF NothingLost, Kept, KeptBy, HasPayload
<1> QED BY <1>3, <1>5, <1>6, <1>8 DEF VaultInv, PastOK, VaultInit

(***************************************************************************)
(* A step of one process, but those that write the vault                   *)
(***************************************************************************)
(* Every copy in memory is as it was, or gone, or a good one of its own *)
CachesFollow(w) ==
  /\ cache' \in [Workers -> Caches]
  /\ \A o \in Workers : \/ cache'[o] = cache[o] \/ cache'[o] = NoCache
                        \/ o = w /\ cache'[o].stamp <= vault.stamp /\ Kept(cache'[o].holds)

LEMMA CachesAfter ==
  ASSUME VaultFileOK, ProcessesOK, NothingLost, NEW w, CachesFollow(w), NEW o \in Workers
  PROVE  cache'[o].stamp <= vault.stamp /\ (cache'[o].stamp = vault.stamp => Kept(cache'[o].holds))
<1>1. vault.stamp \in Nat
  BY DEF VaultFileOK, VaultsUpTo
<1> QED BY <1>1 DEF CachesFollow, ProcessesOK, NothingLost, KeptBy, NoCache

LEMMA FileStays ==
  ASSUME VaultFileOK, vault' = vault, made' \in Nat, made <= made', keyFile' \in 0..made'
  PROVE  VaultFileOK'
<1>1. VaultsUpTo(made) \subseteq VaultsUpTo(made')
  BY VaultsGrow DEF VaultFileOK
<1> QED BY <1>1 DEF VaultFileOK

LEMMA ProcessMoves ==
  ASSUME VaultFileOK, ProcessesOK, NothingLost, NEW w \in Workers,
         NEW where \in VaultPlaces \ {"stamp"}, NEW op \in VaultOps(made'),
         Step(w, where, op), OpOK(where, op),
         where # "idle" => op.stamp <= vault.stamp /\ (op.edit = "seal" => vault.mode # "none"),
         made' \in Nat, made <= made', UNCHANGED <<vault, saved, raced>>,
         knows' \subseteq Workers, session' \in [Workers -> 0..made'], CachesFollow(w),
         where \in {"save", "prompt", "write"} \/ (where \in {"key", "make"} /\ op.save) =>
           Kept(op.payload),
         where \in {"key", "make"} /\ ~op.save => Kept(op.file.holds)
  PROVE  /\ ProcessesOK' /\ NothingLost' /\ vpc'[w] = where /\ vop'[w] = op
         /\ \A o \in Workers \ {w} : vpc'[o] = vpc[o] /\ vop'[o] = vop[o]
<1>1. VaultOps(made) \subseteq VaultOps(made')
  BY VaultsGrow DEF VaultFileOK
<1>2. /\ vpc' \in [Workers -> VaultPlaces] /\ vop' \in [Workers -> VaultOps(made')]
      /\ vpc'[w] = where /\ vop'[w] = op
      /\ \A o \in Workers \ {w} : vpc'[o] = vpc[o] /\ vop'[o] = vop[o]
  BY <1>1 DEF ProcessesOK, Step
<1>3. \A o \in Workers : cache'[o].stamp <= vault.stamp
                         /\ (cache'[o].stamp = vault.stamp => Kept(cache'[o].holds))
  BY CachesAfter
<1>4. cache' \in [Workers -> Caches]
  BY DEF CachesFollow
<1>5. ProcessesOK'
  BY <1>2, <1>3, <1>4 DEF ProcessesOK
<1>6. PICK G : G = InFile \ raced
  OBVIOUS
<1>7. (InFile \ raced)' \subseteq G
  <2>1. {o \in Workers : vpc'[o] = "stamp"} \subseteq {o \in Workers : vpc[o] = "stamp"} \ {w}
    BY <1>2
  <2>2. InFile' \subseteq InFile
    BY <1>2, <2>1 DEF InFile
  <2> QED BY <1>6, <2>2
<1>8. \A S : Kept(S) => (InFile \ raced)' \subseteq S
  BY <1>6, <1>7 DEF Kept
<1>9. ASSUME NEW o \in Workers PROVE KeptBy(o)'
  <2>1. CASE o = w
    BY <1>2, <1>3, <1>8, <2>1 DEF KeptBy, HasPayload, Kept
  <2>2. CASE o # w
    BY <1>2, <1>3, <1>8, <2>2 DEF NothingLost, KeptBy, HasPayload, Kept
  <2> QED BY <2>1, <2>2
<1>10. Kept(vault.holds)'
  BY <1>8 DEF NothingLost, Kept
<1>11. NothingLost'
  BY <1>9, <1>10 DEF NothingLost
<1> QED BY <1>2, <1>5, <1>11

(* A step that changes neither the vault nor its keys *)
LEMMA KeysStay ==
  ASSUME KeysAgree, NEW w \in Workers, UNCHANGED <<vault, keyFile, unsafe>>,
         \A o \in Workers \ {w} : vpc'[o] = vpc[o] /\ vop'[o] = vop[o],
         \A o \in Workers : session'[o] # 0 =>
           \/ session'[o] = session[o]
           \/ vault.mode = "passphrase" /\ session'[o] = vault.key,
         ~unsafe => UpdateKeys(w)'
  PROVE  KeysAgree'
<1>1. VaultKeys => VaultKeys'
  BY DEF VaultKeys
<1>2. \A o \in Workers \ {w} : UpdateKeys(o) => UpdateKeys(o)'
  BY DEF UpdateKeys
<1> QED BY <1>1, <1>2 DEF KeysAgree

LEMMA BeginStep ==
  ASSUME VaultInv, NEW w \in Workers, NEW e \in Edits, Begin(w, e)
  PROVE  VaultInv'
<1>1. VaultFileOK /\ ProcessesOK /\ PastOK /\ KeysAgree /\ NothingLost /\ made \in Nat
      /\ vault.stamp \in Nat
  BY DEF VaultInv, VaultFileOK, VaultsUpTo
<1>2. UNCHANGED <<vault, keyFile, made, knows, session, saved, raced, unsafe, faults>>
  BY DEF Begin
<1>3. PICK op : op = [NoOp EXCEPT !.edit = e, !.stamp = vault.stamp]
  OBVIOUS
<1>4. op \in VaultOps(made) /\ op.edit = e /\ op.stamp = vault.stamp /\ ~op.save /\ e # "seal"
  BY <1>1, <1>3, NoOpType, VaultAssumption DEF NoOp, VaultOps
<1>5. CASE Fresh(w) /\ Change(w, op, cache[w].stamp, cache[w].holds)
  <2>1. cache[w] \in Caches /\ cache[w].stamp = vault.stamp /\ Kept(cache[w].holds)
    BY <1>1, <1>5 DEF ProcessesOK, Fresh, NothingLost, KeptBy
  <2>2. PICK u : u = [op EXCEPT !.payload = cache[w].holds \cup {op.edit}]
    OBVIOUS
  <2>3. /\ u \in VaultOps(made) /\ u.edit = e /\ u.stamp = vault.stamp /\ ~u.save
        /\ u.payload = cache[w].holds \cup {e} /\ OpOK("save", u) /\ Kept(u.payload)
    BY <1>4, <2>1, <2>2 DEF VaultOps, Caches, OpOK, Kept
  <2>4. Step(w, "save", u) /\ CachesFollow(w)
    BY <1>1, <1>4, <1>5, <2>1, <2>2 DEF Change, Remember, CachesFollow, Caches, ProcessesOK, Kept
  <2>5. /\ ProcessesOK' /\ NothingLost' /\ vpc'[w] = "save"
        /\ \A o \in Workers \ {w} : vpc'[o] = vpc[o] /\ vop'[o] = vop[o]
    <3>1. "save" \in VaultPlaces \ {"stamp"} /\ u.stamp <= vault.stamp
      BY <1>1, <2>3 DEF VaultPlaces
    <3>2. u \in VaultOps(made') /\ made' \in Nat /\ made <= made' /\ knows' \subseteq Workers
          /\ session' \in [Workers -> 0..made']
      BY <1>1, <1>2, <2>3 DEF ProcessesOK
    <3> QED BY <1>1, <1>2, <1>4, <2>3, <2>4, <3>1, <3>2, ProcessMoves
  <2>6. KeysAgree'
    <3>1. UpdateKeys(w)'
      BY <1>1, <1>2, <2>5 DEF UpdateKeys
    <3> QED BY <1>1, <1>2, <2>5, <3>1, KeysStay
  <2> QED BY <1>1, <1>2, <2>5, <2>6, FileStays DEF VaultInv, PastOK, VaultFileOK
<1>6. CASE Step(w, "load", op) /\ UNCHANGED cache
  <2>1. OpOK("load", op) /\ CachesFollow(w)
    BY <1>1, <1>4, <1>6 DEF OpOK, CachesFollow, ProcessesOK
  <2>2. /\ ProcessesOK' /\ NothingLost' /\ vpc'[w] = "load"
        /\ \A o \in Workers \ {w} : vpc'[o] = vpc[o] /\ vop'[o] = vop[o]
    BY <1>1, <1>2, <1>4, <1>6, <2>1, ProcessMoves DEF VaultPlaces, ProcessesOK
  <2>3. KeysAgree'
    <3>1. UpdateKeys(w)'
      BY <1>1, <1>2, <2>2 DEF UpdateKeys
    <3> QED BY <1>1, <1>2, <2>2, <3>1, KeysStay
  <2> QED BY <1>1, <1>2, <2>2, <2>3, FileStays DEF VaultInv, PastOK, VaultFileOK
<1> QED BY <1>3, <1>5, <1>6 DEF Begin

LEMMA BeginSealStep ==
  ASSUME VaultInv, NEW w \in Workers, BeginSeal(w)
  PROVE  VaultInv'
<1>1. VaultFileOK /\ ProcessesOK /\ PastOK /\ KeysAgree /\ NothingLost /\ made \in Nat
      /\ vault.stamp \in Nat
  BY DEF VaultInv, VaultFileOK, VaultsUpTo
<1>2. /\ UNCHANGED <<vault, keyFile, made, knows, session, cache, saved, raced, unsafe, faults>>
      /\ vault.mode = "keyfile"
  BY DEF BeginSeal
<1>3. PICK op : op = [NoOp EXCEPT !.edit = "seal"]
  OBVIOUS
<1>4. op \in VaultOps(made) /\ op.edit = "seal" /\ op.stamp = 0 /\ ~op.save /\ OpOK("load", op)
  BY <1>1, <1>3, NoOpType DEF NoOp, VaultOps, OpOK
<1>5. Step(w, "load", op) /\ CachesFollow(w)
  BY <1>1, <1>2, <1>3 DEF BeginSeal, CachesFollow, ProcessesOK
<1>6. /\ ProcessesOK' /\ NothingLost' /\ vpc'[w] = "load"
      /\ \A o \in Workers \ {w} : vpc'[o] = vpc[o] /\ vop'[o] = vop[o]
  BY <1>1, <1>2, <1>4, <1>5, ProcessMoves DEF VaultPlaces, ProcessesOK
<1>7. KeysAgree'
  <2>1. UpdateKeys(w)'
    BY <1>1, <1>2, <1>6 DEF UpdateKeys
  <2> QED BY <1>1, <1>2, <1>6, <2>1, KeysStay
<1> QED BY <1>1, <1>2, <1>6, <1>7, FileStays DEF VaultInv, PastOK, VaultFileOK

LEMMA LoadStep ==
  ASSUME VaultInv, NEW w \in Workers, Load(w)
  PROVE  VaultInv'
<1>1. VaultFileOK /\ ProcessesOK /\ PastOK /\ KeysAgree /\ NothingLost /\ made \in Nat
      /\ vault.stamp \in Nat
  BY DEF VaultInv, VaultFileOK, VaultsUpTo
<1>2. /\ UNCHANGED <<vault, keyFile, made, knows, session, saved, raced, unsafe, faults>>
      /\ vpc[w] = "load"
  BY DEF Load
<1>3. PICK op : op = vop[w]
  OBVIOUS
<1>4. /\ op \in VaultOps(made) /\ OpOK("load", op) /\ op.stamp <= vault.stamp /\ op.stamp \in Nat
      /\ op.edit = "seal" => vault.mode # "none"
      /\ op.edit \in Edits \cup {"seal"} /\ ~op.save
  <2>1. op \in VaultOps(made) /\ OpOK("load", op) /\ op.stamp <= vault.stamp
        /\ (op.edit = "seal" => vault.mode # "none")
    BY <1>1, <1>2, <1>3 DEF ProcessesOK
  <2> QED BY <2>1 DEF OpOK, VaultOps
<1>5. CASE vault = NoVault /\ Change(w, op, op.stamp, {})
  <2>1. op.edit \in Edits /\ Kept({})
    BY <1>1, <1>4, <1>5 DEF NoVault, NothingLost
  <2>2. PICK u : u = [op EXCEPT !.payload = {} \cup {op.edit}]
    OBVIOUS
  <2>3. /\ u \in VaultOps(made) /\ u.edit = op.edit /\ u.stamp = op.stamp /\ ~u.save
        /\ u.payload = {op.edit} /\ OpOK("save", u) /\ Kept(u.payload) /\ op.edit # "seal"
    BY <1>4, <2>1, <2>2, VaultAssumption DEF VaultOps, OpOK, Kept
  <2>4. Step(w, "save", u) /\ CachesFollow(w)
    BY <1>1, <1>4, <1>5, <2>1, <2>2 DEF Change, Remember, CachesFollow, Caches, ProcessesOK, Kept
  <2>5. /\ ProcessesOK' /\ NothingLost' /\ vpc'[w] = "save"
        /\ \A o \in Workers \ {w} : vpc'[o] = vpc[o] /\ vop'[o] = vop[o]
    <3>1. "save" \in VaultPlaces \ {"stamp"} /\ u.stamp <= vault.stamp
      BY <1>4, <2>3 DEF VaultPlaces
    <3>2. u \in VaultOps(made') /\ made' \in Nat /\ made <= made' /\ knows' \subseteq Workers
          /\ session' \in [Workers -> 0..made']
      BY <1>1, <1>2, <2>3 DEF ProcessesOK
    <3> QED BY <1>1, <1>2, <2>3, <2>4, <3>1, <3>2, ProcessMoves
  <2>6. KeysAgree'
    <3>1. UpdateKeys(w)'
      BY <1>1, <1>2, <2>5 DEF UpdateKeys
    <3> QED BY <1>1, <1>2, <2>5, <3>1, KeysStay
  <2> QED BY <1>1, <1>2, <2>5, <2>6, FileStays DEF VaultInv, PastOK, VaultFileOK
<1>6. CASE vault # NoVault /\ Step(w, "key", [op EXCEPT !.file = vault]) /\ UNCHANGED cache
  <2>1. PICK u : u = [op EXCEPT !.file = vault]
    OBVIOUS
  <2>2. /\ u \in VaultOps(made) /\ u.edit = op.edit /\ u.stamp = op.stamp /\ ~u.save
        /\ u.file = vault /\ u.file.mode \in {"keyfile", "passphrase"} /\ OpOK("key", u)
    BY <1>1, <1>4, <1>6, <2>1 DEF VaultOps, VaultFileOK, VaultsUpTo, OpOK
  <2>3. Step(w, "key", u) /\ CachesFollow(w) /\ Kept(u.file.holds)
    BY <1>1, <1>6, <2>1, <2>2 DEF CachesFollow, ProcessesOK, NothingLost
  <2>4. /\ ProcessesOK' /\ NothingLost' /\ vpc'[w] = "key" /\ vop'[w] = u
        /\ \A o \in Workers \ {w} : vpc'[o] = vpc[o] /\ vop'[o] = vop[o]
    BY <1>1, <1>2, <1>4, <2>2, <2>3, ProcessMoves DEF VaultPlaces, ProcessesOK
  <2>5. KeysAgree'
    <3>1. UpdateKeys(w)'
      BY <1>1, <1>2, <2>2, <2>4 DEF UpdateKeys
    <3> QED BY <1>1, <1>2, <2>2, <2>4, <3>1, KeysStay
  <2> QED BY <1>1, <1>2, <2>4, <2>5, FileStays DEF VaultInv, PastOK, VaultFileOK
<1> QED BY <1>2, <1>3, <1>5, <1>6 DEF Load

(***************************************************************************)
(* With a key                                                              *)
(***************************************************************************)
LEMMA WithStep ==
  ASSUME VaultFileOK, ProcessesOK, NothingLost, NEW w \in Workers, vpc[w] \in {"key", "make"},
         made' \in Nat, made <= made', NEW k \in 0..made', With(w, k),
         UNCHANGED <<vault, knows, session, saved, raced>>
  PROVE  /\ ProcessesOK' /\ NothingLost'
         /\ \A o \in Workers \ {w} : vpc'[o] = vpc[o] /\ vop'[o] = vop[o]
         /\ vpc'[w] \in {"write", "idle", "prompt", "save"}
         /\ vpc'[w] = "write" => vop[w].save /\ vop'[w].key = k /\ vop'[w].file = vop[w].file
<1>1. PICK op : op = vop[w]
  OBVIOUS
<1>2. VaultOps(made) \subseteq VaultOps(made') /\ 0..made \subseteq 0..made' /\ vault.stamp \in Nat
  BY VaultsGrow DEF VaultFileOK, VaultsUpTo
<1>3. /\ op \in VaultOps(made') /\ OpOK(vpc[w], op) /\ op.stamp <= vault.stamp
      /\ op.edit = "seal" => vault.mode # "none"
  BY <1>1, <1>2 DEF ProcessesOK
<1>4. /\ op.edit \in Edits \cup {"seal"} /\ op.stamp \in Nat
      /\ op.save => op.edit \in Edits /\ op.edit \in op.payload
      /\ op.file.mode \in {"keyfile", "passphrase"} /\ op.save \in BOOLEAN
      /\ op.payload \subseteq Edits /\ op.file.holds \subseteq Edits
  BY <1>3 DEF OpOK, VaultOps, VaultsUpTo
<1>5. /\ op.save => Kept(op.payload)
      /\ ~op.save => Kept(op.file.holds)
  BY <1>1 DEF NothingLost, KeptBy, HasPayload
<1>6. knows' \subseteq Workers /\ session' \in [Workers -> 0..made']
  BY <1>2 DEF ProcessesOK
<1>7. cache' = cache => CachesFollow(w)
  BY DEF CachesFollow, ProcessesOK
<1>8. CASE op.save
  <2>1. PICK u : u = [op EXCEPT !.key = k]
    OBVIOUS
  <2>2. /\ u \in VaultOps(made') /\ u.edit = op.edit /\ u.stamp = op.stamp /\ u.save = op.save
        /\ u.payload = op.payload /\ u.file = op.file /\ u.key = k
    BY <1>3, <2>1 DEF VaultOps
  <2>3. OpOK("write", u) /\ "write" \in VaultPlaces \ {"stamp"}
    BY <1>4, <1>8, <2>2 DEF OpOK, VaultPlaces
  <2>4. Step(w, "write", u) /\ cache' = cache
    BY <1>1, <1>8, <2>1 DEF With
  <2>5. Kept(u.payload) /\ u.stamp <= vault.stamp /\ (u.edit = "seal" => vault.mode # "none")
    BY <1>3, <1>5, <1>8, <2>2
  <2>6. /\ ProcessesOK' /\ NothingLost' /\ vpc'[w] = "write" /\ vop'[w] = u
        /\ \A o \in Workers \ {w} : vpc'[o] = vpc[o] /\ vop'[o] = vop[o]
    BY <1>6, <1>7, <2>2, <2>3, <2>4, <2>5, ProcessMoves
  <2> QED BY <1>1, <1>8, <2>2, <2>6
<1>9. CASE ~op.save /\ k # op.file.key
  <2>1. Step(w, "idle", NoOp) /\ cache' = cache
    BY <1>1, <1>9 DEF With, GiveUp
  <2>2. NoOp \in VaultOps(made') /\ OpOK("idle", NoOp) /\ "idle" \in VaultPlaces \ {"stamp"}
    BY NoOpType DEF VaultPlaces
  <2>3. /\ ProcessesOK' /\ NothingLost' /\ vpc'[w] = "idle"
        /\ \A o \in Workers \ {w} : vpc'[o] = vpc[o] /\ vop'[o] = vop[o]
    BY <1>6, <1>7, <2>1, <2>2, ProcessMoves
  <2> QED BY <2>3
<1>10. CASE ~op.save /\ k = op.file.key /\ op.edit = "seal"
  <2>1. PICK u : u = [op EXCEPT !.payload = op.file.holds]
    OBVIOUS
  <2>2. /\ u \in VaultOps(made') /\ u.edit = op.edit /\ u.stamp = op.stamp /\ ~u.save
        /\ u.payload = op.file.holds
    BY <1>3, <1>4, <1>10, <2>1 DEF VaultOps
  <2>3. OpOK("prompt", u) /\ "prompt" \in VaultPlaces \ {"stamp"}
    BY <2>2 DEF OpOK, VaultPlaces
  <2>4. Step(w, "prompt", u) /\ cache' = cache
    BY <1>1, <1>10, <2>1 DEF With
  <2>5. Kept(u.payload) /\ u.stamp <= vault.stamp /\ (u.edit = "seal" => vault.mode # "none")
    BY <1>3, <1>5, <1>10, <2>2
  <2>6. /\ ProcessesOK' /\ NothingLost' /\ vpc'[w] = "prompt"
        /\ \A o \in Workers \ {w} : vpc'[o] = vpc[o] /\ vop'[o] = vop[o]
    BY <1>6, <1>7, <2>2, <2>3, <2>4, <2>5, ProcessMoves
  <2> QED BY <2>6
<1>11. CASE ~op.save /\ k = op.file.key /\ op.edit # "seal"
  <2>1. PICK u : u = [op EXCEPT !.payload = op.file.holds \cup {op.edit}]
    OBVIOUS
  <2>2. /\ u \in VaultOps(made') /\ u.edit = op.edit /\ u.stamp = op.stamp /\ ~u.save
        /\ u.payload = op.file.holds \cup {op.edit} /\ op.edit \in Edits
    BY <1>3, <1>4, <1>11, <2>1 DEF VaultOps
  <2>3. OpOK("save", u) /\ "save" \in VaultPlaces \ {"stamp"}
    BY <2>2 DEF OpOK, VaultPlaces
  <2>4. Change(w, op, op.stamp, op.file.holds)
    BY <1>1, <1>11 DEF With
  <2>5. Step(w, "save", u)
    BY <2>1, <2>4 DEF Change
  <2>6. Kept(u.payload) /\ u.stamp <= vault.stamp /\ u.edit # "seal"
    BY <1>3, <1>5, <1>11, <2>2 DEF Kept
  <2>7. CachesFollow(w)
    <3>1. PICK c : c = [stamp |-> op.stamp, holds |-> op.file.holds \cup {op.edit}]
      OBVIOUS
    <3>2. c \in Caches /\ c.stamp <= vault.stamp /\ Kept(c.holds)
      BY <1>3, <1>4, <2>2, <2>6, <3>1 DEF Caches
    <3>3. cache' = [cache EXCEPT ![w] = c]
      BY <2>4, <3>1 DEF Change, Remember
    <3> QED BY <3>2, <3>3 DEF CachesFollow, ProcessesOK
  <2>8. /\ ProcessesOK' /\ NothingLost' /\ vpc'[w] = "save"
        /\ \A o \in Workers \ {w} : vpc'[o] = vpc[o] /\ vop'[o] = vop[o]
    BY <1>6, <2>2, <2>3, <2>5, <2>6, <2>7, ProcessMoves
  <2> QED BY <2>8
<1> QED BY <1>4, <1>8, <1>9, <1>10, <1>11

LEMMA KeyStep ==
  ASSUME VaultInv, NEW w \in Workers, Key(w)
  PROVE  VaultInv'
<1>1. VaultFileOK /\ ProcessesOK /\ PastOK /\ KeysAgree /\ NothingLost /\ made \in Nat
      /\ vault.stamp \in Nat
  BY DEF VaultInv, VaultFileOK, VaultsUpTo
<1>2. /\ UNCHANGED <<vault, keyFile, made, knows, session, saved, raced, unsafe, faults>>
      /\ vpc[w] = "key" /\ made' \in Nat /\ made <= made'
  BY <1>1 DEF Key
<1>3. PICK op : op = vop[w]
  OBVIOUS
<1>4. /\ op \in VaultOps(made) /\ OpOK("key", op) /\ op.stamp <= vault.stamp
      /\ op.edit = "seal" => vault.mode # "none"
  BY <1>1, <1>2, <1>3 DEF ProcessesOK
<1>5. /\ op.file.mode \in {"keyfile", "passphrase"} /\ op.file.salt \in 0..made
      /\ keyFile \in 0..made /\ session[w] \in 0..made
  BY <1>1, <1>4 DEF OpOK, VaultOps, VaultsUpTo, VaultFileOK, ProcessesOK
<1>6. ASSUME NEW k \in 0..made, With(w, k),
             ~unsafe => \/ op.file.mode = "keyfile" /\ k = keyFile /\ k # 0
                        \/ op.file.mode = "passphrase" /\ k = vault.salt
                           /\ vault.mode = "passphrase" /\ op.file.salt = vault.salt
      PROVE  VaultInv'
  <2>1. /\ ProcessesOK' /\ NothingLost'
        /\ \A o \in Workers \ {w} : vpc'[o] = vpc[o] /\ vop'[o] = vop[o]
        /\ vpc'[w] \in {"write", "idle", "prompt", "save"}
        /\ vpc'[w] = "write" => vop[w].save /\ vop'[w].key = k /\ vop'[w].file = vop[w].file
    BY <1>1, <1>2, <1>6, WithStep
  <2>2. KeysAgree'
    <3>1. ~unsafe => UpdateKeys(w)'
      BY <1>2, <1>3, <1>6, <2>1 DEF UpdateKeys
    <3> QED BY <1>1, <1>2, <2>1, <3>1, KeysStay
  <2> QED BY <1>1, <1>2, <2>1, <2>2, FileStays DEF VaultInv, PastOK, VaultFileOK
<1>7. CASE op.file.mode = "keyfile" /\ keyFile # 0 /\ With(w, keyFile)
  BY <1>5, <1>6, <1>7
<1>8. CASE op.file.mode = "keyfile" /\ Step(w, "make", op) /\ UNCHANGED cache
  <2>1. "make" \in VaultPlaces \ {"stamp"} /\ OpOK("make", op) /\ CachesFollow(w)
    BY <1>1, <1>4, <1>8 DEF VaultPlaces, OpOK, CachesFollow, ProcessesOK
  <2>2. op \in VaultOps(made') /\ knows' \subseteq Workers /\ session' \in [Workers -> 0..made']
    BY <1>1, <1>2, <1>4 DEF ProcessesOK
  <2>3. op.save \in BOOLEAN /\ (op.save => Kept(op.payload)) /\ (~op.save => Kept(op.file.holds))
    BY <1>1, <1>2, <1>3, <1>4 DEF NothingLost, KeptBy, HasPayload, VaultOps
  <2>4. /\ ProcessesOK' /\ NothingLost' /\ vpc'[w] = "make" /\ vop'[w] = op
        /\ \A o \in Workers \ {w} : vpc'[o] = vpc[o] /\ vop'[o] = vop[o]
    BY <1>1, <1>2, <1>4, <1>8, <2>1, <2>2, <2>3, ProcessMoves
  <2>5. KeysAgree'
    <3>1. UpdateKeys(w)'
      BY <1>8, <2>4 DEF UpdateKeys
    <3> QED BY <1>1, <1>2, <2>4, <3>1, KeysStay
  <2> QED BY <1>1, <1>2, <2>4, <2>5, FileStays DEF VaultInv, PastOK, VaultFileOK
<1>9. ~unsafe /\ op.file.mode = "passphrase" =>
        /\ vault.mode = "passphrase" /\ op.file.salt = vault.salt /\ vault.key = vault.salt
        /\ session[w] # 0 => session[w] = vault.key
  BY <1>1, <1>2, <1>3 DEF KeysAgree, UpdateKeys, VaultKeys
<1>10. CASE op.file.mode = "passphrase" /\ With(w, op.file.salt)
  BY <1>5, <1>6, <1>9, <1>10
<1>11. CASE op.file.mode = "passphrase" /\ session[w] # 0 /\ With(w, session[w])
  BY <1>5, <1>6, <1>9, <1>11
<1>12. CASE GiveUp(w)
  <2>1. Step(w, "idle", NoOp) /\ CachesFollow(w)
    BY <1>1, <1>12 DEF GiveUp, CachesFollow, ProcessesOK
  <2>2. NoOp \in VaultOps(made') /\ OpOK("idle", NoOp) /\ "idle" \in VaultPlaces \ {"stamp"}
    BY <1>2, NoOpType DEF VaultPlaces
  <2>3. knows' \subseteq Workers /\ session' \in [Workers -> 0..made']
    BY <1>1, <1>2 DEF ProcessesOK
  <2>4. /\ ProcessesOK' /\ NothingLost' /\ vpc'[w] = "idle"
        /\ \A o \in Workers \ {w} : vpc'[o] = vpc[o] /\ vop'[o] = vop[o]
    BY <1>1, <1>2, <2>1, <2>2, <2>3, ProcessMoves
  <2>5. KeysAgree'
    <3>1. UpdateKeys(w)'
      BY <2>4 DEF UpdateKeys
    <3> QED BY <1>1, <1>2, <2>4, <3>1, KeysStay
  <2> QED BY <1>1, <1>2, <2>4, <2>5, FileStays DEF VaultInv, PastOK, VaultFileOK
<1>13. \/ op.file.mode = "keyfile" /\ keyFile # 0 /\ With(w, keyFile)
       \/ op.file.mode = "keyfile" /\ Step(w, "make", op) /\ UNCHANGED cache
       \/ op.file.mode = "passphrase" /\ With(w, op.file.salt)
       \/ op.file.mode = "passphrase" /\ session[w] # 0 /\ With(w, session[w])
       \/ GiveUp(w)
  BY <1>3, <1>5, Zenon DEF Key
<1> QED BY <1>7, <1>8, <1>10, <1>11, <1>12, <1>13

(* A key is made where there was none, or the safe part is over *)
LEMMA MakeKeyStep ==
  ASSUME VaultInv, NEW w \in Workers, MakeKey(w)
  PROVE  VaultInv'
<1>1. VaultFileOK /\ ProcessesOK /\ PastOK /\ KeysAgree /\ NothingLost /\ made \in Nat
  BY DEF VaultInv, VaultFileOK
<1>2. /\ UNCHANGED <<vault, knows, session, saved, raced, faults>> /\ vpc[w] = "make"
      /\ made' = made + 1 /\ keyFile' = made + 1 /\ unsafe' = (unsafe \/ keyFile # 0)
      /\ With(w, made + 1)
  BY DEF MakeKey
<1>3. made' \in Nat /\ made <= made' /\ made + 1 \in 0..made' /\ made + 1 # 0
  BY <1>1, <1>2
<1>4. /\ ProcessesOK' /\ NothingLost'
      /\ \A o \in Workers \ {w} : vpc'[o] = vpc[o] /\ vop'[o] = vop[o]
      /\ vpc'[w] \in {"write", "idle", "prompt", "save"}
      /\ vpc'[w] = "write" => vop[w].save /\ vop'[w].key = made + 1 /\ vop'[w].file = vop[w].file
  BY <1>1, <1>2, <1>3, WithStep
<1>5. vop[w].file.mode = "keyfile"
  BY <1>1, <1>2 DEF ProcessesOK, OpOK
<1>6. VaultFileOK'
  BY <1>1, <1>2, <1>3, FileStays
<1>7. KeysAgree'
  <2> SUFFICES ASSUME ~unsafe'
               PROVE  /\ VaultKeys'
                      /\ \A o \in Workers :
                           /\ session'[o] # 0 => vault'.mode = "passphrase" /\ session'[o] = vault'.key
                           /\ UpdateKeys(o)'
    BY DEF KeysAgree
  <2>1. /\ ~unsafe /\ keyFile = 0 /\ VaultKeys
        /\ \A o \in Workers : /\ session[o] # 0 => vault.mode = "passphrase" /\ session[o] = vault.key
                              /\ UpdateKeys(o)
    BY <1>1, <1>2 DEF KeysAgree, PastOK
  <2>2. VaultKeys'
    BY <1>2, <2>1 DEF VaultKeys
  <2>3. \A o \in Workers \ {w} : UpdateKeys(o)'
    BY <1>2, <1>4, <2>1 DEF UpdateKeys
  <2>4. UpdateKeys(w)'
    BY <1>2, <1>3, <1>4, <1>5 DEF UpdateKeys
  <2> QED BY <1>2, <2>1, <2>2, <2>3, <2>4
<1>8. PastOK'
  BY <1>1, <1>2 DEF PastOK
<1> QED BY <1>4, <1>6, <1>7, <1>8 DEF VaultInv

LEMMA SaveStep ==
  ASSUME VaultInv, NEW w \in Workers, SaveVault(w)
  PROVE  VaultInv'
<1>1. VaultFileOK /\ ProcessesOK /\ PastOK /\ KeysAgree /\ NothingLost /\ made \in Nat
  BY DEF VaultInv, VaultFileOK
<1>2. /\ UNCHANGED <<vault, keyFile, made, knows, session, cache, saved, raced, unsafe, faults>>
      /\ vpc[w] = "save" /\ made' \in Nat /\ made <= made'
  BY <1>1 DEF SaveVault
<1>3. PICK f : f = IF vault = NoVault THEN [NoVault EXCEPT !.mode = "keyfile"] ELSE vault
  OBVIOUS
<1>4. /\ f \in VaultsUpTo(made) /\ f.mode \in {"keyfile", "passphrase"}
      /\ f.mode = "passphrase" => vault.mode = "passphrase" /\ f.salt = vault.salt
  <2>1. CASE vault = NoVault
    BY <1>1, <1>3, <2>1 DEF NoVault, VaultsUpTo
  <2>2. CASE vault # NoVault
    BY <1>1, <1>3, <2>2 DEF VaultFileOK, VaultsUpTo
  <2> QED BY <2>1, <2>2
<1>5. PICK op : op = vop[w]
  OBVIOUS
<1>6. PICK u : u = [op EXCEPT !.save = TRUE, !.file = f]
  OBVIOUS
<1>7. /\ op \in VaultOps(made) /\ OpOK("save", op) /\ op.stamp <= vault.stamp
      /\ op.edit = "seal" => vault.mode # "none"
      /\ Kept(op.payload)
  BY <1>1, <1>2, <1>5 DEF ProcessesOK, NothingLost, KeptBy, HasPayload
<1>8. /\ u \in VaultOps(made) /\ u.edit = op.edit /\ u.stamp = op.stamp /\ u.save
      /\ u.payload = op.payload /\ u.file = f
  BY <1>4, <1>6, <1>7 DEF VaultOps
<1>9. OpOK("key", u) /\ "key" \in VaultPlaces \ {"stamp"}
  BY <1>4, <1>7, <1>8 DEF OpOK, VaultPlaces
<1>10. Step(w, "key", u) /\ CachesFollow(w)
  BY <1>1, <1>2, <1>3, <1>5, <1>6 DEF SaveVault, CachesFollow, ProcessesOK
<1>11. u \in VaultOps(made') /\ knows' \subseteq Workers /\ session' \in [Workers -> 0..made']
  BY <1>1, <1>2, <1>8 DEF ProcessesOK
<1>12. u.stamp <= vault.stamp /\ (u.edit = "seal" => vault.mode # "none") /\ Kept(u.payload)
  BY <1>7, <1>8
<1>13. /\ ProcessesOK' /\ NothingLost' /\ vpc'[w] = "key" /\ vop'[w] = u
       /\ \A o \in Workers \ {w} : vpc'[o] = vpc[o] /\ vop'[o] = vop[o]
  BY <1>1, <1>2, <1>8, <1>9, <1>10, <1>11, <1>12, ProcessMoves
<1>14. KeysAgree'
  <2>1. UpdateKeys(w)'
    BY <1>2, <1>4, <1>8, <1>13 DEF UpdateKeys
  <2> QED BY <1>1, <1>2, <1>13, <2>1, KeysStay
<1> QED BY <1>1, <1>2, <1>13, <1>14, FileStays DEF VaultInv, PastOK, VaultFileOK

(***************************************************************************)
(* The vault is written                                                    *)
(***************************************************************************)
(* Who was in an update, and did not write, has what was not raced *)
LEMMA OthersKeep ==
  ASSUME VaultFileOK, ProcessesOK, NothingLost, NEW w \in Workers, cache' = cache,
         vault'.stamp = vault.stamp + 1,
         \A o \in Workers \ {w} : vpc'[o] = vpc[o] /\ vop'[o] = vop[o],
         \A o \in UpdateElsewhere(w) : (InFile \ raced)' \subseteq InFile \ raced,
         vpc'[w] \in {"stamp", "unlink"}, Kept(vault.holds)',
         vpc'[w] = "stamp" => Kept(vop[w].payload)'
  PROVE  NothingLost'
<1>1. vault.stamp \in Nat
  BY DEF VaultFileOK, VaultsUpTo
<1>2. \A o \in Workers : cache'[o].stamp # vault'.stamp
  <2>1. \A o \in Workers : cache[o].stamp \in Int /\ cache[o].stamp <= vault.stamp
    BY DEF ProcessesOK, Caches
  <2> QED BY <1>1, <2>1
<1>3. KeptBy(w)'
  BY <1>2 DEF KeptBy, HasPayload
<1>4. ASSUME NEW o \in Workers \ {w} PROVE KeptBy(o)'
  <2>1. CASE o \in UpdateElsewhere(w)
    BY <1>2, <2>1 DEF NothingLost, KeptBy, HasPayload, Kept
  <2>2. CASE o \notin UpdateElsewhere(w)
    BY <1>2, <2>2 DEF UpdateElsewhere, KeptBy, HasPayload
  <2> QED BY <2>1, <2>2
<1> QED BY <1>3, <1>4 DEF NothingLost

LEMMA WriteStep ==
  ASSUME VaultInv, NEW w \in Workers, Write(w)
  PROVE  VaultInv'
<1>1. VaultFileOK /\ ProcessesOK /\ PastOK /\ KeysAgree /\ NothingLost /\ made \in Nat
      /\ vault.stamp \in Nat
  BY DEF VaultInv, VaultFileOK, VaultsUpTo
<1>2. PICK op : op = vop[w]
  OBVIOUS
<1>3. /\ vpc[w] = "write" /\ Race(w) /\ Step(w, "stamp", op)
      /\ UNCHANGED <<keyFile, made, knows, session, cache, saved, faults>>
      /\ vault' = [stamp |-> vault.stamp + 1, mode |-> op.file.mode, salt |-> op.file.salt,
                   key |-> op.key, holds |-> op.payload]
      /\ unsafe' = (unsafe \/ (vault.mode = "passphrase" /\ op.file.mode = "keyfile"))
  BY <1>2 DEF Write
<1>4. /\ op \in VaultOps(made) /\ OpOK("write", op) /\ op.stamp <= vault.stamp /\ Kept(op.payload)
  BY <1>1, <1>2, <1>3 DEF ProcessesOK, NothingLost, KeptBy, HasPayload
<1>5. /\ op.edit \in Edits /\ op.edit \in op.payload /\ op.payload \subseteq Edits /\ op.key \in 0..made
      /\ op.file.mode \in {"keyfile", "passphrase"} /\ op.file.salt \in 0..made /\ op.stamp \in Nat
  BY <1>4 DEF OpOK, VaultOps, VaultsUpTo
<1>6. /\ vault'.stamp = vault.stamp + 1 /\ vault'.mode = op.file.mode /\ vault'.salt = op.file.salt
      /\ vault'.key = op.key /\ vault'.holds = op.payload
  BY <1>3
<1>7. VaultFileOK'
  <2>1. vault' \in VaultsUpTo(made')
    BY <1>1, <1>3, <1>5 DEF VaultsUpTo
  <2>2. vault' # NoVault /\ vault'.mode # "none"
    BY <1>5, <1>6 DEF NoVault
  <2> QED BY <1>1, <1>3, <2>1, <2>2 DEF VaultFileOK
<1>8. /\ vpc' \in [Workers -> VaultPlaces] /\ vop' \in [Workers -> VaultOps(made')]
      /\ vpc'[w] = "stamp" /\ vop'[w] = op
      /\ \A o \in Workers \ {w} : vpc'[o] = vpc[o] /\ vop'[o] = vop[o]
  BY <1>1, <1>3, <1>4 DEF ProcessesOK, Step, VaultPlaces
<1>9. ProcessesOK'
  <2>1. OpOK("stamp", op)
    BY <1>5 DEF OpOK
  <2>2. op.stamp <= vault'.stamp /\ op.edit # "seal" /\ vault'.mode # "none"
    BY <1>1, <1>4, <1>5, <1>6, VaultAssumption
  <2>3. \A o \in Workers : /\ cache[o].stamp <= vault.stamp /\ cache[o].stamp \in Int
                           /\ vop[o].stamp \in Nat
    BY <1>1 DEF ProcessesOK, Caches, VaultOps
  <2>4. \A o \in Workers : /\ cache[o].stamp <= vault'.stamp
                           /\ vop[o].stamp <= vault.stamp => vop[o].stamp <= vault'.stamp
    BY <1>1, <1>6, <2>3
  <2> QED BY <1>1, <1>3, <1>8, <2>1, <2>2, <2>4 DEF ProcessesOK
<1>10. PastOK'
  BY <1>1, <1>3 DEF PastOK, Race
<1>11. NothingLost'
  <2>1. InFile' \subseteq InFile \cup {op.edit} /\ raced \subseteq raced'
    BY <1>3, <1>8 DEF InFile, Race
  <2>2. \A o \in UpdateElsewhere(w) : op.edit \in raced'
    BY <1>2, <1>3, <1>5 DEF Race
  <2>3. \A o \in UpdateElsewhere(w) : (InFile \ raced)' \subseteq InFile \ raced
    BY <2>1, <2>2
  <2>4. Kept(vault.holds)'
    BY <1>4, <1>5, <1>6, <2>1 DEF Kept
  <2>5. Kept(vop[w].payload)'
    BY <1>6, <1>8, <2>4 DEF Kept
  <2> QED BY <1>1, <1>3, <1>6, <1>8, <2>3, <2>4, <2>5, OthersKeep
<1>12. KeysAgree'
  <2> SUFFICES ASSUME ~unsafe'
               PROVE  /\ VaultKeys'
                      /\ \A o \in Workers :
                           /\ session'[o] # 0 => vault'.mode = "passphrase" /\ session'[o] = vault'.key
                           /\ UpdateKeys(o)'
    BY DEF KeysAgree
  <2>1. /\ ~unsafe /\ ~(vault.mode = "passphrase" /\ op.file.mode = "keyfile") /\ VaultKeys
        /\ \A o \in Workers : /\ session[o] # 0 => vault.mode = "passphrase" /\ session[o] = vault.key
                              /\ UpdateKeys(o)
    BY <1>1, <1>3 DEF KeysAgree, PastOK
  <2>2. CASE op.file.mode = "passphrase"
    <3>1. vault.mode = "passphrase" /\ op.file.salt = vault.salt /\ op.key = vault.salt
          /\ vault.key = vault.salt
      BY <1>2, <1>3, <2>1, <2>2 DEF UpdateKeys, VaultKeys
    <3>2. vault'.mode = "passphrase" /\ vault'.key = vault.key /\ vault'.salt = vault.salt
      BY <1>6, <2>2, <3>1
    <3>3. VaultKeys'
      BY <3>1, <3>2 DEF VaultKeys
    <3>4. \A o \in Workers : UpdateKeys(o)'
      BY <1>3, <1>8, <2>1, <3>1, <3>2 DEF UpdateKeys
    <3> QED BY <1>3, <2>1, <3>2, <3>3, <3>4
  <2>3. CASE op.file.mode = "keyfile"
    <3>1. vault.mode # "passphrase" /\ op.key = keyFile /\ keyFile # 0
      BY <1>2, <1>3, <2>1, <2>3 DEF UpdateKeys
    <3>2. VaultKeys'
      BY <1>3, <1>6, <2>3, <3>1 DEF VaultKeys
    <3>3. \A o \in Workers : UpdateKeys(o)'
      BY <1>3, <1>6, <1>8, <2>1, <2>3, <3>1 DEF UpdateKeys
    <3> QED BY <1>3, <2>1, <3>1, <3>2, <3>3
  <2> QED BY <1>5, <2>2, <2>3
<1> QED BY <1>7, <1>9, <1>10, <1>11, <1>12 DEF VaultInv

LEMMA StampStep ==
  ASSUME VaultInv, NEW w \in Workers, Stamp(w)
  PROVE  VaultInv'
<1>1. VaultFileOK /\ ProcessesOK /\ PastOK /\ KeysAgree /\ NothingLost /\ made \in Nat
      /\ vault.stamp \in Nat
  BY DEF VaultInv, VaultFileOK, VaultsUpTo
<1>2. /\ UNCHANGED <<vault, keyFile, made, knows, session, raced, unsafe, faults>>
      /\ vpc[w] = "stamp" /\ Step(w, "idle", NoOp) /\ saved' = saved \cup {vop[w].edit}
  BY DEF Stamp
<1>3. /\ vop[w] \in VaultOps(made) /\ OpOK("stamp", vop[w]) /\ Kept(vop[w].payload)
  BY <1>1, <1>2 DEF ProcessesOK, NothingLost, KeptBy, HasPayload
<1>4. vop[w].edit \in Edits /\ vop[w].payload \subseteq Edits
  BY <1>3 DEF OpOK, VaultOps
<1>5. /\ vpc' \in [Workers -> VaultPlaces] /\ vop' \in [Workers -> VaultOps(made')]
      /\ vpc'[w] = "idle" /\ vop'[w] = NoOp
      /\ \A o \in Workers \ {w} : vpc'[o] = vpc[o] /\ vop'[o] = vop[o]
  BY <1>1, <1>2, NoOpType DEF ProcessesOK, Step, VaultPlaces
<1>6. PICK c : c = [stamp |-> vault.stamp, holds |-> vop[w].payload]
  OBVIOUS
<1>7. /\ cache' \in [Workers -> Caches] /\ cache'[w] = c /\ c.stamp = vault.stamp
      /\ c.holds = vop[w].payload /\ \A o \in Workers \ {w} : cache'[o] = cache[o]
  <2>1. c \in Caches
    BY <1>1, <1>4, <1>6 DEF Caches
  <2>2. cache' = [cache EXCEPT ![w] = c]
    BY <1>6 DEF Stamp, Remember
  <2> QED BY <1>1, <1>6, <2>1, <2>2 DEF ProcessesOK
<1>8. ProcessesOK'
  <2>1. \A o \in Workers : cache'[o].stamp <= vault'.stamp
    BY <1>1, <1>2, <1>7 DEF ProcessesOK
  <2> QED BY <1>1, <1>2, <1>5, <1>7, <2>1, NoOpType DEF ProcessesOK
<1>9. PastOK'
  BY <1>1, <1>2, <1>4 DEF PastOK
<1>10. PICK G : G = InFile \ raced
  OBVIOUS
<1>11. (InFile \ raced)' \subseteq G
  BY <1>2, <1>5, <1>10 DEF InFile
<1>12. \A S : Kept(S) => (InFile \ raced)' \subseteq S
  BY <1>10, <1>11 DEF Kept
<1>13. ASSUME NEW o \in Workers PROVE KeptBy(o)'
  <2>1. CASE o = w
    BY <1>2, <1>3, <1>5, <1>7, <1>12, <2>1 DEF KeptBy, HasPayload, Kept
  <2>2. CASE o # w
    BY <1>1, <1>2, <1>5, <1>7, <1>12, <2>2 DEF NothingLost, KeptBy, HasPayload, Kept
  <2> QED BY <2>1, <2>2
<1>14. NothingLost'
  BY <1>1, <1>2, <1>12, <1>13 DEF NothingLost, Kept
<1>15. KeysAgree'
  <2>1. UpdateKeys(w)'
    BY <1>5 DEF UpdateKeys
  <2> QED BY <1>1, <1>2, <1>5, <2>1, KeysStay
<1> QED BY <1>1, <1>2, <1>8, <1>9, <1>14, <1>15, FileStays DEF VaultInv, VaultFileOK

LEMMA RekeyStep ==
  ASSUME VaultInv, NEW w \in Workers, Rekey(w)
  PROVE  VaultInv'
<1>1. VaultFileOK /\ ProcessesOK /\ PastOK /\ KeysAgree /\ NothingLost /\ made \in Nat
      /\ vault.stamp \in Nat
  BY DEF VaultInv, VaultFileOK, VaultsUpTo
<1>2. PICK op : op = vop[w]
  OBVIOUS
<1>3. /\ vpc[w] = "prompt" /\ Race(w) /\ Step(w, "unlink", op)
      /\ UNCHANGED <<keyFile, knows, session, cache, saved, faults>> /\ made' = made + 1
      /\ vault' = [stamp |-> vault.stamp + 1, mode |-> "passphrase", salt |-> made + 1,
                   key |-> made + 1, holds |-> op.payload]
      /\ unsafe' = (unsafe \/ vault.mode = "passphrase")
  BY <1>2 DEF Rekey
<1>4. /\ op \in VaultOps(made) /\ OpOK("prompt", op) /\ op.stamp <= vault.stamp /\ Kept(op.payload)
  BY <1>1, <1>2, <1>3 DEF ProcessesOK, NothingLost, KeptBy, HasPayload
<1>5. /\ VaultOps(made) \subseteq VaultOps(made') /\ 0..made \subseteq 0..made'
      /\ made' \in Nat /\ made + 1 \in 0..made'
  BY <1>1, <1>3, VaultsGrow
<1>6. op.payload \subseteq Edits /\ op.stamp \in Nat /\ OpOK("unlink", op)
  BY <1>4 DEF OpOK, VaultOps
<1>7. /\ vault'.stamp = vault.stamp + 1 /\ vault'.mode = "passphrase" /\ vault'.salt = made + 1
      /\ vault'.key = made + 1 /\ vault'.holds = op.payload
  BY <1>3
<1>8. VaultFileOK'
  <2>1. vault' \in VaultsUpTo(made')
    BY <1>1, <1>3, <1>5, <1>6 DEF VaultsUpTo
  <2>2. vault' # NoVault
    BY <1>7 DEF NoVault
  <2> QED BY <1>1, <1>3, <1>5, <1>7, <2>1, <2>2 DEF VaultFileOK
<1>9. /\ vpc' \in [Workers -> VaultPlaces] /\ vop' \in [Workers -> VaultOps(made')]
      /\ vpc'[w] = "unlink" /\ vop'[w] = op
      /\ \A o \in Workers \ {w} : vpc'[o] = vpc[o] /\ vop'[o] = vop[o]
  BY <1>1, <1>3, <1>4, <1>5 DEF ProcessesOK, Step, VaultPlaces
<1>10. ProcessesOK'
  <2>1. \A o \in Workers : /\ cache[o].stamp <= vault.stamp /\ cache[o].stamp \in Int
                           /\ vop[o].stamp \in Nat
    BY <1>1 DEF ProcessesOK, Caches, VaultOps
  <2>2. \A o \in Workers : /\ cache[o].stamp <= vault'.stamp
                           /\ vop[o].stamp <= vault.stamp => vop[o].stamp <= vault'.stamp
    BY <1>1, <1>7, <2>1
  <2>3. session' \in [Workers -> 0..made']
    BY <1>1, <1>3, <1>5 DEF ProcessesOK
  <2> QED BY <1>1, <1>2, <1>3, <1>4, <1>6, <1>7, <1>9, <2>2, <2>3 DEF ProcessesOK
<1>11. PastOK'
  BY <1>1, <1>3 DEF PastOK, Race
<1>12. NothingLost'
  <2>1. (InFile \ raced)' \subseteq InFile \ raced
    BY <1>3, <1>9 DEF InFile, Race
  <2>2. Kept(vault.holds)'
    BY <1>4, <1>7, <2>1 DEF Kept
  <2> QED BY <1>1, <1>3, <1>7, <1>9, <2>1, <2>2, OthersKeep
<1>13. KeysAgree'
  <2> SUFFICES ASSUME ~unsafe'
               PROVE  /\ VaultKeys'
                      /\ \A o \in Workers :
                           /\ session'[o] # 0 => vault'.mode = "passphrase" /\ session'[o] = vault'.key
                           /\ UpdateKeys(o)'
    BY DEF KeysAgree
  <2>1. /\ ~unsafe /\ vault.mode # "passphrase"
        /\ \A o \in Workers : session[o] = 0 /\ UpdateKeys(o)
    BY <1>1, <1>3 DEF KeysAgree, PastOK
  <2>2. VaultKeys'
    BY <1>7 DEF VaultKeys
  <2>3. \A o \in Workers : UpdateKeys(o)'
    BY <1>7, <1>9, <2>1 DEF UpdateKeys
  <2> QED BY <1>3, <2>1, <2>2, <2>3
<1> QED BY <1>8, <1>10, <1>11, <1>12, <1>13 DEF VaultInv

(***************************************************************************)
(* A process ends; the vault is unlocked and locked                        *)
(***************************************************************************)
LEMMA GoneStep ==
  ASSUME VaultInv, NEW w \in Workers, Gone(w), UNCHANGED <<vault, made, saved, raced, unsafe>>,
         keyFile' \in {0, keyFile}, keyFile' # keyFile => vpc[w] = "unlink"
  PROVE  VaultInv'
<1>1. VaultFileOK /\ ProcessesOK /\ PastOK /\ KeysAgree /\ NothingLost /\ made \in Nat
      /\ made' \in Nat /\ made <= made' /\ keyFile \in 0..made
  BY DEF VaultInv, VaultFileOK
<1>2. Step(w, "idle", NoOp) /\ CachesFollow(w)
  BY <1>1, NoOpType DEF Gone, CachesFollow, ProcessesOK
<1>3. NoOp \in VaultOps(made') /\ OpOK("idle", NoOp) /\ "idle" \in VaultPlaces \ {"stamp"}
  BY <1>1, NoOpType DEF VaultPlaces
<1>4. /\ knows' \subseteq Workers /\ session' \in [Workers -> 0..made']
      /\ \A o \in Workers : session'[o] \in {0, session[o]}
  BY <1>1 DEF ProcessesOK, Gone
<1>5. /\ ProcessesOK' /\ NothingLost' /\ vpc'[w] = "idle"
      /\ \A o \in Workers \ {w} : vpc'[o] = vpc[o] /\ vop'[o] = vop[o]
  BY <1>1, <1>2, <1>3, <1>4, ProcessMoves
<1>6. UpdateKeys(w)'
  BY <1>5 DEF UpdateKeys
<1>7. KeysAgree'
  <2>1. CASE keyFile' = keyFile
    BY <1>1, <1>4, <1>5, <1>6, <2>1, KeysStay
  <2>2. CASE vpc[w] = "unlink"
    <3> SUFFICES ASSUME ~unsafe
                 PROVE  /\ VaultKeys'
                        /\ \A o \in Workers :
                             /\ session'[o] # 0 => vault'.mode = "passphrase" /\ session'[o] = vault'.key
                             /\ UpdateKeys(o)'
      BY DEF KeysAgree
    <3>1. /\ vault.mode = "passphrase" /\ VaultKeys
          /\ \A o \in Workers : (session[o] # 0 => session[o] = vault.key) /\ UpdateKeys(o)
      BY <1>1, <2>2 DEF KeysAgree, UpdateKeys
    <3>2. VaultKeys'
      BY <3>1 DEF VaultKeys
    <3>3. \A o \in Workers \ {w} : UpdateKeys(o)'
      BY <1>5, <3>1 DEF UpdateKeys
    <3> QED BY <1>4, <1>6, <3>1, <3>2, <3>3
  <2> QED BY <2>1, <2>2
<1>8. VaultFileOK'
  BY <1>1, FileStays
<1> QED BY <1>1, <1>5, <1>7, <1>8 DEF VaultInv, PastOK

LEMMA SessionStep ==
  ASSUME VaultInv, UNCHANGED <<vault, keyFile, made, vpc, vop, saved, raced, unsafe>>,
         knows' \subseteq Workers, session' \in [Workers -> 0..made],
         \A o \in Workers : session'[o] # 0 =>
           session'[o] = session[o] \/ (vault.mode = "passphrase" /\ session'[o] = vault.key),
         cache' \in [Workers -> Caches],
         \A o \in Workers : cache'[o] = cache[o] \/ cache'[o] = NoCache
  PROVE  VaultInv'
<1>1. VaultFileOK /\ ProcessesOK /\ PastOK /\ KeysAgree /\ NothingLost /\ made \in Nat
  BY DEF VaultInv, VaultFileOK
<1>2. \A o \in Workers : cache'[o].stamp <= vault.stamp
                         /\ (cache'[o].stamp = vault.stamp => Kept(cache'[o].holds))
  <2>1. PICK w : TRUE
    OBVIOUS
  <2>2. CachesFollow(w)
    BY DEF CachesFollow
  <2> QED BY <1>1, <2>2, CachesAfter
<1>3. ProcessesOK'
  BY <1>1, <1>2 DEF ProcessesOK
<1>4. \A S : Kept(S) => (InFile \ raced)' \subseteq S
  BY DEF Kept, InFile
<1>5. NothingLost'
  BY <1>1, <1>2, <1>4 DEF NothingLost, KeptBy, HasPayload, Kept
<1>6. KeysAgree'
  BY <1>1 DEF KeysAgree, VaultKeys, UpdateKeys
<1> QED BY <1>1, <1>3, <1>5, <1>6 DEF VaultInv, VaultFileOK, PastOK

LEMMA SessionsStep ==
  ASSUME VaultInv, NEW w \in Workers,
         \/ Unlock(w) \/ Tell(w) \/ Lock(w) \/ \E o \in Workers : Borrow(w, o)
  PROVE  VaultInv'
<1>1. /\ knows \subseteq Workers /\ session \in [Workers -> 0..made] /\ cache \in [Workers -> Caches]
      /\ made \in Nat /\ vault.key \in 0..made /\ 0 \in 0..made /\ NoCache \in Caches
  BY NoOpType DEF VaultInv, VaultFileOK, VaultsUpTo, ProcessesOK
<1>2. CASE Unlock(w)
  BY <1>1, <1>2, SessionStep DEF Unlock
<1>3. CASE Tell(w)
  BY <1>1, <1>3, SessionStep DEF Tell
<1>4. CASE Lock(w)
  BY <1>1, <1>4, SessionStep DEF Lock
<1>5. ASSUME NEW o \in Workers, Borrow(w, o) PROVE VaultInv'
  BY <1>1, <1>5, SessionStep DEF Borrow
<1> QED BY <1>2, <1>3, <1>4, <1>5

LEMMA VaultInvStep == VaultInv /\ [VaultNext]_<<vaultVars, faults>> => VaultInv'
<1> SUFFICES ASSUME VaultInv, [VaultNext]_<<vaultVars, faults>> PROVE VaultInv'
  OBVIOUS
<1>1. ASSUME NEW w \in Workers,
             \/ BeginSeal(w) \/ Load(w) \/ Key(w) \/ MakeKey(w) \/ SaveVault(w) \/ Write(w)
             \/ Stamp(w) \/ Rekey(w)
      PROVE  VaultInv'
  BY <1>1, BeginSealStep, LoadStep, KeyStep, MakeKeyStep, SaveStep, WriteStep, StampStep, RekeyStep
<1>2. ASSUME NEW w \in Workers, UnlinkKey(w) PROVE VaultInv'
  BY <1>2, GoneStep DEF UnlinkKey
<1>3. ASSUME NEW w \in Workers, VaultCrash(w) PROVE VaultInv'
  BY <1>3, GoneStep DEF VaultCrash
<1>4. CASE UNCHANGED <<vaultVars, faults>>
  <2>1. \A o \in Workers : session'[o] = session[o] /\ cache'[o] = cache[o]
    BY <1>4 DEF vaultVars
  <2>2. /\ UNCHANGED <<vault, keyFile, made, vpc, vop, saved, raced, unsafe>>
        /\ knows' \subseteq Workers /\ session' \in [Workers -> 0..made]
        /\ cache' \in [Workers -> Caches]
    BY <1>4 DEF vaultVars, VaultInv, ProcessesOK
  <2> QED BY <2>1, <2>2, SessionStep
<1> QED BY <1>1, <1>2, <1>3, <1>4, BeginStep, SessionsStep DEF VaultNext

LEMMA VaultInvAlways == VaultSpec => []VaultInv
<1>1. faults = 0 /\ VaultInit => VaultInv
  BY VaultInvInit
<1> QED BY <1>1, VaultInvStep, PTL DEF VaultSpec

(* For any number of processes, changes and crashes every variable of the   *)
(* vault keeps its type.                                                    *)
THEOREM VaultTypeCorrect == VaultSpec => []VaultTypeOK
<1>1. VaultInv => VaultTypeOK
  BY VaultInvIsType
<1> QED BY <1>1, VaultInvAlways, PTL

(* Whoever changes accounts, seals the vault, unlocks it, locks it and dies *)
(* at which system call: the vault opens with the key file or passphrase it *)
(* names, and holds each change whose update ended, but for races.          *)
THEOREM VaultIsKept == VaultSpec => []VaultKept
<1>1. VaultInv => VaultKept
  BY DEF VaultInv, KeysAgree, VaultKeys, NothingLost, Kept, InFile, VaultKept
<1> QED BY <1>1, VaultInvAlways, PTL

(***************************************************************************)
(* The asks and the ideas add up, for any number of asks, ideas, cards,    *)
(* workers and faults (Asks).                                              *)
(*                                                                         *)
(* Every copy of asks.json, the one on the disk and the one in each hand,  *)
(* adds up (AskFileOK), however they overwrite each other.  The cards      *)
(* need one at a time: an ask's open card is the one the file names, or    *)
(* the one in the hand of the worker that is about to name it (CardsKnown).*)
(***************************************************************************)
AskPlaces == {"idle", "feeds", "writer", "cloud", "archive"}
AskStates == {"none", "new", "drafted", "replied", "skipped"}
AskItem == [status : AskStates, topic : Topics \cup {NoTopic}, card : Cards \cup {NoCard}]
IdeaItem == [status : {"none", "watching", "build", "taken"}, asks : SUBSET Asked]
AskFiles == [seen : SUBSET Asked, ask : [Asked -> AskItem], idea : [Topics -> IdeaItem]]
Mines == [file : AskFiles, ask : Asked \cup {"none"}, card : Cards \cup {NoCard}]
CardStates == [ask : Asked \cup {"none"}, state : {"none", "open", "done", "gone"}]

(* What AddUp says, of any copy of the file *)
AddsUp(f) ==
  \A a \in Asked, i \in Topics :
    /\ a \in f.idea[i].asks <=> f.ask[a].topic = i
    /\ f.ask[a].topic = i => f.ask[a].status # "none" /\ f.idea[i].status # "none"

(* The card an ask names is its own, and an ask there is nothing to excuse   *)
(* of is not replied; on and ex stand for the cards and for the asks whose   *)
(* reply was pasted or that a person set by hand                            *)
CardsAreOwn(f, on) ==
  \A a \in Asked : f.ask[a].card # NoCard =>
    on[f.ask[a].card].ask = a /\ on[f.ask[a].card].state # "none"
RepliedIsPasted(f, ex) == \A a \in Asked \ ex : f.ask[a].status # "replied"

AskFileOK(f, on, ex) ==
  f \in AskFiles /\ AddsUp(f) /\ CardsAreOwn(f, on) /\ RepliedIsPasted(f, ex)

Excused == said \cup pasted

MineFits(where, m, on, ex) ==
  /\ AskFileOK(m.file, on, ex)
  /\ where \in {"writer", "cloud"} => m.ask \in Asked
  /\ where = "cloud" => m.card \in Cards /\ on[m.card].ask = m.ask /\ on[m.card].state # "none"

AskersOK ==
  /\ apc \in [Workers -> AskPlaces] /\ mine \in [Workers -> Mines]
  /\ \A w \in Workers : MineFits(apc[w], mine[w], cards, Excused)

CardsOK ==
  /\ cards \in [Cards -> CardStates]
  /\ \A c \in Cards : cards[c].state # "none" => cards[c].ask \in Asked
  /\ \A c \in Cards : cards[c].state = "done" => cards[c].ask \in pasted

AskWorldOK == pasted \subseteq Asked /\ said \subseteq Asked /\ strayed \in BOOLEAN

Names(f, a, c) == f.ask[a].status = "drafted" /\ f.ask[a].card = c
CardInHand(w, a, c) == apc[w] = "cloud" /\ mine[w].ask = a /\ mine[w].card = c
OpenFor(a) == {c \in Cards : cards[c].ask = a /\ cards[c].state = "open"}

AskerOK(w) ==
  /\ apc[w] # "idle" =>
       \A a \in Asked \ Excused : \A c \in OpenFor(a) : Names(mine[w].file, a, c) \/ CardInHand(w, a, c)
  /\ apc[w] = "writer" /\ mine[w].ask \notin Excused => OpenFor(mine[w].ask) = {}
  /\ apc[w] = "cloud" /\ mine[w].ask \notin Excused => OpenFor(mine[w].ask) \subseteq {mine[w].card}

CardsKnown ==
  \A a \in Asked \ Excused : \A c \in OpenFor(a) :
    Names(asks, a, c) \/ \E w \in Workers : CardInHand(w, a, c)

OneAtWork == \A v, w \in Workers : apc[v] # "idle" /\ apc[w] # "idle" => v = w

CardsInOrder == OneAtWork /\ CardsKnown /\ \A w \in Workers : AskerOK(w)

AsksInv ==
  /\ AskFileOK(asks, cards, Excused) /\ AskersOK /\ CardsOK /\ AskWorldOK
  /\ ~strayed => CardsInOrder

LEMMA AsksInvIsType == AsksInv => AsksTypeOK
BY DEF AsksInv, AskFileOK, AskersOK, CardsOK, AskWorldOK, AskPlaces, AskStates, AskItem, IdeaItem, AskFiles,
       CardStates, AsksTypeOK

LEMMA NoAsksOK ==
  ASSUME NEW on, NEW ex
  PROVE  AskFileOK(NoAsks, on, ex)
<1>1. NoAsks \in AskFiles
  <2>1. NoAsk \in AskItem /\ NoIdea \in IdeaItem
    BY DEF NoAsk, AskItem, AskStates, NoIdea, IdeaItem
  <2> QED BY <2>1 DEF NoAsks, AskFiles
<1>2. /\ \A a \in Asked : NoAsks.ask[a].topic = NoTopic /\ NoAsks.ask[a].card = NoCard
                         /\ NoAsks.ask[a].status = "none"
      /\ \A i \in Topics : NoAsks.idea[i].asks = {}
  BY DEF NoAsks, NoAsk, NoIdea
<1>3. NoTopic \notin Topics
  BY AsksAssumption DEF NoTopic
<1>4. AddsUp(NoAsks)
  BY <1>2, <1>3 DEF AddsUp
<1> QED BY <1>1, <1>2, <1>4 DEF AskFileOK, CardsAreOwn, RepliedIsPasted

LEMMA NotMineType ==
  ASSUME NEW on, NEW ex
  PROVE  NotMine \in Mines /\ MineFits("idle", NotMine, on, ex)
BY NoAsksOK DEF NotMine, Mines, MineFits, AskFileOK

(* A copy stays good as cards are marked, and more is excused *)
LEMMA FileStaysOK ==
  ASSUME NEW f, NEW on, NEW ex, AskFileOK(f, on, ex), NEW on2, NEW ex2, ex \subseteq ex2,
         \A c \in Cards : on[c].state # "none" => on2[c].ask = on[c].ask /\ on2[c].state # "none"
  PROVE  AskFileOK(f, on2, ex2)
<1>1. \A a \in Asked : f.ask[a].card \in Cards \cup {NoCard}
  BY DEF AskFileOK, AskFiles, AskItem
<1>2. CardsAreOwn(f, on2)
  BY <1>1 DEF AskFileOK, CardsAreOwn
<1>3. RepliedIsPasted(f, ex2)
  BY DEF AskFileOK, RepliedIsPasted
<1> QED BY <1>2, <1>3 DEF AskFileOK

(* Each ask of g is one of f, or a card-less one that is not replied *)
LEMMA LikeOK ==
  ASSUME NEW f, NEW on, NEW ex, AskFileOK(f, on, ex), NEW g \in AskFiles, AddsUp(g),
         \A a \in Asked : \/ g.ask[a].card = f.ask[a].card \/ g.ask[a].card = NoCard,
         \A a \in Asked \ ex : g.ask[a].status = "replied" => f.ask[a].status = "replied"
  PROVE  AskFileOK(g, on, ex)
<1>1. CardsAreOwn(g, on)
  BY DEF AskFileOK, CardsAreOwn
<1>2. RepliedIsPasted(g, ex)
  BY DEF AskFileOK, RepliedIsPasted
<1> QED BY <1>1, <1>2 DEF AskFileOK

LEMMA FileParts ==
  ASSUME NEW f \in AskFiles
  PROVE  /\ f.seen \subseteq Asked /\ f.ask \in [Asked -> AskItem] /\ f.idea \in [Topics -> IdeaItem]
         /\ f = [seen |-> f.seen, ask |-> f.ask, idea |-> f.idea]
BY DEF AskFiles

LEMMA WithoutOK ==
  ASSUME NEW f, NEW on, NEW ex, AskFileOK(f, on, ex), NEW gone \in SUBSET Asked,
         NEW g, g = Without(f, gone)
  PROVE  AskFileOK(g, on, ex) /\ \A a \in Asked \ gone : g.ask[a] = f.ask[a]
<1>1. /\ f \in AskFiles /\ f.seen \subseteq Asked /\ f.ask \in [Asked -> AskItem]
      /\ f.idea \in [Topics -> IdeaItem] /\ AddsUp(f)
  BY FileParts DEF AskFileOK
<1>2. PICK its : its = [a \in Asked |-> IF a \in gone THEN NoAsk ELSE f.ask[a]]
  OBVIOUS
<1>3. PICK ids : ids = [i \in Topics |->
                IF f.idea[i].asks \ gone = {} /\ f.idea[i].status = "watching" THEN NoIdea
                ELSE [f.idea[i] EXCEPT !.asks = f.idea[i].asks \ gone]]
  OBVIOUS
<1>4. g = [f EXCEPT !.ask = its, !.idea = ids]
  BY <1>2, <1>3 DEF Without
<1>5. g = [seen |-> f.seen, ask |-> its, idea |-> ids]
  BY <1>1, <1>4 DEF AskFiles
<1>6. NoAsk \in AskItem /\ NoIdea \in IdeaItem
  BY DEF NoAsk, AskItem, AskStates, NoIdea, IdeaItem
<1>7. its \in [Asked -> AskItem] /\ ids \in [Topics -> IdeaItem]
  BY <1>1, <1>2, <1>3, <1>6 DEF IdeaItem
<1>8. /\ \A a \in Asked \ gone : its[a] = f.ask[a]
      /\ \A a \in gone : its[a] = NoAsk
  BY <1>2
<1>9. \A i \in Topics :
        \/ /\ ids[i] = NoIdea /\ f.idea[i].asks \ gone = {}
        \/ ids[i].status = f.idea[i].status /\ ids[i].asks = f.idea[i].asks \ gone
  BY <1>1, <1>3 DEF IdeaItem
<1>10. NoTopic \notin Topics
  BY AsksAssumption DEF NoTopic
<1>11. AddsUp(g)
  <2> SUFFICES ASSUME NEW a \in Asked, NEW i \in Topics
               PROVE  /\ a \in ids[i].asks <=> its[a].topic = i
                      /\ its[a].topic = i => its[a].status # "none" /\ ids[i].status # "none"
    BY <1>5 DEF AddsUp
  <2>1. /\ a \in f.idea[i].asks <=> f.ask[a].topic = i
        /\ f.ask[a].topic = i => f.ask[a].status # "none" /\ f.idea[i].status # "none"
    BY <1>1 DEF AddsUp
  <2>2. a \in ids[i].asks <=> (a \in f.idea[i].asks /\ a \notin gone)
    BY <1>9 DEF NoIdea
  <2>3. its[a].topic = i <=> (f.ask[a].topic = i /\ a \notin gone)
    BY <1>8, <1>10 DEF NoAsk
  <2>4. a \in ids[i].asks => ids[i].status # "none"
    BY <1>9, <2>1, <2>2 DEF NoIdea
  <2> QED BY <1>8, <2>1, <2>2, <2>3, <2>4
<1>12. g \in AskFiles /\ g.ask = its
  BY <1>1, <1>5, <1>7 DEF AskFiles
<1>13. \A a \in Asked : g.ask[a].card = f.ask[a].card \/ g.ask[a].card = NoCard
  BY <1>8, <1>12 DEF NoAsk
<1>14. \A a \in Asked \ ex : g.ask[a].status = "replied" => f.ask[a].status = "replied"
  BY <1>8, <1>12 DEF NoAsk
<1> QED BY <1>8, <1>11, <1>12, <1>13, <1>14, LikeOK

(* The statuses and the cards of asks change; their topics do not *)
LEMMA AskSetOK ==
  ASSUME NEW f, NEW on, NEW ex, AskFileOK(f, on, ex), NEW its \in [Asked -> AskItem],
         NEW g, g = [f EXCEPT !.ask = its],
         \A a \in Asked : its[a].topic = f.ask[a].topic,
         \A a \in Asked : f.ask[a].status # "none" => its[a].status # "none",
         \A a \in Asked : \/ its[a].card = f.ask[a].card \/ its[a].card = NoCard
                          \/ on[its[a].card].ask = a /\ on[its[a].card].state # "none",
         \A a \in Asked \ ex : its[a].status = "replied" => f.ask[a].status = "replied"
  PROVE  AskFileOK(g, on, ex) /\ g.ask = its
<1>1. f \in AskFiles /\ AddsUp(f) /\ CardsAreOwn(f, on) /\ RepliedIsPasted(f, ex)
  BY DEF AskFileOK
<1>2. g = [seen |-> f.seen, ask |-> its, idea |-> f.idea]
  BY <1>1 DEF AskFiles
<1>3. g \in AskFiles /\ g.ask = its /\ g.idea = f.idea
  BY <1>1, <1>2 DEF AskFiles
<1>4. AddsUp(g)
  BY <1>1, <1>3 DEF AddsUp
<1>5. CardsAreOwn(g, on)
  BY <1>1, <1>3 DEF CardsAreOwn
<1>6. RepliedIsPasted(g, ex)
  BY <1>1, <1>3 DEF RepliedIsPasted
<1> QED BY <1>3, <1>4, <1>5, <1>6 DEF AskFileOK

(* What writeAsks drops was new or skipped *)
LEMMA WriteAsksOK ==
  ASSUME NEW f, NEW on, NEW ex, AskFileOK(f, on, ex), writeAsks(f)
  PROVE  /\ AskFileOK(asks', on, ex)
         /\ \A a \in Asked : f.ask[a].status = "drafted" => asks'.ask[a] = f.ask[a]
<1>1. CASE asks' = f
  BY <1>1
<1>2. CASE asks' # f
  <2>1. PICK gone \in SUBSET {a \in Asked : f.ask[a].status \in {"new", "skipped"}} :
          asks' = Without(f, gone)
    BY <1>2 DEF writeAsks
  <2>2. gone \in SUBSET Asked
    BY <2>1
  <2>3. /\ AskFileOK(asks', on, ex)
        /\ \A a \in Asked \ gone : asks'.ask[a] = f.ask[a]
    BY <2>1, <2>2, WithoutOK
  <2> QED BY <2>1, <2>3
<1> QED BY <1>1, <1>2

LEMMA SeenOK ==
  ASSUME NEW f, NEW on, NEW ex, AskFileOK(f, on, ex), NEW judged \in SUBSET Asked,
         NEW g, g = [f EXCEPT !.seen = f.seen \cup judged]
  PROVE  AskFileOK(g, on, ex) /\ g.ask = f.ask
<1>1. f \in AskFiles /\ AddsUp(f) /\ CardsAreOwn(f, on) /\ RepliedIsPasted(f, ex)
  BY DEF AskFileOK
<1>2. g = [seen |-> f.seen \cup judged, ask |-> f.ask, idea |-> f.idea]
  BY <1>1 DEF AskFiles
<1>3. g \in AskFiles /\ g.ask = f.ask /\ g.idea = f.idea
  BY <1>1, <1>2 DEF AskFiles
<1> QED BY <1>1, <1>3 DEF AskFileOK, AddsUp, CardsAreOwn, RepliedIsPasted

(* Ideas change their status, and none is dropped *)
LEMMA IdeaSetOK ==
  ASSUME NEW f, NEW on, NEW ex, AskFileOK(f, on, ex), NEW ids \in [Topics -> IdeaItem],
         NEW g, g = [f EXCEPT !.idea = ids],
         \A i \in Topics : ids[i].asks = f.idea[i].asks,
         \A i \in Topics : f.idea[i].status # "none" => ids[i].status # "none"
  PROVE  AskFileOK(g, on, ex) /\ g.ask = f.ask
<1>1. f \in AskFiles /\ AddsUp(f) /\ CardsAreOwn(f, on) /\ RepliedIsPasted(f, ex)
  BY DEF AskFileOK
<1>2. g = [seen |-> f.seen, ask |-> f.ask, idea |-> ids]
  BY <1>1 DEF AskFiles
<1>3. g \in AskFiles /\ g.ask = f.ask /\ g.idea = ids
  BY <1>1, <1>2 DEF AskFiles
<1>4. AddsUp(g)
  BY <1>1, <1>3 DEF AddsUp
<1> QED BY <1>1, <1>3, <1>4 DEF AskFileOK, CardsAreOwn, RepliedIsPasted

LEMMA FlaggedOK ==
  ASSUME NEW f, NEW on, NEW ex, AskFileOK(f, on, ex), NEW g \in Flagged(f)
  PROVE  AskFileOK(g, on, ex) /\ g.ask = f.ask
<1>1. PICK now : g = [f EXCEPT !.idea = [i \in Topics |->
                        IF i \in now THEN [f.idea[i] EXCEPT !.status = "build"] ELSE f.idea[i]]]
  BY DEF Flagged
<1>2. PICK ids : ids = [i \in Topics |->
                        IF i \in now THEN [f.idea[i] EXCEPT !.status = "build"] ELSE f.idea[i]]
  OBVIOUS
<1>3. f.idea \in [Topics -> IdeaItem]
  BY FileParts DEF AskFileOK
<1>4. \A i \in Topics :
        \/ ids[i] = f.idea[i]
        \/ ids[i] = [status |-> "build", asks |-> f.idea[i].asks]
  BY <1>2, <1>3 DEF IdeaItem
<1>5. ASSUME NEW i \in Topics
      PROVE  /\ ids[i] \in IdeaItem /\ ids[i].asks = f.idea[i].asks
             /\ f.idea[i].status # "none" => ids[i].status # "none"
  <2>1. f.idea[i] \in IdeaItem
    BY <1>3
  <2>2. CASE ids[i] = f.idea[i]
    BY <2>1, <2>2
  <2>3. CASE ids[i] = [status |-> "build", asks |-> f.idea[i].asks]
    BY <2>1, <2>3 DEF IdeaItem
  <2> QED BY <1>4, <2>2, <2>3
<1>6. ids \in [Topics -> IdeaItem]
  BY <1>2, <1>5
<1>7. g = [f EXCEPT !.idea = ids]
  BY <1>1, <1>2
<1>8. /\ \A i \in Topics : ids[i].asks = f.idea[i].asks
      /\ \A i \in Topics : f.idea[i].status # "none" => ids[i].status # "none"
  BY <1>5
<1> QED BY <1>6, <1>7, <1>8, IdeaSetOK

(* What is filed was not there *)
LEMMA FiledOK ==
  ASSUME NEW f, NEW on, NEW ex, AskFileOK(f, on, ex), NEW kept \in SUBSET Asked,
         \A a \in kept : f.ask[a].status = "none",
         NEW topic \in [kept -> Topics \cup {NoTopic}]
  PROVE  /\ AskFileOK(Filed(f, topic), on, ex)
         /\ \A a \in Asked : f.ask[a].status = "drafted" => Filed(f, topic).ask[a] = f.ask[a]
<1>1. f \in AskFiles /\ AddsUp(f) /\ f.ask \in [Asked -> AskItem] /\ f.idea \in [Topics -> IdeaItem]
  BY FileParts DEF AskFileOK
<1>2. PICK its : its = [a \in Asked |-> IF a \in DOMAIN topic
                          THEN [NoAsk EXCEPT !.status = "new", !.topic = topic[a]] ELSE f.ask[a]]
  OBVIOUS
<1>3. PICK ids : ids = [i \in Topics |->
                LET new == {a \in DOMAIN topic : topic[a] = i} IN
                IF new = {} THEN f.idea[i]
                ELSE [status |-> IF f.idea[i].status = "none" THEN "watching" ELSE f.idea[i].status,
                      asks |-> f.idea[i].asks \cup new]]
  OBVIOUS
<1>4. PICK g : g = [f EXCEPT !.ask = its, !.idea = ids]
  OBVIOUS
<1>5. g = Filed(f, topic)
  BY <1>2, <1>3, <1>4 DEF Filed
<1>6. g = [seen |-> f.seen, ask |-> its, idea |-> ids]
  BY <1>1, <1>4 DEF AskFiles
<1>7. /\ \A a \in Asked \ kept : its[a] = f.ask[a]
      /\ \A a \in kept : its[a] = [status |-> "new", topic |-> topic[a], card |-> NoCard]
  BY <1>2 DEF NoAsk
<1>7a. \A a \in kept : its[a].status = "new" /\ its[a].topic = topic[a] /\ its[a].card = NoCard
  <2> SUFFICES ASSUME NEW a \in kept
               PROVE  its[a].status = "new" /\ its[a].topic = topic[a] /\ its[a].card = NoCard
    OBVIOUS
  <2>1. its[a] = [status |-> "new", topic |-> topic[a], card |-> NoCard]
    BY <1>7
  <2> QED BY <2>1
<1>8. \A i \in Topics :
        /\ ids[i].asks = f.idea[i].asks \cup {a \in kept : topic[a] = i}
        /\ \/ ids[i].status = f.idea[i].status
           \/ ids[i].status = "watching" /\ f.idea[i].status = "none"
        /\ {a \in kept : topic[a] = i} # {} => ids[i].status # "none"
  <2> SUFFICES ASSUME NEW i \in Topics
               PROVE  /\ ids[i].asks = f.idea[i].asks \cup {a \in kept : topic[a] = i}
                      /\ \/ ids[i].status = f.idea[i].status
                         \/ ids[i].status = "watching" /\ f.idea[i].status = "none"
                      /\ {a \in kept : topic[a] = i} # {} => ids[i].status # "none"
    OBVIOUS
  <2>1. CASE {a \in kept : topic[a] = i} = {}
    BY <1>3, <2>1
  <2>2. CASE {a \in kept : topic[a] = i} # {}
    BY <1>3, <2>2
  <2> QED BY <2>1, <2>2
<1>9. its \in [Asked -> AskItem]
  <2>1. ASSUME NEW a \in Asked
        PROVE  its[a] \in AskItem
    <3>1. CASE a \in kept
      <4>1. topic[a] \in Topics \cup {NoTopic} /\ "new" \in AskStates
        BY <3>1 DEF AskStates
      <4>2. its[a] = [status |-> "new", topic |-> topic[a], card |-> NoCard]
        BY <1>7, <3>1
      <4> QED BY <4>1, <4>2 DEF AskItem
    <3>2. CASE a \notin kept
      BY <1>1, <1>7, <3>2
    <3> QED BY <3>1, <3>2
  <2> QED BY <1>2, <2>1
<1>10. ids \in [Topics -> IdeaItem]
  <2> SUFFICES ASSUME NEW i \in Topics PROVE ids[i] \in IdeaItem
    BY <1>3
  <2>1. f.idea[i] \in IdeaItem
    BY <1>1
  <2>2. CASE {a \in kept : topic[a] = i} = {}
    BY <1>3, <2>1, <2>2
  <2>3. CASE {a \in kept : topic[a] = i} # {}
    BY <1>3, <2>1, <2>3 DEF IdeaItem
  <2> QED BY <2>2, <2>3
<1>11. g \in AskFiles /\ g.ask = its /\ g.idea = ids
  BY <1>1, <1>6, <1>9, <1>10 DEF AskFiles
<1>12. AddsUp(g)
  <2> SUFFICES ASSUME NEW a \in Asked, NEW i \in Topics
               PROVE  /\ a \in ids[i].asks <=> its[a].topic = i
                      /\ its[a].topic = i => its[a].status # "none" /\ ids[i].status # "none"
    BY <1>11 DEF AddsUp
  <2>1. /\ a \in f.idea[i].asks <=> f.ask[a].topic = i
        /\ f.ask[a].topic = i => f.ask[a].status # "none" /\ f.idea[i].status # "none"
    BY <1>1 DEF AddsUp
  <2>2. CASE a \in kept
    <3>1. a \notin f.idea[i].asks
      BY <2>1, <2>2
    <3>2. a \in ids[i].asks <=> topic[a] = i
      BY <1>8, <2>2, <3>1
    <3>3. topic[a] = i => ids[i].status # "none"
      BY <1>8, <2>2
    <3> QED BY <1>7a, <2>2, <3>2, <3>3
  <2>3. CASE a \notin kept
    BY <1>7, <1>8, <2>1, <2>3
  <2> QED BY <2>2, <2>3
<1>13. \A a \in Asked : g.ask[a].card = f.ask[a].card \/ g.ask[a].card = NoCard
  BY <1>7, <1>11, <1>7a
<1>14. \A a \in Asked \ ex : g.ask[a].status = "replied" => f.ask[a].status = "replied"
  BY <1>7, <1>11, <1>7a
<1>15. \A a \in Asked : f.ask[a].status = "drafted" => g.ask[a] = f.ask[a]
  BY <1>7, <1>11, <1>7a
<1> QED BY <1>5, <1>11, <1>12, <1>13, <1>14, <1>15, LikeOK

(* A card that is done was pasted, so only an ask that is excused changes *)
LEMMA SyncOK ==
  ASSUME NEW f, NEW ex, AskFileOK(f, cards, ex), CardsOK, pasted \subseteq ex
  PROVE  /\ AskFileOK(syncReplies(f), cards, ex)
         /\ \A a \in Asked \ ex : syncReplies(f).ask[a] = f.ask[a]
<1>1. f \in AskFiles /\ f.ask \in [Asked -> AskItem] /\ CardsAreOwn(f, cards)
  BY FileParts DEF AskFileOK
<1>2. PICK its : its = [a \in Asked |-> IF f.ask[a].status = "drafted" /\ Done(f.ask[a].card)
                                     THEN [f.ask[a] EXCEPT !.status = "replied"] ELSE f.ask[a]]
  OBVIOUS
<1>3. syncReplies(f) = [f EXCEPT !.ask = its]
  BY <1>2 DEF syncReplies
<1>4. ASSUME NEW a \in Asked
      PROVE  /\ its[a] \in AskItem /\ its[a].topic = f.ask[a].topic /\ its[a].card = f.ask[a].card
             /\ f.ask[a].status # "none" => its[a].status # "none"
             /\ a \notin ex => its[a] = f.ask[a]
  <2>1. f.ask[a] \in AskItem
    BY <1>1
  <2>2. CASE f.ask[a].status = "drafted" /\ Done(f.ask[a].card)
    <3>1. its[a] = [status |-> "replied", topic |-> f.ask[a].topic, card |-> f.ask[a].card]
      BY <1>2, <2>1, <2>2 DEF AskItem
    <3>2. f.ask[a].card \in Cards
      BY <2>1, <2>2 DEF AskItem, Done
    <3>3. cards[f.ask[a].card].ask = a
      BY <1>1, <2>2 DEF CardsAreOwn, Done
    <3>4. a \in ex
      BY <2>2, <3>2, <3>3 DEF Done, CardsOK
    <3>5. "replied" \in AskStates
      BY DEF AskStates
    <3> QED BY <2>1, <3>1, <3>4, <3>5 DEF AskItem
  <2>3. CASE ~(f.ask[a].status = "drafted" /\ Done(f.ask[a].card))
    <3>1. its[a] = f.ask[a]
      BY <1>2, <2>3
    <3> QED BY <2>1, <3>1
  <2> QED BY <2>2, <2>3
<1>5. its \in [Asked -> AskItem]
  BY <1>2, <1>4
<1>6. /\ \A a \in Asked : its[a].topic = f.ask[a].topic
      /\ \A a \in Asked : f.ask[a].status # "none" => its[a].status # "none"
      /\ \A a \in Asked : its[a].card = f.ask[a].card
      /\ \A a \in Asked \ ex : its[a] = f.ask[a]
  BY <1>4
<1>7. AskFileOK(syncReplies(f), cards, ex) /\ syncReplies(f).ask = its
  BY <1>3, <1>5, <1>6, AskSetOK
<1> QED BY <1>6, <1>7

(* A worker that starts has the file to itself, or the cards no longer count *)
LEMMA AskRead ==
  ASSUME AsksInv, NEW w \in Workers, NEW where \in AskPlaces \ {"idle", "cloud"}, NEW m \in Mines,
         readAsks(w, where, m), UNCHANGED <<asks, cards, pasted>>,
         said \subseteq said', said' \subseteq Asked, MineFits(where, m, cards, said' \cup pasted),
         \A a \in Asked \ (said' \cup pasted) : \A c \in OpenFor(a) :
           Names(asks, a, c) => Names(m.file, a, c),
         ~strayed' /\ where = "writer" /\ m.ask \notin said' \cup pasted => OpenFor(m.ask) = {}
  PROVE  AsksInv'
<1>1. /\ AskFileOK(asks, cards, Excused) /\ AskersOK /\ CardsOK /\ AskWorldOK
      /\ ~strayed => CardsInOrder
  BY DEF AsksInv
<1>2. /\ apc[w] = "idle" /\ apc' = [apc EXCEPT ![w] = where] /\ mine' = [mine EXCEPT ![w] = m]
      /\ strayed' = (strayed \/ AtWork(Workers \ {w}))
  BY DEF readAsks, Holding
<1>3. Excused \subseteq Excused' /\ Excused' = said' \cup pasted
  BY DEF Excused
<1>4. AskFileOK(asks, cards, Excused)'
  <2>1. AskFileOK(asks, cards, Excused')
    BY <1>1, <1>3, FileStaysOK
  <2> QED BY <2>1
<1>5. /\ apc[w]' = where /\ mine[w]' = m
      /\ \A v \in Workers \ {w} : apc[v]' = apc[v] /\ mine[v]' = mine[v]
      /\ apc' \in [Workers -> AskPlaces] /\ mine' \in [Workers -> Mines]
  BY <1>1, <1>2 DEF AskersOK
<1>6. AskersOK'
  <2>1. ASSUME NEW v \in Workers
        PROVE  MineFits(apc'[v], mine'[v], cards, Excused')
    <3>1. CASE v = w
      BY <1>3, <1>5, <3>1
    <3>2. CASE v # w
      <4>1. MineFits(apc[v], mine[v], cards, Excused)
        BY <1>1 DEF AskersOK
      <4>2. AskFileOK(mine[v].file, cards, Excused')
        BY <1>3, <4>1, FileStaysOK DEF MineFits
      <4> QED BY <1>5, <3>2, <4>1, <4>2 DEF MineFits
    <3> QED BY <3>1, <3>2
  <2> QED BY <1>5, <2>1 DEF AskersOK
<1>7. CardsOK' /\ AskWorldOK'
  BY <1>1, <1>2 DEF CardsOK, AskWorldOK
<1>8. ASSUME ~strayed'
      PROVE  CardsInOrder'
  <2>1. CardsInOrder /\ \A v \in Workers : apc[v] = "idle"
    BY <1>1, <1>2, <1>8 DEF AtWork
  <2>2. \A v \in Workers \ {w} : apc'[v] = "idle"
    BY <1>5, <2>1
  <2>3. OneAtWork'
    BY <2>2 DEF OneAtWork
  <2>4. \A a : OpenFor(a)' = OpenFor(a)
    BY DEF OpenFor
  <2>5. \A a \in Asked \ Excused' : \A c \in OpenFor(a) : Names(asks, a, c) /\ Names(m.file, a, c)
    BY <1>3, <2>1 DEF CardsInOrder, CardsKnown, CardInHand
  <2>6. CardsKnown'
    BY <2>4, <2>5 DEF CardsKnown, Names
  <2>7. ASSUME NEW v \in Workers
        PROVE  AskerOK(v)'
    <3>1. CASE v # w
      BY <2>2, <3>1 DEF AskerOK
    <3>2. CASE v = w
      <4>1. \A a \in Asked \ Excused' : \A c \in OpenFor(a)' : Names(mine'[w].file, a, c)
        BY <1>5, <2>4, <2>5
      <4>2. apc'[w] = "writer" /\ mine'[w].ask \notin Excused' => OpenFor(m.ask) = {}
        BY <1>3, <1>5, <1>8, <2>4
      <4>3. mine'[w].ask = m.ask /\ OpenFor(mine[w].ask)' = OpenFor(m.ask)
        BY <1>5 DEF OpenFor
      <4> QED BY <1>5, <3>2, <4>1, <4>2, <4>3 DEF AskerOK, Names
    <3> QED BY <3>1, <3>2
  <2> QED BY <2>3, <2>6, <2>7 DEF CardsInOrder
<1> QED BY <1>4, <1>6, <1>7, <1>8 DEF AsksInv

(* A worker that writes its copy and is done with it *)
LEMMA AskWritten ==
  ASSUME AsksInv, NEW w \in Workers, apc[w] # "idle", NEW f, Written(w, f),
         UNCHANGED <<cards, pasted, said, strayed>>, AskFileOK(f, cards, Excused),
         ~strayed => \A a \in Asked \ Excused : \A c \in OpenFor(a) : Names(f, a, c)
  PROVE  AsksInv'
<1>1. /\ AskersOK /\ CardsOK /\ AskWorldOK
      /\ ~strayed => CardsInOrder
  BY DEF AsksInv
<1>2. Excused' = Excused
  BY DEF Excused
<1>3. apc' = [apc EXCEPT ![w] = "idle"] /\ mine' = [mine EXCEPT ![w] = NotMine]
  BY DEF Written, Holding
<1>4. /\ AskFileOK(asks', cards, Excused)
      /\ \A a \in Asked : f.ask[a].status = "drafted" => asks'.ask[a] = f.ask[a]
  BY WriteAsksOK DEF Written
<1>5. AskFileOK(asks, cards, Excused)'
  BY <1>2, <1>4
<1>6. /\ apc[w]' = "idle" /\ mine[w]' = NotMine
      /\ \A v \in Workers \ {w} : apc[v]' = apc[v] /\ mine[v]' = mine[v]
  BY <1>1, <1>3 DEF AskersOK
<1>7. NotMine \in Mines /\ MineFits("idle", NotMine, cards, Excused)
  BY NotMineType
<1>8. apc' \in [Workers -> AskPlaces] /\ mine' \in [Workers -> Mines]
  BY <1>1, <1>3, <1>7 DEF AskersOK, AskPlaces
<1>9. AskersOK'
  <2>1. ASSUME NEW v \in Workers
        PROVE  MineFits(apc'[v], mine'[v], cards, Excused)
    <3>1. CASE v = w
      BY <1>6, <1>7, <3>1
    <3>2. CASE v # w
      BY <1>1, <1>6, <3>2 DEF AskersOK
    <3> QED BY <3>1, <3>2
  <2> QED BY <1>2, <1>8, <2>1 DEF AskersOK
<1>10. CardsOK' /\ AskWorldOK'
  BY <1>1 DEF CardsOK, AskWorldOK
<1>11. ASSUME ~strayed'
       PROVE  CardsInOrder'
  <2>1. CardsInOrder
    BY <1>1, <1>11
  <2>2. \A v \in Workers : apc'[v] = "idle"
    BY <1>6, <2>1 DEF CardsInOrder, OneAtWork
  <2>3. OneAtWork' /\ \A v \in Workers : AskerOK(v)'
    BY <2>2 DEF OneAtWork, AskerOK
  <2>4. \A a : OpenFor(a)' = OpenFor(a)
    BY DEF OpenFor
  <2>5. CardsKnown'
    BY <1>2, <1>4, <1>11, <2>4 DEF CardsKnown, Names
  <2> QED BY <2>1, <2>3, <2>5 DEF CardsInOrder
<1> QED BY <1>5, <1>9, <1>10, <1>11 DEF AsksInv

(* A command that reads and writes at once: past it nobody has a copy, or   *)
(* the cards no longer count                                                *)
LEMMA AskAtOnce ==
  ASSUME AsksInv, NEW f, AtOnce(f), said \subseteq said', said' \subseteq Asked,
         AskFileOK(f, cards, said' \cup pasted),
         \A a \in Asked \ (said' \cup pasted) : \A c \in OpenFor(a) :
           Names(asks, a, c) => Names(f, a, c)
  PROVE  AsksInv'
<1>1. /\ AskersOK /\ CardsOK /\ AskWorldOK
      /\ ~strayed => CardsInOrder
  BY DEF AsksInv
<1>2. /\ UNCHANGED <<cards, apc, mine, pasted>> /\ writeAsks(f)
      /\ strayed' = (strayed \/ AtWork(Workers))
  BY DEF AtOnce
<1>3. Excused \subseteq Excused' /\ Excused' = said' \cup pasted
  BY <1>2 DEF Excused
<1>4. /\ AskFileOK(asks', cards, Excused')
      /\ \A a \in Asked : f.ask[a].status = "drafted" => asks'.ask[a] = f.ask[a]
  BY <1>2, <1>3, WriteAsksOK
<1>5. AskFileOK(asks, cards, Excused)'
  BY <1>2, <1>4
<1>6. AskersOK'
  <2>1. ASSUME NEW v \in Workers
        PROVE  MineFits(apc[v], mine[v], cards, Excused')
    <3>1. MineFits(apc[v], mine[v], cards, Excused)
      BY <1>1 DEF AskersOK
    <3>2. AskFileOK(mine[v].file, cards, Excused')
      BY <1>3, <3>1, FileStaysOK DEF MineFits
    <3> QED BY <3>1, <3>2 DEF MineFits
  <2> QED BY <1>1, <1>2, <2>1 DEF AskersOK
<1>7. CardsOK' /\ AskWorldOK'
  BY <1>1, <1>2 DEF CardsOK, AskWorldOK
<1>8. ASSUME ~strayed'
      PROVE  CardsInOrder'
  <2>1. CardsInOrder /\ \A v \in Workers : apc[v] = "idle" /\ apc'[v] = "idle"
    BY <1>1, <1>2, <1>8 DEF AtWork
  <2>2. OneAtWork' /\ \A v \in Workers : AskerOK(v)'
    BY <2>1 DEF OneAtWork, AskerOK
  <2>3. \A a : OpenFor(a)' = OpenFor(a)
    BY <1>2 DEF OpenFor
  <2>4. \A a \in Asked \ Excused' : \A c \in OpenFor(a) : Names(asks, a, c)
    BY <1>3, <2>1 DEF CardsInOrder, CardsKnown, CardInHand
  <2>5. \A a \in Asked \ Excused' : \A c \in OpenFor(a) : Names(f, a, c)
    BY <1>3, <2>4
  <2>6. CardsKnown'
    BY <1>4, <2>3, <2>5 DEF CardsKnown, Names
  <2> QED BY <2>2, <2>6 DEF CardsInOrder
<1> QED BY <1>5, <1>6, <1>7, <1>8 DEF AsksInv

(* A worker lets go of its copy, unless with a card that nothing names yet *)
LEMMA AskLetGo ==
  ASSUME AsksInv, NEW w \in Workers, apc[w] # "idle", Holding(w, "idle", NotMine),
         UNCHANGED <<asks, cards, pasted, said>>, strayed' \in BOOLEAN,
         ~strayed' => ~strayed /\ apc[w] # "cloud"
  PROVE  AsksInv'
<1>1. /\ AskFileOK(asks, cards, Excused) /\ AskersOK /\ CardsOK /\ AskWorldOK
      /\ ~strayed => CardsInOrder
  BY DEF AsksInv
<1>2. Excused' = Excused
  BY DEF Excused
<1>3. apc' = [apc EXCEPT ![w] = "idle"] /\ mine' = [mine EXCEPT ![w] = NotMine]
  BY DEF Holding
<1>4. AskFileOK(asks, cards, Excused)'
  BY <1>1, <1>2
<1>5. /\ apc[w]' = "idle" /\ mine[w]' = NotMine
      /\ \A v \in Workers \ {w} : apc[v]' = apc[v] /\ mine[v]' = mine[v]
  BY <1>1, <1>3 DEF AskersOK
<1>6. NotMine \in Mines /\ MineFits("idle", NotMine, cards, Excused)
  BY NotMineType
<1>7. apc' \in [Workers -> AskPlaces] /\ mine' \in [Workers -> Mines]
  BY <1>1, <1>3, <1>6 DEF AskersOK, AskPlaces
<1>8. AskersOK'
  <2>1. ASSUME NEW v \in Workers
        PROVE  MineFits(apc'[v], mine'[v], cards, Excused)
    <3>1. CASE v = w
      BY <1>5, <1>6, <3>1
    <3>2. CASE v # w
      BY <1>1, <1>5, <3>2 DEF AskersOK
    <3> QED BY <3>1, <3>2
  <2> QED BY <1>2, <1>7, <2>1 DEF AskersOK
<1>9. CardsOK' /\ AskWorldOK'
  BY <1>1 DEF CardsOK, AskWorldOK
<1>10. ASSUME ~strayed'
       PROVE  CardsInOrder'
  <2>1. CardsInOrder /\ apc[w] # "cloud"
    BY <1>1, <1>10
  <2>2. \A v \in Workers : apc'[v] = "idle"
    BY <1>5, <2>1 DEF CardsInOrder, OneAtWork
  <2>3. OneAtWork' /\ \A v \in Workers : AskerOK(v)'
    BY <2>2 DEF OneAtWork, AskerOK
  <2>4. \A a : OpenFor(a)' = OpenFor(a)
    BY DEF OpenFor
  <2>5. \A v \in Workers : apc[v] # "cloud"
    BY <2>1 DEF CardsInOrder, OneAtWork
  <2>6. \A a \in Asked \ Excused : \A c \in OpenFor(a) : Names(asks, a, c)
    BY <2>1, <2>5 DEF CardsInOrder, CardsKnown, CardInHand
  <2>7. CardsKnown'
    BY <1>2, <2>4, <2>6 DEF CardsKnown, Names
  <2> QED BY <2>3, <2>7 DEF CardsInOrder
<1> QED BY <1>4, <1>8, <1>9, <1>10 DEF AsksInv

(* The card that is put down is in the hand of the worker that put it *)
LEMMA AskCardMade ==
  ASSUME AsksInv, NEW w \in Workers, apc[w] = "writer", NEW c \in Cards, cards[c].state = "none",
         cards' = [cards EXCEPT ![c] = [ask |-> mine[w].ask, state |-> "open"]],
         Holding(w, "cloud", [mine[w] EXCEPT !.card = c]),
         UNCHANGED <<asks, pasted, said, strayed>>
  PROVE  AsksInv'
<1>1. /\ AskFileOK(asks, cards, Excused) /\ AskersOK /\ CardsOK /\ AskWorldOK
      /\ ~strayed => CardsInOrder
  BY DEF AsksInv
<1>2. Excused' = Excused
  BY DEF Excused
<1>3. MineFits("writer", mine[w], cards, Excused) /\ mine[w] \in Mines
  BY <1>1 DEF AskersOK
<1>4. PICK m : m = [mine[w] EXCEPT !.card = c]
  OBVIOUS
<1>5. m = [file |-> mine[w].file, ask |-> mine[w].ask, card |-> c]
  BY <1>3, <1>4 DEF Mines
<1>6. /\ mine[w].ask \in Asked /\ m \in Mines /\ m.card = c /\ m.ask = mine[w].ask
      /\ m.file = mine[w].file
  BY <1>3, <1>5 DEF Mines, MineFits
<1>7. apc' = [apc EXCEPT ![w] = "cloud"] /\ mine' = [mine EXCEPT ![w] = m]
  BY <1>4 DEF Holding
<1>8. /\ apc'[w] = "cloud" /\ mine'[w] = m
      /\ \A v \in Workers \ {w} : apc'[v] = apc[v] /\ mine'[v] = mine[v]
      /\ apc' \in [Workers -> AskPlaces] /\ mine' \in [Workers -> Mines]
  BY <1>1, <1>6, <1>7 DEF AskersOK, AskPlaces
<1>9. /\ cards'[c].ask = mine[w].ask /\ cards'[c].state = "open"
      /\ \A d \in Cards \ {c} : cards'[d] = cards[d]
  BY <1>1 DEF CardsOK
<1>10. \A d \in Cards : cards[d].state # "none" => cards'[d].ask = cards[d].ask /\ cards'[d].state # "none"
  BY <1>9
<1>11. AskFileOK(asks, cards, Excused)'
  <2>1. AskFileOK(asks, cards', Excused)
    BY <1>1, <1>10, FileStaysOK
  <2> QED BY <1>2, <2>1
<1>12. AskersOK'
  <2>1. ASSUME NEW v \in Workers
        PROVE  MineFits(apc'[v], mine'[v], cards', Excused)
    <3>1. MineFits(apc[v], mine[v], cards, Excused) /\ mine[v] \in Mines
      BY <1>1 DEF AskersOK
    <3>2. AskFileOK(mine[v].file, cards', Excused)
      BY <1>10, <3>1, FileStaysOK DEF MineFits
    <3>3. CASE v = w
      BY <1>6, <1>8, <1>9, <3>2, <3>3 DEF MineFits
    <3>4. CASE v # w
      BY <1>8, <1>10, <3>1, <3>2, <3>4 DEF MineFits
    <3> QED BY <3>3, <3>4
  <2> QED BY <1>2, <1>8, <2>1 DEF AskersOK
<1>13. CardsOK'
  <2>1. [ask |-> mine[w].ask, state |-> "open"] \in CardStates
    BY <1>6 DEF CardStates
  <2>2. cards' \in [Cards -> CardStates]
    BY <1>1, <2>1 DEF CardsOK
  <2> QED BY <1>1, <1>6, <1>9, <2>2 DEF CardsOK
<1>14. AskWorldOK'
  BY <1>1 DEF AskWorldOK
<1>15. ASSUME ~strayed'
       PROVE  CardsInOrder'
  <2>1. CardsInOrder
    BY <1>1, <1>15
  <2>0. PICK b : b = mine[w].ask
    OBVIOUS
  <2>2. OneAtWork'
    BY <1>8, <2>1 DEF CardsInOrder, OneAtWork
  <2>3. \A v \in Workers \ {w} : apc[v] = "idle" /\ apc'[v] = "idle"
    BY <1>8, <2>1 DEF CardsInOrder, OneAtWork
  <2>4. \A a, d : d \in OpenFor(a)' =>
          \/ d = c /\ a = b
          \/ d # c /\ d \in OpenFor(a)
    BY <1>9, <2>0 DEF OpenFor
  <2>5. AskerOK(w)
    BY <2>1 DEF CardsInOrder
  <2>6. CardInHand(w, b, c)'
    BY <1>6, <1>8, <2>0 DEF CardInHand
  <2>7. \A a, d : \A v \in Workers : ~CardInHand(v, a, d)
    BY <2>3 DEF CardInHand
  <2>8. ASSUME NEW a \in Asked \ Excused, NEW d \in OpenFor(a)'
        PROVE  \/ CardInHand(w, a, d)'
               \/ Names(mine'[w].file, a, d) /\ Names(asks, a, d)
    <3>1. CASE d = c /\ a = b
      BY <2>6, <3>1
    <3>2. CASE d # c /\ d \in OpenFor(a)
      <4>1. Names(mine[w].file, a, d)
        BY <2>5, <2>7, <3>2 DEF AskerOK
      <4>2. Names(asks, a, d)
        BY <2>1, <2>7, <3>2 DEF CardsInOrder, CardsKnown
      <4> QED BY <1>6, <1>8, <4>1, <4>2
    <3> QED BY <2>4, <3>1, <3>2
  <2>9. CardsKnown'
    BY <1>2, <2>8 DEF CardsKnown, Names
  <2>10. b \notin Excused => OpenFor(b)' \subseteq {c}
    <3>1. b \notin Excused => OpenFor(b) = {}
      BY <2>0, <2>5 DEF AskerOK
    <3> QED BY <2>4, <3>1
  <2>11. AskerOK(w)'
    <3>1. \A a \in Asked \ Excused' : \A d \in OpenFor(a)' :
            Names(mine'[w].file, a, d) \/ CardInHand(w, a, d)'
      BY <1>2, <2>8
    <3>2. apc'[w] = "cloud" /\ mine'[w].ask = b /\ mine'[w].card = c
      BY <1>6, <1>8, <2>0
    <3>3. OpenFor(mine[w].ask)' = OpenFor(b)'
      BY <3>2 DEF OpenFor
    <3> QED BY <1>2, <2>10, <3>1, <3>2, <3>3 DEF AskerOK, Names
  <2>12. \A v \in Workers : AskerOK(v)'
    BY <2>3, <2>11 DEF AskerOK
  <2> QED BY <2>2, <2>9, <2>12 DEF CardsInOrder
<1> QED BY <1>11, <1>12, <1>13, <1>14, <1>15 DEF AsksInv

(* A person pastes, marks, unmarks or removes a card *)
LEMMA AskCardsMove ==
  ASSUME AsksInv, UNCHANGED <<asks, apc, mine, strayed>>,
         pasted \subseteq pasted', pasted' \subseteq Asked, said \subseteq said', said' \subseteq Asked,
         cards' \in [Cards -> CardStates],
         \A c \in Cards : /\ cards'[c].ask = cards[c].ask
                          /\ cards'[c].state = "none" <=> cards[c].state = "none",
         \A c \in Cards : cards'[c].state = "open" /\ cards[c].state # "open" => cards[c].ask \in said',
         \A c \in Cards : cards'[c].state = "done" => cards[c].ask \in pasted'
  PROVE  AsksInv'
<1>1. /\ AskFileOK(asks, cards, Excused) /\ AskersOK /\ CardsOK /\ AskWorldOK
      /\ ~strayed => CardsInOrder
  BY DEF AsksInv
<1>2. Excused \subseteq Excused' /\ said' \subseteq Excused'
  BY DEF Excused
<1>3. \A d \in Cards : cards[d].state # "none" => cards'[d].ask = cards[d].ask /\ cards'[d].state # "none"
  OBVIOUS
<1>4. AskFileOK(asks, cards, Excused)'
  <2>1. AskFileOK(asks, cards', Excused')
    BY <1>1, <1>2, <1>3, FileStaysOK
  <2> QED BY <2>1
<1>5. AskersOK'
  <2>1. ASSUME NEW v \in Workers
        PROVE  MineFits(apc[v], mine[v], cards', Excused')
    <3>1. MineFits(apc[v], mine[v], cards, Excused)
      BY <1>1 DEF AskersOK
    <3>2. AskFileOK(mine[v].file, cards', Excused')
      BY <1>2, <1>3, <3>1, FileStaysOK DEF MineFits
    <3> QED BY <1>3, <3>1, <3>2 DEF MineFits
  <2> QED BY <1>1, <2>1 DEF AskersOK
<1>6. CardsOK' /\ AskWorldOK'
  BY <1>1, <1>3 DEF CardsOK, AskWorldOK
<1>7. ASSUME ~strayed'
      PROVE  CardsInOrder'
  <2>1. CardsInOrder
    BY <1>1, <1>7
  <2>2. OneAtWork'
    BY <2>1 DEF CardsInOrder, OneAtWork
  <2>3. \A a \in Asked \ Excused' : a \notin Excused /\ OpenFor(a)' \subseteq OpenFor(a)
    BY <1>2 DEF OpenFor
  <2>4. \A v, a, c : CardInHand(v, a, c)' <=> CardInHand(v, a, c)
    BY DEF CardInHand
  <2>5. CardsKnown'
    <3> SUFFICES ASSUME NEW a \in Asked \ Excused', NEW c \in OpenFor(a)'
                 PROVE  Names(asks, a, c)' \/ \E w \in Workers : CardInHand(w, a, c)'
      BY DEF CardsKnown
    <3>1. Names(asks, a, c) \/ \E w \in Workers : CardInHand(w, a, c)
      BY <2>1, <2>3 DEF CardsInOrder, CardsKnown
    <3> QED BY <2>4, <3>1 DEF Names
  <2>6. ASSUME NEW v \in Workers
        PROVE  AskerOK(v)'
    <3>1. AskerOK(v) /\ MineFits(apc[v], mine[v], cards, Excused)
      BY <1>1, <2>1 DEF CardsInOrder, AskersOK
    <3>2. apc[v] # "idle" =>
            \A a \in Asked \ Excused' : \A c \in OpenFor(a)' :
              Names(mine[v].file, a, c) \/ CardInHand(v, a, c)
      BY <2>3, <3>1 DEF AskerOK
    <3>3. apc[v] \in {"writer", "cloud"} => mine[v].ask \in Asked
      BY <3>1 DEF MineFits
    <3>4. apc[v] = "writer" /\ mine[v].ask \notin Excused' => OpenFor(mine[v].ask)' = {}
      BY <2>3, <3>1, <3>3 DEF AskerOK
    <3>5. apc[v] = "cloud" /\ mine[v].ask \notin Excused' => OpenFor(mine[v].ask)' \subseteq {mine[v].card}
      BY <2>3, <3>1, <3>3 DEF AskerOK
    <3> QED BY <2>4, <3>2, <3>4, <3>5 DEF AskerOK, Names
  <2> QED BY <2>2, <2>5, <2>6 DEF CardsInOrder
<1> QED BY <1>4, <1>5, <1>6, <1>7 DEF AsksInv

(* What each turn reads *)
LEMMA AskStarts ==
  ASSUME AsksInv, NEW w \in Workers,
         \/ AskScan(w)
         \/ AskStats(w)
         \/ \E a \in Asked, force \in BOOLEAN : AskReply(w, a, force)
  PROVE  AsksInv'
<1>1. /\ AskFileOK(asks, cards, Excused) /\ CardsOK /\ AskWorldOK /\ pasted \subseteq Excused
      /\ Excused = said \cup pasted
  BY DEF AsksInv, Excused
<1>2. NotMine = [file |-> NoAsks, ask |-> "none", card |-> NoCard]
  BY DEF NotMine
<1>3. CASE AskScan(w)
  <2>1. PICK m : m = [NotMine EXCEPT !.file = asks]
    OBVIOUS
  <2>2. readAsks(w, "feeds", m) /\ UNCHANGED <<asks, cards, pasted, said>>
    BY <1>3, <2>1 DEF AskScan
  <2>3. m.file = asks /\ m \in Mines
    BY <1>1, <1>2, <2>1 DEF Mines, AskFileOK
  <2>4. MineFits("feeds", m, cards, said' \cup pasted)
    BY <1>1, <2>2, <2>3 DEF MineFits
  <2> QED BY <1>1, <2>2, <2>3, <2>4, AskRead DEF AskPlaces, AskWorldOK
<1>4. CASE AskStats(w)
  <2>1. PICK m : m = [NotMine EXCEPT !.file = syncReplies(asks)]
    OBVIOUS
  <2>2. readAsks(w, "archive", m) /\ UNCHANGED <<asks, cards, pasted, said>>
    BY <1>4, <2>1 DEF AskStats
  <2>3. /\ AskFileOK(syncReplies(asks), cards, Excused)
        /\ \A a \in Asked \ Excused : syncReplies(asks).ask[a] = asks.ask[a]
    BY <1>1, SyncOK
  <2>4. m.file = syncReplies(asks) /\ m \in Mines
    BY <1>2, <2>1, <2>3 DEF Mines, AskFileOK
  <2>5. MineFits("archive", m, cards, said' \cup pasted)
    BY <1>1, <2>2, <2>3, <2>4 DEF MineFits
  <2>6. \A a \in Asked \ (said' \cup pasted) : \A c \in OpenFor(a) :
          Names(asks, a, c) => Names(m.file, a, c)
    BY <1>1, <2>2, <2>3, <2>4 DEF Names
  <2> QED BY <1>1, <2>2, <2>4, <2>5, <2>6, AskRead DEF AskPlaces, AskWorldOK
<1>5. CASE \E a \in Asked, force \in BOOLEAN : AskReply(w, a, force)
  <2>1. PICK a \in Asked, force \in BOOLEAN : AskReply(w, a, force)
    BY <1>5
  <2>2. PICK m : m = [NotMine EXCEPT !.file = asks, !.ask = a]
    OBVIOUS
  <2>3. /\ readAsks(w, "writer", m) /\ UNCHANGED <<asks, cards, pasted>>
        /\ force \/ ~Waits(a)
        /\ said' = IF force THEN said \cup {a} ELSE said
    BY <2>1, <2>2 DEF AskReply
  <2>4. said \subseteq said' /\ said' \subseteq Asked
    BY <1>1, <2>3 DEF AskWorldOK
  <2>5. m.file = asks /\ m.ask = a /\ m \in Mines
    BY <1>1, <1>2, <2>2 DEF Mines, AskFileOK
  <2>6. Excused \subseteq said' \cup pasted
    BY <1>1, <2>4
  <2>7. AskFileOK(asks, cards, said' \cup pasted)
    BY <1>1, <2>6, FileStaysOK
  <2>8. MineFits("writer", m, cards, said' \cup pasted)
    BY <2>5, <2>7 DEF MineFits
  <2>9. ~strayed' /\ a \notin said' \cup pasted => OpenFor(a) = {}
    <3> SUFFICES ASSUME ~strayed', a \notin said' \cup pasted, NEW c \in OpenFor(a)
                 PROVE  FALSE
      OBVIOUS
    <3>1. ~Waits(a) /\ a \in Asked \ Excused
      BY <2>3, <2>6
    <3>2. ~strayed /\ \A v \in Workers : apc[v] = "idle"
      BY <2>3 DEF readAsks, AtWork
    <3>3. Names(asks, a, c)
      BY <3>1, <3>2 DEF AsksInv, CardsInOrder, CardsKnown, CardInHand
    <3>4. c \in Cards /\ cards[c].state = "open" /\ c # NoCard
      BY AsksAssumption DEF OpenFor
    <3> QED BY <3>1, <3>3, <3>4 DEF Names, Waits
  <2>10. \A b \in Asked \ (said' \cup pasted) : \A c \in OpenFor(b) :
           Names(asks, b, c) => Names(m.file, b, c)
    BY <2>5
  <2>11. ~strayed' /\ m.ask \notin said' \cup pasted => OpenFor(m.ask) = {}
    BY <2>5, <2>9
  <2> QED BY <2>3, <2>4, <2>5, <2>8, <2>10, <2>11, AskRead DEF AskPlaces
<1> QED BY <1>3, <1>4, <1>5

(* What each turn writes *)
LEMMA AskEnds ==
  ASSUME AsksInv, NEW w \in Workers,
         AskScanEnd(w) \/ AskStatsEnd(w) \/ AskReplyEnd(w)
  PROVE  AsksInv'
<1>1. PICK m : m = mine[w]
  OBVIOUS
<1>2. m \in Mines /\ MineFits(apc[w], m, cards, Excused) /\ AskFileOK(m.file, cards, Excused)
  BY <1>1 DEF AsksInv, AskersOK, MineFits
<1>3. ~strayed /\ apc[w] # "idle" => \A a \in Asked \ Excused : \A c \in OpenFor(a) :
        Names(m.file, a, c) \/ CardInHand(w, a, c)
  BY <1>1 DEF AsksInv, CardsInOrder, AskerOK
<1>4. pasted \subseteq Excused
  BY DEF Excused
<1>5. m.file \in AskFiles /\ m.file.ask \in [Asked -> AskItem] /\ m.file.seen \subseteq Asked
  BY <1>2, FileParts DEF AskFileOK
<1>6. CASE AskScanEnd(w)
  <2>1. /\ apc[w] = "feeds" /\ UNCHANGED <<cards, pasted, said, strayed>>
        /\ \E judged \in SUBSET (Asked \ (m.file.seen \cup Present(m.file))) : \E kept \in SUBSET judged :
           \E topic \in [kept -> Topics \cup {NoTopic}] :
           \E g \in Flagged(Filed([m.file EXCEPT !.seen = @ \cup judged], topic)) : Written(w, g)
    BY <1>1, <1>6 DEF AskScanEnd
  <2>2. PICK judged \in SUBSET (Asked \ (m.file.seen \cup Present(m.file))) : \E kept \in SUBSET judged :
           \E topic \in [kept -> Topics \cup {NoTopic}] :
           \E g \in Flagged(Filed([m.file EXCEPT !.seen = m.file.seen \cup judged], topic)) : Written(w, g)
    BY <2>1
  <2>3. PICK f : f = [m.file EXCEPT !.seen = m.file.seen \cup judged]
    OBVIOUS
  <2>4. PICK kept \in SUBSET judged : \E topic \in [kept -> Topics \cup {NoTopic}] :
           \E g \in Flagged(Filed(f, topic)) : Written(w, g)
    BY <2>2, <2>3
  <2>5. PICK topic \in [kept -> Topics \cup {NoTopic}] : \E g \in Flagged(Filed(f, topic)) : Written(w, g)
    BY <2>4
  <2>6. PICK g \in Flagged(Filed(f, topic)) : Written(w, g)
    BY <2>5
  <2>7. AskFileOK(f, cards, Excused) /\ f.ask = m.file.ask
    <3>1. judged \in SUBSET Asked
      OBVIOUS
    <3> QED BY <1>2, <2>3, <3>1, SeenOK
  <2>8. kept \in SUBSET Asked /\ \A a \in kept : f.ask[a].status = "none"
    BY <2>7 DEF Present
  <2>9. /\ AskFileOK(Filed(f, topic), cards, Excused)
        /\ \A a \in Asked : f.ask[a].status = "drafted" => Filed(f, topic).ask[a] = f.ask[a]
    BY <2>7, <2>8, FiledOK
  <2>10. AskFileOK(g, cards, Excused) /\ g.ask = Filed(f, topic).ask
    BY <2>9, FlaggedOK
  <2>11. ~strayed => \A a \in Asked \ Excused : \A c \in OpenFor(a) : Names(g, a, c)
    BY <1>3, <2>1, <2>7, <2>9, <2>10 DEF Names, CardInHand
  <2> QED BY <2>1, <2>6, <2>10, <2>11, AskWritten
<1>7. CASE AskStatsEnd(w)
  <2>1. /\ apc[w] = "archive" /\ UNCHANGED <<cards, pasted, said, strayed>>
        /\ \E ours \in SUBSET {a \in pasted : m.file.ask[a].status = "drafted"} :
           \E g \in Flagged([m.file EXCEPT !.ask = [a \in Asked |->
                               IF a \in ours THEN [@[a] EXCEPT !.status = "replied"] ELSE @[a]]]) :
             Written(w, g)
    BY <1>1, <1>7 DEF AskStatsEnd
  <2>2. PICK ours \in SUBSET {a \in pasted : m.file.ask[a].status = "drafted"} :
           \E g \in Flagged([m.file EXCEPT !.ask = [a \in Asked |->
               IF a \in ours THEN [m.file.ask[a] EXCEPT !.status = "replied"] ELSE m.file.ask[a]]]) :
             Written(w, g)
    BY <2>1
  <2>3. PICK its : its = [a \in Asked |->
               IF a \in ours THEN [m.file.ask[a] EXCEPT !.status = "replied"] ELSE m.file.ask[a]]
    OBVIOUS
  <2>4. PICK f : f = [m.file EXCEPT !.ask = its]
    OBVIOUS
  <2>5. PICK g \in Flagged(f) : Written(w, g)
    BY <2>2, <2>3, <2>4
  <2>6. ASSUME NEW a \in Asked
        PROVE  /\ its[a] \in AskItem /\ its[a].topic = m.file.ask[a].topic
               /\ its[a].card = m.file.ask[a].card
               /\ m.file.ask[a].status # "none" => its[a].status # "none"
               /\ a \notin Excused => its[a] = m.file.ask[a]
    <3>1. m.file.ask[a] \in AskItem /\ "replied" \in AskStates
      BY <1>5 DEF AskStates
    <3>2. CASE a \in ours
      <4>1. its[a] = [status |-> "replied", topic |-> m.file.ask[a].topic, card |-> m.file.ask[a].card]
        BY <2>3, <3>1, <3>2 DEF AskItem
      <4> QED BY <1>4, <3>1, <3>2, <4>1 DEF AskItem
    <3>3. CASE a \notin ours
      BY <2>3, <3>1, <3>3
    <3> QED BY <3>2, <3>3
  <2>7. its \in [Asked -> AskItem]
    BY <2>3, <2>6
  <2>8. /\ \A a \in Asked : its[a].topic = m.file.ask[a].topic
        /\ \A a \in Asked : m.file.ask[a].status # "none" => its[a].status # "none"
        /\ \A a \in Asked : its[a].card = m.file.ask[a].card
        /\ \A a \in Asked \ Excused : its[a] = m.file.ask[a]
    BY <2>6
  <2>9. AskFileOK(f, cards, Excused) /\ f.ask = its
    BY <1>2, <2>4, <2>7, <2>8, AskSetOK
  <2>10. AskFileOK(g, cards, Excused) /\ g.ask = its
    BY <2>9, FlaggedOK
  <2>11. ~strayed => \A a \in Asked \ Excused : \A c \in OpenFor(a) : Names(g, a, c)
    BY <1>3, <2>1, <2>8, <2>10 DEF Names, CardInHand
  <2> QED BY <2>1, <2>5, <2>10, <2>11, AskWritten
<1>8. CASE AskReplyEnd(w)
  <2>1. /\ apc[w] = "cloud" /\ UNCHANGED <<cards, pasted, said, strayed>>
        /\ Written(w, [m.file EXCEPT !.ask[m.ask].status = "drafted", !.ask[m.ask].card = m.card])
    BY <1>1, <1>8 DEF AskReplyEnd
  <2>2. m.ask \in Asked /\ m.card \in Cards /\ cards[m.card].ask = m.ask /\ cards[m.card].state # "none"
    BY <1>2, <2>1 DEF MineFits
  <2>3. PICK g : g = [m.file EXCEPT !.ask[m.ask].status = "drafted", !.ask[m.ask].card = m.card]
    OBVIOUS
  <2>4. PICK item : item = [status |-> "drafted", topic |-> m.file.ask[m.ask].topic, card |-> m.card]
    OBVIOUS
  <2>5. PICK its : its = [m.file.ask EXCEPT ![m.ask] = item]
    OBVIOUS
  <2>6. g = [m.file EXCEPT !.ask = its]
    <3>1. m.file.ask[m.ask] \in AskItem
      BY <1>5, <2>2
    <3>2. [m.file.ask EXCEPT ![m.ask].status = "drafted", ![m.ask].card = m.card] = its
      BY <1>5, <2>2, <2>4, <2>5, <3>1 DEF AskItem
    <3>3. m.file = [seen |-> m.file.seen, ask |-> m.file.ask, idea |-> m.file.idea]
      BY <1>5, FileParts
    <3>4. [m.file EXCEPT !.ask[m.ask].status = "drafted", !.ask[m.ask].card = m.card]
            = [m.file EXCEPT !.ask = [m.file.ask EXCEPT ![m.ask].status = "drafted", ![m.ask].card = m.card]]
      BY <1>5, <2>2, <3>3
    <3> QED BY <2>3, <3>2, <3>4
  <2>7. item \in AskItem
    <3>1. m.file.ask[m.ask].topic \in Topics \cup {NoTopic} /\ "drafted" \in AskStates
      BY <1>5, <2>2 DEF AskItem, AskStates
    <3> QED BY <2>2, <2>4, <3>1 DEF AskItem
  <2>8. /\ its \in [Asked -> AskItem] /\ its[m.ask] = item
        /\ \A a \in Asked \ {m.ask} : its[a] = m.file.ask[a]
    BY <1>5, <2>2, <2>5, <2>7
  <2>9. /\ \A a \in Asked : its[a].topic = m.file.ask[a].topic
        /\ \A a \in Asked : m.file.ask[a].status # "none" => its[a].status # "none"
        /\ \A a \in Asked : \/ its[a].card = m.file.ask[a].card
                            \/ cards[its[a].card].ask = a /\ cards[its[a].card].state # "none"
        /\ \A a \in Asked : its[a].status = "replied" => m.file.ask[a].status = "replied"
    <3>1. item.status = "drafted" /\ item.topic = m.file.ask[m.ask].topic /\ item.card = m.card
      BY <2>4
    <3> QED BY <2>2, <2>8, <3>1
  <2>10. AskFileOK(g, cards, Excused) /\ g.ask = its
    BY <1>2, <2>6, <2>8, <2>9, AskSetOK
  <2>11. ~strayed => \A a \in Asked \ Excused : \A c \in OpenFor(a) : Names(g, a, c)
    <3> SUFFICES ASSUME ~strayed, NEW a \in Asked \ Excused, NEW c \in OpenFor(a)
                 PROVE  Names(g, a, c)
      OBVIOUS
    <3>1. CASE a = m.ask
      <4>1. c = m.card
        BY <1>1, <2>1, <3>1 DEF AsksInv, CardsInOrder, AskerOK
      <4> QED BY <2>4, <2>8, <2>10, <3>1, <4>1 DEF Names
    <3>2. CASE a # m.ask
      BY <1>1, <1>3, <2>1, <2>8, <2>10, <3>2 DEF Names, CardInHand
    <3> QED BY <3>1, <3>2
  <2> QED BY <2>1, <2>3, <2>10, <2>11, AskWritten
<1> QED BY <1>6, <1>7, <1>8

(* What a worker does with the card, and its death *)
LEMMA AskCardSteps ==
  ASSUME AsksInv, NEW w \in Workers, AskCard(w) \/ AsksCrash(w)
  PROVE  AsksInv'
<1>1. strayed \in BOOLEAN
  BY DEF AsksInv, AskWorldOK
<1>2. CASE AskCard(w) /\ Holding(w, "idle", NotMine) /\ UNCHANGED cards
  <2>1. apc[w] = "writer" /\ UNCHANGED <<asks, cards, pasted, said, strayed>>
    BY <1>2 DEF AskCard
  <2> QED BY <1>1, <1>2, <2>1, AskLetGo
<1>3. CASE AskCard(w) /\ ~(Holding(w, "idle", NotMine) /\ UNCHANGED cards)
  <2>1. PICK c \in Cards :
          /\ cards[c].state = "none"
          /\ cards' = [cards EXCEPT ![c] = [ask |-> mine[w].ask, state |-> "open"]]
          /\ Holding(w, "cloud", [mine[w] EXCEPT !.card = c])
    BY <1>3 DEF AskCard
  <2>2. apc[w] = "writer" /\ UNCHANGED <<asks, pasted, said, strayed>>
    BY <1>3 DEF AskCard
  <2> QED BY <2>1, <2>2, AskCardMade
<1>4. CASE AsksCrash(w)
  <2>1. /\ apc[w] # "idle" /\ Holding(w, "idle", NotMine)
        /\ strayed' = (strayed \/ apc[w] = "cloud")
        /\ UNCHANGED <<asks, cards, pasted, said>>
    BY <1>4 DEF AsksCrash
  <2>2. strayed' \in BOOLEAN
    BY <2>1
  <2>3. ~strayed' => ~strayed /\ apc[w] # "cloud"
    BY <2>1
  <2> QED BY <2>1, <2>2, <2>3, AskLetGo
<1> QED BY <1>2, <1>3, <1>4

LEMMA SetAskStatus ==
  ASSUME AsksInv, NEW a \in Asked, NEW status \in {"new", "skipped", "replied"}, setAskStatus(a, status)
  PROVE  AsksInv'
<1>1. PICK f : f = [asks EXCEPT !.ask[a].status = status]
  OBVIOUS
<1>2. AtOnce(f) /\ asks.ask[a].status # "none" /\ said' = said \cup {a}
  BY <1>1 DEF setAskStatus, Present
<1>3. said \subseteq said' /\ said' \subseteq Asked /\ Excused \subseteq said' \cup pasted
  BY <1>2 DEF AsksInv, AskWorldOK, Excused
<1>4. AskFileOK(asks, cards, said' \cup pasted)
  BY <1>3, FileStaysOK DEF AsksInv
<1>5. asks \in AskFiles /\ asks.ask \in [Asked -> AskItem] /\ status \in AskStates
  BY <1>4, FileParts DEF AskFileOK, AskStates
<1>6. PICK item : item = [status |-> status, topic |-> asks.ask[a].topic, card |-> asks.ask[a].card]
  OBVIOUS
<1>7. PICK its : its = [asks.ask EXCEPT ![a] = item]
  OBVIOUS
<1>8. asks.ask[a] \in AskItem
  BY <1>5
<1>9. item \in AskItem
  BY <1>5, <1>6, <1>8 DEF AskItem
<1>10. f = [asks EXCEPT !.ask = its]
  <2>1. [asks.ask EXCEPT ![a].status = status] = its
    BY <1>5, <1>6, <1>7, <1>8 DEF AskItem
  <2>2. asks = [seen |-> asks.seen, ask |-> asks.ask, idea |-> asks.idea]
    BY <1>5, FileParts
  <2>3. [asks EXCEPT !.ask[a].status = status] = [asks EXCEPT !.ask = [asks.ask EXCEPT ![a].status = status]]
    BY <1>5, <2>2
  <2> QED BY <1>1, <2>1, <2>3
<1>11. /\ its \in [Asked -> AskItem] /\ its[a] = item
       /\ \A b \in Asked \ {a} : its[b] = asks.ask[b]
  BY <1>5, <1>7, <1>9
<1>12. item.status = status /\ item.topic = asks.ask[a].topic /\ item.card = asks.ask[a].card
  BY <1>6
<1>13. /\ \A b \in Asked : its[b].topic = asks.ask[b].topic /\ its[b].card = asks.ask[b].card
       /\ \A b \in Asked : asks.ask[b].status # "none" => its[b].status # "none"
       /\ \A b \in Asked \ (said' \cup pasted) : its[b] = asks.ask[b]
  BY <1>2, <1>11, <1>12
<1>14. AskFileOK(f, cards, said' \cup pasted) /\ f.ask = its
  <2>1. /\ \A b \in Asked : its[b].topic = asks.ask[b].topic
        /\ \A b \in Asked : its[b].card = asks.ask[b].card
    BY <1>13
  <2> QED BY <1>4, <1>10, <1>11, <1>13, <2>1, AskSetOK
<1>15. \A b \in Asked \ (said' \cup pasted) : \A c \in OpenFor(b) :
         Names(asks, b, c) => Names(f, b, c)
  BY <1>13, <1>14 DEF Names
<1> QED BY <1>2, <1>3, <1>14, <1>15, AskAtOnce

LEMMA SetIdea ==
  ASSUME AsksInv, NEW i \in Topics, NEW status \in {"watching", "build", "taken"}, setIdea(i, status)
  PROVE  AsksInv'
<1>1. PICK f : f = [asks EXCEPT !.idea[i].status = status]
  OBVIOUS
<1>2. AtOnce(f) /\ said' = said
  BY <1>1 DEF setIdea
<1>3. AskFileOK(asks, cards, Excused) /\ said \subseteq Asked /\ Excused = said' \cup pasted
  BY <1>2 DEF AsksInv, AskWorldOK, Excused
<1>4. asks \in AskFiles /\ asks.idea \in [Topics -> IdeaItem]
  BY <1>3, FileParts DEF AskFileOK
<1>5. PICK item : item = [status |-> status, asks |-> asks.idea[i].asks]
  OBVIOUS
<1>6. PICK ids : ids = [asks.idea EXCEPT ![i] = item]
  OBVIOUS
<1>7. asks.idea[i] \in IdeaItem
  BY <1>4
<1>8. item \in IdeaItem
  BY <1>5, <1>7 DEF IdeaItem
<1>9. f = [asks EXCEPT !.idea = ids]
  <2>1. [asks.idea EXCEPT ![i].status = status] = ids
    BY <1>4, <1>5, <1>6, <1>7 DEF IdeaItem
  <2>2. asks = [seen |-> asks.seen, ask |-> asks.ask, idea |-> asks.idea]
    BY <1>4, FileParts
  <2>3. [asks EXCEPT !.idea[i].status = status] = [asks EXCEPT !.idea = [asks.idea EXCEPT ![i].status = status]]
    BY <1>4, <2>2
  <2> QED BY <1>1, <2>1, <2>3
<1>10. /\ ids \in [Topics -> IdeaItem] /\ ids[i] = item
       /\ \A j \in Topics \ {i} : ids[j] = asks.idea[j]
  BY <1>4, <1>6, <1>8
<1>11. item.status # "none" /\ item.asks = asks.idea[i].asks
  BY <1>5
<1>12. /\ \A j \in Topics : ids[j].asks = asks.idea[j].asks
       /\ \A j \in Topics : asks.idea[j].status # "none" => ids[j].status # "none"
  BY <1>10, <1>11
<1>13. AskFileOK(f, cards, Excused) /\ f.ask = asks.ask
  BY <1>3, <1>9, <1>10, <1>12, IdeaSetOK
<1>14. \A b \in Asked \ (said' \cup pasted) : \A c \in OpenFor(b) :
         Names(asks, b, c) => Names(f, b, c)
  BY <1>13 DEF Names
<1> QED BY <1>2, <1>3, <1>13, <1>14, AskAtOnce

(* The asks that move name the idea they move to, and it lists them *)
LEMMA MergeIdeas ==
  ASSUME AsksInv, NEW into \in Topics, NEW from \in Topics, mergeIdeas(into, from)
  PROVE  AsksInv'
<1>1. PICK its : its = Move(asks.ask, into, from)
  OBVIOUS
<1>2. PICK more : more = asks.idea[into].asks \cup asks.idea[from].asks
  OBVIOUS
<1>3. PICK f : f = [asks EXCEPT !.ask = Move(@, into, from), !.idea[from] = NoIdea,
                                !.idea[into].asks = @ \cup asks.idea[from].asks]
  OBVIOUS
<1>4. /\ into # from /\ asks.idea[into].status # "none" /\ AtOnce(f) /\ said' = said
  BY <1>3 DEF mergeIdeas
<1>5. AskFileOK(asks, cards, Excused) /\ said \subseteq Asked /\ Excused = said' \cup pasted
  BY <1>4 DEF AsksInv, AskWorldOK, Excused
<1>6. /\ asks \in AskFiles /\ asks.seen \subseteq Asked /\ asks.ask \in [Asked -> AskItem]
      /\ asks.idea \in [Topics -> IdeaItem] /\ AddsUp(asks)
      /\ asks = [seen |-> asks.seen, ask |-> asks.ask, idea |-> asks.idea]
  BY <1>5, FileParts DEF AskFileOK
<1>7. PICK item : item = [status |-> asks.idea[into].status, asks |-> more]
  OBVIOUS
<1>8. PICK ids : ids = [[asks.idea EXCEPT ![from] = NoIdea] EXCEPT ![into] = item]
  OBVIOUS
<1>9. asks.idea[into] \in IdeaItem /\ asks.idea[from] \in IdeaItem
  BY <1>6
<1>10. item \in IdeaItem /\ NoIdea \in IdeaItem
  BY <1>2, <1>7, <1>9 DEF IdeaItem, NoIdea
<1>11. f = [seen |-> asks.seen, ask |-> its, idea |-> ids]
  <2>1. [asks.idea EXCEPT ![from] = NoIdea, ![into].asks = @ \cup asks.idea[from].asks] = ids
    <3>1. PICK h : h = [asks.idea EXCEPT ![from] = NoIdea]
      OBVIOUS
    <3>2. h[into] = asks.idea[into] /\ into \in DOMAIN h
      BY <1>4, <1>6, <3>1
    <3>3. [h[into] EXCEPT !.asks = @ \cup asks.idea[from].asks] = item
      BY <1>2, <1>7, <1>9, <3>2 DEF IdeaItem
    <3>4. [h EXCEPT ![into].asks = @ \cup asks.idea[from].asks] = [h EXCEPT ![into] = item]
      BY <3>2, <3>3
    <3> QED BY <1>8, <3>1, <3>4
  <2>2. f = [seen |-> asks.seen, ask |-> Move(asks.ask, into, from),
             idea |-> [asks.idea EXCEPT ![from] = NoIdea, ![into].asks = @ \cup asks.idea[from].asks]]
    BY <1>3, <1>6
  <2> QED BY <1>1, <2>1, <2>2
<1>12. /\ ids \in [Topics -> IdeaItem] /\ ids[into] = item /\ ids[from] = NoIdea
       /\ \A j \in Topics \ {into, from} : ids[j] = asks.idea[j]
  BY <1>4, <1>6, <1>8, <1>10
<1>13. ASSUME NEW a \in Asked
       PROVE  /\ its[a] \in AskItem /\ its[a].status = asks.ask[a].status /\ its[a].card = asks.ask[a].card
              /\ its[a].topic = IF asks.ask[a].topic = from THEN into ELSE asks.ask[a].topic
  <2>1. asks.ask[a] \in AskItem
    BY <1>6
  <2>2. CASE asks.ask[a].topic = from
    <3>1. its[a] = [status |-> asks.ask[a].status, topic |-> into, card |-> asks.ask[a].card]
      BY <1>1, <2>1, <2>2 DEF Move, AskItem
    <3> QED BY <2>1, <2>2, <3>1 DEF AskItem
  <2>3. CASE asks.ask[a].topic # from
    <3>1. its[a] = asks.ask[a]
      BY <1>1, <2>3 DEF Move
    <3> QED BY <2>1, <2>3, <3>1
  <2> QED BY <2>2, <2>3
<1>14. its \in [Asked -> AskItem]
  BY <1>1, <1>13 DEF Move
<1>15. f \in AskFiles /\ f.ask = its /\ f.idea = ids
  BY <1>6, <1>11, <1>12, <1>14 DEF AskFiles
<1>16. AddsUp(f)
  <2> SUFFICES ASSUME NEW a \in Asked, NEW i \in Topics
               PROVE  /\ a \in ids[i].asks <=> its[a].topic = i
                      /\ its[a].topic = i => its[a].status # "none" /\ ids[i].status # "none"
    BY <1>15 DEF AddsUp
  <2>1. \A j \in Topics :
          /\ a \in asks.idea[j].asks <=> asks.ask[a].topic = j
          /\ asks.ask[a].topic = j => asks.ask[a].status # "none" /\ asks.idea[j].status # "none"
    BY <1>6 DEF AddsUp
  <2>2. CASE i = into
    <3>1. ids[i].asks = asks.idea[into].asks \cup asks.idea[from].asks /\ ids[i].status # "none"
      BY <1>2, <1>4, <1>7, <1>12, <2>2
    <3> QED BY <1>13, <2>1, <2>2, <3>1
  <2>3. CASE i = from
    <3>1. ids[i].asks = {}
      BY <1>12, <2>3 DEF NoIdea
    <3> QED BY <1>4, <1>13, <2>3, <3>1
  <2>4. CASE i # into /\ i # from
    BY <1>12, <1>13, <2>1, <2>4
  <2> QED BY <2>2, <2>3, <2>4
<1>17. AskFileOK(f, cards, Excused)
  BY <1>5, <1>13, <1>15, <1>16, LikeOK
<1>18. \A b \in Asked \ (said' \cup pasted) : \A c \in OpenFor(b) :
         Names(asks, b, c) => Names(f, b, c)
  BY <1>13, <1>15 DEF Names
<1> QED BY <1>4, <1>5, <1>17, <1>18, AskAtOnce

(* myna asks list and clear *)
LEMMA ListAndClear ==
  ASSUME AsksInv, AskList \/ clearAsks
  PROVE  AsksInv'
<1>1. /\ AskFileOK(asks, cards, Excused) /\ CardsOK /\ AskWorldOK /\ pasted \subseteq Excused
      /\ Excused = said \cup pasted
  BY DEF AsksInv, Excused
<1>2. CASE AskList
  <2>1. AtOnce(syncReplies(asks)) /\ said' = said
    BY <1>2 DEF AskList
  <2>2. /\ AskFileOK(syncReplies(asks), cards, said' \cup pasted)
        /\ \A a \in Asked \ (said' \cup pasted) : syncReplies(asks).ask[a] = asks.ask[a]
    BY <1>1, <2>1, SyncOK
  <2>3. \A b \in Asked \ (said' \cup pasted) : \A c \in OpenFor(b) :
          Names(asks, b, c) => Names(syncReplies(asks), b, c)
    BY <2>2 DEF Names
  <2> QED BY <1>1, <2>1, <2>2, <2>3, AskAtOnce DEF AskWorldOK
<1>3. CASE clearAsks
  <2>1. AtOnce(NoAsks) /\ said' = Asked
    BY <1>3 DEF clearAsks
  <2>2. AskFileOK(NoAsks, cards, said' \cup pasted)
    BY NoAsksOK
  <2> QED BY <1>1, <2>1, <2>2, AskAtOnce DEF AskWorldOK
<1> QED BY <1>2, <1>3

(* A person at the cards *)
LEMMA CardsByHand ==
  ASSUME AsksInv, NEW c \in Cards,
         Unmark(c) \/ RemoveCard(c) \/ \E mark \in BOOLEAN : Paste(c, mark)
  PROVE  AsksInv'
<1>1. CardsOK /\ AskWorldOK
  BY DEF AsksInv
<1>2. cards[c] \in CardStates /\ cards \in [Cards -> CardStates]
  BY <1>1 DEF CardsOK
<1>3. /\ UNCHANGED <<asks, apc, mine, strayed>>
      /\ cards[c].state # "none"
  BY DEF Unmark, RemoveCard, Paste
<1>4. cards[c].ask \in Asked
  BY <1>1, <1>3 DEF CardsOK
<1>5. PICK s : s = cards'[c].state
  OBVIOUS
<1>5a. ASSUME NEW x
       PROVE  /\ [cards EXCEPT ![c].state = x] = [cards EXCEPT ![c] = [ask |-> cards[c].ask, state |-> x]]
              /\ [cards EXCEPT ![c].state = x][c].state = x
  <2>1. [cards[c] EXCEPT !.state = x] = [ask |-> cards[c].ask, state |-> x]
    BY <1>2 DEF CardStates
  <2> QED BY <1>2, <2>1
<1>6. /\ cards' = [cards EXCEPT ![c] = [ask |-> cards[c].ask, state |-> s]]
      /\ s \in {"open", "done", "gone"}
      /\ s = "open" /\ cards[c].state # "open" => said' = said \cup {cards[c].ask}
      /\ s = "done" => pasted' = pasted \cup {cards[c].ask}
      /\ said' = said \/ said' = said \cup {cards[c].ask}
      /\ pasted' = pasted \/ pasted' = pasted \cup {cards[c].ask}
  <2>1. CASE Unmark(c)
    <3>1. /\ cards' = [cards EXCEPT ![c].state = "open"] /\ pasted' = pasted
          /\ said' = said \cup {cards[c].ask}
      BY <2>1 DEF Unmark
    <3>2. s = "open" /\ cards' = [cards EXCEPT ![c] = [ask |-> cards[c].ask, state |-> "open"]]
      BY <1>5, <1>5a, <3>1
    <3> QED BY <3>1, <3>2
  <2>2. CASE RemoveCard(c)
    <3>1. cards' = [cards EXCEPT ![c].state = "gone"] /\ UNCHANGED <<said, pasted>>
      BY <2>2 DEF RemoveCard
    <3>2. s = "gone" /\ cards' = [cards EXCEPT ![c] = [ask |-> cards[c].ask, state |-> "gone"]]
      BY <1>5, <1>5a, <3>1
    <3> QED BY <3>1, <3>2
  <2>3. CASE \E mark \in BOOLEAN : Paste(c, mark)
    <3>1. PICK mark \in BOOLEAN : Paste(c, mark)
      BY <2>3
    <3>2. CASE mark
      BY <1>5, <1>5a, <3>1, <3>2 DEF Paste
    <3>3. CASE ~mark
      BY <1>2, <1>5, <3>1, <3>3 DEF Paste, CardStates
    <3> QED BY <3>2, <3>3
  <2> QED BY <2>1, <2>2, <2>3
<1>7. [ask |-> cards[c].ask, state |-> s] \in CardStates
  BY <1>4, <1>6 DEF CardStates
<1>8. cards' \in [Cards -> CardStates]
  BY <1>2, <1>6, <1>7
<1>9. /\ cards'[c].ask = cards[c].ask /\ cards'[c].state = s
      /\ \A d \in Cards \ {c} : cards'[d] = cards[d]
  BY <1>2, <1>6
<1>10. /\ pasted \subseteq pasted' /\ pasted' \subseteq Asked
       /\ said \subseteq said' /\ said' \subseteq Asked
  BY <1>1, <1>4, <1>6 DEF AskWorldOK
<1>11. \A d \in Cards : /\ cards'[d].ask = cards[d].ask
                        /\ cards'[d].state = "none" <=> cards[d].state = "none"
  BY <1>3, <1>6, <1>9
<1>12. \A d \in Cards : cards'[d].state = "open" /\ cards[d].state # "open" => cards[d].ask \in said'
  BY <1>6, <1>9
<1>13. \A d \in Cards : cards'[d].state = "done" => cards[d].ask \in pasted'
  BY <1>1, <1>6, <1>9, <1>10 DEF CardsOK
<1> QED BY <1>3, <1>8, <1>10, <1>11, <1>12, <1>13, AskCardsMove

LEMMA AsksInvInit == faults = 0 /\ AsksInit => AsksInv
<1> SUFFICES ASSUME AsksInit PROVE AsksInv
  OBVIOUS
<1>1. AskFileOK(asks, cards, Excused)
  BY NoAsksOK DEF AsksInit
<1>2. \A w \in Workers : apc[w] = "idle" /\ mine[w] = NotMine
  BY DEF AsksInit
<1>3. AskersOK
  <2>1. NotMine \in Mines /\ MineFits("idle", NotMine, cards, Excused)
    BY NotMineType
  <2> QED BY <1>2, <2>1 DEF AskersOK, AsksInit, AskPlaces
<1>4. CardsOK
  <2>1. [ask |-> "none", state |-> "none"] \in CardStates
    BY DEF CardStates
  <2>2. cards \in [Cards -> CardStates] /\ \A c \in Cards : cards[c].state = "none"
    BY <2>1 DEF AsksInit
  <2> QED BY <2>2 DEF CardsOK
<1>5. AskWorldOK
  BY DEF AsksInit, AskWorldOK
<1>6. CardsInOrder
  <2>1. \A a : OpenFor(a) = {}
    BY DEF AsksInit, OpenFor
  <2> QED BY <1>2, <2>1 DEF CardsInOrder, OneAtWork, CardsKnown, AskerOK
<1> QED BY <1>1, <1>3, <1>4, <1>5, <1>6 DEF AsksInv

LEMMA AsksInvStep == AsksInv /\ [AsksNext]_<<asksVars, faults>> => AsksInv'
<1> SUFFICES ASSUME AsksInv, [AsksNext]_<<asksVars, faults>> PROVE AsksInv'
  OBVIOUS
<1>1. ASSUME NEW w \in Workers,
             \/ AskScan(w) \/ AskScanEnd(w) \/ AskStats(w) \/ AskStatsEnd(w)
             \/ \E a \in Asked, force \in BOOLEAN : AskReply(w, a, force)
             \/ AskCard(w) \/ AskReplyEnd(w) \/ AsksCrash(w)
      PROVE  AsksInv'
  BY <1>1, AskStarts, AskEnds, AskCardSteps
<1>2. ASSUME NEW a \in Asked, NEW status \in {"new", "skipped", "replied"}, setAskStatus(a, status)
      PROVE  AsksInv'
  BY <1>2, SetAskStatus
<1>3. ASSUME NEW i \in Topics, NEW status \in {"watching", "build", "taken"}, setIdea(i, status)
      PROVE  AsksInv'
  BY <1>3, SetIdea
<1>4. ASSUME NEW i \in Topics, NEW j \in Topics, mergeIdeas(i, j)
      PROVE  AsksInv'
  BY <1>4, MergeIdeas
<1>5. ASSUME AskList \/ clearAsks
      PROVE  AsksInv'
  BY <1>5, ListAndClear
<1>6. ASSUME NEW c \in Cards, Unmark(c) \/ RemoveCard(c) \/ \E mark \in BOOLEAN : Paste(c, mark)
      PROVE  AsksInv'
  BY <1>6, CardsByHand
<1>7. ASSUME UNCHANGED <<asksVars, faults>>
      PROVE  AsksInv'
  <2>1. UNCHANGED <<asks, cards, apc, mine, pasted, said, strayed>>
    BY <1>7 DEF asksVars
  <2>2. /\ cards \in [Cards -> CardStates] /\ pasted \subseteq Asked /\ said \subseteq Asked
        /\ \A c \in Cards : cards[c].state = "done" => cards[c].ask \in pasted
    BY DEF AsksInv, CardsOK, AskWorldOK
  <2> QED BY <2>1, <2>2, AskCardsMove
<1> QED BY <1>1, <1>2, <1>3, <1>4, <1>5, <1>6, <1>7 DEF AsksNext

LEMMA AsksInvAlways == AsksSpec => []AsksInv
<1>1. faults = 0 /\ AsksInit => AsksInv
  BY AsksInvInit
<1> QED BY <1>1, AsksInvStep, PTL DEF AsksSpec

(* Whatever is scanned, answered, merged and pasted, and whoever dies,      *)
(* every variable of the asks keeps its type.                               *)
THEOREM AsksTypeCorrect == AsksSpec => []AsksTypeOK
<1>1. AsksInv => AsksTypeOK
  BY AsksInvIsType
<1> QED BY <1>1, AsksInvAlways, PTL

(* An ask's open cards are those the file or the worker at the cloud names, *)
(* and they are one                                                         *)
LEMMA OneOpenCard ==
  ASSUME AsksInv, ~strayed, NEW a \in Asked \ Excused
  PROVE  Cardinality(OpenCards(a)) <= 1
<1>1. OpenCards(a) \subseteq OpenFor(a)
  BY DEF OpenCards, OpenFor
<1>2. CardsInOrder
  BY DEF AsksInv
<1>3. \A c, d \in OpenFor(a) : c = d
  <2> SUFFICES ASSUME NEW c \in OpenFor(a), NEW d \in OpenFor(a)
               PROVE  c = d
    OBVIOUS
  <2>1. CASE \E w \in Workers : apc[w] = "cloud" /\ mine[w].ask = a
    <3>1. PICK w \in Workers : apc[w] = "cloud" /\ mine[w].ask = a
      BY <2>1
    <3>2. OpenFor(a) \subseteq {mine[w].card}
      BY <1>2, <3>1 DEF CardsInOrder, AskerOK
    <3> QED BY <3>2
  <2>2. CASE ~\E w \in Workers : apc[w] = "cloud" /\ mine[w].ask = a
    <3>1. Names(asks, a, c) /\ Names(asks, a, d)
      BY <1>2, <2>2 DEF CardsInOrder, CardsKnown, CardInHand
    <3> QED BY <3>1 DEF Names
  <2> QED BY <2>1, <2>2
<1>4. CASE OpenCards(a) = {}
  BY <1>4, FS_EmptySet
<1>5. CASE OpenCards(a) # {}
  <2>1. PICK c : c \in OpenCards(a)
    BY <1>5
  <2>2. OpenCards(a) = {c}
    BY <1>1, <1>3, <2>1
  <2>3. Cardinality(OpenCards(a)) = 1
    BY <2>2, FS_Singleton
  <2> QED BY <2>3
<1> QED BY <1>4, <1>5

(* Whatever is scanned, answered, merged, dropped and written back by whom, *)
(* an ask is counted under the one idea it names; and while the file is     *)
(* held by one at a time and nobody dies with a card, an ask no person has  *)
(* set by hand is replied only if its reply was pasted, and before that has *)
(* one card open.                                                           *)
THEOREM AsksAreCountedOnce == AsksSpec => []AsksAddUp
<1>1. AsksInv => AsksAddUp
  <2> SUFFICES ASSUME AsksInv PROVE AsksAddUp
    OBVIOUS
  <2>1. AddUp
    BY DEF AsksInv, AskFileOK, AddsUp, AddUp
  <2>2. ASSUME ~strayed, NEW a \in Asked \ said
        PROVE  /\ asks.ask[a].status = "replied" => a \in pasted
               /\ a \notin pasted => Cardinality(OpenCards(a)) <= 1
    <3>1. asks.ask[a].status = "replied" => a \in pasted
      BY DEF AsksInv, AskFileOK, RepliedIsPasted, Excused
    <3>2. a \notin pasted => Cardinality(OpenCards(a)) <= 1
      BY <2>2, OneOpenCard DEF Excused
    <3> QED BY <3>1, <3>2
  <2> QED BY <2>1, <2>2 DEF AsksAddUp
<1> QED BY <1>1, AsksInvAlways, PTL
==============================================================================
