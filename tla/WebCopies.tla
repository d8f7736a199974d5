------------------------------ MODULE WebCopies ------------------------------
(***************************************************************************)
(* The web copies of an issue that has gone out                            *)
(* (core/newsletter-publish.ts): the daemon's publishDueNewsletters, which *)
(* tries each account the copy is owed to a few times, and                 *)
(* `myna newsletter publish`, which may name accounts and force a copy.    *)
(***************************************************************************)
EXTENDS Jobs

CONSTANTS
  Blogs,       \* the accounts of newsletter.publishTo
  MaxTries,    \* MAX_ATTEMPTS
  MaxByHand    \* bound: how often the command is used

ASSUME WebAssumption == MaxTries \in Nat \ {0} /\ MaxByHand \in Nat

VARIABLES
  out,        \* whether the issue has reached anyone
  copy,       \* newsletter.published: an account's last attempt
  offLimits,  \* accounts that are gone or archived
  wpc, job,   \* where each worker is, and with what
  byHand,     \* how often the command was used
  landed,     \* history: copies the account took, two standing for more
  tried,      \* history: times the daemon called it, up to one too many
  unsure      \* history: accounts whose copy may be there without a record

webVars == <<out, copy, offLimits, wpc, job, byHand, landed, tried, unsure>>

Never == [ok |-> FALSE, tries |-> 0]

(* earlier: newsletter.published as the worker read it, and what it has     *)
(* added; todo: accounts to come; blog: the one it is at                    *)
NoJob == [earlier |-> <<>>, todo |-> {}, blog |-> "none", force |-> FALSE,
          daemon |-> FALSE, res |-> "none"]

WebInit ==
  /\ out = FALSE /\ copy = [b \in Blogs |-> Never] /\ offLimits = {}
  /\ wpc = [w \in Workers |-> "idle"] /\ job = [w \in Workers |-> NoJob]
  /\ byHand = 0
  /\ landed = [b \in Blogs |-> 0] /\ tried = [b \in Blogs |-> 0] /\ unsure = {}

At(w, where, j) ==
  /\ wpc' = [wpc EXCEPT ![w] = where] /\ job' = [job EXCEPT ![w] = j]

Owed == {b \in Blogs : ~copy[b].ok /\ copy[b].tries < MaxTries}

(* The accounts another worker has in hand *)
Others(w) ==
  UNION {job[o].todo \cup {job[o].blog} : o \in {x \in Workers \ {w} : wpc[x] # "idle"}}

(* publishDueNewsletters reads the issues once and gets to this one after   *)
(* the copies of the issues before it                                       *)
PublishDue(w) ==
  /\ wpc[w] = "idle" /\ out /\ Owed # {}
  /\ At(w, "open", [NoJob EXCEPT !.todo = Owed, !.daemon = TRUE])
  /\ unsure' = unsure \cup (Owed \cap Others(w))
  /\ UNCHANGED <<out, copy, offLimits, byHand, landed, tried, faults>>

(* publishNewsletter by hand; an issue nobody has got yet is refused *)
PublishByHand(w, to, force) ==
  /\ wpc[w] = "idle" /\ out /\ to # {} /\ byHand < MaxByHand
  /\ byHand' = byHand + 1
  /\ At(w, "open", [NoJob EXCEPT !.todo = to, !.force = force])
  /\ unsure' = unsure \cup (IF force THEN to ELSE to \cap Others(w))
  /\ UNCHANGED <<out, copy, offLimits, landed, tried, faults>>

Open(w) ==
  /\ wpc[w] = "open" /\ At(w, "next", [job[w] EXCEPT !.earlier = copy])
  /\ UNCHANGED <<out, copy, offLimits, byHand, landed, tried, unsure, faults>>

(* The accounts in their order, any: one that has the copy, or is gone or   *)
(* archived, is passed over, which is recorded nowhere; the next is called  *)
NextBlog(w) ==
  /\ wpc[w] = "next"
  /\ LET j == job[w]
     IN  \/ /\ j.todo = {} /\ At(w, "idle", NoJob)
            /\ UNCHANGED <<landed, tried, unsure, faults>>
         \/ \E b \in j.todo :
              \/ /\ (j.earlier[b].ok /\ ~j.force) \/ b \in offLimits
                 /\ At(w, "next", [j EXCEPT !.todo = @ \ {b}])
                 /\ UNCHANGED <<landed, tried, unsure, faults>>
              \/ /\ ~j.earlier[b].ok \/ j.force
                 /\ b \notin offLimits
                 /\ \E res \in Outcomes :
                      /\ Faulty(res)
                      /\ At(w, "answer", [j EXCEPT !.todo = @ \ {b}, !.blog = b, !.res = res])
                      /\ landed' = IF Landed(res) /\ landed[b] < 2
                                   THEN [landed EXCEPT ![b] = @ + 1] ELSE landed
                      /\ unsure' = IF res = "lost" THEN unsure \cup {b} ELSE unsure
                 /\ tried' = IF j.daemon /\ tried[b] <= MaxTries
                             THEN [tried EXCEPT ![b] = @ + 1] ELSE tried
  /\ UNCHANGED <<out, copy, offLimits, byHand>>

(* mutant: the copy is recorded from the answer alone *)
AttemptOf(earlier, res) == [ok |-> res = "ok", tries |-> 1]

(* The attempt, after those that were read *)
Attempt(earlier, res) == [ok |-> res = "ok", tries |-> earlier.tries + 1]

Record(w) ==
  /\ wpc[w] = "answer"
  /\ LET j == job[w]
         made == Attempt(j.earlier[j.blog], j.res)
     IN  /\ copy' = [copy EXCEPT ![j.blog] = made]
         /\ At(w, "next", [j EXCEPT !.earlier[j.blog] = made, !.blog = "none", !.res = "none"])
  /\ UNCHANGED <<out, offLimits, byHand, landed, tried, unsure, faults>>

WebCrash(w) ==
  /\ wpc[w] # "idle" /\ Fault /\ At(w, "idle", NoJob)
  /\ unsure' = IF wpc[w] = "answer" THEN unsure \cup {job[w].blog} ELSE unsure
  /\ UNCHANGED <<out, copy, offLimits, byHand, landed, tried>>

(* wentOutAt *)
GoOut ==
  /\ ~out /\ out' = TRUE
  /\ UNCHANGED <<copy, offLimits, wpc, job, byHand, landed, tried, unsure, faults>>

(* An account is archived or removed, or comes back *)
Shelve(b) ==
  /\ offLimits' = IF b \in offLimits THEN offLimits \ {b} ELSE offLimits \cup {b}
  /\ UNCHANGED <<out, copy, wpc, job, byHand, landed, tried, unsure, faults>>

WebNext ==
  \/ \E w \in Workers :
       \/ PublishDue(w) \/ Open(w) \/ NextBlog(w) \/ Record(w) \/ WebCrash(w)
       \/ \E to \in SUBSET Blogs, force \in BOOLEAN : PublishByHand(w, to, force)
  \/ GoOut \/ \E b \in Blogs : Shelve(b)

WebSpec == faults = 0 /\ WebInit /\ [][WebNext]_<<webVars, faults>>

(***************************************************************************)
(* Properties                                                              *)
(***************************************************************************)
(* The type of every variable; who is waiting for an answer has a blog. *)
WebTypeOK ==
  /\ out \in BOOLEAN /\ offLimits \subseteq Blogs /\ unsure \subseteq Blogs
  /\ copy \in [Blogs -> [ok : BOOLEAN, tries : Nat]]
  /\ wpc \in [Workers -> {"idle", "open", "next", "answer"}]
  /\ job \in [Workers -> [earlier : {<<>>} \cup [Blogs -> [ok : BOOLEAN, tries : Nat]],
        todo : SUBSET Blogs, blog : Blogs \cup {"none"}, force : BOOLEAN,
        daemon : BOOLEAN, res : Outcomes \cup {"none"}]]
  /\ \A w \in Workers : /\ wpc[w] = "answer" => job[w].blog \in Blogs
                        /\ wpc[w] \in {"next", "answer"} => job[w].earlier # <<>>
  /\ byHand \in 0..MaxByHand
  /\ landed \in [Blogs -> 0..2] /\ tried \in [Blogs -> 0..(MaxTries + 1)]

(* core/daemon.ts:177: "once per account; a failed post is retried here", up *)
(* to MAX_ATTEMPTS.  An account gets the copy once, and the daemon tries it  *)
(* five times at most, unless the copy was forced, its answer or its record  *)
(* was lost, or two workers posted it at once.                               *)
PublishedOnce ==
  \A b \in Blogs \ unsure : landed[b] <= 1 /\ tried[b] <= MaxTries
=============================================================================
