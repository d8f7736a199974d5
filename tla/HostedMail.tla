----------------------------- MODULE HostedMail -----------------------------
(***************************************************************************)
(* Mail through myna cloud (apps/api/src/mail.ts, the myna-cloud provider  *)
(* of core/mail/providers.ts): the installs of one account post chunks of  *)
(* an issue to the server, which counts them in cloud_mail_sends under a   *)
(* daily cap and hands them to Resend.                                     *)
(*                                                                         *)
(* Each install has a ledger of its own, of its own messages, and one send *)
(* at a time (SendLock).  A post goes on in the server when the install is *)
(* gone or has stopped waiting.  The rows of cloud_mail_sends are counted  *)
(* and inserted in two statements, and settled in a third.                 *)
(***************************************************************************)
EXTENDS Jobs

CONSTANTS
  Mails,        \* what there is to send
  InstallOf,    \* the install whose ledger each is in; each is a worker's
  DailyCap,     \* MYNA_MAIL_DAILY_CAP
  Attempts,     \* THROTTLE_ATTEMPTS
  Posts         \* bound: posts the server remembers at once

ASSUME HostedAssumption ==
  /\ IsFiniteSet(Mails) /\ IsFiniteSet(Posts)
  /\ InstallOf \in [Mails -> Workers]
  /\ DailyCap \in Nat /\ Attempts \in Nat \ {0} /\ "none" \notin Posts

VARIABLES
  mail,     \* the ledgers: what each row says
  hpc,      \* where the send of each install is
  chunk,    \* its chunk, the post it waits for, and which attempt it is
  post,     \* the server: each call, and its row of cloud_mail_sends
  copies,   \* history: how often Resend took each message, at most two
  vague,    \* history: messages Resend took when the server could not tell
  misheard  \* history: messages of which the install was told otherwise, or
            \* before the server knew

hostedVars == <<mail, hpc, chunk, post, copies, vague, misheard>>

(* units: the row's count, as what of the batch it is for; took (history):   *)
(* what Resend took of it                                                    *)
NoPost == [state |-> "none", units |-> {}, took |-> {}, res |-> "none"]
NoChunk == [batch |-> {}, post |-> "none", attempt |-> 0]

HostedInit ==
  /\ mail = [m \in Mails |-> "owed"]
  /\ hpc = [w \in Workers |-> "idle"] /\ chunk = [w \in Workers |-> NoChunk]
  /\ post = [p \in Posts |-> NoPost]
  /\ copies = [m \in Mails |-> 0] /\ vague = {} /\ misheard = {}

PostIs(p, row) == post' = [post EXCEPT ![p] = row]

(***************************************************************************)
(* The install                                                             *)
(***************************************************************************)
Ledger(rows) == mail' = [m \in Mails |-> IF m \in DOMAIN rows THEN rows[m] ELSE mail[m]]

SendAt(w, where, c) == hpc' = [hpc EXCEPT ![w] = where] /\ chunk' = [chunk EXCEPT ![w] = c]

(* sendEach comes to a chunk and marks it.  A retryable row is due again.    *)
MarkChunk(w) ==
  /\ hpc[w] = "idle"
  /\ \E batch \in SUBSET {m \in Mails : InstallOf[m] = w /\ mail[m] \in {"owed", "retry"}} :
       /\ batch # {}
       /\ Ledger([m \in batch |-> "pending"])
       /\ SendAt(w, "post", [NoChunk EXCEPT !.batch = batch, !.attempt = 1])
  /\ UNCHANGED <<post, copies, vague, misheard, faults>>

(* `--retry-failed` *)
RetryFailed(m) ==
  /\ mail[m] = "failed" /\ mail' = [mail EXCEPT ![m] = "owed"]
  /\ UNCHANGED <<hpc, chunk, post, copies, vague, misheard, faults>>

(* A row that is not in use *)
FreePost == CHOOSE p \in Posts : post[p].state = "none"

(* The call gets there, and reserve inserts its row; or the server will not  *)
(* have it: no sign-in, no key, not a message                                *)
Reserve(w) ==
  LET c == chunk[w]
  IN  /\ hpc[w] = "post"
      /\ \/ /\ \E p \in Posts : post[p].state = "none"
            /\ PostIs(FreePost, [NoPost EXCEPT !.state = "count", !.units = c.batch])
            /\ SendAt(w, "wait", [c EXCEPT !.post = FreePost])
            /\ UNCHANGED mail
         \/ /\ Ledger([m \in c.batch |-> "failed"]) /\ SendAt(w, "idle", NoChunk)
            /\ UNCHANGED post
      /\ UNCHANGED <<copies, vague, misheard, faults>>

(* The server's answer.  It says 429 of all that is throttled, and then the  *)
(* chunk is posted again, until the attempts are used up; a 502 is retryable *)
(* and no throttling.                                                        *)
Hear(w) ==
  LET c == chunk[w]
      a == post[c.post]
  IN  /\ hpc[w] = "wait" /\ a.state = "done"
      /\ IF a.res = "throttled" /\ c.attempt < Attempts
         THEN /\ SendAt(w, "post", [c EXCEPT !.post = "none", !.attempt = @ + 1])
              /\ UNCHANGED mail
         ELSE /\ SendAt(w, "idle", NoChunk)
              /\ Ledger([m \in c.batch |-> IF a.res = "ids" /\ m \in a.took THEN "sent"
                                       ELSE IF a.res = "silent" THEN "retry" ELSE "failed"])
      /\ UNCHANGED <<post, copies, vague, misheard, faults>>

(* mutant: a connection that died is a failure like another *)
UnsureRetry == "retry"

(* It may have gone out *)
Unsure == "pending"

(* No answer in 30 seconds, a connection that died, or the process did; the  *)
(* post may have got there or not                                            *)
Unheard(w) ==
  /\ hpc[w] \in {"post", "wait"} /\ Fault
  /\ Ledger([m \in chunk[w].batch |-> Unsure]) /\ SendAt(w, "idle", NoChunk)
  /\ UNCHANGED <<post, copies, vague, misheard>>

(* The status is heard and its body lost, and with it every result: the      *)
(* status alone says what to do, a 200 is no success, and final, and of the  *)
(* refusals a 503 is worth another go, a 400 is not                          *)
HearStatus(w) ==
  LET a == post[chunk[w].post]
  IN  /\ hpc[w] = "wait" /\ a.state = "done" /\ Fault
      /\ \/ a.res \in {"ids", "noids", "refused"} /\ Ledger([m \in chunk[w].batch |-> "failed"])
         \/ a.res = "refused" /\ Ledger([m \in chunk[w].batch |-> "retry"])
      /\ SendAt(w, "idle", NoChunk)
      /\ misheard' = misheard \cup a.took
      /\ UNCHANGED <<post, copies, vague>>

(* What the post of w took, or may take yet *)
Doubted(w) ==
  {m \in chunk[w].batch : /\ hpc[w] = "wait"
                          /\ \/ post[chunk[w].post].state \in {"count", "call"}
                             \/ m \in post[chunk[w].post].took}

(* A proxy gives up on the server, 502 or 504, which is retryable; the post  *)
(* never got there, or goes on in the server, or was done                    *)
ProxyFails(w) ==
  /\ hpc[w] \in {"post", "wait"} /\ Fault
  /\ Ledger([m \in chunk[w].batch |-> "retry"]) /\ SendAt(w, "idle", NoChunk)
  /\ misheard' = misheard \cup Doubted(w)
  /\ UNCHANGED <<post, copies, vague>>

(***************************************************************************)
(* The server: hostedSend                                                  *)
(***************************************************************************)
(* mutant: only what Resend has answered is counted *)
UsedSettled == {u \in Posts \X Mails :
                  post[u[1]].state = "done" /\ u[2] \in post[u[1]].units}

(* The sum over the rows of the last 24 hours *)
Used == {u \in Posts \X Mails : u[2] \in post[u[1]].units}

(* reserve's second statement; over the cap is answered like a throttling *)
Count(p) ==
  /\ post[p].state = "count"
  /\ IF Cardinality(Used) <= DailyCap
     THEN PostIs(p, [post[p] EXCEPT !.state = "call"])
     ELSE PostIs(p, [post[p] EXCEPT !.state = "settle", !.res = "throttled"])
  /\ UNCHANGED <<mail, hpc, chunk, copies, vague, misheard, faults>>

(* Resend takes some and gives their ids, or refuses all of it, or puts it   *)
(* off (429); or it fails (5xx), or is not heard, or says yes and the body   *)
(* with the ids is lost, and may have taken it                               *)
Takes(p, S, res) ==
  /\ PostIs(p, [post[p] EXCEPT !.state = "settle", !.took = S, !.res = res])
  /\ copies' = [m \in Mails |-> IF m \in S /\ copies[m] < 2 THEN copies[m] + 1
                                                           ELSE copies[m]]

Exchange(p) ==
  /\ post[p].state = "call"
  /\ \/ /\ \/ \E S \in SUBSET post[p].units : Takes(p, S, "ids")
           \/ \E res \in {"refused", "throttled"} : Takes(p, {}, res)
        /\ UNCHANGED <<vague, faults>>
     \/ \E S \in {{}, post[p].units},
          res \in {"throttled", "silent", "noids"} :
          Takes(p, S, res) /\ vague' = vague \cup S /\ Fault
  /\ UNCHANGED <<mail, hpc, chunk, misheard>>

(* release, of what did not go; when nobody knows the reservation stands,    *)
(* but a message without an id counts as not gone                            *)
Settle(p) ==
  /\ post[p].state = "settle"
  /\ PostIs(p, [post[p] EXCEPT !.state = "done",
                  !.units = IF post[p].res = "ids" THEN post[p].took
                            ELSE IF post[p].res = "silent" THEN @ ELSE {}])
  /\ UNCHANGED <<mail, hpc, chunk, copies, vague, misheard, faults>>

(* The server dies on the way, or a statement fails: 500, or a proxy's 502   *)
ServerFails(p) ==
  /\ post[p].state \in {"count", "call", "settle"} /\ Fault
  /\ PostIs(p, [post[p] EXCEPT !.state = "done", !.res = "silent"])
  /\ vague' = vague \cup post[p].took
  /\ UNCHANGED <<mail, hpc, chunk, copies, misheard>>

(* A row is no longer of the last 24 hours, which no call takes *)
RowGetsOld(p) ==
  /\ post[p].state = "done" /\ \A w \in Workers : chunk[w].post # p
  /\ PostIs(p, NoPost)
  /\ UNCHANGED <<mail, hpc, chunk, copies, vague, misheard, faults>>

HostedNext ==
  \/ \E w \in Workers :
       \/ MarkChunk(w) \/ Reserve(w) \/ Hear(w)
       \/ Unheard(w) \/ HearStatus(w) \/ ProxyFails(w)
  \/ \E m \in Mails : RetryFailed(m)
  \/ \E p \in Posts :
       Count(p) \/ Exchange(p) \/ Settle(p) \/ ServerFails(p) \/ RowGetsOld(p)

HostedSpec == faults = 0 /\ HostedInit /\ [][HostedNext]_<<hostedVars, faults>>

(***************************************************************************)
(* Properties                                                              *)
(***************************************************************************)
Chunks == [batch : SUBSET Mails, post : Posts \cup {"none"}, attempt : 0..Attempts]

Rows == [state : {"none", "count", "call", "settle", "done"},
         units : SUBSET Mails, took : SUBSET Mails,
         res : {"none", "ids", "noids", "refused", "throttled", "silent"}]

(* The type of every variable; an install has its own messages in hand. *)
HostedTypeOK ==
  /\ mail \in [Mails -> {"owed", "pending", "sent", "failed", "retry"}]
  /\ hpc \in [Workers -> {"idle", "post", "wait"}]
  /\ chunk \in [Workers -> Chunks]
  /\ \A w \in Workers : /\ \A m \in chunk[w].batch : InstallOf[m] = w
                        /\ hpc[w] = "wait" <=> chunk[w].post # "none"
  /\ post \in [Posts -> Rows]
  /\ copies \in [Mails -> 0..2] /\ vague \subseteq Mails /\ misheard \subseteq Mails

(* mail.ts:10, "A batch is reserved in the ledger before it goes, so two      *)
(* calls at once cannot both slip under the cap": what Resend took of the     *)
(* calls of the last 24 hours is within the cap, whichever installs sent, and *)
(* whatever was released, timed out and failed; but for what it took when it  *)
(* said it had not.                                                           *)
DailyCapHeld ==
  Cardinality({u \in Posts \X Mails : u[2] \in post[u[1]].took \ vague}) <= DailyCap

(* core/mail/retry.ts:29, "Unknown sends are never retried", and              *)
(* core/newsletter.ts:936, "it may have gone out": through timeouts, dead     *)
(* installs and servers, lost and wrong answers, throttling and retries a row *)
(* that says sent was taken; and a message is taken once, and a row that says *)
(* it was not, or is to be tried again, was not, unless the server could not  *)
(* tell or the install was told otherwise.                                    *)
HostedOnce ==
  /\ \A m \in Mails : mail[m] = "sent" => copies[m] >= 1
  /\ \A m \in Mails \ (vague \cup misheard) :
       /\ copies[m] <= 1
       /\ mail[m] \in {"owed", "failed", "retry"} => copies[m] = 0
=============================================================================
