# Specifications of mynaposter

TLA+ models of `mynaposter` (the `myna` command, its daemon, its TUI, its MCP
server and its cloud), what TLC checks of them on small instances, and what
TLAPS proves of them for every instance. Paths below are relative to the
repository; `newsletter.ts`, `cloud.ts`, ... without a directory are in
`packages/core/src`.

Run a check with `tlc -workers 2 -config X.cfg M`, a proof with `tlapm M.tla`;
`PROJECT.json` lists the runs, the definitions with the lines they translate,
the hazards and the theorems.

## The system

`myna` posts to social networks and mails newsletters from one machine. Nothing
is served: its state is a vault of JSON files, each read, changed and written
whole by whichever process happens to need it. Several processes do so at once:
the daemon, foreground commands, a detached newsletter worker, the TUI, an MCP
server, the desktop window. There is no lock on the vault. Two files have one
of their own: an issue being sent, and the cloud session. Every concurrency
question of this code is about those processes, the crash of one of them, and a
remote service whose answer may be lost.

| Component | State | Operations | Meets | Status |
|---|---|---|---|---|
| newsletter sending (`core/newsletter.ts`, `store/newsletters.ts`, `core/mail/{index,retry}.ts`, `apps/cli/src/cli/newsletter-blast.ts`) | issue: status, schedule, list; a row per recipient | create, edit, send, the daemon's turn | lock, contacts, cap, provider, hosted inbox | partly, `NewsletterSend` |
| newsletter send lock (`core/newsletter-lock.ts`) | a lock file per issue, a table per process | acquire, update, release | signals, pids | modelled, `SendLock` |
| contacts, hosted inbox (`store/contacts.ts`, `apps/api/src/newsletter.ts`) | lists, opt-outs; presses per token, two cursors | opt out/in, press, pull, add, remove | newsletter sending | `UnsubscribeSync`; lists in `NewsletterSend` |
| outreach record (`store/outreach.ts`, `apps/cli/src/cli/outreach.ts`) | e-mails of 24 hours | record, count, `myna email` | newsletter sending | partly, in `NewsletterSend` |
| newsletter publishing (`core/newsletter-publish.ts`) | copies owed, attempts | publish by turn, by hand, by force | newsletter sending, blogs | modelled, `WebCopies` |
| mail queue (`packages/email-queue`) | BullMQ jobs, quotas, breaker, suppression list, audit rows | deliver, work, cancel, pause, resume; reconcile, replay | newsletter sending | partly, `MailQueue` |
| post queue, scheduler, pacing (`core/{scheduler,pacing,poster}.ts`, `store/{queue,history}.ts`) | entries, history | plan, enqueue, tick, cancel, drop | networks, archive | `PostQueue` |
| mirror (`core/mirror.ts`) | settings; pending and done posts | set, poll, act | networks | modelled, `Mirror` |
| engagement (`core/engage.ts`) | notes seen, follow-ups | scan, send, skip, edit | networks | partly, `Engage` |
| upvotes (`core/upvote.ts`) | posts seen, authors, items | scan, run, skip, edit | networks | partly, `Upvotes` |
| reshare network (`core/reshare.ts`, `apps/api/src/reshare.ts`) | profiles, requests, claims; shares of a day | ask, claim, share, report, pay | cloud, networks | partly, `Reshare` |
| synconfig (`packages/synconfig`, `apps/api/src/synconfig.ts`) | files, marker; revisions | save, load | cloud | partly, `SynConfig` |
| myna cloud session (`store/cloud.ts`, `apps/api/src/{oauth,cloud}.ts`) | `cloud.json`, its refresh lock; token families on the server | refresh, fetch, sign in/out, monitor | daemon, every command | partly, `CloudSession` |
| hosted mail (`apps/api/src/mail.ts`, the `myna-cloud` provider) | calls counted in `cloud_mail_sends`, a daily cap | reserve, count, send, release | newsletter sending, Resend | modelled, `HostedMail` |
| asks, hand-off cards (`core/asks.ts`, `store/{asks,handoffs}.ts`) | posts seen, asks, ideas; cards | scan, reply, stats, merge, skip, clear; mark, undo, remove | feeds, the writer, a person who pastes | partly, `Asks` |
| vault (`util/crypto/vault.ts`, `store/accounts.ts`, `apps/cli/src/cli/vault-cmd.ts`) | `vault.json`, `vault.key`; keys and payloads in memory | load, update, unlock, lock, seal | every process | partly, `Vault` |
| daemon (`core/daemon.ts`) | vault gate, job timers | one turn of each job | everything | partly: its jobs, the session monitor |
| webhooks, rotation, plans, autopilot, evergreen, cloud API, networks, brand, AI, media, graph, recap, CLI, TUI, desktop, web | requests, text, screens | | | see Not modelled |

What makes the modelled components right:

* **send lock**: two processes never walk one ledger; no lock outlives its
  process for long; no living process leaves one behind.
* **newsletter sending**: nobody gets an issue twice, whatever crashes, stops
  and retries happen; whoever the ledger allows to be sent to again without
  asking took no copy; nobody who left is mailed; the daily cap holds; an issue
  is finished, and announced once, only when everybody had a turn; a scheduled
  issue gets everywhere in the end.
* **cloud session**: a refresh token is spent once, as a second use makes the
  server revoke the sign-in; a sign-out is final; a revoked session is noticed.
* **mail queue**: one job goes out once, however many processes hand it in and
  work at it; the quota is not overrun, though reserving, sending and refunding
  are done by different processes; what was recorded of a job is final; nobody
  waits for ever for a job in a queue that is resumed.
* **post queue**: whatever is queued, moved, jumped, cancelled and archived, a
  post keeps its network's gap and its account's cap, no text is repeated to an
  account too soon, and an entry is handed to an account once, crash or not.
* **mirror, web copies, follow-ups, upvotes**: an act at somebody else's place
  (a repost, a post, a reply) is made once, the caps of the day hold, and what
  a person skipped is not done.
* **reshare network**: one share per sharer, request and network; no more of
  them than the author asked for, nor than the sharer allows a day; only what
  was shared is paid for.
* **synconfig**: no machine replaces a revision it has not seen, none loses an
  edit to a load.
* **unsubscribes**: the newest press of a reader decides, whatever order it is
  pulled in and from where.
* **hosted mail**: the installs of one account do not slip under its daily cap
  together; a message is taken once, and its row says what happened to it,
  unless the server itself could not tell.
* **asks**: the ideas' counts and the asks' ideas agree whatever is trimmed,
  merged and written back; an ask is replied only when its reply was pasted, and
  one card waits for it.
* **vault**: it opens, with the key file or the passphrase, and no change of an
  account that had no other beside it is lost.

## Modules

| Module | What it is |
|---|---|
| `SendLock` | `acquireSendLock`, `updateSendLock`, `releaseSendLock` and the signal handler of the worker, one action per system call |
| `OneHolder` | the promise of a lock file, abstractly: taken and let go at once by one process, free when that one dies, until a live one is robbed |
| `SendLock_proofs` | its proofs, among them that it implements `OneHolder` |
| `NewsletterSend` | `sendNewsletter` in any number of runs, the daemon's `runDueNewsletters`, edits, the clock, people leaving; the send lock is one variable, used as `OneHolder` allows |
| `OneCopy` | the promise of a ledger of mail, abstractly: a debt per person, given up by an attempt, renewed only by an answer that took nothing or by asking for another copy; the issue's rows keep it, and the mail queue's jobs |
| `NewsletterSend_proofs` | its proofs, among them that it implements `OneCopy`, and sends under `OneHolder` |
| `CloudSession` | `cloud.json`, the refresh lock, `refreshSession`, `cloudFetch`, `login`, `logout`, the monitor, and the token server |
| `CloudSession_proofs` | its proofs, among them that its refresh lock implements `OneHolder` |
| `MailQueue` | `queuedDelivery`, the worker's `processDeliveryJob`, the quota, the breaker and its pause, `cancelEmail`, `pauseEmailQueue`, `resumeEmailQueue`, and what BullMQ does with the job of a worker that died or lost its lock |
| `MailQueue_proofs` | its proofs, among them that it implements `OneCopy` |
| `PostQueue` | `postPaced`, `planTargets`, `reflowQueue`, `runDuePosts`, the queue and the history, archiving and cancelling |
| `PostQueue_proofs` | its proofs |
| `Jobs` | what the daemon's jobs share: workers, faults, the outcomes of a call |
| `Mirror` | `setMirror`, a turn of `runMirrors`, its ledger |
| `WebCopies` | `publishDueNewsletters` and `publishNewsletter` |
| `Engage` | `scanEngagement`, `sendFollowUps`, `updateFollowUp` |
| `Upvotes` | `scanUpvotes`, `runUpvotes`, `updateUpvote` |
| `Engagement_proofs` | the proofs of `Engage` and `Upvotes` |
| `Reshare` | `runReshare`, `join`, `leave`, and the server's requests and claims |
| `SynConfig` | `save` and `load` of a machine's settings, and the server's `put` |
| `UnsubscribeSync` | both hosted pages, `syncAllUnsubscribes`, and contacts changed by hand |
| `CloudExchange_proofs` | the proofs of `Reshare`, `SynConfig`, `UnsubscribeSync` and `HostedMail` |
| `HostedMail` | `hostedSend` and its ledger of calls, the installs that post to it, `recoverThrottledBatch` |
| `Asks` | `scanAsks`, `replyToAsk`, `refreshAskStats`, what is done to asks, ideas and cards by hand |
| `Vault` | `load`, `updateVault`, the key file, unlock sessions and the one a daemon lends, `myna vault passphrase` |
| `DaemonJobs_proofs` | the proofs of `Mirror`, `WebCopies`, `Asks` and `Vault` |
| `MC*` | instances for TLC; `MCDaemonJobs` and `MCCloudExchange` hold several modules |

Operators commented `mutant:` are not part of a specification. Each is a
plausible bug in the code, a variant of the definition that follows it, with
which a property must fail; `PROJECT.json` pairs them.

### SendLock

`file` is the lock file: absent, torn (created, its text not written) or whole,
with the pid and the command line of its maker. `pc` is the system call a
process makes next. A process may die at any call (`Die`, or `Signal` while it
awaits the provider), and its pid may be given to another (`Reborn`): to myna
again, with the same command line or the other one, or to a foreign program.
`LockIsLive` looks at whoever has the pid now, so a foreign program's pid does
not keep a lock, a successor with the same command line does, and a successor
that finds the lock in its own pid adopts it and never drops it
(`newsletter-lock.ts:103`). `left` is history: the file in place was left by a
process that is gone. The command line is read from `/proc`; on a system without
it (`now === undefined`) any process with the pid keeps the lock, and what
`StaleLockIsCleared` says is only true of Linux. `Open` is
`openSync(path, "wx")`, `Write` the `writeFileSync` after it, `Read`/`Judge`/
`Unlink` the loop of `acquireSendLock` for a lock that is there, `UpdateRead`/
`UpdateTruncate`/`UpdateFill` the read-modify-write of `updateSendLock`,
`ReleaseRead`/`ReleaseUnlink` the release. `Throw`, `Inner`, `Pop` and `Signal`
are the worker around it: nested acquires are no-ops, a signal releases and
exits. `robbed` is history: a lock was unlinked by another under a process that
lives and relies on it.

### NewsletterSend

A *run* is a place sends are started from, again and again; `ProcOf` gives its
process. A step is what happens between two awaits, or between two writes of
the store when a crash could tell them apart. `Acquire` takes the lock and reads
the issue, so an edit of its list comes too late for this run; `Sync`
is `syncAllUnsubscribes` (answered, failed closed, or skipped when signed out),
`Begin` chooses the batch from the list, the ledger, the options, what the cap
(the settings' or `--max-per-day`) leaves and the limit, `Mark` writes a row
`pending` ahead of the call, `Call` is the provider's exchange for a chunk,
`Record` and `Count` are the two writes for a message that is out, its row and
its line in `outreach.json`, `After` handles any other answer, `Close`/`Relay`/
`Release` end the run.

`Call` chooses every answer a provider may give and every set of copies it may
have taken. An answer need not be true: a connection that died says nothing of
what it carried; a status whose body is lost is a failure of the whole chunk, to
be tried again or final (`core/mail/providers.ts:57`); a 5xx, the hosted 502
among them, may come from a proxy, or from a server that lost its own answer
(`apps/api/src/mail.ts:211-214`). `denied` counts, per person, the copies taken by
such a call, and a further copy is excused for each of them, as it is for each
time somebody asked for the uncertain ones again (`asks`). Only throttling is
taken at its word.

The cap is about what goes out, so the model counts it: `counted` are the lines of
`outreach.json`, `uncounted` what a provider took that no line counts, be it
on its way, hidden by its call's answer, or forgotten in a crash. `allowed` is
the highest cap a run was given; `leeway` grows by a chunk with each call that
hid a copy and each crash in the middle of one, `beside` by each message that was
let through before a run chose its batch, or is a test copy (`SendBeside`).

Around the runs are edits of the issue (`Schedule`, `EditList`), time
(`TimePasses`, and `Expire`, by which a record of `outreach.json` becomes a day
old), other mail, people leaving by the hosted page or by request, the daemon's
pull, the session, and crashes. `copies`, `asks`, `denied`, `gone`, `audience`
and the counts of the cap but `counted` are history.

Store updates are atomic steps here. The code writes with a temporary file and
a rename, so a crash leaves the old or the new file. Two processes that change
one file at once can still lose an update (`util/json.ts:35`); that is listed
as a hazard and is not part of this module.

### CloudSession

`file` is `cloud.json`: out, expired, or active with a token. Token `n` of
family `f` is the n-th access/refresh pair of the f-th sign-in; a family in
`legacy` has no refresh token (signup). The refresh lock is its maker and
whether its mtime is more than 30 seconds ago. `due` holds the tokens the
client finds due: the access token has at most a minute left, or there is
nothing to refresh with and the last check is more than a minute old. A call is
`RefreshSession` before the lock, `Open`/`Stat`/`Steal`/`TimeOut` at it,
`ReadToRefresh`, `Rotate` or `Me`, `Settle` inside, `Unlock`, and for a fetch
`Require`, `Send`, `Forced`, `Mark`. A server's transaction is one step, and the
step after the answer's arrival another, so a crash or a lost answer falls
between them. `SignIn` and `Land` take no lock, as `login` and
`installTokenSet` take none; neither does `Mark`, the `markExpired` of
`cloudFetch`. Not modelled: the browser and device flows up to the code, the
alert of the monitor, requests to other servers.

### MailQueue

A message is a job id: the identity of the sender and the dedupe key, so two
calls for the same recipient of the same issue meet in one job. A process makes
one call of `queuedDelivery` at a time: `pc` is its next step and `at` its
message; from `Add` on it also runs the worker that call starts, `wk`, `on` and
`res`, which takes any waiting job, not only its own (`Take`). `job`, `receipt`
(a completed job's return value), `used` (the quota counter), `breaker`
(`circuitKey`), `paused` and `suppressed` are in Redis. `tripCircuit` and the
worker's gate start a `queue.pause()` that nobody awaits: it is in `pausing`
until `PauseLands`, and `operator` is between the two commands of
`pauseEmailQueue` or `resumeEmailQueue`. `Lookup` and `Reserve`, `Send` and
`Handle`, `Refund` and `Complete` are steps of their own, since others act
between them. Merged into one step are the two reads before an enqueue and
those before a send, which only makes their answers agree with each other, and
the three attempts of `sendWithThrottleRecovery`. `Stalled` is BullMQ's: the job
of a worker that died, or did not renew its lock in time (`LoseLock`, a process
put to sleep), is handed out once more, then failed. A worker that lost its lock
goes on with the job, as nothing tells it before it completes (`Complete`).

Redis fails in three ways. One command may, before there is a job
(`Unavailable`, `AddFails`), at the gate, which fails the job (`GateFails`), in
`tripCircuit`, which makes a refusal end as unknown (`HandleFails`), or in a
refund, which is ignored. Or the connections are gone for good, as `connectRedis`
tries three times (`LoseRedis`): the call closes or, in `waitUntilFinished`, may
wait for ever; its worker may send what it has in hand and records nothing
(`Drop`). The three connections of a call are lost together. And a provider's
refusal may stand for a copy that was taken, when a proxy's status comes back in
its place (`denied`).

`restricted` stands for every answer on which `providerCircuitDecision` opens
the breaker, `refused` for one that concerns this message only. One window of
the quota is modelled, and one scope of it, the smallest; `reserveScript` takes
all scopes or none. `taken`, the messages the provider took, is history. Myna passes no
audit store (`core/mail/index.ts`), so audit rows, `queueEmail`, `reconcileEmail` and `replayEmail` are not part of the
module yet, nor is a job's expiry after 30 days.

### PostQueue

Times are relative to the present, so a behaviour has no last moment; what is
older than every window is forgotten. `Post` is `postPaced`: `planTargets` gives
each account that does not have the text already (`recentDuplicate`) the first
slot that keeps the gap of its network (`Clear`, the walk of `nextSlotFor`) and
its cap (`UnderCap`, `nextUnderCap`); slots that are now are called at once
(`Land`), the later ones enqueued when the calls are over (`Finish`). With
`--front` the plan does not see later bookings and `reflowQueue` moves them
away. `schedule` (the API, and the TUI alike) makes one entry for all its accounts
and no plan. `Tick` reads what is due once, and `Walk` takes one entry of it to its
calls: it plans the entry again around everything else, and the entry is marked
`sending`, put off, split, or cancelled. A crash may come between any two of
these (`Crash`), an entry left `sending` stays so; and between the writes of one
(`CutOff`: parts are queued, the entry still waits for all its accounts).

`Land` is the calls and the history they leave. What goes out is what the network
makes of a text (`tailor`: tags on links, hashtags, a signature, a cut at the limit;
`TailorOf` is any relation), and that is what the history keeps and what
`recentDuplicate` later compares the untailored text with. History is dated at the
moment the turn or the post began, as in the code. `carried` and `alone` are history
variables.

Not modelled: post types and what networks refuse, the titles of blogs,
reposts, media that cannot be read, account removal, hooks (`postPaced` awaits
one after each entry it makes), and a crash within the writes of a reflow.

### Mirror, WebCopies, Engage, Upvotes

Jobs of the daemon that anybody can also start by hand. In all four a call of a
network is one step and what is done with its answer the next, and the answer
may be lost or the process die in between. They differ in what they write when.

`Mirror` and `WebCopies` write after each call. `mirror.json` has an entry per
post seen, with the acts that went through; a turn reads it again after the
feed came, enters what is new, and acts on one post that is due. A web copy's
attempts are read when the issue's turn comes (`Open`) and written after each
account.

`Engage` and `Upvotes` hold their whole file from the first await to the last
(`Opened`/`WriteEngage`, `readUpvotes`/`writeUpvotes`), so a second process, or
a command in between, is overwritten or overwrites, and a crash forgets what was
sent. A behaviour ends there (`torn`, `clashed`): the promise in the comments
of the code is kept only while one process has the file, and the properties say
so. `age` and `since` put the time of an act in classes: this gap, this day,
before.

Not modelled: more than one account of each, the ledger's limit of 2000 posts,
`clear`, how items are scored, and the wording of replies.

### Reshare

The server's statements are atomic, its handlers are not: `ClaimCount` counts
the claims of a request, `ClaimInsert` inserts one. A worker's turn reads its
day's budget once, is answered some matches, claims one, shares it, reports it,
notes it. `passed` are the workers whose count another insert made obsolete:
they are the only ones that may overfill a request. Whom a request suits is
left open, as `scoreMatch` only narrows it.

### SynConfig

`saves` are the revisions of each account; a machine's marker names one, and
what it held, but not whose it is (`of` is what the model knows of it). A save
reads files and marker, then sends, up to three times; the server reads the
latest revision (`PutRead`), where the same content is answered with the old
number, and inserts if the precondition still holds (`PutInsert`). A load is
answered the latest revision and refuses to replace what was edited since the
marker.

### UnsubscribeSync

A press takes its time when its statement begins and becomes visible when it
commits. A pull asks the hosted inbox for rows after its cursor, reads the
contacts once, claims each change in `newsletters.json` and then opts the person
out or in in `contacts.json`, moves the cursor, and does the same with the
tracked pages, where the contacts are read for each change. By hand people are
opted out, removed and added.

### HostedMail

An install marks a chunk `pending`, posts it, waits, and writes what it heard;
the server's half of a post goes on when the install is gone or has stopped
waiting. `Reserve` inserts a row of `cloud_mail_sends`, `Count` counts the rows
and refuses or goes on, `Exchange` is Resend's answer and what it took, `Settle`
gives back what was not sent. A server that dies in between leaves its row
(`ServerFails`), and rows get a day old (`RowGetsOld`). `Unsure` is what the
client makes of no answer. Answers need not be true. Resend's may be a 5xx after
it took the batch, or a 200 whose body with the ids is lost, which the server
takes for none sent, and gives back (`noids`). The server's may arrive as a
status without its body: a 200 is then recorded as failed for good
(`HearStatus`). And a proxy may answer 502 or 504, which is retryable, while the
call never got there, is under way in the server, or is done (`ProxyFails`); a
second post of the same messages then runs beside the first. `vague` are the
messages Resend took although its answer to the server, or the lack of one, said
otherwise, and `misheard` those that were taken, or could yet be, when the
install was told they were not. `HostedOnce` lets a message be taken again only
if it is one of these, and lets no row say sent of a message that was not taken,
whichever it is; `DailyCapHeld` excuses `vague` only.

### Asks

A worker holds `asks.json` (`mine`) from the start of a scan, a reply or a
refresh of stats to its end, over the feeds, the writer and the cloud; commands
read and write it at once. `Filed` is `assignIdea` for whatever idea the words
match, `Flagged` is `flagIdeas` for whatever part of an idea's askers is inside
the window, `writeAsks` drops those nobody acted on past the limit. A card is
made in the middle of a reply (`AskCard`) and named by its ask at the end
(`AskReplyEnd`). `Paste` is the person. A behaviour ends when two had the file
at once or a process died with a card made (`strayed`). `said` are the asks a
person set by hand, answered again by force, or whose card was opened again.

### Vault

A process does not wait inside an update, but another may run between any two of
its system calls: `Begin` (is the copy in memory still good?), `Load`, `Key`,
`MakeKey`, `SaveVault`, `Write`, `Stamp`. `BeginSeal` to `UnlinkKey` are `myna
vault passphrase`. Each key and each salt made has a number; `Tell` is somebody
typing the passphrase, `Unlock` a session, `Borrow` the socket of
`core/unlock-socket.ts`. `raced` are changes another update was under way with;
`unsafe` ends a behaviour in which a key was made over another, the vault was
sealed twice at once, or was saved with what was read before it was sealed.

## Runs

| Run | Instance | States | Shows |
|---|---|---|---|
| `send_lock` | 2 pids, 2 command lines and a foreign one, 3 attempts each, 2 deaths, pids given again | 474 thousand | one walker unless robbed, the file is the one lock of `OneHolder`, nothing left behind, stale locks cleared (liveness) |
| `newsletter_send` | command + daemon, 2 people in a chunk of 2, cap 1 or 2, signed out, 1 crash, 1 denied copy each, 1 message beside | 3.6 million | the ledger's promise, one copy, everybody had a turn, one announcement, the cap |
| `newsletter_leaving` | command + daemon, 2 lists, chunks of 1, cap 2, other mail, both people may leave, session may expire | 3.7 million | nobody who had left is mailed |
| `newsletter_live` | command + daemon, cap 1 for 2 people, 1 crash, fair | 39 thousand | a scheduled issue reaches everybody |
| `cloud_session` | daemon + another process, 2 sign-ins, 1 rotation each, 1 fault | 2.1 million | serialized rotation, no reuse without loss, sign-out final |
| `cloud_session_live` | the same, 1 sign-in, fair | 36 thousand | a revoked session is noticed |
| `mail_queue` | 2 processes, 2 messages, quota 1, cancels, bounces, 1 fault | 1.3 million | one copy each, the promise of `OneCopy`, the quota, receipts are final |
| `mail_queue_live` | 2 processes, 1 message, cancels, suppressions, operator's pauses, 1 fault, fair | 355 thousand | every call returns |
| `post_queue` | a command + the daemon, 2 accounts of one network, 2 texts, either sent as either, 2 entries, gap 2, day 3, cap 1 | 285 thousand | gaps, caps, no repeats, an entry once, archived accounts, room for the front |
| `post_queue_due` | 1 account, 2 entries, fair | | violated: what is due is taken up (finding) |
| `daemon_jobs` | 2 workers, 1 fault; a mirror with 1 post, or 1 blog, or 2 notes of one person, or 2 posts of one author, or 2 asks, 2 ideas and 2 cards, or the vault and 2 changes | 2.0 million | each act once, caps, what was skipped stays undone, the ideas add up, the vault opens and keeps its changes |
| `cloud_exchange` | 2 workers, 1 fault; 1 request on 2 networks for 1 place, or 2 machines and 2 accounts, or 2 readers, or 2 installs, 3 messages and a cap of 2 | 1.5 million | one share a place, no unseen revision replaced, no edit lost, the newest press counts, the account's cap, a message taken once |

**Bounds.** Two processes are enough for every race of two, and each may crash
and go on as a new one; the theorems have no bound on their number. In
`newsletter_leaving` chunks of one with two people give a stop between chunks,
in `newsletter_send` a chunk of two is answered in part. A cap under the size of
a list makes a run end on it. One
crash per behaviour can fall at every step; `MaxAsks` bounds how often
somebody orders uncertain copies to be sent again, `MaxDenials` how often a
person's copy is denied by the call that took it, `MaxBeside` the messages beside
a run. `MaxLogins = 2` lets a sign-in
land on top of a call that holds the one before, of the same kind or the other;
`MaxTurns = 1` lets a token be spent and presented again; the grant that would
go over it is not taken, but a request may fail in its place. `MaxFaults`
counts lost answers, false ones, failed commands, crashes and processes put to
sleep together. In `mail_queue`
a quota of one for two messages makes one of them wait for a refund of the
other; `Messages` and `Procs` are symmetric in that run, which has no liveness
property. One message is enough for `WaitersReturn`: both processes wait for
the same job, and either may be the one that dies with it.

In `post_queue` two accounts on one network compete for its gap, two entries for
one slot, and a day of 3 units with a gap of 2 makes cap and gap bind at
different times. A behaviour has paced posts and one more use of the queue:
`--front`, `--now`, posts ahead, or one cancel, archival or crash; or it has entries
for several accounts, and an archival or a crash (`Uses`, `MaxOdd`). Calls take no time (`MaxLag = 0`), a post is
forced while at most one thing is booked, past or to come (`MaxForced = 1`), and
one account is archived at a time. In
`daemon_jobs` a behaviour exercises one job, as they share no state; `landed`,
`replies`, `links` and `shares` count to two, one more than what is right. In
`cloud_exchange` the two installs of `reshare` are one person's, which is where
both halves of `SharedOnce` can fail; as two claimants of one request they are
as good as any two. Settings are exchanged in one account with a fault, or in
several without (`Revisions`). Presses, changes by hand and faults are three in
all (`Few`): a press, a second one of the same or the other reader, and a fault
or a hand. Hosted mail has two messages of one install and one of the other
under a cap of two, so that either may be the one over it, two calls at once,
and two attempts at a chunk. The vault has two changes, so one can be lost to
the other, beside one sealing. Of two asks one is trimmed, as the limit is
one, and a person sets at most one by hand (`MaxSaid`). Sets that no
definition relates share their model values in `MCDaemonJobs.cfg`, so that one
permutation serves them all.

**Fairness.** *SendLock*: a process that lives makes its next system call; the
liveness property is conditional on somebody trying. *NewsletterSend*: a
process runs on; days pass; the daemon's timer fires again and again
(`startDaemon` never stops its interval), and what is answered badly for a while
is not answered badly for ever: strong fairness for a pull that is answered, a
send that finds its sender, a provider that settles a whole chunk. Without these
the property is false for an obvious reason, a provider that is down for ever.
`ManualSendsEnd` says that nobody starts sends by hand without end. *CloudSession*: processes run on, the daemon's
monitor takes its turns, locks and tokens age, and a server is not out of reach
at every try. *MailQueue*: processes run on, BullMQ's timers fire, its queue
is first in, first out (strong fairness of taking a job), and an operator
resumes a paused queue in the end. That is more than the code helps with: a
pause that lands after a resume leaves the queue paused with the breaker closed,
which `getProviderHealth` shows as available. *PostQueue*: time passes, and the
scheduler's interval ticks and its turn goes on (`core/scheduler.ts:227`);
nobody has to post. No fairness is assumed of people, crashes, or of who wins a lock.

**Deadlock** is not checked: a vault where nobody does anything is a legal end
in every one of these instances, as all bounds can be used up.

## Proofs

| Theorem | For every | By |
|---|---|---|
| `SendLock_proofs!TypeCorrect` | set of processes, bounds | step by step |
| `SendLock_proofs!MutualExclusionUntilRobbery` | the same | an invariant that ties each process inside to the lock file it made |
| `SendLock_proofs!LocksAreCleared` | the same | the invariant `TidyInv` |
| `SendLock_proofs!LockFileIsOneLock` | the same | each system call is a step of `OneHolder` or stutters, see below |
| `NewsletterSend_proofs!TypeCorrect` | set of people, lists, runs, batch size, cap | step by step |
| `NewsletterSend_proofs!NobodyGetsItTwice` | the same, each run a process of its own | the invariant `LedgerInv`, see below |
| `NewsletterSend_proofs!RefusedMeansNotTaken` | the same, each run a process of its own | the same invariant |
| `NewsletterSend_proofs!LedgerKeepsThePromise` | the same, each run a process of its own | each action implements an action of `OneCopy` or stutters |
| `NewsletterSend_proofs!SendsUnderTheLock` | the same, each run a process of its own | each action uses the lock as `OneHolder` does |
| `NewsletterSend_proofs!RelayedOnce` | set of people, lists, runs, batch size, cap | the invariant `AnnounceInv` |
| `NewsletterSend_proofs!CapIsHonoured` | the same, each run a process of its own | the invariant `CapInv` |
| `NewsletterSend_proofs!WhoLeftGetsNothing` | the same, nobody signed out | the invariant `LeftInv` |
| `NewsletterSend_proofs!SentAfterEveryone` | set of people, lists, runs, batch size, cap | the invariant `TurnInv` |
| `CloudSession_proofs!Serialized` | set of processes, sign-ins, rotations, faults | the invariant `Held` |
| `CloudSession_proofs!SessionTypeCorrect` | the same | step by step |
| `CloudSession_proofs!ReuseOnlyWhenLost` | the same | the invariant `TokenInv`, see below |
| `CloudSession_proofs!SignOutIsFinal` | the same | the same invariant |
| `CloudSession_proofs!RefreshLockIsOneLock` | the same | each step is one of `OneHolder` or stutters, by `Held` |
| `MailQueue_proofs!TypeCorrect` | set of messages, processes, quota, faults | step by step |
| `MailQueue_proofs!OneCopyPerDelivery` | the same | the invariant `JobInv`, see below |
| `MailQueue_proofs!ReceiptsAreFinal` | the same | the same invariant |
| `MailQueue_proofs!QuotaIsHonoured` | the same | the invariant `QuotaInv`, see below |
| `MailQueue_proofs!QueueKeepsThePromise` | the same | each step is one of `OneCopy` or stutters, by `JobInv` |
| `MailQueue_proofs!ReceiptsTellTheTruth` | the same | `JobInv` and the invariant `Took`, see below |
| `PostQueue_proofs!PostTypeCorrect` | set of accounts, networks, texts, processes, places, gaps, windows, cap | the invariant `PostInv`, see below |
| `PostQueue_proofs!GapIsKept` | the same | the same invariant |
| `PostQueue_proofs!CapIsKept` | the same | the same invariant |
| `PostQueue_proofs!NothingIsRepeated` | the same | the same invariant |
| `PostQueue_proofs!HandedOnce` | the same | the same invariant |
| `PostQueue_proofs!NothingToArchived` | the same | what every step that begins a send does |
| `PostQueue_proofs!RoomIsKept` | the same | the invariant `RoomInv`, see below |
| `CloudExchange_proofs!HostedTypeCorrect` | set of messages, installs, posts, attempts, cap | step by step |
| `CloudExchange_proofs!DailyCapIsKept` | the same | the invariant `CapInv`, see below |
| `CloudExchange_proofs!HostedSentOnce` | the same | the invariant `OnceInv`, see below |
| `DaemonJobs_proofs!MirrorTypeCorrect` | set of posts, workers, attempts, faults | the invariant `MirrorInv`, see below |
| `DaemonJobs_proofs!ActedOnOnce` | the same | the same invariant |
| `DaemonJobs_proofs!WebTypeCorrect` | set of blogs, workers, tries, faults | the invariant `WebInv`, see below |
| `DaemonJobs_proofs!CopiedOnce` | the same | the same invariant |
| `DaemonJobs_proofs!AsksTypeCorrect` | set of asks, ideas, cards, workers, limits, faults | the invariant `AsksInv`, see below |
| `DaemonJobs_proofs!AsksAreCountedOnce` | the same | the same invariant |
| `DaemonJobs_proofs!VaultTypeCorrect` | set of processes, changes, keys, faults | the invariant `VaultInv`, see below |
| `DaemonJobs_proofs!VaultIsKept` | the same | the same invariant |
| `Engagement_proofs!EngageTypeCorrect` | set of notes, people, workers, cap, faults | the invariant `EngageInv`, see below |
| `Engagement_proofs!AnsweredJustOnce` | the same | the same invariant |
| `Engagement_proofs!UpvoteTypeCorrect` | set of posts, authors, workers, caps, faults | the invariant `UpvoteInv`, see below |
| `Engagement_proofs!VotedJustOnce` | the same | the same invariant |
| `CloudExchange_proofs!ReshareTypeCorrect` | set of people, installs, requests, limits, faults | step by step |
| `CloudExchange_proofs!SharedByOne` | the same | the invariant `HandInv`, see below |
| `CloudExchange_proofs!LimitsAreHeld` | the same | the invariants `PlaceInv` and `DayInv`, see below |
| `CloudExchange_proofs!SynTypeCorrect` | set of machines, workers, accounts, revisions, faults | the invariant `SynInv`, see below |
| `CloudExchange_proofs!NothingIsLost` | the same | the same invariant |
| `CloudExchange_proofs!EditsAreKept` | the same | the same invariant |
| `CloudExchange_proofs!SyncTypeCorrect` | set of readers, workers, presses, faults | the invariants `SyncOK` and `PressInv` |
| `CloudExchange_proofs!NewestPressIsWhatCounts` | the same | the invariant `OptOutInv`, see below |

`NobodyTwice` is not inductive. A chunk that was marked and whose answer is not
handled may have been taken or not; what holds is a budget per person: the
copies taken, plus one for a copy still on its way, are at most the orders
and the denials (`1 + asks + denied`), and a row that lets the next run send
without asking leaves one of these free. The invariant also says that a run past the lock holds it and that the
chunks of different runs do not meet, which needs the hypothesis
`OneRunPerProcess`: the lock is a no-op for the process that holds it, and with
two runs in one process (two tool calls of one MCP server) the theorem is false.

`CapHonoured` needs the same hypothesis, for the same reason: `CapInv` says that
what a run still has in its batch fits what is left of the cap whatever has been
answered meanwhile, and two runs inside would each fit alone. A run reads
`counted` only, so what `uncounted` holds must be under the leeway whenever a run
chooses its batch: `UncountedInHand` says that the rest of it are answered copies
of the one call under way (`InHand`), which `Count` writes down or a crash moves
to the leeway. `NobodyWhoHadLeft`
holds of a machine that is signed in (`"out" \notin Sessions`); signed out, the
pull is skipped and the send goes on, which the list of divergences below has.
`LeftInv` follows who had left from the pull into the batch. `AnnouncedOnce` and
`SentMeansEveryoneHadATurn` hold of any runs, of one process or of several:
`AnnounceInv` says that the announcement is still to come, is one run's to make,
or is made; `TurnInv` that whoever a run found on its list has a row, is still
in its batch, or was cut from it.

`NoLockLeftBehind` speaks of a process that is idle, `TidyInv` of each frame of
a nested send: a file in a process's name that nobody left is one it is about
to write, or one of the frames on its stack will come to a release that drops
it. A process that adopted a predecessor's lock has no such frame, and the file
stays left.

**One lock, three times.** The abstract lock of `OneHolder` is one variable.
`SendLock` makes it of a file, system call by system call, and the theorem
`LockFileIsOneLock` says that nothing else shows: its holder is the live process
that goes on under the file in its name (`Holder`), and those inside are the ones
that walk the ledger (`Walkers`). The exclusive open takes it, or the read of a
predecessor's file in one's own pid; an unlink lets it go, or the return of a
send that had adopted it. Reading, judging and unlinking a dead process's file,
torn or whole, are no steps at all, and neither are nested acquires,
`updateSendLock` nor a pid that is given again. What makes it so is the invariant behind
`MutualExclusionUntilRobbery`: a process past the open or the adoption has a
file in its name there, and one that walks has it whole. An unlink under a live holder maps to
`Robbed`, from which `OneHolder` promises nothing. `NewsletterSend` keeps the
lock as one variable and is never robbed; `SendsUnderTheLock` says that it uses
this variable as `OneHolder` does, so what is proved of sending is proved of the
lock file until a robbery, and of no more than that. The refresh lock of
`CloudSession` is a second implementation, by other means (an mtime, a deadline).
`TheLockExcludes` in `SendLock_proofs` shows what the promise is worth: by
`OneHolder`'s own steps whoever is at work has the lock, until a robbery.

`RotationSerialized` does not say whose file the lock is; `Held` does: until a
robbery, whoever is inside made the file that is there.

`ReuseOnlyAfterLoss` speaks of what happened, `TokenInv` of every hand a token
can be in. Until something is lost or the lock robbed, a token on disk or about
to be presented is unspent, but for the one process inside the lock, which may
have spent the token on disk and has yet to store its successor (`Unspent`). A
successor is handed out only for a spent token, so a fresh one is unspent
(`Chain`). A sign-in lands without the lock, so it must be in nobody else's
hands (`Landing`). `SignedOutStaysOut` needs that no hand from which a token is
written holds one that was signed out of (`Ended`).

`DailyCapHeld` is not inductive: a call that has not been counted says nothing.
`CapInv` follows the set of rows each call was counted with: when the last call
that was let through was counted, the units of all that may still send were
within the cap, and what is given back was not taken. `HostedOnce` needs that,
unless it was misheard, a message on its way is pending and in one post only,
that the post an install waits for is about its chunk, and that what an answer
says was not taken was not (`OnceInv`).

`SentOnce` needs to know who may still send. Several workers may have one job in
hand, all but one without its lock, and the one that has the lock finds the job
active (`InHand`). `Budget` counts them: the copies of a message, plus the
workers that have yet to send it (`Before`), are at most the times it was handed
out again, plus one once its job was handed out at all (`Out`). Only a completed
job has a receipt (`ReceiptMeansCompleted`), so nothing waits, and nobody with a
lock has in hand, what is already answered.

A second count is what refusals are worth. A worker that was refused, or held at
the gate, has not spent its copy (`Spare`), and a receipt that says so stands for
one that nobody spent (`TurnedDown`): with them the copies are at most what was
handed out and what was denied. `AnswersAreTrue` follows for refusals; for
acceptances, `Took` says it of every answer in hand.

The same counts show that the queue is a ledger in the sense of `OneCopy`, whose
rows are jobs. A message is owed while it has no job or its job waits, and nobody
who lost the job may still send it. A worker that takes the job attempts it, and
`Send` hands it over, denied or not. A job handed out again is a copy asked for,
owed at once if its worker is dead (`Renew`), otherwise when that worker lets go
(`Ask`, then `Fail`). Adding a job, for however many producers, and refusing or
cancelling one are attempts or nothing. So the newsletter's ledger and the queue
below it keep one promise, each by means of its own.

`CapHonoured` of the mail queue counts what the provider took against a counter
that several processes reserve from and refund to. `QuotaInv` finds a unit of it
behind each message taken, each process that is about to add a job or to give its
unit back (`Claims`), each job that waits or nobody has the lock on (`Adrift`),
and each worker that may still send or refund (`Holders`); a fault is what lets
one unit stand behind two of them.

The properties of `PostQueue` speak of the moment calls are made; what they say
was decided when the send began, from what the process had read. `PostInv` bridges the
two for a process that is alone: nothing in the history is dated after the moment
it acts at; the entries it has still to do have been handed to nobody; and, while
it sends, its text is still no repeat and its moment still a gap behind the
history and under the cap (`TextHeld`, `SlotHeld`). Time moves the history and the
process's clock together (`PassKnows`). Without `alone` the invariant fails: two
that send at once do not know of each other.

What begins a send is the plan, a recursive function over the order of accounts.
The library's induction takes an operator, so `PlanIs` argues by a least
counterexample instead (`LeastNatural`): for any order the plan's slots exist, and
each keeps the gap to the bookings and to the slots before it, and the cap. For
each account the latest opening is always free, a gap and a day behind everything
booked, so a plan is never without a moment however full the queue is. `ReflowIs`
shows the same way that a reflow gives every entry a moment and changes nothing
else of it.

`SharedOnce` counts shares and does not say who may still make one. `HandInv`
does: two workers are never past the claim of one row; whoever is, inserted it
and is the only one that shares and reports it; until the report lands the row
waits, and the network took as many shares as the answer in hand admits. That
the task is whose turn it is (`TaskTypeOK`) needs that a worker with a row in
hand has some of its budget left.

`LimitsHeld` counts claims, which are more than what a request asked for only by
claims counted before another's insert. `PlaceInv` says that a worker between
the two statements saw a place, and it is still free unless the worker is one of
`passed`. `DayInv` says that what was shared today for somebody who is not
`strained`, and what the turn may yet share, fit the limit, and that this is the
only turn.

`NothingLost` follows a number: a marker names a revision there is, with what it
holds, and as long as that revision is the latest, its machine has had the
latest (`MarkerOK`, `Had`). A call carries the marker's number to the
precondition, through any number of sends, unless the account turns out empty,
which it cannot be if the number is of that account (`CallOK`). Revisions are
only ever added (`Later`), which keeps both. `EditsKept` uses that what a
machine's marker says was saved still is.

`MirroredOnce` does not say who may still act. What a pending entry lacks was
neither done nor shown, or the worker that did it is about to record it
(`RowOK`); what a worker does not know of the post in its hand was neither done
nor shown (`HandOK`); a post is in one hand, or it is excused (`Alone`). A turn
that reads the feed enters posts and acts on one in a step, so the invariant is
stated of a file and of flags, and is shown of those the turn has made up before
it acts (`ActOnStep`).

`PublishedOnce` needs the file and the worker together. For a blog nobody could
be unsure of, `WebInv` says that it is in the hands of one worker, by no force
(`OneHand`), that what this worker read of the attempts is what the file says
(`ReadOK`), and that a copy that landed is in the file or in the answer to be
recorded (`AnswerOK`, `Settled`).

`AnsweredOnce` and `VotedOnce` hold while one worker at a time has the file and
none dies with an act, so their invariants do too (`SafeSoFar`, `SoundSoFar`).
Then whoever has the file holds one that says everything that was done (`Good`,
`Sound`), although `engage.json` or `upvote.json` does not until it is written;
what is on disk does only while nobody has acted (`NothingSent`, `NothingDone`).
A worker with a call to make has room under the caps, and the author is cold
(`SenderFits`, `RoomFor`). An edit may turn what was done into a reply, so links
are counted by the replies there are, not by the items' actions.

`AddUp` holds of every copy of `asks.json`, the one on disk and those held
across an await (`AskFileOK`), so it does not matter who writes last. Who
answered does: while one worker has the file, a card that is open for an ask
nobody set by hand is named by the ask in the copy that counts, or is in the
hand of the worker that made it (`CardsKnown`, `AskerOK`), which is why a second
one is not made. `"none"`, which stands for having no idea, must not be an idea
(`AsksAssumption`).

`VaultKept` has two halves. `KeysAgree`: until something unsafe happened, the
vault's mode, key and salt agree with the key file, with each session and with
the key each update under way would write with. `NothingLost`: what is in the
file for good, or is about to be (`InFile`), is, but for races, in the file, in
each payload an update would write, and in each cache whose stamp is the file's.

`RoomIsMade` speaks of every step that is not the scheduler's, and of entries that
wait before and after it. What a reflow computes for the entries of one network is
`ReflowOnIs`: none is moved to an earlier time, and one that has to make room is a
gap behind those that had to before it. An entry is proposed a moment on each
network, and takes the latest; `RoomInv` has it that one that waits is for one
account, so that only one network can move it (`ReflowIs`). A second danger is the
queue itself: `enqueue` must put new entries in free places, or one that waits is
replaced by one with a later time. So `RoomInv` keeps as many free places as there
are entries that processes have yet to make (`Enough`), each process that took some
being counted until it has made them, and `EnqueuedIn` shows that what is enqueued
leaves the rest alone. In the model places are bounded and `Fits` guards the steps
that need them; the code's queue grows.

`NewestPressCounts` speaks of the cursor of one source and of the contacts;
`OptOutInv` follows each press until it is settled. Whatever was pulled
was pressed, no two presses have one time, and nothing heard of a reader is newer than
their newest press (`PressInv`). While one worker at a time applies, the contacts it goes by are those
there are (`ContactInv`). A press that a cursor is past is settled, and one a
pull is past is settled or still among what the pull has yet to apply
(`CoverInv`). `InOrder` and `Page` have lemmas of their own: each change of a
finite set has a place, the places are in order of time, and a page holds the
first of them.

Assumptions are the `ASSUME`s of each module: finite people, a positive batch
size, naturals for bounds, `Nobody` not a process. TLC evaluates them on every
run. The hypotheses `OneRunPerProcess` and `"out" \notin Sessions` are in the
statements of the theorems that need them, and hold of instances that are run.

Model-checked only are the liveness properties, as liveness and ENABLED are out of
the prover's reach: `StaleLockIsCleared`, `ScheduledIssueReachesEveryone`,
`RevokedIsNoticed`, `WaitersReturn`. Every safety property of a run that passes is
also a theorem, and each module's type invariant is a theorem too. `SendsUnderOneLock`,
`CloudSession`'s `IsOneHolder` and `AnswersAreTrue` are theorems that no run
lists; TLC finds them true on the instances of `newsletter_send`, `cloud_session`
and `mail_queue` when they are added there.

## Where the code and its documentation differ

Shown by a run (`post_queue_due`):

* `core/scheduler.ts:124`: a due entry is planned around all the others, so two
  of them can put each other off tick after tick, against `store/queue.ts:18`.

Seen while modelling. The models behave so, and the properties are stated around
it.

Sending a newsletter:

* the lock is created empty and filled afterwards; a second process that reads
  it in between takes it for debris, and two walk one ledger
  (`core/newsletter-lock.ts:98` against `:6`);
* a retryable answer to the last chunk leaves nothing remaining, so the issue
  turns to sent and is never retried (`core/newsletter.ts:952` against `:33`);
* signed out, the pull is skipped without an error and the send goes on
  (`core/newsletter.ts:485` against `:846`);
* an answer is believed: a 200 whose body was lost, or a 5xx of a proxy, is
  recorded `failed` or retried although the copies may be out, and the next run,
  or `--retry-failed`, sends them again (`core/mail/providers.ts:57`, `:38`,
  `core/newsletter.ts:944` against `README.md:68`); the mail cap does not count
  them (`core/newsletter.ts:877`);
* a crash between a message's row and its record leaves the row and not the
  record, so the next run counts one too few (`core/newsletter.ts:928`);
* a run whose issue's list was changed meanwhile closes the issue for the list it
  began with (`core/newsletter.ts:757`, `:958`);
* a test copy goes out without the lock, the cap or the pull
  (`core/newsletter.ts:836`), and `--max-per-day` may be over the settings' cap
  (`:878`);
* a lock whose holder died and whose pid now is another myna process's with the
  same command line is live to everybody (`core/newsletter-lock.ts:66`), and a
  process with that pid itself sends under it and leaves it (`:103`);
* a chunk throttled three times over is not retryable, so its people are
  recorded as refused and the run goes on (`core/mail/retry.ts:52` against
  `core/newsletter.ts:33`);
* somebody opted out during a run is still in its batch (`newsletter.ts:857`);
* an issue unscheduled while the daemon sends an earlier one still goes out
  (`newsletter.ts:1121`);
* an issue's list can be changed during its first run (`store/newsletters.ts:228`);
* two tool calls of one MCP server send one issue at once
  (`newsletter-lock.ts:103`);
* `myna email` and a newsletter both read the cap once (`newsletter.ts:879`,
  `apps/cli/src/cli/outreach.ts:257` against `README.md:1389`);
* two processes that change one file of the vault at once lose an update: a
  temporary file and a rename keep the file whole, not the change
  (`util/json.ts:35`).

The cloud session and the mail queue:

* a refresh lock is unlinked by a path, not by identity: of two waiters that
  find it stale, the second unlinks the first one's (`store/cloud.ts:316`), and
  `RotationSerialized` holds only until then;
* a `markExpired` outside the lock, or a refresh under way, overwrites a newer
  sign-in (`store/cloud.ts:402`, `365`);
* of the mail queue (`packages/email-queue/src/index.ts`): a refused receipt,
  even of a retryable answer, is kept for 30 days and returned to every later
  call with its key, so a newsletter's retry of that person does not reach the
  provider (`:656`, `core/newsletter.ts:906` against `core/newsletter.ts:33`);
* two producers of one job both reserve, the job is added once, and the second
  unit is lost for the day (`:607`, `:624`); `cancelEmail` gives none back
  (`:885`); a refund that a crash cut off is given again by the redelivered
  job (`:489`), which is why `CapHonoured` allows one message per fault;
* a worker that lost the lock on its job sends all the same, also after another
  has sent it and its receipt is there (`:535`), against "can never send twice"
  (`:196`); `SentOnce` and `ReceiptIsFinal` allow for it;
* any status but 0 is a definite refusal (`:556`), also a proxy's 5xx for a
  message that the provider took: it is refunded, and its receipt says refused;
* a refusal that opens the breaker while Redis fails ends as unknown (`:557`),
  its unit stays spent, and the breaker may be set with no pause on its way;
* whoever waits for a job that is cancelled waits for ever (`:658`), and so may
  one whose connection is gone;
* a breaker's pause may land after the operator's resume (`:475`), and health
  then reads available (`packages/email-queue/README.md:28`).

Posting:

* the history keeps what a network made of a text, and a repeat is looked for
  with the text as written: one that was tagged, signed or cut is not known again,
  and may be sent again at once (`core/poster.ts:239` against `core/pacing.ts:14`,
  `:266`); `NoRepeat` speaks of texts as they went out;
* a crash between `core/scheduler.ts:142` and `:155` leaves an entry beside its
  own parts; `recentDuplicate` holds the second one back, unless the text was
  changed on its way or the repost gap is over by then;
* an entry on several networks takes the latest of the moments they propose, which
  may be inside a gap of one of them; it is planned again when it is due
  (`core/pacing.ts:219-257` against `:206`);
* two schedulers that overlap can overwrite `sent` with `cancelled` and send
  again, and an entry removed after `duePosts` was read is still sent
  (`core/scheduler.ts`); `OncePerEntry` speaks of a scheduler no other
  overlapped, and `GapKept` of sends no other process overlapped
  (`core/poster.ts:326`);
* `core/evergreen.ts:51-60` looks at the queue only: when a post went out at
  once, the next hourly turn posts again before `every` is over (against
  `:103-104`);
* `draftPlanItem` sets `drafted` over a person's drop (`core/plan.ts:149`); an
  item nobody can take stays at the head of the plan; two turns, or a turn and
  `myna plan queue`, can book one angle twice, as the plan is read before the
  writer is awaited;
* a follow that fails leaves the run's budget as it was (`core/graph.ts:573-581`),
  though failed attempts are to count (`:311-313`).

The daemon's jobs:

* a mirror, or any job, run by a second daemon or by `myna run --once` is a
  second process on the same files;
* a web copy whose account is missing or archived is tried for ever: the failure
  is not recorded (`core/newsletter-publish.ts`);
* `engage.json`, `upvote.json` and `asks.json` are held across awaits: with two
  processes, or after a crash, what was sent is forgotten and may go out again
  (against `core/engage.ts:303`, `core/upvote.ts:428`); items that failed do not
  count for the cap, and skipping an item that was sent takes it out of the cap
  and the cooldown;
* replying again to an ask that is `replied` makes a second card while one may
  still be open; merged ideas past `buildAt` are flagged by the next scan; a card
  marked done on the phone never reaches the machine, as nothing calls
  `readCloudHandoff`.

The cloud:

* `maxSharers` counts claims per network and not people (`docs/reshare.md:86`);
  the count and the insert are two statements, so racing sharers overfill a
  request; a claim whose sharer died holds its place for ever and the request
  never closes by itself (`docs/reshare.md:140-141`);
* `packages/synconfig/src/client.ts:10-12`, "sent twice, it lands once", is not
  so without a precondition; a machine without a marker is never refused; the
  marker does not say whose revision it is; deletions never travel, and come
  back; the first load replaces local files (a backup is kept);
* an opt-out by hand claims no change, so an older re-subscription pulled later
  lifts it (`core/newsletter.ts:505`); removing a contact forgets the opt-out; a
  row that becomes visible behind the cursor is never pulled
  (`apps/api/src/newsletter.ts:78`); a pull takes at most 5000 rows and does not
  loop;
* hosted mail: no answer from Resend becomes a retryable 502, so a message is
  recorded `failed, retryable` though nobody knows (`apps/api/src/mail.ts:211-214`);
  a lost body of its 200 becomes no id for anybody, so all is given back and
  recorded as failed although it went (`apps/api/src/mail.ts:215`, `:232-238`), where
  a thrown fetch leaves the reservation standing because "Nobody knows whether
  Resend took it"; the client does the same with a 200 of the server's
  (`core/mail/providers.ts:57`, `:704-708`), and takes a proxy's 502 for a refusal;
  a 5xx of Resend counts as a refusal and is posted again at once; each retry has a
  fresh idempotency key; a refusal over the daily cap is a 429, so it is retried
  three times in seconds and then recorded as final;
* `net/oauth2.ts:271-291`: a refresh across an await writes back an account that
  was removed, or a mirror that was cleared.

The vault:

* `save` stamps its copy with the file's stamp after the write
  (`store/accounts.ts:86-90`), so a write in between is taken for its own and
  overwritten by its next change;
* two first processes each make a `vault.key`; a save that read `keyfile` before
  `vault passphrase` unseals the vault or makes it unreadable, and so do two
  `vault passphrase` at once; a key is made even when only reading;
* the payload is changed in memory before a save that may throw, and outlives
  the session's expiry until the next request for a key; a borrower gets at
  least 60 seconds.

## Not modelled

* Rotation, plans, autopilot, evergreen: which post comes next. Their rules read
  the files once and hand a post to `PostQueue` like anybody; what they get wrong
  is listed above.
* Webhooks: outgoing deliveries and their retries, and signatures of incoming
  ones.
* The cloud API beside the routes above: each is one transaction of PostgreSQL,
  without a state that a second request could meet half way.
* Networks, media, brand, skills, AI, directories: request formats, text and
  pictures.
* Identity, contact graph, DIDs, hubs, recap, analytics, reports, updates: pure
  functions over documents, and once-a-day marks.
* The plugin loader; CLI, TUI, MCP tools, desktop, web, dashboard: they call the
  operations above, and are those modules' environment.
* Of the modelled components: what each section lists at its end.

## Plan

1. The other half of the mail queue, over the module that is there: the audit
   store, `queueEmail`, `reconcileEmail`, `replayEmail` (a replay leaves the
   original's status as it was, so another key allows a second one).
2. Plans and autopilot, over `PostQueue`.
3. The browser and device sign-in, up to the code `CloudSession` begins with.
