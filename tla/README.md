# Campaign Engine: TLA+ models, model checking and proofs

The Campaign Engine sends marketing and transactional messages. A Postgres table,
`message_queue`, is its queue: campaigns, triggers and the storefront insert rows, a
worker (and the storefront itself) claims and delivers them, and the provider reports
back through webhooks. This directory holds TLA+ models of it, the TLC
configurations that check them on small instances, and theorems checked by TLAPS for
every instance. Paths below are relative to the repository; `queue.ts` without a
directory is `packages/core/src/queue/message-queue.ts` unless the text says otherwise.

## 1. Inventory

| Component | State | Operations | What is hard | What makes it correct |
|---|---|---|---|---|
| Message queue (`core/queue`) | rows of `message_queue` | enqueue, claim, refresh, defer, mark sent/failed/cancelled, retry, reclaim | claims taken by several processes, claims lost and taken again, attempts charged in advance | attempts counted exactly; a late writer changes nothing; a settled message never waits again |
| Delivery orchestrator (`core/delivery`) | a pass's batch, program counter | claim, gates, refresh, send, record, catch | every `await` is an interleaving point; the process may die anywhere; statements may throw | exact fence, bounded attempts, no abandoned rows, passes end |
| Worker and jobs (`worker`) | cron, advisory locks, `job_runs` | process-queue, reclaim-stale, delivery-anchors, expire-anchors, stop-conditions, rollups, suppression-expiry | overlapping runs, lost lock sessions | stale claims are released; at most one run of a job |
| Consent ledger and suppressions (`core/consent`) | append-only `contact_consents`, `suppressions`, `consent_pauses` | record, opt out, suppress, pause, resume | read-then-write against unsubscribes, suppressions that replace each other | an opt-out is never overturned but by the contact; a hard bounce is for ever |
| Preference centre (`api/routes/public`) | the same | update preferences, pause, unsubscribe | steps outside the transaction | nothing queued survives an opt-out |
| Triggers and enrolment (`core/triggers`) | `enrollments`, messages | evaluate, create, schedule, stop | check-then-insert, statements without a transaction | one enrolment per contact where promised; an enrolment has its messages |
| Webhooks and events (`api/routes/webhooks`, `events`, `public`) | `webhook_deliveries`, `message_events` | ingest a callback, a batch, an open, a click | duplicates, reordering, crashes between statements | a receipt is applied once, and is answered; an event that was answered is stored |
| Campaign lifecycle (`api/routes/campaigns`, `flow`, `services/campaigns`) | `campaigns`, `campaign_messages`, `campaign_versions` | create, patch, activate, pause, archive, duplicate, test-send, save the journey | read, decide, then update by id | marketing carries its opt-out; the active version can be sent |
| Storefront (`api/routes/storefront`) | contacts, orders, consent | checkout, flush | checks before writes, budget and cooldown | budget and cooldown hold |
| Job runner (`worker/job-runner`) | advisory lock, `job_runs` | run | the lock belongs to a session; the pool is small | runs do not overlap |
| Rollups (`worker/jobs/rollups`) | `campaign_daily_stats` | rebuild | delete and insert | the last rebuild decides; statistics catch up |
| Triage (`triage`) | `token_budget_ledger`, `model_calls`, `classifications` | reserve, settle, release, classify | several calls against one budget, month boundary | ledger and calls agree; an opt-out is honoured |
| Journey canvas (`core/campaigns/flow`) | `flow_definition` | validate, linearise, collapse, plan | branches that meet again | what is stored follows the ways that are drawn, whatever the order of the traversal |
| Quiet hours (`core/scheduling`) | none of its own | resolve a send time, gate | wrap-around, clock changes, edits | a slot is permitted and the first one |
| Audience (`core/audience`) | none of its own | compile, match, explain | three-valued logic, a row edited meanwhile | the predicate means the rules |
| Providers, retry policy (`providers`) | `provider_credentials` | resolve a sender, send, classify, back off | lost answers, credentials that change | one copy per lost answer at most, ceilings |
| Rate limit (`providers/rate-limit`) | `provider_rate_buckets` | acquire | clocks read before the statement | the allowance holds across processes |
| Migrations and pool (`core/db`) | `schema_migrations`, advisory lock | boot | replicas of several builds | a file is applied once; who serves has its schema |
| Campaign editor (`web/pages/campaign/Journey`, `Messages`) | what a screen shows, the requests a save has left | edit, save, reload | one request per message, other writers in between | an undisturbed save lands; the button goes quiet |
| API shell, web session (`api/middleware`, `routes/auth`, `web/lib`) | users, tokens, limiter windows, the browser's session | sign in, authenticate, limit | tabs that share one session | a dead session sees nothing; guesses are limited |
| Rendering, decision log, addressing, evaluation harness | | | | strings, or append-only; see 7 |

How they meet: triggers, storefront and test-send call `enqueue`; the worker's
`process-queue` job and the storefront's flush call the orchestrator, which reads
campaign and enrolment once per row (`loadContext`), consent, pause, suppression and the
frequency count gate by gate, and writes the row; webhooks write rows, events and
suppressions; opt-outs, stop conditions and operators cancel rows from outside; the jobs
reclaim, park and expire them. There are no messages between processes: everything
interacts through statements on shared rows, most of them outside a transaction. That is
the concurrency the models are about. The exceptions are the advisory locks of the jobs
and of the migrations, the pool that the runs of one process share, and the session that
the tabs of one browser share.

## 2. Modules

| Module | Models | State |
|---|---|---|
| `MessageLifecycle` | what a message goes through, whoever handles it (abstract) | stage and tries of each message |
| `MessageQueue` | `message_queue` and every statement that writes it | `queue`, `now`, history `claims` |
| `Delivery` | the callers: worker passes, storefront flushes, reclaim-stale, the environment | `pc`, `batch`, `cur`, `janitor`, `cutoffAt` and history |
| `ConsentLedger` | what one contact told us on one channel: ledger, suppression, pause, and the requests that write them | `ledger`, `suppression`, `paused`, `queue`, `checkout`, `update`, history `asked` |
| `SendGates` | a pass through the gates against all that may change under it; extends `ConsentLedger` | `at`, `holds`, `why`, `owner`, `recent`, `campaign`, `enrolled`, `stopping` |
| `Enrolment` | evaluations, time triggers, stop conditions and the rows they queue | `campaign`, `order`, `lapsed`, `enrolment`, `row`, `eval`, `stopping`, `work` and history |
| `Webhooks` | a provider's callbacks and their ingestion | `letter`, `owed`, `forms`, `credential`, `call`, `kept`, `events`, `suppressed` and history |
| `Scheduler` | cron, the job runner, the pool, rollups and the rebuild script | `date`, `happened`, `stats`, `step`, `range`, `lock`, `up` and history |
| `CampaignLifecycle` | one campaign under the operators who edit it | `status`, `category`, `message`, `flow`, `versions`, `active`, `queued`, `copies`, `desk` |
| `Storefront` | the checkout, its cooldown, telephone numbers and daily budget | `today`, `contacts`, `orders`, `waiting`, `sends`, `cart` |
| `Triage` | the classification of replies | `month`, `opened`, `tokens`, `asking`, `modelCalls`, `classified`, `stopped` |
| `JourneyCanvas` | the compiler from canvas to messages | `boxes`, `edges`, `stored` |
| `QuietHours` | sending windows, and the two places that ask for one | `clock`, `change`, `shift`, `window`, `sendDays`, `mail` |
| `Audience` | the predicate of a segment, and its explanation | `person`, `dayNow`, `segment`, `query` |
| `Tracking` | opens, clicks, batches of events, and the rates of a campaign | `outcome`, `store`, `post`, `report` |
| `RateBucket` | the token bucket | `tick`, `bucket`, `caller` and history |
| `Providers` | one message and the providers it is handed to | `setting`, `credentials`, `row`, `pass` and history |
| `Migrations` | replicas that migrate before they serve | `migrationLock`, `recorded`, `boot`, history `objects`, `collided` |
| `Sessions` | signing in, and asking for data with the token | `accounts`, `session`, `call`, `limiter`, history `guesses` |
| `JourneyTab` | the campaign editor in the browser: the canvas and the messages tab | `lines`, `inQueue`, `screens`, `syncs` |
| `MCMessageQueue`, `MCDelivery`, `MCConsentLedger`, `MCSendGates`, `MCEnrolment` | constants for TLC | |
| `MCServices`, `MCUpkeep` | constants for TLC, and several modules in one specification (see 3) | `part` |
| `MessageQueueProofs` | the inductive invariant of the queue, three safety theorems, and that the queue implements the life cycle | |
| `DeliveryProofs` | the inductive invariant of the passes and seven safety theorems; that the passes implement the queue | |
| `SendGatesProofs` | of `ConsentLedger`: types, and that an unsubscribe stands; of `SendGates`: types, that an unsubscribe is honoured, and how far passes go over the frequency cap | |
| `EnrolmentProofs` | one enrolment per contact, queued journeys, silence after a stop | |
| `UpkeepProofs` | the event store, the lock of a job and its pool, the statistics | |
| `ServicesProofs` | triage, storefront, tracking and analytics, campaigns, segments | |
| `BoundaryProofs` | migrations at boot, the rate limit, the providers, the sessions, the sending windows | |
| `EditorProofs` | the campaign editor and the journey canvas | |

### MessageQueue

A row is a record of the columns the statements test or set; its key is the dedup key,
because a unique index makes them one. Each SQL statement is one action, with the
WHERE clause as the set of rows it selects and the SET clause as an operator on the row
(`Claimed`, `Released`, `Deferred`, `Sent`, `Retried`, `Cancelled`). A statement that
selects nothing leaves the table alone, as in SQL. The ownership fence `Owned`
(`claimed_by = me AND status = 'processing'`) is the constant `OWNED` of the code.
`next_attempt_at` and `claimed_at` are compared with the clock only, so NULL is time 0.
A row parked until its order is delivered has `scheduled_at = Infinity`.

In this module anybody may issue any statement under any identity at any time, so
what holds of it holds of every caller there is or will be.

### Delivery

`pc[p]` names the next statement of pass `p`: `walk` (loadContext, gates, sender) then
`defer`, `cancel` or `refresh`; after `refresh`, `send` if the claim is still held, and
then `sent`, `failed` or `retry`; `log` is the decision record and the callback;
`catch` is the catch block of `deliverOneSafely`. A pass keeps a snapshot of each row
it claimed, as the code does, and decides on the attempts of the snapshot. The gates are
abstracted to their verdict. History variables: `accepted` (the provider answered ok),
`handovers` (sends after a refreshed claim), `orphaned` (rows whose claimant died or
lost the database), and a `ticket` in each snapshot that numbers the claim it came from.

The walk takes the rows of a batch in any order (the code takes them in the order of
`scheduled_at`), since no property depends on it.

### ConsentLedger

One contact, one channel, one address: every statement names them, so contacts do not
meet. `ledger` is `contact_consents` in the order in which `consent_state` reads it
(`occurred_at`, then the id), `suppression` the one row the unique key admits, `paused`
whether a pause covers the present moment. A `withTransaction` is one action
(`UnsubscribeAll`, the first half of an update); what the code does outside of it is an
action of its own: `CancelSwitchedOff`, which may never come (`UpdateDies`), and the
SELECT and the INSERT of a checkout (`CheckoutReads`, `CheckoutWrites`). Time is kept as
what it decides: a suppression never expires, will, or has (`lapsed`), and the row stays
until the nightly job or another request removes it. A form is the categories it names
with a wish for each; a browser names all, a JSON client any. `Upserted` is the
`ON CONFLICT ... WHERE` of `addSuppression`. The history variable `asked` holds the
reasons for which a permanent suppression was asked and not withdrawn.

The two actions of a checkout are each one at a time: one checkout and one update are in
progress at most. Left out: the evidence columns, the `unsubscribed` event of the
tracking log, the optOut of a single category (nothing calls it), and writes that move a
contact to another address. An insert whose `occurred_at` is older than that of a row
already committed (two processes whose clocks differ) is not modelled.

### SendGates

`at[p]` names the next query of a pass: `load` (`loadContext` and the two gates that judge
what it read), `consent`, `pause`, `suppression` (with the quiet hours), `cap` (with the
address, the send condition and the sender, each of which may refuse), then `defer`,
`cancel` with its reason code in `why`, or `refresh`, `send`, and the record of the
answer. A write is fenced by `Owned`, as in `Delivery`. A transactional message skips the
consent and pause queries, as in the code. Around the pass: all requests of
`ConsentLedger`, `SetCampaign`, the two halves of `evaluateStopConditions`, `Reclaim`,
`Crash`, and the rolling window of the cap (`recent` are the rows whose `sent_at` lies in
it). There is one campaign and one enrolment of the contact per category.

Abstracted: a deferred row is pending at once, since it will be judged afresh whenever it
is due; quiet hours are a nondeterministic answer for categories that are not exempt; the
attempts are Delivery's, here a retry may always be the last. Reason codes are
the gate's, with the suppression's reason for the suppression gate. Left out: the
exemption of test recipients from the consent gate, and the decision log.

### Enrolment

`eval[e].at` is the next statement of an evaluation: `walk` (the next active campaign),
`judge` (the SELECT of `one_time_per_contact`), `insert` (the enrolment under its unique
index), `read` (the order, for anchors on delivery) and `queue` (one message after the
other, under the deduplication key). An order may be evaluated more than once, as a
redelivered checkout event would. `TimeTriggers` is the hourly job with its circuit
breaker `Ceiling`; the stop-condition job stops an enrolment and then cancels its rows, in
two statements. A statement that throws ends an evaluation; `abandoned` remembers the
enrolments that were left half-made. `work[p]` follows what a delivery pass does with a
row: `ClaimRow`, `Gates` (one snapshot of campaign and enrolment, from `loadContext`),
`Refresh` (`refreshClaim`), `HandOver` (the call of `provider.send`), `Write` (the outcome,
fenced by the claim), each an await a stop can fall behind; `Break` is a statement that
throws or a process that ends, `Reclaim` the stale claim taken back. After `Refresh`
nothing is asked any more, so that a row which the job cancels there is handed over all the
same; `late` remembers the passes this happened to. Whether a stop condition holds is a
choice. Nothing in the code sets an enrolment to `completed` or an
order's `delivered_at` through the API, so a parked message waits for an outside update
(`OrderDelivered`, external) or for `ExpireAnchors`.

### Webhooks and Tracking

`Webhooks` follows one callback through `routes/webhooks.ts`: keep the body, verify, look
up the row, insert the event under its idempotency key, write the status, write the
suppression, mark as processed. The provider repeats what was not answered with 200; a
request may die at any statement. Of a provider that posts forms (`forms`) the body is
kept, and no event is found in it. `Tracking` has the events that readers and
clients cause, the report of a campaign, which is read in several statements, and what
`denominators.ts` divides by what.

### Scheduler

A run connects, takes the advisory lock or skips, records its start, runs its body (the
delete and the insert of the rollups), records the end and unlocks. `Holds` counts
connections: the lock keeps one and every statement takes one more, so `PoolSize` runs
that hold theirs wait for each other for ever (`pool.ts` sets no
`connectionTimeoutMillis`), until the process is restarted. A rejection of the first
statements escapes `runJob` and ends the process. The script rebuilds all days without
the lock. Other jobs appear by their effect in the modules of their tables.

### CampaignLifecycle, JourneyCanvas

Each request of an operator is a record on the `desk`: it has loaded the campaign, and
writes in a later step what it decided then. Transactions are at READ COMMITTED, so their
reads are steps as well (`Snapshot`, the steps of `SaveFlow`). `raced` is set when a write
is decided on what another request has changed since, for the properties that only hold
without that. A PATCH of a message writes the column it was sent, and may be refused by
the unique index on the message's number. `JourneyCanvas` walks through every canvas of a
few boxes (`Walk` is a recursive function over visits of boxes, which count their depth
as `lineariseFlow` does), and compares the rows that `planMessageSync` makes of it with the
ways that are drawn (`Ways`), each with what is waited on it and the branch and question
that led it last. Ways are followed as far as they are walked, `DepthBound` steps: what lies
further on is not enqueued. What a recipient gets of the stored rows is not part of the
module: a condition is evaluated when its message is sent, against the latest message sent
to them before it, which only for the first message behind a question is the one before the
question (see 5).

### JourneyTab

The editor reads the messages of the campaign, draws a canvas of them, lets it be edited
and saves it by one request per message: DELETE before PATCH before POST, each an action
(`SyncStep`), with whatever others write in between (`MessagesTab`, `QueueLine`, a save
that goes on behind a tab that was left). A request is granted or refused as
`CampaignLifecycle`'s handlers would (`Denied`); it may fail, or be written and its answer
lost (`SyncFails`). `ReadLines` and `ReceiveLines` are the refetch: the canvas is seeded
again only when the answer differs from the one before. What a message says is a draft;
drafts differ in what the validation and the drawing look at. `BodyOf` is what `bodyOf`
makes of a draft: it drops the subject of a step that is no e-mail and the branch of one
without a condition.

### Storefront, Triage, Providers

The steps of a checkout are in `cart[s].at`; consent is `ConsentLedger`'s and the flush
`Delivery`'s. A caller of triage takes the keyword's way (suppress, then file), or looks
in the cache, reserves tokens, calls, settles or releases, records and files; a bad answer
is asked for again once. What a month's ledger should show is a sum over calls; it is
written as the number of units in the calls (`Total`), because a cardinality can be
reasoned about where a sum would need induction. `Providers` has the error tables code by code, the walk over the
active credentials, and for each call both what the provider did and what was heard of it;
a JSON body that cannot be read, a lost answer and a gateway's page are answers of their
own. Of SMTP, every code of the library but ETIMEDOUT and ECONNRESET is taken to mean that
the message was not accepted. Who may hold the row is left to `Delivery`.

### QuietHours, Audience, RateBucket

Time in `QuietHours` is slots of a short day; the zone changes its offset once, by one slot or
several, in either direction, or not at all, and an opening is looked for as `windowOpeningOn` does, by
guessing the offset and correcting it. `Audience` evaluates the compiled predicate in the
three values of SQL beside the meaning of the rules in two; `AudienceConstants` says what
the schema of the API (`shared/src/audience.ts`) lets through, which is what the theorem
assumes of a segment. A caller of the bucket reads
its clock in a step before its statement, so statements may run out of the order of their
times.

### Migrations, Sessions

A process takes the lock, reads `schema_migrations` once, and applies file by file in
transactions; it may lose its connection before or after a COMMIT. Directories differ
between builds, by a further file and by an edited one. `Sessions` has the tabs of one
browser, the token with its expiry and the account behind it, the windows of the limiter
with their sweep, and the answers that arrive when the session has already changed.

## 3. Runs

| Run | Question | Result |
|---|---|---|
| `queue_statements` | two rows, two identities, every statement in any order | passes |
| `delivery_passes` | worker pass and checkout flush on one row, a crash, a failing statement | passes |
| `delivery_batch` | two rows in one batch: does a poison row leave the others attended, does every pass end, is every stale claim released | passes |
| `accepted_recorded_failed` | can an accepted message be recorded as failed | violated |
| `consent_bounce` | does a hard bounce stand | violated |
| `consent_checkout` | does a checkout leave every opt-out alone | violated |
| `gates_unsubscribe` | two passes against every request: is an unsubscribe honoured at the last look before the send, and how far do they go over the frequency cap together | passes |
| `gates_receipt` | does a queued receipt outlive an unsubscribe | violated |
| `gates_settle` | one pass: do messages of a category that was switched off leave the queue | passes |
| `enrolment` | two evaluations, two orders, a win-back job, two passes and a stop: is the journey queued, once, and silent after a stop but for what was on its way to the provider | passes |
| `services` | the request handlers and what they compute, one after the other | passes |
| `upkeep` | callbacks and scheduled jobs: what is recorded is right, and both catch up | passes |

Each property of a passing run has a mutant: a plausible bug in a mapped definition
(a dropped fence, a forgotten column, an off-by-one) under which TLC finds it violated.

`services` and `upkeep` put several modules into one specification. Their modules share
no row that a property of another one depends on, so nothing is lost by letting a
behaviour exercise one of them: the constant-valued variable `part` says which, the
others rest in an initial state, and the state space is the sum of the parts instead of
their product. Where two do share rows, the composition is real: `SendGates` extends
`ConsentLedger`, `Delivery` extends `MessageQueue`, `Enrolment` carries the gates. What
a part promises is a conjunction of its module's invariants:

| Property | Conjuncts | Module |
|---|---|---|
| `ConsentTypeOK`, `UnsubscribedIsSuppressed` | | `ConsentLedger` |
| `CampaignHolds`, and the action property `SavedFlowRuns` | `MarketingOptOut`, `ActiveVersionSendable`, `NumbersDistinct` | `CampaignLifecycle` |
| `ShopHolds` | `CooldownUnlessRaced`, `BudgetUnlessRaced` | `Storefront` |
| `TriageHolds`, `OptOutHonoured` | `LedgerAccounts`, `CacheServesFirstAnswers` | `Triage` |
| `CanvasHolds` | `RowsFollowWays`, `SequenceFollowsCanvas` | `JourneyCanvas` |
| `WindowsHold` | `SlotsArePermitted`, `NoSlotSkipped`, `GivenUpForSettings` | `QuietHours` |
| `SegmentsHold` | `SegmentSelectsTheMeant`, `ExplanationHolds` | `Audience` |
| `TrackingHolds` | `KeyedOnce`, `AnsweredIsStored`, `RatesAreShares` | `Tracking` |
| `BucketHolds` | `AllowanceHolds`, `WaitSuffices` | `RateBucket` |
| `ProvidersHold` | `EveryCopyAccounted`, `CeilingsHold`, `RetriesMoveApart` | `Providers` |
| `BootHolds` | `NobodyCollides`, `ServesItsSchema` | `Migrations` |
| `SessionsHold` | `InvalidSeesNothing`, `TenantNotGuessed`, `GuessesLimited` | `Sessions` |
| `EditorHolds` | `CalmSaveLands`, `ButtonGoesQuiet`, `GraphIsTheSequence` | `JourneyTab` |
| `EventStoreHolds`, `ReceiptsAnswered` | `AppliedOnce`, `BounceSuppressed`, `KeptForReplay` | `Webhooks` |
| `StatsHold`, `OneBody`, `RollupsCatchUp` | `StatsAreTheLastRebuild` | `Scheduler` |

Several of them excuse what the code does not prevent, and say so by a history variable:
`raced` (two requests between a read and its write), `abandoned` and `cutShort` (a process
that died between two statements), `torn` (a rebuild that deleted and never inserted),
`unlocked` (a lock lost with its session), `late` (a pass whose claim was confirmed before
the job cancelled its row), `calm` (nobody else wrote during a save), `upset` (a call that died or crossed the end of
a month), `disordered` (clocks out of order). The excuse is the statement: nothing else
breaks the property. Each such hole is reachable in the model.

### Bounds

`MaxTime` stops the clock, `MaxClaims` how often a row is claimed, `MaxFaults` and
`MaxCrashes` how many statements throw and how many processes die. `StaleAfter` is 1
tick, so that a claim turns stale, is reclaimed and taken by another pass well before
the clock stops (0 in `delivery_batch`, where the clock ticks once, and a tick is then
longer than the stale window); `MaxAttempts` 2 and `FlushAttempts` 3 differ, as the
worker's `MAX_ATTEMPTS` and the storefront's fixed 5 may. One row is enough for what
concerns a row alone, because a statement treats its rows independently; the batch runs
use two, for what one row does to the next. One fault and one crash are enough for each
single failure in every place, and for one of each combined.

`MaxRows` bounds the ledger: three rows hold a form of two categories and what came
before or after it, and two a form of one category before and after an unsubscribe.
`MaxReclaims` counts the crashes and the claims reclaimed from a pass that still runs,
`MaxStops` the campaigns halted and enrolments stopped. `FreqCap` is 1 with three
messages (`gates_unsubscribe`), one more than the two passes may send within a window.
A single message meets every disturbance: two passes hold it one after the
other, through a reclaim, which is what an unsubscribe has to survive. The others join it
with one disturbance at most (`CrowdInPeace`, `MaxTroubled`), a row of the ledger or a claim
that is lost. Messages and
passes are interchangeable, so both are symmetric. Campaign changes are left to
`gates_settle`, since `UnsubscribeHonoured` does not depend on them.

`enrolment`: two evaluators are the least that race; two orders of one contact give a
one-time campaign two chances; of its two messages one waits for the delivery and cannot
reach the other contact; the win-back campaign has a ceiling of one. One trouble
(`MaxTroubles`: a changed campaign, a statement that throws, a crash) is enough for each
single failure in every place. Delivery is followed for the rows a stop may meet
(`Followed`), by two passes, so that one may hold a row the other has lost.

`services`: two requests of each kind at most run at once, which is what a race needs,
and three requests of operators make an edit, an edit that races it, and the activation
that suffers. The canvas has one condition, one delay and two sends, enough for branches
that part, wait and meet again; four edges of them are drawn at a time. A day of six
slots with a floor of five holds a window inside, at the edge and outside of the floor,
and the change of the offset falls on the four slots from a midnight on. Rules of every
operator and kind of field are combined in pairs over every group. A budget of two
estimates and a usage above the estimate overdraw it, with one month's end. A bucket of
two tokens is drawn empty and refilled within the clock's five ticks. Three builds: one,
its successor, and one with an edited and a broken file. The editor has one screen, one
save under way and three strokes (edits, changes of the tab, requests of the messages tab,
rows queued): enough to save, leave, write behind the save and come back. `upkeep`: two handlers and one
letter, whose receipts are delivered again while the first is served; three runs on two
workers, two of them in one pool of two.

### Fairness

`JanitorSpec` (`delivery_batch`) assumes that time passes and that cron starts
reclaim-stale again (`worker/src/index.ts` schedules it every few minutes), and for
`PassesEnd` that a statement or a provider call that was issued returns or throws (both
have timeouts), in a process that goes on running. `GatesFairSpec` assumes that a pass
which is at a query gets its answer, that a due row is claimed, and that reclaim-stale
returns a claim nobody attends to; nothing of requests, operators and jobs.
`SwitchedOffSettles` is conditional on the campaign not being paused for ever or again
and again, since a paused campaign holds its messages by design.

`JobFairness` (`enrolment`) assumes that the anchors job and the claim of a due row come
again, that a pass goes on with the row it has in hand, and that reclaim-stale returns a
claim nobody attends to; the claim is strong fairness, because passes are busy and rows are
held back in between. Nothing is
assumed of evaluations and of the stop-condition job, which may die for good between its
two statements: `StoppedSettles` says that the gates clean up after it.

`HooksFairness` (`upkeep`): a request that is served goes on, and a provider repeats
what was not answered with 200; strong, since handlers are busy in between.
`ReceiptsAnswered` assumes the right credential in the end. `SchedulerFairness`: cron
ticks, statements return or throw, the platform restarts a process; strong where a lost
session or a full pool disables a step in between. `RollupsCatchUp` is conditional on
the pool never being full of runs that wait for each other, which nothing in the code
prevents.

The last two are premises of the properties rather than conjuncts of a specification,
because the two parts of `upkeep` share one; a part at rest enables nothing, so its
fairness asks for nothing. No run assumes that a crash, a fault, a cancellation or a
receipt happens.

Deadlock is not checked in the bounded runs: the clock stops, after which everything
may have ended.

## 4. Proofs

Theorems hold for every value of the constants under the named assumptions of the
modules, which TLC evaluates on every run, and are proved with TLAPS. Most assumptions
only type the constants, and say that a "no such thing" value is none of the things. The
others, and what in the code gives them:

| Assumption | Says | Because |
|---|---|---|
| `DistinctIdentities` (`DeliveryProofs`, a premise) | no two passes claim under one identity | only if each process has its own `WORKER_ID` and no pass of a process overlaps another |
| `EnrolmentConstants` | no message is in two journeys, nor twice in one | `campaign_messages` has one row per message |
| `GateConstants` | there are finitely many passes | each is a call of a running process |
| `ProviderConstants` | `MAX_ATTEMPTS` is at least 1 | `intFromEnv` (`worker/src/index.ts:43`) takes positive numbers only |
| `MigrationConstants` | a directory has a name once | file names |
| `ClientKeys` (`Tracking`) | the keys of a client tell its events apart, and are none of the tracking endpoints' | the environment: a client that gives two events one key loses the second (`events.ts:28`, `public.ts:61`) |
| `AudienceConstants` | a segment has the groups, operators and values of the schema | `zod` refuses any other (`shared/src/audience.ts`) |
| `SessionsConstants` | a window has a length, tabs and accounts are finitely many | `middleware/rate-limit.ts` |
| `QuietConstants` | a window opens before it closes, on at least one day of the week; the zone changes by less than a day | the checks `campaigns_send_window_ordered` and `campaigns_send_days_valid` (`migrations/0004:47-58`); zones of the IANA database |
| `CanvasConstants` | there are finitely many boxes, and the edge list puts the edges in an order | `flow_definition` is a JSON document; two edges with the same ends and the same handle count as one |
| `JourneyTabConstants` | the editor starts from finitely many rows with an id and a place each; a draft with a condition needs a message before it | keys and the unique index of `campaign_messages` |

- `QueueTyped`, `AttemptsAccounted`, `ClaimedRowsAreDue` (`MessageQueueProofs`): the
  invariants of the run `queue_statements`. None is inductive alone. The invariant is
  `QueueInv`: types, and for each row (`RowInv`) that attempts and deferrals sum to
  its claims, that a row in flight has an attempt and waits for nothing, that a row
  with a `sent_at` is sent or reported on. The argument: a statement changes each row
  by one of the row operators or not at all; a lemma per operator says it preserves
  `RowInv` when its WHERE holds; a general lemma lifts this from one row to the table.
- `QueueFollowsLifecycle` (`MessageQueueProofs`): under the mapping of `StageOf` and
  `attempts`, the initial table is an initial state of the life cycle, and every
  statement is, for the rows it touches, a step of it or a stutter.
- `DeliveryTyped`, `FenceIsExact`, `AttemptsAreBounded`, `HandoversAreCounted`,
  `SentWasAccepted`, `SentStaysSent` (`DeliveryProofs`): the safety properties of the run
  `delivery_passes`, for any number of passes, rows, faults, crashes and reclaims. They
  are proved together from one invariant, `DeliveryInv`, because each leans on the
  others: whether a statement of a pass may touch a row is `FenceExact`; that the
  snapshot it decides on is still the row's count of attempts (`SnapshotsCurrent`) follows
  from the fence, and the bounds on attempts follow from the snapshot. To them come three
  conjuncts no run needs but induction does: a row that waits has an attempt left
  (`RetryHasRoom`), a pass about to send has an attempt that is not yet used up
  (`HandoverHasRoom`), and a pass about to record "sent" has the provider's yes
  (`SentAfterAccepted`). The proof classifies the actions: the quiet ones
  leave what the conjuncts read alone (`QuietStep`, done once), the others have a
  lemma per conjunct.

- `ClaimsAreAttended` (`DeliveryProofs`): a row in flight is in the batch of the pass that
  claimed it, unless that pass died or lost the database, whatever throws. On top of
  `DeliveryInv` stand `TicketsFit` (a snapshot whose ticket is the number of the row's
  last claim belongs to the pass that holds the row) and `RowsDealtWith` (a pass lets go
  of its row before it records its decision): a statement that throws in the middle of a
  batch leaves the rows behind it to the pass that will still walk them.
- `CallersIssueStatements`, `DeliveriesFollowLifecycle`, `DeliveriesAreAccounted`
  (`DeliveryProofs`): these three need no identities. A step of `Delivery` maps to a step
  of `MessageQueue` or to a stutter, by the identity on `queue`, `now` and `claims`; the
  invariant `Calling` types what the passes hand to the statements. So the refinement of
  the life cycle carries over to the passes, and attempts and deferrals sum to the claims
  even where workers share one `WORKER_ID` and the fence cannot tell their claims apart.
- `ConsentTyped`, `UnsubscribeStands` (`SendGatesProofs`): for any categories,
  reasons and length of the ledger. The conjunction of both is inductive; the weight is
  in `SuppressProperties`, the case analysis of the upsert.
- `GatesTyped`, `UnsubscribeOutlastsThePasses`, `UnsubscribeIsHonoured`
  (`SendGatesProofs`): for any number of passes,
  messages, crashes and reclaims. The refresh looks at the claim and not at consent, so
  the proof has to say why that is enough. The invariant is `Informed`: a pass that is
  past the consent gate and still owns its row holds no marketing message of somebody
  who has unsubscribed. It is kept because the gate saw an opt-in
  (`OptedInIsNotUnsubscribed`: then the last relevant row is not an unsubscribe, which
  needs `UnsubscribesOptOut`), because an unsubscribe takes every marketing row out of
  flight in the same transaction that records it (`RequestQueue`), and because no other
  request writes such a row (`RequestRecords`).
- `CapOverrunIsBounded` (`SendGatesProofs`): for any number of passes, messages, crashes
  and reclaims. The cap itself does not hold, because passes count before any of them has
  sent. The invariant `CapInv` gives each pass beyond the count (`Counted`) a place of its
  own in the window, next to the messages in it, and says that there are never more places
  than the cap and one for every further pass: a pass goes past the count only below the
  cap, and then there is room for all of them. For a single pass this is the cap.

- `BaseHolds`, `OneTimeExceptInRaces`, `JourneysAreQueued`, `StoppedStaySilent`
  (`EnrolmentProofs`): for any campaigns, contacts, orders, journeys and evaluations.
  `Base` types what the evaluations carry (each has candidates, a journey and an anchor
  that fit the campaign it is at) and says that a row belongs to a journey. On it stand
  three independent invariants. `Once` adds to the property that an evaluation past the
  SELECT has found nobody, or is in a race (`Chosen`). `Queueing` adds `Behind`: what an
  evaluation has yet to queue is a tail of the journey, and all before the tail is
  queued. `Silent` says of a pass that is past the gates with a row of an enrolment the job
  has cleared that it has lost its claim, so that `Refresh` ends the delivery, and of one
  past the refresh that it is `late` (`Quiet`): a cleared row cannot be claimed again, and a
  row that is queued later meets the gate that reads the enrolment.
- `BodiesExclude`, `StatsFollowRebuilds`, `RollupsKeepTheirPromise` (`UpkeepProofs`): who
  is between lock and unlock is the one the lock names, or has lost its session.
  `StatsFollowRebuilds` does not need the lock at all: a rebuild inserts what it counted
  into days it has deleted, or they are `torn`. `PoolInv` bounds what the runs of a
  process hold by its pool, and shows on the way that they are finitely many.
- `EventStoreKeepsItsPromise` (`UpkeepProofs`): for any letters, handlers and
  redeliveries. `OneApplies`: before there is an event nobody applies the receipt, from
  then on it has been applied or exactly one request is about to.
- `OptOutsAreHonoured`, `TriageKeepsItsPromise` (`ServicesProofs`): the first because each
  caller is on the keyword's way only with a keyword, and files only after the
  suppression. The second is the account of tokens. `Booking` says who may hold
  booked tokens (a call at the vendor or about to be corrected), of which month, and that
  that month has a row, unless the call has outlived its month and both are `upset`. An
  action moves tokens between a month's ledger, one caller and one new row; two lemmas,
  `TotalChanges` and `TotalGrows`, say what a total becomes when a single term changes or
  is added. The clamp of `settleTokens` at zero never bites outside an upset month, since
  a call's own booking is part of the total.
- `ShopKeepsItsPromise` (`ServicesProofs`): for any shoppers, cooldown and budget. What a
  cart has read bounds what is there (`CartFits`): the orders it saw are a cooldown old,
  and while no send came in between there is room for one more (`Room`). A checkout for
  which this fails has been overtaken, and is excused by what the history says of it.
- `TrackingKeepsItsPromise` (`ServicesProofs`): what a batch has come past is stored
  (`PastIsStored`), also over retries; what an undisturbed report has read is still so
  (`ReadIsSo`), so that its parts are counted within their wholes.
- `CampaignsKeepTheirPromise`, `SavedFlowsRun` (`ServicesProofs`): for any operators and
  requests. `DesksFit` says of each request what it was let past, in the category that it
  loaded; a write on such grounds is good unless `raced`, and so is the version that an
  activation freezes. `NumbersDistinct` and the rows of the queue need no excuse. That a
  save of the canvas numbers its messages apart rests on `OrphansGoAbove`: the rows that
  are parked below zero come back above every other. `SavedFlowsRun` is an action
  property: its save ends in the order that was drawn, without what is not in it.
- `SegmentsKeepTheirPromise` (`ServicesProofs`): for any segment of the schema and any
  row. `LeafMeaning`, `RuleMeaning` and `GroupMeaning` carry the agreement of the three
  values with the two from operators to rules and groups: true means yes and false means
  no, and unknown means no but under a `none`. `Shown` keeps what the statements of an
  explanation have established so far; `NothingLeftUnsaid` concludes that the last
  answer is left for unknown values and empty groups.
- `BootKeepsItsPromise`, with `MigratorsExclude` and `ServersHaveTheirSchema`
  (`BoundaryProofs`): the argument of the job's lock, without the excuse, since a process
  that migrates does not go on without its session. Only the holder writes, so what it
  has read is still so but for its own writes (`Abreast`).
- `BucketKeepsItsPromise` (`BoundaryProofs`): `Conserved`: what was taken and what is left
  is no more than the burst and what was refilled up to the time in the row, counted in
  what one tick refills so that no division is needed; `WaitIsEnough` for who waits
  undisturbed.
- `ProvidersKeepTheirPromise` (`BoundaryProofs`): a row that is not given up has met no
  code as often as it may (`HeardTypes`), because a code's limit counts attempts of
  any code; the delay it was put off by is one of its last attempt, and less than any of
  the next (`DelayTypes`).
- `WindowsKeepTheirPromise` (`BoundaryProofs`): for any length of a day, windows,
  days and change of the zone. Of an instant only its wall clock matters, and the lemmas
  say how far that can be turned around: wall clocks go up outside the hour that is
  repeated (`UndisturbedInOrder`), every wall clock has an instant or is skipped
  (`MinuteIsFound`), and days begin in order (`DawnsInOrder`). `SearchSucceeds` finds a
  permitted slot among the days that are searched, so that only a window outside the floor is given up;
  `FirstHit` and `SlotIsTheNext` say that nothing permitted was passed over on the way.
  The invariant `QuietInv` holds the row to the judgement it was written by (`Honest`),
  since settings may have changed meanwhile.
- `EditorKeepsItsPromise` (`EditorProofs`): for any screens, saves, strokes and rows.
  `EditorInv` says that rows have an id and a place each (`RowsFit`), that the steps of a
  canvas are what is left of its list, in its order, and then what is new (`StepsFit`), and
  of a save nobody else has met what it still has to do (`CalmPlan`): each place of its
  goal holds what the goal says or is filled by a request to come, and a row that moves
  stands no further to the front than it will, so that the unique index refuses none
  (`CalmIsGranted`, `CalmGoesOn`). `UnderWay` says of the screen that its steps are stored
  or about to be, as the request says it, which at the end leaves the button quiet, unless
  a row was queued and could not be deleted or a step holds what its request left out. `PlanIs` computes the requests of a save from the steps,
  `SlotsThread` that the drawing threads the steps one after the other.
- `CanvasKeepsItsPromise` (`EditorProofs`): for any boxes, waits, conditions, order of the
  edges and depth that is walked. `WalkIs` and `WalkHas` say of the walk that it has a value
  and what it is: the message of its box, then the walks along the edges, each a segment of
  the list (`FlattenIs`). `TripsAreVisited`: a way that is drawn to a box is visited there,
  with the wait and the question of the way, so that its message is in the list
  (`WaysAreMet`); the rows keep the least delay and drop a condition that ways differ in
  (`CollapseIs`). `MessagesAreTraced` is the converse: a message in the list has a way to
  its box with the same wait and question, on which every send box came before it in the
  list. From the two follow the rows, and from the second their order.
- `SessionsKeepTheirPromise` (`BoundaryProofs`): `CallFits` carries from step to step that
  a request was valid when it was made. For the limit, the guesses lie in windows that do
  not overlap, none over the limit (`Windowed`, with the set of windows as the
  witness); a span of a window's length meets two of them at most. An open window is kept
  by every sweep of the limiter's map, and `CallsAreCounted` bounds what it counts.

`ServicesSpec` and `UpkeepSpec` are specifications of several modules (see 3); each
theorem about one of them first shows that a step of the whole is a step of the part, or
leaves it alone, and then proves the part alone.

The induction theorems of the library take an operator and cannot be used. Induction, where
it cannot be avoided (the largest number of a finite set in `OrphansGoAbove`, the loop over
the days in `SearchSucceeds`, the lists the editor builds up in `KeptIs` and `SlotsThread`,
the depth of the walk in `WalkIs`, the steps of a way in `TripsAreVisited`),
goes through the well-founded order of the naturals instead: a smallest counterexample is
taken and refuted (`LeastOf`). A recursive function is a CHOOSE to the prover, so that each
one first needs a lemma that it exists (`KeptExists`, `OrderExists`, `SlotsExist`, `WalkIs`), by the
same argument.

Model-checked only:

- The liveness properties `StaleClaimsReleased`, `PassesEnd`, `SwitchedOffSettles`,
  `StoppedSettles`, `ReceiptsAnswered` and `RollupsCatchUp`: liveness under fairness is
  out of the prover's reach.
- The four refuted properties have runs only.

## 5. Where the code and its words differ

1. *A message that reached the provider must never be recorded as failed*
   (`message-queue.ts:388`). If `markSent` throws after the provider said ok, the catch
   block of `deliverOneSafely` still owns the row, `sent_at` is NULL, and it is recorded
   as failed, terminal.
2. *Soft bounces expire; a hard bounce never does* (`migrations/0002:123`). A permanent
   suppression keeps its first reason, so a hard bounce after an unsubscribe is dropped;
   a later form that switches something on deletes the unsubscribe, and the address is
   free.
3. *NEVER used to overturn an opt-out* (`storefront.ts:811`). The checkout asks for the
   last row of any category and inserts an opt-in for all of them: with promotional off
   and lifecycle on, in that order, promotional is on again.
4. *Transactional messages are now never cancelled by an opt-out*
   (`docs/DECISIONS.md:434`). The opt-out spares them in the queue and suppresses the
   address, and the suppression gate knows no exemption, so the next pass cancels them.

Each of the four has a run that finds the violation. Others were noted while modelling,
and have no run: `queue.ts:76` calls a WHERE clause the guard against cancelling a
claimed row, and the clause admits `processing`; `message-queue.ts:346` says that a
worker that has lost the claim writes nothing, which needs an identity per worker, and
`WORKER_ID` is one string per deployment; `message-queue.ts:423` says that
`scheduled_at` moves with a retry, and LEAST keeps the earlier time; `public.ts:284`
says that absent categories are left untouched, and they are opted out; and the
frequency cap does not hold for two passes, as `tests/qa/qa-frequency-cap.test.ts:165`
observes (`CapOverrunBounded` says how far).

Of the rest of the system:

- *Enrolment.* `time-triggers.ts:51` says that the whole run is refused above the
  ceiling; campaigns before the one that exceeds it have enrolled by then. Nothing
  completes an enrolment or sets `delivered_at`. A stop that commits between `refreshClaim`
  (`orchestrator.ts:699`) and `provider.send` (722) cancels a row that is then sent.
- *Canvas.* A condition is asked about the latest message that was sent before
  (`orchestrator.ts:386-464`), and `lineariseFlow` hands the question of a branch to every
  message behind it (`flow.ts:337-374`): the second message of a branch asks about the
  first, and leaves out recipients whom the canvas leads to it; and the message of the "no"
  branch asks about that of the "yes" branch, where that was sent first.
- *Campaigns.* Pause updates by id: a campaign archived between its read and its write
  is paused, and can be activated again. An enrolment queues the live messages while the
  active version is a snapshot.
- *Storefront.* The worker sends without looking at the daily budget, and sends that
  overlap are both counted before either.
- *Webhooks.* Twilio posts forms, and the route parses JSON only; those callbacks are
  kept and answered 200 without an event. `events.ts` answers 404 for an unknown
  campaign or message in the middle of a batch, after it has stored what came before.
- *Worker.* `worker/src/index.ts:130` says that rejections cannot escape `runJob`; its
  first statements are outside its try. `core/src/db/migrate.ts:44` says that API and
  worker both migrate on boot; the worker does not.
- *Providers.* `errors.ts:41` speaks of two attempts of a code, and attempts are counted
  over all codes. `http.ts` reads `err.code`, and Node's fetch puts it on `cause`, so
  that a refused connection is `UNKNOWN`. `env-sender.ts` says that an unusable
  credential costs the tenant that credential, and a supported provider whose variables
  are missing ends the walk.
- *Rate limit.* A statement with an older clock sets `updated_at` back, so that a span
  of time is refilled twice.
- *Segments.* `resolver.ts:221` calls its last answer reachable only if the contact
  changed; an unset field under `none` reaches it as well.
- *Triage.* `classifier.ts:128` says that vendor errors are recorded like the rest; a
  call that throws is released and not recorded. A settlement after the end of a month
  corrects the new month.
- *Windows.* In the repeated hour of a clock change an opening may lie in the past.
- *Rates.* `open_rate` divides opens by deliveries, which holds only once the receipts
  are in.
- *Campaign editor.* A Save button that goes quiet is promised (`Journey.tsx:424`). A
  step that was made an e-mail, given a subject and made an SMS again keeps the subject
  (`Journey.tsx:831`), and its request does not have it (391-404); and after
  a message has been removed that was switched off already and has been queued, it stays. In both cases the
  answer is the same as before, nothing is seeded, and the button stays lit. Removing
  such a message in the middle leaves its number occupied, and the PATCH of the one that
  moves up is answered 409, at this save and at every repetition. A POST
  whose answer is lost is sent again by the next save, since the step has still no id.
  `Journey.tsx:619` says that a 422 of these endpoints has the failures of an activation;
  it has `errors` and `warnings`, and marks no node.
- *Sign-in.* `app.ts:155` says ten attempts a minute; a fixed window lets twice as many
  through around its edge. A late 401 of an old session clears a newer one
  (`web/src/lib/api.ts:149`).

## 6. Order of the work

The queue and its life cycle came first, then the passes, consent and the gates, because
everything else reaches a person through them; then what fills the queue (enrolment, the
storefront, the life cycle of campaigns), what reports back (webhooks, tracking), what
runs beside them (jobs, migrations, sessions), and the computations they rest on. What
would follow, in this order:

1. That the passes of `SendGates` implement the walk of `Delivery`, whose gates are a
   nondeterministic verdict.
2. The goals of a campaign, and the shutdown of the worker while a pass is under way.

## 7. Not modelled

- Rendering: templates are functions of strings. Only whether a text carries its opt-out
  link, or a link to click, is looked at (`CampaignLifecycle`, `Tracking`).
- Addressing: normalises addresses and telephone numbers.
- Decision log: append-only inserts that nothing reads back to decide.
- Triage evaluation harness: a single-threaded report over files.
- Web UI, other than the session it stores and the campaign editor (`JourneyTab`): pages render what the API returns, and edit
  through the endpoints of `CampaignLifecycle` and `JourneyCanvas`.
- Of the API shell: routing, error envelopes, hashing of passwords, signing of tokens.
- Of the database: idle clients and the pool's own timeouts; two clocks that differ, other
  than in `RateBucket`.
- Two workers under one `WORKER_ID`, in the runs: there the passes have an identity each.
  What holds for any identities is proved (`DeliveriesFollowLifecycle`, `DeliveriesAreAccounted`).
