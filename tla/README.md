# mulmit, specified and checked in TLA+

mulmit finds public tenders before they are published: it ingests council
minutes, budget books and procurement notices, extracts *signals* from them,
links the signals of one project to an *opportunity*, scores opportunities for
each customer organisation, and notifies customers over email, Slack and SMS.
Customers pay for a plan by subscription and buy credits for AI-written briefs.

This directory holds TLA+ modules translated from the Python code under
`apps/api/src/app`, TLC configurations that check them on small instances, and
proofs, checked by TLAPS, of the main safety properties of billing, the sources, the
documents, extraction, institutions, linking, opportunities, alerts and delivery for
all instances. Paths below are relative to `apps/api/src/app` unless they start with
`docs/`.

## 1. The system

Three kinds of processes share PostgreSQL and Redis:

* the **API** (FastAPI, `api/`), one database session and one transaction per
  request (`api/deps.py:21-28`: commit at the end, rollback on any exception);
* **workers** (arq, `worker/`), up to eight jobs at a time each, every job in
  sessions of its own; jobs are asyncio tasks, so they interleave at every
  `await` as requests do;
* **cron** inside the workers (`worker/settings.py:58-69`), deduplicated by job id.

Transactions run at READ COMMITTED with `expire_on_commit=False`: an object
that a session has loaded keeps its values until the session ends,
`SELECT ... FOR UPDATE` locks its row without refreshing it, and an `UPDATE`
writes only the columns whose value differs from the one that was loaded. These
three facts decide what many of the properties below look like.

A document's way through the system, and the module of each stage:

    provider -> SourceCalls -> Collecting -> Records, Institutions
             -> Documents -> Chunking -> Extraction (or Fallback) -> Evidence, Amounts
             -> Linking, Ranking -> Lifecycle -> Pages, Feed
             -> Alerts -> Delivery -> customer -> Subscriptions, Payments, CreditLedger

| component | state | operations | hard behaviour |
|---|---|---|---|
| credit ledger (`billing/ledger.py`) | `organizations.credit_balance`, `credit_ledger` rows with `balance_after`, unique idempotency keys | `apply_credits`, `expire_plan_credits`; called by briefs, purchases, plan changes, renewals, the webhook | concurrent spends, stale balance, deadlock over the row, idempotency, expiry arithmetic |
| payments (`billing/service.py`, `billing/toss.py`) | `payments` rows, Toss's view of an order, undelivered webhooks | `_charge`, `purchase_credits`, `change_plan`, `renew_due`, `reconcile_payment` | lost answers, retries, webhooks early, late or repeated, crash between charge and commit |
| subscriptions (`billing/service.py`) | `subscriptions` row: plan, period, failed attempts, next charge | plan change, cancellation, renewal, dunning | late jobs, retries with an old request id, changes during a renewal |
| source clients (`sources/resilience.py`, `sources/http.py`) | circuit, probe, quota, token bucket in Redis | `before_call`, `record_success`, `record_failure`, `acquire`, the retry loop | shared by all workers without transactions |
| source runs (`pipeline/ingest.py`, `pipeline/backfill.py`, the adapters) | the cursor of a source, documents of a run | default window, walk through the pages, commit, backfill | shifting pages, overlapping and failing runs |
| institutions (`domain/institutions.py`, `pipeline/ingest.py`) | the table of institutions, a registry in each process | parse and resolve a name, store a provider's institution, `reresolve` | a memory beside the database, ambiguous names |
| document pipeline (`pipeline/ingest.py`, `pipeline/process.py`) | `documents`, chunks, signals | ingest, parse, extract, sweep | stale rows, a crash between commit and enqueue, poisoned documents |
| LLM service (`llm/service.py`, `llm/budget.py`) | cache, call log, the day's spend | check, call, validate, record, fall back | check-then-act over eight jobs, degradation |
| linking (`pipeline/link.py`) | opportunities, links, review items | `link_signals`, `refresh_opportunity`, `refresh_lifecycle`, `decide_review` | concurrent jobs, aggregates of what changed meanwhile |
| lifecycle (`domain/stages.py`, `pipeline/link.py`) and its readers | the columns of an opportunity that depend on the day | stage, window, status, chance; card, brief, alert, backtest | notices withdrawn and announced again, rows read days later |
| feed (`api/routers/opportunities.py`) | none but the cursor the client holds | one page | rows and the day change between pages |
| recommendations and notifications (`pipeline/recommend.py`, `notify/`) | recommendations with `notified_stage`, notifications with status, attempts and due time, channels | refresh, enqueue, deliver | duplicates, lost alerts, retries, quiet hours |
| queue and jobs (`worker/`) | arq's job keys, kept results, tries | `enqueue`, the retry of a job, cron | at-least-once jobs, ids refused for an hour, lost Redis |
| amounts, chunks, records, quotes, verdicts, rules, scores | none: pure functions | | boundaries, units, thresholds, order |
| parsers, API views, web application, evaluation, infrastructure | none, or single rows | | sequential |

`PROJECT.json` lists all components, also those that are not modelled, and under
`hazards` what is hard to test in this code, each at its line with the property
that covers it or the reason why none does.

## 2. Modules

### Billing

`LedgerSpec` is what the docstring of `billing/ledger.py` promises: every
idempotency key is applied at most once, to the balance its predecessor left,
never below zero. Its one action, `Settle`, is atomic.

`CreditLedger` is the code. A session (request, webhook or job) walks through
`pc`: it *begins* and, if the route needs a principal, loads the organisation
(`snap`, the balance in its identity map); it works (the LLM call of a brief,
the charge of an order); it inserts the brief or payment row and flushes it
(`child`, which takes a shared key lock on the organisation and waits for a
session that holds the same unique key); then for every movement in `todo` it
looks the key up (`Skip`, `Want`), locks the row (`MayLock`), and adds to the
balance it *sees* (`Base`: its stale `snap` when the organisation was loaded
before, else the row of now) before `Commit` publishes rows, movements and
balance at once. `Insufficient`, `EntryConflict`, `InsertConflict`, `Victim` (a
deadlock that PostgreSQL resolves) and `Crash` roll everything back. `Tick` lets
periods end; `Expiry` is the sum of `expire_plan_credits`. A `CHECK` on
`balance_after` and the unique index on the key are guards of `Apply`.
`MCCreditLedger` looks at it in three ways (`focus`), adds session symmetry and
`Wallets`, a reading of the ledger that tells plan credits from purchased ones row
by row, as a reference for what an expiry should take. `CreditLedger_proofs`
holds the theorems.

`Payments` is one charge at Toss: `remote` (Toss's view of the order), `hooks`
(webhooks still to be delivered, repeated until answered), `row` (the committed
status), and `outcome` (whether credits or the period were applied). Sessions are
requests for an order (a customer's retry of a credit pack under one id, or the
hourly job at a renewal), or webhook handlers; `seen` is the status their `Payment`
object was loaded with and `told` what Toss answered. Answers may be lost before or
after Toss acted, a charge may be declined while another one of the same order is
under way, an approved payment may be canceled, a session may die at any point. What
an order is of (`kind`) is chosen in the initial state. `Billing_proofs` holds the
theorems.

`Subscriptions` is the life of one subscription: `record` is its row, `today` the
calendar, `approved`, `refused` and `paid` what has become of the orders, `grants`
and `closed` what the ledger was told. `renewal` is the job, which holds the row from
its `SELECT ... FOR UPDATE` to its commit; `change[r]` is the request `r`, which reads
the row without a lock, charges, and writes only what differs from what it read.
Both lock the organisation in two steps, and `BreakDeadlock` is the database's way
out. `MCSubscriptions` gives a dunning schedule. `Billing_proofs` holds the theorems.

### Sources

`SourceCalls` has one Redis command, one request or one decision between two
awaits as its step: the breaker (`failures`, `opened`, `probe`), the quota (`used`),
the bucket (`tokens`), and each job's place in the client's retry loop and in arq's
tries. The provider goes down and comes back, answers with an error envelope under
status 200, and workers die.

`Collecting` has the runs of one source: `Begin` takes the window (`DefaultSince`,
or one given), `FetchPage` walks as the adapter of the source does (the
procurement services by windows and pages, the minutes newest first, the books by
their fiscal year, boards page by page until they meet what they know), `LookUp` and
`Insert` look for documents and store them within the run's transaction, `Succeed`
commits them with the cursor. What is asked for is a set; an item's `Place` is the
number of items up to it in the order of the list, `PageOf` takes the items by their
places, and the rows at hand (`todo`) are taken in that order (`Row`). `owed` is a
history variable: what was listed when a run began that has succeeded since.
`MCSources` is either of the two, and `Sources_proofs` holds the theorems about both.

`Records` is what the adapters make of an item or a post (`g2b.map_item` with its
numbers, dates and amounts; a post's attachments) and by which numbers the records of
one project meet. `Institutions` takes names apart, resolves them, and files what
providers list, in processes that each have a registry (`known`) beside the table.
`MCInstitutions` gives a table with two boroughs of one name, a city with the name
of a province, a public agency, and names of up to three words.

### Documents and signals

`Documents` is a document from the provider to its linked signals. `published`,
`doc` and `signals` carry *versions* of the content instead of text; `job` holds what
arq knows of a `process_document` job: the ingest enqueues it under an id of the
minute, the sweep under another, and an id whose result is kept is refused. A
worker holds the row it has `seen` (minutes pass while it parses) and flushes
only the columns that changed (`Processed`), with the row locks of PostgreSQL
between flush and commit.

`Extraction` opens the step in which a document's signals are made: for each chunk
the job asks the cache, checks the projected spend, calls, validates, records what
the call cost, and inserts the answer into the cache of its own transaction
(`entry`; a second job waits for a first one that inserts the same key). When the
model is away the job is tried again, and its last try falls back to the rules, as
any try does over budget or when the answer is of no use. Jobs that wait for each
other's entries in a circle, of whatever length, are what PostgreSQL looks for
(`InCircle`), and one of them is its `DeadlockVictim`. Requests for a brief
(`briefs`) go through the same guard, without a cache or a second try.
`Extraction_proofs` holds the theorems. `Fallback` is
these rules and the triage before them; `Chunking` cuts documents; `Evidence` is the
referee (`locate_quote`, `resolve_timing`, `verify_extraction`); `Amounts` reads and
writes sums of won.

### Opportunities

`Linking` has signals, one per document, and the opportunities they are threaded
into. `refs` gives each document the numbers it carries: of an order plan, of a
prespec, of a bid notice, and of the notices a plan lists. A link job reads what is not
linked yet and decides (`Decide`): the look-ups of `ReferenceMatch` go in turn through
plan, prespec and notices (`Found`), and the first that finds a linked document wins
without a look at the others; only where none does, likeness picks any opportunity that
holds no other plan number and no other prespec number (`WithoutConflict`), or a new one
is made. It inserts the link
(`Insert`, or `Conflict` when the signal has one or a row is gone), computes the
aggregates from the links it sees (`Compute`) and writes the columns that differ from
those it loaded (`Commit`, `Flushed`). `night` is the one transaction of
`refresh_lifecycle` over all open opportunities: it computes and flushes one after
the other and deletes those without links, with every link committed since
(`LinkKept`). `Process` replaces the signal of a document, and with it its link;
`Approve`, `Reject` and `Relink` are the review queue. `method` is how a link was
decided; `overlapped`, a history variable, holds the pairs of documents of which one was
decided while a link job of the other was under way. `MCLinking` chooses among three ways in
which three documents can refer to each other. `Linking_proofs` holds the theorems.
`Ranking` is the score by which
signals are linked when no number decides, and the score of a recommendation.

`Lifecycle` is what Linking keeps opaque: `Refreshes` are the rows
`refresh_opportunity` may write (stage, publication, window, status) from the signals
in `links` on day `date`; `LinkMention` links a signal, `DayPasses` is the calendar,
and `NightRefresh` the night's job. `Pages` is what is read off that row on a later
day: the card, the ranker's lead time, the facts and the prompt of a brief, the
alert, the chance and the backtest. `Opportunity_proofs` holds the theorems about both,
and about `Institutions` and `Ranking`. `Feed` is the paged list: a page is one query,
behind the last row of the page before, on the day of the first one.

### Alerts

`Alerts` is what one organisation is told about. Opportunities change their
`stage`; a `link_signals` job that has committed enqueues a refresh under an id of the
half minute (`EnqueueRecs`), the refresh job ranks, deletes and upserts
recommendations (`RankOpen`, `Upsert`, `CommitRecs`) and, in instant mode, enqueues an
alert job under an id of its half minute; in daily mode the cron does (`Digest`). An
alert job reads what is fresh (`Choose`), inserts notes whose key is unique, updates
`notified_stage` (`InsertNotes`, or `Stale` when a row was deleted meanwhile) and
commits. A bucket is a half minute, or a day; a job whose id is taken, be it by a
kept result, is not enqueued. Row locks are the sets that uncommitted jobs
`Touches`. Which opportunities are best, and above the threshold, is chosen anew at
every refresh. `Customer_proofs` holds the theorems, of `Feed` too.

`Delivery` is the outbox behind them. A run of `deliver_pending` locks a batch, the due
notes that have fewer than `Limit` others `ahead` of them, takes them one by one (`Skip`, `Defer`, `Accepted`,
`Unavailable`, `AnswerLost`, `Refused`) on `draft` rows, and publishes all of them in
`Commit`; what is `delivered` to the customer is outside the transaction and stays
when the run `Dies`. `when` abstracts `scheduled_at`: due, after a backoff, in the
morning. A run `knows` a channel as its identity map does: as it was when first read.

### Compositions

Components that share state are in one module. `MCJobs` (Documents or Delivery, with
`Jobs_proofs`), `MCSources` and `MCPipeline` put several parts into one run: a behaviour is one of
the parts, chosen in the initial state, while the others stand still; this saves
runs and composes nothing. `MCReading` gives the pure functions their inputs: a
behaviour takes one input of one topic, and the invariant compares the function with
its reference definition on it.

## 3. What the runs show

| run | module | shows |
|---|---|---|
| `ledger_calls` | MCCreditLedger | two concurrent sessions with every kind of call: never negative, the cached balance is the newest row's, every row starts from a balance an earlier one left, keys once, briefs stored exactly when paid for, no deadlock; callers that load the organisation only under the lock implement `LedgerSpec`; over four periods, one session at a time, an expiry takes exactly the plan credits left |
| `ledger_stale` (violation) | CreditLedger | two briefs at once debit the same balance: one debit is lost, against the docstring of the ledger |
| `payments` | Payments | nothing given away, paid is credited, and an approved renewal starts its period in the end |
| `payments_lost` (violation) | Payments | a crash after the approval: an approved pack is never credited, since the reconcile job a comment relies on does not exist |
| `subscriptions` | MCSubscriptions | a period is renewed, and a request charged, once, whatever is declined, lost or killed; whatever is due is settled |
| `sources` | MCSources | a quota is kept and an open circuit holds, whoever dies or retries, and the circuit closes after the last trouble; what was listed in time when a run began is stored once it has succeeded |
| `jobs` | MCJobs | the sweep recovers readable documents, whatever was lost or killed; overlapping runs send nothing twice unless something died or was lost, the list shows what happened, and every note is settled in the end |
| `documents_stale` (violation) | Documents | a content that changes while it is parsed is lost for good |
| `linking` | MCLinking | nothing unreviewed is linked; references decide in the order of their look-ups, likeness only where there is none and never over another number, but for documents linked at the same time; the nights bring open opportunities back in line with their links |
| `pipeline` | MCPipeline | the day's recorded spend passes the cap by the calls under way only, what is accepted is the model's, documents get their signals (Extraction); one note for an opportunity at a stage, what is marked as told is in a note (Alerts); a feed shows what stayed exactly once (Feed); what is said of a tender is what its notices say (Lifecycle, Pages); the pure functions agree with their references, evidence is in the source, names are not guessed (MCReading, Institutions) |
| `lifecycle_reopened` (violation) | MCLifecycle | a notice announced again long after its withdrawal is stored as closed on the day it opens |
| `institutions_forgotten` (violation) | MCInstitutions | a process takes an institution for stored whose transaction was rolled back |

**Bounds.** *Ledger:* two sessions suffice for every pairwise race (a third
one adds only another waiter for the same locks), one key of each kind makes every
collision happen, four clock values give periods closed late, twice and after a
lapse; costs and grants are such that one brief uses part of a grant and two more
than it. *Payments:* one order, since orders share no state; three sessions so that a
request, its retry and a webhook overlap; one undelivered webhook at a time (two in
`payments_lost`) and one death. *Subscriptions:* two requests and the job, periods of
two days in six, a schedule of two further attempts, one mishap. *SourceCalls:* two
workers, a threshold of two failures, a quota of two calls (one more than a worker
needs), a bucket of one token, two troubles. *Collecting:* three days and items, pages
of two, windows of two days: an item can shift from a page to the next, a window can
end between items; two items where runs overlap. *Documents:* two documents so that
one can stand in the other's way, two workers, two tries, one content (two in
`documents_stale`), one fault. *Delivery:* an alert and a test of one channel, two
runs, three attempts in the place of `MAX_ATTEMPTS`, one mishap. *Linking:* three
documents, so that one can refer to two that are already apart, one of which is
processed again and another reviewed so that an opportunity can lose its links, gain some, and be
joined by two jobs at once; one trouble.
*Extraction:* two jobs that take two prompts in opposite order, so that each can wait
for the other's cache entry, and one brief; a cap of three calls; one setback. *Alerts:* two
opportunities for one place among the recommendations, two buckets, two changes of a
stage, one fault. *Feed:* three opportunities on pages of one or two, one of which
changes. *Lifecycle:* one number, three signals (a notice, its withdrawal and
another), four days with every span of the code shrunk to one or two of them, in the
order the code has them. *Pure functions:* all inputs of a small universe, named in
`MCReading`; the numerals have the radix three, so that large units fit into TLC's
integers. Reaching a bound disables the environment's action only.

**Fairness.** `Payments!FairSpec`: a session that runs goes on (the event loop
resumes tasks), the hourly job comes round whatever else keeps sessions busy
(strong fairness of `Request` for renewals only: nobody makes a customer retry),
webhooks are delivered, and Toss, asked again and again, once answers. Deaths are
bounded. `SubscriptionFairness`: the job goes on, a request that has begun goes on and
gets the locks it waits for, and PostgreSQL resolves deadlocks. `CallsFairness`: jobs
and arq's queue go on, an outage ends, and clocks run (cooldown, the probe's expiry,
refill, midnight). `Documents!Fairness`: the sweep comes round, results expire, arq
starts the queued jobs of every document, and the model is not away at every try
(strong fairness of `Commit`). `DeliveryFairness`: mornings come, backoffs end, a run
that has begun goes on, and the cron job comes round in the daytime, which is
longer than its minute. `Linking!FairSpec`: a link job that has begun goes on, and there
is a next night. `CreditLedger` and the parts of `pipeline` have no fairness: that
their sessions and jobs do not wait for each other for ever are the invariants
`SomeoneGoesOn` and `DegradesInTheEnd`, both proved but for their use of `ENABLED`.
Deadlock is checked in `ledger_calls` and `sources`; elsewhere the system stops when a bound is reached.

**Preconditions that matter.** What follows is how far a property holds, and what
the code does beyond.

* *Ledger.* `PromiseKept` is about callers that have not loaded the organisation
  before the lock, and `ledger_stale` shows that the others break it.
  `PlanCreditsExpire` runs one session at a time and briefs in their period
  (`BriefsInTime`): one bought between the end of a period and the job that closes it
  is counted nowhere, and the expiry takes purchased credits for it.
* *Subscriptions.* The schedule of dunning (after 1, 3 and 7 days in the code) is
  within a period (`BillingAssumption`): a longer one would try a renewal again when the
  next period is over too. `RenewedOnce` counts charges for one purpose. A plan change and
  the renewal of the same day are two, and both may be charged. A retry under an old
  request id after another change finds its order paid and applies the old plan again
  (`billing/service.py:194`); the last declined renewal leaves the credits of the plan
  (`service.py:266`), against `billing/plans.py:4-6`; a change that was paid may
  write less than what was paid for, since it writes only what differs from a stale
  row. `PlanCreditsEnd` and `PaidIsServed` state the last two, and TLC refutes them.
  Beyond the model: a subscription without a card ends the job for all others, which
  are charged in the same transaction (`service.py:228`), and the free plan gets its
  monthly grant once (`service.py:154`).
* *SourceCalls.* `OpenHolds` grants each worker the one call that it was admitted to:
  a circuit that is read open may be let pass a moment later. A probe's key may expire
  during a call longer than its minute, and the success of a call that is older than
  the circuit closes it (`sources/resilience.py:141`, `:146`). A permit that waits for
  a token over midnight is used on the next day; `QuotaKept` counts those apart.
* *Collecting.* A window given by hand moves the cursor to its end. `BeginBackfill`
  has only windows that begin no later than the default one and end no earlier than
  yesterday: another one skips or repeats days (`pipeline/ingest.py:257`). An item that
  appears more than the overlap of three days after its date is missed by design
  (`late`). Between two pages of a crawl less than a page of posts appears
  (`Publish`): a whole page of new ones in the moment between two requests would be
  taken for known (`sources/crawler.py:335`), as pinned posts would that are old
  (`:346`). When `robots.txt` cannot be read a crawl succeeds with nothing and the
  cursor moves (`crawler.py:299`). A fiscal year's last book, registered in the new
  year, is never listed (`sources/lofin.py:62`). Two g2b runs may wait for each other;
  the database aborts one (`InsertFails`).
* *Documents.* `PendingIsProcessed` holds while fewer unreadable documents than a
  sweep takes are older: a failed status is rolled back (`pipeline/process.py:276`),
  so they stay in the list, and with `SweepLimit = 1` the property fails.
* *Extraction.* `SpendCapped` is about what is recorded. A call whose answer is of no
  use is paid for and never recorded (`llm/service.py:209-226`, `:275`), and one whose
  worker dies is not either, so that the bill passes the cap by more
  (`llm/budget.py:4-6` speaks of the actual spend).
* *Linking.* The code takes the first look-up that finds something (`link.py:127-171`),
  and a reference skips the comparison of numbers (`link.py:174-205` is for likeness
  only). So with no overlap of jobs: a plan and a prespec that name each other nowhere
  are two opportunities; a notice with both numbers joins the plan's, and the prespec
  number is then in two. And a prespec without a plan number may join the
  opportunity of one plan by likeness; a notice with another plan number follows the
  prespec there, and two plan numbers are in one. The model reaches both. Hence
  `NumberLinks` promises one opportunity to a plan number always, to a later number only where
  no earlier one leads a document elsewhere (`Leads`); `ReferencesDecide` and
  `NumbersApart` say that whatever else parts or joins such documents is a
  reference, never likeness. All three except pairs that were linked at the same
  time (`overlapped`): each job looks before the other has committed, and both seed.
  Workers run eight jobs at a time and the documents of one ingest are processed together,
  so that is a normal case; the docstring of `pipeline/link.py` (lines 9-12)
  knows none of these exceptions.
  `UnreviewedUnlinked` lets a link stay when its signal is rejected later, as the code
  does (`api/routers/admin.py:286`). `Converges` is about open opportunities only: the
  night does not look at closed ones.
* *Alerts.* `InstantToldOnce` is about instant mode: a digest repeats an opportunity
  that has left the recommendations and come back. `MarkedIsTold` holds for digests
  while there are no more opportunities than a digest lists: beyond it, one whose list
  was written before conflicts with the old note, and the rest that it would have
  counted is marked without being counted anywhere.
* *Delivery.* `SentOnce` and `StatusIsTrue` are relative to `mishaps`: a run of a
  hundred notes whose services take ten seconds each passes the job's timeout of 900
  seconds (`worker/settings.py:75`), and everything it has sent is sent again.
* *Lifecycle and Pages.* An award within 21 days of its notice leaves the status
  `bid_open` while the brief says that the tender is over (`pipeline/link.py:339`,
  `pipeline/brief.py:92-97`); a tender of which only the withdrawal is known counts as
  out; the backtest counts conversions younger than its docstring says
  (`pipeline/backtest.py:3-6`, `:67`). The properties except these.
* *Institutions.* `FiledRight` holds always where a provider has one name for a code
  (`OneName`), as in the run. With two names it needs that nothing was
  rolled back: a registry that keeps a forgotten name (`institutions_forgotten`) files
  under the code whatever name the row has by then.
* *Evidence and Fallback.* Quotes whose hangul is decomposed in the source (file
  names and texts from a Mac) are not found word for word (`domain/text.py:39`), so
  `QuotesFound` is about composed texts. The year of a timing phrase is verified only
  where the phrase is (`grounding.py:131-137`). A budget phrase below four characters
  is not located and the largest amount of the quotes wins (`grounding.py:46`). The
  rules read the unit of a chunk, the referee that of the book, and the referee wins.
* *Smaller things* that the modules leave out and no property is about: decimals in an
  amount (`domain/krw.py:47`); the question of `robots.txt` for each post
  (`sources/crawler.py:350`), which only makes a crawl skip posts; an installation without a
  model, which answers by the rules and does not mark that as degraded
  (`llm/service.py:149-151`); the lead time of opportunities that are closed or
  dormant, which is worth nothing (`pipeline/recommend.py:77`).
* *Ranking and Records.* A customer range that ends at zero divides by zero
  (`pipeline/recommend.py:101`), and a six-digit date without such a month raises
  (`sources/base.py:77-78`); both are kept out of the inputs and are in the hazards.

## 4. What is proved

Each `_proofs` module proves an inductive invariant of a component's specification, as
a theorem of its own, and from it the properties that the runs check. All of it holds
for every value of the constants under the named `ASSUME`s of the modules, which TLC
evaluates in the runs: bounds are natural, sets of jobs and documents finite, and what
is listed below.

`CreditLedger_proofs`, for every set of sessions, keys, calls and amounts:

* `TypeCorrect`, from `ControlInv` (types, and which session may hold what at
  which `pc`);
* `NeverNegative`, `BalanceCachesLatest` and `AppliedOnce`, from `LedgerInv`: at most one session has flushed movements, its
  identity map shows the balance of its last row, and its keys are disjoint from the
  committed ones. The invariants alone are not inductive: what a commit publishes was
  computed steps before, so the strengthening speaks of the uncommitted rows;
* `EveryBriefPaidFor`, from `BriefInv`: the session that has inserted a brief has
  exactly its debit before it or behind it; and `SessionInvariant`;
* `LedgerAlwaysSound`, for callers of every kind: those three, and that every row starts
  from a balance that an earlier row left (`NothingInvented`), be it an old one. This is
  what is left of the chain that `ledger_stale` refutes: a race loses movements but makes
  none up. `LockedReadsContinue` is the other half: the first row of a session that loads the organisation
  only under the lock, as the webhook's does, starts from the balance of the moment
  of its commit, however many briefs, purchases, renewals and plan changes with stale
  balances race with it. Both rest on `RootInv`: what a session saw before the lock some
  row has left, what it has flushed continues that or, under the lock, the balance, and
  nobody else changes the balance while it owns the row. That two such sessions implement
  `LedgerSpec` (`PromiseKept`) is only model-checked;
* `NobodyIsStuck` and `SomeoneAlwaysGoesOn`: whoever has flushed movements is the only
  one with a row that refers to the organisation, and whoever settles an order has its
  row (`WaitInv`). So a session that waits for a row waits for one that does not wait for
  it, and those that wait for the organisation over their key locks are in a cycle that
  the database ends;
* `PlanCreditsAlwaysExpire`, for every history of periods, renewals, plan changes and
  purchases in the periods focus (one session at a time, briefs in their period, see
  above). The ledger read row by row leaves `WalletNow`: what the state says is left of
  the running period's grant (`PlanLeft`) and, bought, the rest of the balance
  (`ReadInv`). This is inductive with `PeriodInv`: an expired period has ended and spends
  nothing more (`Calendar`), and what a session has still to apply or has flushed is the
  row that its call owes the ledger of now (`Moves`). The reading is a recursive
  function; a commit adds at most two rows to it, so that each step needs only how it
  continues by a row (`ReadOn`), and no induction over the ledger.

`Billing_proofs`. Of payments, for every set of sessions and orders:

* `Invariant`, the inductive invariant: what a session has seen or been told of an
  approval is right (`Sound`), a row it has seen does not vanish and a failed one
  is never pending again, and the session with an uncommitted row is the only one
  (`RowsSeen`);
* from it `PaymentsTypeCorrect`, `NothingGivenAway` and `PaidPacksCredited`.

Of subscriptions, for any requests, plans, length of a period and schedule of
dunning whose steps are within a period:

* `SubscriptionInvariant`, and from it `SubscriptionTypeCorrect` and
  `NothingChargedTwice`. That a period is renewed once rests on the order ids: the id of
  a renewal names the period, so the invariant follows which orders have been approved
  (`OrdersRight`), what the requests and the job were told of theirs (`HeardRight`), and
  the rows that requests read without a lock and compare with later (`RowsRight`,
  `NextIsKnown`), since what they write decides what the job charges next.

`Sources_proofs`, for any finite set of workers, threshold, tries, quota and bucket,
and for any runs, days, items, pages and windows:

* `QuotaAlwaysKept`, from `QuotaInv`: the calls sent today and the permits of today
  that are out are together no more than the `INCR`s that found room;
* `OpenAlwaysHolds`, from `OpenInv`: a worker that has sent a call while the circuit is
  open has not been admitted since;
* `NothingIsMissed`, from `CollectInvariant`. What a run owes is stored, or in its
  hands, or *ahead* of it: in a later slice of days, or at a place of the list that is
  behind the page it has read (`Covered`). New items only move others back
  (`PlacesMove`), so what is ahead stays so; on a crawl they also move what has been
  seen towards the next page, by less than a page (`Taken`), which is why a page of
  known posts is the end. That the adapters' ideas of a last page are right
  (`LastIsLast`) rests on every place up to the number of items being taken
  (`PlaceTaken`, from a theorem on injections). What is older than the window was stored
  before it (`Window`, `Reached`). The assumptions are those of the model: the first
  window reaches the first day, and `max_pages` the end of the list;
* `SourcesTypeCorrect`, for the composed run.

`Jobs_proofs`, for any documents, workers, minutes, contents, channels, notes and runs:

* `DocumentsInvariant`: each version in a row, in signals, in a job or in a worker's
  hands is one that has been published, and jobs are about stored contents. From it
  `SignalsArePublished`, for any number of contents (the signals of a parsed document
  are of some published content, and of the stored one as long as there has been no
  other). With two contents `documents_stale` refutes more than that;
* `DeliveryInvariant`, and from it `NothingSentTwice` and `StatusAlwaysTrue`: a message
  is out before its row says so, so what is delivered is bounded by the uncommitted
  `draft` (`Counted`), which only the run that holds the row has changed (`Drafted`);
* `JobsTypeCorrect`, for the composed run.

`Extraction_proofs`, for any finite sets of jobs and requests, any documents, prices,
cap and tries:

* `ExtractInvariant`, `ExtractTypeCorrect`, and `SpendIsCapped`: a call that has passed
  the guard costs at most `MaxCost`, and there are never more such calls than jobs and
  requests, so the spend and what the calls on their way may add are bounded together
  (`SpendRight`); the bound on the spend alone is not inductive;
* `OnlyTheModelIsAccepted` (also through the cache, which holds answers of the model
  only) and `ModelNeverDrops` (a document is dropped only where something died: a job
  that waits for another try has one left, `TriesRight`);
* `NoJobsAreStuck` and `DocumentsDegrade`: if every unfinished job waited and none was in
  a circle, the smallest set of jobs that wait for each other (`CircleAmong`, by the
  well-founded order of its size) would be a circle all the same. Only jobs at work
  hold entries (`HoldsWhileAtWork`), so a job never waits for a finished one.

`Linking_proofs`, for any finite set of documents, numbers, jobs and versions:

* `LinkInvariant`, `LinkTypeCorrect` and `NothingUnreviewedIsLinked`, for any numbers on
  any documents. The invariant says
  what a job that has inserted a link may rely on (`HoldsRight`: nobody has linked or
  replaced the signal, and the night does not delete the opportunity), and what the
  night has read and will write (`NightRight`);
* `OneNumberOneOpportunity`, `ReferencesLink` and `TwoNumbersApart`: of two documents that
  are not linked at the same time the later one sees the link of the earlier one when it
  decides, and nothing that happens between a decision and its commit makes another
  opportunity the right one (`AheadRight`, over the link that is there or under way,
  `Ahead`).

`Customer_proofs`, for any finite set of opportunities, channels, limits and jobs:

* `AlertsInvariant`, `AlertsTypeCorrect` and `NotToldTwice`, which rests on the unique
  key alone (`KeysOnce`, `Singles`), whatever the recommendations have forgotten;
* `WhatIsMarkedWasTold`: what a job marks is what it lists (`InHand`), and the rows it
  has flushed are there when it commits (`RowsKept`, the row locks);
* `FeedInvariant` and `FeedShowsEachOnce`, for any rows, scores, page sizes, days and
  numbers of changes: the order is total (`BehindWhatIsNot`, `BehindTransitive`), so
  what stayed and is not behind the cursor has been shown, and nothing behind it has
  (`Walking`). That a query has an answer (`Page` is not empty) is only model-checked.

`Opportunity_proofs`. Of an opportunity, for any lags, days, numbers and signals:

* `RowRefreshed`: the stored row is what a refresh on some day up to now makes of the
  signals there are. From it `RightOpportunity`: a refresh writes one of two kinds of
  row (`OutRow`, `AheadRow`), according to whether some notice stands
  (`RefreshedIsRight`, which rests on `LiveStands`: the latest notice of a number stands
  exactly if the number is not withdrawn), and each reader says the same of a row of
  each kind on any later day (`OutIsShown`, `AheadIsShown`, `EverySameStory`). Of the
  backtest, that a chance is looked up under the key it was learnt under, and that what
  counts as no tender had the time for one (`EveryLearntIsUsed`).

Of institutions, for any table, published records, processes and mishaps:

* `InstitutionsInvariant`: one row for a code, whoever inserted it, and what a
  transaction has written is right by the rows it sees, which a commit or a rollback of
  somebody else does not take away. From it `InstitutionsTypeCorrect`, `FiledIsRight`
  (under `Trusted`, see above), and `RegistryIsStored`: what a process takes for stored
  is, as long as nothing is rolled back. So the rollback is the one cause of what
  `institutions_forgotten` shows;
* `NoNameIsGuessed`, for every name of any number of words and any fuzzy match: one that
  several places have is ambiguous, a body of its own is not its place, and nothing is
  found in another province than the name says. The hypothesis is that a word that is a
  province's alias has that province in it.

Of scores, for any threshold, terms, sums and days:

* `LinksEarned`: with a threshold above 0.55 (it is 0.6) two titles that name different
  things are not linked for sure by name or content alone, nor is anything for being the
  only one of its kind, and the order of two candidates decides between equals only. Each
  feature is a share (`Features`), so what is left of the sum without the titles or the
  contents is bounded (`ScoreReach`);
* `EarlyWorth`: a score is a share of one, what is excluded is worth less than anything
  with two of the customer's words, and an early opportunity more than the same one
  when it is out.

**Only model-checked.** *Liveness*, which is out of the prover's reach:
`RenewalsApplied`, `DueIsSettled`, `CircuitCloses`, `PendingIsProcessed`, `Settles`,
`Converges`. *The refinement* `PromiseKept`. *`ENABLED`*: that the guards say when a session or a job has a step
(`GuardsTell`, `JobGuardsTell`), the hypothesis of `SomeoneAlwaysGoesOn` and
`DocumentsDegrade`. *Folds and recursion over data*, which need an induction that the
installed provers cannot do: the pure functions behind `ReadingRight`, `EvidenceRight`
and the rest of `MatchedRight`, which are compared with their references on bounded
inputs. `PipelineTypeOK` is a run's sum of the types of its
parts, each of which is proved for its own specification (`ExtractTypeCorrect`,
`InstitutionsTypeCorrect`, `AlertsTypeCorrect`, `FeedInvariant`).

## 5. What could come next

* The verdict on a signal (`check_signal`, `_text_signal`) for every signal: the
  numerals and the year of `Evidence` are found by `SelectSeq`, and would have to be
  found by places for a proof.
* The refinement of `Alerts`, `Delivery` and the customer's inbox to one outbox, so that
  what is marked as told and what is delivered once are one property.

## 6. Not modelled, and why

*Binary formats and external programs* (pdf, hwp, OCR), embeddings and edit distances:
what they compute is a choice of the environment. *Floating point:* scores are
integers with the code's weights; logarithms of budgets are taken as given. *Texts:*
the wording of cards, messages and prompts, unless a property is about what they say.
*Rows that are
only shown to operators:* `llm_calls`, `job_runs`, the counters of `source_runs`.
*Routes that read or write one row* (sign-in, channels, rules, the console), *the web
application, demo data, evaluation, benchmarks, deployment:* no concurrent state of
their own. *Liveness of PostgreSQL locks:* a session that waits is granted its lock
when the guard of its action becomes true. *Time within a step:* the timeout of a job
is a death at any point.

## 7. Running

    tlc -workers 2 -config LedgerCalls.cfg MCCreditLedger
    tlapm CreditLedger_proofs.tla

and likewise `Billing_proofs`, `Sources_proofs`, `Jobs_proofs`, `Extraction_proofs`,
`Linking_proofs`, `Customer_proofs` and `Opportunity_proofs`, one to three minutes each. The configuration of each run is in `PROJECT.json`. Every run needs less than four
minutes on two cores.
