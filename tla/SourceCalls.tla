----------------------------- MODULE SourceCalls -----------------------------
(***************************************************************************)
(* Calls of the workers to one provider (sources/http.py), the circuit     *)
(* breaker, the daily quota and the token bucket that all workers share in *)
(* Redis (sources/resilience.py), and the jobs that make the calls         *)
(* (worker/tasks.py, under arq).  Redis executes one command at a time and *)
(* nothing larger: every action below is one command, one request or one   *)
(* decision between two awaits.                                            *)
(*                                                                         *)
(* Time is abstract: a cooldown ends, a key expires and a day passes at    *)
(* some moment.  A job is one request; longer ones are in Collecting.      *)
(* The job_runs rows that tracked writes are left out: nothing reads them  *)
(* but the operators' page.                                                *)
(***************************************************************************)
EXTENDS Integers, FiniteSets

CONSTANTS Worker,       \* jobs of one source that may run at the same time
          Threshold,    \* RedisBreaker.failure_threshold
          MaxAttempts,  \* ResilientClient._max_attempts
          MaxTries,     \* MAX_TRIES of arq
          Quota,        \* calls a day
          Capacity,     \* tokens in a full bucket
          MaxTroubles   \* bound: outages, bad answers and deaths

ASSUME CallBoundAssumption ==
  /\ Threshold \in Nat \ {0} /\ MaxAttempts \in Nat \ {0} /\ MaxTries \in Nat \ {0}
  /\ Quota \in Nat \ {0} /\ Capacity \in Nat \ {0} /\ MaxTroubles \in Nat
  /\ IsFiniteSet(Worker)

VARIABLES
  up,        \* the provider answers
  failures,  \* app:circuit:<source> failures, counted to Threshold
  opened,    \* app:circuit:<source> opened_until: absent, in the future or past
  probe,     \* app:circuit:<source>:probe exists
  used,      \* app:quota:<source>:<today>, counted to Quota + 1
  tokens,    \* app:bucket:<source>
  at,        \* where each job is
  attempt,   \* failed attempts of its request
  try,       \* job_try, 0 when no job is queued
  permit,    \* the day of the permit it holds
  sentToday, \* history: calls sent today with a permit of today
  sentOpen,  \* history: calls of each worker while the circuit is open
  troubles   \* how many have happened

breaker == <<failures, opened, probe>>
jobVars == <<attempt, try>>
history == <<sentToday, sentOpen>>
callVars == <<up, breaker, used, tokens, at, jobVars, permit, history, troubles>>

Places == {"idle", "check", "probe", "permit", "bucket", "send", "sent", "trip", "release", "next"}

CallsTypeOK ==
  /\ up \in BOOLEAN /\ probe \in BOOLEAN
  /\ failures \in 0 .. Threshold
  /\ opened \in {"never", "future", "past"}
  /\ used \in 0 .. Quota + 1
  /\ tokens \in 0 .. Capacity
  /\ at \in [Worker -> Places]
  /\ attempt \in [Worker -> 0 .. MaxAttempts - 1]
  /\ try \in [Worker -> 0 .. MaxTries]
  /\ permit \in [Worker -> {"none", "today", "before"}]
  /\ sentToday \in Nat /\ sentOpen \in [Worker -> Nat]
  /\ troubles \in 0 .. MaxTroubles

CallsInit ==
  /\ up = TRUE
  /\ failures = 0 /\ opened = "never" /\ probe = FALSE
  /\ used = 0 /\ tokens = Capacity
  /\ at = [w \in Worker |-> "idle"]
  /\ attempt = [w \in Worker |-> 0]
  /\ try = [w \in Worker |-> 0]
  /\ permit = [w \in Worker |-> "none"]
  /\ sentToday = 0 /\ sentOpen = [w \in Worker |-> 0]
  /\ troubles = 0

Trouble == troubles < MaxTroubles /\ troubles' = troubles + 1
NoTrouble == UNCHANGED troubles

Go(w, place) == at' = [at EXCEPT ![w] = place]

(***************************************************************************)
(* Jobs: tracked and arq around the request.                               *)
(***************************************************************************)

\* The job's end as tracked sees it.  After "retrying" arq queues it again.
EndJob(w, status) ==
  /\ Go(w, "idle")
  /\ try' = [try EXCEPT ![w] = IF status = "retrying" THEN @ ELSE 0]
  /\ attempt' = [attempt EXCEPT ![w] = 0]
  /\ permit' = [permit EXCEPT ![w] = "none"]

\* QuotaExhaustedError and CircuitOpenError are retried at any try, a
\* TransientSourceError until the last one.
Retry(w) == EndJob(w, "retrying")
Exhausted(w) == EndJob(w, IF try[w] >= MaxTries THEN "failed" ELSE "retrying")

\* Cron enqueues a job, or arq starts a job again.
StartJob(w) ==
  /\ at[w] = "idle" /\ try[w] < MaxTries
  /\ Go(w, "check")
  /\ try' = [try EXCEPT ![w] = @ + 1]
  /\ UNCHANGED <<up, breaker, used, tokens, attempt, permit, history, troubles>>

\* arq: more than max_tries.  The job is dropped.
DropJob(w) ==
  /\ at[w] = "idle" /\ try[w] = MaxTries
  /\ try' = [try EXCEPT ![w] = 0]
  /\ UNCHANGED <<up, breaker, used, tokens, at, attempt, permit, history, troubles>>

(***************************************************************************)
(* ResilientClient.request.                                                *)
(***************************************************************************)

\* before_call: HGET opened_until.
Check(w) ==
  /\ at[w] = "check"
  /\ \/ opened = "never" /\ Go(w, "permit") /\ UNCHANGED <<jobVars, permit>>
     \/ opened = "future" /\ Retry(w)
     \/ opened = "past" /\ Go(w, "probe") /\ UNCHANGED <<jobVars, permit>>
  /\ UNCHANGED <<up, breaker, used, tokens, history, troubles>>

\* before_call: SET probe NX EX 60.
TakeProbe(w) ==
  /\ at[w] = "probe"
  /\ \/ ~probe /\ Go(w, "permit") /\ UNCHANGED <<jobVars, permit>>
     \/ probe /\ Retry(w)
  /\ probe' = TRUE
  /\ UNCHANGED <<up, failures, opened, used, tokens, history, troubles>>

\* acquire: INCR first, then the comparison.

\* mutant: one call too many
OverrunByOne(n) == n > Quota + 1
Overrun(n) == n > Quota

AcquirePermit(w) ==
  /\ at[w] = "permit"
  /\ used' = IF used > Quota THEN used ELSE used + 1
  /\ \/ /\ Overrun(used + 1) /\ Retry(w)
     \/ /\ ~Overrun(used + 1)
        /\ Go(w, "bucket")
        /\ permit' = [permit EXCEPT ![w] = "today"]
        /\ UNCHANGED jobVars
  /\ UNCHANGED <<up, breaker, tokens, history, troubles>>

\* acquire: the Lua script found a token; otherwise it sleeps and looks again.
TakeToken(w) ==
  /\ at[w] = "bucket" /\ tokens > 0
  /\ tokens' = tokens - 1
  /\ Go(w, "send")
  /\ UNCHANGED <<up, breaker, used, jobVars, permit, history, troubles>>

Send(w) ==
  /\ at[w] = "send"
  /\ Go(w, "sent")
  /\ sentToday' = IF permit[w] = "today" THEN sentToday + 1 ELSE sentToday
  /\ sentOpen' = IF opened = "future" THEN [sentOpen EXCEPT ![w] = @ + 1] ELSE sentOpen
  /\ permit' = [permit EXCEPT ![w] = "none"]
  /\ UNCHANGED <<up, breaker, used, tokens, jobVars, troubles>>

\* record_success: one DEL of the circuit and the probe.
RecordSuccess == failures' = 0 /\ opened' = "never" /\ probe' = FALSE

\* 200 and a body of data.
Answered(w) ==
  /\ at[w] = "sent" /\ up
  /\ RecordSuccess
  /\ EndJob(w, "succeeded")
  /\ UNCHANGED <<up, used, tokens, history, troubles>>

\* 4xx: a fatal code or none, or the provider's own quota; or 200 and a body
\* that get_json cannot read, which is transient but not tried again here.
Refused(w) ==
  /\ at[w] = "sent" /\ up
  /\ Trouble
  /\ RecordSuccess
  /\ \/ EndJob(w, "failed")
     \/ Retry(w)
     \/ Exhausted(w)
  /\ UNCHANGED <<up, used, tokens, history>>

\* 200 with an error envelope (fatal or quota), or a body beyond the cap: raised
\* before record_success, so a probe stays and the circuit with it.
SoftRefused(w) ==
  /\ at[w] = "sent" /\ up
  /\ Trouble
  /\ \/ EndJob(w, "failed")
     \/ Retry(w)
  /\ UNCHANGED <<up, breaker, used, tokens, history>>

\* A timeout, a lost connection, a retryable status or a transient code:
\* record_failure counts it (HINCRBY).
Failed(w) ==
  /\ at[w] = "sent"
  /\ \/ ~up /\ NoTrouble
     \/ up /\ Trouble
  /\ failures' = IF failures < Threshold THEN failures + 1 ELSE failures
  /\ Go(w, IF failures' >= Threshold THEN "trip" ELSE "next")
  /\ UNCHANGED <<up, opened, probe, used, tokens, jobVars, permit, history>>

\* record_failure: HSET opened_until.
Trip(w) ==
  /\ at[w] = "trip"
  /\ opened' = "future"
  /\ sentOpen' = IF opened = "future" THEN sentOpen ELSE [x \in Worker |-> 0]
  /\ Go(w, "release")
  /\ UNCHANGED <<up, failures, probe, used, tokens, jobVars, permit, sentToday, troubles>>

\* record_failure: DEL probe.
Release(w) ==
  /\ at[w] = "release"
  /\ probe' = FALSE
  /\ Go(w, "next")
  /\ UNCHANGED <<up, failures, opened, used, tokens, jobVars, permit, history, troubles>>

\* The next attempt asks the breaker again, after the backoff.

\* mutant: before_call is made once, before the loop
StraightOn == "permit"
LoopStart == "check"

\* mutant: one attempt more
OneMore(n) == n > MaxAttempts
LastAttempt(n) == n >= MaxAttempts

NextAttempt(w) ==
  /\ at[w] = "next"
  /\ \/ LastAttempt(attempt[w] + 1) /\ Exhausted(w)
     \/ /\ ~LastAttempt(attempt[w] + 1)
        /\ attempt' = [attempt EXCEPT ![w] = @ + 1]
        /\ Go(w, LoopStart)
        /\ UNCHANGED <<try, permit>>
  /\ UNCHANGED <<up, breaker, used, tokens, history, troubles>>

(***************************************************************************)
(* The surroundings: outages, deaths, clocks.                              *)
(***************************************************************************)

Outage ==
  /\ up /\ Trouble /\ up' = FALSE
  /\ UNCHANGED <<breaker, used, tokens, at, jobVars, permit, history>>
OutageEnds ==
  /\ ~up /\ up' = TRUE
  /\ UNCHANGED <<breaker, used, tokens, at, jobVars, permit, history, troubles>>

\* SIGTERM or a kill: arq starts the job again.
Die(w) ==
  /\ at[w] # "idle" /\ Trouble
  /\ Go(w, "idle")
  /\ attempt' = [attempt EXCEPT ![w] = 0]
  /\ permit' = [permit EXCEPT ![w] = "none"]
  /\ UNCHANGED <<up, breaker, used, tokens, try, history>>

\* mutant: opened_until in milliseconds, compared with seconds
NotInThisAge == FALSE
CooldownIsOver == opened = "future"

CooldownEnds ==
  /\ CooldownIsOver /\ opened' = "past"
  /\ UNCHANGED <<up, failures, probe, used, tokens, at, jobVars, permit, history, troubles>>

\* The probe's key lives a minute, however long its call takes.
ProbeExpires ==
  /\ probe /\ probe' = FALSE
  /\ UNCHANGED <<up, failures, opened, used, tokens, at, jobVars, permit, history, troubles>>

\* The circuit's key lives six cooldowns after the last failure.
CircuitExpires ==
  /\ opened # "future" /\ failures > 0
  /\ failures' = 0 /\ opened' = "never"
  /\ UNCHANGED <<up, probe, used, tokens, at, jobVars, permit, history, troubles>>

Refill ==
  /\ tokens < Capacity /\ tokens' = tokens + 1
  /\ UNCHANGED <<up, breaker, used, at, jobVars, permit, history, troubles>>

\* Midnight in Seoul: another key counts.  Permits already given stay good.
Midnight ==
  /\ used > 0
  /\ used' = 0 /\ sentToday' = 0
  /\ permit' = [w \in Worker |-> IF permit[w] = "today" THEN "before" ELSE permit[w]]
  /\ UNCHANGED <<up, breaker, tokens, at, jobVars, sentOpen, troubles>>

InRequest(w) ==
  \/ Check(w) \/ TakeProbe(w) \/ AcquirePermit(w) \/ TakeToken(w) \/ Send(w)
  \/ Answered(w) \/ Refused(w) \/ SoftRefused(w) \/ Failed(w)
  \/ Trip(w) \/ Release(w) \/ NextAttempt(w)

InQueue(w) == StartJob(w) \/ DropJob(w)

CallsNext ==
  \/ \E w \in Worker : InQueue(w) \/ InRequest(w) \/ Die(w)
  \/ Outage \/ OutageEnds
  \/ CooldownEnds \/ ProbeExpires \/ CircuitExpires \/ Refill \/ Midnight

\* Jobs that run go on, cron and arq start new ones, outages end, and clocks
\* run.
CallsFairness ==
  /\ \A w \in Worker : WF_callVars(InRequest(w)) /\ WF_callVars(InQueue(w))
  /\ WF_callVars(OutageEnds) /\ WF_callVars(CooldownEnds) /\ WF_callVars(ProbeExpires)
  /\ WF_callVars(Refill) /\ WF_callVars(Midnight)

CallsSpec == CallsInit /\ [][CallsNext]_callVars /\ CallsFairness

\* No more calls are sent in a day than its quota allows, whoever is refused,
\* waits for a token, dies or retries in between; only a permit that waited for
\* a token over midnight is used on another day than it was counted on.
QuotaKept == sentToday <= Quota

\* An open circuit holds: after it has opened (again), each worker sends at most
\* the one call that it had been admitted for before, retries included, although
\* every worker decides on what it read some awaits ago (before_call).
OpenHolds == opened = "future" => \A w \in Worker : sentOpen[w] <= 1

\* A circuit closes again after the last trouble and stays closed, although a
\* probe may die, be refused by the quota or raise without telling the breaker:
\* no probe holds the half-open circuit for ever.
CircuitCloses == <>[](opened = "never")
=============================================================================
