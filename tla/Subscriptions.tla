---------------------------- MODULE Subscriptions ----------------------------
(***************************************************************************)
(* The subscription of one organisation from signup on: plan changes asked *)
(* for in the API, the hourly job that renews, and dunning                 *)
(* (billing/service.py).  Payments has one order in detail, CreditLedger   *)
(* the movements; here an order is what the provider said of it, and a     *)
(* grant is there or has been expired.                                     *)
(*                                                                         *)
(* change_plan reads the subscription without a lock and writes it after   *)
(* the charge: only the columns whose value is another than the one it     *)
(* read are in its UPDATE.  renew_due holds the row from its SELECT ... FOR*)
(* UPDATE to the commit.  A payment row that is being inserted locks the   *)
(* organisation FOR KEY SHARE, and a grant locks it FOR UPDATE: a renewal  *)
(* and a plan change that have both been paid wait for each other, and the *)
(* database aborts one of them.                                            *)
(***************************************************************************)
EXTENDS Integers, Sequences, FiniteSets

CONSTANTS PlanRequest,      \* Idempotency-Key values of POST /api/billing/plan
          PaidPlan,     \* plans that have a price
          Month,        \* days of a period
          DunningDays,  \* DUNNING_SCHEDULE_DAYS
          LastDay,      \* bound: days that pass
          MaxMishaps    \* bound: answers lost and processes that die

ASSUME BillingAssumption ==
  /\ "free" \notin PaidPlan /\ {"signup", "renewal"} \cap PlanRequest = {}
  /\ Month \in Nat \ {0} /\ LastDay \in Nat \ {0} /\ MaxMishaps \in Nat
  /\ DunningDays \in Seq(1 .. Month)

VARIABLES
  today,     \* the day it is
  record,    \* the row of subscriptions
  approved,  \* orders Toss has approved: the money is taken
  refused,   \* orders Toss has declined
  paid,      \* orders with a committed payment row that says paid
  grants,    \* plan grants in the ledger: the plan and the period
  closed,    \* periods whose plan credits have been expired
  renewal,   \* what the renewal job is doing with the subscription
  change,    \* where each request is, for which plan, and the row it has read
  mishaps    \* how many there were

charges == <<approved, refused>>
billed == <<paid, grants, closed>>
subscriptionVars == <<today, record, charges, billed, renewal, change, mishaps>>

Never == 0
Plans == PaidPlan \cup {"free"}

\* A period is known by its day and by what began it (period_key has second
\* precision); it ends a month later.
Period == [from : 0 .. LastDay, by : PlanRequest \cup {"signup", "renewal"}]
EndOf(period) == period.from + Month

Columns == {"plan", "status", "period", "next", "left", "failed"}
Subscription ==
  [plan : Plans, status : {"active", "past_due", "canceled"}, period : Period,
   next : 0 .. LastDay + Month, left : BOOLEAN, failed : Nat]
Change ==
  [at : {"new", "loaded", "asking", "approved", "declined", "unknown", "answered"},
   plan : Plans, seen : Subscription]

\* The orders: one of a request, one of each attempt to renew a period.
ChangeOrder(r, plan) == [plan |-> plan, for |-> [from |-> 0, by |-> r], attempt |-> 0]
RenewalOrder == [plan |-> record.plan, for |-> record.period, attempt |-> record.failed + 1]

\* Types; no period begins in the future.
SubscriptionTypeOK ==
  /\ today \in 1 .. LastDay
  /\ record \in Subscription /\ record.period.from <= today
  /\ approved \cap refused = {} /\ paid \subseteq approved
  /\ grants \subseteq [plan : Plans, period : Period]
  /\ closed \subseteq {g.period : g \in grants}
  /\ renewal \in {"off", "asking", "approved", "declined", "unknown"}
  /\ change \in [PlanRequest -> Change]
  /\ mishaps \in 0 .. MaxMishaps

\* auth.signup: the free plan with its period and its grant.
SubscriptionInit ==
  /\ today = 1
  /\ record = [plan |-> "free", status |-> "active", period |-> [from |-> 1, by |-> "signup"],
               next |-> Never, left |-> FALSE, failed |-> 0]
  /\ approved = {} /\ refused = {} /\ paid = {}
  /\ grants = {[plan |-> "free", period |-> record.period]}
  /\ closed = {}
  /\ renewal = "off"
  /\ change \in [PlanRequest -> [at : {"new"}, plan : Plans, seen : {record}]]
  /\ mishaps = 0

(***************************************************************************)
(* What Toss says to a charge.  An order is charged once: its idempotency  *)
(* key repeats the answer.  An answer that does not arrive leaves it open  *)
(* whether there was a charge.                                             *)
(***************************************************************************)
Says(order, answer) ==
  /\ approved' = IF answer = "approved" THEN approved \cup {order} ELSE approved
  /\ refused' = IF answer = "declined" THEN refused \cup {order} ELSE refused
  /\ answer = "approved" => order \notin refused
  /\ answer = "declined" => order \notin approved

Hears(order, answer, heard) ==
  /\ Says(order, answer)
  /\ \/ heard = answer /\ UNCHANGED mishaps
     \/ heard = "unknown" /\ mishaps < MaxMishaps /\ mishaps' = mishaps + 1

(***************************************************************************)
(* start_period, and the UPDATE of a session that has read the row before. *)
(***************************************************************************)
NewPeriod(plan, period) ==
  [plan |-> plan, status |-> "active", period |-> period, next |-> EndOf(period),
   left |-> FALSE, failed |-> 0]

\* mutant: every column is written, as the session remembers it
WriteAll(seen, new) == new
WriteChanged(seen, new) == [c \in Columns |-> IF new[c] = seen[c] THEN record[c] ELSE new[c]]

(***************************************************************************)
(* change_plan.                                                            *)
(***************************************************************************)
At(r, place) == change' = [change EXCEPT ![r].at = place]
RowLocked == renewal # "off"

\* The free plan: the subscription is left at the end of its period.
Leave(r) ==
  /\ change[r].at = "new" /\ change[r].plan = "free"
  /\ ~RowLocked
  /\ record' = [record EXCEPT !.left = TRUE]
  /\ At(r, "answered")
  /\ UNCHANGED <<today, charges, billed, renewal, mishaps>>

Load(r) ==
  /\ change[r].at = "new" /\ change[r].plan \in PaidPlan
  /\ change' = [change EXCEPT ![r].at = "loaded", ![r].seen = record]
  /\ UNCHANGED <<today, record, charges, billed, renewal, mishaps>>

\* The request has been paid and applied: a double click.  Otherwise the
\* payment row is flushed and Toss is asked.
Ask(r) ==
  LET applied == ChangeOrder(r, change[r].plan) \in paid /\ change[r].seen.plan = change[r].plan
  IN /\ change[r].at = "loaded"
     /\ At(r, IF applied THEN "answered" ELSE "asking")
     /\ UNCHANGED <<today, record, charges, billed, renewal, mishaps>>

TossAnswers(r) ==
  /\ change[r].at = "asking"
  /\ \E answer \in {"approved", "declined", "none"}, heard \in {"approved", "declined", "unknown"} :
       /\ Hears(ChangeOrder(r, change[r].plan), answer, heard)
       /\ At(r, heard)
  /\ UNCHANGED <<today, record, billed, renewal>>

\* 402 commits the failed payment row; 503 a pending one, and the client may
\* ask again with the same key.
NotPaid(r) ==
  /\ change[r].at \in {"declined", "unknown"}
  /\ At(r, IF change[r].at = "declined" THEN "answered" ELSE "new")
  /\ UNCHANGED <<today, record, charges, billed, renewal, mishaps>>

\* The period that was read is closed and another one begins.
Apply(r) ==
  LET plan == change[r].plan
      seen == change[r].seen
      period == [from |-> today, by |-> r]
  IN /\ change[r].at = "approved"
     /\ ~RowLocked
     /\ record' = WriteChanged(seen, NewPeriod(plan, period))
     /\ paid' = paid \cup {ChangeOrder(r, plan)}
     /\ grants' = grants \cup {[plan |-> plan, period |-> period]}
     /\ closed' = closed \cup {seen.period}
     /\ At(r, "answered")
     /\ UNCHANGED <<today, charges, renewal, mishaps>>

(***************************************************************************)
(* renew_due.                                                              *)
(***************************************************************************)

\* mutant: a subscription that is past due is not looked at
DueActive == record.status = "active" /\ record.next # Never /\ record.next <= today
Due == record.status \in {"active", "past_due"} /\ record.next # Never /\ record.next <= today

Lapsed == [record EXCEPT !.plan = "free", !.status = "canceled", !.next = Never]

\* The customer has left: the period is closed and not renewed.
Expire ==
  /\ renewal = "off" /\ Due /\ record.left
  /\ record' = Lapsed
  /\ closed' = closed \cup {record.period}
  /\ UNCHANGED <<today, charges, paid, grants, renewal, change, mishaps>>

StartRenewal ==
  /\ renewal = "off" /\ Due /\ ~record.left
  /\ renewal' = "asking"
  /\ UNCHANGED <<today, record, charges, billed, change, mishaps>>

RenewalAnswer ==
  /\ renewal = "asking"
  /\ \E answer \in {"approved", "declined", "none"}, heard \in {"approved", "declined", "unknown"} :
       /\ Hears(RenewalOrder, answer, heard)
       /\ renewal' = heard
  /\ UNCHANGED <<today, record, billed, change>>

\* The plan change that keeps the organisation's row from the grant.
Holding(r) == change[r].at \in {"asking", "approved", "declined", "unknown"}

\* A period that was renewed late starts a day ago at the earliest.
\* mutant: the day after
RenewedAfter(due) == IF due >= today - 1 THEN due + 1 ELSE today
RenewedFrom(due) == IF due >= today - 1 THEN due ELSE today - 1

Renew ==
  LET period == [from |-> RenewedFrom(EndOf(record.period)), by |-> "renewal"]
  IN /\ renewal = "approved"
     /\ ~\E r \in PlanRequest : Holding(r)
     /\ record' = NewPeriod(record.plan, period)
     /\ paid' = paid \cup {RenewalOrder}
     /\ grants' = grants \cup {[plan |-> record.plan, period |-> period]}
     /\ closed' = closed \cup {record.period}
     /\ renewal' = "off"
     /\ UNCHANGED <<today, charges, change, mishaps>>

\* Dunning: try again after some days, then give up.  The period of a
\* subscription that is given up is not closed.

Attempt == record.failed + 1

RenewalDeclined ==
  /\ renewal = "declined"
  /\ record' = IF Attempt > Len(DunningDays)
               THEN [Lapsed EXCEPT !.failed = Attempt]
               ELSE [record EXCEPT !.status = "past_due", !.failed = Attempt,
                                   !.next = today + DunningDays[Attempt]]
  /\ renewal' = "off"
  /\ UNCHANGED <<today, charges, billed, change, mishaps>>

\* mutant: no answer counts as a refusal
CountedAttempt == [record EXCEPT !.failed = Attempt]
SameAttempt == record

RenewalUnknown ==
  /\ renewal = "unknown"
  /\ record' = SameAttempt
  /\ renewal' = "off"
  /\ UNCHANGED <<today, charges, billed, change, mishaps>>

(***************************************************************************)
(* The process dies before its commit, or is the deadlock's victim.        *)
(***************************************************************************)
AbortRenewal == renewal # "off" /\ renewal' = "off" /\ UNCHANGED change

\* The client may ask again with the same key.
DieBilling ==
  /\ mishaps < MaxMishaps /\ mishaps' = mishaps + 1
  /\ \/ AbortRenewal
     \/ \E r \in PlanRequest :
          change[r].at \notin {"new", "answered"} /\ At(r, "new") /\ UNCHANGED renewal
  /\ UNCHANGED <<today, record, charges, billed>>

BreakDeadlock ==
  /\ renewal = "approved"
  /\ \E r \in PlanRequest :
       /\ change[r].at = "approved"
       /\ \/ At(r, "answered") /\ UNCHANGED renewal
          \/ AbortRenewal
  /\ UNCHANGED <<today, record, charges, billed, mishaps>>

NextMorning ==
  /\ today < LastDay
  /\ today' = today + 1
  /\ UNCHANGED <<record, charges, billed, renewal, change, mishaps>>

RenewalStep ==
  Expire \/ StartRenewal \/ RenewalAnswer \/ Renew \/ RenewalDeclined \/ RenewalUnknown

ChangeStep(r) == Leave(r) \/ Load(r) \/ Ask(r) \/ TossAnswers(r) \/ NotPaid(r) \/ Apply(r)

SubscriptionNext ==
  \/ \E r \in PlanRequest : ChangeStep(r)
  \/ RenewalStep
  \/ BreakDeadlock
  \/ DieBilling
  \/ NextMorning

\* The job runs every hour, a request that has begun goes on to its end, and
\* one that waits for the job's locks gets them before the next job does.
SubscriptionFairness ==
  /\ WF_subscriptionVars(RenewalStep)
  /\ \A r \in PlanRequest :
       /\ WF_subscriptionVars(change[r].at # "new" /\ ChangeStep(r))
       /\ SF_subscriptionVars(Apply(r))
  /\ WF_subscriptionVars(BreakDeadlock)

SubscriptionSpec ==
  SubscriptionInit /\ [][SubscriptionNext]_subscriptionVars /\ SubscriptionFairness

\* A period is renewed, and a request is charged, once: whatever was lost,
\* repeated, declined or killed on the way, Toss has approved at most one of
\* the orders that are for the same thing (order ids of renew_due, change_plan).
RenewedOnce == \A p, q \in approved : p.for = q.for => p = q

\* A subscription whose day has come, past due or not, is renewed, put off or
\* given up in the end: no day stays the next one for ever (renew_due).
DueIsSettled ==
  \A d \in 1 .. LastDay :
    /\ record.status \in {"active", "past_due"} /\ record.next = d /\ d <= today
    ~> record.next # d

\* Every plan grant but the running period's expires: the free plan is the
\* free plan (plans.py: credits granted by a plan expire at the period's end).
\* It is in no run, for it does not hold: the last declined renewal closes nothing.
PlanCreditsEnd ==
  record.status = "canceled" => \A g \in grants : g.period \in closed

\* What has been paid for is what the organisation gets.  It is in no run, for it
\* does not hold: a change writes only what differs from the row it has read.
PaidIsServed ==
  [][\A r \in PlanRequest :
       Apply(r) => record'.plan = change[r].plan /\ record'.status = "active"]_subscriptionVars
=============================================================================
