------------------------------ MODULE Payments ------------------------------
(***************************************************************************)
(* One charge at the payment provider and its payment row: _charge and     *)
(* what its callers do with the outcome (billing/service.py), the webhook  *)
(* with reconcile_payment (routers/billing.py), and Toss as the code uses  *)
(* it (billing/toss.py).  An order is a credit pack, asked for by a        *)
(* customer, or a renewal, which the hourly job asks for again under the   *)
(* same order id until the provider answers.                               *)
(*                                                                         *)
(* The row is flushed before the charge and committed after it: until then *)
(* only the unique index on order_id shows it to other sessions.           *)
(***************************************************************************)
EXTENDS Naturals, FiniteSets

CONSTANTS Session,     \* requests and webhook handlers that may run at once
          Order,       \* orders, each of a credit pack or of a renewal
          MaxHooks,    \* bound: undelivered webhooks of an order
          MaxFaults,   \* bound: sessions that die
          LookupFails  \* whether asking Toss for an order may fail

ASSUME PaymentAssumption ==
  /\ MaxHooks \in Nat \ {0} /\ MaxFaults \in Nat
  /\ LookupFails \in BOOLEAN

VARIABLES
  kind,     \* what an order is of
  remote,   \* what Toss knows of an order
  hooks,    \* webhooks it has still to deliver
  row,      \* payments.status, committed; "absent" if there is no row
  outcome,  \* what came of it: "applied" once its credits or its period are there
  pc,       \* where each session is
  order,    \* the order it is about
  seen,     \* the status its Payment object was loaded with
  told,     \* what Toss has answered it
  faults    \* sessions that have died

db == <<row, outcome>>
toss == <<remote, hooks>>
still == <<kind, faults>>
vars == <<kind, remote, hooks, row, outcome, pc, order, seen, told, faults>>

Status == {"absent", "pending", "paid", "failed", "canceled"}
Remote == {"none", "done", "aborted", "canceled"}
Outcome == {"open", "applied", "declined", "dropped"}
Answer == {"done", "odd", "declined", "lost"}
NoOrder == "none"
Steps == {"idle", "looked", "charge", "answered", "hooked", "fetched"}

Pack == {o \in Order : kind[o] = "pack"}
Renewal == {o \in Order : kind[o] = "renewal"}

Init ==
  /\ kind \in [Order -> {"pack", "renewal"}]
  /\ remote = [o \in Order |-> "none"]
  /\ hooks = [o \in Order |-> 0]
  /\ row = [o \in Order |-> "absent"]
  /\ outcome = [o \in Order |-> "open"]
  /\ pc = [s \in Session |-> "idle"]
  /\ order = [s \in Session |-> NoOrder]
  /\ seen = [s \in Session |-> "absent"]
  /\ told = [s \in Session |-> "none"]
  /\ faults = 0

End(s) ==
  /\ pc' = [pc EXCEPT ![s] = "idle"]
  /\ order' = [order EXCEPT ![s] = NoOrder]
  /\ seen' = [seen EXCEPT ![s] = "absent"]
  /\ told' = [told EXCEPT ![s] = "none"]

Goto(s, where) ==
  /\ pc' = [pc EXCEPT ![s] = where]
  /\ UNCHANGED <<order, seen>>

(***************************************************************************)
(* A request: purchase_credits, or the renewal job at one subscription.    *)
(***************************************************************************)

\* Look the order up.  The job looks for the renewals that are due, and its
\* lock on the subscription keeps another job away.
Request(s, o) ==
  /\ pc[s] = "idle"
  /\ o \in Renewal =>
       /\ outcome[o] = "open"
       /\ \A t \in Session : order[t] = o => pc[t] \in {"hooked", "fetched"}
  /\ pc' = [pc EXCEPT ![s] = "looked"]
  /\ order' = [order EXCEPT ![s] = o]
  /\ seen' = [seen EXCEPT ![s] = row[o]]
  /\ UNCHANGED <<db, toss, told, still>>

\* Its uncommitted row holds the order id.
Flushed(s) == pc[s] \in {"charge", "answered"} /\ seen[s] = "absent"

\* The order is paid: no charge, straight to the credits or the new period.
AlreadyPaid(s) ==
  /\ pc[s] = "looked" /\ seen[s] = "paid"
  /\ outcome' = [outcome EXCEPT ![order[s]] = "applied"]
  /\ End(s)
  /\ UNCHANGED <<row, toss, still>>

\* Flush of a new row, or nothing to flush for one that is there.
Flush(s) ==
  /\ pc[s] = "looked" /\ seen[s] # "paid"
  /\ seen[s] = "absent" =>
       row[order[s]] = "absent" /\ ~\E t \in Session \ {s} : Flushed(t) /\ order[t] = order[s]
  /\ Goto(s, "charge")
  /\ UNCHANGED <<db, toss, told, still>>

\* The row has come into being since the look-up: IntegrityError.
FlushConflict(s) ==
  /\ pc[s] = "looked" /\ seen[s] = "absent"
  /\ row[order[s]] # "absent"
  /\ End(s)
  /\ UNCHANGED <<db, toss, still>>

\* Toss sends a webhook when the status of an order changes.
Becomes(o, status) ==
  /\ remote' = [remote EXCEPT ![o] = status]
  /\ hooks' = [hooks EXCEPT ![o] = IF @ < MaxHooks THEN @ + 1 ELSE @]

Told(s, answer) ==
  /\ told' = [told EXCEPT ![s] = answer]
  /\ Goto(s, "answered")

\* An order that was approved is not approved again: its order id is the
\* Idempotency-Key, the answer is repeated.
Approved(o) == remote[o] \in {"done", "canceled"}

Approve(s) ==
  /\ pc[s] = "charge"
  /\ IF Approved(order[s]) THEN UNCHANGED toss ELSE Becomes(order[s], "done")
  /\ Told(s, "done")
  /\ UNCHANGED <<db, still>>

\* A timeout, a network error or a 5xx, before Toss did anything or after.
Lose(s) ==
  /\ pc[s] = "charge"
  /\ \/ UNCHANGED toss
     \/ ~Approved(order[s]) /\ Becomes(order[s], "done")
  /\ Told(s, "lost")
  /\ UNCHANGED <<db, still>>

\* A 200 whose status is not DONE.
Odd(s) ==
  /\ pc[s] = "charge"
  /\ UNCHANGED toss
  /\ Told(s, "odd")
  /\ UNCHANGED <<db, still>>

Decline(s) ==
  /\ pc[s] = "charge" /\ ~Approved(order[s])
  /\ \/ UNCHANGED toss
     \/ remote[order[s]] = "none" /\ Becomes(order[s], "aborted")
  /\ Told(s, "declined")
  /\ UNCHANGED <<db, still>>

\* The status a session writes when its Payment object changes to new: none
\* if it shows that status already.
Store(s, new) ==
  row' = IF seen[s] = new THEN row ELSE [row EXCEPT ![order[s]] = new]

\* The charge returned: the row says paid only if it is DONE, but the credits
\* or the period are applied either way, in one commit.
\* mutant: the payment is committed and the credits are forgotten
ChargedOnly(s) ==
  /\ pc[s] = "answered" /\ told[s] \in {"done", "odd"}
  /\ Store(s, IF told[s] = "done" THEN "paid" ELSE "failed")
  /\ End(s)
  /\ UNCHANGED <<outcome, toss, still>>
Charged(s) ==
  /\ pc[s] = "answered" /\ told[s] \in {"done", "odd"}
  /\ Store(s, IF told[s] = "done" THEN "paid" ELSE "failed")
  /\ outcome' = [outcome EXCEPT ![order[s]] = "applied"]
  /\ End(s)
  /\ UNCHANGED <<toss, still>>

\* PaymentDeclinedError: the failed row is committed; the job will try the
\* renewal again under another order id.
Declined(s) ==
  /\ pc[s] = "answered" /\ told[s] = "declined"
  /\ Store(s, "failed")
  /\ outcome' = [outcome EXCEPT ![order[s]] = IF order[s] \in Renewal THEN "declined" ELSE @]
  /\ End(s)
  /\ UNCHANGED <<toss, still>>

\* mutant: the order is given up, the next hour asks under another id
UnavailableDeclined(s) ==
  /\ pc[s] = "answered" /\ told[s] = "lost"
  /\ Store(s, "failed")
  /\ outcome' = [outcome EXCEPT ![order[s]] = IF order[s] \in Renewal THEN "declined" ELSE @]
  /\ End(s)
  /\ UNCHANGED <<toss, still>>
\* PaymentUnavailableError: a new row is committed as pending, another stays.
Unavailable(s) ==
  /\ pc[s] = "answered" /\ told[s] = "lost"
  /\ row' = IF seen[s] = "absent" THEN [row EXCEPT ![order[s]] = "pending"] ELSE row
  /\ End(s)
  /\ UNCHANGED <<outcome, toss, still>>

(***************************************************************************)
(* The webhook: whatever happens it answers 200, except when it dies.      *)
(***************************************************************************)

Deliver(s, o) ==
  /\ pc[s] = "idle" /\ hooks[o] > 0
  /\ hooks' = [hooks EXCEPT ![o] = @ - 1]
  /\ pc' = [pc EXCEPT ![s] = "hooked"]
  /\ order' = [order EXCEPT ![s] = o]
  /\ seen' = [seen EXCEPT ![s] = row[o]]
  /\ UNCHANGED <<db, remote, told, still>>

\* No row, no payment at Toss, or no answer from it.
Ignore(s) ==
  /\ pc[s] = "hooked"
  /\ seen[s] = "absent" \/ remote[order[s]] = "none" \/ LookupFails
  /\ End(s)
  /\ UNCHANGED <<db, toss, still>>

Fetch(s) ==
  /\ pc[s] = "hooked" /\ seen[s] # "absent" /\ remote[order[s]] # "none"
  /\ told' = [told EXCEPT ![s] = remote[order[s]]]
  /\ Goto(s, "fetched")
  /\ UNCHANGED <<db, toss, still>>

\* reconcile_payment.  It knows what a credit pack bought; what a renewal
\* bought it leaves to the job.
\* mutant: the webhook is believed without asking Toss
ReconcileHint(s) ==
  /\ pc[s] = "hooked" /\ seen[s] # "absent"
  /\ row' = [row EXCEPT ![order[s]] = "paid"]
  /\ outcome' = [outcome EXCEPT ![order[s]] = IF order[s] \in Pack THEN "applied" ELSE @]
  /\ End(s)
  /\ UNCHANGED <<toss, still>>
\* mutant: the word of Toss for an order that failed is stored as it is
ReconcileVerbatim(s) ==
  /\ pc[s] = "fetched"
  /\ \/ /\ told[s] = "done" /\ seen[s] # "paid"
        /\ row' = [row EXCEPT ![order[s]] = "paid"]
        /\ outcome' = [outcome EXCEPT ![order[s]] = IF order[s] \in Pack THEN "applied" ELSE @]
     \/ /\ told[s] \in {"canceled", "aborted"} /\ seen[s] = "pending"
        /\ row' = [row EXCEPT ![order[s]] = told[s]]
        /\ UNCHANGED outcome
     \/ /\ IF told[s] = "done" THEN seen[s] = "paid" ELSE seen[s] # "pending"
        /\ UNCHANGED db
  /\ End(s)
  /\ UNCHANGED <<toss, still>>
Reconcile(s) ==
  /\ pc[s] = "fetched"
  /\ \/ /\ told[s] = "done" /\ seen[s] # "paid"
        /\ row' = [row EXCEPT ![order[s]] = "paid"]
        /\ outcome' = [outcome EXCEPT ![order[s]] = IF order[s] \in Pack THEN "applied" ELSE @]
     \/ /\ told[s] \in {"canceled", "aborted"} /\ seen[s] = "pending"
        /\ row' = [row EXCEPT ![order[s]] = IF told[s] = "canceled" THEN "canceled" ELSE "failed"]
        /\ UNCHANGED outcome
     \/ /\ IF told[s] = "done" THEN seen[s] = "paid" ELSE seen[s] # "pending"
        /\ UNCHANGED db
  /\ End(s)
  /\ UNCHANGED <<toss, still>>

(***************************************************************************)
(* The environment.                                                        *)
(***************************************************************************)

\* The merchant cancels an approved payment at Toss.
Cancel(o) ==
  /\ remote[o] = "done"
  /\ Becomes(o, "canceled")
  /\ UNCHANGED <<db, pc, order, seen, told, still>>

\* The customer cancels or changes the plan: the job does not ask again.
Drop(o) ==
  /\ o \in Renewal /\ outcome[o] = "open"
  /\ outcome' = [outcome EXCEPT ![o] = "dropped"]
  /\ UNCHANGED <<toss, row, pc, order, seen, told, still>>

\* The process dies or the client goes away: rollback.  Toss repeats a webhook
\* that was not answered.
Crash(s) ==
  /\ pc[s] # "idle"
  /\ faults < MaxFaults /\ faults' = faults + 1
  /\ hooks' = [hooks EXCEPT ![order[s]] =
                 IF pc[s] \in {"hooked", "fetched"} /\ @ < MaxHooks THEN @ + 1 ELSE @]
  /\ End(s)
  /\ UNCHANGED <<db, remote, kind>>

Answered(s) == Charged(s) \/ Declined(s) \/ Unavailable(s)
Progress(s) ==
  \/ AlreadyPaid(s) \/ Flush(s) \/ FlushConflict(s)
  \/ Approve(s) \/ Lose(s) \/ Odd(s) \/ Decline(s) \/ Answered(s)
  \/ Ignore(s) \/ Fetch(s) \/ Reconcile(s)

Next ==
  \/ \E s \in Session :
       \/ \E o \in Order : Request(s, o) \/ Deliver(s, o)
       \/ Progress(s) \/ Crash(s)
  \/ \E o \in Order : Cancel(o) \/ Drop(o)

Spec == Init /\ [][Next]_vars

\* Sessions are resumed, webhooks are delivered, the job comes round every hour
\* whoever else asks for a session, and Toss, asked again and again, answers.
Fairness ==
  /\ \A s \in Session : WF_vars(Progress(s)) /\ SF_vars(Approve(s))
  /\ \A o \in Order :
       /\ SF_vars(o \in Renewal /\ \E s \in Session : Request(s, o))
       /\ WF_vars(\E s \in Session : Deliver(s, o))

FairSpec == Spec /\ Fairness

-----------------------------------------------------------------------------
(***************************************************************************)
(* Properties.                                                             *)
(***************************************************************************)

TypeOK ==
  /\ kind \in [Order -> {"pack", "renewal"}]
  /\ remote \in [Order -> Remote]
  /\ hooks \in [Order -> 0 .. MaxHooks]
  /\ row \in [Order -> Status]
  /\ outcome \in [Order -> Outcome]
  /\ pc \in [Session -> Steps]
  /\ order \in [Session -> Order \cup {NoOrder}]
  /\ seen \in [Session -> Status]
  /\ told \in [Session -> Answer \cup Remote]
  /\ faults \in 0 .. MaxFaults

\* Credits are not given away: a row says paid only if Toss has approved the
\* order, and what it pays for is applied only then, however many requests,
\* webhooks, declines and crashes race.  There is one exception, and its row says
\* failed: the callers of _charge do not look whether a 200 was DONE.
AppliedIsApproved ==
  \A o \in Order :
    /\ row[o] = "paid" => Approved(o)
    /\ outcome[o] = "applied" => Approved(o) \/ row[o] = "failed"

\* A credit pack whose row says paid has been credited: whoever stores the
\* status stores the credits with it.
PaidIsCredited == \A o \in Pack : row[o] = "paid" => outcome[o] = "applied"

\* A renewal that Toss has approved starts its period in the end, although
\* answers get lost, webhooks pay the row first and processes die, unless the
\* customer leaves the plan before the job has heard of it.
RenewalsApplied ==
  \A o \in Order : o \in Renewal /\ remote[o] = "done" ~> outcome[o] \in {"applied", "dropped"}

\* A credit pack that Toss has approved, and that is not canceled, is credited
\* in the end: the webhook or the reconcile job sees to it.
PacksCredited ==
  \A o \in Order : o \in Pack /\ remote[o] = "done" ~> (outcome[o] = "applied" \/ remote[o] = "canceled")
=============================================================================
