--------------------------- MODULE Billing_proofs ---------------------------
(***************************************************************************)
(* Proofs about billing: the payments at Toss, for every set of sessions,  *)
(* of credit packs and of renewals, and the subscriptions, for any         *)
(* requests, plans, length of a period and schedule of dunning within a    *)
(* period.                                                                 *)
(***************************************************************************)
EXTENDS Payments, Subscriptions, TLAPS

(***************************************************************************)
(* Payments.  The invariant the proofs rest on says what a session that is *)
(* under way may believe: whoever has seen a paid row, or has been told    *)
(* that the order is done, is right that Toss has approved it, and an      *)
(* approval is never taken back (a canceled payment stays an approved one).*)
(***************************************************************************)

\* What a session believes of an approval of its order is right.
Sound ==
  \A s \in Session :
    /\ pc[s] # "idle" => order[s] \in Order
    /\ pc[s] # "idle" /\ seen[s] = "paid" => Approved(order[s])
    /\ pc[s] \in {"answered", "fetched"} /\ told[s] \in {"done", "canceled"} =>
         Approved(order[s])

\* What it believes of the row: a row that was there stays, one that has failed
\* is never pending again, and the session that has flushed a new one is alone.
RowsSeen ==
  \A s \in Session :
    /\ pc[s] # "idle" /\ seen[s] # "absent" => row[order[s]] # "absent"
    /\ pc[s] # "idle" /\ seen[s] = "failed" => row[order[s]] \in {"failed", "paid", "canceled"}
    /\ pc[s] = "fetched" => seen[s] # "absent"
    /\ Flushed(s) => row[order[s]] = "absent"
    /\ \A t \in Session : Flushed(s) /\ Flushed(t) /\ order[s] = order[t] => s = t

Honest ==
  \A o \in Order :
    /\ row[o] \in {"paid", "canceled"} => Approved(o)
    /\ outcome[o] = "applied" => Approved(o) \/ row[o] = "failed"

Inv == TypeOK /\ Sound /\ RowsSeen /\ Honest /\ PaidIsCredited

-----------------------------------------------------------------------------
\* The initial states satisfy the invariant.
LEMMA InitInv == Init => Inv
<1> SUFFICES ASSUME Init  PROVE Inv
  OBVIOUS
<1>1. TypeOK
  BY PaymentAssumption DEF Init, TypeOK, Remote, Status, Outcome, Steps, Answer
<1>2. Sound
  BY DEF Init, Sound
<1>3. RowsSeen /\ Honest /\ PaidIsCredited
  BY DEF Init, RowsSeen, Flushed, Honest, PaidIsCredited, Pack
<1>. QED  BY <1>1, <1>2, <1>3 DEF Inv

-----------------------------------------------------------------------------
(* Every action keeps it. *)

LEMMA AlreadyPaidKeeps ==
  ASSUME Inv, NEW s \in Session, AlreadyPaid(s)
  PROVE  Inv'
<1>. USE PaymentAssumption DEF Inv
<1>1. TypeOK'
  BY DEF TypeOK, AlreadyPaid, End, toss, still, Remote, Status, Outcome, Steps, Answer
<1>2. Sound'
  BY DEF TypeOK, Sound, Approved, AlreadyPaid, End, toss, still
<1>3. Honest'
  BY DEF TypeOK, Sound, RowsSeen, Honest, Approved, AlreadyPaid, End, toss, still
<1>4. PaidIsCredited'
  BY DEF TypeOK, PaidIsCredited, AlreadyPaid, End, toss, still, Pack
<1>5. RowsSeen'
  BY DEF TypeOK, Sound, RowsSeen, Flushed, AlreadyPaid, End, toss, still
<1>. QED  BY <1>1, <1>2, <1>3, <1>4, <1>5

LEMMA FlushKeeps ==
  ASSUME Inv, NEW s \in Session, Flush(s)
  PROVE  Inv'
<1>. USE PaymentAssumption DEF Inv
<1>1. TypeOK'
  BY DEF TypeOK, Flush, Goto, Flushed, db, toss, still, Remote, Status, Outcome, Steps, Answer
<1>2. Sound'
  BY DEF TypeOK, Sound, Approved, Flush, Goto, Flushed, db, toss, still
<1>3. Honest'
  BY DEF TypeOK, Sound, RowsSeen, Honest, Approved, Flush, Goto, Flushed, db, toss, still
<1>4. PaidIsCredited'
  BY DEF TypeOK, PaidIsCredited, Flush, Goto, Flushed, db, toss, still, Pack
<1>5. RowsSeen'
  BY DEF TypeOK, Sound, RowsSeen, Flush, Goto, Flushed, db, toss, still
<1>. QED  BY <1>1, <1>2, <1>3, <1>4, <1>5

LEMMA FlushConflictKeeps ==
  ASSUME Inv, NEW s \in Session, FlushConflict(s)
  PROVE  Inv'
<1>. USE PaymentAssumption DEF Inv
<1>1. TypeOK'
  BY DEF TypeOK, FlushConflict, End, db, toss, still, Remote, Status, Outcome, Steps, Answer
<1>2. Sound'
  BY DEF TypeOK, Sound, Approved, FlushConflict, End, db, toss, still
<1>3. Honest'
  BY DEF TypeOK, Sound, RowsSeen, Honest, Approved, FlushConflict, End, db, toss, still
<1>4. PaidIsCredited'
  BY DEF TypeOK, PaidIsCredited, FlushConflict, End, db, toss, still, Pack
<1>5. RowsSeen'
  BY DEF TypeOK, Sound, RowsSeen, Flushed, FlushConflict, End, db, toss, still
<1>. QED  BY <1>1, <1>2, <1>3, <1>4, <1>5

LEMMA ApproveKeeps ==
  ASSUME Inv, NEW s \in Session, Approve(s)
  PROVE  Inv'
<1>. USE PaymentAssumption DEF Inv
<1>1. TypeOK'
  BY DEF TypeOK, Approve, Told, Goto, Becomes, db, toss, still, Remote, Status, Outcome, Steps, Answer
<1>2. Sound'
  BY DEF TypeOK, Sound, Approved, Approve, Told, Goto, Becomes, db, toss, still
<1>3. Honest'
  BY DEF TypeOK, Sound, RowsSeen, Honest, Approved, Approve, Told, Goto, Becomes, db, toss, still
<1>4. PaidIsCredited'
  BY DEF TypeOK, PaidIsCredited, Approve, Told, Goto, Becomes, db, toss, still, Pack
<1>5. RowsSeen'
  BY DEF TypeOK, Sound, RowsSeen, Flushed, Approve, Told, Goto, Becomes, db, toss, still
<1>. QED  BY <1>1, <1>2, <1>3, <1>4, <1>5

LEMMA LoseKeeps ==
  ASSUME Inv, NEW s \in Session, Lose(s)
  PROVE  Inv'
<1>. USE PaymentAssumption DEF Inv
<1>1. TypeOK'
  BY DEF TypeOK, Lose, Told, Goto, Becomes, db, toss, still, Remote, Status, Outcome, Steps, Answer
<1>2. Sound'
  BY DEF TypeOK, Sound, Approved, Lose, Told, Goto, Becomes, db, toss, still
<1>3. Honest'
  BY DEF TypeOK, Sound, RowsSeen, Honest, Approved, Lose, Told, Goto, Becomes, db, toss, still
<1>4. PaidIsCredited'
  BY DEF TypeOK, PaidIsCredited, Lose, Told, Goto, Becomes, db, toss, still, Pack
<1>5. RowsSeen'
  BY DEF TypeOK, Sound, RowsSeen, Flushed, Lose, Told, Goto, Becomes, db, toss, still
<1>. QED  BY <1>1, <1>2, <1>3, <1>4, <1>5

LEMMA DeclineKeeps ==
  ASSUME Inv, NEW s \in Session, Decline(s)
  PROVE  Inv'
<1>. USE PaymentAssumption DEF Inv
<1>1. TypeOK'
  BY DEF TypeOK, Decline, Told, Goto, Becomes, db, toss, still, Remote, Status, Outcome, Steps, Answer
<1>2. Sound'
  BY DEF TypeOK, Sound, Approved, Decline, Told, Goto, Becomes, db, toss, still
<1>3. Honest'
  BY DEF TypeOK, Sound, RowsSeen, Honest, Approved, Decline, Told, Goto, Becomes, db, toss, still
<1>4. PaidIsCredited'
  BY DEF TypeOK, PaidIsCredited, Decline, Told, Goto, Becomes, db, toss, still, Pack
<1>5. RowsSeen'
  BY DEF TypeOK, Sound, RowsSeen, Flushed, Decline, Told, Goto, Becomes, db, toss, still
<1>. QED  BY <1>1, <1>2, <1>3, <1>4, <1>5

LEMMA OddKeeps ==
  ASSUME Inv, NEW s \in Session, Odd(s)
  PROVE  Inv'
<1>. USE PaymentAssumption DEF Inv
<1>1. TypeOK'
  BY DEF TypeOK, Odd, Told, Goto, db, toss, still, Remote, Status, Outcome, Steps, Answer
<1>2. Sound'
  BY DEF TypeOK, Sound, Approved, Odd, Told, Goto, db, toss, still
<1>3. Honest'
  BY DEF TypeOK, Sound, RowsSeen, Honest, Approved, Odd, Told, Goto, db, toss, still
<1>4. PaidIsCredited'
  BY DEF TypeOK, PaidIsCredited, Odd, Told, Goto, db, toss, still, Pack
<1>5. RowsSeen'
  BY DEF TypeOK, Sound, RowsSeen, Flushed, Odd, Told, Goto, db, toss, still
<1>. QED  BY <1>1, <1>2, <1>3, <1>4, <1>5

LEMMA ChargedKeeps ==
  ASSUME Inv, NEW s \in Session, Charged(s)
  PROVE  Inv'
<1>. USE PaymentAssumption DEF Inv
<1>1. TypeOK'
  BY DEF TypeOK, Charged, End, Store, toss, still, Remote, Status, Outcome, Steps, Answer
<1>2. Sound'
  BY DEF TypeOK, Sound, Approved, Charged, End, Store, toss, still
<1>3. Honest'
  BY DEF TypeOK, Sound, RowsSeen, Honest, Approved, Charged, End, Store, toss, still
<1>4. PaidIsCredited'
  BY DEF TypeOK, PaidIsCredited, Charged, End, Store, toss, still, Pack
<1>5. RowsSeen'
  BY DEF TypeOK, Sound, RowsSeen, Flushed, Charged, End, Store, toss, still
<1>. QED  BY <1>1, <1>2, <1>3, <1>4, <1>5

LEMMA DeclinedKeeps ==
  ASSUME Inv, NEW s \in Session, Declined(s)
  PROVE  Inv'
<1>. USE PaymentAssumption DEF Inv
<1>1. TypeOK'
  BY DEF TypeOK, Declined, End, Store, toss, still, Remote, Status, Outcome, Steps, Answer
<1>2. Sound'
  BY DEF TypeOK, Sound, Approved, Declined, End, Store, toss, still
<1>3. Honest'
  BY DEF TypeOK, Sound, RowsSeen, Honest, Approved, Declined, End, Store, toss, still
<1>4. PaidIsCredited'
  BY DEF TypeOK, PaidIsCredited, Declined, End, Store, toss, still, Pack, Renewal
<1>5. RowsSeen'
  BY DEF TypeOK, Sound, RowsSeen, Flushed, Declined, End, Store, toss, still
<1>. QED  BY <1>1, <1>2, <1>3, <1>4, <1>5

LEMMA UnavailableKeeps ==
  ASSUME Inv, NEW s \in Session, Unavailable(s)
  PROVE  Inv'
<1>. USE PaymentAssumption DEF Inv
<1>1. TypeOK'
  BY DEF TypeOK, Unavailable, End, toss, still, Remote, Status, Outcome, Steps, Answer
<1>2. Sound'
  BY DEF TypeOK, Sound, Approved, Unavailable, End, toss, still
<1>3. Honest'
  BY DEF TypeOK, Sound, RowsSeen, Honest, Approved, Flushed, Unavailable, End, toss, still
<1>4. PaidIsCredited'
  BY DEF TypeOK, PaidIsCredited, Unavailable, End, toss, still, Pack
<1>5. RowsSeen'
  BY DEF TypeOK, Sound, RowsSeen, Flushed, Unavailable, End, toss, still
<1>. QED  BY <1>1, <1>2, <1>3, <1>4, <1>5

LEMMA IgnoreKeeps ==
  ASSUME Inv, NEW s \in Session, Ignore(s)
  PROVE  Inv'
<1>. USE PaymentAssumption DEF Inv
<1>1. TypeOK'
  BY DEF TypeOK, Ignore, End, db, toss, still, Remote, Status, Outcome, Steps, Answer
<1>2. Sound'
  BY DEF TypeOK, Sound, Approved, Ignore, End, db, toss, still
<1>3. Honest'
  BY DEF TypeOK, Sound, RowsSeen, Honest, Approved, Ignore, End, db, toss, still
<1>4. PaidIsCredited'
  BY DEF TypeOK, PaidIsCredited, Ignore, End, db, toss, still, Pack
<1>5. RowsSeen'
  BY DEF TypeOK, Sound, RowsSeen, Flushed, Ignore, End, db, toss, still
<1>. QED  BY <1>1, <1>2, <1>3, <1>4, <1>5

LEMMA FetchKeeps ==
  ASSUME Inv, NEW s \in Session, Fetch(s)
  PROVE  Inv'
<1>. USE PaymentAssumption DEF Inv
<1>1. TypeOK'
  BY DEF TypeOK, Sound, Fetch, Goto, db, toss, still, Remote, Status, Outcome, Steps, Answer
<1>2. Sound'
  BY DEF TypeOK, Sound, Approved, Fetch, Goto, db, toss, still
<1>3. Honest'
  BY DEF TypeOK, Sound, RowsSeen, Honest, Approved, Fetch, Goto, db, toss, still
<1>4. PaidIsCredited'
  BY DEF TypeOK, PaidIsCredited, Fetch, Goto, db, toss, still, Pack
<1>5. RowsSeen'
  BY DEF TypeOK, Sound, RowsSeen, Flushed, Fetch, Goto, db, toss, still
<1>. QED  BY <1>1, <1>2, <1>3, <1>4, <1>5

LEMMA ReconcileKeeps ==
  ASSUME Inv, NEW s \in Session, Reconcile(s)
  PROVE  Inv'
<1>. USE PaymentAssumption DEF Inv
<1>1. TypeOK'
  BY DEF TypeOK, Reconcile, End, db, toss, still, Remote, Status, Outcome, Steps, Answer
<1>2. Sound'
  BY DEF TypeOK, Sound, Approved, Reconcile, End, db, toss, still
<1>3. Honest'
  BY DEF TypeOK, Sound, RowsSeen, Honest, Approved, Reconcile, End, db, toss, still
<1>4. PaidIsCredited'
  BY DEF TypeOK, PaidIsCredited, Reconcile, End, db, toss, still, Pack
<1>5. RowsSeen'
  BY DEF TypeOK, Sound, RowsSeen, Flushed, Reconcile, End, db, toss, still
<1>. QED  BY <1>1, <1>2, <1>3, <1>4, <1>5

LEMMA RequestKeeps ==
  ASSUME Inv, NEW s \in Session, NEW o \in Order, Request(s, o)
  PROVE  Inv'
<1>. USE PaymentAssumption DEF Inv
<1>1. TypeOK'
  BY DEF TypeOK, Request, db, toss, still, Remote, Status, Outcome, Steps, Answer
<1>2. Sound'
  BY DEF TypeOK, Sound, Honest, Approved, Request, db, toss, still
<1>3. Honest'
  BY DEF TypeOK, Sound, RowsSeen, Honest, Approved, Request, db, toss, still
<1>4. PaidIsCredited'
  BY DEF TypeOK, PaidIsCredited, Request, db, toss, still, Pack
<1>5. RowsSeen'
  BY DEF TypeOK, Sound, RowsSeen, Flushed, Request, db, toss, still
<1>. QED  BY <1>1, <1>2, <1>3, <1>4, <1>5

LEMMA DeliverKeeps ==
  ASSUME Inv, NEW s \in Session, NEW o \in Order, Deliver(s, o)
  PROVE  Inv'
<1>. USE PaymentAssumption DEF Inv
<1>1. TypeOK'
  BY DEF TypeOK, Deliver, db, toss, still, Remote, Status, Outcome, Steps, Answer
<1>2. Sound'
  BY DEF TypeOK, Sound, Honest, Approved, Deliver, db, toss, still
<1>3. Honest'
  BY DEF TypeOK, Sound, RowsSeen, Honest, Approved, Deliver, db, toss, still
<1>4. PaidIsCredited'
  BY DEF TypeOK, PaidIsCredited, Deliver, db, toss, still, Pack
<1>5. RowsSeen'
  BY DEF TypeOK, Sound, RowsSeen, Flushed, Deliver, db, toss, still
<1>. QED  BY <1>1, <1>2, <1>3, <1>4, <1>5

LEMMA CrashKeeps ==
  ASSUME Inv, NEW s \in Session, Crash(s)
  PROVE  Inv'
<1>. USE PaymentAssumption DEF Inv
<1>1. TypeOK'
  <2>1. hooks' \in [Order -> 0 .. MaxHooks]
    <3>1. order[s] \in Order /\ hooks[order[s]] \in 0 .. MaxHooks
      BY DEF TypeOK, Sound, Crash
    <3>. QED  BY <3>1 DEF TypeOK, Crash
  <2>. QED  BY <2>1 DEF TypeOK, Crash, End, db, Remote, Status, Steps, Answer
<1>2. Sound'
  BY DEF TypeOK, Sound, Approved, Crash, End, db, toss, still
<1>3. Honest'
  BY DEF TypeOK, Sound, RowsSeen, Honest, Approved, Crash, End, db, toss, still
<1>4. PaidIsCredited'
  BY DEF TypeOK, PaidIsCredited, Crash, End, db, toss, still, Pack
<1>5. RowsSeen'
  BY DEF TypeOK, Sound, RowsSeen, Flushed, Crash, End, db, toss, still
<1>. QED  BY <1>1, <1>2, <1>3, <1>4, <1>5

LEMMA CancelKeeps ==
  ASSUME Inv, NEW o \in Order, Cancel(o)
  PROVE  Inv'
<1>. USE PaymentAssumption DEF Inv
<1>1. TypeOK'
  BY DEF TypeOK, Cancel, Becomes, db, toss, still, Remote, Status, Outcome, Steps, Answer
<1>2. Sound'
  BY DEF TypeOK, Sound, Approved, Cancel, Becomes, db, toss, still
<1>3. Honest'
  BY DEF TypeOK, Sound, RowsSeen, Honest, Approved, Cancel, Becomes, db, toss, still
<1>4. PaidIsCredited'
  BY DEF TypeOK, PaidIsCredited, Cancel, Becomes, db, toss, still, Pack
<1>5. RowsSeen'
  BY DEF TypeOK, Sound, RowsSeen, Flushed, Cancel, Becomes, db, toss, still
<1>. QED  BY <1>1, <1>2, <1>3, <1>4, <1>5

LEMMA DropKeeps ==
  ASSUME Inv, NEW o \in Order, Drop(o)
  PROVE  Inv'
<1>. USE PaymentAssumption DEF Inv
<1>1. TypeOK'
  BY DEF TypeOK, Drop, db, toss, still, Remote, Status, Outcome, Steps, Answer
<1>2. Sound'
  BY DEF TypeOK, Sound, Approved, Drop, db, toss, still
<1>3. Honest'
  BY DEF TypeOK, Sound, RowsSeen, Honest, Approved, Drop, db, toss, still
<1>4. PaidIsCredited'
  BY DEF TypeOK, PaidIsCredited, Drop, db, toss, still, Pack
<1>5. RowsSeen'
  BY DEF TypeOK, Sound, RowsSeen, Flushed, Drop, db, toss, still
<1>. QED  BY <1>1, <1>2, <1>3, <1>4, <1>5

-----------------------------------------------------------------------------
LEMMA StepKeeps == Inv /\ [Next]_vars => Inv'
<1> SUFFICES ASSUME Inv, [Next]_vars  PROVE Inv'
  OBVIOUS
<1>1. ASSUME NEW s \in Session, NEW o \in Order, Request(s, o) \/ Deliver(s, o)  PROVE Inv'
  BY <1>1, RequestKeeps, DeliverKeeps
<1>2. ASSUME NEW s \in Session, AlreadyPaid(s) \/ Flush(s) \/ FlushConflict(s)  PROVE Inv'
  BY <1>2, AlreadyPaidKeeps, FlushKeeps, FlushConflictKeeps
<1>3. ASSUME NEW s \in Session, Approve(s) \/ Lose(s) \/ Odd(s) \/ Decline(s)  PROVE Inv'
  BY <1>3, ApproveKeeps, LoseKeeps, OddKeeps, DeclineKeeps
<1>4. ASSUME NEW s \in Session, Answered(s)  PROVE Inv'
  BY <1>4, ChargedKeeps, DeclinedKeeps, UnavailableKeeps DEF Answered
<1>5. ASSUME NEW s \in Session, Ignore(s) \/ Fetch(s) \/ Reconcile(s)  PROVE Inv'
  BY <1>5, IgnoreKeeps, FetchKeeps, ReconcileKeeps
<1>6. ASSUME NEW s \in Session, Crash(s)  PROVE Inv'
  BY <1>6, CrashKeeps
<1>7. ASSUME NEW o \in Order, Cancel(o) \/ Drop(o)  PROVE Inv'
  BY <1>7, CancelKeeps, DropKeeps
<1>8. CASE UNCHANGED vars
  BY <1>8 DEF Inv, TypeOK, Sound, RowsSeen, Honest, PaidIsCredited, Approved, Flushed, Pack, vars
<1>. QED  BY <1>1, <1>2, <1>3, <1>4, <1>5, <1>6, <1>7, <1>8 DEF Next, Progress

\* The invariant holds of every reachable state.
THEOREM Invariant == Spec => []Inv
<1>1. Init => Inv
  BY InitInv
<1>2. Inv /\ [Next]_vars => Inv'
  BY StepKeeps
<1>. QED  BY <1>1, <1>2, PTL DEF Spec

\* The variables of Payments keep their types.
THEOREM PaymentsTypeCorrect == Spec => []TypeOK
<1>1. Inv => TypeOK
  BY DEF Inv
<1>. QED  BY <1>1, Invariant, PTL

\* No row says paid that Toss has not approved, and no order is applied but
\* behind a row that says failed, however many requests, webhooks, declines and
\* crashes race over it.
THEOREM NothingGivenAway == Spec => []AppliedIsApproved
<1>1. Inv => AppliedIsApproved
  BY DEF Inv, Honest, AppliedIsApproved
<1>. QED  BY <1>1, Invariant, PTL

\* A credit pack whose row says paid has been credited.
THEOREM PaidPacksCredited == Spec => []PaidIsCredited
<1>1. Inv => PaidIsCredited
  BY DEF Inv
<1>. QED  BY <1>1, Invariant, PTL

(***************************************************************************)
(* Subscriptions.  That no period is charged twice rests on the order ids  *)
(* (renew_due, change_plan): the id of a renewal names the period that     *)
(* ends, so it must not be the period of an earlier renewal, and while it  *)
(* runs plan and attempt may change only after a refusal.                  *)
(***************************************************************************)

\* What a request, and the job, has been told of its order is so.
HeardRight ==
  /\ \A r \in PlanRequest :
       change[r].at = "approved" => ChangeOrder(r, change[r].plan) \in approved
  /\ renewal = "approved" => RenewalOrder \in approved
  /\ renewal = "declined" => RenewalOrder \in refused
  \* the row of a renewal that is under way is locked
  /\ renewal # "off" => Due /\ ~record.left

Granted == {g.period : g \in grants}

\* The row and the rows that requests remember: periods that were granted, and
\* that began with a request only if that has been answered.
RowRight(known) ==
  /\ known.period \in Granted
  /\ 1 <= known.period.from /\ known.period.from <= today
  /\ known.period.by \in PlanRequest => change[known.period.by].at = "answered"
  /\ known.next <= today + Month
  /\ known.next # Never => EndOf(known.period) <= known.next

RowsRight == RowRight(record) /\ \A r \in PlanRequest : RowRight(change[r].seen)

\* A row remembered as one that began today has the same next day still, so that
\* a change is seen to be one and written (WriteChanged).
NextIsKnown ==
  \A r \in PlanRequest : change[r].seen.next = today + Month => record.next = today + Month

\* What an order is for.  Orders of the period that runs: the one to be charged.
OrdersRight ==
  /\ \A p \in approved :
       /\ p.for.from \in Int /\ p.for.from <= record.period.from
       /\ p.for.from = 0 =>
            p.for.by \in PlanRequest /\ p = ChangeOrder(p.for.by, change[p.for.by].plan)
       /\ p.for.from # 0 /\ p.for.by \in PlanRequest => change[p.for.by].at = "answered"
       /\ p.for = record.period /\ record.next # Never => p = RenewalOrder
  /\ RenewedOnce

SubscriptionInv == SubscriptionTypeOK /\ HeardRight /\ RowsRight /\ NextIsKnown /\ OrdersRight


-----------------------------------------------------------------------------
(* Rows. *)

LEMMA AtType ==
  ASSUME NEW r \in PlanRequest, change \in [PlanRequest -> Change],
         NEW to \in {"new", "loaded", "asking", "approved", "declined", "unknown", "answered"},
         At(r, to)
  PROVE  change' \in [PlanRequest -> Change]
BY DEF At, Change

LEMMA LapsedType ==
  ASSUME record \in Subscription
  PROVE  Lapsed \in Subscription /\ [Lapsed EXCEPT !.failed = Attempt] \in Subscription
<1>1. "free" \in Plans /\ Never \in 0 .. LastDay + Month
  BY BillingAssumption DEF Plans, Never
<1>2. Attempt \in Nat
  BY DEF Attempt, Subscription
<1>3. Lapsed \in Subscription
  BY <1>1 DEF Subscription, Lapsed
<1>. QED  BY <1>2, <1>3 DEF Subscription

\* The row after a renewal that was declined and will be tried again.
LEMMA PastDueType ==
  ASSUME record \in Subscription, today \in 1 .. LastDay, ~(Attempt > Len(DunningDays))
  PROVE  /\ DunningDays[Attempt] \in 1 .. Month
         /\ [record EXCEPT !.status = "past_due", !.failed = Attempt,
                           !.next = today + DunningDays[Attempt]] \in Subscription
<1>1. Attempt \in Nat /\ Attempt \in 1 .. Len(DunningDays)
  BY BillingAssumption DEF Attempt, Subscription
<1>2. DunningDays[Attempt] \in 1 .. Month
  BY <1>1, BillingAssumption
<1>. DEFINE day == today + DunningDays[Attempt]
<1>3. day \in 0 .. LastDay + Month
  BY <1>2, BillingAssumption
<1>. HIDE DEF day
<1>4. [record EXCEPT !.status = "past_due", !.failed = Attempt, !.next = day] \in Subscription
  BY <1>1, <1>3 DEF Subscription
<1>. QED  BY <1>2, <1>4 DEF day

LEMMA NewPeriodType ==
  ASSUME NEW plan \in Plans, NEW period \in Period
  PROVE  NewPeriod(plan, period) \in Subscription
<1>1. FALSE \in BOOLEAN /\ EndOf(period) \in 0 .. LastDay + Month /\ 0 \in Nat
  BY BillingAssumption DEF EndOf, Period
<1>. QED  BY <1>1 DEF Subscription, NewPeriod

\* The row after the UPDATE of a session, column by column.
LEMMA WriteType ==
  ASSUME record \in Subscription, NEW old \in Subscription, NEW new \in Subscription
  PROVE  /\ WriteChanged(old, new) \in Subscription
         /\ WriteChanged(old, new).period = IF new.period = old.period THEN record.period ELSE new.period
         /\ WriteChanged(old, new).next = IF new.next = old.next THEN record.next ELSE new.next
BY DEF WriteChanged, Columns, Subscription

LEMMA OneMoreGranted ==
  ASSUME NEW plan, NEW period, grants' = grants \cup {[plan |-> plan, period |-> period]}
  PROVE  period \in Granted' /\ Granted \subseteq Granted'
<1>1. [plan |-> plan, period |-> period] \in grants'
  OBVIOUS
<1>2. [plan |-> plan, period |-> period].period = period
  OBVIOUS
<1>3. period \in Granted'
  BY <1>1, <1>2 DEF Granted
<1>4. Granted \subseteq Granted'
  BY DEF Granted
<1>. QED  BY <1>3, <1>4

-----------------------------------------------------------------------------
(* Every action keeps the invariant. *)

LEMMA LeaveKeeps ==
  ASSUME SubscriptionInv, NEW r \in PlanRequest, Leave(r)
  PROVE  SubscriptionInv'
<1>. USE BillingAssumption DEF SubscriptionInv, charges, billed, Never, EndOf, Plans
<1>1. SubscriptionTypeOK'
  BY AtType DEF SubscriptionTypeOK, Subscription, Leave
<1>2. HeardRight'
  BY DEF HeardRight, Leave, At, RowLocked
<1>3. RowsRight'
  BY DEF RowsRight, RowRight, Granted, Leave, At
<1>4. NextIsKnown'
  BY DEF NextIsKnown, Leave, At
<1>5. OrdersRight'
  BY DEF OrdersRight, RenewedOnce, RenewalOrder, Leave, At
<1>. QED  BY <1>1, <1>2, <1>3, <1>4, <1>5

LEMMA LoadKeeps ==
  ASSUME SubscriptionInv, NEW r \in PlanRequest, Load(r)
  PROVE  SubscriptionInv'
<1>. USE BillingAssumption DEF SubscriptionInv, charges, billed, Never, EndOf, Plans
<1>1. SubscriptionTypeOK'
  BY DEF SubscriptionTypeOK, Change, Load
<1>2. HeardRight'
  BY DEF SubscriptionTypeOK, HeardRight, RenewalOrder, Due, Load
<1>3. RowsRight'
  BY DEF SubscriptionTypeOK, HeardRight, RowsRight, RowRight, Granted, Subscription, Change,
         Period, Due, Load
<1>4. NextIsKnown'
  BY DEF SubscriptionTypeOK, NextIsKnown, Load
<1>5. OrdersRight'
  <2>1. \A q \in PlanRequest :
          /\ change'[q].plan = change[q].plan
          /\ change[q].at = "answered" => change'[q].at = "answered"
    BY DEF SubscriptionTypeOK, Change, Load
  <2>2. UNCHANGED <<approved, record>>
    BY DEF Load
  <2>. QED  BY <2>1, <2>2 DEF OrdersRight, RenewedOnce, RenewalOrder
<1>. QED  BY <1>1, <1>2, <1>3, <1>4, <1>5

LEMMA AskKeeps ==
  ASSUME SubscriptionInv, NEW r \in PlanRequest, Ask(r)
  PROVE  SubscriptionInv'
<1>. USE BillingAssumption DEF SubscriptionInv, charges, billed, Never, EndOf, Plans
<1>1. SubscriptionTypeOK'
  BY AtType DEF SubscriptionTypeOK, Ask
<1>2. HeardRight'
  BY DEF HeardRight, RenewalOrder, Due, Ask, At
<1>3. RowsRight'
  BY DEF RowsRight, RowRight, Granted, Ask, At
<1>4. NextIsKnown'
  BY DEF NextIsKnown, Ask, At
<1>5. OrdersRight'
  BY DEF OrdersRight, RenewedOnce, RenewalOrder, Ask, At
<1>. QED  BY <1>1, <1>2, <1>3, <1>4, <1>5

LEMMA TossAnswersKeeps ==
  ASSUME SubscriptionInv, NEW r \in PlanRequest, TossAnswers(r)
  PROVE  SubscriptionInv'
<1>. USE BillingAssumption DEF SubscriptionInv, charges, billed, Never, EndOf, Plans
<1>1. SubscriptionTypeOK'
  BY AtType DEF SubscriptionTypeOK, TossAnswers, Hears, Says
<1>2. HeardRight'
  BY DEF HeardRight, RenewalOrder, Due, TossAnswers, Hears, Says, At
<1>3. RowsRight'
  BY DEF SubscriptionTypeOK, HeardRight, RowsRight, RowRight, Granted, Change, TossAnswers, At
<1>4. NextIsKnown'
  BY DEF NextIsKnown, TossAnswers, At
<1>5. OrdersRight'
  BY DEF SubscriptionTypeOK, HeardRight, RowsRight, RowRight, OrdersRight, RenewedOnce,
         Subscription, Period, ChangeOrder, RenewalOrder, TossAnswers, Hears, Says, At
<1>. QED  BY <1>1, <1>2, <1>3, <1>4, <1>5

LEMMA NotPaidKeeps ==
  ASSUME SubscriptionInv, NEW r \in PlanRequest, NotPaid(r)
  PROVE  SubscriptionInv'
<1>. USE BillingAssumption DEF SubscriptionInv, charges, billed, Never, EndOf, Plans
<1>1. SubscriptionTypeOK'
  BY AtType DEF SubscriptionTypeOK, NotPaid
<1>2. HeardRight'
  BY DEF HeardRight, RenewalOrder, Due, NotPaid, At
<1>3. RowsRight'
  BY DEF RowsRight, RowRight, Granted, NotPaid, At
<1>4. NextIsKnown'
  BY DEF NextIsKnown, NotPaid, At
<1>5. OrdersRight'
  BY DEF OrdersRight, RenewedOnce, RenewalOrder, NotPaid, At
<1>. QED  BY <1>1, <1>2, <1>3, <1>4, <1>5

LEMMA ExpireKeeps ==
  ASSUME SubscriptionInv, Expire
  PROVE  SubscriptionInv'
<1>. USE BillingAssumption DEF SubscriptionInv, charges, billed, Never, EndOf, Plans
<1>1. SubscriptionTypeOK'
  BY LapsedType DEF SubscriptionTypeOK, RowsRight, RowRight, Granted, Lapsed, Expire
<1>2. HeardRight'
  BY DEF HeardRight, Expire
<1>3. RowsRight'
  BY DEF SubscriptionTypeOK, RowsRight, RowRight, Granted, Expire, Lapsed
<1>4. NextIsKnown'
  BY DEF SubscriptionTypeOK, NextIsKnown, Due, Expire
<1>5. OrdersRight'
  BY DEF OrdersRight, RenewedOnce, Expire, Lapsed
<1>. QED  BY <1>1, <1>2, <1>3, <1>4, <1>5

LEMMA StartRenewalKeeps ==
  ASSUME SubscriptionInv, StartRenewal
  PROVE  SubscriptionInv'
<1>. USE BillingAssumption DEF SubscriptionInv, charges, billed, Never, EndOf, Plans
<1>1. SubscriptionTypeOK'
  BY DEF SubscriptionTypeOK, StartRenewal
<1>2. HeardRight'
  BY DEF HeardRight, Due, StartRenewal
<1>3. RowsRight'
  BY DEF RowsRight, RowRight, Granted, StartRenewal
<1>4. NextIsKnown'
  BY DEF NextIsKnown, StartRenewal
<1>5. OrdersRight'
  BY DEF OrdersRight, RenewedOnce, RenewalOrder, StartRenewal
<1>. QED  BY <1>1, <1>2, <1>3, <1>4, <1>5

LEMMA RenewalAnswerKeeps ==
  ASSUME SubscriptionInv, RenewalAnswer
  PROVE  SubscriptionInv'
<1>. USE BillingAssumption DEF SubscriptionInv, charges, billed, Never, EndOf, Plans
<1>1. SubscriptionTypeOK'
  BY DEF SubscriptionTypeOK, HeardRight, RenewalAnswer, Hears, Says
<1>2. HeardRight'
  BY DEF HeardRight, RenewalOrder, Due, RenewalAnswer, Hears, Says
<1>3. RowsRight'
  BY DEF RowsRight, RowRight, Granted, RenewalAnswer
<1>4. NextIsKnown'
  BY DEF NextIsKnown, RenewalAnswer
<1>5. OrdersRight'
  BY DEF SubscriptionTypeOK, HeardRight, RowsRight, RowRight, OrdersRight, RenewedOnce,
         Subscription, Period, ChangeOrder, RenewalOrder, Due, RenewalAnswer, Hears, Says
<1>. QED  BY <1>1, <1>2, <1>3, <1>4, <1>5

LEMMA RenewalDeclinedKeeps ==
  ASSUME SubscriptionInv, RenewalDeclined
  PROVE  SubscriptionInv'
<1>. USE BillingAssumption DEF SubscriptionInv, charges, billed, Never, EndOf, Plans
<1>1. SubscriptionTypeOK'
  BY LapsedType, PastDueType DEF SubscriptionTypeOK, Lapsed, RenewalDeclined
<1>2. HeardRight'
  BY DEF HeardRight, RenewalDeclined
<1>3. RowsRight'
  <2>1. record'.period = record.period /\ UNCHANGED <<today, grants, change>>
    BY DEF SubscriptionTypeOK, Subscription, RenewalDeclined, Lapsed
  <2>2. /\ record'.next \in Nat
        /\ record'.next = Never \/ (record'.next > today /\ record'.next <= today + Month)
    BY PastDueType DEF SubscriptionTypeOK, Subscription, RenewalDeclined, Lapsed
  <2>3. record.next <= today /\ record.next # Never /\ record.next \in Nat
    BY DEF SubscriptionTypeOK, Subscription, RenewalDeclined, HeardRight, Due
  <2>4. EndOf(record.period) <= today
    BY <2>3 DEF RowsRight, RowRight, SubscriptionTypeOK, Subscription, Period
  <2>5. RowRight(record)'
    BY <2>1, <2>2, <2>4 DEF RowsRight, RowRight, Granted, SubscriptionTypeOK, Period
  <2>. QED  BY <2>1, <2>5 DEF RowsRight, RowRight, Granted
<1>4. NextIsKnown'
  BY DEF SubscriptionTypeOK, HeardRight, NextIsKnown, Due, RenewalDeclined
<1>5. OrdersRight'
  BY DEF SubscriptionTypeOK, HeardRight, OrdersRight, RenewedOnce, Due, RenewalDeclined, Lapsed
<1>. QED  BY <1>1, <1>2, <1>3, <1>4, <1>5

LEMMA RenewalUnknownKeeps ==
  ASSUME SubscriptionInv, RenewalUnknown
  PROVE  SubscriptionInv'
<1>. USE BillingAssumption DEF SubscriptionInv, charges, billed, Never, EndOf, Plans
<1>1. SubscriptionTypeOK'
  BY DEF SubscriptionTypeOK, RenewalUnknown, SameAttempt
<1>2. HeardRight'
  BY DEF HeardRight, RenewalUnknown
<1>3. RowsRight'
  BY DEF RowsRight, RowRight, Granted, RenewalUnknown, SameAttempt
<1>4. NextIsKnown'
  BY DEF NextIsKnown, RenewalUnknown, SameAttempt
<1>5. OrdersRight'
  BY DEF OrdersRight, RenewedOnce, RenewalOrder, RenewalUnknown, SameAttempt
<1>. QED  BY <1>1, <1>2, <1>3, <1>4, <1>5

LEMMA NextMorningKeeps ==
  ASSUME SubscriptionInv, NextMorning
  PROVE  SubscriptionInv'
<1>. USE BillingAssumption DEF SubscriptionInv, charges, billed, Never, EndOf, Plans
<1>1. SubscriptionTypeOK'
  BY DEF SubscriptionTypeOK, Subscription, Period, NextMorning
<1>2. HeardRight'
  BY DEF SubscriptionTypeOK, HeardRight, Subscription, RenewalOrder, Due, NextMorning
<1>3. RowsRight'
  BY DEF SubscriptionTypeOK, HeardRight, RowsRight, RowRight, Granted, Subscription, Change,
         Period, Due, NextMorning
<1>4. NextIsKnown'
  BY DEF SubscriptionTypeOK, RowsRight, RowRight, NextIsKnown, NextMorning
<1>5. OrdersRight'
  BY DEF OrdersRight, RenewedOnce, RenewalOrder, NextMorning
<1>. QED  BY <1>1, <1>2, <1>3, <1>4, <1>5

\* A request ends, or is asked again; a renewal ends without a commit.
LEMMA RequestEnds ==
  ASSUME SubscriptionInv, NEW r \in PlanRequest, NEW to \in {"new", "answered"},
         change[r].at \notin {"new", "answered"}, At(r, to),
         UNCHANGED <<today, record, charges, billed, renewal>>, mishaps' \in 0 .. MaxMishaps
  PROVE  SubscriptionInv'
<1>. USE BillingAssumption DEF SubscriptionInv, charges, billed, Never, EndOf
<1>1. SubscriptionTypeOK'
  BY AtType DEF SubscriptionTypeOK
<1>2. HeardRight'
  BY DEF HeardRight, RenewalOrder, Due, At
<1>3. RowsRight'
  BY DEF RowsRight, RowRight, Granted, At
<1>4. NextIsKnown'
  BY DEF SubscriptionTypeOK, NextIsKnown, Change, At
<1>5. OrdersRight'
  BY DEF OrdersRight, RenewedOnce, RenewalOrder, At
<1>. QED  BY <1>1, <1>2, <1>3, <1>4, <1>5

LEMMA RenewalAborted ==
  ASSUME SubscriptionInv, AbortRenewal,
         UNCHANGED <<today, record, charges, billed>>, mishaps' \in 0 .. MaxMishaps
  PROVE  SubscriptionInv'
BY DEF SubscriptionInv, SubscriptionTypeOK, HeardRight, RowsRight, RowRight, Granted,
       NextIsKnown, OrdersRight, RenewedOnce, RenewalOrder, AbortRenewal, charges, billed

LEMMA BreakDeadlockKeeps ==
  ASSUME SubscriptionInv, BreakDeadlock
  PROVE  SubscriptionInv'
<1>1. mishaps' \in 0 .. MaxMishaps /\ UNCHANGED <<today, record, charges, billed>>
  BY DEF BreakDeadlock, SubscriptionInv, SubscriptionTypeOK
<1>2. CASE AbortRenewal
  BY <1>1, <1>2, RenewalAborted
<1>3. ASSUME NEW r \in PlanRequest, change[r].at = "approved", At(r, "answered"), UNCHANGED renewal
      PROVE  SubscriptionInv'
  BY <1>1, <1>3, RequestEnds
<1>. QED  BY <1>2, <1>3 DEF BreakDeadlock

LEMMA DieBillingKeeps ==
  ASSUME SubscriptionInv, DieBilling
  PROVE  SubscriptionInv'
<1>1. mishaps' \in 0 .. MaxMishaps /\ UNCHANGED <<today, record, charges, billed>>
  BY BillingAssumption DEF DieBilling, SubscriptionInv, SubscriptionTypeOK
<1>2. CASE AbortRenewal
  BY <1>1, <1>2, RenewalAborted
<1>3. ASSUME NEW r \in PlanRequest, change[r].at \notin {"new", "answered"}, At(r, "new"),
             UNCHANGED renewal
      PROVE  SubscriptionInv'
  BY <1>1, <1>3, RequestEnds
<1>. QED  BY <1>2, <1>3 DEF DieBilling

\* A change is written as one: its period is new to the session, and its day.
LEMMA ApplyKeeps ==
  ASSUME SubscriptionInv, NEW r \in PlanRequest, Apply(r)
  PROVE  SubscriptionInv'
<1>. USE BillingAssumption DEF SubscriptionInv, charges
<1>. DEFINE old == change[r].seen
            plan == change[r].plan
            period == [from |-> today, by |-> r]
            new == NewPeriod(plan, period)
<1>1. /\ old \in Subscription /\ record \in Subscription /\ plan \in Plans
      /\ today \in 1 .. LastDay /\ period \in Period
  BY DEF SubscriptionTypeOK, Change, Period
<1>2. new \in Subscription /\ new.period = period /\ new.next = today + Month
  BY <1>1, NewPeriodType DEF NewPeriod, EndOf
<1>3. /\ change[r].at = "approved" /\ renewal = "off"
      /\ record' = WriteChanged(old, new)
      /\ paid' = paid \cup {ChangeOrder(r, plan)}
      /\ grants' = grants \cup {[plan |-> plan, period |-> period]}
      /\ closed' = closed \cup {old.period}
      /\ At(r, "answered")
      /\ UNCHANGED <<today, approved, refused, renewal, mishaps>>
  BY DEF Apply, RowLocked
<1>4. period # old.period
  BY <1>1, <1>3 DEF RowsRight, RowRight
<1>. HIDE DEF old, plan, period, new
<1>5. record' \in Subscription /\ record'.period = period
  BY <1>1, <1>2, <1>3, <1>4, WriteType
<1>6. record'.next = today + Month
  BY <1>1, <1>2, <1>3, WriteType DEF NextIsKnown, old
<1>7. /\ change' \in [PlanRequest -> Change] /\ change'[r].at = "answered"
      /\ \A q \in PlanRequest : change'[q].plan = change[q].plan /\ change'[q].seen = change[q].seen
      /\ \A q \in PlanRequest \ {r} : change'[q].at = change[q].at
  BY <1>3 DEF At, SubscriptionTypeOK, Change
<1>8. SubscriptionTypeOK'
  <2>1. paid' \subseteq approved
    BY <1>3 DEF SubscriptionTypeOK, HeardRight, plan
  <2>2. [plan |-> plan, period |-> period] \in [plan : Plans, period : Period]
    BY <1>1
  <2>3. closed' \subseteq {g.period : g \in grants'}
    BY <1>3 DEF SubscriptionTypeOK, RowsRight, RowRight, Granted, old
  <2>4. record'.period.from <= today
    BY <1>1, <1>5 DEF period
  <2>. QED  BY <1>3, <1>5, <1>7, <2>1, <2>2, <2>3, <2>4 DEF SubscriptionTypeOK
<1>9. HeardRight'
  BY <1>3, <1>7 DEF HeardRight, ChangeOrder
<1>10. RowsRight'
  <2>1. period \in Granted' /\ Granted \subseteq Granted'
    BY <1>3, OneMoreGranted
  <2>2. RowRight(record)'
    BY <1>1, <1>3, <1>5, <1>6, <1>7, <2>1 DEF RowRight, EndOf, period
  <2>3. ASSUME NEW q \in PlanRequest  PROVE RowRight(change[q].seen)'
    BY <1>3, <1>7, <2>1 DEF RowsRight, RowRight
  <2>. QED  BY <2>2, <2>3 DEF RowsRight
<1>11. NextIsKnown'
  BY <1>3, <1>6 DEF NextIsKnown
<1>12. OrdersRight'
  <2>1. ASSUME NEW p \in approved
        PROVE  /\ p.for # period
               /\ p.for.from \in Int /\ p.for.from <= today
    <3>1. period.from = today /\ period.by = r /\ today # 0
      BY <1>1 DEF period
    <3>. QED  BY <1>1, <1>3, <3>1 DEF OrdersRight, RowsRight, RowRight, Subscription, Period
  <2>2. record'.period.from = today
    BY <1>5 DEF period
  <2>. QED  BY <1>3, <1>5, <1>7, <2>1, <2>2 DEF OrdersRight, RenewedOnce, ChangeOrder
<1>. QED  BY <1>8, <1>9, <1>10, <1>11, <1>12

\* The period that begins starts after every one that was charged before.
LEMMA RenewKeeps ==
  ASSUME SubscriptionInv, Renew
  PROVE  SubscriptionInv'
<1>. USE BillingAssumption DEF SubscriptionInv, charges
<1>. DEFINE from == RenewedFrom(EndOf(record.period))
            period == [from |-> from, by |-> "renewal"]
<1>1. /\ record \in Subscription /\ today \in 1 .. LastDay
      /\ record.period.from \in Int /\ record.period.from >= 1
  BY DEF SubscriptionTypeOK, RowsRight, RowRight, Subscription, Period
<1>2. EndOf(record.period) <= record.next /\ record.next <= today /\ record.next \in Int
  BY DEF Renew, HeardRight, Due, RowsRight, RowRight, SubscriptionTypeOK, Subscription
<1>3. /\ from \in Int /\ record.period.from < from /\ from <= today
      /\ EndOf(period) = from + Month
  BY <1>1, <1>2 DEF RenewedFrom, EndOf
<1>4. period \in Period /\ period.from = from /\ period.by = "renewal"
  BY <1>1, <1>3 DEF Period
<1>5. /\ record' = NewPeriod(record.plan, period)
      /\ paid' = paid \cup {RenewalOrder}
      /\ grants' = grants \cup {[plan |-> record.plan, period |-> period]}
      /\ closed' = closed \cup {record.period}
      /\ renewal = "approved" /\ renewal' = "off"
      /\ UNCHANGED <<today, approved, refused, change, mishaps>>
  BY DEF Renew
<1>. HIDE DEF from, period
<1>6. record.plan \in Plans
  BY <1>1 DEF Subscription
<1>7. /\ record' \in Subscription /\ record'.period = period
      /\ record'.next = from + Month
  BY <1>3, <1>4, <1>5, <1>6, NewPeriodType DEF NewPeriod
<1>8. SubscriptionTypeOK'
  <2>1. paid' \subseteq approved
    BY <1>5 DEF SubscriptionTypeOK, HeardRight
  <2>2. [plan |-> record.plan, period |-> period] \in [plan : Plans, period : Period]
    BY <1>4, <1>6
  <2>3. closed' \subseteq {g.period : g \in grants'}
    BY <1>5 DEF SubscriptionTypeOK, RowsRight, RowRight, Granted
  <2>. QED  BY <1>3, <1>4, <1>5, <1>7, <2>1, <2>2, <2>3 DEF SubscriptionTypeOK
<1>9. HeardRight'
  BY <1>5 DEF HeardRight
<1>10. RowsRight'
  <2>1. period \in Granted' /\ Granted \subseteq Granted'
    BY <1>5, OneMoreGranted
  <2>2. RowRight(record)'
    BY <1>1, <1>3, <1>4, <1>5, <1>7, <2>1 DEF RowRight
  <2>3. ASSUME NEW q \in PlanRequest  PROVE RowRight(change[q].seen)'
    BY <1>5, <2>1 DEF RowsRight, RowRight
  <2>. QED  BY <2>2, <2>3 DEF RowsRight
<1>11. NextIsKnown'
  <2>1. \A q \in PlanRequest : change[q].seen.next # today + Month
    BY <1>1, <1>2 DEF NextIsKnown
  <2>. QED  BY <1>5, <2>1 DEF NextIsKnown
<1>12. OrdersRight'
  BY <1>1, <1>3, <1>4, <1>5, <1>7 DEF OrdersRight, RenewedOnce
<1>. QED  BY <1>8, <1>9, <1>10, <1>11, <1>12

-----------------------------------------------------------------------------
LEMMA SubscriptionInvInit == SubscriptionInit => SubscriptionInv
<1>. SUFFICES ASSUME SubscriptionInit  PROVE SubscriptionInv
  OBVIOUS
<1>. USE BillingAssumption DEF SubscriptionInit
<1>1. record.period \in Period /\ record \in Subscription
  <2>1. FALSE \in BOOLEAN /\ 0 \in Nat /\ Never \in 0 .. LastDay + Month /\ "free" \in Plans
    BY DEF Never, Plans
  <2>2. [from |-> 1, by |-> "signup"] \in Period
    BY DEF Period
  <2>. QED  BY <2>1, <2>2 DEF Subscription
<1>2. change \in [PlanRequest -> Change]
  BY <1>1 DEF Change
<1>3. SubscriptionTypeOK
  BY <1>1, <1>2 DEF SubscriptionTypeOK, Plans
<1>4. RowRight(record)
  BY DEF RowRight, Granted, Never, EndOf
<1>5. \A r \in PlanRequest : change[r].at = "new" /\ change[r].seen = record
  OBVIOUS
<1>6. HeardRight /\ RowsRight /\ NextIsKnown /\ OrdersRight
  BY <1>4 DEF HeardRight, RowsRight, NextIsKnown, OrdersRight, RenewedOnce
<1>. QED  BY <1>3, <1>6 DEF SubscriptionInv

LEMMA SubscriptionInvStep == SubscriptionInv /\ [SubscriptionNext]_subscriptionVars => SubscriptionInv'
<1>. SUFFICES ASSUME SubscriptionInv, [SubscriptionNext]_subscriptionVars  PROVE SubscriptionInv'
  OBVIOUS
<1>1. ASSUME NEW r \in PlanRequest, ChangeStep(r)  PROVE SubscriptionInv'
  BY <1>1, LeaveKeeps, LoadKeeps, AskKeeps, TossAnswersKeeps, NotPaidKeeps, ApplyKeeps
  DEF ChangeStep
<1>2. CASE RenewalStep
  BY <1>2, ExpireKeeps, StartRenewalKeeps, RenewalAnswerKeeps, RenewKeeps, RenewalDeclinedKeeps,
     RenewalUnknownKeeps DEF RenewalStep
<1>3. CASE UNCHANGED subscriptionVars
  BY <1>3
  DEF subscriptionVars, charges, billed, SubscriptionInv, SubscriptionTypeOK, HeardRight,
      RowsRight, RowRight, Granted, NextIsKnown, OrdersRight, RenewedOnce, RenewalOrder, Due
<1>. QED
  BY <1>1, <1>2, <1>3, BreakDeadlockKeeps, DieBillingKeeps, NextMorningKeeps DEF SubscriptionNext

THEOREM SubscriptionInvariant == SubscriptionSpec => []SubscriptionInv
BY SubscriptionInvInit, SubscriptionInvStep, PTL DEF SubscriptionSpec

\* The variables of Subscriptions keep their types, and no period begins in the
\* future.
THEOREM SubscriptionTypeCorrect == SubscriptionSpec => []SubscriptionTypeOK
<1>1. SubscriptionInv => SubscriptionTypeOK
  BY DEF SubscriptionInv
<1>. QED  BY <1>1, SubscriptionInvariant, PTL

\* A period is renewed, and a request is charged, once.
THEOREM NothingChargedTwice == SubscriptionSpec => []RenewedOnce
<1>1. SubscriptionInv => RenewedOnce
  BY DEF SubscriptionInv, OrdersRight
<1>. QED  BY <1>1, SubscriptionInvariant, PTL
=============================================================================
