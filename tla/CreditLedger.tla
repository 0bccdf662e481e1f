---------------------------- MODULE CreditLedger ----------------------------
(***************************************************************************)
(* The credit ledger of one organisation (billing/ledger.py) and the       *)
(* database transactions that move credits through it: a paid brief        *)
(* (pipeline/brief.py), a credit pack bought in the API and the same order *)
(* credited by the payment webhook, and the end of a billing period        *)
(* (billing/service.py).  Every key carries the organisation's id, so      *)
(* ledgers of different organisations do not meet.                         *)
(*                                                                         *)
(* A session is one unit of work (get_session / session_scope): READ       *)
(* COMMITTED, committed at the end or rolled back by any exception.  Two   *)
(* facts of the stack decide what can happen:                              *)
(*  - SELECT ... FOR UPDATE does not refresh an Organization the session   *)
(*    has loaded before: its identity map keeps the balance read earlier;  *)
(*  - inserting a row with a foreign key to the organisation locks that    *)
(*    row FOR KEY SHARE, which FOR UPDATE of another session waits for.    *)
(***************************************************************************)
EXTENDS Integers, Sequences, FiniteSets

CONSTANTS Session,      \* units of work that may be open at the same time
          Callers,      \* which kinds of call are made
          BriefKey,     \* Idempotency-Key values of POST .../briefs
          OrderId,      \* order ids of credit packs
          LeftPending,  \* orders whose payment row an earlier request left behind
          DirectId,     \* keys of bare apply_credits calls in a fresh session
          MaxTime,      \* bound: instants 1..MaxTime
          BriefCost, PackCredits, PlanGrant  \* plans.py

Kinds == {"brief", "purchase", "renew", "change", "lapse", "reconcile", "direct"}

ASSUME AmountAssumption ==
  BriefCost \in Nat \ {0} /\ PackCredits \in Nat /\ PlanGrant \in Nat
ASSUME TimeAssumption == MaxTime \in Nat \ {0}
ASSUME CallerAssumption == Callers \subseteq Kinds /\ LeftPending \subseteq OrderId

VARIABLES
  balance,  \* organizations.credit_balance, committed
  entries,  \* credit_ledger, committed rows in id order
  rows,     \* briefs and payments, committed: <<"brief", key>>, <<"order", id>>
  clock,    \* the instant it is
  sub,      \* subscriptions: the current period's start, its end once it has
            \* passed (else 0), and whether it is to be renewed (next_charge_at)
  pc,       \* where each session is
  call,     \* the call it makes
  era,      \* when it began (created_at is the transaction's start)
  term,     \* the start and end of the period it is to close
  snap,     \* credit_balance of the Organization in its identity map
  child,    \* it has an uncommitted brief or payment row
  todo,     \* the movements it has still to apply
  pend      \* the ledger rows it has flushed and not committed

db == <<balance, entries, rows, clock, sub>>
vars == <<balance, entries, rows, clock, sub, pc, call, era, term, snap, child, todo, pend>>

\* Instants that the windows of expire_plan_credits tell apart; its slack of
\* five seconds is below their resolution.  A period is known by its start.
Time == 1 .. MaxTime
Ended == {"ok", "refused", "conflict", "aborted"}
Open == {"begun", "work", "charge", "check", "lock"}

NoCall == [kind |-> "none", id |-> 0]
Call ==
  [kind : {"brief"}, id : BriefKey] \cup [kind : {"purchase", "reconcile"}, id : OrderId]
    \cup [kind : {"renew", "change", "lapse"}, id : Time] \cup [kind : {"direct"}, id : DirectId]

MovementKey ==
  ({"brief"} \X BriefKey) \cup ({"purchase"} \X OrderId)
    \cup ({"grant", "expiry"} \X Time) \cup ({"direct"} \X DirectId)
Row == ({"brief"} \X BriefKey) \cup ({"order"} \X OrderId) \cup ({"renewal", "upgrade"} \X Time)

Movement == [key : MovementKey, delta : Int]
Entry == [key : MovementKey, delta : Int, after : Int, era : Time]

Keys(es) == {es[i].key : i \in DOMAIN es}

(***************************************************************************)
(* The rows and the movements of a call.                                   *)
(***************************************************************************)

\* Calls that begin with the insertion of a row that refers to the
\* organisation, a brief or a payment, and that row.
Inserts(c) == c.kind \in {"brief", "purchase", "renew", "change"}
RowOf(c) ==
  LET table == [brief |-> "brief", purchase |-> "order", renew |-> "renewal", change |-> "upgrade"]
  IN <<table[c.kind], c.id>>

\* API requests load the organisation as their principal, the renewal job
\* before it charges; the webhook only loads the payment.
Preloads(c) == Inserts(c) \/ c.kind = "lapse"

\* renew_due, with or without a charge, and change_plan close a period.
Closes(c) == c.kind \in {"renew", "change", "lapse"}

Least(a, b) == IF a < b THEN a ELSE b

\* expire_plan_credits: what is left of the grant of the period that began at
\* instant p and ended at q, seen from a session whose organisation shows the
\* given balance.  Brief debits are all of BriefCost and no code writes a refund.
Granted(p) == IF <<"grant", p>> \in Keys(entries) THEN PlanGrant ELSE 0
Spent(p, q) ==
  LET inside == {i \in DOMAIN entries :
                   entries[i].key[1] = "brief" /\ entries[i].era >= p /\ entries[i].era < q}
  IN BriefCost * Cardinality(inside)

\* mutant: the spends of the period are forgotten
RemainingUnspent(p, q, shown) == Least(shown, Granted(p))
Remaining(p, q, shown) == Least(shown, Granted(p) - Spent(p, q))

\* mutant: the key of an earlier period
ExpiryOfPrevious(p, q, shown) ==
  IF Remaining(p, q, shown) > 0
  THEN <<[key |-> <<"expiry", p - 1>>, delta |-> -Remaining(p, q, shown)]>>
  ELSE <<>>
Expiry(p, q, shown) ==
  IF Remaining(p, q, shown) > 0
  THEN <<[key |-> <<"expiry", p>>, delta |-> -Remaining(p, q, shown)]>>
  ELSE <<>>

\* The idempotency key and the amount of a call that moves credits once.
MovementKeyOf(c) ==
  LET reason == [brief |-> "brief", purchase |-> "purchase", reconcile |-> "purchase",
                 direct |-> "direct"]
  IN <<reason[c.kind], c.id>>

Amount(c) == IF c.kind \in {"purchase", "reconcile"} THEN PackCredits ELSE -BriefCost

\* The apply_credits calls that call c makes in a session that is to close
\* the given period: change_plan closes it now, renew_due when it ended.
Movements(c, t, shown) ==
  LET close == Expiry(t.start, IF c.kind = "change" THEN c.id ELSE t.end, shown)
  IN IF c.kind = "lapse" THEN close
     ELSE IF Closes(c) THEN close \o <<[key |-> <<"grant", c.id>>, delta |-> PlanGrant]>>
     ELSE <<[key |-> MovementKeyOf(c), delta |-> Amount(c)]>>

(***************************************************************************)
(* Locks of the organisation's row.  An inserted child row holds it FOR    *)
(* KEY SHARE, a flushed movement FOR UPDATE; both until the session ends.  *)
(***************************************************************************)
Owns(s) == pend[s] # <<>>
NoOwner(s) == \A t \in Session \ {s} : ~Owns(t)

\* mutant: the debit waits for the session's own lock
FreeOfAll(s) == \A t \in Session : ~Owns(t) /\ ~child[t]
\* mutant: no FOR UPDATE
FreeOfOwners(s) == \A t \in Session \ {s} : ~child[t]
Free(s) == \A t \in Session \ {s} : ~Owns(t) /\ ~child[t]

\* The balance apply_credits computes from: the locked row, unless the
\* session had the organisation in its identity map already.

\* mutant: the balance is never read under the lock
BaseShown(s) == snap[s]
Base(s) == IF Preloads(call[s]) \/ Owns(s) THEN snap[s] ELSE balance

NoTerm == [start |-> 1, end |-> 0]

\* signup: the free plan, whose period is never renewed, with its grant.
Init ==
  /\ balance = PlanGrant
  /\ entries = <<[key |-> <<"grant", 1>>, delta |-> PlanGrant, after |-> PlanGrant, era |-> 1]>>
  /\ rows = {"order"} \X LeftPending
  /\ clock = 1
  /\ sub = [start |-> 1, end |-> 0, auto |-> FALSE]
  /\ pc = [s \in Session |-> "ok"]
  /\ call = [s \in Session |-> NoCall]
  /\ era = [s \in Session |-> 1]
  /\ term = [s \in Session |-> NoTerm]
  /\ snap = [s \in Session |-> 0]
  /\ child = [s \in Session |-> FALSE]
  /\ todo = [s \in Session |-> <<>>]
  /\ pend = [s \in Session |-> <<>>]

\* The session's end, its locks and its identity map gone.
Close(s, how) ==
  /\ pc' = [pc EXCEPT ![s] = how]
  /\ call' = [call EXCEPT ![s] = NoCall]
  /\ era' = [era EXCEPT ![s] = 1]
  /\ term' = [term EXCEPT ![s] = NoTerm]
  /\ snap' = [snap EXCEPT ![s] = 0]
  /\ child' = [child EXCEPT ![s] = FALSE]
  /\ todo' = [todo EXCEPT ![s] = <<>>]
  /\ pend' = [pend EXCEPT ![s] = <<>>]

Rollback(s, how) == Close(s, how) /\ UNCHANGED db

(***************************************************************************)
(* The steps of a session.                                                 *)
(***************************************************************************)

\* A call holds the row of an order it has found from the status it writes to
\* the session's end.
Settles(t, order) ==
  /\ pc[t] \in {"check", "lock"}
  /\ call[t].kind \in {"purchase", "reconcile"} /\ call[t].id = order
OrderFree(s, order) == \A t \in Session \ {s} : ~Settles(t, order)

\* A webhook finds only a committed payment.  renew_due takes a subscription
\* whose period has ended and that no other run has locked; the new period
\* starts then, or a day ago if that is later.  change_plan starts one now.
\* period_key has second precision: no two periods start at one instant.
CanBegin(s, c) ==
  /\ c.kind \in Callers
  /\ c.kind = "reconcile" => <<"order", c.id>> \in rows /\ OrderFree(s, c.id)
  /\ c.kind \in {"renew", "lapse"} =>
       /\ sub.auto /\ sub.end # 0
       /\ c.id \in sub.end .. clock
       /\ \A t \in Session : call[t].kind \notin {"renew", "lapse"}
  /\ c.kind = "lapse" => c.id = sub.end
  /\ c.kind = "change" => c.id = clock + 1
  /\ c.kind \in {"renew", "change"} =>
       <<"grant", c.id>> \notin Keys(entries) /\ \A t \in Session : Closes(call[t]) => call[t].id # c.id

Begin(s, c) ==
  /\ pc[s] \in Ended
  /\ CanBegin(s, c)
  /\ call' = [call EXCEPT ![s] = c]
  /\ clock' = IF c.kind = "change" THEN c.id ELSE clock
  /\ era' = [era EXCEPT ![s] = clock']
  /\ term' = [term EXCEPT ![s] = IF Closes(c) THEN [start |-> sub.start, end |-> sub.end] ELSE NoTerm]
  /\ snap' = [snap EXCEPT ![s] = IF Preloads(c) THEN balance ELSE 0]
  /\ pc' = [pc EXCEPT ![s] = IF Preloads(c) THEN "begun" ELSE "check"]
  /\ todo' = [todo EXCEPT ![s] = IF Preloads(c) THEN <<>> ELSE Movements(c, NoTerm, 0)]
  /\ UNCHANGED <<balance, entries, rows, sub, child, pend>>

\* Time passes, and with it perhaps the end of the period.
Tick ==
  /\ clock < MaxTime
  /\ clock' = clock + 1
  /\ \/ sub' = sub
     \/ sub.auto /\ sub.end = 0 /\ sub' = [sub EXCEPT !.end = clock + 1]
  /\ UNCHANGED <<balance, entries, rows, pc, call, era, term, snap, child, todo, pend>>

\* generate_brief: the key has a brief already.
ReturnBrief(s) ==
  /\ pc[s] = "begun" /\ call[s].kind = "brief"
  /\ RowOf(call[s]) \in rows
  /\ Rollback(s, "ok")

\* generate_brief: 402 before any work is done.
RefuseBrief(s) ==
  /\ pc[s] = "begun" /\ call[s].kind = "brief"
  /\ RowOf(call[s]) \notin rows
  /\ snap[s] < BriefCost
  /\ Rollback(s, "refused")

\* Nothing stands in the way: write the brief (the LLM call), or a payment row
\* for an order that has none.
Start(s) ==
  /\ pc[s] = "begun" /\ Inserts(call[s])
  /\ RowOf(call[s]) \notin rows
  /\ call[s].kind = "brief" => snap[s] >= BriefCost
  /\ pc' = [pc EXCEPT ![s] = "work"]
  /\ UNCHANGED <<db, call, era, term, snap, child, todo, pend>>

\* _charge: the order has a payment row that is not paid; charge it again.
Recharge(s) ==
  /\ pc[s] = "begun" /\ call[s].kind \in {"purchase", "renew", "change"}
  /\ RowOf(call[s]) \in rows
  /\ call[s].kind = "purchase" => <<"purchase", call[s].id>> \notin Keys(entries)
  /\ pc' = [pc EXCEPT ![s] = "charge"]
  /\ UNCHANGED <<db, call, era, term, snap, child, todo, pend>>

\* Nothing to charge: the order is paid, or the subscription is not renewed.
Settled(s) ==
  /\ pc[s] = "begun"
  /\ \/ call[s].kind = "purchase" /\ RowOf(call[s]) \in rows /\ <<"purchase", call[s].id>> \in Keys(entries)
     \/ call[s].kind = "lapse"
  /\ pc' = [pc EXCEPT ![s] = "check"]
  /\ todo' = [todo EXCEPT ![s] = Movements(call[s], term[s], snap[s])]
  /\ UNCHANGED <<db, call, era, term, snap, child, pend>>

\* Flush of the brief or payment row.  It waits for another session's
\* uncommitted row of the same unique key and for the FOR UPDATE owner.
MayInsert(s) ==
  /\ pc[s] = "work"
  /\ NoOwner(s)
  /\ \A t \in Session \ {s} : child[t] => RowOf(call[t]) # RowOf(call[s])

Insert(s) ==
  /\ MayInsert(s)
  /\ RowOf(call[s]) \notin rows
  /\ child' = [child EXCEPT ![s] = TRUE]
  /\ IF call[s].kind = "brief"
     THEN /\ pc' = [pc EXCEPT ![s] = "check"]
          /\ todo' = [todo EXCEPT ![s] = Movements(call[s], term[s], snap[s])]
     ELSE /\ pc' = [pc EXCEPT ![s] = "charge"]
          /\ UNCHANGED todo
  /\ UNCHANGED <<db, call, era, term, snap, pend>>

\* The row appeared after the look-up: the unique index refuses it.
InsertConflict(s) ==
  /\ MayInsert(s)
  /\ RowOf(call[s]) \in rows
  /\ Rollback(s, "conflict")

\* The order's row is written to, whatever the provider answers.
MayCharge(s) == pc[s] = "charge" /\ (call[s].kind = "purchase" => OrderFree(s, call[s].id))

\* The provider answers DONE: on to the ledger, for a new period after reading
\* the sums of the old one.
Charged(s) ==
  /\ MayCharge(s)
  /\ pc' = [pc EXCEPT ![s] = "check"]
  /\ todo' = [todo EXCEPT ![s] = Movements(call[s], term[s], snap[s])]
  /\ UNCHANGED <<db, call, era, term, snap, child, pend>>

\* Declined or unavailable: the payment row alone is committed.  The job tries
\* a declined renewal again under another order id and, in the end, gives up.
NotCharged(s) ==
  /\ MayCharge(s)
  /\ \/ rows' = rows \cup {RowOf(call[s])} /\ sub' = sub
     \/ call[s].kind = "renew" /\ rows' = rows /\ sub' \in {sub, [sub EXCEPT !.auto = FALSE]}
  /\ Close(s, "refused")
  /\ UNCHANGED <<balance, entries, clock>>

\* apply_credits: has the key been used, by a committed row or by this session?

\* mutant: the look-up forgets the key
UsedAny(s, k) == Keys(entries) \cup Keys(pend[s]) # {}
Used(s, k) == k \in Keys(entries) \cup Keys(pend[s])

Skip(s) ==
  /\ pc[s] = "check" /\ todo[s] # <<>>
  /\ Used(s, Head(todo[s]).key)
  /\ todo' = [todo EXCEPT ![s] = Tail(@)]
  /\ UNCHANGED <<db, pc, call, era, term, snap, child, pend>>

Want(s) ==
  /\ pc[s] = "check" /\ todo[s] # <<>>
  /\ ~Used(s, Head(todo[s]).key)
  /\ pc' = [pc EXCEPT ![s] = "lock"]
  /\ UNCHANGED <<db, call, era, term, snap, child, todo, pend>>

\* apply_credits from the lock to the flush, which the lock makes atomic.
MayLock(s) == pc[s] = "lock" /\ Free(s)
\* mutant: no test, no CHECK
EnoughAlways(s) == TRUE
Enough(s) == Base(s) + Head(todo[s]).delta >= 0

\* mutant: no unique index on idempotency_key
TakenNever(s) == FALSE
Taken(s) == Head(todo[s]).key \in Keys(entries)

Apply(s) ==
  /\ MayLock(s)
  /\ Enough(s)
  /\ ~Taken(s)
  /\ LET m == Head(todo[s])
         new == Base(s) + m.delta
     IN /\ pend' = [pend EXCEPT ![s] =
                      Append(@, [key |-> m.key, delta |-> m.delta, after |-> new, era |-> era[s]])]
        /\ snap' = [snap EXCEPT ![s] = new]
  /\ todo' = [todo EXCEPT ![s] = Tail(@)]
  /\ pc' = [pc EXCEPT ![s] = "check"]
  /\ UNCHANGED <<db, call, era, term, child>>

\* InsufficientCreditsError.
Insufficient(s) ==
  /\ MayLock(s)
  /\ ~Enough(s)
  /\ Rollback(s, "refused")

\* The key was used between the look-up and the lock: IntegrityError.
EntryConflict(s) ==
  /\ MayLock(s)
  /\ Enough(s)
  /\ Taken(s)
  /\ Rollback(s, "conflict")

\* mutant: the balance the session saw is written whatever it did
WrittenAnyway(s) == snap[s]
Written(s) == IF Owns(s) THEN snap[s] ELSE balance

\* COMMIT: the flushed rows and the balance of the identity map together.
Commit(s) ==
  /\ pc[s] = "check" /\ todo[s] = <<>>
  /\ balance' = Written(s)
  /\ entries' = entries \o pend[s]
  /\ rows' = IF child[s] THEN rows \cup {RowOf(call[s])} ELSE rows
  /\ sub' = IF call[s].kind \in {"renew", "change"}
            THEN [start |-> call[s].id, end |-> 0, auto |-> TRUE]
            ELSE [sub EXCEPT !.auto = @ /\ call[s].kind # "lapse"]
  /\ clock' = clock
  /\ Close(s, "ok")

\* PostgreSQL ends a cycle of FOR UPDATE requests over shared key locks by
\* failing one of them.
InCycle(s) ==
  /\ pc[s] = "lock" /\ child[s]
  /\ \E t \in Session \ {s} : pc[t] = "lock" /\ child[t]

Victim(s) == InCycle(s) /\ Rollback(s, "aborted")

\* The process or the connection dies, a timeout fires, the client goes away.
Crash(s) ==
  /\ pc[s] \in Open
  /\ Rollback(s, "aborted")

Progress(s) ==
  \/ ReturnBrief(s) \/ RefuseBrief(s) \/ Start(s) \/ Recharge(s) \/ Settled(s)
  \/ Insert(s) \/ InsertConflict(s)
  \/ Charged(s) \/ NotCharged(s)
  \/ Skip(s) \/ Want(s)
  \/ Apply(s) \/ Insufficient(s) \/ EntryConflict(s)
  \/ Commit(s) \/ Victim(s)

Next ==
  \/ Tick
  \/ \E s \in Session : (\E c \in Call : Begin(s, c)) \/ Progress(s) \/ Crash(s)

Spec == Init /\ [][Next]_vars

-----------------------------------------------------------------------------
(***************************************************************************)
(* Properties.                                                             *)
(***************************************************************************)

TypeOK ==
  /\ balance \in Int
  /\ entries \in Seq(Entry)
  /\ rows \subseteq Row
  /\ clock \in Time
  /\ sub \in [start : Time, end : Time \cup {0}, auto : BOOLEAN]
  /\ pc \in [Session -> Ended \cup Open]
  /\ call \in [Session -> Call \cup {NoCall}]
  /\ era \in [Session -> Time]
  /\ term \in [Session -> [start : Time, end : Time \cup {0}]]
  /\ snap \in [Session -> Int]
  /\ child \in [Session -> BOOLEAN]
  /\ todo \in [Session -> Seq(Movement)]
  /\ pend \in [Session -> Seq(Entry)]

\* What holds of the sessions between their steps.  Control: which of them
\* may hold what where.  One writer: at most one session has flushed movements,
\* and the balance in its identity map is the one its last row shows.  Briefs:
\* a brief's session debits that brief and nothing else, no other call does.
Control(s) ==
  /\ pc[s] \in Ended => call[s] = NoCall /\ ~child[s] /\ todo[s] = <<>> /\ pend[s] = <<>>
  /\ pc[s] \in Open => call[s] \in Call
  /\ pc[s] \in {"begun", "work", "charge"} =>
       Preloads(call[s]) /\ todo[s] = <<>> /\ pend[s] = <<>>
  /\ pc[s] = "charge" =>
       call[s].kind \in {"purchase", "renew", "change"} /\ (child[s] \/ RowOf(call[s]) \in rows)
  /\ child[s] =>
       pc[s] \in {"charge", "check", "lock"} /\ Inserts(call[s]) /\ RowOf(call[s]) \notin rows
  /\ pc[s] = "work" => Inserts(call[s])
  /\ pc[s] = "lock" => todo[s] # <<>> /\ Head(todo[s]).key \notin Keys(pend[s])

OwnRow(s) == \A t \in Session \ {s} : child[s] /\ child[t] => RowOf(call[s]) # RowOf(call[t])

Writer(s) ==
  Owns(s) =>
    /\ \A t \in Session \ {s} : ~Owns(t)
    /\ snap[s] = pend[s][Len(pend[s])].after
    /\ \A i \in DOMAIN pend[s] : pend[s][i].after >= 0
    /\ \A i, j \in DOMAIN pend[s] : pend[s][i].key = pend[s][j].key => i = j
    /\ Keys(pend[s]) \cap Keys(entries) = {}

BriefDebits(s) ==
  LET k == <<"brief", call[s].id>>
      apart(S) == \A x \in S : x[1] # "brief"
  IN IF call[s].kind = "brief" /\ pc[s] \in {"check", "lock"}
     THEN /\ child[s]
          /\ \/ Len(todo[s]) = 1 /\ todo[s][1].key = k /\ pend[s] = <<>>
             \/ pc[s] = "check" /\ todo[s] = <<>> /\ Len(pend[s]) = 1 /\ pend[s][1].key = k
     ELSE apart(Keys(todo[s])) /\ apart(Keys(pend[s]))

SessionInv == \A s \in Session : Control(s) /\ OwnRow(s) /\ Writer(s) /\ BriefDebits(s)

\* Whatever the callers see and whenever they see it, the balance and every
\* balance_after stay at zero or above (the CHECK of credit_ledger, and the
\* test before the row is built).
NonNegative ==
  /\ balance >= 0
  /\ \A i \in DOMAIN entries : entries[i].after >= 0

\* organizations.credit_balance is a cache of the latest balance_after
\* (CreditLedgerEntry), although each session writes a value of its own.
BalanceIsLatest == entries # <<>> /\ balance = entries[Len(entries)].after

\* No movement is applied twice: two rows never carry the same key, so an
\* order is credited once although the request, its retry and the webhook all
\* try, and a period is granted and expired once.
OneEntryPerKey ==
  \A i, j \in DOMAIN entries : entries[i].key = entries[j].key => i = j

\* A race may lose a movement, never invent credits: every row starts from the
\* balance that some earlier row left, its predecessor or an older one.
NothingInvented ==
  \A i \in DOMAIN entries : i > 1 =>
    \E j \in 1 .. (i - 1) : entries[i].after = entries[j].after + entries[i].delta

\* The rows can be trusted, whatever races for them: nothing below zero, nothing
\* applied twice, no balance out of nowhere, and the cached balance that of the
\* newest row.
LedgerSound == NonNegative /\ BalanceIsLatest /\ OneEntryPerKey /\ NothingInvented

\* A brief is stored if and only if it has been paid for.
BriefsPaidFor ==
  \A k \in BriefKey : <<"brief", k>> \in rows <=> <<"brief", k>> \in Keys(entries)

\* Two spends never see the same balance: every row starts from the balance
\* its predecessor left, so that the balance is the sum of the movements.
Chained ==
  \A i \in DOMAIN entries : i > 1 => entries[i].after = entries[i - 1].after + entries[i].delta

\* What the next step of an open session waits for: other sessions' locks.
CanGoOn(s) ==
  pc[s] \in {"begun", "check"} \/ MayInsert(s) \/ MayCharge(s) \/ MayLock(s) \/ InCycle(s)

NobodyStuck ==
  (\E s \in Session : pc[s] \in Open) => \E s \in Session : pc[s] \in Open /\ CanGoOn(s)

GuardsTell == \A s \in Session : CanGoOn(s) <=> ENABLED Progress(s)

\* No deadlock: as long as sessions are open one of them can go on, without
\* anybody dying, whatever rows and keys they wait for each other's locks on.
SomeoneGoesOn == NobodyStuck /\ GuardsTell

\* The locked read is what a spend can rely on: a session that loads the
\* organisation only under its lock (the webhook's) continues from the balance
\* of the moment it commits, whatever the sessions that loaded it before do.
LockedReadContinues ==
  [][\A s \in Session :
       Commit(s) /\ Owns(s) /\ ~Preloads(call[s]) =>
         LET first == entries'[Len(entries) + 1]
         IN first.after = balance + first.delta]_vars

\* The keys of the calls that do so, and what each is worth.
FreshKey == ({"grant"} \X {1}) \cup ({"purchase"} \X OrderId) \cup ({"direct"} \X DirectId)

FreshWorth ==
  [k \in FreshKey |-> IF k[1] = "purchase" THEN PackCredits
                      ELSE IF k[1] = "direct" THEN -BriefCost ELSE PlanGrant]
=============================================================================
