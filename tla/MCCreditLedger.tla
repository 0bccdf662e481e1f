--------------------------- MODULE MCCreditLedger ---------------------------
(***************************************************************************)
(* The credit ledger on a small instance, looked at in three ways, one of  *)
(* which the initial state chooses: every kind of call in two sessions at  *)
(* a time, two sessions of fresh callers, or billing periods with one      *)
(* session at a time.                                                      *)
(***************************************************************************)
EXTENDS CreditLedger, TLC

CONSTANTS k1, k2, o1, o2, d1, d2

VARIABLE focus

ledgerVars == <<focus, vars>>

\* What happens in each focus: how many sessions at a time, at which calls, for
\* how long.
Focus ==
  [calls |->
     [open |-> 2, kinds |-> Kinds \ {"lapse", "direct"}, ids |-> {k1, o2}, time |-> 3],
   contract |->
     [open |-> 2, kinds |-> {"reconcile", "direct"},
      ids |-> {o1, d1, d2}, time |-> 1],
   periods |->
     [open |-> 1, kinds |-> {"brief", "purchase", "renew", "change", "lapse"},
      ids |-> {k1, k2, o2}, time |-> 4]]

\* Sessions differ in nothing but their names.
SessionSymmetry == Permutations(Session)

\* A brief is committed while its period runs.  One that is bought between the
\* end of a period and the job that closes it is not counted as spent in either
\* (ledger.py counts the spends before the end): the expiry then takes purchased
\* credits.
BriefsInTime ==
  Len(entries') > Len(entries) /\ entries'[Len(entries')].key[1] = "brief" => sub.end = 0

InFocus ==
  LET f == Focus[focus]
  IN /\ clock' <= f.time
     /\ Cardinality({s \in Session : call'[s] # NoCall}) <= f.open
     /\ \A s \in Session : call'[s] = NoCall \/
          /\ call'[s].kind \in f.kinds
          /\ call'[s].kind \in {"renew", "change", "lapse"} \/ call'[s].id \in f.ids
     /\ focus = "periods" => BriefsInTime

FocusInit == Init /\ focus \in DOMAIN Focus

FocusSpec ==
  /\ FocusInit
  /\ [][Next /\ InFocus /\ UNCHANGED focus]_ledgerVars

\* A ledger read row by row: a brief uses up plan credits before bought ones,
\* an expiry leaves no plan credits.
ReadRow(w, e) ==
  CASE e.key[1] = "grant" -> [w EXCEPT !.plan = @ + e.delta]
    [] e.key[1] = "purchase" -> [w EXCEPT !.bought = @ + e.delta]
    [] e.key[1] = "brief" ->
         [plan |-> w.plan - Least(w.plan, BriefCost),
          bought |-> w.bought - (BriefCost - Least(w.plan, BriefCost))]
    [] e.key[1] = "expiry" -> [w EXCEPT !.plan = 0]

\* What is in the wallet after each row.
Wallets(es) ==
  LET wallet[n \in 0 .. Len(es)] ==
        IF n = 0 THEN [plan |-> 0, bought |-> 0] ELSE ReadRow(wallet[n - 1], es[n])
  IN wallet

\* Plan credits expire at the end of the period and bought ones never do
\* (plans.py): an expiry takes exactly the plan credits that are left, a grant
\* finds none left, and the balance is the two kinds together.
PlanCreditsExpire ==
  focus = "periods" =>
    LET wallet == Wallets(entries)
    IN /\ \A i \in DOMAIN entries :
            /\ entries[i].key[1] = "expiry" => entries[i].delta = -wallet[i - 1].plan
            /\ entries[i].key[1] = "grant" => wallet[i - 1].plan = 0
       /\ balance = wallet[Len(entries)].plan + wallet[Len(entries)].bought

\* The ledger where the callers are fresh; the others leave its opening state.
Promise ==
  INSTANCE LedgerSpec WITH
    Key <- FreshKey, Worth <- FreshWorth,
    Opening <- PlanGrant, OpeningKeys <- {<<"grant", 1>>},
    total <- IF focus = "contract" THEN balance ELSE PlanGrant,
    applied <- IF focus = "contract" THEN Keys(entries) ELSE {<<"grant", 1>>}

\* Used by fresh callers only, the ledger is the one its docstring promises:
\* every movement once, added to the balance the movement before it left.
PromiseKept == Promise!LSpec
=============================================================================
