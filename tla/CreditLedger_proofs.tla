------------------------ MODULE CreditLedger_proofs ------------------------
(***************************************************************************)
(* Proofs about CreditLedger, for any number of sessions, keys, orders and *)
(* instants and any amounts, and about the periods focus of its instance.  *)
(***************************************************************************)
EXTENDS MCCreditLedger, SequenceTheorems, FiniteSetTheorems, TLAPS

\* The part of the invariant that types the variables and bounds the control.
ControlInv == TypeOK /\ \A s \in Session : Control(s) /\ OwnRow(s)

-----------------------------------------------------------------------------
(* What the operators return. *)

LEMMA KindOfCall ==
  ASSUME NEW c \in Call
  PROVE  /\ c # NoCall
         /\ c.kind \in Kinds
         /\ c.kind = "brief" => c.id \in BriefKey
         /\ c.kind \in {"purchase", "reconcile"} => c.id \in OrderId
         /\ Closes(c) => c.id \in Time
         /\ c.kind = "direct" => c.id \in DirectId
BY DEF Call, NoCall, Kinds, Closes

LEMMA RowOfType ==
  ASSUME NEW c \in Call, Inserts(c)
  PROVE  /\ RowOf(c) \in Row
         /\ RowOf(c)[1] = "brief" <=> c.kind = "brief"
         /\ c.kind = "brief" => RowOf(c) = <<"brief", c.id>>
BY KindOfCall DEF RowOf, Row, Inserts, Closes

LEMMA SpentType ==
  ASSUME TypeOK, NEW p, NEW q
  PROVE  Spent(p, q) \in Int
<1> DEFINE I == {i \in DOMAIN entries :
                   entries[i].key[1] = "brief" /\ entries[i].era >= p /\ entries[i].era < q}
<1>1. IsFiniteSet(1 .. Len(entries))
  BY FS_Interval DEF TypeOK
<1>2. I \subseteq 1 .. Len(entries)
  BY DEF TypeOK
<1>3. Cardinality(I) \in Nat
  BY <1>1, <1>2, FS_Subset, FS_CardinalityType
<1>. QED  BY <1>3, AmountAssumption DEF Spent

LEMMA ExpiryType ==
  ASSUME TypeOK, NEW p \in Time, NEW q, NEW shown \in Int
  PROVE  /\ Expiry(p, q, shown) \in Seq(Movement)
         /\ Len(Expiry(p, q, shown)) \in {0, 1}
         /\ Expiry(p, q, shown) # <<>> => Expiry(p, q, shown)[1].key = <<"expiry", p>>
<1>1. Remaining(p, q, shown) \in Int
  BY SpentType, AmountAssumption DEF Remaining, Least, Granted
<1>2. [key |-> <<"expiry", p>>, delta |-> -Remaining(p, q, shown)] \in Movement
  BY <1>1 DEF Movement, MovementKey
<1>. QED  BY <1>2 DEF Expiry

LEMMA MovementKeyType ==
  ASSUME NEW c \in Call, ~Closes(c)
  PROVE  /\ MovementKeyOf(c) \in MovementKey
         /\ MovementKeyOf(c)[1] = "brief" <=> c.kind = "brief"
         /\ c.kind = "brief" => MovementKeyOf(c) = <<"brief", c.id>>
         /\ Amount(c) \in Int
BY KindOfCall, AmountAssumption DEF MovementKeyOf, MovementKey, Amount, Kinds, Closes

LEMMA MovementsType ==
  ASSUME TypeOK, NEW c \in Call, NEW t, t.start \in Time, NEW shown \in Int
  PROVE  /\ Movements(c, t, shown) \in Seq(Movement)
         /\ c.kind = "brief" =>
              /\ Len(Movements(c, t, shown)) = 1
              /\ Movements(c, t, shown)[1].key = <<"brief", c.id>>
         /\ c.kind # "brief" => \A x \in Keys(Movements(c, t, shown)) : x[1] # "brief"
<1>1. CASE ~Closes(c)
  <2> DEFINE m == [key |-> MovementKeyOf(c), delta |-> Amount(c)]
  <2>1. m \in Movement
    BY <1>1, MovementKeyType DEF Movement
  <2>2. Movements(c, t, shown) = <<m>>
    BY <1>1 DEF Movements, Closes
  <2>3. m.key = MovementKeyOf(c)
    OBVIOUS
  <2>. HIDE DEF m
  <2>. QED  BY <1>1, <2>1, <2>2, <2>3, MovementKeyType DEF Keys
<1>2. CASE Closes(c)
  <2> DEFINE q == IF c.kind = "change" THEN c.id ELSE t.end
             e == Expiry(t.start, q, shown)
             g == [key |-> <<"grant", c.id>>, delta |-> PlanGrant]
  <2>1. g \in Movement /\ g.key[1] = "grant"
    BY <1>2, KindOfCall, AmountAssumption DEF Movement, MovementKey
  <2>2. Movements(c, t, shown) = IF c.kind = "lapse" THEN e ELSE e \o <<g>>
    BY <1>2 DEF Movements
  <2>3. /\ e \in Seq(Movement)
        /\ \A i \in 1 .. Len(e) : e[i].key[1] = "expiry"
    <3>. HIDE DEF q
    <3>. QED  BY ExpiryType
  <2>. HIDE DEF e, g, q
  <2>4. <<g>> \in Seq(Movement) /\ Len(<<g>>) = 1 /\ <<g>>[1] = g
    BY <2>1
  <2>5. /\ e \o <<g>> \in Seq(Movement)
        /\ Len(e \o <<g>>) = Len(e) + 1
        /\ \A i \in 1 .. Len(e) + 1 :
             (e \o <<g>>)[i] = IF i <= Len(e) THEN e[i] ELSE <<g>>[i - Len(e)]
    BY <2>3, <2>4, ConcatProperties
  <2>6. \A i \in 1 .. Len(e) + 1 : (e \o <<g>>)[i].key[1] # "brief"
    BY <2>1, <2>3, <2>4, <2>5
  <2>7. c.kind # "brief"
    BY <1>2 DEF Closes
  <2>8. CASE c.kind = "lapse"
    BY <2>2, <2>3, <2>7, <2>8 DEF Keys
  <2>9. CASE c.kind # "lapse"
    BY <2>2, <2>5, <2>6, <2>7, <2>9 DEF Keys
  <2>. QED  BY <2>8, <2>9
<1>. QED  BY <1>1, <1>2

-----------------------------------------------------------------------------
(* Types and control. *)

\* A session that closes leaves the others as they were, provided the rows it
\* adds are its own.
LEMMA CloseControl ==
  ASSUME ControlInv, NEW s \in Session, NEW how \in Ended, Close(s, how),
         balance' \in Int, entries' \in Seq(Entry), clock' \in Time,
         sub' \in [start : Time, end : Time \cup {0}, auto : BOOLEAN],
         rows' \subseteq Row, rows \subseteq rows',
         \A t \in Session \ {s} : child[t] => RowOf(call[t]) \notin rows'
  PROVE  ControlInv'
<1>. USE DEF ControlInv
<1>1. 1 \in Time
  BY TimeAssumption DEF Time
<1>2. TypeOK'
  BY <1>1 DEF TypeOK, Close, NoTerm
<1>3. ASSUME NEW t \in Session PROVE Control(t)'
  <2>1. CASE t = s
    BY <2>1 DEF TypeOK, Close, Control, Ended, Open
  <2>2. CASE t # s
    BY <2>2 DEF TypeOK, Close, Control, Keys
  <2>. QED  BY <2>1, <2>2
<1>4. ASSUME NEW t \in Session PROVE OwnRow(t)'
  BY DEF TypeOK, Close, OwnRow
<1>. QED  BY <1>2, <1>3, <1>4

LEMMA ControlInit == Init => ControlInv
<1>. SUFFICES ASSUME Init PROVE ControlInv
  OBVIOUS
<1> DEFINE g == [key |-> <<"grant", 1>>, delta |-> PlanGrant, after |-> PlanGrant, era |-> 1]
<1>1. g \in Entry
  BY AmountAssumption, TimeAssumption DEF Entry, MovementKey, Time
<1>2. entries = <<g>>
  BY DEF Init
<1>. HIDE DEF g
<1>3. TypeOK
  BY <1>1, <1>2, AmountAssumption, TimeAssumption, CallerAssumption
  DEF Init, TypeOK, Time, Row, Ended, NoTerm
<1>. QED  BY <1>3 DEF Init, ControlInv, Control, OwnRow, Ended, Open

LEMMA RollbackControl ==
  ASSUME ControlInv, NEW s \in Session, NEW how \in Ended, Rollback(s, how)
  PROVE  ControlInv'
BY CloseControl DEF Rollback, db, ControlInv, TypeOK, Control

LEMMA ControlStep == ControlInv /\ [Next]_vars => ControlInv'
<1>. SUFFICES ASSUME ControlInv, [Next]_vars PROVE ControlInv'
  OBVIOUS
<1>. USE DEF ControlInv
<1>1. CASE UNCHANGED vars
  BY <1>1 DEF vars, TypeOK, Control, OwnRow, Keys
<1>2. ASSUME NEW s \in Session, NEW c \in Call, Begin(s, c) PROVE ControlInv'
  <2>1. Movements(c, NoTerm, 0) \in Seq(Movement)
    <3>1. NoTerm.start \in Time /\ 0 \in Int
      BY TimeAssumption DEF NoTerm, Time
    <3>. QED  BY <3>1, MovementsType
  <2>2. NoTerm \in [start : Time, end : Time \cup {0}]
    BY TimeAssumption DEF NoTerm, Time
  <2>3. clock' \in Time
    BY <1>2, KindOfCall DEF Begin, TypeOK, Closes
  <2>4. TypeOK'
    BY <1>2, <2>1, <2>2, <2>3 DEF Begin, TypeOK, Open, Ended
  <2>5. ASSUME NEW t \in Session PROVE Control(t)' /\ OwnRow(t)'
    BY <1>2, KindOfCall DEF Begin, TypeOK, Control, OwnRow, Keys, Open, Ended
  <2>. QED  BY <2>4, <2>5
<1>3. ASSUME NEW s \in Session, Start(s) PROVE ControlInv'
  <2>1. TypeOK'
    BY <1>3 DEF Start, TypeOK, db, Open
  <2>2. ASSUME NEW t \in Session PROVE Control(t)' /\ OwnRow(t)'
    BY <1>3 DEF Start, TypeOK, db, Control, OwnRow, Keys, Open, Ended
  <2>. QED  BY <2>1, <2>2
<1>4. ASSUME NEW s \in Session, Recharge(s) PROVE ControlInv'
  <2>1. TypeOK'
    BY <1>4 DEF Recharge, TypeOK, db, Open
  <2>2. ASSUME NEW t \in Session PROVE Control(t)' /\ OwnRow(t)'
    BY <1>4 DEF Recharge, TypeOK, db, Control, OwnRow, Keys, Open, Ended
  <2>. QED  BY <2>1, <2>2
<1>5. ASSUME NEW s \in Session, Settled(s) PROVE ControlInv'
  <2>1. call[s] \in Call
    BY <1>5 DEF Settled, Control, Open
  <2>2. Movements(call[s], term[s], snap[s]) \in Seq(Movement)
    BY <2>1, MovementsType DEF TypeOK
  <2>3. TypeOK'
    BY <1>5, <2>2 DEF Settled, TypeOK, db, Open
  <2>4. ASSUME NEW t \in Session PROVE Control(t)' /\ OwnRow(t)'
    BY <1>5 DEF Settled, TypeOK, db, Control, OwnRow, Keys, Open, Ended
  <2>. QED  BY <2>3, <2>4
<1>6. CASE Tick
  <2>1. clock' \in Time /\ sub' \in [start : Time, end : Time \cup {0}, auto : BOOLEAN]
    <3>1. clock \in 1 .. MaxTime /\ MaxTime \in Nat /\ clock < MaxTime /\ clock' = clock + 1
      BY <1>6, TimeAssumption DEF Tick, TypeOK, Time
    <3>2. clock' \in Time
      BY <3>1 DEF Time
    <3>3. sub' = sub \/ sub' = [sub EXCEPT !.end = clock']
      BY <1>6 DEF Tick
    <3>. QED  BY <3>2, <3>3 DEF TypeOK
  <2>2. TypeOK'
    BY <1>6, <2>1 DEF Tick, TypeOK
  <2>3. ASSUME NEW t \in Session PROVE Control(t)' /\ OwnRow(t)'
    BY <1>6 DEF Tick, Control, OwnRow, Keys
  <2>. QED  BY <2>2, <2>3
<1>7. ASSUME NEW s \in Session, Insert(s) PROVE ControlInv'
  <2>1. call[s] \in Call /\ Inserts(call[s]) /\ Preloads(call[s])
    BY <1>7 DEF Insert, MayInsert, Control, Open, Preloads
  <2>2. Movements(call[s], term[s], snap[s]) \in Seq(Movement)
    BY <2>1, MovementsType DEF TypeOK
  <2>3. TypeOK'
    <3>1. /\ child' = [child EXCEPT ![s] = TRUE]
          /\ \/ /\ pc' = [pc EXCEPT ![s] = "check"]
                /\ todo' = [todo EXCEPT ![s] = Movements(call[s], term[s], snap[s])]
             \/ pc' = [pc EXCEPT ![s] = "charge"] /\ todo' = todo
          /\ UNCHANGED <<db, call, era, term, snap, pend>>
      BY <1>7 DEF Insert
    <3>2. pc' \in [Session -> Ended \cup Open]
      BY <3>1 DEF TypeOK, Open
    <3>3. todo' \in [Session -> Seq(Movement)]
      BY <2>2, <3>1 DEF TypeOK
    <3>4. child' \in [Session -> BOOLEAN]
      BY <3>1 DEF TypeOK
    <3>. QED  BY <3>1, <3>2, <3>3, <3>4 DEF TypeOK, db
  <2>4. ASSUME NEW t \in Session PROVE Control(t)' /\ OwnRow(t)'
    <3>1. /\ pc[s] = "work" /\ pc' = [pc EXCEPT ![s] = pc'[s]]
          /\ pc'[s] = IF call[s].kind = "brief" THEN "check" ELSE "charge"
          /\ todo' = [todo EXCEPT ![s] = todo'[s]]
          /\ child' = [child EXCEPT ![s] = TRUE]
          /\ UNCHANGED <<rows, call, pend>>
      BY <1>7 DEF Insert, MayInsert, TypeOK, db
    <3>2. /\ RowOf(call[s]) \notin rows
          /\ \A u \in Session \ {s} : child[u] => RowOf(call[u]) # RowOf(call[s])
      BY <1>7 DEF Insert, MayInsert
    <3>3. OwnRow(t)'
      BY <3>1, <3>2 DEF OwnRow, TypeOK
    <3>4. CASE t = s
      <4>1. child'[s] /\ call'[s] = call[s] /\ rows' = rows /\ pend'[s] = <<>>
        BY <3>1 DEF Control, TypeOK
      <4>2. pc'[s] = "charge" => todo'[s] = <<>> /\ call[s].kind \in {"purchase", "renew", "change"}
        BY <1>7, <2>1, <3>1 DEF Insert, Control, TypeOK, Inserts
      <4>. QED  BY <2>1, <3>1, <3>2, <3>4, <3>3, <4>1, <4>2 DEF Control, Open, Ended
    <3>5. CASE t # s
      <4>1. /\ pc'[t] = pc[t] /\ todo'[t] = todo[t] /\ child'[t] = child[t]
            /\ call'[t] = call[t] /\ pend'[t] = pend[t] /\ rows' = rows
        BY <1>7, <3>5 DEF Insert, TypeOK, db
      <4>. QED  BY <3>3, <4>1 DEF Control, Keys
    <3>. QED  BY <3>3, <3>4, <3>5
  <2>. QED  BY <2>3, <2>4
<1>8. ASSUME NEW s \in Session, Charged(s) PROVE ControlInv'
  <2>1. TypeOK'
    BY <1>8, MovementsType DEF Charged, MayCharge, TypeOK, db, Open, Control
  <2>2. ASSUME NEW t \in Session PROVE Control(t)' /\ OwnRow(t)'
    BY <1>8 DEF Charged, MayCharge, TypeOK, db, Control, OwnRow, Keys, Open, Ended
  <2>. QED  BY <2>1, <2>2
<1>9. ASSUME NEW s \in Session, NotCharged(s) PROVE ControlInv'
  <2>1. call[s] \in Call /\ Inserts(call[s])
    BY <1>9 DEF NotCharged, MayCharge, Control, Open, Inserts
  <2>2. rows' \subseteq Row /\ rows \subseteq rows'
    BY <1>9, <2>1, RowOfType DEF NotCharged, MayCharge, TypeOK
  <2>3. \A t \in Session \ {s} : child[t] => RowOf(call[t]) \notin rows'
    BY <1>9 DEF NotCharged, MayCharge, Control, OwnRow
  <2>4. sub' \in [start : Time, end : Time \cup {0}, auto : BOOLEAN]
    BY <1>9 DEF NotCharged, MayCharge, TypeOK
  <2>. QED  BY <1>9, <2>2, <2>3, <2>4, CloseControl DEF NotCharged, MayCharge, TypeOK, Ended
<1>10. ASSUME NEW s \in Session, Skip(s) PROVE ControlInv'
  BY <1>10, HeadTailProperties DEF Skip, TypeOK, db, Control, OwnRow, Keys, Open, Ended
<1>11. ASSUME NEW s \in Session, Want(s) PROVE ControlInv'
  BY <1>11 DEF Want, Used, TypeOK, db, Control, OwnRow, Keys, Open, Ended
<1>12. ASSUME NEW s \in Session, Apply(s) PROVE ControlInv'
  <2> DEFINE m == Head(todo[s])
             new == Base(s) + m.delta
             e == [key |-> m.key, delta |-> m.delta, after |-> new, era |-> era[s]]
  <2>1. m \in Movement /\ Tail(todo[s]) \in Seq(Movement)
    BY <1>12, HeadTailProperties DEF Apply, MayLock, Control, TypeOK
  <2>2. new \in Int
    BY <2>1 DEF Base, TypeOK, Movement
  <2>3. e \in Entry
    BY <2>1, <2>2 DEF Entry, Movement, TypeOK
  <2>4. /\ pend' = [pend EXCEPT ![s] = Append(@, e)]
        /\ snap' = [snap EXCEPT ![s] = new]
        /\ todo' = [todo EXCEPT ![s] = Tail(@)]
        /\ pc' = [pc EXCEPT ![s] = "check"]
        /\ UNCHANGED <<db, call, era, term, child>>
    BY <1>12 DEF Apply
  <2>. HIDE DEF e, new, m
  <2>5. TypeOK'
    BY <2>1, <2>2, <2>3, <2>4 DEF TypeOK, db, Open
  <2>6. pc[s] = "lock"
    BY <1>12 DEF Apply, MayLock
  <2>7. ASSUME NEW t \in Session PROVE Control(t)' /\ OwnRow(t)'
    BY <2>4, <2>6 DEF TypeOK, db, Control, OwnRow, Keys, Open, Ended
  <2>. QED  BY <2>5, <2>7
<1>13. ASSUME NEW s \in Session, Commit(s) PROVE ControlInv'
  <2>1. /\ call[s] \in Call
        /\ child[s] => Inserts(call[s])
    BY <1>13 DEF Commit, Control, Open
  <2>2. rows' \subseteq Row /\ rows \subseteq rows'
    BY <1>13, <2>1, RowOfType DEF Commit, TypeOK
  <2>3. \A t \in Session \ {s} : child[t] => RowOf(call[t]) \notin rows'
    BY <1>13 DEF Commit, Control, OwnRow
  <2>4. balance' \in Int /\ entries' \in Seq(Entry) /\ clock' \in Time
    BY <1>13, ConcatProperties DEF Commit, Written, TypeOK
  <2>5. sub' \in [start : Time, end : Time \cup {0}, auto : BOOLEAN]
    BY <1>13, <2>1, KindOfCall DEF Commit, TypeOK, Closes
  <2>. QED  BY <1>13, <2>2, <2>3, <2>4, <2>5, CloseControl DEF Commit, Ended
<1>14. ASSUME NEW s \in Session,
              ReturnBrief(s) \/ RefuseBrief(s) \/ InsertConflict(s) \/ Insufficient(s)
                \/ EntryConflict(s) \/ Victim(s) \/ Crash(s)
       PROVE ControlInv'
  BY <1>14, RollbackControl
  DEF ReturnBrief, RefuseBrief, InsertConflict, Insufficient, EntryConflict, Victim, Crash, Ended
<1>. QED
  BY <1>1, <1>2, <1>3, <1>7, <1>8, <1>9, <1>10, <1>11, <1>12, <1>13, <1>14, <1>4, <1>5, <1>6
  DEF Next, Progress

\* The variables keep their types whatever is called, in whatever order.
THEOREM TypeCorrect == Spec => []TypeOK
<1>1. ControlInv => TypeOK
  BY DEF ControlInv
<1>. QED  BY <1>1, ControlInit, ControlStep, PTL DEF Spec

-----------------------------------------------------------------------------
(* The ledger: whoever writes it, from whatever balance it saw. *)

LedgerInv ==
  /\ NonNegative /\ BalanceIsLatest /\ OneEntryPerKey
  /\ \A s \in Session : Writer(s)

LEMMA LedgerInit == Init => LedgerInv
<1>. SUFFICES ASSUME Init PROVE LedgerInv
  OBVIOUS
<1> DEFINE g == [key |-> <<"grant", 1>>, delta |-> PlanGrant, after |-> PlanGrant, era |-> 1]
<1>1. entries = <<g>> /\ g.after = PlanGrant /\ PlanGrant >= 0 /\ balance = PlanGrant
  BY AmountAssumption DEF Init
<1>. HIDE DEF g
<1>2. Len(entries) = 1 /\ entries[1] = g /\ DOMAIN entries = {1} /\ entries # <<>>
  BY <1>1
<1>. QED
  BY <1>1, <1>2
  DEF LedgerInv, NonNegative, BalanceIsLatest, OneEntryPerKey, Writer, Owns, Init

\* Steps that leave the ledger and every session's flushed rows alone.
LEMMA LedgerQuiet ==
  ASSUME LedgerInv, UNCHANGED <<balance, entries, pend>>,
         \A s \in Session : Owns(s) => snap'[s] = snap[s]
  PROVE  LedgerInv'
<1>1. NonNegative' /\ BalanceIsLatest' /\ OneEntryPerKey'
  BY DEF LedgerInv, NonNegative, BalanceIsLatest, OneEntryPerKey
<1>2. ASSUME NEW s \in Session PROVE Writer(s)'
  <2>1. Owns(s)' <=> Owns(s)
    BY DEF Owns
  <2>2. \A t \in Session : Owns(t)' <=> Owns(t)
    BY DEF Owns
  <2>3. Keys(entries)' = Keys(entries) /\ Keys(pend[s])' = Keys(pend[s])
    BY DEF Keys
  <2>4. CASE Owns(s)
    <3>1. Writer(s)
      BY DEF LedgerInv
    <3>. QED  BY <2>2, <2>3, <2>4, <3>1 DEF Writer
  <2>5. CASE ~Owns(s)
    BY <2>1, <2>5 DEF Writer
  <2>. QED  BY <2>4, <2>5
<1>. QED  BY <1>1, <1>2 DEF LedgerInv

LEMMA LedgerClose ==
  ASSUME ControlInv, LedgerInv, NEW s \in Session, NEW how, Close(s, how),
         UNCHANGED <<balance, entries>>
  PROVE  LedgerInv'
<1>1. pend' = [pend EXCEPT ![s] = <<>>] /\ \A t \in Session \ {s} : snap'[t] = snap[t]
  BY DEF Close, ControlInv, TypeOK
<1>2. ASSUME NEW t \in Session PROVE Writer(t)'
  <2>1. CASE t = s
    BY <1>1, <2>1 DEF Writer, Owns, ControlInv, TypeOK
  <2>2. CASE t # s
    <3>1. pend'[t] = pend[t] /\ snap'[t] = snap[t]
      BY <1>1, <2>2 DEF ControlInv, TypeOK
    <3>2. \A u \in Session : Owns(u)' => Owns(u)
      BY <1>1 DEF Owns, ControlInv, TypeOK
    <3>3. Keys(entries)' = Keys(entries) /\ Keys(pend[t])' = Keys(pend[t])
      BY <3>1 DEF Keys
    <3>4. Writer(t)
      BY DEF LedgerInv
    <3>. QED  BY <3>1, <3>2, <3>3, <3>4 DEF Writer
  <2>. QED  BY <2>1, <2>2
<1>. QED  BY <1>2 DEF LedgerInv, NonNegative, BalanceIsLatest, OneEntryPerKey

\* A flush: the row lock leaves one writer, the row it adds carries a new key
\* and the balance it leaves.
LEMMA LedgerApply ==
  ASSUME ControlInv, LedgerInv, NEW s \in Session, Apply(s)
  PROVE  LedgerInv'
<1> DEFINE m == Head(todo[s])
           new == Base(s) + m.delta
           e == [key |-> m.key, delta |-> m.delta, after |-> new, era |-> era[s]]
<1>1. m \in Movement
  BY HeadTailProperties DEF Apply, MayLock, Control, ControlInv, TypeOK
<1>2. new \in Int /\ new >= 0
  BY <1>1 DEF Base, ControlInv, TypeOK, Movement, Apply, Enough
<1>3. e \in Entry
  BY <1>1, <1>2 DEF Entry, Movement, ControlInv, TypeOK
<1>4. /\ pend' = [pend EXCEPT ![s] = Append(@, e)]
      /\ snap' = [snap EXCEPT ![s] = new]
      /\ UNCHANGED <<balance, entries>>
  BY DEF Apply, db
<1>5. e.key \notin Keys(entries) /\ e.key \notin Keys(pend[s])
  BY DEF Apply, MayLock, Taken, Control, ControlInv
<1>6. e.after = new
  OBVIOUS
<1>. HIDE DEF e, new, m
<1>7. \A t \in Session \ {s} : ~Owns(t)
  BY DEF Apply, MayLock, Free
<1>8. pend[s] \in Seq(Entry) /\ snap'[s] = new /\ pend'[s] = Append(pend[s], e)
  BY <1>4 DEF ControlInv, TypeOK
<1>9. /\ Len(pend'[s]) = Len(pend[s]) + 1
      /\ DOMAIN pend[s] = 1 .. Len(pend[s])
      /\ DOMAIN pend'[s] = 1 .. Len(pend[s]) + 1
      /\ \A i \in 1 .. Len(pend[s]) : pend'[s][i] = pend[s][i]
      /\ pend'[s][Len(pend[s]) + 1] = e
      /\ Len(pend[s]) \in Nat
  BY <1>3, <1>8, AppendProperties
<1>10. Owns(s) \/ pend[s] = <<>>
  BY DEF Owns
<1>11. /\ \A i \in DOMAIN pend[s] : pend[s][i].after >= 0 /\ pend[s][i].key # e.key
       /\ \A i, j \in DOMAIN pend[s] : pend[s][i].key = pend[s][j].key => i = j
       /\ \A i \in DOMAIN pend[s] : pend[s][i].key \notin Keys(entries)
  <2>1. \A i \in DOMAIN pend[s] : pend[s][i].key # e.key
    BY <1>5 DEF Keys
  <2>2. CASE Owns(s)
    BY <2>1, <2>2 DEF LedgerInv, Writer, Keys
  <2>3. CASE pend[s] = <<>>
    BY <1>9, <2>3
  <2>. QED  BY <1>10, <2>2, <2>3
<1>12. /\ \A i \in DOMAIN pend'[s] : pend'[s][i].after >= 0
       /\ \A i, j \in DOMAIN pend'[s] : pend'[s][i].key = pend'[s][j].key => i = j
       /\ \A i \in DOMAIN pend'[s] : pend'[s][i].key \notin Keys(entries)
       /\ snap'[s] = pend'[s][Len(pend'[s])].after
  BY <1>2, <1>5, <1>6, <1>8, <1>9, <1>11
<1>13. Writer(s)'
  <2>1. \A t \in Session \ {s} : ~Owns(t)'
    BY <1>4, <1>7 DEF Owns, ControlInv, TypeOK
  <2>2. Keys(pend[s])' \cap Keys(entries)' = {}
    BY <1>4, <1>12 DEF Keys
  <2>. QED  BY <1>12, <2>1, <2>2 DEF Writer
<1>14. ASSUME NEW t \in Session \ {s} PROVE Writer(t)'
  BY <1>4, <1>7 DEF Writer, Owns, ControlInv, TypeOK
<1>. QED
  BY <1>4, <1>13, <1>14 DEF LedgerInv, NonNegative, BalanceIsLatest, OneEntryPerKey

\* A commit of flushed rows: they follow the committed ones, and the balance
\* of the session's organisation is the one their last row shows.
LEMMA LedgerCommit ==
  ASSUME ControlInv, LedgerInv, NEW s \in Session, Commit(s)
  PROVE  LedgerInv'
<1>1. CASE ~Owns(s)
  <2>1. UNCHANGED <<balance, entries>>
    BY <1>1 DEF Commit, Written, Owns, ControlInv, TypeOK
  <2>. QED  BY <2>1, LedgerClose DEF Commit
<1>2. CASE Owns(s)
  <2> DEFINE p == pend[s]
  <2>1. /\ p \in Seq(Entry) /\ entries \in Seq(Entry) /\ p # <<>>
        /\ Len(p) \in Nat \ {0} /\ Len(entries) \in Nat
        /\ DOMAIN p = 1 .. Len(p) /\ DOMAIN entries = 1 .. Len(entries)
    BY <1>2 DEF ControlInv, TypeOK, Owns
  <2>2. entries' = entries \o p /\ balance' = snap[s]
    BY <1>2 DEF Commit, Written
  <2>3. pend' = [pend EXCEPT ![s] = <<>>]
    BY DEF Commit, Close
  <2>4. /\ snap[s] = p[Len(p)].after
        /\ \A i \in DOMAIN p : p[i].after >= 0
        /\ \A i, j \in DOMAIN p : p[i].key = p[j].key => i = j
        /\ \A i \in DOMAIN p, j \in DOMAIN entries : p[i].key # entries[j].key
        /\ \A t \in Session \ {s} : ~Owns(t)
    BY <1>2 DEF LedgerInv, Writer, Keys
  <2>. HIDE DEF p
  <2>5. /\ entries' \in Seq(Entry)
        /\ Len(entries') = Len(entries) + Len(p)
        /\ DOMAIN entries' = 1 .. Len(entries) + Len(p)
        /\ \A i \in 1 .. Len(entries) + Len(p) :
             entries'[i] = IF i <= Len(entries) THEN entries[i] ELSE p[i - Len(entries)]
    BY <2>1, <2>2, ConcatProperties
  <2>10. ASSUME NEW i \in DOMAIN entries', i <= Len(entries)
         PROVE  i \in DOMAIN entries /\ entries'[i] = entries[i]
    BY <2>1, <2>5, <2>10
  <2>11. ASSUME NEW i \in DOMAIN entries', i > Len(entries)
         PROVE  i - Len(entries) \in DOMAIN p /\ entries'[i] = p[i - Len(entries)]
    BY <2>1, <2>5, <2>11
  <2>6. NonNegative'
    <3>1. balance' >= 0
      BY <2>1, <2>2, <2>4
    <3>2. ASSUME NEW i \in DOMAIN entries' PROVE entries'[i].after >= 0
      <4>1. CASE i <= Len(entries)
        BY <2>10, <3>2, <4>1 DEF LedgerInv, NonNegative
      <4>2. CASE i > Len(entries)
        <5>1. entries'[i] = p[i - Len(entries)] /\ i - Len(entries) \in DOMAIN p
          BY <2>11, <3>2, <4>2
        <5>. QED  BY <2>4, <5>1
      <4>. QED  BY <2>1, <2>5, <4>1, <4>2
    <3>. QED  BY <3>1, <3>2 DEF NonNegative
  <2>7. BalanceIsLatest'
    BY <2>1, <2>2, <2>4, <2>5 DEF BalanceIsLatest
  <2>8. OneEntryPerKey'
    <3>1. ASSUME NEW i \in DOMAIN entries', NEW j \in DOMAIN entries',
                 entries'[i].key = entries'[j].key
          PROVE  i = j
      <4>1. \A a, b \in DOMAIN entries : entries[a].key = entries[b].key => a = b
        BY DEF LedgerInv, OneEntryPerKey
      <4>2. CASE i <= Len(entries) /\ j <= Len(entries)
        BY <2>1, <2>5, <3>1, <4>1, <4>2
      <4>3. CASE i > Len(entries) /\ j > Len(entries)
        <5>1. p[i - Len(entries)].key = p[j - Len(entries)].key
          BY <2>1, <2>5, <3>1, <4>3
        <5>2. i - Len(entries) \in DOMAIN p /\ j - Len(entries) \in DOMAIN p
          BY <2>1, <2>5, <4>3
        <5>3. i - Len(entries) = j - Len(entries)
          BY <2>4, <5>1, <5>2
        <5>. QED  BY <2>1, <2>5, <5>3
      <4>4. CASE i <= Len(entries) /\ j > Len(entries)
        <5>1. i \in DOMAIN entries /\ entries'[i] = entries[i]
          BY <2>10, <3>1, <4>4
        <5>2. j - Len(entries) \in DOMAIN p /\ entries'[j] = p[j - Len(entries)]
          BY <2>11, <3>1, <4>4
        <5>3. entries[i].key = p[j - Len(entries)].key
          BY <3>1, <5>1, <5>2
        <5>. QED  BY <2>4, <5>1, <5>2, <5>3
      <4>5. CASE i > Len(entries) /\ j <= Len(entries)
        <5>1. j \in DOMAIN entries /\ entries'[j] = entries[j]
          BY <2>10, <3>1, <4>5
        <5>2. i - Len(entries) \in DOMAIN p /\ entries'[i] = p[i - Len(entries)]
          BY <2>11, <3>1, <4>5
        <5>3. entries[j].key = p[i - Len(entries)].key
          BY <3>1, <5>1, <5>2
        <5>. QED  BY <2>4, <5>1, <5>2, <5>3
      <4>. QED  BY <2>1, <2>5, <4>2, <4>3, <4>4, <4>5
    <3>. QED  BY <3>1 DEF OneEntryPerKey
  <2>9. ASSUME NEW t \in Session PROVE Writer(t)'
    <3>1. ~Owns(t)'
      BY <2>3, <2>4 DEF Owns, ControlInv, TypeOK
    <3>. QED  BY <3>1 DEF Writer
  <2>. QED  BY <2>6, <2>7, <2>8, <2>9 DEF LedgerInv
<1>. QED  BY <1>1, <1>2

LEMMA LedgerStep == ControlInv /\ LedgerInv /\ [Next]_vars => LedgerInv'
<1>. SUFFICES ASSUME ControlInv, LedgerInv, [Next]_vars PROVE LedgerInv'
  OBVIOUS
<1>1. CASE UNCHANGED vars
  BY <1>1, LedgerQuiet DEF vars
<1>2. ASSUME NEW s \in Session, NEW c \in Call, Begin(s, c) PROVE LedgerInv'
  <2>1. ~Owns(s)
    BY <1>2 DEF Begin, ControlInv, Control, Owns
  <2>. QED  BY <1>2, <2>1, LedgerQuiet DEF Begin, db, ControlInv, TypeOK
<1>3. ASSUME NEW s \in Session,
             Start(s) \/ Recharge(s) \/ Settled(s) \/ Insert(s) \/ Charged(s) \/ Skip(s) \/ Want(s)
      PROVE  LedgerInv'
  BY <1>3, LedgerQuiet DEF Start, Recharge, Settled, Insert, Charged, Skip, Want, db
<1>4. CASE Tick
  BY <1>4, LedgerQuiet DEF Tick
<1>5. ASSUME NEW s \in Session,
             ReturnBrief(s) \/ RefuseBrief(s) \/ InsertConflict(s) \/ NotCharged(s)
               \/ Insufficient(s) \/ EntryConflict(s) \/ Victim(s) \/ Crash(s)
      PROVE  LedgerInv'
  BY <1>5, LedgerClose
  DEF ReturnBrief, RefuseBrief, InsertConflict, NotCharged, Insufficient, EntryConflict,
      Victim, Crash, Rollback, db
<1>. QED
  BY <1>1, <1>2, <1>3, <1>5, <1>4, LedgerApply, LedgerCommit DEF Next, Progress

LEMMA LedgerAlways == Spec => [](ControlInv /\ LedgerInv)
BY ControlInit, ControlStep, LedgerInit, LedgerStep, PTL DEF Spec

\* No interleaving of stale balances makes a balance or a balance_after
\* negative.
THEOREM NeverNegative == Spec => []NonNegative
<1>1. ControlInv /\ LedgerInv => NonNegative
  BY DEF LedgerInv
<1>. QED  BY <1>1, LedgerAlways, PTL

\* organizations.credit_balance is at every moment the balance_after of the
\* newest row.
THEOREM BalanceCachesLatest == Spec => []BalanceIsLatest
<1>1. ControlInv /\ LedgerInv => BalanceIsLatest
  BY DEF LedgerInv
<1>. QED  BY <1>1, LedgerAlways, PTL

\* A key moves credits at most once, however often and from wherever it is
\* tried.
THEOREM AppliedOnce == Spec => []OneEntryPerKey
<1>1. ControlInv /\ LedgerInv => OneEntryPerKey
  BY DEF LedgerInv
<1>. QED  BY <1>1, LedgerAlways, PTL

-----------------------------------------------------------------------------
(* A brief and its debit are one. *)

BriefInv == BriefsPaidFor /\ \A s \in Session : BriefDebits(s)

LEMMA BriefInit == Init => BriefInv
<1>. SUFFICES ASSUME Init PROVE BriefInv
  OBVIOUS
<1> DEFINE g == [key |-> <<"grant", 1>>, delta |-> PlanGrant, after |-> PlanGrant, era |-> 1]
<1>1. entries = <<g>> /\ g.key = <<"grant", 1>>
  BY DEF Init
<1>. HIDE DEF g
<1>2. Keys(entries) = {<<"grant", 1>>}
  BY <1>1 DEF Keys
<1>3. BriefsPaidFor
  BY <1>2 DEF BriefsPaidFor, Init
<1>4. ASSUME NEW s \in Session PROVE BriefDebits(s)
  BY DEF BriefDebits, Keys, Init
<1>. QED  BY <1>3, <1>4 DEF BriefInv

\* The debits of one session do not depend on what the others do.
LEMMA BriefQuiet ==
  ASSUME BriefInv, NEW t \in Session,
         pc'[t] = pc[t], call'[t] = call[t], child'[t] = child[t], todo'[t] = todo[t],
         pend'[t] = pend[t]
  PROVE  BriefDebits(t)'
BY DEF BriefInv, BriefDebits, Keys

LEMMA BriefClose ==
  ASSUME ControlInv, BriefInv, NEW s \in Session, NEW how \in Ended, Close(s, how),
         BriefsPaidFor'
  PROVE  BriefInv'
<1>1. BriefDebits(s)'
  BY DEF Close, BriefDebits, Keys, NoCall, ControlInv, TypeOK, Ended
<1>2. ASSUME NEW t \in Session \ {s} PROVE BriefDebits(t)'
  BY BriefQuiet DEF Close, ControlInv, TypeOK
<1>. QED  BY <1>1, <1>2 DEF BriefInv

LEMMA BriefSkip ==
  ASSUME ControlInv, BriefInv, NEW s \in Session, Skip(s)
  PROVE  BriefInv'
<1>1. BriefsPaidFor'
  BY DEF Skip, db, BriefInv, BriefsPaidFor, Keys
<1>2. call[s] \in Call /\ todo[s] \in Seq(Movement) /\ todo[s] # <<>>
  BY DEF Skip, ControlInv, Control, TypeOK, Open
<1>3. call[s].kind # "brief"
  <2>. SUFFICES ASSUME call[s].kind = "brief" PROVE FALSE
    OBVIOUS
  <2>1. child[s] /\ Head(todo[s]).key = <<"brief", call[s].id>> /\ pend[s] = <<>>
    BY <1>2 DEF Skip, BriefInv, BriefDebits
  <2>2. <<"brief", call[s].id>> \in Keys(entries)
    BY <2>1 DEF Skip, Used, Keys
  <2>3. RowOf(call[s]) = <<"brief", call[s].id>> /\ call[s].id \in BriefKey
    BY <1>2, <2>1, RowOfType, KindOfCall DEF ControlInv, Control
  <2>. QED  BY <2>1, <2>2, <2>3 DEF BriefInv, BriefsPaidFor, ControlInv, Control
<1>4. Keys(Tail(todo[s])) \subseteq Keys(todo[s])
  BY <1>2, HeadTailProperties DEF Keys
<1>5. BriefDebits(s)'
  <2>1. /\ pc' = pc /\ call' = call /\ pend' = pend /\ todo'[s] = Tail(todo[s])
    BY DEF Skip, ControlInv, TypeOK
  <2>2. Keys(todo[s])' \subseteq Keys(todo[s]) /\ Keys(pend[s])' = Keys(pend[s])
    BY <1>4, <2>1 DEF Keys
  <2>. QED  BY <1>3, <2>1, <2>2 DEF BriefInv, BriefDebits
<1>6. ASSUME NEW t \in Session \ {s} PROVE BriefDebits(t)'
  BY BriefQuiet DEF Skip, ControlInv, TypeOK
<1>. QED  BY <1>1, <1>5, <1>6 DEF BriefInv

LEMMA BriefApply ==
  ASSUME ControlInv, BriefInv, NEW s \in Session, Apply(s)
  PROVE  BriefInv'
<1> DEFINE m == Head(todo[s])
           new == Base(s) + m.delta
           e == [key |-> m.key, delta |-> m.delta, after |-> new, era |-> era[s]]
<1>1. /\ pend'[s] = Append(pend[s], e) /\ todo'[s] = Tail(todo[s]) /\ pc'[s] = "check"
      /\ call' = call /\ child' = child /\ pc[s] = "lock"
      /\ UNCHANGED <<entries, rows>>
  BY DEF Apply, MayLock, db, ControlInv, TypeOK
<1>2. /\ todo[s] \in Seq(Movement) /\ todo[s] # <<>> /\ m \in Movement
      /\ Tail(todo[s]) \in Seq(Movement) /\ Len(Tail(todo[s])) = Len(todo[s]) - 1
  BY <1>1, HeadTailProperties DEF ControlInv, Control, TypeOK
<1>3. e \in Entry /\ e.key = m.key
  BY <1>2 DEF Entry, Movement, Base, ControlInv, TypeOK
<1>4. m = todo[s][1]
  BY <1>2
<1>. HIDE DEF m, new, e
<1>5. pend[s] \in Seq(Entry)
  BY DEF ControlInv, TypeOK
<1>6. /\ Len(Append(pend[s], e)) = Len(pend[s]) + 1
      /\ Append(pend[s], e)[Len(pend[s]) + 1] = e
      /\ \A i \in 1 .. Len(pend[s]) : Append(pend[s], e)[i] = pend[s][i]
      /\ Append(pend[s], e) \in Seq(Entry)
  BY <1>3, <1>5, AppendProperties
<1>7. BriefDebits(s)'
  <2>1. CASE call[s].kind = "brief"
    <3>1. /\ child[s] /\ Len(todo[s]) = 1 /\ pend[s] = <<>>
          /\ todo[s][1].key = <<"brief", call[s].id>>
      BY <1>1, <2>1 DEF BriefInv, BriefDebits
    <3>2. Tail(todo[s]) = <<>>
      <4>1. Len(Tail(todo[s])) = 0
        BY <1>2, <3>1
      <4>. QED  BY <1>2, <4>1, EmptySeq
    <3>3. Len(pend'[s]) = 1 /\ pend'[s][1].key = <<"brief", call[s].id>>
      BY <1>1, <1>3, <1>4, <1>6, <3>1
    <3>. QED  BY <1>1, <2>1, <3>1, <3>2, <3>3 DEF BriefDebits
  <2>2. CASE call[s].kind # "brief"
    <3>1. /\ \A x \in Keys(todo[s]) : x[1] # "brief"
          /\ \A x \in Keys(pend[s]) : x[1] # "brief"
      BY <2>2 DEF BriefInv, BriefDebits
    <3>2. Keys(Tail(todo[s])) \subseteq Keys(todo[s]) /\ m.key \in Keys(todo[s])
      BY <1>2, <1>4, HeadTailProperties DEF Keys
    <3>3. Keys(pend'[s]) \subseteq Keys(pend[s]) \cup {m.key}
      BY <1>1, <1>3, <1>5, <1>6 DEF Keys
    <3>4. /\ \A x \in Keys(todo'[s]) : x[1] # "brief"
          /\ \A x \in Keys(pend'[s]) : x[1] # "brief"
      BY <1>1, <3>1, <3>2, <3>3
    <3>. QED  BY <1>1, <2>2, <3>4 DEF BriefDebits, Keys
  <2>. QED  BY <2>1, <2>2
<1>8. ASSUME NEW t \in Session \ {s} PROVE BriefDebits(t)'
  BY BriefQuiet DEF Apply, ControlInv, TypeOK
<1>9. BriefsPaidFor'
  BY <1>1 DEF BriefInv, BriefsPaidFor, Keys
<1>. QED  BY <1>7, <1>8, <1>9 DEF BriefInv

LEMMA BriefCommit ==
  ASSUME ControlInv, BriefInv, NEW s \in Session, Commit(s)
  PROVE  BriefInv'
<1>1. /\ pc[s] = "check" /\ todo[s] = <<>> /\ entries' = entries \o pend[s]
      /\ rows' = IF child[s] THEN rows \cup {RowOf(call[s])} ELSE rows
  BY DEF Commit
<1>2. entries \in Seq(Entry) /\ pend[s] \in Seq(Entry) /\ call[s] \in Call
  BY <1>1 DEF ControlInv, TypeOK, Control, Open
<1>3. Keys(entries') = Keys(entries) \cup Keys(pend[s])
  <2>1. /\ Len(entries') = Len(entries) + Len(pend[s])
        /\ entries' \in Seq(Entry)
        /\ \A i \in 1 .. Len(entries) + Len(pend[s]) :
             entries'[i] = IF i <= Len(entries) THEN entries[i] ELSE pend[s][i - Len(entries)]
    BY <1>1, <1>2, ConcatProperties
  <2>2. Len(entries) \in Nat /\ Len(pend[s]) \in Nat
    BY <1>2
  <2>3. Keys(entries') \subseteq Keys(entries) \cup Keys(pend[s])
    BY <1>2, <2>1, <2>2 DEF Keys
  <2>4. Keys(entries) \subseteq Keys(entries')
    BY <1>2, <2>1, <2>2 DEF Keys
  <2>5. ASSUME NEW i \in DOMAIN pend[s] PROVE pend[s][i].key \in Keys(entries')
    <3>1. i \in 1 .. Len(pend[s]) /\ i \in Int
      BY <1>2
    <3>2. i + Len(entries) \in 1 .. Len(entries')
      BY <2>1, <2>2, <3>1
    <3>3. i + Len(entries) \in DOMAIN entries'
      BY <2>1, <3>2
    <3>4. entries'[i + Len(entries)] = pend[s][i]
      <4>1. ~(i + Len(entries) <= Len(entries)) /\ i + Len(entries) - Len(entries) = i
        BY <2>2, <3>1
      <4>2. i + Len(entries) \in 1 .. Len(entries) + Len(pend[s])
        BY <2>2, <3>1
      <4>3. ASSUME NEW k \in 1 .. Len(entries) + Len(pend[s]), ~(k <= Len(entries))
            PROVE  entries'[k] = pend[s][k - Len(entries)]
        BY <2>1, <4>3, Zenon
      <4>. QED  BY <4>1, <4>2, <4>3
    <3>. QED  BY <3>3, <3>4 DEF Keys
  <2>. QED  BY <2>3, <2>4, <2>5 DEF Keys
<1>4. BriefsPaidFor'
  <2>1. CASE call[s].kind = "brief"
    <3>1. /\ child[s] /\ Len(pend[s]) = 1 /\ pend[s][1].key = <<"brief", call[s].id>>
      BY <1>1, <2>1 DEF BriefInv, BriefDebits
    <3>2. Keys(pend[s]) = {<<"brief", call[s].id>>}
      <4>1. DOMAIN pend[s] = {1}
        BY <1>2, <3>1
      <4>. QED  BY <3>1, <4>1 DEF Keys
    <3>3. rows' = rows \cup {<<"brief", call[s].id>>}
      <4>1. Inserts(call[s])
        BY <3>1 DEF ControlInv, Control
      <4>2. RowOf(call[s]) = <<"brief", call[s].id>>
        BY <1>2, <2>1, <4>1, RowOfType
      <4>. QED  BY <1>1, <3>1, <4>2
    <3>. QED  BY <1>3, <3>2, <3>3 DEF BriefInv, BriefsPaidFor, Keys
  <2>2. CASE call[s].kind # "brief"
    <3>1. \A x \in Keys(pend[s]) : x[1] # "brief"
      BY <2>2 DEF BriefInv, BriefDebits
    <3>2. child[s] => RowOf(call[s])[1] # "brief"
      BY <1>2, <2>2, RowOfType DEF ControlInv, Control
    <3>3. ASSUME NEW k \in BriefKey
          PROVE  /\ <<"brief", k>> \in rows' <=> <<"brief", k>> \in rows
                 /\ <<"brief", k>> \in Keys(entries') <=> <<"brief", k>> \in Keys(entries)
      <4>1. <<"brief", k>>[1] = "brief"
        OBVIOUS
      <4>2. <<"brief", k>> \notin Keys(pend[s])
        BY <3>1, <4>1
      <4>3. child[s] => <<"brief", k>> # RowOf(call[s])
        BY <3>2, <4>1
      <4>. QED  BY <1>1, <1>3, <4>2, <4>3
    <3>4. Keys(entries)' = Keys(entries')
      BY DEF Keys
    <3>. QED  BY <3>3, <3>4 DEF BriefInv, BriefsPaidFor
  <2>. QED  BY <2>1, <2>2
<1>. QED  BY <1>4, BriefClose DEF Commit, Ended

LEMMA BriefStep == ControlInv /\ BriefInv /\ [Next]_vars => BriefInv'
<1>. SUFFICES ASSUME ControlInv, BriefInv, [Next]_vars PROVE BriefInv'
  OBVIOUS
<1>1. UNCHANGED <<entries, rows>> => BriefsPaidFor'
  BY DEF BriefInv, BriefsPaidFor, Keys
<1>2. CASE UNCHANGED vars
  BY <1>1, <1>2, BriefQuiet DEF vars, BriefInv
<1>3. ASSUME NEW s \in Session, NEW c \in Call, Begin(s, c) PROVE BriefInv'
  <2>1. BriefDebits(s)'
    <3>1. /\ call'[s] = c /\ pend'[s] = <<>>
          /\ pc'[s] = IF Preloads(c) THEN "begun" ELSE "check"
          /\ todo'[s] = IF Preloads(c) THEN <<>> ELSE Movements(c, NoTerm, 0)
      BY <1>3 DEF Begin, ControlInv, TypeOK, Control
    <3>2. ~Preloads(c) => \A x \in Keys(todo'[s]) : x[1] # "brief"
      <4>1. c.kind # "brief" => \A x \in Keys(Movements(c, NoTerm, 0)) : x[1] # "brief"
        <5>1. TypeOK /\ NoTerm.start \in Time /\ 0 \in Int
          BY TimeAssumption DEF ControlInv, TypeOK, NoTerm, Time
        <5>. QED  BY <5>1, MovementsType
      <4>. QED  BY <3>1, <4>1 DEF Preloads, Inserts, Keys
    <3>. QED  BY <3>1, <3>2 DEF BriefDebits, Preloads, Inserts, Keys
  <2>2. ASSUME NEW t \in Session \ {s} PROVE BriefDebits(t)'
    BY <1>3, BriefQuiet DEF Begin, ControlInv, TypeOK
  <2>. QED  BY <1>1, <1>3, <2>1, <2>2 DEF BriefInv, Begin
<1>4. ASSUME NEW s \in Session, Start(s) PROVE BriefInv'
  <2>1. pc[s] = "begun" /\ todo[s] = <<>> /\ pend[s] = <<>>
    BY <1>4 DEF Start, ControlInv, Control
  <2>2. BriefDebits(s)'
    BY <1>4, <2>1 DEF Start, BriefDebits, Keys, ControlInv, TypeOK
  <2>3. ASSUME NEW t \in Session \ {s} PROVE BriefDebits(t)'
    BY <1>4, BriefQuiet DEF Start, ControlInv, TypeOK
  <2>. QED  BY <1>1, <1>4, <2>2, <2>3 DEF BriefInv, Start, db
<1>5. ASSUME NEW s \in Session, Recharge(s) PROVE BriefInv'
  <2>1. call[s].kind # "brief" /\ todo[s] = <<>> /\ pend[s] = <<>>
    BY <1>5 DEF Recharge, ControlInv, Control
  <2>2. BriefDebits(s)'
    BY <1>5, <2>1 DEF Recharge, BriefDebits, Keys, ControlInv, TypeOK
  <2>3. ASSUME NEW t \in Session \ {s} PROVE BriefDebits(t)'
    BY <1>5, BriefQuiet DEF Recharge, ControlInv, TypeOK
  <2>. QED  BY <1>1, <1>5, <2>2, <2>3 DEF BriefInv, Recharge, db
<1>6. CASE Tick
  BY <1>1, <1>6, BriefQuiet DEF Tick, BriefInv
<1>7. ASSUME NEW s \in Session, Insert(s) PROVE BriefInv'
  <2>1. /\ pc[s] = "work" /\ todo[s] = <<>> /\ pend[s] = <<>> /\ call[s] \in Call
    BY <1>7 DEF Insert, MayInsert, ControlInv, Control, Open
  <2>2. BriefDebits(s)'
    <3>1. CASE call[s].kind = "brief"
      <4>1. /\ child'[s] /\ pc'[s] = "check" /\ pend'[s] = <<>> /\ call'[s] = call[s]
            /\ todo'[s] = Movements(call[s], term[s], snap[s])
        BY <1>7, <2>1, <3>1 DEF Insert, ControlInv, TypeOK
      <4>2. TypeOK /\ term[s].start \in Time /\ snap[s] \in Int
        BY DEF ControlInv, TypeOK
      <4>3. /\ Len(Movements(call[s], term[s], snap[s])) = 1
            /\ Movements(call[s], term[s], snap[s])[1].key = <<"brief", call[s].id>>
        BY <2>1, <3>1, <4>2, MovementsType
      <4>. QED  BY <3>1, <4>1, <4>3 DEF BriefDebits
    <3>2. CASE call[s].kind # "brief"
      BY <1>7, <2>1, <3>2 DEF Insert, BriefDebits, Keys, ControlInv, TypeOK
    <3>. QED  BY <3>1, <3>2
  <2>3. ASSUME NEW t \in Session \ {s} PROVE BriefDebits(t)'
    BY <1>7, BriefQuiet DEF Insert, ControlInv, TypeOK
  <2>. QED  BY <1>1, <1>7, <2>2, <2>3 DEF BriefInv, Insert, db
<1>8. ASSUME NEW s \in Session, Charged(s) \/ Settled(s) PROVE BriefInv'
  <2>1. call[s].kind # "brief" /\ pend[s] = <<>> /\ call[s] \in Call
    BY <1>8 DEF Charged, MayCharge, Settled, ControlInv, Control, Open
  <2>2. todo'[s] = Movements(call[s], term[s], snap[s]) /\ UNCHANGED <<call, pend>>
    BY <1>8 DEF Charged, MayCharge, Settled, ControlInv, TypeOK
  <2>3. \A x \in Keys(todo'[s]) : x[1] # "brief"
    <3>1. TypeOK /\ term[s].start \in Time /\ snap[s] \in Int
      BY DEF ControlInv, TypeOK
    <3>2. \A x \in Keys(Movements(call[s], term[s], snap[s])) : x[1] # "brief"
      BY <2>1, <3>1, MovementsType
    <3>. QED  BY <2>2, <3>2 DEF Keys
  <2>4. BriefDebits(s)'
    BY <2>1, <2>2, <2>3 DEF BriefDebits, Keys
  <2>5. ASSUME NEW t \in Session \ {s} PROVE BriefDebits(t)'
    BY <1>8, BriefQuiet DEF Charged, MayCharge, Settled, ControlInv, TypeOK
  <2>. QED  BY <1>1, <1>8, <2>4, <2>5 DEF BriefInv, Charged, Settled, db
<1>9. ASSUME NEW s \in Session, NotCharged(s) PROVE BriefInv'
  <2>1. call[s].kind # "brief" /\ call[s] \in Call /\ Inserts(call[s])
    BY <1>9 DEF NotCharged, MayCharge, ControlInv, Control, Open, Inserts
  <2>2. RowOf(call[s])[1] # "brief"
    BY <2>1, RowOfType
  <2>3. BriefsPaidFor'
    <3>1. rows' \in {rows, rows \cup {RowOf(call[s])}} /\ entries' = entries
      BY <1>9 DEF NotCharged
    <3>2. \A k \in BriefKey : <<"brief", k>> \in rows' <=> <<"brief", k>> \in rows
      BY <2>2, <3>1
    <3>. QED  BY <3>1, <3>2 DEF BriefInv, BriefsPaidFor, Keys
  <2>. QED  BY <1>9, <2>3, BriefClose DEF NotCharged, MayCharge, Ended
<1>10. ASSUME NEW s \in Session, Want(s) PROVE BriefInv'
  <2>1. BriefDebits(s)'
    BY <1>10 DEF Want, BriefInv, BriefDebits, Keys, ControlInv, TypeOK
  <2>2. ASSUME NEW t \in Session \ {s} PROVE BriefDebits(t)'
    BY <1>10, BriefQuiet DEF Want, ControlInv, TypeOK
  <2>. QED  BY <1>1, <1>10, <2>1, <2>2 DEF BriefInv, Want, db
<1>11. ASSUME NEW s \in Session,
             ReturnBrief(s) \/ RefuseBrief(s) \/ InsertConflict(s) \/ Insufficient(s)
               \/ EntryConflict(s) \/ Victim(s) \/ Crash(s)
      PROVE BriefInv'
  BY <1>1, <1>11, BriefClose
  DEF ReturnBrief, RefuseBrief, InsertConflict, Insufficient, EntryConflict, Victim, Crash,
      Rollback, db, Ended
<1>. QED
  BY <1>2, <1>3, <1>4, <1>7, <1>8, <1>9, <1>10, <1>11, <1>5, <1>6, BriefSkip, BriefApply, BriefCommit
  DEF Next, Progress

\* generate_brief stores no brief that is not paid for and debits no brief that
\* is not stored, whatever fails and whoever asks twice.
THEOREM EveryBriefPaidFor == Spec => []BriefsPaidFor
<1>1. BriefInv => BriefsPaidFor
  BY DEF BriefInv
<1>. QED  BY <1>1, ControlInit, ControlStep, BriefInit, BriefStep, PTL DEF Spec

THEOREM SessionInvariant == Spec => []SessionInv
<1>1. ControlInv /\ LedgerInv /\ BriefInv => SessionInv
  BY DEF ControlInv, LedgerInv, BriefInv, SessionInv
<1>. QED  BY <1>1, LedgerAlways, ControlInit, ControlStep, BriefInit, BriefStep, PTL DEF Spec

-----------------------------------------------------------------------------
(* Where balances come from.  A session that loaded the organisation starts *)
(* from a balance that some row has left; one that loads it under the lock  *)
(* from the balance of now, which nobody else can change while it owns the  *)
(* row; and what a session flushes next continues what it flushed before.   *)

Shown == {entries[j].after : j \in DOMAIN entries}

Rooted(s) ==
  /\ Preloads(call[s]) /\ ~Owns(s) => snap[s] \in Shown
  /\ Owns(s) =>
       \E x \in Shown :
         /\ pend[s][1].after = x + pend[s][1].delta
         /\ ~Preloads(call[s]) => x = balance
  /\ \A i \in DOMAIN pend[s] :
       i > 1 => pend[s][i].after = pend[s][i - 1].after + pend[s][i].delta

RootInv == NothingInvented /\ \A s \in Session : Rooted(s)

LEMMA RootInit == Init => RootInv
<1>. SUFFICES ASSUME Init PROVE RootInv
  OBVIOUS
<1> DEFINE g == [key |-> <<"grant", 1>>, delta |-> PlanGrant, after |-> PlanGrant, era |-> 1]
<1>1. entries = <<g>>
  BY DEF Init
<1>. HIDE DEF g
<1>2. DOMAIN entries = {1}
  BY <1>1
<1>. QED
  BY <1>2 DEF Init, RootInv, NothingInvented, Rooted, Owns, NoCall, Preloads, Inserts

LEMMA BalanceShown ==
  ASSUME ControlInv, LedgerInv
  PROVE  balance \in Shown
BY DEF ControlInv, TypeOK, LedgerInv, BalanceIsLatest, Shown

\* A session alone has moved, and the balance has not.
LEMMA RootQuiet ==
  ASSUME RootInv, UNCHANGED <<balance, entries>>, NEW s \in Session, Rooted(s)',
         \A t \in Session \ {s} : call'[t] = call[t] /\ snap'[t] = snap[t] /\ pend'[t] = pend[t]
  PROVE  RootInv'
<1>1. ASSUME NEW t \in Session \ {s} PROVE Rooted(t)'
  BY DEF RootInv, Rooted, Owns, Shown
<1>. QED  BY <1>1 DEF RootInv, NothingInvented

\* Steps that leave what sessions call, saw and flushed as it is.
LEMMA RootSame ==
  ASSUME RootInv, UNCHANGED <<balance, entries, call, snap, pend>>
  PROVE  RootInv'
BY DEF RootInv, NothingInvented, Rooted, Owns, Shown

LEMMA RootBegin ==
  ASSUME ControlInv, LedgerInv, RootInv, NEW s \in Session, NEW c \in Call, Begin(s, c)
  PROVE  RootInv'
<1>1. /\ pend'[s] = <<>> /\ call'[s] = c
      /\ snap'[s] = IF Preloads(c) THEN balance ELSE 0
      /\ UNCHANGED <<balance, entries>>
  BY DEF Begin, ControlInv, TypeOK, Control
<1>2. Rooted(s)'
  BY <1>1, BalanceShown DEF Rooted, Owns, Shown
<1>. QED  BY <1>1, <1>2, RootQuiet DEF Begin, ControlInv, TypeOK

LEMMA RootClose ==
  ASSUME ControlInv, RootInv, NEW s \in Session, NEW how, Close(s, how),
         UNCHANGED <<balance, entries>>
  PROVE  RootInv'
<1>1. call'[s] = NoCall /\ pend'[s] = <<>>
  BY DEF Close, ControlInv, TypeOK
<1>2. Rooted(s)'
  BY <1>1 DEF Rooted, Owns, NoCall, Preloads, Inserts
<1>. QED  BY <1>2, RootQuiet DEF Close, ControlInv, TypeOK

\* A flush: the first row starts from what the session saw or, under the lock,
\* from the balance; the next ones from the row before them.
LEMMA RootApply ==
  ASSUME ControlInv, LedgerInv, RootInv, NEW s \in Session, Apply(s)
  PROVE  RootInv'
<1> DEFINE m == Head(todo[s])
           new == Base(s) + m.delta
           e == [key |-> m.key, delta |-> m.delta, after |-> new, era |-> era[s]]
<1>1. m \in Movement
  BY HeadTailProperties DEF Apply, MayLock, Control, ControlInv, TypeOK
<1>2. new \in Int
  BY <1>1 DEF Base, ControlInv, TypeOK, Movement
<1>3. e \in Entry /\ e.after = Base(s) + e.delta
  BY <1>1, <1>2 DEF Entry, Movement, ControlInv, TypeOK
<1>4. pend'[s] = Append(pend[s], e) /\ pend[s] \in Seq(Entry) /\ UNCHANGED <<balance, entries, call>>
  BY DEF Apply, db, ControlInv, TypeOK
<1>. HIDE DEF m, new, e
<1>5. /\ Len(pend[s]) \in Nat
      /\ DOMAIN pend[s] = 1 .. Len(pend[s])
      /\ DOMAIN pend'[s] = 1 .. Len(pend[s]) + 1
      /\ \A i \in 1 .. Len(pend[s]) : pend'[s][i] = pend[s][i]
      /\ pend'[s][Len(pend[s]) + 1] = e
      /\ pend'[s] # <<>>
  BY <1>3, <1>4, AppendProperties
<1>6. Rooted(s)
  BY DEF RootInv
<1>7. CASE Owns(s)
  <2>1. Len(pend[s]) \in 1 .. Len(pend[s]) /\ 1 \in 1 .. Len(pend[s])
    BY <1>4, <1>5, <1>7, EmptySeq DEF Owns
  <2>2. snap[s] = pend[s][Len(pend[s])].after
    BY <1>7 DEF LedgerInv, Writer
  <2>3. e.after = pend[s][Len(pend[s])].after + e.delta
    BY <1>3, <1>7, <2>2 DEF Base
  <2>4. \A i \in DOMAIN pend'[s] :
          i > 1 => pend'[s][i].after = pend'[s][i - 1].after + pend'[s][i].delta
    <3>. SUFFICES ASSUME NEW i \in DOMAIN pend'[s], i > 1
                  PROVE  pend'[s][i].after = pend'[s][i - 1].after + pend'[s][i].delta
      OBVIOUS
    <3>1. CASE i \in 1 .. Len(pend[s])
      <4>1. i - 1 \in 1 .. Len(pend[s])
        BY <1>5, <3>1
      <4>2. pend[s][i].after = pend[s][i - 1].after + pend[s][i].delta
        BY <1>5, <1>6, <3>1 DEF Rooted
      <4>. QED  BY <1>5, <3>1, <4>1, <4>2
    <3>2. CASE i = Len(pend[s]) + 1
      <4>1. i - 1 = Len(pend[s])
        BY <1>5, <3>2
      <4>. QED  BY <1>5, <2>1, <2>3, <3>2, <4>1
    <3>. QED  BY <1>5, <3>1, <3>2
  <2>5. pend'[s][1] = pend[s][1]
    BY <1>5, <2>1
  <2>6. Rooted(s)'
    BY <1>4, <1>5, <1>6, <1>7, <2>4, <2>5 DEF Rooted, Owns, Shown
  <2>. QED  BY <1>4, <2>6, RootQuiet DEF Apply, ControlInv, TypeOK
<1>8. CASE ~Owns(s)
  <2>1. Len(pend[s]) = 0
    BY <1>8 DEF Owns
  <2>2. DOMAIN pend'[s] = {1} /\ pend'[s][1] = e
    BY <1>5, <2>1
  <2>3. Base(s) \in Shown /\ (~Preloads(call[s]) => Base(s) = balance)
    BY <1>6, <1>8, BalanceShown DEF Base, Rooted
  <2>4. Rooted(s)'
    BY <1>3, <1>4, <1>5, <2>2, <2>3 DEF Rooted, Owns, Shown
  <2>. QED  BY <1>4, <2>4, RootQuiet DEF Apply, ControlInv, TypeOK
<1>. QED  BY <1>7, <1>8

\* A commit of flushed rows: the first starts from a balance shown before, the
\* others from the row before them; no other session has flushed anything.
LEMMA RootCommit ==
  ASSUME ControlInv, LedgerInv, RootInv, NEW s \in Session, Commit(s)
  PROVE  RootInv'
<1>1. CASE ~Owns(s)
  <2>1. UNCHANGED <<balance, entries>>
    BY <1>1 DEF Commit, Written, Owns, ControlInv, TypeOK
  <2>. QED  BY <2>1, RootClose DEF Commit
<1>2. CASE Owns(s)
  <2> DEFINE p == pend[s]
             n == Len(entries)
  <2>1. /\ p \in Seq(Entry) /\ entries \in Seq(Entry) /\ p # <<>>
        /\ Len(p) \in Nat \ {0} /\ n \in Nat
        /\ DOMAIN p = 1 .. Len(p) /\ DOMAIN entries = 1 .. n
    BY <1>2 DEF ControlInv, TypeOK, Owns
  <2>2. entries' = entries \o p
    BY DEF Commit
  <2>3. /\ \E j \in DOMAIN entries : p[1].after = entries[j].after + p[1].delta
        /\ \A i \in DOMAIN p : i > 1 => p[i].after = p[i - 1].after + p[i].delta
    BY <1>2 DEF RootInv, Rooted, Shown
  <2>. HIDE DEF p, n
  <2>4. /\ DOMAIN entries' = 1 .. n + Len(p)
        /\ \A i \in 1 .. n : entries'[i] = entries[i]
        /\ \A i \in 1 .. Len(p) : entries'[n + i] = p[i]
    <3>1. /\ Len(entries') = n + Len(p) /\ entries' \in Seq(Entry)
          /\ \A i \in 1 .. n + Len(p) :
               entries'[i] = IF i <= n THEN entries[i] ELSE p[i - n]
      BY <2>1, <2>2, ConcatProperties DEF n
    <3>2. ASSUME NEW i \in 1 .. n PROVE entries'[i] = entries[i]
      <4>1. i \in 1 .. n + Len(p) /\ i <= n
        BY <2>1
      <4>. QED  BY <3>1, <4>1
    <3>3. ASSUME NEW i \in 1 .. Len(p) PROVE entries'[n + i] = p[i]
      <4> DEFINE k == n + i
      <4>1. k \in 1 .. n + Len(p) /\ ~(k <= n) /\ k - n = i
        BY <2>1
      <4>. HIDE DEF k
      <4>2. entries'[k] = p[k - n]
        BY <3>1, <4>1
      <4>3. entries'[k] = p[i]
        BY <4>1, <4>2
      <4>. QED  BY <4>3 DEF k
    <3>. QED  BY <3>1, <3>2, <3>3
  <2>5. NothingInvented'
    <3>. SUFFICES ASSUME NEW i \in DOMAIN entries', i > 1
                  PROVE  \E j \in 1 .. (i - 1) :
                           entries'[i].after = entries'[j].after + entries'[i].delta
      BY DEF NothingInvented
    <3>1. CASE i \in 1 .. n
      <4>1. PICK j \in 1 .. (i - 1) : entries[i].after = entries[j].after + entries[i].delta
        BY <2>1, <3>1 DEF RootInv, NothingInvented
      <4>2. j \in 1 .. n
        BY <2>1, <3>1
      <4>. QED  BY <2>4, <3>1, <4>1, <4>2
    <3>2. CASE i = n + 1
      <4>1. PICK j \in DOMAIN entries : p[1].after = entries[j].after + p[1].delta
        BY <2>3
      <4>2. entries'[i] = p[1] /\ entries'[j] = entries[j] /\ j \in 1 .. (i - 1)
        BY <2>1, <2>4, <3>2
      <4>. QED  BY <4>1, <4>2
    <3>3. CASE i > n + 1
      <4>1. i - n \in 1 .. Len(p) /\ i - n > 1 /\ (i - n) - 1 \in 1 .. Len(p)
        BY <2>1, <2>4, <3>3
      <4>2. n + (i - n) = i /\ n + ((i - n) - 1) = i - 1 /\ i - 1 \in 1 .. (i - 1)
        BY <2>1, <2>4, <3>3
      <4>3. entries'[i] = p[i - n] /\ entries'[i - 1] = p[(i - n) - 1]
        BY <2>4, <4>1, <4>2
      <4>4. p[i - n].after = p[(i - n) - 1].after + p[i - n].delta
        BY <2>1, <2>3, <4>1
      <4>. QED  BY <4>2, <4>3, <4>4
    <3>. QED  BY <2>1, <2>4, <3>1, <3>2, <3>3
  <2>6. Shown \subseteq Shown'
    <3>. SUFFICES ASSUME NEW j \in 1 .. n PROVE entries[j].after \in Shown'
      BY <2>1 DEF Shown
    <3>1. j \in DOMAIN entries' /\ entries'[j] = entries[j]
      BY <2>1, <2>4
    <3>. QED  BY <3>1 DEF Shown
  <2>7. ASSUME NEW t \in Session PROVE Rooted(t)'
    <3>1. CASE t = s
      <4>1. call'[s] = NoCall /\ pend'[s] = <<>>
        BY DEF Commit, Close, ControlInv, TypeOK
      <4>. QED  BY <3>1, <4>1 DEF Rooted, Owns, NoCall, Preloads, Inserts
    <3>2. CASE t # s
      <4>1. pend[t] = <<>>
        BY <1>2, <3>2 DEF LedgerInv, Writer, Owns
      <4>2. call'[t] = call[t] /\ snap'[t] = snap[t] /\ pend'[t] = pend[t]
        BY <3>2 DEF Commit, Close, ControlInv, TypeOK
      <4>3. Preloads(call[t]) => snap[t] \in Shown
        BY <4>1 DEF RootInv, Rooted, Owns
      <4>. QED  BY <2>6, <4>1, <4>2, <4>3 DEF Rooted, Owns
    <3>. QED  BY <3>1, <3>2
  <2>. QED  BY <2>5, <2>7 DEF RootInv
<1>. QED  BY <1>1, <1>2

LEMMA RootStep ==
  ASSUME ControlInv, LedgerInv, RootInv, [Next]_vars
  PROVE  RootInv'
<1>1. CASE UNCHANGED vars \/ Tick
  BY <1>1, RootSame DEF vars, Tick
<1>2. ASSUME NEW s \in Session,
             Start(s) \/ Recharge(s) \/ Settled(s) \/ Insert(s) \/ Charged(s) \/ Skip(s) \/ Want(s)
      PROVE  RootInv'
  BY <1>2, RootSame DEF Start, Recharge, Settled, Insert, Charged, Skip, Want, db
<1>3. ASSUME NEW s \in Session,
             ReturnBrief(s) \/ RefuseBrief(s) \/ InsertConflict(s) \/ NotCharged(s)
               \/ Insufficient(s) \/ EntryConflict(s) \/ Victim(s) \/ Crash(s)
      PROVE  RootInv'
  BY <1>3, RootClose
  DEF ReturnBrief, RefuseBrief, InsertConflict, NotCharged, Insufficient, EntryConflict,
      Victim, Crash, Rollback, db
<1>. QED
  BY <1>1, <1>2, <1>3, RootBegin, RootApply, RootCommit DEF Next, Progress

LEMMA RootAlways == Spec => []RootInv
<1>1. ControlInv /\ LedgerInv /\ RootInv /\ [Next]_vars => RootInv'
  BY RootStep
<1>. QED
  BY <1>1, RootInit, LedgerAlways, PTL DEF Spec

\* The rows can be trusted: no race for them makes a balance negative, moves
\* credits twice, leaves a stale cache or makes credits out of nothing.
THEOREM LedgerAlwaysSound == Spec => []LedgerSound
<1>1. ControlInv /\ LedgerInv /\ RootInv => LedgerSound
  BY DEF LedgerInv, RootInv, LedgerSound
<1>. QED  BY <1>1, LedgerAlways, RootAlways, PTL

\* The webhook's credit, or any other call that reads the balance under the
\* lock, is never computed from a balance another call has replaced, among any
\* number of briefs, purchases and renewals that are.
THEOREM LockedReadsContinue == Spec => LockedReadContinues
<1> DEFINE A ==
      \A s \in Session :
        Commit(s) /\ Owns(s) /\ ~Preloads(call[s]) =>
          LET first == entries'[Len(entries) + 1]
          IN first.after = balance + first.delta
<1>1. ASSUME ControlInv, LedgerInv, RootInv, NEW s \in Session,
             Commit(s), Owns(s), ~Preloads(call[s])
      PROVE  entries'[Len(entries) + 1].after = balance + entries'[Len(entries) + 1].delta
  <2>1. /\ pend[s] \in Seq(Entry) /\ entries \in Seq(Entry)
        /\ Len(pend[s]) \in Nat \ {0} /\ Len(entries) \in Nat
    BY <1>1 DEF ControlInv, TypeOK, Owns
  <2>2. entries' = entries \o pend[s]
    BY <1>1 DEF Commit
  <2>3. entries'[Len(entries) + 1] = pend[s][(Len(entries) + 1) - Len(entries)]
    BY <2>1, <2>2, ConcatProperties
  <2>4. (Len(entries) + 1) - Len(entries) = 1
    BY <2>1
  <2>5. pend[s][1].after = balance + pend[s][1].delta
    BY <1>1 DEF RootInv, Rooted
  <2>. QED  BY <2>3, <2>4, <2>5
<1>2. ControlInv /\ LedgerInv /\ RootInv /\ [Next]_vars => [A]_vars
  BY <1>1
<1>. HIDE DEF A
<1>3. Spec => [][A]_vars
  BY <1>2, LedgerAlways, RootAlways, PTL DEF Spec
<1>. QED  BY <1>3 DEF A, LockedReadContinues

(***************************************************************************)
(* No deadlock.  Who has flushed movements holds the organisation alone,   *)
(* and who settles an order has its row or has found it.  So nobody waits  *)
(* for a session that waits itself, but in the cycles that the database    *)
(* ends.                                                                   *)
(***************************************************************************)
Holds(s) ==
  /\ Owns(s) => \A t \in Session \ {s} : ~child[t]
  /\ \A order \in OrderId : Settles(s, order) => child[s] \/ <<"order", order>> \in rows

WaitInv == \A s \in Session : Holds(s)

LEMMA WaitInit == Init => WaitInv
BY DEF Init, WaitInv, Holds, Owns, Settles

\* Nobody takes a row, a movement or an order.
LEMMA WaitQuiet ==
  ASSUME ControlInv, WaitInv, rows \subseteq rows',
         \A t \in Session :
           /\ pend'[t] = pend[t] \/ pend'[t] = <<>>
           /\ child'[t] => child[t]
           /\ child'[t] = child[t] \/ pc'[t] \notin {"check", "lock"}
           /\ pc'[t] \in {"check", "lock"} => pc[t] \in {"check", "lock"} /\ call'[t] = call[t]
  PROVE  WaitInv'
BY DEF WaitInv, Holds, Owns, Settles

LEMMA WaitClose ==
  ASSUME ControlInv, WaitInv, NEW s \in Session, NEW how \in Ended, Close(s, how), rows \subseteq rows'
  PROVE  WaitInv'
BY WaitQuiet DEF Close, ControlInv, TypeOK, Ended

\* To the ledger, with an order whose row is there or its own.
LEMMA WaitCheck ==
  ASSUME ControlInv, WaitInv, NEW s \in Session, pc' = [pc EXCEPT ![s] = "check"],
         pend[s] = <<>>, call[s] \in Call, call[s].kind = "purchase" => child[s] \/ RowOf(call[s]) \in rows,
         call[s].kind # "reconcile", UNCHANGED <<rows, call, child, pend>>
  PROVE  WaitInv'
<1>1. ASSUME NEW t \in Session, t # s
      PROVE  Holds(t)'
  BY <1>1 DEF WaitInv, Holds, Owns, Settles, ControlInv, TypeOK
<1>2. ASSUME NEW order \in OrderId, Settles(s, order)'
      PROVE  child[s] \/ <<"order", order>> \in rows
  BY <1>2 DEF Settles, RowOf
<1>3. Holds(s)'
  BY <1>2 DEF Holds, Owns
<1>. QED  BY <1>1, <1>3 DEF WaitInv

LEMMA WaitStep == ControlInv /\ WaitInv /\ [Next]_vars => WaitInv'
<1>. SUFFICES ASSUME ControlInv, WaitInv, [Next]_vars PROVE WaitInv'
  OBVIOUS
<1>1. ASSUME UNCHANGED vars \/ Tick
      PROVE  WaitInv'
  BY <1>1, WaitQuiet DEF vars, Tick
<1>2. ASSUME NEW s \in Session, NEW c \in Call, Begin(s, c)
      PROVE  WaitInv'
  <2>1. /\ pc' = [pc EXCEPT ![s] = IF Preloads(c) THEN "begun" ELSE "check"]
        /\ call' = [call EXCEPT ![s] = c] /\ UNCHANGED <<rows, child, pend>>
        /\ pend[s] = <<>> /\ ~child[s]
    BY <1>2 DEF Begin, ControlInv, Control
  <2>2. c.kind = "reconcile" => <<"order", c.id>> \in rows
    BY <1>2 DEF Begin, CanBegin
  <2>3. c.kind = "purchase" => Preloads(c)
    BY DEF Preloads, Inserts
  <2>4. ASSUME NEW t \in Session, t # s
        PROVE  Holds(t)'
    BY <2>1, <2>4 DEF WaitInv, Holds, Owns, Settles, ControlInv, TypeOK
  <2>5. Holds(s)'
    BY <2>1, <2>2, <2>3 DEF WaitInv, Holds, Owns, Settles, ControlInv, TypeOK
  <2>. QED  BY <2>4, <2>5 DEF WaitInv
<1>3. ASSUME NEW s \in Session, Start(s) \/ Recharge(s)
      PROVE  WaitInv'
  BY <1>3, WaitQuiet DEF Start, Recharge, db, ControlInv, TypeOK
<1>4. ASSUME NEW s \in Session, Settled(s)
      PROVE  WaitInv'
  BY <1>4, WaitCheck DEF Settled, db, ControlInv, Control, Open
<1>5. ASSUME NEW s \in Session, Insert(s)
      PROVE  WaitInv'
  <2>1. /\ pc[s] = "work" /\ pend[s] = <<>> /\ NoOwner(s) /\ UNCHANGED <<rows, call, pend>>
        /\ child' = [child EXCEPT ![s] = TRUE]
        /\ \E at \in {"check", "charge"} : pc' = [pc EXCEPT ![s] = at]
    BY <1>5 DEF Insert, MayInsert, db, ControlInv, Control
  <2>2. ASSUME NEW t \in Session, t # s
        PROVE  Holds(t)'
    BY <2>1, <2>2 DEF NoOwner, WaitInv, Holds, Owns, Settles, ControlInv, TypeOK
  <2>3. Holds(s)'
    BY <2>1 DEF Holds, Owns, Settles, ControlInv, TypeOK
  <2>. QED  BY <2>2, <2>3 DEF WaitInv
<1>6. ASSUME NEW s \in Session, Charged(s)
      PROVE  WaitInv'
  BY <1>6, WaitCheck DEF Charged, MayCharge, db, ControlInv, Control, Open
<1>7. ASSUME NEW s \in Session, NotCharged(s)
      PROVE  WaitInv'
  BY <1>7, WaitClose DEF NotCharged, Ended
<1>8. ASSUME NEW s \in Session, Skip(s) \/ Want(s)
      PROVE  WaitInv'
  BY <1>8, WaitQuiet DEF Skip, Want, db, ControlInv, TypeOK
<1>9. ASSUME NEW s \in Session, Apply(s)
      PROVE  WaitInv'
  <2>1. /\ pc[s] = "lock" /\ Free(s) /\ UNCHANGED <<rows, call, child>>
        /\ pc' = [pc EXCEPT ![s] = "check"]
        /\ \A t \in Session \ {s} : pend'[t] = pend[t]
    BY <1>9 DEF Apply, MayLock, db, ControlInv, TypeOK
  <2>2. ASSUME NEW t \in Session
        PROVE  Holds(t)'
    BY <2>1 DEF Free, WaitInv, Holds, Owns, Settles, ControlInv, TypeOK
  <2>. QED  BY <2>2 DEF WaitInv
<1>10. ASSUME NEW s \in Session, Commit(s)
       PROVE  WaitInv'
  BY <1>10, WaitClose DEF Commit, Ended
<1>11. ASSUME NEW s \in Session,
              ReturnBrief(s) \/ RefuseBrief(s) \/ InsertConflict(s) \/ Insufficient(s)
                \/ EntryConflict(s) \/ Victim(s) \/ Crash(s)
       PROVE WaitInv'
  BY <1>11, WaitClose
  DEF ReturnBrief, RefuseBrief, InsertConflict, Insufficient, EntryConflict, Victim, Crash, Rollback, db, Ended
<1>. QED
  BY <1>1, <1>2, <1>3, <1>4, <1>5, <1>6, <1>7, <1>8, <1>9, <1>10, <1>11 DEF Next, Progress

\* Whoever waits for a lock waits for a session that can go on.
LEMMA WaitsEnd ==
  ASSUME ControlInv, LedgerInv, WaitInv, NEW s \in Session, pc[s] \in Open,
         \A t \in Session : pc[t] \in Open => ~CanGoOn(t)
  PROVE  FALSE
<1>1. \A t \in Session : pc[t] \notin {"begun", "check"} /\ (pc[t] \in Open => pc[t] \in {"work", "charge", "lock"})
  BY DEF CanGoOn, Open
\* A fresh payment row: nobody else can settle its order.
<1>2. \A t \in Session : pc[t] = "charge" => ~child[t]
  <2>. SUFFICES ASSUME NEW t \in Session, pc[t] = "charge", child[t]
                PROVE  FALSE
    OBVIOUS
  <2>1. /\ call[t] \in Call /\ RowOf(call[t]) \notin rows
        /\ call[t].kind = "purchase" => RowOf(call[t]) = <<"order", call[t].id>>
    BY DEF ControlInv, Control, Open, RowOf
  <2>2. /\ call[t].kind = "purchase" /\ ~OrderFree(t, call[t].id)
    BY DEF CanGoOn, MayCharge, Open
  <2>3. PICK u \in Session \ {t} : Settles(u, call[t].id)
    BY <2>2 DEF OrderFree
  <2>4. call[u].kind \in {"purchase", "reconcile"} /\ call[u].id = call[t].id
    BY <2>3 DEF Settles
  <2>5. call[t].id \in OrderId
    BY <2>1, <2>2, KindOfCall
  <2>6. child[u] \/ RowOf(call[t]) \in rows
    BY <2>1, <2>2, <2>3, <2>5 DEF WaitInv, Holds
  <2>7. child[u]
    BY <2>1, <2>6
  <2>8. RowOf(call[u]) = RowOf(call[t])
    <3>1. call[u].kind = "purchase"
      BY <2>4, <2>7 DEF ControlInv, Control, Inserts
    <3>. QED  BY <2>2, <2>4, <3>1 DEF RowOf
  <2>. QED  BY <2>7, <2>8 DEF ControlInv, OwnRow
<1>3. \A t \in Session : child[t] => pc[t] = "lock"
  BY <1>1, <1>2 DEF ControlInv, Control
<1>4. \A t \in Session : Owns(t) => pc[t] = "lock"
  BY <1>1 DEF ControlInv, Control, Owns, Open, TypeOK
<1>5. ASSUME NEW t \in Session, pc[t] = "lock"
      PROVE  \E u \in Session \ {t} : child[u]
  <2>1. PICK u \in Session \ {t} : Owns(u) \/ child[u]
    BY <1>5 DEF CanGoOn, MayLock, Free, Open
  <2>2. CASE Owns(u)
    <3>1. pc[u] = "lock"
      BY <1>4, <2>2
    <3>2. PICK v \in Session \ {u} : Owns(v) \/ child[v]
      BY <3>1 DEF CanGoOn, MayLock, Free, Open
    <3>. QED  BY <2>2, <3>2 DEF LedgerInv, Writer, WaitInv, Holds
  <2>. QED  BY <2>1, <2>2
<1>6. \A t \in Session : ~child[t]
  <2>. SUFFICES ASSUME NEW t \in Session, child[t]
                PROVE  FALSE
    OBVIOUS
  <2>1. pc[t] = "lock"
    BY <1>3
  <2>2. PICK u \in Session \ {t} : child[u]
    BY <1>5, <2>1
  <2>3. pc[u] = "lock"
    BY <1>3, <2>2
  <2>. QED  BY <2>1, <2>2, <2>3 DEF CanGoOn, InCycle, Open
<1>7. \A t \in Session : pc[t] # "lock"
  BY <1>5, <1>6
<1>8. pc[s] # "charge"
  BY <1>1, <1>7 DEF CanGoOn, MayCharge, OrderFree, Settles, Open
<1>9. pc[s] # "work"
  BY <1>4, <1>6, <1>7 DEF CanGoOn, MayInsert, NoOwner, Open
<1>. QED  BY <1>1, <1>7, <1>8, <1>9

\* As long as sessions are open one of them waits for nobody, whatever rows and
\* keys the others wait for (ledger.py's FOR UPDATE, the unique indexes, the
\* payment row of an order).
THEOREM NobodyIsStuck == Spec => []NobodyStuck
<1>1. ControlInv /\ LedgerInv /\ WaitInv => NobodyStuck
  BY WaitsEnd DEF NobodyStuck
<1>2. Spec => []WaitInv
  <2>1. Spec => []ControlInv
    BY LedgerAlways, PTL
  <2>. QED  BY <2>1, WaitInit, WaitStep, PTL DEF Spec
<1>. QED  BY <1>1, <1>2, LedgerAlways, PTL

\* The same of the steps, where a step is possible exactly if the guards say so:
\* GuardsTell is about ENABLED, and the run checks it.
THEOREM SomeoneAlwaysGoesOn == Spec => [](GuardsTell => SomeoneGoesOn)
<1>1. NobodyStuck /\ GuardsTell => SomeoneGoesOn
  BY DEF SomeoneGoesOn
<1>. QED  BY <1>1, NobodyIsStuck, PTL

(***************************************************************************)
(* Billing periods.  Of the two kinds of credits the state knows the plan  *)
(* credits: what is left of the grant of the period that runs, until it    *)
(* expires.  The rest was bought.                                          *)
(***************************************************************************)
BriefsSince(p) == {i \in DOMAIN entries : entries[i].key[1] = "brief" /\ entries[i].era >= p}
Unspent(p) == PlanGrant - BriefCost * Cardinality(BriefsSince(p))
Expired == <<"expiry", sub.start>> \in Keys(entries)
PlanLeft == IF Expired \/ Unspent(sub.start) < 0 THEN 0 ELSE Unspent(sub.start)

\* The rows read with the result v, each as it should be.
Reads(w, es) ==
  w = [n \in 0 .. Len(es) |-> IF n = 0 THEN [plan |-> 0, bought |-> 0] ELSE ReadRow(w[n - 1], es[n])]
RightRow(e, before) ==
  /\ e.key[1] = "expiry" => e.delta = -before.plan
  /\ e.key[1] = "grant" => before.plan = 0
Reading(es, v) ==
  /\ \E w : Reads(w, es)
  /\ \A w : Reads(w, es) => w[Len(es)] = v /\ \A i \in DOMAIN es : RightRow(es[i], w[i - 1])

PeriodKinds == {"brief", "purchase", "renew", "change", "lapse"}
Busy == {s \in Session : call[s] # NoCall}
OneBusy == \A s, t \in Busy : s = t

\* What periods there have been: granted before they expire, and over before
\* the next one spends.
Calendar ==
  /\ sub.start <= clock
  /\ <<"grant", sub.start>> \in Keys(entries)
  /\ \A p \in Time : <<"expiry", p>> \in Keys(entries) => <<"grant", p>> \in Keys(entries)
  /\ Expired => sub.end # 0
  /\ \A i \in DOMAIN entries :
       entries[i].key[1] = "brief" => entries[i].era <= clock /\ (sub.end # 0 => entries[i].era < sub.end)

\* What the session that is at work has found.
Found(s) ==
  LET c == call[s]
  IN /\ c.kind \in PeriodKinds
     /\ sub.start <= era[s] /\ era[s] <= clock
     /\ snap[s] = IF pend[s] = <<>> THEN balance ELSE pend[s][Len(pend[s])].after
     /\ Closes(c) => c.id <= clock /\ term[s].start = sub.start
     /\ c.kind \in {"renew", "lapse"} => term[s].end = sub.end /\ sub.end # 0
     /\ c.kind \in {"renew", "change"} =>
          /\ <<"grant", c.id>> \notin Keys(entries)
          /\ \A i \in DOMAIN entries : entries[i].key[1] = "brief" => entries[i].era < c.id

\* The movements of a session, and the row that one of them becomes.
Due(c) == [key |-> MovementKeyOf(c), delta |-> Amount(c)]
Grant(c) == [key |-> <<"grant", c.id>>, delta |-> PlanGrant]
Rest == [key |-> <<"expiry", sub.start>>, delta |-> -PlanLeft]
RowFor(s, m, before) == [key |-> m.key, delta |-> m.delta, after |-> before + m.delta, era |-> era[s]]

\* How far it is with them.
Moves(s) ==
  IF ~Closes(call[s])
  THEN \/ todo[s] = <<Due(call[s])>> /\ pend[s] = <<>>
       \/ todo[s] = <<>> /\ pend[s] \in {<<>>, <<RowFor(s, Due(call[s]), balance)>>}
  ELSE LET after == IF call[s].kind = "lapse" THEN <<>> ELSE <<Grant(call[s])>>
       IN \/ /\ todo[s] # <<>> /\ todo[s] = <<[key |-> <<"expiry", sub.start>>, delta |-> Head(todo[s]).delta]>> \o after
             /\ (~Expired => Head(todo[s]).delta = -PlanLeft)
             /\ pend[s] = <<>>
          \/ todo[s] = after /\ pend[s] = <<>> /\ PlanLeft = 0
          \/ todo[s] = after /\ pend[s] = <<RowFor(s, Rest, balance)>> /\ ~Expired
          \/ /\ todo[s] = <<>> /\ call[s].kind # "lapse"
             /\ \/ pend[s] = <<RowFor(s, Grant(call[s]), balance)>> /\ PlanLeft = 0
                \/ /\ pend[s] = <<RowFor(s, Rest, balance), RowFor(s, Grant(call[s]), balance - PlanLeft)>>
                   /\ ~Expired

PeriodInv ==
  /\ OneBusy /\ Calendar /\ PlanLeft <= balance
  /\ \A s \in Busy : Found(s) /\ (pc[s] \in {"check", "lock"} => Moves(s))

\* The first wallet is empty, and a row is read into the wallet before it.
LEMMA WalletsRead ==
  ASSUME NEW es, \E w : Reads(w, es)
  PROVE  Reads(Wallets(es), es)
<1>1. Wallets(es) = CHOOSE w : Reads(w, es)
  BY DEF Wallets, Reads
<1>. QED  BY <1>1

LEMMA ReadOn ==
  ASSUME NEW es \in Seq(Entry), NEW e \in Entry, NEW v, Reading(es, v), RightRow(e, v)
  PROVE  Reading(Append(es, e), ReadRow(v, e))
<1>. DEFINE more == Append(es, e)
            n == Len(es)
            empty == [plan |-> 0, bought |-> 0]
<1>1. /\ n \in Nat /\ Len(more) = n + 1 /\ DOMAIN more = 1 .. n + 1 /\ DOMAIN es = 1 .. n
      /\ \A i \in 1 .. n : more[i] = es[i]
      /\ more[n + 1] = e
  BY AppendProperties
<1>. HIDE DEF more, n
<1>2. \E u : Reads(u, more)
  <2>1. PICK w : w = [i \in 0 .. n |-> IF i = 0 THEN empty ELSE ReadRow(w[i - 1], es[i])]
    BY DEF Reading, Reads, n
  <2>. DEFINE u == [i \in 0 .. n + 1 |-> IF i <= n THEN w[i] ELSE ReadRow(w[n], e)]
  <2>2. ASSUME NEW i \in 0 .. n + 1
        PROVE  u[i] = IF i = 0 THEN empty ELSE ReadRow(u[i - 1], more[i])
    <3>1. CASE i = 0
      <4>1. w[0] = empty
        BY <1>1, <2>1
      <4>. QED  BY <1>1, <3>1, <4>1
    <3>2. CASE i \in 1 .. n
      <4>1. w[i] = ReadRow(w[i - 1], es[i])
        BY <1>1, <2>1, <3>2
      <4>2. u[i] = w[i] /\ u[i - 1] = w[i - 1] /\ more[i] = es[i] /\ i # 0
        BY <1>1, <3>2
      <4>. QED  BY <4>1, <4>2
    <3>3. CASE i = n + 1
      <4>1. u[i] = ReadRow(w[n], e) /\ u[i - 1] = w[n] /\ more[i] = e /\ i # 0
        BY <1>1, <3>3
      <4>. QED  BY <4>1
    <3>. QED  BY <1>1, <3>1, <3>2, <3>3
  <2>3. u = [i \in 0 .. n + 1 |-> u[i]]
    OBVIOUS
  <2>. HIDE DEF u
  <2>4. u = [i \in 0 .. n + 1 |-> IF i = 0 THEN empty ELSE ReadRow(u[i - 1], more[i])]
    BY <2>2, <2>3
  <2>5. Reads(u, more)
    BY <1>1, <2>4 DEF Reads
  <2>. QED  BY <2>5
<1>3. ASSUME NEW u, Reads(u, more)
      PROVE  u[n + 1] = ReadRow(v, e) /\ \A i \in 1 .. n + 1 : RightRow(more[i], u[i - 1])
  <2>1. u = [i \in 0 .. n + 1 |-> IF i = 0 THEN empty ELSE ReadRow(u[i - 1], more[i])]
    BY <1>1, <1>3 DEF Reads
  <2>. DEFINE w == [i \in 0 .. n |-> u[i]]
  <2>2. ASSUME NEW i \in 0 .. n
        PROVE  w[i] = IF i = 0 THEN empty ELSE ReadRow(w[i - 1], es[i])
    <3>1. u[i] = IF i = 0 THEN empty ELSE ReadRow(u[i - 1], more[i])
      BY <1>1, <2>1
    <3>2. w[i] = u[i] /\ (i # 0 => w[i - 1] = u[i - 1] /\ more[i] = es[i])
      BY <1>1
    <3>. QED  BY <3>1, <3>2
  <2>3. w = [i \in 0 .. n |-> w[i]] /\ \A i \in 0 .. n : w[i] = u[i]
    OBVIOUS
  <2>. HIDE DEF w
  <2>4. Reads(w, es)
    <3>1. w = [i \in 0 .. n |-> IF i = 0 THEN empty ELSE ReadRow(w[i - 1], es[i])]
      BY <2>2, <2>3
    <3>. QED  BY <3>1 DEF Reads, n
  <2>5. w[n] = v /\ \A i \in 1 .. n : RightRow(es[i], w[i - 1])
    BY <1>1, <2>4 DEF Reading, n
  <2>6. u[n] = v /\ \A i \in 1 .. n : RightRow(more[i], u[i - 1])
    BY <1>1, <2>3, <2>5
  <2>7. u[n + 1] = ReadRow(u[n], more[n + 1])
    BY <1>1, <2>1
  <2>8. RightRow(more[n + 1], u[n])
    BY <1>1, <2>6
  <2>. QED  BY <1>1, <2>6, <2>7, <2>8
<1>4. Reading(more, ReadRow(v, e))
  BY <1>1, <1>2, <1>3 DEF Reading
<1>. QED  BY <1>4 DEF more

-----------------------------------------------------------------------------
(* What is left of the plan credits. *)
LEMMA FewBriefs ==
  ASSUME TypeOK, NEW p
  PROVE  IsFiniteSet(BriefsSince(p)) /\ Cardinality(BriefsSince(p)) \in Nat /\ Unspent(p) \in Int
<1>1. IsFiniteSet(1 .. Len(entries))
  BY FS_Interval DEF TypeOK
<1>2. BriefsSince(p) \subseteq 1 .. Len(entries)
  BY DEF TypeOK, BriefsSince
<1>3. IsFiniteSet(BriefsSince(p)) /\ Cardinality(BriefsSince(p)) \in Nat
  BY <1>1, <1>2, FS_Subset, FS_CardinalityType
<1>. QED  BY <1>3, AmountAssumption DEF Unspent

LEMMA LeftType ==
  ASSUME TypeOK
  PROVE  PlanLeft \in Nat
<1>1. Unspent(sub.start) \in Int
  BY FewBriefs
<1>. QED  BY <1>1 DEF PlanLeft

\* Where no rows are added and no period begins, as much is left.
LEMMA SameLeft ==
  ASSUME entries' = entries, sub'.start = sub.start
  PROVE  /\ Expired' <=> Expired
         /\ PlanLeft' = PlanLeft
         /\ \A p : BriefsSince(p)' = BriefsSince(p)
<1>1. \A p : BriefsSince(p)' = BriefsSince(p)
  BY DEF BriefsSince
<1>2. Unspent(sub.start)' = Unspent(sub.start)
  BY DEF Unspent, BriefsSince
<1>3. Expired' <=> Expired
  BY DEF Expired, Keys
<1>. QED  BY <1>1, <1>2, <1>3 DEF PlanLeft

\* The end of the period is the same, or it is now.
NoEarlierEnd == sub'.end = sub.end \/ (sub.end = 0 /\ sub'.end = clock + 1 /\ clock' = clock + 1)

LEMMA StillCalendar ==
  ASSUME TypeOK, Calendar, entries' = entries, sub'.start = sub.start, clock' >= clock, clock' \in Int,
         NoEarlierEnd
  PROVE  Calendar'
<1>1. clock \in Int /\ sub.start \in Int /\ \A i \in DOMAIN entries : entries[i].era \in Int
  <2>1. \A i \in DOMAIN entries : entries[i] \in Entry
    BY DEF TypeOK
  <2>. QED  BY <2>1 DEF TypeOK, Time, Entry
<1>2. sub'.start <= clock' /\ Keys(entries)' = Keys(entries)
  BY <1>1 DEF Calendar, Keys
<1>3. Expired' => sub'.end # 0
  BY <1>1, SameLeft DEF Calendar, NoEarlierEnd, TypeOK, Time
<1>4. ASSUME NEW i \in DOMAIN entries, entries[i].key[1] = "brief"
      PROVE  entries[i].era <= clock' /\ (sub'.end # 0 => entries[i].era < sub'.end)
  BY <1>1, <1>4 DEF Calendar, NoEarlierEnd
<1>. QED  BY <1>2, <1>3, <1>4 DEF Calendar

-----------------------------------------------------------------------------
(* One session at a time. *)
\* Everybody but s is as idle as before, or everybody is.
LEMMA Alone ==
  ASSUME OneBusy, NEW s \in Session, \A t \in Session \ {s} : call'[t] = call[t],
         Cardinality(Busy') <= 1
  PROVE  OneBusy' /\ (s \in Busy' => Busy' = {s})
<1>1. IsFiniteSet(Busy')
  <2>1. CASE Busy = {}
    <3>1. Busy' \subseteq {s}
      BY <2>1 DEF Busy
    <3>. QED  BY <3>1, FS_Singleton, FS_Subset
  <2>2. CASE Busy # {}
    <3>1. PICK a \in Busy : Busy = {a}
      BY <2>2 DEF OneBusy
    <3>2. Busy' \subseteq {a} \cup {s}
      BY <3>1 DEF Busy
    <3>3. IsFiniteSet({a} \cup {s})
      BY FS_Singleton, FS_Union
    <3>. QED  BY <3>2, <3>3, FS_Subset
  <2>. QED  BY <2>1, <2>2
<1>2. ASSUME NEW a \in Busy', NEW b \in Busy', a # b
      PROVE  FALSE
  <2>1. {a, b} \subseteq Busy'
    OBVIOUS
  <2>2. Cardinality({a, b}) <= Cardinality(Busy') /\ Cardinality(Busy') \in Nat
    BY <1>1, <2>1, FS_Subset, FS_CardinalityType
  <2>3. Cardinality({a} \cup {b}) = 2
    <3>1. PICK A : A = {a}
      OBVIOUS
    <3>2. IsFiniteSet(A) /\ Cardinality(A) = 1 /\ b \notin A
      BY <1>2, <3>1, FS_Singleton
    <3>3. Cardinality(A \cup {b}) = Cardinality(A) + 1
      BY <3>2, FS_AddElement
    <3>. QED  BY <3>1, <3>2, <3>3
  <2>4. {a, b} = {a} \cup {b}
    OBVIOUS
  <2>. QED  BY <2>2, <2>3, <2>4
<1>3. OneBusy'
  BY <1>2 DEF OneBusy
<1>. QED  BY <1>2, <1>3

\* A step of s that leaves the ledger and the period as they are.
LEMMA Kept ==
  ASSUME ControlInv, PeriodInv, NEW s \in Session, \A t \in Session \ {s} : call'[t] = call[t],
         s \in Busy \cup Busy', Cardinality(Busy') <= 1, UNCHANGED <<balance, entries>>,
         sub'.start = sub.start, clock' \in Int, clock' >= clock, NoEarlierEnd,
         s \in Busy' => Found(s)' /\ (pc'[s] \in {"check", "lock"} => Moves(s)')
  PROVE  PeriodInv'
<1>1. TypeOK /\ Calendar /\ OneBusy /\ PlanLeft <= balance
  BY DEF ControlInv, PeriodInv
<1>2. Calendar'
  BY <1>1, StillCalendar
<1>3. PlanLeft' <= balance'
  BY <1>1, SameLeft
<1>4. OneBusy' /\ (s \in Busy' => Busy' = {s})
  BY <1>1, Alone
<1>5. s \notin Busy' => Busy' = {}
  BY <1>1 DEF Busy, OneBusy
<1>. QED  BY <1>2, <1>3, <1>4, <1>5 DEF PeriodInv

\* A session that goes on.
LEMMA GoesOn ==
  ASSUME ControlInv, PeriodInv, NEW s \in Busy, UNCHANGED <<balance, entries, sub, clock, call, era, term>>,
         Cardinality(Busy') <= 1,
         snap'[s] = IF pend'[s] = <<>> THEN balance ELSE pend'[s][Len(pend'[s])].after,
         pc'[s] \in {"check", "lock"} => Moves(s)'
  PROVE  PeriodInv'
<1>1. clock \in Int /\ s \in Session
  BY DEF ControlInv, TypeOK, Time, Busy
<1>2. Found(s)
  BY DEF PeriodInv
<1>3. Found(s)'
  BY <1>2 DEF Found, Keys
<1>. QED  BY <1>1, <1>3, Kept DEF NoEarlierEnd

\* A session that ends without a commit of rows of the ledger.
LEMMA Ends ==
  ASSUME ControlInv, PeriodInv, NEW s \in Busy, NEW how, Close(s, how), UNCHANGED <<balance, entries, clock>>,
         sub'.start = sub.start, sub'.end = sub.end, Cardinality(Busy') <= 1
  PROVE  PeriodInv'
<1>1. clock \in Int /\ s \in Session
  BY DEF ControlInv, TypeOK, Time, Busy
<1>2. s \notin Busy' /\ \A t \in Session \ {s} : call'[t] = call[t]
  BY <1>1 DEF Close, Busy, ControlInv, TypeOK
<1>. QED  BY <1>1, <1>2, Kept DEF NoEarlierEnd

\* The movements that a call is found to need.
LEMMA MovesMade ==
  ASSUME ControlInv, PeriodInv, NEW s \in Busy, pend[s] = <<>>, pend'[s] = <<>>,
         UNCHANGED <<balance, entries, sub, call, era>>,
         todo'[s] = Movements(call[s], term[s], snap[s])
  PROVE  Moves(s)'
<1>. DEFINE c == call[s]
            t == term[s]
<1>1. /\ TypeOK /\ s \in Session /\ Found(s) /\ Calendar /\ PlanLeft <= balance
      /\ snap[s] = balance /\ balance \in Int /\ PlanLeft \in Nat
      /\ PlanLeft' = PlanLeft /\ (Expired' <=> Expired)
  BY SameLeft, LeftType DEF ControlInv, PeriodInv, Found, Busy, TypeOK
<1>2. CASE ~Closes(c)
  <2>1. Movements(c, t, snap[s]) = <<Due(c)>>
    BY <1>2 DEF Movements, Closes, Due
  <2>. QED  BY <1>2, <2>1 DEF Moves
<1>3. CASE Closes(c)
  <2>. DEFINE q == IF c.kind = "change" THEN c.id ELSE t.end
              p == sub.start
              r == Remaining(p, q, balance)
              e == [key |-> <<"expiry", p>>, delta |-> -r]
              after == IF c.kind = "lapse" THEN <<>> ELSE <<Grant(c)>>
  <2>1. \A i \in DOMAIN entries : entries[i].key[1] = "brief" => entries[i].era < q
    BY <1>1, <1>3 DEF Found, Calendar, Closes
  <2>2. Spent(p, q) = BriefCost * Cardinality(BriefsSince(p))
    <3>1. BriefsSince(p) = {i \in DOMAIN entries :
                   entries[i].key[1] = "brief" /\ entries[i].era >= p /\ entries[i].era < q}
      BY <2>1 DEF BriefsSince
    <3>. QED  BY <3>1 DEF Spent
  <2>3. Granted(p) = PlanGrant
    BY <1>1 DEF Granted, Calendar
  <2>4. r = Least(balance, Unspent(p)) /\ Unspent(p) \in Int
    BY <1>1, <2>2, <2>3, FewBriefs DEF Remaining, Unspent
  <2>5. r \in Int /\ (~Expired => IF r > 0 THEN r = PlanLeft ELSE PlanLeft = 0) /\ (Expired => PlanLeft = 0)
    BY <1>1, <2>4 DEF Least, PlanLeft
  <2>6. t.start = p /\ after \in Seq(Movement)
    <3>1. Grant(c) \in Movement
      BY <1>1, <1>3, KindOfCall, AmountAssumption DEF Grant, Movement, MovementKey, TypeOK, Busy
    <3>. QED  BY <1>1, <1>3, <3>1 DEF Found
  <2>7. Expiry(t.start, q, snap[s]) = IF r > 0 THEN <<e>> ELSE <<>>
    BY <1>1, <2>6 DEF Expiry
  <2>. HIDE DEF q, r
  <2>8. Movements(c, t, snap[s]) = (IF r > 0 THEN <<e>> ELSE <<>>) \o after
    <3>1. Movements(c, t, snap[s]) = IF c.kind = "lapse" THEN Expiry(t.start, q, snap[s])
                                    ELSE Expiry(t.start, q, snap[s]) \o <<Grant(c)>>
      BY <1>3 DEF Movements, q, Grant
    <3>2. CASE c.kind = "lapse"
      <4>1. <<>> \o <<>> = <<>> /\ <<e>> \o <<>> = <<e>>
        OBVIOUS
      <4>. QED  BY <2>7, <3>1, <3>2, <4>1
    <3>3. CASE c.kind # "lapse"
      BY <2>7, <3>1, <3>3
    <3>. QED  BY <3>2, <3>3
  <2>9. CASE r > 0
    <3>1. todo'[s] = <<e>> \o after
      BY <2>8, <2>9
    <3>2. todo'[s] # <<>> /\ Head(todo'[s]) = e
      BY <2>6, <3>1
    <3>3. ~Expired => e.delta = -PlanLeft
      BY <2>5, <2>9
    <3>4. todo'[s] = <<[key |-> <<"expiry", p>>, delta |-> Head(todo'[s]).delta]>> \o after
      BY <3>1, <3>2
    <3>. QED  BY <1>1, <1>3, <3>2, <3>3, <3>4 DEF Moves
  <2>10. CASE ~(r > 0)
    <3>1. todo'[s] = after /\ PlanLeft = 0
      BY <2>5, <2>6, <2>8, <2>10
    <3>. QED  BY <1>1, <1>3, <3>1 DEF Moves
  <2>. QED  BY <2>9, <2>10
<1>. QED  BY <1>2, <1>3

LEMMA ShortSequences ==
  ASSUME NEW x, NEW y
  PROVE  /\ <<x>> \o <<>> = <<x>> /\ <<x>> \o <<y>> = <<x, y>> /\ <<>> \o <<>> = <<>>
         /\ Append(<<>>, x) = <<x>> /\ Append(<<x>>, y) = <<x, y>>
         /\ Tail(<<x>>) = <<>> /\ Tail(<<x, y>>) = <<y>>
         /\ <<x>> # <<>> /\ <<x, y>> # <<>>
<1>1. <<x>> \o <<>> = <<x>> /\ <<>> \o <<>> = <<>>
  OBVIOUS
<1>2. <<x>> \o <<y>> = <<x, y>>
  <2>1. PICK r, t, S : r = <<x>> \o <<y>> /\ t = <<x, y>> /\ S = {x, y}
    OBVIOUS
  <2>2. <<x>> \in Seq(S) /\ <<y>> \in Seq(S) /\ y \in S /\ t \in Seq(S) /\ Len(t) = 2 /\ t[1] = x /\ t[2] = y
    BY <2>1
  <2>3. r \in Seq(S) /\ Len(r) = 2 /\ r[1] = x /\ r[2] = y
    BY <2>1, <2>2, ConcatProperties
  <2>4. \A i \in 1 .. Len(r) : r[i] = t[i]
    BY <2>2, <2>3
  <2>5. Len(r) = Len(t)
    BY <2>2, <2>3
  <2>6. r = t
    BY <2>2, <2>3, <2>4, <2>5, SeqEqual
  <2>. QED  BY <2>1, <2>6
<1>3. Append(<<>>, x) = <<x>>
  OBVIOUS
<1>4. Append(<<x>>, y) = <<x, y>>
  <2>1. PICK r, t, S : r = Append(<<x>>, y) /\ t = <<x, y>> /\ S = {x, y}
    OBVIOUS
  <2>2. <<x>> \in Seq(S) /\ <<y>> \in Seq(S) /\ y \in S /\ t \in Seq(S) /\ Len(t) = 2 /\ t[1] = x /\ t[2] = y
    BY <2>1
  <2>3. r \in Seq(S) /\ Len(r) = 2 /\ r[1] = x /\ r[2] = y
    BY <2>1, <2>2, AppendProperties
  <2>4. \A i \in 1 .. Len(r) : r[i] = t[i]
    BY <2>2, <2>3
  <2>5. Len(r) = Len(t)
    BY <2>2, <2>3
  <2>6. r = t
    BY <2>2, <2>3, <2>4, <2>5, SeqEqual
  <2>. QED  BY <2>1, <2>6
<1>5. Tail(<<x>>) = <<>>
  OBVIOUS
<1>6. Tail(<<x, y>>) = <<y>>
  OBVIOUS
<1>7. <<x>> # <<>> /\ <<x, y>> # <<>>
  OBVIOUS
<1>. QED  BY <1>1, <1>2, <1>3, <1>4, <1>5, <1>6, <1>7

LEMMA PairKeys ==
  ASSUME NEW x, NEW y
  PROVE  Keys(<<>>) = {} /\ Keys(<<x>>) = {x.key} /\ Keys(<<x, y>>) = {x.key, y.key}
BY DEF Keys

LEMMA SkipPeriod ==
  ASSUME ControlInv, PeriodInv, NEW s \in Busy, Skip(s), Cardinality(Busy') <= 1
  PROVE  PeriodInv'
<1>. DEFINE c == call[s]
            after == IF c.kind = "lapse" THEN <<>> ELSE <<Grant(c)>>
            x == Head(todo[s])
            exp == <<"expiry", sub.start>>
<1>1. /\ s \in Session /\ TypeOK /\ Found(s) /\ Moves(s) /\ todo[s] # <<>>
      /\ x.key \in Keys(entries) \cup Keys(pend[s])
      /\ todo'[s] = Tail(todo[s]) /\ UNCHANGED <<db, call, era, term, snap, pend>>
  BY DEF Skip, PeriodInv, ControlInv, Busy, TypeOK, Used
<1>2. PlanLeft' = PlanLeft /\ (Expired' <=> Expired) /\ sub' = sub /\ balance' = balance
  BY <1>1, SameLeft DEF db
<1>3. Moves(s)'
  <2>1. CASE ~Closes(c)
    <3>1. todo[s] = <<Due(c)>> /\ pend[s] = <<>>
      BY <1>1, <2>1 DEF Moves
    <3>2. todo'[s] = <<>>
      BY <1>1, <3>1
    <3>. QED  BY <1>1, <1>2, <2>1, <3>1, <3>2 DEF Moves
  <2>2. CASE Closes(c)
    <3>1. ASSUME todo[s] = after, pend[s] = <<>> \/ pend[s] = <<RowFor(s, Rest, balance)>>
          PROVE  FALSE
      <4>1. c.kind # "lapse" /\ x.key = <<"grant", c.id>>
        BY <1>1, <3>1 DEF Grant
      <4>2. Keys(pend[s]) \subseteq {exp}
        BY <3>1, PairKeys DEF RowFor, Rest
      <4>3. <<"grant", c.id>> \notin Keys(entries)
        BY <1>1, <2>2, <4>1 DEF Found, Closes
      <4>. QED  BY <1>1, <4>1, <4>2, <4>3
    <3>2. CASE todo[s] = <<[key |-> exp, delta |-> x.delta]>> \o after /\ pend[s] = <<>>
      <4>1. x.key = exp
        BY <1>1, <3>2
      <4>0. todo'[s] = after
        <5>. DEFINE m == [key |-> exp, delta |-> x.delta]
        <5>1. todo[s] = IF c.kind = "lapse" THEN <<m>> ELSE <<m, Grant(c)>>
          BY <1>1, <3>2, ShortSequences
        <5>. HIDE DEF m
        <5>. QED  BY <1>1, <5>1, ShortSequences
      <4>2. Expired
        BY <1>1, <3>2, <4>1, PairKeys DEF Expired
      <4>3. PlanLeft = 0
        BY <4>2 DEF PlanLeft
      <4>. QED  BY <1>1, <1>2, <2>2, <3>2, <4>0, <4>3 DEF Moves
    <3>. QED  BY <1>1, <2>2, <3>1, <3>2 DEF Moves
  <2>. QED  BY <2>1, <2>2
<1>4. snap'[s] = IF pend'[s] = <<>> THEN balance ELSE pend'[s][Len(pend'[s])].after
  BY <1>1 DEF Found
<1>5. UNCHANGED <<balance, entries, sub, clock, call, era, term>>
  BY <1>1 DEF db
<1>. QED  BY <1>3, <1>4, <1>5, GoesOn

LEMMA ApplyPeriod ==
  ASSUME ControlInv, PeriodInv, NEW s \in Busy, Apply(s), Cardinality(Busy') <= 1
  PROVE  PeriodInv'
<1>. DEFINE c == call[s]
            after == IF c.kind = "lapse" THEN <<>> ELSE <<Grant(c)>>
            x == Head(todo[s])
            exp == <<"expiry", sub.start>>
<1>1. /\ s \in Session /\ TypeOK /\ Found(s) /\ Moves(s) /\ todo[s] # <<>>
      /\ x.key \notin Keys(entries)
      /\ pend'[s] = Append(pend[s], RowFor(s, x, snap[s])) /\ snap'[s] = snap[s] + x.delta
      /\ todo'[s] = Tail(todo[s]) /\ UNCHANGED <<db, call, era, term>>
  <2>1. Found(s) /\ s \in Session /\ TypeOK
    BY DEF PeriodInv, ControlInv, Busy
  <2>2. Preloads(c)
    BY <2>1 DEF Found, PeriodKinds, Preloads, Inserts
  <2>3. Base(s) = snap[s]
    BY <2>2 DEF Base
  <2>. QED  BY <2>1, <2>3 DEF Apply, MayLock, Taken, PeriodInv, TypeOK, RowFor, ControlInv, Control
<1>2. PlanLeft' = PlanLeft /\ (Expired' <=> Expired) /\ sub' = sub /\ balance' = balance /\ PlanLeft \in Nat
  BY <1>1, SameLeft, LeftType DEF db
<1>3. /\ Due(c)' = Due(c) /\ Grant(c)' = Grant(c) /\ Rest' = Rest
      /\ \A m, b : RowFor(s, m, b)' = RowFor(s, m, b)
  BY <1>1, <1>2 DEF Due, Grant, Rest, RowFor
<1>4. Moves(s)'
  <2>1. CASE ~Closes(c)
    <3>1. todo[s] = <<Due(c)>> /\ pend[s] = <<>>
      BY <1>1, <2>1 DEF Moves
    <3>2. todo'[s] = <<>> /\ pend'[s] = <<RowFor(s, Due(c), balance)>>
      BY <1>1, <3>1, ShortSequences DEF Found
    <3>. QED  BY <1>1, <1>2, <2>1, <3>2 DEF Moves, RowFor, Due
  <2>2. CASE Closes(c)
    <3>1. CASE todo[s] = <<[key |-> exp, delta |-> x.delta]>> \o after /\ pend[s] = <<>> /\ (~Expired => x.delta = -PlanLeft)
      <4>1. x.key = exp
        BY <1>1, <3>1
      <4>0. todo'[s] = after
        <5>. DEFINE m == [key |-> exp, delta |-> x.delta]
        <5>1. todo[s] = IF c.kind = "lapse" THEN <<m>> ELSE <<m, Grant(c)>>
          BY <1>1, <3>1, ShortSequences
        <5>. HIDE DEF m
        <5>. QED  BY <1>1, <5>1, ShortSequences
      <4>2. ~Expired
        BY <1>1, <4>1 DEF Expired
      <4>3. pend'[s] = <<RowFor(s, x, balance)>>
        BY <1>1, <3>1, ShortSequences DEF Found
      <4>4. RowFor(s, x, balance) = RowFor(s, Rest, balance)
        BY <3>1, <4>1, <4>2 DEF RowFor, Rest
      <4>. QED  BY <1>1, <1>2, <2>2, <4>0, <4>2, <4>3, <4>4 DEF Moves, RowFor, Rest
    <3>2. ASSUME todo[s] = after
          PROVE  c.kind # "lapse" /\ x = Grant(c) /\ todo'[s] = <<>>
      BY <1>1, <3>2
    <3>3. CASE todo[s] = after /\ pend[s] = <<>> /\ PlanLeft = 0
      <4>1. pend'[s] = <<RowFor(s, Grant(c), balance)>>
        BY <1>1, <3>2, <3>3, ShortSequences DEF Found
      <4>. QED  BY <1>1, <1>2, <2>2, <3>2, <3>3, <4>1 DEF Moves, RowFor, Grant
    <3>4. CASE todo[s] = after /\ pend[s] = <<RowFor(s, Rest, balance)>> /\ ~Expired
      <4>1. snap[s] = RowFor(s, Rest, balance).after
        BY <1>1, <3>4, ShortSequences DEF Found
      <4>2. snap[s] = balance - PlanLeft
        <5>1. balance \in Int
          BY <1>1 DEF TypeOK
        <5>. QED  BY <1>2, <4>1, <5>1 DEF RowFor, Rest
      <4>3. pend'[s] = <<RowFor(s, Rest, balance), RowFor(s, Grant(c), balance - PlanLeft)>>
        BY <1>1, <3>2, <3>4, <4>2, ShortSequences
      <4>. QED  BY <1>1, <1>2, <1>3, <2>2, <3>2, <3>4, <4>3 DEF Moves
    <3>. QED  BY <1>1, <2>2, <3>1, <3>3, <3>4 DEF Moves
  <2>. QED  BY <2>1, <2>2
<1>5. snap'[s] = IF pend'[s] = <<>> THEN balance ELSE pend'[s][Len(pend'[s])].after
  <2>1. pend[s] \in Seq(Entry) /\ Len(pend[s]) \in Nat
    BY <1>1 DEF TypeOK
  <2>. DEFINE row == RowFor(s, x, snap[s])
  <2>2. row.after = snap'[s]
    BY <1>1 DEF RowFor
  <2>. HIDE DEF row
  <2>3. pend'[s] # <<>> /\ pend'[s][Len(pend'[s])] = row
    BY <1>1, <2>1, AppendProperties DEF row
  <2>. QED  BY <2>2, <2>3
<1>6. UNCHANGED <<balance, entries, sub, clock, call, era, term>>
  BY <1>1 DEF db
<1>. QED  BY <1>4, <1>5, <1>6, GoesOn

-----------------------------------------------------------------------------
(* Rows that are committed. *)
BriefsOf(es, p) == {i \in DOMAIN es : es[i].key[1] = "brief" /\ es[i].era >= p}

IsOneMore(es, e, more) ==
  /\ DOMAIN more = 1 .. Len(es) + 1
  /\ \A i \in 1 .. Len(es) : more[i] = es[i]
  /\ more[Len(es) + 1] = e

LEMMA OneMore ==
  ASSUME NEW es \in Seq(Entry), NEW e \in Entry, NEW more \in Seq(Entry), IsOneMore(es, e, more)
  PROVE  /\ Keys(more) = Keys(es) \cup {e.key}
         /\ \A i \in DOMAIN more : more[i] = e \/ \E j \in DOMAIN es : more[i] = es[j]
         /\ \A p : BriefsOf(more, p) = BriefsOf(es, p) \cup
                     (IF e.key[1] = "brief" /\ e.era >= p THEN {Len(es) + 1} ELSE {})
         /\ \A p : Len(es) + 1 \notin BriefsOf(es, p)
<1>1. /\ Len(es) \in Nat /\ DOMAIN es = 1 .. Len(es)
      /\ DOMAIN more = 1 .. Len(es) + 1
      /\ \A i \in 1 .. Len(es) : more[i] = es[i]
      /\ more[Len(es) + 1] = e
  BY DEF IsOneMore
<1>2. Keys(more) = Keys(es) \cup {e.key}
  BY <1>1 DEF Keys
<1>3. \A i \in DOMAIN more : more[i] = e \/ \E j \in DOMAIN es : more[i] = es[j]
  BY <1>1
<1>4. ASSUME NEW p
      PROVE  BriefsOf(more, p) = BriefsOf(es, p) \cup
               (IF e.key[1] = "brief" /\ e.era >= p THEN {Len(es) + 1} ELSE {})
  BY <1>1 DEF BriefsOf
<1>5. \A p : Len(es) + 1 \notin BriefsOf(es, p)
  BY <1>1 DEF BriefsOf
<1>. QED  BY <1>1, <1>2, <1>3, <1>4, <1>5

LEMMA TwoMore ==
  ASSUME NEW es \in Seq(Entry), NEW x \in Entry, NEW y \in Entry
  PROVE  es \o <<x>> = Append(es, x) /\ es \o <<x, y>> = Append(Append(es, x), y)
<1>1. <<x>> \in Seq(Entry) /\ <<y>> \in Seq(Entry) /\ Append(es, x) \in Seq(Entry)
  BY AppendProperties
<1>2. es \o <<x>> = Append(es, x) /\ Append(Append(es, x), y) = Append(es, x) \o <<y>>
  BY <1>1, AppendIsConcat
<1>3. (es \o <<x>>) \o <<y>> = es \o (<<x>> \o <<y>>)
  BY <1>1, ConcatAssociative
<1>4. <<x>> \o <<y>> = <<x, y>>
  BY ShortSequences
<1>. QED  BY <1>2, <1>3, <1>4

\* How each kind of row is read.
LEMMA RowsRead ==
  ASSUME NEW p \in Nat, NEW b \in Int, NEW e
  PROVE  /\ e.key[1] = "brief" =>
              ReadRow([plan |-> p, bought |-> b], e) =
                [plan |-> p - Least(p, BriefCost), bought |-> b - (BriefCost - Least(p, BriefCost))]
         /\ e.key[1] = "purchase" => ReadRow([plan |-> p, bought |-> b], e) = [plan |-> p, bought |-> b + e.delta]
         /\ e.key[1] = "expiry" => ReadRow([plan |-> p, bought |-> b], e) = [plan |-> 0, bought |-> b]
         /\ e.key[1] = "grant" => ReadRow([plan |-> p, bought |-> b], e) = [plan |-> p + e.delta, bought |-> b]
<1>. DEFINE v == [plan |-> p, bought |-> b]
<1>1. CASE e.key[1] = "brief"
  BY <1>1 DEF ReadRow
<1>2. CASE e.key[1] = "purchase"
  <2>1. ReadRow(v, e) = [v EXCEPT !.bought = @ + e.delta]
    BY <1>2 DEF ReadRow
  <2>. QED  BY <1>2, <2>1
<1>3. CASE e.key[1] = "expiry"
  <2>1. ReadRow(v, e) = [v EXCEPT !.plan = 0]
    BY <1>3 DEF ReadRow
  <2>. QED  BY <1>3, <2>1
<1>4. CASE e.key[1] = "grant"
  <2>1. ReadRow(v, e) = [v EXCEPT !.plan = @ + e.delta]
    BY <1>4 DEF ReadRow
  <2>. QED  BY <1>4, <2>1
<1>. QED  BY <1>1, <1>2, <1>3, <1>4

\* The wallet that the state knows of.
WalletNow == [plan |-> PlanLeft, bought |-> balance - PlanLeft]
ReadInv == Reading(entries, WalletNow)

\* A row that belongs to the period that runs: of a brief, a purchase, or what
\* is left of the grant.
LEMMA RowInPeriod ==
  ASSUME TypeOK, Calendar, ReadInv, PlanLeft <= balance, NEW x \in Entry,
         entries' = Append(entries, x), balance' = balance + x.delta, balance' >= 0,
         clock' = clock, sub'.start = sub.start, sub'.end = sub.end,
         \/ /\ x.key[1] = "brief" /\ x.delta = -BriefCost
            /\ sub.end = 0 /\ sub.start <= x.era /\ x.era <= clock
         \/ x.key[1] = "purchase" /\ x.delta = PackCredits
         \/ x.key = <<"expiry", sub.start>> /\ x.delta = -PlanLeft /\ ~Expired /\ sub.end # 0
  PROVE  Calendar' /\ PlanLeft' <= balance' /\ ReadInv'
<1>. DEFINE p == sub.start
            last == Len(entries) + 1
            left == PlanLeft
            v == WalletNow
<1>1. /\ entries \in Seq(Entry) /\ balance \in Int /\ p \in Time /\ clock \in Int /\ left \in Nat
      /\ Unspent(p) \in Int /\ Cardinality(BriefsSince(p)) \in Nat /\ IsFiniteSet(BriefsSince(p))
  BY LeftType, FewBriefs DEF TypeOK, Time
<1>2. /\ Keys(entries)' = Keys(entries) \cup {x.key}
      /\ \A i \in DOMAIN entries' : entries'[i] = x \/ \E j \in DOMAIN entries : entries'[i] = entries[j]
      /\ BriefsSince(p)' = BriefsSince(p) \cup
           (IF x.key[1] = "brief" /\ x.era >= p THEN {last} ELSE {})
      /\ last \notin BriefsSince(p)
  <2>1. PICK more : more = entries'
    OBVIOUS
  <2>0. entries \in Seq(Entry) /\ x \in Entry /\ more \in Seq(Entry) /\ IsOneMore(entries, x, more)
    BY <1>1, <2>1, AppendProperties DEF IsOneMore
  <2>2. /\ Keys(more) = Keys(entries) \cup {x.key}
        /\ \A i \in DOMAIN more : more[i] = x \/ \E j \in DOMAIN entries : more[i] = entries[j]
        /\ BriefsOf(more, p) = BriefsOf(entries, p) \cup
             (IF x.key[1] = "brief" /\ x.era >= p THEN {last} ELSE {})
        /\ last \notin BriefsOf(entries, p)
    <3>1. /\ Keys(more) = Keys(entries) \cup {x.key}
          /\ \A i \in DOMAIN more : more[i] = x \/ \E j \in DOMAIN entries : more[i] = entries[j]
      BY <2>0, OneMore
    <3>2. BriefsOf(more, p) = BriefsOf(entries, p) \cup
             (IF x.key[1] = "brief" /\ x.era >= p THEN {Len(entries) + 1} ELSE {})
      BY <2>0, OneMore
    <3>3. Len(entries) + 1 \notin BriefsOf(entries, p)
      BY <2>0, OneMore
    <3>. QED  BY <3>1, <3>2, <3>3
  <2>3. BriefsSince(p)' = BriefsOf(more, p) /\ BriefsSince(p) = BriefsOf(entries, p) /\ Keys(entries)' = Keys(more)
    BY <2>1 DEF BriefsSince, BriefsOf, Keys
  <2>. QED  BY <2>1, <2>2, <2>3
<1>3. Calendar'
  <2>1. sub'.start <= clock' /\ <<"grant", sub'.start>> \in Keys(entries)'
    BY <1>2 DEF Calendar
  <2>2. \A q \in Time : <<"expiry", q>> \in Keys(entries)' => <<"grant", q>> \in Keys(entries)'
    BY <1>2 DEF Calendar
  <2>3. Expired' => sub'.end # 0
    BY <1>2 DEF Calendar, Expired
  <2>4. \A i \in DOMAIN entries' : entries'[i].key[1] = "brief" =>
          entries'[i].era <= clock' /\ (sub'.end # 0 => entries'[i].era < sub'.end)
    BY <1>2 DEF Calendar
  <2>. QED  BY <2>1, <2>2, <2>3, <2>4 DEF Calendar
<1>4. v = [plan |-> left, bought |-> balance - left]
  BY DEF WalletNow
<1>0. PICK b \in Int : b = balance - left
  BY <1>1
<1>5. RightRow(x, v)
  BY <1>4 DEF RightRow
<1>6. Reading(entries', ReadRow(v, x))
  BY <1>1, <1>5, ReadOn DEF ReadInv
<1>7. CASE x.key[1] = "brief" /\ x.delta = -BriefCost /\ sub.end = 0 /\ p <= x.era
  <2>1. BriefsSince(p)' = BriefsSince(p) \cup {last} /\ x.era >= p
    <3>1. x.era \in Int
      BY DEF Entry, Time
    <3>2. x.era >= p
      BY <1>1, <1>7, <3>1 DEF Time
    <3>. QED  BY <1>2, <1>7, <3>2
  <2>2. Cardinality(BriefsSince(p)') = Cardinality(BriefsSince(p)) + 1
    <3>1. PICK S, T : S = BriefsSince(p) /\ T = BriefsSince(p)'
      OBVIOUS
    <3>2. IsFiniteSet(S) /\ last \notin S /\ T = S \cup {last}
      BY <1>1, <1>2, <2>1, <3>1
    <3>3. Cardinality(T) = Cardinality(S) + 1
      BY <3>2, FS_AddElement
    <3>. QED  BY <3>1, <3>3
  <2>3. Unspent(p)' = Unspent(p) - BriefCost
    <3>1. Unspent(p)' = PlanGrant - BriefCost * Cardinality(BriefsSince(p)')
      BY DEF Unspent, BriefsSince
    <3>2. \A n \in Nat : PlanGrant - BriefCost * (n + 1) = (PlanGrant - BriefCost * n) - BriefCost
      BY AmountAssumption
    <3>. QED  BY <1>1, <2>2, <3>1, <3>2 DEF Unspent
  <2>4. ~Expired /\ ~Expired'
    BY <1>2, <1>7 DEF Calendar, Expired
  <2>5. PlanLeft' = left - Least(left, BriefCost)
    <3>1. left = IF Unspent(p) < 0 THEN 0 ELSE Unspent(p)
      BY <2>4 DEF PlanLeft
    <3>2. PlanLeft' = IF Unspent(p)' < 0 THEN 0 ELSE Unspent(p)'
      BY <2>4 DEF PlanLeft, Unspent, BriefsSince
    <3>. QED  BY <1>1, <2>3, <3>1, <3>2, AmountAssumption DEF Least
  <2>6. ReadRow(v, x) = [plan |-> left - Least(left, BriefCost),
                         bought |-> (balance - left) - (BriefCost - Least(left, BriefCost))]
    <3>1. v = [plan |-> left, bought |-> b]
      BY <1>0, <1>4
    <3>2. ReadRow(v, x) = [plan |-> left - Least(left, BriefCost), bought |-> b - (BriefCost - Least(left, BriefCost))]
      BY <1>0, <1>1, <1>7, <3>1, RowsRead
    <3>. QED  BY <1>0, <3>2
  <2>7. (balance - left) - (BriefCost - Least(left, BriefCost)) = balance' - (left - Least(left, BriefCost))
    BY <1>1, <1>7, AmountAssumption DEF Least
  <2>8. WalletNow' = ReadRow(v, x)
    BY <2>5, <2>6, <2>7 DEF WalletNow
  <2>9. PlanLeft' <= balance'
    BY <1>1, <1>7, <2>5, AmountAssumption DEF Least
  <2>. QED  BY <1>3, <1>6, <2>8, <2>9 DEF ReadInv
<1>8. ASSUME x.key[1] # "brief"
      PROVE  Unspent(p)' = Unspent(p)
  BY <1>2, <1>8 DEF Unspent, BriefsSince
<1>9. CASE x.key[1] = "purchase" /\ x.delta = PackCredits
  <2>1. Expired' <=> Expired
    BY <1>2, <1>9 DEF Expired
  <2>2. PlanLeft' = left
    BY <1>8, <1>9, <2>1 DEF PlanLeft, Unspent, BriefsSince
  <2>3. ReadRow(v, x) = [plan |-> left, bought |-> (balance - left) + x.delta]
    <3>1. v = [plan |-> left, bought |-> b]
      BY <1>0, <1>4
    <3>2. ReadRow(v, x) = [plan |-> left, bought |-> b + x.delta]
      BY <1>0, <1>1, <1>9, <3>1, RowsRead
    <3>. QED  BY <1>0, <3>2
  <2>4. (balance - left) + x.delta = balance' - left /\ left <= balance'
    BY <1>1, <1>9, AmountAssumption
  <2>5. WalletNow' = ReadRow(v, x)
    BY <2>2, <2>3, <2>4 DEF WalletNow
  <2>. QED  BY <1>3, <1>6, <2>2, <2>4, <2>5 DEF ReadInv
<1>10. CASE x.key = <<"expiry", sub.start>> /\ x.delta = -PlanLeft
  <2>1. PlanLeft' = 0
    BY <1>2, <1>10 DEF PlanLeft, Expired
  <2>2. ReadRow(v, x) = [plan |-> 0, bought |-> balance - left]
    <3>1. v = [plan |-> left, bought |-> b]
      BY <1>0, <1>4
    <3>2. x.key[1] = "expiry"
      BY <1>10
    <3>3. ReadRow(v, x) = [plan |-> 0, bought |-> b]
      BY <1>0, <1>1, <3>1, <3>2, RowsRead
    <3>. QED  BY <1>0, <3>3
  <2>3. balance' - 0 = balance - left /\ 0 <= balance'
    BY <1>1, <1>10
  <2>4. WalletNow' = ReadRow(v, x)
    BY <2>1, <2>2, <2>3 DEF WalletNow
  <2>. QED  BY <1>3, <1>6, <2>1, <2>3, <2>4 DEF ReadInv
<1>. QED  BY <1>7, <1>9, <1>10

\* The first row of a period, its grant, after what is left of the one before
\* has expired.
LEMMA NewPeriod ==
  ASSUME TypeOK, Calendar, NEW id \in Time, id <= clock, <<"grant", id>> \notin Keys(entries),
         NEW es \in Seq(Entry), NEW b \in Nat, Reading(es, [plan |-> 0, bought |-> b]),
         Keys(entries) \subseteq Keys(es), Keys(es) \subseteq Keys(entries) \cup {<<"expiry", sub.start>>},
         \A i \in DOMAIN es : es[i].key[1] = "brief" => es[i].era < id,
         NEW g \in Entry, g.key = <<"grant", id>>, g.delta = PlanGrant,
         entries' = Append(es, g), balance' = b + PlanGrant,
         clock' = clock, sub'.start = id, sub'.end = 0
  PROVE  Calendar' /\ PlanLeft' <= balance' /\ ReadInv'
<1>. DEFINE v == [plan |-> 0, bought |-> b]
<1>1. /\ clock \in Int /\ id \in Int /\ PlanGrant \in Nat
      /\ \A i \in DOMAIN es : es[i].era \in Int
  <2>1. \A i \in DOMAIN es : es[i] \in Entry
    OBVIOUS
  <2>. QED  BY <2>1, AmountAssumption DEF TypeOK, Time, Entry
<1>2. /\ Keys(entries)' = Keys(es) \cup {g.key}
      /\ \A i \in DOMAIN entries' : entries'[i] = g \/ \E j \in DOMAIN es : entries'[i] = es[j]
  <2>1. PICK more : more = entries'
    OBVIOUS
  <2>2. es \in Seq(Entry) /\ g \in Entry /\ more \in Seq(Entry) /\ IsOneMore(es, g, more)
    BY <2>1, AppendProperties DEF IsOneMore
  <2>3. /\ Keys(more) = Keys(es) \cup {g.key}
        /\ \A i \in DOMAIN more : more[i] = g \/ \E j \in DOMAIN es : more[i] = es[j]
    <3>1. Keys(more) = Keys(es) \cup {g.key}
      BY <2>2, OneMore
    <3>2. \A i \in DOMAIN more : more[i] = g \/ \E j \in DOMAIN es : more[i] = es[j]
      BY <2>2, OneMore
    <3>. QED  BY <3>1, <3>2
  <2>. QED  BY <2>1, <2>3 DEF Keys
<1>3. \A i \in DOMAIN entries' : entries'[i].key[1] = "brief" => entries'[i].era < id /\ entries'[i].era <= clock
  BY <1>1, <1>2
<1>4. <<"expiry", id>> \notin Keys(entries)'
  <2>1. <<"expiry", id>> \notin Keys(entries)
    BY DEF Calendar
  <2>2. <<"expiry", id>> # <<"expiry", sub.start>>
    BY DEF Calendar
  <2>. QED  BY <1>2, <2>1, <2>2
<1>5. ASSUME NEW p \in Time, <<"expiry", p>> \in Keys(entries)'
      PROVE  <<"grant", p>> \in Keys(entries)'
  BY <1>2, <1>5 DEF Calendar
<1>6. Calendar'
  BY <1>1, <1>2, <1>3, <1>4, <1>5 DEF Calendar, Expired
<1>7. BriefsSince(id)' = {}
  <2>1. \A i \in DOMAIN entries' : entries'[i].key[1] = "brief" => ~(entries'[i].era >= id)
    <3>1. \A i \in DOMAIN entries' : entries'[i].key[1] = "brief" => entries'[i].era \in Int
      BY <1>1, <1>2
    <3>. QED  BY <1>1, <1>3, <3>1
  <2>. QED  BY <2>1 DEF BriefsSince
<1>8. PlanLeft' = PlanGrant
  <2>1. Cardinality({}) = 0
    BY FS_EmptySet
  <2>2. Unspent(id)' = PlanGrant
    <3>1. Unspent(id)' = PlanGrant - BriefCost * Cardinality(BriefsSince(id)')
      BY DEF Unspent, BriefsSince
    <3>2. Unspent(id)' = PlanGrant - BriefCost * 0
      BY <1>7, <2>1, <3>1
    <3>. QED  BY <3>2, AmountAssumption
  <2>3. ~Expired'
    BY <1>4 DEF Expired
  <2>4. PlanLeft' = IF Unspent(id)' < 0 THEN 0 ELSE Unspent(id)'
    BY <2>3 DEF PlanLeft, Unspent, BriefsSince
  <2>. QED  BY <1>1, <2>2, <2>4
<1>9. RightRow(g, v) /\ ReadRow(v, g) = [plan |-> PlanGrant, bought |-> b]
  <2>1. g.key[1] = "grant"
    OBVIOUS
  <2>2. RightRow(g, v)
    BY <2>1 DEF RightRow
  <2>3. ReadRow(v, g) = [plan |-> 0 + g.delta, bought |-> b]
    <3>1. PICK n \in Nat : n = 0
      OBVIOUS
    <3>2. b \in Int
      OBVIOUS
    <3>3. ReadRow([plan |-> n, bought |-> b], g) = [plan |-> n + g.delta, bought |-> b]
      BY <2>1, <3>2, RowsRead
    <3>. QED  BY <3>1, <3>3
  <2>. QED  BY <1>1, <2>2, <2>3
<1>10. Reading(entries', ReadRow(v, g))
  BY <1>9, ReadOn
<1>11. WalletNow' = ReadRow(v, g)
  BY <1>1, <1>8, <1>9 DEF WalletNow
<1>. QED  BY <1>1, <1>6, <1>8, <1>10, <1>11 DEF ReadInv

\* What a session's commit does to the ledger: no row, a row of the period that
\* runs, or the end of one period and the start of the next.
LEMMA CommitPeriod ==
  ASSUME ControlInv, PeriodInv, ReadInv, NEW s \in Busy, Commit(s), Cardinality(Busy') <= 1,
         balance' >= 0, BriefsInTime
  PROVE  PeriodInv' /\ ReadInv'
<1>. DEFINE c == call[s]
            before == RowFor(s, Rest, balance)
<1>1. /\ s \in Session /\ TypeOK /\ Calendar /\ OneBusy /\ PlanLeft <= balance
      /\ Found(s) /\ Moves(s) /\ todo[s] = <<>>
      /\ balance' = Written(s) /\ entries' = entries \o pend[s] /\ clock' = clock /\ Close(s, "ok")
      /\ sub' = IF c.kind \in {"renew", "change"}
                THEN [start |-> c.id, end |-> 0, auto |-> TRUE]
                ELSE [sub EXCEPT !.auto = @ /\ c.kind # "lapse"]
  BY DEF Commit, PeriodInv, ControlInv, Busy
<1>2. /\ entries \in Seq(Entry) /\ pend[s] \in Seq(Entry) /\ balance \in Int /\ clock \in Int
      /\ PlanLeft \in Nat /\ sub \in [start : Time, end : Time \cup {0}, auto : BOOLEAN]
  BY <1>1, LeftType DEF TypeOK, Time
<1>3. Busy' = {}
  BY <1>1 DEF Close, Busy, OneBusy, TypeOK
<1>4. ASSUME Calendar', PlanLeft' <= balance'
      PROVE  PeriodInv'
  BY <1>3, <1>4 DEF PeriodInv, OneBusy
<1>5. CASE c.kind \notin {"renew", "change"}
  <2>1. sub'.start = sub.start /\ sub'.end = sub.end
    BY <1>1, <1>2, <1>5
  <2>2. CASE pend[s] = <<>>
    <3>1. entries' = entries /\ balance' = balance
      BY <1>1, <1>2, <2>2 DEF Written, Owns
    <3>2. Calendar'
      BY <1>1, <1>2, <2>1, <3>1, StillCalendar DEF NoEarlierEnd
    <3>3. PlanLeft' = PlanLeft
      BY <2>1, <3>1, SameLeft
    <3>4. PlanLeft' <= balance' /\ ReadInv'
      BY <1>1, <3>1, <3>3 DEF ReadInv, WalletNow
    <3>. QED  BY <1>4, <3>2, <3>4
  <2>3. ASSUME NEW x \in Entry, pend[s] = <<x>>, x.after = balance + x.delta,
               \/ /\ x.key[1] = "brief" /\ x.delta = -BriefCost /\ x.era = era[s]
               \/ x.key[1] = "purchase" /\ x.delta = PackCredits
               \/ x.key = <<"expiry", sub.start>> /\ x.delta = -PlanLeft /\ ~Expired /\ sub.end # 0
        PROVE  PeriodInv' /\ ReadInv'
    <3>1. entries' = Append(entries, x) /\ balance' = balance + x.delta
      <4>1. entries \o <<x>> = Append(entries, x)
        BY <1>2, TwoMore
      <4>2. balance' = snap[s] /\ snap[s] = x.after
        BY <1>1, <2>3, ShortSequences DEF Written, Owns, Found
      <4>. QED  BY <1>1, <2>3, <4>1, <4>2
    <3>2. x.key[1] = "brief" => sub.end = 0
      <4>1. Len(entries') > Len(entries) /\ entries'[Len(entries')] = x
        BY <1>2, <3>1, AppendProperties
      <4>. QED  BY <4>1 DEF BriefsInTime
    <3>3. sub.start <= era[s] /\ era[s] <= clock
      BY <1>1 DEF Found
    <3>4. \/ /\ x.key[1] = "brief" /\ x.delta = -BriefCost
             /\ sub.end = 0 /\ sub.start <= x.era /\ x.era <= clock
          \/ x.key[1] = "purchase" /\ x.delta = PackCredits
          \/ x.key = <<"expiry", sub.start>> /\ x.delta = -PlanLeft /\ ~Expired /\ sub.end # 0
      BY <2>3, <3>2, <3>3
    <3>5. Calendar' /\ PlanLeft' <= balance' /\ ReadInv'
      BY <1>1, <2>1, <3>1, <3>4, RowInPeriod
    <3>. QED  BY <1>4, <3>5
  <2>4. CASE pend[s] = <<RowFor(s, Due(c), balance)>> /\ ~Closes(c)
    <3>. DEFINE x == RowFor(s, Due(c), balance)
    <3>1. x \in Entry
      <4>1. x = pend[s][1] /\ 1 \in DOMAIN pend[s]
        BY <2>4
      <4>. QED  BY <1>2, <4>1
    <3>2. c.kind \in {"brief", "purchase"}
      BY <1>1, <2>4 DEF Found, PeriodKinds, Closes
    <3>3. /\ x.after = balance + x.delta /\ x.era = era[s]
          /\ x.key = MovementKeyOf(c) /\ x.delta = Amount(c)
      BY DEF RowFor, Due
    <3>4. \/ x.key[1] = "brief" /\ x.delta = -BriefCost /\ x.era = era[s]
          \/ x.key[1] = "purchase" /\ x.delta = PackCredits
      BY <3>2, <3>3 DEF MovementKeyOf, Amount
    <3>. HIDE DEF x
    <3>5. pend[s] = <<x>>
      BY <2>4 DEF x
    <3>. QED  BY <2>3, <3>1, <3>3, <3>4, <3>5
  <2>5. CASE pend[s] = <<before>> /\ ~Expired /\ Closes(c)
    <3>1. before \in Entry
      <4>1. before = pend[s][1] /\ 1 \in DOMAIN pend[s]
        BY <2>5
      <4>. QED  BY <1>2, <4>1
    <3>2. c.kind = "lapse" /\ sub.end # 0
      BY <1>1, <1>5, <2>5 DEF Found, Closes
    <3>3. /\ before.after = balance + before.delta
          /\ before.key = <<"expiry", sub.start>> /\ before.delta = -PlanLeft
      BY DEF RowFor, Rest
    <3>. HIDE DEF before
    <3>. QED  BY <2>3, <2>5, <3>1, <3>2, <3>3
  <2>. QED  BY <1>1, <1>5, <2>2, <2>4, <2>5, ShortSequences DEF Moves, Closes
<1>6. CASE c.kind \in {"renew", "change"}
  <2>. DEFINE g(b) == RowFor(s, Grant(c), b)
              e == <<"expiry", sub.start>>
  <2>1. /\ Closes(c) /\ c.id \in Time /\ c.id <= clock /\ <<"grant", c.id>> \notin Keys(entries)
        /\ sub'.start = c.id /\ sub'.end = 0
        /\ \A i \in DOMAIN entries : entries[i].key[1] = "brief" => entries[i].era < c.id
    <3>1. Closes(c) /\ c \in Call
      BY <1>1, <1>6 DEF Closes, Busy, TypeOK
    <3>. QED  BY <1>1, <1>6, <3>1, KindOfCall DEF Found
  <2>2. \A b : g(b).key = <<"grant", c.id>> /\ g(b).delta = PlanGrant /\ g(b).after = b + PlanGrant
    BY DEF RowFor, Grant
  <2>3. Written(s) = pend[s][Len(pend[s])].after \/ pend[s] = <<>>
    BY <1>1 DEF Written, Owns, Found
  <2>4. CASE pend[s] = <<g(balance)>> /\ PlanLeft = 0
    <3>1. g(balance) \in Entry
      <4>1. g(balance) = pend[s][1] /\ 1 \in DOMAIN pend[s]
        BY <2>4
      <4>. QED  BY <1>2, <4>1
    <3>2. PICK x : x = g(balance)
      OBVIOUS
    <3>3. x \in Entry /\ x.key = <<"grant", c.id>> /\ x.delta = PlanGrant /\ x.after = balance + PlanGrant
          /\ pend[s] = <<x>>
      BY <2>2, <2>4, <3>1, <3>2
    <3>4. entries' = Append(entries, x)
      BY <1>1, <1>2, <3>3, TwoMore
    <3>5. balance' = balance + PlanGrant
      BY <1>1, <2>3, <3>3, ShortSequences
    <3>6. balance \in Nat /\ Reading(entries, [plan |-> 0, bought |-> balance])
      <4>1. balance - PlanLeft = balance /\ balance \in Nat
        BY <1>1, <1>2, <2>4
      <4>. QED  BY <2>4, <4>1 DEF ReadInv, WalletNow
    <3>7. Calendar' /\ PlanLeft' <= balance' /\ ReadInv'
      BY <1>1, <1>2, <2>1, <3>3, <3>4, <3>5, <3>6, NewPeriod
    <3>. QED  BY <1>4, <3>7
  <2>5. CASE pend[s] = <<before, g(balance - PlanLeft)>> /\ ~Expired
    <3>1. before \in Entry /\ g(balance - PlanLeft) \in Entry
      <4>1. /\ before = pend[s][1] /\ g(balance - PlanLeft) = pend[s][2]
            /\ 1 \in DOMAIN pend[s] /\ 2 \in DOMAIN pend[s]
        BY <2>5
      <4>. QED  BY <1>2, <4>1
    <3>2. PICK x, y, b, es : x = before /\ y = g(balance - PlanLeft) /\ b = balance - PlanLeft /\ es = Append(entries, x)
      OBVIOUS
    <3>3. /\ x \in Entry /\ x.key = e /\ x.delta = -PlanLeft
          /\ y \in Entry /\ y.key = <<"grant", c.id>> /\ y.delta = PlanGrant /\ y.after = b + PlanGrant
          /\ pend[s] = <<x, y>>
      BY <2>2, <2>5, <3>1, <3>2 DEF RowFor, Rest
    <3>4. es \in Seq(Entry) /\ entries' = Append(es, y)
      BY <1>1, <1>2, <3>2, <3>3, TwoMore, AppendProperties
    <3>5. balance' = b + PlanGrant
      <4>1. Len(pend[s]) = 2 /\ pend[s][2] = y /\ pend[s] # <<>>
        BY <3>3
      <4>. QED  BY <1>1, <2>3, <3>3, <4>1
    <3>6. b \in Nat /\ Reading(es, [plan |-> 0, bought |-> b])
      <4>. DEFINE v == WalletNow
      <4>1. b \in Nat
        BY <1>1, <1>2, <3>2
      <4>2. v = [plan |-> PlanLeft, bought |-> b]
        BY <3>2 DEF WalletNow
      <4>3. RightRow(x, v)
        BY <3>3, <4>2 DEF RightRow
      <4>4. ReadRow(v, x) = [plan |-> 0, bought |-> b]
        <5>1. PICK n \in Nat : n = PlanLeft
          BY <1>2
        <5>2. x.key[1] = "expiry" /\ b \in Int
          BY <3>3, <4>1
        <5>3. ReadRow([plan |-> n, bought |-> b], x) = [plan |-> 0, bought |-> b]
          BY <5>2, RowsRead
        <5>. QED  BY <4>2, <5>1, <5>3
      <4>5. Reading(entries, v)
        BY DEF ReadInv
      <4>. HIDE DEF v
      <4>6. Reading(es, ReadRow(v, x))
        BY <1>2, <3>2, <3>3, <4>3, <4>5, ReadOn
      <4>. QED  BY <4>1, <4>4, <4>6
    <3>7. /\ Keys(entries) \subseteq Keys(es) /\ Keys(es) \subseteq Keys(entries) \cup {e}
          /\ \A i \in DOMAIN es : es[i].key[1] = "brief" => es[i].era < c.id
      <4>1. entries \in Seq(Entry) /\ x \in Entry /\ es \in Seq(Entry) /\ IsOneMore(entries, x, es)
        BY <1>2, <3>2, <3>3, <3>4, AppendProperties DEF IsOneMore
      <4>2. Keys(es) = Keys(entries) \cup {x.key}
        BY <4>1, OneMore
      <4>3. \A i \in DOMAIN es : es[i] = x \/ \E j \in DOMAIN entries : es[i] = entries[j]
        BY <4>1, OneMore
      <4>4. x.key[1] # "brief"
        BY <3>3
      <4>. QED  BY <2>1, <3>3, <4>2, <4>3, <4>4
    <3>8. Calendar' /\ PlanLeft' <= balance' /\ ReadInv'
      BY <1>1, <1>2, <2>1, <3>3, <3>4, <3>5, <3>6, <3>7, NewPeriod
    <3>. QED  BY <1>4, <3>8
  <2>6. \/ pend[s] = <<g(balance)>> /\ PlanLeft = 0
        \/ pend[s] = <<before, g(balance - PlanLeft)>> /\ ~Expired
    <3>1. c.kind # "lapse" /\ <<Grant(c)>> # <<>>
      BY <1>6
    <3>. QED  BY <1>1, <2>1, <3>1 DEF Moves
  <2>. QED  BY <2>4, <2>5, <2>6
<1>. QED  BY <1>5, <1>6

LEMMA BeginPeriod ==
  ASSUME ControlInv, PeriodInv, NEW s \in Session, NEW c \in Call, Begin(s, c), c.kind \in PeriodKinds,
         Cardinality(Busy') <= 1, clock' \in Time
  PROVE  PeriodInv'
<1>1. /\ TypeOK /\ Calendar /\ clock \in Int /\ clock' \in Int /\ pend'[s] = <<>> /\ pend[s] = <<>>
      /\ clock' >= clock
  <2>1. TypeOK /\ Calendar /\ clock \in Int /\ clock' \in Int
    BY DEF ControlInv, PeriodInv, TypeOK, Time
  <2>2. pc[s] \in Ended /\ pend' = pend
    BY DEF Begin
  <2>3. pend[s] = <<>>
    BY <2>2 DEF ControlInv, Control
  <2>4. clock' >= clock
    BY <2>1 DEF Begin, CanBegin
  <2>. QED  BY <2>1, <2>2, <2>3, <2>4
<1>2. /\ call'[s] = c /\ era'[s] = clock' /\ Preloads(c)
      /\ snap'[s] = balance /\ pc'[s] = "begun"
      /\ term'[s] = IF Closes(c) THEN [start |-> sub.start, end |-> sub.end] ELSE NoTerm
      /\ \A t \in Session \ {s} : call'[t] = call[t]
      /\ UNCHANGED <<balance, entries, sub>>
  BY <1>1 DEF Begin, TypeOK, PeriodKinds, Preloads, Inserts
<1>3. ASSUME Closes(c)
      PROVE  c.id <= clock'
  <2>1. CASE c.kind = "change"
    BY <1>1, <2>1 DEF Begin, CanBegin
  <2>2. CASE c.kind # "change"
    <3>1. c.kind \in {"renew", "lapse"} /\ clock' = clock
      BY <1>3, <2>2 DEF Closes, Begin
    <3>2. c.id \in sub.end .. clock
      BY <3>1 DEF Begin, CanBegin
    <3>3. sub.end \in Int
      BY <1>1 DEF TypeOK, Time
    <3>. QED  BY <1>1, <3>1, <3>2, <3>3
  <2>. QED  BY <2>1, <2>2
<1>4. ASSUME c.kind \in {"renew", "change"}
      PROVE  /\ <<"grant", c.id>> \notin Keys(entries)
             /\ \A i \in DOMAIN entries : entries[i].key[1] = "brief" => entries[i].era < c.id
  <2>1. <<"grant", c.id>> \notin Keys(entries)
    BY <1>4 DEF Begin, CanBegin
  <2>2. \A i \in DOMAIN entries : entries[i].era \in Int
    <3>1. \A i \in DOMAIN entries : entries[i] \in Entry
      BY <1>1 DEF TypeOK
    <3>. QED  BY <3>1 DEF Entry, Time
  <2>3. CASE c.kind = "change"
    <3>1. c.id = clock + 1
      BY <2>3 DEF Begin, CanBegin
    <3>. QED  BY <1>1, <2>1, <2>2, <3>1 DEF Calendar
  <2>4. CASE c.kind = "renew"
    <3>1. sub.end # 0 /\ c.id \in sub.end .. clock /\ sub.end \in Int
      BY <1>1, <2>4 DEF Begin, CanBegin, TypeOK, Time
    <3>. QED  BY <1>1, <2>1, <2>2, <3>1 DEF Calendar
  <2>. QED  BY <1>4, <2>3, <2>4
<1>5. c.kind \in {"renew", "lapse"} => sub.end # 0
  BY DEF Begin, CanBegin
<1>6. Found(s)'
  <2>1. sub.start <= clock'
    BY <1>1 DEF Calendar, TypeOK, Time
  <2>2. c.kind \in {"renew", "lapse"} => Closes(c)
    BY DEF Closes
  <2>. QED  BY <1>1, <1>2, <1>3, <1>4, <1>5, <2>1, <2>2 DEF Found, Keys
<1>7. s \in Busy'
  BY <1>2, KindOfCall DEF Busy
<1>. QED  BY <1>1, <1>2, <1>6, <1>7, Kept DEF NoEarlierEnd

LEMMA TickPeriod ==
  ASSUME ControlInv, PeriodInv, Tick
  PROVE  PeriodInv'
<1>1. TypeOK /\ Calendar /\ clock \in Int /\ clock' = clock + 1 /\ sub'.start = sub.start /\ NoEarlierEnd
  BY DEF Tick, ControlInv, PeriodInv, TypeOK, Time, NoEarlierEnd
<1>2. UNCHANGED <<balance, entries, pc, call, era, term, snap, todo, pend>>
  BY DEF Tick
<1>3. Calendar'
  BY <1>1, <1>2, StillCalendar
<1>4. PlanLeft' = PlanLeft /\ (Expired' <=> Expired)
  BY <1>1, <1>2, SameLeft
<1>5. ASSUME NEW s \in Busy
      PROVE  Found(s)' /\ (pc'[s] \in {"check", "lock"} => Moves(s)')
  <2>1. Found(s) /\ (pc[s] \in {"check", "lock"} => Moves(s)) /\ s \in Session /\ call[s] \in Call /\ era[s] \in Int
    BY DEF PeriodInv, Busy, ControlInv, TypeOK, Time
  <2>2. call[s].kind \in {"renew", "lapse"} => sub'.end = sub.end
    BY <1>1, <2>1 DEF Found, NoEarlierEnd
  <2>3. Closes(call[s]) => call[s].id \in Int
    BY <2>1, KindOfCall DEF Time
  <2>4. Found(s)'
    BY <1>1, <1>2, <2>1, <2>2, <2>3 DEF Found, Keys
  <2>5. Moves(s) => Moves(s)'
    BY <1>1, <1>2, <1>4 DEF Moves, RowFor, Due, Grant, Rest
  <2>. QED  BY <1>2, <2>1, <2>4, <2>5
<1>6. Busy' = Busy
  BY <1>2 DEF Busy
<1>7. PlanLeft' <= balance' /\ OneBusy'
  BY <1>2, <1>4, <1>6 DEF PeriodInv, OneBusy
<1>. QED  BY <1>3, <1>5, <1>6, <1>7 DEF PeriodInv

\* The ledger reads as before where no rows are added.
LEMMA ReadKept ==
  ASSUME ReadInv, UNCHANGED <<balance, entries>>, sub'.start = sub.start
  PROVE  ReadInv'
BY SameLeft DEF ReadInv, WalletNow

LEMMA PeriodStart == Init /\ ControlInv => PeriodInv /\ ReadInv
<1>. SUFFICES ASSUME Init, ControlInv PROVE PeriodInv /\ ReadInv
  OBVIOUS
<1>. DEFINE g == [key |-> <<"grant", 1>>, delta |-> PlanGrant, after |-> PlanGrant, era |-> 1]
<1>1. /\ entries = <<g>> /\ clock = 1 /\ sub.start = 1 /\ sub.end = 0 /\ balance = PlanGrant
      /\ Busy = {} /\ TypeOK /\ PlanGrant \in Nat
  BY AmountAssumption DEF Init, Busy, ControlInv
<1>2. g.key = <<"grant", 1>> /\ g.delta = PlanGrant
  OBVIOUS
<1>. HIDE DEF g
<1>3. Keys(entries) = {g.key} /\ \A i \in DOMAIN entries : entries[i] = g
  <2>1. Keys(entries) = {g.key}
    BY <1>1, PairKeys
  <2>2. \A i \in DOMAIN entries : entries[i] = g
    BY <1>1
  <2>. QED  BY <2>1, <2>2
<1>4. g \in Entry /\ 1 \in Time
  <2>1. entries[1] = g /\ 1 \in DOMAIN entries
    BY <1>1
  <2>2. 1 \in Time
    BY TimeAssumption DEF Time
  <2>. QED  BY <1>1, <2>1, <2>2 DEF TypeOK
<1>5. Calendar
  BY <1>1, <1>2, <1>3 DEF Calendar, Expired
<1>6. BriefsSince(1) = {}
  BY <1>2, <1>3 DEF BriefsSince
<1>7. PlanLeft = PlanGrant
  <2>1. Cardinality({}) = 0
    BY FS_EmptySet
  <2>2. Unspent(1) = PlanGrant
    <3>1. Unspent(1) = PlanGrant - BriefCost * 0
      BY <1>6, <2>1 DEF Unspent
    <3>. QED  BY <3>1, AmountAssumption
  <2>3. ~Expired
    BY <1>2, <1>3 DEF Expired
  <2>. QED  BY <1>1, <2>2, <2>3 DEF PlanLeft
<1>8. Reading(<<>>, [plan |-> 0, bought |-> 0])
  <2>. DEFINE zero == [plan |-> 0, bought |-> 0]
              f == [n \in 0 .. 0 |-> zero]
  <2>1. ASSUME NEW w
        PROVE  Reads(w, <<>>) <=> w = f
    <3>1. Len(<<>>) = 0
      OBVIOUS
    <3>. QED  BY <3>1 DEF Reads
  <2>2. f[Len(<<>>)] = zero /\ DOMAIN <<>> = {}
    OBVIOUS
  <2>. HIDE DEF f, zero
  <2>. QED  BY <2>1, <2>2 DEF Reading, zero
<1>9. Reading(entries, ReadRow([plan |-> 0, bought |-> 0], g))
  <2>1. RightRow(g, [plan |-> 0, bought |-> 0])
    BY <1>2 DEF RightRow
  <2>2. <<>> \in Seq(Entry) /\ entries = Append(<<>>, g)
    BY <1>1, ShortSequences
  <2>. QED  BY <1>4, <1>8, <2>1, <2>2, ReadOn
<1>10. WalletNow = ReadRow([plan |-> 0, bought |-> 0], g)
  <2>1. PICK n \in Nat : n = 0
    OBVIOUS
  <2>2. PICK b \in Int : b = 0
    OBVIOUS
  <2>3. g.key[1] = "grant"
    BY <1>2
  <2>4. ReadRow([plan |-> n, bought |-> b], g) = [plan |-> n + g.delta, bought |-> b]
    BY <2>3, RowsRead
  <2>. QED  BY <1>1, <1>2, <1>7, <2>1, <2>2, <2>4 DEF WalletNow
<1>. QED  BY <1>1, <1>5, <1>7, <1>9, <1>10 DEF PeriodInv, OneBusy, ReadInv

-----------------------------------------------------------------------------
(* Every step of a periods focus. *)
LEMMA PeriodStep ==
  ASSUME ControlInv, LedgerInv, PeriodInv, ReadInv, focus = "periods",
         [Next /\ InFocus /\ UNCHANGED focus]_ledgerVars
  PROVE  PeriodInv' /\ ReadInv'
<1>1. ASSUME UNCHANGED ledgerVars
      PROVE  PeriodInv' /\ ReadInv'
  <2>1. UNCHANGED vars /\ UNCHANGED <<balance, entries, clock, sub, pc, call, era, term, snap, todo, pend>>
    BY <1>1 DEF ledgerVars, vars
  <2>2. PlanLeft' = PlanLeft /\ (Expired' <=> Expired) /\ ReadInv' /\ Busy' = Busy
    BY <2>1, SameLeft, ReadKept DEF Busy
  <2>3. Calendar'
    BY <2>1, <2>2 DEF PeriodInv, Calendar, Keys
  <2>4. \A s : (Found(s) => Found(s)') /\ (Moves(s) => Moves(s)')
    BY <2>1, <2>2 DEF Found, Keys, Moves, RowFor, Due, Grant, Rest
  <2>. QED  BY <2>1, <2>2, <2>3, <2>4 DEF PeriodInv, OneBusy
<1>2. SUFFICES ASSUME Next, InFocus
               PROVE  PeriodInv' /\ ReadInv'
  BY <1>1
<1>3. ControlInv' /\ balance' >= 0
  <2>1. [Next]_vars
    BY <1>2
  <2>2. ControlInv' /\ LedgerInv'
    BY <2>1, ControlStep, LedgerStep
  <2>3. LedgerInv' => balance' >= 0
    BY DEF LedgerInv, NonNegative
  <2>. QED  BY <2>2, <2>3
<1>4. /\ Cardinality(Busy') <= 1 /\ BriefsInTime
      /\ \A s \in Session : call'[s] = NoCall \/ call'[s].kind \in PeriodKinds
  <2>1. PICK f : f = Focus[focus]
    OBVIOUS
  <2>2. f.open = 1 /\ f.kinds = PeriodKinds
    BY <2>1 DEF Focus, PeriodKinds
  <2>3. /\ Cardinality({s \in Session : call'[s] # NoCall}) <= f.open
        /\ \A s \in Session : call'[s] = NoCall \/ call'[s].kind \in f.kinds
        /\ BriefsInTime
    BY <1>2, <2>1, Zenon DEF InFocus
  <2>4. Busy' = {s \in Session : call'[s] # NoCall}
    BY DEF Busy
  <2>. QED  BY <2>2, <2>3, <2>4
<1>5. \A s \in Session : pc[s] \in Open => s \in Busy
  BY KindOfCall DEF Busy, ControlInv, Control
<1>6. CASE Tick
  <2>1. UNCHANGED <<balance, entries>> /\ sub'.start = sub.start
    BY <1>6 DEF Tick, ControlInv, TypeOK
  <2>. QED  BY <1>6, <2>1, TickPeriod, ReadKept
<1>7. ASSUME NEW s \in Session, NEW c \in Call, Begin(s, c)
      PROVE  PeriodInv' /\ ReadInv'
  <2>1. call'[s] = c /\ c # NoCall /\ clock' \in Time
    BY <1>3, <1>7, KindOfCall DEF Begin, ControlInv, TypeOK
  <2>2. c.kind \in PeriodKinds
    BY <1>4, <2>1
  <2>3. UNCHANGED <<balance, entries, sub>>
    BY <1>7 DEF Begin
  <2>. QED  BY <1>4, <1>7, <2>1, <2>2, <2>3, BeginPeriod, ReadKept
<1>8. ASSUME NEW s \in Session,
             ReturnBrief(s) \/ RefuseBrief(s) \/ InsertConflict(s) \/ Insufficient(s)
               \/ EntryConflict(s) \/ Victim(s) \/ Crash(s)
      PROVE  PeriodInv' /\ ReadInv'
  <2>1. pc[s] \in Open /\ UNCHANGED db /\ \E how : Close(s, how)
    BY <1>8 DEF ReturnBrief, RefuseBrief, InsertConflict, MayInsert, Insufficient, EntryConflict, MayLock,
                Victim, InCycle, Crash, Rollback, Open
  <2>2. s \in Busy /\ UNCHANGED <<balance, entries, clock, sub>>
    BY <1>5, <2>1 DEF db
  <2>. QED  BY <1>4, <2>1, <2>2, Ends, ReadKept
<1>9. ASSUME NEW s \in Session, NotCharged(s)
      PROVE  PeriodInv' /\ ReadInv'
  <2>1. s \in Busy
    BY <1>5, <1>9 DEF NotCharged, MayCharge, Open
  <2>2. Close(s, "refused") /\ UNCHANGED <<balance, entries, clock>>
    BY <1>9 DEF NotCharged
  <2>3. sub'.start = sub.start /\ sub'.end = sub.end
    BY <1>9 DEF NotCharged, ControlInv, TypeOK
  <2>. QED  BY <1>4, <2>1, <2>2, <2>3, Ends, ReadKept
<1>10. ASSUME NEW s \in Session,
              Start(s) \/ Recharge(s) \/ Settled(s) \/ Insert(s) \/ Charged(s) \/ Want(s)
       PROVE  PeriodInv' /\ ReadInv'
  <2>1. /\ s \in Busy /\ UNCHANGED <<balance, entries, clock, sub, call, era, term, snap, pend>>
    BY <1>5, <1>10 DEF Start, Recharge, Settled, Insert, MayInsert, Charged, MayCharge, Want, db, Open
  <2>2. Found(s)
    BY <2>1 DEF PeriodInv
  <2>3. snap'[s] = IF pend'[s] = <<>> THEN balance ELSE pend'[s][Len(pend'[s])].after
    BY <2>1, <2>2 DEF Found
  <2>4. ASSUME pc'[s] \in {"check", "lock"}
        PROVE  Moves(s)'
    <3>1. CASE Want(s)
      <4>1. Moves(s) /\ todo' = todo
        BY <2>1, <3>1 DEF Want, PeriodInv
      <4>2. PlanLeft' = PlanLeft /\ (Expired' <=> Expired)
        BY <2>1, SameLeft
      <4>. QED  BY <2>1, <4>1, <4>2 DEF Moves, RowFor, Due, Grant, Rest
    <3>2. CASE ~Want(s)
      <4>1. pc[s] \in {"begun", "work", "charge"} /\ todo'[s] = Movements(call[s], term[s], snap[s])
        <5>1. pc \in [Session -> Ended \cup Open] /\ todo \in [Session -> Seq(Movement)]
          BY DEF ControlInv, TypeOK
        <5>. QED  BY <1>10, <2>4, <3>2, <5>1 DEF Start, Recharge, Settled, Insert, MayInsert, Charged, MayCharge
      <4>2. pend[s] = <<>> /\ pend'[s] = <<>>
        BY <2>1, <4>1 DEF ControlInv, Control
      <4>. QED  BY <2>1, <4>1, <4>2, MovesMade
    <3>. QED  BY <3>1, <3>2
  <2>. QED  BY <1>4, <2>1, <2>3, <2>4, GoesOn, ReadKept
<1>11. ASSUME NEW s \in Session, Skip(s) \/ Apply(s)
       PROVE  PeriodInv' /\ ReadInv'
  <2>1. s \in Busy /\ UNCHANGED <<balance, entries, sub>>
    BY <1>5, <1>11 DEF Skip, Apply, MayLock, db, Open
  <2>. QED  BY <1>4, <1>11, <2>1, SkipPeriod, ApplyPeriod, ReadKept
<1>12. ASSUME NEW s \in Session, Commit(s)
       PROVE  PeriodInv' /\ ReadInv'
  <2>1. s \in Busy
    BY <1>5, <1>12 DEF Commit, Open
  <2>. QED  BY <1>3, <1>4, <1>12, <2>1, CommitPeriod
<1>. QED
  BY <1>2, <1>6, <1>7, <1>8, <1>9, <1>10, <1>11, <1>12 DEF Next, Progress

\* Plan credits expire with their period, exactly those that are left of the
\* grant, and what was bought never does: where a billing period's sessions come
\* one at a time and its briefs are committed before it ends, whatever calls are
\* made, fail, are repeated or are cut short, for every length of history.
THEOREM PlanCreditsAlwaysExpire == FocusSpec => []PlanCreditsExpire
<1>. DEFINE IInv == ControlInv /\ LedgerInv /\ (focus = "periods" => PeriodInv /\ ReadInv)
<1>1. FocusInit => IInv
  BY ControlInit, LedgerInit, PeriodStart DEF FocusInit
<1>2. IInv /\ [Next /\ InFocus /\ UNCHANGED focus]_ledgerVars => IInv'
  <2>. SUFFICES ASSUME IInv, [Next /\ InFocus /\ UNCHANGED focus]_ledgerVars
                PROVE  IInv'
    OBVIOUS
  <2>1. [Next]_vars /\ focus' = focus
    BY DEF ledgerVars
  <2>2. ControlInv' /\ LedgerInv'
    BY <2>1, ControlStep, LedgerStep
  <2>3. focus' = "periods" => PeriodInv' /\ ReadInv'
    BY <2>1, PeriodStep
  <2>. QED  BY <2>2, <2>3
<1>3. IInv => PlanCreditsExpire
  <2>. SUFFICES ASSUME IInv, focus = "periods"
                PROVE  PlanCreditsExpire
    BY DEF PlanCreditsExpire
  <2>. DEFINE w == Wallets(entries)
  <2>1. Reading(entries, WalletNow)
    BY DEF ReadInv
  <2>2. Reads(w, entries)
    BY <2>1, WalletsRead DEF Reading
  <2>3. w[Len(entries)] = WalletNow /\ \A i \in DOMAIN entries : RightRow(entries[i], w[i - 1])
    BY <2>1, <2>2 DEF Reading
  <2>4. balance = w[Len(entries)].plan + w[Len(entries)].bought
    <3>1. balance \in Int /\ PlanLeft \in Nat
      BY LeftType DEF ControlInv, TypeOK
    <3>2. WalletNow.plan = PlanLeft /\ WalletNow.bought = balance - PlanLeft
      BY DEF WalletNow
    <3>. QED  BY <2>3, <3>1, <3>2
  <2>. HIDE DEF w
  <2>5. /\ \A i \in DOMAIN entries :
            /\ entries[i].key[1] = "expiry" => entries[i].delta = -w[i - 1].plan
            /\ entries[i].key[1] = "grant" => w[i - 1].plan = 0
        /\ balance = w[Len(entries)].plan + w[Len(entries)].bought
    BY <2>3, <2>4 DEF RightRow
  <2>. QED  BY <2>5 DEF PlanCreditsExpire, w
<1>. QED  BY <1>1, <1>2, <1>3, PTL DEF FocusSpec
=============================================================================
