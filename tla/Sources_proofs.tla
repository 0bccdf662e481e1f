---------------------------- MODULE Sources_proofs ----------------------------
(***************************************************************************)
(* Proofs about SourceCalls, for any finite set of workers, any threshold, *)
(* numbers of attempts and tries, quota and bucket, and about Collecting,  *)
(* for any number of runs, days, items and pages.                          *)
(*                                                                         *)
(* The quota: each call sent today and each permit of today is one of the  *)
(* INCRs that found room.  The circuit: a worker that has sent a call      *)
(* while it is open cannot have been admitted since.                       *)
(*                                                                         *)
(* The cursor: at every moment of a run, an item that was on time and      *)
(* listed when it began is stored, in its hands, or on a page it has still *)
(* to ask for.  An item's place among those asked for says on which; new   *)
(* items only move it back, on a crawl by less than a page between two     *)
(* pages.  What a run's window has not reached was stored before it.       *)
(***************************************************************************)
EXTENDS MCSources, FiniteSetTheorems, TLAPS

-----------------------------------------------------------------------------
(* The calls. *)

\* Who may send a call of today without asking for another permit.
Permitted == {w \in Worker : permit[w] = "today"}

\* The INCRs of today cover the calls sent and the permits that are out.
QuotaInv ==
  /\ sentToday + Cardinality(Permitted) <= used
  /\ sentToday + Cardinality(Permitted) <= Quota

\* Past before_call and not yet sent.
Admitted(w) == at[w] \in {"probe", "permit", "bucket", "send"}

OpenInv ==
  opened = "future" => \A w \in Worker :
    /\ sentOpen[w] <= 1
    /\ Admitted(w) => sentOpen[w] = 0

-----------------------------------------------------------------------------
LEMMA TypeInit == CallsInit => CallsTypeOK
<1>. SUFFICES ASSUME CallsInit  PROVE CallsTypeOK
  OBVIOUS
<1>1. up \in BOOLEAN /\ probe \in BOOLEAN
  BY Zenon DEF CallsInit
<1>2. /\ failures \in 0 .. Threshold /\ used \in 0 .. Quota + 1 /\ tokens \in 0 .. Capacity
      /\ troubles \in 0 .. MaxTroubles /\ sentToday \in Nat
  BY CallBoundAssumption DEF CallsInit
<1>3. /\ attempt \in [Worker -> 0 .. MaxAttempts - 1] /\ try \in [Worker -> 0 .. MaxTries]
      /\ sentOpen \in [Worker -> Nat]
  BY CallBoundAssumption DEF CallsInit
<1>4. /\ opened \in {"never", "future", "past"} /\ at \in [Worker -> Places]
      /\ permit \in [Worker -> {"none", "today", "before"}]
  BY DEF CallsInit, Places
<1>. QED  BY <1>1, <1>2, <1>3, <1>4 DEF CallsTypeOK

\* What is true or false stays so.
LEMMA BooleansStep ==
  CallsTypeOK /\ [CallsNext]_callVars => up' \in BOOLEAN /\ probe' \in BOOLEAN
<1>. SUFFICES ASSUME CallsTypeOK, [CallsNext]_callVars
              PROVE  up' \in BOOLEAN /\ probe' \in BOOLEAN
  OBVIOUS
<1>. USE DEF CallsTypeOK, breaker
<1>1. ASSUME NEW w \in Worker, InQueue(w) \/ Die(w)  PROVE up' \in BOOLEAN /\ probe' \in BOOLEAN
  BY <1>1, Zenon DEF InQueue, StartJob, DropJob, Die
<1>2. ASSUME NEW w \in Worker, InRequest(w)  PROVE up' \in BOOLEAN /\ probe' \in BOOLEAN
  BY <1>2, Zenon DEF InRequest, Check, TakeProbe, AcquirePermit, TakeToken, Send, Answered, Refused,
       SoftRefused, Failed, Trip, Release, NextAttempt, RecordSuccess
<1>3. CASE Outage \/ OutageEnds \/ CooldownEnds \/ ProbeExpires \/ CircuitExpires \/ Refill
  BY <1>3, Zenon DEF Outage, OutageEnds, CooldownEnds, ProbeExpires, CircuitExpires, Refill
<1>4. CASE Midnight \/ UNCHANGED callVars
  BY <1>4, Zenon DEF Midnight, callVars
<1>. QED  BY <1>1, <1>2, <1>3, <1>4, Zenon DEF CallsNext

\* The types but for those of up and probe.
CountersOK ==
  /\ failures \in 0 .. Threshold
  /\ opened \in {"never", "future", "past"}
  /\ used \in 0 .. Quota + 1
  /\ tokens \in 0 .. Capacity
  /\ at \in [Worker -> Places]
  /\ attempt \in [Worker -> 0 .. MaxAttempts - 1]
  /\ try \in [Worker -> 0 .. MaxTries]
  /\ permit \in [Worker -> {"none", "today", "before"}]
  /\ sentToday \in Nat /\ sentOpen \in [Worker -> Nat]
  /\ troubles \in 0 .. MaxTroubles

LEMMA CountersStep == CountersOK /\ [CallsNext]_callVars => CountersOK'
<1>. SUFFICES ASSUME CountersOK, [CallsNext]_callVars  PROVE CountersOK'
  OBVIOUS
<1>. USE CallBoundAssumption DEF CountersOK, Places, breaker, jobVars, history, Go, Trouble, NoTrouble
<1>1. ASSUME NEW w \in Worker, InQueue(w)  PROVE CountersOK'
  BY <1>1 DEF InQueue, StartJob, DropJob
<1>2. ASSUME NEW w \in Worker, Check(w)  PROVE CountersOK'
  BY <1>2 DEF Check, Retry, EndJob
<1>3. ASSUME NEW w \in Worker, TakeProbe(w)  PROVE CountersOK'
  BY <1>3 DEF TakeProbe, Retry, EndJob
<1>4. ASSUME NEW w \in Worker, AcquirePermit(w)  PROVE CountersOK'
  BY <1>4 DEF AcquirePermit, Overrun, Retry, EndJob
<1>5. ASSUME NEW w \in Worker, TakeToken(w) \/ Send(w)  PROVE CountersOK'
  BY <1>5 DEF TakeToken, Send
<1>6. ASSUME NEW w \in Worker, Answered(w)  PROVE CountersOK'
  BY <1>6 DEF Answered, RecordSuccess, EndJob
<1>7. ASSUME NEW w \in Worker, Refused(w) \/ SoftRefused(w)  PROVE CountersOK'
  BY <1>7 DEF Refused, SoftRefused, RecordSuccess, Retry, Exhausted, EndJob
<1>8. ASSUME NEW w \in Worker, Failed(w)  PROVE CountersOK'
  BY <1>8 DEF Failed
<1>9. ASSUME NEW w \in Worker, Trip(w) \/ Release(w)  PROVE CountersOK'
  BY <1>9 DEF Trip, Release
<1>10. ASSUME NEW w \in Worker, NextAttempt(w)  PROVE CountersOK'
  BY <1>10 DEF NextAttempt, LastAttempt, LoopStart, Exhausted, EndJob
<1>11. ASSUME NEW w \in Worker, Die(w)  PROVE CountersOK'
  BY <1>11 DEF Die
<1>12. CASE Outage \/ OutageEnds \/ CooldownEnds \/ ProbeExpires \/ CircuitExpires \/ Refill
  BY <1>12 DEF Outage, OutageEnds, CooldownEnds, ProbeExpires, CircuitExpires, Refill
<1>13. CASE Midnight
  BY <1>13 DEF Midnight
<1>14. CASE UNCHANGED callVars
  BY <1>14 DEF callVars
<1>. QED
  BY <1>1, <1>2, <1>3, <1>4, <1>5, <1>6, <1>7, <1>8, <1>9, <1>10, <1>11, <1>12, <1>13, <1>14, Zenon
     DEF CallsNext, InRequest

\* Every action keeps the types.
LEMMA TypeStep == CallsTypeOK /\ [CallsNext]_callVars => CallsTypeOK'
<1>. SUFFICES ASSUME CallsTypeOK, [CallsNext]_callVars  PROVE CallsTypeOK'
  OBVIOUS
<1>1. CountersOK
  BY Zenon DEF CallsTypeOK, CountersOK
<1>2. CountersOK' /\ up' \in BOOLEAN /\ probe' \in BOOLEAN
  BY <1>1, CountersStep, BooleansStep
<1>. QED  BY <1>2, Zenon DEF CallsTypeOK, CountersOK

\* The variables of SourceCalls keep their types.
THEOREM CallsTypeCorrect == CallsSpec => []CallsTypeOK
BY TypeInit, TypeStep, PTL DEF CallsSpec

-----------------------------------------------------------------------------
(* The quota. *)

LEMMA PermittedFinite == IsFiniteSet(Permitted) /\ Cardinality(Permitted) \in Nat
BY CallBoundAssumption, FS_Subset, FS_CardinalityType DEF Permitted

\* A worker's permit is given back, or used, or taken.
LEMMA PermitGone ==
  ASSUME CallsTypeOK, NEW w \in Worker, permit' = [permit EXCEPT ![w] = "none"]
  PROVE  Cardinality(Permitted') =
           IF permit[w] = "today" THEN Cardinality(Permitted) - 1 ELSE Cardinality(Permitted)
<1>1. Permitted' = Permitted \ {w}
  BY DEF Permitted, CallsTypeOK
<1>2. w \in Permitted <=> permit[w] = "today"
  BY DEF Permitted
<1>. QED  BY <1>1, <1>2, PermittedFinite, FS_RemoveElement

LEMMA PermitTaken ==
  ASSUME CallsTypeOK, NEW w \in Worker, permit' = [permit EXCEPT ![w] = "today"]
  PROVE  Cardinality(Permitted') \in {Cardinality(Permitted), Cardinality(Permitted) + 1}
<1>1. Permitted' = Permitted \cup {w}
  BY DEF Permitted, CallsTypeOK
<1>. QED  BY <1>1, PermittedFinite, FS_AddElement

LEMMA QuotaInit == CallsInit => QuotaInv
<1>. SUFFICES ASSUME CallsInit  PROVE QuotaInv
  OBVIOUS
<1>1. Permitted = {}
  BY DEF CallsInit, Permitted
<1>. QED  BY <1>1, FS_EmptySet, CallBoundAssumption DEF CallsInit, QuotaInv

LEMMA QuotaStep == CallsTypeOK /\ QuotaInv /\ [CallsNext]_callVars => QuotaInv'
<1>. SUFFICES ASSUME CallsTypeOK, QuotaInv, [CallsNext]_callVars  PROVE QuotaInv'
  OBVIOUS
<1>. USE CallBoundAssumption, PermittedFinite DEF QuotaInv
<1>1. used \in Nat /\ sentToday \in Nat
  BY DEF CallsTypeOK
<1>2. CASE UNCHANGED <<permit, sentToday, used>>
  BY <1>2 DEF Permitted
<1>3. ASSUME NEW w \in Worker, permit' = [permit EXCEPT ![w] = "none"],
             sentToday' = sentToday, used' \in Nat, used' >= used
      PROVE  QuotaInv'
  <2>1. Cardinality(Permitted') =
          IF permit[w] = "today" THEN Cardinality(Permitted) - 1 ELSE Cardinality(Permitted)
    BY <1>3, PermitGone
  <2>. QED  BY <1>1, <1>3, <2>1
<1>4. ASSUME NEW w \in Worker, InQueue(w) \/ TakeToken(w) \/ Failed(w) \/ Trip(w) \/ Release(w)
      PROVE  QuotaInv'
  BY <1>2, <1>4 DEF InQueue, StartJob, DropJob, TakeToken, Failed, Trip, Release, history
<1>5. ASSUME NEW w \in Worker, Check(w) \/ TakeProbe(w) \/ NextAttempt(w)  PROVE QuotaInv'
  BY <1>1, <1>2, <1>3, <1>5 DEF Check, TakeProbe, NextAttempt, Retry, Exhausted, EndJob, history
<1>6. ASSUME NEW w \in Worker, Answered(w) \/ Refused(w) \/ SoftRefused(w) \/ Die(w)  PROVE QuotaInv'
  BY <1>1, <1>3, <1>6 DEF Answered, Refused, SoftRefused, Die, Retry, Exhausted, EndJob, history
<1>7. ASSUME NEW w \in Worker, AcquirePermit(w)  PROVE QuotaInv'
  <2>1. CASE Overrun(used + 1) /\ Retry(w)
    <3>1. used' \in Nat /\ used' >= used /\ sentToday' = sentToday
      BY <1>1, <1>7 DEF AcquirePermit, history
    <3>2. permit' = [permit EXCEPT ![w] = "none"]
      BY <2>1 DEF Retry, EndJob
    <3>. QED  BY <1>3, <3>1, <3>2
  <2>2. CASE ~Overrun(used + 1) /\ permit' = [permit EXCEPT ![w] = "today"]
    <3>1. used' = used + 1 /\ used + 1 <= Quota /\ sentToday' = sentToday
      BY <1>1, <1>7, <2>2 DEF AcquirePermit, Overrun, history
    <3>2. Cardinality(Permitted') \in {Cardinality(Permitted), Cardinality(Permitted) + 1}
      BY <2>2, PermitTaken
    <3>. QED  BY <1>1, <3>1, <3>2
  <2>. QED  BY <1>7, <2>1, <2>2 DEF AcquirePermit
<1>8. ASSUME NEW w \in Worker, Send(w)  PROVE QuotaInv'
  <2>1. permit' = [permit EXCEPT ![w] = "none"] /\ used' = used
    BY <1>8 DEF Send
  <2>2. sentToday' = IF permit[w] = "today" THEN sentToday + 1 ELSE sentToday
    BY <1>8 DEF Send
  <2>3. Cardinality(Permitted') =
          IF permit[w] = "today" THEN Cardinality(Permitted) - 1 ELSE Cardinality(Permitted)
    BY <2>1, PermitGone
  <2>. QED  BY <1>1, <2>1, <2>2, <2>3
<1>9. CASE Midnight
  <2>1. Permitted' = {}
    BY <1>9 DEF Midnight, Permitted, CallsTypeOK
  <2>. QED  BY <1>9, <2>1, FS_EmptySet DEF Midnight
<1>10. CASE Outage \/ OutageEnds \/ CooldownEnds \/ ProbeExpires \/ CircuitExpires \/ Refill
  BY <1>2, <1>10
     DEF Outage, OutageEnds, CooldownEnds, ProbeExpires, CircuitExpires, Refill, history
<1>11. CASE UNCHANGED callVars
  BY <1>2, <1>11 DEF callVars, history
<1>. QED
  BY <1>4, <1>5, <1>6, <1>7, <1>8, <1>9, <1>10, <1>11, Zenon DEF CallsNext, InRequest

\* No more calls are sent in a day than its quota allows.
THEOREM QuotaAlwaysKept == CallsSpec => []QuotaKept
<1>1. CallsTypeOK /\ QuotaInv => QuotaKept
  BY PermittedFinite, CallBoundAssumption DEF QuotaInv, QuotaKept, CallsTypeOK
<1>. QED  BY <1>1, TypeInit, TypeStep, QuotaInit, QuotaStep, PTL DEF CallsSpec

-----------------------------------------------------------------------------
(* The circuit. *)

LEMMA OpenStep == CallsTypeOK /\ OpenInv /\ [CallsNext]_callVars => OpenInv'
<1>. SUFFICES ASSUME CallsTypeOK, OpenInv, [CallsNext]_callVars, opened' = "future",
                     NEW v \in Worker
              PROVE  sentOpen'[v] <= 1 /\ (Admitted(v)' => sentOpen'[v] = 0)
  BY DEF OpenInv
<1>. DEFINE Once == sentOpen'[v] <= 1 /\ (Admitted(v)' => sentOpen'[v] = 0)
<1>. USE DEF OpenInv, CallsTypeOK, Admitted, Places, breaker, jobVars, history, Go
<1>1. ASSUME NEW w \in Worker, InQueue(w) \/ Die(w)  PROVE Once
  BY <1>1 DEF InQueue, StartJob, DropJob, Die
<1>2. ASSUME NEW w \in Worker, Check(w) \/ TakeProbe(w) \/ AcquirePermit(w)  PROVE Once
  BY <1>2 DEF Check, TakeProbe, AcquirePermit, Retry, EndJob
<1>3. ASSUME NEW w \in Worker, TakeToken(w) \/ Send(w)  PROVE Once
  BY <1>3 DEF TakeToken, Send
<1>4. ASSUME NEW w \in Worker, Answered(w) \/ Refused(w) \/ SoftRefused(w)  PROVE Once
  BY <1>4 DEF Answered, Refused, SoftRefused, RecordSuccess, Retry, EndJob
<1>5. ASSUME NEW w \in Worker, Failed(w)  PROVE Once
  BY <1>5 DEF Failed
<1>6. ASSUME NEW w \in Worker, Trip(w)  PROVE Once
  BY <1>6 DEF Trip
<1>7. ASSUME NEW w \in Worker, Release(w) \/ NextAttempt(w)  PROVE Once
  BY <1>7 DEF Release, NextAttempt, LoopStart, Exhausted, EndJob
<1>8. CASE Outage \/ OutageEnds \/ CooldownEnds \/ ProbeExpires \/ CircuitExpires \/ Refill \/ Midnight
  BY <1>8
     DEF Outage, OutageEnds, CooldownEnds, ProbeExpires, CircuitExpires, Refill, Midnight
<1>9. CASE UNCHANGED callVars
  BY <1>9 DEF callVars
<1>. QED
  BY <1>1, <1>2, <1>3, <1>4, <1>5, <1>6, <1>7, <1>8, <1>9, Zenon DEF CallsNext, InRequest

\* While the circuit is open each worker sends at most the one call it had been
\* admitted for.
THEOREM OpenAlwaysHolds == CallsSpec => []OpenHolds
<1>1. CallsInit => OpenInv
  BY DEF CallsInit, OpenInv
<1>2. OpenInv => OpenHolds
  BY DEF OpenInv, OpenHolds
<1>. QED  BY <1>1, <1>2, TypeInit, TypeStep, OpenStep, PTL DEF CallsSpec

-----------------------------------------------------------------------------
(* The runs. *)

(* The order of a list, and the places of its items. *)

Dated == dates \in Seq(1 .. Days) /\ newest \in BOOLEAN

LEMMA ItemsFinite ==
  ASSUME Dated
  PROVE  /\ Len(dates) \in Nat /\ IsFiniteSet(Items) /\ Cardinality(Items) = Len(dates)
         /\ \A i \in Items : i \in Nat /\ dates[i] \in 1 .. Days /\ dates[i] \in Int
<1>1. Len(dates) \in Nat /\ \A i \in Items : i \in Nat /\ dates[i] \in 1 .. Days
  <2>1. dates \in Seq(1 .. Days)
    BY DEF Dated
  <2>. DEFINE D == 1 .. Days
  <2>2. dates \in Seq(D)
    BY <2>1
  <2>. HIDE DEF D
  <2>3. Len(dates) \in Nat
    BY <2>2
  <2>4. \A i \in 1 .. Len(dates) : dates[i] \in D
    BY <2>2
  <2>. QED  BY <2>3, <2>4 DEF Items, D
<1>2. IsFiniteSet(Items) /\ Cardinality(Items) = Len(dates)
  BY <1>1, FS_Interval, 1 \in Int DEF Items
<1>. QED  BY <1>1, <1>2

LEMMA Ordered ==
  ASSUME Dated
  PROVE  \A i, k, l \in Items :
           /\ ~Precedes(i, i)
           /\ i = k \/ Precedes(i, k) \/ Precedes(k, i)
           /\ Precedes(i, k) /\ Precedes(k, l) => Precedes(i, l)
<1>1. SUFFICES ASSUME NEW i \in Items, NEW k \in Items, NEW l \in Items
               PROVE  /\ ~Precedes(i, i)
                      /\ i = k \/ Precedes(i, k) \/ Precedes(k, i)
                      /\ Precedes(i, k) /\ Precedes(k, l) => Precedes(i, l)
  OBVIOUS
<1>2. /\ i \in Nat /\ k \in Nat /\ l \in Nat
      /\ dates[i] \in Int /\ dates[k] \in Int /\ dates[l] \in Int
  BY ItemsFinite
<1>3. /\ ~Before(i, i)
      /\ i = k \/ Before(i, k) \/ Before(k, i)
      /\ Before(i, k) /\ Before(k, l) => Before(i, l)
      /\ Before(l, k) /\ Before(k, i) => Before(l, i)
  BY <1>2 DEF Before
<1>. QED  BY <1>3 DEF Precedes

\* The items up to one of them.
UpTo(i, asked) == {k \in asked : k = i \/ Precedes(k, i)}

LEMMA UpToFinite ==
  ASSUME Dated, NEW A \in SUBSET Items, NEW i \in A
  PROVE  /\ IsFiniteSet(A) /\ UpTo(i, A) \subseteq A /\ i \in UpTo(i, A)
         /\ IsFiniteSet(UpTo(i, A)) /\ Place(i, A) = Cardinality(UpTo(i, A))
         /\ Place(i, A) \in 1 .. Cardinality(A) /\ Cardinality(A) \in Nat
<1>1. IsFiniteSet(A)
  BY ItemsFinite, FS_Subset
<1>2. UpTo(i, A) \subseteq A /\ i \in UpTo(i, A)
  BY DEF UpTo
<1>3. IsFiniteSet(UpTo(i, A)) /\ Cardinality(UpTo(i, A)) <= Cardinality(A)
  BY <1>1, <1>2, FS_Subset
<1>4. Cardinality(UpTo(i, A)) \in Nat /\ Cardinality(A) \in Nat
  BY <1>1, <1>3, FS_CardinalityType
<1>5. Cardinality(UpTo(i, A)) # 0
  BY <1>2, <1>3, FS_EmptySet
<1>6. Place(i, A) = Cardinality(UpTo(i, A))
  BY DEF Place, UpTo
<1>. QED  BY <1>1, <1>2, <1>3, <1>4, <1>5, <1>6

\* Later in the order, later in the list.
LEMMA PlaceOrdered ==
  ASSUME Dated, NEW A \in SUBSET Items, NEW i \in A, NEW k \in A, Precedes(i, k)
  PROVE  Place(i, A) < Place(k, A)
<1>1. UpTo(i, A) \subseteq UpTo(k, A)
  BY Ordered DEF UpTo
<1>2. k \in UpTo(k, A) /\ k \notin UpTo(i, A)
  BY Ordered DEF UpTo
<1>3. /\ Cardinality(UpTo(i, A)) <= Cardinality(UpTo(k, A))
      /\ Cardinality(UpTo(i, A)) = Cardinality(UpTo(k, A)) => UpTo(k, A) = UpTo(i, A)
  BY <1>1, UpToFinite, FS_Subset
<1>4. Cardinality(UpTo(i, A)) # Cardinality(UpTo(k, A))
  BY <1>2, <1>3
<1>5. /\ Place(i, A) = Cardinality(UpTo(i, A)) /\ Place(k, A) = Cardinality(UpTo(k, A))
      /\ Place(i, A) \in Nat /\ Place(k, A) \in Nat
  BY UpToFinite
<1>. QED  BY <1>3, <1>4, <1>5

LEMMA PlaceTells ==
  ASSUME Dated, NEW A \in SUBSET Items, NEW i \in A, NEW k \in A
  PROVE  /\ Place(i, A) < Place(k, A) => Precedes(i, k)
         /\ Place(i, A) = Place(k, A) => i = k
<1>1. Place(i, A) \in Nat /\ Place(k, A) \in Nat
  BY UpToFinite
<1>2. i = k \/ Precedes(i, k) \/ Precedes(k, i)
  BY Ordered
<1>3. Precedes(i, k) => Place(i, A) < Place(k, A)
  BY PlaceOrdered
<1>4. Precedes(k, i) => Place(k, A) < Place(i, A)
  BY PlaceOrdered
<1>. QED  BY <1>1, <1>2, <1>3, <1>4

\* Every place is taken.
LEMMA PlaceTaken ==
  ASSUME Dated, NEW A \in SUBSET Items, NEW q \in 1 .. Cardinality(A)
  PROVE  \E i \in A : Place(i, A) = q
<1>. DEFINE f == [i \in A |-> Place(i, A)]
            P == 1 .. Cardinality(A)
<1>1. IsFiniteSet(A) /\ Cardinality(A) \in Nat
  BY ItemsFinite, FS_Subset, FS_CardinalityType
<1>2. IsFiniteSet(P) /\ Cardinality(P) = Cardinality(A)
  BY <1>1, FS_Interval, 1 \in Int
<1>3. f \in [A -> P]
  BY UpToFinite
<1>4. \A i, k \in A : f[i] = f[k] => i = k
  BY PlaceTells
<1>5. f \in Injection(A, P)
  BY <1>3, <1>4 DEF Injection, IsInjective
<1>. HIDE DEF f, P
<1>6. f \in Surjection(A, P)
  BY <1>2, <1>5, FS_Injection
<1>7. \A p \in P : \E i \in A : f[i] = p
  BY <1>6 DEF Surjection
<1>. QED  BY <1>7 DEF f, P

-----------------------------------------------------------------------------
(* Pages. *)

LEMMA PagesAre ==
  ASSUME NEW A, NEW p
  PROVE  PageOf(A, p) = {i \in A : (p - 1) * PageSize < Place(i, A) /\ Place(i, A) <= p * PageSize}
BY DEF PageOf

\* A short page is the last one.
LEMMA ShortIsLast ==
  ASSUME Dated, NEW A \in SUBSET Items, NEW p \in Nat \ {0}, NEW i \in A,
         Place(i, A) > p * PageSize
  PROVE  Cardinality(PageOf(A, p)) >= PageSize
<1>. DEFINE lo == (p - 1) * PageSize
            hi == p * PageSize
            rows == PageOf(A, p)
            f == [k \in rows |-> Place(k, A)]
<1>1. PageSize \in Nat /\ lo \in Nat /\ hi \in Nat /\ hi = lo + PageSize
  <2>1. PageSize \in Nat
    BY CollectBoundAssumption
  <2>2. p - 1 \in Nat /\ p \in Nat
    OBVIOUS
  <2>3. lo \in Nat /\ hi \in Nat /\ hi = lo + PageSize
    BY <2>1, <2>2
  <2>. QED  BY <2>1, <2>3
<1>2. rows = {k \in A : lo < Place(k, A) /\ Place(k, A) <= hi}
  BY DEF PageOf
<1>. HIDE DEF lo, hi, rows
<1>3. hi < Cardinality(A) /\ Cardinality(A) \in Nat
  BY <1>1, UpToFinite DEF hi
<1>4. \A q \in lo + 1 .. hi : \E k \in rows : f[k] = q
  <2>. TAKE q \in lo + 1 .. hi
  <2>1. q \in 1 .. Cardinality(A)
    BY <1>1, <1>3
  <2>2. PICK k \in A : Place(k, A) = q
    BY <2>1, PlaceTaken
  <2>3. k \in rows
    BY <1>1, <1>2, <2>2
  <2>. QED  BY <2>2, <2>3
<1>5. \A k \in rows : f[k] \in lo + 1 .. hi
  BY <1>1, <1>2, UpToFinite
<1>6. f \in Surjection(rows, lo + 1 .. hi)
  BY <1>4, <1>5 DEF Surjection
<1>7. IsFiniteSet(rows)
  <2>1. IsFiniteSet(A) /\ rows \subseteq A
    BY <1>2, UpToFinite
  <2>. QED  BY <2>1, FS_Subset
<1>. HIDE DEF f
<1>8. Cardinality(lo + 1 .. hi) <= Cardinality(rows)
  BY <1>6, <1>7, FS_Surjection
<1>9. Cardinality(lo + 1 .. hi) = PageSize
  BY <1>1, FS_Interval
<1>10. Cardinality(rows) \in Nat
  BY <1>7, FS_CardinalityType
<1>. QED  BY <1>1, <1>8, <1>9, <1>10 DEF rows

\* So is an empty one.
LEMMA EmptyIsLast ==
  ASSUME Dated, NEW A \in SUBSET Items, NEW p \in Nat \ {0}, NEW i \in A,
         Place(i, A) > p * PageSize
  PROVE  \E k \in PageOf(A, p) : Place(k, A) = p * PageSize
<1>1. PageSize \in Nat \ {0} /\ p - 1 \in Nat
  BY CollectBoundAssumption
<1>2. p * PageSize \in Nat /\ p * PageSize >= 1 /\ (p - 1) * PageSize < p * PageSize
  <2>1. p * PageSize = (p - 1) * PageSize + PageSize /\ (p - 1) * PageSize \in Nat /\ p * PageSize \in Nat
    BY <1>1
  <2>. QED  BY <1>1, <2>1
<1>3. p * PageSize \in 1 .. Cardinality(A)
  BY <1>2, UpToFinite
<1>4. PICK k \in A : Place(k, A) = p * PageSize
  BY <1>3, PlaceTaken
<1>. QED  BY <1>2, <1>4 DEF PageOf

-----------------------------------------------------------------------------
(* The invariant. *)

Running(j) == job[j].on

\* The days of the request that a run is at, what it lists, and where.
End(j) == SliceEnd(job[j])
List(j) == Asked(job[j])
Spot(j, i) == Place(i, Asked(job[j]))

\* What was there before the window is stored; what is on time and was not
\* listed when the run began will be within reach of the next one.
Window(j) ==
  /\ job[j].since <= job[j].until /\ job[j].until <= day
  /\ job[j].since <= 0 \/ job[j].since <= day - Overlap
  /\ \A i \in Items \ late : dates[i] < job[j].since => i \in stored
  /\ job[j].began \subseteq Items \ late
  /\ \A i \in job[j].began : dates[i] <= job[j].until
  /\ \A i \in Items \ late : i \notin job[j].began => dates[i] >= job[j].until - Overlap

Had(j, i) == i \in stored \cup job[j].got \cup job[j].todo

\* On a page, or in a slice of days, that the run has still to ask for.
Ahead(j, i) ==
  /\ job[j].page > 0
  /\ \/ dates[i] > End(j)
     \/ i \in List(j) /\ Spot(j, i) > (job[j].page - 1) * PageSize

Covered(j) == \A i \in job[j].began : dates[i] >= job[j].since => Had(j, i) \/ Ahead(j, i)

\* A crawl has taken what it has seen, and that is still less than a page behind
\* the page it comes to.
Taken(j) ==
  /\ job[j].shift < PageSize
  /\ adapter # "crawler" => job[j].seen = {}
  /\ job[j].got \cup job[j].todo \cup job[j].seen \subseteq Items
  /\ \A i \in job[j].seen :
       /\ InWindow(i, job[j].since, job[j].until) => Had(j, i)
       /\ job[j].page > 0 => Place(i, Items) <= (job[j].page - 1) * PageSize + job[j].shift

RunInv(j) == Running(j) => Window(j) /\ Covered(j) /\ Taken(j)

\* What is older than the next window's reach is stored.
Reached == \A i \in Items \ late : dates[i] < cursor - Overlap => i \in stored

CollectInv ==
  /\ CollectTypeOK /\ (adapter = "crawler" => newest)
  /\ Reached /\ NothingMissed
  /\ \A j \in Job : RunInv(j)

-----------------------------------------------------------------------------
LEMMA Typed ==
  ASSUME CollectTypeOK
  PROVE  /\ Dated /\ day \in Nat /\ day >= 1 /\ cursor \in Nat /\ cursor <= day /\ Overlap \in Nat
         /\ PageSize \in Nat /\ PageSize >= 1
         /\ \A i \in Items : dates[i] \in Nat /\ dates[i] >= 1 /\ dates[i] <= day
<1>1. Dated /\ day \in 1 .. Days /\ Days \in Nat
  BY CollectBoundAssumption DEF CollectTypeOK, Dated
<1>2. cursor \in 0 .. day
  BY DEF CollectTypeOK
<1>3. \A i \in Items : dates[i] <= day
  BY DEF CollectTypeOK
<1>4. \A i \in Items : dates[i] \in 1 .. Days
  BY <1>1, ItemsFinite
<1>. QED  BY <1>1, <1>2, <1>3, <1>4, CollectBoundAssumption

LEMMA RunTyped ==
  ASSUME CollectTypeOK, NEW j \in Job, Running(j)
  PROVE  /\ job[j] \in Run /\ job[j].since \in Int /\ job[j].until \in Nat /\ job[j].from \in Int
         /\ job[j].page \in Nat /\ job[j].shift \in Nat
<1>1. job[j] \in {NoJob} \cup Run
  BY DEF CollectTypeOK
<1>2. job[j] # NoJob
  BY DEF Running, NoJob
<1>3. job[j] \in Run
  BY <1>1, <1>2
<1>4. job[j].since \in Int /\ job[j].from \in Int /\ job[j].page \in Nat
  BY <1>3 DEF Run
<1>5. job[j].until \in 1 .. Days /\ job[j].shift \in Nat
  BY <1>3 DEF Run
<1>. QED  BY <1>3, <1>4, <1>5, CollectBoundAssumption

LEMMA NotRunning == ASSUME NEW j, job[j] = NoJob  PROVE ~Running(j)
BY DEF Running, NoJob

LEMMA CollectInitRight == CollectInit => CollectInv
<1>. SUFFICES ASSUME CollectInit  PROVE CollectInv
  OBVIOUS
<1>1. /\ dates = <<>> /\ late = {} /\ stored = {} /\ owed = {} /\ cursor = 0 /\ day = 1
      /\ job = [j \in Job |-> NoJob] /\ adapter \in Adapters
  BY DEF CollectInit
<1>2. Items = {} /\ dates \in Seq(1 .. Days) /\ Len(dates) = 0
  BY <1>1 DEF Items
<1>3. newest \in BOOLEAN /\ (adapter = "crawler" => newest)
  <2>1. CASE adapter = "crawler"
    BY <2>1, Zenon DEF CollectInit
  <2>2. CASE adapter # "crawler"
    BY <2>2, Zenon DEF CollectInit
  <2>. QED  BY <2>1, <2>2
<1>4. overlap \in BOOLEAN
  <2>1. CASE adapter \in Shared /\ newest
    BY <2>1, Zenon DEF CollectInit
  <2>2. CASE ~(adapter \in Shared /\ newest)
    <3>1. overlap \in {FALSE}
      BY <2>2, Zenon DEF CollectInit
    <3>. QED  BY <3>1
  <2>. QED  BY <2>1, <2>2
<1>5. \A j \in Job : job[j] = NoJob /\ ~job[j].on
  BY <1>1 DEF NoJob
<1>6. CollectTypeOK
  BY <1>1, <1>2, <1>3, <1>4, CollectBoundAssumption DEF CollectTypeOK
<1>7. Reached /\ NothingMissed
  BY <1>1, <1>2 DEF Reached, NothingMissed
<1>8. \A j \in Job : RunInv(j)
  BY <1>5 DEF RunInv, Running
<1>. QED  BY <1>3, <1>6, <1>7, <1>8 DEF CollectInv

-----------------------------------------------------------------------------
(* Frames. *)

\* The list and the slice of a run depend on its window and on the provider.
LEMMA SameLists ==
  ASSUME UNCHANGED provider, NEW j, job'[j].from = job[j].from, job'[j].until = job[j].until
  PROVE  /\ End(j)' = End(j) /\ List(j)' = List(j) /\ \A i : Spot(j, i)' = Spot(j, i)
         /\ \A i : Place(i, Items)' = Place(i, Items)
         /\ Items' = Items /\ dates' = dates /\ late' = late /\ adapter' = adapter
<1>1. /\ Items' = Items /\ dates' = dates /\ late' = late /\ adapter' = adapter /\ newest' = newest
  BY DEF provider, Items
<1>2. End(j)' = End(j)
  BY <1>1 DEF End, SliceEnd
<1>3. List(j)' = List(j)
  BY <1>1, <1>2 DEF List, Asked, InWindow, End
<1>4. \A i, k : Precedes(k, i)' = Precedes(k, i)
  BY <1>1 DEF Precedes, Before
<1>5. \A i : Spot(j, i)' = Spot(j, i)
  BY <1>1, <1>3, <1>4 DEF Spot, Place, List
<1>6. \A i : Place(i, Items)' = Place(i, Items)
  BY <1>1, <1>4 DEF Place
<1>. QED  BY <1>1, <1>2, <1>3, <1>5, <1>6

LEMMA WindowKeeps ==
  ASSUME CollectInv, NEW j \in Job, Running(j), UNCHANGED provider, day' \in Nat, day <= day',
         stored \subseteq stored', job'[j].since = job[j].since, job'[j].until = job[j].until,
         job'[j].began = job[j].began
  PROVE  Window(j)'
<1>1. Items' = Items /\ dates' = dates /\ late' = late
  BY DEF provider, Items
<1>2. Window(j)
  BY DEF CollectInv, RunInv
<1>3. CollectTypeOK
  BY DEF CollectInv
<1>4. /\ job[j].until \in Nat /\ job[j].since \in Int /\ day \in Nat /\ Overlap \in Nat
  BY <1>3, Typed, RunTyped
<1>5. job[j].since <= 0 \/ job[j].since <= day' - Overlap
  BY <1>2, <1>4 DEF Window
<1>6. job[j].until <= day'
  BY <1>2, <1>4 DEF Window
<1>. QED  BY <1>1, <1>2, <1>5, <1>6 DEF Window

\* A run that stands still while others store.
LEMMA RunStands ==
  ASSUME CollectInv, NEW j \in Job, UNCHANGED provider, day' \in Nat, day <= day',
         stored \subseteq stored', job'[j] = job[j]
  PROVE  RunInv(j)'
<1>. SUFFICES ASSUME Running(j)'  PROVE (Window(j) /\ Covered(j) /\ Taken(j))'
  BY DEF RunInv
<1>1. Running(j) /\ Window(j) /\ Covered(j) /\ Taken(j)
  BY DEF Running, CollectInv, RunInv
<1>2. Window(j)'
  BY <1>1, WindowKeeps
<1>3. /\ End(j)' = End(j) /\ List(j)' = List(j) /\ (\A i : Spot(j, i)' = Spot(j, i))
      /\ (\A i : Place(i, Items)' = Place(i, Items)) /\ Items' = Items /\ dates' = dates
      /\ adapter' = adapter
  BY SameLists
<1>4. \A i : Had(j, i) => Had(j, i)'
  BY DEF Had
<1>5. \A i : Ahead(j, i)' = Ahead(j, i)
  BY <1>3 DEF Ahead
<1>6. Covered(j)'
  BY <1>1, <1>3, <1>4, <1>5 DEF Covered
<1>7. Taken(j)'
  BY <1>1, <1>3, <1>4 DEF Taken, InWindow
<1>. QED  BY <1>2, <1>6, <1>7

\* A step of one run that moves neither the cursor nor the provider.
LEMMA OneRun ==
  ASSUME CollectInv, UNCHANGED <<provider, day, cursor, owed>>,
         stored \subseteq stored', stored' \subseteq Items,
         NEW j \in Job, NEW r \in {NoJob} \cup Run, job' = [job EXCEPT ![j] = r],
         r.on => \A k \in Job, i \in r.got : job[k].on /\ i \in job[k].got => k = j,
         RunInv(j)'
  PROVE  CollectInv'
<1>1. CollectTypeOK
  BY DEF CollectInv
<1>2. /\ adapter' = adapter /\ newest' = newest /\ overlap' = overlap /\ dates' = dates /\ late' = late
      /\ day' = day /\ cursor' = cursor /\ owed' = owed /\ Items' = Items
  BY DEF provider, Items
<1>3. job \in [Job -> {NoJob} \cup Run]
  BY <1>1 DEF CollectTypeOK
<1>4. job' \in [Job -> {NoJob} \cup Run] /\ job'[j] = r /\ \A k \in Job \ {j} : job'[k] = job[k]
  BY <1>3
<1>5. \A k, l \in Job, i \in Items :
        job'[k].on /\ job'[l].on /\ i \in job'[k].got /\ i \in job'[l].got => k = l
  BY <1>1, <1>4 DEF CollectTypeOK
<1>6. CollectTypeOK'
  BY <1>1, <1>2, <1>4, <1>5 DEF CollectTypeOK
<1>7. \A k \in Job : RunInv(k)'
  <2>. TAKE k \in Job
  <2>1. CASE k # j
    BY <2>1, <1>1, <1>2, <1>4, Typed, RunStands
  <2>. QED  BY <2>1
<1>8. Reached' /\ NothingMissed'
  BY <1>2 DEF CollectInv, Reached, NothingMissed
<1>. QED  BY <1>2, <1>6, <1>7, <1>8 DEF CollectInv

-----------------------------------------------------------------------------
(* A page. *)

LEMMA ListRight ==
  ASSUME NEW j
  PROVE  /\ List(j) \subseteq Items
         /\ adapter \in {"lofin", "crawler"} => List(j) = Items
         /\ adapter \notin {"lofin", "crawler"} =>
              \A i \in Items : i \in List(j) <=> InWindow(i, job[j].from, End(j))
BY DEF List, Asked, End

\* What is behind the page that the adapter takes for the last is not in the window.
LEMMA LastIsLast ==
  ASSUME CollectInv, NEW j \in Job, Running(j), job[j].page > 0,
         LastPage(job[j], PageOf(List(j), job[j].page)),
         NEW i \in List(j), dates[i] >= job[j].since
  PROVE  Spot(j, i) <= job[j].page * PageSize
<1>. DEFINE p == job[j].page
            A == List(j)
            rows == PageOf(A, p)
<1>1. CollectTypeOK /\ Dated /\ p \in Nat \ {0} /\ A \subseteq Items /\ PageSize \in Nat /\ PageSize >= 1
  BY RunTyped, Typed, ListRight DEF CollectInv
<1>2. p * PageSize \in Nat /\ p - 1 \in Nat /\ (p - 1) * PageSize \in Nat
      /\ p * PageSize = (p - 1) * PageSize + PageSize
  BY <1>1
<1>3. Spot(j, i) = Place(i, A) /\ Place(i, A) \in 1 .. Cardinality(A) /\ Cardinality(A) \in Nat
  BY <1>1, UpToFinite DEF Spot, List
<1>4. SUFFICES ASSUME Place(i, A) > p * PageSize  PROVE FALSE
  BY <1>2, <1>3
<1>5. PICK k \in rows : Place(k, A) = p * PageSize
  BY <1>1, <1>4, EmptyIsLast
<1>6. Cardinality(rows) >= PageSize
  BY <1>1, <1>4, ShortIsLast
<1>7. adapter \in Adapters
  BY <1>1 DEF CollectTypeOK
<1>8. CASE adapter = "g2b"
  <2>1. p * PageSize >= Cardinality(A) \/ rows = {}
    BY <1>8 DEF LastPage, List
  <2>. QED  BY <1>2, <1>3, <1>4, <1>5, <2>1
<1>9. CASE adapter \in {"clik", "lofin"}
  <2>1. Cardinality(rows) < PageSize
    BY <1>9 DEF LastPage
  <2>2. rows \subseteq A /\ IsFiniteSet(A)
    BY <1>1, UpToFinite DEF PageOf
  <2>3. Cardinality(rows) \in Nat
    BY <2>2, FS_Subset, FS_CardinalityType
  <2>. QED  BY <1>1, <1>6, <2>1, <2>3
<1>10. CASE adapter = "crawler"
  <2>1. /\ A = Items /\ newest /\ Taken(j)
    BY <1>10, ListRight DEF CollectInv, RunInv
  <2>2. job[j].shift \in Nat /\ job[j].shift < PageSize
    BY <1>1, <2>1, RunTyped DEF Taken
  <2>3. k \notin job[j].seen
    <3>. SUFFICES ASSUME k \in job[j].seen  PROVE FALSE
      OBVIOUS
    <3>1. Place(k, A) <= (p - 1) * PageSize + job[j].shift
      BY <1>1, <2>1 DEF Taken
    <3>. QED  BY <1>1, <1>2, <1>5, <2>2, <3>1
  <2>4. ~(rows \subseteq job[j].seen)
    BY <1>5, <2>3
  <2>5. \A l \in rows : dates[l] >= job[j].since
    <3>. TAKE l \in rows
    <3>1. l \in A /\ Place(l, A) <= p * PageSize /\ Place(l, A) \in Nat
      <4>1. l \in A /\ Place(l, A) <= p * PageSize
        BY DEF PageOf
      <4>2. Place(l, A) \in 1 .. Cardinality(A)
        BY <1>1, <4>1, UpToFinite
      <4>. QED  BY <1>3, <4>1, <4>2
    <3>2. Place(l, A) < Place(i, A)
      BY <1>2, <1>3, <1>4, <3>1
    <3>3. Precedes(l, i)
      BY <1>1, <3>1, <3>2, PlaceTells
    <3>4. dates[i] <= dates[l]
      <4>1. Before(i, l)
        BY <2>1, <3>3 DEF Precedes
      <4>2. dates[i] \in Nat /\ dates[l] \in Nat
        BY <1>1, <3>1, Typed
      <4>. QED  BY <4>1, <4>2 DEF Before
    <3>5. dates[i] \in Nat /\ dates[l] \in Nat /\ job[j].since \in Int
      BY <1>1, <3>1, Typed, RunTyped
    <3>. QED  BY <3>4, <3>5
  <2>6. p # MaxPages
    <3>1. Cardinality(Items) <= MaxItems
      BY <1>1, ItemsFinite DEF CollectTypeOK
    <3>2. p * PageSize < MaxItems
      BY <1>2, <1>3, <1>4, <2>1, <3>1, CollectBoundAssumption
    <3>3. MaxPages * PageSize > MaxItems
      BY CollectBoundAssumption
    <3>4. MaxPages * PageSize \in Nat /\ MaxItems \in Nat
      BY <1>1, CollectBoundAssumption
    <3>5. p * PageSize # MaxPages * PageSize
      BY <1>2, <3>2, <3>3, <3>4
    <3>. QED  BY <3>5
  <2>7. \A l \in rows : dates[l] \in Nat /\ job[j].since \in Int
    BY <1>1, Typed, RunTyped DEF PageOf
  <2>8. ~(\E l \in rows \ job[j].seen : dates[l] < job[j].since)
    BY <2>5, <2>7
  <2>9. \/ rows \subseteq job[j].seen
        \/ \E l \in rows \ job[j].seen : dates[l] < job[j].since
        \/ p = MaxPages
    BY <1>10 DEF LastPage
  <2>. QED  BY <2>4, <2>6, <2>8, <2>9
<1>. QED  BY <1>7, <1>8, <1>9, <1>10 DEF Adapters

\* What becomes of the run.
Rows(j) == PageOf(List(j), job[j].page)
Fresh(j) == {i \in Rows(j) \ job[j].seen : InWindow(i, job[j].since, job[j].until)}
SeenNow(j) == IF adapter = "crawler" THEN job[j].seen \cup Rows(j) ELSE job[j].seen
Moved(j, from, page) ==
  [job[j] EXCEPT !.from = from, !.page = page, !.todo = Fresh(j), !.seen = SeenNow(j), !.shift = 0]

MovesTo(j, from, page) ==
  \/ from = job[j].from /\ page = job[j].page + 1
  \/ /\ LastPage(job[j], Rows(j))
     /\ \/ End(j) < job[j].until /\ from = End(j) + 1 /\ page = 1
        \/ ~(End(j) < job[j].until) /\ from = job[j].from /\ page = 0

LEMMA Fetched ==
  ASSUME CollectInv, NEW j \in Job, FetchPage(j)
  PROVE  /\ Running(j) /\ job[j].page > 0 /\ job[j].todo = {}
         /\ \E from \in Int : \E page \in Nat :
              MovesTo(j, from, page) /\ job' = [job EXCEPT ![j] = Moved(j, from, page)]
<1>. DEFINE r == job[j]
            new(t) == [t EXCEPT !.todo = Fresh(j), !.seen = SeenNow(j), !.shift = 0]
<1>1. Running(j) /\ r.page > 0 /\ r.todo = {} /\ CollectTypeOK
  BY DEF FetchPage, Running, CollectInv
<1>2. r \in Run /\ r.from \in Int /\ r.page \in Nat
  BY <1>1, RunTyped
<1>3. adapter # "crawler" => r.seen = {}
  BY <1>1 DEF CollectInv, RunInv, Taken
<1>4. job' = [job EXCEPT ![j] = new(Turned(r, Rows(j)))]
  <2>1. Turned(r, Rows(j)).seen = r.seen
    BY <1>2 DEF Turned, Run
  <2>2. CASE adapter = "crawler"
    BY <2>1, <2>2 DEF FetchPage, List, Rows, Fresh, SeenNow
  <2>3. CASE adapter # "crawler"
    BY <1>3, <2>1 DEF FetchPage, List, Rows, Fresh, SeenNow
  <2>. QED  BY <2>2, <2>3
<1>5. End(j) \in Int
  BY <1>1, <1>2, RunTyped, CollectBoundAssumption DEF End, SliceEnd
<1>6. \A f, g : MovesTo(j, f, g) /\ new(Turned(r, Rows(j))) = Moved(j, f, g) =>
        MovesTo(j, f, g) /\ job' = [job EXCEPT ![j] = Moved(j, f, g)]
  BY <1>4
<1>7. CASE ~LastPage(r, Rows(j))
  <2>1. Turned(r, Rows(j)) = [r EXCEPT !.page = r.page + 1]
    BY <1>7 DEF Turned
  <2>2. new(Turned(r, Rows(j))) = Moved(j, r.from, r.page + 1)
    BY <1>2, <2>1 DEF Run, Moved
  <2>3. MovesTo(j, r.from, r.page + 1) /\ r.page + 1 \in Nat
    BY <1>2 DEF MovesTo
  <2>. QED  BY <1>1, <1>2, <1>6, <2>2, <2>3, Zenon
<1>8. CASE LastPage(r, Rows(j)) /\ End(j) < r.until
  <2>1. Turned(r, Rows(j)) = [r EXCEPT !.from = End(j) + 1, !.page = 1]
    BY <1>8 DEF Turned, End
  <2>2. new(Turned(r, Rows(j))) = Moved(j, End(j) + 1, 1)
    BY <1>2, <2>1 DEF Run, Moved
  <2>3. MovesTo(j, End(j) + 1, 1) /\ End(j) + 1 \in Int /\ 1 \in Nat
    BY <1>5, <1>8 DEF MovesTo
  <2>. QED  BY <1>1, <1>6, <2>2, <2>3, Zenon
<1>9. CASE LastPage(r, Rows(j)) /\ ~(End(j) < r.until)
  <2>1. Turned(r, Rows(j)) = [r EXCEPT !.page = 0]
    BY <1>9 DEF Turned, End
  <2>2. new(Turned(r, Rows(j))) = Moved(j, r.from, 0)
    BY <1>2, <2>1 DEF Run, Moved
  <2>3. MovesTo(j, r.from, 0) /\ 0 \in Nat
    BY <1>9 DEF MovesTo
  <2>. QED  BY <1>1, <1>2, <1>6, <2>2, <2>3, Zenon
<1>. QED  BY <1>7, <1>8, <1>9

LEMMA MovedIs ==
  ASSUME CollectInv, NEW j \in Job, Running(j), NEW from \in Int, NEW page \in Nat
  PROVE  LET r == Moved(j, from, page) IN
         /\ r \in Run /\ r.on /\ r.from = from /\ r.page = page /\ r.todo = Fresh(j)
         /\ r.seen = SeenNow(j) /\ r.shift = 0 /\ r.since = job[j].since /\ r.until = job[j].until
         /\ r.got = job[j].got /\ r.began = job[j].began
         /\ Fresh(j) \subseteq Rows(j) /\ Rows(j) \subseteq List(j) /\ List(j) \subseteq Items
<1>1. CollectTypeOK /\ job[j] \in Run
  BY RunTyped DEF CollectInv
<1>2. Fresh(j) \subseteq Rows(j) /\ Rows(j) \subseteq List(j) /\ List(j) \subseteq Items
  BY ListRight DEF Fresh, Rows, PageOf
<1>3. Items \subseteq 1 .. MaxItems /\ 0 \in Nat
  <2>1. Len(dates) \in Nat /\ Len(dates) <= MaxItems /\ MaxItems \in Nat
    BY <1>1, Typed, ItemsFinite, CollectBoundAssumption DEF CollectTypeOK
  <2>. QED  BY <2>1 DEF Items
<1>4. Fresh(j) \in SUBSET (1 .. MaxItems) /\ SeenNow(j) \in SUBSET (1 .. MaxItems)
  BY <1>1, <1>2, <1>3 DEF SeenNow, Run
<1>. QED  BY <1>1, <1>2, <1>3, <1>4 DEF Moved, Run

LEMMA FetchPageKeeps ==
  ASSUME CollectInv, NEW j \in Job, FetchPage(j)
  PROVE  CollectInv'
<1>1. CollectTypeOK /\ Dated /\ Running(j) /\ job[j].page > 0 /\ job[j].todo = {}
  BY Fetched, Typed DEF CollectInv
<1>2. PICK from \in Int : \E page \in Nat :
        MovesTo(j, from, page) /\ job' = [job EXCEPT ![j] = Moved(j, from, page)]
  BY Fetched
<1>3. PICK page \in Nat :
        MovesTo(j, from, page) /\ job' = [job EXCEPT ![j] = Moved(j, from, page)]
  BY <1>2
<1>4. UNCHANGED <<provider, day, stored, cursor, owed>>
  BY DEF FetchPage
<1>5. /\ Moved(j, from, page) \in Run /\ job'[j] = Moved(j, from, page)
      /\ stored \subseteq stored' /\ stored' \subseteq Items
  BY <1>1, <1>3, <1>4, MovedIs DEF CollectTypeOK
<1>6. /\ job'[j].from = from /\ job'[j].page = page /\ job'[j].todo = Fresh(j)
      /\ job'[j].seen = SeenNow(j) /\ job'[j].shift = 0 /\ job'[j].since = job[j].since
      /\ job'[j].until = job[j].until /\ job'[j].got = job[j].got /\ job'[j].began = job[j].began
      /\ Fresh(j) \subseteq Rows(j) /\ Rows(j) \subseteq List(j) /\ List(j) \subseteq Items
  BY <1>1, <1>5, MovedIs
<1>7. Window(j) /\ Covered(j) /\ Taken(j)
  BY <1>1 DEF CollectInv, RunInv
<1>8. Window(j)'
  BY <1>1, <1>4, <1>5, <1>6, Typed, WindowKeeps
<1>9. /\ Items' = Items /\ dates' = dates /\ newest' = newest /\ adapter' = adapter
      /\ \A A, i : Place(i, A)' = Place(i, A)
  <2>1. dates' = dates /\ newest' = newest /\ adapter' = adapter
    BY <1>4 DEF provider
  <2>. QED  BY <2>1 DEF Items, Place, Precedes, Before
<1>10. \A i : i \in job[j].got \/ i \in stored \/ i \in Fresh(j) => Had(j, i)'
  BY <1>4, <1>6 DEF Had
<1>11. \A i : Had(j, i) => Had(j, i)'
  BY <1>1, <1>10 DEF Had
<1>12. PageSize \in Nat /\ PageSize >= 1 /\ job[j].page \in Nat /\ job[j].until \in Nat
       /\ job[j].since \in Int /\ job[j].from \in Int
  BY <1>1, RunTyped, Typed
<1>13. End(j) \in Int /\ End(j) <= job[j].until /\ (End(j) < job[j].until => adapter = "g2b")
  BY <1>12, CollectBoundAssumption DEF End, SliceEnd
<1>14. Covered(j)'
  <2>. SUFFICES ASSUME NEW i \in job[j].began, dates[i] >= job[j].since  PROVE Had(j, i)' \/ Ahead(j, i)'
    BY <1>6, <1>9 DEF Covered
  <2>1. i \in Items /\ dates[i] \in Nat /\ dates[i] <= job[j].until /\ (Had(j, i) \/ Ahead(j, i))
    BY <1>1, <1>7, Typed DEF Window, Covered
  <2>2. SUFFICES ASSUME Ahead(j, i)  PROVE Had(j, i)' \/ Ahead(j, i)'
    BY <1>11, <2>1
  <2>3. InWindow(i, job[j].since, job[j].until)
    BY <2>1 DEF InWindow
  <2>4. CASE i \in Rows(j)
    <3>1. CASE i \in job[j].seen
      BY <1>7, <1>11, <2>3, <3>1 DEF Taken
    <3>2. CASE i \notin job[j].seen
      BY <1>10, <2>3, <2>4, <3>2 DEF Fresh
    <3>. QED  BY <3>1, <3>2
  <2>5. CASE i \notin Rows(j)
    <3>1. dates[i] > End(j) \/ (i \in List(j) /\ Spot(j, i) > job[j].page * PageSize)
      <4>1. i \in List(j) => Spot(j, i) \in 1 .. Cardinality(List(j)) /\ Cardinality(List(j)) \in Nat
        BY <1>1, <1>6, UpToFinite DEF Spot, List
      <4>2. i \in List(j) => ~((job[j].page - 1) * PageSize < Spot(j, i) /\ Spot(j, i) <= job[j].page * PageSize)
        BY <2>5 DEF Rows, PageOf, Spot, List
      <4>3. job[j].page * PageSize \in Nat
        BY <1>12
      <4>. QED  BY <2>2, <4>1, <4>2, <4>3 DEF Ahead
    <3>2. CASE from = job[j].from /\ page = job[j].page + 1
      <4>1. End(j)' = End(j) /\ List(j)' = List(j) /\ Spot(j, i)' = Spot(j, i)
        BY <1>4, <1>6, <3>2, SameLists
      <4>2. page > 0 /\ page - 1 = job[j].page
        BY <1>1, <1>12, <3>2
      <4>. QED  BY <1>6, <1>9, <3>1, <4>1, <4>2 DEF Ahead
    <3>3. CASE LastPage(job[j], Rows(j))
      <4>1. dates[i] > End(j)
        <5>1. i \in List(j) => Spot(j, i) <= job[j].page * PageSize
          BY <1>1, <3>3, LastIsLast DEF Rows
        <5>2. i \in List(j) => Spot(j, i) \in 1 .. Cardinality(List(j)) /\ Cardinality(List(j)) \in Nat
          BY <1>1, <1>6, UpToFinite DEF Spot, List
        <5>3. job[j].page * PageSize \in Nat
          BY <1>12
        <5>. QED  BY <3>1, <5>1, <5>2, <5>3
      <4>2. /\ adapter = "g2b"
            /\ \/ from = job[j].from /\ page = job[j].page + 1
               \/ from = End(j) + 1 /\ page = 1
        <5>1. End(j) < job[j].until
          BY <1>12, <1>13, <2>1, <4>1
        <5>2. \/ from = job[j].from /\ page = job[j].page + 1
              \/ from = End(j) + 1 /\ page = 1
              \/ ~(End(j) < job[j].until)
          BY <1>3, Zenon DEF MovesTo
        <5>3. \/ from = job[j].from /\ page = job[j].page + 1
              \/ from = End(j) + 1 /\ page = 1
          BY <5>1, <5>2, Zenon
        <5>. QED  BY <1>13, <5>1, <5>3
      <4>3. CASE from = End(j) + 1 /\ page = 1
        <5>1. dates[i] >= from
          BY <1>13, <2>1, <4>1, <4>3
        <5>2. End(j)' \in Int
          BY <1>6, <1>12, CollectBoundAssumption DEF End, SliceEnd
        <5>3. dates[i] <= End(j)' => i \in List(j)'
          BY <1>6, <1>9, <2>1, <5>1 DEF List, Asked, InWindow, End
        <5>4. i \in List(j)' => Spot(j, i)' > 0
          <6>1. PICK A \in SUBSET Items : A = List(j)'
            BY <1>9 DEF List, Asked
          <6>2. Spot(j, i)' = Place(i, A)
            BY <1>9, <6>1 DEF Spot, List
          <6>3. i \in A => Place(i, A) \in 1 .. Cardinality(A) /\ Cardinality(A) \in Nat
            BY <1>1, UpToFinite
          <6>. QED  BY <6>1, <6>2, <6>3
        <5>5. (page - 1) * PageSize = 0
          BY <1>12, <4>3
        <5>. QED  BY <1>6, <1>9, <2>1, <4>3, <5>2, <5>3, <5>4, <5>5 DEF Ahead
      <4>. QED  BY <3>2, <4>2, <4>3
    <3>. QED  BY <1>3, <3>2, <3>3 DEF MovesTo
  <2>. QED  BY <2>4, <2>5
<1>15. Taken(j)'
  <2>1. 0 < PageSize
    BY <1>12
  <2>2. adapter # "crawler" => job'[j].seen = {}
    BY <1>6, <1>7 DEF Taken, SeenNow
  <2>3. job'[j].got \cup job'[j].todo \cup job'[j].seen \subseteq Items
    BY <1>6, <1>7 DEF Taken, SeenNow
  <2>4. ASSUME NEW i \in SeenNow(j), InWindow(i, job[j].since, job[j].until)
        PROVE  Had(j, i)'
    <3>1. CASE i \in job[j].seen
      BY <1>7, <1>11, <2>4, <3>1 DEF Taken
    <3>2. CASE i \notin job[j].seen
      <4>1. i \in Rows(j)
        BY <3>2 DEF SeenNow
      <4>. QED  BY <1>10, <2>4, <3>2, <4>1 DEF Fresh
    <3>. QED  BY <3>1, <3>2
  <2>5. ASSUME NEW i \in SeenNow(j), page > 0
        PROVE  Place(i, Items) <= (page - 1) * PageSize + 0
    <3>1. adapter = "crawler" /\ List(j) = Items
      BY <1>7, ListRight DEF Taken, SeenNow
    <3>2. page - 1 = job[j].page
      BY <1>3, <1>12, <1>13, <2>5, <3>1 DEF MovesTo
    <3>3. i \in Items /\ Place(i, Items) \in 1 .. Cardinality(Items) /\ Cardinality(Items) \in Nat
      <4>1. i \in Items
        BY <1>6, <1>7 DEF Taken, SeenNow
      <4>. QED  BY <1>1, <4>1, UpToFinite
    <3>4. /\ (job[j].page - 1) * PageSize \in Nat /\ job[j].page * PageSize \in Nat
          /\ job[j].page * PageSize = (job[j].page - 1) * PageSize + PageSize
      BY <1>1, <1>12
    <3>5. CASE i \in job[j].seen
      <4>1. Place(i, Items) <= (job[j].page - 1) * PageSize + job[j].shift
        BY <1>1, <1>7, <3>5 DEF Taken
      <4>2. job[j].shift \in Nat /\ job[j].shift < PageSize
        BY <1>1, <1>7, RunTyped DEF Taken
      <4>. QED  BY <1>12, <3>2, <3>3, <3>4, <4>1, <4>2
    <3>6. CASE i \in Rows(j)
      BY <3>1, <3>2, <3>4, <3>6 DEF Rows, PageOf
    <3>. QED  BY <3>5, <3>6 DEF SeenNow
  <2>. QED  BY <1>6, <1>9, <2>1, <2>2, <2>3, <2>4, <2>5 DEF Taken, InWindow
<1>16. RunInv(j)'
  BY <1>8, <1>14, <1>15 DEF RunInv
<1>17. \A k \in Job, i \in job[j].got : job[k].on /\ i \in job[k].got => k = j
  BY <1>1, <1>7 DEF CollectTypeOK, Taken, Running
<1>. QED  BY <1>3, <1>4, <1>5, <1>6, <1>16, <1>17, OneRun

-----------------------------------------------------------------------------
(* The rows of a page. *)

\* A step on the rows at hand that drops none but those that are stored.
LEMMA RowsMove ==
  ASSUME CollectInv, NEW j \in Job, Running(j), UNCHANGED <<provider, day, stored, cursor, owed>>,
         NEW r \in Run, job' = [job EXCEPT ![j] = r],
         r.from = job[j].from, r.page = job[j].page, r.seen = job[j].seen, r.shift = job[j].shift,
         r.since = job[j].since, r.until = job[j].until, r.began = job[j].began,
         r.got \cup r.todo \subseteq Items,
         \A i : Had(j, i) => i \in stored \cup r.got \cup r.todo,
         \A i \in r.got : i \in job[j].got \/ \A k \in Job \ {j} : ~(job[k].on /\ i \in job[k].got)
  PROVE  CollectInv'
<1>1. CollectTypeOK /\ Window(j) /\ Covered(j) /\ Taken(j)
  BY DEF CollectInv, RunInv
<1>2. job'[j] = r /\ stored' = stored /\ stored \subseteq Items
  BY <1>1 DEF CollectTypeOK
<1>3. Window(j)'
  BY <1>1, <1>2, Typed, WindowKeeps
<1>4. \A i : Had(j, i) => Had(j, i)'
  BY <1>2 DEF Had
<1>5. /\ End(j)' = End(j) /\ List(j)' = List(j) /\ (\A i : Spot(j, i)' = Spot(j, i))
      /\ (\A i : Place(i, Items)' = Place(i, Items)) /\ Items' = Items /\ dates' = dates
      /\ adapter' = adapter
  BY <1>2, SameLists
<1>6. \A i : Ahead(j, i)' = Ahead(j, i)
  BY <1>2, <1>5 DEF Ahead
<1>7. Covered(j)'
  BY <1>1, <1>2, <1>4, <1>5, <1>6 DEF Covered
<1>8. Taken(j)'
  BY <1>1, <1>2, <1>4, <1>5 DEF Taken, InWindow
<1>9. RunInv(j)'
  BY <1>3, <1>7, <1>8 DEF RunInv
<1>10. r.on => \A k \in Job, i \in r.got : job[k].on /\ i \in job[k].got => k = j
  BY <1>1 DEF CollectTypeOK, Taken, Running
<1>. QED  BY <1>2, <1>9, <1>10, OneRun

LEMMA LookUpKeeps ==
  ASSUME CollectInv, NEW j \in Job, NEW i \in Items, LookUp(j, i)
  PROVE  CollectInv'
<1>1. CollectTypeOK /\ Running(j) /\ i \in job[j].todo
  BY DEF CollectInv, LookUp, Row, Running
<1>2. job[j] \in Run /\ UNCHANGED <<provider, day, stored, cursor, owed>>
  BY <1>1, RunTyped DEF LookUp
<1>3. PICK todo \in SUBSET job[j].todo : \E missing \in BOOLEAN :
        /\ job' = [job EXCEPT ![j] = [job[j] EXCEPT !.todo = todo, !.missing = missing]]
        /\ todo = job[j].todo \/ (todo = job[j].todo \ {i} /\ i \in stored \cup job[j].got)
  <2>1. CASE i \in stored \cup job[j].got
    <3>1. job' = [job EXCEPT ![j] = [job[j] EXCEPT !.todo = job[j].todo \ {i}]]
      BY <2>1 DEF LookUp
    <3>2. [job[j] EXCEPT !.todo = job[j].todo \ {i}]
          = [job[j] EXCEPT !.todo = job[j].todo \ {i}, !.missing = job[j].missing]
      BY <1>2 DEF Run
    <3>3. job[j].missing \in BOOLEAN /\ job[j].todo \ {i} \in SUBSET job[j].todo
      BY <1>2 DEF Run
    <3>. QED  BY <2>1, <3>1, <3>2, <3>3
  <2>2. CASE i \notin stored \cup job[j].got
    <3>1. job' = [job EXCEPT ![j] = [job[j] EXCEPT !.missing = TRUE]]
      BY <2>2 DEF LookUp
    <3>2. [job[j] EXCEPT !.missing = TRUE] = [job[j] EXCEPT !.todo = job[j].todo, !.missing = TRUE]
      BY <1>2 DEF Run
    <3>. QED  BY <3>1, <3>2
  <2>. QED  BY <2>1, <2>2
<1>4. PICK missing \in BOOLEAN :
        /\ job' = [job EXCEPT ![j] = [job[j] EXCEPT !.todo = todo, !.missing = missing]]
        /\ todo = job[j].todo \/ (todo = job[j].todo \ {i} /\ i \in stored \cup job[j].got)
  BY <1>3
<1>. DEFINE r == [job[j] EXCEPT !.todo = todo, !.missing = missing]
<1>5. /\ r \in Run /\ r.on /\ r.todo = todo /\ r.from = job[j].from /\ r.page = job[j].page
      /\ r.seen = job[j].seen /\ r.shift = job[j].shift /\ r.since = job[j].since
      /\ r.until = job[j].until /\ r.got = job[j].got /\ r.began = job[j].began
  BY <1>2 DEF Run
<1>. HIDE DEF r
<1>6. \A k : Had(j, k) => k \in stored \cup job[j].got \cup todo
  BY <1>4 DEF Had
<1>7. r.got \cup r.todo \subseteq Items
  BY <1>1, <1>4, <1>5 DEF CollectInv, RunInv, Taken
<1>. QED  BY <1>1, <1>2, <1>4, <1>5, <1>6, <1>7, RowsMove DEF r

LEMMA InsertKeeps ==
  ASSUME CollectInv, NEW j \in Job, NEW i \in Items, Insert(j, i)
  PROVE  CollectInv'
<1>1. CollectTypeOK /\ Running(j) /\ i \in job[j].todo
  BY DEF CollectInv, Insert, Inserting, Row, Running
<1>2. job[j] \in Run /\ UNCHANGED <<provider, day, stored, cursor, owed>>
  BY <1>1, RunTyped DEF Insert
<1>. DEFINE r == [job[j] EXCEPT !.todo = job[j].todo \ {i}, !.missing = FALSE, !.got = job[j].got \cup {i}]
<1>3. job' = [job EXCEPT ![j] = r]
  BY <1>2 DEF Insert, Run
<1>4. i \in 1 .. MaxItems
  BY <1>1, <1>2 DEF Run
<1>5. /\ r \in Run /\ r.on /\ r.todo = job[j].todo \ {i} /\ r.from = job[j].from
      /\ r.page = job[j].page /\ r.seen = job[j].seen /\ r.shift = job[j].shift
      /\ r.since = job[j].since /\ r.until = job[j].until /\ r.got = job[j].got \cup {i}
      /\ r.began = job[j].began
  BY <1>2, <1>4 DEF Run
<1>. HIDE DEF r
<1>6. \A k : Had(j, k) => k \in stored \cup r.got \cup r.todo
  BY <1>5 DEF Had
<1>7. r.got \cup r.todo \subseteq Items
  BY <1>1, <1>5 DEF CollectInv, RunInv, Taken
<1>8. \A k \in Job \ {j} : ~(job[k].on /\ i \in job[k].got)
  BY DEF Insert, WaitsFor, Others, Holds
<1>9. \A l \in r.got : l \in job[j].got \/ \A k \in Job \ {j} : ~(job[k].on /\ l \in job[k].got)
  BY <1>5, <1>8
<1>. QED  BY <1>1, <1>2, <1>3, <1>5, <1>6, <1>7, <1>9, RowsMove

-----------------------------------------------------------------------------
(* Ends and beginnings of runs. *)

LEMMA StopKeeps ==
  ASSUME CollectInv, NEW j \in Job, UNCHANGED <<provider, day, cursor, owed>>,
         stored \subseteq stored', stored' \subseteq Items, job' = [job EXCEPT ![j] = NoJob]
  PROVE  CollectInv'
<1>1. job \in [Job -> {NoJob} \cup Run]
  BY DEF CollectInv, CollectTypeOK
<1>2. job'[j] = NoJob
  BY <1>1
<1>3. RunInv(j)' /\ ~NoJob.on
  BY <1>2 DEF RunInv, Running, NoJob
<1>. QED  BY <1>3, OneRun

LEMMA EndsKeep ==
  ASSUME CollectInv, NEW j \in Job,
         StopOnSourceError(j) \/ DieWhileCollecting(j) \/ \E i \in Items : InsertFails(j, i)
  PROVE  CollectInv'
<1>1. CollectTypeOK
  BY DEF CollectInv
<1>2. /\ UNCHANGED <<provider, day, cursor, owed>> /\ job' = [job EXCEPT ![j] = NoJob]
      /\ stored \subseteq stored' /\ stored' \subseteq Items
  <2>1. CASE StopOnSourceError(j)
    <3>1. Running(j)
      BY <2>1 DEF StopOnSourceError, Running
    <3>2. job[j].got \subseteq Items /\ stored \subseteq Items
      BY <1>1, <3>1 DEF CollectInv, RunInv, Taken, CollectTypeOK
    <3>3. stored' = stored \/ stored' = stored \cup job[j].got
      BY <2>1 DEF StopOnSourceError
    <3>. QED  BY <2>1, <3>2, <3>3 DEF StopOnSourceError
  <2>2. CASE DieWhileCollecting(j) \/ \E i \in Items : InsertFails(j, i)
    BY <1>1, <2>2 DEF DieWhileCollecting, InsertFails, CollectTypeOK
  <2>. QED  BY <2>1, <2>2
<1>. QED  BY <1>2, StopKeeps

\* Whatever was listed on time when the run began is stored with its commit.
LEMMA SucceedKeeps ==
  ASSUME CollectInv, NEW j \in Job, Succeed(j)
  PROVE  CollectInv'
<1>1. /\ CollectTypeOK /\ Running(j) /\ job[j].page = 0 /\ job[j].todo = {}
      /\ stored' = stored \cup job[j].got /\ cursor' = job[j].until
      /\ owed' = owed \cup job[j].began /\ job' = [job EXCEPT ![j] = NoJob]
      /\ UNCHANGED <<provider, day>>
  BY DEF CollectInv, Succeed, Running
<1>2. Window(j) /\ Covered(j) /\ Taken(j)
  BY <1>1 DEF CollectInv, RunInv
<1>3. /\ adapter' = adapter /\ newest' = newest /\ overlap' = overlap /\ dates' = dates /\ late' = late
      /\ day' = day /\ Items' = Items
  BY <1>1 DEF provider, Items
<1>4. /\ job[j].until \in Nat /\ job[j].since \in Int /\ day \in Nat /\ Overlap \in Nat
      /\ \A i \in Items : dates[i] \in Nat
  BY <1>1, RunTyped, Typed
<1>5. ASSUME NEW i \in job[j].began  PROVE i \in stored'
  <2>1. i \in Items \ late
    BY <1>2 DEF Window
  <2>2. CASE dates[i] < job[j].since
    BY <1>1, <1>2, <2>1, <2>2 DEF Window
  <2>3. CASE ~(dates[i] < job[j].since)
    <3>1. dates[i] >= job[j].since
      BY <1>4, <2>1, <2>3
    <3>2. ~Ahead(j, i)
      BY <1>1 DEF Ahead
    <3>. QED  BY <1>1, <1>2, <3>1, <3>2 DEF Covered, Had
  <2>. QED  BY <2>2, <2>3
<1>6. job \in [Job -> {NoJob} \cup Run]
  BY <1>1 DEF CollectTypeOK
<1>7. job'[j] = NoJob /\ \A k \in Job \ {j} : job'[k] = job[k]
  BY <1>1, <1>6
<1>8. CollectTypeOK'
  <2>1. cursor' \in 0 .. day'
    BY <1>1, <1>2, <1>3, <1>4 DEF Window
  <2>2. stored' \subseteq Items' /\ owed' \subseteq Items' \ late'
    BY <1>1, <1>2, <1>3 DEF CollectTypeOK, Taken, Window
  <2>3. job' \in [Job -> {NoJob} \cup Run]
    BY <1>1, <1>6
  <2>4. \A k, l \in Job, i \in Items :
          job'[k].on /\ job'[l].on /\ i \in job'[k].got /\ i \in job'[l].got => k = l
    BY <1>1, <1>7 DEF CollectTypeOK, NoJob
  <2>. QED  BY <1>1, <1>3, <2>1, <2>2, <2>4 DEF CollectTypeOK
<1>9. Reached'
  <2>. SUFFICES ASSUME NEW i \in Items \ late, dates[i] < job[j].until - Overlap  PROVE i \in stored'
    BY <1>1, <1>3 DEF Reached
  <2>1. ~(dates[i] >= job[j].until - Overlap)
    BY <1>4
  <2>2. i \in job[j].began
    BY <1>2, <2>1 DEF Window
  <2>. QED  BY <1>5, <2>2
<1>10. NothingMissed'
  BY <1>1, <1>5 DEF CollectInv, NothingMissed
<1>11. \A k \in Job : RunInv(k)'
  <2>. TAKE k \in Job
  <2>1. CASE k = j
    BY <1>7, <2>1 DEF RunInv, Running, NoJob
  <2>2. CASE k # j
    BY <1>1, <1>3, <1>4, <1>7, <2>2, RunStands
  <2>. QED  BY <2>1, <2>2
<1>. QED  BY <1>3, <1>8, <1>9, <1>10, <1>11 DEF CollectInv

\* A window begins where nothing older can have been missed.
LEMMA BeginKeeps ==
  ASSUME CollectInv, NEW j \in Job, NEW cli \in BOOLEAN, NEW until \in {day - 1, day}, 1 <= until,
         DefaultSince <= until, Begin(j, cli, DefaultSince, until)
  PROVE  CollectInv'
<1>. DEFINE since == DefaultSince
            began == {i \in Items \ late : dates[i] <= until}
            r == [on |-> TRUE, cli |-> cli, since |-> since, until |-> until, from |-> since,
                  page |-> 1, todo |-> {}, missing |-> FALSE, seen |-> {}, got |-> {},
                  began |-> began, shift |-> 0]
<1>1. /\ CollectTypeOK /\ day \in Nat /\ Overlap \in Nat /\ cursor \in Nat /\ cursor <= day
      /\ PageSize \in Nat /\ PageSize >= 1 /\ FirstDays \in Nat /\ FirstDays >= Days /\ Days \in Nat
      /\ day <= Days /\ MaxItems \in Nat /\ Dated
  BY Typed, CollectBoundAssumption DEF CollectInv, CollectTypeOK
<1>2. since \in Int /\ (since <= 0 \/ (since = cursor - Overlap /\ since <= day - Overlap))
  BY <1>1 DEF DefaultSince, ResumeFrom
<1>3. until \in 1 .. Days /\ until <= day /\ until \in Nat /\ since <= until
  BY <1>1
<1>4. Items \subseteq 1 .. MaxItems /\ \A i \in Items : dates[i] \in Nat /\ dates[i] >= 1
  <2>1. Len(dates) \in Nat /\ Len(dates) <= MaxItems
    BY <1>1, ItemsFinite DEF CollectTypeOK
  <2>. QED  BY <1>1, <2>1, Typed DEF Items
<1>. HIDE DEF since
<1>5. /\ r \in Run /\ r.on /\ r.todo = {} /\ r.from = since /\ r.page = 1
      /\ r.seen = {} /\ r.shift = 0 /\ r.since = since
      /\ r.until = until /\ r.got = {} /\ r.began = began
  <2>1. {} \in SUBSET (1 .. MaxItems) /\ began \in SUBSET (1 .. MaxItems)
    BY <1>4
  <2>3. 0 \in Nat /\ 1 \in Nat
    OBVIOUS
  <2>. HIDE DEF began
  <2>2. r \in Run
    BY <1>2, <1>3, <2>1, <2>3 DEF Run
  <2>. QED  BY <2>2
<1>6. job' = [job EXCEPT ![j] = r] /\ UNCHANGED <<provider, day, stored, cursor, owed>>
  BY DEF Begin, since
<1>. HIDE DEF r
<1>7. job'[j] = r /\ stored' = stored /\ stored \subseteq Items
  BY <1>1, <1>6 DEF CollectTypeOK
<1>8. Items' = Items /\ dates' = dates /\ late' = late /\ day' = day /\ adapter' = adapter /\ newest' = newest
  BY <1>6 DEF provider, Items
<1>9. Window(j)'
  <2>1. \A i \in Items \ late : dates[i] < since => i \in stored
    BY <1>1, <1>2, <1>4 DEF CollectInv, Reached
  <2>2. \A i \in Items \ late : i \notin began => dates[i] >= until - Overlap
    BY <1>1, <1>3, <1>4
  <2>. QED  BY <1>2, <1>3, <1>5, <1>7, <1>8, <2>1, <2>2 DEF Window
<1>10. Covered(j)'
  <2>. SUFFICES ASSUME NEW i \in began, dates[i] >= since  PROVE Ahead(j, i)'
    BY <1>5, <1>7, <1>8 DEF Covered
  <2>1. i \in Items /\ dates[i] \in Nat
    BY <1>4
  <2>2. End(j)' \in Int
    BY <1>2, <1>3, <1>5, <1>7, CollectBoundAssumption DEF End, SliceEnd
  <2>3. dates[i] <= End(j)' => i \in List(j)'
    BY <1>5, <1>7, <1>8 DEF List, Asked, InWindow, End
  <2>4. i \in List(j)' => Spot(j, i)' > 0
    <3>1. PICK A \in SUBSET Items : A = List(j)'
      BY <1>8 DEF List, Asked
    <3>2. Spot(j, i)' = Place(i, A)
      BY <1>8, <3>1 DEF Spot, List, Place, Precedes, Before
    <3>3. i \in A => Place(i, A) \in 1 .. Cardinality(A) /\ Cardinality(A) \in Nat
      BY <1>1, UpToFinite
    <3>. QED  BY <3>1, <3>2, <3>3
  <2>5. (1 - 1) * PageSize = 0 /\ 1 > 0
    BY <1>1
  <2>. QED  BY <1>5, <1>7, <1>8, <2>1, <2>2, <2>3, <2>4, <2>5 DEF Ahead
<1>11. Taken(j)'
  BY <1>1, <1>5, <1>7 DEF Taken
<1>12. RunInv(j)'
  BY <1>9, <1>10, <1>11 DEF RunInv
<1>. QED  BY <1>5, <1>6, <1>7, <1>12, OneRun

LEMMA BeginsKeep ==
  ASSUME CollectInv, NEW j \in Job, BeginIngest(j) \/ BeginBackfill(j)
  PROVE  CollectInv'
<1>1. CASE BeginIngest(j)
  <2>1. /\ day \in Nat /\ day >= 1 /\ Overlap \in Nat /\ cursor \in Nat /\ cursor <= day
        /\ FirstDays \in Nat
    BY Typed, CollectBoundAssumption DEF CollectInv
  <2>2. DefaultSince <= day /\ 1 <= day /\ FALSE \in BOOLEAN
    BY <2>1 DEF DefaultSince, ResumeFrom
  <2>. QED  BY <1>1, <2>2, BeginKeeps DEF BeginIngest
<1>2. CASE BeginBackfill(j)
  BY <1>2, BeginKeeps DEF BeginBackfill
<1>. QED  BY <1>1, <1>2

-----------------------------------------------------------------------------
(* The provider, and the calendar. *)

\* A new item moves others back by one place at most.
LEMMA NewItem ==
  ASSUME Dated, NEW d \in 1 .. Days, dates' = Append(dates, d), newest' = newest
  PROVE  /\ Items' = Items \cup {Len(dates) + 1} /\ Len(dates) + 1 \notin Items
         /\ Len(dates') = Len(dates) + 1 /\ dates' \in Seq(1 .. Days)
         /\ dates'[Len(dates) + 1] = d /\ \A i \in Items : dates'[i] = dates[i]
<1>. DEFINE D == 1 .. Days
<1>1. dates \in Seq(D) /\ d \in D
  BY DEF Dated
<1>. HIDE DEF D
<1>2. Len(dates) \in Nat
  BY ItemsFinite
<1>3. /\ Len(dates') = Len(dates) + 1 /\ dates' \in Seq(D)
      /\ dates'[Len(dates) + 1] = d /\ \A i \in 1 .. Len(dates) : dates'[i] = dates[i]
  BY <1>1
<1>. QED  BY <1>2, <1>3 DEF Items, D

LEMMA PlacesMove ==
  ASSUME Dated, NEW d \in 1 .. Days, dates' = Append(dates, d), newest' = newest,
         NEW A \in SUBSET Items, NEW B \in SUBSET (Items \cup {Len(dates) + 1}),
         A \subseteq B, B \subseteq A \cup {Len(dates) + 1}, NEW i \in A
  PROVE  Place(i, B)' \in Nat /\ Place(i, A) <= Place(i, B)' /\ Place(i, B)' <= Place(i, A) + 1
<1>. DEFINE U == UpTo(i, A)
            V == {k \in B : k = i \/ Precedes(k, i)'}
            n == Len(dates) + 1
<1>1. \A k \in Items : Precedes(k, i)' = Precedes(k, i)
  BY NewItem DEF Precedes, Before
<1>2. n \notin Items
  BY NewItem
<1>3. V = U \/ V = U \cup {n}
  BY <1>1, <1>2 DEF UpTo
<1>4. Place(i, B)' = Cardinality(V)
  BY DEF Place
<1>5. IsFiniteSet(U) /\ Place(i, A) = Cardinality(U)
  BY UpToFinite
<1>6. Cardinality(U) \in Nat
  BY <1>5, FS_CardinalityType
<1>. HIDE DEF U, V, n
<1>7. Cardinality(U \cup {n}) = Cardinality(U) \/ Cardinality(U \cup {n}) = Cardinality(U) + 1
  BY <1>5, FS_AddElement
<1>8. Cardinality(V) = Cardinality(U) \/ Cardinality(V) = Cardinality(U) + 1
  BY <1>3, <1>7
<1>9. \A a, b, c : a \in Nat /\ b = a /\ (c = a \/ c = a + 1) => c \in Nat /\ b <= c /\ c <= b + 1
  OBVIOUS
<1>. QED  BY <1>4, <1>5, <1>6, <1>8, <1>9, Zenon

LEMMA PublishKeeps ==
  ASSUME CollectInv, Publish
  PROVE  CollectInv'
<1>. DEFINE n == Len(dates) + 1
<1>1. /\ CollectTypeOK /\ Dated /\ day \in Nat /\ day >= 1 /\ Overlap \in Nat /\ cursor \in Nat /\ cursor <= day
      /\ PageSize \in Nat /\ PageSize >= 1 /\ Len(dates) \in Nat
      /\ \A i \in Items : dates[i] \in Nat /\ dates[i] >= 1 /\ dates[i] <= day
  BY Typed, ItemsFinite DEF CollectInv
<1>2. PICK d \in 1 .. day : /\ dates' = Append(dates, d)
                           /\ late' = IF day - d > Overlap THEN late \cup {n} ELSE late
  BY DEF Publish
<1>3. d \in 1 .. Days /\ d \in Nat /\ d >= 1 /\ d <= day
  BY <1>1, CollectBoundAssumption DEF CollectTypeOK
<1>4. /\ UNCHANGED <<adapter, newest, overlap, day, stored, cursor, owed>>
      /\ job' = [j \in Job |-> IF job[j].on /\ adapter = "crawler"
                               THEN [job[j] EXCEPT !.shift = @ + 1] ELSE job[j]]
  BY DEF Publish
<1>5. /\ Items' = Items \cup {n} /\ n \notin Items /\ Len(dates') = n /\ dates' \in Seq(1 .. Days)
      /\ dates'[n] = d /\ \A i \in Items : dates'[i] = dates[i]
  BY <1>1, <1>2, <1>3, <1>4, NewItem
<1>6. n \notin late' => d >= day - Overlap
  BY <1>1, <1>2, <1>3
<1>7. late' \subseteq Items' /\ late' \cap Items = late /\ Items \ late = Items \ late'
  BY <1>1, <1>2, <1>5 DEF CollectTypeOK
<1>8. \A j \in Job : Running(j)' =>
        /\ Running(j) /\ job'[j].since = job[j].since /\ job'[j].until = job[j].until
        /\ job'[j].from = job[j].from /\ job'[j].page = job[j].page /\ job'[j].todo = job[j].todo
        /\ job'[j].seen = job[j].seen /\ job'[j].got = job[j].got /\ job'[j].began = job[j].began
        /\ job'[j].shift = (IF adapter = "crawler" THEN job[j].shift + 1 ELSE job[j].shift)
  <2>. SUFFICES ASSUME NEW j \in Job, Running(j)'
                PROVE  /\ Running(j) /\ job'[j].since = job[j].since /\ job'[j].until = job[j].until
                       /\ job'[j].from = job[j].from /\ job'[j].page = job[j].page /\ job'[j].todo = job[j].todo
                       /\ job'[j].seen = job[j].seen /\ job'[j].got = job[j].got /\ job'[j].began = job[j].began
                       /\ job'[j].shift = (IF adapter = "crawler" THEN job[j].shift + 1 ELSE job[j].shift)
    OBVIOUS
  <2>1. Running(j)
    BY <1>1, <1>4 DEF Running, CollectTypeOK, Run, NoJob
  <2>2. job[j] \in Run
    BY <1>1, <2>1, RunTyped
  <2>3. CASE adapter = "crawler"
    <3>1. job'[j] = [job[j] EXCEPT !.shift = job[j].shift + 1]
      BY <1>4, <2>1, <2>3 DEF Running
    <3>. QED  BY <2>1, <2>2, <2>3, <3>1 DEF Run
  <2>4. CASE adapter # "crawler"
    <3>1. job'[j] = job[j]
      BY <1>4, <2>4
    <3>. QED  BY <2>1, <2>4, <3>1
  <2>. QED  BY <2>3, <2>4
<1>9. \A j \in Job : Running(j) /\ adapter = "crawler" => job[j].shift + 1 < PageSize
  BY DEF Publish, Running
<1>10. Len(dates') <= MaxItems /\ MaxItems \in Nat
  BY <1>1, <1>5, CollectBoundAssumption DEF Publish
<1>11. job' \in [Job -> {NoJob} \cup Run]
  <2>. SUFFICES ASSUME NEW j \in Job  PROVE job'[j] \in {NoJob} \cup Run
    BY <1>4
  <2>1. CASE Running(j) /\ adapter = "crawler"
    <3>1. job[j] \in Run /\ job[j].shift + 1 \in Nat
      BY <1>1, <2>1, RunTyped
    <3>2. job'[j] = [job[j] EXCEPT !.shift = job[j].shift + 1]
      BY <1>4, <2>1 DEF Running
    <3>. QED  BY <3>1, <3>2 DEF Run
  <2>2. CASE ~(Running(j) /\ adapter = "crawler")
    BY <1>1, <1>4, <2>2 DEF Running, CollectTypeOK
  <2>. QED  BY <2>1, <2>2
<1>12. CollectTypeOK'
  <2>1. dates' \in Seq(1 .. Days) /\ Len(dates') <= MaxItems
    BY <1>5, <1>10
  <2>2. \A i \in Items' : dates'[i] <= day'
    BY <1>1, <1>3, <1>4, <1>5
  <2>3. stored' \subseteq Items' /\ owed' \subseteq Items' \ late'
    BY <1>1, <1>4, <1>5, <1>7 DEF CollectTypeOK
  <2>4. adapter' \in Adapters /\ newest' \in BOOLEAN /\ overlap' \in BOOLEAN /\ day' \in 1 .. Days
    BY <1>1, <1>4 DEF CollectTypeOK
  <2>5. cursor' \in 0 .. day'
    BY <1>1, <1>4 DEF CollectTypeOK
  <2>6. ASSUME NEW j \in Job, NEW k \in Job, NEW i \in Items', job'[j].on, job'[k].on,
               i \in job'[j].got, i \in job'[k].got
        PROVE  j = k
    <3>1. Running(j) /\ Running(k) /\ i \in job[j].got /\ i \in job[k].got
      BY <1>8, <2>6 DEF Running
    <3>2. i \in Items
      BY <3>1 DEF CollectInv, RunInv, Taken
    <3>. QED  BY <1>1, <3>1, <3>2 DEF CollectTypeOK, Running
  <2>. QED  BY <1>7, <1>11, <2>1, <2>2, <2>3, <2>4, <2>5, <2>6 DEF CollectTypeOK
<1>13. Reached'
  <2>. SUFFICES ASSUME NEW i \in Items' \ late', dates'[i] < cursor - Overlap  PROVE i \in stored
    BY <1>4 DEF Reached
  <2>1. CASE i = n
    <3>1. d >= day - Overlap /\ d < cursor - Overlap
      BY <1>5, <1>6, <2>1
    <3>. QED  BY <1>1, <1>3, <3>1
  <2>2. CASE i # n
    BY <1>5, <1>7, <2>2 DEF CollectInv, Reached
  <2>. QED  BY <2>1, <2>2
<1>14. NothingMissed'
  BY <1>4 DEF CollectInv, NothingMissed
<1>15. ASSUME NEW j \in Job, Running(j)'  PROVE (Window(j) /\ Covered(j) /\ Taken(j))'
  <2>1. /\ Running(j) /\ job'[j].since = job[j].since /\ job'[j].until = job[j].until
        /\ job'[j].from = job[j].from /\ job'[j].page = job[j].page /\ job'[j].todo = job[j].todo
        /\ job'[j].seen = job[j].seen /\ job'[j].got = job[j].got /\ job'[j].began = job[j].began
    BY <1>8, <1>15
  <2>2. job'[j].shift = (IF adapter = "crawler" THEN job[j].shift + 1 ELSE job[j].shift)
    BY <1>8, <1>15
  <2>3. Window(j) /\ Covered(j) /\ Taken(j)
    BY <2>1 DEF CollectInv, RunInv
  <2>4. /\ job[j].until \in Nat /\ job[j].since \in Int /\ job[j].page \in Nat /\ job[j].shift \in Nat
        /\ job[j].until <= day /\ job[j].since <= job[j].until
        /\ job[j].since <= 0 \/ job[j].since <= day - Overlap
    BY <1>1, <2>1, <2>3, RunTyped DEF Window
  <2>5. Window(j)'
    <3>1. ASSUME NEW i \in Items' \ late', dates'[i] < job[j].since  PROVE i \in stored
      <4>1. CASE i = n
        <5>1. d >= day - Overlap /\ d < job[j].since
          BY <1>5, <1>6, <3>1, <4>1
        <5>. QED  BY <1>1, <1>3, <2>4, <5>1
      <4>2. CASE i # n
        BY <1>5, <1>7, <2>3, <3>1, <4>2 DEF Window
      <4>. QED  BY <4>1, <4>2
    <3>2. ASSUME NEW i \in Items' \ late', i \notin job[j].began  PROVE dates'[i] >= job[j].until - Overlap
      <4>1. CASE i = n
        <5>1. d >= day - Overlap /\ dates'[i] = d
          BY <1>5, <1>6, <3>2, <4>1
        <5>. QED  BY <1>1, <1>3, <2>4, <5>1
      <4>2. CASE i # n
        BY <1>5, <1>7, <2>3, <3>2, <4>2 DEF Window
      <4>. QED  BY <4>1, <4>2
    <3>3. job[j].began \subseteq Items' \ late' /\ \A i \in job[j].began : dates'[i] <= job[j].until
      BY <1>5, <1>7, <2>3 DEF Window
    <3>. QED  BY <1>4, <2>4, <3>1, <3>2, <3>3 DEF Window
  <2>6. End(j)' = End(j)
    BY <1>4, <2>1 DEF End, SliceEnd
  <2>7. \A i : Had(j, i)' = Had(j, i)
    BY <1>4, <2>1 DEF Had
  <2>8. List(j) \subseteq List(j)' /\ List(j)' \subseteq List(j) \cup {n} /\ List(j) \subseteq Items
    <3>1. CASE adapter \in {"lofin", "crawler"}
      BY <1>4, <1>5, <3>1 DEF List, Asked
    <3>2. CASE adapter \notin {"lofin", "crawler"}
      BY <1>4, <1>5, <2>6 DEF List, Asked, InWindow, End
    <3>. QED  BY <3>1, <3>2
  <2>9. Covered(j)'
    <3>. SUFFICES ASSUME NEW i \in job[j].began, dates[i] >= job[j].since, Ahead(j, i)  PROVE Ahead(j, i)'
      BY <1>5, <2>1, <2>3, <2>7 DEF Covered, Window
    <3>1. i \in Items /\ dates'[i] = dates[i]
      BY <1>5, <2>3 DEF Window
    <3>2. CASE dates[i] > End(j)
      BY <2>1, <2>6, <3>1, <3>2 DEF Ahead
    <3>3. CASE i \in List(j) /\ Spot(j, i) > (job[j].page - 1) * PageSize
      <4>1. PICK B \in SUBSET (Items \cup {n}) : B = List(j)'
        BY <2>8
      <4>2. Spot(j, i)' = Place(i, B)'
        BY <4>1 DEF Spot, List, Place, Precedes, Before
      <4>3. Place(i, B)' \in Nat /\ Place(i, List(j)) <= Place(i, B)'
        BY <1>1, <1>2, <1>3, <1>4, <2>8, <3>3, <4>1, PlacesMove
      <4>4. Place(i, List(j)) \in 1 .. Cardinality(List(j)) /\ Cardinality(List(j)) \in Nat
        BY <1>1, <2>8, <3>3, UpToFinite
      <4>5. (job[j].page - 1) * PageSize \in Int
        BY <1>1, <2>4
      <4>6. Spot(j, i)' > (job[j].page - 1) * PageSize
        BY <3>3, <4>2, <4>3, <4>4, <4>5 DEF Spot, List
      <4>. QED  BY <2>1, <2>8, <3>3, <4>6 DEF Ahead
    <3>. QED  BY <3>2, <3>3 DEF Ahead
  <2>10. Taken(j)'
    <3>1. job'[j].shift < PageSize
      BY <1>9, <2>1, <2>2, <2>3 DEF Taken
    <3>2. \A i \in job[j].seen : i \in Items /\ dates'[i] = dates[i] /\ adapter = "crawler"
      BY <1>5, <2>3 DEF Taken
    <3>3. ASSUME NEW i \in job[j].seen, job[j].page > 0
          PROVE  Place(i, Items)' <= (job[j].page - 1) * PageSize + job'[j].shift
      <4>1. PICK B \in SUBSET (Items \cup {n}) : B = Items'
        BY <1>5
      <4>2. Place(i, Items)' = Place(i, B)'
        BY <4>1 DEF Place
      <4>3. Place(i, B)' \in Nat /\ Place(i, B)' <= Place(i, Items) + 1
        BY <1>1, <1>2, <1>4, <1>5, <3>2, <4>1, PlacesMove
      <4>4. Place(i, Items) <= (job[j].page - 1) * PageSize + job[j].shift
        BY <2>3, <3>3 DEF Taken
      <4>5. Place(i, Items) \in 1 .. Cardinality(Items) /\ Cardinality(Items) \in Nat
        BY <1>1, <3>2, UpToFinite
      <4>6. (job[j].page - 1) * PageSize \in Int
        BY <1>1, <2>4
      <4>7. job'[j].shift = job[j].shift + 1
        BY <2>2, <3>2
      <4>. QED  BY <2>4, <4>2, <4>3, <4>4, <4>5, <4>6, <4>7
    <3>4. \A i \in job[j].seen : InWindow(i, job[j].since, job[j].until)' => Had(j, i)'
      BY <2>1, <2>3, <2>7, <3>2 DEF Taken, InWindow
    <3>. QED  BY <1>4, <1>5, <2>1, <2>3, <3>1, <3>3, <3>4 DEF Taken
  <2>. QED  BY <2>5, <2>9, <2>10
<1>16. \A j \in Job : RunInv(j)'
  BY <1>15 DEF RunInv
<1>. QED  BY <1>4, <1>12, <1>13, <1>14, <1>16 DEF CollectInv

LEMMA NextDayKeeps ==
  ASSUME CollectInv, NextDay
  PROVE  CollectInv'
<1>1. /\ CollectTypeOK /\ day \in Nat /\ day' = day + 1 /\ day' \in 1 .. Days
      /\ UNCHANGED <<provider, stored, cursor, job, owed>>
  BY Typed, CollectBoundAssumption DEF CollectInv, NextDay, CollectTypeOK
<1>2. /\ adapter' = adapter /\ newest' = newest /\ overlap' = overlap /\ dates' = dates /\ late' = late
      /\ Items' = Items
  BY <1>1 DEF provider, Items
<1>3. \A i \in Items : dates[i] <= day'
  BY <1>1, Typed
<1>4. cursor' \in 0 .. day'
  BY <1>1, Typed
<1>5. CollectTypeOK'
  BY <1>1, <1>2, <1>3, <1>4 DEF CollectTypeOK
<1>6. Reached' /\ NothingMissed'
  BY <1>1, <1>2 DEF CollectInv, Reached, NothingMissed
<1>7. day' \in Nat /\ day <= day'
  BY <1>1
<1>8. \A j \in Job : RunInv(j)'
  BY <1>1, <1>7, RunStands
<1>. QED  BY <1>2, <1>5, <1>6, <1>8 DEF CollectInv

-----------------------------------------------------------------------------
LEMMA CollectStep ==
  ASSUME CollectInv, [CollectNext]_collectVars
  PROVE  CollectInv'
<1>1. CASE UNCHANGED collectVars
  <2>1. UNCHANGED <<adapter, newest, overlap, dates, late, day, stored, cursor, job, owed>>
    BY <1>1 DEF collectVars, provider
  <2>2. Items' = Items
    BY <2>1 DEF Items
  <2>3. CollectTypeOK' /\ Reached' /\ NothingMissed'
    BY <2>1, <2>2 DEF CollectInv, CollectTypeOK, Reached, NothingMissed
  <2>4. \A j \in Job : RunInv(j)'
    BY <2>1, Typed, RunStands DEF CollectInv, provider
  <2>. QED  BY <2>1, <2>3, <2>4 DEF CollectInv
<1>2. ASSUME NEW j \in Job,
             \/ BeginIngest(j) \/ BeginBackfill(j) \/ RunStep(j)
             \/ StopOnSourceError(j) \/ DieWhileCollecting(j)
      PROVE  CollectInv'
  <2>1. CASE BeginIngest(j) \/ BeginBackfill(j)
    BY <2>1, BeginsKeep
  <2>2. CASE FetchPage(j)
    BY <2>2, FetchPageKeeps
  <2>3. CASE Succeed(j)
    BY <2>3, SucceedKeeps
  <2>4. ASSUME NEW i \in Items, LookUp(j, i)  PROVE CollectInv'
    BY <2>4, LookUpKeeps
  <2>5. ASSUME NEW i \in Items, Insert(j, i)  PROVE CollectInv'
    BY <2>5, InsertKeeps
  <2>6. CASE StopOnSourceError(j) \/ DieWhileCollecting(j) \/ \E i \in Items : InsertFails(j, i)
    BY <2>6, EndsKeep
  <2>. QED  BY <1>2, <2>1, <2>2, <2>3, <2>4, <2>5, <2>6, Zenon DEF RunStep
<1>3. CASE Publish
  BY <1>3, PublishKeeps
<1>4. CASE NextDay
  BY <1>4, NextDayKeeps
<1>. QED  BY <1>1, <1>2, <1>3, <1>4, Zenon DEF CollectNext

\* What run_ingest and the adapters keep: nothing on time that a window has left
\* behind is missing, whatever a run has still to ask for is ahead of it.
THEOREM CollectInvariant == CollectSpec => []CollectInv
BY CollectInitRight, CollectStep, PTL DEF CollectSpec

\* The types, and that at most one open transaction has inserted an item.
THEOREM CollectTypeCorrect == CollectSpec => []CollectTypeOK
<1>1. CollectInv => CollectTypeOK
  BY DEF CollectInv
<1>. QED  BY <1>1, CollectInvariant, PTL

\* However many runs, however their pages shift, fail or overlap, whatever was
\* listed on time when a run began is stored once that run has moved the cursor.
THEOREM NothingIsMissed == CollectSpec => []NothingMissed
<1>1. CollectInv => NothingMissed
  BY DEF CollectInv
<1>. QED  BY <1>1, CollectInvariant, PTL

-----------------------------------------------------------------------------
(* Both parts. *)

\* A behaviour of one part leaves the other in an initial state.
LEMMA SourcesInitRight == SourcesInit => CallsTypeOK /\ CollectInv
<1>. SUFFICES ASSUME SourcesInit  PROVE CallsTypeOK /\ CollectInv
  OBVIOUS
<1>1. CallsInit /\ CollectInit
  BY DEF SourcesInit, IdleCollecting
<1>. QED  BY <1>1, TypeInit, CollectInitRight

LEMMA SourcesStep ==
  ASSUME CallsTypeOK, CollectInv, [SourcesNext]_sourceVars
  PROVE  CallsTypeOK' /\ CollectInv'
<1>1. [CallsNext]_callVars /\ [CollectNext]_collectVars
  BY DEF SourcesNext, sourceVars
<1>. QED  BY <1>1, TypeStep, CollectStep

\* The types of the calls' and of the runs' state.
THEOREM SourcesTypeCorrect == SourcesSpec => []SourcesTypeOK
<1>1. CallsTypeOK /\ CollectInv => SourcesTypeOK
  BY DEF CollectInv, SourcesTypeOK
<1>. QED  BY <1>1, SourcesInitRight, SourcesStep, PTL DEF SourcesSpec
=============================================================================
