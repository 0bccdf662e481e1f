------------------------------- MODULE MCJobs -------------------------------
(***************************************************************************)
(* The two kinds of jobs that must get done in spite of everything, in one *)
(* run: a behaviour is one of Documents, with nothing to deliver, or one   *)
(* of Delivery, with no document.                                          *)
(***************************************************************************)
EXTENDS Documents, Delivery

VARIABLE part

jobVars == <<part, vars, deliveryVars>>

JobsInit == part \in {"documents", "delivery"} /\ Init /\ DeliveryInit

JobsNext ==
  \/ part = "documents" /\ Next /\ UNCHANGED <<part, deliveryVars>>
  \/ part = "delivery" /\ DeliveryNext /\ UNCHANGED <<part, vars>>

JobsSpec ==
  /\ JobsInit /\ [][JobsNext]_jobVars
  /\ \/ part = "documents" /\ Fairness
     \/ part = "delivery" /\ DeliveryFairness

JobsTypeOK == TypeOK /\ DeliveryTypeOK
=============================================================================
