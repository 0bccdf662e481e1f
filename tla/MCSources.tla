------------------------------ MODULE MCSources ------------------------------
(***************************************************************************)
(* The calls of a source and the runs that make them, in one run: a        *)
(* behaviour is one of SourceCalls or one of Collecting, while the other   *)
(* stays in one initial state.                                             *)
(***************************************************************************)
EXTENDS SourceCalls, Collecting

VARIABLE part

sourceVars == <<part, callVars, collectVars>>

IdleCollecting == adapter = "clik" /\ newest = TRUE /\ CollectInit

SourcesInit ==
  /\ part \in {"calls", "collecting"}
  /\ CallsInit
  /\ IF part = "collecting" THEN CollectInit ELSE IdleCollecting

SourcesNext ==
  \/ part = "calls" /\ CallsNext /\ UNCHANGED <<part, collectVars>>
  \/ part = "collecting" /\ CollectNext /\ UNCHANGED <<part, callVars>>

SourcesSpec ==
  /\ SourcesInit /\ [][SourcesNext]_sourceVars
  /\ part = "calls" => CallsFairness

SourcesTypeOK == CallsTypeOK /\ CollectTypeOK
=============================================================================
