------------------------------ MODULE MCPipeline ------------------------------
(***************************************************************************)
(* The parts of the pipeline that share nothing but the order they come    *)
(* in, in one run: a behaviour is one of Extraction, Institutions,         *)
(* Lifecycle, Alerts or Feed, or takes one input of MCReading, while the   *)
(* other parts stay in one initial state.                                  *)
(***************************************************************************)
EXTENDS MCReading, Extraction, MCLifecycle, Alerts, Feed

VARIABLE part

Parts == {"extraction", "institutions", "lifecycle", "alerts", "feed", "reading"}
pipelineVars == <<part, extractVars, instVars, lifeVars, alertVars, feedVars, input>>

MCChunksOf == [j \in DocJob |-> IF j = "d1" THEN <<"k1", "k2">> ELSE <<"k2", "k1">>]

\* A part that stays where it is.
IdleAlerts == mode = "instant" /\ AlertsInit
IdleFeed ==
  /\ sort = "score" /\ limit = 1
  /\ rows = [o \in Listed |-> [score |-> 1, window |-> FarAway, signal |-> 1, shown |-> TRUE]]
  /\ FeedInit

PipelineInit ==
  /\ part \in Parts
  /\ ExtractInit /\ InstitutionsInit /\ LifeInit
  /\ IF part = "alerts" THEN AlertsInit ELSE IdleAlerts
  /\ IF part = "feed" THEN FeedInit ELSE IdleFeed
  /\ IF part = "reading" THEN ReadingInit ELSE input = <<"nothing">>

PipelineNext ==
  \/ /\ part = "extraction" /\ ExtractNext
     /\ UNCHANGED <<part, instVars, lifeVars, alertVars, feedVars, input>>
  \/ /\ part = "institutions" /\ InstitutionsNext
     /\ UNCHANGED <<part, extractVars, lifeVars, alertVars, feedVars, input>>
  \/ /\ part = "lifecycle" /\ LifeNext
     /\ UNCHANGED <<part, extractVars, instVars, alertVars, feedVars, input>>
  \/ /\ part = "alerts" /\ AlertsNext
     /\ UNCHANGED <<part, extractVars, instVars, lifeVars, feedVars, input>>
  \/ /\ part = "feed" /\ FeedNext
     /\ UNCHANGED <<part, extractVars, instVars, lifeVars, alertVars, input>>
  \/ /\ part = "reading" /\ ReadingNext
     /\ UNCHANGED <<part, extractVars, instVars, lifeVars, alertVars, feedVars>>

PipelineSpec == PipelineInit /\ [][PipelineNext]_pipelineVars

PipelineTypeOK ==
  CASE part = "extraction"   -> ExtractTypeOK
    [] part = "institutions" -> InstitutionsTypeOK
    [] part = "alerts"       -> AlertsTypeOK
    [] part = "feed"         -> FeedTypeOK
    [] OTHER                 -> TRUE
=============================================================================
