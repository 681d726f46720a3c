----------------------------- MODULE MCServices -----------------------------
(* Small instances of the modules of Services.  A behaviour is one of one of *)
(* them, its scenario; the others stay in one state.                         *)
EXTENDS Services, TLC

CONSTANTS Scenarios, \* the modules to look at
          b1, b2, t1, t2

VARIABLE scenario

MCSeqOf == b1 :> 1 @@ b2 :> 2
MCTxsOf == b1 :> <<t1, t2>> @@ b2 :> <<t2>>
MCParent == b1 :> None @@ b2 :> b1
MCAssetOf == t1 :> t1 @@ t2 :> t1
MCReward == 0 :> 160 @@ 1 :> 152 @@ 2 :> 145

MCInit ==
  /\ scenario \in Scenarios
  /\ Init
  /\ scenario # "lists" => primary.row = [i \in Ids |-> "none"] /\ walk.kind = "blocks"
  /\ scenario # "bridges" => version = 1 /\ asset = [t \in Tokens |-> "none"]

MCNext ==
  /\ UNCHANGED scenario
  /\ \/ scenario = "reads" /\ ReadsStep
     \/ scenario = "lists" /\ ListsStep
     \/ scenario = "native" /\ NativeStep
     \/ scenario = "bridges" /\ BridgesStep
     \/ scenario = "telemetry" /\ TelemetryStep

MCSpec == MCInit /\ [][MCNext]_<<scenario, vars>>

=============================================================================
