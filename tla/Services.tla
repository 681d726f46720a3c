------------------------------ MODULE Services ------------------------------
(***************************************************************************)
(* The requests that only read, or whose writes are simple, side by side.  *)
(* As they are modelled they share no state, so that what holds of one of  *)
(* them by itself holds of all together.                                   *)
(***************************************************************************)
EXTENDS Reads, Lists, NativeSupply, Bridges, Telemetry

vars == <<readsVars, listsVars, nativeVars, bridgesVars, telemetryVars>>

ReadsStep == ReadsNext /\ UNCHANGED <<listsVars, nativeVars, bridgesVars, telemetryVars>>
ListsStep == ListsNext /\ UNCHANGED <<readsVars, nativeVars, bridgesVars, telemetryVars>>
NativeStep == NativeNext /\ UNCHANGED <<readsVars, listsVars, bridgesVars, telemetryVars>>
BridgesStep == BridgesNext /\ UNCHANGED <<readsVars, listsVars, nativeVars, telemetryVars>>
TelemetryStep == TelemetryNext /\ UNCHANGED <<readsVars, listsVars, nativeVars, bridgesVars>>

Init == ReadsInit /\ ListsInit /\ NativeInit /\ BridgesInit /\ TelemetryInit

Next == ReadsStep \/ ListsStep \/ NativeStep \/ BridgesStep \/ TelemetryStep

Spec == Init /\ [][Next]_vars

\* Every table, request and counter of every module has its type: this is the
\* type invariant of all of them.
TypeOK ==
  /\ ReadsTypeOK
  /\ ListsTypeOK
  /\ NativeTypeOK
  /\ BridgesTypeOK
  /\ TelemetryTypeOK

=============================================================================
