----------------------------- MODULE ServerStart -----------------------------
(***************************************************************************)
(* start_server_process as a whole: the launcher makes sure of the model,    *)
(* then records the start and spawns the server, which loads the model while *)
(* it initializes.  Other launchers look after the same model file; what     *)
(* their servers would write to the trace files is left out.                *)
(***************************************************************************)
EXTENDS CrashTrace

CONSTANTS Launchers, Me   \* Me: the launcher whose server CrashTrace follows

ASSUME MeAssumption == Me \in Launchers

VARIABLES at, path, handle, final, partial, together

Model == INSTANCE ModelDownload

modelVars == <<at, path, handle, final, partial, together>>

StartInit == Init /\ Model!Init

\* The launcher's record is first looked at once the model has been seen to.
RecordStart == LauncherPreserve /\ at[Me] = "done" /\ UNCHANGED modelVars

\* watch_server_process starts a new server.
StartAgain == LauncherRestarts /\ Model!Leave(Me)

\* A launcher is started after one that died.
BeginAnew == LauncherBegins /\ Model!Leave(Me)

\* This launcher sees to the model, or dies while it does and is started again.
SeeToModel ==
  /\ launcher = "preserve"
  /\ Model!Ensure(Me) \/ Model!Leave(Me)
  /\ UNCHANGED vars

OtherLauncher == \E l \in Launchers \ {Me} : (Model!Ensure(l) \/ Model!Leave(l)) /\ UNCHANGED vars

StartNext ==
  \/ SeeToModel
  \/ OtherLauncher
  \/ RecordStart
  \/ StartAgain
  \/ BeginAnew
  \/ Run /\ UNCHANGED modelVars

StartSpec == StartInit /\ [][StartNext]_<<vars, modelVars>>

-----------------------------------------------------------------------------
(* Properties.                                                             *)

StartTypeOK == TypeOK /\ Model!TypeOK

\* A server that was spawned with the path of a model initializes with the whole
\* model, whatever died or failed before; see ModelDownload for what the other
\* launchers may have done.
ModelIsWhole == Model!PathIsWhole

\* The model file is not given up for less than a verified download.
ModelIsReplacedByWhole == [][Model!ReplacesByWhole]_modelVars
=============================================================================
