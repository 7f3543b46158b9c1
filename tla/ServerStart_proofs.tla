-------------------------- MODULE ServerStart_proofs --------------------------
(***************************************************************************)
(* What the records of a start tell the next one is true, whatever dies      *)
(* when, as long as there is one server at a time; a server that was told a  *)
(* path has the whole model there, and the model file only gives way to a    *)
(* verified download, for any number of launchers that do not meet.  The     *)
(* start is composed of ModelDownload's actions: what is proved of           *)
(* ModelDownload is carried over to it.                                      *)
(***************************************************************************)
EXTENDS ServerStart, TLAPS

-----------------------------------------------------------------------------
(* The crash-trace files.                                                  *)

\* The launcher leaves the watch only when the server is gone, and warm-ups run
\* only beside a server that serves.
ServerInv ==
  /\ launcher \in {"preserve", "record", "spawn", "stopped"} => server = "none"
  /\ warm # "off" => server \in {"serving", "converting", "converting untraced"}

\* The server's record: in progress only while something is, and while a
\* conversion is unless the warm-up thread wrote over it.
ServerRecordInv ==
  /\ server = "listening" => file.server = "completed"
  /\ server \in {"serving", "converting untraced"} /\ warm # "running" => file.server # "begin"
  /\ server \in {"none", "preserve"} /\ file.server = "begin" => ghost.died # {}
  /\ server = "converting" /\ ~ghost.covered => file.server = "begin"
  /\ server \in {"none", "preserve"} /\ "conversion" \in ghost.died /\ ~ghost.covered
       => file.server = "begin"

\* The launcher's record: in progress until the server listens or cannot be
\* spawned, and afterwards only if the launcher's second write came after the
\* server's.
StartRecordInv ==
  /\ launcher = "spawn" => ~ghost.settled
  /\ ~ghost.settled => file.launcher = "begin"
  /\ launcher = "record" /\ ~ghost.settled => file.launcherPrevious = "begin"
  /\ launcher \in {"check", "confirm"} /\ ghost.settled => file.launcher = "completed"
  /\ launcher = "confirm" => ~ghost.looked
  /\ ghost.settled /\ file.launcher = "begin" => ghost.raced

TraceInv == TypeOK /\ ServerInv /\ ServerRecordInv /\ StartRecordInv

\* Nothing has been recorded yet.
LEMMA InitTrace == Init => TraceInv
<1>1. Init => TypeOK
  <2> SUFFICES ASSUME Init PROVE TypeOK
    OBVIOUS
  <2>1. ghost \in [died : SUBSET {"startup", "conversion", "warmup"},
          covered : BOOLEAN, settled : BOOLEAN, looked : BOOLEAN, raced : BOOLEAN]
    BY SMT DEF Init
  <2> QED
    BY <2>1 DEF Init, TypeOK, States
<1>2. Init => ServerInv /\ ServerRecordInv /\ StartRecordInv
  BY DEF Init, ServerInv, ServerRecordInv, StartRecordInv
<1> QED
  BY <1>1, <1>2 DEF TraceInv

\* Where only the launcher moves on, the types stay.
LEMMA OnlyLauncherMoves ==
  ASSUME TypeOK, UNCHANGED <<server, warm, active, warnings, file, ghost>>,
         launcher' \in {"preserve", "record", "spawn", "check", "confirm", "watch", "stopped",
                       "dead"}
  PROVE  TypeOK'
<1> DEFINE G == [died : SUBSET {"startup", "conversion", "warmup"},
          covered : BOOLEAN, settled : BOOLEAN, looked : BOOLEAN, raced : BOOLEAN]
           F == [launcher : States, launcherPrevious : {"none", "begin"},
               server : States, serverPrevious : {"none", "begin"}]
<1>1. server' = server /\ warm' = warm /\ active' = active /\ warnings' = warnings
      /\ file' = file /\ ghost' = ghost
  OBVIOUS
<1>2. ghost \in G /\ file \in F
  BY DEF TypeOK
<1>3. ghost' \in G /\ file' \in F
  BY <1>1, <1>2, Zenon
<1> QED
  BY <1>1, <1>3 DEF TypeOK

\* start_server_process, step by step.
LEMMA LauncherTrace ==
  TraceInv /\ (LauncherPreserve \/ LauncherRecord \/ Spawn \/ SpawnFails
              \/ LauncherChecks \/ LauncherConfirms \/ LauncherRestarts
              \/ LauncherDies \/ LauncherBegins) => TraceInv'
<1> USE DEF TraceInv, TypeOK, ServerInv, ServerRecordInv, StartRecordInv, States
<1>1. TraceInv /\ LauncherPreserve => TraceInv'
  BY DEF LauncherPreserve
<1>2. TraceInv /\ LauncherRecord => TraceInv'
  BY DEF LauncherRecord
<1>3. TraceInv /\ Spawn => TraceInv'
  BY DEF Spawn
<1>4. TraceInv /\ SpawnFails => TraceInv'
  BY DEF SpawnFails
<1>5. TraceInv /\ LauncherChecks => TraceInv'
  BY DEF LauncherChecks
<1>6. TraceInv /\ LauncherConfirms => TraceInv'
  BY DEF LauncherConfirms
<1>7. TraceInv /\ LauncherRestarts => TraceInv'
  BY DEF LauncherRestarts
<1>8. TraceInv /\ LauncherDies => TraceInv'
  <2> SUFFICES ASSUME TraceInv, LauncherDies PROVE TraceInv'
    OBVIOUS
  <2>1. launcher' = "dead" /\ server' = server /\ warm' = warm /\ file' = file /\ ghost' = ghost
    BY DEF LauncherDies
  <2>2. ServerInv' /\ ServerRecordInv' /\ StartRecordInv'
    BY <2>1, Zenon
  <2>3. TypeOK'
    BY OnlyLauncherMoves DEF LauncherDies
  <2> QED
    BY <2>2, <2>3, Zenon
<1>9. TraceInv /\ LauncherBegins => TraceInv'
  BY DEF LauncherBegins
<1> QED
  BY <1>1, <1>2, <1>3, <1>4, <1>5, <1>6, <1>7, <1>8, <1>9

\* The server's main thread.
LEMMA ServerTrace ==
  TraceInv /\ (ServerPreserve \/ ServerConsume \/ ServerRecord \/ InitializeBegin
              \/ InitializeEnd \/ ServerListens \/ ServerCompletesStart \/ ConversionBegin
              \/ ConversionEnd \/ UntracedBegin \/ UntracedEnd \/ Panic) => TraceInv'
<1> USE DEF TraceInv, TypeOK, ServerInv, ServerRecordInv, StartRecordInv, States
<1>1. TraceInv /\ ServerPreserve => TraceInv'
  BY DEF ServerPreserve
<1>2. TraceInv /\ ServerConsume => TraceInv'
  BY DEF ServerConsume
<1>3. TraceInv /\ ServerRecord => TraceInv'
  BY DEF ServerRecord
<1>4. TraceInv /\ InitializeBegin => TraceInv'
  BY DEF InitializeBegin
<1>5. TraceInv /\ InitializeEnd => TraceInv'
  BY DEF InitializeEnd
<1>6. TraceInv /\ ServerListens => TraceInv'
  BY DEF ServerListens
<1>7. TraceInv /\ ServerCompletesStart => TraceInv'
  BY DEF ServerCompletesStart
<1>8. TraceInv /\ ConversionBegin => TraceInv'
  BY DEF ConversionBegin
<1>9. TraceInv /\ ConversionEnd => TraceInv'
  BY DEF ConversionEnd
<1>10. TraceInv /\ UntracedBegin => TraceInv'
  BY DEF UntracedBegin
<1>11. TraceInv /\ UntracedEnd => TraceInv'
  BY DEF UntracedEnd
<1>12. TraceInv /\ Panic => TraceInv'
  BY DEF Panic
<1> QED
  BY <1>1, <1>2, <1>3, <1>4, <1>5, <1>6, <1>7, <1>8, <1>9, <1>10, <1>11, <1>12

\* The warm-up thread, and the death of the server.
LEMMA WarmupTrace ==
  TraceInv /\ (WarmupSchedule \/ WarmupBegin \/ WarmupEnd \/ ServerDies) => TraceInv'
<1> USE DEF TraceInv, TypeOK, ServerInv, ServerRecordInv, StartRecordInv, States
<1>1. TraceInv /\ WarmupSchedule => TraceInv'
  BY DEF WarmupSchedule
<1>2. TraceInv /\ WarmupBegin => TraceInv'
  BY DEF WarmupBegin
<1>3. TraceInv /\ WarmupEnd => TraceInv'
  BY DEF WarmupEnd
<1>4. TraceInv /\ ServerDies => TraceInv'
  <2> SUFFICES ASSUME TraceInv, ServerDies PROVE TraceInv'
    OBVIOUS
  <2>1. Busy \in SUBSET {"startup", "conversion", "warmup"}
    BY DEF Busy
  <2>2. ghost.died' = Busy /\ ghost' \in [died : SUBSET {"startup", "conversion", "warmup"},
          covered : BOOLEAN, settled : BOOLEAN, looked : BOOLEAN, raced : BOOLEAN]
    BY <2>1 DEF ServerDies
  <2>3. /\ ghost'.covered = ghost.covered /\ ghost'.settled = ghost.settled
        /\ ghost'.looked = ghost.looked /\ ghost'.raced = ghost.raced
    BY DEF ServerDies
  <2>4. "conversion" \in Busy <=> server = "converting"
    BY DEF Busy
  <2>5. file.server = "begin" => Busy # {}
    BY DEF Busy, ServerDies
  <2>6. TypeOK'
    BY <2>2 DEF ServerDies
  <2> QED
    BY <2>2, <2>3, <2>4, <2>5, <2>6 DEF ServerDies
<1> QED
  BY <1>1, <1>2, <1>3, <1>4

\* The model's own steps do not touch the traces.
LEMMA StartTrace == TraceInv /\ [StartNext]_<<vars, modelVars>> => TraceInv'
<1> SUFFICES ASSUME TraceInv, [StartNext]_<<vars, modelVars>> PROVE TraceInv'
  OBVIOUS
<1>1. CASE UNCHANGED vars
  <2>1. /\ launcher' = launcher /\ server' = server /\ warm' = warm /\ file' = file
        /\ ghost' = ghost
    BY <1>1 DEF vars
  <2>2. launcher \in {"preserve", "record", "spawn", "check", "confirm", "watch", "stopped",
                     "dead"}
    BY DEF TraceInv, TypeOK
  <2>3. TypeOK'
    BY <1>1, <2>2, OnlyLauncherMoves DEF TraceInv, vars
  <2> QED
    BY <2>1, <2>3 DEF TraceInv, ServerInv, ServerRecordInv, StartRecordInv
<1>2. CASE LauncherPreserve \/ LauncherRestarts \/ LauncherBegins \/ Run
  BY <1>2, LauncherTrace, ServerTrace, WarmupTrace DEF Run
<1> QED
  BY <1>1, <1>2 DEF StartNext, SeeToModel, OtherLauncher, RecordStart, StartAgain,
                         BeginAnew

\* The invariant of the traces holds throughout.
LEMMA AlwaysTrace == StartSpec => []TraceInv
<1>1. StartInit => TraceInv
  BY InitTrace DEF StartInit
<1> QED
  BY <1>1, StartTrace, PTL DEF StartSpec

\* log_and_consume_previous_crash_trace_if_incomplete never cries wolf about the
\* server's own record: something was in progress when the last server died.
THEOREM ReportsAreTrue == StartSpec => []ReportIsTrue
<1>1. TraceInv => ReportIsTrue
  BY DEF TraceInv, ServerRecordInv, ReportIsTrue
<1> QED
  BY <1>1, AlwaysTrace, PTL

\* Nor does it miss a death in a conversion, if no warm-up wrote its record then.
THEOREM ConversionDeathsAreReported == StartSpec => []ConversionDeathIsReported
<1>1. TraceInv => ConversionDeathIsReported
  BY DEF TraceInv, ServerRecordInv, ConversionDeathIsReported
<1> QED
  BY <1>1, AlwaysTrace, PTL

\* preserve_launcher_crash_trace_if_incomplete keeps every start that did not get
\* to listen and did not fail to spawn, whether the launcher or the server died,
\* and on whichever side of the launcher's second write.
THEOREM StartDeathsArePreserved == StartSpec => []StartDeathIsPreserved
<1>1. TraceInv => StartDeathIsPreserved
  BY DEF TraceInv, StartRecordInv, StartDeathIsPreserved
<1> QED
  BY <1>1, AlwaysTrace, PTL

\* And it keeps one that did only after the race between the launcher's look and
\* its second write.
THEOREM FalseStartsNeedRace == StartSpec => []FalseStartNeedsRace
<1>1. TraceInv => FalseStartNeedsRace
  BY DEF TraceInv, StartRecordInv, FalseStartNeedsRace
<1> QED
  BY <1>1, AlwaysTrace, PTL

-----------------------------------------------------------------------------
(* The model file.                                                         *)

\* As long as launchers keep apart, the one that downloads is the only one the
\* files matter to, writes to the file it created, and has verified it before
\* it touches the model.
ModelInv ==
  /\ Model!TypeOK
  /\ \A l \in Launchers : path[l] => at[l] = "done"
  /\ ~together =>
       /\ \A l, k \in Launchers : l # k /\ Model!Downloads(l) => ~Model!Concerned(k)
       /\ \A l \in Launchers : at[l] = "write" => handle[l] = "partial"
       /\ \A l \in Launchers : at[l] \in {"remove", "promote"} => partial = "whole"
       /\ \A l \in Launchers : path[l] => final = "whole"

\* The invariant holds before any launcher has begun.
LEMMA InitModel == Model!Init => ModelInv
  BY DEF Model!Init, ModelInv, Model!TypeOK, Model!Files, Model!Stages, Model!Downloads,
         Model!Concerned

\* Every step keeps it.
LEMMA NextModel == ModelInv /\ [Model!Next]_Model!modelVars => ModelInv'
<1> SUFFICES ASSUME ModelInv, [Model!Next]_Model!modelVars PROVE ModelInv'
  OBVIOUS
<1> USE DEF ModelInv, Model!TypeOK, Model!Files, Model!Stages, Model!Downloads,
            Model!Concerned, Model!Go, Model!Moved
<1>1. ASSUME NEW l \in Launchers, Model!Verify(l) PROVE ModelInv'
  <2>1. Model!TypeOK' /\ (\A k \in Launchers : path'[k] => at'[k] = "done")
    BY <1>1 DEF Model!Verify
  <2>2. ASSUME ~together' PROVE ~together /\ (\A k \in Launchers \ {l} : ~Model!Downloads(k))
    BY <1>1, <2>2 DEF Model!Verify
  <2>3. ASSUME ~together' PROVE \A k \in Launchers : path'[k] => final' = "whole"
    BY <1>1, <2>2, <2>3 DEF Model!Verify
  <2>4. ASSUME ~together' PROVE
          \A j, k \in Launchers : j # k /\ Model!Downloads(j)' => ~Model!Concerned(k)'
    BY <1>1, <2>2, <2>4 DEF Model!Verify
  <2>5. \A k \in Launchers : at'[k] \in {"write", "remove", "promote"} =>
          at'[k] = at[k] /\ handle'[k] = handle[k] /\ partial' = partial
    BY <1>1 DEF Model!Verify
  <2> QED
    BY <2>1, <2>2, <2>3, <2>4, <2>5
<1>2. ASSUME NEW l \in Launchers, Model!Clear(l) PROVE ModelInv'
  BY <1>2 DEF Model!Clear
<1>3. ASSUME NEW l \in Launchers, Model!Create(l) PROVE ModelInv'
  BY <1>3 DEF Model!Create
<1>4. ASSUME NEW l \in Launchers, Model!Written(l) PROVE ModelInv'
  BY <1>4 DEF Model!Written
<1>5. ASSUME NEW l \in Launchers, Model!Check(l) PROVE ModelInv'
  BY <1>5 DEF Model!Check
<1>6. ASSUME NEW l \in Launchers, Model!RemoveOld(l) PROVE ModelInv'
  BY <1>6 DEF Model!RemoveOld
<1>7. ASSUME NEW l \in Launchers, Model!Promote(l) PROVE ModelInv'
  BY <1>7 DEF Model!Promote
<1>8. ASSUME NEW l \in Launchers, Model!Fail(l) PROVE ModelInv'
  BY <1>8 DEF Model!Fail
<1>9. ASSUME NEW l \in Launchers, Model!Leave(l) PROVE ModelInv'
  BY <1>9 DEF Model!Leave
<1>10. CASE UNCHANGED Model!modelVars
  BY <1>10 DEF Model!modelVars
<1> QED
  BY <1>1, <1>2, <1>3, <1>4, <1>5, <1>6, <1>7, <1>8, <1>9, <1>10 DEF Model!Next, Model!Ensure

\* The invariant holds throughout.
LEMMA AlwaysModel == Model!Spec => []ModelInv
  BY InitModel, NextModel, PTL DEF Model!Spec

\* A server that was told a path finds the whole model there.
THEOREM ToldPathIsWhole == Model!Spec => []Model!PathIsWhole
<1>1. ModelInv => Model!PathIsWhole
  BY DEF ModelInv, Model!PathIsWhole
<1> QED
  BY <1>1, AlwaysModel, PTL

\* A step that changes the model file has the whole model at hand.
LEMMA NextReplaces ==
  ModelInv /\ [Model!Next]_Model!modelVars => [Model!ReplacesByWhole]_Model!modelVars
<1> SUFFICES ASSUME ModelInv, Model!Next, ~together PROVE final' = final \/ final' = "whole"
                                               \/ (final' = "none" /\ partial = "whole")
  BY DEF Model!ReplacesByWhole
<1>1. PICK l \in Launchers : Model!Ensure(l) \/ Model!Leave(l)
  BY DEF Model!Next
<1>2. CASE Model!Written(l)
  BY <1>2 DEF Model!Written, ModelInv
<1>3. CASE Model!RemoveOld(l)
  BY <1>3 DEF Model!RemoveOld, ModelInv
<1>4. CASE Model!Promote(l)
  BY <1>4 DEF Model!Promote, ModelInv
<1>5. CASE Model!Verify(l) \/ Model!Clear(l) \/ Model!Create(l) \/ Model!Check(l)
           \/ Model!Fail(l) \/ Model!Leave(l)
  BY <1>5 DEF Model!Verify, Model!Clear, Model!Create, Model!Check, Model!Fail, Model!Leave
<1> QED
  BY <1>1, <1>2, <1>3, <1>4, <1>5 DEF Model!Ensure

\* The model file is not given up for less than a verified download, unless
\* launchers met.
THEOREM FileIsReplacedByWhole == Model!Spec => Model!ReplacedByWhole
  BY AlwaysModel, NextReplaces, PTL DEF Model!Spec, Model!ReplacedByWhole

-----------------------------------------------------------------------------
(* Starts of the server look after it.                                     *)

\* Every step of a start is a step of some launcher on the model, or leaves the
\* model alone.
LEMMA StepRefines == [StartNext]_<<vars, modelVars>> => [Model!Next]_modelVars
<1> SUFFICES ASSUME [StartNext]_<<vars, modelVars>> PROVE Model!Next \/ UNCHANGED modelVars
  OBVIOUS
<1>1. CASE SeeToModel
  BY <1>1, MeAssumption DEF SeeToModel, Model!Next
<1>2. CASE OtherLauncher
  BY <1>2 DEF OtherLauncher, Model!Next
<1>3. CASE StartAgain \/ BeginAnew
  BY <1>3, MeAssumption DEF StartAgain, BeginAnew, Model!Next
<1>4. CASE RecordStart \/ UNCHANGED modelVars \/ UNCHANGED <<vars, modelVars>>
  BY <1>4 DEF RecordStart
<1> QED
  BY <1>1, <1>2, <1>3, <1>4 DEF StartNext

\* Starts are composed of ModelDownload's own actions, so that what is proved of
\* these holds of a start; nothing more is said by it.
LEMMA StartImplementsDownload == StartSpec => Model!Spec
<1>1. StartInit => Model!Init
  BY DEF StartInit
<1>2. [StartNext]_<<vars, modelVars>> => [Model!Next]_Model!modelVars
  BY StepRefines DEF modelVars, Model!modelVars
<1> QED
  BY <1>1, <1>2, PTL DEF StartSpec, Model!Spec

\* Whatever dies or fails, a server that was spawned with the path of a model
\* has the whole model there, unless launchers met.
THEOREM SpawnedWithWholeModel == StartSpec => []ModelIsWhole
  BY StartImplementsDownload, ToldPathIsWhole, PTL DEF ModelIsWhole

\* No start of the server gives the model file up for less than a verified
\* download, unless launchers met.
THEOREM StartKeepsModel == StartSpec => ModelIsReplacedByWhole
<1>1. [Model!ReplacesByWhole]_Model!modelVars => [Model!ReplacesByWhole]_modelVars
  BY DEF Model!modelVars, modelVars
<1> QED
  BY <1>1, StartImplementsDownload, FileIsReplacedByWhole, PTL
  DEF Model!ReplacedByWhole, ModelIsReplacedByWhole

\* Launcher, server and model file keep their types.
THEOREM StartTypes == StartSpec => []StartTypeOK
<1>1. TraceInv => TypeOK
  BY DEF TraceInv
<1>2. ModelInv => Model!TypeOK
  BY DEF ModelInv
<1> QED
  BY <1>1, <1>2, AlwaysTrace, StartImplementsDownload, AlwaysModel, PTL DEF StartTypeOK
=============================================================================
