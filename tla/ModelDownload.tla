---------------------------- MODULE ModelDownload ----------------------------
(***************************************************************************)
(* The Zenzai model file that a launcher looks after before it starts the   *)
(* server (zenzai_model_download.rs): one that does not verify is replaced   *)
(* by a download, made beside it and renamed once it has been verified.      *)
(*                                                                         *)
(* Nothing keeps a second launcher from running on the same files, and any  *)
(* of them may die at any step.  A file is told apart by whether it          *)
(* verifies; only the model that the settings name is considered, since     *)
(* every model has a directory of its own.                                  *)
(***************************************************************************)
CONSTANT Launchers

VARIABLES
  at,        \* where ensure_model_file is, and "done" while the server runs
  path,      \* the server was told the path of the model
  handle,    \* the file that a launcher's download is written to
  final,     \* the model file
  partial,   \* the download beside it
  together   \* history: one launcher downloaded while another one did or used the model

modelVars == <<at, path, handle, final, partial, together>>

Files  == {"none", "broken", "whole"}
Stages == {"idle", "clear", "create", "write", "check", "remove", "promote", "done"}

TypeOK ==
  /\ at \in [Launchers -> Stages]
  /\ path \in [Launchers -> BOOLEAN]
  /\ handle \in [Launchers -> {"none", "partial", "final", "lost"}]
  /\ final \in Files
  /\ partial \in Files
  /\ together \in BOOLEAN

Init ==
  /\ at = [l \in Launchers |-> "idle"]
  /\ path = [l \in Launchers |-> FALSE]
  /\ handle = [l \in Launchers |-> "none"]
  /\ final \in Files
  /\ partial \in Files
  /\ together = FALSE

Downloads(l) == at[l] \notin {"idle", "done"}
Concerned(l) == Downloads(l) \/ path[l]

Go(l, stage) == at' = [at EXCEPT ![l] = stage]

\* The handles on a file that was renamed or removed.
Moved(from, to) == [l \in Launchers |-> IF handle[l] = from THEN to ELSE handle[l]]

-----------------------------------------------------------------------------
\* ensure_model_file begins.  A file that cannot be read counts as one that
\* does not verify.
Verify(l) ==
  /\ at[l] = "idle"
  /\ \/ /\ final = "whole"
        /\ Go(l, "done")
        /\ path' = [path EXCEPT ![l] = TRUE]
        /\ together' = (together \/ \E k \in Launchers \ {l} : Downloads(k))
     \/ /\ Go(l, "clear")
        /\ together' = (together \/ \E k \in Launchers \ {l} : Concerned(k))
        /\ UNCHANGED path
  /\ UNCHANGED <<handle, final, partial>>

\* A variant that clears the way for the download at once.
ClearBoth(l) ==
  /\ at[l] = "clear"
  /\ Go(l, "create")
  /\ partial' = "none"
  /\ final' = "none"
  /\ handle' = Moved("partial", "lost")
  /\ UNCHANGED <<path, together>>

\* What is left of an earlier download is removed, if that works.
Clear(l) ==
  /\ at[l] = "clear"
  /\ Go(l, "create")
  /\ \/ partial' = "none" /\ handle' = Moved("partial", "lost")
     \/ UNCHANGED <<partial, handle>>
  /\ UNCHANGED <<path, final, together>>

\* The answer has begun: File::create empties a file that is there.
Create(l) ==
  /\ at[l] = "create"
  /\ Go(l, "write")
  /\ partial' = "broken"
  /\ handle' = [handle EXCEPT ![l] = "partial"]
  /\ UNCHANGED <<path, final, together>>

\* The download has ended, be it with the right bytes.
Written(l) ==
  /\ at[l] = "write"
  /\ Go(l, "check")
  /\ \E content \in {"broken", "whole"} :
       /\ partial' = IF handle[l] = "partial" THEN content ELSE partial
       /\ final' = IF handle[l] = "final" THEN content ELSE final
  /\ handle' = [handle EXCEPT ![l] = "none"]
  /\ UNCHANGED <<path, together>>

\* A variant that promotes whatever was downloaded.
CheckNothing(l) ==
  /\ at[l] = "check"
  /\ Go(l, "remove")
  /\ UNCHANGED <<path, handle, final, partial, together>>

Check(l) ==
  /\ at[l] = "check"
  /\ partial = "whole"
  /\ Go(l, "remove")
  /\ UNCHANGED <<path, handle, final, partial, together>>

\* The old file makes room for the new one.
RemoveOld(l) ==
  /\ at[l] = "remove"
  /\ Go(l, "promote")
  /\ final' = "none"
  /\ handle' = Moved("final", "lost")
  /\ UNCHANGED <<path, partial, together>>

Promote(l) ==
  /\ at[l] = "promote"
  /\ partial # "none"
  /\ Go(l, "done")
  /\ final' = partial
  /\ partial' = "none"
  /\ handle' = [k \in Launchers |-> IF handle[k] = "partial" THEN "final"
                                    ELSE IF handle[k] = "final" THEN "lost" ELSE handle[k]]
  /\ path' = [path EXCEPT ![l] = TRUE]
  /\ UNCHANGED together

\* Any of this may fail: the server is started without the model.
Fail(l) ==
  /\ Downloads(l)
  /\ Go(l, "done")
  /\ handle' = [handle EXCEPT ![l] = "none"]
  /\ UNCHANGED <<path, final, partial, together>>

\* The server that was started is gone, or the launcher is.
Leave(l) ==
  /\ at[l] # "idle"
  /\ Go(l, "idle")
  /\ path' = [path EXCEPT ![l] = FALSE]
  /\ handle' = [handle EXCEPT ![l] = "none"]
  /\ together' = (together /\ \E k \in Launchers \ {l} : Concerned(k))
  /\ UNCHANGED <<final, partial>>

Ensure(l) ==
  \/ Verify(l) \/ Clear(l) \/ Create(l) \/ Written(l) \/ Check(l) \/ RemoveOld(l) \/ Promote(l)
  \/ Fail(l)

Next == \E l \in Launchers : Ensure(l) \/ Leave(l)

Spec == Init /\ [][Next]_modelVars

-----------------------------------------------------------------------------
(* Properties.                                                             *)

\* A server that was told a path finds the whole model there as long as it runs,
\* unless launchers downloaded it at the same time or one began to while the
\* server of another was using it.
PathIsWhole ==
  ~together => \A l \in Launchers : path[l] => final = "whole"

\* A download touches the model file only with the whole model at hand: what is
\* there is removed when a verified download lies beside it, and replaced by
\* nothing that does not verify.
ReplacesByWhole ==
  ~together => final' = final \/ final' = "whole" \/ (final' = "none" /\ partial = "whole")

ReplacedByWhole == [][ReplacesByWhole]_modelVars

\* "A model becomes active only after the temporary file passes verification and
\* is atomically renamed into place": the path that ensure_model_file returns is
\* that of a whole model, also where launchers meet.  Between one's verification
\* and its rename another may create the temporary file anew.
ActiveIsVerified ==
  [][\A l \in Launchers : (path'[l] /\ ~path[l]) => final' = "whole"]_modelVars
=============================================================================
