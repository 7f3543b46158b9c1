----------------------------- MODULE CrashTrace -----------------------------
(***************************************************************************)
(* The crash-trace files that launcher and server leave for the next start. *)
(*                                                                         *)
(* Each file holds one record, overwritten in place; its state is "begin"   *)
(* while something is in progress.  The launcher records a start in its     *)
(* file before and after it spawns the server, and the server completes     *)
(* that record when it listens.  The server records its own start, each     *)
(* conversion with Zenzai (main thread) and each warm-up (another thread)   *)
(* in a file of its own.  A record still in progress at the next start is   *)
(* reported.  Launcher and server die at any point; a server whose launcher *)
(* died goes on until it dies itself.                                       *)
(*                                                                         *)
(* Not modelled: tracing switched off (no file is touched then); a file     *)
(* that is found empty because its writer died between truncating it and    *)
(* writing it; and two servers at once, which would share these files.  A   *)
(* launcher begins here only when the server of the one before it is gone,  *)
(* which nothing in the code sees to.                                       *)
(***************************************************************************)
EXTENDS Naturals

VARIABLES
  launcher,   \* where start_server_process and the wait for the server are, or "dead"
  server,     \* where the server's main thread is
  warm,       \* where the warm-up thread is
  active,     \* has_active_composition
  warnings,   \* this server logs warnings, so it consumes what it reports
  file,       \* the states of the four trace files
  ghost       \* history, never read by the code

vars == <<launcher, server, warm, active, warnings, file, ghost>>

States == {"none", "begin", "completed", "error"}

\* died:     what was in progress when the last server died
\* covered:  since the conversion began, a warm-up or a panic wrote its record
\* settled:  the last start that was recorded got to listen, or failed to spawn
\* looked:   the launcher has seen the record of this start completed
\* raced:    the record was completed between the launcher's look and its second write
TypeOK ==
  /\ launcher \in {"preserve", "record", "spawn", "check", "confirm", "watch", "stopped", "dead"}
  /\ server \in {"none", "preserve", "consume", "record", "initialize", "converting first",
                 "initialized", "listening", "serving", "converting", "converting untraced"}
  /\ warm \in {"off", "queued", "running"}
  /\ active \in BOOLEAN
  /\ warnings \in BOOLEAN
  /\ file \in [launcher : States, launcherPrevious : {"none", "begin"},
               server : States, serverPrevious : {"none", "begin"}]
  /\ ghost \in [died : SUBSET {"startup", "conversion", "warmup"},
                covered : BOOLEAN, settled : BOOLEAN, looked : BOOLEAN, raced : BOOLEAN]

Init ==
  /\ launcher = "preserve"
  /\ server = "none"
  /\ warm = "off"
  /\ active = FALSE
  /\ warnings = FALSE
  /\ file = [launcher |-> "none", launcherPrevious |-> "none",
             server |-> "none", serverPrevious |-> "none"]
  /\ ghost = [died |-> {}, covered |-> FALSE, settled |-> TRUE, looked |-> FALSE,
              raced |-> FALSE]

-----------------------------------------------------------------------------
(* The launcher: start_server_process.                                     *)

\* preserve_launcher_crash_trace_if_incomplete
LauncherPreserve ==
  /\ launcher = "preserve"
  /\ IF file.launcher = "begin"
       THEN file' = [file EXCEPT !.launcherPrevious = "begin"]
       ELSE file' = file
  /\ launcher' = "record"
  /\ UNCHANGED <<server, warm, active, warnings, ghost>>

LauncherRecord ==
  /\ launcher = "record"
  /\ file' = [file EXCEPT !.launcher = "begin"]
  /\ ghost' = [ghost EXCEPT !.settled = FALSE, !.raced = FALSE]
  /\ launcher' = "spawn"
  /\ UNCHANGED <<server, warm, active, warnings>>

\* The server runs from here on, beside the launcher's second record.
Spawn ==
  /\ launcher = "spawn"
  /\ server' = "preserve"
  /\ warnings' \in BOOLEAN
  /\ launcher' = "check"
  /\ UNCHANGED <<warm, active, file, ghost>>

SpawnFails ==
  /\ launcher = "spawn"
  /\ file' = [file EXCEPT !.launcher = "error"]
  /\ ghost' = [ghost EXCEPT !.settled = TRUE]
  /\ launcher' = "stopped"
  /\ UNCHANGED <<server, warm, active, warnings>>

\* A variant that does not look at the record before the second write.
LauncherChecksNothing ==
  /\ launcher = "check"
  /\ ghost' = [ghost EXCEPT !.looked = (file.launcher = "completed")]
  /\ launcher' = "confirm"
  /\ UNCHANGED <<server, warm, active, warnings, file>>

\* The second record is left out if the server has completed the first one ...
LauncherChecks ==
  /\ launcher = "check"
  /\ ghost' = [ghost EXCEPT !.looked = (file.launcher = "completed")]
  /\ launcher' = IF file.launcher = "completed" THEN "watch" ELSE "confirm"
  /\ UNCHANGED <<server, warm, active, warnings, file>>

\* ... but the server may complete it between the look and the write.
LauncherConfirms ==
  /\ launcher = "confirm"
  /\ file' = [file EXCEPT !.launcher = "begin"]
  /\ ghost' = [ghost EXCEPT !.raced = ghost.settled /\ ~ghost.looked]
  /\ launcher' = "watch"
  /\ UNCHANGED <<server, warm, active, warnings>>

\* The server is gone: the watchdog starts it again.
LauncherRestarts ==
  /\ launcher = "watch"
  /\ server = "none"
  /\ launcher' = "preserve"
  /\ UNCHANGED <<server, warm, active, warnings, file, ghost>>

\* The launcher dies; its server goes on.  One that dies before it looks at the
\* record has left nothing.
LauncherDies ==
  /\ launcher \notin {"preserve", "dead"}
  /\ launcher' = "dead"
  /\ UNCHANGED <<server, warm, active, warnings, file, ghost>>

\* It is started again once its server is gone, too.
LauncherBegins ==
  /\ launcher = "dead"
  /\ server = "none"
  /\ launcher' = "preserve"
  /\ UNCHANGED <<server, warm, active, warnings, file, ghost>>

-----------------------------------------------------------------------------
(* The server's main thread.                                               *)

\* A variant that keeps every earlier record.
ServerPreserveAny ==
  /\ server = "preserve"
  /\ file' = [file EXCEPT !.serverPrevious = file.server]
  /\ server' = "consume"
  /\ UNCHANGED <<launcher, warm, active, warnings, ghost>>

\* preserve_crash_trace_if_incomplete; what it preserves it reports
ServerPreserve ==
  /\ server = "preserve"
  /\ file' = IF file.server = "begin" THEN [file EXCEPT !.serverPrevious = "begin"] ELSE file
  /\ server' = "consume"
  /\ UNCHANGED <<launcher, warm, active, warnings, ghost>>

\* log_and_consume_previous_crash_trace_if_incomplete, of the launcher's file
ServerConsume ==
  /\ server = "consume"
  /\ file' = IF warnings THEN [file EXCEPT !.launcherPrevious = "none"] ELSE file
  /\ server' = "record"
  /\ UNCHANGED <<launcher, warm, active, warnings, ghost>>

ServerRecord ==
  /\ server = "record"
  /\ file' = [file EXCEPT !.server = "begin"]
  /\ server' = "initialize"
  /\ UNCHANGED <<launcher, warm, active, warnings, ghost>>

\* Initialize converts once.
InitializeBegin ==
  /\ server = "initialize"
  /\ file' = [file EXCEPT !.server = "begin"]
  /\ server' = "converting first"
  /\ UNCHANGED <<launcher, warm, active, warnings, ghost>>

\* A variant that takes an initialized server for a started one.
InitializeEndCompletesStart ==
  /\ server = "converting first"
  /\ file' = [file EXCEPT !.server = "completed", !.launcher = "completed"]
  /\ server' = "initialized"
  /\ UNCHANGED <<launcher, warm, active, warnings, ghost>>

InitializeEnd ==
  /\ server = "converting first"
  /\ file' = [file EXCEPT !.server = "completed"]
  /\ server' = "initialized"
  /\ UNCHANGED <<launcher, warm, active, warnings, ghost>>

\* The first pipe exists: the server's own record is completed ...
ServerListens ==
  /\ server = "initialized"
  /\ file' = [file EXCEPT !.server = "completed"]
  /\ server' = "listening"
  /\ UNCHANGED <<launcher, warm, active, warnings, ghost>>

\* ... and then the launcher's.
ServerCompletesStart ==
  /\ server = "listening"
  /\ file' = [file EXCEPT !.launcher = "completed"]
  /\ ghost' = [ghost EXCEPT !.settled = TRUE]
  /\ server' = "serving"
  /\ UNCHANGED <<launcher, warm, active, warnings>>

\* A variant that records only what it has completed.
ConversionBeginSilent ==
  /\ server = "serving"
  /\ ghost' = [ghost EXCEPT !.covered = FALSE]
  /\ server' = "converting"
  /\ UNCHANGED <<launcher, warm, active, warnings, file>>

\* A stage of GetComposedText or GetComposedTextForCursorPrefix.
ConversionBegin ==
  /\ server = "serving"
  /\ file' = [file EXCEPT !.server = "begin"]
  /\ ghost' = [ghost EXCEPT !.covered = FALSE]
  /\ server' = "converting"
  /\ UNCHANGED <<launcher, warm, active, warnings>>

\* A variant that leaves its record as it is.
ConversionEndSilent ==
  /\ server = "converting"
  /\ active' \in BOOLEAN
  /\ server' = "serving"
  /\ UNCHANGED <<launcher, warm, warnings, file, ghost>>

ConversionEnd ==
  /\ server = "converting"
  /\ file' = [file EXCEPT !.server = "completed"]
  /\ active' \in BOOLEAN
  /\ server' = "serving"
  /\ UNCHANGED <<launcher, warm, warnings, ghost>>

\* A conversion without Zenzai leaves no record (candidateCrashTrace).
UntracedBegin ==
  /\ server = "serving"
  /\ server' = "converting untraced"
  /\ UNCHANGED <<launcher, warm, active, warnings, file, ghost>>

UntracedEnd ==
  /\ server = "converting untraced"
  /\ active' \in BOOLEAN
  /\ server' = "serving"
  /\ UNCHANGED <<launcher, warm, warnings, file, ghost>>

\* A handler panics between two stages; its task ends, the server goes on.
Panic ==
  /\ server = "serving"
  /\ file' = [file EXCEPT !.server = "error"]
  /\ UNCHANGED <<launcher, server, warm, active, warnings, ghost>>

-----------------------------------------------------------------------------
(* The warm-up: scheduled by a task of the main thread, run by another.     *)

WarmupSchedule ==
  /\ server = "serving"
  /\ ~active
  /\ warm = "off"
  /\ warm' = "queued"
  /\ UNCHANGED <<launcher, server, active, warnings, file, ghost>>

WarmupBegin ==
  /\ warm = "queued"
  /\ file' = [file EXCEPT !.server = "begin"]
  /\ ghost' = [ghost EXCEPT !.covered = TRUE]
  /\ warm' = "running"
  /\ UNCHANGED <<launcher, server, active, warnings>>

WarmupEnd ==
  /\ warm = "running"
  /\ file' = [file EXCEPT !.server = "completed"]
  /\ ghost' = [ghost EXCEPT !.covered = TRUE]
  /\ warm' = "off"
  /\ UNCHANGED <<launcher, server, active, warnings>>

-----------------------------------------------------------------------------
\* The server dies, by itself or killed by the launcher.
Busy == (IF server = "converting" THEN {"conversion"} ELSE {})
          \union (IF warm = "running" THEN {"warmup"} ELSE {})
          \union (IF server \in {"serving", "converting", "converting untraced"} THEN {}
                                                                      ELSE {"startup"})

ServerDies ==
  /\ server # "none"
  /\ ghost' = [ghost EXCEPT !.died = Busy]
  /\ server' = "none"
  /\ warm' = "off"
  /\ active' = FALSE
  /\ UNCHANGED <<launcher, warnings, file>>

\* What happens between the first look at the record and the next start.
Run ==
  \/ LauncherRecord \/ Spawn \/ SpawnFails \/ LauncherChecks \/ LauncherConfirms
  \/ LauncherDies
  \/ ServerPreserve \/ ServerConsume \/ ServerRecord \/ InitializeBegin \/ InitializeEnd
  \/ ServerListens \/ ServerCompletesStart \/ ConversionBegin \/ ConversionEnd
  \/ UntracedBegin \/ UntracedEnd \/ Panic
  \/ WarmupSchedule \/ WarmupBegin \/ WarmupEnd
  \/ ServerDies

Next == LauncherPreserve \/ LauncherRestarts \/ LauncherBegins \/ Run

Spec == Init /\ [][Next]_vars

-----------------------------------------------------------------------------
(* Properties.                                                             *)

\* The server reports "previous server crash trace was still in progress" only
\* if the server before it died while it was starting, converting or warming up,
\* although two of its threads overwrite one record.
ReportIsTrue ==
  (server = "preserve" /\ file.server = "begin") => ghost.died # {}

\* A server that dies in a conversion with Zenzai is reported by the next one, unless a
\* warm-up wrote its record during that conversion.
ConversionDeathIsReported ==
  (server = "preserve" /\ "conversion" \in ghost.died /\ ~ghost.covered)
    => file.server = "begin"

\* A start that was recorded and did not get to listen is found by the next one
\* in the launcher's file, whichever of launcher and server died when, unless the
\* launcher recorded that the server could not be spawned.
StartDeathIsPreserved ==
  (launcher = "record" /\ ~ghost.settled) => file.launcherPrevious = "begin"

\* Any other start is found incomplete only if the server completed its record
\* between the launcher's look and its second write.
FalseStartNeedsRace ==
  (launcher = "preserve" /\ file.launcher = "begin" /\ ghost.settled) => ghost.raced
=============================================================================
