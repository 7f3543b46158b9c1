---------------------------- MODULE ConfigStore ----------------------------
(***************************************************************************)
(* settings.json and the processes that share it without a lock.            *)
(*                                                                         *)
(* The launcher loads the settings before every start of the server, the    *)
(* settings window when it is shown; a load rewrites what it read and, when *)
(* the file cannot be parsed, renames it to a backup and writes defaults    *)
(* (AppConfig::new_with_recovery).  The settings window also reads, changes *)
(* one field and writes (update_settings).  A write makes a temporary file  *)
(* and renames it over the settings.  The threads of an application that    *)
(* uses the input method read through a cache that is keyed by the file's   *)
(* length and time, inspected before the cache is locked                    *)
(* (IMEState::app_config_snapshot).                                         *)
(*                                                                         *)
(* Two versions of the file never agree in length and time; a version is a  *)
(* stamp.  Migration of old versions is left out: it is part of parsing.    *)
(***************************************************************************)
EXTENDS Integers

CONSTANTS Windows,    \* settings windows: load and update
          Launchers,  \* launchers: load
          Callers,    \* threads that handle keys, in one application
          Fields,     \* switches of the settings, all off by default
          Names,      \* names for backups
          MaxStamp    \* bound on the versions of the file

ASSUME ConfigAssumption ==
  /\ Windows \intersect Launchers = {}
  /\ MaxStamp \in Nat \ {0}

VARIABLES
  file,      \* settings.json
  backups,   \* settings.json.broken-*
  writer,    \* progress of the processes that write
  stamp,     \* the last version's stamp
  cache,     \* app_config_snapshot, shared by the callers
  caller,    \* progress of the callers
  ghost      \* history, never read by the code

vars == <<file, backups, writer, stamp, cache, caller, ghost>>

Writers     == Windows \union Launchers
Kinds       == {"missing", "corrupt", "valid"}
Unavailable == -1          \* the key of a file whose metadata cannot be read
NoKey       == -2          \* nothing is cached
Stamps      == 0..MaxStamp \* 0 is the key of a missing file
Default     == {}

Missing == [kind |-> "missing", on |-> Default, stamp |-> 0]

\* A writer that will write `on`, having changed `changes` or backed up to `name`.
Job(at, on, changes, name) == [at |-> at, on |-> on, changes |-> changes, name |-> name]
Resting == Job("idle", Default, {}, "none")

\* A caller that inspected the file at `key` and uses the settings `on`.
Turn(at, key, on) == [at |-> at, key |-> key, on |-> on]

Jobs  == [at : {"idle", "corrupt", "named", "write"}, on : SUBSET Fields,
          changes : SUBSET Fields, name : Names \union {"none"}]
Turns == [at : {"idle", "inspected", "served", "failed"},
          key : Stamps \union {Unavailable}, on : SUBSET Fields]

\* What a reader makes of the file; one that cannot be parsed reads as the default.
Parsed == IF file.kind = "valid" THEN file.on ELSE Default

\* What the file says to a writer: nothing, if it cannot be parsed.
Told(f) == IF f.kind = "corrupt" THEN {} ELSE {f.on}

\* said: what the file has said since the writer read it, that reading included
\* seen: what the file has said since the caller inspected it
TypeOK ==
  /\ file \in [kind : Kinds, on : SUBSET Fields, stamp : Stamps]
  /\ file.kind # "valid" => file.on = Default
  /\ (file.kind = "missing") <=> (file.stamp = 0)
  /\ backups \in [Names -> {"none", "corrupt", "valid"}]
  /\ writer \in [Writers -> Jobs]
  /\ stamp \in Stamps
  /\ cache \in [key : Stamps \union {Unavailable, NoKey}, on : SUBSET Fields]
  /\ caller \in [Callers -> Turns]
  /\ ghost \in [said : [Writers -> SUBSET SUBSET Fields], seen : [Callers -> SUBSET SUBSET Fields]]

Init ==
  /\ \E kind \in Kinds : file = [Missing EXCEPT !.kind = kind,
                                                !.stamp = IF kind = "missing" THEN 0 ELSE 1]
  /\ backups = [n \in Names |-> "none"]
  /\ writer = [w \in Writers |-> Resting]
  /\ stamp = 1
  /\ cache = [key |-> NoKey, on |-> Default]
  /\ caller = [c \in Callers |-> Turn("idle", 0, Default)]
  /\ ghost = [said |-> [w \in Writers |-> {}], seen |-> [c \in Callers |-> {}]]

\* The history of a step that leaves `new` for the file.
Noting(new) ==
  [said |-> [w \in Writers |-> IF writer'[w].at # "idle"
                                  THEN ghost.said[w] \union Told(new) ELSE {}],
   seen |-> [c \in Callers |-> IF caller[c].at = "inspected"
                                  THEN ghost.seen[c] \union {new.on} ELSE ghost.seen[c]]]

-----------------------------------------------------------------------------
(* Processes that write.                                                   *)

\* new_with_recovery: the file is read; an absent one reads as the default.
\* If it cannot be read the load ends, and nothing has changed.
Load(w) ==
  /\ writer[w].at = "idle"
  /\ writer' = [writer EXCEPT ![w] =
       Job(IF file.kind = "corrupt" THEN "corrupt" ELSE "write", Parsed, {}, "none")]
  /\ ghost' = [ghost EXCEPT !.said[w] = Told(file)]
  /\ UNCHANGED <<file, backups, stamp, cache, caller>>

\* A variant that takes a file it cannot parse for the default.
UpdateOverCorrupt(w) ==
  /\ w \in Windows
  /\ writer[w].at = "idle"
  /\ \E f \in Fields :
       writer' = [writer EXCEPT ![w] =
         Job("write", IF f \in Parsed THEN Parsed \ {f} ELSE Parsed \union {f}, {f}, "none")]
  /\ ghost' = [ghost EXCEPT !.said[w] = Told(file)]
  /\ UNCHANGED <<file, backups, stamp, cache, caller>>

\* update_settings: read and change a field; a corrupt file is left alone.
Update(w) ==
  /\ w \in Windows
  /\ writer[w].at = "idle"
  /\ file.kind # "corrupt"
  /\ \E f \in Fields :
       writer' = [writer EXCEPT ![w] =
         Job("write", IF f \in Parsed THEN Parsed \ {f} ELSE Parsed \union {f}, {f}, "none")]
  /\ ghost' = [ghost EXCEPT !.said[w] = Told(file)]
  /\ UNCHANGED <<file, backups, stamp, cache, caller>>

\* backup_corrupted_config: a name that does not exist is chosen ...
ChooseName(w) ==
  /\ writer[w].at = "corrupt"
  /\ \E n \in {x \in Names : backups[x] = "none"} :
       writer' = [writer EXCEPT ![w] = Job("named", Default, {}, n)]
  /\ UNCHANGED <<file, backups, stamp, cache, caller, ghost>>

\* A variant that writes a backup whether or not there is a file.
BackUpUnchecked(w) ==
  /\ writer[w].at = "named"
  /\ writer' = [writer EXCEPT ![w] = Job("write", Default, {}, writer[w].name)]
  /\ backups' = [backups EXCEPT ![writer[w].name] = file.kind]
  /\ file' = Missing
  /\ ghost' = Noting(Missing)
  /\ UNCHANGED <<stamp, cache, caller>>

\* ... and whatever settings.json is by then is renamed to it, replacing what
\* has the name by then.  If there is no settings.json the load ends.
BackUp(w) ==
  /\ writer[w].at = "named"
  /\ IF file.kind = "missing"
       THEN /\ writer' = [writer EXCEPT ![w] = Resting]
            /\ ghost' = [ghost EXCEPT !.said[w] = {}]
            /\ UNCHANGED <<file, backups>>
       ELSE /\ writer' = [writer EXCEPT ![w] = Job("write", Default, {}, writer[w].name)]
            /\ backups' = [backups EXCEPT ![writer[w].name] = file.kind]
            /\ file' = Missing
            /\ ghost' = Noting(Missing)
  /\ UNCHANGED <<stamp, cache, caller>>

\* AppConfig::write: the temporary file replaces settings.json.
Write(w) ==
  /\ writer[w].at = "write"
  /\ stamp < MaxStamp
  /\ stamp' = stamp + 1
  /\ file' = [kind |-> "valid", on |-> writer[w].on, stamp |-> stamp + 1]
  /\ writer' = [writer EXCEPT ![w] = Resting]
  /\ ghost' = Noting(file')
  /\ UNCHANGED <<backups, cache, caller>>

\* An error on the way, or the process dies; a temporary file may stay behind.
GiveUp(w) ==
  /\ writer[w].at # "idle"
  /\ writer' = [writer EXCEPT ![w] = Resting]
  /\ ghost' = [ghost EXCEPT !.said[w] = {}]
  /\ UNCHANGED <<file, backups, stamp, cache, caller>>

\* Someone edits the file by hand, breaks it or deletes it.
HandEdit ==
  /\ UNCHANGED <<backups, writer, cache, caller>>
  /\ \/ /\ stamp < MaxStamp
        /\ stamp' = stamp + 1
        /\ \/ \E on \in SUBSET Fields : file' = [kind |-> "valid", on |-> on, stamp |-> stamp + 1]
           \/ file' = [kind |-> "corrupt", on |-> Default, stamp |-> stamp + 1]
     \/ /\ file.kind # "missing"
        /\ file' = Missing
        /\ UNCHANGED stamp
  /\ ghost' = Noting(file')

-----------------------------------------------------------------------------
(* Processes that read.                                                    *)

\* AppConfigCacheKey::current, without the lock.
Inspect(c) ==
  /\ caller[c].at # "inspected"
  /\ caller' = [caller EXCEPT ![c] = Turn("inspected", file.stamp, Default)]
  /\ ghost' = [ghost EXCEPT !.seen[c] = {Parsed}]
  /\ UNCHANGED <<file, backups, writer, stamp, cache>>

InspectFails(c) ==
  /\ caller[c].at # "inspected"
  /\ caller' = [caller EXCEPT ![c] = Turn("inspected", Unavailable, Default)]
  /\ ghost' = [ghost EXCEPT !.seen[c] = {Parsed}]
  /\ UNCHANGED <<file, backups, writer, stamp, cache>>

\* A variant that takes every file that is there for the cached one.
CacheHitAnyFile(c) ==
  /\ caller[c].at = "inspected"
  /\ cache.key > 0 /\ caller[c].key > 0
  /\ caller' = [caller EXCEPT ![c] = Turn("served", caller[c].key, cache.on)]
  /\ UNCHANGED <<file, backups, writer, stamp, cache, ghost>>

\* With the lock: the cache is good, or the file is read into it.
CacheHit(c) ==
  /\ caller[c].at = "inspected"
  /\ cache.key = caller[c].key
  /\ caller' = [caller EXCEPT ![c] = Turn("served", caller[c].key, cache.on)]
  /\ UNCHANGED <<file, backups, writer, stamp, cache, ghost>>

CacheMiss(c) ==
  /\ caller[c].at = "inspected"
  /\ cache.key # caller[c].key
  /\ cache' = [key |-> caller[c].key, on |-> Parsed]
  /\ caller' = [caller EXCEPT ![c] = Turn("served", caller[c].key, Parsed)]
  /\ UNCHANGED <<file, backups, writer, stamp, ghost>>

\* The file cannot be read: the cached settings, however old.
ReadFails(c) ==
  /\ caller[c].at = "inspected"
  /\ cache.key # caller[c].key
  /\ caller' = [caller EXCEPT ![c] = Turn("failed", caller[c].key, cache.on)]
  /\ UNCHANGED <<file, backups, writer, stamp, cache, ghost>>

-----------------------------------------------------------------------------
WriterStep(w) == Load(w) \/ Update(w) \/ ChooseName(w) \/ BackUp(w) \/ Write(w) \/ GiveUp(w)

CallerStep(c) == Inspect(c) \/ InspectFails(c) \/ CacheHit(c) \/ CacheMiss(c) \/ ReadFails(c)

Next ==
  \/ \E w \in Writers : WriterStep(w)
  \/ \E c \in Callers : CallerStep(c)
  \/ HandEdit

Spec == Init /\ [][Next]_vars

-----------------------------------------------------------------------------
(* Properties.                                                             *)

\* A key is handled with settings that were in the file while it asked for
\* them, whatever other threads leave in the cache under which key, unless the
\* file could not be inspected or read, or was missing.  A missing file has one
\* key for all times: settings cached under it because the file came back
\* before they were read are served again when it is missing again.
SettingsAreCurrent ==
  \A c \in Callers :
    (caller[c].at = "served" /\ caller[c].key > 0) => caller[c].on \in ghost.seen[c]

\* Whatever a writer writes over, it leaves every field but the one it was asked
\* to change as the file said when the writer read it or later: a write undoes at
\* most what others did in between, and a file that could not be parsed when it was
\* read is written over with the defaults only once it has been moved away.
WritersKeepTheRest ==
  [][\A w \in Writers :
       (writer[w].at = "write" /\ file'.stamp > stamp /\ writer'[w].at = "idle")
         => \E on \in ghost.said[w] :
              \A f \in Fields \ writer[w].changes : f \in file'.on <=> f \in on]_vars

\* After a recovery the backup it reports holds the settings that could not be
\* parsed (corrupted_settings_are_backed_up_and_default_settings_are_written).
BackupIsTheBrokenFile ==
  \A w \in Writers :
    (writer[w].at = "write" /\ writer[w].name # "none") => backups[writer[w].name] = "corrupt"
=============================================================================
