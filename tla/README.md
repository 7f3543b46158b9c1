# Azuki: TLA+ models and proofs

Azuki is a Japanese input method for Windows. A DLL (`crates/client`) runs inside every application
with a text cursor, turns key presses into edits of a composition, and asks a conversion server
(`crates/server`, with its Swift half `server-swift`) for candidates over a named pipe. A launcher
(`crates/launcher`) keeps the server alive, a window process (`crates/ui`) shows candidates and edits
the settings file (`crates/shared`). This directory holds TLA+ models of its control, the TLC
configurations that check them and TLAPS proofs about them.

## Inventory

| Component | State | Operations | Hard behaviour | What makes it correct |
|---|---|---|---|---|
| IPC client (`engine/ipc_service.rs`) | channel, session id last met, "server was reset" flag | append, remove, shrink, move_cursor, clear, set_context, window updates; reconnect, refresh, replay | lost requests and answers, server restarts, edits that are not idempotent | an edit is executed at most once; a lost one is replayed; a reset is noticed |
| Key handler (`engine/composition.rs`) | `Composition` (raw input, candidates, preview, clause snapshots, state), one per text service | `process_key` plans actions, `handle_action_with_config_snapshot` runs them on local copies and stores them at the end | an action list that fails half way, a reset noticed in the middle, callbacks of TSF that end a composition | client and server agree between keys; nothing of a dead server's composition survives |
| Clause navigation (`composition/clause_state.rs`) | stack of fixed clauses, stack of future clauses | MoveRight, MoveLeft, MoveToLast, AdjustBoundary | the server keeps a parallel stack, addressed with reserved cursor offsets 125, 126, 127 | the two stacks keep the same depth; moving is reversible; the loop ends |
| IME state (`engine/state.rs`) | the shared `IPCService`, input mode, settings cache | clone, store back, reload the settings | several text services share one service; cache validated before it is read | a stale service does not come back |
| Conversion server (`server/src/main.rs`, Swift) | one composition, its snapshot stack, settings, session id, active flag | one RPC at a time, no await in a handler | every client shares one composition; reloading the settings clears it | RPCs are atomic; session id identifies the process |
| Server runtime | crash-trace file, log files, warm-up | begin/completed records, rotation, warm-up when idle | launcher and server write the same trace file | a trace says "crashed" only after a crash |
| Launcher (`launcher/src/main.rs`) | watchdog thread, restart history, command channel | start, wait, restart on exit or by command | a request that timed out is still queued; the watchdog may be gone; restart bursts | a request is answered, kills at most one server; bursts are limited |
| Model download (`zenzai_model_download.rs`) | model file, partial file | verify, download, promote | crash between remove and rename | the final path never holds an unverified model (kept by one launcher, not by two that meet) |
| Settings (`shared/src/lib.rs`, `ui/src/settings_model.rs`, `client engine/state.rs`) | settings file, backups, each client's cache | read, write, recover, read-modify-write, cached read | several processes write without a lock; a cache validated before it is locked | a write keeps what it was not asked to change; no stale settings are served |
| Candidate window (`ui/src/state.rs`, `ipc.rs`) | visible, reading, candidates, position | show, hide, set, update | an update may be skipped or lost; the client remembers the visibility | client's idea of the visibility is right |
| TSF glue (`tsf/*`) | edit sessions, sinks | callbacks of Windows | callbacks between keys, RefCell re-entrancy | no lost composition |

The client calls the server and the window process by gRPC over named pipes; the language bar sends the
launcher a command over a third pipe; all processes share the settings file; launcher and server
share the crash-trace file.

## Structure

| Module | Models | Uses |
|---|---|---|
| `Renderings`, `EditOnce`, `EditRecovery` | one client, the server and the lossy transport between them | |
| `KeyPlanner` | what a key makes the text service do | |
| `InputSession` | applications that share the server and the candidate window, callbacks of TSF, a server that dies | `Renderings`, `KeyPlanner` |
| `ClauseData`, `ClauseFutures`, `ClauseNavigation` | the clauses of a composition, on the client and on the server's snapshot stack | |
| `LauncherSupervisor` | watchdog, command listener, restart bursts | |
| `CrashTrace` | the records that launcher and server leave for the next start | |
| `ModelDownload` | the model file a launcher sees to, beside other launchers | |
| `ServerStart` | a start of the server as a whole: crash records and model | `CrashTrace`, `ModelDownload` |
| `ConfigStore` | the settings file, its writers and the client's cache | |

`MC*.tla` are instances for TLC, `*_proofs.tla` the proofs. Two specifications are abstract: `EditOnce`, what
a text service promises of an edit, implemented by `EditRecovery` (checked and proved), and `ModelDownload`,
whose actions `ServerStart` is composed of.

One composition is seen from three sides, each with the others' data abstracted: `EditRecovery` has one
application and every loss of a message, `InputSession` several applications and all plans but no lost
messages, `ClauseNavigation` the clauses but neither. What one takes over from another is said below.

## Modules

### Renderings

What two answers of the server look like to the client. A composition is a sequence of key tokens; an
answer carries the composition it renders and the set of corresponding counts of its candidates. The
converter decides how many tokens the first clause has: the constant operator `FirstClause`, any
function of the composition with a value between 1 and its length. `FullView` is the answer of an edit
(`get_composed_text`), `PrefixView` that of `move_cursor(0)`, which only lists candidates that end where
the first clause ends. `ShouldRetry*` and `LooksReset` are the decisions the client takes by comparing
answers.

### EditRecovery

One client, one server and the transport. `server` is the process (up, session id, composition),
`stored` the `IPCService` in `IMEState`, `ipc` the clone the running handler works on, `comp` the
`Composition`, `op` and `pc` the key handler's progress, `answer` the candidates the last call returned.
One action is one RPC or one stretch of code between RPCs: the server handles a request without
awaiting, so an RPC is a step; `Crash` and `Restart` come between any two. A call fails because the
server is down, the request is lost, or the answer is lost (`LostCall`). `Begin*` are the four entries
(AppendText, ShrinkText, RemoveText, EndComposition and the sinks), `Finish*` the handlers after the
answer, `Abandon` the empty-server path, `Recover` the path after an error.

`ghost` is history the code does not have: how often the current edit was executed by the server it was
sent to (`execs`), whether the client's candidates showed the server's composition when it was first
sent (`exact`), whether anything happened that the client cannot judge (`trusted`), and the session into
which the oldest token of the raw input was typed (`born`).

Assumptions: a call whose error the client sees has been executed or lost for good; every call returns;
rejections that are no transport errors are left out (they need a clause longer than 127 keys); the
cursor stays at the end; calls into TSF succeed; the two attempts of `set_context` are one observation
of the session id that may or may not happen; FirstClause of an empty composition is never asked.

Bounds: `MaxLen` limits a composition (keys are not pressed when it could be exceeded, counting the
append that a shrink and a replay may add), `MaxFaults` the lost requests, lost answers and crashes.
With `MaxLen = 5` compositions of up to three tokens come with two clauses and a shrink behind them, and
three faults allow a lost edit, a lost replay and a crash in one key. Fairness: `WF(Handle)`; the
thread that handles a key runs the handler to its end and every call returns. Nothing is assumed of the
server's restart.

### EditOnce

The abstract promise: an edit on offer is applied once, or withdrawn; only an edit offered against a
composition the client did not know may be applied again.

### KeyPlanner

`plan_actions_for_user_action_with_lookup` and what `process_key`, `process_key_up` and
`handle_preserved_eisu_shortcut` put before the plan. A plan is the state after it and a sequence of
`ClientAction`s. Keys are the classes the plans tell apart (`kana` any character or digit, `latin` Shift
with a letter, `punctuation` a mark that the settings let commit, `space`, the mode keys, `function`, ...;
`shift` is Shift alone). The three appends are one action; the three keys that commit a clause agree as
long as no clause was moved, and the keys that move between clauses are `ClauseNavigation`'s.
`AfterSpace` is the setting `show_candidate_window_after_space`.

### InputSession

Several applications, each with a text service, on one server and one candidate window. For each
application `comp` is the stored `Composition`, `svc` the stored `IPCService`, `mode` the input mode,
`tip` the composition in its document, `doc` what was committed there, `due` the callbacks TSF has in store
and `run` the handler at work: the actions left of its plan and its local copies (`work`, `svc`). `server`
and `window` are shared. Each `ClientAction` is a step of its own (`StartComposition`, `EndComposition`,
`AppendText`, ...), so that other applications, callbacks, and the server's death come between two actions
of a plan; `Continue` goes to the next one or stores the copies, `Abandon` is the way out of a failed edit
(`recover_after_key_error`) and `FailToClear` that of a failed clear, where a callback, unlike a key,
leaves the stored composition. An action with its requests is one step: the server answers one request
at a time, and what may be lost between them is `EditRecovery`'s. What remains of it here is
`Outcomes`: a client that has not met this server yet may lose its edit on the broken connection.

Users press the keys of `KeysOf` in the application that has the focus, once the callbacks due there have
come; callbacks to the application that was left come at any time (`OnSetFocus`, `OnKillThreadFocus`,
`OnCompositionTerminated`), also into the middle of another's plan. Callbacks into the middle of the same
application's handler do not happen: edit sessions are synchronous on its thread. A window update is
delivered or dropped (`Deliver`). A text service that opens a composition while one is open fails in the
code, because it holds the `TextService` mutably that ending the old one borrows; `ComposingHasTip` says
that no plan gets there, and the actions have only the other case (`Starting`).

`ghost` is history. `owed` counts what the user typed less what was taken back. `touched` are the
applications whose text at the server others have changed, or a death has deleted, since they began to
type into an empty one; an edit that meets such a server is `excused`, and so is text that the code
gives up with the composition. `alone` are those whose Shift was pressed without another key since.
`shown` is whose update the window got last. The properties say nothing of excused compositions: one server
for all applications is the design. Note what this does not excuse: an application whose composition ended
before the other's began, callbacks that come late but meet an empty composition of their own, and
everything in one application.

### LauncherSupervisor

The launcher process: the watchdog thread (`watch_server_process`, `start_server_process`), the listener
thread of the language bar's commands (`run_launcher_command_listener`, `request_server_restart`) and the
main thread. `queue` is the channel between the threads. A command is "live" while its listener waits
and "stale" once the listener gave up: the code drops the reply channel but leaves the command in the
queue, and the watchdog carries it out later. `TakeCommand` and `Kill` are two steps, so that the
listener can give up while the server is being killed. An error of the watchdog ends its thread and, with
its channel, every reply (`WatchdogStops`).

Time passes in ticks (`Tick`): timers are lowered, the ages in the restart history raised. A timer may
fire late, never early. `recent` is `recent_restarts` with ages for instants; an age of `Window + 1`
stands for every greater one. `ghost.exits` holds all exits nobody asked for, the ones the code has
cleared from its history included.

Fairness (`FairSpec`): the watchdog takes its steps (`WatchStep`) and time passes; nothing is assumed of
failures, commands, or the server. In the code the watchdog waits with `recv_timeout`, looks at the server
between, and sleeps a bounded time. A start is assumed to end: the download of the model it may begin with has
10 s to connect and 180 s in all (`zenzai_model_download.rs:14`), the rest of it is local.

### CrashTrace

The record files of launcher and server. A file holds one record, overwritten in place; only its state
(`begin`, `completed`, `error`) is modelled. Two processes and the server's warm-up thread write without
a lock: the launcher looks at its record after the spawn (`LauncherChecks`) and writes a second time
(`LauncherConfirms`) while the server may complete it between (`ServerCompletesStart`); a warm-up may
begin or end during a conversion and overwrite its record. Server and launcher may each die at any step
(`ServerDies`, `LauncherDies`): between the launcher's look and its write, between its record and the spawn,
while its server starts or serves. Nothing ties a server to its launcher, so it goes on alone.
`ghost.settled` is history: it becomes false when a start is recorded, and true when the server listens or the
launcher records that it could not be spawned (`SpawnFails`, which ends the watchdog until the launcher dies).
`UntracedBegin` is a conversion without Zenzai, for which the Swift side writes nothing.

There is one server at a time: a launcher that died begins anew (`LauncherBegins`) once its server is
gone. The code does not see to that. Beside a server that was left alone, or that of a second launcher, a start
would preserve and report a record that is in progress because its server is alive, and write its own over it,
before it finds the pipe taken; `ReportIsTrue`, `StartDeathIsPreserved` and `FalseStartNeedsRace` are claimed only
without that. Tracing switched off and a file found truncated are not modelled either.

### ModelDownload

`ensure_configured_model` for any number of launchers. A file is missing, `broken` (does not verify) or
`whole`. `handle` is the file a download is written to: a handle follows its file when another
launcher renames it (`final`) and keeps writing into nothing when it is removed (`lost`). Any step may fail
(`Fail`; the server is then started without a model) and the launcher may die at any step (`Leave`).
`together` is history: it becomes true when a launcher downloads while another one does, or while the
server of another uses the model. Nothing in the code prevents that, and then neither `PathIsWhole` nor
`ReplacesByWhole` holds. What the design document says of the model
(`docs/superpowers/specs/2026-06-26-model-auto-download-design.md:91`, "A model becomes active only after the
temporary file passes verification and is atomically renamed into place") holds of one launcher only:
`ActiveIsVerified` says it without `together`, and `ModelDownloadTwo.cfg`, a configuration beside the runs, finds
two launchers that break it. The temporary file has the same name for both: between one's verification
(`zenzai_model_download.rs:120`) and its rename (`:131`) the other removes the file and creates it anew, so
that a partial download becomes the model and a server is told its path.

### ServerStart

`start_server_process` and the server it starts: first `ModelDownload` (`SeeToModel`), then `CrashTrace`, whose
launcher looks at the old record once it is done with the model (`RecordStart`). The launcher may die while it
sees to the model, and later (`LauncherDies`, `BeginAnew`). Other launchers are on the same model
(`OtherLauncher`), and only there: the servers they start would write the trace files too, which is left out
(see `CrashTrace`). The properties about traces thus assume one server at a time, the two
about the model any launchers that do not meet.

### ConfigStore

The settings file and everyone who touches it: loads by the launcher and the settings window (which
repair a broken file and write back what they read), updates by the settings window, edits by hand, and
the client's cache (`app_config_snapshot`). Every write has a new stamp, which
stands for length and time of the file; the code compares just these. No process locks the file, so a
writer's read, its rename and its write are steps of their own, and it may fail or die between any two.
`ghost.said` is what the file has said since a writer read it, that reading included (`Told`: nothing, while it
cannot be parsed), `ghost.seen` what it has said since a caller inspected it. `WritersKeepTheRest` compares every
write, also one over a file that others have changed meanwhile, with `ghost.said`: what others did since the
writer read is undone, as nothing is locked, and nothing else. Fields are switches; migration of old versions and wording are left out, and so is
the server, which reads the file when it starts and is told nothing afterwards.

The cache is inspected without its lock, so two threads may look at the file in one order and take the
lock in the other. `SettingsAreCurrent` leaves out a missing file: it has one key for all times, and what
was cached under that key because the file came back in between is served again when it is missing again.

### ClauseNavigation

The keys that move between clauses (`Right`, `Left`, `MoveToLast`), move a boundary (`AdjustBoundary`),
choose a candidate (`Select`), type, remove and commit. `client` is the `Composition`: the clause that is
current (`clause`), the clauses to its left (`snaps`, `clause_snapshots`) and the remembered ones to its
right (`futures`, `future_clause_snapshots`, the nearest one last). `server` has the composition, its
cursor and the stack that the cursor offsets 125, 126 and 127 clear, push and pop. A handler works on a
bundle of all of them and `Store` writes it back, as `handle_action_with_config_snapshot` does with its
local copies; a key is one step, except that the loop of `MOVE_CLAUSE_TO_LAST` takes one for each
clause. `ClauseFutures` has the functions on remembered clauses, `ClauseData` texts and answers.

A letter is a kana with a spelling, kana or converted; which kanji is chosen never matters to the control.
The converter is two constant operators: `FirstClause`, how many kana the first clause takes, and
`Lengths`, how many the candidates for the whole composition take. A kana takes `Keys` keys, typed
and answered together; Backspace takes one key off the client's raw input and one kana off the server's
composition, as in the code. How many keys (`Keys`, from `KeySizes`) and which candidates is chosen at the
start. `ghost` is what was typed and committed, and four flags that end the
judgement (`Judged`): `inner`, a kana was typed or removed while the server's cursor was inside its
composition, where client and server edit different places; `recut`, a candidate of another length was
chosen before remembered clauses (see `clause_recut`); `refused`, a boundary did not move but the
candidates were exchanged; `fellback`, with several keys for a kana, a shorter candidate
was chosen instead of a boundary that the server cannot move, before remembered clauses.

The last two are defects that simulating the keys with other converters showed, and each has a configuration
that finds it, beside the runs:

- `MCClauseNavigationRefusal.cfg` (`RefusalKeepsText`, 14 keys). `apply_adjust_boundary` looks for the current
  clause with the server's cursor and keeps the candidates of that search also when the boundary then does not
  move (`clause_state.rs:663` and `:688`); the selection and the count stay those of the candidates before.
  Left remembers the clause with the candidate that now has its index, Right takes the suffix from there, and
  kana are shown twice.
- `MCClauseNavigationFallback.cfg` (`FallbackKeepsText`, 19 keys). With nothing before the server's cursor a
  shorter candidate at hand is chosen, whose rest may show the clauses ahead as they were displayed earlier.
  Nothing recognises that rest, and `maybe_push_split_future_clause_snapshot` falls back to
  `current_raw_suffix` (`composition.rs:2105`, `:1784`), which drops as many letters of the reading as the
  candidate has keys: too many where a kana takes several. A clause that is too short stays remembered, and
  Right loses a kana.

Both need five kana and a converter of their own, and are about one text, with the flags of `Judged` but
their own. `AheadIsShown` says what all converters keep: a clause whose boundary was moved to the very end
keeps the clause it swallowed among the remembered ones, where `Right` never reaches it.

Assumptions: nothing is lost and no other client uses the server (that is `EditRecovery`'s subject); the first
candidate for a composition covers it whole; `GetComposedTextForCursorPrefix` answers with the first
clause before the cursor, converted and as kana. Left out: function keys and the display override
they leave, Escape and punctuation that commits (all in `InputSession`, without clauses), the repairs for a lone "n", whose keys belong to no kana.
Spelling is not claimed: going Left from a clause that was asked for anew shows the clauses ahead in kana
until Right is pressed again, and the properties compare kana. `CommitsFirst` counts the prefix that is shown
before the first clause: typing after Right forgets the clauses behind but keeps showing them as prefix, and
Ctrl+Enter then commits the prefix together with what is now the first clause.

`KeysAssumption`, `MaxLenAssumption` and `ConverterAssumption` say what the client and the proofs rely on: every
kana takes at least one key, a first clause lies within the composition, and the candidates for a composition
are at least one, each as long as one of its beginnings, no two but the first of the same length (the server
drops a text that it has seen, `main.rs:1235`).

## Runs

| Run | Shows |
|---|---|
| `edit_recovery` | `AtMostOnce`, `Agreement`, `NoMixedSessions` over all keys with any three faults; the recovery implements `EditOnce`; every key returns |
| `retry_when_unchanged` | a lost append to a composition of two clauses is dropped: the refresh looks different |
| `no_retry_when_changed` | an executed append is executed again when leftover candidates look like the refresh |
| `extension_is_no_reset` | an answer that extends the input is taken for a reset when its first clause is short |
| `launcher` | a launcher with failing parts, any commands and timeouts: types, "ok" is true, a running server is watched, bursts are bounded, a cooldown is earned, a server that is gone comes back |
| `crash_trace` | what a start reports of the one before is true; which deaths are reported, and the race that makes a good start look bad, with a launcher and a server that die at any step and one server at a time; a server gets the path of a whole model only, and a model file only gives way to a whole one, with a second launcher on that file, unless the two meet |
| `settings` | a launcher and a settings window share the file with a person: a write leaves all but one field as the file has said since the writer read it, and covers no file that could not be parsed then; two threads of a text service read it through their cache: a key is handled with settings that were in the file while it asked |
| `settings_backup` | a recovery moves away whatever the file is by then, also one that was repaired meanwhile |
| `clause_keys` | every sequence of keys over a composition: no kana is lost or repeated, clauses behind and ahead show the same text, client and server stacks agree, Left and Right undo each other, `MoveToLast` comes closer to the last clause with every step and ends there, Ctrl+Enter commits the first one; with one key and with two keys for a kana |
| `clause_recut` | a shorter candidate chosen before remembered clauses, and Right: the kana between are gone from the text |

Bounds. `clause_keys`: up to four kana of two letters, the first one fixed, with a converter that looks at
the last kana (`FirstByLast`) and gives clauses of one kana, of two, of all kana but one and of two kana that
are all: up to four clauses after boundary moves, clauses that swallow what is ahead, equal and different neighbours, so that comparisons of readings can succeed by accident;
and, with two keys for a kana, so that counts and text lengths differ, up to three times the same kana
(`Bounded`). `RawAgrees` claims nothing there, because Backspace makes it false.
Judged states only are expanded, which never cuts a behaviour inside the loop of `MoveToLast`.
`LoopAdvances` bounds that loop, so that no fairness is needed to see that it ends.

`session`: two applications, of which one gets every key and the other types and confirms. The budgets of a
behaviour (`MCBudgets`) trade typed keys, of which there are up to four, for focus changes and faults:
two keys with a focus change and a fault, three with a focus change, four with a fault. Two keys
give a composition with a candidate for a part of it, whose confirmation leaves a suffix; three a clause
committed and typing behind it, or a composition of either side across a focus change. Keys that type nothing
are not bounded. `latin_after_n` needs two keys and no disturbance.

`launcher`: the code has 5 exits, a window of 60 s, a delay of 1 s, a cooldown of 30 s and a
timeout of 10 s; the run has 3 exits, 8 ticks, 1, 3 and 2. In both, two bursts and no third fall in one
window. Two queued commands let a stale one precede a live one. `crash_trace`: the records have no
bound, nor have deaths. Another launcher is about until the server listens (`BeforeItIsLoaded`): from then on the server has loaded
its model and what happens to the file concerns the next start only, which begins with any file.
`settings`: 3 versions of the file (`MaxStamp`) with two fields, so that one is to be kept
when the other changes, one launcher, one settings window, one name for backups, two callers: while one
caller has inspected and not yet read, the other can read an earlier or a later version. Two of the four are
at work at a time (`Pairs`); two is what each of the races needs.

## Proofs

`EditRecovery_proofs` proves, for every set of tokens, converter, `MaxLen` and `MaxFaults`, that
`Spec` keeps `TypeOK` (`TypeCorrect`), `AtMostOnce` (`ExecutedAtMostOnce`), `NoMixedSessions` (`SessionsAreApart`)
and `Agreement` (`ClientAgrees`), and that it implements `EditOnce` (`RefinesEditOnce`). For the first two the
invariant `IndInv` adds: `KindInv`, which request the handler can be sending in each step; `RoomInv`, that
the composition leaves room for what is still to be appended, so that `Compositions` contains it and
`FirstClauseAssumption` applies; and `OnceInv`, which ties `ghost.execs` to the step and to what the
composition looks like: after a first attempt that executed, the composition differs from the one the
client compares with, so a refresh does not lead to a replay as long as `exact` holds. `SessionInv` says for each step
which copy of the service the raw input is tied to (the `IPCService` stored between keys, the handler's clone
within one), and that a handler that has taken a noticed change off it is about to drop the old text.
`AgreeInv` gives for each step what the server must hold, as long as nothing doubtful happened and it is up, in terms of `Base`:
the client's text as the handler goes on from it, or nothing if the server was replaced. The heart of it is
`RefreshAgrees`: what a refresh shows leads to a replay exactly if the request was lost. The refinement maps
each step with lemmas for what it can be (`OfferStep`, `WithdrawStep`, `WipeStep`, `AttemptStep`, `ReplayStep`, `SameStep`);
that a repeat happens only to an edit with a wrong picture is `OnceInv`. The assumptions
are those of the modules: `MaxLenAssumption`, `FirstClauseAssumption`, `MaxFaultsAssumption`.

`LauncherSupervisor_proofs` proves `TypeOK` (`LauncherTypes`), `ServerIsWatched` (`NeverTwoServers`),
`OkIsTrue` (`OkMeansRestarted`) and the action property `CooldownIsEarned` (`CooldownEarned`) for all times and queue lengths. `OkIsTrue` alone is not inductive: a stale
command in front of a live one could answer it. `LiveInv` adds that at most one command is live, that it is
the last one in the queue or the one being carried out, and that its listener then waits without a reply.
`RecentInv` is what the cooldown needs: the young entries of the watchdog's history are the latest of all exits, in order.
From `TimesAssumption` the proofs use that the delay is below the cooldown and the burst limit positive.

The invariant `BurstIsBounded` (`RestartsAreBounded`) counts exits over a window of any length; `BurstInv`
turns that into facts about single exits. Those i < j in `ghost.exits` are at least (j - i) delays apart
(`SpacedBy`), those k bursts apart are k periods apart (`BurstsApart`, a period being a cooldown and the
delays of a burst), and none is older than the window (`Young`), so that a longer history would not fit
(`BurstsBounded`). That a new exit keeps this needs the watchdog's own history: it is the end of all
exits (`Agree`), an exit it forgot although young was followed by a cooldown (`CooledDown`), and the last one
is a delay or a cooldown ago when the next server starts (`Rested`); `FullBurst` adds these up.

`ConfigStore_proofs` proves `TypeOK` (`ConfigTypes`), `SettingsAreCurrent` (`ServedAreCurrent`) and the action
property `WritersKeepTheRest` (`RestIsKept`) for any processes, fields, names and number of versions.
`CurrentInv` strengthens the second: what is cached under the stamp of the present file is what it says,
and what is cached under the stamp a caller has inspected is something the file has said since; the
second part is needed because the lock is taken after the file was inspected. `WriteInv` strengthens the third:
what a writer is about to write is, but for the field it changes, something the file has said since the writer
read it; moving the file away counts as the file saying the defaults. `ConfigAssumption` says that no process is
a launcher and a settings window.

`ServerStart_proofs` proves of `ModelDownload`, for any set of launchers, `PathIsWhole` (`ToldPathIsWhole`) and
`ReplacedByWhole` (`FileIsReplacedByWhole`) from one invariant, `ModelInv`: as long as launchers have not met, at
most one of them downloads, nobody else's server uses the model meanwhile, and a download that was verified stays
whole until it is promoted. `ServerStart` is composed of `ModelDownload`'s own actions, so that its steps
are steps of `ModelDownload` by construction (`StartImplementsDownload`, a lemma); what it is for is that a proof
about the small specification carries over to the composition (`SpawnedWithWholeModel`, `StartKeepsModel`).

`InputSession_proofs` proves `ComposingHasTip` (`TipFollows`), `NothingLeftBehind` (`ServerLeftEmpty`) and
`WindowFollows` (`WindowIsRight`) for any applications, keys, budgets and converter, with servers that
die and are replaced. The three speak of text services at rest, so none is inductive. The invariant `IInv` is
`Shape` (types) and `SInv`, which holds in the middle of a plan too: `Fits` relates what is left of a client's plan to its
copies, its document and the window (`TipFits`, `RawFits`, `CandsFit`, `WindowFits`, and `Orderly`, the order in
which the planner emits actions). A client at rest is one whose plan is empty. `Held` adds
that whoever has text at the server composes or is about to clear it, and `Late` excuses the tip once a
server has died: a client may then find its composition gone in the middle of a plan. That every plan fits when it is made is proved of the
planner (`KeyPlanFits`, `EisuPlanFits`, `ShiftUpPlanFits`); that each action of a plan leaves the rest fitting is one lemma per
action. The assumptions are `SessionAssumption` and `CountsTokens`, the hypothesis of the theorems: a first
clause is a number of tokens for every text. `FirstClauseAssumption` says more, but only up to
`MaxLen`, which does not bound the text here.

`InputSessionText_proofs` proves `TypeOK` (`SessionIsTyped`), `KeptText` (`TextIsKept`), `ServerAgrees`
(`ServerFollows`) and `LatinUntilConfirmed` (`LatinLastsUntilConfirmed`) for any applications, keys, budgets and
converter. `TInv` adds to `IInv`, for each
application, `TextFits`: `Text` relates the actions left of its plan to the handler's copies, the
composition in the document, and what the user is owed. `Placed` and `Leaves` say of the plan and the
copies what holds whatever the server does (an edit is followed by "end" at most, nothing is taken back after
another action than a flag, a clause that may be cut off is within the text); `Displays`, that the document
shows the text of the copies; `Agrees`, that raw input, candidates and text are the same unless the application is
excused. `owed` is then the length of the composition plus what the plan will still type less what it
will take back (`ToCome`): this is what makes `KeptText` inductive in the middle of a plan. `Untouched` ties the
server to the copies of whoever is not `touched`, and `Beside` says that a step of one application
changes nothing of that for another, unless it changes the server and touches the other. As
before, one lemma per action shows that what is left of a plan still fits, and `KeyPlanText`, `EisuPlanText` and
`ShiftUpPlanText` show it of every plan the planner makes. `PressKeepsText` shows that the history
owes the user just what the plan will type. The hypothesis is `CountsClauses`, which is
`FirstClauseAssumption` for texts of any length.

`LatinUntilConfirmed` compares the stored compositions before and after a step, while a plan changes the
handler's copies and stores them only when it ends: what one step gives up was decided some actions before.
`LInv` adds to `TInv` what is true in between (`LatinFits`). `Confirmed` says of a handler that began with Latin input
that what is left of its plan has a reason to end it (nothing stays composed and no edit is left, the
plan ends with "shrink", or it ends with "pendingOff" after Shift was pressed alone) or leaves it on
(`Lasts`: an action that turns it off has one behind it that turns it on again, and an edit comes last, so
that an edit which meets a new server is the step that stores). `PendingFits` says that a release of
Shift stays pending only while no other key was pressed, which ties the flag to the history `ghost.alone`.
`KeyPlanLatin`, `EisuPlanLatin` and `ShiftUpPlanLatin` show it of every plan the planner makes, and one
lemma per action that the rest of the plan keeps it.

`ServerStart_proofs` also proves what `CrashTrace` says, in the composition with the model file: `ReportIsTrue`
(`ReportsAreTrue`), `ConversionDeathIsReported` (`ConversionDeathsAreReported`), `StartDeathIsPreserved`
(`StartDeathsArePreserved`), `FalseStartNeedsRace` (`FalseStartsNeedRace`), with `StartTypeOK`
(`StartTypes`) and `ModelIsReplacedByWhole` (`StartKeepsModel`). `TraceInv` says of the server's record that it is
in progress only while something is, or after a death, and of the launcher's that it is in
progress until the server listens or could not be spawned, whoever dies meanwhile, and later only if the launcher's
second write came after the server's. There is one server at a time, as in the model.

`ClauseMoves_proofs` and `ClauseNavigation_proofs` prove all properties of `ClauseNavigation` but one part of `TypeOK`,
for any letters, numbers of keys, converter and `MaxLen` that the three assumptions allow. None of the
properties is inductive: each compares two of the places where the same kana are kept (a clause's reading,
raw input, preview, suffix and prefix, its candidates, the snapshots on both sides, the server's composition
and its stack), and a move takes from one what it writes to another. The invariant says what they are all copies of.
A *frame* `p` is what was typed: its kana (`whole`), its keys, how many of these belong to no kana any more
after a Backspace (`extra`), and how much of it is committed (`base`). `ClausePart`, `FuturePart`, `Row`,
`Trail` and `Good` say of a clause, a remembered clause, the clauses ahead, those behind with
the server's stack, and a bundle, which part of the frame they are:

- a reading is an end of the kana, the raw input an end of the keys; before it stand the committed kana and the
  fixed prefix, which the preview begins with (`Base`, `ClauseBase`);
- every candidate is a beginning of the reading with its rest, and its count is the keys of that
  beginning (`Tells`, `ViewPart`); the selected one is the clause, its rest the suffix (`Ends`);
- each clause ahead begins where the one before it ends (`Chain`, `Row`), the current clause included
  (`Fits`), and each clause behind ends where the next one begins (`Behind`, `Trail`);
- the server's composition and each place on its stack are the readings of the clauses they belong to (`Place`).

`IInv` is `Shape`, some types, and `Story`: in a judged state there is either no composition and nothing left of it,
or a frame whose kana are `ghost.typed` and whose base is `ghost.committed` (`Holding`). The frame is
bound by an existential quantifier because the keys that Backspace leaves over are in no variable. Moves, boundaries and
candidates keep the frame; keys that type, remove or commit replace it (`Grown`, `Lessened`, `Kept`).
`ClauseMoves_proofs` has the lemmas on the operators of `ClauseData` and `ClauseFutures` and on
single moves: `MoveRightIs` and `MoveLeftIs`, that the server's search for a clause keeps its composition,
that `Split`, the largest function of the handlers, leaves clauses ahead that fit the new boundary.
`ClauseNavigation_proofs` has boundaries, the walk over the clauses ahead and back, editing and committing, one
lemma per action (`...Holds`), and the theorems: `Composed` is the invariant, from which `TextIsWhole`,
`ClausesBehindAreTold`, `ClausesAheadAreTold`, `StacksAreOne`, `CurrentIsTheServers`, `RawIsTheServers` and
`LeftAndRight` follow; `LoopEndsAtLast`, `LoopEnds` and `FirstIsCommitted` are the action
properties. The loops of the handlers (`Iterated`) are recursive functions on an interval; what they keep is proved
with `SetInduction`, induction over a set of naturals, which the module derives from the well-foundedness of `Nat`
and which needs no operator as a parameter.

`TypesWhileJudged` is `TypeOK` for judged states. What `TypeOK` says of the others is that the server's cursor
is within its composition; the run checks it of the states that a judged one leads to. Further on nothing bounds the server's composition by
`MaxLen`, and with it what the converter answers: Backspace with the cursor at the very beginning takes a key
off the client's raw input but no kana off the composition.

Only model-checked: that part of `TypeOK` of `ClauseNavigation`, and the
liveness properties `KeyReturns` and `ServerComesBack` (liveness under fairness is out of the prover's reach).
