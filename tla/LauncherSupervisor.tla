------------------------- MODULE LauncherSupervisor -------------------------
(***************************************************************************)
(* The launcher process (crates/launcher/src/main.rs): a watchdog thread    *)
(* that starts the conversion server again whenever it is gone, a listener  *)
(* thread that takes "restart-server" commands from the language bar, and   *)
(* the main thread that waits for the candidate window.                     *)
(*                                                                         *)
(* The listener serves one command at a time: it queues it for the watchdog *)
(* and waits Timeout for the reply.  When it gives up, the command stays in *)
(* the queue.  Time passes in ticks; a timer may fire late but never early. *)
(***************************************************************************)
EXTENDS Naturals, Sequences

CONSTANTS BurstLimit,   \* SERVER_RESTART_BURST_LIMIT
          Window,       \* SERVER_RESTART_WINDOW
          Delay,        \* SERVER_RESTART_DELAY
          Cooldown,     \* SERVER_RESTART_COOLDOWN
          Timeout,      \* LAUNCHER_COMMAND_TIMEOUT
          MaxQueue      \* bound on the commands queued at a time

ASSUME TimesAssumption ==
  /\ BurstLimit \in Nat \ {0} /\ Window \in Nat /\ Timeout \in Nat /\ MaxQueue \in Nat
  /\ Delay \in Nat /\ Cooldown \in Nat /\ 0 < Delay /\ Delay < Cooldown

VARIABLES
  server,     \* the child process is running
  watchdog,   \* where the watchdog thread is
  sleep,      \* ticks its sleep has left
  recent,     \* recent_restarts: ages of the exits it remembers
  queue,      \* commands in the channel; "stale" once their listener gave up
  taken,      \* the command the watchdog is carrying out
  listener,   \* where the listener thread is
  patience,   \* ticks the listener will still wait for a reply
  reply,      \* what has arrived in the reply channel
  main,       \* where the main thread is
  ghost       \* history, never read by the code

vars == <<server, watchdog, sleep, recent, queue, taken, listener, patience,
          reply, main, ghost>>

Commands == {"live", "stale"}
Ages     == 0..(Window + 1)     \* Window + 1 stands for every greater age

\* exits:  ages, up to Window, of all exits nobody asked for
\* target: the server that ran when the pending command was sent still runs
TypeOK ==
  /\ server \in BOOLEAN
  /\ watchdog \in {"starting", "watching", "killing", "sleeping", "stopped"}
  /\ sleep \in 0..Cooldown
  /\ recent \in Seq(Ages) /\ Len(recent) < BurstLimit
  /\ queue \in Seq(Commands)
  /\ taken \in Commands \union {"none"}
  /\ listener \in {"accepting", "waiting", "stopped"}
  /\ patience \in 0..Timeout
  /\ reply \in {"none", "ok", "error"}
  /\ main \in {"starting", "window", "joining", "exited"}
  /\ ghost \in [exits : Seq(Ages), target : BOOLEAN]

Init ==
  /\ server = FALSE
  /\ watchdog = "starting"
  /\ sleep = 0
  /\ recent = <<>>
  /\ queue = <<>>
  /\ taken = "none"
  /\ listener = "accepting"
  /\ patience = 0
  /\ reply = "none"
  /\ main = "starting"
  /\ ghost = [exits |-> <<>>, target |-> FALSE]

-----------------------------------------------------------------------------
(* Time and the server process.                                            *)

Older(ages) == [i \in DOMAIN ages |-> IF ages[i] <= Window THEN ages[i] + 1 ELSE ages[i]]

\* The while loop of restart_delay_after_server_exit: entries older than the
\* window leave at the front.
PopOld(ages) ==
  LET young == {i \in 1..Len(ages) : ages[i] <= Window}
  IN IF young = {} THEN <<>>
     ELSE SubSeq(ages, CHOOSE i \in young : \A j \in young : i <= j, Len(ages))

Less(timer) == IF timer = 0 THEN 0 ELSE timer - 1

Tick ==
  /\ sleep' = Less(sleep)
  /\ patience' = Less(patience)
  /\ recent' = Older(recent)
  /\ ghost' = [ghost EXCEPT !.exits = PopOld(Older(@))]
  /\ UNCHANGED <<server, watchdog, queue, taken, listener, reply, main>>

ServerExits ==
  /\ server
  /\ server' = FALSE
  /\ ghost' = [ghost EXCEPT !.target = FALSE]
  /\ UNCHANGED <<watchdog, sleep, recent, queue, taken, listener, patience, reply, main>>

-----------------------------------------------------------------------------
(* The watchdog: watch_server_process.                                     *)

\* The thread returns; the channel and the reply senders in it are dropped,
\* so a listener that waits is told at once.
WatchdogStops ==
  /\ watchdog' = "stopped"
  /\ queue' = <<>>
  /\ taken' = "none"
  /\ reply' = IF listener = "waiting" /\ reply = "none" THEN "error" ELSE reply

\* start_server_process, with the model download before the spawn.
StartServer ==
  /\ watchdog = "starting"
  /\ server' = TRUE
  /\ watchdog' = "watching"
  /\ UNCHANGED <<sleep, recent, queue, taken, listener, patience, reply, main, ghost>>

StartFails ==
  /\ watchdog = "starting"
  /\ WatchdogStops
  /\ UNCHANGED <<server, sleep, recent, listener, patience, main, ghost>>

\* A variant that lets one exit more pass before it cools down.
NoticeExitLate ==
  /\ watchdog = "watching"
  /\ ~server
  /\ LET kept == PopOld(Append(recent, 0)) IN
       IF Len(kept) > BurstLimit
         THEN recent' = <<>> /\ sleep' = Cooldown
         ELSE recent' = kept /\ sleep' = Delay
  /\ watchdog' = "sleeping"
  /\ ghost' = [ghost EXCEPT !.exits = Append(@, 0)]
  /\ UNCHANGED <<server, queue, taken, listener, patience, reply, main>>

\* A variant that waits for a command without a timeout, so that it only
\* looks at the server when the listener is gone.
NoticeExitOnDisconnect ==
  /\ listener = "stopped"
  /\ watchdog = "watching"
  /\ ~server
  /\ recent' = PopOld(Append(recent, 0))
  /\ Len(recent') < BurstLimit
  /\ sleep' = Delay
  /\ watchdog' = "sleeping"
  /\ ghost' = [ghost EXCEPT !.exits = Append(@, 0)]
  /\ UNCHANGED <<server, queue, taken, listener, patience, reply, main>>

\* try_wait finds the server gone, or wait does once the listener is gone too.
\* restart_delay_after_server_exit without a request.
NoticeExit ==
  /\ watchdog = "watching"
  /\ ~server
  /\ LET kept == PopOld(Append(recent, 0)) IN
       IF Len(kept) >= BurstLimit
         THEN recent' = <<>> /\ sleep' = Cooldown
         ELSE recent' = kept /\ sleep' = Delay
  /\ watchdog' = "sleeping"
  /\ ghost' = [ghost EXCEPT !.exits = Append(@, 0)]
  /\ UNCHANGED <<server, queue, taken, listener, patience, reply, main>>

\* try_wait itself fails.
WatchFails ==
  /\ watchdog = "watching"
  /\ WatchdogStops
  /\ UNCHANGED <<server, sleep, recent, listener, patience, main, ghost>>

Wake ==
  /\ watchdog = "sleeping"
  /\ sleep = 0
  /\ watchdog' = "starting"
  /\ UNCHANGED <<server, sleep, recent, queue, taken, listener, patience, reply, main, ghost>>

\* A variant that replies before the server is gone.
TakeCommandAndReply ==
  /\ watchdog = "watching"
  /\ queue # <<>>
  /\ taken' = Head(queue)
  /\ queue' = Tail(queue)
  /\ watchdog' = "killing"
  /\ reply' = IF Head(queue) = "live" THEN "ok" ELSE reply
  /\ UNCHANGED <<server, sleep, recent, listener, patience, main, ghost>>

\* recv_timeout returns a command: terminate_server_child begins.
TakeCommand ==
  /\ watchdog = "watching"
  /\ queue # <<>>
  /\ taken' = Head(queue)
  /\ queue' = Tail(queue)
  /\ watchdog' = "killing"
  /\ UNCHANGED <<server, sleep, recent, listener, patience, reply, main, ghost>>

\* A variant that does not wait for the killed server.
KillWithoutWait ==
  /\ watchdog = "killing"
  /\ reply' = IF taken = "live" THEN "ok" ELSE reply
  /\ taken' = "none"
  /\ watchdog' = "starting"
  /\ UNCHANGED <<server, sleep, recent, queue, listener, patience, main, ghost>>

\* A variant that counts a requested restart as a crash.
KillAndCount ==
  /\ watchdog = "killing"
  /\ server' = FALSE
  /\ reply' = IF taken = "live" THEN "ok" ELSE reply
  /\ taken' = "none"
  /\ watchdog' = "sleeping"
  /\ LET kept == PopOld(Append(recent, 0)) IN
       IF Len(kept) >= BurstLimit
         THEN recent' = <<>> /\ sleep' = Cooldown
         ELSE recent' = kept /\ sleep' = Delay
  /\ ghost' = [ghost EXCEPT !.target = FALSE]
  /\ UNCHANGED <<queue, listener, patience, main>>

\* The server was gone already or is killed and waited for; the reply goes
\* out, and the next server is started without a delay.
Kill ==
  /\ watchdog = "killing"
  /\ server' = FALSE
  /\ reply' = IF taken = "live" THEN "ok" ELSE reply
  /\ taken' = "none"
  /\ watchdog' = "starting"
  /\ ghost' = [ghost EXCEPT !.target = FALSE]
  /\ UNCHANGED <<sleep, recent, queue, listener, patience, main>>

\* kill or wait fails: the error is the reply, and the watchdog stops.
KillFails ==
  /\ watchdog = "killing"
  /\ WatchdogStops
  /\ UNCHANGED <<server, sleep, recent, listener, patience, main, ghost>>

-----------------------------------------------------------------------------
(* The listener: run_launcher_command_listener, request_server_restart.     *)

Request ==
  /\ listener = "accepting"
  /\ watchdog # "stopped"
  /\ Len(queue) < MaxQueue
  /\ queue' = Append(queue, "live")
  /\ listener' = "waiting"
  /\ patience' = Timeout
  /\ ghost' = [ghost EXCEPT !.target = server]
  /\ UNCHANGED <<server, watchdog, sleep, recent, taken, reply, main>>

\* The watchdog is gone: the send fails, and the command is answered with an error.
RequestRefused ==
  /\ listener = "accepting"
  /\ watchdog = "stopped"
  /\ listener' = "waiting"
  /\ reply' = "error"
  /\ ghost' = [ghost EXCEPT !.target = FALSE]
  /\ UNCHANGED <<server, watchdog, sleep, recent, queue, taken, patience, main>>

Answer ==
  /\ listener = "waiting"
  /\ reply # "none"
  /\ listener' = "accepting"
  /\ reply' = "none"
  /\ ghost' = [ghost EXCEPT !.target = FALSE]
  /\ UNCHANGED <<server, watchdog, sleep, recent, queue, taken, patience, main>>

\* A variant that leaves the command live when the listener gives up, so that
\* its late reply answers the next command.
GiveUpButListen ==
  /\ listener = "waiting"
  /\ patience = 0
  /\ reply = "none"
  /\ listener' = "accepting"
  /\ ghost' = [ghost EXCEPT !.target = FALSE]
  /\ UNCHANGED <<server, watchdog, sleep, recent, queue, taken, patience, reply, main>>

\* The reply channel is dropped; the command is not taken back.
GiveUp ==
  /\ listener = "waiting"
  /\ patience = 0
  /\ reply = "none"
  /\ queue' = [i \in DOMAIN queue |-> "stale"]
  /\ taken' = IF taken = "live" THEN "stale" ELSE taken
  /\ listener' = "accepting"
  /\ ghost' = [ghost EXCEPT !.target = FALSE]
  /\ UNCHANGED <<server, watchdog, sleep, recent, patience, reply, main>>

\* The next pipe instance cannot be created: the thread ends.
ListenerFails ==
  /\ listener = "accepting"
  /\ listener' = "stopped"
  /\ UNCHANGED <<server, watchdog, sleep, recent, queue, taken, patience, reply, main, ghost>>

-----------------------------------------------------------------------------
(* The main thread.                                                        *)

ShowWindow ==
  /\ main = "starting"
  /\ main' = "window"
  /\ UNCHANGED <<server, watchdog, sleep, recent, queue, taken, listener, patience, reply, ghost>>

WindowExits ==
  /\ main = "window"
  /\ main' = "joining"
  /\ UNCHANGED <<server, watchdog, sleep, recent, queue, taken, listener, patience, reply, ghost>>

\* The process ends with its threads: the window did not start or could not
\* be waited for, or the watchdog it joins has stopped.  The server goes on.
Exit ==
  /\ main \in {"starting", "window"} \/ (main = "joining" /\ watchdog = "stopped")
  /\ main' = "exited"
  /\ watchdog' = "stopped"
  /\ listener' = "stopped"
  /\ queue' = <<>>
  /\ taken' = "none"
  /\ reply' = "none"
  /\ UNCHANGED <<server, sleep, recent, patience, ghost>>

-----------------------------------------------------------------------------
WatchStep == StartServer \/ NoticeExit \/ Wake \/ TakeCommand \/ Kill

Watch == WatchStep \/ StartFails \/ WatchFails \/ KillFails

Listen == Request \/ RequestRefused \/ Answer \/ GiveUp \/ ListenerFails

Next == Tick \/ ServerExits \/ Watch \/ Listen \/ ShowWindow \/ WindowExits \/ Exit

Spec == Init /\ [][Next]_vars

\* The operating system runs the watchdog, whose steps do not wait for a
\* failure to be possible, and time passes.
FairSpec == Spec /\ WF_vars(WatchStep) /\ WF_vars(Tick)

-----------------------------------------------------------------------------
(* Properties.                                                             *)

\* "ok" is told only when the server that ran when the command was sent is
\* gone, also if earlier commands the listener gave up are still queued.
OkIsTrue == reply = "ok" => ~ghost.target

\* A running server is watched, until the watchdog gives up: it never sleeps
\* before a start, or starts a second server, beside a running one.
ServerIsWatched == server => watchdog \in {"watching", "killing", "stopped"}

\* However the server behaves, the exits that nobody asked for stay within a
\* bound in every Window: full bursts come a Cooldown and BurstLimit - 1
\* Delays apart.
BurstIsBounded ==
  Len(ghost.exits) <= BurstLimit * (1 + Window \div (Cooldown + (BurstLimit - 1) * Delay))

\* A cooldown is earned by BurstLimit exits in a Window that nobody asked for
\* (requested_restarts_do_not_count_toward_crash_cooldown).
CooldownIsEarned ==
  [][sleep' = Cooldown /\ sleep # Cooldown => Len(ghost'.exits) >= BurstLimit]_vars

\* While the watchdog lives a server that is gone comes back, whatever
\* commands and timeouts come in between.
ServerComesBack == (~server /\ watchdog # "stopped") ~> (server \/ watchdog = "stopped")

=============================================================================
