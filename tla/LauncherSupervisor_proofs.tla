---------------------- MODULE LauncherSupervisor_proofs ----------------------
(***************************************************************************)
(* The launcher never starts a server beside a running one, the "ok" it     *)
(* tells the language bar is true, a cooldown has been earned, and the      *)
(* restarts within the window are bounded, for all times and queue lengths. *)
(***************************************************************************)
EXTENDS LauncherSupervisor, SequenceTheorems, WellFoundedInduction, TLAPS

\* At most one command is live, it is the last one sent, and while it is
\* live the listener waits for its reply.
LiveInv ==
  /\ reply # "none" => listener = "waiting"
  /\ taken # "none" => watchdog = "killing"
  /\ taken = "live" => listener = "waiting" /\ reply = "none"
  /\ \A i \in 1..Len(queue) : queue[i] = "live" =>
       /\ listener = "waiting" /\ reply = "none"
       /\ taken # "live"
       /\ i = Len(queue)

IndInv == TypeOK /\ LiveInv /\ ServerIsWatched /\ OkIsTrue

-----------------------------------------------------------------------------
(* Lemmas about the restart history.                                       *)

\* A set of positions that is not empty has a first one.
LEMMA FirstPosition ==
  ASSUME NEW T, T \subseteq Nat, T # {}
  PROVE  \E x \in T : \A y \in T : x <= y
<1>1. PICK x \in T : \A y \in T : <<y, x>> \notin OpToRel(<, Nat)
  BY NatLessThanWellFounded, WFMin
<1>2. \A y \in T : ~ (y < x)
  BY <1>1, Zenon DEF OpToRel
<1> QED
  BY <1>2

\* The history keeps ages when entries leave it, and never grows by that.
LEMMA PopOldLemma ==
  ASSUME NEW ages \in Seq(Ages)
  PROVE  PopOld(ages) \in Seq(Ages) /\ Len(PopOld(ages)) <= Len(ages)
<1> DEFINE young == {i \in 1..Len(ages) : ages[i] <= Window}
           first == CHOOSE i \in young : \A j \in young : i <= j
<1>1. Len(ages) \in Nat
  BY LenProperties
<1>2. CASE young = {}
  <2>1. PopOld(ages) = <<>>
    BY <1>2 DEF PopOld
  <2> QED
    BY <1>1, <2>1
<1>3. CASE young # {}
  <2>1. young \subseteq Nat
    BY <1>1
  <2>2. first \in young
    BY <1>3, <2>1, FirstPosition
  <2>3. PopOld(ages) = SubSeq(ages, first, Len(ages))
    BY <1>3 DEF PopOld
  <2>4. first \in 1..Len(ages)
    BY <2>2
  <2>5. \A i \in first..Len(ages) : ages[i] \in Ages
    BY <1>1, <2>4, ElementOfSeq
  <2> HIDE DEF first
  <2> QED
    BY <1>1, <2>3, <2>4, <2>5, SubSeqProperties
<1> QED
  BY <1>2, <1>3

\* The passing of a tick keeps the number of entries.
LEMMA OlderLemma ==
  ASSUME NEW ages \in Seq(Ages)
  PROVE  Older(ages) \in Seq(Ages) /\ Len(Older(ages)) = Len(ages)
<1>1. Len(ages) \in Nat /\ DOMAIN ages = 1..Len(ages)
  BY LenProperties
<1>2. \A i \in 1..Len(ages) :
        (IF ages[i] <= Window THEN ages[i] + 1 ELSE ages[i]) \in Ages
  BY TimesAssumption, ElementOfSeq DEF Ages
<1>3. Older(ages) \in [1..Len(ages) -> Ages]
  BY <1>1, <1>2 DEF Older
<1> QED
  BY <1>1, <1>3, IsASeq, LenProperties

\* Commands that were given up stay in the queue, every one of them.
LEMMA StaleLemma ==
  ASSUME NEW q \in Seq(Commands)
  PROVE  LET s == [i \in DOMAIN q |-> "stale"] IN
           s \in Seq(Commands) /\ Len(s) = Len(q) /\ \A i \in 1..Len(s) : s[i] = "stale"
<1>1. Len(q) \in Nat /\ DOMAIN q = 1..Len(q)
  BY LenProperties
<1>2. [i \in DOMAIN q |-> "stale"] \in [1..Len(q) -> Commands]
  BY <1>1 DEF Commands
<1>3. [i \in DOMAIN q |-> "stale"] \in Seq(Commands)
  BY <1>1, <1>2, IsASeq
<1>4. Len([i \in DOMAIN q |-> "stale"]) = Len(q)
  BY <1>1, <1>2, <1>3, LenProperties
<1> QED
  BY <1>1, <1>3, <1>4

-----------------------------------------------------------------------------
(* The invariant.                                                          *)

LEMMA InitInd == Init => IndInv
<1> SUFFICES ASSUME Init PROVE IndInv
  OBVIOUS
<1>1. recent \in Seq(Ages) /\ Len(recent) = 0 /\ queue \in Seq(Commands) /\ Len(queue) = 0
  BY DEF Init
<1>2. ghost \in [exits : Seq(Ages), target : BOOLEAN]
  BY DEF Init
<1>3. TypeOK
  <2>1. Len(recent) < BurstLimit /\ sleep \in 0..Cooldown /\ patience \in 0..Timeout
    BY <1>1, TimesAssumption DEF Init
  <2> QED
    BY <1>1, <1>2, <2>1 DEF Init, TypeOK
<1>4. LiveInv
  BY <1>1 DEF Init, LiveInv
<1> QED
  BY <1>3, <1>4 DEF Init, IndInv, ServerIsWatched, OkIsTrue

LEMMA TickInd == IndInv /\ Tick => IndInv'
<1> SUFFICES ASSUME IndInv, Tick PROVE IndInv'
  OBVIOUS
<1>1. sleep' \in 0..Cooldown /\ patience' \in 0..Timeout
  BY TimesAssumption DEF IndInv, TypeOK, Tick, Less
<1>2. recent' \in Seq(Ages) /\ Len(recent') < BurstLimit
  BY OlderLemma DEF IndInv, TypeOK, Tick
<1>3. PopOld(Older(ghost.exits)) \in Seq(Ages)
  BY OlderLemma, PopOldLemma DEF IndInv, TypeOK
<1>4. ghost' \in [exits : Seq(Ages), target : BOOLEAN] /\ ghost'.target = ghost.target
  BY <1>3 DEF IndInv, TypeOK, Tick
<1> QED
  BY <1>1, <1>2, <1>4 DEF IndInv, TypeOK, Tick, LiveInv, ServerIsWatched, OkIsTrue

LEMMA ServerExitsInd == IndInv /\ ServerExits => IndInv'
BY DEF IndInv, TypeOK, ServerExits, LiveInv, ServerIsWatched, OkIsTrue

\* The watchdog gives up: the channel is empty, and a waiting listener is told.
LEMMA StopInd ==
  ASSUME IndInv, WatchdogStops,
         UNCHANGED <<server, sleep, recent, listener, patience, main, ghost>>
  PROVE  IndInv'
<1>1. queue' \in Seq(Commands) /\ Len(queue') = 0
  BY DEF WatchdogStops
<1> QED
  BY <1>1 DEF WatchdogStops, IndInv, TypeOK, LiveInv, ServerIsWatched, OkIsTrue

LEMMA NoticeExitInd == IndInv /\ NoticeExit => IndInv'
<1> SUFFICES ASSUME IndInv, NoticeExit PROVE IndInv'
  OBVIOUS
<1> DEFINE kept == PopOld(Append(recent, 0))
<1>1. 0 \in Ages
  BY TimesAssumption DEF Ages
<1>2. kept \in Seq(Ages)
  BY <1>1, AppendProperties, PopOldLemma DEF IndInv, TypeOK
<1>3. Len(kept) \in Nat
  BY <1>2, LenProperties
<1>4. recent' \in Seq(Ages) /\ Len(recent') < BurstLimit /\ sleep' \in 0..Cooldown
  <2> HIDE DEF kept
  <2>1. IF Len(kept) >= BurstLimit
          THEN recent' = <<>> /\ sleep' = Cooldown
          ELSE recent' = kept /\ sleep' = Delay
    BY DEF NoticeExit, kept
  <2>2. CASE Len(kept) >= BurstLimit
    <3>1. recent' = <<>> /\ sleep' = Cooldown
      BY <2>1, <2>2
    <3>2. <<>> \in Seq(Ages) /\ Len(<<>>) = 0
      OBVIOUS
    <3> QED
      BY <3>1, <3>2, TimesAssumption
  <2>3. CASE ~ (Len(kept) >= BurstLimit)
    <3>1. recent' = kept /\ sleep' = Delay
      BY <2>1, <2>3
    <3> QED
      BY <1>2, <1>3, <2>3, <3>1, TimesAssumption
  <2> QED
    BY <2>2, <2>3
<1>5. Append(ghost.exits, 0) \in Seq(Ages)
  BY <1>1, AppendProperties DEF IndInv, TypeOK
<1>6. ghost' \in [exits : Seq(Ages), target : BOOLEAN] /\ ghost'.target = ghost.target
  BY <1>5 DEF IndInv, TypeOK, NoticeExit
<1> QED
  BY <1>4, <1>6 DEF NoticeExit, IndInv, TypeOK, LiveInv, ServerIsWatched, OkIsTrue

LEMMA TakeCommandInd == IndInv /\ TakeCommand => IndInv'
<1> SUFFICES ASSUME IndInv, TakeCommand PROVE IndInv'
  OBVIOUS
<1>1. Head(queue) = queue[1] /\ 1 \in 1..Len(queue) /\ Len(queue) \in Nat
  BY LenProperties, EmptySeq DEF IndInv, TypeOK, TakeCommand
<1>2. /\ taken' \in Commands
      /\ queue' \in Seq(Commands)
      /\ Len(queue') = Len(queue) - 1
      /\ \A i \in 1..Len(queue') : queue'[i] = queue[i + 1]
  BY HeadTailProperties DEF IndInv, TypeOK, TakeCommand
<1>3. TypeOK'
  BY <1>2 DEF IndInv, TypeOK, TakeCommand
<1>4. taken' = "live" => listener = "waiting" /\ reply = "none" /\ Len(queue') = 0
  <2>1. taken' = queue[1]
    BY <1>1 DEF TakeCommand
  <2>2. 1 \in 1..Len(queue)
    BY <1>1
  <2>3. queue[1] = "live" => listener = "waiting" /\ reply = "none" /\ 1 = Len(queue)
    BY <2>2 DEF IndInv, LiveInv
  <2>4. Len(queue) = 1 => Len(queue') = 0
    BY <1>1, <1>2
  <2> QED
    BY <2>1, <2>3, <2>4
<1>5. ASSUME NEW i \in 1..Len(queue'), queue'[i] = "live"
      PROVE  listener = "waiting" /\ reply = "none" /\ taken' # "live" /\ i = Len(queue')
  <2>1. i + 1 \in 1..Len(queue) /\ queue[i + 1] = "live"
    BY <1>1, <1>2, <1>5
  <2> QED
    BY <1>1, <1>2, <1>4, <2>1 DEF IndInv, LiveInv
<1>6. LiveInv'
  BY <1>4, <1>5 DEF IndInv, LiveInv, TakeCommand
<1> QED
  BY <1>3, <1>6 DEF IndInv, TakeCommand, ServerIsWatched, OkIsTrue

LEMMA KillInd == IndInv /\ Kill => IndInv'
<1> SUFFICES ASSUME IndInv, Kill PROVE IndInv'
  OBVIOUS
<1>1. ghost' \in [exits : Seq(Ages), target : BOOLEAN] /\ ghost'.target = FALSE
  BY DEF IndInv, TypeOK, Kill
<1>2. TypeOK'
  BY <1>1 DEF IndInv, TypeOK, Kill
<1> QED
  BY <1>1, <1>2 DEF IndInv, Kill, LiveInv, ServerIsWatched, OkIsTrue

\* The other steps of the watchdog.
LEMMA WatchInd == IndInv /\ Watch => IndInv'
<1> SUFFICES ASSUME IndInv, Watch PROVE IndInv'
  OBVIOUS
<1>1. CASE StartServer
  BY <1>1 DEF StartServer, IndInv, TypeOK, LiveInv, ServerIsWatched, OkIsTrue
<1>2. CASE StartFails
  BY <1>2, StopInd DEF StartFails
<1>3. CASE NoticeExit
  BY <1>3, NoticeExitInd
<1>4. CASE WatchFails
  BY <1>4, StopInd DEF WatchFails
<1>5. CASE Wake
  BY <1>5 DEF Wake, IndInv, TypeOK, LiveInv, ServerIsWatched, OkIsTrue
<1>6. CASE TakeCommand
  BY <1>6, TakeCommandInd
<1>7. CASE Kill
  BY <1>7, KillInd
<1>8. CASE KillFails
  BY <1>8, StopInd DEF KillFails
<1> QED
  BY <1>1, <1>2, <1>3, <1>4, <1>5, <1>6, <1>7, <1>8 DEF Watch, WatchStep

LEMMA RequestInd == IndInv /\ Request => IndInv'
<1> SUFFICES ASSUME IndInv, Request PROVE IndInv'
  OBVIOUS
<1>1. reply = "none" /\ taken # "live"
  BY DEF IndInv, LiveInv, TypeOK, Request
<1>2. /\ queue' \in Seq(Commands)
      /\ Len(queue) \in Nat /\ Len(queue') = Len(queue) + 1
      /\ \A i \in 1..Len(queue) : queue'[i] = queue[i]
  BY AppendProperties, LenProperties DEF IndInv, TypeOK, Request, Commands
<1>3. \A i \in 1..Len(queue) : queue[i] # "live"
  BY DEF IndInv, LiveInv, Request
<1>4. ghost' \in [exits : Seq(Ages), target : BOOLEAN]
  BY DEF IndInv, TypeOK, Request
<1>5. TypeOK'
  BY <1>2, <1>4, TimesAssumption DEF IndInv, TypeOK, Request
<1>6. LiveInv'
  BY <1>1, <1>2, <1>3 DEF IndInv, LiveInv, Request
<1> QED
  BY <1>1, <1>5, <1>6 DEF IndInv, Request, ServerIsWatched, OkIsTrue

LEMMA GiveUpInd == IndInv /\ GiveUp => IndInv'
<1> SUFFICES ASSUME IndInv, GiveUp PROVE IndInv'
  OBVIOUS
<1>1. queue' \in Seq(Commands) /\ \A i \in 1..Len(queue') : queue'[i] = "stale"
  BY StaleLemma DEF IndInv, TypeOK, GiveUp
<1>2. ghost' \in [exits : Seq(Ages), target : BOOLEAN]
  BY DEF IndInv, TypeOK, GiveUp
<1>3. TypeOK'
  BY <1>1, <1>2 DEF IndInv, TypeOK, GiveUp, Commands
<1> QED
  BY <1>1, <1>3 DEF IndInv, GiveUp, LiveInv, ServerIsWatched, OkIsTrue

\* The steps of the listener.
LEMMA ListenInd == IndInv /\ Listen => IndInv'
<1> SUFFICES ASSUME IndInv, Listen PROVE IndInv'
  OBVIOUS
<1>1. CASE Request
  BY <1>1, RequestInd
<1>2. CASE RequestRefused
  <2>1. ghost' \in [exits : Seq(Ages), target : BOOLEAN]
    BY <1>2 DEF IndInv, TypeOK, RequestRefused
  <2>2. TypeOK'
    BY <1>2, <2>1 DEF IndInv, TypeOK, RequestRefused
  <2> QED
    BY <1>2, <2>2 DEF IndInv, RequestRefused, LiveInv, ServerIsWatched, OkIsTrue
<1>3. CASE Answer
  <2>1. ghost' \in [exits : Seq(Ages), target : BOOLEAN]
    BY <1>3 DEF IndInv, TypeOK, Answer
  <2>2. TypeOK'
    BY <1>3, <2>1 DEF IndInv, TypeOK, Answer
  <2> QED
    BY <1>3, <2>2 DEF IndInv, Answer, LiveInv, ServerIsWatched, OkIsTrue
<1>4. CASE GiveUp
  BY <1>4, GiveUpInd
<1>5. CASE ListenerFails
  BY <1>5 DEF ListenerFails, IndInv, TypeOK, LiveInv, ServerIsWatched, OkIsTrue
<1> QED
  BY <1>1, <1>2, <1>3, <1>4, <1>5 DEF Listen

LEMMA ExitInd == IndInv /\ Exit => IndInv'
<1> SUFFICES ASSUME IndInv, Exit PROVE IndInv'
  OBVIOUS
<1>1. queue' \in Seq(Commands) /\ Len(queue') = 0
  BY DEF Exit
<1> QED
  BY <1>1 DEF Exit, IndInv, TypeOK, LiveInv, ServerIsWatched, OkIsTrue

LEMMA NextInd == IndInv /\ [Next]_vars => IndInv'
<1> SUFFICES ASSUME IndInv, [Next]_vars PROVE IndInv'
  OBVIOUS
<1>1. CASE Tick
  BY <1>1, TickInd
<1>2. CASE ServerExits
  BY <1>2, ServerExitsInd
<1>3. CASE Watch
  BY <1>3, WatchInd
<1>4. CASE Listen
  BY <1>4, ListenInd
<1>5. CASE ShowWindow
  BY <1>5 DEF ShowWindow, IndInv, TypeOK, LiveInv, ServerIsWatched, OkIsTrue
<1>6. CASE WindowExits
  BY <1>6 DEF WindowExits, IndInv, TypeOK, LiveInv, ServerIsWatched, OkIsTrue
<1>7. CASE Exit
  BY <1>7, ExitInd
<1>8. CASE UNCHANGED vars
  BY <1>8 DEF vars, IndInv, TypeOK, LiveInv, ServerIsWatched, OkIsTrue
<1> QED
  BY <1>1, <1>2, <1>3, <1>4, <1>5, <1>6, <1>7, <1>8 DEF Next

LEMMA Invariance == Spec => []IndInv
BY InitInd, NextInd, PTL DEF Spec

-----------------------------------------------------------------------------
(* The cooldown.                                                           *)

\* The young entries of the watchdog's history are the latest of all exits.
Remembers(kept, all) ==
  \A i \in 1..Len(kept) : kept[i] <= Window =>
    /\ Len(kept) - i < Len(all)
    /\ all[Len(all) - (Len(kept) - i)] = kept[i]

RecentInv == Remembers(recent, ghost.exits)

\* What leaves the history is old and at its front, so that its first entry is young.
LEMMA PopOldSuffix ==
  ASSUME NEW ages \in Seq(Ages)
  PROVE  \E m \in 1..(Len(ages) + 1) :
           /\ Len(PopOld(ages)) = Len(ages) + 1 - m
           /\ \A i \in 1..Len(PopOld(ages)) : PopOld(ages)[i] = ages[m - 1 + i]
           /\ \A i \in 1..Len(ages) : ages[i] <= Window => m <= i
           /\ m <= Len(ages) => ages[m] <= Window
<1> DEFINE young == {i \in 1..Len(ages) : ages[i] <= Window}
           first == CHOOSE i \in young : \A j \in young : i <= j
<1>1. Len(ages) \in Nat
  BY LenProperties
<1>2. CASE young = {}
  <2>1. PopOld(ages) = <<>>
    BY <1>2 DEF PopOld
  <2>2. \A i \in 1..Len(ages) : ~ (ages[i] <= Window)
    BY <1>2
  <2>3. Len(ages) + 1 \in 1..(Len(ages) + 1)
    BY <1>1
  <2> HIDE DEF young, first
  <2> QED
    BY <1>1, <2>1, <2>2, <2>3
<1>3. CASE young # {}
  <2>1. young \subseteq Nat
    BY <1>1
  <2>2. first \in young /\ \A j \in young : first <= j
    BY <1>3, <2>1, FirstPosition
  <2>3. PopOld(ages) = SubSeq(ages, first, Len(ages))
    BY <1>3 DEF PopOld
  <2>4. first \in 1..Len(ages) /\ ages[first] <= Window
    BY <2>2
  <2>5. \A i \in 1..Len(ages) : ages[i] <= Window => first <= i
    BY <2>2
  <2>6. \A i \in first..Len(ages) : ages[i] \in Ages
    BY <1>1, <2>4, ElementOfSeq
  <2> HIDE DEF young, first
  <2>7. /\ Len(PopOld(ages)) = Len(ages) + 1 - first
        /\ \A i \in 1..Len(PopOld(ages)) : PopOld(ages)[i] = ages[first - 1 + i]
    BY <1>1, <2>3, <2>4, <2>6, SubSeqProperties
  <2> QED
    BY <1>1, <2>4, <2>5, <2>7
<1> QED
  BY <1>2, <1>3

\* Dropping the old entries of either history loses nothing that is remembered.
LEMMA PopOldRemembers ==
  ASSUME NEW kept \in Seq(Ages), NEW all \in Seq(Ages), Remembers(kept, all)
  PROVE  Remembers(PopOld(kept), all) /\ Remembers(kept, PopOld(all))
<1>1. Len(kept) \in Nat /\ Len(all) \in Nat
  BY LenProperties
<1>2. Remembers(PopOld(kept), all)
  <2>1. PICK m \in 1..(Len(kept) + 1) :
          /\ Len(PopOld(kept)) = Len(kept) + 1 - m
          /\ \A i \in 1..Len(PopOld(kept)) : PopOld(kept)[i] = kept[m - 1 + i]
    BY PopOldSuffix
  <2>2. ASSUME NEW i \in 1..Len(PopOld(kept)), PopOld(kept)[i] <= Window
        PROVE  /\ Len(PopOld(kept)) - i < Len(all)
               /\ all[Len(all) - (Len(PopOld(kept)) - i)] = PopOld(kept)[i]
    <3>1. m - 1 + i \in 1..Len(kept) /\ kept[m - 1 + i] <= Window
      BY <1>1, <2>1, <2>2
    <3>2. Len(kept) - (m - 1 + i) = Len(PopOld(kept)) - i
      BY <1>1, <2>1
    <3> QED
      BY <2>1, <3>1, <3>2 DEF Remembers
  <2> QED
    BY <2>2 DEF Remembers
<1>3. Remembers(kept, PopOld(all))
  <2>1. PICK m \in 1..(Len(all) + 1) :
          /\ Len(PopOld(all)) = Len(all) + 1 - m
          /\ \A i \in 1..Len(PopOld(all)) : PopOld(all)[i] = all[m - 1 + i]
          /\ \A i \in 1..Len(all) : all[i] <= Window => m <= i
    BY PopOldSuffix
  <2>2. ASSUME NEW i \in 1..Len(kept), kept[i] <= Window
        PROVE  /\ Len(kept) - i < Len(PopOld(all))
               /\ PopOld(all)[Len(PopOld(all)) - (Len(kept) - i)] = kept[i]
    <3> DEFINE k == Len(all) - (Len(kept) - i)
    <3>1. Len(kept) - i < Len(all) /\ all[k] = kept[i]
      BY <2>2 DEF Remembers
    <3>2. k \in 1..Len(all) /\ all[k] <= Window
      BY <1>1, <2>2, <3>1
    <3>3. m <= k
      BY <2>1, <3>2
    <3>4. k - m + 1 \in 1..Len(PopOld(all)) /\ m - 1 + (k - m + 1) = k
      BY <1>1, <2>1, <3>2, <3>3
    <3>5. PopOld(all)[k - m + 1] = all[k]
      BY <2>1, <3>4
    <3>6. Len(PopOld(all)) - (Len(kept) - i) = k - m + 1 /\ Len(kept) - i < Len(PopOld(all))
      BY <1>1, <2>1, <3>3
    <3> QED
      BY <3>1, <3>5, <3>6
  <2> QED
    BY <2>2 DEF Remembers
<1> QED
  BY <1>2, <1>3

\* A tick ages both histories alike.
LEMMA OlderRemembers ==
  ASSUME NEW kept \in Seq(Ages), NEW all \in Seq(Ages), Remembers(kept, all)
  PROVE  Remembers(Older(kept), Older(all))
<1>1. /\ Len(kept) \in Nat /\ Len(all) \in Nat
      /\ Len(Older(kept)) = Len(kept) /\ Len(Older(all)) = Len(all)
  BY LenProperties, OlderLemma
<1>2. /\ \A i \in 1..Len(kept) :
           Older(kept)[i] = IF kept[i] <= Window THEN kept[i] + 1 ELSE kept[i]
      /\ \A i \in 1..Len(all) :
           Older(all)[i] = IF all[i] <= Window THEN all[i] + 1 ELSE all[i]
  BY LenProperties DEF Older
<1>3. ASSUME NEW i \in 1..Len(kept), Older(kept)[i] <= Window
      PROVE  /\ Len(kept) - i < Len(all)
             /\ Older(all)[Len(all) - (Len(kept) - i)] = Older(kept)[i]
  <2>1. kept[i] <= Window
    BY <1>2, <1>3
  <2>2. Len(kept) - i < Len(all) /\ all[Len(all) - (Len(kept) - i)] = kept[i]
    BY <2>1 DEF Remembers
  <2>3. Len(all) - (Len(kept) - i) \in 1..Len(all)
    BY <1>1, <2>2
  <2> QED
    BY <1>2, <2>1, <2>2, <2>3
<1> QED
  BY <1>1, <1>3 DEF Remembers

\* An exit is entered in both.
LEMMA AppendRemembers ==
  ASSUME NEW kept \in Seq(Ages), NEW all \in Seq(Ages), Remembers(kept, all), NEW age \in Ages
  PROVE  Remembers(Append(kept, age), Append(all, age))
<1> DEFINE k == Append(kept, age)
           a == Append(all, age)
<1>1. /\ Len(kept) \in Nat /\ Len(all) \in Nat
      /\ Len(k) = Len(kept) + 1 /\ Len(a) = Len(all) + 1
      /\ \A i \in 1..Len(kept) : k[i] = kept[i]
      /\ \A i \in 1..Len(all) : a[i] = all[i]
      /\ k[Len(kept) + 1] = age /\ a[Len(all) + 1] = age
  BY LenProperties, AppendProperties
<1> HIDE DEF k, a
<1>2. ASSUME NEW i \in 1..Len(k), k[i] <= Window
      PROVE  Len(k) - i < Len(a) /\ a[Len(a) - (Len(k) - i)] = k[i]
  <2>1. CASE i = Len(k)
    BY <1>1, <2>1
  <2>2. CASE i # Len(k)
    <3>1. i \in 1..Len(kept) /\ kept[i] <= Window
      BY <1>1, <1>2, <2>2
    <3>2. Len(kept) - i < Len(all) /\ all[Len(all) - (Len(kept) - i)] = kept[i]
      BY <3>1 DEF Remembers
    <3>3. /\ Len(all) - (Len(kept) - i) \in 1..Len(all)
          /\ Len(a) - (Len(k) - i) = Len(all) - (Len(kept) - i)
      BY <1>1, <3>1, <3>2
    <3> QED
      BY <1>1, <3>1, <3>2, <3>3
  <2> QED
    BY <2>1, <2>2
<1>3. Remembers(k, a)
  BY <1>2 DEF Remembers
<1> QED
  BY <1>3 DEF k, a

\* As many exits as the watchdog still counts were within the window.
LEMMA CountedIsRemembered ==
  ASSUME NEW ages \in Seq(Ages), NEW all \in Seq(Ages), Remembers(PopOld(ages), all)
  PROVE  Len(PopOld(ages)) <= Len(all)
<1>1. Len(ages) \in Nat /\ Len(all) \in Nat
  BY LenProperties
<1>2. PICK m \in 1..(Len(ages) + 1) :
        /\ Len(PopOld(ages)) = Len(ages) + 1 - m
        /\ \A i \in 1..Len(PopOld(ages)) : PopOld(ages)[i] = ages[m - 1 + i]
        /\ m <= Len(ages) => ages[m] <= Window
  BY PopOldSuffix
<1>3. CASE m = Len(ages) + 1
  BY <1>1, <1>2, <1>3
<1>4. CASE m # Len(ages) + 1
  <2>1. 1 \in 1..Len(PopOld(ages)) /\ m - 1 + 1 = m /\ m <= Len(ages)
    BY <1>1, <1>2, <1>4
  <2>2. PopOld(ages)[1] <= Window
    BY <1>2, <2>1
  <2>3. Len(PopOld(ages)) - 1 < Len(all)
    BY <2>1, <2>2 DEF Remembers
  <2> QED
    BY <1>1, <1>2, <2>3
<1> QED
  BY <1>3, <1>4

\* The exit that is noticed: what the watchdog counts then has happened.
LEMMA NoticeRemembers ==
  ASSUME IndInv, RecentInv, NoticeExit
  PROVE  /\ RecentInv'
         /\ sleep' = Cooldown => Len(ghost'.exits) >= BurstLimit
<1> DEFINE kept == PopOld(Append(recent, 0))
           all == Append(ghost.exits, 0)
<1>1. recent \in Seq(Ages) /\ ghost.exits \in Seq(Ages) /\ 0 \in Ages
  BY TimesAssumption DEF IndInv, TypeOK, Ages
<1>2. Append(recent, 0) \in Seq(Ages) /\ all \in Seq(Ages)
  BY <1>1, AppendProperties
<1>3. Remembers(Append(recent, 0), all)
  BY <1>1, AppendRemembers DEF RecentInv
<1>4. kept \in Seq(Ages) /\ Remembers(kept, all) /\ Len(kept) <= Len(all)
  BY <1>2, <1>3, PopOldLemma, PopOldRemembers, CountedIsRemembered
<1>5. Len(kept) \in Nat /\ Len(all) \in Nat
  BY <1>2, <1>4, LenProperties
<1>6. ghost'.exits = all
  BY DEF NoticeExit, IndInv, TypeOK
<1>7. IF Len(kept) >= BurstLimit
        THEN recent' = <<>> /\ sleep' = Cooldown
        ELSE recent' = kept /\ sleep' = Delay
  BY DEF NoticeExit
<1> HIDE DEF kept, all
<1>8. CASE Len(kept) >= BurstLimit
  <2>1. Len(recent') = 0
    BY <1>7, <1>8
  <2>2. RecentInv'
    BY <2>1 DEF RecentInv, Remembers
  <2> QED
    BY <1>4, <1>5, <1>6, <1>8, <2>2, TimesAssumption
<1>9. CASE ~ (Len(kept) >= BurstLimit)
  <2>1. recent' = kept /\ sleep' = Delay
    BY <1>7, <1>9
  <2>2. RecentInv'
    BY <1>4, <1>6, <2>1 DEF RecentInv
  <2> QED
    BY <2>1, <2>2, TimesAssumption
<1> QED
  BY <1>8, <1>9

LEMMA TickRemembers == IndInv /\ RecentInv /\ Tick => RecentInv'
<1> SUFFICES ASSUME IndInv, RecentInv, Tick PROVE RecentInv'
  OBVIOUS
<1>1. recent \in Seq(Ages) /\ ghost.exits \in Seq(Ages)
  BY DEF IndInv, TypeOK
<1>2. Older(recent) \in Seq(Ages) /\ Older(ghost.exits) \in Seq(Ages)
  BY <1>1, OlderLemma
<1>3. Remembers(Older(recent), Older(ghost.exits))
  BY <1>1, OlderRemembers DEF RecentInv
<1>4. Remembers(Older(recent), PopOld(Older(ghost.exits)))
  BY <1>2, <1>3, PopOldRemembers
<1>5. recent' = Older(recent) /\ ghost'.exits = PopOld(Older(ghost.exits))
  BY DEF Tick, IndInv, TypeOK
<1> QED
  BY <1>4, <1>5 DEF RecentInv

\* No other step touches either history.
LEMMA RecentKept ==
  ASSUME IndInv, RecentInv, recent' = recent, ghost'.exits = ghost.exits
  PROVE  RecentInv'
BY DEF RecentInv

LEMMA RecentInd ==
  IndInv /\ RecentInv /\ [Next]_vars
    => /\ RecentInv'
       /\ sleep' = Cooldown /\ sleep # Cooldown => Len(ghost'.exits) >= BurstLimit
<1> SUFFICES ASSUME IndInv, RecentInv, [Next]_vars
             PROVE  /\ RecentInv'
                    /\ sleep' = Cooldown /\ sleep # Cooldown => Len(ghost'.exits) >= BurstLimit
  OBVIOUS
<1>1. CASE Tick
  <2>1. sleep' = Less(sleep) /\ sleep \in 0..Cooldown
    BY <1>1 DEF Tick, IndInv, TypeOK
  <2>2. sleep' # Cooldown
    BY <2>1, TimesAssumption DEF Less
  <2> QED
    BY <1>1, <2>2, TickRemembers
<1>2. CASE NoticeExit
  BY <1>2, NoticeRemembers
<1>3. CASE recent' = recent /\ ghost'.exits = ghost.exits /\ sleep' = sleep
  BY <1>3, RecentKept
<1>4. ASSUME ~Tick, ~NoticeExit
      PROVE  recent' = recent /\ ghost'.exits = ghost.exits /\ sleep' = sleep
  <2> USE DEF IndInv, TypeOK
  <2>1. CASE ServerExits
    BY <2>1 DEF ServerExits
  <2>2. CASE Watch
    BY <1>4, <2>2 DEF Watch, WatchStep, StartServer, StartFails, WatchFails, Wake, TakeCommand,
       Kill, KillFails
  <2>3. CASE Listen
    BY <2>3 DEF Listen, Request, RequestRefused, Answer, GiveUp, ListenerFails
  <2>4. CASE ShowWindow \/ WindowExits \/ Exit
    BY <2>4 DEF ShowWindow, WindowExits, Exit
  <2>5. CASE UNCHANGED vars
    BY <2>5 DEF vars
  <2> QED
    BY <1>4, <2>1, <2>2, <2>3, <2>4, <2>5 DEF Next
<1> QED
  BY <1>1, <1>2, <1>3, <1>4

-----------------------------------------------------------------------------
(* The bound on restarts: exits are a delay apart, full bursts a period.    *)

\* Any two exits are as many delays apart as there are restarts between them.
SpacedBy(all, delay) ==
  \A i, j \in 1..Len(all) : i <= j => all[i] >= all[j] + (j - i) * delay

\* The time of a full burst, with the cooldown in it.
Period == Cooldown + (BurstLimit - 1) * Delay

\* Exits that are k bursts apart are k periods apart.
BurstsApart(all) ==
  \A i \in 1..Len(all), k \in 0..Len(all) :
    i + k * BurstLimit <= Len(all) => all[i] >= all[i + k * BurstLimit] + k * Period

\* As far back as both histories go, they are the same.
Agree(kept, all) ==
  \A i \in 1..Len(kept) : Len(kept) - i < Len(all) => kept[i] = all[Len(all) - (Len(kept) - i)]

\* What the watchdog still has to sleep before it starts the next server.
ToSleep == IF watchdog = "sleeping" THEN sleep ELSE 0

\* When the next server starts, the last exit is a delay ago, or a cooldown if
\* the watchdog has forgotten it.
Rested ==
  watchdog # "stopped" /\ Len(ghost.exits) > 0 =>
    /\ ghost.exits[Len(ghost.exits)] + ToSleep >= Delay
    /\ Len(recent) = 0 => ghost.exits[Len(ghost.exits)] + ToSleep >= Cooldown

\* The watchdog forgot a young exit only to cool down after it.
CooledDown ==
  Len(ghost.exits) > Len(recent) /\ Len(recent) > 0 =>
    ghost.exits[Len(ghost.exits) - Len(recent)]
      >= ghost.exits[Len(ghost.exits) - Len(recent) + 1] + Cooldown

\* No exit in the history is older than the window.
Young(all) == \A i \in 1..Len(all) : all[i] <= Window

\* Inductive with IndInv: the bound needs the exact spacing of the exits, and
\* that the watchdog's own history agrees with them.
BurstInv ==
  /\ Young(ghost.exits)
  /\ SpacedBy(ghost.exits, Delay)
  /\ BurstsApart(ghost.exits)
  /\ Agree(recent, ghost.exits)
  /\ Rested
  /\ CooledDown

\* What the arithmetic on delays and periods needs of multiplication.
LEMMA Multiples ==
  /\ \A k \in Nat : k * BurstLimit \in Nat /\ k * Period \in Nat /\ k * Delay \in Nat
  /\ \A k \in Nat : (k + 1) * BurstLimit = k * BurstLimit + BurstLimit
                  /\ (k + 1) * Period = k * Period + Period
                  /\ (k + 1) * Delay = k * Delay + Delay
  /\ \A j, k \in Nat : (j + k) * Delay = j * Delay + k * Delay
  /\ Period \in Nat /\ Period = Cooldown + (BurstLimit - 1) * Delay
  /\ Period > 0
<1>1. BurstLimit \in Nat /\ Delay \in Nat /\ BurstLimit - 1 \in Nat /\ Cooldown \in Nat /\ Cooldown > 0
  BY TimesAssumption
<1>2. (BurstLimit - 1) * Delay \in Nat
  BY <1>1
<1>3. Period \in Nat /\ Period = Cooldown + (BurstLimit - 1) * Delay /\ Period > 0
  BY <1>1, <1>2 DEF Period
<1>4. \A k \in Nat : k * BurstLimit \in Nat /\ k * Period \in Nat /\ k * Delay \in Nat
  BY <1>1, <1>3
<1>5. \A k \in Nat : (k + 1) * BurstLimit = k * BurstLimit + BurstLimit
                  /\ (k + 1) * Period = k * Period + Period
                  /\ (k + 1) * Delay = k * Delay + Delay
  BY <1>1, <1>3
<1>6. \A j, k \in Nat : (j + k) * Delay = j * Delay + k * Delay
  BY <1>1
<1> QED
  BY <1>3, <1>4, <1>5, <1>6

\* A tick: the history without its old entries is a tick older.
LEMMA AgedExits ==
  ASSUME NEW all \in Seq(Ages), Young(all), SpacedBy(all, Delay),
         NEW new, new = PopOld(Older(all))
  PROVE  \E m \in 1..(Len(all) + 1) :
           /\ new \in Seq(Ages)
           /\ Len(new) = Len(all) + 1 - m
           /\ \A i \in 1..Len(new) : new[i] = all[m - 1 + i] + 1
           /\ Young(new)
<1> DEFINE old == Older(all)
<1>1. old \in Seq(Ages) /\ Len(old) = Len(all) /\ Len(all) \in Nat
  BY OlderLemma, LenProperties
<1>2. \A i \in 1..Len(all) : all[i] <= Window /\ old[i] = all[i] + 1 /\ all[i] \in Nat
  BY LenProperties, ElementOfSeq, TimesAssumption DEF Older, Young, Ages
<1>0. new = PopOld(old)
  BY DEF old
<1> HIDE DEF old
<1>3. PICK m \in 1..(Len(old) + 1) :
        /\ Len(new) = Len(old) + 1 - m
        /\ \A i \in 1..Len(new) : new[i] = old[m - 1 + i]
        /\ m <= Len(old) => old[m] <= Window
  BY <1>0, <1>1, PopOldSuffix
<1>4. new \in Seq(Ages)
  BY <1>0, <1>1, PopOldLemma
<1>l. Len(new) \in Nat /\ Len(new) = Len(all) + 1 - m /\ m \in 1..(Len(all) + 1)
  BY <1>1, <1>3
<1>5. ASSUME NEW i \in 1..Len(new)
      PROVE  m - 1 + i \in 1..Len(all) /\ new[i] = all[m - 1 + i] + 1
  <2>1. m - 1 + i \in 1..Len(all)
    BY <1>1, <1>l
  <2>2. new[i] = old[m - 1 + i]
    BY <1>3
  <2> QED
    BY <1>2, <2>1, <2>2
<1>6. ASSUME NEW i \in 1..Len(new) PROVE new[i] <= Window
  <2> DEFINE t == (i - 1) * Delay
  <2>1. m \in 1..Len(all) /\ m - 1 + i \in 1..Len(all) /\ m <= m - 1 + i /\ i - 1 \in Nat
    BY <1>1, <1>l, <1>5
  <2>2. all[m] >= all[m - 1 + i] + ((m - 1 + i) - m) * Delay
    BY <2>1 DEF SpacedBy
  <2>3. (m - 1 + i) - m = i - 1
    BY <1>l
  <2>4. t \in Nat /\ all[m] >= all[m - 1 + i] + t
    BY <2>1, <2>2, <2>3, Multiples
  <2>5. old[m] <= Window /\ old[m] = all[m] + 1 /\ new[i] = all[m - 1 + i] + 1
    BY <1>1, <1>2, <1>3, <1>5, <2>1
  <2>6. all[m] \in Nat /\ all[m - 1 + i] \in Nat /\ Window \in Nat
    BY <1>2, <2>1, TimesAssumption
  <2> HIDE DEF t
  <2> QED
    BY <2>4, <2>5, <2>6
<1>7. Young(new)
  BY <1>6 DEF Young
<1>8. \A i \in 1..Len(new) : new[i] = all[m - 1 + i] + 1
  BY <1>5
<1> QED
  BY <1>l, <1>4, <1>7, <1>8

\* Tick ages every exit, wakes the watchdog and forgets exits that left the window.
LEMMA TickBurst == IndInv /\ BurstInv /\ Tick => BurstInv'
<1> SUFFICES ASSUME IndInv, BurstInv, Tick PROVE BurstInv'
  OBVIOUS
<1> DEFINE all == ghost.exits
           new == ghost'.exits
<1>1. /\ recent \in Seq(Ages) /\ all \in Seq(Ages)
      /\ new = PopOld(Older(all)) /\ recent' = Older(recent)
      /\ watchdog' = watchdog /\ sleep' = Less(sleep) /\ sleep \in Nat
  BY TimesAssumption DEF IndInv, TypeOK, Tick
<1>2. Young(all) /\ SpacedBy(all, Delay) /\ BurstsApart(all) /\ Agree(recent, all)
  BY DEF BurstInv
<1>3. PICK m \in 1..(Len(all) + 1) :
        /\ new \in Seq(Ages)
        /\ Len(new) = Len(all) + 1 - m
        /\ \A i \in 1..Len(new) : new[i] = all[m - 1 + i] + 1
        /\ Young(new)
  BY <1>1, <1>2, AgedExits
<1>4. /\ Len(all) \in Nat /\ Len(new) \in Nat /\ Len(recent) \in Nat /\ Len(recent') = Len(recent)
      /\ \A i \in 1..Len(all) : all[i] \in Nat /\ all[i] <= Window
      /\ \A i \in 1..Len(new) : new[i] \in Nat /\ m - 1 + i \in 1..Len(all)
      /\ \A i \in 1..Len(recent) :
           recent'[i] = IF recent[i] <= Window THEN recent[i] + 1 ELSE recent[i]
  <2>1. /\ Len(all) \in Nat /\ Len(new) \in Nat /\ Len(recent) \in Nat /\ Len(recent') = Len(recent)
        /\ \A i \in 1..Len(recent) :
             recent'[i] = IF recent[i] <= Window THEN recent[i] + 1 ELSE recent[i]
    BY <1>1, <1>3, LenProperties, OlderLemma DEF Older
  <2>2. /\ \A i \in 1..Len(all) : all[i] \in Nat /\ all[i] <= Window
        /\ \A i \in 1..Len(new) : new[i] \in Nat
    <3>1. \A i \in 1..Len(all) : all[i] \in Ages
      BY <1>1, ElementOfSeq
    <3>2. \A i \in 1..Len(new) : new[i] \in Ages
      BY <1>3, ElementOfSeq
    <3> QED
      BY <1>2, <3>1, <3>2, TimesAssumption DEF Young, Ages
  <2> QED
    BY <1>3, <2>1, <2>2
<1> HIDE DEF all, new
<1>5. SpacedBy(new, Delay)
  <2> SUFFICES ASSUME NEW i \in 1..Len(new), NEW j \in 1..Len(new), i <= j
               PROVE  new[i] >= new[j] + (j - i) * Delay
    BY DEF SpacedBy
  <2>1. m - 1 + i \in 1..Len(all) /\ m - 1 + j \in 1..Len(all) /\ m - 1 + i <= m - 1 + j
    BY <1>3, <1>4
  <2>2. all[m - 1 + i] >= all[m - 1 + j] + ((m - 1 + j) - (m - 1 + i)) * Delay
    BY <1>2, <2>1 DEF SpacedBy
  <2>3. (m - 1 + j) - (m - 1 + i) = j - i /\ j - i \in Nat
    BY <1>4
  <2> DEFINE t == (j - i) * Delay
  <2>4. t \in Nat /\ all[m - 1 + i] >= all[m - 1 + j] + t
    BY <2>2, <2>3, Multiples
  <2>5. /\ new[i] = all[m - 1 + i] + 1 /\ new[j] = all[m - 1 + j] + 1
        /\ all[m - 1 + i] \in Nat /\ all[m - 1 + j] \in Nat
    BY <1>3, <1>4, <2>1
  <2> HIDE DEF t
  <2>6. new[i] >= new[j] + t
    BY <2>4, <2>5
  <2> QED
    BY <2>6 DEF t
<1>6. BurstsApart(new)
  <2> SUFFICES ASSUME NEW i \in 1..Len(new), NEW k \in 0..Len(new), i + k * BurstLimit <= Len(new)
               PROVE  new[i] >= new[i + k * BurstLimit] + k * Period
    BY DEF BurstsApart
  <2>1. k \in Nat /\ k \in 0..Len(all) /\ k * BurstLimit \in Nat /\ k * Period \in Nat
    BY <1>3, <1>4, Multiples
  <2> DEFINE b == k * BurstLimit
             t == k * Period
  <2> HIDE DEF b, t
  <2>2. b \in Nat /\ t \in Nat /\ i + b <= Len(new)
    BY <2>1 DEF b, t
  <2>3. i + b \in 1..Len(new) /\ m - 1 + i \in 1..Len(all) /\ (m - 1 + i) + b <= Len(all)
          /\ (m - 1 + i) + b = m - 1 + (i + b)
    BY <1>3, <1>4, <2>2
  <2>4. all[m - 1 + i] >= all[(m - 1 + i) + b] + t
    BY <1>2, <2>1, <2>3 DEF BurstsApart, b, t
  <2>5. new[i] = all[m - 1 + i] + 1 /\ new[i + b] = all[(m - 1 + i) + b] + 1
    BY <1>3, <2>3
  <2>7. all[m - 1 + i] \in Nat /\ all[(m - 1 + i) + b] \in Nat
    BY <1>4, <2>3
  <2>6. new[i] >= new[i + b] + t
    BY <2>2, <2>4, <2>5, <2>7
  <2> QED
    BY <2>6 DEF b, t
<1>7. Agree(recent', new)
  <2> SUFFICES ASSUME NEW i \in 1..Len(recent), Len(recent) - i < Len(new)
               PROVE  recent'[i] = new[Len(new) - (Len(recent) - i)]
    BY <1>4 DEF Agree
  <2>1. Len(recent) - i < Len(all)
    BY <1>3, <1>4
  <2>2. recent[i] = all[Len(all) - (Len(recent) - i)]
    BY <1>2, <2>1 DEF Agree
  <2>3. /\ Len(new) - (Len(recent) - i) \in 1..Len(new)
        /\ m - 1 + (Len(new) - (Len(recent) - i)) = Len(all) - (Len(recent) - i)
    BY <1>3, <1>4
  <2>4. new[Len(new) - (Len(recent) - i)] = all[Len(all) - (Len(recent) - i)] + 1
    BY <1>3, <2>3
  <2>5. recent[i] <= Window
    BY <1>4, <2>1, <2>2
  <2> QED
    BY <1>4, <2>2, <2>4, <2>5
<1>8. Rested'
  <2> SUFFICES ASSUME watchdog # "stopped", Len(new) > 0
               PROVE  /\ new[Len(new)] + ToSleep' >= Delay
                      /\ Len(recent) = 0 => new[Len(new)] + ToSleep' >= Cooldown
    BY <1>1, <1>4 DEF Rested, new
  <2>1. Len(new) \in 1..Len(new) /\ m - 1 + Len(new) = Len(all) /\ Len(all) > 0
          /\ Len(all) \in 1..Len(all)
    BY <1>3, <1>4
  <2>2. new[Len(new)] = all[Len(all)] + 1
    BY <1>3, <2>1
  <2>3. /\ all[Len(all)] + ToSleep >= Delay
        /\ Len(recent) = 0 => all[Len(all)] + ToSleep >= Cooldown
    BY <2>1 DEF BurstInv, Rested, all
  <2>4. ToSleep \in Nat /\ ToSleep' \in Nat /\ ToSleep' + 1 >= ToSleep
    BY <1>1 DEF ToSleep, Less
  <2>5. all[Len(all)] \in Nat /\ Delay \in Nat /\ Cooldown \in Nat
    BY <1>4, <2>1, TimesAssumption
  <2> DEFINE before == ToSleep
             after  == ToSleep'
  <2> HIDE DEF before, after
  <2>6. before \in Nat /\ after \in Nat /\ after + 1 >= before
    BY <2>4 DEF before, after
  <2>7. \A x \in Nat : all[Len(all)] + before >= x => new[Len(new)] + after >= x
    BY <2>2, <2>5, <2>6
  <2> QED
    BY <2>3, <2>5, <2>7 DEF before, after
<1>9. CooledDown'
  <2> SUFFICES ASSUME Len(new) > Len(recent), Len(recent) > 0
               PROVE  new[Len(new) - Len(recent)] >= new[Len(new) - Len(recent) + 1] + Cooldown
    BY <1>4 DEF CooledDown, new
  <2>1. /\ Len(new) - Len(recent) \in 1..Len(new) /\ Len(new) - Len(recent) + 1 \in 1..Len(new)
        /\ m - 1 + (Len(new) - Len(recent)) = Len(all) - Len(recent)
        /\ m - 1 + (Len(new) - Len(recent) + 1) = Len(all) - Len(recent) + 1
        /\ Len(all) > Len(recent)
    BY <1>3, <1>4
  <2>2. all[Len(all) - Len(recent)] >= all[Len(all) - Len(recent) + 1] + Cooldown
    BY <2>1 DEF BurstInv, CooledDown, all
  <2>3. /\ new[Len(new) - Len(recent)] = all[Len(all) - Len(recent)] + 1
        /\ new[Len(new) - Len(recent) + 1] = all[Len(all) - Len(recent) + 1] + 1
    BY <1>3, <2>1
  <2>4. Len(all) - Len(recent) \in 1..Len(all) /\ Len(all) - Len(recent) + 1 \in 1..Len(all)
    BY <1>4, <2>1
  <2>5. /\ all[Len(all) - Len(recent)] \in Nat /\ all[Len(all) - Len(recent) + 1] \in Nat
        /\ Cooldown \in Nat
    BY <1>4, <2>4, TimesAssumption
  <2> QED
    BY <2>2, <2>3, <2>5
<1>10. Young(new)
  BY <1>3
<1> QED
  BY <1>5, <1>6, <1>7, <1>8, <1>9, <1>10 DEF BurstInv, new

\* As many exits as make a full burst, and the one that is noticed now, take a period.
LEMMA FullBurst ==
  ASSUME NEW n \in Nat, NEW r \in Nat, r < BurstLimit, NEW all,
         \A i \in 1..n : all[i] \in Nat,
         \A i, j \in 1..n : i <= j => all[i] >= all[j] + (j - i) * Delay,
         n > 0 => all[n] >= Delay,
         n > 0 /\ r = 0 => all[n] >= Cooldown,
         n > r /\ r > 0 => all[n - r] >= all[n - r + 1] + Cooldown,
         NEW j \in 1..n, j + BurstLimit = n + 1
  PROVE  all[j] >= Period
<1>0. BurstLimit \in Nat /\ Delay \in Nat /\ Cooldown \in Nat /\ n - j = BurstLimit - 1
        /\ n \in 1..n /\ n > r /\ BurstLimit - 1 \in Nat
  BY TimesAssumption
<1> DEFINE t == (BurstLimit - 1) * Delay
<1>1. t \in Nat /\ Period = Cooldown + t
  BY <1>0, Multiples
<1>2. CASE r = 0
  <2>1. all[j] >= all[n] + (n - j) * Delay /\ all[n] >= Cooldown
    BY <1>0, <1>2
  <2>2. (n - j) * Delay = t
    BY <1>0
  <2>3. all[j] >= all[n] + t
    BY <2>1, <2>2
  <2>4. all[j] \in Nat /\ all[n] \in Nat
    BY <1>0
  <2> HIDE DEF t
  <2> QED
    BY <1>0, <1>1, <2>1, <2>3, <2>4
<1>3. CASE r > 0
  <2> DEFINE m == n - r
             before == (m - j) * Delay
             behind == (n - (m + 1)) * Delay
  <2>1. m \in 1..n /\ m + 1 \in 1..n /\ j <= m /\ m + 1 <= n /\ m - j \in Nat /\ n - (m + 1) \in Nat
          /\ (m - j) + (n - (m + 1)) + 1 = BurstLimit - 1
    BY <1>0, <1>3
  <2>2. all[m] >= all[m + 1] + Cooldown /\ all[n] >= Delay
    BY <1>0, <1>3
  <2> HIDE DEF m
  <2>3. all[j] >= all[m] + before /\ all[m + 1] >= all[n] + behind
    BY <1>0, <2>1
  <2>4. before \in Nat /\ behind \in Nat
    BY <2>1, Multiples
  <2>5. before + behind + Delay = t
    <3>1. ((m - j) + (n - (m + 1))) * Delay = before + behind
      BY <2>1, Multiples
    <3>2. ((m - j) + (n - (m + 1)) + 1) * Delay = ((m - j) + (n - (m + 1))) * Delay + Delay
      BY <2>1, Multiples
    <3>3. ((m - j) + (n - (m + 1)) + 1) * Delay = t
      BY <2>1
    <3> HIDE DEF before, behind, t
    <3> QED
      BY <3>1, <3>2, <3>3
  <2>6. all[j] \in Nat /\ all[m] \in Nat /\ all[m + 1] \in Nat /\ all[n] \in Nat
    BY <1>0, <2>1
  <2> HIDE DEF before, behind, t
  <2> QED
    BY <1>0, <1>1, <2>2, <2>3, <2>4, <2>5, <2>6
<1> QED
  BY <1>2, <1>3

\* One more exit, at least a delay after the one before it.
LEMMA OneMoreSpaced ==
  ASSUME NEW n \in Nat, NEW all, NEW new, Len(all) = n, Len(new) = n + 1,
         \A i \in 1..n : all[i] \in Nat /\ new[i] = all[i],
         new[n + 1] = 0, SpacedBy(all, Delay),
         n > 0 => all[n] >= Delay
  PROVE  SpacedBy(new, Delay)
<1> SUFFICES ASSUME NEW i \in 1..(n + 1), NEW j \in 1..(n + 1), i <= j
             PROVE  new[i] >= new[j] + (j - i) * Delay
  BY DEF SpacedBy
<1>0. Delay \in Nat
  BY TimesAssumption
<1>1. CASE j <= n
  <2>1. i \in 1..n /\ j \in 1..n
    BY <1>1
  <2> QED
    BY <2>1 DEF SpacedBy
<1>2. CASE j = n + 1 /\ i = n + 1
  <2>1. j - i = 0 /\ 0 * Delay = 0
    BY <1>0, <1>2
  <2> QED
    BY <1>2, <2>1
<1>3. CASE j = n + 1 /\ i <= n
  <2> DEFINE t == (n - i) * Delay
  <2>1. i \in 1..n /\ n \in 1..n /\ n - i \in Nat /\ j - i = (n - i) + 1 /\ n > 0
    BY <1>3
  <2>2. all[i] >= all[n] + t
    BY <2>1 DEF SpacedBy
  <2>3. t \in Nat /\ (j - i) * Delay = t + Delay
    BY <2>1, Multiples
  <2>4. all[i] \in Nat /\ all[n] \in Nat /\ new[i] = all[i] /\ all[n] >= Delay
    BY <2>1
  <2> HIDE DEF t
  <2>5. new[i] >= 0 + (t + Delay)
    BY <1>0, <2>2, <2>3, <2>4
  <2> QED
    BY <1>3, <2>3, <2>5
<1> QED
  BY <1>1, <1>2, <1>3

\* One more exit, a period after the one a burst before it.
LEMMA OneMoreBurst ==
  ASSUME NEW n \in Nat, NEW all, NEW new, Len(all) = n, Len(new) = n + 1,
         \A i \in 1..n : all[i] \in Nat /\ new[i] = all[i],
         new[n + 1] = 0, BurstsApart(all),
         \A j \in 1..n : j + BurstLimit = n + 1 => all[j] >= Period
  PROVE  BurstsApart(new)
<1> SUFFICES ASSUME NEW i \in 1..(n + 1), NEW k \in 0..(n + 1), i + k * BurstLimit <= n + 1
             PROVE  new[i] >= new[i + k * BurstLimit] + k * Period
  BY DEF BurstsApart
<1>0. BurstLimit \in Nat /\ BurstLimit >= 1 /\ Period \in Nat
  BY TimesAssumption, Multiples
<1>1. CASE k = 0
  <2>1. 0 * BurstLimit = 0 /\ 0 * Period = 0
    BY <1>0
  <2>2. new[i] \in Nat
    <3>1. i \in 1..n \/ i = n + 1
      OBVIOUS
    <3> QED
      BY <3>1
  <2>3. i + 0 = i
    OBVIOUS
  <2> QED
    BY <1>1, <2>1, <2>2, <2>3
<1>2. CASE k # 0
  <2> DEFINE h == k - 1
             b == h * BurstLimit
             t == h * Period
  <2>1. h \in Nat /\ h + 1 = k
    BY <1>2
  <2>2. b \in Nat /\ t \in Nat /\ k * BurstLimit = b + BurstLimit /\ k * Period = t + Period
    BY <2>1, Multiples
  <2>3. h <= b
    <3>1. BurstLimit - 1 \in Nat /\ h * (BurstLimit - 1) \in Nat
      BY <1>0, <2>1
    <3>2. h * BurstLimit = h * (BurstLimit - 1) + h
      BY <1>0, <2>1
    <3> HIDE DEF h
    <3> QED
      BY <2>1, <3>1, <3>2
  <2> HIDE DEF b, t
  <2>4. i + b + BurstLimit <= n + 1 /\ k <= n /\ i \in 1..n /\ i + b \in 1..n /\ h \in 0..n /\ k \in 0..n
    BY <1>0, <2>1, <2>2, <2>3
  <2>5. CASE i + b + BurstLimit <= n
    <3>1. i + k * BurstLimit \in 1..n
      BY <1>0, <2>2, <2>4, <2>5
    <3>2. all[i] >= all[i + k * BurstLimit] + k * Period
      BY <2>4, <3>1 DEF BurstsApart
    <3> QED
      BY <2>4, <3>1, <3>2
  <2>6. CASE i + b + BurstLimit = n + 1
    <3>1. all[i + b] >= Period
      BY <2>4, <2>6
    <3>2. all[i] >= all[i + b] + t
      BY <2>4 DEF BurstsApart, b, t
    <3>3. all[i] \in Nat /\ all[i + b] \in Nat /\ new[i] = all[i]
      BY <2>4
    <3>4. i + k * BurstLimit = n + 1
      BY <1>0, <2>2, <2>4, <2>6
    <3>5. new[i] >= 0 + (t + Period)
      BY <1>0, <2>2, <3>1, <3>2, <3>3
    <3> QED
      BY <2>2, <3>4, <3>5
  <2> QED
    BY <1>0, <2>2, <2>4, <2>5, <2>6
<1> QED
  BY <1>1, <1>2

\* The history in which the exit that is noticed now is entered.
LEMMA AppendAgrees ==
  ASSUME NEW kept \in Seq(Ages), NEW all \in Seq(Ages), Agree(kept, all), NEW age \in Ages
  PROVE  Agree(Append(kept, age), Append(all, age))
<1> DEFINE k == Append(kept, age)
           a == Append(all, age)
<1>1. /\ Len(kept) \in Nat /\ Len(all) \in Nat
      /\ Len(k) = Len(kept) + 1 /\ Len(a) = Len(all) + 1
      /\ \A i \in 1..Len(kept) : k[i] = kept[i]
      /\ \A i \in 1..Len(all) : a[i] = all[i]
      /\ k[Len(kept) + 1] = age /\ a[Len(all) + 1] = age
  BY LenProperties, AppendProperties
<1> HIDE DEF k, a
<1>2. ASSUME NEW i \in 1..Len(k), Len(k) - i < Len(a)
      PROVE  k[i] = a[Len(a) - (Len(k) - i)]
  <2>1. CASE i = Len(k)
    <3>1. Len(a) - (Len(k) - i) = Len(all) + 1 /\ i = Len(kept) + 1
      BY <1>1, <2>1
    <3> QED
      BY <1>1, <3>1
  <2>2. CASE i # Len(k)
    <3>1. i \in 1..Len(kept) /\ Len(kept) - i < Len(all)
            /\ Len(all) - (Len(kept) - i) \in 1..Len(all)
            /\ Len(a) - (Len(k) - i) = Len(all) - (Len(kept) - i)
      BY <1>1, <1>2, <2>2
    <3>2. kept[i] = all[Len(all) - (Len(kept) - i)]
      BY <3>1 DEF Agree
    <3> QED
      BY <1>1, <3>1, <3>2
  <2> QED
    BY <2>1, <2>2
<1>3. Agree(k, a)
  BY <1>2 DEF Agree
<1> QED
  BY <1>3 DEF k, a

\* The exit that is noticed now: what the watchdog goes on to count, and that
\* it forgets only exits that are not in the window any more.
LEMMA Counted ==
  ASSUME NEW kept \in Seq(Ages), NEW all \in Seq(Ages), Agree(kept, all), Young(all),
         NEW now, now = PopOld(Append(kept, 0)), NEW new, new = Append(all, 0)
  PROVE  /\ now \in Seq(Ages) /\ new \in Seq(Ages)
         /\ Agree(now, new)
         /\ Len(now) > 0
         /\ Len(now) = Len(kept) + 1 \/ Len(new) <= Len(now)
<1>0. 0 \in Ages /\ Window \in Nat
  BY TimesAssumption DEF Ages
<1> DEFINE ages == Append(kept, 0)
<1>1. /\ Len(kept) \in Nat /\ Len(all) \in Nat /\ ages \in Seq(Ages) /\ new \in Seq(Ages)
      /\ Len(ages) = Len(kept) + 1 /\ Len(new) = Len(all) + 1
      /\ \A i \in 1..Len(kept) : ages[i] = kept[i]
      /\ \A i \in 1..Len(all) : new[i] = all[i]
      /\ ages[Len(kept) + 1] = 0
  BY <1>0, LenProperties, AppendProperties
<1>2. Agree(ages, new)
  BY <1>0, AppendAgrees
<1>3. now = PopOld(ages)
  OBVIOUS
<1>a. ages \in Seq(Ages)
  BY <1>1
<1> HIDE DEF ages
<1>4. PICK m \in 1..(Len(ages) + 1) :
        /\ Len(now) = Len(ages) + 1 - m
        /\ \A i \in 1..Len(now) : now[i] = ages[m - 1 + i]
        /\ \A i \in 1..Len(ages) : ages[i] <= Window => m <= i
        /\ m <= Len(ages) => ages[m] <= Window
  BY <1>a, <1>3, PopOldSuffix
<1>5. now \in Seq(Ages)
  BY <1>1, <1>3, PopOldLemma
<1>6. m <= Len(ages)
  BY <1>0, <1>1, <1>4
<1>7. Len(now) \in Nat /\ Len(now) > 0
  BY <1>1, <1>4, <1>6
<1>8. Agree(now, new)
  <2> SUFFICES ASSUME NEW i \in 1..Len(now), Len(now) - i < Len(new)
               PROVE  now[i] = new[Len(new) - (Len(now) - i)]
    BY DEF Agree
  <2>1. m - 1 + i \in 1..Len(ages) /\ Len(ages) - (m - 1 + i) = Len(now) - i
    BY <1>1, <1>4, <1>7
  <2>2. ages[m - 1 + i] = new[Len(new) - (Len(ages) - (m - 1 + i))]
    BY <1>2, <2>1 DEF Agree
  <2> QED
    BY <1>4, <2>1, <2>2
<1>9. Len(now) = Len(kept) + 1 \/ Len(new) <= Len(now)
  <2> SUFFICES ASSUME m > 1, Len(kept) - (m - 1) < Len(all) PROVE FALSE
    BY <1>1, <1>4, <1>7
  <2>1. m - 1 \in 1..Len(kept) /\ m - 1 \in 1..Len(ages)
          /\ Len(all) - (Len(kept) - (m - 1)) \in 1..Len(all)
    BY <1>1, <1>6
  <2>2. kept[m - 1] = all[Len(all) - (Len(kept) - (m - 1))]
    BY <2>1 DEF Agree
  <2>3. ages[m - 1] <= Window
    BY <1>1, <2>1, <2>2 DEF Young
  <2>4. m <= m - 1
    BY <1>4, <2>1, <2>3
  <2> QED
    BY <2>4
<1> QED
  BY <1>1, <1>5, <1>7, <1>8, <1>9

\* restart_delay_after_server_exit enters the exit and chooses the sleep.
LEMMA NoticeBurst == IndInv /\ BurstInv /\ NoticeExit => BurstInv'
<1> SUFFICES ASSUME IndInv, BurstInv, NoticeExit PROVE BurstInv'
  OBVIOUS
<1> DEFINE all == ghost.exits
           new == ghost'.exits
           now == PopOld(Append(recent, 0))
           n   == Len(all)
           r   == Len(recent)
<1>1. /\ recent \in Seq(Ages) /\ all \in Seq(Ages) /\ r < BurstLimit
      /\ watchdog = "watching" /\ watchdog' = "sleeping"
      /\ new = Append(all, 0)
      /\ IF Len(now) >= BurstLimit
           THEN recent' = <<>> /\ sleep' = Cooldown
           ELSE recent' = now /\ sleep' = Delay
  BY DEF IndInv, TypeOK, NoticeExit
<1>2. Young(all) /\ SpacedBy(all, Delay) /\ BurstsApart(all) /\ Agree(recent, all)
  BY DEF BurstInv
<1>3. /\ now \in Seq(Ages) /\ new \in Seq(Ages)
      /\ Agree(now, new)
      /\ Len(now) > 0
      /\ Len(now) = r + 1 \/ Len(new) <= Len(now)
  BY <1>1, <1>2, Counted
<1>4. /\ n > 0 => all[n] >= Delay
      /\ n > 0 /\ r = 0 => all[n] >= Cooldown
  <2>a. n \in Nat /\ \A i \in 1..n : all[i] \in Ages
    BY <1>1, LenProperties, ElementOfSeq
  <2>1. n > 0 => n \in 1..n /\ all[n] \in Nat
    BY <2>a, TimesAssumption DEF Ages
  <2>2. n > 0 => /\ all[n] + 0 >= Delay
                 /\ r = 0 => all[n] + 0 >= Cooldown
    BY <1>1 DEF BurstInv, Rested, ToSleep
  <2> QED
    BY <2>1, <2>2
<1>5. n > r /\ r > 0 => all[n - r] >= all[n - r + 1] + Cooldown
  BY DEF BurstInv, CooledDown
<1>6. /\ n \in Nat /\ r \in Nat /\ Len(now) \in Nat /\ Len(new) = n + 1
      /\ \A i \in 1..n : all[i] \in Nat /\ new[i] = all[i]
      /\ new[n + 1] = 0
      /\ Delay \in Nat /\ Cooldown \in Nat /\ Window \in Nat /\ Delay < Cooldown
  <2>1. n \in Nat /\ r \in Nat /\ Len(now) \in Nat
    BY <1>1, <1>3, LenProperties
  <2>2. \A i \in 1..n : all[i] \in Ages
    BY <1>1, ElementOfSeq
  <2>3. 0 \in Ages
    BY TimesAssumption DEF Ages
  <2>4. Len(new) = n + 1 /\ new[n + 1] = 0 /\ \A i \in 1..n : new[i] = all[i]
    BY <1>1, <2>3, LenProperties, AppendProperties
  <2> QED
    BY <2>1, <2>2, <2>4, TimesAssumption DEF Ages
<1> HIDE DEF all, new, now, r
<1>7. \A j \in 1..n : j + BurstLimit = n + 1 => all[j] >= Period
  <2>1. \A i \in 1..n : all[i] \in Nat
    BY <1>6
  <2>2. \A i, j \in 1..n : i <= j => all[i] >= all[j] + (j - i) * Delay
    BY <1>2 DEF SpacedBy
  <2> QED
    BY <1>1, <1>4, <1>5, <1>6, <2>1, <2>2, FullBurst
<1>8. SpacedBy(new, Delay)
  BY <1>2, <1>4, <1>6, OneMoreSpaced
<1>9. BurstsApart(new)
  BY <1>2, <1>6, <1>7, OneMoreBurst
<1>10. Young(new)
  <2> SUFFICES ASSUME NEW i \in 1..(n + 1) PROVE new[i] <= Window
    BY <1>6 DEF Young
  <2>1. CASE i \in 1..n
    BY <1>2, <1>6, <2>1 DEF Young
  <2>2. CASE i = n + 1
    BY <1>6, <2>2
  <2> QED
    BY <1>6, <2>1, <2>2
<1>11. CASE Len(now) >= BurstLimit
  <2>1. recent' = <<>> /\ sleep' = Cooldown /\ Len(recent') = 0
    BY <1>1, <1>11
  <2>2. Agree(recent', new)
    BY <2>1 DEF Agree
  <2>3. Rested'
    BY <1>1, <1>6, <2>1 DEF Rested, ToSleep, new
  <2>4. CooledDown'
    BY <2>1 DEF CooledDown
  <2> QED
    BY <1>8, <1>9, <1>10, <2>2, <2>3, <2>4 DEF BurstInv, new
<1>12. CASE ~(Len(now) >= BurstLimit)
  <2>1. recent' = now /\ sleep' = Delay
    BY <1>1, <1>12
  <2>2. Agree(recent', new)
    BY <1>3, <2>1
  <2>3. Rested'
    BY <1>1, <1>3, <1>6, <2>1 DEF Rested, ToSleep, new
  <2>4. CooledDown'
    <3> SUFFICES ASSUME n + 1 > Len(now)
                 PROVE  new[n + 1 - Len(now)] >= new[n + 1 - Len(now) + 1] + Cooldown
      BY <1>6, <2>1 DEF CooledDown, new
    <3>1. Len(now) = r + 1
      BY <1>3, <1>6
    <3>2. n - r \in 1..n /\ n + 1 - Len(now) = n - r
      BY <1>6, <3>1
    <3>3. CASE r = 0
      <4>1. n \in 1..n /\ n + 1 - Len(now) = n /\ n + 1 - Len(now) + 1 = n + 1
        BY <1>6, <3>2, <3>3
      <4>2. all[n] >= Cooldown /\ new[n] = all[n] /\ all[n] \in Nat
        BY <1>4, <1>6, <3>3, <4>1
      <4>3. new[n] >= new[n + 1] + Cooldown
        BY <1>6, <4>2
      <4> QED
        BY <4>1, <4>3
    <3>4. CASE r > 0
      <4>1. n - r + 1 \in 1..n /\ n + 1 - Len(now) + 1 = n - r + 1 /\ n > r
        BY <1>6, <3>2, <3>4
      <4>2. all[n - r] >= all[n - r + 1] + Cooldown
        BY <1>5, <3>4, <4>1
      <4>3. new[n - r] = all[n - r] /\ new[n - r + 1] = all[n - r + 1]
        BY <1>6, <3>2, <4>1
      <4> QED
        BY <3>2, <4>1, <4>2, <4>3
    <3> QED
      BY <1>6, <3>3, <3>4
  <2> QED
    BY <1>8, <1>9, <1>10, <2>2, <2>3, <2>4 DEF BurstInv, new
<1> QED
  BY <1>11, <1>12

\* Before the first exit there is nothing to bound.
LEMMA InitBurst == Init => BurstInv
BY DEF Init, BurstInv, Young, SpacedBy, BurstsApart, Agree, Rested, CooledDown

\* No other step touches a history, or lets the watchdog sleep less.
LEMMA OthersBurst ==
  ASSUME IndInv, BurstInv, [Next]_vars, ~Tick, ~NoticeExit
  PROVE  BurstInv'
<1>1. /\ recent' = recent /\ ghost'.exits = ghost.exits
      /\ watchdog' # "stopped" => watchdog # "stopped" /\ ToSleep' = ToSleep
  <2> USE DEF IndInv, TypeOK, ToSleep
  <2>1. CASE ServerExits
    BY <2>1 DEF ServerExits
  <2>2. CASE Watch
    BY <2>2 DEF Watch, WatchStep, StartServer, StartFails, WatchFails, Wake, TakeCommand,
       Kill, KillFails, WatchdogStops
  <2>3. CASE Listen
    BY <2>3 DEF Listen, Request, RequestRefused, Answer, GiveUp, ListenerFails
  <2>4. CASE ShowWindow \/ WindowExits \/ Exit
    BY <2>4 DEF ShowWindow, WindowExits, Exit
  <2>5. CASE UNCHANGED vars
    BY <2>5 DEF vars
  <2> QED
    BY <2>1, <2>2, <2>3, <2>4, <2>5 DEF Next
<1>2. Rested'
  BY <1>1 DEF BurstInv, Rested
<1>3. CooledDown'
  BY <1>1 DEF BurstInv, CooledDown
<1> QED
  BY <1>1, <1>2, <1>3 DEF BurstInv

\* More exits than the bound would be in the window for longer than it lasts.
LEMMA BurstsBounded == IndInv /\ BurstInv => BurstIsBounded
<1> SUFFICES ASSUME IndInv, BurstInv PROVE BurstIsBounded
  OBVIOUS
<1> DEFINE all == ghost.exits
           n   == Len(all)
           q   == Window \div Period
           k   == 1 + q
           b   == k * BurstLimit
           t   == k * Period
<1>1. all \in Seq(Ages) /\ n \in Nat /\ \A i \in 1..n : all[i] \in Nat /\ all[i] <= Window
  <2>1. all \in Seq(Ages)
    BY DEF IndInv, TypeOK
  <2>2. n \in Nat /\ \A i \in 1..n : all[i] \in Ages
    BY <2>1, LenProperties, ElementOfSeq
  <2> QED
    BY <2>1, <2>2 DEF BurstInv, Young, Ages
<1>2. Window \in Nat /\ BurstLimit \in Nat /\ BurstLimit >= 1 /\ Period \in Nat /\ Period > 0
  BY TimesAssumption, Multiples
<1>3. q \in Nat /\ Window < q * Period + Period
  BY <1>2
<1>4. k \in Nat /\ b \in Nat /\ t \in Nat /\ Window < t
  <2>1. q \in Nat /\ k = q + 1
    BY <1>3
  <2> HIDE DEF q
  <2>2. t = q * Period + Period
    BY <2>1, Multiples
  <2>3. k \in Nat
    BY <2>1
  <2>4. b \in Nat /\ t \in Nat
    BY <2>3, Multiples
  <2> QED
    BY <1>3, <2>2, <2>3, <2>4
<1>5. k <= b
  <2>1. BurstLimit - 1 \in Nat /\ k * (BurstLimit - 1) \in Nat
    BY <1>2, <1>4
  <2>2. k * BurstLimit = k * (BurstLimit - 1) + k
    BY <1>2, <1>4
  <2> HIDE DEF k
  <2> QED
    BY <1>4, <2>1, <2>2
<1>6. n <= b
  <2> SUFFICES ASSUME n > b PROVE FALSE
    BY <1>1, <1>4
  <2> HIDE DEF k, b, t, all
  <2>1. 1 \in 1..n /\ 1 + b \in 1..n /\ k \in 0..n
    BY <1>1, <1>4, <1>5
  <2>2. all[1] >= all[1 + b] + t
    BY <2>1 DEF BurstInv, BurstsApart, b, t, all
  <2> QED
    BY <1>1, <1>2, <1>4, <2>1, <2>2
<1>7. BurstLimit * k = b
  BY <1>2, <1>4
<1> QED
  BY <1>6, <1>7 DEF BurstIsBounded, Period

-----------------------------------------------------------------------------
(* Theorems.                                                               *)

\* The launcher's variables keep their types; the restart history stays
\* shorter than the burst limit.
THEOREM LauncherTypes == Spec => []TypeOK
<1>1. IndInv => TypeOK
  BY DEF IndInv
<1> QED
  BY <1>1, Invariance, PTL

\* watch_server_process never starts a server beside a running one, and never
\* leaves a running one unwatched while it goes on.
THEOREM NeverTwoServers == Spec => []ServerIsWatched
<1>1. IndInv => ServerIsWatched
  BY DEF IndInv
<1> QED
  BY <1>1, Invariance, PTL

\* request_server_restart tells "ok" only when the server that ran when the
\* command came is gone, however many given-up commands are still queued.
THEOREM OkMeansRestarted == Spec => []OkIsTrue
<1>1. IndInv => OkIsTrue
  BY DEF IndInv
<1> QED
  BY <1>1, Invariance, PTL

\* restart_delay_after_server_exit sleeps for a cooldown only when as many
\* servers as the burst limit says have gone within the window, unasked.
THEOREM CooldownEarned == Spec => CooldownIsEarned
<1>1. Init => RecentInv
  BY DEF Init, RecentInv, Remembers
<1>2. IndInv /\ RecentInv /\ [Next]_vars => RecentInv'
  BY RecentInd
<1>3. IndInv /\ RecentInv /\ [Next]_vars
        => [sleep' = Cooldown /\ sleep # Cooldown => Len(ghost'.exits) >= BurstLimit]_vars
  BY RecentInd
<1> QED
  BY <1>1, <1>2, <1>3, Invariance, PTL DEF Spec, CooldownIsEarned

\* However often the server goes, restart_delay_after_server_exit keeps the
\* exits in the window, and with them the restarts, within a bound: every full
\* burst takes a cooldown and the delays before its restarts.
THEOREM RestartsAreBounded == Spec => []BurstIsBounded
<1>1. IndInv /\ BurstInv /\ [Next]_vars => BurstInv'
  BY TickBurst, NoticeBurst, OthersBurst
<1> QED
  BY <1>1, InitBurst, BurstsBounded, Invariance, PTL DEF Spec
=============================================================================
