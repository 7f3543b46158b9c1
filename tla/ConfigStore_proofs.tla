------------------------- MODULE ConfigStore_proofs -------------------------
(***************************************************************************)
(* Proofs about ConfigStore, for any windows, launchers, callers, fields    *)
(* and names.                                                              *)
(***************************************************************************)
EXTENDS ConfigStore, TLAPS

\* The parsed settings are settings.
LEMMA ParsedType == TypeOK => Parsed \in SUBSET Fields
BY SMT DEF TypeOK, Parsed, Default

LEMMA JobType ==
  ASSUME NEW at \in {"idle", "corrupt", "named", "write"}, NEW on \in SUBSET Fields,
         NEW changes \in SUBSET Fields, NEW name \in Names \union {"none"}
  PROVE  Job(at, on, changes, name) \in Jobs
BY DEF Job, Jobs

LEMMA TurnType ==
  ASSUME NEW at \in {"idle", "inspected", "served", "failed"},
         NEW key \in Stamps \union {Unavailable}, NEW on \in SUBSET Fields
  PROVE  Turn(at, key, on) \in Turns
BY DEF Turn, Turns

LEMMA InitType == Init => TypeOK
<1> SUFFICES ASSUME Init PROVE TypeOK
  OBVIOUS
<1>1. PICK kind \in Kinds : file = [Missing EXCEPT !.kind = kind,
                                      !.stamp = IF kind = "missing" THEN 0 ELSE 1]
  BY DEF Init
<1>2. file = [kind |-> kind, on |-> {}, stamp |-> IF kind = "missing" THEN 0 ELSE 1]
  BY <1>1 DEF Missing, Default
<1>3. 0 \in Stamps /\ 1 \in Stamps
  BY ConfigAssumption DEF Stamps
<1>4. file \in [kind : Kinds, on : SUBSET Fields, stamp : Stamps]
        /\ (file.kind # "valid" => file.on = Default)
        /\ ((file.kind = "missing") <=> (file.stamp = 0))
  BY <1>2, <1>3 DEF Default
<1>5. writer \in [Writers -> Jobs]
  BY JobType DEF Init, Resting, Default
<1>6. backups \in [Names -> {"none", "corrupt", "valid"}] /\ stamp \in Stamps
        /\ cache \in [key : Stamps \union {Unavailable, NoKey}, on : SUBSET Fields]
  BY <1>3 DEF Init, Default
<1>7. caller \in [Callers -> Turns]
  BY <1>3 DEF Init, Default, Turn, Turns
<1>8. ghost \in [said : [Writers -> SUBSET SUBSET Fields], seen : [Callers -> SUBSET SUBSET Fields]]
  BY DEF Init
<1>9. QED
  BY <1>4, <1>5, <1>6, <1>7, <1>8 DEF TypeOK

\* Noting keeps the history's type.
LEMMA NotingType ==
  ASSUME TypeOK, NEW new, new.on \in SUBSET Fields
  PROVE  Noting(new) \in
           [said : [Writers -> SUBSET SUBSET Fields], seen : [Callers -> SUBSET SUBSET Fields]]
<1>1. /\ ghost.said \in [Writers -> SUBSET SUBSET Fields]
      /\ ghost.seen \in [Callers -> SUBSET SUBSET Fields]
  BY DEF TypeOK
<1>2. [c \in Callers |-> IF caller[c].at = "inspected"
                           THEN ghost.seen[c] \union {new.on} ELSE ghost.seen[c]]
        \in [Callers -> SUBSET SUBSET Fields]
  BY <1>1
<1>3. Told(new) \in SUBSET SUBSET Fields
  BY DEF Told
<1>4. [w \in Writers |-> IF writer'[w].at # "idle"
                           THEN ghost.said[w] \union Told(new) ELSE {}]
        \in [Writers -> SUBSET SUBSET Fields]
  BY <1>1, <1>3
<1>5. QED
  BY <1>2, <1>4 DEF Noting

\* What a writer is told of a file is settings.
LEMMA ToldType ==
  ASSUME TypeOK, NEW w \in Writers, NEW new \in SUBSET SUBSET Fields
  PROVE  [ghost EXCEPT !.said[w] = new] \in
           [said : [Writers -> SUBSET SUBSET Fields], seen : [Callers -> SUBSET SUBSET Fields]]
BY DEF TypeOK

\* A step of a writer keeps the types.
LEMMA WriterType ==
  ASSUME TypeOK, NEW w \in Writers, WriterStep(w)
  PROVE  TypeOK'
<1>0. /\ Parsed \in SUBSET Fields /\ Default \in SUBSET Fields /\ Resting \in Jobs
      /\ Told(file) \in SUBSET SUBSET Fields /\ {} \in SUBSET SUBSET Fields
  BY ParsedType, JobType DEF Resting, Default, Told, TypeOK
<1>1. CASE Load(w)
  <2>1. (IF file.kind = "corrupt" THEN "corrupt" ELSE "write") \in {"corrupt", "write"}
    OBVIOUS
  <2>2. Job(IF file.kind = "corrupt" THEN "corrupt" ELSE "write", Parsed, {}, "none") \in Jobs
    BY <1>0, <2>1, JobType
  <2>3. writer' \in [Writers -> Jobs]
    BY <1>1, <2>2 DEF Load, TypeOK
  <2>4. ghost' \in [said : [Writers -> SUBSET SUBSET Fields], seen : [Callers -> SUBSET SUBSET Fields]]
    <3>1. ghost' = [ghost EXCEPT !.said[w] = Told(file)]
      BY <1>1 DEF Load
    <3>2. Told(file) \in SUBSET SUBSET Fields
      BY <1>0
    <3> DEFINE new == Told(file)
    <3>3. [ghost EXCEPT !.said[w] = new] \in
            [said : [Writers -> SUBSET SUBSET Fields], seen : [Callers -> SUBSET SUBSET Fields]]
      <4>1. new \in SUBSET SUBSET Fields
        BY <3>2
      <4> HIDE DEF new
      <4>2. QED
        BY <4>1, ToldType
    <3>4. QED
      BY <3>1, <3>3
  <2>5. QED
    BY <1>1, <2>3, <2>4 DEF Load, TypeOK
<1>2. CASE Update(w)
  <2>1. PICK f \in Fields : writer' = [writer EXCEPT ![w] =
          Job("write", IF f \in Parsed THEN Parsed \ {f} ELSE Parsed \union {f}, {f}, "none")]
    BY <1>2 DEF Update
  <2>2. (IF f \in Parsed THEN Parsed \ {f} ELSE Parsed \union {f}) \in SUBSET Fields
    BY <1>0
  <2>3. Job("write", IF f \in Parsed THEN Parsed \ {f} ELSE Parsed \union {f}, {f}, "none")
          \in Jobs
    BY <2>2, JobType
  <2>4. writer' \in [Writers -> Jobs]
    BY <2>1, <2>3 DEF TypeOK
  <2>5. ghost' \in [said : [Writers -> SUBSET SUBSET Fields], seen : [Callers -> SUBSET SUBSET Fields]]
    BY <1>0, <1>2, ToldType DEF Update
  <2>6. QED
    BY <1>2, <2>4, <2>5 DEF Update, TypeOK
<1>3. CASE ChooseName(w)
  <2>1. PICK n \in Names : writer' = [writer EXCEPT ![w] = Job("named", Default, {}, n)]
    BY <1>3 DEF ChooseName
  <2>2. Job("named", Default, {}, n) \in Jobs
    BY <1>0, JobType
  <2>3. writer' \in [Writers -> Jobs]
    BY <2>1, <2>2 DEF TypeOK
  <2>4. QED
    BY <1>3, <2>3 DEF ChooseName, TypeOK
<1>4. CASE BackUp(w)
  <2>1. CASE file.kind = "missing"
    <3>1. writer' \in [Writers -> Jobs] /\ UNCHANGED <<file, backups>>
      BY <1>0, <1>4, <2>1 DEF BackUp, TypeOK
    <3>2. ghost' \in [said : [Writers -> SUBSET SUBSET Fields], seen : [Callers -> SUBSET SUBSET Fields]]
      BY <1>0, <1>4, <2>1, ToldType DEF BackUp
    <3>3. QED
      BY <1>4, <3>1, <3>2 DEF BackUp, TypeOK
  <2>2. CASE file.kind # "missing"
    <3>1. ghost' \in [said : [Writers -> SUBSET SUBSET Fields], seen : [Callers -> SUBSET SUBSET Fields]]
      <4>1. ghost' = Noting(Missing) /\ Missing.on = Default
        BY <1>4, <2>2 DEF BackUp, Missing
      <4>2. QED
        BY <1>0, <4>1, NotingType
    <3>2. writer' \in [Writers -> Jobs]
      <4>1. writer[w].name \in Names \union {"none"}
        BY DEF TypeOK, Jobs
      <4>2. Job("write", Default, {}, writer[w].name) \in Jobs
        BY <1>0, <4>1, JobType
      <4>3. QED
        BY <1>4, <2>2, <4>2 DEF BackUp, TypeOK
    <3>3. backups' \in [Names -> {"none", "corrupt", "valid"}]
      BY <1>4, <2>2 DEF BackUp, TypeOK, Kinds
    <3>4. /\ file' \in [kind : Kinds, on : SUBSET Fields, stamp : Stamps]
          /\ (file.kind # "valid" => file.on = Default)'
          /\ ((file.kind = "missing") <=> (file.stamp = 0))'
      <4>1. file' = Missing
        BY <1>4, <2>2 DEF BackUp
      <4>2. 0 \in Stamps
        BY ConfigAssumption DEF Stamps
      <4>3. QED
        BY <1>0, <4>1, <4>2 DEF Missing, Kinds
    <3>5. UNCHANGED <<stamp, cache, caller>>
      BY <1>4 DEF BackUp
    <3>6. QED
      BY <3>1, <3>2, <3>3, <3>4, <3>5 DEF TypeOK
  <2>3. QED
    BY <2>1, <2>2
<1>5. CASE Write(w)
  <2>1. stamp + 1 \in Stamps /\ stamp + 1 # 0 /\ stamp' = stamp + 1
    BY <1>5, ConfigAssumption DEF Write, TypeOK, Stamps
  <2>2. writer[w].on \in SUBSET Fields
    BY DEF TypeOK, Jobs
  <2>3. ghost' \in [said : [Writers -> SUBSET SUBSET Fields], seen : [Callers -> SUBSET SUBSET Fields]]
    <3>1. ghost' = Noting(file') /\ file'.on = writer[w].on
      BY <1>5 DEF Write
    <3>2. QED
      BY <2>2, <3>1, NotingType
  <2>4. file' = [kind |-> "valid", on |-> writer[w].on, stamp |-> stamp + 1]
    BY <1>5 DEF Write
  <2>5. /\ file' \in [kind : Kinds, on : SUBSET Fields, stamp : Stamps]
        /\ (file.kind # "valid" => file.on = Default)'
        /\ ((file.kind = "missing") <=> (file.stamp = 0))'
    BY <2>1, <2>2, <2>4 DEF Kinds
  <2>6. writer' \in [Writers -> Jobs]
    BY <1>0, <1>5 DEF Write, TypeOK
  <2>7. UNCHANGED <<backups, cache, caller>>
    BY <1>5 DEF Write
  <2>8. QED
    BY <2>1, <2>3, <2>5, <2>6, <2>7 DEF TypeOK
<1>6. CASE GiveUp(w)
  <2>1. ghost' \in [said : [Writers -> SUBSET SUBSET Fields], seen : [Callers -> SUBSET SUBSET Fields]]
    BY <1>0, <1>6, ToldType DEF GiveUp
  <2>2. QED
    BY <1>0, <1>6, <2>1 DEF GiveUp, TypeOK
<1>7. QED
  BY <1>1, <1>2, <1>3, <1>4, <1>5, <1>6 DEF WriterStep

\* A step of a caller keeps the types.
LEMMA CallerType ==
  ASSUME TypeOK, NEW c \in Callers, CallerStep(c)
  PROVE  TypeOK'
<1>1. /\ Parsed \in SUBSET Fields /\ Default \in SUBSET Fields /\ cache.on \in SUBSET Fields
      /\ caller[c].key \in Stamps \union {Unavailable} /\ file.stamp \in Stamps
  BY ParsedType DEF TypeOK, Turns, Default
<1>2. \A at \in {"inspected", "served", "failed"}, key \in Stamps \union {Unavailable},
         on \in SUBSET Fields : [caller EXCEPT ![c] = Turn(at, key, on)] \in [Callers -> Turns]
  BY TurnType DEF TypeOK
<1>3. CASE Inspect(c) \/ InspectFails(c)
  <2>1. caller' \in [Callers -> Turns]
    BY <1>1, <1>2, <1>3 DEF Inspect, InspectFails
  <2>2. ghost' \in [said : [Writers -> SUBSET SUBSET Fields], seen : [Callers -> SUBSET SUBSET Fields]]
    BY <1>1, <1>3 DEF Inspect, InspectFails, TypeOK
  <2>3. QED
    BY <1>3, <2>1, <2>2 DEF Inspect, InspectFails, TypeOK
<1>4. CASE CacheHit(c) \/ ReadFails(c)
  <2>1. caller' \in [Callers -> Turns]
    BY <1>1, <1>2, <1>4 DEF CacheHit, ReadFails
  <2>2. QED
    BY <1>4, <2>1 DEF CacheHit, ReadFails, TypeOK
<1>5. CASE CacheMiss(c)
  <2>1. caller' \in [Callers -> Turns]
    BY <1>1, <1>2, <1>5 DEF CacheMiss
  <2>2. cache' \in [key : Stamps \union {Unavailable, NoKey}, on : SUBSET Fields]
    BY <1>1, <1>5 DEF CacheMiss
  <2>3. QED
    BY <1>5, <2>1, <2>2 DEF CacheMiss, TypeOK
<1>6. QED
  BY <1>3, <1>4, <1>5 DEF CallerStep

\* What HandEdit leaves in the file, as one case for the proofs below.
LEMMA HandEditShape ==
  ASSUME TypeOK, HandEdit
  PROVE  /\ file' \in [kind : Kinds, on : SUBSET Fields, stamp : Stamps]
         /\ file'.kind # "valid" => file'.on = Default
         /\ (file'.kind = "missing") <=> (file'.stamp = 0)
         /\ file'.stamp = 0 \/ (file'.stamp = stamp' /\ stamp' = stamp + 1)
         /\ ghost' = Noting(file')
         /\ stamp' \in Stamps /\ stamp' >= stamp
         /\ UNCHANGED <<writer, backups, cache, caller>>
<1>1. stamp \in Nat /\ MaxStamp \in Nat
  BY ConfigAssumption DEF TypeOK, Stamps
<1>2. ASSUME stamp < MaxStamp, stamp' = stamp + 1, NEW on \in SUBSET Fields,
             file' = [kind |-> "valid", on |-> on, stamp |-> stamp + 1]
      PROVE  /\ file' \in [kind : Kinds, on : SUBSET Fields, stamp : Stamps]
             /\ file'.kind # "valid" => file'.on = Default
             /\ (file'.kind = "missing") <=> (file'.stamp = 0)
             /\ file'.stamp = stamp'
  BY <1>1, <1>2 DEF Kinds, Stamps
<1>3. ASSUME stamp < MaxStamp, stamp' = stamp + 1,
             file' = [kind |-> "corrupt", on |-> Default, stamp |-> stamp + 1]
      PROVE  /\ file' \in [kind : Kinds, on : SUBSET Fields, stamp : Stamps]
             /\ file'.kind # "valid" => file'.on = Default
             /\ (file'.kind = "missing") <=> (file'.stamp = 0)
             /\ file'.stamp = stamp'
  BY <1>1, <1>3 DEF Kinds, Stamps, Default
<1>4. ASSUME file' = Missing
      PROVE  /\ file' \in [kind : Kinds, on : SUBSET Fields, stamp : Stamps]
             /\ file'.kind # "valid" => file'.on = Default
             /\ (file'.kind = "missing") <=> (file'.stamp = 0)
             /\ file'.stamp = 0 /\ file'.on = Default
  BY <1>1, <1>4 DEF Kinds, Stamps, Default, Missing
<1>5. CASE stamp < MaxStamp /\ stamp' = stamp + 1
             /\ ghost' = Noting(file')
             /\ UNCHANGED <<backups, writer, cache, caller>>
             /\ \/ \E on \in SUBSET Fields :
                       file' = [kind |-> "valid", on |-> on, stamp |-> stamp + 1]
                \/ file' = [kind |-> "corrupt", on |-> Default, stamp |-> stamp + 1]
  BY <1>1, <1>2, <1>3, <1>5 DEF Stamps
<1>6. CASE file' = Missing /\ ghost' = Noting(file')
             /\ UNCHANGED <<backups, writer, stamp, cache, caller>>
  BY <1>1, <1>4, <1>6 DEF TypeOK
<1>7. QED
  BY <1>5, <1>6 DEF HandEdit

LEMMA NextType == TypeOK /\ [Next]_vars => TypeOK'
<1> SUFFICES ASSUME TypeOK, [Next]_vars PROVE TypeOK'
  OBVIOUS
<1>1. CASE \E w \in Writers : WriterStep(w)
  BY <1>1, WriterType
<1>2. CASE \E c \in Callers : CallerStep(c)
  BY <1>2, CallerType
<1>3. CASE HandEdit
  <2>1. ghost' = Noting(file') /\ file'.on \in SUBSET Fields
    BY <1>3, HandEditShape
  <2>3. ghost' \in [said : [Writers -> SUBSET SUBSET Fields], seen : [Callers -> SUBSET SUBSET Fields]]
    BY <2>1, NotingType
  <2>4. QED
    BY <1>3, <2>3, HandEditShape DEF TypeOK
<1>4. CASE UNCHANGED vars
  BY <1>4 DEF vars, TypeOK
<1>5. QED
  BY <1>1, <1>2, <1>3, <1>4 DEF Next

\* The variables keep their types, whatever processes and people do to the
\* file, up to the bound on its versions.
THEOREM ConfigTypes == Spec => []TypeOK
  BY InitType, NextType, PTL DEF Spec

-----------------------------------------------------------------------------
(* The settings a caller is served.                                        *)

\* No version of the file is older than its key in the cache says: what is
\* cached under the current key is the current file, and what a caller may
\* find under the key it has inspected has been in the file since.
CurrentInv ==
  /\ cache.key <= stamp /\ file.stamp <= stamp
  /\ (file.stamp > 0 /\ cache.key = file.stamp) => cache.on = Parsed
  /\ \A c \in Callers :
       /\ caller[c].key <= stamp
       /\ caller[c].at = "inspected" =>
            /\ Parsed \in ghost.seen[c]
            /\ (caller[c].key > 0 /\ cache.key = caller[c].key) => cache.on \in ghost.seen[c]

CurrentIInv == TypeOK /\ CurrentInv /\ SettingsAreCurrent

\* What a change of the file preserves: the callers, the cache, and a stamp
\* that is new or that of a missing file.
LEMMA ChangeCurrent ==
  ASSUME CurrentIInv, TypeOK',
         NEW new, new.on = Parsed', ghost' = Noting(new),
         UNCHANGED <<cache, caller>>, stamp' >= stamp,
         file'.stamp = 0 \/ (file'.stamp = stamp' /\ stamp' = stamp + 1)
  PROVE  CurrentInv' /\ SettingsAreCurrent'
<1> USE DEF CurrentIInv, CurrentInv, SettingsAreCurrent
<1>1. /\ cache.key \in Int /\ stamp \in Int /\ stamp' \in Int /\ file.stamp \in Int /\ stamp >= 0
      /\ \A c \in Callers : caller[c].key \in Int
  BY ConfigAssumption DEF TypeOK, Stamps, Turns, Unavailable, NoKey
<1>2. \A c \in Callers : (ghost.seen[c])' = IF caller[c].at = "inspected"
                                           THEN ghost.seen[c] \union {Parsed'} ELSE ghost.seen[c]
  BY DEF Noting
<1>3. (cache.key <= stamp)' /\ (file.stamp <= stamp)'
        /\ ((file.stamp > 0 /\ cache.key = file.stamp) => cache.on = Parsed)'
  <2>1. cache.key <= stamp /\ cache' = cache
    OBVIOUS
  <2>2. CASE file'.stamp = 0
    BY <1>1, <2>1, <2>2
  <2>3. CASE file'.stamp = stamp' /\ stamp' = stamp + 1
    <3>1. cache'.key # file'.stamp
      BY <1>1, <2>1, <2>3
    <3>2. QED
      BY <1>1, <2>1, <2>3, <3>1
  <2>4. QED
    BY <2>2, <2>3
<1>4. ASSUME NEW c \in Callers
      PROVE  /\ (caller[c].key <= stamp)'
             /\ (caller[c].at = "inspected" =>
                  /\ Parsed \in ghost.seen[c]
                  /\ (caller[c].key > 0 /\ cache.key = caller[c].key)
                       => cache.on \in ghost.seen[c])'
             /\ ((caller[c].at = "served" /\ caller[c].key > 0)
                  => caller[c].on \in ghost.seen[c])'
  <2>1. caller' = caller /\ cache' = cache /\ stamp' >= stamp
    OBVIOUS
  <2>2. (caller[c].key <= stamp)'
    BY <1>1, <2>1
  <2>3. caller[c].at = "inspected" =>
          Parsed' \in (ghost.seen[c])' /\ ghost.seen[c] \subseteq (ghost.seen[c])'
    BY <1>2
  <2>4. caller[c].at = "served" => (ghost.seen[c])' = ghost.seen[c]
    BY <1>2
  <2>5. QED
    BY <2>1, <2>2, <2>3, <2>4
<1>5. QED
  BY <1>3, <1>4

LEMMA InitCurrent == Init => CurrentIInv
<1> SUFFICES ASSUME Init PROVE CurrentIInv
  OBVIOUS
<1>1. TypeOK
  BY InitType
<1>2. PICK kind \in Kinds : file = [Missing EXCEPT !.kind = kind,
                                      !.stamp = IF kind = "missing" THEN 0 ELSE 1]
  BY DEF Init
<1>3. file.stamp \in {0, 1} /\ stamp = 1 /\ cache.key = -2
        /\ \A c \in Callers : caller[c].key = 0 /\ caller[c].at = "idle"
  BY <1>2 DEF Init, Missing, NoKey, Turn
<1>4. QED
  BY <1>1, <1>3 DEF CurrentIInv, CurrentInv, SettingsAreCurrent

LEMMA CallerCurrent ==
  ASSUME CurrentIInv, NEW c \in Callers, CallerStep(c)
  PROVE  CurrentInv' /\ SettingsAreCurrent'
<1> USE DEF CurrentIInv, CurrentInv, SettingsAreCurrent
<1>1. /\ UNCHANGED <<file, stamp>> /\ Parsed' = Parsed
  BY DEF CallerStep, Inspect, InspectFails, CacheHit, CacheMiss, ReadFails, Parsed
<1>2. /\ cache.key \in Int /\ stamp \in Int /\ file.stamp \in Int /\ stamp >= 0
      /\ \A d \in Callers : caller[d].key \in Int
  BY ConfigAssumption DEF TypeOK, Stamps, Turns, Unavailable, NoKey
<1>3. ghost.seen \in [Callers -> SUBSET SUBSET Fields] /\ caller \in [Callers -> Turns]
  BY DEF TypeOK
<1>4. CASE Inspect(c)
  <2>1. /\ cache' = cache /\ ghost'.seen = [ghost.seen EXCEPT ![c] = {Parsed}]
        /\ caller' = [caller EXCEPT ![c] = [at |-> "inspected", key |-> file.stamp, on |-> Default]]
    BY <1>4 DEF Inspect, Turn, TypeOK
  <2>2. QED
    BY <1>1, <1>2, <1>3, <2>1
<1>5. CASE InspectFails(c)
  <2>1. /\ cache' = cache /\ ghost'.seen = [ghost.seen EXCEPT ![c] = {Parsed}]
        /\ caller' = [caller EXCEPT ![c] = [at |-> "inspected", key |-> -1, on |-> Default]]
    BY <1>5 DEF InspectFails, Turn, Unavailable, TypeOK
  <2>2. QED
    BY <1>1, <1>2, <1>3, <2>1
<1>6. CASE CacheHit(c)
  <2>1. /\ cache' = cache /\ ghost' = ghost
        /\ caller[c].at = "inspected" /\ cache.key = caller[c].key
        /\ caller' = [caller EXCEPT ![c] = [at |-> "served", key |-> caller[c].key, on |-> cache.on]]
    BY <1>6 DEF CacheHit, Turn
  <2>2. QED
    BY <1>1, <1>2, <1>3, <2>1
<1>7. CASE CacheMiss(c)
  <2>1. /\ cache' = [key |-> caller[c].key, on |-> Parsed] /\ ghost' = ghost
        /\ caller[c].at = "inspected"
        /\ caller' = [caller EXCEPT ![c] = [at |-> "served", key |-> caller[c].key, on |-> Parsed]]
    BY <1>7 DEF CacheMiss, Turn
  <2>2. QED
    BY <1>1, <1>2, <1>3, <2>1
<1>8. CASE ReadFails(c)
  <2>1. /\ cache' = cache /\ ghost' = ghost
        /\ caller' = [caller EXCEPT ![c] = [at |-> "failed", key |-> caller[c].key, on |-> cache.on]]
    BY <1>8 DEF ReadFails, Turn
  <2>2. QED
    BY <1>1, <1>2, <1>3, <2>1
<1>9. QED
  BY <1>4, <1>5, <1>6, <1>7, <1>8 DEF CallerStep

LEMMA NextCurrent == CurrentIInv /\ [Next]_vars => CurrentIInv'
<1> SUFFICES ASSUME CurrentIInv, [Next]_vars PROVE CurrentIInv'
  OBVIOUS
<1>1. TypeOK /\ TypeOK'
  BY NextType DEF CurrentIInv
<1>2. SUFFICES CurrentInv' /\ SettingsAreCurrent'
  BY <1>1 DEF CurrentIInv
<1>3. CASE UNCHANGED <<file, stamp, cache, caller>> /\ ghost'.seen = ghost.seen
  BY <1>3 DEF CurrentIInv, CurrentInv, SettingsAreCurrent, Parsed
<1>4. ASSUME NEW w \in Writers, WriterStep(w)
      PROVE  CurrentInv' /\ SettingsAreCurrent'
  <2>1. CASE Load(w) \/ Update(w) \/ ChooseName(w) \/ GiveUp(w)
    <3>1. ghost'.seen = ghost.seen /\ UNCHANGED <<file, stamp, cache, caller>>
      BY <1>1, <2>1 DEF Load, Update, ChooseName, GiveUp, TypeOK
    <3>2. QED
      BY <1>3, <3>1
  <2>2. CASE BackUp(w)
    <3>1. CASE file.kind = "missing"
      BY <1>1, <1>3, <2>2, <3>1 DEF BackUp, TypeOK
    <3>2. CASE file.kind # "missing"
      <4>1. /\ file' = Missing /\ UNCHANGED <<stamp, cache, caller>>
            /\ ghost' = Noting(Missing)
        BY <2>2, <3>2 DEF BackUp
      <4>2. Parsed' = Missing.on /\ file'.stamp = 0
        BY <4>1 DEF Parsed, Missing
      <4>3. stamp' >= stamp
        BY <1>1, <4>1, ConfigAssumption DEF TypeOK, Stamps
      <4>4. QED
        BY <1>1, <4>1, <4>2, <4>3, ChangeCurrent
    <3>3. QED
      BY <3>1, <3>2
  <2>3. CASE Write(w)
    <3>1. /\ file' = [kind |-> "valid", on |-> writer[w].on, stamp |-> stamp + 1]
          /\ stamp' = stamp + 1 /\ UNCHANGED <<cache, caller>>
          /\ ghost' = Noting(file')
      BY <2>3 DEF Write
    <3>2. Parsed' = file'.on /\ file'.stamp = stamp'
      BY <3>1 DEF Parsed
    <3>3. stamp' >= stamp
      BY <1>1, <3>1, ConfigAssumption DEF TypeOK, Stamps
    <3>4. QED
      BY <1>1, <3>1, <3>2, <3>3, ChangeCurrent
  <2>4. QED
    BY <1>4, <2>1, <2>2, <2>3 DEF WriterStep
<1>5. ASSUME NEW c \in Callers, CallerStep(c)
      PROVE  CurrentInv' /\ SettingsAreCurrent'
  BY <1>5, CallerCurrent
<1>6. CASE HandEdit
  <2>1. /\ ghost' = Noting(file') /\ UNCHANGED <<cache, caller>>
        /\ file'.stamp = 0 \/ (file'.stamp = stamp' /\ stamp' = stamp + 1)
        /\ stamp' >= stamp
    BY <1>1, <1>6, HandEditShape
  <2>2. Parsed' = file'.on
    BY <1>1, <1>6, HandEditShape DEF Parsed
  <2>3. QED
    BY <1>1, <2>1, <2>2, ChangeCurrent
<1>7. CASE UNCHANGED vars
  BY <1>3, <1>7 DEF vars
<1>8. QED
  BY <1>4, <1>5, <1>6, <1>7 DEF Next

\* However the threads of an application race for the cache while the file is
\* written, a key is handled with settings that were in the file meanwhile.
THEOREM ServedAreCurrent == Spec => []SettingsAreCurrent
<1>1. CurrentIInv => SettingsAreCurrent
  BY DEF CurrentIInv
<1>2. QED
  BY <1>1, InitCurrent, NextCurrent, PTL DEF Spec
-----------------------------------------------------------------------------
(* What a write leaves alone.                                              *)

\* f is what g says but for the fields `changes`.
Keeps(f, g, changes) == \A x \in Fields \ changes : x \in f <=> x \in g

\* A writer about to write has what the file has said since the writer read it,
\* but for the field it changes.
WriteInv ==
  \A w \in Writers : writer[w].at = "write" =>
    \E on \in ghost.said[w] : Keeps(writer[w].on, on, writer[w].changes)

\* A change of the file adds to what the other writers have been told.
LEMMA ChangeWrite ==
  ASSUME WriteInv, TypeOK, NEW new, ghost' = Noting(new), NEW v \in Writers,
         \A w \in Writers \ {v} : (writer[w])' = writer[w],
         (writer[v].at = "write")' => new.kind # "corrupt" /\ (writer[v].on)' = new.on
  PROVE  WriteInv'
<1>1. \A w \in Writers : (writer[w].at # "idle")' =>
        (ghost.said[w])' = ghost.said[w] \union Told(new)
  BY DEF Noting
<1>2. ASSUME NEW w \in Writers, (writer[w].at = "write")', w # v
      PROVE  (\E on \in ghost.said[w] : Keeps(writer[w].on, on, writer[w].changes))'
  BY <1>1, <1>2 DEF WriteInv, Keeps
<1>3. ASSUME (writer[v].at = "write")'
      PROVE  (\E on \in ghost.said[v] : Keeps(writer[v].on, on, writer[v].changes))'
  <2>1. new.on \in Told(new) /\ (writer[v].on)' = new.on
    BY <1>3 DEF Told
  <2>2. (Keeps(writer[v].on, new.on, writer[v].changes))'
    BY <2>1 DEF Keeps
  <2>3. QED
    BY <1>1, <1>3, <2>1, <2>2
<1>4. QED
  BY <1>2, <1>3 DEF WriteInv

\* The same where no writer takes a step.
LEMMA EditWrite ==
  ASSUME WriteInv, TypeOK, NEW new, ghost' = Noting(new), writer' = writer
  PROVE  WriteInv'
<1>1. \A w \in Writers : (writer[w].at # "idle")' =>
        (ghost.said[w])' = ghost.said[w] \union Told(new)
  BY DEF Noting
<1>2. QED
  BY <1>1 DEF WriteInv, Keeps

\* A step of one writer that leaves the file alone.
LEMMA OneWrites ==
  ASSUME WriteInv, TypeOK, NEW v \in Writers,
         \A w \in Writers \ {v} : (writer[w])' = writer[w] /\ (ghost.said[w])' = ghost.said[w],
         (writer[v].at = "write" =>
            \E on \in ghost.said[v] : Keeps(writer[v].on, on, writer[v].changes))'
  PROVE  WriteInv'
BY DEF WriteInv, Keeps

LEMMA NextWrite == TypeOK /\ WriteInv /\ [Next]_vars => WriteInv'
<1> SUFFICES ASSUME TypeOK, WriteInv, [Next]_vars PROVE WriteInv'
  OBVIOUS
<1>0. writer \in [Writers -> Jobs] /\ ghost.said \in [Writers -> SUBSET SUBSET Fields]
  BY DEF TypeOK
<1>1. CASE writer' = writer /\ (ghost.said)' = ghost.said
  BY <1>1 DEF WriteInv, Keeps
<1>2. ASSUME NEW w \in Writers, WriterStep(w)
      PROVE  WriteInv'
  <2>1. CASE Load(w) \/ Update(w)
    <3>1. /\ (ghost.said[w])' = Told(file)
          /\ \A v \in Writers \ {w} : (writer[v])' = writer[v] /\ (ghost.said[v])' = ghost.said[v]
      <4>1. ghost' = [ghost EXCEPT !.said[w] = Told(file)]
        BY <2>1 DEF Load, Update
      <4>2. /\ (ghost.said[w])' = Told(file)
            /\ \A v \in Writers \ {w} : (ghost.said[v])' = ghost.said[v]
        <5>1. ghost'.said = [ghost.said EXCEPT ![w] = Told(file)]
          BY <4>1 DEF TypeOK
        <5>2. QED
          BY <1>0, <5>1
      <4>3. \A v \in Writers \ {w} : (writer[v])' = writer[v]
        BY <1>0, <2>1 DEF Load, Update
      <4>4. QED
        BY <4>2, <4>3
    <3>2. file.kind # "corrupt" => Told(file) = {Parsed}
      BY DEF Told, Parsed, TypeOK
    <3>3. (writer[w].at = "write")' =>
            file.kind # "corrupt" /\ Keeps((writer[w].on)', Parsed, (writer[w].changes)')
      <4>1. CASE Load(w)
        BY <1>0, <4>1 DEF Load, Job, Keeps
      <4>2. CASE Update(w)
        BY <1>0, <4>2 DEF Update, Job, Keeps
      <4>3. QED
        BY <2>1, <4>1, <4>2
    <3>4. (writer[w].at = "write" =>
             \E on \in ghost.said[w] : Keeps(writer[w].on, on, writer[w].changes))'
      BY <3>1, <3>2, <3>3 DEF Keeps
    <3>5. QED
      BY <3>1, <3>4, OneWrites
  <2>2. CASE ChooseName(w) \/ GiveUp(w) \/ (BackUp(w) /\ file.kind = "missing")
    <3>1. /\ \A v \in Writers \ {w} : (writer[v])' = writer[v] /\ (ghost.said[v])' = ghost.said[v]
          /\ (writer[w].at # "write")'
      BY <1>0, <2>2 DEF ChooseName, GiveUp, BackUp, Job, Resting, TypeOK
    <3>2. QED
      BY <3>1, OneWrites
  <2>3. CASE BackUp(w) /\ file.kind # "missing"
    <3>1. /\ ghost' = Noting(Missing) /\ (writer[w].on)' = Default
          /\ \A v \in Writers \ {w} : (writer[v])' = writer[v]
      BY <1>0, <2>3 DEF BackUp, Job
    <3>2. QED
      BY <3>1, ChangeWrite DEF Missing
  <2>4. CASE Write(w)
    <3>1. /\ ghost' = Noting(file') /\ (writer[w].at # "write")'
          /\ \A v \in Writers \ {w} : (writer[v])' = writer[v]
      BY <1>0, <2>4 DEF Write, Resting, Job
    <3>2. QED
      BY <3>1, ChangeWrite
  <2>5. QED
    BY <1>2, <2>1, <2>2, <2>3, <2>4 DEF WriterStep
<1>3. ASSUME NEW c \in Callers, CallerStep(c)
      PROVE  WriteInv'
  <2>1. writer' = writer /\ (ghost.said)' = ghost.said
    BY <1>3 DEF CallerStep, Inspect, InspectFails, CacheHit, CacheMiss, ReadFails, TypeOK
  <2>2. QED
    BY <1>1, <2>1
<1>4. CASE HandEdit
  <2>1. ghost' = Noting(file') /\ writer' = writer
    BY <1>4 DEF HandEdit
  <2>2. QED
    BY <2>1, EditWrite
<1>5. CASE UNCHANGED vars
  BY <1>1, <1>5 DEF vars
<1>6. QED
  BY <1>2, <1>3, <1>4, <1>5 DEF Next

\* A write leaves every field but the one it changes as the file has said since it
\* was read, also where others have written meanwhile; a file that could not be
\* parsed is moved away first.
THEOREM RestIsKept == Spec => WritersKeepTheRest
<1>1. Init => CurrentIInv /\ WriteInv
  <2>1. Init => WriteInv
    BY DEF Init, WriteInv, Resting, Job
  <2>2. QED
    BY <2>1, InitCurrent
<1>2. CurrentIInv /\ WriteInv /\ [Next]_vars => (CurrentIInv /\ WriteInv)'
  BY NextCurrent, NextWrite DEF CurrentIInv
<1>3. CurrentIInv /\ WriteInv /\ [Next]_vars =>
        [\A w \in Writers :
           (writer[w].at = "write" /\ file'.stamp > stamp /\ writer'[w].at = "idle")
             => \E on \in ghost.said[w] :
                  \A f \in Fields \ writer[w].changes : f \in file'.on <=> f \in on]_vars
  <2> SUFFICES ASSUME CurrentIInv, WriteInv, [Next]_vars, NEW w \in Writers,
                      writer[w].at = "write", file'.stamp > stamp, writer'[w].at = "idle"
               PROVE  \E on \in ghost.said[w] :
                        \A f \in Fields \ writer[w].changes : f \in file'.on <=> f \in on
    OBVIOUS
  <2>1. TypeOK /\ file.stamp <= stamp /\ file.stamp \in Int /\ stamp \in Nat
    BY ConfigAssumption DEF CurrentIInv, CurrentInv, TypeOK, Stamps
  <2>2. file' # file /\ writer' # writer
    BY <2>1
  <2>3. PICK v \in Writers : BackUp(v) \/ Write(v)
    BY <2>1, <2>2, HandEditShape DEF Next, vars, WriterStep, CallerStep, Load, Update, ChooseName,
       GiveUp, Inspect, InspectFails, CacheHit, CacheMiss, ReadFails
  <2>4. ~BackUp(v)
    BY <2>1, <2>2 DEF BackUp, Missing
  <2>5. Write(v) /\ v = w
    BY <2>1, <2>3, <2>4 DEF Write, TypeOK
  <2>6. file'.on = writer[w].on
    BY <2>5 DEF Write
  <2>7. QED
    BY <2>6 DEF WriteInv, Keeps
<1>4. QED
  BY <1>1, <1>2, <1>3, PTL DEF Spec, WritersKeepTheRest

=============================================================================
