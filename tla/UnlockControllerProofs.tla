----------------------- MODULE UnlockControllerProofs -----------------------
(***************************************************************************)
(* That the back-off is kept by the second front end, that the recovery    *)
(* codes it shows open the vault, and what it has in memory, for any       *)
(* passwords, any number of versions, and whatever others and disks do.    *)
(***************************************************************************)
EXTENDS UnlockController, TLAPS

(***************************************************************************)
(* Types.  What is under way is about a version that has been written.     *)
(***************************************************************************)

Typed ==
  /\ log \in Seq(Content) /\ Len(log) <= MaxVersion
  /\ disk \in 0 .. Len(log) /\ session \in 0 .. Len(log)
  /\ fp \in 0 .. Len(log) /\ codes \in 0 .. Len(log)
  /\ route \in Route
  /\ running \in Request \union {NotRunning}
  /\ damaged \in BOOLEAN /\ warned \in BOOLEAN

Shown == codes # None => route = "recoveryCodes" /\ codes = session
Inside == route \in {"unlocked", "recoveryCodes"} => session # None
ReadBefore == session # fp => fp # None /\ fp < session /\ log[fp].old
Busy ==
  running # NotRunning =>
    route = IF running.at \in Creating THEN "create" ELSE "unlock"
BaseWritten ==
  /\ running.at \in {"recovery", "show", "migrate"} => running.base \in 1 .. Len(log)
  /\ running.at = "migrate" => log[running.base].old

(* A VMK is never older than its version's place in the log, and the codes *)
(* of version v open what is on disk as long as that is the same vault.    *)
KeysInOrder == \A version \in 1 .. Len(log) : log[version].key <= version
Open(v) == disk # None /\ log[disk].key = log[v].key => log[disk].codes >= v
CodesOpen ==
  /\ codes # None => Open(codes)
  /\ running.at = "show" => Open(running.base)

MemoryInv ==
  Typed /\ Shown /\ Inside /\ ReadBefore /\ Busy /\ BaseWritten /\ KeysInOrder /\ CodesOpen

LEMMA InitMemory == Init => MemoryInv
<1> SUFFICES ASSUME Init PROVE MemoryInv
  OBVIOUS
<1>1. /\ log \in Seq(Content) /\ Len(log) <= MaxVersion /\ disk \in 0 .. Len(log)
      /\ KeysInOrder
  <2>1. CASE log = <<>> /\ disk = None
    BY <2>1, VersionAssumption DEF None, KeysInOrder
  <2>2. CASE disk = 1
    <3>0. 1 \in 1 .. MaxVersion /\ 0 \in 0 .. MaxVersion /\ 1 \in 0 .. MaxVersion
      BY VersionAssumption
    <3>1. PICK first \in Content : log = <<first>> /\ first.key = 1
      <4>1. PICK password \in Password, format \in {"v1 or v2", "v3", "v3 with codes"} :
              log = <<[password |-> password, key |-> 1,
                       codes |-> IF format = "v3 with codes" THEN 1 ELSE None,
                       old |-> format = "v1 or v2"]>>
        BY <2>2 DEF Init, None
      <4> DEFINE first == [password |-> password, key |-> 1,
                           codes |-> IF format = "v3 with codes" THEN 1 ELSE None,
                           old |-> format = "v1 or v2"]
      <4>2. first \in Content /\ first.key = 1
        <5>2. (IF format = "v3 with codes" THEN 1 ELSE None) \in 0 .. MaxVersion
          BY <3>0 DEF None
        <5>3. (format = "v1 or v2") \in BOOLEAN
          OBVIOUS
        <5> QED
          BY <3>0, <5>2, <5>3, Zenon DEF Content
      <4> HIDE DEF first
      <4>3. log = <<first>>
        BY <4>1 DEF first
      <4> QED
        BY <4>2, <4>3
    <3> QED
      BY <2>2, <3>1, VersionAssumption DEF KeysInOrder
  <2> QED
    BY <2>1, <2>2 DEF Init
<1>2. /\ route \in Route /\ running = NotRunning
      /\ session = 0 /\ fp = 0 /\ codes = 0 /\ ~damaged /\ ~warned
      /\ damaged \in BOOLEAN /\ warned \in BOOLEAN
  BY DEF Init, None
<1>3. route \notin {"unlocked", "recoveryCodes"}
  BY DEF Init, SyncedTo
<1>4. Typed
  BY <1>1, <1>2 DEF Typed
<1>5. Shown /\ Inside /\ ReadBefore /\ Busy
  BY <1>2, <1>3 DEF Shown, Inside, ReadBefore, Busy, None
<1>6. BaseWritten /\ CodesOpen
  BY <1>2 DEF BaseWritten, CodesOpen, NotRunning, None
<1> QED
  BY <1>1, <1>4, <1>5, <1>6 DEF MemoryInv

(* Versions are only ever added to the log.                                *)
Grows ==
  /\ log' \in Seq(Content) /\ Len(log') <= MaxVersion /\ Len(log') >= Len(log)
  /\ disk' \in 0 .. Len(log') /\ damaged' \in BOOLEAN
  /\ \A version \in 1 .. Len(log) : log'[version] = log[version]
  /\ KeysInOrder'

(* What happens to the file leaves codes for it good.                      *)
KeepsOpen ==
  \/ disk' \in {disk, None}
  \/ log'[disk'].key = NextVersion
  \/ /\ disk # None /\ log'[disk'].key = log[disk].key
     /\ log'[disk'].codes \in {log[disk].codes, NextVersion}

LEMMA StillOpen ==
  ASSUME MemoryInv, Grows, KeepsOpen, NEW v \in 1 .. Len(log), Open(v)
  PROVE  Open(v)'
<1>1. /\ Len(log) \in Nat /\ disk \in 0 .. Len(log) /\ log'[v] = log[v]
      /\ log[v] \in Content /\ log[v].key <= v
      /\ disk # None => log[disk] \in Content /\ log'[disk] = log[disk]
  BY DEF MemoryInv, Typed, Grows, KeysInOrder, None
<1>2. CASE disk' \in {disk, None}
  BY <1>1, <1>2 DEF Open, None
<1>3. CASE log'[disk'].key = NextVersion
  <2>1. log[v].key < NextVersion
    BY <1>1 DEF NextVersion, Content
  <2> QED
    BY <1>1, <1>3, <2>1 DEF Open, NextVersion, Content
<1>4. CASE /\ disk # None /\ log'[disk'].key = log[disk].key
           /\ log'[disk'].codes \in {log[disk].codes, NextVersion}
  BY <1>1, <1>4 DEF Open, NextVersion, Content
<1> QED
  BY <1>2, <1>3, <1>4 DEF KeepsOpen

LEMMA WriteGrows ==
  ASSUME MemoryInv, NEW content \in Content, content.key <= NextVersion, Write(content)
  PROVE  /\ Grows /\ disk' = NextVersion /\ disk' = Len(log') /\ disk' # None
         /\ disk' \in 1 .. Len(log') /\ disk' > Len(log) /\ log'[disk'] = content
<1>1. log \in Seq(Content) /\ Len(log) \in Nat
  BY DEF MemoryInv, Typed
<1>2. /\ Len(log) < MaxVersion /\ log' = Append(log, content)
      /\ disk' = Len(log) + 1 /\ damaged' = FALSE
  BY DEF Write, NextVersion
<1>3. /\ log' \in Seq(Content) /\ Len(log') = Len(log) + 1
      /\ \A version \in 1 .. Len(log) : log'[version] = log[version]
      /\ log'[Len(log) + 1] = content
  BY <1>1, <1>2
<1>4. damaged' \in BOOLEAN
  BY <1>2
<1>5. Len(log) + 1 <= MaxVersion /\ Len(log) + 1 # None
  BY <1>1, <1>2, VersionAssumption DEF None
<1>6. KeysInOrder'
  <2> SUFFICES ASSUME NEW version \in 1 .. Len(log') PROVE log'[version].key <= version
    BY DEF KeysInOrder
  <2>1. CASE version \in 1 .. Len(log)
    BY <1>3, <2>1 DEF MemoryInv, KeysInOrder
  <2>2. CASE version = Len(log) + 1
    BY <1>3, <2>2 DEF NextVersion
  <2> QED
    BY <1>1, <1>3, <2>1, <2>2
<1> QED
  BY <1>1, <1>2, <1>3, <1>4, <1>5, <1>6 DEF Grows, NextVersion

(* A vault is written that is new to the log.                              *)
LEMMA NewContent ==
  ASSUME MemoryInv, NEW password \in Password, Len(log) < MaxVersion
  PROVE  /\ [password |-> password, key |-> NextVersion, codes |-> None, old |-> FALSE]
              \in Content
         /\ NextVersion <= NextVersion
BY VersionAssumption DEF Content, NextVersion, None, MemoryInv, Typed

LEMMA SameGrows == MemoryInv /\ UNCHANGED file => Grows /\ KeepsOpen
  BY DEF MemoryInv, Typed, file, Grows, KeysInOrder, KeepsOpen

(* Nothing but the file changes.                                           *)
LEMMA KeptMemory ==
  ASSUME MemoryInv, Grows, KeepsOpen, UNCHANGED <<route, running, memory>>
  PROVE  MemoryInv'
<1>1. /\ UNCHANGED <<route, running, session, fp, codes, warned>>
      /\ session \in 0 .. Len(log) /\ fp \in 0 .. Len(log)
      /\ codes \in 0 .. Len(log) /\ Len(log) \in Nat
  BY DEF memory, MemoryInv, Typed
<1>2. Typed'
  BY <1>1 DEF MemoryInv, Typed, Grows
<1>3. Shown' /\ Inside' /\ Busy'
  BY <1>1 DEF MemoryInv, Shown, Inside, Busy
<1>4. ReadBefore'
  BY <1>1 DEF MemoryInv, ReadBefore, Grows, None
<1>5. BaseWritten'
  BY <1>1 DEF MemoryInv, BaseWritten, Grows
<1>6. CodesOpen'
  <2>1. codes # None => Open(codes)'
    <3> SUFFICES ASSUME codes # None PROVE Open(codes)'
      OBVIOUS
    <3>1. codes \in 1 .. Len(log) /\ Open(codes)
      BY <1>1 DEF MemoryInv, CodesOpen, None
    <3>2. Open(codes)'
      BY <1>1, <3>1, StillOpen DEF Open
    <3> QED
      BY <3>2
  <2>2. running.at = "show" => Open(running.base)'
    <3> SUFFICES ASSUME running.at = "show" PROVE Open(running.base)'
      OBVIOUS
    <3>1. running.base \in 1 .. Len(log) /\ Open(running.base)
      BY DEF MemoryInv, CodesOpen, BaseWritten
    <3> QED
      BY <1>1, <3>1, StillOpen DEF Open
  <2> QED
    BY <1>1, <2>1, <2>2 DEF CodesOpen, Open
<1> QED
  BY <1>2, <1>3, <1>4, <1>5, <1>6 DEF MemoryInv, Grows

(* A screen without codes is kept or shown, no slot is left running, and   *)
(* the session is what it was.                                             *)
LEMMA LeftMemory ==
  ASSUME MemoryInv, Grows, UNCHANGED memory, codes = None,
         route' = route \/ route' \in Route \ {"unlocked", "recoveryCodes"},
         running' = NotRunning
  PROVE  MemoryInv'
<1>1. UNCHANGED <<session, fp, codes, warned>>
  BY DEF memory
<1>2. /\ Typed' /\ Shown' /\ Busy' /\ Inside' /\ BaseWritten' /\ CodesOpen'
  BY <1>1 DEF MemoryInv, Typed, Shown, Inside, Busy, BaseWritten, CodesOpen, NotRunning, Grows
<1>3. ReadBefore'
  BY <1>1 DEF MemoryInv, Typed, ReadBefore, Grows, None
<1> QED
  BY <1>2, <1>3 DEF MemoryInv, Grows

(* A session is taken over, and the screens of the vault are entered.      *)
LEMMA EnteredMemory ==
  ASSUME MemoryInv, Grows, warned' \in BOOLEAN, running' = NotRunning,
         NEW version \in 1 .. Len(log'), session' = version,
         \/ fp' = version
         \/ fp' \in 1 .. Len(log) /\ fp' < version /\ log[fp'].old,
         \/ codes' = None /\ route' = "unlocked"
         \/ codes' = version /\ route' = "recoveryCodes" /\ Open(version)'
  PROVE  MemoryInv'
<1>1. Len(log) \in Nat /\ Len(log') \in Nat /\ version # None
  BY DEF Grows, MemoryInv, Typed, None
<1>2. Typed'
  BY <1>1 DEF Grows, Typed, Route, None
<1>3. Shown' /\ Inside' /\ Busy' /\ BaseWritten'
  BY <1>1 DEF Shown, Inside, Busy, BaseWritten, NotRunning
<1>4. ReadBefore'
  BY <1>1 DEF ReadBefore, Grows, None
<1>5. CodesOpen'
  BY <1>1 DEF CodesOpen, Open, NotRunning, None
<1> QED
  BY <1>2, <1>3, <1>4, <1>5 DEF MemoryInv, Grows

(* A slot goes on, about a version that has been written.                  *)
LEMMA GoesOn ==
  ASSUME MemoryInv, Grows, UNCHANGED <<route, session, fp, codes, warned>>, codes = None,
         running' \in Request, running' # NotRunning,
         route = IF running'.at \in Creating THEN "create" ELSE "unlock",
         running'.at # "save" => running'.base \in 1 .. Len(log'),
         running'.at = "migrate" => log'[running'.base].old,
         running'.at = "show" => Open(running.base)'
  PROVE  MemoryInv'
<1>1. Typed'
  BY DEF MemoryInv, Typed, Grows
<1>2. Shown' /\ Inside' /\ Busy' /\ BaseWritten'
  BY DEF MemoryInv, Shown, Inside, Busy, BaseWritten
<1>3. ReadBefore'
  BY DEF MemoryInv, Typed, ReadBefore, Grows, None
<1>4. codes' = None
  OBVIOUS
<1>5. CodesOpen'
  BY <1>4 DEF CodesOpen
<1> QED
  BY <1>1, <1>2, <1>3, <1>5 DEF MemoryInv, Grows

(* While a slot runs, no codes are on the screen.                          *)
LEMMA NoneShown == MemoryInv /\ running # NotRunning => codes = None
  BY DEF MemoryInv, Shown, Busy
-----------------------------------------------------------------------------
LEMMA RightPasswordMemory ==
  ASSUME MemoryInv, NEW password \in Password, RightPassword(password)
  PROVE  MemoryInv'
<1>1. /\ disk \in 1 .. Len(log) /\ Grows /\ UNCHANGED file
      /\ running = NotRunning /\ route = "unlock" /\ codes = None
      /\ Len(log) \in Nat /\ Len(log) <= MaxVersion
  <2>1. UNCHANGED file /\ running = NotRunning /\ route = "unlock" /\ disk # None
    BY DEF RightPassword, Ready, Missing, CanSubmit, Idle
  <2> QED
    BY <2>1, SameGrows DEF MemoryInv, Typed, Shown, None
<1>2. UNCHANGED <<log, disk, damaged>>
  BY <1>1 DEF file
<1>3. CASE log[disk].old
  <2> DEFINE new == [at |-> "migrate", password |-> password,
                     recovery |-> FALSE, base |-> disk]
  <2>1. running' = new /\ UNCHANGED <<route, session, fp, codes, warned>>
    BY <1>3 DEF RightPassword, memory
  <2>2. /\ new \in Request /\ new.at = "migrate" /\ new.base = disk
        /\ new # NotRunning /\ new.at \notin Creating
    BY <1>1, VersionAssumption DEF Request, Creating, NotRunning
  <2> HIDE DEF new
  <2> QED
    BY <1>1, <1>2, <1>3, <2>1, <2>2, GoesOn
<1>4. CASE ~log[disk].old
  <2>1. /\ session' = disk /\ fp' = disk /\ route' = "unlocked" /\ running' = NotRunning
        /\ codes' = None /\ warned' = warned
    BY <1>1, <1>4 DEF RightPassword, Unlocked
  <2> QED
    BY <1>1, <1>2, <2>1, EnteredMemory DEF MemoryInv, Typed
<1> QED
  BY <1>3, <1>4

(* What a migration writes.                                                *)
LEMMA MigratedContent ==
  ASSUME MemoryInv, running.at = "migrate", Len(log) < MaxVersion
  PROVE  Migrated \in Content /\ Migrated.key <= NextVersion
<1>1. running \in Request /\ running.password \in Password
  BY DEF MemoryInv, Typed, NotRunning, Request
<1> QED
  BY <1>1, NewContent DEF Migrated

LEMMA MigrateMemory == MemoryInv /\ (Migrate \/ MigrateFails) => MemoryInv'
<1> SUFFICES ASSUME MemoryInv, Migrate \/ MigrateFails PROVE MemoryInv'
  OBVIOUS
<1>1. running.at = "migrate" /\ running # NotRunning /\ codes = None
  BY NoneShown DEF Migrate, MigrateFails, NotRunning
<1>2. CASE Migrate
  <2>1. Write(Migrated) /\ Len(log) < MaxVersion
    BY <1>2 DEF Migrate, Write
  <2>2. Grows /\ disk' \in 1 .. Len(log') /\ disk' > Len(log)
    BY <1>1, <2>1, MigratedContent, WriteGrows
  <2>3. running.base \in 1 .. Len(log) /\ log[running.base].old /\ Len(log) \in Nat
    BY <1>1 DEF MemoryInv, Typed, BaseWritten
  <2>4. /\ session' = disk' /\ fp' = running.base /\ route' = "unlocked"
        /\ running' = NotRunning /\ codes' = None /\ warned' = warned
    BY <1>1, <1>2 DEF Migrate, Unlocked
  <2> QED
    BY <2>2, <2>3, <2>4, EnteredMemory DEF MemoryInv, Typed
<1>3. CASE MigrateFails
  <2>1. Grows
    <3>1. CASE UNCHANGED file
      BY <3>1, SameGrows
    <3>2. CASE Write(Migrated)
      BY <1>1, <3>2, MigratedContent, WriteGrows DEF Write
    <3> QED
      BY <1>3, <3>1, <3>2 DEF MigrateFails
  <2> QED
    BY <1>1, <1>3, <2>1, LeftMemory DEF MigrateFails
<1> QED
  BY <1>2, <1>3

LEMMA UnlockMemory == MemoryInv /\ (Unlocks \/ Navigate \/ Elapse) => MemoryInv'
<1> SUFFICES ASSUME MemoryInv, Unlocks \/ Navigate \/ Elapse PROVE MemoryInv'
  OBVIOUS
<1>1. CASE Navigate
  <2>1. running' = NotRunning /\ UNCHANGED <<file, memory>>
    BY <1>1 DEF Navigate, Idle
  <2>2. route # "recoveryCodes" /\ route' \in Route \ {"unlocked", "recoveryCodes"}
    BY <1>1 DEF Navigate, GoTo, SyncedTo, Route
  <2>3. codes = None
    BY <2>2 DEF MemoryInv, Shown
  <2> QED
    BY <2>1, <2>2, <2>3, LeftMemory, SameGrows
<1>2. CASE LockedOut \/ Tick \/ Elapse
  BY <1>2, KeptMemory, SameGrows DEF LockedOut, Tick, Elapse
<1>3. CASE NoVault
  <2>1. /\ running' = NotRunning /\ UNCHANGED <<file, memory>> /\ route = "unlock"
        /\ codes = None
    BY <1>3 DEF NoVault, CanSubmit, Idle, MemoryInv, Shown
  <2>2. route' \in {"create", "corrupt"}
    BY <1>3 DEF NoVault
  <2> QED
    BY <2>1, <2>2, LeftMemory, SameGrows DEF Route
<1>4. ASSUME NEW password \in Password, WrongPassword(password)
      PROVE  MemoryInv'
  BY <1>4, KeptMemory, SameGrows DEF WrongPassword
<1> QED
  BY <1>1, <1>2, <1>3, <1>4, RightPasswordMemory, MigrateMemory DEF Unlocks

LEMMA StartMemory ==
  ASSUME MemoryInv, NEW password \in Password, NEW recovery \in BOOLEAN,
         Start(password, recovery)
  PROVE  MemoryInv'
<1>1. /\ route = "create" /\ running = NotRunning /\ UNCHANGED <<file, memory>>
      /\ codes = None /\ Grows
  BY SameGrows DEF Start, Idle, MemoryInv, Shown
<1>2. CASE route' = "unlock" /\ running' = running
  BY <1>1, <1>2, LeftMemory DEF Route
<1>3. CASE /\ running' = [at |-> "save", password |-> password,
                          recovery |-> recovery, base |-> None]
           /\ route' = route
  <2>1. /\ running' \in Request /\ running'.at = "save" /\ running'.at \in Creating
        /\ running' # NotRunning
    BY <1>3, VersionAssumption DEF Request, Creating, None, NotRunning
  <2> QED
    BY <1>1, <1>3, <2>1, GoesOn DEF memory
<1> QED
  BY <1>2, <1>3 DEF Start

LEMMA SaveMemory == MemoryInv /\ (Save \/ SaveFails) => MemoryInv'
<1> SUFFICES ASSUME MemoryInv, Save \/ SaveFails PROVE MemoryInv'
  OBVIOUS
<1>1. /\ running \in Request /\ running.at = "save" /\ running # NotRunning
      /\ running.password \in Password /\ running.recovery \in BOOLEAN
      /\ codes = None
  BY NoneShown DEF Save, SaveFails, MemoryInv, Typed, NotRunning, Request
<1>2. ASSUME Write(Created)
      PROVE  Grows /\ disk' \in 1 .. Len(log') /\ disk' # None
  <2>1. Created \in Content /\ Created.key <= NextVersion
    BY <1>1, <1>2, NewContent DEF Created, Write
  <2> QED
    BY <1>2, <2>1, WriteGrows
<1>3. CASE Save /\ running.recovery
  <2>1. /\ running' = [running EXCEPT !.at = "recovery", !.base = disk']
        /\ UNCHANGED <<route, session, fp, codes, warned>>
        /\ Grows /\ disk' \in 1 .. Len(log')
    BY <1>2, <1>3 DEF Save
  <2>2. /\ running' \in Request /\ running'.at = "recovery"
        /\ running'.base = disk'
    <3>1. disk' \in 0 .. MaxVersion
      BY <2>1, VersionAssumption DEF Grows
    <3> QED
      BY <1>1, <2>1, <3>1 DEF Request, Creating
  <2>3. running' # NotRunning /\ running'.at \in Creating /\ route = "create"
    BY <1>1, <2>2 DEF NotRunning, Creating, MemoryInv, Busy
  <2> QED
    BY <1>1, <2>1, <2>2, <2>3, GoesOn
<1>4. CASE Save /\ ~running.recovery
  <2>1. Success(disk', None, "unlocked") /\ warned' = warned /\ Write(Created)
    BY <1>4 DEF Save
  <2> QED
    BY <1>2, <2>1, EnteredMemory DEF Success, MemoryInv, Typed
<1>5. CASE SaveFails
  <2>1. Grows
    BY <1>2, <1>5, SameGrows DEF SaveFails
  <2> QED
    BY <1>1, <1>5, <2>1, LeftMemory DEF SaveFails
<1> QED
  BY <1>3, <1>4, <1>5

LEMMA RecoveryMemory ==
  ASSUME MemoryInv, SetupRecovery \/ SetupFails \/ SetupRaises
  PROVE  MemoryInv'
<1>1. /\ running.at = "recovery" /\ running \in Request /\ running # NotRunning
      /\ running.base \in 1 .. Len(log) /\ Len(log) \in Nat /\ codes = None
      /\ log[running.base] \in Content /\ log[running.base].key <= running.base
  BY NoneShown DEF SetupRecovery, SetupFails, SetupRaises, MemoryInv, Typed, NotRunning,
     BaseWritten, KeysInOrder
<1>2. ASSUME Write(WithRecovery)
      PROVE  /\ Grows /\ disk' \in 1 .. Len(log') /\ disk' # None
             /\ log'[disk'].codes = disk'
  <2>1. Len(log) < MaxVersion /\ NextVersion \in 0 .. MaxVersion
    BY <1>1, <1>2, VersionAssumption DEF Write, NextVersion
  <2>2. /\ WithRecovery \in Content /\ WithRecovery.codes = NextVersion
        /\ WithRecovery.key = log[running.base].key
    BY <1>1, <2>1 DEF WithRecovery, Content
  <2>3. WithRecovery.key <= NextVersion
    BY <1>1, <2>2 DEF NextVersion, Content
  <2> QED
    BY <1>2, <2>2, <2>3, WriteGrows
<1>3. CASE SetupRecovery
  <2>1. /\ running' = [running EXCEPT !.at = "show", !.base = disk']
        /\ UNCHANGED <<route, session, fp, codes, warned>>
        /\ Grows /\ disk' \in 1 .. Len(log') /\ log'[disk'].codes = disk'
    BY <1>2, <1>3 DEF SetupRecovery, memory
  <2>2. running' \in Request /\ running'.at = "show" /\ running'.base = disk'
    <3>1. disk' \in 0 .. MaxVersion
      BY <2>1, VersionAssumption DEF Grows
    <3> QED
      BY <1>1, <2>1, <3>1 DEF Request, Creating
  <2>3. running' # NotRunning /\ running'.at \in Creating /\ route = "create"
    BY <1>1, <2>2 DEF NotRunning, Creating, MemoryInv, Busy
  <2>4. Open(running.base)'
    <3>1. disk' \in Int
      BY <1>1, <2>1 DEF Grows, MemoryInv, Typed
    <3>2. log'[disk'].codes >= running'.base
      BY <2>1, <2>2, <3>1
    <3> QED
      BY <3>2 DEF Open
  <2> QED
    BY <1>1, <2>1, <2>2, <2>3, <2>4, GoesOn
<1>4. CASE SetupFails
  <2>1. Grows
    BY <1>2, <1>4, SameGrows DEF SetupFails
  <2>2. running.base \in 1 .. Len(log')
    BY <1>1, <2>1 DEF Grows, MemoryInv, Typed
  <2> QED
    BY <1>4, <2>1, <2>2, EnteredMemory DEF SetupFails, Success
<1>5. CASE SetupRaises
  BY <1>1, <1>5, LeftMemory, SameGrows DEF SetupRaises
<1> QED
  BY <1>3, <1>4, <1>5

LEMMA ShowMemory == MemoryInv /\ ShowCodes => MemoryInv'
<1> SUFFICES ASSUME MemoryInv, ShowCodes PROVE MemoryInv'
  OBVIOUS
<1>1. /\ running.at = "show" /\ UNCHANGED <<file, warned>>
      /\ Success(running.base, running.base, "recoveryCodes")
  BY DEF ShowCodes
<1>2. Grows /\ running.base \in 1 .. Len(log') /\ Open(running.base)
  BY <1>1, SameGrows DEF MemoryInv, BaseWritten, CodesOpen, file
<1>3. PICK version \in 1 .. Len(log') : version = running.base
  BY <1>2
<1>4. UNCHANGED <<log, disk>> /\ Open(version)
  BY <1>1, <1>2, <1>3 DEF file
<1>5. Open(version)'
  BY <1>4 DEF Open
<1>6. /\ session' = version /\ fp' = version /\ codes' = version
      /\ route' = "recoveryCodes" /\ running' = NotRunning
  BY <1>1, <1>3 DEF Success
<1>7. warned' \in BOOLEAN
  BY <1>1 DEF MemoryInv, Typed
<1> QED
  BY <1>2, <1>5, <1>6, <1>7, EnteredMemory

LEMMA AcknowledgeMemory == MemoryInv /\ Acknowledge => MemoryInv'
<1> SUFFICES ASSUME MemoryInv, Acknowledge PROVE MemoryInv'
  OBVIOUS
<1>1. /\ route = "recoveryCodes" /\ route' = "unlocked" /\ codes' = None
      /\ UNCHANGED <<log, disk, damaged, running, session, fp, warned>>
      /\ running = NotRunning
  BY DEF Acknowledge, Idle, file
<1> QED
  BY <1>1 DEF MemoryInv, Typed, Shown, Inside, ReadBefore, Busy, BaseWritten, KeysInOrder,
              CodesOpen, NotRunning, Route, None

LEMMA ElsewhereMemory == MemoryInv /\ Elsewhere => MemoryInv'
<1> SUFFICES ASSUME MemoryInv, Elsewhere PROVE MemoryInv'
  OBVIOUS
<1>1. ASSUME NEW password \in Password, OtherCreates(password) PROVE Grows /\ KeepsOpen
  <2> DEFINE new == [password |-> password, key |-> NextVersion,
                     codes |-> None, old |-> FALSE]
  <2>1. Write(new) /\ new \in Content /\ new.key = NextVersion /\ new.key <= NextVersion
    BY <1>1, NewContent DEF OtherCreates, Write
  <2> HIDE DEF new
  <2> QED
    BY <2>1, WriteGrows DEF KeepsOpen
<1>2. ASSUME OtherSaves \/ OtherRegenerates
      PROVE  Grows /\ KeepsOpen
  <2>1. /\ disk \in 1 .. Len(log) /\ disk # None /\ Len(log) \in Nat
        /\ log[disk] \in Content /\ log[disk].key <= disk
    BY <1>2 DEF OtherSaves, OtherRegenerates, Ready, Missing, None, MemoryInv, Typed,
                KeysInOrder
  <2>2. PICK new \in Content :
          /\ Write(new) /\ new.key = log[disk].key
          /\ new.codes \in {log[disk].codes, NextVersion}
    <3>1. CASE OtherSaves
      BY <2>1, <3>1 DEF OtherSaves
    <3>2. CASE OtherRegenerates
      <4> DEFINE new == [log[disk] EXCEPT !.codes = NextVersion]
      <4>1. NextVersion \in 0 .. MaxVersion
        BY <2>1, <3>2, VersionAssumption DEF OtherRegenerates, Write, NextVersion
      <4>2. /\ new \in Content /\ Write(new) /\ new.key = log[disk].key
            /\ new.codes = NextVersion
        BY <2>1, <3>2, <4>1 DEF OtherRegenerates, Content
      <4> QED
        BY <4>2
    <3> QED
      BY <1>2, <3>1, <3>2
  <2>3. new.key <= NextVersion
    BY <2>1, <2>2 DEF NextVersion, Content
  <2>4. Grows /\ log'[disk'] = new
    BY <2>2, <2>3, WriteGrows
  <2>5. /\ log'[disk'].key = log[disk].key
        /\ log'[disk'].codes \in {log[disk].codes, NextVersion}
    BY <2>2, <2>4
  <2> QED
    BY <2>1, <2>4, <2>5, Zenon DEF KeepsOpen
<1>3. ASSUME OtherDestroys
      PROVE  Grows /\ KeepsOpen
  <2>1. /\ log' = log /\ disk' = 0 /\ damaged' = FALSE
        /\ log \in Seq(Content) /\ Len(log) <= MaxVersion /\ Len(log) \in Nat
        /\ KeysInOrder
    BY <1>3 DEF OtherDestroys, None, MemoryInv, Typed
  <2>2. damaged' \in BOOLEAN
    BY <2>1
  <2>3. Grows
    BY <2>1, <2>2 DEF Grows, KeysInOrder
  <2> QED
    BY <2>1, <2>3, Zenon DEF KeepsOpen, None
<1>4. ASSUME Damage
      PROVE  Grows /\ KeepsOpen
  <2>1. UNCHANGED <<log, disk>> /\ damaged' = TRUE /\ Len(log) \in Nat
    BY <1>4 DEF Damage, MemoryInv, Typed
  <2>2. Grows
    BY <2>1 DEF MemoryInv, Typed, Grows, KeysInOrder
  <2> QED
    BY <2>1, <2>2, Zenon DEF KeepsOpen
<1>5. \/ \E password \in Password : OtherCreates(password)
      \/ OtherSaves \/ OtherRegenerates \/ OtherDestroys \/ Damage
  BY Zenon DEF Elsewhere
<1>6. Grows /\ KeepsOpen
  BY <1>1, <1>2, <1>3, <1>4, <1>5, Zenon
<1>7. UNCHANGED <<route, running, memory>>
  BY Zenon DEF Elsewhere
<1> QED
  BY <1>6, <1>7, KeptMemory

LEMMA StepMemory == MemoryInv /\ [Next]_vars => MemoryInv'
<1> SUFFICES ASSUME MemoryInv, [Next]_vars PROVE MemoryInv'
  OBVIOUS
<1>1. CASE UNCHANGED vars
  BY <1>1, SameGrows, KeptMemory DEF vars
<1> QED
  BY <1>1, UnlockMemory, StartMemory, SaveMemory, RecoveryMemory, ShowMemory,
     AcknowledgeMemory, ElsewhereMemory DEF Next, Creates

(* A session is of a version that was written, and its fingerprint of that *)
(* version or of the old one it was migrated from; codes on the screen are *)
(* the session's, and a slot runs on its own screen only.                  *)
THEOREM MemoryIsConsistent == Spec => []MemoryInv
  BY InitMemory, StepMemory, PTL DEF Spec

(* As long as the file holds the vault that was created, the recovery      *)
(* codes on the screen open it, unless another instance has made newer     *)
(* ones, and they stay until the user has acknowledged them (create_vault, *)
(* createVault, acknowledgeRecoveryCodes).                                 *)
THEOREM CodesAreOfTheVault == Spec => ShownCodesOpenTheVault
<1> DEFINE Opens == codes' # None /\ disk' # None /\ log'[disk'].key = log'[codes'].key
                      => log'[disk'].codes >= codes'
           Stays == codes # None /\ codes' # codes
                      => codes' = None /\ route = "recoveryCodes"
<1>1. MemoryInv' => Opens
  BY DEF MemoryInv, CodesOpen, Open
<1>2. MemoryInv /\ [Next]_vars => [Stays]_vars
  <2> SUFFICES ASSUME MemoryInv, Next PROVE Stays
    OBVIOUS
  <2>1. ASSUME running # NotRunning PROVE Stays
    BY <2>1, NoneShown
  <2>2. ASSUME codes' = codes PROVE Stays
    BY <2>2
  <2>3. CASE Save \/ SaveFails \/ SetupRecovery \/ SetupFails \/ SetupRaises \/ ShowCodes
             \/ Migrate \/ MigrateFails
    BY <2>1, <2>3 DEF Save, SaveFails, SetupRecovery, SetupFails, SetupRaises, ShowCodes,
       Migrate, MigrateFails, NotRunning
  <2>4. CASE Acknowledge
    BY <2>4 DEF Acknowledge
  <2>5. ASSUME NEW password \in Password, WrongPassword(password) \/ RightPassword(password)
        PROVE  Stays
    BY <2>2, <2>5 DEF WrongPassword, RightPassword, Unlocked, memory
  <2>6. CASE LockedOut \/ NoVault \/ Tick
    BY <2>2, <2>6 DEF LockedOut, NoVault, Tick, memory
  <2>7. ASSUME NEW password \in Password, NEW recovery \in BOOLEAN,
               Start(password, recovery)
        PROVE  Stays
    BY <2>2, <2>7 DEF Start, memory
  <2>8. CASE Navigate \/ Elapse \/ Elsewhere
    BY <2>2, <2>8 DEF Navigate, Elapse, Elsewhere, memory
  <2> QED
    BY <2>3, <2>4, <2>5, <2>6, <2>7, <2>8 DEF Next, Creates, Unlocks
<1>3. Spec => []MemoryInv
  BY MemoryIsConsistent
<1> QED
  BY <1>1, <1>2, <1>3, PTL DEF Spec, ShownCodesOpenTheVault

-----------------------------------------------------------------------------
(***************************************************************************)
(* The limiter.                                                            *)
(***************************************************************************)

(* Every wait is a number no greater than MAX_DELAY.                       *)
LEMMA BackOffBounded ==
  ASSUME NEW n \in Nat
  PROVE  BackOff(n) \in Int /\ BackOff(n) <= MaxDelay
<1>1. 2 ^ n \in Int
  BY Z3
<1> QED
  BY <1>1, DelayAssumption DEF BackOff, Lesser

(* A new limiter, or one reset by a success, has nothing to keep.          *)
LEMMA NewKeeps == \A s \in 0 .. MaxDelay : Keeps(NewLimiter, 0, s)
  BY DelayAssumption, FailureAssumption DEF Keeps, NewLimiter

(* A failure is counted, and the wait starts anew.                         *)
LEMMA FailureKeeps ==
  ASSUME NEW lim, NEW n, NEW s, Keeps(lim, n, s)
  PROVE  Keeps(RecordFailure(lim), OneMore(n), 0)
<1> DEFINE m == OneMore(n)
<1> USE DelayAssumption, FailureAssumption
<1>1. m \in 0 .. MaxFailures
  BY DEF Keeps, OneMore, Lesser
<1>2. RecordFailure(lim) = [failures |-> m, remaining |-> BackOff(m)]
  BY DEF RecordFailure, Keeps
<1>3. BackOff(m) \in Int
  BY <1>1, BackOffBounded
<1> HIDE DEF m
<1> QED
  BY <1>1, <1>2, <1>3 DEF Keeps, m

(* A second: what it adds to the time waited it takes from the time left.  *)
LEMMA LaterKeeps ==
  ASSUME NEW lim, NEW n, NEW s, Keeps(lim, n, s)
  PROVE  Keeps(Later(lim), n, Lesser(s + 1, MaxDelay))
<1> USE DelayAssumption, FailureAssumption
<1>1. /\ lim.remaining \in Int /\ lim.failures \in 0 .. MaxFailures
      /\ s \in 0 .. MaxDelay /\ n = lim.failures
      /\ Later(lim) = [failures |-> n, remaining |->
                             IF lim.remaining > 0 THEN lim.remaining - 1 ELSE 0]
  BY DEF Keeps, Later
<1>2. Lesser(s + 1, MaxDelay) = IF s + 1 < MaxDelay THEN s + 1 ELSE MaxDelay
  BY DEF Lesser
<1>3. ASSUME n > 0
      PROVE  Lesser(s + 1, MaxDelay) + Later(lim).remaining >= BackOff(n)
  <2>1. BackOff(n) \in Int /\ BackOff(n) <= MaxDelay
    BY <1>1, BackOffBounded
  <2>2. s + lim.remaining >= BackOff(n)
    BY <1>3 DEF Keeps
  <2> QED
    BY <1>1, <1>2, <2>1, <2>2
<1> QED
  BY <1>1, <1>2, <1>3 DEF Keeps

(* When nothing is left to wait, the whole back-off has passed.            *)
LEMMA WaitIsOver ==
  ASSUME NEW lim, NEW n, NEW s, Keeps(lim, n, s), ~IsLocked(lim), n > 0
  PROVE  s >= BackOff(n)
<1>1. n \in Nat /\ s \in Int /\ lim.remaining \in Int /\ lim.remaining <= 0
  BY DelayAssumption, FailureAssumption DEF Keeps, IsLocked
<1>2. BackOff(n) \in Int
  BY <1>1, BackOffBounded
<1> QED
  BY <1>1, <1>2 DEF Keeps

LimiterInv == Keeps(limiter, wrong, since)

LEMMA InitLimiter == Init => LimiterInv
  BY NewKeeps, DelayAssumption DEF Init, LimiterInv

LEMMA StepLimiter == LimiterInv /\ [Next]_vars => LimiterInv'
<1> SUFFICES ASSUME LimiterInv, [Next]_vars PROVE LimiterInv'
  OBVIOUS
<1> USE DEF LimiterInv
<1>1. CASE Navigate
  BY <1>1 DEF Navigate, limits, history
<1>2. CASE LockedOut
  BY <1>2 DEF LockedOut, history
<1>3. CASE NoVault
  BY <1>3 DEF NoVault, history
<1>4. ASSUME NEW password \in Password, WrongPassword(password)
      PROVE  LimiterInv'
  <2>1. limiter' = RecordFailure(limiter) /\ wrong' = OneMore(wrong) /\ since' = 0
    BY <1>4 DEF WrongPassword
  <2> QED
    BY <2>1, FailureKeeps
<1>5. ASSUME NEW password \in Password, RightPassword(password)
      PROVE  LimiterInv'
  BY <1>5, NewKeeps, DelayAssumption
  DEF RightPassword, Unlocked, RecordSuccess, limits, history
<1>12. CASE Migrate \/ MigrateFails
  BY <1>12, NewKeeps, DelayAssumption
  DEF Migrate, MigrateFails, Unlocked, RecordSuccess, limits, history
<1>6. CASE Tick
  BY <1>6 DEF Tick, history
<1>7. CASE Elapse
  <2>1. limiter' = Later(limiter) /\ since' = Lesser(since + 1, MaxDelay) /\ wrong' = wrong
    BY <1>7 DEF Elapse
  <2> QED
    BY <2>1, LaterKeeps
<1>8. ASSUME NEW password \in Password, NEW recovery \in BOOLEAN, Start(password, recovery)
      PROVE  LimiterInv'
  BY <1>8 DEF Start, limits, history
<1>9. CASE Save \/ SaveFails \/ SetupRecovery \/ SetupFails \/ SetupRaises \/ ShowCodes
           \/ Acknowledge
  BY <1>9 DEF Save, SaveFails, SetupRecovery, SetupFails, SetupRaises, ShowCodes,
     Acknowledge, limits, history
<1>10. CASE Elsewhere
  BY <1>10 DEF Elsewhere, limits, history
<1>11. CASE UNCHANGED vars
  BY <1>11 DEF vars, limits, history
<1> QED
  BY <1>1, <1>2, <1>3, <1>4, <1>5, <1>6, <1>7, <1>8, <1>9, <1>10, <1>11, <1>12
  DEF Next, Unlocks, Creates

(* What the limiter has counted is what the user has tried, whatever       *)
(* screens were visited and vaults created meanwhile.                      *)
THEOREM LimiterCounts == Spec => []LimiterInv
  BY InitLimiter, StepLimiter, PTL DEF Spec

(* submitPassword looks at no password before the back-off is over.        *)
THEOREM ControllerWaits == Spec => BackOffIsKept
<1> DEFINE Tried == /\ \E password \in Password :
                         WrongPassword(password) \/ RightPassword(password)
                    /\ wrong > 0
<1>1. LimiterInv /\ [Next]_vars => [Tried => since >= BackOff(wrong)]_vars
  <2> SUFFICES ASSUME LimiterInv, Tried PROVE since >= BackOff(wrong)
    OBVIOUS
  <2>1. Keeps(limiter, wrong, since) /\ ~IsLocked(limiter) /\ wrong > 0
    BY DEF LimiterInv, WrongPassword, RightPassword
  <2> QED
    BY <2>1, WaitIsOver
<1> QED
  BY <1>1, LimiterCounts, PTL DEF Spec, BackOffIsKept
-----------------------------------------------------------------------------
(***************************************************************************)
(* The types of the limiter, of the cooldown that is shown, and of the     *)
(* history.                                                                *)
(***************************************************************************)

LEMMA LimiterTyped ==
  /\ NewLimiter \in Limiter
  /\ \A lim \in Limiter : RecordFailure(lim) \in Limiter /\ Later(lim) \in Limiter
  /\ \A n \in 0 .. MaxFailures : OneMore(n) \in 0 .. MaxFailures
  /\ \A s \in 0 .. MaxDelay : Lesser(s + 1, MaxDelay) \in 0 .. MaxDelay
<1>1. \A n \in 0 .. MaxFailures : OneMore(n) \in 0 .. MaxFailures
  BY FailureAssumption DEF OneMore, Lesser
<1>2. \A n \in 0 .. MaxFailures : BackOff(n) \in 0 .. MaxDelay
  <2>1. \A n \in 0 .. MaxFailures : 2 ^ n \in Nat
    BY PowerAssumption, Zenon
  <2>2. \A p \in Nat : Lesser(p, MaxDelay) \in 0 .. MaxDelay
    BY DelayAssumption DEF Lesser
  <2> QED
    BY <2>1, <2>2, Zenon DEF BackOff
<1>3. \A s \in 0 .. MaxDelay : Lesser(s + 1, MaxDelay) \in 0 .. MaxDelay
  BY DelayAssumption DEF Lesser
<1>4. NewLimiter \in Limiter
  BY DelayAssumption, FailureAssumption DEF NewLimiter, Limiter
<1>5. ASSUME NEW lim \in Limiter PROVE RecordFailure(lim) \in Limiter
  <2>1. lim.failures \in 0 .. MaxFailures
    BY DEF Limiter
  <2>2. OneMore(lim.failures) \in 0 .. MaxFailures /\ BackOff(OneMore(lim.failures)) \in 0 .. MaxDelay
    BY <1>1, <1>2, <2>1
  <2> QED
    BY <2>2, Zenon DEF RecordFailure, Limiter
<1>6. ASSUME NEW lim \in Limiter PROVE Later(lim) \in Limiter
  BY DelayAssumption DEF Later, Limiter
<1> QED
  BY <1>1, <1>3, <1>4, <1>5, <1>6

WaitTyped ==
  /\ limiter \in Limiter
  /\ cooldown \in 0 .. MaxDelay /\ since \in 0 .. MaxDelay /\ ticking \in BOOLEAN
  /\ wrong \in 0 .. MaxFailures

LEMMA InitWait == Init => WaitTyped
<1> SUFFICES ASSUME Init PROVE WaitTyped
  OBVIOUS
<1>1. /\ limiter = NewLimiter /\ cooldown = 0 /\ ticking = FALSE
      /\ wrong = 0 /\ since = MaxDelay
  BY DEF Init
<1>2. ticking \in BOOLEAN
  BY <1>1
<1> QED
  BY <1>1, <1>2, LimiterTyped, DelayAssumption, FailureAssumption DEF WaitTyped

(* What is shown of a limiter has the type of what is shown.               *)
LEMMA CooldownTyped ==
  ASSUME limiter' \in Limiter, StartCooldown \/ StopCooldown
  PROVE  cooldown' \in 0 .. MaxDelay /\ ticking' \in BOOLEAN
<1>1. limiter'.remaining \in 0 .. MaxDelay /\ 0 \in 0 .. MaxDelay
  BY DelayAssumption DEF Limiter
<1>2. IsLocked(limiter') \in BOOLEAN
  BY <1>1 DEF IsLocked
<1>3. CASE StartCooldown
  <2>1. cooldown' = limiter'.remaining
    BY <1>3 DEF StartCooldown
  <2>2. ticking' \in BOOLEAN
    BY <1>2, <1>3, Zenon DEF StartCooldown
  <2> QED
    BY <1>1, <2>1, <2>2
<1>4. CASE StopCooldown
  BY <1>1, <1>4 DEF StopCooldown
<1> QED
  BY <1>3, <1>4

LEMMA StepWait == WaitTyped /\ [Next]_vars => WaitTyped'
<1> SUFFICES ASSUME WaitTyped, [Next]_vars PROVE WaitTyped'
  OBVIOUS
<1> USE DEF WaitTyped
<1>0. MaxDelay \in 0 .. MaxDelay /\ 0 \in 0 .. MaxDelay /\ 0 \in 0 .. MaxFailures
  BY DelayAssumption, FailureAssumption
<1>1. CASE Navigate
  BY <1>1 DEF Navigate, limits, history
<1>2. CASE LockedOut
  <2>1. UNCHANGED <<limiter, wrong, since>> /\ StartCooldown
    BY <1>2 DEF LockedOut, history
  <2> QED
    BY <2>1, CooldownTyped
<1>3. CASE NoVault
  <2>1. UNCHANGED <<limiter, wrong, since>> /\ StopCooldown
    BY <1>3 DEF NoVault, history
  <2> QED
    BY <2>1, CooldownTyped
<1>4. ASSUME NEW password \in Password, WrongPassword(password)
      PROVE  WaitTyped'
  <2>1. /\ limiter' = RecordFailure(limiter) /\ wrong' = OneMore(wrong) /\ since' = 0
        /\ StartCooldown
    BY <1>4 DEF WrongPassword
  <2> QED
    BY <1>0, <2>1, LimiterTyped, CooldownTyped
<1>5. ASSUME NEW password \in Password, RightPassword(password)
      PROVE  WaitTyped'
  <2>1. CASE limiter' = NewLimiter /\ wrong' = 0 /\ since' = MaxDelay /\ StopCooldown
    BY <1>0, <2>1, LimiterTyped, CooldownTyped
  <2>2. CASE UNCHANGED <<limits, history>>
    BY <2>2 DEF limits, history
  <2> QED
    BY <1>5, <2>1, <2>2 DEF RightPassword, Unlocked, RecordSuccess
<1>12. CASE Migrate
  <2>1. limiter' = NewLimiter /\ wrong' = 0 /\ since' = MaxDelay /\ StopCooldown
    BY <1>12 DEF Migrate, Unlocked, RecordSuccess
  <2> QED
    BY <1>0, <2>1, LimiterTyped, CooldownTyped
<1>6. CASE Tick
  <2>1. UNCHANGED <<limiter, wrong, since>> /\ StartCooldown
    BY <1>6, Zenon DEF Tick, StartCooldown, history
  <2> QED
    BY <2>1, CooldownTyped
<1>7. CASE Elapse
  BY <1>7, LimiterTyped DEF Elapse
<1>8. ASSUME NEW password \in Password, NEW recovery \in BOOLEAN, Start(password, recovery)
      PROVE  WaitTyped'
  BY <1>8 DEF Start, limits, history
<1>9. CASE Save \/ ShowCodes \/ SetupFails
  <2>1. /\ UNCHANGED <<limiter, wrong, since>>
        /\ UNCHANGED <<cooldown, ticking>> \/ StopCooldown
    BY <1>9 DEF Save, ShowCodes, SetupFails, Success, history
  <2> QED
    BY <2>1, CooldownTyped
<1>10. CASE SaveFails \/ SetupRecovery \/ SetupRaises \/ Acknowledge \/ Elsewhere
             \/ MigrateFails
  BY <1>10 DEF SaveFails, SetupRecovery, SetupRaises, Acknowledge, Elsewhere, MigrateFails,
     limits, history
<1>11. CASE UNCHANGED vars
  BY <1>11 DEF vars, limits, history
<1> QED
  BY <1>1, <1>2, <1>3, <1>4, <1>5, <1>6, <1>7, <1>8, <1>9, <1>10, <1>11, <1>12
  DEF Next, Unlocks, Creates

(* The variables of the controller have their types, and its memory, its   *)
(* screen and the vault that is being created fit one another.             *)
THEOREM ControllerIsTyped == Spec => []TypeOK
<1>1. Spec => []WaitTyped
  BY InitWait, StepWait, PTL DEF Spec
<1>2. MemoryInv /\ WaitTyped => TypeOK
  BY DEF MemoryInv, WaitTyped, Typed, Shown, Inside, ReadBefore, Busy, TypeOK
<1> QED
  BY <1>1, <1>2, MemoryIsConsistent, PTL
=============================================================================
