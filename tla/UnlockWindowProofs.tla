------------------------- MODULE UnlockWindowProofs -------------------------
(***************************************************************************)
(* What the unlock window promises for any threshold, any number of        *)
(* versions, whatever other instances do and however storage fails.        *)
(***************************************************************************)
EXTENDS UnlockWindow, SequenceTheorems, TLAPS

(* Every file is of a version that was written, and an old one has no      *)
(* recovery.                                                               *)
FileInv ==
  /\ log \in Seq(Content) /\ Len(log) <= MaxVersion
  /\ {disk, bak} \subseteq File \union {NoFile}
  /\ portable \subseteq File
  /\ \A f \in {disk, bak} \union portable : f.ver <= Len(log)
  /\ \A v \in 1 .. Len(log) : log[v].old => log[v].codes = NoCodes

(* From the moment a header is in memory until the window is left, it is   *)
(* that of the version the fingerprint names, migrated if that is old.     *)
HasSession == {"setup", "migrate", "codes", "opened", "newPassword", "rotate"}

SessionInv ==
  /\ screen \in Screen
  /\ header \in Content \union {NoHeader}
  /\ fp \in 0 .. Len(log)
  /\ was \in Version \union {Wrong}
  /\ used \subseteq Version
  /\ screen \in HasSession =>
       fp # 0 /\ header = IF screen = "migrate" THEN log[fp] ELSE Migrated(log[fp])

(* The links and the end of recovery stand for the failures, in dialogs    *)
(* too, and who enters a code is below the threshold.                      *)
LimitInv ==
  /\ failures \in 0 .. Threshold /\ recFailures \in 0 .. Threshold
  /\ {locked, recLocked, exhausted, entry, timer, right} \subseteq BOOLEAN
  /\ links \in {"none", "recovery", "strict"}
  /\ screen \in {"unlock", "migrate"} \union Modal =>
       /\ links # "none" <=> failures = Threshold
       /\ exhausted <=> recFailures = Threshold
  /\ screen = "askCode" => ~exhausted

WindowInv == FileInv /\ SessionInv /\ LimitInv

LEMMA InvTypes == WindowInv => TypeOK
  BY DEF WindowInv, FileInv, SessionInv, LimitInv, TypeOK

LEMMA InitWindow == Init => WindowInv
<1> SUFFICES ASSUME Init PROVE WindowInv
  OBVIOUS
<1>1. FileInv /\ fp \in 0 .. Len(log)
  <2>1. CASE log = <<>> /\ disk = NoFile /\ bak = NoFile /\ portable = {}
    <3>1. log \in Seq(Content) /\ Len(log) = 0
      BY <2>1, EmptySeq
    <3> QED
      BY <2>1, <3>1, VersionAssumption DEF FileInv, NoFile, Init
  <2>2. ASSUME NEW codes \in {NoCodes, 2}, NEW old \in BOOLEAN,
               old => codes = NoCodes,
               log = << [pw |-> 1, codes |-> NoCodes, old |-> old],
                        [pw |-> 1, codes |-> codes, old |-> old] >>,
               disk = [ver |-> 2, state |-> "whole"],
               bak \in {NoFile, [ver |-> 1, state |-> "whole"]},
               portable \in {{}, {[ver |-> 1, state |-> "whole"]}}
        PROVE  FileInv /\ fp \in 0 .. Len(log)
    BY <2>2, VersionAssumption
    DEF FileInv, NoFile, File, Content, Version, NoCodes, Init
  <2> QED
    BY <2>1, <2>2 DEF Init
<1>2. SessionInv
  BY <1>1 DEF Init, SessionInv, Screen, HasSession, Exists
<1>3. LimitInv
  <2>1. /\ failures = 0 /\ recFailures = 0 /\ links = "none"
        /\ ~exhausted /\ screen # "askCode"
        /\ {locked, recLocked, exhausted, entry, timer, right} \subseteq BOOLEAN
    BY DEF Init
  <2> QED
    BY <2>1, ThresholdAssumption DEF LimitInv
<1> QED
  BY <1>1, <1>2, <1>3 DEF WindowInv

-----------------------------------------------------------------------------
(***************************************************************************)
(* The files.                                                              *)
(***************************************************************************)

(* The versions that were written stay what they are.                      *)
Grows == /\ FileInv' /\ Len(log') >= Len(log)
         /\ \A v \in 1 .. Len(log) : log'[v] = log[v]

LEMMA SameGrows == FileInv /\ UNCHANGED file => Grows
  BY DEF FileInv, file, Grows

LEMMA PutGrows ==
  ASSUME FileInv, NEW f \in File, f.ver <= Len(log), Put(f), UNCHANGED <<log, portable>>
  PROVE  Grows
  BY DEF FileInv, Put, Grows

LEMMA WriteGrows ==
  ASSUME FileInv, NEW content \in Content, ~content.old, Write(content), UNCHANGED portable
  PROVE  /\ Grows
         /\ NextVersion \in 1 .. Len(log') /\ log'[NextVersion] = content
<1>1. /\ log' \in Seq(Content) /\ Len(log') = Len(log) + 1 /\ Len(log) \in Nat
      /\ \A v \in 1 .. Len(log) : log'[v] = log[v]
      /\ log'[NextVersion] = content
  BY AppendProperties, LenProperties DEF FileInv, Write, NextVersion
<1> DEFINE f == [ver |-> NextVersion, state |-> "whole"]
<1>2. /\ disk' = f
      /\ bak' \in {disk, bak}
      /\ Len(log) < MaxVersion
  BY DEF Write, Put
<1>3. f \in File /\ f.ver = Len(log) + 1
  BY <1>1, <1>2, VersionAssumption DEF File, Version, NextVersion
<1>4. FileInv'
  <2> HIDE DEF f
  <2>1. {disk', bak'} \subseteq File \union {NoFile} /\ portable' \subseteq File
    BY <1>2, <1>3 DEF FileInv
  <2>2. \A g \in {disk, bak} \union portable : g.ver <= Len(log')
    <3>1. ASSUME NEW g \in {disk, bak} \union portable PROVE g.ver \in Int /\ g.ver <= Len(log)
      BY DEF FileInv, File, NoFile, Version
    <3> QED
      BY <1>1, <3>1
  <2>3. f.ver <= Len(log')
    BY <1>1, <1>3
  <2>4. Len(log') <= MaxVersion
    BY <1>1, <1>2, VersionAssumption
  <2>5. ASSUME NEW v \in 1 .. Len(log'), log'[v].old PROVE log'[v].codes = NoCodes
    <3>1. v \in 1 .. Len(log) \/ v = NextVersion
      BY <1>1 DEF NextVersion
    <3> QED
      BY <1>1, <2>5, <3>1 DEF FileInv
  <2> QED
    BY <1>1, <1>2, <2>1, <2>2, <2>3, <2>4, <2>5 DEF FileInv
<1> QED
  BY <1>1, <1>4 DEF Grows, NextVersion

(* What the handlers write is content of a vault in the new format.        *)
LEMMA WritesContent ==
  ASSUME FileInv, SessionInv, Len(log) < MaxVersion
  PROVE  /\ Created \in Content /\ ~Created.old
         /\ screen \in HasSession =>
              /\ Migrated(header) \in Content /\ ~Migrated(header).old
              /\ screen # "migrate" =>
                   /\ {WithCodes, WithPassword} \subseteq Content
                   /\ ~WithCodes.old /\ ~WithPassword.old
<1>1. Len(log) \in Nat /\ NextVersion \in Version
  BY LenProperties, VersionAssumption DEF FileInv, NextVersion, Version
<1>2. screen \in HasSession => log[fp] \in Content
  BY <1>1, ElementOfSeq DEF SessionInv, FileInv
<1>3. screen \in HasSession =>
        header \in Content /\ (screen # "migrate" => ~header.old)
  BY <1>2 DEF SessionInv, Migrated, Content
<1> QED
  BY <1>1, <1>3 DEF Created, WithCodes, WithPassword, Migrated, Content

LEMMA StepFile == WindowInv /\ [Next]_vars => Grows
<1> SUFFICES ASSUME FileInv, SessionInv, [Next]_vars PROVE Grows
  BY DEF WindowInv
<1>1. CASE CreateVault
  <2>1. UNCHANGED portable
    BY <1>1 DEF CreateVault
  <2>2. SavesAs(Created) \/ SaveFails(Created) \/ UNCHANGED <<log, disk, bak>>
    BY <1>1 DEF CreateVault, Raises
  <2>3. Write(Created) => Created \in Content /\ ~Created.old
    BY WritesContent DEF Write
  <2> QED
    BY <2>1, <2>2, <2>3, WriteGrows, SameGrows DEF SavesAs, SaveFails, file
<1>2. CASE SetupRecovery \/ RotateCodes
  <2>1. UNCHANGED portable /\ screen \in HasSession \ {"migrate"}
    BY <1>2 DEF SetupRecovery, RotateCodes, HasSession
  <2>2. Write(WithCodes) \/ UNCHANGED <<log, disk, bak>>
    BY <1>2 DEF SetupRecovery, RotateCodes, RecoveryFails, SavesAs, SaveFails, Raises
  <2>3. Write(WithCodes) => WithCodes \in Content /\ ~WithCodes.old
    BY <2>1, WritesContent DEF Write
  <2> QED
    BY <2>1, <2>2, <2>3, WriteGrows, SameGrows DEF file
<1>3. CASE RewrapPassword
  <2>1. UNCHANGED portable /\ screen \in HasSession \ {"migrate"}
    BY <1>3 DEF RewrapPassword, HasSession
  <2>2. Write(WithPassword) \/ UNCHANGED <<log, disk, bak>>
    BY <1>3 DEF RewrapPassword, RecoveryFails, SavesAs, SaveFails, Raises
  <2>3. Write(WithPassword) => WithPassword \in Content /\ ~WithPassword.old
    BY <2>1, WritesContent DEF Write
  <2> QED
    BY <2>1, <2>2, <2>3, WriteGrows, SameGrows DEF file
<1>12. CASE Migrate
  <2>1. UNCHANGED portable /\ screen \in HasSession
    BY <1>12 DEF Migrate, HasSession
  <2>2. Write(Migrated(header)) \/ UNCHANGED <<log, disk, bak>>
    BY <1>12 DEF Migrate, SaveFails, Raises
  <2>3. Write(Migrated(header)) => Migrated(header) \in Content /\ ~Migrated(header).old
    BY <2>1, WritesContent DEF Write
  <2> QED
    BY <2>1, <2>2, <2>3, WriteGrows, SameGrows DEF file
<1>4. CASE \/ CloseCodes \/ Start \/ PasswordRejected \/ PasswordOpens \/ CorruptFound
           \/ Elapse \/ Tick \/ StartRecovery \/ NoCodeTried \/ CodesRejected
           \/ NoRecoveryFound \/ CodesAccepted \/ NoPasswordChosen
  BY <1>4, SameGrows
  DEF CloseCodes, Start, PasswordRejected, PasswordOpens, CorruptFound, Elapse, Tick,
      StartRecovery, NoCodeTried, CodesRejected, NoRecoveryFound, CodesAccepted,
      NoPasswordChosen
<1>5. CASE RestoreBackup
  <2>1. disk' = bak /\ UNCHANGED <<log, bak, portable>>
    BY <1>5 DEF RestoreBackup
  <2> QED
    BY <2>1 DEF FileInv, Grows
<1>6. CASE RestorePortable \/ OtherImports
  <2>1. PICK f \in portable : Put(f)
    BY <1>6 DEF RestorePortable, OtherImports
  <2>2. UNCHANGED <<log, portable>>
    BY <1>6 DEF RestorePortable, OtherImports, Elsewhere
  <2>3. f \in File /\ f.ver <= Len(log)
    BY DEF FileInv
  <2> QED
    BY <2>1, <2>2, <2>3, PutGrows
<1>7. CASE ResetVault \/ OtherDestroys
  <2>1. /\ disk' \in {disk, NoFile} /\ bak' \in {bak, NoFile}
        /\ UNCHANGED <<log, portable>>
    BY <1>7 DEF ResetVault, OtherDestroys, Elsewhere
  <2>2. NoFile.ver <= Len(log)
    BY LenProperties DEF FileInv, NoFile
  <2> QED
    BY <2>1, <2>2 DEF FileInv, Grows
<1>8. CASE OtherCreates
  <2>1. Write(Created) /\ UNCHANGED portable
    BY <1>8 DEF OtherCreates, Elsewhere
  <2>2. Created \in Content /\ ~Created.old
    BY <2>1, WritesContent DEF Write
  <2> QED
    BY <2>1, <2>2, WriteGrows
<1>9. CASE OtherActivates \/ OtherMigrates
  <2>1. PICK content \in { [log[Now] EXCEPT !.codes = NextVersion], Migrated(log[Now]) } :
          /\ Write(content)
          /\ content = Migrated(log[Now]) \/ ~log[Now].old
    BY <1>9 DEF OtherActivates, OtherMigrates
  <2>2. UNCHANGED portable /\ disk \in File /\ Now \in 1 .. Len(log)
    BY <1>9, LenProperties
    DEF OtherActivates, OtherMigrates, Elsewhere, Exists, FileInv, Now, File, Version
  <2>3. log[Now] \in Content /\ NextVersion \in Version
    BY <2>1, <2>2, ElementOfSeq, LenProperties, VersionAssumption
    DEF FileInv, Write, NextVersion, Version
  <2>4. content \in Content /\ ~content.old
    BY <2>1, <2>3 DEF Content, Migrated
  <2> QED
    BY <2>1, <2>2, <2>4, WriteGrows
<1>10. CASE Damage
  <2>1. PICK state \in {"header", "payload"} : disk' = [disk EXCEPT !.state = state]
    BY <1>10 DEF Damage
  <2>2. disk \in File /\ UNCHANGED <<log, bak, portable>>
    BY <1>10 DEF Damage, Elsewhere, Exists, FileInv
  <2>3. disk' \in File /\ disk'.ver = disk.ver
    BY <2>1, <2>2 DEF File
  <2> QED
    BY <2>2, <2>3 DEF FileInv, Grows
<1>11. CASE UNCHANGED vars
  BY <1>11, SameGrows DEF vars
<1> QED
  BY <1>1, <1>2, <1>3, <1>4, <1>5, <1>6, <1>7, <1>8, <1>9, <1>10, <1>11,
     <1>12
  DEF Next

-----------------------------------------------------------------------------
(***************************************************************************)
(* The session.                                                            *)
(***************************************************************************)

(* What is in memory stays of its version while the file goes on.          *)
LEMMA SessionStays ==
  ASSUME FileInv, SessionInv, Grows, UNCHANGED <<header, fp, was, used>>,
         screen' \in Screen,
         screen' \in HasSession =>
           screen \in HasSession /\ (screen = "migrate" <=> screen' = "migrate")
  PROVE  SessionInv'
<1>1. Len(log) \in Nat /\ Len(log') \in Nat /\ Len(log') >= Len(log)
  BY LenProperties DEF FileInv, Grows
<1>2. fp' \in 0 .. Len(log') /\ (fp # 0 => log'[fp] = log[fp])
  BY <1>1 DEF SessionInv, Grows
<1> QED
  BY <1>2 DEF SessionInv

(* A new header is the one that was read or has just been saved.           *)
LEMMA SessionOf ==
  ASSUME FileInv, SessionInv, Grows, screen' \in Screen,
         was' \in Version \union {Wrong}, used' \subseteq Version,
         NEW v \in 1 .. Len(log'), fp' = v,
         header' = IF screen' = "migrate" THEN log'[v] ELSE Migrated(log'[v])
  PROVE  SessionInv'
<1>1. header' \in Content
  <2>1. log'[v] \in Content
    BY ElementOfSeq DEF FileInv, Grows
  <2> QED
    BY <2>1 DEF Migrated, Content
<1>2. fp' \in 0 .. Len(log') /\ fp' # 0
  BY LenProperties DEF FileInv, Grows
<1> QED
  BY <1>1, <1>2 DEF SessionInv

(* A save that goes through.                                               *)
LEMMA SessionSaved ==
  ASSUME FileInv, SessionInv, Grows, NEW content \in Content, ~content.old, SavesAs(content),
         screen' \in Screen \ {"migrate"}, UNCHANGED <<was, used>>
  PROVE  SessionInv'
<1>1. /\ log' = Append(log, content) /\ header' = content /\ fp' = NextVersion
      /\ log \in Seq(Content) /\ log' \in Seq(Content)
  BY DEF SavesAs, Write, FileInv, Grows
<1>2. /\ Len(log) \in Nat
      /\ Len(Append(log, content)) = Len(log) + 1
      /\ Append(log, content)[Len(log) + 1] = content
  BY <1>1, LenProperties, AppendProperties DEF FileInv
<1>3. NextVersion \in 1 .. Len(log') /\ header' = log'[NextVersion]
  BY <1>1, <1>2 DEF NextVersion
<1>4. Migrated(content) = content
  BY DEF Migrated, Content
<1> QED
  BY <1>1, <1>3, <1>4, SessionOf DEF SessionInv

(* A recovery that could not be saved leaves nothing in memory.            *)
LEMMA SessionForgotten ==
  ASSUME FileInv, SessionInv, Grows, Forgets,
         was' \in Version \union {Wrong}, used' = used,
         screen' \in Screen \ HasSession
  PROVE  SessionInv'
  BY LenProperties DEF FileInv, SessionInv, Grows, Forgets

LEMMA StepSession == WindowInv /\ [Next]_vars => SessionInv'
<1> SUFFICES ASSUME FileInv, SessionInv, Grows, [Next]_vars PROVE SessionInv'
  BY StepFile DEF WindowInv
<1> USE DEF Screen, Modal, Busy, HasSession
<1>0. ASSUME NEW content, SavesAs(content) PROVE Len(log) < MaxVersion
  BY <1>0 DEF SavesAs, Write
<1>1. CASE CreateVault
  <2>1. UNCHANGED <<was, used>> /\ screen = "create"
    BY <1>1 DEF CreateVault, history
  <2>2. CASE SavesAs(Created) /\ screen' \in {"setup", "opened"}
    BY <1>0, <2>1, <2>2, SessionSaved, WritesContent
  <2>3. CASE UNCHANGED <<screen, header, fp>>
    BY <2>1, <2>3, SessionStays
  <2> QED
    BY <1>1, <2>2, <2>3 DEF CreateVault
<1>2. CASE SetupRecovery
  <2>1. UNCHANGED <<was, used>> /\ screen = "setup"
    BY <1>2 DEF SetupRecovery, history
  <2>2. CASE SavesAs(WithCodes) /\ screen' = "codes"
    BY <1>0, <2>1, <2>2, SessionSaved, WritesContent
  <2>3. CASE UNCHANGED <<header, fp>> /\ screen' = "opened"
    BY <2>1, <2>3, SessionStays
  <2>4. CASE Forgets /\ screen' = "create"
    BY <2>1, <2>4, SessionForgotten DEF SessionInv
  <2> QED
    BY <1>2, <2>2, <2>3, <2>4 DEF SetupRecovery
<1>3. CASE RewrapPassword
  <2>1. UNCHANGED <<was, used>> /\ screen = "newPassword"
    BY <1>3 DEF RewrapPassword, history
  <2>2. CASE SavesAs(WithPassword) /\ screen' = "rotate"
    BY <1>0, <2>1, <2>2, SessionSaved, WritesContent
  <2>3. CASE RecoveryFails(WithPassword)
    BY <2>1, <2>3, SessionForgotten DEF RecoveryFails, SessionInv
  <2> QED
    BY <1>3, <2>2, <2>3 DEF RewrapPassword
<1>4. CASE RotateCodes
  <2>1. UNCHANGED <<was, used>> /\ screen = "rotate"
    BY <1>4 DEF RotateCodes, history
  <2>2. CASE SavesAs(WithCodes) /\ screen' = "codes"
    BY <1>0, <2>1, <2>2, SessionSaved, WritesContent
  <2>3. CASE RecoveryFails(WithCodes)
    BY <2>1, <2>3, SessionForgotten DEF RecoveryFails, SessionInv
  <2> QED
    BY <1>4, <2>2, <2>3 DEF RotateCodes
<1>5. CASE Start
  BY <1>5, SessionForgotten DEF Start, Forgets, history
<1>6. CASE PasswordOpens \/ CodesAccepted
  <2>1. /\ disk \in File /\ Now \in 1 .. Len(log)
        /\ header' = log[Now] /\ fp' = Now /\ UNCHANGED log /\ screen' \in Screen
    BY <1>6, LenProperties
    DEF PasswordOpens, Opens, CodesAccepted, Exists, FileInv, Now, File, Version, file
  <2>2. log[Now] \in Content
    BY <2>1, ElementOfSeq DEF FileInv
  <2>3. was' \in Version \union {Wrong} /\ used' \subseteq Version
    <3>1. CASE PasswordOpens
      BY <3>1 DEF PasswordOpens, SessionInv
    <3>2. CASE CodesAccepted
      <4>1. log[Now].codes \in Version /\ log[Now].pw \in Version
        BY <2>2, <3>2 DEF CodesAccepted, HasRecovery, Now, Content
      <4> QED
        BY <3>2, <4>1 DEF CodesAccepted, SessionInv
    <3> QED
      BY <1>6, <3>1, <3>2
  <2>4. screen' # "migrate" => log[Now] = Migrated(log[Now])
    <3>1. CASE PasswordOpens /\ screen' # "migrate"
      BY <2>2, <3>1 DEF PasswordOpens, Opens, Migrated, Content
    <3>2. CASE CodesAccepted
      BY <2>1, <2>2, <3>2 DEF CodesAccepted, HasRecovery, Now, FileInv, Migrated, Content
    <3> QED
      BY <1>6, <3>1, <3>2
  <2> QED
    BY <2>1, <2>3, <2>4, SessionOf
<1>12. CASE Migrate
  <2>1. /\ UNCHANGED <<was, used>> /\ screen = "migrate"
        /\ fp \in 1 .. Len(log) /\ header = log[fp]
    BY <1>12, LenProperties DEF Migrate, history, SessionInv, FileInv
  <2>2. CASE header' = Migrated(header) /\ fp' = fp /\ Opens
    <3>1. fp \in 1 .. Len(log') /\ log'[fp] = log[fp]
      BY <2>1, LenProperties DEF Grows, FileInv
    <3> QED
      BY <2>1, <2>2, <3>1, SessionOf DEF Opens, SessionInv
  <2>3. CASE Forgets /\ screen' = "unlock"
    BY <2>1, <2>3, SessionForgotten DEF SessionInv
  <2> QED
    BY <1>12, <2>2, <2>3 DEF Migrate
<1>13. CASE NoPasswordChosen
  BY <1>13, SessionForgotten DEF NoPasswordChosen, history, SessionInv
<1>7. CASE CloseCodes \/ CorruptFound \/ StartRecovery \/ NoCodeTried \/ NoRecoveryFound
  BY <1>7, SessionStays
  DEF CloseCodes, CorruptFound, StartRecovery, NoCodeTried, NoRecoveryFound, session, history
<1>8. CASE PasswordRejected \/ Elapse \/ Tick \/ CodesRejected
  BY <1>8, SessionStays DEF PasswordRejected, Elapse, Tick, CodesRejected, session, history,
                            SessionInv
<1>9. CASE RestoreBackup \/ RestorePortable \/ ResetVault
  BY <1>9, SessionStays DEF RestoreBackup, RestorePortable, ResetVault, Rebuild,
                            StaysAsItWas, session, history, SessionInv
<1>10. CASE \/ OtherCreates \/ OtherMigrates \/ OtherActivates \/ OtherImports
            \/ OtherDestroys \/ Damage
  BY <1>10, SessionStays DEF OtherCreates, OtherMigrates, OtherActivates, OtherImports, OtherDestroys,
                             Damage, Elsewhere, session, history, SessionInv
<1>11. CASE UNCHANGED vars
  BY <1>11, SessionStays DEF vars, session, history, SessionInv
<1> QED
  BY <1>1, <1>2, <1>3, <1>4, <1>5, <1>6, <1>7, <1>8, <1>9, <1>10, <1>11, <1>12, <1>13
  DEF Next

-----------------------------------------------------------------------------
(***************************************************************************)
(* The limits.                                                             *)
(***************************************************************************)

Flags == {locked, recLocked, exhausted, entry, timer, right} \subseteq BOOLEAN

(* No failure is counted and no link shown, and the window moves on.       *)
LEMMA LimitsStay ==
  ASSUME LimitInv, UNCHANGED <<failures, recFailures, links, exhausted>>, Flags',
         screen' \in {"unlock", "migrate"} \union Modal
           => screen \in {"unlock", "migrate"} \union Modal,
         screen' = "askCode" => screen = "askCode" \/ ~exhausted
  PROVE  LimitInv'
  BY DEF LimitInv, Flags, Modal

LEMMA LimitsReset ==
  ASSUME Reset, {entry', timer', right'} \subseteq BOOLEAN, screen' # "askCode"
  PROVE  LimitInv'
<1>1. Flags'
  BY DEF Reset, Flags
<1>2. ~exhausted' /\ recFailures' = 0 /\ failures' = 0 /\ links' = "none"
  BY DEF Reset
<1> QED
  BY <1>1, <1>2, ThresholdAssumption DEF LimitInv, Flags

(* The vault is opened.                                                    *)
LEMMA OpenedLimits ==
  ASSUME LimitInv, Opens, UNCHANGED <<entry, timer>>, right' \in BOOLEAN
  PROVE  LimitInv'
<1>1. /\ failures' = 0 /\ locked' = FALSE /\ screen' = "opened"
      /\ UNCHANGED <<recFailures, recLocked, links, exhausted>>
  BY DEF Opens
<1>2. Flags'
  BY <1>1 DEF LimitInv, Flags
<1> QED
  BY <1>1, <1>2, ThresholdAssumption DEF LimitInv, Flags, Modal

LEMMA CountBounded ==
  ASSUME NEW n \in 0 .. Threshold
  PROVE  /\ CountFailure(n) \in 1 .. Threshold
         /\ CountFailure(n) >= Threshold <=> CountFailure(n) = Threshold
         /\ n = Threshold => CountFailure(n) = Threshold
  BY ThresholdAssumption DEF CountFailure

(* The links appear with the failure that reaches the threshold.           *)
LEMMA RejectedLimits == LimitInv /\ PasswordRejected => LimitInv'
<1> SUFFICES ASSUME LimitInv, PasswordRejected PROVE LimitInv'
  OBVIOUS
<1>1. /\ failures' = CountFailure(failures) /\ failures \in 0 .. Threshold
      /\ recFailures' = recFailures /\ exhausted' = exhausted /\ screen' = "unlock"
      /\ screen = "unlock" /\ links \in {"none", "recovery", "strict"}
  BY DEF PasswordRejected, LimitInv
<1>2. Flags'
  BY DEF PasswordRejected, LimitInv, Flags
<1>3. /\ failures' \in 0 .. Threshold
      /\ failures' >= Threshold <=> failures' = Threshold
      /\ failures = Threshold => failures' = Threshold
  BY <1>1, CountBounded
<1>4. links' \in {"none", "recovery", "strict"} /\ (links' # "none" <=> failures' = Threshold)
  <2>1. CASE LinksAppear
    BY <1>3, <2>1 DEF PasswordRejected, LinksAppear
  <2>2. CASE ~LinksAppear
    BY <1>1, <1>3, <2>2 DEF PasswordRejected, LinksAppear, LimitInv
  <2> QED
    BY <2>1, <2>2
<1>5. recFailures \in 0 .. Threshold /\ (exhausted <=> recFailures = Threshold)
  BY <1>1 DEF LimitInv
<1>6. recFailures' \in 0 .. Threshold /\ (exhausted' <=> recFailures' = Threshold)
  BY <1>1, <1>5
<1> QED
  BY <1>1, <1>2, <1>3, <1>4, <1>6 DEF LimitInv, Flags

(* Recovery ends with the failure that reaches the threshold.              *)
LEMMA CodesLimits == LimitInv /\ CodesRejected => LimitInv'
<1> SUFFICES ASSUME LimitInv, CodesRejected PROVE LimitInv'
  OBVIOUS
<1>1. /\ recFailures' = CountFailure(recFailures) /\ recFailures \in 0 .. Threshold
      /\ failures' = failures /\ links' = links
      /\ screen = "askCode" /\ screen' = "unlock"
      /\ failures \in 0 .. Threshold /\ links \in {"none", "recovery", "strict"}
      /\ links # "none" <=> failures = Threshold
  BY DEF CodesRejected, LimitInv, Modal
<1>2. /\ recFailures' \in 0 .. Threshold
      /\ recFailures' >= Threshold <=> recFailures' = Threshold
  BY <1>1, CountBounded
<1>3. ~exhausted
  BY <1>1 DEF LimitInv
<1>4. exhausted' <=> recFailures' >= Threshold
  BY <1>3, Zenon DEF CodesRejected
<1>5. Flags'
  <2>1. recLocked' = TRUE /\ UNCHANGED <<locked, entry, timer, right>>
    BY DEF CodesRejected, widgets, history
  <2>2. exhausted' \in BOOLEAN
    BY DEF CodesRejected
  <2> QED
    BY <2>1, <2>2 DEF LimitInv, Flags
<1>6. exhausted' <=> recFailures' = Threshold
  BY <1>2, <1>4
<1> QED
  BY <1>1, <1>2, <1>5, <1>6 DEF LimitInv, Flags

LEMMA AcceptedLimits == LimitInv /\ CodesAccepted => LimitInv'
<1> SUFFICES ASSUME LimitInv, CodesAccepted PROVE LimitInv'
  OBVIOUS
<1>1. /\ recFailures' = 0 /\ recLocked' = FALSE /\ screen' = "newPassword"
      /\ screen = "askCode" /\ ~exhausted
      /\ UNCHANGED <<failures, locked, links, exhausted, entry, timer, right>>
  BY DEF CodesAccepted, LimitInv, widgets
<1>2. /\ failures' \in 0 .. Threshold /\ links' \in {"none", "recovery", "strict"}
      /\ links' # "none" <=> failures' = Threshold
  BY <1>1 DEF LimitInv, Modal
<1>3. Flags'
  BY <1>1 DEF LimitInv, Flags
<1>4. ~exhausted' /\ recFailures' # Threshold /\ recFailures' \in 0 .. Threshold
  BY <1>1, ThresholdAssumption
<1> QED
  BY <1>1, <1>2, <1>3, <1>4 DEF LimitInv, Flags

LEMMA StepLimits == WindowInv /\ [Next]_vars => LimitInv'
<1> SUFFICES ASSUME LimitInv, [Next]_vars PROVE LimitInv'
  BY DEF WindowInv
<1>1. CASE CreateVault \/ SetupRecovery \/ CloseCodes
  <2>1. /\ UNCHANGED <<limits, widgets, right>>
        /\ screen' \in {"create", "setup", "codes", "opened"}
    BY <1>1 DEF CreateVault, SetupRecovery, CloseCodes, history
  <2> QED
    BY <2>1, LimitsStay DEF limits, widgets, LimitInv, Flags, Modal
<1>2. CASE Start
  BY <1>2, LimitsReset DEF Start, Exists, history, LimitInv
<1>3. CASE PasswordRejected
  BY <1>3, RejectedLimits
<1>4. CASE PasswordOpens
  <2>1. right' = TRUE /\ screen = "unlock" /\ UNCHANGED <<entry, timer>>
    BY <1>4 DEF PasswordOpens, widgets
  <2>2. CASE Opens
    BY <2>1, <2>2, OpenedLimits
  <2>3. CASE screen' = "migrate" /\ UNCHANGED limits
    BY <2>1, <2>3, LimitsStay DEF limits, LimitInv, Flags, Modal
  <2> QED
    BY <1>4, <2>2, <2>3 DEF PasswordOpens
<1>16. CASE Migrate
  <2>1. screen = "migrate" /\ UNCHANGED <<entry, timer, right>>
    BY <1>16 DEF Migrate, widgets, history
  <2>2. CASE Opens
    BY <2>1, <2>2, OpenedLimits DEF LimitInv
  <2>3. CASE screen' = "unlock" /\ UNCHANGED limits
    BY <2>1, <2>3, LimitsStay DEF limits, LimitInv, Flags, Modal
  <2> QED
    BY <1>16, <2>2, <2>3 DEF Migrate
<1>17. CASE NoPasswordChosen
  BY <1>17, LimitsStay DEF NoPasswordChosen, limits, widgets, history, LimitInv, Flags, Modal
<1>5. CASE CorruptFound \/ NoRecoveryFound
  BY <1>5, LimitsStay
  DEF CorruptFound, NoRecoveryFound, limits, widgets, history, LimitInv, Flags, Modal
<1>6. CASE StartRecovery \/ NoCodeTried
  BY <1>6, LimitsStay
  DEF StartRecovery, NoCodeTried, limits, widgets, history, LimitInv, Flags, Modal
<1>7. CASE Elapse
  <2>1. Flags' /\ UNCHANGED <<failures, recFailures, links, exhausted, screen>>
    BY <1>7 DEF Elapse, widgets, history, LimitInv, Flags
  <2> QED
    BY <2>1, LimitsStay
<1>8. CASE Tick
  <2>1. Flags' /\ UNCHANGED <<failures, recFailures, links, exhausted, screen>>
    BY <1>8 DEF Tick, limits, history, LimitInv, Flags
  <2> QED
    BY <2>1, LimitsStay
<1>9. CASE CodesRejected
  BY <1>9, CodesLimits
<1>10. CASE CodesAccepted
  BY <1>10, AcceptedLimits
<1>11. CASE RewrapPassword
  <2>1. /\ UNCHANGED <<limits, widgets, right>>
        /\ screen = "newPassword" /\ screen' \in {"rotate", "unlock"}
    BY <1>11 DEF RewrapPassword, RecoveryFails, history
  <2> QED
    BY <2>1, LimitsStay DEF limits, widgets, LimitInv, Flags, Modal
<1>12. CASE RotateCodes
  <2>1. UNCHANGED <<widgets, right, recFailures, recLocked, links, exhausted>>
    BY <1>12 DEF RotateCodes, limits, history
  <2>2. CASE screen' = "codes" /\ failures' = 0 /\ locked' = FALSE
    <3>1. Flags'
      BY <2>1, <2>2 DEF LimitInv, Flags, widgets
    <3> QED
      BY <2>1, <2>2, <3>1, ThresholdAssumption DEF LimitInv, Flags, Modal
  <2>3. CASE screen = "rotate" /\ screen' = "unlock" /\ UNCHANGED limits
    BY <2>1, <2>3, LimitsStay DEF limits, widgets, LimitInv, Flags, Modal
  <2> QED
    BY <1>12, <2>2, <2>3 DEF RotateCodes, RecoveryFails
<1>13. CASE RestoreBackup \/ RestorePortable \/ ResetVault
  <2>1. UNCHANGED right /\ screen # "askCode"
    BY <1>13 DEF RestoreBackup, RestorePortable, ResetVault, history
  <2>2. CASE StaysAsItWas
    BY <2>1, <2>2, LimitsStay DEF StaysAsItWas, limits, widgets, LimitInv, Flags
  <2>3. ASSUME NEW next \in {"unlock", "create"}, Rebuild(next)
        PROVE  LimitInv'
    BY <2>1, <2>3, LimitsReset DEF Rebuild, LimitInv
  <2> QED
    BY <1>13, <2>2, <2>3 DEF RestoreBackup, RestorePortable, ResetVault
<1>14. CASE \/ OtherCreates \/ OtherMigrates \/ OtherActivates \/ OtherImports
            \/ OtherDestroys \/ Damage
  <2>1. Elsewhere
    BY <1>14 DEF OtherCreates, OtherMigrates, OtherActivates, OtherImports, OtherDestroys, Damage
  <2> QED
    BY <2>1, LimitsStay DEF Elsewhere, limits, widgets, history, LimitInv, Flags
<1>15. CASE UNCHANGED vars
  BY <1>15, LimitsStay DEF vars, limits, widgets, history, LimitInv, Flags
<1> QED
  BY <1>1, <1>2, <1>3, <1>4, <1>5, <1>6, <1>7, <1>8, <1>9, <1>10, <1>11, <1>12, <1>13,
     <1>14, <1>15, <1>16, <1>17
  DEF Next

-----------------------------------------------------------------------------
(* Every reachable state: files are of versions that were written, the     *)
(* header in memory is that of its fingerprint, or what that version has   *)
(* been migrated to, and lockout and the end of                            *)
(* recovery stand for the failures counted (_try_unlock, _start_recovery,  *)
(* _create_vault, _reset_state).                                           *)
THEOREM UnlockInvariance == Spec => []WindowInv
<1>1. WindowInv /\ [Next]_vars => WindowInv'
  BY StepFile, StepSession, StepLimits DEF WindowInv, Grows
<1> QED
  BY <1>1, InitWindow, PTL DEF Spec

(* Files, counters and flags keep their types, whatever dialogs, restores  *)
(* and other instances come in between.                                    *)
THEOREM UnlockTypes == Spec => []TypeOK
  BY UnlockInvariance, InvTypes, PTL

(* The main window is handed the header and the fingerprint of one version *)
(* of the vault, migrated if that version is old, whichever of the saves   *)
(* of a creation, a migration or a recovery have failed, and whatever      *)
(* others have written meanwhile.                                          *)
THEOREM OneVersionIsOpened == Spec => []SessionIsItsVersion
<1>1. WindowInv => SessionIsItsVersion
  BY DEF WindowInv, SessionInv, HasSession, SessionIsItsVersion
<1> QED
  BY <1>1, UnlockInvariance, PTL

(* The lockout links are up exactly after Threshold rejected passwords,    *)
(* and recovery is closed exactly after as many rejected codes, for every  *)
(* threshold (_show_lockout_links, _show_recovery_exhausted).              *)
THEOREM LockoutIsOfTheFailures == Spec => []LockoutMatchesFailures
<1>1. WindowInv => LockoutMatchesFailures
  <2> SUFFICES ASSUME LimitInv, screen = "unlock"
               PROVE  /\ (links # "none") = (failures = Threshold)
                      /\ exhausted = (recFailures = Threshold)
    BY DEF WindowInv, LockoutMatchesFailures
  <2>1. links # "none" <=> failures = Threshold
    BY DEF LimitInv
  <2>2. exhausted <=> recFailures = Threshold
    BY DEF LimitInv
  <2>3. exhausted \in BOOLEAN
    BY DEF LimitInv
  <2> QED
    BY <2>1, <2>2, <2>3
<1> QED
  BY <1>1, UnlockInvariance, PTL
=============================================================================
