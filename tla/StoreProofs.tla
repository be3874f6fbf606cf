---------------------------- MODULE StoreProofs -----------------------------
(***************************************************************************)
(* The store file and what replaces it, for any number of rows, processes, *)
(* identities and generations: migration and compaction, restore, the key  *)
(* rewrites of the store, and the temporary files of a backup.             *)
(***************************************************************************)
EXTENDS StoreFiles, WellFoundedInduction, TLAPS

\* The header and the sizes of a store.
FileRec == [version : Nat, generation : Nat, head : Nat, rows : Nat, live : Int, size : Int]

\* A plan is no newer than the store, it measured the store whose head it names, and a
\* migration plan starts where the registry has a path.
PlanFits(k) ==
  plans[k].mode # "none" =>
    /\ plans[k].head \in Nat /\ plans[k].head <= file.head
    /\ k = "migration" => RegisteredPath(plans[k].version, FormatVersion)
    /\ plans[k].head = file.head =>
         /\ plans[k].rows = file.rows /\ plans[k].version = file.version
         /\ plans[k].required = RequiredBytes(k)

RewriteInv ==
  /\ file \in FileRec
  /\ plans = [k \in Kinds |-> plans[k]]
  /\ \A k \in Kinds : PlanFits(k)

\* One rewrite applied.
SoundRewrite ==
  \A kind \in Kinds : Apply(kind) =>
    /\ file.rows = plans[kind].rows /\ file.version = plans[kind].version
    /\ space >= RequiredBytes(kind)
    /\ file'.version # file.version => RegisteredPath(file.version, file'.version)

\* A step that moves the head leaves every plan behind it.
LEMMA RewriteMoves ==
  ASSUME RewriteInv, file' \in FileRec, file'.head = file.head + 1, plans' = plans
  PROVE  RewriteInv'
<1>1. file.head \in Nat
  BY DEF RewriteInv, FileRec
<1>2. ASSUME NEW k \in Kinds PROVE PlanFits(k)'
  BY <1>1 DEF RewriteInv, PlanFits
<1> QED BY ZenonT(60), <1>2 DEF RewriteInv

\* What Apply admits: the plan is the newest state of the store.
LEMMA RewriteApplies ==
  ASSUME RewriteInv, NEW k \in Kinds, Apply(k)
  PROVE  /\ file' \in FileRec /\ file'.head = file.head + 1 /\ plans' = plans
         /\ file.rows = plans[k].rows /\ file.version = plans[k].version
         /\ space >= RequiredBytes(k)
         /\ file'.version # file.version => RegisteredPath(file.version, file'.version)
<1>1. plans' = plans /\ file' = Installed(k) /\ ValidateApply(k)
  BY DEF Apply
<1>2. plans[k].mode = "offline_final" /\ file.head = plans[k].head /\ space >= plans[k].required
  BY <1>1 DEF ValidateApply
<1>3. /\ plans[k].rows = file.rows /\ plans[k].version = file.version
      /\ plans[k].required = RequiredBytes(k)
      /\ k = "migration" => RegisteredPath(plans[k].version, FormatVersion)
  BY ZenonT(60), <1>2 DEF RewriteInv, PlanFits
<1> DEFINE v == IF k = "migration" THEN FormatVersion ELSE file.version
           h == file.head + 1
           z == file.live
<1>4. h \in Nat /\ v \in Nat /\ z \in Int
  BY RewriteBounds DEF RewriteInv, FileRec
<1>5. file' = [file EXCEPT !.version = v, !.head = h, !.size = z]
  BY <1>1 DEF Installed
<1>6. (v = FormatVersion /\ k = "migration") \/ v = file.version
  OBVIOUS
<1> HIDE DEF v, h, z
<1>7. file' \in FileRec /\ file'.version = v /\ file'.head = h
  BY ZenonT(60), <1>4, <1>5 DEF RewriteInv, FileRec
<1> QED BY <1>1, <1>2, <1>3, <1>6, <1>7 DEF h

\* A daemon commit is a step that moves the head.
LEMMA RewriteCommits ==
  ASSUME RewriteInv, NEW growth \in -1 .. 1, NEW keyChange \in BOOLEAN,
         DaemonCommits(growth, keyChange)
  PROVE  file' \in FileRec /\ file'.head = file.head + 1 /\ plans' = plans
<1> DEFINE h == file.head + 1
           w == file.rows + 1
           l == file.live + growth
           z == IF file.live + growth > file.size THEN file.live + growth ELSE file.size
           g == IF keyChange THEN file.generation + 1 ELSE file.generation
<1>1. h \in Nat /\ w \in Nat /\ l \in Int /\ z \in Int /\ g \in Nat
  BY DEF RewriteInv, FileRec
<1>2. file' = [file EXCEPT !.head = h, !.rows = w, !.live = l, !.size = z, !.generation = g]
      /\ plans' = plans
  BY DEF DaemonCommits, RewriteInv, FileRec
<1> HIDE DEF h, w, l, z, g
<1>3. file' \in FileRec /\ file'.head = h
  BY ZenonT(60), <1>1, <1>2 DEF RewriteInv, FileRec
<1> QED BY <1>2, <1>3 DEF h

\* A new plan measures the store as it is.
LEMMA RewritePlans ==
  ASSUME RewriteInv, NEW k \in Kinds, NEW mode \in {"preliminary", "offline_final"},
         PlanRewrite(k, mode)
  PROVE  RewriteInv'
<1> DEFINE x == PlannedFrom(k, mode)
<1>1. /\ file' = file /\ plans' = [plans EXCEPT ![k] = x]
      /\ k = "migration" => RegisteredPath(file.version, FormatVersion)
  BY DEF PlanRewrite
<1>2. /\ x.head = file.head /\ x.rows = file.rows /\ x.version = file.version
      /\ x.required = RequiredBytes(k)
  BY DEF PlannedFrom
<1>3. file.head \in Nat
  BY DEF RewriteInv, FileRec
<1> HIDE DEF x
<1>4. /\ plans' = [q \in Kinds |-> plans'[q]] /\ plans'[k] = x
      /\ \A q \in Kinds : q # k => plans'[q] = plans[q]
  BY <1>1 DEF RewriteInv
<1>5. PlanFits(k)'
  BY <1>1, <1>2, <1>3, <1>4 DEF PlanFits, RequiredBytes
<1>6. \A q \in Kinds : q # k => PlanFits(q)'
  BY ZenonT(60), <1>1, <1>4 DEF RewriteInv, PlanFits, RequiredBytes
<1> QED BY ZenonT(60), <1>1, <1>4, <1>5, <1>6 DEF RewriteInv

\* Every step keeps the invariant, and every rewrite is of the planned state.
LEMMA RewriteStep == RewriteInv /\ [RewriteNext]_rewriteVars => RewriteInv' /\ SoundRewrite
<1> SUFFICES ASSUME RewriteInv, [RewriteNext]_rewriteVars PROVE RewriteInv' /\ SoundRewrite
  OBVIOUS
<1>1. SoundRewrite
  <2> SUFFICES ASSUME NEW k \in Kinds, Apply(k)
               PROVE  /\ file.rows = plans[k].rows /\ file.version = plans[k].version
                      /\ space >= RequiredBytes(k)
                      /\ file'.version # file.version => RegisteredPath(file.version, file'.version)
    BY DEF SoundRewrite
  <2> QED BY RewriteApplies
<1>2. CASE file' = file /\ plans' = plans
  <2>1. \A k \in Kinds : PlanFits(k) => PlanFits(k)'
    BY <1>2 DEF PlanFits, RequiredBytes
  <2> QED BY ZenonT(60), <1>1, <1>2, <2>1 DEF RewriteInv
<1>3. ASSUME NEW growth \in -1 .. 1, NEW keyChange \in BOOLEAN, DaemonCommits(growth, keyChange)
      PROVE  RewriteInv'
  BY ZenonT(60), <1>3, RewriteCommits, RewriteMoves
<1>4. ASSUME NEW k \in Kinds, Apply(k) PROVE RewriteInv'
  BY ZenonT(60), <1>4, RewriteApplies, RewriteMoves
<1>5. CASE SpaceChanges \/ StopOrStart \/ TakeBackup
           \/ \E part \in {"signature", "receipt", "clean"} : Register(part)
  BY ZenonT(60), <1>2, <1>5 DEF SpaceChanges, StopOrStart, TakeBackup, Register
<1>6. CASE UNCHANGED rewriteVars
  BY ZenonT(60), <1>2, <1>6 DEF rewriteVars
<1> QED BY ZenonT(60), <1>1, <1>3, <1>4, <1>5, <1>6, RewritePlans DEF RewriteNext

\* A rewrite applies to the state its plan measured, whatever the daemon, the disk and the
\* operator did between plan and apply (validate_apply).
THEOREM RewriteApplied == RewriteSpec => AppliedOnPlannedState
<1>1. RewriteInit => RewriteInv
  <2> SUFFICES ASSUME RewriteInit PROVE RewriteInv
    OBVIOUS
  <2>1. PICK v \in {0, 1, 2} :
          file = [version |-> v, generation |-> 1, head |-> 1, rows |-> 1, live |-> 1, size |-> 1]
    BY DEF RewriteInit
  <2>2. file \in FileRec
    BY <2>1 DEF FileRec
  <2>3. plans = [k \in Kinds |-> NoRewritePlan]
    BY DEF RewriteInit
  <2> QED BY <2>2, <2>3 DEF RewriteInv, PlanFits, NoRewritePlan
<1>2. RewriteInv /\ [RewriteNext]_rewriteVars => [SoundRewrite]_rewriteVars
  BY RewriteStep
<1> QED BY <1>1, <1>2, RewriteStep, PTL DEF RewriteSpec, AppliedOnPlannedState, SoundRewrite

-----------------------------------------------------------------------------
CredentialRec == [id : Nat, epoch : Nat]
StoreRec ==
  [epoch : Nat \ {0}, keyring : Nat, head : Nat, anchor : {"none", "NormalRestore"},
   lifecycle : {"Ready", "Reencrypting", "Restoring"}, active : Identities,
   recovery : Identities, creds : SUBSET CredentialRec]
ArchiveRec ==
  [store : StoreRec, effective : SUBSET Identities, claimed : BOOLEAN,
   signature : {"Valid", "Absent"}, defect : Defects \cup {"none"}]
InsidePcs == {"locked", "built", "entered", "disclosed", "activated", "installed"}
CallRec ==
  [pc : InsidePcs \cup {"checked"}, archive : ArchiveRec, target : Targets,
   identity : Identities, active : Identities, recovery : Identities,
   credential : CredentialRec]
DeadRec == [pc : {"dead"}, held : BOOLEAN]

\* No credential record is ahead of the epoch of its store.
StoreFine(s) == s \in StoreRec /\ \A c \in s.creds : c.epoch <= s.epoch

ArchiveFine(a) == a \in ArchiveRec /\ StoreFine(a.store)

\* What a call has established by the time it is at each of its steps; t is its temporary
\* and given the credentials disclosed so far.
Opened(a) == a.defect # "frame" /\ (a.signature = "Valid" => a.defect # "signature")
Rebuilt(a) == a.defect \notin {"envelope", "state", "audit", "records"}
Entered(a) == a.claimed /\ a.store.anchor = "none" /\ a.store.lifecycle = "Ready"
Given(c, given) == /\ c.credential \in given /\ c.credential.id # 0
                   /\ c.credential.epoch = c.archive.store.epoch + 1
FollowsArchive(c, t) == /\ StoreFine(t) /\ t.keyring = c.archive.store.keyring
                        /\ t.epoch = c.archive.store.epoch
Renewed(c, t) == /\ StoreFine(t) /\ t.keyring = c.archive.store.keyring + 1
                 /\ t.anchor = "NormalRestore" /\ t.lifecycle = "Ready"
                 /\ Usable(t) = {c.credential}

CallFine(c, t, given) ==
  /\ c \in CallRec /\ ArchiveFine(c.archive) /\ Opened(c.archive)
  /\ c.pc \in {"built", "entered", "disclosed", "activated"} => Rebuilt(c.archive)
  /\ c.pc \in {"entered", "disclosed", "activated"} => Entered(c.archive)
  /\ c.pc \in {"disclosed", "activated"} => Given(c, given)
  /\ c.pc \in {"checked", "locked", "installed"} => t = NoStore
  /\ c.pc = "built" => t = c.archive.store
  /\ c.pc \in {"entered", "disclosed"} => FollowsArchive(c, t)
  /\ c.pc = "activated" => Renewed(c, t)

SlotFine(x, t, given) ==
  \/ x = Idle /\ t = NoStore
  \/ x \in DeadRec
  \/ CallFine(x, t, given)

\* A store in place of a target is the renewed one of some restore.
TargetFine(s, given) ==
  s = NoStore \/ /\ StoreFine(s)
                 /\ \E c \in given \ {FirstCredential} : Usable(s) = {c}
                 /\ s.anchor = "NormalRestore" /\ s.lifecycle = "Ready"

RestoreInv ==
  /\ stores = [p \in Paths |-> stores[p]] /\ StoreFine(stores["origin"])
  /\ \A t \in Targets : TargetFine(stores[t], disclosed)
  /\ temps = [r \in Restorers |-> temps[r]] /\ restorers = [r \in Restorers |-> restorers[r]]
  /\ \A a \in archives : ArchiveFine(a)
  /\ minted \in Nat
  /\ \A r \in Restorers : SlotFine(restorers[r], temps[r], disclosed)
  /\ OneRestoreAtATime
  /\ RecoveryReceiptEarned

\* The empty slot is told from a call's record by its pc.
LEMMA SlotKinds ==
  ASSUME NEW x, NEW t, NEW given, SlotFine(x, t, given)
  PROVE  /\ x.pc \in {"idle", "dead", "checked"} \cup InsidePcs
         /\ x.pc = "idle" => x = Idle /\ t = NoStore
         /\ x.pc \notin {"idle", "dead"} => CallFine(x, t, given)
<1>1. CASE x = Idle /\ t = NoStore
  BY <1>1 DEF Idle
<1>2. CASE x \in DeadRec
  BY <1>2 DEF DeadRec
<1>3. CASE CallFine(x, t, given)
  <2>1. x.pc \in InsidePcs \cup {"checked"}
    BY ZenonT(60), <1>3 DEF CallFine, CallRec
  <2> QED BY <1>3, <2>1 DEF InsidePcs
<1> QED BY ZenonT(60), <1>1, <1>2, <1>3 DEF SlotFine

\* What was disclosed stays disclosed.
LEMMA GivenGrows ==
  ASSUME NEW given, NEW more, given \subseteq more
  PROVE  /\ \A s : TargetFine(s, given) => TargetFine(s, more)
         /\ \A x, t : SlotFine(x, t, given) => SlotFine(x, t, more)
<1>1. \A c : Given(c, given) => Given(c, more)
  BY DEF Given
<1>2. \A x, t : CallFine(x, t, given) => CallFine(x, t, more)
  BY ZenonT(60), <1>1 DEF CallFine
<1>3. \A x, t : SlotFine(x, t, given) => SlotFine(x, t, more)
  BY ZenonT(60), <1>2 DEF SlotFine
<1>4. \A s : TargetFine(s, given) => TargetFine(s, more)
  BY ZenonT(60) DEF TargetFine
<1> QED BY <1>3, <1>4

\* A store in place is not the absent one.
LEMMA StoreIsPresent == \A s : StoreFine(s) => s # NoStore
BY DEF StoreFine, StoreRec, NoStore

\* The invariant gives what the runs check of the directory and its credentials.
LEMMA RestoreInvMeans == RestoreInv => OneRestoreAtATime /\ NoStrayTemporary /\ RestoreIsTruthful
<1> SUFFICES ASSUME RestoreInv PROVE OneRestoreAtATime /\ NoStrayTemporary /\ RestoreIsTruthful
  OBVIOUS
<1>1. OneRestoreAtATime /\ RecoveryReceiptEarned
  BY DEF RestoreInv
<1>2. NoStrayTemporary
  <2> SUFFICES ASSUME NEW r \in Restorers, temps[r] # NoStore
               PROVE  restorers[r].pc \in {"built", "entered", "disclosed", "activated", "dead"}
    BY DEF NoStrayTemporary
  <2>1. SlotFine(restorers[r], temps[r], disclosed)
    BY DEF RestoreInv
  <2>2. /\ restorers[r].pc \in {"idle", "dead", "checked"} \cup InsidePcs
        /\ restorers[r].pc # "idle"
        /\ restorers[r].pc # "dead" => CallFine(restorers[r], temps[r], disclosed)
    BY <2>1, SlotKinds
  <2>3. restorers[r].pc \notin {"checked", "locked", "installed"}
    BY ZenonT(60), <2>2 DEF CallFine
  <2> QED BY <2>2, <2>3 DEF InsidePcs
<1>3. OldCredentialsDie
  BY ZenonT(60) DEF RestoreInv, TargetFine, OldCredentialsDie, Present
<1> QED BY <1>1, <1>2, <1>3 DEF RestoreIsTruthful

\* One restorer moves: the stores, the archives and the receipt stay.
LEMMA RestorerFrame ==
  ASSUME RestoreInv, NEW r \in Restorers, NEW x, NEW t,
         restorers' = [restorers EXCEPT ![r] = x], temps' = [temps EXCEPT ![r] = t],
         stores' = stores, archives' = archives, receipt' = receipt,
         disclosed \subseteq disclosed', minted' \in Nat,
         SlotFine(x, t, disclosed'),
         OneRestoreAtATime'
  PROVE  RestoreInv'
<1>1. /\ restorers' = [q \in Restorers |-> restorers'[q]] /\ restorers'[r] = x
      /\ \A q \in Restorers : q # r => restorers'[q] = restorers[q]
  BY DEF RestoreInv
<1>2. /\ temps' = [q \in Restorers |-> temps'[q]] /\ temps'[r] = t
      /\ \A q \in Restorers : q # r => temps'[q] = temps[q]
  BY DEF RestoreInv
<1>3. ASSUME NEW q \in Restorers PROVE SlotFine(restorers'[q], temps'[q], disclosed')
  <2>1. CASE q = r
    BY <2>1, <1>1, <1>2
  <2>2. CASE q # r
    <3>1. SlotFine(restorers[q], temps[q], disclosed)
      BY DEF RestoreInv
    <3>2. SlotFine(restorers[q], temps[q], disclosed')
      BY ZenonT(60), <3>1, GivenGrows
    <3> QED BY ZenonT(60), <2>2, <3>2, <1>1, <1>2
  <2> QED BY <2>1, <2>2
<1>4. \A p \in Targets : TargetFine(stores[p], disclosed')
  <2>1. \A p \in Targets : TargetFine(stores[p], disclosed)
    BY ZenonT(60) DEF RestoreInv
  <2> QED BY ZenonT(60), <2>1, GivenGrows
<1>5. RecoveryReceiptEarned'
  BY ZenonT(60) DEF RestoreInv, RecoveryReceiptEarned
<1>6. /\ stores = [p \in Paths |-> stores[p]] /\ StoreFine(stores["origin"])
      /\ \A a \in archives : ArchiveFine(a)
  BY DEF RestoreInv
<1> QED BY ZenonT(60), <1>1, <1>2, <1>3, <1>4, <1>5, <1>6 DEF RestoreInv

\* Restorer r leaves, or moves inside, while it holds the lock file.
LEMMA LockFrame ==
  ASSUME RestoreInv, NEW r \in Restorers, Inside(r), NEW x,
         restorers' = [restorers EXCEPT ![r] = x],
         \/ lockFile' = lockFile
         \/ x.pc \notin InsidePcs
  PROVE  OneRestoreAtATime'
<1>1. /\ restorers'[r] = x /\ \A q \in Restorers : q # r => restorers'[q] = restorers[q]
  BY DEF RestoreInv
<1>2. lockFile /\ \A q \in Restorers : Inside(q) => q = r
  BY ZenonT(60) DEF RestoreInv, OneRestoreAtATime
<1>3. \A q \in Restorers : Inside(q)' => q = r
  BY ZenonT(60), <1>1, <1>2 DEF Inside
<1>4. Inside(r)' => x.pc \in InsidePcs
  BY <1>1 DEF Inside, InsidePcs
<1>5. (\E q \in Restorers : Inside(q)') => lockFile'
  BY ZenonT(60), <1>2, <1>3, <1>4
<1> QED BY ZenonT(60), <1>3, <1>5 DEF OneRestoreAtATime

\* A restorer without the lock file moves and stays without it.
LEMMA OutsideFrame ==
  ASSUME RestoreInv, NEW r \in Restorers, NEW x, x.pc \notin InsidePcs,
         restorers' = [restorers EXCEPT ![r] = x], lockFile => lockFile'
  PROVE  OneRestoreAtATime'
<1>1. /\ restorers'[r] = x /\ \A q \in Restorers : q # r => restorers'[q] = restorers[q]
  BY DEF RestoreInv
<1>2. \A q \in Restorers : Inside(q)' => Inside(q)
  <2>1. ~Inside(r)'
    BY <1>1 DEF Inside, InsidePcs
  <2> QED BY ZenonT(60), <2>1, <1>1 DEF Inside
<1> QED BY ZenonT(60), <1>2 DEF RestoreInv, OneRestoreAtATime

\* Leaving keeps the invariant: no temporary is left and the lock is free.
LEMMA LeavesStep ==
  ASSUME RestoreInv, NEW r \in Restorers, Inside(r), Leaves(r),
         stores' = stores, archives' = archives, receipt' = receipt,
         disclosed \subseteq disclosed', minted' \in Nat
  PROVE  RestoreInv'
<1>1. /\ restorers' = [restorers EXCEPT ![r] = Idle] /\ temps' = [temps EXCEPT ![r] = NoStore]
  BY DEF Leaves
<1>2. SlotFine(Idle, NoStore, disclosed') /\ Idle.pc \notin InsidePcs
  BY DEF SlotFine, Idle, InsidePcs
<1>3. OneRestoreAtATime'
  BY ZenonT(60), <1>1, <1>2, LockFrame
<1> QED BY ZenonT(60), <1>1, <1>2, <1>3, RestorerFrame

\* The calls of restore up to the temporary store keep the invariant.
LEMMA RestoreBeginStep ==
  ASSUME RestoreInv, NEW r \in Restorers,
         (\E a \in archives, t \in Targets, i, n, v \in Identities, o \in BOOLEAN :
            BeginRestore(r, a, t, i, n, v, o))
           \/ AcquireLock(r) \/ Build(r) \/ EnterBuild(r)
  PROVE  RestoreInv'
<1> DEFINE x == restorers[r]
<1>s. SlotFine(x, temps[r], disclosed) /\ minted \in Nat
  BY DEF RestoreInv
<1>k. /\ x.pc = "idle" => x = Idle /\ temps[r] = NoStore
      /\ x.pc \notin {"idle", "dead"} => CallFine(x, temps[r], disclosed)
  BY ZenonT(60), <1>s, SlotKinds
<1>f. /\ restorers = [q \in Restorers |-> restorers[q]] /\ temps = [q \in Restorers |-> temps[q]]
      /\ temps = [temps EXCEPT ![r] = temps[r]]
  BY DEF RestoreInv
<1>n. NoCredential \in CredentialRec
  BY DEF NoCredential, Credential, CredentialRec
<1>1. ASSUME NEW a \in archives, NEW t \in Targets, NEW i \in Identities, NEW n \in Identities,
             NEW v \in Identities, NEW o \in BOOLEAN, BeginRestore(r, a, t, i, n, v, o)
      PROVE  RestoreInv'
  <2> DEFINE y == [pc |-> "checked", archive |-> a, target |-> t, identity |-> i,
                   active |-> n, recovery |-> v, credential |-> NoCredential]
  <2>1. /\ restorers' = [restorers EXCEPT ![r] = y] /\ temps' = temps /\ stores' = stores
        /\ archives' = archives /\ receipt' = receipt /\ disclosed' = disclosed
        /\ minted' = minted /\ lockFile' = lockFile /\ x.pc = "idle" /\ Gate(a, o)
    BY ZenonT(60), <1>1 DEF BeginRestore
  <2>2. ArchiveFine(a) /\ Opened(a) /\ a \in ArchiveRec
    BY ZenonT(60), <2>1 DEF RestoreInv, ArchiveFine, Gate, Opened
  <2>3. y \in CallRec
    BY ZenonT(60), <2>2, <1>n DEF CallRec, InsidePcs
  <2>4. y.pc = "checked" /\ y.archive = a
    OBVIOUS
  <2> HIDE DEF y
  <2>5. CallFine(y, NoStore, disclosed)
    BY <2>2, <2>3, <2>4 DEF CallFine
  <2>6. y.pc \notin InsidePcs
    BY <2>4 DEF InsidePcs
  <2>7. OneRestoreAtATime'
    BY ZenonT(60), <2>1, <2>6, OutsideFrame
  <2>8. temps' = [temps EXCEPT ![r] = NoStore] /\ SlotFine(y, NoStore, disclosed') /\ disclosed \subseteq disclosed'
    BY ZenonT(60), <1>f, <1>k, <2>1, <2>5 DEF SlotFine
  <2> QED BY ZenonT(60), <1>s, <2>1, <2>7, <2>8, RestorerFrame
<1>2. CASE AcquireLock(r)
  <2>1. /\ temps' = temps /\ stores' = stores
        /\ archives' = archives /\ receipt' = receipt /\ disclosed' = disclosed
        /\ minted' = minted /\ lockFile' = TRUE /\ x.pc = "checked"
    BY <1>2 DEF AcquireLock
  <2>2. CallFine(x, temps[r], disclosed) /\ temps[r] = NoStore
    BY ZenonT(60), <2>1, <1>k DEF CallFine
  <2>3. temps' = [temps EXCEPT ![r] = NoStore] /\ disclosed \subseteq disclosed'
    BY <1>f, <2>1, <2>2
  <2>4. CASE lockFile
    <3>1. restorers' = [restorers EXCEPT ![r] = Idle]
      BY <1>2, <2>4 DEF AcquireLock
    <3>2. SlotFine(Idle, NoStore, disclosed') /\ Idle.pc \notin InsidePcs
      BY DEF SlotFine, Idle, InsidePcs
    <3>3. OneRestoreAtATime'
      BY ZenonT(60), <2>1, <3>1, <3>2, OutsideFrame
    <3> QED BY ZenonT(60), <1>s, <2>1, <2>3, <3>1, <3>2, <3>3, RestorerFrame
  <2>5. CASE ~lockFile
    <3> DEFINE y == [x EXCEPT !.pc = "locked"]
    <3>1. restorers' = [restorers EXCEPT ![r] = y]
      BY <1>2, <2>5 DEF AcquireLock
    <3>2. y \in CallRec /\ y.pc = "locked" /\ y.archive = x.archive
      BY ZenonT(60), <2>2 DEF CallFine, CallRec, InsidePcs
    <3> HIDE DEF y
    <3>3. CallFine(y, NoStore, disclosed')
      BY ZenonT(60), <2>1, <2>2, <3>2 DEF CallFine
    <3>4. OneRestoreAtATime'
      <4>1. /\ restorers'[r] = y /\ \A q \in Restorers : q # r => restorers'[q] = restorers[q]
        BY <3>1, <1>f
      <4>2. \A q \in Restorers : ~Inside(q)
        BY ZenonT(60), <2>5 DEF RestoreInv, OneRestoreAtATime
      <4>3. \A q \in Restorers : Inside(q)' => q = r
        BY ZenonT(60), <4>1, <4>2 DEF Inside
      <4> QED BY ZenonT(60), <2>1, <4>3 DEF OneRestoreAtATime
    <3>5. SlotFine(y, NoStore, disclosed')
      BY <3>3 DEF SlotFine
    <3> QED BY ZenonT(60), <1>s, <2>1, <2>3, <3>1, <3>4, <3>5, RestorerFrame
  <2> QED BY <2>4, <2>5
<1>3. CASE Build(r)
  <2>1. /\ stores' = stores /\ archives' = archives /\ receipt' = receipt
        /\ disclosed' = disclosed /\ minted' = minted /\ x.pc = "locked"
    BY ZenonT(60), <1>3 DEF Build
  <2>2. CallFine(x, temps[r], disclosed) /\ Inside(r)
    BY ZenonT(60), <2>1, <1>k DEF Inside
  <2>3. CASE Leaves(r)
    BY ZenonT(60), <1>s, <2>1, <2>2, <2>3, LeavesStep
  <2>4. CASE ~Leaves(r)
    <3> DEFINE y == [x EXCEPT !.pc = "built"]
    <3>1. /\ restorers' = [restorers EXCEPT ![r] = y] /\ lockFile' = lockFile
          /\ temps' = [temps EXCEPT ![r] = x.archive.store]
          /\ Decrypts(x.archive, x.identity) /\ Reconstructs(x.archive)
      BY ZenonT(60), <1>3, <2>4 DEF Build
    <3>2. y \in CallRec /\ y.pc = "built" /\ y.archive = x.archive
      BY ZenonT(60), <2>2 DEF CallFine, CallRec, InsidePcs
    <3> HIDE DEF y
    <3>3. Rebuilt(x.archive)
      BY ZenonT(60), <3>1 DEF Rebuilt, Decrypts, Reconstructs
    <3>4. CallFine(y, x.archive.store, disclosed')
      BY ZenonT(60), <2>1, <2>2, <3>2, <3>3 DEF CallFine
    <3>5. SlotFine(y, x.archive.store, disclosed') /\ disclosed \subseteq disclosed'
      BY ZenonT(60), <3>4, <2>1 DEF SlotFine
    <3>6. OneRestoreAtATime'
      BY ZenonT(60), <2>2, <3>1, LockFrame
    <3> QED BY ZenonT(60), <1>s, <2>1, <3>1, <3>5, <3>6, RestorerFrame
  <2> QED BY <2>3, <2>4
<1>4. CASE EnterBuild(r)
  <2>1. /\ stores' = stores /\ archives' = archives /\ receipt' = receipt
        /\ disclosed' = disclosed /\ minted' = minted /\ x.pc = "built"
    BY <1>4 DEF EnterBuild
  <2>2. CallFine(x, temps[r], disclosed) /\ Inside(r)
    BY ZenonT(60), <2>1, <1>k DEF Inside
  <2>3. CASE Leaves(r)
    BY ZenonT(60), <1>s, <2>1, <2>2, <2>3, LeavesStep
  <2>4. CASE ~Leaves(r)
    <3> DEFINE y == [x EXCEPT !.pc = "entered"]
               u == [temps[r] EXCEPT !.lifecycle = "Restoring"]
    <3>1. /\ restorers' = [restorers EXCEPT ![r] = y] /\ lockFile' = lockFile
          /\ temps' = [temps EXCEPT ![r] = u]
          /\ x.archive.claimed /\ temps[r].lifecycle = "Ready" /\ temps[r].anchor = "none"
      BY ZenonT(60), <1>4, <2>4 DEF EnterBuild
    <3>2. y \in CallRec /\ y.pc = "entered" /\ y.archive = x.archive
      BY ZenonT(60), <2>2 DEF CallFine, CallRec, InsidePcs
    <3>3. temps[r] = x.archive.store /\ StoreFine(x.archive.store) /\ Rebuilt(x.archive)
      BY ZenonT(60), <2>1, <2>2 DEF CallFine, ArchiveFine
    <3>4. /\ u \in StoreRec /\ u.epoch = temps[r].epoch /\ u.keyring = temps[r].keyring
          /\ u.creds = temps[r].creds
      BY ZenonT(60), <3>3 DEF StoreFine, StoreRec
    <3> HIDE DEF y, u
    <3>5. Entered(x.archive)
      BY ZenonT(60), <3>1, <3>3 DEF Entered
    <3>6. FollowsArchive(y, u)
      BY ZenonT(60), <3>2, <3>3, <3>4 DEF FollowsArchive, StoreFine
    <3>7. CallFine(y, u, disclosed')
      BY ZenonT(60), <2>1, <2>2, <3>2, <3>3, <3>5, <3>6 DEF CallFine
    <3>8. SlotFine(y, u, disclosed') /\ disclosed \subseteq disclosed'
      BY ZenonT(60), <3>7, <2>1 DEF SlotFine
    <3>9. OneRestoreAtATime'
      BY ZenonT(60), <2>2, <3>1, LockFrame
    <3> QED BY ZenonT(60), <1>s, <2>1, <3>1, <3>8, <3>9, RestorerFrame
  <2> QED BY <2>3, <2>4
<1> QED BY ZenonT(60), <1>1, <1>2, <1>3, <1>4

\* The calls of restore from the disclosed credential on keep the invariant.
LEMMA RestoreEndStep ==
  ASSUME RestoreInv, NEW r \in Restorers,
         Disclose(r) \/ Activate(r) \/ Finish(r) \/ RestoreFails(r) \/ Crash(r)
  PROVE  RestoreInv'
<1> DEFINE x == restorers[r]
<1>s. SlotFine(x, temps[r], disclosed) /\ minted \in Nat
  BY ZenonT(60) DEF RestoreInv
<1>k. x.pc \notin {"idle", "dead"} => CallFine(x, temps[r], disclosed)
  BY ZenonT(60), <1>s, SlotKinds
<1>f. /\ restorers = [q \in Restorers |-> restorers[q]] /\ temps = [q \in Restorers |-> temps[q]]
      /\ temps = [temps EXCEPT ![r] = temps[r]]
  BY ZenonT(60) DEF RestoreInv
<1>1. CASE Disclose(r)
  <2> DEFINE n == minted + 1
             e == temps[r].epoch + 1
             c == Credential(n, e)
  <2>1. /\ stores' = stores /\ archives' = archives /\ receipt' = receipt
        /\ disclosed' = disclosed \cup {c} /\ minted' = n /\ x.pc = "entered"
    BY ZenonT(60), <1>1 DEF Disclose
  <2>2. CallFine(x, temps[r], disclosed) /\ Inside(r)
    BY ZenonT(60), <2>1, <1>k DEF Inside
  <2>3. minted' \in Nat /\ n # 0 /\ disclosed \subseteq disclosed' /\ c \in disclosed'
    BY <2>1, <1>s
  <2>4. CASE Leaves(r)
    BY ZenonT(60), <2>1, <2>2, <2>3, <2>4, LeavesStep
  <2>5. CASE ~Leaves(r)
    <3> DEFINE y1 == [x EXCEPT !.pc = "disclosed"]
               y == [y1 EXCEPT !.credential = c]
    <3>1. /\ restorers' = [restorers EXCEPT ![r] = y] /\ lockFile' = lockFile /\ temps' = temps
      BY ZenonT(60), <1>1, <2>1, <2>5, <1>f DEF Disclose
    <3>2. FollowsArchive(x, temps[r]) /\ Entered(x.archive) /\ Rebuilt(x.archive)
      BY ZenonT(60), <2>1, <2>2 DEF CallFine
    <3>3. e \in Nat /\ e = x.archive.store.epoch + 1
      BY <3>2 DEF FollowsArchive, StoreFine, StoreRec
    <3>4. c \in CredentialRec /\ c.id = n /\ c.epoch = e
      BY ZenonT(60), <2>1, <2>3, <3>3 DEF Credential, CredentialRec
    <3> HIDE DEF c, e, n
    <3>5. y \in CallRec /\ y.pc = "disclosed" /\ y.archive = x.archive /\ y.credential = c
      BY ZenonT(60), <2>2, <3>4 DEF CallFine, CallRec, InsidePcs
    <3> HIDE DEF y
    <3>6. Given(y, disclosed') /\ FollowsArchive(y, temps[r])
      BY ZenonT(60), <2>3, <3>2, <3>3, <3>4, <3>5 DEF Given, FollowsArchive
    <3>7. CallFine(y, temps[r], disclosed')
      BY ZenonT(60), <2>2, <3>2, <3>5, <3>6 DEF CallFine
    <3>8. SlotFine(y, temps[r], disclosed') /\ temps' = [temps EXCEPT ![r] = temps[r]]
      BY ZenonT(60), <3>7, <3>1, <1>f DEF SlotFine
    <3>9. OneRestoreAtATime'
      BY ZenonT(60), <2>2, <3>1, LockFrame
    <3> QED BY ZenonT(60), <2>1, <2>3, <3>1, <3>8, <3>9, RestorerFrame
  <2> QED BY <2>4, <2>5
<1>2. CASE Activate(r)
  <2>1. /\ stores' = stores /\ archives' = archives /\ receipt' = receipt
        /\ disclosed' = disclosed /\ minted' = minted /\ x.pc = "disclosed"
    BY ZenonT(60), <1>2 DEF Activate
  <2>2. CallFine(x, temps[r], disclosed) /\ Inside(r)
    BY ZenonT(60), <2>1, <1>k DEF Inside
  <2>4. CASE Leaves(r)
    BY ZenonT(60), <1>s, <2>1, <2>2, <2>4, LeavesStep
  <2>5. CASE ~Leaves(r)
    <3> DEFINE y == [x EXCEPT !.pc = "activated"]
               t == temps[r]
               u == Activated(t, x)
    <3>1. /\ restorers' = [restorers EXCEPT ![r] = y] /\ lockFile' = lockFile
          /\ temps' = [temps EXCEPT ![r] = u]
      BY ZenonT(60), <1>2, <2>5, <1>f DEF Activate
    <3>2. /\ FollowsArchive(x, t) /\ Entered(x.archive) /\ Rebuilt(x.archive)
          /\ Given(x, disclosed) /\ x \in CallRec
      BY ZenonT(60), <2>1, <2>2 DEF CallFine
    <3>3. y \in CallRec /\ y.pc = "activated" /\ y.archive = x.archive /\ y.credential = x.credential
      BY ZenonT(60), <3>2 DEF CallRec, InsidePcs
    <3>4. /\ x.credential \in CredentialRec /\ x.active \in Identities /\ x.recovery \in Identities
      BY ZenonT(60), <3>2 DEF CallRec
    <3>5. /\ t \in StoreRec /\ t.epoch \in Nat \ {0} /\ t.keyring \in Nat /\ t.head \in Nat
          /\ t.creds \subseteq CredentialRec
      BY ZenonT(60), <3>2 DEF FollowsArchive, StoreFine, StoreRec
    <3>6. t.epoch + 1 \in Nat \ {0} /\ t.keyring + 1 \in Nat /\ t.head + 1 \in Nat
      BY <3>5
    <3>7. /\ u.epoch = t.epoch + 1 /\ u.keyring = t.keyring + 1 /\ u.anchor = "NormalRestore"
          /\ u.lifecycle = "Ready" /\ u.creds = t.creds \cup {x.credential}
      BY ZenonT(60), <3>5 DEF Activated, StoreRec
    <3>8. u \in StoreRec
      BY ZenonT(60), <3>4, <3>5, <3>6 DEF Activated, StoreRec
    <3> HIDE DEF u, y
    <3>9. \A c \in t.creds : c.epoch \in Nat /\ c.epoch <= t.epoch
      BY ZenonT(60), <3>2, <3>5 DEF FollowsArchive, StoreFine, CredentialRec
    <3>10. x.credential.epoch = t.epoch + 1
      BY ZenonT(60), <3>2 DEF Given, FollowsArchive
    <3>11. StoreFine(u)
      BY <3>5, <3>7, <3>8, <3>9, <3>10 DEF StoreFine
    <3>12. Usable(u) = {x.credential}
      BY <3>5, <3>7, <3>9, <3>10 DEF Usable
    <3>13. Renewed(y, u)
      BY ZenonT(60), <3>2, <3>3, <3>7, <3>11, <3>12 DEF Renewed, FollowsArchive
    <3>14. Given(y, disclosed')
      BY ZenonT(60), <2>1, <3>2, <3>3 DEF Given
    <3>15. CallFine(y, u, disclosed')
      BY ZenonT(60), <2>2, <3>2, <3>3, <3>13, <3>14 DEF CallFine
    <3>16. SlotFine(y, u, disclosed') /\ disclosed \subseteq disclosed'
      BY ZenonT(60), <3>15, <2>1 DEF SlotFine
    <3>17. OneRestoreAtATime'
      BY ZenonT(60), <2>2, <3>1, LockFrame
    <3> QED BY ZenonT(60), <1>s, <2>1, <3>1, <3>16, <3>17, RestorerFrame
  <2> QED BY <2>4, <2>5
<1>3. CASE Finish(r) \/ RestoreFails(r)
  <2>1. /\ stores' = stores /\ archives' = archives /\ receipt' = receipt
        /\ disclosed' = disclosed /\ minted' = minted /\ Leaves(r)
        /\ x.pc \in {"built", "entered", "disclosed", "activated", "installed"}
    BY ZenonT(60), <1>3 DEF Finish, RestoreFails
  <2>2. Inside(r) /\ disclosed \subseteq disclosed'
    BY ZenonT(60), <2>1 DEF Inside
  <2> QED BY ZenonT(60), <1>s, <2>1, <2>2, LeavesStep
<1>4. CASE Crash(r)
  <2> DEFINE y == [pc |-> "dead", held |-> restorers[r].pc # "checked"]
  <2>1. /\ stores' = stores /\ archives' = archives /\ receipt' = receipt
        /\ disclosed' = disclosed /\ minted' = minted /\ lockFile' = lockFile
        /\ restorers' = [restorers EXCEPT ![r] = y] /\ temps' = [temps EXCEPT ![r] = temps[r]]
    BY ZenonT(60), <1>4, <1>f DEF Crash
  <2>2. y \in DeadRec /\ y.pc \notin InsidePcs
    BY ZenonT(60) DEF DeadRec, InsidePcs
  <2> HIDE DEF y
  <2>3. SlotFine(y, temps[r], disclosed') /\ disclosed \subseteq disclosed'
    BY ZenonT(60), <2>1, <2>2 DEF SlotFine
  <2>4. OneRestoreAtATime'
    BY ZenonT(60), <2>1, <2>2, OutsideFrame
  <2> QED BY ZenonT(60), <1>s, <2>1, <2>3, <2>4, RestorerFrame
<1> QED BY ZenonT(60), <1>1, <1>2, <1>3, <1>4

\* The rename puts the renewed store in place of the target.
LEMMA RestoreInstallStep ==
  ASSUME RestoreInv, NEW r \in Restorers, Install(r)
  PROVE  /\ RestoreInv'
         /\ LET a == restorers[r].archive IN
            /\ a.defect = "none" \/ (a.defect = "signature" /\ a.signature = "Absent")
            /\ a.claimed /\ a.store.anchor = "none" /\ a.store.lifecycle = "Ready"
            /\ stores'[restorers[r].target].keyring = a.store.keyring + 1
<1> DEFINE x == restorers[r]
           p == restorers[r].target
           u == temps[r]
           y == [x EXCEPT !.pc = "installed"]
<1>1. /\ stores' = [stores EXCEPT ![p] = u] /\ restorers' = [restorers EXCEPT ![r] = y]
      /\ temps' = [temps EXCEPT ![r] = NoStore] /\ archives' = archives /\ receipt' = receipt
      /\ disclosed' = disclosed /\ minted' = minted /\ lockFile' = lockFile /\ x.pc = "activated"
  BY DEF Install
<1>2. CallFine(x, u, disclosed) /\ Inside(r)
  <2>1. SlotFine(x, u, disclosed)
    BY ZenonT(60) DEF RestoreInv
  <2> QED BY ZenonT(60), <1>1, <2>1, SlotKinds DEF Inside
<1>3. /\ Renewed(x, u) /\ Entered(x.archive) /\ Rebuilt(x.archive) /\ Opened(x.archive)
      /\ Given(x, disclosed) /\ x \in CallRec /\ x.archive \in ArchiveRec
  BY ZenonT(60), <1>1, <1>2 DEF CallFine, ArchiveFine
<1>4. p \in Targets /\ p # "origin"
  <2>1. p \in Targets
    BY ZenonT(60), <1>3 DEF CallRec
  <2> QED BY ZenonT(60), <2>1, RestoreBounds
<1>5. y \in CallRec /\ y.pc = "installed" /\ y.archive = x.archive
  BY ZenonT(60), <1>3 DEF CallRec, InsidePcs
<1> HIDE DEF y
<1>6. SlotFine(y, NoStore, disclosed')
  <2>1. CallFine(y, NoStore, disclosed')
    BY ZenonT(60), <1>2, <1>5 DEF CallFine
  <2> QED BY ZenonT(60), <2>1 DEF SlotFine
<1>7. OneRestoreAtATime'
  BY ZenonT(60), <1>1, <1>2, LockFrame
<1>8. TargetFine(u, disclosed)
  <2>1. x.credential # FirstCredential
    BY <1>3 DEF Given, FirstCredential, Credential
  <2> QED BY ZenonT(60), <2>1, <1>3 DEF TargetFine, Renewed, Given
<1>9. /\ stores' = [q \in Paths |-> stores'[q]] /\ stores'[p] = u
      /\ \A q \in Paths : q # p => stores'[q] = stores[q]
  BY ZenonT(60), <1>1, <1>4 DEF RestoreInv, Paths
<1>10. StoreFine(stores'["origin"]) /\ \A t \in Targets : TargetFine(stores'[t], disclosed')
  BY ZenonT(60), <1>1, <1>4, <1>8, <1>9 DEF RestoreInv, Paths
<1>11. ASSUME NEW q \in Restorers PROVE SlotFine(restorers'[q], temps'[q], disclosed')
  BY ZenonT(60), <1>1, <1>6 DEF RestoreInv
<1>12. RestoreInv'
  <2>1. /\ restorers' = [q \in Restorers |-> restorers'[q]] /\ temps' = [q \in Restorers |-> temps'[q]]
    BY ZenonT(60), <1>1 DEF RestoreInv
  <2>2. RecoveryReceiptEarned' /\ minted' \in Nat /\ \A a \in archives' : ArchiveFine(a)
    BY ZenonT(60), <1>1 DEF RestoreInv, RecoveryReceiptEarned
  <2> QED BY ZenonT(60), <1>7, <1>9, <1>10, <1>11, <2>1, <2>2 DEF RestoreInv
<1>13. /\ x.archive.defect = "none" \/ (x.archive.defect = "signature" /\ x.archive.signature = "Absent")
  <2>1. /\ x.archive.defect \in Defects \cup {"none"} /\ x.archive.signature \in {"Valid", "Absent"}
    BY ZenonT(60), <1>3 DEF ArchiveRec
  <2> QED BY ZenonT(60), <2>1, <1>3, RestoreBounds DEF Opened, Rebuilt
<1>14. stores'[p].keyring = x.archive.store.keyring + 1
  BY ZenonT(60), <1>3, <1>9 DEF Renewed
<1> QED BY ZenonT(60), <1>3, <1>12, <1>13, <1>14 DEF Entered

\* Backups and rehearsals keep the invariant.
LEMMA RestoreBackupStep ==
  ASSUME RestoreInv, BackupSteps
  PROVE  RestoreInv'
<1>i. /\ stores = [p \in Paths |-> stores[p]] /\ StoreFine(stores["origin"])
      /\ \A t \in Targets : TargetFine(stores[t], disclosed)
      /\ temps = [r \in Restorers |-> temps[r]] /\ restorers = [r \in Restorers |-> restorers[r]]
      /\ \A a \in archives : ArchiveFine(a)
      /\ minted \in Nat
      /\ \A r \in Restorers : SlotFine(restorers[r], temps[r], disclosed)
      /\ OneRestoreAtATime /\ RecoveryReceiptEarned
  BY ZenonT(60) DEF RestoreInv
<1>p. "origin" \in Paths /\ Targets \subseteq Paths /\ "origin" \notin Targets
  BY RestoreBounds DEF Paths
<1>1. CASE OriginMoves
  <2> DEFINE s == stores["origin"]
  <2>1. UNCHANGED <<archives, lockFile, temps, restorers, disclosed, minted, receipt>>
    BY <1>1 DEF OriginMoves
  <2>2. ASSUME NEW t, StoreFine(t), stores' = [stores EXCEPT !["origin"] = t] PROVE RestoreInv'
    <3>1. /\ stores' = [p \in Paths |-> stores'[p]] /\ stores'["origin"] = t
          /\ \A p \in Targets : stores'[p] = stores[p]
      BY ZenonT(60), <2>2, <1>i, <1>p
    <3>2. OneRestoreAtATime' /\ RecoveryReceiptEarned'
      BY ZenonT(60), <2>1, <1>i DEF OneRestoreAtATime, RecoveryReceiptEarned, Inside
    <3> QED BY ZenonT(60), <1>i, <2>1, <2>2, <3>1, <3>2 DEF RestoreInv
  <2>3. CASE stores' = [stores EXCEPT !["origin"].lifecycle =
                          IF @ = "Ready" THEN "Reencrypting" ELSE "Ready"]
    <3> DEFINE l == IF s.lifecycle = "Ready" THEN "Reencrypting" ELSE "Ready"
               t == [s EXCEPT !.lifecycle = l]
    <3>1. l \in {"Ready", "Reencrypting"}
      OBVIOUS
    <3>2. stores' = [stores EXCEPT !["origin"] = t]
      BY <2>3
    <3> HIDE DEF l
    <3>3. t \in StoreRec /\ t.epoch = s.epoch /\ t.creds = s.creds
      BY ZenonT(60), <1>i, <3>1 DEF StoreFine, StoreRec
    <3> HIDE DEF t
    <3>4. StoreFine(t)
      BY ZenonT(60), <1>i, <3>3 DEF StoreFine
    <3> QED BY ZenonT(60), <3>2, <3>4, <2>2
  <2>4. CASE stores' = [stores EXCEPT !["origin"].epoch = @ + 1, !["origin"].head = @ + 1]
    <3> DEFINE e == s.epoch + 1
               h == s.head + 1
               t1 == [s EXCEPT !.epoch = e]
               t == [t1 EXCEPT !.head = h]
    <3>1. e \in Nat \ {0} /\ h \in Nat /\ s.epoch \in Nat
      BY <1>i DEF StoreFine, StoreRec
    <3>2. stores' = [stores EXCEPT !["origin"] = t]
      BY ZenonT(60), <2>4, <1>i, <1>p DEF StoreFine, StoreRec
    <3>3. t \in StoreRec /\ t.epoch = e /\ t.creds = s.creds
      <4> HIDE DEF e, h
      <4> QED BY ZenonT(60), <1>i, <3>1 DEF StoreFine, StoreRec
    <3> HIDE DEF t
    <3>4. \A c \in s.creds : c.epoch \in Nat /\ c.epoch <= s.epoch
      BY ZenonT(60), <1>i DEF StoreFine, StoreRec, CredentialRec
    <3>5. StoreFine(t)
      BY <3>1, <3>3, <3>4 DEF StoreFine
    <3> QED BY ZenonT(60), <3>2, <3>5, <2>2
  <2> QED BY ZenonT(60), <1>1, <2>3, <2>4 DEF OriginMoves
<1>2. ASSUME NEW p \in Paths, NEW v \in SUBSET Identities, NEW o \in Observations(stores[p].head),
             NEW g \in {"Valid", "Absent"}, NEW d \in Defects \cup {"none"},
             CreateBackup(p, v, o, g, d)
      PROVE  RestoreInv'
  <2> DEFINE s == stores[p]
             m == Effective(s.active, v)
             a == [store |-> s, effective |-> m, claimed |-> o.claimed,
                   signature |-> g, defect |-> d]
  <2>1. /\ UNCHANGED <<stores, lockFile, temps, restorers, disclosed, minted, receipt>>
        /\ Present(p) /\ archives' = archives \cup {a}
    BY ZenonT(60), <1>2 DEF CreateBackup, Snapshot, Manifest
  <2>2. StoreFine(s)
    <3>1. CASE p = "origin"
      BY ZenonT(60), <3>1, <1>i
    <3>2. CASE p \in Targets
      BY ZenonT(60), <3>2, <2>1, <1>i DEF TargetFine, Present
    <3> QED BY ZenonT(60), <3>1, <3>2 DEF Paths
  <2>3. o.claimed \in BOOLEAN
    BY ZenonT(60) DEF Observations
  <2>4. s \in StoreRec /\ m \subseteq Identities
    BY ZenonT(60), <2>2 DEF StoreFine, StoreRec, Effective
  <2>5. a \in ArchiveRec /\ a.store = s
    <3> HIDE DEF m, s
    <3> QED BY ZenonT(60), <2>3, <2>4 DEF ArchiveRec
  <2> HIDE DEF a
  <2>6. \A b \in archives' : ArchiveFine(b)
    BY ZenonT(60), <1>i, <2>1, <2>2, <2>5 DEF ArchiveFine
  <2>7. OneRestoreAtATime' /\ RecoveryReceiptEarned'
    BY ZenonT(60), <2>1, <1>i DEF OneRestoreAtATime, RecoveryReceiptEarned, Inside
  <2> QED BY ZenonT(60), <1>i, <2>1, <2>6, <2>7 DEF RestoreInv
<1>3. ASSUME NEW a \in archives, NEW i \in Identities, NEW o \in BOOLEAN, NEW f \in BOOLEAN,
             VerifyBackupFull(a, i, o, f)
      PROVE  RestoreInv'
  <2>1. /\ UNCHANGED <<stores, archives, lockFile, temps, restorers, disclosed, minted>>
        /\ receipt' = [archive |-> a, identity |-> i, mode |-> RehearsalMode(a, i)]
        /\ Gate(a, o) /\ Decrypts(a, i) /\ Reconstructs(a)
    BY ZenonT(60), <1>3 DEF VerifyBackupFull
  <2>2. a.defect \in Defects \cup {"none"} /\ i \in a.effective
    BY ZenonT(60), <1>i, <2>1 DEF ArchiveFine, ArchiveRec, Decrypts
  <2>3. a.defect \in {"none", "signature"}
    BY ZenonT(60), <2>1, <2>2, RestoreBounds DEF Gate, Decrypts, Reconstructs
  <2>4. receipt'.archive = a /\ receipt'.identity = i /\ receipt'.mode = RehearsalMode(a, i)
    BY ZenonT(60), <2>1
  <2>5. RecoveryReceiptEarned'
    <3> SUFFICES ASSUME receipt'.mode = "RecoveryRecipient"
                 PROVE  /\ i \in a.effective \ {a.store.active}
                        /\ a.defect \in {"none", "signature"}
      BY ZenonT(60), <2>4 DEF RecoveryReceiptEarned
    <3>1. i # a.store.active
      BY ZenonT(60), <2>4 DEF RehearsalMode
    <3> QED BY ZenonT(60), <3>1, <2>2, <2>3
  <2>6. OneRestoreAtATime'
    BY ZenonT(60), <2>1, <1>i DEF OneRestoreAtATime, Inside
  <2> QED BY ZenonT(60), <1>i, <2>1, <2>5, <2>6 DEF RestoreInv
<1> QED BY ZenonT(60), <1>1, <1>2, <1>3 DEF BackupSteps

\* What a rename puts in place, as one step.
SoundInstall ==
  \A r \in Restorers : restorers[r].pc = "activated" /\ restorers'[r].pc = "installed" =>
    LET a == restorers[r].archive IN
    /\ a.defect = "none" \/ (a.defect = "signature" /\ a.signature = "Absent")
    /\ a.claimed /\ a.store.anchor = "none" /\ a.store.lifecycle = "Ready"
    /\ stores'[restorers[r].target].keyring = a.store.keyring + 1

\* Every step keeps the invariant, and every rename is sound.
LEMMA RestoreStep == RestoreInv /\ [RestoreNext]_restoreVars => RestoreInv' /\ SoundInstall
<1> SUFFICES ASSUME RestoreInv, [RestoreNext]_restoreVars PROVE RestoreInv' /\ SoundInstall
  OBVIOUS
<1>d. restorers = [q \in Restorers |-> restorers[q]]
  BY DEF RestoreInv
<1>1. CASE UNCHANGED restoreVars
  <2>1. RestoreInv'
    BY ZenonT(60), <1>1 DEF restoreVars, RestoreInv, OneRestoreAtATime, RecoveryReceiptEarned, Inside
  <2>2. restorers' = restorers
    BY <1>1 DEF restoreVars
  <2> QED BY ZenonT(60), <2>1, <2>2 DEF SoundInstall
<1>2. CASE BackupSteps
  <2>1. restorers' = restorers
    BY ZenonT(60), <1>2 DEF BackupSteps, OriginMoves, CreateBackup, VerifyBackupFull
  <2> QED BY ZenonT(60), <2>1, <1>2, RestoreBackupStep DEF SoundInstall
<1>3. ASSUME NEW r \in Restorers, RestoreSteps(r) PROVE RestoreInv' /\ SoundInstall
  <2>f. ASSUME NEW x, restorers' = [restorers EXCEPT ![r] = x], x.pc # "installed"
        PROVE  SoundInstall
    <3>1. restorers'[r] = x /\ \A q \in Restorers : q # r => restorers'[q] = restorers[q]
      BY <2>f, <1>d
    <3> QED BY ZenonT(60), <2>f, <3>1 DEF SoundInstall
  <2>i. Idle.pc # "installed"
    BY ZenonT(60) DEF Idle
  <2>1. CASE Install(r)
    <3>1. \A q \in Restorers : q # r => restorers'[q] = restorers[q]
      BY <2>1, <1>d DEF Install
    <3> QED BY ZenonT(60), <2>1, <3>1, RestoreInstallStep DEF SoundInstall
  <2>2. CASE Finish(r) \/ RestoreFails(r)
    <3>1. restorers' = [restorers EXCEPT ![r] = Idle]
      BY ZenonT(60), <2>2 DEF Finish, RestoreFails, Leaves
    <3> QED BY ZenonT(60), <2>2, <3>1, <2>f, <2>i, RestoreEndStep
  <2>3. CASE Crash(r)
    <3> DEFINE y == [pc |-> "dead", held |-> restorers[r].pc # "checked"]
    <3>1. restorers' = [restorers EXCEPT ![r] = y]
      BY ZenonT(60), <2>3 DEF Crash
    <3>2. y.pc # "installed"
      OBVIOUS
    <3> HIDE DEF y
    <3> QED BY ZenonT(60), <2>3, <3>1, <3>2, <2>f, RestoreEndStep
  <2>4. CASE Disclose(r) \/ Activate(r) \/ AcquireLock(r) \/ Build(r) \/ EnterBuild(r)
    <3>1. restorers[r].pc # "activated"
      BY ZenonT(60), <2>4 DEF Disclose, Activate, AcquireLock, Build, EnterBuild
    <3>2. \A q \in Restorers : q # r => restorers'[q] = restorers[q]
      BY ZenonT(60), <2>4, <1>d DEF Disclose, Activate, AcquireLock, Build, EnterBuild, Leaves
    <3>3. SoundInstall
      BY ZenonT(60), <3>1, <3>2 DEF SoundInstall
    <3> QED BY ZenonT(60), <2>4, <3>3, RestoreBeginStep, RestoreEndStep
  <2>5. CASE \E a \in archives, t \in Targets, i, n, v \in Identities, o \in BOOLEAN :
               BeginRestore(r, a, t, i, n, v, o)
    <3>1. restorers[r].pc # "activated"
      BY ZenonT(60), <2>5 DEF BeginRestore
    <3>2. \A q \in Restorers : q # r => restorers'[q] = restorers[q]
      BY ZenonT(60), <2>5, <1>d DEF BeginRestore
    <3>3. SoundInstall
      BY ZenonT(60), <3>1, <3>2 DEF SoundInstall
    <3> QED BY ZenonT(60), <2>5, <3>3, RestoreBeginStep
  <2> QED BY ZenonT(60), <1>3, <2>1, <2>2, <2>3, <2>4, <2>5 DEF RestoreSteps
<1> QED BY ZenonT(60), <1>1, <1>2, <1>3 DEF RestoreNext

\* The directory at the start satisfies the invariant.
LEMMA RestoreInitially == RestoreInit => RestoreInv
<1> SUFFICES ASSUME RestoreInit PROVE RestoreInv
  OBVIOUS
<1>1. PICK active \in Identities, recovery \in Identities :
        stores = [p \in Paths |->
            IF p = "origin"
            THEN [epoch |-> 1, keyring |-> 1, head |-> 1, anchor |-> "none", lifecycle |-> "Ready",
                  active |-> active, recovery |-> recovery, creds |-> {FirstCredential}]
            ELSE NoStore]
  BY ZenonT(60) DEF RestoreInit
<1> DEFINE s == [epoch |-> 1, keyring |-> 1, head |-> 1, anchor |-> "none", lifecycle |-> "Ready",
                 active |-> active, recovery |-> recovery, creds |-> {FirstCredential}]
<1>2. stores["origin"] = s /\ (\A t \in Targets : stores[t] = NoStore)
      /\ stores = [p \in Paths |-> stores[p]]
  BY ZenonT(60), <1>1, RestoreBounds DEF Paths
<1>3. FirstCredential \in CredentialRec /\ FirstCredential.epoch = 1
  BY ZenonT(60) DEF FirstCredential, Credential, CredentialRec
<1>4. StoreFine(s)
  <2>1. s \in StoreRec
    <3>1. 1 \in Nat /\ 1 \in Nat \ {0}
      OBVIOUS
    <3> QED BY ZenonT(60), <1>3, <3>1 DEF StoreRec
  <2>2. s.epoch = 1 /\ s.creds = {FirstCredential}
    OBVIOUS
  <2> HIDE DEF s
  <2> QED BY <2>1, <2>2, <1>3 DEF StoreFine
<1> HIDE DEF s
<1>5. /\ archives = {} /\ lockFile = FALSE /\ minted = 0 /\ receipt = NoReceipt
      /\ temps = [r \in Restorers |-> NoStore] /\ restorers = [r \in Restorers |-> Idle]
  BY ZenonT(60) DEF RestoreInit
<1>6. OneRestoreAtATime
  BY ZenonT(60), <1>5 DEF OneRestoreAtATime, Inside, Idle
<1>7. RecoveryReceiptEarned
  BY ZenonT(60), <1>5 DEF RecoveryReceiptEarned, NoReceipt
<1>8. \A r \in Restorers : SlotFine(restorers[r], temps[r], disclosed)
  BY ZenonT(60), <1>5 DEF SlotFine
<1>9. \A t \in Targets : TargetFine(stores[t], disclosed)
  BY ZenonT(60), <1>2 DEF TargetFine
<1>10. /\ temps = [r \in Restorers |-> temps[r]] /\ restorers = [r \in Restorers |-> restorers[r]]
       /\ minted \in Nat
  BY ZenonT(60), <1>5
<1> QED BY ZenonT(60), <1>2, <1>4, <1>5, <1>6, <1>7, <1>8, <1>9, <1>10 DEF RestoreInv

\* For any number of restores, archives and crashes: a target that restore put in place
\* accepts exactly the credential its operator was given, and a recovery receipt was earned.
THEOREM RestoreTruth == RestoreSpec => []RestoreIsTruthful
BY RestoreInitially, RestoreStep, RestoreInvMeans, PTL DEF RestoreSpec

\* The lock file has one owner, and a temporary store one that runs or died.
THEOREM RestoreOwnsFiles == RestoreSpec => [](OneRestoreAtATime /\ NoStrayTemporary)
BY RestoreInitially, RestoreStep, RestoreInvMeans, PTL DEF RestoreSpec

\* restore renames only a temporary whose archive passed every check.
THEOREM RestoreInstalls == RestoreSpec => InstalledIsSound
<1>1. RestoreInv /\ [RestoreNext]_restoreVars => [SoundInstall]_restoreVars
  BY ZenonT(60), RestoreStep
<1> QED BY <1>1, RestoreInitially, RestoreStep, PTL DEF RestoreSpec, InstalledIsSound, SoundInstall

-----------------------------------------------------------------------------
\* The order of the naturals, as a relation.
Less == {p \in Nat \X Nat : p[1] < p[2]}

\* Every set of naturals has a least element; with it, a counterexample may be taken to be
\* the first one.
LEMMA LeastNatural ==
  ASSUME NEW T \in SUBSET Nat, T # {}
  PROVE  \E n \in T : \A m \in T : n <= m
<1>1. IsWellFoundedOn(Less, Nat)
  BY NatLessThanWellFounded DEF OpToRel, Less
<1>2. PICK n \in T : \A m \in T : ~ (<<m, n>> \in Less)
  BY ZenonT(60), <1>1, WFMin
<1>3. ASSUME NEW m \in T PROVE n <= m
  <2>1. m \in Nat /\ n \in Nat /\ <<m, n>> \notin Less
    BY ZenonT(60), <1>2
  <2>2. m < n => <<m, n>> \in Less
    BY <2>1 DEF Less
  <2> QED BY <2>1, <2>2
<1> QED BY ZenonT(60), <1>3

\* A sequence of anything.
IsLog(q) == \E E : q \in Seq(E)

\* What Append does to such a sequence.
LEMMA LogGrows ==
  ASSUME NEW q, IsLog(q), NEW e
  PROVE  /\ IsLog(Append(q, e)) /\ Len(q) \in Nat /\ DOMAIN q = 1 .. Len(q)
         /\ Len(Append(q, e)) = Len(q) + 1 /\ DOMAIN Append(q, e) = 1 .. Len(q) + 1
         /\ Append(q, e)[Len(q) + 1] = e
         /\ \A i \in 1 .. Len(q) : Append(q, e)[i] = q[i]
<1>1. PICK E : q \in Seq(E)
  BY DEF IsLog
<1>2. q \in Seq(E \cup {e})
  BY <1>1
<1>3. Append(q, e) \in Seq(E \cup {e})
  BY <1>2
<1>4. IsLog(Append(q, e))
  BY <1>3 DEF IsLog
<1> QED BY <1>2, <1>4

\* f undoes a log entry by entry, from its end down to position from.
Undoes(f, rows, log, from) ==
  f = [n \in from .. Len(log) |-> IF n = Len(log) THEN rows ELSE Undone(f[n + 1], log[n + 1])]

\* There is such a function.
LEMMA UndoExists ==
  ASSUME NEW rows, NEW log, Len(log) \in Nat, NEW from \in 0 .. Len(log)
  PROVE  \E f : Undoes(f, rows, log, from)
<1> DEFINE L == Len(log)
           T == {k \in 0 .. L : ~ \E f : Undoes(f, rows, log, L - k)}
<1>1. SUFFICES T = {}
  <2>1. L - from \in 0 .. L /\ L - (L - from) = from
    OBVIOUS
  <2> QED BY ZenonT(60), <1>1, <2>1
<1>2. SUFFICES ASSUME T # {} PROVE FALSE
  OBVIOUS
<1>3. PICK k \in T : \A m \in T : k <= m
  <2>1. T \in SUBSET Nat
    OBVIOUS
  <2> HIDE DEF T
  <2> QED BY ZenonT(60), <1>2, <2>1, LeastNatural
<1>4. CASE k = 0
  <2> DEFINE f == [n \in L .. L |-> rows]
  <2>1. Undoes(f, rows, log, L)
    BY DEF Undoes
  <2>2. L - k = L /\ ~ \E h : Undoes(h, rows, log, L - k)
    BY <1>3, <1>4
  <2> HIDE DEF f, T
  <2> QED BY ZenonT(60), <2>1, <2>2
<1>5. CASE k # 0
  <2> DEFINE j == L - k
  <2>0. k \in 1 .. L
    BY <1>5
  <2>1. k - 1 \in 0 .. L /\ k - 1 \notin T /\ L - (k - 1) = j + 1 /\ j \in 0 .. L - 1 /\ j + 1 \in 0 .. L
    <3>1. k - 1 \in 0 .. L /\ ~ (k <= k - 1) /\ L - (k - 1) = j + 1 /\ j \in 0 .. L - 1
          /\ j + 1 \in 0 .. L
      BY <2>0
    <3> HIDE DEF T, j
    <3> QED BY ZenonT(60), <1>3, <3>1
  <2>2. PICK g : Undoes(g, rows, log, j + 1)
    BY <2>1
  <2> HIDE DEF T, j
  <2> DEFINE f == [n \in j .. L |-> IF n = j THEN Undone(g[j + 1], log[j + 1]) ELSE g[n]]
  <2>3. ASSUME NEW n \in j .. L
        PROVE  f[n] = IF n = L THEN rows ELSE Undone(f[n + 1], log[n + 1])
    <3>1. CASE n = j
      <4>1. n # L /\ f[n + 1] = g[n + 1] /\ f[n] = Undone(g[j + 1], log[j + 1])
        BY <2>1, <3>1
      <4> QED BY ZenonT(60), <3>1, <4>1
    <3>2. CASE n # j
      <4>1. n \in j + 1 .. L /\ f[n] = g[n]
        BY <2>1, <3>2
      <4>2. n # L => f[n + 1] = g[n + 1]
        BY <2>1, <4>1
      <4>3. g[n] = IF n = L THEN rows ELSE Undone(g[n + 1], log[n + 1])
        BY ZenonT(60), <2>2, <4>1 DEF Undoes
      <4> QED BY ZenonT(60), <4>1, <4>2, <4>3
    <3> QED BY ZenonT(60), <3>1, <3>2
  <2>4. Undoes(f, rows, log, j)
    <3>1. f = [n \in j .. L |-> f[n]]
      OBVIOUS
    <3> HIDE DEF f
    <3> QED BY ZenonT(60), <2>3, <3>1 DEF Undoes
  <2> QED BY ZenonT(60), <2>4, <1>3 DEF T, j
<1> QED BY <1>4, <1>5

\* There is only one.
LEMMA UndoUnique ==
  ASSUME NEW rows, NEW log, Len(log) \in Nat, NEW from \in 0 .. Len(log),
         NEW f, Undoes(f, rows, log, from), NEW g, Undoes(g, rows, log, from)
  PROVE  f[from] = g[from]
<1> DEFINE L == Len(log)
           T == {k \in 0 .. L - from : f[L - k] # g[L - k]}
<1>1. SUFFICES ASSUME T # {} PROVE FALSE
  <2>1. L - from \in 0 .. L - from /\ L - (L - from) = from
    OBVIOUS
  <2> QED BY ZenonT(60), <1>1, <2>1
<1>2. PICK k \in T : \A m \in T : k <= m
  <2>1. T \in SUBSET Nat
    OBVIOUS
  <2> HIDE DEF T
  <2> QED BY ZenonT(60), <1>1, <2>1, LeastNatural
<1> DEFINE j == L - k
<1>3. j \in from .. L /\ f[j] # g[j]
  BY <1>2
<1>4. /\ f[j] = IF j = L THEN rows ELSE Undone(f[j + 1], log[j + 1])
      /\ g[j] = IF j = L THEN rows ELSE Undone(g[j + 1], log[j + 1])
  <2> HIDE DEF T, j
  <2> QED BY ZenonT(60), <1>3 DEF Undoes
<1>5. j # L
  BY <1>3, <1>4
<1>6. k - 1 \in 0 .. L - from /\ k - 1 \notin T /\ L - (k - 1) = j + 1
  BY <1>2, <1>5
<1>7. f[j + 1] = g[j + 1]
  BY ZenonT(60), <1>6
<1> HIDE DEF T, j
<1> QED BY ZenonT(60), <1>3, <1>4, <1>5, <1>7

\* RowsBefore is that function's value.
LEMMA RowsBeforeIs ==
  ASSUME NEW rows, NEW log, Len(log) \in Nat, NEW from \in 0 .. Len(log),
         NEW f, Undoes(f, rows, log, from)
  PROVE  RowsBefore(rows, log, from) = f[from]
<1> DEFINE g == CHOOSE h : Undoes(h, rows, log, from)
<1>1. Undoes(g, rows, log, from)
  BY ZenonT(60), UndoExists
<1>2. RowsBefore(rows, log, from) = g[from]
  BY DEF RowsBefore, Undoes
<1> HIDE DEF g
<1> QED BY <1>1, <1>2, UndoUnique

\* Nothing to undo.
LEMMA RowsBeforeEnd ==
  ASSUME NEW rows, NEW log, Len(log) \in Nat
  PROVE  RowsBefore(rows, log, Len(log)) = rows
<1> DEFINE f == [n \in Len(log) .. Len(log) |-> rows]
<1>1. Undoes(f, rows, log, Len(log)) /\ f[Len(log)] = rows
  BY DEF Undoes
<1> HIDE DEF f
<1> QED BY <1>1, RowsBeforeIs

\* An entry that records what it changed undoes to the rows before it, so nothing older moves.
LEMMA RowsBeforeGrows ==
  ASSUME NEW log, IsLog(log), NEW e, NEW rows, NEW new, Undone(new, e) = rows,
         NEW from \in 0 .. Len(log)
  PROVE  RowsBefore(new, Append(log, e), from) = RowsBefore(rows, log, from)
<1> DEFINE L == Len(log)
           more == Append(log, e)
<1>1. /\ L \in Nat /\ Len(more) = L + 1 /\ more[L + 1] = e
      /\ \A i \in 1 .. L : more[i] = log[i]
  BY LogGrows
<1> HIDE DEF more
<1>2. from \in 0 .. Len(more) /\ Len(more) \in Nat
  BY <1>1
<1>3. PICK f : Undoes(f, new, more, from)
  BY ZenonT(60), <1>2, UndoExists
<1> DEFINE g == [n \in from .. L |-> f[n]]
<1>4. \A n \in from .. L + 1 : f[n] = IF n = L + 1 THEN new ELSE Undone(f[n + 1], more[n + 1])
  BY ZenonT(60), <1>1, <1>3 DEF Undoes
<1>5. f[L] = rows
  <2>1. L \in from .. L + 1 /\ L + 1 \in from .. L + 1 /\ L # L + 1
    BY <1>1
  <2> QED BY ZenonT(60), <1>1, <1>4, <2>1
<1>6. ASSUME NEW n \in from .. L
      PROVE  g[n] = IF n = L THEN rows ELSE Undone(g[n + 1], log[n + 1])
  <2>1. CASE n = L
    BY <1>5, <2>1
  <2>2. CASE n # L
    <3>1. n \in from .. L + 1 /\ n # L + 1 /\ n + 1 \in 1 .. L /\ g[n + 1] = f[n + 1] /\ g[n] = f[n]
      BY <1>1, <2>2
    <3> HIDE DEF g
    <3> QED BY ZenonT(60), <1>1, <1>4, <2>2, <3>1
  <2> QED BY <2>1, <2>2
<1>7. Undoes(g, rows, log, from)
  <2>1. g = [n \in from .. L |-> g[n]]
    OBVIOUS
  <2> HIDE DEF g
  <2> QED BY ZenonT(60), <1>6, <2>1 DEF Undoes
<1>8. RowsBefore(new, more, from) = f[from]
  BY ZenonT(60), <1>2, <1>3, RowsBeforeIs
<1>9. RowsBefore(rows, log, from) = g[from]
  <2> HIDE DEF g
  <2> QED BY <1>1, <1>7, RowsBeforeIs
<1>10. g[from] = f[from]
  BY <1>1
<1> QED BY <1>8, <1>9, <1>10 DEF more

\* The fields of a store, and its rows.
Fields == {"lifecycle", "anchor", "prov", "envelope", "metadata", "epoch", "records", "log",
           "job", "prepared", "registered"}
RowNames == {"keyring", "provisional", "anchor", "epoch", "admins", "secrets"}

ProvRec == [lifecycle : {"ready", "reencrypting"}, generation : Nat]
EnvelopeRec == [generation : Nat, record : Nat, mac : Nat, audit : Nat, recipients : Nat]
MetadataRec == [generation : Nat, recipients : Nat]
RecordsRec == [count : Nat, key : Nat]

\* A store file whose keys and lifecycle agree.
StoreSound(s) ==
  /\ s = [f \in Fields |-> s[f]]
  /\ s.prov \in ProvRec /\ s.envelope \in EnvelopeRec /\ s.metadata \in MetadataRec
  /\ s.records \in RecordsRec
  /\ s.epoch \in Nat
  /\ s.prov.lifecycle = s.lifecycle
  /\ s.records.key = s.envelope.record
  /\ s.anchor # "none" => s.lifecycle = "ready"
  /\ IsLog(s.log)

\* Prepared checkpoints are of the log, and the registered ones are prepared and chained.
ChainSound(s) ==
  /\ IsLog(s.registered)
  /\ \A c \in s.prepared : c.start = c.previous + 1 /\ c.end \in Nat /\ c.end <= Len(s.log)
  /\ \A i \in 1 .. Len(s.registered) :
       /\ s.registered[i] \in s.prepared
       /\ s.registered[i].start = IF i = 1 THEN 1 ELSE s.registered[i - 1].end + 1

\* Every prepared checkpoint is accounted for back to the last silent change.
TailSound(s, quiet) ==
  \A c \in s.prepared : c.end > quiet => RowsAt(s, c.end) = c.digest

\* Only the fields of F differ.
Differ(s, t, F) == \A g \in Fields \ F : t[g] = s[g]

\* The rows of a store are a function of its row fields.
LEMMA RowsAre ==
  ASSUME NEW s
  PROVE  /\ Rows(s) = [r \in RowNames |-> Rows(s)[r]]
         /\ Rows(s).keyring = <<s.metadata.generation, s.metadata.recipients, s.envelope.mac>>
         /\ Rows(s).provisional = <<s.prov.lifecycle, s.prov.generation, s.envelope.mac>>
         /\ Rows(s).anchor = s.anchor
         /\ Rows(s).epoch = <<s.epoch, s.envelope.mac>>
         /\ Rows(s).admins = <<s.epoch, s.envelope.mac>>
         /\ Rows(s).secrets = <<s.records.count, s.records.key>>
<1>1. Rows(s) = [r \in RowNames |-> Rows(s)[r]]
  BY ZenonT(60) DEF Rows, RowNames
<1> QED BY ZenonT(60), <1>1 DEF Rows

\* A row is unchanged when the fields it covers are.
LEMMA RowsAgree ==
  ASSUME NEW s, NEW t
  PROVE  /\ t.metadata = s.metadata /\ t.envelope.mac = s.envelope.mac =>
              Rows(t)["keyring"] = Rows(s)["keyring"]
         /\ t.prov = s.prov /\ t.envelope.mac = s.envelope.mac =>
              Rows(t)["provisional"] = Rows(s)["provisional"]
         /\ t.anchor = s.anchor => Rows(t)["anchor"] = Rows(s)["anchor"]
         /\ t.epoch = s.epoch /\ t.envelope.mac = s.envelope.mac =>
              Rows(t)["epoch"] = Rows(s)["epoch"] /\ Rows(t)["admins"] = Rows(s)["admins"]
         /\ t.records = s.records => Rows(t)["secrets"] = Rows(s)["secrets"]
BY ZenonT(60) DEF Rows

\* A transaction that writes rows and the event that commits to them.
LEMMA LoggedKeeps ==
  ASSUME NEW s, StoreSound(s), ChainSound(s), NEW quiet \in Nat, TailSound(s, quiet),
         NEW t, StoreSound(t), t.log = s.log, t.prepared = s.prepared, t.registered = s.registered,
         NEW R, R \subseteq RowNames, \A r \in RowNames \ R : Rows(t)[r] = Rows(s)[r],
         NEW op, NEW time, NEW u, u = Logged(s, t, op, time, R)
  PROVE  /\ StoreSound(u) /\ ChainSound(u) /\ TailSound(u, quiet)
         /\ Differ(t, u, {"log"})
         /\ Len(s.log) \in Nat /\ Len(u.log) = Len(s.log) + 1
         /\ \A i \in 1 .. Len(s.log) : u.log[i] = s.log[i]
<1> DEFINE e == [op |-> op, time |-> time, kind |-> IF R = {} THEN "none" ELSE "delta",
                 before |-> [r \in R |-> Rows(s)[r]], after |-> [r \in R |-> Rows(t)[r]]]
           q == Append(s.log, e)
<1>1. u = [t EXCEPT !.log = q]
  BY ZenonT(60) DEF Logged
<1>2. e.before = [r \in R |-> Rows(s)[r]]
  OBVIOUS
<1> HIDE DEF e
<1>3. /\ IsLog(q) /\ Len(s.log) \in Nat /\ Len(q) = Len(s.log) + 1
      /\ \A i \in 1 .. Len(s.log) : q[i] = s.log[i]
  BY LogGrows DEF StoreSound
<1> HIDE DEF q
<1>4. u = [f \in Fields |-> u[f]] /\ u.log = q /\ Differ(t, u, {"log"})
  BY ZenonT(60), <1>1 DEF StoreSound, Fields, Differ
<1>5. /\ u.prov = t.prov /\ u.envelope = t.envelope /\ u.metadata = t.metadata
      /\ u.records = t.records /\ u.epoch = t.epoch /\ u.lifecycle = t.lifecycle
      /\ u.anchor = t.anchor /\ u.prepared = t.prepared /\ u.registered = t.registered
  BY ZenonT(60), <1>4 DEF Differ, Fields
<1>6. StoreSound(u)
  BY ZenonT(60), <1>3, <1>4, <1>5 DEF StoreSound
<1>7. ChainSound(u)
  <2>1. u.prepared = s.prepared /\ u.registered = s.registered
    BY ZenonT(60), <1>5
  <2>2. \A c \in u.prepared : c.start = c.previous + 1 /\ c.end \in Nat /\ c.end <= Len(u.log)
    BY <1>3, <1>4, <2>1 DEF ChainSound
  <2> QED BY ZenonT(60), <2>1, <2>2 DEF ChainSound
<1>8. Rows(u) = Rows(t)
  BY ZenonT(60), <1>5 DEF Rows
<1>9. Undone(Rows(t), e) = Rows(s)
  <2>1. DOMAIN Rows(t) = RowNames /\ DOMAIN e.before = R
    BY <1>2, RowsAre
  <2>2. Undone(Rows(t), e) = [r \in RowNames |-> IF r \in R THEN e.before[r] ELSE Rows(t)[r]]
    BY ZenonT(60), <2>1 DEF Undone
  <2>3. \A r \in RowNames : (IF r \in R THEN e.before[r] ELSE Rows(t)[r]) = Rows(s)[r]
    BY ZenonT(60), <1>2
  <2>4. Undone(Rows(t), e) = [r \in RowNames |-> Rows(s)[r]]
    BY ZenonT(60), <2>2, <2>3
  <2> QED BY ZenonT(60), <2>4, RowsAre
<1>10. ASSUME NEW c \in s.prepared PROVE RowsAt(u, c.end) = RowsAt(s, c.end)
  <2>1. c.end \in 0 .. Len(s.log)
    BY <1>3 DEF ChainSound
  <2>2. RowsBefore(Rows(t), Append(s.log, e), c.end) = RowsBefore(Rows(s), s.log, c.end)
    BY <1>9, <2>1, RowsBeforeGrows DEF StoreSound
  <2>3. RowsAt(u, c.end) = RowsBefore(Rows(u), u.log, c.end)
        /\ RowsAt(s, c.end) = RowsBefore(Rows(s), s.log, c.end)
    BY ZenonT(60) DEF RowsAt
  <2>4. u.log = Append(s.log, e)
    BY ZenonT(60), <1>4 DEF q
  <2> QED BY ZenonT(60), <2>2, <2>3, <2>4, <1>8
<1>11. TailSound(u, quiet)
  BY ZenonT(60), <1>5, <1>10 DEF TailSound
<1> QED BY ZenonT(60), <1>3, <1>4, <1>6, <1>7, <1>11

\* A transaction that leaves rows, log and checkpoints alone.
LEMMA QuietKeeps ==
  ASSUME NEW s, ChainSound(s), NEW quiet, TailSound(s, quiet), NEW t,
         t.log = s.log, t.prepared = s.prepared, t.registered = s.registered, Rows(t) = Rows(s)
  PROVE  ChainSound(t) /\ TailSound(t, quiet)
BY ZenonT(60) DEF ChainSound, TailSound, RowsAt

\* After a change that no event commits to, the checkpoints of before account for nothing.
LEMMA SilentKeeps ==
  ASSUME NEW s, StoreSound(s), ChainSound(s), NEW t, StoreSound(t), Len(t.log) >= Len(s.log),
         t.prepared = s.prepared, t.registered = s.registered
  PROVE  ChainSound(t) /\ TailSound(t, Len(t.log)) /\ Len(t.log) \in Nat
<1>1. Len(s.log) \in Nat /\ Len(t.log) \in Nat
  BY ZenonT(60), LogGrows DEF StoreSound
<1>2. \A c \in s.prepared : c.end \in Nat /\ c.end <= Len(t.log)
  BY <1>1 DEF ChainSound
<1>3. ChainSound(t)
  BY ZenonT(60), <1>2 DEF ChainSound
<1>4. TailSound(t, Len(t.log))
  BY <1>1, <1>2 DEF TailSound
<1> QED BY ZenonT(60), <1>1, <1>3, <1>4

\* The store a pass of either kind rewrites is replaced by one that is as sound.
Kept(s, t) ==
  /\ Len(t.log) >= Len(s.log)
  /\ \A i \in DOMAIN s.log : t.log[i] = s.log[i]
  /\ t.epoch = s.epoch
  /\ t.records.count = s.records.count

\* What build_record_rotation produces.
LEMMA RotatedIsSound ==
  ASSUME NEW s, StoreSound(s), NEW u, u = Completed(Reencrypted(s))
  PROVE  /\ StoreSound(u) /\ Kept(s, u)
         /\ u.prepared = s.prepared /\ u.registered = s.registered
<1> DEFINE n == s.envelope.record + 1
           g == s.envelope.generation + 1
           e1 == [s.envelope EXCEPT !.record = n]
           e2 == [e1 EXCEPT !.generation = g]
           m == [s.metadata EXCEPT !.generation = g]
           k == [s.records EXCEPT !.key = n]
           r1 == [s EXCEPT !.envelope = e1]
           r2 == [r1 EXCEPT !.envelope = e2]
           r3 == [r2 EXCEPT !.metadata = m]
           r == [r3 EXCEPT !.records = k]
<1>1. n \in Nat /\ g \in Nat
  BY DEF StoreSound, EnvelopeRec
<1>2. Reencrypted(s) = r
  BY ZenonT(60) DEF Reencrypted, StoreSound, Fields, EnvelopeRec
<1>3. e2 \in EnvelopeRec /\ e2.record = n /\ m \in MetadataRec
  <2> HIDE DEF n, g
  <2> QED BY ZenonT(60), <1>1 DEF StoreSound, EnvelopeRec, MetadataRec
<1>4. k \in RecordsRec /\ k.key = n /\ k.count = s.records.count
  <2> HIDE DEF n, g
  <2> QED BY ZenonT(60), <1>1 DEF StoreSound, RecordsRec
<1>5. /\ r = [f \in Fields |-> r[f]] /\ r.envelope = e2 /\ r.metadata = m /\ r.records = k
      /\ Differ(s, r, {"envelope", "metadata", "records"})
  <2> HIDE DEF n, g, e1, e2, m, k
  <2> QED BY ZenonT(60) DEF StoreSound, Fields, Differ
<1>6. /\ r.prov = s.prov /\ r.epoch = s.epoch /\ r.log = s.log
      /\ r.prepared = s.prepared /\ r.registered = s.registered
  <2> HIDE DEF r
  <2> QED BY ZenonT(60), <1>5 DEF Differ, Fields
<1> HIDE DEF r, k, m, e2, n, g
<1> DEFINE p == [lifecycle |-> "ready", generation |-> r.prov.generation + 1]
           l1 == [r EXCEPT !.lifecycle = "ready"]
           l == [l1 EXCEPT !.prov = p]
           e == [op |-> "record_rotation", time |-> HeadTime(r) + 1,
                 kind |-> "whole", before |-> plan.before, after |-> Rows(l)]
           j == [status |-> "installed_pending_anchor", installed |-> Rows(l)]
           q == Append(r.log, e)
           c1 == [l EXCEPT !.anchor = "record-key"]
           c2 == [c1 EXCEPT !.job = j]
           c == [c2 EXCEPT !.log = q]
<1>7. InLifecycle(r, "ready") = l
  BY DEF InLifecycle
<1>8. u = c
  BY ZenonT(60), <1>2, <1>7 DEF Completed
<1>9. p \in ProvRec /\ p.lifecycle = "ready"
  BY <1>6 DEF StoreSound, ProvRec
<1>10. /\ IsLog(q) /\ Len(s.log) \in Nat /\ Len(q) = Len(s.log) + 1 /\ DOMAIN s.log = 1 .. Len(s.log)
       /\ \A i \in 1 .. Len(s.log) : q[i] = s.log[i]
  <2> HIDE DEF e
  <2> QED BY <1>6, LogGrows DEF StoreSound
<1>11. /\ c = [f \in Fields |-> c[f]] /\ c.lifecycle = "ready" /\ c.prov = p /\ c.anchor = "record-key"
       /\ c.log = q /\ Differ(r, c, {"lifecycle", "prov", "anchor", "job", "log"})
  <2> HIDE DEF p, q, j, e
  <2> QED BY ZenonT(60), <1>5 DEF Fields, Differ
<1> HIDE DEF c, p, q
<1>12. /\ u.envelope = e2 /\ u.metadata = m /\ u.records = k /\ u.epoch = s.epoch
       /\ u.prepared = s.prepared /\ u.registered = s.registered
  BY <1>5, <1>6, <1>8, <1>11 DEF Differ, Fields
<1>13. StoreSound(u)
  BY ZenonT(60), <1>3, <1>4, <1>8, <1>9, <1>10, <1>11, <1>12 DEF StoreSound
<1>14. Len(u.log) >= Len(s.log) /\ \A i \in DOMAIN s.log : u.log[i] = s.log[i]
  BY <1>8, <1>10, <1>11
<1> QED BY ZenonT(60), <1>4, <1>12, <1>13, <1>14 DEF Kept

\* What run_metadata_remac produces.
LEMMA ResealedIsSound ==
  ASSUME NEW s, StoreSound(s), NEW u, u = Resealed(s)
  PROVE  /\ StoreSound(u) /\ Kept(s, u)
         /\ u.prepared = s.prepared /\ u.registered = s.registered
<1> DEFINE n == s.envelope.mac + 1
           g == s.envelope.generation + 1
           e1 == [s.envelope EXCEPT !.mac = n]
           e2 == [e1 EXCEPT !.generation = g]
           m == [s.metadata EXCEPT !.generation = g]
           r1 == [s EXCEPT !.envelope = e1]
           r2 == [r1 EXCEPT !.envelope = e2]
           r == [r2 EXCEPT !.metadata = m]
           p == [lifecycle |-> "ready", generation |-> s.prov.generation + 2]
           c1 == [r EXCEPT !.lifecycle = "ready"]
           c2 == [c1 EXCEPT !.anchor = "metadata-key"]
           c == [c2 EXCEPT !.prov = p]
<1>1. n \in Nat /\ g \in Nat
  BY DEF StoreSound, EnvelopeRec
<1>2. u = c
  BY ZenonT(60) DEF Resealed, StoreSound, Fields, EnvelopeRec
<1>3. e2 \in EnvelopeRec /\ e2.record = s.envelope.record /\ m \in MetadataRec
  <2> HIDE DEF n, g
  <2> QED BY ZenonT(60), <1>1 DEF StoreSound, EnvelopeRec, MetadataRec
<1>4. p \in ProvRec /\ p.lifecycle = "ready"
  BY DEF StoreSound, ProvRec
<1>5. /\ c = [f \in Fields |-> c[f]] /\ c.envelope = e2 /\ c.metadata = m /\ c.prov = p
      /\ c.lifecycle = "ready" /\ c.anchor = "metadata-key"
      /\ Differ(s, c, {"envelope", "metadata", "lifecycle", "anchor", "prov"})
  <2> HIDE DEF n, g, e1, e2, m, p
  <2> QED BY ZenonT(60) DEF StoreSound, Fields, Differ
<1> HIDE DEF n, g, e1, e2, m, p, c
<1>6. /\ u.epoch = s.epoch /\ u.records = s.records /\ u.log = s.log
      /\ u.prepared = s.prepared /\ u.registered = s.registered
  BY ZenonT(60), <1>2, <1>5 DEF Differ, Fields
<1>7. StoreSound(u)
  BY ZenonT(60), <1>2, <1>3, <1>4, <1>5, <1>6 DEF StoreSound
<1>8. Len(s.log) \in Nat
  BY ZenonT(60), LogGrows DEF StoreSound
<1>9. Kept(s, u)
  BY <1>6, <1>8 DEF Kept
<1> QED BY ZenonT(60), <1>6, <1>7, <1>9

-----------------------------------------------------------------------------
\* What every reachable state satisfies.  A finished sibling is the rewrite of the store as
\* it is now: nothing but the tool that built it changes the store until it is installed.
MaintInv ==
  /\ StoreSound(store) /\ ChainSound(store)
  /\ silent \in Nat /\ TailSound(store, silent)
  /\ siblings = [f \in {"new", "remac"} |-> siblings[f]]
  /\ tool = "built" => siblings.new.body = Completed(Reencrypted(store))
  /\ tool = "remac_built" /\ siblings.remac.state = "complete" =>
       siblings.remac.body = Resealed(store)

\* What InstallKeepsHistory says of one step.
InstallKept == siblings' # siblings /\ store'.anchor # store.anchor => Kept(store, store')

\* The invariant says what the properties ask.
LEMMA MaintMeans ==
  ASSUME MaintInv
  PROVE  RewritesKeepStore /\ AuditAccountsForState
<1>1. StoreSound(store) /\ ChainSound(store) /\ TailSound(store, silent)
  BY ZenonT(60) DEF MaintInv
<1>2. RewritesKeepStore
  BY ZenonT(60), <1>1 DEF RewritesKeepStore, NoMixedKeys, AnchorHoldsReady, StoreSound
<1> DEFINE q == store.registered
<1>3. IsLog(q) /\ DOMAIN q = 1 .. Len(q) /\ Len(q) \in Nat
  BY ZenonT(60), <1>1, LogGrows DEF ChainSound
<1>4. CheckpointsChain
  BY ZenonT(60), <1>1, <1>3 DEF CheckpointsChain, ChainSound
<1>5. TailReconciles
  <2> SUFFICES ASSUME q # <<>> PROVE q[Len(q)] \in store.prepared
    BY ZenonT(60), <1>1 DEF TailReconciles, TailSound
  <2>1. PICK E : q \in Seq(E)
    BY ZenonT(60), <1>3 DEF IsLog
  <2>2. Len(q) \in 1 .. Len(q)
    <3> HIDE DEF q
    <3> QED BY <2>1
  <2> QED BY ZenonT(60), <1>1, <2>2 DEF ChainSound
<1> QED BY ZenonT(60), <1>2, <1>4, <1>5 DEF AuditAccountsForState

\* A step after which the tool holds no finished sibling.
LEMMA MaintMoves ==
  ASSUME StoreSound(store'), ChainSound(store'), silent' \in Nat, TailSound(store', silent'),
         siblings' = [f \in {"new", "remac"} |-> siblings'[f]],
         tool' \notin {"built", "remac_built"},
         siblings' = siblings \/ store'.anchor = store.anchor \/ Kept(store, store')
  PROVE  MaintInv' /\ InstallKept
BY ZenonT(60) DEF MaintInv, InstallKept

\* Steps of the tool and the clock that leave the store alone.
LEMMA MaintToolStep ==
  ASSUME MaintInv,
         \/ UNCHANGED maintenanceVars \/ Tick \/ PlanRotation \/ BuildRotation \/ BuildInterrupted
         \/ AbortInterrupted \/ BuildRemac \/ RemacFails \/ AbortMetadata \/ CrashTool
  PROVE  MaintInv' /\ InstallKept
<1>1. store' = store /\ silent' = silent
  BY ZenonT(60) DEF maintenanceVars, Tick, PlanRotation, BuildRotation, BuildInterrupted,
     AbortInterrupted, BuildRemac, RemacFails, AbortMetadata, CrashTool
<1>2. InstallKept
  BY ZenonT(60), <1>1 DEF InstallKept
<1>i. /\ StoreSound(store) /\ ChainSound(store) /\ silent \in Nat /\ TailSound(store, silent)
      /\ siblings = [f \in {"new", "remac"} |-> siblings[f]]
  BY ZenonT(60) DEF MaintInv
<1>3. StoreSound(store') /\ ChainSound(store') /\ silent' \in Nat /\ TailSound(store', silent')
  BY ZenonT(60), <1>1, <1>i
<1>4. CASE UNCHANGED <<siblings, tool, plan>>
  BY ZenonT(60), <1>1, <1>2, <1>3, <1>4 DEF MaintInv, Completed
<1>5. CASE UNCHANGED siblings /\ tool' \notin {"built", "remac_built"}
  BY ZenonT(60), <1>1, <1>3, <1>5, <1>i, MaintMoves
<1>6. CASE BuildRotation
  <2> DEFINE x == [state |-> "complete", body |-> Completed(Reencrypted(store))]
  <2>1. siblings' = [siblings EXCEPT !.new = x] /\ tool' = "built" /\ plan' = plan
    BY <1>6 DEF BuildRotation
  <2>2. siblings' = [f \in {"new", "remac"} |-> siblings'[f]] /\ siblings'.new = x
    BY ZenonT(60), <2>1, <1>i
  <2>3. siblings'.new.body = Completed(Reencrypted(store))
    BY <2>2
  <2>4. siblings'.new.body = Completed(Reencrypted(store))'
    BY ZenonT(60), <2>1, <2>3, <1>1 DEF Completed
  <2> QED BY ZenonT(60), <2>1, <2>2, <2>4, <1>2, <1>3 DEF MaintInv
<1>7. CASE BuildRemac
  <2> DEFINE x == [state |-> "complete", body |-> Resealed(store)]
  <2>1. siblings' = [siblings EXCEPT !.remac = x] /\ tool' = "remac_built"
    BY <1>7 DEF BuildRemac
  <2>2. siblings' = [f \in {"new", "remac"} |-> siblings'[f]] /\ siblings'.remac = x
    BY ZenonT(60), <2>1, <1>i
  <2>3. siblings'.remac.body = Resealed(store')
    BY <1>1, <2>2
  <2> QED BY ZenonT(60), <2>1, <2>2, <2>3, <1>2, <1>3 DEF MaintInv
<1>8. CASE AbortMetadata
  <2>1. siblings' = [siblings EXCEPT !.remac = Absent] /\ tool' = tool /\ plan' = plan
    BY <1>8 DEF AbortMetadata
  <2>2. /\ siblings' = [f \in {"new", "remac"} |-> siblings'[f]] /\ siblings'.remac = Absent
        /\ siblings'.new = siblings.new
    BY ZenonT(60), <2>1, <1>i
  <2>3. Absent.state # "complete"
    BY ZenonT(60) DEF Absent
  <2>4. tool' = "built" => siblings'.new.body = Completed(Reencrypted(store))'
    BY ZenonT(60), <1>1, <2>1, <2>2 DEF MaintInv, Completed
  <2> QED BY ZenonT(60), <2>1, <2>2, <2>3, <2>4, <1>2, <1>3 DEF MaintInv
<1>9. CASE BuildInterrupted \/ AbortInterrupted \/ RemacFails
  <2>1. tool' = "idle"
    BY ZenonT(60), <1>9 DEF BuildInterrupted, AbortInterrupted, RemacFails
  <2>2. siblings' = [f \in {"new", "remac"} |-> siblings'[f]]
    BY ZenonT(60), <1>9, <1>i DEF BuildInterrupted, AbortInterrupted, RemacFails
  <2> QED BY ZenonT(60), <2>1, <2>2, <1>1, <1>3, MaintMoves
<1>10. CASE PlanRotation \/ CrashTool
  BY ZenonT(60), <1>5, <1>10 DEF PlanRotation, CrashTool
<1>11. CASE UNCHANGED maintenanceVars \/ Tick
  BY ZenonT(60), <1>4, <1>11 DEF maintenanceVars, Tick
<1> QED BY ZenonT(60), <1>6, <1>7, <1>8, <1>9, <1>10, <1>11

\* The rename of a finished sibling.
LEMMA MaintInstallStep ==
  ASSUME MaintInv, InstallRotation \/ InstallRemac
  PROVE  MaintInv' /\ InstallKept
<1>i. StoreSound(store) /\ ChainSound(store) /\ siblings = [f \in {"new", "remac"} |-> siblings[f]]
  BY ZenonT(60) DEF MaintInv
<1>1. store' = Completed(Reencrypted(store)) \/ store' = Resealed(store)
  BY ZenonT(60) DEF MaintInv, InstallRotation, InstallRemac
<1>2. /\ StoreSound(store') /\ Kept(store, store')
      /\ store'.prepared = store.prepared /\ store'.registered = store.registered
  BY ZenonT(60), <1>1, <1>i, RotatedIsSound, ResealedIsSound
<1>3. Len(store'.log) >= Len(store.log)
  BY ZenonT(60), <1>2 DEF Kept
<1>4. ChainSound(store') /\ TailSound(store', Len(store'.log)) /\ Len(store'.log) \in Nat
  BY ZenonT(60), <1>i, <1>2, <1>3, SilentKeeps
<1>5. silent' = Len(store'.log) /\ tool' = "idle"
  BY ZenonT(60) DEF InstallRotation, InstallRemac
<1>6. siblings' = [f \in {"new", "remac"} |-> siblings'[f]]
  BY ZenonT(60), <1>i DEF InstallRotation, InstallRemac
<1> QED BY ZenonT(60), <1>2, <1>4, <1>5, <1>6, MaintMoves

\* An audited change of the rows R, with the tool idle or entering a pass.
LEMMA MaintLogged ==
  ASSUME MaintInv, NEW t, StoreSound(t), Differ(store, t, Fields \ {"log", "anchor", "prepared", "registered"}),
         NEW R, R \subseteq RowNames, \A r \in RowNames \ R : Rows(t)[r] = Rows(store)[r],
         NEW op, NEW time, store' = Logged(store, t, op, time, R),
         silent' = silent, tool' \notin {"built", "remac_built"},
         siblings' = [f \in {"new", "remac"} |-> siblings'[f]]
  PROVE  MaintInv' /\ InstallKept
<1>i. StoreSound(store) /\ ChainSound(store) /\ silent \in Nat /\ TailSound(store, silent)
  BY ZenonT(60) DEF MaintInv
<1>1. /\ t.log = store.log /\ t.anchor = store.anchor
      /\ t.prepared = store.prepared /\ t.registered = store.registered
  BY ZenonT(60) DEF Differ, Fields
<1>2. /\ StoreSound(store') /\ ChainSound(store') /\ TailSound(store', silent)
      /\ Differ(t, store', {"log"})
  BY ZenonT(60), <1>i, <1>1, LoggedKeeps
<1>3. store'.anchor = store.anchor
  BY ZenonT(60), <1>1, <1>2 DEF Differ, Fields
<1> QED BY ZenonT(60), <1>i, <1>2, <1>3, MaintMoves

\* The lifecycle and its sealed mirror, in one audited transaction.
LEMMA MaintLifecycleStep ==
  ASSUME MaintInv, EnterRotation \/ AbortRotation \/ EnterRemac
  PROVE  MaintInv' /\ InstallKept
<1>i. StoreSound(store) /\ siblings = [f \in {"new", "remac"} |-> siblings[f]]
  BY ZenonT(60) DEF MaintInv
<1>1. PICK to \in {"ready", "reencrypting"}, op \in {"record_enter", "record_abort", "remac_enter"} :
        store' = LifecycleCommit(store, to, op)
  BY ZenonT(60) DEF EnterRotation, AbortRotation, EnterRemac
<1>2. store.anchor = "none" /\ silent' = silent /\ tool' \notin {"built", "remac_built"}
  BY ZenonT(60) DEF EnterRotation, AbortRotation, EnterRemac, LifecycleAllowed, Abortable
<1>3. siblings' = [f \in {"new", "remac"} |-> siblings'[f]]
  BY ZenonT(60), <1>i DEF EnterRotation, AbortRotation, EnterRemac
<1> DEFINE p == [lifecycle |-> to, generation |-> store.prov.generation + 1]
           t1 == [store EXCEPT !.lifecycle = to]
           t == [t1 EXCEPT !.prov = p]
<1>4. p \in ProvRec /\ p.lifecycle = to
  BY <1>i DEF StoreSound, ProvRec
<1>5. store' = Logged(store, t, op, HeadTime(store) + 1, {"provisional"})
  BY ZenonT(60), <1>1 DEF LifecycleCommit, InLifecycle
<1>6. /\ t = [f \in Fields |-> t[f]] /\ t.lifecycle = to /\ t.prov = p
      /\ Differ(store, t, {"lifecycle", "prov"})
  <2> HIDE DEF p
  <2> QED BY ZenonT(60), <1>i DEF StoreSound, Fields, Differ
<1> HIDE DEF t, p
<1>7. /\ t.envelope = store.envelope /\ t.metadata = store.metadata /\ t.records = store.records
      /\ t.epoch = store.epoch /\ t.anchor = store.anchor /\ t.log = store.log
  BY ZenonT(60), <1>6 DEF Differ, Fields
<1>8. StoreSound(t)
  BY ZenonT(60), <1>i, <1>2, <1>4, <1>6, <1>7 DEF StoreSound
<1>9. Differ(store, t, Fields \ {"log", "anchor", "prepared", "registered"})
  BY ZenonT(60), <1>6 DEF Differ, Fields
<1>10. \A r \in RowNames \ {"provisional"} : Rows(t)[r] = Rows(store)[r]
  <2>1. Rows(t)["keyring"] = Rows(store)["keyring"] /\ Rows(t)["anchor"] = Rows(store)["anchor"]
        /\ Rows(t)["epoch"] = Rows(store)["epoch"] /\ Rows(t)["admins"] = Rows(store)["admins"]
        /\ Rows(t)["secrets"] = Rows(store)["secrets"]
    BY ZenonT(60), <1>7, RowsAgree
  <2> QED BY ZenonT(60), <2>1 DEF RowNames
<1>11. {"provisional"} \subseteq RowNames
  BY DEF RowNames
<1> QED BY ZenonT(60), <1>2, <1>3, <1>5, <1>8, <1>9, <1>10, <1>11, MaintLogged

\* The daemon's audited changes and reads, and the keyring changes that log an event.
LEMMA MaintAuditedStep ==
  ASSUME MaintInv, AuditedWatermark \/ AuditedRead \/ RewrapRecipients \/ RotateEpoch
  PROVE  MaintInv' /\ InstallKept
<1>i. StoreSound(store) /\ siblings = [f \in {"new", "remac"} |-> siblings[f]]
  BY ZenonT(60) DEF MaintInv
<1>1. /\ silent' = silent /\ siblings' = siblings /\ tool' = tool /\ tool = "idle"
  BY ZenonT(60) DEF AuditedWatermark, AuditedRead, RewrapRecipients, RotateEpoch, Serving
<1>2. siblings' = [f \in {"new", "remac"} |-> siblings'[f]] /\ tool' \notin {"built", "remac_built"}
  BY <1>i, <1>1
<1>3. CASE AuditedWatermark
  <2> DEFINE g == store.prov.generation + 1
             p == [store.prov EXCEPT !.generation = g]
             t == [store EXCEPT !.prov = p]
  <2>1. g \in Nat
    BY <1>i DEF StoreSound, ProvRec
  <2>2. store' = Logged(store, t, "watermark", second * TicksPerSecond, {"provisional"})
    BY ZenonT(60), <1>3 DEF AuditedWatermark
  <2>3. p \in ProvRec /\ p.lifecycle = store.prov.lifecycle
    <3> HIDE DEF g
    <3> QED BY ZenonT(60), <1>i, <2>1 DEF StoreSound, ProvRec
  <2>4. t = [f \in Fields |-> t[f]] /\ t.prov = p /\ Differ(store, t, {"prov"})
    <3> HIDE DEF p
    <3> QED BY ZenonT(60), <1>i DEF StoreSound, Fields, Differ
  <2> HIDE DEF t, p
  <2>5. /\ t.envelope = store.envelope /\ t.metadata = store.metadata /\ t.records = store.records
        /\ t.epoch = store.epoch /\ t.anchor = store.anchor /\ t.log = store.log
        /\ t.lifecycle = store.lifecycle
    BY ZenonT(60), <2>4 DEF Differ, Fields
  <2>6. StoreSound(t)
    BY ZenonT(60), <1>i, <2>3, <2>4, <2>5 DEF StoreSound
  <2>7. Differ(store, t, Fields \ {"log", "anchor", "prepared", "registered"})
    BY ZenonT(60), <2>4 DEF Differ, Fields
  <2>8. \A r \in RowNames \ {"provisional"} : Rows(t)[r] = Rows(store)[r]
    <3>1. Rows(t)["keyring"] = Rows(store)["keyring"] /\ Rows(t)["anchor"] = Rows(store)["anchor"]
          /\ Rows(t)["epoch"] = Rows(store)["epoch"] /\ Rows(t)["admins"] = Rows(store)["admins"]
          /\ Rows(t)["secrets"] = Rows(store)["secrets"]
      BY ZenonT(60), <2>5, RowsAgree
    <3> QED BY ZenonT(60), <3>1 DEF RowNames
  <2>9. {"provisional"} \subseteq RowNames
    BY ZenonT(60) DEF RowNames
  <2> QED BY ZenonT(60), <1>1, <1>2, <2>2, <2>6, <2>7, <2>8, <2>9, MaintLogged
<1>4. CASE AuditedRead
  <2>1. store' = Logged(store, store, "read", second * TicksPerSecond, {})
    BY ZenonT(60), <1>4 DEF AuditedRead
  <2>2. {} \subseteq RowNames /\ (\A r \in RowNames \ {} : Rows(store)[r] = Rows(store)[r])
        /\ Differ(store, store, Fields \ {"log", "anchor", "prepared", "registered"})
    BY ZenonT(60) DEF Differ
  <2> QED BY ZenonT(60), <1>1, <1>2, <1>i, <2>1, <2>2, MaintLogged
<1>5. CASE RewrapRecipients
  <2> DEFINE n == store.envelope.generation + 1
             k == store.envelope.recipients + 1
             e1 == [store.envelope EXCEPT !.generation = n]
             e2 == [e1 EXCEPT !.recipients = k]
             m == [generation |-> n, recipients |-> k]
             t1 == [store EXCEPT !.envelope = e1]
             t2 == [t1 EXCEPT !.envelope = e2]
             t == [t2 EXCEPT !.metadata = m]
  <2>1. n \in Nat /\ k \in Nat
    BY <1>i DEF StoreSound, EnvelopeRec
  <2>2. store' = Logged(store, t, "rewrap", second * TicksPerSecond, {"keyring"})
    BY ZenonT(60), <1>5, <1>i DEF RewrapRecipients, StoreSound, Fields, EnvelopeRec
  <2>3. /\ e2 \in EnvelopeRec /\ e2.record = store.envelope.record /\ e2.mac = store.envelope.mac
        /\ m \in MetadataRec
    <3> HIDE DEF n, k
    <3> QED BY ZenonT(60), <1>i, <2>1 DEF StoreSound, EnvelopeRec, MetadataRec
  <2>4. /\ t = [f \in Fields |-> t[f]] /\ t.envelope = e2 /\ t.metadata = m
        /\ Differ(store, t, {"envelope", "metadata"})
    <3> HIDE DEF n, k, e1, e2, m
    <3> QED BY ZenonT(60), <1>i DEF StoreSound, Fields, Differ
  <2> HIDE DEF t, e2, m
  <2>5. /\ t.prov = store.prov /\ t.records = store.records
        /\ t.epoch = store.epoch /\ t.anchor = store.anchor /\ t.log = store.log
        /\ t.lifecycle = store.lifecycle
    BY ZenonT(60), <2>4 DEF Differ, Fields
  <2>6. StoreSound(t)
    BY ZenonT(60), <1>i, <2>3, <2>4, <2>5 DEF StoreSound
  <2>7. Differ(store, t, Fields \ {"log", "anchor", "prepared", "registered"})
    BY ZenonT(60), <2>4 DEF Differ, Fields
  <2>8. \A r \in RowNames \ {"keyring"} : Rows(t)[r] = Rows(store)[r]
    <3>1. Rows(t)["provisional"] = Rows(store)["provisional"] /\ Rows(t)["anchor"] = Rows(store)["anchor"]
          /\ Rows(t)["epoch"] = Rows(store)["epoch"] /\ Rows(t)["admins"] = Rows(store)["admins"]
          /\ Rows(t)["secrets"] = Rows(store)["secrets"]
      BY ZenonT(60), <2>3, <2>4, <2>5, RowsAgree
    <3> QED BY ZenonT(60), <3>1 DEF RowNames
  <2>9. {"keyring"} \subseteq RowNames
    BY DEF RowNames
  <2> QED BY ZenonT(60), <1>1, <1>2, <2>2, <2>6, <2>7, <2>8, <2>9, MaintLogged
<1>6. CASE RotateEpoch
  <2> DEFINE n == store.epoch + 1
             t == [store EXCEPT !.epoch = n]
  <2>1. n \in Nat
    BY <1>i DEF StoreSound
  <2>2. store' = Logged(store, t, "epoch", second * TicksPerSecond, EpochRows)
    BY ZenonT(60), <1>6 DEF RotateEpoch
  <2>3. t = [f \in Fields |-> t[f]] /\ t.epoch = n /\ Differ(store, t, {"epoch"})
    <3> HIDE DEF n
    <3> QED BY ZenonT(60), <1>i DEF StoreSound, Fields, Differ
  <2> HIDE DEF t, n
  <2>4. /\ t.prov = store.prov /\ t.records = store.records /\ t.envelope = store.envelope
        /\ t.metadata = store.metadata /\ t.anchor = store.anchor /\ t.log = store.log
        /\ t.lifecycle = store.lifecycle
    BY ZenonT(60), <2>3 DEF Differ, Fields
  <2>5. StoreSound(t)
    BY ZenonT(60), <1>i, <2>1, <2>3, <2>4 DEF StoreSound
  <2>6. Differ(store, t, Fields \ {"log", "anchor", "prepared", "registered"})
    BY ZenonT(60), <2>3 DEF Differ, Fields
  <2>7. \A r \in RowNames \ EpochRows : Rows(t)[r] = Rows(store)[r]
    <3>1. Rows(t)["keyring"] = Rows(store)["keyring"] /\ Rows(t)["provisional"] = Rows(store)["provisional"]
          /\ Rows(t)["anchor"] = Rows(store)["anchor"] /\ Rows(t)["secrets"] = Rows(store)["secrets"]
      BY ZenonT(60), <2>4, RowsAgree
    <3> QED BY ZenonT(60), <3>1 DEF RowNames, EpochRows
  <2>8. EpochRows \subseteq RowNames
    BY ZenonT(60) DEF RowNames, EpochRows
  <2> QED BY ZenonT(60), <1>1, <1>2, <2>2, <2>5, <2>6, <2>7, <2>8, MaintLogged
<1> QED BY <1>3, <1>4, <1>5, <1>6

\* Changes that write rows and no event.
LEMMA MaintSilentStep ==
  ASSUME MaintInv, WriteSecret \/ PutAuditKeyMetadata
  PROVE  MaintInv' /\ InstallKept
<1>i. /\ StoreSound(store) /\ ChainSound(store)
      /\ siblings = [f \in {"new", "remac"} |-> siblings[f]]
  BY ZenonT(60) DEF MaintInv
<1>1. silent' = Len(store.log) /\ siblings' = siblings /\ tool' = "idle"
  BY ZenonT(60) DEF WriteSecret, PutAuditKeyMetadata, Serving
<1>2. StoreSound(store') /\ Differ(store, store', {"records", "metadata"})
  <2>1. CASE WriteSecret
    <3> DEFINE k == [count |-> store.records.count + 1, key |-> store.envelope.record]
    <3>1. store' = [store EXCEPT !.records = k]
      BY ZenonT(60), <2>1 DEF WriteSecret
    <3>2. k \in RecordsRec /\ k.key = store.envelope.record
      BY <1>i DEF StoreSound, RecordsRec, EnvelopeRec
    <3> HIDE DEF k
    <3>3. /\ store' = [f \in Fields |-> store'[f]] /\ store'.records = k
          /\ Differ(store, store', {"records"})
      BY ZenonT(60), <3>1, <1>i DEF StoreSound, Fields, Differ
    <3>4. /\ store'.prov = store.prov /\ store'.envelope = store.envelope
          /\ store'.metadata = store.metadata /\ store'.epoch = store.epoch
          /\ store'.lifecycle = store.lifecycle /\ store'.anchor = store.anchor
          /\ store'.log = store.log
      BY ZenonT(60), <3>3 DEF Differ, Fields
    <3> QED BY ZenonT(60), <1>i, <3>2, <3>3, <3>4 DEF StoreSound, Differ
  <2>2. CASE PutAuditKeyMetadata
    <3> DEFINE g == store.envelope.generation
               m == [store.metadata EXCEPT !.generation = g]
    <3>1. store' = [store EXCEPT !.metadata = m]
      BY ZenonT(60), <2>2 DEF PutAuditKeyMetadata
    <3>2. g \in Nat
      BY ZenonT(60), <1>i DEF StoreSound, EnvelopeRec
    <3>3. m \in MetadataRec
      <4> HIDE DEF g
      <4> QED BY ZenonT(60), <3>2, <1>i DEF StoreSound, MetadataRec
    <3> HIDE DEF m
    <3>4. /\ store' = [f \in Fields |-> store'[f]] /\ store'.metadata = m
          /\ Differ(store, store', {"metadata"})
      BY ZenonT(60), <3>1, <1>i DEF StoreSound, Fields, Differ
    <3>5. /\ store'.prov = store.prov /\ store'.envelope = store.envelope
          /\ store'.records = store.records /\ store'.epoch = store.epoch
          /\ store'.lifecycle = store.lifecycle /\ store'.anchor = store.anchor
          /\ store'.log = store.log
      BY ZenonT(60), <3>4 DEF Differ, Fields
    <3> QED BY ZenonT(60), <1>i, <3>3, <3>4, <3>5 DEF StoreSound, Differ
  <2> QED BY ZenonT(60), <2>1, <2>2
<1>3. /\ store'.log = store.log /\ store'.prepared = store.prepared
      /\ store'.registered = store.registered
  BY ZenonT(60), <1>2 DEF Differ, Fields
<1>4. Len(store.log) \in Nat /\ Len(store'.log) >= Len(store.log)
  <2>1. Len(store.log) \in Nat
    BY ZenonT(60), <1>i, LogGrows DEF StoreSound
  <2> QED BY <2>1, <1>3
<1>5. ChainSound(store') /\ TailSound(store', Len(store'.log))
  BY ZenonT(60), <1>i, <1>2, <1>3, <1>4, SilentKeeps
<1>6. silent' \in Nat /\ TailSound(store', silent')
  BY ZenonT(60), <1>1, <1>3, <1>4, <1>5
<1>7. siblings' = [f \in {"new", "remac"} |-> siblings'[f]] /\ tool' \notin {"built", "remac_built"}
  BY ZenonT(60), <1>1, <1>i
<1> QED BY ZenonT(60), <1>1, <1>2, <1>5, <1>6, <1>7, MaintMoves

\* Changes that write no row.
LEMMA MaintQuietStep ==
  ASSUME MaintInv, PutAuditKeyEnvelope \/ MarkAnchored \/ MarkRecoveryCurrent
  PROVE  MaintInv' /\ InstallKept
<1>i. /\ StoreSound(store) /\ ChainSound(store) /\ silent \in Nat /\ TailSound(store, silent)
      /\ siblings = [f \in {"new", "remac"} |-> siblings[f]]
  BY ZenonT(60) DEF MaintInv
<1>1. silent' = silent /\ siblings' = siblings /\ tool' \in {"idle", "audit_key"}
  BY ZenonT(60) DEF PutAuditKeyEnvelope, MarkAnchored, MarkRecoveryCurrent
<1>2. StoreSound(store') /\ Differ(store, store', {"envelope", "job"})
      /\ store'.envelope.mac = store.envelope.mac
  <2>1. CASE PutAuditKeyEnvelope
    <3> DEFINE g == store.envelope.generation + 1
               a == store.envelope.audit + 1
               e1 == [store.envelope EXCEPT !.generation = g]
               e2 == [e1 EXCEPT !.audit = a]
               s1 == [store EXCEPT !.envelope = e1]
    <3>1. g \in Nat /\ a \in Nat
      BY <1>i DEF StoreSound, EnvelopeRec
    <3>2. store' = [s1 EXCEPT !.envelope = e2]
      BY ZenonT(60), <2>1, <1>i DEF PutAuditKeyEnvelope, StoreSound, Fields, EnvelopeRec
    <3>3. /\ e2 \in EnvelopeRec /\ e2.record = store.envelope.record /\ e2.mac = store.envelope.mac
      <4> HIDE DEF g, a
      <4> QED BY ZenonT(60), <3>1, <1>i DEF StoreSound, EnvelopeRec
    <3>4. /\ store' = [f \in Fields |-> store'[f]] /\ store'.envelope = e2
          /\ Differ(store, store', {"envelope"})
      <4> HIDE DEF e1, e2
      <4> QED BY ZenonT(60), <3>2, <1>i DEF StoreSound, Fields, Differ
    <3> HIDE DEF e2, s1
    <3>5. /\ store'.prov = store.prov /\ store'.metadata = store.metadata
          /\ store'.records = store.records /\ store'.epoch = store.epoch
          /\ store'.lifecycle = store.lifecycle /\ store'.anchor = store.anchor
          /\ store'.log = store.log
      BY ZenonT(60), <3>4 DEF Differ, Fields
    <3> QED BY ZenonT(60), <1>i, <3>3, <3>4, <3>5 DEF StoreSound, Differ
  <2>2. CASE MarkAnchored \/ MarkRecoveryCurrent
    <3>1. PICK j : store' = [store EXCEPT !.job = j]
      BY ZenonT(60), <2>2 DEF MarkAnchored, MarkRecoveryCurrent
    <3>2. store' = [f \in Fields |-> store'[f]] /\ Differ(store, store', {"job"})
      BY ZenonT(60), <3>1, <1>i DEF StoreSound, Fields, Differ
    <3>3. /\ store'.prov = store.prov /\ store'.metadata = store.metadata
          /\ store'.records = store.records /\ store'.epoch = store.epoch
          /\ store'.lifecycle = store.lifecycle /\ store'.anchor = store.anchor
          /\ store'.log = store.log /\ store'.envelope = store.envelope
      BY ZenonT(60), <3>2 DEF Differ, Fields
    <3> QED BY ZenonT(60), <1>i, <3>2, <3>3 DEF StoreSound, Differ
  <2> QED BY ZenonT(60), <2>1, <2>2
<1>3. /\ store'.prov = store.prov /\ store'.metadata = store.metadata
      /\ store'.records = store.records /\ store'.epoch = store.epoch
      /\ store'.anchor = store.anchor /\ store'.log = store.log
      /\ store'.prepared = store.prepared /\ store'.registered = store.registered
  BY ZenonT(60), <1>2 DEF Differ, Fields
<1>4. Rows(store') = Rows(store)
  BY ZenonT(60), <1>2, <1>3 DEF Rows
<1>5. ChainSound(store') /\ TailSound(store', silent)
  BY ZenonT(60), <1>i, <1>3, <1>4, QuietKeeps
<1>7. siblings' = [f \in {"new", "remac"} |-> siblings'[f]] /\ tool' \notin {"built", "remac_built"}
  BY ZenonT(60), <1>1, <1>i
<1> QED BY ZenonT(60), <1>i, <1>1, <1>2, <1>5, <1>7, MaintMoves

\* register_checkpoint.
LEMMA MaintRegisterStep ==
  ASSUME MaintInv, RegisterCheckpoint
  PROVE  MaintInv' /\ InstallKept
<1>i. /\ StoreSound(store) /\ ChainSound(store) /\ silent \in Nat /\ TailSound(store, silent)
      /\ siblings = [f \in {"new", "remac"} |-> siblings[f]]
  BY ZenonT(60) DEF MaintInv
<1>1. PICK c \in store.prepared :
        Extends(store, c) /\ store' = [store EXCEPT !.registered = Append(store.registered, c)]
  BY ZenonT(60) DEF RegisterCheckpoint
<1>2. silent' = silent /\ siblings' = siblings /\ tool' = "idle"
  BY ZenonT(60) DEF RegisterCheckpoint
<1> DEFINE o == store.registered
           q == Append(o, c)
<1>3. /\ IsLog(q) /\ Len(o) \in Nat /\ Len(q) = Len(o) + 1 /\ q[Len(o) + 1] = c
      /\ \A i \in 1 .. Len(o) : q[i] = o[i]
  BY <1>i, LogGrows DEF ChainSound
<1>4. /\ store' = [f \in Fields |-> store'[f]] /\ store'.registered = q
      /\ Differ(store, store', {"registered"})
  <2> HIDE DEF q
  <2>1. store' = [store EXCEPT !.registered = q]
    BY ZenonT(60), <1>1 DEF q
  <2> QED BY ZenonT(60), <2>1, <1>i DEF StoreSound, Fields, Differ
<1>5. c.start = IF Len(o) = 0 THEN 1 ELSE o[Len(o)].end + 1
  <2>1. o = <<>> <=> Len(o) = 0
    <3>1. PICK E : o \in Seq(E)
      BY ZenonT(60), <1>i DEF ChainSound, IsLog
    <3> HIDE DEF o
    <3> QED BY <3>1
  <2>2. c.start = LastEnd(store) + 1
    BY ZenonT(60), <1>1, <1>i DEF Extends, ChainSound
  <2> QED BY <2>1, <2>2 DEF LastEnd
<1> HIDE DEF q
<1>6. /\ store'.prov = store.prov /\ store'.metadata = store.metadata
      /\ store'.records = store.records /\ store'.epoch = store.epoch
      /\ store'.lifecycle = store.lifecycle /\ store'.anchor = store.anchor
      /\ store'.log = store.log /\ store'.envelope = store.envelope
      /\ store'.prepared = store.prepared
  BY ZenonT(60), <1>4 DEF Differ, Fields
<1>7. StoreSound(store')
  BY ZenonT(60), <1>i, <1>4, <1>6 DEF StoreSound
<1>8. Rows(store') = Rows(store)
  BY ZenonT(60), <1>6 DEF Rows
<1>9. TailSound(store', silent)
  BY ZenonT(60), <1>6, <1>8, <1>i DEF TailSound, RowsAt
<1>10. ASSUME NEW i \in 1 .. Len(q)
       PROVE  q[i] \in store.prepared /\ q[i].start = IF i = 1 THEN 1 ELSE q[i - 1].end + 1
  <2>1. CASE i = Len(o) + 1
    <3>1. Len(o) # 0 => q[i - 1] = o[Len(o)] /\ i # 1
      BY <1>3, <2>1
    <3>2. Len(o) = 0 <=> i = 1
      BY <1>3, <2>1
    <3> QED BY ZenonT(60), <1>3, <1>5, <2>1, <3>1, <3>2
  <2>2. CASE i \in 1 .. Len(o)
    <3>1. q[i] = o[i] /\ (i # 1 => q[i - 1] = o[i - 1])
      BY <1>3, <2>2
    <3>2. o[i] \in store.prepared /\ o[i].start = IF i = 1 THEN 1 ELSE o[i - 1].end + 1
      BY ZenonT(60), <1>i, <2>2 DEF ChainSound
    <3> QED BY ZenonT(60), <3>1, <3>2
  <2> QED BY <1>3, <2>1, <2>2
<1>11. ChainSound(store')
  BY ZenonT(60), <1>3, <1>4, <1>6, <1>10, <1>i DEF ChainSound
<1>12. siblings' = [f \in {"new", "remac"} |-> siblings'[f]] /\ tool' \notin {"built", "remac_built"}
  BY ZenonT(60), <1>2, <1>i
<1> QED BY ZenonT(60), <1>i, <1>2, <1>7, <1>9, <1>11, <1>12, MaintMoves

\* prepare_checkpoint: the descriptor is of the log with its own event.
LEMMA MaintPrepareStep ==
  ASSUME MaintInv, PrepareCheckpoint
  PROVE  MaintInv' /\ InstallKept
<1>i. /\ StoreSound(store) /\ ChainSound(store) /\ silent \in Nat /\ TailSound(store, silent)
      /\ siblings = [f \in {"new", "remac"} |-> siblings[f]]
  BY DEF MaintInv
<1>2. silent' = silent /\ siblings' = siblings /\ tool' = "idle"
  BY ZenonT(60) DEF PrepareCheckpoint
<1> DEFINE u == Logged(store, store, "checkpoint", second * TicksPerSecond, {})
           c == [start |-> LastEnd(store) + 1, end |-> Len(u.log),
                 digest |-> Rows(store), previous |-> LastEnd(store)]
           b == u.prepared \cup {c}
<1>3. store' = [u EXCEPT !.prepared = b]
  BY ZenonT(60) DEF PrepareCheckpoint
<1>4. {} \subseteq RowNames /\ (\A r \in RowNames \ {} : Rows(store)[r] = Rows(store)[r])
  OBVIOUS
<1>5. /\ StoreSound(u) /\ ChainSound(u) /\ TailSound(u, silent) /\ Differ(store, u, {"log"})
      /\ Len(store.log) \in Nat /\ Len(u.log) = Len(store.log) + 1
  <2> HIDE DEF u
  <2>1. PICK t : t = store
    OBVIOUS
  <2>2. /\ u = Logged(store, t, "checkpoint", second * TicksPerSecond, {}) /\ StoreSound(t)
        /\ t.log = store.log /\ t.prepared = store.prepared /\ t.registered = store.registered
        /\ \A r \in RowNames \ {} : Rows(t)[r] = Rows(store)[r]
    BY ZenonT(60), <1>i, <2>1 DEF u
  <2>3. StoreSound(u) /\ ChainSound(u) /\ TailSound(u, silent) /\ Differ(t, u, {"log"})
    BY ZenonT(60), <1>i, <1>4, <2>2, LoggedKeeps
  <2>4. Len(store.log) \in Nat /\ Len(u.log) = Len(store.log) + 1
    <3>1. PICK e : u = [t EXCEPT !.log = Append(store.log, e)]
      BY ZenonT(60), <2>2 DEF Logged
    <3>2. u.log = Append(store.log, e)
      BY ZenonT(60), <2>2, <3>1 DEF StoreSound, Fields
    <3> QED BY <1>i, <3>2, LogGrows DEF StoreSound
  <2> QED BY ZenonT(60), <2>1, <2>3, <2>4
<1> HIDE DEF u
<1>6. c.start = c.previous + 1 /\ c.end = Len(u.log) /\ c.digest = Rows(store)
  OBVIOUS
<1>7. /\ store' = [f \in Fields |-> store'[f]] /\ store'.prepared = b
      /\ Differ(u, store', {"prepared"})
  <2> HIDE DEF b
  <2> QED BY ZenonT(60), <1>3, <1>5 DEF StoreSound, Fields, Differ
<1> HIDE DEF c
<1>8. /\ store'.prov = u.prov /\ store'.metadata = u.metadata
      /\ store'.records = u.records /\ store'.epoch = u.epoch
      /\ store'.lifecycle = u.lifecycle /\ store'.anchor = u.anchor
      /\ store'.log = u.log /\ store'.envelope = u.envelope
      /\ store'.registered = u.registered
  BY ZenonT(60), <1>7 DEF Differ, Fields
<1>9. StoreSound(store')
  BY ZenonT(60), <1>5, <1>7, <1>8 DEF StoreSound
<1>10. Rows(store') = Rows(u) /\ Rows(u) = Rows(store)
  <2>1. /\ u.prov = store.prov /\ u.metadata = store.metadata
        /\ u.records = store.records /\ u.epoch = store.epoch
        /\ u.anchor = store.anchor /\ u.envelope = store.envelope
    BY ZenonT(60), <1>5 DEF Differ, Fields
  <2> QED BY ZenonT(60), <1>8, <2>1 DEF Rows
<1>11. ChainSound(store')
  <2>1. c.end \in Nat /\ c.end <= Len(u.log)
    BY <1>5, <1>6
  <2>2. \A d \in b : d.start = d.previous + 1 /\ d.end \in Nat /\ d.end <= Len(u.log)
    BY ZenonT(60), <1>5, <1>6, <2>1 DEF ChainSound
  <2>3. \A i \in 1 .. Len(u.registered) : u.registered[i] \in b
    BY ZenonT(60), <1>5 DEF ChainSound
  <2> HIDE DEF b
  <2> QED BY ZenonT(60), <1>5, <1>7, <1>8, <2>2, <2>3 DEF ChainSound
<1>12. TailSound(store', silent)
  <2>1. RowsAt(store', c.end) = c.digest
    <3>1. RowsBefore(Rows(store'), store'.log, Len(store'.log)) = Rows(store')
      <4>1. Len(store'.log) \in Nat
        BY <1>5, <1>8
      <4> QED BY ZenonT(60), <4>1, RowsBeforeEnd
    <3>2. c.end = Len(store'.log)
      BY ZenonT(60), <1>6, <1>8
    <3> QED BY ZenonT(60), <3>1, <3>2, <1>6, <1>10 DEF RowsAt
  <2>2. \A d \in u.prepared : RowsAt(store', d.end) = RowsAt(u, d.end)
    BY ZenonT(60), <1>8, <1>10 DEF RowsAt
  <2> QED BY ZenonT(60), <1>5, <1>7, <2>1, <2>2 DEF TailSound
<1>13. siblings' = [f \in {"new", "remac"} |-> siblings'[f]] /\ tool' \notin {"built", "remac_built"}
  BY ZenonT(60), <1>2, <1>i
<1> QED BY ZenonT(60), <1>i, <1>2, <1>9, <1>11, <1>12, <1>13, MaintMoves

\* Every step of the daemon, the tool and the operator keeps the invariant, and an
\* installation loses nothing.
LEMMA MaintStep ==
  MaintInv /\ [MaintenanceNext]_maintenanceVars => MaintInv' /\ InstallKept
<1> SUFFICES ASSUME MaintInv, [MaintenanceNext]_maintenanceVars PROVE MaintInv' /\ InstallKept
  OBVIOUS
<1>1. CASE DaemonSteps
  BY ZenonT(60), <1>1, MaintAuditedStep, MaintSilentStep, MaintToolStep DEF DaemonSteps
<1>2. CASE RotationSteps
  BY ZenonT(60), <1>2, MaintToolStep, MaintLifecycleStep, MaintInstallStep DEF RotationSteps
<1>3. CASE RemacSteps
  BY ZenonT(60), <1>3, MaintToolStep, MaintLifecycleStep, MaintInstallStep DEF RemacSteps
<1>4. CASE KeyringSteps
  BY ZenonT(60), <1>4, MaintAuditedStep, MaintSilentStep, MaintQuietStep DEF KeyringSteps
<1>5. CASE CheckpointSteps
  BY ZenonT(60), <1>5, MaintPrepareStep, MaintRegisterStep, MaintQuietStep DEF CheckpointSteps
<1>6. CASE CrashTool \/ UNCHANGED maintenanceVars
  BY ZenonT(60), <1>6, MaintToolStep
<1> QED BY ZenonT(60), <1>1, <1>2, <1>3, <1>4, <1>5, <1>6 DEF MaintenanceNext

\* The store that init writes satisfies it.
LEMMA MaintInitially == MaintenanceInit => MaintInv
<1> SUFFICES ASSUME MaintenanceInit PROVE MaintInv
  OBVIOUS
<1>1. /\ store = Genesis /\ siblings = [new |-> Absent, remac |-> Absent]
      /\ tool = "idle" /\ silent = 0
  BY ZenonT(60) DEF MaintenanceInit
<1> DEFINE e == [op |-> "genesis", time |-> TicksPerSecond, kind |-> "none",
                 before |-> <<>>, after |-> <<>>]
<1>2. /\ store = [f \in Fields |-> store[f]] /\ store.lifecycle = "ready" /\ store.anchor = "none"
      /\ store.prov = [lifecycle |-> "ready", generation |-> 1]
      /\ store.envelope = [generation |-> 1, record |-> 1, mac |-> 1, audit |-> 1, recipients |-> 1]
      /\ store.metadata = [generation |-> 1, recipients |-> 1]
      /\ store.epoch = 1 /\ store.records = [count |-> 0, key |-> 1]
      /\ store.log = <<e>> /\ store.prepared = {} /\ store.registered = <<>>
  <2> HIDE DEF e
  <2>1. store = [lifecycle |-> "ready", anchor |-> "none",
                 prov |-> [lifecycle |-> "ready", generation |-> 1],
                 envelope |-> [generation |-> 1, record |-> 1, mac |-> 1, audit |-> 1,
                               recipients |-> 1],
                 metadata |-> [generation |-> 1, recipients |-> 1],
                 epoch |-> 1, records |-> [count |-> 0, key |-> 1],
                 log |-> <<e>>, job |-> NoJob, prepared |-> {}, registered |-> <<>>]
    BY ZenonT(60), <1>1 DEF Genesis, e
  <2>2. store = [f \in Fields |-> store[f]]
    BY ZenonT(60), <2>1 DEF Fields
  <2> QED BY ZenonT(60), <2>1, <2>2
<1>3. IsLog(store.log) /\ IsLog(store.registered) /\ Len(store.registered) = 0
  <2> HIDE DEF e
  <2>1. <<e>> \in Seq({e}) /\ <<>> \in Seq({e}) /\ Len(<<>>) = 0
    OBVIOUS
  <2> QED BY ZenonT(60), <1>2, <2>1 DEF IsLog
<1>4. /\ store.prov \in ProvRec /\ store.prov.lifecycle = "ready" /\ store.envelope \in EnvelopeRec
      /\ store.metadata \in MetadataRec /\ store.records \in RecordsRec
      /\ store.records.key = store.envelope.record /\ store.epoch \in Nat
  BY <1>2 DEF ProvRec, EnvelopeRec, MetadataRec, RecordsRec
<1>5. StoreSound(store)
  BY ZenonT(60), <1>2, <1>3, <1>4 DEF StoreSound
<1>6. ChainSound(store) /\ TailSound(store, silent)
  <2>1. 1 .. Len(store.registered) = {}
    BY <1>3
  <2> QED BY ZenonT(60), <1>2, <1>3, <2>1 DEF ChainSound, TailSound
<1>7. silent \in Nat /\ siblings = [f \in {"new", "remac"} |-> siblings[f]]
  BY ZenonT(60), <1>1
<1> QED BY ZenonT(60), <1>1, <1>5, <1>6, <1>7 DEF MaintInv

\* Whatever pass of re-encryption, re-wrap or re-MAC stops half way, for any number of passes,
\* a keyring that opens the store opens all its records, and an anchored store is ready.
THEOREM RewritesKept == MaintenanceSpec => []RewritesKeepStore
BY MaintInitially, MaintStep, MaintMeans, PTL DEF MaintenanceSpec

\* The registered checkpoints are one chain, and undoing the events after the last of them
\* gives the rows it signed, unless a job without an event wrote rows since.
THEOREM AuditAccounts == MaintenanceSpec => []AuditAccountsForState
BY MaintInitially, MaintStep, MaintMeans, PTL DEF MaintenanceSpec

\* A key pass that is installed carries the log, the epoch and the secrets over.
THEOREM InstallKeeps == MaintenanceSpec => InstallKeepsHistory
<1>1. MaintInv /\ [MaintenanceNext]_maintenanceVars =>
        [siblings' # siblings /\ store'.anchor # store.anchor =>
           /\ Len(store'.log) >= Len(store.log)
           /\ \A i \in DOMAIN store.log : store'.log[i] = store.log[i]
           /\ store'.epoch = store.epoch
           /\ store'.records.count = store.records.count]_maintenanceVars
  BY ZenonT(60), MaintStep DEF InstallKept, Kept
<1> QED BY <1>1, MaintInitially, MaintStep, PTL DEF MaintenanceSpec, InstallKeepsHistory

-----------------------------------------------------------------------------
\* The files of an archive.
OutputRec ==
  [temp : BOOLEAN, final : Observed, handle : BOOLEAN, seen : Observed \cup {"none"},
   renamed : BOOLEAN]

\* Whoever has a temporary file holds its handle.
FilesInv == outputs \in [Archives -> OutputRec] /\ NoOrphanTemporary

\* A step of one archive's files.
LEMMA BackupOutputFrame ==
  ASSUME FilesInv, NEW a \in Archives, NEW o \in OutputRec, o.temp => o.handle,
         outputs' = [outputs EXCEPT ![a] = o]
  PROVE  outputs' \in [Archives -> OutputRec] /\ NoOrphanTemporary'
<1>1. outputs' \in [Archives -> OutputRec] /\ outputs'[a] = o
      /\ \A q \in Archives : q # a => outputs'[q] = outputs[q]
  BY ZenonT(60) DEF FilesInv
<1> QED BY ZenonT(60), <1>1 DEF FilesInv, NoOrphanTemporary

\* The steps that touch the files of an archive.
FilesStep(a) ==
  \/ PrepareOutput(a) \/ PublishRefused(a) \/ RenameFails(a)
  \/ \E found \in Observed : TargetChanges(a, found)
  \/ ObserveOutput(a)
  \/ \E synced \in BOOLEAN : PublishReserved(a, synced)

\* Each of them leaves the archive's files in order.
LEMMA BackupFilesStep ==
  ASSUME FilesInv, NEW a \in Archives, FilesStep(a)
  PROVE  FilesInv'
<1>3. outputs[a] \in OutputRec /\ (outputs[a].temp => outputs[a].handle)
  BY ZenonT(60) DEF FilesInv, NoOrphanTemporary
<1>4. PICK o \in OutputRec : (o.temp => o.handle) /\ outputs' = [outputs EXCEPT ![a] = o]
  <2>1. CASE PrepareOutput(a)
    <3> DEFINE o == [outputs[a] EXCEPT !.temp = TRUE, !.handle = TRUE]
    <3>1. outputs' = [outputs EXCEPT ![a] = o]
      BY ZenonT(60), <2>1 DEF PrepareOutput, FilesInv, OutputRec
    <3>2. o \in OutputRec /\ (o.temp => o.handle)
      BY ZenonT(60), <1>3 DEF OutputRec
    <3> QED BY ZenonT(60), <3>1, <3>2
  <2>2. CASE PublishRefused(a) \/ RenameFails(a)
    <3> DEFINE o == [outputs[a] EXCEPT !.temp = FALSE, !.handle = FALSE]
    <3>1. outputs' = [outputs EXCEPT ![a] = o]
      BY ZenonT(60), <2>2 DEF PublishRefused, RenameFails, Dropped
    <3>2. o \in OutputRec /\ (o.temp => o.handle)
      BY ZenonT(60), <1>3 DEF OutputRec
    <3> QED BY ZenonT(60), <3>1, <3>2
  <2>3. ASSUME NEW found \in Observed, TargetChanges(a, found)
        PROVE  \E o \in OutputRec : (o.temp => o.handle) /\ outputs' = [outputs EXCEPT ![a] = o]
    <3> DEFINE o == [outputs[a] EXCEPT !.final = found]
    <3>1. outputs' = [outputs EXCEPT ![a] = o]
      BY ZenonT(60), <2>3 DEF TargetChanges
    <3>2. o \in OutputRec /\ (o.temp => o.handle)
      BY ZenonT(60), <1>3 DEF OutputRec
    <3> QED BY ZenonT(60), <3>1, <3>2
  <2>4. CASE ObserveOutput(a)
    <3> DEFINE s == Observation(a)
               o == [outputs[a] EXCEPT !.seen = s]
    <3>1. outputs' = [outputs EXCEPT ![a] = o]
      BY ZenonT(60), <2>4 DEF ObserveOutput
    <3>2. s \in Observed
      BY <1>3 DEF Observation, Observed, OutputRec
    <3> HIDE DEF s
    <3>3. o \in OutputRec /\ (o.temp => o.handle)
      BY ZenonT(60), <1>3, <3>2 DEF OutputRec
    <3> QED BY ZenonT(60), <3>1, <3>3
  <2>5. ASSUME NEW synced \in BOOLEAN, PublishReserved(a, synced)
        PROVE  \E o \in OutputRec : (o.temp => o.handle) /\ outputs' = [outputs EXCEPT ![a] = o]
    <3> DEFINE o == [[outputs[a] EXCEPT !.temp = FALSE, !.handle = FALSE]
                       EXCEPT !.final = "ExactFinal", !.renamed = TRUE]
    <3>1. outputs' = [outputs EXCEPT ![a] = o]
      BY <2>5 DEF PublishReserved, Dropped
    <3>2. o \in OutputRec /\ ~o.temp
      BY ZenonT(60), <1>3 DEF OutputRec, Observed
    <3> QED BY ZenonT(60), <3>1, <3>2
  <2> QED BY ZenonT(60), <2>1, <2>2, <2>3, <2>4, <2>5 DEF FilesStep
<1> QED BY ZenonT(60), <1>4, BackupOutputFrame DEF FilesInv

\* No refusal and no failed rename leaves a temporary archive that nobody will remove.
THEOREM BackupOwnsTemporaries == BackupSpec => []NoOrphanTemporary
<1>1. BackupInit => FilesInv
  <2> SUFFICES ASSUME BackupInit PROVE FilesInv
    OBVIOUS
  <2> DEFINE o == [temp |-> FALSE, final |-> "Missing", handle |-> FALSE, seen |-> "none",
                   renamed |-> FALSE]
  <2>1. outputs = [a \in Archives |-> o]
    BY DEF BackupInit
  <2>2. o \in OutputRec /\ ~o.temp
    BY ZenonT(60) DEF OutputRec, Observed
  <2> HIDE DEF o
  <2> QED BY ZenonT(60), <2>1, <2>2 DEF FilesInv, NoOrphanTemporary
<1>2. FilesInv /\ [BackupNext]_backupVars => FilesInv'
  <2> SUFFICES ASSUME FilesInv, [BackupNext]_backupVars PROVE FilesInv'
    OBVIOUS
  <2>1. outputs' = outputs \/ \E a \in Archives : FilesStep(a)
    BY ZenonT(60)
       DEF BackupNext, backupVars, FilesStep, ReserveBackup, ResumeBackup,
           RegisterBackupSignature, AbandonBackup, RegisterReceipt, RegisterRehearsal,
           ReplaceRecoverySet, SignerRollover
  <2>2. CASE outputs' = outputs
    BY ZenonT(60), <2>2 DEF FilesInv, NoOrphanTemporary
  <2> QED BY ZenonT(60), <2>1, <2>2, BackupFilesStep
<1>3. FilesInv => NoOrphanTemporary
  BY DEF FilesInv
<1> QED BY <1>1, <1>2, <1>3, PTL DEF BackupSpec

\* Two restores never share a target, and no restore or backup that failed leaves a temporary
\* store or archive behind (restore.rs and backup.rs unlink what they created).
THEOREM ToolsOwnFiles == StoreFilesSpec => []WorkFilesAreOwned
<1>1. OneRestoreAtATime /\ NoStrayTemporary /\ NoOrphanTemporary => WorkFilesAreOwned
  BY DEF WorkFilesAreOwned
<1> QED BY <1>1, RestoreOwnsFiles, BackupOwnsTemporaries, PTL DEF StoreFilesSpec

\* Whoever renames a store file into place, a key rewrite, a restore, a migration or a
\* compaction, puts the right file there.
THEOREM ToolsInstall == StoreFilesSpec => InstallsAreSound
  BY InstallKeeps, RestoreInstalls, RewriteApplied DEF InstallsAreSound, StoreFilesSpec
=============================================================================
