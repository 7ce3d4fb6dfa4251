----------------------- MODULE DefaultSelectionProofs -----------------------
(***************************************************************************)
(* Proofs about DefaultSelection, for any packs, any number of processes   *)
(* and any number of failures and corruptions.                             *)
(***************************************************************************)
EXTENDS DefaultSelection, TLAPS

\* A process past the lock and not yet done holds it.
HoldersHold == \A p \in Processes : phase[p] \in {"locked", "reset", "config", "pointer"} => lock = p

\* A process about to reset has copied the damaged record that is still there.
CopyComesFirst == \A p \in Processes : phase[p] = "reset" => v2.kind = "corrupt" /\ evidence

\* What an operation is about to write is a record.
ChoicesAreRecords == \A p \in Processes : choice[p].kind \in Records

\* Only damage makes a record unreadable.
ReadableUntilDamaged == corruptions = 0 => v2.kind # "corrupt"

\* A generation stands for one record: the record on disk is the one that a
\* booting process has read, or a newer one with a higher generation.
GenerationNames ==
  corruptions = 0 =>
    \A p \in Processes :
      op[p] = "reconcile" /\ phase[p] \in {"observed", "looked", "locked"}
        => /\ v2.kind \in Records
           /\ seen[p].generation <= v2.generation
           /\ seen[p].generation = v2.generation => seen[p] = v2

\* The inductive invariant.
Inv == TypeOK /\ HoldersHold /\ CopyComesFirst /\ ChoicesAreRecords /\ ReadableUntilDamaged /\ GenerationNames

-----------------------------------------------------------------------------

\* The best of some installed packs is one of them.
LEMMA BestIn == ASSUME NEW S \in SUBSET Packs, S # {} PROVE Best(S) \in S
  BY BestAssumption DEF Best

\* resolve_launch_pack answers with an installed pack or with none.
LEMMA SelectType == ASSUME packs \subseteq Packs, NEW m, NEW pin PROVE Select(m, pin) \in packs \cup {None}
<1> DEFINE candidates == {p \in packs : p.model = m}
           wanted == {p \in candidates : p.quant = IF pin = AutoPin THEN Recommended ELSE pin}
<1>1. Select(m, pin) = IF candidates = {} THEN None
                       ELSE IF wanted # {} THEN Best(wanted) ELSE Best(candidates)
  BY DEF Select
<1>2. candidates \subseteq packs /\ wanted \subseteq packs
  OBVIOUS
<1> HIDE DEF candidates, wanted
<1>3. candidates # {} => Best(candidates) \in packs
  BY <1>2, BestIn
<1>4. wanted # {} => Best(wanted) \in packs
  BY <1>2, BestIn
<1> QED
  BY <1>1, <1>3, <1>4

\* Every operation builds one of the three kinds of record.
LEMMA RecordKinds ==
  \A m, p, pin : Selected(p, pin).kind \in Records /\ Missed(m, p, pin).kind \in Records /\ Unset(pin).kind \in Records
  BY DEF Selected, Missed, Unset, Records

\* Records built by the operations are well formed.
LEMMA RecordTypes ==
  /\ \A p \in Packs, pin \in Pins : Selected(p, pin) \in Stored
  /\ \A m \in Models, p \in Packs \cup {None}, pin \in Pins : Missed(m, p, pin) \in Stored
  /\ \A pin \in Pins : Unset(pin) \in Stored
  BY SelectionAssumption DEF Selected, Missed, Unset, Stored, Records

\* So is the record made of the two old files.
LEMMA MigratedType == ASSUME TypeOK PROVE Migrated \in Stored /\ Migrated.kind \in Records
<1> DEFINE own == pointer # None /\ pointer.model = LegacyModel
           pin == IF config.pin # AutoPin /\ own THEN pointer.quant ELSE config.pin
           p == Select(LegacyModel, pin)
<1>1. p \in Packs \cup {None}
  BY SelectType DEF TypeOK
<1>2. LegacyModel \in Models \cup {None} /\ config.pin \in Pins
  BY SelectionAssumption DEF TypeOK, LegacyModel
<1>3. (IF own THEN pointer ELSE None) \in Packs \cup {None}
  BY DEF TypeOK
<1>4. Migrated = CASE LegacyModel = None -> Unset(config.pin)
                   [] LegacyModel # None /\ p # None -> Selected(p, config.pin)
                   [] OTHER -> Missed(LegacyModel, IF own THEN pointer ELSE None, config.pin)
  BY DEF Migrated
<1> HIDE DEF p
<1> HIDE DEF own
<1>5. CASE LegacyModel = None
  BY <1>2, <1>4, <1>5, RecordTypes, RecordKinds
<1>6. CASE LegacyModel # None /\ p # None
  BY <1>1, <1>2, <1>4, <1>6, RecordTypes, RecordKinds
<1>7. CASE LegacyModel # None /\ p = None
  BY <1>2, <1>3, <1>4, <1>7, RecordTypes, RecordKinds
<1> QED
  BY <1>5, <1>6, <1>7

-----------------------------------------------------------------------------

LEMMA InitInv == Init => Inv
<1> SUFFICES ASSUME Init PROVE Inv
  OBVIOUS
<1>0. AutoPin \in Pins
  BY DEF Pins
<1>1. Unset(AutoPin) \in Stored /\ Missing \in Stored
  <2>1. Unset(AutoPin) \in Stored
    BY <1>0, RecordTypes
  <2>2. Missing \in Stored
    BY <2>1 DEF Missing, Stored
  <2> QED
    BY <2>1, <2>2
<1>2. v2 \in Stored /\ v2.kind # "corrupt" /\ config \in [model : Models \cup {None}, pin : Pins] /\ pointer \in Packs \cup {None}
  <2>1. CASE OldHome
    BY <1>1, <2>1 DEF OldHome, Missing, Unset
  <2>2. CASE NewHome
    <3>1. PICK r \in Settled :
            /\ v2 = [r EXCEPT !.generation = 1]
            /\ config = [model |-> r.model, pin |-> r.pin]
            /\ pointer = r.pack
      BY <2>2 DEF NewHome
    <3>2. r \in Stored /\ r.kind # "corrupt"
      BY <1>1, RecordTypes DEF Settled, Unset, Selected
    <3> QED
      BY <3>1, <3>2 DEF Stored
  <2> QED
    BY <2>1, <2>2 DEF Init
<1>3. TypeOK
  <2>1. failures \in 0..MaxFailures /\ corruptions \in 0..MaxCorruptions
    BY SelectionAssumption DEF Init
  <2>2. /\ packs \subseteq Packs /\ lock \in Processes \cup {None}
        /\ choice \in [Processes -> Stored] /\ seen \in [Processes -> Stored]
    BY <1>1 DEF Init
  <2>3. evidence \in BOOLEAN /\ projecting \in BOOLEAN
    BY DEF Init
  <2>4. /\ op \in [Processes -> {"none", "persist", "reconcile", "clear", "migrate", "repair", "recover", "saveConfig"}]
        /\ phase \in [Processes -> {"new", "observed", "looked", "locked", "reset", "config", "pointer", "done"}]
    BY DEF Init
  <2> QED
    BY <1>2, <2>1, <2>2, <2>3, <2>4 DEF TypeOK
<1>4. HoldersHold /\ CopyComesFirst /\ GenerationNames
  BY DEF Init, HoldersHold, CopyComesFirst, GenerationNames
<1>5. ChoicesAreRecords
  BY RecordKinds DEF Init, ChoicesAreRecords
<1> QED
  BY <1>2, <1>3, <1>4, <1>5 DEF Inv, ReadableUntilDamaged

\* The files stay well formed: what an operation writes is a record it was
\* given, read or built.
LEMMA TypeStep == TypeOK /\ [Next]_vars => TypeOK'
<1> SUFFICES ASSUME TypeOK, [Next]_vars PROVE TypeOK'
  OBVIOUS
<1> USE DEF TypeOK
<1>1. ASSUME NEW p \in Processes, Operate(p) PROVE TypeOK'
  <2>1. ASSUME NEW kind \in {"persist", "clear", "migrate", "repair", "recover"}, NEW r \in Stored,
               Begin(p, kind, r)
        PROVE TypeOK'
    BY <2>1 DEF Begin, Lock, Goto, files
  <2>2. Unset(AutoPin) \in Stored /\ \A x \in packs, pin \in {AutoPin} \cup Quants : Selected(x, pin) \in Stored
    BY RecordTypes DEF Pins
  <2> QED
    BY <1>1, <2>1, <2>2 DEF Operate
<1>2. ASSUME NEW p \in Processes, Observe(p) PROVE TypeOK'
  BY <1>2 DEF Observe, Goto, files
<1>3. ASSUME NEW p \in Processes, Match(p) PROVE TypeOK'
  <2>1. Resolve.pack \in Packs \cup {None}
    <3>1. \A m, pin : Select(m, pin) \in Packs \cup {None}
      BY SelectType
    <3>2. ResolveLegacy.pack \in Packs \cup {None}
      BY <3>1 DEF ResolveLegacy, Resolved
    <3>3. ResolveV2(v2).pack \in Packs \cup {None}
      BY <3>1 DEF ResolveV2, Resolved, Stored, Records
    <3> QED
      BY <3>2, <3>3 DEF Resolve
  <2>2. seen[p].pin \in Pins
    BY DEF Stored
  <2>3. Selected(Resolve.pack, seen[p].pin) \in Stored
    BY <1>3, <2>1, <2>2, RecordTypes DEF Match
  <2> QED
    BY <1>3, <2>3 DEF Match, Goto, files
<1>4. ASSUME NEW p \in Processes, LoadConfig(p) PROVE TypeOK'
  <2>1. [Unset(config.pin) EXCEPT !.model = config.model] \in Stored
    BY RecordTypes DEF Stored
  <2> QED
    BY <1>4, <2>1 DEF LoadConfig, Goto, files
<1>5. ASSUME NEW p \in Processes, LockLooked(p) PROVE TypeOK'
  BY <1>5 DEF LockLooked, Lock, Goto, files
<1>6. ASSUME NEW p \in Processes, WriteFails(p) PROVE TypeOK'
  <2>1. failures' \in 0..MaxFailures
    BY <1>6, SelectionAssumption DEF WriteFails
  <2> QED
    BY <1>6, <2>1 DEF WriteFails, Release, Goto, files
<1>7. ASSUME NEW p \in Processes, Commit(p) PROVE TypeOK'
  <2>1. v2' \in Stored
    <3>1. ASSUME NEW c \in Stored, NEW g \in Nat PROVE [c EXCEPT !.generation = g] \in Stored
      BY <3>1 DEF Stored
    <3>2. NextGeneration # None => NextGeneration \in Nat
      BY DEF NextGeneration, Stored
    <3>3. v2' = v2 \/ (NextGeneration # None /\ v2' = [choice[p] EXCEPT !.generation = NextGeneration])
      BY <1>7 DEF Commit
    <3> QED
      BY <3>1, <3>2, <3>3
  <2>2. phase' \in [Processes -> {"new", "observed", "looked", "locked", "reset", "config", "pointer", "done"}]
    BY <1>7 DEF Commit, Release, Goto
  <2>3. lock' \in Processes \cup {None} /\ projecting' \in BOOLEAN
    BY <1>7 DEF Commit, Release
  <2> QED
    BY <1>7, <2>1, <2>2, <2>3 DEF Commit
<1>8. ASSUME NEW p \in Processes, Migrate(p) PROVE TypeOK'
  <2>1. v2' \in Stored
    BY <1>8, MigratedType DEF Migrate, Stored
  <2>2. projecting' \in BOOLEAN
    BY <1>8 DEF Migrate
  <2> QED
    BY <1>8, <2>1, <2>2 DEF Migrate, Release, Goto
<1>9. ASSUME NEW p \in Processes, Repair(p) PROVE TypeOK'
  BY <1>9 DEF Repair, Release, Goto, files
<1>10. ASSUME NEW p \in Processes, Copy(p) PROVE TypeOK'
  BY <1>10 DEF Copy, Release, Goto, files
<1>11. ASSUME NEW p \in Processes, Reset(p) PROVE TypeOK'
  <2>1. v2' \in Stored
    BY <1>11, RecordTypes DEF Reset, Stored, Pins
  <2> QED
    BY <1>11, <2>1 DEF Reset, Goto
<1>12. ASSUME NEW p \in Processes, SaveConfig(p) PROVE TypeOK'
  <2>1. config' \in [model : Models \cup {None}, pin : Pins]
    BY <1>12 DEF SaveConfig, Projected, Stored
  <2> QED
    BY <1>12, <2>1 DEF SaveConfig, Release, Goto
<1>13. ASSUME NEW p \in Processes, ProjectConfig(p) PROVE TypeOK'
  <2>1. config' \in [model : Models \cup {None}, pin : Pins]
    BY <1>13 DEF ProjectConfig, Stored, Pins
  <2> QED
    BY <1>13, <2>1 DEF ProjectConfig, Goto
<1>14. ASSUME NEW p \in Processes, ProjectPointer(p) PROVE TypeOK'
  <2>1. pointer' \in Packs \cup {None}
    BY <1>14 DEF ProjectPointer, PointerFor, Stored
  <2> QED
    BY <1>14, <2>1 DEF ProjectPointer, Release, Goto
<1>15. ASSUME NEW p \in Processes, Crash(p) PROVE TypeOK'
  BY <1>15 DEF Crash, Release, Goto, files
<1>16. ASSUME NEW x \in Packs, Install(x) \/ Remove(x) PROVE TypeOK'
  BY <1>16 DEF Install, Remove, files
<1>17. CASE Damage
  <2>1. v2' \in Stored /\ evidence' \in BOOLEAN
    BY <1>17, RecordTypes DEF Damage, Stored, Pins
  <2>2. corruptions' \in 0..MaxCorruptions
    BY <1>17, SelectionAssumption DEF Damage
  <2> QED
    BY <1>17, <2>1, <2>2 DEF Damage
<1>18. CASE UNCHANGED vars
  BY <1>18 DEF vars, files
<1> QED
  BY <1>1, <1>2, <1>3, <1>4, <1>5, <1>6, <1>7, <1>8, <1>9, <1>10, <1>11, <1>12, <1>13, <1>14, <1>15, <1>16,
     <1>17, <1>18 DEF Next
-----------------------------------------------------------------------------

\* An operation writes what it was given, or the record it has read.
LEMMA ChoiceStep == Inv /\ [Next]_vars => ChoicesAreRecords'
<1> SUFFICES ASSUME Inv, [Next]_vars PROVE ChoicesAreRecords'
  OBVIOUS
<1> USE RecordKinds DEF Inv, ChoicesAreRecords
<1>0. choice \in [Processes -> Stored]
  BY DEF TypeOK
<1>1. ASSUME NEW p \in Processes, Operate(p) PROVE ChoicesAreRecords'
  <2>1. ASSUME NEW kind, NEW r, r.kind \in Records, Begin(p, kind, r) PROVE ChoicesAreRecords'
    BY <1>0, <2>1 DEF Begin
  <2> QED
    BY <1>1, <2>1 DEF Operate
<1>2. ASSUME NEW p \in Processes, Match(p) \/ Repair(p) PROVE ChoicesAreRecords'
  BY <1>0, <1>2 DEF Match, Repair
<1>3. ASSUME choice' = choice PROVE ChoicesAreRecords'
  BY <1>3
<1> QED
  BY <1>1, <1>2, <1>3 DEF Next, Observe, LoadConfig, LockLooked, WriteFails, Commit, Migrate, Copy, Reset, SaveConfig,
     ProjectConfig, ProjectPointer, Crash, Install, Remove, Damage, vars

\* How the record may change in one step: it stays, or the holder of the lock
\* replaces it, or it is damaged.
LEMMA RecordStep ==
  ASSUME Inv, [Next]_vars
  PROVE  \/ v2' = v2
         \/ \E p \in Processes : At(p, "locked") /\ v2'.kind \in Records /\ v2.kind # "corrupt" /\ v2'.generation = v2.generation + 1
         \/ \E p \in Processes : At(p, "locked") /\ v2'.kind \in Records /\ v2.kind = "missing"
         \/ \E p \in Processes : At(p, "reset") /\ phase'[p] = "config" /\ v2'.kind \in Records
         \/ Damage
<1>1. ASSUME NEW p \in Processes, Commit(p)
      PROVE  v2' = v2 \/ (At(p, "locked") /\ v2'.kind \in Records /\ v2.kind # "corrupt" /\ v2'.generation = v2.generation + 1)
  <2>1. choice[p] \in Stored /\ choice[p].kind \in Records
    BY DEF Inv, TypeOK, ChoicesAreRecords
  <2>2. CASE NextGeneration = None \/ ~StillExpected(p)
    BY <1>1, <2>2 DEF Commit
  <2>3. CASE ~(NextGeneration = None \/ ~StillExpected(p))
    <3>1. v2' = [choice[p] EXCEPT !.generation = NextGeneration] /\ At(p, "locked")
      BY <1>1, <2>3 DEF Commit
    <3>2. v2.kind # "corrupt" /\ NextGeneration = v2.generation + 1
      BY <2>3 DEF NextGeneration
    <3>3. v2'.kind = choice[p].kind /\ v2'.generation = NextGeneration
      BY <2>1, <3>1 DEF Stored
    <3> QED
      BY <2>1, <3>1, <3>2, <3>3
  <2> QED
    BY <2>2, <2>3
<1>2. ASSUME NEW p \in Processes, Migrate(p)
      PROVE  v2' = v2 \/ (At(p, "locked") /\ v2'.kind \in Records /\ v2.kind = "missing")
  <2>1. Migrated \in Stored /\ Migrated.kind \in Records
    BY MigratedType DEF Inv
  <2>2. [Migrated EXCEPT !.generation = 1].kind = Migrated.kind
    BY <2>1 DEF Stored
  <2> QED
    BY <1>2, <2>1, <2>2 DEF Migrate
<1>3. ASSUME NEW p \in Processes, Reset(p) PROVE At(p, "reset") /\ phase'[p] = "config" /\ v2'.kind \in Records
  BY <1>3 DEF Reset, Goto, Unset, Records, Inv, TypeOK
<1>4. ASSUME NEW p \in Processes, Operate(p) PROVE v2' = v2
  BY <1>4 DEF Operate, Begin, files
<1> QED
  BY <1>1, <1>2, <1>3, <1>4 DEF Next, Observe, Match, LoadConfig, LockLooked, WriteFails, Repair, Copy, SaveConfig,
     ProjectConfig, ProjectPointer, Crash, Install, Remove, vars, files

\* The lock is held through all writes of an operation.
LEMMA LockStep == Inv /\ [Next]_vars => HoldersHold'
<1> SUFFICES ASSUME Inv, [Next]_vars PROVE HoldersHold'
  OBVIOUS
<1> USE DEF Inv, HoldersHold
<1>0. /\ phase \in [Processes -> {"new", "observed", "looked", "locked", "reset", "config", "pointer", "done"}]
      /\ None \notin Processes
  BY SelectionAssumption DEF TypeOK
<1>1. ASSUME NEW p \in Processes, lock = None, lock' = p, Goto(p, "locked") PROVE HoldersHold'
  BY <1>0, <1>1 DEF Goto
<1>2. ASSUME NEW p \in Processes, lock = p, Release(p) PROVE HoldersHold'
  BY <1>0, <1>2 DEF Release, Goto
<1>3. ASSUME NEW p \in Processes, lock = p, lock' = lock, NEW where, Goto(p, where) PROVE HoldersHold'
  BY <1>0, <1>3 DEF Goto
<1>4. ASSUME NEW p \in Processes, lock' = lock, NEW where \in {"observed", "looked"}, Goto(p, where) PROVE HoldersHold'
  BY <1>0, <1>4 DEF Goto
<1>5. ASSUME lock' = lock, phase' = phase PROVE HoldersHold'
  BY <1>5
<1>6. ASSUME NEW p \in Processes, Operate(p) \/ LockLooked(p) PROVE HoldersHold'
  BY <1>1, <1>6 DEF Operate, Begin, LockLooked, Lock
<1>7. ASSUME NEW p \in Processes, Observe(p) \/ Match(p) \/ LoadConfig(p) PROVE HoldersHold'
  BY <1>4, <1>7 DEF Observe, Match, LoadConfig
<1>8. ASSUME NEW p \in Processes,
             WriteFails(p) \/ Crash(p) \/ Migrate(p) \/ SaveConfig(p) \/ ProjectPointer(p)
      PROVE HoldersHold'
  BY <1>2, <1>8 DEF WriteFails, Crash, Migrate, SaveConfig, ProjectPointer, At
<1>9. ASSUME NEW p \in Processes, Commit(p) \/ Repair(p) \/ Copy(p) \/ Reset(p) \/ ProjectConfig(p) PROVE HoldersHold'
  BY <1>2, <1>3, <1>9 DEF Commit, Repair, Copy, Reset, ProjectConfig, At
<1> QED
  BY <1>5, <1>6, <1>7, <1>8, <1>9 DEF Next, Install, Remove, Damage, vars
\* Nobody else changes the record between the copy and the reset of a recovery.
LEMMA CopyStep == Inv /\ [Next]_vars => CopyComesFirst'
<1> SUFFICES ASSUME Inv, [Next]_vars, NEW q \in Processes, phase'[q] = "reset"
             PROVE  v2'.kind = "corrupt" /\ evidence'
  BY DEF CopyComesFirst
<1>0. /\ phase \in [Processes -> {"new", "observed", "looked", "locked", "reset", "config", "pointer", "done"}]
      /\ None \notin Processes
  BY SelectionAssumption DEF Inv, TypeOK
<1>1. CASE Copy(q)
  BY <1>0, <1>1 DEF Copy, Release, Goto, files
<1>2. CASE ~Copy(q)
  <2>1. phase[q] = "reset"
    <3>1. ASSUME NEW p \in Processes, NEW where, where # "reset", Goto(p, where) PROVE phase[q] = "reset"
      BY <1>0, <3>1 DEF Goto
    <3>2. ASSUME NEW p \in Processes, Copy(p) PROVE phase[q] = "reset"
      BY <1>0, <1>2, <3>2 DEF Copy, Release, Goto
    <3>3. ASSUME NEW p \in Processes, Operate(p) \/ LockLooked(p) PROVE phase[q] = "reset"
      BY <3>1, <3>3 DEF Operate, Begin, LockLooked, Lock
    <3>4. ASSUME NEW p \in Processes,
                 \/ Observe(p) \/ Match(p) \/ LoadConfig(p) \/ WriteFails(p) \/ Commit(p) \/ Migrate(p) \/ Repair(p)
                 \/ Reset(p) \/ SaveConfig(p) \/ ProjectConfig(p) \/ ProjectPointer(p) \/ Crash(p)
          PROVE phase[q] = "reset"
      BY <3>1, <3>4 DEF Observe, Match, LoadConfig, WriteFails, Commit, Migrate, Repair, Reset, SaveConfig,
         ProjectConfig, ProjectPointer, Crash, Release
    <3>5. ASSUME phase' = phase PROVE phase[q] = "reset"
      BY <3>5
    <3> QED
      BY <3>2, <3>3, <3>4, <3>5 DEF Next, Install, Remove, Damage, vars
  <2>2. lock = q /\ v2.kind = "corrupt" /\ evidence
    BY <2>1 DEF Inv, HoldersHold, CopyComesFirst
  <2>3. ~Damage
    BY <2>2 DEF Damage, Records
  <2>4. \A p \in Processes : ~At(p, "locked") /\ (At(p, "reset") => p = q)
    BY <2>1, <2>2 DEF At
  <2>5. v2' = v2
    BY <2>3, <2>4, RecordStep
  <2>6. ASSUME NEW p \in Processes, Copy(p) PROVE FALSE
    BY <1>2, <2>2, <2>6 DEF Copy, At
  <2>7. ASSUME NEW p \in Processes, Operate(p) PROVE evidence'
    BY <2>2, <2>7 DEF Operate, Begin
  <2>8. evidence'
    BY <2>2, <2>3, <2>6, <2>7 DEF Next, Observe, Match, LoadConfig, LockLooked, WriteFails, Commit, Migrate, Repair,
       Reset, SaveConfig, ProjectConfig, ProjectPointer, Crash, Install, Remove, vars
  <2> QED
    BY <2>2, <2>5, <2>8
<1> QED
  BY <1>1, <1>2

\* Damage is counted.
LEMMA CorruptionStep == Inv /\ [Next]_vars => corruptions' = corruptions \/ (Damage /\ corruptions' # 0)
<1> SUFFICES ASSUME Inv, [Next]_vars PROVE corruptions' = corruptions \/ (Damage /\ corruptions' # 0)
  OBVIOUS
<1>1. CASE Damage
  BY <1>1 DEF Damage, Inv, TypeOK
<1>2. ASSUME NEW p \in Processes, Operate(p) PROVE corruptions' = corruptions
  BY <1>2 DEF Operate, Begin
<1> QED
  BY <1>1, <1>2 DEF Next, Observe, Match, LoadConfig, LockLooked, WriteFails, Commit, Migrate, Repair, Copy,
     Reset, SaveConfig, ProjectConfig, ProjectPointer, Crash, Install, Remove, vars

LEMMA ReadableStep == Inv /\ [Next]_vars => ReadableUntilDamaged'
<1> SUFFICES ASSUME Inv, [Next]_vars, corruptions' = 0 PROVE v2'.kind # "corrupt"
  BY DEF ReadableUntilDamaged
<1>1. corruptions = 0 /\ ~Damage
  BY CorruptionStep DEF Damage, Inv, TypeOK
<1>2. v2.kind # "corrupt"
  BY <1>1 DEF Inv, ReadableUntilDamaged
<1> QED
  BY <1>1, <1>2, RecordStep DEF Records

\* A record that replaces the one a booting process has read has a higher
\* generation.
LEMMA GenerationStep == Inv /\ [Next]_vars => GenerationNames'
<1> SUFFICES ASSUME Inv, [Next]_vars, corruptions' = 0,
                    NEW q \in Processes, op'[q] = "reconcile", phase'[q] \in {"observed", "looked", "locked"}
             PROVE  /\ v2'.kind \in Records
                    /\ seen'[q].generation <= v2'.generation
                    /\ seen'[q].generation = v2'.generation => seen'[q] = v2'
  BY DEF GenerationNames
<1>0. /\ phase \in [Processes -> {"new", "observed", "looked", "locked", "reset", "config", "pointer", "done"}]
      /\ op \in [Processes -> {"none", "persist", "reconcile", "clear", "migrate", "repair", "recover", "saveConfig"}]
      /\ seen \in [Processes -> Stored]
  BY DEF Inv, TypeOK
<1>a. v2.generation \in Nat /\ seen[q].generation \in Nat
  BY <1>0 DEF Inv, TypeOK, Stored
<1>b. corruptions = 0 /\ ~Damage
  BY CorruptionStep DEF Damage, Inv, TypeOK
<1>1. CASE Observe(q)
  BY <1>0, <1>a, <1>1 DEF Observe, files
<1>2. CASE ~Observe(q)
  <2>1. op[q] = "reconcile" /\ phase[q] \in {"observed", "looked", "locked"} /\ seen'[q] = seen[q]
    <3>1. ASSUME NEW p \in Processes, Operate(p) PROVE seen' = seen /\ op[q] = op'[q] /\ (phase[q] = phase'[q])
      <4>0. PICK kind \in {"persist", "clear", "migrate", "repair", "recover"} : \E rec : Begin(p, kind, rec)
        BY <3>1 DEF Operate
      <4>1. PICK rec : Begin(p, kind, rec)
        BY <4>0
      <4>2. p # q
        BY <1>0, <4>1 DEF Begin
      <4> QED
        BY <1>0, <4>1, <4>2 DEF Begin, Lock, Goto
    <3>2. ASSUME NEW p \in Processes, Observe(p) PROVE seen'[q] = seen[q] /\ op[q] = op'[q] /\ phase[q] = phase'[q]
      BY <1>0, <1>2, <3>2 DEF Observe, Goto
    <3>3. ASSUME NEW p \in Processes, LoadConfig(p) PROVE seen'[q] = seen[q] /\ op[q] = op'[q] /\ phase[q] = phase'[q]
      <4>1. p # q
        BY <1>0, <3>3 DEF LoadConfig
      <4> QED
        BY <1>0, <3>3, <4>1 DEF LoadConfig, Goto
    <3>4. ASSUME NEW p \in Processes, Match(p) \/ LockLooked(p)
          PROVE  seen' = seen /\ op' = op /\ phase[q] \in {"observed", "looked", "locked"}
      BY <1>0, <3>4 DEF Match, LockLooked, Lock, Goto
    <3>5. ASSUME NEW p \in Processes, NEW where \in {"reset", "config", "pointer", "done"}, Goto(p, where)
          PROVE  phase[q] = phase'[q]
      BY <1>0, <3>5 DEF Goto
    <3>6. ASSUME NEW p \in Processes,
                 \/ WriteFails(p) \/ Commit(p) \/ Migrate(p) \/ Repair(p) \/ Copy(p)
                 \/ Reset(p) \/ SaveConfig(p) \/ ProjectConfig(p) \/ ProjectPointer(p) \/ Crash(p)
          PROVE  seen' = seen /\ op' = op /\ phase[q] = phase'[q]
      BY <3>5, <3>6 DEF WriteFails, Commit, Migrate, Repair, Copy, Reset, SaveConfig,
         ProjectConfig, ProjectPointer, Crash, Release
    <3> QED
      BY <1>b, <3>1, <3>2, <3>3, <3>4, <3>6 DEF Next, Install, Remove, vars
  <2>2. /\ v2.kind \in Records
        /\ seen[q].generation <= v2.generation
        /\ seen[q].generation = v2.generation => seen[q] = v2
    BY <1>b, <2>1 DEF Inv, GenerationNames
  <2>3. v2' = v2 \/ (v2'.kind \in Records /\ v2'.generation = v2.generation + 1)
    <3>1. \A p \in Processes : ~At(p, "reset")
      BY <2>2 DEF At, Inv, CopyComesFirst, Records
    <3> QED
      BY <1>b, <2>2, <3>1, RecordStep DEF Records
  <2> QED
    BY <1>a, <2>1, <2>2, <2>3
<1> QED
  BY <1>1, <1>2

-----------------------------------------------------------------------------

\* The invariant holds in every reachable state.
THEOREM Invariance == Spec => []Inv
<1>1. Inv /\ [Next]_vars => Inv'
  BY TypeStep, LockStep, CopyStep, ChoiceStep, ReadableStep, GenerationStep DEF Inv
<1> QED
  BY InitInv, <1>1, PTL DEF Spec

\* The files and the state of every process are well formed throughout.
THEOREM TypeCorrect == Spec => []TypeOK
<1>1. Inv => TypeOK
  BY DEF Inv
<1> QED
  BY Invariance, <1>1, PTL

\* Boot reconciliation (persist_activation_detailed_if_generation) replaces the
\* very record it has read, whatever other processes do in between, as long as
\* the file is not damaged.
THEOREM BootSafe == Spec => BootKeepsNewerChoice
<1>1. ASSUME Inv, [Next]_vars, NEW p \in Processes,
             op[p] = "reconcile", phase[p] = "locked", phase'[p] = "config", corruptions = 0
      PROVE  v2 = seen[p]
  <2>0. /\ phase \in [Processes -> {"new", "observed", "looked", "locked", "reset", "config", "pointer", "done"}]
        /\ lock = p
    BY <1>1 DEF Inv, TypeOK, HoldersHold
  <2>1. Commit(p) \/ Repair(p)
    <3>1. ASSUME NEW q \in Processes, NEW where, where # "config", Goto(q, where) PROVE FALSE
      BY <1>1, <2>0, <3>1 DEF Goto
    <3>2. ASSUME NEW q \in Processes, Operate(q) \/ LockLooked(q) PROVE FALSE
      BY <3>1, <3>2 DEF Operate, Begin, LockLooked, Lock
    <3>3. ASSUME NEW q \in Processes,
                 \/ Observe(q) \/ Match(q) \/ LoadConfig(q) \/ WriteFails(q) \/ Migrate(q)
                 \/ SaveConfig(q) \/ ProjectConfig(q) \/ ProjectPointer(q) \/ Crash(q) \/ Copy(q)
          PROVE FALSE
      BY <3>1, <3>3 DEF Observe, Match, LoadConfig, WriteFails, Migrate, SaveConfig,
         ProjectConfig, ProjectPointer, Crash, Release, Copy
    <3>4. ASSUME NEW q \in Processes, Reset(q) PROVE FALSE
      BY <1>1, <2>0, <3>4 DEF Reset, At
    <3>5. phase' # phase
      BY <1>1
    <3>6. ASSUME NEW q \in Processes, Commit(q) \/ Repair(q) PROVE q = p
      BY <2>0, <3>6 DEF Commit, Repair, At
    <3> QED
      BY <1>1, <3>2, <3>3, <3>4, <3>5, <3>6 DEF Next, Install, Remove, Damage, vars
  <2>2. StillExpected(p)
    BY <1>1, <2>0, <2>1 DEF Commit, Repair, Release, Goto
  <2> QED
    BY <1>1, <2>2 DEF StillExpected, Inv, GenerationNames
<1>2. Inv /\ [Next]_vars =>
        [\A p \in Processes :
           op[p] = "reconcile" /\ phase[p] = "locked" /\ phase'[p] = "config" /\ corruptions = 0
             => v2 = seen[p]]_vars
  BY <1>1
<1> QED
  BY Invariance, <1>2, PTL DEF Spec, BootKeepsNewerChoice

\* A damaged record is never overwritten before recover_corrupt_v2_detailed has
\* made its copy, whichever processes write or die in between.
THEOREM EvidenceSafe == Spec => DamageIsKept
<1>1. ASSUME Inv, [Next]_vars, v2.kind = "corrupt", v2' # v2 PROVE evidence
  <2>1. PICK p \in Processes : At(p, "reset")
    BY <1>1, RecordStep DEF Damage, Records
  <2> QED
    BY <1>1, <2>1 DEF At, Inv, CopyComesFirst
<1>2. Inv /\ [Next]_vars => [v2.kind = "corrupt" /\ v2' # v2 => evidence]_vars
  BY <1>1
<1> QED
  BY Invariance, <1>2, PTL DEF Spec, DamageIsKept

-----------------------------------------------------------------------------
(* The projections                                                          *)

\* Two records that select the same, apart from their generation.
SameSelection(r, s) == r.model = s.model /\ r.pin = s.pin /\ r.kind = s.kind /\ r.pack = s.pack

\* An operation that has committed or read the record projects that very
\* record, and config.json agrees with it once it is written.
InHand ==
  \A p \in Processes :
    /\ phase[p] \in {"config", "pointer"} =>
         v2.kind # "missing" /\ (v2.kind \in Records => SameSelection(v2, choice[p]))
    /\ phase[p] = "pointer" =>
         config.model = choice[p].model /\ (choice[p].kind = "unset" \/ config.pin = choice[p].pin)

\* Only a recovery resets, and what it writes is the unset record; what boot
\* has observed it reconciles.
OperationsInOrder ==
  \A p \in Processes :
    /\ op[p] = "recover" => choice[p] = Unset(AutoPin)
    /\ phase[p] = "reset" => op[p] = "recover"
    /\ phase[p] = "observed" => op[p] = "reconcile"

\* Without a record nobody changes config.json: a config update saves the
\* selection that it has loaded.
ConfigKeptUntilMigrated ==
  v2.kind = "missing" =>
    \A p \in Processes :
      op[p] = "saveConfig" /\ phase[p] \in {"looked", "locked"}
        => config = [model |-> seen[p].model, pin |-> seen[p].pin]

ProjInv == OperationsInOrder /\ InHand /\ ProjectionsAgree /\ ConfigKeptUntilMigrated

LEMMA InitProjections == Init => ProjInv
<1> SUFFICES ASSUME Init PROVE ProjInv
  OBVIOUS
<1>1. OperationsInOrder /\ InHand /\ ConfigKeptUntilMigrated
  BY DEF Init, OperationsInOrder, InHand, ConfigKeptUntilMigrated
<1>2. ProjectionsAgree
  <2>1. CASE OldHome
    BY <2>1 DEF OldHome, Missing, Unset, ProjectionsAgree, Records
  <2>2. CASE NewHome
    <3>1. PICK r \in Settled :
            /\ v2 = [r EXCEPT !.generation = 1]
            /\ config = [model |-> r.model, pin |-> r.pin]
            /\ pointer = r.pack
      BY <2>2 DEF NewHome
    <3>2. v2.model = r.model /\ v2.pin = r.pin /\ v2.pack = r.pack
      BY <3>1 DEF Settled, Unset, Selected
    <3> QED
      BY <3>1, <3>2 DEF ProjectionsAgree
  <2> QED
    BY <2>1, <2>2 DEF Init
<1> QED
  BY <1>1, <1>2 DEF ProjInv

LEMMA OperationStep == Inv /\ OperationsInOrder /\ [Next]_vars => OperationsInOrder'
<1> SUFFICES ASSUME Inv, OperationsInOrder, [Next]_vars PROVE OperationsInOrder'
  OBVIOUS
<1> USE DEF OperationsInOrder
<1>0. /\ phase \in [Processes -> {"new", "observed", "looked", "locked", "reset", "config", "pointer", "done"}]
      /\ op \in [Processes -> {"none", "persist", "reconcile", "clear", "migrate", "repair", "recover", "saveConfig"}]
      /\ choice \in [Processes -> Stored]
  BY DEF Inv, TypeOK
<1>1. ASSUME NEW p \in Processes, NEW kind, NEW r, Begin(p, kind, r), kind = "recover" => r = Unset(AutoPin)
      PROVE  OperationsInOrder'
  BY <1>0, <1>1 DEF Begin, Lock, Goto
<1>2. ASSUME NEW p \in Processes, Operate(p) PROVE OperationsInOrder'
  BY <1>1, <1>2 DEF Operate
<1>3. ASSUME NEW p \in Processes, Observe(p) \/ LoadConfig(p) PROVE OperationsInOrder'
  BY <1>0, <1>3 DEF Observe, LoadConfig, Goto
<1>4. ASSUME NEW p \in Processes, Copy(p) PROVE OperationsInOrder'
  BY <1>0, <1>4 DEF Copy, Goto, Release
<1>5. ASSUME NEW p \in Processes, NEW where \in {"looked", "locked", "config", "pointer", "done"}, Goto(p, where),
             op' = op, choice' = choice
      PROVE  OperationsInOrder'
  BY <1>0, <1>5 DEF Goto
<1>6. ASSUME NEW p \in Processes, Match(p) PROVE OperationsInOrder'
  BY <1>0, <1>6 DEF Match, Goto
<1>7. ASSUME NEW p \in Processes, Repair(p) PROVE OperationsInOrder'
  BY <1>0, <1>7 DEF Repair, Release, Goto
<1>8. ASSUME NEW p \in Processes,
             \/ LockLooked(p) \/ WriteFails(p) \/ Commit(p) \/ Migrate(p) \/ Reset(p)
             \/ SaveConfig(p) \/ ProjectConfig(p) \/ ProjectPointer(p) \/ Crash(p)
      PROVE  OperationsInOrder'
  BY <1>5, <1>8 DEF LockLooked, Lock, WriteFails, Commit, Migrate, Reset, SaveConfig, ProjectConfig, ProjectPointer,
     Crash, Release
<1>9. ASSUME op' = op, choice' = choice, phase' = phase PROVE OperationsInOrder'
  BY <1>9
<1> QED
  BY <1>2, <1>3, <1>4, <1>6, <1>7, <1>8, <1>9 DEF Next, Install, Remove, Damage, vars

\* A process that starts to project holds the record it has just written or read.
LEMMA InHandStep == Inv /\ OperationsInOrder /\ InHand /\ [Next]_vars => InHand'
<1> SUFFICES ASSUME Inv, OperationsInOrder, InHand, [Next]_vars PROVE InHand'
  OBVIOUS
<1>0. /\ phase \in [Processes -> {"new", "observed", "looked", "locked", "reset", "config", "pointer", "done"}]
      /\ choice \in [Processes -> Stored] /\ v2 \in Stored
      /\ None \notin Processes
  BY SelectionAssumption DEF Inv, TypeOK
\* Nobody is projecting while another process holds the lock, or nobody does.
<1>a. \A p \in Processes : lock # p => phase[p] \notin {"config", "pointer"}
  BY DEF Inv, HoldersHold
<1>1. ASSUME NEW p \in Processes, NEW where \in {"observed", "looked", "locked", "reset", "done"}, Goto(p, where),
             v2' = v2, config' = config, \A q \in Processes : q # p => choice'[q] = choice[q]
      PROVE  InHand'
  BY <1>0, <1>1 DEF Goto, InHand, SameSelection
<1>2. ASSUME NEW p \in Processes, lock = p, NEW where \in {"done"}, Goto(p, where) PROVE InHand'
  BY <1>0, <1>a, <1>2 DEF Goto, InHand
<1>3. ASSUME NEW p \in Processes, Operate(p) PROVE InHand'
  <2>1. ASSUME NEW kind, NEW r, Begin(p, kind, r) PROVE InHand'
    BY <1>0, <1>1, <2>1 DEF Begin, Lock, files
  <2> QED
    BY <1>3, <2>1 DEF Operate
<1>4. ASSUME NEW p \in Processes, Match(p) PROVE InHand'
  BY <1>0, <1>1, <1>4 DEF Match, files
<1>5. ASSUME NEW p \in Processes, Observe(p) \/ LoadConfig(p) \/ LockLooked(p) PROVE InHand'
  BY <1>1, <1>5 DEF Observe, LoadConfig, LockLooked, Lock, files
<1>6. ASSUME NEW p \in Processes, WriteFails(p) \/ Migrate(p) \/ SaveConfig(p) \/ ProjectPointer(p) \/ Crash(p)
      PROVE  InHand'
  BY <1>2, <1>6 DEF WriteFails, Migrate, SaveConfig, ProjectPointer, Crash, Release, At
<1>7. ASSUME NEW p \in Processes, lock = p, Goto(p, "config"), v2'.kind \in Records, SameSelection(v2', choice'[p])
      PROVE  InHand'
  BY <1>0, <1>a, <1>7 DEF Goto, InHand, Records
<1>8. ASSUME NEW p \in Processes, Commit(p) PROVE InHand'
  <2>1. CASE NextGeneration = None \/ ~StillExpected(p)
    BY <1>2, <1>8, <2>1 DEF Commit, Release, At
  <2>2. CASE ~(NextGeneration = None \/ ~StillExpected(p))
    <3>1. /\ v2' = [choice[p] EXCEPT !.generation = NextGeneration] /\ choice' = choice
          /\ lock = p /\ Goto(p, "config")
      BY <1>8, <2>2 DEF Commit, At
    <3>2. choice[p] \in Stored /\ choice[p].kind \in Records
      BY <1>0 DEF Inv, ChoicesAreRecords
    <3>3. v2'.kind \in Records /\ SameSelection(v2', choice'[p])
      BY <3>1, <3>2 DEF SameSelection, Stored
    <3> QED
      BY <1>7, <3>1, <3>3
  <2> QED
    BY <2>1, <2>2
<1>9. ASSUME NEW p \in Processes, Repair(p) PROVE InHand'
  <2>1. CASE v2.kind \in Records
    BY <1>0, <1>7, <1>9, <2>1 DEF Repair, At, files, SameSelection
  <2>2. CASE v2.kind \notin Records
    BY <1>2, <1>9, <2>2 DEF Repair, Release, At
  <2> QED
    BY <2>1, <2>2
<1>10. ASSUME NEW p \in Processes, Copy(p) PROVE InHand'
  BY <1>1, <1>10 DEF Copy, Release, files
<1>11. ASSUME NEW p \in Processes, Reset(p) PROVE InHand'
  <2>1. choice[p] = Unset(AutoPin)
    BY <1>11 DEF Reset, At, OperationsInOrder
  <2>2. v2'.kind \in Records /\ SameSelection(v2', choice'[p])
    BY <1>11, <2>1 DEF Reset, Unset, Records, SameSelection
  <2> QED
    BY <1>7, <1>11, <2>2 DEF Reset, At
<1>12. ASSUME NEW p \in Processes, ProjectConfig(p) PROVE InHand'
  <2>1. /\ lock = p /\ phase[p] = "config" /\ Goto(p, "pointer") /\ v2' = v2 /\ choice' = choice
        /\ config' = [model |-> choice[p].model, pin |-> IF choice[p].kind = "unset" THEN AutoPin ELSE choice[p].pin]
    BY <1>12 DEF ProjectConfig, At
  <2> QED
    BY <1>0, <1>a, <2>1 DEF Goto, InHand, SameSelection
<1>13. CASE Damage
  BY <1>13 DEF Damage, Unset, InHand, Records
<1>14. ASSUME v2' = v2, config' = config, choice' = choice, phase' = phase PROVE InHand'
  BY <1>14 DEF InHand, SameSelection
<1> QED
  BY <1>3, <1>4, <1>5, <1>6, <1>8, <1>9, <1>10, <1>11, <1>12, <1>13, <1>14 DEF Next, Install, Remove, vars, files

\* A step leaves the three files alone, or changes the record and flags it as
\* newer, or projects it.
LEMMA ProjectionStep == Inv /\ InHand /\ ProjectionsAgree /\ [Next]_vars => ProjectionsAgree'
<1> SUFFICES ASSUME Inv, InHand, ProjectionsAgree, [Next]_vars, v2'.kind \in Records, ~projecting'
             PROVE  /\ config'.model = v2'.model
                    /\ v2'.kind = "unset" \/ config'.pin = v2'.pin
                    /\ pointer' \in {v2'.pack, None}
  BY DEF ProjectionsAgree
<1> USE DEF ProjectionsAgree
<1>1. ASSUME config' = config, pointer' = pointer, v2' = v2, projecting' = projecting
      PROVE  /\ config'.model = v2'.model
             /\ v2'.kind = "unset" \/ config'.pin = v2'.pin
             /\ pointer' \in {v2'.pack, None}
  BY <1>1
<1>2. ASSUME NEW p \in Processes, Operate(p)
      PROVE  config' = config /\ pointer' = pointer /\ v2' = v2 /\ projecting' = projecting
  BY <1>2 DEF Operate, Begin, files
<1>3. ASSUME NEW p \in Processes, Commit(p)
      PROVE  config' = config /\ pointer' = pointer /\ v2' = v2 /\ projecting' = projecting
  BY <1>3 DEF Commit
<1>4. ASSUME NEW p \in Processes, Migrate(p)
      PROVE  config' = config /\ pointer' = pointer /\ v2' = v2 /\ projecting' = projecting
  BY <1>4 DEF Migrate, Inv, TypeOK
<1>5. ASSUME NEW p \in Processes, Reset(p) PROVE FALSE
  BY <1>5 DEF Reset
<1>6. ASSUME NEW p \in Processes, SaveConfig(p)
      PROVE  /\ config'.model = v2'.model
             /\ v2'.kind = "unset" \/ config'.pin = v2'.pin
             /\ pointer' \in {v2'.pack, None}
  BY <1>6 DEF SaveConfig, Projected, Records
<1>7. ASSUME NEW p \in Processes, ProjectConfig(p)
      PROVE  /\ config'.model = v2'.model
             /\ v2'.kind = "unset" \/ config'.pin = v2'.pin
             /\ pointer' \in {v2'.pack, None}
  <2>1. SameSelection(v2, choice[p])
    BY <1>7 DEF ProjectConfig, At, InHand
  <2> QED
    BY <1>7, <2>1 DEF ProjectConfig, SameSelection
<1>8. ASSUME NEW p \in Processes, ProjectPointer(p)
      PROVE  /\ config'.model = v2'.model
             /\ v2'.kind = "unset" \/ config'.pin = v2'.pin
             /\ pointer' \in {v2'.pack, None}
  <2>1. /\ SameSelection(v2, choice[p])
        /\ config.model = choice[p].model /\ (choice[p].kind = "unset" \/ config.pin = choice[p].pin)
    BY <1>8 DEF ProjectPointer, At, InHand
  <2>2. pointer' \in {choice[p].pack, None}
    BY <1>8 DEF ProjectPointer, PointerFor
  <2> QED
    BY <1>8, <2>1, <2>2 DEF ProjectPointer, SameSelection
<1>9. CASE Damage
  BY <1>9 DEF Damage, Unset, Records
<1> QED
  BY <1>1, <1>2, <1>3, <1>4, <1>5, <1>6, <1>7, <1>8, <1>9 DEF Next, Observe, Match, LoadConfig, LockLooked, WriteFails,
     Repair, Copy, Crash, Install, Remove, vars, files

\* Without a record the two old files stay as they are.
LEMMA OldFilesKept ==
  ASSUME Inv, InHand, ConfigKeptUntilMigrated, [Next]_vars, v2.kind = "missing"
  PROVE  config' = config /\ pointer' = pointer
<1>1. ASSUME NEW p \in Processes, ProjectConfig(p) \/ ProjectPointer(p) PROVE FALSE
  BY <1>1 DEF ProjectConfig, ProjectPointer, At, InHand
<1>2. ASSUME NEW p \in Processes, SaveConfig(p) PROVE config' = config /\ pointer' = pointer
  BY <1>2 DEF SaveConfig, Projected, At, ConfigKeptUntilMigrated, Records
<1>3. ASSUME NEW p \in Processes, Operate(p) PROVE config' = config /\ pointer' = pointer
  BY <1>3 DEF Operate, Begin, files
<1> QED
  BY <1>1, <1>2, <1>3 DEF Next, Observe, Match, LoadConfig, LockLooked, WriteFails, Commit, Migrate, Repair, Copy, Reset,
     Crash, Install, Remove, Damage, vars, files

\* A record is never removed.
LEMMA NeverMissingAgain == Inv /\ [Next]_vars /\ v2'.kind = "missing" => v2' = v2
<1> SUFFICES ASSUME Inv, [Next]_vars, v2'.kind = "missing" PROVE v2' = v2
  OBVIOUS
<1>1. ~Damage
  BY DEF Damage, Unset
<1> QED
  BY <1>1, RecordStep DEF Records

LEMMA ConfigStep == Inv /\ OperationsInOrder /\ InHand /\ ConfigKeptUntilMigrated /\ [Next]_vars => ConfigKeptUntilMigrated'
<1> SUFFICES ASSUME Inv, OperationsInOrder, InHand, ConfigKeptUntilMigrated, [Next]_vars, v2'.kind = "missing",
                    NEW q \in Processes, op'[q] = "saveConfig", phase'[q] \in {"looked", "locked"}
             PROVE  config' = [model |-> seen'[q].model, pin |-> seen'[q].pin]
  BY DEF ConfigKeptUntilMigrated
<1>0. /\ phase \in [Processes -> {"new", "observed", "looked", "locked", "reset", "config", "pointer", "done"}]
      /\ op \in [Processes -> {"none", "persist", "reconcile", "clear", "migrate", "repair", "recover", "saveConfig"}]
      /\ seen \in [Processes -> Stored]
      /\ config \in [model : Models \cup {None}, pin : Pins]
  BY DEF Inv, TypeOK
<1>1. v2.kind = "missing" /\ config' = config
  BY NeverMissingAgain, OldFilesKept
<1>2. CASE LoadConfig(q)
  BY <1>0, <1>1, <1>2 DEF LoadConfig, Unset
<1>3. CASE ~LoadConfig(q)
  <2>1. op[q] = "saveConfig" /\ phase[q] \in {"looked", "locked"} /\ seen'[q] = seen[q]
    <3>1. ASSUME NEW p \in Processes, Operate(p)
          PROVE  op[q] = op'[q] /\ phase[q] = phase'[q] /\ seen' = seen
      <4>0. PICK kind \in {"persist", "clear", "migrate", "repair", "recover"} : \E rec : Begin(p, kind, rec)
        BY <3>1 DEF Operate
      <4>1. PICK rec : Begin(p, kind, rec)
        BY <4>0
      <4>2. p # q
        BY <1>0, <4>1 DEF Begin
      <4> QED
        BY <1>0, <4>1, <4>2 DEF Begin, Lock, Goto
    <3>2. ASSUME NEW p \in Processes, Observe(p) PROVE FALSE
      BY <1>1, <3>2 DEF Observe, Records
    <3>3. ASSUME NEW p \in Processes, LoadConfig(p) PROVE seen'[q] = seen[q] /\ op[q] = op'[q] /\ phase[q] = phase'[q]
      BY <1>0, <1>3, <3>3 DEF LoadConfig, Goto
    <3>4. ASSUME NEW p \in Processes, Match(p) PROVE seen' = seen /\ op' = op /\ phase[q] \in {"looked", "locked"}
      BY <1>0, <3>4 DEF Match, Goto, OperationsInOrder
    <3>5. ASSUME NEW p \in Processes, LockLooked(p) PROVE seen' = seen /\ op' = op /\ phase[q] \in {"looked", "locked"}
      BY <1>0, <3>5 DEF LockLooked, Lock, Goto
    <3>6. ASSUME NEW p \in Processes, NEW where \in {"reset", "config", "pointer", "done"}, Goto(p, where)
          PROVE  phase[q] = phase'[q]
      BY <1>0, <3>6 DEF Goto
    <3>7. ASSUME NEW p \in Processes,
                 \/ WriteFails(p) \/ Commit(p) \/ Migrate(p) \/ Repair(p) \/ Copy(p)
                 \/ Reset(p) \/ SaveConfig(p) \/ ProjectConfig(p) \/ ProjectPointer(p) \/ Crash(p)
          PROVE  seen' = seen /\ op' = op /\ phase[q] = phase'[q]
      BY <3>6, <3>7 DEF WriteFails, Commit, Migrate, Repair, Copy, Reset, SaveConfig,
         ProjectConfig, ProjectPointer, Crash, Release
    <3> QED
      BY <3>1, <3>2, <3>3, <3>4, <3>5, <3>7 DEF Next, Install, Remove, Damage, vars
  <2> QED
    BY <1>1, <2>1 DEF ConfigKeptUntilMigrated
<1> QED
  BY <1>2, <1>3

\* The invariant about the projections holds in every reachable state.
THEOREM ProjectionInvariance == Spec => []ProjInv
<1>1. Inv /\ ProjInv /\ [Next]_vars => ProjInv'
  BY OperationStep, InHandStep, ProjectionStep, ConfigStep DEF ProjInv
<1> QED
  BY InitProjections, Invariance, <1>1, PTL DEF Spec

\* An older client that reads only config.json and default.json after a
\* completed operation finds what the record selects.
THEOREM ProjectionsAreTrue == Spec => []ProjectionsAgree
<1>1. ProjInv => ProjectionsAgree
  BY DEF ProjInv
<1> QED
  BY ProjectionInvariance, <1>1, PTL

-----------------------------------------------------------------------------

\* Resolution depends on nothing but the installed packs and the files.
LEMMA ResolveFrame ==
  ASSUME packs' = packs, v2' = v2, v2.kind = "missing" => config' = config /\ pointer' = pointer
  PROVE  Resolve' = Resolve
<1>1. ResolveV2(v2)' = ResolveV2(v2)
  BY DEF ResolveV2, Select, Best, Resolved
<1>2. CASE v2.kind = "missing"
  <2>1. ResolveLegacy' = ResolveLegacy
    BY <1>2 DEF ResolveLegacy, LegacyModel, Select, Best, Resolved
  <2> QED
    BY <1>2, <2>1 DEF Resolve
<1> QED
  BY <1>1, <1>2 DEF Resolve

\* resolve_launch_pack answers none only if nothing of the model is installed,
\* and else with a pack of that model.
LEMMA SelectFinds ==
  ASSUME packs \subseteq Packs, NEW m, NEW pin
  PROVE  /\ Select(m, pin) = None <=> \A p \in packs : p.model # m
         /\ Select(m, pin) # None => Select(m, pin).model = m
<1> DEFINE candidates == {p \in packs : p.model = m}
           wanted == {p \in candidates : p.quant = IF pin = AutoPin THEN Recommended ELSE pin}
<1>1. Select(m, pin) = IF candidates = {} THEN None
                       ELSE IF wanted # {} THEN Best(wanted) ELSE Best(candidates)
  BY DEF Select
<1>2. candidates \in SUBSET Packs /\ wanted \in SUBSET Packs
  OBVIOUS
<1>3. candidates # {} => Best(candidates) \in candidates
  <2> HIDE DEF candidates
  <2> QED
    BY <1>2, BestIn
<1>4. wanted # {} => Best(wanted) \in wanted
  <2> HIDE DEF wanted
  <2> QED
    BY <1>2, BestIn
<1>5. candidates # {} => Select(m, pin) \in candidates
  BY <1>1, <1>3, <1>4
<1>6. None \notin Packs
  BY SelectionAssumption
<1> QED
  BY <1>1, <1>2, <1>5, <1>6

\* migrate_legacy_to_v2_with_catalog: the new record resolves to what the two
\* old files resolved to, if these belong together or nothing is pinned.
LEMMA MigrationResolves ==
  ASSUME TypeOK, ~PinnedDrift, packs' = packs, v2.kind = "missing", v2' = [Migrated EXCEPT !.generation = 1]
  PROVE  Resolve' = Resolve
<1> DEFINE own == pointer # None /\ pointer.model = LegacyModel
           pin == IF config.pin # AutoPin /\ own THEN pointer.quant ELSE config.pin
           p == Select(LegacyModel, pin)
<1>1. Resolve = ResolveLegacy
  BY DEF Resolve
<1>2. Migrated = CASE LegacyModel = None -> Unset(config.pin)
                   [] LegacyModel # None /\ p # None -> Selected(p, config.pin)
                   [] OTHER -> Missed(LegacyModel, IF own THEN pointer ELSE None, config.pin)
  BY DEF Migrated
<1>3. ResolveLegacy = IF LegacyModel = None THEN Resolved(None, None) ELSE Resolved(LegacyModel, p)
  BY DEF ResolveLegacy, PinnedDrift
<1>4. p \in packs \cup {None} /\ packs \subseteq Packs
  BY SelectType DEF TypeOK
<1> HIDE DEF p
<1>5. CASE LegacyModel = None
  BY <1>1, <1>2, <1>3, <1>5 DEF Resolve, ResolveV2, Unset, Resolved
<1>6. CASE LegacyModel # None /\ p # None
  <2>1. p.model = LegacyModel
    BY <1>4, <1>6, SelectFinds DEF p
  <2> QED
    BY <1>1, <1>2, <1>3, <1>4, <1>6, <2>1 DEF Resolve, ResolveV2, Selected, Resolved
<1>7. CASE LegacyModel # None /\ p = None
  <2>1. \A q \in packs : q.model # LegacyModel
    BY <1>4, <1>7, SelectFinds DEF p
  <2>2. ~(own /\ pointer \in packs)
    BY <2>1
  <2>3. v2' = [Missed(LegacyModel, IF own THEN pointer ELSE None, config.pin) EXCEPT !.generation = 1]
    BY <1>2, <1>7
  <2>4. /\ v2'.kind = "notInstalled" /\ v2'.model = LegacyModel /\ v2'.pin = config.pin
        /\ v2'.pack = IF own THEN pointer ELSE None
    BY <2>3 DEF Missed
  <2>5. CASE own
    <3>1. v2'.pack # None /\ v2'.pack \notin packs'
      BY <2>2, <2>4, <2>5
    <3>2. ResolveV2(v2)' = Resolved(LegacyModel, None)
      BY <2>4, <3>1 DEF ResolveV2, Resolved
    <3> QED
      BY <1>1, <1>3, <1>7, <2>4, <3>2 DEF Resolve
  <2>6. CASE ~own
    <3>1. {q \in packs' : q.model = v2'.model} = {}
      BY <2>1, <2>4
    <3>2. ResolveV2(v2)' = Resolved(LegacyModel, None)
      BY <2>4, <2>6, <3>1 DEF ResolveV2, Resolved, Select
    <3> QED
      BY <1>1, <1>3, <1>7, <2>4, <3>2 DEF Resolve
  <2> QED
    BY <2>5, <2>6
<1> QED
  BY <1>5, <1>6, <1>7

\* What the default resolves to changes with the packs, by damage, by an
\* explicit choice or by a recovery, and in no other way.
THEOREM SelectionIsStable == Spec => SelectionStable
<1>1. ASSUME Inv, ProjInv, [Next]_vars, packs' = packs, corruptions' = corruptions,
             ~(v2.kind = "missing" /\ PinnedDrift),
             ~\E p \in Processes : /\ phase[p] # "config" /\ phase'[p] = "config"
                                  /\ op[p] \in {"persist", "reconcile", "clear", "recover"}
      PROVE  Resolve' = Resolve
  <2>0. /\ phase \in [Processes -> {"new", "observed", "looked", "locked", "reset", "config", "pointer", "done"}]
        /\ TypeOK
    BY <1>1 DEF Inv, TypeOK
  <2>1. ASSUME v2' = v2 PROVE Resolve' = Resolve
    BY <1>1, <2>1, OldFilesKept, ResolveFrame DEF ProjInv
  <2>2. ASSUME NEW p \in Processes, Commit(p) PROVE v2' = v2
    BY <1>1, <2>0, <2>2 DEF Commit, At, Goto
  <2>3. ASSUME NEW p \in Processes, Reset(p) PROVE FALSE
    BY <1>1, <2>0, <2>3 DEF Reset, At, Goto, ProjInv, OperationsInOrder
  <2>4. ASSUME NEW p \in Processes, Migrate(p) PROVE Resolve' = Resolve
    BY <1>1, <2>0, <2>1, <2>4, MigrationResolves DEF Migrate
  <2>5. ~Damage
    BY <1>1, <2>0 DEF Damage, TypeOK
  <2>6. ASSUME NEW p \in Processes, Operate(p) PROVE v2' = v2
    BY <2>6 DEF Operate, Begin, files
  <2> QED
    BY <1>1, <2>1, <2>2, <2>3, <2>4, <2>5, <2>6 DEF Next, Observe, Match, LoadConfig, LockLooked, WriteFails, Repair,
       Copy, SaveConfig, ProjectConfig, ProjectPointer, Crash, Install, Remove, vars, files
<1>2. Inv /\ ProjInv /\ [Next]_vars =>
        [\/ Resolve' = Resolve
         \/ packs' # packs
         \/ corruptions' # corruptions
         \/ \E p \in Processes : phase[p] # "config" /\ phase'[p] = "config" /\ op[p] \in {"persist", "reconcile", "clear", "recover"}
         \/ v2.kind = "missing" /\ PinnedDrift]_vars
  BY <1>1
<1> QED
  BY Invariance, ProjectionInvariance, <1>2, PTL DEF Spec, SelectionStable
=============================================================================
