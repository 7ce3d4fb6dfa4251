-------------------------- MODULE DefaultSelection --------------------------
(***************************************************************************)
(* The durable default-model selection (openasr-core, default_selection.rs *)
(* with launch_pack.rs): the V2 record, which alone decides once it        *)
(* exists, and its projections for older clients, config.json and the      *)
(* pointer default.json.  Server and CLI processes change them under one   *)
(* file lock, in several writes, and may die or fail between any two.      *)
(*                                                                         *)
(* A file is replaced atomically (atomic_file.rs).  A pack is its model    *)
(* and quant; catalog aliases and references with a quant tag are left     *)
(* out.                                                                    *)
(***************************************************************************)
EXTENDS Integers, FiniteSets

CONSTANTS
  Models,
  Quants,          \* quants by quality, a set of numbers
  Packs,           \* packs that may be installed
  Recommended,     \* the quant the catalog recommends for this host
  Processes,       \* each performs one operation
  MaxFailures,     \* writes that fail
  MaxCorruptions,  \* times the V2 record is damaged on disk
  AutoPin,         \* QuantPreference::Auto
  None

ASSUME SelectionAssumption ==
  /\ Quants \subseteq Nat /\ Recommended \in Quants
  /\ Packs \subseteq [model : Models, quant : Quants]
  /\ AutoPin \notin Quants /\ None \notin Models \cup Processes \cup Packs
  /\ MaxFailures \in Nat /\ MaxCorruptions \in Nat

\* Whatever is installed, one of it has the best quant.
ASSUME BestAssumption ==
  \A S \in SUBSET Packs : S # {} => \E p \in S : \A q \in S : q.quant <= p.quant

Pins == Quants \cup {AutoPin}

VARIABLES
  packs,        \* installed packs
  config,       \* config.json: default_model and quant_preference
  pointer,      \* default.json
  v2,           \* default-selection.json
  evidence,     \* whether a copy of the damaged record exists
  lock,         \* holder of the write lock
  op,           \* operation of each process
  phase,        \* how far it is
  choice,       \* the pack and preference it was asked to select
  seen,         \* what it read before it took the lock
  projecting,   \* the record is newer than its projections
  failures, corruptions

files == <<config, pointer, v2>>
vars == <<packs, files, evidence, lock, op, phase, choice, seen, projecting, failures, corruptions>>

\* ActiveModelSelectionV2, or what read_v2 makes of the file.
Selected(p, pin) == [model |-> p.model, pin |-> pin, kind |-> "installed", generation |-> 0, pack |-> p]
Missed(m, p, pin) == [model |-> m, pin |-> pin, kind |-> "notInstalled", generation |-> 0, pack |-> p]
Unset(pin) == [model |-> None, pin |-> pin, kind |-> "unset", generation |-> 0, pack |-> None]

Missing == [Unset(AutoPin) EXCEPT !.kind = "missing"]
Records == {"installed", "notInstalled", "unset"}

-----------------------------------------------------------------------------
(* Resolution                                                               *)

Best(S) == CHOOSE p \in S : \A q \in S : q.quant <= p.quant

\* resolve_launch_pack
Select(m, pin) ==
  LET candidates == {p \in packs : p.model = m}
      wanted == {p \in candidates : p.quant = IF pin = AutoPin THEN Recommended ELSE pin}
  IN IF candidates = {} THEN None
     ELSE IF wanted # {} THEN Best(wanted) ELSE Best(candidates)

Resolved(m, p) == [model |-> m, pack |-> p, readable |-> TRUE]

LegacyModel == IF config.model # None THEN config.model
               ELSE IF pointer # None THEN pointer.model ELSE None

\* resolve_with_catalog without a V2 record.
ResolveLegacy ==
  LET pin == IF config.pin # AutoPin /\ pointer # None THEN pointer.quant ELSE config.pin
  IN IF LegacyModel = None THEN Resolved(None, None)
     ELSE Resolved(LegacyModel, Select(LegacyModel, pin))

\* resolve_v2: the very pack, or for a bare intent whatever fits.
ResolveV2(r) ==
  CASE r.kind = "corrupt" -> [Resolved(None, None) EXCEPT !.readable = FALSE]
    [] r.kind = "unset" -> Resolved(None, None)
    [] r.kind = "notInstalled" /\ r.pack = None -> Resolved(r.model, Select(r.model, r.pin))
    [] OTHER -> Resolved(r.model, IF r.pack \in packs THEN r.pack ELSE None)

Resolve == IF v2.kind = "missing" THEN ResolveLegacy ELSE ResolveV2(v2)

\* Faulty variant: migration forgets the pin.
MigratedUnpinned ==
  LET p == Select(LegacyModel, AutoPin)
  IN CASE LegacyModel = None -> Unset(config.pin)
       [] LegacyModel # None /\ p # None -> Selected(p, config.pin)
       [] OTHER -> Missed(LegacyModel, None, config.pin)

\* migrate_legacy_to_v2_with_catalog: the record made of the two old files.
Migrated ==
  LET own == pointer # None /\ pointer.model = LegacyModel
      pin == IF config.pin # AutoPin /\ own THEN pointer.quant ELSE config.pin
      p == Select(LegacyModel, pin)
  IN CASE LegacyModel = None -> Unset(config.pin)
       [] LegacyModel # None /\ p # None -> Selected(p, config.pin)
       [] OTHER -> Missed(LegacyModel, IF own THEN pointer ELSE None, config.pin)

-----------------------------------------------------------------------------
(* A home is found fresh or with the two old files, the config possibly     *)
(* newer than the pointer, or with a record and its projections.            *)

OldHome ==
  /\ v2 = Missing
  /\ config \in [model : Models \cup {None}, pin : Pins]
  /\ pointer \in Packs \cup {None}

Settled == {Unset(AutoPin)} \cup {Selected(x, pin) : x \in Packs, pin \in Pins}

NewHome ==
  \E r \in Settled :
    /\ v2 = [r EXCEPT !.generation = 1]
    /\ config = [model |-> r.model, pin |-> r.pin]
    /\ pointer = r.pack

Init ==
  /\ packs \in SUBSET Packs
  /\ OldHome \/ NewHome
  /\ evidence = FALSE
  /\ lock = None
  /\ op = [p \in Processes |-> "none"] /\ phase = [p \in Processes |-> "new"]
  /\ choice = [p \in Processes |-> Unset(AutoPin)]
  /\ seen = [p \in Processes |-> Missing]
  /\ projecting = FALSE
  /\ failures = 0 /\ corruptions = 0

Goto(p, where) == phase' = [phase EXCEPT ![p] = where]
Release(p) == lock' = None /\ Goto(p, "done")

\* selection_write_lock and SelectionFileLock.
Lock(p) == lock = None /\ lock' = p /\ Goto(p, "locked")

\* Boot reconciliation: the record is read first, ...
Observe(p) ==
  /\ phase[p] = "new" /\ v2.kind \in Records
  /\ op' = [op EXCEPT ![p] = "reconcile"]
  /\ seen' = [seen EXCEPT ![p] = v2]
  /\ Goto(p, "observed")
  /\ UNCHANGED <<packs, files, evidence, lock, choice, projecting, failures, corruptions>>

\* ... then it is resolved, from a second read, to the pack that was launched.
Match(p) ==
  /\ phase[p] = "observed" /\ Resolve.pack # None
  /\ choice' = [choice EXCEPT ![p] = Selected(Resolve.pack, seen[p].pin)]
  /\ Goto(p, "looked")
  /\ UNCHANGED <<packs, files, evidence, lock, op, seen, projecting, failures, corruptions>>

\* A config update loads the document before it takes the lock.
LoadConfig(p) ==
  /\ phase[p] = "new"
  /\ op' = [op EXCEPT ![p] = "saveConfig"]
  /\ seen' = [seen EXCEPT ![p] = [Unset(config.pin) EXCEPT !.model = config.model]]
  /\ Goto(p, "looked")
  /\ UNCHANGED <<packs, files, evidence, lock, choice, projecting, failures, corruptions>>

LockLooked(p) ==
  /\ phase[p] = "looked" /\ Lock(p)
  /\ UNCHANGED <<packs, files, evidence, op, choice, seen, projecting, failures, corruptions>>

\* The other operations begin with the lock.
Begin(p, kind, record) ==
  /\ phase[p] = "new" /\ Lock(p)
  /\ op' = [op EXCEPT ![p] = kind]
  /\ choice' = [choice EXCEPT ![p] = record]
  /\ UNCHANGED <<packs, files, evidence, seen, projecting, failures, corruptions>>

Operate(p) ==
  \/ \E x \in packs, pin \in {AutoPin} \cup Quants : Begin(p, "persist", Selected(x, pin))
  \/ Begin(p, "clear", Unset(AutoPin))
  \/ \E kind \in {"migrate", "repair", "recover"} : Begin(p, kind, Unset(AutoPin))

-----------------------------------------------------------------------------
(* Under the lock                                                           *)

At(p, where) == lock = p /\ phase[p] = where

\* Any write may fail; what follows it is then skipped.
WriteFails(p) ==
  /\ lock = p /\ phase[p] \in {"locked", "reset", "config", "pointer"}
  /\ failures < MaxFailures /\ failures' = failures + 1
  /\ Release(p)
  /\ UNCHANGED <<packs, files, evidence, op, choice, seen, projecting, corruptions>>

\* Faulty variant: a damaged record is taken for a missing one.
GenerationAnyway == v2.generation + 1

\* next_generation
NextGeneration == IF v2.kind = "corrupt" THEN None ELSE v2.generation + 1

\* Faulty variant: boot does not compare.
Unconditional(p) == TRUE

\* expected_generation, under the lock.
StillExpected(p) == op[p] = "reconcile" => v2.kind \in Records /\ v2.generation = seen[p].generation

\* persist_detailed_with_activation_metadata and clear_detailed, up to the commit.
Commit(p) ==
  /\ At(p, "locked") /\ op[p] \in {"persist", "reconcile", "clear"}
  /\ IF NextGeneration = None \/ ~StillExpected(p)
     THEN Release(p) /\ UNCHANGED <<v2, projecting>>
     ELSE /\ v2' = [choice[p] EXCEPT !.generation = NextGeneration]
          /\ projecting' = TRUE
          /\ Goto(p, "config") /\ UNCHANGED lock
  /\ UNCHANGED <<packs, config, pointer, evidence, op, choice, seen, failures, corruptions>>

\* migrate_legacy_to_v2_with_catalog keeps a record that is there.
Migrate(p) ==
  /\ At(p, "locked") /\ op[p] = "migrate"
  /\ v2' = IF v2.kind = "missing" THEN [Migrated EXCEPT !.generation = 1] ELSE v2
  /\ projecting' = (projecting \/ v2.kind = "missing")
  /\ Release(p)
  /\ UNCHANGED <<packs, config, pointer, evidence, op, choice, seen, failures, corruptions>>

\* repair_compat_projection, with a record to project.
Repair(p) ==
  /\ At(p, "locked") /\ op[p] = "repair"
  /\ IF v2.kind \in Records
     THEN choice' = [choice EXCEPT ![p] = v2] /\ Goto(p, "config") /\ UNCHANGED lock
     ELSE Release(p) /\ UNCHANGED choice
  /\ UNCHANGED <<packs, files, evidence, op, seen, projecting, failures, corruptions>>

\* recover_corrupt_v2_detailed: first the copy, ...
Copy(p) ==
  /\ At(p, "locked") /\ op[p] = "recover"
  /\ IF v2.kind = "corrupt"
     THEN evidence' = TRUE /\ Goto(p, "reset") /\ UNCHANGED lock
     ELSE Release(p) /\ UNCHANGED evidence
  /\ UNCHANGED <<packs, files, op, choice, seen, projecting, failures, corruptions>>

\* ... then the reset to Unset with generation 1.
Reset(p) ==
  /\ At(p, "reset")
  /\ v2' = [Unset(AutoPin) EXCEPT !.generation = 1]
  /\ projecting' = TRUE
  /\ Goto(p, "config")
  /\ UNCHANGED <<packs, config, pointer, evidence, lock, op, choice, seen, failures, corruptions>>

\* Faulty variant: the document is saved as it was read.
ProjectedStale(p) == [model |-> seen[p].model, pin |-> seen[p].pin]

\* save_config_document_preserving_v2_selection: the record wins.
Projected(p) ==
  IF v2.kind \in Records THEN [model |-> v2.model, pin |-> v2.pin]
  ELSE [model |-> seen[p].model, pin |-> seen[p].pin]

SaveConfig(p) ==
  /\ At(p, "locked") /\ op[p] = "saveConfig"
  /\ config' = IF v2.kind = "corrupt" THEN config ELSE Projected(p)
  /\ Release(p)
  /\ UNCHANGED <<packs, pointer, v2, evidence, op, choice, seen, projecting, failures, corruptions>>

\* The projections of the record in hand: config.json first, an unset record
\* without its preference, ...
ProjectConfig(p) ==
  /\ At(p, "config")
  /\ config' = [model |-> choice[p].model, pin |-> IF choice[p].kind = "unset" THEN AutoPin ELSE choice[p].pin]
  /\ Goto(p, "pointer")
  /\ UNCHANGED <<packs, pointer, v2, evidence, lock, op, choice, seen, projecting, failures, corruptions>>

\* A repair points only at what is installed.
PointerFor(p) ==
  IF op[p] \in {"persist", "reconcile"} \/ choice[p].pack \in packs THEN choice[p].pack ELSE None

\* ... then default.json.
ProjectPointer(p) ==
  /\ At(p, "pointer")
  /\ pointer' = PointerFor(p)
  /\ projecting' = FALSE
  /\ Release(p)
  /\ UNCHANGED <<packs, config, v2, evidence, op, choice, seen, failures, corruptions>>

\* The process dies; the kernel frees its lock.
Crash(p) ==
  /\ lock = p
  /\ Release(p)
  /\ UNCHANGED <<packs, files, evidence, op, choice, seen, projecting, failures, corruptions>>

-----------------------------------------------------------------------------
(* The rest of the world                                                    *)

Install(x) ==
  /\ x \notin packs /\ packs' = packs \cup {x}
  /\ UNCHANGED <<files, evidence, lock, op, phase, choice, seen, projecting, failures, corruptions>>

Remove(x) ==
  /\ x \in packs /\ packs' = packs \ {x}
  /\ UNCHANGED <<files, evidence, lock, op, phase, choice, seen, projecting, failures, corruptions>>

\* The file is damaged, or written by another version: read_v2 refuses it.
Damage ==
  /\ v2.kind \in Records
  /\ corruptions < MaxCorruptions /\ corruptions' = corruptions + 1
  /\ v2' = [Unset(AutoPin) EXCEPT !.kind = "corrupt"] /\ evidence' = FALSE
  /\ UNCHANGED <<packs, config, pointer, lock, op, phase, choice, seen, projecting, failures>>

Next ==
  \/ \E p \in Processes :
       \/ Operate(p) \/ Observe(p) \/ Match(p) \/ LoadConfig(p)
       \/ LockLooked(p) \/ WriteFails(p) \/ Commit(p) \/ Migrate(p) \/ Repair(p) \/ Copy(p)
       \/ Reset(p) \/ SaveConfig(p) \/ ProjectConfig(p) \/ ProjectPointer(p) \/ Crash(p)
  \/ \E x \in Packs : Install(x) \/ Remove(x)
  \/ Damage

Spec == Init /\ [][Next]_vars

-----------------------------------------------------------------------------
(* Properties                                                               *)

Stored == [model : Models \cup {None}, pin : Pins, kind : {"missing", "corrupt"} \cup Records,
           generation : Nat, pack : Packs \cup {None}]

TypeOK ==
  /\ packs \subseteq Packs
  /\ config \in [model : Models \cup {None}, pin : Pins]
  /\ pointer \in Packs \cup {None}
  /\ v2 \in Stored
  /\ evidence \in BOOLEAN
  /\ lock \in Processes \cup {None}
  /\ op \in [Processes -> {"none", "persist", "reconcile", "clear", "migrate", "repair", "recover", "saveConfig"}]
  /\ phase \in [Processes -> {"new", "observed", "looked", "locked", "reset", "config", "pointer", "done"}]
  /\ choice \in [Processes -> Stored] /\ seen \in [Processes -> Stored]
  /\ projecting \in BOOLEAN
  /\ failures \in 0..MaxFailures /\ corruptions \in 0..MaxCorruptions

\* Old files that do not belong together, under a pinned quant.
PinnedDrift == config.pin # AutoPin /\ pointer # None /\ pointer.model # LegacyModel

\* What the default resolves to changes with the installed packs and with the
\* commit of an explicit choice, and never by a migration, a repair, a config
\* update, a projection or a crash between two of them.
SelectionStable ==
  [][\/ Resolve' = Resolve
     \/ packs' # packs
     \/ corruptions' # corruptions
     \/ \E p \in Processes : phase[p] # "config" /\ phase'[p] = "config" /\ op[p] \in {"persist", "reconcile", "clear", "recover"}
     \/ v2.kind = "missing" /\ PinnedDrift]_vars

\* "another process cannot have its newer model choice overwritten by boot":
\* reconciliation replaces the very record it observed.
BootKeepsNewerChoice ==
  [][\A p \in Processes :
       op[p] = "reconcile" /\ phase[p] = "locked" /\ phase'[p] = "config" /\ corruptions = 0
         => v2 = seen[p]]_vars

\* A damaged record is replaced only when a copy of it has been kept: no writer
\* but recovery gets past it.
DamageIsKept == [][v2.kind = "corrupt" /\ v2' # v2 => evidence]_vars

\* Once an operation has run to its end, older clients that read only the
\* projections find the record's model with its preference, and its pack or
\* none, never another one.
ProjectionsAgree ==
  v2.kind \in Records /\ ~projecting
    => /\ config.model = v2.model
       /\ v2.kind = "unset" \/ config.pin = v2.pin
       /\ pointer \in {v2.pack, None}
=============================================================================
