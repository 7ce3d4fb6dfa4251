--------------------------- MODULE ModelAdmission ---------------------------
(***************************************************************************)
(* The registry of native execution permits (openasr-server,               *)
(* model_admission.rs).  A model identity has an entry while somebody runs *)
(* it: a semaphore with `limit` permits and the set of occupied slot       *)
(* indices.  The entry is created by the first session, removed by the     *)
(* last one, and re-created later with a NEW semaphore, so a permit must   *)
(* never outlive the entry it came from.                                   *)
(*                                                                         *)
(* Each method holds the registry mutex from its first to its last access, *)
(* so one method is one step.  A semaphore object is named after the       *)
(* session whose try_acquire created it.                                   *)
(***************************************************************************)
EXTENDS Integers, FiniteSets

CONSTANTS
  Sessions,   \* callers of try_acquire; each asks once
  Models,     \* model identities
  Limit,      \* max_concurrent_sessions_per_model
  None

ASSUME LimitAssumption == Limit \in Nat \ {0}
ASSUME SessionsAssumption == IsFiniteSet(Sessions) /\ None \notin Sessions

VARIABLES
  semaphore,   \* [Models -> Sessions \cup {None}]: the entry's semaphore, None without entry
  occupied,    \* [Models -> SUBSET Nat]: the entry's occupied slot indices
  available,   \* [Sessions -> Nat]: permits left in each semaphore object
  state,       \* [Sessions -> {"new", "admitted", "rejected", "done"}]
  model,       \* [Sessions -> Models]: the identity asked for
  permit       \* [Sessions -> semaphore and slot index of its permit]

vars == <<semaphore, occupied, available, state, model, permit>>

NoPermit == [semaphore |-> None, slot_index |-> 0]
Holders(m) == {s \in Sessions : state[s] = "admitted" /\ model[s] = m}

Init ==
  /\ semaphore = [m \in Models |-> None]
  /\ occupied = [m \in Models |-> {}]
  /\ available = [s \in Sessions |-> 0]
  /\ state = [s \in Sessions |-> "new"]
  /\ model \in [Sessions -> Models]
  /\ permit = [s \in Sessions |-> NoPermit]

\* The scan over the ordered set stops at the first gap: the lowest free index.
LowestFree(taken) == CHOOSE i \in 0..Limit : i \notin taken /\ \A j \in 0..(i - 1) : j \in taken

\* The semaphore of m's entry, created by s when there is none.
EntrySemaphore(s, m) == IF semaphore[m] = None THEN s ELSE semaphore[m]
EntryAvailable(s, m) == IF semaphore[m] = None THEN Limit ELSE available[semaphore[m]]

\* try_acquire.  A full model is refused at once; nobody waits.  The entry
\* that `or_insert_with` creates always has a free permit.
TryAcquire(s) ==
  LET m == model[s] IN
  /\ state[s] = "new"
  /\ \/ /\ EntryAvailable(s, m) > 0
        /\ semaphore' = [semaphore EXCEPT ![m] = EntrySemaphore(s, m)]
        /\ available' = [available EXCEPT ![EntrySemaphore(s, m)] = EntryAvailable(s, m) - 1]
        /\ occupied' = [occupied EXCEPT ![m] = @ \cup {LowestFree(@)}]
        /\ permit' = [permit EXCEPT ![s] = [semaphore |-> EntrySemaphore(s, m),
                                            slot_index |-> LowestFree(occupied[m])]]
        /\ state' = [state EXCEPT ![s] = "admitted"]
     \/ /\ EntryAvailable(s, m) = 0
        /\ state' = [state EXCEPT ![s] = "rejected"]
        /\ UNCHANGED <<semaphore, occupied, available, permit>>
  /\ UNCHANGED model

\* Faulty variant: the entry goes with any permit.
RemoveAlways(m, rest) == TRUE

\* Whether the drop of a permit removes the entry.
ShouldRemove(m, rest) == semaphore[m] # None /\ rest = {}

\* Faulty variant: the slot index is freed, the permit is not.
Leaked(n) == n

Returned(n) == n + 1

\* Drop for ModelSessionPermit: index and permit are given back together.
\* The permit returns to its own semaphore object, in the map or not.
Drop(s) ==
  LET m == model[s]
      rest == occupied[m] \ {permit[s].slot_index}
  IN
  /\ state[s] = "admitted"
  /\ IF ShouldRemove(m, rest)
     THEN /\ semaphore' = [semaphore EXCEPT ![m] = None]
          /\ occupied' = [occupied EXCEPT ![m] = {}]
     ELSE /\ occupied' = [occupied EXCEPT ![m] = rest]
          /\ UNCHANGED semaphore
  /\ available' = [available EXCEPT ![permit[s].semaphore] = Returned(@)]
  /\ permit' = [permit EXCEPT ![s] = NoPermit]
  /\ state' = [state EXCEPT ![s] = "done"]
  /\ UNCHANGED model

Next == \E s \in Sessions : TryAcquire(s) \/ Drop(s)

Spec == Init /\ [][Next]_vars

\* has_active_sessions, read by native_rebind_blocked.
HasActiveSessions == \E m \in Models : semaphore[m] # None /\ occupied[m] # {}

-----------------------------------------------------------------------------
(* Properties                                                               *)

TypeOK ==
  /\ semaphore \in [Models -> Sessions \cup {None}]
  /\ occupied \in [Models -> SUBSET (0..(Limit - 1))]
  /\ available \in [Sessions -> 0..Limit]
  /\ state \in [Sessions -> {"new", "admitted", "rejected", "done"}]
  /\ model \in [Sessions -> Models]
  /\ permit \in [Sessions -> [semaphore : Sessions \cup {None}, slot_index : 0..(Limit - 1)]]

\* Streaming workers are keyed by slot index: two sessions of one model that
\* run at the same time never share one, through any sequence of entry
\* removals and re-creations.
SlotsAreDistinct ==
  \A m \in Models : \A s, t \in Holders(m) :
    s # t => permit[s].slot_index # permit[t].slot_index

\* A model never has more sessions than the limit, even right after its
\* entry was removed and created anew.
CapacityHolds == \A m \in Models : Cardinality(Holders(m)) <= Limit

\* The registry has an entry exactly for the models that are running, so model
\* switches cannot grow it, and has_active_sessions tells the truth.
RegistryIsExact ==
  /\ \A m \in Models : semaphore[m] # None <=> Holders(m) # {}
  /\ HasActiveSessions <=> \E m \in Models : Holders(m) # {}

\* A session is refused only when the model really runs `limit` sessions.
RefusedOnlyAtCapacity ==
  [][\A s \in Sessions : state[s] = "new" /\ state'[s] = "rejected"
       => Cardinality(Holders(model[s])) = Limit]_vars

\* Inductive strengthening: a permit comes from the semaphore that is in the
\* map, the occupied indices are exactly the held ones, and what the
\* semaphore has left is what the holders have not taken.
PermitInv ==
  \A m \in Models :
    /\ occupied[m] = {permit[s].slot_index : s \in Holders(m)}
    /\ Cardinality(occupied[m]) = Cardinality(Holders(m))
    /\ \A s \in Holders(m) : permit[s].semaphore = semaphore[m] /\ semaphore[m] # None
    /\ semaphore[m] # None =>
         /\ Holders(m) # {}
         /\ available[semaphore[m]] = Limit - Cardinality(Holders(m))
         /\ model[semaphore[m]] = m
         /\ state[semaphore[m]] \in {"admitted", "done"}

IInv == TypeOK /\ SlotsAreDistinct /\ PermitInv
=============================================================================
