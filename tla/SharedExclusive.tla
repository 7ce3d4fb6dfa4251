--------------------------- MODULE SharedExclusive ---------------------------
(***************************************************************************)
(* What the daemon promises about a native runtime, without saying how:    *)
(* any number of users may hold it at once, or one owner may tear it down  *)
(* or replace it, and never both.  `IdleUnload` (the activity tracker and  *)
(* the idle reaper) and `Activation` (the activation barrier and the busy  *)
(* check) are each shown to implement this specification.                  *)
(***************************************************************************)
CONSTANT Users          \* whoever can hold the runtime: requests, sessions

VARIABLES users,        \* the users that hold the runtime now
          exclusive     \* TRUE while the runtime is torn down or replaced

sxVars == <<users, exclusive>>

SXInit == users = {} /\ exclusive = FALSE

Acquire(u) ==
  /\ ~exclusive
  /\ u \notin users
  /\ users' = users \cup {u}
  /\ UNCHANGED exclusive

Release(u) ==
  /\ u \in users
  /\ users' = users \ {u}
  /\ UNCHANGED exclusive

BeginExclusive ==
  /\ ~exclusive
  /\ users = {}
  /\ exclusive' = TRUE
  /\ UNCHANGED users

EndExclusive ==
  /\ exclusive
  /\ exclusive' = FALSE
  /\ UNCHANGED users

SXNext ==
  \/ \E u \in Users : Acquire(u) \/ Release(u)
  \/ BeginExclusive
  \/ EndExclusive

SXSpec == SXInit /\ [][SXNext]_sxVars
=============================================================================
