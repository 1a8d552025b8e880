--------------------------- MODULE SyncExclusion ---------------------------
(***************************************************************************)
(* What the write gate of the leader promises, without mutex, condition    *)
(* variable, map or clock: client writes and protected synchronisations    *)
(* exclude each other.  A synchronisation may lose its protection before   *)
(* it ends (Release), and one whose lease has outlived its time to live is *)
(* overdue; a write is admitted only when every protected synchronisation  *)
(* is overdue, and its admission ends the protection of all of them.       *)
(***************************************************************************)
CONSTANTS Writers, Syncs

VARIABLES
  active,     \* writes between the gate and their end
  protected,  \* synchronisations no write may run beside
  overdue     \* protected synchronisations whose lease has expired

vars == <<active, protected, overdue>>

Init == active = {} /\ protected = {} /\ overdue = {}

Admit(w) ==
  /\ w \notin active
  /\ protected = overdue
  /\ active' = active \union {w}
  /\ protected' = {}
  /\ overdue' = {}

Finish(w) ==
  /\ w \in active
  /\ active' = active \ {w}
  /\ UNCHANGED <<protected, overdue>>

\* A synchronisation is protected from the moment the last write has ended.
Protect(s) ==
  /\ active = {}
  /\ protected' = protected \union {s}
  /\ overdue' \subseteq overdue \union {s}
  /\ UNCHANGED active

Release(S) ==
  /\ S # {}
  /\ protected' = protected \ S
  /\ overdue' = overdue \ S
  /\ UNCHANGED active

\* Leases grow old and are refreshed.
Age ==
  /\ overdue' \in SUBSET protected
  /\ UNCHANGED <<active, protected>>

Next ==
  \/ \E w \in Writers : Admit(w) \/ Finish(w)
  \/ \E s \in Syncs : Protect(s)
  \/ \E S \in SUBSET Syncs : Release(S)
  \/ Age

Spec == Init /\ [][Next]_vars
============================================================================
