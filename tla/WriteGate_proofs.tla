-------------------------- MODULE WriteGate_proofs --------------------------
(***************************************************************************)
(* Proofs about WriteGate, for every number of writers, handlers and nodes *)
(* and every time to live.  The inductive invariant GateInv joins the type *)
(* invariant, the exact count of active writes, the absence of lost        *)
(* wake-ups and the exclusion of writes with LeaseOfUnbroken: a handler    *)
(* whose lease was never removed still has it in the map.  The count is    *)
(* needed for the type of activeWrites and for the drain, LeaseOfUnbroken  *)
(* for the exclusion.                                                      *)
(***************************************************************************)
EXTENDS WriteGate, FiniteSetTheorems, TLAPS

LeaseOfUnbroken ==
  \A s \in unbroken : NodeOf[s] \in leased

GateInv ==
  /\ TypeOK
  /\ ActiveWritesExact
  /\ LeaseOfUnbroken
  /\ ProtectedSyncExcludesWrites
  /\ NoLostWakeup

----------------------------------------------------------------------------

\* The set of active writes is finite, and the counter is zero exactly when
\* it is empty.
LEMMA CountZero ==
  ASSUME ActiveWritesExact
  PROVE  IsFiniteSet(Writing) /\ (activeWrites = 0 <=> Writing = {})
<1>1. IsFiniteSet(Writing)
  BY GateAssumption, FS_Subset DEF Writing
<1>. QED
  BY <1>1, FS_EmptySet DEF ActiveWritesExact

\* A purge removes expired leases only and puts nobody to sleep.
LEMMA PurgeEffect ==
  ASSUME TypeOK, PurgeExpired
  PROVE  /\ leased' = leased \ Expired
         /\ age' \in [NodeIDs -> 0..LeaseTTL + 1]
         /\ unbroken' = unbroken \ SyncsOf(Expired)
         /\ gauge' \in BOOLEAN
         /\ spc' \in [Syncs -> {"idle", "drain", "parked", "syncing"}]
         /\ \A s \in Syncs : spc'[s] = "syncing" <=> spc[s] = "syncing"
         /\ \A s \in Syncs : spc'[s] = "parked" => spc[s] = "parked"
<1>1. /\ leased' = leased \ Expired
      /\ age' \in [NodeIDs -> 0..LeaseTTL + 1]
      /\ unbroken' = unbroken \ SyncsOf(Expired)
  BY GateAssumption DEF PurgeExpired, Drop, TypeOK
<1>2. gauge' \in BOOLEAN
  BY Zenon DEF PurgeExpired, TypeOK
<1>3. /\ spc' \in [Syncs -> {"idle", "drain", "parked", "syncing"}]
      /\ \A s \in Syncs : spc'[s] = "syncing" <=> spc[s] = "syncing"
      /\ \A s \in Syncs : spc'[s] = "parked" => spc[s] = "parked"
  BY DEF PurgeExpired, WokenSyncs, TypeOK
<1>. QED
  BY <1>1, <1>2, <1>3

\* What a purge does to the other writers.
LEMMA WritersEffect ==
  ASSUME TypeOK
  PROVE  /\ WritersAfterPurge \in [Writers -> {"idle", "gate", "parked", "writing"}]
         /\ \A w \in Writers : WritersAfterPurge[w] = "writing" <=> wpc[w] = "writing"
         /\ \A w \in Writers : WritersAfterPurge[w] = "parked"
              => wpc[w] = "parked" /\ Expired = {}
  BY DEF WritersAfterPurge, WokenWriters, TypeOK

\* The leases of unbroken handlers survive a purge.
LEMMA PurgeKeepsUnbroken ==
  ASSUME TypeOK, LeaseOfUnbroken
  PROVE  \A s \in unbroken \ SyncsOf(Expired) : NodeOf[s] \in leased \ Expired
  BY GateAssumption DEF TypeOK, LeaseOfUnbroken, SyncsOf

\* Every step of a writer at the gate preserves the invariant.
LEMMA AdmitStep == ASSUME GateInv, NEW w \in Writers, Admit(w) PROVE GateInv'
<1> USE DEF GateInv
<1>1. /\ PurgeExpired
      /\ leased \ Expired = {}
      /\ wpc[w] = "gate"
      /\ activeWrites' = activeWrites + 1
      /\ wpc' = [WritersAfterPurge EXCEPT ![w] = "writing"]
      /\ behavior' = behavior
  BY DEF Admit
<1>2. TypeOK'
  BY <1>1, PurgeEffect, WritersEffect DEF TypeOK
<1>3. Writing' = Writing \union {w} /\ w \notin Writing
  BY <1>1, WritersEffect DEF Writing
<1>4. ActiveWritesExact'
  BY <1>1, <1>3, CountZero, FS_AddElement DEF ActiveWritesExact
<1>5. unbroken' = {}
  BY <1>1, PurgeEffect, PurgeKeepsUnbroken
<1>6. LeaseOfUnbroken' /\ ProtectedSyncExcludesWrites'
  BY <1>5 DEF LeaseOfUnbroken, ProtectedSyncExcludesWrites, Protected
<1>7. \A v \in Writers : wpc'[v] = "parked" => leased' # {}
  <2> SUFFICES ASSUME NEW v \in Writers, wpc'[v] = "parked" PROVE FALSE
    OBVIOUS
  <2>1. wpc[v] = "parked" /\ Expired = {}
    BY <1>1, WritersEffect
  <2>. QED
    BY <1>1, <2>1 DEF NoLostWakeup
<1>8. \A s \in Syncs : spc'[s] = "parked" => activeWrites' > 0
  BY <1>1 DEF TypeOK
<1>. QED
  BY <1>2, <1>4, <1>6, <1>7, <1>8 DEF NoLostWakeup

LEMMA BlockedStep ==
  ASSUME GateInv, NEW w \in Writers, Park(w) \/ Reject(w) PROVE GateInv'
<1> USE DEF GateInv
<1>1. PICK p \in {"parked", "idle"} :
        /\ PurgeExpired
        /\ leased \ Expired # {}
        /\ wpc[w] = "gate"
        /\ wpc' = [WritersAfterPurge EXCEPT ![w] = p]
        /\ UNCHANGED <<behavior, activeWrites>>
  BY DEF Park, Reject
<1>2. TypeOK'
  BY <1>1, PurgeEffect, WritersEffect DEF TypeOK
<1>3. Writing' = Writing
  BY <1>1, WritersEffect DEF Writing
<1>4. ActiveWritesExact'
  BY <1>1, <1>3 DEF ActiveWritesExact
<1>5. LeaseOfUnbroken'
  BY <1>1, PurgeEffect, PurgeKeepsUnbroken DEF LeaseOfUnbroken
<1>6. ProtectedSyncExcludesWrites'
  BY <1>1, <1>3, PurgeEffect DEF ProtectedSyncExcludesWrites, Protected, TypeOK
<1>7. NoLostWakeup'
  BY <1>1, PurgeEffect DEF NoLostWakeup
<1>. QED
  BY <1>2, <1>4, <1>5, <1>6, <1>7

LEMMA FinishStep == ASSUME GateInv, NEW w \in Writers, FinishWrite(w) PROVE GateInv'
<1> USE DEF GateInv
<1>1. /\ wpc[w] = "writing"
      /\ activeWrites' = activeWrites - 1
      /\ wpc' = [WokenWriters EXCEPT ![w] = "idle"]
      /\ spc' = WokenSyncs
      /\ UNCHANGED <<behavior, leased, age, gauge, unbroken>>
  BY DEF FinishWrite
<1>2. /\ wpc' \in [Writers -> {"idle", "gate", "parked", "writing"}]
      /\ spc' \in [Syncs -> {"idle", "drain", "parked", "syncing"}]
      /\ \A v \in Writers : wpc'[v] # "parked"
      /\ \A s \in Syncs : spc'[s] # "parked" /\ (spc'[s] = "syncing" <=> spc[s] = "syncing")
  BY <1>1 DEF TypeOK, WokenWriters, WokenSyncs
<1>3. Writing' = Writing \ {w} /\ w \in Writing
  BY <1>1 DEF Writing, WokenWriters, TypeOK
<1>4. ActiveWritesExact'
  BY <1>1, <1>3, CountZero, FS_RemoveElement DEF ActiveWritesExact
<1>5. activeWrites' \in Nat
  BY <1>1, <1>3, CountZero DEF TypeOK
<1>6. TypeOK'
  BY <1>1, <1>2, <1>5 DEF TypeOK
<1>7. LeaseOfUnbroken' /\ ProtectedSyncExcludesWrites'
  BY <1>1, <1>2, <1>3
     DEF LeaseOfUnbroken, ProtectedSyncExcludesWrites, Protected, TypeOK
<1>. QED
  BY <1>2, <1>4, <1>6, <1>7 DEF NoLostWakeup

\* A handler that finds no active write starts to synchronise; any other
\* sleeps until a write ends.
LEMMA DrainedEffect ==
  ASSUME TypeOK, NEW s \in Syncs, Drained(s)
  PROVE  /\ spc' \in [Syncs -> {"idle", "drain", "parked", "syncing"}]
         /\ gauge' \in BOOLEAN
         /\ \A t \in Syncs : t # s => spc'[t] = spc[t]
         /\ spc'[s] = "syncing" <=> activeWrites = 0
         /\ spc'[s] = "parked" <=> activeWrites > 0
<1>1. gauge' \in BOOLEAN
  BY Zenon DEF Drained
<1>. QED
  BY <1>1 DEF Drained, TypeOK

LEMMA DrainStep ==
  ASSUME GateInv, NEW s \in Syncs, StartSyncLease(s) \/ DrainCheck(s)
  PROVE  GateInv'
<1> USE DEF GateInv
<1>1. /\ Drained(s)
      /\ leased \subseteq leased' /\ leased' \subseteq NodeIDs
      /\ age' \in [NodeIDs -> 0..LeaseTTL + 1]
      /\ unbroken \subseteq unbroken' /\ unbroken' \subseteq unbroken \union {s}
      /\ s \in unbroken' => s \in unbroken \/ NodeOf[s] \in leased'
      /\ UNCHANGED <<behavior, activeWrites, wpc>>
  BY GateAssumption DEF StartSyncLease, DrainCheck, TypeOK
<1>2. TypeOK'
  BY <1>1, DrainedEffect DEF TypeOK
<1>3. Writing' = Writing
  BY <1>1 DEF Writing
<1>4. ActiveWritesExact'
  BY <1>1, <1>3 DEF ActiveWritesExact
<1>5. LeaseOfUnbroken'
  BY <1>1 DEF LeaseOfUnbroken
<1>6. ProtectedSyncExcludesWrites'
  <2> SUFFICES ASSUME NEW t \in Protected' PROVE Writing = {}
    BY <1>3 DEF ProtectedSyncExcludesWrites
  <2>1. t \in Syncs /\ spc'[t] = "syncing" /\ t \in unbroken'
    BY <1>2 DEF Protected, TypeOK
  <2>2. CASE t = s
    BY <1>1, <2>1, <2>2, DrainedEffect, CountZero
  <2>3. CASE t # s
    BY <1>1, <2>1, <2>3, DrainedEffect DEF ProtectedSyncExcludesWrites, Protected
  <2>. QED
    BY <2>2, <2>3
<1>7. NoLostWakeup'
  <2>1. \A w \in Writers : wpc'[w] = "parked" => leased' # {}
    BY <1>1 DEF NoLostWakeup
  <2>2. \A t \in Syncs : spc'[t] = "parked" => activeWrites' > 0
    BY <1>1, DrainedEffect DEF NoLostWakeup
  <2>. QED
    BY <2>1, <2>2 DEF NoLostWakeup
<1>. QED
  BY <1>2, <1>4, <1>5, <1>6, <1>7

LEMMA EndStep == ASSUME GateInv, NEW s \in Syncs, EndSyncLease(s) PROVE GateInv'
<1> USE DEF GateInv
<1>1. /\ spc[s] = "syncing"
      /\ leased' = leased \ {NodeOf[s]}
      /\ age' \in [NodeIDs -> 0..LeaseTTL + 1]
      /\ unbroken' = unbroken \ SyncsOf({NodeOf[s]})
      /\ wpc' = WokenWriters
      /\ spc' = [WokenSyncs EXCEPT ![s] = "idle"]
      /\ UNCHANGED <<behavior, activeWrites>>
  BY GateAssumption DEF EndSyncLease, Drop, TypeOK
<1>2. gauge' \in BOOLEAN
  BY Zenon DEF EndSyncLease, TypeOK
<1>3. /\ wpc' \in [Writers -> {"idle", "gate", "parked", "writing"}]
      /\ spc' \in [Syncs -> {"idle", "drain", "parked", "syncing"}]
      /\ \A v \in Writers : wpc'[v] # "parked" /\ (wpc'[v] = "writing" <=> wpc[v] = "writing")
      /\ \A t \in Syncs : spc'[t] # "parked" /\ (spc'[t] = "syncing" => spc[t] = "syncing")
  BY <1>1 DEF TypeOK, WokenWriters, WokenSyncs
<1>4. TypeOK'
  BY <1>1, <1>2, <1>3 DEF TypeOK
<1>5. Writing' = Writing
  BY <1>3 DEF Writing
<1>6. ActiveWritesExact'
  BY <1>1, <1>5 DEF ActiveWritesExact
<1>7. LeaseOfUnbroken'
  BY <1>1 DEF LeaseOfUnbroken, SyncsOf, TypeOK
<1>8. ProtectedSyncExcludesWrites'
  BY <1>1, <1>3, <1>5 DEF ProtectedSyncExcludesWrites, Protected, TypeOK
<1>. QED
  BY <1>3, <1>4, <1>6, <1>7, <1>8 DEF NoLostWakeup

\* The remaining steps neither admit nor end a write, nor put anyone to sleep.
LEMMA QuietStep ==
  ASSUME GateInv,
         \/ \E w \in Writers : Arrive(w)
         \/ \E s \in Syncs : HeartbeatSyncLease(s) \/ RemoteVanishes(s)
         \/ Tick
         \/ UNCHANGED vars
  PROVE  GateInv'
<1> USE DEF GateInv
<1>1. /\ leased \subseteq leased' /\ leased' \subseteq NodeIDs
      /\ age' \in [NodeIDs -> 0..LeaseTTL + 1]
      /\ unbroken' \subseteq unbroken
      /\ UNCHANGED <<behavior, activeWrites, gauge>>
  BY GateAssumption DEF Arrive, HeartbeatSyncLease, RemoteVanishes, Tick, vars, TypeOK
<1>2. /\ wpc' \in [Writers -> {"idle", "gate", "parked", "writing"}]
      /\ spc' \in [Syncs -> {"idle", "drain", "parked", "syncing"}]
      /\ \A v \in Writers : /\ wpc'[v] = "parked" => wpc[v] = "parked"
                            /\ wpc'[v] = "writing" <=> wpc[v] = "writing"
      /\ \A t \in Syncs : /\ spc'[t] = "parked" => spc[t] = "parked"
                          /\ spc'[t] = "syncing" => spc[t] = "syncing"
  BY DEF Arrive, HeartbeatSyncLease, RemoteVanishes, Tick, vars, TypeOK
<1>3. TypeOK'
  BY <1>1, <1>2 DEF TypeOK
<1>4. Writing' = Writing
  BY <1>2 DEF Writing
<1>5. ActiveWritesExact'
  BY <1>1, <1>4 DEF ActiveWritesExact
<1>6. LeaseOfUnbroken'
  BY <1>1 DEF LeaseOfUnbroken
<1>7. ProtectedSyncExcludesWrites'
  BY <1>1, <1>2, <1>4 DEF ProtectedSyncExcludesWrites, Protected, TypeOK
<1>8. NoLostWakeup'
  BY <1>1, <1>2 DEF NoLostWakeup
<1>. QED
  BY <1>3, <1>5, <1>6, <1>7, <1>8

\* The invariant of the gate holds throughout.
LEMMA GateInvariant == Spec => []GateInv
<1>1. Init => GateInv
  <2> SUFFICES ASSUME Init PROVE GateInv
    OBVIOUS
  <2>1. TypeOK
    <3>1. gauge \in BOOLEAN
      BY DEF Init
    <3>2. age \in [NodeIDs -> 0..LeaseTTL + 1] /\ activeWrites \in Nat
      BY GateAssumption DEF Init
    <3>. QED
      BY <3>1, <3>2, Zenon DEF Init, TypeOK
  <2>2. Writing = {}
    BY DEF Init, Writing
  <2>3. ActiveWritesExact
    BY <2>2, FS_EmptySet DEF Init, ActiveWritesExact
  <2>. QED
    BY <2>1, <2>3
       DEF Init, GateInv, LeaseOfUnbroken, ProtectedSyncExcludesWrites, Protected,
           NoLostWakeup
<1>2. GateInv /\ [Next]_vars => GateInv'
  BY AdmitStep, BlockedStep, FinishStep, DrainStep, EndStep, QuietStep DEF Next, Write
<1>. QED
  BY <1>1, <1>2, PTL DEF Spec

\* THEOREM: the variables of the gate keep their types; in particular
\* activeWrites never goes below zero.
THEOREM GateTypeCorrect == Spec => []TypeOK
  BY GateInvariant, PTL DEF GateInv

\* THEOREM: activeWrites always counts the writes past the gate.
THEOREM CountCorrect == Spec => []ActiveWritesExact
  BY GateInvariant, PTL DEF GateInv

\* THEOREM: no write is active beside a synchronisation whose lease was never
\* removed, for any number of writers, handlers and nodes.
THEOREM ExclusionHolds == Spec => []ProtectedSyncExcludesWrites
  BY GateInvariant, PTL DEF GateInv

\* THEOREM: nobody sleeps on writeCond without a lease or an active write.
THEOREM WakeupsHold == Spec => []NoLostWakeup
  BY GateInvariant, PTL DEF GateInv
----------------------------------------------------------------------------

Overdue == Protected \intersect SyncsOf(Expired)

\* Under the refinement mapping, each step of the gate is a step of
\* SyncExclusion or changes nothing there.
LEMMA RefineAdmit ==
  ASSUME GateInv, NEW w \in Writers, Admit(w) PROVE Exclusion!Next
<1> USE DEF GateInv
<1>1. /\ wpc[w] = "gate" /\ leased \ Expired = {} /\ PurgeExpired
      /\ wpc' = [WritersAfterPurge EXCEPT ![w] = "writing"]
  BY DEF Admit
<1>2. Writing' = Writing \union {w} /\ w \notin Writing
  BY <1>1, WritersEffect DEF Writing
<1>3. Protected = Overdue
  BY <1>1, GateAssumption DEF Overdue, Protected, SyncsOf, LeaseOfUnbroken, TypeOK
<1>4. Protected' = {}
  BY <1>1, PurgeEffect, PurgeKeepsUnbroken DEF Protected
<1>5. Overdue' = {}
  BY <1>4 DEF Overdue
<1>. QED
  BY <1>2, <1>3, <1>4, <1>5 DEF Exclusion!Next, Exclusion!Admit, Overdue

LEMMA RefineBlocked ==
  ASSUME GateInv, NEW w \in Writers, Park(w) \/ Reject(w) PROVE Exclusion!Next
<1> USE DEF GateInv
<1>1. PICK p \in {"parked", "idle"} :
        /\ PurgeExpired /\ wpc[w] = "gate"
        /\ wpc' = [WritersAfterPurge EXCEPT ![w] = p]
  BY DEF Park, Reject
<1>2. Writing' = Writing
  BY <1>1, WritersEffect DEF Writing
<1>3. Protected' = Protected \ SyncsOf(Expired)
  BY <1>1, PurgeEffect DEF Protected, TypeOK
<1>4. Expired' = {}
  BY <1>1 DEF PurgeExpired, Drop, Expired, TypeOK
<1>5. Overdue' = {} /\ Overdue \ SyncsOf(Expired) = {}
  BY <1>4 DEF Overdue, SyncsOf
<1>6. SyncsOf(Expired) \subseteq Syncs
  BY DEF SyncsOf
<1>7. CASE SyncsOf(Expired) # {}
  BY <1>2, <1>3, <1>5, <1>6, <1>7 DEF Exclusion!Next, Exclusion!Release, Overdue
<1>8. CASE SyncsOf(Expired) = {}
  BY <1>2, <1>3, <1>5, <1>8 DEF Exclusion!Next, Exclusion!Age, Overdue
<1>. QED
  BY <1>7, <1>8

LEMMA RefineFinish ==
  ASSUME GateInv, NEW w \in Writers, FinishWrite(w) PROVE Exclusion!Next
<1>1. /\ Writing' = Writing \ {w} /\ w \in Writing
  BY DEF FinishWrite, Writing, WokenWriters, GateInv, TypeOK
<1>2. Protected' = Protected
  BY DEF FinishWrite, Protected, WokenSyncs, GateInv, TypeOK
<1>3. Overdue' = Overdue
  BY <1>2 DEF FinishWrite, Overdue, Expired, SyncsOf
<1>. QED
  BY <1>1, <1>2, <1>3 DEF Exclusion!Next, Exclusion!Finish, Overdue

LEMMA RefineDrain ==
  ASSUME GateInv, NEW s \in Syncs, StartSyncLease(s) \/ DrainCheck(s)
  PROVE  Exclusion!Next
<1> USE DEF GateInv
<1>1. /\ Drained(s) /\ spc[s] # "syncing"
      /\ unbroken \subseteq unbroken' /\ unbroken' \subseteq unbroken \union {s}
      /\ unbroken' \subseteq Syncs
      /\ wpc' = wpc
  BY DEF StartSyncLease, DrainCheck, TypeOK
<1>2. Writing' = Writing
  BY <1>1 DEF Writing
<1>3. Expired' \subseteq Expired
  BY GateAssumption DEF StartSyncLease, DrainCheck, Expired, TypeOK
<1>4. Protected \subseteq Protected' /\ Protected' \subseteq Protected \union {s}
  BY <1>1, DrainedEffect DEF Protected, TypeOK
<1>5. Overdue' \subseteq Overdue \union {s}
  BY <1>3, <1>4 DEF Overdue, SyncsOf
<1>6. CASE s \in Protected'
  <2>1. Writing = {}
    BY <1>1, <1>6, DrainedEffect, CountZero DEF Protected
  <2>2. Protected' = Protected \union {s}
    BY <1>4, <1>6
  <2>. QED
    BY <1>2, <1>5, <2>1, <2>2 DEF Exclusion!Next, Exclusion!Protect, Overdue
<1>7. CASE s \notin Protected'
  <2>1. Protected' = Protected /\ Overdue' \in SUBSET Protected
    BY <1>4, <1>7 DEF Overdue
  <2>. QED
    BY <1>2, <2>1 DEF Exclusion!Next, Exclusion!Age, Overdue
<1>. QED
  BY <1>6, <1>7

LEMMA RefineEnd ==
  ASSUME GateInv, NEW s \in Syncs, EndSyncLease(s) PROVE Exclusion!Next
<1> USE DEF GateInv
<1> DEFINE S == SyncsOf({NodeOf[s]})
<1>1. Writing' = Writing
  BY DEF EndSyncLease, Writing, WokenWriters, TypeOK
<1>2. Protected' = Protected \ S
  BY DEF EndSyncLease, Drop, Protected, WokenSyncs, SyncsOf, TypeOK
<1>3. Expired' = Expired \ {NodeOf[s]}
  BY DEF EndSyncLease, Drop, Expired, TypeOK
<1>4. Overdue' = Overdue \ S
  BY <1>2, <1>3 DEF Overdue, SyncsOf
<1>5. s \in S /\ S \in SUBSET Syncs
  BY DEF SyncsOf
<1>. QED
  BY <1>1, <1>2, <1>4, <1>5 DEF Exclusion!Next, Exclusion!Release, Overdue

LEMMA RefineQuiet ==
  ASSUME GateInv,
         \/ \E w \in Writers : Arrive(w)
         \/ \E s \in Syncs : HeartbeatSyncLease(s)
         \/ Tick
         \/ UNCHANGED vars
  PROVE  Exclusion!Next
<1>1. Writing' = Writing
  BY DEF Arrive, HeartbeatSyncLease, Tick, vars, Writing, GateInv, TypeOK
<1>2. spc' = spc /\ unbroken' = unbroken
  BY DEF Arrive, HeartbeatSyncLease, Tick, vars
<1>3. Protected' = Protected
  BY <1>2 DEF Protected
<1>4. Overdue' \in SUBSET Protected
  BY <1>3 DEF Overdue
<1>. QED
  BY <1>1, <1>3, <1>4 DEF Exclusion!Next, Exclusion!Age, Overdue

LEMMA RefineVanish ==
  ASSUME GateInv, NEW s \in Syncs, RemoteVanishes(s) PROVE Exclusion!Next
<1>1. Writing' = Writing
  BY DEF RemoteVanishes, Writing
<1>2. Protected' = Protected \ {s}
  BY DEF RemoteVanishes, Protected, GateInv, TypeOK
<1>3. Overdue' = Overdue \ {s}
  BY <1>2 DEF RemoteVanishes, Overdue, Expired, SyncsOf
<1>4. {s} # {} /\ {s} \in SUBSET Syncs
  OBVIOUS
<1>. QED
  BY <1>1, <1>2, <1>3, <1>4 DEF Exclusion!Next, Exclusion!Release, Overdue

\* THEOREM: the write gate implements the exclusion of writes and protected
\* synchronisations.
THEOREM GateRefinesExclusion == Spec => ImplementsExclusion
<1>1. Init => Exclusion!Init
  BY DEF Init, Exclusion!Init, Writing, Protected
<1>2. GateInv /\ [Next]_vars => [Exclusion!Next]_(Exclusion!vars)
  BY RefineAdmit, RefineBlocked, RefineFinish, RefineDrain, RefineEnd, RefineQuiet,
     RefineVanish
     DEF Next, Write
<1>. QED
  BY <1>1, <1>2, GateInvariant, PTL DEF Spec, ImplementsExclusion, Exclusion!Spec
=============================================================================
