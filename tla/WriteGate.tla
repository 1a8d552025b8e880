----------------------------- MODULE WriteGate -----------------------------
(***************************************************************************)
(* The write gate of the leader (internal/application/s3app/service.go):   *)
(* client writes (PutObject and DeleteObject, which share the code) pass   *)
(* it, replica synchronisations close it.  One mutex (syncMutex) makes     *)
(* every action below atomic; one condition variable (writeCond) serves    *)
(* both the writers that wait for the gate to open and the sync handlers   *)
(* that wait for the active writes to drain.                               *)
(*                                                                         *)
(* A sync lease is an entry of the map syncingNodes, keyed by node, and    *)
(* not by handler; it blocks writes until it is LeaseTTL old, and only a   *)
(* writer that evaluates the gate removes it after that.  Two kinds of     *)
(* handlers take leases: /internal/sync-request (HandleSyncRequest, the    *)
(* leader drives the synchronisation and ends the lease itself) and the    *)
(* older endpoints /internal/sync-start, -heartbeat and -done (RemoteSyncs:*)
(* the follower drives and may disappear), which are still served.         *)
(***************************************************************************)
EXTENDS Integers, FiniteSets

CONSTANTS
  Writers,      \* client write requests
  Syncs,        \* sync handlers
  RemoteSyncs,  \* the handlers of /internal/sync-start among them
  NodeIDs,      \* nodes that ask to be synchronised
  NodeOf,       \* the node a handler works for
  LeaseTTL      \* 30 * time.Second in isWritesBlockedLocked

ASSUME GateAssumption ==
  /\ IsFiniteSet(Writers)
  /\ RemoteSyncs \subseteq Syncs
  /\ NodeOf \in [Syncs -> NodeIDs]
  /\ LeaseTTL \in Nat

VARIABLES
  behavior,      \* writeBlockBehavior: "wait" or "reject"; fixed at start
  leased,        \* the keys of syncingNodes
  age,           \* how long ago a lease was started or refreshed
  activeWrites,  \* activeWrites
  wpc,           \* writers: "idle", "gate" (runnable), "parked", "writing"
  spc,           \* handlers: "idle", "drain" (runnable), "parked", "syncing"
  gauge,         \* metrics sync_lease_active and writes_blocked
  unbroken       \* history: handlers whose node's lease was never removed
                 \* since they started it

vars == <<behavior, leased, age, activeWrites, wpc, spc, gauge, unbroken>>

----------------------------------------------------------------------------

Expired == {n \in leased : age[n] > LeaseTTL}
SyncsOf(N) == {s \in Syncs : NodeOf[s] \in N}

\* delete(syncingNodes, n) for every n in N.
Drop(N) ==
  /\ leased' = leased \ N
  /\ age' = [n \in NodeIDs |-> IF n \in N THEN 0 ELSE age[n]]
  /\ unbroken' = unbroken \ SyncsOf(N)

\* writeCond.Broadcast() makes every parked goroutine runnable.
MutWokenWriters == wpc
WokenWriters == [w \in Writers |-> IF wpc[w] = "parked" THEN "gate" ELSE wpc[w]]
WokenSyncs == [s \in Syncs |-> IF spc[s] = "parked" THEN "drain" ELSE spc[s]]

Init ==
  /\ behavior \in {"wait", "reject"}
  /\ leased = {}
  /\ age = [n \in NodeIDs |-> 0]
  /\ activeWrites = 0
  /\ wpc = [w \in Writers |-> "idle"]
  /\ spc = [s \in Syncs |-> "idle"]
  /\ gauge = FALSE
  /\ unbroken = {}

\* A client write reaches the gate.
Arrive(w) ==
  /\ wpc[w] = "idle"
  /\ wpc' = [wpc EXCEPT ![w] = "gate"]
  /\ UNCHANGED <<behavior, leased, age, activeWrites, spc, gauge, unbroken>>

\* isWritesBlockedLocked: drop what has expired, wake everybody if anything
\* had; the gate is open when no lease is left.
PurgeExpired ==
  /\ Drop(Expired)
  /\ gauge' = IF Expired # {} /\ leased = Expired THEN FALSE ELSE gauge
  /\ spc' = IF Expired # {} THEN WokenSyncs ELSE spc

WritersAfterPurge == IF Expired # {} THEN WokenWriters ELSE wpc

MutAdmit(w) ==
  /\ wpc[w] = "gate"
  /\ leased \ Expired = {} \/ Expired # {}
  /\ PurgeExpired
  /\ activeWrites' = activeWrites + 1
  /\ wpc' = [WritersAfterPurge EXCEPT ![w] = "writing"]
  /\ UNCHANGED behavior

Admit(w) ==
  /\ wpc[w] = "gate"
  /\ leased \ Expired = {}
  /\ PurgeExpired
  /\ activeWrites' = activeWrites + 1
  /\ wpc' = [WritersAfterPurge EXCEPT ![w] = "writing"]
  /\ UNCHANGED behavior

\* Blocked: writeCond.Wait(), or ServiceUnavailable.
Park(w) ==
  /\ wpc[w] = "gate"
  /\ leased \ Expired # {}
  /\ behavior = "wait"
  /\ PurgeExpired
  /\ wpc' = [WritersAfterPurge EXCEPT ![w] = "parked"]
  /\ UNCHANGED <<behavior, activeWrites>>

MutReject(w) ==
  /\ wpc[w] = "gate"
  /\ leased \ Expired # {}
  /\ behavior = "reject"
  /\ PurgeExpired
  /\ wpc' = [WritersAfterPurge EXCEPT ![w] = "idle"]
  /\ activeWrites' = activeWrites - 1
  /\ UNCHANGED behavior

Reject(w) ==
  /\ wpc[w] = "gate"
  /\ leased \ Expired # {}
  /\ behavior = "reject"
  /\ PurgeExpired
  /\ wpc' = [WritersAfterPurge EXCEPT ![w] = "idle"]
  /\ UNCHANGED <<behavior, activeWrites>>

\* The deferred exit of PutObject and DeleteObject, on every return path.
MutFinishWrite(w) ==
  /\ wpc[w] = "writing"
  /\ wpc' = [wpc EXCEPT ![w] = "idle"]
  /\ spc' = WokenSyncs
  /\ UNCHANGED <<behavior, leased, age, activeWrites, gauge, unbroken>>

FinishWrite(w) ==
  /\ wpc[w] = "writing"
  /\ activeWrites' = activeWrites - 1
  /\ wpc' = [WokenWriters EXCEPT ![w] = "idle"]
  /\ spc' = WokenSyncs
  /\ UNCHANGED <<behavior, leased, age, gauge, unbroken>>

\* StartSyncLease up to the first test of activeWrites: the lease is in the
\* map before the writes are drained.
MutDrained(s) ==
  /\ spc' = [spc EXCEPT ![s] = "syncing"]
  /\ gauge' = TRUE

Drained(s) ==
  /\ spc' = [spc EXCEPT ![s] = IF activeWrites > 0 THEN "parked" ELSE "syncing"]
  /\ gauge' = (gauge \/ activeWrites = 0)

StartSyncLease(s) ==
  /\ spc[s] = "idle"
  /\ leased' = leased \union {NodeOf[s]}
  /\ age' = [age EXCEPT ![NodeOf[s]] = 0]
  /\ unbroken' = unbroken \union {s}
  /\ Drained(s)
  /\ UNCHANGED <<behavior, activeWrites, wpc>>

\* The loop of StartSyncLease after a wake-up.
DrainCheck(s) ==
  /\ spc[s] = "drain"
  /\ Drained(s)
  /\ UNCHANGED <<behavior, leased, age, activeWrites, wpc, unbroken>>

\* EndSyncLease: deferred by HandleSyncRequest whatever the outcome of the
\* synchronisation, called by /internal/sync-done for a remote one.
EndSyncLease(s) ==
  /\ spc[s] = "syncing"
  /\ Drop({NodeOf[s]})
  /\ wpc' = WokenWriters
  /\ spc' = [WokenSyncs EXCEPT ![s] = "idle"]
  /\ gauge' = IF leased \ {NodeOf[s]} = {} THEN FALSE ELSE gauge
  /\ UNCHANGED <<behavior, activeWrites>>

\* HeartbeatSyncLease: refreshes the lease, or creates it again.
HeartbeatSyncLease(s) ==
  /\ s \in RemoteSyncs
  /\ leased' = leased \union {NodeOf[s]}
  /\ age' = [age EXCEPT ![NodeOf[s]] = 0]
  /\ UNCHANGED <<behavior, activeWrites, wpc, spc, gauge, unbroken>>

\* The follower behind a remote synchronisation goes away: no call ends the
\* lease.
RemoteVanishes(s) ==
  /\ s \in RemoteSyncs
  /\ spc[s] = "syncing"
  /\ spc' = [spc EXCEPT ![s] = "idle"]
  /\ unbroken' = unbroken \ {s}
  /\ UNCHANGED <<behavior, leased, age, activeWrites, wpc, gauge>>

\* Time passes; an age beyond LeaseTTL is as good as any other.
Tick ==
  /\ \E n \in leased : age[n] <= LeaseTTL
  /\ age' = [n \in NodeIDs |->
               IF n \in leased /\ age[n] <= LeaseTTL THEN age[n] + 1 ELSE age[n]]
  /\ UNCHANGED <<behavior, leased, activeWrites, wpc, spc, gauge, unbroken>>

Write(w) == Admit(w) \/ Park(w) \/ Reject(w)

Next ==
  \/ \E w \in Writers : Arrive(w) \/ Write(w) \/ FinishWrite(w)
  \/ \E s \in Syncs : \/ StartSyncLease(s) \/ DrainCheck(s) \/ EndSyncLease(s)
                      \/ HeartbeatSyncLease(s) \/ RemoteVanishes(s)
  \/ Tick

Spec == Init /\ [][Next]_vars

\* Runnable goroutines get the mutex, and a synchronisation the leader drives
\* ends (every call it makes has a timeout).  Nothing forces clients or
\* followers to come, a remote synchronisation to end, or an admitted write to
\* end: PutObject reads the client's body inside the gate, and the server has
\* no read timeout.
Fairness ==
  /\ \A w \in Writers : WF_vars(Write(w))
  /\ \A s \in Syncs : WF_vars(DrainCheck(s))
  /\ \A s \in Syncs \ RemoteSyncs : WF_vars(EndSyncLease(s))

FairSpec == Spec /\ Fairness

----------------------------------------------------------------------------

\* Type correctness of the gate.
TypeOK ==
  /\ behavior \in {"wait", "reject"}
  /\ leased \subseteq NodeIDs
  /\ age \in [NodeIDs -> 0..LeaseTTL + 1]
  /\ activeWrites \in Nat
  /\ wpc \in [Writers -> {"idle", "gate", "parked", "writing"}]
  /\ spc \in [Syncs -> {"idle", "drain", "parked", "syncing"}]
  /\ gauge \in BOOLEAN
  /\ unbroken \subseteq Syncs

Writing == {w \in Writers : wpc[w] = "writing"}
Protected == {s \in unbroken : spc[s] = "syncing"}

\* activeWrites counts exactly the writes between the gate and their deferred
\* exit, so a drain can neither miss a write nor wait for one that has ended.
ActiveWritesExact == activeWrites = Cardinality(Writing)

\* While a synchronisation runs under a lease that was neither expired nor
\* ended by anyone, no client write is active on the leader.
ProtectedSyncExcludesWrites == Protected # {} => Writing = {}

\* Nobody sleeps on writeCond without a cause that will end in a Broadcast: a
\* parked writer has a lease to wait for, a parked drain an active write.
NoLostWakeup ==
  /\ \A w \in Writers : wpc[w] = "parked" => leased # {}
  /\ \A s \in Syncs : spc[s] = "parked" => activeWrites > 0

\* In "wait" mode a write that waits for the gate is woken again, whatever
\* mixture of drains, expiries and ends of leases it waits behind.  What can
\* hold it is a remote synchronisation, which nothing forces to end, and a
\* client that never sends the rest of its body: its write stays active, the
\* drain waits for it, and everybody else waits for the drain.
ParkedWriterWakes ==
  \A w \in Writers : wpc[w] = "parked" ~>
    \/ wpc[w] # "parked"
    \/ \E s \in RemoteSyncs : NodeOf[s] \in leased
    \/ \E v \in Writers : [](wpc[v] = "writing")

\* The gate implements the mutual exclusion of SyncExclusion.
Exclusion == INSTANCE SyncExclusion
               WITH active <- Writing,
                    protected <- Protected,
                    overdue <- Protected \intersect SyncsOf(Expired)
ImplementsExclusion == Exclusion!Spec
============================================================================
