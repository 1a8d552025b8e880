------------------------- MODULE Replication_proofs -------------------------
(***************************************************************************)
(* Proofs about Replication for any number of followers, handlers,         *)
(* transactions, keys and faults.                                          *)
(*                                                                         *)
(* Nothing is assumed of leases or calls: a lease may expire or be ended   *)
(* by a sibling handler, and what a caller has given up may still run.     *)
(* Agreement rests on three facts: a write that is admitted under a        *)
(* handler leaves its key in doubt on the handler's follower, what a       *)
(* handler has still to do is where the follower may differ, and a commit  *)
(* of the leader is owed by every follower alive until it is marked dead.  *)
(***************************************************************************)
EXTENDS Replication, TLAPS

LEMMA FaultsStep == TypeOK /\ [Next]_vars => faults' \in 0..MaxFaults
<1> SUFFICES ASSUME TypeOK, [Next]_vars PROVE faults' = faults \/ Fault
  BY ReplicationAssumption DEF TypeOK, Fault
<1>1. ASSUME NEW t \in Tx, TxNext(t) PROVE faults' = faults \/ Fault
  BY <1>1 DEF TxNext, Admit, Stage, StageFails, SendPrepares, AllPrepared, PrepareFailed,
              Refuse, CommitLocal, CommitLocalFails, SendCommits, Acknowledge, PrepareOK,
              PrepareFails, AbortCall, CommitOK, CommitFails, LateCommit
<1>2. ASSUME NEW f \in Followers, FollowerNext(f) PROVE faults' = faults \/ Fault
  BY <1>2 DEF FollowerNext, HeartbeatLost, ForceSync, LeaseExpires, RestartFollower, StrayLands
<1>3. ASSUME NEW h \in Syncs, SyncNext(h) PROVE faults' = faults \/ Fault
  BY <1>3 DEF SyncNext, StartSync, SyncGivenUp, Drained, CompareKeys, PushCommit,
              DeleteExtraneous, MarkAlive, EndSync, SyncAnswer, SyncFails, PushPrepare
<1>4. CASE (\E n \in Nodes, t \in Tx : Janitor(n, t)) \/ RestartLeader \/ UNCHANGED vars
  BY <1>4 DEF Janitor, RestartLeader, vars
<1> QED BY <1>1, <1>2, <1>3, <1>4 DEF Next

\* What the two ends of CommitTransaction leave.
LEMMA CommitTypes ==
  ASSUME TypeOK, NEW n \in Nodes, NEW t \in Tx, Commit(n, t) \/ TearCommit(n, t)
  PROVE  /\ store' \in [Nodes -> [Keys -> Contents]]
         /\ staged' \in [Nodes -> SUBSET Tx]
         /\ torn' \subseteq Nodes \X Keys
<1>0. KeyOf[t] \in Keys /\ ContentOf(t) \in Contents
  BY ReplicationAssumption DEF ContentOf, Contents
<1>1. Applied(n, t) \in [Nodes -> [Keys -> Contents]]
  BY <1>0 DEF Applied, TypeOK
<1>2. store' \in [Nodes -> [Keys -> Contents]]
  BY <1>1 DEF Commit, TearCommit, TypeOK
<1>3. staged' \in [Nodes -> SUBSET Tx]
  BY DEF Commit, TearCommit, Unstaged, TypeOK
<1>4. torn' \subseteq torn \union {<<n, KeyOf[t]>>}
  BY DEF Commit, TearCommit
<1>5. torn' \subseteq Nodes \X Keys
  BY <1>0, <1>4 DEF TypeOK
<1> QED BY <1>2, <1>3, <1>5

LEMMA StagedType ==
  ASSUME staged \in [Nodes -> SUBSET Tx], NEW n \in Nodes, NEW S \in SUBSET Tx,
         staged' = staged \/ staged' = [staged EXCEPT ![n] = S]
  PROVE  staged' \in [Nodes -> SUBSET Tx]
OBVIOUS

LEMMA TypeStep == TypeOK /\ [Next]_vars => TypeOK'
<1> SUFFICES ASSUME TypeOK, [Next]_vars PROVE TypeOK'
  OBVIOUS
<1>f. faults' \in 0..MaxFaults
  BY FaultsStep
<1> USE ReplicationAssumption, <1>f
        DEF TypeOK, Contents, Nodes, gateVars, nodeVars, memberVars, txVars, syncVars
<1>1. ASSUME NEW t \in Tx, TxNext(t) PROVE TypeOK'
  <2>0. KeyOf[t] \in Keys
    OBVIOUS
  <2>1. CASE Admit(t)
    <3>1. overlapped' \subseteq Keys
      BY <2>0, <2>1 DEF Admit
    <3>2. doubt' \subseteq Followers \X Keys
      BY <2>0, <2>1 DEF Admit
    <3> QED BY <2>1, <3>1, <3>2 DEF Admit
  <2>2. CASE Stage(t)
    <3>1. had' \subseteq Tx
      BY <2>2 DEF Stage
    <3>2. staged' \in [Nodes -> SUBSET Tx]
      BY <2>2 DEF Stage
    <3> QED BY <2>2, <3>1, <3>2 DEF Stage
  <2>13. CASE StageFails(t)
    BY <2>13 DEF StageFails
  <2>0a. AliveFollowers \subseteq Followers
    BY DEF AliveFollowers
  <2>3. CASE SendPrepares(t) \/ SendCommits(t)
    <3>1. pending' \in [Tx -> SUBSET Followers]
      BY <2>3, <2>0a DEF SendPrepares, SendCommits
    <3>2. /\ \E v \in {"preparing", "committing"} : pc' = [pc EXCEPT ![t] = v]
          /\ UNCHANGED <<nodeVars, memberVars, had, failed, gateVars, syncVars>>
      BY <2>3 DEF SendPrepares, SendCommits
    <3> QED BY <3>1, <3>2
  <2>16. CASE CommitLocalFails(t)
    <3>1. pending' \in [Tx -> SUBSET Followers]
      BY <2>16, <2>0a DEF CommitLocalFails
    <3>2. /\ store' \in [Nodes -> [Keys -> Contents]] /\ staged' \in [Nodes -> SUBSET Tx]
          /\ torn' \subseteq Nodes \X Keys
      <4>1. CASE UNCHANGED <<store, staged, torn, halfway>>
        BY <4>1
      <4>2. CASE TearCommit(Leader, t)
        <5>1. Leader \in Nodes
          OBVIOUS
        <5> QED BY <4>2, <5>1, CommitTypes
      <4> QED BY <2>16, <4>1, <4>2 DEF CommitLocalFails
    <3>3. halfway' \subseteq Tx
      BY <2>16 DEF CommitLocalFails
    <3>4. /\ pc' = [pc EXCEPT ![t] = "aborting"]
          /\ UNCHANGED <<late, stray, memberVars, had, failed, lease, overlapped, doubt,
                         syncVars>>
      BY <2>16 DEF CommitLocalFails
    <3> QED BY <3>1, <3>2, <3>3, <3>4
  <2>4. CASE AllPrepared(t)
    BY <2>4 DEF AllPrepared
  <2>14. CASE Refuse(t)
    BY <2>14 DEF Refuse
  <2>5. CASE PrepareFailed(t)
    BY <2>5 DEF PrepareFailed, MarkDead, Unstaged
  <2>6. CASE CommitLocal(t)
    <3>1. /\ store' \in [Nodes -> [Keys -> Contents]] /\ staged' \in [Nodes -> SUBSET Tx]
          /\ torn' \subseteq Nodes \X Keys
      <4>1. Leader \in Nodes /\ Commit(Leader, t)
        BY <2>6 DEF CommitLocal
      <4> QED BY <4>1, CommitTypes
    <3> QED BY <2>6, <3>1 DEF CommitLocal
  <2>7. CASE Acknowledge(t)
    <3>1. view' \in [Followers -> {"OFFLINE", "READY"}]
      BY <2>7 DEF Acknowledge, MarkDead
    <3>2. failed' \in [Tx -> SUBSET Followers]
      BY <2>7 DEF Acknowledge
    <3> QED BY <2>7, <3>1, <3>2 DEF Acknowledge
  <2>8. ASSUME NEW f \in Followers, PrepareOK(t, f) PROVE TypeOK'
    BY <2>8 DEF PrepareOK
  <2>15. ASSUME NEW f \in Followers, PrepareFails(t, f) PROVE TypeOK'
    <3>1. staged' \in [Nodes -> SUBSET Tx]
      <4>1. staged' = staged \/ staged' = [staged EXCEPT ![f] = staged[f] \union {t}]
        BY <2>15 DEF PrepareFails
      <4>2. f \in Nodes /\ staged[f] \union {t} \in SUBSET Tx
        OBVIOUS
      <4> HIDE DEF Nodes
      <4> QED BY <4>1, <4>2, StagedType
    <3> QED BY <2>15, <3>1 DEF PrepareFails
  <2>9. ASSUME NEW f \in Followers, AbortCall(t, f) PROVE TypeOK'
    <3>1. staged' \in [Nodes -> SUBSET Tx]
      <4>1. staged' = staged \/ staged' = [staged EXCEPT ![f] = staged[f] \ {t}]
        BY <2>9 DEF AbortCall, Unstaged
      <4>2. f \in Nodes /\ staged[f] \ {t} \in SUBSET Tx
        OBVIOUS
      <4> HIDE DEF Nodes
      <4> QED BY <4>1, <4>2, StagedType
    <3> QED BY <2>9, <3>1 DEF AbortCall
  <2>10. ASSUME NEW f \in Followers, CommitOK(t, f) PROVE TypeOK'
    <3>1. /\ store' \in [Nodes -> [Keys -> Contents]] /\ staged' \in [Nodes -> SUBSET Tx]
          /\ torn' \subseteq Nodes \X Keys
      <4>1. f \in Nodes /\ Commit(f, t)
        BY <2>10 DEF CommitOK
      <4> QED BY <4>1, CommitTypes
    <3> QED BY <2>10, <3>1 DEF CommitOK
  <2>11. ASSUME NEW f \in Followers, CommitFails(t, f) PROVE TypeOK'
    <3>1. /\ store' \in [Nodes -> [Keys -> Contents]] /\ staged' \in [Nodes -> SUBSET Tx]
          /\ torn' \subseteq Nodes \X Keys
      <4>1. CASE UNCHANGED <<store, staged, torn>>
        BY <4>1
      <4>2. CASE Commit(f, t) \/ TearCommit(f, t)
        <5>1. f \in Nodes
          OBVIOUS
        <5> QED BY <4>2, <5>1, CommitTypes
      <4> QED BY <2>11, <4>1, <4>2 DEF CommitFails
    <3>2. late' \subseteq Followers \X Tx /\ stray' = stray
      BY <2>11 DEF CommitFails
    <3>3. pending' \in [Tx -> SUBSET Followers] /\ failed' \in [Tx -> SUBSET Followers]
      BY <2>11 DEF CommitFails
    <3>4. UNCHANGED <<memberVars, pc, had, gateVars, syncVars>>
      BY <2>11 DEF CommitFails
    <3> QED BY <3>1, <3>2, <3>3, <3>4
  <2>12. ASSUME NEW f \in Followers, LateCommit(f, t) PROVE TypeOK'
    <3>1. /\ store' \in [Nodes -> [Keys -> Contents]] /\ staged' \in [Nodes -> SUBSET Tx]
          /\ torn' \subseteq Nodes \X Keys
      <4>1. f \in Nodes /\ (Commit(f, t) \/ TearCommit(f, t))
        BY <2>12 DEF LateCommit
      <4> QED BY <4>1, CommitTypes
    <3>2. doubt' \subseteq Followers \X Keys
      BY <2>12 DEF LateCommit
    <3> QED BY <2>12, <3>1, <3>2 DEF LateCommit
  <2> QED
    BY <1>1, <2>1, <2>2, <2>3, <2>4, <2>5, <2>6, <2>7, <2>8, <2>9, <2>10, <2>11, <2>12,
       <2>13, <2>14, <2>15, <2>16 DEF TxNext
<1>2. ASSUME NEW f \in Followers, FollowerNext(f) PROVE TypeOK'
  <2>1. CASE HeartbeatLost(f)
    BY <2>1 DEF HeartbeatLost
  <2>2. CASE ForceSync(f)
    BY <2>2 DEF ForceSync
  <2>3. CASE RestartFollower(f)
    BY <2>3 DEF RestartFollower
  <2>4. CASE LeaseExpires(f)
    BY <2>4 DEF LeaseExpires
  <2>5. ASSUME NEW k \in Keys, NEW c \in Contents, StrayLands(f, k, c) PROVE TypeOK'
    <3>1. store' \in [Nodes -> [Keys -> Contents]]
      BY <2>5 DEF StrayLands
    <3>2. torn' \subseteq Nodes \X Keys /\ doubt' \subseteq Followers \X Keys
      BY <2>5 DEF StrayLands
    <3>3. stray' \subseteq Followers \X (Keys \X Contents)
      BY <2>5 DEF StrayLands
    <3> QED BY <2>5, <3>1, <3>2, <3>3 DEF StrayLands
  <2> QED BY <1>2, <2>1, <2>2, <2>3, <2>4, <2>5 DEF FollowerNext
<1>u. ASSUME NEW h \in Syncs PROVE UnderWay(h) \subseteq Followers \X (Keys \X Contents)
  <2>1. NodeOf[h] \in Followers /\ extra[h] \subseteq Keys
    OBVIOUS
  <2>2. CASE push[h] # NoPush
    <3>1. push[h] \in Keys \X Contents
      BY <2>2
    <3>2. UnderWay(h) = {NodeOf[h]} \X {push[h]}
      BY <2>2 DEF UnderWay
    <3> QED BY <2>1, <3>1, <3>2
  <2>3. CASE push[h] = NoPush
    BY <2>1, <2>3 DEF UnderWay
  <2> QED BY <2>2, <2>3
<1>3. ASSUME NEW h \in Syncs, SyncNext(h) PROVE TypeOK'
  <2>0. NodeOf[h] \in Followers
    OBVIOUS
  <2>1. CASE StartSync(h)
    BY <2>0, <2>1 DEF StartSync
  <2>2. CASE SyncGivenUp(h) \/ Drained(h)
    BY <2>2 DEF SyncGivenUp, Drained
  <2>3. CASE CompareKeys(h)
    <3>1. todo' \in [Syncs -> SUBSET Keys] /\ extra' \in [Syncs -> SUBSET Keys]
      BY <2>3 DEF CompareKeys
    <3>2. doubt' \subseteq Followers \X Keys
      BY <2>3 DEF CompareKeys, StillInDoubt
    <3>3. sync' = [sync EXCEPT ![h] = "pushing"]
      BY <2>3 DEF CompareKeys
    <3>4. UNCHANGED <<nodeVars, memberVars, txVars, lease, overlapped, halfway, asked, push>>
      BY <2>3 DEF CompareKeys
    <3> QED BY <3>1, <3>2, <3>3, <3>4
  <2>4. CASE PushCommit(h)
    <3>1. push[h] \in Keys \X Tx
      BY <2>4 DEF PushCommit
    <3>2. store' \in [Nodes -> [Keys -> Contents]]
      BY <2>0, <2>4, <3>1 DEF PushCommit
    <3>3. torn' \subseteq Nodes \X Keys /\ todo' \in [Syncs -> SUBSET Keys]
      BY <2>4 DEF PushCommit
    <3>4. push' \in [Syncs -> {NoPush} \union (Keys \X Tx)]
      BY <2>4 DEF PushCommit
    <3> QED BY <2>4, <3>2, <3>3, <3>4 DEF PushCommit
  <2>5. CASE DeleteExtraneous(h)
    <3>1. store' \in [Nodes -> [Keys -> Contents]]
      BY <2>0, <2>5 DEF DeleteExtraneous
    <3>2. torn' \subseteq Nodes \X Keys /\ extra' \in [Syncs -> SUBSET Keys]
      BY <2>5 DEF DeleteExtraneous
    <3> QED BY <2>5, <3>1, <3>2 DEF DeleteExtraneous
  <2>6. CASE MarkAlive(h)
    BY <2>0, <2>6 DEF MarkAlive
  <2>7. CASE EndSync(h)
    BY <2>7 DEF EndSync
  <2>8. CASE SyncAnswer(h)
    <3>1. local' \in [Followers -> {"SYNCING", "READY"}]
      BY <2>0, <2>8 DEF SyncAnswer
    <3> QED BY <2>8, <3>1 DEF SyncAnswer
  <2>9. CASE SyncFails(h)
    <3>1. stray' \subseteq Followers \X (Keys \X Contents)
      BY <1>u, <2>9 DEF SyncFails
    <3>2. /\ sync' = [sync EXCEPT ![h] = "idle"] /\ todo' = [todo EXCEPT ![h] = {}]
          /\ extra' = [extra EXCEPT ![h] = {}] /\ push' = [push EXCEPT ![h] = NoPush]
          /\ asked' = asked \ {h} /\ lease' = lease \ {NodeOf[h]}
          /\ UNCHANGED <<store, staged, torn, late, memberVars, txVars, overlapped, halfway,
                         doubt>>
      BY <2>9 DEF SyncFails
    <3> QED BY <3>1, <3>2
  <2>10. ASSUME NEW k \in Keys, PushPrepare(h, k) PROVE TypeOK'
    <3>1. <<k, store[Leader][k]>> \in Keys \X Tx
      BY <2>10 DEF PushPrepare
    <3>2. push' \in [Syncs -> {NoPush} \union (Keys \X Tx)]
      BY <2>10, <3>1 DEF PushPrepare
    <3> QED BY <2>10, <3>2 DEF PushPrepare
  <2> QED
    BY <1>3, <2>1, <2>2, <2>3, <2>4, <2>5, <2>6, <2>7, <2>8, <2>9, <2>10 DEF SyncNext
<1>4. ASSUME NEW n \in Nodes, NEW t \in Tx, Janitor(n, t) PROVE TypeOK'
  BY <1>4 DEF Janitor, Unstaged
<1>5. CASE RestartLeader
  <2>1. late' \subseteq Followers \X Tx
    BY <1>5 DEF RestartLeader
  <2>2. stray' \subseteq Followers \X (Keys \X Contents)
    BY <1>5, <1>u DEF RestartLeader
  <2>3. /\ view' \in [Followers -> {"OFFLINE", "READY"}]
        /\ pc' \in [Tx -> {"new", "admitted", "staged", "preparing", "prepared", "aborting",
                           "committed", "committing", "acked", "refused", "lost"}]
        /\ pending' \in [Tx -> SUBSET Followers] /\ failed' \in [Tx -> SUBSET Followers]
    BY <1>5 DEF RestartLeader
  <2>4. /\ lease' = {} /\ asked' = {} /\ sync' = [h \in Syncs |-> "idle"]
        /\ todo' = [h \in Syncs |-> {}] /\ extra' = [h \in Syncs |-> {}]
        /\ push' = [h \in Syncs |-> NoPush]
        /\ UNCHANGED <<store, staged, torn, local, had, overlapped, halfway, doubt>>
    BY <1>5 DEF RestartLeader
  <2> QED BY <2>1, <2>2, <2>3, <2>4
<1>6. CASE UNCHANGED vars
  BY <1>6 DEF vars
<1> QED
  BY <1>1, <1>2, <1>3, <1>4, <1>5, <1>6 DEF Next

\* The replicated state keeps its types under every fault of the model.
THEOREM ReplicationTypeCorrect == Spec => []TypeOK
<1>1. Init => TypeOK
  BY ReplicationAssumption DEF Init, TypeOK, Contents, Nodes, NoPush
<1> QED
  BY <1>1, TypeStep, PTL DEF Spec

----------------------------------------------------------------------------
(* What is refused is invisible.                                           *)

\* The leader has begun to commit t, perhaps in vain.
Landed(t) == pc[t] \in {"committed", "committing", "acked", "lost"} \/ t \in halfway

\* Only such contents are stored, pushed, or under way with nobody waiting.
ContentLanded ==
  /\ \A n \in Nodes, k \in Keys : store[n][k] # None => Landed(store[n][k])
  /\ \A h \in Syncs : push[h] # NoPush => Landed(push[h][2])
  /\ \A p \in late : Landed(p[2])
  /\ \A p \in stray : p[2][2] # None => Landed(p[2][2])

\* The synchronisations, the janitor and the followers do not touch the requests.
LEMMA RequestsKept ==
  ASSUME (\E f \in Followers : FollowerNext(f)) \/ (\E h \in Syncs : SyncNext(h))
         \/ (\E n \in Nodes, t \in Tx : Janitor(n, t)) \/ UNCHANGED vars
  PROVE  UNCHANGED <<txVars, overlapped, halfway>>
<1>1. ASSUME NEW f \in Followers, FollowerNext(f)
      PROVE  UNCHANGED <<txVars, overlapped, halfway>>
  BY <1>1 DEF FollowerNext, HeartbeatLost, ForceSync, LeaseExpires, RestartFollower,
              StrayLands, gateVars
<1>2. ASSUME NEW h \in Syncs, SyncNext(h)
      PROVE  UNCHANGED <<txVars, overlapped, halfway>>
  BY <1>2 DEF SyncNext, StartSync, SyncGivenUp, Drained, CompareKeys, PushCommit,
              DeleteExtraneous, MarkAlive, EndSync, SyncAnswer, SyncFails, PushPrepare,
              gateVars
<1> QED
  BY <1>1, <1>2 DEF Janitor, vars, gateVars

\* No step takes back the commit of the leader.
LEMMA LandedStays ==
  ASSUME TypeOK, [Next]_vars, NEW u \in Tx, Landed(u)
  PROVE  Landed(u)'
<1> USE DEF TypeOK, Landed
<1>1. ASSUME NEW t \in Tx, TxNext(t) PROVE Landed(u)'
  <2>1. /\ halfway \subseteq halfway'
        /\ \/ pc' = pc
           \/ pc[t] \notin {"committed", "committing", "acked", "lost"}
              /\ \E v : pc' = [pc EXCEPT ![t] = v]
           \/ pc' = [pc EXCEPT ![t] = "committing"]
           \/ pc' = [pc EXCEPT ![t] = "acked"]
    <3>1. CASE \/ Admit(t) \/ Stage(t) \/ StageFails(t) \/ SendPrepares(t)
               \/ AllPrepared(t) \/ PrepareFailed(t) \/ Refuse(t)
      BY <3>1 DEF Admit, Stage, StageFails, SendPrepares, AllPrepared, PrepareFailed, Refuse,
                  gateVars
    <3>2. CASE CommitLocal(t) \/ CommitLocalFails(t) \/ SendCommits(t) \/ Acknowledge(t)
      BY <3>2 DEF CommitLocal, CommitLocalFails, SendCommits, Acknowledge, gateVars
    <3>3. ASSUME NEW f \in Followers,
                 \/ PrepareOK(t, f) \/ PrepareFails(t, f) \/ AbortCall(t, f)
                 \/ CommitOK(t, f) \/ CommitFails(t, f) \/ LateCommit(f, t)
          PROVE  UNCHANGED <<pc, halfway>>
      BY <3>3 DEF PrepareOK, PrepareFails, AbortCall, CommitOK, CommitFails, LateCommit, txVars,
                  gateVars
    <3> QED
      BY <1>1, <3>1, <3>2, <3>3 DEF TxNext
  <2> QED
    BY <2>1
<1>2. CASE RestartLeader
  BY <1>2 DEF RestartLeader, Active
<1>3. CASE UNCHANGED <<txVars, overlapped, halfway>>
  BY <1>3 DEF txVars
<1> QED
  BY <1>1, <1>2, <1>3, RequestsKept DEF Next

\* A commit of t on n, complete or torn, stores nothing but t's content.
LEMMA CommitStores ==
  ASSUME TypeOK, NEW n \in Nodes, NEW t \in Tx, Commit(n, t) \/ TearCommit(n, t)
  PROVE  \A m \in Nodes, k \in Keys :
           store'[m][k] = store[m][k] \/ store'[m][k] = ContentOf(t)
<1>1. store' = store \/ store' = [store EXCEPT ![n][KeyOf[t]] = ContentOf(t)]
  BY DEF Commit, TearCommit, Applied
<1> QED BY <1>1, ReplicationAssumption DEF TypeOK

LEMMA ContentStep == TypeOK /\ ContentLanded /\ [Next]_vars => ContentLanded'
<1> SUFFICES ASSUME TypeOK, ContentLanded, [Next]_vars PROVE ContentLanded'
  OBVIOUS
<1>0. \A u \in Tx : Landed(u) => Landed(u)'
  BY LandedStays
<1>t. TypeOK'
  BY TypeStep
<1>u. /\ \A n \in Nodes, k \in Keys : store[n][k] \in Contents
      /\ \A h \in Syncs : push[h] # NoPush => push[h][1] \in Keys /\ push[h][2] \in Tx
      /\ \A p \in late : p[2] \in Tx
      /\ \A p \in stray : p[2][2] \in Contents
  BY DEF TypeOK, NoPush
<1> DEFINE Quiet == UNCHANGED <<store, push, late, stray>>
<1>q. ASSUME Quiet PROVE ContentLanded'
  BY <1>0, <1>q, <1>u DEF ContentLanded, Contents
<1>a. ASSUME NEW n \in Nodes, NEW t \in Tx, Landed(t)', Commit(n, t) \/ TearCommit(n, t),
             push' = push, late' \subseteq late, stray' = stray
      PROVE  ContentLanded'
  <2>1. \A m \in Nodes, k \in Keys :
          store'[m][k] = store[m][k] \/ store'[m][k] = ContentOf(t)
    BY <1>a, CommitStores
  <2>2. ContentOf(t) # None => ContentOf(t) = t
    BY DEF ContentOf
  <2> QED
    BY <1>0, <1>a, <1>u, <2>1, <2>2 DEF ContentLanded, Contents
<1>1. ASSUME NEW t \in Tx, TxNext(t) PROVE ContentLanded'
  <2>1. CASE \/ Admit(t) \/ Stage(t) \/ StageFails(t) \/ SendPrepares(t)
             \/ AllPrepared(t) \/ PrepareFailed(t) \/ Refuse(t)
             \/ SendCommits(t) \/ Acknowledge(t)
             \/ \E f \in Followers : PrepareOK(t, f) \/ PrepareFails(t, f) \/ AbortCall(t, f)
    <3>1. Quiet
      BY <2>1 DEF Admit, Stage, StageFails, SendPrepares, AllPrepared, PrepareFailed, Refuse,
                  SendCommits, Acknowledge, PrepareOK, PrepareFails, AbortCall, nodeVars,
                  syncVars
    <3> QED BY <1>q, <3>1
  <2>l. Leader \in Nodes /\ Followers \subseteq Nodes
    BY DEF Nodes
  <2>2. CASE CommitLocal(t)
    <3>1. Landed(t)'
      BY <2>2 DEF CommitLocal, Landed, TypeOK
    <3>2. Commit(Leader, t) /\ UNCHANGED <<push, late, stray>>
      BY <2>2 DEF CommitLocal, syncVars
    <3> QED
      BY <1>a, <2>l, <3>1, <3>2
  <2>6. CASE CommitLocalFails(t)
    <3>1. CASE UNCHANGED <<store, staged, torn, halfway>>
      BY <1>q, <2>6, <3>1 DEF CommitLocalFails, syncVars
    <3>2. CASE TearCommit(Leader, t) /\ halfway' = halfway \union {t}
      <4>1. Landed(t)'
        BY <3>2 DEF Landed
      <4>2. UNCHANGED <<push, late, stray>>
        BY <2>6 DEF CommitLocalFails, syncVars
      <4> QED BY <1>a, <2>l, <3>2, <4>1, <4>2
    <3> QED BY <2>6, <3>1, <3>2 DEF CommitLocalFails
  <2>3. ASSUME NEW f \in Followers, CommitOK(t, f) PROVE ContentLanded'
    <3>1. Landed(t)'
      BY <1>0, <2>3 DEF CommitOK, Landed
    <3>2. Commit(f, t) /\ UNCHANGED <<push, late, stray>>
      BY <2>3 DEF CommitOK, syncVars
    <3> QED BY <1>a, <2>l, <3>1, <3>2
  <2>4. ASSUME NEW f \in Followers, LateCommit(f, t) PROVE ContentLanded'
    <3>1. Landed(t)'
      BY <1>0, <2>4 DEF LateCommit, ContentLanded
    <3>2. (Commit(f, t) \/ TearCommit(f, t)) /\ UNCHANGED <<push, stray>>
          /\ late' \subseteq late
      BY <2>4 DEF LateCommit, syncVars
    <3> QED
      BY <1>a, <2>l, <3>1, <3>2
  <2>5. ASSUME NEW f \in Followers, CommitFails(t, f) PROVE ContentLanded'
    <3>1. Landed(t) /\ Landed(t)' /\ push' = push /\ stray' = stray
      BY <1>0, <2>5 DEF CommitFails, Landed, syncVars, nodeVars
    <3>2. CASE UNCHANGED nodeVars
      BY <1>q, <3>1, <3>2 DEF nodeVars
    <3>3. CASE (Commit(f, t) \/ TearCommit(f, t)) /\ UNCHANGED <<late, stray>>
      BY <1>a, <2>l, <3>1, <3>3
    <3>4. CASE late' = late \union {<<f, t>>} /\ UNCHANGED <<store, staged, torn, stray>>
      BY <1>0, <1>u, <3>1, <3>4 DEF ContentLanded, Contents
    <3> QED
      BY <2>5, <3>2, <3>3, <3>4 DEF CommitFails
  <2> QED
    BY <1>1, <2>1, <2>2, <2>3, <2>4, <2>5, <2>6 DEF TxNext
<1>2. ASSUME NEW f \in Followers, FollowerNext(f) PROVE ContentLanded'
  <2>1. CASE HeartbeatLost(f) \/ ForceSync(f) \/ LeaseExpires(f)
    <3>1. Quiet
      BY <2>1 DEF HeartbeatLost, ForceSync, LeaseExpires, nodeVars, syncVars
    <3> QED BY <1>q, <3>1
  <2>2. CASE RestartFollower(f)
    <3>1. UNCHANGED <<store, push>> /\ late' \subseteq late /\ stray' \subseteq stray
      BY <2>2 DEF RestartFollower
    <3> QED BY <1>0, <1>u, <3>1 DEF ContentLanded, Contents
  <2>3. ASSUME NEW k \in Keys, NEW c \in Contents, StrayLands(f, k, c) PROVE ContentLanded'
    <3>1. c # None => Landed(c)
      BY <2>3 DEF StrayLands, ContentLanded
    <3>2. \A m \in Nodes, j \in Keys : store'[m][j] = store[m][j] \/ store'[m][j] = c
      BY <2>3 DEF StrayLands, TypeOK
    <3>3. UNCHANGED <<push, late>> /\ stray' \subseteq stray
      BY <2>3 DEF StrayLands, syncVars
    <3> QED BY <1>0, <1>u, <3>1, <3>2, <3>3 DEF ContentLanded, Contents
  <2> QED BY <1>2, <2>1, <2>2, <2>3 DEF FollowerNext
<1>w. \A h \in Syncs : \A p \in UnderWay(h) : p[2][2] # None => Landed(p[2][2])
  <2> SUFFICES ASSUME NEW h \in Syncs, NEW p \in UnderWay(h), p[2][2] # None
               PROVE  Landed(p[2][2])
    OBVIOUS
  <2>1. push[h] # NoPush /\ p[2] = push[h]
    BY DEF UnderWay
  <2> QED BY <2>1 DEF ContentLanded
<1>x. \A h \in Syncs : \A p \in UnderWay(h) : p[2][2] \in Contents
  <2> SUFFICES ASSUME NEW h \in Syncs, NEW p \in UnderWay(h) PROVE p[2][2] \in Contents
    OBVIOUS
  <2>1. (push[h] # NoPush /\ p[2] = push[h]) \/ p[2][2] = None
    BY DEF UnderWay
  <2> QED BY <1>u, <2>1 DEF Contents
<1>3. ASSUME NEW h \in Syncs, SyncNext(h) PROVE ContentLanded'
  <2>1. CASE \/ StartSync(h) \/ SyncGivenUp(h) \/ Drained(h) \/ CompareKeys(h)
             \/ MarkAlive(h) \/ EndSync(h) \/ SyncAnswer(h)
    <3>1. Quiet
      BY <2>1 DEF StartSync, SyncGivenUp, Drained, CompareKeys, MarkAlive, EndSync,
                  SyncAnswer, nodeVars, syncVars
    <3> QED BY <1>q, <3>1
  <2>2. CASE PushCommit(h)
    <3>1. push[h] # NoPush /\ push[h][1] \in Keys /\ Landed(push[h][2])
      BY <1>u, <2>2 DEF PushCommit, ContentLanded
    <3>2. \A m \in Nodes, k \in Keys :
            store'[m][k] = store[m][k] \/ store'[m][k] = push[h][2]
      BY <2>2, <3>1 DEF PushCommit, TypeOK
    <3>3. /\ UNCHANGED <<late, stray>>
          /\ \A g \in Syncs : push'[g] = push[g] \/ push'[g] = NoPush
      BY <2>2 DEF PushCommit, TypeOK
    <3> QED
      BY <1>0, <1>u, <3>1, <3>2, <3>3 DEF ContentLanded, Contents
  <2>3. CASE DeleteExtraneous(h)
    <3>1. \A m \in Nodes, k \in Keys :
            store'[m][k] = store[m][k] \/ store'[m][k] = None
      BY <2>3 DEF DeleteExtraneous, TypeOK
    <3>2. UNCHANGED <<push, late, stray>>
      BY <2>3 DEF DeleteExtraneous
    <3> QED
      BY <1>0, <1>u, <3>1, <3>2 DEF ContentLanded, Contents
  <2>4. CASE SyncFails(h)
    <3>1. /\ UNCHANGED <<store, late>> /\ stray' \subseteq stray \union UnderWay(h)
          /\ \A g \in Syncs : push'[g] = push[g] \/ push'[g] = NoPush
      BY <2>4 DEF SyncFails, TypeOK
    <3> QED
      BY <1>0, <1>u, <1>w, <1>x, <3>1 DEF ContentLanded, Contents
  <2>6. ASSUME NEW k \in Keys, PushPrepare(h, k) PROVE ContentLanded'
    <3>1. store[Leader][k] \in Tx /\ Landed(store[Leader][k])
      BY <1>u, <2>6 DEF PushPrepare, ContentLanded, Contents, Nodes
    <3>2. /\ UNCHANGED <<store, late, stray>>
          /\ \A g \in Syncs : push'[g] = push[g] \/ push'[g] = <<k, store[Leader][k]>>
      BY <2>6 DEF PushPrepare, nodeVars, TypeOK
    <3> QED
      BY <1>0, <1>u, <3>1, <3>2 DEF ContentLanded, Contents
  <2> QED
    BY <1>3, <2>1, <2>2, <2>3, <2>4, <2>6 DEF SyncNext
<1>4. ASSUME NEW n \in Nodes, NEW t \in Tx, Janitor(n, t) PROVE ContentLanded'
  BY <1>q, <1>4 DEF Janitor, syncVars
<1>5. CASE RestartLeader
  <2>1. store' = store /\ push' = [h \in Syncs |-> NoPush]
    BY <1>5 DEF RestartLeader
  <2>2. \A p \in late' : p \in late \/ (p \in Followers \X Tx /\ pc[p[2]] = "committing")
    BY <1>5 DEF RestartLeader
  <2>3. \A p \in stray' : p \in stray \/ \E h \in Syncs : p \in UnderWay(h)
    BY <1>5 DEF RestartLeader
  <2>4. \A p \in late' : Landed(p[2])'
    BY <1>0, <1>u, <2>2 DEF ContentLanded, Landed
  <2>5. \A p \in stray' : p[2][2] # None => Landed(p[2][2])'
    BY <1>0, <1>u, <1>w, <1>x, <2>3 DEF ContentLanded, Contents
  <2> QED
    BY <1>0, <1>u, <2>1, <2>4, <2>5 DEF ContentLanded, Contents
<1>6. CASE UNCHANGED vars
  BY <1>q, <1>6 DEF vars, nodeVars, syncVars
<1> QED
  BY <1>1, <1>2, <1>3, <1>4, <1>5, <1>6 DEF Next

\* A request that was refused, whatever happened to its aborts, to leases, pushes
\* and late commits, has its content on no node, unless its commit on the leader
\* failed with files already moved.
THEOREM RefusedStaysInvisible == Spec => []RefusedNeverVisible
<1>1. Init => TypeOK /\ ContentLanded
  BY ReplicationAssumption DEF Init, TypeOK, Contents, Nodes, NoPush, ContentLanded
<1>2. TypeOK /\ ContentLanded => RefusedNeverVisible
  <2> SUFFICES ASSUME TypeOK, ContentLanded, NEW t \in Tx, t \notin halfway,
                      pc[t] = "refused", NEW n \in Nodes, store[n][KeyOf[t]] = t
               PROVE  FALSE
    BY DEF RefusedNeverVisible
  <2>1. KeyOf[t] \in Keys /\ t # None
    BY ReplicationAssumption
  <2> QED
    BY <2>1 DEF ContentLanded, Landed
<1> QED
  BY <1>1, <1>2, TypeStep, ContentStep, PTL DEF Spec

----------------------------------------------------------------------------
(* READY followers agree with the leader.                                  *)

\* The key of a write admitted under a handler that is past the gate is in doubt.
GateInv ==
  \A h \in Syncs, t \in Active :
    sync[h] \in {"drained", "pushing", "equal"} => <<NodeOf[h], KeyOf[t]>> \in doubt

Clear(f, k) == <<f, k>> \notin doubt /\ <<Leader, k>> \notin torn
Same(f, k) == <<f, k>> \in torn \/ store[f][k] = store[Leader][k]

\* What a handler has left to push or to delete is where its follower may differ.
HandlerInv(h) ==
  /\ push[h] # NoPush => sync[h] = "pushing"
  /\ \A k \in Keys : Clear(NodeOf[h], k) =>
       /\ sync[h] = "pushing" =>
            /\ k \in todo[h] => store[Leader][k] # None
            /\ k \in extra[h] => store[Leader][k] = None
            /\ k \in todo[h] \/ k \in extra[h] \/ Same(NodeOf[h], k)
       /\ push[h] # NoPush /\ push[h][1] = k => push[h][2] = store[Leader][k]
       /\ sync[h] = "equal" => Same(NodeOf[h], k)

SyncInv == \A h \in Syncs : HandlerInv(h)

\* A write that found no follower has none to fear but those its key is in doubt
\* on; the writes of a key that never overlapped are one at a time, and the one
\* that is committed is what the leader holds.
CommitInv ==
  /\ \A t \in Tx : t \notin had /\ pc[t] \in {"staged", "preparing", "prepared",
                                              "committed", "committing"}
       => \A f \in AliveFollowers : <<f, KeyOf[t]>> \in doubt
  /\ \A t, u \in Active : KeyOf[t] = KeyOf[u] /\ KeyOf[t] \notin overlapped => t = u
  /\ \A t \in Tx : pc[t] \in {"committed", "committing"} /\ KeyOf[t] \notin overlapped
       => store[Leader][KeyOf[t]] = ContentOf(t)

\* t is committed on the leader, and its commit on f is still to come or failed.
Owes(t, f) ==
  \/ pc[t] = "committed" /\ t \in had
  \/ pc[t] = "committing" /\ (f \in pending[t] \/ f \in failed[t])

AgreeInv ==
  \A f \in AliveFollowers, k \in Keys \ overlapped : Settled(f, k) =>
    \/ store[f][k] = store[Leader][k]
    \/ \E t \in Tx : KeyOf[t] = k /\ Owes(t, f)

IInv == TypeOK /\ GateInv /\ SyncInv /\ CommitInv /\ AgreeInv

\* Only Admit makes a transaction active.
LEMMA ActiveShrinks ==
  ASSUME TypeOK, NEW t \in Tx, TxNext(t), ~Admit(t)
  PROVE  Active' \subseteq Active
<1> USE DEF TypeOK, Active
<1>1. CASE \/ Stage(t) \/ StageFails(t) \/ SendPrepares(t)
           \/ AllPrepared(t) \/ PrepareFailed(t) \/ Refuse(t)
           \/ CommitLocal(t) \/ CommitLocalFails(t) \/ SendCommits(t) \/ Acknowledge(t)
  <2>1. pc[t] \notin {"new", "acked", "refused", "lost"}
    BY <1>1 DEF Stage, StageFails, SendPrepares, AllPrepared, PrepareFailed, Refuse,
                CommitLocal, CommitLocalFails, SendCommits, Acknowledge
  <2>2. \E v : pc' = [pc EXCEPT ![t] = v]
    BY <1>1 DEF Stage, StageFails, SendPrepares, AllPrepared, PrepareFailed, Refuse,
                CommitLocal, CommitLocalFails, SendCommits, Acknowledge
  <2> QED BY <2>1, <2>2
<1>2. ASSUME NEW f \in Followers,
             \/ PrepareOK(t, f) \/ PrepareFails(t, f) \/ AbortCall(t, f)
             \/ CommitOK(t, f) \/ CommitFails(t, f) \/ LateCommit(f, t)
      PROVE  pc' = pc
  BY <1>2 DEF PrepareOK, PrepareFails, AbortCall, CommitOK, CommitFails, LateCommit, txVars
<1> QED
  BY <1>1, <1>2 DEF TxNext

\* A commit of t on n, complete or torn, touches one key of one node.
LEMMA CommitTouches ==
  ASSUME TypeOK, NEW n \in Nodes, NEW t \in Tx, Commit(n, t) \/ TearCommit(n, t)
  PROVE  \A m \in Nodes, k \in Keys : m # n \/ k # KeyOf[t] =>
           /\ store'[m][k] = store[m][k]
           /\ <<m, k>> \in torn' <=> <<m, k>> \in torn
<1>1. store' = store \/ store' = [store EXCEPT ![n][KeyOf[t]] = ContentOf(t)]
  BY DEF Commit, TearCommit, Applied
<1>2. torn' = torn \ {<<n, KeyOf[t]>>} \/ torn' = torn \union {<<n, KeyOf[t]>>}
  BY DEF Commit, TearCommit
<1>3. \A m \in Nodes, k \in Keys : m # n \/ k # KeyOf[t] => store'[m][k] = store[m][k]
  BY <1>1 DEF TypeOK
<1> QED BY <1>2, <1>3

\* Nothing but a comparison of keys takes a key out of doubt, and a transaction
\* changes a key while it is active on it or leaves it in doubt.
LEMMA TxTouches ==
  ASSUME TypeOK, NEW t \in Tx, TxNext(t)
  PROVE  /\ UNCHANGED syncVars /\ doubt \subseteq doubt'
         /\ \A f \in Followers, k \in Keys :
              \/ /\ store'[f][k] = store[f][k] /\ store'[Leader][k] = store[Leader][k]
                 /\ <<f, k>> \in torn' <=> <<f, k>> \in torn
                 /\ <<Leader, k>> \in torn' <=> <<Leader, k>> \in torn
              \/ <<f, k>> \in doubt'
              \/ t \in Active /\ k = KeyOf[t]
<1>l. Leader \in Nodes /\ Followers \subseteq Nodes /\ Leader \notin Followers
  BY ReplicationAssumption DEF Nodes
<1> DEFINE Touched == \A f \in Followers, k \in Keys :
              \/ /\ store'[f][k] = store[f][k] /\ store'[Leader][k] = store[Leader][k]
                 /\ <<f, k>> \in torn' <=> <<f, k>> \in torn
                 /\ <<Leader, k>> \in torn' <=> <<Leader, k>> \in torn
              \/ <<f, k>> \in doubt'
              \/ t \in Active /\ k = KeyOf[t]
<1>1. UNCHANGED syncVars /\ doubt \subseteq doubt'
  BY DEF TxNext, Admit, Stage, StageFails, SendPrepares, AllPrepared, PrepareFailed,
         Refuse, CommitLocal, CommitLocalFails, SendCommits, Acknowledge, PrepareOK,
         PrepareFails, AbortCall, CommitOK, CommitFails, LateCommit, gateVars
<1> SUFFICES Touched
  BY <1>1
<1>q. ASSUME UNCHANGED <<store, torn>> PROVE Touched
  BY <1>q
<1>c. ASSUME NEW n \in Nodes, Commit(n, t) \/ TearCommit(n, t),
             t \in Active \/ (n \in Followers /\ <<n, KeyOf[t]>> \in doubt')
      PROVE  Touched
  <2>1. \A m \in Nodes, k \in Keys : m # n \/ k # KeyOf[t] =>
           /\ store'[m][k] = store[m][k]
           /\ <<m, k>> \in torn' <=> <<m, k>> \in torn
    BY <1>c, CommitTouches
  <2> SUFFICES ASSUME NEW f \in Followers, NEW k \in Keys
               PROVE  \/ /\ store'[f][k] = store[f][k] /\ store'[Leader][k] = store[Leader][k]
                         /\ <<f, k>> \in torn' <=> <<f, k>> \in torn
                         /\ <<Leader, k>> \in torn' <=> <<Leader, k>> \in torn
                      \/ <<f, k>> \in doubt'
                      \/ t \in Active /\ k = KeyOf[t]
    OBVIOUS
  <2>2. CASE k # KeyOf[t]
    BY <1>l, <2>1, <2>2
  <2>3. CASE k = KeyOf[t] /\ n \in Followers /\ n # f
    BY <1>l, <2>1, <2>3
  <2> QED BY <1>c, <2>2, <2>3
<1>2. CASE \/ Admit(t) \/ Stage(t) \/ StageFails(t) \/ SendPrepares(t)
           \/ AllPrepared(t) \/ PrepareFailed(t) \/ Refuse(t)
           \/ SendCommits(t) \/ Acknowledge(t)
           \/ \E f \in Followers : PrepareOK(t, f) \/ PrepareFails(t, f) \/ AbortCall(t, f)
  BY <1>q, <1>2 DEF Admit, Stage, StageFails, SendPrepares, AllPrepared, PrepareFailed,
         Refuse, SendCommits, Acknowledge, PrepareOK, PrepareFails, AbortCall, nodeVars
<1>3. CASE CommitLocal(t) \/ CommitLocalFails(t)
  <2>1. t \in Active
    BY <1>3 DEF CommitLocal, CommitLocalFails, Active
  <2>2. UNCHANGED <<store, torn>> \/ Commit(Leader, t) \/ TearCommit(Leader, t)
    BY <1>3 DEF CommitLocal, CommitLocalFails
  <2>3. CASE Commit(Leader, t) \/ TearCommit(Leader, t)
    BY <1>c, <1>l, <2>1, <2>3
  <2> QED BY <1>q, <2>2, <2>3
<1>4. ASSUME NEW f \in Followers, CommitOK(t, f) \/ CommitFails(t, f) PROVE Touched
  <2>1. t \in Active
    BY <1>4 DEF CommitOK, CommitFails, Active
  <2>2. UNCHANGED <<store, torn>> \/ Commit(f, t) \/ TearCommit(f, t)
    BY <1>4 DEF CommitOK, CommitFails, nodeVars
  <2> QED BY <1>q, <1>c, <1>l, <2>1, <2>2
<1>5. ASSUME NEW f \in Followers, LateCommit(f, t) PROVE Touched
  <2>1. (Commit(f, t) \/ TearCommit(f, t)) /\ <<f, KeyOf[t]>> \in doubt'
    BY <1>5 DEF LateCommit
  <2> QED BY <1>c, <1>l, <2>1
<1> QED
  BY <1>2, <1>3, <1>4, <1>5 DEF TxNext

LEMMA GateStep ==
  ASSUME TypeOK, GateInv, [Next]_vars
  PROVE  GateInv'
<1> USE DEF GateInv, TypeOK
<1>1. ASSUME NEW t \in Tx, TxNext(t) PROVE GateInv'
  <2>1. sync' = sync /\ doubt \subseteq doubt'
    BY <1>1, TxTouches DEF syncVars
  <2>2. CASE Admit(t)
    <3>1. Active' \subseteq Active \union {t}
      BY <2>2 DEF Admit, Active
    <3>2. \A h \in Syncs : sync[h] \in {"drained", "pushing", "equal"}
                             => <<NodeOf[h], KeyOf[t]>> \in doubt'
      BY <2>2, ReplicationAssumption DEF Admit, Running, SyncsOf
    <3> QED BY <2>1, <3>1, <3>2
  <2>3. CASE ~Admit(t)
    <3>1. Active' \subseteq Active
      BY <1>1, <2>3, ActiveShrinks
    <3> QED BY <2>1, <3>1
  <2> QED BY <2>2, <2>3
<1>2. ASSUME NEW f \in Followers, FollowerNext(f) PROVE GateInv'
  <2>1. Active' = Active
    BY <1>2, RequestsKept DEF txVars, Active
  <2>2. sync' = sync /\ doubt \subseteq doubt'
    BY <1>2 DEF FollowerNext, HeartbeatLost, ForceSync, LeaseExpires, RestartFollower,
                StrayLands, syncVars, gateVars
  <2> QED BY <2>1, <2>2
<1>3. ASSUME NEW h \in Syncs, SyncNext(h) PROVE GateInv'
  <2>1. Active' = Active
    BY <1>3, RequestsKept DEF txVars, Active
  <2>2. CASE CompareKeys(h)
    <3>1. sync[h] = "drained" /\ sync' = [sync EXCEPT ![h] = "pushing"]
      BY <2>2 DEF CompareKeys
    <3>2. \A d \in doubt : ActiveOn(d[2]) # {} => d \in doubt'
      BY <2>2 DEF CompareKeys, StillInDoubt
    <3>3. \A t \in Active : t \in ActiveOn(KeyOf[t])
      BY DEF ActiveOn
    <3> QED BY <2>1, <3>1, <3>2, <3>3
  <2>3. CASE Drained(h)
    <3>1. Active = {}
      BY <2>3 DEF Drained
    <3> QED BY <2>1, <3>1
  <2>4. CASE ~CompareKeys(h) /\ ~Drained(h)
    <3>1. /\ doubt' = doubt
          /\ \/ sync' = sync
             \/ \E v \in {"idle", "draining", "alive", "answered"} :
                  sync' = [sync EXCEPT ![h] = v]
             \/ sync[h] = "pushing" /\ sync' = [sync EXCEPT ![h] = "equal"]
      BY <1>3, <2>4 DEF SyncNext, StartSync, SyncGivenUp, PushCommit,
              DeleteExtraneous, MarkAlive, EndSync, SyncAnswer, SyncFails, PushPrepare,
              gateVars, syncVars
    <3> QED BY <2>1, <3>1
  <2> QED BY <2>2, <2>3, <2>4
<1>4. ASSUME NEW n \in Nodes, NEW t \in Tx, Janitor(n, t) PROVE GateInv'
  BY <1>4 DEF Janitor, Active, txVars, syncVars, gateVars
<1>5. CASE RestartLeader
  BY <1>5 DEF RestartLeader
<1>6. CASE UNCHANGED vars
  BY <1>6 DEF vars, Active, txVars, syncVars, gateVars
<1> QED
  BY <1>1, <1>2, <1>3, <1>4, <1>5, <1>6 DEF Next

\* A step that leaves a handler alone and, on each of its keys that is clear,
\* changes nothing or stores what the leader has.
LEMMA HandlerKept ==
  ASSUME NEW h \in Syncs, HandlerInv(h),
         sync'[h] = sync[h], todo'[h] = todo[h], extra'[h] = extra[h], push'[h] = push[h],
         sync[h] \in {"pushing", "equal"} => \A k \in Keys : Clear(NodeOf[h], k)' =>
           /\ Clear(NodeOf[h], k) /\ store'[Leader][k] = store[Leader][k]
           /\ \/ /\ store'[NodeOf[h]][k] = store[NodeOf[h]][k]
                 /\ <<NodeOf[h], k>> \in torn => <<NodeOf[h], k>> \in torn'
              \/ store'[NodeOf[h]][k] = store'[Leader][k]
  PROVE  HandlerInv(h)'
<1>1. CASE sync[h] \in {"pushing", "equal"}
  BY <1>1 DEF HandlerInv, Same
<1>2. CASE sync[h] \notin {"pushing", "equal"}
  BY <1>2 DEF HandlerInv
<1> QED BY <1>1, <1>2

LEMMA SyncStep ==
  ASSUME TypeOK, GateInv, SyncInv, [Next]_vars
  PROVE  SyncInv'
<1> USE ReplicationAssumption
<1>0. \A h \in Syncs : NodeOf[h] \in Followers /\ HandlerInv(h)
  BY DEF SyncInv
<1>q. ASSUME UNCHANGED <<store, torn, sync, todo, extra, push>>, doubt \subseteq doubt'
      PROVE  SyncInv'
  BY <1>0, <1>q DEF SyncInv, HandlerInv, Clear, Same
<1>1. ASSUME NEW t \in Tx, TxNext(t) PROVE SyncInv'
  <2> SUFFICES ASSUME NEW h \in Syncs PROVE HandlerInv(h)'
    BY DEF SyncInv
  <2>1. UNCHANGED <<sync, todo, extra, push>> /\ doubt \subseteq doubt'
    BY <1>1, TxTouches DEF syncVars
  <2>2. ASSUME sync[h] \in {"pushing", "equal"}, NEW k \in Keys, Clear(NodeOf[h], k)'
        PROVE  /\ Clear(NodeOf[h], k) /\ store'[Leader][k] = store[Leader][k]
               /\ store'[NodeOf[h]][k] = store[NodeOf[h]][k]
               /\ <<NodeOf[h], k>> \in torn => <<NodeOf[h], k>> \in torn'
    <3>1. ~(t \in Active /\ k = KeyOf[t])
      BY <2>1, <2>2 DEF GateInv, Clear
    <3>2. <<NodeOf[h], k>> \notin doubt'
      BY <2>2 DEF Clear
    <3>3. /\ store'[NodeOf[h]][k] = store[NodeOf[h]][k]
          /\ store'[Leader][k] = store[Leader][k]
          /\ <<NodeOf[h], k>> \in torn' <=> <<NodeOf[h], k>> \in torn
          /\ <<Leader, k>> \in torn' <=> <<Leader, k>> \in torn
      BY <1>0, <1>1, <3>1, <3>2, TxTouches
    <3> QED BY <2>1, <2>2, <3>3 DEF Clear
  <2> QED BY <1>0, <2>1, <2>2, HandlerKept
<1>2. ASSUME NEW f \in Followers, FollowerNext(f) PROVE SyncInv'
  <2>1. CASE \/ HeartbeatLost(f) \/ ForceSync(f) \/ RestartFollower(f) \/ LeaseExpires(f)
    <3>1. UNCHANGED <<store, torn, sync, todo, extra, push>> /\ doubt' = doubt
      BY <2>1 DEF HeartbeatLost, ForceSync, RestartFollower, LeaseExpires, nodeVars, syncVars,
                  gateVars
    <3> QED BY <1>q, <3>1
  <2>2. ASSUME NEW k \in Keys, NEW c \in Contents, StrayLands(f, k, c) PROVE SyncInv'
    <3>1. /\ UNCHANGED <<sync, todo, extra, push>> /\ doubt' = doubt \union {<<f, k>>}
          /\ store'[Leader] = store[Leader]
          /\ \A g \in Followers, j \in Keys : g # f \/ j # k =>
               /\ store'[g][j] = store[g][j]
               /\ <<g, j>> \in torn' <=> <<g, j>> \in torn
          /\ \A j \in Keys : <<Leader, j>> \in torn' <=> <<Leader, j>> \in torn
      BY <2>2 DEF StrayLands, syncVars, TypeOK, Nodes
    <3> SUFFICES ASSUME NEW h \in Syncs PROVE HandlerInv(h)'
      BY DEF SyncInv
    <3>2. ASSUME NEW j \in Keys, Clear(NodeOf[h], j)'
          PROVE  /\ Clear(NodeOf[h], j) /\ store'[Leader][j] = store[Leader][j]
                 /\ store'[NodeOf[h]][j] = store[NodeOf[h]][j]
                 /\ <<NodeOf[h], j>> \in torn => <<NodeOf[h], j>> \in torn'
      <4>1. NodeOf[h] # f \/ j # k
        BY <3>1, <3>2 DEF Clear
      <4> QED BY <1>0, <3>1, <3>2, <4>1 DEF Clear
    <3> QED BY <1>0, <3>1, <3>2, HandlerKept
  <2> QED
    BY <1>2, <2>1, <2>2 DEF FollowerNext
<1>3. ASSUME NEW h \in Syncs, SyncNext(h) PROVE SyncInv'
  <2> DEFINE f == NodeOf[h]
  <2>0. f \in Followers /\ f # Leader /\ HandlerInv(h)
    BY <1>0
  \* A step that only moves h on, out of its comparison and its pushes.
  <2>a. ASSUME UNCHANGED <<store, torn, doubt>>, sync'[h] \notin {"pushing", "equal"},
               push'[h] = NoPush,
               \A g \in Syncs \ {h} : /\ sync'[g] = sync[g] /\ todo'[g] = todo[g]
                                        /\ extra'[g] = extra[g] /\ push'[g] = push[g]
        PROVE  SyncInv'
    <3> SUFFICES ASSUME NEW g \in Syncs PROVE HandlerInv(g)'
      BY DEF SyncInv
    <3>1. CASE g = h
      BY <2>a, <3>1 DEF HandlerInv
    <3>2. CASE g # h
      BY <1>0, <2>a, <3>2 DEF HandlerInv, Clear, Same
    <3> QED BY <3>1, <3>2
  <2>1. CASE SyncGivenUp(h)
    BY <1>q, <2>1 DEF SyncGivenUp, nodeVars, gateVars
  <2>2. CASE StartSync(h) \/ Drained(h) \/ MarkAlive(h) \/ EndSync(h) \/ SyncAnswer(h)
    <3>1. /\ UNCHANGED <<store, torn, doubt, todo, extra, push>> /\ sync[h] # "pushing"
          /\ \E v \in {"draining", "drained", "alive", "answered", "idle"} :
               sync' = [sync EXCEPT ![h] = v]
      BY <2>2 DEF StartSync, Drained, MarkAlive, EndSync, SyncAnswer, nodeVars, gateVars
    <3>2. push[h] = NoPush
      BY <2>0, <3>1 DEF HandlerInv
    <3>3. sync'[h] \notin {"pushing", "equal"} /\ \A g \in Syncs \ {h} : sync'[g] = sync[g]
      BY <3>1 DEF TypeOK
    <3> QED BY <2>a, <3>1, <3>2, <3>3
  <2>3. CASE SyncFails(h)
    <3>1. /\ UNCHANGED <<store, torn, doubt>> /\ sync'[h] = "idle" /\ push'[h] = NoPush
          /\ \A g \in Syncs \ {h} : /\ sync'[g] = sync[g] /\ todo'[g] = todo[g]
                                      /\ extra'[g] = extra[g] /\ push'[g] = push[g]
      BY <2>3 DEF SyncFails, TypeOK
    <3> QED BY <2>a, <3>1
  <2>4. CASE CompareKeys(h)
    <3> SUFFICES ASSUME NEW g \in Syncs PROVE HandlerInv(g)'
      BY DEF SyncInv
    <3>1. /\ UNCHANGED <<store, torn, push>> /\ sync[h] = "drained"
          /\ sync' = [sync EXCEPT ![h] = "pushing"] /\ doubt' = StillInDoubt(f)
      BY <2>4 DEF CompareKeys, nodeVars
    <3>2. CASE g = h
      <4>1. PICK l \in Listings(Leader), m \in Listings(f) :
              /\ todo' = [todo EXCEPT ![h] = {k \in Keys : l[k] # None /\ m[k] # l[k]}]
              /\ extra' = [extra EXCEPT ![h] = {k \in Keys : l[k] = None /\ m[k] # None}]
        BY <2>4 DEF CompareKeys
      <4>2. /\ todo'[h] = {k \in Keys : l[k] # None /\ m[k] # l[k]}
            /\ extra'[h] = {k \in Keys : l[k] = None /\ m[k] # None}
            /\ sync'[h] = "pushing"
        BY <3>1, <4>1 DEF TypeOK
      <4>3. \A k \in Keys : /\ <<Leader, k>> \notin torn => l[k] = store[Leader][k]
                            /\ <<f, k>> \notin torn => m[k] = store[f][k]
        BY DEF Listings
      <4>4. push[h] = NoPush
        BY <2>0, <3>1 DEF HandlerInv
      <4>5. \A k \in Keys : <<Leader, k>> \notin torn =>
              /\ k \in todo'[h] => store[Leader][k] # None
              /\ k \in extra'[h] => store[Leader][k] = None
              /\ k \in todo'[h] \/ k \in extra'[h] \/ Same(f, k)
        BY <4>2, <4>3 DEF Same
      <4> QED BY <3>1, <3>2, <4>2, <4>4, <4>5 DEF HandlerInv, Clear, Same
    <3>3. CASE g # h
      <4>1. sync'[g] = sync[g] /\ todo'[g] = todo[g] /\ extra'[g] = extra[g]
        BY <2>4, <3>3 DEF CompareKeys, TypeOK
      <4>2. ASSUME sync[g] \in {"pushing", "equal"}, NEW k \in Keys,
                   <<NodeOf[g], k>> \in doubt
            PROVE  <<NodeOf[g], k>> \in doubt'
        <5>1. CASE NodeOf[g] = f
          <6>1. g \in Running(f) /\ sync[g] # "drained"
            BY <4>2, <5>1 DEF Running, SyncsOf
          <6> QED BY <3>1, <4>2, <6>1 DEF StillInDoubt
        <5>2. CASE NodeOf[g] # f
          BY <3>1, <4>2, <5>2 DEF StillInDoubt
        <5> QED BY <5>1, <5>2
      <4> QED BY <1>0, <3>1, <4>1, <4>2, HandlerKept DEF Clear
    <3> QED BY <3>2, <3>3
  <2>5. CASE PushCommit(h)
    <3> DEFINE k == push[h][1]
    <3>1. /\ UNCHANGED <<sync, extra, doubt>> /\ sync[h] = "pushing" /\ push[h] # NoPush
          /\ store' = [store EXCEPT ![f][k] = push[h][2]]
          /\ torn' = torn \ {<<f, k>>}
          /\ todo' = [todo EXCEPT ![h] = @ \ {k}]
          /\ push' = [push EXCEPT ![h] = NoPush]
      BY <2>5 DEF PushCommit, gateVars
    <3>2. k \in Keys
      BY <3>1 DEF TypeOK
    <3>3. /\ store'[Leader] = store[Leader]
          /\ \A g \in Followers, j \in Keys :
               store'[g][j] = IF g = f /\ j = k THEN push[h][2] ELSE store[g][j]
      BY <2>0, <3>1, <3>2 DEF TypeOK, Nodes
    <3>4. /\ todo'[h] = todo[h] \ {k} /\ push'[h] = NoPush
          /\ \A g \in Syncs \ {h} : todo'[g] = todo[g] /\ push'[g] = push[g]
      BY <3>1 DEF TypeOK
    <3>5. Clear(f, k) => push[h][2] = store[Leader][k]
      BY <2>0, <3>1, <3>2 DEF HandlerInv
    <3>6. \A g \in Followers, j \in Keys : Clear(g, j)' <=> Clear(g, j)
      BY <2>0, <3>1 DEF Clear
    <3>7. \A g \in Followers, j \in Keys : g # f \/ j # k =>
            /\ store'[g][j] = store[g][j]
            /\ <<g, j>> \in torn' <=> <<g, j>> \in torn
      BY <3>1, <3>3
    <3> HIDE DEF k, f
    <3> SUFFICES ASSUME NEW g \in Syncs PROVE HandlerInv(g)'
      BY DEF SyncInv
    <3>8. CASE g # h
      <4>1. ASSUME NEW j \in Keys, Clear(NodeOf[g], j)'
            PROVE  /\ Clear(NodeOf[g], j) /\ store'[Leader][j] = store[Leader][j]
                   /\ \/ /\ store'[NodeOf[g]][j] = store[NodeOf[g]][j]
                         /\ <<NodeOf[g], j>> \in torn => <<NodeOf[g], j>> \in torn'
                      \/ store'[NodeOf[g]][j] = store'[Leader][j]
        <5>1. CASE NodeOf[g] = f /\ j = k
          BY <2>0, <3>2, <3>3, <3>5, <3>6, <4>1, <5>1
        <5>2. CASE NodeOf[g] # f \/ j # k
          BY <1>0, <3>3, <3>6, <3>7, <4>1, <5>2
        <5> QED BY <5>1, <5>2
      <4> QED BY <1>0, <3>1, <3>4, <3>8, <4>1, HandlerKept
    <3>9. CASE g = h
      <4>1. ASSUME NEW j \in Keys, Clear(f, j)'
            PROVE  /\ j \in todo'[h] => store'[Leader][j] # None
                   /\ j \in extra[h] => store'[Leader][j] = None
                   /\ j \in todo'[h] \/ j \in extra[h] \/ Same(f, j)'
        <5>1. Clear(f, j)
          BY <2>0, <3>6, <4>1
        <5>2. /\ j \in todo[h] => store[Leader][j] # None
              /\ j \in extra[h] => store[Leader][j] = None
              /\ j \in todo[h] \/ j \in extra[h] \/ Same(f, j)
          BY <2>0, <3>1, <5>1 DEF HandlerInv, f
        <5>3. CASE j = k
          <6>1. store'[f][k] = store'[Leader][k]
            BY <2>0, <3>2, <3>3, <3>5, <5>1, <5>3
          <6> QED BY <3>3, <3>4, <5>2, <5>3, <6>1 DEF Same
        <5>4. CASE j # k
          BY <2>0, <3>3, <3>4, <3>7, <5>2, <5>4 DEF Same
        <5> QED BY <5>3, <5>4
      <4> QED BY <3>1, <3>4, <3>9, <4>1 DEF HandlerInv, f
    <3> QED BY <3>8, <3>9
  <2>6. CASE DeleteExtraneous(h)
    <3>1. /\ UNCHANGED <<todo, push, doubt>> /\ sync[h] = "pushing" /\ push[h] = NoPush
          /\ todo[h] = {} /\ torn' = torn \ ({f} \X extra[h])
          /\ sync' = [sync EXCEPT ![h] = "equal"] /\ extra' = [extra EXCEPT ![h] = {}]
          /\ store' = [store EXCEPT ![f] =
               [j \in Keys |-> IF j \in extra[h] THEN None ELSE store[f][j]]]
      BY <2>6 DEF DeleteExtraneous, gateVars
    <3>2. /\ store'[Leader] = store[Leader]
          /\ \A g \in Followers, j \in Keys :
               store'[g][j] = IF g = f /\ j \in extra[h] THEN None ELSE store[g][j]
      BY <2>0, <3>1 DEF TypeOK, Nodes
    <3>3. \A j \in Keys : Clear(f, j) /\ j \in extra[h] => store[Leader][j] = None
      BY <2>0, <3>1 DEF HandlerInv
    <3>4. \A g \in Followers, j \in Keys : Clear(g, j)' <=> Clear(g, j)
      BY <2>0, <3>1 DEF Clear
    <3>5. \A g \in Followers, j \in Keys : g # f \/ j \notin extra[h] =>
            /\ store'[g][j] = store[g][j]
            /\ <<g, j>> \in torn' <=> <<g, j>> \in torn
      BY <3>1, <3>2
    <3>6. sync'[h] = "equal" /\ \A g \in Syncs \ {h} : sync'[g] = sync[g] /\ extra'[g] = extra[g]
      BY <3>1 DEF TypeOK
    <3> HIDE DEF f
    <3> SUFFICES ASSUME NEW g \in Syncs PROVE HandlerInv(g)'
      BY DEF SyncInv
    <3>8. CASE g # h
      <4>1. ASSUME NEW j \in Keys, Clear(NodeOf[g], j)'
            PROVE  /\ Clear(NodeOf[g], j) /\ store'[Leader][j] = store[Leader][j]
                   /\ \/ /\ store'[NodeOf[g]][j] = store[NodeOf[g]][j]
                         /\ <<NodeOf[g], j>> \in torn => <<NodeOf[g], j>> \in torn'
                      \/ store'[NodeOf[g]][j] = store'[Leader][j]
        <5>1. CASE NodeOf[g] = f /\ j \in extra[h]
          BY <2>0, <3>2, <3>3, <3>4, <4>1, <5>1
        <5>2. CASE NodeOf[g] # f \/ j \notin extra[h]
          BY <1>0, <3>2, <3>4, <3>5, <4>1, <5>2
        <5> QED BY <5>1, <5>2
      <4> QED BY <1>0, <3>1, <3>6, <3>8, <4>1, HandlerKept
    <3>9. CASE g = h
      <4>1. ASSUME NEW j \in Keys, Clear(f, j)' PROVE Same(f, j)'
        <5>1. Clear(f, j)
          BY <2>0, <3>4, <4>1
        <5>2. j \in extra[h] \/ Same(f, j)
          BY <2>0, <3>1, <5>1 DEF HandlerInv, f
        <5>3. CASE j \in extra[h]
          BY <2>0, <3>2, <3>3, <5>1, <5>3 DEF Same
        <5>4. CASE j \notin extra[h]
          BY <2>0, <3>2, <3>5, <5>2, <5>4 DEF Same
        <5> QED BY <5>3, <5>4
      <4> QED BY <3>1, <3>6, <3>9, <4>1 DEF HandlerInv, f
    <3> QED BY <3>8, <3>9
  <2>7. ASSUME NEW k \in Keys, PushPrepare(h, k) PROVE SyncInv'
    <3>1. /\ UNCHANGED <<store, torn, doubt, sync, todo, extra>> /\ sync[h] = "pushing"
          /\ push' = [push EXCEPT ![h] = <<k, store[Leader][k]>>]
      BY <2>7 DEF PushPrepare, nodeVars, gateVars
    <3>2. /\ push'[h] = <<k, store[Leader][k]>> /\ \A g \in Syncs \ {h} : push'[g] = push[g]
      BY <3>1 DEF TypeOK
    <3> SUFFICES ASSUME NEW g \in Syncs PROVE HandlerInv(g)'
      BY DEF SyncInv
    <3>3. CASE g = h
      BY <2>0, <3>1, <3>2, <3>3 DEF HandlerInv, Clear, Same
    <3>4. CASE g # h
      BY <1>0, <3>1, <3>2, <3>4 DEF HandlerInv, Clear, Same
    <3> QED BY <3>3, <3>4
  <2> QED
    BY <1>3, <2>1, <2>2, <2>3, <2>4, <2>5, <2>6, <2>7 DEF SyncNext
<1>4. ASSUME NEW n \in Nodes, NEW t \in Tx, Janitor(n, t) PROVE SyncInv'
  BY <1>q, <1>4 DEF Janitor, syncVars, gateVars
<1>5. CASE RestartLeader
  BY <1>5 DEF RestartLeader, SyncInv, HandlerInv
<1>6. CASE UNCHANGED vars
  BY <1>q, <1>6 DEF vars, nodeVars, syncVars, gateVars
<1> QED
  BY <1>1, <1>2, <1>3, <1>4, <1>5, <1>6 DEF Next

\* A failed follower leaves the set of alive ones, nobody joins.
LEMMA MarkDeadShrinks ==
  ASSUME TypeOK, NEW F \in SUBSET Followers, view' = MarkDead(F)
  PROVE  AliveFollowers' = AliveFollowers \ F
BY DEF TypeOK, MarkDead, AliveFollowers

LEMMA CommitStep ==
  ASSUME TypeOK, GateInv, CommitInv, [Next]_vars
  PROVE  CommitInv'
<1> USE ReplicationAssumption
<1> DEFINE Busy(t) == pc[t] \in {"staged", "preparing", "prepared", "committed", "committing"}
<1> DEFINE Through(t) == pc[t] \in {"committed", "committing"}
<1>u. \A u \in Tx : KeyOf[u] \in Keys
  OBVIOUS
\* A step that admits nothing and commits nothing on the leader.
<1>q. ASSUME AliveFollowers' \subseteq AliveFollowers, doubt \subseteq doubt',
             store'[Leader] = store[Leader], had' = had, overlapped' = overlapped,
             Active' \subseteq Active,
             \A u \in Tx : Busy(u)' => Busy(u),
             \A u \in Tx : Through(u)' => Through(u)
      PROVE  CommitInv'
  BY <1>q DEF CommitInv, ContentOf
<1>1. ASSUME NEW t \in Tx, TxNext(t) PROVE CommitInv'
  <2>0. doubt \subseteq doubt'
    BY <1>1, TxTouches
  <2>1. CASE Admit(t)
    <3>1. /\ pc[t] = "new" /\ pc' = [pc EXCEPT ![t] = "admitted"]
          /\ UNCHANGED <<store, had>> /\ AliveFollowers' = AliveFollowers
          /\ overlapped' = IF ActiveOn(KeyOf[t]) # {}
                             THEN overlapped \union {KeyOf[t]} ELSE overlapped
      BY <2>1 DEF Admit, nodeVars, memberVars, AliveFollowers
    <3>2. Active' = Active \union {t}
      BY <3>1 DEF Active, TypeOK
    <3>3. \A u \in Active : KeyOf[u] = KeyOf[t] => KeyOf[t] \in overlapped'
      BY <3>1 DEF ActiveOn
    <3>4. overlapped \subseteq overlapped'
      BY <3>1
    <3> QED BY <2>0, <3>1, <3>2, <3>3, <3>4 DEF CommitInv, TypeOK, ContentOf
  <2>2. CASE Stage(t)
    <3>1. /\ pc[t] = "admitted" /\ pc' = [pc EXCEPT ![t] = "staged"]
          /\ UNCHANGED <<store, overlapped>> /\ AliveFollowers' = AliveFollowers
          /\ had' = IF AliveFollowers # {} THEN had \union {t} ELSE had
      BY <2>2 DEF Stage, memberVars, gateVars, AliveFollowers
    <3>2. Active' = Active
      BY <3>1 DEF Active, TypeOK
    <3> QED BY <2>0, <3>1, <3>2 DEF CommitInv, TypeOK, ContentOf
  <2>3. CASE \/ StageFails(t) \/ SendPrepares(t) \/ AllPrepared(t) \/ Refuse(t)
             \/ SendCommits(t)
    <3>1. /\ \E v \in {"refused", "preparing", "prepared", "aborting", "committing"} :
                pc' = [pc EXCEPT ![t] = v]
          /\ pc[t] \in {"admitted", "staged", "preparing", "prepared", "aborting", "committed"}
          /\ pc'[t] \in {"preparing", "prepared"} => Busy(t)
          /\ pc'[t] = "committing" => pc[t] = "committed"
          /\ UNCHANGED <<store, had, overlapped, view>>
      BY <2>3 DEF StageFails, SendPrepares, AllPrepared, Refuse,
                  SendCommits, TypeOK, nodeVars, memberVars, gateVars
    <3>2. Active' \subseteq Active /\ AliveFollowers' = AliveFollowers
      BY <3>1 DEF Active, TypeOK, AliveFollowers
    <3>3. \A u \in Tx : (Busy(u)' => Busy(u)) /\ (Through(u)' => Through(u))
      BY <3>1 DEF TypeOK
    <3> QED BY <1>q, <2>0, <3>1, <3>2, <3>3
  <2>4. CASE PrepareFailed(t) \/ Acknowledge(t)
    <3>1. /\ \E v \in {"aborting", "acked"} : pc' = [pc EXCEPT ![t] = v]
          /\ pc[t] \in {"preparing", "committing"}
          /\ UNCHANGED <<store, had, overlapped>>
          /\ view' = MarkDead(failed[t])
      BY <2>4 DEF PrepareFailed, Acknowledge, nodeVars, gateVars
    <3>2. AliveFollowers' \subseteq AliveFollowers
      BY <3>1, MarkDeadShrinks DEF TypeOK
    <3>3. Active' \subseteq Active
      BY <3>1 DEF Active, TypeOK
    <3>4. \A u \in Tx : (Busy(u)' => Busy(u)) /\ (Through(u)' => Through(u))
      BY <3>1 DEF TypeOK
    <3> QED BY <1>q, <2>0, <3>1, <3>2, <3>3, <3>4
  \* What t stores on the leader, it stores where no other write is committed.
  <2>s. ASSUME store' = Applied(Leader, t)
        PROVE  \A k \in Keys : store'[Leader][k] = IF k = KeyOf[t] THEN ContentOf(t)
                                                    ELSE store[Leader][k]
    BY <2>s DEF Applied, TypeOK, Nodes
  <2>t. \A u \in Tx : Through(u) => u \in Active
    BY DEF Active
  <2>5. CASE CommitLocal(t)
    <3>1. /\ pc[t] = "prepared" /\ pc' = [pc EXCEPT ![t] = "committed"]
          /\ UNCHANGED <<had, overlapped>> /\ AliveFollowers' = AliveFollowers
          /\ \A k \in Keys : store'[Leader][k] = IF k = KeyOf[t] THEN ContentOf(t)
                                                  ELSE store[Leader][k]
      BY <2>5, <2>s DEF CommitLocal, Commit, memberVars, gateVars, AliveFollowers
    <3>2. Active' = Active /\ t \in Active
      BY <3>1 DEF Active, TypeOK
    <3>4. \A u \in Tx : Through(u)' /\ KeyOf[u] \notin overlapped
            => store'[Leader][KeyOf[u]] = ContentOf(u)
      BY <1>u, <2>t, <3>1, <3>2 DEF CommitInv, TypeOK
    <3> QED BY <2>0, <3>1, <3>2, <3>4 DEF CommitInv, TypeOK, ContentOf
  <2>7. CASE CommitLocalFails(t)
    <3>1. /\ pc[t] = "prepared" /\ pc' = [pc EXCEPT ![t] = "aborting"]
          /\ UNCHANGED <<had, overlapped>> /\ AliveFollowers' = AliveFollowers
          /\ store' = store \/ store' = Applied(Leader, t)
      BY <2>7 DEF CommitLocalFails, TearCommit, memberVars, AliveFollowers
    <3>2. Active' = Active /\ t \in Active
      BY <3>1 DEF Active, TypeOK
    <3>3. \A u \in Tx : Busy(u)' => Busy(u) /\ u # t
      BY <3>1 DEF TypeOK
    <3>4. \A u \in Tx : Through(u)' => Through(u) /\ u # t
      BY <3>1 DEF TypeOK
    <3>5. \A u \in Tx : Through(u)' /\ KeyOf[u] \notin overlapped
            => store'[Leader][KeyOf[u]] = ContentOf(u)
      <4> SUFFICES ASSUME NEW u \in Tx, Through(u)', KeyOf[u] \notin overlapped
                   PROVE  store'[Leader][KeyOf[u]] = ContentOf(u)
        OBVIOUS
      <4>1. Through(u) /\ u # t /\ u \in Active
        BY <2>t, <3>4
      <4>2. KeyOf[u] # KeyOf[t] /\ store[Leader][KeyOf[u]] = ContentOf(u)
        BY <3>2, <4>1 DEF CommitInv
      <4> QED BY <1>u, <2>s, <3>1, <4>2
    <3> QED BY <2>0, <3>1, <3>2, <3>3, <3>5 DEF CommitInv, ContentOf
  <2>6. ASSUME NEW f \in Followers,
               \/ PrepareOK(t, f) \/ PrepareFails(t, f) \/ AbortCall(t, f)
               \/ CommitOK(t, f) \/ CommitFails(t, f) \/ LateCommit(f, t)
        PROVE  CommitInv'
    <3>1. UNCHANGED <<pc, had, overlapped, view>>
      BY <2>6 DEF PrepareOK, PrepareFails, AbortCall, CommitOK, CommitFails, LateCommit,
                  txVars, gateVars, memberVars
    <3>2. store' = store \/ store' = Applied(f, t)
      BY <2>6 DEF PrepareOK, PrepareFails, AbortCall, CommitOK, CommitFails, LateCommit,
                  Commit, TearCommit, nodeVars
    <3>3. store'[Leader] = store[Leader]
      BY <3>2 DEF Applied, TypeOK, Nodes
    <3>4. AliveFollowers' = AliveFollowers /\ Active' = Active
      BY <3>1 DEF AliveFollowers, Active
    <3> QED BY <1>q, <2>0, <3>1, <3>3, <3>4
  <2> QED
    BY <1>1, <2>1, <2>2, <2>3, <2>4, <2>5, <2>6, <2>7 DEF TxNext
<1>2. ASSUME NEW f \in Followers, FollowerNext(f) PROVE CommitInv'
  <2>1. UNCHANGED <<pc, had, overlapped>> /\ Active' = Active
    BY <1>2, RequestsKept DEF txVars, Active
  <2>2. doubt \subseteq doubt' /\ (view' = view \/ HeartbeatLost(f))
    BY <1>2 DEF FollowerNext, HeartbeatLost, ForceSync, LeaseExpires, RestartFollower,
                StrayLands, gateVars, memberVars
  <2>3. AliveFollowers' \subseteq AliveFollowers
    BY <2>2 DEF AliveFollowers, HeartbeatLost, TypeOK
  <2>4. store'[Leader] = store[Leader]
    BY <1>2 DEF FollowerNext, HeartbeatLost, ForceSync, LeaseExpires, RestartFollower,
                StrayLands, nodeVars, TypeOK, Nodes
  <2> QED BY <1>q, <2>1, <2>2, <2>3, <2>4
<1>3. ASSUME NEW h \in Syncs, SyncNext(h) PROVE CommitInv'
  <2>0. NodeOf[h] \in Followers
    OBVIOUS
  <2>1. UNCHANGED <<pc, had, overlapped>> /\ Active' = Active
    BY <1>3, RequestsKept DEF txVars, Active
  <2>2. store'[Leader] = store[Leader]
    <3>1. CASE PushCommit(h)
      BY <2>0, <3>1 DEF PushCommit, TypeOK, Nodes
    <3>2. CASE DeleteExtraneous(h)
      BY <2>0, <3>2 DEF DeleteExtraneous, TypeOK, Nodes
    <3> QED
      BY <1>3, <3>1, <3>2 DEF SyncNext, StartSync, SyncGivenUp, Drained, CompareKeys,
                MarkAlive, EndSync, SyncAnswer, SyncFails, PushPrepare, nodeVars
  <2>3. CASE MarkAlive(h)
    <3>1. /\ doubt' = doubt /\ sync[h] = "equal"
          /\ AliveFollowers' \subseteq AliveFollowers \union {NodeOf[h]}
      BY <2>3 DEF MarkAlive, AliveFollowers, TypeOK, gateVars
    <3>2. \A u \in Tx : Busy(u) => u \in Active
      BY DEF Active
    <3>3. \A u \in Active : <<NodeOf[h], KeyOf[u]>> \in doubt
      BY <3>1 DEF GateInv
    <3> QED BY <2>1, <2>2, <3>1, <3>2, <3>3 DEF CommitInv, ContentOf
  <2>4. CASE CompareKeys(h)
    <3>1. AliveFollowers' = AliveFollowers /\ doubt' = StillInDoubt(NodeOf[h])
      BY <2>4 DEF CompareKeys, AliveFollowers, memberVars
    <3>2. \A u \in Tx : Busy(u) => u \in ActiveOn(KeyOf[u])
      BY DEF Active, ActiveOn
    <3>3. \A u \in Tx, g \in Followers : Busy(u) /\ <<g, KeyOf[u]>> \in doubt
            => <<g, KeyOf[u]>> \in doubt'
      BY <3>1, <3>2 DEF StillInDoubt
    <3>4. \A g \in AliveFollowers : g \in Followers
      BY DEF AliveFollowers
    <3> QED BY <2>1, <2>2, <3>1, <3>3, <3>4 DEF CommitInv, ContentOf
  <2>5. CASE ~MarkAlive(h) /\ ~CompareKeys(h)
    <3>1. view' = view /\ doubt' = doubt
      BY <1>3, <2>5 DEF SyncNext, StartSync, SyncGivenUp, Drained, PushCommit,
                DeleteExtraneous, EndSync, SyncAnswer, SyncFails, PushPrepare, gateVars,
                memberVars
    <3> QED BY <1>q, <2>1, <2>2, <3>1 DEF AliveFollowers
  <2> QED BY <2>3, <2>4, <2>5
<1>4. ASSUME NEW n \in Nodes, NEW t \in Tx, Janitor(n, t) PROVE CommitInv'
  <2>1. UNCHANGED <<pc, had, overlapped, view, store, doubt>>
    BY <1>4 DEF Janitor, txVars, memberVars, gateVars
  <2> QED BY <1>q, <2>1 DEF AliveFollowers, Active
<1>5. CASE RestartLeader
  <2>1. AliveFollowers' = {} /\ store' = store /\ had' = had /\ overlapped' = overlapped
    BY <1>5 DEF RestartLeader, AliveFollowers
  <2>2. Active' = {}
    BY <1>5 DEF RestartLeader, Active, TypeOK
  <2>3. \A u \in Tx : ~Busy(u)'
    BY <2>2 DEF Active
  <2> QED BY <2>1, <2>2, <2>3 DEF CommitInv
<1>6. CASE UNCHANGED vars
  <2>1. UNCHANGED <<pc, had, overlapped, view, store, doubt>>
    BY <1>6 DEF vars, txVars, memberVars, gateVars, nodeVars
  <2> QED BY <1>q, <2>1 DEF AliveFollowers, Active
<1> QED
  BY <1>1, <1>2, <1>3, <1>4, <1>5, <1>6 DEF Next

LEMMA AgreeStep ==
  ASSUME IInv, [Next]_vars
  PROVE  AgreeInv'
<1> USE ReplicationAssumption
<1>0. TypeOK /\ GateInv /\ SyncInv /\ CommitInv /\ AgreeInv
  BY DEF IInv
<1>1. overlapped \subseteq overlapped'
  <2>1. ASSUME NEW t \in Tx, TxNext(t) PROVE overlapped \subseteq overlapped'
    BY <2>1 DEF TxNext, Admit, Stage, StageFails, SendPrepares, AllPrepared, PrepareFailed,
         Refuse, CommitLocal, CommitLocalFails, SendCommits, Acknowledge, PrepareOK,
         PrepareFails, AbortCall, CommitOK, CommitFails, LateCommit, gateVars
  <2> QED BY <2>1, RequestsKept DEF Next, RestartLeader
<1> SUFFICES ASSUME NEW g \in Followers, g \in AliveFollowers',
                    NEW k \in Keys, k \notin overlapped', Settled(g, k)'
             PROVE  (\/ store[g][k] = store[Leader][k]
                     \/ \E u \in Tx : KeyOf[u] = k /\ Owes(u, g))'
  BY DEF AgreeInv, AliveFollowers
<1> DEFINE Agreed == \/ store[g][k] = store[Leader][k]
                     \/ \E u \in Tx : KeyOf[u] = k /\ Owes(u, g)
<1>2. g \in AliveFollowers /\ Settled(g, k) => Agreed
  BY <1>0, <1>1 DEF AgreeInv
\* A step that leaves g and k alone and forgets no debt.
<1>k. ASSUME g \in AliveFollowers, Settled(g, k), store'[g][k] = store[g][k],
             store'[Leader][k] = store[Leader][k],
             \A u \in Tx : Owes(u, g) => Owes(u, g)'
      PROVE  Agreed'
  BY <1>2, <1>k
<1>q. ASSUME UNCHANGED <<store, torn>>, doubt \subseteq doubt',
             AliveFollowers' \subseteq AliveFollowers,
             \A u \in Tx : Owes(u, g) => Owes(u, g)'
      PROVE  Agreed'
  <2>1. g \in AliveFollowers /\ Settled(g, k)
    BY <1>q DEF Settled
  <2> QED BY <1>k, <1>q, <2>1
<1>o. ASSUME UNCHANGED txVars PROVE \A u \in Tx : Owes(u, g) => Owes(u, g)'
  BY <1>o DEF Owes, txVars
<1>3. ASSUME NEW t \in Tx, TxNext(t) PROVE Agreed'
  <2>0. doubt \subseteq doubt'
    BY <1>0, <1>3, TxTouches
  <2>1. CASE \/ Admit(t) \/ Stage(t) \/ StageFails(t) \/ SendPrepares(t) \/ AllPrepared(t)
             \/ Refuse(t)
             \/ \E f \in Followers : PrepareOK(t, f) \/ PrepareFails(t, f) \/ AbortCall(t, f)
    <3>1. UNCHANGED <<store, torn, view>>
      BY <2>1 DEF Admit, Stage, StageFails, SendPrepares, AllPrepared, Refuse,
                  PrepareOK, PrepareFails, AbortCall, nodeVars, memberVars
    <3>2. pc[t] \notin {"committed", "committing"}
      BY <2>1 DEF Admit, Stage, StageFails, SendPrepares, AllPrepared, Refuse,
                  PrepareOK, PrepareFails, AbortCall
    <3>3. \A u \in Tx \ {t} : pc'[u] = pc[u] /\ pending'[u] = pending[u]
                                /\ failed'[u] = failed[u]
      BY <1>0, <2>1 DEF Admit, Stage, StageFails, SendPrepares, AllPrepared, Refuse,
                  PrepareOK, PrepareFails, AbortCall, TypeOK
    <3>4. had \subseteq had'
      BY <2>1 DEF Admit, Stage, StageFails, SendPrepares, AllPrepared, Refuse,
                  PrepareOK, PrepareFails, AbortCall
    <3>5. \A u \in Tx : Owes(u, g) => Owes(u, g)'
      BY <3>2, <3>3, <3>4 DEF Owes
    <3> QED BY <1>q, <2>0, <3>1, <3>5 DEF AliveFollowers
  <2>2. CASE PrepareFailed(t)
    <3>1. /\ UNCHANGED <<store, torn, had>>
          /\ pc[t] = "preparing" /\ view' = MarkDead(failed[t])
          /\ \A u \in Tx \ {t} : pc'[u] = pc[u] /\ pending'[u] = pending[u]
                                   /\ failed'[u] = failed[u]
      BY <1>0, <2>2 DEF PrepareFailed, TypeOK
    <3>2. AliveFollowers' \subseteq AliveFollowers
      BY <1>0, <3>1, MarkDeadShrinks DEF TypeOK
    <3>3. \A u \in Tx : Owes(u, g) => Owes(u, g)'
      BY <3>1 DEF Owes
    <3> QED BY <1>q, <2>0, <3>1, <3>2, <3>3
  <2>l. Leader \in Nodes /\ Followers \subseteq Nodes /\ Leader # g
    BY DEF Nodes
  <2>3. CASE CommitLocal(t)
    <3>1. /\ pc[t] = "prepared" /\ pc' = [pc EXCEPT ![t] = "committed"]
          /\ UNCHANGED <<had, doubt, pending, failed>> /\ Commit(Leader, t)
          /\ AliveFollowers' = AliveFollowers
      BY <2>3 DEF CommitLocal, memberVars, gateVars, AliveFollowers
    <3>4. \A u \in Tx : Owes(u, g) => Owes(u, g)'
      BY <1>0, <3>1 DEF Owes, TypeOK
    <3>7. CASE k = KeyOf[t]
      <4>1. t \in had
        BY <1>0, <3>1, <3>7 DEF CommitInv, Settled
      <4>2. Owes(t, g)'
        BY <1>0, <3>1, <4>1 DEF Owes, TypeOK
      <4> QED BY <3>7, <4>2
    <3>8. CASE k # KeyOf[t]
      <4>1. /\ store'[g][k] = store[g][k] /\ store'[Leader][k] = store[Leader][k]
            /\ <<g, k>> \in torn' <=> <<g, k>> \in torn
            /\ <<Leader, k>> \in torn' <=> <<Leader, k>> \in torn
        BY <1>0, <2>l, <3>1, <3>8, CommitTouches
      <4>2. Settled(g, k)
        BY <3>1, <4>1 DEF Settled
      <4> QED BY <1>k, <3>1, <3>4, <4>1, <4>2
    <3> QED BY <3>7, <3>8
  <2>9. CASE CommitLocalFails(t)
    <3>1. /\ pc[t] = "prepared" /\ UNCHANGED <<had, failed, doubt>>
          /\ AliveFollowers' = AliveFollowers
          /\ \A u \in Tx \ {t} : pc'[u] = pc[u] /\ pending'[u] = pending[u]
      BY <1>0, <2>9 DEF CommitLocalFails, memberVars, AliveFollowers, TypeOK
    <3>2. \A u \in Tx : Owes(u, g) => Owes(u, g)'
      BY <3>1 DEF Owes
    <3>3. CASE UNCHANGED <<store, torn>>
      BY <1>q, <3>1, <3>2, <3>3
    <3>4. CASE TearCommit(Leader, t)
      <4>1. k # KeyOf[t]
        BY <3>4 DEF TearCommit, Settled
      <4>2. /\ store'[g][k] = store[g][k] /\ store'[Leader][k] = store[Leader][k]
            /\ <<g, k>> \in torn' <=> <<g, k>> \in torn
            /\ <<Leader, k>> \in torn' <=> <<Leader, k>> \in torn
        BY <1>0, <2>l, <3>4, <4>1, CommitTouches
      <4>3. Settled(g, k)
        BY <3>1, <4>2 DEF Settled
      <4> QED BY <1>k, <3>1, <3>2, <4>2, <4>3
    <3> QED BY <2>9, <3>3, <3>4 DEF CommitLocalFails
  <2>4. CASE SendCommits(t)
    <3>1. /\ pc[t] = "committed" /\ pc' = [pc EXCEPT ![t] = "committing"]
          /\ UNCHANGED <<store, torn, had, failed>> /\ AliveFollowers' = AliveFollowers
          /\ pending' = [pending EXCEPT ![t] = IF t \in had THEN AliveFollowers ELSE {}]
      BY <2>4 DEF SendCommits, nodeVars, memberVars, AliveFollowers
    <3>2. \A u \in Tx : Owes(u, g) => Owes(u, g)'
      BY <1>0, <3>1 DEF Owes, TypeOK
    <3> QED BY <1>q, <2>0, <3>1, <3>2
  <2>c. ASSUME NEW f \in Followers, Commit(f, t) \/ TearCommit(f, t), f # g \/ k # KeyOf[t]
        PROVE  /\ store'[g][k] = store[g][k] /\ store'[Leader][k] = store[Leader][k]
               /\ Settled(g, k)
    <3>1. /\ store'[g][k] = store[g][k] /\ store'[Leader][k] = store[Leader][k]
          /\ <<g, k>> \in torn' <=> <<g, k>> \in torn
          /\ <<Leader, k>> \in torn' <=> <<Leader, k>> \in torn
      BY <1>0, <2>l, <2>c, CommitTouches
    <3> QED BY <2>0, <3>1 DEF Settled
  <2>5. ASSUME NEW f \in Followers, CommitOK(t, f) PROVE Agreed'
    <3>1. /\ pc[t] = "committing" /\ UNCHANGED <<pc, had, failed>> /\ Commit(f, t)
          /\ AliveFollowers' = AliveFollowers
          /\ pending' = [pending EXCEPT ![t] = @ \ {f}]
      BY <2>5 DEF CommitOK, memberVars, AliveFollowers
    <3>2. CASE f = g /\ k = KeyOf[t]
      <4>1. Applied(f, t)[f][k] = ContentOf(t) /\ Applied(f, t)[Leader] = store[Leader]
        BY <1>0, <2>l, <3>2 DEF Applied, TypeOK
      <4>2. store[Leader][k] = ContentOf(t)
        BY <1>0, <1>1, <3>1, <3>2 DEF CommitInv
      <4> QED BY <3>1, <3>2, <4>1, <4>2 DEF Commit
    <3>3. CASE f # g
      <4>1. \A u \in Tx : Owes(u, g) => Owes(u, g)'
        BY <1>0, <3>1, <3>3 DEF Owes, TypeOK
      <4> QED BY <1>k, <2>c, <3>1, <3>3, <4>1
    <3>4. CASE k # KeyOf[t]
      <4>1. store[g][k] = store[Leader][k] \/ \E u \in Tx \ {t} : KeyOf[u] = k /\ Owes(u, g)
        BY <1>2, <2>c, <3>1, <3>4
      <4>2. \A u \in Tx \ {t} : Owes(u, g) => Owes(u, g)'
        BY <1>0, <3>1 DEF Owes, TypeOK
      <4> QED BY <2>c, <3>1, <3>4, <4>1, <4>2
    <3> QED BY <3>2, <3>3, <3>4
  <2>6. ASSUME NEW f \in Followers, CommitFails(t, f) PROVE Agreed'
    <3>1. /\ pc[t] = "committing" /\ UNCHANGED <<pc, had>> /\ AliveFollowers' = AliveFollowers
          /\ pending' = [pending EXCEPT ![t] = @ \ {f}]
          /\ failed' = [failed EXCEPT ![t] = @ \union {f}]
      BY <2>6 DEF CommitFails, memberVars, AliveFollowers
    <3>2. \A u \in Tx : Owes(u, g) => Owes(u, g)'
      BY <1>0, <3>1 DEF Owes, TypeOK
    <3>3. CASE UNCHANGED <<store, torn>>
      BY <1>q, <2>0, <3>1, <3>2, <3>3
    <3>4. CASE Commit(f, t) \/ TearCommit(f, t)
      <4>1. CASE f = g /\ k = KeyOf[t]
        <5>1. Owes(t, g)'
          BY <1>0, <3>1, <4>1 DEF Owes, TypeOK
        <5> QED BY <4>1, <5>1
      <4>2. CASE f # g \/ k # KeyOf[t]
        BY <1>k, <2>c, <3>1, <3>2, <3>4, <4>2
      <4> QED BY <4>1, <4>2
    <3> QED BY <2>6, <3>3, <3>4 DEF CommitFails, nodeVars
  <2>7. ASSUME NEW f \in Followers, LateCommit(f, t) PROVE Agreed'
    <3>1. /\ Commit(f, t) \/ TearCommit(f, t)
          /\ <<f, KeyOf[t]>> \in doubt' /\ UNCHANGED txVars /\ AliveFollowers' = AliveFollowers
      BY <2>7 DEF LateCommit, memberVars, AliveFollowers
    <3>2. f # g \/ k # KeyOf[t]
      BY <3>1 DEF Settled
    <3> QED BY <1>k, <1>o, <2>c, <3>1, <3>2
  <2>8. CASE Acknowledge(t)
    <3>1. /\ pc[t] = "committing" /\ pending[t] = {} /\ pc' = [pc EXCEPT ![t] = "acked"]
          /\ UNCHANGED <<store, torn, doubt, had, pending>> /\ view' = MarkDead(failed[t])
          /\ failed' = [failed EXCEPT ![t] = {}]
      BY <2>8 DEF Acknowledge, nodeVars, gateVars
    <3>2. AliveFollowers' = AliveFollowers \ failed[t]
      BY <1>0, <3>1, MarkDeadShrinks DEF TypeOK
    <3>3. ~Owes(t, g)
      BY <3>1, <3>2 DEF Owes
    <3>4. \A u \in Tx \ {t} : Owes(u, g) => Owes(u, g)'
      BY <1>0, <3>1 DEF Owes, TypeOK
    <3> QED BY <1>q, <3>1, <3>2, <3>3, <3>4
  <2> QED
    BY <1>3, <2>1, <2>2, <2>3, <2>4, <2>5, <2>6, <2>7, <2>8, <2>9 DEF TxNext
<1>4. ASSUME NEW f \in Followers, FollowerNext(f) PROVE Agreed'
  <2>1. \A u \in Tx : Owes(u, g) => Owes(u, g)'
    BY <1>4, <1>o, RequestsKept
  <2>2. CASE \/ HeartbeatLost(f) \/ ForceSync(f) \/ LeaseExpires(f) \/ RestartFollower(f)
    <3>1. UNCHANGED <<store, torn, doubt>> /\ (view' = view \/ HeartbeatLost(f))
      BY <2>2 DEF HeartbeatLost, ForceSync, LeaseExpires, RestartFollower, nodeVars, memberVars,
                  gateVars
    <3>2. AliveFollowers' \subseteq AliveFollowers
      BY <1>0, <3>1 DEF AliveFollowers, HeartbeatLost, TypeOK
    <3> QED BY <1>q, <2>1, <3>1, <3>2
  <2>3. ASSUME NEW j \in Keys, NEW c \in Contents, StrayLands(f, j, c) PROVE Agreed'
    <3>1. /\ AliveFollowers' = AliveFollowers /\ doubt' = doubt \union {<<f, j>>}
          /\ store' = [store EXCEPT ![f][j] = c]
          /\ torn' \in {torn \ {<<f, j>>}, torn \union {<<f, j>>}}
      BY <2>3 DEF StrayLands, memberVars, AliveFollowers
    <3>2. f # g \/ j # k
      BY <3>1 DEF Settled
    <3>3. store'[g][k] = store[g][k] /\ store'[Leader][k] = store[Leader][k]
      BY <1>0, <3>1, <3>2 DEF TypeOK, Nodes
    <3>4. Settled(g, k)
      BY <3>1, <3>2 DEF Settled
    <3> QED BY <1>k, <2>1, <3>1, <3>3, <3>4
  <2> QED BY <1>4, <2>2, <2>3 DEF FollowerNext
<1>5. ASSUME NEW h \in Syncs, SyncNext(h) PROVE Agreed'
  <2> DEFINE f == NodeOf[h]
  <2>0. f \in Followers /\ f # Leader /\ HandlerInv(h)
    BY <1>0 DEF SyncInv
  <2>1. \A u \in Tx : Owes(u, g) => Owes(u, g)'
    BY <1>5, <1>o, RequestsKept
  <2>2. CASE \/ StartSync(h) \/ SyncGivenUp(h) \/ Drained(h) \/ EndSync(h) \/ SyncAnswer(h)
             \/ SyncFails(h) \/ \E j \in Keys : PushPrepare(h, j)
    <3>1. UNCHANGED <<store, torn, doubt, view>>
      BY <2>2 DEF StartSync, SyncGivenUp, Drained, EndSync, SyncAnswer, SyncFails, PushPrepare,
                  nodeVars, memberVars, gateVars
    <3> QED BY <1>q, <2>1, <3>1 DEF AliveFollowers
  <2>3. CASE CompareKeys(h)
    <3>1. UNCHANGED <<store, torn, view>> /\ doubt' = StillInDoubt(f)
      BY <2>3 DEF CompareKeys, nodeVars, memberVars
    <3>2. g \in AliveFollowers /\ view[g] = "READY"
      BY <3>1 DEF AliveFollowers
    <3>3. CASE <<g, k>> \in doubt
      <4>1. store[g][k] = store[Leader][k]
        BY <3>1, <3>2, <3>3 DEF Settled, StillInDoubt
      <4> QED BY <3>1, <4>1
    <3>4. CASE <<g, k>> \notin doubt
      <4>1. Settled(g, k)
        BY <3>1, <3>4 DEF Settled
      <4> QED BY <1>k, <2>1, <3>1, <3>2, <4>1
    <3> QED BY <3>3, <3>4
  <2>4. CASE PushCommit(h)
    <3> DEFINE j == push[h][1]
    <3>1. /\ UNCHANGED <<view, doubt>> /\ push[h] # NoPush
          /\ store' = [store EXCEPT ![f][j] = push[h][2]] /\ torn' = torn \ {<<f, j>>}
      BY <2>4 DEF PushCommit, memberVars, gateVars
    <3>2. j \in Keys
      BY <1>0, <3>1 DEF TypeOK
    <3>3. /\ store'[Leader] = store[Leader]
          /\ store'[g][k] = IF g = f /\ k = j THEN push[h][2] ELSE store[g][k]
      BY <1>0, <2>0, <3>1, <3>2 DEF TypeOK, Nodes
    <3>4. CASE g = f /\ k = j
      <4>1. Clear(f, j)
        BY <2>0, <3>1, <3>4 DEF Settled, Clear
      <4>2. push[h][2] = store[Leader][j]
        BY <2>0, <3>1, <3>2, <4>1 DEF HandlerInv
      <4> QED BY <3>3, <3>4, <4>2
    <3>5. CASE g # f \/ k # j
      <4>1. Settled(g, k) /\ g \in AliveFollowers
        BY <2>0, <3>1, <3>5 DEF Settled, AliveFollowers
      <4> QED BY <1>k, <2>1, <3>3, <3>5, <4>1
    <3> QED BY <3>4, <3>5
  <2>5. CASE DeleteExtraneous(h)
    <3>1. /\ UNCHANGED <<view, doubt>> /\ sync[h] = "pushing"
          /\ torn' = torn \ ({f} \X extra[h])
          /\ store'[Leader] = store[Leader]
          /\ store'[g][k] = IF g = f /\ k \in extra[h] THEN None ELSE store[g][k]
      BY <1>0, <2>0, <2>5 DEF DeleteExtraneous, TypeOK, Nodes, memberVars, gateVars
    <3>2. CASE g = f /\ k \in extra[h]
      <4>1. Clear(f, k)
        BY <2>0, <3>1, <3>2 DEF Settled, Clear
      <4>2. store[Leader][k] = None
        BY <2>0, <3>1, <3>2, <4>1 DEF HandlerInv
      <4> QED BY <3>1, <3>2, <4>2
    <3>3. CASE g # f \/ k \notin extra[h]
      <4>1. Settled(g, k) /\ g \in AliveFollowers
        BY <2>0, <3>1, <3>3 DEF Settled, AliveFollowers
      <4> QED BY <1>k, <2>1, <3>1, <3>3, <4>1
    <3> QED BY <3>2, <3>3
  <2>6. CASE MarkAlive(h)
    <3>1. /\ UNCHANGED <<store, torn, doubt>> /\ sync[h] = "equal"
          /\ AliveFollowers' \subseteq AliveFollowers \union {f}
      BY <1>0, <2>6 DEF MarkAlive, nodeVars, gateVars, AliveFollowers, TypeOK
    <3>2. Settled(g, k)
      BY <3>1 DEF Settled
    <3>3. CASE g = f
      <4>1. Clear(f, k) /\ <<f, k>> \notin torn
        BY <3>2, <3>3 DEF Settled, Clear
      <4>2. store[f][k] = store[Leader][k]
        BY <2>0, <3>1, <4>1 DEF HandlerInv, Same
      <4> QED BY <3>1, <3>3, <4>2
    <3>4. CASE g # f
      BY <1>k, <2>1, <3>1, <3>2, <3>4
    <3> QED BY <3>3, <3>4
  <2> QED
    BY <1>5, <2>2, <2>3, <2>4, <2>5, <2>6 DEF SyncNext
<1>6. ASSUME NEW n \in Nodes, NEW t \in Tx, Janitor(n, t) PROVE Agreed'
  <2>1. UNCHANGED <<store, torn, view, txVars, doubt>>
    BY <1>6 DEF Janitor, memberVars, gateVars
  <2> QED BY <1>o, <1>q, <2>1 DEF AliveFollowers
<1>7. CASE RestartLeader
  BY <1>7 DEF RestartLeader, AliveFollowers
<1>8. CASE UNCHANGED vars
  <2>1. UNCHANGED <<store, torn, view, txVars, doubt>>
    BY <1>8 DEF vars, memberVars, gateVars, nodeVars
  <2> QED BY <1>o, <1>q, <2>1 DEF AliveFollowers
<1> QED
  BY <1>3, <1>4, <1>5, <1>6, <1>7, <1>8 DEF Next

LEMMA InvStep == IInv /\ [Next]_vars => IInv'
BY TypeStep, GateStep, SyncStep, CommitStep, AgreeStep DEF IInv

LEMMA InvInit == Init => IInv
BY ReplicationAssumption
   DEF Init, IInv, TypeOK, Contents, Nodes, NoPush, GateInv, SyncInv, HandlerInv, CommitInv,
       AgreeInv, AliveFollowers, Active, Clear, Same

\* Every READY follower holds what the leader holds, for each key that no write is
\* active on and whose writes never overlapped, and that is settled: whatever
\* leases expire, handlers of one follower run side by side, calls are left
\* running and commits fail, for any number of followers, writes and restarts.
THEOREM ReplicasAgree == Spec => []ReadyReplicasAgree
<1>1. IInv => ReadyReplicasAgree
  BY DEF IInv, AgreeInv, ReadyReplicasAgree, Owes, ActiveOn, Active
<1> QED
  BY <1>1, InvInit, InvStep, PTL DEF Spec

\* A follower becomes READY only when its settled objects are the leader's,
\* overlapping writes included.
THEOREM PromotionSafe == Spec => AliveOnlyWhenEqual
<1> DEFINE Promoted == \A f \in Followers : view[f] # "READY" /\ view'[f] = "READY" =>
                         \A k \in Keys : Settled(f, k) => store[f][k] = store[Leader][k]
<1>1. IInv /\ [Next]_vars => [Promoted]_vars
  <2> SUFFICES ASSUME IInv, Next, NEW g \in Followers,
                      view[g] # "READY", view'[g] = "READY",
                      NEW k \in Keys, Settled(g, k)
               PROVE  store[g][k] = store[Leader][k]
    OBVIOUS
  <2>1. ASSUME NEW t \in Tx, TxNext(t) PROVE FALSE
    <3>1. view' = view \/ view' = MarkDead(failed[t])
      BY <2>1 DEF TxNext, Admit, Stage, StageFails, SendPrepares, AllPrepared, PrepareFailed,
                Refuse, CommitLocal, CommitLocalFails, SendCommits, Acknowledge, PrepareOK,
                PrepareFails, AbortCall, CommitOK, CommitFails, LateCommit, memberVars
    <3> QED BY <3>1 DEF MarkDead
  <2>2. ASSUME NEW f \in Followers, FollowerNext(f) PROVE FALSE
    BY <2>2 DEF FollowerNext, HeartbeatLost, ForceSync, LeaseExpires, RestartFollower,
            StrayLands, memberVars, IInv, TypeOK
  <2>3. ASSUME NEW h \in Syncs, SyncNext(h) PROVE store[g][k] = store[Leader][k]
    <3>1. CASE MarkAlive(h)
      <4>1. g = NodeOf[h] /\ sync[h] = "equal" /\ HandlerInv(h)
        BY <3>1 DEF MarkAlive, IInv, SyncInv, TypeOK
      <4>2. Clear(g, k) /\ <<g, k>> \notin torn
        BY DEF Settled, Clear
      <4> QED BY <4>1, <4>2 DEF HandlerInv, Same
    <3>2. CASE ~MarkAlive(h)
      BY <2>3, <3>2 DEF SyncNext, StartSync, SyncGivenUp, Drained, CompareKeys, PushCommit,
            DeleteExtraneous, EndSync, SyncAnswer, SyncFails, PushPrepare, memberVars
    <3> QED BY <3>1, <3>2
  <2>4. ASSUME NEW n \in Nodes, NEW t \in Tx, Janitor(n, t) PROVE FALSE
    BY <2>4 DEF Janitor, memberVars
  <2>5. CASE RestartLeader
    BY <2>5 DEF RestartLeader
  <2> QED BY <2>1, <2>2, <2>3, <2>4, <2>5 DEF Next
<1> QED
  BY <1>1, InvInit, InvStep, PTL DEF Spec, AliveOnlyWhenEqual
=============================================================================
