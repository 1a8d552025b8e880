---------------------------- MODULE Replication ----------------------------
(***************************************************************************)
(* Replicated writes of MicroS3 with a fixed leader: the two-phase commit  *)
(* of PutObject and DeleteObject (s3app/service.go with                    *)
(* replication/replicator.go), the followers' side of it (internal_api     *)
(* handlers), the leader's view of its followers                           *)
(* (cluster/static_manager.go), the synchronisation the leader drives      *)
(* (replication/coordinator.go) on request of a follower                   *)
(* (replication/sync.go), the janitor of every node and restarts.          *)
(*                                                                         *)
(* A transaction is one client request; the content a PUT stores is named  *)
(* by its transaction, so two contents are equal iff the same transaction  *)
(* wrote them (their CRC32 and size tell them apart).  A commit that fails *)
(* on its way may leave the data of one object with the metadata of        *)
(* another: the key is torn on that node until the next commit of it.  The *)
(* write gate is WriteGate's, its lease included: one entry for each node  *)
(* that is synchronised, which expires and which any handler of that node  *)
(* ends.                                                                   *)
(***************************************************************************)
EXTENDS Integers, FiniteSets

CONSTANTS
  Followers,
  Leader,
  Tx,           \* client write requests, each made once
  Keys,
  KeyOf,        \* the key a transaction writes
  Deletes,      \* the transactions that are DELETEs
  Syncs,        \* handlers of sync requests
  NodeOf,       \* the follower a handler synchronises
  None,         \* the content of a key that does not exist
  MaxFaults     \* bound: how often a call, a commit, a lease or a node fails, or
                \* the janitor removes a transaction

ASSUME ReplicationAssumption ==
  /\ Leader \notin Followers
  /\ KeyOf \in [Tx -> Keys]
  /\ Deletes \subseteq Tx
  /\ None \notin Tx
  /\ NodeOf \in [Syncs -> Followers]
  /\ MaxFaults \in Nat

VARIABLES
  store,       \* committed objects of every node
  staged,      \* prepared transactions of every node, on disk
  view,        \* the leader's status of a follower
  local,       \* the follower's own status
  pc,          \* progress of a transaction in PutObject / DeleteObject
  had,         \* transactions that found followers alive after staging
  pending,     \* followers the running phase still waits for
  failed,      \* followers the running phase failed on
  torn,        \* <<n, k>>: a commit of k has failed on n after its first rename
  late,        \* <<f, t>>: a commit f has received, its caller gone
  stray,       \* <<f, <<k, c>>>>: the same for a push of content c, or a deletion
  lease,       \* followers with a sync lease
  sync,        \* progress of a handler of a sync request
  asked,       \* handlers whose caller still waits
  todo,        \* keys a handler still has to push
  extra,       \* keys it will delete
  push,        \* the object it has under way: <<key, content>>
  faults,      \* what has failed so far
  overlapped,  \* history: keys two active writes had in common
  halfway,     \* history: transactions whose commit failed on the leader after
               \* its first rename
  doubt        \* history: <<f, k>>: a write of k was admitted under a handler
               \* of f, or a call that nobody waits for has changed k on f,
               \* and no handler has compared the keys since

gateVars == <<lease, overlapped, halfway, doubt>>
nodeVars == <<store, staged, torn, late, stray>>
memberVars == <<view, local>>
txVars == <<pc, had, pending, failed>>
syncVars == <<sync, asked, todo, extra, push>>
vars == <<nodeVars, memberVars, txVars, gateVars, syncVars, faults>>

Nodes == Followers \union {Leader}
Contents == Tx \union {None}
NoPush == <<>>

----------------------------------------------------------------------------

ContentOf(t) == IF t \in Deletes THEN None ELSE t

\* activeWrites: transactions between the gate and their deferred exit.
Active == {t \in Tx : pc[t] \notin {"new", "acked", "refused", "lost"}}
ActiveOn(k) == {t \in Active : KeyOf[t] = k}

AliveFollowers == {f \in Followers : view[f] = "READY"}
MutMarkDead(F) == [f \in Followers |-> IF f \in F THEN "SYNCING" ELSE view[f]]
MarkDead(F) == [f \in Followers |-> IF f \in F THEN "OFFLINE" ELSE view[f]]

Applied(n, t) == [store EXCEPT ![n][KeyOf[t]] = ContentOf(t)]
Unstaged(n, t) == [staged EXCEPT ![n] = @ \ {t}]

\* CommitTransaction of node n: needs the staged transaction, consumes it.
Commit(n, t) ==
  /\ t \in staged[n]
  /\ store' = Applied(n, t)
  /\ staged' = Unstaged(n, t)
  /\ torn' = torn \ {<<n, KeyOf[t]>>}

\* It fails once it has begun to move or remove files.
TearCommit(n, t) ==
  /\ t \in staged[n]
  /\ store' \in {store, Applied(n, t)}
  /\ staged' = staged
  /\ torn' = torn \union {<<n, KeyOf[t]>>}

\* Of the bounded number of failures.
Fault == faults < MaxFaults /\ faults' = faults + 1

\* Handlers of f, and those of them that are past the gate.
SyncsOf(f) == {h \in Syncs : NodeOf[h] = f}
Running(f) == {h \in SyncsOf(f) : sync[h] \in {"drained", "pushing", "equal"}}

Init ==
  /\ store = [n \in Nodes |-> [k \in Keys |-> None]]
  /\ staged = [n \in Nodes |-> {}]
  /\ view = [f \in Followers |-> "OFFLINE"]
  /\ local = [f \in Followers |-> "SYNCING"]
  /\ pc = [t \in Tx |-> "new"]
  /\ had = {}
  /\ pending = [t \in Tx |-> {}]
  /\ failed = [t \in Tx |-> {}]
  /\ torn = {} /\ late = {} /\ stray = {}
  /\ lease = {}
  /\ sync = [h \in Syncs |-> "idle"]
  /\ asked = {}
  /\ todo = [h \in Syncs |-> {}]
  /\ extra = [h \in Syncs |-> {}]
  /\ push = [h \in Syncs |-> NoPush]
  /\ faults = 0
  /\ overlapped = {} /\ halfway = {} /\ doubt = {}

----------------------------------------------------------------------------
(* PutObject and DeleteObject on the leader.                               *)

\* The gate opens for t.
Admit(t) ==
  /\ pc[t] = "new"
  /\ lease = {}
  /\ pc' = [pc EXCEPT ![t] = "admitted"]
  /\ overlapped' = IF ActiveOn(KeyOf[t]) # {} THEN overlapped \union {KeyOf[t]}
                                              ELSE overlapped
  /\ doubt' = doubt \union {<<f, KeyOf[t]>> : f \in {g \in Followers : Running(g) # {}}}
  /\ UNCHANGED <<nodeVars, memberVars, had, pending, failed, lease, halfway,
                 syncVars, faults>>

\* 1. Stage locally, then ask once whether there are followers at all.
Stage(t) ==
  /\ pc[t] = "admitted"
  /\ pc' = [pc EXCEPT ![t] = "staged"]
  /\ staged' = [staged EXCEPT ![Leader] = @ \union {t}]
  /\ had' = IF AliveFollowers # {} THEN had \union {t} ELSE had
  /\ UNCHANGED <<store, torn, late, stray, memberVars, pending, failed, gateVars,
                 syncVars, faults>>

StageFails(t) ==
  /\ pc[t] = "admitted"
  /\ pc' = [pc EXCEPT ![t] = "refused"]
  /\ Fault
  /\ UNCHANGED <<nodeVars, memberVars, had, pending, failed, gateVars, syncVars>>

\* 2. PrepareAll sends to the followers alive when IT looks.
SendPrepares(t) ==
  /\ pc[t] = "staged"
  /\ pc' = [pc EXCEPT ![t] = "preparing"]
  /\ pending' = [pending EXCEPT ![t] = IF t \in had THEN AliveFollowers ELSE {}]
  /\ UNCHANGED <<nodeVars, memberVars, had, failed, gateVars, syncVars, faults>>

\* A follower stages the transaction (handlePrepare), and answers.
PrepareOK(t, f) ==
  /\ pc[t] = "preparing" /\ f \in pending[t]
  /\ staged' = [staged EXCEPT ![f] = @ \union {t}]
  /\ pending' = [pending EXCEPT ![t] = @ \ {f}]
  /\ UNCHANGED <<store, torn, late, stray, memberVars, pc, had, failed, gateVars,
                 syncVars, faults>>

\* The call fails; the follower may have staged it all the same.
PrepareFails(t, f) ==
  /\ pc[t] = "preparing" /\ f \in pending[t]
  /\ \/ staged' = staged
     \/ staged' = [staged EXCEPT ![f] = @ \union {t}]
  /\ pending' = [pending EXCEPT ![t] = @ \ {f}]
  /\ failed' = [failed EXCEPT ![t] = @ \union {f}]
  /\ Fault
  /\ UNCHANGED <<store, torn, late, stray, memberVars, pc, had, gateVars, syncVars>>

\* wg.Wait() returns: all prepared ...
AllPrepared(t) ==
  /\ pc[t] = "preparing" /\ pending[t] = {} /\ failed[t] = {}
  /\ pc' = [pc EXCEPT ![t] = "prepared"]
  /\ UNCHANGED <<nodeVars, memberVars, had, pending, failed, gateVars, syncVars,
                 faults>>

\* ... or not: MarkDead, abort locally, AbortAll to those still alive.
PrepareFailed(t) ==
  /\ pc[t] = "preparing" /\ pending[t] = {} /\ failed[t] # {}
  /\ view' = MarkDead(failed[t])
  /\ failed' = [failed EXCEPT ![t] = {}]
  /\ staged' = Unstaged(Leader, t)
  /\ pending' = [pending EXCEPT ![t] = {f \in Followers : view'[f] = "READY"}]
  /\ pc' = [pc EXCEPT ![t] = "aborting"]
  /\ UNCHANGED <<store, torn, late, stray, local, had, gateVars, syncVars, faults>>

\* handleAbort runs on a follower, or the call is lost: errors are ignored.
AbortCall(t, f) ==
  /\ pc[t] = "aborting" /\ f \in pending[t]
  /\ staged' \in {staged, Unstaged(f, t)}
  /\ pending' = [pending EXCEPT ![t] = @ \ {f}]
  /\ UNCHANGED <<store, torn, late, stray, memberVars, pc, had, failed, gateVars,
                 syncVars, faults>>

Refuse(t) ==
  /\ pc[t] = "aborting" /\ pending[t] = {}
  /\ pc' = [pc EXCEPT ![t] = "refused"]
  /\ UNCHANGED <<nodeVars, memberVars, had, pending, failed, gateVars, syncVars,
                 faults>>

\* 3. Commit locally.
CommitLocal(t) ==
  /\ pc[t] = "prepared"
  /\ Commit(Leader, t)
  /\ pc' = [pc EXCEPT ![t] = "committed"]
  /\ UNCHANGED <<late, stray, memberVars, had, pending, failed, gateVars, syncVars,
                 faults>>

\* That fails: the janitor has removed the staged files, or a rename or fsync
\* does not succeed.  The client is refused and nothing is undone.
CommitLocalFails(t) ==
  /\ pc[t] = "prepared"
  /\ \/ UNCHANGED <<store, staged, torn, halfway>>
     \/ TearCommit(Leader, t) /\ halfway' = halfway \union {t}
  /\ pending' = [pending EXCEPT ![t] = IF t \in had THEN AliveFollowers ELSE {}]
  /\ pc' = [pc EXCEPT ![t] = "aborting"]
  /\ IF t \notin staged[Leader] THEN faults' = faults ELSE Fault
  /\ UNCHANGED <<late, stray, memberVars, had, failed, lease, overlapped, doubt,
                 syncVars>>

\* 4. CommitAll sends to the followers alive when IT looks.
SendCommits(t) ==
  /\ pc[t] = "committed"
  /\ pc' = [pc EXCEPT ![t] = "committing"]
  /\ pending' = [pending EXCEPT ![t] = IF t \in had THEN AliveFollowers ELSE {}]
  /\ UNCHANGED <<nodeVars, memberVars, had, failed, gateVars, syncVars, faults>>

\* A follower commits (handleCommit), and answers.
CommitOK(t, f) ==
  /\ pc[t] = "committing" /\ f \in pending[t]
  /\ Commit(f, t)
  /\ pending' = [pending EXCEPT ![t] = @ \ {f}]
  /\ UNCHANGED <<late, stray, memberVars, pc, had, failed, gateVars, syncVars, faults>>

\* The call fails: the follower has not received it or has nothing staged, its
\* commit fails, its answer is lost, or it is still working on it.
CommitFails(t, f) ==
  /\ pc[t] = "committing" /\ f \in pending[t]
  /\ \/ UNCHANGED nodeVars
     \/ (Commit(f, t) \/ TearCommit(f, t)) /\ UNCHANGED <<late, stray>>
     \/ /\ t \in staged[f]
        /\ late' = late \union {<<f, t>>}
        /\ UNCHANGED <<store, staged, torn, stray>>
  /\ pending' = [pending EXCEPT ![t] = @ \ {f}]
  /\ failed' = [failed EXCEPT ![t] = @ \union {f}]
  /\ IF t \notin staged[f] THEN faults' = faults ELSE Fault
  /\ UNCHANGED <<memberVars, pc, had, gateVars, syncVars>>

LateCommit(f, t) ==
  /\ <<f, t>> \in late
  /\ Commit(f, t) \/ TearCommit(f, t)
  /\ late' = late \ {<<f, t>>}
  /\ doubt' = doubt \union {<<f, KeyOf[t]>>}
  /\ UNCHANGED <<stray, memberVars, txVars, lease, overlapped, halfway, syncVars,
                 faults>>

\* MarkDead for every failure, then success to the client in any case.
MutReportFailure(t) ==
  /\ pc[t] = "committing" /\ pending[t] = {}
  /\ view' = MarkDead(failed[t])
  /\ failed' = [failed EXCEPT ![t] = {}]
  /\ pc' = [pc EXCEPT ![t] = IF failed[t] = {} THEN "acked" ELSE "refused"]
  /\ UNCHANGED <<nodeVars, local, had, pending, gateVars, syncVars, faults>>

MutAcknowledge(t) ==
  /\ pc[t] = "committing" /\ pending[t] = {}
  /\ failed' = [failed EXCEPT ![t] = {}]
  /\ pc' = [pc EXCEPT ![t] = "acked"]
  /\ UNCHANGED <<nodeVars, memberVars, had, pending, gateVars, syncVars, faults>>

Acknowledge(t) ==
  /\ pc[t] = "committing" /\ pending[t] = {}
  /\ view' = MarkDead(failed[t])
  /\ failed' = [failed EXCEPT ![t] = {}]
  /\ pc' = [pc EXCEPT ![t] = "acked"]
  /\ UNCHANGED <<nodeVars, local, had, pending, gateVars, syncVars, faults>>

----------------------------------------------------------------------------
(* Membership: the leader's heartbeat of its followers.                    *)

\* checkFollowers: the failure that reaches MaxFailures.
HeartbeatLost(f) ==
  /\ view[f] = "READY"
  /\ view' = [view EXCEPT ![f] = "OFFLINE"]
  /\ UNCHANGED <<nodeVars, local, txVars, gateVars, syncVars, faults>>

\* checkFollowers: an OFFLINE follower answers and is told to synchronise
\* (SetStatus, handleSetStatus).  A call that is lost changes nothing; one that
\* is late finds its follower as RestartFollower may leave it.
ForceSync(f) ==
  /\ view[f] = "OFFLINE" /\ local[f] = "READY"
  /\ local' = [local EXCEPT ![f] = "SYNCING"]
  /\ UNCHANGED <<nodeVars, view, txVars, gateVars, syncVars, faults>>

----------------------------------------------------------------------------
(* Synchronisation of one follower: HandleSyncRequest.  A handler knows    *)
(* nothing of another one for the same follower, nor of its own lease.     *)

\* The follower's SyncWorker asks, one call at a time; StartSyncLease makes the
\* entry that closes the gate.
StartSync(h) ==
  /\ local[NodeOf[h]] = "SYNCING"
  /\ sync[h] = "idle" /\ asked \intersect SyncsOf(NodeOf[h]) = {}
  /\ sync' = [sync EXCEPT ![h] = "draining"]
  /\ asked' = asked \union {h}
  /\ lease' = lease \union {NodeOf[h]}
  /\ UNCHANGED <<nodeVars, memberVars, txVars, overlapped, halfway, doubt, todo,
                 extra, push, faults>>

\* The caller is gone or has waited too long: draining goes on.
SyncGivenUp(h) ==
  /\ h \in asked
  /\ asked' = asked \ {h}
  /\ Fault
  /\ UNCHANGED <<nodeVars, memberVars, txVars, gateVars, sync, todo, extra, push>>

\* Mutant: the drain is not waited for.
MutDrained(h) ==
  /\ sync[h] = "draining"
  /\ sync' = [sync EXCEPT ![h] = "drained"]
  /\ UNCHANGED <<nodeVars, memberVars, txVars, gateVars, asked, todo, extra, push,
                 faults>>

\* No write is active.
Drained(h) ==
  /\ sync[h] = "draining" /\ Active = {}
  /\ sync' = [sync EXCEPT ![h] = "drained"]
  /\ UNCHANGED <<nodeVars, memberVars, txVars, gateVars, asked, todo, extra, push,
                 faults>>

\* What a list of the keys of n may say: of a torn key, anything.
Listings(n) ==
  {l \in [Keys -> Contents] :
     \A k \in Keys : <<n, k>> \notin torn => l[k] = store[n][k]}

\* History: the handler of f that has compared the keys will repair what is in
\* doubt, unless another one is at work on f; keys that are written meanwhile, or
\* that differ on a follower that is READY already, stay in doubt.
StillInDoubt(f) ==
  {d \in doubt : d[1] = f =>
     \/ ActiveOn(d[2]) # {}
     \/ \E g \in Running(f) : sync[g] # "drained"
     \/ view[f] = "READY" /\ store[f][d[2]] # store[Leader][d[2]]}

\* SyncFollower reads both key lists.
CompareKeys(h) ==
  LET f == NodeOf[h] IN
  /\ sync[h] = "drained"
  /\ sync' = [sync EXCEPT ![h] = "pushing"]
  /\ \E l \in Listings(Leader), m \in Listings(f) :
       /\ todo' = [todo EXCEPT ![h] = {k \in Keys : l[k] # None /\ m[k] # l[k]}]
       /\ extra' = [extra EXCEPT ![h] = {k \in Keys : l[k] = None /\ m[k] # None}]
  /\ doubt' = StillInDoubt(f)
  /\ UNCHANGED <<nodeVars, memberVars, txVars, lease, overlapped, halfway, asked,
                 push, faults>>

\* pushObject reads the leader's object of the moment and prepares it ...
PushPrepare(h, k) ==
  /\ sync[h] = "pushing" /\ push[h] = NoPush /\ k \in todo[h]
  /\ store[Leader][k] # None
  /\ push' = [push EXCEPT ![h] = <<k, store[Leader][k]>>]
  /\ UNCHANGED <<nodeVars, memberVars, txVars, gateVars, sync, asked, todo, extra,
                 faults>>

\* ... and commits it on the follower.
PushCommit(h) ==
  LET f == NodeOf[h]
      k == push[h][1] IN
  /\ sync[h] = "pushing" /\ push[h] # NoPush
  /\ store' = [store EXCEPT ![f][k] = push[h][2]]
  /\ torn' = torn \ {<<f, k>>}
  /\ todo' = [todo EXCEPT ![h] = @ \ {k}]
  /\ push' = [push EXCEPT ![h] = NoPush]
  /\ UNCHANGED <<staged, late, stray, memberVars, txVars, gateVars, sync, asked,
                 extra, faults>>

\* handleSyncDelete removes what the leader does not have.
DeleteExtraneous(h) ==
  LET f == NodeOf[h] IN
  /\ sync[h] = "pushing" /\ push[h] = NoPush /\ todo[h] = {}
  /\ store' = [store EXCEPT ![f] =
       [k \in Keys |-> IF k \in extra[h] THEN None ELSE store[f][k]]]
  /\ torn' = torn \ ({f} \X extra[h])
  /\ extra' = [extra EXCEPT ![h] = {}]
  /\ sync' = [sync EXCEPT ![h] = "equal"]
  /\ UNCHANGED <<staged, late, stray, memberVars, txVars, gateVars, asked, todo,
                 push, faults>>

MarkAlive(h) ==
  /\ sync[h] = "equal"
  /\ view' = [view EXCEPT ![NodeOf[h]] = "READY"]
  /\ sync' = [sync EXCEPT ![h] = "alive"]
  /\ UNCHANGED <<nodeVars, local, txVars, gateVars, asked, todo, extra, push, faults>>

\* The deferred EndSyncLease, of whichever handler made the entry.
EndSync(h) ==
  /\ sync[h] = "alive"
  /\ lease' = lease \ {NodeOf[h]}
  /\ sync' = [sync EXCEPT ![h] = "answered"]
  /\ UNCHANGED <<nodeVars, memberVars, txVars, overlapped, halfway, doubt, asked, todo,
                 extra, push, faults>>

\* The answer reaches runSyncLoop, or does not.
SyncAnswer(h) ==
  /\ sync[h] = "answered"
  /\ sync' = [sync EXCEPT ![h] = "idle"]
  /\ local' \in {local} \union
       (IF h \in asked THEN {[local EXCEPT ![NodeOf[h]] = "READY"]} ELSE {})
  /\ asked' = asked \ {h}
  /\ UNCHANGED <<nodeVars, view, txVars, gateVars, todo, extra, push, faults>>

\* What the follower may still do of the calls of a handler that ends.
UnderWay(h) ==
  {NodeOf[h]} \X IF push[h] # NoPush THEN {push[h]}
                 ELSE IF sync[h] = "pushing" /\ todo[h] = {} THEN extra[h] \X {None}
                 ELSE {}

\* A call of SyncFollower fails (perhaps only its answer is lost), an object to
\* push has vanished, or the follower's connection is gone: the handler returns
\* early and removes the lease.
SyncFails(h) ==
  /\ h \in Running(NodeOf[h])
  /\ stray' \in {stray, stray \union UnderWay(h)}
  /\ sync' = [sync EXCEPT ![h] = "idle"]
  /\ asked' = asked \ {h}
  /\ lease' = lease \ {NodeOf[h]}
  /\ todo' = [todo EXCEPT ![h] = {}]
  /\ extra' = [extra EXCEPT ![h] = {}]
  /\ push' = [push EXCEPT ![h] = NoPush]
  /\ IF \E k \in todo[h] : store[Leader][k] = None THEN faults' = faults ELSE Fault
  /\ UNCHANGED <<store, staged, torn, late, memberVars, txVars, overlapped,
                 halfway, doubt>>

\* The follower ends what nobody waits for, or fails on its way.
StrayLands(f, k, c) ==
  /\ <<f, <<k, c>>>> \in stray
  /\ stray' = stray \ {<<f, <<k, c>>>>}
  /\ store' = [store EXCEPT ![f][k] = c]
  /\ torn' \in {torn \ {<<f, k>>}, torn \union {<<f, k>>}}
  /\ doubt' = doubt \union {<<f, k>>}
  /\ UNCHANGED <<staged, late, memberVars, txVars, lease, overlapped, halfway,
                 syncVars, faults>>

\* A writer at the gate finds the lease too old and removes it.
LeaseExpires(f) ==
  /\ f \in lease
  /\ lease' = lease \ {f}
  /\ Fault
  /\ UNCHANGED <<nodeVars, memberVars, txVars, overlapped, halfway, doubt, syncVars>>

----------------------------------------------------------------------------
(* Janitor and restarts.                                                   *)

\* CleanupExpiredTransactions: any staged transaction may be old enough, also
\* one its coordinator is still preparing.
Janitor(n, t) ==
  /\ t \in staged[n]
  /\ staged' = Unstaged(n, t)
  /\ Fault
  /\ UNCHANGED <<store, torn, late, stray, memberVars, txVars, gateVars, syncVars>>

\* A follower restarts: disk survives, handlers and calls do not.
RestartFollower(f) ==
  /\ local' = [local EXCEPT ![f] = "SYNCING"]
  /\ late' = {p \in late : p[1] # f}
  /\ stray' = {p \in stray : p[1] # f}
  /\ asked' = asked \ SyncsOf(f)
  /\ Fault
  /\ UNCHANGED <<store, staged, torn, view, txVars, gateVars, sync, todo, extra, push>>

\* The leader restarts: disk survives; requests, leases and statuses do not.
\* What followers have received of its calls they may still run.
RestartLeader ==
  /\ view' = [f \in Followers |-> "OFFLINE"]
  /\ pc' = [t \in Tx |-> IF t \in Active THEN "lost" ELSE pc[t]]
  /\ pending' = [t \in Tx |-> {}]
  /\ failed' = [t \in Tx |-> {}]
  /\ late' = late \union {p \in Followers \X Tx :
                            /\ pc[p[2]] = "committing" /\ p[1] \in pending[p[2]]
                            /\ p[2] \in staged[p[1]]}
  /\ stray' = stray \union UNION {UnderWay(h) : h \in Syncs}
  /\ lease' = {} /\ asked' = {}
  /\ sync' = [h \in Syncs |-> "idle"]
  /\ todo' = [h \in Syncs |-> {}]
  /\ extra' = [h \in Syncs |-> {}]
  /\ push' = [h \in Syncs |-> NoPush]
  /\ Fault
  /\ UNCHANGED <<store, staged, torn, local, had, overlapped, halfway, doubt>>

TxNext(t) ==
  \/ Admit(t) \/ Stage(t) \/ StageFails(t) \/ SendPrepares(t)
  \/ AllPrepared(t) \/ PrepareFailed(t) \/ Refuse(t)
  \/ CommitLocal(t) \/ CommitLocalFails(t) \/ SendCommits(t) \/ Acknowledge(t)
  \/ \E f \in Followers : \/ PrepareOK(t, f) \/ PrepareFails(t, f) \/ AbortCall(t, f)
                          \/ CommitOK(t, f) \/ CommitFails(t, f) \/ LateCommit(f, t)

FollowerNext(f) ==
  \/ HeartbeatLost(f) \/ ForceSync(f) \/ LeaseExpires(f) \/ RestartFollower(f)
  \/ \E k \in Keys, c \in Contents : StrayLands(f, k, c)

SyncNext(h) ==
  \/ StartSync(h) \/ SyncGivenUp(h) \/ Drained(h) \/ CompareKeys(h) \/ PushCommit(h)
  \/ DeleteExtraneous(h) \/ MarkAlive(h) \/ EndSync(h) \/ SyncAnswer(h) \/ SyncFails(h)
  \/ \E k \in Keys : PushPrepare(h, k)

Next ==
  \/ \E t \in Tx : TxNext(t)
  \/ \E f \in Followers : FollowerNext(f)
  \/ \E h \in Syncs : SyncNext(h)
  \/ \E n \in Nodes, t \in Tx : Janitor(n, t)
  \/ RestartLeader

Spec == Init /\ [][Next]_vars

----------------------------------------------------------------------------

\* Type correctness of the replicated state.
TypeOK ==
  /\ store \in [Nodes -> [Keys -> Contents]]
  /\ staged \in [Nodes -> SUBSET Tx]
  /\ view \in [Followers -> {"OFFLINE", "READY"}]
  /\ local \in [Followers -> {"SYNCING", "READY"}]
  /\ pc \in [Tx -> {"new", "admitted", "staged", "preparing", "prepared", "aborting",
                    "committed", "committing", "acked", "refused", "lost"}]
  /\ had \subseteq Tx
  /\ pending \in [Tx -> SUBSET Followers]
  /\ failed \in [Tx -> SUBSET Followers]
  /\ torn \subseteq Nodes \X Keys
  /\ late \subseteq Followers \X Tx
  /\ stray \subseteq Followers \X (Keys \X Contents)
  /\ lease \subseteq Followers
  /\ sync \in [Syncs -> {"idle", "draining", "drained", "pushing", "equal", "alive",
                         "answered"}]
  /\ asked \subseteq Syncs /\ faults \in 0..MaxFaults
  /\ todo \in [Syncs -> SUBSET Keys]
  /\ extra \in [Syncs -> SUBSET Keys]
  /\ push \in [Syncs -> {NoPush} \union (Keys \X Tx)]
  /\ overlapped \subseteq Keys /\ halfway \subseteq Tx
  /\ doubt \subseteq Followers \X Keys

\* Neither something beside its synchronisation nor a torn commit has touched k.
Settled(f, k) == <<f, k>> \notin doubt \union torn /\ <<Leader, k>> \notin torn

\* A follower the leader counts on (READY, it takes part in every 2PC) holds
\* what the leader holds for every key no write is active on, whatever calls,
\* nodes and staged files were lost, unless two writes of the key overlapped.
\* Excepted until the next comparison are keys with a write admitted while a
\* handler of the follower ran on without its lease, or changed there by a call
\* whose caller had given up, and until the next commit those left torn.
ReadyReplicasAgree ==
  \A f \in AliveFollowers, k \in Keys \ overlapped :
    Settled(f, k) /\ ActiveOn(k) = {} => store[f][k] = store[Leader][k]

\* The same for overlapping writes too: "Two-phase commit ensures data
\* consistency across all active replica nodes."
ActiveReplicasConsistent ==
  \A f \in AliveFollowers, k \in Keys :
    Settled(f, k) /\ ActiveOn(k) = {} => store[f][k] = store[Leader][k]

\* A request the client was told has failed leaves its content nowhere, even
\* where its abort was lost and its staged files stayed behind, unless its commit
\* on the leader failed with files already moved.
RefusedNeverVisible ==
  \A t \in Tx \ (Deletes \union halfway) : pc[t] = "refused" =>
    \A n \in Nodes : store[n][KeyOf[t]] # t

\* MarkAlive promotes only a follower that holds the leader's objects, also
\* those on which it had diverged, with the exceptions of ReadyReplicasAgree.
AliveOnlyWhenEqual ==
  [][\A f \in Followers : view[f] # "READY" /\ view'[f] = "READY" =>
       \A k \in Keys : Settled(f, k) => store[f][k] = store[Leader][k]]_vars
============================================================================
