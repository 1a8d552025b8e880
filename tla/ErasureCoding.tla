--------------------------- MODULE ErasureCoding ---------------------------
(***************************************************************************)
(* One object under erasure coding (internal/replication/ec/manager.go,    *)
(* the shard operations of filesystem.go and of the internal API): the     *)
(* leader turns a replicated object into k + m shards, removes the full    *)
(* copies, reads the object back from any k shards and restores shards     *)
(* that got lost, while clients replace or delete the object and followers *)
(* fall behind, are synchronised, or come back with an empty disk.         *)
(*                                                                         *)
(* A node holds a full data file, one metadata file and any number of      *)
(* shard files.  Only the shard named by the metadata (ECChunkIndex) can   *)
(* be found by others.  Contents are named by the request that wrote them; *)
(* Garbage is what Reconstruct makes of shards of different contents.      *)
(* Writes come one at a time (Replication treats overlapping ones), a node *)
(* commits in one step (FsRepository opens it up), and a reconstruction    *)
(* sees one state of the nodes that answer.                                *)
(***************************************************************************)
EXTENDS Integers, FiniteSets

CONSTANTS
  Leader, Followers,
  Tx,          \* client requests that replace the object
  Deletes,     \* the DELETEs among them
  K, M,        \* data and parity shards
  Nested,      \* the key contains a "/": DeleteAllECShards reads the top
               \* directory only and finds none of its shards
  MaxRaces,    \* bound: the requests, counted from the first, that may run
               \* beside a conversion or a repair
  None, Garbage

ASSUME CodingAssumption ==
  /\ Leader \notin Followers
  /\ IsFiniteSet(Followers)
  /\ Deletes \subseteq Tx
  /\ K \in Nat \ {0} /\ M \in Nat
  /\ Nested \in BOOLEAN
  /\ MaxRaces \in Nat
  /\ None \notin Tx /\ Garbage \notin Tx \union {None}
  /\ None \notin Followers \union {Leader}

VARIABLES
  data,    \* full data file of a node
  meta,    \* metadata file: content it describes, shard index (-1: REPLICA)
  shard,   \* shard files of a node
  alive,   \* AliveFollowers
  used,    \* requests made
  write,   \* the request being committed
  owed,    \* followers it has not been committed on
  conv,    \* ConvertToEC: content, next shard, targets, replicas to remove
  rep,     \* RepairECObject: metadata and data it works with, shards to push
  wipes,   \* how many disks have been lost
  cur,     \* history: content of the last request
  raced    \* history: that request ran beside a conversion or a repair

vars == <<data, meta, shard, alive, used, write, owed, conv, rep, wipes, cur,
          raced>>
nodeVars == <<data, meta, shard>>
writeVars == <<used, write, owed, cur>>

----------------------------------------------------------------------------

N == K + M
Indices == 0..N - 1
Nodes == Followers \union {Leader}
Contents == Tx \union {None, Garbage}

Replica == -1
NoMeta == [ver |-> None, idx |-> Replica]
IsEC(m) == m.idx # Replica
NoShards == [i \in Indices |-> None]

NoConv == [ver |-> None, at |-> 0, target |-> [i \in Indices |-> Leader],
           rest |-> {}]
NoRep == [ver |-> None, content |-> None, plan |-> [i \in Indices |-> None]]
Converting == conv.ver # None
Repairing == rep.ver # None

ContentOf(t) == IF t \in Deletes THEN None ELSE t

\* CommitTransaction (and DeleteObject) on one node: data and metadata are
\* replaced, the shards of the old object removed.
Store(n, c, idx) ==
  /\ data' = [data EXCEPT ![n] = c]
  /\ meta' = [meta EXCEPT ![n] = IF c = None THEN NoMeta ELSE [ver |-> c, idx |-> idx]]
  /\ shard' = IF Nested THEN shard ELSE [shard EXCEPT ![n] = NoShards]

\* PutECShard: the shard file, then the metadata.
MutPutECShard(n, i, v, c) ==
  /\ shard' = [shard EXCEPT ![n][i] = c]
  /\ meta' = [meta EXCEPT ![n] = [ver |-> v, idx |-> i + 1]]

PutECShard(n, i, v, c) ==
  /\ shard' = [shard EXCEPT ![n][i] = c]
  /\ meta' = [meta EXCEPT ![n] = [ver |-> v, idx |-> i]]

\* The same, sent to a follower and answered with an error: it may have been
\* carried out, or cut short after the shard file.
FailedPut(n, i, v, c) ==
  \/ UNCHANGED <<shard, meta>>
  \/ shard' = [shard EXCEPT ![n][i] = c] /\ UNCHANGED meta
  \/ PutECShard(n, i, v, c)

----------------------------------------------------------------------------
(* Reconstruction, from the metadata of the nodes S that answer.           *)

Holders(S, i) == {n \in S : IsEC(meta[n]) /\ meta[n].idx = i}
Claimed(S) == {i \in Indices : Holders(S, i) # {}}

\* shardLocations: for every index the last answer that claimed it.
Locations(S) ==
  {loc \in [Claimed(S) -> S] : \A i \in Claimed(S) : loc[i] \in Holders(S, i)}

\* The first K indices whose shard is really there are downloaded.
Found(loc) == {i \in DOMAIN loc : shard[loc[i]][i] # None}
Downloaded(loc) ==
  {i \in Found(loc) : Cardinality({j \in Found(loc) : j < i}) < K}
Enough(loc) == Cardinality(Found(loc)) >= K

\* codec.Reconstruct: nothing compares the result with the CRC32.
Reconstruct(loc) ==
  IF \A i \in Downloaded(loc) : shard[loc[i]][i] = meta[Leader].ver
  THEN meta[Leader].ver ELSE Garbage

\* What GetObject on the leader may return; empty if it can only fail.
GetObject(S) ==
  IF IsEC(meta[Leader])
  THEN {Reconstruct(loc) : loc \in {l \in Locations(S) : Enough(l)}}
  ELSE {data[Leader]} \ {None}

----------------------------------------------------------------------------

\* No object yet, and no follower has been synchronised.
Init ==
  /\ data = [n \in Nodes |-> None]
  /\ meta = [n \in Nodes |-> NoMeta]
  /\ shard = [n \in Nodes |-> NoShards]
  /\ alive = {}
  /\ used = {}
  /\ write = None /\ owed = {}
  /\ conv = NoConv
  /\ rep = NoRep
  /\ wipes = 0
  /\ cur = None
  /\ raced = FALSE

----------------------------------------------------------------------------
(* Client requests: committed on the leader, then on its followers; who has *)
(* not answered in the end is marked dead.                                  *)

BeginWrite(t) ==
  /\ write = None /\ t \notin used
  /\ Converting \/ Repairing => Cardinality(used) < MaxRaces
  /\ Store(Leader, ContentOf(t), Replica)
  /\ used' = used \union {t}
  /\ write' = t
  /\ owed' = alive
  /\ cur' = ContentOf(t)
  /\ raced' = (Converting \/ Repairing)
  /\ UNCHANGED <<alive, conv, rep, wipes>>

CommitFollower(f) ==
  /\ write # None /\ f \in owed
  /\ Store(f, ContentOf(write), Replica)
  /\ owed' = owed \ {f}
  /\ UNCHANGED <<alive, used, write, conv, rep, wipes, cur, raced>>

EndWrite ==
  /\ write # None
  /\ write' = None
  /\ alive' = alive \ owed
  /\ owed' = {}
  /\ UNCHANGED <<nodeVars, used, conv, rep, wipes, cur, raced>>

----------------------------------------------------------------------------
(* ConvertToEC.                                                            *)

\* The object is read and encoded, the targets are chosen: shard 0 stays on
\* the leader, the others go to followers that are alive.
ConvertBegin ==
  /\ ~Converting
  /\ write # None => Cardinality(used) <= MaxRaces
  /\ meta[Leader].ver # None /\ ~IsEC(meta[Leader])
  /\ data[Leader] # None
  /\ Cardinality(alive) + 1 >= N
  /\ \E T \in [Indices -> alive \union {Leader}] :
       /\ \A i, j \in Indices : T[i] = T[j] => i = j
       /\ T[0] = Leader
       /\ conv' = [ver |-> meta[Leader].ver, at |-> 0, target |-> T,
                   rest |-> alive \union {Leader}]
  /\ raced' = (raced \/ write # None)
  /\ UNCHANGED <<nodeVars, alive, writeVars, rep, wipes>>

ConvertShard ==
  /\ Converting /\ conv.at < N
  /\ PutECShard(conv.target[conv.at], conv.at, conv.ver, conv.ver)
  /\ conv' = [conv EXCEPT !.at = @ + 1]
  /\ UNCHANGED <<data, alive, writeVars, rep, wipes, raced>>

\* The first push that fails ends the conversion; what was stored stays.
MutConvertFails ==
  /\ Converting /\ conv.at \in 1..N - 1
  /\ FailedPut(conv.target[conv.at], conv.at, conv.ver, conv.ver)
  /\ conv' = [conv EXCEPT !.at = @ + 1]
  /\ UNCHANGED <<data, alive, writeVars, rep, wipes, raced>>

ConvertFails ==
  /\ Converting /\ conv.at \in 1..N - 1
  /\ FailedPut(conv.target[conv.at], conv.at, conv.ver, conv.ver)
  /\ conv' = NoConv
  /\ UNCHANGED <<data, alive, writeVars, rep, wipes, raced>>

\* removeReplicaFromAllNodes: the leader first, then the followers that were
\* alive; a follower that cannot be reached keeps its copy.
RemoveReplica(n) ==
  /\ Converting /\ conv.at = N /\ n \in conv.rest
  /\ Leader \in conv.rest => n = Leader
  /\ \/ data' = [data EXCEPT ![n] = None]
     \/ n # Leader /\ UNCHANGED data
  /\ conv' = IF conv.rest = {n} THEN NoConv ELSE [conv EXCEPT !.rest = @ \ {n}]
  /\ UNCHANGED <<meta, shard, alive, writeVars, rep, wipes, raced>>

----------------------------------------------------------------------------
(* RepairECObject.                                                         *)

\* Indices nobody claims are reconstructed and given out: the first to the
\* leader, the next ones to the known followers in turn.
RepairBegin ==
  /\ ~Repairing
  /\ meta[Leader].ver # None /\ IsEC(meta[Leader])
  /\ \E S \in SUBSET Nodes :
       /\ Leader \in S /\ Claimed(S) # Indices
       /\ \E loc \in Locations(S), plan \in [Indices \ Claimed(S) -> Nodes] :
            /\ Enough(loc)
            /\ \A i, j \in DOMAIN plan : plan[i] = plan[j] => i = j
            /\ \A i \in DOMAIN plan :
                 plan[i] = Leader <=> (\A j \in DOMAIN plan : i <= j)
            /\ rep' = [ver |-> meta[Leader].ver, content |-> Reconstruct(loc),
                       plan |-> [i \in Indices |->
                                   IF i \in DOMAIN plan THEN plan[i] ELSE None]]
  /\ UNCHANGED <<nodeVars, alive, writeVars, conv, wipes, raced>>

\* The lowest planned index is pushed; an error is only logged.
RepairPush(i) ==
  LET n == rep.plan[i]
      plan == [rep.plan EXCEPT ![i] = None] IN
  /\ Repairing /\ n # None
  /\ \A j \in Indices : j < i => rep.plan[j] = None
  /\ \/ PutECShard(n, i, rep.ver, rep.content)
     \/ n # Leader /\ FailedPut(n, i, rep.ver, rep.content)
  /\ rep' = IF plan = NoRep.plan THEN NoRep ELSE [rep EXCEPT !.plan = plan]
  /\ UNCHANGED <<data, alive, writeVars, conv, wipes, raced>>

----------------------------------------------------------------------------
(* Synchronisation of a follower; writes are blocked meanwhile.             *)

\* Equal CRC32 and size in the metadata: nothing is sent, whatever the
\* follower has in its other files.
MutInSync(f) == meta[f].ver # None <=> meta[Leader].ver # None
InSync(f) == meta[f].ver = meta[Leader].ver

\* pushObject: the object is read or reconstructed, and committed on the
\* follower as a full copy with the leader's own metadata.
PushObject(f) ==
  \E S \in SUBSET Nodes :
    /\ {Leader, f} \subseteq S
    /\ \E c \in GetObject(S) : Store(f, c, meta[Leader].idx)

Sync(f) ==
  /\ f \notin alive /\ write = None
  /\ \/ InSync(f) /\ UNCHANGED nodeVars
     \/ ~InSync(f) /\ meta[Leader].ver = None /\ Store(f, None, Replica)
     \/ ~InSync(f) /\ meta[Leader].ver # None /\ PushObject(f)
  /\ alive' = alive \union {f}
  /\ UNCHANGED <<writeVars, conv, rep, wipes, raced>>

HeartbeatFails(f) ==
  /\ f \in alive
  /\ alive' = alive \ {f}
  /\ UNCHANGED <<nodeVars, writeVars, conv, rep, wipes, raced>>

\* A follower comes back with an empty disk, M times at most.
Wipe(f) ==
  /\ wipes < M
  /\ wipes' = wipes + 1
  /\ data' = [data EXCEPT ![f] = None]
  /\ meta' = [meta EXCEPT ![f] = NoMeta]
  /\ shard' = [shard EXCEPT ![f] = NoShards]
  /\ alive' = alive \ {f}
  /\ owed' = owed \ {f}
  /\ UNCHANGED <<used, write, conv, rep, cur, raced>>

\* The leader's process is restarted: what it was doing is forgotten.
RestartLeader ==
  /\ write' = None /\ owed' = {}
  /\ conv' = NoConv
  /\ rep' = NoRep
  /\ alive' = {}
  /\ UNCHANGED <<nodeVars, used, wipes, cur, raced>>

Next ==
  \/ \E t \in Tx : BeginWrite(t)
  \/ EndWrite
  \/ ConvertBegin \/ ConvertShard \/ ConvertFails
  \/ RepairBegin
  \/ \E i \in Indices : RepairPush(i)
  \/ \E n \in Nodes : RemoveReplica(n)
  \/ \E f \in Followers : CommitFollower(f) \/ Sync(f) \/ HeartbeatFails(f) \/ Wipe(f)
  \/ RestartLeader

Spec == Init /\ [][Next]_vars

----------------------------------------------------------------------------

\* Type correctness: metadata never names a shard outside the code.
TypeOK ==
  /\ data \in [Nodes -> Contents]
  /\ meta \in [Nodes -> [ver : Contents, idx : Indices \union {Replica}]]
  /\ shard \in [Nodes -> [Indices -> Contents]]
  /\ alive \subseteq Followers
  /\ used \subseteq Tx
  /\ write \in Tx \union {None}
  /\ owed \subseteq Followers
  /\ conv \in [ver : Contents, at : 0..N, target : [Indices -> Nodes],
               rest : SUBSET Nodes]
  /\ rep \in [ver : Contents, content : Contents,
              plan : [Indices -> Nodes \union {None}]]
  /\ wipes \in 0..M
  /\ cur \in Contents
  /\ raced \in BOOLEAN

\* The content of the last request is never lost: the leader has the full copy,
\* or k different shards of it exist.  Failed conversions, repairs,
\* synchronisations, restarts and up to m lost disks do not change that; a
\* request that runs beside a conversion or a repair is not protected.
Recoverable ==
  ~raced /\ cur # None =>
    \/ data[Leader] = cur
    \/ Cardinality({i \in Indices : \E n \in Nodes : shard[n][i] = cur}) >= K

\* Whichever nodes answer, a GET on the leader that succeeds returns the content
\* of the last request, and no mixture of old and new shards.
ReadsCurrent ==
  ~raced /\ write = None =>
    \A S \in SUBSET Nodes : Leader \in S => GetObject(S) \subseteq {cur}
============================================================================
