------------------------ MODULE ErasureCoding_proofs ------------------------
(***************************************************************************)
(* Proofs about ErasureCoding for every code, set of requests and kind of  *)
(* key, and every cluster that has no more nodes than the code has shards. *)
(*                                                                         *)
(* The bound on the cluster is the code's own way to be safe: a conversion *)
(* needs as many live nodes as shards, so in such a cluster it starts when *)
(* every follower has the leader's version, and no stale shard is left     *)
(* that a read could take for a current one.                               *)
(***************************************************************************)
EXTENDS ErasureCoding, FiniteSetTheorems, TLAPS

\* A conversion takes every node.
ShardOnEveryNode == Cardinality(Followers) + 1 <= N

----------------------------------------------------------------------------

\* Whatever is stored comes from a request that was made; no metadata, no index.
Known == used \union {None, Garbage}
KnownInv ==
  /\ \A n \in Nodes : data[n] \in Known /\ meta[n].ver \in Known
  /\ \A n \in Nodes, i \in Indices : shard[n][i] \in Known
  /\ conv.ver \in Known /\ rep.ver \in Known /\ rep.content \in Known
  /\ \A n \in Nodes : meta[n].ver = None => meta[n] = NoMeta
  /\ write \in used \union {None} /\ (write = None => owed = {})

\* What a node may hold once the object is converted or about to be: metadata of
\* the current version whose shard is missing or current, or nothing but current
\* shards.
Clean(n) ==
  \/ meta[n].ver = cur /\ (IsEC(meta[n]) => shard[n][meta[n].idx] \in {None, cur})
  \/ meta[n] = NoMeta /\ \A i \in Indices : shard[n][i] \in {None, cur}

\* The leader's metadata are current; a request runs on a replicated object.
WriteInv ==
  /\ meta[Leader].ver = cur
  /\ write # None =>
       ~Converting /\ ~Repairing /\ ~IsEC(meta[Leader]) /\ ContentOf(write) = cur
  /\ \A f \in alive \ owed : meta[f].ver = cur

\* While the leader's metadata say REPLICA its data are current, and nobody has
\* a shard of the current version.
ReplicaInv ==
  ~IsEC(meta[Leader]) =>
    /\ data[Leader] = cur
    /\ \A n \in Nodes : meta[n].ver = cur => ~IsEC(meta[n])

\* Conversions and repairs work with the current version.
CodeInv ==
  /\ Converting \/ IsEC(meta[Leader]) => \A n \in Nodes : Clean(n)
  /\ Converting =>
       /\ conv.ver = cur
       /\ \A i, j \in Indices : conv.target[i] = conv.target[j] => i = j
       /\ conv.target[0] = Leader
       /\ conv.at >= 1 => IsEC(meta[Leader])
  /\ Repairing => rep.ver = cur /\ rep.content = cur /\ IsEC(meta[Leader])

\* Node n holds shard i with its metadata.  A follower that lost its disk gets
\* the metadata back last, and a synchronisation spares who has them.
Good(n, i) == shard[n][i] = cur /\ meta[n].ver = cur
Bad(T, k) == {i \in Indices : i < k /\ ~Good(T[i], i)}

\* Each lost disk has cost one shard of a placement on different nodes, no more;
\* the leader's full copy goes when all are placed.
PlacedInv ==
  /\ Converting =>
       /\ Cardinality(Bad(conv.target, conv.at)) <= wipes
       /\ conv.at < N => Leader \in conv.rest
       /\ Leader \in conv.rest => data[Leader] = cur
  /\ cur # None /\ data[Leader] # cur =>
       \E T \in [Indices -> Nodes] :
         /\ \A i, j \in Indices : T[i] = T[j] => i = j
         /\ Cardinality(Bad(T, N)) <= wipes

Safe == WriteInv /\ ReplicaInv /\ CodeInv /\ PlacedInv
CurrentInv == ~raced => Safe

----------------------------------------------------------------------------
(* Types.                                                                  *)

LEMMA IndexFacts ==
  /\ N \in Nat \ {0} /\ 0 \in Indices /\ Replica \notin Indices
  /\ \A i \in 0..N : i < N => i \in Indices /\ i + 1 \in 0..N
  /\ Leader \in Nodes /\ Followers \subseteq Nodes /\ None \notin Nodes
  /\ NoMeta \in [ver : Contents, idx : Indices \union {Replica}]
  /\ NoShards \in [Indices -> Contents]
BY CodingAssumption DEF N, Indices, Replica, Nodes, NoMeta, NoShards, Contents

LEMMA StoreType ==
  ASSUME TypeOK, NEW n \in Nodes, NEW c \in Contents, NEW x \in Indices \union {Replica},
         Store(n, c, x)
  PROVE  /\ data' \in [Nodes -> Contents]
         /\ meta' \in [Nodes -> [ver : Contents, idx : Indices \union {Replica}]]
         /\ shard' \in [Nodes -> [Indices -> Contents]]
<1>1. (IF c = None THEN NoMeta ELSE [ver |-> c, idx |-> x])
        \in [ver : Contents, idx : Indices \union {Replica}]
  BY IndexFacts
<1>2. data' \in [Nodes -> Contents]
  BY DEF Store, TypeOK
<1>3. meta' \in [Nodes -> [ver : Contents, idx : Indices \union {Replica}]]
  BY <1>1 DEF Store, TypeOK
<1>4. shard' \in [Nodes -> [Indices -> Contents]]
  BY IndexFacts DEF Store, TypeOK
<1> QED BY <1>2, <1>3, <1>4

LEMMA PutType ==
  ASSUME TypeOK, NEW n \in Nodes, NEW i \in Indices, NEW v \in Contents, NEW c \in Contents,
         FailedPut(n, i, v, c)
  PROVE  /\ meta' \in [Nodes -> [ver : Contents, idx : Indices \union {Replica}]]
         /\ shard' \in [Nodes -> [Indices -> Contents]]
<1>1. [ver |-> v, idx |-> i] \in [ver : Contents, idx : Indices \union {Replica}]
  OBVIOUS
<1>2. meta' = meta \/ meta' = [meta EXCEPT ![n] = [ver |-> v, idx |-> i]]
  BY DEF FailedPut, PutECShard
<1>3. shard' = shard \/ shard' = [shard EXCEPT ![n][i] = c]
  BY DEF FailedPut, PutECShard
<1>4. meta' \in [Nodes -> [ver : Contents, idx : Indices \union {Replica}]]
  <2> DEFINE R == [ver : Contents, idx : Indices \union {Replica}]
             r == [ver |-> v, idx |-> i]
  <2>1. meta \in [Nodes -> R] /\ r \in R
    BY <1>1 DEF TypeOK
  <2>2. meta' = meta \/ meta' = [meta EXCEPT ![n] = r]
    BY <1>2
  <2> HIDE DEF R, r
  <2>3. meta' \in [Nodes -> R]
    BY <2>1, <2>2
  <2> QED BY <2>3 DEF R
<1>5. shard' \in [Nodes -> [Indices -> Contents]]
  <2>1. shard \in [Nodes -> [Indices -> Contents]] /\ shard[n] \in [Indices -> Contents]
    BY DEF TypeOK
  <2>2. CASE shard' = [shard EXCEPT ![n][i] = c]
    <3>1. [shard[n] EXCEPT ![i] = c] \in [Indices -> Contents]
      BY <2>1
    <3> QED BY <2>1, <2>2, <3>1
  <2> QED BY <1>3, <2>1, <2>2
<1> QED BY <1>4, <1>5

LEMMA ReconstructType ==
  ASSUME TypeOK, NEW S \in SUBSET Nodes
  PROVE  /\ \A loc \in Locations(S) : Reconstruct(loc) \in Contents
         /\ GetObject(S) \subseteq Contents
<1>1. \A loc \in Locations(S) : Reconstruct(loc) \in Contents
  BY IndexFacts DEF Reconstruct, Contents, TypeOK
<1>2. GetObject(S) \subseteq Contents
  BY <1>1, IndexFacts DEF GetObject, TypeOK
<1> QED BY <1>1, <1>2

LEMMA ContentType == \A t \in Tx : ContentOf(t) \in Contents
BY DEF ContentOf, Contents

LEMMA NothingUnderWay ==
  /\ NoConv \in [ver : Contents, at : 0..N, target : [Indices -> Nodes], rest : SUBSET Nodes]
  /\ NoRep \in [ver : Contents, content : Contents, plan : [Indices -> Nodes \union {None}]]
<1>1. 0 \in 0..N /\ None \in Contents
  BY IndexFacts DEF Contents
<1> QED BY <1>1, IndexFacts DEF NoConv, NoRep

LEMMA TypeInit == Init => TypeOK
<1> SUFFICES ASSUME Init PROVE TypeOK
  OBVIOUS
<1>1. None \in Contents /\ 0 \in 0..M
  BY CodingAssumption DEF Contents
<1> QED BY <1>1, NothingUnderWay, IndexFacts DEF Init, TypeOK

\* A repair reconstructs from the shards that some of the nodes that answer claim.
RepairWith(loc, plan) ==
  /\ Enough(loc)
  /\ rep' = [ver |-> meta[Leader].ver, content |-> Reconstruct(loc),
             plan |-> [i \in Indices |-> IF i \in DOMAIN plan THEN plan[i] ELSE None]]

LEMMA RepairWitness ==
  ASSUME RepairBegin
  PROVE  \E S \in SUBSET Nodes :
           \E loc \in Locations(S), plan \in [Indices \ Claimed(S) -> Nodes] :
             RepairWith(loc, plan)
<1>1. PICK S \in SUBSET Nodes :
        /\ Leader \in S /\ Claimed(S) # Indices
        /\ \E loc \in Locations(S), plan \in [Indices \ Claimed(S) -> Nodes] :
             /\ Enough(loc)
             /\ \A i, j \in DOMAIN plan : plan[i] = plan[j] => i = j
             /\ \A i \in DOMAIN plan :
                  plan[i] = Leader <=> (\A j \in DOMAIN plan : i <= j)
             /\ rep' = [ver |-> meta[Leader].ver, content |-> Reconstruct(loc),
                        plan |-> [i \in Indices |->
                                    IF i \in DOMAIN plan THEN plan[i] ELSE None]]
  BY DEF RepairBegin
<1> QED BY <1>1, Zenon DEF RepairWith

LEMMA TypeStep == TypeOK /\ [Next]_vars => TypeOK'
<1> SUFFICES ASSUME TypeOK, [Next]_vars PROVE TypeOK'
  OBVIOUS
<1> USE IndexFacts
<1>1. ASSUME NEW t \in Tx, BeginWrite(t) PROVE TypeOK'
  <2>1. /\ data' \in [Nodes -> Contents]
        /\ meta' \in [Nodes -> [ver : Contents, idx : Indices \union {Replica}]]
        /\ shard' \in [Nodes -> [Indices -> Contents]]
    BY <1>1, ContentType, StoreType DEF BeginWrite
  <2>2. cur' \in Contents /\ raced' \in BOOLEAN
    BY <1>1, ContentType DEF BeginWrite, Converting, Repairing
  <2> QED BY <1>1, <2>1, <2>2 DEF BeginWrite, TypeOK
<1>2. CASE EndWrite
  BY <1>2 DEF EndWrite, TypeOK, nodeVars
<1>3. CASE ConvertBegin
  <2>1. PICK T \in [Indices -> alive \union {Leader}] :
          conv' = [ver |-> meta[Leader].ver, at |-> 0, target |-> T, rest |-> alive \union {Leader}]
    BY <1>3 DEF ConvertBegin
  <2>2. meta[Leader].ver \in Contents /\ T \in [Indices -> Nodes] /\ 0 \in 0..N
        /\ alive \union {Leader} \subseteq Nodes
    BY DEF TypeOK
  <2>3. conv' \in [ver : Contents, at : 0..N, target : [Indices -> Nodes], rest : SUBSET Nodes]
    BY <2>1, <2>2
  <2>4. raced' \in BOOLEAN
    BY <1>3 DEF ConvertBegin, TypeOK
  <2> QED BY <1>3, <2>3, <2>4 DEF ConvertBegin, TypeOK, nodeVars, writeVars
<1>4. CASE ConvertShard
  <2>1. conv.at \in Indices /\ conv.target[conv.at] \in Nodes /\ conv.ver \in Contents
    BY <1>4 DEF ConvertShard, TypeOK
  <2>2. FailedPut(conv.target[conv.at], conv.at, conv.ver, conv.ver)
    BY <1>4 DEF ConvertShard, FailedPut
  <2>3. /\ meta' \in [Nodes -> [ver : Contents, idx : Indices \union {Replica}]]
        /\ shard' \in [Nodes -> [Indices -> Contents]]
    BY <2>1, <2>2, PutType
  <2>4. conv' \in [ver : Contents, at : 0..N, target : [Indices -> Nodes], rest : SUBSET Nodes]
    BY <1>4 DEF ConvertShard, TypeOK
  <2> QED BY <1>4, <2>3, <2>4 DEF ConvertShard, TypeOK, writeVars
<1>5. CASE ConvertFails
  <2>1. conv.at \in Indices /\ conv.target[conv.at] \in Nodes /\ conv.ver \in Contents
    BY <1>5 DEF ConvertFails, TypeOK
  <2>2. /\ meta' \in [Nodes -> [ver : Contents, idx : Indices \union {Replica}]]
        /\ shard' \in [Nodes -> [Indices -> Contents]]
    BY <1>5, <2>1, PutType DEF ConvertFails
  <2>3. NoConv \in [ver : Contents, at : 0..N, target : [Indices -> Nodes], rest : SUBSET Nodes]
    BY NothingUnderWay
  <2> QED BY <1>5, <2>2, <2>3 DEF ConvertFails, TypeOK, writeVars
<1>6. CASE RepairBegin
  <2>0. PICK S \in SUBSET Nodes :
          \E loc \in Locations(S), plan \in [Indices \ Claimed(S) -> Nodes] :
            RepairWith(loc, plan)
    BY <1>6, RepairWitness
  <2>1. PICK loc \in Locations(S), plan \in [Indices \ Claimed(S) -> Nodes] :
          RepairWith(loc, plan)
    BY <2>0
  <2>4. rep' = [ver |-> meta[Leader].ver, content |-> Reconstruct(loc),
                  plan |-> [i \in Indices |-> IF i \in DOMAIN plan THEN plan[i] ELSE None]]
    BY <2>1 DEF RepairWith
  <2>2. meta[Leader].ver \in Contents /\ Reconstruct(loc) \in Contents
    BY ReconstructType DEF TypeOK
  <2>3. [i \in Indices |-> IF i \in DOMAIN plan THEN plan[i] ELSE None]
          \in [Indices -> Nodes \union {None}]
    OBVIOUS
  <2>5. rep' \in [ver : Contents, content : Contents, plan : [Indices -> Nodes \union {None}]]
    BY <2>2, <2>3, <2>4
  <2> QED BY <1>6, <2>5 DEF RepairBegin, TypeOK, nodeVars, writeVars
<1>7. ASSUME NEW i \in Indices, RepairPush(i) PROVE TypeOK'
  <2>1. rep.plan[i] \in Nodes /\ rep.ver \in Contents /\ rep.content \in Contents
    BY <1>7 DEF RepairPush, TypeOK
  <2>2. FailedPut(rep.plan[i], i, rep.ver, rep.content)
    BY <1>7 DEF RepairPush, FailedPut
  <2>3. /\ meta' \in [Nodes -> [ver : Contents, idx : Indices \union {Replica}]]
        /\ shard' \in [Nodes -> [Indices -> Contents]]
    BY <2>1, <2>2, PutType
  <2>4. NoRep \in [ver : Contents, content : Contents, plan : [Indices -> Nodes \union {None}]]
    BY NothingUnderWay
  <2>5. rep' \in [ver : Contents, content : Contents, plan : [Indices -> Nodes \union {None}]]
    BY <1>7, <2>4 DEF RepairPush, TypeOK
  <2> QED BY <1>7, <2>3, <2>5 DEF RepairPush, TypeOK, writeVars
<1>8. ASSUME NEW n \in Nodes, RemoveReplica(n) PROVE TypeOK'
  <2>1. data' \in [Nodes -> Contents]
    BY <1>8 DEF RemoveReplica, TypeOK, Contents
  <2>2. NoConv \in [ver : Contents, at : 0..N, target : [Indices -> Nodes], rest : SUBSET Nodes]
    BY NothingUnderWay
  <2>3. conv' \in [ver : Contents, at : 0..N, target : [Indices -> Nodes], rest : SUBSET Nodes]
    BY <1>8, <2>2 DEF RemoveReplica, TypeOK
  <2> QED BY <1>8, <2>1, <2>3 DEF RemoveReplica, TypeOK, writeVars
<1>9. ASSUME NEW f \in Followers, CommitFollower(f) PROVE TypeOK'
  <2>1. write \in Tx /\ f \in Nodes
    BY <1>9 DEF CommitFollower, TypeOK
  <2>2. /\ data' \in [Nodes -> Contents]
        /\ meta' \in [Nodes -> [ver : Contents, idx : Indices \union {Replica}]]
        /\ shard' \in [Nodes -> [Indices -> Contents]]
    BY <1>9, <2>1, ContentType, StoreType DEF CommitFollower
  <2> QED BY <1>9, <2>2 DEF CommitFollower, TypeOK
<1>10. ASSUME NEW f \in Followers, Sync(f) PROVE TypeOK'
  <2>1. meta[Leader].idx \in Indices \union {Replica} /\ f \in Nodes /\ None \in Contents
    BY DEF TypeOK, Contents
  <2>2. /\ data' \in [Nodes -> Contents]
        /\ meta' \in [Nodes -> [ver : Contents, idx : Indices \union {Replica}]]
        /\ shard' \in [Nodes -> [Indices -> Contents]]
    <3>1. CASE UNCHANGED nodeVars
      BY <3>1 DEF nodeVars, TypeOK
    <3>2. CASE Store(f, None, Replica)
      BY <2>1, <3>2, StoreType
    <3>3. CASE PushObject(f)
      <4>0. PICK S \in SUBSET Nodes : \E c \in GetObject(S) : Store(f, c, meta[Leader].idx)
        BY <3>3 DEF PushObject
      <4>1. PICK c \in GetObject(S) : Store(f, c, meta[Leader].idx)
        BY <4>0
      <4>2. c \in Contents
        BY <4>1, ReconstructType
      <4> QED BY <2>1, <4>1, <4>2, StoreType
    <3> QED BY <1>10, <3>1, <3>2, <3>3 DEF Sync
  <2> QED BY <1>10, <2>2 DEF Sync, TypeOK, writeVars
<1>11. ASSUME NEW f \in Followers, HeartbeatFails(f) PROVE TypeOK'
  BY <1>11 DEF HeartbeatFails, TypeOK, nodeVars, writeVars
<1>12. ASSUME NEW f \in Followers, Wipe(f) PROVE TypeOK'
  <2>1. /\ data' \in [Nodes -> Contents]
        /\ meta' \in [Nodes -> [ver : Contents, idx : Indices \union {Replica}]]
        /\ shard' \in [Nodes -> [Indices -> Contents]]
    BY <1>12 DEF Wipe, TypeOK, Contents
  <2>2. wipes' \in 0..M
    BY <1>12, CodingAssumption DEF Wipe, TypeOK
  <2> QED BY <1>12, <2>1, <2>2 DEF Wipe, TypeOK
<1>13. CASE RestartLeader
  <2>1. NoConv \in [ver : Contents, at : 0..N, target : [Indices -> Nodes], rest : SUBSET Nodes]
    BY NothingUnderWay
  <2>2. NoRep \in [ver : Contents, content : Contents, plan : [Indices -> Nodes \union {None}]]
    BY NothingUnderWay
  <2> QED BY <1>13, <2>1, <2>2 DEF RestartLeader, TypeOK, nodeVars
<1>14. CASE UNCHANGED vars
  BY <1>14 DEF vars, TypeOK
<1> QED
  BY <1>1, <1>2, <1>3, <1>4, <1>5, <1>6, <1>7, <1>8, <1>9, <1>10, <1>11, <1>12, <1>13, <1>14
  DEF Next

\* Types, and metadata that never name a shard outside the code, in every
\* behaviour and for clusters of any size.
THEOREM ErasureTypeCorrect == Spec => []TypeOK
BY TypeInit, TypeStep, PTL DEF Spec

----------------------------------------------------------------------------
(* What storing an object and putting a shard do to the nodes.             *)

LEMMA StoreFacts ==
  ASSUME TypeOK, NEW n \in Nodes, NEW c, NEW x, Store(n, c, x)
  PROVE  /\ data'[n] = c
         /\ meta'[n] = IF c = None THEN NoMeta ELSE [ver |-> c, idx |-> x]
         /\ meta'[n].ver = c
         /\ \A i \in Indices : shard'[n][i] \in {None, shard[n][i]}
         /\ \A m \in Nodes \ {n} :
              data'[m] = data[m] /\ meta'[m] = meta[m] /\ shard'[m] = shard[m]
<1>1. data'[n] = c /\ \A m \in Nodes \ {n} : data'[m] = data[m]
  BY DEF Store, TypeOK
<1>2. /\ meta'[n] = IF c = None THEN NoMeta ELSE [ver |-> c, idx |-> x]
      /\ \A m \in Nodes \ {n} : meta'[m] = meta[m]
  BY DEF Store, TypeOK
<1>3. meta'[n].ver = c
  BY <1>2 DEF NoMeta
<1>4. /\ \A i \in Indices : shard'[n][i] \in {None, shard[n][i]}
      /\ \A m \in Nodes \ {n} : shard'[m] = shard[m]
  BY DEF Store, TypeOK, NoShards
<1> QED BY <1>1, <1>2, <1>3, <1>4

LEMMA PutFacts ==
  ASSUME TypeOK, NEW n \in Nodes, NEW i \in Indices, NEW v, NEW c, FailedPut(n, i, v, c)
  PROVE  /\ \/ meta'[n] = meta[n]
            \/ meta'[n] = [ver |-> v, idx |-> i] /\ shard'[n][i] = c
         /\ shard'[n][i] \in {c, shard[n][i]}
         /\ \A j \in Indices \ {i} : shard'[n][j] = shard[n][j]
         /\ \A m \in Nodes \ {n} : meta'[m] = meta[m] /\ shard'[m] = shard[m]
<1>1. shard[n] \in [Indices -> Contents]
  BY DEF TypeOK
<1>2. ASSUME shard' = [shard EXCEPT ![n][i] = c]
      PROVE  /\ shard'[n][i] = c
             /\ \A j \in Indices \ {i} : shard'[n][j] = shard[n][j]
             /\ \A m \in Nodes \ {n} : shard'[m] = shard[m]
  BY <1>1, <1>2 DEF TypeOK
<1>3. ASSUME meta' = [meta EXCEPT ![n] = [ver |-> v, idx |-> i]]
      PROVE  /\ meta'[n] = [ver |-> v, idx |-> i]
             /\ \A m \in Nodes \ {n} : meta'[m] = meta[m]
  BY <1>3 DEF TypeOK
<1> QED BY <1>2, <1>3 DEF FailedPut, PutECShard

\* PutECShard answered with success.
LEMMA PutDone ==
  ASSUME TypeOK, NEW n \in Nodes, NEW i \in Indices, NEW v, NEW c, PutECShard(n, i, v, c)
  PROVE  FailedPut(n, i, v, c) /\ meta'[n] = [ver |-> v, idx |-> i] /\ shard'[n][i] = c
<1>1. shard[n] \in [Indices -> Contents]
  BY DEF TypeOK
<1> QED BY <1>1 DEF FailedPut, PutECShard, TypeOK

----------------------------------------------------------------------------
(* What is stored was requested.                                           *)

LEMMA ReadKnown ==
  ASSUME TypeOK, KnownInv, NEW S \in SUBSET Nodes
  PROVE  /\ \A loc \in Locations(S) : Reconstruct(loc) \in Known
         /\ GetObject(S) \subseteq Known
<1>1. \A loc \in Locations(S) : Reconstruct(loc) \in Known
  BY IndexFacts DEF Reconstruct, KnownInv, Known
<1>2. data[Leader] \in Known
  BY IndexFacts DEF KnownInv
<1> QED BY <1>1, <1>2 DEF GetObject

LEMMA PutKnown ==
  ASSUME TypeOK, KnownInv, NEW n \in Nodes, NEW i \in Indices, NEW v \in Known \ {None},
         NEW c \in Known, FailedPut(n, i, v, c), used' = used
  PROVE  /\ \A m \in Nodes :
              meta'[m].ver \in Known' /\ (meta'[m].ver = None => meta'[m] = NoMeta)
         /\ \A m \in Nodes, j \in Indices : shard'[m][j] \in Known'
<1>1. Known' = Known
  BY DEF Known
<1>2. /\ \/ meta'[n] = meta[n]
         \/ meta'[n] = [ver |-> v, idx |-> i]
      /\ shard'[n][i] \in {c, shard[n][i]}
      /\ \A j \in Indices \ {i} : shard'[n][j] = shard[n][j]
      /\ \A m \in Nodes \ {n} : meta'[m] = meta[m] /\ shard'[m] = shard[m]
  BY PutFacts
<1>3. ASSUME NEW m \in Nodes
      PROVE  meta'[m].ver \in Known /\ (meta'[m].ver = None => meta'[m] = NoMeta)
  <2>1. CASE meta'[m] = meta[m]
    BY <2>1 DEF KnownInv
  <2>2. CASE m = n /\ meta'[n] = [ver |-> v, idx |-> i]
    <3>1. meta'[m].ver = v
      BY <2>2
    <3> QED BY <3>1
  <2> QED BY <1>2, <2>1, <2>2
<1>4. ASSUME NEW m \in Nodes, NEW j \in Indices PROVE shard'[m][j] \in Known
  <2>1. shard[m][j] \in Known
    BY DEF KnownInv
  <2>2. shard'[m][j] \in {c, shard[m][j]}
    BY <1>2
  <2> QED BY <2>1, <2>2
<1> QED BY <1>1, <1>3, <1>4

LEMMA StoreKnown ==
  ASSUME TypeOK, KnownInv, NEW n \in Nodes, NEW c, NEW x, Store(n, c, x),
         c \in Known', Known \subseteq Known'
  PROVE  /\ \A m \in Nodes : data'[m] \in Known'
         /\ \A m \in Nodes :
              meta'[m].ver \in Known' /\ (meta'[m].ver = None => meta'[m] = NoMeta)
         /\ \A m \in Nodes, j \in Indices : shard'[m][j] \in Known'
<1>1. None \in Known'
  BY DEF Known
<1>0. /\ data'[n] = c /\ meta'[n].ver = c /\ (c = None => meta'[n] = NoMeta)
      /\ \A i \in Indices : shard'[n][i] \in {None, shard[n][i]}
      /\ \A m \in Nodes \ {n} :
           data'[m] = data[m] /\ meta'[m] = meta[m] /\ shard'[m] = shard[m]
  BY StoreFacts
<1>5. ASSUME NEW m \in Nodes
      PROVE  data[m] \in Known' /\ meta[m].ver \in Known' /\ (meta[m].ver = None => meta[m] = NoMeta)
  BY DEF KnownInv
<1>6. \A m \in Nodes, i \in Indices : shard[m][i] \in Known'
  BY DEF KnownInv
<1>2. \A m \in Nodes : data'[m] \in Known' /\ meta'[m].ver \in Known'
  BY <1>0, <1>5
<1>3. \A m \in Nodes : meta'[m].ver = None => meta'[m] = NoMeta
  BY <1>0, <1>5
<1>4. \A m \in Nodes, j \in Indices : shard'[m][j] \in Known'
  BY <1>0, <1>1, <1>6
<1> QED BY <1>2, <1>3, <1>4

LEMMA KnownStep == TypeOK /\ KnownInv /\ [Next]_vars => KnownInv'
<1> SUFFICES ASSUME TypeOK, KnownInv, [Next]_vars PROVE KnownInv'
  OBVIOUS
<1> USE IndexFacts
<1>0. None \in Known /\ NoConv.ver = None /\ NoRep.ver = None /\ NoRep.content = None
  BY DEF Known, NoConv, NoRep
<1>1. ASSUME NEW t \in Tx, BeginWrite(t) PROVE KnownInv'
  <2>1. used' = used \union {t} /\ write' = t /\ t # None /\ UNCHANGED <<conv, rep>>
    BY <1>1, CodingAssumption DEF BeginWrite
  <2>2. Known \subseteq Known' /\ ContentOf(t) \in Known'
    BY <2>1 DEF Known, ContentOf
  <2>3. Store(Leader, ContentOf(t), Replica)
    BY <1>1 DEF BeginWrite
  <2> QED BY <2>1, <2>2, <2>3, StoreKnown DEF KnownInv
<1>2. CASE EndWrite
  BY <1>2 DEF EndWrite, nodeVars, KnownInv, Known
<1>3. CASE ConvertBegin
  <2>1. conv'.ver = meta[Leader].ver
    BY <1>3 DEF ConvertBegin
  <2> QED BY <1>3, <2>1 DEF ConvertBegin, nodeVars, writeVars, KnownInv, Known
<1>4. CASE ConvertShard \/ ConvertFails
  <2>1. conv.at \in Indices /\ conv.target[conv.at] \in Nodes /\ conv.ver \in Known \ {None}
    BY <1>4 DEF ConvertShard, ConvertFails, Converting, TypeOK, KnownInv
  <2>2. FailedPut(conv.target[conv.at], conv.at, conv.ver, conv.ver)
    BY <1>4 DEF ConvertShard, ConvertFails, FailedPut
  <2>3. /\ UNCHANGED <<data, used, write, owed, rep>>
        /\ conv'.ver \in {conv.ver, None}
    BY <1>0, <1>4 DEF ConvertShard, ConvertFails, writeVars, TypeOK
  <2>4. Known' = Known
    BY <2>3 DEF Known
  <2> QED BY <1>0, <2>1, <2>2, <2>3, <2>4, PutKnown DEF KnownInv
<1>6. CASE RepairBegin
  <2>0. PICK S \in SUBSET Nodes :
          \E loc \in Locations(S), plan \in [Indices \ Claimed(S) -> Nodes] :
            RepairWith(loc, plan)
    BY <1>6, RepairWitness
  <2>1. PICK loc \in Locations(S), plan \in [Indices \ Claimed(S) -> Nodes] :
          RepairWith(loc, plan)
    BY <2>0
  <2>2. rep'.ver = meta[Leader].ver /\ rep'.content = Reconstruct(loc)
    BY <2>1 DEF RepairWith
  <2>3. rep'.ver \in Known /\ rep'.content \in Known
    BY <2>2, ReadKnown DEF KnownInv
  <2>4. Known' = Known /\ UNCHANGED <<data, meta, shard, conv, write, owed, used>>
    BY <1>6 DEF RepairBegin, nodeVars, writeVars, Known
  <2> QED BY <2>3, <2>4 DEF KnownInv
<1>7. ASSUME NEW i \in Indices, RepairPush(i) PROVE KnownInv'
  <2>1. rep.plan[i] \in Nodes /\ rep.ver \in Known \ {None} /\ rep.content \in Known
    BY <1>7 DEF RepairPush, Repairing, TypeOK, KnownInv
  <2>2. FailedPut(rep.plan[i], i, rep.ver, rep.content)
    BY <1>7 DEF RepairPush, FailedPut
  <2>3. /\ UNCHANGED <<data, used, write, owed, conv>>
        /\ rep'.ver \in {rep.ver, None} /\ rep'.content \in {rep.content, None}
    BY <1>0, <1>7 DEF RepairPush, writeVars, TypeOK
  <2>4. Known' = Known
    BY <2>3 DEF Known
  <2> QED BY <1>0, <2>1, <2>2, <2>3, <2>4, PutKnown DEF KnownInv
<1>8. ASSUME NEW n \in Nodes, RemoveReplica(n) PROVE KnownInv'
  <2>1. /\ UNCHANGED <<meta, shard, used, write, owed, rep>>
        /\ conv'.ver \in {conv.ver, None}
    BY <1>0, <1>8 DEF RemoveReplica, writeVars, TypeOK
  <2>2. \A m \in Nodes : data'[m] \in {data[m], None}
    BY <1>8 DEF RemoveReplica, TypeOK
  <2> QED BY <1>0, <2>1, <2>2 DEF KnownInv, Known
<1>9. ASSUME NEW f \in Followers, CommitFollower(f) PROVE KnownInv'
  <2>1. UNCHANGED <<used, write, conv, rep>> /\ write # None
    BY <1>9 DEF CommitFollower
  <2>2. Store(f, ContentOf(write), Replica)
    BY <1>9 DEF CommitFollower
  <2>3. ContentOf(write) \in Known /\ Known' = Known
    BY <2>1 DEF KnownInv, Known, ContentOf
  <2> QED BY <2>1, <2>2, <2>3, StoreKnown DEF KnownInv
<1>10. ASSUME NEW f \in Followers, Sync(f) PROVE KnownInv'
  <2>1. Known' = Known /\ UNCHANGED <<used, write, owed, conv, rep>>
    BY <1>10 DEF Sync, writeVars, Known
  <2>2. CASE UNCHANGED nodeVars
    BY <2>1, <2>2 DEF nodeVars, KnownInv
  <2>3. CASE Store(f, None, Replica)
    BY <1>0, <2>1, <2>3, StoreKnown DEF KnownInv
  <2>4. CASE PushObject(f)
    <3>0. PICK S \in SUBSET Nodes : \E c \in GetObject(S) : Store(f, c, meta[Leader].idx)
      BY <2>4 DEF PushObject
    <3>1. PICK c \in GetObject(S) : Store(f, c, meta[Leader].idx)
      BY <3>0
    <3>2. c \in Known
      BY <3>1, ReadKnown
    <3> QED BY <2>1, <3>1, <3>2, StoreKnown DEF KnownInv
  <2> QED BY <1>10, <2>2, <2>3, <2>4 DEF Sync
<1>11. ASSUME NEW f \in Followers, HeartbeatFails(f) PROVE KnownInv'
  BY <1>11 DEF HeartbeatFails, nodeVars, writeVars, KnownInv, Known
<1>12. ASSUME NEW f \in Followers, Wipe(f) PROVE KnownInv'
  <2>1. UNCHANGED <<used, write, conv, rep>> /\ owed' = owed \ {f} /\ Known' = Known
    BY <1>12 DEF Wipe, Known
  <2>2. \A n \in Nodes : data'[n] \in Known /\ meta'[n].ver \in Known
    BY <1>0, <1>12 DEF Wipe, KnownInv, NoMeta, TypeOK
  <2>3. \A n \in Nodes : meta'[n].ver = None => meta'[n] = NoMeta
    BY <1>12 DEF Wipe, KnownInv, TypeOK
  <2>4. \A n \in Nodes, i \in Indices : shard'[n][i] \in Known
    BY <1>0, <1>12 DEF Wipe, KnownInv, NoShards, TypeOK
  <2> QED BY <2>1, <2>2, <2>3, <2>4 DEF KnownInv
<1>13. CASE RestartLeader
  BY <1>0, <1>13 DEF RestartLeader, nodeVars, KnownInv, Known
<1>14. CASE UNCHANGED vars
  BY <1>14 DEF vars, KnownInv, Known
<1> QED
  BY <1>1, <1>2, <1>3, <1>4, <1>6, <1>7, <1>8, <1>9, <1>10, <1>11, <1>12, <1>13, <1>14
  DEF Next

----------------------------------------------------------------------------
(* Reading.                                                                *)

\* Whoever answers, what is reconstructed is current: the shards claimed by the
\* nodes of a converted object are missing or current.
LEMMA ReadCurrent ==
  ASSUME TypeOK, Safe, NEW S \in SUBSET Nodes
  PROVE  /\ IsEC(meta[Leader]) => \A loc \in Locations(S) : Reconstruct(loc) = cur
         /\ GetObject(S) \subseteq {cur}
<1>1. ASSUME IsEC(meta[Leader]), NEW loc \in Locations(S) PROVE Reconstruct(loc) = cur
  <2>1. meta[Leader].ver = cur /\ \A n \in Nodes : Clean(n)
    BY <1>1 DEF Safe, WriteInv, CodeInv
  <2>2. ASSUME NEW i \in Downloaded(loc) PROVE shard[loc[i]][i] = cur
    <3>1. i \in Claimed(S) /\ i \in Indices /\ shard[loc[i]][i] # None
      BY DEF Downloaded, Found, Locations, Claimed
    <3>2. loc[i] \in Nodes /\ IsEC(meta[loc[i]]) /\ meta[loc[i]].idx = i
      BY <3>1 DEF Locations, Holders
    <3>3. Clean(loc[i]) /\ meta[loc[i]] # NoMeta
      BY <2>1, <3>2 DEF IsEC, NoMeta
    <3> QED BY <3>1, <3>2, <3>3 DEF Clean
  <2> QED BY <2>1, <2>2 DEF Reconstruct
<1>2. ~IsEC(meta[Leader]) => data[Leader] = cur
  BY DEF Safe, ReplicaInv
<1> QED BY <1>1, <1>2 DEF GetObject

----------------------------------------------------------------------------
(* Counting shards.                                                        *)

LEMMA FewerBad ==
  ASSUME NEW A \in SUBSET Indices, NEW B \in SUBSET Indices
  PROVE  /\ Cardinality(A) \in Nat /\ Cardinality(B) \in Nat
         /\ A \subseteq B => Cardinality(A) <= Cardinality(B)
         /\ (\A i, j \in A \ B : i = j) => Cardinality(A) <= Cardinality(B) + 1
<1>1. IsFiniteSet(Indices)
  BY IndexFacts, FS_Interval DEF Indices
<1>2. IsFiniteSet(A) /\ IsFiniteSet(B)
  BY <1>1, FS_Subset
<1>3. Cardinality(A) \in Nat /\ Cardinality(B) \in Nat
  BY <1>2, FS_CardinalityType
<1>4. A \subseteq B => Cardinality(A) <= Cardinality(B)
  BY <1>2, FS_Subset
<1>5. ASSUME \A i, j \in A \ B : i = j PROVE Cardinality(A) <= Cardinality(B) + 1
  <2>1. CASE A \subseteq B
    BY <1>3, <1>4, <2>1
  <2>2. CASE ~(A \subseteq B)
    <3>1. PICK j \in A \ B : TRUE
      BY <2>2
    <3>2. A \subseteq B \union {j}
      BY <1>5
    <3>3. IsFiniteSet(B \union {j}) /\ Cardinality(B \union {j}) = Cardinality(B) + 1
      BY <1>2, <3>1, FS_AddElement
    <3> QED BY <3>2, <3>3, FS_Subset
  <2> QED BY <2>1, <2>2
<1> QED BY <1>3, <1>4, <1>5

\* A step that takes no shard from a node that has its metadata.
LEMMA PlacedKept ==
  ASSUME TypeOK, TypeOK', PlacedInv,
         \A n \in Nodes, i \in Indices : Good(n, i) => Good(n, i)',
         data'[Leader] = data[Leader], cur' = cur, wipes' = wipes,
         conv' = conv \/ ~Converting'
  PROVE  PlacedInv'
<1>1. ASSUME NEW T \in [Indices -> Nodes], Cardinality(Bad(T, N)) <= wipes
      PROVE  Cardinality(Bad(T, N)') <= wipes
  <2>1. Bad(T, N)' \subseteq Bad(T, N) /\ Bad(T, N)' \in SUBSET Indices /\ Bad(T, N) \in SUBSET Indices
    BY DEF Bad
  <2>2. /\ Cardinality(Bad(T, N)') \in Nat /\ Cardinality(Bad(T, N)) \in Nat
        /\ Cardinality(Bad(T, N)') <= Cardinality(Bad(T, N))
    BY <2>1, FewerBad
  <2> QED BY <1>1, <2>2 DEF TypeOK
<1>2. ASSUME Converting' PROVE Cardinality(Bad(conv.target, conv.at)') <= wipes
  <2>1. conv' = conv /\ Converting
    BY <1>2 DEF Converting
  <2>2. Bad(conv.target, conv.at)' \subseteq Bad(conv.target, conv.at)
    BY <2>1 DEF Bad, TypeOK
  <2>3. /\ Bad(conv.target, conv.at)' \in SUBSET Indices
        /\ Bad(conv.target, conv.at) \in SUBSET Indices
    BY DEF Bad
  <2>4. /\ Cardinality(Bad(conv.target, conv.at)') \in Nat
        /\ Cardinality(Bad(conv.target, conv.at)) \in Nat
        /\ Cardinality(Bad(conv.target, conv.at)') <= Cardinality(Bad(conv.target, conv.at))
    BY <2>2, <2>3, FewerBad
  <2> QED BY <2>1, <2>4 DEF PlacedInv, TypeOK
<1>3. ASSUME cur' # None, data'[Leader] # cur'
      PROVE  \E T \in [Indices -> Nodes] :
               /\ \A i, j \in Indices : T[i] = T[j] => i = j
               /\ Cardinality(Bad(T, N)') <= wipes
  <2>1. PICK T \in [Indices -> Nodes] :
          /\ \A i, j \in Indices : T[i] = T[j] => i = j
          /\ Cardinality(Bad(T, N)) <= wipes
    BY <1>3 DEF PlacedInv
  <2> QED BY <1>1, <2>1
<1>4. ASSUME Converting'
      PROVE  /\ conv'.at < N => Leader \in conv'.rest
             /\ Leader \in conv'.rest => data'[Leader] = cur'
  BY <1>4 DEF PlacedInv, Converting
<1> QED BY <1>2, <1>3, <1>4 DEF PlacedInv

\* A lost disk costs a placement on different nodes one shard.
LEMMA PlacedWiped ==
  ASSUME TypeOK, TypeOK', PlacedInv, CodeInv, NEW f \in Followers, Wipe(f)
  PROVE  PlacedInv'
<1>1. /\ data'[Leader] = data[Leader] /\ cur' = cur /\ wipes' = wipes + 1
      /\ UNCHANGED conv /\ wipes \in Nat
      /\ \A n \in Nodes \ {f} : meta'[n] = meta[n] /\ shard'[n] = shard[n]
  BY CodingAssumption, IndexFacts DEF Wipe, TypeOK
<1>2. \A n \in Nodes \ {f}, i \in Indices : Good(n, i) => Good(n, i)'
  BY <1>1 DEF Good
<1>3. ASSUME NEW T \in [Indices -> Nodes], NEW k,
             \A i, j \in Indices : T[i] = T[j] => i = j, Cardinality(Bad(T, k)) <= wipes
      PROVE  Cardinality(Bad(T, k)') <= wipes'
  <2>1. Bad(T, k)' \in SUBSET Indices /\ Bad(T, k) \in SUBSET Indices
    BY DEF Bad
  <2>2. \A i \in Bad(T, k)' \ Bad(T, k) : T[i] = f
    BY <1>2 DEF Bad
  <2>3. /\ Cardinality(Bad(T, k)') \in Nat /\ Cardinality(Bad(T, k)) \in Nat
        /\ Cardinality(Bad(T, k)') <= Cardinality(Bad(T, k)) + 1
    BY <1>3, <2>1, <2>2, FewerBad
  <2> QED BY <1>1, <1>3, <2>3
<1>4. ASSUME Converting' PROVE Cardinality(Bad(conv.target, conv.at)') <= wipes'
  <2>1. /\ Converting /\ Cardinality(Bad(conv.target, conv.at)) <= wipes
        /\ \A i, j \in Indices : conv.target[i] = conv.target[j] => i = j
    BY <1>1, <1>4 DEF Converting, PlacedInv, CodeInv
  <2>2. PICK T \in [Indices -> Nodes], k \in 0..N : T = conv.target /\ k = conv.at
    BY DEF TypeOK
  <2>3. Cardinality(Bad(T, k)') <= wipes'
    BY <1>3, <2>1, <2>2
  <2>4. T = conv'.target /\ k = conv'.at
    BY <1>1, <2>2
  <2> QED BY <2>3, <2>4 DEF Bad, Good
<1>5. ASSUME cur' # None, data'[Leader] # cur'
      PROVE  \E T \in [Indices -> Nodes] :
               /\ \A i, j \in Indices : T[i] = T[j] => i = j
               /\ Cardinality(Bad(T, N)') <= wipes'
  <2>1. PICK T \in [Indices -> Nodes] :
          /\ \A i, j \in Indices : T[i] = T[j] => i = j
          /\ Cardinality(Bad(T, N)) <= wipes
    BY <1>1, <1>5 DEF PlacedInv
  <2> QED BY <1>3, <2>1
<1>6. ASSUME Converting'
      PROVE  /\ conv'.at < N => Leader \in conv'.rest
             /\ Leader \in conv'.rest => data'[Leader] = cur'
  BY <1>1, <1>6 DEF PlacedInv, Converting
<1> QED BY <1>4, <1>5, <1>6 DEF PlacedInv

----------------------------------------------------------------------------
(* The invariant, action by action, while nothing races with the request.  *)

\* A current shard put on a node, or an attempt at it, keeps what is known.
LEMMA PutSafe ==
  ASSUME TypeOK, Safe, NEW n \in Nodes, NEW i \in Indices, FailedPut(n, i, cur, cur),
         Converting \/ IsEC(meta[Leader]), UNCHANGED <<data, cur, write, owed, alive>>
  PROVE  /\ WriteInv'
         /\ \A m \in Nodes : Clean(m)'
         /\ IsEC(meta[Leader]) => IsEC(meta[Leader])'
         /\ \A m \in Nodes, j \in Indices : Good(m, j) => Good(m, j)'
<1>1. /\ \/ meta'[n] = meta[n]
         \/ meta'[n] = [ver |-> cur, idx |-> i] /\ shard'[n][i] = cur
      /\ shard'[n][i] \in {cur, shard[n][i]}
      /\ \A j \in Indices \ {i} : shard'[n][j] = shard[n][j]
      /\ \A m \in Nodes \ {n} : meta'[m] = meta[m] /\ shard'[m] = shard[m]
  BY PutFacts
<1>2. ASSUME NEW m \in Nodes
      PROVE  \/ meta'[m] = meta[m]
             \/ meta'[m].ver = cur /\ IsEC(meta'[m]) /\ meta'[m].idx = i /\ shard'[m][i] = cur
  <2>1. CASE m = n /\ meta'[n] = [ver |-> cur, idx |-> i] /\ shard'[n][i] = cur
    <3>1. meta'[m].ver = cur /\ meta'[m].idx = i
      BY <2>1
    <3> QED BY <2>1, <3>1, IndexFacts DEF IsEC
  <2> QED BY <1>1, <2>1
<1>3. \A m \in Nodes, j \in Indices : shard'[m][j] \in {cur, shard[m][j]}
  BY <1>1
<1>4. write = None /\ meta[Leader].ver = cur /\ \A m \in Nodes : Clean(m)
  BY DEF Safe, WriteInv, CodeInv
<1>5. WriteInv'
  <2>1. \A m \in Nodes : meta[m].ver = cur => meta'[m].ver = cur
    BY <1>2
  <2> QED BY <1>4, <2>1, IndexFacts DEF Safe, WriteInv, TypeOK
<1>6. ASSUME NEW m \in Nodes PROVE Clean(m)'
  <2>1. CASE meta'[m] = meta[m]
    <3>1. IsEC(meta[m]) => meta[m].idx \in Indices
      BY DEF IsEC, TypeOK
    <3> QED BY <1>3, <1>4, <2>1, <3>1 DEF Clean
  <2>2. CASE meta'[m].ver = cur /\ meta'[m].idx = i /\ shard'[m][i] = cur
    BY <2>2 DEF Clean
  <2> QED BY <1>2, <2>1, <2>2
<1>7. IsEC(meta[Leader]) => IsEC(meta[Leader])'
  BY <1>2, IndexFacts
<1>8. \A m \in Nodes, j \in Indices : Good(m, j) => Good(m, j)'
  BY <1>2, <1>3 DEF Good
<1> QED BY <1>5, <1>6, <1>7, <1>8

\* A new request on an object nobody works on: the version is new, so nobody
\* else has it.
LEMMA BeginWriteSafe ==
  ASSUME TypeOK, KnownInv, NEW t \in Tx, BeginWrite(t), ~raced'
  PROVE  Safe'
<1> DEFINE c == ContentOf(t)
<1>1. /\ ~Converting' /\ ~Repairing' /\ cur' = c /\ write' = t
      /\ owed' = alive /\ alive' = alive /\ t \notin used
      /\ Store(Leader, c, Replica)
  BY DEF BeginWrite, Converting, Repairing
<1>2. /\ data'[Leader] = c /\ meta'[Leader].ver = c
      /\ meta'[Leader] = IF c = None THEN NoMeta ELSE [ver |-> c, idx |-> Replica]
      /\ \A m \in Nodes \ {Leader} : meta'[m] = meta[m]
  BY <1>1, IndexFacts, StoreFacts
<1>3. ~IsEC(meta'[Leader])
  BY <1>2 DEF IsEC, NoMeta
<1>4. ASSUME NEW n \in Nodes, meta'[n].ver = c PROVE ~IsEC(meta'[n])
  <2>1. CASE n = Leader
    BY <1>3, <2>1
  <2>2. CASE n # Leader /\ c = None
    BY <1>2, <1>4, <2>2 DEF KnownInv, IsEC, NoMeta
  <2>3. CASE n # Leader /\ c # None
    <3>1. meta[n].ver = t
      BY <1>2, <1>4, <2>3 DEF ContentOf
    <3> QED BY <1>1, <3>1, CodingAssumption DEF KnownInv, Known
  <2> QED BY <2>1, <2>2, <2>3
<1>5. WriteInv'
  BY <1>1, <1>2, <1>3 DEF WriteInv
<1>6. ReplicaInv' /\ CodeInv' /\ PlacedInv'
  BY <1>1, <1>2, <1>3, <1>4 DEF ReplicaInv, CodeInv, PlacedInv
<1> QED BY <1>5, <1>6 DEF Safe

LEMMA CommitSafe ==
  ASSUME TypeOK, Safe, NEW f \in Followers, CommitFollower(f)
  PROVE  Safe'
<1> DEFINE c == ContentOf(write)
<1>1. /\ write # None /\ Store(f, c, Replica) /\ owed' = owed \ {f}
      /\ UNCHANGED <<alive, write, conv, rep, wipes, cur>>
  BY DEF CommitFollower
<1>2. ~Converting /\ ~Repairing /\ ~IsEC(meta[Leader]) /\ c = cur /\ meta[Leader].ver = cur
  BY <1>1 DEF Safe, WriteInv
<1>3. f \in Nodes /\ f # Leader /\ Leader \in Nodes
  BY IndexFacts, CodingAssumption
<1>4. /\ meta'[f].ver = cur
      /\ meta'[f] = IF c = None THEN NoMeta ELSE [ver |-> c, idx |-> Replica]
      /\ \A m \in Nodes \ {f} : meta'[m] = meta[m] /\ data'[m] = data[m]
  BY <1>1, <1>2, <1>3, StoreFacts
<1>5. ~IsEC(meta'[f])
  BY <1>4 DEF IsEC, NoMeta
<1>6. data[Leader] = cur /\ \A n \in Nodes : meta[n].ver = cur => ~IsEC(meta[n])
  BY <1>2 DEF Safe, ReplicaInv
<1>7. ~Converting' /\ ~Repairing' /\ meta'[Leader] = meta[Leader] /\ data'[Leader] = cur
  BY <1>1, <1>2, <1>3, <1>4, <1>6 DEF Converting, Repairing
<1>8. WriteInv'
  <2>1. \A g \in alive' \ owed' : meta'[g].ver = cur
    BY <1>1, <1>4, IndexFacts DEF Safe, WriteInv, TypeOK
  <2> QED BY <1>1, <1>2, <1>7, <2>1 DEF WriteInv
<1>9. ReplicaInv' /\ CodeInv' /\ PlacedInv'
  BY <1>1, <1>2, <1>4, <1>5, <1>6, <1>7 DEF ReplicaInv, CodeInv, PlacedInv
<1> QED BY <1>8, <1>9 DEF Safe

\* In a cluster without spare nodes a conversion begins when every follower is
\* alive, and so has the leader's version.
LEMMA ConvertBeginSafe ==
  ASSUME ShardOnEveryNode, TypeOK, KnownInv, Safe, ConvertBegin, ~raced'
  PROVE  Safe'
<1>1. /\ ~Converting /\ meta[Leader].ver # None /\ ~IsEC(meta[Leader]) /\ write = None
      /\ Cardinality(alive) + 1 >= N
      /\ UNCHANGED <<data, meta, shard, alive, used, write, owed, cur, rep, wipes>>
  BY DEF ConvertBegin, nodeVars, writeVars
<1>2. PICK T \in [Indices -> alive \union {Leader}] :
        /\ \A i, j \in Indices : T[i] = T[j] => i = j
        /\ T[0] = Leader
        /\ conv' = [ver |-> meta[Leader].ver, at |-> 0, target |-> T,
                    rest |-> alive \union {Leader}]
  BY DEF ConvertBegin
<1>3. alive = Followers
  <2>1. IsFiniteSet(Followers) /\ alive \in SUBSET Followers
    BY CodingAssumption DEF TypeOK
  <2>2. IsFiniteSet(alive) /\ Cardinality(alive) <= Cardinality(Followers)
    BY <2>1, FS_Subset
  <2>3. Cardinality(alive) \in Nat /\ Cardinality(Followers) \in Nat
    BY <2>1, <2>2, FS_CardinalityType
  <2>4. Cardinality(alive) = Cardinality(Followers)
    BY <1>1, <2>2, <2>3, IndexFacts DEF ShardOnEveryNode
  <2> QED BY <2>1, <2>4, FS_Subset
<1>4. owed = {} /\ \A n \in Nodes : meta[n].ver = cur
  BY <1>1, <1>3 DEF KnownInv, Safe, WriteInv, Nodes
<1>5. data[Leader] = cur /\ \A n \in Nodes : ~IsEC(meta[n])
  BY <1>1, <1>4 DEF Safe, ReplicaInv
<1>6. \A n \in Nodes : Clean(n)'
  BY <1>1, <1>4, <1>5 DEF Clean
<1>7. /\ conv'.ver = cur /\ conv'.at = 0 /\ conv'.target = T /\ Leader \in conv'.rest
  BY <1>2, <1>4, IndexFacts
<1>8. ~Repairing
  BY <1>1 DEF Safe, CodeInv
<1>9. WriteInv' /\ ReplicaInv'
  BY <1>1, <1>4, <1>5 DEF Safe, WriteInv, ReplicaInv
<1>10. CodeInv'
  BY <1>1, <1>2, <1>6, <1>7, <1>8 DEF CodeInv, Repairing
<1>11. PlacedInv'
  <2>1. Bad(conv.target, conv.at)' = {}
    BY <1>7, IndexFacts DEF Bad, Indices
  <2>2. Cardinality(Bad(conv.target, conv.at)') <= wipes'
    BY <1>1, <2>1, FS_EmptySet, CodingAssumption DEF TypeOK
  <2> QED BY <1>1, <1>5, <1>7, <2>2 DEF PlacedInv
<1> QED BY <1>9, <1>10, <1>11 DEF Safe

LEMMA ConvertShardSafe ==
  ASSUME TypeOK, TypeOK', Safe, ConvertShard
  PROVE  Safe'
<1> DEFINE i == conv.at
           n == conv.target[conv.at]
<1>1. /\ Converting /\ i \in Indices /\ n \in Nodes /\ i < N
      /\ PutECShard(n, i, conv.ver, conv.ver)
      /\ conv' = [conv EXCEPT !.at = @ + 1]
      /\ UNCHANGED <<data, alive, used, write, owed, cur, rep, wipes>>
  BY IndexFacts DEF ConvertShard, writeVars, TypeOK
<1>2. /\ conv.ver = cur /\ conv.target[0] = Leader
      /\ \A j, k \in Indices : conv.target[j] = conv.target[k] => j = k
      /\ i >= 1 => IsEC(meta[Leader])
  BY <1>1 DEF Safe, CodeInv
<1>3. FailedPut(n, i, cur, cur) /\ meta'[n] = [ver |-> cur, idx |-> i] /\ shard'[n][i] = cur
  BY <1>1, <1>2, PutDone
<1>4. /\ WriteInv' /\ \A m \in Nodes : Clean(m)'
      /\ IsEC(meta[Leader]) => IsEC(meta[Leader])'
      /\ \A m \in Nodes, j \in Indices : Good(m, j) => Good(m, j)'
  BY <1>1, <1>3, PutSafe
<1>5. /\ conv'.ver = conv.ver /\ conv'.target = conv.target /\ conv'.at = i + 1
      /\ conv'.rest = conv.rest
  BY <1>1 DEF TypeOK
<1>6. IsEC(meta[Leader])'
  <2>1. CASE i = 0
    <3>1. n = Leader /\ meta'[Leader].idx = 0
      BY <1>2, <1>3, <2>1
    <3> QED BY <3>1 DEF IsEC, Replica
  <2>2. CASE i # 0
    BY <1>1, <1>2, <1>4, <2>2 DEF Indices
  <2> QED BY <2>1, <2>2
<1>7. ReplicaInv' /\ CodeInv'
  BY <1>1, <1>2, <1>4, <1>5, <1>6 DEF Safe, ReplicaInv, CodeInv, Repairing
<1>8. PlacedInv'
  <2>1. meta'[n].ver = cur' /\ shard'[n][i] = cur'
    BY <1>1, <1>3
  <2>2. ASSUME NEW j \in Bad(conv.target, conv.at)' PROVE j \in Bad(conv.target, conv.at)
    <3>1. /\ j \in Indices /\ j < i + 1
          /\ ~(shard'[conv.target[j]][j] = cur' /\ meta'[conv.target[j]].ver = cur')
      BY <1>5 DEF Bad, Good
    <3>2. j # i
      BY <2>1, <3>1
    <3>3. j < i
      BY <1>1, <3>1, <3>2 DEF Indices
    <3>4. conv.target[j] \in Nodes
      BY <3>1 DEF TypeOK
    <3>5. ~Good(conv.target[j], j)
      BY <1>4, <3>1, <3>4 DEF Good
    <3> QED BY <3>1, <3>3, <3>5 DEF Bad
  <2>3. /\ Bad(conv.target, conv.at)' \in SUBSET Indices
        /\ Bad(conv.target, conv.at) \in SUBSET Indices
    BY DEF Bad
  <2>4. /\ Cardinality(Bad(conv.target, conv.at)') \in Nat
        /\ Cardinality(Bad(conv.target, conv.at)) \in Nat
        /\ Cardinality(Bad(conv.target, conv.at)') <= Cardinality(Bad(conv.target, conv.at))
    BY <2>2, <2>3, FewerBad
  <2>5. /\ Cardinality(Bad(conv.target, conv.at)) <= wipes
        /\ Leader \in conv.rest /\ data[Leader] = cur
    BY <1>1 DEF Safe, PlacedInv
  <2>6. Cardinality(Bad(conv.target, conv.at)') <= wipes'
    BY <1>1, <2>4, <2>5 DEF TypeOK
  <2> QED BY <1>1, <1>5, <2>5, <2>6 DEF PlacedInv
<1> QED BY <1>4, <1>7, <1>8 DEF Safe

LEMMA ConvertFailsSafe ==
  ASSUME TypeOK, TypeOK', Safe, ConvertFails
  PROVE  Safe'
<1> DEFINE i == conv.at
           n == conv.target[conv.at]
<1>1. /\ Converting /\ i \in Indices /\ n \in Nodes /\ i >= 1
      /\ FailedPut(n, i, conv.ver, conv.ver) /\ conv' = NoConv
      /\ UNCHANGED <<data, alive, used, write, owed, cur, rep, wipes>>
  BY IndexFacts DEF ConvertFails, writeVars, TypeOK
<1>2. conv.ver = cur /\ IsEC(meta[Leader])
  BY <1>1 DEF Safe, CodeInv
<1>3. FailedPut(n, i, cur, cur)
  BY <1>1, <1>2
<1>4. /\ WriteInv' /\ \A m \in Nodes : Clean(m)'
      /\ IsEC(meta[Leader])'
      /\ \A m \in Nodes, j \in Indices : Good(m, j) => Good(m, j)'
  BY <1>1, <1>2, <1>3, PutSafe
<1>5. ~Converting'
  BY <1>1 DEF Converting, NoConv
<1>6. ReplicaInv' /\ CodeInv'
  BY <1>1, <1>4, <1>5 DEF Safe, ReplicaInv, CodeInv, Repairing
<1>7. PlacedInv'
  BY <1>1, <1>4, <1>5, PlacedKept DEF Safe
<1> QED BY <1>4, <1>6, <1>7 DEF Safe

LEMMA RepairBeginSafe ==
  ASSUME TypeOK, TypeOK', Safe, RepairBegin
  PROVE  Safe'
<1>1. /\ IsEC(meta[Leader])
      /\ UNCHANGED <<data, meta, shard, alive, used, write, owed, cur, conv, wipes>>
  BY DEF RepairBegin, nodeVars, writeVars
<1>2. PICK S \in SUBSET Nodes :
        \E loc \in Locations(S), plan \in [Indices \ Claimed(S) -> Nodes] : RepairWith(loc, plan)
  BY RepairWitness
<1>3. PICK loc \in Locations(S), plan \in [Indices \ Claimed(S) -> Nodes] : RepairWith(loc, plan)
  BY <1>2
<1>4. rep'.ver = meta[Leader].ver /\ rep'.content = Reconstruct(loc)
  BY <1>3 DEF RepairWith
<1>5. rep'.ver = cur /\ rep'.content = cur
  BY <1>1, <1>4, ReadCurrent DEF Safe, WriteInv
<1>6. write = None
  BY <1>1 DEF Safe, WriteInv
<1>7. WriteInv' /\ ReplicaInv'
  BY <1>1, <1>6 DEF Safe, WriteInv, ReplicaInv
<1>8. CodeInv'
  BY <1>1, <1>5 DEF Safe, CodeInv, Clean, Converting
<1>9. PlacedInv'
  BY <1>1, PlacedKept DEF Safe, Good
<1> QED BY <1>7, <1>8, <1>9 DEF Safe

LEMMA RepairPushSafe ==
  ASSUME TypeOK, TypeOK', Safe, NEW i \in Indices, RepairPush(i)
  PROVE  Safe'
<1> DEFINE n == rep.plan[i]
<1>1. /\ Repairing /\ n \in Nodes /\ FailedPut(n, i, rep.ver, rep.content)
      /\ (rep'.ver = rep.ver /\ rep'.content = rep.content) \/ rep'.ver = None
      /\ UNCHANGED <<data, alive, used, write, owed, cur, conv, wipes>>
  BY DEF RepairPush, FailedPut, writeVars, TypeOK, NoRep
<1>2. rep.ver = cur /\ rep.content = cur /\ IsEC(meta[Leader])
  BY <1>1 DEF Safe, CodeInv
<1>3. FailedPut(n, i, cur, cur)
  BY <1>1, <1>2
<1>4. /\ WriteInv' /\ \A m \in Nodes : Clean(m)'
      /\ IsEC(meta[Leader])'
      /\ \A m \in Nodes, j \in Indices : Good(m, j) => Good(m, j)'
  BY <1>1, <1>2, <1>3, PutSafe
<1>5. ReplicaInv' /\ CodeInv'
  BY <1>1, <1>2, <1>4 DEF Safe, ReplicaInv, CodeInv, Repairing, Converting
<1>6. PlacedInv'
  BY <1>1, <1>4, PlacedKept DEF Safe
<1> QED BY <1>4, <1>5, <1>6 DEF Safe

\* The leader's full copy goes first, when all shards have been placed.
LEMMA RemoveReplicaSafe ==
  ASSUME TypeOK, TypeOK', Safe, NEW n \in Nodes, RemoveReplica(n)
  PROVE  Safe'
<1>1. /\ Converting /\ conv.at = N
      /\ Leader \in conv.rest => n = Leader
      /\ \A m \in Nodes \ {n} : data'[m] = data[m]
      /\ conv' = NoConv \/ conv' = [conv EXCEPT !.rest = @ \ {n}]
      /\ UNCHANGED <<meta, shard, alive, used, write, owed, cur, rep, wipes>>
  BY DEF RemoveReplica, writeVars, TypeOK
<1>2. /\ conv.ver = cur /\ IsEC(meta[Leader]) /\ conv.target[0] = Leader
      /\ \A i, j \in Indices : conv.target[i] = conv.target[j] => i = j
      /\ Cardinality(Bad(conv.target, N)) <= wipes
  BY <1>1, IndexFacts DEF Safe, CodeInv, PlacedInv
<1>3. \/ ~Converting'
      \/ /\ conv'.ver = conv.ver /\ conv'.target = conv.target /\ conv'.at = N
         /\ conv'.rest = conv.rest \ {n}
  BY <1>1 DEF Converting, NoConv, TypeOK
<1>4. WriteInv' /\ ReplicaInv' /\ CodeInv'
  BY <1>1, <1>2, <1>3
  DEF Safe, WriteInv, ReplicaInv, CodeInv, Clean, Converting, Repairing
<1>5. Leader \notin conv.rest \ {n}
  BY <1>1
<1>6. \A T \in [Indices -> Nodes] : Bad(T, N)' = Bad(T, N)
  BY <1>1 DEF Bad, Good
<1>7. \E T \in [Indices -> Nodes] :
        /\ \A i, j \in Indices : T[i] = T[j] => i = j
        /\ Cardinality(Bad(T, N)') <= wipes'
  <2>1. PICK T \in [Indices -> Nodes] : T = conv.target
    BY DEF TypeOK
  <2> QED BY <1>1, <1>2, <1>6, <2>1
<1>8. Converting' => Cardinality(Bad(conv.target, conv.at)') <= wipes'
  <2>1. PICK T \in [Indices -> Nodes] : T = conv.target
    BY DEF TypeOK
  <2>2. Cardinality(Bad(T, N)') <= wipes'
    BY <1>1, <1>2, <1>6, <2>1
  <2>3. ASSUME Converting' PROVE Bad(conv.target, conv.at)' = Bad(T, N)'
    BY <1>3, <2>1, <2>3 DEF Bad, Good
  <2> QED BY <2>2, <2>3
<1>9. PlacedInv'
  BY <1>3, <1>5, <1>7, <1>8, IndexFacts DEF PlacedInv
<1> QED BY <1>4, <1>9 DEF Safe

\* A follower that is synchronised gets the current content or had it, and loses
\* no shard that goes with current metadata.
LEMMA SyncSafe ==
  ASSUME TypeOK, TypeOK', KnownInv, Safe, NEW f \in Followers, Sync(f)
  PROVE  Safe'
<1>1. /\ write = None /\ alive' = alive \union {f} /\ meta[Leader].ver = cur
      /\ UNCHANGED <<used, write, owed, cur, conv, rep, wipes>>
  BY DEF Sync, writeVars, Safe, WriteInv
<1>2. f \in Nodes /\ f # Leader /\ Leader \in Nodes /\ Followers \subseteq Nodes
  BY IndexFacts, CodingAssumption
<1>3. CASE InSync(f) /\ UNCHANGED nodeVars
  <2>1. UNCHANGED <<data, meta, shard>> /\ meta[f].ver = cur
    BY <1>1, <1>3 DEF InSync, nodeVars
  <2>2. WriteInv' /\ ReplicaInv' /\ CodeInv'
    BY <1>1, <2>1 DEF Safe, WriteInv, ReplicaInv, CodeInv, Clean, Converting, Repairing
  <2>3. PlacedInv'
    BY <1>1, <2>1, PlacedKept DEF Safe, Good
  <2> QED BY <2>2, <2>3 DEF Safe
<1>4. CASE ~InSync(f) /\ meta[Leader].ver = None /\ Store(f, None, Replica)
  <2>1. /\ meta'[f] = NoMeta /\ meta'[f].ver = None
        /\ \A m \in Nodes \ {f} : meta'[m] = meta[m] /\ data'[m] = data[m]
    BY <1>2, <1>4, StoreFacts
  <2>2. cur = None /\ ~IsEC(meta[Leader]) /\ ~IsEC(NoMeta)
    BY <1>1, <1>2, <1>4 DEF KnownInv, IsEC, NoMeta
  <2>3. ~Converting /\ ~Repairing
    BY <2>2 DEF Safe, CodeInv, Converting, Repairing
  <2>4. data[Leader] = cur /\ \A n \in Nodes : meta[n].ver = cur => ~IsEC(meta[n])
    BY <2>2 DEF Safe, ReplicaInv
  <2>5. WriteInv'
    BY <1>1, <1>2, <2>1, <2>2 DEF Safe, WriteInv, TypeOK
  <2>6. ReplicaInv' /\ CodeInv' /\ PlacedInv'
    BY <1>1, <1>2, <2>1, <2>2, <2>3, <2>4
    DEF ReplicaInv, CodeInv, PlacedInv, Converting, Repairing
  <2> QED BY <2>5, <2>6 DEF Safe
<1>5. CASE ~InSync(f) /\ meta[Leader].ver # None /\ PushObject(f)
  <2>1. PICK S \in SUBSET Nodes : \E c \in GetObject(S) : Store(f, c, meta[Leader].idx)
    BY <1>5 DEF PushObject
  <2>2. PICK c \in GetObject(S) : Store(f, c, meta[Leader].idx)
    BY <2>1
  <2>3. c = cur /\ c # None /\ meta[f].ver # cur
    BY <1>1, <1>5, <2>2, ReadCurrent DEF InSync
  <2>4. /\ meta'[f] = [ver |-> c, idx |-> meta[Leader].idx]
        /\ \A i \in Indices : shard'[f][i] \in {None, shard[f][i]}
        /\ \A m \in Nodes \ {f} :
             data'[m] = data[m] /\ meta'[m] = meta[m] /\ shard'[m] = shard[m]
    BY <1>2, <2>2, <2>3, StoreFacts
  <2>5. meta'[f].ver = cur /\ meta'[f].idx = meta[Leader].idx
    BY <2>3, <2>4
  <2>6. WriteInv'
    BY <1>1, <1>2, <2>4, <2>5 DEF Safe, WriteInv, TypeOK
  <2>7. ReplicaInv'
    BY <1>1, <1>2, <2>4, <2>5 DEF Safe, ReplicaInv, IsEC
  <2>8. CodeInv'
    <3>1. ASSUME Converting \/ IsEC(meta[Leader]), NEW m \in Nodes PROVE Clean(m)'
      <4>1. CASE m = f
        <5>1. \A i \in Indices : shard[f][i] \in {None, cur}
          BY <1>2, <2>3, <3>1 DEF Safe, CodeInv, Clean
        <5>2. IsEC(meta'[f]) => meta'[f].idx \in Indices
          BY <1>2 DEF IsEC, TypeOK
        <5>3. IsEC(meta'[f]) => shard'[f][meta'[f].idx] \in {None, cur}
          BY <2>4, <5>1, <5>2
        <5> QED BY <1>1, <2>5, <4>1, <5>3 DEF Clean
      <4>2. CASE m # f
        BY <1>1, <2>4, <3>1, <4>2 DEF Safe, CodeInv, Clean
      <4> QED BY <4>1, <4>2
    <3> QED BY <1>1, <1>2, <2>4, <3>1 DEF Safe, CodeInv, Converting, Repairing
  <2>9. PlacedInv'
    <3>1. \A m \in Nodes, i \in Indices : Good(m, i) => Good(m, i)'
      BY <1>1, <2>3, <2>4 DEF Good
    <3> QED BY <1>1, <1>2, <2>4, <3>1, PlacedKept DEF Safe
  <2> QED BY <2>6, <2>7, <2>8, <2>9 DEF Safe
<1> QED BY <1>3, <1>4, <1>5 DEF Sync

LEMMA WipeSafe ==
  ASSUME TypeOK, TypeOK', KnownInv, Safe, NEW f \in Followers, Wipe(f)
  PROVE  Safe'
<1>1. /\ meta'[f] = NoMeta /\ \A i \in Indices : shard'[f][i] = None
      /\ \A m \in Nodes \ {f} :
           data'[m] = data[m] /\ meta'[m] = meta[m] /\ shard'[m] = shard[m]
      /\ alive' = alive \ {f} /\ owed' = owed \ {f}
      /\ UNCHANGED <<used, write, conv, rep, cur>>
  BY IndexFacts DEF Wipe, NoShards, TypeOK
<1>2. f \in Nodes /\ f # Leader /\ Leader \in Nodes /\ Followers \subseteq Nodes
  BY IndexFacts, CodingAssumption
<1>3. WriteInv'
  BY <1>1, <1>2 DEF Safe, WriteInv, TypeOK, Converting, Repairing
<1>4. ReplicaInv'
  BY <1>1, <1>2 DEF Safe, ReplicaInv, IsEC, NoMeta
<1>5. CodeInv'
  <2>1. ASSUME Converting \/ IsEC(meta[Leader]), NEW m \in Nodes PROVE Clean(m)'
    BY <1>1, <2>1 DEF Safe, CodeInv, Clean
  <2> QED BY <1>1, <1>2, <2>1 DEF Safe, CodeInv, Converting, Repairing
<1>6. PlacedInv'
  BY PlacedWiped DEF Safe
<1> QED BY <1>3, <1>4, <1>5, <1>6 DEF Safe

\* The end of a request, a missed heartbeat and a restart of the leader change
\* no file.
LEMMA FilesKeptSafe ==
  ASSUME TypeOK, TypeOK', KnownInv, Safe, UNCHANGED <<data, meta, shard, cur, wipes>>,
         write' = write \/ write' = None, alive' \ owed' \subseteq alive \ owed,
         conv' = conv \/ conv' = NoConv, rep' = rep \/ rep' = NoRep
  PROVE  Safe'
<1>1. (Converting' => conv' = conv /\ Converting) /\ (Repairing' => rep' = rep /\ Repairing)
  BY DEF Converting, Repairing, NoConv, NoRep
<1>2. WriteInv'
  BY <1>1 DEF Safe, WriteInv
<1>3. ReplicaInv' /\ CodeInv'
  BY <1>1 DEF Safe, ReplicaInv, CodeInv, Clean
<1>4. PlacedInv'
  BY <1>1, PlacedKept DEF Safe, Good
<1> QED BY <1>2, <1>3, <1>4 DEF Safe

LEMMA CurrentStep ==
  ASSUME ShardOnEveryNode, TypeOK, TypeOK', KnownInv, CurrentInv, [Next]_vars
  PROVE  CurrentInv'
<1> SUFFICES ASSUME ~raced' PROVE Safe'
  BY DEF CurrentInv
<1>1. ASSUME NEW t \in Tx, BeginWrite(t) PROVE Safe'
  BY <1>1, BeginWriteSafe
<1>2. ASSUME raced' = raced PROVE Safe
  BY <1>2 DEF CurrentInv
<1>3. CASE ConvertBegin
  <2>1. Safe
    BY <1>3 DEF ConvertBegin, CurrentInv
  <2> QED BY <1>3, <2>1, ConvertBeginSafe
<1>4. CASE ConvertShard
  BY <1>2, <1>4, ConvertShardSafe DEF ConvertShard
<1>5. CASE ConvertFails
  BY <1>2, <1>5, ConvertFailsSafe DEF ConvertFails
<1>6. CASE RepairBegin
  BY <1>2, <1>6, RepairBeginSafe DEF RepairBegin
<1>7. ASSUME NEW i \in Indices, RepairPush(i) PROVE Safe'
  <2>1. raced' = raced
    BY <1>7 DEF RepairPush
  <2> QED BY <1>2, <1>7, <2>1, RepairPushSafe
<1>8. ASSUME NEW n \in Nodes, RemoveReplica(n) PROVE Safe'
  <2>1. raced' = raced
    BY <1>8 DEF RemoveReplica
  <2> QED BY <1>2, <1>8, <2>1, RemoveReplicaSafe
<1>9. ASSUME NEW f \in Followers, CommitFollower(f) PROVE Safe'
  <2>1. raced' = raced
    BY <1>9 DEF CommitFollower
  <2> QED BY <1>2, <1>9, <2>1, CommitSafe
<1>10. ASSUME NEW f \in Followers, Sync(f) PROVE Safe'
  <2>1. raced' = raced
    BY <1>10 DEF Sync
  <2> QED BY <1>2, <1>10, <2>1, SyncSafe
<1>11. ASSUME NEW f \in Followers, Wipe(f) PROVE Safe'
  <2>1. raced' = raced
    BY <1>11 DEF Wipe
  <2> QED BY <1>2, <1>11, <2>1, WipeSafe
<1>12. CASE EndWrite
  <2>1. /\ raced' = raced /\ UNCHANGED <<data, meta, shard, cur, wipes, conv, rep>>
        /\ write' = None /\ alive' \ owed' \subseteq alive \ owed
    BY <1>12 DEF EndWrite, nodeVars
  <2> QED BY <1>2, <2>1, FilesKeptSafe
<1>13. ASSUME NEW f \in Followers, HeartbeatFails(f) PROVE Safe'
  <2>1. /\ raced' = raced /\ UNCHANGED <<data, meta, shard, cur, wipes, conv, rep, write>>
        /\ alive' \ owed' \subseteq alive \ owed
    BY <1>13 DEF HeartbeatFails, nodeVars, writeVars
  <2> QED BY <1>2, <2>1, FilesKeptSafe
<1>14. CASE RestartLeader
  <2>1. /\ raced' = raced /\ UNCHANGED <<data, meta, shard, cur, wipes>>
        /\ conv' = NoConv /\ rep' = NoRep /\ write' = None /\ alive' = {}
    BY <1>14 DEF RestartLeader, nodeVars
  <2> QED BY <1>2, <2>1, FilesKeptSafe
<1>15. CASE UNCHANGED vars
  <2>1. /\ raced' = raced /\ UNCHANGED <<data, meta, shard, cur, wipes, conv, rep, write>>
        /\ alive' \ owed' \subseteq alive \ owed
    BY <1>15 DEF vars
  <2> QED BY <1>2, <2>1, FilesKeptSafe
<1> QED
  BY <1>1, <1>3, <1>4, <1>5, <1>6, <1>7, <1>8, <1>9, <1>10, <1>11, <1>12, <1>13, <1>14, <1>15
  DEF Next

LEMMA CurrentInit == Init => KnownInv /\ CurrentInv
<1> SUFFICES ASSUME Init PROVE KnownInv /\ Safe
  BY DEF CurrentInv
<1> USE DEF Init
<1>1. /\ NoMeta.ver = None /\ ~IsEC(NoMeta) /\ ~Converting /\ ~Repairing
      /\ NoRep.content = None
  BY DEF NoMeta, IsEC, Converting, Repairing, NoConv, NoRep
<1>2. KnownInv
  BY <1>1 DEF KnownInv, Known, NoShards, Converting, Repairing
<1>3. Safe
  BY <1>1, IndexFacts DEF Safe, WriteInv, ReplicaInv, CodeInv, PlacedInv
<1> QED BY <1>2, <1>3

LEMMA CurrentInvariant ==
  ASSUME ShardOnEveryNode
  PROVE  Spec => [](TypeOK /\ KnownInv /\ CurrentInv)
<1>1. TypeOK /\ TypeOK' /\ KnownInv /\ CurrentInv /\ [Next]_vars => CurrentInv'
  BY CurrentStep
<1> QED BY <1>1, TypeInit, TypeStep, CurrentInit, KnownStep, PTL DEF Spec

----------------------------------------------------------------------------

\* The content of the last undisturbed request can be recovered, whatever
\* conversions, repairs, synchronisations, restarts and lost disks came between.
THEOREM ContentRecoverable == ASSUME ShardOnEveryNode PROVE Spec => []Recoverable
<1>1. TypeOK /\ CurrentInv => Recoverable
  <2> SUFFICES ASSUME TypeOK, CurrentInv, ~raced, cur # None, data[Leader] # cur
               PROVE  Cardinality({i \in Indices : \E n \in Nodes : shard[n][i] = cur}) >= K
    BY DEF Recoverable
  <2> DEFINE there == {i \in Indices : \E n \in Nodes : shard[n][i] = cur}
  <2>1. PICK T \in [Indices -> Nodes] : Cardinality(Bad(T, N)) <= wipes
    BY DEF CurrentInv, Safe, PlacedInv
  <2>2. Indices \ Bad(T, N) \subseteq there
    BY IndexFacts DEF Bad, Good, Indices
  <2>3. IsFiniteSet(Indices) /\ Cardinality(Indices) = N
    BY IndexFacts, FS_Interval DEF Indices
  <2>4. Bad(T, N) \in SUBSET Indices
    BY DEF Bad
  <2>5. /\ IsFiniteSet(Bad(T, N)) /\ Cardinality(Bad(T, N)) \in Nat
        /\ IsFiniteSet(Indices \ Bad(T, N))
        /\ Cardinality(Indices \ Bad(T, N)) = N - Cardinality(Bad(T, N))
    <3>1. IsFiniteSet(Bad(T, N)) /\ Cardinality(Bad(T, N)) \in Nat
      BY <2>3, <2>4, FS_Subset, FS_CardinalityType
    <3>2. Indices \intersect Bad(T, N) = Bad(T, N)
      BY <2>4
    <3>3. /\ IsFiniteSet(Indices \ Bad(T, N))
          /\ Cardinality(Indices \ Bad(T, N))
               = Cardinality(Indices) - Cardinality(Indices \intersect Bad(T, N))
      BY <2>3, FS_Difference
    <3> QED BY <2>3, <3>1, <3>2, <3>3
  <2>6. Cardinality(there) >= Cardinality(Indices \ Bad(T, N)) /\ Cardinality(there) \in Nat
    <3>1. there \in SUBSET Indices
      OBVIOUS
    <3>2. IsFiniteSet(there)
      BY <2>3, <3>1, FS_Subset
    <3> QED BY <2>2, <2>5, <3>2, FS_Subset, FS_CardinalityType
  <2> HIDE DEF there
  <2>7. Cardinality(there) >= K
    BY <2>1, <2>5, <2>6, CodingAssumption DEF N, TypeOK
  <2> QED BY <2>7 DEF there
<1> QED BY <1>1, CurrentInvariant, PTL

\* A GET on the leader that succeeds returns the content of the last undisturbed
\* request and no mixture, whichever nodes answer.
THEOREM NoStaleShardRead == ASSUME ShardOnEveryNode PROVE Spec => []ReadsCurrent
<1>1. TypeOK /\ CurrentInv => ReadsCurrent
  BY ReadCurrent DEF CurrentInv, ReadsCurrent
<1> QED BY <1>1, CurrentInvariant, PTL
=============================================================================
