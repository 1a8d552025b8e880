# MicroS3: TLA+ models, checks and proofs

MicroS3 is an S3-compatible object store: one leader takes the writes and replicates them
to its followers with a two-phase commit; a follower that missed something is synchronised
by the leader while client writes are blocked; on Kubernetes the leader is elected with a
Lease object; objects may be erasure coded, and are uploaded whole or in parts. These
modules model all of that, `tlc` checks them on small instances, and `tlapm` proves their
safety properties for every value of the constants.

## The system

| Component | State | Operations | Interacts with |
|---|---|---|---|
| Write gate (`s3app/service.go`) | `syncingNodes` (leases with a time), `activeWrites`, mutex and condition variable, gauge | gate and deferred exit of `PutObject`/`DeleteObject`, `StartSyncLease`, `HeartbeatSyncLease`, `EndSyncLease` | every write, every sync handler |
| Two-phase commit (`service.go`, `replication/replicator.go`, `internal_api`) | staged and committed objects of every node | stage, prepare, commit, abort; `MarkDead` for whoever fails | cluster manager, repository, followers over HTTP |
| Synchronisation (`sync.go`, `coordinator.go`, `HandleSyncRequest`) | key lists, the object being pushed | follower asks, leader drains, compares keys by CRC32 and size, pushes, deletes, `MarkAlive` | gate, cluster manager, repository of both nodes |
| Static cluster manager (`static_manager.go`) | status of every configured follower, own status | heartbeat, `MarkDead`, `MarkAlive`, forced SYNC | 2PC, synchronisation |
| Kubernetes cluster manager (`k8s_manager.go`) | `isLeaderFlag`, `lastLeaseRenewal`, pods discovered, pod label | election loop, discovery, health checks | Kubernetes API, all of the above |
| Filesystem repository (`storage/fs/filesystem.go`) | data, metadata, staging, shard and multipart files | stage/commit/abort, get, list, buckets, shards, parts, cleanups | every component on the node |
| Erasure coding (`replication/ec`, `storage/ec`) | shards and the metadata that says which | convert, read, repair | repository of all nodes |
| Multipart (`service.go`, `filesystem.go`) | upload sessions and parts | create, upload, complete, abort, expire | 2PC |
| Buckets and listing (`service.go`, `filesystem.go`) | the two directories of a bucket | create, delete, `EnsureBucket`, `ListObjectsV2` | every object operation |
| S3 front end (`presentation/s3api`) | none | routing, authentication, proxying to the leader | service |

What is hard in it: writes and synchronisations meet on one condition variable; leases
expire by wall clock under a running synchronisation; calls are lost, late or fail on some
followers only; nothing orders two writes of one key; every commit is two renames that a
crash, the janitor, another commit, the orphan cleanup or a reader may come between;
two pods compare clocks to decide who leads, and whoever is deposed goes on with the writes
and synchronisations it has begun; uploads of one part share a file name, and a completion
deletes the parts it reads; a listing is spread over pages while objects come and go. `PROJECT.json` lists these hazards at the
lines where they bite.

What makes the components correct:

- gate: the counter is exact, writes and protected synchronisations exclude each other,
  nobody sleeps for ever;
- 2PC and synchronisation: a follower that counts as READY holds what the leader holds; a
  refused request is visible nowhere; a follower is promoted only when it is equal;
- repository: data and metadata of an object belong together, leftovers are reclaimed;
- election: a pod whose last renewal was answered promptly leads only while it holds the
  Lease, and the Lease is taken only from a pod that does not believe it leads;
- erasure coding: an object stays readable while it is converted, repaired or replaced;
- membership: a follower the leader has synchronised agrees with it, acknowledged writes
  are on the leader, requests find it;
- multipart: a completed object consists of the requested parts, acknowledged parts stay
  until they are read, sessions are reclaimed;
- buckets: a GET never answers with a body older than its headers, listings are complete
  and end, a bucket with objects is not deleted.

## Modules

| Module | Models | Run by |
|---|---|---|
| `WriteGate` | the gate, goroutine by goroutine | `MC_WriteGate` |
| `SyncExclusion` | abstract: what the gate promises | as `ImplementsExclusion` of `WriteGate` |
| `Replication` | 2PC, membership, synchronisation, janitor, restarts | `MC_Replication` |
| `FsRepository` | the files of one node, one rename at a time | `MC_FsRepository` |
| `ErasureCoding` | conversion, reconstruction and repair of one object | `MC_ErasureCoding` |
| `LeaseElection` | election on a Kubernetes Lease | `MC_LeaseElection` |
| `Membership` | Kubernetes membership, failover, proxying | `MC_Membership` |
| `Multipart` | one multipart session, file by file | `MC_Multipart` |
| `Bucket` | GET, listing and bucket operations beside writes | `MC_Bucket` |
| `*_proofs` | invariants and proofs for the module they extend | `tlapm` |

`Replication` has the gate's leases and drain, as far as writes and handlers of the one leader
can tell them apart, and a node's commit as one step; `FsRepository` opens that step up, and
`Bucket` looks at its two renames with the eyes of a reader. `Membership` takes a pod's
`IsLeader()` from `LeaseElection` as a set of pods that may contain several (the Lease may be
seized at any time, and a deposed pod leads on until its guard window ends or it hears of the
next), and from `Replication` what a write and a synchronisation do to the data.

### State and actions against the code

`WriteGate`. Every action is one critical section of `syncMutex`. `wpc` and `spc` say
where a goroutine is: `parked` is `writeCond.Wait()`, a Broadcast moves every parked one
to the runnable state (`WokenWriters`, `WokenSyncs`). `leased`/`age` are the map
`syncingNodes`, keyed by node and not by handler; only a writer at the gate purges what
has expired (`PurgeExpired`), as in `isWritesBlockedLocked`. `unbroken` is a history
variable: the handlers whose lease nobody has removed. `RemoteSyncs` are the handlers of
`/internal/sync-start`, `-heartbeat` and `-done`, which the server still offers.

`Replication`. One transaction is one client request; its `pc` follows `PutObject` and
`DeleteObject` line by line. `AliveFollowers` is read three times in the code (after
staging, in `PrepareAll`, in `CommitAll`/`AbortAll`) and so in the model (`had`,
`SendPrepares`, `SendCommits`). `MarkDead` happens after all answers are in. The statuses the
leader keeps of a configured follower are OFFLINE and READY (SYNCING is only given to a node
that is not configured). A commit may fail on its way: the content is then old or new, and the
key `torn` (data of one object, metadata of another) until the next commit of it; on the
leader the client is refused all the same. A call that fails may have had its effect, or have
it later: `late` are commits, `stray` pushes and deletions that a follower has received and
whose caller is gone.

A follower has as many handlers of sync requests (`Syncs`, `NodeOf`) as its calls have left
behind, and they share one entry of `syncingNodes` (`lease`): any of them ends it, it may
expire, and no handler looks at it again after `StartSync`. `SyncGivenUp` is the caller that
waits no longer; draining does not notice (`StartSyncLease` takes no context), and the next
call may start a second handler meanwhile. Both key lists are read in one step
(`CompareKeys`): a write between them could only be one admitted while the handler ran, and
its key is in doubt anyway. The old endpoints `/internal/sync-start` and `-done`, which nothing
in the repository calls, are in `WriteGate` only. History: `overlapped` (keys with two writes
active at once), `halfway` (transactions refused after their commit on the leader had moved
files), and `doubt`: the follower's keys that were written while a handler of it ran without a
closed gate, or changed by a call nobody waits for, and that no handler has compared since.
`MaxFaults` bounds failed calls and commits, expiries, callers that give up, the janitor's
removals and restarts together.

`FsRepository`. `Stage` .. `Staged` are the files `StageObject` writes, `StartCommit`,
`MoveData`, `MoveMeta`, `ClearStage` the four parts of `CommitTransaction`; a missing file
makes the commit fail where it is. The janitor and the orphan cleanup look first and act
later, one thing at a time, as the one maintenance goroutine does. `Crash` kills the
process; files survive (a power failure that loses unsynced renames is not modelled).
`Expiry` says whether the age limits (2 and 5 minutes) can be reached while a transaction
is in use. History: `alone` (commits nothing has come between), `doubt` (keys whose last
commit was disturbed or cut short), `last`.

`ErasureCoding`. A node has a data file, a metadata file and shard files; the metadata
names the one shard of the node that others can find. `ConvertBegin`, `ConvertShard`,
`ConvertFails` and `RemoveReplica` are the stages of `ConvertToEC`; `RepairBegin` and
`RepairPush` those of `RepairECObject`, a goroutine of its own. `GetObject(S)` is the set
of results a read may have when the nodes `S` answer: any node that claims an index may be
taken for it, and the first k shards that are really there are used. The codec is its
contract: k shards of one content give that content, a mixture gives `Garbage`. `Sync` is
the leader-driven synchronisation of this object in one step (writes are blocked during
it). History: `cur`, and `raced`, which says that the current request ran beside a
conversion or a repair; the code does nothing to prevent that, and the properties claim
nothing for such a request until the next one.

`LeaseElection`. `FetchLease`, `SendWrite`, `StepDown`, `Acquired` and `RequestFails` are
the paths through `tryAcquireOrRenewLease`; the API server is external and accepts a write
of the current version only. Clocks: one real time, a constant skew per pod for wall
clocks, `last` on the monotonic clock as Go compares it.

`Membership`. `view` is `followerStates`, `alive` the list `followers` that
`rebuildAliveFollowers` makes of it, and the two differ between a status change and the
next rebuild, as in the code. The election is reduced to `Lapse` (no renewal for too long),
`Seize` (the write at the API server), `Renew` (its answer) and `Observe`; `lead` are the pods
for which `IsLeader()` is true, whoever holds the Lease. A health check is two steps, the
report and what the leader makes of it, and so is a forced SYNC (`force` holds the `SetStatus`
calls under way; they may be lost or late). Discovery is one step: the answer of the Endpoints
API is any set of pods. A write is two steps: `ServeHTTP` asks `IsLeader()` once
(`WriteBegins`), and the commit and its acknowledgement come later, on a pod that may have
been deposed. A handler of a sync request (`Handlers`) drains, lists the keys, pushes and ends
in steps of its own, on whichever pod its follower took for the leader; nothing asks whether
it is one, and so nothing does here. Its entry in `leases` expires or is ended by another handler
of the same follower, and it goes on when its caller has given up or restarted. History:
`trusted` (followers made READY by a synchronisation of the present term beside which no write
was admitted), `stale` and `misled` (an acknowledgement out of its term; pods changed by a write
or a handler out of its term, or by a handler beside which a write was admitted); the properties
except these by name, because the code does nothing about them. `unheard` are the pods that
have taken the Lease and have not heard it yet: their address is still that of an earlier
leader.

`Multipart`. Files are inodes, since two uploads of one part open the same name `NNNNN.tmp`:
`OpenPart` truncates and shares it, `CopyPart` leaves either content or a mixture in it,
`RenamePart` makes whatever has the name the part, `DescribePart` writes its json and runs
the deferred remove. `CompleteBegins` verifies the ETags, `ReaderOpens` and `ReaderEnds` are
`multipartPartsReader.Read`, which deletes a part once it is read: `ReaderEnds` removes the
data, `PartDeleted` the json, be it of a later upload by then. `sort.Slice` is not
stable, so `Sorted` is every order that has the part numbers ascending. `os.RemoveAll` is two
steps, `EmptySession` and `RemoveDir`. All contents have one size, so the size check of
`StageObject` only finds truncated files. History: `acked`, `doubt` (parts whose uploads
overlapped or were cut short between data and json), `leak` (a session directory without
upload.json).

`Bucket`. `MoveData` and `MoveMeta` are the two renames (or removals) of a commit. The service
reads the metadata (`ReadBegins`); of a replica the repository reads them again and opens the
file (`ReadMeta`, `ReadData`); of an erasure-coded object `ReadECObject` reads them again
(`ReadCodedMeta`) and fetches the shards one by one (`FetchShard`, two fetches stand for k).
`shards` is the version whose shards were stored last, `shed` the keys whose shards a PUT or
DELETE is removing, node by node: each fetch may or may not find one. `ListWalk` and `ListPage`
are one page, `DeleteBucket`, `RemoveDataDir`, `RemoveMetaDir` the three steps of a deletion.
Keys are numbers in the order of their names, `GroupOf` is what the delimiter makes of them.
GETs and listings change nothing, so a behaviour has one of them, begun at any time. Within a
page the metadata of all entries are read at once. A conversion is one step of an object nobody
writes, and the nodes that have shards answer: what happens inside it, and whom a GET finds, is
`ErasureCoding`'s. History: `past`, `clash` (keys with two writes at once, which `FsRepository`
is about), `gone` (the key of the GET, once deleted or converted or, for a GET from shards,
replaced), `steady`, `objects`.

## Runs

| Run | Result | Shows |
|---|---|---|
| `election` | holds | mutual exclusion and hand-over for pods whose last renewal was answered promptly, whatever happens to the others; monotone RenewTime |
| `election_code_timing` | violated | with 15 s / 2 s / 5 s two pods lead at once |
| `gate` | holds | exact counter, exclusion, wake-ups, refinement of `SyncExclusion`, parked writes wake unless a client stalls in its body |
| `replication` | holds | READY replicas agree, promotion only when equal, outside the keys in doubt or torn |
| `replication_faults` | holds | refused requests stay invisible on all nodes, unless the leader's commit failed half-way |
| `replication_overlap` | violated | two overlapping writes of a key leave the replicas different |
| `files` | holds | a key outside doubt has data and metadata of its last undisturbed commit; leftovers and orphans are reclaimed |
| `erasure` | holds | the last undisturbed content stays recoverable through failed conversions, repairs and one lost disk; reads return nothing else |
| `membership` | holds | synchronised followers agree, acknowledged writes are on the leader, pods forward requests in a circle only until a seizure is answered |
| `multipart` | holds | completed objects are what was requested, acknowledged parts stay until a completion removes them, sessions are reclaimed |
| `bucket` | holds | GETs are not older than their headers and find a body, unless the object went (or, under a GET from shards, was replaced) meanwhile; listings are complete and end; replicated objects that were complete survive `DeleteBucket` |
| `bucket_coded` | violated | a bucket of erasure-coded objects is taken for empty and loses their metadata |

Every violated run states a sentence of the repository's own documentation or comments and
is explained under `findings` in `PROJECT.json`.

What else the models show the code to do is excepted by name in the properties, through a
history variable, and so is not caught by them: a write beside a synchronisation whose 30 s
lease has expired or was ended by another handler of the same node (`unbroken` of `WriteGate`,
`doubt` of `Replication`, `misled` of `Membership`), a commit or a push that lands after its
caller gave up (`doubt`), a commit that fails with files already moved (`torn`, `halfway`), a
client that stalls in its body and keeps a drain and everybody behind it waiting (third
disjunct of `ParkedWriterWakes`), a commit the orphan cleanup comes between (`doubt` of
`FsRepository`), a PUT beside a conversion (`raced`), a write or a synchronisation that
outlives its leader's term (`stale`, `misled`), overlapping uploads of one part (`doubt` of
`Multipart`), an upload acknowledged while a completion deletes an earlier one of the part
(`PartDeleted`), a session directory without `upload.json` (`leak`), a GET beside a conversion,
and a GET from shards that a PUT removes (`gone`). What the properties do say is how far such
an event reaches (its key, its follower, its session) and what ends it (the next comparison,
the next undisturbed commit or upload). A conversion that fails after its first shard leaves
the object unreadable until it is written again, although the full copies are there:
`Recoverable` only says that they are. Each is listed as a hazard.

### Bounds

- `election`: two pods, Second = 2 ticks, lease 5 (a fraction is dropped), guard 4,
  timeout 3, skew 1; 6 ticks, 3 accepted writes, 2 requests under way. That is enough for
  acquire, renew, expiry, seizure by the other pod and a late request of the first, and an
  answer that takes the whole timeout is not prompt, as in the code.
  `election_code_timing` uses whole seconds of the code.
- `gate`: two writers, three handlers (two of one node, one remote), two nodes, lease time
  1. Ages beyond the lease time are merged.
- `replication`: one follower with two handlers (symmetric), a PUT and a DELETE of one key, two
  faults: one to take a handler's lease or its caller away and one to go wrong beside it. Heartbeats,
  synchronisations and lost aborts are not bounded. `replication_faults`: two followers with one
  handler each (symmetric), one PUT, two faults: a request that is refused and a follower that
  nobody told. With the code's three phases each once, more requests repeat these.
  `replication_overlap`: two PUTs, no fault.
- `files`: one key, PUT, DELETE, PUT, one crash: one transaction to tear an object, one
  to meet it, one to repair it. These runs do not check for deadlock: when all requests
  have been made and the directories are clean nothing is left to do.
- `erasure`: k = 2, m = 1, three nodes (symmetric followers), two PUTs and a DELETE, one
  lost disk; only the first request may race (`MaxRaces`), which is enough to see that a
  later one sets things right, and the properties claim nothing while one has. With more nodes than shards
  neither `Recoverable` nor `ReadsCurrent` holds: a follower that is behind may still offer
  shards of an older version, and a read or, worse, a repair mixes them with current ones
  (TLC finds both with k = m = 1 and three nodes); with as many nodes as shards a conversion
  needs all of them, so none is behind.

- `membership`: two pods (symmetric), one write, two handlers, two changes of the Lease (a pod
  leads and is deposed), one restart, two requests to be synchronised (two handlers of one
  follower, or one of each pod), one health report or SetStatus call under way at a time;
  expiries, discoveries, failures and renewals are not bounded.
- `multipart`: two parts, two uploads that may be of one part or of two, two completions
  with every list over them worth telling apart, one crash: enough for two uploads to share
  a file while a completion reads it, and for two completions of one session.
- `bucket`: keys `a`, `b/1`, `c`, erasure coding enabled, one PUT and one DELETE of any of them, pages of one entry
  and of the default 1000, the prefixes "" and "b", any set of objects at the start.
  `bucket_coded` needs two keys.
  These three may stop when all requests have been made, so deadlock is not checked.

### Fairness

`gate`: runnable goroutines get the mutex, and a leader-driven synchronisation ends (each of
its calls has a timeout). Nothing makes clients, followers or remote synchronisations act, and
nothing makes an admitted write end: `PutObject` reads the client's body inside the gate
(`service.go:341`) and the server has no read timeout (`main.go:153`). So `ParkedWriterWakes`
excepts a lease of a remote synchronisation and a write that stays active for ever.
`files`: the maintenance goroutine runs every minute and each pass visits every staging
directory and every data file (strong fairness of each look, since the goroutine is busy
with one entry at a time), and files grow old. `multipart`: the cleanup goroutine of
`main.go` runs on a ticker and a removal it has begun goes on (weak fairness of
`CleanupExpiredMultipartUploads` and `RemoveDir`). `bucket`: a client that lists asks for the
next page and gets its answer (weak fairness of `ListWalk` and `ListPage`); nothing else is
fair, `ListingEnds` holds whatever is written meanwhile.

## Proofs

All theorems are for arbitrary sets of pods, nodes, writers, transactions, parts and keys.
The assumptions on constants are the named `ASSUME`s of the modules, which TLC evaluates on
every run; what a theorem assumes beyond them is said here.

- `LeaseElection_proofs`: `TypeCorrect`, `RenewMonotone`, `MutualExclusion` and `HandoverSafe`,
  for any timing constants. What the guard window has to cover is part of the property, for each
  pod and each renewal (`Prompt`: the time its answer took, plus clock skew and the dropped
  fraction), so the theorems hold of the code's constants too, where they claim nothing for a
  pod whose answer took longer than 2 s (and `election_code_timing` shows that nothing can be).
  The invariant relates a prompt leader's `last` to the RenewTime of the Lease it holds, and an
  expired Lease to the silence of its holder.
- `WriteGate_proofs`: `CountCorrect` by cardinality of finite sets, `ExclusionHolds` from
  "an unbroken handler's node is leased", `WakeupsHold`, and `GateRefinesExclusion`, the
  step simulation of `SyncExclusion` (liveness is not part of it).
- `Replication_proofs`: for any number of followers, handlers, requests and faults, with
  leases that expire. `RefusedStaysInvisible` from `ContentLanded`: whatever is stored, pushed, late
  or stray has been committed on the leader, if only half-way. `ReplicasAgree` and
  `PromotionSafe` assume nothing beyond the constants; their invariant has four parts: the key of
  a write that is active beside a handler past the gate is in doubt (`GateInv`), outside doubt and
  torn keys what a handler has left to push or delete covers every difference (`SyncInv`, for
  each handler on its own), a write that found no followers finds none later but those its key
  is in doubt on, and unoverlapped writes are one at a time (`CommitInv`), and a READY follower
  differs from the leader only where a commit is still owed to it (`AgreeInv`). The properties
  are not inductive because they say nothing of a synchronisation that is half done. Two handlers
  of one follower do not disturb each other's `SyncInv` on a key outside doubt, since both bring
  it to what the leader holds.
- `FsRepository_proofs`: `LastCommitHolds`. The property is not inductive because it says
  nothing between the two renames; the invariant adds that a commit in `alone` has its data
  in place with no other commit or cleanup on its key, and that outside `doubt` every
  commit under way is such a one.

- `Membership_proofs`: `ProxyLoopsEnd`, `SynchronisedFollowersAgree`, `LeaderHasAcked`. The
  properties speak of a pod that leads now; the invariants speak of the holder of the Lease,
  leading or not, and of what is under way in its term. `AddressInv`: pods that have heard of
  the Lease form no circle of addresses, because each address was the holder when it was
  learnt. `TermInv`: writes in their term run on the holder, handlers in their term have listed
  what both sides still hold (`GateInv`: no write has been admitted beside them, so none ends). `TrustInv`: a
  trusted follower is in the list the next write uses. `AgreeInv` follows from these.
  The loop property was first stated in a form that holds for two pods only. Its proof failed
  for three, TLC then found three pods forwarding in a circle, and the property now says what
  does hold for any number: one of the circle has not heard of its own seizure.
- `Bucket_proofs`: `ReadsNeverOlder`, `ListingsComplete`, `ReplicatedObjectsSurvive`.
  `FreshInv`: a version is nowhere before its rename. `FileInv`: outside `clash` a key has one
  write at a time, between its renames the data are its own, and data are never a replaced
  version. `ShardInv`: the stored shards of a coded key are those its metadata name, unless a
  PUT is just removing them. `ReadInv` (`ReplicaInv`, `CodedInv`) carries that through the steps of a
  GET of either kind. `ListInv`: nothing behind the
  token is counted twice, everything steady up to the token has been counted; it needs that
  the keys of a common prefix come one after the other (`BucketAssumption`, true of any
  delimiter), and that a full page has a last entry (`RankExists`, from the cardinality of
  finite sets).
- `ErasureCoding_proofs`: `ContentRecoverable` and `NoStaleShardRead`, both from
  `ShardOnEveryNode` (no more nodes than shards; see the bounds of `erasure` for why that is
  needed). `KnownInv`: stored content comes from requests that were made. `CurrentInv`, which
  says nothing while a request has raced: the leader's metadata are current; while they say
  REPLICA so are its data; once a conversion has begun nobody has stale shards under metadata
  that offer them; and each lost disk has cost one shard of an injective placement
  (`PlacedInv`, by counting the indices that are not in place). `Recoverable` and
  `ReadsCurrent` are the same invariant seen from the disk and from a reader.
- `Multipart_proofs`: `AcknowledgedPartsKept` and `CompletedAsRequested`. `InodeInv`: an inode
  belongs to the part whose upload made it, and a `.tmp` file nobody uploads to is nobody's.
  `UploadInv`: an upload nobody has disturbed is alone under its part and with its inode, any
  other leaves its part in doubt. `PartInv`: outside doubt, and not between its data and its
  json, a part has the content its ETag names. `CompInv`: what a completion has read, reads
  and will read is what was requested, as long as nobody uploads the part; another completion
  that deletes it first makes this one fail, not differ.

The type theorems (`*TypeCorrect`) of `Bucket` and `Multipart` rest on a `FullType` that also
covers the fields `TypeOK` leaves open, since the other proofs need them.

Only model-checked: the liveness properties (`ParkedWriterWakes`, `LeftoversReclaimed`,
`OrphansReclaimed`, `SessionReclaimed`, `ListingEnds`; liveness under fairness is out of the
prover's reach) and all violations. Every invariant and every other action property or
refinement of a run that holds is proved.

## Plan

1. Done: all modules with their runs, and the proofs of all their safety properties.
2. Proofs: weaker conditions where a theorem assumes more than it must: shards of bigger
   clusters whose followers are never behind; what a refused DELETE leaves, where
   `RefusedNeverVisible` speaks of PUTs only.
3. Erasure coding: what repair does to the number of shards that can be found, keys with a
   slash; the arithmetic of the codec (split, padding, trim) against a reference definition.

## Not modelled

- The role label of a pod (`updatePodLabel`): only the Kubernetes Service reads it, and the
  goroutines that patch it multiply the states of `Membership` beyond what TLC can visit.
- SigV4 authentication, XML, headers and error texts, configuration parsing, counters and
  histograms: stateless or write-only.
- The Galois-field arithmetic of the Reed-Solomon library, which is used through its
  contract.
- Power failures that lose unsynced renames, unreadable files and disk errors other than
  the error paths named above; changes of a pod's address.
- Replication of buckets and of multipart sessions: the code has none, so after a failover
  an upload ID and an empty bucket are unknown, and followers keep a deleted bucket.
- Local reads of followers (`allowLocalReads`): eventually consistent by design, the code
  bounds nothing.

Weaknesses of the code that no property covers: in a cluster with more nodes than shards a
repair may mix shards of two versions (above, bounds of `erasure`); the role label is patched only on the
transition to leader (`k8s_manager.go:546`); `handleSyncDelete` ignores errors
(`handlers.go:508`); `getLocalKeys` skips unreadable metadata, and the object is then deleted
on the follower (`coordinator.go:206`); `DeleteAllECShards` misses keys with a slash
(`filesystem.go:590`); repair gives the leader a second shard and forgets the first
(`ec/manager.go:680`); `cleanEmptyDirs` may remove a directory between `MkdirAll` and `Rename`
of another commit (`filesystem.go:226`); the writes-blocked gauge lags behind the gate
(`service.go:135`).
