------------------------------- MODULE Bucket -------------------------------
(***************************************************************************)
(* One bucket on the leader as its clients use it (s3api/router.go,        *)
(* s3app/service.go, storage/fs/filesystem.go): objects are written and    *)
(* deleted in two file operations, read in three, listed page by page, and *)
(* the bucket is created and deleted, by requests that run at the same     *)
(* time and share no lock.                                                 *)
(*                                                                         *)
(* Versions are named by the transaction that wrote them.  Staging, aborts *)
(* and crashes are FsRepository's subject and what happens inside a        *)
(* conversion is ErasureCoding's: here a commit is not cut short, a        *)
(* conversion of an object that nobody writes is one step and the nodes    *)
(* that have shards answer; two fetches stand for the k of a GET.  Keys    *)
(* are numbers in the order of their names; a listing prefix selects a set *)
(* of keys, and the delimiter sends a key to the common prefix GroupOf[k]. *)
(***************************************************************************)
EXTENDS Integers, FiniteSets

CONSTANTS
  Keys,        \* positive numbers
  GroupOf,     \* the common prefix of a key, or None
  Selections,  \* what the prefixes of listings select
  PageSizes,   \* max-keys of listings
  Puts, Deletes,
  First,       \* the version of the objects that are there at the beginning
  Shard,       \* the bytes of one shard
  Mixed,       \* what shards of two versions are reconstructed to
  None,
  Coding       \* is erasure coding enabled?

ASSUME BucketAssumption ==
  /\ Keys \subseteq Nat \ {0} /\ IsFiniteSet(Keys)
  /\ Selections \subseteq SUBSET Keys
  /\ PageSizes \subseteq Int
  /\ Puts \intersect Deletes = {}
  /\ First \notin Puts
  /\ {Shard, Mixed, None} \intersect (Puts \union {First}) = {}
  /\ Coding \in BOOLEAN
  \* the keys of a common prefix come one after the other
  /\ \A i, j, k \in Keys :
       i < j /\ j < k /\ GroupOf[i] = GroupOf[k] /\ GroupOf[i] # None
         => GroupOf[j] = GroupOf[i]

VARIABLES
  dataDir, metaDir,  \* the two directories of the bucket
  data, meta,        \* files of a key
  ec,                \* keys whose metadata says EC
  shards,            \* the version whose shards were stored last
  shed,              \* keys whose shards are being removed, node by node
  tx,                \* where a PUT or DELETE is, and its key
  rd,                \* a GET
  ls,                \* a listing, page after page
  db,                \* where DeleteBucket is
  past,              \* history: versions of a key that were replaced
  clash,             \* history: keys with two writes at once
  gone,              \* history: the GET's key, once it has been deleted or
                     \* converted, or replaced while the GET goes by shards
  steady,            \* history: keys with metadata since the listing began
  objects            \* history: the objects there were when the data directory went

vars == <<dataDir, metaDir, data, meta, ec, shards, shed, tx, rd, ls, db, past, clash, gone,
          steady, objects>>
dirs == <<dataDir, metaDir>>
coded == <<shards, shed>>
files == <<data, meta, ec, coded>>

----------------------------------------------------------------------------

Tx == Puts \union Deletes
Versions == Puts \union {First}

\* The writes of k that have begun and are not done.
Active(k) == {t \in Tx : tx[t].key = k /\ tx[t].pc \in {"begun", "moved"}}

Listed == {k \in Keys : meta[k] # None}

Quiet == [pc |-> "idle", key |-> None, meta |-> None, body |-> None, stale |-> {}]
NoListing == [pc |-> "idle", select |-> {}, max |-> 0, token |-> 0, keys |-> {},
              count |-> [k \in Keys |-> 0], groups |-> [g \in {GroupOf[k] : k \in Keys} |-> 0]]

\* GETs and listings change nothing that another request sees: one of them, at
\* any time of a behaviour, is as good as many, and its answer may end it.
Unobserved == rd.pc = "idle" /\ ls.pc = "idle"
Answered == rd.pc = "done" \/ ls.pc \in {"done", "failed"}

Gone(k) == IF rd.key = k THEN gone \union {k} ELSE gone

\* The removal of the shards of k, if there are any, has begun.
Shed(k) == IF shards[k] = None THEN shed ELSE shed \union {k}

\* The GET found the object erasure coded and reads it from shards.
ByShards == rd.pc \in {"coded", "fetch", "fetched"}

\* Any set of replicated objects.
Init ==
  /\ dataDir = TRUE /\ metaDir = TRUE
  /\ \E K \in SUBSET Keys : meta = [k \in Keys |-> IF k \in K THEN First ELSE None]
  /\ ec = {} /\ shards = [k \in Keys |-> None] /\ shed = {}
  /\ data = meta
  /\ tx = [t \in Tx |-> [pc |-> "new", key |-> None]]
  /\ rd = Quiet
  /\ ls = NoListing
  /\ db = "idle"
  /\ past = [k \in Keys |-> {}]
  /\ clash = {} /\ gone = {} /\ steady = {} /\ objects = {}

----------------------------------------------------------------------------
(* PutObject, DeleteObject and the conversion of an object.                *)

HasBucket == dataDir

\* CreateBucket, unless the data directory is there.
EnsureBucket ==
  /\ dataDir' = TRUE
  /\ metaDir' = (metaDir \/ ~HasBucket)

\* EnsureBucket for a PUT, checkBucketExists for a DELETE.
BeginWrite(t, k) ==
  /\ ~Answered /\ tx[t].pc = "new"
  /\ t \in Deletes => HasBucket
  /\ tx' = [tx EXCEPT ![t] = [pc |-> "begun", key |-> k]]
  /\ EnsureBucket
  /\ clash' = IF Active(k) = {} THEN clash ELSE clash \union {k}
  /\ UNCHANGED <<files, rd, ls, db, past, gone, steady, objects>>

\* Mutant: the metadata is moved first.
MutMoveDataLast(t) ==
  LET k == tx[t].key IN
  /\ ~Answered /\ tx[t].pc = "begun"
  /\ meta' = [meta EXCEPT ![k] = IF t \in Puts THEN t ELSE None]
  /\ ec' = ec \ {k}
  /\ past' = [past EXCEPT ![k] = @ \union ({meta[k]} \ {None})]
  /\ tx' = [tx EXCEPT ![t].pc = "moved"]
  /\ UNCHANGED <<dirs, data, coded, rd, ls, db, clash, gone, steady, objects>>

\* Mutant: the directory is taken for granted.
MutMoveDataNoMkdir(t) ==
  LET k == tx[t].key IN
  /\ ~Answered /\ tx[t].pc = "begun"
  /\ data' = [data EXCEPT ![k] = IF t \in Puts THEN t ELSE None]
  /\ gone' = IF t \in Deletes THEN Gone(k) ELSE gone
  /\ tx' = [tx EXCEPT ![t].pc = "moved"]
  /\ UNCHANGED <<dirs, meta, ec, coded, rd, ls, db, past, clash, steady, objects>>

\* CommitTransaction, first file; a PUT then removes the shards there were, here
\* and, when they commit, on the followers.
MoveData(t) ==
  LET k == tx[t].key IN
  /\ ~Answered /\ tx[t].pc = "begun"
  /\ data' = [data EXCEPT ![k] = IF t \in Puts THEN t ELSE None]
  /\ dataDir' = (dataDir \/ t \in Puts)
  /\ shed' = IF t \in Puts THEN Shed(k) ELSE shed
  /\ gone' = IF t \in Deletes \/ ByShards THEN Gone(k) ELSE gone
  /\ tx' = [tx EXCEPT ![t].pc = "moved"]
  /\ UNCHANGED <<metaDir, meta, ec, shards, rd, ls, db, past, clash, steady, objects>>

\* CommitTransaction, second file; now a DELETE removes the shards.
MoveMeta(t) ==
  LET k == tx[t].key IN
  /\ ~Answered /\ tx[t].pc = "moved"
  /\ meta' = [meta EXCEPT ![k] = IF t \in Puts THEN t ELSE None]
  /\ metaDir' = (metaDir \/ t \in Puts)
  /\ ec' = ec \ {k}
  /\ shed' = IF t \in Deletes THEN Shed(k) ELSE shed
  /\ past' = [past EXCEPT ![k] = @ \union ({meta[k]} \ {None})]
  /\ gone' = IF t \in Deletes THEN Gone(k) ELSE gone
  /\ steady' = IF t \in Deletes THEN steady \ {k} ELSE steady
  /\ tx' = [tx EXCEPT ![t].pc = "done"]
  /\ UNCHANGED <<dataDir, data, shards, rd, ls, db, clash, objects>>

\* ConvertToEC writes the shards, over any there are, and ends with
\* RemoveReplicaData.
Convert(k) ==
  /\ ~Answered /\ Coding /\ Active(k) = {}
  /\ k \notin ec /\ meta[k] # None /\ data[k] = meta[k]
  /\ ec' = ec \union {k}
  /\ shards' = [shards EXCEPT ![k] = meta[k]]
  /\ shed' = shed \ {k}
  /\ data' = [data EXCEPT ![k] = None]
  /\ gone' = Gone(k)
  /\ UNCHANGED <<dirs, meta, tx, rd, ls, db, past, clash, steady, objects>>

----------------------------------------------------------------------------
(* GetObject: the service reads the metadata to see whether the object is  *)
(* erasure coded, the repository reads it again, then opens the file.      *)
(* ReadECObject also reads it again, asks the nodes for their shards and   *)
(* fetches them one after the other.                                       *)

ReadBegins(k) ==
  /\ Unobserved
  /\ HasBucket /\ meta[k] # None
  /\ rd' = [Quiet EXCEPT !.pc = IF k \in ec THEN "coded" ELSE "replica", !.key = k]
  /\ gone' = {k} \intersect {tx[t].key : t \in {u \in Tx : tx[u].pc = "moved" /\
                                               (u \in Deletes \/ k \in ec)}}
  /\ UNCHANGED <<dirs, files, tx, ls, db, past, clash, steady, objects>>

\* ReadECObject's own metadata become the headers; it falls back to GetObject of
\* the repository when they are those of a replica by now.
ReadCodedMeta ==
  LET k == rd.key IN
  /\ rd.pc = "coded"
  /\ rd' = IF meta[k] = None THEN Quiet
           ELSE IF k \in ec
           THEN [rd EXCEPT !.pc = "fetch", !.meta = meta[k], !.stale = past[k]]
           ELSE [rd EXCEPT !.pc = "replica"]
  /\ UNCHANGED <<dirs, files, tx, ls, db, past, clash, gone, steady, objects>>

\* What a node gives for a shard of k.
Found(k) == {shards[k]} \union IF k \in shed THEN {None} ELSE {}

\* The first shard, and the last; with too few of them the GET fails.
FetchShard ==
  LET k == rd.key IN
  /\ rd.pc \in {"fetch", "fetched"}
  /\ \E v \in Found(k) :
       rd' = IF v = None THEN [rd EXCEPT !.pc = "done", !.body = None]
             ELSE IF rd.pc = "fetch" THEN [rd EXCEPT !.pc = "fetched", !.body = v]
             ELSE [rd EXCEPT !.pc = "done", !.body = IF v = @ THEN v ELSE Mixed]
  /\ UNCHANGED <<dirs, files, tx, ls, db, past, clash, gone, steady, objects>>

\* The metadata that becomes the headers; by now it may be that of an erasure
\* coded object, of which the repository holds a shard.
ReadMeta ==
  LET k == rd.key IN
  /\ rd.pc = "replica"
  /\ IF meta[k] = None THEN rd' = Quiet
     ELSE IF k \in ec
     THEN \E b \in {Shard} \union IF k \in shed THEN {None} ELSE {} :
            rd' = [rd EXCEPT !.pc = "done", !.meta = meta[k], !.body = b]
     ELSE rd' = [rd EXCEPT !.pc = "open", !.meta = meta[k], !.stale = past[k]]
  /\ UNCHANGED <<dirs, files, tx, ls, db, past, clash, gone, steady, objects>>

\* The body; None is an error.
ReadData ==
  /\ rd.pc = "open"
  /\ rd' = [rd EXCEPT !.pc = "done", !.body = data[rd.key]]
  /\ UNCHANGED <<dirs, files, tx, ls, db, past, clash, gone, steady, objects>>

----------------------------------------------------------------------------
(* ListObjectsV2, called again with NextContinuationToken until the result *)
(* is not truncated.                                                       *)

PageSize(max) == IF max <= 0 THEN 1000 ELSE max

ListBegins(s, m) ==
  /\ Unobserved
  /\ ls' = [NoListing EXCEPT !.pc = "walk", !.select = s, !.max = PageSize(m)]
  /\ steady' = Listed
  /\ UNCHANGED <<dirs, files, tx, rd, db, past, clash, gone, objects>>

\* A page begins: the names of the metadata files are collected.
ListWalk ==
  /\ ls.pc = "walk"
  /\ ls' = IF HasBucket /\ metaDir THEN [ls EXCEPT !.pc = "page", !.keys = Listed]
           ELSE [ls EXCEPT !.pc = "failed"]
  /\ UNCHANGED <<dirs, files, tx, rd, db, past, clash, gone, steady, objects>>

\* The walk comes to a directory that the DELETE of its last key has removed.
ListWalkFails ==
  /\ ls.pc = "walk"
  /\ \E t \in Deletes : tx[t].pc = "done" /\ GroupOf[tx[t].key] # None
  /\ ls' = [ls EXCEPT !.pc = "failed"]
  /\ UNCHANGED <<dirs, files, tx, rd, db, past, clash, gone, steady, objects>>

\* Mutant: the token's own key is listed again.
MutWanted == {k \in ls.keys : k >= ls.token} \intersect ls.select

\* The names behind the token that have the prefix.
Wanted == {k \in ls.keys : k > ls.token} \intersect ls.select

\* The loop over them: a key with a delimiter adds its common prefix, any other
\* whose metadata is still there is an entry; it ends with the last entry of a
\* full page.
Entries == {k \in Wanted : GroupOf[k] = None /\ meta[k] # None}
Full == Cardinality(Entries) >= ls.max
LastEntry == CHOOSE k \in Entries : Cardinality({j \in Entries : j <= k}) = ls.max
InPage(k) == Full => k <= LastEntry
Truncated == Full /\ \E k \in ls.keys : k > LastEntry

\* Occurrences are counted up to two.
More(n, yes) == IF yes /\ n < 2 THEN n + 1 ELSE n

\* Mutant: an empty page counts as truncated.
MutListPage ==
  /\ ls.pc = "page"
  /\ ls' = [ls EXCEPT
       !.pc = IF Truncated \/ Wanted = {} THEN "walk" ELSE "done",
       !.token = IF Truncated THEN LastEntry ELSE @,
       !.keys = {},
       !.count = [k \in Keys |-> More(@[k], k \in Entries /\ InPage(k))],
       !.groups = [g \in DOMAIN @ |->
                     More(@[g], \E k \in Wanted : GroupOf[k] = g /\ g # None /\ InPage(k))]]
  /\ UNCHANGED <<dirs, files, tx, rd, db, past, clash, gone, steady, objects>>

ListPage ==
  /\ ls.pc = "page"
  /\ ls' = [ls EXCEPT
       !.pc = IF Truncated THEN "walk" ELSE "done",
       !.token = IF Truncated THEN LastEntry ELSE @,
       !.keys = {},
       !.count = [k \in Keys |-> More(@[k], k \in Entries /\ InPage(k))],
       !.groups = [g \in DOMAIN @ |->
                     More(@[g], \E k \in Wanted : GroupOf[k] = g /\ g # None /\ InPage(k))]]
  /\ UNCHANGED <<dirs, files, tx, rd, db, past, clash, gone, steady, objects>>

----------------------------------------------------------------------------
(* CreateBucket and DeleteBucket.                                          *)

CreateBucket ==
  /\ ~Answered /\ ~(dataDir /\ metaDir)
  /\ dataDir' = TRUE /\ metaDir' = TRUE
  /\ UNCHANGED <<files, tx, rd, ls, db, past, clash, gone, steady, objects>>

\* The objects nobody is writing.
Settled == {[key |-> k, coded |-> k \in ec] : k \in {j \in Listed \ clash : Active(j) = {}}}

\* isDirEmpty looks for data files.
DataEmpty == \A k \in Keys : data[k] = None

DeleteBucket ==
  /\ ~Answered /\ db = "idle" /\ DataEmpty
  /\ db' = "checked"
  /\ UNCHANGED <<dirs, files, tx, rd, ls, past, clash, gone, steady, objects>>

\* Mutant: the error of os.Remove is ignored.
MutRemoveDataDir ==
  /\ ~Answered /\ db = "checked"
  /\ db' = "removed" /\ objects' = Settled
  /\ dataDir' = (dataDir /\ ~DataEmpty)
  /\ UNCHANGED <<metaDir, files, tx, rd, ls, past, clash, gone, steady>>

\* os.Remove fails when a file has come into the directory.
RemoveDataDir ==
  /\ ~Answered /\ db = "checked"
  /\ IF DataEmpty
     THEN dataDir' = FALSE /\ db' = "removed" /\ objects' = Settled
     ELSE db' = "idle" /\ UNCHANGED <<dataDir, objects>>
  /\ UNCHANGED <<metaDir, files, tx, rd, ls, past, clash, gone, steady>>

\* os.RemoveAll of the metadata, whatever it is by now.
RemoveMetaDir ==
  /\ ~Answered /\ db = "removed"
  /\ db' = "idle"
  /\ metaDir' = FALSE
  /\ meta' = [k \in Keys |-> None]
  /\ ec' = {}
  /\ steady' = {}
  /\ objects' = {}
  /\ UNCHANGED <<dataDir, data, coded, tx, rd, ls, past, clash, gone>>

Write(t) == (\E k \in Keys : BeginWrite(t, k)) \/ MoveData(t) \/ MoveMeta(t)
Read == (\E k \in Keys : ReadBegins(k)) \/ ReadCodedMeta \/ FetchShard
        \/ ReadMeta \/ ReadData
List == (\E s \in Selections, m \in PageSizes : ListBegins(s, m))
        \/ ListWalk \/ ListWalkFails \/ ListPage
Manage == CreateBucket \/ DeleteBucket \/ RemoveDataDir \/ RemoveMetaDir

Next ==
  \/ \E t \in Tx : Write(t)
  \/ \E k \in Keys : Convert(k)
  \/ Read \/ List \/ Manage

Spec == Init /\ [][Next]_vars

\* A client that has asked for a page and for the next one gets its answers.
FairSpec == Spec /\ WF_vars(ListWalk) /\ WF_vars(ListPage)

----------------------------------------------------------------------------

\* Type correctness; a data file is in its directory.
TypeOK ==
  /\ dataDir \in BOOLEAN /\ metaDir \in BOOLEAN
  /\ data \in [Keys -> Versions \union {None}]
  /\ meta \in [Keys -> Versions \union {None}]
  /\ ~dataDir => DataEmpty
  /\ ~metaDir => Listed = {}
  /\ ec \subseteq Listed /\ shed \subseteq Keys
  /\ shards \in [Keys -> Versions \union {None}]
  /\ tx \in [Tx -> [pc : {"new", "begun", "moved", "done"}, key : Keys \union {None}]]
  /\ rd.pc \in {"idle", "coded", "fetch", "fetched", "replica", "open", "done"}
  /\ rd.body \in Versions \union {None, Shard, Mixed}
  /\ ls.pc \in {"idle", "walk", "page", "done", "failed"}
  /\ ls.token \in Keys \union {0}
  /\ db \in {"idle", "checked", "removed"}

\* A GET answers with the headers of one version and the body of the same or a
\* later one, never an earlier; it finds the body, whole and of one version,
\* unless the object was deleted or converted while it ran or, when it was read
\* from shards, replaced: then the GET may fail, and when the new object is
\* converted too, it may be given shards of both.  Not claimed for keys with two
\* writes at once.
ReadNotOlder ==
  rd.pc = "done" /\ rd.key \notin clash =>
    /\ rd.body \notin rd.stale
    /\ rd.body \in {None, Shard, Mixed} => rd.key \in gone

\* Page by page, whatever is written meanwhile, a listing returns every selected
\* object that was there all the time exactly once, and no entry twice.
ListingComplete ==
  /\ \A k \in Keys : ls.count[k] <= 1
  /\ \A g \in DOMAIN ls.groups : ls.groups[g] <= 1
  /\ ls.pc = "done" =>
       \A k \in steady \intersect ls.select :
         IF GroupOf[k] = None THEN ls.count[k] = 1 ELSE ls.groups[GroupOf[k]] = 1

\* Following the tokens ends, also when the last page is exactly full.
ListingEnds == ls.pc = "walk" ~> ls.pc \in {"done", "failed"}

\* Deleting a bucket removes no replicated object that was complete, and written
\* by nobody, when the data directory was removed: a PUT that commits after
\* isDirEmpty makes os.Remove fail.  (One that commits after os.Remove does lose
\* its metadata.)
ReplicatedObjectsKept ==
  [][\A o \in objects : o.key \in Listed /\ RemoveMetaDir => o.coded]_vars

\* DeleteBucket refuses a bucket that is not empty: "Check if empty",
\* "The bucket you tried to delete is not empty."
NonEmptyBucketKept ==
  [][\A o \in objects : ~(o.key \in Listed /\ RemoveMetaDir)]_vars
=============================================================================
