--------------------------- MODULE Bucket_proofs ----------------------------
(***************************************************************************)
(* Proofs about Bucket for every set of keys, requests, prefixes and page  *)
(* sizes, with and without erasure coding.                                 *)
(*                                                                         *)
(* A GET and a listing take several steps, and what they answer depends on *)
(* what writes did in between.  The invariants say what is known of the    *)
(* files of a key while writes are between their two renames, and what a   *)
(* GET or a listing that is under way can still come to.                   *)
(***************************************************************************)
EXTENDS Bucket, FiniteSetTheorems, TLAPS

Groups == {GroupOf[k] : k \in Keys}

\* TypeOK in parts, with the fields it leaves open.
FileType ==
  /\ dataDir \in BOOLEAN /\ metaDir \in BOOLEAN
  /\ data \in [Keys -> Versions \union {None}]
  /\ meta \in [Keys -> Versions \union {None}]
  /\ ~dataDir => DataEmpty
  /\ ~metaDir => Listed = {}
  /\ ec \subseteq Listed /\ shed \subseteq Keys
  /\ shards \in [Keys -> Versions \union {None}]

TxType ==
  /\ tx \in [Tx -> [pc : {"new", "begun", "moved", "done"}, key : Keys \union {None}]]
  /\ \A t \in Tx : tx[t].pc # "new" => tx[t].key \in Keys

Gets == [pc : {"idle", "coded", "fetch", "fetched", "replica", "open", "done"}, key : Keys \union {None},
         meta : Versions \union {None}, body : Versions \union {None, Shard, Mixed},
         stale : SUBSET Versions]
ReadType == rd \in Gets /\ (rd.pc # "idle" => rd.key \in Keys)

Listings == [pc : {"idle", "walk", "page", "done", "failed"}, select : SUBSET Keys,
             max : Nat, token : Keys \union {0}, keys : SUBSET Keys,
             count : [Keys -> 0..2], groups : [Groups -> 0..2]]
ListType == ls \in Listings /\ (ls.pc # "idle" => ls.max > 0)

HistoryType ==
  /\ db \in {"idle", "checked", "removed"}
  /\ past \in [Keys -> SUBSET Versions]
  /\ clash \subseteq Keys /\ gone \subseteq Keys /\ steady \subseteq Keys

FullType == FileType /\ TxType /\ ReadType /\ ListType /\ HistoryType

----------------------------------------------------------------------------
(* Files.                                                                  *)

\* What a write leaves as the data of its key.
Written(t) == IF t \in Puts THEN t ELSE None

\* Versions are new when they are written.
FreshInv ==
  \A t \in Puts, k \in Keys :
    /\ tx[t].pc \in {"new", "begun"} => data[k] # t
    /\ tx[t].pc # "done" => meta[k] # t /\ t \notin past[k]

\* Keys without clashes: one write at a time; between its renames the data are
\* its own; no data are older than a replaced version; metadata of a replicated
\* object that nobody is writing come with data.
KeyFiles(k) ==
  /\ \A t, u \in Active(k) : t = u
  /\ \A t \in Active(k) : tx[t].pc = "moved" => data[k] = Written(t)
  /\ data[k] \notin past[k]
  /\ meta[k] # None /\ k \notin ec /\ (\A t \in Active(k) : tx[t].pc # "moved")
       => data[k] # None

FileInv == \A k \in Keys \ clash : KeyFiles(k)

\* The shards of an erasure coded object are those of its version; they are only
\* removed by a PUT that is between its renames.  Replaced versions do not come
\* back.
ShardInv ==
  \A k \in Keys :
    /\ meta[k] \notin past[k]
    /\ k \in ec => shards[k] = meta[k]
    /\ k \in ec /\ k \in shed => \E t \in Puts : tx[t].pc = "moved" /\ tx[t].key = k

\* A GET of a file has seen no version that is not replaced by now, and knows
\* when its data or its replica went.
ReplicaInv ==
  rd.pc \in {"replica", "open"} =>
    /\ rd.key \notin clash =>
         /\ rd.stale \subseteq past[rd.key]
         /\ data[rd.key] = None => rd.key \in gone
    /\ rd.key \in ec => rd.key \in gone

\* A GET that goes by shards may still have to take the file, knows when the
\* shards go, and finds none that are older than its headers.
CodedInv ==
  /\ rd.pc = "coded" =>
       /\ rd.stale = {}
       /\ rd.key \notin clash /\ rd.key \notin ec /\ meta[rd.key] # None /\ data[rd.key] = None
            => rd.key \in gone
  /\ ByShards /\ rd.key \in shed => rd.key \in gone
  /\ rd.pc \in {"fetch", "fetched"} =>
       /\ shards[rd.key] # None
       /\ rd.key \notin clash =>
            /\ rd.stale \subseteq past[rd.key]
            /\ shards[rd.key] \notin rd.stale
  /\ rd.pc = "fetched" =>
       /\ rd.body = shards[rd.key] \/ rd.key \in gone
       /\ rd.key \notin clash => rd.body \notin rd.stale

ReadInv == ReplicaInv /\ CodedInv /\ ReadNotOlder

\* The objects noted when the data directory went were all erasure coded.
ObjectsCoded == \A o \in objects : o.coded

----------------------------------------------------------------------------
(* Listing.                                                                *)

\* A page ends with an entry; what is counted is not behind the token, what is
\* steady and not behind it has been counted.
ListInv ==
  /\ ls.pc # "idle" => steady \subseteq Listed
  /\ ls.pc = "page" => steady \subseteq ls.keys
  /\ ls.token # 0 => GroupOf[ls.token] = None
  /\ \A k \in Keys : ls.count[k] <= 1
  /\ \A g \in Groups : ls.groups[g] <= 1
  /\ ls.pc \in {"walk", "page"} =>
       /\ \A k \in Keys : k > ls.token => ls.count[k] = 0
       /\ \A g \in Groups : ls.groups[g] > 0 => \E k \in Keys : k <= ls.token /\ GroupOf[k] = g
       /\ \A k \in steady \intersect ls.select : k <= ls.token =>
            IF GroupOf[k] = None THEN ls.count[k] = 1 ELSE ls.groups[GroupOf[k]] = 1
  /\ ListingComplete

----------------------------------------------------------------------------
(* Types.                                                                  *)

\* A finite set of numbers has an element of every rank up to its size: the
\* last entry of a full page exists.
LEMMA RankExists ==
  ASSUME NEW S, S \subseteq Nat, IsFiniteSet(S), NEW m \in Nat \ {0}, m <= Cardinality(S)
  PROVE  \E k \in S : Cardinality({j \in S : j <= k}) = m
<1> DEFINE Below(k) == {j \in S : j <= k}
           n == Cardinality(S)
           r == [k \in S |-> Cardinality(Below(k))]
<1>1. n \in Nat
  BY FS_CardinalityType
<1>2. ASSUME NEW k \in S PROVE IsFiniteSet(Below(k)) /\ Cardinality(Below(k)) \in 1..n
  <2>1. Below(k) \in SUBSET S
    OBVIOUS
  <2>2. IsFiniteSet(Below(k)) /\ Cardinality(Below(k)) <= n
    BY <2>1, FS_Subset
  <2>3. k \in Below(k)
    BY <1>2
  <2>5. Cardinality(Below(k)) # 0
    BY <2>2, <2>3, FS_EmptySet
  <2>4. Cardinality(Below(k)) \in Nat
    BY <2>2, FS_CardinalityType
  <2> QED BY <1>1, <2>2, <2>4, <2>5
<1>3. ASSUME NEW k \in S, NEW l \in S, k < l
      PROVE  Cardinality(Below(k)) # Cardinality(Below(l))
  <2>1. Below(k) \in SUBSET Below(l) /\ l \in Below(l) /\ l \notin Below(k)
    <3>1. k \in Nat /\ l \in Nat /\ ~(l <= k) /\ l <= l
      BY <1>3
    <3>2. \A j \in S : j <= k => j <= l
      BY <1>3, <3>1
    <3>3. Below(k) \in SUBSET Below(l)
      BY <3>2
    <3> QED BY <3>1, <3>3
  <2>2. IsFiniteSet(Below(l))
    BY <1>2
  <2> QED BY <2>1, <2>2, FS_Subset
<1>4. r \in Injection(S, 1..n)
  <2>1. r \in [S -> 1..n]
    BY <1>2
  <2>2. \A k, l \in S : r[k] = r[l] => k = l
    BY <1>3
  <2> QED BY <2>1, <2>2 DEF Injection, IsInjective
<1>5. IsFiniteSet(1..n) /\ Cardinality(1..n) = n
  BY <1>1, FS_Interval
<1>6. r \in Surjection(S, 1..n)
  BY <1>4, <1>5, FS_Injection
<1>7. m \in 1..n
  BY <1>1
<1>8. PICK k \in S : r[k] = m
  <2> HIDE DEF r
  <2> QED BY <1>6, <1>7 DEF Surjection
<1> QED BY <1>8

\* The last entry of a full page is one of its entries.
LEMMA LastEntryExists ==
  ASSUME FullType, ls.pc = "page", Full
  PROVE  LastEntry \in Entries
<1>1. Entries \subseteq Keys
  BY DEF Entries, Wanted, FullType, ListType, Listings
<1>2. Entries \in SUBSET Keys /\ Entries \subseteq Nat
  BY <1>1, BucketAssumption
<1>3. IsFiniteSet(Entries)
  BY <1>2, BucketAssumption, FS_Subset
<1>4. ls.max \in Nat \ {0} /\ ls.max <= Cardinality(Entries)
  BY <1>3, FS_CardinalityType DEF FullType, ListType, Listings, Full
<1> HIDE DEF Entries
<1>5. \E k \in Entries : Cardinality({j \in Entries : j <= k}) = ls.max
  BY <1>2, <1>3, <1>4, RankExists
<1> QED BY <1>5 DEF LastEntry

LEMMA TypesSuffice == FullType => TypeOK
BY DEF FullType, FileType, TxType, ReadType, Gets, ListType, Listings, HistoryType, TypeOK

\* Steps of GETs and of listings are typed by what they make of rd and ls.
LEMMA ReadTypeStep ==
  ASSUME FullType, UNCHANGED <<dirs, files, tx, ls, db, past, clash, steady>>,
         gone' \subseteq Keys, rd' \in Gets, rd'.pc # "idle" => rd'.key \in Keys
  PROVE  FullType'
BY DEF FullType, FileType, TxType, ReadType, ListType, HistoryType, dirs, files, coded,
       DataEmpty, Listed

LEMMA ListTypeStep ==
  ASSUME FullType, UNCHANGED <<dirs, files, tx, rd, db, past, clash, gone>>,
         steady' \subseteq Keys, ls' \in Listings, ls'.pc # "idle" => ls'.max > 0
  PROVE  FullType'
BY DEF FullType, FileType, TxType, ReadType, ListType, HistoryType, dirs, files, coded,
       DataEmpty, Listed

\* The types hold initially and every operation keeps them.
LEMMA TypeStep == FullType /\ [Next]_vars => FullType'
<1> SUFFICES ASSUME FullType, [Next]_vars PROVE FullType'
  OBVIOUS
<1> USE BucketAssumption DEF FullType
<1>1. ASSUME NEW t \in Tx, Write(t) PROVE FullType'
  <2>1. ASSUME NEW k \in Keys, BeginWrite(t, k) PROVE FullType'
    <3>1. FileType'
      BY <2>1 DEF BeginWrite, FileType, EnsureBucket, HasBucket, DataEmpty, Listed, files, coded
    <3>2. TxType'
      BY <2>1 DEF BeginWrite, TxType
    <3>3. ReadType' /\ ListType' /\ HistoryType'
      BY <2>1 DEF BeginWrite, ReadType, ListType, HistoryType
    <3> QED BY <3>1, <3>2, <3>3
  <2>2. CASE MoveData(t)
    <3>1. tx[t].key \in Keys
      BY <2>2 DEF MoveData, TxType
    <3>2. FileType'
      BY <2>2, <3>1 DEF MoveData, FileType, Versions, Tx, DataEmpty, Listed, Shed
    <3>3. TxType'
      BY <2>2, <3>1 DEF MoveData, TxType
    <3>4. ReadType' /\ ListType' /\ HistoryType'
      BY <2>2, <3>1 DEF MoveData, ReadType, ListType, HistoryType, Gone
    <3> QED BY <3>2, <3>3, <3>4
  <2>3. CASE MoveMeta(t)
    <3>1. tx[t].key \in Keys
      BY <2>3 DEF MoveMeta, TxType
    <3>2. FileType'
      BY <2>3, <3>1 DEF MoveMeta, FileType, Versions, Tx, DataEmpty, Listed, Shed
    <3>3. TxType'
      BY <2>3, <3>1 DEF MoveMeta, TxType
    <3>4. ReadType' /\ ListType'
      BY <2>3 DEF MoveMeta, ReadType, ListType
    <3>5. HistoryType'
      BY <2>3, <3>1 DEF MoveMeta, HistoryType, FileType, Gone
    <3> QED BY <3>2, <3>3, <3>4, <3>5
  <2> QED BY <1>1, <2>1, <2>2, <2>3 DEF Write
<1>2. ASSUME NEW k \in Keys, Convert(k) PROVE FullType'
  <2>1. FileType'
    BY <1>2 DEF Convert, FileType, DataEmpty, Listed, dirs
  <2>2. TxType' /\ ReadType' /\ ListType' /\ HistoryType'
    BY <1>2 DEF Convert, TxType, ReadType, ListType, HistoryType, Gone
  <2> QED BY <2>1, <2>2
<1>3. CASE Read
  <2>1. ASSUME NEW k \in Keys, ReadBegins(k) PROVE FullType'
    <3>1. gone' \subseteq Keys
      BY <2>1 DEF ReadBegins
    <3>2. rd' \in Gets /\ rd'.key \in Keys
      BY <2>1 DEF ReadBegins, Quiet, Gets, FileType
    <3> QED BY <2>1, <3>1, <3>2, ReadTypeStep DEF ReadBegins
  <2>2. CASE ReadMeta
    <3>1. rd.key \in Keys
      BY <2>2 DEF ReadMeta, ReadType
    <3>2. rd' \in Gets /\ (rd'.pc # "idle" => rd'.key \in Keys)
      <4>1. rd \in Gets /\ meta[rd.key] \in Versions \union {None} /\ past[rd.key] \in SUBSET Versions
        BY <3>1 DEF ReadType, FileType, HistoryType
      <4>2. \/ rd' = Quiet
            \/ \E b \in {Shard, None} : rd' = [rd EXCEPT !.pc = "done", !.meta = meta[rd.key], !.body = b]
            \/ rd' = [rd EXCEPT !.pc = "open", !.meta = meta[rd.key], !.stale = past[rd.key]]
        BY <2>2 DEF ReadMeta
      <4>3. CASE rd' = Quiet
        BY <4>3 DEF Gets, Quiet
      <4>4. CASE \E b \in {Shard, None} :
                   rd' = [rd EXCEPT !.pc = "done", !.meta = meta[rd.key], !.body = b]
        <5>1. PICK b \in {Shard, None} :
                rd' = [rd EXCEPT !.pc = "done", !.meta = meta[rd.key], !.body = b]
          BY <4>4
        <5>2. rd' \in Gets
          BY <4>1, <5>1 DEF Gets
        <5> QED BY <3>1, <4>1, <5>1, <5>2 DEF Gets
      <4>5. CASE rd' = [rd EXCEPT !.pc = "open", !.meta = meta[rd.key], !.stale = past[rd.key]]
        BY <3>1, <4>1, <4>5 DEF Gets
      <4> QED BY <4>2, <4>3, <4>4, <4>5
    <3>3. gone' \subseteq Keys
      BY <2>2 DEF ReadMeta, HistoryType
    <3> QED BY <2>2, <3>2, <3>3, ReadTypeStep DEF ReadMeta
  <2>3. CASE ReadData
    <3>1. rd.key \in Keys
      BY <2>3 DEF ReadData, ReadType
    <3>2. rd' \in Gets /\ rd'.key \in Keys
      BY <2>3, <3>1 DEF ReadData, Gets, ReadType, FileType
    <3>3. gone' \subseteq Keys
      BY <2>3 DEF ReadData, HistoryType
    <3> QED BY <2>3, <3>2, <3>3, ReadTypeStep DEF ReadData
  <2>4. CASE ReadCodedMeta
    <3>1. rd.key \in Keys
      BY <2>4 DEF ReadCodedMeta, ReadType
    <3>2. rd' \in Gets /\ (rd'.pc # "idle" => rd'.key \in Keys)
      BY <2>4, <3>1 DEF ReadCodedMeta, Quiet, Gets, ReadType, FileType, HistoryType
    <3>3. gone' \subseteq Keys
      BY <2>4 DEF ReadCodedMeta, HistoryType
    <3> QED BY <2>4, <3>2, <3>3, ReadTypeStep DEF ReadCodedMeta
  <2>5. CASE FetchShard
    <3>1. rd.key \in Keys /\ rd \in Gets
      BY <2>5 DEF FetchShard, ReadType
    <3>2. Found(rd.key) \subseteq Versions \union {None}
      <4>1. shards[rd.key] \in Versions \union {None}
        BY <3>1 DEF FileType
      <4> QED BY <4>1 DEF Found
    <3>3. rd' \in Gets /\ rd'.key \in Keys
      <4>1. PICK v \in Found(rd.key) :
              rd' = IF v = None THEN [rd EXCEPT !.pc = "done", !.body = None]
                    ELSE IF rd.pc = "fetch" THEN [rd EXCEPT !.pc = "fetched", !.body = v]
                    ELSE [rd EXCEPT !.pc = "done", !.body = IF v = rd.body THEN v ELSE Mixed]
        BY <2>5, <3>1 DEF FetchShard
      <4>2. v \in Versions \union {None, Shard, Mixed}
        BY <3>2
      <4>3. \E b \in Versions \union {None, Shard, Mixed} :
              \/ rd' = [rd EXCEPT !.pc = "done", !.body = b]
              \/ rd' = [rd EXCEPT !.pc = "fetched", !.body = b]
        <5>1. CASE v = None
          BY <4>1, <5>1
        <5>2. CASE v # None /\ rd.pc = "fetch"
          BY <4>1, <4>2, <5>2
        <5>3. CASE v # None /\ rd.pc # "fetch" /\ v = rd.body
          BY <3>1, <4>1, <4>2, <5>3 DEF Gets
        <5>4. CASE v # None /\ rd.pc # "fetch" /\ v # rd.body
          BY <3>1, <4>1, <4>2, <5>4 DEF Gets
        <5> QED BY <5>1, <5>2, <5>3, <5>4
      <4>4. PICK b \in Versions \union {None, Shard, Mixed} :
              \/ rd' = [rd EXCEPT !.pc = "done", !.body = b]
              \/ rd' = [rd EXCEPT !.pc = "fetched", !.body = b]
        BY <4>3
      <4> HIDE DEF Versions
      <4> QED BY <3>1, <4>4 DEF Gets
    <3>4. gone' \subseteq Keys
      BY <2>5 DEF FetchShard, HistoryType
    <3> QED BY <2>5, <3>3, <3>4, ReadTypeStep DEF FetchShard
  <2> QED BY <1>3, <2>1, <2>2, <2>3, <2>4, <2>5 DEF Read
<1>4. CASE List
  <2>1. ASSUME NEW s \in Selections, NEW m \in PageSizes, ListBegins(s, m) PROVE FullType'
    <3>1. PageSize(m) \in Nat /\ PageSize(m) > 0
      BY DEF PageSize
    <3>2. NoListing \in Listings
      BY DEF NoListing, Groups, Listings
    <3>3. ls' = [NoListing EXCEPT !.pc = "walk", !.select = s, !.max = PageSize(m)]
      BY <2>1 DEF ListBegins
    <3>4. ls' \in Listings /\ ls'.max > 0
      BY <3>1, <3>2, <3>3 DEF Listings
    <3>5. steady' \subseteq Keys
      BY <2>1 DEF ListBegins, Listed
    <3> QED BY <2>1, <3>4, <3>5, ListTypeStep DEF ListBegins
  <2>2. CASE ListWalk \/ ListWalkFails
    <3>1. ls' \in Listings /\ ls'.max > 0 /\ steady' \subseteq Keys
      <4>1. ls.max > 0 /\ steady' \subseteq Keys
        BY <2>2 DEF ListWalk, ListWalkFails, ListType, HistoryType
      <4>2. \/ ls' = [ls EXCEPT !.pc = "page", !.keys = Listed]
            \/ ls' = [ls EXCEPT !.pc = "failed"]
        BY <2>2 DEF ListWalk, ListWalkFails
      <4>3. Listed \subseteq Keys
        BY DEF Listed
      <4>4. ls \in Listings
        BY DEF ListType
      <4>5. CASE ls' = [ls EXCEPT !.pc = "page", !.keys = Listed]
        BY <4>1, <4>3, <4>4, <4>5 DEF Listings
      <4>6. CASE ls' = [ls EXCEPT !.pc = "failed"]
        BY <4>1, <4>4, <4>6 DEF Listings
      <4> QED BY <4>2, <4>5, <4>6
    <3> QED BY <2>2, <3>1, ListTypeStep DEF ListWalk, ListWalkFails
  <2>3. CASE ListPage
    <3>1. Truncated => LastEntry \in Keys
      BY <2>3, LastEntryExists DEF ListPage, Truncated, Entries, Wanted, ListType, Listings
    <3>2. \A n \in 0..2 : \A b : More(n, b) \in 0..2
      BY DEF More
    <3> DEFINE count == [k \in Keys |-> More(ls.count[k], k \in Entries /\ InPage(k))]
               groups == [g \in DOMAIN ls.groups |->
                 More(ls.groups[g], \E k \in Wanted : GroupOf[k] = g /\ g # None /\ InPage(k))]
    <3>4. count \in [Keys -> 0..2]
      BY <3>2 DEF ListType, Listings
    <3>5. groups \in [Groups -> 0..2]
      BY <3>2 DEF ListType, Listings
    <3>6. ls' = [ls EXCEPT !.pc = IF Truncated THEN "walk" ELSE "done",
                           !.token = IF Truncated THEN LastEntry ELSE @,
                           !.keys = {}, !.count = count, !.groups = groups]
      BY <2>3 DEF ListPage
    <3> HIDE DEF count, groups
    <3>3. ls' \in Listings /\ ls'.max > 0 /\ steady' \subseteq Keys
      <4>1. ls.max > 0 /\ steady' \subseteq Keys
        BY <2>3 DEF ListPage, ListType, HistoryType
      <4> QED BY <4>1, <3>1, <3>4, <3>5, <3>6 DEF Listings, ListType
    <3> QED BY <2>3, <3>3, ListTypeStep DEF ListPage
  <2> QED BY <1>4, <2>1, <2>2, <2>3 DEF List
<1>5. CASE Manage
  <2>1. CASE CreateBucket
    BY <2>1 DEF CreateBucket, files, coded, FileType, TxType, ReadType, ListType, HistoryType,
                DataEmpty, Listed
  <2>2. CASE DeleteBucket
    BY <2>2 DEF DeleteBucket, dirs, files, coded, FileType, TxType, ReadType, ListType, HistoryType,
                DataEmpty, Listed
  <2>3. CASE RemoveDataDir
    <3>1. FileType'
      BY <2>3 DEF RemoveDataDir, files, coded, FileType, DataEmpty, Listed
    <3>2. TxType' /\ ReadType' /\ ListType' /\ HistoryType'
      BY <2>3 DEF RemoveDataDir, TxType, ReadType, ListType, HistoryType
    <3> QED BY <3>1, <3>2
  <2>4. CASE RemoveMetaDir
    <3>1. FileType'
      BY <2>4 DEF RemoveMetaDir, coded, FileType, DataEmpty, Listed
    <3>2. TxType' /\ ReadType' /\ ListType' /\ HistoryType'
      BY <2>4 DEF RemoveMetaDir, TxType, ReadType, ListType, HistoryType
    <3> QED BY <3>1, <3>2
  <2> QED BY <1>5, <2>1, <2>2, <2>3, <2>4 DEF Manage
<1>6. CASE UNCHANGED vars
  BY <1>6 DEF vars, coded, FileType, TxType, ReadType, ListType, HistoryType, DataEmpty, Listed
<1> QED BY <1>1, <1>2, <1>3, <1>4, <1>5, <1>6 DEF Next

LEMMA TypeInit == Init => FullType
<1> SUFFICES ASSUME Init PROVE FullType
  OBVIOUS
<1> USE BucketAssumption DEF Init
<1>1. FileType
  BY DEF FileType, Versions, DataEmpty, Listed
<1>2. TxType
  BY DEF TxType
<1>3. ReadType
  BY DEF ReadType, Gets, Quiet
<1>4. ListType
  BY DEF ListType, Listings, NoListing, Groups
<1>5. HistoryType
  BY DEF HistoryType
<1> QED BY <1>1, <1>2, <1>3, <1>4, <1>5 DEF FullType

\* Types of the files, requests, GETs and listings, in every behaviour.
THEOREM BucketTypeCorrect == Spec => []TypeOK
BY TypeInit, TypeStep, TypesSuffice, PTL DEF Spec

----------------------------------------------------------------------------
(* Files.                                                                  *)

LEMMA VersionsDiffer ==
  /\ None \notin Versions /\ Shard \notin Versions /\ Mixed \notin Versions
  /\ \A t \in Puts : t \in Versions /\ t # First /\ t # None
  /\ \A t \in Tx : Written(t) \in Versions \union {None}
BY BucketAssumption DEF Versions, Tx, Written

\* A key whose files, writes and history a step leaves alone keeps KeyFiles.
LEMMA OtherKey ==
  ASSUME NEW k \in Keys, KeyFiles(k), Active(k)' = Active(k),
         \A t \in Active(k) : tx'[t].pc = tx[t].pc,
         data'[k] = data[k], meta'[k] = meta[k], past'[k] = past[k],
         k \in ec' <=> k \in ec
  PROVE  KeyFiles(k)'
BY DEF KeyFiles

FilesSafe == FreshInv /\ FileInv

LEMMA FilesInit == Init => FilesSafe
<1> SUFFICES ASSUME Init PROVE FilesSafe
  OBVIOUS
<1>1. FreshInv
  BY VersionsDiffer DEF Init, FreshInv
<1>2. FileInv
  BY DEF Init, FileInv, KeyFiles, Active
<1> QED BY <1>1, <1>2 DEF FilesSafe

LEMMA FilesStep == FullType /\ FilesSafe /\ [Next]_vars => FilesSafe'
<1> SUFFICES ASSUME FullType, FilesSafe, [Next]_vars PROVE FilesSafe'
  OBVIOUS
<1> USE DEF FilesSafe
<1>q. ASSUME UNCHANGED <<tx, files, past, clash>> PROVE FilesSafe'
  BY <1>q DEF files, FreshInv, FileInv, KeyFiles, Active
<1>1. ASSUME NEW t \in Tx, NEW k \in Keys, BeginWrite(t, k) PROVE FilesSafe'
  <2>1. FreshInv'
    BY <1>1 DEF BeginWrite, FreshInv, files, FullType, TxType
  <2>2. ASSUME NEW j \in Keys \ clash' PROVE KeyFiles(j)'
    <3>1. KeyFiles(j) /\ (j = k => Active(k) = {})
      BY <1>1, <2>2 DEF BeginWrite, FileInv
    <3>2. CASE j = k
      <4>1. Active(k)' \subseteq {t}
        BY <1>1, <3>1, <3>2 DEF BeginWrite, Active, FullType, TxType
      <4>2. tx'[t].pc = "begun"
        BY <1>1 DEF BeginWrite, FullType, TxType
      <4>3. meta[k] # None /\ k \notin ec => data[k] # None
        BY <3>1, <3>2 DEF KeyFiles
      <4> QED BY <1>1, <3>1, <3>2, <4>1, <4>2, <4>3 DEF BeginWrite, KeyFiles, files
    <3>3. CASE j # k
      <4>1. Active(j)' = Active(j) /\ \A u \in Active(j) : tx'[u].pc = tx[u].pc
        BY <1>1, <3>3 DEF BeginWrite, Active, FullType, TxType
      <4> QED BY <1>1, <3>1, <4>1, OtherKey DEF BeginWrite, files
    <3> QED BY <3>2, <3>3
  <2> QED BY <2>1, <2>2 DEF FileInv
<1>2. ASSUME NEW t \in Tx, MoveData(t) PROVE FilesSafe'
  <2> DEFINE k == tx[t].key
  <2>1. k \in Keys /\ t \in Active(k)
    BY <1>2 DEF MoveData, Active, FullType, TxType
  <2>2. data' = [data EXCEPT ![k] = Written(t)] /\ UNCHANGED <<meta, ec, past, clash>>
    BY <1>2 DEF MoveData, Written
  <2>3. tx' = [tx EXCEPT ![t].pc = "moved"] /\ tx[t].pc = "begun"
    BY <1>2 DEF MoveData
  <2>4. FreshInv'
    BY <2>1, <2>2, <2>3, VersionsDiffer
    DEF FreshInv, FullType, FileType, TxType, Written, Tx
  <2>5. \A j \in Keys : Active(j)' = Active(j)
    BY <2>3 DEF Active, FullType, TxType
  <2>6. ASSUME NEW j \in Keys \ clash' PROVE KeyFiles(j)'
    <3>1. KeyFiles(j)
      BY <2>2, <2>6 DEF FileInv
    <3>2. CASE j = k
      <4>1. Active(j)' = {t} /\ tx'[t].pc = "moved" /\ data'[j] = Written(t)
        BY <2>1, <2>2, <2>3, <2>5, <3>1, <3>2 DEF KeyFiles, FullType, FileType, TxType
      <4>2. Written(t) \notin past[j]
        BY <2>3, VersionsDiffer DEF Written, FreshInv, FullType, HistoryType
      <4> QED BY <2>2, <3>2, <4>1, <4>2 DEF KeyFiles
    <3>3. CASE j # k
      <4>1. \A u \in Active(j) : u # t /\ tx'[u].pc = tx[u].pc
        BY <2>3, <3>3 DEF Active, FullType, TxType
      <4>2. data'[j] = data[j]
        BY <2>2, <3>3 DEF FullType, FileType
      <4> QED BY <2>2, <2>5, <3>1, <4>1, <4>2, OtherKey
    <3> QED BY <3>2, <3>3
  <2> QED BY <2>4, <2>6 DEF FileInv
<1>3. ASSUME NEW t \in Tx, MoveMeta(t) PROVE FilesSafe'
  <2> DEFINE k == tx[t].key
  <2>1. k \in Keys /\ t \in Active(k)
    BY <1>3 DEF MoveMeta, Active, FullType, TxType
  <2>2. /\ meta' = [meta EXCEPT ![k] = Written(t)] /\ ec' = ec \ {k}
        /\ past' = [past EXCEPT ![k] = @ \union ({meta[k]} \ {None})]
        /\ UNCHANGED <<data, clash>>
    BY <1>3 DEF MoveMeta, Written
  <2>3. tx' = [tx EXCEPT ![t].pc = "done"] /\ tx[t].pc = "moved"
    BY <1>3 DEF MoveMeta
  <2>4. FreshInv'
    <3>1. ASSUME NEW u \in Puts, NEW j \in Keys, tx'[u].pc # "done"
          PROVE  meta'[j] # u /\ u \notin past'[j] /\ tx[u].pc = tx'[u].pc
      <4>1. u # t /\ tx'[u] = tx[u]
        BY <2>3, <3>1 DEF FullType, TxType, Tx
      <4>2. meta[j] # u /\ u \notin past[j] /\ Written(t) # u
        BY <3>1, <4>1, VersionsDiffer DEF FreshInv, Written
      <4> QED BY <2>1, <2>2, <4>1, <4>2 DEF FullType, FileType, HistoryType
    <3> QED BY <2>2, <3>1 DEF FreshInv
  <2>6. ASSUME NEW j \in Keys \ clash' PROVE KeyFiles(j)'
    <3>1. KeyFiles(j)
      BY <2>2, <2>6 DEF FileInv
    <3>2. CASE j = k
      <4>1. Active(j)' = {}
        BY <2>1, <2>3, <3>1, <3>2 DEF KeyFiles, Active, FullType, TxType
      <4>2. data[j] = Written(t) /\ data[j] \notin past[j]
        BY <2>1, <2>3, <3>1, <3>2 DEF KeyFiles
      <4>3. Written(t) # None => meta[j] # Written(t)
        BY <2>3 DEF Written, FreshInv
      <4>4. meta'[j] = Written(t) /\ past'[j] = past[j] \union ({meta[j]} \ {None})
        BY <2>2, <3>2 DEF FullType, FileType, HistoryType
      <4> QED BY <2>2, <3>2, <4>1, <4>2, <4>3, <4>4 DEF KeyFiles
    <3>3. CASE j # k
      <4>1. Active(j)' = Active(j) /\ \A u \in Active(j) : tx'[u].pc = tx[u].pc
        BY <2>3, <3>3 DEF Active, FullType, TxType
      <4>2. meta'[j] = meta[j] /\ past'[j] = past[j] /\ (j \in ec' <=> j \in ec)
        BY <2>2, <3>3 DEF FullType, FileType, HistoryType
      <4> QED BY <2>2, <3>1, <4>1, <4>2, OtherKey
    <3> QED BY <3>2, <3>3
  <2> QED BY <2>4, <2>6 DEF FileInv
<1>4. ASSUME NEW k \in Keys, Convert(k) PROVE FilesSafe'
  <2>1. /\ data' = [data EXCEPT ![k] = None] /\ ec' = ec \union {k}
        /\ UNCHANGED <<meta, tx, past, clash>> /\ Active(k) = {}
    BY <1>4 DEF Convert
  <2>2. FreshInv'
    BY <2>1, VersionsDiffer DEF FreshInv, FullType, FileType
  <2>3. ASSUME NEW j \in Keys \ clash' PROVE KeyFiles(j)'
    <3>1. KeyFiles(j) /\ Active(j)' = Active(j)
      BY <2>1, <2>3 DEF FileInv, Active
    <3>2. CASE j = k
      BY <2>1, <3>1, <3>2, VersionsDiffer DEF KeyFiles, FullType, FileType, HistoryType
    <3>3. CASE j # k
      BY <2>1, <3>1, <3>3, OtherKey DEF FullType, FileType
    <3> QED BY <3>2, <3>3
  <2> QED BY <2>2, <2>3 DEF FileInv
<1>5. CASE RemoveMetaDir
  <2>1. /\ meta' = [k \in Keys |-> None] /\ ec' = {}
        /\ UNCHANGED <<data, tx, past, clash>>
    BY <1>5 DEF RemoveMetaDir
  <2>2. FreshInv'
    BY <2>1, VersionsDiffer DEF FreshInv
  <2>3. FileInv'
    BY <2>1 DEF FileInv, KeyFiles, Active
  <2> QED BY <2>2, <2>3
<1>6. CASE Read \/ List \/ CreateBucket \/ DeleteBucket \/ RemoveDataDir \/ UNCHANGED vars
  <2>1. UNCHANGED <<tx, files, past, clash>>
    BY <1>6 DEF Read, ReadBegins, ReadCodedMeta, FetchShard, ReadMeta, ReadData, List,
                ListBegins, ListWalk, ListWalkFails, ListPage, CreateBucket, DeleteBucket,
                RemoveDataDir, vars, files, coded
  <2> QED BY <2>1, <1>q
<1> QED BY <1>1, <1>2, <1>3, <1>4, <1>5, <1>6 DEF Next, Write, Manage

----------------------------------------------------------------------------
(* GETs.                                                                   *)

LEMMA ShardStep == FullType /\ FilesSafe /\ ShardInv /\ [Next]_vars => ShardInv'
<1> SUFFICES ASSUME FullType, FilesSafe, ShardInv, [Next]_vars PROVE ShardInv'
  OBVIOUS
<1>1. ASSUME NEW t \in Tx, NEW k \in Keys, BeginWrite(t, k) PROVE ShardInv'
  <2>1. \A u \in Tx : tx[u].pc = "moved" => tx'[u] = tx[u]
    BY <1>1 DEF BeginWrite, FullType, TxType
  <2> QED BY <1>1, <2>1 DEF BeginWrite, files, coded, ShardInv, Tx
<1>2. ASSUME NEW t \in Tx, MoveData(t) PROVE ShardInv'
  <2> DEFINE k == tx[t].key
  <2>1. /\ UNCHANGED <<meta, past, ec, shards>> /\ shed' \in {shed, shed \union {k}}
        /\ t \notin Puts => shed' = shed
        /\ tx' = [tx EXCEPT ![t].pc = "moved"] /\ tx[t].pc = "begun"
    BY <1>2 DEF MoveData, Shed
  <2>2. /\ tx'[t].pc = "moved" /\ tx'[t].key = k
        /\ \A u \in Tx \ {t} : tx'[u] = tx[u]
    BY <2>1 DEF FullType, TxType
  <2> HIDE DEF k
  <2> QED BY <2>1, <2>2 DEF ShardInv, Tx
<1>3. ASSUME NEW t \in Tx, MoveMeta(t) PROVE ShardInv'
  <2> DEFINE k == tx[t].key
  <2>1. /\ meta' = [meta EXCEPT ![k] = Written(t)] /\ ec' = ec \ {k}
        /\ past' = [past EXCEPT ![k] = @ \union ({meta[k]} \ {None})]
        /\ UNCHANGED shards /\ shed' \in {shed, shed \union {k}}
        /\ tx' = [tx EXCEPT ![t].pc = "done"] /\ tx[t].pc = "moved"
    BY <1>3 DEF MoveMeta, Written, Shed
  <2>2. k \in Keys
    BY <2>1 DEF FullType, TxType
  <2>3. \A u \in Tx \ {t} : tx'[u] = tx[u]
    BY <2>1 DEF FullType, TxType
  <2>4. \A j \in Keys \ {k} : /\ meta'[j] = meta[j] /\ past'[j] = past[j]
                              /\ (j \in ec' <=> j \in ec) /\ (j \in shed' <=> j \in shed)
    BY <2>1 DEF FullType, FileType, HistoryType
  <2>5. meta'[k] \notin past'[k] /\ k \notin ec'
    <3>1. meta'[k] = Written(t) /\ past'[k] = past[k] \union ({meta[k]} \ {None})
      BY <2>1, <2>2 DEF FullType, FileType, HistoryType
    <3>2. Written(t) \notin past[k] /\ (Written(t) # None => Written(t) # meta[k])
      BY <2>1, <2>2, VersionsDiffer DEF FilesSafe, FreshInv, Written, FullType, HistoryType
    <3> QED BY <2>1, <3>1, <3>2
  <2> HIDE DEF k
  <2>6. \A j \in Keys \ {k} : \A u \in Puts : tx[u].pc = "moved" /\ tx[u].key = j => tx'[u] = tx[u]
    BY <2>3 DEF k, Tx
  <2>7. ASSUME NEW j \in Keys
        PROVE  /\ meta'[j] \notin past'[j]
               /\ j \in ec' => shards'[j] = meta'[j]
               /\ j \in ec' /\ j \in shed' => \E u \in Puts : tx'[u].pc = "moved" /\ tx'[u].key = j
    <3>1. CASE j = k
      BY <2>5, <3>1
    <3>2. CASE j # k
      <4>1. /\ meta[j] \notin past[j]
            /\ j \in ec => shards[j] = meta[j]
            /\ j \in ec /\ j \in shed => \E u \in Puts : tx[u].pc = "moved" /\ tx[u].key = j
        BY DEF ShardInv
      <4>2. /\ meta'[j] = meta[j] /\ past'[j] = past[j] /\ shards'[j] = shards[j]
            /\ (j \in ec' <=> j \in ec) /\ (j \in shed' <=> j \in shed)
        BY <2>1, <2>4, <3>2
      <4>3. \A u \in Puts : tx[u].pc = "moved" /\ tx[u].key = j => tx'[u] = tx[u]
        BY <2>6, <3>2
      <4> QED BY <4>1, <4>2, <4>3
    <3> QED BY <3>1, <3>2
  <2> QED BY <2>7 DEF ShardInv
<1>4. ASSUME NEW k \in Keys, Convert(k) PROVE ShardInv'
  <2>1. /\ ec' = ec \union {k} /\ shards' = [shards EXCEPT ![k] = meta[k]]
        /\ shed' = shed \ {k} /\ UNCHANGED <<meta, past, tx>>
    BY <1>4 DEF Convert
  <2>2. shards'[k] = meta[k] /\ \A j \in Keys \ {k} : shards'[j] = shards[j]
    BY <2>1 DEF FullType, FileType
  <2> QED BY <2>1, <2>2 DEF ShardInv
<1>5. CASE RemoveMetaDir
  BY <1>5, VersionsDiffer DEF RemoveMetaDir, ShardInv, FullType, HistoryType
<1>6. CASE Read \/ List \/ CreateBucket \/ DeleteBucket \/ RemoveDataDir \/ UNCHANGED vars
  <2>1. UNCHANGED <<tx, files, past>>
    BY <1>6 DEF Read, ReadBegins, ReadCodedMeta, FetchShard, ReadMeta, ReadData, List,
                ListBegins, ListWalk, ListWalkFails, ListPage, CreateBucket, DeleteBucket,
                RemoveDataDir, vars, files, coded
  <2> QED BY <2>1 DEF ShardInv, files, coded
<1> QED BY <1>1, <1>2, <1>3, <1>4, <1>5, <1>6 DEF Next, Write, Manage

\* Steps that leave the GET alone: they may replace versions, note clashes and
\* deletions, and take data, replica or shards of its key away only if that is
\* noted.
LEMMA ReadUndisturbed ==
  ASSUME FullType, ReadInv, UNCHANGED rd, rd.pc # "done",
         NEW k, k = rd.key,
         rd.pc # "idle" =>
           /\ clash \subseteq clash' /\ gone \subseteq gone'
           /\ past[k] \subseteq past'[k]
           /\ data'[k] = None => data[k] = None \/ k \in gone'
           /\ k \in ec' => k \in ec \/ k \in gone'
           /\ rd.pc = "coded" /\ k \notin clash' /\ k \notin ec' /\ meta'[k] # None /\ data'[k] = None
                => k \in gone'
           /\ ByShards /\ k \in shed' => k \in shed \/ k \in gone'
           /\ \/ shards'[k] = shards[k]
              \/ /\ k \in gone' /\ shards'[k] # None
                 /\ k \notin clash' => shards'[k] \notin past'[k]
  PROVE  ReadInv'
<1>1. ReadNotOlder'
  BY DEF ReadNotOlder
<1>2. ReplicaInv'
  <2>1. ASSUME rd.pc \in {"replica", "open"}
        PROVE  /\ k \notin clash' => rd.stale \subseteq past'[k] /\ (data'[k] = None => k \in gone')
               /\ k \in ec' => k \in gone'
    <3>1. /\ k \notin clash => rd.stale \subseteq past[k] /\ (data[k] = None => k \in gone)
          /\ k \in ec => k \in gone
      BY <2>1 DEF ReadInv, ReplicaInv
    <3>2. rd.pc # "idle"
      BY <2>1
    <3> QED BY <3>1, <3>2
  <2> QED BY <2>1 DEF ReplicaInv
<1>3. CodedInv'
  <2>1. (rd.pc = "coded" =>
           /\ rd.stale = {}
           /\ rd.key \notin clash /\ rd.key \notin ec /\ meta[rd.key] # None /\ data[rd.key] = None
                => rd.key \in gone)'
    BY DEF ReadInv, CodedInv
  <2>2. (ByShards /\ rd.key \in shed => rd.key \in gone)'
    BY DEF ReadInv, CodedInv, ByShards
  <2>3. (rd.pc \in {"fetch", "fetched"} =>
           /\ shards[rd.key] # None
           /\ rd.key \notin clash =>
                /\ rd.stale \subseteq past[rd.key]
                /\ shards[rd.key] \notin rd.stale)'
    BY DEF ReadInv, CodedInv
  <2>4. (rd.pc = "fetched" =>
           /\ rd.body = shards[rd.key] \/ rd.key \in gone
           /\ rd.key \notin clash => rd.body \notin rd.stale)'
    BY DEF ReadInv, CodedInv
  <2> QED BY <2>1, <2>2, <2>3, <2>4 DEF CodedInv
<1> QED BY <1>1, <1>2, <1>3 DEF ReadInv

\* A GET of shards that is answered, or goes on.
LEMMA FetchStep == ASSUME FullType, ReadInv, FetchShard PROVE ReadInv'
<1> DEFINE k == rd.key
<1>1. /\ k \in Keys /\ rd \in Gets /\ rd.pc \in {"fetch", "fetched"}
      /\ UNCHANGED <<files, past, clash, gone>>
  BY DEF FetchShard, FullType, ReadType
<1>2. /\ k \in shed => k \in gone
      /\ shards[k] # None /\ shards[k] \in Versions
      /\ k \notin clash => rd.stale \subseteq past[k] /\ shards[k] \notin rd.stale
      /\ rd.pc = "fetched" => /\ rd.body = shards[k] \/ k \in gone
                              /\ k \notin clash => rd.body \notin rd.stale
      /\ rd.stale \subseteq Versions
  BY <1>1 DEF ReadInv, CodedInv, ByShards, FullType, FileType, Gets
<1>3. PICK v \in Found(k) :
        rd' = IF v = None THEN [rd EXCEPT !.pc = "done", !.body = None]
              ELSE IF rd.pc = "fetch" THEN [rd EXCEPT !.pc = "fetched", !.body = v]
              ELSE [rd EXCEPT !.pc = "done", !.body = IF v = rd.body THEN v ELSE Mixed]
  <2>1. \E v \in Found(k) :
          rd' = IF v = None THEN [rd EXCEPT !.pc = "done", !.body = None]
                ELSE IF rd.pc = "fetch" THEN [rd EXCEPT !.pc = "fetched", !.body = v]
                ELSE [rd EXCEPT !.pc = "done", !.body = IF v = rd.body THEN v ELSE Mixed]
    BY <1>1 DEF FetchShard, Gets
  <2> QED BY <2>1
<1>4. v = shards[k] \/ (v = None /\ k \in shed)
  BY DEF Found
<1>5. rd'.key = k /\ rd'.stale = rd.stale
  BY <1>1, <1>3 DEF Gets
<1>6. CASE v = None
  <2>1. rd'.pc = "done" /\ rd'.body = None /\ k \in gone
    BY <1>1, <1>2, <1>3, <1>4, <1>6 DEF Gets
  <2> QED BY <1>1, <1>2, <1>5, <2>1, VersionsDiffer
          DEF ReadInv, ReplicaInv, CodedInv, ByShards, ReadNotOlder
<1>7. CASE v # None /\ rd.pc = "fetch"
  <2>1. rd'.pc = "fetched" /\ rd'.body = shards[k]
    BY <1>1, <1>3, <1>4, <1>7 DEF Gets
  <2> QED BY <1>1, <1>2, <1>5, <2>1
          DEF ReadInv, ReplicaInv, CodedInv, ByShards, ReadNotOlder, files, coded
<1>8. CASE v # None /\ rd.pc = "fetched"
  <2>1. rd'.pc = "done" /\ rd'.body = IF shards[k] = rd.body THEN shards[k] ELSE Mixed
    BY <1>1, <1>3, <1>4, <1>8 DEF Gets
  <2>2. k \notin clash => rd'.body \notin rd.stale
    BY <1>2, <2>1, VersionsDiffer
  <2>3. rd'.body \in {None, Shard, Mixed} => k \in gone
    BY <1>2, <1>8, <2>1, VersionsDiffer
  <2> QED BY <1>1, <1>5, <2>1, <2>2, <2>3
          DEF ReadInv, ReplicaInv, CodedInv, ByShards, ReadNotOlder
<1> QED BY <1>1, <1>6, <1>7, <1>8

LEMMA ReadStep == FullType /\ FilesSafe /\ ShardInv /\ ReadInv /\ [Next]_vars => ReadInv'
<1> SUFFICES ASSUME FullType, FilesSafe, ShardInv, ReadInv, [Next]_vars PROVE ReadInv'
  OBVIOUS
<1>g. \A k : gone \subseteq Gone(k) /\ (rd.key = k => k \in Gone(k))
  BY DEF Gone
<1>k. rd.pc # "idle" => rd.key \in Keys
  BY DEF FullType, ReadType
<1>1. ASSUME NEW t \in Tx, Write(t) PROVE ReadInv'
  <2>1. UNCHANGED rd /\ rd.pc # "done" /\ clash \subseteq clash'
    BY <1>1 DEF Write, BeginWrite, MoveData, MoveMeta, Answered
  <2>2. ASSUME NEW k \in Keys, BeginWrite(t, k) PROVE ReadInv'
    <3>1. UNCHANGED <<files, past, gone>>
      BY <2>2 DEF BeginWrite
    <3>2. rd.pc = "coded" /\ rd.key \notin clash' /\ rd.key \notin ec' /\ meta'[rd.key] # None
            /\ data'[rd.key] = None => rd.key \in gone'
      BY <2>1, <3>1 DEF files, ReadInv, CodedInv
    <3> QED BY <2>1, <3>1, <3>2, ReadUndisturbed DEF files, coded
  <2>3. CASE MoveData(t)
    <3> DEFINE j == tx[t].key
    <3>1. gone \subseteq gone' /\ UNCHANGED <<past, ec, meta, shards, clash>>
      BY <2>3, <1>g DEF MoveData
    <3>2. ASSUME rd.key \in Keys, data'[rd.key] = None
          PROVE  data[rd.key] = None \/ rd.key \in gone'
      <4>1. CASE rd.key = j /\ t \in Deletes
        BY <2>3, <4>1, <1>g DEF MoveData
      <4>2. CASE ~(rd.key = j /\ t \in Deletes)
        BY <2>3, <3>2, <4>2, VersionsDiffer DEF MoveData, FullType, FileType, Tx
      <4> QED BY <4>1, <4>2
    <3>3. ByShards /\ rd.key \in shed' => rd.key \in shed \/ rd.key \in gone'
      <4>1. CASE ByShards /\ rd.key = j
        BY <2>3, <4>1, <1>g DEF MoveData
      <4>2. rd.key # j /\ rd.key \in shed' => rd.key \in shed
        BY <2>3 DEF MoveData, Shed
      <4> QED BY <4>1, <4>2
    <3>4. rd.pc = "coded" /\ rd.key \notin clash' /\ rd.key \notin ec' /\ meta'[rd.key] # None
            /\ data'[rd.key] = None => rd.key \in gone'
      BY <3>1, <3>2, <1>k DEF ReadInv, CodedInv
    <3> QED BY <2>1, <3>1, <3>2, <3>3, <3>4, <1>k, ReadUndisturbed
  <2>4. CASE MoveMeta(t)
    <3> DEFINE j == tx[t].key
    <3>1. gone \subseteq gone' /\ UNCHANGED <<data, shards, clash>> /\ ec' \subseteq ec
      BY <2>4, <1>g DEF MoveMeta
    <3>2. \A k \in Keys : past[k] \subseteq past'[k]
      BY <2>4 DEF MoveMeta, FullType, HistoryType
    <3>3. rd.key \in shed' => rd.key \in shed \/ rd.key \in gone'
      <4>1. CASE rd.key = j /\ t \in Deletes
        BY <2>4, <4>1, <1>g DEF MoveMeta
      <4>2. ~(rd.key = j /\ t \in Deletes) /\ rd.key \in shed' => rd.key \in shed
        BY <2>4 DEF MoveMeta, Shed
      <4> QED BY <4>1, <4>2
    <3>4. rd.pc = "coded" /\ rd.key \notin clash' /\ rd.key \notin ec' /\ meta'[rd.key] # None
            /\ data'[rd.key] = None => rd.key \in gone'
      <4> SUFFICES ASSUME rd.pc = "coded", rd.key \notin clash', rd.key \notin ec',
                          meta'[rd.key] # None, data'[rd.key] = None
                   PROVE  rd.key \in gone'
        OBVIOUS
      <4>1. CASE rd.key = j
        <5>1. rd.key \in Keys /\ KeyFiles(rd.key) /\ t \in Active(rd.key) /\ tx[t].pc = "moved"
          BY <2>4, <3>1, <4>1, <1>k DEF MoveMeta, FilesSafe, FileInv, Active
        <5>2. Written(t) = None
          BY <3>1, <5>1 DEF KeyFiles
        <5>3. t \in Deletes
          BY <5>2, VersionsDiffer DEF Written, Tx
        <5> QED BY <2>4, <4>1, <5>3, <1>g DEF MoveMeta
      <4>2. CASE rd.key # j
        <5>1. meta'[rd.key] = meta[rd.key] /\ (rd.key \in ec' <=> rd.key \in ec)
          BY <2>4, <4>2, <1>k DEF MoveMeta, FullType, FileType
        <5> QED BY <3>1, <5>1 DEF ReadInv, CodedInv
      <4> QED BY <4>1, <4>2
    <3> QED BY <2>1, <3>1, <3>2, <3>3, <3>4, <1>k, ReadUndisturbed
  <2> QED BY <1>1, <2>2, <2>3, <2>4 DEF Write
<1>2. ASSUME NEW k \in Keys, Convert(k) PROVE ReadInv'
  <2>1. UNCHANGED <<rd, clash, past, meta>> /\ rd.pc # "done"
    BY <1>2 DEF Convert, Answered
  <2>2. gone \subseteq gone' /\ (rd.key = k => k \in gone')
    BY <1>2, <1>g DEF Convert
  <2>3. \A j \in Keys \ {k} : /\ data'[j] = data[j] /\ (j \in ec' <=> j \in ec)
                              /\ shards'[j] = shards[j] /\ (j \in shed' <=> j \in shed)
    BY <1>2 DEF Convert, FullType, FileType
  <2>4. k \in ec' /\ k \notin shed' /\ shards'[k] # None /\ shards'[k] = meta[k]
    BY <1>2 DEF Convert, FullType, FileType
  <2>5. meta[k] \notin past[k]
    BY DEF ShardInv
  <2>6. CASE rd.key = k
    BY <2>1, <2>2, <2>4, <2>5, <2>6, ReadUndisturbed
  <2>7. CASE rd.key # k /\ rd.pc # "idle"
    BY <2>1, <2>2, <2>3, <2>7, <1>k, ReadUndisturbed DEF ReadInv, CodedInv
  <2>8. CASE rd.pc = "idle"
    BY <2>1, <2>8, ReadUndisturbed
  <2> QED BY <2>6, <2>7, <2>8
<1>3. ASSUME NEW k \in Keys, ReadBegins(k) PROVE ReadInv'
  <2>1. meta[k] # None /\ meta[k] \in Versions /\ UNCHANGED <<files, past, clash>>
    BY <1>3 DEF ReadBegins, FullType, FileType
  <2>g. \A t \in Tx : tx[t].pc = "moved" /\ tx[t].key = k /\ (t \in Deletes \/ k \in ec) => k \in gone'
    BY <1>3 DEF ReadBegins
  <2>2. CASE k \in ec
    <3>1. rd'.pc = "coded" /\ rd'.key = k /\ rd'.stale = {}
      BY <1>3, <2>2 DEF ReadBegins, Quiet
    <3>2. k \in shed => k \in gone'
      BY <2>2, <2>g DEF ShardInv, Tx
    <3> QED BY <2>1, <2>2, <3>1, <3>2 DEF ReadInv, ReplicaInv, CodedInv, ReadNotOlder, files, coded
  <2>3. CASE k \notin ec
    <3>1. rd'.pc = "replica" /\ rd'.key = k /\ rd'.stale = {}
      BY <1>3, <2>3 DEF ReadBegins, Quiet
    <3>2. ASSUME k \notin clash, data[k] = None PROVE k \in gone'
      <4>1. KeyFiles(k)
        BY <3>2 DEF FilesSafe, FileInv
      <4>2. PICK t \in Active(k) : tx[t].pc = "moved"
        BY <2>1, <2>3, <3>2, <4>1 DEF KeyFiles
      <4>3. Written(t) = None /\ t \in Tx /\ tx[t].key = k
        BY <3>2, <4>1, <4>2 DEF KeyFiles, Active
      <4>4. t \in Deletes
        BY <4>3, VersionsDiffer DEF Written, Tx
      <4> QED BY <2>g, <4>2, <4>3, <4>4
    <3> QED BY <2>1, <2>3, <3>1, <3>2 DEF ReadInv, ReplicaInv, CodedInv, ByShards, ReadNotOlder, files
  <2> QED BY <2>2, <2>3
<1>8. CASE ReadCodedMeta
  <2> DEFINE k == rd.key
  <2>1. k \in Keys /\ rd.pc = "coded" /\ rd \in Gets /\ UNCHANGED <<files, past, clash, gone>>
    BY <1>8 DEF ReadCodedMeta, FullType, ReadType
  <2>2. CASE meta[k] = None
    BY <1>8, <2>2 DEF ReadCodedMeta, Quiet, ReadInv, ReplicaInv, CodedInv, ByShards, ReadNotOlder
  <2>3. CASE meta[k] # None /\ k \in ec
    <3>1. rd'.pc = "fetch" /\ rd'.key = k /\ rd'.stale = past[k]
      BY <1>8, <2>1, <2>3 DEF ReadCodedMeta, Gets
    <3>2. shards[k] = meta[k] /\ meta[k] \notin past[k]
      BY <2>1, <2>3 DEF ShardInv
    <3>3. k \in shed => k \in gone
      BY <2>1 DEF ReadInv, CodedInv, ByShards
    <3> QED BY <2>1, <2>3, <3>1, <3>2, <3>3
            DEF ReadInv, ReplicaInv, CodedInv, ByShards, ReadNotOlder, files, coded
  <2>4. CASE meta[k] # None /\ k \notin ec
    <3>1. rd'.pc = "replica" /\ rd'.key = k /\ rd'.stale = {}
      BY <1>8, <2>1, <2>4 DEF ReadCodedMeta, Gets, ReadInv, CodedInv
    <3>2. k \notin clash /\ data[k] = None => k \in gone
      BY <2>1, <2>4 DEF ReadInv, CodedInv
    <3> QED BY <2>1, <2>4, <3>1, <3>2
            DEF ReadInv, ReplicaInv, CodedInv, ByShards, ReadNotOlder, files
  <2> QED BY <2>2, <2>3, <2>4
<1>9. CASE FetchShard
  BY <1>9, FetchStep
<1>4. CASE ReadMeta
  <2>1. rd.key \in Keys /\ rd.pc = "replica" /\ rd \in Gets /\ UNCHANGED <<files, past, clash, gone>>
    BY <1>4 DEF ReadMeta, FullType, ReadType
  <2>2. CASE meta[rd.key] = None
    BY <1>4, <2>2 DEF ReadMeta, Quiet, ReadInv, ReplicaInv, CodedInv, ByShards, ReadNotOlder
  <2>3. CASE meta[rd.key] # None /\ rd.key \in ec
    <3>1. PICK b \in {Shard, None} :
            rd' = [rd EXCEPT !.pc = "done", !.meta = meta[rd.key], !.body = b]
      BY <1>4, <2>3 DEF ReadMeta
    <3>2. rd'.pc = "done" /\ rd'.body = b /\ rd'.key = rd.key /\ rd'.stale = rd.stale
      BY <2>1, <3>1 DEF Gets
    <3>3. rd.stale \subseteq Versions
      BY <2>1 DEF Gets
    <3>4. rd.key \in gone
      BY <2>1, <2>3 DEF ReadInv, ReplicaInv
    <3> QED BY <2>1, <3>2, <3>3, <3>4, VersionsDiffer
            DEF ReadInv, ReplicaInv, CodedInv, ByShards, ReadNotOlder
  <2>4. CASE meta[rd.key] # None /\ rd.key \notin ec
    <3>1. rd'.pc = "open" /\ rd'.key = rd.key /\ rd'.stale = past[rd.key]
      BY <1>4, <2>1, <2>4 DEF ReadMeta, Gets
    <3>2. rd.key \notin clash /\ data[rd.key] = None => rd.key \in gone
      BY <2>1 DEF ReadInv, ReplicaInv
    <3> QED BY <2>1, <2>4, <3>1, <3>2
            DEF ReadInv, ReplicaInv, CodedInv, ByShards, ReadNotOlder, files, coded
  <2> QED BY <2>2, <2>3, <2>4
<1>5. CASE ReadData
  <2>1. rd.key \in Keys /\ rd.pc = "open" /\ UNCHANGED <<files, past, clash, gone>>
    BY <1>5 DEF ReadData, FullType, ReadType
  <2>2. /\ rd'.pc = "done" /\ rd'.body = data[rd.key]
        /\ rd'.key = rd.key /\ rd'.stale = rd.stale
    BY <1>5 DEF ReadData, FullType, ReadType, Gets
  <2>3. rd.key \notin clash => data[rd.key] \notin past[rd.key]
    BY <2>1 DEF FilesSafe, FileInv, KeyFiles
  <2>4. data[rd.key] \in {None, Shard, Mixed} => data[rd.key] = None
    BY <2>1, VersionsDiffer DEF FullType, FileType
  <2>5. rd.key \notin clash =>
          /\ rd.stale \subseteq past[rd.key]
          /\ data[rd.key] = None => rd.key \in gone
    BY <2>1 DEF ReadInv, ReplicaInv
  <2>6. ReadNotOlder'
    BY <2>1, <2>2, <2>3, <2>4, <2>5 DEF ReadNotOlder
  <2>7. ReplicaInv' /\ CodedInv'
    BY <2>2 DEF ReplicaInv, CodedInv, ByShards
  <2> QED BY <2>6, <2>7 DEF ReadInv
<1>6. CASE RemoveMetaDir
  <2>1. /\ UNCHANGED <<rd, data, coded, past, clash, gone>> /\ rd.pc # "done" /\ ec' = {}
        /\ meta' = [k \in Keys |-> None]
    BY <1>6 DEF RemoveMetaDir, Answered
  <2> QED BY <2>1, <1>k, ReadUndisturbed DEF coded
<1>7. CASE List \/ CreateBucket \/ DeleteBucket \/ RemoveDataDir \/ UNCHANGED vars
  <2>1. UNCHANGED <<rd, files, past, clash, gone>>
    BY <1>7 DEF List, ListBegins, ListWalk, ListWalkFails, ListPage, CreateBucket,
                DeleteBucket, RemoveDataDir, vars, files, coded
  <2> QED BY <2>1 DEF ReadInv, ReplicaInv, CodedInv, ByShards, ReadNotOlder, files, coded
<1> QED BY <1>1, <1>2, <1>3, <1>4, <1>5, <1>6, <1>7, <1>8, <1>9 DEF Next, Read, Manage

\* Headers and body of a GET: the body is never older, and is there, whole and of
\* one version, unless the object was deleted or converted meanwhile or, while
\* its shards were fetched, replaced (ReadNotOlder).
THEOREM ReadsNeverOlder == Spec => []ReadNotOlder
<1>1. Init => ReadInv
  BY DEF Init, Quiet, ReadInv, ReplicaInv, CodedInv, ByShards, ReadNotOlder
<1>2. ReadInv => ReadNotOlder
  BY DEF ReadInv
<1>3. Init => ShardInv
  BY VersionsDiffer DEF Init, ShardInv
<1> QED
  BY <1>1, <1>2, <1>3, ReadStep, ShardStep, FilesInit, FilesStep, TypeInit, TypeStep, PTL DEF Spec

----------------------------------------------------------------------------
(* DeleteBucket.                                                           *)

LEMMA ObjectsStep == FullType /\ FilesSafe /\ ObjectsCoded /\ [Next]_vars => ObjectsCoded'
<1> SUFFICES ASSUME FullType, FilesSafe, ObjectsCoded, [Next]_vars PROVE ObjectsCoded'
  OBVIOUS
<1>1. CASE RemoveDataDir /\ DataEmpty
  <2>1. ASSUME NEW k \in Listed \ clash, Active(k) = {} PROVE k \in ec
    <3>1. k \in Keys /\ meta[k] # None /\ KeyFiles(k)
      BY DEF Listed, FilesSafe, FileInv
    <3> QED BY <1>1, <2>1, <3>1 DEF KeyFiles, DataEmpty
  <2>2. ASSUME NEW o \in Settled PROVE o.coded
    <3>1. PICK k \in Listed \ clash : Active(k) = {} /\ o = [key |-> k, coded |-> k \in ec]
      BY DEF Settled
    <3>2. k \in ec
      BY <2>1, <3>1
    <3>3. o = [key |-> k, coded |-> TRUE]
      BY <3>1, <3>2
    <3> QED BY <3>3
  <2> QED BY <1>1, <2>2 DEF RemoveDataDir, ObjectsCoded
<1>2. CASE RemoveDataDir /\ ~DataEmpty
  BY <1>2 DEF RemoveDataDir, ObjectsCoded
<1>3. CASE RemoveMetaDir
  BY <1>3 DEF RemoveMetaDir, ObjectsCoded
<1>4. ASSUME UNCHANGED objects PROVE ObjectsCoded'
  BY <1>4 DEF ObjectsCoded
<1>5. ASSUME NEW t \in Tx, Write(t) PROVE UNCHANGED objects
  BY <1>5 DEF Write, BeginWrite, MoveData, MoveMeta
<1>6. ASSUME NEW k \in Keys, Convert(k) PROVE UNCHANGED objects
  BY <1>6 DEF Convert
<1>7. CASE Read \/ List \/ CreateBucket \/ DeleteBucket \/ UNCHANGED vars
  <2>1. UNCHANGED objects
    BY <1>7 DEF Read, ReadBegins, ReadCodedMeta, FetchShard, ReadMeta, ReadData, List,
                ListBegins, ListWalk, ListWalkFails, ListPage, CreateBucket, DeleteBucket, vars
  <2> QED BY <2>1, <1>4
<1> QED BY <1>1, <1>2, <1>3, <1>4, <1>5, <1>6, <1>7 DEF Next, Manage

\* DeleteBucket takes no replicated object that was complete, and written by
\* nobody, when it removed the data directory.  One that is committed between
\* that and the removal of the metadata is not protected.
THEOREM ReplicatedObjectsSurvive == Spec => ReplicatedObjectsKept
<1>1. Init => ObjectsCoded
  BY DEF Init, ObjectsCoded
<1>2. ObjectsCoded => [\A o \in objects : o.key \in Listed /\ RemoveMetaDir => o.coded]_vars
  BY DEF ObjectsCoded
<1> QED
  BY <1>1, <1>2, ObjectsStep, FilesInit, FilesStep, TypeInit, TypeStep, PTL
  DEF Spec, ReplicatedObjectsKept

----------------------------------------------------------------------------
(* Listings.                                                               *)

LEMMA KeysAreNumbers ==
  Keys \subseteq Nat \ {0} /\ Keys \union {0} \subseteq Nat
<1>1. Keys \subseteq Nat \ {0}
  BY BucketAssumption
<1> QED BY <1>1

LEMMA TokenIsNumber == ASSUME FullType PROVE ls.token \in Keys \union {0} /\ ls.token \in Nat
<1>1. ls.token \in Keys \union {0}
  BY DEF FullType, ListType, Listings
<1> QED BY <1>1, KeysAreNumbers

\* Keys behind the token have not been counted, and neither has a common prefix
\* with a key behind it: the token is an entry, so the prefix does not reach
\* across it.
LEMMA NewBehindToken ==
  ASSUME FullType, ListInv, ls.pc = "page", NEW k \in Wanted
  PROVE  /\ k \in Keys /\ k > ls.token /\ ls.count[k] = 0
         /\ GroupOf[k] # None => ls.groups[GroupOf[k]] = 0
<1>1. k \in Keys /\ k > ls.token /\ k \in Nat \ {0} /\ ls.token \in Keys \union {0}
  BY BucketAssumption DEF Wanted, FullType, ListType, Listings
<1>2. ls.count[k] = 0
  BY <1>1 DEF ListInv
<1>3. ASSUME GroupOf[k] # None, ls.groups[GroupOf[k]] # 0 PROVE FALSE
  <2>1. GroupOf[k] \in Groups /\ ls.groups[GroupOf[k]] \in 0..2
    BY <1>1 DEF Groups, FullType, ListType, Listings
  <2>2. PICK j \in Keys : j <= ls.token /\ GroupOf[j] = GroupOf[k]
    BY <1>3, <2>1 DEF ListInv
  <2>3. j \in Nat \ {0} /\ ls.token \in Nat
    BY KeysAreNumbers, TokenIsNumber
  <2>4. ls.token # 0 /\ ls.token \in Keys
    BY <1>1, <2>2, <2>3
  <2>5. GroupOf[ls.token] = None
    BY <2>4 DEF ListInv
  <2>6. j < ls.token
    BY <1>3, <2>2, <2>3, <2>5
  <2>7. GroupOf[ls.token] = GroupOf[j]
    BY <1>1, <1>3, <2>2, <2>4, <2>6, BucketAssumption
  <2> QED BY <1>3, <2>2, <2>5, <2>7
<1> QED BY <1>1, <1>2, <1>3

\* What a page adds to the counters.
LEMMA PageCounts ==
  ASSUME FullType, ListInv, ListPage
  PROVE  /\ \A k \in Keys : ls'.count[k] = IF k \in Entries /\ InPage(k) THEN 1 ELSE ls.count[k]
         /\ \A g \in Groups :
              ls'.groups[g] = IF g # None /\ \E k \in Wanted : GroupOf[k] = g /\ InPage(k)
                              THEN 1 ELSE ls.groups[g]
<1>1. ls \in Listings /\ ls.pc = "page"
  BY DEF FullType, ListType, ListPage
<1>2. /\ ls'.count = [k \in Keys |-> More(ls.count[k], k \in Entries /\ InPage(k))]
      /\ ls'.groups = [g \in Groups |->
           More(ls.groups[g], \E k \in Wanted : GroupOf[k] = g /\ g # None /\ InPage(k))]
  BY <1>1 DEF ListPage, Listings
<1>3. \A n \in 0..2 : More(n, FALSE) = n
  BY DEF More
<1>4. More(0, TRUE) = 1
  BY DEF More
<1>5. ASSUME NEW k \in Keys
      PROVE  ls'.count[k] = IF k \in Entries /\ InPage(k) THEN 1 ELSE ls.count[k]
  <2>1. ls.count[k] \in 0..2
    BY <1>1 DEF Listings
  <2>2. ls'.count[k] = More(ls.count[k], k \in Entries /\ InPage(k))
    BY <1>2
  <2>3. CASE k \in Entries /\ InPage(k)
    <3>1. k \in Wanted
      BY <2>3 DEF Entries
    <3>2. ls.count[k] = 0
      BY <1>1, <3>1, NewBehindToken
    <3> QED BY <1>4, <2>2, <2>3, <3>2 DEF More
  <2>4. CASE ~(k \in Entries /\ InPage(k))
    BY <1>3, <2>1, <2>2, <2>4 DEF More
  <2> QED BY <2>3, <2>4
<1>6. ASSUME NEW g \in Groups
      PROVE  ls'.groups[g] = IF g # None /\ \E k \in Wanted : GroupOf[k] = g /\ InPage(k)
                             THEN 1 ELSE ls.groups[g]
  <2> DEFINE yes == \E k \in Wanted : GroupOf[k] = g /\ g # None /\ InPage(k)
  <2>1. ls.groups[g] \in 0..2
    BY <1>1 DEF Listings
  <2>2. ls'.groups[g] = More(ls.groups[g], yes)
    BY <1>2
  <2>3. yes => ls.groups[g] = 0
    BY <1>1, NewBehindToken
  <2>4. yes <=> g # None /\ \E k \in Wanted : GroupOf[k] = g /\ InPage(k)
    OBVIOUS
  <2> HIDE DEF yes
  <2>5. CASE yes
    BY <2>2, <2>3, <2>4, <2>5 DEF More
  <2>6. CASE ~yes
    BY <2>1, <2>2, <2>4, <2>6 DEF More
  <2> QED BY <2>5, <2>6
<1> QED BY <1>5, <1>6

\* A steady key that the page reaches is counted after it, one that was counted
\* before stays so.
LEMMA SteadyCounted ==
  ASSUME FullType, ListInv, ListPage, NEW k \in steady \intersect ls.select,
         k <= ls.token \/ InPage(k)
  PROVE  IF GroupOf[k] = None THEN ls'.count[k] = 1 ELSE ls'.groups[GroupOf[k]] = 1
<1>1. k \in Keys /\ GroupOf[k] \in Groups /\ ls.pc = "page" /\ k \in ls.keys /\ meta[k] # None
  BY DEF FullType, HistoryType, Groups, ListPage, ListInv, Listed
<1>2. k \in Nat /\ ls.token \in Nat
  BY <1>1, KeysAreNumbers, TokenIsNumber
<1>3. CASE k <= ls.token
  <2>1. IF GroupOf[k] = None THEN ls.count[k] = 1 ELSE ls.groups[GroupOf[k]] = 1
    BY <1>1, <1>3 DEF ListInv
  <2> QED BY <1>1, <2>1, PageCounts
<1>4. CASE ~(k <= ls.token)
  <2>1. k \in Wanted /\ InPage(k)
    BY <1>1, <1>2, <1>4 DEF Wanted
  <2>2. GroupOf[k] = None => k \in Entries
    BY <1>1, <2>1 DEF Entries
  <2> QED BY <1>1, <2>1, <2>2, PageCounts
<1> QED BY <1>3, <1>4

LEMMA PageStep == ASSUME FullType, ListInv, ListPage PROVE ListInv'
<1>1. ls \in Listings /\ ls.pc = "page" /\ UNCHANGED <<steady, meta>> /\ steady \subseteq Listed
  BY DEF FullType, ListType, ListPage, files, ListInv
<1>2. /\ ls'.select = ls.select
      /\ ls'.pc = IF Truncated THEN "walk" ELSE "done"
      /\ ls'.token = IF Truncated THEN LastEntry ELSE ls.token
      /\ DOMAIN ls'.groups = Groups
  BY <1>1 DEF ListPage, Listings
<1>3. steady' \subseteq Listed'
  BY <1>1 DEF Listed
<1>4. \A k \in Keys : ls'.count[k] <= 1
  <2>1. \A k \in Keys : ls.count[k] <= 1
    BY DEF ListInv
  <2> QED BY <2>1, PageCounts
<1>5. \A g \in Groups : ls'.groups[g] <= 1
  <2>1. \A g \in Groups : ls.groups[g] <= 1
    BY DEF ListInv
  <2> QED BY <2>1, PageCounts
<1>6. CASE Truncated
  <2>1. /\ Full /\ LastEntry \in Entries /\ LastEntry \in Wanted
        /\ GroupOf[LastEntry] = None
    BY <1>1, <1>6, LastEntryExists DEF Truncated, Entries
  <2>2. LastEntry \in Keys /\ LastEntry > ls.token
    BY <1>1, <2>1, NewBehindToken
  <2>3. LastEntry \in Nat /\ ls.token \in Nat /\ Keys \subseteq Nat
    BY <2>2, KeysAreNumbers, TokenIsNumber
  <2>4. ls'.pc = "walk" /\ ls'.token = LastEntry
    BY <1>2, <1>6
  <2>5. \A k \in Keys : InPage(k) <=> k <= LastEntry
    BY <2>1 DEF InPage
  <2>6. ASSUME NEW k \in Keys, k > LastEntry PROVE ls'.count[k] = 0
    <3>1. k > ls.token /\ ~InPage(k)
      BY <2>2, <2>3, <2>5, <2>6
    <3>2. ls.count[k] = 0
      BY <1>1, <3>1 DEF ListInv
    <3> QED BY <3>1, <3>2, PageCounts
  <2>7. ASSUME NEW g \in Groups, ls'.groups[g] > 0
        PROVE  \E k \in Keys : k <= LastEntry /\ GroupOf[k] = g
    <3>1. CASE ls.groups[g] > 0
      <4>1. PICK k \in Keys : k <= ls.token /\ GroupOf[k] = g
        BY <1>1, <3>1 DEF ListInv
      <4> QED BY <2>2, <2>3, <4>1
    <3>2. CASE ~(ls.groups[g] > 0)
      <4>1. PICK k \in Wanted : GroupOf[k] = g /\ InPage(k)
        BY <2>7, <3>2, PageCounts
      <4>2. k \in Keys
        BY <1>1, NewBehindToken
      <4> QED BY <2>5, <4>1, <4>2
    <3> QED BY <3>1, <3>2
  <2>8. ASSUME NEW k \in steady \intersect ls.select, k <= LastEntry
        PROVE  IF GroupOf[k] = None THEN ls'.count[k] = 1 ELSE ls'.groups[GroupOf[k]] = 1
    <3>1. k \in Keys
      BY DEF FullType, HistoryType
    <3> QED BY <2>5, <2>8, <3>1, SteadyCounted
  <2>9. ListingComplete'
    BY <1>2, <1>4, <1>5, <2>4 DEF ListingComplete
  <2> QED
    BY <1>1, <1>2, <1>3, <1>4, <1>5, <2>1, <2>4, <2>6, <2>7, <2>8, <2>9 DEF ListInv
<1>7. CASE ~Truncated
  <2>1. ls'.pc = "done" /\ ls'.token = ls.token
    BY <1>2, <1>7
  <2>2. ASSUME NEW k \in steady \intersect ls.select
        PROVE  IF GroupOf[k] = None THEN ls'.count[k] = 1 ELSE ls'.groups[GroupOf[k]] = 1
    <3>1. k \in ls.keys /\ k \in Keys
      BY <1>1 DEF ListInv, FullType, HistoryType
    <3>2. InPage(k)
      <4> SUFFICES ASSUME Full PROVE k <= LastEntry
        BY DEF InPage
      <4>1. ~(k > LastEntry)
        BY <1>7, <3>1 DEF Truncated
      <4>2. LastEntry \in Entries
        BY <1>1, LastEntryExists
      <4>3. LastEntry \in Keys
        BY <1>1, <4>2, NewBehindToken DEF Entries
      <4> QED BY <3>1, <4>1, <4>3, BucketAssumption
    <3> QED BY <3>2, SteadyCounted
  <2>3. ListingComplete'
    BY <1>1, <1>2, <1>4, <1>5, <2>2 DEF ListingComplete
  <2>4. ls'.token # 0 => GroupOf[ls'.token] = None
    BY <2>1 DEF ListInv
  <2> QED BY <1>3, <1>4, <1>5, <2>1, <2>3, <2>4 DEF ListInv
<1> QED BY <1>6, <1>7

\* Steps that leave a listing under way alone keep what they do not delete.
LEMMA ListUndisturbed ==
  ASSUME FullType, ListInv, UNCHANGED ls, ls.pc # "done",
         steady' \subseteq steady, steady' \subseteq Listed' \/ ls.pc = "idle"
  PROVE  ListInv'
<1>1. ListingComplete'
  BY DEF ListInv, ListingComplete
<1> QED BY <1>1 DEF ListInv

LEMMA ListStep == FullType /\ ListInv /\ [Next]_vars => ListInv'
<1> SUFFICES ASSUME FullType, ListInv, [Next]_vars PROVE ListInv'
  OBVIOUS
<1>0. ls.pc # "idle" => steady \subseteq Listed
  BY DEF ListInv
<1>1. ASSUME NEW t \in Tx, Write(t) PROVE ListInv'
  <2>1. UNCHANGED ls /\ ls.pc # "done" /\ steady' \subseteq steady
    BY <1>1 DEF Write, BeginWrite, MoveData, MoveMeta, Answered
  <2>2. steady' \subseteq Listed' \/ ls.pc = "idle"
    <3>1. CASE UNCHANGED <<meta, steady>>
      BY <1>0, <3>1 DEF Listed
    <3>2. CASE MoveMeta(t)
      BY <1>0, <3>2, VersionsDiffer DEF MoveMeta, Listed, FullType, FileType, Tx
    <3> QED BY <1>1, <3>1, <3>2 DEF Write, BeginWrite, MoveData, files
  <2> QED BY <2>1, <2>2, ListUndisturbed
<1>2. ASSUME NEW k \in Keys, Convert(k) PROVE ListInv'
  <2>1. UNCHANGED <<ls, meta, steady>> /\ ls.pc # "done"
    BY <1>2 DEF Convert, Answered
  <2> QED BY <1>0, <2>1, ListUndisturbed DEF Listed
<1>3. ASSUME NEW s \in Selections, NEW m \in PageSizes, ListBegins(s, m) PROVE ListInv'
  <2>1. /\ ls'.pc = "walk" /\ ls'.token = 0 /\ ls'.select = s
        /\ ls'.count = [k \in Keys |-> 0] /\ ls'.groups = [g \in Groups |-> 0]
        /\ steady' = Listed /\ UNCHANGED meta
    BY <1>3 DEF ListBegins, NoListing, Groups, files
  <2>2. steady' \subseteq Listed'
    BY <2>1 DEF Listed
  <2>3. \A k \in steady' : ~(k <= 0)
    BY <2>1, BucketAssumption DEF Listed
  <2> QED BY <2>1, <2>2, <2>3 DEF ListInv, ListingComplete
<1>4. CASE ListWalk \/ ListWalkFails
  <2>1. ls \in Listings /\ ls.pc = "walk" /\ UNCHANGED <<meta, steady>>
    BY <1>4 DEF ListWalk, ListWalkFails, FullType, ListType, files
  <2>2. /\ ls'.pc \in {"page", "failed"}
        /\ ls'.select = ls.select /\ ls'.token = ls.token
        /\ ls'.count = ls.count /\ ls'.groups = ls.groups
        /\ ls'.pc = "page" => ls'.keys = Listed
    BY <1>4, <2>1 DEF ListWalk, ListWalkFails, Listings
  <2>3. steady' \subseteq Listed'
    BY <1>0, <2>1 DEF Listed
  <2>4. ListingComplete'
    BY <2>2 DEF ListInv, ListingComplete
  <2>5. ls'.pc = "page" => steady' \subseteq ls'.keys
    BY <1>0, <2>1, <2>2
  <2> QED BY <2>1, <2>2, <2>3, <2>4, <2>5 DEF ListInv
<1>5. CASE ListPage
  BY <1>5, PageStep
<1>6. CASE RemoveMetaDir
  <2>1. UNCHANGED ls /\ ls.pc # "done" /\ steady' = {}
    BY <1>6 DEF RemoveMetaDir, Answered
  <2> QED BY <2>1, ListUndisturbed
<1>7. CASE Read \/ CreateBucket \/ DeleteBucket \/ RemoveDataDir \/ UNCHANGED vars
  <2>1. UNCHANGED <<ls, steady, meta>>
    BY <1>7 DEF Read, ReadBegins, ReadCodedMeta, FetchShard, ReadMeta, ReadData, CreateBucket, DeleteBucket,
                RemoveDataDir, vars, files
  <2> QED BY <2>1 DEF ListInv, ListingComplete, Listed
<1> QED BY <1>1, <1>2, <1>3, <1>4, <1>5, <1>6, <1>7 DEF Next, List, Manage

\* The pages of a listing together hold every selected object that was there all
\* the time, once, and no entry or common prefix twice.
THEOREM ListingsComplete == Spec => []ListingComplete
<1>1. Init => ListInv
  <2> SUFFICES ASSUME Init PROVE ListInv
    OBVIOUS
  <2>1. /\ ls.pc = "idle" /\ ls.token = 0
        /\ ls.count = [k \in Keys |-> 0] /\ ls.groups = [g \in Groups |-> 0]
    BY DEF Init, NoListing, Groups
  <2> QED BY <2>1 DEF ListInv, ListingComplete
<1>2. ListInv => ListingComplete
  BY DEF ListInv
<1> QED BY <1>1, <1>2, ListStep, TypeInit, TypeStep, PTL DEF Spec
=============================================================================
