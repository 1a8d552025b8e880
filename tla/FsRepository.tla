---------------------------- MODULE FsRepository ----------------------------
(***************************************************************************)
(* The files of one node (internal/infrastructure/storage/fs/filesystem.go *)
(* with the maintenance goroutine of cmd/micros3/main.go): what            *)
(* StageObject, CommitTransaction and AbortTransaction do to the disk, one *)
(* file at a time, while the janitor removes expired transactions, the     *)
(* orphan cleanup removes data without metadata, and the process may be    *)
(* killed between any two file operations.                                 *)
(*                                                                         *)
(* An object is two files: data and metadata (which carries the CRC32,     *)
(* size and ETag of the data it was written with).  Each is replaced by an *)
(* atomic rename; nothing makes the two renames atomic together, and no    *)
(* lock orders the commits of one key.  Contents are named by the          *)
(* transaction that wrote them.  Erasure coding is disabled here (its      *)
(* default), so no shard exists that a commit would remove.                *)
(***************************************************************************)
EXTENDS Integers

CONSTANTS
  Tx,          \* transactions this node is asked to stage
  Keys,
  KeyOf,       \* the key a transaction writes
  Deletes,     \* the transactions that are DELETEs
  None,        \* no such file, no such target
  Expiry,      \* may the maintenance reach its age limits (2 and 5 minutes)
               \* while a transaction is still in use?
  MaxCrashes   \* bound: how often the process is killed

ASSUME RepositoryAssumption ==
  /\ KeyOf \in [Tx -> Keys]
  /\ Deletes \subseteq Tx
  /\ None \notin Tx \union Keys
  /\ Expiry \in BOOLEAN
  /\ MaxCrashes \in Nat

VARIABLES
  data,     \* data file of a key
  meta,     \* metadata file of a key
  old,      \* keys whose data file is more than 5 minutes old
  dirs,     \* transactions with a staging directory
  files,    \* the files in it
  pc,       \* where StageObject / CommitTransaction of a transaction is
  abort,    \* the transaction the janitor has decided to abort
  orphan,   \* the key whose data the orphan cleanup has decided to remove
  crashes,
  last,     \* history: content of the last undisturbed commit of a key
  alone,    \* history: commits no other writer of the key has disturbed
  doubt     \* history: keys whose last commit was cut short or disturbed

vars == <<data, meta, old, dirs, files, pc, abort, orphan, crashes, last,
          alone, doubt>>
objectVars == <<data, meta, old>>
stageVars == <<dirs, files>>
maintVars == <<abort, orphan>>
history == <<last, alone, doubt>>

----------------------------------------------------------------------------

Contents == Tx \union {None}
ContentOf(t) == IF t \in Deletes THEN None ELSE t

\* What StageObject writes, and what it has written before.
Needed(t) == IF t \in Deletes THEN {"tx"} ELSE {"tx", "data", "meta"}
Before == [tx |-> {}, data |-> {"tx"}, meta |-> {"tx", "data"}]
Complete(t) == files[t] = Needed(t)

\* os.RemoveAll(stagingDir(txID)).
MutRemoveStage(t) ==
  /\ dirs' = dirs \ {t}
  /\ UNCHANGED files

RemoveStage(t) ==
  /\ dirs' = dirs \ {t}
  /\ files' = [files EXCEPT ![t] = {}]

\* Commits of k between their two files.
Moving(k) == {t \in Tx : pc[t] = "moved" /\ KeyOf[t] = k}

Init ==
  /\ data = [k \in Keys |-> None]
  /\ meta = [k \in Keys |-> None]
  /\ old = {}
  /\ dirs = {}
  /\ files = [t \in Tx |-> {}]
  /\ pc = [t \in Tx |-> "new"]
  /\ abort = None
  /\ orphan = None
  /\ crashes = 0
  /\ last = [k \in Keys |-> None]
  /\ alone = {}
  /\ doubt = {}

----------------------------------------------------------------------------
(* StageObject and AbortTransaction.                                       *)

Stage(t) ==
  /\ pc[t] = "new"
  /\ pc' = [pc EXCEPT ![t] = "staging"]
  /\ dirs' = dirs \union {t}
  /\ UNCHANGED <<objectVars, files, maintVars, crashes, history>>

\* tx.json, the data, meta.json: each is written aside and renamed.
StageFile(t) ==
  /\ pc[t] = "staging" /\ t \in dirs
  /\ \E f \in Needed(t) \ files[t] :
       /\ Before[f] \subseteq files[t]
       /\ files' = [files EXCEPT ![t] = @ \union {f}]
  /\ UNCHANGED <<objectVars, dirs, pc, maintVars, crashes, history>>

Staged(t) ==
  /\ pc[t] = "staging" /\ t \in dirs /\ Complete(t)
  /\ pc' = [pc EXCEPT ![t] = "prepared"]
  /\ UNCHANGED <<objectVars, stageVars, maintVars, crashes, history>>

\* The body has the wrong size, its sender is gone, or the directory is: the
\* files written so far stay.
StageFails(t) ==
  /\ pc[t] = "staging"
  /\ pc' = [pc EXCEPT ![t] = "failed"]
  /\ UNCHANGED <<objectVars, stageVars, maintVars, crashes, history>>

AbortTransaction(t) ==
  /\ pc[t] = "prepared"
  /\ RemoveStage(t)
  /\ pc' = [pc EXCEPT ![t] = "failed"]
  /\ UNCHANGED <<objectVars, maintVars, crashes, history>>

\* The coordinator of a prepared transaction is gone, or its abort is lost.
Forget(t) ==
  /\ pc[t] = "prepared"
  /\ pc' = [pc EXCEPT ![t] = "failed"]
  /\ UNCHANGED <<objectVars, stageVars, maintVars, crashes, history>>

----------------------------------------------------------------------------
(* CommitTransaction.                                                      *)

\* tx.json and meta.json are read.
StartCommit(t) ==
  /\ pc[t] = "prepared" /\ Complete(t)
  /\ pc' = [pc EXCEPT ![t] = "commit"]
  /\ UNCHANGED <<objectVars, stageVars, maintVars, crashes, history>>

\* The first of the two files: rename of the data, or its removal.
MoveData(t) ==
  LET k == KeyOf[t] IN
  /\ pc[t] = "commit"
  /\ t \in Deletes \/ "data" \in files[t]
  /\ data' = [data EXCEPT ![k] = ContentOf(t)]
  /\ files' = [files EXCEPT ![t] = @ \ {"data"}]
  /\ old' = old \ {k}
  /\ pc' = [pc EXCEPT ![t] = "moved"]
  /\ IF Moving(k) = {} /\ orphan # k
       THEN alone' = alone \union {t} /\ UNCHANGED doubt
       ELSE alone' = alone \ Moving(k) /\ doubt' = doubt \union {k}
  /\ UNCHANGED <<meta, dirs, maintVars, crashes, last>>

\* The second: rename of the metadata, or its removal.
MutMoveMeta(t) ==
  LET k == KeyOf[t] IN
  /\ pc[t] = "moved"
  /\ t \in Deletes \/ "meta" \in files[t]
  /\ meta' = IF t \in Deletes THEN meta ELSE [meta EXCEPT ![k] = t]
  /\ files' = [files EXCEPT ![t] = @ \ {"meta"}]
  /\ pc' = [pc EXCEPT ![t] = "clear"]
  /\ alone' = alone \ {t}
  /\ doubt' = IF t \in alone THEN doubt \ {k} ELSE doubt
  /\ last' = IF t \in alone THEN [last EXCEPT ![k] = ContentOf(t)] ELSE last
  /\ UNCHANGED <<data, old, dirs, maintVars, crashes>>

MoveMeta(t) ==
  LET k == KeyOf[t] IN
  /\ pc[t] = "moved"
  /\ t \in Deletes \/ "meta" \in files[t]
  /\ meta' = [meta EXCEPT ![k] = ContentOf(t)]
  /\ files' = [files EXCEPT ![t] = @ \ {"meta"}]
  /\ pc' = [pc EXCEPT ![t] = "clear"]
  /\ alone' = alone \ {t}
  /\ doubt' = IF t \in alone THEN doubt \ {k} ELSE doubt
  /\ last' = IF t \in alone THEN [last EXCEPT ![k] = ContentOf(t)] ELSE last
  /\ UNCHANGED <<data, old, dirs, maintVars, crashes>>

ClearStage(t) ==
  /\ pc[t] = "clear"
  /\ RemoveStage(t)
  /\ pc' = [pc EXCEPT ![t] = "done"]
  /\ UNCHANGED <<objectVars, maintVars, crashes, history>>

\* A staged file is not there any more: the error is returned, what was moved
\* before stays moved.
CommitFails(t) ==
  /\ \/ pc[t] = "prepared" /\ ~Complete(t)
     \/ pc[t] = "commit" /\ t \notin Deletes /\ "data" \notin files[t]
     \/ pc[t] = "moved" /\ t \notin Deletes /\ "meta" \notin files[t]
  /\ pc' = [pc EXCEPT ![t] = "failed"]
  /\ alone' = alone \ {t}
  /\ doubt' = IF pc[t] = "moved" THEN doubt \union {KeyOf[t]} ELSE doubt
  /\ UNCHANGED <<objectVars, stageVars, maintVars, crashes, last>>

----------------------------------------------------------------------------
(* The maintenance goroutine: the janitor, then the orphan cleanup.        *)

Idle == abort = None /\ orphan = None

\* CleanupExpiredTransactions looks at tx.json: it is too old, or not there.
\* The second also describes a transaction that is just being staged.
InUse(t) == pc[t] \notin {"new", "done", "failed"}

MutJanitorLooks(t) ==
  /\ Idle /\ t \in dirs
  /\ "tx" \in files[t]
  /\ InUse(t) => Expiry
  /\ abort' = t
  /\ UNCHANGED <<objectVars, stageVars, pc, orphan, crashes, history>>

JanitorLooks(t) ==
  /\ Idle /\ t \in dirs
  /\ InUse(t) => Expiry
  /\ abort' = t
  /\ UNCHANGED <<objectVars, stageVars, pc, orphan, crashes, history>>

JanitorAborts ==
  /\ abort # None
  /\ RemoveStage(abort)
  /\ abort' = None
  /\ UNCHANGED <<objectVars, pc, orphan, crashes, history>>

\* CleanupOrphanedObjects finds an old data file, and no metadata for it ...
MutOrphanLooks(k) ==
  /\ Idle
  /\ data[k] # None /\ meta[k] = None /\ k \notin old
  /\ orphan' = k
  /\ alone' = alone \ Moving(k)
  /\ doubt' = doubt \union {k}
  /\ UNCHANGED <<objectVars, stageVars, pc, abort, crashes, last>>

OrphanLooks(k) ==
  /\ Idle
  /\ data[k] # None /\ meta[k] = None /\ k \in old
  /\ orphan' = k
  /\ alone' = alone \ Moving(k)
  /\ doubt' = doubt \union {k}
  /\ UNCHANGED <<objectVars, stageVars, pc, abort, crashes, last>>

\* ... and removes whatever has that name by then.
OrphanRemoves ==
  /\ orphan # None
  /\ data' = [data EXCEPT ![orphan] = None]
  /\ old' = old \ {orphan}
  /\ orphan' = None
  /\ alone' = alone \ Moving(orphan)
  /\ doubt' = doubt \union {orphan}
  /\ UNCHANGED <<meta, stageVars, pc, abort, crashes, last>>

\* Five minutes pass for a data file; a commit takes less unless Expiry.
GrowOld(k) ==
  /\ data[k] # None /\ k \notin old
  /\ Moving(k) # {} => Expiry
  /\ old' = old \union {k}
  /\ UNCHANGED <<data, meta, stageVars, pc, maintVars, crashes, history>>

----------------------------------------------------------------------------

\* The process is killed and started again: the files survive, and with them
\* the transactions that were prepared.
Crash ==
  /\ crashes < MaxCrashes
  /\ crashes' = crashes + 1
  /\ pc' = [t \in Tx |-> IF pc[t] \in {"staging", "commit", "moved", "clear"}
                         THEN "failed" ELSE pc[t]]
  /\ abort' = None /\ orphan' = None
  /\ alone' = {}
  /\ doubt' = doubt \union {k \in Keys : Moving(k) # {}}
  /\ UNCHANGED <<objectVars, stageVars, last>>

TxNext(t) ==
  \/ Stage(t) \/ StageFile(t) \/ Staged(t) \/ StageFails(t)
  \/ AbortTransaction(t) \/ Forget(t)
  \/ StartCommit(t) \/ MoveData(t) \/ MoveMeta(t) \/ ClearStage(t) \/ CommitFails(t)

Next ==
  \/ \E t \in Tx : TxNext(t) \/ JanitorLooks(t)
  \/ \E k \in Keys : OrphanLooks(k) \/ GrowOld(k)
  \/ JanitorAborts \/ OrphanRemoves \/ Crash

Spec == Init /\ [][Next]_vars

\* The maintenance runs every minute; each run looks at every staging directory
\* and every data file, so neither can be passed over for ever.
Fairness ==
  /\ \A t \in Tx : SF_vars(JanitorLooks(t))
  /\ \A k \in Keys : SF_vars(OrphanLooks(k)) /\ WF_vars(GrowOld(k))
  /\ WF_vars(JanitorAborts) /\ WF_vars(OrphanRemoves)

FairSpec == Spec /\ Fairness

----------------------------------------------------------------------------

\* Type correctness of the files and of the operations under way; files are
\* staged in directories only.
TypeOK ==
  /\ data \in [Keys -> Contents] /\ meta \in [Keys -> Contents]
  /\ old \subseteq Keys
  /\ dirs \subseteq Tx
  /\ files \in [Tx -> SUBSET {"tx", "data", "meta"}]
  /\ \A t \in Tx \ dirs : files[t] = {}
  /\ pc \in [Tx -> {"new", "staging", "prepared", "commit", "moved", "clear",
                    "done", "failed"}]
  /\ abort \in Contents
  /\ orphan \in Keys \union {None}
  /\ crashes \in 0..MaxCrashes
  /\ last \in [Keys -> Contents]
  /\ alone \subseteq Tx
  /\ doubt \subseteq Keys

\* Outside the keys in doubt, and whatever crashes, aborts and cleanups went on
\* around it, a key holds the data AND the metadata of the last commit that ran
\* undisturbed: such a commit also repairs what an earlier one left torn.
LastCommitServed ==
  \A k \in Keys \ doubt : Moving(k) = {} =>
    data[k] = last[k] /\ meta[k] = last[k]

\* A staging directory nobody works on any more is removed, also one that was
\* cut short before its tx.json was written.
LeftoversReclaimed ==
  \A t \in Tx : (t \in dirs /\ pc[t] = "failed") ~> t \notin dirs

\* Data without metadata, as a crash may leave it, does not stay for ever.
OrphansReclaimed ==
  \A k \in Keys : (data[k] # None /\ meta[k] = None)
                    ~> (data[k] = None \/ meta[k] # None)
============================================================================
