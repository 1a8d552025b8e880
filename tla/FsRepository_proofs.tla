------------------------ MODULE FsRepository_proofs ------------------------
(***************************************************************************)
(* Proofs about FsRepository for every set of transactions and keys, any   *)
(* number of crashes, with and without Expiry.                             *)
(*                                                                         *)
(* LastCommitServed is not inductive: what a commit leaves behind depends  *)
(* on what happened to the key between its two renames.  The strengthening *)
(* says what is known in between: a commit in "alone" is the only one      *)
(* between its files, its data is in place and no orphan cleanup is about  *)
(* to remove it; and outside "doubt" every commit under way is such a one. *)
(***************************************************************************)
EXTENDS FsRepository, TLAPS

\* A commit that is still alone has its data in place, nobody else is between
\* the two files of its key, and the orphan cleanup is not after it.
AloneInPlace ==
  \A t \in alone :
    /\ pc[t] = "moved"
    /\ \A u \in Tx : pc[u] = "moved" /\ KeyOf[u] = KeyOf[t] => u = t
    /\ data[KeyOf[t]] = ContentOf(t)
    /\ orphan # KeyOf[t]

\* Outside doubt: only such commits are under way, and no cleanup.
CertainUndisturbed ==
  \A k \in Keys \ doubt :
    /\ orphan # k
    /\ \A u \in Tx : pc[u] = "moved" /\ KeyOf[u] = k => u \in alone

IInv == TypeOK /\ AloneInPlace /\ CertainUndisturbed /\ LastCommitServed

\* The types hold initially and every operation keeps them.
LEMMA TypeStep == TypeOK /\ [Next]_vars => TypeOK'
<1> SUFFICES ASSUME TypeOK, [Next]_vars PROVE TypeOK'
  OBVIOUS
<1> USE RepositoryAssumption DEF TypeOK, Contents
<1>1. ASSUME NEW t \in Tx, TxNext(t) PROVE TypeOK'
  <2>1. CASE Stage(t)
    BY <2>1 DEF Stage, objectVars, maintVars, history
  <2>2. CASE StageFile(t)
    BY <2>2 DEF StageFile, Needed, Before, objectVars, maintVars, history
  <2>3. CASE Staged(t) \/ StageFails(t) \/ Forget(t) \/ StartCommit(t)
    BY <2>3 DEF Staged, StageFails, Forget, StartCommit, objectVars, stageVars,
                maintVars, history
  <2>4. CASE AbortTransaction(t) \/ ClearStage(t)
    BY <2>4 DEF AbortTransaction, ClearStage, RemoveStage, objectVars, maintVars, history
  <2>5. CASE MoveData(t)
    BY <2>5 DEF MoveData, ContentOf, maintVars
  <2>6. CASE MoveMeta(t)
    BY <2>6 DEF MoveMeta, ContentOf, maintVars
  <2>7. CASE CommitFails(t)
    BY <2>7 DEF CommitFails, objectVars, stageVars, maintVars
  <2> QED
    BY <1>1, <2>1, <2>2, <2>3, <2>4, <2>5, <2>6, <2>7 DEF TxNext
<1>2. ASSUME NEW t \in Tx, JanitorLooks(t) PROVE TypeOK'
  BY <1>2 DEF JanitorLooks, objectVars, stageVars, history
<1>3. ASSUME NEW k \in Keys, OrphanLooks(k) \/ GrowOld(k) PROVE TypeOK'
  BY <1>3 DEF OrphanLooks, GrowOld, objectVars, stageVars, maintVars, history
<1>4. CASE JanitorAborts
  BY <1>4 DEF JanitorAborts, RemoveStage, objectVars, history
<1>5. CASE OrphanRemoves
  BY <1>5 DEF OrphanRemoves, stageVars
<1>6. CASE Crash
  BY <1>6 DEF Crash, objectVars, stageVars
<1>7. CASE UNCHANGED vars
  BY <1>7 DEF vars
<1> QED
  BY <1>1, <1>2, <1>3, <1>4, <1>5, <1>6, <1>7 DEF Next

\* Types of the disk and of the operations on it, in every behaviour.
THEOREM RepositoryTypeCorrect == Spec => []TypeOK
<1>1. Init => TypeOK
  BY RepositoryAssumption DEF Init, TypeOK, Contents
<1> QED
  BY <1>1, TypeStep, PTL DEF Spec

\* Steps that touch no object, no commit between its files, no cleanup target
\* and no history keep what is known about the objects.
LEMMA QuietStep ==
  ASSUME IInv, UNCHANGED <<data, meta, orphan, history>>,
         \A u \in Tx : pc'[u] = "moved" <=> pc[u] = "moved"
  PROVE  (AloneInPlace /\ CertainUndisturbed /\ LastCommitServed)'
BY DEF IInv, TypeOK, AloneInPlace, CertainUndisturbed, LastCommitServed, Moving,
       history, ContentOf

LEMMA InvStep == IInv /\ [Next]_vars => IInv'
<1> SUFFICES ASSUME IInv, [Next]_vars
             PROVE  (AloneInPlace /\ CertainUndisturbed /\ LastCommitServed)'
  BY TypeStep DEF IInv
<1> USE RepositoryAssumption
<1>1. ASSUME NEW t \in Tx, TxNext(t)
      PROVE  (AloneInPlace /\ CertainUndisturbed /\ LastCommitServed)'
  <2>1. CASE Stage(t) \/ StageFile(t) \/ Staged(t) \/ StageFails(t) \/ Forget(t)
             \/ StartCommit(t) \/ AbortTransaction(t) \/ ClearStage(t)
    <3>1. UNCHANGED <<data, meta, orphan, history>>
      BY <2>1 DEF Stage, StageFile, Staged, StageFails, Forget, StartCommit,
                  AbortTransaction, ClearStage, objectVars, maintVars
    <3>2. \A u \in Tx : pc'[u] = "moved" <=> pc[u] = "moved"
      BY <2>1 DEF Stage, StageFile, Staged, StageFails, Forget, StartCommit,
                  AbortTransaction, ClearStage, IInv, TypeOK
    <3> QED BY <3>1, <3>2, QuietStep
  <2>2. CASE MoveData(t)
    <3> DEFINE k == KeyOf[t]
    <3>0. /\ k \in Keys /\ pc[t] = "commit" /\ orphan' = orphan
          /\ pc' = [pc EXCEPT ![t] = "moved"] /\ UNCHANGED <<meta, last>>
          /\ data' = [data EXCEPT ![k] = ContentOf(t)]
      BY <2>2 DEF MoveData, maintVars
    <3>1. CASE Moving(k) = {} /\ orphan # k
      <4>1. alone' = alone \union {t} /\ doubt' = doubt
        BY <2>2, <3>1 DEF MoveData
      <4>2. \A u \in Tx : pc[u] = "moved" => KeyOf[u] # k
        BY <3>1 DEF Moving
      <4>3. AloneInPlace'
        BY <3>0, <3>1, <4>1, <4>2 DEF AloneInPlace, IInv, TypeOK, ContentOf
      <4>4. CertainUndisturbed' /\ LastCommitServed'
        BY <3>0, <3>1, <4>1, <4>2
           DEF CertainUndisturbed, LastCommitServed, Moving, IInv, TypeOK
      <4> QED BY <4>3, <4>4
    <3>2. CASE ~(Moving(k) = {} /\ orphan # k)
      <4>1. alone' = alone \ Moving(k) /\ doubt' = doubt \union {k}
        BY <2>2, <3>2 DEF MoveData
      <4>2. AloneInPlace'
        BY <3>0, <4>1 DEF AloneInPlace, IInv, TypeOK, ContentOf, Moving
      <4>3. CertainUndisturbed' /\ LastCommitServed'
        BY <3>0, <4>1 DEF CertainUndisturbed, LastCommitServed, Moving, IInv, TypeOK
      <4> QED BY <4>2, <4>3
    <3> QED BY <3>1, <3>2
  <2>3. CASE MoveMeta(t)
    <3> DEFINE k == KeyOf[t]
    <3>0. /\ k \in Keys /\ pc[t] = "moved" /\ UNCHANGED <<data, orphan>>
          /\ pc' = [pc EXCEPT ![t] = "clear"] /\ alone' = alone \ {t}
          /\ meta' = [meta EXCEPT ![k] = ContentOf(t)]
          /\ doubt' = IF t \in alone THEN doubt \ {k} ELSE doubt
          /\ last' = IF t \in alone THEN [last EXCEPT ![k] = ContentOf(t)] ELSE last
      BY <2>3 DEF MoveMeta, maintVars
    <3>1. AloneInPlace'
      BY <3>0 DEF AloneInPlace, IInv, TypeOK, ContentOf
    <3>2. CertainUndisturbed'
      BY <3>0 DEF CertainUndisturbed, AloneInPlace, IInv, TypeOK
    <3>3. LastCommitServed'
      BY <3>0 DEF CertainUndisturbed, AloneInPlace, LastCommitServed, Moving, IInv, TypeOK
    <3> QED BY <3>1, <3>2, <3>3
  <2>4. CASE CommitFails(t)
    <3>0. /\ KeyOf[t] \in Keys /\ UNCHANGED <<data, meta, orphan, last>>
          /\ pc' = [pc EXCEPT ![t] = "failed"] /\ alone' = alone \ {t}
          /\ doubt' = IF pc[t] = "moved" THEN doubt \union {KeyOf[t]} ELSE doubt
      BY <2>4 DEF CommitFails, objectVars, maintVars
    <3>1. AloneInPlace' /\ CertainUndisturbed'
      BY <3>0 DEF AloneInPlace, CertainUndisturbed, IInv, TypeOK, ContentOf
    <3>2. LastCommitServed'
      BY <3>0 DEF LastCommitServed, Moving, IInv, TypeOK
    <3> QED BY <3>1, <3>2
  <2> QED
    BY <1>1, <2>1, <2>2, <2>3, <2>4 DEF TxNext
<1>2. ASSUME NEW k \in Keys, OrphanLooks(k)
      PROVE  (AloneInPlace /\ CertainUndisturbed /\ LastCommitServed)'
  BY <1>2 DEF OrphanLooks, objectVars, AloneInPlace, CertainUndisturbed,
              LastCommitServed, Moving, IInv, TypeOK, ContentOf
<1>3. CASE OrphanRemoves
  BY <1>3 DEF OrphanRemoves, AloneInPlace, CertainUndisturbed,
              LastCommitServed, Moving, IInv, TypeOK, ContentOf
<1>4. CASE Crash
  <2>1. \A u \in Tx : pc'[u] # "moved"
    BY <1>4 DEF Crash, IInv, TypeOK
  <2>2. /\ UNCHANGED <<data, meta, last>> /\ alone' = {} /\ orphan' = None
        /\ doubt' = doubt \union {k \in Keys : Moving(k) # {}}
    BY <1>4 DEF Crash, objectVars
  <2> QED
    BY <2>1, <2>2 DEF AloneInPlace, CertainUndisturbed, LastCommitServed, Moving,
                      IInv, TypeOK
<1>5. ASSUME \/ \E t \in Tx : JanitorLooks(t)
             \/ \E k \in Keys : GrowOld(k)
             \/ JanitorAborts \/ UNCHANGED vars
      PROVE  (AloneInPlace /\ CertainUndisturbed /\ LastCommitServed)'
  <2>1. UNCHANGED <<data, meta, orphan, history, pc>>
    BY <1>5 DEF JanitorLooks, GrowOld, JanitorAborts, vars,
                objectVars, maintVars, history
  <2> QED BY <2>1, QuietStep
<1> QED
  BY <1>1, <1>2, <1>3, <1>4, <1>5 DEF Next

\* Whatever crashes, aborts, expiries and cleanups happen around it, a key that
\* is not in doubt holds data and metadata of its last undisturbed commit, and
\* such a commit takes its key out of doubt.
THEOREM LastCommitHolds == Spec => []LastCommitServed
<1>1. Init => IInv
  BY RepositoryAssumption
     DEF Init, IInv, TypeOK, Contents, AloneInPlace, CertainUndisturbed,
         LastCommitServed, Moving
<1>2. IInv => LastCommitServed
  BY DEF IInv
<1> QED
  BY <1>1, <1>2, InvStep, PTL DEF Spec
============================================================================
