----------------------------- MODULE Multipart ------------------------------
(***************************************************************************)
(* A multipart upload on the leader (s3app/service.go, storage/fs,         *)
(* presentation/s3api/router.go and the cleanup goroutine of main.go):     *)
(* one session, file by file, while parts are uploaded, uploaded again,    *)
(* completed and aborted at the same time, the session expires and the     *)
(* process is killed.                                                      *)
(*                                                                         *)
(* Every upload of a part carries a content of its own, named like the     *)
(* upload, and so is its ETag.  All contents have the same size: the size  *)
(* check of StageObject only tells a truncated file (Empty) from a whole   *)
(* one.  A file is an inode: two uploads of one part write to the same     *)
(* name NNNNN.tmp and so, when they overlap, to the same inode, also after *)
(* one of them has renamed it.                                             *)
(***************************************************************************)
EXTENDS Integers, Sequences, FiniteSets

CONSTANTS
  Parts,         \* part numbers
  Uploads,       \* upload-part requests, each made at most once
  Completers,    \* complete requests
  Requests,      \* the part lists they may carry
  None,          \* no such file
  Empty, Mixed,  \* contents: truncated; bytes of two uploads
  MaxCrashes     \* bound: how often the process is killed

ASSUME MultipartAssumption ==
  /\ Parts \subseteq Nat
  /\ \A r \in Requests : r \in Seq([part : Parts, etag : Uploads])
  /\ {None, Empty, Mixed} \intersect Uploads = {}
  /\ MaxCrashes \in Nat

VARIABLES
  bucket,    \* the data directory of the bucket exists
  session,   \* CreateMultipartUpload: none yet, directory made, answered
  dir, json, \* the session directory, upload.json in it
  tmp, data, \* inodes of NNNNN.tmp and NNNNN
  meta,      \* ETag in NNNNN.json
  ino,       \* what is in an inode (named by the upload that created it)
  up,        \* the upload requests
  comp,      \* the complete requests
  removing,  \* os.RemoveAll has emptied the directory and not removed it yet
  object,    \* the object committed last
  crashes,
  acked,     \* history: the upload of a part that was last acknowledged
  doubt,     \* history: parts whose last upload was disturbed, cut short or read
  leak       \* history: a session directory was left without upload.json

vars == <<bucket, session, dir, json, tmp, data, meta, ino, up, comp, removing,
          object, crashes, acked, doubt, leak>>
files == <<dir, json, tmp, data, meta>>
life == <<session, removing, crashes>>

----------------------------------------------------------------------------

Nothing == [p \in Parts |-> None]
Contents == Uploads \union {Empty, Mixed}

\* The uploads of part p between opening the file and their answer.
Under(p) == {u \in Uploads : up[u].part = p /\ up[u].pc \in {"open", "copied", "renamed"}}

\* The uploads of us are disturbed; history only.
Disturbed(us) == [u \in Uploads |-> IF u \in us THEN [up[u] EXCEPT !.clean = FALSE] ELSE up[u]]

\* The complete requests whose PutObject reads the parts.
Reading(k) == comp[k].pc \in {"stream", "drop"}

\* A complete request before it begins, and when it has been answered.
Waiting == [pc |-> "new", parts |-> <<>>, body |-> <<>>, cur |-> None, doubt |-> {}]
Ended == [Waiting EXCEPT !.pc = "done"]

Init ==
  /\ bucket = FALSE /\ session = "none"
  /\ dir = FALSE /\ json = FALSE
  /\ tmp = Nothing /\ data = Nothing /\ meta = Nothing
  /\ ino = [u \in Uploads |-> Empty]
  /\ up = [u \in Uploads |-> [pc |-> "new", part |-> None, ino |-> None, clean |-> TRUE]]
  /\ comp = [k \in Completers |-> Waiting]
  /\ removing = FALSE
  /\ object = None
  /\ crashes = 0
  /\ acked = Nothing /\ doubt = {} /\ leak = FALSE

----------------------------------------------------------------------------
(* CreateMultipartUpload and os.RemoveAll of the session.                  *)

\* EnsureBucket, then the directory ...
CreateMultipartUpload ==
  /\ session = "none"
  /\ bucket' = TRUE
  /\ session' = "made" /\ dir' = TRUE
  /\ UNCHANGED <<json, tmp, data, meta, ino, up, comp, removing, object,
                 crashes, acked, doubt, leak>>

\* ... then upload.json; only now a client knows the upload ID.
CreateAnswered ==
  /\ session = "made"
  /\ session' = "known" /\ json' = TRUE
  /\ UNCHANGED <<bucket, dir, tmp, data, meta, ino, up, comp, removing,
                 object, crashes, acked, doubt, leak>>

\* AbortMultipartUpload: the files go first ...
EmptySession ==
  /\ dir /\ ~removing
  /\ json' = FALSE
  /\ tmp' = Nothing /\ data' = Nothing /\ meta' = Nothing
  /\ removing' = TRUE
  /\ acked' = Nothing
  /\ UNCHANGED <<bucket, session, dir, ino, up, object, crashes, doubt, leak>>

\* ... then the directory, unless an upload has put a file into it again.
RemoveDir ==
  /\ removing
  /\ removing' = FALSE
  /\ IF tmp = Nothing /\ data = Nothing /\ meta = Nothing
       THEN dir' = FALSE /\ UNCHANGED leak
       ELSE leak' = TRUE /\ UNCHANGED dir
  /\ UNCHANGED <<bucket, session, json, tmp, data, meta, ino, up, comp,
                 object, crashes, acked, doubt>>

\* DELETE ?uploadId.
AbortMultipartUpload == session = "known" /\ EmptySession /\ UNCHANGED comp

\* ListMultipartUploads finds the session by its upload.json.
ListMultipartUploads == dir /\ json

\* Mutant: a session that has parts does not expire.
MutExpireIdleOnly ==
  /\ bucket /\ ListMultipartUploads /\ data = Nothing
  /\ EmptySession /\ UNCHANGED comp

\* CleanupExpiredMultipartUploads: the buckets that ListBuckets finds, and in
\* them the listed uploads; UploadExpiry may have passed.
CleanupExpiredMultipartUploads ==
  /\ bucket /\ ListMultipartUploads
  /\ EmptySession /\ UNCHANGED comp

\* DeleteBucket leaves uploads/ alone; possible when the bucket has no object.
DeleteBucket ==
  /\ bucket /\ object = None
  /\ bucket' = FALSE
  /\ UNCHANGED <<life, files, ino, up, comp, object, acked, doubt, leak>>

----------------------------------------------------------------------------
(* SaveMultipartPart.                                                      *)

\* O_CREATE|O_TRUNC: a file that is there is emptied and shared.
OpenPart(u, p) ==
  LET i == IF tmp[p] = None THEN u ELSE tmp[p]
      alone == Under(p) = {} IN
  /\ session = "known" /\ dir /\ up[u].pc = "new"
  /\ tmp' = [tmp EXCEPT ![p] = i]
  /\ ino' = [ino EXCEPT ![i] = Empty]
  /\ up' = [Disturbed(Under(p)) EXCEPT ![u] =
              [pc |-> "open", part |-> p, ino |-> i, clean |-> alone]]
  /\ doubt' = IF alone THEN doubt ELSE doubt \union {p}
  /\ comp' = [k \in Completers |->
                IF Reading(k) THEN [comp[k] EXCEPT !.doubt = @ \union {p}]
                ELSE comp[k]]
  /\ UNCHANGED <<bucket, life, dir, json, data, meta, object, acked, leak>>

\* The body is copied; what two writers of one inode leave in it is open.
CopyPart(u) ==
  LET i == up[u].ino
      shared == \E v \in Uploads \ {u} : up[v].ino = i IN
  /\ up[u].pc = "open"
  /\ \E c \in IF shared THEN {u, Mixed} \union ({ino[i]} \ {Empty}) ELSE {u} :
       ino' = [ino EXCEPT ![i] = c]
  /\ up' = [up EXCEPT ![u].pc = "copied"]
  /\ UNCHANGED <<bucket, life, files, comp, object, acked, doubt, leak>>

\* Whatever has the name by now becomes the part.
RenamePart(u) ==
  LET p == up[u].part IN
  /\ up[u].pc = "copied" /\ tmp[p] # None
  /\ data' = [data EXCEPT ![p] = tmp[p]]
  /\ tmp' = [tmp EXCEPT ![p] = None]
  /\ up' = [up EXCEPT ![u].pc = "renamed"]
  /\ UNCHANGED <<bucket, life, dir, json, meta, ino, comp, object, acked, doubt, leak>>

\* Mutant: the directory is taken for granted.
MutDescribeAnywhere(u) ==
  LET p == up[u].part IN
  /\ up[u].pc = "renamed"
  /\ meta' = [meta EXCEPT ![p] = u]
  /\ tmp' = [tmp EXCEPT ![p] = None]
  /\ acked' = [acked EXCEPT ![p] = u]
  /\ doubt' = IF up[u].clean THEN doubt \ {p} ELSE doubt
  /\ up' = [up EXCEPT ![u].pc = "done"]
  /\ UNCHANGED <<bucket, life, dir, json, data, ino, comp, object, leak>>

\* NNNNN.json; the deferred os.Remove(tmpPath) also hits a later upload.
DescribePart(u) ==
  LET p == up[u].part IN
  /\ up[u].pc = "renamed" /\ dir
  /\ meta' = [meta EXCEPT ![p] = u]
  /\ tmp' = [tmp EXCEPT ![p] = None]
  /\ acked' = [acked EXCEPT ![p] = u]
  /\ doubt' = IF up[u].clean THEN doubt \ {p} ELSE doubt
  /\ up' = [up EXCEPT ![u].pc = "done"]
  /\ UNCHANGED <<bucket, life, dir, json, data, ino, comp, object, leak>>

\* Mutant: a failed upload takes the part with it.
MutUploadFails(u) ==
  LET p == up[u].part IN
  /\ up[u].pc \in {"open", "copied", "renamed"}
  /\ tmp' = [tmp EXCEPT ![p] = None]
  /\ data' = [data EXCEPT ![p] = None]
  /\ doubt' = IF up[u].pc = "renamed" THEN doubt \union {p} ELSE doubt
  /\ up' = [up EXCEPT ![u].pc = "done"]
  /\ UNCHANGED <<bucket, life, dir, json, meta, ino, comp, object, acked, leak>>

\* The client is gone, the disk is full, or a file is not there any more.
UploadFails(u) ==
  LET p == up[u].part IN
  /\ up[u].pc \in {"open", "copied", "renamed"}
  /\ tmp' = [tmp EXCEPT ![p] = None]
  /\ doubt' = IF up[u].pc = "renamed" THEN doubt \union {p} ELSE doubt
  /\ up' = [up EXCEPT ![u].pc = "done"]
  /\ UNCHANGED <<bucket, life, dir, json, data, meta, ino, comp, object, acked, leak>>

----------------------------------------------------------------------------
(* CompleteMultipartUpload.                                                *)

\* sort.Slice by part number: any order of the entries that has them ascending.
Sorted(r) ==
  {[i \in DOMAIN r |-> r[f[i]]] :
     f \in {g \in [DOMAIN r -> DOMAIN r] : \A i, j \in DOMAIN r :
              i < j => g[i] # g[j] /\ r[g[i]].part <= r[g[j]].part}}

\* The parts whose NNNNN.json is there.
GetMultipartParts == {p \in Parts : dir /\ meta[p] # None}

\* Does the session still have its upload.json?
GetMultipartUpload == dir /\ json

\* Mutant: the ETags are not compared.
MutVerified(r) ==
  GetMultipartUpload /\ \A i \in DOMAIN r : r[i].part \in GetMultipartParts

\* Every requested part is there, with the requested ETag.
Verified(r) ==
  /\ GetMultipartUpload
  /\ \A i \in DOMAIN r : /\ r[i].part \in GetMultipartParts
                         /\ meta[r[i].part] = r[i].etag

\* Verified, then PutObject begins (EnsureBucket); or refused.
CompleteBegins(k, r) ==
  /\ session = "known" /\ comp[k].pc = "new"
  /\ \/ /\ Verified(r)
        /\ \E s \in Sorted(r) :
             comp' = [comp EXCEPT ![k] =
                        [pc |-> "stream", parts |-> s, body |-> <<>>, cur |-> None,
                         doubt |-> doubt \union {p \in Parts : Under(p) # {}}]]
        /\ bucket' = TRUE
     \/ ~Verified(r) /\ comp' = [comp EXCEPT ![k] = Ended] /\ UNCHANGED bucket
  /\ UNCHANGED <<life, files, ino, up, object, acked, doubt, leak>>

NextPart(k) == comp[k].parts[Len(comp[k].body) + 1].part
AllRead(k) == Len(comp[k].body) = Len(comp[k].parts)

\* multipartPartsReader.Read: the next part is opened ...
ReaderOpens(k) ==
  /\ comp[k].pc = "stream" /\ comp[k].cur = None /\ ~AllRead(k)
  /\ data[NextPart(k)] # None
  /\ comp' = [comp EXCEPT ![k].cur = data[NextPart(k)]]
  /\ UNCHANGED <<bucket, life, files, ino, up, object, acked, doubt, leak>>

\* ... read to its end, and DeleteMultipartPart removes the data that has its
\* name by then ...
ReaderEnds(k) ==
  LET p == NextPart(k) IN
  /\ comp[k].pc = "stream" /\ comp[k].cur # None
  /\ comp' = [comp EXCEPT ![k].body = Append(@, ino[comp[k].cur]), ![k].cur = None,
                          ![k].pc = "drop"]
  /\ data' = [data EXCEPT ![p] = None]
  /\ up' = Disturbed(Under(p))
  /\ doubt' = doubt \union {p}
  /\ UNCHANGED <<bucket, life, dir, json, tmp, meta, ino, object, acked, leak>>

\* ... then the ETag that has it, be it of a later upload.
PartDeleted(k) ==
  LET p == comp[k].parts[Len(comp[k].body)].part IN
  /\ comp[k].pc = "drop"
  /\ comp' = [comp EXCEPT ![k].pc = "stream"]
  /\ meta' = [meta EXCEPT ![p] = None]
  /\ acked' = [acked EXCEPT ![p] = None]
  /\ UNCHANGED <<bucket, life, dir, json, tmp, data, ino, up, object, doubt, leak>>

\* All parts are staged with the size they should have, prepared, committed.
Commit(k) ==
  /\ comp[k].pc = "stream" /\ AllRead(k)
  /\ \A i \in DOMAIN comp[k].body : comp[k].body[i] # Empty
  /\ object' = [parts |-> comp[k].parts, body |-> comp[k].body, doubt |-> comp[k].doubt]
  /\ bucket' = TRUE
  /\ comp' = [comp EXCEPT ![k].pc = "committed"]
  /\ UNCHANGED <<life, files, ino, up, acked, doubt, leak>>

\* The session is removed; an error is only logged.
CompleteEnds(k) ==
  /\ comp[k].pc = "committed"
  /\ comp' = [comp EXCEPT ![k] = Ended]
  /\ IF dir /\ ~removing THEN EmptySession
     ELSE UNCHANGED <<bucket, life, files, ino, up, object, acked, doubt, leak>>

\* Writes are blocked, a part is not there, the size is wrong, a follower does
\* not prepare, the commit fails: the parts read so far are gone.  When the
\* second removal of a part fails, its ETag is left without data.
CompleteFails(k) ==
  /\ Reading(k)
  /\ comp' = [comp EXCEPT ![k] = Ended]
  /\ UNCHANGED <<bucket, life, files, ino, up, object, acked, doubt, leak>>

----------------------------------------------------------------------------

\* Every request under way is lost; the files survive.
Crash ==
  /\ crashes < MaxCrashes
  /\ crashes' = crashes + 1
  /\ session' = IF session = "made" THEN "lost" ELSE session
  /\ removing' = FALSE
  /\ leak' = (leak \/ session = "made" \/ removing)
  /\ doubt' = doubt \union {p \in Parts : \E u \in Under(p) : up[u].pc = "renamed"}
  /\ up' = [u \in Uploads |-> IF up[u].pc = "new" THEN up[u] ELSE [up[u] EXCEPT !.pc = "done", !.ino = None]]
  /\ comp' = [k \in Completers |-> IF comp[k].pc = "new" THEN comp[k]
                                   ELSE Ended]
  /\ UNCHANGED <<bucket, files, ino, object, acked>>

Next ==
  \/ CreateMultipartUpload \/ CreateAnswered
  \/ AbortMultipartUpload \/ CleanupExpiredMultipartUploads \/ RemoveDir
  \/ DeleteBucket
  \/ \E u \in Uploads : \/ \E p \in Parts : OpenPart(u, p)
                        \/ CopyPart(u) \/ RenamePart(u) \/ DescribePart(u) \/ UploadFails(u)
  \/ \E k \in Completers : \/ \E r \in Requests : CompleteBegins(k, r)
                           \/ ReaderOpens(k) \/ ReaderEnds(k) \/ PartDeleted(k)
                           \/ Commit(k) \/ CompleteEnds(k) \/ CompleteFails(k)
  \/ Crash

Spec == Init /\ [][Next]_vars

\* The cleanup goroutine runs on a ticker and visits every session it can list.
FairSpec ==
  /\ Spec
  /\ WF_vars(CleanupExpiredMultipartUploads) /\ WF_vars(RemoveDir)

----------------------------------------------------------------------------

\* Type correctness; files are in the session directory or not at all.
TypeOK ==
  /\ {bucket, dir, json, removing, leak} \subseteq BOOLEAN
  /\ session \in {"none", "made", "known", "lost"}
  /\ {tmp, data, meta, acked} \subseteq [Parts -> Uploads \union {None}]
  /\ ~dir => ~json /\ tmp = Nothing /\ data = Nothing /\ meta = Nothing
  /\ ino \in [Uploads -> Contents]
  /\ \A u \in Uploads : /\ up[u].pc \in {"new", "open", "copied", "renamed", "done"}
                        /\ up[u].part \in Parts \union {None}
                        /\ up[u].ino \in Uploads \union {None}
  /\ \A k \in Completers : /\ comp[k].pc \in {"new", "stream", "drop", "committed", "done"}
                           /\ comp[k].body \in Seq(Contents)
                           /\ comp[k].cur \in Uploads \union {None}
  /\ doubt \subseteq Parts
  /\ crashes \in 0..MaxCrashes

\* The completed object is made of the contents whose ETags the client asked
\* for, except for parts whose uploads overlapped each other or the completion,
\* or were cut short between the data and its ETag.  Two completions of one
\* upload do not disturb each other.
CompletedIsRequested ==
  object # None =>
    \A i \in DOMAIN object.parts :
      object.parts[i].part \notin object.doubt => object.body[i] = object.parts[i].etag

\* An acknowledged part is there, data and ETag, until the session is removed,
\* another upload of it is acknowledged, or a completion removes its files: one
\* that has read it, or one that has read an earlier upload and finds the later
\* data, or, between its two removals, only the later ETag.  Refused
\* completions, failed uploads and crashes do not touch it.
PartsKept ==
  json => \A p \in Parts \ doubt : acked[p] # None =>
    /\ meta[p] = acked[p]
    /\ data[p] # None
    /\ \/ ino[data[p]] = acked[p]
       \/ \E u \in Under(p) : up[u].pc = "renamed"

\* A session does not stay for ever while its bucket exists, except when its
\* removal or its creation was cut short.
SessionReclaimed == json ~> (~dir \/ leak \/ ~bucket)
=============================================================================
