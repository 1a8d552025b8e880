-------------------------- MODULE Multipart_proofs --------------------------
(***************************************************************************)
(* Proofs about Multipart for every set of part numbers, uploads, complete *)
(* requests and crashes.                                                   *)
(*                                                                         *)
(* Uploads of one part share file names and sometimes inodes.  The         *)
(* invariants say which upload a file still belongs to: one that nobody    *)
(* has disturbed is alone under its part and owns the inode it writes, and *)
(* a part that is not in doubt has the content its ETag names.             *)
(***************************************************************************)
EXTENDS Multipart, SequenceTheorems, TLAPS

Files == [Parts -> Uploads \union {None}]
Ups == [pc : {"new", "open", "copied", "renamed", "done"}, part : Parts \union {None},
        ino : Uploads \union {None}, clean : BOOLEAN]
Lists == Seq([part : Parts, etag : Uploads])
Comps == [pc : {"new", "stream", "drop", "committed", "done"}, parts : Lists, body : Seq(Contents),
          cur : Uploads \union {None}, doubt : SUBSET Parts]

InFlight(u) == up[u].pc \in {"open", "copied", "renamed"}

\* TypeOK in parts, with the fields it leaves open.
FlagType ==
  /\ bucket \in BOOLEAN /\ dir \in BOOLEAN /\ json \in BOOLEAN
  /\ removing \in BOOLEAN /\ leak \in BOOLEAN
  /\ session \in {"none", "made", "known", "lost"}
  /\ doubt \subseteq Parts
  /\ crashes \in 0..MaxCrashes

FileType ==
  /\ tmp \in Files /\ data \in Files /\ meta \in Files /\ acked = meta
  /\ ino \in [Uploads -> Contents]

UpType ==
  /\ up \in [Uploads -> Ups]
  /\ \A u \in Uploads : /\ up[u].pc # "new" => up[u].part \in Parts
                        /\ InFlight(u) => up[u].ino \in Uploads
                        /\ up[u].pc = "new" => up[u].ino = None

CompType ==
  /\ comp \in [Completers -> Comps]
  /\ \A k \in Completers : /\ Len(comp[k].body) <= Len(comp[k].parts)
                           /\ comp[k].cur # None => Len(comp[k].body) < Len(comp[k].parts)
                           /\ comp[k].pc = "drop" => Len(comp[k].body) > 0

\* The session directory comes with the files in it; nobody works on a session
\* that no client knows.
SessionInv ==
  /\ ~dir => ~json /\ tmp = Nothing /\ data = Nothing /\ meta = Nothing
  /\ session = "made" => dir
  /\ removing => ~json
  /\ session # "known" =>
       /\ tmp = Nothing /\ data = Nothing /\ meta = Nothing
       /\ ~json /\ ~removing
       /\ \A u \in Uploads : ~InFlight(u)
       /\ \A k \in Completers : comp[k].pc \notin {"stream", "drop", "committed"}

FullType == FlagType /\ FileType /\ UpType /\ CompType /\ SessionInv

----------------------------------------------------------------------------
(* Inodes.                                                                 *)

\* An inode belongs to the part whose upload created it.
Made(i, p) == up[i].pc # "new" /\ up[i].part = p

InodeInv ==
  /\ \A p \in Parts : /\ tmp[p] # None => Made(tmp[p], p)
                      /\ data[p] # None => Made(data[p], p)
                      /\ tmp[p] # None => tmp[p] # data[p]
                      /\ tmp[p] # None /\ Under(p) = {} =>
                           \A v \in Uploads : up[v].ino # tmp[p]
  /\ \A u \in Uploads : up[u].ino # None => Made(up[u].ino, up[u].part)

\* An upload that nobody disturbed is the only one under its part and the only
\* one with its inode; a disturbed one leaves its part in doubt.
CleanUpload(u) ==
  LET p == up[u].part
      i == up[u].ino IN
  /\ Under(p) = {u}
  /\ \A v \in Uploads \ {u} : up[v].ino # i
  /\ tmp[p] \in {None, i}
  /\ up[u].pc # "open" => ino[i] = u
  /\ up[u].pc # "renamed" => data[p] # i
  /\ up[u].pc = "renamed" => data[p] = i \/ (data[p] = None /\ ~json)

UploadInv ==
  \A u \in Uploads : InFlight(u) =>
    IF up[u].clean THEN CleanUpload(u) ELSE up[u].part \in doubt

Renamed(p) == \E u \in Under(p) : up[u].pc = "renamed"

\* A part that is not in doubt, or between its data and its ETag, has the content
\* its ETag names.
PartInv ==
  \A p \in Parts \ doubt : meta[p] # None /\ ~Renamed(p) =>
    /\ data[p] # None => ino[data[p]] = meta[p]
    /\ json => data[p] # None

\* A completion under way has read, is reading and will read what was requested,
\* except of the parts in its doubt.
EntryRead(k, i) ==
  LET p == comp[k].parts[i].part
      e == comp[k].parts[i].etag
      n == Len(comp[k].body) IN
  p \notin comp[k].doubt =>
    /\ i <= n => comp[k].body[i] = e
    /\ i > n /\ data[p] # None => ino[data[p]] = e
    /\ i = n + 1 /\ comp[k].cur # None => ino[comp[k].cur] = e

CompInv ==
  \A k \in Completers : Reading(k) =>
    /\ comp[k].cur # None => Made(comp[k].cur, NextPart(k))
    /\ \A p \in Parts \ comp[k].doubt : Under(p) = {}
    /\ \A i \in DOMAIN comp[k].parts : EntryRead(k, i)

----------------------------------------------------------------------------
(* Types.                                                                  *)

LEMMA TypesSuffice == FullType => TypeOK
<1> SUFFICES ASSUME FullType PROVE TypeOK
  OBVIOUS
<1>1. FlagType /\ FileType /\ SessionInv
  BY DEF FullType
<1>2. \A u \in Uploads : up[u] \in Ups
  BY DEF FullType, UpType
<1>3. \A k \in Completers : comp[k] \in Comps
  BY DEF FullType, CompType
<1> QED BY <1>1, <1>2, <1>3 DEF TypeOK, FlagType, FileType, SessionInv, Files, Ups, Comps

LEMMA NothingType ==
  /\ Nothing \in Files
  /\ Waiting \in Comps /\ Ended \in Comps
  /\ Ended.pc = "done" /\ Ended.cur = None /\ Len(Ended.body) = 0 /\ Len(Ended.parts) = 0
  /\ Waiting.pc = "new" /\ Waiting.cur = None /\ Len(Waiting.body) = 0 /\ Len(Waiting.parts) = 0
<1>1. <<>> \in Lists /\ <<>> \in Seq(Contents)
  BY DEF Lists
<1>2. Waiting \in Comps /\ Ended \in Comps
  BY <1>1 DEF Waiting, Ended, Comps
<1> QED BY <1>2 DEF Nothing, Files, Waiting, Ended

\* A sorted list has the entries of the request.
LEMMA SortedType ==
  ASSUME NEW r \in Requests, NEW s \in Sorted(r)
  PROVE  s \in Lists /\ \A i \in DOMAIN s : \E j \in DOMAIN r : s[i] = r[j]
<1> DEFINE Entry == [part : Parts, etag : Uploads]
<1>1. r \in Seq(Entry)
  BY MultipartAssumption
<1> HIDE DEF Entry
<1>2. PICK f \in [DOMAIN r -> DOMAIN r] : s = [i \in DOMAIN r |-> r[f[i]]]
  BY Zenon DEF Sorted
<1>3. Len(r) \in Nat /\ DOMAIN r = 1..Len(r) /\ \A j \in 1..Len(r) : r[j] \in Entry
  BY <1>1
<1>4. DOMAIN s = 1..Len(r) /\ \A i \in 1..Len(r) : s[i] = r[f[i]] /\ f[i] \in 1..Len(r)
  BY <1>2, <1>3
<1>5. s = [i \in 1..Len(r) |-> r[f[i]]]
  BY <1>2, <1>3
<1>6. s \in [1..Len(r) -> Entry]
  BY <1>3, <1>4, <1>5
<1>7. s \in Seq(Entry)
  <2>1. s \in UNION {[1..n -> Entry] : n \in Nat}
    BY <1>3, <1>6
  <2> QED BY <2>1, SeqDef
<1> QED BY <1>3, <1>4, <1>7 DEF Lists, Entry

\* Disturbing uploads changes only what is known of them.
LEMMA DisturbedFacts ==
  ASSUME UpType, NEW us \in SUBSET Uploads
  PROVE  /\ Disturbed(us) \in [Uploads -> Ups]
         /\ \A v \in Uploads :
              /\ Disturbed(us)[v].pc = up[v].pc /\ Disturbed(us)[v].part = up[v].part
              /\ Disturbed(us)[v].ino = up[v].ino
              /\ v \notin us => Disturbed(us)[v] = up[v]
              /\ v \in us => Disturbed(us)[v].clean = FALSE
<1>1. \A v \in Uploads :
        Disturbed(us)[v] = IF v \in us THEN [up[v] EXCEPT !.clean = FALSE] ELSE up[v]
  BY DEF Disturbed
<1>2. \A v \in Uploads : up[v] \in Ups
  BY DEF UpType
<1>3. \A v \in Uploads : Disturbed(us)[v] \in Ups
  BY <1>1, <1>2 DEF Ups
<1>4. Disturbed(us) \in [Uploads -> Ups]
  BY <1>3 DEF Disturbed
<1>5. ASSUME NEW v \in Uploads
      PROVE  /\ Disturbed(us)[v].pc = up[v].pc /\ Disturbed(us)[v].part = up[v].part
             /\ Disturbed(us)[v].ino = up[v].ino
             /\ v \notin us => Disturbed(us)[v] = up[v]
             /\ v \in us => Disturbed(us)[v].clean = FALSE
  BY <1>1, <1>2 DEF Ups
<1> QED BY <1>4, <1>5

\* What opening a part does to the uploads.
LEMMA OpenFacts ==
  ASSUME FullType, NEW u \in Uploads, NEW p \in Parts, OpenPart(u, p)
  PROVE  LET i == IF tmp[p] = None THEN u ELSE tmp[p] IN
         /\ i \in Uploads /\ up[u].pc = "new"
         /\ up' \in [Uploads -> Ups]
         /\ up'[u] = [pc |-> "open", part |-> p, ino |-> i, clean |-> Under(p) = {}]
         /\ \A v \in Uploads \ {u} :
              /\ up'[v].pc = up[v].pc /\ up'[v].part = up[v].part /\ up'[v].ino = up[v].ino
              /\ v \notin Under(p) => up'[v] = up[v]
              /\ v \in Under(p) => up'[v].clean = FALSE
<1> DEFINE i == IF tmp[p] = None THEN u ELSE tmp[p]
<1>1. i \in Uploads
  BY DEF FullType, FileType, Files
<1>2. Under(p) \in SUBSET Uploads
  BY DEF Under
<1>3. UpType
  BY DEF FullType
<1>4. /\ up' = [Disturbed(Under(p)) EXCEPT ![u] =
                  [pc |-> "open", part |-> p, ino |-> i, clean |-> Under(p) = {}]]
      /\ up[u].pc = "new"
  BY DEF OpenPart
<1>5. [pc |-> "open", part |-> p, ino |-> i, clean |-> Under(p) = {}] \in Ups
  BY <1>1 DEF Ups
<1> HIDE DEF i
<1>6. /\ up' \in [Uploads -> Ups]
      /\ up'[u] = [pc |-> "open", part |-> p, ino |-> i, clean |-> Under(p) = {}]
      /\ \A v \in Uploads \ {u} : up'[v] = Disturbed(Under(p))[v]
  BY <1>2, <1>3, <1>4, <1>5, DisturbedFacts
<1>7. ASSUME NEW v \in Uploads \ {u}
      PROVE  /\ up'[v].pc = up[v].pc /\ up'[v].part = up[v].part /\ up'[v].ino = up[v].ino
             /\ v \notin Under(p) => up'[v] = up[v]
             /\ v \in Under(p) => up'[v].clean = FALSE
  <2> DEFINE us == Under(p)
             d == Disturbed(us)
  <2>1. us \in SUBSET Uploads /\ up'[v] = d[v]
    BY <1>2, <1>6
  <2>2. /\ d[v].pc = up[v].pc /\ d[v].part = up[v].part /\ d[v].ino = up[v].ino
        /\ v \notin us => d[v] = up[v]
        /\ v \in us => d[v].clean = FALSE
    <3> HIDE DEF us
    <3> QED BY <1>3, <2>1, DisturbedFacts
  <2> QED BY <2>1, <2>2
<1> QED BY <1>1, <1>4, <1>6, <1>7 DEF i

\* A step of one upload that has its part.
Moves(u, pc) ==
  /\ up' \in [Uploads -> Ups]
  /\ up'[u].pc = pc /\ up'[u].part = up[u].part /\ up'[u].ino = up[u].ino
  /\ up'[u].clean = up[u].clean
  /\ \A v \in Uploads \ {u} : up'[v] = up[v]

LEMMA MoveFacts ==
  ASSUME UpType, NEW u \in Uploads, NEW pc \in {"open", "copied", "renamed", "done"},
         up' = [up EXCEPT ![u].pc = pc]
  PROVE  Moves(u, pc)
<1>1. up \in [Uploads -> Ups] /\ up[u] \in Ups
  BY DEF UpType
<1>2. [up[u] EXCEPT !.pc = pc] \in Ups
  BY <1>1 DEF Ups
<1>3. up' = [up EXCEPT ![u] = [up[u] EXCEPT !.pc = pc]]
  OBVIOUS
<1>4. up' \in [Uploads -> Ups] /\ up'[u] = [up[u] EXCEPT !.pc = pc]
  BY <1>1, <1>2, <1>3
<1>5. \A v \in Uploads \ {u} : up'[v] = up[v]
  BY <1>1
<1> QED BY <1>1, <1>4, <1>5 DEF Moves, Ups

LEMMA MoveType ==
  ASSUME UpType, NEW u \in Uploads, NEW pc \in {"open", "copied", "renamed", "done"},
         up[u].pc # "new", pc = "done" \/ InFlight(u), Moves(u, pc)
  PROVE  UpType'
BY DEF UpType, Moves, InFlight

LEMMA FileFacts ==
  /\ \A p \in Parts : [Nothing EXCEPT ![p] = None] = Nothing
  /\ \A F \in Files, p \in Parts, x \in Uploads \union {None} :
       /\ [F EXCEPT ![p] = x] \in Files
       /\ [F EXCEPT ![p] = x][p] = x
       /\ \A q \in Parts \ {p} : [F EXCEPT ![p] = x][q] = F[q]
BY DEF Nothing, Files

\* Opening a part is noted by the completions that read.
LEMMA NotedFacts ==
  ASSUME CompType, NEW p \in Parts,
         comp' = [k \in Completers |->
                    IF Reading(k) THEN [comp[k] EXCEPT !.doubt = @ \union {p}]
                    ELSE comp[k]]
  PROVE  /\ CompType'
         /\ \A k \in Completers :
              /\ comp'[k].pc = comp[k].pc /\ comp'[k].parts = comp[k].parts
              /\ comp'[k].body = comp[k].body /\ comp'[k].cur = comp[k].cur
              /\ Reading(k) => comp'[k].doubt = comp[k].doubt \union {p}
<1>1. \A k \in Completers : comp[k] \in Comps
  BY DEF CompType
<1>2. ASSUME NEW k \in Completers
      PROVE  /\ comp'[k] \in Comps
             /\ comp'[k].pc = comp[k].pc /\ comp'[k].parts = comp[k].parts
             /\ comp'[k].body = comp[k].body /\ comp'[k].cur = comp[k].cur
             /\ Reading(k) => comp'[k].doubt = comp[k].doubt \union {p}
  BY <1>1 DEF Comps
<1>3. comp' \in [Completers -> Comps]
  BY <1>2
<1> QED BY <1>2, <1>3 DEF CompType

\* One completion goes on.
LEMMA CompMoves ==
  ASSUME CompType, NEW k \in Completers, NEW c \in Comps, comp' = [comp EXCEPT ![k] = c],
         Len(c.body) <= Len(c.parts), c.cur # None => Len(c.body) < Len(c.parts),
         c.pc = "drop" => Len(c.body) > 0
  PROVE  CompType' /\ comp'[k] = c /\ \A j \in Completers \ {k} : comp'[j] = comp[j]
BY DEF CompType

LEMMA NextPartFacts ==
  ASSUME FullType, NEW k \in Completers
  PROVE  /\ CompType /\ comp[k] \in Comps
         /\ Len(comp[k].body) \in Nat /\ Len(comp[k].parts) \in Nat
         /\ DOMAIN comp[k].body = 1..Len(comp[k].body)
         /\ DOMAIN comp[k].parts = 1..Len(comp[k].parts)
         /\ \A i \in 1..Len(comp[k].parts) : comp[k].parts[i].part \in Parts
         /\ \A i \in 1..Len(comp[k].body) : comp[k].body[i] \in Contents
         /\ Len(comp[k].body) <= Len(comp[k].parts)
         /\ Len(comp[k].body) < Len(comp[k].parts) => NextPart(k) \in Parts
<1>1. CompType /\ comp[k] \in Comps /\ Len(comp[k].body) <= Len(comp[k].parts)
  BY DEF FullType, CompType
<1> DEFINE Entry == [part : Parts, etag : Uploads]
           s == comp[k].parts
           n == Len(comp[k].body)
<1>2. s \in Seq(Entry) /\ comp[k].body \in Seq(Contents)
  BY <1>1 DEF Comps, Lists
<1>3. n \in Nat /\ DOMAIN comp[k].body = 1..n /\ \A i \in 1..n : comp[k].body[i] \in Contents
  BY <1>2
<1> HIDE DEF s, Entry, n
<1>4. Len(s) \in Nat /\ DOMAIN s = 1..Len(s) /\ \A i \in 1..Len(s) : s[i] \in Entry
  BY <1>2
<1>5. \A i \in 1..Len(s) : s[i].part \in Parts
  BY <1>4 DEF Entry
<1>6. n < Len(s) => s[n + 1].part \in Parts
  BY <1>3, <1>4, <1>5
<1> QED BY <1>1, <1>3, <1>4, <1>5, <1>6 DEF s, n, NextPart

LEMMA ReaderOpensFacts ==
  ASSUME FullType, NEW k \in Completers, ReaderOpens(k)
  PROVE  /\ CompType'
         /\ comp'[k].pc = comp[k].pc /\ comp'[k].parts = comp[k].parts
         /\ comp'[k].body = comp[k].body /\ comp'[k].doubt = comp[k].doubt
         /\ comp'[k].cur = data[NextPart(k)] /\ NextPart(k) \in Parts
         /\ \A j \in Completers \ {k} : comp'[j] = comp[j]
<1> DEFINE c == [comp[k] EXCEPT !.cur = data[NextPart(k)]]
<1>1. CompType /\ comp[k] \in Comps /\ Len(comp[k].body) <= Len(comp[k].parts)
  BY DEF FullType, CompType
<1>2. Len(comp[k].body) < Len(comp[k].parts)
  BY <1>1 DEF ReaderOpens, AllRead, Comps, Lists
<1>3. NextPart(k) \in Parts
  BY <1>2, NextPartFacts
<1>4. data[NextPart(k)] \in Uploads
  BY <1>3 DEF ReaderOpens, FullType, FileType, Files
<1>5. c \in Comps
  BY <1>1, <1>4 DEF Comps
<1>6. /\ c.pc = comp[k].pc /\ c.parts = comp[k].parts /\ c.body = comp[k].body
      /\ c.doubt = comp[k].doubt /\ c.cur = data[NextPart(k)]
  BY <1>1 DEF Comps
<1>7. comp' = [comp EXCEPT ![k] = c]
  BY DEF ReaderOpens
<1> HIDE DEF c
<1>8. CompType' /\ comp'[k] = c /\ \A j \in Completers \ {k} : comp'[j] = comp[j]
  <2>1. c.pc # "drop"
    BY <1>6 DEF ReaderOpens
  <2> QED BY <1>1, <1>2, <1>5, <1>6, <1>7, <2>1, CompMoves
<1> QED BY <1>3, <1>6, <1>8

LEMMA ReaderEndsFacts ==
  ASSUME FullType, NEW k \in Completers, ReaderEnds(k)
  PROVE  /\ CompType'
         /\ comp'[k].pc = "drop" /\ comp[k].pc = "stream" /\ comp'[k].parts = comp[k].parts
         /\ comp'[k].body = Append(comp[k].body, ino[comp[k].cur])
         /\ comp'[k].doubt = comp[k].doubt /\ comp'[k].cur = None
         /\ NextPart(k) \in Parts
         /\ \A j \in Completers \ {k} : comp'[j] = comp[j]
<1> DEFINE b == Append(comp[k].body, ino[comp[k].cur])
           c == [comp[k] EXCEPT !.body = b, !.cur = None, !.pc = "drop"]
<1>1. /\ CompType /\ comp[k] \in Comps /\ comp[k].cur \in Uploads
      /\ Len(comp[k].body) < Len(comp[k].parts)
  BY DEF FullType, CompType, ReaderEnds, Comps
<1>2. NextPart(k) \in Parts
  BY <1>1, NextPartFacts
<1>3. ino[comp[k].cur] \in Contents
  BY <1>1 DEF FullType, FileType
<1>4. /\ b \in Seq(Contents) /\ Len(b) = Len(comp[k].body) + 1
      /\ Len(comp[k].body) \in Nat /\ Len(comp[k].parts) \in Nat
  BY <1>1, <1>3 DEF Comps, Lists
<1>5. comp' = [comp EXCEPT ![k] = c]
  BY DEF ReaderEnds
<1> HIDE DEF b
<1>6. c \in Comps
  BY <1>1, <1>4 DEF Comps
<1>7. /\ c.pc = "drop" /\ c.parts = comp[k].parts /\ c.body = b
      /\ c.doubt = comp[k].doubt /\ c.cur = None
  BY <1>1 DEF Comps
<1> HIDE DEF c
<1>9. Len(c.body) <= Len(c.parts) /\ Len(c.body) > 0
  <2>1. Len(b) <= Len(comp[k].parts) /\ Len(b) > 0
    BY <1>1, <1>4
  <2> QED BY <2>1, <1>7
<1>8. CompType' /\ comp'[k] = c /\ \A j \in Completers \ {k} : comp'[j] = comp[j]
  BY <1>1, <1>5, <1>6, <1>7, <1>9, CompMoves
<1>0. comp[k].pc = "stream"
  BY DEF ReaderEnds
<1> QED BY <1>0, <1>2, <1>7, <1>8 DEF b

LEMMA PartDeletedFacts ==
  ASSUME FullType, NEW k \in Completers, PartDeleted(k)
  PROVE  LET p == comp[k].parts[Len(comp[k].body)].part IN
         /\ CompType' /\ p \in Parts
         /\ comp[k].pc = "drop" /\ comp'[k].pc = "stream" /\ comp'[k].parts = comp[k].parts
         /\ comp'[k].body = comp[k].body /\ comp'[k].doubt = comp[k].doubt
         /\ comp'[k].cur = comp[k].cur
         /\ \A j \in Completers \ {k} : comp'[j] = comp[j]
<1> DEFINE c == [comp[k] EXCEPT !.pc = "stream"]
           n == Len(comp[k].body)
<1>1. /\ CompType /\ comp[k] \in Comps /\ comp[k].pc = "drop"
      /\ n <= Len(comp[k].parts) /\ n > 0
      /\ comp[k].cur # None => n < Len(comp[k].parts)
  BY DEF FullType, CompType, PartDeleted
<1>2. comp[k].parts[n].part \in Parts
  <2>1. /\ n \in Nat /\ Len(comp[k].parts) \in Nat
        /\ \A i \in 1..Len(comp[k].parts) : comp[k].parts[i].part \in Parts
    BY NextPartFacts
  <2>2. n \in 1..Len(comp[k].parts)
    BY <1>1, <2>1
  <2> QED BY <2>1, <2>2
<1>3. c \in Comps
  BY <1>1 DEF Comps
<1>4. /\ c.pc = "stream" /\ c.parts = comp[k].parts /\ c.body = comp[k].body
      /\ c.doubt = comp[k].doubt /\ c.cur = comp[k].cur
  BY <1>1 DEF Comps
<1>5. comp' = [comp EXCEPT ![k] = c]
  BY DEF PartDeleted
<1> HIDE DEF c
<1>6. CompType' /\ comp'[k] = c /\ \A j \in Completers \ {k} : comp'[j] = comp[j]
  BY <1>1, <1>3, <1>4, <1>5, CompMoves
<1> QED BY <1>1, <1>2, <1>4, <1>6

LEMMA CompEndedFacts ==
  ASSUME CompType, NEW k \in Completers, comp' = [comp EXCEPT ![k] = Ended]
  PROVE  CompType' /\ comp'[k] = Ended /\ \A j \in Completers \ {k} : comp'[j] = comp[j]
<1>1. /\ Ended \in Comps /\ Ended.cur = None /\ Len(Ended.body) <= Len(Ended.parts)
      /\ Ended.pc # "drop"
  BY NothingType
<1> QED BY <1>1, CompMoves

\* A completion begins to read: its list has the requested entries.
LEMMA CompleteBeginsFacts ==
  ASSUME FullType, NEW k \in Completers, NEW r \in Requests, CompleteBegins(k, r)
  PROVE  /\ CompType' /\ session = "known"
         /\ \A j \in Completers \ {k} : comp'[j] = comp[j]
         /\ \/ /\ Verified(r)
               /\ comp'[k].body = <<>> /\ comp'[k].cur = None
               /\ \A i \in DOMAIN comp'[k].parts : \E j \in DOMAIN r : comp'[k].parts[i] = r[j]
               /\ comp'[k].doubt = doubt \union {p \in Parts : Under(p) # {}}
            \/ comp'[k] = Ended
<1>0. CompType
  BY DEF FullType
<1>1. \/ /\ Verified(r)
         /\ \E s \in Sorted(r) :
              comp' = [comp EXCEPT ![k] =
                         [pc |-> "stream", parts |-> s, body |-> <<>>, cur |-> None,
                          doubt |-> doubt \union {p \in Parts : Under(p) # {}}]]
      \/ comp' = [comp EXCEPT ![k] = Ended]
  BY DEF CompleteBegins
<1>2. session = "known"
  BY DEF CompleteBegins
<1> DEFINE d == doubt \union {p \in Parts : Under(p) # {}}
<1>3. ASSUME Verified(r), NEW s \in Sorted(r),
             comp' = [comp EXCEPT ![k] = [pc |-> "stream", parts |-> s, body |-> <<>>,
                                          cur |-> None, doubt |-> d]]
      PROVE  /\ CompType'
             /\ \A j \in Completers \ {k} : comp'[j] = comp[j]
             /\ comp'[k].body = <<>> /\ comp'[k].cur = None
             /\ \A i \in DOMAIN comp'[k].parts : \E j \in DOMAIN r : comp'[k].parts[i] = r[j]
             /\ comp'[k].doubt = d
  <2> DEFINE c == [pc |-> "stream", parts |-> s, body |-> <<>>, cur |-> None, doubt |-> d]
  <2>2. s \in Lists /\ \A i \in DOMAIN s : \E j \in DOMAIN r : s[i] = r[j]
    BY SortedType
  <2>3. d \in SUBSET Parts /\ <<>> \in Seq(Contents) /\ Len(<<>>) = 0
    BY DEF FullType, FlagType
  <2>4. Len(s) \in Nat
    BY <2>2 DEF Lists
  <2> HIDE DEF d
  <2>5. c \in Comps
    BY <2>2, <2>3 DEF Comps
  <2>6. comp' = [comp EXCEPT ![k] = c]
    BY <1>3
  <2>7. c.pc # "drop" /\ c.parts = s /\ c.body = <<>> /\ c.cur = None /\ c.doubt = d
    OBVIOUS
  <2> HIDE DEF c
  <2>9. Len(c.body) <= Len(c.parts)
    BY <2>3, <2>4, <2>7
  <2>8. CompType' /\ comp'[k] = c /\ \A j \in Completers \ {k} : comp'[j] = comp[j]
    BY <1>0, <2>5, <2>6, <2>7, <2>9, CompMoves
  <2> QED BY <2>2, <2>7, <2>8
<1>4. ASSUME comp' = [comp EXCEPT ![k] = Ended]
      PROVE  CompType' /\ comp'[k] = Ended /\ \A j \in Completers \ {k} : comp'[j] = comp[j]
  BY <1>0, <1>4, CompEndedFacts
<1> QED
  <2>1. CASE comp' = [comp EXCEPT ![k] = Ended]
    BY <1>2, <1>4, <2>1
  <2>2. CASE /\ Verified(r)
             /\ \E s \in Sorted(r) :
                  comp' = [comp EXCEPT ![k] = [pc |-> "stream", parts |-> s, body |-> <<>>,
                                               cur |-> None, doubt |-> d]]
    BY <1>2, <1>3, <2>2
  <2> QED BY <1>1, <2>1, <2>2

\* Work on a session is work on one that a client knows.
LEMMA KnownFacts ==
  ASSUME FullType
  PROVE  /\ json \/ removing => session = "known"
         /\ \A u \in Uploads : InFlight(u) => session = "known"
         /\ \A k \in Completers : comp[k].pc \in {"stream", "drop", "committed"} => session = "known"
BY DEF FullType, FlagType, SessionInv

\* Nothing but a session that a client knows is emptied.
LEMMA EmptySessionFacts ==
  ASSUME FullType, session = "known", EmptySession
  PROVE  /\ FlagType' /\ FileType' /\ SessionInv' /\ UpType'
         /\ tmp' = Nothing /\ data' = Nothing /\ meta' = Nothing /\ ~json'
         /\ UNCHANGED <<ino, up, doubt>>
<1>1. FlagType' /\ FileType'
  BY NothingType DEF EmptySession, FullType, FlagType, FileType
<1>2. UpType'
  BY DEF EmptySession, FullType, UpType, InFlight
<1>3. SessionInv'
  BY DEF EmptySession, SessionInv
<1> QED BY <1>1, <1>2, <1>3 DEF EmptySession

LEMMA SessionStepType ==
  ASSUME FullType,
         \/ CreateMultipartUpload \/ CreateAnswered
         \/ AbortMultipartUpload \/ CleanupExpiredMultipartUploads \/ RemoveDir
         \/ DeleteBucket
  PROVE  FullType'
<1> USE DEF FullType
<1>u. UNCHANGED up => UpType'
  BY DEF UpType, InFlight
<1>c. UNCHANGED comp => CompType'
  BY DEF CompType
<1>1. CASE CreateMultipartUpload
  BY <1>1, <1>u, <1>c DEF CreateMultipartUpload, FlagType, FileType, SessionInv, InFlight
<1>2. CASE CreateAnswered
  BY <1>2, <1>u, <1>c DEF CreateAnswered, FlagType, FileType, SessionInv, InFlight
<1>3. CASE AbortMultipartUpload
  BY <1>3, <1>c, EmptySessionFacts DEF AbortMultipartUpload
<1>4. CASE CleanupExpiredMultipartUploads
  <2>1. session = "known"
    BY <1>4, KnownFacts DEF CleanupExpiredMultipartUploads, ListMultipartUploads
  <2> QED BY <1>4, <2>1, <1>c, EmptySessionFacts DEF CleanupExpiredMultipartUploads
<1>5. CASE RemoveDir
  BY <1>5, <1>u, <1>c DEF RemoveDir, FlagType, FileType, SessionInv, InFlight
<1>6. CASE DeleteBucket
  BY <1>6, <1>u, <1>c DEF DeleteBucket, life, files, FlagType, FileType, SessionInv, InFlight
<1> QED BY <1>1, <1>2, <1>3, <1>4, <1>5, <1>6

LEMMA OpenPartType ==
  ASSUME FullType, NEW u \in Uploads, NEW p \in Parts, OpenPart(u, p)
  PROVE  FullType'
<1> DEFINE i == IF tmp[p] = None THEN u ELSE tmp[p]
<1>1. /\ i \in Uploads /\ up' \in [Uploads -> Ups]
      /\ up'[u] = [pc |-> "open", part |-> p, ino |-> i, clean |-> Under(p) = {}]
      /\ \A v \in Uploads \ {u} :
           up'[v].pc = up[v].pc /\ up'[v].part = up[v].part /\ up'[v].ino = up[v].ino
  BY OpenFacts
<1>2. /\ session = "known" /\ dir /\ UNCHANGED <<bucket, life, dir, json, data, meta, acked, leak>>
      /\ tmp' = [tmp EXCEPT ![p] = i] /\ ino' = [ino EXCEPT ![i] = Empty]
      /\ doubt' \in {doubt, doubt \union {p}}
  BY DEF OpenPart
<1>c. CompType'
  BY NotedFacts DEF OpenPart, FullType
<1> HIDE DEF i
<1>3. UpType'
  BY <1>1 DEF FullType, UpType, InFlight
<1>4. FileType'
  BY <1>1, <1>2, FileFacts DEF FullType, FileType, Contents
<1>5. FlagType'
  BY <1>2 DEF FullType, FlagType, life
<1>6. SessionInv'
  BY <1>2 DEF FullType, SessionInv, life
<1> QED BY <1>c, <1>3, <1>4, <1>5, <1>6 DEF FullType

\* The steps of an upload after the first.
UploadStep(u) == CopyPart(u) \/ RenamePart(u) \/ DescribePart(u) \/ UploadFails(u)

LEMMA UploadStepFacts ==
  ASSUME FullType, NEW u \in Uploads, UploadStep(u)
  PROVE  /\ session = "known" /\ InFlight(u) /\ up[u].part \in Parts /\ up[u].ino \in Uploads
         /\ CopyPart(u) => Moves(u, "copied")
         /\ RenamePart(u) => Moves(u, "renamed")
         /\ DescribePart(u) \/ UploadFails(u) => Moves(u, "done")
         /\ UpType'
         /\ UNCHANGED <<bucket, session, crashes, dir, json, comp, object>>
<1>1. UpType
  BY DEF FullType
<1>2. InFlight(u)
  BY DEF UploadStep, CopyPart, RenamePart, DescribePart, UploadFails, InFlight
<1>3. session = "known"
  BY <1>2, KnownFacts
<1>4. up[u].part \in Parts /\ up[u].ino \in Uploads /\ up[u].pc # "new"
  BY <1>1, <1>2 DEF UpType, InFlight
<1>5. /\ CopyPart(u) => Moves(u, "copied")
      /\ RenamePart(u) => Moves(u, "renamed")
      /\ DescribePart(u) \/ UploadFails(u) => Moves(u, "done")
  BY <1>1, MoveFacts DEF CopyPart, RenamePart, DescribePart, UploadFails
<1>6. UpType'
  BY <1>1, <1>2, <1>4, <1>5, MoveType DEF UploadStep
<1>7. UNCHANGED <<bucket, session, crashes, dir, json, comp, object>>
  BY DEF UploadStep, CopyPart, RenamePart, DescribePart, UploadFails, life, files
<1> QED BY <1>2, <1>3, <1>4, <1>5, <1>6, <1>7

LEMMA UploadStepType ==
  ASSUME FullType, NEW u \in Uploads, UploadStep(u)
  PROVE  FullType'
<1> DEFINE p == up[u].part
           i == up[u].ino
<1>1. /\ session = "known" /\ p \in Parts /\ i \in Uploads /\ UpType'
      /\ UNCHANGED <<bucket, session, crashes, dir, json, comp, object>>
      /\ dir \/ (tmp = Nothing /\ data = Nothing /\ meta = Nothing)
      /\ tmp \in Files /\ data \in Files /\ meta \in Files /\ acked = meta
      /\ ino \in [Uploads -> Contents]
  BY UploadStepFacts DEF FullType, FileType, SessionInv
<1>2. CompType'
  BY <1>1 DEF FullType, CompType
<1>3. FlagType'
  BY <1>1 DEF FullType, FlagType, UploadStep, CopyPart, RenamePart, DescribePart, UploadFails, life
<1>4. FileType'
  <2>1. CASE CopyPart(u)
    <3>1. PICK c \in {u, Mixed} \union ({ino[i]} \ {Empty}) : ino' = [ino EXCEPT ![i] = c]
      BY <2>1 DEF CopyPart
    <3>2. c \in Contents
      BY <1>1, <3>1 DEF Contents
    <3>3. ino' \in [Uploads -> Contents]
      BY <1>1, <3>1, <3>2
    <3> QED BY <2>1, <1>1, <3>3 DEF CopyPart, FileType, files
  <2>2. CASE RenamePart(u)
    <3>1. tmp[p] \in Uploads \union {None}
      BY <1>1 DEF Files
    <3> QED BY <2>2, <1>1, <3>1, FileFacts DEF RenamePart, FileType
  <2>3. CASE DescribePart(u)
    BY <2>3, <1>1, FileFacts DEF DescribePart, FileType
  <2>4. CASE UploadFails(u)
    BY <2>4, <1>1, FileFacts DEF UploadFails, FileType
  <2> QED BY <2>1, <2>2, <2>3, <2>4 DEF UploadStep
<1>5. SessionInv'
  <2>1. ~dir => tmp' = Nothing /\ data' = Nothing /\ meta' = Nothing
    <3> SUFFICES ASSUME ~dir PROVE tmp' = Nothing /\ data' = Nothing /\ meta' = Nothing
      OBVIOUS
    <3>1. tmp = Nothing /\ data = Nothing /\ meta = Nothing /\ tmp[p] = None
      BY <1>1 DEF Nothing
    <3> QED BY <1>1, <3>1, FileFacts DEF UploadStep, CopyPart, RenamePart, DescribePart, UploadFails, files
  <2>2. UNCHANGED removing
    BY DEF UploadStep, CopyPart, RenamePart, DescribePart, UploadFails, life
  <2> QED BY <1>1, <2>1, <2>2 DEF FullType, SessionInv
<1> QED BY <1>1, <1>2, <1>3, <1>4, <1>5 DEF FullType

LEMMA ReaderEndsType ==
  ASSUME FullType, NEW k \in Completers, ReaderEnds(k)
  PROVE  FullType'
<1> DEFINE p == NextPart(k)
           us == Under(p)
<1>1. /\ UpType /\ p \in Parts /\ us \in SUBSET Uploads /\ CompType' /\ session = "known"
      /\ up' = Disturbed(us)
      /\ UNCHANGED <<bucket, life, dir, json, tmp, meta, ino, object, acked, leak>>
      /\ data' = [data EXCEPT ![p] = None]
      /\ doubt' = doubt \union {p}
  BY ReaderEndsFacts, KnownFacts DEF ReaderEnds, Under, FullType
<1>2. dir \/ (data = Nothing /\ meta = Nothing)
  BY DEF FullType, SessionInv
<1> HIDE DEF us, p
<1>3. UpType'
  <2>1. /\ up' \in [Uploads -> Ups]
        /\ \A v \in Uploads : up'[v].pc = up[v].pc /\ up'[v].part = up[v].part
                              /\ up'[v].ino = up[v].ino
    BY <1>1, DisturbedFacts
  <2> QED BY <1>1, <2>1 DEF UpType, InFlight
<1>4. FileType'
  BY <1>1, FileFacts DEF FullType, FileType
<1>5. FlagType'
  BY <1>1 DEF FullType, FlagType, life
<1>6. SessionInv'
  BY <1>1, <1>2, FileFacts DEF FullType, SessionInv, life
<1> QED BY <1>1, <1>3, <1>4, <1>5, <1>6 DEF FullType

LEMMA PartDeletedType ==
  ASSUME FullType, NEW k \in Completers, PartDeleted(k)
  PROVE  FullType'
<1> DEFINE p == comp[k].parts[Len(comp[k].body)].part
<1>1. /\ p \in Parts /\ CompType' /\ session = "known"
      /\ UNCHANGED <<bucket, life, dir, json, tmp, data, ino, up, object, doubt, leak>>
      /\ meta' = [meta EXCEPT ![p] = None] /\ acked' = [acked EXCEPT ![p] = None]
  BY PartDeletedFacts, KnownFacts DEF PartDeleted
<1>2. dir \/ meta = Nothing
  BY DEF FullType, SessionInv
<1> HIDE DEF p
<1>3. UpType'
  BY <1>1 DEF FullType, UpType, InFlight
<1>4. FileType'
  BY <1>1, FileFacts DEF FullType, FileType
<1>5. FlagType'
  BY <1>1 DEF FullType, FlagType, life
<1>6. SessionInv'
  BY <1>1, <1>2, FileFacts DEF FullType, SessionInv, life
<1> QED BY <1>1, <1>3, <1>4, <1>5, <1>6 DEF FullType

LEMMA CommitFacts ==
  ASSUME FullType, NEW k \in Completers, Commit(k)
  PROVE  /\ CompType'
         /\ comp'[k].pc = "committed" /\ comp'[k].parts = comp[k].parts
         /\ comp'[k].body = comp[k].body /\ comp'[k].cur = comp[k].cur
         /\ \A j \in Completers \ {k} : comp'[j] = comp[j]
<1> DEFINE c == [comp[k] EXCEPT !.pc = "committed"]
<1>1. CompType /\ comp[k] \in Comps
  BY DEF FullType, CompType
<1>2. c \in Comps
  BY <1>1 DEF Comps
<1>3. c.parts = comp[k].parts /\ c.body = comp[k].body /\ c.cur = comp[k].cur /\ c.pc = "committed"
  BY <1>1 DEF Comps
<1>4. comp' = [comp EXCEPT ![k] = c]
  BY DEF Commit
<1> HIDE DEF c
<1>5. Len(c.body) <= Len(c.parts) /\ (c.cur # None => Len(c.body) < Len(c.parts))
  BY <1>1, <1>3 DEF CompType
<1>6. CompType' /\ comp'[k] = c /\ \A j \in Completers \ {k} : comp'[j] = comp[j]
  BY <1>1, <1>2, <1>3, <1>4, <1>5, CompMoves
<1> QED BY <1>3, <1>6

LEMMA CompleteStepType ==
  ASSUME FullType, NEW k \in Completers,
         \/ \E r \in Requests : CompleteBegins(k, r)
         \/ ReaderOpens(k) \/ ReaderEnds(k) \/ PartDeleted(k)
         \/ Commit(k) \/ CompleteEnds(k) \/ CompleteFails(k)
  PROVE  FullType'
<1>t. FlagType /\ FileType /\ UpType /\ CompType /\ SessionInv
  BY DEF FullType
<1>k. comp[k].pc \in {"stream", "drop", "committed"} => session = "known"
  BY KnownFacts
\* Most steps touch nothing but the completions.
<1>q. ASSUME CompType', session = "known",
             UNCHANGED <<life, files, ino, up, object, acked, doubt, leak>>,
             bucket' \in BOOLEAN
      PROVE  FullType'
  BY <1>t, <1>q DEF FullType, FlagType, FileType, UpType, InFlight, SessionInv, life, files
<1>1. CASE \E r \in Requests : CompleteBegins(k, r)
  <2>1. PICK r \in Requests : CompleteBegins(k, r)
    BY <1>1
  <2>2. CompType' /\ session = "known"
    BY <2>1, CompleteBeginsFacts
  <2>3. UNCHANGED <<life, files, ino, up, object, acked, doubt, leak>> /\ bucket' \in BOOLEAN
    BY <2>1, <1>t DEF CompleteBegins, FlagType
  <2> QED BY <2>2, <2>3, <1>q
<1>2. CASE ReaderOpens(k)
  <2>1. CompType'
    BY <1>2, ReaderOpensFacts
  <2> QED BY <1>2, <2>1, <1>k, <1>q, <1>t DEF ReaderOpens, FlagType
<1>3. CASE ReaderEnds(k)
  BY <1>3, ReaderEndsType
<1>7. CASE PartDeleted(k)
  BY <1>7, PartDeletedType
<1>4. CASE Commit(k)
  <2>1. CompType'
    BY <1>4, CommitFacts
  <2>2. /\ UNCHANGED <<life, files, ino, up, acked, doubt, leak>> /\ bucket' \in BOOLEAN
        /\ session = "known"
    BY <1>4, <1>k DEF Commit
  <2> QED BY <2>1, <2>2, <1>t DEF FullType, FlagType, FileType, UpType, InFlight, SessionInv, life, files
<1>5. CASE CompleteEnds(k)
  <2>1. CompType' /\ session = "known"
    BY <1>5, <1>t, <1>k, CompEndedFacts DEF CompleteEnds
  <2>2. CASE dir /\ ~removing
    <3>1. EmptySession
      BY <1>5, <2>2 DEF CompleteEnds
    <3> QED BY <2>1, <3>1, EmptySessionFacts DEF FullType
  <2>3. CASE ~(dir /\ ~removing)
    <3>1. UNCHANGED <<bucket, life, files, ino, up, object, acked, doubt, leak>>
      BY <1>5, <2>3 DEF CompleteEnds
    <3> QED BY <2>1, <3>1, <1>q, <1>t DEF FlagType
  <2> QED BY <2>2, <2>3
<1>6. CASE CompleteFails(k)
  <2>1. CompType'
    BY <1>6, <1>t, CompEndedFacts DEF CompleteFails
  <2> QED BY <1>6, <2>1, <1>k, <1>q, <1>t DEF CompleteFails, Reading, FlagType
<1> QED BY <1>1, <1>2, <1>3, <1>4, <1>5, <1>6, <1>7

\* After a crash no upload has an inode and no completion reads.
LEMMA CrashFacts ==
  ASSUME FullType, Crash
  PROVE  /\ UpType' /\ CompType'
         /\ \A u \in Uploads : /\ up'[u].ino = None /\ up'[u].part = up[u].part
                               /\ up'[u].pc = "new" <=> up[u].pc = "new"
                               /\ up'[u].pc \in {"new", "done"}
         /\ \A k \in Completers : comp'[k].pc \in {"new", "done"} /\ (comp'[k].cur # None => comp'[k] = comp[k])
<1>1. \A u \in Uploads : /\ up[u] \in Ups
                         /\ up[u].pc # "new" => up[u].part \in Parts
                         /\ up[u].pc = "new" => up[u].ino = None
  BY DEF FullType, UpType
<1>2. up' = [u \in Uploads |-> IF up[u].pc = "new" THEN up[u]
                               ELSE [up[u] EXCEPT !.pc = "done", !.ino = None]]
  BY DEF Crash
<1>3. ASSUME NEW u \in Uploads
      PROVE  /\ up'[u] \in Ups /\ up'[u].ino = None /\ up'[u].part = up[u].part
             /\ up'[u].pc = "new" <=> up[u].pc = "new"
             /\ up'[u].pc \in {"new", "done"}
  <2>1. CASE up[u].pc = "new"
    BY <1>1, <1>2, <2>1
  <2>2. CASE up[u].pc # "new"
    BY <1>1, <1>2, <2>2 DEF Ups
  <2> QED BY <2>1, <2>2
<1>4. up' \in [Uploads -> Ups]
  BY <1>2, <1>3
<1>5. UpType'
  BY <1>1, <1>3, <1>4 DEF UpType, InFlight
<1>6. comp' = [k \in Completers |-> IF comp[k].pc = "new" THEN comp[k] ELSE Ended]
  BY DEF Crash
<1>7. ASSUME NEW k \in Completers
      PROVE  /\ comp'[k] \in Comps /\ comp'[k].pc \in {"new", "done"}
             /\ comp'[k].cur # None => comp'[k] = comp[k]
             /\ Len(comp'[k].body) <= Len(comp'[k].parts)
             /\ comp'[k].cur # None => Len(comp'[k].body) < Len(comp'[k].parts)
             /\ comp'[k].pc # "drop"
  <2>1. /\ comp[k] \in Comps /\ Len(comp[k].body) <= Len(comp[k].parts)
        /\ comp[k].cur # None => Len(comp[k].body) < Len(comp[k].parts)
    BY DEF FullType, CompType
  <2>2. CASE comp'[k] = comp[k] /\ comp[k].pc = "new"
    BY <2>1, <2>2
  <2>3. CASE comp'[k] = Ended
    BY <2>3, NothingType
  <2> QED BY <1>6, <2>2, <2>3
<1>8. comp' \in [Completers -> Comps]
  BY <1>6, <1>7
<1>9. CompType'
  BY <1>7, <1>8 DEF CompType
<1> QED BY <1>3, <1>5, <1>7, <1>9

LEMMA CrashesNat == MaxCrashes \in Nat
BY Zenon, MultipartAssumption

LEMMA CrashType ==
  ASSUME FullType, Crash
  PROVE  FullType'
<1>1. UpType' /\ CompType'
  BY CrashFacts
<1>2. FileType'
  BY DEF Crash, files, FullType, FileType
<1>3. FlagType'
  <2>0. crashes \in 0..MaxCrashes /\ crashes < MaxCrashes /\ crashes' = crashes + 1
    BY DEF Crash, FullType, FlagType
  <2>1. crashes \in Nat /\ MaxCrashes \in Nat /\ crashes' \in Nat /\ crashes' <= MaxCrashes
    BY <2>0, CrashesNat
  <2>2. crashes' \in 0..MaxCrashes
    BY <2>1
  <2>3. doubt' \subseteq Parts
    BY DEF Crash, FullType, FlagType
  <2> QED BY <2>2, <2>3 DEF Crash, FullType, FlagType, files
<1>4. SessionInv'
  <2>1. \A u \in Uploads : ~InFlight(u)'
    BY CrashFacts DEF InFlight
  <2>2. \A k \in Completers : comp'[k].pc \notin {"stream", "drop", "committed"}
    BY CrashFacts
  <2> QED BY <2>1, <2>2 DEF Crash, FullType, SessionInv, files
<1> QED BY <1>1, <1>2, <1>3, <1>4 DEF FullType

LEMMA TypeInit == Init => FullType
<1> SUFFICES ASSUME Init PROVE FullType
  OBVIOUS
<1>1. FlagType
  <2>1. 0 \in 0..MaxCrashes
    BY CrashesNat
  <2> QED BY <2>1 DEF Init, FlagType
<1>2. FileType
  BY NothingType DEF Init, FileType, Contents
<1>3. UpType
  BY DEF Init, UpType, Ups, InFlight
<1>4. CompType
  <2>1. comp = [k \in Completers |-> Waiting]
    BY DEF Init
  <2>2. /\ Waiting \in Comps /\ Waiting.cur = None /\ Len(Waiting.body) <= Len(Waiting.parts)
        /\ Waiting.pc = "new"
    BY NothingType
  <2> HIDE DEF Waiting
  <2> QED BY <2>1, <2>2 DEF CompType
<1>5. SessionInv
  BY NothingType DEF Init, SessionInv, InFlight
<1> QED BY <1>1, <1>2, <1>3, <1>4, <1>5 DEF FullType

LEMMA TypeStep == FullType /\ [Next]_vars => FullType'
<1> SUFFICES ASSUME FullType, [Next]_vars PROVE FullType'
  OBVIOUS
<1>1. CASE UNCHANGED vars
  BY <1>1 DEF vars, FullType, FlagType, FileType, UpType, CompType, SessionInv, InFlight
<1>2. CASE CreateMultipartUpload \/ CreateAnswered \/ AbortMultipartUpload
           \/ CleanupExpiredMultipartUploads \/ RemoveDir \/ DeleteBucket
  BY <1>2, SessionStepType
<1>3. ASSUME NEW u \in Uploads, NEW p \in Parts, OpenPart(u, p) PROVE FullType'
  BY <1>3, OpenPartType
<1>4. ASSUME NEW u \in Uploads, UploadStep(u) PROVE FullType'
  BY <1>4, UploadStepType
<1>5. ASSUME NEW k \in Completers,
             \/ \E r \in Requests : CompleteBegins(k, r)
             \/ ReaderOpens(k) \/ ReaderEnds(k) \/ PartDeleted(k)
             \/ Commit(k) \/ CompleteEnds(k) \/ CompleteFails(k)
      PROVE  FullType'
  BY <1>5, CompleteStepType
<1>6. CASE Crash
  BY <1>6, CrashType
<1> QED BY <1>1, <1>2, <1>3, <1>4, <1>5, <1>6 DEF Next, UploadStep

LEMMA TypeInvariant == Spec => []FullType
BY TypeInit, TypeStep, PTL DEF Spec

\* Flags, files, inodes, uploads and completions have their types in every
\* reachable state, and no file outlives the session directory it is in: uploads
\* that write after the session was removed find no directory (TypeOK).
THEOREM MultipartTypeCorrect == Spec => []TypeOK
BY TypeInvariant, TypesSuffice, PTL

----------------------------------------------------------------------------
(* Inodes belong to one part.                                              *)

\* A step that touches neither uploads nor inodes: the files stay, but for an
\* ETag, or all go.
Quiet ==
  /\ UNCHANGED <<ino, up, doubt>>
  /\ \/ /\ UNCHANGED <<tmp, data>> /\ (json' => json \/ session # "known")
        /\ \A p \in Parts : meta'[p] \in {meta[p], None}
     \/ tmp' = Nothing /\ data' = Nothing /\ meta' = Nothing /\ ~json'

LEMMA QuietSteps ==
  ASSUME FullType, [Next]_vars
  PROVE  \/ Quiet
         \/ \E u \in Uploads, p \in Parts : OpenPart(u, p)
         \/ \E u \in Uploads : UploadStep(u)
         \/ \E k \in Completers : ReaderEnds(k)
         \/ Crash
<1>1. CASE UNCHANGED vars
  BY <1>1 DEF vars, Quiet
<1>2. CASE CreateMultipartUpload \/ CreateAnswered \/ RemoveDir \/ DeleteBucket
  BY <1>2 DEF CreateMultipartUpload, CreateAnswered, RemoveDir, DeleteBucket, files, Quiet
<1>3. CASE AbortMultipartUpload \/ CleanupExpiredMultipartUploads
  BY <1>3 DEF AbortMultipartUpload, CleanupExpiredMultipartUploads, EmptySession, Quiet
<1>4. ASSUME NEW k \in Completers, NEW r \in Requests, CompleteBegins(k, r)
      PROVE  Quiet
  BY <1>4 DEF CompleteBegins, files, Quiet
<1>5. ASSUME NEW k \in Completers, ReaderOpens(k) \/ Commit(k) \/ CompleteFails(k)
      PROVE  Quiet
  BY <1>5 DEF ReaderOpens, Commit, CompleteFails, files, Quiet
<1>6. ASSUME NEW k \in Completers, CompleteEnds(k)
      PROVE  Quiet
  <2>1. EmptySession \/ UNCHANGED <<bucket, life, files, ino, up, object, acked, doubt, leak>>
    BY <1>6 DEF CompleteEnds
  <2> QED BY <2>1 DEF EmptySession, files, Quiet
<1>7. ASSUME NEW k \in Completers, PartDeleted(k)
      PROVE  Quiet
  <2>1. \A p \in Parts : meta'[p] \in {meta[p], None}
    BY <1>7, PartDeletedFacts, FileFacts DEF PartDeleted, FullType, FileType, Files
  <2> QED BY <1>7, <2>1 DEF PartDeleted, Quiet
<1> QED BY <1>1, <1>2, <1>3, <1>4, <1>5, <1>6, <1>7 DEF Next, UploadStep

\* An upload keeps its part, and its inode until a crash.
LEMMA UploadsKeep ==
  ASSUME FullType, [Next]_vars, NEW u \in Uploads, up[u].pc # "new"
  PROVE  up'[u].pc # "new" /\ up'[u].part = up[u].part /\ up'[u].ino \in {up[u].ino, None}
<1>1. CASE Quiet
  BY <1>1 DEF Quiet
<1>2. ASSUME NEW v \in Uploads, NEW p \in Parts, OpenPart(v, p)
      PROVE  up'[u].pc # "new" /\ up'[u].part = up[u].part /\ up'[u].ino = up[u].ino
  BY <1>2, OpenFacts
<1>3. ASSUME NEW v \in Uploads, UploadStep(v)
      PROVE  up'[u].pc # "new" /\ up'[u].part = up[u].part /\ up'[u].ino = up[u].ino
  BY <1>3, UploadStepFacts DEF UploadStep, Moves
<1>4. ASSUME NEW k \in Completers, ReaderEnds(k)
      PROVE  up'[u].pc # "new" /\ up'[u].part = up[u].part /\ up'[u].ino = up[u].ino
  <2> DEFINE us == Under(NextPart(k))
  <2>1. up' = Disturbed(us) /\ UpType /\ us \in SUBSET Uploads
    BY <1>4 DEF ReaderEnds, FullType, Under
  <2> HIDE DEF us
  <2> QED BY <2>1, DisturbedFacts
<1>5. CASE Crash
  BY <1>5, CrashFacts
<1> QED BY <1>1, <1>2, <1>3, <1>4, <1>5, QuietSteps

\* Made after the step.
MadeNext(i, p) == up'[i].pc # "new" /\ up'[i].part = p

LEMMA MadeStays ==
  ASSUME FullType, [Next]_vars, NEW i \in Uploads, NEW p, Made(i, p)
  PROVE  MadeNext(i, p)
BY UploadsKeep DEF Made, MadeNext

\* The uploads under a part, step by step.
LEMMA UnderFacts ==
  ASSUME FullType
  PROVE  /\ \A p : Under(p) \in SUBSET Uploads
         /\ \A p : \A u \in Uploads : u \in Under(p) <=> up[u].part = p /\ InFlight(u)
         /\ UNCHANGED up => \A p : Under(p)' = Under(p) /\ Renamed(p)' = Renamed(p)
         /\ \A u \in Uploads : \A q \in Parts : OpenPart(u, q) =>
              /\ Under(q)' = Under(q) \union {u}
              /\ \A p \in Parts \ {q} : Under(p)' = Under(p) /\ Renamed(p)' = Renamed(p)
         /\ \A u \in Uploads : CopyPart(u) =>
              \A p : Under(p)' = Under(p) /\ Renamed(p)' = Renamed(p)
         /\ \A u \in Uploads : RenamePart(u) =>
              /\ \A p : Under(p)' = Under(p)
              /\ Renamed(up[u].part)'
              /\ \A p \in Parts \ {up[u].part} : Renamed(p)' = Renamed(p)
         /\ \A u \in Uploads : DescribePart(u) \/ UploadFails(u) =>
              /\ Under(up[u].part)' = Under(up[u].part) \ {u}
              /\ up[u].pc # "renamed" => Renamed(up[u].part)' = Renamed(up[u].part)
              /\ \A p \in Parts \ {up[u].part} : Under(p)' = Under(p) /\ Renamed(p)' = Renamed(p)
         /\ \A k \in Completers : ReaderEnds(k) =>
              \A p : Under(p)' = Under(p) /\ Renamed(p)' = Renamed(p)
         /\ Crash => \A p : Under(p)' = {}
<1>1. /\ \A p : Under(p) \in SUBSET Uploads
      /\ \A p : \A u \in Uploads : u \in Under(p) <=> up[u].part = p /\ InFlight(u)
  BY DEF Under, InFlight
<1>2. UNCHANGED up => \A p : Under(p)' = Under(p) /\ Renamed(p)' = Renamed(p)
  BY DEF Under, Renamed
<1>3. ASSUME NEW u \in Uploads, NEW q \in Parts, OpenPart(u, q)
      PROVE  /\ Under(q)' = Under(q) \union {u}
             /\ \A p \in Parts \ {q} : Under(p)' = Under(p) /\ Renamed(p)' = Renamed(p)
  <2>1. /\ up[u].pc = "new" /\ up'[u].pc = "open" /\ up'[u].part = q
        /\ \A v \in Uploads \ {u} : up'[v].pc = up[v].pc /\ up'[v].part = up[v].part
    <3> DEFINE i == IF tmp[q] = None THEN u ELSE tmp[q]
    <3>1. /\ up'[u] = [pc |-> "open", part |-> q, ino |-> i, clean |-> Under(q) = {}]
          /\ up[u].pc = "new"
          /\ \A v \in Uploads \ {u} : up'[v].pc = up[v].pc /\ up'[v].part = up[v].part
      BY <1>3, OpenFacts
    <3> HIDE DEF i
    <3> QED BY <3>1
  <2>2. Under(q)' = Under(q) \union {u}
    <3>1. \A v \in Uploads : v \in Under(q)' <=> v \in Under(q) \/ v = u
      BY <2>1 DEF Under
    <3> QED BY <3>1 DEF Under
  <2>3. \A p \in Parts \ {q} : Under(p)' = Under(p)
    BY <2>1 DEF Under
  <2>4. \A p \in Parts \ {q} : Renamed(p)' = Renamed(p)
    BY <2>1, <2>3 DEF Under, Renamed
  <2> QED BY <2>2, <2>3, <2>4
<1>4. ASSUME NEW u \in Uploads, CopyPart(u)
      PROVE  \A p : Under(p)' = Under(p) /\ Renamed(p)' = Renamed(p)
  <2>1. Moves(u, "copied") /\ up[u].pc = "open"
    BY <1>4, UploadStepFacts DEF CopyPart, UploadStep
  <2>2. \A v \in Uploads : /\ up'[v].part = up[v].part
                           /\ up'[v].pc \in {"open", "copied", "renamed"} <=>
                                up[v].pc \in {"open", "copied", "renamed"}
                           /\ up'[v].pc = "renamed" <=> up[v].pc = "renamed"
    BY <2>1 DEF Moves
  <2> QED BY <2>2 DEF Under, Renamed
<1>5. ASSUME NEW u \in Uploads, RenamePart(u)
      PROVE  /\ \A p : Under(p)' = Under(p)
             /\ Renamed(up[u].part)'
             /\ \A p \in Parts \ {up[u].part} : Renamed(p)' = Renamed(p)
  <2>1. Moves(u, "renamed") /\ up[u].pc = "copied"
    BY <1>5, UploadStepFacts DEF RenamePart, UploadStep
  <2>2. \A v \in Uploads : /\ up'[v].part = up[v].part
                           /\ up'[v].pc \in {"open", "copied", "renamed"} <=>
                                up[v].pc \in {"open", "copied", "renamed"}
    BY <2>1 DEF Moves
  <2>3. /\ up'[u].pc = "renamed"
        /\ \A v \in Uploads \ {u} : up'[v].pc = "renamed" <=> up[v].pc = "renamed"
    BY <2>1 DEF Moves
  <2> QED BY <2>2, <2>3 DEF Under, Renamed
<1>6. ASSUME NEW u \in Uploads, DescribePart(u) \/ UploadFails(u)
      PROVE  /\ Under(up[u].part)' = Under(up[u].part) \ {u}
             /\ up[u].pc # "renamed" => Renamed(up[u].part)' = Renamed(up[u].part)
             /\ \A p \in Parts \ {up[u].part} : Under(p)' = Under(p) /\ Renamed(p)' = Renamed(p)
  <2>1. Moves(u, "done")
    BY <1>6, UploadStepFacts DEF UploadStep
  <2>2. /\ up'[u].pc = "done" /\ up'[u].part = up[u].part
        /\ \A v \in Uploads \ {u} : up'[v] = up[v]
    BY <2>1 DEF Moves
  <2>3. Under(up[u].part)' = Under(up[u].part) \ {u}
    BY <2>2 DEF Under
  <2>4. \A p \in Parts \ {up[u].part} : Under(p)' = Under(p)
    BY <2>2 DEF Under
  <2>5. \A p \in Parts \ {up[u].part} : Renamed(p)' = Renamed(p)
    BY <2>2, <2>4 DEF Under, Renamed
  <2>6. up[u].pc # "renamed" => Renamed(up[u].part)' = Renamed(up[u].part)
    BY <2>2, <2>3 DEF Renamed, Under
  <2> QED BY <2>3, <2>4, <2>5, <2>6
<1>7. ASSUME NEW k \in Completers, ReaderEnds(k)
      PROVE  \A p : Under(p)' = Under(p) /\ Renamed(p)' = Renamed(p)
  <2> DEFINE us == Under(NextPart(k))
  <2>1. up' = Disturbed(us) /\ UpType /\ us \in SUBSET Uploads
    BY <1>1, <1>7 DEF ReaderEnds, FullType
  <2>2. \A v \in Uploads : up'[v].part = up[v].part /\ up'[v].pc = up[v].pc
    <3> HIDE DEF us
    <3> QED BY <2>1, DisturbedFacts
  <2> QED BY <2>2 DEF Under, Renamed
<1>8. Crash => \A p : Under(p)' = {}
  BY CrashFacts DEF Under
<1> QED BY <1>1, <1>2, <1>3, <1>4, <1>5, <1>6, <1>7, <1>8

LEMMA NoneApart == None \notin Uploads
BY Zenon, MultipartAssumption

\* Types that the following proofs use one by one.
LEMMA FileTypes ==
  ASSUME FullType
  PROVE  /\ tmp \in Files /\ data \in Files /\ meta \in Files /\ acked = meta
         /\ \A p \in Parts : /\ tmp[p] \in Uploads \union {None}
                             /\ data[p] \in Uploads \union {None}
                             /\ meta[p] \in Uploads \union {None}
                             /\ Nothing[p] = None
         /\ ino \in [Uploads -> Contents]
         /\ \A u \in Uploads : up[u].ino \in Uploads \union {None}
         /\ \A u \in Uploads : up[u].clean \in BOOLEAN
         /\ \A u \in Uploads : InFlight(u) =>
              up[u].part \in Parts /\ up[u].ino \in Uploads /\ up[u].pc # "new"
<1>1. \A u \in Uploads : up[u] \in Ups
  BY DEF FullType, UpType
<1>2. \A u \in Uploads : up[u].ino \in Uploads \union {None} /\ up[u].clean \in BOOLEAN
  BY <1>1 DEF Ups
<1> QED BY <1>2 DEF FullType, FileType, UpType, Files, Nothing, InFlight

LEMMA InodeInit == Init => InodeInv
<1> SUFFICES ASSUME Init PROVE InodeInv
  OBVIOUS
<1>1. \A p \in Parts : tmp[p] = None /\ data[p] = None
  BY DEF Init, Nothing
<1>2. \A u \in Uploads : up[u].ino = None
  BY DEF Init
<1> QED BY <1>1, <1>2 DEF InodeInv

LEMMA InodeStep == FullType /\ FullType' /\ InodeInv /\ [Next]_vars => InodeInv'
<1> SUFFICES ASSUME FullType, FullType', InodeInv, [Next]_vars PROVE InodeInv'
  OBVIOUS
<1>m. \A i \in Uploads : \A p : Made(i, p) => MadeNext(i, p)
  BY MadeStays
<1>n. None \notin Uploads
  BY NoneApart
<1>t. /\ \A p \in Parts : tmp[p] \in Uploads \union {None} /\ data[p] \in Uploads \union {None}
      /\ \A u \in Uploads : up[u].ino \in Uploads \union {None}
      /\ tmp \in Files /\ data \in Files
  BY FileTypes
<1>p. \A p \in Parts : /\ tmp[p] # None => Made(tmp[p], p)
                       /\ data[p] # None => Made(data[p], p)
                       /\ tmp[p] # None => tmp[p] # data[p]
                       /\ tmp[p] # None /\ Under(p) = {} =>
                            \A v \in Uploads : up[v].ino # tmp[p]
  BY DEF InodeInv
<1>u. \A u \in Uploads : up[u].ino # None => Made(up[u].ino, up[u].part)
  BY DEF InodeInv
\* What an upload holds stays made for its part.
<1>h. \A u \in Uploads : up[u].pc # "new" /\ up'[u].ino # None =>
        up'[u].ino = up[u].ino /\ MadeNext(up'[u].ino, up'[u].part)
  BY <1>m, <1>t, <1>u, UploadsKeep
<1>e. \A u \in Uploads : up[u].pc = "new" => up[u].ino = None
  BY DEF FullType, UpType
<1>1. CASE Quiet
  <2>1. \A p \in Parts : tmp'[p] \in {tmp[p], None} /\ data'[p] \in {data[p], None}
    BY <1>1 DEF Quiet, Nothing
  <2>2. UNCHANGED up /\ \A p \in Parts : Under(p)' = Under(p)
    BY <1>1, UnderFacts DEF Quiet
  <2>3. \A u \in Uploads : up'[u].ino # None => MadeNext(up'[u].ino, up'[u].part)
    BY <1>h, <1>e, <2>2
  <2>4. \A p \in Parts : /\ tmp'[p] # None => MadeNext(tmp'[p], p)
                         /\ data'[p] # None => MadeNext(data'[p], p)
    BY <2>1, <1>p, <1>m, <1>t
  <2>5. \A p \in Parts : tmp'[p] # None => tmp'[p] # data'[p]
    BY <2>1, <1>p
  <2>6. \A p \in Parts : tmp'[p] # None /\ Under(p)' = {} =>
                           \A v \in Uploads : up'[v].ino # tmp'[p]
    BY <2>1, <2>2, <1>p
  <2> QED BY <2>3, <2>4, <2>5, <2>6 DEF InodeInv, Made, MadeNext
<1>2. ASSUME NEW u \in Uploads, NEW q \in Parts, OpenPart(u, q)
      PROVE  InodeInv'
  <2> DEFINE i == IF tmp[q] = None THEN u ELSE tmp[q]
  <2>1. /\ i \in Uploads /\ up[u].pc = "new"
        /\ up'[u] = [pc |-> "open", part |-> q, ino |-> i, clean |-> Under(q) = {}]
        /\ \A v \in Uploads \ {u} :
             /\ up'[v].pc = up[v].pc /\ up'[v].part = up[v].part /\ up'[v].ino = up[v].ino
    BY <1>2, OpenFacts
  <2>2. tmp' = [tmp EXCEPT ![q] = i] /\ UNCHANGED data
    BY <1>2 DEF OpenPart
  <2>3. data[q] # i
    <3>1. CASE tmp[q] = None
      <4>1. data[q] = None \/ up[data[q]].pc # "new"
        BY <1>p DEF Made
      <4> QED BY <3>1, <4>1, <2>1, <1>n
    <3>2. CASE tmp[q] # None
      BY <3>2, <1>p
    <3> QED BY <3>1, <3>2
  <2>4. i = u \/ Made(i, q)
    BY <1>p
  <2> HIDE DEF i
  <2>5. up'[u].pc = "open" /\ up'[u].part = q /\ up'[u].ino = i
    BY <2>1
  <2>6. MadeNext(i, q)
    BY <2>1, <2>4, <2>5, <1>m DEF Made, MadeNext
  <2>7. tmp'[q] = i /\ \A p \in Parts \ {q} : tmp'[p] = tmp[p]
    BY <2>2, <1>t, <2>1, FileFacts
  <2>8. Under(q)' # {} /\ \A p \in Parts \ {q} : Under(p)' = Under(p)
    BY <1>2, UnderFacts
  <2>9. \A v \in Uploads : up'[v].ino # None => MadeNext(up'[v].ino, up'[v].part)
    BY <2>1, <2>5, <2>6, <1>h, <1>e
  <2>10. \A p \in Parts : /\ tmp'[p] # None => MadeNext(tmp'[p], p)
                          /\ data'[p] # None => MadeNext(data'[p], p)
                          /\ tmp'[p] # None => tmp'[p] # data'[p]
    BY <2>2, <2>3, <2>6, <2>7, <1>p, <1>m, <1>t
  <2>11. ASSUME NEW p \in Parts, tmp'[p] # None, Under(p)' = {}, NEW v \in Uploads
         PROVE  up'[v].ino # tmp'[p]
    <3>1. p # q /\ tmp'[p] = tmp[p] /\ Made(tmp[p], p) /\ \A w \in Uploads : up[w].ino # tmp[p]
      BY <2>7, <2>8, <2>11, <1>p
    <3>2. i # tmp[p]
      BY <3>1, <2>1, <2>4 DEF Made
    <3> QED BY <3>1, <3>2, <2>1, <2>5
  <2> QED BY <2>9, <2>10, <2>11 DEF InodeInv, Made, MadeNext
<1>3. ASSUME NEW u \in Uploads, UploadStep(u)
      PROVE  InodeInv'
  <2> DEFINE q == up[u].part
  <2>1. q \in Parts /\ \A v \in Uploads : up'[v].part = up[v].part /\ up'[v].ino = up[v].ino
    BY <1>3, UploadStepFacts DEF UploadStep, Moves
  <2>2. \A v \in Uploads : up'[v].ino # None => MadeNext(up'[v].ino, up'[v].part)
    BY <2>1, <1>h, <1>e
  <2> HIDE DEF q
  <2>3. CASE CopyPart(u)
    <3>1. UNCHANGED <<tmp, data>> /\ \A p \in Parts : Under(p)' = Under(p)
      BY <2>3, UnderFacts DEF CopyPart, files
    <3> QED BY <3>1, <2>1, <2>2, <1>p, <1>m, <1>t DEF InodeInv, Made, MadeNext
  <2>4. CASE ~CopyPart(u)
    <3>1. /\ tmp' = [tmp EXCEPT ![q] = None]
          /\ data' = data \/ (data' = [data EXCEPT ![q] = tmp[q]] /\ tmp[q] # None)
      BY <1>3, <2>4 DEF UploadStep, RenamePart, DescribePart, UploadFails, q
    <3>2. /\ tmp'[q] = None /\ data'[q] \in {data[q], tmp[q]}
          /\ \A p \in Parts \ {q} : tmp'[p] = tmp[p] /\ data'[p] = data[p]
      BY <3>1, <2>1, <1>t, FileFacts
    <3>3. \A p \in Parts \ {q} : Under(p)' = Under(p)
      BY <1>3, <2>4, UnderFacts DEF UploadStep, q
    <3>4. \A p \in Parts : /\ tmp'[p] # None => MadeNext(tmp'[p], p)
                           /\ data'[p] # None => MadeNext(data'[p], p)
                           /\ tmp'[p] # None => tmp'[p] # data'[p]
      BY <3>2, <1>p, <1>m, <1>t
    <3>5. \A p \in Parts : tmp'[p] # None /\ Under(p)' = {} =>
                             \A v \in Uploads : up'[v].ino # tmp'[p]
      BY <3>2, <3>3, <2>1, <1>p
    <3> QED BY <2>2, <3>4, <3>5 DEF InodeInv, Made, MadeNext
  <2> QED BY <2>3, <2>4
<1>4. ASSUME NEW k \in Completers, ReaderEnds(k)
      PROVE  InodeInv'
  <2> DEFINE q == NextPart(k)
             us == Under(q)
  <2>1. /\ q \in Parts /\ UNCHANGED tmp /\ data' = [data EXCEPT ![q] = None]
        /\ up' = Disturbed(us) /\ us \in SUBSET Uploads /\ UpType
    BY <1>4, ReaderEndsFacts, UnderFacts DEF ReaderEnds, FullType
  <2>2. \A p \in Parts : Under(p)' = Under(p)
    BY <1>4, UnderFacts
  <2> HIDE DEF us, q
  <2>3. \A v \in Uploads : up'[v].part = up[v].part /\ up'[v].ino = up[v].ino
    BY <2>1, DisturbedFacts
  <2>4. \A p \in Parts : tmp'[p] = tmp[p] /\ data'[p] \in {data[p], None}
    BY <2>1, <1>t, FileFacts
  <2>5. \A v \in Uploads : up'[v].ino # None => MadeNext(up'[v].ino, up'[v].part)
    BY <2>3, <1>h, <1>e
  <2>6. \A p \in Parts : /\ tmp'[p] # None => MadeNext(tmp'[p], p)
                         /\ data'[p] # None => MadeNext(data'[p], p)
                         /\ tmp'[p] # None => tmp'[p] # data'[p]
    BY <2>4, <1>p, <1>m, <1>t
  <2>7. \A p \in Parts : tmp'[p] # None /\ Under(p)' = {} =>
                           \A v \in Uploads : up'[v].ino # tmp'[p]
    BY <2>2, <2>3, <2>4, <1>p
  <2> QED BY <2>5, <2>6, <2>7 DEF InodeInv, Made, MadeNext
<1>5. CASE Crash
  <2>1. UNCHANGED <<tmp, data>> /\ \A v \in Uploads : up'[v].ino = None
    BY <1>5, CrashFacts DEF Crash, files
  <2> QED BY <2>1, <1>p, <1>m, <1>t, <1>n DEF InodeInv, Made, MadeNext
<1> QED BY <1>1, <1>2, <1>3, <1>4, <1>5, QuietSteps

----------------------------------------------------------------------------
(* What belongs to an upload that nobody disturbed.                        *)

LEMMA CleanNext ==
  ASSUME NEW w \in Uploads, NEW q, NEW j, up'[w].part = q, up'[w].ino = j,
         Under(q)' = {w},
         \A v \in Uploads \ {w} : up'[v].ino # j,
         tmp'[q] \in {None, j},
         up'[w].pc # "open" => ino'[j] = w,
         up'[w].pc # "renamed" => data'[q] # j,
         up'[w].pc = "renamed" => data'[q] = j \/ (data'[q] = None /\ ~json')
  PROVE  CleanUpload(w)'
<1>1. Under(up[w].part)' = Under(q)'
  BY DEF Under
<1> QED BY <1>1 DEF CleanUpload

LEMMA CleanFacts ==
  ASSUME FullType, UploadInv, NEW w \in Uploads, InFlight(w), up[w].clean
  PROVE  LET q == up[w].part
             j == up[w].ino IN
         /\ q \in Parts /\ j \in Uploads
         /\ Under(q) = {w}
         /\ \A v \in Uploads \ {w} : up[v].ino # j
         /\ tmp[q] \in {None, j}
         /\ up[w].pc # "open" => ino[j] = w
         /\ up[w].pc # "renamed" => data[q] # j
         /\ up[w].pc = "renamed" => data[q] = j \/ (data[q] = None /\ ~json)
BY FileTypes DEF UploadInv, CleanUpload

\* It stays undisturbed in a step that leaves its part and its inode alone.
LEMMA CleanStays ==
  ASSUME FullType, UploadInv, NEW w \in Uploads, InFlight(w), up[w].clean,
         NEW q, NEW j, q = up[w].part, j = up[w].ino,
         up'[w] = up[w], Under(q)' = Under(q),
         tmp'[q] \in {tmp[q], None}, ino'[j] = ino[j], json' => json,
         data'[q] = data[q] \/ (data'[q] = None /\ ~json'),
         \A v \in Uploads \ {w} : up'[v].ino = up[v].ino \/ up'[v].ino # j
  PROVE  CleanUpload(w)'
<1>1. /\ j \in Uploads /\ Under(q) = {w}
      /\ \A v \in Uploads \ {w} : up[v].ino # j
      /\ tmp[q] \in {None, j}
      /\ up[w].pc # "open" => ino[j] = w
      /\ up[w].pc # "renamed" => data[q] # j
      /\ up[w].pc = "renamed" => data[q] = j \/ (data[q] = None /\ ~json)
  BY CleanFacts
<1>2. None # j
  BY <1>1, NoneApart
<1>3. up'[w].part = q /\ up'[w].ino = j /\ up'[w].pc = up[w].pc
  OBVIOUS
<1>4. /\ Under(q)' = {w}
      /\ \A v \in Uploads \ {w} : up'[v].ino # j
      /\ tmp'[q] \in {None, j}
      /\ up'[w].pc # "open" => ino'[j] = w
      /\ up'[w].pc # "renamed" => data'[q] # j
      /\ up'[w].pc = "renamed" => data'[q] = j \/ (data'[q] = None /\ ~json')
  BY <1>1, <1>2, <1>3
<1> QED BY <1>3, <1>4, CleanNext

LEMMA UploadStepInv ==
  FullType /\ FullType' /\ InodeInv /\ UploadInv /\ [Next]_vars => UploadInv'
<1> SUFFICES ASSUME FullType, FullType', InodeInv, UploadInv, [Next]_vars,
                    NEW w \in Uploads, InFlight(w)', NEW q, NEW j,
                    q = up[w].part, j = up[w].ino
             PROVE  IF up'[w].clean THEN CleanUpload(w)' ELSE up'[w].part \in doubt'
  BY DEF UploadInv
<1>n. None \notin Uploads
  BY NoneApart
\* An upload already in flight.
<1>w. InFlight(w) =>
        /\ q \in Parts /\ j \in Uploads /\ Made(j, q) /\ session = "known" /\ up[w].pc # "new"
        /\ ~up[w].clean => q \in doubt
        /\ up[w].clean => Under(q) = {w} /\ \A v \in Uploads \ {w} : up[v].ino # j
        /\ w \in Under(q)
  <2> SUFFICES ASSUME InFlight(w)
               PROVE  /\ q \in Parts /\ j \in Uploads /\ Made(j, q)
                      /\ session = "known" /\ up[w].pc # "new"
                      /\ ~up[w].clean => q \in doubt
                      /\ up[w].clean => Under(q) = {w} /\ \A v \in Uploads \ {w} : up[v].ino # j
                      /\ w \in Under(q)
    OBVIOUS
  <2>1. q \in Parts /\ j \in Uploads /\ up[w].pc # "new"
    BY FileTypes
  <2>2. Made(j, q)
    BY <1>n, <2>1 DEF InodeInv
  <2>3. ~up[w].clean => q \in doubt
    BY DEF UploadInv
  <2>4. up[w].clean => Under(q) = {w} /\ \A v \in Uploads \ {w} : up[v].ino # j
    BY CleanFacts
  <2>5. session = "known"
    BY KnownFacts
  <2>6. w \in Under(q)
    BY UnderFacts
  <2> QED BY <2>1, <2>2, <2>3, <2>4, <2>5, <2>6
<1>j. InFlight(w) => \A p \in Parts \ {q} : tmp[p] # j
  BY <1>w, <1>n DEF InodeInv, Made
<1>1. CASE Quiet
  <2>1. UNCHANGED <<up, ino, doubt>> /\ InFlight(w)
    BY <1>1 DEF Quiet, InFlight
  <2>2. /\ tmp'[q] \in {tmp[q], None} /\ (json' => json)
        /\ data'[q] = data[q] \/ (data'[q] = None /\ ~json')
    BY <1>1, <1>w, <2>1 DEF Quiet, Nothing
  <2>3. Under(q)' = Under(q)
    BY <2>1, UnderFacts
  <2>4. up[w].clean => CleanUpload(w)'
    BY <2>1, <2>2, <2>3, CleanStays
  <2> QED BY <2>1, <2>4, <1>w
<1>2. ASSUME NEW u \in Uploads, NEW p \in Parts, OpenPart(u, p)
      PROVE  IF up'[w].clean THEN CleanUpload(w)' ELSE up'[w].part \in doubt'
  <2> DEFINE i == IF tmp[p] = None THEN u ELSE tmp[p]
  <2>1. /\ i \in Uploads /\ up[u].pc = "new"
        /\ up'[u] = [pc |-> "open", part |-> p, ino |-> i, clean |-> Under(p) = {}]
        /\ \A v \in Uploads \ {u} :
             /\ up'[v].pc = up[v].pc /\ up'[v].part = up[v].part /\ up'[v].ino = up[v].ino
             /\ v \notin Under(p) => up'[v] = up[v]
             /\ v \in Under(p) => up'[v].clean = FALSE
    BY <1>2, OpenFacts
  <2>2. /\ tmp' = [tmp EXCEPT ![p] = i] /\ ino' = [ino EXCEPT ![i] = Empty]
        /\ UNCHANGED <<data, json>>
        /\ doubt' = IF Under(p) = {} THEN doubt ELSE doubt \union {p}
    BY <1>2 DEF OpenPart
  <2>3. i = u \/ (tmp[p] = i /\ Made(i, p))
    BY DEF InodeInv
  <2>4. Under(p) = {} => \A v \in Uploads : up[v].ino # i
    <3>1. \A v \in Uploads : up[v].ino # u
      BY <1>n, <2>1 DEF InodeInv, Made
    <3> QED BY <3>1 DEF InodeInv
  <2>5. i # data[p]
    <3>1. CASE tmp[p] = None
      <4>1. data[p] = None \/ up[data[p]].pc # "new"
        BY DEF InodeInv, Made
      <4> QED BY <3>1, <4>1, <2>1, <1>n
    <3>2. CASE tmp[p] # None
      BY <3>2 DEF InodeInv
    <3> QED BY <3>1, <3>2
  <2> HIDE DEF i
  <2>6. /\ up'[u].pc = "open" /\ up'[u].part = p /\ up'[u].ino = i
        /\ up'[u].clean = (Under(p) = {})
    BY <2>1
  <2>7. /\ tmp'[p] = i /\ \A r \in Parts \ {p} : tmp'[r] = tmp[r]
        /\ \A v \in Uploads \ {i} : ino'[v] = ino[v]
    BY <2>1, <2>2, FileTypes, FileFacts
  <2>8. Under(p)' = Under(p) \union {u} /\ \A r \in Parts \ {p} : Under(r)' = Under(r)
    BY <1>2, UnderFacts
  <2>9. CASE w = u
    <3>1. CASE Under(p) = {}
      <4>1. /\ up'[w].part = p /\ up'[w].ino = i /\ Under(p)' = {w}
            /\ \A v \in Uploads \ {w} : up'[v].ino # i
            /\ tmp'[p] \in {None, i} /\ up'[w].pc = "open" /\ data'[p] # i
        BY <2>1, <2>2, <2>4, <2>5, <2>6, <2>7, <2>8, <2>9, <3>1
      <4>2. CleanUpload(w)'
        BY <4>1, CleanNext
      <4> QED BY <4>2, <2>6, <2>9, <3>1
    <3>2. CASE Under(p) # {}
      BY <2>2, <2>6, <2>9, <3>2
    <3> QED BY <3>1, <3>2
  <2>10. CASE w # u /\ w \in Under(p)
    BY <2>1, <2>2, <2>10, UnderFacts
  <2>11. CASE w # u /\ w \notin Under(p)
    <3>1. up'[w] = up[w] /\ InFlight(w)
      BY <2>1, <2>11 DEF InFlight
    <3>2. q \in Parts \ {p}
      BY <2>11, <3>1, <1>w, UnderFacts
    <3>3. i # j
      BY <2>1, <2>3, <3>1, <3>2, <1>w DEF Made
    <3>4. /\ tmp'[q] = tmp[q] /\ ino'[j] = ino[j] /\ data'[q] = data[q] /\ (json' => json)
          /\ Under(q)' = Under(q)
          /\ \A v \in Uploads \ {w} : up'[v].ino = up[v].ino \/ up'[v].ino # j
      BY <2>1, <2>2, <2>6, <2>7, <2>8, <3>1, <3>2, <3>3, <1>w
    <3>5. up[w].clean => CleanUpload(w)'
      BY <3>1, <3>4, CleanStays
    <3> QED BY <3>1, <3>5, <2>2, <1>w
  <2> QED BY <2>9, <2>10, <2>11
<1>3. ASSUME NEW u \in Uploads, UploadStep(u), w # u
      PROVE  IF up'[w].clean THEN CleanUpload(w)' ELSE up'[w].part \in doubt'
  <2> DEFINE p == up[u].part
  <2>1. /\ InFlight(u) /\ p \in Parts /\ u \in Under(p) /\ up[u].ino \in Uploads
        /\ up'[w] = up[w] /\ InFlight(w) /\ UNCHANGED json
        /\ \A v \in Uploads : up'[v].ino = up[v].ino
    BY <1>3, UploadStepFacts, UnderFacts DEF UploadStep, Moves, InFlight
  <2>2. CASE up[w].clean
    <3>1. q # p /\ up[u].ino # j
      BY <1>3, <2>1, <2>2, <1>w
    <3>2. tmp'[q] = tmp[q] /\ data'[q] = data[q]
      BY <1>3, <2>1, <3>1, <1>w, FileTypes, FileFacts
         DEF UploadStep, CopyPart, RenamePart, DescribePart, UploadFails, files
    <3>3. ino'[j] = ino[j]
      BY <1>3, <2>1, <3>1, <1>w, FileTypes
         DEF UploadStep, CopyPart, RenamePart, DescribePart, UploadFails
    <3>4. Under(q)' = Under(q)
      BY <1>3, <2>1, <3>1, <1>w, UnderFacts DEF UploadStep
    <3>5. CleanUpload(w)'
      BY <2>1, <2>2, <3>2, <3>3, <3>4, CleanStays
    <3> QED BY <2>1, <2>2, <3>5
  <2>3. CASE ~up[w].clean
    <3>1. q \in doubt
      BY <2>1, <2>3, <1>w
    <3>2. DescribePart(u) /\ up[u].clean => q # p
      <4> SUFFICES ASSUME up[u].clean, q = p PROVE FALSE
        OBVIOUS
      <4>1. Under(p) = {u}
        BY <2>1, CleanFacts
      <4> QED BY <4>1, <1>3, <2>1, <1>w
    <3>3. q \in doubt'
      BY <1>3, <3>1, <3>2 DEF UploadStep, CopyPart, RenamePart, DescribePart, UploadFails
    <3> QED BY <2>1, <2>3, <3>3
  <2> QED BY <2>2, <2>3
<1>4. ASSUME CopyPart(w)
      PROVE  IF up'[w].clean THEN CleanUpload(w)' ELSE up'[w].part \in doubt'
  <2>1. /\ InFlight(w) /\ up[w].pc = "open" /\ up'[w].pc = "copied"
        /\ up'[w].part = q /\ up'[w].ino = j /\ up'[w].clean = up[w].clean
        /\ \A v \in Uploads \ {w} : up'[v] = up[v]
        /\ UNCHANGED <<tmp, data, json, doubt>>
    BY <1>4, UploadStepFacts DEF UploadStep, Moves, CopyPart, files
  <2>2. CASE up[w].clean
    <3>1. /\ Under(q) = {w} /\ \A v \in Uploads \ {w} : up[v].ino # j
          /\ tmp[q] \in {None, j} /\ data[q] # j /\ j \in Uploads
      BY <2>1, <2>2, CleanFacts
    <3>2. ino' = [ino EXCEPT ![j] = w]
      BY <1>4, <3>1 DEF CopyPart
    <3>3. ino'[j] = w
      BY <3>1, <3>2, FileTypes
    <3>4. Under(q)' = {w}
      BY <3>1, <1>4, UnderFacts
    <3>5. CleanUpload(w)'
      BY <2>1, <3>1, <3>3, <3>4, CleanNext
    <3> QED BY <2>1, <2>2, <3>5
  <2>3. CASE ~up[w].clean
    BY <2>1, <2>3, <1>w
  <2> QED BY <2>2, <2>3
<1>5. ASSUME RenamePart(w)
      PROVE  IF up'[w].clean THEN CleanUpload(w)' ELSE up'[w].part \in doubt'
  <2>1. /\ InFlight(w) /\ up[w].pc = "copied" /\ up'[w].pc = "renamed"
        /\ up'[w].part = q /\ up'[w].ino = j /\ up'[w].clean = up[w].clean
        /\ \A v \in Uploads \ {w} : up'[v] = up[v]
        /\ UNCHANGED <<ino, json, doubt>>
    BY <1>5, UploadStepFacts DEF UploadStep, Moves, RenamePart
  <2>2. CASE up[w].clean
    <3>1. /\ Under(q) = {w} /\ \A v \in Uploads \ {w} : up[v].ino # j
          /\ tmp[q] = j /\ j \in Uploads /\ ino[j] = w /\ q \in Parts
      BY <1>5, <2>1, <2>2, CleanFacts DEF RenamePart
    <3>2. tmp' = [tmp EXCEPT ![q] = None] /\ data' = [data EXCEPT ![q] = tmp[q]]
      BY <1>5 DEF RenamePart
    <3>3. tmp'[q] = None /\ data'[q] = j
      BY <3>1, <3>2, FileTypes, FileFacts
    <3>4. Under(q)' = {w}
      BY <3>1, <1>5, UnderFacts
    <3>5. CleanUpload(w)'
      BY <2>1, <3>1, <3>3, <3>4, CleanNext
    <3> QED BY <2>1, <2>2, <3>5
  <2>3. CASE ~up[w].clean
    BY <2>1, <2>3, <1>w
  <2> QED BY <2>2, <2>3
<1>6. ~(DescribePart(w) \/ UploadFails(w))
  <2> SUFFICES ASSUME DescribePart(w) \/ UploadFails(w) PROVE FALSE
    OBVIOUS
  <2>1. up'[w].pc = "done"
    BY UploadStepFacts DEF UploadStep, Moves
  <2> QED BY <2>1 DEF InFlight
<1>7. ASSUME NEW k \in Completers, ReaderEnds(k)
      PROVE  IF up'[w].clean THEN CleanUpload(w)' ELSE up'[w].part \in doubt'
  <2> DEFINE p == NextPart(k)
             us == Under(p)
  <2>1. /\ p \in Parts /\ UNCHANGED <<tmp, ino, json>> /\ data' = [data EXCEPT ![p] = None]
        /\ up' = Disturbed(us) /\ us \in SUBSET Uploads /\ UpType
        /\ doubt' = doubt \union {p}
    BY <1>7, ReaderEndsFacts, UnderFacts DEF ReaderEnds, FullType
  <2>2. w \in us => up[w].part = p
    BY DEF Under
  <2>w. InFlight(w) /\ q = p => w \in us
    BY UnderFacts
  <2>5. Under(q)' = Under(q)
    BY <1>7, UnderFacts
  <2> HIDE DEF us, p
  <2>3. \A v \in Uploads :
          /\ up'[v].pc = up[v].pc /\ up'[v].part = up[v].part /\ up'[v].ino = up[v].ino
          /\ v \notin us => up'[v] = up[v]
          /\ v \in us => up'[v].clean = FALSE
    BY <2>1, DisturbedFacts
  <2>4. InFlight(w)
    BY <2>3 DEF InFlight
  <2>6. CASE w \in us
    BY <2>1, <2>2, <2>3, <2>6
  <2>7. CASE w \notin us
    <3>1. up'[w] = up[w] /\ q \in Parts \ {p}
      BY <2>3, <2>4, <2>7, <2>w, <1>w
    <3>2. data'[q] = data[q]
      BY <2>1, <3>1, FileTypes, FileFacts
    <3>3. up[w].clean => CleanUpload(w)'
      BY <2>1, <2>3, <2>4, <2>5, <3>1, <3>2, CleanStays
    <3> QED BY <2>1, <2>4, <3>1, <3>3, <1>w
  <2> QED BY <2>6, <2>7
<1>8. ~Crash
  BY CrashFacts DEF InFlight
<1> QED BY <1>1, <1>2, <1>3, <1>4, <1>5, <1>6, <1>7, <1>8, QuietSteps DEF UploadStep

----------------------------------------------------------------------------
(* What a part that is not in doubt consists of.                           *)

LEMMA PartStep ==
  FullType /\ FullType' /\ InodeInv /\ UploadInv /\ PartInv /\ [Next]_vars => PartInv'
<1> SUFFICES ASSUME FullType, FullType', InodeInv, UploadInv, PartInv, [Next]_vars,
                    NEW p \in Parts, p \notin doubt', meta'[p] # None, ~Renamed(p)'
             PROVE  /\ data'[p] # None => ino'[data'[p]] = meta'[p]
                    /\ json' => data'[p] # None
  BY DEF PartInv
<1>n. None \notin Uploads
  BY NoneApart
<1>p. p \notin doubt /\ meta[p] # None /\ ~Renamed(p) =>
        /\ data[p] # None => ino[data[p]] = meta[p]
        /\ json => data[p] # None
  BY DEF PartInv
\* A step that leaves the part as it is.
<1>k. ASSUME p \notin doubt, ~Renamed(p), UNCHANGED data, meta'[p] = meta[p],
             data[p] # None => ino'[data[p]] = ino[data[p]], json' => json
      PROVE  /\ data'[p] # None => ino'[data'[p]] = meta'[p]
             /\ json' => data'[p] # None
  BY <1>p, <1>k
<1>1. CASE Quiet
  <2>1. UNCHANGED <<ino, up, doubt>> /\ ~Renamed(p)
    BY <1>1, UnderFacts DEF Quiet
  <2>2. UNCHANGED data /\ meta'[p] = meta[p] /\ (json' => json \/ session # "known")
    BY <1>1, FileTypes DEF Quiet
  <2>3. session # "known" => meta[p] = None
    BY FileTypes DEF FullType, SessionInv
  <2> QED BY <2>1, <2>2, <2>3, <1>k
<1>2. ASSUME NEW u \in Uploads, NEW q \in Parts, OpenPart(u, q)
      PROVE  /\ data'[p] # None => ino'[data'[p]] = meta'[p]
             /\ json' => data'[p] # None
  <2> DEFINE i == IF tmp[q] = None THEN u ELSE tmp[q]
  <2>1. i \in Uploads /\ up[u].pc = "new"
    BY <1>2, OpenFacts
  <2>2. /\ ino' = [ino EXCEPT ![i] = Empty] /\ UNCHANGED <<data, json, meta>>
        /\ doubt' = IF Under(q) = {} THEN doubt ELSE doubt \union {q}
    BY <1>2 DEF OpenPart
  <2>3. data[p] # None => data[p] # i
    <3>1. CASE tmp[q] = None
      BY <3>1, <2>1 DEF InodeInv, Made
    <3>2. CASE tmp[q] # None
      BY <3>2 DEF InodeInv, Made
    <3> QED BY <3>1, <3>2
  <2> HIDE DEF i
  <2>4. data[p] # None => ino'[data[p]] = ino[data[p]]
    BY <2>1, <2>2, <2>3, FileTypes
  <2>5. p \notin doubt /\ ~Renamed(p)
    <3>1. CASE p = q
      BY <2>2, <3>1 DEF Renamed
    <3>2. CASE p # q
      BY <1>2, <2>2, <3>2, UnderFacts
    <3> QED BY <3>1, <3>2
  <2> QED BY <2>2, <2>4, <2>5, <1>k
<1>3. ASSUME NEW u \in Uploads, CopyPart(u)
      PROVE  /\ data'[p] # None => ino'[data'[p]] = meta'[p]
             /\ json' => data'[p] # None
  <2>1. /\ up[u].part \in Parts /\ up[u].ino \in Uploads /\ InFlight(u) /\ up[u].pc = "open"
        /\ UNCHANGED <<data, meta, json, doubt>> /\ \E c : ino' = [ino EXCEPT ![up[u].ino] = c]
    BY <1>3, UploadStepFacts DEF UploadStep, CopyPart, files
  <2>2. data[p] # None => data[p] # up[u].ino
    <3> SUFFICES ASSUME data[p] # None, data[p] = up[u].ino PROVE FALSE
      OBVIOUS
    <3>1. up[u].part = p
      BY <2>1, <1>n DEF InodeInv, Made
    <3>2. up[u].clean
      BY <2>1, <3>1, FileTypes DEF UploadInv
    <3>3. data[p] # up[u].ino
      BY <2>1, <3>1, <3>2, CleanFacts
    <3> QED BY <3>3
  <2>3. data[p] # None => ino'[data[p]] = ino[data[p]]
    BY <2>1, <2>2, FileTypes
  <2> QED BY <2>1, <2>3, <1>3, <1>k, UnderFacts
<1>4. ASSUME NEW u \in Uploads, RenamePart(u)
      PROVE  /\ data'[p] # None => ino'[data'[p]] = meta'[p]
             /\ json' => data'[p] # None
  <2>1. /\ up[u].part \in Parts /\ UNCHANGED <<ino, meta, json, doubt>>
        /\ data' = [data EXCEPT ![up[u].part] = tmp[up[u].part]]
    BY <1>4, UploadStepFacts DEF UploadStep, RenamePart
  <2>2. p # up[u].part
    <3> SUFFICES ASSUME p = up[u].part PROVE FALSE
      OBVIOUS
    <3>1. Moves(u, "renamed") /\ InFlight(u)
      BY <1>4, UploadStepFacts DEF UploadStep
    <3>2. up'[u].part = p /\ up'[u].pc = "renamed"
      BY <3>1 DEF Moves
    <3>3. Renamed(p)'
      BY <3>2 DEF Renamed, Under
    <3> QED BY <3>3
  <2>3. data'[p] = data[p] /\ ~Renamed(p)
    BY <1>4, <2>1, <2>2, FileTypes, UnderFacts
  <2> QED BY <2>1, <2>3, <1>p
<1>5. ASSUME NEW u \in Uploads, DescribePart(u)
      PROVE  /\ data'[p] # None => ino'[data'[p]] = meta'[p]
             /\ json' => data'[p] # None
  <2>1. /\ up[u].part \in Parts /\ InFlight(u) /\ up[u].pc = "renamed"
        /\ UNCHANGED <<data, ino, json>> /\ meta' = [meta EXCEPT ![up[u].part] = u]
        /\ doubt' = IF up[u].clean THEN doubt \ {up[u].part} ELSE doubt
    BY <1>5, UploadStepFacts DEF UploadStep, DescribePart
  <2>2. CASE p = up[u].part
    <3>1. up[u].clean
      BY <2>1, <2>2, FileTypes DEF UploadInv
    <3>2. /\ data[p] = up[u].ino \/ (data[p] = None /\ ~json)
          /\ ino[up[u].ino] = u /\ up[u].ino \in Uploads
      BY <2>1, <2>2, <3>1, CleanFacts
    <3>3. meta'[p] = u
      BY <2>1, <2>2, FileTypes, FileFacts
    <3> QED BY <2>1, <3>2, <3>3, <1>n
  <2>3. CASE p # up[u].part
    <3>1. meta'[p] = meta[p] /\ p \notin doubt /\ ~Renamed(p)
      BY <1>5, <2>1, <2>3, FileTypes, FileFacts, UnderFacts
    <3> QED BY <2>1, <3>1, <1>k
  <2> QED BY <2>2, <2>3
<1>6. ASSUME NEW u \in Uploads, UploadFails(u)
      PROVE  /\ data'[p] # None => ino'[data'[p]] = meta'[p]
             /\ json' => data'[p] # None
  <2>1. /\ up[u].part \in Parts /\ UNCHANGED <<data, ino, json, meta>>
        /\ doubt' = IF up[u].pc = "renamed" THEN doubt \union {up[u].part} ELSE doubt
    BY <1>6, UploadStepFacts DEF UploadStep, UploadFails
  <2>2. p \notin doubt /\ ~Renamed(p)
    <3>1. CASE p = up[u].part
      <4>1. up[u].pc # "renamed"
        BY <2>1, <3>1
      <4>2. Renamed(up[u].part)' = Renamed(up[u].part)
        BY <1>6, <4>1, UnderFacts
      <4>3. Renamed(p)' = Renamed(p)
        <5>1. Moves(u, "done")
          BY <1>6, UploadStepFacts DEF UploadStep
        <5>2. up'[u].part = p
          BY <3>1, <5>1 DEF Moves
        <5> QED BY <3>1, <4>2, <5>2 DEF Renamed, Under
      <4> QED BY <2>1, <4>3
    <3>2. CASE p # up[u].part
      BY <1>6, <2>1, <3>2, UnderFacts
    <3> QED BY <3>1, <3>2
  <2> QED BY <2>1, <2>2, <1>k
<1>7. ASSUME NEW k \in Completers, ReaderEnds(k)
      PROVE  /\ data'[p] # None => ino'[data'[p]] = meta'[p]
             /\ json' => data'[p] # None
  <2> DEFINE q == NextPart(k)
  <2>1. /\ q \in Parts /\ UNCHANGED <<ino, json>> /\ data' = [data EXCEPT ![q] = None]
        /\ UNCHANGED meta /\ doubt' = doubt \union {q}
    BY <1>7, ReaderEndsFacts DEF ReaderEnds
  <2> HIDE DEF q
  <2>2. p # q
    BY <2>1
  <2>3. data'[p] = data[p] /\ meta'[p] = meta[p] /\ p \notin doubt /\ ~Renamed(p)
    BY <1>7, <2>1, <2>2, FileTypes, FileFacts, UnderFacts
  <2> QED BY <2>1, <2>3, <1>p
<1>8. CASE Crash
  <2>1. UNCHANGED <<data, meta, ino, json>> /\ p \notin doubt /\ ~Renamed(p)
    BY <1>8 DEF Crash, files, Renamed
  <2> QED BY <2>1, <1>k
<1> QED BY <1>1, <1>2, <1>3, <1>4, <1>5, <1>6, <1>7, <1>8, QuietSteps DEF UploadStep

StoreInv == FullType /\ InodeInv /\ UploadInv /\ PartInv

LEMMA StoreInit == Init => StoreInv
<1> SUFFICES ASSUME Init PROVE StoreInv
  OBVIOUS
<1>1. \A u \in Uploads : ~InFlight(u)
  BY DEF Init, InFlight
<1>2. \A p \in Parts : meta[p] = None
  BY DEF Init, Nothing
<1> QED BY <1>1, <1>2, TypeInit, InodeInit DEF StoreInv, UploadInv, PartInv

LEMMA StoreStep == StoreInv /\ [Next]_vars => StoreInv'
BY TypeStep, InodeStep, UploadStepInv, PartStep DEF StoreInv

LEMMA StoreInvariant == Spec => []StoreInv
BY StoreInit, StoreStep, PTL DEF Spec

\* An acknowledged part of an open session has its ETag and, unless it is in doubt
\* or just being replaced, the bytes that were acknowledged: refused completions,
\* failed and repeated uploads, kills of the process and the removal of other
\* names leave it alone (PartsKept).
THEOREM AcknowledgedPartsKept == Spec => []PartsKept
<1>1. StoreInv => PartsKept
  <2> SUFFICES ASSUME StoreInv, json, NEW p \in Parts, p \notin doubt, acked[p] # None
               PROVE  /\ meta[p] = acked[p]
                      /\ data[p] # None
                      /\ ino[data[p]] = acked[p] \/ Renamed(p)
    BY DEF PartsKept, Renamed
  <2>1. FullType /\ UploadInv /\ PartInv /\ meta[p] = acked[p]
    BY FileTypes DEF StoreInv
  <2>2. CASE ~Renamed(p)
    BY <2>1, <2>2 DEF PartInv
  <2>3. CASE Renamed(p)
    <3>1. PICK u \in Under(p) : up[u].pc = "renamed"
      BY <2>3 DEF Renamed
    <3>2. u \in Uploads /\ up[u].part = p /\ InFlight(u)
      BY <2>1, <3>1, UnderFacts
    <3>3. up[u].clean
      BY <2>1, <3>2, FileTypes DEF UploadInv
    <3>4. data[p] = up[u].ino /\ up[u].ino \in Uploads
      BY <2>1, <3>1, <3>2, <3>3, CleanFacts
    <3> QED BY <2>1, <2>3, <3>4, NoneApart
  <2> QED BY <2>2, <2>3
<1> QED BY <1>1, StoreInvariant, PTL

----------------------------------------------------------------------------
(* Completions.                                                            *)

\* A completion that this step leaves alone: what it has read stays read, and
\* what it has not read keeps its content or goes.
LEMMA CompStays ==
  ASSUME StoreInv, CompInv, [Next]_vars, NEW k \in Completers, Reading(k),
         comp'[k].parts = comp[k].parts, comp'[k].body = comp[k].body,
         comp'[k].cur = comp[k].cur, comp[k].doubt \subseteq comp'[k].doubt,
         \A p \in Parts \ comp'[k].doubt :
           /\ Under(p)' = {}
           /\ data'[p] # None => data'[p] = data[p]
           /\ \A i \in Uploads : Made(i, p) => ino'[i] = ino[i]
  PROVE  /\ (comp[k].cur # None => Made(comp[k].cur, NextPart(k)))'
         /\ (\A p \in Parts \ comp[k].doubt : Under(p) = {})'
         /\ (\A i \in DOMAIN comp[k].parts : EntryRead(k, i))'
<1> DEFINE n == Len(comp[k].body)
           s == comp[k].parts
<1>1. /\ n \in Nat /\ Len(s) \in Nat /\ DOMAIN s = 1..Len(s)
      /\ \A i \in 1..Len(s) : s[i].part \in Parts
      /\ comp[k].cur \in Uploads \union {None}
      /\ comp[k].cur # None => n < Len(s)
  <2>1. FullType /\ comp[k] \in Comps
    BY NextPartFacts DEF StoreInv
  <2> QED BY <2>1, NextPartFacts DEF FullType, CompType, Comps
<1>2. FullType /\ InodeInv
  BY DEF StoreInv
<1>3. comp[k].cur # None => Made(comp[k].cur, NextPart(k))
  BY DEF CompInv
<1>4. \A i \in DOMAIN s : EntryRead(k, i)
  BY DEF CompInv
<1>5. (comp[k].cur # None => Made(comp[k].cur, NextPart(k)))'
  <2> SUFFICES ASSUME comp[k].cur # None PROVE MadeNext(comp[k].cur, NextPart(k))
    BY DEF MadeNext, Made, NextPart
  <2> QED BY <1>1, <1>2, <1>3, MadeStays
<1>6. ASSUME NEW i \in 1..Len(s) PROVE EntryRead(k, i)'
  <2> DEFINE e == s[i].etag
  <2> SUFFICES ASSUME NEW p, p = s[i].part, p \notin comp'[k].doubt
               PROVE  /\ i <= n => comp[k].body[i] = e
                      /\ i > n /\ data'[p] # None => ino'[data'[p]] = e
                      /\ i = n + 1 /\ comp[k].cur # None => ino'[comp[k].cur] = e
    BY DEF EntryRead
  <2>1. /\ i <= n => comp[k].body[i] = e
        /\ i > n /\ data[p] # None => ino[data[p]] = e
        /\ i = n + 1 /\ comp[k].cur # None => ino[comp[k].cur] = e
    BY <1>1, <1>4 DEF EntryRead
  <2>2. p \in Parts
    BY <1>1
  <2>3. data'[p] # None => data'[p] = data[p] /\ ino'[data[p]] = ino[data[p]]
    BY <1>2, <2>2, FileTypes DEF InodeInv
  <2>4. i = n + 1 /\ comp[k].cur # None => ino'[comp[k].cur] = ino[comp[k].cur]
    <3> SUFFICES ASSUME i = n + 1, comp[k].cur # None PROVE ino'[comp[k].cur] = ino[comp[k].cur]
      OBVIOUS
    <3>1. NextPart(k) = p
      BY DEF NextPart
    <3> QED BY <1>1, <1>3, <2>2, <3>1
  <2> QED BY <2>1, <2>3, <2>4
<1>7. (\A i \in DOMAIN comp[k].parts : EntryRead(k, i))'
  BY <1>1, <1>6
<1> QED BY <1>5, <1>7

LEMMA CompStep == StoreInv /\ StoreInv' /\ CompInv /\ [Next]_vars => CompInv'
<1> SUFFICES ASSUME StoreInv, StoreInv', CompInv, [Next]_vars,
                    NEW k \in Completers, comp'[k].pc \in {"stream", "drop"}
             PROVE  /\ (comp[k].cur # None => Made(comp[k].cur, NextPart(k)))'
                    /\ (\A p \in Parts \ comp[k].doubt : Under(p) = {})'
                    /\ (\A i \in DOMAIN comp[k].parts : EntryRead(k, i))'
  BY DEF CompInv, Reading
<1> DEFINE Goal == /\ (comp[k].cur # None => Made(comp[k].cur, NextPart(k)))'
                   /\ (\A p \in Parts \ comp[k].doubt : Under(p) = {})'
                   /\ (\A i \in DOMAIN comp[k].parts : EntryRead(k, i))'
<1>t. FullType /\ InodeInv /\ PartInv /\ CompType /\ FullType'
  BY DEF StoreInv, FullType
<1>c. Reading(k) => \A p \in Parts \ comp[k].doubt : Under(p) = {}
  BY DEF CompInv
<1>1. ASSUME Quiet, Reading(k), comp'[k].parts = comp[k].parts,
             comp'[k].body = comp[k].body, comp'[k].cur = comp[k].cur,
             comp'[k].doubt = comp[k].doubt
      PROVE  Goal
  <2>1. \A p \in Parts : /\ Under(p)' = Under(p)
                         /\ data'[p] # None => data'[p] = data[p]
                         /\ \A i \in Uploads : ino'[i] = ino[i]
    BY <1>1, <1>t, UnderFacts DEF Quiet, Nothing
  <2> QED BY <1>1, <1>c, <2>1, CompStays
<1>2. ASSUME NEW u \in Uploads, NEW q \in Parts, OpenPart(u, q) PROVE Goal
  <2> DEFINE i == IF tmp[q] = None THEN u ELSE tmp[q]
  <2>1. i \in Uploads /\ up[u].pc = "new"
    BY <1>2, <1>t, OpenFacts
  <2>2. ino' = [ino EXCEPT ![i] = Empty] /\ UNCHANGED data
    BY <1>2 DEF OpenPart
  <2>3. \A p \in Parts \ {q} : ~Made(i, p)
    BY <2>1, <1>t DEF InodeInv, Made
  <2> HIDE DEF i
  <2>4. \A p \in Parts \ {q} : \A v \in Uploads : Made(v, p) => ino'[v] = ino[v]
    BY <2>1, <2>2, <2>3, <1>t, FileTypes
  <2>5. /\ comp'[k].pc = comp[k].pc /\ comp'[k].parts = comp[k].parts
        /\ comp'[k].body = comp[k].body /\ comp'[k].cur = comp[k].cur
        /\ Reading(k) => comp'[k].doubt = comp[k].doubt \union {q}
    BY <1>2, <1>t, NotedFacts DEF OpenPart
  <2>6. \A p \in Parts \ {q} : Under(p)' = Under(p)
    BY <1>2, <1>t, UnderFacts
  <2>7. Reading(k)
    BY <2>5 DEF Reading
  <2> QED BY <2>2, <2>4, <2>5, <2>6, <2>7, <1>c, CompStays
<1>3. ASSUME NEW u \in Uploads, UploadStep(u) PROVE Goal
  <2>1. /\ UNCHANGED comp /\ InFlight(u) /\ up[u].part \in Parts /\ up[u].ino \in Uploads
    BY <1>3, <1>t, UploadStepFacts
  <2>2. Reading(k) /\ up[u].part \in comp[k].doubt
    BY <2>1, <1>t, <1>c, UnderFacts DEF Reading
  <2>3. Made(up[u].ino, up[u].part)
    BY <2>1, NoneApart, <1>t DEF InodeInv
  <2>4. \A p \in Parts \ {up[u].part} : Under(p)' = Under(p)
    BY <1>3, <1>t, UnderFacts DEF UploadStep
  <2>5. \A p \in Parts \ {up[u].part} : data'[p] = data[p]
    <3>1. data \in Files /\ tmp \in Files
      BY <1>t, FileTypes
    <3>2. CASE RenamePart(u)
      <4>1. data' = [data EXCEPT ![up[u].part] = tmp[up[u].part]]
        BY <3>2 DEF RenamePart
      <4> QED BY <3>1, <4>1 DEF Files
    <3>3. CASE CopyPart(u) \/ DescribePart(u) \/ UploadFails(u)
      BY <3>3 DEF CopyPart, DescribePart, UploadFails, files
    <3> QED BY <1>3, <3>2, <3>3 DEF UploadStep
  <2>6. \A v \in Uploads \ {up[u].ino} : ino'[v] = ino[v]
    <3>1. ino \in [Uploads -> Contents]
      BY <1>t, FileTypes
    <3>2. CASE CopyPart(u)
      <4>1. \E c : ino' = [ino EXCEPT ![up[u].ino] = c]
        BY <3>2 DEF CopyPart
      <4> QED BY <3>1, <4>1
    <3>3. CASE RenamePart(u) \/ DescribePart(u) \/ UploadFails(u)
      BY <3>3 DEF RenamePart, DescribePart, UploadFails
    <3> QED BY <1>3, <3>2, <3>3 DEF UploadStep
  <2>7. \A p \in Parts \ {up[u].part} : \A v \in Uploads : Made(v, p) => ino'[v] = ino[v]
    BY <2>3, <2>6 DEF Made
  <2> QED BY <2>1, <2>2, <2>4, <2>5, <2>7, <1>c, CompStays
<1>4. ASSUME NEW j \in Completers, ReaderEnds(j) PROVE Goal
  <2>1. /\ \A p \in Parts : data'[p] \in {data[p], None}
        /\ UNCHANGED ino /\ \A p : Under(p)' = Under(p)
        /\ comp'[k].parts = comp[k].parts
        /\ comp'[k].doubt = comp[k].doubt
        /\ Reading(k)
    <3>1. NextPart(j) \in Parts /\ data' = [data EXCEPT ![NextPart(j)] = None] /\ UNCHANGED ino
      BY <1>4, <1>t, ReaderEndsFacts DEF ReaderEnds
    <3>2. \A p \in Parts : data'[p] \in {data[p], None}
      BY <3>1, <1>t, FileTypes, FileFacts
    <3>3. /\ comp'[k].parts = comp[k].parts
          /\ comp'[k].doubt = comp[k].doubt
          /\ Reading(k)
      BY <1>4, <1>t, ReaderEndsFacts DEF Reading
    <3> QED BY <1>4, <1>t, <3>1, <3>2, <3>3, UnderFacts
  <2>2. CASE j # k
    <3>1. comp'[k] = comp[k]
      BY <1>4, <2>2, <1>t, ReaderEndsFacts
    <3> QED BY <2>1, <3>1, <1>c, CompStays
  <2>3. CASE j = k
    <3> DEFINE n == Len(comp[k].body)
               c == ino[comp[k].cur]
    <3>1. /\ comp'[k].body = Append(comp[k].body, c) /\ comp'[k].cur = None
          /\ comp[k].cur # None /\ comp[k].body \in Seq(Contents)
      <4>1. comp[k] \in Comps
        BY <1>t, NextPartFacts
      <4> QED BY <1>4, <2>3, <1>t, <4>1, ReaderEndsFacts DEF ReaderEnds, Comps
    <3>2. c \in Contents
      BY <3>1, <1>t, FileTypes DEF CompType, Comps
    <3>3. /\ n \in Nat /\ Len(comp'[k].body) = n + 1 /\ comp'[k].body[n + 1] = c
          /\ \A i \in 1..n : comp'[k].body[i] = comp[k].body[i]
      BY <3>1, <3>2
    <3>4. /\ Len(comp[k].parts) \in Nat /\ DOMAIN comp[k].parts = 1..Len(comp[k].parts)
          /\ \A i \in 1..Len(comp[k].parts) : comp[k].parts[i].part \in Parts
      BY <1>t, NextPartFacts
    <3>5. ASSUME NEW i \in 1..Len(comp[k].parts) PROVE EntryRead(k, i)'
      <4> DEFINE e == comp[k].parts[i].etag
      <4> SUFFICES ASSUME NEW p, p = comp[k].parts[i].part, p \notin comp[k].doubt
                   PROVE  /\ i <= n + 1 => comp'[k].body[i] = e
                          /\ i > n + 1 /\ data'[p] # None => ino'[data'[p]] = e
        BY <2>1, <3>1, <3>3 DEF EntryRead
      <4>1. /\ i <= n => comp[k].body[i] = e
            /\ i > n /\ data[p] # None => ino[data[p]] = e
            /\ i = n + 1 => c = e
        BY <2>1, <3>1, <3>4 DEF CompInv, EntryRead
      <4>2. p \in Parts
        BY <3>4
      <4>3. i <= n + 1 => comp'[k].body[i] = e
        <5>1. i \in 1..n \/ i = n + 1 \/ i > n + 1
          BY <3>3, <3>4
        <5> QED BY <3>3, <4>1, <5>1
      <4>4. i > n + 1 /\ data'[p] # None => ino'[data'[p]] = e
        BY <2>1, <3>3, <4>1, <4>2
      <4> QED BY <4>3, <4>4
    <3>6. (\A i \in DOMAIN comp[k].parts : EntryRead(k, i))'
      BY <2>1, <3>4, <3>5
    <3> QED BY <2>1, <3>1, <3>6, <1>c
  <2> QED BY <2>2, <2>3
<1>5. ASSUME NEW r \in Requests, CompleteBegins(k, r) PROVE Goal
  <2>0. Ended.pc \notin {"stream", "drop"}
    BY NothingType
  <2>1. /\ Verified(r) /\ comp'[k].body = <<>> /\ comp'[k].cur = None
        /\ \A i \in DOMAIN comp'[k].parts : \E j \in DOMAIN r : comp'[k].parts[i] = r[j]
        /\ comp'[k].doubt = doubt \union {p \in Parts : Under(p) # {}}
    BY <1>5, <1>t, <2>0, CompleteBeginsFacts
  <2>2. UNCHANGED <<data, ino, up>> /\ \A p : Under(p)' = Under(p)
    BY <1>5, <1>t, UnderFacts DEF CompleteBegins, files
  <2>3. ASSUME NEW i \in DOMAIN comp'[k].parts PROVE EntryRead(k, i)'
    <3>1. PICK j \in DOMAIN r : comp'[k].parts[i] = r[j]
      BY <2>1
    <3> DEFINE p == r[j].part
    <3>2. /\ p \in Parts /\ meta[p] # None /\ meta[p] = r[j].etag
      BY <2>1 DEF Verified, GetMultipartParts
    <3>3. p \notin comp'[k].doubt => (data[p] # None => ino[data[p]] = r[j].etag)
      <4> SUFFICES ASSUME p \notin comp'[k].doubt, data[p] # None PROVE ino[data[p]] = r[j].etag
        OBVIOUS
      <4>1. p \notin doubt /\ Under(p) = {}
        BY <2>1, <3>2
      <4>2. ~Renamed(p)
        BY <4>1 DEF Renamed
      <4> QED BY <3>2, <4>1, <4>2, <1>t DEF PartInv
    <3>4. i \in Nat /\ i > 0 /\ Len(comp'[k].body) = 0
      <4>1. comp'[k] \in Comps
        BY <1>t DEF FullType, CompType
      <4>2. comp'[k].parts \in Lists
        BY <4>1 DEF Comps
      <4> QED BY <2>1, <4>2 DEF Lists
    <3> HIDE DEF p
    <3>5. comp'[k].parts[i].part = p /\ comp'[k].parts[i].etag = r[j].etag
      BY <3>1 DEF p
    <3> QED BY <2>1, <2>2, <3>3, <3>4, <3>5 DEF EntryRead
  <2>4. (\A i \in DOMAIN comp[k].parts : EntryRead(k, i))'
    BY <2>3
  <2>5. (\A p \in Parts \ comp[k].doubt : Under(p) = {})'
    BY <2>1, <2>2
  <2> QED BY <2>1, <2>4, <2>5
<1>6. ASSUME ReaderOpens(k) PROVE Goal
  <2> DEFINE q == NextPart(k)
             n == Len(comp[k].body)
  <2>1. /\ comp'[k].pc = comp[k].pc /\ comp'[k].parts = comp[k].parts
        /\ comp'[k].body = comp[k].body /\ comp'[k].doubt = comp[k].doubt
        /\ comp'[k].cur = data[q] /\ q \in Parts /\ data[q] # None
        /\ UNCHANGED <<data, ino, up>> /\ \A p : Under(p)' = Under(p)
    BY <1>6, <1>t, ReaderOpensFacts, UnderFacts DEF ReaderOpens, files
  <2>0. Reading(k)
    BY <1>6 DEF ReaderOpens, Reading
  <2>2. NextPart(k)' = NextPart(k)
    BY <2>1 DEF NextPart
  <2>3. (comp[k].cur # None => Made(comp[k].cur, NextPart(k)))'
    <3>1. Made(data[q], q)
      BY <2>1, <1>t DEF InodeInv
    <3> QED BY <2>1, <2>2, <3>1 DEF Made
  <2>4. /\ n \in Nat /\ Len(comp[k].parts) \in Nat /\ DOMAIN comp[k].parts = 1..Len(comp[k].parts)
    BY <1>t, NextPartFacts
  <2>5. ASSUME NEW i \in 1..Len(comp[k].parts) PROVE EntryRead(k, i)'
    <3>1. EntryRead(k, i)
      BY <2>0, <2>1, <2>4 DEF CompInv
    <3>2. i = n + 1 => comp[k].parts[i].part = q
      BY DEF NextPart
    <3> QED BY <2>1, <2>4, <3>1, <3>2 DEF EntryRead
  <2>6. (\A i \in DOMAIN comp[k].parts : EntryRead(k, i))'
    BY <2>1, <2>4, <2>5
  <2> QED BY <2>0, <2>1, <2>3, <2>6, <1>c
<1>7. ASSUME ~ReaderOpens(k), \A r \in Requests : ~CompleteBegins(k, r),
             \A j \in Completers : ~ReaderEnds(j) /\ ~PartDeleted(j),
             \A u \in Uploads, q \in Parts : ~OpenPart(u, q)
      PROVE  comp'[k] = comp[k]
  <2>0. Ended.pc \notin {"stream", "drop"}
    BY NothingType
  <2>1. CASE UNCHANGED vars
    BY <2>1 DEF vars
  <2>2. CASE CreateMultipartUpload \/ CreateAnswered \/ AbortMultipartUpload
             \/ CleanupExpiredMultipartUploads \/ RemoveDir \/ DeleteBucket
    BY <2>2 DEF CreateMultipartUpload, CreateAnswered, AbortMultipartUpload,
                CleanupExpiredMultipartUploads, RemoveDir, DeleteBucket
  <2>3. ASSUME NEW u \in Uploads, UploadStep(u) PROVE comp'[k] = comp[k]
    BY <2>3, <1>t, UploadStepFacts
  <2>5. ASSUME NEW j \in Completers,
               \/ \E r \in Requests : CompleteBegins(j, r)
               \/ ReaderOpens(j) \/ ReaderEnds(j) \/ PartDeleted(j)
               \/ Commit(j) \/ CompleteEnds(j) \/ CompleteFails(j)
        PROVE  comp'[k] = comp[k]
    <3>1. CASE j # k
      <4>1. \A r \in Requests : CompleteBegins(j, r) => comp'[k] = comp[k]
        BY <3>1, <1>t, CompleteBeginsFacts
      <4>2. ReaderOpens(j) \/ ReaderEnds(j) \/ Commit(j) => comp'[k] = comp[k]
        BY <3>1, <1>t, <1>7, ReaderOpensFacts, CommitFacts
      <4>3. CompleteEnds(j) \/ CompleteFails(j) => comp'[k] = comp[k]
        BY <3>1, <1>t, CompEndedFacts DEF CompleteEnds, CompleteFails
      <4> QED BY <2>5, <1>7, <4>1, <4>2, <4>3
    <3>2. CASE j = k
      <4>1. ~Commit(k) /\ ~CompleteEnds(k) /\ ~CompleteFails(k)
        <5>1. ~Commit(k)
          BY <1>t, CommitFacts
        <5>2. CompleteEnds(k) \/ CompleteFails(k) => comp'[k] = Ended
          BY <1>t, CompEndedFacts DEF CompleteEnds, CompleteFails
        <5> QED BY <5>1, <5>2, <2>0
      <4> QED BY <2>5, <3>2, <4>1, <1>7
    <3> QED BY <3>1, <3>2
  <2>6. ~Crash
    BY <1>t, CrashFacts
  <2> QED BY <2>1, <2>2, <2>3, <2>5, <2>6, <1>7 DEF Next, UploadStep
<1>8. ~Crash
  BY <1>t, CrashFacts
<1>9. ASSUME NEW j \in Completers, PartDeleted(j) PROVE Goal
  <2>1. Quiet
    <3>1. \A p \in Parts : meta'[p] \in {meta[p], None}
      BY <1>9, <1>t, PartDeletedFacts, FileTypes, FileFacts DEF PartDeleted
    <3> QED BY <1>9, <3>1 DEF PartDeleted, Quiet
  <2>2. /\ Reading(k) /\ comp'[k].parts = comp[k].parts /\ comp'[k].body = comp[k].body
        /\ comp'[k].cur = comp[k].cur /\ comp'[k].doubt = comp[k].doubt
    BY <1>9, <1>t, PartDeletedFacts DEF Reading
  <2> QED BY <1>1, <2>1, <2>2
<1>q. ASSUME Quiet, comp'[k] = comp[k] PROVE Goal
  <2>1. Reading(k)
    BY <1>q DEF Reading
  <2> QED BY <1>1, <1>q, <2>1
<1> QED BY <1>q, <1>2, <1>3, <1>4, <1>5, <1>6, <1>7, <1>8, <1>9, <1>t, QuietSteps

LEMMA CompletionInvariant == Spec => [](StoreInv /\ CompInv)
<1>1. Init => CompInv
  BY NothingType DEF Init, CompInv, Reading
<1>2. StoreInv /\ CompInv /\ [Next]_vars => (StoreInv /\ CompInv)'
  BY StoreStep, CompStep
<1> QED BY <1>1, <1>2, StoreInit, PTL DEF Spec

\* Only a commit makes an object.
LEMMA ObjectFacts ==
  ASSUME FullType, [Next]_vars, \A k \in Completers : ~Commit(k)
  PROVE  UNCHANGED object
<1>1. CASE UNCHANGED vars
  BY <1>1 DEF vars
<1>2. CASE CreateMultipartUpload \/ CreateAnswered \/ AbortMultipartUpload
           \/ CleanupExpiredMultipartUploads \/ RemoveDir \/ DeleteBucket \/ Crash
  BY <1>2 DEF CreateMultipartUpload, CreateAnswered, AbortMultipartUpload, EmptySession,
              CleanupExpiredMultipartUploads, RemoveDir, DeleteBucket, Crash
<1>3. ASSUME NEW u \in Uploads, UploadStep(u) \/ \E p \in Parts : OpenPart(u, p)
      PROVE  UNCHANGED object
  BY <1>3 DEF UploadStep, CopyPart, RenamePart, DescribePart, UploadFails, OpenPart
<1>4. ASSUME NEW k \in Completers,
             \/ \E r \in Requests : CompleteBegins(k, r)
             \/ ReaderOpens(k) \/ ReaderEnds(k) \/ PartDeleted(k)
             \/ CompleteEnds(k) \/ CompleteFails(k)
      PROVE  UNCHANGED object
  BY <1>4 DEF CompleteBegins, ReaderOpens, ReaderEnds, PartDeleted, CompleteEnds, CompleteFails, EmptySession
<1> QED BY <1>1, <1>2, <1>3, <1>4 DEF Next, UploadStep

\* A completed object has, for every requested part, the bytes whose ETag the
\* client named, whatever uploads, other completions, aborts and the cleanup did
\* meanwhile, except for parts whose uploads overlapped one another or the
\* completion or were cut short between the data and its ETag
\* (CompletedIsRequested).
THEOREM CompletedAsRequested == Spec => []CompletedIsRequested
<1>1. Init => CompletedIsRequested
  BY DEF Init, CompletedIsRequested
<1>2. StoreInv /\ CompInv /\ CompletedIsRequested /\ [Next]_vars => CompletedIsRequested'
  <2> SUFFICES ASSUME StoreInv, CompInv, CompletedIsRequested, [Next]_vars
               PROVE  CompletedIsRequested'
    OBVIOUS
  <2>0. FullType
    BY DEF StoreInv
  <2>1. CASE \A k \in Completers : ~Commit(k)
    BY <2>0, <2>1, ObjectFacts DEF CompletedIsRequested
  <2>2. ASSUME NEW k \in Completers, Commit(k) PROVE CompletedIsRequested'
    <3>1. /\ comp[k].pc = "stream" /\ Len(comp[k].body) = Len(comp[k].parts)
          /\ object' = [parts |-> comp[k].parts, body |-> comp[k].body, doubt |-> comp[k].doubt]
      BY <2>2 DEF Commit, AllRead
    <3>2. Len(comp[k].parts) \in Nat /\ DOMAIN comp[k].parts = 1..Len(comp[k].parts)
      BY <2>0, NextPartFacts
    <3>3. ASSUME NEW i \in DOMAIN comp[k].parts, comp[k].parts[i].part \notin comp[k].doubt
          PROVE  comp[k].body[i] = comp[k].parts[i].etag
      BY <3>1, <3>2, <3>3 DEF CompInv, Reading, EntryRead
    <3>4. /\ object'.parts = comp[k].parts /\ object'.body = comp[k].body
          /\ object'.doubt = comp[k].doubt
      BY <3>1
    <3> QED BY <3>3, <3>4 DEF CompletedIsRequested
  <2> QED BY <2>1, <2>2
<1> QED BY <1>1, <1>2, CompletionInvariant, PTL DEF Spec
=============================================================================
