------------------------- MODULE Membership_proofs --------------------------
(***************************************************************************)
(* Proofs about Membership for every set of pods and writes and any number *)
(* of terms, restarts and calls under way.                                 *)
(*                                                                         *)
(* None of the safety properties is inductive: what makes them true was    *)
(* done when the holder took the Lease, or by a handler that listed the    *)
(* keys earlier.  The strengthening is about what is under way "in its     *)
(* term", that is, begun since the Lease last changed hands and, for a     *)
(* handler, with no write admitted beside it: of such a handler it says    *)
(* that its lists and the follower's data still add up to the holder's.    *)
(***************************************************************************)
EXTENDS Membership, TLAPS

\* Addresses: nobody takes itself for another leader; a holder that has had an
\* answer has no address; pods that have heard of the Lease form no loop.
AddressInv ==
  /\ \A n \in Pods : addr[n] # n
  /\ holder \in Pods \ unheard => addr[holder] = None
  /\ \A S \in SUBSET (Pods \ unheard) : S # {} => \E n \in S : addr[n] \notin S

\* A handler never serves its own pod; one in its term has listed the keys, and no
\* write runs beside it.
GateInv ==
  \A h \in Handlers : sync[h] # None =>
    /\ sync[h].at # sync[h].of
    /\ sync[h].term => sync[h].pc = "listed" /\ Running(sync[h].at) = {}

\* What is in its term runs on the holder; of a handler in its term, the list of
\* the holder is current, and what the follower holds is in the lists, all that
\* is in both included.
TermInv ==
  /\ \A w \in Writes : open[w] # None /\ open[w].term => open[w].at = holder
  /\ \A h \in Handlers : sync[h] # None /\ sync[h].term =>
       /\ sync[h].at = holder
       /\ holder \notin misled =>
            /\ sync[h].theirs = has[holder]
            /\ has[sync[h].of] \subseteq sync[h].ours \union sync[h].theirs
            /\ sync[h].ours \intersect sync[h].theirs \subseteq has[sync[h].of]

\* A follower made READY by a synchronisation gets the next writes.
TrustInv ==
  \A n \in Pods : \A x \in trusted[n] : x # n /\ view[n][x] = "READY" /\ x \in alive[n]

\* The holder and its followers, until something out of its term changes them.
AgreeInv ==
  holder \in Pods \ misled =>
    /\ \A x \in trusted[holder] \ misled : has[x] = has[holder]
    /\ ~stale => acked \subseteq has[holder]

DataInv == GateInv /\ TermInv /\ TrustInv /\ AgreeInv

----------------------------------------------------------------------------
(* Types.                                                                  *)

\* Taking operations out of their term keeps them what they are.
LEMMA OutOfTermSync ==
  ASSUME TypeOK, NEW S
  PROVE  /\ OutOfTerm(sync, S) \in [Handlers -> SyncRecords \union {None}]
         /\ \A h \in Handlers : OutOfTerm(sync, S)[h] # None =>
              /\ sync[h] # None
              /\ OutOfTerm(sync, S)[h].at = sync[h].at
              /\ OutOfTerm(sync, S)[h].of = sync[h].of
              /\ OutOfTerm(sync, S)[h].pc = sync[h].pc
              /\ OutOfTerm(sync, S)[h].ours = sync[h].ours
              /\ OutOfTerm(sync, S)[h].theirs = sync[h].theirs
              /\ OutOfTerm(sync, S)[h].term => h \notin S /\ sync[h].term
<1> DEFINE o == OutOfTerm(sync, S)
<1>1. /\ DOMAIN o = Handlers
      /\ o = [h \in Handlers |-> IF h \in S /\ sync[h] # None
                                THEN [sync[h] EXCEPT !.term = FALSE] ELSE sync[h]]
  BY DEF OutOfTerm, TypeOK
<1>2. ASSUME NEW h \in Handlers, h \in S, sync[h] # None
      PROVE  /\ o[h] \in SyncRecords /\ o[h].at = sync[h].at /\ o[h].of = sync[h].of
             /\ o[h].pc = sync[h].pc /\ o[h].ours = sync[h].ours
             /\ o[h].theirs = sync[h].theirs /\ o[h].term = FALSE
  <2>1. sync[h] \in SyncRecords /\ o[h] = [sync[h] EXCEPT !.term = FALSE]
    BY <1>1, <1>2 DEF TypeOK
  <2> QED BY <2>1 DEF SyncRecords
<1>3. ASSUME NEW h \in Handlers, ~(h \in S /\ sync[h] # None)
      PROVE  o[h] = sync[h] /\ (sync[h] # None => h \notin S)
  BY <1>1, <1>3
<1>4. o \in [Handlers -> SyncRecords \union {None}]
  BY <1>1, <1>2, <1>3 DEF TypeOK
<1>5. ASSUME NEW h \in Handlers, o[h] # None
      PROVE  /\ sync[h] # None /\ o[h].at = sync[h].at /\ o[h].of = sync[h].of
             /\ o[h].pc = sync[h].pc /\ o[h].ours = sync[h].ours
             /\ o[h].theirs = sync[h].theirs
             /\ o[h].term => h \notin S /\ sync[h].term
  <2>1. CASE h \in S /\ sync[h] # None
    BY <1>2, <2>1
  <2>2. CASE ~(h \in S /\ sync[h] # None)
    BY <1>3, <1>5, <2>2
  <2> QED BY <2>1, <2>2
<1> QED BY <1>4, <1>5

LEMMA OutOfTermOpen ==
  ASSUME TypeOK
  PROVE  /\ OutOfTerm(open, Writes) \in [Writes -> [at : Pods, term : BOOLEAN] \union {None}]
         /\ \A w \in Writes : OutOfTerm(open, Writes)[w] # None =>
              /\ open[w] # None
              /\ OutOfTerm(open, Writes)[w].at = open[w].at
              /\ ~OutOfTerm(open, Writes)[w].term
<1>1. OutOfTerm(open, Writes) =
        [w \in Writes |-> IF open[w] # None THEN [open[w] EXCEPT !.term = FALSE] ELSE open[w]]
  BY DEF OutOfTerm, TypeOK
<1>2. ASSUME NEW w \in Writes, open[w] # None
      PROVE  /\ [open[w] EXCEPT !.term = FALSE] \in [at : Pods, term : BOOLEAN]
             /\ [open[w] EXCEPT !.term = FALSE].at = open[w].at
             /\ [open[w] EXCEPT !.term = FALSE].term = FALSE
  <2>1. open[w] \in [at : Pods, term : BOOLEAN]
    BY <1>2 DEF TypeOK
  <2> QED BY <2>1
<1> QED BY <1>1, <1>2 DEF TypeOK

\* The types hold initially and every operation keeps them.
LEMMA TypeStep == TypeOK /\ [Next]_vars => TypeOK'
<1> SUFFICES ASSUME TypeOK, [Next]_vars PROVE TypeOK'
  OBVIOUS
<1> USE MembershipAssumption
<1>1. ASSUME NEW n \in Pods, ElectionNext(n) \/ Restart(n) PROVE TypeOK'
  <2>1. CASE Seize(n)
    BY <2>1, OutOfTermSync, OutOfTermOpen DEF TypeOK, Seize, syncVars
  <2>2. CASE Renew(n)
    BY <2>2 DEF TypeOK, Renew, viewVars, dataVars, callVars, syncVars
  <2>4. CASE Observe(n)
    BY <2>4 DEF TypeOK, Observe, viewVars, dataVars, callVars, syncVars
  <2>5. CASE Lapse(n)
    BY <2>5 DEF TypeOK, Lapse, viewVars, dataVars, callVars, syncVars
  <2>3. CASE Restart(n)
    <3>1. PICK L \in SUBSET Running(n) :
            /\ has' = [has EXCEPT ![n] = @ \union L]
            /\ misled' = IF L = {} THEN misled ELSE misled \union {n}
            /\ sync' = [h \in Handlers |->
                 IF h \in HandlersAt(n) THEN None
                 ELSE IF h \in HandlersFor({n})
                 THEN [sync[h] EXCEPT !.asked = FALSE, !.term = @ /\ L = {}]
                 ELSE sync[h]]
      BY <2>3 DEF Restart
    <3>2. sync' \in [Handlers -> SyncRecords \union {None}]
      <4>1. ASSUME NEW h \in HandlersFor({n})
            PROVE  [sync[h] EXCEPT !.asked = FALSE, !.term = @ /\ L = {}] \in SyncRecords
        <5>1. h \in Handlers /\ sync[h] \in SyncRecords
          BY <4>1 DEF TypeOK, HandlersFor
        <5>2. (sync[h].term /\ L = {}) \in BOOLEAN
          OBVIOUS
        <5> QED BY <5>1, <5>2 DEF SyncRecords
      <4> QED BY <3>1, <4>1 DEF TypeOK
    <3>3. has' \in [Pods -> SUBSET Writes] /\ misled' \subseteq Pods
      BY <3>1 DEF TypeOK, Running
    <3>6. restarts' \in 0..MaxRestarts
      <4>1. restarts < MaxRestarts /\ restarts' = restarts + 1 /\ restarts \in 0..MaxRestarts
        BY <2>3 DEF TypeOK, Restart
      <4> QED BY <4>1
    <3>7. st' \in [Pods -> Statuses]
      BY <2>3 DEF TypeOK, Restart, Statuses
    <3>8. leases' \in [Pods -> SUBSET Pods]
      BY <2>3 DEF TypeOK, Restart
    <3>4. /\ lead' \subseteq Pods
          /\ addr' \in [Pods -> Pods \union {None}] /\ unheard' \subseteq Pods
      BY <2>3 DEF TypeOK, Restart
    <3>5. /\ view' \in [Pods -> [Pods -> Statuses \union {None}]]
          /\ alive' \in [Pods -> SUBSET Pods] /\ trusted' \in [Pods -> SUBSET Pods]
          /\ seen' \subseteq [by : Pods, of : Pods, state : Statuses]
          /\ open' \in [Writes -> [at : Pods, term : BOOLEAN] \union {None}]
      BY <2>3 DEF TypeOK, Restart
    <3> QED BY <2>3, <3>2, <3>3, <3>4, <3>5, <3>6, <3>7, <3>8 DEF TypeOK, Restart
  <2> QED BY <1>1, <2>1, <2>2, <2>3, <2>4, <2>5 DEF ElectionNext
<1>2. ASSUME NEW n \in Pods, ViewNext(n) PROVE TypeOK'
  <2>1. CASE DiscoverFollowers(n)
    BY <2>1 DEF TypeOK, DiscoverFollowers, Discovered, Statuses, electionVars,
                dataVars, callVars, syncVars
  <2>2. CASE RebuildAliveFollowers(n)
    BY <2>2 DEF TypeOK, RebuildAliveFollowers, ReadyIn, electionVars, dataVars, callVars, syncVars
  <2>3. ASSUME NEW x \in Pods, HealthAnswer(n, x) PROVE TypeOK'
    BY <2>3 DEF TypeOK, HealthAnswer, electionVars, viewVars, dataVars, syncVars
  <2>4. ASSUME NEW x \in Pods, HealthFails(n, x) PROVE TypeOK'
    BY <2>4 DEF TypeOK, HealthFails, Statuses, electionVars, dataVars, callVars, syncVars
  <2> QED BY <1>2, <2>1, <2>2, <2>3, <2>4 DEF ViewNext
<1>3. ASSUME NEW x \in Pods, CallNext(x) PROVE TypeOK'
  <2>1. CASE SetStatus(x) \/ SetStatusLost(x)
    BY <2>1 DEF TypeOK, SetStatus, SetStatusLost, Statuses, electionVars, viewVars, dataVars,
                syncVars
  <2>2. ASSUME NEW h \in Handlers, SyncAsks(x, h) PROVE TypeOK'
    <3>1. addr[x] \in Pods
      BY <2>2 DEF SyncAsks, TypeOK
    <3>2. sync' \in [Handlers -> SyncRecords \union {None}]
      BY <2>2, <3>1 DEF SyncAsks, TypeOK, SyncRecords
    <3>3. leases' \in [Pods -> SUBSET Pods] /\ asks' \in 0..MaxAsks
      BY <2>2, <3>1 DEF SyncAsks, TypeOK
    <3> QED BY <2>2, <3>2, <3>3 DEF TypeOK, SyncAsks, electionVars, viewVars, dataVars
  <2>3. ASSUME NEW n \in Pods, LeaseExpires(n, x) PROVE TypeOK'
    BY <2>3 DEF TypeOK, LeaseExpires, electionVars, viewVars, dataVars
  <2> QED BY <1>3, <2>1, <2>2, <2>3 DEF CallNext
<1>8. ASSUME NEW h \in Handlers, SyncNext(h) PROVE TypeOK'
  <2>0. SyncDrained(h) \/ SyncGivenUp(h) \/ SyncLists(h) \/ Pushing(h) \/ SyncFails(h)
    BY <1>8 DEF SyncNext, SyncChanges, SyncEnds
  <2>s. sync[h] # None /\ sync[h] \in SyncRecords
    <3>1. sync[h] # None
      BY <2>0 DEF SyncDrained, SyncGivenUp, SyncLists, Pushing, SyncFails
    <3> QED BY <3>1 DEF TypeOK
  <2> DEFINE a == sync[h].at
             x == sync[h].of
  <2>a. a \in Pods /\ x \in Pods /\ sync[h].term \in BOOLEAN
    BY <2>s DEF SyncRecords
  <2>1. CASE SyncLists(h)
    <3>1. sync' \in [Handlers -> SyncRecords \union {None}]
      <4>1. /\ sync' = [sync EXCEPT ![h] = [sync[h] EXCEPT !.pc = "listed", !.theirs = has[a],
                            !.ours = has[x], !.term = holder = a /\ Running(a) = {}]]
        BY <2>1, <2>s DEF SyncLists, TypeOK, SyncRecords
      <4>2. [sync[h] EXCEPT !.pc = "listed", !.theirs = has[a], !.ours = has[x],
                            !.term = holder = a /\ Running(a) = {}] \in SyncRecords
        BY <2>s, <2>a DEF TypeOK, SyncRecords
      <4> QED BY <4>1, <4>2 DEF TypeOK
    <3>2. PICK E \in SUBSET Pods :
            LET states == IF IsLeader(a) THEN Discovered(a, E) ELSE view[a] IN
            /\ view' = [view EXCEPT ![a] = RegisterFollower(states, x)]
            /\ trusted' = [trusted EXCEPT ![a] = IF IsLeader(a) THEN @ \intersect E ELSE @]
      BY <2>1 DEF SyncLists
    <3>3. view' \in [Pods -> [Pods -> Statuses \union {None}]]
      BY <2>a, <3>2 DEF TypeOK, Discovered, RegisterFollower, Statuses
    <3>4. trusted' \in [Pods -> SUBSET Pods]
      BY <2>a, <3>2 DEF TypeOK
    <3> QED
      BY <2>1, <3>1, <3>3, <3>4 DEF TypeOK, SyncLists, electionVars, dataVars, syncVars
  <2>2. CASE SyncDrained(h) \/ SyncGivenUp(h)
    <3>1. \/ sync' = [sync EXCEPT ![h].pc = "drained"]
          \/ sync' = [sync EXCEPT ![h].asked = FALSE]
      BY <2>2 DEF SyncDrained, SyncGivenUp
    <3>2. sync' \in [Handlers -> SyncRecords \union {None}]
      <4>1. /\ [sync[h] EXCEPT !.pc = "drained"] \in SyncRecords
            /\ [sync[h] EXCEPT !.asked = FALSE] \in SyncRecords
        BY <2>s DEF SyncRecords
      <4>2. \/ sync' = [sync EXCEPT ![h] = [sync[h] EXCEPT !.pc = "drained"]]
            \/ sync' = [sync EXCEPT ![h] = [sync[h] EXCEPT !.asked = FALSE]]
        BY <3>1
      <4> QED BY <4>1, <4>2 DEF TypeOK
    <3> QED
      BY <2>2, <3>2 DEF TypeOK, SyncDrained, SyncGivenUp, electionVars, viewVars, dataVars,
                        syncVars
  <2>3. CASE SyncFails(h)
    BY <2>3, <2>a DEF TypeOK, SyncFails, EndSyncLease, electionVars, viewVars, dataVars
  <2>4. CASE SyncChanges(h)
    <3>1. sync' \in [Handlers -> SyncRecords \union {None}] /\ misled' \subseteq Pods
      BY <2>4, <2>a, OutOfTermSync DEF TypeOK, SyncChanges
    <3>2. has' \in [Pods -> SUBSET Writes]
      <4>1. sync[h].theirs \subseteq Writes
        BY <2>s DEF SyncRecords
      <4>2. \/ \E w \in sync[h].theirs : has' = [has EXCEPT ![x] = @ \union {w}]
            \/ \E w : has' = [has EXCEPT ![x] = @ \ {w}]
        BY <2>4 DEF SyncChanges
      <4> QED BY <2>a, <4>1, <4>2 DEF TypeOK
    <3> QED
      BY <2>4, <3>1, <3>2 DEF TypeOK, SyncChanges, electionVars, viewVars, syncVars
  <2>5. ASSUME NEW answered \in BOOLEAN, SyncEnds(h, answered) PROVE TypeOK'
    <3>2. /\ view' \in [Pods -> [Pods -> Statuses \union {None}]]
          /\ alive' \in [Pods -> SUBSET Pods] /\ trusted' \in [Pods -> SUBSET Pods]
      <4>1. MarkAlive(a, x, sync[h].term)
        BY <2>5 DEF SyncEnds
      <4>2. CASE view[a][x] = None
        BY <4>1, <4>2 DEF MarkAlive, viewVars, TypeOK
      <4>3. CASE view[a][x] # None
        <5>1. /\ view' = [view EXCEPT ![a][x] = "READY"]
              /\ alive' = [alive EXCEPT ![a] = ReadyIn(view'[a])]
              /\ trusted' \in {trusted, [trusted EXCEPT ![a] = @ \union {x}]}
          BY <2>a, <4>1, <4>3 DEF MarkAlive, TypeOK
        <5> QED BY <2>a, <5>1 DEF TypeOK, ReadyIn, Statuses
      <4> QED BY <4>2, <4>3
    <3>3. has' \in [Pods -> SUBSET Writes]
      BY <2>5, <2>a, <2>s DEF TypeOK, SyncEnds, SyncRecords
    <3>4. sync' \in [Handlers -> SyncRecords \union {None}]
      <4>1. CASE sync[h].term
        BY <2>5, <4>1 DEF TypeOK, SyncEnds
      <4>2. CASE ~sync[h].term
        BY <2>5, <4>2, OutOfTermSync DEF SyncEnds
      <4> QED BY <4>1, <4>2
    <3>5. /\ st' \in [Pods -> Statuses] /\ misled' \subseteq Pods
          /\ leases' \in [Pods -> SUBSET Pods] /\ asks' = asks
      BY <2>5, <2>a DEF TypeOK, SyncEnds, EndSyncLease, Statuses
    <3> QED
      BY <2>5, <3>2, <3>3, <3>4, <3>5 DEF TypeOK, SyncEnds, electionVars
  <2> QED BY <1>8, <2>1, <2>2, <2>3, <2>4, <2>5 DEF SyncNext
<1>4. ASSUME NEW n \in Pods, NEW w \in Writes,
             WriteBegins(n, w) \/ Write(n, w) \/ WriteRefused(n, w)
      PROVE  TypeOK'
  <2>1. CASE WriteBegins(n, w)
    BY <2>1, OutOfTermSync DEF TypeOK, WriteBegins, electionVars, viewVars, syncVars
  <2>2. CASE Write(n, w)
    <3>1. sync' \in [Handlers -> SyncRecords \union {None}]
      BY <2>2, OutOfTermSync DEF Write, Acknowledge, TypeOK
    <3>2. PICK C \in SUBSET alive[n] :
                 Acknowledge(n, w, C \union {n}) /\ MarkDead(n, alive[n] \ C)
      BY <2>2 DEF Write
    <3>3. /\ view' \in [Pods -> [Pods -> Statuses \union {None}]]
          /\ alive' \in [Pods -> SUBSET Pods] /\ trusted' \in [Pods -> SUBSET Pods]
      BY <3>2 DEF TypeOK, MarkDead, ReadyIn, Statuses
    <3>4. /\ has' \in [Pods -> SUBSET Writes] /\ misled' \subseteq Pods
          /\ stale' \in BOOLEAN
      BY <2>2, <3>2 DEF TypeOK, Acknowledge, Write, Running
    <3> QED
      BY <3>1, <3>2, <3>3, <3>4 DEF TypeOK, Acknowledge, syncVars
  <2>3. CASE WriteRefused(n, w)
    BY <2>3 DEF TypeOK, WriteRefused, MarkDead, ReadyIn, Statuses, electionVars, callVars, syncVars
  <2> QED BY <1>4, <2>1, <2>2, <2>3
<1>5. ASSUME NEW h \in seen, HealthApply(h) PROVE TypeOK'
  BY <1>5 DEF TypeOK, HealthApply, Statuses, electionVars, dataVars, syncVars
<1>7. CASE UNCHANGED vars
  BY <1>7 DEF TypeOK, vars
<1> QED
  BY <1>1, <1>2, <1>3, <1>4, <1>5, <1>7, <1>8 DEF Next

\* Types of the Lease, of the pods' views and of the calls under way, in every
\* behaviour.
THEOREM MembershipTypeCorrect == Spec => []TypeOK
<1>1. Init => TypeOK
  <2> SUFFICES ASSUME Init PROVE TypeOK
    OBVIOUS
  <2>1. stale \in BOOLEAN
    BY DEF Init
  <2> QED BY <2>1, MembershipAssumption DEF Init, TypeOK, Statuses
<1> QED
  BY <1>1, TypeStep, PTL DEF Spec

----------------------------------------------------------------------------
(* Addresses.                                                              *)

LEMMA AddressStep == TypeOK /\ AddressInv /\ [Next]_vars => AddressInv'
<1> SUFFICES ASSUME TypeOK, AddressInv, [Next]_vars PROVE AddressInv'
  OBVIOUS
<1> USE MembershipAssumption
<1>1. ASSUME NEW n \in Pods, Seize(n) PROVE AddressInv'
  BY <1>1 DEF Seize, AddressInv, TypeOK
<1>2. ASSUME NEW n \in Pods, Renew(n) \/ Restart(n) PROVE AddressInv'
  <2>1. /\ addr' = [addr EXCEPT ![n] = None] /\ unheard' = unheard \ {n}
        /\ holder' = holder
    BY <1>2 DEF Renew, Restart
  <2>2. ASSUME NEW S \in SUBSET (Pods \ unheard'), S # {}, \A m \in S : addr'[m] \in S
        PROVE  FALSE
    <3>1. n \notin S
      BY <2>1, <2>2 DEF TypeOK
    <3> QED BY <2>1, <2>2, <3>1 DEF AddressInv, TypeOK
  <2>3. \A m \in Pods : addr'[m] # m
    BY <2>1 DEF AddressInv, TypeOK
  <2>4. holder' \in Pods \ unheard' => addr'[holder'] = None
    BY <2>1 DEF AddressInv, TypeOK
  <2> QED BY <2>2, <2>3, <2>4 DEF AddressInv
<1>3. ASSUME NEW n \in Pods, Observe(n) PROVE AddressInv'
  <2>1. /\ addr' = [addr EXCEPT ![n] = holder] /\ unheard' = unheard \ {n}
        /\ holder' = holder /\ holder \in Pods \ {n}
    BY <1>3 DEF Observe, TypeOK
  <2>2. ASSUME NEW S \in SUBSET (Pods \ unheard'), S # {}, \A m \in S : addr'[m] \in S
        PROVE  FALSE
    <3>1. CASE n \in S
      <4>1. holder \in S /\ holder \notin unheard
        BY <2>1, <2>2, <3>1 DEF TypeOK
      <4> QED BY <2>1, <2>2, <4>1 DEF AddressInv, TypeOK
    <3>2. CASE n \notin S
      BY <2>1, <2>2, <3>2 DEF AddressInv, TypeOK
    <3> QED BY <3>1, <3>2
  <2>3. \A m \in Pods : addr'[m] # m
    BY <2>1 DEF AddressInv, TypeOK
  <2>4. holder' \in Pods \ unheard' => addr'[holder'] = None
    BY <2>1 DEF AddressInv, TypeOK
  <2> QED BY <2>2, <2>3, <2>4 DEF AddressInv
<1>4. CASE UNCHANGED <<holder, addr, unheard>>
  BY <1>4 DEF AddressInv
<1>5. ASSUME NEW n \in Pods, ViewNext(n) \/ CallNext(n)
      PROVE  UNCHANGED <<holder, addr, unheard>>
  BY <1>5 DEF ViewNext, CallNext, DiscoverFollowers, RebuildAliveFollowers, HealthAnswer,
              HealthFails, SyncAsks, LeaseExpires, SetStatus, SetStatusLost, electionVars
<1>8. ASSUME NEW h \in Handlers, SyncNext(h) PROVE UNCHANGED <<holder, addr, unheard>>
  BY <1>8 DEF SyncNext, SyncDrained, SyncGivenUp, SyncLists, SyncChanges, SyncFails, SyncEnds,
              electionVars
<1>6. ASSUME NEW n \in Pods, NEW w \in Writes,
             WriteBegins(n, w) \/ Write(n, w) \/ WriteRefused(n, w)
      PROVE  UNCHANGED <<holder, addr, unheard>>
  BY <1>6 DEF WriteBegins, Write, Acknowledge, WriteRefused, electionVars
<1>7. ASSUME (\E n \in Pods : Lapse(n)) \/ (\E h \in seen : HealthApply(h)) \/ UNCHANGED vars
      PROVE  UNCHANGED <<holder, addr, unheard>>
  BY <1>7 DEF Lapse, HealthApply, electionVars, vars
<1> QED
  BY <1>1, <1>2, <1>3, <1>4, <1>5, <1>6, <1>7, <1>8 DEF Next, ElectionNext

\* A request is forwarded round in circles only while some pod in the circle has
\* taken the Lease and has not yet had the answer (or seen the next holder).
THEOREM ProxyLoopsEnd == Spec => []NoProxyLoop
<1>1. Init => AddressInv
  BY MembershipAssumption DEF Init, AddressInv
<1>2. TypeOK /\ AddressInv => NoProxyLoop
  BY DEF AddressInv, NoProxyLoop
<1> QED
  BY <1>1, <1>2, AddressStep, MembershipTypeCorrect, PTL DEF Spec

----------------------------------------------------------------------------
(* Data: what the holder of the Lease and its followers hold.              *)

\* Handlers that go on for the same pods, and in their term only with the same
\* lists.
KeptHandlers ==
  \A h \in Handlers : sync'[h] # None =>
    /\ sync[h] # None /\ sync'[h].at = sync[h].at /\ sync'[h].of = sync[h].of
    /\ sync'[h].term => /\ sync[h].term /\ sync'[h].pc = sync[h].pc
                        /\ sync'[h].ours = sync[h].ours /\ sync'[h].theirs = sync[h].theirs

\* Steps that change no data and trust nobody anew keep what is known about it;
\* writes and handlers may end.
LEMMA QuietStep ==
  ASSUME TypeOK, TypeOK', DataInv, UNCHANGED <<holder, has, misled, stale, acked>>,
         KeptHandlers,
         \A w \in Writes : open'[w] # None => open'[w] = open[w],
         \A n \in Pods : trusted'[n] \subseteq trusted[n]
  PROVE  GateInv' /\ TermInv' /\ AgreeInv'
<1>1. GateInv'
  <2>1. \A m : Running(m)' \subseteq Running(m)
    BY DEF Running
  <2> QED BY <2>1 DEF DataInv, GateInv, KeptHandlers
<1>2. TermInv'
  BY DEF DataInv, TermInv, KeptHandlers
<1>3. AgreeInv'
  BY DEF DataInv, AgreeInv, TypeOK
<1> QED BY <1>1, <1>2, <1>3

\* MarkDead takes the followers out of all three: status, list and trust.
LEMMA MarkDeadStep ==
  ASSUME TypeOK, TrustInv, NEW n \in Pods, NEW F \in SUBSET Pods, MarkDead(n, F)
  PROVE  /\ TrustInv'
         /\ \A m \in Pods : trusted'[m] \subseteq trusted[m]
         /\ trusted'[n] \intersect F = {}
<1> DEFINE known == {x \in F : view[n][x] # None}
           states == [x \in Pods |-> IF x \in known THEN "OFFLINE" ELSE view[n][x]]
<1>1. /\ view' = [view EXCEPT ![n] = states]
      /\ trusted' = [trusted EXCEPT ![n] = @ \ known]
      /\ alive' = IF known = {} THEN alive ELSE [alive EXCEPT ![n] = ReadyIn(states)]
  BY DEF MarkDead
<1>2. \A m \in Pods : trusted'[m] \subseteq trusted[m]
  BY <1>1 DEF TypeOK
<1>3. trusted'[n] = trusted[n] \ known
  BY <1>1 DEF TypeOK
<1>4. trusted'[n] \intersect F = {}
  BY <1>3, MembershipAssumption DEF TrustInv, TypeOK
<1>5. ASSUME NEW m \in Pods, NEW x \in trusted'[m]
      PROVE  x # m /\ view'[m][x] = "READY" /\ x \in alive'[m]
  <2>1. x \in Pods /\ x # m /\ view[m][x] = "READY" /\ x \in alive[m]
    BY <1>2, <1>5 DEF TrustInv, TypeOK
  <2>2. CASE m = n
    <3>1. x \notin known
      BY <1>3, <1>5, <2>2
    <3>2. states[x] = "READY" /\ view'[n] = states
      BY <1>1, <2>1, <2>2, <3>1 DEF TypeOK
    <3> QED BY <1>1, <2>1, <2>2, <3>2 DEF ReadyIn, TypeOK
  <2>3. CASE m # n
    BY <1>1, <2>1, <2>3 DEF TypeOK
  <2> QED BY <2>2, <2>3
<1> QED BY <1>2, <1>4, <1>5 DEF TrustInv

\* MarkAlive puts a follower into all three, or trusts nobody.
LEMMA MarkAliveStep ==
  ASSUME TypeOK, TrustInv, NEW n \in Pods, NEW x \in Pods, x # n,
         NEW inTerm \in BOOLEAN, MarkAlive(n, x, inTerm)
  PROVE  /\ TrustInv'
         /\ \A m \in Pods : trusted'[m] \subseteq trusted[m] \union {x}
         /\ ~inTerm => trusted' = trusted
<1>1. CASE view[n][x] = None
  <2>1. UNCHANGED <<view, alive, trusted>>
    BY <1>1 DEF MarkAlive, viewVars
  <2> QED BY <2>1 DEF TrustInv
<1>2. CASE view[n][x] # None
  <2>1. /\ view' = [view EXCEPT ![n][x] = "READY"]
        /\ alive' = [alive EXCEPT ![n] = ReadyIn(view'[n])]
        /\ trusted' = [trusted EXCEPT ![n] = IF inTerm THEN @ \union {x} ELSE @]
    BY <1>2 DEF MarkAlive
  <2>2. /\ \A m \in Pods : /\ trusted'[m] \subseteq trusted[m] \union {x}
                           /\ m # n => trusted'[m] = trusted[m]
        /\ ~inTerm => trusted' = trusted
    BY <2>1 DEF TypeOK
  <2>3. ASSUME NEW m \in Pods, NEW y \in trusted'[m]
        PROVE  y # m /\ view'[m][y] = "READY" /\ y \in alive'[m]
    <3>1. CASE m = n
      <4>1. y = x \/ y \in trusted[n]
        BY <2>2, <2>3, <3>1
      <4>2. y \in Pods /\ y # n /\ (y = x \/ view[n][y] = "READY")
        BY <4>1 DEF TrustInv, TypeOK
      <4>3. view'[n][y] = "READY"
        BY <2>1, <4>2 DEF TypeOK
      <4> QED BY <2>1, <3>1, <4>2, <4>3 DEF ReadyIn, TypeOK
    <3>2. CASE m # n
      BY <2>1, <2>2, <2>3, <3>2 DEF TrustInv, TypeOK
    <3> QED BY <3>1, <3>2
  <2> QED BY <2>2, <2>3 DEF TrustInv
<1> QED BY <1>1, <1>2

\* Discovery keeps trust only in followers it has found, and so their status.
LEMMA DiscoveredStep ==
  ASSUME TypeOK, TrustInv, NEW a \in Pods, NEW E \in SUBSET Pods, alive' = alive,
         \A x \in Pods : Discovered(a, E)[x] = "READY" => view'[a][x] = "READY",
         \A m \in Pods \ {a} : view'[m] = view[m],
         trusted' = [trusted EXCEPT ![a] = @ \intersect E]
  PROVE  TrustInv' /\ \A m \in Pods : trusted'[m] \subseteq trusted[m]
<1>1. \A m \in Pods : trusted'[m] \subseteq trusted[m]
  BY DEF TypeOK
<1>2. ASSUME NEW m \in Pods, NEW x \in trusted'[m]
      PROVE  x # m /\ view'[m][x] = "READY" /\ x \in alive'[m]
  <2>1. x \in Pods /\ x # m /\ view[m][x] = "READY" /\ x \in alive[m]
    BY <1>1, <1>2 DEF TrustInv, TypeOK
  <2>2. CASE m = a
    <3>1. x \in E
      BY <1>2, <2>2 DEF TypeOK
    <3>2. Discovered(a, E)[x] = "READY"
      BY <2>1, <2>2, <3>1, MembershipAssumption DEF Discovered
    <3> QED BY <2>1, <2>2, <3>2 DEF TypeOK
  <2>3. CASE m # a
    BY <2>1, <2>3 DEF TypeOK
  <2> QED BY <2>2, <2>3
<1> QED BY <1>1, <1>2 DEF TrustInv

\* The Lease changes hands: nothing that is under way is in its term any more.
LEMMA SeizeStep ==
  ASSUME TypeOK, DataInv, NEW n \in Pods, Seize(n)
  PROVE  DataInv'
<1>1. /\ holder' = n /\ trusted' = [trusted EXCEPT ![n] = {}]
      /\ stale' = (stale \/ ~(acked \subseteq has[n]))
      /\ sync' = OutOfTerm(sync, Handlers) /\ open' = OutOfTerm(open, Writes)
      /\ UNCHANGED <<view, alive, has, acked, misled>>
  BY DEF Seize
<1>2. GateInv'
  <2>1. \A h \in Handlers : sync'[h] # None => ~sync'[h].term
    BY <1>1, OutOfTermSync
  <2> QED BY <1>1, <2>1, OutOfTermSync DEF DataInv, GateInv
<1>3. TermInv'
  BY <1>1, OutOfTermSync, OutOfTermOpen DEF TermInv
<1>4. TrustInv'
  BY <1>1 DEF DataInv, TrustInv, TypeOK
<1>5. trusted'[n] = {}
  BY <1>1 DEF TypeOK
<1>6. AgreeInv'
  BY <1>1, <1>5 DEF AgreeInv
<1> QED BY <1>2, <1>3, <1>4, <1>6 DEF DataInv

\* A write in its term reaches every trusted follower that stays READY; any
\* other marks the pods it changes.
LEMMA WriteStep ==
  ASSUME TypeOK, DataInv, NEW n \in Pods, NEW w \in Writes, Write(n, w)
  PROVE  DataInv'
<1>0. PICK C \in SUBSET alive[n] :
             Acknowledge(n, w, C \union {n}) /\ MarkDead(n, alive[n] \ C)
  BY DEF Write
<1> DEFINE D == C \union {n}
<1>1. /\ open[w] # None /\ open[w].at = n /\ open[w] \in [at : Pods, term : BOOLEAN]
      /\ w \in Running(n)
  BY DEF Write, Running, TypeOK
<1>2. /\ has' = [x \in Pods |-> IF x \in D THEN has[x] \union {w} ELSE has[x]]
      /\ acked' = acked \union {w} /\ open' = [open EXCEPT ![w] = None]
      /\ stale' = (stale \/ ~open[w].term) /\ holder' = holder
  BY <1>0 DEF Acknowledge
<1>3. alive[n] \subseteq Pods
  BY DEF TypeOK
<1>4. /\ TrustInv' /\ \A m \in Pods : trusted'[m] \subseteq trusted[m]
      /\ trusted'[n] \intersect (alive[n] \ C) = {}
  BY <1>0, <1>3, MarkDeadStep DEF DataInv
<1>5. CASE open[w].term
  <2>1. UNCHANGED <<misled, sync>> /\ holder = n /\ stale' = stale
    BY <1>0, <1>1, <1>2, <1>5 DEF Acknowledge, DataInv, TermInv, TypeOK
  <2>2. \A h \in Handlers : sync[h] # None => ~sync[h].term
    BY <1>1, <2>1 DEF DataInv, GateInv, TermInv
  <2>3. GateInv'
    BY <2>1, <2>2 DEF DataInv, GateInv
  <2>4. TermInv'
    <3>1. \A v \in Writes : open'[v] # None => open'[v] = open[v]
      BY <1>2 DEF TypeOK
    <3> QED BY <1>2, <2>1, <2>2, <3>1 DEF DataInv, TermInv
  <2>5. AgreeInv'
    <3> SUFFICES ASSUME n \notin misled
                 PROVE  /\ \A x \in trusted'[n] \ misled : has'[x] = has'[n]
                        /\ ~stale => acked' \subseteq has'[n]
      BY <1>2, <2>1 DEF AgreeInv
    <3>1. has'[n] = has[n] \union {w}
      BY <1>2
    <3>2. ASSUME NEW x \in trusted'[n] \ misled PROVE has'[x] = has'[n]
      <4>1. x \in trusted[n] /\ x \in alive[n]
        BY <1>4, <3>2 DEF DataInv, TrustInv
      <4>2. x \in C /\ x \in Pods
        BY <1>3, <1>4, <3>2, <4>1
      <4>3. has[x] = has[n]
        BY <2>1, <3>2, <4>1 DEF DataInv, AgreeInv
      <4> QED BY <1>2, <3>1, <4>2, <4>3
    <3>3. ~stale => acked \subseteq has[n]
      BY <2>1 DEF DataInv, AgreeInv
    <3> QED BY <1>2, <3>1, <3>2, <3>3
  <2> QED BY <1>4, <2>3, <2>4, <2>5 DEF DataInv
<1>6. CASE ~open[w].term
  <2>1. misled' = misled \union D /\ sync' = OutOfTerm(sync, HandlersFor(D)) /\ stale'
    BY <1>0, <1>2, <1>6 DEF Acknowledge
  <2>2. \A x \in Pods \ D : has'[x] = has[x]
    BY <1>2
  <2>3. GateInv'
    <3>1. \A v \in Writes : open'[v] # None => open'[v] = open[v]
      BY <1>2 DEF TypeOK
    <3>2. ASSUME NEW h \in Handlers, sync'[h] # None
          PROVE  /\ sync[h] # None /\ sync'[h].at = sync[h].at /\ sync'[h].of = sync[h].of
                 /\ sync'[h].pc = sync[h].pc
                 /\ sync'[h].term => sync[h].term
      BY <2>1, <3>2, OutOfTermSync
    <3>3. ASSUME NEW h \in Handlers, sync'[h] # None
          PROVE  /\ sync'[h].at # sync'[h].of
                 /\ sync'[h].term =>
                      /\ sync'[h].pc = "listed"
                      /\ \A v \in Writes : ~(open[v] # None /\ open[v].at = sync'[h].at)
      BY <3>2, <3>3 DEF DataInv, GateInv, Running
    <3> QED BY <3>1, <3>3 DEF GateInv, Running
  <2>4. TermInv'
    <3>1. \A v \in Writes : open'[v] # None => open'[v] = open[v]
      BY <1>2 DEF TypeOK
    <3>2. ASSUME NEW h \in Handlers, sync'[h] # None, sync'[h].term
          PROVE  /\ sync'[h].at = holder'
                 /\ holder' \notin misled' =>
                      /\ sync'[h].theirs = has'[holder']
                      /\ has'[sync'[h].of] \subseteq sync'[h].ours \union sync'[h].theirs
                      /\ sync'[h].ours \intersect sync'[h].theirs \subseteq has'[sync'[h].of]
      <4>1. /\ sync[h] # None /\ sync[h].term /\ h \notin HandlersFor(D)
            /\ sync'[h].at = sync[h].at /\ sync'[h].ours = sync[h].ours
            /\ sync'[h].of = sync[h].of /\ sync'[h].theirs = sync[h].theirs
        BY <2>1, <3>2, OutOfTermSync
      <4>2. sync[h].at \in Pods /\ sync[h].of \in Pods \ D
        BY <4>1 DEF TypeOK, SyncRecords, HandlersFor
      <4> QED BY <1>2, <2>1, <2>2, <4>1, <4>2 DEF DataInv, TermInv
    <3>3. \A v \in Writes : open'[v] # None /\ open'[v].term => open'[v].at = holder'
      BY <1>2, <3>1 DEF DataInv, TermInv
    <3> QED BY <3>2, <3>3 DEF TermInv
  <2>5. AgreeInv'
    BY <1>2, <1>4, <2>1, <2>2 DEF DataInv, AgreeInv, TypeOK
  <2> QED BY <1>4, <2>3, <2>4, <2>5 DEF DataInv
<1> QED BY <1>1, <1>5, <1>6

\* The handlers of the pod that admits a write are out of their term.
LEMMA WriteBeginsStep ==
  ASSUME TypeOK, DataInv, NEW n \in Pods, NEW w \in Writes, WriteBegins(n, w)
  PROVE  DataInv'
<1>1. /\ open' = [open EXCEPT ![w] = [at |-> n, term |-> holder = n]]
      /\ sync' = OutOfTerm(sync, HandlersAt(n))
      /\ UNCHANGED <<holder, view, alive, trusted, has, acked, misled, stale>>
  BY DEF WriteBegins, electionVars, viewVars
<1>2. ASSUME NEW h \in Handlers, sync'[h] # None
      PROVE  /\ sync[h] # None /\ sync'[h].at = sync[h].at /\ sync'[h].of = sync[h].of
             /\ sync'[h].theirs = sync[h].theirs /\ sync'[h].ours = sync[h].ours
             /\ sync'[h].pc = sync[h].pc
             /\ sync'[h].term => sync[h].term /\ sync[h].at # n
  BY <1>1, <1>2, OutOfTermSync DEF HandlersAt
<1>3. GateInv'
  <2>2. \A h \in Handlers : sync[h] # None => sync[h].at \in Pods
    BY DEF TypeOK, SyncRecords
  <2>3. ASSUME NEW h \in Handlers, sync'[h] # None, sync'[h].term
        PROVE  \A v \in Writes : ~(open'[v] # None /\ open'[v].at = sync'[h].at)
    <3>1. sync[h].at \in Pods \ {n} /\ sync'[h].at = sync[h].at
      BY <1>2, <2>2, <2>3
    <3>2. \A v \in Writes : ~(open[v] # None /\ open[v].at = sync[h].at)
      BY <1>2, <2>3 DEF DataInv, GateInv, Running
    <3>3. \A v \in Writes : open'[v] = open[v] \/ open'[v] = [at |-> n, term |-> holder = n]
      BY <1>1 DEF TypeOK
    <3> QED BY <3>1, <3>2, <3>3
  <2>4. \A h \in Handlers : sync'[h] # None =>
          sync'[h].at # sync'[h].of /\ (sync'[h].term => sync'[h].pc = "listed")
    BY <1>2 DEF DataInv, GateInv
  <2> QED BY <2>3, <2>4 DEF GateInv, Running
<1>4. TermInv'
  <2>1. \A v \in Writes : open'[v] # None /\ open'[v].term => open'[v].at = holder
    BY <1>1 DEF DataInv, TermInv, TypeOK
  <2> QED BY <1>1, <1>2, <2>1 DEF DataInv, TermInv
<1>5. TrustInv' /\ AgreeInv'
  BY <1>1 DEF DataInv, TrustInv, AgreeInv
<1> QED BY <1>3, <1>4, <1>5 DEF DataInv

\* A pod asks another one; its handler has not listed anything.
LEMMA SyncAsksStep ==
  ASSUME TypeOK, TypeOK', AddressInv, DataInv, NEW x \in Pods, NEW h \in Handlers,
         SyncAsks(x, h)
  PROVE  DataInv'
<1>1. /\ addr[x] \in Pods /\ addr[x] # x
      /\ sync' = [sync EXCEPT ![h] = [of |-> x, at |-> addr[x], pc |-> "draining",
                    asked |-> TRUE, theirs |-> {}, ours |-> {}, term |-> FALSE]]
      /\ UNCHANGED <<holder, stale, view, alive, trusted, has, open, acked, misled>>
  BY DEF SyncAsks, AddressInv, TypeOK, electionVars, viewVars, dataVars
<1>2. \A g \in Handlers \ {h} : sync'[g] = sync[g]
  BY <1>1 DEF TypeOK
<1>3. sync'[h].at # sync'[h].of /\ ~sync'[h].term
  BY <1>1 DEF TypeOK
<1>4. GateInv'
  BY <1>1, <1>2, <1>3 DEF DataInv, GateInv, Running
<1>5. TermInv'
  BY <1>1, <1>2, <1>3 DEF DataInv, TermInv
<1>6. TrustInv' /\ AgreeInv'
  BY <1>1 DEF DataInv, TrustInv, AgreeInv
<1> QED BY <1>4, <1>5, <1>6 DEF DataInv

\* The lists are what both sides hold.
LEMMA SyncListsStep ==
  ASSUME TypeOK, TypeOK', DataInv, NEW h \in Handlers, SyncLists(h)
  PROVE  DataInv'
<1> DEFINE a == sync[h].at
           x == sync[h].of
<1>0. sync[h] # None /\ sync[h] \in SyncRecords
  BY DEF SyncLists, TypeOK
<1>1. /\ a \in Pods /\ x \in Pods /\ a # x
      /\ UNCHANGED <<holder, stale, alive, has, open, acked, misled>>
  BY <1>0 DEF SyncLists, SyncRecords, DataInv, GateInv, electionVars, dataVars
<1>2. TrustInv' /\ \A m \in Pods : trusted'[m] \subseteq trusted[m]
  <2>1. PICK E \in SUBSET Pods :
          LET states == IF IsLeader(a) THEN Discovered(a, E) ELSE view[a] IN
          /\ view' = [view EXCEPT ![a] = RegisterFollower(states, x)]
          /\ trusted' = [trusted EXCEPT ![a] = IF IsLeader(a) THEN @ \intersect E ELSE @]
    BY DEF SyncLists
  <2>2. CASE IsLeader(a)
    <3>1. /\ view' = [view EXCEPT ![a] = RegisterFollower(Discovered(a, E), x)]
          /\ trusted' = [trusted EXCEPT ![a] = @ \intersect E]
      BY <2>1, <2>2
    <3>2. /\ \A y \in Pods : Discovered(a, E)[y] = "READY" => view'[a][y] = "READY"
          /\ \A m \in Pods \ {a} : view'[m] = view[m]
      BY <1>1, <3>1, MembershipAssumption DEF RegisterFollower, Discovered, TypeOK
    <3> QED BY <1>1, <3>1, <3>2, DiscoveredStep DEF DataInv
  <2>3. CASE ~IsLeader(a)
    <3>1. /\ view' = [view EXCEPT ![a] = RegisterFollower(view[a], x)]
          /\ trusted' = [trusted EXCEPT ![a] = @]
      BY <2>1, <2>3
    <3>2. trusted' = trusted
      BY <3>1 DEF TypeOK
    <3>3. \A m, y \in Pods : view[m][y] = "READY" => view'[m][y] = "READY"
      BY <1>1, <3>1, MembershipAssumption DEF RegisterFollower, TypeOK
    <3>4. \A m \in Pods : trusted[m] \subseteq Pods
      BY DEF TypeOK
    <3> QED BY <1>1, <3>2, <3>3, <3>4 DEF DataInv, TrustInv
  <2> QED BY <2>2, <2>3
<1>3. \A g \in Handlers \ {h} : sync'[g] = sync[g]
  BY DEF SyncLists, TypeOK
<1>4. /\ sync'[h].of = x /\ sync'[h].at = a /\ sync'[h].pc = "listed"
      /\ sync'[h].theirs = has[a] /\ sync'[h].ours = has[x]
      /\ sync'[h].term <=> holder = a /\ Running(a) = {}
  <2>1. sync' = [sync EXCEPT ![h] = [sync[h] EXCEPT !.pc = "listed", !.theirs = has[a],
                     !.ours = has[x], !.term = holder = a /\ Running(a) = {}]]
    BY <1>0 DEF SyncLists, TypeOK, SyncRecords
  <2>2. sync'[h] = [sync[h] EXCEPT !.pc = "listed", !.theirs = has[a],
                      !.ours = has[x], !.term = holder = a /\ Running(a) = {}]
    BY <2>1 DEF TypeOK
  <2> QED BY <1>0, <2>2 DEF SyncRecords
<1>5. GateInv'
  <2>1. \A m : Running(m)' = Running(m)
    BY <1>1 DEF Running
  <2>2. ASSUME NEW g \in Handlers, sync'[g] # None
        PROVE  /\ sync'[g].at # sync'[g].of
               /\ sync'[g].term => sync'[g].pc = "listed" /\ Running(sync'[g].at) = {}
    BY <1>1, <1>3, <1>4, <2>2 DEF DataInv, GateInv
  <2> QED BY <1>1, <2>2 DEF GateInv, Running
<1>6. TermInv'
  <2>1. ASSUME NEW g \in Handlers, sync'[g] # None, sync'[g].term
        PROVE  /\ sync'[g].at = holder
               /\ holder \notin misled =>
                    /\ sync'[g].theirs = has[holder]
                    /\ has[sync'[g].of] \subseteq sync'[g].ours \union sync'[g].theirs
                    /\ sync'[g].ours \intersect sync'[g].theirs \subseteq has[sync'[g].of]
    BY <1>3, <1>4, <2>1 DEF DataInv, TermInv
  <2> QED BY <1>1, <2>1 DEF DataInv, TermInv
<1>7. AgreeInv'
  BY <1>1, <1>2 DEF DataInv, AgreeInv, TypeOK
<1> QED BY <1>2, <1>5, <1>6, <1>7 DEF DataInv

\* What a handler out of its term changes is marked, with the other handlers of
\* its follower.
LEMMA LateHandlerStep ==
  ASSUME TypeOK, TypeOK', DataInv, TrustInv', NEW h \in Handlers,
         sync[h] # None, ~sync[h].term,
         misled' = misled \union {sync[h].of},
         \/ sync' = OutOfTerm(sync, HandlersFor({sync[h].of}))
         \/ sync' = [OutOfTerm(sync, HandlersFor({sync[h].of})) EXCEPT ![h] = None],
         UNCHANGED <<holder, stale, acked, open, trusted>>,
         \A y \in Pods \ {sync[h].of} : has'[y] = has[y]
  PROVE  DataInv'
<1> DEFINE x == sync[h].of
           O == OutOfTerm(sync, HandlersFor({x}))
<1>1. O \in [Handlers -> SyncRecords \union {None}]
  BY OutOfTermSync
<1>2. ASSUME NEW g \in Handlers, sync'[g] # None
      PROVE  /\ sync[g] # None /\ sync'[g].at = sync[g].at /\ sync'[g].of = sync[g].of
             /\ sync'[g].theirs = sync[g].theirs /\ sync'[g].ours = sync[g].ours
             /\ sync'[g].pc = sync[g].pc
             /\ sync'[g].term => sync[g].term /\ sync[g].of # x
             /\ sync[g].at \in Pods /\ sync[g].of \in Pods
  <2>1. sync'[g] = O[g]
    BY <1>1, <1>2
  <2>2. O[g] # None
    BY <1>2, <2>1
  <2>3. sync[g] # None /\ sync[g] \in SyncRecords
    BY <2>2, OutOfTermSync DEF TypeOK
  <2>4. g \notin HandlersFor({x}) => sync[g].of # x
    BY <2>3 DEF HandlersFor
  <2> HIDE DEF O
  <2>5. /\ O[g].at = sync[g].at /\ O[g].of = sync[g].of /\ O[g].pc = sync[g].pc
        /\ O[g].theirs = sync[g].theirs /\ O[g].ours = sync[g].ours
        /\ O[g].term => g \notin HandlersFor({x}) /\ sync[g].term
    BY <2>2, OutOfTermSync DEF O
  <2> QED BY <2>1, <2>3, <2>4, <2>5 DEF SyncRecords
<1>3. GateInv'
  <2>1. \A m : Running(m)' = Running(m)
    BY DEF Running
  <2>2. \A g \in Handlers : sync'[g] # None =>
          /\ sync'[g].at # sync'[g].of
          /\ sync'[g].term => sync'[g].pc = "listed" /\ Running(sync'[g].at) = {}
    BY <1>2 DEF DataInv, GateInv
  <2> QED BY <2>2 DEF GateInv, Running
<1>4. TermInv'
  <2>1. ASSUME NEW g \in Handlers, sync'[g] # None, sync'[g].term
        PROVE  /\ sync'[g].at = holder
               /\ holder \notin misled' =>
                    /\ sync'[g].theirs = has'[holder]
                    /\ has'[sync'[g].of] \subseteq sync'[g].ours \union sync'[g].theirs
                    /\ sync'[g].ours \intersect sync'[g].theirs \subseteq has'[sync'[g].of]
    <3>1. sync[g] # None /\ sync[g].term /\ sync[g].of \in Pods \ {x} /\ sync[g].at = holder
      BY <1>2, <2>1 DEF DataInv, TermInv
    <3>2. holder \in Pods
      BY <1>2, <2>1, <3>1
    <3>3. holder \notin misled' => holder \notin misled /\ holder # x
      OBVIOUS
    <3> QED BY <1>2, <2>1, <3>1, <3>2, <3>3 DEF DataInv, TermInv
  <2> QED BY <2>1 DEF DataInv, TermInv
<1>5. AgreeInv'
  BY DEF DataInv, AgreeInv, TypeOK
<1> QED BY <1>3, <1>4, <1>5 DEF DataInv

\* One that is in its term only pushes what the holder holds, and deletes what it
\* does not hold.
LEMMA SyncChangesStep ==
  ASSUME TypeOK, TypeOK', DataInv, NEW h \in Handlers, SyncChanges(h)
  PROVE  DataInv'
<1> DEFINE s == sync[h]
<1>1. /\ s # None /\ s \in SyncRecords /\ s.at \in Pods /\ s.of \in Pods /\ s.at # s.of
      /\ UNCHANGED <<holder, stale, acked, open, view, alive, trusted>>
  BY DEF SyncChanges, Pushing, TypeOK, SyncRecords, DataInv, GateInv, electionVars, viewVars
<1>2. /\ \A y \in Pods \ {s.of} : has'[y] = has[y]
      /\ \E w \in Writes :
           \/ w \in s.theirs \ s.ours /\ has'[s.of] = has[s.of] \union {w}
           \/ w \in s.ours \ s.theirs /\ has'[s.of] = has[s.of] \ {w}
  <2>1. PICK w :
           \/ w \in s.theirs \ s.ours /\ has' = [has EXCEPT ![s.of] = @ \union {w}]
           \/ w \in s.ours \ s.theirs /\ has' = [has EXCEPT ![s.of] = @ \ {w}]
    BY DEF SyncChanges
  <2>2. w \in Writes
    BY <1>1, <2>1 DEF SyncRecords
  <2> QED BY <1>1, <2>1, <2>2 DEF TypeOK
<1>3. TrustInv'
  BY <1>1 DEF DataInv, TrustInv
<1>4. CASE ~s.term
  BY <1>1, <1>2, <1>3, <1>4, LateHandlerStep DEF SyncChanges
<1>5. CASE s.term
  <2>1. UNCHANGED <<misled, sync>> /\ s.at = holder /\ holder \in Pods
    BY <1>1, <1>5 DEF SyncChanges, DataInv, TermInv
  <2>2. GateInv'
    BY <1>1, <2>1 DEF DataInv, GateInv, Running
  <2>3. ASSUME holder \notin misled
        PROVE  /\ s.theirs = has[holder] /\ has'[holder] = has[holder]
               /\ has'[s.of] \subseteq has[s.of] \union s.theirs
               /\ has[s.of] \intersect s.theirs \subseteq has'[s.of]
    BY <1>1, <1>2, <1>5, <2>1, <2>3 DEF DataInv, TermInv
  <2>4. TermInv'
    <3>1. ASSUME NEW g \in Handlers, sync[g] # None, sync[g].term, holder \notin misled
          PROVE  /\ sync[g].theirs = has'[holder]
                 /\ has'[sync[g].of] \subseteq sync[g].ours \union sync[g].theirs
                 /\ sync[g].ours \intersect sync[g].theirs \subseteq has'[sync[g].of]
      <4>1. /\ sync[g].theirs = has[holder] /\ sync[g].of \in Pods
            /\ has[sync[g].of] \subseteq sync[g].ours \union sync[g].theirs
            /\ sync[g].ours \intersect sync[g].theirs \subseteq has[sync[g].of]
        BY <3>1 DEF DataInv, TermInv, TypeOK, SyncRecords
      <4>2. CASE sync[g].of = s.of
        BY <2>3, <3>1, <4>1, <4>2
      <4>3. CASE sync[g].of # s.of
        BY <1>2, <2>3, <3>1, <4>1, <4>3
      <4> QED BY <4>2, <4>3
    <3> QED BY <1>1, <2>1, <3>1 DEF DataInv, TermInv
  <2>5. AgreeInv'
    <3> SUFFICES ASSUME holder \notin misled
                 PROVE  /\ \A y \in trusted[holder] \ misled : has'[y] = has'[holder]
                        /\ ~stale => acked \subseteq has'[holder]
      BY <1>1, <2>1 DEF AgreeInv
    <3>1. ASSUME NEW y \in trusted[holder] \ misled PROVE has'[y] = has'[holder]
      <4>1. y \in Pods /\ has[y] = has[holder]
        BY <2>1, <3>1 DEF DataInv, AgreeInv, TypeOK
      <4>2. CASE y = s.of
        BY <1>2, <2>3, <4>1, <4>2
      <4>3. CASE y # s.of
        BY <1>2, <2>3, <4>1, <4>3
      <4> QED BY <4>2, <4>3
    <3> QED BY <2>1, <2>3, <3>1 DEF DataInv, AgreeInv
  <2> QED BY <1>3, <2>2, <2>4, <2>5 DEF DataInv
<1> QED BY <1>1, <1>4, <1>5 DEF SyncRecords

\* A handler in its term makes the follower equal to the holder; any other marks
\* it.
LEMMA SyncEndsStep ==
  ASSUME TypeOK, TypeOK', DataInv, NEW h \in Handlers, NEW answered \in BOOLEAN,
         SyncEnds(h, answered)
  PROVE  DataInv'
<1> DEFINE s == sync[h]
           x == s.of
<1>1. /\ s # None /\ s \in SyncRecords /\ s.at \in Pods /\ x \in Pods /\ s.at # x
      /\ s.term \in BOOLEAN
  BY DEF SyncEnds, Pushing, TypeOK, SyncRecords, DataInv, GateInv
<1>2. /\ has' = [has EXCEPT ![x] = (@ \union (s.theirs \ s.ours)) \ (s.ours \ s.theirs)]
      /\ MarkAlive(s.at, x, s.term)
      /\ UNCHANGED <<holder, stale, acked, open>>
  BY DEF SyncEnds, electionVars
<1>3. /\ TrustInv' /\ \A m \in Pods : trusted'[m] \subseteq trusted[m] \union {x}
      /\ ~s.term => trusted' = trusted
  BY <1>1, <1>2, MarkAliveStep DEF DataInv
<1>5. \A y \in Pods \ {x} : has'[y] = has[y]
  BY <1>2 DEF TypeOK
<1>7. CASE s.term
  <2>1. /\ s.at = holder /\ holder \in Pods /\ holder # x
        /\ misled' = misled \ {x} /\ sync' = [sync EXCEPT ![h] = None]
    BY <1>1, <1>7 DEF SyncEnds, DataInv, TermInv
  <2>2. holder \notin misled => has'[x] = has[holder] /\ has'[holder] = has[holder]
    <3>1. holder \notin misled => /\ s.theirs = has[holder]
                                 /\ has[x] \subseteq s.ours \union s.theirs
                                 /\ s.ours \intersect s.theirs \subseteq has[x]
      BY <1>1, <1>7 DEF DataInv, TermInv
    <3>2. has'[x] = (has[x] \union (s.theirs \ s.ours)) \ (s.ours \ s.theirs)
      BY <1>1, <1>2 DEF TypeOK
    <3>3. s.theirs \subseteq Writes /\ s.ours \subseteq Writes /\ has[x] \subseteq Writes
      BY <1>1 DEF SyncRecords, TypeOK
    <3> HIDE DEF s, x
    <3>4. holder \notin misled => has'[x] = s.theirs
      BY <3>1, <3>2
    <3> QED BY <1>5, <2>1, <3>1, <3>4
  <2>3. holder \notin misled' <=> holder \notin misled
    BY <2>1
  <2>4. \A g \in Handlers : sync'[g] # None => g # h /\ sync'[g] = sync[g]
    BY <2>1 DEF TypeOK
  <2>5. GateInv'
    BY <1>2, <2>4 DEF DataInv, GateInv, Running
  <2>6. TermInv'
    <3>1. ASSUME NEW g \in Handlers, sync'[g] # None, sync'[g].term
          PROVE  /\ sync[g].at = holder
                 /\ holder \notin misled =>
                      /\ sync[g].theirs = has'[holder]
                      /\ has'[sync[g].of] \subseteq sync[g].ours \union sync[g].theirs
                      /\ sync[g].ours \intersect sync[g].theirs \subseteq has'[sync[g].of]
      <4>1. /\ sync[g].at = holder
            /\ holder \notin misled =>
                 /\ sync[g].theirs = has[holder] /\ sync[g].of \in Pods
                 /\ has[sync[g].of] \subseteq sync[g].ours \union sync[g].theirs
                 /\ sync[g].ours \intersect sync[g].theirs \subseteq has[sync[g].of]
        BY <2>4, <3>1 DEF DataInv, TermInv, TypeOK, SyncRecords
      <4>2. CASE sync[g].of = x
        BY <2>2, <4>1, <4>2
      <4>3. CASE sync[g].of # x
        BY <1>5, <2>2, <4>1, <4>3
      <4> QED BY <4>2, <4>3
    <3>2. \A v \in Writes : open'[v] # None /\ open'[v].term => open'[v].at = holder'
      BY <1>2 DEF DataInv, TermInv
    <3> QED BY <1>2, <2>3, <2>4, <3>1, <3>2 DEF TermInv
  <2>7. AgreeInv'
    <3> SUFFICES ASSUME holder \notin misled
                 PROVE  /\ \A y \in trusted'[holder] \ misled' : has'[y] = has'[holder]
                        /\ ~stale => acked \subseteq has'[holder]
      BY <1>2, <2>3 DEF AgreeInv
    <3>1. ASSUME NEW y \in trusted'[holder] \ misled', y # x PROVE has'[y] = has'[holder]
      <4>1. y \in trusted[holder] \ misled /\ y \in Pods
        BY <1>3, <2>1, <3>1 DEF TypeOK
      <4>2. has[y] = has[holder]
        BY <2>1, <4>1 DEF DataInv, AgreeInv
      <4> QED BY <1>5, <2>2, <3>1, <4>1, <4>2
    <3> QED BY <2>1, <2>2, <3>1 DEF DataInv, AgreeInv
  <2> QED BY <1>3, <2>5, <2>6, <2>7 DEF DataInv
<1>8. CASE ~s.term
  <2>1. /\ misled' = misled \union {x} /\ trusted' = trusted
        /\ sync' = [OutOfTerm(sync, HandlersFor({x})) EXCEPT ![h] = None]
    BY <1>3, <1>8 DEF SyncEnds
  <2> QED BY <1>1, <1>2, <1>3, <1>5, <1>8, <2>1, LateHandlerStep
<1> QED BY <1>1, <1>7, <1>8

\* A restart forgets the pod's view and ends what runs on it; a write that it
\* leaves committed marks the pod.
LEMMA RestartStep ==
  ASSUME TypeOK, TypeOK', DataInv, NEW n \in Pods, Restart(n)
  PROVE  DataInv'
<1>1. /\ trusted' = [trusted EXCEPT ![n] = {}]
      /\ view' = [view EXCEPT ![n] = [x \in Pods |-> None]]
      /\ alive' = [alive EXCEPT ![n] = {}]
      /\ open' = [w \in Writes |-> IF w \in Running(n) THEN None ELSE open[w]]
      /\ UNCHANGED <<holder, stale, acked>>
  BY DEF Restart
<1>2. PICK L \in SUBSET Running(n) :
             /\ has' = [has EXCEPT ![n] = @ \union L]
             /\ misled' = IF L = {} THEN misled ELSE misled \union {n}
             /\ sync' = [h \in Handlers |->
                  IF h \in HandlersAt(n) THEN None
                  ELSE IF h \in HandlersFor({n})
                  THEN [sync[h] EXCEPT !.asked = FALSE, !.term = @ /\ L = {}]
                  ELSE sync[h]]
  BY DEF Restart
<1>3. TrustInv' /\ \A m \in Pods : trusted'[m] \subseteq trusted[m]
  BY <1>1 DEF DataInv, TrustInv, TypeOK
<1>4. ASSUME NEW h \in Handlers, sync'[h] # None
      PROVE  /\ sync[h] # None /\ sync'[h].at = sync[h].at /\ sync'[h].of = sync[h].of
             /\ sync'[h].theirs = sync[h].theirs /\ sync'[h].ours = sync[h].ours
             /\ sync'[h].pc = sync[h].pc
             /\ sync'[h].term => sync[h].term /\ (sync[h].of = n => L = {})
             /\ sync[h].at # n /\ sync[h].at \in Pods /\ sync[h].of \in Pods
  <2>1. h \notin HandlersAt(n)
    BY <1>2, <1>4
  <2>2. CASE h \in HandlersFor({n})
    <3>1. sync[h] # None /\ sync[h] \in SyncRecords /\ sync[h].of = n
      BY <2>2 DEF HandlersFor, TypeOK
    <3>2. sync'[h] = [sync[h] EXCEPT !.asked = FALSE, !.term = @ /\ L = {}]
      BY <1>2, <2>1, <2>2
    <3>3. sync[h].at # n
      BY <2>1, <3>1 DEF HandlersAt
    <3> QED BY <3>1, <3>2, <3>3 DEF SyncRecords
  <2>3. CASE h \notin HandlersFor({n})
    <3>1. sync'[h] = sync[h] /\ sync[h] # None
      BY <1>2, <1>4, <2>1, <2>3
    <3>2. sync[h] \in SyncRecords /\ sync[h].of # n /\ sync[h].at # n
      BY <2>1, <2>3, <3>1 DEF HandlersFor, HandlersAt, TypeOK
    <3> QED BY <3>1, <3>2 DEF SyncRecords
  <2> QED BY <2>2, <2>3
<1>5. \A w \in Writes : open'[w] # None => open'[w] = open[w]
  BY <1>1
<1>6. GateInv'
  <2>2. ASSUME NEW h \in Handlers, sync'[h] # None
        PROVE  /\ sync'[h].at # sync'[h].of
               /\ sync'[h].term =>
                    /\ sync'[h].pc = "listed"
                    /\ \A w \in Writes : ~(open[w] # None /\ open[w].at = sync'[h].at)
    BY <1>4, <2>2 DEF DataInv, GateInv, Running
  <2>3. \A h \in Handlers : sync'[h] # None /\ sync'[h].term =>
          \A w \in Writes : ~(open'[w] # None /\ open'[w].at = sync'[h].at)
    BY <1>5, <2>2
  <2>4. \A h \in Handlers : sync'[h] # None =>
          sync'[h].at # sync'[h].of /\ (sync'[h].term => sync'[h].pc = "listed")
    BY <2>2
  <2> QED BY <2>3, <2>4 DEF GateInv, Running
<1>7. \A x \in Pods \ {n} : has'[x] = has[x]
  BY <1>2 DEF TypeOK
<1>0. ASSUME L = {} PROVE has' = has /\ misled' = misled
  <2>1. has[n] \union L = has[n]
    BY <1>0
  <2>2. has' = [has EXCEPT ![n] = has[n]]
    BY <1>2, <2>1
  <2> QED BY <1>0, <1>2, <2>2 DEF TypeOK
<1>8. TermInv'
  <2>1. ASSUME NEW h \in Handlers, sync'[h] # None, sync'[h].term
        PROVE  /\ sync'[h].at = holder
               /\ holder \notin misled' =>
                    /\ sync'[h].theirs = has'[holder]
                    /\ has'[sync'[h].of] \subseteq sync'[h].ours \union sync'[h].theirs
                    /\ sync'[h].ours \intersect sync'[h].theirs \subseteq has'[sync'[h].of]
    <3>1. /\ sync[h] # None /\ sync[h].term /\ sync[h].at = holder /\ holder \in Pods \ {n}
          /\ sync[h].of \in Pods /\ (sync[h].of = n => L = {})
      BY <1>4, <2>1 DEF DataInv, TermInv
    <3>2. has'[sync[h].of] = has[sync[h].of] /\ has'[holder] = has[holder]
      BY <1>0, <1>7, <3>1
    <3>3. holder \notin misled' => holder \notin misled
      BY <1>2
    <3> QED BY <1>4, <2>1, <3>1, <3>2, <3>3 DEF DataInv, TermInv
  <2> QED BY <1>1, <1>5, <2>1 DEF DataInv, TermInv
<1>9. AgreeInv'
  <2>1. CASE L = {}
    BY <1>0, <1>1, <1>3, <2>1 DEF DataInv, AgreeInv, TypeOK
  <2>2. CASE L # {}
    <3>1. misled' = misled \union {n}
      BY <1>2, <2>2
    <3> QED BY <1>1, <1>3, <1>7, <3>1 DEF DataInv, AgreeInv, TypeOK
  <2> QED BY <2>1, <2>2
<1> QED BY <1>3, <1>6, <1>8, <1>9 DEF DataInv

LEMMA DataStep ==
  TypeOK /\ TypeOK' /\ AddressInv /\ DataInv /\ [Next]_vars => DataInv'
<1> SUFFICES ASSUME TypeOK, TypeOK', AddressInv, DataInv, [Next]_vars PROVE DataInv'
  OBVIOUS
<1> DEFINE Quiet == UNCHANGED <<holder, has, misled, stale, acked>> /\ KeptHandlers
           NoNewTrust == TrustInv' /\ \A m \in Pods : trusted'[m] \subseteq trusted[m]
<1>0. ASSUME Quiet, NoNewTrust, \A w \in Writes : open'[w] # None => open'[w] = open[w]
      PROVE  DataInv'
  BY <1>0, QuietStep DEF DataInv
<1>s. UNCHANGED sync => KeptHandlers
  BY DEF KeptHandlers
<1>1. ASSUME UNCHANGED <<holder, view, alive, trusted, has, open, acked, misled, stale>>,
             KeptHandlers
      PROVE  DataInv'
  BY <1>0, <1>1 DEF DataInv, TrustInv
<1>2. ASSUME NEW n \in Pods, ElectionNext(n) PROVE DataInv'
  <2>1. CASE Renew(n) \/ Observe(n) \/ Lapse(n)
    BY <1>1, <1>s, <2>1 DEF Renew, Observe, Lapse, viewVars, dataVars, callVars
  <2> QED BY <1>2, <2>1, SeizeStep DEF ElectionNext
<1>3. ASSUME NEW n \in Pods, ViewNext(n) PROVE DataInv'
  <2>1. CASE DiscoverFollowers(n)
    <3>1. PICK E \in SUBSET Pods :
                 /\ view' = [view EXCEPT ![n] = Discovered(n, E)]
                 /\ trusted' = [trusted EXCEPT ![n] = @ \intersect E]
      BY <2>1 DEF DiscoverFollowers
    <3>2. /\ view'[n] = Discovered(n, E) /\ \A m \in Pods \ {n} : view'[m] = view[m]
      BY <3>1 DEF TypeOK
    <3>3. UNCHANGED <<alive, open>> /\ Quiet
      BY <2>1, <1>s DEF DiscoverFollowers, electionVars, dataVars, callVars
    <3>4. NoNewTrust
      BY <3>1, <3>2, <3>3, DiscoveredStep DEF DataInv
    <3> QED BY <1>0, <3>3, <3>4
  <2>2. CASE RebuildAliveFollowers(n)
    <3>1. /\ alive' = [alive EXCEPT ![n] = ReadyIn(view[n])] /\ Quiet
          /\ UNCHANGED <<view, trusted, open>>
      BY <2>2, <1>s DEF RebuildAliveFollowers, electionVars, dataVars, callVars
    <3>2. NoNewTrust
      BY <3>1 DEF DataInv, TrustInv, TypeOK, ReadyIn
    <3> QED BY <1>0, <3>1, <3>2
  <2>3. ASSUME NEW x \in Pods, HealthAnswer(n, x) PROVE DataInv'
    BY <1>1, <1>s, <2>3 DEF HealthAnswer, electionVars, viewVars, dataVars
  <2>4. ASSUME NEW x \in Pods, HealthFails(n, x) PROVE DataInv'
    <3>1. /\ view' = [view EXCEPT ![n][x] = "OFFLINE"]
          /\ trusted' = [trusted EXCEPT ![n] = @ \ {x}]
          /\ UNCHANGED <<alive, open>> /\ Quiet
      BY <2>4, <1>s DEF HealthFails, electionVars, dataVars, callVars
    <3>2. NoNewTrust
      BY <3>1 DEF DataInv, TrustInv, TypeOK
    <3> QED BY <1>0, <3>1, <3>2
  <2> QED BY <1>3, <2>1, <2>2, <2>3, <2>4 DEF ViewNext
<1>4. ASSUME NEW x \in Pods, CallNext(x) PROVE DataInv'
  <2>1. CASE SetStatus(x) \/ SetStatusLost(x)
    BY <1>1, <1>s, <2>1 DEF SetStatus, SetStatusLost, electionVars, viewVars, dataVars
  <2>2. ASSUME NEW n \in Pods, LeaseExpires(n, x) PROVE DataInv'
    BY <1>1, <1>s, <2>2 DEF LeaseExpires, electionVars, viewVars, dataVars
  <2> QED BY <1>4, <2>1, <2>2, SyncAsksStep DEF CallNext
<1>8. ASSUME NEW h \in Handlers, SyncNext(h) PROVE DataInv'
  <2>1. CASE SyncDrained(h) \/ SyncGivenUp(h) \/ SyncFails(h)
    <3>1. /\ sync[h] # None
          /\ \/ sync' = [sync EXCEPT ![h].pc = "drained"] /\ sync[h].pc = "draining"
             \/ sync' = [sync EXCEPT ![h].asked = FALSE]
             \/ sync' = [sync EXCEPT ![h] = None]
          /\ UNCHANGED <<holder, view, alive, trusted, has, open, acked, misled, stale>>
      BY <2>1 DEF SyncDrained, SyncGivenUp, SyncFails, electionVars, viewVars, dataVars
    <3>2. sync[h] \in SyncRecords /\ (sync[h].pc = "draining" => ~sync[h].term)
      BY <3>1 DEF TypeOK, DataInv, GateInv
    <3>3. KeptHandlers
      <4>1. \A g \in Handlers \ {h} : sync'[g] = sync[g]
        BY <3>1 DEF TypeOK
      <4>2. sync'[h] # None =>
              /\ sync'[h].at = sync[h].at /\ sync'[h].of = sync[h].of
              /\ sync'[h].term = sync[h].term
              /\ sync'[h].pc = sync[h].pc \/ sync[h].pc = "draining"
              /\ sync'[h].ours = sync[h].ours /\ sync'[h].theirs = sync[h].theirs
        BY <3>1, <3>2 DEF TypeOK, SyncRecords
      <4> QED BY <3>1, <3>2, <4>1, <4>2 DEF KeptHandlers
    <3> QED BY <1>1, <3>1, <3>3
  <2> QED BY <1>8, <2>1, SyncListsStep, SyncChangesStep, SyncEndsStep DEF SyncNext
<1>5. ASSUME NEW n \in Pods, NEW w \in Writes, WriteRefused(n, w) PROVE DataInv'
  <2>1. PICK F \in SUBSET alive[n] : MarkDead(n, F)
    BY <1>5 DEF WriteRefused
  <2>2. Quiet /\ open' = [open EXCEPT ![w] = None]
    BY <1>5, <1>s DEF WriteRefused, electionVars, callVars
  <2>3. NoNewTrust
    BY <2>1, MarkDeadStep DEF DataInv, TypeOK
  <2>4. \A v \in Writes : open'[v] # None => open'[v] = open[v]
    BY <2>2 DEF TypeOK
  <2> QED BY <1>0, <2>2, <2>3, <2>4
<1>6. ASSUME NEW h \in seen, HealthApply(h) PROVE DataInv'
  <2>1. /\ Quiet /\ UNCHANGED <<alive, trusted, open>>
        /\ view' = view \/ view' = [view EXCEPT ![h.by][h.of] = "READY"]
    BY <1>6, <1>s DEF HealthApply, electionVars, dataVars
  <2>2. h.by \in Pods /\ h.of \in Pods
    BY <1>6 DEF TypeOK
  <2>3. \A m, y \in Pods : view[m][y] = "READY" => view'[m][y] = "READY"
    <3>1. CASE view' = [view EXCEPT ![h.by][h.of] = "READY"]
      BY <2>2, <3>1 DEF TypeOK
    <3> QED BY <2>1, <3>1
  <2>4. NoNewTrust
    BY <2>1, <2>3 DEF DataInv, TrustInv, TypeOK
  <2> QED BY <1>0, <2>1, <2>4
<1>7. CASE UNCHANGED vars
  BY <1>1, <1>s, <1>7 DEF vars
<1> QED
  BY <1>2, <1>3, <1>4, <1>5, <1>6, <1>7, <1>8, RestartStep, WriteStep, WriteBeginsStep
  DEF Next

\* The invariant of the data in every behaviour.
LEMMA DataInvariant == Spec => []DataInv
<1>1. Init => DataInv
  BY MembershipAssumption
     DEF Init, DataInv, GateInv, TermInv, TrustInv, AgreeInv
<1>2. Init => AddressInv
  BY MembershipAssumption DEF Init, AddressInv
<1> QED
  BY <1>1, <1>2, AddressStep, DataStep, MembershipTypeCorrect, PTL DEF Spec

\* Failovers with two leaders at once, lost or late health reports, forced SYNCs,
\* restarts, expired leases and handlers that outlive their callers included: a
\* READY follower that the holder of the Lease has synchronised in its term, with
\* no write admitted beside the handler, holds what the holder holds, unless
\* something out of its term (a deposed leader, or a handler beside which a write
\* was admitted) has changed one of the two.
THEOREM SynchronisedFollowersAgree == Spec => []TrustedFollowersAgree
<1>1. TypeOK /\ DataInv => TrustedFollowersAgree
  BY DEF DataInv, AgreeInv, TrustedFollowersAgree
<1> QED
  BY <1>1, DataInvariant, MembershipTypeCorrect, PTL

\* The holder of the Lease holds every acknowledged write, unless a pod without
\* some of them has taken the Lease, a deposed leader has acknowledged one, or
\* something out of its term has changed the holder.
THEOREM LeaderHasAcked == Spec => []AckedOnLeader
<1>1. TypeOK /\ DataInv => AckedOnLeader
  BY DEF DataInv, AgreeInv, AckedOnLeader
<1> QED
  BY <1>1, DataInvariant, MembershipTypeCorrect, PTL
=============================================================================
