----------------------------- MODULE Membership -----------------------------
(***************************************************************************)
(* Membership in Kubernetes mode (internal/cluster/k8s_manager.go with the *)
(* sync loop of internal/replication/sync.go, HandleSyncRequest and the    *)
(* proxying of internal/presentation/s3api/router.go): who leads, whom the *)
(* leader counts as READY and where the others send requests, while the    *)
(* Lease changes hands.                                                    *)
(*                                                                         *)
(* The Lease itself is LeaseElection: here it may be seized at any time,   *)
(* and its last holder passes IsLeader() until its guard window ends or it *)
(* hears of the next, so two pods may lead at once.                        *)
(* A write and a synchronisation are what Replication shows them to be:    *)
(* a write is admitted by a leader and later committed by that pod and     *)
(* whichever of its alive followers answer, and a handler of a sync        *)
(* request drains the writes, lists the keys of both sides, pushes what    *)
(* the follower lacks and deletes what it has too much.  The handler goes  *)
(* on when its caller is gone, its lease may expire or be ended by another *)
(* handler of the same follower.  Every write has a key of its own, so the *)
(* data of a node is the set of writes it holds.                           *)
(***************************************************************************)
EXTENDS Integers, FiniteSets

CONSTANTS
  Pods,
  Writes,        \* client writes, each made at most once
  Handlers,      \* handlers of sync requests
  None,          \* no pod, no role
  MaxTerms,      \* bound: how often the Lease changes hands
  MaxRestarts,   \* bound: how often a pod restarts
  MaxAsks,       \* bound: how often a pod asks to be synchronised
  MaxInFlight    \* bound: health answers and SetStatus calls under way

ASSUME MembershipAssumption ==
  /\ IsFiniteSet(Pods)
  /\ None \notin Pods \union {"OFFLINE", "SYNCING", "READY"}
  /\ MaxTerms \in Nat /\ MaxRestarts \in Nat /\ MaxAsks \in Nat /\ MaxInFlight \in Nat

VARIABLES
  holder,    \* HolderIdentity of the Lease
  lead,      \* pods with isLeaderFlag that have renewed the Lease within
             \* leaseDuration - guardWindow
  addr,      \* leaderAddress of a pod
  st,        \* localStatus of a pod
  view,      \* followerStates of a pod, kept from when it last led
  alive,     \* followers: the READY ones when the list was last rebuilt
  has,       \* the writes a pod holds
  open,      \* the pod a write is running on
  sync,      \* a handler of a sync request: for whom, on which pod, how far,
             \* does the caller still wait
  leases,    \* syncingNodes of a pod
  force,     \* SetStatus(SYNCING) calls under way, by their target
  seen,      \* answers to health checks under way
  terms, restarts, asks,
  acked,     \* history: writes acknowledged to a client
  trusted,   \* history: followers a pod has made READY itself in its term
  stale,     \* history: a pod without all acknowledged writes took the Lease,
             \* or a write was acknowledged out of its term
  misled,    \* history: pods changed by a write out of its term, or by a handler
             \* out of its term or beside which a write was admitted, and not
             \* synchronised since
  unheard    \* history: pods that have taken the Lease and not yet had an answer

vars == <<holder, lead, addr, st, view, alive, has, open, sync, leases, force,
          seen, terms, restarts, asks, acked, trusted, stale, misled, unheard>>
electionVars == <<holder, lead, addr, terms, stale, unheard>>
viewVars == <<view, alive, trusted>>
dataVars == <<has, open, acked>>
syncVars == <<leases, asks>>
callVars == <<sync, syncVars, force, seen, misled>>

----------------------------------------------------------------------------

Statuses == {"OFFLINE", "SYNCING", "READY"}

\* IsLeader(): the flag, and a renewal within the guard window.
IsLeader(n) == n \in lead

\* rebuildAliveFollowers.
ReadyIn(states) == {x \in Pods : states[x] = "READY"}

\* For a write.
ShouldProxyToLeader(n) == ~IsLeader(n)

\* ProxyToLeader: with a leader's address the request is forwarded, and the
\* receiver's /internal/s3-proxy hands it to the same handler.
Proxies(n) == ShouldProxyToLeader(n) /\ addr[n] # None

\* The writes running on n.
Running(n) == {w \in Writes : open[w] # None /\ open[w].at = n}

\* Handlers that run on n, and for the pods C.
HandlersAt(n) == {h \in Handlers : sync[h] # None /\ sync[h].at = n}
HandlersFor(C) == {h \in Handlers : sync[h] # None /\ sync[h].of \in C}

\* History: what is under way when the Lease changes hands is out of its term,
\* and so is a handler beside which a write is admitted, or whose follower is
\* changed by something out of its term.
OutOfTerm(f, S) ==
  [x \in DOMAIN f |-> IF x \in S /\ f[x] # None THEN [f[x] EXCEPT !.term = FALSE]
                     ELSE f[x]]

Init ==
  /\ holder = None /\ lead = {}
  /\ addr = [n \in Pods |-> None]
  /\ st = [n \in Pods |-> "SYNCING"]
  /\ view = [n \in Pods |-> [x \in Pods |-> None]]
  /\ alive = [n \in Pods |-> {}]
  /\ has = [n \in Pods |-> {}]
  /\ open = [w \in Writes |-> None]
  /\ sync = [h \in Handlers |-> None]
  /\ leases = [n \in Pods |-> {}]
  /\ force = {} /\ seen = {}
  /\ terms = 0 /\ restarts = 0 /\ asks = 0
  /\ acked = {}
  /\ trusted = [n \in Pods |-> {}]
  /\ stale = FALSE /\ misled = {} /\ unheard = {}

----------------------------------------------------------------------------
(* The election loop: what tryAcquireOrRenewLease does to a pod.           *)

\* The pod has not reached the API server for too long.
Lapse(n) ==
  /\ n \in lead
  /\ lead' = lead \ {n}
  /\ UNCHANGED <<holder, addr, st, viewVars, dataVars, callVars,
                 terms, restarts, stale, unheard>>

\* The Lease is created, or seized when it has expired.  Until the answer is
\* there (Renew) the pod does not know.
Seize(n) ==
  /\ holder # n /\ terms < MaxTerms
  /\ holder' = n
  /\ terms' = terms + 1
  /\ unheard' = unheard \union {n}
  /\ trusted' = [trusted EXCEPT ![n] = {}]
  /\ stale' = (stale \/ ~(acked \subseteq has[n]))
  /\ sync' = OutOfTerm(sync, Handlers) /\ open' = OutOfTerm(open, Writes)
  /\ UNCHANGED <<lead, addr, st, view, alive, has, acked, syncVars, force, seen,
                 misled, restarts>>

\* Mutant: the address of the previous leader is kept.
MutRenewKeepsAddress(n) ==
  /\ holder = n
  /\ lead' = lead \union {n}
  /\ unheard' = unheard \ {n}
  /\ UNCHANGED <<holder, addr, st, viewVars, dataVars, callVars, terms, restarts, stale>>

\* The answer to a create, seizure or renewal.
Renew(n) ==
  /\ holder = n
  /\ addr' = [addr EXCEPT ![n] = None]
  /\ lead' = lead \union {n}
  /\ unheard' = unheard \ {n}
  /\ UNCHANGED <<holder, st, viewVars, dataVars, callVars, terms, restarts, stale>>

\* Somebody else holds the Lease.
Observe(n) ==
  /\ holder \notin {n, None}
  /\ lead' = lead \ {n}
  /\ addr' = [addr EXCEPT ![n] = holder]
  /\ unheard' = unheard \ {n}
  /\ UNCHANGED <<holder, st, viewVars, dataVars, callVars, terms, restarts, stale>>

----------------------------------------------------------------------------
(* Discovery and health checks.                                            *)

\* followerStates of n after the Endpoints API has listed the pods E.
Discovered(n, E) ==
  [x \in Pods |-> IF x \notin E \ {n} THEN None
                  ELSE IF view[n][x] = None THEN "OFFLINE" ELSE view[n][x]]

DiscoverFollowers(n) ==
  /\ IsLeader(n)
  /\ \E E \in SUBSET Pods :
       /\ view' = [view EXCEPT ![n] = Discovered(n, E)]
       /\ trusted' = [trusted EXCEPT ![n] = @ \intersect E]
  /\ UNCHANGED <<electionVars, st, alive, dataVars, callVars, restarts>>

\* checkFollowersHealth: x reports its status ...
HealthAnswer(n, x) ==
  /\ IsLeader(n) /\ view[n][x] # None
  /\ Cardinality(seen) + Cardinality(force) < MaxInFlight
  /\ seen' = seen \union {[by |-> n, of |-> x, state |-> st[x]]}
  /\ UNCHANGED <<electionVars, st, viewVars, dataVars, sync, syncVars, force,
                 misled, restarts>>

\* ... and later n acts on it: an OFFLINE follower is told to synchronise, one
\* that is SYNCING becomes READY when it says so.
HealthApply(h) ==
  LET s == view[h.by][h.of] IN
  /\ seen' = seen \ {h}
  /\ force' = IF s = "OFFLINE" THEN force \union {h.of} ELSE force
  /\ view' = IF s = "SYNCING" /\ h.state = "READY"
             THEN [view EXCEPT ![h.by][h.of] = "READY"] ELSE view
  /\ UNCHANGED <<electionVars, st, alive, trusted, dataVars, sync, syncVars,
                 misled, restarts>>

\* The last of MaxFailures checks without an answer; the pod may have lost the
\* Lease since it began them.
HealthFails(n, x) ==
  /\ view[n][x] \in {"SYNCING", "READY"}
  /\ view' = [view EXCEPT ![n][x] = "OFFLINE"]
  /\ trusted' = [trusted EXCEPT ![n] = @ \ {x}]
  /\ UNCHANGED <<electionVars, st, alive, dataVars, callVars, restarts>>

\* All checks have ended: the list is rebuilt.
RebuildAliveFollowers(n) ==
  /\ \A h \in seen : h.by # n
  /\ alive[n] # ReadyIn(view[n])
  /\ alive' = [alive EXCEPT ![n] = ReadyIn(view[n])]
  /\ UNCHANGED <<electionVars, st, view, trusted, dataVars, callVars, restarts>>

\* /internal/set-status.
SetStatus(x) ==
  /\ x \in force
  /\ force' = force \ {x}
  /\ st' = [st EXCEPT ![x] = "SYNCING"]
  /\ UNCHANGED <<electionVars, viewVars, dataVars, sync, syncVars, seen, misled,
                 restarts>>

SetStatusLost(x) ==
  /\ x \in force
  /\ force' = force \ {x}
  /\ UNCHANGED <<electionVars, st, viewVars, dataVars, sync, syncVars, seen, misled,
                 restarts>>

----------------------------------------------------------------------------
(* Client writes on the leader.                                            *)

\* Mutant: a status that no health check knows how to leave.
MutMarkDeadUnknown(n, F) ==
  /\ view' = [view EXCEPT ![n] = [x \in Pods |-> IF x \in F THEN "DEAD" ELSE view[n][x]]]
  /\ alive' = [alive EXCEPT ![n] = ReadyIn(view'[n])]
  /\ trusted' = trusted

\* Mutant: the follower leaves the list and keeps its status.
MutMarkDeadListOnly(n, F) ==
  /\ alive' = [alive EXCEPT ![n] = @ \ F]
  /\ UNCHANGED <<view, trusted>>

\* MarkDead for the followers F: only those the leader still knows.
MarkDead(n, F) ==
  LET known == {x \in F : view[n][x] # None}
      states == [x \in Pods |-> IF x \in known THEN "OFFLINE" ELSE view[n][x]] IN
  /\ view' = [view EXCEPT ![n] = states]
  /\ alive' = IF known = {} THEN alive ELSE [alive EXCEPT ![n] = ReadyIn(states)]
  /\ trusted' = [trusted EXCEPT ![n] = @ \ known]

\* ServeHTTP asks IsLeader() once, then the gate lets the request in: no sync
\* lease is left, whatever handlers still run.
WriteBegins(n, w) ==
  /\ IsLeader(n) /\ leases[n] = {}
  /\ open[w] = None /\ w \notin acked /\ \A x \in Pods : w \notin has[x]
  /\ open' = [open EXCEPT ![w] = [at |-> n, term |-> holder = n]]
  /\ sync' = OutOfTerm(sync, HandlersAt(n))
  /\ UNCHANGED <<electionVars, st, viewVars, has, acked, syncVars, force, seen, misled,
                 restarts>>

\* The write is committed on the pods C and acknowledged.
Acknowledge(n, w, C) ==
  /\ has' = [x \in Pods |-> IF x \in C THEN has[x] \union {w} ELSE has[x]]
  /\ acked' = acked \union {w}
  /\ open' = [open EXCEPT ![w] = None]
  /\ stale' = (stale \/ ~open[w].term)
  /\ IF open[w].term THEN UNCHANGED <<misled, sync>>
     ELSE misled' = misled \union C /\ sync' = OutOfTerm(sync, HandlersFor(C))
  /\ UNCHANGED <<holder, lead, addr, terms, unheard, st, syncVars, force, seen,
                 restarts>>

\* Mutant: answered when the followers have committed, before the leader has.
MutWriteAnswersFirst(n, w) ==
  /\ w \in Running(n)
  /\ \E C \in SUBSET alive[n] : Acknowledge(n, w, C) /\ MarkDead(n, alive[n] \ C)

\* Committed on the pod, leader or not by now, and on the followers C; the
\* other followers are dead.
Write(n, w) ==
  /\ w \in Running(n)
  /\ \E C \in SUBSET alive[n] : Acknowledge(n, w, C \union {n}) /\ MarkDead(n, alive[n] \ C)

\* The body ends early, or the followers F do not prepare: refused.
WriteRefused(n, w) ==
  /\ w \in Running(n)
  /\ \E F \in SUBSET alive[n] : MarkDead(n, F)
  /\ open' = [open EXCEPT ![w] = None]
  /\ UNCHANGED <<electionVars, st, has, acked, callVars, restarts>>

----------------------------------------------------------------------------
(* Synchronisation: a SYNCING pod asks the pod it takes for the leader;    *)
(* nothing in handleSyncRequest asks whether it is.  (History: "term" says *)
(* that it has held the Lease, and admitted no write, since the handler    *)
(* has listed the keys.)                                                   *)

\* Of the sync loop of x, one call at a time; StartSyncLease makes the entry.
SyncAsks(x, h) ==
  /\ st[x] = "SYNCING" /\ ~IsLeader(x) /\ addr[x] # None
  /\ asks < MaxAsks /\ asks' = asks + 1
  /\ sync[h] = None /\ \A g \in HandlersFor({x}) : ~sync[g].asked
  /\ sync' = [sync EXCEPT ![h] = [of |-> x, at |-> addr[x], pc |-> "draining", asked |-> TRUE,
                                  theirs |-> {}, ours |-> {}, term |-> FALSE]]
  /\ leases' = [leases EXCEPT ![addr[x]] = @ \union {x}]
  /\ UNCHANGED <<electionVars, st, viewVars, dataVars, force, seen, misled, restarts>>

\* No write is active; nobody looks whether the entry is still there.
SyncDrained(h) ==
  /\ sync[h] # None /\ sync[h].pc = "draining" /\ Running(sync[h].at) = {}
  /\ sync' = [sync EXCEPT ![h].pc = "drained"]
  /\ UNCHANGED <<electionVars, st, viewVars, dataVars, syncVars, force, seen, misled,
                 restarts>>

\* The caller is gone, or its timeout has passed.
SyncGivenUp(h) ==
  /\ sync[h] # None /\ sync[h].asked
  /\ sync' = [sync EXCEPT ![h].asked = FALSE]
  /\ UNCHANGED <<electionVars, st, viewVars, dataVars, syncVars, force, seen, misled,
                 restarts>>

\* 30 s after the entry was made.
LeaseExpires(n, x) ==
  /\ x \in leases[n]
  /\ leases' = [leases EXCEPT ![n] = @ \ {x}]
  /\ UNCHANGED <<electionVars, st, viewVars, dataVars, sync, asks, force, seen, misled,
                 restarts>>

\* A follower that discovery has not found is known as SYNCING.
RegisterFollower(states, x) ==
  [states EXCEPT ![x] = IF @ = None THEN "SYNCING" ELSE @]

\* MarkAlive on n, for a follower it still knows.
MarkAlive(n, x, inTerm) ==
  IF view[n][x] = None THEN UNCHANGED viewVars
  ELSE /\ view' = [view EXCEPT ![n][x] = "READY"]
       /\ alive' = [alive EXCEPT ![n] = ReadyIn(view'[n])]
       /\ trusted' = [trusted EXCEPT ![n] = IF inTerm THEN @ \union {x} ELSE @]

\* RefreshFollowers and RegisterFollower; the keys of both.
SyncLists(h) ==
  LET a == sync[h].at
      x == sync[h].of IN
  /\ sync[h] # None /\ sync[h].pc = "drained"
  /\ sync' = [sync EXCEPT ![h].pc = "listed", ![h].theirs = has[a], ![h].ours = has[x],
                          ![h].term = holder = a /\ Running(a) = {}]
  /\ \E E \in SUBSET Pods :
       LET states == IF IsLeader(a) THEN Discovered(a, E) ELSE view[a] IN
       /\ view' = [view EXCEPT ![a] = RegisterFollower(states, x)]
       /\ trusted' = [trusted EXCEPT ![a] = IF IsLeader(a) THEN @ \intersect E ELSE @]
  /\ UNCHANGED <<electionVars, st, alive, dataVars, syncVars, force, seen, misled, restarts>>

Pushing(h) == sync[h] # None /\ sync[h].pc = "listed"

\* An object is pushed, or deleted when all have been.
SyncChanges(h) ==
  LET s == sync[h] IN
  /\ Pushing(h)
  /\ \/ \E w \in s.theirs \ s.ours : has' = [has EXCEPT ![s.of] = @ \union {w}]
     \/ s.theirs \subseteq has[s.of]
        /\ \E w \in s.ours \ s.theirs : has' = [has EXCEPT ![s.of] = @ \ {w}]
  /\ IF s.term THEN UNCHANGED <<misled, sync>>
     ELSE misled' = misled \union {s.of} /\ sync' = OutOfTerm(sync, HandlersFor({s.of}))
  /\ UNCHANGED <<electionVars, st, viewVars, acked, open, syncVars, force, seen, restarts>>

\* EndSyncLease, for whichever handler made the entry.
EndSyncLease(h) ==
  leases' = [leases EXCEPT ![sync[h].at] = @ \ {sync[h].of}] /\ asks' = asks

\* Everything is pushed and deleted, MarkAlive; the answer may be lost.
SyncEnds(h, answered) ==
  LET s == sync[h]
      x == s.of IN
  /\ Pushing(h)
  /\ has' = [has EXCEPT ![x] = (@ \union (s.theirs \ s.ours)) \ (s.ours \ s.theirs)]
  /\ MarkAlive(s.at, x, s.term)
  /\ EndSyncLease(h)
  /\ st' = IF answered /\ s.asked THEN [st EXCEPT ![x] = "READY"] ELSE st
  /\ IF s.term
     THEN misled' = misled \ {x} /\ sync' = [sync EXCEPT ![h] = None]
     ELSE /\ misled' = misled \union {x}
          /\ sync' = [OutOfTerm(sync, HandlersFor({x})) EXCEPT ![h] = None]
  /\ UNCHANGED <<electionVars, acked, open, force, seen, restarts>>

\* A call failed, or the caller is gone: what has been pushed stays.  Draining is
\* not interrupted.
SyncFails(h) ==
  /\ sync[h] # None /\ sync[h].pc # "draining"
  /\ sync' = [sync EXCEPT ![h] = None]
  /\ EndSyncLease(h)
  /\ UNCHANGED <<electionVars, st, viewVars, dataVars, force, seen, misled, restarts>>

----------------------------------------------------------------------------

\* The pod is restarted: its disk and the calls it has sent survive, and so do
\* the handlers for it on other pods.  A write running on it is lost, or committed
\* on this pod and not acknowledged.
Restart(n) ==
  /\ restarts < MaxRestarts
  /\ restarts' = restarts + 1
  /\ lead' = lead \ {n}
  /\ addr' = [addr EXCEPT ![n] = None]
  /\ unheard' = unheard \ {n}
  /\ st' = [st EXCEPT ![n] = "SYNCING"]
  /\ view' = [view EXCEPT ![n] = [x \in Pods |-> None]]
  /\ alive' = [alive EXCEPT ![n] = {}]
  /\ trusted' = [trusted EXCEPT ![n] = {}]
  /\ leases' = [leases EXCEPT ![n] = {}]
  /\ seen' = {h \in seen : h.by # n}
  /\ \E L \in SUBSET Running(n) :
       /\ has' = [has EXCEPT ![n] = @ \union L]
       /\ misled' = IF L = {} THEN misled ELSE misled \union {n}
       /\ sync' = [h \in Handlers |->
            IF h \in HandlersAt(n) THEN None
            ELSE IF h \in HandlersFor({n})
            THEN [sync[h] EXCEPT !.asked = FALSE, !.term = @ /\ L = {}]
            ELSE sync[h]]
  /\ open' = [w \in Writes |-> IF w \in Running(n) THEN None ELSE open[w]]
  /\ UNCHANGED <<holder, terms, asks, stale, acked, force>>

ElectionNext(n) == Seize(n) \/ Renew(n) \/ Observe(n) \/ Lapse(n)

ViewNext(n) ==
  \/ DiscoverFollowers(n) \/ RebuildAliveFollowers(n)
  \/ \E x \in Pods : HealthAnswer(n, x) \/ HealthFails(n, x)

CallNext(x) ==
  \/ SetStatus(x) \/ SetStatusLost(x)
  \/ \E h \in Handlers : SyncAsks(x, h)
  \/ \E n \in Pods : LeaseExpires(n, x)

SyncNext(h) ==
  \/ SyncDrained(h) \/ SyncGivenUp(h) \/ SyncLists(h) \/ SyncChanges(h) \/ SyncFails(h)
  \/ \E answered \in BOOLEAN : SyncEnds(h, answered)

Next ==
  \/ \E n \in Pods : ElectionNext(n) \/ ViewNext(n) \/ CallNext(n)
                     \/ Restart(n)
  \/ \E h \in Handlers : SyncNext(h)
  \/ \E n \in Pods, w \in Writes :
       WriteBegins(n, w) \/ Write(n, w) \/ WriteRefused(n, w)
  \/ \E h \in seen : HealthApply(h)

Spec == Init /\ [][Next]_vars

----------------------------------------------------------------------------

SyncRecords == [of : Pods, at : Pods, pc : {"draining", "drained", "listed"},
                asked : BOOLEAN, theirs : SUBSET Writes, ours : SUBSET Writes,
                term : BOOLEAN]

\* Type correctness of the Lease, the pods and the calls under way.
TypeOK ==
  /\ holder \in Pods \union {None} /\ lead \subseteq Pods
  /\ addr \in [Pods -> Pods \union {None}]
  /\ st \in [Pods -> Statuses]
  /\ view \in [Pods -> [Pods -> Statuses \union {None}]]
  /\ alive \in [Pods -> SUBSET Pods]
  /\ has \in [Pods -> SUBSET Writes]
  /\ open \in [Writes -> [at : Pods, term : BOOLEAN] \union {None}]
  /\ sync \in [Handlers -> SyncRecords \union {None}]
  /\ leases \in [Pods -> SUBSET Pods]
  /\ force \subseteq Pods
  /\ seen \subseteq [by : Pods, of : Pods, state : Statuses]
  /\ terms \in 0..MaxTerms /\ restarts \in 0..MaxRestarts
  /\ asks \in 0..MaxAsks
  /\ acked \subseteq Writes
  /\ trusted \in [Pods -> SUBSET Pods]
  /\ stale \in BOOLEAN /\ misled \subseteq Pods /\ unheard \subseteq Pods

\* A follower that the holder of the Lease has made READY itself, by a
\* synchronisation of this term beside which no write was admitted, holds what the
\* holder holds for as long as it counts as READY.  Excepted are pods that
\* something else has changed: a deposed leader, or a handler that went on when
\* its lease had expired or another handler of its follower had ended it.
TrustedFollowersAgree ==
  holder \in Pods \ misled =>
    \A x \in trusted[holder] \ misled : view[holder][x] = "READY" => has[x] = has[holder]

\* Unless a pod that lacks some of them takes the Lease, or a deposed leader or a
\* handler as above has changed it, the holder of the Lease holds every
\* acknowledged write.
AckedOnLeader ==
  ~stale /\ holder \in Pods \ misled => acked \subseteq has[holder]

\* ProxyToLeader counts no hops.  Pods that forward a request only to each
\* other (a loop) include one that has taken the Lease and has not yet heard of
\* it: the loop ends at the latest when it is answered or sees another holder.
NoProxyLoop ==
  \A S \in SUBSET Pods :
    S # {} /\ (\A n \in S : Proxies(n) /\ addr[n] \in S) => S \intersect unheard # {}
============================================================================
