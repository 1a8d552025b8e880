--------------------------- MODULE LeaseElection ---------------------------
(***************************************************************************)
(* Leader election of the Kubernetes cluster manager                       *)
(* (internal/cluster/k8s_manager.go).  Every pod runs                      *)
(* runLeaderElectionLoop: GET the Lease, then create it, renew it, seize   *)
(* it once it has expired, or step down.  Three things make it hard:       *)
(*                                                                         *)
(*  - RenewTime is the wall clock of the writer, read BEFORE the PUT, and  *)
(*    is compared with the wall clock of another pod;                      *)
(*  - lastLeaseRenewal, which IsLeader() compares with the guard window,   *)
(*    is read AFTER the answer to the PUT;                                 *)
(*  - a request whose client gave up may still reach the API server.       *)
(*                                                                         *)
(* The API server is external: one object with a resourceVersion, a write  *)
(* succeeds iff it carries the current version.  Version 0 stands for "no  *)
(* Lease object yet", which makes POST and PUT the same compare-and-swap.  *)
(* Time is counted in ticks, Second of them in a second.                   *)
(*                                                                         *)
(* leaderAddress and the pod's role label, which the same handlers set,    *)
(* are read by nothing in the election; they are left out here.            *)
(***************************************************************************)
EXTENDS Integers, FiniteSets

CONSTANTS
  Nodes,           \* pod names, stable over restarts (StatefulSet)
  NoNode,          \* the holder of the Lease that does not exist yet
  Second,          \* ticks in a second
  LeaseDuration,   \* config k8s.leaseDuration, in ticks
  GuardWindow,     \* 2 * time.Second in IsLeader()
  RequestTimeout,  \* 5 * time.Second, the client's Timeout: no later answer counts
  MaxSkew,         \* wall clocks of two pods differ by at most this
  MaxTime,         \* bound: the clock stops here
  MaxVersion,      \* bound: writes accepted by the API server
  MaxInFlight      \* bound: requests under way at a time

ASSUME NodesAssumption == NoNode \notin Nodes
ASSUME TimingAssumption ==
  /\ Second \in Nat \ {0}
  /\ LeaseDuration \in Nat /\ GuardWindow \in Nat /\ RequestTimeout \in Nat
  /\ MaxSkew \in Nat /\ MaxTime \in Nat
  /\ MaxVersion \in Nat /\ MaxInFlight \in Nat

VARIABLES
  now,         \* real time, and every pod's monotonic clock
  skew,        \* wall clock of a pod minus real time; never changes
  lease,       \* the Lease object in the API server
  net,         \* PUT/POST requests that have not reached the API server
  pc,          \* where the election loop of a pod is
  snap,        \* the Lease a pod read with its GET
  req,         \* the request a pod waits on
  flag,        \* isLeaderFlag
  last,        \* lastLeaseRenewal, on the monotonic clock
  sent         \* history: when the RenewTime of that renewal was read

vars == <<now, skew, lease, net, pc, snap, req, flag, last, sent>>
apiVars == <<lease, net>>
roleVars == <<flag, last, sent>>

Holders == Nodes \union {NoNode}
Leases == [holder : Holders, renew : Nat, version : Nat]
NoLease == [holder |-> NoNode, renew |-> 0, version |-> 0]
Requests == [from : Nodes, base : Nat, renew : Nat]
NoRequest(n) == [from |-> n, base |-> 0, renew |-> 0]

----------------------------------------------------------------------------

MutWall(n) == now - skew[n]
Wall(n) == now + skew[n]

\* LeaseDurationSeconds: int(leaseDuration.Seconds()) drops the fraction.
Fraction == LeaseDuration % Second
StoredDuration == LeaseDuration - Fraction

MutExpired(n, l) == Wall(n) > l.renew + LeaseDuration - GuardWindow
Expired(n, l) == Wall(n) > l.renew + StoredDuration

MutIsLeader(n) == flag[n]
IsLeader(n) ==
  /\ flag[n]
  /\ LeaseDuration > GuardWindow
       => now - last[n] <= LeaseDuration - GuardWindow

\* tryAcquireOrRenewLease returns: its local state is gone.
Return(n) ==
  /\ pc' = [pc EXCEPT ![n] = "idle"]
  /\ snap' = [snap EXCEPT ![n] = NoLease]
  /\ req' = [req EXCEPT ![n] = NoRequest(n)]

Init ==
  /\ now = 0
  /\ skew \in [Nodes -> 0..MaxSkew]
  /\ lease = NoLease
  /\ net = {}
  /\ pc = [n \in Nodes |-> "idle"]
  /\ snap = [n \in Nodes |-> NoLease]
  /\ req = [n \in Nodes |-> NoRequest(n)]
  /\ flag = [n \in Nodes |-> FALSE]
  /\ last = [n \in Nodes |-> 0]
  /\ sent = [n \in Nodes |-> 0]

\* The GET of tryAcquireOrRenewLease is served; its answer is on its way.  How
\* old the answer is when it is decoded does not matter: the write built on it
\* is accepted only if a GET served at that moment would give the same answer.
FetchLease(n) ==
  /\ pc[n] = "idle"
  /\ pc' = [pc EXCEPT ![n] = "fetched"]
  /\ snap' = [snap EXCEPT ![n] = lease]
  /\ UNCHANGED <<now, skew, apiVars, req, roleVars>>

\* The pod decodes the answer and writes: createLease after a 404, else
\* renewOrAcquireLease by the current holder or after expiry.
SendWrite(n) ==
  /\ pc[n] = "fetched"
  /\ snap[n].version = 0 \/ snap[n].holder = n \/ Expired(n, snap[n])
  /\ LET r == [from |-> n, base |-> snap[n].version, renew |-> Wall(n)]
     IN  /\ net' = net \union {r}
         /\ req' = [req EXCEPT ![n] = r]
  /\ Cardinality(net) < MaxInFlight
  /\ pc' = [pc EXCEPT ![n] = "waiting"]
  /\ snap' = [snap EXCEPT ![n] = NoLease]
  /\ UNCHANGED <<now, skew, lease, roleVars>>

\* "Someone else is the leader".
StepDown(n) ==
  /\ pc[n] = "fetched"
  /\ snap[n].version # 0 /\ snap[n].holder # n /\ ~Expired(n, snap[n])
  /\ flag' = [flag EXCEPT ![n] = FALSE]
  /\ Return(n)
  /\ UNCHANGED <<now, skew, apiVars, last, sent>>

\* Is n still waiting for the answer to r?
Awaits(n, r) == pc[n] = "waiting" /\ req[n] = r

\* External: the API server accepts a write of the current version ...
MutServerAccept(r) ==
  /\ lease.version < MaxVersion
  /\ lease' = [holder |-> r.from, renew |-> r.renew, version |-> lease.version + 1]
  /\ net' = net \ {r}
  /\ pc' = [pc EXCEPT ![r.from] = IF Awaits(r.from, r) THEN "granted" ELSE @]
  /\ UNCHANGED <<now, skew, snap, req, roleVars>>

ServerAccept(r) ==
  /\ r.base = lease.version
  /\ lease.version < MaxVersion
  /\ lease' = [holder |-> r.from, renew |-> r.renew, version |-> lease.version + 1]
  /\ net' = net \ {r}
  /\ pc' = [pc EXCEPT ![r.from] = IF Awaits(r.from, r) THEN "granted" ELSE @]
  /\ UNCHANGED <<now, skew, snap, req, roleVars>>

\* ... and answers 409 to any other; a conflict changes nothing in the pod.
ServerConflict(r) ==
  /\ r.base # lease.version
  /\ net' = net \ {r}
  /\ IF Awaits(r.from, r) THEN Return(r.from) ELSE UNCHANGED <<pc, snap, req>>
  /\ UNCHANGED <<now, skew, lease, roleVars>>

\* 200/201 within the client's timeout: the pod is the leader from now on.
SentAt(n) == req[n].renew - skew[n]

Acquired(n) ==
  /\ pc[n] = "granted"
  /\ now <= SentAt(n) + RequestTimeout
  /\ flag' = [flag EXCEPT ![n] = TRUE]
  /\ last' = [last EXCEPT ![n] = now]
  /\ sent' = [sent EXCEPT ![n] = SentAt(n)]
  /\ Return(n)
  /\ UNCHANGED <<now, skew, apiVars>>

\* An error, another status or the client's timeout: the handler returns and
\* leaves the role alone.  The request itself may still be on its way.
RequestFails(n) ==
  /\ pc[n] # "idle"
  /\ Return(n)
  /\ UNCHANGED <<now, skew, apiVars, roleVars>>

\* The process dies and NewK8sClusterManager starts over.
Restart(n) ==
  /\ flag[n] \/ pc[n] # "idle"
  /\ flag' = [flag EXCEPT ![n] = FALSE]
  /\ last' = [last EXCEPT ![n] = 0]
  /\ sent' = [sent EXCEPT ![n] = 0]
  /\ Return(n)
  /\ UNCHANGED <<now, skew, apiVars>>

Tick ==
  /\ now < MaxTime
  /\ now' = now + 1
  /\ UNCHANGED <<skew, apiVars, pc, snap, req, roleVars>>

Next ==
  \/ \E n \in Nodes :
       \/ FetchLease(n) \/ SendWrite(n) \/ StepDown(n)
       \/ Acquired(n) \/ RequestFails(n) \/ Restart(n)
  \/ \E r \in net : ServerAccept(r) \/ ServerConflict(r)
  \/ Tick

Spec == Init /\ [][Next]_vars

----------------------------------------------------------------------------

\* Type correctness of the election state.
TypeOK ==
  /\ now \in Nat
  /\ skew \in [Nodes -> 0..MaxSkew]
  /\ lease \in Leases
  /\ net \subseteq Requests
  /\ pc \in [Nodes -> {"idle", "fetched", "waiting", "granted"}]
  /\ snap \in [Nodes -> Leases]
  /\ req \in [Nodes -> Requests]
  /\ flag \in [Nodes -> BOOLEAN]
  /\ last \in [Nodes -> Nat]
  /\ sent \in [Nodes -> Int]

\* The guard window is there at all (IsLeader skips it for a short
\* leaseDuration), and what it has to cover for n is not more than it is: the
\* time the answer to n's last renewal took, the difference of two clocks and
\* the fraction that LeaseDurationSeconds drops.
Prompt(n) ==
  /\ LeaseDuration > GuardWindow
  /\ last[n] - sent[n] + MaxSkew + Fraction <= GuardWindow

\* IsLeader() is true in at most one of the pods whose last renewal was
\* answered promptly, however late the answers of others, and earlier ones of
\* their own, were: such a pod still holds the Lease.
PromptLeaderHolds ==
  \A n \in Nodes : IsLeader(n) /\ Prompt(n) => lease.holder = n

\* "Guard window prevents split-brain writes" (k8s_manager.go, IsLeader): the
\* same for all pods, with answers as late as the client's timeout allows.
AtMostOneLeader ==
  \A m, n \in Nodes : IsLeader(m) /\ IsLeader(n) => m = n

\* The Lease changes hands only when its holder no longer believes it leads, or
\* when the answer to its last renewal was slow.
SeizedOnlyFromSilentHolder ==
  [][\A n \in Nodes : lease.holder = n /\ lease'.holder # n
                          => ~IsLeader(n) \/ ~Prompt(n)]_vars

\* A write that was given up by its client and arrives late cannot move
\* RenewTime back and so shorten a lease that was renewed since.
RenewTimeNeverMovesBack == [][lease'.renew >= lease.renew]_vars
============================================================================
