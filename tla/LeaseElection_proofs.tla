------------------------ MODULE LeaseElection_proofs ------------------------
(***************************************************************************)
(* Proofs about LeaseElection.  StructInv says what the API server's       *)
(* compare-and-swap guarantees of every request under way; GuardInv adds   *)
(* what the guard window guarantees of a pod that believes it leads and of *)
(* one that is about to.  GuardInv is needed because PromptLeaderHolds is  *)
(* not inductive: it says nothing of RenewTime, and it is RenewTime that   *)
(* makes the other pods wait.                                              *)
(***************************************************************************)
EXTENDS LeaseElection, TLAPS

LeaseWellFormed ==
  /\ lease.version = 0 => lease = NoLease
  /\ lease.version # 0 => lease.holder \in Nodes /\ lease.renew <= Wall(lease.holder)

SnapsCurrent ==
  \A n \in Nodes : pc[n] = "fetched" =>
    /\ snap[n].version <= lease.version
    /\ snap[n].version = lease.version => snap[n] = lease

RequestsCurrent ==
  \A r \in net :
    /\ r.base <= lease.version
    /\ r.renew <= Wall(r.from)
    /\ r.base = lease.version => r.renew >= lease.renew
    /\ r.base = lease.version /\ lease.version # 0 /\ r.from # lease.holder
         => r.renew > lease.renew + StoredDuration

StructInv == TypeOK /\ LeaseWellFormed /\ SnapsCurrent /\ RequestsCurrent

\* The answer n waits for would still be a prompt one.
GrantPrompt(n) ==
  /\ LeaseDuration > GuardWindow
  /\ now - SentAt(n) + MaxSkew + Fraction <= GuardWindow

GrantedHolds ==
  \A n \in Nodes : pc[n] = "granted" /\ GrantPrompt(n) =>
    lease.holder = n /\ lease.renew >= req[n].renew

LeaderHolds ==
  \A n \in Nodes : IsLeader(n) /\ Prompt(n) =>
    lease.holder = n /\ lease.renew >= sent[n] + skew[n]

GuardInv == StructInv /\ GrantedHolds /\ LeaderHolds

----------------------------------------------------------------------------

\* Truncating the duration to whole seconds leaves a natural number.
LEMMA FractionType == Fraction \in Nat /\ StoredDuration \in Nat
  BY TimingAssumption DEF Fraction, StoredDuration

\* The election state is always well typed.
LEMMA TypeStep == TypeOK /\ [Next]_vars => TypeOK'
<1> SUFFICES ASSUME TypeOK, [Next]_vars PROVE TypeOK'
  OBVIOUS
<1> USE TimingAssumption, NodesAssumption
        DEF TypeOK, Leases, Requests, Holders, NoLease, NoRequest
<1>1. ASSUME NEW n \in Nodes, FetchLease(n) PROVE TypeOK'
  BY <1>1 DEF FetchLease, apiVars, roleVars
<1>2. ASSUME NEW n \in Nodes, SendWrite(n) PROVE TypeOK'
  <2>1. Wall(n) \in Nat
    BY DEF Wall
  <2>. QED
    BY <1>2, <2>1 DEF SendWrite, roleVars
<1>3. ASSUME NEW n \in Nodes, StepDown(n) PROVE TypeOK'
  BY <1>3 DEF StepDown, Return, apiVars
<1>4. ASSUME NEW n \in Nodes, Acquired(n) PROVE TypeOK'
  <2>1. SentAt(n) \in Int
    BY DEF SentAt
  <2>. QED
    BY <1>4, <2>1 DEF Acquired, Return, apiVars
<1>5. ASSUME NEW n \in Nodes, RequestFails(n) PROVE TypeOK'
  BY <1>5 DEF RequestFails, Return, apiVars, roleVars
<1>6. ASSUME NEW n \in Nodes, Restart(n) PROVE TypeOK'
  BY <1>6 DEF Restart, Return, apiVars
<1>7. ASSUME NEW r \in net, ServerAccept(r) PROVE TypeOK'
  BY <1>7 DEF ServerAccept, roleVars
<1>8. ASSUME NEW r \in net, ServerConflict(r) PROVE TypeOK'
  <2>1. r.from \in Nodes
    OBVIOUS
  <2>2. CASE Awaits(r.from, r)
    <3>1. PICK n \in Nodes : n = r.from
      BY <2>1
    <3>2. Return(n) /\ net' \subseteq net /\ UNCHANGED <<now, skew, lease, roleVars>>
      BY <1>8, <2>2, <3>1 DEF ServerConflict
    <3>. QED
      BY <3>2 DEF Return, roleVars
  <2>3. CASE ~Awaits(r.from, r)
    BY <1>8, <2>3 DEF ServerConflict, roleVars
  <2>. QED
    BY <2>2, <2>3
<1>9. CASE Tick
  BY <1>9 DEF Tick, apiVars, roleVars
<1>10. CASE UNCHANGED vars
  BY <1>10 DEF vars
<1>. QED
  BY <1>1, <1>2, <1>3, <1>4, <1>5, <1>6, <1>7, <1>8, <1>9, <1>10 DEF Next

\* THEOREM: the variables of the election keep their types.
THEOREM TypeCorrect == Spec => []TypeOK
<1>1. Init => TypeOK
  BY TimingAssumption
     DEF Init, TypeOK, Leases, Requests, Holders, NoLease, NoRequest
<1>. QED
  BY <1>1, TypeStep, PTL DEF Spec
----------------------------------------------------------------------------

\* The compare-and-swap keeps every request of the current version sound.
LEMMA StructStep == StructInv /\ [Next]_vars => StructInv'
<1> SUFFICES ASSUME StructInv, [Next]_vars PROVE StructInv'
  OBVIOUS
<1>t. TypeOK'
  BY TypeStep DEF StructInv
<1> USE TimingAssumption, NodesAssumption, FractionType DEF StructInv
<1>1. ASSUME NEW n \in Nodes, FetchLease(n) PROVE StructInv'
  <2>1. LeaseWellFormed' /\ RequestsCurrent'
    BY <1>1 DEF FetchLease, apiVars, LeaseWellFormed, RequestsCurrent, Wall, TypeOK
  <2>2. SnapsCurrent'
    BY <1>1 DEF FetchLease, apiVars, SnapsCurrent, TypeOK, Leases
  <2>. QED
    BY <1>t, <2>1, <2>2
<1>2. ASSUME NEW n \in Nodes, SendWrite(n) PROVE StructInv'
  <2> DEFINE q == [from |-> n, base |-> snap[n].version, renew |-> Wall(n)]
  <2>1. LeaseWellFormed'
    BY <1>2 DEF SendWrite, LeaseWellFormed, Wall
  <2>2. SnapsCurrent'
    BY <1>2 DEF SendWrite, SnapsCurrent, TypeOK
  <2>3. /\ q.base <= lease.version
        /\ q.renew <= Wall(q.from)
        /\ q.base = lease.version => q.renew >= lease.renew
        /\ q.base = lease.version /\ lease.version # 0 /\ q.from # lease.holder
             => q.renew > lease.renew + StoredDuration
    <3>1. Wall(n) \in Nat
      BY DEF Wall, TypeOK
    <3>2. pc[n] = "fetched" /\ snap[n] \in Leases /\ lease \in Leases
      BY <1>2 DEF SendWrite, TypeOK
    <3>3. CASE snap[n].version # lease.version
      BY <3>1, <3>2, <3>3 DEF SnapsCurrent, Leases
    <3>4. CASE snap[n].version = lease.version
      <4>1. snap[n] = lease
        BY <3>2, <3>4 DEF SnapsCurrent
      <4>2. lease.version = 0 \/ lease.holder = n \/ Expired(n, lease)
        BY <1>2, <4>1 DEF SendWrite
      <4>3. CASE lease.version = 0
        BY <3>1, <3>2, <4>1, <4>3 DEF LeaseWellFormed, NoLease, Leases
      <4>4. CASE lease.version # 0 /\ lease.holder = n
        BY <3>1, <3>2, <4>1, <4>4 DEF LeaseWellFormed, Leases
      <4>5. CASE lease.version # 0 /\ Expired(n, lease)
        BY <3>1, <3>2, <4>1, <4>5 DEF Expired, Leases
      <4>. QED
        BY <4>2, <4>3, <4>4, <4>5
    <3>. QED
      BY <3>3, <3>4
  <2>4. net' = net \union {q} /\ lease' = lease /\ now' = now /\ skew' = skew
    BY <1>2 DEF SendWrite
  <2>5. RequestsCurrent'
    BY <2>3, <2>4 DEF RequestsCurrent, Wall
  <2>. QED
    BY <1>t, <2>1, <2>2, <2>5
<1>3. ASSUME NEW n \in Nodes, StepDown(n) \/ Acquired(n) \/ RequestFails(n) \/ Restart(n)
      PROVE  StructInv'
  <2>1. /\ UNCHANGED <<now, skew, lease, net>>
        /\ pc' = [pc EXCEPT ![n] = "idle"]
        /\ snap' = [snap EXCEPT ![n] = NoLease]
    BY <1>3 DEF StepDown, Acquired, RequestFails, Restart, Return, apiVars
  <2>2. LeaseWellFormed' /\ RequestsCurrent'
    BY <2>1 DEF LeaseWellFormed, RequestsCurrent, Wall
  <2>3. SnapsCurrent'
    BY <2>1 DEF SnapsCurrent, TypeOK
  <2>. QED
    BY <1>t, <2>2, <2>3
<1>4. ASSUME NEW r \in net, ServerAccept(r) PROVE StructInv'
  <2>1. /\ r \in Requests
        /\ lease \in Leases
        /\ lease' = [holder |-> r.from, renew |-> r.renew, version |-> lease.version + 1]
        /\ net' = net \ {r}
        /\ UNCHANGED <<now, skew, snap>>
        /\ pc' = [pc EXCEPT ![r.from] = IF Awaits(r.from, r) THEN "granted" ELSE @]
    BY <1>4 DEF ServerAccept, TypeOK
  <2>2. LeaseWellFormed'
    BY <2>1 DEF LeaseWellFormed, RequestsCurrent, Wall, Requests, Leases
  <2>3. SnapsCurrent'
    <3> SUFFICES ASSUME NEW n \in Nodes, pc'[n] = "fetched"
                 PROVE  snap'[n].version <= lease'.version /\ snap'[n].version # lease'.version
      BY DEF SnapsCurrent
    <3>1. pc[n] = "fetched"
      BY <2>1 DEF TypeOK
    <3>2. snap[n].version <= lease.version /\ snap[n].version \in Nat
      BY <3>1 DEF SnapsCurrent, TypeOK, Leases
    <3>. QED
      BY <2>1, <3>2 DEF Leases
  <2>4. RequestsCurrent'
    <3> SUFFICES ASSUME NEW q \in net
                 PROVE  q.base <= lease.version + 1 /\ q.base # lease.version + 1
                        /\ q.renew <= Wall(q.from)
      BY <2>1 DEF RequestsCurrent, Wall
    <3>1. q \in Requests
      BY DEF TypeOK
    <3>. QED
      BY <2>1, <3>1 DEF RequestsCurrent, Requests, Leases
  <2>. QED
    BY <1>t, <2>2, <2>3, <2>4
<1>5. ASSUME NEW r \in net, ServerConflict(r) PROVE StructInv'
  <2>1. /\ net' = net \ {r}
        /\ UNCHANGED <<now, skew, lease>>
    BY <1>5 DEF ServerConflict
  <2>2. LeaseWellFormed' /\ RequestsCurrent'
    BY <2>1 DEF LeaseWellFormed, RequestsCurrent, Wall
  <2>3. SnapsCurrent'
    <3>1. CASE Awaits(r.from, r)
      BY <1>5, <2>1, <3>1 DEF ServerConflict, Return, SnapsCurrent, TypeOK
    <3>2. CASE ~Awaits(r.from, r)
      BY <1>5, <2>1, <3>2 DEF ServerConflict, SnapsCurrent
    <3>. QED
      BY <3>1, <3>2
  <2>. QED
    BY <1>t, <2>2, <2>3
<1>6. CASE Tick
  <2>1. /\ now' = now + 1 /\ UNCHANGED <<skew, lease, net, pc, snap>>
    BY <1>6 DEF Tick, apiVars
  <2>2. SnapsCurrent'
    BY <2>1 DEF SnapsCurrent
  <2>3. \A n \in Nodes : Wall(n) \in Nat /\ Wall(n)' = Wall(n) + 1
    BY <2>1 DEF Wall, TypeOK
  <2>4. LeaseWellFormed'
    BY <2>1, <2>3 DEF LeaseWellFormed, TypeOK, Leases, Wall
  <2>5. RequestsCurrent'
    <3> SUFFICES ASSUME NEW q \in net PROVE q.renew <= Wall(q.from)'
      BY <2>1 DEF RequestsCurrent, Wall
    <3>1. q \in Requests /\ q.renew <= Wall(q.from)
      BY DEF TypeOK, RequestsCurrent
    <3>. QED
      BY <2>1, <2>3, <3>1 DEF Requests, Wall
  <2>. QED
    BY <1>t, <2>2, <2>4, <2>5
<1>7. CASE UNCHANGED vars
  BY <1>7, <1>t DEF vars, LeaseWellFormed, SnapsCurrent, RequestsCurrent, Wall
<1>. QED
  BY <1>1, <1>2, <1>3, <1>4, <1>5, <1>6, <1>7 DEF Next

\* The invariant of the API server's side holds throughout.
LEMMA StructInvariant == Spec => []StructInv
<1>1. Init => StructInv
  BY TimingAssumption
     DEF Init, StructInv, TypeOK, LeaseWellFormed, SnapsCurrent, RequestsCurrent,
         Leases, Requests, Holders, NoLease, NoRequest
<1>. QED
  BY <1>1, StructStep, PTL DEF Spec

\* THEOREM: whatever the timing constants are, a late or repeated write never
\* moves RenewTime back.
THEOREM RenewMonotone == Spec => RenewTimeNeverMovesBack
<1>1. ASSUME StructInv, [Next]_vars PROVE [lease'.renew >= lease.renew]_vars
  <2>1. lease.renew \in Nat
    BY <1>1 DEF StructInv, TypeOK, Leases
  <2>2. ASSUME NEW r \in net, ServerAccept(r) PROVE lease'.renew >= lease.renew
    BY <1>1, <2>2 DEF StructInv, RequestsCurrent, ServerAccept
  <2>3. CASE lease' = lease
    BY <2>1, <2>3
  <2>. QED
    BY <1>1, <2>2, <2>3
       DEF Next, FetchLease, SendWrite, StepDown, Acquired, RequestFails, Restart,
           ServerConflict, Tick, apiVars, vars
<1>. QED
  BY <1>1, StructInvariant, PTL DEF Spec, RenewTimeNeverMovesBack
----------------------------------------------------------------------------

\* A pod that leads after a prompt renewal holds a Lease no other clock sees
\* expired.
LEMMA LeaderNotExpired ==
  ASSUME StructInv, LeaderHolds,
         NEW n \in Nodes, IsLeader(n), Prompt(n), NEW m \in Nodes
  PROVE  lease.holder = n /\ Wall(m) <= lease.renew + StoredDuration
<1>1. /\ now \in Nat /\ lease.renew \in Nat /\ last[n] \in Nat /\ sent[n] \in Int
      /\ skew[n] \in 0..MaxSkew /\ skew[m] \in 0..MaxSkew
  BY DEF StructInv, TypeOK, Leases
<1>2. lease.holder = n /\ lease.renew >= sent[n] + skew[n]
  BY DEF LeaderHolds
<1>3. /\ now - last[n] <= LeaseDuration - GuardWindow
      /\ last[n] - sent[n] + MaxSkew + Fraction <= GuardWindow
  BY DEF IsLeader, Prompt
<1>. QED
  BY <1>1, <1>2, <1>3, FractionType, TimingAssumption DEF StoredDuration, Wall

\* Nor does a Lease expire while the answer to its renewal would be prompt.
LEMMA GrantNotExpired ==
  ASSUME StructInv, GrantedHolds,
         NEW n \in Nodes, pc[n] = "granted", GrantPrompt(n), NEW m \in Nodes
  PROVE  lease.holder = n /\ Wall(m) <= lease.renew + StoredDuration
<1>1. /\ now \in Nat /\ lease.renew \in Nat /\ req[n].renew \in Nat
      /\ skew[n] \in 0..MaxSkew /\ skew[m] \in 0..MaxSkew
  BY DEF StructInv, TypeOK, Leases, Requests
<1>2. lease.holder = n /\ lease.renew >= req[n].renew
  BY DEF GrantedHolds
<1>3. /\ LeaseDuration > GuardWindow
      /\ now - (req[n].renew - skew[n]) + MaxSkew + Fraction <= GuardWindow
  BY DEF GrantPrompt, SentAt
<1>. QED
  BY <1>1, <1>2, <1>3, FractionType, TimingAssumption DEF StoredDuration, Wall

\* So a write the server accepts keeps a fresh Lease with its holder and does
\* not shorten it.
LEMMA AcceptKeepsHolder ==
  ASSUME StructInv, NEW r \in net, ServerAccept(r),
         NEW n \in Nodes, lease.holder = n,
         \A m \in Nodes : Wall(m) <= lease.renew + StoredDuration
  PROVE  lease'.holder = n /\ lease'.renew >= lease.renew
<1>1. r \in Requests /\ lease \in Leases /\ Wall(r.from) \in Nat
  BY DEF StructInv, TypeOK, Requests, Wall
<1>2. lease.version # 0
  BY NodesAssumption DEF StructInv, LeaseWellFormed, NoLease
<1>3. /\ r.renew <= Wall(r.from) /\ r.renew >= lease.renew
      /\ r.from # lease.holder => r.renew > lease.renew + StoredDuration
  BY <1>2 DEF StructInv, RequestsCurrent, ServerAccept
<1>4. Wall(r.from) <= lease.renew + StoredDuration
  BY <1>1 DEF Requests
<1>5. r.from = n
  BY <1>1, <1>3, <1>4, FractionType DEF Requests, Leases
<1>. QED
  BY <1>3, <1>5 DEF ServerAccept

\* The guard window's invariant is preserved by every step.
LEMMA GuardStep == GuardInv /\ [Next]_vars => GuardInv'
<1> SUFFICES ASSUME GuardInv, [Next]_vars
             PROVE  GrantedHolds' /\ LeaderHolds'
  BY StructStep DEF GuardInv
<1> USE DEF GuardInv
<1>1. ASSUME NEW n \in Nodes, FetchLease(n) \/ SendWrite(n) \/ StepDown(n)
                              \/ RequestFails(n) \/ Restart(n)
      PROVE  GrantedHolds' /\ LeaderHolds'
  <2>1. /\ UNCHANGED <<now, skew, lease>>
        /\ \A m \in Nodes : flag'[m] => flag[m] /\ last'[m] = last[m] /\ sent'[m] = sent[m]
        /\ \A m \in Nodes : pc'[m] = "granted" => pc[m] = "granted" /\ req'[m] = req[m]
    BY <1>1 DEF FetchLease, SendWrite, StepDown, RequestFails, Restart, Return,
                apiVars, roleVars, StructInv, TypeOK
  <2>2. GrantedHolds'
    BY <2>1 DEF GrantedHolds, GrantPrompt, SentAt
  <2>3. LeaderHolds'
    BY <2>1 DEF LeaderHolds, IsLeader, Prompt
  <2>. QED
    BY <2>2, <2>3
<1>2. ASSUME NEW n \in Nodes, Acquired(n) PROVE GrantedHolds' /\ LeaderHolds'
  <2>1. /\ UNCHANGED <<now, skew, lease>>
        /\ flag' = [flag EXCEPT ![n] = TRUE]
        /\ last' = [last EXCEPT ![n] = now]
        /\ sent' = [sent EXCEPT ![n] = SentAt(n)]
        /\ pc' = [pc EXCEPT ![n] = "idle"]
        /\ req' = [req EXCEPT ![n] = NoRequest(n)]
    BY <1>2 DEF Acquired, Return, apiVars
  <2>2. GrantedHolds'
    BY <2>1 DEF GrantedHolds, GrantPrompt, SentAt, StructInv, TypeOK
  <2>3. ASSUME LeaseDuration > GuardWindow,
               now - SentAt(n) + MaxSkew + Fraction <= GuardWindow
        PROVE  lease.holder = n /\ lease.renew >= SentAt(n) + skew[n]
    <3>1. lease.holder = n /\ lease.renew >= req[n].renew
      BY <1>2, <2>3 DEF Acquired, GrantedHolds, GrantPrompt
    <3>. QED
      BY <3>1, TimingAssumption DEF SentAt, StructInv, TypeOK, Leases, Requests
  <2>4. LeaderHolds'
    <3> SUFFICES ASSUME NEW m \in Nodes, IsLeader(m)', Prompt(m)'
                 PROVE  lease.holder = m /\ lease.renew >= sent'[m] + skew[m]
      BY <2>1 DEF LeaderHolds
    <3>1. CASE m = n
      BY <2>1, <2>3, <3>1 DEF Prompt, StructInv, TypeOK
    <3>2. CASE m # n
      BY <2>1, <3>2 DEF LeaderHolds, IsLeader, Prompt, StructInv, TypeOK
    <3>. QED
      BY <3>1, <3>2
  <2>. QED
    BY <2>2, <2>4
<1>3. ASSUME NEW r \in net, ServerAccept(r) PROVE GrantedHolds' /\ LeaderHolds'
  <2>1. /\ lease' = [holder |-> r.from, renew |-> r.renew, version |-> lease.version + 1]
        /\ pc' = [pc EXCEPT ![r.from] = IF Awaits(r.from, r) THEN "granted" ELSE @]
        /\ UNCHANGED <<now, skew, req, flag, last, sent>>
    BY <1>3 DEF ServerAccept, roleVars
  <2>2. r \in Requests /\ lease'.renew \in Nat /\ lease.renew \in Nat
    BY <2>1 DEF StructInv, TypeOK, Requests, Leases
  <2>3. GrantedHolds'
    <3> SUFFICES ASSUME NEW n \in Nodes, pc'[n] = "granted", GrantPrompt(n)
                 PROVE  lease'.holder = n /\ lease'.renew >= req[n].renew
      BY <2>1 DEF GrantedHolds, GrantPrompt, SentAt
    <3>1. CASE n = r.from /\ Awaits(n, r)
      BY <2>1, <2>2, <3>1 DEF Awaits, Requests
    <3>2. CASE ~(n = r.from /\ Awaits(n, r))
      <4>1. pc[n] = "granted"
        BY <2>1, <3>2 DEF StructInv, TypeOK
      <4>2. lease.holder = n /\ \A m \in Nodes : Wall(m) <= lease.renew + StoredDuration
        BY <4>1, GrantNotExpired
      <4>3. lease'.holder = n /\ lease'.renew >= lease.renew
        BY <1>3, <4>2, AcceptKeepsHolder
      <4>4. lease.renew >= req[n].renew /\ req[n].renew \in Nat
        BY <4>1 DEF GrantedHolds, StructInv, TypeOK, Requests
      <4>. QED
        BY <2>2, <4>3, <4>4
    <3>. QED
      BY <3>1, <3>2
  <2>4. LeaderHolds'
    <3> SUFFICES ASSUME NEW n \in Nodes, IsLeader(n), Prompt(n)
                 PROVE  lease'.holder = n /\ lease'.renew >= sent[n] + skew[n]
      BY <2>1 DEF LeaderHolds, IsLeader, Prompt
    <3>1. lease.holder = n /\ \A m \in Nodes : Wall(m) <= lease.renew + StoredDuration
      BY LeaderNotExpired
    <3>2. lease'.holder = n /\ lease'.renew >= lease.renew
      BY <1>3, <3>1, AcceptKeepsHolder
    <3>3. lease.renew >= sent[n] + skew[n]
      BY DEF LeaderHolds
    <3>4. sent[n] \in Int /\ skew[n] \in Nat
      BY TimingAssumption DEF StructInv, TypeOK
    <3>. QED
      BY <2>2, <3>2, <3>3, <3>4, TimingAssumption
  <2>. QED
    BY <2>3, <2>4
<1>4. ASSUME NEW r \in net, ServerConflict(r) PROVE GrantedHolds' /\ LeaderHolds'
  <2>1. UNCHANGED <<now, skew, lease, flag, last, sent>>
    BY <1>4 DEF ServerConflict, roleVars
  <2>2. \A m \in Nodes : pc'[m] = "granted" => pc[m] = "granted" /\ req'[m] = req[m]
    BY <1>4 DEF ServerConflict, Return, StructInv, TypeOK
  <2>3. GrantedHolds'
    BY <2>1, <2>2 DEF GrantedHolds, GrantPrompt, SentAt
  <2>4. LeaderHolds'
    BY <2>1 DEF LeaderHolds, IsLeader, Prompt
  <2>. QED
    BY <2>3, <2>4
<1>5. CASE Tick
  <2>1. now' = now + 1 /\ now \in Nat /\ UNCHANGED <<skew, lease, pc, req, flag, last, sent>>
    BY <1>5 DEF Tick, apiVars, roleVars, StructInv, TypeOK
  <2>2. GrantedHolds'
    <3> SUFFICES ASSUME NEW n \in Nodes, GrantPrompt(n)' PROVE GrantPrompt(n)
      BY <2>1 DEF GrantedHolds
    <3>1. req[n].renew \in Int /\ skew[n] \in Int
      BY TimingAssumption DEF StructInv, TypeOK, Requests
    <3>. QED
      BY <2>1, <3>1, FractionType, TimingAssumption DEF GrantPrompt, SentAt
  <2>3. LeaderHolds'
    <3> SUFFICES ASSUME NEW n \in Nodes, IsLeader(n)' PROVE IsLeader(n)
      BY <2>1 DEF LeaderHolds, Prompt
    <3>1. last[n] \in Nat
      BY DEF StructInv, TypeOK
    <3>. QED
      BY <2>1, <3>1, TimingAssumption DEF IsLeader
  <2>. QED
    BY <2>2, <2>3
<1>6. CASE UNCHANGED vars
  BY <1>6 DEF vars, GrantedHolds, GrantPrompt, LeaderHolds, IsLeader, Prompt, SentAt
<1>. QED
  BY <1>1, <1>2, <1>3, <1>4, <1>5, <1>6 DEF Next

\* So the guard invariant holds throughout.
LEMMA GuardInvariant == Spec => []GuardInv
<1>1. Init => GuardInv
  <2> SUFFICES ASSUME Init PROVE GuardInv
    OBVIOUS
  <2>1. StructInv
    BY TimingAssumption
       DEF Init, StructInv, TypeOK, LeaseWellFormed, SnapsCurrent, RequestsCurrent,
           Leases, Requests, Holders, NoLease, NoRequest
  <2>. QED
    BY <2>1 DEF Init, GuardInv, GrantedHolds, LeaderHolds, IsLeader
<1>2. GuardInv /\ [Next]_vars => GuardInv'
  BY GuardStep
<1>. QED
  BY <1>1, <1>2, PTL DEF Spec

\* THEOREM: whatever the timing constants are, a pod that leads after a prompt
\* renewal holds the Lease, so at most one such pod leads.
THEOREM MutualExclusion == Spec => []PromptLeaderHolds
<1>1. GuardInv => PromptLeaderHolds
  BY DEF GuardInv, LeaderHolds, PromptLeaderHolds
<1>. QED
  BY <1>1, GuardInvariant, PTL

\* THEOREM: nor is the Lease ever taken from such a pod.
THEOREM HandoverSafe == Spec => SeizedOnlyFromSilentHolder
<1>1. ASSUME GuardInv, [Next]_vars
      PROVE  [\A n \in Nodes : lease.holder = n /\ lease'.holder # n
                                 => ~IsLeader(n) \/ ~Prompt(n)]_vars
  <2> SUFFICES ASSUME NEW n \in Nodes, lease.holder = n, lease'.holder # n,
                      IsLeader(n), Prompt(n)
               PROVE  FALSE
    OBVIOUS
  <2>1. PICK r \in net : ServerAccept(r)
    BY <1>1 DEF Next, FetchLease, SendWrite, StepDown, Acquired, RequestFails, Restart,
                ServerConflict, Tick, apiVars, vars
  <2>2. \A m \in Nodes : Wall(m) <= lease.renew + StoredDuration
    BY <1>1, LeaderNotExpired DEF GuardInv
  <2>. QED
    BY <1>1, <2>1, <2>2, AcceptKeepsHolder DEF GuardInv
<1>. QED
  BY <1>1, GuardInvariant, PTL DEF Spec, SeizedOnlyFromSilentHolder
=============================================================================
