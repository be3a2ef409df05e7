--------------------------- MODULE ConnLeaseProofs ---------------------------
(***************************************************************************)
(* ConnPool implements ConnLease, for any number of connections and of     *)
(* callers.                                                                *)
(***************************************************************************)
EXTENDS ConnPoolProofs

\* The mapping of ImplementsLease: the owners as the abstract pool has them.
OwnerMap == [c \in Client |-> OwnerOf(c)]

\* Who owns a connection, for each of the ways it can be owned.
Owners ==
  \A c \in Client :
    /\ \A r \in Request : lease[r] = c <=> OwnerMap[c] = r
    /\ Pooled(c) => OwnerMap[c] = "free"
    /\ task[c] \in {"disconnect", "gone"} => OwnerMap[c] = "gone"
    /\ task[c] \notin {"disconnect", "gone", "idle"} => OwnerMap[c] = "building"

LEMMA OwnersByIInv == IInv => Owners
<1> SUFFICES ASSUME IInv, NEW c \in Client
             PROVE  /\ \A r \in Request : lease[r] = c <=> OwnerOf(c) = r
                    /\ Pooled(c) => OwnerOf(c) = "free"
                    /\ task[c] \in {"disconnect", "gone"} => OwnerOf(c) = "gone"
                    /\ task[c] \notin {"disconnect", "gone", "idle"} => OwnerOf(c) = "building"
  BY DEF Owners, OwnerMap
<1>1. ASSUME NEW r \in Request, lease[r] = c PROVE OwnerOf(c) = r
  <2>1. Leased(c) /\ c # NoClient
    BY <1>1, PoolAssumption DEF Leased
  <2>2. \A q \in Request : lease[q] = c => q = r
    BY <1>1, <2>1 DEF IInv, OneUser
  <2> QED
    BY <1>1, <2>1, <2>2 DEF OwnerOf
<1>2. Pooled(c) => ~Leased(c)
  BY DEF IInv, OneUser
<1>3. task[c] # "idle" => ~Leased(c) /\ ~Pooled(c)
  BY DEF IInv, OneUser
<1>4. ASSUME NEW r \in Request, OwnerOf(c) = r PROVE lease[r] = c
  <2>1. Leased(c)
    BY <1>4, PoolAssumption DEF OwnerOf
  <2> QED
    BY <1>1, <1>4, <2>1 DEF Leased
<1> QED
  BY <1>1, <1>2, <1>3, <1>4 DEF OwnerOf

\* A connection that nothing happens to keeps its owner.
LEMMA SameOwner ==
  ASSUME Owners, Owners', NEW d \in Client,
         \A r \in Request : lease'[r] = d <=> lease[r] = d,
         In(d, pool') <=> In(d, pool),
         task'[d] \in {"disconnect", "gone"} <=> task[d] \in {"disconnect", "gone"}
  PROVE  OwnerMap'[d] = OwnerMap[d]
<1>1. CASE Leased(d)
  <2>1. PICK r \in Request : lease[r] = d
    BY <1>1 DEF Leased
  <2> QED
    BY <2>1 DEF Owners, OwnerMap
<1>2. CASE ~Leased(d)
  <2>1. ~Leased(d)'
    BY <1>2 DEF Leased
  <2> QED
    BY <1>2, <2>1 DEF OwnerOf, OwnerMap, Pooled, In
<1> QED
  BY <1>1, <1>2

\* A step of the pool as the abstract specification sees it.
LEMMA Passing ==
  ASSUME NEW c \in Client,
         \A d \in Client : d # c => OwnerMap'[d] = OwnerMap[d]
  PROVE  L!Pass(c, OwnerMap[c], OwnerMap'[c])
BY DEF L!Pass, OwnerMap

LEMMA Staying ==
  ASSUME \A d \in Client : OwnerMap'[d] = OwnerMap[d], fEnd' = fEnd
  PROVE  UNCHANGED L!vars
BY DEF L!vars, OwnerMap

LEMMA ConnStepRefines ==
  ASSUME IInv, IInv', NEW c \in Client, ConnStep(c)
  PROVE  L!Next \/ UNCHANGED L!vars
<1> USE DEF SetTask, requestVars
<1>1. TypeOK /\ Owners /\ Owners'
  BY OwnersByIInv, PTL DEF IInv
<1>2. task[c] # "idle" /\ UNCHANGED <<lease, fEnd>>
  BY DEF ConnStep, BeginResolve, Resolved, ResolveFails, Connected, ConnectFails,
         RetryConnect, ShutDown, Disconnected
<1>3. \A d \in Client : d # c => task'[d] = task[d]
  BY <1>1 DEF ConnStep, BeginResolve, Resolved, ResolveFails, Connected, ConnectFails,
              RetryConnect, ShutDown, Disconnected, TypeOK
<1>4. CASE pool' = pool
  <2>1. \A d \in Client : d # c => OwnerMap'[d] = OwnerMap[d]
    BY <1>1, <1>2, <1>3, <1>4, SameOwner DEF Pooled
  <2>2. CASE task'[c] \in {"disconnect", "gone"} <=> task[c] \in {"disconnect", "gone"}
    <3>1. OwnerMap'[c] = OwnerMap[c]
      BY <1>1, <1>2, <1>4, <2>2, SameOwner DEF Pooled
    <3> QED
      BY <1>2, <2>1, <3>1, Staying
  <2>3. CASE ~(task'[c] \in {"disconnect", "gone"} <=> task[c] \in {"disconnect", "gone"})
    \* The coroutine of a connection that is being built gives up after Stop.
    <3>1. task'[c] = "gone" /\ fEnd /\ task[c] \notin {"disconnect", "gone", "idle"}
      BY <1>1, <1>2, <2>3 DEF ConnStep, BeginResolve, Resolved, ResolveFails, Connected,
           ConnectFails, RetryConnect, ShutDown, Disconnected, ResolveOrConnect, TypeOK
    <3>2. OwnerMap[c] = "building" /\ OwnerMap'[c] = "gone"
      BY <1>1, <3>1 DEF Owners
    <3>3. L!Pass(c, "building", "gone")
      BY <2>1, <3>2, Passing
    <3> QED
      BY <1>2, <3>1, <3>3 DEF L!Next, L!Discard
  <2> QED
    BY <2>2, <2>3
<1>5. CASE pool' # pool
  \* A connection that has been built is offered.
  <2>1. /\ ~fEnd /\ task[c] = "connect" /\ pool' = Append(pool, c)
    BY <1>5 DEF ConnStep, BeginResolve, Resolved, ResolveFails, Connected, ConnectFails,
                RetryConnect, ShutDown, Disconnected
  <2>2. ~In(c, pool) /\ NoRepeat(pool) /\ pool \in Seq(Client)
    BY <2>1, OneUserMeans DEF IInv, TypeOK
  <2>3. \A d : In(d, pool') <=> In(d, pool) \/ d = c
    BY <2>1, <2>2, PushBack
  <2>4. Pooled(c)' /\ \A d \in Client : d # c => (In(d, pool') <=> In(d, pool))
    BY <2>3 DEF Pooled, In
  <2>5. OwnerMap[c] = "building" /\ OwnerMap'[c] = "free"
    BY <1>1, <2>1, <2>4 DEF Owners
  <2>6. \A d \in Client : d # c => OwnerMap'[d] = OwnerMap[d]
    BY <1>1, <1>2, <1>3, <2>4, SameOwner
  <2>7. L!Pass(c, "building", "free")
    BY <2>5, <2>6, Passing
  <2> QED
    BY <1>2, <2>1, <2>7 DEF L!Next, L!Offer
<1> QED
  BY <1>4, <1>5

LEMMA TakeClientRefines ==
  ASSUME IInv, IInv', NEW r \in Request, TakeClient(r)
  PROVE  L!Next
<1>1. TypeOK /\ Owners /\ Owners'
  BY OwnersByIInv, PTL DEF IInv
<1>head. PICK c \in Client : pool # <<>> /\ c = Head(pool)
  BY <1>1, OneUserMeans, PopFront DEF TakeClient, IInv, TypeOK
<1>2. /\ pool # <<>> /\ pc[r] = "lock" /\ pool' = Tail(pool)
      /\ lease' = [lease EXCEPT ![r] = c]
      /\ UNCHANGED <<fEnd, task>>
  BY <1>head DEF TakeClient, SetPc, connVars
<1>3. /\ c \in Client /\ In(c, pool)
      /\ \A d : In(d, pool') <=> In(d, pool) /\ d # c
  BY <1>head, <1>1, <1>2, OneUserMeans, PopFront DEF IInv, TypeOK
<1>4. lease[r] = NoClient /\ NoClient \notin Client
  BY <1>2, PoolAssumption DEF IInv, LeaseWhileSending
<1>5. \A q \in Request : lease'[q] = IF q = r THEN c ELSE lease[q]
  BY <1>1, <1>2 DEF TypeOK
<1>6. OwnerMap[c] = "free" /\ OwnerMap'[c] = r
  BY <1>1, <1>3, <1>5 DEF Owners, Pooled, In
<1>7. \A d \in Client : OwnerMap[d] # r
  BY <1>1, <1>4 DEF Owners
<1>8. ASSUME NEW d \in Client, d # c PROVE OwnerMap'[d] = OwnerMap[d]
  <2>1. /\ \A q \in Request : lease'[q] = d <=> lease[q] = d
        /\ In(d, pool') <=> In(d, pool)
    BY <1>3, <1>4, <1>5, <1>8 DEF Pooled, In
  <2> QED
    BY <1>1, <1>2, <2>1, SameOwner
<1>9. L!Pass(c, "free", r)
  BY <1>3, <1>6, <1>8, Passing
<1>10. L!Take(r, c)
  BY <1>2, <1>7, <1>9 DEF OwnerMap, L!Take
<1> QED
  BY <1>3, <1>10 DEF L!Next

LEMMA GivingUpRefines ==
  ASSUME IInv, IInv', NEW r \in Request, Answered(r) \/ SendRecvFails(r)
  PROVE  L!Next
<1>1. TypeOK /\ Owners /\ Owners'
  BY OwnersByIInv, PTL DEF IInv
<1>2. /\ pc[r] \in {"write", "read"}
      /\ lease' = [lease EXCEPT ![r] = NoClient]
      /\ UNCHANGED fEnd
  BY DEF Answered, SendRecvFails, SetPc, connVars
<1>3. PICK c \in Client : lease[r] = c /\ c # NoClient
  BY <1>1, <1>2, PoolAssumption DEF IInv, LeaseWhileSending, TypeOK
<1>4. \A q \in Request : lease'[q] = IF q = r THEN NoClient ELSE lease[q]
  BY <1>1, <1>2 DEF TypeOK
<1>5. OwnerMap[c] = r
  BY <1>1, <1>3 DEF Owners
<1>6. ~In(c, pool) /\ NoRepeat(pool) /\ pool \in Seq(Client)
  BY <1>1, <1>3, OneUserMeans DEF IInv, TypeOK
<1>7. CASE Answered(r)
  <2>1. pool' = Append(pool, c) /\ UNCHANGED task
    BY <1>3, <1>7 DEF Answered, connVars
  <2>2. \A d : In(d, pool') <=> In(d, pool) \/ d = c
    BY <1>3, <1>6, <2>1, PushBack
  <2>3. OwnerMap'[c] = "free"
    BY <1>1, <1>3, <2>2 DEF Owners, Pooled, In
  <2>4. ASSUME NEW d \in Client, d # c PROVE OwnerMap'[d] = OwnerMap[d]
    <3>1. /\ \A q \in Request : lease'[q] = d <=> lease[q] = d
          /\ In(d, pool') <=> In(d, pool)
      BY <1>3, <1>4, <2>2, <2>4, PoolAssumption DEF Pooled, In
    <3> QED
      BY <1>1, <2>1, <3>1, SameOwner
  <2>5. L!Pass(c, r, "free")
    BY <1>3, <1>5, <2>3, <2>4, Passing
  <2> QED
    BY <1>2, <1>3, <2>5 DEF L!Next, L!GiveBack
<1>8. CASE SendRecvFails(r)
  <2>1. task' = [task EXCEPT ![c] = "reconnect"] /\ UNCHANGED pool
    BY <1>3, <1>8 DEF SendRecvFails
  <2>2. \A d \in Client : task'[d] = IF d = c THEN "reconnect" ELSE task[d]
    BY <1>1, <2>1 DEF TypeOK
  <2>3. OwnerMap'[c] = "building"
    BY <1>1, <1>3, <2>2 DEF Owners
  <2>4. ASSUME NEW d \in Client, d # c PROVE OwnerMap'[d] = OwnerMap[d]
    <3>1. /\ \A q \in Request : lease'[q] = d <=> lease[q] = d
          /\ In(d, pool') <=> In(d, pool)
      BY <1>3, <1>4, <2>1, <2>4, PoolAssumption DEF Pooled
    <3> QED
      BY <1>1, <2>2, <2>4, <3>1, SameOwner
  <2>5. L!Pass(c, r, "building")
    BY <1>3, <1>5, <2>3, <2>4, Passing
  <2> QED
    BY <1>2, <1>3, <2>5 DEF L!Next, L!Break
<1> QED
  BY <1>7, <1>8

LEMMA StopTurnRefines ==
  ASSUME IInv, IInv', StopTurn
  PROVE  L!Next
<1>1. TypeOK /\ Owners /\ Owners'
  BY OwnersByIInv, PTL DEF IInv
<1>2. fEnd' = TRUE /\ UNCHANGED lease
  BY DEF StopTurn, requestVars
<1>3. CASE pool = <<>>
  <2>1. UNCHANGED <<pool, task>>
    BY <1>3 DEF StopTurn
  <2>2. \A d \in Client : OwnerMap'[d] = OwnerMap[d]
    BY <1>1, <1>2, <2>1, SameOwner DEF Pooled
  <2>3. L!Close
    BY <1>2, <2>2 DEF OwnerMap, L!Close
  <2> QED
    BY <2>3 DEF L!Next
<1>4. CASE pool # <<>>
  <2>head. PICK c \in Client : c = Head(pool)
    BY <1>1, <1>4, OneUserMeans, PopFront DEF IInv, TypeOK
  <2>1. pool' = Tail(pool) /\ task' = [task EXCEPT ![c] = "disconnect"]
    BY <1>4, <2>head DEF StopTurn
  <2>2. /\ c \in Client /\ In(c, pool)
        /\ \A d : In(d, pool') <=> In(d, pool) /\ d # c
    BY <1>1, <1>4, <2>head, <2>1, OneUserMeans, PopFront DEF IInv, TypeOK
  <2>3. \A d \in Client : task'[d] = IF d = c THEN "disconnect" ELSE task[d]
    BY <1>1, <2>1 DEF TypeOK
  <2>4. OwnerMap[c] = "free" /\ OwnerMap'[c] = "gone"
    BY <1>1, <2>2, <2>3 DEF Owners, Pooled, In
  <2>5. ASSUME NEW d \in Client, d # c PROVE OwnerMap'[d] = OwnerMap[d]
    <3>1. In(d, pool') <=> In(d, pool)
      BY <2>2, <2>5 DEF Pooled, In
    <3> QED
      BY <1>1, <1>2, <2>3, <2>5, <3>1, SameOwner
  <2>6. L!Pass(c, "free", "gone")
    BY <2>2, <2>4, <2>5, Passing
  <2> QED
    BY <1>2, <2>2, <2>6 DEF L!Next, L!Discard
<1> QED
  BY <1>3, <1>4

\* ManagerConn keeps the promises of ConnLease: every step of the pool is one of
\* the abstract pool's, or leaves every connection with its owner.
THEOREM Implementation == Spec => ImplementsLease
<1>1. Init => L!Init
  <2> SUFFICES ASSUME Init PROVE L!Init
    OBVIOUS
  <2>1. \A c \in Client : OwnerMap[c] = "building"
    <3>1. IInv
      BY InitIInv
    <3> QED
      BY <3>1, OwnersByIInv DEF Init, Owners
  <2> QED
    BY <2>1 DEF OwnerMap, Init, L!Init
<1>2. IInv /\ IInv' /\ [Next]_vars => [L!Next]_L!vars
  <2> SUFFICES ASSUME IInv, IInv', [Next]_vars PROVE L!Next \/ UNCHANGED L!vars
    OBVIOUS
  <2>1. Owners /\ Owners'
    BY OwnersByIInv, PTL
  <2>2. CASE UNCHANGED <<pool, fEnd, task, lease>>
    <3>1. \A d \in Client : OwnerMap'[d] = OwnerMap[d]
      BY <2>1, <2>2, SameOwner DEF Pooled
    <3> QED
      BY <2>2, <3>1, Staying
  <2>3. CASE UNCHANGED vars
    BY <2>2, <2>3 DEF vars, connVars, requestVars
  <2>4. ASSUME NEW c \in Client, ConnStep(c) PROVE L!Next \/ UNCHANGED L!vars
    BY <2>4, ConnStepRefines
  <2>5. ASSUME NEW r \in Request, Ask(r) \/ RequestStep(r)
        PROVE  L!Next \/ UNCHANGED L!vars
    <3>1. CASE TakeClient(r) \/ Answered(r) \/ SendRecvFails(r)
      BY <3>1, TakeClientRefines, GivingUpRefines
    <3>2. CASE ~(TakeClient(r) \/ Answered(r) \/ SendRecvFails(r))
      BY <2>2, <2>5, <3>2 DEF Ask, RequestStep, CheckEnd, PoolEmpty, Poll, Written, connVars
    <3> QED
      BY <3>1, <3>2
  <2>6. CASE StopTurn
    BY <2>6, StopTurnRefines
  <2> QED
    BY <2>3, <2>4, <2>5, <2>6 DEF Next
<1> QED
  BY <1>1, <1>2, Invariance, PTL DEF Spec, ImplementsLease, L!Spec

=============================================================================
