--------------------------- MODULE ConnPoolProofs ---------------------------
(***************************************************************************)
(* Theorems about ConnPool, for any number of connections and of callers.  *)
(***************************************************************************)
EXTENDS ConnPool, TLAPS

-----------------------------------------------------------------------------
(* The queue of connections, with no repetition. *)

In(c, q) == \E i \in 1..Len(q) : q[i] = c
NoRepeat(q) == \A i, j \in 1..Len(q) : q[i] = q[j] => i = j

\* pop_front: the first connection leaves, the others stay.
LEMMA PopFront ==
  ASSUME NEW S, NEW q \in Seq(S), q # <<>>, NoRepeat(q)
  PROVE  /\ Head(q) \in S
         /\ In(Head(q), q)
         /\ Tail(q) \in Seq(S)
         /\ NoRepeat(Tail(q))
         /\ \A c : In(c, Tail(q)) <=> In(c, q) /\ c # Head(q)
<1>1. Len(q) \in Nat /\ Len(q) >= 1 /\ Head(q) = q[1] /\ 1 \in 1..Len(q)
  OBVIOUS
<1>2. /\ Tail(q) \in Seq(S)
      /\ Len(Tail(q)) = Len(q) - 1
      /\ \A i \in 1..Len(q) - 1 : Tail(q)[i] = q[i + 1]
  OBVIOUS
<1>3. Head(q) \in S /\ In(Head(q), q)
  BY <1>1 DEF In
<1>4. NoRepeat(Tail(q))
  <2> SUFFICES ASSUME NEW i \in 1..Len(q) - 1, NEW j \in 1..Len(q) - 1,
                      Tail(q)[i] = Tail(q)[j]
               PROVE  i = j
    BY <1>2 DEF NoRepeat
  <2>1. i + 1 \in 1..Len(q) /\ j + 1 \in 1..Len(q) /\ q[i + 1] = q[j + 1]
    BY <1>1, <1>2
  <2> QED
    BY <2>1 DEF NoRepeat
<1>5. ASSUME NEW c PROVE In(c, Tail(q)) <=> In(c, q) /\ c # Head(q)
  <2>1. ASSUME In(c, Tail(q)) PROVE In(c, q) /\ c # Head(q)
    <3>1. PICK i \in 1..Len(q) - 1 : Tail(q)[i] = c
      BY <1>2, <2>1 DEF In
    <3>2. i + 1 \in 1..Len(q) /\ q[i + 1] = c /\ i + 1 # 1
      BY <1>1, <1>2, <3>1
    <3> QED
      BY <1>1, <3>2 DEF In, NoRepeat
  <2>2. ASSUME In(c, q), c # Head(q) PROVE In(c, Tail(q))
    <3>1. PICK i \in 1..Len(q) : q[i] = c
      BY <2>2 DEF In
    <3>2. i - 1 \in 1..Len(q) - 1 /\ Tail(q)[i - 1] = c
      BY <1>1, <1>2, <2>2, <3>1
    <3> QED
      BY <1>2, <3>2 DEF In
  <2> QED
    BY <2>1, <2>2
<1> QED
  BY <1>2, <1>3, <1>4, <1>5

\* push_back of a connection that is not in the queue.
LEMMA PushBack ==
  ASSUME NEW S, NEW q \in Seq(S), NEW d \in S, NoRepeat(q), ~In(d, q)
  PROVE  /\ Append(q, d) \in Seq(S)
         /\ NoRepeat(Append(q, d))
         /\ \A c : In(c, Append(q, d)) <=> In(c, q) \/ c = d
<1>1. /\ Append(q, d) \in Seq(S)
      /\ Len(q) \in Nat
      /\ Len(Append(q, d)) = Len(q) + 1
      /\ Append(q, d)[Len(q) + 1] = d
      /\ \A i \in 1..Len(q) : Append(q, d)[i] = q[i]
  OBVIOUS
<1>2. \A i \in 1..Len(q) + 1 : i \in 1..Len(q) \/ i = Len(q) + 1
  BY <1>1
<1>3. \A i \in 1..Len(q) : i \in 1..Len(q) + 1
  BY <1>1
<1>4. Len(q) + 1 \in 1..Len(q) + 1
  BY <1>1
<1>5. NoRepeat(Append(q, d))
  BY <1>1, <1>2 DEF NoRepeat, In
<1>6. \A c : In(c, Append(q, d)) <=> In(c, q) \/ c = d
  BY <1>1, <1>2, <1>3, <1>4 DEF In
<1> QED
  BY <1>1, <1>5, <1>6

-----------------------------------------------------------------------------
(* The inductive invariant. *)

\* A request holds a connection exactly while it is sending.
LeaseWhileSending ==
  \A r \in Request : lease[r] # NoClient <=> pc[r] \in {"write", "read"}

\* A request that is still polling has polls left.
PollsLeft ==
  \A r \in Request : pc[r] \in {"check", "lock", "timer"} => left[r] >= 1

IInv == TypeOK /\ OneUser /\ NoneLost /\ LeaseWhileSending /\ PollsLeft

\* What a connection can be doing before Stop.
Alive == TaskState \ {"gone", "disconnect"}

\* What OneUser and NoneLost say, without Pooled and Leased.
LEMMA OneUserMeans ==
  OneUser <=>
    /\ NoRepeat(pool)
    /\ \A r, q \in Request : lease[r] = lease[q] /\ lease[r] # NoClient => r = q
    /\ \A r \in Request : lease[r] \in Client =>
          ~In(lease[r], pool) /\ task[lease[r]] = "idle"
    /\ \A c \in Client : In(c, pool) => task[c] = "idle"
BY DEF OneUser, NoRepeat, Pooled, Leased, In

LEMMA NoneLostMeans ==
  NoneLost <=>
    (~fEnd =>
       \A c \in Client :
         /\ task[c] \in TaskState => task[c] \in Alive
         /\ task[c] = "idle" =>
              In(c, pool) \/ \E r \in Request : lease[r] = c /\ pc[r] \in {"write", "read"})
<1>1. \A c \in Client : task[c] \in {"gone", "disconnect"} => task[c] \in TaskState
  BY DEF TaskState
<1> QED
  BY <1>1 DEF NoneLost, Pooled, In, Sending, Alive

-----------------------------------------------------------------------------
(* The steps of a coroutine that does not touch the pool. *)

\* A Connect, Reconnect or Disconnect goes on to another of its awaits.
LEMMA TaskStep ==
  ASSUME IInv,
         NEW c \in Client, NEW t \in TaskState,
         task[c] # "idle", t # "idle", ~fEnd => t \in Alive,
         task' = [task EXCEPT ![c] = t],
         resolved' \in SUBSET Client,
         UNCHANGED <<pool, fEnd, pc, lease, left, stop>>
  PROVE  IInv'
<1> USE DEF IInv
<1>1. TypeOK'
  BY DEF TypeOK
<1>2. \A d \in Client : task'[d] = IF d = c THEN t ELSE task[d]
  BY DEF TypeOK
<1>3. OneUser'
  BY <1>2 DEF OneUser, Pooled, Leased
<1>4. NoneLost'
  BY <1>2 DEF NoneLost, Pooled, Sending, Alive
<1>5. LeaseWhileSending' /\ PollsLeft'
  BY DEF LeaseWhileSending, PollsLeft
<1> QED
  BY <1>1, <1>3, <1>4, <1>5

\* A request goes on without taking a connection or giving one up.
LEMMA PcStep ==
  ASSUME IInv,
         NEW r \in Request, NEW p \in {"none", "check", "lock", "timer", "write", "read"},
         NEW n \in 0..Polls,
         pc[r] \in {"write", "read"} <=> p \in {"write", "read"},
         p \in {"check", "lock", "timer"} => n >= 1,
         pc' = [pc EXCEPT ![r] = p],
         left' = [left EXCEPT ![r] = n],
         UNCHANGED <<pool, fEnd, task, resolved, lease, stop>>
  PROVE  IInv'
<1> USE DEF IInv
<1>1. TypeOK'
  BY DEF TypeOK
<1>2. \A q \in Request : /\ pc'[q] = IF q = r THEN p ELSE pc[q]
                         /\ left'[q] = IF q = r THEN n ELSE left[q]
  BY DEF TypeOK
<1>3. OneUser'
  BY DEF OneUser, Pooled, Leased
<1>4. NoneLost'
  BY <1>2 DEF NoneLost, Pooled, Sending
<1>5. LeaseWhileSending' /\ PollsLeft'
  BY <1>2 DEF LeaseWhileSending, PollsLeft
<1> QED
  BY <1>1, <1>3, <1>4, <1>5

-----------------------------------------------------------------------------
(* The steps that move a connection. *)

LEMMA ConnectedStep ==
  ASSUME IInv, NEW c \in Client, Connected(c)
  PROVE  IInv'
<1> USE DEF IInv
<1>1. CASE fEnd
  <2>1. "gone" \in TaskState
    BY DEF TaskState
  <2> QED
    BY <1>1, <2>1, TaskStep DEF Connected, SetTask, TypeOK, requestVars
<1>2. CASE ~fEnd
  <2>1. /\ task[c] = "connect"
        /\ task' = [task EXCEPT ![c] = "idle"]
        /\ pool' = Append(pool, c)
        /\ UNCHANGED <<fEnd, resolved, pc, lease, left, stop>>
    BY <1>2 DEF Connected, SetTask, requestVars
  <2>2. \A d \in Client : task'[d] = IF d = c THEN "idle" ELSE task[d]
    BY <2>1 DEF TypeOK
  <2>3. ~In(c, pool) /\ \A r \in Request : lease[r] # c
    BY <2>1, OneUserMeans
  <2>4. NoRepeat(pool) /\ pool \in Seq(Client)
    BY OneUserMeans DEF TypeOK
  <2>5. /\ pool' \in Seq(Client)
        /\ NoRepeat(pool')
        /\ \A d : In(d, pool') <=> In(d, pool) \/ d = c
    BY <2>1, <2>3, <2>4, PushBack
  <2>6. TypeOK'
    BY <2>1, <2>5 DEF TypeOK, TaskState
  <2>7. OneUser'
    <3>1. \A r \in Request : lease'[r] \in Client =>
             ~In(lease'[r], pool') /\ task'[lease'[r]] = "idle"
      BY <2>1, <2>2, <2>3, <2>5, OneUserMeans
    <3>2. \A d \in Client : In(d, pool') => task'[d] = "idle"
      BY <2>2, <2>5, OneUserMeans
    <3> QED
      BY <2>1, <2>5, <3>1, <3>2 DEF OneUser, NoRepeat, Pooled, Leased, In
  <2>8. NoneLost'
    <3>1. \A d \in Client :
            /\ task'[d] \notin {"gone", "disconnect"}
            /\ task'[d] = "idle" =>
                 In(d, pool') \/ \E r \in Request : lease[r] = d /\ pc[r] \in {"write", "read"}
      BY <1>2, <2>2, <2>5 DEF NoneLost, Pooled, In, Sending
    <3> QED
      BY <2>1, <3>1 DEF NoneLost, Pooled, In, Sending
  <2>9. LeaseWhileSending' /\ PollsLeft'
    BY <2>1 DEF LeaseWhileSending, PollsLeft
  <2> QED
    BY <2>6, <2>7, <2>8, <2>9
<1> QED
  BY <1>1, <1>2

LEMMA TakeClientStep ==
  ASSUME IInv, NEW r \in Request, TakeClient(r)
  PROVE  IInv'
<1> USE DEF IInv
<1> DEFINE c == Head(pool)
<1>1. /\ pool # <<>>
      /\ pc[r] = "lock" /\ pc' = [pc EXCEPT ![r] = "write"]
      /\ lease' = [lease EXCEPT ![r] = c]
      /\ pool' = Tail(pool)
      /\ UNCHANGED <<fEnd, task, resolved, left, stop>>
  BY DEF TakeClient, SetPc, connVars
<1>2. NoRepeat(pool) /\ pool \in Seq(Client)
  BY OneUserMeans DEF TypeOK
<1>3. /\ c \in Client /\ In(c, pool)
      /\ pool' \in Seq(Client) /\ NoRepeat(pool')
      /\ \A d : In(d, pool') <=> In(d, pool) /\ d # c
  BY <1>1, <1>2, PopFront
<1>4. /\ \A q \in Request : lease'[q] = IF q = r THEN c ELSE lease[q]
      /\ \A q \in Request : pc'[q] = IF q = r THEN "write" ELSE pc[q]
  BY <1>1 DEF TypeOK
<1>5. c # NoClient /\ task[c] = "idle" /\ \A q \in Request : lease[q] # c
  BY <1>3, OneUserMeans, PoolAssumption
<1>6. TypeOK'
  BY <1>1, <1>3 DEF TypeOK
<1>7. OneUser'
  <2>1. \A q \in Request : lease'[q] \in Client =>
          ~In(lease'[q], pool') /\ task'[lease'[q]] = "idle"
    BY <1>1, <1>3, <1>4, <1>5, OneUserMeans
  <2>2. \A d \in Client : In(d, pool') => task'[d] = "idle"
    BY <1>1, <1>3, OneUserMeans
  <2>3. \A p, q \in Request : lease'[p] = lease'[q] /\ lease'[p] # NoClient => p = q
    BY <1>4, <1>5, OneUserMeans
  <2> QED
    BY <1>3, <2>1, <2>2, <2>3 DEF OneUser, NoRepeat, Pooled, Leased, In
<1>8. NoneLost'
  <2> SUFFICES ASSUME ~fEnd, NEW d \in Client, task[d] = "idle"
               PROVE  \/ In(d, pool')
                      \/ \E q \in Request : lease'[q] = d /\ pc'[q] \in {"write", "read"}
    BY <1>1 DEF NoneLost, Pooled, In, Sending
  <2>1. CASE d = c
    BY <1>4, <2>1
  <2>2. CASE In(d, pool) /\ d # c
    BY <1>3, <2>2
  <2>3. CASE \E q \in Request : lease[q] = d /\ pc[q] \in {"write", "read"}
    BY <1>1, <1>4, <2>3
  <2> QED
    BY <2>1, <2>2, <2>3, NoneLostMeans
<1>9. LeaseWhileSending' /\ PollsLeft'
  BY <1>1, <1>4, <1>5 DEF LeaseWhileSending, PollsLeft
<1> QED
  BY <1>6, <1>7, <1>8, <1>9

LEMMA AnsweredStep ==
  ASSUME IInv, NEW r \in Request, Answered(r)
  PROVE  IInv'
<1> USE DEF IInv
<1> DEFINE c == lease[r]
<1>1. /\ pc[r] = "read" /\ pc' = [pc EXCEPT ![r] = "none"]
      /\ lease' = [lease EXCEPT ![r] = NoClient]
      /\ pool' = Append(pool, c)
      /\ UNCHANGED <<fEnd, task, resolved, left, stop>>
  BY DEF Answered, SetPc, connVars
<1>2. c # NoClient /\ c \in Client
  BY <1>1 DEF LeaseWhileSending, TypeOK
<1>3. /\ ~In(c, pool) /\ task[c] = "idle"
      /\ \A q \in Request : lease[q] = c => q = r
      /\ NoRepeat(pool) /\ pool \in Seq(Client)
  BY <1>2, OneUserMeans DEF TypeOK
<1>4. /\ pool' \in Seq(Client) /\ NoRepeat(pool')
      /\ \A d : In(d, pool') <=> In(d, pool) \/ d = c
  BY <1>1, <1>2, <1>3, PushBack
<1>5. /\ \A q \in Request : lease'[q] = IF q = r THEN NoClient ELSE lease[q]
      /\ \A q \in Request : pc'[q] = IF q = r THEN "none" ELSE pc[q]
  BY <1>1 DEF TypeOK
<1>6. TypeOK'
  BY <1>1, <1>4 DEF TypeOK
<1>7. OneUser'
  <2>1. \A q \in Request : lease'[q] \in Client =>
          ~In(lease'[q], pool') /\ task'[lease'[q]] = "idle"
    BY <1>1, <1>3, <1>4, <1>5, OneUserMeans, PoolAssumption
  <2>2. \A d \in Client : In(d, pool') => task'[d] = "idle"
    BY <1>1, <1>3, <1>4, OneUserMeans
  <2>3. \A p, q \in Request : lease'[p] = lease'[q] /\ lease'[p] # NoClient => p = q
    BY <1>5, OneUserMeans
  <2> QED
    BY <1>4, <2>1, <2>2, <2>3 DEF OneUser, NoRepeat, Pooled, Leased, In
<1>8. NoneLost'
  <2> SUFFICES ASSUME ~fEnd, NEW d \in Client, task[d] = "idle"
               PROVE  \/ In(d, pool')
                      \/ \E q \in Request : lease'[q] = d /\ pc'[q] \in {"write", "read"}
    BY <1>1 DEF NoneLost, Pooled, In, Sending
  <2>1. CASE In(d, pool) \/ d = c
    BY <1>4, <2>1
  <2>2. CASE d # c /\ \E q \in Request : lease[q] = d /\ pc[q] \in {"write", "read"}
    BY <1>5, <2>2
  <2> QED
    BY <2>1, <2>2, NoneLostMeans
<1>9. LeaseWhileSending' /\ PollsLeft'
  BY <1>1, <1>5 DEF LeaseWhileSending, PollsLeft
<1> QED
  BY <1>6, <1>7, <1>8, <1>9

LEMMA SendRecvFailsStep ==
  ASSUME IInv, NEW r \in Request, SendRecvFails(r)
  PROVE  IInv'
<1> USE DEF IInv
<1> DEFINE c == lease[r]
<1>1. /\ pc[r] \in {"write", "read"} /\ pc' = [pc EXCEPT ![r] = "none"]
      /\ lease' = [lease EXCEPT ![r] = NoClient]
      /\ task' = [task EXCEPT ![c] = "reconnect"]
      /\ UNCHANGED <<pool, fEnd, resolved, left, stop>>
  BY DEF SendRecvFails, SetPc
<1>2. c # NoClient /\ c \in Client
  BY <1>1 DEF LeaseWhileSending, TypeOK
<1>3. ~In(c, pool) /\ \A q \in Request : lease[q] = c => q = r
  BY <1>2, OneUserMeans
<1>4. /\ \A q \in Request : lease'[q] = IF q = r THEN NoClient ELSE lease[q]
      /\ \A q \in Request : pc'[q] = IF q = r THEN "none" ELSE pc[q]
      /\ \A d \in Client : task'[d] = IF d = c THEN "reconnect" ELSE task[d]
  BY <1>1 DEF TypeOK
<1>5. TypeOK'
  BY <1>1 DEF TypeOK, TaskState
<1>6. OneUser'
  <2>1. \A q \in Request : lease'[q] \in Client =>
          ~In(lease'[q], pool') /\ task'[lease'[q]] = "idle"
    BY <1>1, <1>3, <1>4, OneUserMeans, PoolAssumption
  <2>2. \A d \in Client : In(d, pool') => task'[d] = "idle"
    BY <1>1, <1>3, <1>4, OneUserMeans
  <2>3. \A p, q \in Request : lease'[p] = lease'[q] /\ lease'[p] # NoClient => p = q
    BY <1>4, OneUserMeans
  <2> QED
    BY <1>1, <2>1, <2>2, <2>3 DEF OneUser, NoRepeat, Pooled, Leased, In
<1>7. NoneLost'
  <2>1. ASSUME ~fEnd, NEW d \in Client
        PROVE  task'[d] \notin {"gone", "disconnect"}
    BY <1>4, <2>1 DEF NoneLost
  <2>2. ASSUME ~fEnd, NEW d \in Client, task'[d] = "idle"
        PROVE  \/ In(d, pool)
               \/ \E q \in Request : lease'[q] = d /\ pc'[q] \in {"write", "read"}
    <3>1. d # c /\ task[d] = "idle"
      BY <1>4, <2>2
    <3> QED
      BY <1>4, <2>2, <3>1, NoneLostMeans
  <2> QED
    BY <1>1, <2>1, <2>2 DEF NoneLost, Pooled, In, Sending
<1>8. LeaseWhileSending' /\ PollsLeft'
  BY <1>1, <1>4 DEF LeaseWhileSending, PollsLeft
<1> QED
  BY <1>5, <1>6, <1>7, <1>8

LEMMA StopTurnStep ==
  ASSUME IInv, StopTurn
  PROVE  IInv'
<1> USE DEF IInv
<1>1. CASE pool = <<>>
  BY <1>1 DEF StopTurn, requestVars, TypeOK, OneUser, NoneLost, LeaseWhileSending,
              PollsLeft, Pooled, Leased
<1>2. CASE pool # <<>>
  <2> DEFINE c == Head(pool)
  <2>1. /\ fEnd' = TRUE /\ stop' = "draining"
        /\ task' = [task EXCEPT ![c] = "disconnect"]
        /\ pool' = Tail(pool)
        /\ UNCHANGED <<resolved, pc, lease, left>>
    BY <1>2 DEF StopTurn, requestVars
  <2>2. NoRepeat(pool) /\ pool \in Seq(Client)
    BY OneUserMeans DEF TypeOK
  <2>3. /\ c \in Client /\ In(c, pool)
        /\ pool' \in Seq(Client) /\ NoRepeat(pool')
        /\ \A d : In(d, pool') <=> In(d, pool) /\ d # c
    BY <1>2, <2>1, <2>2, PopFront
  <2>4. \A d \in Client : task'[d] = IF d = c THEN "disconnect" ELSE task[d]
    BY <2>1 DEF TypeOK
  <2>5. TypeOK'
    BY <2>1, <2>3 DEF TypeOK, TaskState
  <2>6. OneUser'
    <3>1. \A q \in Request : lease'[q] \in Client =>
            ~In(lease'[q], pool') /\ task'[lease'[q]] = "idle"
      BY <2>1, <2>3, <2>4, OneUserMeans
    <3>2. \A d \in Client : In(d, pool') => task'[d] = "idle"
      BY <2>3, <2>4, OneUserMeans
    <3>3. \A p, q \in Request : lease'[p] = lease'[q] /\ lease'[p] # NoClient => p = q
      BY <2>1, OneUserMeans
    <3> QED
      BY <2>3, <3>1, <3>2, <3>3 DEF OneUser, NoRepeat, Pooled, Leased, In
  <2>7. NoneLost'
    BY <2>1 DEF NoneLost
  <2>8. LeaseWhileSending' /\ PollsLeft'
    BY <2>1 DEF LeaseWhileSending, PollsLeft
  <2> QED
    BY <2>5, <2>6, <2>7, <2>8
<1> QED
  BY <1>1, <1>2

-----------------------------------------------------------------------------
(* The invariant is inductive. *)

LEMMA InitIInv == Init => IInv
<1> SUFFICES ASSUME Init PROVE IInv
  OBVIOUS
<1> USE DEF Init
<1>1. TypeOK
  <2>1. pool \in Seq(Client)
    OBVIOUS
  <2>2. task \in [Client -> TaskState]
    BY DEF TaskState
  <2>3. left \in [Request -> 0..Polls]
    BY PoolAssumption
  <2> QED
    BY <2>1, <2>2, <2>3 DEF TypeOK
<1>2. OneUser
  BY PoolAssumption DEF OneUser, Pooled, Leased
<1>3. NoneLost
  BY DEF NoneLost
<1>4. LeaseWhileSending /\ PollsLeft
  BY DEF LeaseWhileSending, PollsLeft
<1> QED
  BY <1>1, <1>2, <1>3, <1>4 DEF IInv

LEMMA ConnStepIInv ==
  ASSUME IInv, NEW c \in Client, ConnStep(c)
  PROVE  IInv'
<1> USE DEF requestVars, SetTask
<1>1. TypeOK
  BY DEF IInv
<1>2. /\ ResolveOrConnect(c) \in TaskState \ {"idle"}
      /\ ~fEnd => ResolveOrConnect(c) \in Alive
  BY DEF ResolveOrConnect, TaskState, Alive
<1>3. CASE BeginResolve(c)
  BY <1>1, <1>2, <1>3, TaskStep DEF BeginResolve, TypeOK
<1>4. CASE Resolved(c)
  BY <1>1, <1>4, TaskStep DEF Resolved, TypeOK, TaskState, Alive
<1>5. CASE ResolveFails(c)
  BY <1>1, <1>5, TaskStep DEF ResolveFails, TypeOK, TaskState, Alive
<1>6. CASE Connected(c)
  BY <1>6, ConnectedStep
<1>7. CASE ConnectFails(c)
  BY <1>1, <1>7, TaskStep DEF ConnectFails, TypeOK, TaskState, Alive
<1>8. CASE RetryConnect(c)
  BY <1>1, <1>8, TaskStep DEF RetryConnect, TypeOK, TaskState, Alive
<1>9. CASE ShutDown(c)
  BY <1>1, <1>2, <1>9, TaskStep DEF ShutDown, TypeOK
<1>10. CASE Disconnected(c)
  \* Before Stop no connection is being disconnected.
  <2>1. fEnd
    BY <1>10 DEF Disconnected, IInv, NoneLost
  <2> QED
    BY <1>1, <1>10, <2>1, TaskStep DEF Disconnected, TypeOK, TaskState
<1> QED
  BY <1>3, <1>4, <1>5, <1>6, <1>7, <1>8, <1>9, <1>10 DEF ConnStep

LEMMA RequestStepIInv ==
  ASSUME IInv, NEW r \in Request, Ask(r) \/ RequestStep(r)
  PROVE  IInv'
<1> USE DEF connVars, SetPc
<1>1. TypeOK /\ (pc[r] \in {"check", "lock", "timer"} => left[r] >= 1)
  BY DEF IInv, PollsLeft
<1>2. left = [left EXCEPT ![r] = left[r]] /\ left[r] \in 0..Polls
  BY <1>1 DEF TypeOK
<1>3. CASE Ask(r)
  <2>1. Polls \in 0..Polls /\ Polls >= 1
    BY PoolAssumption
  <2> QED
    BY <1>3, <2>1, PcStep DEF Ask
<1>4. CASE CheckEnd(r)
  BY <1>1, <1>2, <1>4, PcStep DEF CheckEnd
<1>5. CASE TakeClient(r)
  BY <1>5, TakeClientStep
<1>6. CASE PoolEmpty(r)
  BY <1>1, <1>2, <1>6, PcStep DEF PoolEmpty
<1>7. CASE Poll(r)
  <2>1. left[r] >= 1 /\ left[r] - 1 \in 0..Polls /\ (left[r] # 1 => left[r] - 1 >= 1)
    BY <1>1, <1>2, <1>7, PoolAssumption DEF Poll
  <2> QED
    BY <1>7, <2>1, PcStep DEF Poll
<1>8. CASE Written(r)
  BY <1>1, <1>2, <1>8, PcStep DEF Written
<1>9. CASE Answered(r)
  BY <1>9, AnsweredStep
<1>10. CASE SendRecvFails(r)
  BY <1>10, SendRecvFailsStep
<1> QED
  BY <1>3, <1>4, <1>5, <1>6, <1>7, <1>8, <1>9, <1>10 DEF RequestStep

LEMMA NextIInv == IInv /\ [Next]_vars => IInv'
<1> SUFFICES ASSUME IInv, [Next]_vars PROVE IInv'
  OBVIOUS
<1>1. CASE UNCHANGED vars
  BY <1>1 DEF vars, connVars, requestVars, IInv, TypeOK, OneUser, NoneLost,
              LeaseWhileSending, PollsLeft, Pooled, Leased, Sending
<1>2. CASE Next
  BY <1>2, ConnStepIInv, RequestStepIInv, StopTurnStep DEF Next
<1> QED
  BY <1>1, <1>2

\* Who owns each connection, through failures, reconnections and Stop.
THEOREM Invariance == Spec => []IInv
BY InitIInv, NextIInv, PTL DEF Spec

-----------------------------------------------------------------------------
(* What follows from it. *)

\* Every variable keeps its type: in particular a request never pushes a null
\* connection into the pool and never counts its wait below zero.
THEOREM TypeCorrect == Spec => []TypeOK
BY Invariance, PTL DEF IInv

\* However many requests and connections there are, and whatever fails, no
\* connection is used by two parties at once (ManagerConn's queue and its lock).
THEOREM MutualExclusion == Spec => []OneUser
BY Invariance, PTL DEF IInv

\* Until Stop is called, ManagerConn loses none of the connections it began with.
THEOREM NoConnectionLost == Spec => []NoneLost
BY Invariance, PTL DEF IInv

\* The test of fEnd_ under the lock in ManagerConn::Connect does what it is for.
THEOREM NoRevival == Spec => NoRevivalAfterStop
<1>1. IInv /\ [Next]_vars =>
        [fEnd => \A c \in Client : ~Pooled(c) /\ Pooled(c)' => Leased(c)]_vars
  <2> SUFFICES ASSUME IInv, Next, fEnd, NEW c \in Client, ~Pooled(c), Pooled(c)'
               PROVE  Leased(c)
    BY DEF NoRevivalAfterStop
  <2> USE DEF Pooled
  <2>1. pool' # pool
    OBVIOUS
  <2>2. ASSUME NEW d \in Client, ConnStep(d) PROVE FALSE
    BY <2>1, <2>2 DEF ConnStep, BeginResolve, Resolved, ResolveFails, Connected,
                      ConnectFails, RetryConnect, ShutDown, Disconnected
  <2>3. NoRepeat(pool) /\ pool \in Seq(Client)
    BY OneUserMeans DEF IInv, TypeOK
  <2>4. pool # <<>> => pool' # Tail(pool)
    BY <2>3, PopFront DEF In
  <2>5. ASSUME NEW r \in Request, Ask(r) \/ RequestStep(r) PROVE Leased(c)
    <3>1. Answered(r)
      BY <2>1, <2>4, <2>5 DEF Ask, RequestStep, CheckEnd, TakeClient, PoolEmpty, Poll,
                              Written, SendRecvFails
    <3>2. lease[r] # NoClient /\ lease[r] \in Client
      BY <3>1 DEF Answered, SetPc, IInv, LeaseWhileSending, TypeOK
    <3>3. ~In(lease[r], pool) /\ pool' = Append(pool, lease[r])
      BY <3>1, <3>2, OneUserMeans DEF Answered, IInv
    <3>4. lease[r] = c
      BY <2>3, <3>2, <3>3, PushBack DEF In
    <3> QED
      BY <3>4 DEF Leased
  <2>6. ASSUME StopTurn PROVE FALSE
    BY <2>1, <2>4, <2>6 DEF StopTurn
  <2> QED
    BY <2>2, <2>5, <2>6 DEF Next
<1> QED
  BY <1>1, Invariance, PTL DEF Spec, NoRevivalAfterStop

\* Stop has set fEnd_ when it has returned.
EndIsSet == stop # "running" => fEnd

LEMMA EndIsSetStep == EndIsSet /\ [Next]_vars => EndIsSet'
<1> SUFFICES ASSUME EndIsSet, [Next]_vars PROVE EndIsSet'
  OBVIOUS
<1> USE DEF EndIsSet
<1>1. ASSUME NEW c \in Client, ConnStep(c) PROVE EndIsSet'
  BY <1>1 DEF ConnStep, BeginResolve, Resolved, ResolveFails, Connected, ConnectFails,
              RetryConnect, ShutDown, Disconnected
<1>2. ASSUME NEW r \in Request, Ask(r) \/ RequestStep(r) PROVE EndIsSet'
  BY <1>2 DEF Ask, RequestStep, CheckEnd, TakeClient, PoolEmpty, Poll, Written, Answered,
              SendRecvFails
<1>3. CASE StopTurn \/ UNCHANGED vars
  BY <1>3 DEF StopTurn, vars
<1> QED
  BY <1>1, <1>2, <1>3 DEF Next

\* A pool that Stop has emptied gets no new work: the Lifecycle of the program rests
\* on it (HttpClient.cpp:408-422 with the tests of fEnd_).
THEOREM AtRestForGood == Spec => RestForGood
<1>1. IInv /\ EndIsSet /\ [Next]_vars => [AtRest => AtRest']_vars
  <2> SUFFICES ASSUME IInv, EndIsSet, AtRest, Next PROVE AtRest'
    OBVIOUS
  <2>1. fEnd /\ stop = "stopped" /\ TypeOK
    BY DEF EndIsSet, AtRest, IInv
  <2>2. ASSUME NEW c \in Client, ConnStep(c) PROVE FALSE
    BY <2>2 DEF AtRest, ConnStep, BeginResolve, Resolved, ResolveFails, Connected, ConnectFails,
                RetryConnect, ShutDown, Disconnected, SetTask
  <2>3. ASSUME NEW r \in Request, Ask(r) \/ RequestStep(r) PROVE AtRest'
    <3>1. Ask(r) \/ CheckEnd(r) \/ Poll(r)
      BY <2>3 DEF AtRest, RequestStep, TakeClient, PoolEmpty, Written, Answered, SendRecvFails,
           SetPc
    <3>2. \E to \in {"none", "check"} : pc' = [pc EXCEPT ![r] = to]
      BY <2>1, <3>1 DEF Ask, CheckEnd, Poll, SetPc, AtRest
    <3>3. UNCHANGED <<task, stop>>
      BY <3>1 DEF Ask, CheckEnd, Poll, connVars
    <3> QED
      BY <2>1, <3>2, <3>3 DEF AtRest, TypeOK
  <2>4. ~StopTurn
    BY <2>1 DEF StopTurn
  <2> QED
    BY <2>2, <2>3, <2>4 DEF Next
<1>2. Init => EndIsSet
  BY DEF Init, EndIsSet
<1> QED
  BY <1>1, <1>2, EndIsSetStep, Invariance, PTL DEF Spec, RestForGood

=============================================================================
