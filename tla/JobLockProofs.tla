----------------------------- MODULE JobLockProofs -----------------------------
(***************************************************************************)
(* What the job lock guarantees for any number of instances and timers,    *)
(* any TTL and any difference of wall clocks.                              *)
(***************************************************************************)
EXTENDS JobLock, TLAPS

\* The lock of r is in its store, and it is not to expire before r has run
\* for TTL by the clock that decides on it.
HasLease(r) ==
  /\ store[Store(r)].owner = r
  /\ store[Store(r)].expiresAt >=
       IF Store(r) = "mongo" THEN Wall(r, began[r]) + TTL ELSE began[r] + TTL

\* The inductive invariant: nobody began in the future, and a run that is
\* younger than its lease still has it.
BeganInPast == \A r \in Runners : began[r] <= clock

LeaseHeld ==
  \A r \in Runners : pc[r] = "running" => HasLease(r) \/ Overran(r)

JobInv == JobLockTypeOK /\ BeganInPast /\ MutexNotLeaked /\ LeaseHeld

-----------------------------------------------------------------------------
LEMMA InitJobInv == JobInit => JobInv
<1> SUFFICES ASSUME JobInit PROVE JobInv
  OBVIOUS
<1> USE JobLockAssumption DEF JobInit
<1>1. JobLockTypeOK
  <2>1. store \in [Backends -> Locks]
    BY DEF NoLock, Locks
  <2>2. began \in [Runners -> 0 .. MaxTime]
    OBVIOUS
  <2> QED
    BY <2>1, <2>2 DEF JobLockTypeOK, Pc
<1>2. BeganInPast /\ MutexNotLeaked /\ LeaseHeld
  BY DEF BeganInPast, MutexNotLeaked, LeaseHeld
<1> QED
  BY <1>1, <1>2 DEF JobInv

\* A lease is a lock, whichever clock it is computed on.
LEMMA LeaseIsLock ==
  ASSUME JobLockTypeOK, NEW r \in Runners
  PROVE  /\ Lease(r, clock) \in Locks
         /\ Lease(r, Wall(r, began[r])) \in Locks
         /\ NoLock \in Locks
         /\ Store(r) \in Backends
         /\ {"redis", "mongo"} \subseteq Backends
<1>1. Proc[r] \in Processes
  BY JobLockAssumption
<1>2. lag[Proc[r]] \in Int /\ TTL \in Int /\ clock \in Int /\ began[r] \in Int
  <2>1. lag[Proc[r]] \in Lags /\ began[r] \in 0 .. MaxTime
    BY <1>1 DEF JobLockTypeOK
  <2>2. clock \in 0 .. MaxTime
    BY DEF JobLockTypeOK
  <2>3. lag[Proc[r]] \in 0 .. MaxSkew
    BY <2>1, JobLockAssumption
  <2> QED
    BY <2>1, <2>2, <2>3, JobLockAssumption
<1>3. Wall(r, began[r]) \in Int
  BY <1>2 DEF Wall
<1>4. Store(r) \in Backends
  BY <1>1 DEF JobLockTypeOK, Store
<1> QED
  <2>1. Lease(r, clock) \in Locks
    BY <1>2 DEF Lease, Locks
  <2>2. Lease(r, Wall(r, began[r])) \in Locks
    BY <1>2, <1>3 DEF Lease, Locks
  <2>3. NoLock \in Locks
    BY DEF NoLock, Locks
  <2> QED
    BY <2>1, <2>2, <2>3, <1>4 DEF Backends

\* A store is only ever given a lease, or emptied.
LEMMA StoreType ==
  ASSUME JobLockTypeOK, NEW r \in Runners,
         \/ UNCHANGED store
         \/ Write("redis", Lease(r, clock))
         \/ Write("mongo", Lease(r, Wall(r, began[r])))
         \/ Write(Store(r), NoLock)
  PROVE  store' \in [Backends -> Locks]
<1>1. store \in [Backends -> Locks]
  BY DEF JobLockTypeOK
<1>2. ASSUME NEW b \in Backends, NEW lock \in Locks, Write(b, lock)
      PROVE  store' \in [Backends -> Locks]
  BY <1>1, <1>2 DEF Write
<1> QED
  BY <1>1, <1>2, LeaseIsLock

\* What a step of a runner does to the other variables keeps their type.
LEMMA RunnerType ==
  ASSUME JobLockTypeOK, NEW r \in Runners, NEW place \in Pc, Goto(r, place),
         LeaveMutex(r) \/ UNCHANGED mutex,
         UNCHANGED <<clock, lag, backend, began>>,
         store' \in [Backends -> Locks]
  PROVE  JobLockTypeOK'
  BY JobLockAssumption DEF JobLockTypeOK, Goto, LeaveMutex

\* Every step keeps the type of the variables.
LEMMA NextJobType == JobLockTypeOK /\ [JobNext]_jobVars => JobLockTypeOK'
<1> SUFFICES ASSUME JobLockTypeOK, [JobNext]_jobVars PROVE JobLockTypeOK'
  OBVIOUS
<1> USE JobLockAssumption
<1>0. {"idle", "running", "steal", "unlocked", "release"} \subseteq Pc
  BY DEF Pc
<1>1. ASSUME NEW r \in Runners, EnterMutex(r) PROVE JobLockTypeOK'
  BY <1>1 DEF EnterMutex, JobLockTypeOK, Goto, Pc
<1>2. ASSUME NEW r \in Runners, AcquireRedis(r) PROVE JobLockTypeOK'
  BY <1>0, <1>2, StoreType, RunnerType DEF AcquireRedis
<1>3. ASSUME NEW r \in Runners, CreateMongo(r) PROVE JobLockTypeOK'
  BY <1>0, <1>3, StoreType, RunnerType DEF CreateMongo
<1>4. ASSUME NEW r \in Runners, AcquireFails(r) PROVE JobLockTypeOK'
  BY <1>0, <1>4, StoreType, RunnerType DEF AcquireFails
<1>5. ASSUME NEW r \in Runners, StealMongo(r) PROVE JobLockTypeOK'
  BY <1>0, <1>5, StoreType, RunnerType DEF StealMongo
<1>6. ASSUME NEW r \in Runners, StealFails(r) PROVE JobLockTypeOK'
  BY <1>0, <1>6, StoreType, RunnerType DEF StealFails
<1>7. ASSUME NEW r \in Runners, RunUnlocked(r) PROVE JobLockTypeOK'
  BY <1>0, <1>7, StoreType, RunnerType DEF RunUnlocked
<1>8. ASSUME NEW r \in Runners, Finish(r) PROVE JobLockTypeOK'
  BY <1>0, <1>8, StoreType, RunnerType DEF Finish
<1>9. ASSUME NEW r \in Runners, Release(r) PROVE JobLockTypeOK'
  BY <1>0, <1>9, StoreType, RunnerType DEF Release
<1>10. ASSUME NEW p \in Processes, Crash(p) PROVE JobLockTypeOK'
  BY <1>10 DEF Crash, JobLockTypeOK, Pc
<1>11. CASE Tick
  BY <1>11 DEF Tick, JobLockTypeOK
<1>12. CASE UNCHANGED jobVars
  BY <1>12 DEF jobVars, JobLockTypeOK
<1> QED
  BY <1>1, <1>2, <1>3, <1>4, <1>5, <1>6, <1>7, <1>8, <1>9, <1>10, <1>11, <1>12
     DEF JobNext

\* Every step keeps the mutex of a process in line with its timers.
LEMMA NextMutex ==
  JobLockTypeOK /\ MutexNotLeaked /\ [JobNext]_jobVars => MutexNotLeaked'
<1> SUFFICES ASSUME JobLockTypeOK, MutexNotLeaked, [JobNext]_jobVars,
                    NEW p \in Processes, NEW q \in Runners
             PROVE  (mutex[p] = q <=> Proc[q] = p /\ pc[q] # "idle")'
  BY DEF MutexNotLeaked
<1> USE JobLockAssumption DEF JobLockTypeOK, MutexNotLeaked, Goto, LeaveMutex
<1> DEFINE Goal == (mutex[p] = q <=> Proc[q] = p /\ pc[q] # "idle")'
<1>1. ASSUME NEW r \in Runners, EnterMutex(r) PROVE Goal
  BY <1>1 DEF EnterMutex
<1>2. ASSUME NEW r \in Runners, AcquireRedis(r) PROVE Goal
  BY <1>2 DEF AcquireRedis
<1>3. ASSUME NEW r \in Runners, CreateMongo(r) PROVE Goal
  BY <1>3 DEF CreateMongo
<1>4. ASSUME NEW r \in Runners, AcquireFails(r) PROVE Goal
  BY <1>4 DEF AcquireFails
<1>5. ASSUME NEW r \in Runners, StealMongo(r) PROVE Goal
  BY <1>5 DEF StealMongo
<1>6. ASSUME NEW r \in Runners, StealFails(r) PROVE Goal
  BY <1>6 DEF StealFails
<1>7. ASSUME NEW r \in Runners, RunUnlocked(r) PROVE Goal
  BY <1>7 DEF RunUnlocked
<1>8. ASSUME NEW r \in Runners, Finish(r) PROVE Goal
  BY <1>8 DEF Finish
<1>9. ASSUME NEW r \in Runners, Release(r) PROVE Goal
  BY <1>9 DEF Release
<1>10. ASSUME NEW d \in Processes, Crash(d) PROVE Goal
  BY <1>10 DEF Crash
<1>11. CASE Tick
  BY <1>11 DEF Tick
<1>12. CASE UNCHANGED jobVars
  BY <1>12 DEF jobVars
<1> QED
  BY <1>1, <1>2, <1>3, <1>4, <1>5, <1>6, <1>7, <1>8, <1>9, <1>10, <1>11, <1>12
     DEF JobNext

\* No runner's lease begins in the future.
LEMMA NextBegan ==
  JobLockTypeOK /\ BeganInPast /\ [JobNext]_jobVars => BeganInPast'
<1> SUFFICES ASSUME JobLockTypeOK, BeganInPast, [JobNext]_jobVars,
                    NEW q \in Runners
             PROVE  began'[q] <= clock'
  BY DEF BeganInPast
<1>1. clock \in Int /\ began[q] \in Int /\ began[q] <= clock
  <2>1. began[q] \in 0 .. MaxTime
    BY DEF JobLockTypeOK
  <2> QED
    BY <2>1, JobLockAssumption DEF JobLockTypeOK, BeganInPast
<1>2. CASE \E r \in Runners : EnterMutex(r)
  BY <1>1, <1>2 DEF EnterMutex, JobLockTypeOK
<1>3. CASE Tick
  BY <1>1, <1>3 DEF Tick
<1>4. CASE UNCHANGED <<clock, began>>
  BY <1>1, <1>4
<1> QED
  BY <1>2, <1>3, <1>4 DEF JobNext, jobVars, AcquireRedis, CreateMongo,
     AcquireFails, StealMongo, StealFails, RunUnlocked, Finish, Release, Crash

-----------------------------------------------------------------------------
\* The owner of a lease keeps it through every write of another runner: a
\* take-over needs an expiry that lies behind the wall clock of the thief.
LEMMA TakeOverNeedsOverrun ==
  ASSUME JobLockTypeOK, BeganInPast,
         NEW q \in Runners, HasLease(q), ~Overran(q),
         NEW r \in Runners, Store(r) = Store(q)
  PROVE  /\ Store(q) = "redis" => ~RedisFree
         /\ Store(q) = "mongo" => Taken("mongo") /\ ~Expired(r)
<1>1. Proc[q] \in Processes /\ Proc[r] \in Processes
  BY JobLockAssumption
<1>2. /\ lag[Proc[q]] \in 0 .. MaxSkew /\ lag[Proc[r]] \in 0 .. MaxSkew
      /\ began[q] \in 0 .. MaxTime /\ began[r] \in 0 .. MaxTime
  BY <1>1, JobLockAssumption DEF JobLockTypeOK
<1>3. /\ clock \in Int /\ began[q] \in Int /\ began[r] \in Int
      /\ TTL \in Nat /\ MaxSkew \in Nat
      /\ began[r] <= clock
  BY <1>2, JobLockAssumption DEF JobLockTypeOK, BeganInPast
<1>4. Store(q) \in Backends /\ Store(r) \in Backends
  BY LeaseIsLock
<1>5. store[Store(q)].expiresAt \in Int
  BY <1>4 DEF JobLockTypeOK, Locks
<1>6. clock - began[q] < TTL - MaxSkew
  BY <1>3 DEF Overran
<1>7. q # NoRunner
  BY JobLockAssumption
<1>8. CASE Store(q) = "redis"
  BY <1>3, <1>5, <1>6, <1>7, <1>8 DEF HasLease, RedisFree, Taken
<1>9. CASE Store(q) = "mongo"
  <2>1. store["mongo"].expiresAt >= began[q] - lag[Proc[q]] + TTL
    BY <1>9 DEF HasLease, Wall
  <2>2. began[r] - lag[Proc[r]] <= clock
    BY <1>2, <1>3
  <2>3. store["mongo"].expiresAt >= began[r] - lag[Proc[r]]
    BY <1>2, <1>3, <1>5, <1>6, <1>9, <2>1, <2>2
  <2> QED
    BY <1>2, <1>3, <1>5, <1>7, <1>9, <2>3 DEF HasLease, Taken, Expired, Wall
<1> QED
  BY <1>4, <1>8, <1>9 DEF Backends

\* What the other variables of q's lease depend on changes only when q itself
\* begins again.
LEMMA LeaseKept ==
  ASSUME JobLockTypeOK, NEW q \in Runners, HasLease(q),
         UNCHANGED <<lag, backend>>, began'[q] = began[q],
         store'[Store(q)] = store[Store(q)]
  PROVE  HasLease(q)'
  BY DEF HasLease, Store, Wall

\* A write for r gives r its lease.
LEMMA LeaseTaken ==
  ASSUME JobLockTypeOK, BeganInPast, NEW r \in Runners,
         UNCHANGED <<lag, backend, began>>,
         \/ Store(r) = "redis" /\ Write("redis", Lease(r, clock))
         \/ Store(r) = "mongo" /\ Write("mongo", Lease(r, Wall(r, began[r])))
  PROVE  HasLease(r)'
<1>1. /\ Lease(r, clock) \in Locks /\ Lease(r, Wall(r, began[r])) \in Locks
      /\ Store(r) \in Backends
  BY LeaseIsLock
<1>2. store \in [Backends -> Locks]
  BY DEF JobLockTypeOK
<1>3. began[r] \in Int /\ clock \in Int /\ began[r] <= clock /\ TTL \in Int
  <2>1. began[r] \in 0 .. MaxTime /\ clock \in 0 .. MaxTime
    BY DEF JobLockTypeOK
  <2> QED
    BY <2>1, JobLockAssumption DEF BeganInPast
<1>4. Store(r)' = Store(r) /\ Wall(r, began[r])' = Wall(r, began[r])
  BY DEF Store, Wall
<1>5. CASE Store(r) = "redis" /\ Write("redis", Lease(r, clock))
  <2>1. store'["redis"] = Lease(r, clock)
    BY <1>1, <1>2, <1>5 DEF Write
  <2> QED
    BY <1>3, <1>4, <1>5, <2>1 DEF HasLease, Lease
<1>6. CASE Store(r) = "mongo" /\ Write("mongo", Lease(r, Wall(r, began[r])))
  <2>1. store'["mongo"] = Lease(r, Wall(r, began[r]))
    BY <1>1, <1>2, <1>6 DEF Write
  <2>2. Wall(r, began[r]) + TTL \in Int
    BY <1>1 DEF Lease, Locks
  <2> QED
    BY <1>3, <1>4, <1>6, <2>1, <2>2 DEF HasLease, Lease
<1> QED
  BY <1>5, <1>6

\* The step of another runner, whatever it writes, leaves q's lease alone
\* until q has overrun.
LEMMA OthersKeepLease ==
  ASSUME JobLockTypeOK, BeganInPast,
         NEW q \in Runners, HasLease(q), ~Overran(q),
         NEW r \in Runners, r # q,
         UNCHANGED <<lag, backend>>, began'[q] = began[q],
         \/ UNCHANGED store
         \/ Store(r) = "redis" /\ RedisFree /\ Write("redis", Lease(r, clock))
         \/ /\ Store(r) = "mongo" /\ (~Taken("mongo") \/ Expired(r))
            /\ Write("mongo", Lease(r, Wall(r, began[r])))
         \/ store[Store(r)].owner = r /\ Write(Store(r), NoLock)
  PROVE  HasLease(q)'
<1>1. CASE Store(r) # Store(q) \/ UNCHANGED store
  <2>1. store \in [Backends -> Locks] /\ Store(q) \in Backends
    BY LeaseIsLock DEF JobLockTypeOK
  <2>2. store'[Store(q)] = store[Store(q)]
    BY <1>1, <2>1 DEF Write
  <2> QED
    BY <2>2, LeaseKept
<1>2. CASE Store(r) = Store(q) /\ ~UNCHANGED store
  <2>1. /\ Store(q) = "redis" => ~RedisFree
        /\ Store(q) = "mongo" => Taken("mongo") /\ ~Expired(r)
    BY <1>2, TakeOverNeedsOverrun
  <2>2. store[Store(r)].owner # r
    BY <1>2 DEF HasLease
  <2> QED
    BY <1>2, <2>1, <2>2
<1> QED
  BY <1>1, <1>2

\* A run that is younger than its lease still has it after every step.
LEMMA NextLease == JobInv /\ [JobNext]_jobVars => LeaseHeld'
<1> SUFFICES ASSUME JobInv, [JobNext]_jobVars,
                    NEW q \in Runners, pc'[q] = "running", ~Overran(q)'
             PROVE  HasLease(q)'
  BY DEF LeaseHeld
<1> USE DEF JobInv
<1>1. pc \in [Runners -> Pc]
  BY DEF JobLockTypeOK
<1>2. /\ clock \in Int /\ began[q] \in Int /\ began[q] <= clock
      /\ TTL \in Int /\ MaxSkew \in Int
  <2>1. began[q] \in 0 .. MaxTime /\ clock \in 0 .. MaxTime
    BY DEF JobLockTypeOK
  <2> QED
    BY <2>1, JobLockAssumption DEF BeganInPast
<1>3. ASSUME pc[q] = "running", began'[q] = began[q], clock' = clock
      PROVE  HasLease(q) /\ ~Overran(q)
  BY <1>2, <1>3 DEF LeaseHeld, Overran
<1>4. ASSUME NEW r \in Runners, EnterMutex(r) PROVE HasLease(q)'
  <2>1. q # r /\ pc[q] = "running" /\ began'[q] = began[q]
    BY <1>1, <1>4 DEF EnterMutex, Goto, JobLockTypeOK
  <2> QED
    BY <1>3, <1>4, <2>1, OthersKeepLease DEF EnterMutex
<1>5. ASSUME NEW r \in Runners,
             AcquireRedis(r) \/ CreateMongo(r) \/ StealMongo(r)
      PROVE  HasLease(q)'
  <2>1. /\ UNCHANGED <<clock, lag, backend, began>>
        /\ \/ UNCHANGED store /\ pc'[r] # "running"
           \/ Store(r) = "redis" /\ RedisFree /\ Write("redis", Lease(r, clock))
           \/ /\ Store(r) = "mongo" /\ (~Taken("mongo") \/ Expired(r))
              /\ Write("mongo", Lease(r, Wall(r, began[r])))
    <3>1. CASE AcquireRedis(r)
      BY <1>1, <3>1 DEF AcquireRedis, Goto
    <3>2. CASE CreateMongo(r)
      BY <1>1, <3>2 DEF CreateMongo, Goto
    <3>3. CASE StealMongo(r)
      BY <1>1, <3>3 DEF StealMongo, Goto
    <3> QED
      BY <1>5, <3>1, <3>2, <3>3
  <2>2. CASE q = r
    BY <2>1, <2>2, LeaseTaken
  <2>3. CASE q # r
    <3>1. pc[q] = "running"
      BY <1>1, <1>5, <2>3 DEF AcquireRedis, CreateMongo, StealMongo, Goto
    <3>2. HasLease(q) /\ ~Overran(q)
      BY <1>3, <2>1, <3>1
    <3> QED
      BY <2>1, <2>3, <3>2, OthersKeepLease
  <2> QED
    BY <2>2, <2>3
<1>6. ASSUME NEW r \in Runners, AcquireFails(r) \/ StealFails(r) \/ Release(r)
      PROVE  HasLease(q)'
  <2>1. /\ UNCHANGED <<clock, lag, backend, began>>
        /\ pc' = [pc EXCEPT ![r] = pc'[r]] /\ pc'[r] # "running"
        /\ \/ UNCHANGED store
           \/ Store(r) = "redis" /\ RedisFree /\ Write("redis", Lease(r, clock))
           \/ /\ Store(r) = "mongo" /\ (~Taken("mongo") \/ Expired(r))
              /\ Write("mongo", Lease(r, Wall(r, began[r])))
           \/ store[Store(r)].owner = r /\ Write(Store(r), NoLock)
    <3>1. CASE AcquireFails(r)
      BY <1>1, <3>1 DEF AcquireFails, Goto
    <3>2. CASE StealFails(r)
      BY <1>1, <3>2 DEF StealFails, Goto
    <3>3. CASE Release(r)
      BY <1>1, <3>3 DEF Release, Goto
    <3> QED
      BY <1>6, <3>1, <3>2, <3>3
  <2>2. q # r /\ pc[q] = "running"
    BY <1>1, <2>1
  <2>3. HasLease(q) /\ ~Overran(q)
    BY <1>3, <2>1, <2>2
  <2> QED
    BY <2>1, <2>2, <2>3, OthersKeepLease
<1>7. ASSUME NEW r \in Runners, RunUnlocked(r) \/ Finish(r) PROVE HasLease(q)'
  <2>1. pc[q] = "running" /\ UNCHANGED <<clock, lag, backend, store, began>>
    BY <1>1, <1>7 DEF RunUnlocked, Finish, Goto
  <2> QED
    BY <1>3, <2>1, LeaseKept
<1>8. ASSUME NEW p \in Processes, Crash(p) PROVE HasLease(q)'
  <2>1. pc[q] = "running" /\ UNCHANGED <<clock, lag, backend, store, began>>
    BY <1>1, <1>8 DEF Crash
  <2> QED
    BY <1>3, <2>1, LeaseKept
<1>9. CASE Tick
  <2>1. pc[q] = "running" /\ UNCHANGED <<lag, backend, store, began>>
    BY <1>9 DEF Tick
  <2>2. ~Overran(q)
    BY <1>2, <1>9, <2>1 DEF Tick, Overran
  <2> QED
    BY <2>1, <2>2, LeaseKept DEF LeaseHeld
<1>10. CASE UNCHANGED jobVars
  BY <1>3, <1>10, LeaseKept DEF jobVars
<1> QED
  BY <1>4, <1>5, <1>6, <1>7, <1>8, <1>9, <1>10 DEF JobNext

-----------------------------------------------------------------------------
\* A run within its lease has the lock, and a mutex its runner, at every step.
THEOREM JobInvariance == JobSpec => []JobInv
<1>1. JobInit => JobInv
  BY InitJobInv
<1>2. JobInv /\ [JobNext]_jobVars => JobInv'
  BY NextJobType, NextBegan, NextMutex, NextLease DEF JobInv
<1> QED
  BY <1>1, <1>2, PTL DEF JobSpec

\* No failure and no crash leaves the mutex of a process locked.
THEOREM MutexIsFreed == JobSpec => []MutexNotLeaked
<1>1. JobInv => MutexNotLeaked
  BY DEF JobInv
<1> QED
  BY <1>1, JobInvariance, PTL

\* Two instances run the job at once only if one of them runs it without a
\* store, they use different stores, or one has overrun its lease.
THEOREM JobsExclude == JobSpec => []JobExclusion
<1>1. JobInv => JobExclusion
  <2> SUFFICES ASSUME JobInv, NEW r \in Runners, NEW q \in Runners,
                      r # q, Runs(r), Runs(q)
               PROVE  /\ Proc[r] # Proc[q]
                      /\ \/ "unlocked" \in {pc[r], pc[q]}
                         \/ Store(r) # Store(q)
                         \/ Overran(r) \/ Overran(q)
    BY DEF JobExclusion
  <2>1. Proc[r] # Proc[q]
    <3>1. mutex[Proc[r]] = r /\ mutex[Proc[q]] = q
      BY JobLockAssumption DEF JobInv, MutexNotLeaked, Runs
    <3> QED
      BY <3>1
  <2>2. ASSUME pc[r] = "running", pc[q] = "running", Store(r) = Store(q),
               ~Overran(r), ~Overran(q)
        PROVE  FALSE
    BY <2>2 DEF JobInv, LeaseHeld, HasLease
  <2> QED
    BY <2>1, <2>2 DEF Runs
<1> QED
  BY <1>1, JobInvariance, PTL

\* Type correctness of the job lock.
THEOREM JobLockTypeCorrect == JobSpec => []JobLockTypeOK
<1>1. JobInv => JobLockTypeOK
  BY DEF JobInv
<1> QED
  BY <1>1, JobInvariance, PTL

-----------------------------------------------------------------------------
\* A runner begins to run within its lease, or nobody does.
LEMMA OneBegins ==
  ASSUME JobInv, [JobNext]_jobVars, NEW b
  PROVE  \/ WithinLease(b)' \subseteq WithinLease(b)
         \/ \E r \in Runners :
              /\ pc[r] # "running"
              /\ pc' = [pc EXCEPT ![r] = "running"]
              /\ UNCHANGED <<clock, backend, began>>
<1> DEFINE Fewer == WithinLease(b)' \subseteq WithinLease(b)
           Begins(r) == /\ pc[r] # "running"
                        /\ pc' = [pc EXCEPT ![r] = "running"]
                        /\ UNCHANGED <<clock, backend, began>>
<1>1. /\ pc \in [Runners -> Pc]
      /\ clock \in Int
      /\ \A r \in Runners : began[r] \in Int
      /\ TTL \in Int /\ MaxSkew \in Int
  BY JobLockAssumption DEF JobInv, JobLockTypeOK
<1>2. ASSUME UNCHANGED <<clock, backend, began>>,
             \A q \in Runners : pc'[q] = "running" => pc[q] = "running"
      PROVE  Fewer
  BY <1>2 DEF WithinLease, Store, Overran
<1>3. ASSUME NEW r \in Runners, EnterMutex(r) PROVE Fewer
  <2>1. \A q \in Runners :
          pc'[q] = "running" => q # r /\ pc[q] = "running"
    BY <1>1, <1>3 DEF EnterMutex, Goto
  <2>2. \A q \in Runners : q # r => began'[q] = began[q]
    BY <1>3 DEF EnterMutex, JobInv, JobLockTypeOK
  <2> QED
    BY <1>3, <2>1, <2>2 DEF EnterMutex, WithinLease, Store, Overran
<1>4. ASSUME NEW r \in Runners,
             AcquireRedis(r) \/ CreateMongo(r) \/ StealMongo(r)
      PROVE  Fewer \/ Begins(r)
  <2>1. CASE AcquireRedis(r)
    BY <1>1, <1>2, <2>1 DEF AcquireRedis, Goto
  <2>2. CASE CreateMongo(r)
    BY <1>1, <1>2, <2>2 DEF CreateMongo, Goto
  <2>3. CASE StealMongo(r)
    BY <1>1, <1>2, <2>3 DEF StealMongo, Goto
  <2> QED
    BY <1>4, <2>1, <2>2, <2>3
<1>5. ASSUME NEW r \in Runners, AcquireFails(r) \/ StealFails(r) \/ Release(r)
      PROVE  Fewer
  BY <1>1, <1>2, <1>5 DEF AcquireFails, StealFails, Release, Goto
<1>6. ASSUME NEW r \in Runners, RunUnlocked(r) \/ Finish(r) PROVE Fewer
  BY <1>1, <1>2, <1>6 DEF RunUnlocked, Finish, Goto
<1>7. ASSUME NEW p \in Processes, Crash(p) PROVE Fewer
  BY <1>1, <1>2, <1>7 DEF Crash
<1>8. CASE Tick
  BY <1>1, <1>8 DEF Tick, WithinLease, Store, Overran
<1>9. CASE UNCHANGED jobVars
  BY <1>2, <1>9 DEF jobVars
<1> QED
  BY <1>3, <1>4, <1>5, <1>6, <1>7, <1>8, <1>9 DEF JobNext

\* It does so only when nobody else runs within a lease of that store: the
\* others would still do, and two of them would hold one lock.
LEMMA StepOfLease ==
  ASSUME JobInv, JobInv', [JobNext]_jobVars, NEW b
  PROVE  \/ WithinLease(b)' \subseteq WithinLease(b)
         \/ \E r \in Runners :
              /\ WithinLease(b) = {}
              /\ WithinLease(b)' = {r}
<1>1. \A r, q \in WithinLease(b)' : r = q
  BY DEF JobInv, LeaseHeld, HasLease, WithinLease
<1>2. CASE \E r \in Runners : /\ pc[r] # "running"
                              /\ pc' = [pc EXCEPT ![r] = "running"]
                              /\ UNCHANGED <<clock, backend, began>>
  <2>1. PICK r \in Runners : /\ pc[r] # "running"
                             /\ pc' = [pc EXCEPT ![r] = "running"]
                             /\ UNCHANGED <<clock, backend, began>>
    BY <1>2
  <2>2. pc \in [Runners -> Pc]
    BY DEF JobInv, JobLockTypeOK
  <2>3. /\ WithinLease(b) \subseteq WithinLease(b)'
        /\ WithinLease(b)' \subseteq WithinLease(b) \cup {r}
        /\ r \notin WithinLease(b)
    BY <2>1, <2>2 DEF WithinLease, Store, Overran
  <2> QED
    BY <1>1, <2>3
<1> QED
  BY <1>2, OneBegins

\* For any number of instances and timers, any TTL and any skew: the lock of
\* each store is an exclusive right for the runs that are within their lease.
THEOREM LockImplementsExclusive == JobSpec => LeaseIsExclusive
<1>1. JobInit => RedisRight!Init /\ MongoRight!Init
  BY DEF JobInit, WithinLease, RedisRight!Init, MongoRight!Init
<1>2. JobInv /\ JobInv' /\ [JobNext]_jobVars
        => /\ [RedisRight!Next]_(RedisRight!exclusiveVars)
           /\ [MongoRight!Next]_(MongoRight!exclusiveVars)
  <2> SUFFICES ASSUME JobInv, JobInv', [JobNext]_jobVars
               PROVE  RedisRight!Next /\ MongoRight!Next
    OBVIOUS
  <2>1. RedisRight!Next
    BY StepOfLease DEF RedisRight!Next, RedisRight!Enter, RedisRight!Leave,
                       RedisRight!Lasting
  <2>2. MongoRight!Next
    BY StepOfLease DEF MongoRight!Next, MongoRight!Enter, MongoRight!Leave,
                       MongoRight!Lasting
  <2> QED
    BY <2>1, <2>2
<1> QED
  BY <1>1, <1>2, JobInvariance, PTL
     DEF JobSpec, LeaseIsExclusive, RedisRight!Spec, MongoRight!Spec

=============================================================================
