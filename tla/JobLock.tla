-------------------------------- MODULE JobLock --------------------------------
(***************************************************************************)
(* The lock around one background job                                      *)
(* (backend/src/modules/courier/distributedLock.ts and syncMutex.ts).      *)
(*                                                                         *)
(* A runner is one timer of one server process that wants to run the job:  *)
(* the interval or the start-up timer of server.ts.  withDistributedLock   *)
(* takes the mutex of the process, then the lock of the shared store, runs *)
(* the job, and releases both.  Every await is a step of its own.          *)
(*                                                                         *)
(* Time is what the leases are about, so there is a clock.  Mongo leases   *)
(* carry the wall clock of the process that wrote them, and wall clocks    *)
(* differ by at most MaxSkew; Redis counts the TTL on its own clock.       *)
(*                                                                         *)
(* An owner is a fresh UUID per attempt.  Here it is the runner: what is   *)
(* left of an earlier attempt of the same runner can only be taken over    *)
(* or found expired, exactly as if it had another owner.                   *)
(***************************************************************************)
EXTENDS Integers

CONSTANTS
  Processes,    \* server instances
  Runners,      \* timers that start the job
  Proc,         \* the process each timer belongs to
  NoRunner,
  TTL,          \* ttlMsFor(name)
  MaxSkew,      \* how far the wall clocks of two instances are apart
  Lags,         \* how far each of them may be behind the fastest
  MaxTime       \* bound on the clock

ASSUME JobLockAssumption ==
  /\ Proc \in [Runners -> Processes]
  /\ NoRunner \notin Runners
  /\ TTL \in Nat /\ MaxSkew \in Nat /\ MaxTime \in Nat
  /\ Lags \subseteq 0 .. MaxSkew

Backends == {"redis", "mongo"}

VARIABLES
  clock,     \* real time
  lag,       \* configuration: how far the wall clock of a process is behind
  backend,   \* configuration: the store each process uses
  mutex,     \* locks of syncMutex.ts: the runner each process runs for
  store,     \* the lock in each store
  pc,        \* where each runner is
  began      \* when the runner computed its lease

jobVars == <<clock, lag, backend, mutex, store, pc, began>>

Pc == {"idle", "acquire", "steal", "running", "unlocked", "release"}

Locks == [owner: Runners \cup {NoRunner}, expiresAt: Int]
NoLock == [owner |-> NoRunner, expiresAt |-> 0]

JobLockTypeOK ==
  /\ clock \in 0 .. MaxTime
  /\ lag \in [Processes -> Lags]
  /\ backend \in [Processes -> Backends]
  /\ mutex \in [Processes -> Runners \cup {NoRunner}]
  /\ store \in [Backends -> Locks]
  /\ pc \in [Runners -> Pc]
  /\ began \in [Runners -> 0 .. MaxTime]

JobInit ==
  /\ clock = 0
  /\ lag \in [Processes -> Lags]
  /\ backend \in [Processes -> Backends]
  /\ mutex = [p \in Processes |-> NoRunner]
  /\ store = [b \in Backends |-> NoLock]
  /\ pc = [r \in Runners |-> "idle"]
  /\ began = [r \in Runners |-> 0]

Store(r) == backend[Proc[r]]
Wall(r, t) == t - lag[Proc[r]]
LeaseForEver(r, t) == [owner |-> r]
Lease(r, t) == [owner |-> r, expiresAt |-> t + TTL]
Taken(b) == store[b].owner # NoRunner
Goto(r, place) == pc' = [pc EXCEPT ![r] = place]
Write(b, lock) == store' = [store EXCEPT ![b] = lock]
LeaveMutex(r) == mutex' = [mutex EXCEPT ![Proc[r]] = NoRunner]

-----------------------------------------------------------------------------
\* withSyncMutex: a second timer of the process skips the job; the first goes
\* on to the store.  now and expiresAt are computed before the first request.
EnterMutex(r) ==
  /\ pc[r] = "idle"
  /\ mutex[Proc[r]] = NoRunner
  /\ mutex' = [mutex EXCEPT ![Proc[r]] = r]
  /\ began' = [began EXCEPT ![r] = clock]
  /\ Goto(r, "acquire")
  /\ UNCHANGED <<clock, lag, backend, store>>

\* SET NX PX: the key is absent, or Redis has expired it.
RedisFree == ~Taken("redis") \/ clock >= store["redis"].expiresAt

AcquireRedis(r) ==
  /\ pc[r] = "acquire" /\ Store(r) = "redis"
  /\ IF RedisFree
     THEN /\ Write("redis", Lease(r, clock))
          /\ Goto(r, "running")
          /\ UNCHANGED mutex
     ELSE /\ Goto(r, "idle")
          /\ LeaveMutex(r)
          /\ UNCHANGED store
  /\ UNCHANGED <<clock, lag, backend, began>>

\* Lock.create succeeds when there is no document of that _id, even an
\* expired one.
CreateMongo(r) ==
  /\ pc[r] = "acquire" /\ Store(r) = "mongo"
  /\ IF Taken("mongo")
     THEN Goto(r, "steal") /\ UNCHANGED store
     ELSE /\ Write("mongo", Lease(r, Wall(r, began[r])))
          /\ Goto(r, "running")
  /\ UNCHANGED <<clock, lag, backend, mutex, began>>

\* The request fails, applied or not.  With Redis the job fails; with Mongo
\* every failure of create leads to the take-over.
AcquireFails(r) ==
  /\ pc[r] = "acquire"
  /\ \/ UNCHANGED store
     \/ Store(r) = "redis" /\ RedisFree /\ Write("redis", Lease(r, clock))
     \/ /\ Store(r) = "mongo" /\ ~Taken("mongo")
        /\ Write("mongo", Lease(r, Wall(r, began[r])))
  /\ IF Store(r) = "redis"
     THEN Goto(r, "idle") /\ LeaveMutex(r)
     ELSE Goto(r, "steal") /\ UNCHANGED mutex
  /\ UNCHANGED <<clock, lag, backend, began>>

\* findOneAndUpdate({_id, expiresAt < now}).  An attempt that gets no lock
\* skips the job.
Expired(r) ==
  Taken("mongo") /\ store["mongo"].expiresAt < Wall(r, began[r])

StealMongo(r) ==
  /\ pc[r] = "steal" /\ Store(r) = "mongo"
  /\ IF Expired(r)
     THEN /\ Write("mongo", Lease(r, Wall(r, began[r])))
          /\ Goto(r, "running")
          /\ UNCHANGED mutex
     ELSE /\ Goto(r, "idle")
          /\ LeaveMutex(r)
          /\ UNCHANGED store
  /\ UNCHANGED <<clock, lag, backend, began>>

StealFailsLeaking(r) ==
  /\ pc[r] = "steal" /\ Store(r) = "mongo"
  /\ UNCHANGED store
  /\ Goto(r, "idle")
  /\ UNCHANGED <<clock, lag, backend, mutex, began>>

\* The take-over fails, applied or not, and with it the job.
StealFails(r) ==
  /\ pc[r] = "steal" /\ Store(r) = "mongo"
  /\ \/ UNCHANGED store
     \/ Expired(r) /\ Write("mongo", Lease(r, Wall(r, began[r])))
  /\ Goto(r, "idle")
  /\ LeaveMutex(r)
  /\ UNCHANGED <<clock, lag, backend, began>>

\* No lock, and mongoose is not connected when that is noticed: the job runs
\* under the mutex alone.
RunUnlocked(r) ==
  /\ \/ pc[r] = "acquire" /\ Store(r) = "mongo"
     \/ pc[r] = "steal" /\ ~Expired(r)
  /\ Goto(r, "unlocked")
  /\ UNCHANGED <<clock, lag, backend, mutex, store, began>>

\* The job is done, or it threw; an unlocked run has nothing to release.
Finish(r) ==
  /\ \/ pc[r] = "running" /\ Goto(r, "release") /\ UNCHANGED mutex
     \/ pc[r] = "unlocked" /\ Goto(r, "idle") /\ LeaveMutex(r)
  /\ UNCHANGED <<clock, lag, backend, store, began>>

ReleaseAny(r) ==
  /\ pc[r] = "release"
  /\ Write(Store(r), NoLock)
  /\ Goto(r, "idle")
  /\ LeaveMutex(r)
  /\ UNCHANGED <<clock, lag, backend, began>>

\* Both releases delete the lock only if it is still the owner's.  A release
\* that fails, or finds mongoose disconnected, leaves it to its TTL.
Release(r) ==
  /\ pc[r] = "release"
  /\ \/ UNCHANGED store
     \/ store[Store(r)].owner = r /\ Write(Store(r), NoLock)
  /\ Goto(r, "idle")
  /\ LeaveMutex(r)
  /\ UNCHANGED <<clock, lag, backend, began>>

\* The process dies with its mutex; its lock stays in the store.
Crash(p) ==
  /\ mutex[p] # NoRunner
  /\ mutex' = [mutex EXCEPT ![p] = NoRunner]
  /\ pc' = [r \in Runners |-> IF Proc[r] = p THEN "idle" ELSE pc[r]]
  /\ UNCHANGED <<clock, lag, backend, store, began>>

Tick ==
  /\ clock < MaxTime
  /\ clock' = clock + 1
  /\ UNCHANGED <<lag, backend, mutex, store, pc, began>>

JobNext ==
  \/ \E r \in Runners :
       \/ EnterMutex(r) \/ AcquireRedis(r) \/ CreateMongo(r) \/ AcquireFails(r)
       \/ StealMongo(r) \/ StealFails(r) \/ RunUnlocked(r)
       \/ Finish(r) \/ Release(r)
  \/ \E p \in Processes : Crash(p)
  \/ Tick

JobSpec == JobInit /\ [][JobNext]_jobVars

-----------------------------------------------------------------------------
\* No failure, and no death of the process, leaves the mutex of a process
\* locked by a timer that is done: that would end the job on this instance for
\* good, as no time limit frees the map of syncMutex.ts.
MutexNotLeaked ==
  \A p \in Processes, r \in Runners :
    mutex[p] = r <=> Proc[r] = p /\ pc[r] # "idle"

Runs(r) == pc[r] \in {"running", "unlocked"}

\* A run that lasts this long may have lost its lease: ttlMsFor, less what the
\* clocks of two instances differ by.  Nothing renews a lease.
Overran(r) == clock - began[r] >= TTL - MaxSkew

\* For the runs of one store that are younger than their lease, the lock is
\* an exclusive right without exception: whatever fails or dies, a job starts
\* only when no such run is left.
WithinLease(b) ==
  {r \in Runners : pc[r] = "running" /\ Store(r) = b /\ ~Overran(r)}

RedisRight == INSTANCE Exclusive
  WITH Holders <- Runners, held <- WithinLease("redis"), broken <- FALSE

MongoRight == INSTANCE Exclusive
  WITH Holders <- Runners, held <- WithinLease("mongo"), broken <- FALSE

LeaseIsExclusive == RedisRight!Spec /\ MongoRight!Spec

\* The job runs twice at the same time only on two instances, and only if one
\* of them runs it without a store, they use different stores, or one has
\* been running longer than its lease.
JobExclusion ==
  \A r, q \in Runners :
    r # q /\ Runs(r) /\ Runs(q) =>
      /\ Proc[r] # Proc[q]
      /\ \/ "unlocked" \in {pc[r], pc[q]}
         \/ Store(r) # Store(q)
         \/ Overran(r) \/ Overran(q)
=============================================================================
