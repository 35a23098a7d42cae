-------------------------- MODULE ProviderClientProofs --------------------------
(***************************************************************************)
(* What holds of the courier HTTP client for any number of calls, any      *)
(* limit and any number of retries.                                        *)
(***************************************************************************)
EXTENDS ProviderClient, FiniteSetTheorems, SequenceTheorems, TLAPS

\* The queue holds waiting calls, each one once.
QueueOK ==
  /\ \A i \in 1 .. Len(queue) : pc[queue[i]] = "queued"
  /\ \A i, j \in 1 .. Len(queue) : queue[i] = queue[j] => i = j

\* Only a call that may retry sleeps.
BackoffOK == \A c \in Calls : pc[c] = "backoff" => Retries(c)

\* The courier has not acted on a create that has not ended.
CreatesOK ==
  \A c \in Creates :
    /\ acted[c] \in {0, 1}
    /\ pc[c] \in {"queued", "login", "sent"} => acted[c] = 0

\* A login is on its way only while no token is cached, so what it brings is
\* newer than what any request went out with.
LoginOK == login # "none" => token = "none"

SecondTryOK ==
  \A c \in Calls :
    /\ pc[c] = "queued" => ~again[c]
    /\ pc[c] = "sent" /\ login = "bad" => revoked[c]
    /\ pc[c] = "login" /\ again[c] /\ login = "bad" => revoked[c]
    /\ pc[c] = "sent" /\ again[c] /\ held[c] = "bad" => revoked[c]

ClientInv ==
  /\ ClientTypeOK /\ QueueOK /\ SlotsAccounted
  /\ BackoffOK /\ CreatesOK /\ LoginOK /\ SecondTryOK

-----------------------------------------------------------------------------
LEMMA InitClient == ClientInit => ClientInv
<1> SUFFICES ASSUME ClientInit PROVE ClientInv
  OBVIOUS
<1> USE ClientAssumption DEF ClientInit
<1>1. ClientTypeOK
  BY DEF ClientTypeOK, Pc, Tokens
<1>2. SlotsAccounted
  <2>1. Holding = {}
    BY DEF Holding
  <2> QED
    BY <2>1, FS_EmptySet DEF SlotsAccounted
<1> QED
  BY <1>1, <1>2 DEF ClientInv, QueueOK, BackoffOK, CreatesOK, LoginOK, SecondTryOK

\* The calls a release resumes: waiting ones, as many as Woken says.
LEMMA ResumedCalls ==
  ASSUME ClientTypeOK, QueueOK, NEW off \in SUBSET Calls
  PROVE  /\ Cardinality(off) \in Nat /\ Len(queue) \in Nat
         /\ Woken(off) \in 0 .. Len(queue) /\ Woken(off) <= Cardinality(off)
         /\ Resumed(off) \subseteq {c \in Calls : pc[c] = "queued"}
         /\ IsFiniteSet(Resumed(off)) /\ Cardinality(Resumed(off)) = Woken(off)
<1>1. IsFiniteSet(off) /\ Cardinality(off) \in Nat
  BY ClientAssumption, FS_Subset, FS_CardinalityType
<1>2. queue \in Seq(Calls) /\ Len(queue) \in Nat
  BY DEF ClientTypeOK
<1>3. /\ Woken(off) \in 0 .. Len(queue) /\ Woken(off) <= Cardinality(off)
  BY <1>1, <1>2 DEF Woken
<1>4. Resumed(off) \subseteq {c \in Calls : pc[c] = "queued"}
  BY <1>2, <1>3 DEF QueueOK, Resumed
<1>5. ExistsBijection(1 .. Woken(off), Resumed(off))
  <2> DEFINE f == [i \in 1 .. Woken(off) |-> queue[i]]
  <2>1. f \in [1 .. Woken(off) -> Resumed(off)]
    BY DEF Resumed
  <2>2. \A i, j \in 1 .. Woken(off) : f[i] = f[j] => i = j
    BY <1>2, <1>3 DEF QueueOK
  <2>3. \A c \in Resumed(off) : \E i \in 1 .. Woken(off) : f[i] = c
    BY DEF Resumed
  <2>4. f \in Bijection(1 .. Woken(off), Resumed(off))
    BY <2>1, <2>2, <2>3 DEF Bijection, Injection, Surjection, IsInjective
  <2> QED
    BY <2>4 DEF ExistsBijection
<1>6. IsFiniteSet(1 .. Woken(off)) /\ Cardinality(1 .. Woken(off)) = Woken(off)
  BY <1>2, <1>3, FS_Interval
<1>7. IsFiniteSet(Resumed(off)) /\ Cardinality(Resumed(off)) = Woken(off)
  BY <1>5, <1>6, FS_Bijection
<1> QED
  BY <1>1, <1>2, <1>3, <1>4, <1>7

\* A release by the calls off, and the start of those it resumes: the counter
\* stays right and the queue stays one of waiting calls.
LEMMA ReleaseOK ==
  ASSUME ClientTypeOK, QueueOK, SlotsAccounted,
         NEW off \in SUBSET Holding, Release(off),
         \A c \in Calls :
           /\ c \in Resumed(off) => pc'[c] \in {"login", "sent"}
           /\ c \notin Resumed(off) /\ c \in off => pc'[c] = "idle"
           /\ c \notin Resumed(off) /\ c \notin off /\ c \in Holding
                => pc'[c] \in {"login", "sent", "backoff"}
           /\ c \notin Resumed(off) /\ c \notin Holding => pc'[c] = pc[c]
  PROVE  SlotsAccounted' /\ QueueOK' /\ queue' \in Seq(Calls) /\ inFlight' \in Nat
<1> DEFINE n == Woken(off)
<1>1. off \in SUBSET Calls /\ IsFiniteSet(Holding)
  BY ClientAssumption, FS_Subset DEF Holding
<1>2. /\ Cardinality(off) \in Nat /\ Len(queue) \in Nat
      /\ n \in 0 .. Len(queue) /\ n <= Cardinality(off)
      /\ Resumed(off) \subseteq {c \in Calls : pc[c] = "queued"}
      /\ IsFiniteSet(Resumed(off)) /\ Cardinality(Resumed(off)) = n
  BY <1>1, ResumedCalls
<1>3. Holding' = (Holding \ off) \cup Resumed(off)
  BY <1>2 DEF Holding
<1>4. Cardinality(Holding') = (Cardinality(Holding) - Cardinality(off)) + n
  <2>1. /\ IsFiniteSet(Holding \ off)
        /\ Cardinality(Holding \ off) = Cardinality(Holding) - Cardinality(Holding \cap off)
    BY <1>1, FS_Difference
  <2>2. Holding \cap off = off
    OBVIOUS
  <2>3. (Holding \ off) \cap Resumed(off) = {}
    BY <1>2 DEF Holding
  <2>4. Cardinality(Holding') = Cardinality(Holding \ off) + Cardinality(Resumed(off)) - Cardinality({})
    BY <1>2, <1>3, <2>1, <2>3, FS_Union
  <2>5. Cardinality(Holding) \in Nat /\ Cardinality({}) = 0
    BY <1>1, FS_CardinalityType, FS_EmptySet
  <2>6. Cardinality(Holding \ off) = Cardinality(Holding) - Cardinality(off)
    BY <2>1, <2>2
  <2> HIDE DEF n
  <2> QED
    BY <1>2, <2>4, <2>5, <2>6
<1>5. inFlight' = (inFlight - Cardinality(off)) + n /\ queue' = SubSeq(queue, n + 1, Len(queue))
  BY DEF Release
<1>6. /\ queue' \in Seq(Calls)
      /\ Len(queue') = Len(queue) - n
      /\ \A i \in 1 .. Len(queue') : queue'[i] = queue[n + i]
  <2>1. queue \in Seq(Calls) /\ \A i \in n + 1 .. Len(queue) : queue[i] \in Calls
    BY <1>2 DEF ClientTypeOK
  <2>2. /\ queue' \in Seq(Calls)
        /\ Len(queue') = IF n + 1 <= Len(queue) THEN Len(queue) - (n + 1) + 1 ELSE 0
        /\ \A i \in 1 .. Len(queue) - (n + 1) + 1 : queue'[i] = queue[(n + 1) + i - 1]
    <3>1. n + 1 \in Int /\ Len(queue) \in Int
      BY <1>2
    <3> HIDE DEF n
    <3> QED
      BY <1>5, <2>1, <3>1, SubSeqProperties
  <2> QED
    BY <1>2, <2>2
<1>7. QueueOK'
  <2>1. ASSUME NEW i \in 1 .. Len(queue') PROVE pc'[queue'[i]] = "queued"
    <3>1. n + i \in 1 .. Len(queue) /\ queue'[i] = queue[n + i]
      BY <1>2, <1>6
    <3>2. queue[n + i] \in Calls /\ pc[queue[n + i]] = "queued"
      BY <3>1 DEF ClientTypeOK, QueueOK
    <3>3. queue[n + i] \notin Resumed(off)
      BY <1>2, <3>1 DEF Resumed, QueueOK
    <3> QED
      BY <3>1, <3>2, <3>3 DEF Holding
  <2>2. ASSUME NEW i \in 1 .. Len(queue'), NEW j \in 1 .. Len(queue'), queue'[i] = queue'[j]
        PROVE  i = j
    <3>1. n + i \in 1 .. Len(queue) /\ n + j \in 1 .. Len(queue)
      BY <1>2, <1>6
    <3>2. queue[n + i] = queue[n + j]
      BY <1>6, <2>2
    <3>3. n + i = n + j
      BY <3>1, <3>2 DEF QueueOK
    <3> QED
      BY <1>2, <3>3
  <2> QED
    BY <2>1, <2>2 DEF QueueOK
<1>8. SlotsAccounted'
  <2>1. inFlight' = Cardinality(Holding') /\ inFlight' <= MaxConcurrent
    BY <1>2, <1>4, <1>5, ClientAssumption DEF SlotsAccounted, ClientTypeOK
  <2>2. ASSUME queue' # <<>> PROVE inFlight' = MaxConcurrent
    <3>1. Len(queue') # 0
      BY <1>6, <2>2, EmptySeq
    <3>2. n = Cardinality(off) /\ Len(queue) # 0
      BY <1>2, <1>6, <3>1 DEF Woken
    <3>3. queue # <<>>
      BY <3>2, EmptySeq
    <3> QED
      BY <1>2, <1>5, <3>2, <3>3 DEF SlotsAccounted, ClientTypeOK
  <2> QED
    BY <2>1, <2>2 DEF SlotsAccounted
<1>9. inFlight' \in Nat
  <2>1. IsFiniteSet(Holding')
    BY <1>1, <1>2, <1>3, FS_Difference, FS_Union
  <2> QED
    BY <1>8, <2>1, FS_CardinalityType DEF SlotsAccounted
<1> QED
  BY <1>6, <1>7, <1>8, <1>9

\* A step after which the same calls hold the slots.
LEMMA KeepOK ==
  ASSUME ClientTypeOK, QueueOK, SlotsAccounted, UNCHANGED <<inFlight, queue>>,
         \A c \in Calls :
           /\ c \in Holding => pc'[c] \in {"login", "sent", "backoff"}
           /\ c \notin Holding => pc'[c] = pc[c]
  PROVE  SlotsAccounted' /\ QueueOK' /\ queue' \in Seq(Calls) /\ inFlight' \in Nat
<1>1. Holding' = Holding
  BY DEF Holding
<1>2. SlotsAccounted'
  BY <1>1 DEF SlotsAccounted
<1>3. QueueOK'
  <2>1. ASSUME NEW i \in 1 .. Len(queue) PROVE pc'[queue[i]] = "queued"
    <3>1. queue[i] \in Calls /\ pc[queue[i]] = "queued"
      BY DEF ClientTypeOK, QueueOK
    <3> QED
      BY <3>1 DEF Holding
  <2> QED
    BY <2>1 DEF QueueOK
<1> QED
  BY <1>2, <1>3 DEF ClientTypeOK

\* What getToken does for the calls cs.
LEMMA GetTokenOK ==
  ASSUME NEW cs \in SUBSET Calls, NEW p \in [Calls -> Pc], NEW l \in Tokens \cup {"asked"},
         token' \in Tokens, held \in [Calls -> Tokens], GetToken(cs, p, l)
  PROVE  /\ pc' \in [Calls -> Pc] /\ held' \in [Calls -> Tokens]
         /\ login' \in Tokens \cup {"asked"}
         /\ \A c \in cs : /\ pc'[c] = IF token' = "none" THEN "login" ELSE "sent"
                          /\ held'[c] = token'
         /\ \A c \in Calls \ cs : pc'[c] = p[c] /\ held'[c] = held[c]
         /\ login' = l \/ (login' = "asked" /\ token' = "none")
  BY DEF GetToken, Pc, Tokens

\* The end of a call, whatever the courier has made of it.
LEMMA EndKeeps ==
  ASSUME ClientInv, NEW c \in Calls, pc[c] = "sent", End(c),
         UNCHANGED <<attempt, again, revoked>>, acted' \in [Calls -> Nat],
         c \in Creates => acted'[c] \in {0, 1},
         \A d \in Calls \ {c} : acted'[d] = acted[d]
  PROVE  ClientInv'
<1> USE DEF ClientInv
<1>1. {c} \in SUBSET Holding /\ {c} \in SUBSET Calls
  BY DEF Holding
<1>2. Resumed({c}) \subseteq {d \in Calls : pc[d] = "queued"}
  BY <1>1, ResumedCalls
<1> DEFINE p == [pc EXCEPT ![c] = "idle"]
<1>3. /\ p \in [Calls -> Pc] /\ token' = token
      /\ token' \in Tokens /\ held \in [Calls -> Tokens] /\ login \in Tokens \cup {"asked"}
      /\ GetToken(Resumed({c}), p, login) /\ Release({c})
  BY DEF End, ClientTypeOK, Pc
<1>4. /\ pc' \in [Calls -> Pc] /\ held' \in [Calls -> Tokens]
      /\ login' \in Tokens \cup {"asked"}
      /\ \A d \in Resumed({c}) : pc'[d] = IF token = "none" THEN "login" ELSE "sent"
      /\ \A d \in Calls \ Resumed({c}) : pc'[d] = p[d] /\ held'[d] = held[d]
      /\ login' = login \/ (login' = "asked" /\ token = "none")
  <2> HIDE DEF p
  <2> QED
    BY <1>2, <1>3, GetTokenOK
<1>5. \A d \in Calls : d # c => p[d] = pc[d]
  BY DEF ClientTypeOK
<1>6. p[c] = "idle" /\ c \notin Resumed({c})
  BY <1>2 DEF ClientTypeOK
<1> HIDE DEF p
<1>7. SlotsAccounted' /\ QueueOK' /\ queue' \in Seq(Calls) /\ inFlight' \in Nat
  BY <1>1, <1>2, <1>3, <1>4, <1>5, <1>6, ReleaseOK DEF Holding
<1>8. ClientTypeOK'
  BY <1>3, <1>4, <1>7 DEF ClientTypeOK
<1>9. BackoffOK'
  BY <1>2, <1>4, <1>5, <1>6 DEF BackoffOK, Retries
<1>10. CreatesOK'
  BY <1>2, <1>4, <1>5, <1>6, ClientAssumption DEF CreatesOK
<1>11. LoginOK'
  BY <1>3, <1>4 DEF LoginOK
<1>12. SecondTryOK'
  <2>1. ASSUME NEW d \in Resumed({c})
        PROVE  ~again'[d] /\ pc'[d] # "queued" /\ (pc'[d] = "sent" => login' # "bad")
    BY <1>2, <1>4, <2>1 DEF SecondTryOK, LoginOK
  <2>2. \A d \in Calls \ Resumed({c}) : pc'[d] = pc[d] \/ pc'[d] = "idle"
    BY <1>4, <1>5, <1>6
  <2> QED
    BY <1>2, <1>4, <2>1, <2>2 DEF SecondTryOK
<1> QED
  BY <1>7, <1>8, <1>9, <1>10, <1>11, <1>12

\* A call arrives: it takes a slot or joins the queue.
LEMMA EnterKeeps ==
  ASSUME ClientInv, NEW c \in Calls, Enter(c)
  PROVE  ClientInv'
<1> USE DEF ClientInv
<1>1. /\ pc[c] = "idle" /\ c \notin Holding /\ token' = token
      /\ attempt' = [attempt EXCEPT ![c] = 0] /\ again' = [again EXCEPT ![c] = FALSE]
      /\ acted' = [acted EXCEPT ![c] = 0] /\ revoked' = [revoked EXCEPT ![c] = FALSE]
  BY DEF Enter, Holding
<1>2. CASE HasSlot /\ inFlight' = inFlight + 1 /\ UNCHANGED queue /\ GetToken({c}, pc, login)
  <2>1. /\ pc' \in [Calls -> Pc] /\ held' \in [Calls -> Tokens]
        /\ login' \in Tokens \cup {"asked"}
        /\ pc'[c] = IF token = "none" THEN "login" ELSE "sent"
        /\ \A d \in Calls \ {c} : pc'[d] = pc[d] /\ held'[d] = held[d]
        /\ login' = login \/ (login' = "asked" /\ token = "none")
    <3>1. {c} \in SUBSET Calls /\ token' \in Tokens
      BY <1>1 DEF ClientTypeOK
    <3> QED
      BY <1>1, <1>2, <3>1, GetTokenOK DEF ClientTypeOK
  <2>2. IsFiniteSet(Holding) /\ Holding' = Holding \cup {c}
    BY <1>1, <2>1, ClientAssumption, FS_Subset DEF Holding
  <2>3. Cardinality(Holding') = Cardinality(Holding) + 1
    BY <1>1, <2>2, FS_AddElement
  <2>4. SlotsAccounted' /\ inFlight' \in Nat
    BY <1>2, <2>3, ClientAssumption DEF SlotsAccounted, ClientTypeOK, HasSlot
  <2>5. QueueOK'
    <3>1. ASSUME NEW i \in 1 .. Len(queue) PROVE pc'[queue[i]] = "queued"
      <4>1. queue[i] \in Calls /\ pc[queue[i]] = "queued"
        BY DEF ClientTypeOK, QueueOK
      <4> QED
        BY <1>1, <2>1, <4>1
    <3> QED
      BY <1>2, <3>1 DEF QueueOK
  <2>6. ClientTypeOK'
    <3>1. /\ attempt' \in [Calls -> 0 .. MaxRetries] /\ again' \in [Calls -> BOOLEAN]
          /\ acted' \in [Calls -> Nat] /\ revoked' \in [Calls -> BOOLEAN]
      BY <1>1, ClientAssumption DEF ClientTypeOK
    <3> QED
      BY <1>1, <1>2, <2>1, <2>4, <3>1 DEF ClientTypeOK
  <2>7. BackoffOK' /\ LoginOK'
    BY <1>1, <2>1 DEF BackoffOK, LoginOK, Retries, ClientTypeOK
  <2>8. CreatesOK'
    BY <1>1, <2>1, ClientAssumption DEF CreatesOK, ClientTypeOK
  <2>9. SecondTryOK'
    BY <1>1, <2>1 DEF SecondTryOK, LoginOK, ClientTypeOK
  <2> QED
    BY <2>4, <2>5, <2>6, <2>7, <2>8, <2>9
<1>3. CASE /\ ~HasSlot /\ queue' = Append(queue, c) /\ pc' = [pc EXCEPT ![c] = "queued"]
           /\ UNCHANGED <<inFlight, held, login>>
  <2>1. Holding' = Holding /\ inFlight = MaxConcurrent
    BY <1>1, <1>3, ClientAssumption
    DEF Holding, HasSlot, SlotsAccounted, ClientTypeOK
  <2>2. SlotsAccounted'
    BY <1>3, <2>1 DEF SlotsAccounted
  <2>3. /\ queue' \in Seq(Calls) /\ Len(queue') = Len(queue) + 1 /\ Len(queue) \in Nat
        /\ \A i \in 1 .. Len(queue) : queue'[i] = queue[i] /\ queue[i] \in Calls
        /\ queue'[Len(queue) + 1] = c
    BY <1>3, AppendProperties DEF ClientTypeOK
  <2>4. ClientTypeOK'
    BY <1>1, <1>3, <2>3, ClientAssumption DEF ClientTypeOK, Pc
  <2>5. \A i \in 1 .. Len(queue) : queue[i] # c /\ pc'[queue[i]] = "queued"
    BY <1>1, <1>3, <2>3 DEF QueueOK, ClientTypeOK
  <2>6. QueueOK'
    <3>1. ASSUME NEW i \in 1 .. Len(queue') PROVE pc'[queue'[i]] = "queued"
      BY <1>3, <2>3, <2>5 DEF ClientTypeOK
    <3>2. ASSUME NEW i \in 1 .. Len(queue'), NEW j \in 1 .. Len(queue'), queue'[i] = queue'[j]
          PROVE  i = j
      BY <2>3, <2>5, <3>2 DEF QueueOK
    <3> QED
      BY <3>1, <3>2 DEF QueueOK
  <2>7. BackoffOK' /\ LoginOK'
    BY <1>1, <1>3 DEF BackoffOK, LoginOK, Retries, ClientTypeOK
  <2>8. CreatesOK'
    BY <1>1, <1>3, ClientAssumption DEF CreatesOK, ClientTypeOK
  <2>9. SecondTryOK'
    BY <1>1, <1>3 DEF SecondTryOK, ClientTypeOK
  <2> QED
    BY <2>2, <2>4, <2>6, <2>7, <2>8, <2>9
<1> QED
  BY <1>2, <1>3 DEF Enter

\* The courier's answers.
LEMMA AnswerKeeps ==
  ASSUME ClientInv, NEW c \in Calls, Answer(c)
  PROVE  ClientInv'
<1> USE DEF ClientInv
<1>1. CASE Accepted(c)
  BY <1>1, EndKeeps, ClientAssumption
  DEF Accepted, CountActed, CreatesOK, ClientTypeOK
<1>2. CASE Refused(c) \/ UnauthorizedAgain(c)
  BY <1>2, EndKeeps DEF Refused, UnauthorizedAgain, callVars, CreatesOK, ClientTypeOK
<1>3. CASE NoAnswer(c) /\ ~Retries(c)
  <2>1. /\ pc[c] = "sent" /\ End(c) /\ UNCHANGED <<attempt, again, revoked>>
        /\ acted' = acted \/ (c \in Creates /\ acted' = [acted EXCEPT ![c] = @ + 1])
    BY <1>3 DEF NoAnswer, CountActed
  <2>2. c \in Creates => acted[c] = 0
    BY <2>1 DEF CreatesOK
  <2>3. /\ acted' \in [Calls -> Nat] /\ (c \in Creates => acted'[c] \in {0, 1})
        /\ \A d \in Calls \ {c} : acted'[d] = acted[d]
    BY <2>1, <2>2 DEF ClientTypeOK
  <2> QED
    BY <2>1, <2>3, EndKeeps
<1>4. CASE NoAnswer(c) /\ Retries(c)
  <2>1. /\ pc[c] = "sent" /\ c \notin Creates /\ pc' = [pc EXCEPT ![c] = "backoff"]
        /\ UNCHANGED <<attempt, again, revoked, acted, held, inFlight, queue, token, login>>
    BY <1>4 DEF NoAnswer, Retries, CountActed
  <2>2. SlotsAccounted' /\ QueueOK' /\ queue' \in Seq(Calls) /\ inFlight' \in Nat
    BY <2>1, KeepOK DEF Holding, ClientTypeOK
  <2>3. ClientTypeOK'
    BY <2>1, <2>2 DEF ClientTypeOK, Pc
  <2>4. BackoffOK' /\ LoginOK' /\ CreatesOK'
    BY <1>4, <2>1, ClientAssumption DEF BackoffOK, Retries, LoginOK, CreatesOK, ClientTypeOK
  <2>5. SecondTryOK'
    BY <2>1 DEF SecondTryOK, ClientTypeOK
  <2> QED
    BY <2>2, <2>3, <2>4, <2>5
<1>5. CASE Unauthorized(c)
  <2>1. /\ pc[c] = "sent" /\ again' = [again EXCEPT ![c] = TRUE] /\ token' = "none"
        /\ GetToken({c}, pc, login)
        /\ UNCHANGED <<inFlight, queue, attempt, acted, revoked>>
    BY <1>5 DEF Unauthorized
  <2>2. /\ pc' \in [Calls -> Pc] /\ held' \in [Calls -> Tokens]
        /\ login' \in Tokens \cup {"asked"}
        /\ pc'[c] = "login"
        /\ \A d \in Calls \ {c} : pc'[d] = pc[d] /\ held'[d] = held[d]
        /\ login' = login \/ login' = "asked"
    <3>1. {c} \in SUBSET Calls /\ token' \in Tokens
      BY <2>1 DEF Tokens
    <3>2. /\ pc \in [Calls -> Pc] /\ login \in Tokens \cup {"asked"}
          /\ held \in [Calls -> Tokens]
      BY DEF ClientTypeOK
    <3>3. /\ pc' \in [Calls -> Pc] /\ held' \in [Calls -> Tokens]
          /\ login' \in Tokens \cup {"asked"}
          /\ \A d \in {c} : pc'[d] = IF token' = "none" THEN "login" ELSE "sent"
          /\ \A d \in Calls \ {c} : pc'[d] = pc[d] /\ held'[d] = held[d]
          /\ login' = login \/ (login' = "asked" /\ token' = "none")
      BY <2>1, <3>1, <3>2, GetTokenOK
    <3> QED
      BY <2>1, <3>3
  <2>3. SlotsAccounted' /\ QueueOK' /\ queue' \in Seq(Calls) /\ inFlight' \in Nat
    BY <2>1, <2>2, KeepOK DEF Holding
  <2>4. ClientTypeOK'
    BY <2>1, <2>2, <2>3 DEF ClientTypeOK, Tokens
  <2>5. BackoffOK' /\ LoginOK' /\ CreatesOK'
    BY <2>1, <2>2, ClientAssumption DEF BackoffOK, Retries, LoginOK, CreatesOK
  <2>6. SecondTryOK'
    BY <2>1, <2>2 DEF SecondTryOK, ClientTypeOK
  <2> QED
    BY <2>3, <2>4, <2>5, <2>6
<1> QED
  BY <1>1, <1>2, <1>3, <1>4, <1>5 DEF Answer

\* A call wakes up, keeping its slot.
LEMMA WakeUpKeeps ==
  ASSUME ClientInv, NEW c \in Calls, WakeUp(c)
  PROVE  ClientInv'
<1> USE DEF ClientInv
<1>1. /\ pc[c] = "backoff" /\ attempt' = [attempt EXCEPT ![c] = @ + 1]
      /\ again' = [again EXCEPT ![c] = FALSE] /\ revoked' = [revoked EXCEPT ![c] = FALSE]
      /\ token' = token /\ GetToken({c}, pc, login)
      /\ UNCHANGED <<inFlight, queue, acted>>
  BY DEF WakeUp
<1>2. Retries(c)
  BY <1>1 DEF BackoffOK
<1>3. /\ pc' \in [Calls -> Pc] /\ held' \in [Calls -> Tokens]
      /\ login' \in Tokens \cup {"asked"}
      /\ \A d \in {c} : pc'[d] = IF token' = "none" THEN "login" ELSE "sent"
      /\ \A d \in Calls \ {c} : pc'[d] = pc[d] /\ held'[d] = held[d]
      /\ login' = login \/ (login' = "asked" /\ token' = "none")
  BY <1>1, GetTokenOK DEF ClientTypeOK
<1>4. SlotsAccounted' /\ QueueOK' /\ queue' \in Seq(Calls) /\ inFlight' \in Nat
  BY <1>1, <1>3, KeepOK DEF Holding
<1>5. ClientTypeOK'
  <2>1. attempt' \in [Calls -> 0 .. MaxRetries]
    BY <1>1, <1>2, ClientAssumption DEF ClientTypeOK, Retries
  <2>2. again' \in [Calls -> BOOLEAN] /\ revoked' \in [Calls -> BOOLEAN]
    BY <1>1 DEF ClientTypeOK
  <2> QED
    BY <1>1, <1>3, <1>4, <2>1, <2>2 DEF ClientTypeOK
<1>6. BackoffOK' /\ LoginOK' /\ CreatesOK'
  BY <1>1, <1>2, <1>3, ClientAssumption
  DEF BackoffOK, Retries, LoginOK, CreatesOK, ClientTypeOK
<1>7. SecondTryOK'
  BY <1>1, <1>3 DEF SecondTryOK, LoginOK, ClientTypeOK
<1> QED
  BY <1>4, <1>5, <1>6, <1>7

\* The token arrives, for every call that waits for it.
LEMMA LoginArrivesKeeps ==
  ASSUME ClientInv, LoginArrives
  PROVE  ClientInv'
<1> USE DEF ClientInv
<1>1. /\ login \in {"good", "bad"} /\ token' = login /\ GetToken(Awaiting, pc, "none")
      /\ UNCHANGED <<inFlight, queue, attempt, again, acted, revoked>>
  BY DEF LoginArrives, callVars
<1>2. /\ Awaiting \in SUBSET Calls /\ token' \in Tokens /\ token' # "none"
      /\ "none" \in Tokens \cup {"asked"}
  BY <1>1 DEF Awaiting, Tokens
<1>3. /\ pc' \in [Calls -> Pc] /\ held' \in [Calls -> Tokens]
      /\ \A d \in Awaiting : pc'[d] = "sent" /\ held'[d] = login
      /\ \A d \in Calls \ Awaiting : pc'[d] = pc[d] /\ held'[d] = held[d]
      /\ login' = "none"
  BY <1>1, <1>2, GetTokenOK DEF ClientTypeOK
<1>4. SlotsAccounted' /\ QueueOK' /\ queue' \in Seq(Calls) /\ inFlight' \in Nat
  BY <1>1, <1>3, KeepOK DEF Holding, Awaiting
<1>5. ClientTypeOK'
  BY <1>1, <1>2, <1>3, <1>4 DEF ClientTypeOK, Tokens
<1>6. BackoffOK' /\ LoginOK' /\ CreatesOK'
  BY <1>1, <1>3, ClientAssumption DEF BackoffOK, Retries, LoginOK, CreatesOK, Awaiting
<1>7. SecondTryOK'
  BY <1>1, <1>3 DEF SecondTryOK, Awaiting
<1> QED
  BY <1>4, <1>5, <1>6, <1>7

\* The login fails: some calls end, the others sleep.
LEMMA LoginFailsKeeps ==
  ASSUME ClientInv, LoginFails
  PROVE  ClientInv'
<1> USE DEF ClientInv
<1> DEFINE off == {c \in Awaiting : ~Retries(c)}
           p == [c \in Calls |-> CASE c \in off -> "idle"
                                   [] c \in Awaiting \ off -> "backoff"
                                   [] OTHER -> pc[c]]
<1>1. /\ login # "none" /\ token' = token /\ Release(off)
      /\ GetToken(Resumed(off), p, "none")
      /\ UNCHANGED <<attempt, again, acted, revoked>>
  BY DEF LoginFails, callVars
<1>2. token = "none" /\ token' \in Tokens /\ "none" \in Tokens \cup {"asked"}
  BY <1>1 DEF LoginOK, Tokens
<1>3. off \in SUBSET Holding /\ off \in SUBSET Calls
  BY DEF Holding, Awaiting
<1>4. Resumed(off) \subseteq {c \in Calls : pc[c] = "queued"}
  <2> HIDE DEF off
  <2> QED
    BY <1>3, ResumedCalls
<1>5. p \in [Calls -> Pc]
  BY DEF ClientTypeOK, Pc
<1>6. \A c \in Calls :
        /\ c \in off => p[c] = "idle"
        /\ c \in Awaiting \ off => p[c] = "backoff" /\ Retries(c)
        /\ c \notin Awaiting => p[c] = pc[c]
  BY DEF Awaiting
<1>7. off \subseteq Awaiting
  OBVIOUS
<1> HIDE DEF p, off
<1>8. /\ pc' \in [Calls -> Pc] /\ held' \in [Calls -> Tokens]
      /\ login' \in Tokens \cup {"asked"}
      /\ \A d \in Resumed(off) : pc'[d] = "login"
      /\ \A d \in Calls \ Resumed(off) : pc'[d] = p[d] /\ held'[d] = held[d]
      /\ login' \in {"none", "asked"}
  <2>1. Resumed(off) \in SUBSET Calls /\ held \in [Calls -> Tokens]
    BY <1>4 DEF ClientTypeOK
  <2> QED
    BY <1>1, <1>2, <1>5, <2>1, GetTokenOK
<1>9. SlotsAccounted' /\ QueueOK' /\ queue' \in Seq(Calls) /\ inFlight' \in Nat
  <2>1. ASSUME NEW c \in Calls
        PROVE  /\ c \in Resumed(off) => pc'[c] \in {"login", "sent"}
               /\ c \notin Resumed(off) /\ c \in off => pc'[c] = "idle"
               /\ c \notin Resumed(off) /\ c \notin off /\ c \in Holding
                    => pc'[c] \in {"login", "sent", "backoff"}
               /\ c \notin Resumed(off) /\ c \notin Holding => pc'[c] = pc[c]
    BY <1>6, <1>7, <1>8 DEF Holding, Awaiting
  <2> QED
    BY <1>1, <1>3, <2>1, ReleaseOK
<1>10. ClientTypeOK'
  BY <1>1, <1>2, <1>8, <1>9 DEF ClientTypeOK
<1>11. BackoffOK'
  BY <1>1, <1>6, <1>7, <1>8 DEF BackoffOK, Retries
<1>12. CreatesOK'
  BY <1>1, <1>4, <1>6, <1>7, <1>8, ClientAssumption DEF CreatesOK, Retries
<1>13. LoginOK'
  BY <1>1, <1>2 DEF LoginOK
<1>14. SecondTryOK'
  <2>1. \A c \in Calls \ Resumed(off) : pc'[c] = pc[c] \/ pc'[c] \in {"idle", "backoff"}
    BY <1>6, <1>7, <1>8
  <2> QED
    BY <1>1, <1>4, <1>8, <2>1 DEF SecondTryOK
<1> QED
  BY <1>9, <1>10, <1>11, <1>12, <1>13, <1>14

\* Logins begin and are answered; tokens expire and are revoked.
LEMMA TokensKeep ==
  ASSUME ClientInv,
         EnsureAuth \/ LoginIssued \/ TokenExpires \/ Revoke \/ UNCHANGED clientVars
  PROVE  ClientInv'
<1> USE DEF ClientInv
<1>1. UNCHANGED <<pc, inFlight, queue, attempt, again, acted>>
  BY DEF EnsureAuth, LoginIssued, TokenExpires, Revoke, clientVars, callVars
<1>2. SlotsAccounted' /\ QueueOK' /\ BackoffOK' /\ CreatesOK'
  BY <1>1 DEF SlotsAccounted, Holding, QueueOK, BackoffOK, Retries, CreatesOK
<1>3. ClientTypeOK'
  <2>1. held' \in [Calls -> Tokens] /\ token' \in Tokens
    BY DEF EnsureAuth, LoginIssued, TokenExpires, Revoke, Spoilt, clientVars, callVars,
           ClientTypeOK, Tokens
  <2>2. login' \in Tokens \cup {"asked"}
    BY DEF EnsureAuth, LoginIssued, TokenExpires, Revoke, Spoilt, clientVars, callVars,
           ClientTypeOK, Tokens
  <2>3. revoked' \in [Calls -> BOOLEAN]
    BY DEF EnsureAuth, LoginIssued, TokenExpires, Revoke, clientVars, callVars, ClientTypeOK
  <2> QED
    BY <1>1, <2>1, <2>2, <2>3 DEF ClientTypeOK
<1>4. LoginOK'
  BY DEF EnsureAuth, LoginIssued, TokenExpires, Revoke, Spoilt, clientVars, LoginOK
<1>5. SecondTryOK'
  <2>1. CASE Revoke
    BY <1>1, <2>1 DEF Revoke, SecondTryOK, ClientTypeOK
  <2>2. CASE ~Revoke
    <3>1. UNCHANGED <<held, revoked>> /\ (login' = "bad" => login = "bad")
      BY <2>2 DEF EnsureAuth, LoginIssued, TokenExpires, clientVars, callVars
    <3> QED
      BY <1>1, <3>1 DEF SecondTryOK
  <2> QED
    BY <2>1, <2>2
<1> QED
  BY <1>1, <1>2, <1>3, <1>4, <1>5

-----------------------------------------------------------------------------
LEMMA ClientInvAlways == ClientSpec => []ClientInv
<1>1. ClientInv /\ [ClientNext]_clientVars => ClientInv'
  BY EnterKeeps, AnswerKeeps, WakeUpKeeps, LoginArrivesKeeps, LoginFailsKeeps, TokensKeep
  DEF ClientNext
<1> QED
  BY <1>1, InitClient, PTL DEF ClientSpec

\* The types of the client's variables.
THEOREM ClientTypeCorrect == ClientSpec => []ClientTypeOK
<1>1. ClientInv => ClientTypeOK
  BY DEF ClientInv
<1> QED
  BY <1>1, ClientInvAlways, PTL

\* No slot is lost or counted twice, whatever fails: releaseSlot and acquireSlot
\* keep the counter right, within the limit, and nobody waits for a free slot.
THEOREM SlotsAlwaysAccounted == ClientSpec => []SlotsAccounted
<1>1. ClientInv => SlotsAccounted
  BY DEF ClientInv
<1> QED
  BY <1>1, ClientInvAlways, PTL

\* A create is acted on at most once, though a 401 sends it a second time.
THEOREM CreatedAtMostOnce == ClientSpec => []CreatedOnce
<1>1. ClientInv => CreatedOnce
  BY DEF ClientInv, CreatesOK, CreatedOnce
<1> QED
  BY <1>1, ClientInvAlways, PTL

\* A second try is refused only if the courier revoked its tokens meanwhile,
\* whichever call invalidated the cache and whichever login was joined.
THEOREM SecondTriesAuthorized == ClientSpec => []SecondTryIsAuthorized
<1>1. ClientInv => SecondTryIsAuthorized
  BY DEF ClientInv, SecondTryOK, SecondTryIsAuthorized
<1> QED
  BY <1>1, ClientInvAlways, PTL
=============================================================================
