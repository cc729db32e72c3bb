---------------------------- MODULE ServicesProofs ----------------------------
(***************************************************************************)
(* Services beside the desk, for every size: the idempotency store and the *)
(* token bucket, for any threads, keys, calls, capacity and refill; the    *)
(* notices, for any members, preferences and number of notices; the files  *)
(* and chains of the evidence, for any writers, documents and records; a   *)
(* discovery run, for any plans, calls, hits and share of a platform; the  *)
(* delivery of alerts, for any number of alerts, destinations and attempts *)
(* and a network that delays, loses and answers as it likes.               *)
(* What is proved of the notices rests on the write lock: the preferences  *)
(* that decide who is mailed are those of the moment the notice was made.  *)
(***************************************************************************)
EXTENDS Guards, Notices, Evidence, Harvest, Delivery, FiniteSetTheorems,
        WellFoundedInduction, SequenceTheorems, TLAPS

-----------------------------------------------------------------------------
(* What one call of allow does *)

\* Time that passed is worth as many tokens in two parts as in one.
LEMMA TimeAddsUp ==
    ASSUME NEW early \in Nat, NEW late \in Nat, early <= late
    PROVE  /\ (late - early) * Refill \in Nat
           /\ early * Refill \in Nat /\ late * Refill \in Nat
           /\ (late - early) * Refill + early * Refill = late * Refill
<1>1. Refill \in Nat /\ late - early \in Nat
  BY GuardAssumption
<1>2. \A a, b, c \in Nat : a * c \in Nat /\ a * c + b * c = (a + b) * c
  OBVIOUS
<1> QED
  BY <1>1, <1>2

\* The bucket was last touched in the past.
Touched == bucket.last <= now

\* After the refill there is at least what was there and at most what has flowed
\* in since, and never more than the bucket holds.
LEMMA RefillIsBounded ==
    ASSUME GuardTypeOK, Touched, NEW cost \in 1..Capacity, Allow(cost)
    PROVE  \E full \in 0..Capacity :
             /\ full + bucket.last * Refill <= bucket.tokens + now * Refill
             /\ bucket' = [tokens |-> IF full >= cost THEN full - cost ELSE full,
                           last |-> now, exists |-> TRUE]
             /\ granted' = IF full >= cost THEN granted + cost ELSE granted
<1> DEFINE since == IF bucket.exists THEN bucket.last ELSE now
           full == Level(Capacity, bucket.tokens, now - since)
<1>1. /\ since \in Nat /\ bucket.last <= since /\ since <= now
      /\ bucket.last \in Nat /\ now \in Nat /\ bucket.tokens \in 0..Capacity
      /\ Capacity \in Nat
  BY GuardAssumption DEF GuardTypeOK, Touched
<1>2. /\ (now - since) * Refill \in Nat
      /\ bucket.last * Refill \in Nat /\ now * Refill \in Nat
      /\ (now - since) * Refill + bucket.last * Refill <= now * Refill
  <2>1. /\ (now - since) * Refill \in Nat /\ since * Refill \in Nat /\ now * Refill \in Nat
        /\ (now - since) * Refill + since * Refill = now * Refill
    BY <1>1, TimeAddsUp
  <2>2. /\ (since - bucket.last) * Refill \in Nat /\ bucket.last * Refill \in Nat
        /\ (since - bucket.last) * Refill + bucket.last * Refill = since * Refill
    BY <1>1, TimeAddsUp
  <2> QED
    BY <2>1, <2>2
<1>3. full \in 0..Capacity /\ full <= bucket.tokens + (now - since) * Refill
  <2> DEFINE flow == (now - since) * Refill
  <2>1. full = IF bucket.tokens + flow < Capacity THEN bucket.tokens + flow ELSE Capacity
    BY DEF Level
  <2>2. flow \in Nat
    BY <1>2
  <2> HIDE DEF full, flow
  <2>3. full \in 0..Capacity /\ full <= bucket.tokens + flow
    BY <1>1, <2>1, <2>2
  <2> QED
    BY <2>3 DEF flow
<1>4. full + bucket.last * Refill <= bucket.tokens + now * Refill
  BY <1>1, <1>2, <1>3
<1>5. /\ bucket' = [tokens |-> IF full >= cost THEN full - cost ELSE full,
                    last |-> now, exists |-> TRUE]
      /\ granted' = IF full >= cost THEN granted + cost ELSE granted
  BY DEF Allow
<1> QED
  BY <1>3, <1>4, <1>5

-----------------------------------------------------------------------------
(* Types *)

Typed == GuardTypeOK /\ Touched

\* Every step keeps the types.
LEMMA StepKeepsTypes == Typed /\ [GuardNext]_guardVars => Typed'
<1> SUFFICES ASSUME Typed, [GuardNext]_guardVars PROVE Typed'
  OBVIOUS
<1> USE GuardAssumption DEF Typed, Touched, GuardTypeOK, storeVars, bucketVars
<1>1. ASSUME NEW c \in Caller, NEW k \in IdKey, Replay(c, k) PROVE Typed'
  BY <1>1 DEF Replay
<1>2. ASSUME NEW c \in Caller, NEW k \in IdKey, Miss(c, k) PROVE Typed'
  <2>1. [pc |-> "missed", key |-> k, id |-> calls + 1] \in Calling
    BY <1>2 DEF Miss, Calling, Result
  <2>2. raced' \in [IdKey -> Nat] /\ call' \in [Caller -> {NoCall} \cup Calling]
    BY <1>2, <2>1 DEF Miss
  <2> QED
    BY <1>2, <2>2 DEF Miss
<1>3. ASSUME NEW c \in Caller, call[c] # NoCall, NEW pc \in {"missed", "running", "got"},
             call' = [call EXCEPT ![c].pc = pc]
      PROVE  call' \in [Caller -> {NoCall} \cup Calling]
  BY <1>3 DEF Calling
<1>4. ASSUME NEW c \in Caller, Run(c) \/ Returns(c) PROVE Typed'
  <2>1. call[c] \in Calling /\ call[c].key \in IdKey
    BY <1>4 DEF Run, Returns, Calling
  <2> QED
    BY <1>3, <1>4, <2>1 DEF Run, Returns
<1>5. ASSUME NEW c \in Caller, ReturnsNothing(c) \/ Remember(c) PROVE Typed'
  <2>1. call[c].key \in IdKey /\ call[c].id \in 0..MaxCalls
    BY <1>5 DEF ReturnsNothing, Remember, Calling, Result
  <2> QED
    BY <1>5, <2>1 DEF ReturnsNothing, Remember
<1>6. CASE Tick
  BY <1>6 DEF Tick
<1>7. ASSUME NEW cost \in 1..Capacity, Allow(cost) PROVE Typed'
  <2>1. UNCHANGED <<store, call, calls, ran, lost, raced, now>>
    BY <1>7 DEF Allow
  <2>2. PICK full \in 0..Capacity :
             /\ bucket' = [tokens |-> IF full >= cost THEN full - cost ELSE full,
                           last |-> now, exists |-> TRUE]
             /\ granted' = IF full >= cost THEN granted + cost ELSE granted
    BY <1>7, RefillIsBounded
  <2>3. (IF full >= cost THEN full - cost ELSE full) \in 0..Capacity
    OBVIOUS
  <2>4. bucket' \in [tokens: 0..Capacity, last: Nat, exists: BOOLEAN] /\ bucket'.last = now
    BY <2>2, <2>3
  <2> QED
    BY <2>1, <2>2, <2>4
<1>8. CASE UNCHANGED guardVars
  BY <1>8 DEF guardVars
<1> QED
  BY <1>1, <1>2, <1>4, <1>5, <1>6, <1>7, <1>8 DEF GuardNext

\* The store, the threads and the bucket are always of their types.
THEOREM GuardTypesCorrect == GuardSpec => []Typed
<1>1. GuardInit => Typed
  BY GuardAssumption DEF GuardInit, Typed, Touched, GuardTypeOK, NoBucket
<1> QED
  BY <1>1, StepKeepsTypes, PTL DEF GuardSpec

-----------------------------------------------------------------------------
(* The bucket *)

\* What was granted and what is left had flowed in when the bucket was last
\* touched.
Flowed == granted + bucket.tokens <= Capacity + bucket.last * Refill

\* A tenant is granted at most a full bucket and the refill of the time since its
\* first request (TokenBucketRateLimiter.allow), whatever the calls ask for.
THEOREM BucketNeverOverflows == GuardSpec => []BucketHolds
<1>1. GuardInit => Flowed
  BY GuardAssumption DEF GuardInit, Flowed, NoBucket
<1>2. Typed /\ Flowed /\ [GuardNext]_guardVars => Flowed'
  <2> SUFFICES ASSUME Typed, Flowed, [GuardNext]_guardVars PROVE Flowed'
    OBVIOUS
  <2>1. ASSUME NEW cost \in 1..Capacity, Allow(cost) PROVE Flowed'
    <3>1. PICK full \in 0..Capacity :
             /\ full + bucket.last * Refill <= bucket.tokens + now * Refill
             /\ bucket' = [tokens |-> IF full >= cost THEN full - cost ELSE full,
                           last |-> now, exists |-> TRUE]
             /\ granted' = IF full >= cost THEN granted + cost ELSE granted
      BY <2>1, RefillIsBounded DEF Typed
    <3>2. granted' + bucket'.tokens = granted + full /\ bucket'.last = now
      BY <3>1 DEF Typed, GuardTypeOK
    <3>3. bucket.last * Refill \in Nat /\ now * Refill \in Nat
      BY TimeAddsUp DEF Typed, GuardTypeOK, Touched
    <3>4. granted + full <= Capacity + now * Refill
      BY <3>1, <3>3, GuardAssumption DEF Typed, GuardTypeOK, Flowed
    <3> QED
      BY <3>2, <3>4 DEF Flowed
  <2>2. ASSUME UNCHANGED <<bucket, granted>> PROVE Flowed'
    BY <2>2 DEF Flowed
  <2> QED
    BY <2>1, <2>2 DEF GuardNext, Replay, Miss, Run, Returns, ReturnsNothing, Remember,
                      Tick, bucketVars, guardVars
<1>3. Typed /\ Flowed => BucketHolds
  <2> SUFFICES ASSUME Typed, Flowed PROVE BucketHolds
    OBVIOUS
  <2>1. bucket.last * Refill \in Nat /\ now * Refill \in Nat
        /\ bucket.last * Refill <= now * Refill
    BY TimeAddsUp DEF Typed, GuardTypeOK, Touched
  <2> QED
    BY <2>1, GuardAssumption DEF Typed, GuardTypeOK, Flowed, BucketHolds
<1> QED
  BY <1>1, <1>2, <1>3, GuardTypesCorrect, PTL DEF GuardSpec

-----------------------------------------------------------------------------
(* The store *)

\* Threads that found nothing under a key and have not run its action yet.
Missed(k) == {c \in Under(k) : call[c].pc = "missed"}

\* What has run and what will: no more than OncePerKey allows; and as long as
\* nothing is remembered, no more than was lost or is still under way.
WillRunOnce ==
    \A k \in IdKey :
        /\ ran[k] + Cardinality(Missed(k)) <= 1 + raced[k] + lost[k]
        /\ store[k] = 0 => ran[k] + Cardinality(Missed(k)) <= lost[k] + Cardinality(Under(k))

\* The threads under way are some of the threads.
LEMMA ThreadsAreFinite ==
    ASSUME NEW k \in IdKey
    PROVE  /\ IsFiniteSet(Under(k)) /\ Cardinality(Under(k)) \in Nat
           /\ IsFiniteSet(Missed(k)) /\ Cardinality(Missed(k)) \in Nat
<1>1. Under(k) \subseteq Caller /\ Missed(k) \subseteq Caller
  BY DEF Under, Missed
<1> QED
  BY <1>1, CallerAssumption, FS_Subset, FS_CardinalityType

\* A miss adds its thread to those of its key.
LEMMA MissAddsOne ==
    ASSUME Typed, NEW c \in Caller, NEW k \in IdKey, Miss(c, k)
    PROVE  /\ Cardinality(Under(k)') = Cardinality(Under(k)) + 1
           /\ Cardinality(Missed(k)') = Cardinality(Missed(k)) + 1
           /\ \A j \in IdKey \ {k} : Under(j)' = Under(j) /\ Missed(j)' = Missed(j)
<1>1. call' = [call EXCEPT ![c] = [pc |-> "missed", key |-> k, id |-> calls + 1]]
      /\ call[c] = NoCall /\ call[c] \notin Calling
  BY DEF Miss, Calling, NoCall
<1>2. Under(k)' = Under(k) \cup {c} /\ c \notin Under(k)
  BY <1>1 DEF Typed, GuardTypeOK, Under, NoCall
<1>3. Missed(k)' = Missed(k) \cup {c} /\ c \notin Missed(k)
  BY <1>1, <1>2 DEF Typed, GuardTypeOK, Under, Missed, NoCall
<1>4. \A j \in IdKey \ {k} : Under(j)' = Under(j) /\ Missed(j)' = Missed(j)
  BY <1>1 DEF Typed, GuardTypeOK, Under, Missed, NoCall
<1> QED
  BY <1>2, <1>3, <1>4, ThreadsAreFinite, FS_AddElement

\* A thread that goes on keeps its key, and the others stay where they are.
LEMMA OnlyPcMoves ==
    ASSUME Typed, NEW c \in Caller, NEW pc \in {"missed", "running", "got"},
           call[c] # NoCall, call' = [call EXCEPT ![c].pc = pc]
    PROVE  /\ call'[c] # NoCall /\ call'[c].key = call[c].key /\ call'[c].pc = pc
           /\ \A d \in Caller \ {c} : call'[d] = call[d]
<1>1. call[c] \in Calling /\ call'[c] = [call[c] EXCEPT !.pc = pc]
  BY DEF Typed, GuardTypeOK
<1>2. call'[c].pc = pc /\ call'[c].key = call[c].key
  BY <1>1 DEF Calling
<1>3. call'[c] # NoCall
  BY <1>2 DEF NoCall
<1>4. \A d \in Caller \ {c} : call'[d] = call[d]
  BY DEF Typed, GuardTypeOK
<1> QED
  BY <1>2, <1>3, <1>4

\* A thread that runs the action leaves those that will, and stays under way.
LEMMA RunLeavesMissed ==
    ASSUME Typed, NEW c \in Caller, Run(c), NEW k \in IdKey
    PROVE  /\ Under(k)' = Under(k)
           /\ Cardinality(Missed(k)') =
                Cardinality(Missed(k)) - IF call[c].key = k THEN 1 ELSE 0
<1>1. call[c] # NoCall /\ call[c].pc = "missed"
      /\ call' = [call EXCEPT ![c].pc = "running"]
  BY DEF Run
<1>2. /\ call'[c] # NoCall /\ call'[c].key = call[c].key /\ call'[c].pc = "running"
      /\ \A d \in Caller \ {c} : call'[d] = call[d]
  BY <1>1, OnlyPcMoves
<1>3. Under(k)' = Under(k)
  BY <1>1, <1>2 DEF Under
<1>4. CASE call[c].key = k
  <2>1. Missed(k)' = Missed(k) \ {c} /\ c \in Missed(k)
    BY <1>1, <1>2, <1>3, <1>4 DEF Missed, Under
  <2> QED
    BY <1>3, <1>4, <2>1, ThreadsAreFinite, FS_RemoveElement, ZenonT(40)
<1>5. CASE call[c].key # k
  <2>1. Missed(k)' = Missed(k)
    BY <1>1, <1>2, <1>3, <1>5 DEF Missed, Under
  <2> QED
    BY <1>3, <1>5, <2>1, ThreadsAreFinite
<1> QED
  BY <1>4, <1>5

\* The result of an action changes nobody's place.
LEMMA ReturnMovesNobody ==
    ASSUME Typed, NEW c \in Caller, Returns(c), NEW k \in IdKey
    PROVE  Under(k)' = Under(k) /\ Missed(k)' = Missed(k)
<1>1. call[c] # NoCall /\ call[c].pc = "running"
      /\ call' = [call EXCEPT ![c].pc = "got"]
  BY DEF Returns
<1>2. /\ call'[c] # NoCall /\ call'[c].key = call[c].key /\ call'[c].pc = "got"
      /\ \A d \in Caller \ {c} : call'[d] = call[d]
  BY <1>1, OnlyPcMoves
<1> QED
  BY <1>1, <1>2 DEF Under, Missed

\* A thread that ends is under way no more; it had run the action.
LEMMA EndRemovesOne ==
    ASSUME Typed, NEW c \in Caller, ReturnsNothing(c) \/ Remember(c), NEW k \in IdKey
    PROVE  /\ Missed(k)' = Missed(k)
           /\ Cardinality(Under(k)') =
                Cardinality(Under(k)) - IF call[c].key = k THEN 1 ELSE 0
<1>1. call[c] # NoCall /\ call[c].pc # "missed" /\ call' = [call EXCEPT ![c] = NoCall]
  BY DEF ReturnsNothing, Remember
<1>2. Missed(k)' = Missed(k)
  BY <1>1 DEF Typed, GuardTypeOK, Under, Missed
<1>3. CASE call[c].key = k
  <2>1. Under(k)' = Under(k) \ {c} /\ c \in Under(k)
    BY <1>1, <1>3 DEF Typed, GuardTypeOK, Under
  <2> QED
    BY <1>2, <1>3, <2>1, ThreadsAreFinite, FS_RemoveElement, ZenonT(40)
<1>4. CASE call[c].key # k
  <2>1. Under(k)' = Under(k)
    BY <1>1, <1>4 DEF Typed, GuardTypeOK, Under
  <2> QED
    BY <1>2, <1>4, <2>1, ThreadsAreFinite
<1> QED
  BY <1>3, <1>4, <1>2

\* No step lets an action run once too often.
LEMMA StepKeepsOnce == Typed /\ WillRunOnce /\ [GuardNext]_guardVars => WillRunOnce'
<1> SUFFICES ASSUME Typed, WillRunOnce, [GuardNext]_guardVars, NEW k \in IdKey
             PROVE  /\ ran'[k] + Cardinality(Missed(k)') <= 1 + raced'[k] + lost'[k]
                    /\ store'[k] = 0 =>
                         ran'[k] + Cardinality(Missed(k)') <= lost'[k] + Cardinality(Under(k)')
  BY DEF WillRunOnce
<1> DEFINE M == Cardinality(Missed(k))
           U == Cardinality(Under(k))
<1>1. /\ M \in Nat /\ U \in Nat /\ ran[k] \in Nat /\ raced[k] \in Nat /\ lost[k] \in Nat
      /\ ran[k] + M <= 1 + raced[k] + lost[k]
      /\ store[k] = 0 => ran[k] + M <= lost[k] + U
  BY ThreadsAreFinite DEF WillRunOnce, Typed, GuardTypeOK
<1>2. ASSUME NEW c \in Caller, NEW j \in IdKey, Miss(c, j), j = k
      PROVE  /\ ran'[k] + Cardinality(Missed(k)') <= 1 + raced'[k] + lost'[k]
             /\ store'[k] = 0 =>
                  ran'[k] + Cardinality(Missed(k)') <= lost'[k] + Cardinality(Under(k)')
  <2>1. Cardinality(Missed(k)') = M + 1 /\ Cardinality(Under(k)') = U + 1
    BY <1>2, MissAddsOne
  <2>2. store[k] = 0 /\ ran' = ran /\ lost' = lost
        /\ raced'[k] = IF Under(k) = {} THEN raced[k] ELSE raced[k] + 1
    BY <1>2 DEF Miss, Typed, GuardTypeOK
  <2>3. Under(k) = {} => U = 0
    BY FS_EmptySet
  <2> HIDE DEF M, U
  <2> QED
    BY <1>1, <2>1, <2>2, <2>3
<1>3. ASSUME NEW c \in Caller, Run(c)
      PROVE  /\ ran'[k] + Cardinality(Missed(k)') <= 1 + raced'[k] + lost'[k]
             /\ store'[k] = 0 =>
                  ran'[k] + Cardinality(Missed(k)') <= lost'[k] + Cardinality(Under(k)')
  <2>1. Cardinality(Missed(k)') = (M - IF call[c].key = k THEN 1 ELSE 0)
        /\ Cardinality(Under(k)') = U
    BY <1>3, RunLeavesMissed
  <2>2. store' = store /\ lost' = lost /\ raced' = raced
        /\ ran'[k] = ran[k] + IF call[c].key = k THEN 1 ELSE 0
    BY <1>3 DEF Run, Typed, GuardTypeOK
  <2> HIDE DEF M, U
  <2> QED
    BY <1>1, <2>1, <2>2
<1>4. ASSUME NEW c \in Caller, ReturnsNothing(c)
      PROVE  /\ ran'[k] + Cardinality(Missed(k)') <= 1 + raced'[k] + lost'[k]
             /\ store'[k] = 0 =>
                  ran'[k] + Cardinality(Missed(k)') <= lost'[k] + Cardinality(Under(k)')
  <2>1. Cardinality(Missed(k)') = M
        /\ Cardinality(Under(k)') = (U - IF call[c].key = k THEN 1 ELSE 0)
    BY <1>4, EndRemovesOne
  <2>2. store' = store /\ ran' = ran /\ raced' = raced
        /\ lost'[k] = lost[k] + IF call[c].key = k THEN 1 ELSE 0
    BY <1>4 DEF ReturnsNothing, Typed, GuardTypeOK
  <2> HIDE DEF M, U
  <2> QED
    BY <1>1, <2>1, <2>2
<1>5. ASSUME NEW c \in Caller, Remember(c)
      PROVE  /\ ran'[k] + Cardinality(Missed(k)') <= 1 + raced'[k] + lost'[k]
             /\ store'[k] = 0 =>
                  ran'[k] + Cardinality(Missed(k)') <= lost'[k] + Cardinality(Under(k)')
  <2>1. Cardinality(Missed(k)') = M
        /\ Cardinality(Under(k)') = (U - IF call[c].key = k THEN 1 ELSE 0)
    BY <1>5, EndRemovesOne
  <2>2. call[c] \in Calling /\ call[c].id \in Nat /\ call[c].id # 0
    BY <1>5, GuardAssumption DEF Remember, Typed, GuardTypeOK, Calling, Result
  <2>3. lost' = lost /\ ran' = ran /\ raced' = raced
        /\ store'[k] = IF call[c].key = k THEN call[c].id ELSE store[k]
    BY <1>5 DEF Remember, Typed, GuardTypeOK
  <2> HIDE DEF M, U
  <2> QED
    BY <1>1, <2>1, <2>2, <2>3
<1>6. ASSUME \/ UNCHANGED <<store, call, ran, lost, raced>>
             \/ \E c \in Caller : Returns(c)
             \/ \E c \in Caller, j \in IdKey \ {k} : Miss(c, j)
      PROVE  /\ ran'[k] + Cardinality(Missed(k)') <= 1 + raced'[k] + lost'[k]
             /\ store'[k] = 0 =>
                  ran'[k] + Cardinality(Missed(k)') <= lost'[k] + Cardinality(Under(k)')
  <2>1. Missed(k)' = Missed(k) /\ Under(k)' = Under(k)
    <3>1. CASE UNCHANGED call
      BY <3>1 DEF Missed, Under
    <3>2. CASE \E c \in Caller : Returns(c)
      BY <3>2, ReturnMovesNobody
    <3>3. CASE \E c \in Caller, j \in IdKey \ {k} : Miss(c, j)
      BY <3>3, MissAddsOne
    <3> QED
      BY <1>6, <3>1, <3>2, <3>3
  <2>2. store' = store /\ ran' = ran /\ lost' = lost /\ raced'[k] = raced[k]
    BY <1>6 DEF Returns, Miss, Typed, GuardTypeOK
  <2> QED
    BY <1>1, <2>1, <2>2
<1> QED
  BY <1>2, <1>3, <1>4, <1>5, <1>6
     DEF GuardNext, Replay, Tick, Allow, storeVars, guardVars

\* IdempotencyStore.execute, which runs the action outside its lock: an action
\* runs at most once under a key, plus once for every call that overlapped
\* another and once for every run that left nothing to replay; and the bucket
\* never grants more than has flowed into it.
THEOREM GuardsAlwaysHold == GuardSpec => []GuardsHold
<1>1. GuardInit => WillRunOnce
  <2> SUFFICES ASSUME GuardInit, NEW k \in IdKey
               PROVE  /\ ran[k] + Cardinality(Missed(k)) <= 1 + raced[k] + lost[k]
                      /\ store[k] = 0 =>
                           ran[k] + Cardinality(Missed(k)) <= lost[k] + Cardinality(Under(k))
    BY DEF WillRunOnce
  <2>1. Under(k) = {} /\ Missed(k) = {}
    BY DEF GuardInit, Under, Missed
  <2> QED
    BY <2>1, FS_EmptySet DEF GuardInit
<1>2. Typed /\ WillRunOnce => OncePerKey
  <2> SUFFICES ASSUME Typed, WillRunOnce, NEW k \in IdKey
               PROVE  ran[k] <= 1 + raced[k] + lost[k]
    BY DEF OncePerKey
  <2>1. Cardinality(Missed(k)) \in Nat /\ ran[k] \in Nat /\ raced[k] \in Nat /\ lost[k] \in Nat
    BY ThreadsAreFinite DEF Typed, GuardTypeOK
  <2> QED
    BY <2>1 DEF WillRunOnce
<1>3. OncePerKey /\ BucketHolds => GuardsHold
  BY DEF GuardsHold
<1> QED
  BY <1>1, <1>2, <1>3, StepKeepsOnce, GuardTypesCorrect, BucketNeverOverflows, PTL
     DEF GuardSpec

-----------------------------------------------------------------------------
(* The notices: what their rows and the open transaction are made of. *)

Pref == {NoPref} \cup Stored
NoticeRow == [to: Member \cup {"everybody"}, severity: Severities,
              state: {"open", "kept", "undone"}, emailed: BOOLEAN, read: BOOLEAN,
              prefs: [Member -> Pref]]
Tx == [pc: {"none", "resolve", "mark", "end"}] \cup [pc: {"send"}, to: SUBSET Member]

NoticeTypeOK ==
    /\ active \subseteq Member
    /\ pref \in [Member -> Pref]
    /\ notice \in Seq(NoticeRow)
    /\ tx \in Tx
    /\ mailed \subseteq Nat \X Member

-----------------------------------------------------------------------------
(* The invariant.  Resolve, SendMail and MarkEmailed look at the newest     *)
(* notice only, so it must be the one the open transaction made, and the    *)
(* preferences must not have moved since.                                   *)

\* a mail went to a recipient
MailIsDue ==
    \A m \in mailed : /\ m[1] \in DOMAIN notice
                      /\ m[2] \in Recipients(m[1], notice[m[1]].prefs)
\* a committed notice is marked exactly if it had recipients
Marked(n) == notice[n].emailed <=> Recipients(n, notice[n].prefs) # {}
KeptIsMarked == \A n \in DOMAIN notice : notice[n].state = "kept" => Marked(n)
\* the open notice is the newest, and where its transaction stands
OpenIsNewest ==
    /\ \A n \in DOMAIN notice : notice[n].state = "open" => n = Newest /\ tx # NoTx
    /\ tx # NoTx => /\ Newest \in DOMAIN notice
                    /\ notice[Newest].state = "open" /\ notice[Newest].prefs = pref
Progress ==
    /\ tx.pc \in {"resolve", "send", "mark"} => ~notice[Newest].emailed
    /\ tx.pc = "send" => tx.to = Recipients(Newest, pref)
    /\ tx.pc \in {"send", "mark"} => Recipients(Newest, pref) # {}
    /\ tx.pc = "end" => Marked(Newest)

NoticeInv == NoticeTypeOK /\ MailIsDue /\ KeptIsMarked /\ OpenIsNewest /\ Progress

\* Updating a notice's state or marks changes nobody's claim to be mailed.
LEMMA MarksMoveNobody ==
    ASSUME NoticeTypeOK, UNCHANGED active, NEW i \in DOMAIN notice, NEW row \in NoticeRow,
           row.to = notice[i].to, row.severity = notice[i].severity,
           row.prefs = notice[i].prefs, notice' = [notice EXCEPT ![i] = row]
    PROVE  /\ notice' \in Seq(NoticeRow) /\ DOMAIN notice' = DOMAIN notice
           /\ Len(notice') = Len(notice)
           /\ \A n \in DOMAIN notice : notice'[n] = IF n = i THEN row ELSE notice[n]
           /\ \A n \in DOMAIN notice : \A p : Recipients(n, p)' = Recipients(n, p)
<1>1. /\ notice' \in Seq(NoticeRow) /\ DOMAIN notice' = DOMAIN notice
      /\ Len(notice') = Len(notice)
      /\ \A n \in DOMAIN notice : notice'[n] = IF n = i THEN row ELSE notice[n]
  BY DEF NoticeTypeOK
<1>2. ASSUME NEW n \in DOMAIN notice, NEW p
      PROVE  Recipients(n, p)' = Recipients(n, p)
  <2>1. notice'[n].to = notice[n].to /\ notice'[n].severity = notice[n].severity
    BY <1>1
  <2> QED
    BY <2>1 DEF Recipients, Allows
<1> QED
  BY <1>1, <1>2

\* ... and what a mark says stays true.
LEMMA MarkStands ==
    ASSUME UNCHANGED active, NEW n,
           notice'[n].to = notice[n].to, notice'[n].severity = notice[n].severity,
           notice'[n].prefs = notice[n].prefs, notice'[n].emailed = notice[n].emailed
    PROVE  Marked(n)' <=> Marked(n)
<1>1. (Recipients(n, notice[n].prefs) # {})' <=> Recipients(n, notice[n].prefs) # {}
  BY DEF Recipients, Allows
<1> QED
  BY <1>1, Zenon DEF Marked

\* A notice is made, or a transaction goes on.
LEMMA TxKeepsInv ==
    ASSUME NoticeInv,
           \/ \E to \in Member \cup {"everybody"}, severity \in Severities : Notify(to, severity)
           \/ Resolve \/ SendMail
    PROVE  NoticeInv'
<1> USE DEF NoticeInv
<1>1. ASSUME NEW to \in Member \cup {"everybody"}, NEW severity \in Severities,
             Notify(to, severity)
      PROVE  NoticeInv'
  <2> DEFINE row == [to |-> to, severity |-> severity, state |-> "open",
                     emailed |-> FALSE, read |-> FALSE, prefs |-> pref]
  <2>1. /\ row \in NoticeRow /\ notice' = Append(notice, row) /\ tx = NoTx
        /\ tx' = [pc |-> "resolve"] /\ UNCHANGED <<active, pref, mailed>>
    BY <1>1 DEF Notify, NoticeTypeOK, NoticeRow
  <2>2. /\ notice' \in Seq(NoticeRow) /\ Len(notice') = Len(notice) + 1 /\ Len(notice) \in Nat
        /\ DOMAIN notice' = 1..(Len(notice) + 1) /\ DOMAIN notice = 1..Len(notice)
        /\ notice'[Len(notice) + 1] = row
        /\ \A n \in DOMAIN notice : notice'[n] = notice[n]
    BY <2>1 DEF NoticeTypeOK
  <2>3. NoticeTypeOK'
    BY <2>1, <2>2 DEF NoticeTypeOK, Tx
  <2>4. \A n \in DOMAIN notice : \A p : Recipients(n, p)' = Recipients(n, p)
    BY <2>1, <2>2 DEF Recipients, Allows
  <2>5. MailIsDue'
    BY <2>1, <2>2, <2>4 DEF MailIsDue
  <2>6. KeptIsMarked'
    <3>1. SUFFICES ASSUME NEW n \in DOMAIN notice', notice'[n].state = "kept"
                   PROVE  Marked(n)'
      BY DEF KeptIsMarked
    <3>2. n \in DOMAIN notice /\ notice'[n] = notice[n]
      BY <2>2, <3>1
    <3> QED
      BY <2>1, <3>1, <3>2, MarkStands DEF KeptIsMarked
  <2>7. OpenIsNewest'
    BY <2>1, <2>2 DEF OpenIsNewest, Newest, NoTx
  <2>8. Progress'
    BY <2>1, <2>2 DEF Progress, Newest
  <2> QED
    BY <2>3, <2>5, <2>6, <2>7, <2>8
<1>2. CASE Resolve
  <2>1. tx.pc = "resolve" /\ tx # NoTx /\ UNCHANGED <<active, pref, notice, mailed>>
        /\ Newest \in DOMAIN notice /\ notice[Newest].prefs = pref
    BY <1>2 DEF Resolve, NoTx, OpenIsNewest
  <2>2. \A n, p : Recipients(n, p)' = Recipients(n, p)
    BY <2>1 DEF Recipients
  <2>3. Recipients(Newest, pref) \subseteq Member
    BY DEF Recipients, NoticeTypeOK
  <2>4. NoticeTypeOK' /\ MailIsDue' /\ KeptIsMarked'
    BY <1>2, <2>1, <2>2, <2>3 DEF Resolve, NoticeTypeOK, Tx, MailIsDue, KeptIsMarked, Marked
  <2>5. OpenIsNewest'
    BY <1>2, <2>1 DEF Resolve, OpenIsNewest, Newest, NoTx
  <2>6. Progress'
    BY <1>2, <2>1, <2>2 DEF Resolve, Progress, Newest, Marked
  <2> QED
    BY <2>4, <2>5, <2>6
<1>3. CASE SendMail
  <2>1. /\ tx.pc = "send" /\ tx # NoTx /\ tx' = [pc |-> "mark"]
        /\ UNCHANGED <<active, pref, notice>>
        /\ Newest \in DOMAIN notice /\ notice[Newest].prefs = pref
        /\ tx.to = Recipients(Newest, pref) /\ Newest \in Nat
    BY <1>3 DEF SendMail, NoTx, OpenIsNewest, Progress, Newest, NoticeTypeOK
  <2>2. PICK reached \in SUBSET tx.to : mailed' = mailed \cup ({Newest} \X reached)
    BY <1>3 DEF SendMail
  <2>3. \A n, p : Recipients(n, p)' = Recipients(n, p)
    BY <2>1 DEF Recipients
  <2>4. reached \subseteq Member
    BY <2>1, <2>2 DEF Recipients, NoticeTypeOK
  <2>5. NoticeTypeOK'
    BY <2>1, <2>2, <2>4 DEF NoticeTypeOK, Tx
  <2>6. MailIsDue'
    BY <2>1, <2>2, <2>3 DEF MailIsDue
  <2>7. KeptIsMarked' /\ OpenIsNewest' /\ Progress'
    BY <2>1, <2>3 DEF KeptIsMarked, Marked, OpenIsNewest, Progress, Newest, NoTx
  <2> QED
    BY <2>5, <2>6, <2>7
<1> QED
  BY <1>1, <1>2, <1>3

\* A transaction marks its notice or ends, or a notice is read.
LEMMA MarksKeepInv ==
    ASSUME NoticeInv, MarkEmailed \/ Keep \/ Undo \/ \E n \in DOMAIN notice : MarkRead(n)
    PROVE  NoticeInv'
<1> USE DEF NoticeInv
<1>1. CASE MarkEmailed
  <2> DEFINE row == [notice[Newest] EXCEPT !.emailed = TRUE]
  <2>1. /\ tx.pc = "mark" /\ tx # NoTx /\ tx' = [pc |-> "end"]
        /\ UNCHANGED <<active, pref, mailed>>
        /\ Newest \in DOMAIN notice /\ notice' = [notice EXCEPT ![Newest] = row]
        /\ Recipients(Newest, pref) # {} /\ notice[Newest].prefs = pref
    BY <1>1 DEF MarkEmailed, NoTx, OpenIsNewest, Progress
  <2>2. notice[Newest] \in NoticeRow
    BY <2>1 DEF NoticeTypeOK
  <2>3. /\ row \in NoticeRow /\ row.to = notice[Newest].to /\ row.state = notice[Newest].state
        /\ row.severity = notice[Newest].severity /\ row.prefs = notice[Newest].prefs
        /\ row.emailed
    BY <2>2 DEF NoticeRow
  <2> HIDE DEF row
  <2>4. /\ notice' \in Seq(NoticeRow) /\ DOMAIN notice' = DOMAIN notice
        /\ Newest' = Newest
        /\ \A n \in DOMAIN notice : notice'[n] = IF n = Newest THEN row ELSE notice[n]
        /\ \A n \in DOMAIN notice : \A p : Recipients(n, p)' = Recipients(n, p)
    BY <2>1, <2>3, MarksMoveNobody DEF Newest
  <2>5. NoticeTypeOK'
    BY <2>1, <2>4 DEF NoticeTypeOK, Tx
  <2>6. MailIsDue'
    BY <2>1, <2>3, <2>4 DEF MailIsDue
  <2>7. KeptIsMarked'
    <3>1. SUFFICES ASSUME NEW n \in DOMAIN notice', notice'[n].state = "kept"
                   PROVE  Marked(n)'
      BY DEF KeptIsMarked
    <3>2. n \in DOMAIN notice /\ notice'[n] = notice[n]
      BY <2>1, <2>3, <2>4, <3>1 DEF OpenIsNewest
    <3> QED
      BY <2>1, <3>1, <3>2, MarkStands DEF KeptIsMarked
  <2>8. OpenIsNewest'
    BY <2>1, <2>3, <2>4 DEF OpenIsNewest, NoTx
  <2>9. Progress'
    <3>1. Recipients(Newest, pref)' # {}
      BY <2>1, <2>3, <2>4 DEF OpenIsNewest, Recipients, Allows
    <3>2. notice'[Newest].emailed /\ notice'[Newest].prefs = pref /\ Newest' = Newest
      BY <2>1, <2>3, <2>4
    <3> QED
      BY <2>1, <3>1, <3>2, Zenon DEF Progress, Marked
  <2> QED
    BY <2>5, <2>6, <2>7, <2>8, <2>9
<1>2. ASSUME Keep \/ Undo PROVE NoticeInv'
  <2>1. PICK end \in {"kept", "undone"} :
          /\ notice' = [notice EXCEPT ![Newest].state = end]
          /\ end = "kept" => tx.pc = "end"
          /\ tx # NoTx /\ tx' = NoTx /\ UNCHANGED <<active, pref, mailed>>
    BY <1>2 DEF Keep, Undo, NoTx
  <2> DEFINE row == [notice[Newest] EXCEPT !.state = end]
  <2>2. Newest \in DOMAIN notice /\ notice' = [notice EXCEPT ![Newest] = row]
        /\ notice[Newest] \in NoticeRow /\ notice[Newest].prefs = pref
    BY <2>1 DEF OpenIsNewest, NoticeTypeOK
  <2>3. /\ row \in NoticeRow /\ row.to = notice[Newest].to /\ row.state = end
        /\ row.severity = notice[Newest].severity /\ row.prefs = notice[Newest].prefs
        /\ row.emailed = notice[Newest].emailed
    BY <2>2 DEF NoticeRow
  <2> HIDE DEF row
  <2>4. /\ notice' \in Seq(NoticeRow) /\ DOMAIN notice' = DOMAIN notice
        /\ Newest' = Newest
        /\ \A n \in DOMAIN notice : notice'[n] = IF n = Newest THEN row ELSE notice[n]
        /\ \A n \in DOMAIN notice : \A p : Recipients(n, p)' = Recipients(n, p)
    BY <2>1, <2>2, <2>3, MarksMoveNobody DEF Newest
  <2>5. NoticeTypeOK'
    BY <2>1, <2>4 DEF NoticeTypeOK, Tx, NoTx
  <2>6. MailIsDue'
    BY <2>1, <2>2, <2>3, <2>4 DEF MailIsDue
  <2>7. KeptIsMarked'
    <3>1. SUFFICES ASSUME NEW n \in DOMAIN notice', notice'[n].state = "kept"
                   PROVE  Marked(n)'
      BY DEF KeptIsMarked
    <3>2. n \in DOMAIN notice /\ notice[n].state = "kept" => Marked(n)
      BY <2>4 DEF KeptIsMarked
    <3>3. n = Newest => Marked(n)
      BY <2>1, <2>3, <2>4, <3>1 DEF Progress
    <3>4. /\ notice'[n].to = notice[n].to /\ notice'[n].severity = notice[n].severity
          /\ notice'[n].prefs = notice[n].prefs /\ notice'[n].emailed = notice[n].emailed
          /\ Marked(n)
      BY <2>3, <2>4, <3>1, <3>2, <3>3
    <3> QED
      BY <2>1, <3>4, MarkStands
  <2>8. OpenIsNewest' /\ Progress'
    BY <2>1, <2>2, <2>3, <2>4 DEF OpenIsNewest, Progress, NoTx
  <2> QED
    BY <2>5, <2>6, <2>7, <2>8
<1>3. ASSUME NEW i \in DOMAIN notice, MarkRead(i) PROVE NoticeInv'
  <2> DEFINE row == [notice[i] EXCEPT !.read = TRUE]
  <2>1. /\ tx = NoTx /\ UNCHANGED <<active, pref, tx, mailed>>
        /\ notice' = [notice EXCEPT ![i] = row] /\ notice[i] \in NoticeRow
        /\ notice[i].state = "kept"
    BY <1>3 DEF MarkRead, NoticeTypeOK
  <2>2. /\ row \in NoticeRow /\ row.to = notice[i].to /\ row.state = notice[i].state
        /\ row.severity = notice[i].severity /\ row.prefs = notice[i].prefs
        /\ row.emailed = notice[i].emailed
    BY <2>1 DEF NoticeRow
  <2> HIDE DEF row
  <2>3. /\ notice' \in Seq(NoticeRow) /\ DOMAIN notice' = DOMAIN notice
        /\ Newest' = Newest
        /\ \A n \in DOMAIN notice : notice'[n] = IF n = i THEN row ELSE notice[n]
        /\ \A n \in DOMAIN notice : \A p : Recipients(n, p)' = Recipients(n, p)
    BY <2>1, <2>2, MarksMoveNobody DEF Newest
  <2>4. NoticeTypeOK' /\ MailIsDue'
    BY <2>1, <2>2, <2>3 DEF NoticeTypeOK, MailIsDue
  <2>5. KeptIsMarked'
    <3>1. SUFFICES ASSUME NEW n \in DOMAIN notice', notice'[n].state = "kept"
                   PROVE  Marked(n)'
      BY DEF KeptIsMarked
    <3>2. n \in DOMAIN notice /\ Marked(n)
      BY <2>1, <2>2, <2>3, <3>1 DEF KeptIsMarked
    <3>3. /\ notice'[n].to = notice[n].to /\ notice'[n].severity = notice[n].severity
          /\ notice'[n].prefs = notice[n].prefs /\ notice'[n].emailed = notice[n].emailed
      BY <2>2, <2>3, <3>2
    <3> QED
      BY <2>1, <3>2, <3>3, MarkStands
  <2>6. OpenIsNewest' /\ Progress'
    BY <2>1, <2>2, <2>3 DEF OpenIsNewest, Progress, NoTx
  <2> QED
    BY <2>4, <2>5, <2>6
<1> QED
  BY <1>1, <1>2, <1>3

\* Every step keeps the invariant; a preference is stored while no transaction
\* is open.
LEMMA StepKeepsInv == NoticeInv /\ [NoticeNext]_noticeVars => NoticeInv'
<1> SUFFICES ASSUME NoticeInv, [NoticeNext]_noticeVars PROVE NoticeInv'
  OBVIOUS
<1>1. ASSUME NEW u \in Member, NEW p \in Stored, SetPref(u, p) PROVE NoticeInv'
  <2>1. tx = NoTx /\ pref' = [pref EXCEPT ![u] = p] /\ UNCHANGED <<active, notice, tx, mailed>>
    BY <1>1 DEF SetPref
  <2>2. \A n, q : Recipients(n, q)' = Recipients(n, q)
    BY <2>1 DEF Recipients
  <2>3. NoticeTypeOK'
    BY <2>1 DEF NoticeInv, NoticeTypeOK, Pref
  <2> QED
    BY <2>1, <2>2, <2>3 DEF NoticeInv, MailIsDue, KeptIsMarked, Marked, OpenIsNewest,
                            Progress, NoTx, Newest
<1>2. CASE UNCHANGED noticeVars
  <2>1. \A n, q : Recipients(n, q)' = Recipients(n, q)
    BY <1>2 DEF noticeVars, Recipients
  <2> QED
    BY <1>2, <2>1 DEF noticeVars, NoticeInv, NoticeTypeOK, MailIsDue, KeptIsMarked, Marked,
                      OpenIsNewest, Progress, Newest
<1> QED
  BY <1>1, <1>2, TxKeepsInv, MarksKeepInv DEF NoticeNext

\* Whoever is mailed a notice would be mailed a graver one.
LEMMA GraverReachesToo ==
    ASSUME NEW p \in Pref, NEW s \in Severities, NEW g \in Severities, g > s, Allows(p, s)
    PROVE  Allows(p, g)
  BY NoticesAssumption DEF Pref, Severities, Allows, NoPref

\* notify and its mails: nobody is mailed who should not be, a committed notice
\* says "emailed" exactly if somebody should have been mailed, and mail without
\* such a notice comes from a transaction that was undone or is open.
THEOREM NoticesAlwaysReach == NoticeSpec => []NoticesReach
<1>1. NoticeInit => NoticeInv
  BY DEF NoticeInit, NoticeInv, NoticeTypeOK, Pref, Tx, NoTx, MailIsDue, KeptIsMarked,
         OpenIsNewest, Progress
<1>2. NoticeInv => NoticesReach
  <2> SUFFICES ASSUME NoticeInv PROVE NoticesReach
    OBVIOUS
  <2>1. ASSUME NEW m \in mailed
        PROVE  LET n == notice[m[1]]
               IN /\ m[2] \in active /\ n.to \in {m[2], "everybody"}
                  /\ Allows(n.prefs[m[2]], n.severity)
                  /\ \A graver \in Severities :
                        graver > n.severity => Allows(n.prefs[m[2]], graver)
                  /\ n.state = "kept" => n.emailed
    <3> DEFINE n == notice[m[1]]
    <3>1. m[1] \in DOMAIN notice /\ m[2] \in Recipients(m[1], n.prefs)
      BY DEF NoticeInv, MailIsDue
    <3>2. m[2] \in active /\ n.to \in {m[2], "everybody"} /\ Allows(n.prefs[m[2]], n.severity)
      BY <3>1 DEF Recipients
    <3>3. n \in NoticeRow
      BY <3>1 DEF NoticeInv, NoticeTypeOK
    <3>4. n.prefs[m[2]] \in Pref /\ n.severity \in Severities
      BY <3>2, <3>3 DEF NoticeRow, NoticeInv, NoticeTypeOK
    <3>5. n.state = "kept" => n.emailed
      BY <3>1 DEF NoticeInv, KeptIsMarked, Marked
    <3> HIDE DEF n
    <3>6. \A graver \in Severities : graver > n.severity => Allows(n.prefs[m[2]], graver)
      BY <3>2, <3>4, GraverReachesToo
    <3> QED
      BY <3>2, <3>5, <3>6 DEF n
  <2>2. ASSUME NEW n \in DOMAIN notice
        PROVE  /\ notice[n].state = "kept" =>
                    (notice[n].emailed <=> Recipients(n, notice[n].prefs) # {})
               /\ notice[n].state = "open" => n = Newest /\ tx # NoTx
    BY DEF NoticeInv, KeptIsMarked, Marked, OpenIsNewest
  <2> QED
    BY <2>1, <2>2 DEF NoticesReach
<1> QED
  BY <1>1, <1>2, StepKeepsInv, PTL DEF NoticeSpec

-----------------------------------------------------------------------------
(* Evidence: the files *)

(* What may be written, and what a thread may be doing. *)
Doc == [kind: {"blob"}, of: Blob]
       \cup [kind: {"report"}, of: Kind, n: Nat]
       \cup [kind: {"fit"}, of: Family \cup {Global}, n: Nat]
Task == {AtRest, [pc |-> "global"]}
       \cup [pc: {"open", "write", "row"}, path: Paths, doc: Doc]

FileTypeOK ==
    /\ file \in [Paths -> Doc \cup {Nothing, Torn}]
    /\ last \in [Paths -> Doc \cup {Nothing}]
    /\ writer \in [Writer -> Task]
    /\ rows \subseteq [path: Paths, doc: Doc]
    /\ second \in 0..MaxSecond
    /\ writes \in Nat
    /\ got \in Doc \cup {Default}

(* A document belongs where its kind and its owner say, and its number was *)
(* given out.                                                              *)
Belongs(p, d, given) ==
    /\ d.kind = p[1] /\ d.of = p[2]
    /\ d.kind # "blob" => d.n < given
DocsBelong ==
    /\ \A p \in Paths : file[p] \in Doc => Belongs(p, file[p], writes)
    /\ \A p \in Paths : last[p] \in Doc => Belongs(p, last[p], writes)
    /\ \A w \in Writer : \A task \in Task : writer[w] = task /\
         task.pc \in {"open", "write", "row"} => Belongs(task.path, task.doc, writes)
    /\ \A r \in rows : Belongs(r.path, r.doc, writes)
    /\ got \in Doc => got.kind = "fit" /\ got.n < writes

(* A file that was written or is being written was opened. *)
OpenedFirst ==
    /\ \A w \in Writer : \A task \in Task : writer[w] = task /\
         task.pc \in {"write", "row"} => last[task.path] # Nothing
    /\ \A r \in rows : last[r.path] # Nothing

(* Outside the doubtful files there is at most one writer, which writes what *)
(* it opened the file for, and a file nobody writes holds its last document. *)
OneWriter ==
    \A p \in Paths \ doubt :
        /\ (\A w \in Writer : ~(writer[w].pc = "write" /\ writer[w].path = p))
              => file[p] = last[p]
        /\ \A w \in Writer : \A task \in Task :
             writer[w] = task /\ task.pc = "write" /\ task.path = p =>
                /\ task.doc = last[p]
                /\ file[p] = Torn
                /\ \A v \in Writer : \A other \in Task :
                     writer[v] = other /\ other.pc = "write" /\ other.path = p => v = w

FilesInv == FileTypeOK /\ DocsBelong /\ OpenedFirst /\ OneWriter

\* Documents are told apart from each other and from what is no document.
LEMMA DocFacts ==
    /\ \A d \in Doc : /\ d.kind \in {"blob", "report", "fit"}
                      /\ d \notin {Nothing, Torn, Default}
                      /\ d.kind # "blob" => d.n \in Nat
    /\ Nothing # Torn /\ Torn # Default /\ Nothing # Default
BY DEF Doc, Nothing, Torn, Default

\* What a thread is doing is one of six things, and names a path and a document.
LEMMA JobFacts ==
    ASSUME NEW task \in Task
    PROVE  /\ task.pc \in {"idle", "global", "open", "write", "row"}
           /\ task.pc = "idle" <=> task = AtRest
           /\ task.pc \in {"open", "write", "row"} =>
                task.path \in Paths /\ task.doc \in Doc
                /\ task = [pc |-> task.pc, path |-> task.path, doc |-> task.doc]
BY DEF Task, AtRest

\* Paths of blobs, fits and reports are never the same.
LEMMA PathFacts ==
    /\ \A b \in Blob : /\ BlobPath(b) \in Paths
                       /\ BlobPath(b)[1] = "blob" /\ BlobPath(b)[2] = b
    /\ \A f \in Family \cup {Global} : /\ FitPath(f) \in Paths
                                       /\ FitPath(f)[1] = "fit" /\ FitPath(f)[2] = f
    /\ \A k \in Kind : \A t \in 0..MaxSecond :
         /\ ReportPath(k, t) \in Paths
         /\ ReportPath(k, t)[1] = "report" /\ ReportPath(k, t)[2] = k
BY DEF Paths, BlobPath, FitPath, ReportPath

\* A thread moves on and the others stay where they are.
LEMMA Moved ==
    ASSUME FileTypeOK, NEW w \in Writer, NEW task \in Task,
           writer' = [writer EXCEPT ![w] = task]
    PROVE  /\ writer' \in [Writer -> Task]
           /\ writer'[w] = task
           /\ \A v \in Writer \ {w} : writer'[v] = writer[v]
BY DEF FileTypeOK

(* A step that opens and writes no file, of a thread that is not writing. *)
LEMMA FilesKept ==
    ASSUME FilesInv, NEW w \in Writer, NEW task \in Task,
           writer' = [writer EXCEPT ![w] = task],
           \A was \in Task : was = writer[w] => was.pc # "write",
           task.pc \notin {"write", "row"},
           task.pc = "open" => Belongs(task.path, task.doc, writes'),
           file' = file, last' = last, doubt' = doubt, second' = second,
           writes' \in {writes, writes + 1},
           got' = got \/ got' = Default
             \/ \E p \in Paths : p[1] = "fit" /\ file[p] \in Doc /\ got' = file[p],
           \A r \in rows' \ rows : \E was \in Task :
              /\ was = writer[w] /\ was.pc = "row"
              /\ r = [path |-> was.path, doc |-> was.doc]
    PROVE  FilesInv'
<1>1. /\ writer' \in [Writer -> Task]
      /\ writer'[w] = task
      /\ \A v \in Writer \ {w} : writer'[v] = writer[v]
  BY Moved DEF FilesInv
<1>2. writer \in [Writer -> Task] /\ writes \in Nat /\ writes' \in Nat /\ writes <= writes'
  BY DEF FilesInv, FileTypeOK
<1>3. \A p \in Paths : \A d \in Doc : Belongs(p, d, writes) => Belongs(p, d, writes')
  BY <1>2, DocFacts DEF Belongs
<1>4. \A r \in rows' \ rows :
         /\ r \in [path: Paths, doc: Doc]
         /\ Belongs(r.path, r.doc, writes) /\ last[r.path] # Nothing
  BY JobFacts DEF FilesInv, DocsBelong, OpenedFirst
<1>5. FileTypeOK'
  <2>1. rows' \subseteq [path: Paths, doc: Doc]
    BY <1>4 DEF FilesInv, FileTypeOK
  <2>2. got' \in Doc \cup {Default}
    BY DEF FilesInv, FileTypeOK
  <2> QED
    BY <1>1, <1>2, <2>1, <2>2 DEF FilesInv, FileTypeOK
<1>6. DocsBelong'
  <2>1. \A p \in Paths : file'[p] \in Doc => Belongs(p, file'[p], writes')
    BY <1>3 DEF FilesInv, DocsBelong
  <2>2. \A p \in Paths : last'[p] \in Doc => Belongs(p, last'[p], writes')
    BY <1>3 DEF FilesInv, DocsBelong
  <2>3. ASSUME NEW v \in Writer, NEW other \in Task, writer'[v] = other,
               other.pc \in {"open", "write", "row"}
        PROVE  Belongs(other.path, other.doc, writes')
    <3>1. CASE v = w
      BY <1>1, <2>3, <3>1
    <3>2. CASE v # w
      <4>1. Belongs(other.path, other.doc, writes)
        BY <1>1, <2>3, <3>2 DEF FilesInv, DocsBelong
      <4> QED
        BY <1>3, <2>3, <4>1, JobFacts
    <3> QED
      BY <3>1, <3>2
  <2>4. ASSUME NEW r \in rows' PROVE Belongs(r.path, r.doc, writes')
    <3>1. r \in [path: Paths, doc: Doc]
      BY <1>5 DEF FileTypeOK
    <3>2. r.path \in Paths /\ r.doc \in Doc
      BY <3>1
    <3>3. Belongs(r.path, r.doc, writes)
      BY <1>4 DEF FilesInv, DocsBelong
    <3> QED
      BY <1>3, <3>2, <3>3
  <2>5. got' \in Doc => got'.kind = "fit" /\ got'.n < writes'
    <3>1. CASE got' = got /\ got \in Doc
      <4>1. got.kind = "fit" /\ got.n < writes /\ got.n \in Nat
        BY <3>1, DocFacts DEF FilesInv, DocsBelong
      <4> QED
        BY <1>2, <3>1, <4>1
    <3>2. CASE \E p \in Paths : p[1] = "fit" /\ file[p] \in Doc /\ got' = file[p]
      <4>1. PICK p \in Paths : p[1] = "fit" /\ file[p] \in Doc /\ got' = file[p]
        BY <3>2
      <4>2. Belongs(p, file[p], writes) /\ file[p].n \in Nat
        BY <4>1, DocFacts DEF FilesInv, DocsBelong, Belongs
      <4> QED
        BY <1>2, <4>1, <4>2 DEF Belongs
    <3> QED
      BY <3>1, <3>2, DocFacts
  <2> QED
    BY <2>1, <2>2, <2>3, <2>4, <2>5 DEF DocsBelong
<1>7. OpenedFirst'
  BY <1>1, <1>4 DEF FilesInv, OpenedFirst
<1>8. OneWriter'
  <2>1. \A v \in Writer : \A other \in Task :
           writer'[v] = other /\ other.pc = "write" => v # w /\ writer[v] = other
    BY <1>1
  <2>2. ASSUME NEW p \in Paths \ doubt,
               \A v \in Writer : ~(writer'[v].pc = "write" /\ writer'[v].path = p)
        PROVE  file[p] = last[p]
    <3>1. \A v \in Writer : ~(writer[v].pc = "write" /\ writer[v].path = p)
      BY <1>1, <1>2, <2>2
    <3> QED
      BY <3>1 DEF FilesInv, OneWriter
  <2> QED
    BY <2>1, <2>2 DEF FilesInv, OneWriter
<1> QED
  BY <1>5, <1>6, <1>7, <1>8 DEF FilesInv

(* The threads' steps that neither open nor write a file. *)
LEMMA BeginKeepsFiles ==
    ASSUME FilesInv, NEW w \in Writer, NEW p \in Paths, NEW d \in Doc,
           writer[w] = AtRest,
           Goto(w, [pc |-> "open", path |-> p, doc |-> d]),
           writes' \in {writes, writes + 1}, Belongs(p, d, writes'),
           UNCHANGED <<file, rows, second, got, last, doubt>>
    PROVE  FilesInv'
<1> DEFINE task == [pc |-> "open", path |-> p, doc |-> d]
<1>1. task \in Task /\ task.pc = "open" /\ task.path = p /\ task.doc = d
  BY DEF Task
<1>2. \A was \in Task : was = writer[w] => was.pc # "write"
  BY DEF AtRest
<1>3. writer' = [writer EXCEPT ![w] = task]
  BY DEF Goto
<1> HIDE DEF task
<1> QED
  BY <1>1, <1>2, <1>3, FilesKept

\* The steps that write no file: the row, its failure, the loads.
LEMMA RestKeepsFiles ==
    ASSUME FilesInv, NEW w \in Writer,
           Row(w) \/ RowFails(w) \/ LoadGlobal(w)
           \/ \E f \in Family \cup {Global} : LoadFamily(w, f)
    PROVE  FilesInv'
<1>0. writer[w] \in Task /\ AtRest \in Task /\ [pc |-> "global"] \in Task
  BY DEF FilesInv, FileTypeOK, Task
<1>1. CASE Row(w)
  <2>1. /\ writer' = [writer EXCEPT ![w] = AtRest] /\ AtRest.pc = "idle"
        /\ writer[w].pc = "row"
        /\ rows' = rows \cup {[path |-> writer[w].path, doc |-> writer[w].doc]}
        /\ UNCHANGED <<file, second, writes, got, last, doubt>>
    BY <1>1 DEF Row, Goto, AtRest
  <2> QED
    BY <1>0, <2>1, FilesKept
<1>2. CASE RowFails(w)
  <2>1. /\ writer' = [writer EXCEPT ![w] = AtRest] /\ AtRest.pc = "idle"
        /\ writer[w].pc = "row"
        /\ UNCHANGED <<file, rows, second, writes, got, last, doubt>>
    BY <1>2 DEF RowFails, Goto, AtRest
  <2> QED
    BY <1>0, <2>1, FilesKept
<1>3. CASE LoadGlobal(w)
  <2>1. /\ writer' = [writer EXCEPT ![w] = AtRest] /\ AtRest.pc = "idle"
        /\ writer[w].pc = "global"
        /\ UNCHANGED <<file, rows, second, writes, last, doubt>>
    BY <1>3 DEF LoadGlobal, Goto, AtRest
  <2>2. got' = Default \/ \E p \in Paths : p[1] = "fit" /\ file[p] \in Doc /\ got' = file[p]
    <3>1. CASE Whole(FitPath(Global))
      <4>1. got' = file[FitPath(Global)] /\ FitPath(Global) \in Paths
            /\ FitPath(Global)[1] = "fit"
        BY <1>3, <3>1, PathFacts DEF LoadGlobal
      <4> QED
        BY <3>1, <4>1 DEF Whole, FilesInv, FileTypeOK
    <3>2. CASE ~Whole(FitPath(Global))
      BY <1>3, <3>2 DEF LoadGlobal
    <3> QED
      BY <3>1, <3>2
  <2> QED
    BY <1>0, <2>1, <2>2, FilesKept
<1>4. ASSUME NEW f \in Family \cup {Global}, LoadFamily(w, f)
      PROVE  FilesInv'
  <2>0. writer[w].pc = "idle" /\ AtRest.pc = "idle" /\ [pc |-> "global"].pc = "global"
    BY <1>4 DEF LoadFamily, AtRest
  <2>1. UNCHANGED <<file, rows, second, writes, last, doubt>>
    BY <1>4 DEF LoadFamily
  <2>2. CASE Whole(FitPath(f))
    <3>1. got' = file[FitPath(f)] /\ FitPath(f) \in Paths /\ FitPath(f)[1] = "fit"
      BY <1>4, <2>2, PathFacts DEF LoadFamily
    <3>2. file[FitPath(f)] \in Doc
      BY <2>2, <3>1 DEF Whole, FilesInv, FileTypeOK
    <3>3. writer' = [writer EXCEPT ![w] = AtRest]
      BY <1>4, <2>2 DEF LoadFamily, FilesInv, FileTypeOK
    <3> QED
      BY <1>0, <2>0, <2>1, <3>1, <3>2, <3>3, FilesKept
  <2>3. CASE ~Whole(FitPath(f))
    <3>1. writer' = [writer EXCEPT ![w] = [pc |-> "global"]] /\ got' = got
      BY <1>4, <2>3 DEF LoadFamily, Goto
    <3> QED
      BY <1>0, <2>0, <2>1, <3>1, FilesKept
  <2> QED
    BY <2>2, <2>3
<1> QED
  BY <1>1, <1>2, <1>3, <1>4

(* Opening a file empties it, names its next content, and settles whether *)
(* its writer has company.                                                *)
LEMMA OpenKeepsFiles ==
    ASSUME FilesInv, NEW w \in Writer, OpenFile(w)
    PROVE  FilesInv'
<1>1. PICK old \in Task : old = writer[w] /\ old.pc = "open"
  BY DEF FilesInv, FileTypeOK, OpenFile
<1>2. PICK p \in Paths, d \in Doc : p = old.path /\ d = old.doc
                                    /\ old = [pc |-> "open", path |-> p, doc |-> d]
  BY <1>1, JobFacts
<1> DEFINE task == [pc |-> "write", path |-> p, doc |-> d]
<1>3. task \in Task /\ task.pc = "write" /\ task.path = p /\ task.doc = d
  BY DEF Task
<1>4. /\ writer' = [writer EXCEPT ![w] = task]
      /\ file' = [file EXCEPT ![p] = Torn]
      /\ last' = [last EXCEPT ![p] = d]
      /\ doubt' = IF Writing(p) = {} THEN doubt \ {p} ELSE doubt \cup {p}
      /\ UNCHANGED <<rows, second, writes, got>>
  <2>1. [old EXCEPT !.pc = "write"] = task
    BY <1>2
  <2> QED
    BY <1>1, <1>2, <2>1 DEF OpenFile, Goto
<1> HIDE DEF task
<1>5. /\ writer' \in [Writer -> Task]
      /\ writer'[w] = task
      /\ \A v \in Writer \ {w} : writer'[v] = writer[v]
  BY <1>3, <1>4, Moved DEF FilesInv
<1>6. /\ file' \in [Paths -> Doc \cup {Nothing, Torn}] /\ file'[p] = Torn
      /\ last' \in [Paths -> Doc \cup {Nothing}] /\ last'[p] = d
      /\ \A q \in Paths \ {p} : file'[q] = file[q] /\ last'[q] = last[q]
  BY <1>4 DEF FilesInv, FileTypeOK
<1>7. FileTypeOK'
  BY <1>4, <1>5, <1>6 DEF FilesInv, FileTypeOK
<1>8. Belongs(p, d, writes)
  BY <1>1, <1>2 DEF FilesInv, DocsBelong
<1>9. DocsBelong'
  <2>1. \A q \in Paths : /\ file'[q] \in Doc => Belongs(q, file'[q], writes)
                         /\ last'[q] \in Doc => Belongs(q, last'[q], writes)
    BY <1>6, <1>8, DocFacts DEF FilesInv, DocsBelong
  <2>2. \A v \in Writer : \A other \in Task : writer'[v] = other /\
           other.pc \in {"open", "write", "row"} => Belongs(other.path, other.doc, writes)
    BY <1>3, <1>5, <1>8 DEF FilesInv, DocsBelong
  <2> QED
    BY <1>4, <2>1, <2>2 DEF FilesInv, DocsBelong
<1>10. OpenedFirst'
  <2>1. ASSUME NEW v \in Writer, NEW other \in Task, writer'[v] = other,
               other.pc \in {"write", "row"}
        PROVE  last'[other.path] # Nothing
    <3>1. CASE v = w
      BY <1>3, <1>5, <1>6, <2>1, <3>1, DocFacts
    <3>2. CASE v # w
      <4>1. last[other.path] # Nothing /\ other.path \in Paths
        BY <1>5, <2>1, <3>2, JobFacts DEF FilesInv, OpenedFirst
      <4> QED
        BY <1>6, <4>1, DocFacts
    <3> QED
      BY <3>1, <3>2
  <2>2. ASSUME NEW r \in rows' PROVE last'[r.path] # Nothing
    <3>1. last[r.path] # Nothing /\ r.path \in Paths
      BY <1>4 DEF FilesInv, OpenedFirst, FileTypeOK
    <3> QED
      BY <1>6, <3>1, DocFacts
  <2> QED
    BY <2>1, <2>2 DEF OpenedFirst
<1>11. OneWriter'
  <2>1. ASSUME NEW q \in Paths \ doubt', q # p
        PROVE  /\ q \in Paths \ doubt
               /\ \A v \in Writer : \A other \in Task :
                    writer'[v] = other /\ other.pc = "write" /\ other.path = q =>
                       v # w /\ writer[v] = other
               /\ (\A v \in Writer : ~(writer'[v].pc = "write" /\ writer'[v].path = q))
                    => \A v \in Writer : ~(writer[v].pc = "write" /\ writer[v].path = q)
    <3>1. q \in Paths \ doubt
      BY <1>4, <2>1
    <3>2. writer[w].pc # "write"
      BY <1>1
    <3> QED
      BY <1>3, <1>5, <2>1, <3>1, <3>2
  <2>2. ASSUME p \notin doubt',
               NEW v \in Writer, NEW other \in Task, writer'[v] = other,
               other.pc = "write", other.path = p
        PROVE  v = w
    <3>1. Writing(p) = {}
      BY <1>4, <2>2
    <3> QED
      BY <1>5, <2>2, <3>1 DEF Writing
  <2>3. ASSUME NEW q \in Paths \ doubt'
        PROVE  /\ (\A v \in Writer : ~(writer'[v].pc = "write" /\ writer'[v].path = q))
                     => file'[q] = last'[q]
               /\ \A v \in Writer : \A other \in Task :
                    writer'[v] = other /\ other.pc = "write" /\ other.path = q =>
                      /\ other.doc = last'[q]
                      /\ file'[q] = Torn
                      /\ \A u \in Writer : \A third \in Task :
                           writer'[u] = third /\ third.pc = "write" /\ third.path = q => u = v
    <3>1. CASE q = p
      BY <1>3, <1>5, <1>6, <2>2, <2>3, <3>1
    <3>2. CASE q # p
      BY <1>6, <2>1, <2>3, <3>2 DEF FilesInv, OneWriter
    <3> QED
      BY <3>1, <3>2
  <2> QED
    BY <2>3 DEF OneWriter
<1> QED
  BY <1>7, <1>9, <1>10, <1>11 DEF FilesInv

(* Writing leaves a file torn only if somebody else was at it. *)
LEMMA WriteKeepsFiles ==
    ASSUME FilesInv, NEW w \in Writer, Write(w)
    PROVE  FilesInv'
<1>1. PICK old \in Task : old = writer[w] /\ old.pc = "write"
  BY DEF FilesInv, FileTypeOK, Write
<1>2. PICK p \in Paths, d \in Doc : p = old.path /\ d = old.doc
                                    /\ old = [pc |-> "write", path |-> p, doc |-> d]
  BY <1>1, JobFacts
<1>3. PICK result \in {d, Torn} :
        /\ file' = [file EXCEPT ![p] = result]
        /\ file[p] = Torn => result = d
  BY <1>1, <1>2 DEF Write, Whole
<1>4. UNCHANGED <<rows, second, writes, got, last, doubt>>
  BY DEF Write
<1>5. PICK task \in Task :
        /\ writer' = [writer EXCEPT ![w] = task]
        /\ task = AtRest \/ task = [pc |-> "row", path |-> p, doc |-> d]
  <2>1. AtRest \in Task /\ [pc |-> "row", path |-> p, doc |-> d] \in Task
    BY DEF Task
  <2>2. [old EXCEPT !.pc = "row"] = [pc |-> "row", path |-> p, doc |-> d]
    BY <1>2
  <2> QED
    BY <1>1, <1>2, <2>1, <2>2 DEF Write, Goto
<1>6. /\ task.pc \in {"idle", "row"}
      /\ task.pc = "row" => task.path = p /\ task.doc = d
  BY <1>5 DEF AtRest
<1>7. /\ writer' \in [Writer -> Task]
      /\ writer'[w] = task
      /\ \A v \in Writer \ {w} : writer'[v] = writer[v]
  BY <1>5, Moved DEF FilesInv
<1>8. /\ file' \in [Paths -> Doc \cup {Nothing, Torn}] /\ file'[p] = result
      /\ \A q \in Paths \ {p} : file'[q] = file[q]
  BY <1>3 DEF FilesInv, FileTypeOK
<1>9. FileTypeOK'
  BY <1>4, <1>7, <1>8 DEF FilesInv, FileTypeOK
<1>10. Belongs(p, d, writes) /\ last[p] # Nothing
  BY <1>1, <1>2 DEF FilesInv, DocsBelong, OpenedFirst
<1>11. DocsBelong'
  <2>1. \A q \in Paths : file'[q] \in Doc => Belongs(q, file'[q], writes)
    BY <1>8, <1>10, DocFacts DEF FilesInv, DocsBelong
  <2>2. \A v \in Writer : \A other \in Task : writer'[v] = other /\
           other.pc \in {"open", "write", "row"} => Belongs(other.path, other.doc, writes)
    BY <1>6, <1>7, <1>10 DEF FilesInv, DocsBelong
  <2> QED
    BY <1>4, <2>1, <2>2 DEF FilesInv, DocsBelong
<1>12. OpenedFirst'
  BY <1>4, <1>6, <1>7, <1>10 DEF FilesInv, OpenedFirst
<1>13. OneWriter'
  <2>1. ASSUME NEW q \in Paths \ doubt, q # p
        PROVE  /\ \A v \in Writer : \A other \in Task :
                    writer'[v] = other /\ other.pc = "write" /\ other.path = q =>
                       v # w /\ writer[v] = other
               /\ (\A v \in Writer : ~(writer'[v].pc = "write" /\ writer'[v].path = q))
                    => \A v \in Writer : ~(writer[v].pc = "write" /\ writer[v].path = q)
    BY <1>1, <1>2, <1>6, <1>7, <2>1
  <2>2. ASSUME p \notin doubt
        PROVE  /\ file'[p] = last[p]
               /\ \A v \in Writer : \A other \in Task :
                    ~(writer'[v] = other /\ other.pc = "write" /\ other.path = p)
    <3>1. d = last[p] /\ file[p] = Torn
      BY <1>1, <1>2, <2>2, ZenonT(40) DEF FilesInv, OneWriter
    <3>2. file'[p] = d
      BY <1>3, <1>8, <3>1
    <3>3. \A v \in Writer : \A other \in Task :
            writer[v] = other /\ other.pc = "write" /\ other.path = p => v = w
      <4>1. /\ p \in Paths \ doubt /\ old \in Task
            /\ writer[w] = old /\ old.pc = "write" /\ old.path = p
        BY <1>1, <1>2, <2>2
      <4> QED
        BY <4>1, Zenon DEF FilesInv, OneWriter
    <3>4. ASSUME NEW v \in Writer, NEW other \in Task, writer'[v] = other,
                 other.pc = "write", other.path = p
          PROVE  FALSE
      <4>1. CASE v = w
        BY <1>6, <1>7, <3>4, <4>1
      <4>2. CASE v # w
        BY <1>7, <3>3, <3>4, <4>2
      <4> QED
        BY <4>1, <4>2
    <3> QED
      BY <3>1, <3>2, <3>4
  <2>3. ASSUME NEW q \in Paths \ doubt
        PROVE  /\ (\A v \in Writer : ~(writer'[v].pc = "write" /\ writer'[v].path = q))
                     => file'[q] = last[q]
               /\ \A v \in Writer : \A other \in Task :
                    writer'[v] = other /\ other.pc = "write" /\ other.path = q =>
                      /\ other.doc = last[q]
                      /\ file'[q] = Torn
                      /\ \A u \in Writer : \A third \in Task :
                           writer'[u] = third /\ third.pc = "write" /\ third.path = q => u = v
    <3>1. CASE q = p
      BY <2>2, <3>1
    <3>2. CASE q # p
      BY <1>8, <2>1, <3>2 DEF FilesInv, OneWriter
    <3> QED
      BY <3>1, <3>2
  <2> QED
    BY <1>4, <2>3 DEF OneWriter
<1> QED
  BY <1>9, <1>11, <1>12, <1>13 DEF FilesInv

(* A writer that is killed leaves its file in doubt. *)
LEMMA KillKeepsFiles ==
    ASSUME FilesInv, NEW w \in Writer, Kill(w)
    PROVE  FilesInv'
<1>1. AtRest \in Task /\ AtRest.pc = "idle"
  BY DEF Task, AtRest
<1>2. /\ writer' = [writer EXCEPT ![w] = AtRest]
      /\ doubt' = doubt \cup {p \in Paths : w \in Writing(p)}
      /\ UNCHANGED <<file, rows, second, writes, got, last>>
  BY DEF Kill, Goto
<1>3. /\ writer' \in [Writer -> Task]
      /\ writer'[w] = AtRest
      /\ \A v \in Writer \ {w} : writer'[v] = writer[v]
  BY <1>1, <1>2, Moved DEF FilesInv
<1>4. FileTypeOK'
  BY <1>2, <1>3 DEF FilesInv, FileTypeOK
<1>5. \A v \in Writer : \A other \in Task :
         writer'[v] = other /\ other.pc \in {"open", "write", "row"} =>
            v # w /\ writer[v] = other
  BY <1>1, <1>3
<1>6. DocsBelong' /\ OpenedFirst'
  BY <1>2, <1>5 DEF FilesInv, DocsBelong, OpenedFirst
<1>7. ASSUME NEW p \in Paths \ doubt',
             \A v \in Writer : ~(writer'[v].pc = "write" /\ writer'[v].path = p)
      PROVE  file[p] = last[p]
  <2>1. p \notin doubt /\ ~(writer[w].pc = "write" /\ writer[w].path = p)
    BY <1>2 DEF Writing
  <2>2. \A v \in Writer : ~(writer[v].pc = "write" /\ writer[v].path = p)
    BY <1>3, <1>7, <2>1
  <2> QED
    BY <2>1, <2>2 DEF FilesInv, OneWriter
<1>8. OneWriter'
  BY <1>2, <1>5, <1>7 DEF FilesInv, OneWriter
<1> QED
  BY <1>4, <1>6, <1>8 DEF FilesInv

\* Every step keeps the files in order.
LEMMA FilesInvNext == FilesInv /\ [EvidenceNext]_evidenceVars => FilesInv'
<1> SUFFICES ASSUME FilesInv, [EvidenceNext]_evidenceVars PROVE FilesInv'
  OBVIOUS
<1>0. writes \in Nat /\ second \in 0..MaxSecond /\ MaxSecond \in Nat
  BY EvidenceAssumption DEF FilesInv, FileTypeOK
<1>1. ASSUME NEW w \in Writer, NEW b \in Blob, FindBlob(w, b)
      PROVE  FilesInv'
  <2> DEFINE d == [kind |-> "blob", of |-> b]
  <2>1. d \in Doc /\ BlobPath(b) \in Paths /\ Belongs(BlobPath(b), d, writes)
    BY PathFacts DEF Doc, Belongs
  <2>2. /\ writer[w] = AtRest /\ Goto(w, [pc |-> "open", path |-> BlobPath(b), doc |-> d])
        /\ writes' = writes /\ UNCHANGED <<file, rows, second, got, last, doubt>>
    BY <1>1 DEF FindBlob
  <2> HIDE DEF d
  <2> QED
    BY <2>1, <2>2, BeginKeepsFiles
<1>2. ASSUME NEW w \in Writer, NEW k \in Kind, BeginReport(w, k)
      PROVE  FilesInv'
  <2> DEFINE d == [kind |-> "report", of |-> k, n |-> writes]
             p == ReportPath(k, second)
  <2>1. d \in Doc /\ p \in Paths /\ Belongs(p, d, writes + 1)
    BY <1>0, PathFacts DEF Doc, Belongs
  <2>2. /\ writer[w] = AtRest /\ Goto(w, [pc |-> "open", path |-> p, doc |-> d])
        /\ writes' = writes + 1 /\ UNCHANGED <<file, rows, second, got, last, doubt>>
    BY <1>2 DEF BeginReport
  <2> HIDE DEF d, p
  <2> QED
    BY <2>1, <2>2, BeginKeepsFiles
<1>3. ASSUME NEW w \in Writer, NEW f \in Family \cup {Global}, BeginFit(w, f)
      PROVE  FilesInv'
  <2> DEFINE d == [kind |-> "fit", of |-> f, n |-> writes]
  <2>1. d \in Doc /\ FitPath(f) \in Paths /\ Belongs(FitPath(f), d, writes + 1)
    BY <1>0, PathFacts DEF Doc, Belongs
  <2>2. /\ writer[w] = AtRest /\ Goto(w, [pc |-> "open", path |-> FitPath(f), doc |-> d])
        /\ writes' = writes + 1 /\ UNCHANGED <<file, rows, second, got, last, doubt>>
    BY <1>3 DEF BeginFit
  <2> HIDE DEF d
  <2> QED
    BY <2>1, <2>2, BeginKeepsFiles
<1>4. CASE NextSecond
  <2>1. second' \in 0..MaxSecond
    BY <1>0, <1>4 DEF NextSecond
  <2>2. UNCHANGED <<file, writer, rows, writes, got, last, doubt>>
    BY <1>4 DEF NextSecond
  <2> QED
    BY <2>1, <2>2 DEF FilesInv, FileTypeOK, DocsBelong, OpenedFirst, OneWriter
<1>5. CASE UNCHANGED fileVars
  BY <1>5 DEF fileVars, FilesInv, FileTypeOK, DocsBelong, OpenedFirst, OneWriter
<1>6. CASE UNCHANGED evidenceVars
  BY <1>5, <1>6 DEF evidenceVars
<1>7. ASSUME NEW w \in Writer, FileStep(w) PROVE FilesInv'
  BY <1>1, <1>2, <1>3, <1>7, OpenKeepsFiles, WriteKeepsFiles, KillKeepsFiles,
     RestKeepsFiles DEF FileStep
<1>8. CASE ChainStep
  BY <1>5, <1>8 DEF ChainStep, StartChain, Record, Present
<1> QED
  BY <1>4, <1>6, <1>7, <1>8 DEF EvidenceNext

\* The empty store is in order.
LEMMA FilesInvInit == EvidenceInit => FilesInv
<1> SUFFICES ASSUME EvidenceInit PROVE FilesInv
  OBVIOUS
<1>1. FileTypeOK
  BY EvidenceAssumption DEF EvidenceInit, FileTypeOK, Task
<1>2. \A w \in Writer : writer[w].pc = "idle"
  BY DEF EvidenceInit, AtRest
<1>3. DocsBelong /\ OpenedFirst /\ OneWriter
  BY <1>2, DocFacts DEF EvidenceInit, DocsBelong, OpenedFirst, OneWriter
<1> QED
  BY <1>1, <1>3 DEF FilesInv

\* What the invariant says of the files.
LEMMA FilesInvHolds == FilesInv => FilesHold
<1> SUFFICES ASSUME FilesInv PROVE FilesHold
  OBVIOUS
<1>1. ASSUME NEW p \in Paths \ doubt, Writing(p) = {} PROVE file[p] = last[p]
  BY <1>1 DEF FilesInv, OneWriter, Writing
<1>2. ASSUME NEW b \in Blob, Whole(BlobPath(b)) PROVE file[BlobPath(b)].of = b
  BY <1>2, PathFacts DEF FilesInv, FileTypeOK, DocsBelong, Belongs, Whole
<1>3. ASSUME NEW r \in rows, Writing(r.path) = {}, r.path \notin doubt, file[r.path] # r.doc
      PROVE  last[r.path] # r.doc /\ last[r.path].of = r.doc.of
  <2>1. r.path \in Paths
    BY DEF FilesInv, FileTypeOK
  <2>2. file[r.path] = last[r.path]
    BY <1>1, <1>3, <2>1
  <2>3. last[r.path] \in Doc
    BY <2>1 DEF FilesInv, FileTypeOK, OpenedFirst
  <2> QED
    BY <1>3, <2>1, <2>2, <2>3 DEF FilesInv, DocsBelong, Belongs
<1>4. got # Default => got.kind = "fit" /\ got.n < writes
  BY DEF FilesInv, FileTypeOK, DocsBelong
<1> QED
  BY <1>1, <1>2, <1>3, <1>4 DEF FilesHold

-----------------------------------------------------------------------------
(* Evidence: the chains *)

(* The least-number principle, for sets. *)
LEMMA LeastOf ==
    ASSUME NEW D, D \subseteq Nat, D # {}
    PROVE  \E d \in D : \A k \in D : d <= k
<1>1. PICK d \in D : \A k \in D : <<k, d>> \notin OpToRel(<, Nat)
  BY WFMin, NatLessThanWellFounded, Zenon
<1>2. \A k \in D : ~(k < d)
  BY <1>1, Zenon DEF OpToRel
<1>3. \A k \in D : k \in Nat
  OBVIOUS
<1> QED
  BY <1>2, <1>3

(* Positions that go up by one are a stretch. *)
LEMMA StepByStep ==
    ASSUME NEW n \in Nat, NEW m \in Nat, NEW pos \in [1..n -> 1..m],
           \A i \in 1..n : i # 1 => pos[i] = pos[i - 1] + 1
    PROVE  \A i \in 1..n : pos[i] = pos[1] - 1 + i
<1> DEFINE D == {i \in 1..n : pos[i] # pos[1] - 1 + i}
<1> SUFFICES ASSUME D # {} PROVE FALSE
  OBVIOUS
<1>1. PICK d \in D : \A k \in D : d <= k
  <2>1. D \subseteq Nat
    OBVIOUS
  <2> HIDE DEF D
  <2> QED
    BY <2>1, LeastOf
<1>2. d \in 1..n /\ d # 1 /\ d - 1 \in 1..n /\ pos[d] # pos[1] - 1 + d
  OBVIOUS
<1>3. pos[d - 1] = pos[1] - 1 + (d - 1)
  BY <1>1, <1>2
<1>4. pos[1] \in Int /\ pos[d - 1] \in Int /\ pos[d] = pos[d - 1] + 1
  <2>1. 1 \in 1..n
    BY <1>2
  <2> QED
    BY <1>2, <2>1
<1>5. PICK a \in Int, b \in Int, c \in Int : a = pos[1] /\ b = pos[d - 1] /\ c = pos[d]
  BY <1>4
<1>6. d \in Int /\ c = b + 1 /\ b = a - 1 + (d - 1) /\ c # a - 1 + d
  BY <1>2, <1>3, <1>4, <1>5
<1> QED
  BY <1>6

(* Records as they are written: each binds its content and the hash before  *)
(* it, so that no two have the same hash.                                   *)
Linked(r) ==
    /\ \E n \in Nat : DOMAIN r = 1..n
    /\ r = [i \in DOMAIN r |-> r[i]]
    /\ \A i \in DOMAIN r :
         LET prev == IF i = 1 THEN Zero ELSE r[i - 1].this
         IN r[i] = [content |-> r[i].content, prev |-> prev,
                    this |-> Hash(r[i].content, prev)]
    /\ \A i, j \in DOMAIN r : r[i].this = r[j].this => i = j

ChainInv ==
    /\ chain.pc \in {"none", "record", "presented"}
    /\ chain.pc \in {"record", "presented"} => Linked(chain.records)
    /\ chain.pc = "presented" =>
         \E n \in 0..Len(chain.records) :
         \E picks \in [1..n -> DOMAIN chain.records], edited \in 0..n, content \in 1..2 :
            chain.shown = Presented(chain.records, picks, edited, content)

\* A hash is of one content and one predecessor, and none is the zero hash.
LEMMA HashFacts ==
    /\ \A c, p : Hash(c, p) # Zero
    /\ \A c, p, d, q : Hash(c, p) = Hash(d, q) => c = d /\ p = q
<1>1. ASSUME NEW c, NEW p PROVE Hash(c, p) # Zero
  <2>1. DOMAIN Hash(c, p) = {"content", "prev"} /\ DOMAIN Zero = {"content"}
    BY DEF Hash, Zero
  <2> QED
    BY <2>1
<1>2. ASSUME NEW c, NEW p, NEW d, NEW q, Hash(c, p) = Hash(d, q) PROVE c = d /\ p = q
  <2>1. Hash(c, p).content = c /\ Hash(c, p).prev = p
        /\ Hash(d, q).content = d /\ Hash(d, q).prev = q
    BY DEF Hash
  <2> QED
    BY <1>2, <2>1
<1> QED
  BY <1>1, <1>2

\* A chain is a sequence of its records.
LEMMA LinkedLen ==
    ASSUME NEW r, Linked(r)
    PROVE  Len(r) \in Nat /\ DOMAIN r = 1..Len(r) /\ r \in Seq({r[i] : i \in DOMAIN r})
<1>1. PICK n \in Nat : DOMAIN r = 1..n
  BY DEF Linked
<1>2. r \in [1..n -> {r[i] : i \in DOMAIN r}]
  BY <1>1 DEF Linked
<1>3. r \in Seq({r[i] : i \in DOMAIN r})
  BY <1>2, SeqDef
<1> QED
  BY <1>3, LenProperties

(* A new record has a hash no earlier record has: the hash before it would *)
(* have been repeated one earlier.                                         *)
LEMMA RecordKeepsLinked ==
    ASSUME NEW r, Linked(r), NEW content
    PROVE  Linked(Append(r, [content |-> content, prev |-> LastHash(r),
                             this |-> Hash(content, LastHash(r))]))
<1> DEFINE new == [content |-> content, prev |-> LastHash(r),
                   this |-> Hash(content, LastHash(r))]
           n == Len(r)
           s == Append(r, new)
<1>1. n \in Nat /\ DOMAIN r = 1..n /\ r \in Seq({r[i] : i \in DOMAIN r} \cup {new})
  <2>1. r \in [1..n -> {r[i] : i \in DOMAIN r} \cup {new}] /\ n \in Nat
    BY LinkedLen DEF Linked
  <2> QED
    BY <2>1, LinkedLen, SeqDef
<1>2. /\ DOMAIN s = 1..(n + 1)
      /\ \A i \in 1..n : s[i] = r[i]
      /\ s[n + 1] = new
      /\ s = [i \in DOMAIN s |-> s[i]]
  <2>1. s \in Seq({r[i] : i \in DOMAIN r} \cup {new}) /\ Len(s) = n + 1
    BY <1>1, AppendProperties
  <2>2. s = [i \in DOMAIN s |-> s[i]]
    BY <2>1, SeqDef
  <2> QED
    BY <1>1, <2>1, <2>2, AppendProperties, LenProperties
<1>3. LastHash(r) = IF n + 1 = 1 THEN Zero ELSE r[n].this
  <2>1. r = <<>> <=> n = 0
    BY <1>1, EmptySeq
  <2> QED
    BY <1>1, <2>1 DEF LastHash
<1>4. /\ new.this = Hash(content, LastHash(r)) /\ new.content = content
      /\ new.prev = LastHash(r)
  OBVIOUS
<1> HIDE DEF new, n, s
<1>5. \A i \in 1..(n + 1) : s[i] = [content |-> s[i].content,
         prev |-> IF i = 1 THEN Zero ELSE s[i - 1].this,
         this |-> Hash(s[i].content, IF i = 1 THEN Zero ELSE s[i - 1].this)]
  <2> SUFFICES ASSUME NEW i \in 1..(n + 1)
               PROVE  s[i] = [content |-> s[i].content,
                        prev |-> IF i = 1 THEN Zero ELSE s[i - 1].this,
                        this |-> Hash(s[i].content, IF i = 1 THEN Zero ELSE s[i - 1].this)]
    OBVIOUS
  <2>1. i # 1 => i - 1 \in 1..n /\ s[i - 1] = r[i - 1]
    BY <1>1, <1>2
  <2>2. CASE i \in 1..n
    BY <1>1, <1>2, <2>1, <2>2 DEF Linked
  <2>3. CASE i = n + 1
    <3>1. LastHash(r) = IF i = 1 THEN Zero ELSE s[i - 1].this
      BY <1>1, <1>3, <2>1, <2>3
    <3>2. s[i] = new
      BY <1>2, <2>3
    <3> QED
      BY <1>4, <3>1, <3>2 DEF new
  <2> QED
    BY <1>1, <2>2, <2>3
<1>6. \A i \in 1..n : r[i].this # new.this
  <2> SUFFICES ASSUME NEW i \in 1..n, r[i].this = new.this PROVE FALSE
    OBVIOUS
  <2>1. r[i].this = Hash(r[i].content, IF i = 1 THEN Zero ELSE r[i - 1].this)
    BY <1>1 DEF Linked
  <2>2. LastHash(r) = IF i = 1 THEN Zero ELSE r[i - 1].this
    BY <1>4, <2>1, HashFacts
  <2>3. n \in 1..n /\ LastHash(r) = r[n].this
    BY <1>1, <1>3
  <2>4. r[n].this # Zero
    <3>1. r[n] = [content |-> r[n].content, prev |-> IF n = 1 THEN Zero ELSE r[n - 1].this,
                  this |-> Hash(r[n].content, IF n = 1 THEN Zero ELSE r[n - 1].this)]
      BY <1>1, <2>3 DEF Linked
    <3> QED
      BY <3>1, HashFacts
  <2>5. i # 1 /\ i - 1 \in 1..n /\ r[i - 1].this = r[n].this
    BY <1>1, <2>2, <2>3, <2>4
  <2>6. i - 1 = n
    BY <1>1, <2>3, <2>5 DEF Linked
  <2> QED
    BY <1>1, <2>6
<1>7. \A i, j \in 1..(n + 1) : s[i].this = s[j].this => i = j
  <2>1. \A i \in 1..(n + 1) : i \in 1..n \/ i = n + 1
    BY <1>1
  <2> QED
    BY <1>1, <1>2, <1>6, <2>1 DEF Linked
<1>8. n + 1 \in Nat
  BY <1>1
<1>9. Linked(s)
  BY <1>2, <1>5, <1>7, <1>8 DEF Linked
<1> QED
  BY <1>9 DEF s, new

\* Every step keeps the chain linked and what is shown a selection of it.
LEMMA ChainInvNext == ChainInv /\ [EvidenceNext]_evidenceVars => ChainInv'
<1> SUFFICES ASSUME ChainInv, [EvidenceNext]_evidenceVars PROVE ChainInv'
  OBVIOUS
<1>1. CASE chain' = chain
  BY <1>1 DEF ChainInv
<1>2. CASE StartChain
  <2>1. chain'.pc = "record" /\ chain'.records = <<>>
    BY <1>2 DEF StartChain
  <2>2. DOMAIN <<>> = 1..0 /\ 0 \in Nat /\ 1..0 = {}
    OBVIOUS
  <2>3. Linked(<<>>)
    BY <2>2 DEF Linked
  <2> QED
    BY <2>1, <2>3 DEF ChainInv
<1>3. ASSUME NEW content \in 1..2, Record(content) PROVE ChainInv'
  <2>1. /\ chain.pc = "record" /\ chain'.pc = "record"
        /\ chain'.records = Append(chain.records,
             [content |-> content, prev |-> LastHash(chain.records),
              this |-> Hash(content, LastHash(chain.records))])
    BY <1>3 DEF Record
  <2> QED
    BY <2>1, RecordKeepsLinked DEF ChainInv
<1>4. CASE Present
  <2>1. chain.pc = "record"
    BY <1>4 DEF Present
  <2>2. PICK n \in 0..Len(chain.records) :
        \E picks \in [1..n -> DOMAIN chain.records], edited \in 0..n, content \in 1..2 :
          chain' = [pc |-> "presented", records |-> chain.records,
                    shown |-> Presented(chain.records, picks, edited, content)]
    BY <1>4, Zenon DEF Present
  <2>3. PICK picks \in [1..n -> DOMAIN chain.records], edited \in 0..n, content \in 1..2 :
          chain' = [pc |-> "presented", records |-> chain.records,
                    shown |-> Presented(chain.records, picks, edited, content)]
    BY <2>2, Zenon
  <2>4. /\ chain'.pc = "presented" /\ chain'.records = chain.records
        /\ chain'.shown = Presented(chain.records, picks, edited, content)
    BY <2>3
  <2> QED
    BY <2>1, <2>4 DEF ChainInv
<1>5. EvidenceNext => chain' = chain \/ ChainStep
  <2>1. ASSUME NEW w \in Writer, FileStep(w) PROVE chain' = chain
    BY <2>1 DEF FileStep, FindBlob, BeginReport, BeginFit, LoadFamily, LoadGlobal,
       OpenFile, Write, Row, RowFails, Kill
  <2>2. NextSecond => chain' = chain
    BY DEF NextSecond
  <2> QED
    BY <2>1, <2>2 DEF EvidenceNext
<1> QED
  BY <1>1, <1>2, <1>3, <1>4, <1>5 DEF ChainStep, evidenceVars

(* What is presented has the links and hashes of the records picked, and an *)
(* edit breaks the record it touches.                                       *)
ShownAs(r, n, picks, s) ==
    /\ DOMAIN s = 1..n
    /\ \A i \in 1..n : /\ s[i].prev = r[picks[i]].prev
                       /\ s[i].this = r[picks[i]].this
                       /\ Derived(s[i], s[i].prev) => s[i] = r[picks[i]]
\* A selection has the links of what it was picked from.
LEMMA PresentedFacts ==
    ASSUME NEW r, Linked(r), NEW n \in Nat, NEW picks \in [1..n -> DOMAIN r],
           NEW edited, NEW content, NEW s, s = Presented(r, picks, edited, content)
    PROVE  ShownAs(r, n, picks, s)
<1>1. DOMAIN s = 1..n
  BY DEF Presented
<1>2. ASSUME NEW i \in 1..n
      PROVE  /\ s[i].prev = r[picks[i]].prev
             /\ s[i].this = r[picks[i]].this
             /\ Derived(s[i], s[i].prev) => s[i] = r[picks[i]]
  <2>1. PICK j \in DOMAIN r : j = picks[i]
    OBVIOUS
  <2>2. PICK c, prev : r[j] = [content |-> c, prev |-> prev, this |-> Hash(c, prev)]
    BY DEF Linked
  <2>3. s[i] = r[j] \/ s[i] = [content |-> content, prev |-> prev, this |-> Hash(c, prev)]
    BY <2>1, <2>2 DEF Presented
  <2>4. Hash(content, prev) = Hash(c, prev) => content = c
    BY HashFacts
  <2> QED
    BY <2>1, <2>2, <2>3, <2>4 DEF Derived
<1> QED
  BY <1>1, <1>2 DEF ShownAs

\* What the link and the hash of a record are.
LEMMA LinkFacts ==
    ASSUME NEW r, Linked(r), NEW i \in DOMAIN r
    PROVE  /\ Derived(r[i], r[i].prev)
           /\ r[i].this # Zero
           /\ r[i].prev = IF i = 1 THEN Zero ELSE r[i - 1].this
<1>1. r[i] = [content |-> r[i].content, prev |-> IF i = 1 THEN Zero ELSE r[i - 1].this,
              this |-> Hash(r[i].content, IF i = 1 THEN Zero ELSE r[i - 1].this)]
  BY DEF Linked
<1> QED
  BY <1>1, HashFacts DEF Derived

(* Records that are linked in the order shown were recorded in that order, *)
(* with nothing between them.                                              *)
InStep(r, picks, n) ==
    \A i \in 1..n : i # 1 => r[picks[i]].prev = r[picks[i - 1]].this
\* A selection whose links fit is a stretch of the chain.
LEMMA LinkedPicks ==
    ASSUME NEW r, Linked(r), NEW n \in Nat, NEW picks \in [1..n -> DOMAIN r],
           InStep(r, picks, n)
    PROVE  \A i \in 1..n : picks[i] = picks[1] - 1 + i
<1>1. Len(r) \in Nat /\ DOMAIN r = 1..Len(r)
  BY LinkedLen
<1>2. ASSUME NEW i \in 1..n, i # 1 PROVE picks[i] = picks[i - 1] + 1
  <2>1. i - 1 \in 1..n
    BY <1>2
  <2>2. PICK a \in 1..Len(r), b \in 1..Len(r) : a = picks[i] /\ b = picks[i - 1]
    BY <1>1, <2>1
  <2>3. r[a].prev = r[b].this /\ r[b].this # Zero
    BY <1>1, <1>2, <2>2, LinkFacts DEF InStep
  <2>4. a # 1 /\ r[a - 1].this = r[b].this
    BY <1>1, <2>3, LinkFacts
  <2>5. a - 1 \in 1..Len(r)
    BY <1>1, <2>4
  <2>6. a - 1 = b
    BY <1>1, <2>4, <2>5 DEF Linked
  <2> QED
    BY <1>1, <2>2, <2>6
<1>3. picks \in [1..n -> 1..Len(r)]
  BY <1>1
<1> QED
  BY <1>1, <1>2, <1>3, StepByStep

\* So the verifiers tell a stretch of the chain from anything else.
LEMMA ChainInvTells == ChainInv => ChainsTell
<1> SUFFICES ASSUME ChainInv, chain.pc = "presented"
             PROVE  LET stretch(from) == \A i \in DOMAIN chain.shown :
                            /\ from + i <= Len(chain.records)
                            /\ chain.shown[i] = chain.records[from + i]
                    IN /\ CustodyVerifies(chain.shown) <=> stretch(0)
                       /\ ProvenanceVerifies(chain.shown) <=>
                            \E from \in 0..Len(chain.records) : stretch(from)
  BY DEF ChainsTell
<1>1. PICK r : r = chain.records /\ Linked(r)
  BY DEF ChainInv
<1>2. PICK s : s = chain.shown
  OBVIOUS
<1>3. PICK n \in 0..Len(r) :
        \E picks \in [1..n -> DOMAIN r], edited \in 0..n, content \in 1..2 :
           s = Presented(r, picks, edited, content)
  BY <1>1, <1>2, Zenon DEF ChainInv
<1>4. PICK picks \in [1..n -> DOMAIN r], edited \in 0..n, content \in 1..2 :
        s = Presented(r, picks, edited, content)
  BY <1>3, Zenon
<1>5. Len(r) \in Nat /\ DOMAIN r = 1..Len(r) /\ n \in Nat
  BY <1>1, <1>3, LinkedLen
<1>6. /\ DOMAIN s = 1..n
      /\ \A i \in 1..n : /\ s[i].prev = r[picks[i]].prev
                         /\ s[i].this = r[picks[i]].this
                         /\ Derived(s[i], s[i].prev) => s[i] = r[picks[i]]
  <2>1. ShownAs(r, n, picks, s)
    BY <1>1, <1>4, <1>5, PresentedFacts
  <2> QED
    BY <2>1 DEF ShownAs
<1> DEFINE stretch(from) == \A i \in 1..n : from + i <= Len(r) /\ s[i] = r[from + i]
<1>7. ASSUME \A i \in 1..n : i # 1 => s[i].prev = s[i - 1].this
      PROVE  \A i \in 1..n : picks[i] = picks[1] - 1 + i
  <2>1. \A i \in 1..n : i # 1 => i - 1 \in 1..n
    OBVIOUS
  <2>2. InStep(r, picks, n)
    BY <1>6, <1>7, <2>1 DEF InStep
  <2> QED
    <3>1. Linked(r) /\ n \in Nat /\ picks \in [1..n -> DOMAIN r]
      BY <1>1, <1>5
    <3> QED
      BY <2>2, <3>1, LinkedPicks
<1>8. ASSUME NEW from \in 0..Len(r), stretch(from), NEW i \in 1..n
      PROVE  /\ Derived(s[i], s[i].prev)
             /\ i # 1 => s[i].prev = s[i - 1].this
             /\ i = 1 /\ from = 0 => s[i].prev = Zero
  <2>1. from + i \in DOMAIN r /\ s[i] = r[from + i]
    BY <1>5, <1>8
  <2>2. i # 1 => /\ i - 1 \in 1..n /\ from + (i - 1) = (from + i) - 1
                 /\ from + i # 1 /\ s[i - 1] = r[from + (i - 1)]
    BY <1>5, <1>8
  <2>3. PICK k \in DOMAIN r : k = from + i
    BY <2>1
  <2>4. Derived(r[k], r[k].prev) /\ r[k].prev = IF k = 1 THEN Zero ELSE r[k - 1].this
    BY <1>1, LinkFacts
  <2> QED
    BY <2>1, <2>2, <2>3, <2>4
<1>9. CustodyVerifies(s) <=> stretch(0)
  <2>1. ASSUME CustodyVerifies(s) PROVE stretch(0)
    <3>1. \A i \in 1..n : /\ Derived(s[i], s[i].prev)
                          /\ i = 1 => s[i].prev = Zero
                          /\ i # 1 => s[i].prev = s[i - 1].this
      BY <1>6, <2>1 DEF CustodyVerifies
    <3>2. \A i \in 1..n : picks[i] = picks[1] - 1 + i
      BY <1>7, <3>1
    <3>3. 1 \in 1..n => picks[1] = 1
      <4>1. ASSUME 1 \in 1..n, picks[1] # 1 PROVE FALSE
        <5>1. PICK a \in DOMAIN r : a = picks[1]
          BY <4>1
        <5>2. r[a].prev = Zero /\ a # 1
          BY <1>6, <3>1, <4>1, <5>1
        <5>3. a - 1 \in DOMAIN r
          BY <1>5, <5>2
        <5>4. r[a - 1].this = Zero
          BY <1>1, <5>2, LinkFacts
        <5> QED
          BY <1>1, <5>3, <5>4, LinkFacts
      <4> QED
        BY <4>1
    <3>4. \A i \in 1..n : picks[i] = i
      BY <3>2, <3>3
    <3> QED
      BY <1>5, <1>6, <3>1, <3>4
  <2>2. ASSUME stretch(0) PROVE CustodyVerifies(s)
    <3>1. 0 \in 0..Len(r)
      BY <1>5
    <3>2. \A i \in 1..n : /\ Derived(s[i], s[i].prev)
                          /\ i = 1 => s[i].prev = Zero
                          /\ i # 1 => s[i].prev = s[i - 1].this
      BY <1>8, <2>2, <3>1
    <3> QED
      BY <1>6, <3>2 DEF CustodyVerifies
  <2> QED
    BY <2>1, <2>2
<1>10. ProvenanceVerifies(s) <=> \E from \in 0..Len(r) : stretch(from)
  <2>1. ASSUME ProvenanceVerifies(s) PROVE \E from \in 0..Len(r) : stretch(from)
    <3>1. \A i \in 1..n : /\ Derived(s[i], s[i].prev)
                          /\ i # 1 => s[i].prev = s[i - 1].this
      BY <1>6, <2>1 DEF ProvenanceVerifies
    <3>2. \A i \in 1..n : picks[i] = picks[1] - 1 + i
      BY <1>7, <3>1
    <3>3. CASE n = 0
      BY <1>5, <3>3
    <3>4. CASE n # 0
      <4>1. PICK a \in 1..Len(r) : a = picks[1]
        BY <1>5, <3>4
      <4>2. a - 1 \in 0..Len(r)
        BY <1>5
      <4>3. \A i \in 1..n : a - 1 + i \in 1..Len(r) /\ s[i] = r[a - 1 + i]
        BY <1>5, <1>6, <3>1, <3>2, <4>1
      <4>4. stretch(a - 1)
        BY <1>5, <4>3
      <4> QED
        BY <4>2, <4>4
    <3> QED
      BY <3>3, <3>4
  <2>2. ASSUME NEW from \in 0..Len(r), stretch(from) PROVE ProvenanceVerifies(s)
    <3>1. \A i \in 1..n : /\ Derived(s[i], s[i].prev)
                          /\ i # 1 => s[i].prev = s[i - 1].this
      BY <1>8, <2>2
    <3> QED
      BY <1>6, <3>1 DEF ProvenanceVerifies
  <2> QED
    BY <2>1, <2>2
<1> QED
  BY <1>1, <1>2, <1>6, <1>9, <1>10

(* Whoever writes, is killed or runs at the same time: a file nobody is at    *)
(* and whose last writer was alone and lived holds that writer's document, a  *)
(* committed report is in its file unless a later one of its kind took the    *)
(* name, a calibration is one somebody saved or the default; and the two      *)
(* verifiers accept exactly the unaltered beginnings and stretches of a chain.*)
THEOREM EvidenceIsWhole == EvidenceSpec => []FilesAreWhole
<1>1. EvidenceInit => ChainInv
  BY DEF EvidenceInit, ChainInv
<1>2. FilesInv /\ ChainInv => FilesAreWhole
  BY FilesInvHolds, ChainInvTells DEF FilesAreWhole
<1> QED
  BY <1>1, <1>2, FilesInvInit, FilesInvNext, ChainInvNext, PTL DEF EvidenceSpec

-----------------------------------------------------------------------------
(* Harvest: what is known of a run while it goes on *)

Keys == {hit.page : hit \in Hit} \cup {hit.url : hit \in Hit}
Asked == [at: Nat, call: Nat, hits: Seq(Hit), failed: BOOLEAN]
HitRow == [at: Nat, call: Nat, hit: Hit]
Summary == [queued: Nat, errors: Nat]
HarvestRun == [pc: {"ask", "take", "persist", "kept", "raised"}, plan: Plans, call: Nat,
        hits: Seq(Hit), known: SUBSET Keys, count: Nat, queued: Nat, errors: Nat,
        dead: BOOLEAN, log: Seq(Asked), rows: Seq(HitRow), told: Seq(Summary)]

(* The source whose turn it is, and whether it has an answer at hand. *)
TurnOf(h) == Len(h.told) + 1
Looking(h) == h.pc \in {"take", "persist"}
(* The rows of a source, and of one of its calls. *)
Of(h, i) == {n \in DOMAIN h.rows : h.rows[n].at = i}
OfCall(h, i, c) == {n \in DOMAIN h.rows : h.rows[n].at = i /\ h.rows[n].call = c}
KeysOf(h, i) == {Key(h.plan[i], h.rows[n].hit) : n \in Of(h, i)}
CallsOf(h, i) == {h.log[n].call : n \in {m \in DOMAIN h.log : h.log[m].at = i}}
Cut(h, i) ==
    \E n \in DOMAIN h.log :
        /\ h.log[n].at = i
        /\ \/ h.log[n].failed /\ h.plan[i] \notin SkipsFailures
           \/ \E k \in DOMAIN h.log[n].hits : h.log[n].hits[k].kind = "broken"

(* Sources take their turns, and each makes its calls in order. *)
Paced(h) ==
    /\ Len(h.told) <= Len(h.plan)
    /\ Looking(h) => /\ TurnOf(h) <= Len(h.plan)
                     /\ h.call \in 1..Calls[h.plan[TurnOf(h)]]
    /\ h.pc = "ask" /\ TurnOf(h) <= Len(h.plan) =>
          h.call \in 1..(Calls[h.plan[TurnOf(h)]] + 1)
    /\ h.pc = "kept" => Len(h.told) = Len(h.plan)
    /\ h.errors = 0

(* A row or an answer is of a source or a call that is over, or is current. *)
Past(h, at, asks) == at < TurnOf(h) \/ (at = TurnOf(h) /\ asks < h.call)
Current(h, at, asks) == Looking(h) /\ at = TurnOf(h) /\ asks = h.call
InOrder(h) ==
    /\ \A n \in DOMAIN h.rows :
         /\ h.rows[n].at \in DOMAIN h.plan
         /\ h.rows[n].hit.kind = "foreign"
         /\ Past(h, h.rows[n].at, h.rows[n].call) \/ Current(h, h.rows[n].at, h.rows[n].call)
    /\ \A n \in DOMAIN h.log :
         /\ h.log[n].at \in DOMAIN h.plan
         /\ \/ Past(h, h.log[n].at, h.log[n].call)
            \/ Current(h, h.log[n].at, h.log[n].call) /\ n = Len(h.log)

(* The summaries so far, and what the present one will say. *)
Told(h) ==
    /\ \A i \in DOMAIN h.told :
         /\ h.told[i].queued = Cardinality(Of(h, i))
         /\ h.told[i].errors \in {0, 1}
         /\ h.told[i].errors = 1 => Cut(h, i)
         /\ h.told[i].errors = 0 => CallsOf(h, i) = 1..Calls[h.plan[i]]
    /\ h.queued = Cardinality(Of(h, TurnOf(h)))
    /\ h.pc = "ask" => CallsOf(h, TurnOf(h)) = 1..(h.call - 1)
    /\ Looking(h) => CallsOf(h, TurnOf(h)) = 1..h.call

(* What a source remembers is what it stored, and the hit it is storing. *)
Remembered(h) ==
    /\ \A i \in DOMAIN h.plan : h.plan[i] \in Remembers =>
         \A m, n \in Of(h, i) :
            Key(h.plan[i], h.rows[m].hit) = Key(h.plan[i], h.rows[n].hit) => m = n
    /\ h.pc \in {"ask", "take"} /\ TurnOf(h) <= Len(h.plan) => h.known = KeysOf(h, TurnOf(h))
    /\ h.pc = "persist" =>
         /\ h.hits # <<>> /\ Head(h.hits).kind = "foreign"
         /\ h.known = KeysOf(h, TurnOf(h)) \cup {Key(h.plan[TurnOf(h)], Head(h.hits))}
         /\ h.plan[TurnOf(h)] \in Remembers =>
              Key(h.plan[TurnOf(h)], Head(h.hits)) \notin KeysOf(h, TurnOf(h))

(* The count is of the rows of the call, and of the hit that is being stored. *)
Shared(h) ==
    /\ \A i \in DOMAIN h.plan : h.plan[i] = "social_media" =>
         \A c \in Nat : Cardinality(OfCall(h, i, c)) <= MaxPerPlatform
    /\ h.pc = "take" => h.count = Cardinality(OfCall(h, TurnOf(h), h.call))
    /\ h.pc = "persist" => h.count = Cardinality(OfCall(h, TurnOf(h), h.call)) + 1
    /\ Looking(h) /\ h.plan[TurnOf(h)] = "social_media" => h.count <= MaxPerPlatform

(* A foreign hit is stored, or its key is. *)
Kept(h, i, c, hit) ==
    \/ \E m \in Of(h, i) : h.rows[m].hit = hit /\ h.rows[m].call = c
    \/ h.plan[i] \in Remembers /\ \E m \in Of(h, i) :
          Key(h.plan[i], h.rows[m].hit) = Key(h.plan[i], hit)
Full(h, i, c) ==
    h.plan[i] = "social_media" /\ Cardinality(OfCall(h, i, c)) = MaxPerPlatform
Behind(h, n, k) == \E j \in 1..(k - 1) : h.log[n].hits[j].kind = "broken"

(* An answer that is over is accounted for, hit by hit, and the one at hand as *)
(* far as it has been looked at.                                               *)
Seen(h) ==
    /\ \A n \in DOMAIN h.log : ~(Looking(h) /\ n = Len(h.log)) =>
         \A k \in DOMAIN h.log[n].hits : h.log[n].hits[k].kind = "foreign" =>
           \/ Kept(h, h.log[n].at, h.log[n].call, h.log[n].hits[k])
           \/ Full(h, h.log[n].at, h.log[n].call)
           \/ /\ h.log[n].at \in DOMAIN h.told
              /\ h.told[h.log[n].at].errors = 1 /\ Behind(h, n, k)
    /\ Looking(h) =>
         /\ h.log # <<>>
         /\ h.log[Len(h.log)].at = TurnOf(h) /\ h.log[Len(h.log)].call = h.call
         /\ \E d \in 0..Len(h.log[Len(h.log)].hits) :
              /\ Len(h.hits) = Len(h.log[Len(h.log)].hits) - d
              /\ \A k \in 1..Len(h.hits) : h.hits[k] = h.log[Len(h.log)].hits[d + k]
              /\ \A k \in 1..d : h.log[Len(h.log)].hits[k].kind = "foreign" =>
                   Kept(h, TurnOf(h), h.call, h.log[Len(h.log)].hits[k])

Clean(h) == Paced(h) /\ InOrder(h) /\ Told(h) /\ Remembered(h) /\ Shared(h) /\ Seen(h)
Sound(h) ==
    /\ h \in HarvestRun /\ (h.pc = "persist" => h.hits # <<>>)
    /\ (IF h.dead \/ h.pc = "raised" THEN h.pc # "kept" ELSE Clean(h))
HarvestInv == harvest = NoHarvest \/ Sound(harvest)

(* What the lists of a run are like. *)
LEMMA RunLists ==
    ASSUME NEW h \in HarvestRun
    PROVE  /\ Len(h.told) \in Nat /\ DOMAIN h.told = 1..Len(h.told)
           /\ Len(h.rows) \in Nat /\ DOMAIN h.rows = 1..Len(h.rows)
           /\ Len(h.log) \in Nat /\ DOMAIN h.log = 1..Len(h.log)
           /\ Len(h.hits) \in Nat /\ DOMAIN h.hits = 1..Len(h.hits)
           /\ h.plan \in Seq(DOMAIN Calls) /\ Len(h.plan) \in Nat
           /\ DOMAIN h.plan = 1..Len(h.plan)
           /\ \A n \in DOMAIN h.told : h.told[n] \in Summary
           /\ \A n \in DOMAIN h.rows : h.rows[n] \in HitRow
           /\ \A n \in DOMAIN h.log : h.log[n] \in Asked
           /\ \A n \in DOMAIN h.hits : h.hits[n] \in Hit
           /\ \A n \in DOMAIN h.plan : h.plan[n] \in DOMAIN Calls
                                       /\ Calls[h.plan[n]] \in Nat
<1>1. /\ h.told \in Seq(Summary) /\ h.rows \in Seq(HitRow) /\ h.log \in Seq(Asked)
      /\ h.hits \in Seq(Hit) /\ h.plan \in Plans
  BY DEF HarvestRun
<1>2. h.plan \in Seq(DOMAIN Calls)
  BY <1>1, HarvestAssumption
<1>3. \A S : \A q \in Seq(S) : /\ Len(q) \in Nat /\ DOMAIN q = 1..Len(q)
                               /\ \A n \in DOMAIN q : q[n] \in S
  BY LenProperties
<1>4. \A n \in DOMAIN h.plan : h.plan[n] \in DOMAIN Calls
  BY <1>2, <1>3, Zenon
<1> QED
  BY <1>1, <1>2, <1>3, <1>4, HarvestAssumption

\* Rows are finitely many, so they can be counted.
LEMMA FiniteRows ==
    ASSUME NEW h \in HarvestRun
    PROVE  /\ \A i : IsFiniteSet(Of(h, i)) /\ Cardinality(Of(h, i)) \in Nat
           /\ \A i, c : IsFiniteSet(OfCall(h, i, c)) /\ Cardinality(OfCall(h, i, c)) \in Nat
<1>1. IsFiniteSet(DOMAIN h.rows)
  <2>1. PICK n \in Nat : n = Len(h.rows) /\ DOMAIN h.rows = 1..n
    BY RunLists
  <2>2. 1 \in Int /\ n \in Int
    OBVIOUS
  <2>3. IsFiniteSet(1..n)
    BY <2>2, FS_Interval
  <2> QED
    BY <2>1, <2>3
<1>2. ASSUME NEW S \in SUBSET (DOMAIN h.rows)
      PROVE  IsFiniteSet(S) /\ Cardinality(S) \in Nat
  BY <1>1, FS_Subset, FS_CardinalityType
<1>3. \A i : Of(h, i) \in SUBSET (DOMAIN h.rows)
  BY DEF Of
<1>4. \A i, c : OfCall(h, i, c) \in SUBSET (DOMAIN h.rows)
  BY DEF OfCall
<1> QED
  BY <1>2, <1>3, <1>4

(* Whatever reads only the rows, or only the answers. *)
LEMMA SameRows ==
    ASSUME NEW h, NEW g, g.rows = h.rows, g.plan = h.plan
    PROVE  /\ \A i : Of(g, i) = Of(h, i) /\ KeysOf(g, i) = KeysOf(h, i)
           /\ \A i, c : OfCall(g, i, c) = OfCall(h, i, c) /\ (Full(g, i, c) <=> Full(h, i, c))
           /\ \A i, c, hit : Kept(g, i, c, hit) <=> Kept(h, i, c, hit)
BY DEF Of, KeysOf, OfCall, Full, Kept

\* Whatever reads only the answers.
LEMMA SameLog ==
    ASSUME NEW h, NEW g, g.log = h.log, g.plan = h.plan
    PROVE  /\ \A i : CallsOf(g, i) = CallsOf(h, i) /\ (Cut(g, i) <=> Cut(h, i))
           /\ \A n, k : Behind(g, n, k) <=> Behind(h, n, k)
BY DEF CallsOf, Cut, Behind

LogWith(h, g, e) ==
    /\ Len(g.log) = Len(h.log) + 1
    /\ \A n \in DOMAIN h.log : n \in DOMAIN g.log /\ g.log[n] = h.log[n]
    /\ g.log[Len(h.log) + 1] = e
    /\ \A n \in DOMAIN g.log : n \in DOMAIN h.log \/ n = Len(h.log) + 1
    /\ CallsOf(g, e.at) = CallsOf(h, e.at) \cup {e.call}
    /\ \A i : i # e.at => CallsOf(g, i) = CallsOf(h, i)
    /\ \A i : Cut(h, i) => Cut(g, i)
    /\ \A n \in DOMAIN h.log : \A k : Behind(g, n, k) <=> Behind(h, n, k)
\* One more answer.
LEMMA LogGrows ==
    ASSUME NEW h \in HarvestRun, NEW g, NEW e \in Asked,
           g.log = Append(h.log, e), g.plan = h.plan
    PROVE  LogWith(h, g, e)
<1>0. h.log \in Seq(Asked) /\ Len(h.log) \in Nat /\ DOMAIN h.log = 1..Len(h.log)
  BY RunLists DEF HarvestRun
<1>1. /\ g.log \in Seq(Asked) /\ Len(g.log) = Len(h.log) + 1
      /\ \A n \in 1..Len(h.log) : g.log[n] = h.log[n]
      /\ g.log[Len(h.log) + 1] = e
  BY <1>0, AppendProperties
<1>2. DOMAIN g.log = 1..(Len(h.log) + 1)
  BY <1>1, LenProperties
<1>3. \A n \in DOMAIN g.log : n \in DOMAIN h.log \/ n = Len(h.log) + 1
  BY <1>0, <1>2
<1>4. \A n \in DOMAIN h.log : n \in DOMAIN g.log /\ g.log[n] = h.log[n]
  BY <1>0, <1>1, <1>2
<1>5. Len(h.log) + 1 \in DOMAIN g.log
  BY <1>0, <1>2
<1>6. /\ CallsOf(g, e.at) = CallsOf(h, e.at) \cup {e.call}
      /\ \A i : i # e.at => CallsOf(g, i) = CallsOf(h, i)
  BY <1>1, <1>3, <1>4, <1>5, SMTT(30) DEF CallsOf
<1>7. \A i : Cut(h, i) => Cut(g, i)
  BY <1>4 DEF Cut
<1>8. \A n \in DOMAIN h.log : \A k : Behind(g, n, k) <=> Behind(h, n, k)
  BY <1>4 DEF Behind
<1> QED
  BY <1>1, <1>2, <1>3, <1>4, <1>6, <1>7, <1>8 DEF LogWith

RowsWith(h, g, e) ==
    /\ Len(h.rows) + 1 \notin DOMAIN h.rows
    /\ DOMAIN g.rows = DOMAIN h.rows \cup {Len(h.rows) + 1}
    /\ \A n \in DOMAIN h.rows : g.rows[n] = h.rows[n]
    /\ g.rows[Len(h.rows) + 1] = e
    /\ Of(g, e.at) = Of(h, e.at) \cup {Len(h.rows) + 1}
    /\ KeysOf(g, e.at) = KeysOf(h, e.at) \cup {Key(h.plan[e.at], e.hit)}
    /\ \A i : i # e.at => Of(g, i) = Of(h, i) /\ KeysOf(g, i) = KeysOf(h, i)
    /\ OfCall(g, e.at, e.call) = OfCall(h, e.at, e.call) \cup {Len(h.rows) + 1}
    /\ \A i, c : ~(i = e.at /\ c = e.call) => OfCall(g, i, c) = OfCall(h, i, c)
    /\ \A i, c, hit : Kept(h, i, c, hit) => Kept(g, i, c, hit)
\* One more row.
LEMMA RowsGrow ==
    ASSUME NEW h \in HarvestRun, NEW g, NEW e \in HitRow,
           g.rows = Append(h.rows, e), g.plan = h.plan
    PROVE  RowsWith(h, g, e)
<1>0. h.rows \in Seq(HitRow) /\ Len(h.rows) \in Nat /\ DOMAIN h.rows = 1..Len(h.rows)
  BY RunLists DEF HarvestRun
<1>1. /\ g.rows \in Seq(HitRow) /\ Len(g.rows) = Len(h.rows) + 1
      /\ \A n \in 1..Len(h.rows) : g.rows[n] = h.rows[n]
      /\ g.rows[Len(h.rows) + 1] = e
  BY <1>0, AppendProperties
<1>2. DOMAIN g.rows = 1..(Len(h.rows) + 1)
  BY <1>1, LenProperties
<1>3. DOMAIN g.rows = DOMAIN h.rows \cup {Len(h.rows) + 1} /\ Len(h.rows) + 1 \notin DOMAIN h.rows
  BY <1>0, <1>2
<1>4. \A n \in DOMAIN h.rows : g.rows[n] = h.rows[n]
  BY <1>0, <1>1
<1>5. /\ Of(g, e.at) = Of(h, e.at) \cup {Len(h.rows) + 1}
      /\ \A i : i # e.at => Of(g, i) = Of(h, i)
  BY <1>1, <1>3, <1>4 DEF Of
<1>6. ASSUME NEW i
      PROVE  /\ \A n \in Of(h, i) : g.rows[n] = h.rows[n]
             /\ \A x : x \in KeysOf(g, i) <=> \E n \in Of(g, i) : x = Key(h.plan[i], g.rows[n].hit)
             /\ \A x : x \in KeysOf(h, i) <=> \E n \in Of(h, i) : x = Key(h.plan[i], h.rows[n].hit)
  <2>1. \A n \in Of(h, i) : g.rows[n] = h.rows[n]
    BY <1>4 DEF Of
  <2> QED
    BY <2>1 DEF KeysOf
<1>61. KeysOf(g, e.at) = KeysOf(h, e.at) \cup {Key(h.plan[e.at], e.hit)}
  <2> DEFINE at == e.at
             newest == Len(h.rows) + 1
             key(hit) == Key(h.plan[at], hit)
  <2>1. /\ \A n \in Of(h, at) : g.rows[n] = h.rows[n]
        /\ \A x : x \in KeysOf(g, at) <=> \E n \in Of(g, at) : x = key(g.rows[n].hit)
        /\ \A x : x \in KeysOf(h, at) <=> \E n \in Of(h, at) : x = key(h.rows[n].hit)
    BY <1>6
  <2>2. g.rows[newest] = e /\ Of(g, at) = Of(h, at) \cup {newest}
    BY <1>1, <1>5
  <2> HIDE DEF at, newest, key
  <2>3. \A x : x \in KeysOf(g, at) <=> x \in (KeysOf(h, at) \cup {key(e.hit)})
    BY <2>1, <2>2
  <2>4. KeysOf(g, at) = KeysOf(h, at) \cup {key(e.hit)}
    <3> DEFINE A == KeysOf(g, at)
               B == KeysOf(h, at) \cup {key(e.hit)}
    <3>1. \A x : x \in A <=> x \in B
      BY <2>3
    <3> HIDE DEF A, B
    <3>2. A = B
      BY <3>1
    <3> QED
      BY <3>2, Zenon DEF A, B
  <2> QED
    BY <2>4 DEF at, key
<1>62. ASSUME NEW i, i # e.at PROVE KeysOf(g, i) = KeysOf(h, i)
  <2>1. Of(g, i) = Of(h, i)
    BY <1>5, <1>62
  <2> DEFINE key(hit) == Key(h.plan[i], hit)
             A == Of(h, i)
             B == Of(g, i)
  <2>2. /\ \A n \in A : g.rows[n] = h.rows[n]
        /\ \A x : x \in KeysOf(g, i) <=> \E n \in B : x = key(g.rows[n].hit)
        /\ \A x : x \in KeysOf(h, i) <=> \E n \in A : x = key(h.rows[n].hit)
    BY <1>6
  <2> HIDE DEF key, A, B
  <2>3. \A x : x \in KeysOf(g, i) <=> x \in KeysOf(h, i)
    <3>1. A = B
      BY <2>1 DEF A, B
    <3> QED
      BY <2>2, <3>1
  <2> QED
    BY <2>3, Zenon
<1>7. /\ OfCall(g, e.at, e.call) = OfCall(h, e.at, e.call) \cup {Len(h.rows) + 1}
      /\ \A i, c : ~(i = e.at /\ c = e.call) => OfCall(g, i, c) = OfCall(h, i, c)
  BY <1>1, <1>3, <1>4 DEF OfCall
<1>8. ASSUME NEW i, NEW c, NEW hit, Kept(h, i, c, hit) PROVE Kept(g, i, c, hit)
  <2>1. \A n \in Of(h, i) : n \in Of(g, i) /\ g.rows[n] = h.rows[n]
    BY <1>3, <1>4 DEF Of
  <2> QED
    BY <1>8, <2>1 DEF Kept
<1> QED
  BY <1>1, <1>3, <1>4, <1>5, <1>61, <1>62, <1>7, <1>8 DEF RowsWith

(* A query is answered. *)
LEMMA AskIsClean ==
    ASSUME NEW h \in HarvestRun, NEW g \in HarvestRun, Clean(h), h.pc = "ask",
           TurnOf(h) <= Len(h.plan), h.call <= Calls[h.plan[TurnOf(h)]],
           g.pc = "take", g.plan = h.plan, g.call = h.call, g.known = h.known,
           g.count = 0, g.queued = h.queued, g.errors = h.errors, g.rows = h.rows,
           g.told = h.told,
           g.log = Append(h.log, [at |-> TurnOf(h), call |-> h.call,
                                  hits |-> g.hits, failed |-> FALSE])
    PROVE  Clean(g)
<1>1. PICK t \in Nat, c \in Nat, p \in Nat, l \in Nat :
        /\ t = TurnOf(h) /\ c = h.call /\ p = Len(h.plan) /\ l = Len(h.log)
        /\ t = TurnOf(g) /\ t >= 1
  <2>1. TurnOf(h) \in Nat /\ TurnOf(h) = TurnOf(g) /\ TurnOf(h) >= 1
    BY RunLists DEF TurnOf
  <2> QED
    BY <2>1, RunLists DEF HarvestRun
<1>2. PICK m \in Nat : m = Calls[h.plan[t]]
  BY <1>1, RunLists
<1>3. c \in 1..m /\ t <= p
  BY <1>1, <1>2 DEF Clean, Paced
<1> DEFINE e == [at |-> t, call |-> c, hits |-> g.hits, failed |-> FALSE]
<1>4. e \in Asked
  BY DEF HarvestRun, Asked
<1>5. g.log = Append(h.log, e)
  BY <1>1
<1>6. e.at = t /\ e.call = c /\ e.hits = g.hits
  OBVIOUS
<1> HIDE DEF e
<1>7. /\ Len(g.log) = l + 1
      /\ \A n \in DOMAIN h.log : n \in 1..l /\ g.log[n] = h.log[n]
      /\ g.log[l + 1] = e
      /\ \A n \in DOMAIN g.log : n \in DOMAIN h.log \/ n = l + 1
      /\ CallsOf(g, t) = CallsOf(h, t) \cup {c}
      /\ \A i : i # t => CallsOf(g, i) = CallsOf(h, i)
      /\ \A i : Cut(h, i) => Cut(g, i)
      /\ \A n \in DOMAIN h.log : \A k : Behind(g, n, k) <=> Behind(h, n, k)
  <2>1. l = Len(h.log) /\ DOMAIN h.log = 1..Len(h.log) /\ g.plan = h.plan
    BY <1>1, RunLists
  <2>2. LogWith(h, g, e)
    BY <1>4, <1>5, LogGrows
  <2> QED
    BY <1>6, <2>1, <2>2 DEF LogWith
<1>8. ~Looking(h) /\ Looking(g)
  BY DEF Looking
<1>9. Paced(g)
  <2>1. c \in 1..(m + 1) /\ Len(g.told) <= p /\ g.errors = 0
    BY <1>1, <1>3 DEF Clean, Paced
  <2>2. Calls[g.plan[TurnOf(g)]] = m /\ Len(g.plan) = p /\ g.call = c /\ TurnOf(g) = t
    BY <1>1, <1>2
  <2> QED
    BY <1>3, <2>1, <2>2 DEF Paced
<1>10. InOrder(g)
  <2>1. \A a, b : Past(h, a, b) => Past(g, a, b)
    BY <1>1 DEF Past
  <2>2. \A a, b : ~Current(h, a, b)
    BY <1>8 DEF Current
  <2>3. Current(g, t, c)
    BY <1>1, <1>8 DEF Current
  <2>4. t \in DOMAIN h.plan
    BY <1>1, <1>3, RunLists
  <2> QED
    BY <1>1, <1>6, <1>7, <2>1, <2>2, <2>3, <2>4, SMTT(30) DEF Clean, InOrder
<1>11. Told(g)
  <2>1. \A i \in DOMAIN h.told : i # t
    BY <1>1, RunLists DEF TurnOf
  <2>2. CallsOf(g, t) = 1..c
    <3>1. CallsOf(h, t) = 1..(c - 1)
      BY <1>1 DEF Clean, Told
    <3>2. CallsOf(g, t) = CallsOf(h, t) \cup {c}
      BY <1>7
    <3> QED
      BY <1>3, <3>1, <3>2
  <2>3. ASSUME NEW i \in DOMAIN g.told
        PROVE  /\ g.told[i].queued = Cardinality(Of(g, i))
               /\ g.told[i].errors \in {0, 1}
               /\ g.told[i].errors = 1 => Cut(g, i)
               /\ g.told[i].errors = 0 => CallsOf(g, i) = 1..Calls[g.plan[i]]
    <3>1. CallsOf(g, i) = CallsOf(h, i)
      BY <1>7, <2>1
    <3>2. Of(g, i) = Of(h, i)
      BY SameRows
    <3> QED
      BY <1>7, <3>1, <3>2 DEF Clean, Told
  <2>4. g.queued = Cardinality(Of(g, t))
    BY <1>1, SameRows DEF Clean, Told
  <2> QED
    BY <1>1, <2>2, <2>3, <2>4 DEF Told
<1>12. Remembered(g)
  BY <1>1, SameRows DEF Clean, Remembered
<1>13. Shared(g)
  <2>1. OfCall(g, t, c) = {}
    BY <1>1, <1>8, SMTT(30) DEF Clean, InOrder, Past, Current, OfCall
  <2>2. Cardinality({}) = 0
    BY FS_EmptySet
  <2>3. MaxPerPlatform \in Nat
    BY HarvestAssumption, SMTT(30)
  <2> QED
    BY <1>1, <2>1, <2>2, <2>3, SameRows DEF Clean, Shared
<1>14. Seen(g)
  <2>1. \A n \in DOMAIN g.log : ~(Looking(g) /\ n = Len(g.log)) =>
         \A k \in DOMAIN g.log[n].hits : g.log[n].hits[k].kind = "foreign" =>
           \/ Kept(g, g.log[n].at, g.log[n].call, g.log[n].hits[k])
           \/ Full(g, g.log[n].at, g.log[n].call)
           \/ /\ g.log[n].at \in DOMAIN g.told
              /\ g.told[g.log[n].at].errors = 1 /\ Behind(g, n, k)
    <3> SUFFICES ASSUME NEW n \in DOMAIN h.log, NEW k \in DOMAIN h.log[n].hits,
                        h.log[n].hits[k].kind = "foreign"
                 PROVE  \/ Kept(g, h.log[n].at, h.log[n].call, h.log[n].hits[k])
                        \/ Full(g, h.log[n].at, h.log[n].call)
                        \/ /\ h.log[n].at \in DOMAIN g.told
                           /\ g.told[h.log[n].at].errors = 1 /\ Behind(g, n, k)
      BY <1>7, <1>8
    <3> QED
      BY <1>7, <1>8, SameRows DEF Clean, Seen
  <2>2. /\ g.log # <<>>
        /\ g.log[Len(g.log)].at = TurnOf(g) /\ g.log[Len(g.log)].call = g.call
        /\ g.log[Len(g.log)].hits = g.hits
    <3>1. g.log # <<>>
      <4>1. g.log \in Seq(Asked) /\ Len(g.log) # 0
        BY <1>7 DEF HarvestRun
      <4> QED
        BY <4>1, EmptySeq
    <3> QED
      BY <1>1, <1>6, <1>7, <3>1
  <2>3. \E d \in 0..Len(g.hits) :
              /\ Len(g.hits) = Len(g.hits) - d
              /\ \A k \in 1..Len(g.hits) : g.hits[k] = g.hits[d + k]
              /\ \A k \in 1..d : g.hits[k].kind = "foreign" =>
                   Kept(g, TurnOf(g), g.call, g.hits[k])
    <3>1. Len(g.hits) \in Nat
      BY RunLists
    <3>2. 0 \in 0..Len(g.hits)
      BY <3>1
    <3> QED
      BY <3>1, <3>2
  <2> QED
    BY <2>1, <2>2, <2>3, ZenonT(40) DEF Seen
<1> QED
  BY <1>9, <1>10, <1>11, <1>12, <1>13, <1>14 DEF Clean

(* A query fails, and the source goes on with the next. *)
LEMMA SkipIsClean ==
    ASSUME NEW h \in HarvestRun, NEW g \in HarvestRun, Clean(h), h.pc = "ask",
           TurnOf(h) <= Len(h.plan), h.call <= Calls[h.plan[TurnOf(h)]],
           g.pc = "ask", g.plan = h.plan, g.call = h.call + 1, g.known = h.known,
           g.queued = h.queued, g.errors = h.errors, g.rows = h.rows, g.told = h.told,
           g.log = Append(h.log, [at |-> TurnOf(h), call |-> h.call,
                                  hits |-> <<>>, failed |-> TRUE])
    PROVE  Clean(g)
<1>1. PICK t \in Nat, c \in Nat, p \in Nat, l \in Nat :
        /\ t = TurnOf(h) /\ c = h.call /\ p = Len(h.plan) /\ l = Len(h.log)
        /\ t = TurnOf(g) /\ t >= 1
  <2>1. TurnOf(h) \in Nat /\ TurnOf(h) = TurnOf(g) /\ TurnOf(h) >= 1
    BY RunLists DEF TurnOf
  <2> QED
    BY <2>1, RunLists DEF HarvestRun
<1>2. PICK m \in Nat : m = Calls[h.plan[t]]
  BY <1>1, RunLists
<1>3. c \in 1..m /\ t <= p
  BY <1>1, <1>2 DEF Clean, Paced
<1> DEFINE e == [at |-> t, call |-> c, hits |-> <<>>, failed |-> TRUE]
<1>4. e \in Asked
  BY DEF Asked
<1>5. g.log = Append(h.log, e)
  BY <1>1
<1>6. e.at = t /\ e.call = c /\ e.hits = <<>>
  OBVIOUS
<1> HIDE DEF e
<1>7. /\ Len(g.log) = l + 1
      /\ \A n \in DOMAIN h.log : n \in 1..l /\ g.log[n] = h.log[n]
      /\ g.log[l + 1] = e
      /\ \A n \in DOMAIN g.log : n \in DOMAIN h.log \/ n = l + 1
      /\ CallsOf(g, t) = CallsOf(h, t) \cup {c}
      /\ \A i : i # t => CallsOf(g, i) = CallsOf(h, i)
      /\ \A i : Cut(h, i) => Cut(g, i)
      /\ \A n \in DOMAIN h.log : \A k : Behind(g, n, k) <=> Behind(h, n, k)
  <2>1. l = Len(h.log) /\ DOMAIN h.log = 1..Len(h.log) /\ g.plan = h.plan
    BY <1>1, RunLists
  <2>2. LogWith(h, g, e)
    BY <1>4, <1>5, LogGrows
  <2> QED
    BY <1>6, <2>1, <2>2 DEF LogWith
<1>8. ~Looking(h) /\ ~Looking(g) /\ g.call = c + 1
  BY <1>1 DEF Looking
<1>9. Paced(g)
  <2>1. c + 1 \in 1..(m + 1) /\ Len(g.told) <= p /\ g.errors = 0
    BY <1>1, <1>3 DEF Clean, Paced
  <2>2. Calls[g.plan[TurnOf(g)]] = m /\ Len(g.plan) = p /\ TurnOf(g) = t
    BY <1>1, <1>2
  <2> QED
    BY <1>3, <1>8, <2>1, <2>2 DEF Paced
<1>10. InOrder(g)
  <2>1. ASSUME NEW a, NEW b \in Nat, Past(h, a, b) PROVE Past(g, a, b)
    BY <1>1, <1>8, <2>1 DEF Past
  <2>2. \A a, b : ~Current(h, a, b)
    BY <1>8 DEF Current
  <2>3. Past(g, t, c)
    BY <1>1, <1>8 DEF Past
  <2>4. t \in DOMAIN h.plan
    BY <1>1, <1>3, RunLists
  <2>5. /\ \A n \in DOMAIN h.rows : h.rows[n].call \in Nat
        /\ \A n \in DOMAIN h.log : h.log[n].call \in Nat
    BY RunLists DEF HitRow, Asked
  <2> QED
    BY <1>1, <1>6, <1>7, <2>1, <2>2, <2>3, <2>4, <2>5 DEF Clean, InOrder
<1>11. Told(g)
  <2>1. \A i \in DOMAIN h.told : i # t
    BY <1>1, RunLists DEF TurnOf
  <2>2. CallsOf(g, t) = 1..(g.call - 1)
    <3>1. CallsOf(h, t) = 1..(c - 1)
      BY <1>1 DEF Clean, Told
    <3>2. CallsOf(g, t) = CallsOf(h, t) \cup {c}
      BY <1>7
    <3> QED
      BY <1>3, <1>8, <3>1, <3>2
  <2>3. ASSUME NEW i \in DOMAIN g.told
        PROVE  /\ g.told[i].queued = Cardinality(Of(g, i))
               /\ g.told[i].errors \in {0, 1}
               /\ g.told[i].errors = 1 => Cut(g, i)
               /\ g.told[i].errors = 0 => CallsOf(g, i) = 1..Calls[g.plan[i]]
    <3>1. CallsOf(g, i) = CallsOf(h, i)
      BY <1>7, <2>1
    <3>2. Of(g, i) = Of(h, i)
      BY SameRows
    <3> QED
      BY <1>7, <3>1, <3>2 DEF Clean, Told
  <2>4. g.queued = Cardinality(Of(g, t))
    BY <1>1, SameRows DEF Clean, Told
  <2> QED
    BY <1>1, <1>8, <2>2, <2>3, <2>4 DEF Told
<1>12. Remembered(g)
  BY <1>1, SameRows DEF Clean, Remembered
<1>13. Shared(g)
  BY <1>8, SameRows DEF Clean, Shared
<1>14. Seen(g)
  <2> SUFFICES ASSUME NEW n \in DOMAIN g.log, NEW k \in DOMAIN g.log[n].hits,
                      g.log[n].hits[k].kind = "foreign"
               PROVE  \/ Kept(g, g.log[n].at, g.log[n].call, g.log[n].hits[k])
                      \/ Full(g, g.log[n].at, g.log[n].call)
                      \/ /\ g.log[n].at \in DOMAIN g.told
                         /\ g.told[g.log[n].at].errors = 1 /\ Behind(g, n, k)
    BY <1>8 DEF Seen
  <2>1. n \in DOMAIN h.log /\ g.log[n] = h.log[n]
    BY <1>6, <1>7
  <2>2. k \in DOMAIN h.log[n].hits /\ h.log[n].hits[k].kind = "foreign"
    BY <2>1
  <2>3. \/ Kept(h, h.log[n].at, h.log[n].call, h.log[n].hits[k])
        \/ Full(h, h.log[n].at, h.log[n].call)
        \/ /\ h.log[n].at \in DOMAIN h.told
           /\ h.told[h.log[n].at].errors = 1 /\ Behind(h, n, k)
    BY <1>8, <2>1, <2>2 DEF Clean, Seen
  <2>4. Behind(g, n, k) <=> Behind(h, n, k)
    BY <1>7, <2>1
  <2> QED
    BY <2>1, <2>3, <2>4, SameRows, SMTT(30)
<1> QED
  BY <1>9, <1>10, <1>11, <1>12, <1>13, <1>14 DEF Clean

(* A source at its end, which counts no error or one. *)
Closing(h, e) ==
    /\ Len(h.told) < Len(h.plan)
    /\ \A n \in DOMAIN h.rows :
         /\ h.rows[n].at \in DOMAIN h.plan
         /\ h.rows[n].hit.kind = "foreign"
         /\ h.rows[n].at <= TurnOf(h)
    /\ \A n \in DOMAIN h.log : h.log[n].at \in DOMAIN h.plan /\ h.log[n].at <= TurnOf(h)
    /\ \A i \in DOMAIN h.told :
         /\ h.told[i].queued = Cardinality(Of(h, i))
         /\ h.told[i].errors \in {0, 1}
         /\ h.told[i].errors = 1 => Cut(h, i)
         /\ h.told[i].errors = 0 => CallsOf(h, i) = 1..Calls[h.plan[i]]
    /\ h.queued = Cardinality(Of(h, TurnOf(h)))
    /\ e \in {0, 1}
    /\ e = 1 => Cut(h, TurnOf(h))
    /\ e = 0 => CallsOf(h, TurnOf(h)) = 1..Calls[h.plan[TurnOf(h)]]
    /\ \A i \in DOMAIN h.plan : h.plan[i] \in Remembers =>
         \A m, n \in Of(h, i) :
            Key(h.plan[i], h.rows[m].hit) = Key(h.plan[i], h.rows[n].hit) => m = n
    /\ \A i \in DOMAIN h.plan : h.plan[i] = "social_media" =>
         \A c \in Nat : Cardinality(OfCall(h, i, c)) <= MaxPerPlatform
    /\ \A n \in DOMAIN h.log :
         \A k \in DOMAIN h.log[n].hits : h.log[n].hits[k].kind = "foreign" =>
           \/ Kept(h, h.log[n].at, h.log[n].call, h.log[n].hits[k])
           \/ Full(h, h.log[n].at, h.log[n].call)
           \/ /\ h.log[n].at \in DOMAIN h.told
              /\ h.told[h.log[n].at].errors = 1 /\ Behind(h, n, k)
           \/ h.log[n].at = TurnOf(h) /\ e = 1 /\ Behind(h, n, k)

\* The next source starts afresh.
LEMMA EndIsClean ==
    ASSUME NEW h \in HarvestRun, NEW g \in HarvestRun, NEW e, Closing(h, e),
           g.pc = "ask", g.plan = h.plan, g.call = 1, g.known = {}, g.queued = 0,
           g.errors = 0, g.log = h.log, g.rows = h.rows,
           g.told = Append(h.told, [queued |-> h.queued, errors |-> e])
    PROVE  Clean(g)
<1>1. PICK t \in Nat, p \in Nat :
        /\ t = TurnOf(h) /\ p = Len(h.plan) /\ t = Len(h.told) + 1 /\ t >= 1
  <2>1. TurnOf(h) \in Nat /\ TurnOf(h) >= 1
    BY RunLists DEF TurnOf
  <2> QED
    BY <2>1, RunLists DEF TurnOf
<1>2. t <= p
  BY <1>1, RunLists DEF Closing
<1>3. /\ Len(g.told) = t
      /\ DOMAIN g.told = 1..t
      /\ DOMAIN h.told = 1..(t - 1)
      /\ \A i \in DOMAIN h.told : g.told[i] = h.told[i]
      /\ g.told[t] = [queued |-> h.queued, errors |-> e]
  <2>1. h.told \in Seq(Summary) /\ g.told \in Seq(Summary)
    BY DEF HarvestRun
  <2>2. [queued |-> h.queued, errors |-> e] \in Summary
    BY DEF Closing, Summary, HarvestRun
  <2>3. DOMAIN h.told = 1..(t - 1)
    BY <1>1, RunLists
  <2>4. /\ Len(g.told) = Len(h.told) + 1
        /\ \A i \in 1..Len(h.told) : g.told[i] = h.told[i]
        /\ g.told[Len(h.told) + 1] = [queued |-> h.queued, errors |-> e]
    BY <2>1, <2>2, AppendProperties
  <2>5. DOMAIN g.told = 1..Len(g.told)
    BY RunLists
  <2> QED
    BY <1>1, <2>3, <2>4, <2>5, RunLists
<1>4. TurnOf(g) = t + 1
  BY <1>3 DEF TurnOf
<1>5. ~Looking(g)
  BY DEF Looking
<1>6. /\ \A n \in DOMAIN h.rows : h.rows[n].at \in Nat /\ h.rows[n].at # t + 1
      /\ \A n \in DOMAIN h.log : h.log[n].at \in Nat /\ h.log[n].at # t + 1
  <2>1. /\ \A n \in DOMAIN h.rows : h.rows[n].at \in Nat
        /\ \A n \in DOMAIN h.log : h.log[n].at \in Nat
    BY RunLists DEF HitRow, Asked
  <2> QED
    BY <1>1, <2>1 DEF Closing
<1>7. /\ Of(g, t + 1) = {} /\ KeysOf(g, t + 1) = {} /\ CallsOf(g, t + 1) = {}
  <2>1. Of(h, t + 1) = {} /\ CallsOf(h, t + 1) = {}
    BY <1>6 DEF Of, CallsOf
  <2>2. Of(g, t + 1) = {} /\ CallsOf(g, t + 1) = {}
    BY <2>1, SameRows, SameLog
  <2> QED
    BY <2>2 DEF KeysOf
<1>8. Paced(g)
  <2>1. t + 1 <= p => 1 \in 1..(Calls[g.plan[t + 1]] + 1)
    <3> SUFFICES ASSUME t + 1 <= p PROVE 1 \in 1..(Calls[g.plan[t + 1]] + 1)
      OBVIOUS
    <3>1. t + 1 \in DOMAIN g.plan
      BY <1>1, RunLists
    <3>2. PICK m \in Nat : m = Calls[g.plan[t + 1]]
      BY <3>1, RunLists
    <3>3. 1 \in 1..(m + 1)
      OBVIOUS
    <3> QED
      BY <3>2, <3>3
  <2>2. Len(g.plan) = p
    BY <1>1
  <2> QED
    BY <1>2, <1>3, <1>4, <1>5, <2>1, <2>2 DEF Paced
<1>9. InOrder(g)
  <2>1. ASSUME NEW a \in Nat, NEW b, a <= t PROVE Past(g, a, b)
    BY <1>4, <2>1 DEF Past
  <2> QED
    BY <1>1, <1>6, <2>1 DEF Closing, InOrder
<1>10. Told(g)
  <2>1. ASSUME NEW i \in DOMAIN g.told
        PROVE  /\ g.told[i].queued = Cardinality(Of(g, i))
               /\ g.told[i].errors \in {0, 1}
               /\ g.told[i].errors = 1 => Cut(g, i)
               /\ g.told[i].errors = 0 => CallsOf(g, i) = 1..Calls[g.plan[i]]
    <3>1. Of(g, i) = Of(h, i) /\ CallsOf(g, i) = CallsOf(h, i) /\ (Cut(g, i) <=> Cut(h, i))
      BY SameRows, SameLog
    <3>2. CASE i = t
      BY <1>1, <1>3, <3>1, <3>2 DEF Closing
    <3>3. CASE i # t
      <4>1. i \in DOMAIN h.told
        BY <1>3, <3>3
      <4> QED
        BY <1>3, <3>1, <4>1 DEF Closing
    <3> QED
      BY <3>2, <3>3
  <2>2. g.queued = Cardinality(Of(g, t + 1))
    BY <1>7, FS_EmptySet
  <2>3. CallsOf(g, t + 1) = 1..(g.call - 1)
    BY <1>7
  <2> QED
    BY <1>4, <1>5, <2>1, <2>2, <2>3 DEF Told
<1>11. Remembered(g)
  <2>1. \A i \in DOMAIN g.plan : g.plan[i] \in Remembers =>
         \A m, n \in Of(g, i) :
            Key(g.plan[i], g.rows[m].hit) = Key(g.plan[i], g.rows[n].hit) => m = n
    BY SameRows DEF Closing
  <2> QED
    BY <1>4, <1>7, <2>1 DEF Remembered
<1>12. Shared(g)
  BY <1>5, SameRows DEF Closing, Shared
<1>13. Seen(g)
  <2> SUFFICES ASSUME NEW n \in DOMAIN g.log, NEW k \in DOMAIN g.log[n].hits,
                      g.log[n].hits[k].kind = "foreign"
               PROVE  \/ Kept(g, g.log[n].at, g.log[n].call, g.log[n].hits[k])
                      \/ Full(g, g.log[n].at, g.log[n].call)
                      \/ /\ g.log[n].at \in DOMAIN g.told
                         /\ g.told[g.log[n].at].errors = 1 /\ Behind(g, n, k)
    BY <1>5 DEF Seen
  <2>1. \/ Kept(h, h.log[n].at, h.log[n].call, h.log[n].hits[k])
        \/ Full(h, h.log[n].at, h.log[n].call)
        \/ /\ h.log[n].at \in DOMAIN h.told
           /\ h.told[h.log[n].at].errors = 1 /\ Behind(h, n, k)
        \/ h.log[n].at = t /\ e = 1 /\ Behind(h, n, k)
    BY <1>1 DEF Closing
  <2>2. t \in DOMAIN g.told /\ g.told[t].errors = e
    BY <1>1, <1>3
  <2>3. \A i \in DOMAIN h.told : i \in DOMAIN g.told
    BY <1>3
  <2>4. Behind(g, n, k) <=> Behind(h, n, k)
    BY SameLog, SMTT(30)
  <2> QED
    BY <1>3, <2>1, <2>2, <2>3, <2>4, SameRows
<1> QED
  BY <1>8, <1>9, <1>10, <1>11, <1>12, <1>13 DEF Clean

(* The last query has been asked. *)
LEMMA ExhaustedCloses ==
    ASSUME NEW h \in HarvestRun, Clean(h), h.pc = "ask",
           TurnOf(h) <= Len(h.plan), h.call > Calls[h.plan[TurnOf(h)]]
    PROVE  Closing(h, 0)
<1>1. PICK t \in Nat, p \in Nat, c \in Nat, m \in Nat :
        /\ t = TurnOf(h) /\ p = Len(h.plan) /\ c = h.call /\ m = Calls[h.plan[t]]
        /\ t = Len(h.told) + 1
  <2>1. TurnOf(h) \in Nat /\ TurnOf(h) >= 1 /\ TurnOf(h) = Len(h.told) + 1
    BY RunLists DEF TurnOf
  <2>2. TurnOf(h) \in DOMAIN h.plan
    BY <2>1, RunLists
  <2> QED
    BY <2>1, <2>2, RunLists DEF HarvestRun
<1>2. c = m + 1 /\ t <= p
  BY <1>1 DEF Clean, Paced
<1>3. ~Looking(h)
  BY DEF Looking
<1>4. CallsOf(h, t) = 1..m
  BY <1>1, <1>2 DEF Clean, Told
<1>5. \A a \in Nat : \A b : Past(h, a, b) \/ Current(h, a, b) => a <= t
  BY <1>1 DEF Past, Current
<1>6. /\ \A n \in DOMAIN h.rows : h.rows[n].at \in Nat
      /\ \A n \in DOMAIN h.log : h.log[n].at \in Nat
  BY RunLists DEF HitRow, Asked
<1>7. /\ \A n \in DOMAIN h.rows :
            /\ h.rows[n].at \in DOMAIN h.plan
            /\ h.rows[n].hit.kind = "foreign"
            /\ h.rows[n].at <= t
      /\ \A n \in DOMAIN h.log : h.log[n].at \in DOMAIN h.plan /\ h.log[n].at <= t
  BY <1>5, <1>6 DEF Clean, InOrder
<1>8. Len(h.told) < Len(h.plan)
  BY <1>1, <1>2, RunLists
<1>9. \A n \in DOMAIN h.log :
         \A k \in DOMAIN h.log[n].hits : h.log[n].hits[k].kind = "foreign" =>
           \/ Kept(h, h.log[n].at, h.log[n].call, h.log[n].hits[k])
           \/ Full(h, h.log[n].at, h.log[n].call)
           \/ /\ h.log[n].at \in DOMAIN h.told
              /\ h.told[h.log[n].at].errors = 1 /\ Behind(h, n, k)
  BY <1>3 DEF Clean, Seen
<1> QED
  BY <1>1, <1>4, <1>7, <1>8, <1>9 DEF Clean, Told, Remembered, Shared, Closing

(* A query failed, and its source does not skip failures. *)
LEMMA FailureCloses ==
    ASSUME NEW h \in HarvestRun, NEW g \in HarvestRun, Clean(h), h.pc = "ask",
           TurnOf(h) <= Len(h.plan), h.plan[TurnOf(h)] \notin SkipsFailures,
           g.plan = h.plan, g.queued = h.queued, g.rows = h.rows, g.told = h.told,
           g.log = Append(h.log, [at |-> TurnOf(h), call |-> h.call,
                                  hits |-> <<>>, failed |-> TRUE])
    PROVE  Closing(g, 1)
<1>1. PICK t \in Nat, c \in Nat, p \in Nat, l \in Nat :
        /\ t = TurnOf(h) /\ c = h.call /\ p = Len(h.plan) /\ l = Len(h.log)
        /\ t = TurnOf(g) /\ t = Len(h.told) + 1 /\ t <= p /\ t \in DOMAIN h.plan
  <2>1. /\ TurnOf(h) \in Nat /\ TurnOf(h) = TurnOf(g) /\ TurnOf(h) >= 1
        /\ TurnOf(h) = Len(h.told) + 1
    BY RunLists DEF TurnOf
  <2>2. TurnOf(h) \in DOMAIN h.plan
    BY <2>1, RunLists
  <2> QED
    BY <2>1, <2>2, RunLists DEF HarvestRun
<1> DEFINE e == [at |-> t, call |-> c, hits |-> <<>>, failed |-> TRUE]
<1>4. e \in Asked
  BY DEF Asked
<1>5. g.log = Append(h.log, e)
  BY <1>1
<1>6. e.at = t /\ e.call = c /\ e.hits = <<>> /\ e.failed = TRUE
  OBVIOUS
<1> HIDE DEF e
<1>7. /\ DOMAIN h.log \subseteq DOMAIN g.log
      /\ l + 1 \in DOMAIN g.log /\ g.log[l + 1] = e
      /\ \A n \in DOMAIN h.log : g.log[n] = h.log[n]
      /\ \A n \in DOMAIN g.log : n \in DOMAIN h.log \/ n = l + 1
      /\ \A i : i # t => CallsOf(g, i) = CallsOf(h, i)
      /\ \A i : Cut(h, i) => Cut(g, i)
      /\ \A n \in DOMAIN h.log : \A k : Behind(g, n, k) <=> Behind(h, n, k)
  <2>1. l = Len(h.log) /\ DOMAIN h.log = 1..Len(h.log) /\ g.plan = h.plan
    BY <1>1, RunLists
  <2>2. LogWith(h, g, e)
    BY <1>4, <1>5, LogGrows
  <2>3. DOMAIN g.log = 1..Len(g.log)
    BY RunLists
  <2> QED
    BY <1>6, <2>1, <2>2, <2>3 DEF LogWith
<1>8. ~Looking(h)
  BY DEF Looking
<1>9. \A a \in Nat : \A b : Past(h, a, b) \/ Current(h, a, b) => a <= t
  BY <1>1 DEF Past, Current
<1>10. /\ \A n \in DOMAIN h.rows : h.rows[n].at \in Nat
       /\ \A n \in DOMAIN h.log : h.log[n].at \in Nat
  BY RunLists DEF HitRow, Asked
<1>11. /\ \A n \in DOMAIN g.rows :
            /\ g.rows[n].at \in DOMAIN g.plan
            /\ g.rows[n].hit.kind = "foreign"
            /\ g.rows[n].at <= t
       /\ \A n \in DOMAIN g.log : g.log[n].at \in DOMAIN g.plan /\ g.log[n].at <= t
  <2>1. ASSUME NEW n \in DOMAIN g.log
        PROVE  g.log[n].at \in DOMAIN g.plan /\ g.log[n].at <= t
    <3>1. CASE n = l + 1
      BY <1>1, <1>6, <1>7, <3>1
    <3>2. CASE n \in DOMAIN h.log
      <4>1. h.log[n].at \in DOMAIN h.plan /\ h.log[n].at <= t
        BY <1>9, <1>10, <3>2 DEF Clean, InOrder
      <4> QED
        BY <1>7, <3>2, <4>1
    <3> QED
      BY <1>7, <3>1, <3>2
  <2>2. ASSUME NEW n \in DOMAIN g.rows
        PROVE  /\ g.rows[n].at \in DOMAIN g.plan
               /\ g.rows[n].hit.kind = "foreign"
               /\ g.rows[n].at <= t
    BY <1>9, <1>10 DEF Clean, InOrder
  <2> QED
    BY <2>1, <2>2
<1>12. ASSUME NEW i \in DOMAIN g.told
       PROVE  /\ g.told[i].queued = Cardinality(Of(g, i))
              /\ g.told[i].errors \in {0, 1}
              /\ g.told[i].errors = 1 => Cut(g, i)
              /\ g.told[i].errors = 0 => CallsOf(g, i) = 1..Calls[g.plan[i]]
  <2>1. i # t
    BY <1>1, RunLists
  <2>2. CallsOf(g, i) = CallsOf(h, i)
    BY <1>7, <2>1
  <2>3. Of(g, i) = Of(h, i)
    BY SameRows
  <2> QED
    BY <1>7, <2>2, <2>3 DEF Clean, Told
<1>13. Cut(g, t)
  BY <1>1, <1>6, <1>7 DEF Cut
<1>14. g.queued = Cardinality(Of(g, t))
  BY <1>1, SameRows DEF Clean, Told
<1>15. /\ \A i \in DOMAIN g.plan : g.plan[i] \in Remembers =>
            \A m, n \in Of(g, i) :
               Key(g.plan[i], g.rows[m].hit) = Key(g.plan[i], g.rows[n].hit) => m = n
       /\ \A i \in DOMAIN g.plan : g.plan[i] = "social_media" =>
            \A b \in Nat : Cardinality(OfCall(g, i, b)) <= MaxPerPlatform
  BY SameRows DEF Clean, Remembered, Shared
<1>16. ASSUME NEW n \in DOMAIN g.log, NEW k \in DOMAIN g.log[n].hits,
              g.log[n].hits[k].kind = "foreign"
       PROVE  \/ Kept(g, g.log[n].at, g.log[n].call, g.log[n].hits[k])
              \/ Full(g, g.log[n].at, g.log[n].call)
              \/ /\ g.log[n].at \in DOMAIN g.told
                 /\ g.told[g.log[n].at].errors = 1 /\ Behind(g, n, k)
  <2>1. n \in DOMAIN h.log /\ g.log[n] = h.log[n]
    BY <1>6, <1>7
  <2>2. k \in DOMAIN h.log[n].hits /\ h.log[n].hits[k].kind = "foreign"
    BY <1>16, <2>1
  <2>3. \/ Kept(h, h.log[n].at, h.log[n].call, h.log[n].hits[k])
        \/ Full(h, h.log[n].at, h.log[n].call)
        \/ /\ h.log[n].at \in DOMAIN h.told
           /\ h.told[h.log[n].at].errors = 1 /\ Behind(h, n, k)
    BY <1>8, <2>1, <2>2 DEF Clean, Seen
  <2>4. Behind(g, n, k) <=> Behind(h, n, k)
    BY <1>7, <2>1
  <2> QED
    BY <2>1, <2>3, <2>4, SameRows
<1>17. Len(g.told) < Len(g.plan)
  BY <1>1, RunLists
<1>18. \A n \in DOMAIN g.log :
         \A k \in DOMAIN g.log[n].hits : g.log[n].hits[k].kind = "foreign" =>
           \/ Kept(g, g.log[n].at, g.log[n].call, g.log[n].hits[k])
           \/ Full(g, g.log[n].at, g.log[n].call)
           \/ /\ g.log[n].at \in DOMAIN g.told
              /\ g.told[g.log[n].at].errors = 1 /\ Behind(g, n, k)
           \/ g.log[n].at = TurnOf(g) /\ 1 = 1 /\ Behind(g, n, k)
  BY <1>16
<1>19. \A i \in DOMAIN g.told :
              /\ g.told[i].queued = Cardinality(Of(g, i))
              /\ g.told[i].errors \in {0, 1}
              /\ g.told[i].errors = 1 => Cut(g, i)
              /\ g.told[i].errors = 0 => CallsOf(g, i) = 1..Calls[g.plan[i]]
  BY <1>12
<1>20. /\ \A n \in DOMAIN g.rows :
            /\ g.rows[n].at \in DOMAIN g.plan
            /\ g.rows[n].hit.kind = "foreign"
            /\ g.rows[n].at <= TurnOf(g)
       /\ \A n \in DOMAIN g.log : g.log[n].at \in DOMAIN g.plan /\ g.log[n].at <= TurnOf(g)
       /\ g.queued = Cardinality(Of(g, TurnOf(g)))
       /\ Cut(g, TurnOf(g))
  BY <1>1, <1>11, <1>13, <1>14
<1>21. 1 \in {0, 1} /\ (1 = 0 => CallsOf(g, TurnOf(g)) = 1..Calls[g.plan[TurnOf(g)]])
  OBVIOUS
<1> QED
  BY <1>15, <1>17, <1>18, <1>19, <1>20, <1>21, Zenon DEF Closing

(* What is at hand: the answer, and how much of it has been looked at. *)
AtHand(h, d) ==
    /\ h.log # <<>> /\ Len(h.log) \in DOMAIN h.log
    /\ h.log[Len(h.log)].at = TurnOf(h) /\ h.log[Len(h.log)].call = h.call
    /\ d \in 0..Len(h.log[Len(h.log)].hits)
    /\ Len(h.hits) = Len(h.log[Len(h.log)].hits) - d
    /\ \A k \in 1..Len(h.hits) : h.hits[k] = h.log[Len(h.log)].hits[d + k]
    /\ \A k \in 1..d : h.log[Len(h.log)].hits[k].kind = "foreign" =>
         Kept(h, TurnOf(h), h.call, h.log[Len(h.log)].hits[k])
    /\ \A n \in DOMAIN h.log : n # Len(h.log) =>
         \A k \in DOMAIN h.log[n].hits : h.log[n].hits[k].kind = "foreign" =>
           \/ Kept(h, h.log[n].at, h.log[n].call, h.log[n].hits[k])
           \/ Full(h, h.log[n].at, h.log[n].call)
           \/ /\ h.log[n].at \in DOMAIN h.told
              /\ h.told[h.log[n].at].errors = 1 /\ Behind(h, n, k)

\* While an answer is looked at, part of it has been.
LEMMA HasAtHand ==
    ASSUME NEW h \in HarvestRun, Seen(h), Looking(h)
    PROVE  \E d \in Nat : AtHand(h, d)
<1>1. PICK l \in Nat : l = Len(h.log) /\ DOMAIN h.log = 1..l
  BY RunLists
<1>2. /\ h.log # <<>>
      /\ h.log[l].at = TurnOf(h) /\ h.log[l].call = h.call
  BY <1>1 DEF Seen
<1>3. l \in DOMAIN h.log
  <2>1. l # 0
    BY <1>1, <1>2, EmptySeq DEF HarvestRun
  <2> QED
    BY <1>1, <2>1
<1>4. h.log[l].hits \in Seq(Hit)
  BY <1>3, RunLists DEF Asked
<1>5. PICK d \in 0..Len(h.log[l].hits) :
        /\ Len(h.hits) = Len(h.log[l].hits) - d
        /\ \A k \in 1..Len(h.hits) : h.hits[k] = h.log[l].hits[d + k]
        /\ \A k \in 1..d : h.log[l].hits[k].kind = "foreign" =>
              Kept(h, TurnOf(h), h.call, h.log[l].hits[k])
  BY <1>1 DEF Seen
<1>6. \A n \in DOMAIN h.log : n # l =>
         \A k \in DOMAIN h.log[n].hits : h.log[n].hits[k].kind = "foreign" =>
           \/ Kept(h, h.log[n].at, h.log[n].call, h.log[n].hits[k])
           \/ Full(h, h.log[n].at, h.log[n].call)
           \/ /\ h.log[n].at \in DOMAIN h.told
              /\ h.told[h.log[n].at].errors = 1 /\ Behind(h, n, k)
  BY <1>1 DEF Seen
<1>7. d \in Nat
  BY <1>4
<1> QED
  BY <1>1, <1>2, <1>3, <1>5, <1>6, <1>7 DEF AtHand

\* And that is all that has to be known of it.
LEMMA AtHandIsSeen ==
    ASSUME NEW h \in HarvestRun, NEW d, AtHand(h, d), Looking(h)
    PROVE  Seen(h)
<1>1. \A n \in DOMAIN h.log : ~(Looking(h) /\ n = Len(h.log)) =>
         \A k \in DOMAIN h.log[n].hits : h.log[n].hits[k].kind = "foreign" =>
           \/ Kept(h, h.log[n].at, h.log[n].call, h.log[n].hits[k])
           \/ Full(h, h.log[n].at, h.log[n].call)
           \/ /\ h.log[n].at \in DOMAIN h.told
              /\ h.told[h.log[n].at].errors = 1 /\ Behind(h, n, k)
  BY DEF AtHand
<1>2. \E x \in 0..Len(h.log[Len(h.log)].hits) :
        /\ Len(h.hits) = Len(h.log[Len(h.log)].hits) - x
        /\ \A k \in 1..Len(h.hits) : h.hits[k] = h.log[Len(h.log)].hits[x + k]
        /\ \A k \in 1..x : h.log[Len(h.log)].hits[k].kind = "foreign" =>
              Kept(h, TurnOf(h), h.call, h.log[Len(h.log)].hits[k])
  BY Zenon DEF AtHand
<1> QED
  BY <1>1, <1>2 DEF AtHand, Seen

(* The next hit is the one after those looked at. *)
LEMMA HitAtHand ==
    ASSUME NEW h \in HarvestRun, NEW d \in Nat, AtHand(h, d), h.hits # <<>>
    PROVE  \E n \in Nat, l \in Nat :
             /\ l = Len(h.log) /\ l \in DOMAIN h.log
             /\ n = Len(h.log[l].hits) /\ DOMAIN h.log[l].hits = 1..n
             /\ d + 1 <= n /\ Len(h.hits) = n - d
             /\ Head(h.hits) \in Hit
             /\ h.log[l].hits[d + 1] = Head(h.hits)
             /\ Len(Tail(h.hits)) = n - (d + 1)
             /\ \A k \in 1..(n - (d + 1)) : Tail(h.hits)[k] = h.log[l].hits[d + 1 + k]
<1>1. PICK l \in Nat : l = Len(h.log) /\ l \in DOMAIN h.log
  BY RunLists DEF AtHand
<1>2. h.log[l].hits \in Seq(Hit)
  BY <1>1, RunLists DEF Asked
<1>3. PICK n \in Nat : n = Len(h.log[l].hits) /\ DOMAIN h.log[l].hits = 1..n
  BY <1>2, LenProperties
<1>4. Len(h.hits) = n - d /\ \A k \in 1..(n - d) : h.hits[k] = h.log[l].hits[d + k]
  BY <1>1, <1>3 DEF AtHand
<1>5. h.hits \in Seq(Hit) /\ Len(h.hits) \in Nat /\ Len(h.hits) # 0
  BY EmptySeq, LenProperties DEF HarvestRun
<1>6. d + 1 <= n
  BY <1>4, <1>5
<1>7. /\ Head(h.hits) = h.hits[1] /\ Head(h.hits) \in Hit
      /\ Len(Tail(h.hits)) = Len(h.hits) - 1
      /\ \A k \in 1..(Len(h.hits) - 1) : Tail(h.hits)[k] = h.hits[k + 1]
  BY <1>5, HeadTailProperties, SMTT(20)
<1>8. \A k \in 1..(n - (d + 1)) : Tail(h.hits)[k] = h.log[l].hits[d + 1 + k]
  <2> SUFFICES ASSUME NEW k \in 1..(n - (d + 1))
               PROVE  Tail(h.hits)[k] = h.log[l].hits[d + 1 + k]
    OBVIOUS
  <2>1. k \in 1..(Len(h.hits) - 1) /\ k + 1 \in 1..(n - d) /\ d + (k + 1) = d + 1 + k
    BY <1>4, <1>6
  <2>2. Tail(h.hits)[k] = h.hits[k + 1]
    BY <1>7, <2>1
  <2>3. h.hits[k + 1] = h.log[l].hits[d + (k + 1)]
    BY <1>4, <2>1
  <2> QED
    BY <2>1, <2>2, <2>3
<1>9. h.log[l].hits[d + 1] = Head(h.hits)
  <2>1. 1 \in 1..(n - d)
    BY <1>6
  <2>2. h.hits[1] = h.log[l].hits[d + 1]
    BY <1>4, <2>1
  <2> QED
    BY <1>7, <2>2
<1>10. Len(Tail(h.hits)) = n - (d + 1)
  BY <1>4, <1>7, SMTT(30)
<1> QED
  BY <1>1, <1>3, <1>4, <1>6, <1>7, <1>8, <1>9, <1>10

(* What was accounted for stays so. *)
Keeps(h, g) ==
    /\ \A i, c, hit : Kept(h, i, c, hit) => Kept(g, i, c, hit)
    /\ \A n \in DOMAIN h.log : n # Len(h.log) /\ Full(h, h.log[n].at, h.log[n].call) =>
         Full(g, h.log[n].at, h.log[n].call)

\* The next hit is accounted for, and the rest is at hand.
LEMMA NextAtHand ==
    ASSUME NEW h \in HarvestRun, NEW g \in HarvestRun, NEW d \in Nat, AtHand(h, d), h.hits # <<>>,
           g.hits = Tail(h.hits), g.log = h.log, g.told = h.told, g.plan = h.plan,
           g.call = h.call, Keeps(h, g),
           Head(h.hits).kind = "foreign" => Kept(g, TurnOf(h), h.call, Head(h.hits))
    PROVE  AtHand(g, d + 1)
<1>1. PICK n \in Nat, l \in Nat :
             /\ l = Len(h.log) /\ l \in DOMAIN h.log
             /\ n = Len(h.log[l].hits) /\ DOMAIN h.log[l].hits = 1..n
             /\ d + 1 <= n /\ Len(h.hits) = n - d
             /\ h.log[l].hits[d + 1] = Head(h.hits)
             /\ Len(Tail(h.hits)) = n - (d + 1)
             /\ \A k \in 1..(n - (d + 1)) : Tail(h.hits)[k] = h.log[l].hits[d + 1 + k]
  BY HitAtHand
<1>2. TurnOf(g) = TurnOf(h)
  BY DEF TurnOf
<1>3. /\ g.log # <<>> /\ l \in DOMAIN g.log
      /\ g.log[l].at = TurnOf(g) /\ g.log[l].call = g.call
  BY <1>1, <1>2 DEF AtHand
<1>4. d + 1 \in 0..n
  BY <1>1
<1>5. /\ Len(g.hits) = n - (d + 1)
      /\ \A k \in 1..Len(g.hits) : g.hits[k] = g.log[l].hits[d + 1 + k]
  BY <1>1
<1>6. ASSUME NEW k \in 1..(d + 1), g.log[l].hits[k].kind = "foreign"
      PROVE  Kept(g, TurnOf(g), g.call, g.log[l].hits[k])
  <2>1. CASE k = d + 1
    BY <1>1, <1>2, <1>6, <2>1
  <2>2. CASE k # d + 1
    <3>1. k \in 1..d
      BY <2>2
    <3>2. Kept(h, TurnOf(h), h.call, h.log[l].hits[k])
      BY <1>1, <1>6, <3>1 DEF AtHand
    <3> QED
      BY <1>2, <3>2 DEF Keeps
  <2> QED
    BY <2>1, <2>2
<1>7. ASSUME NEW m \in DOMAIN g.log, m # l,
             NEW k \in DOMAIN g.log[m].hits, g.log[m].hits[k].kind = "foreign"
      PROVE  \/ Kept(g, g.log[m].at, g.log[m].call, g.log[m].hits[k])
             \/ Full(g, g.log[m].at, g.log[m].call)
             \/ /\ g.log[m].at \in DOMAIN g.told
                /\ g.told[g.log[m].at].errors = 1 /\ Behind(g, m, k)
  <2>1. \/ Kept(h, h.log[m].at, h.log[m].call, h.log[m].hits[k])
        \/ Full(h, h.log[m].at, h.log[m].call)
        \/ /\ h.log[m].at \in DOMAIN h.told
           /\ h.told[h.log[m].at].errors = 1 /\ Behind(h, m, k)
    BY <1>1, <1>7 DEF AtHand
  <2>2. Behind(g, m, k) <=> Behind(h, m, k)
    BY SameLog
  <2>3. Full(h, h.log[m].at, h.log[m].call) => Full(g, h.log[m].at, h.log[m].call)
    BY <1>1, <1>7 DEF Keeps
  <2> QED
    BY <2>1, <2>2, <2>3 DEF Keeps
<1>8. g.log = h.log /\ l = Len(g.log) /\ n = Len(g.log[l].hits)
  BY <1>1
<1> QED
  BY <1>3, <1>4, <1>5, <1>6, <1>7, <1>8 DEF AtHand

(* A malformed hit ends its source. *)
LEMMA BrokenCloses ==
    ASSUME NEW h \in HarvestRun, Clean(h), h.pc = "take", h.hits # <<>>,
           Head(h.hits).kind = "broken"
    PROVE  Closing(h, 1)
<1>1. PICK t \in Nat, p \in Nat, c \in Nat :
        /\ t = TurnOf(h) /\ p = Len(h.plan) /\ c = h.call /\ t = Len(h.told) + 1
  <2>1. TurnOf(h) \in Nat /\ TurnOf(h) = Len(h.told) + 1
    BY RunLists DEF TurnOf
  <2> QED
    BY <2>1, RunLists DEF HarvestRun
<1>2. Looking(h) /\ t <= p
  BY <1>1 DEF Looking, Clean, Paced
<1>3. PICK d \in Nat : AtHand(h, d)
  BY <1>2, HasAtHand DEF Clean
<1>4. PICK n \in Nat, l \in Nat :
             /\ l = Len(h.log) /\ l \in DOMAIN h.log
             /\ n = Len(h.log[l].hits) /\ DOMAIN h.log[l].hits = 1..n
             /\ d + 1 <= n
             /\ h.log[l].hits[d + 1] = Head(h.hits)
  BY <1>3, HitAtHand
<1>5. h.log[l].at = t /\ h.log[l].call = c
  BY <1>1, <1>3, <1>4 DEF AtHand
<1>6. d + 1 \in DOMAIN h.log[l].hits /\ h.log[l].hits[d + 1].kind = "broken"
  BY <1>4
<1>7. Cut(h, t)
  BY <1>4, <1>5, <1>6 DEF Cut
<1>8. \A a \in Nat : \A b : Past(h, a, b) \/ Current(h, a, b) => a <= t
  BY <1>1 DEF Past, Current
<1>9. /\ \A i \in DOMAIN h.rows : h.rows[i].at \in Nat
      /\ \A i \in DOMAIN h.log : h.log[i].at \in Nat
  BY RunLists DEF HitRow, Asked
<1>10. /\ \A i \in DOMAIN h.rows :
            /\ h.rows[i].at \in DOMAIN h.plan
            /\ h.rows[i].hit.kind = "foreign"
            /\ h.rows[i].at <= TurnOf(h)
       /\ \A i \in DOMAIN h.log : h.log[i].at \in DOMAIN h.plan /\ h.log[i].at <= TurnOf(h)
  BY <1>1, <1>8, <1>9 DEF Clean, InOrder
<1>11. Len(h.told) < Len(h.plan)
  BY <1>1, <1>2, RunLists
<1>12. ASSUME NEW i \in DOMAIN h.log, NEW k \in DOMAIN h.log[i].hits,
              h.log[i].hits[k].kind = "foreign"
       PROVE  \/ Kept(h, h.log[i].at, h.log[i].call, h.log[i].hits[k])
              \/ Full(h, h.log[i].at, h.log[i].call)
              \/ /\ h.log[i].at \in DOMAIN h.told
                 /\ h.told[h.log[i].at].errors = 1 /\ Behind(h, i, k)
              \/ h.log[i].at = TurnOf(h) /\ 1 = 1 /\ Behind(h, i, k)
  <2>1. CASE i # l
    BY <1>3, <1>4, <1>12, <2>1 DEF AtHand
  <2>2. CASE i = l
    <3>1. k \in 1..n /\ k # d + 1
      BY <1>4, <1>6, <1>12, <2>2
    <3>2. CASE k < d + 1
      <4>1. k \in 1..d
        BY <3>1, <3>2
      <4> QED
        BY <1>1, <1>3, <1>4, <1>5, <1>12, <2>2, <4>1 DEF AtHand
    <3>3. CASE k > d + 1
      <4>1. d + 1 \in 1..(k - 1)
        BY <3>1, <3>3
      <4> QED
        BY <1>1, <1>5, <1>6, <2>2, <4>1 DEF Behind
    <3> QED
      BY <3>1, <3>2, <3>3
  <2> QED
    BY <2>1, <2>2
<1>13. 1 \in {0, 1} /\ (1 = 0 => CallsOf(h, TurnOf(h)) = 1..Calls[h.plan[TurnOf(h)]])
  OBVIOUS
<1>14. Cut(h, TurnOf(h))
  BY <1>1, <1>7
<1> QED
  BY <1>10, <1>11, <1>12, <1>13, <1>14, Zenon DEF Clean, Told, Remembered, Shared, Closing

(* The rest of an answer is left, because there is none or the share is used up. *)
LEMMA LeaveIsClean ==
    ASSUME NEW h \in HarvestRun, NEW g \in HarvestRun, Clean(h), h.pc = "take",
           \/ h.hits = <<>>
           \/ h.plan[TurnOf(h)] = "social_media" /\ h.count >= MaxPerPlatform,
           g.pc = "ask", g.plan = h.plan, g.call = h.call + 1, g.known = h.known,
           g.queued = h.queued, g.errors = h.errors, g.rows = h.rows, g.told = h.told,
           g.log = h.log
    PROVE  Clean(g)
<1>1. PICK t \in Nat, c \in Nat, p \in Nat :
        /\ t = TurnOf(h) /\ c = h.call /\ p = Len(h.plan)
        /\ t = TurnOf(g) /\ t = Len(h.told) + 1 /\ t >= 1
  <2>1. /\ TurnOf(h) \in Nat /\ TurnOf(h) = TurnOf(g) /\ TurnOf(h) >= 1
        /\ TurnOf(h) = Len(h.told) + 1
    BY RunLists DEF TurnOf
  <2> QED
    BY <2>1, RunLists DEF HarvestRun
<1>2. Looking(h) /\ t <= p
  BY <1>1 DEF Looking, Clean, Paced
<1>3. PICK m \in Nat : m = Calls[h.plan[t]] /\ t \in DOMAIN h.plan
  BY <1>1, <1>2, RunLists
<1>4. c \in 1..m
  BY <1>1, <1>2, <1>3 DEF Clean, Paced
<1>5. PICK d \in Nat : AtHand(h, d)
  BY <1>2, HasAtHand DEF Clean
<1>6. ~Looking(g) /\ g.call = c + 1
  BY <1>1 DEF Looking
<1>7. Paced(g)
  <2>1. c + 1 \in 1..(m + 1) /\ Len(g.told) <= p /\ g.errors = 0
    BY <1>1, <1>4 DEF Clean, Paced
  <2>2. Calls[g.plan[TurnOf(g)]] = m /\ Len(g.plan) = p /\ TurnOf(g) = t
    BY <1>1, <1>3
  <2> QED
    BY <1>2, <1>6, <2>1, <2>2 DEF Paced
<1>8. InOrder(g)
  <2>1. ASSUME NEW a, NEW b \in Nat, Past(h, a, b) \/ Current(h, a, b) PROVE Past(g, a, b)
    BY <1>1, <1>6, <2>1 DEF Past, Current
  <2>2. /\ \A n \in DOMAIN h.rows : h.rows[n].call \in Nat
        /\ \A n \in DOMAIN h.log : h.log[n].call \in Nat
    BY RunLists DEF HitRow, Asked
  <2> QED
    BY <2>1, <2>2 DEF Clean, InOrder
<1>9. Told(g)
  <2>1. CallsOf(g, t) = 1..(g.call - 1)
    <3>1. CallsOf(h, t) = 1..c
      BY <1>1, <1>2 DEF Clean, Told
    <3>2. CallsOf(g, t) = CallsOf(h, t)
      BY SameLog
    <3>3. g.call - 1 = c
      BY <1>6
    <3> QED
      BY <3>1, <3>2, <3>3
  <2> QED
    BY <1>1, <1>6, <2>1, SameRows, SameLog DEF Clean, Told
<1>10. Remembered(g)
  BY <1>1, SameRows DEF Clean, Remembered
<1>11. Shared(g)
  BY <1>6, SameRows DEF Clean, Shared
<1>12. Seen(g)
  <2> SUFFICES ASSUME NEW n \in DOMAIN h.log, NEW k \in DOMAIN h.log[n].hits,
                      h.log[n].hits[k].kind = "foreign"
               PROVE  \/ Kept(g, h.log[n].at, h.log[n].call, h.log[n].hits[k])
                      \/ Full(g, h.log[n].at, h.log[n].call)
                      \/ /\ h.log[n].at \in DOMAIN g.told
                         /\ g.told[h.log[n].at].errors = 1 /\ Behind(g, n, k)
    BY <1>6 DEF Seen
  <2>1. Behind(g, n, k) <=> Behind(h, n, k)
    BY SameLog
  <2>2. CASE n # Len(h.log)
    <3>1. \/ Kept(h, h.log[n].at, h.log[n].call, h.log[n].hits[k])
          \/ Full(h, h.log[n].at, h.log[n].call)
          \/ /\ h.log[n].at \in DOMAIN h.told
             /\ h.told[h.log[n].at].errors = 1 /\ Behind(h, n, k)
      BY <1>5, <2>2 DEF AtHand
    <3> QED
      BY <2>1, <3>1, SameRows
  <2>3. CASE n = Len(h.log)
    <3>1. h.log[n].at = t /\ h.log[n].call = c
      BY <1>1, <1>5, <2>3 DEF AtHand
    <3>2. PICK z \in Nat : z = Len(h.log[n].hits) /\ DOMAIN h.log[n].hits = 1..z
      BY RunLists, LenProperties DEF Asked
    <3>3. CASE k <= d
      <4>1. k \in 1..d
        BY <3>2, <3>3
      <4>2. Kept(h, t, c, h.log[n].hits[k])
        BY <1>1, <1>5, <2>3, <4>1 DEF AtHand
      <4> QED
        BY <3>1, <4>2, SameRows
    <3>4. CASE k > d
      <4>1. Len(h.hits) = z - d
        BY <1>5, <2>3, <3>2 DEF AtHand
      <4>2. h.hits # <<>>
        BY <3>2, <3>4, <4>1, EmptySeq
      <4>3. h.plan[t] = "social_media" /\ h.count >= MaxPerPlatform
        BY <1>1, <4>2
      <4>4. h.count <= MaxPerPlatform /\ h.count = Cardinality(OfCall(h, t, c))
        BY <1>1, <1>2, <4>3 DEF Clean, Shared
      <4>5. PICK y \in Nat, x \in Nat : y = h.count /\ x = MaxPerPlatform
        BY HarvestAssumption DEF HarvestRun
      <4>6. y = x
        BY <4>3, <4>4, <4>5
      <4>7. Full(h, t, c)
        BY <4>3, <4>4, <4>5, <4>6 DEF Full
      <4> QED
        BY <3>1, <4>7, SameRows
    <3> QED
      BY <3>2, <3>3, <3>4
  <2> QED
    BY <2>2, <2>3
<1> QED
  BY <1>7, <1>8, <1>9, <1>10, <1>11, <1>12 DEF Clean

(* A foreign hit that is not known is taken up. *)
LEMMA PersistIsClean ==
    ASSUME NEW h \in HarvestRun, NEW g \in HarvestRun, Clean(h), h.pc = "take", h.hits # <<>>,
           Head(h.hits).kind = "foreign",
           h.plan[TurnOf(h)] \in Remembers =>
             Key(h.plan[TurnOf(h)], Head(h.hits)) \notin h.known,
           ~(h.plan[TurnOf(h)] = "social_media" /\ h.count >= MaxPerPlatform),
           g.pc = "persist", g.plan = h.plan, g.call = h.call, g.hits = h.hits,
           g.known = h.known \cup {Key(h.plan[TurnOf(h)], Head(h.hits))},
           g.count = h.count + 1, g.queued = h.queued, g.errors = h.errors,
           g.rows = h.rows, g.told = h.told, g.log = h.log
    PROVE  Clean(g)
<1>1. PICK t \in Nat, c \in Nat, p \in Nat :
        /\ t = TurnOf(h) /\ c = h.call /\ p = Len(h.plan)
        /\ t = TurnOf(g) /\ t = Len(h.told) + 1 /\ t >= 1
  <2>1. /\ TurnOf(h) \in Nat /\ TurnOf(h) = TurnOf(g) /\ TurnOf(h) >= 1
        /\ TurnOf(h) = Len(h.told) + 1
    BY RunLists DEF TurnOf
  <2> QED
    BY <2>1, RunLists DEF HarvestRun
<1>2. Looking(h) /\ t <= p
  BY <1>1 DEF Looking, Clean, Paced
<1>3. PICK m \in Nat : m = Calls[h.plan[t]] /\ t \in DOMAIN h.plan
  BY <1>1, <1>2, RunLists
<1>4. c \in 1..m
  BY <1>1, <1>2, <1>3 DEF Clean, Paced
<1>6. Looking(g) /\ g.call = c /\ g.pc = "persist"
  BY <1>1 DEF Looking
<1>7. Paced(g)
  <2>1. Calls[g.plan[TurnOf(g)]] = m /\ Len(g.plan) = p /\ TurnOf(g) = t /\ g.call = c
    BY <1>1, <1>3
  <2>2. Len(g.told) <= p /\ g.errors = 0
    BY <1>1 DEF Clean, Paced
  <2> QED
    BY <1>2, <1>4, <1>6, <2>1, <2>2 DEF Paced
<1>8. InOrder(g)
  <2>1. \A a, b : Past(h, a, b) => Past(g, a, b)
    BY <1>1, <1>6 DEF Past
  <2>2. \A a, b : Current(h, a, b) => Current(g, a, b)
    BY <1>1, <1>6 DEF Current
  <2> QED
    BY <2>1, <2>2 DEF Clean, InOrder
<1>9. Told(g)
  BY <1>1, <1>2, <1>6, SameRows, SameLog DEF Clean, Told
<1>10. Remembered(g)
  <2>1. h.known = KeysOf(h, t)
    BY <1>1, <1>2 DEF Clean, Remembered
  <2>2. KeysOf(g, t) = KeysOf(h, t)
    BY SameRows
  <2>3. \A i \in DOMAIN g.plan : g.plan[i] \in Remembers =>
         \A x, y \in Of(g, i) :
            Key(g.plan[i], g.rows[x].hit) = Key(g.plan[i], g.rows[y].hit) => x = y
    BY SameRows DEF Clean, Remembered
  <2> QED
    BY <1>1, <2>1, <2>2, <2>3 DEF Remembered
<1>11. Shared(g)
  <2>1. PICK y \in Nat, x \in Nat : y = h.count /\ x = MaxPerPlatform
    BY HarvestAssumption DEF HarvestRun
  <2>2. g.count = y + 1 /\ y = Cardinality(OfCall(g, t, c))
    BY <1>1, <2>1, SameRows DEF Clean, Shared
  <2>3. g.plan[t] = "social_media" => y + 1 <= x
    BY <1>1, <2>1
  <2>4. \A i \in DOMAIN g.plan : g.plan[i] = "social_media" =>
         \A b \in Nat : Cardinality(OfCall(g, i, b)) <= MaxPerPlatform
    BY SameRows DEF Clean, Shared
  <2> QED
    BY <1>1, <1>6, <2>1, <2>2, <2>3, <2>4 DEF Shared
<1>12. Seen(g)
  <2>1. PICK d \in Nat : AtHand(h, d)
    BY <1>2, HasAtHand DEF Clean
  <2>2. AtHand(g, d)
    <3>1. \A i, b, hit : Kept(h, i, b, hit) => Kept(g, i, b, hit)
      BY SameRows
    <3>2. \A i, b : Full(h, i, b) => Full(g, i, b)
      BY SameRows
    <3>3. \A n, k : Behind(h, n, k) => Behind(g, n, k)
      BY SameLog
    <3>4. TurnOf(g) = TurnOf(h)
      BY <1>1
    <3> QED
      BY <2>1, <3>1, <3>2, <3>3, <3>4 DEF AtHand
  <2> QED
    BY <1>6, <2>2, AtHandIsSeen
<1> QED
  BY <1>7, <1>8, <1>9, <1>10, <1>11, <1>12 DEF Clean

(* A hit of the brand's own, or a known one, is passed over. *)
LEMMA PassIsClean ==
    ASSUME NEW h \in HarvestRun, NEW g \in HarvestRun, Clean(h), h.pc = "take", h.hits # <<>>,
           Head(h.hits).kind = "foreign" =>
             /\ h.plan[TurnOf(h)] \in Remembers
             /\ Key(h.plan[TurnOf(h)], Head(h.hits)) \in h.known,
           g.pc = "take", g.plan = h.plan, g.call = h.call, g.hits = Tail(h.hits),
           g.known = h.known, g.count = h.count, g.queued = h.queued,
           g.errors = h.errors, g.rows = h.rows, g.told = h.told, g.log = h.log
    PROVE  Clean(g)
<1>1. PICK t \in Nat, c \in Nat, p \in Nat :
        /\ t = TurnOf(h) /\ c = h.call /\ p = Len(h.plan)
        /\ t = TurnOf(g) /\ t = Len(h.told) + 1 /\ t >= 1
  <2>1. /\ TurnOf(h) \in Nat /\ TurnOf(h) = TurnOf(g) /\ TurnOf(h) >= 1
        /\ TurnOf(h) = Len(h.told) + 1
    BY RunLists DEF TurnOf
  <2> QED
    BY <2>1, RunLists DEF HarvestRun
<1>2. Looking(h) /\ t <= p
  BY <1>1 DEF Looking, Clean, Paced
<1>3. PICK m \in Nat : m = Calls[h.plan[t]] /\ t \in DOMAIN h.plan
  BY <1>1, <1>2, RunLists
<1>4. c \in 1..m
  BY <1>1, <1>2, <1>3 DEF Clean, Paced
<1>6. Looking(g) /\ g.call = c /\ g.pc = "take"
  BY <1>1 DEF Looking
<1>7. Paced(g)
  <2>1. Calls[g.plan[TurnOf(g)]] = m /\ Len(g.plan) = p /\ TurnOf(g) = t /\ g.call = c
    BY <1>1, <1>3
  <2>2. Len(g.told) <= p /\ g.errors = 0
    BY <1>1 DEF Clean, Paced
  <2> QED
    BY <1>2, <1>4, <1>6, <2>1, <2>2 DEF Paced
<1>8. InOrder(g)
  <2>1. \A a, b : Past(h, a, b) => Past(g, a, b)
    BY <1>1, <1>6 DEF Past
  <2>2. \A a, b : Current(h, a, b) => Current(g, a, b)
    BY <1>1, <1>6 DEF Current
  <2> QED
    BY <2>1, <2>2 DEF Clean, InOrder
<1>9. Told(g)
  BY <1>1, <1>2, <1>6, SameRows, SameLog DEF Clean, Told
<1>10. Remembered(g)
  BY <1>1, SameRows DEF Clean, Remembered
<1>11. Shared(g)
  BY <1>1, <1>2, <1>6, SameRows DEF Clean, Shared
<1>12. Seen(g)
  <2>1. PICK d \in Nat : AtHand(h, d)
    BY <1>2, HasAtHand DEF Clean
  <2>2. Keeps(h, g)
    BY SameRows DEF Keeps
  <2>3. Head(h.hits).kind = "foreign" => Kept(g, t, c, Head(h.hits))
    <3> SUFFICES ASSUME Head(h.hits).kind = "foreign"
                 PROVE  Kept(h, t, c, Head(h.hits))
      BY SameRows
    <3>1. h.known = KeysOf(h, t)
      BY <1>1, <1>2 DEF Clean, Remembered
    <3>2. h.plan[t] \in Remembers /\ Key(h.plan[t], Head(h.hits)) \in KeysOf(h, t)
      BY <1>1, <3>1
    <3>3. \E x \in Of(h, t) : Key(h.plan[t], Head(h.hits)) = Key(h.plan[t], h.rows[x].hit)
      BY <3>2, Zenon DEF KeysOf
    <3> QED
      BY <3>2, <3>3 DEF Kept
  <2>4. AtHand(g, d + 1)
    BY <1>1, <2>1, <2>2, <2>3, NextAtHand
  <2> QED
    BY <1>6, <2>4, AtHandIsSeen
<1> QED
  BY <1>7, <1>8, <1>9, <1>10, <1>11, <1>12 DEF Clean

(* A suspect is flushed. *)
LEMMA FlushIsClean ==
    ASSUME NEW h \in HarvestRun, NEW g \in HarvestRun, Clean(h), h.pc = "persist", h.hits # <<>>,
           g.pc = "take", g.plan = h.plan, g.call = h.call, g.hits = Tail(h.hits),
           g.known = h.known, g.count = h.count, g.queued = h.queued + 1,
           g.errors = h.errors, g.told = h.told, g.log = h.log,
           g.rows = Append(h.rows, [at |-> TurnOf(h), call |-> h.call,
                                    hit |-> Head(h.hits)])
    PROVE  Clean(g)
<1>1. PICK t \in Nat, c \in Nat, p \in Nat :
        /\ t = TurnOf(h) /\ c = h.call /\ p = Len(h.plan)
        /\ t = TurnOf(g) /\ t = Len(h.told) + 1 /\ t >= 1
  <2>1. /\ TurnOf(h) \in Nat /\ TurnOf(h) = TurnOf(g) /\ TurnOf(h) >= 1
        /\ TurnOf(h) = Len(h.told) + 1
    BY RunLists DEF TurnOf
  <2> QED
    BY <2>1, RunLists DEF HarvestRun
<1>2. Looking(h) /\ t <= p
  BY <1>1 DEF Looking, Clean, Paced
<1>3. PICK m \in Nat : m = Calls[h.plan[t]] /\ t \in DOMAIN h.plan
  BY <1>1, <1>2, RunLists, SMTT(30)
<1>4. c \in 1..m
  BY <1>1, <1>2, <1>3 DEF Clean, Paced
<1>6. Looking(g) /\ g.call = c /\ g.pc = "take"
  BY <1>1 DEF Looking
<1>7. Paced(g)
  <2>1. Calls[g.plan[TurnOf(g)]] = m /\ Len(g.plan) = p /\ TurnOf(g) = t /\ g.call = c
    BY <1>1, <1>3
  <2>2. Len(g.told) <= p /\ g.errors = 0
    BY <1>1 DEF Clean, Paced
  <2> QED
    BY <1>2, <1>4, <1>6, <2>1, <2>2 DEF Paced
<1> DEFINE hit == Head(h.hits)
           e == [at |-> t, call |-> c, hit |-> hit]
           z == Len(h.rows) + 1
<1>8. PICK d \in Nat : AtHand(h, d)
  BY <1>2, HasAtHand DEF Clean
<1>9. hit \in Hit /\ hit.kind = "foreign"
  BY <1>8, HitAtHand DEF Clean, Remembered
<1>10. e \in HitRow /\ e.at = t /\ e.call = c /\ e.hit = hit
  BY <1>9 DEF HitRow
<1>11. g.rows = Append(h.rows, e)
  BY <1>1
<1> HIDE DEF hit, e, z
<1>12. RowsWith(h, g, e)
  BY <1>10, <1>11, RowsGrow
<1>13. /\ z \notin DOMAIN h.rows /\ DOMAIN g.rows = DOMAIN h.rows \cup {z}
       /\ \A n \in DOMAIN h.rows : g.rows[n] = h.rows[n]
       /\ g.rows[z] = e
  BY <1>12 DEF RowsWith, z
<1>14. /\ Of(g, t) = Of(h, t) \cup {z}
       /\ \A i : i # t => Of(g, i) = Of(h, i)
  BY <1>10, <1>12 DEF RowsWith, z
<1>15. /\ KeysOf(g, t) = KeysOf(h, t) \cup {Key(h.plan[t], hit)}
       /\ \A i : i # t => KeysOf(g, i) = KeysOf(h, i)
  BY <1>10, <1>12 DEF RowsWith
<1>16. /\ OfCall(g, t, c) = OfCall(h, t, c) \cup {z}
       /\ \A i, b : ~(i = t /\ b = c) => OfCall(g, i, b) = OfCall(h, i, b)
  BY <1>10, <1>12 DEF RowsWith, z
<1>17. \A i, b, x : Kept(h, i, b, x) => Kept(g, i, b, x)
  BY <1>12 DEF RowsWith
<1>18. /\ z \notin Of(h, t) /\ z \notin OfCall(h, t, c)
       /\ Cardinality(Of(g, t)) = Cardinality(Of(h, t)) + 1
       /\ Cardinality(OfCall(g, t, c)) = Cardinality(OfCall(h, t, c)) + 1
  <2>1. z \notin Of(h, t) /\ z \notin OfCall(h, t, c)
    BY <1>13 DEF Of, OfCall
  <2>2. IsFiniteSet(Of(h, t)) /\ IsFiniteSet(OfCall(h, t, c))
    BY FiniteRows
  <2> QED
    BY <1>14, <1>16, <2>1, <2>2, FS_AddElement
<1>19. InOrder(g)
  <2>1. \A a, b : Past(h, a, b) => Past(g, a, b)
    BY <1>1, <1>6 DEF Past
  <2>2. \A a, b : Current(h, a, b) => Current(g, a, b)
    BY <1>1, <1>6 DEF Current
  <2>3. \A n \in DOMAIN g.log :
         /\ g.log[n].at \in DOMAIN g.plan
         /\ \/ Past(g, g.log[n].at, g.log[n].call)
            \/ Current(g, g.log[n].at, g.log[n].call) /\ n = Len(g.log)
    BY <2>1, <2>2 DEF Clean, InOrder
  <2>4. Current(g, t, c)
    BY <1>1, <1>6 DEF Current
  <2>5. ASSUME NEW n \in DOMAIN g.rows
        PROVE  /\ g.rows[n].at \in DOMAIN g.plan
               /\ g.rows[n].hit.kind = "foreign"
               /\ \/ Past(g, g.rows[n].at, g.rows[n].call)
                  \/ Current(g, g.rows[n].at, g.rows[n].call)
    <3>1. CASE n = z
      BY <1>3, <1>9, <1>10, <1>13, <2>4, <3>1
    <3>2. CASE n \in DOMAIN h.rows
      BY <1>13, <2>1, <2>2, <3>2 DEF Clean, InOrder
    <3> QED
      BY <1>13, <3>1, <3>2
  <2> QED
    BY <2>3, <2>5 DEF InOrder
<1>20. Told(g)
  <2>1. ASSUME NEW i \in DOMAIN g.told
        PROVE  /\ g.told[i].queued = Cardinality(Of(g, i))
               /\ g.told[i].errors \in {0, 1}
               /\ g.told[i].errors = 1 => Cut(g, i)
               /\ g.told[i].errors = 0 => CallsOf(g, i) = 1..Calls[g.plan[i]]
    <3>1. i # t
      BY <1>1, RunLists
    <3>2. Of(g, i) = Of(h, i) /\ CallsOf(g, i) = CallsOf(h, i) /\ (Cut(g, i) <=> Cut(h, i))
      BY <1>14, <3>1, SameLog
    <3> QED
      BY <3>2 DEF Clean, Told
  <2>2. g.queued = Cardinality(Of(g, t))
    BY <1>1, <1>18 DEF Clean, Told
  <2>3. CallsOf(g, t) = 1..c
    BY <1>1, <1>2, SameLog DEF Clean, Told
  <2> QED
    BY <1>1, <1>6, <2>1, <2>2, <2>3 DEF Told
<1>21. Remembered(g)
  <2>1. /\ h.known = KeysOf(h, t) \cup {Key(h.plan[t], hit)}
        /\ h.plan[t] \in Remembers => Key(h.plan[t], hit) \notin KeysOf(h, t)
    BY <1>1 DEF Clean, Remembered, hit
  <2>2. g.known = KeysOf(g, t)
    BY <1>15, <2>1
  <2>3. ASSUME NEW i \in DOMAIN g.plan, g.plan[i] \in Remembers,
               NEW x \in Of(g, i), NEW y \in Of(g, i),
               Key(g.plan[i], g.rows[x].hit) = Key(g.plan[i], g.rows[y].hit)
        PROVE  x = y
    <3>1. ASSUME NEW w \in Of(h, i) PROVE g.rows[w] = h.rows[w]
      BY <1>13 DEF Of
    <3>2. CASE x \in Of(h, i) /\ y \in Of(h, i)
      <4>1. Key(h.plan[i], h.rows[x].hit) = Key(h.plan[i], h.rows[y].hit)
        BY <2>3, <3>1, <3>2
      <4> QED
        BY <2>3, <3>2, <4>1 DEF Clean, Remembered
    <3>3. CASE i # t
      BY <1>14, <3>2, <3>3
    <3>4. ASSUME i = t, NEW w \in Of(h, t)
          PROVE  Key(h.plan[t], h.rows[w].hit) # Key(h.plan[t], hit)
      <4>1. Key(h.plan[t], h.rows[w].hit) \in KeysOf(h, t)
        BY <3>4 DEF KeysOf
      <4> QED
        BY <2>1, <2>3, <3>4, <4>1
    <3>5. CASE i = t /\ x = z /\ y # z
      <4>1. y \in Of(h, t)
        BY <1>14, <3>5
      <4>2. g.rows[y] = h.rows[y] /\ g.rows[x].hit = hit
        BY <1>10, <1>13, <3>1, <3>5, <4>1
      <4> QED
        BY <2>3, <3>4, <3>5, <4>1, <4>2
    <3>6. CASE i = t /\ y = z /\ x # z
      <4>1. x \in Of(h, t)
        BY <1>14, <3>6
      <4>2. g.rows[x] = h.rows[x] /\ g.rows[y].hit = hit
        BY <1>10, <1>13, <3>1, <3>6, <4>1
      <4> QED
        BY <2>3, <3>4, <3>6, <4>1, <4>2
    <3> QED
      BY <1>14, <3>2, <3>3, <3>5, <3>6
  <2> QED
    BY <1>1, <1>6, <2>2, <2>3 DEF Remembered
<1>22. Shared(g)
  <2>1. PICK y \in Nat, x \in Nat, w \in Nat :
          y = h.count /\ x = MaxPerPlatform /\ w = Cardinality(OfCall(h, t, c))
    BY HarvestAssumption, FiniteRows DEF HarvestRun
  <2>2. /\ y = w + 1
        /\ h.plan[t] = "social_media" => y <= x
    BY <1>1, <1>2, <2>1 DEF Clean, Shared
  <2>3. Cardinality(OfCall(g, t, c)) = y
    BY <1>18, <2>1, <2>2
  <2>4. ASSUME NEW i \in DOMAIN g.plan, g.plan[i] = "social_media", NEW b \in Nat
        PROVE  Cardinality(OfCall(g, i, b)) <= MaxPerPlatform
    <3>1. CASE i = t /\ b = c
      BY <2>1, <2>2, <2>3, <2>4, <3>1
    <3>2. CASE ~(i = t /\ b = c)
      BY <1>16, <2>4, <3>2 DEF Clean, Shared
    <3> QED
      BY <3>1, <3>2
  <2> QED
    BY <1>1, <1>6, <2>1, <2>2, <2>3, <2>4 DEF Shared
<1>23. Seen(g)
  <2>1. Keeps(h, g)
    <3> SUFFICES ASSUME NEW n \in DOMAIN h.log, n # Len(h.log),
                        Full(h, h.log[n].at, h.log[n].call)
                 PROVE  Full(g, h.log[n].at, h.log[n].call)
      BY <1>17 DEF Keeps
    <3>1. Past(h, h.log[n].at, h.log[n].call)
      BY DEF Clean, InOrder
    <3>2. ~(h.log[n].at = t /\ h.log[n].call = c)
      BY <1>1, <3>1 DEF Past
    <3> QED
      BY <1>16, <3>2 DEF Full
  <2>2. Kept(g, t, c, hit)
    <3>1. z \in Of(g, t) /\ g.rows[z].hit = hit /\ g.rows[z].call = c
      BY <1>10, <1>13, <1>14
    <3> QED
      BY <3>1 DEF Kept
  <2>3. AtHand(g, d + 1)
    BY <1>1, <1>8, <2>1, <2>2, NextAtHand DEF hit
  <2> QED
    BY <1>6, <2>3, AtHandIsSeen
<1> QED
  BY <1>7, <1>19, <1>20, <1>21, <1>22, <1>23 DEF Clean

(* The run commits. *)
LEMMA KeptIsClean ==
    ASSUME NEW h \in HarvestRun, NEW g \in HarvestRun, Clean(h), h.pc = "ask",
           TurnOf(h) > Len(h.plan),
           g.pc = "kept", g.plan = h.plan, g.call = h.call, g.queued = h.queued,
           g.errors = h.errors, g.rows = h.rows, g.told = h.told, g.log = h.log
    PROVE  Clean(g)
<1>1. TurnOf(g) = TurnOf(h) /\ ~Looking(g) /\ ~Looking(h)
  BY DEF TurnOf, Looking
<1>2. Len(h.told) = Len(h.plan)
  BY RunLists DEF TurnOf, Clean, Paced
<1>3. Paced(g)
  BY <1>1, <1>2 DEF Clean, Paced
<1>4. InOrder(g)
  <2>1. \A a, b : Past(h, a, b) => Past(g, a, b)
    BY <1>1 DEF Past
  <2>2. \A a, b : ~Current(h, a, b)
    BY <1>1 DEF Current
  <2> QED
    BY <2>1, <2>2 DEF Clean, InOrder
<1>5. Told(g)
  BY <1>1, SameRows, SameLog DEF Clean, Told
<1>6. Remembered(g)
  BY <1>1, SameRows DEF Clean, Remembered
<1>7. Shared(g)
  BY <1>1, SameRows DEF Clean, Shared
<1>8. Seen(g)
  <2> SUFFICES ASSUME NEW n \in DOMAIN h.log, NEW k \in DOMAIN h.log[n].hits,
                      h.log[n].hits[k].kind = "foreign"
               PROVE  \/ Kept(g, h.log[n].at, h.log[n].call, h.log[n].hits[k])
                      \/ Full(g, h.log[n].at, h.log[n].call)
                      \/ /\ h.log[n].at \in DOMAIN g.told
                         /\ g.told[h.log[n].at].errors = 1 /\ Behind(g, n, k)
    BY <1>1 DEF Seen
  <2>1. \/ Kept(h, h.log[n].at, h.log[n].call, h.log[n].hits[k])
        \/ Full(h, h.log[n].at, h.log[n].call)
        \/ /\ h.log[n].at \in DOMAIN h.told
           /\ h.told[h.log[n].at].errors = 1 /\ Behind(h, n, k)
    BY <1>1 DEF Clean, Seen
  <2>2. Behind(g, n, k) <=> Behind(h, n, k)
    BY SameLog
  <2> QED
    BY <2>1, <2>2, SameRows
<1> QED
  BY <1>3, <1>4, <1>5, <1>6, <1>7, <1>8 DEF Clean

(* A run that is dead, or over, has only to be well formed. *)
LEMMA SoundParts ==
    ASSUME NEW h \in HarvestRun, h.pc \in {"ask", "take"}, h.dead \/ Clean(h)
    PROVE  Sound(h)
BY DEF Sound

(* The counters count. *)
LEMMA CountersCount ==
    ASSUME NEW h \in HarvestRun
    PROVE  \E asks, count, queued, errors \in Nat :
             /\ asks = h.call + 1 /\ count = h.count + 1
             /\ queued = h.queued + 1 /\ errors = h.errors + 1
<1>1. /\ h.call + 1 \in Nat /\ h.count + 1 \in Nat
      /\ h.queued + 1 \in Nat /\ h.errors + 1 \in Nat
  BY DEF HarvestRun
<1> QED
  BY <1>1

\* Closing reads no more than the plan, the rows, the answers and the sums.
LEMMA SameClosing ==
    ASSUME NEW h, NEW g, NEW e, Closing(h, e), g.plan = h.plan, g.rows = h.rows,
           g.log = h.log, g.told = h.told, g.queued = h.queued
    PROVE  Closing(g, e)
<1>1. TurnOf(g) = TurnOf(h)
  BY DEF TurnOf
<1>2. /\ \A i : Of(g, i) = Of(h, i) /\ CallsOf(g, i) = CallsOf(h, i)
      /\ \A i : Cut(h, i) => Cut(g, i)
      /\ \A i, c : OfCall(g, i, c) = OfCall(h, i, c)
  BY SameRows, SameLog
<1>3. /\ \A i, c : Full(h, i, c) => Full(g, i, c)
      /\ \A i, c, hit : Kept(h, i, c, hit) => Kept(g, i, c, hit)
      /\ \A n, k : Behind(h, n, k) => Behind(g, n, k)
  BY SameRows, SameLog
<1>4. \A n \in DOMAIN g.log :
         \A k \in DOMAIN g.log[n].hits : g.log[n].hits[k].kind = "foreign" =>
           \/ Kept(g, g.log[n].at, g.log[n].call, g.log[n].hits[k])
           \/ Full(g, g.log[n].at, g.log[n].call)
           \/ /\ g.log[n].at \in DOMAIN g.told
              /\ g.told[g.log[n].at].errors = 1 /\ Behind(g, n, k)
           \/ g.log[n].at = TurnOf(g) /\ e = 1 /\ Behind(g, n, k)
  BY <1>1, <1>3 DEF Closing
<1> QED
  BY <1>1, <1>2, <1>4 DEF Closing

(* The source that ends. *)
LEMMA EndIsSound ==
    ASSUME NEW h \in HarvestRun, h.dead \/ Closing(h, h.errors)
    PROVE  Sound(EndSource(h))
<1> DEFINE told == Append(h.told, [queued |-> h.queued, errors |-> h.errors])
<1>1. told \in Seq(Summary)
  <2>1. [queued |-> h.queued, errors |-> h.errors] \in Summary /\ h.told \in Seq(Summary)
    BY DEF HarvestRun, Summary
  <2> QED
    BY <2>1, AppendProperties
<1> HIDE DEF told
<1>2. PICK g : g = EndSource(h)
  OBVIOUS
<1>3. g = [h EXCEPT !.pc = "ask", !.call = 1, !.hits = <<>>, !.known = {}, !.queued = 0,
                    !.errors = 0, !.told = told]
  BY <1>2 DEF EndSource, told
<1>4. <<>> \in Seq(Hit)
  OBVIOUS
<1>5. /\ g \in HarvestRun /\ g.pc = "ask" /\ g.dead = h.dead
      /\ g.plan = h.plan /\ g.call = 1 /\ g.known = {} /\ g.queued = 0
      /\ g.errors = 0 /\ g.log = h.log /\ g.rows = h.rows /\ g.told = told
  BY <1>1, <1>3, <1>4 DEF HarvestRun
<1>6. g.dead \/ Clean(g)
  BY <1>5, EndIsClean DEF told
<1> QED
  BY <1>2, <1>5, <1>6, SoundParts

(* The actions, one by one. *)
LEMMA BeginIsSound ==
    ASSUME NEW plan \in Plans, BeginHarvest(plan)
    PROVE  Sound(harvest')
<1>1. PICK g : g = harvest'
  OBVIOUS
<1>2. g = [pc |-> "ask", plan |-> plan, call |-> 1, hits |-> <<>>,
           known |-> {}, count |-> 0, queued |-> 0, errors |-> 0,
           dead |-> FALSE, log |-> <<>>, rows |-> <<>>, told |-> <<>>]
  BY <1>1 DEF BeginHarvest
<1>3. /\ g \in HarvestRun /\ g.pc = "ask" /\ g.plan = plan /\ g.call = 1 /\ g.known = {}
      /\ g.queued = 0 /\ g.errors = 0 /\ g.log = <<>> /\ g.rows = <<>> /\ g.told = <<>>
  BY <1>2 DEF HarvestRun
<1>4. /\ TurnOf(g) = 1 /\ ~Looking(g)
      /\ DOMAIN g.log = {} /\ DOMAIN g.rows = {} /\ DOMAIN g.told = {}
  BY <1>3 DEF TurnOf, Looking
<1>5. /\ \A i : Of(g, i) = {}
      /\ \A i, c : OfCall(g, i, c) = {}
      /\ \A i : CallsOf(g, i) = {}
  BY <1>4 DEF Of, OfCall, CallsOf
<1>6. \A i : KeysOf(g, i) = {}
  BY <1>5 DEF KeysOf
<1>7. Paced(g)
  <2>1. PICK p \in Nat : p = Len(g.plan)
    BY <1>3, RunLists
  <2>2. 1 <= p => 1 \in 1..(Calls[g.plan[1]] + 1)
    <3> SUFFICES ASSUME 1 <= p PROVE 1 \in 1..(Calls[g.plan[1]] + 1)
      OBVIOUS
    <3>1. PICK m \in Nat : m = Calls[g.plan[1]]
      BY <1>3, <2>1, RunLists
    <3>2. 1 \in 1..(m + 1)
      OBVIOUS
    <3> QED
      BY <3>1, <3>2
  <2>3. Len(g.told) = 0
    BY <1>3
  <2> QED
    BY <1>3, <1>4, <2>1, <2>2, <2>3 DEF Paced
<1>8. InOrder(g)
  BY <1>4 DEF InOrder
<1>9. Told(g)
  <2>1. g.queued = Cardinality(Of(g, TurnOf(g)))
    BY <1>3, <1>5, FS_EmptySet
  <2>2. CallsOf(g, TurnOf(g)) = 1..(g.call - 1)
    BY <1>3, <1>5
  <2> QED
    BY <1>4, <2>1, <2>2 DEF Told
<1>10. Remembered(g)
  BY <1>3, <1>4, <1>5, <1>6 DEF Remembered
<1>11. Shared(g)
  <2>1. \A i, c : Cardinality(OfCall(g, i, c)) = 0
    BY <1>5, FS_EmptySet
  <2>2. 0 <= MaxPerPlatform
    BY HarvestAssumption
  <2> QED
    BY <1>3, <1>4, <2>1, <2>2 DEF Shared
<1>12. Seen(g)
  BY <1>4 DEF Seen
<1>13. Clean(g)
  BY <1>7, <1>8, <1>9, <1>10, <1>11, <1>12 DEF Clean
<1> QED
  BY <1>1, <1>3, <1>13, SoundParts

\* A query is answered.
LEMMA AskIsSound ==
    ASSUME Sound(harvest), Ask
    PROVE  Sound(harvest')
<1>1. PICK h, g : h = harvest /\ g = harvest'
  OBVIOUS
<1>2. h \in HarvestRun /\ (h.dead \/ Clean(h)) /\ h.pc = "ask"
  BY <1>1 DEF Sound, Ask
<1>3. TurnOf(h) <= Len(h.plan) /\ h.call <= Calls[h.plan[TurnOf(h)]]
  BY <1>1 DEF Ask, TurnOf, Turn, Source
<1>4. PICK n \in 0..Room : \E hits \in [1..n -> Hit] :
         g = [h EXCEPT !.pc = "take", !.hits = hits, !.count = 0,
                       !.log = Append(h.log, [at |-> TurnOf(h), call |-> h.call,
                                              hits |-> hits, failed |-> FALSE])]
  BY <1>1, Zenon DEF Ask, TurnOf, Turn, Logged
<1>5. n \in Nat
  OBVIOUS
<1>6. PICK hits \in [1..n -> Hit] :
         g = [h EXCEPT !.pc = "take", !.hits = hits, !.count = 0,
                       !.log = Append(h.log, [at |-> TurnOf(h), call |-> h.call,
                                              hits |-> hits, failed |-> FALSE])]
  BY <1>4, Zenon
<1>7. hits \in Seq(Hit)
  BY <1>5, <1>6
<1> DEFINE e == [at |-> TurnOf(h), call |-> h.call, hits |-> hits, failed |-> FALSE]
           log == Append(h.log, e)
<1>8. log \in Seq(Asked)
  <2>1. e \in Asked
    BY <1>2, <1>7, RunLists DEF HarvestRun, Asked, TurnOf
  <2>2. h.log \in Seq(Asked)
    BY <1>2 DEF HarvestRun
  <2> QED
    BY <2>1, <2>2, AppendProperties
<1>9. g = [h EXCEPT !.pc = "take", !.hits = hits, !.count = 0, !.log = log]
  BY <1>6
<1> HIDE DEF log
<1>10. /\ g \in HarvestRun /\ g.pc = "take" /\ g.dead = h.dead /\ g.plan = h.plan /\ g.call = h.call
       /\ g.known = h.known /\ g.count = 0 /\ g.queued = h.queued /\ g.errors = h.errors
       /\ g.rows = h.rows /\ g.told = h.told /\ g.hits = hits /\ g.log = log
  BY <1>2, <1>7, <1>8, <1>9 DEF HarvestRun
<1>11. g.log = Append(h.log, [at |-> TurnOf(h), call |-> h.call, hits |-> g.hits,
                              failed |-> FALSE])
  BY <1>10 DEF log
<1>12. g.dead \/ Clean(g)
  BY <1>2, <1>3, <1>10, <1>11, AskIsClean
<1> QED
  BY <1>1, <1>10, <1>12, SoundParts

\* A query fails.
LEMMA AskFailsIsSound ==
    ASSUME Sound(harvest), AskFails
    PROVE  Sound(harvest')
<1>1. PICK h, g : h = harvest /\ g = harvest'
  OBVIOUS
<1>2. h \in HarvestRun /\ (h.dead \/ Clean(h)) /\ h.pc = "ask"
  BY <1>1 DEF Sound, AskFails
<1>3. TurnOf(h) <= Len(h.plan) /\ h.call <= Calls[h.plan[TurnOf(h)]]
  BY <1>1 DEF AskFails, TurnOf, Turn, Source
<1> DEFINE e == [at |-> TurnOf(h), call |-> h.call, hits |-> <<>>, failed |-> TRUE]
           log == Append(h.log, e)
<1>4. log \in Seq(Asked)
  <2>1. e \in Asked
    BY <1>2, RunLists DEF HarvestRun, Asked, TurnOf
  <2>2. h.log \in Seq(Asked)
    BY <1>2 DEF HarvestRun
  <2> QED
    BY <2>1, <2>2, AppendProperties
<1>5. g = IF h.plan[TurnOf(h)] \in SkipsFailures
          THEN [[h EXCEPT !.log = log] EXCEPT !.call = @ + 1]
          ELSE Broken([h EXCEPT !.log = log])
  BY <1>1, Zenon DEF AskFails, TurnOf, Turn, Source, Logged
<1>6. log = Append(h.log, [at |-> TurnOf(h), call |-> h.call, hits |-> <<>>, failed |-> TRUE])
  OBVIOUS
<1> HIDE DEF log
<1>7. CASE h.plan[TurnOf(h)] \in SkipsFailures
  <2>1. /\ g \in HarvestRun /\ g.pc = "ask" /\ g.dead = h.dead /\ g.plan = h.plan
        /\ g.call = h.call + 1 /\ g.known = h.known /\ g.queued = h.queued
        /\ g.errors = h.errors /\ g.rows = h.rows /\ g.told = h.told /\ g.log = log
    <3>1. PICK asks, count, queued, errors \in Nat :
            /\ asks = h.call + 1 /\ count = h.count + 1
            /\ queued = h.queued + 1 /\ errors = h.errors + 1
      BY <1>2, CountersCount
    <3>2. g = [h EXCEPT !.log = log, !.call = asks]
      BY <1>5, <1>7, <3>1 DEF HarvestRun
    <3>3. /\ g \in HarvestRun /\ g.pc = "ask" /\ g.dead = h.dead /\ g.plan = h.plan
          /\ g.call = asks /\ g.known = h.known /\ g.queued = h.queued
          /\ g.errors = h.errors /\ g.rows = h.rows /\ g.told = h.told /\ g.log = log
      BY <1>2, <1>4, <3>2 DEF HarvestRun
    <3> QED
      BY <3>1, <3>3
  <2>2. g.dead \/ Clean(g)
    BY <1>2, <1>3, <1>6, <2>1, SkipIsClean
  <2> QED
    BY <1>1, <2>1, <2>2, SoundParts
<1>8. CASE h.plan[TurnOf(h)] \notin SkipsFailures
  <2>1. PICK k : k = [[h EXCEPT !.log = log] EXCEPT !.errors = @ + 1]
    OBVIOUS
  <2>2. g = EndSource(k)
    BY <1>5, <1>8, <2>1 DEF Broken
  <2>3. /\ k \in HarvestRun /\ k.dead = h.dead /\ k.plan = h.plan /\ k.queued = h.queued
        /\ k.rows = h.rows /\ k.told = h.told /\ k.log = log /\ k.errors = h.errors + 1
    <3>1. PICK asks, count, queued, errors \in Nat :
            /\ asks = h.call + 1 /\ count = h.count + 1
            /\ queued = h.queued + 1 /\ errors = h.errors + 1
      BY <1>2, CountersCount
    <3>2. k = [h EXCEPT !.log = log, !.errors = errors]
      BY <1>2, <2>1, <3>1 DEF HarvestRun
    <3>3. /\ k \in HarvestRun /\ k.dead = h.dead /\ k.plan = h.plan /\ k.queued = h.queued
          /\ k.rows = h.rows /\ k.told = h.told /\ k.log = log /\ k.errors = errors
      BY <1>2, <1>4, <3>2 DEF HarvestRun
    <3> QED
      BY <3>1, <3>3
  <2>4. k.dead \/ Closing(k, k.errors)
    <3> SUFFICES ASSUME Clean(h) PROVE Closing(k, k.errors)
      BY <1>2, <2>3
    <3>1. Closing(k, 1)
      BY <1>2, <1>3, <1>6, <1>8, <2>3, FailureCloses
    <3>2. k.errors = 1
      BY <2>3 DEF Clean, Paced
    <3> QED
      BY <3>1, <3>2
  <2> QED
    BY <1>1, <2>2, <2>3, <2>4, EndIsSound
<1> QED
  BY <1>7, <1>8

\* A source has no more queries.
LEMMA ExhaustedIsSound ==
    ASSUME Sound(harvest), Exhausted
    PROVE  Sound(harvest')
<1>1. PICK h, g : h = harvest /\ g = harvest'
  OBVIOUS
<1>2. h \in HarvestRun /\ (h.dead \/ Clean(h)) /\ h.pc = "ask"
  BY <1>1 DEF Sound, Exhausted
<1>3. TurnOf(h) <= Len(h.plan) /\ h.call > Calls[h.plan[TurnOf(h)]]
  BY <1>1 DEF Exhausted, TurnOf, Turn, Source
<1>4. g = EndSource(h)
  BY <1>1 DEF Exhausted
<1>5. Clean(h) => h.errors = 0 /\ Closing(h, 0)
  BY <1>2, <1>3, ExhaustedCloses DEF Clean, Paced
<1> QED
  BY <1>1, <1>2, <1>4, <1>5, EndIsSound

\* A hit is looked at.
LEMMA TakeIsSound ==
    ASSUME Sound(harvest), Take
    PROVE  Sound(harvest')
<1>1. PICK h, g : h = harvest /\ g = harvest'
  OBVIOUS
<1>2. h \in HarvestRun /\ (h.dead \/ Clean(h)) /\ h.pc = "take"
  BY <1>1 DEF Sound, Take
<1> DEFINE source == h.plan[TurnOf(h)]
           capped == source = "social_media" /\ h.count >= MaxPerPlatform
           hit == Head(h.hits)
           key == Key(source, hit)
           foreign == hit.kind = "foreign" /\ (source \in Remembers => key \notin h.known)
<1>3. /\ h.hits = <<>> \/ capped =>
            g = [h EXCEPT !.pc = "ask", !.call = @ + 1, !.hits = <<>>]
      /\ ~(h.hits = <<>> \/ capped) =>
            /\ hit.kind = "broken" => g = Broken([h EXCEPT !.hits = Tail(@)])
            /\ hit.kind # "broken" /\ foreign =>
                 g = [h EXCEPT !.pc = "persist", !.count = @ + 1, !.known = @ \cup {key}]
            /\ hit.kind # "broken" /\ ~foreign => g = [h EXCEPT !.hits = Tail(@)]
  BY <1>1 DEF Take, Capped, Foreign, Source, Turn, TurnOf
<1>4. CASE h.hits = <<>> \/ capped
  <2>1. /\ g \in HarvestRun /\ g.pc = "ask" /\ g.dead = h.dead /\ g.plan = h.plan
        /\ g.call = h.call + 1 /\ g.known = h.known /\ g.queued = h.queued
        /\ g.errors = h.errors /\ g.rows = h.rows /\ g.told = h.told /\ g.log = h.log
    <3>1. PICK asks, count, queued, errors \in Nat :
            /\ asks = h.call + 1 /\ count = h.count + 1
            /\ queued = h.queued + 1 /\ errors = h.errors + 1
      BY <1>2, CountersCount
    <3>2. g = [h EXCEPT !.pc = "ask", !.call = asks, !.hits = <<>>]
      BY <1>3, <1>4, <3>1
    <3>3. <<>> \in Seq(Hit)
      OBVIOUS
    <3>4. /\ g \in HarvestRun /\ g.pc = "ask" /\ g.dead = h.dead /\ g.plan = h.plan
          /\ g.call = asks /\ g.known = h.known /\ g.queued = h.queued
          /\ g.errors = h.errors /\ g.rows = h.rows /\ g.told = h.told /\ g.log = h.log
      BY <1>2, <3>2, <3>3 DEF HarvestRun
    <3> QED
      BY <3>1, <3>4
  <2>2. g.dead \/ Clean(g)
    BY <1>2, <1>4, <2>1, LeaveIsClean
  <2> QED
    BY <1>1, <2>1, <2>2, SoundParts
<1>5. ASSUME ~(h.hits = <<>> \/ capped)
      PROVE  /\ h.hits # <<>> /\ ~capped /\ hit \in Hit /\ Tail(h.hits) \in Seq(Hit)
             /\ hit.kind \in {"foreign", "own", "broken"} /\ key \in Keys
  <2>1. h.hits \in Seq(Hit) /\ h.hits # <<>>
    BY <1>2, <1>5 DEF HarvestRun
  <2>2. hit \in Hit /\ Tail(h.hits) \in Seq(Hit)
    BY <2>1, HeadTailProperties
  <2>3. key \in Keys
    BY <2>2 DEF Key, Keys
  <2> QED
    BY <1>5, <2>1, <2>2, <2>3, HarvestAssumption
<1>6. CASE ~(h.hits = <<>> \/ capped) /\ hit.kind = "broken"
  <2>1. PICK k : k = [[h EXCEPT !.hits = Tail(@)] EXCEPT !.errors = @ + 1]
    OBVIOUS
  <2>2. g = EndSource(k)
    BY <1>3, <1>6, <2>1 DEF Broken
  <2>3. /\ k \in HarvestRun /\ k.dead = h.dead /\ k.plan = h.plan /\ k.queued = h.queued
        /\ k.rows = h.rows /\ k.told = h.told /\ k.log = h.log /\ k.errors = h.errors + 1
    <3>1. PICK asks, count, queued, errors \in Nat :
            /\ asks = h.call + 1 /\ count = h.count + 1
            /\ queued = h.queued + 1 /\ errors = h.errors + 1
      BY <1>2, CountersCount
    <3>2. PICK tail \in Seq(Hit) : tail = Tail(h.hits)
      BY <1>5, <1>6
    <3>3. k = [h EXCEPT !.hits = tail, !.errors = errors]
      BY <1>2, <2>1, <3>1, <3>2 DEF HarvestRun
    <3>4. /\ k \in HarvestRun /\ k.dead = h.dead /\ k.plan = h.plan /\ k.queued = h.queued
          /\ k.rows = h.rows /\ k.told = h.told /\ k.log = h.log /\ k.errors = errors
      BY <1>2, <3>3 DEF HarvestRun
    <3> QED
      BY <3>1, <3>4
  <2>4. k.dead \/ Closing(k, k.errors)
    <3> SUFFICES ASSUME Clean(h) PROVE Closing(k, k.errors)
      BY <1>2, <2>3
    <3>1. Closing(h, 1)
      BY <1>2, <1>5, <1>6, BrokenCloses
    <3>2. k.errors = 1
      BY <2>3 DEF Clean, Paced
    <3>3. Closing(k, 1)
      BY <2>3, <3>1, SameClosing
    <3> QED
      BY <3>2, <3>3
  <2> QED
    BY <1>1, <2>2, <2>3, <2>4, EndIsSound
<1>7. CASE ~(h.hits = <<>> \/ capped) /\ hit.kind # "broken" /\ foreign
  <2>1. g = [h EXCEPT !.pc = "persist", !.count = @ + 1, !.known = @ \cup {key}]
    BY <1>3, <1>7
  <2>2. key \in Keys /\ h.hits # <<>> /\ ~capped
    BY <1>5, <1>7
  <2> HIDE DEF key
  <2>3. /\ g \in HarvestRun /\ g.pc = "persist" /\ g.dead = h.dead /\ g.plan = h.plan
        /\ g.call = h.call /\ g.hits = h.hits /\ g.known = h.known \cup {key}
        /\ g.count = h.count + 1 /\ g.queued = h.queued
        /\ g.errors = h.errors /\ g.rows = h.rows /\ g.told = h.told /\ g.log = h.log
    <3>1. PICK asks, count, queued, errors \in Nat :
            /\ asks = h.call + 1 /\ count = h.count + 1
            /\ queued = h.queued + 1 /\ errors = h.errors + 1
      BY <1>2, CountersCount
    <3>2. PICK known \in SUBSET Keys : known = h.known \cup {key}
      BY <1>2, <2>2 DEF HarvestRun
    <3>3. g = [h EXCEPT !.pc = "persist", !.count = count, !.known = known]
      BY <2>1, <3>1, <3>2
    <3>4. /\ g \in HarvestRun /\ g.pc = "persist" /\ g.dead = h.dead /\ g.plan = h.plan
          /\ g.call = h.call /\ g.hits = h.hits /\ g.known = known
          /\ g.count = count /\ g.queued = h.queued
          /\ g.errors = h.errors /\ g.rows = h.rows /\ g.told = h.told /\ g.log = h.log
      BY <1>2, <3>3 DEF HarvestRun
    <3> QED
      BY <3>1, <3>2, <3>4
  <2>4. g.dead \/ Clean(g)
    BY <1>2, <1>7, <2>2, <2>3, PersistIsClean DEF key
  <2> QED
    BY <1>1, <2>2, <2>3, <2>4 DEF Sound
<1>8. CASE ~(h.hits = <<>> \/ capped) /\ hit.kind # "broken" /\ ~foreign
  <2>1. g = [h EXCEPT !.hits = Tail(@)]
    BY <1>3, <1>8
  <2>2. /\ g \in HarvestRun /\ g.pc = "take" /\ g.dead = h.dead /\ g.plan = h.plan
        /\ g.call = h.call /\ g.hits = Tail(h.hits) /\ g.known = h.known
        /\ g.count = h.count /\ g.queued = h.queued
        /\ g.errors = h.errors /\ g.rows = h.rows /\ g.told = h.told /\ g.log = h.log
    BY <1>2, <1>5, <1>8, <2>1 DEF HarvestRun
  <2>3. h.hits # <<>> /\ (hit.kind = "foreign" => source \in Remembers /\ key \in h.known)
    BY <1>5, <1>8
  <2>4. g.dead \/ Clean(g)
    BY <1>2, <2>2, <2>3, PassIsClean
  <2> QED
    BY <1>1, <2>2, <2>4, SoundParts
<1> QED
  BY <1>4, <1>6, <1>7, <1>8

\* A suspect is flushed, or the flush fails.
LEMMA FlushIsSound ==
    ASSUME Sound(harvest), Flush \/ FlushFails
    PROVE  Sound(harvest')
<1>1. PICK h, g : h = harvest /\ g = harvest'
  OBVIOUS
<1>2. /\ h \in HarvestRun /\ (h.dead \/ Clean(h)) /\ h.pc = "persist" /\ h.hits # <<>>
  BY <1>1 DEF Sound, Flush, FlushFails
<1>3. h.hits \in Seq(Hit) /\ Head(h.hits) \in Hit /\ Tail(h.hits) \in Seq(Hit)
  <2>1. h.hits \in Seq(Hit)
    BY <1>2 DEF HarvestRun
  <2> QED
    BY <1>2, <2>1, HeadTailProperties
<1>4. CASE Flush
  <2> DEFINE e == [at |-> TurnOf(h), call |-> h.call, hit |-> Head(h.hits)]
             grown == Append(h.rows, e)
  <2>1. grown \in Seq(HitRow)
    <3>1. e \in HitRow
      BY <1>2, <1>3, RunLists DEF HarvestRun, HitRow, TurnOf
    <3>2. h.rows \in Seq(HitRow)
      BY <1>2 DEF HarvestRun
    <3> QED
      BY <3>1, <3>2, AppendProperties
  <2>2. g = [h EXCEPT !.pc = "take", !.hits = Tail(@), !.queued = @ + 1, !.rows = grown]
    BY <1>1, <1>4 DEF Flush, TurnOf, Turn
  <2>3. h.dead = FALSE
    BY <1>1, <1>2, <1>4 DEF Flush, HarvestRun
  <2>4. grown = Append(h.rows, [at |-> TurnOf(h), call |-> h.call, hit |-> Head(h.hits)])
    OBVIOUS
  <2> HIDE DEF grown
  <2>5. /\ g \in HarvestRun /\ g.pc = "take" /\ g.plan = h.plan
        /\ g.call = h.call /\ g.hits = Tail(h.hits) /\ g.known = h.known
        /\ g.count = h.count /\ g.queued = h.queued + 1
        /\ g.errors = h.errors /\ g.rows = grown /\ g.told = h.told /\ g.log = h.log
    <3>1. PICK asks, count, queued, errors \in Nat :
            /\ asks = h.call + 1 /\ count = h.count + 1
            /\ queued = h.queued + 1 /\ errors = h.errors + 1
      BY <1>2, CountersCount
    <3>2. PICK tail \in Seq(Hit) : tail = Tail(h.hits)
      BY <1>3
    <3>3. g = [h EXCEPT !.pc = "take", !.hits = tail, !.queued = queued, !.rows = grown]
      BY <2>2, <3>1, <3>2
    <3>4. /\ g \in HarvestRun /\ g.pc = "take" /\ g.plan = h.plan
          /\ g.call = h.call /\ g.hits = tail /\ g.known = h.known
          /\ g.count = h.count /\ g.queued = queued
          /\ g.errors = h.errors /\ g.rows = grown /\ g.told = h.told /\ g.log = h.log
      BY <1>2, <2>1, <3>3 DEF HarvestRun
    <3> QED
      BY <3>1, <3>2, <3>4
  <2>6. Clean(g)
    BY <1>2, <2>3, <2>4, <2>5, FlushIsClean
  <2> QED
    BY <1>1, <2>5, <2>6, SoundParts
<1>5. CASE FlushFails
  <2>1. g = [h EXCEPT !.pc = "take", !.hits = Tail(@), !.errors = @ + 1, !.dead = TRUE]
    BY <1>1, <1>5 DEF FlushFails
  <2>2. g \in HarvestRun /\ g.pc = "take" /\ g.dead = TRUE
    <3>1. PICK asks, count, queued, errors \in Nat :
            /\ asks = h.call + 1 /\ count = h.count + 1
            /\ queued = h.queued + 1 /\ errors = h.errors + 1
      BY <1>2, CountersCount
    <3>2. g = [h EXCEPT !.pc = "take", !.hits = Tail(h.hits), !.errors = errors, !.dead = TRUE]
      BY <2>1, <3>1
    <3> QED
      BY <1>2, <1>3, <3>2 DEF HarvestRun
  <2> QED
    BY <1>1, <2>2, SoundParts
<1> QED
  BY <1>4, <1>5

\* The transaction commits, or raises.
LEMMA SettleIsSound ==
    ASSUME Sound(harvest), Settle
    PROVE  Sound(harvest')
<1>1. PICK h, g : h = harvest /\ g = harvest'
  OBVIOUS
<1>2. /\ h \in HarvestRun /\ (h.dead \/ Clean(h)) /\ h.pc = "ask" /\ TurnOf(h) > Len(h.plan)
  BY <1>1 DEF Sound, Settle, TurnOf, Turn
<1>3. CASE ~h.dead /\ g = [h EXCEPT !.pc = "kept"]
  <2>1. /\ g \in HarvestRun /\ g.pc = "kept" /\ g.dead = h.dead /\ g.plan = h.plan
        /\ g.call = h.call /\ g.queued = h.queued /\ g.errors = h.errors
        /\ g.rows = h.rows /\ g.told = h.told /\ g.log = h.log
    BY <1>2, <1>3 DEF HarvestRun
  <2>2. Clean(g)
    BY <1>2, <1>3, <2>1, KeptIsClean
  <2> QED
    BY <1>1, <1>3, <2>1, <2>2 DEF Sound
<1>4. CASE g = [h EXCEPT !.pc = "raised"]
  <2>1. g \in HarvestRun /\ g.pc = "raised"
    BY <1>2, <1>4 DEF HarvestRun
  <2> QED
    BY <1>1, <2>1 DEF Sound
<1> QED
  BY <1>1, <1>3, <1>4 DEF Settle

\* Every step keeps a run sound.
LEMMA HarvestInvNext == HarvestInv /\ [HarvestStep]_harvest => HarvestInv'
<1> SUFFICES ASSUME HarvestInv, [HarvestStep]_harvest
             PROVE  HarvestInv'
  OBVIOUS
<1>1. ASSUME NEW p \in Plans, BeginHarvest(p) PROVE HarvestInv'
  BY <1>1, BeginIsSound DEF HarvestInv
<1>2. ASSUME Ask \/ AskFails \/ Exhausted \/ Take \/ Flush \/ FlushFails \/ Settle
      PROVE  HarvestInv'
  <2>1. harvest # NoHarvest
    <3>1. harvest.pc # "none"
      BY <1>2, Zenon DEF Ask, AskFails, Exhausted, Take, Flush, FlushFails, Settle
    <3> QED
      BY <3>1 DEF NoHarvest
  <2>2. Sound(harvest)
    BY <2>1 DEF HarvestInv
  <2>3. Sound(harvest')
    BY <1>2, <2>2, AskIsSound, AskFailsIsSound, ExhaustedIsSound, TakeIsSound, FlushIsSound,
       SettleIsSound
  <2> QED
    BY <2>3 DEF HarvestInv
<1>3. CASE UNCHANGED harvest
  BY <1>3 DEF HarvestInv
<1> QED
  BY <1>1, <1>2, <1>3 DEF HarvestStep

(* What a run that returned has is honest. *)
LEMMA KeptIsHonest == HarvestInv => HarvestIsHonest
<1> SUFFICES ASSUME HarvestInv, harvest.pc = "kept"
             PROVE  HarvestIsHonest
  BY DEF HarvestIsHonest
<1>1. harvest # NoHarvest
  BY DEF NoHarvest
<1>2. harvest \in HarvestRun /\ Clean(harvest)
  BY <1>1 DEF HarvestInv, Sound
<1> DEFINE h == harvest
<1>4. h \in HarvestRun /\ Clean(h) /\ h.pc = "kept" /\ ~Looking(h)
  BY <1>2 DEF Looking
<1>5. Len(h.told) = Len(h.plan) /\ DOMAIN h.told = DOMAIN h.plan
  BY <1>4, RunLists DEF Clean, Paced
<1>6. ASSUME NEW i \in DOMAIN h.plan
      PROVE  /\ h.told[i].queued = Cardinality(Of(h, i))
             /\ h.told[i].errors \in {0, 1}
             /\ h.told[i].errors = 1 => Cut(h, i)
             /\ h.told[i].errors = 0 => CallsOf(h, i) = 1..Calls[h.plan[i]]
             /\ \A n \in Of(h, i) : h.rows[n].hit.kind = "foreign"
             /\ h.plan[i] \in Remembers =>
                  \A m, n \in Of(h, i) :
                     Key(h.plan[i], h.rows[m].hit) = Key(h.plan[i], h.rows[n].hit) => m = n
             /\ h.plan[i] = "social_media" =>
                  \A c \in 1..Calls[h.plan[i]] : Cardinality(OfCall(h, i, c)) <= MaxPerPlatform
  <2>1. /\ h.told[i].queued = Cardinality(Of(h, i))
        /\ h.told[i].errors \in {0, 1}
        /\ h.told[i].errors = 1 => Cut(h, i)
        /\ h.told[i].errors = 0 => CallsOf(h, i) = 1..Calls[h.plan[i]]
    BY <1>4, <1>5 DEF Clean, Told
  <2>2. \A n \in Of(h, i) : h.rows[n].hit.kind = "foreign"
    BY <1>4 DEF Clean, InOrder, Of
  <2>3. \A c \in 1..Calls[h.plan[i]] : c \in Nat
    <3>1. PICK m \in Nat : m = Calls[h.plan[i]]
      BY <1>4, RunLists
    <3> QED
      BY <3>1
  <2> QED
    BY <1>4, <2>1, <2>2, <2>3 DEF Clean, Remembered, Shared
<1>7. ASSUME NEW n \in DOMAIN h.log, NEW k \in DOMAIN h.log[n].hits,
             h.log[n].hits[k].kind = "foreign"
      PROVE  \/ \E m \in Of(h, h.log[n].at) : /\ h.rows[m].hit = h.log[n].hits[k]
                                             /\ h.rows[m].call = h.log[n].call
             \/ /\ h.plan[h.log[n].at] \in Remembers
                /\ \E m \in Of(h, h.log[n].at) :
                      Key(h.plan[h.log[n].at], h.rows[m].hit)
                        = Key(h.plan[h.log[n].at], h.log[n].hits[k])
             \/ /\ h.plan[h.log[n].at] = "social_media"
                /\ Cardinality(OfCall(h, h.log[n].at, h.log[n].call)) = MaxPerPlatform
             \/ /\ h.told[h.log[n].at].errors = 1
                /\ \E j \in 1..(k - 1) : h.log[n].hits[j].kind = "broken"
  BY <1>4, <1>7 DEF Clean, Seen, Kept, Full, Behind
<1>8. \A i, c : RowsOf(i, c) = OfCall(h, i, c)
  BY DEF OfCall, RowsOf
<1> DEFINE of(i) == {n \in DOMAIN h.rows : h.rows[n].at = i}
           cut(i) == \E n \in DOMAIN h.log :
                       /\ h.log[n].at = i
                       /\ \/ h.log[n].failed /\ h.plan[i] \notin SkipsFailures
                          \/ \E k \in DOMAIN h.log[n].hits : h.log[n].hits[k].kind = "broken"
<1>9. ASSUME NEW i \in DOMAIN h.plan
      PROVE  /\ h.told[i].queued = Cardinality(of(i))
             /\ h.told[i].errors \in {0, 1}
             /\ h.told[i].errors = 1 => cut(i)
             /\ h.told[i].errors = 0 =>
                  {h.log[n].call : n \in {m \in DOMAIN h.log : h.log[m].at = i}}
                     = 1..Calls[h.plan[i]]
             /\ \A n \in of(i) : h.rows[n].hit.kind = "foreign"
             /\ h.plan[i] \in Remembers =>
                  \A m, n \in of(i) :
                     Key(h.plan[i], h.rows[m].hit) = Key(h.plan[i], h.rows[n].hit) => m = n
             /\ h.plan[i] = "social_media" =>
                  \A c \in 1..Calls[h.plan[i]] : Cardinality(RowsOf(i, c)) <= MaxPerPlatform
  <2>1. of(i) = Of(h, i)
    BY DEF Of
  <2>2. Cut(h, i) => cut(i)
    BY DEF Cut
  <2>3. {h.log[n].call : n \in {m \in DOMAIN h.log : h.log[m].at = i}} = CallsOf(h, i)
    BY DEF CallsOf
  <2> HIDE DEF of, cut
  <2>4. /\ h.told[i].queued = Cardinality(of(i))
        /\ h.told[i].errors \in {0, 1}
        /\ h.told[i].errors = 1 => cut(i)
    BY <1>6, <2>1, <2>2
  <2>5. h.told[i].errors = 0 =>
          {h.log[n].call : n \in {m \in DOMAIN h.log : h.log[m].at = i}} = 1..Calls[h.plan[i]]
    BY <1>6, <2>3
  <2>6. /\ \A n \in of(i) : h.rows[n].hit.kind = "foreign"
        /\ h.plan[i] \in Remembers =>
             \A m, n \in of(i) :
                Key(h.plan[i], h.rows[m].hit) = Key(h.plan[i], h.rows[n].hit) => m = n
    BY <1>6, <2>1
  <2>7. h.plan[i] = "social_media" =>
          \A c \in 1..Calls[h.plan[i]] : Cardinality(RowsOf(i, c)) <= MaxPerPlatform
    BY <1>6, <1>8
  <2> QED
    BY <2>4, <2>5, <2>6, <2>7, Zenon
<1>10. ASSUME NEW n \in DOMAIN h.log, NEW k \in DOMAIN h.log[n].hits,
              h.log[n].hits[k].kind = "foreign"
       PROVE  \/ \E m \in of(h.log[n].at) : /\ h.rows[m].hit = h.log[n].hits[k]
                                           /\ h.rows[m].call = h.log[n].call
              \/ /\ h.plan[h.log[n].at] \in Remembers
                 /\ \E m \in of(h.log[n].at) :
                       Key(h.plan[h.log[n].at], h.rows[m].hit)
                         = Key(h.plan[h.log[n].at], h.log[n].hits[k])
              \/ /\ h.plan[h.log[n].at] = "social_media"
                 /\ Cardinality(RowsOf(h.log[n].at, h.log[n].call)) = MaxPerPlatform
              \/ /\ h.told[h.log[n].at].errors = 1
                 /\ \E j \in 1..(k - 1) : h.log[n].hits[j].kind = "broken"
  <2>1. of(h.log[n].at) = Of(h, h.log[n].at)
    BY DEF Of
  <2> HIDE DEF of
  <2> QED
    BY <1>7, <1>8, <1>10, <2>1
<1> HIDE DEF of, cut
<1> QED
  BY <1>5, <1>9, <1>10, Zenon DEF HarvestIsHonest, of, cut

(* A discovery run that returned has asked every source of its plan, its summaries *)
(* count what it stored, it counted an error exactly where a source was cut short, *)
(* and every foreign hit it was answered is stored or accounted for.               *)
THEOREM RunsAreHonest == HarvestSpec => []HarvestIsHonest
<1>1. HarvestInit => HarvestInv
  BY DEF HarvestInit, HarvestInv
<1> QED
  BY <1>1, HarvestInvNext, KeptIsHonest, PTL DEF HarvestSpec

-----------------------------------------------------------------------------
(* Delivery: the destinations *)

\* Every destination has one place in the order of the calls.
LEMMA OrderIsAnOrder ==
    /\ Stops = 7
    /\ \A i \in 1..Stops : Order[i] \in Dest
    /\ \A i, j \in 1..Stops : Order[i] = Order[j] => i = j
    /\ \A d \in Dest : \E i \in 1..Stops : Order[i] = d
<1>1. Stops = 7
  BY DEF Stops, Order
<1>2. /\ \A i \in 1..7 : Order[i] \in Dest
      /\ \A i, j \in 1..7 : Order[i] = Order[j] => i = j
  BY DEF Order, Dest
<1>3. \A d \in Dest : \E i \in 1..7 : Order[i] = d
  <2>1. /\ Order[1] = "slack" /\ Order[2] = "splunk" /\ Order[3] = "generic"
        /\ Order[4] = "servicenow" /\ Order[5] = "sentinel"
        /\ Order[6] = "pagerduty" /\ Order[7] = "taxii"
    BY DEF Order
  <2>2. 1 \in 1..7 /\ 2 \in 1..7 /\ 3 \in 1..7 /\ 4 \in 1..7 /\ 5 \in 1..7 /\ 6 \in 1..7 /\ 7 \in 1..7
    OBVIOUS
  <2> QED
    BY <2>1, <2>2, Zenon DEF Dest
<1> QED
  BY <1>1, <1>2, <1>3

-----------------------------------------------------------------------------
(* The invariant: what is known of a destination before, at and after its turn *)

\* the attempts of t all but the last of which ended without a clear answer
Repeated(t) == \A n \in 1..Len(t) : n < Len(t) => t[n].end \in {"busy", "silent"}
Ends(t, ends) == t # <<>> /\ t[Len(t)].end \in ends

Settled(a, d, t, s) ==
    /\ s = "none" => t = <<>> /\ ~Wants(a, d)
    /\ s = "ok" => Wants(a, d) /\ Ends(t, {"ok"})
    /\ s = "fail" => Wants(a, d) /\ Ends(t, {"refused", "busy", "silent"})
Here(a, d, pc, t, s) ==
    /\ s = "none"
    /\ pc = "waiting" => Wants(a, d) /\ Ends(t, {"open"})
    /\ pc = "broken" => Ends(t, {"garbled"})
    /\ pc \in {"idle", "ready"} => t = <<>> \/ (Wants(a, d) /\ Ends(t, {"busy", "silent"}))

Stage(a, i) ==
    LET d == Order[i]
        t == try[a][d]
        s == status[a][d]
    IN /\ Repeated(t)
       /\ i < job[a].at => Settled(a, d, t, s)
       /\ i = job[a].at => Here(a, d, job[a].pc, t, s)
       /\ i > job[a].at => t = <<>> /\ s = "none"

\* an answer is an answer to a request that arrived
Honest(t) == \A n \in 1..Len(t) : /\ t[n].end = "ok" => t[n].where = "accepted"
                                  /\ t[n].end = "refused" => t[n].where = "rejected"

DeliveryInv ==
    /\ DeliveryTypeOK
    /\ \A a \in Alert, i \in 1..Stops : Stage(a, i)
    /\ \A a \in Alert, d \in Dest : Honest(try[a][d])
    /\ \A a \in Alert : /\ job[a].pc \in {"waiting", "broken"} => job[a].at <= Stops
                        /\ job[a].pc = "done" => job[a].at = Stops + 1

-----------------------------------------------------------------------------
(* A step of one dispatch *)

\* The destination whose turn it is has a place in the order.
LEMMA TurnIsAPlace ==
    ASSUME DeliveryTypeOK, NEW a \in Alert
    PROVE  /\ job[a] \in Job /\ job[a].at \in 1..(Stops + 1)
           /\ job[a].at <= Stops =>
                job[a].at \in 1..Stops /\ At(a) = Order[job[a].at] /\ At(a) \in Dest
<1>1. job[a] \in Job
  BY DEF DeliveryTypeOK
<1>2. job[a].at \in 1..(Stops + 1)
  BY <1>1 DEF Job
<1>3. job[a].at <= Stops => job[a].at \in 1..Stops
  BY <1>2, OrderIsAnOrder
<1> QED
  BY <1>1, <1>2, <1>3, OrderIsAnOrder DEF At

\* A dispatch changes the attempts and the status of the destination whose turn
\* it is, and stays there or goes on to the next.
LEMMA TurnKeepsInv ==
    ASSUME DeliveryInv, DeliveryTypeOK', UNCHANGED pages,
           NEW a \in Alert, job[a].at <= Stops, NEW pc, NEW t, NEW s,
           job'[a].pc = pc,
           \A b \in Alert \ {a} : job'[b] = job[b],
           \A b \in Alert, e \in Dest :
              /\ try'[b][e] = IF b = a /\ e = At(a) THEN t ELSE try[b][e]
              /\ status'[b][e] = IF b = a /\ e = At(a) THEN s ELSE status[b][e],
           Repeated(t), Honest(t), pc # "done",
           \/ job'[a].at = job[a].at /\ Here(a, At(a), pc, t, s)
           \/ job'[a].at = job[a].at + 1 /\ pc = "ready" /\ Settled(a, At(a), t, s)
    PROVE  DeliveryInv'
<1> DEFINE at == job[a].at
<1>1. at \in 1..Stops /\ At(a) = Order[at] /\ At(a) \in Dest
  BY TurnIsAPlace DEF DeliveryInv
<1>2. \A b \in Alert, e \in Dest : Honest(try[b][e])'
  BY DEF DeliveryInv, Honest
<1>3. ASSUME NEW b \in Alert, NEW i \in 1..Stops PROVE Stage(b, i)'
  <2>1. Stage(b, i) /\ Order[i] \in Dest /\ (Order[i] = At(a) => i = at)
    BY <1>1, OrderIsAnOrder DEF DeliveryInv
  <2>2. CASE b # a
    <3>1. job'[b] = job[b] /\ try'[b][Order[i]] = try[b][Order[i]]
          /\ status'[b][Order[i]] = status[b][Order[i]]
      BY <2>1, <2>2
    <3> QED
      BY <2>1, <3>1 DEF Stage, Settled, Here, Wants
  <2>3. CASE b = a /\ i # at
    <3>1. try'[b][Order[i]] = try[b][Order[i]] /\ status'[b][Order[i]] = status[b][Order[i]]
      BY <2>1, <2>3
    <3>2. job'[a].at \in {at, at + 1} /\ at \in Nat /\ i \in Nat
      BY <1>1
    <3>3. i = job'[a].at => i > at /\ pc = "ready"
      BY <2>3, <3>2
    <3>4. i < job'[a].at => i < at
      BY <2>3, <3>2
    <3>5. i > job'[a].at => i > at
      BY <2>3, <3>2
    <3>6. CASE i = job'[a].at
      <4>1. try'[b][Order[i]] = <<>> /\ status'[b][Order[i]] = "none" /\ job'[b].pc = "ready"
        BY <2>1, <2>3, <3>1, <3>3, <3>6 DEF Stage
      <4>2. job'[b].at = i /\ ~(i < job'[b].at) /\ ~(i > job'[b].at)
        BY <2>3, <3>2, <3>6
      <4>3. Repeated(try'[b][Order[i]])
        BY <2>1, <2>3, <3>1 DEF Stage
      <4> QED
        BY <4>1, <4>2, <4>3 DEF Stage, Here, Repeated
    <3>7. CASE i # job'[a].at
      BY <2>1, <2>3, <3>1, <3>4, <3>5, <3>7 DEF Stage, Settled, Wants
    <3> QED
      BY <3>6, <3>7
  <2>4. CASE b = a /\ i = at
    <3>1. try'[b][Order[i]] = t /\ status'[b][Order[i]] = s
      BY <1>1, <2>1, <2>4
    <3>2. CASE job'[a].at = at /\ Here(a, At(a), pc, t, s)
      BY <1>1, <2>4, <3>1, <3>2 DEF Stage, Here, Wants
    <3>3. CASE job'[a].at = at + 1 /\ pc = "ready" /\ Settled(a, At(a), t, s)
      BY <1>1, <2>4, <3>1, <3>3 DEF Stage, Settled, Wants
    <3> QED
      BY <3>2, <3>3
  <2> QED
    BY <2>2, <2>3, <2>4
<1>4. ASSUME NEW b \in Alert
      PROVE  /\ job'[b].pc \in {"waiting", "broken"} => job'[b].at <= Stops
             /\ job'[b].pc = "done" => job'[b].at = Stops + 1
  BY <1>1 DEF DeliveryInv, Here
<1> QED
  BY <1>2, <1>3, <1>4 DEF DeliveryInv

\* Beginning, passing over a destination nobody wants told, and ending.
LEMMA WalkKeepsInv ==
    ASSUME DeliveryInv, NEW a \in Alert, Start(a) \/ Skip(a) \/ Finish(a)
    PROVE  DeliveryInv'
<1> USE DEF Due
<1>1. DeliveryTypeOK /\ job[a] \in Job /\ job[a].at \in 1..(Stops + 1) /\ Stops = 7
  BY TurnIsAPlace, OrderIsAnOrder DEF DeliveryInv
<1>2. ASSUME job[a].at <= Stops
      PROVE  /\ Stage(a, job[a].at) /\ At(a) = Order[job[a].at] /\ At(a) \in Dest
             /\ job[a].at \in 1..Stops /\ Honest(try[a][At(a)])
  BY <1>1, <1>2, TurnIsAPlace DEF DeliveryInv
<1>3. CASE Start(a)
  <2>1. job[a].pc = "idle" /\ job' = [job EXCEPT ![a].pc = "ready"]
        /\ UNCHANGED <<pages, try, status>>
    BY <1>3 DEF Start
  <2>2. /\ job'[a].pc = "ready" /\ job'[a].at = job[a].at
        /\ \A b \in Alert \ {a} : job'[b] = job[b]
        /\ DeliveryTypeOK'
    BY <1>1, <2>1 DEF DeliveryTypeOK, Job
  <2>3. CASE job[a].at <= Stops
    <3>1. Here(a, At(a), "ready", try[a][At(a)], status[a][At(a)]) /\ Repeated(try[a][At(a)])
      BY <1>2, <2>1, <2>3 DEF Stage, Here
    <3> QED
      BY <1>2, <2>1, <2>2, <2>3, <3>1, TurnKeepsInv
  <2>4. CASE job[a].at = Stops + 1
    <3>1. ASSUME NEW b \in Alert, NEW i \in 1..Stops PROVE Stage(b, i)'
      BY <1>1, <2>1, <2>2, <2>4, SMTT(30) DEF DeliveryInv, Stage, Settled, Here, Wants
    <3> QED
      BY <2>1, <2>2, <3>1 DEF DeliveryInv
  <2> QED
    BY <1>1, <2>3, <2>4
<1>4. CASE Skip(a)
  <2>1. /\ job[a].pc = "ready" /\ job[a].at <= Stops /\ ~Wants(a, At(a))
        /\ job' = [job EXCEPT ![a].at = @ + 1] /\ UNCHANGED <<pages, try, status>>
    BY <1>4 DEF Skip
  <2>2. /\ job'[a].pc = "ready" /\ job'[a].at = job[a].at + 1
        /\ \A b \in Alert \ {a} : job'[b] = job[b]
        /\ DeliveryTypeOK'
    <3>1. job'[a] = [job[a] EXCEPT !.at = @ + 1] /\ \A b \in Alert \ {a} : job'[b] = job[b]
      BY <1>1, <2>1 DEF DeliveryTypeOK
    <3>2. job[a].at + 1 \in 1..(Stops + 1)
      BY <1>1, <2>1
    <3>3. job'[a].pc = "ready" /\ job'[a].at = job[a].at + 1 /\ job'[a] \in Job
      BY <1>1, <2>1, <3>1, <3>2 DEF Job
    <3> QED
      BY <1>1, <2>1, <3>1, <3>3 DEF DeliveryTypeOK
  <2>3. Settled(a, At(a), try[a][At(a)], status[a][At(a)]) /\ Repeated(try[a][At(a)])
    BY <1>2, <2>1 DEF Stage, Here, Settled
  <2> QED
    BY <1>2, <2>1, <2>2, <2>3, TurnKeepsInv
<1>5. CASE Finish(a)
  <2>1. /\ job[a].at = Stops + 1 /\ job' = [job EXCEPT ![a].pc = "done"]
        /\ UNCHANGED <<pages, try, status>>
    BY <1>5 DEF Finish
  <2>2. /\ job'[a].pc = "done" /\ job'[a].at = Stops + 1
        /\ \A b \in Alert \ {a} : job'[b] = job[b]
        /\ DeliveryTypeOK'
    BY <1>1, <2>1 DEF DeliveryTypeOK, Job
  <2>3. ASSUME NEW b \in Alert, NEW i \in 1..Stops PROVE Stage(b, i)'
    BY <1>1, <2>1, <2>2, SMTT(30) DEF DeliveryInv, Stage, Settled, Here, Wants
  <2> QED
    BY <2>1, <2>2, <2>3 DEF DeliveryInv
<1> QED
  BY <1>3, <1>4, <1>5

\* A request is sent: one more attempt at the destination whose turn it is.
LEMMA SendKeepsInv ==
    ASSUME DeliveryInv, NEW a \in Alert, Send(a)
    PROVE  DeliveryInv'
<1> DEFINE r == [where |-> "wire", end |-> "open"]
           old == try[a][At(a)]
           t == Append(old, r)
<1>1. /\ job[a].pc = "ready" /\ job[a].at <= Stops /\ Wants(a, At(a))
      /\ try' = [try EXCEPT ![a][At(a)] = t] /\ job' = [job EXCEPT ![a].pc = "waiting"]
      /\ UNCHANGED <<pages, status>>
  BY DEF Send, Due
<1>2. /\ DeliveryTypeOK /\ job[a] \in Job /\ At(a) = Order[job[a].at] /\ At(a) \in Dest
      /\ Stage(a, job[a].at) /\ Honest(old)
  BY <1>1, TurnIsAPlace DEF DeliveryInv
<1>3. old \in Seq(Attempt) /\ r \in Attempt
  BY <1>2 DEF DeliveryTypeOK, Attempt
<1>4. /\ t \in Seq(Attempt) /\ Len(t) = Len(old) + 1 /\ Len(old) \in Nat
      /\ t[Len(old) + 1] = r /\ \A n \in 1..Len(old) : t[n] = old[n]
  BY <1>3
<1>5. /\ job'[a].pc = "waiting" /\ job'[a].at = job[a].at
      /\ \A b \in Alert \ {a} : job'[b] = job[b]
      /\ \A b \in Alert, e \in Dest :
           /\ try'[b][e] = IF b = a /\ e = At(a) THEN t ELSE try[b][e]
           /\ status'[b][e] = status[b][e]
  <2> HIDE DEF t
  <2> QED
    BY <1>1, <1>2 DEF DeliveryTypeOK, Job
<1>6. DeliveryTypeOK'
  <2> HIDE DEF t
  <2> QED
    BY <1>1, <1>2, <1>4, Zenon DEF DeliveryTypeOK, Job
<1>7. Repeated(old) /\ status[a][At(a)] = "none" /\ (old = <<>> \/ Ends(old, {"busy", "silent"}))
  BY <1>1, <1>2, Zenon DEF Stage, Here
<1>8. Repeated(t) /\ Honest(t) /\ Ends(t, {"open"})
  <2> HIDE DEF t, old
  <2>1. \A n \in 1..Len(old) : old[n].end \in {"busy", "silent"}
    BY <1>4, <1>7 DEF Repeated, Ends
  <2>2. \A n \in 1..Len(t) : n \in 1..Len(old) \/ n = Len(old) + 1
    BY <1>4
  <2> QED
    BY <1>2, <1>4, <2>1, <2>2 DEF Repeated, Honest, Ends
<1>9. Here(a, At(a), "waiting", t, status[a][At(a)])
  BY <1>1, <1>7, <1>8 DEF Here
<1> QED
  BY <1>1, <1>5, <1>6, <1>8, <1>9, TurnKeepsInv, SMTT(30)

\* The sender's turn ends: its last attempt gets an end, and the dispatch stays
\* for another attempt, goes on, or breaks.
LEMMA AnswerKeepsInv ==
    ASSUME DeliveryInv, NEW a \in Alert, NEW end, NEW where, Answered(a, where, end),
           end \in {"ok", "refused", "busy", "silent", "garbled"},
           where \subseteq {"wire", "accepted", "rejected"},
           end = "ok" => where = {"accepted"}, end = "refused" => where = {"rejected"},
           \/ end = "ok" /\ Settles(a, "ok")
           \/ end \in {"refused", "busy", "silent"} /\ Settles(a, "fail")
           \/ end \in {"busy", "silent"} /\ job' = [job EXCEPT ![a].pc = "ready"]
              /\ UNCHANGED status
           \/ end = "garbled" /\ job' = [job EXCEPT ![a].pc = "broken"] /\ UNCHANGED status
    PROVE  DeliveryInv'
<1> DEFINE old == try[a][At(a)]
           t == [old EXCEPT ![Len(old)].end = end]
<1>1. /\ job[a].pc = "waiting" /\ job[a].at <= Stops
      /\ old[Len(old)].where \in where
      /\ try' = [try EXCEPT ![a][At(a)] = t] /\ UNCHANGED pages
  BY DEF Answered, Due, Tried
<1>2. /\ DeliveryTypeOK /\ job[a] \in Job /\ At(a) = Order[job[a].at] /\ At(a) \in Dest
      /\ Stage(a, job[a].at) /\ Honest(old) /\ job[a].at \in 1..Stops /\ Stops = 7
  BY <1>1, TurnIsAPlace, OrderIsAnOrder, SMTT(30) DEF DeliveryInv
<1>3. old \in Seq(Attempt)
  BY <1>2 DEF DeliveryTypeOK
<1>4. Repeated(old) /\ Ends(old, {"open"}) /\ Wants(a, At(a)) /\ status[a][At(a)] = "none"
  BY <1>1, <1>2, Zenon DEF Stage, Here
<1>5. Len(old) \in 1..Len(old) /\ old[Len(old)] \in Attempt
  BY <1>3, <1>4 DEF Ends
<1>6. /\ t \in Seq(Attempt) /\ Len(t) = Len(old) /\ Len(t) \in Nat
      /\ t[Len(t)].end = end /\ t[Len(t)].where = old[Len(old)].where
      /\ \A n \in 1..Len(t) : n # Len(t) => t[n] = old[n]
  <2>1. /\ [old[Len(old)] EXCEPT !.end = end] \in Attempt
        /\ [old[Len(old)] EXCEPT !.end = end].end = end
        /\ [old[Len(old)] EXCEPT !.end = end].where = old[Len(old)].where
    BY <1>5 DEF Attempt
  <2> HIDE DEF old
  <2> QED
    BY <1>3, <1>5, <2>1
<1>7. Repeated(t) /\ Honest(t) /\ Ends(t, {end})
  <2> HIDE DEF t, old
  <2>1. Repeated(t) /\ Ends(t, {end})
    BY <1>4, <1>5, <1>6 DEF Repeated, Ends
  <2>2. Honest(t)
    BY <1>1, <1>2, <1>6, SMTT(30) DEF Honest
  <2> QED
    BY <2>1, <2>2
<1>8. /\ \A b \in Alert, e \in Dest :
             try'[b][e] = IF b = a /\ e = At(a) THEN t ELSE try[b][e]
      /\ try' \in [Alert -> [Dest -> Seq(Attempt)]]
  <2> HIDE DEF t
  <2> QED
    BY <1>1, <1>2, <1>6, Zenon DEF DeliveryTypeOK
<1> HIDE DEF t, old
<1>9. ASSUME NEW result \in {"ok", "fail"}, Settles(a, result),
             result = "ok" => end = "ok", result = "fail" => end \in {"refused", "busy", "silent"}
      PROVE  DeliveryInv'
  <2>1. /\ status' = [status EXCEPT ![a][At(a)] = result]
        /\ job' = [job EXCEPT ![a] = [pc |-> "ready", at |-> job[a].at + 1]]
    BY <1>9 DEF Settles
  <2>2. [pc |-> "ready", at |-> job[a].at + 1] \in Job
    BY <1>2 DEF Job
  <2>3. /\ job'[a].pc = "ready" /\ job'[a].at = job[a].at + 1
        /\ \A b \in Alert \ {a} : job'[b] = job[b]
        /\ \A b \in Alert, e \in Dest :
              status'[b][e] = IF b = a /\ e = At(a) THEN result ELSE status[b][e]
    BY <1>2, <2>1 DEF DeliveryTypeOK
  <2>4. DeliveryTypeOK'
    BY <1>1, <1>2, <1>8, <2>1, <2>2 DEF DeliveryTypeOK
  <2>5. Settled(a, At(a), t, result)
    BY <1>4, <1>7, <1>9 DEF Settled, Ends
  <2> QED
    BY <1>1, <1>7, <1>8, <2>3, <2>4, <2>5, TurnKeepsInv
<1>10. ASSUME NEW pc \in {"ready", "broken"}, job' = [job EXCEPT ![a].pc = pc], UNCHANGED status,
              pc = "ready" => end \in {"busy", "silent"}, pc = "broken" => end = "garbled"
       PROVE  DeliveryInv'
  <2>1. /\ job'[a].pc = pc /\ job'[a].at = job[a].at
        /\ \A b \in Alert \ {a} : job'[b] = job[b]
        /\ DeliveryTypeOK'
    BY <1>1, <1>2, <1>8, <1>10 DEF DeliveryTypeOK, Job
  <2>2. Here(a, At(a), pc, t, status[a][At(a)])
    BY <1>4, <1>7, <1>10 DEF Here, Ends
  <2>3. \A b \in Alert, e \in Dest :
           /\ try'[b][e] = IF b = a /\ e = At(a) THEN t ELSE try[b][e]
           /\ status'[b][e] = IF b = a /\ e = At(a) THEN status[a][At(a)] ELSE status[b][e]
    BY <1>8, <1>10
  <2>4. pc # "done" /\ job[a].at <= Stops /\ UNCHANGED pages /\ Repeated(t) /\ Honest(t)
    BY <1>1, <1>7
  <2> QED
    BY <2>1, <2>2, <2>3, <2>4, TurnKeepsInv
<1> QED
  BY <1>9, <1>10

\* The network gets at a request, and its attempt keeps the end it has.
LEMMA ArriveKeepsInv ==
    ASSUME DeliveryInv, NEW a \in Alert, NEW d \in Dest, NEW n \in 1..Len(try[a][d]),
           NEW where \in {"accepted", "rejected"}, Arrive(a, d, n, where)
    PROVE  DeliveryInv'
<1> DEFINE old == try[a][d]
           t == [old EXCEPT ![n].where = where]
<1>1. /\ DeliveryTypeOK /\ old[n].where = "wire" /\ try' = [try EXCEPT ![a][d] = t]
      /\ UNCHANGED <<pages, job, status>>
  BY DEF Arrive, DeliveryInv
<1>2. old \in Seq(Attempt) /\ n \in 1..Len(old) /\ Honest(old)
  BY <1>1 DEF DeliveryTypeOK, DeliveryInv
<1>3. old[n] \in Attempt
  BY <1>2
<1>4. /\ t \in Seq(Attempt) /\ Len(t) = Len(old)
      /\ \A m \in 1..Len(old) : t[m].end = old[m].end /\ (m # n => t[m] = old[m])
      /\ t = <<>> <=> old = <<>>
  <2>1. [old[n] EXCEPT !.where = where] \in Attempt
        /\ [old[n] EXCEPT !.where = where].end = old[n].end
    BY <1>3 DEF Attempt
  <2> HIDE DEF old
  <2> QED
    BY <1>2, <2>1
<1>5. Honest(t)
  <2>1. old[n].end \notin {"ok", "refused"}
    BY <1>1, <1>2 DEF Honest
  <2> HIDE DEF t, old
  <2> QED
    BY <1>2, <1>4, <2>1 DEF Honest
<1> HIDE DEF t, old
<1>6. /\ \A b \in Alert, e \in Dest : try'[b][e] = IF b = a /\ e = d THEN t ELSE try[b][e]
      /\ DeliveryTypeOK'
  BY <1>1, <1>4 DEF DeliveryTypeOK
<1>7. \A b \in Alert, e \in Dest :
        /\ Len(try'[b][e]) = Len(try[b][e])
        /\ \A m \in 1..Len(try[b][e]) : try'[b][e][m].end = try[b][e][m].end
        /\ try'[b][e] = <<>> <=> try[b][e] = <<>>
        /\ Honest(try'[b][e])
  BY <1>4, <1>5, <1>6, SMTT(30) DEF old, DeliveryInv
<1>8. ASSUME NEW b \in Alert, NEW i \in 1..Stops PROVE Stage(b, i)'
  <2>1. Stage(b, i) /\ Order[i] \in Dest
    BY OrderIsAnOrder DEF DeliveryInv
  <2>7. try[b][Order[i]] \in Seq(Attempt)
    BY <1>1, <2>1 DEF DeliveryTypeOK
  <2> DEFINE x == try[b][Order[i]]
             y == try'[b][Order[i]]
  <2>2. /\ x \in Seq(Attempt) /\ Len(y) = Len(x) /\ (y = <<>> <=> x = <<>>)
        /\ \A m \in 1..Len(x) : y[m].end = x[m].end
    BY <1>7, <2>1, <2>7
  <2>3. Repeated(x) => Repeated(y)
    <3> HIDE DEF x, y
    <3> QED
      BY <2>2 DEF Repeated
  <2>4. \A ends : Ends(x, ends) => Ends(y, ends)
    <3>1. x # <<>> => Len(x) \in 1..Len(x)
      BY <2>2
    <3> HIDE DEF x, y
    <3> QED
      BY <2>2, <3>1 DEF Ends
  <2>5. /\ \A s : Settled(b, Order[i], x, s) => Settled(b, Order[i], y, s)
        /\ \A pc, s : Here(b, Order[i], pc, x, s) => Here(b, Order[i], pc, y, s)
    <3> HIDE DEF x, y
    <3> QED
      BY <2>2, <2>4 DEF Settled, Here
  <2>6. Wants(b, Order[i])' <=> Wants(b, Order[i])
    BY <1>1 DEF Wants
  <2>8. /\ Repeated(y)
        /\ i < job[b].at => Settled(b, Order[i], y, status[b][Order[i]])
        /\ i = job[b].at => Here(b, Order[i], job[b].pc, y, status[b][Order[i]])
        /\ i > job[b].at => y = <<>> /\ status[b][Order[i]] = "none"
    <3> HIDE DEF y
    <3> QED
      BY <2>1, <2>2, <2>3, <2>5 DEF Stage
  <2> QED
    BY <1>1, <2>6, <2>8 DEF Stage, Settled, Here, Wants
<1> QED
  BY <1>1, <1>6, <1>7, <1>8 DEF DeliveryInv

-----------------------------------------------------------------------------
\* Every step of the sender and of the network keeps the invariant.
LEMMA StepKeepsDelivery ==
    ASSUME DeliveryInv, [DeliveryNext]_deliveryVars
    PROVE  DeliveryInv'
<1>1. CASE UNCHANGED deliveryVars
  BY <1>1 DEF deliveryVars, DeliveryInv, DeliveryTypeOK, Stage, Settled, Here, Wants, Honest
<1>2. ASSUME NEW a \in Alert, Dispatch(a) PROVE DeliveryInv'
  <2>1. CASE Start(a) \/ Skip(a) \/ Finish(a)
    BY <2>1, WalkKeepsInv
  <2>2. CASE Send(a)
    BY <2>2, SendKeepsInv
  <2>3. CASE Succeed(a)
    <3>1. Answered(a, {"accepted"}, "ok") /\ Settles(a, "ok")
      BY <2>3 DEF Succeed
    <3> QED
      BY <3>1, AnswerKeepsInv
  <2>4. CASE Refuse(a)
    <3>1. Answered(a, {"rejected"}, "refused") /\ Settles(a, "fail")
      BY <2>4 DEF Refuse
    <3> QED
      BY <3>1, AnswerKeepsInv
  <2>5. CASE Busy(a)
    <3>1. Answered(a, {"accepted", "rejected"}, "busy")
          /\ (Settles(a, "fail") \/ (job' = [job EXCEPT ![a].pc = "ready"] /\ UNCHANGED status))
      BY <2>5 DEF Busy, Again
    <3> QED
      BY <3>1, AnswerKeepsInv
  <2>6. CASE TimeOut(a)
    <3>1. Answered(a, {"wire", "accepted", "rejected"}, "silent")
          /\ (Settles(a, "fail") \/ (job' = [job EXCEPT ![a].pc = "ready"] /\ UNCHANGED status))
      BY <2>6 DEF TimeOut, Again
    <3> QED
      BY <3>1, AnswerKeepsInv
  <2>7. CASE Garble(a)
    <3>1. Answered(a, {"accepted", "rejected"}, "garbled")
          /\ job' = [job EXCEPT ![a].pc = "broken"] /\ UNCHANGED status
      BY <2>7 DEF Garble
    <3> QED
      BY <3>1, AnswerKeepsInv
  <2> QED
    BY <1>2, <2>1, <2>2, <2>3, <2>4, <2>5, <2>6, <2>7 DEF Dispatch
<1>3. CASE Network
  BY <1>3, ArriveKeepsInv DEF Network
<1> QED
  BY <1>1, <1>2, <1>3 DEF DeliveryNext

\* Nothing has been sent when the sweep begins.
LEMMA InitHasDelivery == ASSUME DeliveryInit PROVE DeliveryInv
<1>1. Stops = 7
  BY OrderIsAnOrder
<1>2. DeliveryTypeOK
  BY <1>1 DEF DeliveryInit, DeliveryTypeOK, Job
<1>3. ASSUME NEW a \in Alert, NEW i \in 1..Stops PROVE Stage(a, i)
  <2>1. /\ Order[i] \in Dest /\ try[a][Order[i]] = <<>> /\ status[a][Order[i]] = "none"
        /\ job[a].pc = "idle" /\ job[a].at = 1
    BY <1>3, OrderIsAnOrder DEF DeliveryInit
  <2>2. ~(i < job[a].at)
    BY <1>1, <2>1
  <2> QED
    BY <2>1, <2>2 DEF Stage, Here, Repeated
<1>4. \A a \in Alert, d \in Dest : Honest(try[a][d])
  BY DEF DeliveryInit, Honest
<1> QED
  BY <1>2, <1>3, <1>4 DEF DeliveryInit, DeliveryInv

\* The invariant holds of every dispatch.
LEMMA DeliveryInvariant == DeliverySpec => []DeliveryInv
  BY InitHasDelivery, StepKeepsDelivery, PTL DEF DeliverySpec

\* A second copy of an alert, an "ok" and a "fail" are what dispatch_alert and
\* post_with_retry can justify, whatever the network does to the requests and
\* their answers.
THEOREM CopiesAlwaysExplained == DeliverySpec => []CopiesAreExplained
<1>1. ASSUME DeliveryInv, NEW a \in Alert, NEW d \in Dest
      PROVE  LET t == try[a][d]
                 unclear == {n \in DOMAIN t : t[n].end \in {"busy", "silent"}}
             IN /\ status[a][d] = "ok" => t # <<>> /\ Len(t) \in Accepted(a, d) \ unclear
                /\ status[a][d] = "fail" /\ Accepted(a, d) # {} => unclear # {}
                /\ \A n \in 1..Len(t) : n < Len(t) => n \in unclear
  <2> DEFINE t == try[a][d]
             unclear == {n \in DOMAIN t : t[n].end \in {"busy", "silent"}}
  <2>1. PICK i \in 1..Stops : Order[i] = d
    BY OrderIsAnOrder
  <2>2. /\ Stage(a, i) /\ Honest(t) /\ t \in Seq(Attempt) /\ Stops = 7
        /\ job[a].at \in 1..(Stops + 1) /\ DOMAIN t = 1..Len(t)
    <3>1. Stage(a, i) /\ Honest(t) /\ DeliveryTypeOK
      BY <1>1 DEF DeliveryInv
    <3>2. t \in Seq(Attempt)
      BY <3>1 DEF DeliveryTypeOK
    <3>3. Stops = 7 /\ job[a].at \in 1..(Stops + 1)
      BY <3>1, TurnIsAPlace, OrderIsAnOrder
    <3>4. DOMAIN t = 1..Len(t)
      <4> HIDE DEF t
      <4> QED
        BY <3>2
    <3> QED
      BY <3>1, <3>2, <3>3, <3>4
  <2>3. Repeated(t)
    BY <2>1, <2>2 DEF Stage
  <2>4. status[a][d] # "none" => Settled(a, d, t, status[a][d])
    <3>1. i < job[a].at \/ i = job[a].at \/ i > job[a].at
      BY <2>2
    <3> QED
      BY <2>1, <2>2, <3>1 DEF Stage, Here
  <2>5. t # <<>> => Len(t) \in 1..Len(t)
    BY <2>2
  <2>6. Accepted(a, d) = {n \in 1..Len(t) : t[n].where = "accepted"}
    BY DEF Accepted
  <2> HIDE DEF t
  <2>7. \A n \in 1..Len(t) : n < Len(t) => n \in unclear
    BY <2>2, <2>3 DEF Repeated
  <2>8. status[a][d] = "ok" => t # <<>> /\ Len(t) \in Accepted(a, d) \ unclear
    BY <2>2, <2>4, <2>5, <2>6 DEF Settled, Ends, Honest
  <2>9. status[a][d] = "fail" /\ Accepted(a, d) # {} => unclear # {}
    <3>1. ASSUME status[a][d] = "fail", NEW n \in Accepted(a, d) PROVE unclear # {}
      <4>1. n \in 1..Len(t) /\ t[n].where = "accepted" /\ Len(t) \in Nat
        BY <2>2, <2>6, <3>1
      <4>2. CASE n < Len(t)
        BY <2>7, <4>1, <4>2
      <4>3. CASE n = Len(t)
        <5>1. t[n].end \in {"refused", "busy", "silent"}
          BY <2>4, <3>1, <4>3 DEF Settled, Ends
        <5>2. t[n].end # "refused"
          BY <2>2, <4>1 DEF Honest
        <5> QED
          BY <2>2, <4>1, <5>1, <5>2
      <4> QED
        BY <4>1, <4>2, <4>3
    <3> QED
      BY <3>1
  <2> QED
    BY <2>7, <2>8, <2>9 DEF t
<1>2. DeliveryInv => CopiesAreExplained
  BY <1>1 DEF CopiesAreExplained
<1> QED
  BY <1>2, DeliveryInvariant, PTL

\* dispatch_alert asks every destination in turn: a dispatch that ends has an
\* outcome for each that wanted the alert, and one that an uncaught exception
\* broke has lost exactly the destinations from there on.
THEOREM NobodyEverSkipped == DeliverySpec => []NobodyIsSkipped
<1>1. ASSUME DeliveryInv, NEW a \in Alert, NEW i \in 1..Stops, Wants(a, Order[i])
      PROVE  /\ job[a].pc = "done" => status[a][Order[i]] # "none"
             /\ job[a].pc = "broken" =>
                  /\ i < job[a].at <=> status[a][Order[i]] # "none"
                  /\ i > job[a].at => try[a][Order[i]] = <<>>
  <2>1. /\ Stage(a, i) /\ Stops = 7 /\ job[a].at \in 1..(Stops + 1)
        /\ job[a].pc = "done" => job[a].at = Stops + 1
    BY <1>1, TurnIsAPlace, OrderIsAnOrder DEF DeliveryInv
  <2>2. CASE i < job[a].at
    <3>1. status[a][Order[i]] # "none"
      BY <1>1, <2>1, <2>2 DEF Stage, Settled
    <3> QED
      BY <2>1, <2>2, <3>1
  <2>3. CASE i = job[a].at
    <3>1. status[a][Order[i]] = "none"
      BY <2>1, <2>3 DEF Stage, Here
    <3> QED
      BY <2>1, <2>3, <3>1
  <2>4. CASE i > job[a].at
    <3>1. status[a][Order[i]] = "none" /\ try[a][Order[i]] = <<>>
      BY <2>1, <2>4 DEF Stage
    <3> QED
      BY <2>1, <2>4, <3>1
  <2> QED
    BY <2>1, <2>2, <2>3, <2>4
<1>2. DeliveryInv => NobodyIsSkipped
  BY <1>1 DEF NobodyIsSkipped
<1> QED
  BY <1>2, DeliveryInvariant, PTL
=============================================================================
