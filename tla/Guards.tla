------------------------------- MODULE Guards -------------------------------
(***************************************************************************)
(* Two in-memory helpers of src/common for routes to put before an action: *)
(* IdempotencyStore.execute, called by the threads of one worker, and the  *)
(* token bucket of TokenBucketRateLimiter for one tenant.                  *)
(***************************************************************************)
EXTENDS Integers, FiniteSets

CONSTANTS
    Caller,      \* threads
    IdKey,       \* pairs of tenant and idempotency key
    MaxCalls,    \* bound: calls of execute
    Capacity,    \* tokens of a full bucket
    Refill,      \* tokens per unit of time
    MaxNow       \* bound: the clock

ASSUME CallerAssumption == IsFiniteSet(Caller)
ASSUME GuardAssumption == {MaxCalls, Capacity, Refill, MaxNow} \subseteq Nat

VARIABLES
    store,    \* what is remembered under each key: 0 is nothing
    call,     \* what each thread is doing
    calls,    \* calls begun
    ran,      \* executions of the action, per key
    lost,     \* executions that raised or returned None, per key
    raced,    \* executions begun while another of the key was under way
    bucket,   \* tokens and last, or no bucket yet
    now,      \* the clock
    granted   \* tokens granted so far

guardVars == <<store, call, calls, ran, lost, raced, bucket, now, granted>>
storeVars == <<store, call, calls, ran, lost, raced>>
bucketVars == <<bucket, now, granted>>

-----------------------------------------------------------------------------
Result == 1..MaxCalls   \* the n-th call's result
NoCall == [pc |-> "idle"]
Calling == [pc: {"missed", "running", "got"}, key: IdKey, id: Result]

NoBucket == [tokens |-> Capacity, last |-> 0, exists |-> FALSE]

GuardTypeOK ==
    /\ store \in [IdKey -> 0..MaxCalls]
    /\ call \in [Caller -> {NoCall} \cup Calling]
    /\ calls \in 0..MaxCalls
    /\ ran \in [IdKey -> Nat] /\ lost \in [IdKey -> Nat] /\ raced \in [IdKey -> Nat]
    /\ bucket \in [tokens: 0..Capacity, last: Nat, exists: BOOLEAN]
    /\ now \in Nat
    /\ granted \in Nat

GuardInit ==
    /\ store = [k \in IdKey |-> 0]
    /\ call = [c \in Caller |-> NoCall]
    /\ calls = 0
    /\ ran = [k \in IdKey |-> 0]
    /\ lost = [k \in IdKey |-> 0]
    /\ raced = [k \in IdKey |-> 0]
    /\ bucket = NoBucket
    /\ now = 0
    /\ granted = 0

\* threads between the test and the end of remember for a key
Under(k) == {c \in Caller : call[c] # NoCall /\ call[c].key = k}

-----------------------------------------------------------------------------
\* get, under the lock: a stored result is returned at once
Replay(c, k) ==
    /\ call[c] = NoCall
    /\ calls < MaxCalls
    /\ store[k] # 0
    /\ calls' = calls + 1
    /\ UNCHANGED <<store, call, ran, lost, raced, bucketVars>>

\* mutant: what is stored is not looked at
Miss_Always(c, k) ==
    /\ call[c] = NoCall
    /\ calls < MaxCalls
    /\ calls' = calls + 1
    /\ call' = [call EXCEPT ![c] = [pc |-> "missed", key |-> k, id |-> calls + 1]]
    /\ raced' = [raced EXCEPT ![k] = IF Under(k) = {} THEN @ ELSE @ + 1]
    /\ UNCHANGED <<store, ran, lost, bucketVars>>
Miss(c, k) ==
    /\ call[c] = NoCall
    /\ calls < MaxCalls
    /\ store[k] = 0
    /\ calls' = calls + 1
    /\ call' = [call EXCEPT ![c] = [pc |-> "missed", key |-> k, id |-> calls + 1]]
    /\ raced' = [raced EXCEPT ![k] = IF Under(k) = {} THEN @ ELSE @ + 1]
    /\ UNCHANGED <<store, ran, lost, bucketVars>>

\* fn, without the lock
Run(c) ==
    /\ call[c] # NoCall /\ call[c].pc = "missed"
    /\ call' = [call EXCEPT ![c].pc = "running"]
    /\ ran' = [ran EXCEPT ![call[c].key] = @ + 1]
    /\ UNCHANGED <<store, calls, lost, raced, bucketVars>>

Returns(c) ==
    /\ call[c] # NoCall /\ call[c].pc = "running"
    /\ call' = [call EXCEPT ![c].pc = "got"]
    /\ UNCHANGED <<store, calls, ran, lost, raced, bucketVars>>

\* fn raises, or returns None, which get cannot tell from nothing
ReturnsNothing(c) ==
    /\ call[c] # NoCall /\ call[c].pc = "running"
    /\ lost' = [lost EXCEPT ![call[c].key] = @ + 1]
    /\ call' = [call EXCEPT ![c] = NoCall]
    /\ UNCHANGED <<store, calls, ran, raced, bucketVars>>

\* remember, under the lock: the last one to finish wins
Remember(c) ==
    /\ call[c] # NoCall /\ call[c].pc = "got"
    /\ store' = [store EXCEPT ![call[c].key] = call[c].id]
    /\ call' = [call EXCEPT ![c] = NoCall]
    /\ UNCHANGED <<calls, ran, lost, raced, bucketVars>>

-----------------------------------------------------------------------------
Tick == /\ now < MaxNow
        /\ now' = now + 1
        /\ UNCHANGED <<storeVars, bucket, granted>>

\* allow, all of it under the lock: refill by the time that passed, then take
Level(cap, tokens, elapsed) ==
    IF tokens + elapsed * Refill < cap THEN tokens + elapsed * Refill ELSE cap

Allow(cost) ==
    LET last == IF bucket.exists THEN bucket.last ELSE now
        full == Level(Capacity, bucket.tokens, now - last)
        ok == full >= cost
    IN /\ bucket' = [tokens |-> IF ok THEN full - cost ELSE full,
                     last |-> now, exists |-> TRUE]
       /\ granted' = IF ok THEN granted + cost ELSE granted
       /\ UNCHANGED <<storeVars, now>>

GuardNext ==
    \/ \E c \in Caller :
        \/ \E k \in IdKey : Replay(c, k) \/ Miss(c, k)
        \/ Run(c) \/ Returns(c) \/ ReturnsNothing(c) \/ Remember(c)
    \/ Tick
    \/ \E cost \in 1..Capacity : Allow(cost)

GuardSpec == GuardInit /\ [][GuardNext]_guardVars

-----------------------------------------------------------------------------
\* An action runs once under a key, plus once for every call that began while
\* another was under way, plus once for every run that left nothing to replay:
\* execute tests and remembers under its lock and runs between the two.
OncePerKey == \A k \in IdKey : ran[k] <= 1 + raced[k] + lost[k]

\* A tenant is never granted more than a full bucket and what has flowed in
\* since the first request.
BucketHolds == granted + bucket.tokens <= Capacity + now * Refill

GuardsHold == OncePerKey /\ BucketHolds
=============================================================================
