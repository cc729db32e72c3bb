---------------------------- MODULE CostEnvelope ----------------------------
(***************************************************************************)
(* The spending envelope in front of every Bright Data call:               *)
(* CostTracker.record (src/integrations/brightdata/cost.py), reached from  *)
(* BrightDataClient.call (src/integrations/brightdata/base.py).  record    *)
(* tests _throttled before it takes the tracker's lock and books under the *)
(* lock, so several threads may have passed the test when the throttle     *)
(* engages.  The tracker is one object per process; reset() is left out,   *)
(* because nothing but the tests calls it.  Money is counted in whole      *)
(* units, the rounding to six decimals is not modelled.                    *)
(***************************************************************************)
EXTENDS Naturals, FiniteSets

CONSTANTS
    Caller,     \* threads that may call a Bright Data client
    Price,      \* prices of a call: UNIT_COST_USD[product] * units
    MaxPrice,   \* the dearest of them
    Threshold   \* KILL_SWITCH_THRESHOLD of monthly_envelope_usd

ASSUME CallersAssumption == IsFiniteSet(Caller)
ASSUME PriceAssumption == MaxPrice \in Nat /\ Price \subseteq 1..MaxPrice
ASSUME ThresholdAssumption == Threshold \in Nat \ {0}

VARIABLES
    spent,      \* the sum of _by_tenant_usd
    rows,       \* how many cost rows there are
    throttled,  \* _throttled
    events,     \* how many KillSwitchEvents there are
    fetches,    \* requests that left for Bright Data
    call        \* each thread's progress through call and record

envelope == <<spent, rows, throttled, events, fetches, call>>

-----------------------------------------------------------------------------
NotCalling == [pc |-> "out", usd |-> 0]
Calling == [pc: {"cleared", "booked"}, usd: Price]

EnvelopeTypeOK ==
    /\ spent \in Nat /\ rows \in Nat /\ events \in Nat /\ fetches \in Nat
    /\ throttled \in BOOLEAN
    /\ call \in [Caller -> Calling \cup {NotCalling}]

EnvelopeInit ==
    /\ spent = 0 /\ rows = 0 /\ events = 0 /\ fetches = 0
    /\ throttled = FALSE
    /\ call = [c \in Caller |-> NotCalling]

CallAt(c, pc) == call[c].pc = pc

\* mutant: the test is only a warning
Clear_Unchecked(c, usd) ==
    /\ CallAt(c, "out")
    /\ call' = [call EXCEPT ![c] = [pc |-> "cleared", usd |-> usd]]
    /\ UNCHANGED <<spent, rows, throttled, events, fetches>>

\* record passes `if self._throttled` and prices the call.
Clear(c, usd) ==
    /\ CallAt(c, "out")
    /\ ~throttled
    /\ call' = [call EXCEPT ![c] = [pc |-> "cleared", usd |-> usd]]
    /\ UNCHANGED <<spent, rows, throttled, events, fetches>>

\* EnvelopeThrottled: the call is refused before anything is booked.
Refuse(c) ==
    /\ CallAt(c, "out")
    /\ throttled
    /\ UNCHANGED envelope

\* mutant: the second test of _throttled, under the lock, is dropped
Book_Again(c) ==
    /\ CallAt(c, "cleared")
    /\ spent' = spent + call[c].usd
    /\ rows' = rows + 1
    /\ throttled' = (throttled \/ spent' >= Threshold)
    /\ events' = IF spent' >= Threshold THEN events + 1 ELSE events
    /\ call' = [call EXCEPT ![c].pc = "booked"]
    /\ UNCHANGED fetches

\* record, under the lock: the row, the sum, and the throttle it may engage.
Book(c) ==
    /\ CallAt(c, "cleared")
    /\ spent' = spent + call[c].usd
    /\ rows' = rows + 1
    /\ throttled' = (throttled \/ spent' >= Threshold)
    /\ events' = IF ~throttled /\ spent' >= Threshold THEN events + 1 ELSE events
    /\ call' = [call EXCEPT ![c].pc = "booked"]
    /\ UNCHANGED fetches

\* mutant: the request goes out first and is recorded when it answers
Fetch_BeforeRecord(c) ==
    /\ CallAt(c, "cleared") \/ CallAt(c, "booked")
    /\ fetches' = fetches + 1
    /\ call' = [call EXCEPT ![c] = NotCalling]
    /\ UNCHANGED <<spent, rows, throttled, events>>

\* _live_call sends the request; what it answers is the caller's business.
Fetch(c) ==
    /\ CallAt(c, "booked")
    /\ fetches' = fetches + 1
    /\ call' = [call EXCEPT ![c] = NotCalling]
    /\ UNCHANGED <<spent, rows, throttled, events>>

\* require_credentials raises, or no connection is made: booked for nothing.
Unsent(c) ==
    /\ CallAt(c, "booked")
    /\ call' = [call EXCEPT ![c] = NotCalling]
    /\ UNCHANGED <<spent, rows, throttled, events, fetches>>

Serve(c) ==
    \/ \E usd \in Price : Clear(c, usd)
    \/ Refuse(c) \/ Book(c) \/ Fetch(c) \/ Unsent(c)

EnvelopeNext == \E c \in Caller : Serve(c)

EnvelopeSpec == EnvelopeInit /\ [][EnvelopeNext]_envelope

-----------------------------------------------------------------------------
(* Properties *)

\* The throttle and its event agree with the books, whatever the threads do
\* between the test and the lock: it is engaged exactly when the sum has
\* reached the threshold, and the crossing was announced exactly once.
ThrottleIsExact ==
    /\ throttled <=> spent >= Threshold
    /\ events = IF throttled THEN 1 ELSE 0

Cleared == {c \in Caller : CallAt(c, "cleared")}
Booked == {c \in Caller : CallAt(c, "booked")}

\* "so a runaway never burns the whole sponsor budget": the calls that had
\* passed the test when the throttle engaged are all that is spent above the
\* threshold, at most one per thread.
OvershootIsBounded == spent < Threshold + MaxPrice * Cardinality(Caller)

\* base.py:4 "no BD call can happen without leaving a sponsor-ledger trail":
\* every request that left has its row, and so has each one about to leave.
FetchesAreBilled == fetches + Cardinality(Booked) <= rows

-----------------------------------------------------------------------------
\* The inductive strengthening of OvershootIsBounded: once the throttle is
\* engaged nothing but the calls already cleared can be added.
PendingIsBounded ==
    IF throttled
      THEN spent + MaxPrice * Cardinality(Cleared) < Threshold + MaxPrice * Cardinality(Caller)
      ELSE spent < Threshold
=============================================================================
