------------------------- MODULE ScanAgentsProofs -------------------------
(***************************************************************************)
(* The envelope of src/integrations/brightdata/cost.py for every set of    *)
(* threads, every price list and every threshold: the throttle agrees with *)
(* the books, what is spent above the threshold is at most one call per    *)
(* thread, and no request leaves without a row.  Then the governed agents  *)
(* that use it: they keep the envelope's specification, a halt holds, no   *)
(* agent executes without its grants, and the ledger has what the callers  *)
(* were told.                                                              *)
(***************************************************************************)
EXTENDS ScanAgents, FiniteSetTheorems, TLAPS

-----------------------------------------------------------------------------
(* How a step of one thread changes the two sets of calls under way. *)

\* The calls under way are some of the threads.
LEMMA CallsAreFinite ==
    /\ IsFiniteSet(Cleared) /\ Cardinality(Cleared) \in 0..Cardinality(Caller)
    /\ IsFiniteSet(Booked) /\ Cardinality(Booked) \in Nat
    /\ Cardinality(Caller) \in Nat
<1>1. Cleared \subseteq Caller /\ Booked \subseteq Caller
  BY DEF Cleared, Booked
<1>2. IsFiniteSet(Cleared) /\ Cardinality(Cleared) <= Cardinality(Caller)
  BY <1>1, CallersAssumption, FS_Subset
<1>3. IsFiniteSet(Booked)
  BY <1>1, CallersAssumption, FS_Subset
<1> QED
  BY <1>2, <1>3, CallersAssumption, FS_CardinalityType

\* Booking takes one call from the cleared to the booked.
LEMMA BookMovesOne ==
    ASSUME EnvelopeTypeOK, NEW c \in Caller, Book(c)
    PROVE  /\ Cardinality(Cleared') = Cardinality(Cleared) - 1
           /\ Cardinality(Booked') = Cardinality(Booked) + 1
<1>1. Cleared' = Cleared \ {c} /\ c \in Cleared
  BY DEF EnvelopeTypeOK, Calling, NotCalling, Book, CallAt, Cleared
<1>2. Booked' = Booked \cup {c} /\ c \notin Booked
  BY DEF EnvelopeTypeOK, Calling, NotCalling, Book, CallAt, Booked
<1>3. Cardinality(Cleared \ {c}) = Cardinality(Cleared) - 1
  BY <1>1, CallsAreFinite, FS_RemoveElement
<1>4. Cardinality(Booked \cup {c}) = Cardinality(Booked) + 1
  BY <1>2, CallsAreFinite, FS_AddElement
<1> QED
  BY <1>1, <1>2, <1>3, <1>4

\* A request that leaves, or fails to, was one of the booked ones.
LEMMA LeavingEndsOne ==
    ASSUME EnvelopeTypeOK, NEW c \in Caller, Fetch(c) \/ Unsent(c)
    PROVE  Cardinality(Booked') = Cardinality(Booked) - 1 /\ Cleared' = Cleared
<1>1. Booked' = Booked \ {c} /\ c \in Booked /\ Cleared' = Cleared
  BY DEF EnvelopeTypeOK, Calling, NotCalling, Fetch, Unsent, CallAt, Booked, Cleared
<1>2. Cardinality(Booked \ {c}) = Cardinality(Booked) - 1
  BY <1>1, CallsAreFinite, FS_RemoveElement
<1> QED
  BY <1>1, <1>2

-----------------------------------------------------------------------------
(* The invariants *)

\* Every step keeps the types.
LEMMA StepKeepsTypes == EnvelopeTypeOK /\ [EnvelopeNext]_envelope => EnvelopeTypeOK'
<1> SUFFICES ASSUME EnvelopeTypeOK, [EnvelopeNext]_envelope PROVE EnvelopeTypeOK'
  OBVIOUS
<1> USE DEF EnvelopeTypeOK, Calling, NotCalling, CallAt
<1>1. ASSUME NEW c \in Caller, NEW usd \in Price, Clear(c, usd) PROVE EnvelopeTypeOK'
  BY <1>1 DEF Clear
<1>2. ASSUME NEW c \in Caller, Book(c) PROVE EnvelopeTypeOK'
  <2>1. call[c] \in [pc : {"cleared", "booked"}, usd : Price] /\ call[c].usd \in Nat
    BY <1>2, PriceAssumption DEF Book
  <2>2. [call[c] EXCEPT !.pc = "booked"] \in [pc : {"cleared", "booked"}, usd : Price]
    BY <2>1
  <2> QED
    BY <1>2, <2>1, <2>2 DEF Book
<1>3. ASSUME NEW c \in Caller, Fetch(c) \/ Unsent(c) PROVE EnvelopeTypeOK'
  BY <1>3 DEF Fetch, Unsent
<1>4. CASE UNCHANGED envelope
  BY <1>4 DEF envelope
<1> QED
  BY <1>1, <1>2, <1>3, <1>4 DEF EnvelopeNext, Serve, Refuse

\* The calls and the books are always of their types.
THEOREM EnvelopeTypeCorrect == EnvelopeSpec => []EnvelopeTypeOK
<1>1. EnvelopeInit => EnvelopeTypeOK
  <2> SUFFICES ASSUME EnvelopeInit PROVE EnvelopeTypeOK
    OBVIOUS
  <2>1. call \in [Caller -> Calling \cup {NotCalling}]
    BY DEF EnvelopeInit
  <2>2. throttled \in BOOLEAN
    BY DEF EnvelopeInit
  <2> QED
    BY <2>1, <2>2 DEF EnvelopeInit, EnvelopeTypeOK
<1> QED
  BY <1>1, StepKeepsTypes, PTL DEF EnvelopeSpec

\* record: the throttle is engaged exactly when the sum has reached the
\* threshold, and the crossing is announced exactly once, however many threads
\* had passed the unlocked test of _throttled before.
THEOREM ThrottleFollowsBooks == EnvelopeSpec => []ThrottleIsExact
<1>1. EnvelopeInit => ThrottleIsExact
  BY ThresholdAssumption DEF EnvelopeInit, ThrottleIsExact
<1>2. EnvelopeTypeOK /\ ThrottleIsExact /\ [EnvelopeNext]_envelope => ThrottleIsExact'
  <2> SUFFICES ASSUME EnvelopeTypeOK, ThrottleIsExact, [EnvelopeNext]_envelope
               PROVE  ThrottleIsExact'
    OBVIOUS
  <2> USE ThresholdAssumption DEF ThrottleIsExact, EnvelopeTypeOK
  <2>1. ASSUME NEW c \in Caller, Book(c) PROVE ThrottleIsExact'
    <3>1. call[c].usd \in Nat
      BY <2>1, PriceAssumption DEF Book, Calling, NotCalling, CallAt
    <3>2. spent' = spent + call[c].usd /\ (spent >= Threshold => spent' >= Threshold)
      BY <2>1, <3>1 DEF Book
    <3>3. throttled' <=> spent' >= Threshold
      BY <2>1, <3>2 DEF Book
    <3>4. events' = IF throttled' THEN 1 ELSE 0
      BY <2>1, <3>2, <3>3 DEF Book
    <3> QED
      BY <3>3, <3>4
  <2>2. ASSUME UNCHANGED <<spent, throttled, events>> PROVE ThrottleIsExact'
    BY <2>2
  <2> QED
    BY <2>1, <2>2 DEF EnvelopeNext, Serve, Clear, Refuse, Fetch, Unsent, envelope
<1> QED
  BY <1>1, <1>2, EnvelopeTypeCorrect, PTL DEF EnvelopeSpec

\* Booking adds at most the dearest price and takes its call off those that
\* may still be added.
LEMMA BookKeepsBound ==
    ASSUME EnvelopeTypeOK, PendingIsBounded, NEW c \in Caller, Book(c)
    PROVE  PendingIsBounded'
<1> DEFINE M == MaxPrice  n == Cardinality(Cleared)  all == Cardinality(Caller)
<1>1. call[c].usd \in 1..M /\ M \in Nat /\ spent \in Nat /\ Threshold \in Nat
  BY PriceAssumption, ThresholdAssumption DEF EnvelopeTypeOK, Book, Calling, NotCalling, CallAt
<1>2. n \in 0..all /\ all \in Nat /\ Cardinality(Cleared') = n - 1 /\ n - 1 \in Nat
  <2>1. n \in 0..all /\ all \in Nat /\ Cardinality(Cleared') = n - 1
    BY CallsAreFinite, BookMovesOne
  <2>2. n # 0
    BY CallsAreFinite, FS_EmptySet DEF Book, CallAt, Cleared
  <2> QED
    BY <2>1, <2>2
<1>3. M * (n - 1) = M * n - M /\ M * (all - 1) = M * all - M /\ M * n \in Nat /\ M * all \in Nat
  BY <1>1, <1>2
<1>4. M * (n - 1) <= M * (all - 1)
  BY <1>1, <1>2
<1>5. spent' = spent + call[c].usd /\ throttled' = (throttled \/ spent' >= Threshold)
  BY DEF Book
<1> HIDE DEF M, n, all
<1>6. CASE throttled
  <2>1. spent + M * n < Threshold + M * all
    BY <1>6 DEF PendingIsBounded, M, n, all
  <2>2. spent' + M * (n - 1) < Threshold + M * all
    BY <1>1, <1>2, <1>3, <1>5, <2>1
  <2> QED
    BY <1>2, <1>5, <1>6, <2>2 DEF PendingIsBounded, M, n, all
<1>7. CASE ~throttled
  <2>1. spent < Threshold
    BY <1>7 DEF PendingIsBounded
  <2>2. spent' + M * (n - 1) < Threshold + M * all
    BY <1>1, <1>2, <1>3, <1>4, <1>5, <2>1
  <2>3. ~throttled' => spent' < Threshold
    <3>1. spent' >= Threshold => throttled'
      BY <1>5, Zenon
    <3>2. spent' \in Nat /\ Threshold \in Nat
      BY <1>1, <1>5
    <3> QED
      BY <3>1, <3>2
  <2>4. spent' + M * Cardinality(Cleared') < Threshold + M * all
    BY <1>2, <2>2
  <2> QED
    BY <2>3, <2>4 DEF PendingIsBounded, M, all
<1> QED
  BY <1>6, <1>7

\* The bound that is inductive: while the throttle is open the sum is below the
\* threshold; when it is engaged only the calls that were cleared can follow.
LEMMA PendingStaysBounded == EnvelopeSpec => []PendingIsBounded
<1>1. EnvelopeInit => PendingIsBounded
  BY ThresholdAssumption DEF EnvelopeInit, PendingIsBounded
<1>2. EnvelopeTypeOK /\ PendingIsBounded /\ [EnvelopeNext]_envelope => PendingIsBounded'
  <2> SUFFICES ASSUME EnvelopeTypeOK, PendingIsBounded, [EnvelopeNext]_envelope
               PROVE  PendingIsBounded'
    OBVIOUS
  <2>1. ASSUME NEW c \in Caller, NEW usd \in Price, Clear(c, usd) PROVE PendingIsBounded'
    BY <2>1 DEF Clear, PendingIsBounded
  <2>2. ASSUME NEW c \in Caller, Book(c) PROVE PendingIsBounded'
    BY <2>2, BookKeepsBound
  <2>3. ASSUME NEW c \in Caller, Fetch(c) \/ Unsent(c) PROVE PendingIsBounded'
    <3>1. UNCHANGED <<spent, throttled, Cleared>>
      BY <2>3, LeavingEndsOne DEF Fetch, Unsent
    <3> QED
      BY <3>1 DEF PendingIsBounded
  <2>4. CASE UNCHANGED envelope
    BY <2>4 DEF envelope, PendingIsBounded, Cleared, CallAt
  <2> QED
    BY <2>1, <2>2, <2>3, <2>4 DEF EnvelopeNext, Serve, Refuse
<1> QED
  BY <1>1, <1>2, EnvelopeTypeCorrect, PTL DEF EnvelopeSpec

\* cost.py: "so a runaway never burns the whole sponsor budget": at most one
\* call per thread is spent above the threshold.
THEOREM SpendIsBounded == EnvelopeSpec => []OvershootIsBounded
<1>1. EnvelopeTypeOK /\ PendingIsBounded => OvershootIsBounded
  <2> SUFFICES ASSUME EnvelopeTypeOK, PendingIsBounded PROVE OvershootIsBounded
    OBVIOUS
  <2>1. spent \in Nat /\ Threshold \in Nat /\ MaxPrice \in Nat
    BY PriceAssumption, ThresholdAssumption DEF EnvelopeTypeOK
  <2>2. /\ MaxPrice * Cardinality(Cleared) \in Nat
        /\ MaxPrice * Cardinality(Caller) \in Nat
    BY <2>1, CallsAreFinite
  <2> QED
    BY <2>1, <2>2 DEF PendingIsBounded, OvershootIsBounded
<1> QED
  BY <1>1, EnvelopeTypeCorrect, PendingStaysBounded, PTL

\* base.py: "no BD call can happen without leaving a sponsor-ledger trail".
THEOREM RequestsHaveRows == EnvelopeSpec => []FetchesAreBilled
<1>1. EnvelopeInit => FetchesAreBilled
  <2>1. EnvelopeInit => Booked = {}
    BY DEF EnvelopeInit, Booked, CallAt, NotCalling
  <2> QED
    BY <2>1, FS_EmptySet DEF EnvelopeInit, FetchesAreBilled
<1>2. EnvelopeTypeOK /\ FetchesAreBilled /\ [EnvelopeNext]_envelope => FetchesAreBilled'
  <2> SUFFICES ASSUME EnvelopeTypeOK, FetchesAreBilled, [EnvelopeNext]_envelope
               PROVE  FetchesAreBilled'
    OBVIOUS
  <2>0. Cardinality(Booked) \in Nat /\ rows \in Nat /\ fetches \in Nat
    BY CallsAreFinite DEF EnvelopeTypeOK
  <2>1. ASSUME NEW c \in Caller, NEW usd \in Price, Clear(c, usd) PROVE FetchesAreBilled'
    <3>1. Booked' = Booked
      BY <2>1 DEF Clear, Booked, CallAt, EnvelopeTypeOK, Calling, NotCalling
    <3> QED
      BY <2>1, <3>1 DEF Clear, FetchesAreBilled
  <2>2. ASSUME NEW c \in Caller, Book(c) PROVE FetchesAreBilled'
    <3>1. Cardinality(Booked') = Cardinality(Booked) + 1
      BY <2>2, BookMovesOne
    <3>2. rows' = rows + 1 /\ fetches' = fetches
      BY <2>2 DEF Book
    <3> QED
      BY <2>0, <3>1, <3>2 DEF FetchesAreBilled
  <2>3. ASSUME NEW c \in Caller, Fetch(c) \/ Unsent(c) PROVE FetchesAreBilled'
    BY <2>0, <2>3, LeavingEndsOne DEF Fetch, Unsent, FetchesAreBilled
  <2>4. CASE UNCHANGED envelope
    BY <2>4 DEF envelope, FetchesAreBilled, Booked, CallAt
  <2> QED
    BY <2>1, <2>2, <2>3, <2>4 DEF EnvelopeNext, Serve, Refuse
<1> QED
  BY <1>1, <1>2, EnvelopeTypeCorrect, PTL DEF EnvelopeSpec

-----------------------------------------------------------------------------
(* The agents *)

\* Every step of the agents is a step of the envelope or leaves it alone.
LEMMA AgentsStep == [Next]_scanVars => [EnvelopeNext]_envelope
<1> SUFFICES ASSUME [Next]_scanVars PROVE [EnvelopeNext]_envelope
  OBVIOUS
<1>1. ASSUME NEW c \in Caller, ScanClears(c) \/ FallbackClears(c)
      PROVE  EnvelopeNext
  BY <1>1 DEF ScanClears, FallbackClears, Clears, EnvelopeNext, Serve
<1>2. ASSUME NEW c \in Caller, BookScan(c) \/ ScanRefused(c) \/ FallbackRefused(c)
      PROVE  EnvelopeNext
  BY <1>2 DEF BookScan, ScanRefused, FallbackRefused, EnvelopeNext, Serve
<1>3. ASSUME NEW c \in Caller, ScanFetches(c) \/ ScanRaises(c) \/ FallbackFetches(c)
      PROVE  EnvelopeNext
  BY <1>3 DEF ScanFetches, ScanRaises, FallbackFetches, EnvelopeNext, Serve
<1>4. ASSUME NEW c \in Caller,
             \/ \E a \in Agent, grants \in Grants : Start(c, a, grants)
             \/ Evaluate(c) \/ Deny(c) \/ Compute(c)
             \/ ReadLen(c) \/ ReadTail(c) \/ AppendEntry(c) \/ Answer(c)
      PROVE  UNCHANGED envelope
  BY <1>4 DEF Start, Evaluate, Deny, Compute, ReadLen, ReadTail, AppendEntry, Answer, Governing
<1>5. CASE Halt \/ Resume \/ UNCHANGED scanVars
  BY <1>5 DEF Halt, Resume, scanVars
<1> QED
  BY <1>1, <1>2, <1>3, <1>4, <1>5 DEF Next, Works

\* The agents implement the envelope, so the theorems above are theirs too.
THEOREM ScanUsesEnvelope == Spec => EnvelopeSpec
<1>1. Init => EnvelopeInit
  BY DEF Init
<1> QED
  BY <1>1, AgentsStep, PTL DEF Spec, EnvelopeSpec

Action == {"none", "executed", "blocked_hitl", "blocked_second_auth"}
Stage == {"evaluate", "denied", "execute", "fetching", "fallback", "refetching",
          "len", "tail", "append", "answer"}
Run == [pc: Stage, id: Nat, agent: Agent, grants: SUBSET {"basis", "region", "hitl", "second"},
        action: Action, seq: Nat, prev: Nat, underHalt: BOOLEAN]
Entry == [id: Nat, agent: Agent, grants: SUBSET {"basis", "region", "hitl", "second"},
          action: Action, seq: Nat, prev: Nat]

\* The runs and the ledger are of their types, and a thread is calling Bright
\* Data exactly while its run is at a fetch.
AgentTypeOK ==
    /\ EnvelopeTypeOK
    /\ run \in [Caller -> Run \cup {NoRun}]
    /\ ledger \in Seq(Entry)
    /\ started \in Nat
    /\ overlapped \in BOOLEAN
    /\ \A c \in Caller : run[c].pc \in {"fetching", "refetching"} <=> call[c] # NotCalling

\* A run that has been halted from its start has not been let through, and its
\* halt is in force.
HaltInv ==
    \A c \in Caller : run[c] # NoRun /\ run[c].underHalt =>
        Halted /\ run[c].pc \in {"evaluate", "denied"}

Authorised(a, g) ==
    /\ Sensitive(a) => {"basis", "hitl"} \subseteq g
    /\ Egress(a) => {"region", "second"} \subseteq g
    /\ a = "takedown_agent" => "hitl" \in g

\* A run that is to execute has its grants, and so has an entry that says it did.
AuthInv ==
    /\ \A c \in Caller : run[c] # NoRun /\ run[c].action = "executed" =>
         Authorised(run[c].agent, run[c].grants)
    /\ \A k \in DOMAIN ledger : ledger[k].action = "executed" =>
         Authorised(ledger[k].agent, ledger[k].grants)

\* A run about to answer is in the ledger with the action it will name.
LedgerInv ==
    /\ AnswersAreLedgered
    /\ \A c \in Caller : RunAt(c, "answer") =>
         \E k \in DOMAIN ledger : ledger[k].id = run[c].id /\ ledger[k].action = run[c].action

\* What an append has read was true of some earlier ledger; of the present one,
\* while no two runs have overlapped.
LinkInv ==
    /\ LedgerLinksBack
    /\ \A c \in Caller :
         /\ run[c].pc \in {"tail", "append"} => run[c].seq <= Len(ledger)
         /\ run[c].pc = "append" => run[c].prev <= Len(ledger)
    /\ ~overlapped =>
         /\ \A c, d \in Caller : run[c] # NoRun /\ run[d] # NoRun => c = d
         /\ \A c \in Caller :
              /\ run[c].pc \in {"tail", "append"} => run[c].seq = Len(ledger)
              /\ run[c].pc = "append" => run[c].prev = Len(ledger)


-----------------------------------------------------------------------------
(* How one step of one thread changes what the invariants speak of. *)

\* A thread works on its own run and its own call; the ledger only grows.
LEMMA Others ==
    ASSUME AgentTypeOK, NEW c \in Caller, Works(c)
    PROVE  /\ halts' = halts
           /\ \A d \in Caller \ {c} : run'[d] = run[d] /\ call'[d] = call[d]
           /\ ledger' = ledger \/ AppendEntry(c)
<1> USE DEF AgentTypeOK, EnvelopeTypeOK
<1>1. CASE \E a \in Agent, grants \in Grants : Start(c, a, grants)
  BY <1>1 DEF Start, envelope
<1>2. CASE Evaluate(c) \/ Deny(c) \/ Compute(c) \/ ReadLen(c) \/ ReadTail(c) \/ Answer(c)
  BY <1>2 DEF Evaluate, Deny, Compute, ReadLen, ReadTail, Answer, Governing, Becomes, Tell, envelope
<1>3. CASE ScanClears(c) \/ FallbackClears(c)
  BY <1>3 DEF ScanClears, FallbackClears, Clears, Clear, Becomes
<1>4. CASE BookScan(c)
  BY <1>4 DEF BookScan, Book, agents
<1>5. CASE ScanRefused(c) \/ FallbackRefused(c)
  BY <1>5 DEF ScanRefused, FallbackRefused, Refuse, Becomes, Tell, envelope
<1>6. CASE ScanFetches(c) \/ ScanRaises(c)
  BY <1>6 DEF ScanFetches, ScanRaises, Fetch, Unsent, Becomes
<1>7. CASE FallbackFetches(c)
  BY <1>7 DEF FallbackFetches, Fetch, Unsent, Tell
<1>8. CASE AppendEntry(c)
  BY <1>8 DEF AppendEntry, Becomes, envelope
<1> QED
  BY <1>1, <1>2, <1>3, <1>4, <1>5, <1>6, <1>7, <1>8 DEF Works

\* Where the run of the thread that works may be afterwards.
LEMMA OwnRun ==
    ASSUME AgentTypeOK, NEW c \in Caller, Works(c)
    PROVE  \/ run'[c] = NoRun
           \/ \E a \in Agent, grants \in Grants : Start(c, a, grants)
           \/ /\ run[c] # NoRun
              /\ run'[c] \in Run
              /\ run'[c].id = run[c].id
              /\ run'[c].agent = run[c].agent
              /\ run'[c].grants = run[c].grants
              /\ run'[c].underHalt = run[c].underHalt
              /\ run'[c].action = run[c].action \/ Evaluate(c)
              /\ run'[c].seq = run[c].seq \/ ReadLen(c)
              /\ run'[c].prev = run[c].prev \/ ReadTail(c)
<1> USE DEF AgentTypeOK, RunAt, NoRun, Run, Stage
<1>0. run[c].pc # "idle" => run[c] \in Run
  OBVIOUS
<1>1. CASE Evaluate(c)
  <2>1. run[c].agent \in Agent /\ run[c] \in Run
    BY <1>0, <1>1 DEF Evaluate
  <2>2. Awaits(run[c].agent, run[c].grants) \in Action
    BY DEF Awaits, Action
  <2> QED
    BY <1>1, <2>1, <2>2 DEF Evaluate, Becomes
<1>2. CASE Deny(c) \/ Answer(c) \/ FallbackRefused(c) \/ FallbackFetches(c)
  BY <1>2 DEF Deny, Answer, FallbackRefused, FallbackFetches, Tell
<1>3. CASE Compute(c) \/ ScanClears(c) \/ FallbackClears(c) \/ ScanRefused(c) \/ ScanFetches(c)
           \/ ScanRaises(c) \/ AppendEntry(c)
  BY <1>0, <1>3, SMTT(30) DEF Compute, ScanClears, FallbackClears, Clears, ScanRefused, ScanFetches, ScanRaises,
     AppendEntry, Becomes
<1>4. CASE BookScan(c)
  BY <1>0, <1>4 DEF BookScan, agents
<1>5. CASE ReadLen(c)
  <2>1. Len(ledger) \in Nat
    OBVIOUS
  <2> QED
    BY <1>0, <1>5, <2>1 DEF ReadLen
<1>6. CASE ReadTail(c)
  <2>1. Len(ledger) \in Nat
    OBVIOUS
  <2> QED
    BY <1>0, <1>6, <2>1 DEF ReadTail
<1> QED
  BY <1>1, <1>2, <1>3, <1>4, <1>5, <1>6 DEF Works

\* A halt, a resume or nothing at all leaves every run as it was, or lifts its mark.
LEMMA OutsideRuns ==
    ASSUME Halt \/ Resume \/ UNCHANGED scanVars, NEW c \in Caller, AgentTypeOK
    PROVE  run'[c] = run[c] \/ (run[c] # NoRun /\ run'[c] = [run[c] EXCEPT !.underHalt = FALSE])
<1>1. CASE Resume
  <2>1. run'[c] = IF run[c] # NoRun /\ halts' = {}
                    THEN [run[c] EXCEPT !.underHalt = FALSE] ELSE run[c]
    BY <1>1 DEF Resume
  <2> QED
    BY <2>1, Zenon
<1>2. CASE Halt \/ UNCHANGED scanVars
  <2>1. run' = run
    BY <1>2 DEF Halt, scanVars, agents
  <2> QED
    BY <2>1, Zenon
<1> QED
  BY <1>1, <1>2

\* An append adds the run's entry behind all others.
LEMMA LedgerGrows ==
    ASSUME AgentTypeOK, NEW c \in Caller, AppendEntry(c)
    PROVE  /\ Len(ledger) \in Nat /\ Len(ledger') = Len(ledger) + 1
           /\ DOMAIN ledger' = 1..Len(ledger) + 1
           /\ DOMAIN ledger = 1..Len(ledger)
           /\ \A k \in DOMAIN ledger : ledger'[k] = ledger[k]
           /\ ledger'[Len(ledger) + 1] = Ledgered(c)
<1>1. run[c] \in Run
  BY DEF AppendEntry, AgentTypeOK, RunAt, NoRun
<1>2. PICK e : e = Ledgered(c)
  OBVIOUS
<1>3. e \in Entry
  BY <1>1, <1>2 DEF Ledgered, Run, Entry
<1>4. ledger' = Append(ledger, e) /\ ledger \in Seq(Entry)
  BY <1>2 DEF AppendEntry, AgentTypeOK
<1>5. /\ Len(ledger) \in Nat /\ Len(ledger') = Len(ledger) + 1
      /\ DOMAIN ledger' = 1..Len(ledger) + 1
      /\ DOMAIN ledger = 1..Len(ledger)
      /\ \A k \in DOMAIN ledger : ledger'[k] = ledger[k]
      /\ ledger'[Len(ledger) + 1] = e
  BY <1>3, <1>4
<1> QED
  BY <1>2, <1>5

\* A thread is calling exactly while its run is at a fetch.
LEMMA FetchingIsCalling ==
    ASSUME AgentTypeOK, NEW c \in Caller, Works(c)
    PROVE  run'[c].pc \in {"fetching", "refetching"} <=> call'[c] # NotCalling
<1> USE DEF AgentTypeOK, EnvelopeTypeOK, RunAt, Becomes
<1>0. run[c].pc # "idle" => run[c] \in Run /\ \A pc : [run[c] EXCEPT !.pc = pc].pc = pc
  BY DEF Run, NoRun
<1>1. CASE \E a \in Agent, grants \in Grants : Start(c, a, grants)
  BY <1>1 DEF Start, envelope, NoRun
<1>2. CASE Evaluate(c) \/ Compute(c) \/ ReadLen(c) \/ ReadTail(c) \/ AppendEntry(c)
  BY <1>0, <1>2 DEF Run, Evaluate, Compute, ReadLen, ReadTail, AppendEntry, Governing, envelope
<1>3. CASE Deny(c) \/ Answer(c) \/ FallbackRefused(c)
  BY <1>3 DEF Deny, Answer, FallbackRefused, Refuse, Tell, NoRun, Governing, envelope
<1>4. CASE ScanClears(c) \/ FallbackClears(c)
  BY <1>0, <1>4 DEF Run, ScanClears, FallbackClears, Clears, Clear, NotCalling
<1>5. CASE BookScan(c)
  BY <1>5 DEF BookScan, Book, CallAt, agents, NotCalling
<1>6. CASE ScanRefused(c)
  BY <1>6 DEF ScanRefused, Refuse, envelope
<1>7. CASE ScanFetches(c) \/ ScanRaises(c)
  BY <1>0, <1>7 DEF Run, ScanFetches, ScanRaises, Fetch, Unsent
<1>8. CASE FallbackFetches(c)
  BY <1>8 DEF FallbackFetches, Fetch, Unsent, Tell, NoRun
<1> QED
  BY <1>1, <1>2, <1>3, <1>4, <1>5, <1>6, <1>7, <1>8 DEF Works

\* The types survive every step, and who is at a fetch is calling.
LEMMA AgentTypeStep == AgentTypeOK /\ [Next]_scanVars => AgentTypeOK'
<1> SUFFICES ASSUME AgentTypeOK, [Next]_scanVars PROVE AgentTypeOK'
  OBVIOUS
<1>1. EnvelopeTypeOK'
  BY StepKeepsTypes, AgentsStep DEF AgentTypeOK
<1>2. CASE Halt \/ Resume \/ UNCHANGED scanVars
  <2>1. UNCHANGED <<call, ledger, started, overlapped>>
    BY <1>2 DEF Halt, Resume, scanVars, agents, envelope
  <2>2. ASSUME NEW c \in Caller
        PROVE  run'[c] \in Run \cup {NoRun} /\ run'[c].pc = run[c].pc
    <3>1. run'[c] = run[c] \/ (run[c] # NoRun /\ run'[c] = [run[c] EXCEPT !.underHalt = FALSE])
      BY <1>2, OutsideRuns
    <3>2. run[c] \in Run \cup {NoRun}
      BY DEF AgentTypeOK
    <3> QED
      BY <3>1, <3>2 DEF Run
  <2>3. run' = [c \in Caller |-> run'[c]]
    BY <1>2 DEF Halt, Resume, scanVars, agents, AgentTypeOK
  <2> QED
    BY <1>1, <2>1, <2>2, <2>3 DEF AgentTypeOK
<1>3. ASSUME NEW c \in Caller, Works(c) PROVE AgentTypeOK'
  <2>1. run' = [run EXCEPT ![c] = run'[c]]
    BY <1>3 DEF AgentTypeOK, Works, Start, Evaluate, Deny, Compute, ScanClears, FallbackClears, Clears,
       BookScan, ScanRefused, ScanFetches, ScanRaises, FallbackRefused, FallbackFetches,
       ReadLen, ReadTail, AppendEntry, Answer, Becomes, Tell, agents
  <2>2. run'[c] \in Run \cup {NoRun} /\ started' \in Nat /\ overlapped' \in BOOLEAN
    <3>1. CASE \E a \in Agent, grants \in Grants : Start(c, a, grants)
      BY <3>1, GrantsAssumption DEF Start, AgentTypeOK, Run, Stage, Action, Halted
    <3>2. CASE ~\E a \in Agent, grants \in Grants : Start(c, a, grants)
      <4>1. UNCHANGED <<started, overlapped>>
        BY <1>3, <3>2 DEF Works, Evaluate, Deny, Compute, ScanClears, FallbackClears, Clears,
           BookScan, ScanRefused, ScanFetches, ScanRaises, FallbackRefused, FallbackFetches,
           ReadLen, ReadTail, AppendEntry, Answer, Governing, agents
      <4> QED
        BY <1>3, <3>2, <4>1, OwnRun DEF AgentTypeOK
    <3> QED
      BY <3>1, <3>2
  <2>3. ledger' \in Seq(Entry)
    <3>1. CASE AppendEntry(c)
      <4>1. run[c] \in Run
        BY <3>1 DEF AppendEntry, AgentTypeOK, RunAt, NoRun
      <4>2. Ledgered(c) \in Entry
        BY <4>1 DEF Ledgered, Run, Entry
      <4> QED
        BY <3>1, <4>2 DEF AppendEntry, AgentTypeOK
    <3> QED
      BY <1>3, <3>1, Others DEF AgentTypeOK
  <2>4. run'[c].pc \in {"fetching", "refetching"} <=> call'[c] # NotCalling
    BY <1>3, FetchingIsCalling
  <2>5. \A d \in Caller \ {c} : run'[d] = run[d] /\ call'[d] = call[d]
    BY <1>3, Others
  <2> QED
    BY <1>1, <2>1, <2>2, <2>3, <2>4, <2>5 DEF AgentTypeOK
<1> QED
  BY <1>2, <1>3 DEF Next

-----------------------------------------------------------------------------
(* A halt holds. *)

\* A run that began under a halt is denied as long as the halt is in force.
LEMMA HaltStep == AgentTypeOK /\ HaltInv /\ [Next]_scanVars => HaltInv'
<1> SUFFICES ASSUME AgentTypeOK, HaltInv, [Next]_scanVars, NEW c \in Caller,
                    run'[c] # NoRun, run'[c].underHalt
             PROVE  Halted' /\ run'[c].pc \in {"evaluate", "denied"}
  BY DEF HaltInv
<1>1. CASE Halt \/ UNCHANGED scanVars
  <2>1. run' = run /\ (Halted => Halted')
    BY <1>1 DEF Halt, scanVars, agents, Halted
  <2> QED
    BY <2>1 DEF HaltInv
<1>2. CASE Resume
  <2>1. run'[c] = IF run[c] # NoRun /\ halts' = {}
                    THEN [run[c] EXCEPT !.underHalt = FALSE] ELSE run[c]
    BY <1>2 DEF Resume
  <2>2. CASE run[c] # NoRun /\ halts' = {}
    <3>1. run[c] \in Run
      BY <2>2 DEF AgentTypeOK
    <3> QED
      BY <2>1, <2>2, <3>1 DEF Run
  <2>3. CASE ~(run[c] # NoRun /\ halts' = {})
    BY <2>1, <2>3 DEF HaltInv, Halted
  <2> QED
    BY <2>2, <2>3
<1>3. ASSUME NEW d \in Caller, d # c, Works(d)
      PROVE  Halted' /\ run'[c].pc \in {"evaluate", "denied"}
  BY <1>3, Others DEF HaltInv, Halted
<1>4. CASE Works(c)
  <2>1. halts' = halts
    BY <1>4, Others
  <2>2. CASE \E a \in Agent, grants \in Grants : Start(c, a, grants)
    <3>1. run'[c].pc = "evaluate" /\ run'[c].underHalt = Halted
      BY <2>2 DEF Start, AgentTypeOK
    <3> QED
      BY <2>1, <3>1 DEF Halted
  <2>3. CASE ~\E a \in Agent, grants \in Grants : Start(c, a, grants)
    <3>1. run[c] # NoRun /\ run[c].underHalt
      BY <1>4, <2>3, OwnRun
    <3>2. Halted /\ run[c].pc \in {"evaluate", "denied"}
      BY <3>1 DEF HaltInv
    <3>3. Evaluate(c) \/ Deny(c)
      BY <1>4, <2>3, <3>2 DEF Works, Compute, ScanClears, FallbackClears, Clears, BookScan, ScanRefused,
         ScanFetches, ScanRaises, FallbackRefused, FallbackFetches, ReadLen, ReadTail, AppendEntry,
         Answer, RunAt
    <3>4. CASE Evaluate(c)
      <4>1. run' = [run EXCEPT ![c].pc = "denied"]
        BY <3>2, <3>4 DEF Evaluate, Becomes
      <4>2. run[c] \in Run
        BY <3>1 DEF AgentTypeOK
      <4> QED
        BY <2>1, <3>2, <4>1, <4>2 DEF AgentTypeOK, Run, Halted
    <3>5. CASE Deny(c)
      BY <3>5 DEF Deny, Tell, AgentTypeOK
    <3> QED
      BY <3>3, <3>4, <3>5
  <2> QED
    BY <2>2, <2>3
<1> QED
  BY <1>1, <1>2, <1>3, <1>4 DEF Next

\* The types hold in every behaviour.
THEOREM AgentTypesCorrect == Spec => []AgentTypeOK
<1>1. Init => AgentTypeOK
  <2> SUFFICES ASSUME Init PROVE AgentTypeOK
    OBVIOUS
  <2>1. EnvelopeTypeOK
    BY DEF Init, EnvelopeInit, EnvelopeTypeOK
  <2>2. run \in [Caller -> Run \cup {NoRun}] /\ ledger \in Seq(Entry)
        /\ started \in Nat /\ overlapped \in BOOLEAN
    <3>1. <<>> \in Seq(Entry)
      OBVIOUS
    <3> QED
      BY <3>1 DEF Init
  <2>3. \A c \in Caller : run[c].pc = "idle" /\ call[c] = NotCalling
    BY DEF Init, EnvelopeInit, NoRun
  <2> QED
    BY <2>1, <2>2, <2>3 DEF AgentTypeOK
<1> QED
  BY <1>1, AgentTypeStep, PTL DEF Spec

\* kill switch: a run that began under a halt which has not been lifted since
\* spends nothing and leaves no ledger entry, in the agent or in its fallback.
THEOREM HaltAlwaysHolds == Spec => []HaltHolds
<1>1. Init => HaltInv
  BY DEF Init, HaltInv
<1>2. AgentTypeOK /\ HaltInv => HaltHolds
  BY DEF HaltHolds, HaltInv, AgentTypeOK
<1> QED
  BY <1>1, <1>2, HaltStep, AgentTypesCorrect, PTL DEF Spec

-----------------------------------------------------------------------------
(* No agent executes without its grants. *)

\* The two functions that check the grants leave none unchecked.
LEMMA ChecksCoverAll ==
    ASSUME NEW a, NEW g, ~Forbidden(a, g), Awaits(a, g) = "executed"
    PROVE  Authorised(a, g)
  BY DEF Forbidden, Awaits, Authorised, HighBlast, Egress, Sensitive

\* Grants are never taken back, and an entry copies what its run was allowed.
LEMMA AuthStep == AgentTypeOK /\ AuthInv /\ [Next]_scanVars => AuthInv'
<1> SUFFICES ASSUME AgentTypeOK, AuthInv, [Next]_scanVars PROVE AuthInv'
  OBVIOUS
<1>1. CASE Halt \/ Resume \/ UNCHANGED scanVars
  <2>1. ledger' = ledger
    BY <1>1 DEF Halt, Resume, scanVars, agents
  <2>2. ASSUME NEW c \in Caller, run'[c] # NoRun
        PROVE  /\ run[c] # NoRun /\ run'[c].action = run[c].action
               /\ run'[c].agent = run[c].agent /\ run'[c].grants = run[c].grants
    <3>1. run'[c] = run[c] \/ (run[c] # NoRun /\ run'[c] = [run[c] EXCEPT !.underHalt = FALSE])
      BY <1>1, OutsideRuns
    <3> QED
      BY <2>2, <3>1 DEF AgentTypeOK, Run
  <2> QED
    BY <2>1, <2>2 DEF AuthInv
<1>2. ASSUME NEW c \in Caller, Works(c) PROVE AuthInv'
  <2>1. ASSUME NEW d \in Caller, run'[d] # NoRun, run'[d].action = "executed"
        PROVE  Authorised(run'[d].agent, run'[d].grants)
    <3>1. CASE d # c
      BY <1>2, <2>1, <3>1, Others DEF AuthInv
    <3>2. CASE d = c /\ \E a \in Agent, grants \in Grants : Start(c, a, grants)
      BY <2>1, <3>2 DEF Start, AgentTypeOK
    <3>3. CASE d = c /\ Evaluate(c) /\ run'[c].action # run[c].action
      <4>1. run[c] \in Run
        BY <3>3 DEF Evaluate, RunAt, AgentTypeOK, NoRun
      <4>2. ~Forbidden(run[c].agent, run[c].grants)
            /\ run'[c].action = Awaits(run[c].agent, run[c].grants)
        BY <3>3, <4>1 DEF Evaluate, Becomes, AgentTypeOK, Run
      <4>3. run'[c].agent = run[c].agent /\ run'[c].grants = run[c].grants
        BY <1>2, <2>1, <3>3, OwnRun DEF Start, Evaluate, RunAt
      <4> QED
        BY <2>1, <3>3, <4>2, <4>3, ChecksCoverAll
    <3>4. CASE d = c /\ run[c] # NoRun /\ run'[c].action = run[c].action
               /\ run'[c].agent = run[c].agent /\ run'[c].grants = run[c].grants
      BY <2>1, <3>4 DEF AuthInv
    <3> QED
      BY <1>2, <2>1, <3>1, <3>2, <3>3, <3>4, OwnRun
  <2>2. ASSUME NEW k \in DOMAIN ledger', ledger'[k].action = "executed"
        PROVE  Authorised(ledger'[k].agent, ledger'[k].grants)
    <3>1. CASE ledger' = ledger
      BY <2>2, <3>1 DEF AuthInv
    <3>2. CASE AppendEntry(c)
      <4>1. run[c] # NoRun
        BY <3>2 DEF AppendEntry, RunAt, NoRun
      <4>2. (k \in DOMAIN ledger /\ ledger'[k] = ledger[k]) \/ ledger'[k] = Ledgered(c)
        BY <2>2, <3>2, LedgerGrows
      <4> QED
        BY <2>2, <4>1, <4>2 DEF AuthInv, Ledgered
    <3> QED
      BY <1>2, <3>1, <3>2, Others
  <2> QED
    BY <2>1, <2>2 DEF AuthInv
<1> QED
  BY <1>1, <1>2 DEF Next

\* governance: an executed entry of the ledger has every grant its agent needed.
THEOREM ExecutionAlwaysAuthorised == Spec => []ExecutionIsAuthorised
<1>1. Init => AuthInv
  BY DEF Init, AuthInv
<1>2. AuthInv => ExecutionIsAuthorised
  BY DEF AuthInv, ExecutionIsAuthorised, Authorised
<1> QED
  BY <1>1, <1>2, AuthStep, AgentTypesCorrect, PTL DEF Spec

-----------------------------------------------------------------------------
(* The ledger has what the callers were told. *)

Ledgering == {"executed", "blocked_hitl", "blocked_second_auth"}

\* A thread tells one thing at a time, and one that belongs in the ledger only
\* at the end of its run.
LEMMA Told ==
    ASSUME AgentTypeOK, NEW c \in Caller, Works(c)
    PROVE  \/ answers' = answers
           \/ /\ Answer(c)
              /\ answers' = answers \cup {<<run[c].id, run[c].action>>}
           \/ \E kind \in {"halted", "blocked", "unaudited", "failed"} :
                 answers' = answers \cup {<<run[c].id, kind>>}
<1>1. CASE Deny(c)
  BY <1>1 DEF Deny, Tell
<1>2. CASE Answer(c)
  BY <1>2 DEF Answer, Tell
<1>3. CASE FallbackRefused(c) \/ FallbackFetches(c)
  BY <1>3 DEF FallbackRefused, FallbackFetches, Tell
<1>4. CASE ~(Deny(c) \/ Answer(c) \/ FallbackRefused(c) \/ FallbackFetches(c))
  BY <1>4 DEF Works, Start, Evaluate, Compute, ScanClears, FallbackClears, Clears, BookScan,
     ScanRefused, ScanFetches, ScanRaises, ReadLen, ReadTail, AppendEntry, agents
<1> QED
  BY <1>1, <1>2, <1>3, <1>4

\* Only the append leads to an answer from the ledger.
LEMMA AnswerFollowsAppend ==
    ASSUME AgentTypeOK, NEW c \in Caller, Works(c), run'[c].pc = "answer"
    PROVE  AppendEntry(c)
<1> USE DEF AgentTypeOK, RunAt, NoRun, Becomes
<1>0. run[c].pc # "idle" => run[c] \in Run
  OBVIOUS
<1>1. CASE \E a \in Agent, grants \in Grants : Start(c, a, grants)
  BY <1>1 DEF Start
<1>2. CASE Deny(c) \/ Answer(c) \/ FallbackRefused(c) \/ FallbackFetches(c)
  BY <1>2 DEF Deny, Answer, FallbackRefused, FallbackFetches, Tell
<1>3. CASE Evaluate(c) \/ Compute(c) \/ ReadLen(c) \/ ReadTail(c)
  BY <1>0, <1>3 DEF Run, Evaluate, Compute, ReadLen, ReadTail
<1>4. CASE ScanClears(c) \/ FallbackClears(c) \/ ScanRefused(c) \/ ScanFetches(c) \/ ScanRaises(c)
  BY <1>0, <1>4 DEF Run, ScanClears, FallbackClears, Clears, ScanRefused, ScanFetches, ScanRaises
<1>5. CASE BookScan(c)
  BY <1>5 DEF BookScan, agents
<1> QED
  BY <1>1, <1>2, <1>3, <1>4, <1>5 DEF Works

Filed(entries, id, action) == \E k \in DOMAIN entries : entries[k].id = id /\ entries[k].action = action

\* What is in the ledger stays there.
LEMMA FiledStays ==
    ASSUME AgentTypeOK, NEW id, NEW action, Filed(ledger, id, action),
           ledger' = ledger \/ \E c \in Caller : AppendEntry(c)
    PROVE  Filed(ledger', id, action)
<1>1. CASE ledger' = ledger
  BY <1>1 DEF Filed
<1>2. ASSUME NEW c \in Caller, AppendEntry(c) PROVE Filed(ledger', id, action)
  <2>1. PICK k \in DOMAIN ledger : ledger[k].id = id /\ ledger[k].action = action
    BY DEF Filed
  <2>2. k \in DOMAIN ledger' /\ ledger'[k] = ledger[k]
    BY <1>2, LedgerGrows
  <2> QED
    BY <2>1, <2>2 DEF Filed
<1> QED
  BY <1>1, <1>2

\* Every answer that claims an entry, and every run about to give one, has it.
LEMMA LedgerStep == AgentTypeOK /\ LedgerInv /\ [Next]_scanVars => LedgerInv'
<1> SUFFICES ASSUME AgentTypeOK, LedgerInv, [Next]_scanVars PROVE LedgerInv'
  OBVIOUS
<1>0. /\ \A ans \in answers : ans[2] \in Ledgering => Filed(ledger, ans[1], ans[2])
      /\ \A c \in Caller : run[c].pc = "answer" => Filed(ledger, run[c].id, run[c].action)
  BY DEF LedgerInv, AnswersAreLedgered, Ledgering, Filed, RunAt
<1>1. SUFFICES /\ \A ans \in answers' : ans[2] \in Ledgering => Filed(ledger', ans[1], ans[2])
               /\ \A c \in Caller : run'[c].pc = "answer" => Filed(ledger', run'[c].id, run'[c].action)
  BY DEF LedgerInv, AnswersAreLedgered, Ledgering, Filed, RunAt
<1>2. CASE Halt \/ Resume \/ UNCHANGED scanVars
  <2>1. ledger' = ledger /\ answers' = answers
    BY <1>2 DEF Halt, Resume, scanVars, agents
  <2>2. \A id, action : Filed(ledger, id, action) => Filed(ledger', id, action)
    BY <2>1 DEF Filed
  <2>3. ASSUME NEW c \in Caller, run'[c].pc = "answer"
        PROVE  run[c].pc = "answer" /\ run'[c].id = run[c].id /\ run'[c].action = run[c].action
    <3>1. run'[c] = run[c] \/ (run[c] # NoRun /\ run'[c] = [run[c] EXCEPT !.underHalt = FALSE])
      BY <1>2, OutsideRuns
    <3> QED
      BY <2>3, <3>1 DEF AgentTypeOK, Run
  <2> QED
    BY <1>0, <2>1, <2>2, <2>3
<1>3. ASSUME NEW c \in Caller, Works(c)
      PROVE  /\ \A ans \in answers' : ans[2] \in Ledgering => Filed(ledger', ans[1], ans[2])
             /\ \A d \in Caller : run'[d].pc = "answer" => Filed(ledger', run'[d].id, run'[d].action)
  <2>1. ASSUME NEW id, NEW action, Filed(ledger, id, action) PROVE Filed(ledger', id, action)
    BY <1>3, <2>1, Others, FiledStays
  <2>2. ASSUME NEW ans \in answers', ans[2] \in Ledgering PROVE Filed(ledger', ans[1], ans[2])
    <3>1. CASE ans \in answers
      BY <1>0, <2>1, <2>2, <3>1
    <3>2. CASE Answer(c) /\ ans = <<run[c].id, run[c].action>>
      <4>1. run[c].pc = "answer"
        BY <3>2 DEF Answer, RunAt
      <4> QED
        BY <1>0, <2>1, <3>2, <4>1
    <3>3. CASE \E kind \in {"halted", "blocked", "unaudited", "failed"} : ans = <<run[c].id, kind>>
      BY <2>2, <3>3 DEF Ledgering
    <3> QED
      BY <1>3, <3>1, <3>2, <3>3, Told
  <2>3. ASSUME NEW d \in Caller, run'[d].pc = "answer" PROVE Filed(ledger', run'[d].id, run'[d].action)
    <3>1. CASE d # c
      BY <1>0, <1>3, <2>1, <2>3, <3>1, Others
    <3>2. CASE d = c
      <4>1. AppendEntry(c)
        BY <1>3, <2>3, <3>2, AnswerFollowsAppend
      <4>2. run[c] \in Run
        BY <4>1 DEF AppendEntry, RunAt, AgentTypeOK, NoRun
      <4>3. run'[c].id = run[c].id /\ run'[c].action = run[c].action
        BY <4>1, <4>2 DEF AppendEntry, Becomes, AgentTypeOK, Run
      <4>4. /\ Len(ledger) + 1 \in DOMAIN ledger'
            /\ ledger'[Len(ledger) + 1] = Ledgered(c)
        BY <4>1, LedgerGrows
      <4> QED
        BY <3>2, <4>3, <4>4 DEF Filed, Ledgered
    <3> QED
      BY <3>1, <3>2
  <2> QED
    BY <2>2, <2>3
<1> QED
  BY <1>2, <1>3 DEF Next

\* Whoever was told that an agent executed, or awaits a person, finds it in the
\* ledger, however the unlocked appends of any number of threads interleave.
THEOREM AnswersAlwaysLedgered == Spec => []AnswersAreLedgered
<1>1. Init => LedgerInv
  BY DEF Init, LedgerInv, AnswersAreLedgered, RunAt, NoRun
<1>2. LedgerInv => AnswersAreLedgered
  BY DEF LedgerInv
<1> QED
  BY <1>1, <1>2, LedgerStep, AgentTypesCorrect, PTL DEF Spec

-----------------------------------------------------------------------------
(* The links of the ledger. *)

\* What an append under way has read of the ledger.
LEMMA Reading ==
    ASSUME AgentTypeOK, NEW c \in Caller, Works(c)
    PROVE  /\ run'[c].pc \in {"tail", "append"} =>
                \/ (ReadLen(c) /\ run'[c].pc = "tail")
                \/ (ReadTail(c) /\ run'[c].pc = "append")
           /\ ReadLen(c) => run'[c].seq = Len(ledger)
           /\ ReadTail(c) => /\ run[c].pc = "tail" /\ run'[c].seq = run[c].seq
                             /\ run'[c].prev = Len(ledger)
<1> USE DEF AgentTypeOK, RunAt, NoRun, Becomes
<1>0. run[c].pc # "idle" => run[c] \in Run
  OBVIOUS
<1>1. CASE \E a \in Agent, grants \in Grants : Start(c, a, grants)
  BY <1>1 DEF Start, ReadLen, ReadTail
<1>2. CASE Deny(c) \/ Answer(c) \/ FallbackRefused(c) \/ FallbackFetches(c)
  BY <1>2 DEF Deny, Answer, FallbackRefused, FallbackFetches, Tell, ReadLen, ReadTail
<1>3. CASE Evaluate(c) \/ Compute(c) \/ ScanRefused(c) \/ AppendEntry(c)
  BY <1>0, <1>3 DEF Run, Evaluate, Compute, ScanRefused, AppendEntry, ReadLen, ReadTail
<1>4. CASE ScanClears(c) \/ FallbackClears(c)
  BY <1>0, <1>4 DEF Run, ScanClears, FallbackClears, Clears, ReadLen, ReadTail
<1>5. CASE ScanFetches(c) \/ ScanRaises(c)
  BY <1>0, <1>5 DEF Run, ScanFetches, ScanRaises, ReadLen, ReadTail
<1>6. CASE BookScan(c)
  BY <1>6 DEF BookScan, agents, ReadLen, ReadTail
<1>7. CASE ReadLen(c)
  <2>1. run'[c] = [run[c] EXCEPT !.pc = "tail", !.seq = Len(ledger)]
    BY <1>7 DEF ReadLen
  <2>2. run[c].pc = "len" /\ run[c] \in Run
    BY <1>0, <1>7 DEF ReadLen
  <2>3. run'[c].pc = "tail" /\ run'[c].seq = Len(ledger)
    BY <2>1, <2>2 DEF Run
  <2> QED
    BY <1>7, <2>2, <2>3 DEF ReadTail
<1>8. CASE ReadTail(c)
  BY <1>0, <1>8 DEF Run, ReadLen, ReadTail
<1> QED
  BY <1>1, <1>2, <1>3, <1>4, <1>5, <1>6, <1>7, <1>8 DEF Works

\* While no two runs have overlapped the thread that works is the only one.
LEMMA Alone ==
    ASSUME AgentTypeOK, LinkInv, NEW c \in Caller, Works(c), ~overlapped'
    PROVE  ~overlapped /\ \A d \in Caller \ {c} : run[d] = NoRun
<1>1. CASE \E a \in Agent, grants \in Grants : Start(c, a, grants)
  <2>1. ~overlapped /\ \A d \in Caller : RunAt(d, "idle")
    BY <1>1 DEF Start
  <2>2. \A d \in Caller : run[d] \in Run \cup {NoRun}
    BY DEF AgentTypeOK
  <2> QED
    BY <2>1, <2>2 DEF RunAt, Run, Stage
<1>2. CASE ~\E a \in Agent, grants \in Grants : Start(c, a, grants)
  <2>1. run[c].pc # "idle"
    BY <1>2 DEF Works, Evaluate, Deny, Compute, ScanClears, FallbackClears, Clears, BookScan,
       ScanRefused, ScanFetches, ScanRaises, FallbackRefused, FallbackFetches, ReadLen, ReadTail,
       AppendEntry, Answer, RunAt
  <2>2. run[c] # NoRun
    BY <2>1 DEF NoRun
  <2>3. overlapped' = overlapped
    BY <1>2 DEF Works, Evaluate, Deny, Compute, ScanClears, FallbackClears, Clears, BookScan,
       ScanRefused, ScanFetches, ScanRaises, FallbackRefused, FallbackFetches, ReadLen, ReadTail,
       AppendEntry, Answer, Governing, agents
  <2> QED
    BY <2>2, <2>3 DEF LinkInv
<1> QED
  BY <1>1, <1>2

\* An append stores what it read of a ledger that was no longer than the present one.
LEMMA LinkStep == AgentTypeOK /\ LinkInv /\ [Next]_scanVars => LinkInv'
<1> SUFFICES ASSUME AgentTypeOK, LinkInv, [Next]_scanVars PROVE LinkInv'
  OBVIOUS
<1>0. Len(ledger) \in Nat /\ DOMAIN ledger = 1..Len(ledger)
  BY DEF AgentTypeOK
<1>1. CASE Halt \/ Resume \/ UNCHANGED scanVars
  <2>1. ledger' = ledger /\ overlapped' = overlapped
    BY <1>1 DEF Halt, Resume, scanVars, agents
  <2>2. ASSUME NEW c \in Caller
        PROVE  /\ run'[c] # NoRun => run[c] # NoRun
               /\ run'[c].pc = run[c].pc
               /\ run'[c].pc \in {"tail", "append"} =>
                    run'[c].seq = run[c].seq /\ run'[c].prev = run[c].prev
    <3>1. run'[c] = run[c] \/ (run[c] # NoRun /\ run'[c] = [run[c] EXCEPT !.underHalt = FALSE])
      BY <1>1, OutsideRuns
    <3> QED
      BY <3>1 DEF AgentTypeOK, Run
  <2>3. LedgerLinksBack'
    BY <2>1 DEF LinkInv, LedgerLinksBack, Verifies
  <2> QED
    BY <2>1, <2>2, <2>3 DEF LinkInv
<1>2. ASSUME NEW c \in Caller, Works(c) PROVE LinkInv'
  <2>1. ledger' = ledger \/ AppendEntry(c)
    BY <1>2, Others
  <2>2. /\ Len(ledger') \in Nat /\ Len(ledger) <= Len(ledger')
        /\ DOMAIN ledger' = 1..Len(ledger')
        /\ \A k \in DOMAIN ledger : ledger'[k] = ledger[k]
    BY <1>0, <2>1, LedgerGrows
  <2>3. ASSUME NEW d \in Caller
        PROVE  /\ run'[d].pc \in {"tail", "append"} => run'[d].seq <= Len(ledger')
               /\ run'[d].pc = "append" => run'[d].prev <= Len(ledger')
    <3>1. CASE d # c
      <4>1. run'[d] = run[d]
        BY <1>2, <3>1, Others
      <4>2. run[d].pc \in {"tail", "append"} => run[d].seq \in Nat /\ run[d].prev \in Nat
        BY DEF AgentTypeOK, Run, NoRun
      <4> QED
        BY <1>0, <2>2, <4>1, <4>2 DEF LinkInv
    <3>2. CASE d = c
      <4>1. run[c].pc = "tail" => run[c].seq \in Nat /\ run[c].seq <= Len(ledger)
        BY DEF AgentTypeOK, Run, NoRun, LinkInv
      <4> QED
        BY <1>0, <1>2, <2>2, <3>2, <4>1, Reading
    <3> QED
      BY <3>1, <3>2
  <2>4. ASSUME ~overlapped', NEW d \in Caller, run'[d] # NoRun
        PROVE  d = c
    BY <1>2, <2>4, Alone, Others
  <2>5. ASSUME ~overlapped', NEW d \in Caller
        PROVE  /\ run'[d].pc \in {"tail", "append"} => run'[d].seq = Len(ledger')
               /\ run'[d].pc = "append" => run'[d].prev = Len(ledger')
    <3>1. CASE d # c
      <4>1. run'[d] = NoRun
        BY <2>4, <2>5, <3>1
      <4> QED
        BY <4>1 DEF NoRun
    <3>2. CASE d = c /\ run'[d].pc \in {"tail", "append"}
      <4>1. ~overlapped
        BY <1>2, <2>5, Alone
      <4>2. ReadLen(c) \/ ReadTail(c)
        BY <1>2, <3>2, Reading
      <4>3. ledger' = ledger
        BY <4>2 DEF ReadLen, ReadTail, Governing
      <4>4. run[c].pc = "tail" => run[c].seq = Len(ledger)
        BY <4>1 DEF LinkInv
      <4> QED
        BY <1>2, <3>2, <4>3, <4>4, Reading
    <3> QED
      BY <3>1, <3>2
  <2>6. LedgerLinksBack'
    <3>1. CASE ledger' = ledger
      <4>1. ~overlapped' => ~overlapped
        BY <1>2, Alone
      <4> QED
        BY <3>1, <4>1 DEF LinkInv, LedgerLinksBack, Verifies
    <3>2. CASE AppendEntry(c)
      <4> DEFINE l == Len(ledger)
      <4>1. run[c].pc = "append" /\ run[c] \in Run
        BY <3>2 DEF AppendEntry, RunAt, AgentTypeOK, NoRun
      <4>2. run[c].seq \in Nat /\ run[c].prev \in Nat
            /\ run[c].seq <= l /\ run[c].prev <= l
        BY <4>1 DEF Run, LinkInv
      <4>3. ledger'[l + 1].seq = run[c].seq /\ ledger'[l + 1].prev = run[c].prev
            /\ DOMAIN ledger' = 1..l + 1
        <5>1. ledger'[l + 1] = Ledgered(c) /\ DOMAIN ledger' = 1..l + 1
          BY <3>2, LedgerGrows
        <5> QED
          BY <5>1 DEF Ledgered
      <4>4. ASSUME NEW k \in DOMAIN ledger'
            PROVE  ledger'[k].prev < k /\ ledger'[k].seq < k
        <5>1. CASE k = l + 1
          BY <1>0, <4>2, <4>3, <5>1
        <5>2. CASE k \in DOMAIN ledger
          BY <2>2, <5>2 DEF LinkInv, LedgerLinksBack
        <5> QED
          BY <1>0, <4>3, <5>1, <5>2
      <4>5. ASSUME ~overlapped', NEW k \in DOMAIN ledger'
            PROVE  ledger'[k].prev = k - 1 /\ ledger'[k].seq = k - 1
        <5>0. ~overlapped
          BY <1>2, <4>5, Alone
        <5>1. CASE k = l + 1
          <6>1. run[c].seq = l /\ run[c].prev = l
            BY <4>1, <5>0 DEF LinkInv
          <6> QED
            BY <1>0, <4>3, <5>1, <6>1
        <5>2. CASE k \in DOMAIN ledger
          BY <2>2, <5>0, <5>2 DEF LinkInv, LedgerLinksBack, Verifies
        <5> QED
          BY <1>0, <4>3, <5>1, <5>2
      <4> QED
        BY <4>4, <4>5 DEF LedgerLinksBack, Verifies
    <3> QED
      BY <2>1, <3>1, <3>2
  <2> QED
    BY <2>3, <2>4, <2>5, <2>6 DEF LinkInv
<1> QED
  BY <1>1, <1>2 DEF Next

\* The ledger's links lead back, never forward; while no two runs have
\* overlapped its chain verifies and is numbered without a gap.
THEOREM LedgerAlwaysLinksBack == Spec => []LedgerLinksBack
<1>1. Init => LinkInv
  BY DEF Init, LinkInv, LedgerLinksBack, Verifies, NoRun
<1>2. LinkInv => LedgerLinksBack
  BY DEF LinkInv
<1> QED
  BY <1>1, <1>2, LinkStep, AgentTypesCorrect, PTL DEF Spec
=============================================================================
