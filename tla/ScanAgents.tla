----------------------------- MODULE ScanAgents -----------------------------
(***************************************************************************)
(* The governed agents (src/agents/lifecycle.py, src/agents/agents.py) and *)
(* the live scan that runs as one of them (src/api/scan_router.py).  The   *)
(* scan route is a plain `def`, so scans run in threads of one process and *)
(* share its kill switch, its governance engine, its audit ledger and the  *)
(* cost tracker of CostEnvelope, none of them but the last with a lock.    *)
(* The other agents are classes the route does not use; they are run here  *)
(* with any grants, since BaseAgent.run is where those are checked.        *)
(***************************************************************************)
EXTENDS CostEnvelope, Sequences

CONSTANTS
    Agent,      \* names of the agents that are run
    Grants,     \* the sets of grants the callers pass to run
    MaxRuns     \* bound: runs ever started

ASSUME AgentAssumption ==
    Agent \subseteq {"scan_agent", "takedown_agent", "victim_id_agent", "cred_poison_agent",
                     "synth_pages_agent", "learning_agent", "slm_triage_agent"}
ASSUME GrantsAssumption == Grants \subseteq SUBSET {"basis", "region", "hitl", "second"}
ASSUME MaxRunsAssumption == MaxRuns \in Nat

VARIABLES
    halts,      \* the halts in force: "global", "tenant"
    run,        \* what each thread's agent run is doing
    ledger,     \* AgentAuditLedger._entries
    answers,    \* what the callers were told
    started,    \* runs started so far
    overlapped  \* two of them were under way at the same time

agents == <<run, ledger, answers, started, overlapped>>
scanVars == <<envelope, halts, agents>>

-----------------------------------------------------------------------------
(* What an agent needs before it may execute. *)

Sensitive(a) == a \in {"victim_id_agent", "cred_poison_agent", "synth_pages_agent"}
Egress(a) == a \in {"cred_poison_agent", "synth_pages_agent"}
HighBlast(a) == Sensitive(a) \/ a = "takedown_agent"    \* blast_radius >= 0.5

Halted == halts # {}

\* evaluate: not allowed at all
Forbidden(a, grants) ==
    \/ Sensitive(a) /\ "basis" \notin grants
    \/ Egress(a) /\ "region" \notin grants

\* mutant: an approval stands for the second person too
Awaits_OnePerson(a, grants) ==
    IF HighBlast(a) /\ "hitl" \notin grants THEN "blocked_hitl"
    ELSE IF Egress(a) /\ "second" \notin grants /\ "hitl" \notin grants THEN "blocked_second_auth"
    ELSE "executed"

\* run: allowed, but a person has to agree first
Awaits(a, grants) ==
    IF HighBlast(a) /\ "hitl" \notin grants THEN "blocked_hitl"
    ELSE IF Egress(a) /\ "second" \notin grants THEN "blocked_second_auth"
    ELSE "executed"

-----------------------------------------------------------------------------
NoRun == [pc |-> "idle"]

Init ==
    /\ EnvelopeInit
    /\ halts = {}
    /\ run = [c \in Caller |-> NoRun]
    /\ ledger = <<>>
    /\ answers = {}
    /\ started = 0 /\ overlapped = FALSE

RunAt(c, pc) == run[c].pc = pc
Becomes(c, pc) == run' = [run EXCEPT ![c].pc = pc]
Tell(c, kind) ==
    /\ answers' = answers \cup {<<run[c].id, kind>>}
    /\ run' = [run EXCEPT ![c] = NoRun]
Governing == UNCHANGED <<envelope, halts, ledger, started, overlapped>>

\* An administrator halts or resumes the tenant or all tenants.  underHalt
\* remembers which runs have been halted from their start.
Halt ==
    /\ \E k \in {"global", "tenant"} : halts' = halts \cup {k}
    /\ UNCHANGED <<envelope, agents>>
Resume ==
    /\ \E k \in {"global", "tenant"} : halts' = halts \ {k}
    /\ run' = [c \in Caller |-> IF run[c] # NoRun /\ halts' = {}
                                THEN [run[c] EXCEPT !.underHalt = FALSE] ELSE run[c]]
    /\ UNCHANGED <<envelope, ledger, answers, started, overlapped>>

\* _scan_via_agent passes no grants; whoever runs another agent passes some.
Start(c, a, grants) ==
    /\ RunAt(c, "idle")
    /\ a = "scan_agent" => grants = {}
    /\ started < MaxRuns
    /\ started' = started + 1
    /\ run' = [run EXCEPT ![c] =
         [pc |-> "evaluate", id |-> started + 1, agent |-> a, grants |-> grants,
          action |-> "none", seq |-> 0, prev |-> 0, underHalt |-> Halted]]
    /\ overlapped' = (overlapped \/ \E d \in Caller : ~RunAt(d, "idle"))
    /\ UNCHANGED <<envelope, halts, ledger, answers>>

\* mutant: the kill switch is only consulted for agents with a blast radius
Evaluate_ScanExempt(c) ==
    /\ RunAt(c, "evaluate")
    /\ LET a == run[c].agent
           g == run[c].grants
       IN IF (Halted /\ HighBlast(a)) \/ Forbidden(a, g)
            THEN Becomes(c, "denied")
            ELSE run' = [run EXCEPT ![c].action = Awaits(a, g),
                                    ![c].pc = IF Awaits(a, g) = "executed" THEN "execute" ELSE "len"]
    /\ UNCHANGED answers /\ Governing
\* GovernanceEngine.evaluate, and the conditions run tests on its decision
Evaluate(c) ==
    /\ RunAt(c, "evaluate")
    /\ LET a == run[c].agent
           g == run[c].grants
       IN IF Halted \/ Forbidden(a, g)
            THEN Becomes(c, "denied")
            ELSE run' = [run EXCEPT ![c].action = Awaits(a, g),
                                    ![c].pc = IF Awaits(a, g) = "executed" THEN "execute" ELSE "len"]
    /\ UNCHANGED answers /\ Governing

\* run asks the kill switch a second time to tell a halt from a refusal
Deny(c) ==
    /\ RunAt(c, "denied")
    /\ Tell(c, IF Halted THEN "halted" ELSE "blocked")
    /\ Governing

\* _execute of an agent that only computes
Compute(c) ==
    /\ RunAt(c, "execute")
    /\ run[c].agent # "scan_agent"
    /\ Becomes(c, "len")
    /\ UNCHANGED answers /\ Governing

\* run_scan up to the network, from the agent or from its fallback
Clears(c, from, to) ==
    /\ RunAt(c, from)
    /\ run[c].agent = "scan_agent"
    /\ \E usd \in Price : Clear(c, usd)
    /\ Becomes(c, to)
    /\ UNCHANGED <<halts, ledger, answers, started, overlapped>>

BookScan(c) ==
    /\ RunAt(c, "fetching") \/ RunAt(c, "refetching")
    /\ Book(c)
    /\ UNCHANGED <<halts, agents>>

ScanClears(c) == Clears(c, "execute", "fetching")

\* run_scan catches EnvelopeThrottled: an error is a result like any other
ScanRefused(c) ==
    /\ RunAt(c, "execute")
    /\ run[c].agent = "scan_agent"
    /\ Refuse(c)
    /\ Becomes(c, "len")
    /\ UNCHANGED <<halts, ledger, answers, started, overlapped>>

\* The page came or not, the models answered or not: run_scan returns.
ScanFetches(c) ==
    /\ RunAt(c, "fetching")
    /\ Fetch(c) \/ Unsent(c)
    /\ Becomes(c, "len")
    /\ UNCHANGED <<halts, ledger, answers, started, overlapped>>

\* _merge raises on a verdict outside _VERDICTS: _scan_via_agent goes on
\* without the agent
ScanRaises(c) ==
    /\ RunAt(c, "fetching")
    /\ Fetch(c)
    /\ Becomes(c, "fallback")
    /\ UNCHANGED <<halts, ledger, answers, started, overlapped>>

FallbackClears(c) == Clears(c, "fallback", "refetching")

FallbackRefused(c) ==
    /\ RunAt(c, "fallback")
    /\ Refuse(c)
    /\ Tell(c, "unaudited")
    /\ UNCHANGED <<halts, ledger, started, overlapped>>

FallbackFetches(c) ==
    /\ RunAt(c, "refetching")
    /\ Fetch(c) \/ Unsent(c)
    /\ \E kind \in {"unaudited", "failed"} : Tell(c, kind)
    /\ UNCHANGED <<halts, ledger, started, overlapped>>

-----------------------------------------------------------------------------
(* AgentAuditLedger.append: seq, prev and the append are three steps. *)

ReadLen(c) ==
    /\ RunAt(c, "len")
    /\ run' = [run EXCEPT ![c].pc = "tail", ![c].seq = Len(ledger)]
    /\ UNCHANGED answers /\ Governing

\* mutant: the last entry's prev_hash is taken, not its this_hash
ReadTail_ItsPrev(c) ==
    /\ RunAt(c, "tail")
    /\ run' = [run EXCEPT ![c].pc = "append",
                          ![c].prev = IF ledger = <<>> THEN 0 ELSE ledger[Len(ledger)].prev]
    /\ UNCHANGED answers /\ Governing

ReadTail(c) ==
    /\ RunAt(c, "tail")
    /\ run' = [run EXCEPT ![c].pc = "append", ![c].prev = Len(ledger)]
    /\ UNCHANGED answers /\ Governing

Ledgered(c) ==
    [id |-> run[c].id, agent |-> run[c].agent, grants |-> run[c].grants,
     action |-> run[c].action, seq |-> run[c].seq, prev |-> run[c].prev]

\* mutant: the entry is stored in the slot of its number
AppendEntry_BySeq(c) ==
    /\ RunAt(c, "append")
    /\ ledger' = SubSeq(ledger, 1, run[c].seq) \o <<Ledgered(c)>>
    /\ Becomes(c, "answer")
    /\ UNCHANGED <<envelope, halts, answers, started, overlapped>>

AppendEntry(c) ==
    /\ RunAt(c, "append")
    /\ ledger' = Append(ledger, Ledgered(c))
    /\ Becomes(c, "answer")
    /\ UNCHANGED <<envelope, halts, answers, started, overlapped>>

Answer(c) ==
    /\ RunAt(c, "answer")
    /\ Tell(c, run[c].action)
    /\ Governing

Works(c) ==
    \/ \E a \in Agent, grants \in Grants : Start(c, a, grants)
    \/ Evaluate(c) \/ Deny(c) \/ Compute(c)
    \/ ScanClears(c) \/ BookScan(c) \/ ScanRefused(c) \/ ScanFetches(c) \/ ScanRaises(c)
    \/ FallbackClears(c) \/ FallbackRefused(c) \/ FallbackFetches(c)
    \/ ReadLen(c) \/ ReadTail(c) \/ AppendEntry(c) \/ Answer(c)

Next == Halt \/ Resume \/ \E c \in Caller : Works(c)

Spec == Init /\ [][Next]_scanVars

-----------------------------------------------------------------------------
(* Properties *)

\* A run that began under a halt which has not been lifted since spends
\* nothing, executes nothing and leaves no ledger entry, through the agent or
\* through its fallback.
HaltHolds ==
    \A c \in Caller : run[c] # NoRun =>
        (run[c].underHalt => /\ run[c].pc \in {"evaluate", "denied"}
                             /\ call[c] = NotCalling)

\* Whoever was told that an agent executed, or awaits a person, finds it in
\* the ledger, however the unlocked appends of other threads interleave.
AnswersAreLedgered ==
    \A ans \in answers :
        ans[2] \in {"executed", "blocked_hitl", "blocked_second_auth"} =>
            \E k \in DOMAIN ledger : ledger[k].id = ans[1] /\ ledger[k].action = ans[2]

\* An executed entry carries every grant its agent needed: lawful basis for
\* sensitive agents, a permitted region and a second person for egress, and
\* a reviewer for a high blast radius.
ExecutionIsAuthorised ==
    \A k \in DOMAIN ledger : ledger[k].action = "executed" =>
        LET a == ledger[k].agent
            g == ledger[k].grants
        IN /\ Sensitive(a) => {"basis", "hitl"} \subseteq g
           /\ Egress(a) => {"region", "second"} \subseteq g
           /\ a = "takedown_agent" => "hitl" \in g

\* AgentAuditLedger.verify_chain: a hash covers the number, but the numbers are
\* not compared with the places.
Verifies == \A k \in DOMAIN ledger : ledger[k].prev = k - 1

\* Links lead back, never forward; and as long as no two runs overlapped the
\* ledger is numbered 0, 1, 2, ... and verify_chain succeeds.
LedgerLinksBack ==
    /\ \A k \in DOMAIN ledger : ledger[k].prev < k /\ ledger[k].seq < k
    /\ ~overlapped => Verifies /\ \A k \in DOMAIN ledger : ledger[k].seq = k - 1
=============================================================================
