---------------------------- MODULE TakedownGate ----------------------------
(***************************************************************************)
(* A takedown from the POST /api/alerts/{id}/takedown route to its answer: *)
(* submit_alert_takedown (src/api/app.py) inside AuditMiddleware           *)
(* (src/api/audit_middleware.py), beside the review gate.  The route files *)
(* with the provider first, then records the filing in a session of its    *)
(* own, then answers; the middleware logs the answer in another session.   *)
(* Both sessions run on the audit log of AuditChain; ReviewGate stands for *)
(* the reviewers' decisions, which the route does not read.                *)
(***************************************************************************)
EXTENDS AuditChain

CONSTANTS
    Alert,          \* alerts with a stored bundle, one review item for each
    Nobody,         \* the NULL tenant: an API key's request has no account
    Verdict, NoVerdict,
    MaxFilings      \* bound: cases an alert may have with its provider

ASSUME AlertAssumption == Alert \subseteq Content
ASSUME NobodyAssumption == Nobody \in Account
ASSUME MaxFilingsAssumption == MaxFilings \in Nat

VARIABLES
    review,     \* state of the alert's review item
    call,       \* the takedown request each process is serving
    filed,      \* abuse cases the provider opened, per alert
    answered    \* alerts some client was told are submitted

\* A process whose call is idle may serve any other audited request.
chain == <<table, lock, req, collided>>
gateVars == <<chain, review, call, filed, answered>>

Gate == INSTANCE ReviewGate WITH Item <- Alert

-----------------------------------------------------------------------------
NoCall == [pc |-> "none"]
Call == [pc: {"loaded", "unrecorded", "recording", "responding", "logging"},
         alert: Alert, success: BOOLEAN]

InCall(p) == call[p].pc # "none"
CallAt(p, pc) == call[p].pc = pc
Goto(p, pc) == call' = [call EXCEPT ![p].pc = pc]
EndCall(p) == call' = [call EXCEPT ![p] = NoCall]

GateInit ==
    /\ Init
    /\ Gate!GateInit
    /\ call = [p \in Process |-> NoCall]
    /\ filed = [a \in Alert |-> 0]
    /\ answered = {}

\* _load_alert_bundle, and the tenant check that may end in a 404
Load(p, a) ==
    /\ ~InCall(p)
    /\ ~Busy(p)
    /\ call' = [call EXCEPT ![p] = [pc |-> "loaded", alert |-> a, success |-> FALSE]]
    /\ UNCHANGED <<chain, review, filed, answered>>

\* submit_takedown: the first enabled provider that supports the host opens a
\* case, or none does, or the provider refuses
File(p) ==
    /\ CallAt(p, "loaded")
    /\ \/ /\ filed[call[p].alert] < MaxFilings
          /\ filed' = [filed EXCEPT ![call[p].alert] = @ + 1]
          /\ call' = [call EXCEPT ![p].pc = "unrecorded", ![p].success = TRUE]
       \/ /\ Goto(p, "unrecorded")
          /\ UNCHANGED filed
    /\ UNCHANGED <<chain, review, answered>>

\* the route's session: AuditLogRepo.record under the alert's tenant
OpenRecord(p) ==
    /\ CallAt(p, "unrecorded")
    /\ \E acct \in Account : Open(p, "submission", acct, call[p].alert)
    /\ Goto(p, "recording")
    /\ UNCHANGED <<review, filed, answered>>

\* session_scope committed: 200 with the case id, or 400 when not filed
Recorded(p) ==
    /\ CallAt(p, "recording")
    /\ Commit(p)
    /\ Goto(p, "responding")
    /\ UNCHANGED <<review, filed, answered>>

\* mutant: a failed record is logged and passed over
RecordFails_Swallowed(p) ==
    /\ CallAt(p, "recording")
    /\ Collide(p) \/ Rollback(p)
    /\ Goto(p, "responding")
    /\ UNCHANGED <<review, filed, answered>>
\* The session raised.  The exception passes through call_next, so dispatch
\* never reaches its own audit.record: the client gets a 500.
RecordFails(p) ==
    /\ CallAt(p, "recording")
    /\ Collide(p) \/ Rollback(p)
    /\ EndCall(p)
    /\ UNCHANGED <<review, filed, answered>>

\* dispatch: audit.record of the response, for the account of the token
OpenLog(p) ==
    /\ CallAt(p, "responding")
    /\ \E acct \in Account : Open(p, "middleware", acct, call[p].alert)
    /\ Goto(p, "logging")
    /\ UNCHANGED <<review, filed, answered>>

\* logged, or the failure swallowed: either way the response goes out
Respond(p) ==
    /\ CallAt(p, "logging")
    /\ Commit(p) \/ Collide(p) \/ Rollback(p)
    /\ answered' = answered \cup IF call[p].success THEN {call[p].alert} ELSE {}
    /\ EndCall(p)
    /\ UNCHANGED <<review, filed>>

\* steps of audit.record inside either session
Record(p) ==
    /\ InCall(p)
    /\ ReadPrev(p) \/ ReadSeq(p) \/ Insert(p)
    /\ UNCHANGED <<review, call, filed, answered>>

\* any other audited request; its entries are about something else
Elsewhere(p) ==
    /\ ~InCall(p)
    /\ Step(p)
    /\ req'[p] # Idle => req'[p].body \notin Alert
    /\ UNCHANGED <<review, call, filed, answered>>

Review ==
    /\ Gate!GateNext
    /\ UNCHANGED <<chain, call, filed, answered>>

Takedown(p) == \/ \E a \in Alert : Load(p, a)
               \/ File(p) \/ OpenRecord(p) \/ Record(p) \/ Recorded(p)
               \/ RecordFails(p) \/ OpenLog(p) \/ Respond(p)

GateNext == Review \/ \E p \in Process : Takedown(p) \/ Elsewhere(p)

GateSpec == GateInit /\ [][GateNext]_gateVars

-----------------------------------------------------------------------------
(* Properties *)

\* the rows of T that record a filing for a
Records(T, a) == {r \in T : r.body = a /\ r.hash = NoHash}

\* A client told that a takedown was submitted can find the filing in the
\* audit log: the row commits before the answer, and nothing removes it.
AnsweredIsRecorded == \A a \in answered : Records(table, a) # {}

\* review.py: "no ungated takedown": a filed alert was approved as phish.
NoUngatedTakedown ==
    \A a \in Alert : filed[a] > 0 => Gate!Eligible(review[a])
=============================================================================
