----------------------------- MODULE ReviewQueue ----------------------------
(***************************************************************************)
(* The review queue of src/common/review.py as the API serves it: several  *)
(* uvicorn workers, each running one handler of ops_router at a time, over *)
(* one SQLite file.  A handler loads the row outside any transaction; its  *)
(* first UPDATE takes the write lock, which it holds until session_scope   *)
(* commits or rolls back, so what it writes is visible only at the commit. *)
(* The ORM updates the columns the handler assigned and no others.         *)
(***************************************************************************)
EXTENDS Naturals, Sequences, FiniteSets

CONSTANTS
    Worker,     \* worker processes, one request each at a time
    Item,       \* review items
    User,       \* assignees
    Verdict,    \* AI and human verdicts
    NoVerdict,  \* NULL in human_verdict
    NoUser,     \* NULL in assigned_to
    NoWorker    \* nobody holds the write lock

ASSUME VerdictAssumption == {"phish", "benign"} \subseteq Verdict
ASSUME NoVerdictAssumption == NoVerdict \notin Verdict
ASSUME NoUserAssumption == NoUser \notin User
ASSUME NoWorkerAssumption == NoWorker \notin Worker

VARIABLES
    item,       \* rows of review_items
    overdue,    \* items whose sla_due_at has passed
    lock,       \* holder of SQLite's write lock
    job,        \* the handler each worker is running
    trail,      \* committed audit entries of decisions, per item
    label,      \* committed active-learning outcomes, per item
    notice,     \* kinds of notification committed, per item
    eligible,   \* items some answer called takedown_eligible
    raced       \* items two workers have been deciding at the same time

vars == <<item, overdue, lock, job, trail, label, notice, eligible, raced>>

-----------------------------------------------------------------------------
Severity == {"low", "medium", "high", "critical"}
Decision == {"approve", "reject", "escalate"}

Outcome == [approve |-> "approved", reject |-> "rejected",
            escalate |-> "escalated"]
Label == [approve |-> "true_positive", reject |-> "false_positive",
          escalate |-> "indeterminate"]

\* enqueue_for_review: below the threshold no item is made
NeedsHuman(severity, ai) == severity \in {"high", "critical"} \/ ai = "phish"

\* mutant: escalate takes the reviewer's verdict into the audit entry
HumanVerdict_Escalated(d, given, ai, loaded) ==
    CASE d = "approve" -> IF given # NoVerdict THEN given ELSE ai
      [] d = "reject" -> IF given # NoVerdict THEN given ELSE "benign"
      [] d = "escalate" -> given
\* human_verdict after decide: the override, or what the decision implies;
\* escalate leaves the attribute as it was loaded
HumanVerdict(d, given, ai, loaded) ==
    CASE d = "approve" -> IF given # NoVerdict THEN given ELSE ai
      [] d = "reject" -> IF given # NoVerdict THEN given ELSE "benign"
      [] d = "escalate" -> loaded

Row == [state: {"absent", "pending"} \cup {Outcome[d] : d \in Decision},
        ai: Verdict, human: Verdict \cup {NoVerdict},
        assigned: User \cup {NoUser}]

Idle == [pc |-> "idle"]
DecideJob == [pc: {"decide", "decided"}, item: Item, decision: Decision,
              human: Verdict \cup {NoVerdict}]
AssignJob == [pc: {"assign", "assigned"}, item: Item, user: User]
SweepJob == [pc: {"sweep"}, breached: SUBSET Item]

Entry == [decision: Decision, by: Worker, human: Verdict \cup {NoVerdict}]
Kind == {"detection", "review_assigned", "sla_breach"}

TypeOK ==
    /\ item \in [Item -> Row]
    /\ overdue \subseteq Item
    /\ lock \in Worker \cup {NoWorker}
    /\ job \in [Worker -> DecideJob \cup AssignJob \cup SweepJob \cup {Idle}]
    /\ trail \in [Item -> Seq(Entry)]
    /\ label \in [Item -> Seq({Label[d] : d \in Decision})]
    /\ notice \in [Item -> SUBSET Kind]
    /\ eligible \subseteq Item
    /\ raced \subseteq Item

Init ==
    /\ item \in [Item -> {r \in Row : r.state = "absent" /\ r.human = NoVerdict
                                       /\ r.assigned = NoUser}]
    /\ overdue = {}
    /\ lock = NoWorker
    /\ job = [w \in Worker |-> Idle]
    /\ trail = [i \in Item |-> <<>>]
    /\ label = [i \in Item |-> <<>>]
    /\ notice = [i \in Item |-> {}]
    /\ eligible = {}
    /\ raced = {}

Exists(i) == item[i].state # "absent"
Free(w) == job[w] = Idle
At(w, pc) == job[w].pc = pc
Deciding(w) == job[w].pc \in {"decide", "decided"}
Notify(is, kind) ==
    notice' = [i \in Item |-> notice[i] \cup IF i \in is THEN {kind} ELSE {}]

-----------------------------------------------------------------------------
\* A script of another process makes the item and its notification in one
\* transaction; a verdict below the threshold makes none.
Enqueue(i) ==
    /\ ~Exists(i)
    /\ lock = NoWorker
    /\ \E severity \in Severity : NeedsHuman(severity, item[i].ai)
    /\ item' = [item EXCEPT ![i].state = "pending"]
    /\ Notify({i}, "detection")
    /\ UNCHANGED <<overdue, lock, job, trail, label, eligible, raced>>

\* the clock passes sla_due_at
Deadline(i) ==
    /\ Exists(i)
    /\ i \notin overdue
    /\ overdue' = overdue \cup {i}
    /\ UNCHANGED <<item, lock, job, trail, label, notice, eligible, raced>>

\* The worker that loads an item another one is deciding races with it.
Races(w, i) ==
    raced' = raced \cup IF \E v \in Worker \ {w} : Deciding(v) /\ job[v].item = i
                         THEN {i} ELSE {}

\* mutant: the check for "pending" is dropped
DecideRead_NoCheck(w, i) ==
    /\ Free(w)
    /\ Exists(i)
    /\ \E d \in Decision, given \in Verdict \cup {NoVerdict} :
        job' = [job EXCEPT ![w] =
            [pc |-> "decide", item |-> i, decision |-> d,
             human |-> HumanVerdict(d, given, item[i].ai, item[i].human)]]
    /\ Races(w, i)
    /\ UNCHANGED <<item, overdue, lock, trail, label, notice, eligible>>
\* s.get, the checks that raise ValueError, the new attribute values.
DecideRead(w, i) ==
    /\ Free(w)
    /\ item[i].state = "pending"
    /\ \E d \in Decision, given \in Verdict \cup {NoVerdict} :
        job' = [job EXCEPT ![w] =
            [pc |-> "decide", item |-> i, decision |-> d,
             human |-> HumanVerdict(d, given, item[i].ai, item[i].human)]]
    /\ Races(w, i)
    /\ UNCHANGED <<item, overdue, lock, trail, label, notice, eligible>>

\* s.flush() sends the UPDATE, and with it takes the write lock
TakeLock(w) ==
    /\ lock = NoWorker
    /\ lock' = w

\* mutant: the label is written in a session of its own, before the commit
DecideWrite_LabelsEarly(w) ==
    /\ At(w, "decide")
    /\ TakeLock(w)
    /\ job' = [job EXCEPT ![w].pc = "decided"]
    /\ label' = [label EXCEPT ![job[w].item] = Append(@, Label[job[w].decision])]
    /\ UNCHANGED <<item, overdue, trail, notice, eligible, raced>>
DecideWrite(w) ==
    /\ At(w, "decide")
    /\ TakeLock(w)
    /\ job' = [job EXCEPT ![w].pc = "decided"]
    /\ UNCHANGED <<item, overdue, trail, label, notice, eligible, raced>>

\* escalate assigns state only, so the UPDATE leaves human_verdict alone
Decided(row, d, h) ==
    [row EXCEPT !.state = Outcome[d],
                !.human = IF d = "escalate" THEN @ ELSE h]

\* Audit entry, label, notification, commit, answer.  The label is missing
\* when the lookup of the verdict row fails: _feed_active_learning swallows it.
DecideCommit(w) ==
    LET i == job[w].item
        d == job[w].decision
        h == job[w].human
    IN /\ At(w, "decided")
       /\ item' = [item EXCEPT ![i] = Decided(@, d, h)]
       /\ trail' = [trail EXCEPT ![i] =
                      Append(@, [decision |-> d, by |-> w, human |-> h])]
       /\ \/ label' = [label EXCEPT ![i] = Append(@, Label[d])]
          \/ UNCHANGED label
       /\ IF d = "escalate" THEN Notify({i}, "review_assigned")
                            ELSE UNCHANGED notice
       /\ eligible' = eligible \cup
                        IF d = "approve" /\ h = "phish" THEN {i} ELSE {}
       /\ lock' = NoWorker
       /\ job' = [job EXCEPT ![w] = Idle]
       /\ UNCHANGED <<overdue, raced>>

\* assign: no check of the state, only that the row exists
AssignRead(w, i) ==
    /\ Free(w)
    /\ Exists(i)
    /\ \E u \in User :
        job' = [job EXCEPT ![w] = [pc |-> "assign", item |-> i, user |-> u]]
    /\ UNCHANGED <<item, overdue, lock, trail, label, notice, eligible, raced>>

AssignWrite(w) ==
    /\ At(w, "assign")
    /\ TakeLock(w)
    /\ job' = [job EXCEPT ![w].pc = "assigned"]
    /\ UNCHANGED <<item, overdue, trail, label, notice, eligible, raced>>

\* mutant: assigning puts the item back in the queue
AssignCommit_Reopens(w) ==
    /\ At(w, "assigned")
    /\ item' = [item EXCEPT ![job[w].item].assigned = job[w].user,
                            ![job[w].item].state = "pending"]
    /\ Notify({job[w].item}, "review_assigned")
    /\ lock' = NoWorker
    /\ job' = [job EXCEPT ![w] = Idle]
    /\ UNCHANGED <<overdue, trail, label, eligible, raced>>
AssignCommit(w) ==
    /\ At(w, "assigned")
    /\ item' = [item EXCEPT ![job[w].item].assigned = job[w].user]
    /\ Notify({job[w].item}, "review_assigned")
    /\ lock' = NoWorker
    /\ job' = [job EXCEPT ![w] = Idle]
    /\ UNCHANGED <<overdue, trail, label, eligible, raced>>

\* sweep_sla_breaches selects the overdue pending items, then notifies
SweepRead(w) ==
    /\ Free(w)
    /\ job' = [job EXCEPT ![w] =
                [pc |-> "sweep",
                 breached |-> {i \in overdue : item[i].state = "pending"}]]
    /\ UNCHANGED <<item, overdue, lock, trail, label, notice, eligible, raced>>

SweepCommit(w) ==
    /\ At(w, "sweep")
    /\ job[w].breached # {} => lock = NoWorker
    /\ Notify(job[w].breached, "sla_breach")
    /\ job' = [job EXCEPT ![w] = Idle]
    /\ UNCHANGED <<item, overdue, lock, trail, label, eligible, raced>>

\* mutant: the connection waits for the lock without a timeout
Abort_WaitsForever(w) ==
    /\ lock = w
    /\ lock' = NoWorker
    /\ job' = [job EXCEPT ![w] = Idle]
    /\ UNCHANGED <<item, overdue, trail, label, notice, eligible, raced>>
\* The busy timeout, or an exception of a later statement: session_scope
\* rolls back, and nothing of the request remains.
Abort(w) ==
    /\ ~Free(w)
    /\ lock' = IF lock = w THEN NoWorker ELSE lock
    /\ job' = [job EXCEPT ![w] = Idle]
    /\ UNCHANGED <<item, overdue, trail, label, notice, eligible, raced>>

Arrive(w) == SweepRead(w) \/ \E i \in Item : DecideRead(w, i) \/ AssignRead(w, i)
Progress(w) == \/ DecideWrite(w) \/ DecideCommit(w)
               \/ AssignWrite(w) \/ AssignCommit(w)
               \/ SweepCommit(w) \/ Abort(w)
Outside == \E i \in Item : Enqueue(i) \/ Deadline(i)

Next == Outside \/ \E w \in Worker : Arrive(w) \/ Progress(w)

Spec == Init /\ [][Next]_vars
FairSpec == Spec /\ \A w \in Worker : WF_vars(Progress(w))

-----------------------------------------------------------------------------
(* Properties that hold for any number of workers *)

\* The queue and the audit trail tell one story: an item is pending exactly
\* while no decision on it is audited, and its state is the last audited one.
\* The UPDATE and the audit entry share a transaction of the lock's holder.
StateMatchesTrail ==
    \A i \in Item :
        IF trail[i] = <<>>
          THEN item[i].state \in {"absent", "pending"}
          ELSE item[i].state = Outcome[trail[i][Len(trail[i])].decision]

\* A worker decides an item at most once: its next load sees its own commit,
\* so racing workers can overwrite a decision but not keep doing so.
OneDecisionPerWorker ==
    \A i \in Item : \A m, n \in 1..Len(trail[i]) :
        trail[i][m].by = trail[i][n].by => m = n

\* The trainer never sees an outcome that no human decided: each label of an
\* item is matched by a decision of its kind in the audit trail.
LabelsAreEarned ==
    \A i \in Item, d \in Decision :
        Cardinality({n \in 1..Len(label[i]) : label[i][n] = Label[d]})
          <= Cardinality({n \in 1..Len(trail[i]) : trail[i][n].decision = d})

\* A request that started ends: it commits, or the busy timeout ends it.
RequestsEnd == \A w \in Worker : ~Free(w) ~> Free(w)

-----------------------------------------------------------------------------
(* Properties of the items no two decisions of which overlapped *)

\* The code implements the gate for every item no two workers were deciding at
\* the same time: it is decided once, for good, whoever else assigns it, sweeps
\* it or fails.  Of the other items the gate is shown what they were when the
\* race began, pending.
Gate == INSTANCE ReviewGate WITH
            review <- [i \in Item |->
                         IF i \in raced THEN [state |-> "pending", human |-> NoVerdict]
                         ELSE [state |-> item[i].state, human |-> item[i].human]]
GateHolds == Gate!GateSpec

\* What a client was told and what the log says stay true of a row no two
\* decisions raced for: an item called takedown_eligible is approved as phish,
\* and the human verdict of the last audit snapshot ("before/after", audit.py)
\* is the row's.
AnswersStand ==
    /\ \A i \in eligible \ raced : item[i].state = "approved" /\ item[i].human = "phish"
    /\ \A i \in Item \ raced : trail[i] # <<>> =>
         trail[i][Len(trail[i])].human = item[i].human

-----------------------------------------------------------------------------
(* A claim of the tests that several workers refute *)

\* test_cannot_decide_twice: a second decision on an item is refused.
DecidedOnce == \A i \in Item : Len(trail[i]) <= 1

-----------------------------------------------------------------------------
(* The inductive invariants behind the theorems of ReviewQueueProofs *)

\* A worker on its way to a decision has not decided that item before.
NotDecidedYet ==
    \A w \in Worker : Deciding(w) =>
        \A n \in 1..Len(trail[job[w].item]) : trail[job[w].item][n].by # w

TrailInv == TypeOK /\ StateMatchesTrail /\ OneDecisionPerWorker /\ NotDecidedYet

\* At most one worker is deciding an item that was never raced for, and the item
\* it loaded as pending still is; the human verdict is there exactly when the
\* decision gives one.
Exclusive ==
    \A v, w \in Worker :
        Deciding(v) /\ Deciding(w) /\ job[v].item = job[w].item /\ job[w].item \notin raced
            => v = w
StillPending ==
    \A w \in Worker : Deciding(w) /\ job[w].item \notin raced =>
        /\ item[job[w].item].state = "pending"
        /\ job[w].decision = "escalate" <=> job[w].human = NoVerdict
UndecidedHasNoVerdict ==
    \A i \in Item : item[i].state \in {"absent", "pending"} => item[i].human = NoVerdict

UnracedInv == TypeOK /\ Exclusive /\ StillPending /\ UndecidedHasNoVerdict
=============================================================================
