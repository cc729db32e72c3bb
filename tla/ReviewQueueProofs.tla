------------------------- MODULE ReviewQueueProofs --------------------------
(***************************************************************************)
(* Proofs about ReviewQueue: for any number of workers the queue agrees    *)
(* with the audit trail and a worker decides an item at most once; for the *)
(* items no two decisions of which overlapped the code implements          *)
(* ReviewGate.                                                             *)
(***************************************************************************)
EXTENDS ReviewQueue, FiniteSetTheorems, TLAPS

(* A decision's outcome is a final state, and the verdict that goes with it *)
(* is missing exactly for escalate when the row had none.                   *)
LEMMA DecisionOutcome ==
    ASSUME NEW d \in Decision, NEW given \in Verdict \cup {NoVerdict},
           NEW ai \in Verdict, NEW loaded \in Verdict \cup {NoVerdict}
    PROVE  /\ Outcome[d] \in {"approved", "rejected", "escalated"}
           /\ (Outcome[d] = "escalated") <=> (d = "escalate")
           /\ HumanVerdict(d, given, ai, loaded) \in Verdict \cup {NoVerdict}
           /\ d # "escalate" => HumanVerdict(d, given, ai, loaded) \in Verdict
           /\ d = "escalate" => HumanVerdict(d, given, ai, loaded) = loaded
<1>1. d \in {"approve", "reject", "escalate"}
  BY DEF Decision
<1>2. Outcome[d] \in {"approved", "rejected", "escalated"}
      /\ ((Outcome[d] = "escalated") <=> (d = "escalate"))
  BY <1>1 DEF Outcome
<1>3. "benign" \in Verdict
  BY VerdictAssumption
<1> QED
  BY <1>1, <1>2, <1>3 DEF HumanVerdict

(* What TypeOK says of the job of a worker at a given step. *)
LEMMA JobType ==
    ASSUME TypeOK, NEW w \in Worker
    PROVE  /\ job[w].pc \in {"decide", "decided"} => job[w] \in DecideJob
           /\ job[w].pc \in {"assign", "assigned"} => job[w] \in AssignJob
           /\ job[w].pc = "sweep" => job[w] \in SweepJob
<1>1. job[w] \in DecideJob \cup AssignJob \cup SweepJob \cup {Idle}
  BY DEF TypeOK
<1> QED
  BY <1>1 DEF DecideJob, AssignJob, SweepJob, Idle

(* The notices stay sets of kinds. *)
LEMMA NotifyType ==
    ASSUME TypeOK, NEW is \in SUBSET Item, NEW kind \in Kind, Notify(is, kind)
    PROVE  notice' \in [Item -> SUBSET Kind]
  BY DEF TypeOK, Notify, Kind

(* Every step preserves the type invariant. *)
LEMMA TypeStep ==
    ASSUME TypeOK, [Next]_vars
    PROVE  TypeOK'
<1> USE DEF TypeOK
<1>1. ASSUME NEW i \in Item, Enqueue(i) PROVE TypeOK'
  <2>1. item' \in [Item -> Row]
    BY <1>1 DEF Enqueue, Row
  <2>2. notice' \in [Item -> SUBSET Kind]
    BY <1>1, NotifyType DEF Enqueue, Kind
  <2> QED
    BY <1>1, <2>1, <2>2 DEF Enqueue
<1>2. ASSUME NEW i \in Item, Deadline(i) PROVE TypeOK'
  BY <1>2 DEF Deadline
<1>3. ASSUME NEW w \in Worker, NEW i \in Item, DecideRead(w, i) PROVE TypeOK'
  <2>1. PICK d \in Decision, given \in Verdict \cup {NoVerdict} :
          job' = [job EXCEPT ![w] =
              [pc |-> "decide", item |-> i, decision |-> d,
               human |-> HumanVerdict(d, given, item[i].ai, item[i].human)]]
    BY <1>3 DEF DecideRead
  <2>2. item[i].ai \in Verdict /\ item[i].human \in Verdict \cup {NoVerdict}
    BY DEF Row
  <2>3. HumanVerdict(d, given, item[i].ai, item[i].human)
          \in Verdict \cup {NoVerdict}
    BY <2>2, DecisionOutcome
  <2>4. job' \in [Worker -> DecideJob \cup AssignJob \cup SweepJob \cup {Idle}]
    BY <2>1, <2>3 DEF DecideJob
  <2>5. raced' \subseteq Item
    BY <1>3 DEF DecideRead, Races
  <2> QED
    BY <1>3, <2>4, <2>5 DEF DecideRead
<1>4. ASSUME NEW w \in Worker, DecideWrite(w) PROVE TypeOK'
  <2>1. [job[w] EXCEPT !.pc = "decided"] \in DecideJob
    BY <1>4, JobType DEF DecideWrite, At, DecideJob
  <2> QED
    BY <1>4, <2>1 DEF DecideWrite, TakeLock
<1>5. ASSUME NEW w \in Worker, DecideCommit(w) PROVE TypeOK'
  <2> DEFINE i == job[w].item
             d == job[w].decision
             h == job[w].human
  <2>1. i \in Item /\ d \in Decision /\ h \in Verdict \cup {NoVerdict}
    BY <1>5, JobType DEF DecideCommit, At, DecideJob
  <2>2. item[i] \in Row
    BY <2>1
  <2>3. item' \in [Item -> Row]
    <3>1. Decided(item[i], d, h) \in Row
      <4>1. Outcome[d] \in {"absent", "pending"} \cup {Outcome[x] : x \in Decision}
        BY <2>1
      <4> QED
        BY <2>1, <2>2, <4>1 DEF Decided, Row
    <3> QED
      BY <1>5, <3>1 DEF DecideCommit
  <2>4. trail' \in [Item -> Seq(Entry)]
    <3>1. [decision |-> d, by |-> w, human |-> h] \in Entry
      BY <2>1 DEF Entry
    <3>2. trail[i] \in Seq(Entry)
      BY <2>1
    <3>3. Append(trail[i], [decision |-> d, by |-> w, human |-> h]) \in Seq(Entry)
      BY <3>1, <3>2
    <3> QED
      BY <1>5, <2>1, <3>3 DEF DecideCommit
  <2>5. label' \in [Item -> Seq({Label[x] : x \in Decision})]
    <3>1. Append(label[i], Label[d]) \in Seq({Label[x] : x \in Decision})
      <4> DEFINE S == {Label[x] : x \in Decision}
      <4>1. Label[d] \in S /\ label[i] \in Seq(S)
        BY <2>1
      <4> HIDE DEF S
      <4>2. Append(label[i], Label[d]) \in Seq(S)
        BY <4>1
      <4> QED
        BY <4>2 DEF S
    <3> QED
      BY <1>5, <2>1, <3>1 DEF DecideCommit
  <2>6. notice' \in [Item -> SUBSET Kind]
    BY <1>5, <2>1, NotifyType DEF DecideCommit, Kind
  <2>7. eligible' \subseteq Item
    BY <1>5, <2>1 DEF DecideCommit
  <2>8. /\ lock' \in Worker \cup {NoWorker}
        /\ overdue' \subseteq Item /\ raced' \subseteq Item
        /\ job' \in [Worker -> DecideJob \cup AssignJob \cup SweepJob \cup {Idle}]
    BY <1>5 DEF DecideCommit
  <2> QED
    BY <2>3, <2>4, <2>5, <2>6, <2>7, <2>8
<1>6. ASSUME NEW w \in Worker, NEW i \in Item, AssignRead(w, i) PROVE TypeOK'
  <2>1. PICK u \in User :
          job' = [job EXCEPT ![w] = [pc |-> "assign", item |-> i, user |-> u]]
    BY <1>6 DEF AssignRead
  <2>2. job' \in [Worker -> DecideJob \cup AssignJob \cup SweepJob \cup {Idle}]
    BY <2>1 DEF AssignJob
  <2> QED
    BY <1>6, <2>2 DEF AssignRead
<1>7. ASSUME NEW w \in Worker, AssignWrite(w) PROVE TypeOK'
  <2>1. [job[w] EXCEPT !.pc = "assigned"] \in AssignJob
    BY <1>7, JobType DEF AssignWrite, At, AssignJob
  <2> QED
    BY <1>7, <2>1 DEF AssignWrite, TakeLock
<1>8. ASSUME NEW w \in Worker, AssignCommit(w) PROVE TypeOK'
  <2>1. job[w].item \in Item /\ job[w].user \in User
    BY <1>8, JobType DEF AssignCommit, At, AssignJob
  <2>2. item' \in [Item -> Row]
    BY <1>8, <2>1, ZenonT(40) DEF AssignCommit, Row
  <2>3. notice' \in [Item -> SUBSET Kind]
    BY <1>8, <2>1, NotifyType DEF AssignCommit, Kind
  <2> QED
    BY <1>8, <2>2, <2>3 DEF AssignCommit
<1>9. ASSUME NEW w \in Worker, SweepRead(w) PROVE TypeOK'
  <2>1. job' \in [Worker -> DecideJob \cup AssignJob \cup SweepJob \cup {Idle}]
    BY <1>9 DEF SweepRead, SweepJob
  <2> QED
    BY <1>9, <2>1 DEF SweepRead
<1>10. ASSUME NEW w \in Worker, SweepCommit(w) PROVE TypeOK'
  <2>1. job[w].breached \in SUBSET Item
    BY <1>10, JobType DEF SweepCommit, At, SweepJob
  <2>2. notice' \in [Item -> SUBSET Kind]
    BY <1>10, <2>1, NotifyType DEF SweepCommit, Kind
  <2> QED
    BY <1>10, <2>2 DEF SweepCommit
<1>11. ASSUME NEW w \in Worker, Abort(w) PROVE TypeOK'
  BY <1>11 DEF Abort
<1>12. CASE UNCHANGED vars
  BY <1>12 DEF vars
<1> QED
  BY <1>1, <1>2, <1>3, <1>4, <1>5, <1>6, <1>7, <1>8, <1>9, <1>10, <1>11, <1>12
     DEF Next, Outside, Arrive, Progress

(* The queue starts well typed. *)
LEMMA TypeInit == Init => TypeOK
  BY DEF Init, TypeOK

(* Type correctness of the review queue: no handler, commit or rollback      *)
(* leaves the rows, jobs, trail or lock outside their types.                 *)
THEOREM TypeCorrect == Spec => []TypeOK
  BY TypeInit, TypeStep, PTL DEF Spec

-----------------------------------------------------------------------------
(* The decision handler is the only one that moves a decided item or adds to *)
(* the trail: what all the other steps leave as it was.                      *)
LEMMA OtherSteps ==
    ASSUME TypeOK, [Next]_vars, \A w \in Worker : ~DecideCommit(w)
    PROVE  /\ trail' = trail
           /\ \A i \in Item :
                /\ item'[i].human = item[i].human
                /\ \/ item'[i].state = item[i].state
                   \/ item[i].state = "absent" /\ item'[i].state = "pending"
<1> USE DEF TypeOK, Row
<1>1. ASSUME NEW j \in Item, Enqueue(j)
      PROVE  /\ trail' = trail
             /\ \A i \in Item :
                  /\ item'[i].human = item[i].human
                  /\ \/ item'[i].state = item[i].state
                     \/ item[i].state = "absent" /\ item'[i].state = "pending"
  BY <1>1 DEF Enqueue, Exists
<1>2. ASSUME NEW w \in Worker, AssignCommit(w)
      PROVE  /\ trail' = trail
             /\ \A i \in Item : /\ item'[i].human = item[i].human
                               /\ item'[i].state = item[i].state
  BY <1>2 DEF AssignCommit
<1>3. \/ \E j \in Item : Enqueue(j)
      \/ \E w \in Worker : AssignCommit(w)
      \/ UNCHANGED <<item, trail>>
  BY DEF Next, Outside, Arrive, Progress, Deadline, DecideRead, DecideWrite,
         AssignRead, AssignWrite, SweepRead, SweepCommit, Abort, vars
<1> QED
  BY <1>1, <1>2, <1>3

(* What one committed decision does to the item, the trail and the job. *)
LEMMA DecisionStep ==
    ASSUME TypeOK, NEW w \in Worker, DecideCommit(w)
    PROVE  LET i == job[w].item
               d == job[w].decision
               h == job[w].human
           IN /\ i \in Item /\ d \in Decision /\ h \in Verdict \cup {NoVerdict}
              /\ trail' = [trail EXCEPT ![i] =
                    Append(@, [decision |-> d, by |-> w, human |-> h])]
              /\ item'[i] = Decided(item[i], d, h)
              /\ \A k \in Item \ {i} : item'[k] = item[k]
              /\ job' = [job EXCEPT ![w] = Idle]
<1>1. job[w] \in DecideJob
  BY JobType DEF DecideCommit, At
<1> QED
  BY <1>1 DEF DecideCommit, DecideJob, TypeOK

(* A trail that was appended to is not empty. *)
LEMMA AppendNotEmpty ==
    ASSUME NEW S, NEW t \in Seq(S), NEW x \in S
    PROVE  Append(t, x) # <<>>
<1>1. Len(Append(t, x)) = Len(t) + 1 /\ Len(t) \in Nat
  OBVIOUS
<1>2. Len(<<>>) = 0
  OBVIOUS
<1> QED
  BY <1>1, <1>2

(* Update and audit entry commit together: state and trail stay in step. *)
LEMMA StateStep ==
    ASSUME TypeOK, StateMatchesTrail, [Next]_vars
    PROVE  StateMatchesTrail'
<1>1. CASE \A w \in Worker : ~DecideCommit(w)
  <2> SUFFICES ASSUME NEW i \in Item
               PROVE  IF trail'[i] = <<>>
                        THEN item'[i].state \in {"absent", "pending"}
                        ELSE item'[i].state = Outcome[trail'[i][Len(trail'[i])].decision]
    BY DEF StateMatchesTrail
  <2>1. trail'[i] = trail[i]
    BY <1>1, OtherSteps
  <2>2. CASE trail[i] = <<>>
    BY <1>1, <2>1, <2>2, OtherSteps DEF StateMatchesTrail
  <2>3. CASE trail[i] # <<>>
    <3>1. Len(trail[i]) \in 1..Len(trail[i]) /\ trail[i] \in Seq(Entry)
      BY <2>3 DEF TypeOK
    <3>2. trail[i][Len(trail[i])].decision \in Decision
      <4>1. trail[i][Len(trail[i])] \in Entry
        BY <3>1
      <4> QED
        BY <4>1 DEF Entry
    <3>3. item[i].state = Outcome[trail[i][Len(trail[i])].decision]
      BY <2>3 DEF StateMatchesTrail
    <3>4. item[i].state # "absent"
      BY <3>2, <3>3 DEF Decision, Outcome
    <3> QED
      BY <1>1, <2>1, <2>3, <3>3, <3>4, OtherSteps
  <2> QED
    BY <2>2, <2>3
<1>2. ASSUME NEW w \in Worker, DecideCommit(w) PROVE StateMatchesTrail'
  <2> DEFINE j == job[w].item
             e == [decision |-> job[w].decision, by |-> w, human |-> job[w].human]
  <2>1. j \in Item /\ trail' = [trail EXCEPT ![j] = Append(@, e)]
    BY <1>2, DecisionStep
  <2>2. trail[j] \in Seq(Entry) /\ e \in Entry
    BY <1>2, <2>1, DecisionStep DEF TypeOK, Entry
  <2>3. /\ trail'[j] # <<>>
        /\ trail'[j][Len(trail'[j])] = e
    <3>1. trail'[j] = Append(trail[j], e)
      BY <2>1 DEF TypeOK
    <3> HIDE DEF e, j
    <3>2. Len(Append(trail[j], e)) = Len(trail[j]) + 1
      BY <2>2
    <3>3. Append(trail[j], e) # <<>>
      BY <2>2, AppendNotEmpty
    <3>4. Append(trail[j], e)[Len(trail[j]) + 1] = e
      BY <2>2
    <3> QED
      BY <3>1, <3>2, <3>3, <3>4
  <2>4. item'[j].state = Outcome[e.decision]
    <3>1. item[j] \in Row
      BY <2>1 DEF TypeOK
    <3> QED
      BY <1>2, <3>1, DecisionStep, Zenon DEF Decided, Row
  <2>5. ASSUME NEW k \in Item, k # j
        PROVE  trail'[k] = trail[k] /\ item'[k] = item[k]
    BY <1>2, <2>1, <2>5, DecisionStep DEF TypeOK
  <2> QED
    BY <2>3, <2>4, <2>5 DEF StateMatchesTrail
<1> QED
  BY <1>1, <1>2

(* For any number of workers: an item is pending exactly while no decision   *)
(* on it is audited, and otherwise in the state of the last audited one.     *)
THEOREM QueueMatchesTrail == Spec => []StateMatchesTrail
<1>1. Init => StateMatchesTrail
  BY DEF Init, StateMatchesTrail
<1> QED
  BY <1>1, StateStep, TypeCorrect, PTL DEF Spec

-----------------------------------------------------------------------------
(* A committed decision appends one entry, by its worker, to its item. *)
LEMMA TrailAfterDecision ==
    ASSUME TypeOK, NEW w \in Worker, DecideCommit(w)
    PROVE  LET i == job[w].item
           IN /\ i \in Item
              /\ Len(trail[i]) \in Nat
              /\ Len(trail'[i]) = Len(trail[i]) + 1
              /\ \A n \in 1..Len(trail[i]) : trail'[i][n] = trail[i][n]
              /\ trail'[i][Len(trail[i]) + 1].by = w
              /\ \A k \in Item \ {i} : trail'[k] = trail[k]
<1> DEFINE i == job[w].item
           e == [decision |-> job[w].decision, by |-> w, human |-> job[w].human]
<1>1. i \in Item /\ trail' = [trail EXCEPT ![i] = Append(@, e)]
  BY DecisionStep
<1>2. trail[i] \in Seq(Entry) /\ e \in Entry
  BY <1>1, DecisionStep DEF TypeOK, Entry
<1>3. e.by = w
  OBVIOUS
<1>4. trail'[i] = Append(trail[i], e) /\ \A k \in Item \ {i} : trail'[k] = trail[k]
  BY <1>1 DEF TypeOK
<1> HIDE DEF e
<1>5. /\ Len(Append(trail[i], e)) = Len(trail[i]) + 1
      /\ Append(trail[i], e)[Len(trail[i]) + 1] = e
      /\ \A n \in 1..Len(trail[i]) : Append(trail[i], e)[n] = trail[i][n]
      /\ Len(trail[i]) \in Nat
  BY <1>2
<1> QED
  BY <1>1, <1>3, <1>4, <1>5

(* A worker that loads an item as pending finds no decision on it, its own  *)
(* or another's, and only its own commit adds one of its own.               *)
LEMMA TrailStep ==
    ASSUME TrailInv, [Next]_vars
    PROVE  TrailInv'
<1> USE DEF TrailInv
<1>1. TypeOK' /\ StateMatchesTrail'
  BY TypeStep, StateStep
<1>2. CASE \A w \in Worker : ~DecideCommit(w)
  <2>1. trail' = trail
    BY <1>2, OtherSteps
  <2>2. OneDecisionPerWorker'
    BY <2>1 DEF OneDecisionPerWorker
  <2>3. NotDecidedYet'
    <3> SUFFICES ASSUME NEW w \in Worker, Deciding(w)',
                        NEW n \in 1..Len(trail[job'[w].item])
                 PROVE  trail[job'[w].item][n].by # w
      BY <2>1 DEF NotDecidedYet
    <3>1. CASE Deciding(w) /\ job'[w].item = job[w].item
      BY <3>1 DEF NotDecidedYet
    <3>2. CASE \E i \in Item : DecideRead(w, i)
      <4>1. PICK i \in Item : DecideRead(w, i)
        BY <3>2
      <4>2. job'[w].item = i
        BY <4>1 DEF DecideRead, TypeOK
      <4>3. trail[i] = <<>>
        <5>1. item[i].state = "pending"
          BY <4>1 DEF DecideRead
        <5>2. ASSUME trail[i] # <<>> PROVE FALSE
          <6>1. trail[i][Len(trail[i])] \in Entry
            BY <5>2 DEF TypeOK
          <6>2. trail[i][Len(trail[i])].decision \in Decision
            BY <6>1 DEF Entry
          <6>3. item[i].state = Outcome[trail[i][Len(trail[i])].decision]
            BY <5>2 DEF StateMatchesTrail
          <6> QED
            BY <5>1, <6>2, <6>3 DEF Decision, Outcome
        <5> QED
          BY <5>2
      <4> QED
        BY <4>2, <4>3
    <3>3. (Deciding(w) /\ job'[w].item = job[w].item)
            \/ \E i \in Item : DecideRead(w, i)
      <4>1. CASE job'[w] = job[w]
        BY <4>1 DEF Deciding
      <4>2. CASE DecideWrite(w)
        BY <4>2, JobType DEF DecideWrite, Deciding, At, TypeOK, DecideJob
      <4>3. CASE \E i \in Item : DecideRead(w, i)
        BY <4>3
      <4>4. CASE (\E i \in Item : AssignRead(w, i)) \/ SweepRead(w)
        BY <4>4 DEF AssignRead, SweepRead, Deciding, TypeOK
      <4>5. CASE AssignWrite(w)
        BY <4>5, JobType DEF AssignWrite, Deciding, At, TypeOK, AssignJob
      <4>6. CASE AssignCommit(w) \/ SweepCommit(w) \/ Abort(w)
        BY <4>6 DEF AssignCommit, SweepCommit, Abort, Deciding, TypeOK, Idle
      <4>7. \/ job'[w] = job[w]
            \/ Arrive(w)
            \/ Progress(w)
        <5>1. CASE Outside \/ UNCHANGED vars
          BY <5>1 DEF Outside, Enqueue, Deadline, vars
        <5>2. ASSUME NEW v \in Worker, v # w, Arrive(v) \/ Progress(v)
              PROVE  job'[w] = job[w]
          BY <5>2 DEF Arrive, Progress, DecideRead, DecideWrite, DecideCommit,
             AssignRead, AssignWrite, AssignCommit, SweepRead, SweepCommit,
             Abort, TypeOK
        <5> QED
          BY <5>1, <5>2 DEF Next
      <4> QED
        BY <1>2, <4>1, <4>2, <4>3, <4>4, <4>5, <4>6, <4>7 DEF Arrive, Progress
    <3> QED
      BY <3>1, <3>2, <3>3
  <2> QED
    BY <1>1, <2>2, <2>3
<1>3. ASSUME NEW w \in Worker, DecideCommit(w) PROVE TrailInv'
  <2> DEFINE i == job[w].item
  <2>1. Deciding(w)
    BY <1>3 DEF DecideCommit, At, Deciding
  <2>2. job' = [job EXCEPT ![w] = Idle]
    BY <1>3, DecisionStep
  <2>3. \A n \in 1..Len(trail[i]) : trail[i][n].by # w
    BY <2>1 DEF NotDecidedYet
  <2>4. OneDecisionPerWorker'
    <3>1. ASSUME NEW m \in 1..Len(trail'[i]), NEW n \in 1..Len(trail'[i]),
                 trail'[i][m].by = trail'[i][n].by
          PROVE  m = n
      <4>1. \A x \in 1..Len(trail[i]), y \in 1..Len(trail[i]) :
              trail[i][x].by = trail[i][y].by => x = y
        BY <1>3, TrailAfterDecision DEF OneDecisionPerWorker
      <4> DEFINE l == Len(trail[i])
                 t == trail'[i]
      <4>2. /\ l \in Nat
            /\ Len(t) = l + 1
            /\ t[l + 1].by = w
            /\ \A x \in 1..l : t[x] = trail[i][x]
        BY <1>3, TrailAfterDecision
      <4>3. m \in 1..Len(t) /\ n \in 1..Len(t) /\ t[m].by = t[n].by
        BY <3>1
      <4> HIDE DEF t
      <4>4. (m \in 1..l \/ m = l + 1) /\ (n \in 1..l \/ n = l + 1)
        BY <4>2, <4>3
      <4> QED
        BY <2>3, <4>1, <4>2, <4>3, <4>4
    <3>2. ASSUME NEW k \in Item, k # i PROVE trail'[k] = trail[k]
      BY <1>3, <3>2, TrailAfterDecision
    <3> QED
      BY <3>1, <3>2 DEF OneDecisionPerWorker
  <2>5. NotDecidedYet'
    <3> SUFFICES ASSUME NEW v \in Worker, Deciding(v)',
                        NEW n \in 1..Len(trail'[job'[v].item])
                 PROVE  trail'[job'[v].item][n].by # v
      BY DEF NotDecidedYet
    <3>1. v # w /\ job'[v] = job[v] /\ Deciding(v)
      BY <2>2 DEF Deciding, Idle, TypeOK
    <3>2. job[v].item \in Item
      BY <3>1, JobType DEF Deciding, DecideJob
    <3>3. \A m \in 1..Len(trail[job[v].item]) : trail[job[v].item][m].by # v
      BY <3>1 DEF NotDecidedYet
    <3>4. CASE job[v].item # i
      BY <1>3, <3>1, <3>2, <3>3, <3>4, TrailAfterDecision
    <3>5. CASE job[v].item = i
      <4> DEFINE l == Len(trail[i])
                 t == trail'[i]
      <4>1. /\ l \in Nat
            /\ Len(t) = l + 1
            /\ t[l + 1].by = w
            /\ \A x \in 1..l : t[x] = trail[i][x]
        BY <1>3, TrailAfterDecision
      <4>2. job'[v].item = i
        BY <3>1, <3>5
      <4>3. n \in 1..Len(t)
        BY <4>2
      <4>4. \A x \in 1..l : trail[i][x].by # v
        BY <3>3, <3>5
      <4> HIDE DEF t
      <4>5. t[n].by # v
        BY <3>1, <4>1, <4>3, <4>4
      <4> QED
        BY <4>2, <4>5 DEF t
    <3> QED
      BY <3>4, <3>5
  <2> QED
    BY <1>1, <2>4, <2>5
<1> QED
  BY <1>2, <1>3

(* However many workers race on an item, none of them decides it twice. *)
THEOREM WorkersDecideOnce == Spec => []OneDecisionPerWorker
<1>1. Init => TrailInv
  BY TypeInit DEF Init, TrailInv, StateMatchesTrail, OneDecisionPerWorker,
     NotDecidedYet, Deciding, Idle
<1>2. TrailInv => OneDecisionPerWorker
  BY DEF TrailInv
<1> QED
  BY <1>1, <1>2, TrailStep, PTL DEF Spec

-----------------------------------------------------------------------------
(* A worker that is deciding after a step loaded the item in that step, or   *)
(* was deciding the same thing before it.                                    *)
Resumes(w) ==
    /\ Deciding(w)
    /\ job'[w].item = job[w].item
    /\ job'[w].decision = job[w].decision
    /\ job'[w].human = job[w].human

LEMMA Deciders ==
    ASSUME TypeOK, [Next]_vars, NEW w \in Worker, Deciding(w)'
    PROVE  Resumes(w) \/ \E i \in Item : DecideRead(w, i)
<1>1. CASE job'[w] = job[w]
  BY <1>1 DEF Deciding, Resumes
<1>2. CASE DecideWrite(w)
  BY <1>2, JobType DEF DecideWrite, Deciding, At, TypeOK, DecideJob, Resumes
<1>3. CASE (\E i \in Item : AssignRead(w, i)) \/ SweepRead(w)
  BY <1>3 DEF AssignRead, SweepRead, Deciding, TypeOK
<1>4. CASE AssignWrite(w)
  BY <1>4, JobType DEF AssignWrite, Deciding, At, TypeOK, AssignJob
<1>5. CASE AssignCommit(w) \/ SweepCommit(w) \/ Abort(w)
  BY <1>5 DEF AssignCommit, SweepCommit, Abort, Deciding, TypeOK, Idle
<1>6. CASE DecideCommit(w)
  <2>1. job' = [job EXCEPT ![w] = Idle]
    BY <1>6, DecisionStep
  <2> QED
    BY <2>1 DEF Deciding, TypeOK, Idle
<1>7. job'[w] = job[w] \/ Arrive(w) \/ Progress(w)
  <2>1. CASE Outside \/ UNCHANGED vars
    BY <2>1 DEF Outside, Enqueue, Deadline, vars
  <2>2. ASSUME NEW v \in Worker, v # w, Arrive(v) \/ Progress(v)
        PROVE  job'[w] = job[w]
    BY <2>2 DEF Arrive, Progress, DecideRead, DecideWrite, DecideCommit, AssignRead,
       AssignWrite, AssignCommit, SweepRead, SweepCommit, Abort, TypeOK
  <2> QED
    BY <2>1, <2>2 DEF Next
<1> QED
  BY <1>1, <1>2, <1>3, <1>4, <1>5, <1>6, <1>7 DEF Arrive, Progress

(* Only the load of an item adds it to the raced ones. *)
LEMMA RacesStay ==
    ASSUME [Next]_vars
    PROVE  /\ raced \subseteq raced'
           /\ \/ raced' = raced
              \/ \E w \in Worker, i \in Item : DecideRead(w, i)
<1>1. raced' = raced \/ \E w \in Worker, i \in Item : DecideRead(w, i)
  BY DEF Next, Outside, Arrive, Progress, Enqueue, Deadline, DecideWrite, DecideCommit,
     AssignRead, AssignWrite, AssignCommit, SweepRead, SweepCommit, Abort, vars
<1>2. ASSUME NEW w \in Worker, NEW i \in Item, DecideRead(w, i) PROVE raced \subseteq raced'
  BY <1>2 DEF DecideRead, Races
<1> QED
  BY <1>1, <1>2

(* A worker that loads an item another one is deciding makes it a raced one, *)
(* so of the others nothing comes between the load and the commit.           *)
LEMMA UnracedStep ==
    ASSUME UnracedInv, [Next]_vars
    PROVE  UnracedInv'
<1> USE DEF UnracedInv
<1>1. TypeOK'
  BY TypeStep
<1>2. raced \subseteq raced'
  BY RacesStay
<1>3. ASSUME NEW w \in Worker, NEW i \in Item, DecideRead(w, i)
      PROVE  /\ job'[w].item = i /\ item' = item /\ item[i].state = "pending"
             /\ \A v \in Worker \ {w} : job'[v] = job[v]
             /\ \A v \in Worker \ {w} : Deciding(v) /\ job[v].item = i => i \in raced'
  BY <1>3 DEF DecideRead, Races, TypeOK
<1>4. Exclusive'
  <2> SUFFICES ASSUME NEW v \in Worker, NEW w \in Worker, Deciding(v)', Deciding(w)',
                      job'[v].item = job'[w].item, job'[w].item \notin raced'
               PROVE  v = w
    BY DEF Exclusive
  <2>1. CASE Resumes(v) /\ Resumes(w)
    BY <1>2, <2>1 DEF Resumes, Exclusive
  <2>2. ASSUME NEW i \in Item, DecideRead(w, i), v # w PROVE FALSE
    <3>1. job'[v] = job[v] /\ job'[w].item = i
      BY <1>3, <2>2
    <3>2. Deciding(v) /\ job[v].item = i
      BY <3>1 DEF Deciding
    <3> QED
      BY <1>3, <2>2, <3>1, <3>2
  <2>3. ASSUME NEW i \in Item, DecideRead(v, i), v # w PROVE FALSE
    <3>1. job'[w] = job[w] /\ job'[v].item = i
      BY <1>3, <2>3
    <3>2. Deciding(w) /\ job[w].item = i
      BY <3>1 DEF Deciding
    <3> QED
      BY <1>3, <2>3, <3>1, <3>2
  <2> QED
    BY <2>1, <2>2, <2>3, Deciders
<1>5. CASE \A v \in Worker : ~DecideCommit(v)
  <2>1. \A k \in Item :
          /\ item'[k].human = item[k].human
          /\ \/ item'[k].state = item[k].state
             \/ item[k].state = "absent" /\ item'[k].state = "pending"
    BY <1>5, OtherSteps
  <2>2. UndecidedHasNoVerdict'
    BY <2>1 DEF UndecidedHasNoVerdict
  <2>3. ASSUME NEW w \in Worker, Resumes(w), job'[w].item \notin raced'
        PROVE  /\ item'[job'[w].item].state = "pending"
               /\ job'[w].decision = "escalate" <=> job'[w].human = NoVerdict
    <3>1. job[w].item \in Item
      BY <2>3, JobType DEF Resumes, Deciding, DecideJob
    <3>2. /\ item[job[w].item].state = "pending"
          /\ job[w].decision = "escalate" <=> job[w].human = NoVerdict
      BY <1>2, <2>3 DEF StillPending, Resumes
    <3>3. item'[job[w].item].state = "pending"
      BY <2>1, <3>1, <3>2
    <3> QED
      BY <2>3, <3>2, <3>3 DEF Resumes
  <2>4. ASSUME NEW w \in Worker, NEW i \in Item, DecideRead(w, i)
        PROVE  /\ item'[job'[w].item].state = "pending"
               /\ job'[w].decision = "escalate" <=> job'[w].human = NoVerdict
    <3>1. PICK d \in Decision, given \in Verdict \cup {NoVerdict} :
            job' = [job EXCEPT ![w] =
                [pc |-> "decide", item |-> i, decision |-> d,
                 human |-> HumanVerdict(d, given, item[i].ai, item[i].human)]]
      BY <2>4 DEF DecideRead
    <3>2. item[i].human = NoVerdict /\ item[i].ai \in Verdict
      BY <1>3, <2>4 DEF UndecidedHasNoVerdict, TypeOK, Row
    <3>3. d = "escalate" <=>
            HumanVerdict(d, given, item[i].ai, item[i].human) = NoVerdict
      BY <3>2, DecisionOutcome, NoVerdictAssumption
    <3>4. /\ job'[w].decision = d
          /\ job'[w].human = HumanVerdict(d, given, item[i].ai, item[i].human)
      BY <3>1 DEF TypeOK
    <3> QED
      BY <1>3, <2>4, <3>3, <3>4
  <2>5. StillPending'
    BY <2>3, <2>4, Deciders DEF StillPending
  <2> QED
    BY <1>1, <1>4, <2>2, <2>5
<1>6. ASSUME NEW v \in Worker, DecideCommit(v) PROVE UnracedInv'
  <2> DEFINE i == job[v].item
             d == job[v].decision
  <2>1. /\ i \in Item /\ d \in Decision /\ item[i] \in Row
        /\ \A k \in Item \ {i} : item'[k] = item[k]
        /\ job' = [job EXCEPT ![v] = Idle]
    BY <1>6, DecisionStep DEF TypeOK
  <2>2. item'[i].state \notin {"absent", "pending"}
    <3>1. item'[i].state = Outcome[d]
      BY <1>6, <2>1, DecisionStep DEF Decided, Row
    <3> QED
      BY <2>1, <3>1 DEF Decision, Outcome
  <2>3. UndecidedHasNoVerdict'
    BY <2>1, <2>2 DEF UndecidedHasNoVerdict
  <2>4. StillPending'
    <3> SUFFICES ASSUME NEW w \in Worker, Deciding(w)', job'[w].item \notin raced'
                 PROVE  /\ item'[job'[w].item].state = "pending"
                        /\ job'[w].decision = "escalate" <=> job'[w].human = NoVerdict
      BY DEF StillPending
    <3>1. w # v /\ job'[w] = job[w] /\ Deciding(w)
      BY <2>1 DEF Deciding, Idle, TypeOK
    <3>2. job[w].item \in Item /\ job[w].item \notin raced
      BY <1>2, <3>1, JobType DEF Deciding, DecideJob
    <3>3. job[w].item # i
      BY <1>6, <3>1, <3>2 DEF Exclusive, Deciding, DecideCommit, At
    <3> QED
      BY <2>1, <3>1, <3>2, <3>3 DEF StillPending
  <2> QED
    BY <1>1, <1>4, <2>3, <2>4
<1> QED
  BY <1>5, <1>6

(* The queue starts without a race. *)
LEMMA UnracedInit == Init => UnracedInv
  BY TypeInit DEF Init, UnracedInv, Exclusive, StillPending, UndecidedHasNoVerdict,
     Deciding, Idle

(* What the decision on an item that was not raced for finds and leaves.     *)
LEMMA UnracedDecision ==
    ASSUME UnracedInv, NEW w \in Worker, DecideCommit(w), job[w].item \notin raced
    PROVE  LET i == job[w].item
               d == job[w].decision
               h == job[w].human
           IN /\ item[i].state = "pending" /\ item[i].human = NoVerdict
              /\ item'[i].state = Outcome[d] /\ item'[i].human = h
              /\ d = "escalate" <=> h = NoVerdict
<1> DEFINE i == job[w].item
           d == job[w].decision
           h == job[w].human
<1>1. i \in Item /\ d \in Decision /\ item'[i] = Decided(item[i], d, h)
  BY DecisionStep DEF UnracedInv
<1>2. Deciding(w)
  BY DEF DecideCommit, At, Deciding
<1>3. item[i].state = "pending" /\ (d = "escalate" <=> h = NoVerdict)
  BY <1>2 DEF UnracedInv, StillPending
<1>4. item[i].human = NoVerdict /\ item[i] \in Row
  BY <1>1, <1>3 DEF UnracedInv, UndecidedHasNoVerdict, TypeOK
<1>5. item'[i].state = Outcome[d] /\ item'[i].human = h
  BY <1>1, <1>3, <1>4 DEF Decided, Row
<1> QED
  BY <1>3, <1>4, <1>5

(* Under that invariant every step of the queue is a step of the gate: the   *)
(* load that makes an item a raced one finds it pending.                     *)
LEMMA GateStep ==
    ASSUME UnracedInv, [Next]_vars
    PROVE  [Gate!GateNext]_([i \in Item |->
                               IF i \in raced THEN [state |-> "pending", human |-> NoVerdict]
                               ELSE [state |-> item[i].state, human |-> item[i].human]])
<1> DEFINE g == [i \in Item |->
                   IF i \in raced THEN [state |-> "pending", human |-> NoVerdict]
                   ELSE [state |-> item[i].state, human |-> item[i].human]]
<1>0. TypeOK
  BY DEF UnracedInv
<1>1. ASSUME NEW w \in Worker, DecideCommit(w) PROVE g' = g \/ Gate!GateNext
  <2>0. PICK i \in Item : i = job[w].item
    BY <1>0, <1>1, DecisionStep
  <2> DEFINE d == job[w].decision
             h == job[w].human
  <2>1. d \in Decision /\ h \in Verdict \cup {NoVerdict}
        /\ \A k \in Item \ {i} : item'[k] = item[k]
    BY <1>0, <1>1, <2>0, DecisionStep
  <2>2. raced' = raced
    BY <1>1 DEF DecideCommit
  <2>3. CASE i \in raced
    BY <2>1, <2>2, <2>3
  <2>4. CASE i \notin raced
    <3>1. /\ item[i].state = "pending" /\ item[i].human = NoVerdict
          /\ item'[i].state = Outcome[d] /\ item'[i].human = h
          /\ d = "escalate" <=> h = NoVerdict
      BY <1>1, <2>0, <2>4, UnracedDecision
    <3>2. Outcome[d] \in Gate!Outcomes /\ (Outcome[d] = "escalated" <=> h = NoVerdict)
      BY <2>1, <3>1 DEF Decision, Outcome, Gate!Outcomes
    <3>3. g[i] = Gate!Pending
      BY <2>4, <3>1 DEF Gate!Pending
    <3>4. g' = [g EXCEPT ![i] = [state |-> Outcome[d], human |-> h]]
      BY <2>1, <2>2, <2>4, <3>1
    <3>5. Gate!Decide(i)
      BY <2>1, <3>2, <3>3, <3>4 DEF Gate!Decide
    <3> QED
      BY <3>5 DEF Gate!GateNext
  <2> QED
    BY <2>3, <2>4
<1>2. ASSUME NEW i \in Item, Enqueue(i) PROVE g' = g \/ Gate!GateNext
  <2>1. item[i].state = "absent" /\ item[i].human = NoVerdict /\ item[i] \in Row
    BY <1>2 DEF Enqueue, Exists, UnracedInv, UndecidedHasNoVerdict, TypeOK
  <2>2. item' = [item EXCEPT ![i].state = "pending"] /\ raced' = raced
    BY <1>2 DEF Enqueue
  <2>3. CASE i \in raced
    BY <1>0, <2>2, <2>3 DEF TypeOK, Row
  <2>4. CASE i \notin raced
    <3>1. g[i] = Gate!Absent
      BY <2>1, <2>4 DEF Gate!Absent
    <3>2. g' = [g EXCEPT ![i] = Gate!Pending]
      BY <1>0, <2>1, <2>2, <2>4 DEF Gate!Pending, TypeOK, Row
    <3> QED
      BY <3>1, <3>2 DEF Gate!Enqueue, Gate!GateNext
  <2> QED
    BY <2>3, <2>4
<1>3. ASSUME NEW w \in Worker, AssignCommit(w) PROVE g' = g
  BY <1>0, <1>3 DEF AssignCommit, TypeOK, Row
<1>4. ASSUME NEW w \in Worker, NEW i \in Item, DecideRead(w, i) PROVE g' = g
  <2>1. item' = item /\ (raced' = raced \/ raced' = raced \cup {i})
    BY <1>4 DEF DecideRead, Races
  <2>2. item[i].state = "pending" /\ item[i].human = NoVerdict
    BY <1>4 DEF DecideRead, UnracedInv, UndecidedHasNoVerdict
  <2> QED
    BY <2>1, <2>2
<1>5. ASSUME UNCHANGED <<item, raced>> PROVE g' = g
  BY <1>5
<1>6. \/ \E w \in Worker : DecideCommit(w) \/ AssignCommit(w)
      \/ \E i \in Item : Enqueue(i)
      \/ \E w \in Worker, i \in Item : DecideRead(w, i)
      \/ UNCHANGED <<item, raced>>
  BY DEF Next, Outside, Arrive, Progress, Deadline, DecideWrite, AssignRead, AssignWrite,
     SweepRead, SweepCommit, Abort, vars
<1> QED
  BY <1>1, <1>2, <1>3, <1>4, <1>5, <1>6

(* The gate of review.py as its docstring states it, for any number of       *)
(* workers: an item no two decisions of which overlapped is decided at most  *)
(* once and for good.                                                        *)
THEOREM UnracedItemsAreGated == Spec => GateHolds
<1>1. Init => Gate!GateInit
  BY DEF Init, Gate!GateInit, Gate!Absent
<1>2. UnracedInv /\ [Next]_vars =>
        [Gate!GateNext]_([i \in Item |->
                            IF i \in raced THEN [state |-> "pending", human |-> NoVerdict]
                            ELSE [state |-> item[i].state, human |-> item[i].human]])
  BY GateStep
<1> QED
  BY <1>1, <1>2, UnracedInit, UnracedStep, PTL DEF Spec, GateHolds, Gate!GateSpec

-----------------------------------------------------------------------------
(* The trainer and the trail. *)

Labelled(labels, d) == {n \in 1..Len(labels) : labels[n] = Label[d]}
Audited(entries, d) == {n \in 1..Len(entries) : entries[n].decision = d}

(* A set of places of a sequence is finite.                                 *)
LEMMA PlacesAreFinite ==
    ASSUME NEW l \in Nat, NEW P \in SUBSET (1..l)
    PROVE  IsFiniteSet(P) /\ Cardinality(P) \in Nat
<1>1. IsFiniteSet(1..l)
  BY FS_Interval
<1>2. IsFiniteSet(P)
  BY <1>1, FS_Subset
<1> QED
  BY <1>2, FS_CardinalityType

(* A place more is one more at most, and exactly one if it belongs.         *)
LEMMA PlaceCount ==
    ASSUME NEW l \in Nat, NEW A \in SUBSET (1..l), NEW B \in SUBSET (1..(l + 1)),
           \A n \in 1..l : n \in B <=> n \in A
    PROVE  /\ l + 1 \in B => Cardinality(B) = Cardinality(A) + 1
           /\ l + 1 \notin B => B = A
<1>1. IsFiniteSet(A)
  BY PlacesAreFinite
<1>2. l + 1 \notin A
  OBVIOUS
<1>3. \A n : n \in 1..(l + 1) <=> n \in 1..l \/ n = l + 1
  OBVIOUS
<1>4. CASE l + 1 \in B
  <2>1. B = A \cup {l + 1}
    BY <1>3, <1>4
  <2> QED
    BY <1>1, <1>2, <1>4, <2>1, FS_AddElement
<1>5. CASE l + 1 \notin B
  BY <1>3, <1>5
<1> QED
  BY <1>4, <1>5

(* A decision adds one entry of its kind to the trail, and none of another.  *)
LEMMA TrailCount ==
    ASSUME TypeOK, NEW w \in Worker, DecideCommit(w), NEW d \in Decision
    PROVE  LET i == job[w].item
           IN Cardinality(Audited(trail'[i], d)) =
                Cardinality(Audited(trail[i], d)) + IF d = job[w].decision THEN 1 ELSE 0
<1> DEFINE i == job[w].item
           l == Len(trail[i])
           e == [decision |-> job[w].decision, by |-> w, human |-> job[w].human]
<1>1. trail[i] \in Seq(Entry) /\ e \in Entry /\ e.decision = job[w].decision
  BY DecisionStep DEF TypeOK, Entry
<1>2. trail'[i] = Append(trail[i], e)
  BY DecisionStep DEF TypeOK
<1> HIDE DEF e
<1>3. /\ l \in Nat
      /\ Len(trail'[i]) = l + 1
      /\ \A n \in 1..l : trail'[i][n] = trail[i][n]
      /\ trail'[i][l + 1] = e
  BY <1>1, <1>2
<1>4. Audited(trail[i], d) \in SUBSET (1..l) /\ Audited(trail'[i], d) \in SUBSET (1..(l + 1))
  BY <1>3 DEF Audited
<1>5. \A n \in 1..l : n \in Audited(trail'[i], d) <=> n \in Audited(trail[i], d)
  BY <1>3, SMTT(30) DEF Audited
<1>6. l + 1 \in Audited(trail'[i], d) <=> d = job[w].decision
  BY <1>1, <1>3 DEF Audited
<1>7. Cardinality(Audited(trail[i], d)) \in Nat
  BY <1>3, <1>4, PlacesAreFinite
<1> DEFINE A == Audited(trail[i], d)
           B == Audited(trail'[i], d)
<1>8. A \in SUBSET (1..l) /\ B \in SUBSET (1..(l + 1)) /\ \A n \in 1..l : n \in B <=> n \in A
  BY <1>4, <1>5
<1> HIDE DEF A, B
<1>9. (l + 1 \in B => Cardinality(B) = Cardinality(A) + 1) /\ (l + 1 \notin B => B = A)
  BY <1>3, <1>8, PlaceCount
<1> QED
  BY <1>6, <1>7, <1>9 DEF A, B

(* It adds at most one label, of its own kind.                              *)
LEMMA LabelCount ==
    ASSUME TypeOK, NEW w \in Worker, DecideCommit(w), NEW d \in Decision
    PROVE  LET i == job[w].item
           IN Cardinality(Labelled(label'[i], d)) <=
                Cardinality(Labelled(label[i], d)) + IF d = job[w].decision THEN 1 ELSE 0
<1> DEFINE i == job[w].item
           l == Len(label[i])
<1>0. i \in Item /\ job[w].decision \in Decision
  BY DecisionStep
<1>1. label[i] \in Seq({Label[k] : k \in Decision})
  BY <1>0 DEF TypeOK
<1>2. l \in Nat /\ Labelled(label[i], d) \in SUBSET (1..l)
  BY <1>1 DEF Labelled
<1>3. Cardinality(Labelled(label[i], d)) \in Nat
  BY <1>2, PlacesAreFinite
<1>4. CASE label' = label
  BY <1>3, <1>4
<1>5. CASE label' = [label EXCEPT ![i] = Append(@, Label[job[w].decision])]
  <2>1. label'[i] = Append(label[i], Label[job[w].decision])
    BY <1>0, <1>5 DEF TypeOK
  <2>2. /\ Len(label'[i]) = l + 1
        /\ \A n \in 1..l : label'[i][n] = label[i][n]
        /\ label'[i][l + 1] = Label[job[w].decision]
    BY <1>0, <1>1, <1>2, <2>1
  <2>3. Labelled(label'[i], d) \in SUBSET (1..(l + 1))
    BY <2>2 DEF Labelled
  <2>4. \A n \in 1..l : n \in Labelled(label'[i], d) <=> n \in Labelled(label[i], d)
    BY <1>2, <2>2 DEF Labelled
  <2>5. l + 1 \in Labelled(label'[i], d) => d = job[w].decision
    BY <1>0, <2>2 DEF Labelled, Label, Decision
  <2> DEFINE A == Labelled(label[i], d)
             B == Labelled(label'[i], d)
  <2>6. A \in SUBSET (1..l) /\ B \in SUBSET (1..(l + 1)) /\ \A n \in 1..l : n \in B <=> n \in A
    BY <1>2, <2>3, <2>4
  <2> HIDE DEF A, B
  <2>7. (l + 1 \in B => Cardinality(B) = Cardinality(A) + 1) /\ (l + 1 \notin B => B = A)
    BY <1>2, <2>6, PlaceCount
  <2> QED
    BY <1>3, <2>5, <2>7 DEF A, B
<1> QED
  BY <1>4, <1>5 DEF DecideCommit

(* Label and audit entry share the transaction, so a label is never alone.  *)
LEMMA LabelStep ==
    ASSUME TypeOK, LabelsAreEarned, [Next]_vars
    PROVE  LabelsAreEarned'
<1>1. CASE \A w \in Worker : ~DecideCommit(w)
  <2>1. trail' = trail
    BY <1>1, OtherSteps
  <2>2. label' = label
    BY <1>1 DEF Next, Outside, Arrive, Progress, Enqueue, Deadline, DecideRead, DecideWrite,
       AssignRead, AssignWrite, AssignCommit, SweepRead, SweepCommit, Abort, vars
  <2> QED
    BY <2>1, <2>2 DEF LabelsAreEarned
<1>2. ASSUME NEW w \in Worker, DecideCommit(w) PROVE LabelsAreEarned'
  <2> SUFFICES ASSUME NEW i \in Item, NEW d \in Decision
               PROVE  Cardinality(Labelled(label'[i], d)) <= Cardinality(Audited(trail'[i], d))
    BY DEF LabelsAreEarned, Labelled, Audited
  <2>1. Cardinality(Labelled(label[i], d)) <= Cardinality(Audited(trail[i], d))
    BY DEF LabelsAreEarned, Labelled, Audited
  <2>2. Cardinality(Labelled(label[i], d)) \in Nat
    <3>1. label[i] \in Seq({Label[k] : k \in Decision})
      BY DEF TypeOK
    <3>2. Len(label[i]) \in Nat /\ Labelled(label[i], d) \in SUBSET (1..Len(label[i]))
      BY <3>1 DEF Labelled
    <3> QED
      BY <3>2, PlacesAreFinite
  <2>3. Cardinality(Audited(trail[i], d)) \in Nat
    <3>1. trail[i] \in Seq(Entry)
      BY DEF TypeOK
    <3>2. Len(trail[i]) \in Nat /\ Audited(trail[i], d) \in SUBSET (1..Len(trail[i]))
      BY <3>1 DEF Audited
    <3> QED
      BY <3>2, PlacesAreFinite
  <2>4. Cardinality(Labelled(label'[i], d)) \in Nat
    <3>1. label'[i] \in Seq({Label[k] : k \in Decision})
      BY <1>2, TypeStep DEF TypeOK, Next, Progress
    <3>2. Len(label'[i]) \in Nat /\ Labelled(label'[i], d) \in SUBSET (1..Len(label'[i]))
      BY <3>1 DEF Labelled
    <3> QED
      BY <3>2, PlacesAreFinite
  <2>5. CASE i = job[w].item
    <3>1. Cardinality(Audited(trail'[i], d)) =
            Cardinality(Audited(trail[i], d)) + IF d = job[w].decision THEN 1 ELSE 0
      BY <1>2, <2>5, TrailCount
    <3>2. Cardinality(Labelled(label'[i], d)) <=
            Cardinality(Labelled(label[i], d)) + IF d = job[w].decision THEN 1 ELSE 0
      BY <1>2, <2>5, LabelCount
    <3> QED
      BY <2>1, <2>2, <2>3, <2>4, <3>1, <3>2
  <2>6. CASE i # job[w].item
    <3>1. trail'[i] = trail[i] /\ label'[i] = label[i]
      BY <1>2, <2>6, DecisionStep DEF DecideCommit, TypeOK
    <3> QED
      BY <2>1, <3>1, SMTT(30)
  <2> QED
    BY <2>5, <2>6
<1> QED
  BY <1>1, <1>2

(* For any number of workers: each label the trainer sees is matched by a    *)
(* decision of its kind in the audit trail.                                  *)
THEOREM LabelsAlwaysEarned == Spec => []LabelsAreEarned
<1>1. Init => LabelsAreEarned
  <2> SUFFICES ASSUME Init, NEW i \in Item, NEW d \in Decision
               PROVE  Cardinality(Labelled(label[i], d)) <= Cardinality(Audited(trail[i], d))
    BY DEF LabelsAreEarned, Labelled, Audited
  <2>1. label[i] = <<>> /\ trail[i] = <<>>
    BY DEF Init
  <2>2. Labelled(<<>>, d) = {} /\ Audited(<<>>, d) = {}
    BY DEF Labelled, Audited
  <2>3. Labelled(label[i], d) = {} /\ Audited(trail[i], d) = {}
    BY <2>1, <2>2
  <2>4. Cardinality(Labelled(label[i], d)) = 0 /\ Cardinality(Audited(trail[i], d)) = 0
    BY <2>3, FS_EmptySet
  <2> QED
    BY <2>4
<1> QED
  BY <1>1, LabelStep, TypeCorrect, PTL DEF Spec

-----------------------------------------------------------------------------
(* The decision on an item that was not raced for meets one no answer and no *)
(* audit entry speaks of yet, so what those say of decided items stays true. *)
LEMMA AnswersStep ==
    ASSUME UnracedInv, StateMatchesTrail, AnswersStand, [Next]_vars
    PROVE  AnswersStand'
<1>0. TypeOK /\ raced \subseteq raced'
  BY RacesStay DEF UnracedInv
<1>1. CASE \A w \in Worker : ~DecideCommit(w)
  <2>1. /\ trail' = trail
        /\ \A k \in Item :
             /\ item'[k].human = item[k].human
             /\ \/ item'[k].state = item[k].state
                \/ (item[k].state = "absent" /\ item'[k].state = "pending")
    BY <1>0, <1>1, OtherSteps
  <2>2. eligible' = eligible /\ eligible \subseteq Item
    BY <1>0, <1>1 DEF Next, Outside, Arrive, Progress, Enqueue, Deadline, DecideRead,
       DecideWrite, AssignRead, AssignWrite, AssignCommit, SweepRead, SweepCommit, Abort,
       vars, TypeOK
  <2> QED
    BY <1>0, <2>1, <2>2 DEF AnswersStand
<1>2. ASSUME NEW w \in Worker, DecideCommit(w) PROVE AnswersStand'
  <2> DEFINE i == job[w].item
             d == job[w].decision
             h == job[w].human
             e == [decision |-> d, by |-> w, human |-> h]
  <2>1. /\ i \in Item /\ d \in Decision /\ h \in Verdict \cup {NoVerdict}
        /\ trail' = [trail EXCEPT ![i] = Append(@, e)]
        /\ \A k \in Item \ {i} : item'[k] = item[k]
    BY <1>0, <1>2, DecisionStep
  <2>2. i \notin raced =>
          /\ item[i].state = "pending"
          /\ item'[i].human = h /\ item'[i].state = Outcome[d]
    BY <1>2, UnracedDecision
  <2>3. trail'[i] # <<>> /\ trail'[i][Len(trail'[i])] = e
    <3>1. trail[i] \in Seq(Entry) /\ e \in Entry
      BY <1>0, <2>1 DEF TypeOK, Entry
    <3>2. trail'[i] = Append(trail[i], e)
      BY <1>0, <2>1 DEF TypeOK
    <3> HIDE DEF e, i
    <3>3. Len(Append(trail[i], e)) = Len(trail[i]) + 1 /\ Append(trail[i], e)[Len(trail[i]) + 1] = e
      BY <3>1
    <3>4. Append(trail[i], e) # <<>>
      BY <3>1, AppendNotEmpty
    <3> QED
      BY <3>2, <3>3, <3>4
  <2>4. eligible' = eligible \cup (IF d = "approve" /\ h = "phish" THEN {i} ELSE {})
    BY <1>2 DEF DecideCommit
  <2>5. eligible \subseteq Item
    BY <1>0 DEF TypeOK
  <2>6. ASSUME NEW k \in eligible', k \notin raced'
        PROVE  item'[k].state = "approved" /\ item'[k].human = "phish"
    <3>1. CASE k \in eligible
      <4>1. item[k].state = "approved" /\ item[k].human = "phish"
        BY <1>0, <2>6, <3>1 DEF AnswersStand
      <4>2. k # i
        BY <1>0, <2>2, <2>6, <4>1
      <4> QED
        BY <2>1, <2>5, <3>1, <4>1, <4>2
    <3>2. CASE k = i /\ d = "approve" /\ h = "phish"
      BY <1>0, <2>2, <2>6, <3>2 DEF Outcome
    <3> QED
      BY <2>4, <2>6, <3>1, <3>2
  <2>7. ASSUME NEW k \in Item, k \notin raced', trail'[k] # <<>>
        PROVE  trail'[k][Len(trail'[k])].human = item'[k].human
    <3>1. CASE k = i
      BY <1>0, <2>2, <2>3, <2>7, <3>1
    <3>2. CASE k # i
      <4>1. trail'[k] = trail[k] /\ item'[k] = item[k]
        BY <1>0, <2>1, <3>2 DEF TypeOK
      <4> QED
        BY <1>0, <2>7, <4>1 DEF AnswersStand
    <3> QED
      BY <3>1, <3>2
  <2> QED
    BY <2>6, <2>7 DEF AnswersStand
<1> QED
  BY <1>1, <1>2

(* For any number of workers: an item a client was told is takedown_eligible *)
(* is approved as phish for good, and the last audit snapshot is the row's,  *)
(* unless two decisions on it overlapped.                                    *)
THEOREM UnracedAnswersStand == Spec => []AnswersStand
<1>1. Init => AnswersStand
  BY DEF Init, AnswersStand
<1> QED
  BY <1>1, UnracedInit, UnracedStep, AnswersStep, QueueMatchesTrail, PTL DEF Spec
=============================================================================
