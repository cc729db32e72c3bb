------------------------- MODULE TakedownGateProofs -------------------------
(***************************************************************************)
(* Proofs about TakedownGate: the audit log under the takedown route is    *)
(* the one of AuditChain, so its theorems hold here too, and an answered   *)
(* takedown is in that log.                                                *)
(***************************************************************************)
EXTENDS TakedownGate, AuditChainProofs

CallType == call \in [Process -> Call \cup {NoCall}]

(* What CallType says of a call at a step of the route. *)
LEMMA CallAtType ==
    ASSUME CallType, NEW p \in Process, InCall(p)
    PROVE  call[p] \in Call
  BY DEF CallType, InCall, NoCall

(* Moving a call on keeps it a call, and moves no other. *)
LEMMA GotoType ==
    ASSUME CallType, NEW p \in Process, InCall(p), Goto(p, "recording")
                        \/ Goto(p, "responding") \/ Goto(p, "logging")
    PROVE  CallType'
<1>1. call[p] \in Call
  BY CallAtType
<1>2. \A pc \in {"recording", "responding", "logging"} :
        [call[p] EXCEPT !.pc = pc] \in Call
  BY <1>1 DEF Call
<1> QED
  BY <1>2 DEF Goto, CallType

(* The steps of the route, and of the other requests, keep the calls typed. *)
LEMMA CallTypeStep ==
    ASSUME CallType, [GateNext]_gateVars
    PROVE  CallType'
<1>1. CASE Review \/ UNCHANGED gateVars
  BY <1>1 DEF Review, gateVars, CallType
<1>2. ASSUME NEW p \in Process, Elsewhere(p) \/ Record(p) PROVE CallType'
  BY <1>2 DEF Elsewhere, Record, CallType
<1>3. ASSUME NEW p \in Process, NEW a \in Alert, Load(p, a) PROVE CallType'
  BY <1>3 DEF Load, Call, CallType
<1>4. ASSUME NEW p \in Process, File(p) PROVE CallType'
  <2>1. call[p] \in Call
    BY <1>4, CallAtType DEF File, CallAt, InCall
  <2>2. /\ [call[p] EXCEPT !.pc = "unrecorded"] \in Call
        /\ [call[p] EXCEPT !.pc = "unrecorded", !.success = TRUE] \in Call
    BY <2>1 DEF Call
  <2> QED
    BY <1>4, <2>2 DEF File, Goto, CallType
<1>5. ASSUME NEW p \in Process, OpenRecord(p) \/ Recorded(p) \/ OpenLog(p)
      PROVE  CallType'
  BY <1>5, GotoType DEF OpenRecord, Recorded, OpenLog, CallAt, InCall
<1>6. ASSUME NEW p \in Process, RecordFails(p) \/ Respond(p) PROVE CallType'
  BY <1>6 DEF RecordFails, Respond, EndCall, CallType
<1> QED
  BY <1>1, <1>2, <1>3, <1>4, <1>5, <1>6 DEF GateNext, Takedown

(* Every step of the composition is a step of the audit log, or leaves it. *)
LEMMA ChainStep ==
    ASSUME CallType, [GateNext]_gateVars
    PROVE  [Next]_vars
<1>1. CASE Review \/ UNCHANGED gateVars
  BY <1>1 DEF Review, gateVars, chain, vars
<1>2. ASSUME NEW p \in Process, (\E a \in Alert : Load(p, a)) \/ File(p)
      PROVE  UNCHANGED vars
  BY <1>2 DEF Load, File, chain, vars
<1>3. ASSUME NEW p \in Process, OpenRecord(p) \/ OpenLog(p) PROVE Step(p)
  <2>1. call[p] \in Call
    BY <1>3, CallAtType DEF OpenRecord, OpenLog, CallAt, InCall
  <2>2. call[p].alert \in Content
    BY <2>1, AlertAssumption DEF Call
  <2>3. PICK path \in Path, acct \in Account : Open(p, path, acct, call[p].alert)
    BY <1>3 DEF OpenRecord, OpenLog, Path
  <2>4. PICK c \in Content : c = call[p].alert
    BY <2>2
  <2>5. Open(p, path, acct, c)
    BY <2>3, <2>4 DEF Open
  <2> QED
    BY <2>5 DEF Begin, Step
<1>4. ASSUME NEW p \in Process,
             Record(p) \/ Recorded(p) \/ RecordFails(p) \/ Respond(p) \/ Elsewhere(p)
      PROVE  Step(p)
  BY <1>4 DEF Record, Recorded, RecordFails, Respond, Elsewhere, Step
<1> QED
  BY <1>1, <1>2, <1>3, <1>4 DEF GateNext, Takedown, Next

(* Whatever the takedown route and the reviewers do, the audit log they     *)
(* share behaves as AuditChain specifies.                                   *)
THEOREM GateUsesChain == GateSpec => Spec
<1>1. GateInit => Init /\ CallType
  BY DEF GateInit, CallType
<1> QED
  BY <1>1, CallTypeStep, ChainStep, PTL DEF GateSpec, Spec

(* The audit log keeps its canonical numbering under the takedown route: the *)
(* seq of its rows stays dense and unique.                                   *)
THEOREM GateSeqAlwaysDense == GateSpec => []SeqIsDense
  BY GateUsesChain, SeqAlwaysDense, PTL

-----------------------------------------------------------------------------
(* The session of a recording call writes the row of its own alert. *)
RecordingItsAlert ==
    \A p \in Process : CallAt(p, "recording") =>
        /\ req[p].pc # "idle" 
        /\ req[p].path = "submission"
        /\ req[p].body = call[p].alert

(* A call that passed its session left a row behind. *)
PassedIsRecorded ==
    \A p \in Process : CallAt(p, "responding") \/ CallAt(p, "logging") =>
        Records(table, call[p].alert) # {}

RecordInv == /\ CallType
             /\ RecordingItsAlert
             /\ PassedIsRecorded
             /\ AnsweredIsRecorded

(* The log only grows, so a filing once recorded stays recorded. *)
LEMMA RecordsStay ==
    ASSUME NEW a, [Next]_vars, Records(table, a) # {}
    PROVE  Records(table', a) # {}
<1>1. table \subseteq table'
  BY DEF Next, Step, Begin, Open, ReadPrev, ReadSeq, Insert, Collide, Commit,
         Rollback, vars
<1> QED
  BY <1>1 DEF Records

(* Only the serving process moves its session, and it keeps what it writes. *)
LEMMA SessionStep ==
    ASSUME TypeOK, NEW p \in Process, ReadPrev(p) \/ ReadSeq(p) \/ Insert(p)
    PROVE  /\ \A q \in Process \ {p} : req'[q] = req[q]
           /\ req'[p].pc # "idle"
           /\ req'[p].path = req[p].path
           /\ req'[p].body = req[p].body
<1>1. req[p] \in Request
  BY DEF TypeOK, ReadPrev, ReadSeq, Insert, Idle
<1> QED
  BY <1>1 DEF TypeOK, ReadPrev, ReadSeq, Insert, Request

(* A step that leaves the calls and the answers alone leaves them recorded. *)
LEMMA NoCallMoves ==
    ASSUME RecordInv, [Next]_vars, UNCHANGED <<call, answered>>
    PROVE  PassedIsRecorded' /\ AnsweredIsRecorded' /\ CallType'
<1> USE DEF RecordInv
<1>1. CallType'
  BY DEF CallType
<1>2. ASSUME NEW p \in Process, CallAt(p, "responding") \/ CallAt(p, "logging")
      PROVE  Records(table', call[p].alert) # {}
  <2>1. PICK a : a = call[p].alert
    OBVIOUS
  <2>2. Records(table', a) # {}
    BY <1>2, <2>1, RecordsStay DEF PassedIsRecorded
  <2>3. a = call'[p].alert
    BY <2>1
  <2> QED
    BY <2>2, <2>3 DEF Records
<1>3. ASSUME NEW a \in answered PROVE Records(table', a) # {}
  BY RecordsStay DEF AnsweredIsRecorded
<1> QED
  BY <1>1, <1>2, <1>3 DEF PassedIsRecorded, AnsweredIsRecorded, CallAt, Records

(* A call that moves on, to a step that needs no record, leaves all recorded. *)
LEMMA CallMoves ==
    ASSUME RecordInv, [Next]_vars, NEW p \in Process, NEW c,
           call' = [call EXCEPT ![p] = c], UNCHANGED answered,
           c.pc \in {"responding", "logging"} => Records(table', c.alert) # {}
    PROVE  PassedIsRecorded' /\ AnsweredIsRecorded'
<1> USE DEF RecordInv
<1>1. ASSUME NEW a \in answered PROVE Records(table', a) # {}
  BY RecordsStay DEF AnsweredIsRecorded
<1>2. ASSUME NEW q \in Process, call'[q].pc \in {"responding", "logging"}
      PROVE  Records(table', call'[q].alert) # {}
  <2>1. CASE q = p
    BY <1>2, <2>1 DEF CallType
  <2>2. CASE q # p
    <3>1. call'[q] = call[q]
      BY <2>2 DEF CallType
    <3>2. PICK a : a = call[q].alert
      OBVIOUS
    <3>3. Records(table', a) # {}
      BY <1>2, <3>1, <3>2, RecordsStay DEF PassedIsRecorded, CallAt
    <3> QED
      BY <3>1, <3>2, <3>3 DEF Records
  <2> QED
    BY <2>1, <2>2
<1> QED
  BY <1>1, <1>2 DEF PassedIsRecorded, AnsweredIsRecorded, CallAt, Records

(* Each step keeps filings recorded once their session has committed. *)
LEMMA RecordStep ==
    ASSUME RecordInv, TypeOK, [GateNext]_gateVars
    PROVE  RecordInv'
<1> USE DEF RecordInv
<1>1. CallType' /\ [Next]_vars
  BY CallTypeStep, ChainStep
<1>2. CASE Review \/ UNCHANGED gateVars
  <2>1. UNCHANGED <<call, answered, req>>
    BY <1>2 DEF Review, gateVars, chain
  <2>2. RecordingItsAlert'
    BY <2>1 DEF RecordingItsAlert, CallAt
  <2> QED
    BY <1>1, <2>1, <2>2, NoCallMoves
<1>3. ASSUME NEW p \in Process, Record(p) PROVE RecordInv'
  <2>1. UNCHANGED <<call, answered>>
    BY <1>3 DEF Record
  <2>2. RecordingItsAlert'
    BY <1>3, <2>1, SessionStep DEF Record, RecordingItsAlert, CallAt
  <2> QED
    BY <1>1, <2>1, <2>2, NoCallMoves
<1>4. ASSUME NEW p \in Process, Elsewhere(p) PROVE RecordInv'
  <2>1. UNCHANGED <<call, answered>> /\ ~InCall(p)
    BY <1>4 DEF Elsewhere
  <2>2. \A q \in Process \ {p} : req'[q] = req[q]
    BY <1>4 DEF Elsewhere, Step, Begin, Open, ReadPrev, ReadSeq, Insert, Collide,
       Commit, Rollback, TypeOK
  <2>3. RecordingItsAlert'
    BY <2>1, <2>2 DEF RecordingItsAlert, CallAt, InCall
  <2> QED
    BY <1>1, <2>1, <2>3, NoCallMoves
<1>5. ASSUME NEW p \in Process, NEW a \in Alert, Load(p, a) PROVE RecordInv'
  <2> DEFINE c == [pc |-> "loaded", alert |-> a, success |-> FALSE]
  <2>1. call' = [call EXCEPT ![p] = c] /\ UNCHANGED <<answered, req>>
    BY <1>5 DEF Load, chain
  <2>2. c.pc \notin {"responding", "logging", "recording"}
    OBVIOUS
  <2>3. PassedIsRecorded' /\ AnsweredIsRecorded'
    <3> HIDE DEF c
    <3> QED
      BY <1>1, <2>1, <2>2, CallMoves
  <2>4. RecordingItsAlert'
    BY <2>1, <2>2 DEF RecordingItsAlert, CallAt, CallType
  <2> QED
    BY <1>1, <2>3, <2>4
<1>6. ASSUME NEW p \in Process, File(p) PROVE RecordInv'
  <2>1. PICK c : /\ call' = [call EXCEPT ![p] = c]
                 /\ c.pc = "unrecorded"
    <3>1. call[p] \in Call
      BY <1>6, CallAtType DEF File, CallAt, InCall
    <3>2. /\ [call[p] EXCEPT !.pc = "unrecorded"].pc = "unrecorded"
          /\ [call[p] EXCEPT !.pc = "unrecorded", !.success = TRUE].pc = "unrecorded"
      BY <3>1 DEF Call
    <3> QED
      BY <1>6, <3>2 DEF File, Goto
  <2>2. UNCHANGED <<answered, req>>
    BY <1>6 DEF File, chain
  <2>3. PassedIsRecorded' /\ AnsweredIsRecorded'
    BY <1>1, <2>1, <2>2, CallMoves
  <2>4. RecordingItsAlert'
    BY <2>1, <2>2 DEF RecordingItsAlert, CallAt, CallType
  <2> QED
    BY <1>1, <2>3, <2>4
<1>7. ASSUME NEW p \in Process, OpenRecord(p) PROVE RecordInv'
  <2>1. call[p] \in Call
    BY <1>7, CallAtType DEF OpenRecord, CallAt, InCall
  <2> DEFINE c == [call[p] EXCEPT !.pc = "recording"]
  <2>2. call' = [call EXCEPT ![p] = c] /\ UNCHANGED answered
    BY <1>7 DEF OpenRecord, Goto
  <2>3. c.pc = "recording" /\ c.alert = call[p].alert
    BY <2>1 DEF Call
  <2>4. PassedIsRecorded' /\ AnsweredIsRecorded'
    <3> HIDE DEF c
    <3> QED
      BY <1>1, <2>2, <2>3, CallMoves
  <2>5. /\ \A q \in Process \ {p} : req'[q] = req[q] /\ call'[q] = call[q]
        /\ req'[p].pc \in {"prev", "seq"}
        /\ req'[p].path = "submission"
        /\ req'[p].body = call[p].alert
    BY <1>7, <2>2 DEF OpenRecord, Open, Entry, TypeOK, CallType
  <2>6. RecordingItsAlert'
    <3>1. call'[p].alert = call[p].alert
      BY <2>2, <2>3 DEF CallType
    <3> QED
      BY <2>5, <3>1 DEF RecordingItsAlert, CallAt
  <2> QED
    BY <1>1, <2>4, <2>6
<1>8. ASSUME NEW p \in Process, Recorded(p) PROVE RecordInv'
  <2>1. call[p] \in Call
    BY <1>8, CallAtType DEF Recorded, CallAt, InCall
  <2>2. PICK a \in Alert : a = call[p].alert
    BY <2>1 DEF Call
  <2>3. NewRow(p).hash = NoHash /\ NewRow(p).body = a
    BY <1>8, <2>2 DEF Recorded, RecordingItsAlert, NewRow, Chained
  <2>4. Records(table', a) # {}
    <3>1. NewRow(p) \in table'
      BY <1>8 DEF Recorded, Commit
    <3> QED
      BY <2>3, <3>1 DEF Records
  <2> DEFINE c == [call[p] EXCEPT !.pc = "responding"]
  <2>5. call' = [call EXCEPT ![p] = c] /\ UNCHANGED answered
    BY <1>8 DEF Recorded, Goto
  <2>6. c.pc = "responding" /\ c.alert = a
    BY <2>1, <2>2 DEF Call
  <2>7. PassedIsRecorded' /\ AnsweredIsRecorded'
    <3> HIDE DEF c
    <3>1. Records(table', c.alert) # {}
      BY <2>4, <2>6 DEF Records
    <3> QED
      BY <1>1, <2>5, <3>1, CallMoves
  <2>8. RecordingItsAlert'
    <3>1. \A q \in Process \ {p} : req'[q] = req[q] /\ call'[q] = call[q]
      BY <1>8, <2>5 DEF Recorded, Commit, TypeOK, CallType
    <3>2. call'[p].pc # "recording"
      BY <2>5, <2>6 DEF CallType
    <3> QED
      BY <3>1, <3>2 DEF RecordingItsAlert, CallAt
  <2> QED
    BY <1>1, <2>7, <2>8
<1>9. ASSUME NEW p \in Process, OpenLog(p) PROVE RecordInv'
  <2>1. call[p] \in Call
    BY <1>9, CallAtType DEF OpenLog, CallAt, InCall
  <2>2. PICK a \in Alert : a = call[p].alert
    BY <2>1 DEF Call
  <2>3. Records(table', a) # {}
    BY <1>1, <1>9, <2>2, RecordsStay DEF OpenLog, PassedIsRecorded
  <2> DEFINE c == [call[p] EXCEPT !.pc = "logging"]
  <2>4. call' = [call EXCEPT ![p] = c] /\ UNCHANGED answered
    BY <1>9 DEF OpenLog, Goto
  <2>5. c.pc = "logging" /\ c.alert = a
    BY <2>1, <2>2 DEF Call
  <2>6. PassedIsRecorded' /\ AnsweredIsRecorded'
    <3> HIDE DEF c
    <3>1. Records(table', c.alert) # {}
      BY <2>3, <2>5 DEF Records
    <3> QED
      BY <1>1, <2>4, <3>1, CallMoves
  <2>7. RecordingItsAlert'
    <3>1. \A q \in Process \ {p} : req'[q] = req[q] /\ call'[q] = call[q]
      BY <1>9, <2>4 DEF OpenLog, Open, TypeOK, CallType
    <3>2. call'[p].pc # "recording"
      BY <2>4, <2>5 DEF CallType
    <3> QED
      BY <3>1, <3>2 DEF RecordingItsAlert, CallAt
  <2> QED
    BY <1>1, <2>6, <2>7
<1>10. ASSUME NEW p \in Process, RecordFails(p) \/ Respond(p) PROVE RecordInv'
  <2>1. call' = [call EXCEPT ![p] = NoCall]
    BY <1>10 DEF RecordFails, Respond, EndCall
  <2>2. RecordingItsAlert'
    <3>1. \A q \in Process \ {p} : req'[q] = req[q] /\ call'[q] = call[q]
      BY <1>10, <2>1 DEF RecordFails, Respond, Commit, Collide, Rollback, TypeOK,
         CallType
    <3>2. call'[p].pc # "recording"
      BY <2>1 DEF CallType, NoCall
    <3> QED
      BY <3>1, <3>2 DEF RecordingItsAlert, CallAt
  <2>3. PassedIsRecorded'
    <3> SUFFICES ASSUME NEW q \in Process,
                        call'[q].pc \in {"responding", "logging"}
                 PROVE  Records(table', call'[q].alert) # {}
      BY DEF PassedIsRecorded, CallAt, Records
    <3>1. q # p /\ call'[q] = call[q]
      BY <2>1 DEF CallType, NoCall
    <3>2. PICK a : a = call[q].alert
      OBVIOUS
    <3>3. Records(table', a) # {}
      BY <1>1, <3>1, <3>2, RecordsStay DEF PassedIsRecorded, CallAt
    <3> QED
      BY <3>1, <3>2, <3>3 DEF Records
  <2>4. AnsweredIsRecorded'
    <3>1. ASSUME NEW a \in answered' PROVE Records(table, a) # {}
      BY <1>10, <3>1 DEF RecordFails, Respond, CallAt, PassedIsRecorded,
         AnsweredIsRecorded
    <3>2. ASSUME NEW a \in answered' PROVE Records(table', a) # {}
      BY <1>1, <3>1, <3>2, RecordsStay
    <3> QED
      BY <3>2 DEF AnsweredIsRecorded
  <2> QED
    BY <1>1, <2>2, <2>3, <2>4
<1> QED
  BY <1>2, <1>3, <1>4, <1>5, <1>6, <1>7, <1>8, <1>9, <1>10 DEF GateNext, Takedown

(* A client told that a takedown was submitted can find its record: the      *)
(* route commits it before it answers, and no later step removes it.         *)
THEOREM AnswersAreRecorded == GateSpec => []AnsweredIsRecorded
<1>1. GateInit => RecordInv
  BY DEF GateInit, RecordInv, CallType, RecordingItsAlert, PassedIsRecorded,
     AnsweredIsRecorded, CallAt, NoCall
<1>2. RecordInv => AnsweredIsRecorded
  BY DEF RecordInv
<1>3. GateSpec => []TypeOK
  BY GateUsesChain, TypeCorrect, PTL
<1> QED
  BY <1>1, <1>2, <1>3, RecordStep, PTL DEF GateSpec
=============================================================================
