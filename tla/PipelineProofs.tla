--------------------------- MODULE PipelineProofs ---------------------------
(***************************************************************************)
(* Sweeps and rechecks for any number of them, any suspects, any answers   *)
(* of the model, wherever exceptions and restarts strike: inspections are  *)
(* paid, evidence is chained while runs do not overlap, activations are    *)
(* genuine, alerts are backed and every loss is counted.                   *)
(***************************************************************************)
EXTENDS Pipeline, FiniteSetTheorems, WellFoundedInduction, TLAPS

---------------------------------------------------------------------------
(* The types of the tables and of a run. *)

Stage == {"idle", "list", "inspect", "read", "store", "score", "region", "verdict",
          "alert", "dispatch", "return", "recheck", "reread", "restore", "answer"}
Inspection == [suspect : Nat, ok : BOOLEAN, page : {"benign", "phish"}, at : Nat,
               kind : {"sweep", "recheck", "bomb"}, prev : Nat]
Job == [stage : Stage, list : Seq(Suspect), prior : Seq(Nat), pos : Nat \ {0},
        fresh : Inspection, done : Seq(Nat), cloaked : SUBSET Nat, alerted : Nat,
        errors : Nat, bombs : SUBSET Nat]

TablesOK ==
  /\ suspects \in 0..MaxSuspects
  /\ page \in [Suspect -> {"benign", "phish"}]
  /\ clock \in Nat
  /\ inspections \in Seq(Inspection)
  /\ \A i \in Row : inspections[i].at <= clock
  /\ minutes \in Nat
  /\ overlapped \in BOOLEAN

(* Where a run is in the loops over its suspects and over its inspections,  *)
(* and what kind of row it is about to store.                               *)
Placed(j) ==
  /\ j.stage \in {"inspect", "read", "store", "recheck", "reread", "restore"} =>
       j.pos <= Len(j.list)
  /\ j.stage \in {"recheck", "reread", "restore"} => Len(j.prior) = Len(j.list)
  /\ j.stage \in {"score", "region", "verdict", "alert", "dispatch"} => j.pos <= Len(j.done)
  /\ j.stage = "region" => j.pos = 1
  /\ j.stage = "list" => j = [Idle EXCEPT !.stage = "list"]
  /\ j.stage \in {"read", "store"} => j.fresh.kind = "sweep"
  /\ j.stage \in {"reread", "restore"} => j.fresh.kind # "sweep"

JobsOK ==
  /\ job \in [Proc -> Job]
  /\ \A p \in Proc : Placed(job[p]) /\ job[p].fresh.at <= clock

TypesInv == TablesOK /\ JobsOK

LEMMA IdleIsJob == Idle \in Job /\ Placed(Idle) /\ NoFresh \in Inspection
<1>1. NoFresh \in Inspection
  BY DEF NoFresh, Inspection
<1>2. Idle \in Job
  BY <1>1 DEF Idle, Job, Stage
<1> QED
  BY <1>1, <1>2 DEF Placed, Idle

(* Advance moves a run to the next element, the next phase or its end, and  *)
(* leaves the rest of it alone.                                             *)
Phase == {"inspect", "score", "verdict", "recheck"}
Items(j, phase) == IF phase \in {"inspect", "recheck"} THEN Len(j.list) ELSE Len(j.done)
Moved(j, stage, pos) == [j EXCEPT !.stage = stage, !.pos = pos, !.fresh = NoFresh]

LEMMA MovedIsJob ==
  ASSUME NEW j \in Job, NEW stage \in Stage, NEW pos \in Nat \ {0}
  PROVE  LET n == Moved(j, stage, pos)
         IN  /\ n \in Job /\ n.stage = stage /\ n.pos = pos /\ n.fresh = NoFresh
             /\ n.list = j.list /\ n.prior = j.prior /\ n.done = j.done
             /\ n.cloaked = j.cloaked /\ n.alerted = j.alerted /\ n.errors = j.errors
             /\ n.bombs = j.bombs
<1>1. Moved(j, stage, pos) \in Job
  BY IdleIsJob DEF Job, Moved
<1> QED
  BY <1>1 DEF Job, Moved

LEMMA AdvanceMoves ==
  ASSUME NEW j \in Job, NEW phase \in Phase
  PROVE  LET n == Advance(j, phase)
         IN  \/ /\ j.pos + 1 <= Items(j, phase)
                /\ n = Moved(j, phase, j.pos + 1)
             \/ /\ Items(j, phase) <= j.pos
                /\ phase # "recheck" /\ j.done = <<>>
                /\ n = Moved(j, "return", j.pos + 1)
             \/ /\ Items(j, phase) <= j.pos
                /\ (phase = "recheck" \/ j.done # <<>>)
                /\ n = Moved(j, Follows[phase], 1)
<1> DEFINE m == Moved(j, phase, j.pos + 1)
<1>1. j.pos \in Nat /\ j.pos + 1 \in Nat \ {0} /\ Phase \subseteq Stage
  BY DEF Job, Phase, Stage
<1>2. /\ m \in Job /\ m.stage = phase /\ m.pos = j.pos + 1 /\ m.fresh = NoFresh
      /\ m.done = j.done /\ m.list = j.list
  BY <1>1, MovedIsJob
<1>3. Extent(m) = Items(j, phase) /\ Items(j, phase) \in Nat
  BY <1>2 DEF Extent, Items, Job
<1>4. m = [j EXCEPT !.stage = phase, !.pos = @ + 1, !.fresh = NoFresh]
  BY DEF Moved
<1>5. Advance(j, phase) = IF m.pos <= Extent(m) THEN m
           ELSE IF phase # "recheck" /\ m.done = <<>> THEN [m EXCEPT !.stage = "return"]
           ELSE [m EXCEPT !.stage = Follows[phase], !.pos = 1]
  BY <1>4 DEF Advance
<1>6. [m EXCEPT !.stage = "return"] = Moved(j, "return", j.pos + 1)
  BY DEF Moved, Job
<1>7. [m EXCEPT !.stage = Follows[phase], !.pos = 1] = Moved(j, Follows[phase], 1)
  BY DEF Moved, Job
<1> HIDE DEF m
<1>8. Advance(j, phase) = IF j.pos + 1 <= Items(j, phase) THEN m
           ELSE IF phase # "recheck" /\ j.done = <<>> THEN Moved(j, "return", j.pos + 1)
           ELSE Moved(j, Follows[phase], 1)
  BY <1>2, <1>3, <1>5, <1>6, <1>7
<1> QED
  BY <1>1, <1>3, <1>8 DEF m

LEMMA AdvanceIsPlaced ==
  ASSUME NEW j \in Job, NEW phase \in Phase,
         phase = "recheck" => Len(j.prior) = Len(j.list)
  PROVE  Advance(j, phase) \in Job /\ Placed(Advance(j, phase))
<1>1. /\ j.pos \in Nat /\ j.pos + 1 \in Nat \ {0}
      /\ Phase \subseteq Stage /\ "return" \in Stage
  BY DEF Job, Phase, Stage
<1>2. CASE /\ j.pos + 1 <= Items(j, phase)
           /\ Advance(j, phase) = Moved(j, phase, j.pos + 1)
  <2> DEFINE n == Moved(j, phase, j.pos + 1)
  <2>1. /\ n \in Job /\ n.stage = phase /\ n.pos = j.pos + 1 /\ n.prior = j.prior
        /\ n.done = j.done /\ n.list = j.list
    BY <1>1, MovedIsJob
  <2> HIDE DEF n
  <2>2. Placed(n)
    BY <1>2, <2>1 DEF Placed, Items, Phase
  <2> QED
    BY <1>2, <2>1, <2>2 DEF n
<1>3. CASE Advance(j, phase) = Moved(j, "return", j.pos + 1)
  <2> DEFINE n == Moved(j, "return", j.pos + 1)
  <2>1. n \in Job /\ n.stage = "return"
    BY <1>1, MovedIsJob
  <2> HIDE DEF n
  <2> QED
    BY <1>3, <2>1 DEF Placed, n
<1>4. CASE /\ phase = "recheck" \/ j.done # <<>>
           /\ Advance(j, phase) = Moved(j, Follows[phase], 1)
  <2> DEFINE n == Moved(j, Follows[phase], 1)
  <2>1. /\ Follows[phase] \in {"score", "region", "return", "answer"}
        /\ Follows[phase] = "answer" <=> phase = "recheck"
        /\ Follows[phase] \in Stage
    BY DEF Phase, Follows, Stage
  <2>2. n \in Job /\ n.stage = Follows[phase] /\ n.pos = 1 /\ n.done = j.done
    BY <2>1, MovedIsJob
  <2>3. j.done # <<>> => 1 <= Len(j.done)
    BY DEF Job
  <2> HIDE DEF n
  <2>4. Placed(n)
    BY <1>4, <2>1, <2>2, <2>3 DEF Placed
  <2> QED
    BY <1>4, <2>2, <2>4 DEF n
<1> QED
  BY <1>2, <1>3, <1>4, AdvanceMoves

---------------------------------------------------------------------------
(* What a step makes of a run. *)

LEMMA NewestIsList ==
  ASSUME TablesOK, NEW n \in Nat
  PROVE  Newest(n) \in Seq(Suspect) /\ \A k \in 1..Len(Newest(n)) : Newest(n)[k] \in Suspect
<1> DEFINE m == IF suspects < n THEN suspects ELSE n
<1>1. m \in Nat /\ m <= suspects /\ suspects \in Nat /\ MaxSuspects \in Nat /\ suspects <= MaxSuspects
  BY BoundsAssumption DEF TablesOK
<1>2. Newest(n) = [k \in 1..m |-> suspects + 1 - k]
  BY DEF Newest
<1>3. \A k \in 1..m : suspects + 1 - k \in Suspect
  BY <1>1 DEF Suspect
<1> HIDE DEF m
<1> QED
  BY <1>1, <1>2, <1>3

LEMMA RenderedIsRow ==
  ASSUME TablesOK, NEW s \in Suspect, NEW ok \in BOOLEAN,
         NEW kind \in {"sweep", "recheck", "bomb"}
  PROVE  Rendered(s, ok, kind) \in Inspection /\ Rendered(s, ok, kind).kind = kind
<1>1. s \in Nat /\ page[s] \in {"benign", "phish"} /\ clock + 1 \in Nat
  BY BoundsAssumption DEF TablesOK, Suspect
<1> QED
  BY <1>1 DEF Rendered, Inspection

LEMMA LeastNumber ==
  ASSUME NEW D, D \subseteq Nat, D # {}
  PROVE  \E d \in D : \A k \in D : d <= k
<1>1. PICK d \in D : \A k \in D : <<k, d>> \notin OpToRel(<, Nat)
  BY WFMin, NatLessThanWellFounded, Zenon
<1>2. \A k \in D : ~(k < d)
  BY <1>1, Zenon DEF OpToRel
<1>3. \A k \in D : k \in Nat
  OBVIOUS
<1> QED
  BY <1>2, <1>3

(* The last row is a row, or 0 if there is none. *)
LEMMA LatestIsRow ==
  ASSUME TablesOK, NEW rows \in SUBSET Row
  PROVE  /\ rows = {} => LatestOf(rows) = 0
         /\ rows # {} => /\ LatestOf(rows) \in rows
                         /\ \A k \in rows : inspections[k].at <= inspections[LatestOf(rows)].at
         /\ LatestOf(rows) \in Nat
<1>1. CASE rows = {}
  BY <1>1 DEF LatestOf
<1>2. CASE rows # {}
  <2> DEFINE D == {clock - inspections[k].at : k \in rows}
  <2>1. /\ clock \in Nat
        /\ \A k \in rows : /\ k \in Nat /\ inspections[k].at \in Nat
                           /\ inspections[k].at <= clock
    <3>1. \A k \in rows : k \in Nat /\ inspections[k] \in Inspection
      BY DEF TablesOK, Row
    <3> QED
      BY <3>1 DEF TablesOK, Inspection
  <2>2. D \subseteq Nat /\ D # {}
    BY <1>2, <2>1
  <2>3. PICK d \in D : \A k \in D : d <= k
    <3> HIDE DEF D
    <3> QED
      BY <2>2, LeastNumber
  <2>4. PICK i \in rows : d = clock - inspections[i].at
    BY <2>3
  <2>5. \A k \in rows : inspections[k].at <= inspections[i].at
    <3> TAKE k \in rows
    <3>1. clock - inspections[i].at <= clock - inspections[k].at
      BY <2>3, <2>4
    <3> QED
      BY <2>1, <3>1
  <2>6. LatestOf(rows) = CHOOSE l \in rows : \A k \in rows : inspections[k].at <= inspections[l].at
    BY <1>2 DEF LatestOf
  <2> QED
    BY <1>2, <2>1, <2>5, <2>6
<1> QED
  BY <1>1, <1>2

(* A step gives its run a new state that is in its place again. *)
Fits(n) == n \in Job /\ Placed(n) /\ n.fresh.at <= clock'

LEMMA SweepStep ==
  ASSUME TypesInv, NEW p \in Proc,
         Sweep(p) \/ ListSuspects(p) \/ ReturnStats(p) \/ AnswerRecheck(p)
           \/ RecheckRaises(p) \/ Dies(p)
  PROVE  \E n : Fits(n) /\ Goes(p, n)
<1>1. clock' = clock /\ clock \in Nat
  BY DEF Sweep, ListSuspects, ReturnStats, AnswerRecheck, RecheckRaises, Dies, TypesInv, TablesOK
<1>2. Fits(Idle)
  <2>1. Idle.fresh.at = 0
    BY DEF Idle, NoFresh
  <2> QED
    BY <1>1, <2>1, IdleIsJob DEF Fits
<1>3. CASE Sweep(p)
  <2> DEFINE n == [Idle EXCEPT !.stage = "list"]
  <2>1. n \in Job /\ n.stage = "list" /\ n.fresh = NoFresh
    BY IdleIsJob DEF Idle, Job, Stage
  <2>2. NoFresh.at = 0
    BY DEF NoFresh
  <2>3. Goes(p, n)
    BY <1>3 DEF Sweep
  <2>4. Placed(n)
    BY <2>1 DEF Placed
  <2> HIDE DEF n
  <2> QED
    BY <1>1, <2>1, <2>2, <2>3, <2>4 DEF Fits
<1>4. CASE ListSuspects(p)
  <2> DEFINE l == Newest(MaxInspect)
             n == [job[p] EXCEPT !.list = l, !.stage = IF l = <<>> THEN "return" ELSE "inspect"]
  <2>1. Goes(p, n) /\ job[p].stage = "list"
    BY <1>4 DEF ListSuspects, At
  <2>2. job[p] = [Idle EXCEPT !.stage = "list"] /\ job[p] \in Job
    BY <2>1 DEF TypesInv, JobsOK, Placed
  <2>3. l \in Seq(Suspect)
    BY NewestIsList, BoundsAssumption DEF TypesInv
  <2>4. l # <<>> => 1 <= Len(l)
    BY <2>3
  <2> HIDE DEF l
  <2>5. n \in Job
    BY <2>2, <2>3 DEF Job, Stage
  <2>6. /\ n.list = l /\ n.pos = 1 /\ n.fresh = NoFresh
        /\ n.stage = IF l = <<>> THEN "return" ELSE "inspect"
    BY <2>2, IdleIsJob DEF Idle, Job
  <2>7. NoFresh.at = 0
    BY DEF NoFresh
  <2> HIDE DEF n
  <2>8. Placed(n)
    BY <2>4, <2>6 DEF Placed
  <2> QED
    BY <1>1, <2>1, <2>5, <2>6, <2>7, <2>8 DEF Fits
<1> QED
  BY <1>2, <1>3, <1>4 DEF ReturnStats, AnswerRecheck, RecheckRaises, Dies

LEMMA RenderStep ==
  ASSUME TypesInv, NEW p \in Proc, Inspect(p) \/ ReadLast(p)
  PROVE  \E n : Fits(n) /\ Goes(p, n)
<1>1. job[p] \in Job /\ Placed(job[p]) /\ job[p].fresh.at <= clock
  BY DEF TypesInv, JobsOK
<1>2. CASE Inspect(p)
  <2>1. PICK ok \in BOOLEAN :
          Goes(p, [job[p] EXCEPT !.stage = "read",
                                 !.fresh = Rendered(job[p].list[job[p].pos], ok, "sweep")])
    BY <1>2, Zenon DEF Inspect
  <2> DEFINE r == Rendered(job[p].list[job[p].pos], ok, "sweep")
             n == [job[p] EXCEPT !.stage = "read", !.fresh = r]
  <2>2. job[p].list[job[p].pos] \in Suspect /\ job[p].pos <= Len(job[p].list)
    <3>1. job[p].pos <= Len(job[p].list)
      BY <1>1, <1>2, Zenon DEF Inspect, At, Placed
    <3>2. job[p].list \in Seq(Suspect) /\ job[p].pos \in Nat \ {0}
      BY <1>1, SMTT(30) DEF Job
    <3> QED
      BY <3>1, <3>2
  <2>3. r \in Inspection /\ r.kind = "sweep"
    BY <2>2, RenderedIsRow DEF TypesInv
  <2>4. r.at = clock + 1 /\ clock' = clock + 1
    BY <1>2, Zenon DEF Rendered, Inspect
  <2> HIDE DEF r
  <2>5. n \in Job
    BY <1>1, <2>3 DEF Job, Stage
  <2>6. n.stage = "read" /\ n.fresh = r /\ n.list = job[p].list /\ n.pos = job[p].pos
    BY <1>1 DEF Job
  <2>7. clock + 1 <= clock + 1
    BY DEF TypesInv, TablesOK
  <2> HIDE DEF n
  <2>8. Placed(n)
    BY <2>2, <2>3, <2>6 DEF Placed
  <2> QED
    BY <2>1, <2>4, <2>5, <2>6, <2>7, <2>8 DEF Fits, n, r
<1>3. CASE ReadLast(p)
  <2> DEFINE stage == IF job[p].stage = "read" THEN "store" ELSE "restore"
             n == [job[p] EXCEPT !.stage = stage, !.fresh.prev = LastInspection]
  <2>1. /\ job[p].stage \in {"read", "reread"} /\ clock' = clock
        /\ Goes(p, n)
    BY <1>3 DEF ReadLast
  <2>2. LastInspection \in Nat
    BY LatestIsRow DEF LastInspection, TypesInv
  <2>3. stage \in Stage
    BY DEF Stage
  <2>4. /\ [job[p].fresh EXCEPT !.prev = LastInspection] \in Inspection
        /\ [job[p].fresh EXCEPT !.prev = LastInspection].kind = job[p].fresh.kind
        /\ [job[p].fresh EXCEPT !.prev = LastInspection].at = job[p].fresh.at
    BY <1>1, <2>2 DEF Job, Inspection
  <2>5. n \in Job
    BY <1>1, <2>3, <2>4 DEF Job
  <2>6. /\ n.stage = stage /\ n.fresh = [job[p].fresh EXCEPT !.prev = LastInspection]
        /\ n.list = job[p].list /\ n.pos = job[p].pos /\ n.prior = job[p].prior
    BY <1>1 DEF Job
  <2> HIDE DEF n
  <2>7. Placed(n)
    BY <1>1, <2>1, <2>4, <2>6 DEF Placed
  <2> QED
    BY <1>1, <2>1, <2>4, <2>5, <2>6, <2>7 DEF Fits
<1> QED
  BY <1>2, <1>3

(* The other steps of a sweep advance it, perhaps after noting something.   *)
LEMMA AdvanceFits ==
  ASSUME TypesInv, NEW j \in Job, NEW phase \in Phase,
         phase = "recheck" => Len(j.prior) = Len(j.list),
         clock' = clock \/ clock' = clock + 1
  PROVE  Fits(Advance(j, phase))
<1>1. /\ j.pos \in Nat /\ j.pos + 1 \in Nat \ {0}
      /\ Phase \subseteq Stage /\ "return" \in Stage /\ Follows[phase] \in Stage
  BY DEF Job, Phase, Stage, Follows
<1>2. Advance(j, phase).fresh = NoFresh
  <2>1. PICK stage \in Stage, pos \in Nat \ {0} : Advance(j, phase) = Moved(j, stage, pos)
    BY <1>1, AdvanceMoves
  <2> QED
    BY <2>1, MovedIsJob
<1>3. NoFresh.at = 0 /\ clock \in Nat
  BY DEF NoFresh, TypesInv, TablesOK
<1> QED
  BY <1>2, <1>3, AdvanceIsPlaced DEF Fits

LEMMA NotedIsJob ==
  ASSUME NEW j \in Job
  PROVE  /\ Erring(j) \in Job
         /\ [j EXCEPT !.alerted = @ + 1] \in Job
         /\ \A n \in Nat : [j EXCEPT !.done = Append(@, n)] \in Job
         /\ \A b \in SUBSET Nat : [j EXCEPT !.bombs = b] \in Job
<1>1. /\ j.errors + 1 \in Nat /\ j.alerted + 1 \in Nat
      /\ \A n \in Nat : Append(j.done, n) \in Seq(Nat)
  BY DEF Job
<1>2. Erring(j) \in Job
  <2>1. Erring(j) = [j EXCEPT !.errors = j.errors + 1]
    BY DEF Erring
  <2> QED
    BY <1>1, <2>1 DEF Job
<1>3. [j EXCEPT !.alerted = @ + 1] \in Job
  BY <1>1 DEF Job
<1>4. ASSUME NEW n \in Nat PROVE [j EXCEPT !.done = Append(@, n)] \in Job
  <2>1. Append(j.done, n) \in Seq(Nat)
    BY <1>1
  <2> QED
    BY <2>1 DEF Job
<1>5. ASSUME NEW b \in SUBSET Nat PROVE [j EXCEPT !.bombs = b] \in Job
  BY <1>5 DEF Job
<1> QED
  BY <1>2, <1>3, <1>4, <1>5

LEMMA WorkStep ==
  ASSUME TypesInv, NEW p \in Proc,
         Store(p) \/ InspectionFails(p) \/ Score(p) \/ ScoringSkipped(p) \/ ScoringFails(p)
           \/ VerdictSkipped(p) \/ Dispatch(p) \/ VerdictFails(p)
  PROVE  \E n : Fits(n) /\ Goes(p, n)
<1> DEFINE j == job[p]
<1>1. j \in Job /\ Placed(j) /\ clock' = clock
  BY DEF TypesInv, JobsOK, Store, InspectionFails, Score, ScoringSkipped, ScoringFails,
         VerdictSkipped, Dispatch, VerdictFails
<1>2. /\ Erring(j) \in Job
      /\ [j EXCEPT !.alerted = @ + 1] \in Job
      /\ \A n \in Nat : [j EXCEPT !.done = Append(@, n)] \in Job
  BY <1>1, NotedIsJob
<1>3. CASE Store(p)
  <2>1. Len(inspections') \in Nat
    BY <1>3 DEF Store, Chained, TypesInv, TablesOK
  <2> QED
    BY <1>1, <1>2, <1>3, <2>1, AdvanceFits DEF Store, Phase
<1>4. CASE InspectionFails(p)
  BY <1>1, <1>2, <1>4, AdvanceFits DEF InspectionFails, Phase
<1>5. CASE Score(p) \/ ScoringSkipped(p)
  BY <1>1, <1>5, AdvanceFits DEF Score, ScoringSkipped, Phase
<1>6. CASE ScoringFails(p)
  BY <1>1, <1>2, <1>6, AdvanceFits DEF ScoringFails, Phase
<1>7. CASE VerdictSkipped(p)
  BY <1>1, <1>7, AdvanceFits DEF VerdictSkipped, Phase
<1>8. CASE Dispatch(p)
  BY <1>1, <1>2, <1>8, AdvanceFits DEF Dispatch, Phase
<1>9. CASE VerdictFails(p)
  BY <1>1, <1>2, <1>9, AdvanceFits DEF VerdictFails, Phase
<1> QED
  BY <1>3, <1>4, <1>5, <1>6, <1>7, <1>8, <1>9

LEMMA JudgeStep ==
  ASSUME TypesInv, NEW p \in Proc, Regions(p) \/ Decide(p) \/ CreateAlert(p)
  PROVE  \E n : Fits(n) /\ Goes(p, n)
<1> DEFINE j == job[p]
<1>1. j \in Job /\ Placed(j) /\ j.fresh.at <= clock /\ clock' = clock
  BY Zenon DEF TypesInv, JobsOK, Regions, Decide, CreateAlert
<1>2. ASSUME NEW stage \in {"verdict", "alert", "dispatch"}, NEW found \in SUBSET Nat,
             NEW n, j.pos <= Len(j.done),
             n = [j EXCEPT !.cloaked = found, !.stage = stage]
                \/ n = [j EXCEPT !.stage = stage]
      PROVE  Fits(n)
  <2>1. n \in Job
    BY <1>1, <1>2 DEF Job, Stage
  <2>2. n.stage = stage /\ n.fresh = j.fresh /\ n.pos = j.pos /\ n.done = j.done
    BY <1>1, <1>2 DEF Job
  <2>3. Placed(n)
    BY <1>2, <2>2, SMTT(30) DEF Placed
  <2> QED
    BY <1>1, <2>1, <2>2, <2>3 DEF Fits
<1>3. CASE Regions(p)
  <2>1. PICK found \in SUBSET {j.done[k] : k \in DOMAIN j.done} :
          Goes(p, [j EXCEPT !.cloaked = found, !.stage = "verdict"])
    BY <1>3, Zenon DEF Regions
  <2>2. found \in SUBSET Nat
    BY <1>1 DEF Job
  <2>3. j.pos <= Len(j.done)
    BY <1>1, <1>3, Zenon DEF Regions, At, Placed
  <2> QED
    BY <1>2, <2>1, <2>2, <2>3, Zenon
<1>4. CASE Decide(p)
  <2>1. j.pos <= Len(j.done)
    BY <1>1, <1>4, SMTT(30) DEF Decide, At, Placed
  <2>2. CASE Goes(p, [j EXCEPT !.stage = "alert"])
    BY <1>2, <2>1, <2>2, Zenon
  <2>3. CASE Goes(p, Advance(j, "verdict"))
    BY <1>1, <2>3, AdvanceFits, SMTT(30) DEF Phase
  <2> QED
    BY <1>4, <2>2, <2>3 DEF Decide
<1>5. CASE CreateAlert(p)
  <2>1. j.pos <= Len(j.done)
    BY <1>1, <1>5 DEF CreateAlert, At, Placed
  <2> QED
    BY <1>2, <1>5, <2>1, Zenon DEF CreateAlert
<1> QED
  BY <1>3, <1>4, <1>5

LEMMA RecheckStep ==
  ASSUME TypesInv, NEW p \in Proc, Recheck(p) \/ Reinspect(p) \/ StoreReinspection(p)
  PROVE  \E n : Fits(n) /\ Goes(p, n)
<1> DEFINE j == job[p]
<1>1. j \in Job /\ Placed(j) /\ j.fresh.at <= clock /\ clock \in Nat
  BY DEF TypesInv, JobsOK, TablesOK
<1>2. CASE Recheck(p)
  <2> DEFINE l == Newest(MaxInspect)
             prior == [k \in DOMAIN l |-> PriorInspection(l[k])]
             stage == IF l = <<>> THEN "answer" ELSE "recheck"
             n == [Idle EXCEPT !.list = l, !.prior = prior, !.stage = stage]
  <2>1. Goes(p, n) /\ clock' = clock
    BY <1>2 DEF Recheck
  <2>2. l \in Seq(Suspect)
    BY NewestIsList, BoundsAssumption DEF TypesInv
  <2>3. \A k \in DOMAIN l : PriorInspection(l[k]) \in Nat
    BY LatestIsRow DEF PriorInspection, TypesInv
  <2>4. l # <<>> => 1 <= Len(l)
    BY <2>2
  <2>5. prior \in Seq(Nat) /\ Len(prior) = Len(l)
    <3> HIDE DEF l
    <3> QED
      BY <2>2, <2>3
  <2>6. stage \in Stage
    BY DEF Stage
  <2> HIDE DEF l, prior
  <2>7. n \in Job
    BY <2>2, <2>5, <2>6, IdleIsJob, Zenon DEF Job
  <2>8. n.list = l /\ n.prior = prior /\ n.stage = stage /\ n.pos = 1 /\ n.fresh = NoFresh
    BY IdleIsJob DEF Idle, Job
  <2>9. NoFresh.at = 0
    BY DEF NoFresh
  <2> HIDE DEF n
  <2>10. Placed(n)
    BY <2>4, <2>5, <2>8 DEF Placed
  <2> QED
    BY <1>1, <2>1, <2>7, <2>8, <2>9, <2>10 DEF Fits
<1>3. CASE Reinspect(p)
  <2> DEFINE s == j.list[j.pos]
             i == j.prior[j.pos]
             kind == IF TimeBomb(i, s) THEN "bomb" ELSE "recheck"
             r == Rendered(s, TRUE, kind)
             n == [j EXCEPT !.stage = "reread", !.fresh = r]
  <2>1. /\ Len(j.prior) = Len(j.list) /\ j.pos <= Len(j.list)
    BY <1>1, <1>3, Zenon DEF Reinspect, At, Placed
  <2>2. clock' = clock \/ clock' = clock + 1
    BY <1>3, Zenon DEF Reinspect
  <2>3. \/ Goes(p, Advance(j, "recheck"))
        \/ Goes(p, n) /\ clock' = clock + 1
    BY <1>3, Zenon DEF Reinspect
  <2>4. Fits(Advance(j, "recheck"))
    BY <1>1, <2>1, <2>2, AdvanceFits DEF Phase
  <2>5. s \in Suspect
    BY <1>1, <2>1 DEF Job
  <2>6. r \in Inspection /\ r.kind = kind /\ r.at = clock + 1
    BY <2>5, RenderedIsRow DEF TypesInv, Rendered
  <2> HIDE DEF s, i, r
  <2>7. n \in Job
    <3> HIDE DEF kind
    <3>1. "reread" \in Stage
      BY DEF Stage
    <3> QED
      BY <1>1, <2>6, <3>1 DEF Job
  <2>8. /\ n.stage = "reread" /\ n.fresh = r
        /\ n.list = j.list /\ n.pos = j.pos /\ n.prior = j.prior
    BY <1>1 DEF Job
  <2>9. kind # "sweep"
    OBVIOUS
  <2> HIDE DEF n, kind
  <2>10. Placed(n)
    BY <2>1, <2>6, <2>8, <2>9 DEF Placed
  <2>11. ASSUME clock' = clock + 1
         PROVE  Fits(n)
    <3>1. n.fresh.at = clock + 1 /\ clock + 1 <= clock + 1
      BY <1>1, <2>6, <2>8
    <3> QED
      <4>1. n.fresh.at <= clock'
        BY <2>11, <3>1
      <4> QED
        BY <2>7, <2>10, <4>1 DEF Fits
  <2> QED
    BY <2>3, <2>4, <2>11 DEF n, r
<1>4. CASE StoreReinspection(p)
  <2>1. /\ Len(j.prior) = Len(j.list) /\ clock' = clock
    BY <1>1, <1>4 DEF StoreReinspection, At, Placed
  <2>2. Len(inspections') \in Nat
    BY <1>4 DEF StoreReinspection, Chained, TypesInv, TablesOK
  <2> DEFINE noted == IF j.fresh.kind = "bomb" THEN j.bombs \cup {Len(inspections')} ELSE j.bombs
             m == [j EXCEPT !.bombs = noted]
  <2>3. Goes(p, Advance(m, "recheck"))
    BY <1>4 DEF StoreReinspection
  <2>4. noted \in SUBSET Nat
    BY <1>1, <2>2 DEF Job
  <2>5. m \in Job /\ m.prior = j.prior /\ m.list = j.list
    <3> HIDE DEF noted
    <3> QED
      BY <1>1, <2>4 DEF Job
  <2> HIDE DEF m
  <2> QED
    BY <2>1, <2>3, <2>5, AdvanceFits DEF Phase
<1> QED
  BY <1>2, <1>3, <1>4

LEMMA StepFits ==
  ASSUME TypesInv, NEW p \in Proc, Runs(p)
  PROVE  \E n : Fits(n) /\ Goes(p, n)
BY SweepStep, RenderStep, WorkStep, JudgeStep, RecheckStep DEF Runs

(* What a step makes of the tables: a row is only ever added, by the run    *)
(* that was about to store it, and that of a sweep together with its minute.*)
Adds(p, stage) ==
  /\ job[p].stage = stage
  /\ inspections' = Append(inspections, job[p].fresh)

StoresRow(p) ==
  \/ inspections' = inspections /\ minutes' = minutes
  \/ Adds(p, "store") /\ minutes' = minutes + 1
  \/ Adds(p, "restore") /\ minutes' = minutes

LEMMA TablesStep ==
  ASSUME TypesInv, NEW p \in Proc, Runs(p)
  PROVE  /\ StoresRow(p)
         /\ clock' = clock \/ clock' = clock + 1
         /\ suspects' \in 0..MaxSuspects
         /\ page' = page
         /\ overlapped' \in BOOLEAN
<1>1. suspects \in 0..MaxSuspects /\ MaxSuspects \in Nat /\ overlapped \in BOOLEAN
  BY BoundsAssumption DEF TypesInv, TablesOK
<1>2. CASE Sweep(p)
  <2>1. PICK n \in 0..(MaxSuspects - suspects) : suspects' = suspects + n
    BY <1>2 DEF Sweep
  <2> QED
    BY <1>1, <1>2, <2>1 DEF Sweep, Started, StoresRow, tables, sites
<1>3. CASE Recheck(p)
  BY <1>1, <1>3 DEF Recheck, Started, StoresRow, tables, sites
<1>4. CASE Store(p)
  BY <1>1, <1>4 DEF Store, Chained, At, Stays, StoresRow, Adds, sites
<1>5. CASE StoreReinspection(p)
  BY <1>1, <1>5 DEF StoreReinspection, Chained, At, Stays, StoresRow, Adds, sites
<1>6. CASE ListSuspects(p) \/ Inspect(p) \/ ReadLast(p) \/ ScoringSkipped(p) \/ Regions(p)
             \/ VerdictSkipped(p) \/ Dispatch(p) \/ ReturnStats(p) \/ Reinspect(p) \/ AnswerRecheck(p)
  BY <1>1, <1>6, Zenon DEF ListSuspects, Inspect, ReadLast, ScoringSkipped, Regions, VerdictSkipped,
     Dispatch, ReturnStats, Reinspect, AnswerRecheck, At, Stays, StoresRow, tables, sites
<1>7. CASE InspectionFails(p) \/ ScoringFails(p) \/ VerdictFails(p) \/ RecheckRaises(p) \/ Dies(p)
  BY <1>1, <1>7 DEF InspectionFails, ScoringFails, VerdictFails, RecheckRaises, Dies,
     Breaks, StoresRow, tables, sites
<1>8. CASE Score(p) \/ Decide(p) \/ CreateAlert(p)
  BY <1>1, <1>8 DEF Score, Decide, CreateAlert, At, Stays, StoresRow, sites
<1> QED
  BY <1>2, <1>3, <1>4, <1>5, <1>6, <1>7, <1>8 DEF Runs

LEMMA RowsStand ==
  ASSUME TypesInv, NEW p \in Proc, StoresRow(p)
  PROVE  /\ inspections' \in Seq(Inspection)
         /\ \A i \in Row : i \in Row' /\ inspections'[i] = inspections[i]
         /\ \/ inspections' = inspections /\ Row' = Row
            \/ /\ job[p].stage \in {"store", "restore"}
               /\ Row' = Row \cup {Len(inspections) + 1}
               /\ Len(inspections') = Len(inspections) + 1
               /\ inspections'[Len(inspections) + 1] = job[p].fresh
<1>1. inspections \in Seq(Inspection) /\ job[p].fresh \in Inspection
  BY DEF TypesInv, TablesOK, JobsOK, Job
<1>2. CASE inspections' = inspections
  BY <1>1, <1>2 DEF Row
<1>3. CASE Adds(p, "store") \/ Adds(p, "restore")
  <2>1. inspections' = Append(inspections, job[p].fresh) /\ Len(inspections) \in Nat
    BY <1>1, <1>3 DEF Adds
  <2>2. /\ inspections' \in Seq(Inspection)
        /\ Len(inspections') = Len(inspections) + 1
        /\ \A i \in 1..Len(inspections) : inspections'[i] = inspections[i]
        /\ inspections'[Len(inspections) + 1] = job[p].fresh
    BY <1>1, <2>1
  <2>3. 1..(Len(inspections) + 1) = 1..Len(inspections) \cup {Len(inspections) + 1}
    BY <2>1
  <2> QED
    BY <1>3, <2>2, <2>3 DEF Row, Adds
<1> QED
  BY <1>2, <1>3 DEF StoresRow

LEMMA StepKeepsTypes == TypesInv /\ [Next]_vars => TypesInv'
<1> SUFFICES ASSUME TypesInv, [Next]_vars PROVE TypesInv'
  OBVIOUS
<1>1. ASSUME NEW p \in Proc, Runs(p)
      PROVE  TypesInv'
  <2>1. PICK n : Fits(n) /\ Goes(p, n)
    BY <1>1, StepFits
  <2>2. /\ StoresRow(p) /\ suspects' \in 0..MaxSuspects /\ page' = page /\ overlapped' \in BOOLEAN
        /\ clock' = clock \/ clock' = clock + 1
    BY <1>1, TablesStep
  <2>3. clock \in Nat /\ clock' \in Nat /\ clock <= clock'
    BY <2>2 DEF TypesInv, TablesOK
  <2>4. JobsOK'
    <3>1. /\ job' \in [Proc -> Job] /\ job'[p] = n
          /\ \A q \in Proc : q # p => job'[q] = job[q]
      BY <2>1 DEF Fits, Goes, TypesInv, JobsOK
    <3>2. ASSUME NEW q \in Proc PROVE (Placed(job[q]) /\ job[q].fresh.at <= clock)'
      <4>1. CASE q = p
        <5>1. Placed(n) /\ n.fresh.at <= clock'
          BY <2>1 DEF Fits
        <5> QED
          BY <3>1, <4>1, <5>1 DEF Placed
      <4>2. CASE q # p
        <5>1. Placed(job[q]) /\ job[q].fresh.at <= clock /\ job[q].fresh.at \in Nat
          BY DEF TypesInv, JobsOK, Job, Inspection
        <5> QED
          BY <2>3, <3>1, <4>2, <5>1 DEF Placed
      <4> QED
        BY <4>1, <4>2
    <3> QED
      BY <3>1, <3>2 DEF JobsOK
  <2>5. (\A i \in Row : inspections[i].at <= clock)'
    <3>1. \A i \in Row : inspections[i].at <= clock /\ inspections[i].at \in Nat
      <4>1. \A i \in Row : inspections[i] \in Inspection /\ inspections[i].at <= clock
        BY DEF TypesInv, TablesOK, Row
      <4> QED
        BY <4>1 DEF Inspection
    <3>2. job[p].fresh.at <= clock /\ job[p].fresh.at \in Nat
      BY DEF TypesInv, JobsOK, Job, Inspection
    <3> QED
      BY <2>2, <2>3, <3>1, <3>2, RowsStand
  <2>6. minutes' \in Nat
    BY <2>2 DEF StoresRow, TypesInv, TablesOK
  <2>7. inspections' \in Seq(Inspection)
    BY <2>2, RowsStand
  <2> QED
    BY <2>2, <2>3, <2>4, <2>5, <2>6, <2>7 DEF TypesInv, TablesOK
<1>2. ASSUME NEW s \in Armed, FlipPage(s)
      PROVE  TypesInv'
  <2>1. page' \in [Suspect -> {"benign", "phish"}]
    BY <1>2 DEF FlipPage, TypesInv, TablesOK
  <2>2. UNCHANGED <<suspects, clock, inspections, minutes, job, overlapped>>
    BY <1>2 DEF FlipPage, Stays, tables
  <2> QED
    BY <2>1, <2>2 DEF TypesInv, TablesOK, JobsOK, Placed, Row
<1>3. CASE UNCHANGED vars
  BY <1>3 DEF TypesInv, TablesOK, JobsOK, Placed, Row, vars, sites, tables
<1> QED
  BY <1>1, <1>2, <1>3 DEF Next

LEMMA InitTypes == Init => TypesInv
<1> SUFFICES ASSUME Init PROVE TypesInv
  OBVIOUS
<1>1. TablesOK
  <2>1. Row = {} /\ MaxSuspects \in Nat
    BY BoundsAssumption DEF Init, Row
  <2>2. page \in [Suspect -> {"benign", "phish"}]
    BY DEF Init
  <2>3. inspections \in Seq(Inspection)
    BY DEF Init
  <2>4. suspects \in 0..MaxSuspects /\ clock \in Nat /\ minutes \in Nat
    BY <2>1 DEF Init
  <2>5. overlapped \in BOOLEAN
    BY DEF Init
  <2> QED
    BY <2>1, <2>2, <2>3, <2>4, <2>5 DEF TablesOK
<1>2. Idle.fresh.at = 0
  BY DEF Idle, NoFresh
<1> QED
  BY <1>1, <1>2, IdleIsJob DEF Init, TypesInv, JobsOK

(* TypesCorrect: tables and runs keep their types, a run is always inside   *)
(* the list its phase iterates over, and no row or rendering is dated after *)
(* the clock (src/common/pipeline.py, src/inspection/diff_detector.py).     *)
THEOREM TypesCorrect == Spec => []TypesInv
BY InitTypes, StepKeepsTypes, PTL DEF Spec

---------------------------------------------------------------------------
(* Inspections are paid. *)

SweepRows == {i \in Row : inspections[i].kind = "sweep"}

LEMMA StepPays == TypesInv /\ InspectionsArePaid /\ [Next]_vars => InspectionsArePaid'
<1> SUFFICES ASSUME TypesInv, InspectionsArePaid, [Next]_vars PROVE InspectionsArePaid'
  OBVIOUS
<1>1. minutes = Cardinality(SweepRows) /\ IsFiniteSet(SweepRows)
  <2>1. IsFiniteSet(Row)
    BY FS_Interval DEF Row, TypesInv, TablesOK
  <2> QED
    BY <2>1, FS_Subset DEF SweepRows, InspectionsArePaid
<1>2. ASSUME NEW p \in Proc, Runs(p)
      PROVE  InspectionsArePaid'
  <2>1. StoresRow(p)
    BY <1>2, TablesStep
  <2>2. /\ Placed(job[p]) /\ \A i \in Row : inspections'[i] = inspections[i]
        /\ Len(inspections) + 1 \notin Row
    BY <2>1, RowsStand DEF TypesInv, TablesOK, JobsOK, Row
  <2>3. CASE Adds(p, "store") /\ minutes' = minutes + 1
    <3>1. job[p].fresh.kind = "sweep"
      BY <2>2, <2>3 DEF Placed, Adds
    <3>2. Row' = Row \cup {Len(inspections) + 1} /\ inspections'[Len(inspections) + 1] = job[p].fresh
      BY <2>1, <2>3, RowsStand DEF Adds, TypesInv, TablesOK
    <3>3. SweepRows' = SweepRows \cup {Len(inspections) + 1} /\ Len(inspections) + 1 \notin SweepRows
      BY <2>2, <3>1, <3>2 DEF SweepRows
    <3>4. Cardinality(SweepRows') = Cardinality(SweepRows) + 1
      BY <1>1, <3>3, FS_AddElement
    <3> QED
      BY <1>1, <2>3, <3>4 DEF InspectionsArePaid, SweepRows
  <2>4. CASE Adds(p, "restore") /\ minutes' = minutes
    <3>1. job[p].fresh.kind # "sweep"
      BY <2>2, <2>4 DEF Placed, Adds
    <3>2. \/ Row' = Row
          \/ /\ Row' = Row \cup {Len(inspections) + 1}
             /\ inspections'[Len(inspections) + 1] = job[p].fresh
      BY <2>1, RowsStand
    <3>3. SweepRows' = SweepRows
      BY <2>2, <3>1, <3>2 DEF SweepRows
    <3> QED
      BY <1>1, <2>4, <3>3 DEF InspectionsArePaid, SweepRows
  <2>5. CASE inspections' = inspections /\ minutes' = minutes
    BY <2>5 DEF InspectionsArePaid, Row
  <2> QED
    BY <2>1, <2>3, <2>4, <2>5 DEF StoresRow
<1>3. CASE UNCHANGED <<inspections, minutes>>
  BY <1>3 DEF InspectionsArePaid, Row
<1> QED
  BY <1>2, <1>3 DEF Next, FlipPage, vars, tables

(* EveryInspectionPaid: for any number of runs, exceptions and restarts,    *)
(* the billed browser minutes are exactly the inspections that sweeps       *)
(* committed (src/common/pipeline.py, one transaction for both).            *)
THEOREM EveryInspectionPaid == Spec => []InspectionsArePaid
<1>1. Init => InspectionsArePaid
  <2> SUFFICES ASSUME Init PROVE InspectionsArePaid
    OBVIOUS
  <2>1. {i \in Row : inspections[i].kind = "sweep"} = {} /\ minutes = 0
    BY DEF Init, Row
  <2> QED
    BY <2>1, FS_EmptySet DEF InspectionsArePaid
<1> QED
  BY <1>1, StepPays, TypesCorrect, PTL DEF Spec

---------------------------------------------------------------------------
(* Evidence is chained. *)

(* While no two runs overlapped: the one that rendered a page has dated it  *)
(* after every row, and the one that read the chain's end still holds it.   *)
Rendering(j) == j.stage \in {"read", "store", "reread", "restore"}

ChainInv ==
  ~overlapped =>
    /\ \A p, q \in Proc : job[p].stage # "idle" /\ job[q].stage # "idle" => p = q
    /\ \A i \in Row : inspections[i].prev = i - 1
    /\ \A i, k \in Row : i < k => inspections[i].at < inspections[k].at
    /\ \A p \in Proc :
         /\ Rendering(job[p]) => \A i \in Row : inspections[i].at < job[p].fresh.at
         /\ job[p].stage \in {"store", "restore"} => job[p].fresh.prev = Len(inspections)

LEMMA AdvanceStage ==
  ASSUME NEW j \in Job, NEW phase \in Phase
  PROVE  Advance(j, phase).stage \in {phase, "return", Follows[phase]}
<1>1. /\ j.pos + 1 \in Nat \ {0}
      /\ phase \in Stage /\ "return" \in Stage /\ Follows[phase] \in Stage
  BY DEF Job, Phase, Stage, Follows
<1>2. \A stage \in Stage, pos \in Nat \ {0} : Moved(j, stage, pos).stage = stage
  BY MovedIsJob
<1> QED
  BY <1>1, <1>2, AdvanceMoves

LEMMA LastIsLatest ==
  ASSUME TypesInv, \A i, k \in Row : i < k => inspections[i].at < inspections[k].at
  PROVE  LastInspection = Len(inspections)
<1>1. Len(inspections) \in Nat /\ Row = 1..Len(inspections)
  BY DEF TypesInv, TablesOK, Row
<1>2. CASE Row = {}
  <2>1. Len(inspections) = 0
    BY <1>1, <1>2
  <2> QED
    BY <1>2, <2>1, LatestIsRow DEF LastInspection, TypesInv
<1>3. CASE Row # {}
  <2>1. /\ LastInspection \in Row
        /\ \A k \in Row : inspections[k].at <= inspections[LastInspection].at
    BY <1>3, LatestIsRow DEF LastInspection, TypesInv
  <2>2. Len(inspections) \in Row /\ LastInspection <= Len(inspections)
    BY <1>1, <2>1
  <2>3. \A k \in Row : inspections[k].at \in Nat
    <3>1. \A k \in Row : inspections[k] \in Inspection
      BY DEF TypesInv, TablesOK, Row
    <3> QED
      BY <3>1 DEF Inspection
  <2>4. ~(LastInspection < Len(inspections))
    BY <2>1, <2>2, <2>3
  <2> QED
    BY <1>1, <2>1, <2>2, <2>4
<1> QED
  BY <1>2, <1>3

(* How a run comes to hold a rendering, and the end of the chain.           *)
Renders(p) ==
  /\ job'[p].stage \in {"read", "reread"}
  /\ job'[p].fresh.at = clock + 1

Reads(p) ==
  /\ job[p].stage \in {"read", "reread"}
  /\ job'[p].fresh.at = job[p].fresh.at
  /\ job'[p].fresh.prev = LastInspection

LEMMA AdvanceLeaves ==
  ASSUME TypesInv, NEW p \in Proc, NEW j \in Job, NEW phase \in Phase, Goes(p, Advance(j, phase))
  PROVE  ~Rendering(job'[p])
<1>1. job'[p] = Advance(j, phase)
  BY DEF Goes, TypesInv, JobsOK
<1> QED
  BY <1>1, AdvanceStage DEF Rendering, Phase, Follows

LEMMA RenderingStep ==
  ASSUME TypesInv, NEW p \in Proc, Runs(p), Rendering(job'[p])
  PROVE  inspections' = inspections /\ (Renders(p) \/ Reads(p))
<1> DEFINE j == job[p]
<1>1. /\ j \in Job /\ job \in [Proc -> Job] /\ Phase = {"inspect", "score", "verdict", "recheck"}
      /\ \A n : Goes(p, n) => job'[p] = n
  BY DEF TypesInv, JobsOK, Goes, Phase
<1>2. ~Rendering(Idle) /\ Idle.stage = "idle"
  BY DEF Idle, Rendering
<1>3. /\ Erring(j) \in Job
      /\ [j EXCEPT !.alerted = @ + 1] \in Job
      /\ \A n \in Nat : [j EXCEPT !.done = Append(@, n)] \in Job
      /\ \A b \in SUBSET Nat : [j EXCEPT !.bombs = b] \in Job
  BY <1>1, NotedIsJob
<1>4. ~(Sweep(p) \/ ListSuspects(p) \/ Recheck(p))
  <2>1. CASE Sweep(p)
    <3>1. job'[p] = [Idle EXCEPT !.stage = "list"]
      BY <1>1, <2>1 DEF Sweep
    <3> QED
      BY <3>1 DEF Rendering, Idle
  <2>2. CASE ListSuspects(p)
    <3>1. job'[p].stage \in {"return", "inspect"}
      BY <1>1, <2>2 DEF ListSuspects, Job
    <3> QED
      BY <3>1 DEF Rendering
  <2>3. CASE Recheck(p)
    <3>1. job'[p].stage \in {"answer", "recheck"}
      BY <1>1, <2>3 DEF Recheck, Idle
    <3> QED
      BY <3>1 DEF Rendering
  <2> QED
    BY <2>1, <2>2, <2>3
<1>5. ~(ReturnStats(p) \/ AnswerRecheck(p) \/ RecheckRaises(p) \/ Dies(p))
  BY <1>1, <1>2 DEF ReturnStats, AnswerRecheck, RecheckRaises, Dies
<1>6. ~(Store(p) \/ StoreReinspection(p))
  <2>1. Len(inspections) \in Nat /\ Len(Append(inspections, j.fresh)) \in Nat
    BY DEF TypesInv, TablesOK
  <2>2. CASE Store(p)
    BY <1>1, <1>3, <2>1, <2>2, AdvanceLeaves DEF Store, Chained
  <2>3. CASE StoreReinspection(p)
    <3> DEFINE b == IF j.fresh.kind = "bomb" THEN j.bombs \cup {Len(inspections')} ELSE j.bombs
    <3>1. b \in SUBSET Nat
      BY <1>1, <2>1, <2>3 DEF StoreReinspection, Chained, Job
    <3>2. Goes(p, Advance([j EXCEPT !.bombs = b], "recheck"))
      BY <2>3 DEF StoreReinspection
    <3> QED
      BY <1>1, <1>3, <3>1, <3>2, AdvanceLeaves
  <2> QED
    BY <2>2, <2>3
<1>7. ~(InspectionFails(p) \/ ScoringFails(p) \/ VerdictFails(p) \/ Score(p) \/ ScoringSkipped(p)
          \/ VerdictSkipped(p) \/ Dispatch(p))
  BY <1>1, <1>3, AdvanceLeaves DEF InspectionFails, ScoringFails, VerdictFails, Score,
     ScoringSkipped, VerdictSkipped, Dispatch
<1>8. ~(Regions(p) \/ Decide(p) \/ CreateAlert(p))
  <2>1. CASE Regions(p)
    <3>1. job'[p].stage = "verdict"
      BY <1>1, <2>1 DEF Regions, Job
    <3> QED
      BY <3>1 DEF Rendering
  <2>2. CASE Decide(p)
    <3>1. Goes(p, [j EXCEPT !.stage = "alert"]) \/ Goes(p, Advance(j, "verdict"))
      BY <2>2 DEF Decide
    <3>2. [j EXCEPT !.stage = "alert"].stage = "alert"
      BY <1>1 DEF Job
    <3> QED
      BY <1>1, <3>1, <3>2, AdvanceLeaves DEF Rendering
  <2>3. CASE CreateAlert(p)
    <3>1. job'[p].stage = "dispatch"
      BY <1>1, <2>3 DEF CreateAlert, Job
    <3> QED
      BY <3>1 DEF Rendering
  <2> QED
    BY <2>1, <2>2, <2>3
<1>9. CASE Inspect(p)
  <2>1. PICK s, ok : job'[p] = [j EXCEPT !.stage = "read", !.fresh = Rendered(s, ok, "sweep")]
    BY <1>1, <1>9, Zenon DEF Inspect
  <2>2. Rendered(s, ok, "sweep").at = clock + 1
    BY DEF Rendered
  <2> QED
    BY <1>1, <1>9, <2>1, <2>2 DEF Inspect, Renders, Job, tables
<1>10. CASE Reinspect(p)
  <2>1. CASE Goes(p, Advance(j, "recheck"))
    BY <1>1, <2>1, AdvanceLeaves
  <2>2. CASE \E s, kind : Goes(p, [j EXCEPT !.stage = "reread", !.fresh = Rendered(s, TRUE, kind)])
    <3>1. PICK s, kind : job'[p] = [j EXCEPT !.stage = "reread", !.fresh = Rendered(s, TRUE, kind)]
      BY <1>1, <2>2, Zenon
    <3> DEFINE r == Rendered(s, TRUE, kind)
    <3>2. r.at = clock + 1
      BY DEF Rendered
    <3> HIDE DEF r
    <3>3. job'[p] = [j EXCEPT !.stage = "reread", !.fresh = r]
      BY <3>1 DEF r
    <3> QED
      BY <1>1, <1>10, <3>2, <3>3 DEF Reinspect, Renders, Job, tables
  <2> QED
    BY <1>10, <2>1, <2>2, Zenon DEF Reinspect
<1>11. CASE ReadLast(p)
  <2>1. job'[p].fresh = [j.fresh EXCEPT !.prev = LastInspection]
    BY <1>1, <1>11 DEF ReadLast, Job
  <2>2. j.fresh \in Inspection
    BY <1>1 DEF Job
  <2>3. job'[p].fresh.at = j.fresh.at /\ job'[p].fresh.prev = LastInspection
    BY <2>1, <2>2 DEF Inspection
  <2> QED
    BY <1>11, <2>3 DEF ReadLast, Reads, tables
<1> QED
  BY <1>4, <1>5, <1>6, <1>7, <1>8, <1>9, <1>10, <1>11 DEF Runs

(* A step that overlaps no other run is that of the only run there is.      *)
LEMMA StepAlone ==
  ASSUME ChainInv, NEW p \in Proc, Runs(p), ~overlapped'
  PROVE  ~overlapped /\ \A q \in Proc : q # p => job[q].stage = "idle"
<1>1. CASE Sweep(p) \/ Recheck(p)
  BY <1>1 DEF Sweep, Recheck, Started
<1>2. CASE ~(Sweep(p) \/ Recheck(p))
  <2>1. job[p].stage # "idle" /\ overlapped' = overlapped
    BY <1>2, Zenon DEF Runs, ListSuspects, Inspect, ReadLast, Store, InspectionFails, Score,
       ScoringSkipped, ScoringFails, Regions, Decide, VerdictSkipped, CreateAlert, Dispatch,
       VerdictFails, ReturnStats, Reinspect, StoreReinspection, AnswerRecheck, RecheckRaises,
       Dies, At, Stays, Breaks
  <2> QED
    BY <2>1 DEF ChainInv
<1> QED
  BY <1>1, <1>2

LEMMA OthersStay ==
  ASSUME TypesInv, NEW p \in Proc, Runs(p)
  PROVE  job' \in [Proc -> Job] /\ \A q \in Proc : q # p => job'[q] = job[q]
<1>1. PICK n : Fits(n) /\ Goes(p, n)
  BY StepFits
<1> QED
  BY <1>1 DEF Fits, Goes, TypesInv, JobsOK

LEMMA StepChains == TypesInv /\ ChainInv /\ [Next]_vars => ChainInv'
<1> SUFFICES ASSUME TypesInv, ChainInv, [Next]_vars, ~overlapped' PROVE ChainInv'
  BY DEF ChainInv
<1>1. ASSUME NEW p \in Proc, Runs(p)
      PROVE  ChainInv'
  <2>1. ~overlapped /\ \A q \in Proc : q # p => job'[q] = job[q] /\ job[q].stage = "idle"
    BY <1>1, StepAlone, OthersStay
  <2>2. /\ \A i \in Row : inspections[i].prev = i - 1
        /\ \A i, k \in Row : i < k => inspections[i].at < inspections[k].at
        /\ Rendering(job[p]) => \A i \in Row : inspections[i].at < job[p].fresh.at
        /\ job[p].stage \in {"store", "restore"} => job[p].fresh.prev = Len(inspections)
    BY <2>1 DEF ChainInv
  <2>3. /\ Len(inspections) \in Nat /\ Row = 1..Len(inspections) /\ clock \in Nat
        /\ \A i \in Row : inspections[i].at \in Nat /\ inspections[i].at <= clock
    <3>1. \A i \in Row : inspections[i] \in Inspection
      BY DEF TypesInv, TablesOK, Row
    <3> QED
      BY <3>1 DEF TypesInv, TablesOK, Row, Inspection
  <2>4. StoresRow(p)
    BY <1>1, TablesStep
  <2>5. (\A q, r \in Proc : job[q].stage # "idle" /\ job[r].stage # "idle" => q = r)'
    BY <2>1
  <2>6. (/\ \A i \in Row : inspections[i].prev = i - 1
         /\ \A i, k \in Row : i < k => inspections[i].at < inspections[k].at)'
    <3>1. CASE inspections' = inspections
      BY <2>2, <3>1 DEF Row
    <3>2. CASE /\ job[p].stage \in {"store", "restore"}
               /\ Row' = Row \cup {Len(inspections) + 1}
               /\ inspections'[Len(inspections) + 1] = job[p].fresh
      <4>1. \A i \in Row : i < Len(inspections) + 1 /\ inspections'[i] = inspections[i]
        BY <2>3, <2>4, RowsStand
      <4>2. \A i \in Row : inspections[i].at < job[p].fresh.at
        BY <2>2, <3>2 DEF Rendering
      <4>3. job[p].fresh.prev = (Len(inspections) + 1) - 1
        BY <2>2, <2>3, <3>2
      <4>4. \A i \in Row' : inspections'[i].prev = i - 1
        BY <2>2, <3>2, <4>1, <4>3
      <4>5. ASSUME NEW i \in Row', NEW k \in Row', i < k
            PROVE  inspections'[i].at < inspections'[k].at
        <5>1. i \in Row
          BY <2>3, <3>2, <4>5
        <5>2. CASE k \in Row
          BY <2>2, <4>1, <4>5, <5>1, <5>2
        <5>3. CASE k = Len(inspections) + 1
          BY <3>2, <4>1, <4>2, <5>1, <5>3
        <5> QED
          BY <3>2, <5>2, <5>3
      <4> QED
        BY <4>4, <4>5
    <3> QED
      BY <2>4, <3>1, <3>2, RowsStand
  <2>7. ASSUME NEW q \in Proc
        PROVE  (/\ Rendering(job[q]) => \A i \in Row : inspections[i].at < job[q].fresh.at
                /\ job[q].stage \in {"store", "restore"} => job[q].fresh.prev = Len(inspections))'
    <3>1. CASE ~Rendering(job'[q])
      BY <3>1 DEF Rendering
    <3>2. CASE q = p /\ Rendering(job'[p])
      <4>1. inspections' = inspections /\ (Renders(p) \/ Reads(p))
        BY <1>1, <3>2, RenderingStep
      <4>2. Row' = Row
        BY <4>1 DEF Row
      <4>3. CASE Renders(p)
        BY <2>3, <3>2, <4>1, <4>2, <4>3 DEF Renders
      <4>4. CASE Reads(p)
        <5>1. LastInspection = Len(inspections)
          BY <2>2, LastIsLatest
        <5>2. \A i \in Row : inspections[i].at < job[p].fresh.at
          BY <2>2, <4>4 DEF Rendering, Reads
        <5> QED
          BY <3>2, <4>1, <4>2, <4>4, <5>1, <5>2 DEF Reads
      <4> QED
        BY <4>1, <4>3, <4>4
    <3>3. q # p => ~Rendering(job'[q])
      BY <2>1 DEF Rendering
    <3> QED
      BY <3>1, <3>2, <3>3
  <2> QED
    BY <2>5, <2>6, <2>7 DEF ChainInv
<1>2. CASE UNCHANGED <<inspections, job, overlapped>>
  BY <1>2 DEF ChainInv, Row, Rendering
<1> QED
  BY <1>1, <1>2 DEF Next, FlipPage, Stays, vars, tables

(* EvidenceAlwaysChained: for any number of runs, as long as no two of them *)
(* were under way at once, every inspection is chained to the one stored    *)
(* just before it, although the read of the chain's end and the insert are  *)
(* two transactions (src/storage/repositories.py, InspectionRepo.create).   *)
THEOREM EvidenceAlwaysChained == Spec => []EvidenceIsChained
<1>1. Init => ChainInv
  <2> SUFFICES ASSUME Init PROVE ChainInv
    OBVIOUS
  <2>1. Row = {} /\ \A p \in Proc : job[p].stage = "idle"
    BY DEF Init, Row, Idle
  <2> QED
    BY <2>1 DEF ChainInv, Rendering
<1>2. ChainInv => EvidenceIsChained
  BY DEF ChainInv, EvidenceIsChained
<1> QED
  BY <1>1, <1>2, StepChains, TypesCorrect, PTL DEF Spec

---------------------------------------------------------------------------
(* Activations are genuine. *)

Rechecking == {"recheck", "reread", "restore"}

WasBenign(s) ==
  \E k \in Row : inspections[k].suspect = s /\ inspections[k].ok /\ inspections[k].page = "benign"

(* What a recheck compares with is a row of the same suspect, and what it   *)
(* holds as an activation is one.                                           *)
Compares(j) ==
  /\ j.stage \in Rechecking =>
       \A k \in 1..Len(j.prior) : j.prior[k] # 0 =>
         j.prior[k] \in Row /\ inspections[j.prior[k]].suspect = j.list[k]
  /\ j.stage \in {"reread", "restore"} /\ j.fresh.kind = "bomb" =>
       j.fresh.page = "phish" /\ WasBenign(j.fresh.suspect)

GenuineInv == ActivationsAreGenuine /\ \A p \in Proc : Compares(job[p])

LEMMA AdvanceKeeps ==
  ASSUME NEW j \in Job, NEW phase \in Phase
  PROVE  LET n == Advance(j, phase)
         IN  /\ n \in Job /\ n.list = j.list /\ n.prior = j.prior /\ n.done = j.done
             /\ n.cloaked = j.cloaked /\ n.alerted = j.alerted /\ n.errors = j.errors
             /\ n.bombs = j.bombs /\ n.fresh = NoFresh
<1>1. /\ j.pos + 1 \in Nat \ {0}
      /\ phase \in Stage /\ "return" \in Stage /\ Follows[phase] \in Stage
  BY DEF Job, Phase, Stage, Follows
<1>2. PICK stage \in Stage, pos \in Nat \ {0} : Advance(j, phase) = Moved(j, stage, pos)
  BY <1>1, AdvanceMoves
<1> DEFINE n == Moved(j, stage, pos)
<1>3. /\ n \in Job /\ n.list = j.list /\ n.prior = j.prior /\ n.done = j.done
      /\ n.cloaked = j.cloaked /\ n.alerted = j.alerted /\ n.errors = j.errors
      /\ n.bombs = j.bombs /\ n.fresh = NoFresh
  BY MovedIsJob
<1> HIDE DEF n
<1> QED
  BY <1>2, <1>3 DEF n

(* The steps of a sweep lead to no recheck. *)
LEMMA SweepsOnly ==
  ASSUME TypesInv, NEW p \in Proc, Runs(p), job'[p].stage \in Rechecking
  PROVE  Recheck(p) \/ Reinspect(p) \/ ReadLast(p) \/ StoreReinspection(p)
<1> DEFINE j == job[p]
<1>1. /\ j \in Job /\ Phase = {"inspect", "score", "verdict", "recheck"}
      /\ \A n : Goes(p, n) => job'[p] = n
  BY DEF TypesInv, JobsOK, Goes, Phase
<1>2. /\ Erring(j) \in Job
      /\ [j EXCEPT !.alerted = @ + 1] \in Job
      /\ \A n \in Nat : [j EXCEPT !.done = Append(@, n)] \in Job
  BY <1>1, NotedIsJob
<1>3. ASSUME NEW n \in Job, NEW phase \in Phase \ {"recheck"} PROVE ~Goes(p, Advance(n, phase))
  <2>1. ASSUME Goes(p, Advance(n, phase)) PROVE FALSE
    <3>1. job'[p].stage \in {phase, "return", Follows[phase]}
      BY <1>1, <2>1, AdvanceStage
    <3> QED
      BY <3>1 DEF Phase, Follows, Rechecking
  <2> QED
    BY <2>1
<1>4. ~Sweep(p)
  <2>1. [Idle EXCEPT !.stage = "list"].stage = "list"
    BY DEF Idle
  <2> QED
    BY <1>1, <2>1 DEF Sweep, Rechecking
<1>5. ~ListSuspects(p)
  <2>1. CASE ListSuspects(p)
    <3>1. job'[p].stage \in {"return", "inspect"}
      BY <1>1, <2>1 DEF ListSuspects, Job
    <3> QED
      BY <3>1 DEF Rechecking
  <2> QED
    BY <2>1
<1>6. ~Inspect(p)
  <2>1. CASE Inspect(p)
    <3>1. job'[p].stage = "read"
      BY <1>1, <2>1 DEF Inspect, Job
    <3> QED
      BY <3>1 DEF Rechecking
  <2> QED
    BY <2>1
<1>7. ~(ReturnStats(p) \/ AnswerRecheck(p) \/ RecheckRaises(p) \/ Dies(p))
  BY <1>1 DEF ReturnStats, AnswerRecheck, RecheckRaises, Dies, Idle, Rechecking
<1>8. ~Store(p)
  <2>1. Len(Append(inspections, j.fresh)) \in Nat
    BY <1>1 DEF TypesInv, TablesOK, Job
  <2> QED
    BY <1>1, <1>2, <1>3, <2>1 DEF Store, Chained
<1>9. ~(InspectionFails(p) \/ ScoringFails(p) \/ VerdictFails(p) \/ Score(p) \/ ScoringSkipped(p)
          \/ VerdictSkipped(p) \/ Dispatch(p))
  BY <1>1, <1>2, <1>3 DEF InspectionFails, ScoringFails, VerdictFails, Score,
     ScoringSkipped, VerdictSkipped, Dispatch
<1>10. ~(Regions(p) \/ CreateAlert(p))
  <2>1. CASE Regions(p)
    <3>1. job'[p].stage = "verdict"
      BY <1>1, <2>1 DEF Regions, Job
    <3> QED
      BY <3>1 DEF Rechecking
  <2>2. CASE CreateAlert(p)
    <3>1. job'[p].stage = "dispatch"
      BY <1>1, <2>2 DEF CreateAlert, Job
    <3> QED
      BY <3>1 DEF Rechecking
  <2> QED
    BY <2>1, <2>2
<1>11. ~Decide(p)
  <2>1. [j EXCEPT !.stage = "alert"].stage = "alert"
    BY <1>1 DEF Job
  <2> QED
    BY <1>1, <1>3, <2>1 DEF Decide, Rechecking
<1> QED
  BY <1>4, <1>5, <1>6, <1>7, <1>8, <1>9, <1>10, <1>11 DEF Runs

LEMMA ComparesStands ==
  ASSUME TypesInv, NEW p \in Proc, StoresRow(p), NEW j, Compares(j)
  PROVE  Compares(j)'
<1>1. \A i \in Row : i \in Row' /\ inspections'[i] = inspections[i]
  BY RowsStand
<1>2. \A s : WasBenign(s) => WasBenign(s)'
  BY <1>1 DEF WasBenign
<1> QED
  BY <1>1, <1>2 DEF Compares

LEMMA RecheckGoesOn ==
  ASSUME NEW j \in Job
  PROVE  Advance(j, "recheck").stage \in {"recheck", "answer"}
<1>1. /\ "recheck" \in Phase /\ Follows["recheck"] = "answer" /\ "answer" \in Stage
      /\ "recheck" \in Stage /\ j.pos + 1 \in Nat \ {0}
  BY DEF Phase, Follows, Stage, Job
<1>2. /\ Moved(j, "recheck", j.pos + 1).stage = "recheck"
      /\ Moved(j, "answer", 1).stage = "answer"
  BY <1>1, MovedIsJob
<1>3. \/ Advance(j, "recheck") = Moved(j, "recheck", j.pos + 1)
      \/ Advance(j, "recheck") = Moved(j, "answer", 1)
  BY <1>1, AdvanceMoves
<1> QED
  BY <1>2, <1>3

LEMMA RecheckAdvances ==
  ASSUME NEW j \in Job
  PROVE  LET n == Advance(j, "recheck")
         IN  n.list = j.list /\ n.prior = j.prior /\ n.stage \in {"recheck", "answer"}
<1>1. "recheck" \in Phase
  BY DEF Phase
<1> QED
  BY <1>1, AdvanceKeeps, RecheckGoesOn

(* The run that steps compares rightly again. *)
LEMMA ComparesAgain ==
  ASSUME TypesInv, NEW p \in Proc, Runs(p), Compares(job[p]), NEW n, n = job'[p]
  PROVE  Compares(n)'
<1> DEFINE j == job[p]
<1>1. /\ j \in Job /\ Placed(j) /\ \A m : Goes(p, m) => n = m
  BY DEF TypesInv, JobsOK, Goes
<1>2. /\ \A i \in Row : i \in Row' /\ inspections'[i] = inspections[i]
      /\ \A s : WasBenign(s) => WasBenign(s)'
  <2>1. \A i \in Row : i \in Row' /\ inspections'[i] = inspections[i]
    BY TablesStep, RowsStand
  <2> QED
    BY <2>1 DEF WasBenign
<1>3. ASSUME j.stage \in Rechecking, n.list = j.list, n.prior = j.prior,
             n.stage = "recheck" \/ (n.stage \in {"reread", "restore"} /\ n.fresh.kind = "bomb" =>
               n.fresh.page = "phish" /\ WasBenign(n.fresh.suspect))
      PROVE  Compares(n)'
  <2> HIDE DEF j
  <2>1. \A k \in 1..Len(n.prior) : n.prior[k] # 0 =>
           n.prior[k] \in Row /\ inspections[n.prior[k]].suspect = n.list[k]
    BY <1>3 DEF Compares, j
  <2> QED
    BY <1>2, <1>3, <2>1 DEF Compares
<1>4. CASE n.stage \notin Rechecking
  BY <1>4 DEF Compares, Rechecking
<1>5. CASE Recheck(p)
  <2> DEFINE l == Newest(MaxInspect)
             prior == [k \in DOMAIN l |-> PriorInspection(l[k])]
  <2>1. n = [Idle EXCEPT !.list = l, !.prior = prior,
                         !.stage = IF l = <<>> THEN "answer" ELSE "recheck"]
    BY <1>1, <1>5 DEF Recheck
  <2>2. n.list = l /\ n.prior = prior /\ n.stage \in {"answer", "recheck"}
    BY <2>1 DEF Idle
  <2>3. l \in Seq(Suspect)
    BY NewestIsList, BoundsAssumption DEF TypesInv
  <2>4. \A k \in 1..Len(prior) : prior[k] = PriorInspection(l[k])
    <3> HIDE DEF l
    <3>1. DOMAIN l = 1..Len(l) /\ Len(l) \in Nat
      BY <2>3
    <3> QED
      BY <3>1
  <2>5. ASSUME NEW s, PriorInspection(s) # 0
        PROVE  PriorInspection(s) \in Row /\ inspections[PriorInspection(s)].suspect = s
    <3> DEFINE rows == {i \in Row : inspections[i].suspect = s}
    <3>1. PriorInspection(s) = LatestOf(rows)
      BY DEF PriorInspection
    <3> HIDE DEF rows
    <3>2. rows \in SUBSET Row
      BY DEF rows
    <3>3. PriorInspection(s) \in rows
      BY <2>5, <3>1, <3>2, LatestIsRow DEF TypesInv
    <3> QED
      BY <3>3 DEF rows
  <2> HIDE DEF l, prior
  <2>6. \A k \in 1..Len(n.prior) : n.prior[k] # 0 =>
          n.prior[k] \in Row /\ inspections[n.prior[k]].suspect = n.list[k]
    BY <2>2, <2>4, <2>5
  <2> QED
    BY <1>2, <2>2, <2>6 DEF Compares
<1>6. CASE ReadLast(p) /\ n.stage \in Rechecking
  <2>1. n = [j EXCEPT !.stage = IF @ = "read" THEN "store" ELSE "restore", !.fresh.prev = LastInspection]
    BY <1>1, <1>6 DEF ReadLast
  <2>2. /\ n.stage = IF j.stage = "read" THEN "store" ELSE "restore"
        /\ n.fresh = [j.fresh EXCEPT !.prev = LastInspection]
        /\ n.list = j.list /\ n.prior = j.prior
    BY <1>1, <2>1 DEF Job
  <2>3. j.fresh \in Inspection
    BY <1>1 DEF Job
  <2>4. n.fresh.kind = j.fresh.kind /\ n.fresh.page = j.fresh.page /\ n.fresh.suspect = j.fresh.suspect
    BY <2>2, <2>3 DEF Inspection
  <2>5. j.stage = "reread"
    BY <1>6, <2>2 DEF ReadLast, Rechecking
  <2> HIDE DEF j
  <2> QED
    BY <1>3, <2>2, <2>4, <2>5 DEF Compares, Rechecking, j
<1>7. CASE StoreReinspection(p)
  <2>1. Len(inspections') \in Nat
    BY TablesStep, RowsStand
  <2> DEFINE noted == IF j.fresh.kind = "bomb" THEN j.bombs \cup {Len(inspections')} ELSE j.bombs
             m == [j EXCEPT !.bombs = noted]
  <2>2. n = Advance(m, "recheck")
    BY <1>1, <1>7 DEF StoreReinspection
  <2>3. noted \in SUBSET Nat
    BY <1>1, <2>1 DEF Job
  <2>4. m \in Job /\ m.list = j.list /\ m.prior = j.prior
    <3> HIDE DEF noted
    <3> QED
      BY <1>1, <2>3 DEF Job
  <2> HIDE DEF m
  <2>5. n.list = j.list /\ n.prior = j.prior /\ n.stage \in {"recheck", "answer"}
    BY <2>2, <2>4, RecheckAdvances
  <2>6. j.stage \in Rechecking
    BY <1>7 DEF StoreReinspection, At, Rechecking
  <2> HIDE DEF j
  <2> QED
    BY <1>3, <1>4, <2>5, <2>6 DEF Rechecking
<1>8. CASE Reinspect(p)
  <2>1. j.stage = "recheck" /\ j.pos <= Len(j.prior) /\ j.pos \in 1..Len(j.prior)
    BY <1>1, <1>8 DEF Reinspect, At, Placed, Job
  <2>2. CASE Goes(p, Advance(j, "recheck"))
    <3>1. n.list = j.list /\ n.prior = j.prior /\ n.stage \in {"recheck", "answer"}
      BY <1>1, <2>2, RecheckAdvances
    <3> HIDE DEF j
    <3> QED
      BY <1>3, <1>4, <2>1, <3>1 DEF Rechecking
  <2> DEFINE s == j.list[j.pos]
             i == j.prior[j.pos]
             kind == IF TimeBomb(i, s) THEN "bomb" ELSE "recheck"
             r == Rendered(s, TRUE, kind)
  <2>3. CASE Comparable(i) /\ Goes(p, [j EXCEPT !.stage = "reread", !.fresh = r])
    <3>1. r.kind = kind /\ r.page = page[s] /\ r.suspect = s
      BY DEF Rendered
    <3>2. i \in Row /\ inspections[i].suspect = s /\ inspections[i].ok
      BY <2>1, <2>3 DEF Compares, Comparable, Rechecking
    <3>3. r.kind = "bomb" => r.page = "phish" /\ WasBenign(s)
      BY <3>1, <3>2, Zenon DEF TimeBomb, WasBenign
    <3> HIDE DEF r, kind, s, i
    <3>4. n.stage = "reread" /\ n.fresh = r /\ n.list = j.list /\ n.prior = j.prior
      BY <1>1, <2>3 DEF Job
    <3> HIDE DEF j
    <3> QED
      BY <1>3, <2>1, <3>1, <3>3, <3>4 DEF Rechecking
  <2> QED
    BY <1>8, <2>2, <2>3, SMTT(30) DEF Reinspect
<1> QED
  BY <1>4, <1>5, <1>6, <1>7, <1>8, SweepsOnly

LEMMA StepIsGenuine == TypesInv /\ GenuineInv /\ [Next]_vars => GenuineInv'
<1> SUFFICES ASSUME TypesInv, GenuineInv, [Next]_vars PROVE GenuineInv'
  OBVIOUS
<1>1. ASSUME NEW p \in Proc, Runs(p)
      PROVE  GenuineInv'
  <2>1. StoresRow(p)
    BY <1>1, TablesStep
  <2>2. /\ \A i \in Row : i \in Row' /\ inspections'[i] = inspections[i]
        /\ \/ Row' = Row
           \/ /\ job[p].stage \in {"store", "restore"}
              /\ Row' = Row \cup {Len(inspections) + 1}
              /\ inspections'[Len(inspections) + 1] = job[p].fresh
    BY <2>1, RowsStand
  <2>3. Len(inspections) \in Nat /\ Row = 1..Len(inspections)
    BY DEF TypesInv, TablesOK, Row
  <2>4. ActivationsAreGenuine'
    <3> SUFFICES ASSUME NEW i \in Row', inspections'[i].kind = "bomb"
                 PROVE  /\ inspections'[i].page = "phish"
                        /\ \E k \in 1..(i - 1) : /\ inspections'[k].suspect = inspections'[i].suspect
                                                 /\ inspections'[k].ok /\ inspections'[k].page = "benign"
      BY DEF ActivationsAreGenuine
    <3>1. CASE i \in Row
      <4>1. \A k \in 1..(i - 1) : k \in Row
        BY <2>3, <3>1
      <4> QED
        BY <2>2, <3>1, <4>1 DEF GenuineInv, ActivationsAreGenuine
    <3>2. CASE i \notin Row
      <4>1. /\ i = Len(inspections) + 1 /\ inspections'[i] = job[p].fresh
            /\ job[p].stage \in {"store", "restore"}
        BY <2>2, <3>2
      <4>2. job[p].stage = "restore"
        BY <4>1 DEF TypesInv, JobsOK, Placed
      <4>3. job[p].fresh.page = "phish" /\ WasBenign(job[p].fresh.suspect)
        BY <4>1, <4>2 DEF GenuineInv, Compares
      <4>4. PICK k \in Row : inspections[k].suspect = job[p].fresh.suspect
                             /\ inspections[k].ok /\ inspections[k].page = "benign"
        BY <4>3 DEF WasBenign
      <4>5. k \in 1..(i - 1) /\ inspections'[k] = inspections[k]
        BY <2>2, <2>3, <4>1, <4>4
      <4> QED
        BY <4>1, <4>3, <4>4, <4>5
    <3> QED
      BY <3>1, <3>2
  <2>5. ASSUME NEW q \in Proc PROVE Compares(job[q])'
    <3>1. CASE q = p
      <4>1. PICK n : n = job'[p]
        OBVIOUS
      <4>2. Compares(n)'
        BY <1>1, <4>1, ComparesAgain DEF GenuineInv
      <4> QED
        BY <3>1, <4>1, <4>2 DEF Compares
    <3>2. CASE q # p
      <4>1. job'[q] = job[q] /\ Compares(job[q])
        BY <1>1, <3>2, OthersStay DEF GenuineInv
      <4>2. PICK j : j = job[q]
        OBVIOUS
      <4>3. Compares(j)
        BY <4>1, <4>2 DEF Compares
      <4>4. Compares(j)'
        BY <2>1, <4>3, ComparesStands
      <4> QED
        BY <4>1, <4>2, <4>4 DEF Compares
    <3> QED
      BY <3>1, <3>2
  <2> QED
    BY <2>4, <2>5 DEF GenuineInv
<1>2. CASE UNCHANGED <<inspections, job>>
  BY <1>2 DEF GenuineInv, ActivationsAreGenuine, Compares, WasBenign, Row
<1> QED
  BY <1>1, <1>2 DEF Next, FlipPage, vars, tables

(* ActivationsAlwaysGenuine: for any number of runs that interleave with    *)
(* one another and with the sites they render, a recorded time bomb shows a *)
(* payload, and an earlier row shows the same site rendered as benign       *)
(* (src/inspection/diff_detector.py, recheck_recent).                       *)
THEOREM ActivationsAlwaysGenuine == Spec => []ActivationsAreGenuine
<1>1. Init => GenuineInv
  <2> SUFFICES ASSUME Init PROVE GenuineInv
    OBVIOUS
  <2>1. Row = {} /\ \A p \in Proc : job[p].stage = "idle"
    BY DEF Init, Row, Idle
  <2> QED
    BY <2>1 DEF GenuineInv, ActivationsAreGenuine, Compares, Rechecking
<1>2. GenuineInv => ActivationsAreGenuine
  BY DEF GenuineInv
<1> QED
  BY <1>1, <1>2, StepIsGenuine, TypesCorrect, PTL DEF Spec

---------------------------------------------------------------------------
(* Alerts are backed. *)

(* The rows a run stored are its own, in the order of their numbers.        *)
Owns(j) ==
  \A k \in 1..Len(j.done) :
    /\ j.done[k] \in Row /\ inspections[j.done[k]].kind = "sweep"
    /\ \A l \in 1..Len(j.done) : k < l => j.done[k] < j.done[l]

Apart ==
  \A p, q \in Proc : p # q =>
    \A k \in 1..Len(job[p].done), l \in 1..Len(job[q].done) : job[p].done[k] # job[q].done[l]

(* A score lets an inspection pass, or a host that hints at its region.     *)
Passed(i) == Scored(i) /\ (scorings[i] \/ inspections[i].suspect \in GeoHinted)

Cloaks(j) == \A i \in j.cloaked : Passed(i)

(* The rows of a run that have yet to be judged, and the one just judged.   *)
Pending(j, k) ==
  \/ j.stage \in {"inspect", "read", "store", "score", "region"}
  \/ j.stage = "verdict" /\ j.pos <= k
  \/ j.stage \in {"alert", "dispatch"} /\ j.pos < k

Waits(j) == \A k \in 1..Len(j.done) : Pending(j, k) => j.done[k] \notin DOMAIN verdicts

Judged(j) ==
  j.stage \in {"alert", "dispatch"} =>
    j.done[j.pos] \in DOMAIN verdicts /\ Actionable(verdicts[j.done[j.pos]])

Holds(j) == Owns(j) /\ Cloaks(j) /\ Waits(j) /\ Judged(j)

Filings ==
  /\ \A i \in DOMAIN scorings :
       i \in Row /\ inspections[i].ok /\ inspections[i].kind = "sweep" /\ scorings[i] \in BOOLEAN
  /\ \A i \in DOMAIN verdicts : Passed(i) /\ (scorings[i] \/ verdicts[i].cloaked)
  /\ \A i \in DOMAIN alerts :
       /\ i \in DOMAIN verdicts /\ Actionable(verdicts[i])
       /\ verdicts[i].verdict = "phish" => alerts[i] # "low"

BackedInv == Filings /\ Apart /\ \A p \in Proc : Holds(job[p])

(* What a step files: at most one row, about the inspection its run is at.  *)
Files(p) ==
  /\ \/ scorings' = scorings
     \/ /\ job[p].stage = "score" /\ inspections[Subject(p)].ok
        /\ \E above \in BOOLEAN : scorings' = Filed(scorings, Subject(p), above)
  /\ \/ verdicts' = verdicts
     \/ /\ job[p].stage = "verdict" /\ Promoted(job[p], Subject(p))
        /\ \E v : /\ v.cloaked = (Subject(p) \in job[p].cloaked)
                 /\ verdicts' = Filed(verdicts, Subject(p), v)
  /\ \/ alerts' = alerts
     \/ /\ job[p].stage = "alert"
        /\ alerts' = Filed(alerts, Subject(p), AlertSeverity(verdicts[Subject(p)]))

LEMMA FilesStep ==
  ASSUME NEW p \in Proc, Runs(p)
  PROVE  Files(p)
<1>1. CASE Score(p)
  BY <1>1 DEF Score, At, Files
<1>2. CASE Decide(p)
  <2>1. PICK a \in Decisions(scorings[Subject(p)]) :
          verdicts' = Filed(verdicts, Subject(p), Overridden(a, Subject(p) \in job[p].cloaked))
    BY <1>2 DEF Decide
  <2>2. PICK v : v = Overridden(a, Subject(p) \in job[p].cloaked)
    OBVIOUS
  <2>3. v.cloaked = (Subject(p) \in job[p].cloaked) /\ verdicts' = Filed(verdicts, Subject(p), v)
    BY <2>1, <2>2 DEF Overridden
  <2> QED
    BY <1>2, <2>3 DEF Decide, At, Files
<1>3. CASE CreateAlert(p)
  BY <1>3 DEF CreateAlert, At, Files
<1>4. CASE ~(Score(p) \/ Decide(p) \/ CreateAlert(p))
  <2>1. UNCHANGED <<scorings, verdicts, alerts>>
    BY <1>4, Zenon DEF Runs, Sweep, ListSuspects, Inspect, ReadLast, Store, InspectionFails,
       ScoringSkipped, ScoringFails, Regions, VerdictSkipped, Dispatch, VerdictFails,
       ReturnStats, Recheck, Reinspect, StoreReinspection, AnswerRecheck, RecheckRaises,
       Dies, tables
  <2> QED
    BY <2>1 DEF Files
<1> QED
  BY <1>1, <1>2, <1>3, <1>4

(* Where the run is in its rows. *)
LEMMA SubjectIsOwn ==
  ASSUME TypesInv, NEW p \in Proc, job[p].stage \in {"score", "verdict", "alert", "dispatch"},
         Owns(job[p])
  PROVE  /\ job[p].pos \in 1..Len(job[p].done) /\ Subject(p) = job[p].done[job[p].pos]
         /\ Subject(p) \in Row /\ inspections[Subject(p)].kind = "sweep"
<1>1. job[p].pos \in 1..Len(job[p].done)
  BY DEF TypesInv, JobsOK, Placed, Job
<1> QED
  BY <1>1 DEF Subject, Owns

(* The tables only grow. *)
Grown ==
  /\ \A i \in Row : i \in Row' /\ inspections'[i] = inspections[i]
  /\ \A i \in DOMAIN scorings : i \in DOMAIN scorings' /\ scorings'[i] = scorings[i]
  /\ \A i \in DOMAIN verdicts : i \in DOMAIN verdicts' /\ verdicts'[i] = verdicts[i]
  /\ \A i : Passed(i) => Passed(i)'

LEMMA TablesGrow ==
  ASSUME TypesInv, Filings, NEW p \in Proc, StoresRow(p), Files(p)
  PROVE  Grown
<1>1. /\ \A i \in Row : i \in Row' /\ inspections'[i] = inspections[i]
      /\ \A i \in DOMAIN scorings : i \in DOMAIN scorings' /\ scorings'[i] = scorings[i]
      /\ \A i \in DOMAIN verdicts : i \in DOMAIN verdicts' /\ verdicts'[i] = verdicts[i]
  <2>1. \A i \in Row : i \in Row' /\ inspections'[i] = inspections[i]
    BY RowsStand
  <2>2. \A i \in DOMAIN scorings : i \in DOMAIN scorings' /\ scorings'[i] = scorings[i]
    <3>1. scorings' = scorings \/ \E above \in BOOLEAN : scorings' = Filed(scorings, Subject(p), above)
      BY DEF Files
    <3> QED
      BY <3>1 DEF Filed
  <2>3. \A i \in DOMAIN verdicts : i \in DOMAIN verdicts' /\ verdicts'[i] = verdicts[i]
    <3>1. verdicts' = verdicts \/ \E v : verdicts' = Filed(verdicts, Subject(p), v)
      BY DEF Files
    <3> QED
      BY <3>1 DEF Filed
  <2> QED
    BY <2>1, <2>2, <2>3
<1>2. \A i : Passed(i) => Passed(i)'
  BY <1>1 DEF Passed, Scored, Filings
<1> QED
  BY <1>1, <1>2 DEF Grown

LEMMA FilingsStand ==
  ASSUME TypesInv, Filings, NEW p \in Proc, Holds(job[p]), StoresRow(p), Files(p)
  PROVE  Filings'
<1>1. Grown
  BY TablesGrow
<1>2. ASSUME NEW i \in DOMAIN scorings'
      PROVE  i \in Row' /\ inspections'[i].ok /\ inspections'[i].kind = "sweep" /\ scorings'[i] \in BOOLEAN
  <2>1. CASE i \in DOMAIN scorings
    BY <1>1, <2>1 DEF Filings, Grown
  <2>2. CASE i \notin DOMAIN scorings
    <3>1. /\ i = Subject(p) /\ job[p].stage = "score" /\ inspections[i].ok
          /\ scorings'[i] \in BOOLEAN
      <4>1. PICK above \in BOOLEAN : scorings' = Filed(scorings, Subject(p), above)
        BY <1>2, <2>2 DEF Files
      <4>2. i = Subject(p) /\ scorings'[i] = above
        BY <1>2, <2>2, <4>1 DEF Filed
      <4> QED
        BY <1>2, <2>2, <4>1, <4>2 DEF Files
    <3>2. i \in Row /\ inspections[i].kind = "sweep"
      BY <3>1, SubjectIsOwn DEF Holds
    <3> QED
      BY <1>1, <3>1, <3>2 DEF Grown
  <2> QED
    BY <2>1, <2>2
<1>3. ASSUME NEW i \in DOMAIN verdicts'
      PROVE  Passed(i)' /\ (scorings'[i] \/ verdicts'[i].cloaked)
  <2>1. CASE i \in DOMAIN verdicts
    <3>1. Passed(i) /\ (scorings[i] \/ verdicts[i].cloaked)
      BY <2>1 DEF Filings
    <3>2. Passed(i)' /\ scorings'[i] = scorings[i] /\ verdicts'[i] = verdicts[i]
      BY <1>1, <2>1, <3>1 DEF Grown, Passed, Scored
    <3> QED
      BY <3>1, <3>2
  <2>2. CASE i \notin DOMAIN verdicts
    <3>1. /\ i = Subject(p) /\ Promoted(job[p], i)
          /\ verdicts'[i].cloaked = (i \in job[p].cloaked)
      <4>1. PICK v : /\ v.cloaked = (Subject(p) \in job[p].cloaked)
                     /\ verdicts' = Filed(verdicts, Subject(p), v)
        BY <1>3, <2>2 DEF Files
      <4>2. i = Subject(p) /\ verdicts'[i] = v
        BY <1>3, <2>2, <4>1 DEF Filed
      <4> QED
        BY <1>3, <2>2, <4>1, <4>2 DEF Files
    <3>2. Passed(i)
      BY <3>1 DEF Promoted, AboveThreshold, Holds, Cloaks, Passed
    <3>3. scorings[i] \/ i \in job[p].cloaked
      BY <3>1 DEF Promoted, AboveThreshold
    <3>4. Passed(i)' /\ scorings'[i] = scorings[i]
      BY <1>1, <3>2 DEF Grown, Passed, Scored
    <3> QED
      BY <3>1, <3>3, <3>4
  <2> QED
    BY <2>1, <2>2
<1>4. ASSUME NEW i \in DOMAIN alerts'
      PROVE  /\ i \in DOMAIN verdicts' /\ Actionable(verdicts'[i])
             /\ verdicts'[i].verdict = "phish" => alerts'[i] # "low"
  <2>1. CASE i \in DOMAIN alerts
    <3>1. alerts'[i] = alerts[i]
      <4>1. alerts' = alerts \/ \E v : alerts' = Filed(alerts, Subject(p), v)
        BY DEF Files
      <4> QED
        BY <2>1, <4>1 DEF Filed
    <3> QED
      BY <1>1, <2>1, <3>1 DEF Filings, Grown
  <2>2. CASE i \notin DOMAIN alerts
    <3>1. /\ i = Subject(p) /\ job[p].stage = "alert"
          /\ alerts'[i] = AlertSeverity(verdicts[i])
      <4> DEFINE v == AlertSeverity(verdicts[Subject(p)])
      <4>1. job[p].stage = "alert" /\ alerts' = Filed(alerts, Subject(p), v)
        BY <1>4, <2>2 DEF Files
      <4> HIDE DEF v
      <4>2. i = Subject(p) /\ alerts'[i] = v
        BY <1>4, <2>2, <4>1 DEF Filed
      <4> QED
        BY <4>1, <4>2 DEF v
    <3>2. i \in DOMAIN verdicts /\ Actionable(verdicts[i])
      BY <3>1 DEF Holds, Judged, Subject
    <3> QED
      BY <1>1, <3>1, <3>2 DEF Grown, AlertSeverity
  <2> QED
    BY <2>1, <2>2
<1> QED
  BY <1>2, <1>3, <1>4 DEF Filings

(* What a run still has to judge only shrinks as it advances. *)
LEMMA PendsOn ==
  ASSUME NEW j \in Job, NEW phase \in Phase
  PROVE  /\ Advance(j, phase).stage \notin {"alert", "dispatch"}
         /\ \A k \in Nat : Pending(Advance(j, phase), k) =>
              phase \in {"inspect", "score"} \/ (phase = "verdict" /\ j.pos < k)
<1>1. /\ j.pos \in Nat /\ j.pos + 1 \in Nat \ {0} /\ phase \in Stage /\ "return" \in Stage
      /\ Follows[phase] \in Stage
      /\ Follows["inspect"] = "score" /\ Follows["score"] = "region"
      /\ Follows["verdict"] = "return" /\ Follows["recheck"] = "answer"
  BY DEF Job, Phase, Stage, Follows
<1>2. Advance(j, phase).stage \in {phase, "return", Follows[phase]}
  BY AdvanceStage
<1>3. phase = "verdict" /\ Advance(j, phase).stage = "verdict" => Advance(j, phase).pos = j.pos + 1
  <2>1. Moved(j, "return", j.pos + 1).stage = "return" /\ Moved(j, Follows[phase], 1).stage = Follows[phase]
    BY <1>1, MovedIsJob, SMTT(30)
  <2>2. Moved(j, phase, j.pos + 1).pos = j.pos + 1
    BY <1>1, MovedIsJob
  <2> QED
    BY <1>1, <2>1, <2>2, AdvanceMoves
<1> QED
  BY <1>1, <1>2, <1>3 DEF Phase, Pending

LEMMA HoldsIf ==
  ASSUME Grown, NEW n, Owns(n), Cloaks(n), Judged(n),
         \A k \in 1..Len(n.done) : Pending(n, k) => n.done[k] \notin DOMAIN verdicts'
  PROVE  Holds(n)'
<1>1. Owns(n)'
  BY DEF Owns, Grown
<1>2. Cloaks(n)'
  BY DEF Cloaks, Grown
<1>3. Judged(n)'
  BY DEF Judged, Grown
<1>4. Waits(n)'
  BY DEF Waits
<1> QED
  BY <1>1, <1>2, <1>3, <1>4 DEF Holds

(* The steps that judge nothing, store nothing and look for no cloaking.    *)
LEMMA HoldsOn ==
  ASSUME Grown, verdicts' = verdicts, NEW p \in Proc, NEW j, NEW n, Holds(j),
         n.done = j.done, n.cloaked = j.cloaked,
         n.stage \in {"alert", "dispatch"} => j.stage \in {"alert", "dispatch"} /\ n.pos = j.pos,
         \A k \in 1..Len(j.done) : Pending(n, k) => Pending(j, k)
  PROVE  Holds(n)'
<1>1. Owns(n) /\ Cloaks(n) /\ Judged(n)
  BY DEF Holds, Owns, Cloaks, Judged
<1>2. \A k \in 1..Len(n.done) : Pending(n, k) => n.done[k] \notin DOMAIN verdicts'
  BY DEF Holds, Waits
<1> QED
  BY <1>1, <1>2, HoldsIf

LEMMA HoldsFresh ==
  ASSUME NEW n, n.done = <<>>, n.cloaked = {}, n.stage \notin {"alert", "dispatch"}
  PROVE  Holds(n) /\ Holds(n)'
BY DEF Holds, Owns, Cloaks, Waits, Judged

(* A run that advances, perhaps after counting an error or an alert.        *)
LEMMA HoldsAdvanced ==
  ASSUME Grown, verdicts' = verdicts, NEW p \in Proc, NEW j \in Job, NEW m \in Job, Holds(j),
         m.done = j.done, m.cloaked = j.cloaked, m.pos = j.pos, NEW phase \in Phase,
         phase \in {"inspect", "score"} => j.stage \in {"inspect", "read", "store", "score"},
         phase = "verdict" => j.stage \in {"verdict", "alert", "dispatch"},
         NEW n, n = Advance(m, phase)
  PROVE  Holds(n)' /\ n.done = j.done
<1>1. n.done = j.done /\ n.cloaked = j.cloaked
  BY AdvanceKeeps
<1>2. n.stage \notin {"alert", "dispatch"}
  BY PendsOn
<1>3. j.pos \in Nat /\ Len(j.done) \in Nat
  BY DEF Job
<1>4. ASSUME NEW k \in 1..Len(j.done), Pending(n, k) PROVE Pending(j, k)
  <2>1. phase \in {"inspect", "score"} \/ (phase = "verdict" /\ j.pos < k)
    BY <1>3, <1>4, PendsOn
  <2>2. CASE phase \in {"inspect", "score"}
    BY <2>2 DEF Pending
  <2>3. CASE phase = "verdict" /\ j.pos < k
    BY <1>3, <2>3 DEF Pending
  <2> QED
    BY <2>1, <2>2, <2>3
<1> QED
  BY <1>1, <1>2, <1>4, HoldsOn

(* The run that steps holds its rows again: first the steps that neither    *)
(* store a sweep's row nor decide.                                          *)
LEMMA HoldsFurther ==
  ASSUME TypesInv, BackedInv, Grown, NEW p \in Proc, Runs(p), ~Store(p), ~Decide(p),
         NEW n, n = job'[p]
  PROVE  Holds(n)' /\ n.done \in {<<>>, job[p].done}
<1> DEFINE j == job[p]
<1>1. /\ j \in Job /\ Placed(j) /\ Holds(j) /\ \A m : Goes(p, m) => n = m
      /\ Phase = {"inspect", "score", "verdict", "recheck"} /\ j.done = job[p].done
  BY DEF TypesInv, JobsOK, Goes, BackedInv, Phase
<1>2. verdicts' = verdicts
  BY Zenon DEF Runs, Sweep, ListSuspects, Inspect, ReadLast, InspectionFails, Score, ScoringSkipped,
     ScoringFails, Regions, VerdictSkipped, CreateAlert, Dispatch, VerdictFails, ReturnStats,
     Recheck, Reinspect, StoreReinspection, AnswerRecheck, RecheckRaises, Dies, tables
<1>3. CASE Sweep(p) \/ ReturnStats(p) \/ AnswerRecheck(p) \/ RecheckRaises(p) \/ Dies(p)
  <2>1. n = Idle \/ n = [Idle EXCEPT !.stage = "list"]
    BY <1>1, <1>3 DEF Sweep, ReturnStats, AnswerRecheck, RecheckRaises, Dies
  <2>2. n.done = <<>> /\ n.cloaked = {} /\ n.stage \notin {"alert", "dispatch"}
    BY <2>1 DEF Idle
  <2> QED
    BY <2>2, HoldsFresh
<1>4. CASE Recheck(p)
  <2> DEFINE l == Newest(MaxInspect)
             prior == [k \in DOMAIN l |-> PriorInspection(l[k])]
  <2>1. n = [Idle EXCEPT !.list = l, !.prior = prior,
                         !.stage = IF l = <<>> THEN "answer" ELSE "recheck"]
    BY <1>1, <1>4 DEF Recheck
  <2> HIDE DEF l, prior
  <2>2. n.done = <<>> /\ n.cloaked = {} /\ n.stage \notin {"alert", "dispatch"}
    BY <2>1 DEF Idle
  <2> QED
    BY <2>2, HoldsFresh
<1>5. CASE ListSuspects(p)
  <2>1. j = [Idle EXCEPT !.stage = "list"]
    BY <1>1, <1>5 DEF ListSuspects, At, Placed
  <2> DEFINE l == Newest(MaxInspect)
  <2>2. n = [j EXCEPT !.list = l, !.stage = IF l = <<>> THEN "return" ELSE "inspect"]
    BY <1>1, <1>5 DEF ListSuspects
  <2> HIDE DEF l, j
  <2>3. n.done = <<>> /\ n.cloaked = {} /\ n.stage \notin {"alert", "dispatch"}
    BY <2>1, <2>2 DEF Idle
  <2> QED
    BY <2>3, HoldsFresh
<1>6. CASE Inspect(p)
  <2>1. /\ n.done = j.done /\ n.cloaked = j.cloaked /\ n.stage = "read"
        /\ j.stage = "inspect"
    BY <1>1, <1>6 DEF Inspect, At, Job
  <2> QED
    BY <1>1, <1>2, <2>1, HoldsOn DEF Pending
<1>7. CASE ReadLast(p)
  <2>1. /\ n.done = j.done /\ n.cloaked = j.cloaked
        /\ j.stage \in {"read", "reread"}
        /\ n.stage = IF j.stage = "read" THEN "store" ELSE "restore"
    BY <1>1, <1>7 DEF ReadLast, Job
  <2> QED
    BY <1>1, <1>2, <2>1, HoldsOn DEF Pending
<1>8. CASE InspectionFails(p) \/ ScoringFails(p) \/ VerdictFails(p)
  <2>1. /\ Erring(j) \in Job /\ Erring(j).done = j.done /\ Erring(j).cloaked = j.cloaked
        /\ Erring(j).pos = j.pos
    BY <1>1, NotedIsJob DEF Erring, Job
  <2>2. PICK phase \in Phase :
          /\ n = Advance(Erring(j), phase)
          /\ phase \in {"inspect", "score"} => j.stage \in {"inspect", "read", "store", "score"}
          /\ phase = "verdict" => j.stage \in {"verdict", "alert", "dispatch"}
    <3>1. CASE InspectionFails(p)
      BY <1>1, <3>1 DEF InspectionFails
    <3>2. CASE ScoringFails(p)
      BY <1>1, <3>2 DEF ScoringFails
    <3>3. CASE VerdictFails(p)
      BY <1>1, <3>3 DEF VerdictFails
    <3> QED
      BY <1>8, <3>1, <3>2, <3>3
  <2> HIDE DEF j
  <2> QED
    BY <1>1, <1>2, <2>1, <2>2, HoldsAdvanced
<1>9. CASE Score(p) \/ ScoringSkipped(p) \/ VerdictSkipped(p)
  <2>1. PICK phase \in Phase :
          /\ n = Advance(j, phase)
          /\ phase \in {"inspect", "score"} => j.stage \in {"inspect", "read", "store", "score"}
          /\ phase = "verdict" => j.stage \in {"verdict", "alert", "dispatch"}
    BY <1>1, <1>9 DEF Score, ScoringSkipped, VerdictSkipped, At
  <2> HIDE DEF j
  <2> QED
    BY <1>1, <1>2, <2>1, HoldsAdvanced
<1>10. CASE Dispatch(p)
  <2> DEFINE m == [j EXCEPT !.alerted = @ + 1]
  <2>1. m \in Job /\ m.done = j.done /\ m.cloaked = j.cloaked /\ m.pos = j.pos
    BY <1>1, NotedIsJob, Zenon DEF Job
  <2>2. n = Advance(m, "verdict") /\ j.stage = "dispatch"
    BY <1>1, <1>10 DEF Dispatch, At
  <2> HIDE DEF m, j
  <2> QED
    BY <1>1, <1>2, <2>1, <2>2, HoldsAdvanced
<1>11. CASE Reinspect(p)
  <2>1. CASE n = Advance(j, "recheck")
    <3> HIDE DEF j
    <3> QED
      BY <1>1, <1>2, <2>1, HoldsAdvanced
  <2>2. CASE \E r : n = [j EXCEPT !.stage = "reread", !.fresh = r]
    <3>1. n.done = j.done /\ n.cloaked = j.cloaked /\ n.stage = "reread"
      BY <1>1, <2>2 DEF Job
    <3> QED
      BY <1>1, <1>2, <3>1, HoldsOn DEF Pending
  <2> QED
    BY <1>1, <1>11, <2>1, <2>2, Zenon DEF Reinspect
<1>12. CASE StoreReinspection(p)
  <2>1. Len(inspections') \in Nat
    BY TablesStep, RowsStand
  <2> DEFINE noted == IF j.fresh.kind = "bomb" THEN j.bombs \cup {Len(inspections')} ELSE j.bombs
             m == [j EXCEPT !.bombs = noted]
  <2>2. n = Advance(m, "recheck")
    BY <1>1, <1>12 DEF StoreReinspection
  <2>3. noted \in SUBSET Nat
    BY <1>1, <2>1 DEF Job
  <2>4. m \in Job /\ m.done = j.done /\ m.cloaked = j.cloaked /\ m.pos = j.pos
    <3> HIDE DEF noted
    <3> QED
      BY <1>1, <2>3 DEF Job
  <2> HIDE DEF m, j
  <2> QED
    BY <1>1, <1>2, <2>2, <2>4, HoldsAdvanced
<1>13. CASE Regions(p)
  <2> DEFINE stored == {j.done[k] : k \in DOMAIN j.done}
             rendered == {i \in stored : AboveThreshold(i) \/
                                         (Scored(i) /\ inspections[i].suspect \in GeoHinted)}
  <2>1. PICK found \in SUBSET rendered : n = [j EXCEPT !.cloaked = found, !.stage = "verdict"]
    BY <1>1, <1>13, Zenon DEF Regions
  <2>2. \A i \in found : Passed(i)
    BY <2>1 DEF AboveThreshold, Passed
  <2> HIDE DEF rendered, stored
  <2>3. n.done = j.done /\ n.cloaked = found /\ n.stage = "verdict" /\ j.stage = "region"
    BY <1>1, <1>13, <2>1 DEF Job, Regions, At
  <2>4. Owns(n) /\ Cloaks(n) /\ Judged(n)
    BY <1>1, <2>2, <2>3 DEF Holds, Owns, Cloaks, Judged
  <2>5. \A k \in 1..Len(n.done) : n.done[k] \notin DOMAIN verdicts'
    BY <1>1, <1>2, <2>3 DEF Holds, Waits, Pending
  <2> QED
    BY <2>3, <2>4, <2>5, HoldsIf
<1>14. CASE CreateAlert(p)
  <2>1. /\ n.done = j.done /\ n.cloaked = j.cloaked /\ n.stage = "dispatch" /\ n.pos = j.pos
        /\ j.stage = "alert"
    BY <1>1, <1>14 DEF CreateAlert, At, Job
  <2> QED
    BY <1>1, <1>2, <2>1, HoldsOn DEF Pending
<1> QED
  BY <1>3, <1>4, <1>5, <1>6, <1>7, <1>8, <1>9, <1>10, <1>11, <1>12, <1>13, <1>14 DEF Runs

(* A stored row is a new one, that nobody else holds and nobody has judged. *)
LEMMA HoldsStored ==
  ASSUME TypesInv, BackedInv, Grown, NEW p \in Proc, Store(p), NEW n, n = job'[p]
  PROVE  Holds(n)' /\ n.done = Append(job[p].done, Len(inspections) + 1)
<1> DEFINE j == job[p]
           row == Len(inspections) + 1
           m == [j EXCEPT !.done = Append(@, Len(inspections'))]
<1>1. /\ j \in Job /\ Placed(j) /\ Holds(j) /\ \A k : Goes(p, k) => n = k
      /\ Phase = {"inspect", "score", "verdict", "recheck"}
  BY DEF TypesInv, JobsOK, Goes, BackedInv, Phase
<1>2. /\ inspections' = Append(inspections, j.fresh) /\ verdicts' = verdicts
      /\ j.stage = "store" /\ n = Advance(m, "inspect")
  BY <1>1 DEF Store, Chained, At
<1>3. /\ j.fresh.kind = "sweep" /\ j.fresh \in Inspection
      /\ inspections \in Seq(Inspection) /\ Len(inspections) \in Nat
  BY <1>1, <1>2 DEF Placed, Job, TypesInv, TablesOK
<1>4. /\ Len(inspections') = row /\ row \in Nat /\ row \in Row' /\ row \notin Row
      /\ inspections'[row] = j.fresh
      /\ \A i \in Row : i < row
  BY <1>2, <1>3 DEF Row
<1>5. m \in Job /\ m.done = Append(j.done, row) /\ m.cloaked = j.cloaked
  <2>1. m \in Job
    BY <1>1, <1>4, NotedIsJob
  <2>2. m.done = Append(j.done, Len(inspections')) /\ m.cloaked = j.cloaked
    <3> HIDE DEF j
    <3> QED
      BY <1>1 DEF Job
  <2> QED
    BY <1>4, <2>1, <2>2
<1>6. n.done = Append(j.done, row) /\ n.cloaked = j.cloaked /\ n.stage \notin {"alert", "dispatch"}
  <2> HIDE DEF j, m, row
  <2>1. "inspect" \in Phase
    BY <1>1
  <2> QED
    BY <1>2, <1>5, <2>1, AdvanceKeeps, PendsOn
<1>7. j.done \in Seq(Nat) /\ Len(j.done) \in Nat
  BY <1>1 DEF Job
<1> HIDE DEF j, row, m
<1>8. /\ Len(n.done) = Len(j.done) + 1 /\ n.done[Len(j.done) + 1] = row
      /\ \A k \in 1..Len(j.done) : n.done[k] = j.done[k]
  BY <1>4, <1>6, <1>7
<1>9. \A k \in 1..Len(n.done) : k \in 1..Len(j.done) \/ k = Len(j.done) + 1
  BY <1>7, <1>8
<1>10. /\ Owns(j) /\ Cloaks(j)
       /\ \A k \in 1..Len(j.done) : j.done[k] \notin DOMAIN verdicts
  BY <1>1, <1>2 DEF Holds, Waits, Pending
<1>11. row \notin DOMAIN verdicts
  BY <1>4 DEF BackedInv, Filings, Passed, Scored
<1>12. Owns(n)'
  <2> SUFFICES ASSUME NEW k \in 1..Len(n.done)
               PROVE  /\ n.done[k] \in Row' /\ inspections'[n.done[k]].kind = "sweep"
                      /\ \A l \in 1..Len(n.done) : k < l => n.done[k] < n.done[l]
    BY DEF Owns
  <2>1. CASE k \in 1..Len(j.done)
    <3>1. /\ j.done[k] \in Row /\ inspections[j.done[k]].kind = "sweep"
          /\ \A l \in 1..Len(j.done) : k < l => j.done[k] < j.done[l]
      BY <1>10, <2>1 DEF Owns
    <3>2. n.done[k] = j.done[k]
      BY <1>8, <2>1
    <3>3. n.done[k] \in Row' /\ inspections'[n.done[k]].kind = "sweep"
      BY <3>1, <3>2 DEF Grown
    <3>4. ASSUME NEW l \in 1..Len(n.done), k < l PROVE n.done[k] < n.done[l]
      BY <1>4, <1>8, <1>9, <3>1, <3>2, <3>4
    <3> QED
      BY <3>3, <3>4
  <2>2. CASE k = Len(j.done) + 1
    <3>1. \A l \in 1..Len(n.done) : ~(k < l)
      BY <1>7, <1>8, <2>2
    <3> QED
      BY <1>3, <1>4, <1>8, <2>2, <3>1
  <2> QED
    BY <1>9, <2>1, <2>2
<1>13. Cloaks(n)'
  BY <1>6, <1>10 DEF Cloaks, Grown
<1>14. Judged(n)'
  BY <1>6 DEF Judged
<1>15. Waits(n)'
  BY <1>2, <1>8, <1>9, <1>10, <1>11 DEF Waits
<1> QED
  BY <1>6, <1>12, <1>13, <1>14, <1>15 DEF Holds, j, row

LEMMA HoldsDecided ==
  ASSUME TypesInv, BackedInv, Grown, NEW p \in Proc, Decide(p), NEW n, n = job'[p]
  PROVE  Holds(n)' /\ n.done = job[p].done
<1> DEFINE j == job[p]
           i == Subject(p)
<1>1. /\ j \in Job /\ Placed(j) /\ Holds(j) /\ \A m : Goes(p, m) => n = m
      /\ Phase = {"inspect", "score", "verdict", "recheck"} /\ j.stage = "verdict"
  BY DEF TypesInv, JobsOK, Goes, BackedInv, Phase, Decide, At
<1>2. PICK v : /\ verdicts' = Filed(verdicts, i, v)
               /\ n = IF Actionable(v) THEN [j EXCEPT !.stage = "alert"] ELSE Advance(j, "verdict")
  <2>1. PICK a \in Decisions(scorings[i]) :
          LET v == Overridden(a, i \in j.cloaked)
          IN  /\ verdicts' = Filed(verdicts, i, v)
              /\ Goes(p, IF Actionable(v) THEN [j EXCEPT !.stage = "alert"] ELSE Advance(j, "verdict"))
    BY DEF Decide
  <2> QED
    BY <1>1, <2>1
<1>3. /\ j.pos \in 1..Len(j.done) /\ i = j.done[j.pos] /\ j.pos \in Nat
      /\ Len(j.done) \in Nat
  BY <1>1, SubjectIsOwn DEF Holds, Job
<1>4. /\ Owns(j) /\ Cloaks(j) /\ i \notin DOMAIN verdicts
      /\ \A k \in 1..Len(j.done) : j.pos <= k => j.done[k] \notin DOMAIN verdicts
  BY <1>1, <1>3 DEF Holds, Waits, Pending
<1>5. \A k \in 1..Len(j.done) : j.pos < k => j.done[k] # i
  <2>1. ASSUME NEW k \in 1..Len(j.done), j.pos < k PROVE j.done[k] # i
    <3>1. i < j.done[k] /\ j.done[k] \in Nat /\ i \in Nat
      BY <1>1, <1>3, <1>4, <2>1, SMTT(30) DEF Owns, Job
    <3> QED
      BY <3>1
  <2> QED
    BY <2>1
<1>6. n.done = j.done /\ n.cloaked = j.cloaked
  BY <1>1, <1>2, AdvanceKeeps, SMTT(30) DEF Job
<1>7. ASSUME NEW k \in 1..Len(j.done), Pending(n, k) PROVE j.pos < k
  <2>1. CASE n = [j EXCEPT !.stage = "alert"]
    <3>1. n.stage = "alert" /\ n.pos = j.pos
      BY <1>1, <2>1 DEF Job
    <3> QED
      BY <1>7, <3>1 DEF Pending
  <2>2. CASE n = Advance(j, "verdict")
    BY <1>1, <1>3, <1>7, <2>2, PendsOn
  <2> QED
    BY <1>2, <2>1, <2>2
<1>8. n.stage \in {"alert", "dispatch"} => n.pos = j.pos /\ Actionable(v)
  BY <1>1, <1>2, PendsOn DEF Job
<1>9. DOMAIN verdicts' = DOMAIN verdicts \cup {i} /\ verdicts'[i] = v
  BY <1>2, <1>4 DEF Filed
<1> HIDE DEF j, i
<1>10. Owns(n)'
  BY <1>4, <1>6 DEF Owns, Grown
<1>11. Cloaks(n)'
  BY <1>4, <1>6 DEF Cloaks, Grown
<1>12. Judged(n)'
  BY <1>3, <1>6, <1>8, <1>9 DEF Judged
<1>13. Waits(n)'
  BY <1>3, <1>4, <1>5, <1>6, <1>7, <1>9 DEF Waits
<1> QED
  BY <1>6, <1>10, <1>11, <1>12, <1>13 DEF Holds, j

LEMMA StepBacks == TypesInv /\ BackedInv /\ [Next]_vars => BackedInv'
<1> SUFFICES ASSUME TypesInv, BackedInv, [Next]_vars PROVE BackedInv'
  OBVIOUS
<1>1. ASSUME NEW p \in Proc, Runs(p)
      PROVE  BackedInv'
  <2>1. /\ StoresRow(p) /\ Files(p)
        /\ Filings /\ Apart /\ \A q \in Proc : Holds(job[q])
    BY <1>1, TablesStep, FilesStep DEF BackedInv
  <2>2. Grown /\ Filings'
    BY <2>1, TablesGrow, FilingsStand
  <2>3. PICK n : n = job'[p]
    OBVIOUS
  <2>4. /\ Holds(n)'
        /\ \/ n.done \in {<<>>, job[p].done}
           \/ n.done = Append(job[p].done, Len(inspections) + 1)
    BY <1>1, <2>2, <2>3, HoldsFurther, HoldsStored, HoldsDecided
  <2>5. \A q \in Proc : q # p => job'[q] = job[q]
    BY <1>1, OthersStay
  <2>6. /\ \A q \in Proc : job[q].done \in Seq(Nat)
        /\ Len(inspections) \in Nat /\ Row = 1..Len(inspections)
    BY DEF TypesInv, TablesOK, JobsOK, Job, Row
  <2>7. ASSUME NEW q \in Proc, q # p
        PROVE  \A k \in 1..Len(n.done), l \in 1..Len(job[q].done) : n.done[k] # job[q].done[l]
    <3>1. CASE n.done = <<>>
      BY <3>1
    <3>2. CASE n.done = job[p].done
      BY <2>1, <2>7, <3>2 DEF Apart
    <3>3. CASE n.done = Append(job[p].done, Len(inspections) + 1)
      <4> SUFFICES ASSUME NEW k \in 1..Len(n.done), NEW l \in 1..Len(job[q].done)
                   PROVE  n.done[k] # job[q].done[l]
        OBVIOUS
      <4>1. job[q].done[l] \in Row
        BY <2>1 DEF Holds, Owns
      <4>2. CASE k \in 1..Len(job[p].done)
        <5>1. n.done[k] = job[p].done[k]
          BY <2>6, <3>3, <4>2
        <5> QED
          BY <2>1, <2>7, <4>2, <5>1 DEF Apart
      <4>3. CASE k \notin 1..Len(job[p].done)
        <5>1. n.done[k] = Len(inspections) + 1
          BY <2>6, <3>3, <4>3
        <5> QED
          BY <2>6, <4>1, <5>1
      <4> QED
        BY <4>2, <4>3
    <3> QED
      BY <2>4, <3>1, <3>2, <3>3
  <2>8. Apart'
    <3> SUFFICES ASSUME NEW q \in Proc, NEW r \in Proc, q # r,
                        NEW k \in 1..Len(job'[q].done), NEW l \in 1..Len(job'[r].done)
                 PROVE  job'[q].done[k] # job'[r].done[l]
      BY DEF Apart
    <3>1. CASE q # p /\ r # p
      BY <2>1, <2>5, <3>1 DEF Apart
    <3>2. CASE q = p
      BY <2>3, <2>5, <2>7, <3>2
    <3>3. CASE r = p
      BY <2>3, <2>5, <2>7, <3>3
    <3> QED
      BY <3>1, <3>2, <3>3
  <2>9. ASSUME NEW q \in Proc PROVE Holds(job[q])'
    <3>1. CASE q = p
      <4>1. n = job'[q]
        BY <2>3, <3>1
      <4> QED
        BY <2>4, <4>1 DEF Holds, Owns, Cloaks, Waits, Judged
    <3>2. CASE q # p
      <4>1. PICK j : j = job[q]
        OBVIOUS
      <4>2. job'[q] = j /\ Holds(j)
        BY <2>1, <2>5, <3>2, <4>1
      <4>3. \A k \in 1..Len(j.done) : Pending(j, k) => j.done[k] \notin DOMAIN verdicts'
        <5> SUFFICES ASSUME NEW k \in 1..Len(j.done), Pending(j, k)
                     PROVE  j.done[k] \notin DOMAIN verdicts'
          OBVIOUS
        <5>1. j.done[k] \notin DOMAIN verdicts
          BY <4>2 DEF Holds, Waits
        <5>2. CASE verdicts' = verdicts
          BY <5>1, <5>2
        <5>3. CASE job[p].stage = "verdict" /\ \E v : verdicts' = Filed(verdicts, Subject(p), v)
          <6>1. job[p].pos \in 1..Len(job[p].done) /\ Subject(p) = job[p].done[job[p].pos]
            BY <2>1, <5>3, SubjectIsOwn DEF Holds
          <6>2. j.done[k] # Subject(p)
            BY <2>1, <3>2, <4>1, <6>1 DEF Apart
          <6>3. DOMAIN verdicts' = DOMAIN verdicts \cup {Subject(p)}
            BY <5>3 DEF Filed
          <6> QED
            BY <5>1, <6>2, <6>3
        <5> QED
          BY <2>1, <5>2, <5>3 DEF Files
      <4>4. Holds(j)'
        BY <2>2, <4>2, <4>3, HoldsIf DEF Holds
      <4> QED
        BY <4>2, <4>4 DEF Holds, Owns, Cloaks, Waits, Judged
    <3> QED
      BY <3>1, <3>2
  <2> QED
    BY <2>2, <2>8, <2>9 DEF BackedInv
<1>2. CASE UNCHANGED <<tables, job>>
  BY <1>2 DEF BackedInv, Filings, Apart, Holds, Owns, Cloaks, Waits, Judged, Passed, Scored,
     Row, tables
<1> QED
  BY <1>1, <1>2 DEF Next, FlipPage, vars

(* The inductive invariant of the next two theorems. *)
LEMMA BackedThroughout == Spec => []BackedInv
<1>1. Init => BackedInv
  <2> SUFFICES ASSUME Init PROVE BackedInv
    OBVIOUS
  <2>1. /\ DOMAIN scorings = {} /\ DOMAIN verdicts = {} /\ DOMAIN alerts = {}
        /\ \A p \in Proc : job[p] = Idle
    BY DEF Init
  <2>2. Idle.done = <<>> /\ Idle.cloaked = {} /\ Idle.stage = "idle"
    BY DEF Idle
  <2>3. \A p \in Proc : Holds(job[p])
    BY <2>1, <2>2, HoldsFresh
  <2>4. Filings
    BY <2>1 DEF Filings
  <2>5. Apart
    BY <2>1, <2>2 DEF Apart
  <2> QED
    BY <2>3, <2>4, <2>5 DEF BackedInv
<1> QED
  BY <1>1, StepBacks, TypesCorrect, PTL DEF Spec

(* AlertsAlwaysBacked: for any number of runs that interleave and die       *)
(* wherever they may, and whatever the model or the rules answer on either  *)
(* side of the threshold, every alert rests on a score and on a verdict     *)
(* that calls for action about one rendered page of a sweep; an alert below *)
(* the threshold has a verdict whose row is marked as cloaked and a host    *)
(* that hints at its region; and a phish is never shown as low              *)
(* (src/common/pipeline.py, run_pipeline_for_brand).                        *)
THEOREM AlertsAlwaysBacked == Spec => []AlertsAreBacked
<1>1. BackedInv => AlertsAreBacked
  BY DEF BackedInv, Filings, AlertsAreBacked, Passed, Scored, AboveThreshold
<1> QED
  BY <1>1, BackedThroughout, PTL

---------------------------------------------------------------------------
(* Every loss is counted. *)

Before == {"inspect", "read", "store"}
Judging == {"verdict", "alert", "dispatch"}
SweepStage == Before \cup Judging \cup {"score", "region", "return"}

(* The rows of a run up to a position; those it has scored, and decided.    *)
Upto(j, m) == {j.done[k] : k \in 1..m}
Scanned(j) ==
  CASE j.stage \in Before -> {}
    [] j.stage = "score"  -> Upto(j, j.pos - 1)
    [] OTHER              -> Upto(j, Len(j.done))
Decided(j) ==
  CASE j.stage \in Judging  -> Upto(j, j.pos - 1)
    [] j.stage = "return"   -> Upto(j, Len(j.done))
    [] OTHER                -> {}

(* What was lost on the way: not stored, not scored, not judged.            *)
Unstored(j) ==
  IF j.stage \in Before THEN (j.pos - 1) - Len(j.done) ELSE Len(j.list) - Len(j.done)
Unscored(S) == {i \in S : inspections[i].ok /\ ~Scored(i)}
Unjudged(j, S) == {i \in S : Promoted(j, i) /\ i \notin DOMAIN verdicts}
Acted(S) == {i \in S : i \in DOMAIN verdicts /\ Actionable(verdicts[i])}

Balanced(j) ==
  j.stage \in SweepStage =>
    j.errors + j.alerted = Unstored(j) + Cardinality(Unscored(Scanned(j)))
      + Cardinality(Unjudged(j, Decided(j))) + Cardinality(Acted(Decided(j)))

(* Rows are scored in their turn, and judged when they were promoted.       *)
Unscanned(j) ==
  \A k \in 1..Len(j.done) :
    j.stage \in Before \/ (j.stage = "score" /\ j.pos <= k) => j.done[k] \notin DOMAIN scorings
Backs(j) ==
  \A k \in 1..Len(j.done) : j.done[k] \in DOMAIN verdicts => Promoted(j, j.done[k])

Tallies(j) == Unscanned(j) /\ Backs(j) /\ Balanced(j)
CountInv == \A p \in Proc : \A j : j = job[p] => Tallies(j)

LEMMA UptoGrows ==
  ASSUME NEW j \in Job
  PROVE  /\ Upto(j, 0) = {}
         /\ \A m \in Nat : IsFiniteSet(Upto(j, m))
         /\ \A m \in 1..Len(j.done) :
              /\ Upto(j, m) = Upto(j, m - 1) \cup {j.done[m]}
              /\ Owns(j) => j.done[m] \notin Upto(j, m - 1)
<1>1. j.done \in Seq(Nat) /\ Len(j.done) \in Nat
  BY DEF Job
<1>2. Upto(j, 0) = {}
  BY DEF Upto
<1>3. ASSUME NEW m \in Nat PROVE IsFiniteSet(Upto(j, m))
  <2>1. IsFiniteSet(1..m)
    BY FS_Interval
  <2> DEFINE f == [k \in 1..m |-> j.done[k]]
  <2>2. Upto(j, m) = {f[k] : k \in 1..m}
    BY DEF Upto
  <2>3. f \in Surjection(1..m, Upto(j, m))
    BY <2>2 DEF Surjection, Upto
  <2> QED
    BY <2>1, <2>3, FS_Surjection
<1>4. ASSUME NEW m \in 1..Len(j.done)
      PROVE  /\ Upto(j, m) = Upto(j, m - 1) \cup {j.done[m]}
             /\ Owns(j) => j.done[m] \notin Upto(j, m - 1)
  <2>1. m \in Nat /\ 1 <= m /\ m <= Len(j.done)
    BY <1>1
  <2>2. 1..m = 1..(m - 1) \cup {m}
    BY <2>1
  <2>3. Upto(j, m) = Upto(j, m - 1) \cup {j.done[m]}
    BY <2>2 DEF Upto
  <2>4. ASSUME Owns(j), NEW k \in 1..(m - 1) PROVE j.done[k] # j.done[m]
    <3>1. k \in 1..Len(j.done) /\ k < m
      BY <1>1, <2>1
    <3>2. j.done[k] < j.done[m] /\ j.done[k] \in Nat /\ j.done[m] \in Nat
      BY <1>1, <2>4, <3>1 DEF Owns
    <3> QED
      BY <3>2
  <2> QED
    BY <2>3, <2>4 DEF Upto
<1> QED
  BY <1>2, <1>3, <1>4

LEMMA WhereItIs ==
  ASSUME NEW n
  PROVE  /\ n.stage \in Before =>
              /\ Unstored(n) = (n.pos - 1) - Len(n.done)
              /\ Scanned(n) = {} /\ Decided(n) = {}
         /\ n.stage \in SweepStage \ Before => Unstored(n) = Len(n.list) - Len(n.done)
         /\ n.stage = "score" => Scanned(n) = Upto(n, n.pos - 1) /\ Decided(n) = {}
         /\ n.stage = "region" => Scanned(n) = Upto(n, Len(n.done)) /\ Decided(n) = {}
         /\ n.stage \in Judging =>
              Scanned(n) = Upto(n, Len(n.done)) /\ Decided(n) = Upto(n, n.pos - 1)
         /\ n.stage = "return" =>
              Scanned(n) = Upto(n, Len(n.done)) /\ Decided(n) = Upto(n, Len(n.done))
<1>1. n.stage \in Before => n.stage \notin Judging /\ n.stage \notin {"score", "region", "return"}
  BY DEF Before, Judging
<1>2. n.stage \in Judging => n.stage \notin Before /\ n.stage \notin {"score", "region", "return"}
  BY DEF Before, Judging
<1>3. "score" \notin Before \cup Judging /\ "region" \notin Before \cup Judging
      /\ "return" \notin Before \cup Judging
  BY DEF Before, Judging
<1>4. n.stage \in Before => Scanned(n) = {} /\ Decided(n) = {}
  BY <1>1 DEF Scanned, Decided
<1>5. n.stage = "score" => Scanned(n) = Upto(n, n.pos - 1) /\ Decided(n) = {}
  BY <1>3 DEF Scanned, Decided
<1>6. n.stage = "region" => Scanned(n) = Upto(n, Len(n.done)) /\ Decided(n) = {}
  BY <1>3 DEF Scanned, Decided
<1>7. n.stage \in Judging =>
        Scanned(n) = Upto(n, Len(n.done)) /\ Decided(n) = Upto(n, n.pos - 1)
  BY <1>2 DEF Scanned, Decided
<1>8. n.stage = "return" =>
        Scanned(n) = Upto(n, Len(n.done)) /\ Decided(n) = Upto(n, Len(n.done))
  BY <1>3 DEF Scanned, Decided
<1>9. /\ n.stage \in Before => Unstored(n) = (n.pos - 1) - Len(n.done)
      /\ n.stage \in SweepStage \ Before => Unstored(n) = Len(n.list) - Len(n.done)
  BY DEF Unstored
<1> QED
  BY <1>4, <1>5, <1>6, <1>7, <1>8, <1>9

(* Where the runs of the three loops are after an element. *)
LEMMA InspectAdvances ==
  ASSUME NEW m \in Job, m.pos <= Len(m.list), NEW n, n = Advance(m, "inspect")
  PROVE  /\ n.stage \in {"inspect", "score", "return"}
         /\ Unstored(n) = m.pos - Len(m.done)
         /\ Scanned(n) = {} /\ Decided(n) = {}
<1>1. /\ "inspect" \in Phase /\ Follows["inspect"] = "score" /\ Items(m, "inspect") = Len(m.list)
      /\ "inspect" \in Stage /\ "score" \in Stage /\ "return" \in Stage
      /\ m.pos \in Nat \ {0} /\ m.pos + 1 \in Nat \ {0} /\ Len(m.list) \in Nat /\ Len(m.done) \in Nat
  BY DEF Phase, Follows, Items, Stage, Job
<1>2. n \in Job /\ n.list = m.list /\ n.done = m.done
  BY <1>1, AdvanceKeeps
<1>3. Upto(n, 0) = {}
  BY <1>2, UptoGrows
<1>4. CASE n = Moved(m, "inspect", m.pos + 1)
  <2>1. n.stage = "inspect" /\ n.pos = m.pos + 1 /\ n.pos - 1 = m.pos
    <3>1. n.stage = "inspect" /\ n.pos = m.pos + 1
      BY <1>1, <1>4, MovedIsJob, SMTT(30)
    <3> QED
      BY <1>1, <3>1
  <2>2. "inspect" \in Before
    BY DEF Before
  <2> QED
    BY <1>1, <1>2, <2>1, <2>2, WhereItIs
<1>5. CASE n = Moved(m, "return", m.pos + 1) /\ m.done = <<>> /\ Len(m.list) <= m.pos
  <2>1. n.stage = "return" /\ Len(m.done) = 0 /\ Len(m.list) = m.pos
    <3>1. n.stage = "return"
      <4>1. n = Moved(m, "return", m.pos + 1)
        BY <1>5
      <4>2. "return" \in Stage /\ m.pos + 1 \in Nat \ {0}
        BY <1>1
      <4>3. Moved(m, "return", m.pos + 1).stage = "return"
        BY <4>2, MovedIsJob
      <4> QED
        BY <4>1, <4>3
    <3>2. Len(m.list) = m.pos
      BY <1>1, <1>5
    <3>3. Len(<<>>) = 0 /\ m.done = <<>>
      BY <1>5
    <3> QED
      BY <3>1, <3>2, <3>3
  <2>2. "return" \in SweepStage \ Before
    BY DEF SweepStage, Before
  <2> QED
    BY <1>1, <1>2, <1>3, <1>5, <2>1, <2>2, WhereItIs
<1>6. CASE n = Moved(m, "score", 1) /\ Len(m.list) <= m.pos
  <2>1. n.stage = "score" /\ n.pos = 1 /\ n.pos - 1 = 0 /\ Len(m.list) = m.pos
    <3>1. n.stage = "score" /\ n.pos = 1
      BY <1>1, <1>6, MovedIsJob, SMTT(30)
    <3> QED
      BY <1>1, <1>6, <3>1
  <2>2. "score" \in SweepStage \ Before
    BY DEF SweepStage, Before
  <2> QED
    BY <1>1, <1>2, <1>3, <1>6, <2>1, <2>2, WhereItIs
<1> QED
  BY <1>1, <1>4, <1>5, <1>6, AdvanceMoves

LEMMA ScoreAdvances ==
  ASSUME NEW m \in Job, m.pos <= Len(m.done), NEW n, n = Advance(m, "score")
  PROVE  /\ n.stage \in {"score", "region"} /\ (n.stage = "score" => n.pos = m.pos + 1)
         /\ Unstored(n) = Len(m.list) - Len(m.done)
         /\ Scanned(n) = Upto(m, m.pos) /\ Decided(n) = {}
<1>1. /\ "score" \in Phase /\ Follows["score"] = "region" /\ Items(m, "score") = Len(m.done)
      /\ "score" \in Stage /\ "region" \in Stage
      /\ m.pos \in Nat \ {0} /\ m.pos + 1 \in Nat \ {0} /\ Len(m.list) \in Nat /\ Len(m.done) \in Nat
  BY DEF Phase, Follows, Items, Stage, Job
<1>2. n \in Job /\ n.list = m.list /\ n.done = m.done
  BY <1>1, AdvanceKeeps
<1>3. \A k : Upto(n, k) = Upto(m, k)
  BY <1>2 DEF Upto
<1>4. CASE n = Moved(m, "score", m.pos + 1)
  <2>1. n.stage = "score" /\ n.pos = m.pos + 1 /\ n.pos - 1 = m.pos
    <3>1. n.stage = "score" /\ n.pos = m.pos + 1
      BY <1>1, <1>4, MovedIsJob
    <3> QED
      BY <1>1, <3>1
  <2>2. "score" \in SweepStage \ Before
    BY DEF SweepStage, Before, Judging
  <2> QED
    BY <1>1, <1>2, <1>3, <2>1, <2>2, WhereItIs
<1>5. CASE n = Moved(m, "region", 1) /\ Len(m.done) <= m.pos
  <2>1. n.stage = "region" /\ Len(m.done) = m.pos
    <3>1. n.stage = "region"
      BY <1>1, <1>5, MovedIsJob
    <3> QED
      BY <1>1, <1>5, <3>1
  <2>2. "region" \in SweepStage \ Before
    BY DEF SweepStage, Before
  <2> QED
    BY <1>1, <1>2, <1>3, <2>1, <2>2, WhereItIs
<1>6. m.done # <<>>
  BY <1>1
<1> QED
  BY <1>1, <1>4, <1>5, <1>6, AdvanceMoves

LEMMA VerdictAdvances ==
  ASSUME NEW m \in Job, m.pos <= Len(m.done), NEW n, n = Advance(m, "verdict")
  PROVE  /\ n.stage \in {"verdict", "return"}
         /\ Unstored(n) = Len(m.list) - Len(m.done)
         /\ Scanned(n) = Upto(m, Len(m.done)) /\ Decided(n) = Upto(m, m.pos)
<1>1. /\ "verdict" \in Phase /\ Follows["verdict"] = "return" /\ Items(m, "verdict") = Len(m.done)
      /\ "verdict" \in Stage /\ "return" \in Stage
      /\ m.pos \in Nat \ {0} /\ m.pos + 1 \in Nat \ {0} /\ Len(m.list) \in Nat /\ Len(m.done) \in Nat
  BY DEF Phase, Follows, Items, Stage, Job
<1>2. n \in Job /\ n.list = m.list /\ n.done = m.done
  BY <1>1, AdvanceKeeps
<1>3. \A k : Upto(n, k) = Upto(m, k)
  BY <1>2 DEF Upto
<1>4. CASE n = Moved(m, "verdict", m.pos + 1)
  <2>1. n.stage = "verdict" /\ n.pos = m.pos + 1 /\ n.pos - 1 = m.pos
    <3>1. n.stage = "verdict" /\ n.pos = m.pos + 1
      BY <1>1, <1>4, MovedIsJob
    <3> QED
      BY <1>1, <3>1
  <2>2. "verdict" \in SweepStage \ Before /\ "verdict" \in Judging
    BY DEF SweepStage, Before, Judging
  <2> QED
    BY <1>1, <1>2, <1>3, <2>1, <2>2, WhereItIs
<1>5. CASE n = Moved(m, "return", 1) /\ Len(m.done) <= m.pos
  <2>1. n.stage = "return" /\ Len(m.done) = m.pos
    <3>1. n.stage = "return"
      BY <1>1, <1>5, MovedIsJob
    <3> QED
      BY <1>1, <1>5, <3>1
  <2>2. "return" \in SweepStage \ Before
    BY DEF SweepStage, Before
  <2> QED
    BY <1>1, <1>2, <1>3, <2>1, <2>2, WhereItIs
<1>6. m.done # <<>>
  BY <1>1
<1> QED
  BY <1>1, <1>4, <1>5, <1>6, AdvanceMoves

(* A step of another run says nothing about the rows of this one. *)
AgreeOn(S) ==
  \A i \in S :
    /\ inspections'[i] = inspections[i]
    /\ i \in DOMAIN scorings' <=> i \in DOMAIN scorings
    /\ i \in DOMAIN scorings => scorings'[i] = scorings[i]
    /\ i \in DOMAIN verdicts' <=> i \in DOMAIN verdicts
    /\ i \in DOMAIN verdicts => verdicts'[i] = verdicts[i]

LEMMA SetsStand ==
  ASSUME NEW S, AgreeOn(S), NEW j
  PROVE  /\ Unscored(S)' = Unscored(S) /\ Unjudged(j, S)' = Unjudged(j, S) /\ Acted(S)' = Acted(S)
         /\ \A i \in S : Promoted(j, i)' <=> Promoted(j, i)
<1>1. \A i \in S : Promoted(j, i)' <=> Promoted(j, i)
  BY DEF AgreeOn, Promoted, Scored, AboveThreshold
<1>2. Unscored(S)' = Unscored(S)
  BY DEF AgreeOn, Unscored, Scored
<1>3. Unjudged(j, S)' = Unjudged(j, S)
  BY <1>1 DEF AgreeOn, Unjudged
<1>4. Acted(S)' = Acted(S)
  BY DEF AgreeOn, Acted
<1> QED
  BY <1>1, <1>2, <1>3, <1>4

LEMMA TalliesStand ==
  ASSUME NEW j \in Job, Placed(j), Tallies(j), AgreeOn(Upto(j, Len(j.done)))
  PROVE  Tallies(j)'
<1> DEFINE S == Upto(j, Len(j.done))
<1>1. \A k \in 1..Len(j.done) : j.done[k] \in S
  BY DEF Upto
<1>2. Scanned(j) \subseteq S /\ Decided(j) \subseteq S
  <2>1. j.pos \in Nat /\ Len(j.done) \in Nat
    BY DEF Job
  <2>2. j.stage \in {"score"} \cup Judging => j.pos - 1 <= Len(j.done)
    BY <2>1 DEF Placed, Judging
  <2>3. ASSUME j.stage \in {"score"} \cup Judging
        PROVE  Upto(j, j.pos - 1) \subseteq S
    <3>1. \A k \in 1..(j.pos - 1) : k \in 1..Len(j.done)
      BY <2>1, <2>2, <2>3
    <3> QED
      BY <3>1 DEF Upto
  <2> QED
    BY <2>3 DEF Scanned, Decided
<1>3. AgreeOn(S) /\ AgreeOn(Scanned(j)) /\ AgreeOn(Decided(j))
  BY <1>2 DEF AgreeOn
<1>4. Unscanned(j)'
  BY <1>1, <1>3 DEF Tallies, Unscanned, AgreeOn
<1>5. Backs(j)'
  <2>1. \A i \in S : (Promoted(j, i)' <=> Promoted(j, i)) /\ (i \in DOMAIN verdicts' <=> i \in DOMAIN verdicts)
    BY <1>3, SetsStand DEF AgreeOn
  <2> QED
    BY <1>1, <2>1 DEF Tallies, Backs
<1>6. Balanced(j)'
  <2>1. /\ Unscored(Scanned(j))' = Unscored(Scanned(j))
        /\ Unjudged(j, Decided(j))' = Unjudged(j, Decided(j))
        /\ Acted(Decided(j))' = Acted(Decided(j))
    <3> DEFINE A == Scanned(j)
               B == Decided(j)
    <3>1. AgreeOn(A) /\ AgreeOn(B)
      BY <1>3
    <3> HIDE DEF A, B
    <3>2. Unscored(A)' = Unscored(A) /\ Unjudged(j, B)' = Unjudged(j, B) /\ Acted(B)' = Acted(B)
      BY <3>1, SetsStand
    <3> QED
      BY <3>2 DEF A, B
  <2> QED
    BY <2>1 DEF Tallies, Balanced
<1> QED
  BY <1>4, <1>5, <1>6 DEF Tallies

LEMMA TalliesFresh ==
  ASSUME NEW n, n.done = <<>>, n.stage \notin SweepStage
  PROVE  Tallies(n) /\ Tallies(n)'
BY DEF Tallies, Unscanned, Backs, Balanced

LEMMA NoneInEmpty ==
  ASSUME NEW j
  PROVE  /\ Cardinality(Unscored({})) = 0 /\ Cardinality(Unjudged(j, {})) = 0
         /\ Cardinality(Acted({})) = 0
         /\ Cardinality(Unscored({})') = 0 /\ Cardinality(Unjudged(j, {})') = 0
         /\ Cardinality(Acted({})') = 0
<1>1. /\ Unscored({}) = {} /\ Unjudged(j, {}) = {} /\ Acted({}) = {}
      /\ Unscored({})' = {} /\ Unjudged(j, {})' = {} /\ Acted({})' = {}
  BY DEF Unscored, Unjudged, Acted
<1> QED
  BY <1>1, FS_EmptySet

(* A run whose loop advances is balanced if it was, and counted a loss.     *)
LEMMA TalliesInspected ==
  ASSUME NEW m \in Job, m.pos <= Len(m.list), NEW n, n = Advance(m, "inspect"),
         m.errors + m.alerted = m.pos - Len(m.done),
         \A k \in 1..Len(m.done) : m.done[k] \notin DOMAIN scorings' /\ m.done[k] \notin DOMAIN verdicts'
  PROVE  Tallies(n)'
<1>1. "inspect" \in Phase
  BY DEF Phase
<1>2. n.errors = m.errors /\ n.alerted = m.alerted /\ n.done = m.done
  BY <1>1, AdvanceKeeps
<1>3. Unscanned(n)' /\ Backs(n)'
  BY <1>2 DEF Unscanned, Backs
<1>4. Balanced(n)'
  <2>1. Unstored(n) = m.pos - Len(m.done) /\ Scanned(n) = {} /\ Decided(n) = {}
    BY InspectAdvances
  <2>2. m.errors + m.alerted = Unstored(n) + 0 + 0 + 0
    BY <2>1 DEF Job
  <2> QED
    BY <1>2, <2>1, <2>2, NoneInEmpty DEF Balanced
<1> QED
  BY <1>3, <1>4 DEF Tallies

LEMMA TalliesScored ==
  ASSUME NEW m \in Job, m.pos <= Len(m.done), NEW n, n = Advance(m, "score"),
         m.errors + m.alerted =
           (Len(m.list) - Len(m.done)) + Cardinality(Unscored(Upto(m, m.pos))'),
         \A k \in 1..Len(m.done) :
           /\ m.pos < k => m.done[k] \notin DOMAIN scorings'
           /\ m.done[k] \notin DOMAIN verdicts'
  PROVE  Tallies(n)'
<1>1. "score" \in Phase /\ m.pos \in Nat /\ m.errors \in Nat /\ m.alerted \in Nat
      /\ "score" \notin Before /\ "region" \notin Before
  BY DEF Phase, Job, Before
<1>2. n.errors = m.errors /\ n.alerted = m.alerted /\ n.done = m.done
  BY <1>1, AdvanceKeeps
<1>3. /\ n.stage \in {"score", "region"} /\ (n.stage = "score" => n.pos = m.pos + 1)
      /\ Unstored(n) = Len(m.list) - Len(m.done)
      /\ Scanned(n) = Upto(m, m.pos) /\ Decided(n) = {}
  BY ScoreAdvances
<1>4. Unscanned(n)'
  BY <1>1, <1>2, <1>3 DEF Unscanned
<1>5. Backs(n)'
  BY <1>2 DEF Backs
<1>6. Balanced(n)'
  <2> DEFINE u == Cardinality(Unscored(Upto(m, m.pos))')
  <2>1. u = Cardinality(Unscored(Scanned(n))')
    BY <1>3
  <2>2. m.errors + m.alerted = Unstored(n) + u + 0 + 0
    <3> HIDE DEF u
    <3>1. m.errors + m.alerted = Unstored(n) + u
      BY <1>3 DEF u
    <3> QED
      BY <1>1, <3>1
  <2> HIDE DEF u
  <2> QED
    BY <1>2, <1>3, <2>1, <2>2, NoneInEmpty DEF Balanced
<1> QED
  BY <1>4, <1>5, <1>6 DEF Tallies

LEMMA TalliesDecided ==
  ASSUME NEW m \in Job, m.pos <= Len(m.done), NEW n, n = Advance(m, "verdict"),
         m.errors + m.alerted =
           (Len(m.list) - Len(m.done)) + Cardinality(Unscored(Upto(m, Len(m.done)))')
             + Cardinality(Unjudged(m, Upto(m, m.pos))') + Cardinality(Acted(Upto(m, m.pos))'),
         Backs(m)'
  PROVE  Tallies(n)'
<1>1. "verdict" \in Phase /\ "verdict" \notin Before /\ "return" \notin Before
  BY DEF Phase, Before
<1>2. n.errors = m.errors /\ n.alerted = m.alerted /\ n.done = m.done /\ n.cloaked = m.cloaked
  BY <1>1, AdvanceKeeps
<1>3. /\ n.stage \in {"verdict", "return"}
      /\ Unstored(n) = Len(m.list) - Len(m.done)
      /\ Scanned(n) = Upto(m, Len(m.done)) /\ Decided(n) = Upto(m, m.pos)
  BY VerdictAdvances
<1>4. Unscanned(n)'
  BY <1>1, <1>3 DEF Unscanned
<1>5. Backs(n)'
  BY <1>2 DEF Backs, Promoted
<1>6. Balanced(n)'
  <2>1. \A S : Unjudged(n, S)' = Unjudged(m, S)'
    BY <1>2 DEF Unjudged, Promoted
  <2> QED
    BY <1>2, <1>3, <2>1 DEF Balanced
<1> QED
  BY <1>4, <1>5, <1>6 DEF Tallies

(* What is known of the run that steps. *)
Steps(p, j, n) ==
  /\ j = job[p] /\ n = job'[p] /\ j \in Job /\ Placed(j) /\ Holds(j) /\ Tallies(j)
  /\ \A m : Goes(p, m) => n = m

LEMMA TalliesBegun ==
  ASSUME TypesInv, NEW p \in Proc, NEW j, NEW n, Steps(p, j, n),
         Sweep(p) \/ ReturnStats(p) \/ Recheck(p) \/ AnswerRecheck(p) \/ RecheckRaises(p)
           \/ Dies(p) \/ ListSuspects(p)
  PROVE  Tallies(n)'
<1>1. CASE Sweep(p) \/ ReturnStats(p) \/ AnswerRecheck(p) \/ RecheckRaises(p) \/ Dies(p)
  <2>1. n = Idle \/ n = [Idle EXCEPT !.stage = "list"]
    BY <1>1 DEF Steps, Sweep, ReturnStats, AnswerRecheck, RecheckRaises, Dies
  <2>2. n.done = <<>> /\ n.stage \in {"idle", "list"}
    BY <2>1 DEF Idle
  <2>3. n.stage \notin SweepStage
    BY <2>2 DEF SweepStage, Before, Judging
  <2> QED
    BY <2>2, <2>3, TalliesFresh
<1>2. CASE Recheck(p)
  <2> DEFINE l == Newest(MaxInspect)
             prior == [k \in DOMAIN l |-> PriorInspection(l[k])]
  <2>1. n = [Idle EXCEPT !.list = l, !.prior = prior,
                         !.stage = IF l = <<>> THEN "answer" ELSE "recheck"]
    BY <1>2 DEF Steps, Recheck
  <2> HIDE DEF l, prior
  <2>2. n.done = <<>> /\ n.stage \in {"answer", "recheck"}
    BY <2>1 DEF Idle
  <2>3. n.stage \notin SweepStage
    BY <2>2 DEF SweepStage, Before, Judging
  <2> QED
    BY <2>2, <2>3, TalliesFresh
<1>3. CASE ListSuspects(p)
  <2> DEFINE l == Newest(MaxInspect)
  <2>1. j = [Idle EXCEPT !.stage = "list"]
    BY <1>3 DEF Steps, ListSuspects, At, Placed
  <2>2. n = [j EXCEPT !.list = l, !.stage = IF l = <<>> THEN "return" ELSE "inspect"]
    BY <1>3 DEF Steps, ListSuspects
  <2> HIDE DEF l
  <2>3. /\ n.done = <<>> /\ n.pos = 1 /\ n.errors = 0 /\ n.alerted = 0 /\ n.list = l
        /\ n.stage = IF l = <<>> THEN "return" ELSE "inspect"
    BY <2>1, <2>2 DEF Idle
  <2>4. Len(n.done) = 0 /\ (n.stage = "return" => Len(n.list) = 0)
    <3>1. Len(<<>>) = 0
      OBVIOUS
    <3> QED
      BY <2>3, <3>1
  <2>5. Unscanned(n)' /\ Backs(n)'
    BY <2>4 DEF Unscanned, Backs
  <2>6. Upto(n, Len(n.done)) = {}
    BY <2>4 DEF Upto
  <2>7. Unstored(n) = 0 /\ Scanned(n) = {} /\ Decided(n) = {}
    <3>1. "inspect" \in Before /\ "return" \in SweepStage \ Before
      BY DEF SweepStage, Before
    <3>2. CASE n.stage = "inspect"
      <4>1. Unstored(n) = (n.pos - 1) - Len(n.done) /\ Scanned(n) = {} /\ Decided(n) = {}
        BY <3>1, <3>2, WhereItIs
      <4> QED
        BY <2>3, <2>4, <4>1
    <3>3. CASE n.stage = "return"
      <4>1. /\ Unstored(n) = Len(n.list) - Len(n.done)
            /\ Scanned(n) = {} /\ Decided(n) = {}
        BY <2>6, <3>1, <3>3, WhereItIs
      <4> QED
        BY <2>4, <3>3, <4>1
    <3> QED
      BY <2>3, <3>2, <3>3
  <2>8. Balanced(n)'
    <3>1. n.errors + n.alerted = Unstored(n) + 0 + 0 + 0
      BY <2>3, <2>7
    <3> QED
      BY <2>7, <3>1, NoneInEmpty DEF Balanced
  <2> QED
    BY <2>5, <2>8 DEF Tallies
<1> QED
  BY <1>1, <1>2, <1>3

(* A run whose tables, position and rows stay as they are. *)
LEMMA TalliesKept ==
  ASSUME UNCHANGED <<inspections, scorings, verdicts>>, NEW j, NEW n, Tallies(j),
         n.done = j.done, n.cloaked = j.cloaked,
         \/ n.stage \notin SweepStage
         \/ /\ n.list = j.list /\ n.pos = j.pos /\ n.errors = j.errors /\ n.alerted = j.alerted
            /\ \/ j.stage \in Before /\ n.stage \in Before
               \/ j.stage \in Judging /\ n.stage \in Judging
  PROVE  Tallies(n)'
<1>1. Backs(n)'
  BY DEF Tallies, Backs, Promoted, Scored, AboveThreshold
<1>2. CASE n.stage \notin SweepStage
  BY <1>1, <1>2 DEF Tallies, Unscanned, Balanced, SweepStage
<1>3. CASE /\ n.list = j.list /\ n.pos = j.pos /\ n.errors = j.errors /\ n.alerted = j.alerted
           /\ \/ j.stage \in Before /\ n.stage \in Before
              \/ j.stage \in Judging /\ n.stage \in Judging
  <2>1. /\ j.stage \in SweepStage /\ n.stage # "score"
        /\ n.stage \in Before => j.stage \in Before
        /\ n.stage \in Judging => j.stage \in Judging
        /\ n.stage \in Judging => n.stage \notin Before /\ j.stage \notin Before
    BY <1>3 DEF SweepStage, Before, Judging
  <2>2. Unscanned(n)'
    BY <1>3, <2>1 DEF Tallies, Unscanned
  <2>3. Unstored(n) = Unstored(j) /\ Scanned(n) = Scanned(j) /\ Decided(n) = Decided(j)
    <3>1. \A k : Upto(n, k) = Upto(j, k)
      BY DEF Upto
    <3>2. CASE j.stage \in Before /\ n.stage \in Before
      BY <1>3, <3>2, WhereItIs
    <3>3. CASE j.stage \in Judging /\ n.stage \in Judging
      <4>1. Unstored(n) = Len(n.list) - Len(n.done) /\ Unstored(j) = Len(j.list) - Len(j.done)
        BY <2>1, <3>3 DEF Unstored
      <4> QED
        BY <1>3, <3>1, <3>3, <4>1, WhereItIs
    <3> QED
      BY <1>3, <3>2, <3>3
  <2>4. \A S : /\ Unscored(S)' = Unscored(S) /\ Unjudged(n, S)' = Unjudged(j, S)
               /\ Acted(S)' = Acted(S)
    BY DEF Unscored, Unjudged, Acted, Promoted, Scored, AboveThreshold
  <2>5. Balanced(n)'
    BY <1>3, <2>1, <2>3, <2>4 DEF Tallies, Balanced
  <2> QED
    BY <1>1, <2>2, <2>5 DEF Tallies
<1> QED
  BY <1>2, <1>3

LEMMA InspectGoes ==
  ASSUME TypesInv, NEW p \in Proc, Inspect(p)
  PROVE  /\ job[p].stage = "inspect" /\ job'[p].stage = "read"
         /\ job'[p].done = job[p].done /\ job'[p].cloaked = job[p].cloaked
         /\ job'[p].list = job[p].list /\ job'[p].pos = job[p].pos
         /\ job'[p].errors = job[p].errors /\ job'[p].alerted = job[p].alerted
<1>1. job[p] \in Job /\ job \in [Proc -> Job] /\ \A m : Goes(p, m) => job'[p] = m
  BY DEF Goes, TypesInv, JobsOK
<1>2. PICK s, ok : job'[p] = [job[p] EXCEPT !.stage = "read", !.fresh = Rendered(s, ok, "sweep")]
  BY <1>1, Zenon DEF Inspect
<1>3. job[p].stage = "inspect"
  BY DEF Inspect, At
<1> QED
  BY <1>1, <1>2, <1>3 DEF Job

LEMMA TalliesRechecked ==
  ASSUME TypesInv, NEW p \in Proc, NEW j, NEW n, Steps(p, j, n),
         Inspect(p) \/ ReadLast(p) \/ Reinspect(p) \/ CreateAlert(p)
  PROVE  Tallies(n)'
<1>1. j \in Job /\ Tallies(j) /\ \A m : Goes(p, m) => n = m
  BY DEF Steps
<1>2. UNCHANGED <<inspections, scorings, verdicts>>
  BY Zenon DEF Inspect, ReadLast, Reinspect, CreateAlert, tables
<1>3. CASE Inspect(p)
  <2>1. job[p] = j /\ job[p] \in Job /\ \A m : Goes(p, m) => n = m
    BY DEF Steps
  <2>2. /\ n.done = job[p].done /\ n.cloaked = job[p].cloaked /\ n.list = job[p].list
        /\ n.pos = job[p].pos /\ n.errors = job[p].errors /\ n.alerted = job[p].alerted
        /\ n.stage = "read"
    BY <1>3, InspectGoes DEF Steps
  <2>3. j.stage \in Before /\ n.stage \in Before
    <3>1. job[p].stage = "inspect"
      BY <1>3, InspectGoes DEF Steps
    <3> QED
      BY <2>1, <2>2, <3>1 DEF Before
  <2> QED
    BY <1>1, <1>2, <2>1, <2>2, <2>3, TalliesKept
<1>4. CASE ReadLast(p)
  <2>1. n = [j EXCEPT !.stage = IF @ = "read" THEN "store" ELSE "restore", !.fresh.prev = LastInspection]
    BY <1>1, <1>4 DEF Steps, ReadLast
  <2>2. /\ n.done = j.done /\ n.cloaked = j.cloaked /\ n.list = j.list /\ n.pos = j.pos
        /\ n.errors = j.errors /\ n.alerted = j.alerted
        /\ n.stage = IF j.stage = "read" THEN "store" ELSE "restore"
    BY <1>1, <2>1 DEF Job
  <2>3. (j.stage \in Before /\ n.stage \in Before) \/ n.stage \notin SweepStage
    BY <2>2 DEF Before, Judging, SweepStage
  <2> QED
    BY <1>1, <1>2, <2>2, <2>3, TalliesKept
<1>5. CASE Reinspect(p)
  <2>1. \/ n = Advance(j, "recheck")
        \/ n.stage = "reread" /\ n.done = j.done /\ n.cloaked = j.cloaked
    <3>1. job[p] = j /\ job[p] \in Job /\ \A m : Goes(p, m) => n = m
      BY DEF Steps
    <3>2. \/ n = Advance(job[p], "recheck")
          \/ n.stage = "reread" /\ n.done = job[p].done /\ n.cloaked = job[p].cloaked
      BY <1>5, <3>1 DEF Reinspect, Job
    <3> QED
      BY <3>1, <3>2
  <2>2. CASE n = Advance(j, "recheck")
    <3>1. "recheck" \in Phase
      BY DEF Phase
    <3>2. n.stage \in {"recheck", "answer"} /\ n.done = j.done /\ n.cloaked = j.cloaked
      BY <1>1, <2>2, <3>1, AdvanceKeeps, RecheckGoesOn
    <3>3. n.stage \notin SweepStage
      BY <3>2 DEF Before, Judging, SweepStage
    <3> QED
      BY <1>1, <1>2, <3>2, <3>3, TalliesKept
  <2>3. CASE n.stage = "reread" /\ n.done = j.done /\ n.cloaked = j.cloaked
    <3>1. n.stage \notin SweepStage
      BY <2>3 DEF Before, Judging, SweepStage
    <3> QED
      BY <1>1, <1>2, <2>3, <3>1, TalliesKept
  <2> QED
    BY <2>1, <2>2, <2>3
<1>6. CASE CreateAlert(p)
  <2>1. n = [j EXCEPT !.stage = "dispatch"] /\ j.stage = "alert"
    BY <1>1, <1>6 DEF Steps, CreateAlert, At
  <2>2. /\ n.done = j.done /\ n.cloaked = j.cloaked /\ n.list = j.list /\ n.pos = j.pos
        /\ n.errors = j.errors /\ n.alerted = j.alerted /\ n.stage = "dispatch"
    BY <1>1, <2>1 DEF Job
  <2>3. j.stage \in Judging /\ n.stage \in Judging
    BY <2>1, <2>2 DEF Judging
  <2> QED
    BY <1>1, <1>2, <2>2, <2>3, TalliesKept
<1> QED
  BY <1>3, <1>4, <1>5, <1>6

(* One loss more, or one row more, in the loop over the suspects. *)
LEMMA LossShifts ==
  ASSUME NEW a \in Nat, NEW b \in Nat, NEW c \in Nat, NEW d \in Nat, a + b = (c - 1) - d
  PROVE  (a + 1) + b = c - d /\ a + b = c - (d + 1)
OBVIOUS

LEMMA LossAdds ==
  ASSUME NEW a \in Nat, NEW b \in Nat, NEW c \in Nat, NEW d \in Nat, NEW u \in Nat,
         a + b = (c - d) + u
  PROVE  (a + 1) + b = (c - d) + (u + 1)
OBVIOUS

LEMMA NoneAdded ==
  ASSUME NEW c \in Nat, NEW d \in Nat, NEW u \in Nat
  PROVE  /\ (c - d) + 0 + 0 + 0 = c - d
         /\ (c - d) + u + 0 + 0 = (c - d) + u
OBVIOUS

LEMMA TalliesStored ==
  ASSUME TypesInv, BackedInv, NEW p \in Proc, NEW j, NEW n, Steps(p, j, n),
         Store(p) \/ InspectionFails(p) \/ StoreReinspection(p)
  PROVE  Tallies(n)'
<1>1. /\ j \in Job /\ Placed(j) /\ Tallies(j) /\ Holds(j) /\ j = job[p]
      /\ \A m : Goes(p, m) => n = m
  BY DEF Steps
<1>2. UNCHANGED <<scorings, verdicts>>
  BY DEF Store, InspectionFails, StoreReinspection, tables
<1>3. /\ j.pos \in Nat /\ Len(j.done) \in Nat /\ j.errors \in Nat /\ j.alerted \in Nat
      /\ j.done \in Seq(Nat)
  BY <1>1 DEF Job
<1>4. \A i \in DOMAIN verdicts : i \in DOMAIN scorings /\ i \in Row
  BY DEF BackedInv, Filings, Passed, Scored
<1>5. ASSUME j.stage \in {"inspect", "store"}
      PROVE  /\ j.pos <= Len(j.list) /\ j.errors + j.alerted = (j.pos - 1) - Len(j.done)
             /\ \A k \in 1..Len(j.done) : j.done[k] \notin DOMAIN scorings /\ j.done[k] \notin DOMAIN verdicts
  <2>1. j.stage \in Before /\ j.stage \in SweepStage
    BY <1>5 DEF Before, SweepStage
  <2>2. \A k \in 1..Len(j.done) : j.done[k] \notin DOMAIN scorings
    BY <1>1, <2>1 DEF Tallies, Unscanned
  <2>3. Unstored(j) = (j.pos - 1) - Len(j.done) /\ Scanned(j) = {} /\ Decided(j) = {}
    BY <2>1, WhereItIs
  <2>4. j.errors + j.alerted = Unstored(j) + 0 + 0 + 0
    BY <1>1, <2>1, <2>3, NoneInEmpty DEF Tallies, Balanced
  <2>5. j.errors + j.alerted = (j.pos - 1) - Len(j.done)
    BY <1>3, <2>3, <2>4
  <2> QED
    BY <1>1, <1>4, <1>5, <2>2, <2>5 DEF Placed
<1>6. CASE InspectionFails(p)
  <2> DEFINE m == Erring(j)
  <2>1. n = Advance(m, "inspect") /\ j.stage \in {"inspect", "store"}
    BY <1>1, <1>6 DEF InspectionFails
  <2>2. /\ m \in Job /\ m.done = j.done /\ m.list = j.list /\ m.pos = j.pos
        /\ m.errors = j.errors + 1 /\ m.alerted = j.alerted
    BY <1>1, NotedIsJob DEF Erring, Job
  <2> HIDE DEF m
  <2>3. m.errors + m.alerted = m.pos - Len(m.done)
    <3>1. j.errors + j.alerted = (j.pos - 1) - Len(j.done)
      BY <1>5, <2>1
    <3>2. PICK a, b, c, d \in Nat : a = j.errors /\ b = j.alerted /\ c = j.pos /\ d = Len(j.done)
      BY <1>3
    <3>3. a + b = (c - 1) - d
      BY <3>1, <3>2
    <3>4. (a + 1) + b = c - d
      BY <3>3, LossShifts
    <3> QED
      BY <2>2, <3>2, <3>4
  <2> QED
    BY <1>2, <1>5, <2>1, <2>2, <2>3, TalliesInspected
<1>7. CASE Store(p)
  <2> DEFINE row == Len(inspections')
             m == [j EXCEPT !.done = Append(@, row)]
  <2>1. n = Advance(m, "inspect") /\ j.stage = "store"
    BY <1>1, <1>7 DEF Store, At
  <2>2. row \in Nat /\ row \notin Row
    <3>1. inspections' = Append(inspections, j.fresh) /\ inspections \in Seq(Inspection)
      BY <1>1, <1>7 DEF Store, Chained, TypesInv, TablesOK
    <3> QED
      BY <3>1 DEF Row
  <2>3. m \in Job
    BY <1>1, <2>2, NotedIsJob
  <2> HIDE DEF row
  <2>4. /\ m.done = Append(j.done, row) /\ m.list = j.list /\ m.pos = j.pos
        /\ m.errors = j.errors /\ m.alerted = j.alerted
    BY <1>1 DEF Job
  <2> HIDE DEF m
  <2>5. /\ Len(m.done) = Len(j.done) + 1
        /\ \A k \in 1..Len(m.done) : m.done[k] = row \/ \E l \in 1..Len(j.done) : m.done[k] = j.done[l]
    BY <1>3, <2>2, <2>4
  <2>6. m.errors + m.alerted = m.pos - Len(m.done)
    <3>1. j.errors + j.alerted = (j.pos - 1) - Len(j.done)
      BY <1>5, <2>1
    <3>2. PICK a, b, c, d \in Nat : a = j.errors /\ b = j.alerted /\ c = j.pos /\ d = Len(j.done)
      BY <1>3
    <3>3. a + b = (c - 1) - d
      BY <3>1, <3>2
    <3>4. a + b = c - (d + 1)
      BY <3>3, LossShifts
    <3> QED
      BY <2>4, <2>5, <3>2, <3>4
  <2>7. \A i \in DOMAIN scorings : i \in Row
    BY DEF BackedInv, Filings
  <2>8. \A k \in 1..Len(m.done) : m.done[k] \notin DOMAIN scorings /\ m.done[k] \notin DOMAIN verdicts
    BY <1>4, <1>5, <2>1, <2>2, <2>5, <2>7
  <2> QED
    BY <1>2, <1>5, <2>1, <2>3, <2>4, <2>6, <2>8, TalliesInspected
<1>8. CASE StoreReinspection(p)
  <2> DEFINE noted == IF j.fresh.kind = "bomb" THEN j.bombs \cup {Len(inspections')} ELSE j.bombs
             m == [j EXCEPT !.bombs = noted]
  <2>1. n = Advance(m, "recheck")
    BY <1>1, <1>8 DEF StoreReinspection
  <2>2. Len(inspections') \in Nat
    BY <1>8 DEF StoreReinspection, Chained, TypesInv, TablesOK
  <2>3. noted \in SUBSET Nat
    BY <1>1, <2>2 DEF Job
  <2>4. m \in Job /\ m.done = j.done /\ m.cloaked = j.cloaked
    <3> HIDE DEF noted
    <3> QED
      BY <1>1, <2>3 DEF Job
  <2> HIDE DEF m
  <2>5. "recheck" \in Phase
    BY DEF Phase
  <2>6. n.stage \in {"recheck", "answer"} /\ n.done = j.done /\ n.cloaked = j.cloaked
    BY <2>1, <2>4, <2>5, AdvanceKeeps, RecheckGoesOn
  <2>7. n.stage \notin SweepStage /\ n.stage \notin Before /\ n.stage # "score"
    BY <2>6 DEF Before, Judging, SweepStage
  <2>8. Backs(n)'
    BY <1>1, <1>2, <2>6 DEF Tallies, Backs, Promoted, Scored, AboveThreshold
  <2> QED
    BY <2>7, <2>8 DEF Tallies, Unscanned, Balanced
<1> QED
  BY <1>6, <1>7, <1>8

LEMMA TalliesScoring ==
  ASSUME TypesInv, BackedInv, NEW p \in Proc, NEW j, NEW n, Steps(p, j, n),
         Score(p) \/ ScoringSkipped(p) \/ ScoringFails(p)
  PROVE  Tallies(n)'
<1>0. PICK S, x : S = Upto(j, j.pos - 1) /\ x = Subject(p)
  OBVIOUS
<1>1. /\ j \in Job /\ Placed(j) /\ Tallies(j) /\ Holds(j) /\ j = job[p] /\ Owns(j)
      /\ \A m : Goes(p, m) => n = m
  BY DEF Steps, Holds
<1>2. /\ UNCHANGED <<inspections, verdicts>> /\ j.stage = "score"
  BY <1>1 DEF Score, ScoringSkipped, ScoringFails, tables, At
<1>3. /\ j.pos \in Nat /\ Len(j.done) \in Nat /\ j.errors \in Nat /\ j.alerted \in Nat
      /\ Len(j.list) \in Nat /\ j.pos \in 1..Len(j.done) /\ x = j.done[j.pos]
      /\ j.pos <= Len(j.done) /\ \A k \in 1..Len(j.done) : j.done[k] \in Nat
  <2>1. /\ j.pos \in Nat \ {0} /\ Len(j.done) \in Nat /\ j.errors \in Nat /\ j.alerted \in Nat
        /\ Len(j.list) \in Nat /\ \A k \in 1..Len(j.done) : j.done[k] \in Nat
    BY <1>1, SMTT(30) DEF Job
  <2>2. j.pos <= Len(j.done)
    BY <1>1, <1>2 DEF Placed
  <2>3. x = j.done[j.pos]
    BY <1>0, <1>1 DEF Subject
  <2> QED
    BY <2>1, <2>2, <2>3
<1>4. /\ Upto(j, j.pos) = S \cup {x} /\ x \notin S /\ IsFiniteSet(S)
  BY <1>0, <1>1, <1>3, UptoGrows
<1>5. /\ j.errors + j.alerted = (Len(j.list) - Len(j.done)) + Cardinality(Unscored(S))
      /\ Cardinality(Unscored(S)) \in Nat /\ IsFiniteSet(Unscored(S))
  <2>1. "score" \in SweepStage \ Before
    BY DEF SweepStage, Before
  <2>2. Unstored(j) = Len(j.list) - Len(j.done) /\ Scanned(j) = S /\ Decided(j) = {}
    BY <1>0, <1>2, <2>1, WhereItIs
  <2>3. IsFiniteSet(Unscored(S)) /\ Cardinality(Unscored(S)) \in Nat
    BY <1>4, FS_Subset, FS_CardinalityType DEF Unscored
  <2> DEFINE u == Cardinality(Unscored(S))
  <2>4. j.errors + j.alerted = Unstored(j) + u + 0 + 0
    BY <1>1, <1>2, <2>1, <2>2, NoneInEmpty DEF Tallies, Balanced
  <2> HIDE DEF u
  <2>5. j.errors + j.alerted = (Len(j.list) - Len(j.done)) + u
    <3>1. u \in Nat
      BY <2>3 DEF u
    <3>2. (Len(j.list) - Len(j.done)) + u + 0 + 0 = (Len(j.list) - Len(j.done)) + u
      BY <1>3, <3>1, NoneAdded, ZenonT(40)
    <3> QED
      BY <2>2, <2>4, <3>2
  <2> QED
    BY <2>3, <2>5 DEF u
<1>6. /\ \A k \in 1..Len(j.done) : j.pos <= k => j.done[k] \notin DOMAIN scorings
      /\ \A k \in 1..Len(j.done) : j.done[k] \notin DOMAIN verdicts
  BY <1>1, <1>2 DEF Tallies, Unscanned, Holds, Waits, Pending
<1>7. x \notin DOMAIN scorings
  BY <1>3, <1>6
<1>8. \A k \in 1..Len(j.done) : j.pos < k => j.done[k] # x
  <2>1. ASSUME NEW k \in 1..Len(j.done), j.pos < k PROVE j.done[k] # x
    <3>1. j.done[j.pos] < j.done[k]
      BY <1>1, <1>3, <2>1 DEF Owns
    <3>2. j.done[j.pos] \in Nat /\ j.done[k] \in Nat
      BY <1>3, <2>1
    <3> QED
      BY <1>3, <3>1, <3>2
  <2> QED
    BY <2>1
<1>9. CASE Score(p)
  <2>1. PICK above \in BOOLEAN : scorings' = Filed(scorings, x, above)
    BY <1>0, <1>9 DEF Score
  <2>2. DOMAIN scorings' = DOMAIN scorings \cup {x}
    BY <2>1 DEF Filed
  <2>3. Unscored(S \cup {x})' = Unscored(S)
    BY <1>2, <1>4, <2>2 DEF Unscored, Scored
  <2>4. n = Advance(j, "score")
    BY <1>1, <1>9 DEF Score
  <2>5. \A k \in 1..Len(j.done) : /\ j.pos < k => j.done[k] \notin DOMAIN scorings'
                                  /\ j.done[k] \notin DOMAIN verdicts'
    BY <1>2, <1>3, <1>6, <1>8, <2>2
  <2>6. j.errors + j.alerted = (Len(j.list) - Len(j.done)) + Cardinality(Unscored(Upto(j, j.pos))')
    BY <1>4, <1>5, <2>3
  <2> QED
    BY <1>1, <1>3, <2>4, <2>5, <2>6, TalliesScored
<1>10. CASE ScoringSkipped(p)
  <2>1. scorings' = scorings /\ ~inspections[x].ok /\ n = Advance(j, "score")
    BY <1>0, <1>1, <1>10 DEF ScoringSkipped, tables
  <2>2. Unscored(S \cup {x})' = Unscored(S)
    BY <1>2, <2>1 DEF Unscored, Scored
  <2>3. \A k \in 1..Len(j.done) : /\ j.pos < k => j.done[k] \notin DOMAIN scorings'
                                  /\ j.done[k] \notin DOMAIN verdicts'
    BY <1>2, <1>3, <1>6, <2>1
  <2>4. j.errors + j.alerted = (Len(j.list) - Len(j.done)) + Cardinality(Unscored(Upto(j, j.pos))')
    BY <1>4, <1>5, <2>2
  <2> QED
    BY <1>1, <1>3, <2>1, <2>3, <2>4, TalliesScored
<1>11. CASE ScoringFails(p)
  <2> DEFINE m == Erring(j)
  <2>1. scorings' = scorings /\ inspections[x].ok /\ n = Advance(m, "score")
    BY <1>0, <1>1, <1>11 DEF ScoringFails, tables
  <2>2. /\ m \in Job /\ m.done = j.done /\ m.list = j.list /\ m.pos = j.pos
        /\ m.errors = j.errors + 1 /\ m.alerted = j.alerted
    BY <1>1, NotedIsJob DEF Erring, Job
  <2> HIDE DEF m
  <2>3. Unscored(S \cup {x})' = Unscored(S) \cup {x} /\ x \notin Unscored(S)
    BY <1>2, <1>4, <1>7, <2>1 DEF Unscored, Scored
  <2>4. Cardinality(Unscored(S) \cup {x}) = Cardinality(Unscored(S)) + 1
    BY <1>5, <2>3, FS_AddElement
  <2>5. Upto(m, m.pos) = S \cup {x}
    BY <1>4, <2>2 DEF Upto
  <2>6. \A k \in 1..Len(m.done) : /\ m.pos < k => m.done[k] \notin DOMAIN scorings'
                                  /\ m.done[k] \notin DOMAIN verdicts'
    BY <1>2, <1>3, <1>6, <2>1, <2>2
  <2>7. m.errors + m.alerted = (Len(m.list) - Len(m.done)) + Cardinality(Unscored(Upto(m, m.pos))')
    <3> DEFINE u == Cardinality(Unscored(S))
    <3>1. Cardinality(Unscored(Upto(m, m.pos))') = u + 1
      BY <2>3, <2>4, <2>5
    <3>2. j.errors + j.alerted = (Len(j.list) - Len(j.done)) + u /\ u \in Nat
      BY <1>5
    <3> HIDE DEF u
    <3>3. (j.errors + 1) + j.alerted = (Len(j.list) - Len(j.done)) + (u + 1)
      <4>1. PICK a, b, c, d \in Nat :
              a = j.errors /\ b = j.alerted /\ c = Len(j.list) /\ d = Len(j.done)
        BY <1>3
      <4>2. a + b = (c - d) + u
        BY <3>2, <4>1
      <4>3. (a + 1) + b = (c - d) + (u + 1)
        BY <3>2, <4>2, LossAdds
      <4> QED
        BY <4>1, <4>3
    <3>4. m.errors + m.alerted = (Len(m.list) - Len(m.done)) + (u + 1)
      BY <2>2, <3>3
    <3> QED
      BY <3>1, <3>4
  <2>8. m.pos <= Len(m.done)
    BY <1>3, <2>2
  <2> QED
    BY <2>1, <2>2, <2>6, <2>7, <2>8, TalliesScored
<1> QED
  BY <1>9, <1>10, <1>11

LEMMA TalliesPromoting ==
  ASSUME TypesInv, NEW p \in Proc, NEW j, NEW n, Steps(p, j, n), Regions(p)
  PROVE  Tallies(n)'
<1>1. /\ j \in Job /\ Placed(j) /\ Tallies(j) /\ Holds(j) /\ j.stage = "region"
      /\ UNCHANGED <<inspections, scorings, verdicts>>
  BY DEF Steps, Regions, At, tables
<1>2. /\ n.done = j.done /\ n.list = j.list /\ n.pos = j.pos /\ j.pos = 1
      /\ n.errors = j.errors /\ n.alerted = j.alerted /\ n.stage = "verdict"
  <2>1. job[p] \in Job /\ job[p] = j /\ job'[p] = n /\ \A m : Goes(p, m) => job'[p] = m
    BY DEF Steps
  <2>2. /\ job'[p].done = job[p].done /\ job'[p].list = job[p].list
        /\ job'[p].pos = job[p].pos /\ job'[p].stage = "verdict"
        /\ job'[p].errors = job[p].errors /\ job'[p].alerted = job[p].alerted
    BY <2>1 DEF Regions, Job
  <2> QED
    BY <1>1, <2>1, <2>2 DEF Placed
<1>3. \A k \in 1..Len(j.done) : j.done[k] \notin DOMAIN verdicts
  BY <1>1 DEF Holds, Waits, Pending
<1>4. Unscanned(n)' /\ Backs(n)'
  <2>1. n.stage \notin Before /\ n.stage # "score"
    BY <1>2 DEF Before
  <2> QED
    BY <1>1, <1>2, <1>3, <2>1 DEF Unscanned, Backs
<1>5. Balanced(n)'
  <2>1. /\ "region" \in SweepStage \ Before
        /\ "verdict" \in SweepStage \ Before /\ "verdict" \in Judging
    BY DEF SweepStage, Before, Judging
  <2>2. \A k : Upto(n, k) = Upto(j, k)
    BY <1>2 DEF Upto
  <2>3. Upto(n, n.pos - 1) = {}
    BY <1>2 DEF Upto
  <2>4. Unstored(n) = Unstored(j) /\ Scanned(n) = Scanned(j) /\ Decided(n) = {} /\ Decided(j) = {}
    <3>1. /\ Unstored(n) = Len(n.list) - Len(n.done)
          /\ Scanned(n) = Upto(n, Len(n.done)) /\ Decided(n) = {}
      BY <1>2, <2>1, <2>3, WhereItIs
    <3>2. /\ Unstored(j) = Len(j.list) - Len(j.done)
          /\ Scanned(j) = Upto(j, Len(j.done)) /\ Decided(j) = {}
      BY <1>1, <2>1, WhereItIs
    <3> QED
      BY <1>2, <2>2, <3>1, <3>2
  <2>5. \A S : Unscored(S)' = Unscored(S)
    BY <1>1 DEF Unscored, Scored
  <2> QED
    BY <1>1, <1>2, <2>1, <2>4, <2>5, NoneInEmpty DEF Tallies, Balanced
<1> QED
  BY <1>4, <1>5 DEF Tallies

(* The books of a run at the turn of its row x, after the rows S.           *)
Booked(j, S, x, c, u, v, w) ==
  /\ S = Upto(j, j.pos - 1) /\ x = j.done[j.pos] /\ x \notin S
  /\ Upto(j, j.pos) = S \cup {x} /\ j.pos \in 1..Len(j.done) /\ j.pos <= Len(j.done)
  /\ IsFiniteSet(Unjudged(j, S)) /\ IsFiniteSet(Acted(S))
  /\ c = Len(j.list) - Len(j.done) /\ u = Cardinality(Unscored(Upto(j, Len(j.done))))
  /\ v = Cardinality(Unjudged(j, S)) /\ w = Cardinality(Acted(S))
  /\ c \in Int /\ u \in Nat /\ v \in Nat /\ w \in Nat
  /\ j.errors + j.alerted = c + u + v + w

LEMMA TurnIsBooked ==
  ASSUME TypesInv, NEW j \in Job, Placed(j), Owns(j), Tallies(j), j.stage \in Judging
  PROVE  \E S, x, c, u, v, w : Booked(j, S, x, c, u, v, w)
<1>1. PICK S, x, c, u, v, w :
        /\ S = Upto(j, j.pos - 1) /\ x = j.done[j.pos]
        /\ c = Len(j.list) - Len(j.done) /\ u = Cardinality(Unscored(Upto(j, Len(j.done))))
        /\ v = Cardinality(Unjudged(j, S)) /\ w = Cardinality(Acted(S))
  OBVIOUS
<1>2. /\ j.pos \in Nat \ {0} /\ Len(j.done) \in Nat /\ Len(j.list) \in Nat
      /\ j.pos - 1 \in Nat
  BY DEF Job
<1>3. j.pos <= Len(j.done) /\ j.stage \in SweepStage \ Before /\ j.stage \in SweepStage
  BY DEF Placed, Judging, SweepStage, Before
<1>4. j.pos \in 1..Len(j.done)
  BY <1>2, <1>3
<1>5. Upto(j, j.pos) = S \cup {x} /\ x \notin S
  BY <1>1, <1>4, UptoGrows
<1>6. IsFiniteSet(S) /\ IsFiniteSet(Upto(j, Len(j.done)))
  BY <1>1, <1>2, UptoGrows
<1>7. /\ IsFiniteSet(Unjudged(j, S)) /\ IsFiniteSet(Acted(S))
      /\ IsFiniteSet(Unscored(Upto(j, Len(j.done))))
  BY <1>6, FS_Subset DEF Unjudged, Acted, Unscored
<1>8. u \in Nat /\ v \in Nat /\ w \in Nat
  BY <1>1, <1>7, FS_CardinalityType
<1>9. c \in Int
  BY <1>1, <1>2
<1>10. j.errors + j.alerted = c + u + v + w
  <2>1. /\ Unstored(j) = c /\ Scanned(j) = Upto(j, Len(j.done)) /\ Decided(j) = S
    BY <1>1, <1>3, WhereItIs
  <2> QED
    BY <1>1, <1>3, <2>1 DEF Tallies, Balanced
<1>11. Booked(j, S, x, c, u, v, w)
  BY <1>1, <1>3, <1>4, <1>5, <1>7, <1>8, <1>9, <1>10 DEF Booked
<1> QED
  BY <1>11

LEMMA TurnAdds ==
  ASSUME NEW a \in Nat, NEW b \in Nat, NEW c \in Int, NEW u \in Nat, NEW v \in Nat, NEW w \in Nat,
         a + b = c + u + v + w
  PROVE  /\ (a + 1) + b = c + u + (v + 1) + w
         /\ (a + 1) + b = c + u + v + (w + 1)
         /\ a + (b + 1) = c + u + v + (w + 1)
OBVIOUS

(* A turn that ends without a verdict of its own. *)
LEMMA TurnEnds ==
  ASSUME UNCHANGED <<inspections, scorings, verdicts>>, NEW j \in Job, Backs(j), NEW m \in Job,
         m.done = j.done, m.list = j.list, m.pos = j.pos, m.cloaked = j.cloaked,
         NEW S, NEW x, NEW c, NEW u, NEW v, NEW w, Booked(j, S, x, c, u, v, w),
         m.errors + m.alerted = c + u + Cardinality(Unjudged(j, S \cup {x}))
                                      + Cardinality(Acted(S \cup {x})),
         NEW n, n = Advance(m, "verdict")
  PROVE  Tallies(n)'
<1>1. \A k : Upto(m, k) = Upto(j, k)
  BY DEF Upto
<1>2. Backs(m)'
  BY DEF Backs, Promoted, Scored, AboveThreshold
<1>3. /\ \A T : Unscored(T)' = Unscored(T) /\ Unjudged(m, T)' = Unjudged(j, T)
      /\ \A T : Acted(T)' = Acted(T)
  BY DEF Unscored, Unjudged, Acted, Promoted, Scored, AboveThreshold
<1>4. /\ m.pos <= Len(m.done) /\ Upto(m, m.pos) = S \cup {x}
      /\ Len(m.list) - Len(m.done) = c
      /\ Cardinality(Unscored(Upto(m, Len(m.done)))) = u
  BY <1>1 DEF Booked
<1>5. m.errors + m.alerted =
        (Len(m.list) - Len(m.done)) + Cardinality(Unscored(Upto(m, Len(m.done)))')
          + Cardinality(Unjudged(m, Upto(m, m.pos))') + Cardinality(Acted(Upto(m, m.pos))')
  BY <1>3, <1>4
<1> QED
  BY <1>2, <1>4, <1>5, TalliesDecided

LEMMA TalliesPassed ==
  ASSUME TypesInv, NEW p \in Proc, NEW j, NEW n, Steps(p, j, n),
         VerdictSkipped(p) \/ VerdictFails(p) \/ Dispatch(p)
  PROVE  Tallies(n)'
<1>1. /\ j \in Job /\ Placed(j) /\ Tallies(j) /\ Holds(j) /\ Owns(j) /\ Backs(j)
      /\ j = job[p] /\ \A m : Goes(p, m) => n = m
  BY DEF Steps, Holds, Tallies
<1>2. /\ UNCHANGED <<inspections, scorings, verdicts>> /\ j.stage \in Judging
  BY <1>1 DEF VerdictSkipped, VerdictFails, Dispatch, At, tables, Judging
<1>3. PICK S, x, c, u, v, w : Booked(j, S, x, c, u, v, w)
  BY <1>1, <1>2, TurnIsBooked
<1>4. x = Subject(p) /\ x \notin S /\ j.pos \in 1..Len(j.done) /\ x = j.done[j.pos]
  BY <1>1, <1>3 DEF Booked, Subject
<1>5. j.stage = "verdict" => x \notin DOMAIN verdicts
  <2>1. j.stage = "verdict" => Pending(j, j.pos)
    BY <1>1 DEF Pending, Job
  <2> QED
    BY <1>1, <1>4, <2>1 DEF Holds, Waits
<1>6. j.stage # "verdict" => x \in DOMAIN verdicts /\ Actionable(verdicts[x])
  BY <1>1, <1>2, <1>4 DEF Holds, Judged, Judging
<1>7. PICK a, b \in Nat : a = j.errors /\ b = j.alerted
  BY <1>1 DEF Job
<1>8. /\ a + b = c + u + v + w /\ c \in Int /\ u \in Nat /\ v \in Nat /\ w \in Nat
      /\ v = Cardinality(Unjudged(j, S)) /\ w = Cardinality(Acted(S))
      /\ IsFiniteSet(Unjudged(j, S)) /\ IsFiniteSet(Acted(S))
  BY <1>3, <1>7 DEF Booked
<1>9. CASE VerdictSkipped(p)
  <2>1. ~Promoted(j, x) /\ x \notin DOMAIN verdicts /\ n = Advance(j, "verdict")
    BY <1>1, <1>4, <1>5, <1>9 DEF VerdictSkipped, At
  <2>2. Unjudged(j, S \cup {x}) = Unjudged(j, S) /\ Acted(S \cup {x}) = Acted(S)
    BY <2>1 DEF Unjudged, Acted
  <2>3. j.errors + j.alerted = c + u + Cardinality(Unjudged(j, S \cup {x}))
                                 + Cardinality(Acted(S \cup {x}))
    BY <1>7, <1>8, <2>2
  <2> QED
    BY <1>1, <1>2, <1>3, <2>1, <2>3, TurnEnds
<1>10. CASE VerdictFails(p)
  <2> DEFINE m == Erring(j)
  <2>1. n = Advance(m, "verdict") /\ (j.stage = "verdict" => Promoted(j, x))
    BY <1>1, <1>4, <1>10 DEF VerdictFails
  <2>2. /\ m \in Job /\ m.done = j.done /\ m.list = j.list /\ m.pos = j.pos
        /\ m.cloaked = j.cloaked /\ m.errors = j.errors + 1 /\ m.alerted = j.alerted
    BY <1>1, NotedIsJob DEF Erring, Job
  <2> HIDE DEF m
  <2>3. (a + 1) + b = c + u + Cardinality(Unjudged(j, S \cup {x})) + Cardinality(Acted(S \cup {x}))
    <3>1. CASE j.stage = "verdict"
      <4>1. /\ Unjudged(j, S \cup {x}) = Unjudged(j, S) \cup {x} /\ x \notin Unjudged(j, S)
            /\ Acted(S \cup {x}) = Acted(S)
        BY <1>4, <1>5, <2>1, <3>1 DEF Unjudged, Acted
      <4>2. Cardinality(Unjudged(j, S) \cup {x}) = v + 1
        BY <1>8, <4>1, FS_AddElement
      <4>3. (a + 1) + b = c + u + (v + 1) + w
        BY <1>8, TurnAdds
      <4> QED
        BY <1>8, <4>1, <4>2, <4>3
    <3>2. CASE j.stage # "verdict"
      <4>1. /\ Acted(S \cup {x}) = Acted(S) \cup {x} /\ x \notin Acted(S)
            /\ Unjudged(j, S \cup {x}) = Unjudged(j, S)
        BY <1>4, <1>6, <3>2 DEF Unjudged, Acted
      <4>2. Cardinality(Acted(S) \cup {x}) = w + 1
        BY <1>8, <4>1, FS_AddElement
      <4>3. (a + 1) + b = c + u + v + (w + 1)
        BY <1>8, TurnAdds
      <4> QED
        BY <1>8, <4>1, <4>2, <4>3
    <3> QED
      BY <3>1, <3>2
  <2>4. m.errors + m.alerted = c + u + Cardinality(Unjudged(j, S \cup {x}))
                                 + Cardinality(Acted(S \cup {x}))
    BY <1>7, <2>2, <2>3
  <2> QED
    BY <1>1, <1>2, <1>3, <2>1, <2>2, <2>4, TurnEnds
<1>11. CASE Dispatch(p)
  <2> DEFINE m == [j EXCEPT !.alerted = @ + 1]
  <2>1. n = Advance(m, "verdict") /\ j.stage = "dispatch"
    BY <1>1, <1>11 DEF Dispatch, At
  <2>2. /\ m \in Job /\ m.done = j.done /\ m.list = j.list /\ m.pos = j.pos
        /\ m.cloaked = j.cloaked /\ m.errors = j.errors /\ m.alerted = j.alerted + 1
    BY <1>1, NotedIsJob DEF Job
  <2> HIDE DEF m
  <2>3. /\ Acted(S \cup {x}) = Acted(S) \cup {x} /\ x \notin Acted(S)
        /\ Unjudged(j, S \cup {x}) = Unjudged(j, S)
    BY <1>4, <1>6, <2>1 DEF Unjudged, Acted
  <2>4. Cardinality(Acted(S) \cup {x}) = w + 1
    BY <1>8, <2>3, FS_AddElement
  <2>5. a + (b + 1) = c + u + v + (w + 1)
    BY <1>8, TurnAdds
  <2>6. m.errors + m.alerted = c + u + Cardinality(Unjudged(j, S \cup {x}))
                                 + Cardinality(Acted(S \cup {x}))
    BY <1>7, <1>8, <2>2, <2>3, <2>4, <2>5
  <2> QED
    BY <1>1, <1>2, <1>3, <2>1, <2>2, <2>6, TurnEnds
<1> QED
  BY <1>9, <1>10, <1>11

LEMMA TalliesRuled ==
  ASSUME TypesInv, NEW p \in Proc, NEW j, NEW n, Steps(p, j, n), Decide(p)
  PROVE  Tallies(n)'
<1>1. /\ j \in Job /\ Placed(j) /\ Tallies(j) /\ Holds(j) /\ Owns(j) /\ Backs(j)
      /\ j = job[p] /\ \A m : Goes(p, m) => n = m
  BY DEF Steps, Holds, Tallies
<1>2. /\ UNCHANGED <<inspections, scorings>> /\ j.stage = "verdict" /\ j.stage \in Judging
  BY <1>1 DEF Decide, At, Judging
<1>3. PICK S, x, c, u, v, w : Booked(j, S, x, c, u, v, w)
  BY <1>1, <1>2, TurnIsBooked
<1>4. x = Subject(p) /\ x \notin S /\ j.pos \in 1..Len(j.done) /\ x = j.done[j.pos]
  BY <1>1, <1>3 DEF Booked, Subject
<1>5. x \notin DOMAIN verdicts
  <2>1. Pending(j, j.pos)
    BY <1>1, <1>2 DEF Pending, Job
  <2> QED
    BY <1>1, <1>4, <2>1 DEF Holds, Waits
<1>6. PICK r : /\ verdicts' = Filed(verdicts, x, r)
               /\ \/ Actionable(r) /\ n = [j EXCEPT !.stage = "alert"]
                  \/ ~Actionable(r) /\ n = Advance(j, "verdict")
  <2>1. PICK a \in Decisions(scorings[Subject(p)]) :
          LET r == Overridden(a, Subject(p) \in job[p].cloaked)
          IN  /\ verdicts' = Filed(verdicts, Subject(p), r)
              /\ Goes(p, IF Actionable(r) THEN [job[p] EXCEPT !.stage = "alert"]
                         ELSE Advance(job[p], "verdict"))
    BY DEF Decide
  <2>2. PICK r : r = Overridden(a, Subject(p) \in job[p].cloaked)
    OBVIOUS
  <2>3. /\ verdicts' = Filed(verdicts, x, r)
        /\ Goes(p, IF Actionable(r) THEN [j EXCEPT !.stage = "alert"] ELSE Advance(j, "verdict"))
    BY <1>1, <1>4, <2>1, <2>2
  <2> QED
    BY <1>1, <2>3
<1>7. Promoted(j, x)
  BY <1>1, <1>4 DEF Decide
<1>8. /\ DOMAIN verdicts' = DOMAIN verdicts \cup {x} /\ verdicts'[x] = r
      /\ \A i \in DOMAIN verdicts : verdicts'[i] = verdicts[i]
  BY <1>5, <1>6 DEF Filed
<1>9. AgreeOn(S)
  BY <1>2, <1>4, <1>8 DEF AgreeOn
<1>10. /\ Unjudged(j, S)' = Unjudged(j, S) /\ Acted(S)' = Acted(S)
       /\ \A T : Unscored(T)' = Unscored(T)
  <2>1. Unjudged(j, S)' = Unjudged(j, S) /\ Acted(S)' = Acted(S)
    BY <1>9, SetsStand
  <2>2. \A T : Unscored(T)' = Unscored(T)
    BY <1>2 DEF Unscored, Scored
  <2> QED
    BY <2>1, <2>2
<1>11. \A i : Promoted(j, i)' <=> Promoted(j, i)
  BY <1>2 DEF Promoted, Scored, AboveThreshold
<1>12. Backs(j)'
  <2>1. \A i : i \in DOMAIN verdicts' => i \in DOMAIN verdicts \/ i = x
    BY <1>8
  <2> QED
    BY <1>1, <1>7, <1>11, <2>1 DEF Backs
<1>13. /\ j.errors + j.alerted = c + u + v + w
       /\ c = Len(j.list) - Len(j.done) /\ u = Cardinality(Unscored(Upto(j, Len(j.done))))
       /\ v = Cardinality(Unjudged(j, S)) /\ w = Cardinality(Acted(S))
       /\ S = Upto(j, j.pos - 1) /\ Upto(j, j.pos) = S \cup {x} /\ j.pos <= Len(j.done)
  BY <1>3 DEF Booked
<1>14. CASE n = [j EXCEPT !.stage = "alert"]
  <2>1. /\ n.stage = "alert" /\ n.done = j.done /\ n.list = j.list /\ n.pos = j.pos
        /\ n.errors = j.errors /\ n.alerted = j.alerted /\ n.cloaked = j.cloaked
    BY <1>1, <1>14 DEF Job
  <2>2. "alert" \in Judging /\ "alert" \in SweepStage \ Before
    BY DEF Judging, SweepStage, Before
  <2>3. \A k : Upto(n, k) = Upto(j, k)
    BY <2>1 DEF Upto
  <2>4. /\ Unstored(n) = c /\ Scanned(n) = Upto(j, Len(j.done)) /\ Decided(n) = S
    <3>1. /\ Unstored(n) = Len(n.list) - Len(n.done)
          /\ Scanned(n) = Upto(n, Len(n.done)) /\ Decided(n) = Upto(n, n.pos - 1)
      BY <2>1, <2>2, WhereItIs
    <3> QED
      BY <1>13, <2>1, <2>3, <3>1
  <2>5. \A T : Unjudged(n, T)' = Unjudged(j, T)'
    BY <2>1 DEF Unjudged, Promoted
  <2>6. Balanced(n)'
    BY <1>10, <1>13, <2>1, <2>4, <2>5 DEF Balanced
  <2>7. Unscanned(n)'
    BY <2>1, <2>2 DEF Unscanned
  <2>8. Backs(n)'
    BY <1>12, <2>1 DEF Backs, Promoted
  <2> QED
    BY <2>6, <2>7, <2>8 DEF Tallies
<1>15. CASE ~Actionable(r) /\ n = Advance(j, "verdict")
  <2>1. Unjudged(j, S \cup {x})' = Unjudged(j, S)'
    BY <1>8 DEF Unjudged
  <2>2. Acted(S \cup {x})' = Acted(S)'
    BY <1>8, <1>15 DEF Acted
  <2>3. j.errors + j.alerted =
          (Len(j.list) - Len(j.done)) + Cardinality(Unscored(Upto(j, Len(j.done)))')
            + Cardinality(Unjudged(j, Upto(j, j.pos))') + Cardinality(Acted(Upto(j, j.pos))')
    BY <1>10, <1>13, <2>1, <2>2
  <2> QED
    BY <1>1, <1>12, <1>13, <1>15, <2>3, TalliesDecided
<1> QED
  BY <1>6, <1>14, <1>15

(* The rows of the others are not touched by a step of p. *)
LEMMA OthersAgree ==
  ASSUME TypesInv, BackedInv, NEW p \in Proc, Runs(p), NEW q \in Proc, q # p,
         NEW j, j = job[q]
  PROVE  AgreeOn(Upto(j, Len(j.done)))
<1>1. StoresRow(p) /\ Files(p) /\ Grown /\ Apart /\ Holds(job[p]) /\ Owns(j)
  BY TablesStep, FilesStep, TablesGrow DEF BackedInv, Holds
<1> SUFFICES ASSUME NEW k \in 1..Len(j.done), NEW i, i = j.done[k]
             PROVE  /\ inspections'[i] = inspections[i]
                    /\ i \in DOMAIN scorings' <=> i \in DOMAIN scorings
                    /\ i \in DOMAIN scorings => scorings'[i] = scorings[i]
                    /\ i \in DOMAIN verdicts' <=> i \in DOMAIN verdicts
                    /\ i \in DOMAIN verdicts => verdicts'[i] = verdicts[i]
  BY DEF AgreeOn, Upto
<1>2. i \in Row
  BY <1>1 DEF Owns
<1>3. job[p].stage \in {"score", "verdict"} => i # Subject(p)
  <2> SUFFICES ASSUME job[p].stage \in {"score", "verdict"} PROVE i # Subject(p)
    OBVIOUS
  <2>1. job[p].pos \in 1..Len(job[p].done) /\ Subject(p) = job[p].done[job[p].pos]
    BY <1>1, SubjectIsOwn DEF Holds
  <2> QED
    BY <1>1, <2>1 DEF Apart
<1>4. i \in DOMAIN scorings' => i \in DOMAIN scorings
  <2>1. CASE scorings' = scorings
    BY <2>1
  <2>2. CASE /\ job[p].stage = "score"
             /\ \E above \in BOOLEAN : scorings' = Filed(scorings, Subject(p), above)
    BY <1>3, <2>2 DEF Filed
  <2> QED
    BY <1>1, <2>1, <2>2 DEF Files
<1>5. i \in DOMAIN verdicts' => i \in DOMAIN verdicts
  <2>1. CASE verdicts' = verdicts
    BY <2>1
  <2>2. CASE job[p].stage = "verdict" /\ \E v : verdicts' = Filed(verdicts, Subject(p), v)
    BY <1>3, <2>2 DEF Filed
  <2> QED
    BY <1>1, <2>1, <2>2 DEF Files
<1> QED
  BY <1>1, <1>2, <1>4, <1>5 DEF Grown

LEMMA StepCounts == TypesInv /\ BackedInv /\ CountInv /\ [Next]_vars => CountInv'
<1> SUFFICES ASSUME TypesInv, BackedInv, CountInv, [Next]_vars PROVE CountInv'
  OBVIOUS
<1>1. ASSUME NEW p \in Proc, Runs(p)
      PROVE  CountInv'
  <2> SUFFICES ASSUME NEW q \in Proc, NEW n, n = job'[q] PROVE Tallies(n)'
    BY DEF CountInv
  <2>1. PICK j : j = job[q]
    OBVIOUS
  <2>2. j \in Job /\ Placed(j) /\ Holds(j) /\ Tallies(j)
    BY <2>1 DEF TypesInv, JobsOK, BackedInv, CountInv
  <2>3. CASE q = p
    <3>1. \A m : Goes(p, m) => n = m
      BY <2>3 DEF TypesInv, JobsOK, Goes
    <3>2. Steps(p, j, n)
      BY <2>1, <2>2, <2>3, <3>1 DEF Steps
    <3>3. CASE Sweep(p) \/ ReturnStats(p) \/ Recheck(p) \/ AnswerRecheck(p) \/ RecheckRaises(p)
                 \/ Dies(p) \/ ListSuspects(p)
      BY <3>2, <3>3, TalliesBegun
    <3>4. CASE Inspect(p) \/ ReadLast(p) \/ Reinspect(p) \/ CreateAlert(p)
      BY <3>2, <3>4, TalliesRechecked
    <3>5. CASE Store(p) \/ InspectionFails(p) \/ StoreReinspection(p)
      BY <3>2, <3>5, TalliesStored
    <3>6. CASE Score(p) \/ ScoringSkipped(p) \/ ScoringFails(p)
      BY <3>2, <3>6, TalliesScoring
    <3>7. CASE Regions(p)
      BY <3>2, <3>7, TalliesPromoting
    <3>8. CASE VerdictSkipped(p) \/ VerdictFails(p) \/ Dispatch(p)
      BY <3>2, <3>8, TalliesPassed
    <3>9. CASE Decide(p)
      BY <3>2, <3>9, TalliesRuled
    <3> QED
      BY <1>1, <3>3, <3>4, <3>5, <3>6, <3>7, <3>8, <3>9 DEF Runs
  <2>4. CASE q # p
    <3>1. n = j
      BY <1>1, <2>1, <2>4, OthersStay
    <3>2. AgreeOn(Upto(j, Len(j.done)))
      BY <1>1, <2>1, <2>4, OthersAgree
    <3>3. Tallies(j)'
      BY <2>2, <3>2, TalliesStand
    <3> QED
      BY <3>1, <3>3
  <2> QED
    BY <2>3, <2>4
<1>2. CASE UNCHANGED <<tables, job>>
  <2> SUFFICES ASSUME NEW q \in Proc, NEW n, n = job'[q] PROVE Tallies(n)'
    BY DEF CountInv
  <2>1. n = job[q] /\ n \in Job /\ Placed(n) /\ Tallies(n)
    BY <1>2 DEF TypesInv, JobsOK, CountInv
  <2>2. AgreeOn(Upto(n, Len(n.done)))
    BY <1>2 DEF AgreeOn, tables
  <2> QED
    BY <2>1, <2>2, TalliesStand
<1> QED
  BY <1>1, <1>2 DEF Next, FlipPage, vars

(* At its end a run that is balanced has counted what it lost. *)
LEMMA CountedAtTheEnd ==
  ASSUME NEW j \in Job, Owns(j), Tallies(j), Filings, j.stage = "return",
         NEW S, S = {j.done[k] : k \in DOMAIN j.done}
  PROVE  LET rendered == {i \in S : inspections[i].ok}
             scored   == {i \in S : Scored(i)}
             promoted == {i \in S : Promoted(j, i)}
             judged   == S \cap DOMAIN verdicts
             acted    == {i \in judged : Actionable(verdicts[i])}
         IN  j.errors = (Len(j.list) - Cardinality(S))
                        + (Cardinality(rendered) - Cardinality(scored))
                        + (Cardinality(promoted) - Cardinality(judged))
                        + (Cardinality(acted) - j.alerted)
<1> DEFINE rendered == {i \in S : inspections[i].ok}
           scored   == {i \in S : Scored(i)}
           promoted == {i \in S : Promoted(j, i)}
           judged   == S \cap DOMAIN verdicts
           acted    == {i \in judged : Actionable(verdicts[i])}
<1>1. /\ j.done \in Seq(Nat) /\ Len(j.done) \in Nat /\ Len(j.list) \in Nat
      /\ j.errors \in Nat /\ j.alerted \in Nat /\ DOMAIN j.done = 1..Len(j.done)
      /\ \A k \in 1..Len(j.done) : j.done[k] \in Nat
  BY DEF Job
<1>2. S = Upto(j, Len(j.done)) /\ IsFiniteSet(S)
  <2>1. S = Upto(j, Len(j.done))
    BY <1>1 DEF Upto
  <2>2. IsFiniteSet(Upto(j, Len(j.done)))
    BY <1>1, UptoGrows
  <2> QED
    BY <2>1, <2>2
<1>3. Cardinality(S) = Len(j.done)
  <2> DEFINE f == [k \in 1..Len(j.done) |-> j.done[k]]
  <2>1. f \in Surjection(1..Len(j.done), S)
    BY <1>1 DEF Surjection
  <2>2. \A k, l \in 1..Len(j.done) : j.done[k] = j.done[l] => k = l
    <3> SUFFICES ASSUME NEW k \in 1..Len(j.done), NEW l \in 1..Len(j.done), k < l
                 PROVE  j.done[k] # j.done[l]
      BY <1>1
    <3>1. j.done[k] < j.done[l]
      BY DEF Owns
    <3>2. j.done[k] \in Nat /\ j.done[l] \in Nat
      BY <1>1
    <3> QED
      BY <3>1, <3>2
  <2>3. f \in Injection(1..Len(j.done), S)
    <3>1. f \in [1..Len(j.done) -> S]
      BY <2>1 DEF Surjection
    <3>2. \A k, l \in 1..Len(j.done) : f[k] = f[l] => k = l
      BY <2>2
    <3> QED
      BY <3>1, <3>2 DEF Injection, IsInjective
  <2>4. IsFiniteSet(1..Len(j.done)) /\ Cardinality(1..Len(j.done)) = Len(j.done)
    <3>1. PICK d \in Nat : d = Len(j.done)
      BY <1>1
    <3>2. IsFiniteSet(1..d) /\ Cardinality(1..d) = IF 1 > d THEN 0 ELSE d - 1 + 1
      <4>1. 1 \in Int /\ d \in Int
        OBVIOUS
      <4> QED
        BY <4>1, FS_Interval
    <3>3. Cardinality(1..d) = d
      BY <3>2
    <3> QED
      BY <3>1, <3>2, <3>3
  <2> QED
    BY <2>1, <2>3, <2>4, FS_Surjection
<1>4. Cardinality(Unscored(S)) = Cardinality(rendered) - Cardinality(scored)
  <2>1. IsFiniteSet(rendered) /\ rendered \cap scored = scored /\ Unscored(S) = rendered \ scored
    BY <1>2, FS_Subset DEF Filings, Scored, Unscored
  <2> HIDE DEF rendered, scored
  <2>2. Cardinality(rendered \ scored) = Cardinality(rendered) - Cardinality(rendered \cap scored)
    BY <2>1, FS_Difference
  <2> QED
    BY <2>1, <2>2
<1>5. Cardinality(Unjudged(j, S)) = Cardinality(promoted) - Cardinality(judged)
  <2>1. \A i \in S : i \in DOMAIN verdicts => Promoted(j, i)
    BY <1>1 DEF Tallies, Backs
  <2>2. IsFiniteSet(promoted) /\ promoted \cap judged = judged /\ Unjudged(j, S) = promoted \ judged
    BY <1>2, <2>1, FS_Subset DEF Unjudged
  <2> HIDE DEF promoted, judged
  <2>3. Cardinality(promoted \ judged) = Cardinality(promoted) - Cardinality(promoted \cap judged)
    BY <2>2, FS_Difference
  <2> QED
    BY <2>2, <2>3
<1>6. Acted(S) = acted
  BY DEF Acted
<1>7. /\ IsFiniteSet(rendered) /\ IsFiniteSet(scored) /\ IsFiniteSet(promoted)
      /\ IsFiniteSet(judged) /\ IsFiniteSet(acted)
  BY <1>2, FS_Subset
<1>8. j.errors + j.alerted = (Len(j.list) - Len(j.done)) + Cardinality(Unscored(S))
                               + Cardinality(Unjudged(j, S)) + Cardinality(Acted(S))
  <2>1. "return" \in SweepStage \ Before
    BY DEF SweepStage, Before
  <2>2. Unstored(j) = Len(j.list) - Len(j.done) /\ Scanned(j) = S /\ Decided(j) = S
    BY <1>2, <2>1, WhereItIs
  <2> QED
    BY <2>1, <2>2 DEF Tallies, Balanced
<1>9. PICK a, b, l, d, r, s, m, g, t \in Nat :
        /\ a = j.errors /\ b = j.alerted /\ l = Len(j.list) /\ d = Len(j.done)
        /\ r = Cardinality(rendered) /\ s = Cardinality(scored)
        /\ m = Cardinality(promoted) /\ g = Cardinality(judged) /\ t = Cardinality(acted)
  BY <1>1, <1>7, FS_CardinalityType
<1>10. a + b = (l - d) + (r - s) + (m - g) + t
  BY <1>4, <1>5, <1>6, <1>8, <1>9
<1>11. a = (l - d) + (r - s) + (m - g) + (t - b)
  BY <1>10
<1> QED
  BY <1>3, <1>9, <1>11

(* EveryLossAlwaysCounted: however many runs interleave, fail and die, when *)
(* a sweep reports its statistics its errors are the suspects it lost: not  *)
(* stored, not scored, not judged, or judged actionable but not alerted     *)
(* (src/common/pipeline.py, PipelineStats).                                 *)
THEOREM EveryLossAlwaysCounted == Spec => []EveryLossIsCounted
<1>1. Init => CountInv
  <2> SUFFICES ASSUME Init, NEW p \in Proc, NEW j, j = job[p] PROVE Tallies(j)
    BY DEF CountInv
  <2>1. j = Idle
    BY DEF Init
  <2>2. j.done = <<>> /\ j.stage \notin SweepStage
    BY <2>1 DEF Idle, SweepStage, Before, Judging
  <2> QED
    BY <2>2, TalliesFresh
<1>2. TypesInv /\ BackedInv /\ CountInv => EveryLossIsCounted
  <2> SUFFICES ASSUME TypesInv, BackedInv, CountInv, NEW p \in Proc, job[p].stage = "return"
               PROVE  LET j        == job[p]
                          stored   == {j.done[k] : k \in DOMAIN j.done}
                          rendered == {i \in stored : inspections[i].ok}
                          scored   == {i \in stored : Scored(i)}
                          promoted == {i \in stored : Promoted(j, i)}
                          judged   == stored \cap DOMAIN verdicts
                          acted    == {i \in judged : Actionable(verdicts[i])}
                      IN  j.errors = (Len(j.list) - Cardinality(stored))
                                     + (Cardinality(rendered) - Cardinality(scored))
                                     + (Cardinality(promoted) - Cardinality(judged))
                                     + (Cardinality(acted) - j.alerted)
    BY DEF EveryLossIsCounted
  <2>1. job[p] \in Job /\ Owns(job[p]) /\ Filings /\ Tallies(job[p])
    BY DEF TypesInv, JobsOK, BackedInv, Holds, CountInv
  <2> DEFINE S == {job[p].done[k] : k \in DOMAIN job[p].done}
  <2> QED
    BY <2>1, CountedAtTheEnd
<1>3. TypesInv /\ BackedInv /\ CountInv /\ [Next]_vars => CountInv'
  BY StepCounts
<1>4. Spec => []BackedInv
  BY BackedThroughout
<1> QED
  BY <1>1, <1>2, <1>3, <1>4, TypesCorrect, PTL DEF Spec
=============================================================================
