------------------------------ MODULE Pipeline ------------------------------
(***************************************************************************)
(* The sweep of one brand (src/common/pipeline.py) and the time-bomb       *)
(* re-inspection (src/inspection/diff_detector.py), with the tables        *)
(* they write (src/storage/repositories.py).                               *)
(*                                                                         *)
(* Both run inside a web request or a background task, so several of them  *)
(* may be under way at once (processes Proc), and each is a long chain of  *)
(* short database transactions with the network in between.  Suspects are  *)
(* numbered in the order of discovered_at, inspections in the order they   *)
(* were committed; a page is reduced to what the re-inspection compares.   *)
(* Bounds: MaxSuspects, MaxInspections, MaxRuns, MaxFlips, MaxFailures.    *)
(***************************************************************************)
EXTENDS Naturals, Sequences, FiniteSets

CONSTANTS Proc,            \* requests and background tasks of the workers
          MaxInspect,      \* max_inspect / max_urls
          GeoHinted,       \* suspects whose host contains "geo-"
          Armed,           \* suspects whose site may change what it serves
          LiveAnswers,     \* what the language model may answer; {} without a key
          MaxSuspects, MaxInspections, MaxRuns, MaxFlips, MaxFailures

(* medium, high and critical are not told apart.                            *)
Severity == {"low", "raised"}
Answer == [verdict : {"phish", "suspicious", "benign"}, severity : Severity]

ASSUME BoundsAssumption ==
  /\ {MaxInspect, MaxSuspects, MaxInspections, MaxRuns, MaxFlips, MaxFailures} \subseteq Nat
  /\ GeoHinted \subseteq Nat /\ Armed \subseteq 1..MaxSuspects
  /\ LiveAnswers \subseteq Answer

VARIABLES suspects,      \* rows of suspect_urls: 1 .. suspects
          page,          \* what each suspect's site serves: "benign" or "phish"
          flips,         \* how often a site has been armed, per suspect
          clock,         \* the last inspected_at handed out
          inspections,   \* rows of inspections, in commit order
          minutes,       \* rows of cost_events of kind browser_minute
          scorings,      \* rows of scoring_results: inspection -> above_threshold
          verdicts,      \* rows of verdicts, by inspection
          alerts,        \* rows of alerts, by inspection
          delivered,     \* time bombs a recheck has answered to its caller
          job,           \* the local state of each sweep or recheck
          runs,          \* sweeps and rechecks started so far
          failures,      \* exceptions and restarts so far
          overlapped     \* two of them were under way at the same time

sites == <<page, flips>>
tables == <<inspections, minutes, scorings, verdicts, alerts>>
vars == <<suspects, sites, clock, tables, delivered, job, runs, failures, overlapped>>

Suspect == 1..MaxSuspects
Row == 1..Len(inspections)

---------------------------------------------------------------------------
(* The local state of a run.  list: the suspects it loaded, newest first;   *)
(* prior: the row each was compared with (recheck only); done: the rows it  *)
(* stored; fresh: the row it is about to store, chained through prev.       *)

NoFresh == [suspect |-> 0, ok |-> FALSE, page |-> "benign", at |-> 0, kind |-> "sweep", prev |-> 0]

Idle == [stage |-> "idle", list |-> <<>>, prior |-> <<>>, pos |-> 1, fresh |-> NoFresh,
         done |-> <<>>, cloaked |-> {}, alerted |-> 0, errors |-> 0, bombs |-> {}]

Init ==
  /\ suspects = 0
  /\ page = [s \in Suspect |-> "benign"] /\ flips = [s \in Suspect |-> 0]
  /\ clock = 0
  /\ inspections = <<>> /\ minutes = 0
  /\ scorings = <<>> /\ verdicts = <<>> /\ alerts = <<>>
  /\ delivered = {}
  /\ job = [p \in Proc |-> Idle]
  /\ runs = 0 /\ failures = 0 /\ overlapped = FALSE

Started(p) ==
  /\ job[p].stage = "idle"
  /\ runs < MaxRuns /\ runs' = runs + 1 /\ UNCHANGED failures
  /\ overlapped' = (overlapped \/ \E q \in Proc : job[q].stage # "idle")

Stays == UNCHANGED <<runs, failures, overlapped>>
Breaks == failures < MaxFailures /\ failures' = failures + 1 /\ UNCHANGED <<runs, overlapped>>
At(p, stage) == job[p].stage = stage /\ Stays
Goes(p, new) == job' = [job EXCEPT ![p] = new]

(* The loops over the suspects, one phase after the other: the next element *)
(* of this phase, or the first of the next one.                             *)
Follows == [inspect |-> "score", score |-> "region", verdict |-> "return", recheck |-> "answer"]

Extent(j) == IF j.stage \in {"inspect", "recheck"} THEN Len(j.list) ELSE Len(j.done)

Advance(j, phase) ==
  LET n == [j EXCEPT !.stage = phase, !.pos = @ + 1, !.fresh = NoFresh]
  IN  IF n.pos <= Extent(n) THEN n
      ELSE IF phase # "recheck" /\ n.done = <<>> THEN [n EXCEPT !.stage = "return"]
      ELSE [n EXCEPT !.stage = Follows[phase], !.pos = 1]

Erring(j) == [j EXCEPT !.errors = @ + 1]

---------------------------------------------------------------------------
(* InspectionRepo: rows are chained through prev_hash.  The last row is the *)
(* one with the greatest inspected_at, and the read precedes the write lock.*)

LatestOf(rows) ==
  IF rows = {} THEN 0
  ELSE CHOOSE i \in rows : \A k \in rows : inspections[k].at <= inspections[i].at

LastInspection == LatestOf(Row)
PriorInspection(s) == LatestOf({i \in Row : inspections[i].suspect = s})

Chained(fresh) ==
  /\ Len(inspections) < MaxInspections
  /\ inspections' = Append(inspections, fresh)

ReadLast_OfSuspect(p) ==  \* mutant: one chain per suspect
  /\ job[p].stage \in {"read", "reread"}
  /\ Goes(p, [job[p] EXCEPT !.stage = IF @ = "read" THEN "store" ELSE "restore",
                            !.fresh.prev = PriorInspection(job[p].fresh.suspect)])
  /\ UNCHANGED <<suspects, sites, clock, tables, delivered>> /\ Stays

ReadLast(p) ==
  /\ job[p].stage \in {"read", "reread"}
  /\ Goes(p, [job[p] EXCEPT !.stage = IF @ = "read" THEN "store" ELSE "restore",
                            !.fresh.prev = LastInspection])
  /\ UNCHANGED <<suspects, sites, clock, tables, delivered>> /\ Stays

---------------------------------------------------------------------------
(* run_pipeline_for_brand, phase by phase.                                  *)

(* run_for_brand: every source inserts into one transaction.                *)
Sweep(p) ==
  /\ Started(p)
  /\ \E n \in 0..(MaxSuspects - suspects) : suspects' = suspects + n
  /\ Goes(p, [Idle EXCEPT !.stage = "list"])
  /\ UNCHANGED <<sites, clock, tables, delivered>>

Newest(n) == [k \in 1..(IF suspects < n THEN suspects ELSE n) |-> suspects + 1 - k]

ListSuspects(p) ==
  /\ At(p, "list")
  /\ LET l == Newest(MaxInspect)
     IN  Goes(p, [job[p] EXCEPT !.list = l, !.stage = IF l = <<>> THEN "return" ELSE "inspect"])
  /\ UNCHANGED <<suspects, sites, clock, tables, delivered>>

Rendered(s, ok, kind) ==
  [suspect |-> s, ok |-> ok, page |-> page[s], at |-> clock + 1, kind |-> kind,
   prev |-> 0]

Inspect(p) ==
  /\ At(p, "inspect")
  /\ \E ok \in BOOLEAN :
        Goes(p, [job[p] EXCEPT !.stage = "read",
                               !.fresh = Rendered(job[p].list[job[p].pos], ok, "sweep")])
  /\ clock' = clock + 1
  /\ UNCHANGED <<suspects, sites, tables, delivered>>

(* The inspection and its browser minute are one transaction.               *)
Store(p) ==
  /\ At(p, "store")
  /\ Chained(job[p].fresh)
  /\ minutes' = minutes + 1
  /\ Goes(p, Advance([job[p] EXCEPT !.done = Append(@, Len(inspections'))], "inspect"))
  /\ UNCHANGED <<suspects, sites, clock, scorings, verdicts, alerts, delivered>>

InspectionFails_Billed(p) ==  \* mutant: the minute is billed in a transaction of its own
  /\ job[p].stage \in {"inspect", "store"} /\ Breaks
  /\ minutes' = IF job[p].stage = "store" THEN minutes + 1 ELSE minutes
  /\ Goes(p, Advance(Erring(job[p]), "inspect"))
  /\ UNCHANGED <<suspects, sites, clock, inspections, scorings, verdicts, alerts, delivered>>

(* The inspector raised, or the transaction was rolled back.                *)
InspectionFails(p) ==
  /\ job[p].stage \in {"inspect", "store"} /\ Breaks
  /\ Goes(p, Advance(Erring(job[p]), "inspect"))
  /\ UNCHANGED <<suspects, sites, clock, tables, delivered>>

Subject(p) == job[p].done[job[p].pos]
Filed(rows, i, row) ==  \* an INSERT: the rows of a table by their inspection
  [k \in DOMAIN rows \cup {i} |-> IF k \in DOMAIN rows THEN rows[k] ELSE row]
Scored(i) == i \in DOMAIN scorings
AboveThreshold(i) == Scored(i) /\ scorings[i]

Score_NextRow(p) ==  \* mutant: the score is filed under the newest inspection
  /\ At(p, "score") /\ inspections[Subject(p)].ok
  /\ \E above \in BOOLEAN : scorings' = Filed(scorings, Len(inspections), above)
  /\ Goes(p, Advance(job[p], "score"))
  /\ UNCHANGED <<suspects, sites, clock, inspections, minutes, verdicts, alerts, delivered>>

Score(p) ==
  /\ At(p, "score") /\ inspections[Subject(p)].ok
  /\ \E above \in BOOLEAN : scorings' = Filed(scorings, Subject(p), above)
  /\ Goes(p, Advance(job[p], "score"))
  /\ UNCHANGED <<suspects, sites, clock, inspections, minutes, verdicts, alerts, delivered>>

ScoringSkipped(p) ==
  /\ At(p, "score") /\ ~inspections[Subject(p)].ok
  /\ Goes(p, Advance(job[p], "score"))
  /\ UNCHANGED <<suspects, sites, clock, tables, delivered>>

ScoringFails(p) ==
  /\ job[p].stage = "score" /\ inspections[Subject(p)].ok /\ Breaks
  /\ Goes(p, Advance(Erring(job[p]), "score"))
  /\ UNCHANGED <<suspects, sites, clock, tables, delivered>>

(* The multi-region pass; one that fails or is switched off finds nothing.  *)
Regions(p) ==
  /\ At(p, "region")
  /\ LET stored == {job[p].done[k] : k \in DOMAIN job[p].done}
         rendered == {i \in stored : AboveThreshold(i) \/
                                     (Scored(i) /\ inspections[i].suspect \in GeoHinted)}
     IN  \E found \in SUBSET rendered :
           Goes(p, [job[p] EXCEPT !.cloaked = found, !.stage = "verdict"])
  /\ UNCHANGED <<suspects, sites, clock, tables, delivered>>

(* VerdictEngine.decide: the model's answer, or that of the rules it falls  *)
(* back to without a key, without a screenshot or when the call fails.  The *)
(* rules look for a phish (composite >= 0.85 on a young domain) before they *)
(* look at the brand's own threshold, which may be set higher than that.    *)
Fallback(above) ==
  {[verdict |-> "phish", severity |-> "raised"],
   IF above THEN [verdict |-> "suspicious", severity |-> "raised"]
            ELSE [verdict |-> "benign", severity |-> "low"]}

Decisions(above) == LiveAnswers \cup Fallback(above)

(* The row of a verdict, marked when the regions differed: a cloaked page   *)
(* is never let off as benign.                                              *)
Overridden(a, cloaked) ==
  LET lenient == cloaked /\ a.verdict = "benign"
  IN  [verdict  |-> IF lenient THEN "suspicious" ELSE a.verdict,
       severity |-> IF lenient THEN "raised" ELSE a.severity,
       cloaked  |-> cloaked]

Promoted(j, i) == Scored(i) /\ (AboveThreshold(i) \/ i \in j.cloaked)
Actionable(v) == v.verdict \in {"phish", "suspicious"}

Decide(p) ==
  /\ At(p, "verdict") /\ Promoted(job[p], Subject(p))
  /\ \E a \in Decisions(scorings[Subject(p)]) :
        LET v == Overridden(a, Subject(p) \in job[p].cloaked)
        IN  /\ verdicts' = Filed(verdicts, Subject(p), v)
            /\ Goes(p, IF Actionable(v) THEN [job[p] EXCEPT !.stage = "alert"]
                       ELSE Advance(job[p], "verdict"))
  /\ UNCHANGED <<suspects, sites, clock, inspections, minutes, scorings, alerts, delivered>>

VerdictSkipped(p) ==
  /\ At(p, "verdict") /\ ~Promoted(job[p], Subject(p))
  /\ Goes(p, Advance(job[p], "verdict"))
  /\ UNCHANGED <<suspects, sites, clock, tables, delivered>>

AlertSeverity(v) == IF v.verdict = "phish" /\ v.severity = "low" THEN "raised" ELSE v.severity

CreateAlert(p) ==
  /\ At(p, "alert")
  /\ alerts' = Filed(alerts, Subject(p), AlertSeverity(verdicts[Subject(p)]))
  /\ Goes(p, [job[p] EXCEPT !.stage = "dispatch"])
  /\ UNCHANGED <<suspects, sites, clock, inspections, minutes, scorings, verdicts, delivered>>

Dispatch(p) ==
  /\ At(p, "dispatch")
  /\ Goes(p, Advance([job[p] EXCEPT !.alerted = @ + 1], "verdict"))
  /\ UNCHANGED <<suspects, sites, clock, tables, delivered>>

VerdictFails_Undelivered(p) ==  \* mutant: a failed delivery is only logged
  /\ job[p].stage \in {"alert", "dispatch"} \/ (job[p].stage = "verdict" /\ Promoted(job[p], Subject(p)))
  /\ Breaks
  /\ Goes(p, Advance(IF job[p].stage = "dispatch" THEN job[p] ELSE Erring(job[p]), "verdict"))
  /\ UNCHANGED <<suspects, sites, clock, tables, delivered>>

(* The one handler around verdict, alert and delivery.                      *)
VerdictFails(p) ==
  /\ job[p].stage \in {"alert", "dispatch"} \/ (job[p].stage = "verdict" /\ Promoted(job[p], Subject(p)))
  /\ Breaks
  /\ Goes(p, Advance(Erring(job[p]), "verdict"))
  /\ UNCHANGED <<suspects, sites, clock, tables, delivered>>

ReturnStats(p) ==
  /\ At(p, "return")
  /\ Goes(p, Idle)
  /\ UNCHANGED <<suspects, sites, clock, tables, delivered>>

---------------------------------------------------------------------------
(* recheck_recent: one read of the suspects with their latest inspections,  *)
(* then one re-inspection after the other.  A page that changed hands is a  *)
(* change of 0.4 and more; redesigned says it changed by 0.2 and more.      *)

Recheck(p) ==
  /\ Started(p)
  /\ LET l == Newest(MaxInspect)
     IN  Goes(p, [Idle EXCEPT !.list = l, !.prior = [k \in DOMAIN l |-> PriorInspection(l[k])],
                              !.stage = IF l = <<>> THEN "answer" ELSE "recheck"])
  /\ UNCHANGED <<suspects, sites, clock, tables, delivered>>

Comparable(i) == i # 0 /\ inspections[i].ok
TimeBomb_AnyPrior(i, s) == page[s] = "phish"  \* mutant: without benign_before

TimeBomb(i, s) == inspections[i].page = "benign" /\ page[s] = "phish"

Reinspect(p) ==
  /\ At(p, "recheck")
  /\ LET s == job[p].list[job[p].pos]
         i == job[p].prior[job[p].pos]
     IN  \/ ~Comparable(i) /\ Goes(p, Advance(job[p], "recheck")) /\ UNCHANGED clock
         \/ Comparable(i) /\ clock' = clock + 1
            /\ \E ok, redesigned \in BOOLEAN :
                 Goes(p, IF ok /\ (page[s] # inspections[i].page \/ redesigned)
                         THEN [job[p] EXCEPT !.stage = "reread",
                                             !.fresh = Rendered(s, TRUE, IF TimeBomb(i, s) THEN "bomb" ELSE "recheck")]
                         ELSE Advance(job[p], "recheck"))
  /\ UNCHANGED <<suspects, sites, tables, delivered>>

StoreReinspection(p) ==
  /\ At(p, "restore")
  /\ Chained(job[p].fresh)
  /\ LET row == Len(inspections')
     IN  Goes(p, Advance([job[p] EXCEPT !.bombs = IF job[p].fresh.kind = "bomb" THEN @ \cup {row} ELSE @],
                         "recheck"))
  /\ UNCHANGED <<suspects, sites, clock, minutes, scorings, verdicts, alerts, delivered>>

AnswerRecheck(p) ==
  /\ At(p, "answer")
  /\ delivered' = delivered \cup job[p].bombs
  /\ Goes(p, Idle)
  /\ UNCHANGED <<suspects, sites, clock, tables>>

---------------------------------------------------------------------------
(* The loop of a recheck catches nothing: an inspector or a transaction     *)
(* that raises ends the request, and with it the diffs it had gathered.     *)
RecheckRaises(p) ==
  /\ job[p].stage \in {"recheck", "restore"} /\ Breaks
  /\ Goes(p, Idle)
  /\ UNCHANGED <<suspects, sites, clock, tables, delivered>>

(* A sweep or recheck is cut short by a restart of its worker.              *)
Dies(p) ==
  /\ job[p].stage # "idle" /\ Breaks
  /\ Goes(p, Idle)
  /\ UNCHANGED <<suspects, sites, clock, tables, delivered>>

(* The operator of a site arms it, or takes the payload down again.         *)
FlipPage(s) ==
  /\ s <= suspects
  /\ IF page[s] = "benign"
     THEN flips[s] < MaxFlips /\ flips' = [flips EXCEPT ![s] = @ + 1]
     ELSE UNCHANGED flips
  /\ page' = [page EXCEPT ![s] = IF @ = "benign" THEN "phish" ELSE "benign"]
  /\ UNCHANGED <<suspects, clock, tables, delivered, job>> /\ Stays

Runs(p) ==
  \/ Sweep(p) \/ ListSuspects(p) \/ Inspect(p) \/ ReadLast(p) \/ Store(p)
  \/ InspectionFails(p) \/ Score(p) \/ ScoringSkipped(p) \/ ScoringFails(p) \/ Regions(p) \/ Decide(p)
  \/ VerdictSkipped(p) \/ CreateAlert(p) \/ Dispatch(p) \/ VerdictFails(p) \/ ReturnStats(p)
  \/ Recheck(p) \/ Reinspect(p) \/ StoreReinspection(p) \/ AnswerRecheck(p)
  \/ RecheckRaises(p) \/ Dies(p)

Next == (\E p \in Proc : Runs(p)) \/ (\E s \in Armed : FlipPage(s))

Spec == Init /\ [][Next]_vars

---------------------------------------------------------------------------
(* Properties.                                                              *)

(* AlertsAreBacked: whatever the interleaving and wherever runs die, every  *)
(* alert a customer sees rests on a committed score and a committed         *)
(* actionable verdict about one and the same rendering of the page, made by *)
(* a sweep, and a phish is never shown as low.  A score below the threshold *)
(* does not rule an alert out, as the docstring of the sweep has it         *)
(* (src/common/pipeline.py:14): the loop over the verdicts promotes a page  *)
(* whose regions differed, and then the verdict's row says so and the host  *)
(* was one that hints at geography.                                         *)
AlertsAreBacked ==
  \A i \in DOMAIN alerts :
    /\ inspections[i].ok /\ inspections[i].kind = "sweep"
    /\ Scored(i) /\ i \in DOMAIN verdicts
    /\ Actionable(verdicts[i])
    /\ verdicts[i].verdict = "phish" => alerts[i] # "low"
    /\ ~scorings[i] => verdicts[i].cloaked /\ inspections[i].suspect \in GeoHinted

(* EveryLossIsCounted: when a sweep reports its statistics, the suspects it *)
(* listed and lost on the way to a delivered alert (not stored, not scored, *)
(* not judged, not alerted or not delivered) are exactly its errors.        *)
EveryLossIsCounted ==
  \A p \in Proc : job[p].stage = "return" =>
    LET j        == job[p]
        stored   == {j.done[k] : k \in DOMAIN j.done}
        rendered == {i \in stored : inspections[i].ok}
        scored   == {i \in stored : Scored(i)}
        promoted == {i \in stored : Promoted(j, i)}
        judged   == stored \cap DOMAIN verdicts
        acted    == {i \in judged : Actionable(verdicts[i])}
    IN  j.errors = (Len(j.list) - Cardinality(stored))
                   + (Cardinality(rendered) - Cardinality(scored))
                   + (Cardinality(promoted) - Cardinality(judged))
                   + (Cardinality(acted) - j.alerted)

(* InspectionsArePaid: the browser minutes billed are exactly the committed *)
(* inspections of sweeps.  An inspection and its cost row are one           *)
(* transaction, so that each committed one has exactly one minute, and one  *)
(* that was rolled back, or lost with its run, has none.                    *)
InspectionsArePaid ==
  minutes = Cardinality({i \in Row : inspections[i].kind = "sweep"})

(* EvidenceIsChained: while sweeps and rechecks have never overlapped, each *)
(* inspection is chained to the one committed just before it, so that the   *)
(* evidence is one chain without forks.                                     *)
EvidenceIsChained == ~overlapped => \A i \in Row : inspections[i].prev = i - 1

(* ActivationsAreGenuine: a recorded time bomb was preceded by a rendering  *)
(* of the same site as benign, and is itself the rendering of a payload,    *)
(* however old the inspections were that the recheck had loaded.            *)
ActivationsAreGenuine ==
  \A i \in Row : inspections[i].kind = "bomb" =>
    /\ inspections[i].page = "phish"
    /\ \E k \in 1..(i - 1) : /\ inspections[k].suspect = inspections[i].suspect
                             /\ inspections[k].ok /\ inspections[k].page = "benign"

(* ActivationsAreKept: "Records the diff event in a new inspection_diff     *)
(* table so the audit trail captures the activation moment"                 *)
(* (src/inspection/diff_detector.py:25): a time bomb that was stored is   *)
(* in the hands of a recheck that is going to answer it, or was answered.   *)
ActivationsAreKept ==
  \A i \in Row : inspections[i].kind = "bomb" =>
    i \in delivered \/ \E p \in Proc : i \in job[p].bombs
=============================================================================
