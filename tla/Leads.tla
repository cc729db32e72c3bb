------------------------------- MODULE Leads -------------------------------
(***************************************************************************)
(* What becomes of a batch of leads: unify (src/discovery/unified_dedup.py)*)
(* collapses what several surfaces saw, select_for_review                  *)
(* (src/scoring/al_sampling.py) spreads a review budget, and build_graph   *)
(* and pivot (src/graph) show what is linked to an entity.  A turn of each *)
(* loop is a step.                                                         *)
(***************************************************************************)
EXTENDS Naturals, Sequences, FiniteSets, FiniteSetsExt

CONSTANTS
    Host,        \* observed hosts
    Canon,       \* each host without its leading w's and dots
    Surface,     \* surfaces, as numbers in the order of their names
    MaxLeads,    \* bound: candidates, or findings of a graph
    MaxFindings, \* bound: findings to select from
    Uncertain,   \* levels of uncertainty
    Budgets,     \* review budgets
    Anchor,      \* domains, handles and apps of findings
    Entity,      \* addresses, certificates, kits, actors...
    Depths       \* depths of a pivot

ASSUME LeadsAssumption ==
    /\ Canon \in [Host -> STRING] /\ MaxFindings \in Nat
    /\ Surface \cup Uncertain \cup Budgets \cup Depths \subseteq Nat
    /\ \A a \in Anchor : a[1] \in {"domain", "social", "app"}

VARIABLE lead   \* the batch at hand

NoLead == [pc |-> "none"]
LeadInit == lead = NoLead

-----------------------------------------------------------------------------
\* UNIFY.  fromisoformat keeps "no zone" apart: such times compare only with
\* each other.  A text that is no time becomes the least time, in UTC.
Times == {[at |-> 0, zone |-> TRUE], [at |-> 1, zone |-> TRUE], [at |-> 1, zone |-> FALSE]}
Candidate == [host: Host, surface: Surface, seen: Times]
Comparable(s, t) == s.zone = t.zone

First(c) == [sources |-> {c.surface}, count |-> 1, seen |-> c.seen]
\* mutant: the surface of a duplicate is not noted
Merged_FirstSurface(r, c) ==
    [r EXCEPT !.count = @ + 1, !.seen = IF c.seen.at > @.at THEN c.seen ELSE @]
Merged(r, c) ==
    [sources |-> r.sources \cup {c.surface}, count |-> r.count + 1,
     seen |-> IF c.seen.at > r.seen.at THEN c.seen ELSE r.seen]

Unify == /\ lead = NoLead
         /\ lead' = [pc |-> "unify", batch |-> <<>>, record |-> [k \in {} |-> 0]]

Absorb(c) ==
    /\ lead.pc = "unify" /\ Len(lead.batch) < MaxLeads
    /\ LET key == Canon[c.host]
           known == DOMAIN lead.record
       IN /\ key \in known => Comparable(c.seen, lead.record[key].seen)
          /\ lead' = [lead EXCEPT
                !.batch = Append(@, c),
                !.record = [k \in known \cup {key} |->
                              IF k # key THEN lead.record[k]
                              ELSE IF key \in known THEN Merged(lead.record[key], c)
                              ELSE First(c)]]

\* datetime's TypeError leaves unify: the batch is lost
Clashes(c) ==
    /\ lead.pc = "unify" /\ Len(lead.batch) < MaxLeads
    /\ Canon[c.host] \in DOMAIN lead.record
    /\ ~Comparable(c.seen, lead.record[Canon[c.host]].seen)
    /\ lead' = [lead EXCEPT !.pc = "raised", !.batch = Append(@, c)]

\* the final sort, by sightings and then by time: it must compare some two of
\* each group of equal sightings
Unsortable ==
    \E k, l \in DOMAIN lead.record :
        /\ lead.record[k].count = lead.record[l].count
        /\ ~Comparable(lead.record[k].seen, lead.record[l].seen)
Ranked == /\ lead.pc = "unify"
          /\ lead' = [lead EXCEPT !.pc = IF Unsortable THEN "raised" ELSE "unified"]

-----------------------------------------------------------------------------
\* SELECT.  findings[i] is the finding with the i-th id; a higher u is nearer to
\* probability 1/2
Best(f, S) == CHOOSE i \in S : \A j \in S :
                 f[i].u > f[j].u \/ (f[i].u = f[j].u /\ i <= j)
On(f, s) == {i \in DOMAIN f : f[i].surface = s}
Surfaces(f) == {f[i].surface : i \in DOMAIN f}
\* the surface with the most uncertain head, then by name
Leader(f, S) ==
    CHOOSE s \in S : \A t \in S :
        LET hs == f[Best(f, On(f, s))].u
            ht == f[Best(f, On(f, t))].u
        IN hs > ht \/ (hs = ht /\ s <= t)
Chosen == {lead.chosen[n] : n \in DOMAIN lead.chosen}

Select ==
    /\ lead = NoLead
    /\ \E n \in 1..MaxFindings, budget \in Budgets, diversify \in BOOLEAN :
         \E f \in [1..n -> [surface: Surface, u: Uncertain]] :
            lead' = [pc |-> "select", findings |-> f, budget |-> budget,
                     diversify |-> diversify, chosen |-> <<>>,
                     visited |-> {}, progressed |-> FALSE]

\* a surface's turn: its best finding that is not chosen yet, if it has one
Visit ==
    /\ lead.pc = "select" /\ lead.diversify
    /\ Len(lead.chosen) < lead.budget
    /\ lead.visited # Surfaces(lead.findings)
    /\ LET s == Leader(lead.findings, Surfaces(lead.findings) \ lead.visited)
           left == On(lead.findings, s) \ Chosen
       IN lead' = [lead EXCEPT
                     !.visited = @ \cup {s},
                     !.chosen = IF left = {} THEN @ ELSE Append(@, Best(lead.findings, left)),
                     !.progressed = @ \/ left # {}]
Round ==
    /\ lead.pc = "select" /\ lead.diversify
    /\ Len(lead.chosen) < lead.budget
    /\ lead.visited = Surfaces(lead.findings) /\ lead.progressed
    /\ lead' = [lead EXCEPT !.visited = {}, !.progressed = FALSE]
\* without diversify: the most uncertain of all
Plain ==
    /\ lead.pc = "select" /\ ~lead.diversify
    /\ Len(lead.chosen) < lead.budget
    /\ DOMAIN lead.findings \ Chosen # {}
    /\ lead' = [lead EXCEPT !.chosen =
                  Append(@, Best(lead.findings, DOMAIN lead.findings \ Chosen))]
Selected ==
    /\ lead.pc = "select"
    /\ \/ Len(lead.chosen) >= lead.budget
       \/ lead.diversify /\ lead.visited = Surfaces(lead.findings) /\ ~lead.progressed
       \/ ~lead.diversify /\ Chosen = DOMAIN lead.findings
    /\ lead' = [lead EXCEPT !.pc = "selected"]

-----------------------------------------------------------------------------
\* GRAPH.  A finding has some anchors, of which the first of domain, handle and
\* app is its node, and entities; what is the anchor's own kind is no attribute.
AnchorKinds == <<"domain", "social", "app">>
Finding == [anchors: {S \in SUBSET Anchor : \A a, b \in S : a[1] = b[1] => a = b},
            entities: SUBSET Entity]
Node(f) ==
    LET kinds == {i \in DOMAIN AnchorKinds : \E a \in f.anchors : a[1] = AnchorKinds[i]}
        least == CHOOSE i \in kinds : \A j \in kinds : i <= j
    IN CHOOSE a \in f.anchors : a[1] = AnchorKinds[least]
\* the domain is never an attribute of another anchor: it would be the anchor
Attributes(f) == f.entities \cup (f.anchors \ {Node(f)})

Build == /\ lead = NoLead
         /\ lead' = [pc |-> "build", findings |-> {}, nodes |-> {}, edges |-> {}]
Add(f) ==
    /\ lead.pc = "build" /\ Cardinality(lead.findings) < MaxLeads
    /\ f \notin lead.findings
    /\ lead' = IF f.anchors = {}
               THEN [lead EXCEPT !.findings = @ \cup {f}]
               ELSE [lead EXCEPT
                       !.findings = @ \cup {f},
                       !.nodes = @ \cup {Node(f)} \cup Attributes(f),
                       !.edges = @ \cup {<<Node(f), a>> : a \in Attributes(f)}]

Neighbors(edges, n) == {m \in UNION {{e[1], e[2]} : e \in edges} :
                            <<n, m>> \in edges \/ <<m, n>> \in edges}
Pivot(root, depth) ==
    /\ lead.pc = "build"
    /\ lead' = [pc |-> "pivot", findings |-> lead.findings, edges |-> lead.edges,
                root |-> root, depth |-> depth, hops |-> 0,
                seen |-> {root} \cap lead.nodes, frontier |-> {root} \cap lead.nodes]
Hop ==
    /\ lead.pc = "pivot" /\ lead.hops < lead.depth /\ lead.frontier # {}
    /\ LET next == (UNION {Neighbors(lead.edges, n) : n \in lead.frontier}) \ lead.seen
       IN lead' = [lead EXCEPT !.seen = @ \cup next, !.frontier = next, !.hops = @ + 1]
Shown ==
    /\ lead.pc = "pivot" /\ (lead.hops = lead.depth \/ lead.frontier = {})
    /\ lead' = [lead EXCEPT !.pc = "shown"]

-----------------------------------------------------------------------------
LeadStep ==
    \/ Unify \/ Ranked \/ (\E c \in Candidate : Absorb(c) \/ Clashes(c))
    \/ Select \/ Visit \/ Round \/ Plain \/ Selected
    \/ Build \/ (\E f \in Finding : Add(f))
    \/ (\E root \in Anchor \cup Entity, depth \in Depths : Pivot(root, depth))
    \/ Hop \/ Shown
LeadSpec == LeadInit /\ [][LeadStep]_lead

-----------------------------------------------------------------------------
\* No sighting is lost or moved: a record has the sources, the number and the
\* latest time of exactly the candidates whose host it stands for; a batch is
\* lost only if it mixes times with and without a zone.
SightingsAreKept ==
    /\ lead.pc \in {"unify", "unified"} =>
         LET of(k) == {n \in DOMAIN lead.batch : Canon[lead.batch[n].host] = k}
         IN /\ \A n \in DOMAIN lead.batch :
                 Canon[lead.batch[n].host] \in DOMAIN lead.record
            /\ \A k \in DOMAIN lead.record :
                 LET r == lead.record[k]
                 IN /\ r.count = Cardinality(of(k)) /\ r.count > 0
                    /\ r.sources = {lead.batch[n].surface : n \in of(k)}
                    /\ \A n \in of(k) : lead.batch[n].seen.at <= r.seen.at
                    /\ \E n \in of(k) : lead.batch[n].seen = r.seen
    /\ lead.pc = "raised" =>
         \E m, n \in DOMAIN lead.batch :
            ~Comparable(lead.batch[m].seen, lead.batch[n].seen)

\* The budget is used up, no surface gets two more than another that still has
\* findings, and on a surface nothing is chosen before what is less certain.
BudgetIsSpread ==
    lead.pc = "selected" =>
        LET f == lead.findings
            got(s) == Cardinality(On(f, s) \cap Chosen)
        IN /\ Len(lead.chosen) = Cardinality(Chosen)
           /\ Len(lead.chosen) = Min({lead.budget, Len(f)})
           /\ \A i \in Chosen, j \in DOMAIN f \ Chosen :
                f[i].surface = f[j].surface \/ ~lead.diversify => f[i].u >= f[j].u
           /\ lead.diversify => \A s, t \in Surfaces(f) :
                On(f, t) \subseteq Chosen \/ got(s) <= got(t) + 1

\* A pivot shows what is within its number of hops, where two entities are a hop
\* apart if one finding names both and one of them is its anchor.
PivotIsReach ==
    lead.pc = "shown" =>
        LET adjacent(a, b) ==
                \E f \in lead.findings :
                    /\ f.anchors # {}
                    /\ Node(f) \in {a, b} /\ {a, b} \subseteq f.anchors \cup f.entities
            known == UNION {f.anchors \cup f.entities :
                              f \in {g \in lead.findings : g.anchors # {}}}
            within[d \in 0..lead.depth] ==
                IF d = 0 THEN {lead.root} \cap known
                ELSE within[d - 1] \cup
                       {b \in known : \E a \in within[d - 1] : adjacent(a, b)}
        IN lead.seen = within[lead.depth]

LeadsMeetReferences == SightingsAreKept /\ BudgetIsSpread /\ PivotIsReach
=============================================================================
