------------------------------ MODULE Grouping ------------------------------
(***************************************************************************)
(* The union-find of src/scoring/cluster.py and of                         *)
(* src/graph/campaign_detector.py: domains that share infrastructure       *)
(* become one cluster or one campaign.  Each loop iteration is a step.     *)
(***************************************************************************)
EXTENDS Naturals, FiniteSets

CONSTANTS
    Domain,   \* alerts' domains, or the clusterer's nodes
    Infra     \* kits, certificates, networks, registrars

ASSUME DomainAssumption == IsFiniteSet(Domain)

VARIABLES
    has,      \* the infrastructure of each domain
    mode,     \* who groups: ThreatClusterer.cluster or detect_campaigns
    parent,   \* the forest
    todo,     \* pairs to be united
    find      \* the find and union under way

groupVars == <<has, mode, parent, todo, find>>

-----------------------------------------------------------------------------
Sharing(i) == {d \in Domain : i \in has[d]}

\* _edges: every two domains with a common value, once
Edges == {p \in Domain \X Domain : p[1] # p[2] /\ has[p[1]] \cap has[p[2]] # {}}
\* detect_campaigns: the first domain of an infrastructure with each other one
Hub(i) == CHOOSE d \in Sharing(i) : TRUE
Spokes == UNION {{Hub(i)} \X (Sharing(i) \ {Hub(i)}) :
                    i \in {j \in Infra : Sharing(j) # {}}}

Between == [pc |-> "idle"]
Unread == [pc |-> "start"]

GroupInit ==
    /\ has \in [Domain -> SUBSET Infra]
    /\ mode \in {"clusters", "campaigns"}
    /\ parent = [d \in Domain |-> d]
    /\ todo = {}
    /\ find = Unread

Collect ==
    /\ find = Unread
    /\ todo' = IF mode = "clusters" THEN Edges ELSE Spokes
    /\ find' = Between
    /\ UNCHANGED <<has, mode, parent>>

\* parent[find(a)] = find(b) evaluates its right-hand side first
FirstFound == IF mode = "clusters" THEN 2 ELSE 1

Unite(pair) ==
    /\ find = Between
    /\ pair \in todo
    /\ todo' = todo \ {pair}
    /\ find' = [pc |-> "first", x |-> pair[FirstFound], pair |-> pair]
    /\ UNCHANGED <<has, mode, parent>>

Searching == find.pc \in {"first", "second"}

\* one turn of find's loop, with path halving
Climb ==
    /\ Searching
    /\ parent[find.x] # find.x
    /\ parent' = [parent EXCEPT ![find.x] = parent[parent[find.x]]]
    /\ find' = [find EXCEPT !.x = parent'[find.x]]
    /\ UNCHANGED <<has, mode, todo>>

FirstRoot ==
    /\ find.pc = "first"
    /\ parent[find.x] = find.x
    /\ find' = [pc |-> "second", x |-> find.pair[3 - FirstFound],
                root |-> find.x, pair |-> find.pair]
    /\ UNCHANGED <<has, mode, parent, todo>>

\* mutant: the member and not its root is attached
Link_Member ==
    /\ find.pc = "second"
    /\ parent[find.x] = find.x
    /\ parent' = [parent EXCEPT ![find.pair[1]] =
                    IF mode = "clusters" THEN find.root ELSE find.x]
    /\ find' = Between
    /\ UNCHANGED <<has, mode, todo>>
\* the root of a below the root of b
Link ==
    /\ find.pc = "second"
    /\ parent[find.x] = find.x
    /\ parent' = IF mode = "clusters"
                 THEN [parent EXCEPT ![find.x] = find.root]
                 ELSE [parent EXCEPT ![find.root] = find.x]
    /\ find' = Between
    /\ UNCHANGED <<has, mode, todo>>

\* all pairs are united: the groups are read off
Report ==
    /\ find = Between
    /\ todo = {}
    /\ find' = [pc |-> "done"]
    /\ UNCHANGED <<has, mode, parent, todo>>

GroupStep == Collect \/ Climb \/ FirstRoot \/ Link \/ Report
             \/ \E pair \in todo : Unite(pair)
GroupSpec == GroupInit /\ [][GroupStep]_groupVars

-----------------------------------------------------------------------------
Root(d) ==
    LET up[n \in 0..Cardinality(Domain)] == IF n = 0 THEN d ELSE parent[up[n - 1]]
    IN up[Cardinality(Domain)]
Group(d) == {e \in Domain : Root(e) = Root(d)}

\* groups.items(): cluster drops single nodes, detect_campaigns keeps them
Groups == {g \in {Group(d) : d \in Domain} :
             mode = "clusters" => Cardinality(g) >= 2}
SharedInfra(g) == {i \in Infra : Cardinality(Sharing(i)) > 1 /\ Sharing(i) \cap g # {}}

\* connected through shared infrastructure: in every set that is closed under it
Connected(d, e) ==
    \A S \in SUBSET Domain :
        (d \in S /\ \A i \in Infra : Sharing(i) \cap S = {} \/ Sharing(i) \subseteq S)
            => e \in S

\* At every moment the parents form a forest, and two domains of one tree are
\* connected through shared infrastructure; in the end two domains are in one
\* group exactly if they are, and every group of two or more says what it
\* shares and nothing another group has.
GroupsAreComponents ==
    /\ \A d \in Domain : parent[Root(d)] = Root(d)
    /\ \A d \in Domain : Connected(d, parent[d])
    /\ find.pc = "done" =>
         /\ \A d, e \in Domain : Connected(d, e) <=> Root(d) = Root(e)
         /\ \A g \in Groups : /\ Cardinality(g) > 1 <=> SharedInfra(g) # {}
                              /\ \A h \in Groups \ {g} :
                                    SharedInfra(g) \cap SharedInfra(h) = {}
=============================================================================
