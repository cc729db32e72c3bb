----------------------------- MODULE OfflineProofs -----------------------------
(***************************************************************************)
(* The analyst's offline helpers, for every size: the union-find that      *)
(* groups domains into clusters and campaigns, for any domains and shared  *)
(* infrastructure; the deduplication of leads, the selection for review    *)
(* and the pivot, for any candidates, findings, budgets and depths; the    *)
(* takedown cases, the recognition of kits, and the answers of the         *)
(* ensemble, the cloaking classifier, the tuning advice and the fusion of  *)
(* signals. Each is shown to compute what its reference says, with the     *)
(* order of the sets Python iterates over left open.                       *)
(***************************************************************************)
EXTENDS MCOffline, FiniteSetTheorems, WellFoundedInduction,
        SequenceTheorems, TLAPS

-----------------------------------------------------------------------------
(* Counting *)

(* The least-number principle, for sets. *)
LEMMA LeastOf ==
    ASSUME NEW D, D \subseteq Nat, D # {}
    PROVE  \E d \in D : \A k \in D : d <= k
<1>1. PICK d \in D : \A k \in D : <<k, d>> \notin OpToRel(<, Nat)
  BY WFMin, NatLessThanWellFounded, Zenon
<1>2. \A k \in D : ~(k < d)
  BY <1>1, Zenon DEF OpToRel
<1>3. \A k \in D : k \in Nat
  OBVIOUS
<1> QED
  BY <1>2, <1>3

(* What holds of 0 and passes from a number to the next holds up to any n. *)
LEMMA StepsReachAll ==
    ASSUME NEW n \in Nat, NEW G \in SUBSET Nat, 0 \in G,
           \A k \in 1..n : k - 1 \in G => k \in G
    PROVE  \A k \in 0..n : k \in G
<1> DEFINE D == {k \in 0..n : k \notin G}
<1> SUFFICES ASSUME D # {} PROVE FALSE
  OBVIOUS
<1>1. D \subseteq Nat
  OBVIOUS
<1>2. PICK d \in D : \A k \in D : d <= k
  <2> HIDE DEF D
  <2> QED
    BY <1>1, LeastOf
<1>3. d \in 0..n /\ d \notin G /\ d # 0
  OBVIOUS
<1>4. d - 1 \in 0..n /\ d \in 1..n
  BY <1>3
<1>5. d - 1 \in D
  BY <1>3, <1>4
<1>6. d <= d - 1
  BY <1>2, <1>5
<1> QED
  BY <1>6, <1>3

-----------------------------------------------------------------------------
(* Grouping: trees and their roots *)

(* No set of domains is closed under the parents without a root in it. *)
Forest(par) ==
    \A S \in SUBSET Domain : S # {} => \E d \in S : par[d] = d \/ par[d] \notin S
(* What each domain's root is. *)
RootsOf(par, top) ==
    \A d \in Domain : /\ par[top[d]] = top[d] /\ top[par[d]] = top[d]
                      /\ par[d] = d => top[d] = d

(* Connected and Edges, Spokes, of a table of infrastructure. *)
Bearing(h, i) == {d \in Domain : i \in h[d]}
Closed(h, S) == \A i \in Infra : Bearing(h, i) \cap S = {} \/ Bearing(h, i) \subseteq S
Tied(h, d, e) == \A S \in SUBSET Domain : d \in S /\ Closed(h, S) => e \in S
Needed(h, m, p) ==
    /\ p \in Domain \X Domain
    /\ p[1] # p[2]
    /\ IF m = "clusters" THEN h[p[1]] \cap h[p[2]] # {}
       ELSE \E i \in Infra : /\ p[1] \in Bearing(h, i) /\ p[2] \in Bearing(h, i)
                             /\ p[1] = CHOOSE d \in Bearing(h, i) : TRUE

Search ==
    {Between, Unread, [pc |-> "done"]}
    \cup [pc: {"first"}, x: Domain, pair: Domain \X Domain]
    \cup [pc: {"second"}, x: Domain, root: Domain, pair: Domain \X Domain]

(* What was begun is finished or under way, and a search stays in its tree. *)
Progress(h, m, td, par, f, top) ==
    /\ f.pc # "start" =>
         \A p : Needed(h, m, p) =>
                                   \/ p \in td
                                   \/ top[p[1]] = top[p[2]]
                                   \/ (f.pc \in {"first", "second"} /\ p = f.pair)
    /\ f.pc = "first" => top[f.x] = top[IF m = "clusters" THEN f.pair[2] ELSE f.pair[1]]
    /\ f.pc = "second" =>
         /\ top[f.x] = top[IF m = "clusters" THEN f.pair[1] ELSE f.pair[2]]
         /\ f.root = top[IF m = "clusters" THEN f.pair[2] ELSE f.pair[1]]
         /\ par[f.root] = f.root

Grouped(h, m, par, td, f) ==
    /\ h \in [Domain -> SUBSET Infra]
    /\ m \in {"clusters", "campaigns"}
    /\ par \in [Domain -> Domain]
    /\ f \in Search
    /\ \A p \in td : Needed(h, m, p)
    /\ f.pc \in {"first", "second"} => Needed(h, m, f.pair)
    /\ f.pc = "done" => td = {}
    /\ Forest(par)
    /\ \A d \in Domain : Tied(h, d, par[d])
    /\ \E top \in [Domain -> Domain] : RootsOf(par, top) /\ Progress(h, m, td, par, f, top)

GroupInv == Grouped(has, mode, parent, todo, find)

(* Infrastructure ties in both directions, and along a way. *)
LEMMA TiedAlong ==
    ASSUME NEW h, NEW d, NEW e, NEW g, Tied(h, d, e), Tied(h, e, g)
    PROVE  Tied(h, d, g)
BY DEF Tied

(* A tie that a closed set could break one way could be broken by the rest. *)
LEMMA TiedBack ==
    ASSUME NEW h, NEW d \in Domain, NEW e \in Domain, Tied(h, d, e)
    PROVE  Tied(h, e, d)
<1> SUFFICES ASSUME NEW S \in SUBSET Domain, e \in S, Closed(h, S), d \notin S
             PROVE  FALSE
  BY DEF Tied
<1> DEFINE T == Domain \ S
<1>1. Closed(h, T)
  <2> SUFFICES ASSUME NEW i \in Infra
               PROVE  Bearing(h, i) \cap T = {} \/ Bearing(h, i) \subseteq T
    BY DEF Closed
  <2>1. Bearing(h, i) \subseteq Domain
    BY DEF Bearing
  <2>2. Bearing(h, i) \cap S = {} \/ Bearing(h, i) \subseteq S
    BY DEF Closed
  <2> QED
    BY <2>1, <2>2
<1>2. d \in T /\ T \in SUBSET Domain
  OBVIOUS
<1>3. e \in T
  BY <1>1, <1>2 DEF Tied
<1> QED
  BY <1>3

(* A pair to be united shares an infrastructure. *)
LEMMA NeededShares ==
    ASSUME NEW h \in [Domain -> SUBSET Infra], NEW m, NEW p, Needed(h, m, p)
    PROVE  \E i \in Infra : p[1] \in Bearing(h, i) /\ p[2] \in Bearing(h, i)
<1>1. CASE m = "clusters"
  <2>1. PICK i : i \in h[p[1]] /\ i \in h[p[2]]
    BY <1>1 DEF Needed
  <2>2. i \in Infra /\ p[1] \in Domain /\ p[2] \in Domain
    BY <2>1 DEF Needed
  <2> QED
    BY <2>1, <2>2 DEF Bearing
<1>2. CASE m # "clusters"
  BY <1>2 DEF Needed
<1> QED
  BY <1>1, <1>2

(* What is to be united is tied. *)
LEMMA NeededTies ==
    ASSUME NEW h \in [Domain -> SUBSET Infra], NEW m, NEW p, Needed(h, m, p)
    PROVE  Tied(h, p[1], p[2])
<1>1. PICK i \in Infra : p[1] \in Bearing(h, i) /\ p[2] \in Bearing(h, i)
  BY NeededShares
<1> SUFFICES ASSUME NEW S \in SUBSET Domain, p[1] \in S, Closed(h, S)
             PROVE  p[2] \in S
  BY DEF Tied
<1>2. Bearing(h, i) \cap S = {} \/ Bearing(h, i) \subseteq S
  BY DEF Closed
<1> QED
  BY <1>1, <1>2

(* A domain is tied to its root. *)
LEMMA TiedToRoot ==
    ASSUME NEW h, NEW par \in [Domain -> Domain], NEW top \in [Domain -> Domain],
           Forest(par), RootsOf(par, top), \A d \in Domain : Tied(h, d, par[d])
    PROVE  \A d \in Domain : Tied(h, d, top[d])
<1> DEFINE S == {d \in Domain : ~Tied(h, d, top[d])}
<1> SUFFICES ASSUME S # {} PROVE FALSE
  OBVIOUS
<1>1. PICK d \in S : par[d] = d \/ par[d] \notin S
  BY DEF Forest
<1>2. d \in Domain /\ par[d] \in Domain /\ ~Tied(h, d, top[d])
  OBVIOUS
<1>3. top[par[d]] = top[d] /\ (par[d] = d => top[d] = d)
  BY <1>2 DEF RootsOf
<1>4. CASE par[d] = d
  BY <1>2, <1>3, <1>4
<1>5. CASE par[d] \notin S
  <2>1. Tied(h, par[d], top[d])
    BY <1>2, <1>3, <1>5
  <2>2. Tied(h, d, par[d])
    BY <1>2
  <2> HIDE DEF S
  <2> QED
    BY <1>2, <2>1, <2>2, TiedAlong
<1> QED
  BY <1>1, <1>4, <1>5

(* One turn of find's loop keeps the forest and its roots. *)
LEMMA HalvingKeepsTrees ==
    ASSUME NEW par \in [Domain -> Domain], NEW top \in [Domain -> Domain],
           Forest(par), RootsOf(par, top), NEW x \in Domain, par[x] # x,
           NEW new, new = [par EXCEPT ![x] = par[par[x]]]
    PROVE  Forest(new) /\ RootsOf(new, top)
<1>1. \A d \in Domain : d # x => new[d] = par[d]
  OBVIOUS
<1>2. new[x] = par[par[x]] /\ par[x] \in Domain /\ par[par[x]] \in Domain
  OBVIOUS
<1>3. Forest(new)
  <2> SUFFICES ASSUME NEW S \in SUBSET Domain, S # {},
                      \A d \in S : new[d] # d /\ new[d] \in S
               PROVE  FALSE
    BY DEF Forest
  <2>1. CASE x \notin S
    <3>1. \A d \in S : par[d] # d /\ par[d] \in S
      BY <1>1, <2>1
    <3> QED
      BY <3>1 DEF Forest
  <2>2. CASE x \in S
    <3> DEFINE T == S \cup {par[x]}
    <3>1. T \in SUBSET Domain /\ T # {}
      BY <1>2
    <3>2. \A d \in T : par[d] # d /\ par[d] \in T
      <4> SUFFICES ASSUME NEW d \in T PROVE par[d] # d /\ par[d] \in T
        OBVIOUS
      <4>1. CASE d = x
        BY <4>1
      <4>2. CASE d # x /\ d \in S
        BY <1>1, <4>2
      <4>3. CASE d \notin S
        <5>1. d = par[x]
          BY <4>3
        <5>2. par[d] = new[x]
          BY <5>1, <1>2
        <5>3. par[d] \in S
          BY <5>2, <2>2
        <5> QED
          BY <5>3, <4>3
      <4> QED
        BY <4>1, <4>2, <4>3
    <3> HIDE DEF T
    <3> QED
      BY <3>1, <3>2 DEF Forest
  <2> QED
    BY <2>1, <2>2
<1>4. par[par[x]] # x
  <2> SUFFICES ASSUME par[par[x]] = x PROVE FALSE
    OBVIOUS
  <2> DEFINE T == {x, par[x]}
  <2>1. T \in SUBSET Domain /\ T # {}
    BY <1>2
  <2>2. \A d \in T : par[d] # d /\ par[d] \in T
    OBVIOUS
  <2> HIDE DEF T
  <2> QED
    BY <2>1, <2>2 DEF Forest
<1>5. RootsOf(new, top)
  <2> SUFFICES ASSUME NEW d \in Domain
               PROVE  /\ new[top[d]] = top[d] /\ top[new[d]] = top[d]
                      /\ new[d] = d => top[d] = d
    BY DEF RootsOf
  <2>1. par[top[d]] = top[d] /\ top[par[d]] = top[d] /\ (par[d] = d => top[d] = d)
    BY DEF RootsOf
  <2>2. new[top[d]] = top[d]
    BY <2>1, <1>1
  <2>3. top[par[x]] = top[x] /\ top[par[par[x]]] = top[par[x]]
    BY <1>2 DEF RootsOf
  <2>4. top[new[d]] = top[d]
    BY <2>1, <2>3, <1>1, <1>2
  <2>5. new[d] = d => top[d] = d
    BY <2>1, <1>1, <1>2, <1>4
  <2> QED
    BY <2>2, <2>4, <2>5
<1> QED
  BY <1>3, <1>5

(* A root attached to a root. *)
Joined(par, top, a, b, new, up) ==
    /\ par[a] = a /\ par[b] = b
    /\ new[a] = b /\ \A d \in Domain : d # a => new[d] = par[d]
    /\ \A d \in Domain : up[d] = IF top[d] = a THEN b ELSE top[d]

(* The two trees become one. *)
LEMMA LinkingJoinsTrees ==
    ASSUME NEW par \in [Domain -> Domain], NEW top \in [Domain -> Domain],
           Forest(par), RootsOf(par, top),
           NEW a \in Domain, NEW b \in Domain, NEW new, NEW up,
           Joined(par, top, a, b, new, up)
    PROVE  Forest(new) /\ RootsOf(new, up)
<1>0. par[a] = a /\ par[b] = b
  BY DEF Joined
<1>1. new[a] = b /\ \A d \in Domain : d # a => new[d] = par[d]
  BY DEF Joined
<1>2. \A d \in Domain : /\ top[d] = a => up[d] = b
                        /\ top[d] # a => up[d] = top[d]
  BY DEF Joined
<1>3. top[a] = a /\ top[b] = b
  BY <1>0 DEF RootsOf
<1>4. Forest(new)
  <2> SUFFICES ASSUME NEW S \in SUBSET Domain, S # {}
               PROVE  \E d \in S : new[d] = d \/ new[d] \notin S
    BY DEF Forest
  <2>1. PICK d \in S : par[d] = d \/ par[d] \notin S
    BY DEF Forest
  <2>2. CASE d # a
    BY <2>1, <2>2, <1>1
  <2>3. CASE d = a /\ b \notin S
    BY <2>3, <1>1
  <2>4. CASE d = a /\ b \in S
    <3>1. new[b] = b
      BY <1>0, <1>1
    <3> QED
      BY <2>4, <3>1
  <2> QED
    BY <2>2, <2>3, <2>4
<1>5. RootsOf(new, up)
  <2> SUFFICES ASSUME NEW d \in Domain
               PROVE  /\ new[up[d]] = up[d] /\ up[new[d]] = up[d]
                      /\ new[d] = d => up[d] = d
    BY DEF RootsOf
  <2>1. par[top[d]] = top[d] /\ top[par[d]] = top[d] /\ (par[d] = d => top[d] = d)
    BY DEF RootsOf
  <2>2. new[b] = b
    BY <1>0, <1>1
  <2>3. new[up[d]] = up[d]
    BY <2>1, <2>2, <1>1, <1>2
  <2>4. up[a] = b /\ up[b] = b
    BY <1>2, <1>3
  <2>5. up[new[d]] = up[d]
    <3>1. CASE d = a
      BY <3>1, <1>1, <2>4
    <3>2. CASE d # a
      <4>1. new[d] = par[d] /\ par[d] \in Domain
        BY <3>2, <1>1
      <4> QED
        BY <4>1, <2>1, <1>2
    <3> QED
      BY <3>1, <3>2
  <2>6. new[d] = d => up[d] = d
    <3>1. CASE d = a
      BY <3>1, <1>1, <2>4
    <3>2. CASE d # a
      BY <3>2, <1>1, <1>2, <2>1
    <3> QED
      BY <3>1, <3>2
  <2> QED
    BY <2>3, <2>5, <2>6
<1> QED
  BY <1>4, <1>5

(* What Root walks. *)
Walk(par, d, n, u) ==
    /\ u \in [0..n -> Domain]
    /\ u[0] = d
    /\ \A k \in 1..n : u[k] = par[u[k - 1]]

(* A walk of every length exists. *)
LEMMA WalksExist ==
    ASSUME NEW par \in [Domain -> Domain], NEW d \in Domain, NEW n \in Nat
    PROVE  \E u : Walk(par, d, n, u)
<1> DEFINE G == {k \in Nat : \E u : Walk(par, d, k, u)}
<1>1. 0 \in G
  <2> DEFINE u == [k \in 0..0 |-> d]
  <2>1. Walk(par, d, 0, u)
    BY DEF Walk
  <2> HIDE DEF u
  <2> QED
    BY <2>1
<1>2. \A k \in 1..n : k - 1 \in G => k \in G
  <2> SUFFICES ASSUME NEW k \in 1..n, k - 1 \in G PROVE k \in G
    OBVIOUS
  <2>1. PICK u : Walk(par, d, k - 1, u)
    OBVIOUS
  <2> DEFINE v == [j \in 0..k |-> IF j = k THEN par[u[k - 1]] ELSE u[j]]
  <2>2. u \in [0..(k - 1) -> Domain] /\ u[0] = d /\ \A j \in 1..(k - 1) : u[j] = par[u[j - 1]]
    BY <2>1 DEF Walk
  <2>3. v \in [0..k -> Domain]
    BY <2>2
  <2>4. v[0] = d
    BY <2>2
  <2>5. ASSUME NEW j \in 1..k PROVE v[j] = par[v[j - 1]]
    <3>1. j - 1 \in 0..(k - 1) /\ v[j - 1] = u[j - 1]
      OBVIOUS
    <3>2. CASE j = k
      BY <3>1, <3>2
    <3>3. CASE j # k
      BY <3>1, <3>3, <2>2
    <3> QED
      BY <3>2, <3>3
  <2>6. Walk(par, d, k, v)
    <3> HIDE DEF v
    <3> QED
      BY <2>3, <2>4, <2>5 DEF Walk
  <2> HIDE DEF v
  <2> QED
    BY <2>6
<1>3. n \in G
  <2> HIDE DEF G
  <2>1. G \in SUBSET Nat
    BY DEF G
  <2>2. \A k \in 0..n : k \in G
    BY <1>1, <1>2, <2>1, StepsReachAll
  <2> QED
    BY <2>2
<1> QED
  BY <1>3

(* Walking stays in the tree. *)
LEMMA WalkKeepsRoot ==
    ASSUME NEW par \in [Domain -> Domain], NEW top \in [Domain -> Domain], RootsOf(par, top),
           NEW d \in Domain, NEW n \in Nat, NEW u, Walk(par, d, n, u)
    PROVE  \A k \in 0..n : top[u[k]] = top[d]
<1> DEFINE G == {k \in Nat : k \in 0..n => top[u[k]] = top[d]}
<1>0. u \in [0..n -> Domain] /\ u[0] = d /\ \A k \in 1..n : u[k] = par[u[k - 1]]
  BY DEF Walk
<1>1. 0 \in G
  BY <1>0
<1>2. \A k \in 1..n : k - 1 \in G => k \in G
  <2> SUFFICES ASSUME NEW k \in 1..n, k - 1 \in G PROVE k \in G
    OBVIOUS
  <2>1. k - 1 \in 0..n /\ top[u[k - 1]] = top[d] /\ u[k - 1] \in Domain
    BY <1>0
  <2>2. top[par[u[k - 1]]] = top[u[k - 1]]
    BY <2>1 DEF RootsOf
  <2> QED
    BY <1>0, <2>1, <2>2
<1>3. \A k \in 0..n : k \in G
  <2> HIDE DEF G
  <2>1. G \in SUBSET Nat
    BY DEF G
  <2> QED
    BY <1>1, <1>2, <2>1, StepsReachAll
<1> QED
  BY <1>3

(* Once at a root the walk stays there. *)
LEMMA WalkRests ==
    ASSUME NEW par \in [Domain -> Domain], NEW d \in Domain, NEW n \in Nat, NEW u,
           Walk(par, d, n, u), NEW k \in 0..n, par[u[k]] = u[k]
    PROVE  u[n] = u[k]
<1> DEFINE G == {j \in Nat : j \in k..n => u[j] = u[k]}
<1>0. u \in [0..n -> Domain] /\ \A j \in 1..n : u[j] = par[u[j - 1]]
  BY DEF Walk
<1>1. 0 \in G
  OBVIOUS
<1>2. \A j \in 1..n : j - 1 \in G => j \in G
  BY <1>0
<1>3. \A j \in 0..n : j \in G
  <2> HIDE DEF G
  <2>1. G \in SUBSET Nat
    BY DEF G
  <2> QED
    BY <1>1, <1>2, <2>1, StepsReachAll
<1> QED
  BY <1>3

(* A walk as long as there are domains ends at the root. *)
LEMMA WalkReachesRoot ==
    ASSUME NEW par \in [Domain -> Domain], Forest(par), NEW d \in Domain, NEW n \in Nat,
           n = Cardinality(Domain), IsFiniteSet(Domain), NEW u, Walk(par, d, n, u)
    PROVE  par[u[n]] = u[n]
<1>0. u \in [0..n -> Domain] /\ \A j \in 1..n : u[j] = par[u[j - 1]]
  BY DEF Walk
<1> SUFFICES ASSUME par[u[n]] # u[n] PROVE FALSE
  OBVIOUS
<1>1. \A k \in 0..n : par[u[k]] # u[k]
  <2> SUFFICES ASSUME NEW k \in 0..n, par[u[k]] = u[k] PROVE FALSE
    OBVIOUS
  <2>1. u[n] = u[k]
    BY WalkRests
  <2> QED
    BY <2>1
<1>2. \E i \in 0..n : \E j \in 0..n : i # j /\ u[i] = u[j]
  <2>1. IsFiniteSet(0..n) /\ Cardinality(0..n) = n + 1
    <3>1. 0 \in Int /\ n \in Int
      OBVIOUS
    <3> QED
      BY <3>1, FS_Interval
  <2>2. Cardinality(Domain) < Cardinality(0..n)
    BY <2>1
  <2>3. \A f \in [0..n -> Domain] : \E i, j \in 0..n : i # j /\ f[i] = f[j]
    BY <2>1, <2>2, FS_PigeonHole
  <2> QED
    BY <1>0, <2>3
<1>3. PICK i \in 0..n : \E j \in 0..n : i < j /\ u[i] = u[j]
  BY <1>2
<1>4. PICK j \in 0..n : i < j /\ u[i] = u[j]
  BY <1>3
<1> DEFINE S == {u[k] : k \in i..(j - 1)}
<1>5. S \in SUBSET Domain
  BY <1>0
<1>6. S # {}
  BY <1>4
<1>7. \A e \in S : par[e] # e /\ par[e] \in S
  <2> SUFFICES ASSUME NEW k \in i..(j - 1) PROVE par[u[k]] # u[k] /\ par[u[k]] \in S
    OBVIOUS
  <2>1. k \in 0..n /\ k + 1 \in 1..n /\ (k + 1) - 1 = k
    OBVIOUS
  <2>2. u[k + 1] = par[u[k]]
    BY <1>0, <2>1
  <2>3. u[k + 1] \in S
    <3>1. CASE k + 1 = j
      BY <3>1, <1>4
    <3>2. CASE k + 1 # j
      BY <3>2
    <3> QED
      BY <3>1, <3>2
  <2> QED
    BY <1>1, <2>1, <2>2, <2>3
<1> HIDE DEF S
<1> QED
  BY <1>5, <1>6, <1>7 DEF Forest

(* Root is the root. *)
LEMMA RootIsTop ==
    ASSUME NEW top \in [Domain -> Domain], parent \in [Domain -> Domain],
           Forest(parent), RootsOf(parent, top), NEW d \in Domain
    PROVE  Root(d) = top[d]
<1> DEFINE n == Cardinality(Domain)
           W == CHOOSE u : u = [k \in 0..n |-> IF k = 0 THEN d ELSE parent[u[k - 1]]]
<1>1. n \in Nat /\ IsFiniteSet(Domain)
  BY DomainAssumption, FS_CardinalityType
<1>2. Root(d) = W[n]
  BY DEF Root
<1>3. PICK w : Walk(parent, d, n, w)
  <2> HIDE DEF n
  <2> QED
    BY <1>1, WalksExist
<1>4. w = [k \in 0..n |-> IF k = 0 THEN d ELSE parent[w[k - 1]]]
  <2> HIDE DEF n
  <2>1. w \in [0..n -> Domain] /\ w[0] = d /\ \A k \in 1..n : w[k] = parent[w[k - 1]]
    BY <1>3 DEF Walk
  <2>2. \A k \in 0..n : w[k] = IF k = 0 THEN d ELSE parent[w[k - 1]]
    BY <2>1, <1>1
  <2> QED
    BY <2>1, <2>2
<1>5. W = [k \in 0..n |-> IF k = 0 THEN d ELSE parent[W[k - 1]]]
  <2> HIDE DEF n
  <2> QED
    BY <1>4
<1> HIDE DEF W
<1>6. Walk(parent, d, n, W)
  <2> HIDE DEF n
  <2>1. W[0] = d /\ \A k \in 1..n : W[k] = parent[W[k - 1]]
    BY <1>5, <1>1
  <2> DEFINE G == {k \in Nat : k \in 0..n => W[k] \in Domain}
  <2>2. 0 \in G
    BY <2>1
  <2>3. \A k \in 1..n : k - 1 \in G => k \in G
    <3> SUFFICES ASSUME NEW k \in 1..n, k - 1 \in G PROVE k \in G
      OBVIOUS
    <3>1. k \in Nat /\ k - 1 \in 0..n
      BY <1>1
    <3>2. W[k - 1] \in Domain
      BY <3>1
    <3>3. parent[W[k - 1]] \in Domain
      BY <3>2
    <3>4. W[k] \in Domain
      BY <2>1, <3>3
    <3> QED
      BY <3>1, <3>4
  <2>4. \A k \in 0..n : k \in G
    <3> HIDE DEF G
    <3>1. G \in SUBSET Nat
      BY DEF G
    <3> QED
      BY <1>1, <2>2, <2>3, <3>1, StepsReachAll
  <2>5. W \in [0..n -> Domain]
    <3>1. \A k \in 0..n : W[k] \in Domain
      BY <2>4
    <3> QED
      BY <3>1, <1>5
  <2> QED
    BY <2>1, <2>5 DEF Walk
<1>7. parent[W[n]] = W[n] /\ W[n] \in Domain
  <2> HIDE DEF n
  <2>1. Cardinality(Domain) = n
    BY DEF n
  <2>2. W[n] \in Domain
    BY <1>6, <1>1 DEF Walk
  <2> QED
    BY <1>1, <1>6, <2>1, <2>2, WalkReachesRoot
<1>8. top[W[n]] = top[d]
  <2> HIDE DEF n
  <2> QED
    BY <1>1, <1>6, WalkKeepsRoot
<1> HIDE DEF n
<1> QED
  BY <1>2, <1>7, <1>8 DEF RootsOf

-----------------------------------------------------------------------------
(* The search, step by step *)

(* The records of a search. *)
LEMMA SearchFields ==
    ASSUME NEW f \in Search
    PROVE  /\ f.pc = "first" => f \in [pc: {"first"}, x: Domain, pair: Domain \X Domain]
           /\ f.pc = "second" => f \in [pc: {"second"}, x: Domain, root: Domain, pair: Domain \X Domain]
           /\ f.pc \in {"idle", "start", "done", "first", "second"}
BY DEF Search, Between, Unread

(* A finished turn of the loop. *)
LEMMA ClimbKeepsInv ==
    ASSUME NEW h, NEW m, NEW td, NEW par, NEW f, Grouped(h, m, par, td, f),
           f.pc \in {"first", "second"}, par[f.x] # f.x,
           NEW new, new = [par EXCEPT ![f.x] = par[par[f.x]]],
           NEW g, g = [f EXCEPT !.x = new[f.x]]
    PROVE  Grouped(h, m, new, td, g)
<1>1. /\ h \in [Domain -> SUBSET Infra] /\ m \in {"clusters", "campaigns"}
      /\ par \in [Domain -> Domain] /\ f \in Search
      /\ \A p \in td : Needed(h, m, p)
      /\ Needed(h, m, f.pair) /\ Forest(par) /\ \A d \in Domain : Tied(h, d, par[d])
  BY DEF Grouped
<1>2. PICK top \in [Domain -> Domain] : RootsOf(par, top) /\ Progress(h, m, td, par, f, top)
  BY DEF Grouped
<1>3. f.x \in Domain /\ par[f.x] \in Domain /\ par[par[f.x]] \in Domain
  BY <1>1, SearchFields
<1>4. new \in [Domain -> Domain] /\ new[f.x] = par[par[f.x]]
  BY <1>1, <1>3
<1>5. Forest(new) /\ RootsOf(new, top)
  <2>1. PICK x : x = f.x
    OBVIOUS
  <2> QED
    BY <1>1, <1>2, <1>3, <2>1, HalvingKeepsTrees
<1>6. \A d \in Domain : Tied(h, d, new[d])
  <2> SUFFICES ASSUME NEW d \in Domain PROVE Tied(h, d, new[d])
    OBVIOUS
  <2>1. CASE d = f.x
    <3>1. Tied(h, d, par[d]) /\ Tied(h, par[d], par[par[d]])
      BY <1>1, <1>3, <2>1
    <3>2. Tied(h, d, par[par[d]])
      BY <3>1, TiedAlong
    <3> QED
      BY <3>2, <2>1, <1>4
  <2>2. CASE d # f.x
    <3>1. new[d] = par[d]
      BY <2>2, <1>1
    <3> QED
      BY <3>1, <1>1
  <2> QED
    BY <2>1, <2>2
<1>7. /\ g \in Search /\ g.pc = f.pc /\ g.pair = f.pair /\ g.x = par[par[f.x]]
      /\ f.pc = "second" => g.root = f.root
  <2>1. CASE f.pc = "first"
    <3>1. f \in [pc: {"first"}, x: Domain, pair: Domain \X Domain]
      BY <2>1, <1>1, SearchFields
    <3>2. /\ g \in [pc: {"first"}, x: Domain, pair: Domain \X Domain]
          /\ g.pc = f.pc /\ g.pair = f.pair /\ g.x = par[par[f.x]]
      BY <3>1, <1>3, <1>4
    <3> QED
      BY <3>2, <2>1 DEF Search
  <2>2. CASE f.pc = "second"
    <3>1. f \in [pc: {"second"}, x: Domain, root: Domain, pair: Domain \X Domain]
      BY <2>2, <1>1, SearchFields
    <3>2. /\ g \in [pc: {"second"}, x: Domain, root: Domain, pair: Domain \X Domain]
          /\ g.pc = f.pc /\ g.pair = f.pair /\ g.x = par[par[f.x]] /\ g.root = f.root
      BY <3>1, <1>3, <1>4
    <3> QED
      BY <3>2, <2>2 DEF Search
  <2> QED
    BY <2>1, <2>2
<1>8. top[g.x] = top[f.x]
  <2>1. top[par[f.x]] = top[f.x] /\ top[par[par[f.x]]] = top[par[f.x]]
    BY <1>2, <1>3 DEF RootsOf
  <2> QED
    BY <2>1, <1>7
<1>9. Progress(h, m, td, new, g, top)
  <2>1. f.pc = "second" => new[g.root] = g.root
    <3> SUFFICES ASSUME f.pc = "second" PROVE new[g.root] = g.root
      OBVIOUS
    <3>1. f.root \in Domain /\ par[f.root] = f.root
      BY <1>1, <1>2, SearchFields DEF Progress
    <3>2. f.root # f.x
      BY <3>1
    <3> QED
      BY <3>1, <3>2, <1>1, <1>7
  <2> QED
    BY <1>2, <1>7, <1>8, <2>1 DEF Progress
<1> QED
  BY <1>1, <1>2, <1>4, <1>5, <1>6, <1>7, <1>9 DEF Grouped

(* The first root is found. *)
LEMMA FirstRootKeepsInv ==
    ASSUME NEW h, NEW m, NEW td, NEW par, NEW f, Grouped(h, m, par, td, f),
           f.pc = "first", par[f.x] = f.x,
           NEW g, g = [pc |-> "second", x |-> f.pair[3 - (IF m = "clusters" THEN 2 ELSE 1)],
                       root |-> f.x, pair |-> f.pair]
    PROVE  Grouped(h, m, par, td, g)
<1>1. /\ h \in [Domain -> SUBSET Infra] /\ m \in {"clusters", "campaigns"}
      /\ par \in [Domain -> Domain] /\ f \in Search
      /\ \A p \in td : Needed(h, m, p)
      /\ Needed(h, m, f.pair) /\ Forest(par) /\ \A d \in Domain : Tied(h, d, par[d])
  BY DEF Grouped
<1>2. PICK top \in [Domain -> Domain] : RootsOf(par, top) /\ Progress(h, m, td, par, f, top)
  BY DEF Grouped
<1>3. f.x \in Domain /\ f.pair \in Domain \X Domain
  BY <1>1, SearchFields
<1>4. top[f.x] = f.x
  BY <1>2, <1>3 DEF RootsOf
<1>5. /\ g.pc = "second" /\ g.pair = f.pair /\ g.root = f.x
      /\ g.x = IF m = "clusters" THEN f.pair[1] ELSE f.pair[2]
  <2>1. CASE m = "clusters"
    BY <2>1
  <2>2. CASE m # "clusters"
    BY <2>2
  <2> QED
    BY <2>1, <2>2
<1>6. g \in Search
  <2>1. g.x \in Domain
    BY <1>3, <1>5
  <2>2. g = [pc |-> "second", x |-> g.x, root |-> f.x, pair |-> f.pair]
    BY <1>5
  <2>3. g \in [pc: {"second"}, x: Domain, root: Domain, pair: Domain \X Domain]
    BY <2>1, <2>2, <1>3
  <2> QED
    BY <2>3 DEF Search
<1>7. Progress(h, m, td, par, g, top)
  BY <1>2, <1>4, <1>5 DEF Progress
<1> QED
  BY <1>1, <1>2, <1>5, <1>6, <1>7 DEF Grouped

(* A pair is taken up. *)
LEMMA UniteKeepsInv ==
    ASSUME NEW h, NEW m, NEW td, NEW par, NEW f, Grouped(h, m, par, td, f),
           f = Between, NEW pair \in td,
           NEW left, left = td \ {pair},
           NEW g, g = [pc |-> "first", x |-> pair[IF m = "clusters" THEN 2 ELSE 1], pair |-> pair]
    PROVE  Grouped(h, m, par, left, g)
<1>1. /\ h \in [Domain -> SUBSET Infra] /\ m \in {"clusters", "campaigns"}
      /\ par \in [Domain -> Domain]
      /\ \A p \in td : Needed(h, m, p)
      /\ Forest(par) /\ \A d \in Domain : Tied(h, d, par[d])
  BY DEF Grouped
<1>2. PICK top \in [Domain -> Domain] : RootsOf(par, top) /\ Progress(h, m, td, par, f, top)
  BY DEF Grouped
<1>3. pair \in Domain \X Domain /\ Needed(h, m, pair)
  BY <1>1 DEF Needed
<1>4. /\ g.pc = "first" /\ g.pair = pair
      /\ g.x = IF m = "clusters" THEN pair[2] ELSE pair[1]
  OBVIOUS
<1>5. g \in Search
  <2>1. g.x \in Domain
    BY <1>3, <1>4
  <2>2. g = [pc |-> "first", x |-> g.x, pair |-> pair]
    BY <1>4
  <2>3. g \in [pc: {"first"}, x: Domain, pair: Domain \X Domain]
    BY <2>1, <2>2, <1>3
  <2> QED
    BY <2>3 DEF Search
<1>6. f.pc = "idle"
  BY DEF Between
<1>7. Progress(h, m, left, par, g, top)
  BY <1>2, <1>4, <1>6 DEF Progress
<1> QED
  BY <1>1, <1>2, <1>3, <1>4, <1>5, <1>7 DEF Grouped

(* The second root is found and the trees are joined. *)
LEMMA LinkKeepsInv ==
    ASSUME NEW h, NEW m, NEW td, NEW par, NEW f, Grouped(h, m, par, td, f),
           f.pc = "second", par[f.x] = f.x,
           NEW new, new = IF m = "clusters" THEN [par EXCEPT ![f.x] = f.root]
                          ELSE [par EXCEPT ![f.root] = f.x]
    PROVE  Grouped(h, m, new, td, Between)
<1>1. /\ h \in [Domain -> SUBSET Infra] /\ m \in {"clusters", "campaigns"}
      /\ par \in [Domain -> Domain] /\ f \in Search
      /\ \A p \in td : Needed(h, m, p)
      /\ Needed(h, m, f.pair) /\ Forest(par) /\ \A d \in Domain : Tied(h, d, par[d])
  BY DEF Grouped
<1>2. PICK top \in [Domain -> Domain] : RootsOf(par, top) /\ Progress(h, m, td, par, f, top)
  BY DEF Grouped
<1>3. f.x \in Domain /\ f.root \in Domain /\ f.pair \in Domain \X Domain
  BY <1>1, SearchFields
<1>4. top[f.x] = f.x /\ par[f.root] = f.root /\ top[f.root] = f.root
  BY <1>2, <1>3 DEF RootsOf, Progress
<1>5. PICK a \in Domain, b \in Domain :
        /\ par[a] = a /\ par[b] = b /\ new = [par EXCEPT ![a] = b]
        /\ a = top[f.pair[1]] /\ b = top[f.pair[2]]
  <2>1. CASE m = "clusters"
    <3>1. f.x = top[f.pair[1]] /\ f.root = top[f.pair[2]]
      BY <2>1, <1>2, <1>4 DEF Progress
    <3>2. new = [par EXCEPT ![f.x] = f.root]
      BY <2>1
    <3> QED
      BY <3>1, <3>2, <1>3, <1>4
  <2>2. CASE m # "clusters"
    <3>1. f.x = top[f.pair[2]] /\ f.root = top[f.pair[1]]
      BY <2>2, <1>2, <1>4 DEF Progress
    <3>2. new = [par EXCEPT ![f.root] = f.x]
      BY <2>2
    <3> QED
      BY <3>1, <3>2, <1>3, <1>4
  <2> QED
    BY <2>1, <2>2
<1>6. PICK up : up = [d \in Domain |-> IF top[d] = a THEN b ELSE top[d]]
  OBVIOUS
<1>7. Forest(new) /\ RootsOf(new, up)
  <2>1. par \in [Domain -> Domain] /\ Forest(par) /\ RootsOf(par, top)
    BY <1>1, <1>2
  <2>2. /\ par[a] = a /\ par[b] = b
        /\ new[a] = b /\ \A d \in Domain : d # a => new[d] = par[d]
    BY <1>5, <2>1
  <2>3. \A d \in Domain : up[d] = IF top[d] = a THEN b ELSE top[d]
    BY <1>6
  <2>4. Joined(par, top, a, b, new, up)
    BY <2>2, <2>3 DEF Joined
  <2> QED
    BY <2>1, <2>4, LinkingJoinsTrees
<1>8. up \in [Domain -> Domain] /\ new \in [Domain -> Domain]
  BY <1>1, <1>5, <1>6
<1>9. Tied(h, a, b)
  <2>1. PICK c \in Domain, e \in Domain : c = f.pair[1] /\ e = f.pair[2]
    BY <1>3
  <2>2. Tied(h, c, e)
    BY <1>1, <2>1, NeededTies
  <2>3. Tied(h, c, a) /\ Tied(h, e, b)
    <3>1. \A d \in Domain : Tied(h, d, top[d])
      BY <1>1, <1>2, TiedToRoot
    <3> QED
      BY <3>1, <2>1, <1>5
  <2>4. Tied(h, a, c)
    BY <2>3, TiedBack
  <2>5. Tied(h, a, e)
    BY <2>4, <2>2, TiedAlong
  <2> QED
    BY <2>5, <2>3, TiedAlong
<1>10. \A d \in Domain : Tied(h, d, new[d])
  <2> SUFFICES ASSUME NEW d \in Domain PROVE Tied(h, d, new[d])
    OBVIOUS
  <2>1. CASE d = a
    <3>1. new[d] = b
      BY <2>1, <1>1, <1>5
    <3> QED
      BY <3>1, <2>1, <1>9
  <2>2. CASE d # a
    <3>1. new[d] = par[d]
      BY <2>2, <1>1, <1>5
    <3> QED
      BY <3>1, <1>1
  <2> QED
    BY <2>1, <2>2
<1>11. Between.pc = "idle" /\ Between \in Search
  BY DEF Between, Search
<1>12. Progress(h, m, td, new, Between, up)
  <2>1. ASSUME NEW p, Needed(h, m, p), p \notin td
        PROVE  up[p[1]] = up[p[2]]
    <3>1. p[1] \in Domain /\ p[2] \in Domain
      BY <2>1 DEF Needed
    <3>2. top[p[1]] = top[p[2]] \/ p = f.pair
      BY <2>1, <1>2 DEF Progress
    <3>3. CASE top[p[1]] = top[p[2]]
      BY <3>1, <3>3, <1>6
    <3>4. CASE p = f.pair
      BY <3>1, <3>4, <1>5, <1>6
    <3> QED
      BY <3>2, <3>3, <3>4
  <2> QED
    BY <2>1, <1>11 DEF Progress
<1> QED
  BY <1>1, <1>7, <1>8, <1>10, <1>11, <1>12 DEF Grouped

(* The loop is over. *)
LEMMA ReportKeepsInv ==
    ASSUME NEW h, NEW m, NEW td, NEW par, NEW f, Grouped(h, m, par, td, f),
           f = Between, td = {}, NEW g, g = [pc |-> "done"]
    PROVE  Grouped(h, m, par, td, g)
<1>1. /\ h \in [Domain -> SUBSET Infra] /\ m \in {"clusters", "campaigns"}
      /\ par \in [Domain -> Domain]
      /\ Forest(par) /\ \A d \in Domain : Tied(h, d, par[d])
  BY DEF Grouped
<1>2. PICK top \in [Domain -> Domain] : RootsOf(par, top) /\ Progress(h, m, td, par, f, top)
  BY DEF Grouped
<1>3. g.pc = "done" /\ f.pc = "idle" /\ g \in Search
  BY DEF Between, Search
<1>4. Progress(h, m, td, par, g, top)
  BY <1>2, <1>3 DEF Progress
<1> QED
  BY <1>1, <1>2, <1>3, <1>4 DEF Grouped

(* The pairs are collected. *)
LEMMA PairsAreNeeded ==
    ASSUME has \in [Domain -> SUBSET Infra]
    PROVE  /\ \A p : p \in Edges => Needed(has, "clusters", p)
           /\ \A p : Needed(has, "clusters", p) => p \in Edges
           /\ \A p : p \in Spokes => Needed(has, "campaigns", p)
           /\ \A p : Needed(has, "campaigns", p) => p \in Spokes
<1>1. \A i : Sharing(i) = Bearing(has, i)
  BY DEF Sharing, Bearing
<1>2. \A i : Hub(i) = CHOOSE d \in Bearing(has, i) : TRUE
  BY <1>1 DEF Hub
<1>3. \A p : p \in Edges => Needed(has, "clusters", p)
  BY DEF Edges, Needed
<1>4. \A p : Needed(has, "clusters", p) => p \in Edges
  BY DEF Edges, Needed
<1>5. ASSUME NEW p, p \in Spokes PROVE Needed(has, "campaigns", p)
  <2>1. PICK i \in Infra : /\ Sharing(i) # {}
                           /\ p \in {Hub(i)} \X (Sharing(i) \ {Hub(i)})
    BY <1>5 DEF Spokes
  <2>2. Hub(i) \in Sharing(i)
    BY <2>1 DEF Hub
  <2>3. p[1] = Hub(i) /\ p[2] \in Sharing(i) /\ p[1] # p[2] /\ p = <<p[1], p[2]>>
    BY <2>1
  <2>4. Sharing(i) \subseteq Domain
    BY DEF Sharing
  <2>5. p \in Domain \X Domain
    BY <2>2, <2>3, <2>4
  <2>6. p[1] \in Bearing(has, i) /\ p[2] \in Bearing(has, i)
        /\ p[1] = CHOOSE d \in Bearing(has, i) : TRUE
    BY <2>2, <2>3, <1>1, <1>2
  <2> QED
    BY <2>3, <2>5, <2>6 DEF Needed
<1>6. ASSUME NEW p, Needed(has, "campaigns", p) PROVE p \in Spokes
  <2>1. PICK i \in Infra : /\ p[1] \in Bearing(has, i) /\ p[2] \in Bearing(has, i)
                           /\ p[1] = CHOOSE d \in Bearing(has, i) : TRUE
    BY <1>6 DEF Needed
  <2>2. p \in Domain \X Domain /\ p[1] # p[2]
    BY <1>6 DEF Needed
  <2>3. p[1] = Hub(i) /\ p[2] \in Sharing(i) \ {Hub(i)}
    BY <2>1, <2>2, <1>1, <1>2
  <2>4. p \in {Hub(i)} \X (Sharing(i) \ {Hub(i)})
    BY <2>2, <2>3
  <2> QED
    BY <2>3, <2>4 DEF Spokes
<1> QED
  BY <1>3, <1>4, <1>5, <1>6

(* The pairs are taken down before any of them is united. *)
LEMMA CollectKeepsInv ==
    ASSUME NEW h, NEW m, NEW td, NEW par, NEW f, Grouped(h, m, par, td, f),
           f = Unread, NEW new, \A p : p \in new => Needed(h, m, p),
           \A p : Needed(h, m, p) => p \in new
    PROVE  Grouped(h, m, par, new, Between)
<1>1. /\ h \in [Domain -> SUBSET Infra] /\ m \in {"clusters", "campaigns"}
      /\ par \in [Domain -> Domain]
      /\ Forest(par) /\ \A d \in Domain : Tied(h, d, par[d])
  BY DEF Grouped
<1>2. PICK top \in [Domain -> Domain] : RootsOf(par, top) /\ Progress(h, m, td, par, f, top)
  BY DEF Grouped
<1>3. Between.pc = "idle" /\ Between \in Search
  BY DEF Between, Search
<1>4. Progress(h, m, new, par, Between, top)
  BY <1>3 DEF Progress
<1> QED
  BY <1>1, <1>2, <1>3, <1>4 DEF Grouped

-----------------------------------------------------------------------------
(* The groups *)

(* Every step of the grouping keeps its invariant. *)
LEMMA GroupInvInductive ==
    /\ GroupInit => GroupInv
    /\ GroupInv /\ [GroupStep]_groupVars => GroupInv'
<1>1. ASSUME GroupInit PROVE GroupInv
  <2>1. /\ has \in [Domain -> SUBSET Infra] /\ mode \in {"clusters", "campaigns"}
        /\ parent = [d \in Domain |-> d] /\ todo = {} /\ find = Unread
    BY <1>1 DEF GroupInit
  <2>2. parent \in [Domain -> Domain] /\ \A d \in Domain : parent[d] = d
    BY <2>1
  <2>3. Forest(parent)
    BY <2>2 DEF Forest
  <2>4. RootsOf(parent, parent)
    BY <2>2 DEF RootsOf
  <2>5. \A d \in Domain : Tied(has, d, parent[d])
    BY <2>2 DEF Tied
  <2>6. find \in Search /\ find.pc = "start"
    BY <2>1 DEF Search, Unread
  <2>7. Progress(has, mode, todo, parent, find, parent)
    BY <2>6 DEF Progress
  <2> QED
    BY <2>1, <2>2, <2>3, <2>4, <2>5, <2>6, <2>7 DEF GroupInv, Grouped
<1>2. ASSUME GroupInv, [GroupStep]_groupVars PROVE GroupInv'
  <2>1. Grouped(has, mode, parent, todo, find)
    BY <1>2 DEF GroupInv
  <2> SUFFICES Grouped(has', mode', parent', todo', find')
    BY DEF GroupInv
  <2>2. CASE Collect
    <3>1. /\ find = Unread /\ find' = Between
          /\ has' = has /\ mode' = mode /\ parent' = parent
          /\ todo' = IF mode = "clusters" THEN Edges ELSE Spokes
      BY <2>2 DEF Collect
    <3>2. has \in [Domain -> SUBSET Infra] /\ mode \in {"clusters", "campaigns"}
      BY <2>1 DEF Grouped
    <3>3. /\ \A p : p \in todo' => Needed(has, mode, p)
          /\ \A p : Needed(has, mode, p) => p \in todo'
      <4>1. CASE mode = "clusters"
        <5>1. todo' = Edges
          BY <4>1, <3>1
        <5> QED
          BY <4>1, <5>1, <3>2, PairsAreNeeded
      <4>2. CASE mode = "campaigns"
        <5>1. todo' = Spokes
          BY <4>2, <3>1
        <5> QED
          BY <4>2, <5>1, <3>2, PairsAreNeeded
      <4> QED
        BY <4>1, <4>2, <3>2
    <3>4. Grouped(has, mode, parent, todo', Between)
      BY <2>1, <3>1, <3>3, CollectKeepsInv
    <3> QED
      BY <3>1, <3>4
  <2>3. CASE Climb
    <3>1. /\ find.pc \in {"first", "second"} /\ parent[find.x] # find.x
          /\ parent' = [parent EXCEPT ![find.x] = parent[parent[find.x]]]
          /\ find' = [find EXCEPT !.x = parent'[find.x]]
          /\ has' = has /\ mode' = mode /\ todo' = todo
      BY <2>3 DEF Climb, Searching
    <3>2. Grouped(has, mode, parent', todo, find')
      BY <2>1, <3>1, ClimbKeepsInv
    <3> QED
      BY <3>1, <3>2
  <2>4. CASE FirstRoot
    <3>1. /\ find.pc = "first" /\ parent[find.x] = find.x
          /\ find' = [pc |-> "second",
                      x |-> find.pair[3 - (IF mode = "clusters" THEN 2 ELSE 1)],
                      root |-> find.x, pair |-> find.pair]
          /\ has' = has /\ mode' = mode /\ parent' = parent /\ todo' = todo
      BY <2>4 DEF FirstRoot, FirstFound
    <3>2. Grouped(has, mode, parent, todo, find')
      BY <2>1, <3>1, FirstRootKeepsInv
    <3> QED
      BY <3>1, <3>2
  <2>5. CASE Link
    <3>1. /\ find.pc = "second" /\ parent[find.x] = find.x
          /\ parent' = IF mode = "clusters" THEN [parent EXCEPT ![find.x] = find.root]
                       ELSE [parent EXCEPT ![find.root] = find.x]
          /\ find' = Between
          /\ has' = has /\ mode' = mode /\ todo' = todo
      BY <2>5 DEF Link
    <3>2. Grouped(has, mode, parent', todo, Between)
      BY <2>1, <3>1, LinkKeepsInv
    <3> QED
      BY <3>1, <3>2
  <2>6. CASE Report
    <3>1. /\ find = Between /\ todo = {} /\ find' = [pc |-> "done"]
          /\ has' = has /\ mode' = mode /\ parent' = parent /\ todo' = todo
      BY <2>6 DEF Report
    <3>2. Grouped(has, mode, parent, todo, find')
      BY <2>1, <3>1, ReportKeepsInv
    <3> QED
      BY <3>1, <3>2
  <2>7. ASSUME NEW pair \in todo, Unite(pair)
        PROVE  Grouped(has', mode', parent', todo', find')
    <3>1. /\ find = Between /\ todo' = todo \ {pair}
          /\ find' = [pc |-> "first", x |-> pair[IF mode = "clusters" THEN 2 ELSE 1],
                      pair |-> pair]
          /\ has' = has /\ mode' = mode /\ parent' = parent
      BY <2>7 DEF Unite, FirstFound
    <3>2. Grouped(has, mode, parent, todo', find')
      BY <2>1, <3>1, UniteKeepsInv
    <3> QED
      BY <3>1, <3>2
  <2>8. CASE UNCHANGED groupVars
    BY <2>1, <2>8 DEF groupVars
  <2> QED
    BY <1>2, <2>2, <2>3, <2>4, <2>5, <2>6, <2>7, <2>8 DEF GroupStep
<1> QED
  BY <1>1, <1>2

(* Two and more. *)
LEMMA TwoInSet ==
    ASSUME NEW S, IsFiniteSet(S)
    PROVE  Cardinality(S) > 1 <=> \E x \in S : \E y \in S : x # y
<1>0. Cardinality(S) \in Nat
  BY FS_CardinalityType
<1>1. ASSUME Cardinality(S) > 1 PROVE \E x \in S : \E y \in S : x # y
  <2>1. S # {}
    BY <1>0, <1>1, FS_EmptySet
  <2>2. PICK x : x \in S
    BY <2>1
  <2>3. S # {x}
    BY <1>0, <1>1, FS_Singleton
  <2> QED
    BY <2>2, <2>3
<1>2. ASSUME NEW x \in S, NEW y \in S, x # y PROVE Cardinality(S) > 1
  <2>1. Cardinality(S) # 0
    BY FS_EmptySet
  <2>2. Cardinality(S) # 1
    <3> SUFFICES ASSUME Cardinality(S) = 1 PROVE FALSE
      OBVIOUS
    <3>1. PICK z : S = {z}
      BY FS_Singleton
    <3> QED
      BY <3>1, <1>2
  <2> QED
    BY <1>0, <2>1, <2>2
<1> QED
  BY <1>1, <1>2

(* A tree is closed once all pairs are united. *)
LEMMA TreesAreClosed ==
    ASSUME NEW h \in [Domain -> SUBSET Infra], NEW m \in {"clusters", "campaigns"},
           NEW top \in [Domain -> Domain],
           \A p : Needed(h, m, p) => top[p[1]] = top[p[2]],
           NEW i \in Infra, NEW d \in Bearing(h, i), NEW e \in Bearing(h, i)
    PROVE  top[d] = top[e]
<1>1. d \in Domain /\ e \in Domain /\ i \in h[d] /\ i \in h[e]
  BY DEF Bearing
<1>2. CASE m = "clusters"
  <2> SUFFICES ASSUME d # e PROVE top[d] = top[e]
    OBVIOUS
  <2>1. PICK p : p = <<d, e>>
    OBVIOUS
  <2>2. p[1] = d /\ p[2] = e /\ p \in Domain \X Domain
    BY <2>1, <1>1
  <2>3. Needed(h, m, p)
    BY <2>2, <1>1, <1>2 DEF Needed
  <2> QED
    BY <2>2, <2>3
<1>3. CASE m = "campaigns"
  <2>1. PICK c : c = CHOOSE x \in Bearing(h, i) : TRUE
    OBVIOUS
  <2>2. c \in Bearing(h, i) /\ c \in Domain
    BY <2>1 DEF Bearing
  <2>3. ASSUME NEW x \in Bearing(h, i) PROVE top[c] = top[x]
    <3> SUFFICES ASSUME c # x PROVE top[c] = top[x]
      OBVIOUS
    <3>0. x \in Domain
      BY DEF Bearing
    <3>1. PICK p : p = <<c, x>>
      OBVIOUS
    <3>2. p[1] = c /\ p[2] = x /\ p \in Domain \X Domain
      BY <3>0, <3>1, <2>2
    <3>3. Needed(h, m, p)
      BY <3>2, <2>1, <2>2, <1>3 DEF Needed
    <3> QED
      BY <3>2, <3>3
  <2> QED
    BY <2>3
<1> QED
  BY <1>2, <1>3

(* In the end the trees are the components. *)
LEMMA DoneGroups ==
    ASSUME NEW top \in [Domain -> Domain],
           has \in [Domain -> SUBSET Infra], mode \in {"clusters", "campaigns"},
           parent \in [Domain -> Domain], Forest(parent), RootsOf(parent, top),
           \A d \in Domain : Tied(has, d, parent[d]),
           \A p : Needed(has, mode, p) => top[p[1]] = top[p[2]]
    PROVE  /\ \A d, e \in Domain : Connected(d, e) <=> Root(d) = Root(e)
           /\ \A g \in Groups : /\ Cardinality(g) > 1 <=> SharedInfra(g) # {}
                                /\ \A k \in Groups \ {g} :
                                      SharedInfra(g) \cap SharedInfra(k) = {}
<1>1. \A d \in Domain : Root(d) = top[d]
  BY RootIsTop
<1>2. \A i : Sharing(i) = Bearing(has, i)
  BY DEF Sharing, Bearing
<1>3. \A d, e \in Domain : Connected(d, e) <=> Tied(has, d, e)
  BY <1>2 DEF Connected, Tied, Closed
<1>4. \A d \in Domain : Tied(has, d, top[d])
  BY TiedToRoot
<1>5. ASSUME NEW i \in Infra, NEW d \in Sharing(i), NEW e \in Sharing(i)
      PROVE  top[d] = top[e]
  BY <1>2, TreesAreClosed
<1>6. \A i : Sharing(i) \subseteq Domain
  BY DEF Sharing
<1>7. ASSUME NEW d \in Domain, NEW e \in Domain, top[d] = top[e]
      PROVE  Tied(has, d, e)
  <2>1. Tied(has, d, top[d]) /\ Tied(has, e, top[d]) /\ top[d] \in Domain
    BY <1>4, <1>7
  <2>2. Tied(has, top[d], e)
    BY <2>1, TiedBack
  <2> QED
    BY <2>1, <2>2, TiedAlong
<1>8. ASSUME NEW d \in Domain, NEW e \in Domain, Tied(has, d, e)
      PROVE  top[d] = top[e]
  <2> DEFINE S == {x \in Domain : top[x] = top[d]}
  <2>1. Closed(has, S)
    <3> SUFFICES ASSUME NEW i \in Infra
                 PROVE  Bearing(has, i) \cap S = {} \/ Bearing(has, i) \subseteq S
      BY DEF Closed
    <3> SUFFICES ASSUME NEW x \in Sharing(i), x \in S, NEW y \in Sharing(i) PROVE y \in S
      BY <1>2
    <3>1. top[x] = top[y]
      BY <1>5
    <3> QED
      BY <3>1, <1>6
  <2>2. d \in S /\ S \in SUBSET Domain
    OBVIOUS
  <2>3. e \in S
    BY <2>1, <2>2, <1>8 DEF Tied
  <2> QED
    BY <2>3
<1>9. \A d, e \in Domain : Connected(d, e) <=> Root(d) = Root(e)
  BY <1>1, <1>3, <1>7, <1>8
<1>10. ASSUME NEW g \in Groups
       PROVE  \E d \in Domain : d \in g /\ \A e : e \in g <=> e \in Domain /\ top[e] = top[d]
  <2>1. PICK d \in Domain : g = Group(d)
    BY DEF Groups
  <2> QED
    BY <2>1, <1>1 DEF Group
<1>11. ASSUME NEW g \in Groups PROVE Cardinality(g) > 1 <=> SharedInfra(g) # {}
  <2>1. PICK d \in Domain : d \in g /\ \A e : e \in g <=> e \in Domain /\ top[e] = top[d]
    BY <1>10
  <2>2. IsFiniteSet(g)
    BY <2>1, DomainAssumption, FS_Subset
  <2>3. \A i : IsFiniteSet(Sharing(i))
    BY <1>6, DomainAssumption, FS_Subset
  <2>4. ASSUME Cardinality(g) > 1 PROVE SharedInfra(g) # {}
    <3>1. PICK x \in g, y \in g : x # y
      BY <2>2, <2>4, TwoInSet
    <3>2. Tied(has, x, y) /\ x \in Domain
      BY <3>1, <2>1, <1>7
    <3>3. ~Closed(has, {x})
      BY <3>1, <3>2 DEF Tied
    <3>4. PICK i \in Infra : /\ Bearing(has, i) \cap {x} # {}
                             /\ ~(Bearing(has, i) \subseteq {x})
      BY <3>3 DEF Closed
    <3>5. x \in Sharing(i) /\ \E z \in Sharing(i) : z # x
      BY <3>4, <1>2
    <3>6. Cardinality(Sharing(i)) > 1
      BY <3>5, <2>3, TwoInSet
    <3>7. Sharing(i) \cap g # {}
      BY <3>5, <3>1
    <3> QED
      BY <3>6, <3>7 DEF SharedInfra
  <2>5. ASSUME SharedInfra(g) # {} PROVE Cardinality(g) > 1
    <3>1. PICK i \in Infra : Cardinality(Sharing(i)) > 1 /\ Sharing(i) \cap g # {}
      BY <2>5 DEF SharedInfra
    <3>2. PICK x \in Sharing(i), y \in Sharing(i) : x # y
      BY <3>1, <2>3, TwoInSet
    <3>3. PICK z : z \in Sharing(i) /\ z \in g
      BY <3>1
    <3>4. top[x] = top[z] /\ top[y] = top[z]
      BY <3>3, <1>5
    <3>5. x \in g /\ y \in g
      BY <3>3, <3>4, <2>1, <1>6
    <3> QED
      BY <3>2, <3>5, <2>2, TwoInSet
  <2> QED
    BY <2>4, <2>5
<1>12. ASSUME NEW g \in Groups, NEW k \in Groups \ {g}
       PROVE  SharedInfra(g) \cap SharedInfra(k) = {}
  <2> SUFFICES ASSUME NEW i \in SharedInfra(g), i \in SharedInfra(k) PROVE FALSE
    OBVIOUS
  <2>1. PICK d \in Domain : d \in g /\ \A e : e \in g <=> e \in Domain /\ top[e] = top[d]
    BY <1>10
  <2>2. PICK b \in Domain : b \in k /\ \A e : e \in k <=> e \in Domain /\ top[e] = top[b]
    BY <1>10
  <2>3. PICK x : x \in Sharing(i) /\ x \in g
    BY DEF SharedInfra
  <2>4. PICK y : y \in Sharing(i) /\ y \in k
    BY DEF SharedInfra
  <2>5. i \in Infra
    BY DEF SharedInfra
  <2>6. top[x] = top[y]
    BY <2>3, <2>4, <2>5, <1>5
  <2>7. top[d] = top[b]
    BY <2>1, <2>2, <2>3, <2>4, <2>6
  <2>8. \A e : e \in g <=> e \in k
    BY <2>1, <2>2, <2>7
  <2>9. g = k
    <3>1. \E c \in Domain : g = Group(c)
      BY DEF Groups
    <3>2. \E c \in Domain : k = Group(c)
      BY DEF Groups
    <3>3. g \subseteq Domain /\ k \subseteq Domain
      BY <2>1, <2>2
    <3> QED
      BY <2>8, <3>1, <3>2 DEF Group
  <2> QED
    BY <2>9
<1> QED
  BY <1>9, <1>11, <1>12

(* ThreatClusterer.cluster and detect_campaigns, for any domains, any          *)
(* infrastructure and any order of the unions: a find ends at a root of its    *)
(* own component, whatever the halvings have done, and when                    *)
(* it is over two domains have one root exactly if shared infrastructure       *)
(* connects them, so that a group has company exactly if it shares something,  *)
(* and no two groups share the same thing.                                     *)
THEOREM GroupsAreTheComponents == GroupSpec => []GroupsAreComponents
<1>1. GroupInv => GroupsAreComponents
  <2> SUFFICES ASSUME GroupInv PROVE GroupsAreComponents
    OBVIOUS
  <2>1. /\ has \in [Domain -> SUBSET Infra] /\ mode \in {"clusters", "campaigns"}
        /\ parent \in [Domain -> Domain] /\ find \in Search
        /\ find.pc = "done" => todo = {}
        /\ Forest(parent) /\ \A d \in Domain : Tied(has, d, parent[d])
    BY DEF GroupInv, Grouped
  <2>2. PICK top \in [Domain -> Domain] :
          RootsOf(parent, top) /\ Progress(has, mode, todo, parent, find, top)
    BY DEF GroupInv, Grouped
  <2>3. \A d \in Domain : parent[Root(d)] = Root(d)
    <3>1. \A d \in Domain : Root(d) = top[d]
      BY <2>1, <2>2, RootIsTop
    <3>2. \A d \in Domain : parent[top[d]] = top[d]
      BY <2>2 DEF RootsOf
    <3> QED
      BY <3>1, <3>2
  <2>4. \A d \in Domain : Connected(d, parent[d])
    <3>1. \A i : Sharing(i) = Bearing(has, i)
      BY DEF Sharing, Bearing
    <3> QED
      BY <2>1, <3>1 DEF Connected, Tied, Closed
  <2>5. ASSUME find.pc = "done"
        PROVE  /\ \A d, e \in Domain : Connected(d, e) <=> Root(d) = Root(e)
               /\ \A g \in Groups : /\ Cardinality(g) > 1 <=> SharedInfra(g) # {}
                                    /\ \A k \in Groups \ {g} :
                                          SharedInfra(g) \cap SharedInfra(k) = {}
    <3>1. \A p : Needed(has, mode, p) => top[p[1]] = top[p[2]]
      BY <2>1, <2>2, <2>5 DEF Progress
    <3> QED
      BY <2>1, <2>2, <3>1, DoneGroups
  <2> QED
    BY <2>3, <2>4, <2>5 DEF GroupsAreComponents
<1> QED
  BY <1>1, GroupInvInductive, PTL DEF GroupSpec

-----------------------------------------------------------------------------
(* Sightings *)

(* The candidates a record stands for, and what it says of them. *)
OfKey(b, k) == {n \in DOMAIN b : Canon[b[n].host] = k}
Stands(b, k, x) ==
    /\ x \in [sources: SUBSET Surface, count: Nat, seen: Times]
    /\ x.count = Cardinality(OfKey(b, k)) /\ x.count > 0
    /\ x.sources = {b[n].surface : n \in OfKey(b, k)}
    /\ \A n \in OfKey(b, k) : b[n].seen.at <= x.seen.at
    /\ \E n \in OfKey(b, k) : b[n].seen = x.seen
Kept(b, r) ==
    /\ b \in Seq(Candidate)
    /\ \A n \in DOMAIN b : Canon[b[n].host] \in DOMAIN r
    /\ \A k \in DOMAIN r : Stands(b, k, r[k])
Mixed(b) == \E m, n \in DOMAIN b : ~Comparable(b[m].seen, b[n].seen)

(* One more candidate. *)
OneMore(b, c, more, e) ==
    /\ more \in Seq(Candidate)
    /\ \A n \in DOMAIN b : n \in DOMAIN more /\ more[n] = b[n]
    /\ e \in DOMAIN more /\ more[e] = c
    /\ e \notin DOMAIN b
    /\ \A n \in DOMAIN more : n \in DOMAIN b \/ n = e
    /\ \A k : Canon[c.host] # k => OfKey(more, k) = OfKey(b, k)
    /\ \A k : Canon[c.host] = k => OfKey(more, k) = OfKey(b, k) \cup {e}

(* A longer batch has what it had, and one candidate more of one host. *)
LEMMA OneMoreOfKey ==
    ASSUME NEW b \in Seq(Candidate), NEW c \in Candidate, NEW more, more = Append(b, c)
    PROVE  OneMore(b, c, more, Len(b) + 1)
<1>1. PICK l \in Nat : l = Len(b)
  OBVIOUS
<1>2. DOMAIN b = 1..l
  BY <1>1
<1>3. /\ more \in Seq(Candidate) /\ DOMAIN more = 1..(l + 1) /\ more[l + 1] = c
      /\ \A n \in 1..l : more[n] = b[n]
  BY <1>1, <1>2
<1>4. /\ \A n \in 1..l : n \in 1..(l + 1) /\ n # l + 1
      /\ l + 1 \in 1..(l + 1) /\ l + 1 \notin 1..l
      /\ \A n \in 1..(l + 1) : n \in 1..l \/ n = l + 1
  OBVIOUS
<1>5. \A k : \A n : n \in OfKey(more, k) <=> n \in OfKey(b, k) \/ (n = l + 1 /\ Canon[c.host] = k)
  BY <1>2, <1>3, <1>4 DEF OfKey
<1>6. ASSUME NEW k, Canon[c.host] # k PROVE OfKey(more, k) = OfKey(b, k)
  <2>1. \A n : n \in OfKey(more, k) <=> n \in OfKey(b, k)
    BY <1>5, <1>6
  <2> QED
    BY <2>1
<1>7. ASSUME NEW k, Canon[c.host] = k PROVE OfKey(more, k) = OfKey(b, k) \cup {l + 1}
  <2>1. \A n : n \in OfKey(more, k) <=> n \in OfKey(b, k) \cup {l + 1}
    BY <1>5, <1>7
  <2> QED
    BY <2>1
<1>8. PICK e : e = l + 1
  OBVIOUS
<1>9. OneMore(b, c, more, e)
  BY <1>2, <1>3, <1>4, <1>6, <1>7, <1>8 DEF OneMore
<1> QED
  BY <1>1, <1>8, <1>9

(* A batch holds finitely many candidates of a host. *)
LEMMA OfKeyFinite ==
    ASSUME NEW b \in Seq(Candidate), NEW k
    PROVE  OfKey(b, k) \subseteq DOMAIN b /\ IsFiniteSet(OfKey(b, k)) /\ Cardinality(OfKey(b, k)) \in Nat
<1>1. PICK l \in Nat : l = Len(b)
  OBVIOUS
<1>2. 1 \in Int /\ l \in Int
  OBVIOUS
<1>3. IsFiniteSet(1..l)
  BY <1>2, FS_Interval
<1>4. OfKey(b, k) \subseteq DOMAIN b /\ DOMAIN b = 1..l
  BY <1>1 DEF OfKey
<1>5. IsFiniteSet(OfKey(b, k))
  BY <1>3, <1>4, FS_Subset
<1> QED
  BY <1>4, <1>5, FS_CardinalityType

(* A record of another host still stands. *)
LEMMA StandsBeside ==
    ASSUME NEW b \in Seq(Candidate), NEW c \in Candidate, NEW more, more = Append(b, c), NEW k,
           NEW x, Stands(b, k, x), Canon[c.host] # k
    PROVE  Stands(more, k, x)
<1>1. OfKey(more, k) = OfKey(b, k) /\ \A n \in DOMAIN b : more[n] = b[n]
  <2>1. OneMore(b, c, more, Len(b) + 1)
    BY OneMoreOfKey
  <2> QED
    BY <2>1 DEF OneMore
<1>2. OfKey(b, k) \subseteq DOMAIN b
  BY OfKeyFinite
<1>3. {more[n].surface : n \in OfKey(b, k)} = {b[n].surface : n \in OfKey(b, k)}
  BY <1>1, <1>2
<1> QED
  BY <1>1, <1>2, <1>3 DEF Stands

(* What a candidate is made of. *)
LEMMA CandidateFields ==
    ASSUME NEW c \in Candidate
    PROVE  /\ c.host \in Host /\ c.surface \in Surface /\ c.seen \in Times
           /\ c.seen.at \in Nat /\ \A t \in Times : t.at \in Nat
BY DEF Candidate, Times

(* A record that met a duplicate. *)
LEMMA StandsMerged ==
    ASSUME NEW b \in Seq(Candidate), NEW c \in Candidate, NEW more, more = Append(b, c), NEW k,
           NEW x, Stands(b, k, x), Canon[c.host] = k
    PROVE  Stands(more, k, Merged(x, c))
<1>0. PICK e : OneMore(b, c, more, e)
  BY OneMoreOfKey
<1>1. /\ OfKey(more, k) = OfKey(b, k) \cup {e} /\ \A n \in DOMAIN b : more[n] = b[n]
      /\ more[e] = c /\ e \notin DOMAIN b
  BY <1>0 DEF OneMore
<1>2. OfKey(b, k) \subseteq DOMAIN b /\ IsFiniteSet(OfKey(b, k)) /\ Cardinality(OfKey(b, k)) \in Nat
  BY OfKeyFinite
<1>3. /\ x \in [sources: SUBSET Surface, count: Nat, seen: Times]
      /\ x.count = Cardinality(OfKey(b, k)) /\ x.count > 0
      /\ x.sources = {b[n].surface : n \in OfKey(b, k)}
      /\ \A n \in OfKey(b, k) : b[n].seen.at <= x.seen.at
      /\ \E n \in OfKey(b, k) : b[n].seen = x.seen
  BY DEF Stands
<1>4. c.surface \in Surface /\ c.seen \in Times /\ c.seen.at \in Nat /\ x.seen.at \in Nat
  BY <1>3, CandidateFields
<1>5. PICK y : y = Merged(x, c)
  OBVIOUS
<1>6. /\ y.sources = x.sources \cup {c.surface} /\ y.count = x.count + 1
      /\ y.seen = IF c.seen.at > x.seen.at THEN c.seen ELSE x.seen
      /\ y \in [sources: SUBSET Surface, count: Nat, seen: Times]
  BY <1>3, <1>4, <1>5 DEF Merged
<1>7. y.count = Cardinality(OfKey(more, k)) /\ y.count > 0
  <2>1. Cardinality(OfKey(b, k) \cup {e}) = Cardinality(OfKey(b, k)) + 1
    BY <1>1, <1>2, FS_AddElement
  <2> QED
    BY <2>1, <1>1, <1>2, <1>3, <1>6
<1>8. y.sources = {more[n].surface : n \in OfKey(more, k)}
  <2>1. \A s : s \in y.sources <=> s \in {more[n].surface : n \in OfKey(more, k)}
    <3>0. PICK T : T = {b[n].surface : n \in OfKey(b, k)}
      OBVIOUS
    <3>1. ASSUME NEW s, s \in y.sources
          PROVE  \E n \in OfKey(more, k) : s = more[n].surface
      <4>1. CASE s = c.surface
        BY <4>1, <1>1
      <4>2. CASE s \in x.sources
        <5>1. PICK n \in OfKey(b, k) : s = b[n].surface
          BY <4>2, <1>3
        <5> QED
          BY <5>1, <1>1, <1>2
      <4> QED
        BY <3>1, <4>1, <4>2, <1>6
    <3>2. ASSUME NEW n \in OfKey(more, k)
          PROVE  more[n].surface \in y.sources
      <4>1. CASE n = e
        BY <4>1, <1>1, <1>6
      <4>2. CASE n \in OfKey(b, k)
        <5>1. b[n].surface \in x.sources
          BY <4>2, <1>3
        <5> QED
          BY <5>1, <4>2, <1>1, <1>2, <1>6
      <4> QED
        BY <4>1, <4>2, <1>1
    <3> QED
      BY <3>1, <3>2
  <2> QED
    BY <2>1
<1>9. /\ \A n \in OfKey(more, k) : more[n].seen.at <= y.seen.at
      /\ \E n \in OfKey(more, k) : more[n].seen = y.seen
  <2>0. \A n \in OfKey(b, k) : b[n].seen.at \in Nat
    <3>1. \A n \in DOMAIN b : b[n] \in Candidate
      OBVIOUS
    <3> QED
      BY <3>1, <1>2, CandidateFields
  <2>1. CASE c.seen.at > x.seen.at
    <3>1. y.seen = c.seen
      BY <2>1, <1>6
    <3>2. ASSUME NEW n \in OfKey(more, k) PROVE more[n].seen.at <= y.seen.at
      <4>1. CASE n = e
        BY <4>1, <1>1, <1>4, <3>1
      <4>2. CASE n \in OfKey(b, k)
        <5>1. more[n] = b[n] /\ b[n].seen.at <= x.seen.at
          BY <4>2, <1>1, <1>2, <1>3
        <5> QED
          BY <5>1, <4>2, <2>0, <2>1, <3>1, <1>4
      <4> QED
        BY <4>1, <4>2, <1>1
    <3>3. more[e].seen = y.seen /\ e \in OfKey(more, k)
      BY <3>1, <1>1
    <3> QED
      BY <3>2, <3>3
  <2>2. CASE ~(c.seen.at > x.seen.at)
    <3>1. y.seen = x.seen
      BY <2>2, <1>6
    <3>2. ASSUME NEW n \in OfKey(more, k) PROVE more[n].seen.at <= y.seen.at
      <4>1. CASE n = e
        BY <4>1, <1>1, <1>4, <3>1, <2>2
      <4>2. CASE n \in OfKey(b, k)
        BY <4>2, <1>1, <1>2, <1>3, <3>1
      <4> QED
        BY <4>1, <4>2, <1>1
    <3>3. PICK n \in OfKey(b, k) : b[n].seen = x.seen
      BY <1>3
    <3>4. more[n].seen = y.seen /\ n \in OfKey(more, k)
      BY <3>1, <3>3, <1>1, <1>2
    <3> QED
      BY <3>2, <3>4
  <2> QED
    BY <2>1, <2>2
<1>10. Stands(more, k, y)
  BY <1>6, <1>7, <1>8, <1>9 DEF Stands
<1> QED
  BY <1>5, <1>10

(* The record of a host that was not known. *)
LEMMA StandsFirst ==
    ASSUME NEW b \in Seq(Candidate), NEW c \in Candidate, NEW more, more = Append(b, c), NEW k,
           Canon[c.host] = k, \A n \in DOMAIN b : Canon[b[n].host] # k
    PROVE  Stands(more, k, First(c))
<1>0. PICK e : OneMore(b, c, more, e)
  BY OneMoreOfKey
<1>1. OfKey(b, k) = {}
  BY DEF OfKey
<1>2. OfKey(more, k) = {e} /\ more[e] = c
  <2>1. OfKey(more, k) = OfKey(b, k) \cup {e} /\ more[e] = c
    BY <1>0 DEF OneMore
  <2> QED
    BY <2>1, <1>1
<1>3. Cardinality({e}) = 1
  BY FS_Singleton
<1>4. c.surface \in Surface /\ c.seen \in Times /\ c.seen.at \in Nat
  BY CandidateFields
<1>5. PICK y : y = First(c)
  OBVIOUS
<1>6. /\ y.sources = {c.surface} /\ y.count = 1 /\ y.seen = c.seen
      /\ y \in [sources: SUBSET Surface, count: Nat, seen: Times]
  BY <1>4, <1>5 DEF First
<1>7. y.sources = {more[n].surface : n \in OfKey(more, k)}
  BY <1>2, <1>6, ZenonT(40)
<1>8. y.count = Cardinality(OfKey(more, k)) /\ y.count > 0
  BY <1>2, <1>3, <1>6
<1>9. /\ \A n \in OfKey(more, k) : more[n].seen.at <= y.seen.at
      /\ \E n \in OfKey(more, k) : more[n].seen = y.seen
  <2>1. \A n \in OfKey(more, k) : more[n] = c
    BY <1>2
  <2>2. e \in OfKey(more, k) /\ more[e].seen = y.seen
    BY <1>2, <1>6
  <2>3. PICK t \in Nat : t = c.seen.at
    BY <1>4
  <2>4. y.seen.at = t
    BY <2>3, <1>6
  <2>5. \A n \in OfKey(more, k) : more[n].seen.at = t
    BY <2>1, <2>3
  <2>6. t <= t
    OBVIOUS
  <2> QED
    BY <2>2, <2>4, <2>5, <2>6
<1>10. Stands(more, k, y)
  BY <1>6, <1>7, <1>8, <1>9 DEF Stands
<1> QED
  BY <1>5, <1>10

(* One turn of unify's loop. *)
LEMMA AbsorbKeeps ==
    ASSUME NEW b, NEW r, Kept(b, r), NEW c \in Candidate,
           NEW new, new = [k \in DOMAIN r \cup {Canon[c.host]} |->
                             IF k # Canon[c.host] THEN r[k]
                             ELSE IF Canon[c.host] \in DOMAIN r THEN Merged(r[Canon[c.host]], c)
                             ELSE First(c)]
    PROVE  Kept(Append(b, c), new)
<1>1. PICK more : more = Append(b, c)
  OBVIOUS
<1>2. PICK key : key = Canon[c.host]
  OBVIOUS
<1>3. /\ b \in Seq(Candidate)
      /\ \A n \in DOMAIN b : Canon[b[n].host] \in DOMAIN r
      /\ \A k \in DOMAIN r : Stands(b, k, r[k])
  BY DEF Kept
<1>4. /\ DOMAIN new = DOMAIN r \cup {key}
      /\ \A k \in DOMAIN r : k # key => new[k] = r[k]
      /\ key \in DOMAIN r => new[key] = Merged(r[key], c)
      /\ key \notin DOMAIN r => new[key] = First(c)
  BY <1>2
<1>5. /\ more \in Seq(Candidate)
      /\ \A n \in DOMAIN more : more[n] = c \/ (n \in DOMAIN b /\ more[n] = b[n])
  <2>1. OneMore(b, c, more, Len(b) + 1)
    BY <1>1, <1>3, OneMoreOfKey
  <2> QED
    BY <2>1 DEF OneMore
<1>6. \A n \in DOMAIN more : Canon[more[n].host] \in DOMAIN new
  BY <1>2, <1>3, <1>4, <1>5
<1>7. ASSUME NEW k \in DOMAIN new PROVE Stands(more, k, new[k])
  <2>1. CASE k # key
    <3>1. k \in DOMAIN r /\ new[k] = r[k]
      BY <2>1, <1>4
    <3>2. Stands(b, k, r[k]) /\ Canon[c.host] # k
      BY <3>1, <1>2, <1>3, <2>1
    <3>3. Stands(more, k, r[k])
      BY <3>2, <1>1, <1>3, StandsBeside
    <3> QED
      BY <3>1, <3>3
  <2>2. CASE k = key /\ key \in DOMAIN r
    <3>1. Stands(b, key, r[key])
      BY <2>2, <1>3
    <3>2. Stands(more, key, Merged(r[key], c))
      BY <3>1, <1>1, <1>2, <1>3, StandsMerged
    <3> QED
      BY <3>2, <2>2, <1>4
  <2>3. CASE k = key /\ key \notin DOMAIN r
    <3>1. \A n \in DOMAIN b : Canon[b[n].host] # key
      BY <2>3, <1>3
    <3>2. Stands(more, key, First(c))
      BY <3>1, <1>1, <1>2, <1>3, StandsFirst
    <3> QED
      BY <3>2, <2>3, <1>4
  <2> QED
    BY <2>1, <2>2, <2>3
<1>8. Kept(more, new)
  BY <1>5, <1>6, <1>7 DEF Kept
<1> QED
  BY <1>1, <1>8

(* What is not comparable shows that the batch mixes times. *)
LEMMA ClashIsMixed ==
    ASSUME NEW b, NEW r, Kept(b, r), NEW c \in Candidate, NEW k \in DOMAIN r,
           ~Comparable(c.seen, r[k].seen)
    PROVE  Mixed(Append(b, c))
<1>0. PICK e : e = Len(b) + 1
  OBVIOUS
<1>1. PICK more : more = Append(b, c)
  OBVIOUS
<1>2. b \in Seq(Candidate)
  BY DEF Kept
<1>3. PICK n \in OfKey(b, k) : b[n].seen = r[k].seen
  BY DEF Kept, Stands
<1>4. n \in DOMAIN b
  BY DEF OfKey
<1>5. /\ n \in DOMAIN more /\ more[n] = b[n]
      /\ e \in DOMAIN more /\ more[e] = c
  <2>1. OneMore(b, c, more, e)
    BY <1>0, <1>1, <1>2, OneMoreOfKey
  <2> QED
    BY <2>1, <1>4 DEF OneMore
<1>6. ~Comparable(more[e].seen, more[n].seen)
  BY <1>3, <1>5
<1>7. Mixed(more)
  BY <1>5, <1>6 DEF Mixed
<1> QED
  BY <1>1, <1>7

(* Records that cannot be sorted show the same. *)
LEMMA UnsortableIsMixed ==
    ASSUME NEW b, NEW r, Kept(b, r), NEW k \in DOMAIN r, NEW l \in DOMAIN r,
           ~Comparable(r[k].seen, r[l].seen)
    PROVE  Mixed(b)
<1>1. PICK n \in OfKey(b, k) : b[n].seen = r[k].seen
  BY DEF Kept, Stands
<1>2. PICK m \in OfKey(b, l) : b[m].seen = r[l].seen
  BY DEF Kept, Stands
<1>3. n \in DOMAIN b /\ m \in DOMAIN b
  BY DEF OfKey
<1> QED
  BY <1>1, <1>2, <1>3 DEF Mixed

-----------------------------------------------------------------------------
(* The graph *)

(* What the findings that have an anchor name, and what they put side by side. *)
Anchored(fs) == {f \in fs : f.anchors # {}}
Named(fs) == UNION {f.anchors \cup f.entities : f \in Anchored(fs)}
Adjacent(fs, a, b) ==
    \E f \in fs : /\ f.anchors # {}
                  /\ Node(f) \in {a, b} /\ {a, b} \subseteq f.anchors \cup f.entities
Linked(es, a, b) == <<a, b>> \in es \/ <<b, a>> \in es
EdgesOf(fs, es) ==
    \A a : \A b : <<a, b>> \in es <=>
                    \E f \in Anchored(fs) : a = Node(f) /\ b \in Attributes(f)

(* The node of a finding is one of its anchors. *)
LEMMA NodeIsAnchor ==
    ASSUME NEW f \in Finding, f.anchors # {}
    PROVE  Node(f) \in f.anchors
<1> DEFINE kinds == {i \in DOMAIN AnchorKinds : \E a \in f.anchors : a[1] = AnchorKinds[i]}
           least == CHOOSE i \in kinds : \A j \in kinds : i <= j
<1>1. PICK a \in f.anchors : TRUE
  OBVIOUS
<1>2. a \in Anchor
  BY DEF Finding
<1>3. a[1] \in {"domain", "social", "app"}
  BY <1>2, LeadsAssumption
<1>4. /\ DOMAIN AnchorKinds = 1..3 /\ AnchorKinds[1] = "domain"
      /\ AnchorKinds[2] = "social" /\ AnchorKinds[3] = "app"
  BY DEF AnchorKinds
<1>5. \E i \in 1..3 : a[1] = AnchorKinds[i]
  BY <1>3, <1>4
<1>6. kinds # {} /\ kinds \subseteq Nat
  BY <1>4, <1>5
<1>7. \E i \in kinds : \A j \in kinds : i <= j
  <2> HIDE DEF kinds
  <2> QED
    BY <1>6, LeastOf
<1>8. least \in kinds
  <2> HIDE DEF kinds
  <2> QED
    BY <1>7
<1>9. \E b \in f.anchors : b[1] = AnchorKinds[least]
  BY <1>8
<1>10. Node(f) = CHOOSE b \in f.anchors : b[1] = AnchorKinds[least]
  BY DEF Node
<1> HIDE DEF least
<1> QED
  BY <1>9, <1>10

(* neighbors answers with the ends of the edges at a node. *)
LEMMA NeighborsAreLinked ==
    ASSUME NEW es, NEW a, NEW b
    PROVE  b \in Neighbors(es, a) <=> Linked(es, a, b)
<1>1. ASSUME <<a, b>> \in es PROVE b \in UNION {{e[1], e[2]} : e \in es}
  <2>1. PICK e \in es : e = <<a, b>>
    BY <1>1
  <2>2. b = e[2]
    BY <2>1
  <2> QED
    BY <2>1, <2>2
<1>2. ASSUME <<b, a>> \in es PROVE b \in UNION {{e[1], e[2]} : e \in es}
  <2>1. PICK e \in es : e = <<b, a>>
    BY <1>2
  <2>2. b = e[1]
    BY <2>1
  <2> QED
    BY <2>1, <2>2
<1> QED
  BY <1>1, <1>2 DEF Neighbors, Linked

(* A link is what one finding names together with its anchor. *)
LEMMA LinksAreAdjacent ==
    ASSUME NEW fs \in SUBSET Finding, NEW es, EdgesOf(fs, es), NEW a, NEW b
    PROVE  /\ Linked(es, a, b) => Adjacent(fs, a, b) /\ b \in Named(fs)
           /\ Adjacent(fs, a, b) => a = b \/ Linked(es, a, b)
<1>1. ASSUME NEW f \in Anchored(fs) PROVE Node(f) \in f.anchors /\ f.anchors # {} /\ f \in fs
  <2>1. f \in Finding /\ f.anchors # {}
    BY DEF Anchored
  <2> QED
    BY <2>1, NodeIsAnchor DEF Anchored
<1>2. ASSUME NEW f \in Anchored(fs), NEW x
      PROVE  x \in f.anchors \cup f.entities <=> x = Node(f) \/ x \in Attributes(f)
  BY <1>1 DEF Attributes
<1>3. ASSUME NEW f \in Anchored(fs), NEW x \in f.anchors \cup f.entities PROVE x \in Named(fs)
  BY DEF Named
<1>4. ASSUME Linked(es, a, b) PROVE Adjacent(fs, a, b) /\ b \in Named(fs)
  <2>1. PICK f \in Anchored(fs) :
          (a = Node(f) /\ b \in Attributes(f)) \/ (b = Node(f) /\ a \in Attributes(f))
    BY <1>4 DEF Linked, EdgesOf
  <2>2. a \in f.anchors \cup f.entities /\ b \in f.anchors \cup f.entities
    BY <2>1, <1>2
  <2>3. Node(f) \in {a, b} /\ f \in fs /\ f.anchors # {}
    BY <2>1, <1>1
  <2> QED
    BY <2>2, <2>3, <1>3 DEF Adjacent
<1>5. ASSUME Adjacent(fs, a, b), a # b PROVE Linked(es, a, b)
  <2>1. PICK f \in fs : /\ f.anchors # {} /\ Node(f) \in {a, b}
                        /\ {a, b} \subseteq f.anchors \cup f.entities
    BY <1>5 DEF Adjacent
  <2>2. f \in Anchored(fs)
    BY <2>1 DEF Anchored
  <2>3. CASE Node(f) = a
    <3>1. b \in Attributes(f)
      BY <1>2, <1>5, <2>1, <2>2, <2>3
    <3> QED
      BY <3>1, <2>2, <2>3 DEF EdgesOf, Linked
  <2>4. CASE Node(f) = b
    <3>1. a \in Attributes(f)
      BY <1>2, <1>5, <2>1, <2>2, <2>4
    <3> QED
      BY <3>1, <2>2, <2>4 DEF EdgesOf, Linked
  <2> QED
    BY <2>1, <2>3, <2>4
<1> QED
  BY <1>4, <1>5

Graph(fs, ns, es) == fs \subseteq Finding /\ ns = Named(fs) /\ EdgesOf(fs, es)

(* No findings, no graph. *)
LEMMA EmptyGraph == Graph({}, {}, {})
<1>1. Anchored({}) = {}
  BY DEF Anchored
<1> QED
  BY <1>1 DEF Graph, Named, EdgesOf

(* One turn of build_graph's loop. *)
LEMMA AddKeepsGraph ==
    ASSUME NEW fs, NEW ns, NEW es, Graph(fs, ns, es), NEW f \in Finding
    PROVE  /\ f.anchors = {} => Graph(fs \cup {f}, ns, es)
           /\ f.anchors # {} => Graph(fs \cup {f}, ns \cup {Node(f)} \cup Attributes(f),
                                      es \cup {<<Node(f), a>> : a \in Attributes(f)})
<1>0. fs \subseteq Finding /\ ns = Named(fs) /\ EdgesOf(fs, es)
  BY DEF Graph
<1>1. ASSUME f.anchors = {} PROVE Graph(fs \cup {f}, ns, es)
  <2>1. Anchored(fs \cup {f}) = Anchored(fs)
    BY <1>1 DEF Anchored
  <2> QED
    BY <1>0, <2>1 DEF Graph, Named, EdgesOf
<1>2. ASSUME f.anchors # {}
      PROVE  Graph(fs \cup {f}, ns \cup {Node(f)} \cup Attributes(f),
                   es \cup {<<Node(f), a>> : a \in Attributes(f)})
  <2>1. \A g : g \in Anchored(fs \cup {f}) <=> g \in Anchored(fs) \/ g = f
    BY <1>2 DEF Anchored
  <2>2. Node(f) \in f.anchors
    BY <1>2, NodeIsAnchor
  <2>3. f.anchors \cup f.entities = {Node(f)} \cup Attributes(f)
    BY <2>2 DEF Attributes
  <2>4. Named(fs \cup {f}) = ns \cup {Node(f)} \cup Attributes(f)
    <3>1. \A x : x \in Named(fs \cup {f}) <=> x \in Named(fs) \/ x \in f.anchors \cup f.entities
      BY <2>1 DEF Named
    <3> QED
      BY <3>1, <2>3, <1>0
  <2>5. PICK more : more = es \cup {<<Node(f), a>> : a \in Attributes(f)}
    OBVIOUS
  <2>6. EdgesOf(fs \cup {f}, more)
    <3>1. \A a : \A b : <<a, b>> \in more <=>
                          <<a, b>> \in es \/ (a = Node(f) /\ b \in Attributes(f))
      BY <2>5
    <3>2. \A a : \A b : (\E g \in Anchored(fs \cup {f}) : a = Node(g) /\ b \in Attributes(g)) <=>
                          \/ \E g \in Anchored(fs) : a = Node(g) /\ b \in Attributes(g)
                          \/ a = Node(f) /\ b \in Attributes(f)
      BY <2>1
    <3> QED
      BY <3>1, <3>2, <1>0, Zenon DEF EdgesOf
  <2> QED
    BY <1>0, <2>4, <2>5, <2>6 DEF Graph
<1> QED
  BY <1>1, <1>2

(* What is within a number of hops. *)
Beyond(fs, S) == S \cup {b \in Named(fs) : \E a \in S : Adjacent(fs, a, b)}
Reach(fs, root, n, w) ==
    w = [d \in 0..n |-> IF d = 0 THEN {root} \cap Named(fs) ELSE Beyond(fs, w[d - 1])]

Hops(fs, root, n, w) ==
    /\ w = [d \in 0..n |-> w[d]]
    /\ w[0] = {root} \cap Named(fs)
    /\ \A d \in 1..n : w[d] = Beyond(fs, w[d - 1])

(* The function of the reference, one hop at a time. *)
LEMMA ReachSteps ==
    ASSUME NEW fs, NEW root, NEW n \in Nat, NEW w
    PROVE  Reach(fs, root, n, w) <=> Hops(fs, root, n, w)
<1>1. ASSUME Reach(fs, root, n, w) PROVE Hops(fs, root, n, w)
  <2>1. w = [d \in 0..n |-> IF d = 0 THEN {root} \cap Named(fs) ELSE Beyond(fs, w[d - 1])]
    BY <1>1 DEF Reach
  <2>2. w[0] = {root} \cap Named(fs)
    BY <2>1
  <2>3. ASSUME NEW d \in 1..n PROVE w[d] = Beyond(fs, w[d - 1])
    <3>1. d \in 0..n /\ d # 0
      OBVIOUS
    <3>2. w[d] = IF d = 0 THEN {root} \cap Named(fs) ELSE Beyond(fs, w[d - 1])
      BY <2>1, <3>1, Zenon
    <3> QED
      BY <3>1, <3>2
  <2>4. w = [d \in 0..n |-> w[d]]
    BY <2>1
  <2> QED
    BY <2>2, <2>3, <2>4 DEF Hops
<1>2. ASSUME Hops(fs, root, n, w) PROVE Reach(fs, root, n, w)
  <2>0. /\ w = [d \in 0..n |-> w[d]] /\ w[0] = {root} \cap Named(fs)
        /\ \A d \in 1..n : w[d] = Beyond(fs, w[d - 1])
    BY <1>2 DEF Hops
  <2>1. ASSUME NEW d \in 0..n
        PROVE  w[d] = IF d = 0 THEN {root} \cap Named(fs) ELSE Beyond(fs, w[d - 1])
    <3>1. CASE d = 0
      BY <3>1, <2>0
    <3>2. CASE d # 0
      <4>1. d \in 1..n
        BY <3>2
      <4>2. w[d] = Beyond(fs, w[d - 1])
        BY <4>1, <2>0
      <4> QED
        BY <3>2, <4>2
    <3> QED
      BY <3>1, <3>2
  <2>2. [d \in 0..n |-> w[d]] =
        [d \in 0..n |-> IF d = 0 THEN {root} \cap Named(fs) ELSE Beyond(fs, w[d - 1])]
    BY <2>1, Zenon
  <2> QED
    BY <2>0, <2>2 DEF Reach
<1> QED
  BY <1>1, <1>2

(* The hops of any number are there. *)
LEMMA ReachExists ==
    ASSUME NEW fs, NEW root, NEW n \in Nat
    PROVE  \E w : Reach(fs, root, n, w)
<1> DEFINE G == {k \in Nat : \E w : Reach(fs, root, k, w)}
<1>1. 0 \in G
  <2> DEFINE w == [d \in 0..0 |-> {root} \cap Named(fs)]
  <2>0. w = [d \in 0..0 |-> w[d]] /\ w[0] = {root} \cap Named(fs)
    OBVIOUS
  <2> HIDE DEF w
  <2>1. Hops(fs, root, 0, w)
    BY <2>0 DEF Hops
  <2>2. Reach(fs, root, 0, w)
    BY <2>1, ReachSteps
  <2> QED
    BY <2>2
<1>2. \A k \in 1..n : k - 1 \in G => k \in G
  <2> SUFFICES ASSUME NEW k \in 1..n, k - 1 \in G PROVE k \in G
    OBVIOUS
  <2>0. k - 1 \in Nat /\ k \in Nat
    OBVIOUS
  <2>1. PICK u : Reach(fs, root, k - 1, u)
    OBVIOUS
  <2> DEFINE w == [d \in 0..k |-> IF d = k THEN Beyond(fs, u[k - 1]) ELSE u[d]]
  <2>2. u[0] = {root} \cap Named(fs) /\ \A d \in 1..(k - 1) : u[d] = Beyond(fs, u[d - 1])
    <3>1. Hops(fs, root, k - 1, u)
      BY <2>0, <2>1, ReachSteps
    <3> QED
      BY <3>1 DEF Hops
  <2>3. w[0] = {root} \cap Named(fs)
    BY <2>2
  <2>4. ASSUME NEW d \in 1..k PROVE w[d] = Beyond(fs, w[d - 1])
    <3>1. w[d - 1] = u[d - 1]
      OBVIOUS
    <3>2. CASE d = k
      BY <3>1, <3>2
    <3>3. CASE d # k
      <4>1. w[d] = u[d] /\ d \in 1..(k - 1)
        BY <3>3
      <4> QED
        BY <4>1, <3>1, <2>2
    <3> QED
      BY <3>2, <3>3
  <2>5. w = [d \in 0..k |-> w[d]]
    OBVIOUS
  <2> HIDE DEF w
  <2>6. Hops(fs, root, k, w)
    BY <2>3, <2>4, <2>5 DEF Hops
  <2>7. Reach(fs, root, k, w)
    BY <2>0, <2>6, ReachSteps
  <2> QED
    BY <2>7
<1>3. n \in G
  <2> HIDE DEF G
  <2>1. G \in SUBSET Nat
    BY DEF G
  <2>2. \A k \in 0..n : k \in G
    BY <1>1, <1>2, <2>1, StepsReachAll
  <2> QED
    BY <2>2
<1> QED
  BY <1>3

(* They are the same whoever counts them. *)
LEMMA ReachIsOne ==
    ASSUME NEW fs, NEW root, NEW n \in Nat, NEW w, NEW v,
           Reach(fs, root, n, w), Reach(fs, root, n, v)
    PROVE  \A d \in 0..n : w[d] = v[d]
<1> DEFINE G == {k \in Nat : k \in 0..n => w[k] = v[k]}
<1>1. /\ w[0] = {root} \cap Named(fs) /\ \A d \in 1..n : w[d] = Beyond(fs, w[d - 1])
      /\ v[0] = {root} \cap Named(fs) /\ \A d \in 1..n : v[d] = Beyond(fs, v[d - 1])
  <2>1. Hops(fs, root, n, w) /\ Hops(fs, root, n, v)
    BY ReachSteps
  <2> QED
    BY <2>1 DEF Hops
<1>2. 0 \in G
  BY <1>1
<1>3. \A k \in 1..n : k - 1 \in G => k \in G
  <2> SUFFICES ASSUME NEW k \in 1..n, k - 1 \in G PROVE w[k] = v[k]
    OBVIOUS
  <2>1. w[k - 1] = v[k - 1]
    OBVIOUS
  <2> QED
    BY <1>1, <2>1
<1>4. \A k \in 0..n : k \in G
  <2> HIDE DEF G
  <2>1. G \in SUBSET Nat
    BY DEF G
  <2> QED
    BY <1>2, <1>3, <2>1, StepsReachAll
<1> QED
  BY <1>4

(* A pivot under way. *)
Pivoting(fs, es, root, depth, h, S, F) ==
    /\ fs \in SUBSET Finding /\ EdgesOf(fs, es)
    /\ depth \in Nat /\ h \in 0..depth
    /\ F \subseteq S
    /\ \A a \in S \ F : \A b : Linked(es, a, b) => b \in S
    /\ \E w : Reach(fs, root, depth, w) /\ S = w[h]

(* A pivot begins at its root, if the graph has it. *)
LEMMA PivotBegins ==
    ASSUME NEW fs, NEW ns, NEW es, Graph(fs, ns, es), NEW root, NEW depth \in Nat
    PROVE  Pivoting(fs, es, root, depth, 0, {root} \cap ns, {root} \cap ns)
<1>1. fs \in SUBSET Finding /\ ns = Named(fs) /\ EdgesOf(fs, es)
  BY DEF Graph
<1>2. PICK w : Reach(fs, root, depth, w)
  BY ReachExists
<1>3. w[0] = {root} \cap ns
  <2>1. Hops(fs, root, depth, w)
    BY <1>2, ReachSteps
  <2> QED
    BY <1>1, <2>1 DEF Hops
<1>4. 0 \in 0..depth
  OBVIOUS
<1>5. PICK S : S = {root} \cap ns
  OBVIOUS
<1>6. Pivoting(fs, es, root, depth, 0, S, S)
  BY <1>1, <1>2, <1>3, <1>4, <1>5 DEF Pivoting
<1> QED
  BY <1>5, <1>6

(* Visiting the neighbors that were not seen is one hop of the reference. *)
LEMMA HopReaches ==
    ASSUME NEW fs, NEW es, NEW root, NEW depth, NEW h, NEW S, NEW F,
           Pivoting(fs, es, root, depth, h, S, F), h < depth,
           NEW next, next = (UNION {Neighbors(es, n) : n \in F}) \ S
    PROVE  Pivoting(fs, es, root, depth, h + 1, S \cup next, next)
<1>1. /\ fs \in SUBSET Finding /\ EdgesOf(fs, es) /\ depth \in Nat /\ h \in 0..depth
      /\ F \subseteq S /\ \A a \in S \ F : \A b : Linked(es, a, b) => b \in S
  BY DEF Pivoting
<1>2. PICK w : Reach(fs, root, depth, w) /\ S = w[h]
  BY DEF Pivoting
<1>3. PICK k : k = h + 1
  OBVIOUS
<1>4. k \in 1..depth /\ k - 1 = h
  BY <1>1, <1>3
<1>5. w[k] = Beyond(fs, S)
  <2>1. Hops(fs, root, depth, w)
    BY <1>1, <1>2, ReachSteps
  <2> QED
    BY <1>2, <1>4, <2>1 DEF Hops
<1>6. \A b : b \in next <=> b \notin S /\ \E a \in F : Linked(es, a, b)
  <2>1. \A b : b \in next <=> b \notin S /\ \E a \in F : b \in Neighbors(es, a)
    OBVIOUS
  <2> QED
    BY <2>1, NeighborsAreLinked
<1>7. S \cup next = w[k]
  <2>1. ASSUME NEW b, b \in next PROVE b \in Beyond(fs, S)
    <3>1. PICK a \in S : Linked(es, a, b)
      BY <2>1, <1>1, <1>6
    <3>2. Adjacent(fs, a, b) /\ b \in Named(fs)
      BY <3>1, <1>1, LinksAreAdjacent
    <3> QED
      BY <3>2 DEF Beyond
  <2>2. ASSUME NEW b, b \in Beyond(fs, S), b \notin S PROVE b \in next
    <3>1. PICK a \in S : Adjacent(fs, a, b)
      BY <2>2 DEF Beyond
    <3>2. Linked(es, a, b)
      BY <2>2, <3>1, <1>1, LinksAreAdjacent
    <3>3. a \in F
      BY <3>2, <2>2, <1>1
    <3> QED
      BY <3>2, <3>3, <2>2, <1>6
  <2>3. S \subseteq Beyond(fs, S)
    BY DEF Beyond
  <2>4. \A b : b \in S \cup next <=> b \in w[k]
    BY <1>5, <2>1, <2>2, <2>3
  <2> QED
    BY <2>4, <1>5 DEF Beyond
<1>8. ASSUME NEW a \in (S \cup next) \ next, NEW b, Linked(es, a, b) PROVE b \in S \cup next
  BY <1>1, <1>6, <1>8
<1>9. k \in 0..depth /\ next \subseteq S \cup next
  BY <1>4
<1>10. PICK T : T = S \cup next
  OBVIOUS
<1>11. Pivoting(fs, es, root, depth, k, T, next)
  BY <1>1, <1>2, <1>7, <1>8, <1>9, <1>10 DEF Pivoting
<1> QED
  BY <1>3, <1>10, <1>11

(* Where nothing is left to visit, the last hop is like any later one. *)
LEMMA ShownIsReach ==
    ASSUME NEW fs, NEW es, NEW root, NEW depth, NEW h, NEW S, NEW F,
           Pivoting(fs, es, root, depth, h, S, F), h = depth \/ F = {},
           NEW v, Reach(fs, root, depth, v)
    PROVE  S = v[depth]
<1>1. /\ fs \in SUBSET Finding /\ EdgesOf(fs, es) /\ depth \in Nat /\ h \in 0..depth
      /\ \A a \in S \ F : \A b : Linked(es, a, b) => b \in S
  BY DEF Pivoting
<1>2. PICK w : Reach(fs, root, depth, w) /\ S = w[h]
  BY DEF Pivoting
<1>3. \A d \in 0..depth : w[d] = v[d]
  BY <1>1, <1>2, ReachIsOne
<1>4. CASE h = depth
  BY <1>1, <1>2, <1>3, <1>4
<1>5. CASE F = {}
  <2>1. Beyond(fs, S) = S
    <3>1. ASSUME NEW b \in Named(fs), NEW a \in S, Adjacent(fs, a, b) PROVE b \in S
      <4>1. a = b \/ Linked(es, a, b)
        BY <3>1, <1>1, LinksAreAdjacent
      <4> QED
        BY <4>1, <1>1, <1>5
    <3> QED
      BY <3>1 DEF Beyond
  <2> DEFINE G == {k \in Nat : k \in h..depth => w[k] = S}
  <2>2. 0 \in G
    BY <1>1, <1>2
  <2>3. \A k \in 1..depth : k - 1 \in G => k \in G
    <3> SUFFICES ASSUME NEW k \in 1..depth, k - 1 \in G, k \in h..depth PROVE w[k] = S
      OBVIOUS
    <3>1. w[k] = Beyond(fs, w[k - 1])
      <4>1. Hops(fs, root, depth, w)
        BY <1>1, <1>2, ReachSteps
      <4> QED
        BY <4>1 DEF Hops
    <3>2. CASE k = h
      BY <3>2, <1>2
    <3>3. CASE k # h
      <4>1. w[k - 1] = S
        BY <3>3, <1>1
      <4> QED
        BY <4>1, <3>1, <2>1
    <3> QED
      BY <3>2, <3>3
  <2>4. \A k \in 0..depth : k \in G
    <3> HIDE DEF G
    <3>1. G \in SUBSET Nat
      BY DEF G
    <3> QED
      BY <1>1, <2>2, <2>3, <3>1, StepsReachAll
  <2>5. w[depth] = S
    BY <2>4, <1>1
  <2> QED
    BY <2>5, <1>1, <1>3
<1> QED
  BY <1>4, <1>5

-----------------------------------------------------------------------------
(* The selection *)

Finds(n) == [1..n -> [surface: Surface, u: Uncertain]]
Picked(ch) == {ch[i] : i \in DOMAIN ch}

(* The greatest value, and of its holders the first. *)
LEMMA FirstGreatest ==
    ASSUME NEW S \in SUBSET Nat, S # {}, NEW v \in [S -> Nat], NEW b \in Nat,
           \A s \in S : v[s] <= b
    PROVE  \E s \in S : \A t \in S : v[s] > v[t] \/ (v[s] = v[t] /\ s <= t)
<1> DEFINE D == {b - v[s] : s \in S}
<1>1. D \subseteq Nat /\ D # {}
  <2>1. ASSUME NEW s \in S PROVE b - v[s] \in Nat
    <3>1. v[s] \in Nat /\ v[s] <= b
      OBVIOUS
    <3> QED
      BY <3>1
  <2>2. PICK s : s \in S
    OBVIOUS
  <2>3. b - v[s] \in D
    BY <2>2
  <2> QED
    BY <2>1, <2>3
<1>2. PICK d \in D : \A k \in D : d <= k
  <2> HIDE DEF D
  <2> QED
    BY <1>1, LeastOf
<1> DEFINE T == {s \in S : b - v[s] = d}
<1>3. T \subseteq Nat /\ T # {}
  BY <1>2
<1>4. PICK s \in T : \A k \in T : s <= k
  <2> HIDE DEF T
  <2> QED
    BY <1>3, LeastOf
<1>5. s \in S /\ b - v[s] = d
  OBVIOUS
<1>6. ASSUME NEW t \in S PROVE v[s] > v[t] \/ (v[s] = v[t] /\ s <= t)
  <2>0. v[s] \in Nat /\ v[t] \in Nat /\ d = b - v[s] /\ b - v[t] \in D
    BY <1>5
  <2>1. d <= b - v[t]
    BY <1>2, <2>0
  <2>2. CASE b - v[t] = d
    <3>1. s <= t
      BY <1>4, <2>2
    <3> QED
      BY <3>1, <2>0, <2>2
  <2>3. CASE b - v[t] # d
    BY <2>0, <2>1, <2>3
  <2> QED
    BY <2>2, <2>3
<1> QED
  BY <1>5, <1>6

(* Finitely many numbers have a bound. *)
LEMMA ListIsBounded ==
    ASSUME NEW n \in Nat, NEW v \in [1..n -> Nat]
    PROVE  \E b \in Nat : \A i \in 1..n : v[i] <= b
<1> DEFINE G == {k \in Nat : \E b \in Nat : \A i \in 1..n : i <= k => v[i] <= b}
<1>1. 0 \in G
  BY 0 \in Nat
<1>2. \A k \in 1..n : k - 1 \in G => k \in G
  <2> SUFFICES ASSUME NEW k \in 1..n, k - 1 \in G PROVE k \in G
    OBVIOUS
  <2>1. PICK b \in Nat : \A i \in 1..n : i <= k - 1 => v[i] <= b
    OBVIOUS
  <2>2. PICK m \in Nat : m = v[k]
    OBVIOUS
  <2>3. b + m \in Nat
    OBVIOUS
  <2>4. ASSUME NEW i \in 1..n, i <= k PROVE v[i] <= b + m
    <3>1. CASE i = k
      BY <3>1, <2>2
    <3>2. CASE i # k
      <4>1. i <= k - 1 /\ v[i] \in Nat
        BY <3>2, <2>4
      <4>2. v[i] <= b
        BY <2>1, <4>1
      <4> QED
        BY <4>1, <4>2
    <3> QED
      BY <3>1, <3>2
  <2>5. \E c \in Nat : \A i \in 1..n : i <= k => v[i] <= c
    BY <2>3, <2>4
  <2> QED
    BY <2>5
<1>3. n \in G
  <2> HIDE DEF G
  <2>1. G \in SUBSET Nat
    BY DEF G
  <2>2. \A k \in 0..n : k \in G
    BY <1>1, <1>2, <2>1, StepsReachAll
  <2> QED
    BY <2>2
<1> QED
  BY <1>3

(* What an uncertain finding is made of. *)
LEMMA FindsFields ==
    ASSUME NEW n \in Nat, NEW f \in Finds(n), NEW i \in 1..n
    PROVE  f[i].surface \in Surface /\ f[i].surface \in Nat /\ f[i].u \in Nat /\ DOMAIN f = 1..n
<1>1. f[i] \in [surface: Surface, u: Uncertain] /\ DOMAIN f = 1..n
  BY DEF Finds
<1> QED
  BY <1>1, LeadsAssumption

(* Best is a best one. *)
LEMMA BestIsBest ==
    ASSUME NEW n \in Nat, NEW f \in Finds(n), NEW S \in SUBSET (1..n), S # {}
    PROVE  Best(f, S) \in S /\ \A j \in S : f[Best(f, S)].u >= f[j].u
<1> DEFINE v == [i \in S |-> f[i].u]
           w == [i \in 1..n |-> f[i].u]
<1>1. \A i \in 1..n : f[i].u \in Nat
  BY FindsFields
<1>2. v \in [S -> Nat] /\ w \in [1..n -> Nat] /\ S \in SUBSET Nat
  BY <1>1
<1>3. PICK b \in Nat : \A i \in 1..n : w[i] <= b
  <2> HIDE DEF w
  <2> QED
    BY <1>2, ListIsBounded
<1>4. \A i \in S : v[i] <= b
  BY <1>3
<1>5. \E i \in S : \A j \in S : v[i] > v[j] \/ (v[i] = v[j] /\ i <= j)
  <2> HIDE DEF v
  <2> QED
    BY <1>2, <1>4, FirstGreatest
<1>6. \E i \in S : \A j \in S : f[i].u > f[j].u \/ (f[i].u = f[j].u /\ i <= j)
  BY <1>5
<1>7. PICK x : x = Best(f, S)
  OBVIOUS
<1>8. x \in S /\ \A j \in S : f[x].u > f[j].u \/ (f[x].u = f[j].u /\ x <= j)
  BY <1>6, <1>7 DEF Best
<1>9. ASSUME NEW j \in S PROVE f[x].u >= f[j].u
  <2>1. PICK p \in Nat, q \in Nat : p = f[x].u /\ q = f[j].u
    BY <1>1, <1>8
  <2>2. p > q \/ p = q
    BY <1>8, <2>1
  <2>3. p >= q
    BY <2>2
  <2> QED
    BY <2>1, <2>3
<1> QED
  BY <1>7, <1>8, <1>9

(* The surface whose turn it is has not had it. *)
LEMMA LeaderIsWaiting ==
    ASSUME NEW n \in Nat, NEW f \in Finds(n), NEW S \in SUBSET Surfaces(f), S # {}
    PROVE  Leader(f, S) \in S
<1> DEFINE v == [s \in S |-> f[Best(f, On(f, s))].u]
           w == [i \in 1..n |-> f[i].u]
<1>1. \A i \in 1..n : f[i].u \in Nat /\ f[i].surface \in Nat
  BY FindsFields
<1>2. DOMAIN f = 1..n
  BY DEF Finds
<1>3. ASSUME NEW s \in S PROVE s \in Nat /\ Best(f, On(f, s)) \in 1..n
  <2>1. PICK i \in 1..n : s = f[i].surface
    BY <1>2 DEF Surfaces
  <2>2. On(f, s) \in SUBSET (1..n) /\ On(f, s) # {}
    BY <2>1, <1>2 DEF On
  <2>3. Best(f, On(f, s)) \in On(f, s)
    BY <2>2, BestIsBest
  <2> QED
    BY <2>1, <2>2, <2>3, <1>1
<1>4. v \in [S -> Nat] /\ w \in [1..n -> Nat] /\ S \in SUBSET Nat
  BY <1>1, <1>3
<1>5. PICK b \in Nat : \A i \in 1..n : w[i] <= b
  <2> HIDE DEF w
  <2> QED
    BY <1>4, ListIsBounded
<1>6. \A s \in S : v[s] <= b
  BY <1>3, <1>5
<1>7. \E s \in S : \A t \in S : v[s] > v[t] \/ (v[s] = v[t] /\ s <= t)
  <2> HIDE DEF v
  <2> QED
    BY <1>4, <1>6, FirstGreatest
<1>8. \E s \in S : \A t \in S :
        \/ f[Best(f, On(f, s))].u > f[Best(f, On(f, t))].u
        \/ f[Best(f, On(f, s))].u = f[Best(f, On(f, t))].u /\ s <= t
  BY <1>7
<1> QED
  BY <1>8 DEF Leader

(* How many of a surface are chosen. *)
Got(f, ch, s) == Cardinality(On(f, s) \cap Picked(ch))

(* What is chosen is some of the findings, finitely many of each surface. *)
LEMMA PickedIsFinite ==
    ASSUME NEW n \in Nat, NEW ch \in Seq(1..n), NEW f \in Finds(n), NEW s
    PROVE  /\ Picked(ch) \subseteq 1..n /\ IsFiniteSet(Picked(ch))
           /\ IsFiniteSet(On(f, s) \cap Picked(ch)) /\ Got(f, ch, s) \in Nat
<1>1. Picked(ch) \subseteq 1..n
  BY DEF Picked
<1>2. IsFiniteSet(1..n)
  <2>1. 1 \in Int /\ n \in Int
    OBVIOUS
  <2> QED
    BY <2>1, FS_Interval
<1>3. IsFiniteSet(Picked(ch))
  BY <1>1, <1>2, FS_Subset
<1>4. On(f, s) \cap Picked(ch) \subseteq Picked(ch)
  OBVIOUS
<1>5. IsFiniteSet(On(f, s) \cap Picked(ch))
  BY <1>3, <1>4, FS_Subset
<1> QED
  BY <1>1, <1>3, <1>5, FS_CardinalityType DEF Got

OneChosen(n, f, ch, x, more) ==
    /\ more \in Seq(1..n) /\ Len(more) = Len(ch) + 1
    /\ Picked(more) = Picked(ch) \cup {x}
    /\ Cardinality(Picked(more)) = Cardinality(Picked(ch)) + 1
    /\ \A s : s # f[x].surface => Got(f, more, s) = Got(f, ch, s)
    /\ Got(f, more, f[x].surface) = Got(f, ch, f[x].surface) + 1

(* One more choice: one longer, and one more of its surface alone. *)
LEMMA PickOne ==
    ASSUME NEW n \in Nat, NEW ch \in Seq(1..n), NEW f \in Finds(n),
           NEW x \in 1..n, x \notin Picked(ch),
           NEW more, more = Append(ch, x)
    PROVE  OneChosen(n, f, ch, x, more)
<1>1. PICK l \in Nat : l = Len(ch)
  OBVIOUS
<1>2. /\ more \in Seq(1..n) /\ Len(more) = l + 1 /\ DOMAIN ch = 1..l /\ DOMAIN more = 1..(l + 1)
      /\ more[l + 1] = x /\ \A i \in 1..l : more[i] = ch[i]
  BY <1>1
<1>3. Picked(more) = Picked(ch) \cup {x}
  <2>1. ASSUME NEW y, y \in Picked(more) PROVE y \in Picked(ch) \/ y = x
    <3>1. PICK i \in 1..(l + 1) : y = more[i]
      BY <2>1, <1>2 DEF Picked
    <3>2. CASE i = l + 1
      BY <3>1, <3>2, <1>2
    <3>3. CASE i # l + 1
      <4>1. i \in 1..l
        BY <3>3
      <4> QED
        BY <4>1, <3>1, <1>2 DEF Picked
    <3> QED
      BY <3>2, <3>3
  <2>2. ASSUME NEW i \in 1..l PROVE ch[i] \in Picked(more)
    <3>1. i \in 1..(l + 1) /\ more[i] = ch[i]
      BY <1>2
    <3> QED
      BY <3>1, <1>2 DEF Picked
  <2>3. x \in Picked(more)
    <3>1. l + 1 \in 1..(l + 1)
      OBVIOUS
    <3> QED
      BY <3>1, <1>2 DEF Picked
  <2>4. \A y : y \in Picked(ch) => y \in Picked(more)
    BY <2>2, <1>2 DEF Picked
  <2> QED
    BY <2>1, <2>3, <2>4
<1>4. /\ Picked(ch) \subseteq 1..n /\ IsFiniteSet(Picked(ch))
      /\ \A s : IsFiniteSet(On(f, s) \cap Picked(ch))
  BY PickedIsFinite
<1>5. Cardinality(Picked(more)) = Cardinality(Picked(ch)) + 1
  BY <1>3, <1>4, FS_AddElement
<1>6. ASSUME NEW s, s # f[x].surface PROVE Got(f, more, s) = Got(f, ch, s)
  <2>1. x \notin On(f, s)
    BY <1>6 DEF On
  <2>2. On(f, s) \cap Picked(more) = On(f, s) \cap Picked(ch)
    BY <2>1, <1>3
  <2> QED
    BY <2>2 DEF Got
<1>7. Got(f, more, f[x].surface) = Got(f, ch, f[x].surface) + 1
  <2>1. PICK s : s = f[x].surface
    OBVIOUS
  <2>2. x \in On(f, s)
    BY <2>1, FindsFields DEF On
  <2>3. On(f, s) \cap Picked(more) = (On(f, s) \cap Picked(ch)) \cup {x}
    BY <2>2, <1>3
  <2>4. Cardinality((On(f, s) \cap Picked(ch)) \cup {x}) = Cardinality(On(f, s) \cap Picked(ch)) + 1
    BY <1>4, FS_AddElement
  <2> QED
    BY <2>1, <2>3, <2>4 DEF Got
<1> QED
  BY <1>1, <1>2, <1>3, <1>5, <1>6, <1>7 DEF OneChosen

(* In round r every surface had its turns, unless its findings gave out. *)
Turns(f, ch, vis, r) ==
    \A s \in Surfaces(f) :
        /\ Got(f, ch, s) <= IF s \in vis THEN r + 1 ELSE r
        /\ On(f, s) \subseteq Picked(ch) \/ Got(f, ch, s) >= IF s \in vis THEN r + 1 ELSE r
Careful(n, f, div, ch) ==
    \A i \in Picked(ch), j \in (1..n) \ Picked(ch) :
        f[i].surface = f[j].surface \/ ~div => f[i].u >= f[j].u
Choosing(n, f, budget, div, ch, vis, prog) ==
    /\ n \in Nat /\ f \in Finds(n) /\ budget \in Nat /\ div \in BOOLEAN /\ prog \in BOOLEAN
    /\ ch \in Seq(1..n) /\ Cardinality(Picked(ch)) = Len(ch) /\ Len(ch) <= budget
    /\ vis \subseteq Surfaces(f)
    /\ Careful(n, f, div, ch)
    /\ ~prog => \A s \in vis : On(f, s) \subseteq Picked(ch)
    /\ div => \E r \in Nat : Turns(f, ch, vis, r)

(* A selection begins with nothing chosen. *)
LEMMA SelectBegins ==
    ASSUME NEW n \in Nat, NEW f \in Finds(n), NEW budget \in Nat, NEW div \in BOOLEAN
    PROVE  Choosing(n, f, budget, div, <<>>, {}, FALSE)
<1>1. PICK ch : ch = <<>>
  OBVIOUS
<1>2. ch \in Seq(1..n) /\ Len(ch) = 0
  BY <1>1
<1>3. Picked(ch) = {}
  BY <1>2 DEF Picked
<1>4. Cardinality(Picked(ch)) = 0
  BY <1>3, FS_EmptySet
<1>5. \A s : Got(f, ch, s) = 0
  <2>1. \A s : On(f, s) \cap Picked(ch) = {}
    BY <1>3
  <2> QED
    BY <2>1, FS_EmptySet DEF Got
<1>6. Turns(f, ch, {}, 0)
  BY <1>5 DEF Turns
<1>7. Careful(n, f, div, ch)
  BY <1>3 DEF Careful
<1>8. Choosing(n, f, budget, div, ch, {}, FALSE)
  BY <1>2, <1>4, <1>6, <1>7, 0 \in Nat DEF Choosing
<1> QED
  BY <1>1, <1>8

(* The best of those left of a surface, or of all, is chosen with care. *)
Leaves(n, f, div, ch, left) ==
    /\ left \in SUBSET (1..n) /\ left # {} /\ left \cap Picked(ch) = {}
    /\ \A j \in (1..n) \ Picked(ch) :
         f[j].surface = f[Best(f, left)].surface \/ ~div => j \in left

(* The most uncertain of those left leaves no more uncertain one behind. *)
LEMMA BestIsCareful ==
    ASSUME NEW n \in Nat, NEW f \in Finds(n), NEW div \in BOOLEAN, NEW ch \in Seq(1..n),
           Careful(n, f, div, ch), NEW left, Leaves(n, f, div, ch, left),
           NEW more, Picked(more) = Picked(ch) \cup {Best(f, left)}
    PROVE  Careful(n, f, div, more)
<1>0. /\ left \in SUBSET (1..n) /\ left # {} /\ left \cap Picked(ch) = {}
      /\ \A j \in (1..n) \ Picked(ch) :
           f[j].surface = f[Best(f, left)].surface \/ ~div => j \in left
  BY DEF Leaves
<1>1. PICK x : x = Best(f, left)
  OBVIOUS
<1>2. x \in left /\ \A j \in left : f[x].u >= f[j].u
  BY <1>0, <1>1, BestIsBest
<1> SUFFICES ASSUME NEW i \in Picked(more), NEW j \in (1..n) \ Picked(more),
                    f[i].surface = f[j].surface \/ ~div
             PROVE  f[i].u >= f[j].u
  BY DEF Careful
<1>3. j \in (1..n) \ Picked(ch)
  OBVIOUS
<1>4. CASE i = x
  <2>1. j \in left
    BY <1>0, <1>1, <1>3, <1>4
  <2> QED
    BY <2>1, <1>2, <1>4
<1>5. CASE i \in Picked(ch)
  BY <1>3, <1>5 DEF Careful
<1> QED
  BY <1>1, <1>4, <1>5

(* A surface's turn, when nothing of it is left. *)
LEMMA VisitPasses ==
    ASSUME NEW n, NEW f, NEW budget, NEW div, NEW ch, NEW vis, NEW prog,
           Choosing(n, f, budget, div, ch, vis, prog), NEW s \in Surfaces(f) \ vis,
           On(f, s) \subseteq Picked(ch)
    PROVE  Choosing(n, f, budget, div, ch, vis \cup {s}, prog)
<1>1. /\ n \in Nat /\ f \in Finds(n) /\ budget \in Nat /\ div \in BOOLEAN /\ prog \in BOOLEAN
      /\ ch \in Seq(1..n) /\ Cardinality(Picked(ch)) = Len(ch) /\ Len(ch) <= budget
      /\ vis \subseteq Surfaces(f) /\ Careful(n, f, div, ch)
      /\ ~prog => \A t \in vis : On(f, t) \subseteq Picked(ch)
  BY DEF Choosing
<1>2. ASSUME div PROVE \E r \in Nat : Turns(f, ch, vis \cup {s}, r)
  <2>1. PICK r \in Nat : Turns(f, ch, vis, r)
    BY <1>2 DEF Choosing
  <2>2. Turns(f, ch, vis \cup {s}, r)
    <3> SUFFICES ASSUME NEW t \in Surfaces(f)
                 PROVE  /\ Got(f, ch, t) <= IF t \in vis \cup {s} THEN r + 1 ELSE r
                        /\ \/ On(f, t) \subseteq Picked(ch)
                           \/ Got(f, ch, t) >= IF t \in vis \cup {s} THEN r + 1 ELSE r
      BY DEF Turns
    <3>1. /\ Got(f, ch, t) <= IF t \in vis THEN r + 1 ELSE r
          /\ On(f, t) \subseteq Picked(ch) \/ Got(f, ch, t) >= IF t \in vis THEN r + 1 ELSE r
      BY <2>1 DEF Turns
    <3>2. PICK g \in Nat : g = Got(f, ch, t)
      BY <1>1, PickedIsFinite
    <3>3. CASE t = s
      <4>1. g <= r
        BY <3>1, <3>2, <3>3
      <4>2. g <= r + 1
        BY <4>1
      <4> QED
        BY <4>2, <3>2, <3>3
    <3>4. CASE t # s
      <4>1. t \in vis \cup {s} <=> t \in vis
        BY <3>4
      <4> QED
        BY <3>1, <4>1
    <3> QED
      BY <3>3, <3>4
  <2> QED
    BY <2>2
<1>3. ~prog => \A t \in vis \cup {s} : On(f, t) \subseteq Picked(ch)
  BY <1>1
<1>4. PICK more : more = vis \cup {s}
  OBVIOUS
<1>5. Choosing(n, f, budget, div, ch, more, prog)
  BY <1>1, <1>2, <1>3, <1>4 DEF Choosing
<1> QED
  BY <1>4, <1>5

(* A surface's turn, when its best finding is chosen. *)
LEMMA VisitChooses ==
    ASSUME NEW n, NEW f, NEW budget, NEW div, NEW ch, NEW vis, NEW prog,
           Choosing(n, f, budget, div, ch, vis, prog), NEW s \in Surfaces(f) \ vis,
           div, Len(ch) < budget,
           NEW left, left = On(f, s) \ Picked(ch), left # {}
    PROVE  Choosing(n, f, budget, div, Append(ch, Best(f, left)), vis \cup {s}, TRUE)
<1>1. /\ n \in Nat /\ f \in Finds(n) /\ budget \in Nat /\ div \in BOOLEAN /\ prog \in BOOLEAN
      /\ ch \in Seq(1..n) /\ Cardinality(Picked(ch)) = Len(ch)
      /\ vis \subseteq Surfaces(f) /\ Careful(n, f, div, ch)
  BY DEF Choosing
<1>2. PICK x : x = Best(f, left)
  OBVIOUS
<1>3. PICK more : more = Append(ch, x)
  OBVIOUS
<1>4. DOMAIN f = 1..n
  BY <1>1 DEF Finds
<1>5. On(f, s) \subseteq 1..n /\ left \in SUBSET (1..n)
  BY <1>4 DEF On
<1>6. x \in left
  BY <1>1, <1>2, <1>5, BestIsBest
<1>7. x \in 1..n /\ x \notin Picked(ch) /\ f[x].surface = s
  BY <1>5, <1>6 DEF On
<1>8. /\ more \in Seq(1..n) /\ Len(more) = Len(ch) + 1
      /\ Picked(more) = Picked(ch) \cup {x}
      /\ Cardinality(Picked(more)) = Cardinality(Picked(ch)) + 1
      /\ \A t : t # f[x].surface => Got(f, more, t) = Got(f, ch, t)
      /\ Got(f, more, f[x].surface) = Got(f, ch, f[x].surface) + 1
  <2>1. OneChosen(n, f, ch, x, more)
    BY <1>1, <1>3, <1>7, PickOne
  <2> QED
    BY <2>1 DEF OneChosen
<1>9. Careful(n, f, div, more)
  <2>1. \A j \in (1..n) \ Picked(ch) : f[j].surface = f[Best(f, left)].surface \/ ~div => j \in left
    BY <1>2, <1>4, <1>7 DEF On
  <2>2. left \cap Picked(ch) = {} /\ left # {}
    OBVIOUS
  <2>3. Picked(more) = Picked(ch) \cup {Best(f, left)}
    BY <1>2, <1>8
  <2>4. Leaves(n, f, div, ch, left)
    BY <1>5, <2>1, <2>2 DEF Leaves
  <2> QED
    BY <1>1, <2>3, <2>4, BestIsCareful
<1>10. \E r \in Nat : Turns(f, more, vis \cup {s}, r)
  <2>1. PICK r \in Nat : Turns(f, ch, vis, r)
    BY DEF Choosing
  <2>2. Turns(f, more, vis \cup {s}, r)
    <3> SUFFICES ASSUME NEW t \in Surfaces(f)
                 PROVE  /\ Got(f, more, t) <= IF t \in vis \cup {s} THEN r + 1 ELSE r
                        /\ \/ On(f, t) \subseteq Picked(more)
                           \/ Got(f, more, t) >= IF t \in vis \cup {s} THEN r + 1 ELSE r
      BY DEF Turns
    <3>1. /\ Got(f, ch, t) <= IF t \in vis THEN r + 1 ELSE r
          /\ On(f, t) \subseteq Picked(ch) \/ Got(f, ch, t) >= IF t \in vis THEN r + 1 ELSE r
      BY <2>1 DEF Turns
    <3>2. PICK g \in Nat : g = Got(f, ch, t)
      BY <1>1, PickedIsFinite
    <3>3. CASE t = s
      <4>1. x \in On(f, s) /\ x \notin Picked(ch)
        BY <1>4, <1>7 DEF On
      <4>2. g <= r /\ g >= r
        BY <3>1, <3>2, <3>3, <4>1
      <4>3. Got(f, more, t) = g + 1
        BY <1>7, <1>8, <3>2, <3>3
      <4>4. g + 1 <= r + 1 /\ g + 1 >= r + 1
        BY <4>2
      <4> QED
        BY <4>3, <4>4, <3>3
    <3>4. CASE t # s
      <4>1. t \in vis \cup {s} <=> t \in vis
        BY <3>4
      <4>2. Got(f, more, t) = Got(f, ch, t) /\ Picked(ch) \subseteq Picked(more)
        BY <1>7, <1>8, <3>4
      <4> QED
        BY <3>1, <4>1, <4>2
    <3> QED
      BY <3>3, <3>4
  <2> QED
    BY <2>2
<1>11. PICK wide : wide = vis \cup {s}
  OBVIOUS
<1>12. wide \subseteq Surfaces(f) /\ Len(more) <= budget
  BY <1>1, <1>8, <1>11
<1>13. Choosing(n, f, budget, div, more, wide, TRUE)
  BY <1>1, <1>8, <1>9, <1>10, <1>11, <1>12 DEF Choosing
<1> QED
  BY <1>2, <1>3, <1>11, <1>13

(* A round is over. *)
LEMMA RoundBegins ==
    ASSUME NEW n, NEW f, NEW budget, NEW div, NEW ch, NEW vis, NEW prog,
           Choosing(n, f, budget, div, ch, vis, prog), vis = Surfaces(f), div
    PROVE  Choosing(n, f, budget, div, ch, {}, FALSE)
<1>1. PICK r \in Nat : Turns(f, ch, vis, r)
  BY DEF Choosing
<1>2. Turns(f, ch, {}, r + 1) /\ r + 1 \in Nat
  BY <1>1 DEF Turns
<1> QED
  BY <1>2 DEF Choosing

(* Without diversify, the best of all. *)
LEMMA PlainChooses ==
    ASSUME NEW n, NEW f, NEW budget, NEW div, NEW ch, NEW vis, NEW prog,
           Choosing(n, f, budget, div, ch, vis, prog), ~div, Len(ch) < budget,
           NEW left, left = (1..n) \ Picked(ch), left # {}
    PROVE  Choosing(n, f, budget, div, Append(ch, Best(f, left)), vis, prog)
<1>1. /\ n \in Nat /\ f \in Finds(n) /\ budget \in Nat /\ div \in BOOLEAN /\ prog \in BOOLEAN
      /\ ch \in Seq(1..n) /\ Cardinality(Picked(ch)) = Len(ch)
      /\ vis \subseteq Surfaces(f) /\ Careful(n, f, div, ch)
      /\ ~prog => \A t \in vis : On(f, t) \subseteq Picked(ch)
  BY DEF Choosing
<1>2. PICK x : x = Best(f, left)
  OBVIOUS
<1>3. PICK more : more = Append(ch, x)
  OBVIOUS
<1>4. left \in SUBSET (1..n)
  OBVIOUS
<1>5. x \in left
  BY <1>1, <1>2, <1>4, BestIsBest
<1>6. x \in 1..n /\ x \notin Picked(ch)
  BY <1>5
<1>7. /\ more \in Seq(1..n) /\ Len(more) = Len(ch) + 1
      /\ Picked(more) = Picked(ch) \cup {x}
      /\ Cardinality(Picked(more)) = Cardinality(Picked(ch)) + 1
  <2>1. OneChosen(n, f, ch, x, more)
    BY <1>1, <1>3, <1>6, PickOne
  <2> QED
    BY <2>1 DEF OneChosen
<1>8. Careful(n, f, div, more)
  <2>1. \A j \in (1..n) \ Picked(ch) : f[j].surface = f[Best(f, left)].surface \/ ~div => j \in left
    OBVIOUS
  <2>2. left \cap Picked(ch) = {} /\ left # {}
    OBVIOUS
  <2>3. Picked(more) = Picked(ch) \cup {Best(f, left)}
    BY <1>2, <1>7
  <2>4. Leaves(n, f, div, ch, left)
    BY <1>4, <2>1, <2>2 DEF Leaves
  <2> QED
    BY <1>1, <2>3, <2>4, BestIsCareful
<1>9. Len(more) <= budget /\ Cardinality(Picked(more)) = Len(more)
  BY <1>1, <1>7
<1>10. ~prog => \A t \in vis : On(f, t) \subseteq Picked(more)
  BY <1>1, <1>7
<1>11. Choosing(n, f, budget, div, more, vis, prog)
  BY <1>1, <1>7, <1>8, <1>9, <1>10 DEF Choosing
<1> QED
  BY <1>2, <1>3, <1>11

(* What a finished selection says. *)
LEMMA SelectionIsSpread ==
    ASSUME NEW n, NEW f, NEW budget, NEW div, NEW ch, NEW vis, NEW prog,
           Choosing(n, f, budget, div, ch, vis, prog),
           \/ Len(ch) >= budget
           \/ vis = Surfaces(f) /\ ~prog
           \/ Picked(ch) = 1..n
    PROVE  /\ Len(ch) = Cardinality(Picked(ch))
           /\ Len(ch) = Min({budget, n})
           /\ \A i \in Picked(ch), j \in (1..n) \ Picked(ch) :
                f[i].surface = f[j].surface \/ ~div => f[i].u >= f[j].u
           /\ div => \A s, t \in Surfaces(f) :
                On(f, t) \subseteq Picked(ch) \/ Got(f, ch, s) <= Got(f, ch, t) + 1
<1>1. /\ n \in Nat /\ f \in Finds(n) /\ budget \in Nat
      /\ ch \in Seq(1..n) /\ Cardinality(Picked(ch)) = Len(ch) /\ Len(ch) <= budget
      /\ Careful(n, f, div, ch)
      /\ ~prog => \A t \in vis : On(f, t) \subseteq Picked(ch)
  BY DEF Choosing
<1>2. Picked(ch) \subseteq 1..n
  BY <1>1 DEF Picked
<1>3. PICK l \in Nat : l = Len(ch)
  BY <1>1
<1>4. IsFiniteSet(1..n) /\ Cardinality(1..n) = n
  <2>1. 1 \in Int /\ n \in Int
    BY <1>1
  <2>2. Cardinality(1..n) = IF 1 > n THEN 0 ELSE n - 1 + 1
    BY <2>1, FS_Interval
  <2> QED
    BY <1>1, <2>1, <2>2, FS_Interval
<1>5. l <= n /\ l <= budget
  <2>1. Cardinality(Picked(ch)) <= Cardinality(1..n)
    BY <1>2, <1>4, FS_Subset
  <2> QED
    BY <1>1, <1>3, <1>4, <2>1
<1>6. l = budget \/ l = n
  <2>1. CASE Len(ch) >= budget
    BY <1>1, <1>3, <1>5, <2>1
  <2>2. CASE vis = Surfaces(f) /\ ~prog
    <3>1. ASSUME NEW i \in 1..n PROVE i \in Picked(ch)
      <4>1. i \in DOMAIN f
        BY <1>1 DEF Finds
      <4>2. f[i].surface \in vis /\ i \in On(f, f[i].surface)
        BY <4>1, <2>2 DEF Surfaces, On
      <4> QED
        BY <4>2, <1>1, <2>2
    <3>2. Picked(ch) = 1..n
      BY <3>1, <1>2
    <3> QED
      BY <3>2, <1>1, <1>3, <1>4
  <2>3. CASE Picked(ch) = 1..n
    BY <2>3, <1>1, <1>3, <1>4
  <2> QED
    BY <2>1, <2>2, <2>3
<1>7. l = Min({budget, n})
  <2>1. l \in {budget, n} /\ \A y \in {budget, n} : l <= y
    BY <1>1, <1>5, <1>6
  <2>2. ASSUME NEW x \in {budget, n}, \A y \in {budget, n} : x <= y PROVE x = l
    <3>1. x <= l /\ l <= x /\ x \in Nat
      BY <2>1, <2>2, <1>1
    <3> QED
      BY <3>1
  <2>3. Min({budget, n}) = CHOOSE x \in {budget, n} : \A y \in {budget, n} : x <= y
    BY DEF Min
  <2>4. PICK m : m = Min({budget, n})
    OBVIOUS
  <2>5. m \in {budget, n} /\ \A y \in {budget, n} : m <= y
    BY <2>1, <2>3, <2>4
  <2>6. m = l
    BY <2>2, <2>5
  <2> QED
    BY <2>4, <2>6
<1>8. ASSUME div, NEW s \in Surfaces(f), NEW t \in Surfaces(f), ~(On(f, t) \subseteq Picked(ch))
      PROVE  Got(f, ch, s) <= Got(f, ch, t) + 1
  <2>1. PICK r \in Nat : Turns(f, ch, vis, r)
    BY <1>8 DEF Choosing
  <2>2. PICK g \in Nat, h \in Nat : g = Got(f, ch, s) /\ h = Got(f, ch, t)
    BY <1>1, PickedIsFinite
  <2>3. g <= IF s \in vis THEN r + 1 ELSE r
    BY <2>1, <2>2 DEF Turns
  <2>4. h >= IF t \in vis THEN r + 1 ELSE r
    BY <2>1, <2>2, <1>8 DEF Turns
  <2>5. g <= r + 1 /\ h >= r
    BY <2>3, <2>4
  <2>6. g <= h + 1
    BY <2>5
  <2> QED
    BY <2>2, <2>6
<1>9. \A i \in Picked(ch), j \in (1..n) \ Picked(ch) :
        f[i].surface = f[j].surface \/ ~div => f[i].u >= f[j].u
  BY <1>1 DEF Careful
<1> QED
  BY <1>1, <1>3, <1>7, <1>8, <1>9

-----------------------------------------------------------------------------
(* What is at hand *)

UnifyState(l) ==
    \E p \in {"unify", "unified"} : \E b : \E r :
        l = [pc |-> p, batch |-> b, record |-> r] /\ Kept(b, r)
RaisedState(l) == \E b : \E r : l = [pc |-> "raised", batch |-> b, record |-> r] /\ Mixed(b)
SelectState(l) ==
    \E p \in {"select", "selected"} : \E n : \E f : \E budget : \E div :
    \E ch : \E vis : \E prog :
        /\ l = [pc |-> p, findings |-> f, budget |-> budget, diversify |-> div,
                chosen |-> ch, visited |-> vis, progressed |-> prog]
        /\ Choosing(n, f, budget, div, ch, vis, prog)
        /\ p = "selected" => \/ Len(ch) >= budget
                             \/ vis = Surfaces(f) /\ ~prog
                             \/ Picked(ch) = 1..n
BuildState(l) ==
    \E fs : \E ns : \E es :
        l = [pc |-> "build", findings |-> fs, nodes |-> ns, edges |-> es] /\ Graph(fs, ns, es)
PivotState(l) ==
    \E p \in {"pivot", "shown"} : \E fs : \E es : \E root : \E depth : \E h : \E S : \E F :
        /\ l = [pc |-> p, findings |-> fs, edges |-> es, root |-> root, depth |-> depth,
                hops |-> h, seen |-> S, frontier |-> F]
        /\ Pivoting(fs, es, root, depth, h, S, F)
        /\ p = "shown" => h = depth \/ F = {}
LeadOK(l) ==
    l = NoLead \/ UnifyState(l) \/ RaisedState(l) \/ SelectState(l) \/ BuildState(l) \/ PivotState(l)

(* The counter tells what is at hand. *)
LEMMA PcTells ==
    ASSUME NEW l, LeadOK(l)
    PROVE  /\ l.pc \in {"unify", "unified"} => UnifyState(l)
           /\ l.pc = "raised" => RaisedState(l)
           /\ l.pc \in {"select", "selected"} => SelectState(l)
           /\ l.pc = "build" => BuildState(l)
           /\ l.pc \in {"pivot", "shown"} => PivotState(l)
<1>1. l = NoLead => l.pc = "none"
  BY DEF NoLead
<1>2. UnifyState(l) => l.pc \in {"unify", "unified"}
  BY DEF UnifyState
<1>3. RaisedState(l) => l.pc = "raised"
  BY DEF RaisedState
<1>4. SelectState(l) => l.pc \in {"select", "selected"}
  BY DEF SelectState
<1>5. BuildState(l) => l.pc = "build"
  BY DEF BuildState
<1>6. PivotState(l) => l.pc \in {"pivot", "shown"}
  BY DEF PivotState
<1> QED
  BY <1>1, <1>2, <1>3, <1>4, <1>5, <1>6 DEF LeadOK

(* The steps of unify keep what is known of the leads. *)
LEMMA UnifySteps ==
    ASSUME LeadOK(lead), Unify \/ Ranked \/ \E c \in Candidate : Absorb(c) \/ Clashes(c)
    PROVE  LeadOK(lead')
<1>1. CASE Unify
  <2>1. PICK r : r = [k \in {} |-> 0]
    OBVIOUS
  <2>2. lead' = [pc |-> "unify", batch |-> <<>>, record |-> r]
    BY <1>1, <2>1 DEF Unify
  <2>3. Kept(<<>>, r)
    <3>1. DOMAIN r = {} /\ <<>> \in Seq(Candidate) /\ Len(<<>>) = 0
      BY <2>1
    <3> QED
      BY <3>1 DEF Kept
  <2>4. UnifyState(lead')
    BY <2>2, <2>3 DEF UnifyState
  <2> QED
    BY <2>4 DEF LeadOK
<1>2. CASE Ranked
  <2>1. lead.pc = "unify" /\ lead' = [lead EXCEPT !.pc = IF Unsortable THEN "raised" ELSE "unified"]
    BY <1>2 DEF Ranked
  <2>2. UnifyState(lead)
    BY <2>1, PcTells
  <2>3. PICK b, r : lead = [pc |-> "unify", batch |-> b, record |-> r] /\ Kept(b, r)
    BY <2>1, <2>2 DEF UnifyState
  <2>4. CASE Unsortable
    <3>1. lead' = [pc |-> "raised", batch |-> b, record |-> r]
      BY <2>1, <2>3, <2>4
    <3>2. \E k \in DOMAIN r : \E l \in DOMAIN r : ~Comparable(r[k].seen, r[l].seen)
      BY <2>3, <2>4 DEF Unsortable
    <3>3. Mixed(b)
      BY <2>3, <3>2, UnsortableIsMixed
    <3>4. RaisedState(lead')
      BY <3>1, <3>3, SMTT(30) DEF RaisedState
    <3> QED
      BY <3>4 DEF LeadOK
  <2>5. CASE ~Unsortable
    <3>1. lead' = [pc |-> "unified", batch |-> b, record |-> r]
      BY <2>1, <2>3, <2>5
    <3>2. UnifyState(lead')
      BY <2>3, <3>1 DEF UnifyState
    <3> QED
      BY <3>2 DEF LeadOK
  <2> QED
    BY <2>4, <2>5
<1>3. ASSUME NEW c \in Candidate, Absorb(c) PROVE LeadOK(lead')
  <2>1. lead.pc = "unify"
    BY <1>3, Zenon DEF Absorb
  <2>2. UnifyState(lead)
    BY <2>1, PcTells
  <2>3. PICK b, r : lead = [pc |-> "unify", batch |-> b, record |-> r] /\ Kept(b, r)
    BY <2>1, <2>2 DEF UnifyState
  <2>4. PICK new : new = [k \in DOMAIN r \cup {Canon[c.host]} |->
                            IF k # Canon[c.host] THEN r[k]
                            ELSE IF Canon[c.host] \in DOMAIN r THEN Merged(r[Canon[c.host]], c)
                            ELSE First(c)]
    OBVIOUS
  <2>5. lead' = [pc |-> "unify", batch |-> Append(b, c), record |-> new]
    <3>1. lead' = [lead EXCEPT
              !.batch = Append(@, c),
              !.record = [k \in DOMAIN r \cup {Canon[c.host]} |->
                            IF k # Canon[c.host] THEN r[k]
                            ELSE IF Canon[c.host] \in DOMAIN r THEN Merged(r[Canon[c.host]], c)
                            ELSE First(c)]]
      <4>1. lead.record = r
        BY <2>3
      <4> QED
        BY <1>3, <4>1, Zenon DEF Absorb
    <3>2. lead' = [lead EXCEPT !.batch = Append(@, c), !.record = new]
      BY <3>1, <2>4, Zenon
    <3> HIDE <2>4
    <3> QED
      BY <3>2, <2>3
  <2>6. Kept(Append(b, c), new)
    BY <2>3, <2>4, AbsorbKeeps
  <2>7. UnifyState(lead')
    BY <2>5, <2>6 DEF UnifyState
  <2> QED
    BY <2>7 DEF LeadOK
<1>4. ASSUME NEW c \in Candidate, Clashes(c) PROVE LeadOK(lead')
  <2>1. /\ lead.pc = "unify" /\ Canon[c.host] \in DOMAIN lead.record
        /\ ~Comparable(c.seen, lead.record[Canon[c.host]].seen)
        /\ lead' = [lead EXCEPT !.pc = "raised", !.batch = Append(@, c)]
    BY <1>4, Zenon DEF Clashes
  <2>2. UnifyState(lead)
    BY <2>1, PcTells
  <2>3. PICK b, r : lead = [pc |-> "unify", batch |-> b, record |-> r] /\ Kept(b, r)
    BY <2>1, <2>2 DEF UnifyState
  <2>4. lead' = [pc |-> "raised", batch |-> Append(b, c), record |-> r]
    BY <2>1, <2>3
  <2>5. Mixed(Append(b, c))
    <3>1. Canon[c.host] \in DOMAIN r /\ ~Comparable(c.seen, r[Canon[c.host]].seen)
      BY <2>1, <2>3
    <3> QED
      BY <2>3, <3>1, ClashIsMixed
  <2>6. RaisedState(lead')
    BY <2>4, <2>5 DEF RaisedState
  <2> QED
    BY <2>6 DEF LeadOK
<1> QED
  BY <1>1, <1>2, <1>3, <1>4

(* The steps of select_for_review keep it. *)
LEMMA SelectSteps ==
    ASSUME LeadOK(lead), Select \/ Visit \/ Round \/ Plain \/ Selected
    PROVE  LeadOK(lead')
<1>1. CASE Select
  <2>1. PICK n \in 1..MaxFindings, budget \in Budgets, div \in BOOLEAN :
          \E f \in [1..n -> [surface: Surface, u: Uncertain]] :
            lead' = [pc |-> "select", findings |-> f, budget |-> budget,
                     diversify |-> div, chosen |-> <<>>,
                     visited |-> {}, progressed |-> FALSE]
    BY <1>1 DEF Select
  <2>2. PICK f \in Finds(n) :
            lead' = [pc |-> "select", findings |-> f, budget |-> budget,
                     diversify |-> div, chosen |-> <<>>,
                     visited |-> {}, progressed |-> FALSE]
    BY <2>1 DEF Finds
  <2>3. n \in Nat /\ budget \in Nat
    BY LeadsAssumption
  <2>4. Choosing(n, f, budget, div, <<>>, {}, FALSE)
    BY <2>3, SelectBegins
  <2>5. SelectState(lead')
    BY <2>2, <2>4 DEF SelectState
  <2> QED
    BY <2>5 DEF LeadOK
<1>2. ASSUME Visit \/ Round \/ Plain \/ Selected PROVE LeadOK(lead')
  <2>1. lead.pc = "select"
    BY <1>2 DEF Visit, Round, Plain, Selected
  <2>2. SelectState(lead)
    BY <2>1, PcTells
  <2>3. PICK n, f, budget, div, ch, vis, prog :
          /\ lead = [pc |-> "select", findings |-> f, budget |-> budget, diversify |-> div,
                     chosen |-> ch, visited |-> vis, progressed |-> prog]
          /\ Choosing(n, f, budget, div, ch, vis, prog)
    BY <2>1, <2>2 DEF SelectState
  <2>4. /\ lead.findings = f /\ lead.budget = budget /\ lead.diversify = div
        /\ lead.chosen = ch /\ lead.visited = vis /\ lead.progressed = prog
    BY <2>3
  <2>5. Chosen = Picked(ch)
    BY <2>4 DEF Chosen, Picked
  <2>6. n \in Nat /\ f \in Finds(n) /\ DOMAIN f = 1..n /\ vis \subseteq Surfaces(f)
    BY <2>3 DEF Choosing, Finds
  <2>7. CASE Visit
    <3> DEFINE s == Leader(f, Surfaces(f) \ vis)
               left == On(f, s) \ Picked(ch)
    <3>1. /\ div /\ Len(ch) < budget /\ vis # Surfaces(f)
          /\ lead' = [lead EXCEPT
                     !.visited = @ \cup {s},
                     !.chosen = IF left = {} THEN @ ELSE Append(@, Best(f, left)),
                     !.progressed = @ \/ left # {}]
      BY <2>4, <2>5, <2>7 DEF Visit
    <3>2. s \in Surfaces(f) \ vis
      BY <2>6, <3>1, LeaderIsWaiting
    <3>3. CASE left = {}
      <4>0. prog \in BOOLEAN
        BY <2>3 DEF Choosing
      <4>1. PICK pg, chn : /\ pg = (prog \/ left # {})
                           /\ chn = IF left = {} THEN ch ELSE Append(ch, Best(f, left))
        OBVIOUS
      <4>2. lead' = [pc |-> "select", findings |-> f, budget |-> budget, diversify |-> div,
                     chosen |-> ch, visited |-> vis \cup {s}, progressed |-> prog]
        <5>1. lead' = [lead EXCEPT !.visited = @ \cup {s}, !.chosen = chn, !.progressed = pg]
          <6> HIDE DEF s, left
          <6> QED
            BY <3>1, <2>4, <4>1, Zenon
        <5>2. pg = prog /\ chn = ch
          BY <4>0, <4>1, <3>3
        <5> HIDE DEF s
        <5> QED
          BY <5>1, <5>2, <2>3
      <4>3. Choosing(n, f, budget, div, ch, vis \cup {s}, prog)
        <5>1. On(f, s) \subseteq Picked(ch)
          BY <3>3
        <5> HIDE DEF s
        <5> QED
          BY <5>1, <2>3, <3>2, VisitPasses
      <4> HIDE DEF s
      <4>4. SelectState(lead')
        BY <4>2, <4>3 DEF SelectState
      <4> QED
        BY <4>4 DEF LeadOK
    <3>4. CASE left # {}
      <4>1. lead' = [pc |-> "select", findings |-> f, budget |-> budget, diversify |-> div,
                     chosen |-> Append(ch, Best(f, left)), visited |-> vis \cup {s},
                     progressed |-> TRUE]
        <5> HIDE DEF s, left
        <5> QED
          BY <3>1, <3>4, <2>3
      <4>2. PICK rest : rest = left
        OBVIOUS
      <4>3. rest = On(f, s) \ Picked(ch) /\ rest # {}
        BY <4>2, <3>4
      <4>4. Choosing(n, f, budget, div, Append(ch, Best(f, rest)), vis \cup {s}, TRUE)
        <5> HIDE DEF s
        <5> QED
          BY <4>3, <2>3, <3>1, <3>2, VisitChooses
      <4> HIDE DEF s, left
      <4>5. SelectState(lead')
        BY <4>1, <4>2, <4>4 DEF SelectState
      <4> QED
        BY <4>5 DEF LeadOK
    <3> QED
      BY <3>3, <3>4
  <2>8. CASE Round
    <3>1. /\ div /\ vis = Surfaces(f)
          /\ lead' = [lead EXCEPT !.visited = {}, !.progressed = FALSE]
      BY <2>4, <2>8 DEF Round
    <3>2. lead' = [pc |-> "select", findings |-> f, budget |-> budget, diversify |-> div,
                   chosen |-> ch, visited |-> {}, progressed |-> FALSE]
      BY <2>3, <3>1
    <3>3. Choosing(n, f, budget, div, ch, {}, FALSE)
      BY <2>3, <3>1, RoundBegins
    <3>4. SelectState(lead')
      BY <3>2, <3>3 DEF SelectState
    <3> QED
      BY <3>4 DEF LeadOK
  <2>9. CASE Plain
    <3>0. PICK left : left = (1..n) \ Picked(ch)
      OBVIOUS
    <3>1. /\ ~div /\ Len(ch) < budget /\ left # {}
          /\ lead' = [lead EXCEPT !.chosen = Append(@, Best(f, left))]
      BY <2>4, <2>5, <2>6, <2>9, <3>0 DEF Plain
    <3>2. lead' = [pc |-> "select", findings |-> f, budget |-> budget, diversify |-> div,
                   chosen |-> Append(ch, Best(f, left)), visited |-> vis, progressed |-> prog]
      BY <2>3, <3>1
    <3>3. Choosing(n, f, budget, div, Append(ch, Best(f, left)), vis, prog)
      BY <2>3, <3>0, <3>1, PlainChooses
    <3>4. SelectState(lead')
      BY <3>2, <3>3 DEF SelectState
    <3> QED
      BY <3>4 DEF LeadOK
  <2>10. CASE Selected
    <3>1. /\ \/ Len(ch) >= budget
             \/ vis = Surfaces(f) /\ ~prog
             \/ Picked(ch) = 1..n
          /\ lead' = [lead EXCEPT !.pc = "selected"]
      BY <2>4, <2>5, <2>6, <2>10 DEF Selected
    <3>2. lead' = [pc |-> "selected", findings |-> f, budget |-> budget, diversify |-> div,
                   chosen |-> ch, visited |-> vis, progressed |-> prog]
      BY <2>3, <3>1
    <3>3. SelectState(lead')
      BY <2>3, <3>1, <3>2 DEF SelectState
    <3> QED
      BY <3>3 DEF LeadOK
  <2> QED
    BY <1>2, <2>7, <2>8, <2>9, <2>10
<1> QED
  BY <1>1, <1>2

(* The steps of build_graph and of pivot keep it. *)
LEMMA GraphSteps ==
    ASSUME LeadOK(lead),
           \/ Build \/ (\E f \in Finding : Add(f))
           \/ (\E root \in Anchor \cup Entity, depth \in Depths : Pivot(root, depth))
           \/ Hop \/ Shown
    PROVE  LeadOK(lead')
<1>1. CASE Build
  <2>1. lead' = [pc |-> "build", findings |-> {}, nodes |-> {}, edges |-> {}]
    BY <1>1 DEF Build
  <2>2. BuildState(lead')
    BY <2>1, EmptyGraph DEF BuildState
  <2> QED
    BY <2>2 DEF LeadOK
<1>2. ASSUME NEW f \in Finding, Add(f) PROVE LeadOK(lead')
  <2>1. /\ lead.pc = "build"
        /\ lead' = IF f.anchors = {}
               THEN [lead EXCEPT !.findings = @ \cup {f}]
               ELSE [lead EXCEPT
                       !.findings = @ \cup {f},
                       !.nodes = @ \cup {Node(f)} \cup Attributes(f),
                       !.edges = @ \cup {<<Node(f), a>> : a \in Attributes(f)}]
    BY <1>2, Zenon DEF Add
  <2>2. BuildState(lead)
    BY <2>1, PcTells
  <2>3. PICK fs, ns, es :
          lead = [pc |-> "build", findings |-> fs, nodes |-> ns, edges |-> es] /\ Graph(fs, ns, es)
    BY <2>2 DEF BuildState
  <2>4. PICK more, wide, joined :
          /\ more = fs \cup {f} /\ wide = ns \cup {Node(f)} \cup Attributes(f)
          /\ joined = es \cup {<<Node(f), a>> : a \in Attributes(f)}
    OBVIOUS
  <2>5. CASE f.anchors = {}
    <3>1. lead' = [pc |-> "build", findings |-> more, nodes |-> ns, edges |-> es]
      BY <2>1, <2>3, <2>4, <2>5
    <3>2. Graph(more, ns, es)
      BY <2>3, <2>4, <2>5, AddKeepsGraph
    <3>3. BuildState(lead')
      BY <3>1, <3>2 DEF BuildState
    <3> QED
      BY <3>3 DEF LeadOK
  <2>6. CASE f.anchors # {}
    <3>1. lead' = [pc |-> "build", findings |-> more, nodes |-> wide, edges |-> joined]
      <4>1. lead' = [lead EXCEPT
                       !.findings = @ \cup {f},
                       !.nodes = @ \cup {Node(f)} \cup Attributes(f),
                       !.edges = @ \cup {<<Node(f), a>> : a \in Attributes(f)}]
        BY <2>1, <2>6
      <4>2. lead.findings = fs /\ lead.nodes = ns /\ lead.edges = es
        BY <2>3
      <4>3. lead' = [lead EXCEPT !.findings = more, !.nodes = wide, !.edges = joined]
        BY <4>1, <4>2, <2>4, Zenon
      <4> HIDE <2>4
      <4> QED
        BY <4>3, <2>3
    <3>2. Graph(more, wide, joined)
      BY <2>3, <2>4, <2>6, AddKeepsGraph
    <3>3. BuildState(lead')
      BY <3>1, <3>2 DEF BuildState
    <3> QED
      BY <3>3 DEF LeadOK
  <2> QED
    BY <2>5, <2>6
<1>3. ASSUME NEW root, NEW depth \in Depths, Pivot(root, depth) PROVE LeadOK(lead')
  <2>1. /\ lead.pc = "build"
        /\ lead' = [pc |-> "pivot", findings |-> lead.findings, edges |-> lead.edges,
                root |-> root, depth |-> depth, hops |-> 0,
                seen |-> {root} \cap lead.nodes, frontier |-> {root} \cap lead.nodes]
    BY <1>3 DEF Pivot
  <2>2. BuildState(lead)
    BY <2>1, PcTells
  <2>3. PICK fs, ns, es :
          lead = [pc |-> "build", findings |-> fs, nodes |-> ns, edges |-> es] /\ Graph(fs, ns, es)
    BY <2>2 DEF BuildState
  <2>4. PICK S : S = {root} \cap ns
    OBVIOUS
  <2>5. lead' = [pc |-> "pivot", findings |-> fs, edges |-> es, root |-> root, depth |-> depth,
                 hops |-> 0, seen |-> S, frontier |-> S]
    BY <2>1, <2>3, <2>4
  <2>6. depth \in Nat
    BY LeadsAssumption
  <2>7. Pivoting(fs, es, root, depth, 0, S, S)
    BY <2>3, <2>4, <2>6, PivotBegins
  <2>8. PivotState(lead')
    BY <2>5, <2>7 DEF PivotState
  <2> QED
    BY <2>8 DEF LeadOK
<1>4. ASSUME Hop \/ Shown PROVE LeadOK(lead')
  <2>1. lead.pc = "pivot"
    BY <1>4 DEF Hop, Shown
  <2>2. PivotState(lead)
    BY <2>1, PcTells
  <2>3. PICK fs, es, root, depth, h, S, F :
          /\ lead = [pc |-> "pivot", findings |-> fs, edges |-> es, root |-> root,
                     depth |-> depth, hops |-> h, seen |-> S, frontier |-> F]
          /\ Pivoting(fs, es, root, depth, h, S, F)
    BY <2>1, <2>2 DEF PivotState
  <2>4. /\ lead.findings = fs /\ lead.edges = es /\ lead.depth = depth
        /\ lead.hops = h /\ lead.seen = S /\ lead.frontier = F
    BY <2>3
  <2>5. CASE Hop
    <3>1. PICK next : next = (UNION {Neighbors(es, n) : n \in F}) \ S
      OBVIOUS
    <3>2. /\ h < depth
          /\ lead' = [lead EXCEPT !.seen = @ \cup next, !.frontier = next, !.hops = @ + 1]
      BY <2>4, <2>5, <3>1 DEF Hop
    <3>3. PICK k, T : k = h + 1 /\ T = S \cup next
      OBVIOUS
    <3>4. lead' = [pc |-> "pivot", findings |-> fs, edges |-> es, root |-> root,
                   depth |-> depth, hops |-> k, seen |-> T, frontier |-> next]
      BY <2>3, <3>2, <3>3
    <3>5. Pivoting(fs, es, root, depth, k, T, next)
      BY <2>3, <3>1, <3>2, <3>3, HopReaches
    <3>6. PivotState(lead')
      BY <3>4, <3>5 DEF PivotState
    <3> QED
      BY <3>6 DEF LeadOK
  <2>6. CASE Shown
    <3>1. /\ h = depth \/ F = {}
          /\ lead' = [lead EXCEPT !.pc = "shown"]
      BY <2>4, <2>6 DEF Shown
    <3>2. lead' = [pc |-> "shown", findings |-> fs, edges |-> es, root |-> root,
                   depth |-> depth, hops |-> h, seen |-> S, frontier |-> F]
      BY <2>3, <3>1
    <3>3. PivotState(lead')
      BY <2>3, <3>1, <3>2 DEF PivotState
    <3> QED
      BY <3>3 DEF LeadOK
  <2> QED
    BY <1>4, <2>5, <2>6
<1> QED
  BY <1>1, <1>2, <1>3, <1>4

(* What is known of the leads, at every moment. *)
LEMMA LeadInvariant == LeadSpec => []LeadOK(lead)
<1>1. LeadInit => LeadOK(lead)
  BY DEF LeadInit, LeadOK
<1>2. LeadOK(lead) /\ [LeadStep]_lead => LeadOK(lead)'
  <2> SUFFICES ASSUME LeadOK(lead), [LeadStep]_lead PROVE LeadOK(lead')
    OBVIOUS
  <2>1. CASE lead' = lead
    BY <2>1
  <2>2. CASE LeadStep
    BY <2>2, UnifySteps, SelectSteps, GraphSteps DEF LeadStep
  <2> QED
    BY <2>1, <2>2
<1> QED
  BY <1>1, <1>2, PTL DEF LeadSpec

(* unify loses no sighting and clashes only over times that do not compare. *)
LEMMA UnifyKeeps ==
    ASSUME LeadOK(lead)
    PROVE  SightingsAreKept
<1>1. ASSUME lead.pc \in {"unify", "unified"}
      PROVE  /\ \A n \in DOMAIN lead.batch :
                 Canon[lead.batch[n].host] \in DOMAIN lead.record
             /\ \A k \in DOMAIN lead.record : Stands(lead.batch, k, lead.record[k])
  <2>1. UnifyState(lead)
    BY <1>1, PcTells
  <2>2. PICK b, r : lead.batch = b /\ lead.record = r /\ Kept(b, r)
    BY <2>1 DEF UnifyState
  <2> QED
    BY <2>2 DEF Kept
<1>2. ASSUME lead.pc = "raised" PROVE Mixed(lead.batch)
  <2>1. RaisedState(lead)
    BY <1>2, PcTells
  <2>2. PICK b : lead.batch = b /\ Mixed(b)
    BY <2>1 DEF RaisedState
  <2> QED
    BY <2>2
<1> QED
  BY <1>1, <1>2 DEF SightingsAreKept, Stands, OfKey, Mixed

(* select_for_review spends its budget, and evenly. *)
LEMMA SelectSpreads ==
    ASSUME LeadOK(lead)
    PROVE  BudgetIsSpread
<1> SUFFICES ASSUME lead.pc = "selected" PROVE BudgetIsSpread
  BY DEF BudgetIsSpread
<1>1. SelectState(lead)
  BY PcTells
<1>2. PICK n, f, budget, div, ch, vis, prog :
        /\ lead = [pc |-> "selected", findings |-> f, budget |-> budget, diversify |-> div,
                   chosen |-> ch, visited |-> vis, progressed |-> prog]
        /\ Choosing(n, f, budget, div, ch, vis, prog)
        /\ \/ Len(ch) >= budget
           \/ vis = Surfaces(f) /\ ~prog
           \/ Picked(ch) = 1..n
  BY <1>1 DEF SelectState
<1>3. /\ lead.findings = f /\ lead.budget = budget /\ lead.diversify = div /\ lead.chosen = ch
  BY <1>2
<1>4. Chosen = Picked(ch)
  BY <1>3 DEF Chosen, Picked
<1>5. /\ Len(ch) = Cardinality(Picked(ch))
      /\ Len(ch) = Min({budget, n})
      /\ \A i \in Picked(ch), j \in (1..n) \ Picked(ch) :
           f[i].surface = f[j].surface \/ ~div => f[i].u >= f[j].u
      /\ div => \A s, t \in Surfaces(f) :
           On(f, t) \subseteq Picked(ch) \/ Got(f, ch, s) <= Got(f, ch, t) + 1
  BY <1>2, SelectionIsSpread
<1>6. DOMAIN f = 1..n /\ Len(f) = n
  <2>1. n \in Nat /\ f \in [1..n -> [surface: Surface, u: Uncertain]]
    BY <1>2 DEF Choosing, Finds
  <2> QED
    BY <2>1
<1> QED
  BY <1>3, <1>4, <1>5, <1>6 DEF BudgetIsSpread, Got

(* pivot shows what the hops of the reference reach. *)
LEMMA PivotShows ==
    ASSUME LeadOK(lead)
    PROVE  PivotIsReach
<1> SUFFICES ASSUME lead.pc = "shown" PROVE PivotIsReach
  BY DEF PivotIsReach
<1>1. PivotState(lead)
  BY PcTells
<1>2. PICK fs, es, root, depth, h, S, F :
        /\ lead = [pc |-> "shown", findings |-> fs, edges |-> es, root |-> root,
                   depth |-> depth, hops |-> h, seen |-> S, frontier |-> F]
        /\ Pivoting(fs, es, root, depth, h, S, F)
        /\ h = depth \/ F = {}
  BY <1>1 DEF PivotState
<1>3. lead.findings = fs /\ lead.root = root /\ lead.depth = depth /\ lead.seen = S
  BY <1>2
<1> DEFINE adjacent(a, b) ==
             \E f \in lead.findings :
                    /\ f.anchors # {}
                    /\ Node(f) \in {a, b} /\ {a, b} \subseteq f.anchors \cup f.entities
           known == UNION {f.anchors \cup f.entities :
                              f \in {g \in lead.findings : g.anchors # {}}}
           Within(w) == w = [d \in 0..lead.depth |->
                               IF d = 0 THEN {lead.root} \cap known
                               ELSE w[d - 1] \cup
                                      {b \in known : \E a \in w[d - 1] : adjacent(a, b)}]
           within == CHOOSE w : Within(w)
<1>4. \A w : Within(w) <=> Reach(fs, root, depth, w)
  BY <1>3 DEF Reach, Beyond, Adjacent, Named, Anchored
<1>5. depth \in Nat
  BY <1>2 DEF Pivoting
<1>6. Reach(fs, root, depth, within)
  <2> HIDE DEF Within
  <2>1. \E w : Within(w)
    <3>1. PICK w : Reach(fs, root, depth, w)
      BY <1>5, ReachExists
    <3> QED
      BY <1>4, <3>1
  <2>2. Within(within)
    BY <2>1
  <2> QED
    BY <1>4, <2>2
<1>7. S = within[depth]
  <2> HIDE DEF within
  <2> QED
    BY <1>2, <1>6, ShownIsReach
<1>8. lead.seen = within[lead.depth]
  BY <1>3, <1>7
<1> QED
  BY <1>8 DEF PivotIsReach

(* unify, select_for_review and pivot, for any hosts, batches, findings,        *)
(* budgets, roots and depths: a record stands for all sightings of its host and  *)
(* no other, a selection is as long as its budget allows, takes the most         *)
(* uncertain of a surface first and is even between surfaces to within one, and  *)
(* a pivot has seen exactly what its number of hops reaches.                     *)
THEOREM LeadsAlwaysMeetReferences == LeadSpec => []LeadsMeetReferences
<1>1. LeadOK(lead) => LeadsMeetReferences
  BY UnifyKeeps, SelectSpreads, PivotShows DEF LeadsMeetReferences
<1> QED
  BY <1>1, LeadInvariant, PTL

-----------------------------------------------------------------------------
(* Cases: the road of a history, and what was decided and filed *)

Road == <<"filed", "acknowledged", "in_progress", "resolved">>
Stage == [state: DOMAIN SlaNext, at: Nat]
(* A history goes down the road, and may be rejected at any turn of it. *)
OnRoad(h, today) ==
    /\ h \in Seq(Stage)
    /\ Len(h) \in 1..4
    /\ \A i \in 1..Len(h) : \/ h[i].state = Road[i]
                            \/ i = Len(h) /\ i > 1 /\ h[i].state = "rejected"
    /\ \A i, j \in 1..Len(h) : i < j => h[i].at <= h[j].at
    /\ \A i \in 1..Len(h) : h[i].at <= today
Opened(c, today) ==
    \E k, h : /\ k \in DOMAIN Routing
              /\ c = [kind |-> k, channels |-> Routing[k], history |-> h]
              /\ OnRoad(h, today)
Decided(c, d) ==
    \E k, works, some, tier :
        /\ k \in DOMAIN Routing /\ works \in BOOLEAN
        /\ c.channels = Routing[k] /\ c.kind = k
        /\ some = {Routing[k][i] : i \in DOMAIN Routing[k]}
        /\ tier = Tier(some, works)
        /\ d = [tier |-> tier, cooperates |-> works, human |-> tier # "auto"]
CaseInv ==
    /\ day \in Nat
    /\ case = NoCase \/ Opened(case, day)
    /\ decision = NoDecision \/ (case # NoCase /\ Decided(case, decision))
    /\ FilingIsHonest

(* A case that is open is a case. *)
LEMMA OpenedIsCase ==
    ASSUME NEW c, NEW today, Opened(c, today)
    PROVE  c # NoCase
BY DEF Opened, NoCase

(* One more stage at the end of a history. *)
LEMMA RoadGoesOn ==
    ASSUME NEW h, NEW today \in Nat, OnRoad(h, today), NEW to \in SlaNext[h[Len(h)].state],
           NEW more, more = Append(h, [state |-> to, at |-> today])
    PROVE  OnRoad(more, today)
<1> DEFINE n == Len(h)
<1>1. /\ h \in Seq(Stage) /\ n \in 1..4 /\ n \in Nat
      /\ h[n].state = Road[n] \/ h[n].state = "rejected"
  BY DEF OnRoad
<1>2. h[n].state # "rejected" /\ h[n].state # "resolved"
  BY DEF SlaNext
<1>3. h[n].state = Road[n] /\ n \in 1..3
  <2>1. n # 4
    <3>1. Road[4] = "resolved"
      BY DEF Road
    <3> QED
      BY <3>1, <1>1, <1>2
  <2> QED
    BY <2>1, <1>1, <1>2
<1>4. to \in {Road[n + 1], "rejected"} /\ to \in DOMAIN SlaNext
  <2>1. n = 1 \/ n = 2 \/ n = 3
    BY <1>3
  <2>2. CASE n = 1
    BY <1>3, <2>2 DEF Road, SlaNext
  <2>3. CASE n = 2
    BY <1>3, <2>3 DEF Road, SlaNext
  <2>4. CASE n = 3
    BY <1>3, <2>4 DEF Road, SlaNext
  <2> QED
    BY <2>1, <2>2, <2>3, <2>4
<1>5. [state |-> to, at |-> today] \in Stage
  BY <1>4 DEF Stage
<1>6. /\ more \in Seq(Stage) /\ Len(more) = n + 1
      /\ \A i \in 1..n : more[i] = h[i]
      /\ more[n + 1] = [state |-> to, at |-> today]
  BY <1>1, <1>5
<1>7. more[n + 1].state = to /\ more[n + 1].at = today
  BY <1>6
<1>8. \A i \in 1..n : more[i].state = Road[i]
  <2> SUFFICES ASSUME NEW i \in 1..n PROVE h[i].state = Road[i]
    BY <1>6
  <2>1. h[i].state = Road[i] \/ i = n
    BY DEF OnRoad
  <2> QED
    BY <1>3, <2>1
<1>9. \A i, j \in 1..Len(more) : i < j => more[i].at <= more[j].at
  <2> SUFFICES ASSUME NEW i \in 1..(n + 1), NEW j \in 1..(n + 1), i < j
               PROVE  more[i].at <= more[j].at
    BY <1>6
  <2>1. CASE j = n + 1
    <3>1. i \in 1..n
      BY <2>1, <1>1
    <3> QED
      BY <2>1, <3>1, <1>6, <1>7 DEF OnRoad
  <2>2. CASE j # n + 1
    <3>1. i \in 1..n /\ j \in 1..n
      BY <2>2, <1>1
    <3> QED
      BY <3>1, <1>6 DEF OnRoad
  <2> QED
    BY <2>1, <2>2
<1>10. \A i \in 1..Len(more) : more[i].at <= today
  <2> SUFFICES ASSUME NEW i \in 1..(n + 1) PROVE more[i].at <= today
    BY <1>6
  <2>1. CASE i = n + 1
    BY <2>1, <1>7
  <2>2. CASE i # n + 1
    <3>1. i \in 1..n
      BY <2>2, <1>1
    <3> QED
      BY <3>1, <1>6 DEF OnRoad
  <2> QED
    BY <2>1, <2>2
<1>11. \A i \in 1..Len(more) : \/ more[i].state = Road[i]
                               \/ i = Len(more) /\ i > 1 /\ more[i].state = "rejected"
  <2> SUFFICES ASSUME NEW i \in 1..(n + 1), i # n + 1 PROVE more[i].state = Road[i]
    BY <1>6, <1>7, <1>4, <1>1
  <2> QED
    BY <1>8, <1>1
<1>12. Len(more) \in 1..4
  <2>1. n + 1 \in 1..4
    BY <1>3, SMTT(30)
  <2> HIDE DEF n
  <2> QED
    BY <2>1, <1>6
<1> QED
  BY <1>6, <1>9, <1>10, <1>11, <1>12 DEF OnRoad

(* What the road says of a history. *)
LEMMA RoadIsPath ==
    ASSUME day \in Nat, case # NoCase, Opened(case, day)
    PROVE  HistoryIsAPath
<1>1. PICK k, h :
        /\ k \in DOMAIN Routing
        /\ case = [kind |-> k, channels |-> Routing[k], history |-> h]
        /\ OnRoad(h, day)
  BY DEF Opened
<1>2. case.history = h
  BY <1>1
<1> DEFINE n == Len(h)
<1>3. /\ n \in 1..4 /\ DOMAIN h = 1..n
      /\ \A i \in 1..n : \/ h[i].state = Road[i]
                         \/ i = n /\ i > 1 /\ h[i].state = "rejected"
      /\ \A i, j \in 1..n : i < j => h[i].at <= h[j].at
  BY <1>1 DEF OnRoad
<1> HIDE DEF n
<1>4. \A i, j \in 1..4 : i # j => Road[i] # Road[j]
  BY DEF Road
<1>5. Road[1] = "filed" /\ Road[2] = "acknowledged" /\ Road[3] = "in_progress"
      /\ Road[4] = "resolved" /\ \A i \in 1..4 : Road[i] # "rejected"
  BY DEF Road
<1>6. \A i, j \in 1..n : i < j =>
         /\ h[i].state # h[j].state /\ h[i].at <= h[j].at
         /\ h[i].state \notin {"resolved", "rejected"}
  <2> SUFFICES ASSUME NEW i \in 1..n, NEW j \in 1..n, i < j
               PROVE  /\ h[i].state # h[j].state
                      /\ h[i].state \notin {"resolved", "rejected"}
    BY <1>3
  <2>1. h[i].state = Road[i] /\ i \in 1..3 /\ j \in 1..4
    BY <1>3
  <2>2. h[j].state = Road[j] \/ h[j].state = "rejected"
    BY <1>3
  <2>3. Road[i] # Road[j] /\ Road[i] # Road[4] /\ Road[i] # "rejected"
    BY <2>1, <1>4, <1>5
  <2> QED
    BY <2>1, <2>2, <2>3, <1>5
<1>7. h[1].state = "filed"
  BY <1>3, <1>5
<1>8. \A i \in 1..n : h[i].state = "resolved" => i = 4 /\ n = 4
  BY <1>3, <1>4, <1>5
<1>9. (\E i \in 1..n : h[i].state = "resolved") =>
         /\ \E i \in 1..n : h[i].state = "acknowledged"
         /\ \E i \in 1..n : h[i].state = "in_progress"
  <2> SUFFICES ASSUME n = 4 PROVE h[2].state = Road[2] /\ h[3].state = Road[3]
    BY <1>8, <1>5
  <2> QED
    BY <1>3
<1>10. TimeToResolution = IF State = "resolved" THEN {h[n].at - h[1].at} ELSE {}
  <2>1. Resolutions = {i \in 1..n : h[i].state = "resolved"}
    BY <1>2, <1>3 DEF Resolutions
  <2>2. State = h[n].state
    BY <1>2 DEF State, n
  <2>3. CASE State = "resolved"
    <3>0. n \in 1..n
      BY <1>3
    <3>1. n = 4 /\ Resolutions = {4}
      BY <3>0, <2>1, <2>2, <2>3, <1>8
    <3>2. (CHOOSE i \in Resolutions : \A j \in Resolutions : i <= j) = 4
      BY <3>1
    <3>3. TimeToResolution = {h[4].at - h[1].at}
      BY <3>1, <3>2, <1>2 DEF TimeToResolution
    <3> QED
      BY <3>1, <3>3, <2>3
  <2>4. CASE State # "resolved"
    <3>1. Resolutions = {}
      BY <2>1, <2>2, <2>4, <1>8
    <3> QED
      BY <3>1, <2>4 DEF TimeToResolution
  <2> QED
    BY <2>3, <2>4
<1> QED
  BY <1>2, <1>3, <1>6, <1>7, <1>9, <1>10, ZenonT(40) DEF HistoryIsAPath, n

(* What the ladder answered is careful. *)
LEMMA DecidedIsCareful ==
    ASSUME decision # NoDecision => Decided(case, decision)
    PROVE  LadderIsCareful
<1> SUFFICES ASSUME decision # NoDecision PROVE LadderIsCareful
  BY DEF LadderIsCareful
<1>1. PICK k, works, some, tier :
        /\ k \in DOMAIN Routing /\ works \in BOOLEAN
        /\ case.channels = Routing[k] /\ case.kind = k
        /\ some = {Routing[k][i] : i \in DOMAIN Routing[k]}
        /\ tier = Tier(some, works)
        /\ decision = [tier |-> tier, cooperates |-> works, human |-> tier # "auto"]
  BY DEF Decided
<1>2. decision.tier = tier /\ decision.cooperates = works /\ decision.human = (tier # "auto")
  BY <1>1
<1>3. Channels = some
  BY <1>1 DEF Channels
<1>4. tier = "auto" => works /\ some \cap Cooperative # {}
  BY <1>1 DEF Tier
<1>5. ~works => tier = "legal"
  BY <1>1 DEF Tier
<1>6. k = "cert" => some \cap Cooperative = {}
  <2> SUFFICES ASSUME k = "cert" PROVE some \cap Cooperative = {}
    OBVIOUS
  <2>1. Routing[k] = <<"cert_revocation">>
    BY DEF Routing
  <2>2. \A x \in some : x = "cert_revocation"
    BY <1>1, <2>1
  <2> QED
    BY <2>2 DEF Cooperative
<1> QED
  BY <1>1, <1>2, <1>3, <1>4, <1>5, <1>6 DEF LadderIsCareful

(* Of the places of a list that are in a set, one comes first. *)
LEMMA FirstOfThree ==
    ASSUME NEW S \in SUBSET (1..3), S # {}
    PROVE  LET first == CHOOSE i \in S : \A j \in S : i <= j
           IN first \in S /\ \A j \in S : first <= j
<1>1. \E i \in S : \A j \in S : i <= j
  <2>1. CASE 1 \in S
    BY <2>1
  <2>2. CASE 1 \notin S /\ 2 \in S
    BY <2>2
  <2>3. CASE 1 \notin S /\ 2 \notin S
    <3>1. \A j \in S : j = 3
      BY <2>3
    <3>2. 3 \in S
      BY <3>1
    <3> QED
      BY <3>1, <3>2
  <2> QED
    BY <2>1, <2>2, <2>3
<1> QED
  BY <1>1

(* submit_takedown. *)
LEMMA SubmitIsHonest ==
    ASSUME NEW enabled \in SUBSET Known, NEW site, NEW mock \in BOOLEAN,
           Submit(enabled, site, mock)
    PROVE  FilingIsHonest'
<1> DEFINE serves(p) == Supports(p, site, mock)
           S == {i \in 1..3 : Providers[i] \in enabled /\ serves(Providers[i])}
           first == CHOOSE i \in S : \A j \in S : i <= j
           fair == {p \in enabled : serves(p)}
<1>1. DOMAIN Providers = 1..3 /\ Providers[1] = "cloudflare" /\ Providers[2] = "namecheap"
      /\ Providers[3] = "godaddy"
  BY DEF Providers
<1>2. Takers(enabled, site, mock) = S
  BY <1>1 DEF Takers
<1>3. \A p \in fair : \E i \in S : p = Providers[i]
  BY <1>1 DEF Known
<1>4. \A i \in S : Providers[i] \in fair
  OBVIOUS
<1>5. \A i \in 1..3 : Providers[i] # "none"
  BY <1>1
<1>6. "cloudflare" \in enabled /\ mock => 1 \in S
  <2>1. mock => Supports("cloudflare", site, mock)
    BY DEF Supports, SupportsCloudflare
  <2>2. 1 \in 1..3
    OBVIOUS
  <2> HIDE DEF serves
  <2>3. mock => serves("cloudflare")
    BY <2>1, Zenon DEF serves
  <2> QED
    BY <1>1, <2>2, <2>3
<1>7. filing' = IF S = {} THEN [by |-> "providers", enabled |-> enabled, site |-> site,
                                mock |-> mock, provider |-> "none", success |-> FALSE]
                ELSE [by |-> "providers", enabled |-> enabled, site |-> site,
                      mock |-> mock, provider |-> Providers[first], success |-> mock]
  BY <1>2 DEF Submit, Succeeds
<1>8. filing'.by = "providers" /\ filing'.enabled = enabled /\ filing'.site = site
      /\ filing'.mock = mock
  BY <1>7
<1>9. CASE S = {}
  <2>1. filing'.provider = "none" /\ filing'.success = FALSE
    BY <1>7, <1>9
  <2>2. fair = {} /\ ~(mock /\ "cloudflare" \in enabled)
    BY <1>3, <1>6, <1>9
  <2> HIDE DEF S
  <2> QED
    BY <1>8, <2>1, <2>2 DEF FilingIsHonest
<1>10. CASE S # {}
  <2>1. filing'.provider = Providers[first] /\ filing'.success = mock
    BY <1>7, <1>10
  <2>2. first \in S /\ \A j \in S : first <= j
    <3>1. S \in SUBSET (1..3)
      OBVIOUS
    <3> HIDE DEF S
    <3> QED
      BY <3>1, <1>10, FirstOfThree
  <2>3. Providers[first] \in fair /\ Providers[first] # "none" /\ fair # {}
    BY <2>2, <1>4, <1>5
  <2>4. mock /\ "cloudflare" \in enabled => Providers[first] = "cloudflare"
    <3> HIDE DEF first
    <3>1. mock /\ "cloudflare" \in enabled => first <= 1
      BY <1>6, <2>2
    <3>2. first \in 1..3
      BY <2>2
    <3> QED
      BY <3>1, <3>2, <1>1
  <2> HIDE DEF S, first
  <2> QED
    BY <1>8, <2>1, <2>3, <2>4 DEF FilingIsHonest
<1> QED
  BY <1>9, <1>10

(* HostingAbuseReporter.submit. *)
LEMMA ReportIsHonest ==
    ASSUME NEW words, NEW approved \in BOOLEAN, ReportHost(words, approved)
    PROVE  FilingIsHonest'
<1> DEFINE named == {i \in DOMAIN AbuseChannels : AbuseChannels[i] \in words}
<1>1. filing'.by = "host" /\ filing'.words = words /\ filing'.provider = HostOf(words)
      /\ filing'.success = approved /\ filing'.approved = approved
  BY DEF ReportHost
<1>2. words \cap {"aws", "ovh"} # {} => HostOf(words) \in words
  <2> SUFFICES ASSUME words \cap {"aws", "ovh"} # {} PROVE HostOf(words) \in words
    OBVIOUS
  <2>1. /\ DOMAIN AbuseChannels = 1..6 /\ AbuseChannels[1] = "aws" /\ AbuseChannels[2] = "gcp"
        /\ AbuseChannels[3] = "hetzner" /\ AbuseChannels[4] = "ovh"
    BY DEF AbuseChannels
  <2>2. 1 \in named \/ 4 \in named
    BY <2>1
  <2>3. \E i \in named : \A j \in named : i <= j
    <3>1. named \subseteq 1..6
      BY <2>1
    <3> HIDE DEF named
    <3>2. CASE 1 \in named
      BY <3>1, <3>2
    <3>3. CASE 1 \notin named /\ 2 \in named
      BY <3>1, <3>3
    <3>4. CASE 1 \notin named /\ 2 \notin named /\ 3 \in named
      BY <3>1, <3>4
    <3>5. CASE 1 \notin named /\ 2 \notin named /\ 3 \notin named
      BY <3>1, <3>5, <2>2
    <3> QED
      BY <3>2, <3>3, <3>4, <3>5
  <2>4. (CHOOSE i \in named : \A j \in named : i <= j) \in named
    <3> HIDE DEF named
    <3> QED
      BY <2>3
  <2>5. AbuseChannels[CHOOSE i \in named : \A j \in named : i <= j] \in words
    BY <2>4
  <2>6. named # {}
    BY <2>2
  <2> QED
    BY <2>5, <2>6 DEF HostOf
<1> QED
  BY <1>1, <1>2 DEF FilingIsHonest

(* Every step keeps what is known of the case. *)
LEMMA CaseInvInductive ==
    /\ CaseInit => CaseInv
    /\ CaseInv /\ [CaseNext]_caseVars => CaseInv'
<1>1. ASSUME CaseInit PROVE CaseInv
  <2>1. filing.by = "nobody" /\ case = NoCase /\ decision = NoDecision /\ day = 0
    BY <1>1 DEF CaseInit, NoFiling
  <2> QED
    BY <2>1 DEF CaseInv, FilingIsHonest
<1>2. ASSUME CaseInv, [CaseNext]_caseVars PROVE CaseInv'
  <2>0. /\ day \in Nat
        /\ case = NoCase \/ Opened(case, day)
        /\ decision = NoDecision \/ (case # NoCase /\ Decided(case, decision))
        /\ FilingIsHonest
    BY <1>2 DEF CaseInv
  <2>00. ASSUME UNCHANGED filing PROVE FilingIsHonest'
    BY <2>0, <2>00 DEF FilingIsHonest
  <2>1. ASSUME NEW k \in DOMAIN Routing, Route(k) PROVE CaseInv'
    <3>1. /\ case = NoCase /\ UNCHANGED <<decision, filing, day>>
          /\ case' = [kind |-> k, channels |-> Routing[k],
                      history |-> <<[state |-> "filed", at |-> day]>>]
      BY <2>1 DEF Route
    <3>2. decision' = NoDecision
      BY <3>1, <2>0
    <3>3. OnRoad(<<[state |-> "filed", at |-> day]>>, day)
      <4>1. "filed" \in DOMAIN SlaNext /\ Road[1] = "filed"
        BY DEF SlaNext, Road
      <4>2. [state |-> "filed", at |-> day] \in Stage
        BY <4>1, <2>0 DEF Stage
      <4>3. PICK x : x = [state |-> "filed", at |-> day]
        OBVIOUS
      <4>4. x \in Stage /\ x.state = "filed" /\ x.at = day
        BY <4>2, <4>3
      <4>5. <<x>> \in Seq(Stage) /\ Len(<<x>>) = 1 /\ <<x>>[1] = x
        BY <4>4
      <4>6. OnRoad(<<x>>, day)
        BY <4>1, <4>4, <4>5, <2>0 DEF OnRoad
      <4> QED
        BY <4>3, <4>6
    <3>4. Opened(case', day')
      BY <3>1, <3>3 DEF Opened
    <3> QED
      BY <3>1, <3>2, <3>4, <2>0, <2>00 DEF CaseInv
  <2>2. ASSUME NEW works \in BOOLEAN, Decide(works) PROVE CaseInv'
    <3>1. /\ case # NoCase /\ UNCHANGED <<case, filing, day>>
          /\ decision' = [tier |-> Tier(Channels, works), cooperates |-> works,
                          human |-> Tier(Channels, works) # "auto"]
      BY <2>2 DEF Decide
    <3>2. PICK k \in DOMAIN Routing : case.channels = Routing[k] /\ case.kind = k
      BY <3>1, <2>0 DEF Opened
    <3>3. Channels = {Routing[k][i] : i \in DOMAIN Routing[k]}
      BY <3>2 DEF Channels
    <3>4. Decided(case, decision')
      BY <3>1, <3>2, <3>3 DEF Decided
    <3> QED
      BY <3>1, <3>4, <2>0, <2>00 DEF CaseInv
  <2>3. ASSUME NEW to \in DOMAIN SlaNext, Transition(to) PROVE CaseInv'
    <3>1. /\ case # NoCase /\ UNCHANGED <<decision, filing, day>>
          /\ to \in SlaNext[State]
          /\ case' = [case EXCEPT !.history = Append(@, [state |-> to, at |-> day])]
      BY <2>3 DEF Transition
    <3>2. PICK k, h :
        /\ k \in DOMAIN Routing
            /\ case = [kind |-> k, channels |-> Routing[k], history |-> h]
            /\ OnRoad(h, day)
      BY <3>1, <2>0 DEF Opened
    <3>3. PICK more : more = Append(h, [state |-> to, at |-> day])
      OBVIOUS
    <3>4. case' = [kind |-> k, channels |-> Routing[k], history |-> more]
      BY <3>1, <3>2, <3>3
    <3>5. State = h[Len(h)].state
      BY <3>2 DEF State
    <3>6. OnRoad(more, day)
      BY <3>1, <3>2, <3>3, <3>5, <2>0, RoadGoesOn
    <3>7. Opened(case', day') /\ case' # NoCase
      <4>1. day' = day
        BY <3>1
      <4>2. Opened(case', day)
        BY <3>2, <3>4, <3>6 DEF Opened
      <4> QED
        BY <4>1, <4>2, OpenedIsCase
    <3>8. case'.channels = case.channels /\ case'.kind = case.kind
      BY <3>2, <3>4
    <3>9. decision' = NoDecision \/ Decided(case', decision')
      BY <3>1, <3>8, <2>0 DEF Decided
    <3> QED
      BY <3>1, <3>7, <3>9, <2>0, <2>00 DEF CaseInv
  <2>4. ASSUME NextDay PROVE CaseInv'
    <3>1. UNCHANGED <<case, decision, filing>> /\ day' = day + 1
      BY <2>4 DEF NextDay
    <3>2. \A h : OnRoad(h, day) => OnRoad(h, day')
      <4> SUFFICES ASSUME NEW h, OnRoad(h, day) PROVE OnRoad(h, day')
        OBVIOUS
      <4>1. \A i \in 1..Len(h) : h[i].at \in Nat /\ h[i].at <= day
        <5> SUFFICES ASSUME NEW i \in 1..Len(h) PROVE h[i].at \in Nat /\ h[i].at <= day
          OBVIOUS
        <5>1. h \in Seq(Stage)
          BY DEF OnRoad
        <5>2. h[i] \in Stage
          BY <5>1
        <5> QED
          BY <5>2 DEF OnRoad, Stage
      <4>2. \A i \in 1..Len(h) : h[i].at <= day'
        BY <4>1, <3>1, <2>0
      <4> QED
        BY <4>2 DEF OnRoad
    <3>3. case' = NoCase \/ Opened(case', day')
      BY <3>1, <3>2, <2>0 DEF Opened
    <3> QED
      BY <3>1, <3>3, <2>0, <2>00 DEF CaseInv
  <2>5. ASSUME NEW enabled \in SUBSET Known, NEW site, NEW mock \in BOOLEAN,
               Submit(enabled, site, mock)
        PROVE  CaseInv'
    <3>1. UNCHANGED <<case, decision, day>>
      BY <2>5 DEF Submit
    <3>2. FilingIsHonest'
      BY <2>5, SubmitIsHonest
    <3> QED
      BY <3>1, <3>2, <2>0 DEF CaseInv
  <2>6. ASSUME NEW words, NEW approved \in BOOLEAN, ReportHost(words, approved)
        PROVE  CaseInv'
    <3>1. UNCHANGED <<case, decision, day>>
      BY <2>6 DEF ReportHost
    <3>2. FilingIsHonest'
      BY <2>6, ReportIsHonest
    <3> QED
      BY <3>1, <3>2, <2>0 DEF CaseInv
  <2>7. ASSUME UNCHANGED caseVars PROVE CaseInv'
    <3>1. UNCHANGED <<case, decision, filing, day>>
      BY <2>7 DEF caseVars
    <3> QED
      BY <3>1, <2>0, <2>00 DEF CaseInv
  <2> QED
    BY <1>2, <2>1, <2>2, <2>3, <2>4, <2>5, <2>6, <2>7 DEF CaseNext
<1> QED
  BY <1>1, <1>2

(* A case that keeps to its road and its ladder is traceable. *)
LEMMA CaseInvTraces ==
    CaseInv => CasesAreTraceable
<1> SUFFICES ASSUME CaseInv PROVE CasesAreTraceable
  OBVIOUS
<1>1. HistoryIsAPath
  <2>1. CASE case = NoCase
    BY <2>1 DEF HistoryIsAPath
  <2>2. CASE case # NoCase
    BY <2>2, RoadIsPath DEF CaseInv
  <2> QED
    BY <2>1, <2>2
<1>2. LadderIsCareful
  BY DecidedIsCareful DEF CaseInv
<1> QED
  BY <1>1, <1>2 DEF CasesAreTraceable, CaseInv

(* The takedown cases, for any number of days: a history moves forward only and   *)
(* its time to resolution is the whole time of the case, nothing is filed without *)
(* a human unless a channel and the host cooperate, and who is told of a site     *)
(* serves it, is enabled, and is the only one.                                    *)
THEOREM CasesAlwaysTraceable == CaseSpec => []CasesAreTraceable
  BY CaseInvInductive, CaseInvTraces, PTL DEF CaseSpec

-----------------------------------------------------------------------------
(* Kits: sorting *)

KitName == BundleKits \cup {KitDb[k] : k \in 1..6}
Match == [kit: KitName, conf: Nat]
(* The places of the list that come before one of them. *)
Ahead(s, i) == {j \in DOMAIN s : s[j].conf > s[i].conf \/ (s[j].conf = s[i].conf /\ j < i)}

(* A match of a list names a kit and is so many per cent sure. *)
LEMMA MatchIsSure ==
    ASSUME NEW s \in Seq(Match), NEW i \in DOMAIN s
    PROVE  s[i] \in Match /\ s[i].conf \in Nat /\ i \in Nat
<1>1. s[i] \in Match /\ i \in Nat
  OBVIOUS
<1> QED
  BY <1>1 DEF Match

(* Places have places ahead of them, each a number of its own. *)
LEMMA RanksDiffer ==
    ASSUME NEW s \in Seq(Match)
    PROVE  /\ \A i \in DOMAIN s : Cardinality(Ahead(s, i)) \in 0..(Len(s) - 1)
           /\ \A i, j \in DOMAIN s :
                Cardinality(Ahead(s, i)) = Cardinality(Ahead(s, j)) => i = j
<1>1. Len(s) \in Nat /\ DOMAIN s = 1..Len(s)
  OBVIOUS
<1>2. IsFiniteSet(DOMAIN s) /\ Cardinality(DOMAIN s) = Len(s)
  BY <1>1, FS_Interval, SMTT(30)
<1>3. \A i \in DOMAIN s : s[i].conf \in Nat /\ i \in Nat
  BY MatchIsSure
<1>4. \A i \in DOMAIN s : /\ Ahead(s, i) \subseteq DOMAIN s /\ i \notin Ahead(s, i)
                          /\ IsFiniteSet(Ahead(s, i)) /\ Cardinality(Ahead(s, i)) \in Nat
  <2> SUFFICES ASSUME NEW i \in DOMAIN s
               PROVE  /\ Ahead(s, i) \subseteq DOMAIN s /\ i \notin Ahead(s, i)
                      /\ IsFiniteSet(Ahead(s, i)) /\ Cardinality(Ahead(s, i)) \in Nat
    OBVIOUS
  <2>1. Ahead(s, i) \subseteq DOMAIN s /\ i \notin Ahead(s, i)
    BY <1>3 DEF Ahead
  <2> QED
    BY <1>2, <2>1, FS_Subset, FS_CardinalityType
<1>5. ASSUME NEW i \in DOMAIN s
      PROVE  Cardinality(Ahead(s, i)) \in 0..(Len(s) - 1)
  <2>1. PICK m : m = Cardinality(Ahead(s, i) \cup {i})
    OBVIOUS
  <2>2. m = Cardinality(Ahead(s, i)) + 1
    BY <1>4, <2>1, FS_AddElement
  <2>3. m <= Cardinality(DOMAIN s)
    <3>1. Ahead(s, i) \cup {i} \in SUBSET DOMAIN s
      BY <1>4
    <3> QED
      BY <1>2, <2>1, <3>1, FS_Subset
  <2> QED
    BY <1>1, <1>2, <1>4, <2>2, <2>3
<1>6. ASSUME NEW i \in DOMAIN s, NEW j \in DOMAIN s, i \in Ahead(s, j)
      PROVE  Cardinality(Ahead(s, i)) < Cardinality(Ahead(s, j))
  <2>1. Ahead(s, i) \cup {i} \in SUBSET Ahead(s, j)
    <3> SUFFICES ASSUME NEW k \in Ahead(s, i) PROVE k \in Ahead(s, j)
      BY <1>6
    <3>1. k \in DOMAIN s
      BY <1>4
    <3>2. s[i].conf > s[j].conf \/ (s[i].conf = s[j].conf /\ i < j)
      BY <1>6 DEF Ahead
    <3>3. s[k].conf > s[i].conf \/ (s[k].conf = s[i].conf /\ k < i)
      BY DEF Ahead
    <3>4. s[k].conf > s[j].conf \/ (s[k].conf = s[j].conf /\ k < j)
      <4>1. s[i].conf \in Nat /\ s[j].conf \in Nat /\ s[k].conf \in Nat
            /\ i \in Nat /\ j \in Nat /\ k \in Nat
        BY <1>3, <3>1
      <4> QED
        BY <3>2, <3>3, <4>1
    <3> QED
      BY <3>1, <3>4 DEF Ahead
  <2>2. Cardinality(Ahead(s, i) \cup {i}) = Cardinality(Ahead(s, i)) + 1
    BY <1>4, FS_AddElement
  <2>3. Cardinality(Ahead(s, i) \cup {i}) <= Cardinality(Ahead(s, j))
    BY <1>4, <2>1, FS_Subset
  <2> QED
    BY <1>4, <2>2, <2>3
<1>7. ASSUME NEW i \in DOMAIN s, NEW j \in DOMAIN s, i # j
      PROVE  i \in Ahead(s, j) \/ j \in Ahead(s, i)
  <2>1. s[i].conf \in Nat /\ s[j].conf \in Nat /\ i \in Nat /\ j \in Nat
    BY <1>3
  <2> QED
    BY <1>7, <2>1 DEF Ahead
<1>8. ASSUME NEW i \in DOMAIN s, NEW j \in DOMAIN s, i # j
      PROVE  Cardinality(Ahead(s, i)) # Cardinality(Ahead(s, j))
  <2>1. CASE i \in Ahead(s, j)
    BY <1>4, <1>6, <2>1
  <2>2. CASE j \in Ahead(s, i)
    BY <1>4, <1>6, <2>2
  <2> QED
    BY <1>7, <1>8, <2>1, <2>2
<1> QED
  BY <1>5, <1>8

(* And so every number is some place's. *)
LEMMA RanksAreAll ==
    ASSUME NEW s \in Seq(Match), NEW n \in DOMAIN s
    PROVE  \E i \in DOMAIN s : Cardinality(Ahead(s, i)) = n - 1
<1>1. Len(s) \in Nat /\ DOMAIN s = 1..Len(s)
  OBVIOUS
<1>2. IsFiniteSet(DOMAIN s)
  BY <1>1, FS_Interval
<1> DEFINE f == [i \in DOMAIN s |-> Cardinality(Ahead(s, i)) + 1]
<1>3. \A i \in DOMAIN s : f[i] \in DOMAIN s
  <2> SUFFICES ASSUME NEW i \in DOMAIN s PROVE f[i] \in DOMAIN s
    OBVIOUS
  <2>1. Cardinality(Ahead(s, i)) \in 0..(Len(s) - 1)
    BY RanksDiffer
  <2> QED
    BY <1>1, <2>1
<1>4. f \in [DOMAIN s -> DOMAIN s]
  BY <1>3
<1>5. \A i, j \in DOMAIN s : f[i] = f[j] => i = j
  <2> SUFFICES ASSUME NEW i \in DOMAIN s, NEW j \in DOMAIN s, f[i] = f[j]
               PROVE  i = j
    OBVIOUS
  <2>1. Cardinality(Ahead(s, i)) \in Nat /\ Cardinality(Ahead(s, j)) \in Nat
    BY <1>1, RanksDiffer
  <2>2. Cardinality(Ahead(s, i)) = Cardinality(Ahead(s, j))
    BY <2>1
  <2> QED
    BY <2>2, RanksDiffer
<1> HIDE DEF f
<1>6. f \in Injection(DOMAIN s, DOMAIN s)
  BY <1>4, <1>5 DEF Injection, IsInjective
<1>7. f \in Surjection(DOMAIN s, DOMAIN s)
  BY <1>2, <1>6, FS_Injection
<1>8. PICK i \in DOMAIN s : f[i] = n
  BY <1>7 DEF Surjection
<1>9. Cardinality(Ahead(s, i)) \in Nat /\ f[i] = Cardinality(Ahead(s, i)) + 1
  BY <1>1, RanksDiffer DEF f
<1> QED
  BY <1>8, <1>9, <1>1

(* Sorting: the same matches, the surest first. *)
LEMMA SortedIsSorted ==
    ASSUME NEW s \in Seq(Match)
    PROVE  /\ Sorted(s) \in Seq(Match) /\ Len(Sorted(s)) = Len(s)
           /\ \A n \in DOMAIN s : \E i \in DOMAIN s : Sorted(s)[n] = s[i]
           /\ \A i \in DOMAIN s : \E n \in DOMAIN s : Sorted(s)[n] = s[i]
           /\ s # <<>> => \A i \in DOMAIN s : s[i].conf <= Sorted(s)[1].conf
<1>0. Len(s) \in Nat /\ DOMAIN s = 1..Len(s)
  OBVIOUS
<1> DEFINE at(n) == CHOOSE i \in DOMAIN s : Cardinality(Ahead(s, i)) = n - 1
<1>1. Sorted(s) = [n \in DOMAIN s |-> s[at(n)]]
  BY DEF Sorted, Ahead
<1>2. \A n \in DOMAIN s : at(n) \in DOMAIN s /\ Cardinality(Ahead(s, at(n))) = n - 1
  BY RanksAreAll
<1>3. \A i \in DOMAIN s : \E n \in DOMAIN s : at(n) = i
  <2> SUFFICES ASSUME NEW i \in DOMAIN s PROVE \E n \in DOMAIN s : at(n) = i
    OBVIOUS
  <2>1. PICK n : n = Cardinality(Ahead(s, i)) + 1
    OBVIOUS
  <2>2. n \in DOMAIN s /\ Cardinality(Ahead(s, i)) = n - 1
    <3>1. Cardinality(Ahead(s, i)) \in 0..(Len(s) - 1)
      BY RanksDiffer
    <3> QED
      BY <1>0, <2>1, <3>1
  <2>3. at(n) \in DOMAIN s /\ Cardinality(Ahead(s, at(n))) = n - 1
    BY <1>2, <2>2
  <2> HIDE DEF at
  <2>4. at(n) = i
    BY <2>2, <2>3, RanksDiffer
  <2> QED
    BY <2>2, <2>4
<1> HIDE DEF at
<1>4. \A n \in DOMAIN s : Sorted(s)[n] = s[at(n)] /\ s[at(n)] \in Match
  BY <1>0, <1>1, <1>2
<1>5. Sorted(s) \in Seq(Match) /\ Len(Sorted(s)) = Len(s)
  <2>1. Sorted(s) \in [1..Len(s) -> Match]
    BY <1>0, <1>1, <1>4
  <2> QED
    BY <1>0, <2>1
<1>6. ASSUME s # <<>>, NEW i \in DOMAIN s PROVE s[i].conf <= Sorted(s)[1].conf
  <2>1. 1 \in DOMAIN s
    BY <1>0, <1>6
  <2>2. at(1) \in DOMAIN s /\ Cardinality(Ahead(s, at(1))) = 0
    BY <1>2, <2>1
  <2>3. Ahead(s, at(1)) = {}
    <3>1. IsFiniteSet(DOMAIN s)
      BY <1>0, FS_Interval
    <3>2. Ahead(s, at(1)) \in SUBSET DOMAIN s
      BY DEF Ahead
    <3> QED
      BY <2>2, <3>1, <3>2, FS_Subset, FS_EmptySet
  <2>4. ~(s[i].conf > s[at(1)].conf)
    BY <2>3 DEF Ahead
  <2>5. s[i].conf \in Nat /\ s[at(1)].conf \in Nat
    BY <2>2, MatchIsSure
  <2> QED
    BY <1>4, <2>1, <2>4, <2>5
<1>7. \A n \in DOMAIN s : \E i \in DOMAIN s : Sorted(s)[n] = s[i]
  BY <1>2, <1>4
<1>8. \A i \in DOMAIN s : \E n \in DOMAIN s : Sorted(s)[n] = s[i]
  BY <1>3, <1>4
<1> QED
  BY <1>5, <1>6, <1>7, <1>8

-----------------------------------------------------------------------------
(* Kits: a page on its way through the loops *)

Hits(p, q, k) == p.text[k] + (IF q THEN p.tree[k] ELSE 0)
Entry(p, q, k) == [kit |-> KitDb[k], conf |-> KitConfidence(Hits(p, q, k))]

(* Of the first n families, the first with the most signatures. *)
Likeliest(p, n, b) ==
    \/ b = Generic /\ \A i \in 1..n : p.family[i] = 0
    \/ \E i \in 1..n :
          /\ b = [name |-> Families[i], hits |-> p.family[i]] /\ p.family[i] > 0
          /\ \A j \in 1..n : p.family[j] <= p.family[i] /\ (j < i => p.family[j] < p.family[i])
(* Of the first n kits, those that left a signature. *)
Found(p, q, n, f) ==
    /\ f \in Seq(Match)
    /\ \A i \in DOMAIN f : \E k \in 1..n : Hits(p, q, k) > 0 /\ f[i] = Entry(p, q, k)
    /\ \A k \in 1..n : Hits(p, q, k) > 0 => \E i \in DOMAIN f : f[i] = Entry(p, q, k)

FamilyState(x) ==
    \E p, q, n, b : /\ p \in Pages /\ q \in BOOLEAN /\ n \in 0..5 /\ Likeliest(p, n, b)
                    /\ x = [pc |-> "families", of |-> p, parsed |-> q, at |-> n + 1,
                            best |-> b, found |-> <<>>]
FingerState(x) ==
    \E p, q, n, b, f : /\ p \in Pages /\ q \in BOOLEAN /\ n \in 0..6
                       /\ Likeliest(p, 5, b) /\ Found(p, q, n, f)
                       /\ x = [pc |-> "kits", of |-> p, parsed |-> q, at |-> n + 1,
                               best |-> b, found |-> f]
NamedState(x) ==
    \E p, q, b, f, m :
        /\ p \in Pages /\ q \in BOOLEAN /\ Likeliest(p, 5, b) /\ Found(p, q, 6, f)
        /\ m = Sorted(f) \o Bundled(p.bundles)
        /\ x = [pc |-> "named", of |-> p, parsed |-> q, best |-> b, matches |-> m,
                family |-> IF Strong(b) THEN b.name ELSE "none",
                weights |-> IF Strong(b) THEN Weights[b.name] ELSE <<>>,
                kit |-> IF m = <<>> THEN "none" ELSE m[1].kit]
PageOK(x) == x = NoPage \/ FamilyState(x) \/ FingerState(x) \/ NamedState(x)

(* What a page has is counted. *)
LEMMA PageCounts ==
    ASSUME NEW p \in Pages, NEW q \in BOOLEAN
    PROVE  /\ \A i \in 1..5 : p.family[i] \in Nat
           /\ \A k \in 1..6 : Hits(p, q, k) \in Nat
           /\ p.bundles \in Seq(BundleKits)
<1>1. DOMAIN Families = 1..5 /\ DOMAIN KitDb = 1..6
  BY DEF Families, KitDb
<1>2. \A i \in 1..5 : p.family[i] \in Nat
  BY <1>1, PagesAssumption
<1>3. \A k \in 1..6 : p.text[k] \in Nat /\ p.tree[k] \in Nat
  BY <1>1, PagesAssumption
<1>4. p.bundles \in Seq(BundleKits)
  BY PagesAssumption
<1>5. ASSUME NEW k \in 1..6 PROVE Hits(p, q, k) \in Nat
  <2>1. PICK a \in Nat, c \in Nat : a = p.text[k] /\ c = p.tree[k]
    BY <1>3
  <2>2. Hits(p, q, k) = a + (IF q THEN c ELSE 0)
    BY <2>1 DEF Hits
  <2> QED
    BY <2>2
<1> QED
  BY <1>2, <1>4, <1>5

(* The names of the tables. *)
LEMMA NamesDiffer ==
    /\ Len(Families) = 5 /\ DOMAIN Families = 1..5
    /\ \A i, j \in 1..5 : Families[i] = Families[j] => i = j
    /\ \A i \in 1..5 : Families[i] # "none"
    /\ Len(KitDb) = 6 /\ DOMAIN KitDb = 1..6
    /\ \A k, l \in 1..6 : KitDb[k] = KitDb[l] => k = l
    /\ \A k \in 1..6 : KitDb[k] # "none" /\ KitDb[k] \in KitName
    /\ BundleKits \subseteq KitName /\ "none" \notin BundleKits
<1>1. Len(Families) = 5 /\ DOMAIN Families = 1..5
  BY DEF Families
<1>2. /\ \A i, j \in 1..5 : Families[i] = Families[j] => i = j
      /\ \A i \in 1..5 : Families[i] # "none"
  BY DEF Families
<1>3. Len(KitDb) = 6 /\ DOMAIN KitDb = 1..6
  BY DEF KitDb
<1>4. \A k, l \in 1..6 : KitDb[k] = KitDb[l] => k = l
  BY DEF KitDb
<1>5. \A k \in 1..6 : KitDb[k] # "none" /\ KitDb[k] \in KitName
  BY DEF KitDb, KitName
<1>6. BundleKits \subseteq KitName /\ "none" \notin BundleKits
  BY DEF BundleKits, KitName
<1> QED
  BY <1>1, <1>2, <1>3, <1>4, <1>5, <1>6

(* How sure a number of signatures is of its kit, or of its family. *)
LEMMA SignaturesConvince ==
    /\ \A h \in Nat : KitConfidence(h) \in Nat
    /\ \A h \in Nat : h > 0 /\ KitConfidence(h) < 900 => h \in 1..3
    /\ ~Strong(Generic)
    /\ \A b : b # Generic /\ b.hits \in Nat /\ b.hits > 0 => Strong(b)
<1>1. \A h \in Nat : KitConfidence(h) \in Nat /\ (h > 3 => KitConfidence(h) >= 900)
  <2> SUFFICES ASSUME NEW h \in Nat
               PROVE  KitConfidence(h) \in Nat /\ (h > 3 => KitConfidence(h) >= 900)
    OBVIOUS
  <2>1. h >= 2 => 550 + 150 * (h - 1) \in Nat
    OBVIOUS
  <2>2. h > 3 => 550 + 150 * (h - 1) >= 900
    OBVIOUS
  <2> QED
    BY <2>1, <2>2 DEF KitConfidence, Least
<1>2. \A h \in Nat : h > 0 /\ KitConfidence(h) < 900 => h \in 1..3
  BY <1>1
<1>3. ~Strong(Generic)
  BY DEF Strong, FamilyConfidence
<1>4. ASSUME NEW b, b # Generic, b.hits \in Nat, b.hits > 0
      PROVE  Strong(b)
  <2>1. 400 + 200 * b.hits >= 600
    <3>1. PICK h \in Nat : h = b.hits
      BY <1>4
    <3> QED
      BY <1>4, <3>1
  <2> QED
    BY <1>4, <2>1 DEF Strong, FamilyConfidence, Least
<1> QED
  BY <1>1, <1>2, <1>3, <1>4

(* One more family. *)
LEMMA FamilyIsTried ==
    ASSUME NEW p \in Pages, NEW n \in 0..4, NEW b, Likeliest(p, n, b),
           NEW more, more = IF p.family[n + 1] > b.hits
                            THEN [name |-> Families[n + 1], hits |-> p.family[n + 1]] ELSE b
    PROVE  Likeliest(p, n + 1, more)
<1>1. \A i \in 1..5 : p.family[i] \in Nat
  BY PageCounts
<1> DEFINE h == p.family[n + 1]
<1>2. /\ h \in Nat /\ n + 1 \in 1..(n + 1) /\ n + 1 \in Nat
      /\ \A i \in 1..(n + 1) : i = n + 1 \/ (i \in 1..n /\ i # n + 1)
      /\ \A i \in 1..n : i \in 1..(n + 1) /\ i < n + 1 /\ p.family[i] \in Nat
  BY <1>1
<1>3. CASE b = Generic /\ \A i \in 1..n : p.family[i] = 0
  <2>1. b.hits = 0
    BY <1>3 DEF Generic
  <2>2. CASE h > 0
    <3>1. more = [name |-> Families[n + 1], hits |-> h]
      BY <2>1, <2>2
    <3>2. \A j \in 1..(n + 1) : p.family[j] <= h /\ (j < n + 1 => p.family[j] < h)
      BY <1>2, <1>3, <2>2
    <3> QED
      BY <3>1, <3>2, <2>2, <1>2 DEF Likeliest
  <2>3. CASE ~(h > 0)
    <3>1. more = Generic /\ h = 0
      BY <2>1, <2>3, <1>2, <1>3
    <3>2. \A j \in 1..(n + 1) : p.family[j] = 0
      BY <1>2, <1>3, <3>1
    <3> QED
      BY <3>1, <3>2 DEF Likeliest
  <2> QED
    BY <2>2, <2>3
<1>4. ASSUME NEW i \in 1..n, b = [name |-> Families[i], hits |-> p.family[i]], p.family[i] > 0,
             \A j \in 1..n : p.family[j] <= p.family[i] /\ (j < i => p.family[j] < p.family[i])
      PROVE  Likeliest(p, n + 1, more)
  <2>1. b.hits = p.family[i] /\ p.family[i] \in Nat
    BY <1>2, <1>4
  <2>2. CASE h > p.family[i]
    <3>1. more = [name |-> Families[n + 1], hits |-> h]
      BY <2>1, <2>2
    <3>2. \A j \in 1..(n + 1) : p.family[j] <= h /\ (j < n + 1 => p.family[j] < h)
      BY <1>2, <1>4, <2>1, <2>2
    <3>3. h > 0
      BY <1>2, <2>1, <2>2
    <3> QED
      BY <3>1, <3>2, <3>3, <1>2 DEF Likeliest
  <2>3. CASE ~(h > p.family[i])
    <3>1. more = b
      BY <2>1, <2>3
    <3>2. \A j \in 1..(n + 1) :
            p.family[j] <= p.family[i] /\ (j < i => p.family[j] < p.family[i])
      BY <1>2, <1>4, <2>1, <2>3
    <3> QED
      BY <1>2, <1>4, <3>1, <3>2 DEF Likeliest
  <2> QED
    BY <2>2, <2>3
<1> QED
  BY <1>3, <1>4 DEF Likeliest

(* One more kit. *)
LEMMA KitIsTried ==
    ASSUME NEW p \in Pages, NEW q \in BOOLEAN, NEW n \in 0..5, NEW f, Found(p, q, n, f),
           NEW more, more = IF Hits(p, q, n + 1) = 0 THEN f
                            ELSE Append(f, Entry(p, q, n + 1))
    PROVE  Found(p, q, n + 1, more)
<1>1. Hits(p, q, n + 1) \in Nat
  BY PageCounts
<1>2. /\ n + 1 \in 1..(n + 1)
      /\ \A k \in 1..(n + 1) : k = n + 1 \/ k \in 1..n
      /\ \A k \in 1..n : k \in 1..(n + 1)
  OBVIOUS
<1>3. PICK e : e = Entry(p, q, n + 1)
  OBVIOUS
<1>4. e \in Match
  <2>1. KitDb[n + 1] \in KitName
    BY NamesDiffer
  <2>2. KitConfidence(Hits(p, q, n + 1)) \in Nat
    BY <1>1, SignaturesConvince
  <2> QED
    BY <1>3, <2>1, <2>2 DEF Entry, Match
<1>5. CASE Hits(p, q, n + 1) = 0
  BY <1>2, <1>5 DEF Found
<1>6. CASE Hits(p, q, n + 1) # 0
  <2>1. Hits(p, q, n + 1) > 0 /\ more = Append(f, e) /\ f \in Seq(Match)
    BY <1>1, <1>3, <1>6 DEF Found
  <2>2. /\ more \in Seq(Match) /\ Len(f) \in Nat /\ Len(more) = Len(f) + 1
        /\ DOMAIN f = 1..Len(f) /\ DOMAIN more = 1..(Len(f) + 1)
        /\ \A i \in 1..Len(f) : more[i] = f[i]
        /\ more[Len(f) + 1] = e
    BY <1>4, <2>1
  <2>3. \A i \in DOMAIN more : \E k \in 1..(n + 1) : Hits(p, q, k) > 0 /\ more[i] = Entry(p, q, k)
    <3> SUFFICES ASSUME NEW i \in DOMAIN more
                 PROVE  \E k \in 1..(n + 1) : Hits(p, q, k) > 0 /\ more[i] = Entry(p, q, k)
      OBVIOUS
    <3>1. CASE i = Len(f) + 1
      BY <1>2, <1>3, <2>1, <2>2, <3>1
    <3>2. CASE i \in DOMAIN f
      <4>1. \E k \in 1..n : Hits(p, q, k) > 0 /\ f[i] = Entry(p, q, k)
        BY <3>2 DEF Found
      <4> QED
        BY <1>2, <2>2, <3>2, <4>1
    <3> QED
      BY <2>2, <3>1, <3>2
  <2>4. \A k \in 1..(n + 1) : Hits(p, q, k) > 0 => \E i \in DOMAIN more : more[i] = Entry(p, q, k)
    <3> SUFFICES ASSUME NEW k \in 1..(n + 1), Hits(p, q, k) > 0
                 PROVE  \E i \in DOMAIN more : more[i] = Entry(p, q, k)
      OBVIOUS
    <3>1. CASE k = n + 1
      <4>1. Len(f) + 1 \in DOMAIN more
        BY <2>2
      <4> QED
        BY <1>3, <2>2, <3>1, <4>1
    <3>2. CASE k \in 1..n
      <4>1. PICK i \in DOMAIN f : f[i] = Entry(p, q, k)
        BY <3>2 DEF Found
      <4>2. i \in DOMAIN more
        BY <2>2
      <4> QED
        BY <2>2, <4>1, <4>2
    <3> QED
      BY <1>2, <3>1, <3>2
  <2> QED
    BY <2>2, <2>3, <2>4 DEF Found
<1> QED
  BY <1>5, <1>6

(* A page is named as it should be. *)
LEMMA NamedAsItShould ==
    ASSUME NamedState(page)
    PROVE  KitsAreNamed
<1>1. PICK p, q, b, f, m :
        /\ p \in Pages /\ q \in BOOLEAN /\ Likeliest(p, 5, b) /\ Found(p, q, 6, f)
        /\ m = Sorted(f) \o Bundled(p.bundles)
        /\ page = [pc |-> "named", of |-> p, parsed |-> q, best |-> b, matches |-> m,
                   family |-> IF Strong(b) THEN b.name ELSE "none",
                   weights |-> IF Strong(b) THEN Weights[b.name] ELSE <<>>,
                   kit |-> IF m = <<>> THEN "none" ELSE m[1].kit]
  BY DEF NamedState
<1>2. /\ page.of = p /\ page.parsed = q /\ page.matches = m
      /\ page.family = (IF Strong(b) THEN b.name ELSE "none")
      /\ page.weights = (IF Strong(b) THEN Weights[b.name] ELSE <<>>)
      /\ page.kit = (IF m = <<>> THEN "none" ELSE m[1].kit)
  BY <1>1
<1>3. /\ \A i \in 1..5 : p.family[i] \in Nat
      /\ \A k \in 1..6 : Hits(p, q, k) \in Nat
      /\ p.bundles \in Seq(BundleKits)
  BY <1>1, PageCounts
<1>4. \A k : KitHits(k) = Hits(p, q, k)
  BY <1>2 DEF KitHits, Hits
<1>5. DOMAIN Families = 1..5 /\ DOMAIN KitDb = 1..6
  BY NamesDiffer, SMTT(30)
<1>6. /\ page.family = "none" <=> \A i \in 1..5 : p.family[i] = 0
      /\ \A i, j \in 1..5 : page.family = Families[i] =>
            /\ p.family[j] <= p.family[i] /\ (j < i => p.family[j] < p.family[i])
            /\ page.weights = Weights[Families[i]]
  <2>1. CASE b = Generic /\ \A i \in 1..5 : p.family[i] = 0
    <3>1. page.family = "none"
      BY <1>2, <2>1, SignaturesConvince
    <3> QED
      BY <2>1, <3>1, NamesDiffer
  <2>2. ASSUME NEW i \in 1..5, b = [name |-> Families[i], hits |-> p.family[i]], p.family[i] > 0,
               \A j \in 1..5 : p.family[j] <= p.family[i] /\ (j < i => p.family[j] < p.family[i])
        PROVE  /\ page.family = "none" <=> \A j \in 1..5 : p.family[j] = 0
               /\ \A g, j \in 1..5 : page.family = Families[g] =>
                     /\ p.family[j] <= p.family[g] /\ (j < g => p.family[j] < p.family[g])
                     /\ page.weights = Weights[Families[g]]
    <3>1. b.name = Families[i] /\ b.hits = p.family[i] /\ b.hits \in Nat /\ b.hits > 0
      BY <1>3, <2>2
    <3>2. b # Generic
      BY <3>1 DEF Generic
    <3>3. page.family = Families[i] /\ page.weights = Weights[Families[i]]
      BY <1>2, <3>1, <3>2, SignaturesConvince
    <3>4. page.family # "none" /\ p.family[i] # 0
      BY <2>2, <3>3, NamesDiffer
    <3>5. \A g \in 1..5 : page.family = Families[g] => g = i
      BY <3>3, NamesDiffer
    <3> QED
      BY <2>2, <3>3, <3>4, <3>5
  <2> QED
    BY <1>1, <2>1, <2>2, Zenon DEF Likeliest
<1> DEFINE t == Sorted(f)
           u == Bundled(p.bundles)
<1>7. f \in Seq(Match) /\ Len(f) \in Nat /\ DOMAIN f = 1..Len(f)
  BY <1>1 DEF Found
<1>8. /\ t \in Seq(Match) /\ Len(t) = Len(f)
      /\ \A n \in DOMAIN f : \E i \in DOMAIN f : t[n] = f[i]
      /\ \A i \in DOMAIN f : \E n \in DOMAIN f : t[n] = f[i]
      /\ f # <<>> => \A i \in DOMAIN f : f[i].conf <= t[1].conf
  BY <1>7, SortedIsSorted
<1>9. /\ u \in Seq(Match) /\ Len(u) = Len(p.bundles) /\ Len(u) \in Nat
      /\ \A i \in 1..Len(u) : u[i].conf = 900 /\ u[i].kit \in BundleKits
  <2>0. PICK w : w = p.bundles
    OBVIOUS
  <2>1. /\ w \in Seq(BundleKits) /\ DOMAIN w = 1..Len(w) /\ Len(w) \in Nat
        /\ \A i \in 1..Len(w) : w[i] \in BundleKits
    <3>1. w \in Seq(BundleKits)
      BY <2>0, <1>3
    <3> QED
      BY <3>1
  <2>2. \A i \in 1..Len(w) : [kit |-> w[i], conf |-> 900] \in Match
    <3>1. \A i \in 1..Len(w) : w[i] \in KitName
      BY <2>1, NamesDiffer
    <3> QED
      BY <3>1 DEF Match
  <2>3. u = [i \in 1..Len(w) |-> [kit |-> w[i], conf |-> 900]]
    BY <2>0, <2>1 DEF Bundled
  <2>4. u \in [1..Len(w) -> Match]
    BY <2>2, <2>3
  <2>5. u \in Seq(Match) /\ Len(u) = Len(w)
    BY <2>1, <2>4
  <2>6. \A i \in 1..Len(w) : u[i].conf = 900 /\ u[i].kit \in BundleKits
    BY <2>1, <2>3
  <2> QED
    BY <2>0, <2>1, <2>5, <2>6
<1> HIDE DEF t, u
<1>10. /\ m \in Seq(Match) /\ Len(m) = Len(f) + Len(u)
       /\ \A i \in 1..Len(f) : m[i] = t[i]
       /\ \A i \in 1..Len(m) : i \in 1..Len(f) \/ (i - Len(f) \in 1..Len(u) /\ m[i] = u[i - Len(f)])
  <2>1. m = t \o u
    BY <1>1 DEF t, u
  <2>2. /\ t \in Seq(Match) /\ u \in Seq(Match) /\ Len(t) \in Nat /\ Len(u) \in Nat
        /\ Len(t) = Len(f)
    BY <1>7, <1>8, <1>9
  <2>3. m \in Seq(Match) /\ Len(m) = Len(t) + Len(u)
    BY <2>1, <2>2, ConcatProperties
  <2>4. \A i \in 1..Len(t) : m[i] = t[i]
    BY <2>1, <2>2
  <2>5. \A i \in 1..Len(m) :
          i \in 1..Len(t) \/ (i - Len(t) \in 1..Len(u) /\ m[i] = u[i - Len(t)])
    BY <2>1, <2>2, <2>3
  <2> QED
    BY <2>2, <2>3, <2>4, <2>5
<1>11. \A i \in DOMAIN f : \E k \in 1..6 : Hits(p, q, k) > 0 /\ f[i] = Entry(p, q, k)
  BY <1>1 DEF Found
<1>12. \A k \in 1..6 : Hits(p, q, k) > 0 => \E i \in DOMAIN f : f[i] = Entry(p, q, k)
  BY <1>1 DEF Found
<1>13. \A k \in 1..6 : Entry(p, q, k).kit = KitDb[k] /\ Entry(p, q, k).conf = KitConfidence(Hits(p, q, k))
  BY DEF Entry
<1>14. m # <<>> => \/ f # <<>> /\ \E k \in 1..6 : Hits(p, q, k) > 0 /\ m[1] = Entry(p, q, k)
                   \/ f = <<>> /\ Len(f) = 0 /\ m[1].conf = 900 /\ m[1].kit \in BundleKits
  <2> SUFFICES ASSUME m # <<>>
               PROVE  \/ f # <<>> /\ \E k \in 1..6 : Hits(p, q, k) > 0 /\ m[1] = Entry(p, q, k)
                      \/ f = <<>> /\ Len(f) = 0 /\ m[1].conf = 900 /\ m[1].kit \in BundleKits
    OBVIOUS
  <2>1. 1 \in 1..Len(m)
    BY <1>10
  <2>2. CASE f = <<>>
    <3>1. Len(f) = 0
      BY <2>2
    <3>2. 1 - Len(f) \in 1..Len(u) /\ m[1] = u[1 - Len(f)]
      BY <1>10, <2>1, <3>1
    <3> QED
      BY <1>9, <2>2, <3>1, <3>2
  <2>3. CASE f # <<>>
    <3>1. 1 \in 1..Len(f)
      BY <1>7, <2>3
    <3>2. PICK i \in DOMAIN f : t[1] = f[i]
      BY <1>7, <1>8, <3>1
    <3> QED
      BY <1>10, <1>11, <2>3, <3>1, <3>2
  <2> QED
    BY <2>2, <2>3
<1>15. page.kit = "none" <=> p.bundles = <<>> /\ \A k \in 1..6 : KitHits(k) = 0
  <2>1. CASE m = <<>>
    <3>1. Len(f) = 0 /\ Len(u) = 0
      BY <1>7, <1>9, <1>10, <2>1
    <3>2. p.bundles = <<>>
      <4>1. PICK w : w = p.bundles
        OBVIOUS
      <4>2. w \in Seq(BundleKits) /\ Len(w) = 0
        BY <1>3, <1>9, <3>1, <4>1
      <4> QED
        BY <4>1, <4>2
    <3>3. \A k \in 1..6 : Hits(p, q, k) = 0
      BY <1>3, <1>7, <1>12, <3>1
    <3> QED
      BY <1>2, <1>4, <2>1, <3>2, <3>3
  <2>2. CASE m # <<>>
    <3>1. page.kit # "none"
      BY <1>2, <1>13, <1>14, <2>2, NamesDiffer
    <3>2. p.bundles = <<>> => \E k \in 1..6 : Hits(p, q, k) # 0
      <4> SUFFICES ASSUME p.bundles = <<>> PROVE \E k \in 1..6 : Hits(p, q, k) # 0
        OBVIOUS
      <4>1. Len(u) = 0
        BY <1>9
      <4>2. 1 \in DOMAIN f
        BY <1>7, <1>9, <1>10, <2>2, <4>1
      <4> QED
        BY <1>3, <1>11, <4>2
    <3> QED
      BY <3>1, <3>2, <1>4
  <2> QED
    BY <2>1, <2>2
<1>16. ASSUME NEW k \in 1..6, KitHits(k) > 0
       PROVE  \E n \in 1..Len(m) : /\ m[n] = [kit |-> KitDb[k], conf |-> KitConfidence(KitHits(k))]
                                    /\ m[n].conf <= m[1].conf
  <2>1. PICK i \in DOMAIN f : f[i] = Entry(p, q, k)
    BY <1>4, <1>12, <1>16
  <2>2. PICK n \in DOMAIN f : t[n] = f[i]
    BY <1>8
  <2>3. f # <<>> /\ 1 \in 1..Len(f) /\ n \in 1..Len(f) /\ n \in 1..Len(m)
    BY <1>7, <1>9, <1>10, <2>2
  <2>4. m[n] = Entry(p, q, k) /\ m[1] = t[1]
    BY <1>10, <2>1, <2>2, <2>3
  <2>5. f[i].conf <= t[1].conf
    BY <1>8, <2>3
  <2> QED
    BY <1>4, <2>1, <2>3, <2>4, <2>5 DEF Entry
<1>17. ASSUME NEW k \in 1..6, m # <<>>, page.kit = KitDb[k],
              NEW n \in DOMAIN m, m[n].conf > m[1].conf
       PROVE  KitHits(k) \in 1..3 /\ p.bundles # <<>>
  <2>1. n \in 1..Len(m)
    BY <1>10
  <2>2. f # <<>>
    <3> SUFFICES ASSUME f = <<>> PROVE FALSE
      OBVIOUS
    <3>1. Len(f) = 0 /\ m[1].conf = 900
      BY <1>14, <1>17
    <3>2. n \notin 1..Len(f)
      BY <3>1
    <3>3. n - Len(f) \in 1..Len(u) /\ m[n] = u[n - Len(f)]
      BY <1>10, <2>1, <3>2
    <3>4. m[n].conf = 900
      BY <1>9, <3>3
    <3> QED
      BY <1>17, <3>1, <3>4
  <2>3. PICK l \in 1..6 : Hits(p, q, l) > 0 /\ m[1] = Entry(p, q, l)
    BY <1>14, <1>17, <2>2
  <2>4. l = k
    <3>1. page.kit = KitDb[l]
      BY <1>2, <1>13, <1>17, <2>3
    <3> QED
      BY <1>17, <3>1, NamesDiffer
  <2>5. n \notin 1..Len(f)
    <3> SUFFICES ASSUME n \in 1..Len(f) PROVE FALSE
      OBVIOUS
    <3>1. PICK i \in DOMAIN f : t[n] = f[i]
      BY <1>7, <1>8
    <3>2. f[i].conf <= t[1].conf /\ m[n] = f[i]
      BY <1>8, <1>10, <2>2, <3>1
    <3>3. m[1] = t[1]
      BY <1>7, <1>10, <2>2
    <3>4. f[i].conf \in Nat /\ m[1].conf \in Nat
      BY <1>7, <1>10, <1>17, <2>1, MatchIsSure
    <3> QED
      BY <1>17, <3>2, <3>3, <3>4
  <2>6. n - Len(f) \in 1..Len(u) /\ m[n] = u[n - Len(f)]
    BY <1>10, <2>1, <2>5
  <2>7. m[n].conf = 900
    BY <1>9, <2>6
  <2>8. p.bundles # <<>>
    <3>1. Len(u) # 0
      BY <1>9, <2>6
    <3> QED
      BY <1>9, <3>1
  <2>9. KitConfidence(Hits(p, q, k)) < 900
    <3>1. m[1].conf = KitConfidence(Hits(p, q, k))
      BY <1>13, <2>3, <2>4
    <3>2. KitConfidence(Hits(p, q, k)) \in Nat
      BY <1>3, SignaturesConvince
    <3> QED
      BY <1>17, <2>7, <3>1, <3>2
  <2>10. Hits(p, q, k) \in 1..3
    BY <1>3, <2>3, <2>4, <2>9, SignaturesConvince
  <2> QED
    BY <1>4, <2>8, <2>10
<1> QED
  BY <1>2, <1>5, <1>6, <1>15, <1>16, <1>17 DEF KitsAreNamed

(* Every step keeps what is known of the page. *)
LEMMA KitInvInductive ==
    /\ KitInit => PageOK(page)
    /\ PageOK(page) /\ [KitStep]_page => PageOK(page)'
<1>1. KitInit => PageOK(page)
  BY DEF KitInit, PageOK
<1>2. ASSUME PageOK(page), [KitStep]_page PROVE PageOK(page)'
  <2>0. /\ page.pc = "families" => FamilyState(page)
        /\ page.pc = "kits" => FingerState(page)
    BY <1>2 DEF PageOK, NoPage, FamilyState, FingerState, NamedState
  <2>1. ASSUME NEW p \in Pages, NEW q \in BOOLEAN, Render(p, q) PROVE FamilyState(page')
    <3>1. page' = [pc |-> "families", of |-> p, parsed |-> q, at |-> 1,
                   best |-> Generic, found |-> <<>>]
      BY <2>1 DEF Render
    <3>2. Likeliest(p, 0, Generic) /\ 0 \in 0..5 /\ 1 = 0 + 1
      BY DEF Likeliest
    <3> QED
      BY <3>1, <3>2 DEF FamilyState
  <2>2. ASSUME TryFamily PROVE FamilyState(page')
    <3>1. PICK p, q, n, b :
            /\ p \in Pages /\ q \in BOOLEAN /\ n \in 0..5 /\ Likeliest(p, n, b)
            /\ page = [pc |-> "families", of |-> p, parsed |-> q, at |-> n + 1,
                       best |-> b, found |-> <<>>]
      BY <2>0, <2>2 DEF TryFamily, FamilyState
    <3>2. page.at = n + 1 /\ page.of = p /\ n \in 0..4
      <4>1. page.at = n + 1 /\ page.of = p /\ page.at <= 5
        BY <2>2, <3>1, NamesDiffer DEF TryFamily
      <4> QED
        BY <3>1, <4>1
    <3>3. PICK more : more = IF p.family[n + 1] > b.hits
                             THEN [name |-> Families[n + 1], hits |-> p.family[n + 1]] ELSE b
      OBVIOUS
    <3>4. page' = [page EXCEPT !.at = page.at + 1,
                     !.best = IF page.of.family[page.at] > page.best.hits
                              THEN [name |-> Families[page.at], hits |-> page.of.family[page.at]]
                              ELSE page.best]
      BY <2>2 DEF TryFamily
    <3>5. (IF page.of.family[page.at] > page.best.hits
           THEN [name |-> Families[page.at], hits |-> page.of.family[page.at]]
           ELSE page.best) = more
      BY <3>1, <3>2, <3>3
    <3>6. page' = [page EXCEPT !.at = page.at + 1, !.best = more]
      BY <3>4, <3>5, Zenon
    <3>7. page' = [pc |-> "families", of |-> p, parsed |-> q, at |-> (n + 1) + 1,
                   best |-> more, found |-> <<>>]
      BY <3>1, <3>6
    <3>8. Likeliest(p, n + 1, more) /\ n + 1 \in 0..5
      BY <3>1, <3>2, <3>3, FamilyIsTried
    <3> QED
      BY <3>1, <3>7, <3>8 DEF FamilyState
  <2>3. ASSUME ChooseFamily PROVE FingerState(page')
    <3>1. PICK p, q, n, b :
            /\ p \in Pages /\ q \in BOOLEAN /\ n \in 0..5 /\ Likeliest(p, n, b)
            /\ page = [pc |-> "families", of |-> p, parsed |-> q, at |-> n + 1,
                       best |-> b, found |-> <<>>]
      BY <2>0, <2>3 DEF ChooseFamily, FamilyState
    <3>2. n = 5
      <4>1. page.at = n + 1 /\ page.at > 5
        BY <2>3, <3>1, NamesDiffer DEF ChooseFamily
      <4> QED
        BY <3>1, <4>1
    <3>3. page' = [pc |-> "kits", of |-> p, parsed |-> q, at |-> 0 + 1, best |-> b, found |-> <<>>]
      <4>1. page' = [page EXCEPT !.pc = "kits", !.at = 1]
        BY <2>3 DEF ChooseFamily
      <4>2. 0 + 1 = 1
        OBVIOUS
      <4> QED
        BY <3>1, <4>1, <4>2
    <3>4. Found(p, q, 0, <<>>) /\ 0 \in 0..6
      <4>1. <<>> \in Seq(Match) /\ DOMAIN <<>> = {} /\ 1..0 = {}
        OBVIOUS
      <4> QED
        BY <4>1 DEF Found
    <3> QED
      BY <3>1, <3>2, <3>3, <3>4 DEF FingerState
  <2>4. ASSUME Fingerprint PROVE FingerState(page')
    <3>1. PICK p, q, n, b, f :
            /\ p \in Pages /\ q \in BOOLEAN /\ n \in 0..6
            /\ Likeliest(p, 5, b) /\ Found(p, q, n, f)
            /\ page = [pc |-> "kits", of |-> p, parsed |-> q, at |-> n + 1,
                       best |-> b, found |-> f]
      BY <2>0, <2>4 DEF Fingerprint, FingerState
    <3>2. page.at = n + 1 /\ page.of = p /\ page.parsed = q /\ page.found = f /\ n \in 0..5
      <4>1. page.at = n + 1 /\ page.at <= 6
        BY <2>4, <3>1, NamesDiffer DEF Fingerprint
      <4> QED
        BY <3>1, <4>1
    <3>3. PICK more : more = IF Hits(p, q, n + 1) = 0 THEN f
                             ELSE Append(f, Entry(p, q, n + 1))
      OBVIOUS
    <3>4. page' = [page EXCEPT !.at = page.at + 1,
                     !.found = IF KitHits(page.at) = 0 THEN page.found
                               ELSE Append(page.found,
                                           [kit |-> KitDb[page.at],
                                            conf |-> KitConfidence(KitHits(page.at))])]
      BY <2>4 DEF Fingerprint
    <3>5. KitHits(page.at) = Hits(p, q, n + 1)
      BY <3>2 DEF KitHits, Hits
    <3>6. (IF KitHits(page.at) = 0 THEN page.found
           ELSE Append(page.found, [kit |-> KitDb[page.at],
                                    conf |-> KitConfidence(KitHits(page.at))])) = more
      BY <3>2, <3>3, <3>5 DEF Entry
    <3>7. page' = [page EXCEPT !.at = page.at + 1, !.found = more]
      BY <3>4, <3>6, Zenon
    <3>8. page' = [pc |-> "kits", of |-> p, parsed |-> q, at |-> (n + 1) + 1,
                   best |-> b, found |-> more]
      BY <3>1, <3>7
    <3>9. Found(p, q, n + 1, more) /\ n + 1 \in 0..6
      <4>1. Found(p, q, n + 1, more)
        BY <3>1, <3>2, <3>3, KitIsTried
      <4>2. n + 1 \in 0..6
        BY <3>2
      <4> QED
        BY <4>1, <4>2
    <3> QED
      BY <3>1, <3>8, <3>9 DEF FingerState
  <2>5. ASSUME Name PROVE NamedState(page')
    <3>1. PICK p, q, n, b, f :
            /\ p \in Pages /\ q \in BOOLEAN /\ n \in 0..6
            /\ Likeliest(p, 5, b) /\ Found(p, q, n, f)
            /\ page = [pc |-> "kits", of |-> p, parsed |-> q, at |-> n + 1,
                       best |-> b, found |-> f]
      BY <2>0, <2>5 DEF Name, FingerState
    <3>2. /\ page.at = n + 1 /\ page.of = p /\ page.parsed = q /\ page.found = f
          /\ page.best = b /\ n = 6
      <4>1. page.at = n + 1 /\ page.at > 6
        BY <2>5, <3>1, NamesDiffer DEF Name
      <4> QED
        BY <3>1, <4>1
    <3>3. PICK m : m = Sorted(f) \o Bundled(p.bundles)
      OBVIOUS
    <3>4. page' = [pc |-> "named", of |-> p, parsed |-> q, best |-> b, matches |-> m,
                   family |-> IF Strong(b) THEN b.name ELSE "none",
                   weights |-> IF Strong(b) THEN Weights[b.name] ELSE <<>>,
                   kit |-> IF m = <<>> THEN "none" ELSE m[1].kit]
      BY <2>5, <3>2, <3>3 DEF Name
    <3>5. Found(p, q, 6, f)
      BY <3>1, <3>2
    <3> QED
      BY <3>1, <3>3, <3>4, <3>5 DEF NamedState
  <2> QED
    BY <1>2, <2>1, <2>2, <2>3, <2>4, <2>5 DEF KitStep, PageOK
<1> QED
  BY <1>1, <1>2

(* A page that has come to its name has the name it should. *)
LEMMA NamedWell ==
    PageOK(page) => KitsAreNamed
<1>1. NoPage.pc # "named"
  BY DEF NoPage
<1>2. FamilyState(page) \/ FingerState(page) => page.pc # "named"
  BY DEF FamilyState, FingerState
<1>3. page.pc # "named" => KitsAreNamed
  BY DEF KitsAreNamed
<1> QED
  BY <1>1, <1>2, <1>3, NamedAsItShould DEF PageOK

(* identify_kits and the families, for any pages whose signatures are counted: a   *)
(* page is weighed and named by the first family with the most signatures, the    *)
(* kit named first is on the page and no kit in its HTML is surer, and a surer     *)
(* bundle is passed over only for a kit with one to three signatures.              *)
THEOREM KitsAlwaysNamed == KitSpec => []KitsAreNamed
  BY NamedWell, KitInvInductive, PTL DEF KitSpec

-----------------------------------------------------------------------------
(* Sums over finite sets: MapThenSumSet takes the elements away one by one *)

Totals(S, w, t) ==
    t = [s \in SUBSET S |-> IF s = {} THEN 0
                            ELSE LET x == CHOOSE x \in s : TRUE IN w[x] + t[s \ {x}]]
SumOf(S, w, n) == \E t : Totals(S, w, t) /\ n = t[S]

(* What passes from the sets with one element less holds of every subset. *)
LEMMA SubsetsAreBuilt ==
    ASSUME NEW S, IsFiniteSet(S), NEW G, {} \in G,
           \A s \in SUBSET S : s # {} /\ (\A x \in s : s \ {x} \in G) => s \in G
    PROVE  \A s \in SUBSET S : s \in G
<1> DEFINE bad == {s \in SUBSET S : s \notin G}
           D == {Cardinality(s) : s \in bad}
<1> SUFFICES ASSUME bad # {} PROVE FALSE
  OBVIOUS
<1>1. \A s \in SUBSET S : IsFiniteSet(s) /\ Cardinality(s) \in Nat
  BY FS_Subset, FS_CardinalityType
<1>2. D \subseteq Nat /\ D # {}
  BY <1>1
<1>3. PICK d \in D : \A k \in D : d <= k
  <2> HIDE DEF D
  <2> QED
    BY <1>2, LeastOf
<1>4. PICK s \in bad : d = Cardinality(s)
  OBVIOUS
<1>5. s # {} /\ s \in SUBSET S /\ s \notin G
  OBVIOUS
<1>6. PICK x \in s : s \ {x} \notin G
  BY <1>5
<1>7. s \ {x} \in bad
  BY <1>5, <1>6
<1>8. Cardinality(s \ {x}) \in D
  BY <1>7
<1>9. Cardinality(s \ {x}) = Cardinality(s) - 1 /\ Cardinality(s) \in Nat
  BY <1>1, <1>5, <1>6, FS_RemoveElement
<1>10. d <= Cardinality(s \ {x})
  BY <1>3, <1>8
<1> QED
  BY <1>4, <1>9, <1>10

(* One element less. *)
LEMMA TotalsStep ==
    ASSUME NEW S, NEW w, NEW t, Totals(S, w, t), NEW s \in SUBSET S
    PROVE  /\ s = {} => t[s] = 0
           /\ s # {} => \E c \in s : /\ c = (CHOOSE x \in s : TRUE)
                                     /\ t[s] = w[c] + t[s \ {c}]
<1> DEFINE f(u) == IF u = {} THEN 0
                   ELSE LET x == CHOOSE x \in u : TRUE IN w[x] + t[u \ {x}]
<1>1. t = [u \in SUBSET S |-> f(u)]
  BY DEF Totals
<1>2. t[s] = f(s)
  <2> HIDE DEF f
  <2> QED
    BY <1>1
<1>3. s # {} => (CHOOSE x \in s : TRUE) \in s
  OBVIOUS
<1> QED
  BY <1>2, <1>3

(* Totals depend on the set and what its elements count for alone. *)
LEMMA TotalsAreLocal ==
    ASSUME NEW S, NEW T, NEW w, NEW v, NEW t, NEW u, Totals(S, w, t), Totals(T, v, u),
           NEW U, IsFiniteSet(U), U \subseteq S, U \subseteq T, \A x \in U : w[x] = v[x]
    PROVE  \A s \in SUBSET U : t[s] = u[s]
<1> DEFINE G == {s \in SUBSET U : t[s] = u[s]}
<1>1. {} \in G
  <2>1. t[{}] = 0
    BY TotalsStep
  <2>2. u[{}] = 0
    BY TotalsStep
  <2> QED
    BY <2>1, <2>2
<1>2. ASSUME NEW s \in SUBSET U, s # {}, \A x \in s : s \ {x} \in G
      PROVE  s \in G
  <2>1. PICK c \in s : c = (CHOOSE x \in s : TRUE) /\ t[s] = w[c] + t[s \ {c}]
    <3>1. s \in SUBSET S
      OBVIOUS
    <3> QED
      BY <1>2, <3>1, TotalsStep
  <2>2. PICK d \in s : d = (CHOOSE x \in s : TRUE) /\ u[s] = v[d] + u[s \ {d}]
    <3>1. s \in SUBSET T
      OBVIOUS
    <3> QED
      BY <1>2, <3>1, TotalsStep
  <2>3. c = d
    BY <2>1, <2>2
  <2>4. t[s \ {c}] = u[s \ {c}]
    BY <1>2
  <2>5. w[c] = v[c]
    OBVIOUS
  <2> QED
    BY <2>1, <2>2, <2>3, <2>4, <2>5
<1>3. \A s \in SUBSET U : s \in G
  <2> HIDE DEF G
  <2> QED
    BY <1>1, <1>2, SubsetsAreBuilt
<1> QED
  BY <1>3

(* There are totals of any finite set. *)
LEMMA TotalsExist ==
    ASSUME NEW S, IsFiniteSet(S), NEW w
    PROVE  \E t : Totals(S, w, t)
<1> DEFINE Has(s) == \E t : Totals(s, w, t)
           G == {s \in SUBSET S : \A r \in SUBSET s : Has(r)}
           whole(r) == (CHOOSE t : Totals(r, w, t))[r]
<1>0. \A r \in SUBSET S : IsFiniteSet(r)
  BY FS_Subset
<1>1. ASSUME NEW s \in SUBSET S, \A r \in SUBSET s : r # s => Has(r)
      PROVE  Has(s)
  <2> DEFINE f == [r \in SUBSET s |->
                     IF r = {} THEN 0
                     ELSE LET x == CHOOSE x \in r : TRUE IN w[x] + whole(r \ {x})]
  <2>1. \A r \in SUBSET s : r # s => Totals(r, w, CHOOSE t : Totals(r, w, t))
    BY <1>1
  <2>2. ASSUME NEW r \in SUBSET s, r # s
        PROVE  whole(r) = f[r]
    <3>1. PICK t : t = (CHOOSE a : Totals(r, w, a))
      OBVIOUS
    <3>2. Totals(r, w, t) /\ whole(r) = t[r] /\ r \in SUBSET r
      BY <2>1, <2>2, <3>1
    <3>3. CASE r = {}
      <4>1. t[r] = 0
        BY <3>2, <3>3, TotalsStep
      <4> QED
        BY <3>2, <3>3, <4>1
    <3>4. CASE r # {}
      <4>1. PICK c \in r : c = (CHOOSE x \in r : TRUE) /\ t[r] = w[c] + t[r \ {c}]
        BY <3>2, <3>4, TotalsStep
      <4>2. r \ {c} \in SUBSET s /\ r \ {c} # s
        BY <2>2
      <4>3. PICK u : u = (CHOOSE a : Totals(r \ {c}, w, a))
        OBVIOUS
      <4>4. Totals(r \ {c}, w, u) /\ whole(r \ {c}) = u[r \ {c}]
        BY <2>1, <4>2, <4>3
      <4>5. t[r \ {c}] = u[r \ {c}]
        <5>1. IsFiniteSet(r \ {c}) /\ r \ {c} \subseteq r /\ r \ {c} \in SUBSET (r \ {c})
          BY <1>0, <4>2
        <5> QED
          BY <3>2, <4>4, <5>1, TotalsAreLocal
      <4>6. f[r] = w[c] + whole(r \ {c})
        <5> HIDE DEF whole
        <5> QED
          BY <3>4, <4>1
      <4> QED
        BY <3>2, <4>1, <4>4, <4>5, <4>6
    <3> QED
      BY <3>3, <3>4
  <2>3. Totals(s, w, f)
    <3> DEFINE g == [r \in SUBSET s |->
                       IF r = {} THEN 0
                       ELSE LET x == CHOOSE x \in r : TRUE IN w[x] + f[r \ {x}]]
    <3>1. \A r \in SUBSET s : f[r] = g[r]
      <4> SUFFICES ASSUME NEW r \in SUBSET s, r # {} PROVE f[r] = g[r]
        OBVIOUS
      <4>1. PICK c : c = CHOOSE x \in r : TRUE
        OBVIOUS
      <4>2. c \in r
        BY <4>1
      <4>3. f[r] = w[c] + whole(r \ {c})
        <5> HIDE DEF whole
        <5> QED
          BY <4>1
      <4>4. g[r] = w[c] + f[r \ {c}]
        <5> HIDE DEF f
        <5> QED
          BY <4>1
      <4>5. whole(r \ {c}) = f[r \ {c}]
        <5> HIDE DEF whole, f
        <5> QED
          BY <2>2, <4>2
      <4> QED
        BY <4>3, <4>4, <4>5
    <3>2. f = g
      <4>1. DOMAIN f = SUBSET s /\ DOMAIN g = SUBSET s
        OBVIOUS
      <4>2. f = [r \in SUBSET s |-> f[r]] /\ g = [r \in SUBSET s |-> g[r]]
        OBVIOUS
      <4> HIDE DEF f, g
      <4> QED
        BY <3>1, <4>2
    <3> HIDE DEF f
    <3> QED
      BY <3>2 DEF Totals
  <2> QED
    BY <2>3
<1> HIDE DEF Has, whole
<1>2. {} \in G
  BY <1>1
<1>3. ASSUME NEW s \in SUBSET S, s # {}, \A x \in s : s \ {x} \in G
      PROVE  s \in G
  <2>1. \A r \in SUBSET s : r # s => Has(r)
    <3> SUFFICES ASSUME NEW r \in SUBSET s, r # s PROVE Has(r)
      OBVIOUS
    <3>1. PICK x \in s : x \notin r
      OBVIOUS
    <3>2. r \in SUBSET (s \ {x}) /\ s \ {x} \in G
      BY <1>3, <3>1
    <3> QED
      BY <3>2
  <2>2. Has(s)
    BY <1>1, <2>1
  <2> QED
    BY <2>1, <2>2
<1>4. \A s \in SUBSET S : s \in G
  <2> HIDE DEF G
  <2> QED
    BY <1>2, <1>3, SubsetsAreBuilt
<1>5. S \in G
  BY <1>4
<1> QED
  BY <1>5 DEF Has

(* Of natural numbers the totals are natural. *)
LEMMA TotalsAreNatural ==
    ASSUME NEW S, IsFiniteSet(S), NEW w, \A x \in S : w[x] \in Nat, NEW t, Totals(S, w, t)
    PROVE  \A s \in SUBSET S : t[s] \in Nat
<1> DEFINE G == {s \in SUBSET S : t[s] \in Nat}
<1>1. {} \in G
  BY TotalsStep
<1>2. ASSUME NEW s \in SUBSET S, s # {}, \A x \in s : s \ {x} \in G
      PROVE  s \in G
  <2>1. PICK c \in s : t[s] = w[c] + t[s \ {c}]
    BY <1>2, TotalsStep
  <2>2. w[c] \in Nat /\ t[s \ {c}] \in Nat
    BY <1>2
  <2> QED
    BY <2>1, <2>2
<1>3. \A s \in SUBSET S : s \in G
  <2> HIDE DEF G
  <2> QED
    BY <1>1, <1>2, SubsetsAreBuilt
<1> QED
  BY <1>3

(* Whichever element is taken away first. *)
LEMMA TotalsTakeAny ==
    ASSUME NEW S, IsFiniteSet(S), NEW w, \A x \in S : w[x] \in Nat, NEW t, Totals(S, w, t)
    PROVE  \A s \in SUBSET S : \A x \in s : t[s] = w[x] + t[s \ {x}]
<1> DEFINE G == {s \in SUBSET S : \A x \in s : t[s] = w[x] + t[s \ {x}]}
<1>0. \A s \in SUBSET S : t[s] \in Nat
  BY TotalsAreNatural
<1>1. {} \in G
  OBVIOUS
<1>2. ASSUME NEW s \in SUBSET S, s # {}, \A x \in s : s \ {x} \in G
      PROVE  s \in G
  <2> SUFFICES ASSUME NEW x \in s PROVE t[s] = w[x] + t[s \ {x}]
    OBVIOUS
  <2>1. PICK c \in s : t[s] = w[c] + t[s \ {c}]
    BY <1>2, TotalsStep
  <2>2. CASE c = x
    BY <2>1, <2>2
  <2>3. CASE c # x
    <3>1. s \ {c} \in G /\ s \ {x} \in G /\ x \in s \ {c} /\ c \in s \ {x}
      BY <1>2, <2>3
    <3>2. t[s \ {c}] = w[x] + t[(s \ {c}) \ {x}]
      BY <3>1
    <3>3. t[s \ {x}] = w[c] + t[(s \ {x}) \ {c}]
      BY <3>1
    <3>4. (s \ {c}) \ {x} = (s \ {x}) \ {c}
      OBVIOUS
    <3>5. PICK a, b, r : a = w[x] /\ b = w[c] /\ r = t[(s \ {c}) \ {x}]
      OBVIOUS
    <3>6. a \in Nat /\ b \in Nat /\ r \in Nat
      BY <1>0, <3>5
    <3>7. t[s] = b + (a + r) /\ t[s \ {x}] = b + r
      BY <2>1, <3>2, <3>3, <3>4, <3>5
    <3> QED
      BY <3>5, <3>6, <3>7
  <2> QED
    BY <2>2, <2>3
<1>3. \A s \in SUBSET S : s \in G
  <2> HIDE DEF G
  <2> QED
    BY <1>1, <1>2, SubsetsAreBuilt
<1> QED
  BY <1>3, Zenon

(* Elements that count for at most so many times another sum at most as many. *)
LEMMA TotalsAreBounded ==
    ASSUME NEW S, IsFiniteSet(S), NEW w, NEW v, \A x \in S : w[x] \in Nat /\ v[x] \in Nat,
           \A x \in S : w[x] <= 1000 * v[x],
           NEW t, NEW u, Totals(S, w, t), Totals(S, v, u)
    PROVE  \A s \in SUBSET S : t[s] <= 1000 * u[s]
<1> DEFINE G == {s \in SUBSET S : t[s] <= 1000 * u[s]}
<1>0. \A s \in SUBSET S : t[s] \in Nat /\ u[s] \in Nat
  BY TotalsAreNatural
<1>1. {} \in G
  <2>1. t[{}] = 0 /\ u[{}] = 0
    BY TotalsStep
  <2> QED
    BY <2>1
<1>2. ASSUME NEW s \in SUBSET S, s # {}, \A x \in s : s \ {x} \in G
      PROVE  s \in G
  <2>1. PICK c \in s : t[s] = w[c] + t[s \ {c}]
    BY <1>2, TotalsStep
  <2>2. u[s] = v[c] + u[s \ {c}]
    BY TotalsTakeAny
  <2>3. t[s \ {c}] <= 1000 * u[s \ {c}]
    BY <1>2
  <2>4. PICK a, b, p, q : a = w[c] /\ b = v[c] /\ p = t[s \ {c}] /\ q = u[s \ {c}]
    OBVIOUS
  <2>5. a \in Nat /\ b \in Nat /\ p \in Nat /\ q \in Nat /\ a <= 1000 * b /\ p <= 1000 * q
    BY <1>0, <2>3, <2>4
  <2>6. t[s] = a + p /\ u[s] = b + q
    BY <2>1, <2>2, <2>4
  <2>7. a + p <= 1000 * (b + q)
    BY <2>5
  <2> QED
    BY <2>6, <2>7
<1>3. \A s \in SUBSET S : s \in G
  <2> HIDE DEF G
  <2> QED
    BY <1>1, <1>2, SubsetsAreBuilt, Zenon
<1> QED
  BY <1>3

(* What MapThenSumSet makes of a set is its total. *)
LEMMA CountIsATotal ==
    ASSUME NEW kinds, IsFiniteSet(kinds), NEW events
    PROVE  SumOf(kinds, events, Count(events, kinds))
<1>1. Totals(kinds, events, CHOOSE t : Totals(kinds, events, t))
  BY TotalsExist
<1>2. Count(events, kinds) = (CHOOSE t : Totals(kinds, events, t))[kinds]
  BY DEF Count, MapThenSumSet, MapThenFoldSet, Totals
<1> QED
  BY <1>1, <1>2 DEF SumOf

(* The same of a sum in which each element counts so many times its score. *)
LEMMA SumIsATotal ==
    ASSUME NEW kinds, IsFiniteSet(kinds), NEW events
    PROVE  SumOf(kinds, [k \in kinds |-> events[k] * k.score], Sum(events, kinds))
<1> DEFINE w == [k \in kinds |-> events[k] * k.score]
           P(t) == t = [s \in SUBSET kinds |->
                          IF s = {} THEN 0
                          ELSE LET x == CHOOSE x \in s : TRUE
                               IN events[x] * x.score + t[s \ {x}]]
<1>1. ASSUME NEW t PROVE P(t) <=> Totals(kinds, w, t)
  <2> DEFINE f(s) == IF s = {} THEN 0
                     ELSE LET x == CHOOSE x \in s : TRUE
                          IN events[x] * x.score + t[s \ {x}]
             g(s) == IF s = {} THEN 0
                     ELSE LET x == CHOOSE x \in s : TRUE IN w[x] + t[s \ {x}]
  <2>1. \A s \in SUBSET kinds : f(s) = g(s)
    <3> SUFFICES ASSUME NEW s \in SUBSET kinds, s # {} PROVE f(s) = g(s)
      OBVIOUS
    <3>1. PICK c : c = CHOOSE x \in s : TRUE
      OBVIOUS
    <3>2. c \in kinds /\ w[c] = events[c] * c.score
      BY <3>1
    <3> HIDE DEF w
    <3> QED
      BY <3>1, <3>2
  <2>2. [s \in SUBSET kinds |-> f(s)] = [s \in SUBSET kinds |-> g(s)]
    <3> HIDE DEF f, g
    <3> QED
      BY <2>1
  <2> HIDE DEF w
  <2> QED
    BY <2>2 DEF Totals
<1>2. Sum(events, kinds) = (CHOOSE t : P(t))[kinds]
  BY DEF Sum, MapThenSumSet, MapThenFoldSet
<1>3. P(CHOOSE t : P(t))
  <2>1. PICK t : Totals(kinds, w, t)
    <3> HIDE DEF w
    <3> QED
      BY TotalsExist
  <2>2. P(t)
    BY <1>1, <2>1
  <2> HIDE DEF P
  <2> QED
    BY <2>2
<1>4. Totals(kinds, w, CHOOSE t : P(t))
  <2>1. PICK u : u = CHOOSE t : P(t)
    OBVIOUS
  <2>2. P(u)
    <3> HIDE DEF P
    <3> QED
      BY <1>3, <2>1
  <2>3. Totals(kinds, w, u)
    <3> HIDE DEF P, w
    <3> QED
      BY <2>2, <1>1
  <2> HIDE DEF P, w
  <2> QED
    BY <2>1, <2>3
<1> HIDE DEF P, w
<1>5. SumOf(kinds, w, Sum(events, kinds))
  BY <1>2, <1>4 DEF SumOf
<1> QED
  BY <1>5 DEF w

(* What the parts weigh, and what they weigh with their values. *)
PartWeights(parts) == [k \in DOMAIN parts |-> parts[k].weight]
PartShares(parts) == [k \in DOMAIN parts |-> parts[k].weight * parts[k].value]

(* A blend is two totals: what the parts weigh, and what they weigh with their values. *)
LEMMA BlendIsTotals ==
    ASSUME NEW parts, IsFiniteSet(DOMAIN parts)
    PROVE  /\ SumOf(DOMAIN parts, PartShares(parts), Blend(parts).num)
           /\ SumOf(DOMAIN parts, PartWeights(parts), Blend(parts).den)
<1> DEFINE S == DOMAIN parts
           w == PartShares(parts)
           v == PartWeights(parts)
           P(t) == t = [s \in SUBSET S |->
                          IF s = {} THEN 0
                          ELSE LET x == CHOOSE x \in s : TRUE
                               IN parts[x].weight * parts[x].value + t[s \ {x}]]
           Q(t) == t = [s \in SUBSET S |->
                          IF s = {} THEN 0
                          ELSE LET x == CHOOSE x \in s : TRUE
                               IN parts[x].weight + t[s \ {x}]]
<1>11. ASSUME NEW t PROVE P(t) <=> Totals(S, w, t)
  <2> DEFINE f(s) == IF s = {} THEN 0
                     ELSE LET x == CHOOSE x \in s : TRUE
                          IN parts[x].weight * parts[x].value + t[s \ {x}]
             g(s) == IF s = {} THEN 0
                     ELSE LET x == CHOOSE x \in s : TRUE IN w[x] + t[s \ {x}]
  <2>1. \A s \in SUBSET S : f(s) = g(s)
    <3> SUFFICES ASSUME NEW s \in SUBSET S, s # {} PROVE f(s) = g(s)
      OBVIOUS
    <3>1. PICK x : x = CHOOSE y \in s : TRUE
      OBVIOUS
    <3>2. x \in S /\ w[x] = parts[x].weight * parts[x].value
      BY <3>1 DEF PartShares, PartWeights
    <3> HIDE DEF w
    <3> QED
      BY <3>1, <3>2
  <2>2. [s \in SUBSET S |-> f(s)] = [s \in SUBSET S |-> g(s)]
    <3> HIDE DEF f, g
    <3> QED
      BY <2>1
  <2> HIDE DEF w
  <2> QED
    BY <2>2 DEF Totals
<1>12. Blend(parts).num = (CHOOSE t : P(t))[S]
  BY DEF Blend, MapThenSumSet, MapThenFoldSet
<1>13. P(CHOOSE t : P(t))
  <2>1. PICK t : Totals(S, w, t)
    <3> HIDE DEF w
    <3> QED
      BY TotalsExist
  <2> HIDE DEF P, w
  <2>2. P(t)
    BY <1>11, <2>1
  <2> QED
    BY <2>2
<1>14. Totals(S, w, CHOOSE t : P(t))
  <2>1. PICK u : u = CHOOSE t : P(t)
    OBVIOUS
  <2> HIDE DEF P, w
  <2>2. P(u)
    BY <1>13, <2>1
  <2>3. Totals(S, w, u)
    BY <2>2, <1>11
  <2> QED
    BY <2>1, <2>3
<1>15. SumOf(S, w, Blend(parts).num)
  <2> HIDE DEF P, w
  <2> QED
    BY <1>12, <1>14 DEF SumOf
<1>21. ASSUME NEW t PROVE Q(t) <=> Totals(S, v, t)
  <2> DEFINE f(s) == IF s = {} THEN 0
                     ELSE LET x == CHOOSE x \in s : TRUE
                          IN parts[x].weight + t[s \ {x}]
             g(s) == IF s = {} THEN 0
                     ELSE LET x == CHOOSE x \in s : TRUE IN v[x] + t[s \ {x}]
  <2>1. \A s \in SUBSET S : f(s) = g(s)
    <3> SUFFICES ASSUME NEW s \in SUBSET S, s # {} PROVE f(s) = g(s)
      OBVIOUS
    <3>1. PICK x : x = CHOOSE y \in s : TRUE
      OBVIOUS
    <3>2. x \in S /\ v[x] = parts[x].weight
      BY <3>1 DEF PartShares, PartWeights
    <3> HIDE DEF v
    <3> QED
      BY <3>1, <3>2
  <2>2. [s \in SUBSET S |-> f(s)] = [s \in SUBSET S |-> g(s)]
    <3> HIDE DEF f, g
    <3> QED
      BY <2>1
  <2> HIDE DEF v
  <2> QED
    BY <2>2 DEF Totals
<1>22. Blend(parts).den = (CHOOSE t : Q(t))[S]
  BY DEF Blend, MapThenSumSet, MapThenFoldSet
<1>23. Q(CHOOSE t : Q(t))
  <2>1. PICK t : Totals(S, v, t)
    <3> HIDE DEF v
    <3> QED
      BY TotalsExist
  <2> HIDE DEF Q, v
  <2>2. Q(t)
    BY <1>21, <2>1
  <2> QED
    BY <2>2
<1>24. Totals(S, v, CHOOSE t : Q(t))
  <2>1. PICK u : u = CHOOSE t : Q(t)
    OBVIOUS
  <2> HIDE DEF Q, v
  <2>2. Q(u)
    BY <1>23, <2>1
  <2>3. Totals(S, v, u)
    BY <2>2, <1>21
  <2> QED
    BY <2>1, <2>3
<1>25. SumOf(S, v, Blend(parts).den)
  <2> HIDE DEF Q, v
  <2> QED
    BY <1>22, <1>24 DEF SumOf
<1> QED
  BY <1>15, <1>25

-----------------------------------------------------------------------------
(* FUSION: a signal adds its weight below and its share above *)

(* A part has a weight and a value of at most a thousand. *)
Sound(parts) ==
    /\ IsFiniteSet(DOMAIN parts)
    /\ \A k \in DOMAIN parts : parts[k].weight \in Nat /\ parts[k].value \in 0..1000

(* A blend of sound parts is a mean of values between nothing and a thousand. *)
LEMMA BlendIsAMean ==
    ASSUME NEW parts, Sound(parts)
    PROVE  /\ Blend(parts).num \in Nat /\ Blend(parts).den \in Nat
           /\ Blend(parts).num <= 1000 * Blend(parts).den
<1> DEFINE S == DOMAIN parts
<1>1. PICK t : Totals(S, PartShares(parts), t) /\ Blend(parts).num = t[S]
  BY BlendIsTotals DEF Sound, SumOf
<1>2. PICK u : Totals(S, PartWeights(parts), u) /\ Blend(parts).den = u[S]
  BY BlendIsTotals DEF Sound, SumOf
<1>3. PICK w, v : w = PartShares(parts) /\ v = PartWeights(parts)
  OBVIOUS
<1>4. \A x \in S : w[x] \in Nat /\ v[x] \in Nat /\ w[x] <= 1000 * v[x]
  <2> SUFFICES ASSUME NEW x \in S PROVE w[x] \in Nat /\ v[x] \in Nat /\ w[x] <= 1000 * v[x]
    OBVIOUS
  <2>1. PICK a, b : a = parts[x].weight /\ b = parts[x].value
    OBVIOUS
  <2>2. a \in Nat /\ b \in 0..1000
    BY <2>1 DEF Sound
  <2>3. a * b \in Nat /\ a * b <= 1000 * a
    <3>1. a * (1000 - b) \in Nat
      BY <2>2
    <3> QED
      BY <2>2, <3>1
  <2>4. w[x] = a * b /\ v[x] = a
    BY <1>3, <2>1 DEF PartShares, PartWeights
  <2> QED
    BY <2>2, <2>3, <2>4
<1>5. IsFiniteSet(S) /\ S \in SUBSET S
  BY DEF Sound
<1>6. t[S] \in Nat /\ u[S] \in Nat
  <2> HIDE DEF S
  <2>1. \A x \in S : w[x] \in Nat
    BY <1>4
  <2>2. \A x \in S : v[x] \in Nat
    BY <1>4
  <2>3. Totals(S, w, t) /\ Totals(S, v, u)
    BY <1>1, <1>2, <1>3
  <2>4. t[S] \in Nat
    BY <1>5, <2>1, <2>3, TotalsAreNatural
  <2>5. u[S] \in Nat
    BY <1>5, <2>2, <2>3, TotalsAreNatural
  <2> QED
    BY <2>4, <2>5
<1>7. t[S] <= 1000 * u[S]
  <2> HIDE DEF S
  <2>1. Totals(S, w, t) /\ Totals(S, v, u)
    BY <1>1, <1>2, <1>3
  <2> QED
    BY <1>4, <1>5, <2>1, TotalsAreBounded
<1> QED
  BY <1>1, <1>2, <1>6, <1>7

(* One part more adds its share above and its weight below. *)
LEMMA BlendTakesOneMore ==
    ASSUME NEW parts, Sound(parts), NEW others, Sound(others), NEW k \in DOMAIN parts,
           DOMAIN others = DOMAIN parts \ {k}, \A x \in DOMAIN others : others[x] = parts[x]
    PROVE  /\ Blend(parts).num = parts[k].weight * parts[k].value + Blend(others).num
           /\ Blend(parts).den = parts[k].weight + Blend(others).den
<1> DEFINE S == DOMAIN parts
           T == DOMAIN others
<1>1. PICK t : Totals(S, PartShares(parts), t) /\ Blend(parts).num = t[S]
  BY BlendIsTotals DEF Sound, SumOf
<1>2. PICK u : Totals(S, PartWeights(parts), u) /\ Blend(parts).den = u[S]
  BY BlendIsTotals DEF Sound, SumOf
<1>3. PICK tt : Totals(T, PartShares(others), tt) /\ Blend(others).num = tt[T]
  BY BlendIsTotals DEF Sound, SumOf
<1>4. PICK uu : Totals(T, PartWeights(others), uu) /\ Blend(others).den = uu[T]
  BY BlendIsTotals DEF Sound, SumOf
<1>5. PICK w, v : w = PartShares(parts) /\ v = PartWeights(parts)
  OBVIOUS
<1>6. PICK ww, vv : ww = PartShares(others) /\ vv = PartWeights(others)
  OBVIOUS
<1>7. \A x \in S : w[x] \in Nat /\ v[x] \in Nat
  <2> SUFFICES ASSUME NEW x \in S PROVE w[x] \in Nat /\ v[x] \in Nat
    OBVIOUS
  <2>1. PICK a, b : a = parts[x].weight /\ b = parts[x].value
    BY SMTT(30)
  <2>2. a \in Nat /\ b \in 0..1000
    BY <2>1 DEF Sound
  <2>3. w[x] = a * b /\ v[x] = a
    BY <1>5, <2>1 DEF PartShares, PartWeights
  <2> QED
    BY <2>2, <2>3
<1>8. \A x \in T : ww[x] = w[x] /\ vv[x] = v[x]
  BY <1>5, <1>6, SMTT(30) DEF PartShares, PartWeights
<1>9. IsFiniteSet(S) /\ IsFiniteSet(T) /\ T \subseteq S /\ T = S \ {k} /\ S \in SUBSET S
  BY DEF Sound
<1>10. w[k] = parts[k].weight * parts[k].value /\ v[k] = parts[k].weight
  BY <1>5 DEF PartShares, PartWeights
<1>11. Totals(S, w, t) /\ Totals(S, v, u) /\ Totals(T, ww, tt) /\ Totals(T, vv, uu)
  BY <1>1, <1>2, <1>3, <1>4, <1>5, <1>6
<1>12. k \in S /\ T \in SUBSET T /\ T \subseteq T
  OBVIOUS
<1> HIDE DEF S, T
<1>13. t[S] = w[k] + t[S \ {k}]
  <2>1. \A x \in S : w[x] \in Nat
    BY <1>7
  <2> QED
    BY <1>9, <1>11, <1>12, <2>1, TotalsTakeAny
<1>14. u[S] = v[k] + u[S \ {k}]
  <2>1. \A x \in S : v[x] \in Nat
    BY <1>7
  <2> QED
    BY <1>9, <1>11, <1>12, <2>1, TotalsTakeAny
<1>15. tt[T] = t[T]
  BY <1>8, <1>9, <1>11, <1>12, TotalsAreLocal
<1>16. uu[T] = u[T]
  BY <1>8, <1>9, <1>11, <1>12, TotalsAreLocal
<1> QED
  BY <1>1, <1>2, <1>3, <1>4, <1>9, <1>10, <1>13, <1>14, <1>15, <1>16

(* The parts of any signals are sound. *)
LEMMA PartsAreSound ==
    ASSUME NEW visual \in Visual, NEW aux, \A k \in DOMAIN aux : aux[k] \in RawAux
    PROVE  Sound(Parts(visual, aux))
<1> DEFINE known == DOMAIN aux \cap DOMAIN AuxWeights
           parts == Parts(visual, aux)
<1>1. DOMAIN AuxWeights = {"social_clone", "app_clone", "listing_nlp", "beacon"}
  BY DEF AuxWeights
<1>2. IsFiniteSet(DOMAIN visual) /\ DOMAIN visual \cap DOMAIN AuxWeights = {}
  BY VisualAssumption
<1>3. IsFiniteSet(known)
  <2>1. IsFiniteSet({"social_clone"} \cup {"app_clone"} \cup {"listing_nlp"} \cup {"beacon"})
    BY FS_Singleton, FS_Union
  <2>2. known \subseteq {"social_clone"} \cup {"app_clone"} \cup {"listing_nlp"} \cup {"beacon"}
    BY <1>1
  <2> QED
    BY <2>1, <2>2, FS_Subset
<1>4. DOMAIN parts = DOMAIN visual \cup known
  BY DEF Parts
<1>5. IsFiniteSet(DOMAIN parts)
  <2> HIDE DEF known, parts
  <2> QED
    BY <1>2, <1>3, <1>4, FS_Union
<1>6. ASSUME NEW k \in DOMAIN parts
      PROVE  parts[k].weight \in Nat /\ parts[k].value \in 0..1000
  <2>1. CASE k \in known
    <3>1. parts[k] = [weight |-> AuxWeights[k], value |-> Bounded(aux[k])]
      BY <1>4, <2>1 DEF Parts
    <3>2. AuxWeights[k] \in Nat
      BY <1>1, <2>1 DEF AuxWeights
    <3>3. PICK x : x = aux[k]
      OBVIOUS
    <3>4. x \in Int
      BY <2>1, <3>3, VisualAssumption, ZenonT(40)
    <3>5. Bounded(x) \in 0..1000
      BY <3>4 DEF Bounded
    <3> QED
      BY <3>1, <3>2, <3>3, <3>5
  <2>2. CASE k \notin known
    <3>1. parts[k] = visual[k] /\ k \in DOMAIN visual
      BY <1>4, <1>6, <2>2 DEF Parts
    <3>2. visual[k] \in [weight : Nat, value : 0..1000]
      BY <3>1, VisualAssumption
    <3> QED
      BY <3>1, <3>2
  <2> QED
    BY <2>1, <2>2
<1> QED
  BY <1>5, <1>6 DEF Sound

(* A composite is a fraction between 0 and 1. *)
LEMMA CompositeIsAMean ==
    ASSUME NEW visual \in Visual, NEW aux, \A k \in DOMAIN aux : aux[k] \in RawAux
    PROVE  LET c == Composite(visual, aux)
               b == Blend(Parts(visual, aux))
           IN /\ c.num \in Nat /\ c.den \in Nat /\ c.num <= 1000 * c.den
              /\ b.num \in Nat /\ b.den \in Nat
              /\ b.den = 0 => b.num = 0 /\ c.num = 0 /\ c.den = 1
              /\ b.den # 0 => c.num = b.num /\ c.den = b.den
<1>1. PICK b : b = Blend(Parts(visual, aux))
  OBVIOUS
<1>2. b.num \in Nat /\ b.den \in Nat /\ b.num <= 1000 * b.den
  BY <1>1, PartsAreSound, BlendIsAMean
<1>3. Composite(visual, aux) = IF b.den = 0 THEN [num |-> 0, den |-> 1] ELSE b
  BY <1>1 DEF Composite
<1>4. PICK n, d : n = b.num /\ d = b.den
  OBVIOUS
<1>5. n \in Nat /\ d \in Nat /\ n <= 1000 * d
  BY <1>2, <1>4
<1>6. d = 0 => n = 0
  BY <1>5
<1> QED
  BY <1>1, <1>3, <1>4, <1>5, <1>6

(* A mean that one more value is added to rises if and only if it is above. *)
LEMMA PullsTowards ==
    ASSUME NEW n \in Nat, NEW d \in Nat, NEW v \in Nat, NEW k \in Nat \ {0}
    PROVE  (n + k * v) * d > n * (d + k) <=> v * d > n
<1>1. PICK p, q, r : p = v * d /\ q = n * d /\ r = n
  OBVIOUS
<1>2. p \in Nat /\ q \in Nat /\ r \in Nat
  BY <1>1
<1>3. (n + k * v) * d = q + k * p
  BY <1>1
<1>4. n * (d + k) = q + k * r
  BY <1>1
<1>5. k * p > k * r <=> p > r
  <2>1. CASE p > r
    <3>1. p - r - 1 \in Nat
      BY <1>2, <2>1
    <3>2. k * (p - r - 1) \in Nat
      BY <3>1
    <3>3. k * p = k * r + k + k * (p - r - 1)
      BY <1>2
    <3>4. k * p \in Nat /\ k * r \in Nat
      BY <1>2
    <3> QED
      BY <2>1, <3>2, <3>3, <3>4
  <2>2. CASE ~(p > r)
    <3>1. r - p \in Nat
      BY <1>2, <2>2
    <3>2. k * (r - p) \in Nat
      BY <3>1
    <3>3. k * r = k * p + k * (r - p)
      BY <1>2
    <3>4. k * p \in Nat /\ k * r \in Nat
      BY <1>2
    <3> QED
      BY <2>2, <3>2, <3>3, <3>4
  <2> QED
    BY <2>1, <2>2
<1> QED
  BY <1>1, <1>2, <1>3, <1>4, <1>5

(* Each auxiliary signal pulls the composite to its own value alone. *)
LEMMA FuseIsFair ==
    ASSUME NEW visual \in Visual, NEW aux, \A k \in DOMAIN aux : aux[k] \in RawAux,
           aux = [k \in DOMAIN aux |-> aux[k]], NEW k \in DOMAIN aux
    PROVE  LET c == Composite(visual, aux)
               without == Composite(visual, Restrict(aux, DOMAIN aux \ {k}))
               rises == c.num * without.den > without.num * c.den
           IN IF k \in DOMAIN AuxWeights
              THEN rises <=> Bounded(aux[k]) * without.den > without.num
              ELSE c = without
<1>1. PICK fewer : fewer = Restrict(aux, DOMAIN aux \ {k})
  OBVIOUS
<1>2. /\ DOMAIN fewer = DOMAIN aux \ {k}
      /\ \A x \in DOMAIN fewer : fewer[x] = aux[x]
  BY <1>1 DEF Restrict
<1>3. \A x \in DOMAIN fewer : fewer[x] \in RawAux
  BY <1>2
<1>4. PICK parts, others : parts = Parts(visual, aux) /\ others = Parts(visual, fewer)
  OBVIOUS
<1>5. /\ parts = [x \in DOMAIN visual \cup (DOMAIN aux \cap DOMAIN AuxWeights) |->
                    IF x \in DOMAIN aux \cap DOMAIN AuxWeights
                    THEN [weight |-> AuxWeights[x], value |-> Bounded(aux[x])]
                    ELSE visual[x]]
      /\ others = [x \in DOMAIN visual \cup (DOMAIN fewer \cap DOMAIN AuxWeights) |->
                    IF x \in DOMAIN fewer \cap DOMAIN AuxWeights
                    THEN [weight |-> AuxWeights[x], value |-> Bounded(fewer[x])]
                    ELSE visual[x]]
  BY <1>4 DEF Parts
<1>6. CASE k \notin DOMAIN AuxWeights
  <2>1. DOMAIN fewer \cap DOMAIN AuxWeights = DOMAIN aux \cap DOMAIN AuxWeights
    BY <1>2, <1>6
  <2>2. \A x \in DOMAIN aux \cap DOMAIN AuxWeights : fewer[x] = aux[x]
    BY <1>2, <1>6
  <2>3. parts = others
    BY <1>5, <2>1, <2>2
  <2>4. Composite(visual, aux) = Composite(visual, fewer)
    BY <1>4, <2>3 DEF Composite
  <2> QED
    BY <1>1, <1>6, <2>4
<1>7. CASE k \in DOMAIN AuxWeights
  <2>1. DOMAIN visual \cap DOMAIN AuxWeights = {}
    BY VisualAssumption
  <2>2. k \in DOMAIN parts /\ parts[k] = [weight |-> AuxWeights[k], value |-> Bounded(aux[k])]
    BY <1>5, <1>7
  <2>3. DOMAIN others = DOMAIN parts \ {k}
    BY <1>2, <1>5, <1>7, <2>1
  <2>4. \A x \in DOMAIN others : others[x] = parts[x]
    BY <1>2, <1>5, <1>7, <2>1
  <2>5. Sound(parts) /\ Sound(others)
    BY <1>3, <1>4, PartsAreSound
  <2>6. /\ Blend(parts).num = parts[k].weight * parts[k].value + Blend(others).num
        /\ Blend(parts).den = parts[k].weight + Blend(others).den
    BY <2>2, <2>3, <2>4, <2>5, BlendTakesOneMore
  <2>7. PICK w, v : w = parts[k].weight /\ v = parts[k].value
    OBVIOUS
  <2>8. w \in {15, 20} /\ v \in Nat /\ v = Bounded(aux[k])
    <3>1. v \in Nat /\ v = Bounded(aux[k])
      BY <2>2, <2>5, <2>7, SMTT(30) DEF Sound
    <3>2. w \in {15, 20}
      BY <1>7, <2>2, <2>7 DEF AuxWeights
    <3> QED
      BY <3>1, <3>2
  <2>9. PICK n, d : n = Blend(others).num /\ d = Blend(others).den
    OBVIOUS
  <2>10. PICK c, without : c = Composite(visual, aux) /\ without = Composite(visual, fewer)
    OBVIOUS
  <2>11. /\ n \in Nat /\ d \in Nat
         /\ d = 0 => n = 0 /\ without.num = 0 /\ without.den = 1
         /\ d # 0 => without.num = n /\ without.den = d
    BY <1>3, <1>4, <2>9, <2>10, CompositeIsAMean
  <2>12. w * v \in Nat /\ w + d # 0
    BY <2>8, <2>11
  <2>13. c.num = n + w * v /\ c.den = d + w
    <3>1. Blend(parts).num = w * v + n /\ Blend(parts).den = w + d
      BY <2>6, <2>7, <2>9
    <3>2. Blend(parts).den # 0 => c.num = Blend(parts).num /\ c.den = Blend(parts).den
      BY <1>4, <2>10, CompositeIsAMean
    <3>3. c.num = w * v + n /\ c.den = w + d
      BY <2>12, <3>1, <3>2
    <3> QED
      BY <2>8, <2>11, <2>12, <3>3
  <2>14. c.num * without.den > without.num * c.den <=> v * without.den > without.num
    <3>1. CASE d = 0
      <4>1. (n + w * v) * 1 > 0 * (d + w) <=> v * 1 > 0
        BY <2>8, <2>11, <3>1
      <4> QED
        BY <2>11, <2>13, <3>1, <4>1
    <3>2. CASE d # 0
      <4>1. (n + w * v) * d > n * (d + w) <=> v * d > n
        BY <2>8, <2>11, PullsTowards
      <4> QED
        BY <2>11, <2>13, <3>2, <4>1
    <3> QED
      BY <3>1, <3>2
  <2> QED
    BY <1>1, <1>7, <2>8, <2>10, <2>14
<1> QED
  BY <1>6, <1>7

(* What a fusion answers. *)
LEMMA FuseAnswersFairly ==
    ASSUME Fuse
    PROVE  FusionPullsFairly'
<1>1. PICK visual \in Visual, keys \in SUBSET {"social_clone", "beacon", "unheard_of"} :
        \E aux \in [keys -> RawAux] :
            analysis' = [kind |-> "fuse", visual |-> visual, aux |-> aux,
                         composite |-> Composite(visual, aux)]
  BY DEF Fuse
<1>2. PICK aux \in [keys -> RawAux] :
            analysis' = [kind |-> "fuse", visual |-> visual, aux |-> aux,
                         composite |-> Composite(visual, aux)]
  BY <1>1
<1>3. /\ DOMAIN aux = keys /\ aux = [k \in DOMAIN aux |-> aux[k]]
      /\ \A k \in DOMAIN aux : aux[k] \in RawAux
  OBVIOUS
<1>4. PICK c : c = Composite(visual, aux)
  OBVIOUS
<1>5. 0 <= c.num /\ c.num <= 1000 * c.den
  BY <1>3, <1>4, CompositeIsAMean
<1>6. \A k \in DOMAIN aux :
         LET without == Composite(visual, Restrict(aux, DOMAIN aux \ {k}))
             rises == c.num * without.den > without.num * c.den
         IN IF k \in DOMAIN AuxWeights
            THEN rises <=> Bounded(aux[k]) * without.den > without.num
            ELSE c = without
  BY <1>3, <1>4, FuseIsFair
<1>7. analysis'.visual = visual /\ analysis'.aux = aux /\ analysis'.composite = c
  BY <1>2, <1>4
<1> QED
  BY <1>5, <1>6, <1>7 DEF FusionPullsFairly

-----------------------------------------------------------------------------
(* TUNING: what Nearest promises, multiplied out *)

(* A factor cancels from both sides. *)
LEMMA Cancels ==
    ASSUME NEW d \in Nat \ {0}, NEW x \in Int, NEW y \in Int, d * x <= d * y
    PROVE  x <= y
<1> SUFFICES ASSUME y < x PROVE FALSE
  OBVIOUS
<1>1. PICK k \in Nat : x = y + 1 + k
  <2>1. x - y - 1 \in Nat
    OBVIOUS
  <2> QED
    BY <2>1
<1>2. d * x = d * y + d + d * k
  BY <1>1
<1>3. d * k \in Nat /\ d * y \in Int
  BY <1>1
<1> QED
  BY <1>2, <1>3

(* The threshold between two means, which are those of a and of b scores. *)
LEMMA MiddleSeparates ==
    ASSUME NEW a \in Nat \ {0}, NEW b \in Nat \ {0}, NEW tp \in Nat, NEW fp \in Nat,
           fp * a < tp * b, NEW r \in Nearest(tp * b + fp * a, 2 * a * b)
    PROVE  r \in Int /\ fp - b <= r * b /\ r * a <= tp + a
<1>1. PICK x, y, p : x = tp * b /\ y = fp * a /\ p = a * b
  OBVIOUS
<1>2. x \in Nat /\ y \in Nat /\ p \in Nat \ {0} /\ y < x
  <2>1. a * b \in Nat /\ a * b # 0
    OBVIOUS
  <2> QED
    BY <1>1, <2>1
<1>3. 2 * a * b = 2 * p
  BY <1>1
<1>4. r \in Nearest(x + y, 2 * p)
  BY <1>1, <1>3
<1>5. /\ r \in {(x + y) \div (2 * p), (x + y) \div (2 * p) + 1}
      /\ 2 * (r * (2 * p) - (x + y)) <= 2 * p
      /\ 2 * ((x + y) - r * (2 * p)) <= 2 * p
  BY <1>4 DEF Nearest
<1>6. r \in Int
  <2>1. PICK n, d : n = x + y /\ d = 2 * p
    OBVIOUS
  <2>2. n \in Int /\ d \in Int /\ d > 0
    BY <1>2, <2>1
  <2>3. n \div d \in Int
    BY <2>2
  <2> QED
    BY <1>5, <2>1, <2>3
<1>7. PICK q : q = r * p
  OBVIOUS
<1>8. q \in Int /\ r * (2 * p) = 2 * q
  BY <1>2, <1>6, <1>7
<1>9. 2 * q <= 2 * x + p /\ 2 * y <= 2 * q + p
  BY <1>2, <1>5, <1>8
<1>10. r * a <= tp + a
  <2>1. b * (2 * (r * a)) <= b * (2 * tp + a)
    <3>1. b * (2 * (r * a)) = 2 * q
      BY <1>1, <1>6, <1>7
    <3>2. b * (2 * tp + a) = 2 * x + p
      BY <1>1
    <3> QED
      BY <1>9, <3>1, <3>2
  <2>2. PICK u, v : u = 2 * (r * a) /\ v = 2 * tp + a
    OBVIOUS
  <2>3. u \in Int /\ v \in Int
    BY <1>6, <2>2
  <2>4. u <= v
    BY <2>1, <2>2, <2>3, Cancels
  <2>5. r * a \in Int
    BY <1>6
  <2> QED
    BY <2>2, <2>4, <2>5
<1>11. fp - b <= r * b
  <2>1. a * (2 * fp) <= a * (2 * (r * b) + b)
    <3>1. a * (2 * (r * b) + b) = 2 * q + p
      BY <1>1, <1>6, <1>7
    <3>2. a * (2 * fp) = 2 * y
      BY <1>1
    <3> QED
      BY <1>9, <3>1, <3>2
  <2>2. PICK u, v : u = 2 * fp /\ v = 2 * (r * b) + b
    OBVIOUS
  <2>3. u \in Int /\ v \in Int
    BY <1>6, <2>2
  <2>4. u <= v
    BY <2>1, <2>2, <2>3, Cancels
  <2>5. r * b \in Int
    BY <1>6
  <2> QED
    BY <2>2, <2>4, <2>5
<1> QED
  BY <1>6, <1>10, <1>11

(* Outcomes are counted and their scores summed in natural numbers. *)
LEMMA CountsAreNatural ==
    ASSUME NEW events \in [Feedback -> 0..MaxFeedback], NEW kinds \in SUBSET Feedback
    PROVE  Count(events, kinds) \in Nat /\ Sum(events, kinds) \in Nat
<1>1. IsFiniteSet(kinds)
  BY FS_Subset, TuningAssumption
<1>2. kinds \in SUBSET kinds
  OBVIOUS
<1>3. \A k \in kinds : events[k] \in Nat /\ k.score \in Nat
  BY TuningAssumption
<1>4. Count(events, kinds) \in Nat
  <2>1. PICK t : Totals(kinds, events, t) /\ Count(events, kinds) = t[kinds]
    BY <1>1, CountIsATotal DEF SumOf
  <2>2. \A k \in kinds : events[k] \in Nat
    BY <1>3
  <2> QED
    BY <1>1, <1>2, <2>1, <2>2, TotalsAreNatural
<1>5. Sum(events, kinds) \in Nat
  <2>1. PICK w : w = [k \in kinds |-> events[k] * k.score]
    OBVIOUS
  <2>2. PICK t : Totals(kinds, w, t) /\ Sum(events, kinds) = t[kinds]
    BY <1>1, <2>1, SumIsATotal DEF SumOf
  <2>3. \A k \in kinds : w[k] \in Nat
    <3> SUFFICES ASSUME NEW k \in kinds PROVE w[k] \in Nat
      OBVIOUS
    <3>1. PICK a, b : a = events[k] /\ b = k.score
      OBVIOUS
    <3>2. a \in Nat /\ b \in Nat
      BY <1>3, <3>1
    <3>3. a * b \in Nat
      BY <3>2
    <3> QED
      BY <2>1, <3>1, <3>3
  <2> QED
    BY <1>1, <1>2, <2>2, <2>3, TotalsAreNatural
<1> QED
  BY <1>4, <1>5

(* One more outcome does not turn an advice round. *)
LEMMA NudgesAreSteady ==
    ASSUME NEW good \in Nat, NEW bad \in Nat
    PROVE  /\ {Nudge(good, bad), Nudge(good + 1, bad)} # {"increase", "decrease"}
           /\ {Nudge(good, bad), Nudge(good, bad + 1)} # {"increase", "decrease"}
<1>1. ASSUME NEW x \in Nat, NEW y \in Nat
      PROVE  /\ Nudge(x, y) = "increase" => x + y >= 5 /\ 100 * x >= 85 * (x + y)
             /\ Nudge(x, y) = "decrease" => x + y >= 5 /\ 2 * x <= x + y
             /\ Nudge(x, y) \in {"increase", "decrease", "hold"}
  BY DEF Nudge
<1>2. good + 1 \in Nat /\ bad + 1 \in Nat
  OBVIOUS
<1>3. PICK n, m, k : n = Nudge(good, bad) /\ m = Nudge(good + 1, bad) /\ k = Nudge(good, bad + 1)
  OBVIOUS
<1>4. ~(n = "increase" /\ m = "decrease")
  BY <1>1, <1>2, <1>3
<1>5. ~(n = "decrease" /\ m = "increase")
  BY <1>1, <1>2, <1>3
<1>6. ~(n = "increase" /\ k = "decrease")
  BY <1>1, <1>2, <1>3
<1>7. ~(n = "decrease" /\ k = "increase")
  BY <1>1, <1>2, <1>3
<1>8. n \in {"increase", "decrease", "hold"} /\ m \in {"increase", "decrease", "hold"}
      /\ k \in {"increase", "decrease", "hold"}
  BY <1>1, <1>2, <1>3
<1>9. {n, m} # {"increase", "decrease"}
  BY <1>4, <1>5, <1>8
<1>10. {n, k} # {"increase", "decrease"}
  BY <1>6, <1>7, <1>8
<1> QED
  BY <1>3, <1>9, <1>10

(* What a tuning advises. *)
LEMMA TuneAdvisesSteadily ==
    ASSUME Tune
    PROVE  AdviceIsSteady'
<1>1. PICK events \in [Feedback -> 0..MaxFeedback] :
        IF Count(events, Feedback) < MinSamples
        THEN analysis' = [kind |-> "tune", events |-> events, held |-> TRUE]
        ELSE \E advice \in Advice(400, 900, events) :
               analysis' = [kind |-> "tune", events |-> events, held |-> FALSE,
                            threshold |-> advice,
                            nudge |-> Nudge(Count(events, Signal("true_positive")),
                                            Count(events, Signal("false_positive")))]
  BY DEF Tune
<1>2. CASE Count(events, Feedback) < MinSamples
  <2>1. analysis'.held = TRUE
    BY <1>1, <1>2
  <2> QED
    BY <2>1 DEF AdviceIsSteady
<1>3. CASE ~(Count(events, Feedback) < MinSamples)
  <2>1. PICK t \in Advice(400, 900, events) :
          /\ analysis'.events = events
          /\ analysis'.threshold = t
    BY <1>1, <1>3
  <2>2. PICK tpN, fpN, tp, fp :
          /\ tpN = Count(events, Scored("true_positive"))
          /\ fpN = Count(events, Scored("false_positive"))
          /\ tp = Sum(events, Scored("true_positive"))
          /\ fp = Sum(events, Scored("false_positive"))
    OBVIOUS
  <2>3. tpN \in Nat /\ fpN \in Nat /\ tp \in Nat /\ fp \in Nat
    <3>1. Scored("true_positive") \in SUBSET Feedback /\ Scored("false_positive") \in SUBSET Feedback
      BY DEF Scored
    <3> QED
      BY <2>2, <3>1, CountsAreNatural
  <2>4. PICK good, bad : /\ good = Count(events, Signal("true_positive"))
                         /\ bad = Count(events, Signal("false_positive"))
    OBVIOUS
  <2>5. good \in Nat /\ bad \in Nat
    <3>1. Signal("true_positive") \in SUBSET Feedback /\ Signal("false_positive") \in SUBSET Feedback
      BY DEF Signal
    <3> QED
      BY <2>4, <3>1, CountsAreNatural
  <2>6. t \in IF tpN = 0 \/ fpN = 0 THEN {Threshold}
              ELSE {IF mid < 400 THEN 400 ELSE IF mid > 900 THEN 900 ELSE mid :
                      mid \in IF fp * tpN < tp * fpN
                              THEN Nearest(tp * fpN + fp * tpN, 2 * tpN * fpN)
                              ELSE {Threshold + 30}}
    BY <2>1, <2>2 DEF Advice
  <2>7. Threshold \in Nat
    BY TuningAssumption
  <2>8. tpN > 0 /\ fpN > 0 /\ fp * tpN < tp * fpN /\ t \notin {400, 900} =>
           fp - fpN <= t * fpN /\ t * tpN <= tp + tpN
    <3> SUFFICES ASSUME tpN > 0 /\ fpN > 0 /\ fp * tpN < tp * fpN /\ t \notin {400, 900}
                 PROVE  fp - fpN <= t * fpN /\ t * tpN <= tp + tpN
      OBVIOUS
    <3>1. PICK mid \in Nearest(tp * fpN + fp * tpN, 2 * tpN * fpN) :
            t = IF mid < 400 THEN 400 ELSE IF mid > 900 THEN 900 ELSE mid
      BY <2>3, <2>6
    <3>2. t \in Nearest(tp * fpN + fp * tpN, 2 * tpN * fpN)
      BY <3>1
    <3>3. tpN \in Nat \ {0} /\ fpN \in Nat \ {0}
      BY <2>3
    <3> QED
      BY <2>3, <3>2, <3>3, MiddleSeparates, ZenonT(40)
  <2>9. (tpN = 0 \/ fpN = 0 \/ fp * tpN >= tp * fpN) /\ Threshold \in 400..900 => t >= Threshold
    <3>1. CASE tpN = 0 \/ fpN = 0
      BY <2>6, <2>7, <3>1
    <3>2. CASE ~(tpN = 0 \/ fpN = 0) /\ fp * tpN >= tp * fpN
      <4>1. PICK x, y : x = fp * tpN /\ y = tp * fpN
        OBVIOUS
      <4>2. x \in Int /\ y \in Int /\ x >= y
        BY <2>3, <3>2, <4>1
      <4>3. ~(x < y)
        BY <4>2
      <4>4. t \in {IF mid < 400 THEN 400 ELSE IF mid > 900 THEN 900 ELSE mid :
                      mid \in {Threshold + 30}}
        BY <2>6, <3>2, <4>1, <4>3
      <4> QED
        BY <2>7, <4>4
    <3> QED
      BY <3>1, <3>2
  <2>10. /\ {Nudge(good, bad), Nudge(good + 1, bad)} # {"increase", "decrease"}
         /\ {Nudge(good, bad), Nudge(good, bad + 1)} # {"increase", "decrease"}
    BY <2>5, NudgesAreSteady
  <2> QED
    BY <2>1, <2>2, <2>4, <2>8, <2>9, <2>10, ZenonT(40) DEF AdviceIsSteady
<1> QED
  BY <1>2, <1>3

-----------------------------------------------------------------------------
(* CLOAKING: who sees the commonest page, and who does not *)

(* A finite set has as many images as elements at most. *)
LEMMA ImagesAreFew ==
    ASSUME NEW S, IsFiniteSet(S), NEW f
    PROVE  LET T == {f[x] : x \in S}
           IN IsFiniteSet(T) /\ Cardinality(T) <= Cardinality(S)
<1> DEFINE T == {f[x] : x \in S}
           g == [x \in S |-> f[x]]
<1>1. g \in Surjection(S, T)
  BY DEF Surjection
<1> HIDE DEF g, T
<1>2. IsFiniteSet(T) /\ Cardinality(T) <= Cardinality(S)
  BY <1>1, FS_Surjection
<1> QED
  BY <1>2 DEF T

(* Sets of one element and less, of two, and of three and more. *)
LEMMA SmallSets ==
    ASSUME NEW S, IsFiniteSet(S)
    PROVE  /\ Cardinality(S) <= 1 <=> \A x, y \in S : x = y
           /\ Cardinality(S) = 2 => /\ \A x, y, z \in S : x = y \/ y = z \/ x = z
                                    /\ S # {}
<1>1. Cardinality(S) \in Nat
  BY FS_CardinalityType
<1>2. ASSUME NEW x \in S
      PROVE  /\ Cardinality(S \ {x}) = Cardinality(S) - 1
             /\ IsFiniteSet(S \ {x})
             /\ Cardinality(S \ {x}) \in Nat
  BY FS_RemoveElement, FS_CardinalityType
<1>3. ASSUME NEW T, IsFiniteSet(T) PROVE Cardinality(T) = 0 <=> T = {}
  BY <1>3, FS_EmptySet
<1>4. Cardinality(S) <= 1 <=> \A x, y \in S : x = y
  <2>1. CASE S = {}
    BY <1>3, <2>1
  <2>2. CASE S # {}
    <3>1. PICK x \in S : TRUE
      BY <2>2
    <3>2. Cardinality(S) <= 1 <=> S \ {x} = {}
      <4>1. PICK T : T = S \ {x}
        OBVIOUS
      <4>2. /\ Cardinality(T) = Cardinality(S) - 1 /\ IsFiniteSet(T)
            /\ Cardinality(T) \in Nat
        BY <1>2, <3>1, <4>1
      <4>3. Cardinality(T) = 0 <=> T = {}
        BY <1>3, <4>2
      <4>4. Cardinality(S) <= 1 <=> Cardinality(T) = 0
        BY <1>1, <4>2
      <4> QED
        BY <4>1, <4>3, <4>4
    <3> QED
      BY <3>1, <3>2
  <2> QED
    BY <2>1, <2>2
<1>5. Cardinality(S) = 2 => \A x, y, z \in S : x = y \/ y = z \/ x = z
  <2> SUFFICES ASSUME Cardinality(S) = 2, NEW x \in S, NEW y \in S, NEW z \in S,
                      x # y, y # z, x # z
               PROVE  FALSE
    OBVIOUS
  <2>1. Cardinality(S \ {x}) = 1 /\ IsFiniteSet(S \ {x}) /\ y \in S \ {x}
    BY <1>2
  <2>2. Cardinality((S \ {x}) \ {y}) = 0 /\ IsFiniteSet((S \ {x}) \ {y})
    BY <2>1, FS_RemoveElement
  <2>3. (S \ {x}) \ {y} = {}
    BY <1>3, <2>2
  <2> QED
    BY <2>3
<1>6. Cardinality(S) = 2 => S # {}
  BY <1>3
<1> QED
  BY <1>4, <1>5, <1>6

(* What a comparison of regions answers. *)
LEMMA ClassifyIsRelative ==
    ASSUME Classify
    PROVE  CloakingIsRelative'
<1>1. PICK seen \in [Region -> Content \cup {"blocked"}] :
        IF Rendered(seen) # Region
        THEN analysis' = [kind |-> "cloak", seen |-> seen,
                          pattern |-> "block_page", minority |-> {}]
        ELSE \E common \in Content :
               /\ \A h \in Content : Cardinality(Views(seen, h))
                                       <= Cardinality(Views(seen, common))
               /\ analysis' = [kind |-> "cloak", seen |-> seen,
                               pattern |-> Pattern(seen, common),
                               minority |-> Region \ Views(seen, common)]
  BY DEF Classify
<1>2. CASE Rendered(seen) # Region
  <2>1. /\ analysis'.seen = seen /\ analysis'.pattern = "block_page"
        /\ analysis'.minority = {}
    BY <1>1, <1>2
  <2>2. \E r \in Region : seen[r] = "blocked"
    BY <1>2 DEF Rendered
  <2> QED
    BY <2>1, <2>2 DEF CloakingIsRelative
<1>3. CASE Rendered(seen) = Region
  <2>1. PICK common \in Content :
               /\ \A h \in Content : Cardinality(Views(seen, h))
                                       <= Cardinality(Views(seen, common))
               /\ analysis' = [kind |-> "cloak", seen |-> seen,
                               pattern |-> Pattern(seen, common),
                               minority |-> Region \ Views(seen, common)]
    BY <1>1, <1>3
  <2> DEFINE V == Views(seen, common)
             D == {seen[r] : r \in Region}
             n == Cardinality(Region)
             minority == Region \ V
             pattern == Pattern(seen, common)
  <2>2. \A r \in Region : seen[r] \in Content /\ seen[r] # "blocked"
    BY <1>3 DEF Rendered
  <2>3. \A h : Views(seen, h) = {r \in Region : seen[r] = h}
    BY <1>3 DEF Views
  <2>4. V = {r \in Region : seen[r] = common}
    BY <2>3
  <2>5. /\ IsFiniteSet(Region) /\ IsFiniteSet(V) /\ IsFiniteSet(D) /\ n \in Nat
        /\ Cardinality(V) \in Nat /\ Cardinality(V) <= n
    <3>1. IsFiniteSet(Region) /\ V \in SUBSET Region
      BY <2>4, RegionAssumption
    <3>2. IsFiniteSet(V) /\ Cardinality(V) <= n
      BY <3>1, FS_Subset
    <3>3. IsFiniteSet(D)
      BY <3>1, ImagesAreFew
    <3> QED
      BY <3>1, <3>2, <3>3, FS_CardinalityType
  <2>6. pattern = IF Cardinality(D) <= 1 THEN "consistent"
                  ELSE IF Cardinality(D) = 2 /\ 10 * Cardinality(V) >= 6 * n
                       THEN "geo_targeted" ELSE "fragmented"
    BY <1>3 DEF Pattern
  <2>7. Cardinality(minority) = n - Cardinality(V) /\ IsFiniteSet(minority)
    <3>1. Region \cap V = V
      BY <2>4
    <3> QED
      BY <2>5, <3>1, FS_Difference
  <2>8. Region # {} => V # {}
    <3> SUFFICES ASSUME Region # {}, V = {} PROVE FALSE
      OBVIOUS
    <3>1. PICK r \in Region : TRUE
      OBVIOUS
    <3>2. r \in Views(seen, seen[r]) /\ Views(seen, seen[r]) \in SUBSET Region
      BY <2>3
    <3>3. PICK W : W = Views(seen, seen[r])
      OBVIOUS
    <3>4. IsFiniteSet(W) /\ W # {}
      BY <2>5, <3>2, <3>3, FS_Subset
    <3>5. Cardinality(W) \in Nat /\ Cardinality(W) # 0
      BY <3>4, FS_EmptySet, FS_CardinalityType
    <3>6. Cardinality(W) <= Cardinality(V)
      BY <2>1, <2>2, <3>3
    <3>7. Cardinality(V) = 0
      BY FS_EmptySet
    <3> QED
      BY <3>5, <3>6, <3>7
  <2>9. Cardinality(D) <= 1 <=> minority = {}
    <3>1. Cardinality(D) <= 1 <=> \A x, y \in D : x = y
      <4> HIDE DEF D
      <4> QED
        BY <2>5, SmallSets
    <3>2. (\A x, y \in D : x = y) => minority = {}
      BY <2>4, <2>8
    <3>3. minority = {} => \A x, y \in D : x = y
      BY <2>4
    <3> HIDE DEF D, minority
    <3> QED
      BY <3>1, <3>2, <3>3
  <2>10. pattern = "geo_targeted" =>
            /\ 0 < Cardinality(minority)
            /\ 5 * Cardinality(minority) <= 2 * Cardinality(Region)
            /\ \A r, s \in minority : seen[r] = seen[s]
    <3> SUFFICES ASSUME pattern = "geo_targeted"
                 PROVE  /\ 0 < Cardinality(minority)
                        /\ 5 * Cardinality(minority) <= 2 * Cardinality(Region)
                        /\ \A r, s \in minority : seen[r] = seen[s]
      OBVIOUS
    <3>1. Cardinality(D) = 2 /\ 10 * Cardinality(V) >= 6 * n /\ ~(Cardinality(D) <= 1)
      <4> HIDE DEF pattern, D, V, n
      <4> QED
        BY <2>6
    <3>2. minority # {}
      BY <2>9, <3>1
    <3>3. Cardinality(minority) \in Nat /\ Cardinality(minority) # 0
      <4> HIDE DEF minority
      <4> QED
        BY <2>7, <3>2, FS_EmptySet, FS_CardinalityType
    <3>4. 5 * Cardinality(minority) <= 2 * n
      <4> HIDE DEF minority, V, n
      <4> QED
        BY <2>5, <2>7, <3>1
    <3>5. \A x, y, z \in D : x = y \/ y = z \/ x = z
      <4> HIDE DEF D
      <4> QED
        BY <2>5, <3>1, SmallSets
    <3>6. \A r, s \in minority : seen[r] = seen[s]
      <4> SUFFICES ASSUME NEW r \in minority, NEW s \in minority PROVE seen[r] = seen[s]
        OBVIOUS
      <4>1. PICK v \in V : TRUE
        BY <2>8
      <4>2. v \in Region /\ seen[v] = common /\ seen[r] # common /\ seen[s] # common
        BY <2>4
      <4>3. seen[v] \in D /\ seen[r] \in D /\ seen[s] \in D
        BY <4>2
      <4> QED
        BY <3>5, <4>2, <4>3
    <3> QED
      BY <3>3, <3>4, <3>6
  <2>11. \A r, s \in Region : r \in minority /\ s \notin minority => seen[r] # seen[s]
    BY <2>4
  <2>12. ~(\E r \in Region : seen[r] = "blocked") /\ pattern # "block_page"
    <3>1. pattern # "block_page"
      <4> HIDE DEF pattern, D, V, n
      <4> QED
        BY <2>6
    <3> QED
      BY <2>2, <3>1
  <2>13. minority = {} <=> pattern \in {"block_page", "consistent"}
    <3> HIDE DEF pattern, D, V, n, minority
    <3> QED
      BY <2>6, <2>9
  <2>14. analysis'.seen = seen /\ analysis'.pattern = pattern /\ analysis'.minority = minority
    BY <2>1
  <2> HIDE DEF minority, pattern
  <2> QED
    BY <2>10, <2>11, <2>12, <2>13, <2>14 DEF CloakingIsRelative
<1> QED
  BY <1>2, <1>3

-----------------------------------------------------------------------------
(* MERGE: votes, winners and what dissent costs *)

(* What may be merged: at least two opinions. *)
Council(members) ==
    /\ IsFiniteSet(DOMAIN members) /\ Cardinality(DOMAIN members) >= 2
    /\ \A m \in DOMAIN members :
          /\ members[m].verdict \in {"benign", "suspicious", "phish"}
          /\ members[m].confidence \in Nat

(* The verdict with the most votes, the severer of two. *)
LEMMA WinnersLead ==
    ASSUME NEW members, Council(members)
    PROVE  LET votes(v) == Cardinality(Votes(members, v))
               win == Winner(members)
           IN /\ win \in Cast(members)
              /\ Most(members) \in Nat /\ votes(win) = Most(members)
              /\ \A v \in DOMAIN Severe :
                   /\ votes(v) <= votes(win)
                   /\ votes(v) = votes(win) => Severe[v] <= Severe[win]
<1> DEFINE S == DOMAIN members
           votes(v) == Cardinality(Votes(members, v))
           n == Cardinality(S)
           D == {votes(v) : v \in Cast(members)}
           E == {n - d : d \in D}
           tied == {v \in Cast(members) : votes(v) = Most(members)}
<1>1. \A v : IsFiniteSet(Votes(members, v)) /\ votes(v) \in Nat /\ votes(v) <= n
  <2> SUFFICES ASSUME NEW v
               PROVE  IsFiniteSet(Votes(members, v)) /\ votes(v) \in Nat /\ votes(v) <= n
    OBVIOUS
  <2>1. Votes(members, v) \in SUBSET S /\ IsFiniteSet(S)
    BY DEF Votes, Council
  <2> QED
    BY <2>1, FS_Subset, FS_CardinalityType
<1>2. n \in Nat /\ n >= 2
  BY FS_CardinalityType DEF Council
<1>3. S # {}
  BY <1>2, FS_EmptySet
<1>4. Cast(members) \subseteq {"benign", "suspicious", "phish"} /\ Cast(members) # {}
  BY <1>3 DEF Cast, Council
<1>5. D \subseteq Nat /\ D # {} /\ \A d \in D : d <= n
  BY <1>1, <1>4
<1>6. E \subseteq Nat /\ E # {}
  <2> HIDE DEF D, n
  <2>1. \A d \in D : n - d \in Nat
    BY <1>2, <1>5
  <2> QED
    BY <1>5, <2>1
<1>7. PICK e \in E : \A k \in E : e <= k
  <2> HIDE DEF E
  <2> QED
    BY <1>6, LeastOf
<1>8. PICK top \in D : e = n - top
  OBVIOUS
<1>9. \A d \in D : top >= d
  <2> SUFFICES ASSUME NEW d \in D PROVE top >= d
    OBVIOUS
  <2>1. n - d \in E
    OBVIOUS
  <2> HIDE DEF D, E, n
  <2> QED
    BY <1>2, <1>5, <1>7, <1>8, <2>1
<1>10. Most(members) \in D /\ \A d \in D : Most(members) >= d
  <2>1. Most(members) = CHOOSE x \in D : \A y \in D : x >= y
    BY DEF Most, Max
  <2> HIDE DEF D
  <2> QED
    BY <1>9, <2>1
<1>11. tied # {} /\ tied \subseteq {"benign", "suspicious", "phish"}
  BY <1>4, <1>10
<1>12. \A v \in {"benign", "suspicious", "phish"} :
          Severe[v] = IF v = "benign" THEN 0 ELSE IF v = "suspicious" THEN 1 ELSE 2
  BY DEF Severe
<1>13. \E v \in tied : \A w \in tied : Severe[w] <= Severe[v]
  <2> HIDE DEF tied
  <2>1. CASE "phish" \in tied
    BY <1>11, <1>12, <2>1
  <2>2. CASE "phish" \notin tied /\ "suspicious" \in tied
    BY <1>11, <1>12, <2>2
  <2>3. CASE "phish" \notin tied /\ "suspicious" \notin tied
    <3>1. "benign" \in tied /\ \A w \in tied : w = "benign"
      BY <1>11, <2>3
    <3>2. Severe["benign"] <= Severe["benign"]
      BY <1>12
    <3> QED
      BY <3>1, <3>2
  <2> QED
    BY <2>1, <2>2, <2>3
<1>14. PICK win : win = Winner(members)
  OBVIOUS
<1>15. win \in tied /\ \A w \in tied : Severe[w] <= Severe[win]
  <2>1. Winner(members) = CHOOSE v \in tied : \A w \in tied : Severe[w] <= Severe[v]
    BY DEF Winner
  <2> HIDE DEF tied
  <2> QED
    BY <1>13, <1>14, <2>1
<1>16. win \in Cast(members) /\ votes(win) = Most(members)
  BY <1>15
<1>17. votes(win) # 0
  <2>1. Votes(members, win) # {}
    BY <1>16 DEF Votes, Cast
  <2> QED
    BY <1>1, <2>1, FS_EmptySet
<1>18. ASSUME NEW v \in DOMAIN Severe
       PROVE  /\ votes(v) <= votes(win)
              /\ votes(v) = votes(win) => Severe[v] <= Severe[win]
  <2>1. CASE v \in Cast(members)
    <3>1. votes(v) \in D
      BY <2>1
    <3>2. votes(v) <= Most(members)
      <4> HIDE DEF D, votes
      <4> QED
        BY <1>5, <1>10, <3>1
    <3>3. votes(v) = Most(members) => v \in tied
      BY <2>1
    <3> QED
      BY <1>15, <1>16, <3>2, <3>3
  <2>2. CASE v \notin Cast(members)
    <3>1. Votes(members, v) = {}
      BY <2>2 DEF Votes, Cast
    <3>2. votes(v) = 0
      BY <3>1, FS_EmptySet
    <3> HIDE DEF votes
    <3> QED
      BY <1>1, <1>17, <3>2
  <2> QED
    BY <2>1, <2>2
<1>19. Most(members) \in Nat
  BY <1>1, <1>16
<1> QED
  BY <1>14, <1>16, <1>18, <1>19

(* The votes of a dissenter are not the winner's. *)
LEMMA DissentLosesVotes ==
    ASSUME NEW members, Council(members)
    PROVE  LET n == Cardinality(DOMAIN members)
           IN /\ Most(members) \in 1..n /\ n \in Nat
              /\ Dissent(members) => Most(members) <= n - 1
              /\ ~Dissent(members) => Votes(members, Winner(members)) = DOMAIN members
                                      /\ \A v : v # Winner(members) => Votes(members, v) = {}
<1> DEFINE S == DOMAIN members
           n == Cardinality(S)
<1>1. PICK win : win = Winner(members)
  OBVIOUS
<1>2. /\ win \in Cast(members) /\ Most(members) \in Nat
      /\ Cardinality(Votes(members, win)) = Most(members)
  BY <1>1, WinnersLead
<1>3. PICK W : W = Votes(members, win)
  OBVIOUS
<1>4. W \in SUBSET S /\ W # {} /\ IsFiniteSet(S)
  BY <1>2, <1>3 DEF Votes, Cast, Council
<1>5. /\ IsFiniteSet(W) /\ Cardinality(W) \in Nat /\ Cardinality(W) # 0
      /\ Cardinality(W) <= n /\ n \in Nat
      /\ Cardinality(W) = n => W = S
  <2>1. IsFiniteSet(W) /\ Cardinality(W) <= n /\ (n = Cardinality(W) => S = W)
    BY <1>4, FS_Subset
  <2> QED
    BY <1>4, <2>1, FS_EmptySet, FS_CardinalityType
<1>6. IsFiniteSet(Cast(members)) /\ Cardinality(Cast(members)) \in Nat
  <2>1. PICK f : f = [m \in S |-> members[m].verdict]
    OBVIOUS
  <2>2. Cast(members) = {f[m] : m \in S}
    BY <2>1 DEF Cast
  <2>3. IsFiniteSet({f[m] : m \in S})
    <3> HIDE DEF S
    <3> QED
      BY <1>4, ImagesAreFew
  <2> QED
    BY <2>2, <2>3, FS_CardinalityType
<1>7. Dissent(members) <=> ~(\A x, y \in Cast(members) : x = y)
  <2>1. Cardinality(Cast(members)) <= 1 <=> \A x, y \in Cast(members) : x = y
    BY <1>6, SmallSets
  <2> QED
    BY <1>6, <2>1 DEF Dissent
<1>8. Dissent(members) => Cardinality(W) # n
  <2> SUFFICES ASSUME W = S PROVE \A x, y \in Cast(members) : x = y
    BY <1>5, <1>7
  <2> QED
    BY <1>3 DEF Votes, Cast
<1>9. ~Dissent(members) => W = S /\ \A v : v # win => Votes(members, v) = {}
  <2> SUFFICES ASSUME \A x, y \in Cast(members) : x = y
               PROVE  W = S /\ \A v : v # win => Votes(members, v) = {}
    BY <1>7
  <2>1. \A m \in S : members[m].verdict = win
    BY <1>2 DEF Cast
  <2> QED
    BY <1>3, <2>1 DEF Votes
<1>10. Cardinality(W) = Most(members)
  BY <1>2, <1>3
<1> HIDE DEF n
<1>11. Most(members) \in 1..n /\ (Dissent(members) => Most(members) <= n - 1)
  BY <1>5, <1>8, <1>10
<1> QED
  BY <1>1, <1>3, <1>5, <1>9, <1>11 DEF n

(* A product by its name, for the provers. *)
IsProduct(p, x, y) == p = x * y
(* A factor whose product with d is near to 5000 times d and k, and what it is. *)
IsFactor(f, p, d, k) ==
    /\ d \in Nat \ {0} /\ k \in 0..d /\ f \in Int /\ p \in Int /\ IsProduct(p, f, d)
    /\ 2 * (p - 5000 * (d + k)) <= d
    /\ 2 * (5000 * (d + k) - p) <= d
IsFair(f, d, k) == f \in 5000..10000 /\ (d <= 2 /\ k # d => f <= 7500)

(* What a product with a factor between a half and one is between. *)
LEMMA ProductsAreBetween ==
    ASSUME NEW a \in Nat, NEW f \in Int, 5000 <= f, f <= 10000, NEW p \in Int, IsProduct(p, a, f)
    PROVE  /\ p \in Nat /\ 5000 * a <= p /\ p <= 10000 * a
           /\ f <= 7500 => p <= 7500 * a
<1>0. p = a * f
  BY DEF IsProduct
<1>1. a * (f - 5000) \in Nat /\ a * (10000 - f) \in Nat
  OBVIOUS
<1>2. a * f = 5000 * a + a * (f - 5000) /\ a * f = 10000 * a - a * (10000 - f)
  OBVIOUS
<1>3. ASSUME f <= 7500 PROVE p <= 7500 * a
  <2>1. a * (7500 - f) \in Nat
    BY <1>3
  <2>2. a * f = 7500 * a - a * (7500 - f)
    OBVIOUS
  <2> QED
    BY <1>0, <2>1, <2>2
<1> QED
  BY <1>0, <1>1, <1>2, <1>3

(* Whether or not the models agree, half of the average is left of it. *)
LEMMA MultipliersAreFair ==
    ASSUME NEW f, NEW p, NEW d, NEW k, IsFactor(f, p, d, k)
    PROVE  IsFair(f, d, k)
<1> USE DEF IsFactor
<1>0. p = f * d
  BY DEF IsProduct
<1>1. p \in Int
  BY <1>0
<1>2. 2 * p <= 20001 * d /\ 9999 * d <= 2 * p
  BY <1>1
<1>3. d * (2 * f) = 2 * p /\ d * 20001 = 20001 * d /\ d * 9999 = 9999 * d
  BY <1>0
<1>4. PICK g : g = 2 * f /\ d \in Nat \ {0}
  OBVIOUS
<1>5. g \in Int /\ d * g <= d * 20001 /\ d * 9999 <= d * g
  BY <1>2, <1>3, <1>4
<1>6. g <= 20001
  BY <1>4, <1>5, Cancels
<1>7. 9999 <= g
  BY <1>4, <1>5, Cancels
<1>8. f \in 5000..10000
  BY <1>4, <1>6, <1>7
<1>9. ASSUME d <= 2, k # d PROVE f <= 7500
  <2>1. CASE d = 1
    <3>1. k = 0 /\ p = f
      BY <1>0, <1>9, <2>1
    <3> QED
      BY <2>1, <3>1
  <2>2. CASE d = 2
    <3>1. k <= 1 /\ p = 2 * f
      BY <1>0, <1>9, <2>2
    <3> QED
      BY <2>2, <3>1
  <2> QED
    BY <1>9, <2>1, <2>2
<1> QED
  BY <1>8, <1>9 DEF IsFair

(* What Nearest says, without its division. *)
LEMMA NearestIsNear ==
    ASSUME NEW x \in Int, NEW d \in Nat \ {0}, NEW r \in Nearest(x, d)
    PROVE  /\ r \in Int
           /\ 2 * (r * d - x) <= d /\ 2 * (x - r * d) <= d
<1>1. x \div d \in Int
  OBVIOUS
<1> QED
  BY <1>1 DEF Nearest

(* What dissent leaves of the confidence. *)
LEMMA DissentCosts ==
    ASSUME NEW members, Council(members), NEW a \in Nat, NEW c \in Discounted(a, members)
    PROVE  /\ c \in Int /\ 2 * c + 1 >= a /\ c <= a
           /\ Dissent(members) /\ Cardinality(DOMAIN members) <= 3 => 4 * c <= 3 * a + 2
<1>1. PICK n, most : n = Cardinality(DOMAIN members) /\ most = Most(members)
  OBVIOUS
<1>2. n \in Nat /\ n >= 2 /\ most \in 1..n /\ (Dissent(members) => most <= n - 1)
  BY <1>1, DissentLosesVotes DEF Council
<1>3. c \in UNION {Nearest(a * multiplier, 10000) :
                     multiplier \in Nearest(5000 * (n + most - 2), n - 1)}
  BY <1>1, <1>2 DEF Discounted
<1>4. PICK g : g \in Nearest(5000 * (n + most - 2), n - 1) /\ c \in Nearest(a * g, 10000)
  BY <1>3
<1>5. PICK d \in Int, k \in Int, x \in Int :
         d = n - 1 /\ k = most - 1 /\ x = 5000 * (n + most - 2)
  BY <1>2
<1>6. d \in Nat \ {0} /\ k \in 0..d /\ x = 5000 * (d + k)
  BY <1>2, <1>5
<1>7. g \in Nearest(x, d)
  BY <1>4, <1>5
<1>8. PICK f \in Int : f = g
  BY <1>6, <1>7, NearestIsNear
<1>9. PICK q \in Int, p \in Int : IsProduct(q, f, d) /\ IsProduct(p, a, f)
  <2>1. f * d \in Int /\ a * f \in Int
    BY <1>6
  <2> QED
    BY <2>1 DEF IsProduct
<1>10. 2 * (q - 5000 * (d + k)) <= d /\ 2 * (5000 * (d + k) - q) <= d
  <2>1. f \in Nearest(x, d)
    BY <1>7, <1>8
  <2>2. 2 * (f * d - x) <= d /\ 2 * (x - f * d) <= d
    BY <1>6, <2>1, NearestIsNear
  <2>3. q = f * d
    BY <1>9 DEF IsProduct
  <2>4. 2 * (q - x) <= d /\ 2 * (x - q) <= d
    BY <2>2, <2>3
  <2> QED
    BY <1>6, <2>4
<1>11. f \in 5000..10000 /\ (d <= 2 /\ k # d => f <= 7500)
  <2>1. IsFactor(f, q, d, k)
    BY <1>6, <1>9, <1>10 DEF IsFactor
  <2>2. IsFair(f, d, k)
    BY <2>1, MultipliersAreFair, Zenon
  <2> QED
    BY <2>2 DEF IsFair
<1>12. 5000 <= f /\ f <= 10000
  BY <1>11
<1>13. /\ p \in Nat /\ 5000 * a <= p /\ p <= 10000 * a
       /\ f <= 7500 => p <= 7500 * a
  BY <1>9, <1>12, ProductsAreBetween
<1>14. c \in Nearest(p, 10000)
  BY <1>4, <1>8, <1>9 DEF IsProduct
<1>15. c \in Int /\ 2 * (c * 10000 - p) <= 10000 /\ 2 * (p - c * 10000) <= 10000
  BY <1>13, <1>14, NearestIsNear
<1>16. 2 * c + 1 >= a /\ c <= a /\ (p <= 7500 * a => 4 * c <= 3 * a + 2)
  BY <1>13, <1>15
<1>17. Dissent(members) /\ n <= 3 => d <= 2 /\ k # d
  BY <1>2, <1>5
<1>18. Dissent(members) /\ n <= 3 => 4 * c <= 3 * a + 2
  BY <1>11, <1>13, <1>16, <1>17
<1> QED
  BY <1>1, <1>15, <1>16, <1>18

(* The average of natural numbers is one. *)
LEMMA AveragesAreNatural ==
    ASSUME NEW members, Council(members), NEW a \in Averages(members)
    PROVE  a \in Nat
<1> DEFINE S == DOMAIN members
           w == [m \in S |-> members[m].confidence]
           P(t) == t = [s \in SUBSET S |->
                          IF s = {} THEN 0
                          ELSE LET x == CHOOSE x \in s : TRUE
                               IN members[x].confidence + t[s \ {x}]]
<1>1. ASSUME NEW t PROVE P(t) <=> Totals(S, w, t)
  <2> DEFINE f(s) == IF s = {} THEN 0
                     ELSE LET x == CHOOSE x \in s : TRUE
                          IN members[x].confidence + t[s \ {x}]
             g(s) == IF s = {} THEN 0
                     ELSE LET x == CHOOSE x \in s : TRUE IN w[x] + t[s \ {x}]
  <2>1. \A s \in SUBSET S : f(s) = g(s)
    <3> SUFFICES ASSUME NEW s \in SUBSET S, s # {} PROVE f(s) = g(s)
      OBVIOUS
    <3>1. PICK x : x = CHOOSE y \in s : TRUE
      OBVIOUS
    <3>2. x \in S /\ w[x] = members[x].confidence
      BY <3>1
    <3> HIDE DEF w
    <3> QED
      BY <3>1, <3>2
  <2>2. [s \in SUBSET S |-> f(s)] = [s \in SUBSET S |-> g(s)]
    <3> HIDE DEF f, g
    <3> QED
      BY <2>1
  <2> HIDE DEF w
  <2> QED
    BY <2>2 DEF Totals
<1>2. Averages(members) = Nearest((CHOOSE t : P(t))[S], Cardinality(S))
  BY DEF Averages, MapThenSumSet, MapThenFoldSet
<1>3. IsFiniteSet(S) /\ \A m \in S : w[m] \in Nat
  BY DEF Council
<1>4. P(CHOOSE t : P(t))
  <2>1. PICK t : Totals(S, w, t)
    <3> HIDE DEF w, S
    <3> QED
      BY <1>3, TotalsExist
  <2> HIDE DEF P, w
  <2>2. P(t)
    BY <1>1, <2>1
  <2> QED
    BY <2>2
<1>5. PICK t : t = CHOOSE u : P(u)
  OBVIOUS
<1>6. Totals(S, w, t)
  <2> HIDE DEF P, w
  <2>1. P(t)
    BY <1>4, <1>5
  <2> QED
    BY <2>1, <1>1
<1>7. t[S] \in Nat
  <2>1. S \in SUBSET S
    OBVIOUS
  <2> HIDE DEF S, w
  <2> QED
    BY <1>3, <1>6, <2>1, TotalsAreNatural
<1>8. PICK x, n : x = t[S] /\ n = Cardinality(S)
  OBVIOUS
<1>9. a \in Nearest(x, n)
  <2> HIDE DEF P, S
  <2> QED
    BY <1>2, <1>5, <1>8
<1>10. x \in Nat /\ n \in Nat /\ n >= 2
  BY <1>7, <1>8, FS_CardinalityType DEF Council
<1>11. x \div n \in Nat
  BY <1>10
<1> QED
  BY <1>9, <1>11 DEF Nearest

(* A model's opinion has a verdict and a confidence, and no small one is alarming. *)
LEMMA OpinionsAreSound ==
    ASSUME NEW composite \in Int, NEW o \in Opinions(composite)
    PROVE  /\ o.verdict \in {"benign", "suspicious", "phish"} /\ o.confidence \in Nat
           /\ composite < 450 => o.verdict # "phish"
<1>1. PICK j \in -3..3 :
        o \in {[verdict |-> v, confidence |-> Bounded(composite + 30 * j)] :
                  v \in Verdict(Bounded(composite + 30 * j), j)}
  BY DEF Opinions
<1>2. PICK x, score : x = composite + 30 * j /\ score = Bounded(x)
  OBVIOUS
<1>3. PICK v \in Verdict(score, j) : o = [verdict |-> v, confidence |-> score]
  BY <1>1, <1>2
<1>4. x \in Int /\ (composite < 450 => x < 540)
  BY <1>2
<1>5. score \in Nat /\ (composite < 450 => score < 780)
  BY <1>2, <1>4 DEF Bounded
<1>6. v \in {"benign", "suspicious", "phish"} /\ (v = "phish" => score >= 780)
  BY DEF Verdict, Severe
<1> QED
  BY <1>3, <1>5, <1>6

(* What the ensemble answers. *)
LEMMA EnsembleIsCautious ==
    ASSUME NEW composite \in Composites, NEW claude, claude = {} \/ \E c \in ClaudeSays : claude = {c},
           Ensemble(composite, claude)
    PROVE  MergeIsCautious'
<1>1. PICK opinions \in [Large -> Opinions(composite)] :
         LET members == [m \in Large \cup {"claude" : c \in claude} |->
                            IF m \in Large THEN opinions[m]
                            ELSE CHOOSE c \in claude : TRUE]
         IN \E average \in Averages(members) :
              \E conf \in Discounted(average, members) :
                analysis' = [kind |-> "merge", path |-> "ensemble",
                             members |-> members, verdict |-> Winner(members),
                             confidence |-> conf, average |-> average,
                             escalate |-> Escalates(members)]
  BY DEF Ensemble
<1>2. PICK members : members = [m \in Large \cup {"claude" : c \in claude} |->
                            IF m \in Large THEN opinions[m]
                            ELSE CHOOSE c \in claude : TRUE]
  OBVIOUS
<1>3. PICK average \in Averages(members) : \E conf \in Discounted(average, members) :
                analysis' = [kind |-> "merge", path |-> "ensemble",
                             members |-> members, verdict |-> Winner(members),
                             confidence |-> conf, average |-> average,
                             escalate |-> Escalates(members)]
  BY <1>1, <1>2
<1>4. PICK conf \in Discounted(average, members) :
                analysis' = [kind |-> "merge", path |-> "ensemble",
                             members |-> members, verdict |-> Winner(members),
                             confidence |-> conf, average |-> average,
                             escalate |-> Escalates(members)]
  BY <1>3
<1>5. Council(members)
  <2>1. DOMAIN members = Large \cup {"claude" : c \in claude}
    BY <1>2
  <2>2. IsFiniteSet({"claude" : c \in claude}) /\ {"claude" : c \in claude} \subseteq {"claude"}
    <3>1. IsFiniteSet({"claude"}) /\ {"claude" : c \in claude} \in SUBSET {"claude"}
      BY FS_Singleton
    <3> QED
      BY <3>1, FS_Subset
  <2>3. IsFiniteSet(DOMAIN members) /\ Large \in SUBSET (DOMAIN members)
    BY <2>1, <2>2, LargeAssumption, FS_Union, ZenonT(40)
  <2>4. Cardinality(DOMAIN members) >= 2
    <3>1. Cardinality(Large) <= Cardinality(DOMAIN members)
      BY <2>3, FS_Subset
    <3>2. Cardinality(Large) \in Nat /\ Cardinality(DOMAIN members) \in Nat
      BY <2>3, LargeAssumption, FS_CardinalityType
    <3> QED
      BY <3>1, <3>2, LargeAssumption
  <2>5. ASSUME NEW m \in DOMAIN members
        PROVE  /\ members[m].verdict \in {"benign", "suspicious", "phish"}
               /\ members[m].confidence \in Nat
    <3>1. CASE m \in Large
      <4>1. members[m] = opinions[m] /\ opinions[m] \in Opinions(composite)
        BY <1>2, <2>1, <3>1
      <4> QED
        BY <4>1, OpinionAssumption, OpinionsAreSound
    <3>2. CASE m \notin Large
      <4>1. PICK c \in ClaudeSays : claude = {c}
        BY <2>1, <3>2
      <4>2. members[m] = c
        BY <1>2, <2>1, <3>2, <4>1
      <4>3. c \in [verdict: {"benign", "suspicious", "phish"}, confidence: 0..1000]
        BY OpinionAssumption
      <4> QED
        BY <4>2, <4>3
    <3> QED
      BY <3>1, <3>2
  <2> QED
    BY <2>3, <2>4, <2>5 DEF Council
<1>6. average \in Nat
  BY <1>5, AveragesAreNatural
<1>7. /\ 2 * conf + 1 >= average /\ conf <= average
      /\ Dissent(members) /\ Cardinality(DOMAIN members) <= 3 => 4 * conf <= 3 * average + 2
  BY <1>5, <1>6, DissentCosts
<1>8. PICK win : win = Winner(members)
  OBVIOUS
<1>9. \A v \in DOMAIN Severe :
         /\ Cardinality(Votes(members, v)) <= Cardinality(Votes(members, win))
         /\ Cardinality(Votes(members, v)) = Cardinality(Votes(members, win)) => Severe[v] <= Severe[win]
  BY <1>5, <1>8, WinnersLead
<1>10. ~Escalates(members) => /\ Votes(members, "phish") = {}
                              /\ Votes(members, win) = DOMAIN members
  BY <1>5, <1>8, DissentLosesVotes DEF Escalates
<1>11. /\ analysis'.members = members /\ analysis'.verdict = win
       /\ analysis'.confidence = conf /\ analysis'.average = average
       /\ analysis'.escalate = Escalates(members)
  BY <1>4, <1>8
<1> QED
  BY <1>7, <1>9, <1>10, <1>11 DEF MergeIsCautious

(* What the small model answers alone. *)
LEMMA CheapPathIsCautious ==
    ASSUME NEW composite \in Composites, CheapPath(composite)
    PROVE  MergeIsCautious'
<1>1. composite \in Int /\ composite < 450
  BY OpinionAssumption DEF CheapPath, Handles
<1>2. PICK o \in Opinions(composite) :
         analysis' = [kind |-> "merge", path |-> "slm",
                      members |-> [m \in {"slm-triage"} |-> o],
                      verdict |-> o.verdict, confidence |-> o.confidence,
                      average |-> o.confidence, escalate |-> FALSE]
  BY DEF CheapPath
<1>3. PICK members : members = [m \in {"slm-triage"} |-> o]
  OBVIOUS
<1>4. PICK win, conf : win = o.verdict /\ conf = o.confidence
  OBVIOUS
<1>5. conf \in Nat /\ win \in {"benign", "suspicious"}
  BY <1>1, <1>2, <1>4, OpinionsAreSound
<1>6. \A v : Votes(members, v) = IF v = win THEN {"slm-triage"} ELSE {}
  BY <1>3, <1>4 DEF Votes
<1>7. \A v : Cardinality(Votes(members, v)) = IF v = win THEN 1 ELSE 0
  BY <1>6, FS_Singleton, FS_EmptySet
<1>8. \A v \in DOMAIN Severe :
         /\ Cardinality(Votes(members, v)) <= Cardinality(Votes(members, win))
         /\ Cardinality(Votes(members, v)) = Cardinality(Votes(members, win)) => Severe[v] <= Severe[win]
  <2> SUFFICES ASSUME NEW v \in DOMAIN Severe
               PROVE  /\ Cardinality(Votes(members, v)) <= Cardinality(Votes(members, win))
                      /\ Cardinality(Votes(members, v)) = Cardinality(Votes(members, win))
                           => Severe[v] <= Severe[win]
    OBVIOUS
  <2>1. CASE v = win
    <3>1. Severe[v] \in Nat
      BY DEF Severe
    <3>2. Severe[v] <= Severe[win]
      BY <2>1, <3>1
    <3>3. Cardinality(Votes(members, v)) = 1 /\ Cardinality(Votes(members, win)) = 1
      BY <1>7, <2>1
    <3> QED
      BY <3>2, <3>3
  <2>2. CASE v # win
    <3>1. Cardinality(Votes(members, v)) = 0 /\ Cardinality(Votes(members, win)) = 1
      BY <1>7, <2>2
    <3> QED
      BY <3>1
  <2> QED
    BY <2>1, <2>2
<1>9. ~Dissent(members)
  <2>1. Cast(members) = {win}
    BY <1>3, <1>4 DEF Cast
  <2> QED
    BY <2>1, FS_Singleton DEF Dissent
<1>10. Votes(members, "phish") = {} /\ Votes(members, win) = DOMAIN members
  BY <1>3, <1>5, <1>6
<1>11. /\ analysis'.members = members /\ analysis'.verdict = win
       /\ analysis'.confidence = conf /\ analysis'.average = conf
  BY <1>2, <1>3, <1>4
<1>12. 2 * conf + 1 >= conf /\ conf <= conf
  BY <1>5
<1> QED
  BY <1>8, <1>9, <1>10, <1>11, <1>12 DEF MergeIsCautious

-----------------------------------------------------------------------------
(* Every analysis answers as it should *)

AnswersAreFair == /\ MergeIsCautious /\ CloakingIsRelative
                  /\ AdviceIsSteady /\ FusionPullsFairly

(* Before any analysis there is nothing to be unfair. *)
LEMMA FairAtFirst == VerdictInit => AnswersAreFair
  BY DEF VerdictInit, NoAnalysis, AnswersAreFair, MergeIsCautious, CloakingIsRelative,
         AdviceIsSteady, FusionPullsFairly

(* One analysis answers one question. *)
LEMMA KindsDiffer ==
    ASSUME VerdictNext
    PROVE  \/ Merge /\ analysis'.kind = "merge"
           \/ Classify /\ analysis'.kind = "cloak"
           \/ Tune /\ analysis'.kind = "tune"
           \/ Fuse /\ analysis'.kind = "fuse"
<1>1. ASSUME Merge PROVE analysis'.kind = "merge"
  <2>1. PICK composite \in Composites :
            \/ CheapPath(composite)
            \/ \E claude \in {{}} \cup {{c} : c \in ClaudeSays} :
                  Ensemble(composite, claude)
    BY <1>1 DEF Merge
  <2>2. CASE CheapPath(composite)
    BY <2>2 DEF CheapPath
  <2>3. ASSUME NEW claude, Ensemble(composite, claude) PROVE analysis'.kind = "merge"
    BY <2>3 DEF Ensemble
  <2> QED
    BY <2>1, <2>2, <2>3
<1>2. ASSUME Classify PROVE analysis'.kind = "cloak"
  BY <1>2 DEF Classify
<1>3. ASSUME Tune PROVE analysis'.kind = "tune"
  BY <1>3 DEF Tune
<1>4. ASSUME Fuse PROVE analysis'.kind = "fuse"
  BY <1>4 DEF Fuse
<1> QED
  BY <1>1, <1>2, <1>3, <1>4 DEF VerdictNext

(* Whatever analysis is made, its answer is fair. *)
LEMMA FairAfterwards ==
    ASSUME VerdictNext
    PROVE  AnswersAreFair'
<1>1. CASE Merge /\ analysis'.kind = "merge"
  <2>1. PICK composite \in Composites :
            \/ CheapPath(composite)
            \/ \E claude \in {{}} \cup {{c} : c \in ClaudeSays} :
                  Ensemble(composite, claude)
    BY <1>1 DEF Merge
  <2>2. ASSUME CheapPath(composite) PROVE MergeIsCautious'
    BY <2>2, CheapPathIsCautious
  <2>3. ASSUME \E claude \in {{}} \cup {{c} : c \in ClaudeSays} : Ensemble(composite, claude)
        PROVE  MergeIsCautious'
    <3>1. PICK claude : (claude = {} \/ \E c \in ClaudeSays : claude = {c})
                        /\ Ensemble(composite, claude)
      BY <2>3
    <3> QED
      BY <3>1, EnsembleIsCautious
  <2>4. MergeIsCautious'
    BY <2>1, <2>2, <2>3
  <2> QED
    BY <1>1, <2>4 DEF AnswersAreFair, CloakingIsRelative, AdviceIsSteady, FusionPullsFairly
<1>2. CASE Classify /\ analysis'.kind = "cloak"
  BY <1>2, ClassifyIsRelative
     DEF AnswersAreFair, MergeIsCautious, AdviceIsSteady, FusionPullsFairly
<1>3. CASE Tune /\ analysis'.kind = "tune"
  BY <1>3, TuneAdvisesSteadily
     DEF AnswersAreFair, MergeIsCautious, CloakingIsRelative, FusionPullsFairly
<1>4. CASE Fuse /\ analysis'.kind = "fuse"
  BY <1>4, FuseAnswersFairly
     DEF AnswersAreFair, MergeIsCautious, CloakingIsRelative, AdviceIsSteady
<1> QED
  BY <1>1, <1>2, <1>3, <1>4, KindsDiffer

(* An answer that rests stays fair. *)
LEMMA FairRests ==
    ASSUME AnswersAreFair, UNCHANGED analysis
    PROVE  AnswersAreFair'
<1>1. MergeIsCautious'
  BY Zenon DEF AnswersAreFair, MergeIsCautious
<1>2. CloakingIsRelative'
  BY Zenon DEF AnswersAreFair, CloakingIsRelative
<1>3. AdviceIsSteady'
  <2>1. AdviceIsSteady
    BY DEF AnswersAreFair
  <2>2. analysis' = analysis
    OBVIOUS
  <2> QED
    BY <2>1, <2>2, SMTT(60) DEF AdviceIsSteady
<1>4. FusionPullsFairly'
  BY Zenon DEF AnswersAreFair, FusionPullsFairly
<1> QED
  BY <1>1, <1>2, <1>3, <1>4 DEF AnswersAreFair

(* The ensemble, the classifier, the tuning advice and the fusion of signals, for  *)
(* any models, opinions, regions, pages, outcomes and signals: no vote for "phish" *)
(* stays with the models, a minority is one relative to what the others see, one   *)
(* more outcome never turns an advice round, and a signal pulls a composite to its *)
(* own value alone.                                                                *)
THEOREM VerdictsAlwaysFair == VerdictSpec => []AnswersAreFair
<1>1. AnswersAreFair /\ [VerdictNext]_analysis => AnswersAreFair'
  BY FairAfterwards, FairRests
<1> QED
  BY <1>1, FairAtFirst, PTL DEF VerdictSpec

-----------------------------------------------------------------------------
(* The parts side by side *)

AnswerInv == CaseInv /\ PageOK(page) /\ AnswersAreFair

(* Each part goes on as it does alone, or rests. *)
LEMMA PartsGoOn ==
    ASSUME [Next]_offlineVars
    PROVE  /\ [CaseNext]_caseVars
           /\ [KitStep]_page
           /\ VerdictNext \/ UNCHANGED analysis
<1>1. CASE Next
  BY <1>1 DEF Next
<1>2. CASE UNCHANGED offlineVars
  BY <1>2 DEF offlineVars
<1> QED
  BY <1>1, <1>2

(* In whichever order the offline parts work, and whatever they are given: the     *)
(* ensemble is cautious, cloaking is relative, advice is steady, fusion pulls      *)
(* fairly, a takedown case is traceable and a page is named by its signatures.     *)
THEOREM AnswersAlwaysMeetReferences == Spec => []AnswersMeetReferences
<1>1. Init => AnswerInv
  BY CaseInvInductive, KitInvInductive, FairAtFirst DEF Init, AnswerInv
<1>2. AnswerInv /\ [Next]_offlineVars => AnswerInv'
  <2> SUFFICES ASSUME AnswerInv, [Next]_offlineVars PROVE AnswerInv'
    OBVIOUS
  <2>1. CaseInv'
    BY PartsGoOn, CaseInvInductive DEF AnswerInv
  <2>2. PageOK(page)'
    BY PartsGoOn, KitInvInductive DEF AnswerInv
  <2>3. AnswersAreFair'
    BY PartsGoOn, FairAfterwards, FairRests DEF AnswerInv
  <2> QED
    BY <2>1, <2>2, <2>3 DEF AnswerInv
<1>3. AnswerInv => AnswersMeetReferences
  BY CaseInvTraces, NamedWell DEF AnswerInv, AnswersAreFair, AnswersMeetReferences
<1> QED
  BY <1>1, <1>2, <1>3, PTL DEF Spec
=============================================================================
