-------------------------- MODULE AuditChainProofs --------------------------
(***************************************************************************)
(* Proofs about AuditChain: seq stays dense and unique under every         *)
(* interleaving, the log is append-only, and the chain stays intact when   *)
(* every writer takes the write lock before it reads.                      *)
(***************************************************************************)
EXTENDS AuditChain, FiniteSetTheorems, WellFoundedInduction,
        SequenceTheorems, TLAPS

(* The maximum of 1..n is n: what NextSeq reads from a dense table. *)
LEMMA MaxOfInterval ==
    ASSUME NEW n \in Nat, n # 0
    PROVE  Max(1..n) = n
<1>1. n \in 1..n /\ \A y \in 1..n : n >= y
  OBVIOUS
<1>2. \A x \in 1..n : (\A y \in 1..n : x >= y) => x = n
  OBVIOUS
<1> QED
  BY <1>1, <1>2 DEF Max

(* max(seq) + 1 over a dense table is one past its number of rows. *)
LEMMA NextSeqOfDense ==
    ASSUME IsFiniteSet(table), SeqIsDense
    PROVE  NextSeq(table) = Cardinality(table) + 1
<1>1. Cardinality(table) \in Nat
  BY FS_CardinalityType
<1>2. CASE table = {}
  BY <1>2, FS_EmptySet DEF NextSeq
<1>3. CASE table # {}
  <2>1. Cardinality(table) # 0
    BY <1>3, FS_EmptySet
  <2>2. Max(Seqs(table)) = Cardinality(table)
    BY <1>1, <2>1, MaxOfInterval DEF SeqIsDense
  <2> QED
    BY <1>3, <2>2 DEF NextSeq
<1> QED
  BY <1>2, <1>3

(* The least-number principle, for sets. *)
LEMMA LeastOf ==
    ASSUME NEW D, D \subseteq Nat, D # {}
    PROVE  \E d \in D : \A k \in D : d <= k
<1>1. PICK d \in D : \A k \in D : <<k, d>> \notin OpToRel(<, Nat)
  BY WFMin, NatLessThanWellFounded, Zenon
<1>2. \A k \in D : ~(k < d)
  BY <1>1, Zenon DEF OpToRel
<1>3. \A k \in D : k \in Nat
  OBVIOUS
<1> QED
  BY <1>2, <1>3

(* A nonempty set of rows with bounded numbers has a newest row. *)
LEMMA NewestExists ==
    ASSUME NEW T \in SUBSET Row, T # {},
           NEW n \in Nat, \A r \in T : r.seq <= n
    PROVE  Newest(T) \in T /\ \A o \in T : o.seq <= Newest(T).seq
<1> DEFINE D == {n - r.seq : r \in T}
<1>1. D \subseteq Nat
  BY DEF Row
<1>2. PICK d \in D : \A k \in D : d <= k
  <2>1. D # {}
    OBVIOUS
  <2> HIDE DEF D
  <2> QED
    BY <1>1, <2>1, LeastOf
<1>3. PICK r \in T : d = n - r.seq
  BY <1>2
<1>4. \A o \in T : o.seq <= r.seq
  <2> TAKE o \in T
  <2>1. n - o.seq \in D
    OBVIOUS
  <2>2. n - r.seq <= n - o.seq
    BY <1>2, <1>3, <2>1
  <2> QED
    BY <2>2 DEF Row
<1> QED
  BY <1>4 DEF Newest

(* Every committed number is at most the number of rows. *)
LEMMA SeqBound ==
    ASSUME IsFiniteSet(table), SeqIsDense
    PROVE  /\ Cardinality(table) \in Nat
           /\ \A r \in table : r.seq \in 1..Cardinality(table)
<1>1. Cardinality(table) \in Nat
  BY FS_CardinalityType
<1>2. \A r \in table : r.seq \in Seqs(table)
  BY DEF Seqs
<1> QED
  BY <1>1, <1>2 DEF SeqIsDense

(* What ReadPrev stores is a hash: legacy rows read as genesis. *)
LEMMA LatestHashType ==
    ASSUME table \subseteq Row, IsFiniteSet(table), SeqIsDense, NEW a \in Account
    PROVE  LatestHash(table, a) \in Hashes
<1> DEFINE mine == RowsOf(table, a)
<1>1. CASE mine = {} \/ Newest(mine).hash = NoHash
  BY <1>1, EmptySeq DEF LatestHash, Hashes, Genesis
<1>2. CASE ~(mine = {} \/ Newest(mine).hash = NoHash)
  <2>1. mine \in SUBSET Row /\ \A r \in mine : r.seq <= Cardinality(table)
    BY SeqBound DEF RowsOf
  <2>2. Newest(mine) \in mine
    BY <1>2, <2>1, SeqBound, NewestExists
  <2>3. Newest(mine).hash \in Hashes
    BY <1>2, <2>1, <2>2 DEF Row
  <2> QED
    BY <1>2, <2>3 DEF LatestHash
<1> QED
  BY <1>1, <1>2

(* A chained row hashes its link: appending stays within the hashes. *)
LEMMA NewRowType ==
    ASSUME TypeOK, NEW p \in Process, req[p].pc \in {"insert", "inserted"},
           Chained(req[p].path) => req[p].prev # NoHash
    PROVE  NewRow(p) \in Row
<1>1. req[p] \in Request
  BY DEF TypeOK, Request, Idle
<1>2. CASE Chained(req[p].path)
  <2>1. req[p].prev \in Seq(Account \X Content)
    BY <1>1, <1>2 DEF Request, Hashes
  <2>2. <<req[p].acct, req[p].body>> \in Account \X Content
    BY <1>1 DEF Request
  <2>3. Hash(req[p].prev, req[p].acct, req[p].body) \in Hashes
    BY <2>1, <2>2, AppendProperties DEF Hash, Hashes
  <2> QED
    BY <1>1, <1>2, <2>3 DEF NewRow, Row, Request
<1>3. CASE ~Chained(req[p].path)
  BY <1>1, <1>3 DEF NewRow, Row, Request
<1> QED
  BY <1>2, <1>3

-----------------------------------------------------------------------------
(* The numbering invariant *)

LEMMA SeqInvInit == Init => SeqInv
<1> SUFFICES ASSUME Init PROVE SeqInv
  OBVIOUS
<1>1. table = {} /\ Cardinality(table) = 0 /\ IsFiniteSet(table)
  BY FS_EmptySet DEF Init
<1>2. SeqIsDense
  BY <1>1 DEF SeqIsDense, Seqs
<1>3. TypeOK
  BY DEF Init, TypeOK
<1> QED
  BY <1>1, <1>2, <1>3
  DEF Init, SeqInv, LinkRead, InsertedHoldsLock, NumberIsFresh, Idle

(* Steps that leave the table alone keep the numbering facts about it. *)
LEMMA SeqIsDenseUnchanged ==
    ASSUME IsFiniteSet(table), SeqIsDense, table' = table
    PROVE  IsFiniteSet(table') /\ SeqIsDense'
BY DEF SeqIsDense, Seqs

LEMMA BeginSeqInv ==
    ASSUME SeqInv, NEW p \in Process, Begin(p)
    PROVE  SeqInv'
<1> USE DEF SeqInv
<1>0. IsFiniteSet(table') /\ SeqIsDense'
  BY SeqIsDenseUnchanged DEF Begin, Open
<1>1. PICK path \in Path, a \in Account, c \in Content :
        /\ req' = [req EXCEPT ![p] =
                     [pc |-> Entry(path), path |-> path, acct |-> a, body |-> c,
                      prev |-> NoHash, seq |-> 0]]
        /\ lock' \in {p, lock} /\ (lock' = p => lock \in {p, NoProcess})
  BY DEF Begin, Open, MayWrite, TypeOK
<1>2. Entry(path) \in {"prev", "seq"} /\ (Chained(path) => Entry(path) = "prev")
  BY DEF Entry
<1>3. TypeOK'
  BY <1>1, <1>2 DEF TypeOK, Request, Begin, Open
<1>4. LinkRead'
  BY <1>1, <1>2 DEF LinkRead, TypeOK
<1>5. InsertedHoldsLock'
  BY <1>1, <1>2, NoProcessAssumption DEF InsertedHoldsLock, TypeOK
<1>6. NumberIsFresh'
  BY <1>1, <1>2 DEF NumberIsFresh, Begin, Open, TypeOK
<1> QED
  BY <1>0, <1>3, <1>4, <1>5, <1>6

LEMMA ReadPrevSeqInv ==
    ASSUME SeqInv, NEW p \in Process, ReadPrev(p)
    PROVE  SeqInv'
<1> USE DEF SeqInv
<1>0. IsFiniteSet(table') /\ SeqIsDense'
  BY SeqIsDenseUnchanged DEF ReadPrev
<1>1. req[p] \in Request
  BY DEF TypeOK, ReadPrev, Idle
<1>2. /\ LatestHash(table, req[p].acct) \in Hashes
      /\ LatestHash(table, req[p].acct) # NoHash
  BY <1>1, LatestHashType, NoHashAssumption DEF TypeOK, Request, Hashes
<1>3. TypeOK'
  BY <1>1, <1>2 DEF TypeOK, Request, ReadPrev
<1>4. LinkRead'
  BY <1>1, <1>2 DEF LinkRead, ReadPrev, TypeOK, Request
<1>5. InsertedHoldsLock' /\ NumberIsFresh'
  BY <1>1 DEF InsertedHoldsLock, NumberIsFresh, ReadPrev, TypeOK, Request
<1> QED
  BY <1>0, <1>3, <1>4, <1>5

LEMMA ReadSeqSeqInv ==
    ASSUME SeqInv, NEW p \in Process, ReadSeq(p)
    PROVE  SeqInv'
<1> USE DEF SeqInv
<1>0. IsFiniteSet(table') /\ SeqIsDense'
  BY SeqIsDenseUnchanged DEF ReadSeq
<1>1. req[p] \in Request
  BY DEF TypeOK, ReadSeq, Idle
<1>2. /\ NextSeq(table) = Cardinality(table) + 1
      /\ Cardinality(table) \in Nat
  BY NextSeqOfDense, SeqBound
<1>3. TypeOK'
  <2>1. NextSeq(table) \in Nat
    BY <1>2
  <2>2. [req[p] EXCEPT !.pc = "insert", !.seq = NextSeq(table)] \in Request
    BY <1>1, <2>1 DEF Request
  <2> QED
    BY <2>2 DEF TypeOK, ReadSeq
<1>4. LinkRead'
  BY <1>1 DEF LinkRead, ReadSeq, TypeOK, Request
<1>5. InsertedHoldsLock'
  BY <1>1 DEF InsertedHoldsLock, ReadSeq, TypeOK, Request
<1>6. NumberIsFresh'
  BY <1>1, <1>2 DEF NumberIsFresh, ReadSeq, TypeOK, Request
<1> QED
  BY <1>0, <1>3, <1>4, <1>5, <1>6

LEMMA InsertSeqInv ==
    ASSUME SeqInv, NEW p \in Process, Insert(p)
    PROVE  SeqInv'
<1> USE DEF SeqInv
<1>0. IsFiniteSet(table') /\ SeqIsDense'
  BY SeqIsDenseUnchanged DEF Insert
<1>1. req[p] \in Request
  BY DEF TypeOK, Insert, Idle
<1>2. TypeOK'
  BY <1>1 DEF TypeOK, Request, Insert
<1>3. LinkRead'
  BY <1>1 DEF LinkRead, Insert, TypeOK, Request
<1>4. \A q \in Process : q # p => req[q].pc # "inserted"
  BY NoProcessAssumption DEF InsertedHoldsLock, Insert, MayWrite
<1>5. InsertedHoldsLock'
  BY <1>1, <1>4 DEF InsertedHoldsLock, Insert, TypeOK, Request
<1>6. NumberIsFresh'
  BY <1>1 DEF NumberIsFresh, Insert, TypeOK, Request
<1> QED
  BY <1>0, <1>2, <1>3, <1>5, <1>6

(* A request that ends without a commit: its lock and its row are dropped. *)
LEMMA DropSeqInv ==
    ASSUME SeqInv, NEW p \in Process, table' = table, Release(p),
           req' = [req EXCEPT ![p] = Idle], collided' \subseteq Path
    PROVE  SeqInv'
<1> USE DEF SeqInv
<1>0. IsFiniteSet(table') /\ SeqIsDense'
  BY SeqIsDenseUnchanged
<1>1. TypeOK'
  BY DEF TypeOK, Release
<1>2. LinkRead'
  BY DEF LinkRead, TypeOK, Idle
<1>3. InsertedHoldsLock'
  BY DEF InsertedHoldsLock, Release, TypeOK, Idle
<1>4. NumberIsFresh'
  BY DEF NumberIsFresh, TypeOK, Idle
<1> QED
  BY <1>0, <1>1, <1>2, <1>3, <1>4

(* A committed row takes exactly the next number: its number is at most one *)
(* past the table's and differs from all of them.                           *)
LEMMA CommitNumber ==
    ASSUME SeqInv, NEW p \in Process, req[p].pc = "inserted"
    PROVE  /\ Cardinality(table) \in Nat
           /\ req[p].seq = Cardinality(table) + 1
<1>1. Cardinality(table) \in Nat /\ Seqs(table) = 1..Cardinality(table)
  BY SeqBound DEF SeqInv, SeqIsDense
<1>2. /\ req[p].seq \in 1..(Cardinality(table) + 1)
      /\ req[p].seq \notin 1..Cardinality(table)
  BY <1>1 DEF SeqInv, NumberIsFresh
<1> QED
  BY <1>1, <1>2

LEMMA CommitDense ==
    ASSUME SeqInv, NEW p \in Process, Commit(p)
    PROVE  /\ IsFiniteSet(table')
           /\ Cardinality(table') = Cardinality(table) + 1
           /\ SeqIsDense'
<1> DEFINE n == Cardinality(table)
           row == NewRow(p)
<1>1. n \in Nat /\ row.seq = n + 1
  BY CommitNumber DEF Commit, NewRow
<1>2. \A r \in table : r.seq \in 1..n
  BY SeqBound DEF SeqInv
<1>3. row \notin table
  BY <1>1, <1>2
<1>4. table' = table \cup {row}
  BY DEF Commit
<1>5. IsFiniteSet(table') /\ Cardinality(table') = n + 1
  BY <1>1, <1>3, <1>4, FS_AddElement DEF SeqInv
<1>6. Seqs(table') = Seqs(table) \cup {n + 1}
  BY <1>1, <1>4 DEF Seqs
<1>7. Seqs(table') = 1..(n + 1)
  BY <1>1, <1>6 DEF SeqInv, SeqIsDense
<1>8. \A r1, r2 \in table' : r1.seq = r2.seq => r1 = r2
  BY <1>1, <1>2, <1>4 DEF SeqInv, SeqIsDense
<1> QED
  BY <1>5, <1>7, <1>8 DEF SeqIsDense

LEMMA CommitSeqInv ==
    ASSUME SeqInv, NEW p \in Process, Commit(p)
    PROVE  SeqInv'
<1> USE DEF SeqInv
<1>1. req[p] \in Request
  BY DEF TypeOK, Commit, Idle
<1>2. NewRow(p) \in Row
  BY NewRowType DEF Commit, LinkRead
<1>3. TypeOK'
  BY <1>2 DEF TypeOK, Commit, Release
<1>4. LinkRead'
  BY DEF LinkRead, Commit, TypeOK, Idle
<1>5. \A q \in Process : q # p => req[q].pc # "inserted"
  BY DEF InsertedHoldsLock, Commit
<1>6. InsertedHoldsLock'
  BY <1>5 DEF InsertedHoldsLock, Commit, TypeOK, Idle
<1>7. NumberIsFresh'
  <2>1. Cardinality(table) \in Nat /\ Cardinality(table') = Cardinality(table) + 1
    BY CommitDense, SeqBound
  <2> QED
    BY <1>5, <2>1 DEF NumberIsFresh, Commit, TypeOK, Idle
<1> QED
  BY <1>3, <1>4, <1>6, <1>7, CommitDense

LEMMA SeqInvNext == SeqInv /\ [Next]_vars => SeqInv'
<1> SUFFICES ASSUME SeqInv, [Next]_vars PROVE SeqInv'
  OBVIOUS
<1>1. ASSUME NEW p \in Process, Step(p) PROVE SeqInv'
  <2>1. CASE Begin(p)
    BY <2>1, BeginSeqInv
  <2>2. CASE ReadPrev(p)
    BY <2>2, ReadPrevSeqInv
  <2>3. CASE ReadSeq(p)
    BY <2>3, ReadSeqSeqInv
  <2>4. CASE Insert(p)
    BY <2>4, InsertSeqInv
  <2>5. CASE Collide(p)
    <3>1. req[p].path \in Path
      BY <2>5 DEF Collide, SeqInv, TypeOK, Request, Idle
    <3> QED
      BY <2>5, <3>1, DropSeqInv DEF Collide, SeqInv, TypeOK
  <2>6. CASE Commit(p)
    BY <2>6, CommitSeqInv
  <2>7. CASE Rollback(p)
    BY <2>7, DropSeqInv DEF Rollback, SeqInv, TypeOK
  <2> QED
    BY <1>1, <2>1, <2>2, <2>3, <2>4, <2>5, <2>6, <2>7 DEF Step
<1>2. CASE UNCHANGED vars
  BY <1>2 DEF vars, SeqInv, TypeOK, LinkRead, SeqIsDense, Seqs,
              InsertedHoldsLock, NumberIsFresh
<1> QED
  BY <1>1, <1>2 DEF Next

(* Every state of the log is well typed. *)
THEOREM TypeCorrect == Spec => []TypeOK
<1>1. SeqInv => TypeOK
  BY DEF SeqInv
<1> QED
  BY <1>1, SeqInvInit, SeqInvNext, PTL DEF Spec

(* For any number of processes, accounts and writer paths the committed      *)
(* rows are numbered 1, 2, 3, ... without a tie or a gap: AuditLogRow.seq    *)
(* really is a total order, although every writer computes it from a read    *)
(* that may be stale by the time it inserts.                                 *)
THEOREM SeqAlwaysDense == Spec => []SeqIsDense
<1>1. SeqInv => SeqIsDense
  BY DEF SeqInv
<1> QED
  BY <1>1, SeqInvInit, SeqInvNext, PTL DEF Spec

(* The log only grows, and only at its end. *)
THEOREM LogIsAppendOnly == Spec => AppendOnly
<1> DEFINE Grows == /\ table \subseteq table'
                    /\ \A r \in table' \ table : \A o \in table : o.seq < r.seq
<1>1. SeqInv /\ [Next]_vars => [Grows]_table
  <2> SUFFICES ASSUME SeqInv, Next, table' # table PROVE Grows
    BY DEF vars
  <2>1. PICK p \in Process : Commit(p)
    BY DEF Next, Step, Begin, Open, ReadPrev, ReadSeq, Insert, Collide, Rollback
  <2>2. NewRow(p).seq = Cardinality(table) + 1 /\ table' = table \cup {NewRow(p)}
    BY <2>1, CommitNumber DEF Commit, NewRow
  <2>3. /\ Cardinality(table) \in Nat
        /\ \A o \in table : o.seq \in 1..Cardinality(table)
    BY SeqBound DEF SeqInv
  <2> QED
    BY <2>2, <2>3
<1> QED
  BY <1>1, SeqInvInit, SeqInvNext, PTL DEF Spec, AppendOnly

-----------------------------------------------------------------------------
(* What one step of a request does to the others and to the lock. *)
LEMMA StepFrame ==
    ASSUME SeqInv, NEW p \in Process, Step(p)
    PROVE  /\ \A q \in Process \ {p} : req'[q] = req[q]
           /\ \A q \in Process \ {p} : lock = q => lock' = q
           /\ ~Begin(p) => /\ Busy(p)
                           /\ req[p] \in Request
<1>1. \A q \in Process \ {p} : req'[q] = req[q]
  BY DEF Step, Begin, Open, ReadPrev, ReadSeq, Insert, Collide, Commit, Rollback,
         SeqInv, TypeOK
<1>2. \A q \in Process \ {p} : lock = q => lock' = q
  BY NoProcessAssumption DEF Step, Begin, Open, ReadPrev, ReadSeq, Insert, Collide,
     Commit, Rollback, MayWrite, Release
<1>3. ~Begin(p) => Busy(p)
  BY DEF Step, ReadPrev, ReadSeq, Insert, Collide, Commit, Rollback, Busy
<1>4. Busy(p) => req[p] \in Request
  BY DEF Busy, SeqInv, TypeOK, Idle
<1> QED
  BY <1>1, <1>2, <1>3, <1>4

(* A step inside a request keeps what the request is about, and its lock. *)
LEMMA InsideFrame ==
    ASSUME SeqInv, NEW p \in Process, ReadPrev(p) \/ ReadSeq(p) \/ Insert(p)
    PROVE  /\ req[p] \in Request
           /\ req'[p].path = req[p].path
           /\ req'[p].acct = req[p].acct
           /\ lock = p => lock' = p
           /\ table' = table /\ collided' = collided
<1>1. req[p] \in Request
  BY DEF ReadPrev, ReadSeq, Insert, SeqInv, TypeOK, Idle
<1> QED
  BY <1>1 DEF ReadPrev, ReadSeq, Insert, SeqInv, TypeOK, Request

(* A request ends with its process idle. *)
LEMMA EndFrame ==
    ASSUME SeqInv, NEW p \in Process, Collide(p) \/ Commit(p) \/ Rollback(p)
    PROVE  req'[p] = Idle
  BY DEF Collide, Commit, Rollback, SeqInv, TypeOK

(* Requests that change a row first hold the lock as long as they last. *)
LEMMA LockFirstStep ==
    ASSUME SeqInv, LockFirst, NEW p \in Process, Step(p)
    PROVE  LockFirst'
<1>1. ASSUME NEW q \in Process, q # p, Busy(q)', ChangesFirst(req'[q].path)
      PROVE  lock' = q
  BY <1>1, StepFrame DEF LockFirst, Busy
<1>2. ASSUME Busy(p)', ChangesFirst(req'[p].path) PROVE lock' = p
  <2>1. CASE Begin(p)
    <3>1. PICK path \in Path, a \in Account, c \in Content : Open(p, path, a, c)
      BY <2>1 DEF Begin
    <3>2. req'[p].path = path
      BY <3>1 DEF Open, SeqInv, TypeOK
    <3> QED
      BY <1>2, <3>1, <3>2 DEF Open
  <2>2. CASE ReadPrev(p) \/ ReadSeq(p) \/ Insert(p)
    <3>1. Busy(p)
      BY <2>2 DEF ReadPrev, ReadSeq, Insert, Busy
    <3> QED
      BY <1>2, <2>2, <3>1, InsideFrame DEF LockFirst
  <2>3. CASE Collide(p) \/ Commit(p) \/ Rollback(p)
    BY <1>2, <2>3, EndFrame DEF Busy, Idle
  <2> QED
    BY <2>1, <2>2, <2>3 DEF Step
<1> QED
  BY <1>1, <1>2 DEF LockFirst, Busy

(* The maximum such a request read stays the maximum: only the holder of the *)
(* lock commits.                                                             *)
LEMMA SeqFreshStep ==
    ASSUME FirstInv, NEW p \in Process, Step(p)
    PROVE  SeqIsFresh'
<1> USE DEF FirstInv
<1>1. CASE Commit(p)
  <2> SUFFICES ASSUME NEW q \in Process, req'[q].pc = "insert",
                      ChangesFirst(req'[q].path)
               PROVE  FALSE
    BY DEF SeqIsFresh
  <2>1. q # p
    BY <1>1, EndFrame DEF Idle
  <2>2. req'[q] = req[q]
    BY <2>1, StepFrame
  <2>3. lock = q /\ lock = p
    BY <1>1, <2>2 DEF LockFirst, Busy, Commit, SeqInv, InsertedHoldsLock
  <2> QED
    BY <2>1, <2>3
<1>2. CASE ~Commit(p)
  <2>1. table' = table
    BY <1>2 DEF Step, Begin, Open, ReadPrev, ReadSeq, Insert, Collide, Rollback
  <2> SUFFICES ASSUME NEW q \in Process, req'[q].pc = "insert",
                      ChangesFirst(req'[q].path)
               PROVE  req'[q].seq = NextSeq(table)
    BY <2>1 DEF SeqIsFresh, NextSeq
  <2>2. CASE q # p
    BY <2>2, StepFrame DEF SeqIsFresh
  <2>3. CASE q = p
    <3>1. CASE Begin(p)
      BY <2>3, <3>1 DEF Begin, Open, Entry, SeqInv, TypeOK
    <3>2. CASE ReadPrev(p) \/ Insert(p)
      <4>1. req[p] \in Request
        BY <3>2, InsideFrame
      <4> QED
        BY <2>3, <3>2, <4>1 DEF ReadPrev, Insert, SeqInv, TypeOK, Request
    <3>3. CASE ReadSeq(p)
      <4>1. req[p] \in Request
        BY <3>3, InsideFrame
      <4> QED
        BY <2>3, <3>3, <4>1 DEF ReadSeq, SeqInv, TypeOK, Request
    <3>4. CASE Collide(p) \/ Rollback(p)
      BY <2>3, <3>4, EndFrame DEF Idle
    <3> QED
      BY <1>2, <3>1, <3>2, <3>3, <3>4 DEF Step
  <2> QED
    BY <2>2, <2>3
<1> QED
  BY <1>1, <1>2

(* A number one past the committed rows is free, so nothing collides with it. *)
LEMMA FirstStep ==
    ASSUME FirstInv, [Next]_vars
    PROVE  FirstInv'
<1> USE DEF FirstInv
<1>1. SeqInv'
  BY SeqInvNext
<1>2. ASSUME NEW p \in Process, Step(p)
      PROVE  LockFirst' /\ SeqIsFresh' /\ MutationsNeverCollide'
  <2>1. LockFirst' /\ SeqIsFresh'
    BY <1>2, LockFirstStep, SeqFreshStep
  <2>2. CASE Collide(p)
    <3>1. req[p].path \notin {"decision", "mutation"}
      <4> SUFFICES ASSUME ChangesFirst(req[p].path) PROVE FALSE
        BY DEF ChangesFirst
      <4>1. req[p].seq = Cardinality(table) + 1
        BY <2>2, NextSeqOfDense DEF Collide, SeqIsFresh, SeqInv
      <4>2. req[p].seq \in 1..Cardinality(table) /\ Cardinality(table) \in Nat
        BY <2>2, SeqBound DEF Collide, SeqInv, SeqIsDense
      <4> QED
        BY <4>1, <4>2
    <3> QED
      BY <2>1, <2>2, <3>1 DEF Collide, MutationsNeverCollide
  <2>3. CASE ~Collide(p)
    <3>1. collided' = collided
      BY <1>2, <2>3 DEF Step, Begin, Open, ReadPrev, ReadSeq, Insert, Commit, Rollback
    <3> QED
      BY <2>1, <3>1 DEF MutationsNeverCollide
  <2> QED
    BY <2>2, <2>3
<1>3. CASE UNCHANGED vars
  <2>1. SeqIsFresh'
    BY <1>3 DEF vars, SeqIsFresh, NextSeq
  <2> QED
    BY <1>1, <1>3, <2>1 DEF vars, LockFirst, Busy, MutationsNeverCollide
<1> QED
  BY <1>1, <1>2, <1>3 DEF Next

(* The invariant holds of the empty log. *)
LEMMA FirstInit == Init => FirstInv
  BY SeqInvInit DEF Init, FirstInv, LockFirst, Busy, Idle, SeqIsFresh,
     MutationsNeverCollide

(* A review decision, like any mutation that audits after its own UPDATE, is *)
(* never rolled back by the race for the next seq.                           *)
THEOREM DecisionsAreNotLost == Spec => []MutationsNeverCollide
<1>1. FirstInv => MutationsNeverCollide
  BY DEF FirstInv
<1> QED
  BY <1>1, FirstInit, FirstStep, PTL DEF Spec

-----------------------------------------------------------------------------
(* A request of a serial account is chained, and locks first or is alone. *)
LEMMA SerialRequest ==
    ASSUME SeqInv, Routed, NEW p \in Process, Busy(p), Serial(req[p].acct)
    PROVE  Chained(req[p].path) /\ (ChangesFirst(req[p].path) \/ Alone)
<1>1. req[p] \in Request /\ <<req[p].acct, req[p].path>> \in Routes
  BY DEF SeqInv, TypeOK, Busy, Idle, Routed
<1>2. req[p].path = "decision" \/ (req[p].path = "middleware" /\ Alone)
  BY <1>1 DEF Serial, Request
<1> QED
  BY <1>2 DEF Chained, ChangesFirst

(* Requests stay on their routes. *)
LEMMA RoutedStep ==
    ASSUME SeqInv, Routed, NEW p \in Process, Step(p)
    PROVE  Routed'
<1> SUFFICES ASSUME NEW q \in Process, Busy(q)'
             PROVE  <<req'[q].acct, req'[q].path>> \in Routes
  BY DEF Routed
<1>1. CASE q # p
  BY <1>1, StepFrame DEF Routed, Busy
<1>2. CASE q = p
  <2>1. CASE Begin(p)
    <3>1. PICK path \in Path, a \in Account, c \in Content : Open(p, path, a, c)
      BY <2>1 DEF Begin
    <3>2. req'[p].path = path /\ req'[p].acct = a
      BY <3>1 DEF Open, SeqInv, TypeOK
    <3> QED
      BY <1>2, <3>1, <3>2 DEF Open
  <2>2. CASE ReadPrev(p) \/ ReadSeq(p) \/ Insert(p)
    <3>1. Busy(p)
      BY <2>2 DEF ReadPrev, ReadSeq, Insert, Busy
    <3> QED
      BY <1>2, <2>2, <3>1, InsideFrame DEF Routed
  <2>3. CASE Collide(p) \/ Commit(p) \/ Rollback(p)
    BY <1>2, <2>3, EndFrame DEF Busy, Idle
  <2> QED
    BY <2>1, <2>2, <2>3 DEF Step
<1> QED
  BY <1>1, <1>2

(* Nobody commits while a request of a serial account holds a link. *)
LEMMA LinkFreshStep ==
    ASSUME ChainInv, NEW p \in Process, Step(p)
    PROVE  LinkIsFresh'
<1> USE DEF ChainInv, FirstInv
<1>1. CASE Commit(p)
  <2> SUFFICES ASSUME NEW q \in Process, Serial(req'[q].acct),
                      req'[q].pc \in {"seq", "insert", "inserted"}
               PROVE  FALSE
    BY DEF LinkIsFresh
  <2>1. q # p
    BY <1>1, EndFrame DEF Idle
  <2>2. req'[q] = req[q] /\ Busy(q)
    BY <2>1, StepFrame DEF Busy
  <2>3. ChangesFirst(req[q].path) \/ Alone
    BY <2>2, SerialRequest
  <2>4. lock = p
    BY <1>1 DEF Commit, SeqInv, InsertedHoldsLock
  <2> QED
    BY <2>1, <2>2, <2>3, <2>4 DEF LockFirst, Alone
<1>2. CASE ~Commit(p)
  <2>1. table' = table
    BY <1>2 DEF Step, Begin, Open, ReadPrev, ReadSeq, Insert, Collide, Rollback
  <2> SUFFICES ASSUME NEW q \in Process, Serial(req'[q].acct),
                      req'[q].pc \in {"seq", "insert", "inserted"}
               PROVE  req'[q].prev = LatestHash(table, req'[q].acct)
    BY <2>1 DEF LinkIsFresh
  <2>2. CASE q # p
    BY <2>2, StepFrame DEF LinkIsFresh
  <2>3. CASE q = p
    <3>1. CASE Begin(p)
      <4>1. PICK path \in Path, a \in Account, c \in Content : Open(p, path, a, c)
        BY <3>1 DEF Begin
      <4>2. /\ req'[p].pc = Entry(path)
            /\ req'[p].acct = a
            /\ <<a, path>> \in Routes
        BY <4>1 DEF Open, SeqInv, TypeOK
      <4>3. Chained(path)
        BY <2>3, <4>2 DEF Serial, Chained
      <4> QED
        BY <2>3, <4>2, <4>3 DEF Entry
    <3>2. CASE ReadPrev(p)
      <4>1. req[p] \in Request
        BY <3>2, InsideFrame
      <4> QED
        BY <2>3, <3>2, <4>1 DEF ReadPrev, SeqInv, TypeOK, Request
    <3>3. CASE ReadSeq(p) \/ Insert(p)
      <4>1. /\ req[p] \in Request
            /\ req[p].pc \in {"seq", "insert"}
            /\ req'[p].prev = req[p].prev
            /\ req'[p].acct = req[p].acct
        BY <3>3, InsideFrame DEF ReadSeq, Insert, SeqInv, TypeOK, Request
      <4> QED
        BY <2>3, <4>1 DEF LinkIsFresh
    <3>4. CASE Collide(p) \/ Rollback(p)
      BY <2>3, <3>4, EndFrame DEF Idle
    <3> QED
      BY <1>2, <3>1, <3>2, <3>3, <3>4 DEF Step
  <2> QED
    BY <2>2, <2>3
<1> QED
  BY <1>1, <1>2

(* In an intact chain the newest row has a hash, so the link is its hash. *)
LEMMA LatestOfIntactChain ==
    ASSUME SeqInv, NEW a \in Account, ChainValid(table, a), RowsOf(table, a) # {}
    PROVE  LatestHash(table, a) = Newest(RowsOf(table, a)).hash
<1> DEFINE mine == RowsOf(table, a)
           last == Newest(mine)
<1>1. mine \in SUBSET Row /\ \A r \in mine : r.seq <= Cardinality(table)
  BY SeqBound DEF RowsOf, SeqInv, TypeOK
<1>2. last \in mine
  BY <1>1, SeqBound, NewestExists DEF SeqInv
<1>3. RowChecks(mine, last) /\ last \in Row
  BY <1>1, <1>2 DEF ChainValid
<1>4. last.hash \in Hashes
  <2>1. last.prev \in Seq(Account \X Content)
    BY <1>3 DEF RowChecks, Row, Hashes
  <2>2. <<last.acct, last.body>> \in Account \X Content
    BY <1>3 DEF Row
  <2> QED
    BY <1>3, <2>1, <2>2, AppendProperties DEF RowChecks, Hash, Hashes
<1>5. last.hash # NoHash
  BY <1>4, NoHashAssumption DEF Hashes
<1> QED
  BY <1>5 DEF LatestHash

(* The row a request of a serial account commits extends an intact chain. *)
LEMMA CommitChainIntact ==
    ASSUME ChainInv, NEW p \in Process, Commit(p)
    PROVE  ChainIntact'
<1> DEFINE row == NewRow(p)
<1> USE DEF FirstInv
<1> SUFFICES ASSUME NEW a \in Account, Serial(a) PROVE ChainValid(table', a)
  BY DEF ChainIntact
<1> DEFINE mine == RowsOf(table, a)
<1>1. table' = table \cup {row} /\ Cardinality(table) \in Nat
  BY CommitNumber DEF Commit, ChainInv
<1>2. row.seq = Cardinality(table) + 1 /\ \A r \in table : r.seq < row.seq
  <2>1. row.seq = Cardinality(table) + 1
    BY CommitNumber DEF Commit, ChainInv, NewRow
  <2>2. \A r \in table : r.seq \in 1..Cardinality(table)
    BY SeqBound DEF ChainInv, SeqInv
  <2> QED
    BY <1>1, <2>1, <2>2
<1>3. req[p] \in Request /\ req[p].pc = "inserted"
  BY DEF ChainInv, SeqInv, TypeOK, Commit, Idle
<1>4. CASE row.acct # a
  <2>1. RowsOf(table', a) = mine
    BY <1>1, <1>4 DEF RowsOf
  <2> QED
    BY <2>1 DEF ChainInv, ChainIntact, ChainValid
<1>5. CASE row.acct = a
  <2>1. RowsOf(table', a) = mine \cup {row}
    BY <1>1, <1>5 DEF RowsOf
  <2>2. ASSUME NEW r \in mine PROVE RowChecks(mine \cup {row}, r)
    <3>1. r.seq < row.seq /\ r.seq \in Nat /\ row.seq \in Nat
      BY <1>1, <1>2 DEF RowsOf, ChainInv, SeqInv, TypeOK, Row
    <3>2. Before(mine \cup {row}, r) = Before(mine, r)
      BY <3>1 DEF Before
    <3>3. RowChecks(mine, r)
      BY DEF ChainInv, ChainIntact, ChainValid
    <3> QED
      BY <3>2, <3>3 DEF RowChecks, Cursor
  <2>3. RowChecks(mine \cup {row}, row)
    <3>1. Before(mine \cup {row}, row) = mine
      <4>1. ~(row.seq < row.seq)
        BY <1>1, <1>2
      <4> QED
        BY <1>2, <4>1 DEF Before, RowsOf
    <3>2. /\ row.prev = LatestHash(table, a)
          /\ row.prev # NoHash
          /\ row.hash = Hash(row.prev, row.acct, row.body)
      <4>1. Chained(req[p].path)
        BY <1>3, <1>5, SerialRequest DEF ChainInv, NewRow, Busy
      <4> QED
        BY <1>3, <1>5, <4>1 DEF ChainInv, LinkIsFresh, SeqInv, LinkRead, NewRow
    <3>3. LatestHash(table, a) = Cursor(mine \cup {row}, row)
      <4>1. CASE mine = {}
        BY <3>1, <4>1 DEF LatestHash, Cursor
      <4>2. CASE mine # {}
        BY <3>1, <4>2, LatestOfIntactChain DEF Cursor, ChainInv, ChainIntact
      <4> QED
        BY <4>1, <4>2
    <3> QED
      BY <3>2, <3>3 DEF RowChecks
  <2> QED
    BY <2>1, <2>2, <2>3 DEF ChainValid
<1> QED
  BY <1>4, <1>5

(* Every step keeps the chains of the serial accounts intact. *)
LEMMA ChainInvNext ==
    ASSUME ChainInv, [Next]_vars
    PROVE  ChainInv'
<1>0. FirstInv' /\ SeqInv
  BY FirstStep DEF ChainInv, FirstInv
<1>1. ASSUME NEW p \in Process, Step(p)
      PROVE  Routed' /\ LinkIsFresh' /\ ChainIntact'
  <2>1. Routed' /\ LinkIsFresh'
    BY <1>0, <1>1, RoutedStep, LinkFreshStep DEF ChainInv
  <2>2. CASE Commit(p)
    BY <2>1, <2>2, CommitChainIntact
  <2>3. CASE ~Commit(p)
    <3>1. table' = table
      BY <1>1, <2>3 DEF Step, Begin, Open, ReadPrev, ReadSeq, Insert, Collide, Rollback
    <3> QED
      BY <2>1, <3>1 DEF ChainInv, ChainIntact
  <2> QED
    BY <2>2, <2>3
<1>2. CASE UNCHANGED vars
  <2>1. table' = table /\ req' = req
    BY <1>2 DEF vars
  <2>2. Routed' /\ ChainIntact'
    BY <2>1 DEF ChainInv, Routed, Busy, ChainIntact
  <2>3. LinkIsFresh'
    BY <2>1 DEF ChainInv, LinkIsFresh
  <2> QED
    BY <1>0, <2>2, <2>3 DEF ChainInv
<1> QED
  BY <1>0, <1>1, <1>2 DEF Next, ChainInv

(* An account all of whose writers are chained, and lock first or have no    *)
(* other process to race with, verifies in every reachable state, whatever   *)
(* the requests of the other accounts do.                                    *)
THEOREM SerialChainIntact == Spec => []ChainIntact
<1>1. Init => ChainInv
  BY FirstInit DEF Init, ChainInv, Routed, Busy, Idle, LinkIsFresh, ChainIntact,
     ChainValid, RowsOf
<1>2. ChainInv => ChainIntact
  BY DEF ChainInv
<1> QED
  BY <1>1, <1>2, ChainInvNext, PTL DEF Spec

-----------------------------------------------------------------------------
(* Tampering *)

(* A set of rows as an account has them: typed, bounded, no number twice. *)
Numbered(T, n) ==
    /\ T \in SUBSET Row
    /\ \A r \in T : r.seq <= n
    /\ \A r, s \in T : r.seq = s.seq => r = s

(* With no tie, a row above all others is the newest. *)
LEMMA NewestIs ==
    ASSUME NEW T, \A o \in T : o.seq \in Nat,
           \A r, s \in T : r.seq = s.seq => r = s,
           NEW m \in T, \A o \in T : o.seq <= m.seq
    PROVE  Newest(T) = m
<1>1. \A r \in T : (\A o \in T : o.seq <= r.seq) => r = m
  <2> SUFFICES ASSUME NEW r \in T, \A o \in T : o.seq <= r.seq PROVE r.seq = m.seq
    OBVIOUS
  <2>1. r.seq <= m.seq /\ m.seq <= r.seq /\ r.seq \in Nat /\ m.seq \in Nat
    OBVIOUS
  <2> QED
    BY <2>1
<1> QED
  BY <1>1 DEF Newest

(* The rows before a row have a newest one, if there are any. *)
LEMMA NewestBefore ==
    ASSUME NEW T, NEW n \in Nat, Numbered(T, n), NEW r \in T, Before(T, r) # {}
    PROVE  /\ Newest(Before(T, r)) \in T
           /\ Newest(Before(T, r)).seq < r.seq
           /\ \A o \in T : o.seq < r.seq => o.seq <= Newest(Before(T, r)).seq
<1>1. Before(T, r) \in SUBSET Row /\ \A o \in Before(T, r) : o.seq <= n
  BY DEF Before, Numbered
<1>2. /\ Newest(Before(T, r)) \in Before(T, r)
      /\ \A o \in Before(T, r) : o.seq <= Newest(Before(T, r)).seq
  BY <1>1, NewestExists
<1> QED
  BY <1>2 DEF Before

(* A row that checks holds a hash one entry longer than its link, and no *)
(* other content has that hash.                                          *)
LEMMA CheckedRow ==
    ASSUME NEW T, T \in SUBSET Row, NEW r \in T, RowChecks(T, r)
    PROVE  /\ r.prev \in Hashes
           /\ r.hash = Append(r.prev, <<r.acct, r.body>>)
           /\ r.hash # r.prev
           /\ \A c : c # r.body => r.hash # Append(r.prev, <<r.acct, c>>)
<1>1. r.prev \in Hashes /\ r.hash = Append(r.prev, <<r.acct, r.body>>)
  BY DEF RowChecks, Row, Hash
<1>2. r.acct \in Account /\ r.body \in Content
  BY DEF Row
<1>3. Len(r.hash) = Len(r.prev) + 1 /\ Len(r.prev) \in Nat
  BY <1>1, <1>2, LenProperties DEF Hashes
<1>4. \A c : Append(r.prev, <<r.acct, c>>)[Len(r.prev) + 1] = <<r.acct, c>>
  BY <1>1 DEF Hashes
<1>5. \A c : r.hash = Append(r.prev, <<r.acct, c>>) => c = r.body
  BY <1>1, <1>4
<1> QED
  BY <1>1, <1>3, <1>5

(* An edit that keeps a row's number and hash moves no cursor. *)
LEMMA CursorOfEdited ==
    ASSUME NEW T, NEW n \in Nat, Numbered(T, n), NEW r \in T,
           NEW s, s.seq = r.seq, s.hash = r.hash,
           NEW o \in T
    PROVE  Cursor((T \ {r}) \cup {s}, IF o = r THEN s ELSE o) = Cursor(T, o)
<1> DEFINE E(x) == IF x = r THEN s ELSE x
           U == (T \ {r}) \cup {s}
<1>1. \A x \in T : E(x) \in U /\ E(x).seq = x.seq /\ E(x).hash = x.hash
  OBVIOUS
<1>2. \A y \in U : \E x \in T : y = E(x)
  OBVIOUS
<1>3. \A x \in T : x.seq \in Nat
  BY DEF Numbered, Row
<1> HIDE DEF E, U
<1>4. \A x \in T : E(x) \in Before(U, E(o)) <=> x \in Before(T, o)
  BY <1>1 DEF Before
<1>5. Before(U, E(o)) \subseteq U /\ Before(T, o) \subseteq T
  BY DEF Before
<1>6. CASE Before(T, o) = {}
  <2>1. Before(U, E(o)) = {}
    BY <1>2, <1>4, <1>5, <1>6
  <2> QED
    BY <1>6, <2>1 DEF Cursor, E, U
<1>7. CASE Before(T, o) # {}
  <2> DEFINE m == Newest(Before(T, o))
             B == Before(U, E(o))
  <2>1. m \in Before(T, o) /\ \A x \in Before(T, o) : x.seq <= m.seq
    BY <1>7, NewestBefore DEF Before
  <2> HIDE DEF m
  <2>2. E(m) \in B
    BY <1>4, <1>5, <2>1
  <2>3. \A y \in B : y.seq \in Nat /\ y.seq <= E(m).seq
    <3> SUFFICES ASSUME NEW y \in B PROVE y.seq \in Nat /\ y.seq <= E(m).seq
      OBVIOUS
    <3>1. PICK x \in T : y = E(x)
      BY <1>2, <1>5
    <3> QED
      BY <1>1, <1>3, <1>4, <1>5, <2>1, <3>1
  <2>4. \A y, z \in B : y.seq = z.seq => y = z
    <3> SUFFICES ASSUME NEW y \in B, NEW z \in B, y.seq = z.seq PROVE y = z
      OBVIOUS
    <3>1. PICK x \in T : y = E(x)
      BY <1>2, <1>5
    <3>2. PICK w \in T : z = E(w)
      BY <1>2, <1>5
    <3>3. x.seq = w.seq
      BY <1>1, <3>1, <3>2
    <3> QED
      BY <3>1, <3>2, <3>3 DEF Numbered
  <2>5. Newest(B) = E(m)
    <3> HIDE DEF B
    <3> QED
      BY <2>2, <2>3, <2>4, NewestIs
  <2>6. Cursor(U, E(o)) = E(m).hash
    BY <2>2, <2>5 DEF Cursor
  <2>7. Cursor(T, o) = m.hash
    BY <1>7 DEF Cursor, m
  <2>8. E(m).hash = m.hash
    BY <1>1, <1>5, <2>1
  <2> QED
    BY <2>6, <2>7, <2>8 DEF E, U
<1> QED
  BY <1>6, <1>7

(* verify_chain names exactly the row whose hashed content was edited. *)
LEMMA EditIsNamed ==
    ASSUME NEW T, NEW n \in Nat, Numbered(T, n), NEW r \in T,
           \A o \in T : RowChecks(T, o),
           NEW c, c # r.body
    PROVE  LET s == [r EXCEPT !.body = c]
               U == (T \ {r}) \cup {s}
           IN {x \in U : ~RowChecks(U, x)} = {s}
<1> DEFINE s == [r EXCEPT !.body = c]
           U == (T \ {r}) \cup {s}
<1>1. r \in Row /\ T \in SUBSET Row
  BY DEF Numbered
<1>2. /\ s.seq = r.seq /\ s.hash = r.hash /\ s.prev = r.prev
      /\ s.acct = r.acct /\ s.body = c
  BY <1>1 DEF Row
<1>3. \A o \in T : Cursor(U, IF o = r THEN s ELSE o) = Cursor(T, o)
  <2> HIDE DEF s
  <2> QED
    BY <1>2, CursorOfEdited
<1>4. \A o \in T \ {r} : RowChecks(U, o)
  BY <1>3 DEF RowChecks
<1>5. ~RowChecks(U, s)
  <2>1. r.hash # Append(r.prev, <<r.acct, c>>)
    BY <1>1, CheckedRow
  <2> QED
    BY <1>2, <2>1 DEF RowChecks, Hash
<1>6. s \in U /\ \A x \in U : x = s \/ x \in T \ {r}
  OBVIOUS
<1> HIDE DEF s, U
<1>7. {x \in U : ~RowChecks(U, x)} = {s}
  BY <1>4, <1>5, <1>6
<1> QED
  BY <1>7 DEF s, U

(* Without a row, verify_chain stops at the next one, and only there: its  *)
(* link is the hash of the row that is gone.                               *)
LEMMA GapIsNamed ==
    ASSUME NEW T, NEW n \in Nat, Numbered(T, n), NEW r \in T,
           \A o \in T : RowChecks(T, o)
    PROVE  LET later == {o \in T : r.seq < o.seq}
           IN {x \in T \ {r} : ~RowChecks(T \ {r}, x)}
                = {m \in later : \A o \in later : m.seq <= o.seq}
<1> DEFINE U == T \ {r}
           next(x) == r.seq < x.seq /\ \A o \in T : r.seq < o.seq => x.seq <= o.seq
<1>1. \A x \in T : x \in Row /\ x.seq \in Nat
  BY DEF Numbered, Row
<1>2. \A x \in U : Before(U, x) = Before(T, x) \ {r}
  BY DEF Before
<1>3. ASSUME NEW x \in U, next(x)
      PROVE  ~RowChecks(U, x)
  <2>1. Before(T, x) = Before(T, r) \cup {r}
    BY <1>1, <1>3 DEF Before, Numbered
  <2>2. Newest(Before(T, x)) = r
    <3>1. \A o \in Before(T, x) : o.seq \in Nat /\ o.seq <= r.seq
      BY <1>1, <2>1 DEF Before
    <3>2. \A y, z \in Before(T, x) : y.seq = z.seq => y = z
      BY DEF Before, Numbered
    <3> QED
      BY <2>1, <3>1, <3>2, NewestIs
  <2>3. x.prev = r.hash
    BY <2>1, <2>2 DEF RowChecks, Cursor
  <2>4. r \notin Before(T, r)
    BY <1>1 DEF Before
  <2>5. Before(U, x) = Before(T, r)
    BY <1>2, <2>1, <2>4
  <2>6. Cursor(U, x) = r.prev
    BY <2>5 DEF Cursor, RowChecks
  <2>7. r.hash # r.prev
    BY CheckedRow DEF Numbered
  <2> QED
    BY <2>3, <2>6, <2>7 DEF RowChecks
<1>4. ASSUME NEW x \in U, ~next(x)
      PROVE  RowChecks(U, x)
  <2>1. CASE Before(U, x) = Before(T, x)
    BY <2>1 DEF RowChecks, Cursor
  <2>2. CASE Before(U, x) # Before(T, x)
    <3>1. r.seq < x.seq /\ Before(T, x) # {}
      BY <1>2, <2>2 DEF Before
    <3>2. PICK o \in T : r.seq < o.seq /\ o.seq < x.seq
      BY <1>1, <1>4, <3>1
    <3> DEFINE m == Newest(Before(T, x))
    <3>3. m \in T /\ m.seq < x.seq /\ \A y \in T : y.seq < x.seq => y.seq <= m.seq
      BY <3>1, NewestBefore
    <3> HIDE DEF m
    <3>4. m # r
      BY <1>1, <3>2, <3>3
    <3>5. m \in Before(U, x)
      BY <3>3, <3>4 DEF Before
    <3>6. \A y \in Before(U, x) : y.seq \in Nat /\ y.seq <= m.seq
      BY <1>1, <3>3 DEF Before
    <3>7. \A y, z \in Before(U, x) : y.seq = z.seq => y = z
      BY DEF Before, Numbered
    <3>8. Newest(Before(U, x)) = m
      BY <3>5, <3>6, <3>7, NewestIs
    <3>9. Cursor(U, x) = Cursor(T, x)
      BY <3>1, <3>5, <3>8 DEF Cursor, m
    <3> QED
      BY <3>9 DEF RowChecks
  <2> QED
    BY <2>1, <2>2
<1>5. \A x \in U : ~RowChecks(U, x) <=> next(x)
  BY <1>3, <1>4
<1>6. \A x \in T : next(x) => x \in U
  BY <1>1
<1>7. {x \in U : ~RowChecks(U, x)} = {x \in T : next(x)}
  BY <1>5, <1>6
<1>8. {x \in T : next(x)} =
        {m \in {o \in T : r.seq < o.seq} :
            \A o \in {y \in T : r.seq < y.seq} : m.seq <= o.seq}
  OBVIOUS
<1> QED
  BY <1>7, <1>8

(* In every state, whatever raced: edit any row of an account that verifies *)
(* and verify_chain names that row; delete one that is not the newest and   *)
(* it names the next.                                                       *)
THEOREM TamperingIsPinpointed == Spec => []TamperingPinpointed
<1>1. SeqInv => TamperingPinpointed
  <2> SUFFICES ASSUME SeqInv, NEW r \in table, ChainValid(table, r.acct)
               PROVE  LET later == {o \in RowsOf(table, r.acct) : r.seq < o.seq}
                      IN /\ \A c \in Content \ {r.body} : BrokenAt(Edited(r, c), r.acct) = {r.seq}
                         /\ later # {} => BrokenAt(table \ {r}, r.acct) = {Min(Seqs(later))}
    BY DEF TamperingPinpointed
  <2> DEFINE T == RowsOf(table, r.acct)
  <2>1. PICK n \in Nat : Numbered(T, n)
    <3>1. Cardinality(table) \in Nat /\ \A o \in table : o.seq <= Cardinality(table)
      BY SeqBound DEF SeqInv
    <3>2. Numbered(T, Cardinality(table))
      BY <3>1 DEF Numbered, RowsOf, SeqInv, TypeOK, SeqIsDense
    <3> QED
      BY <3>1, <3>2
  <2>2. r \in T /\ r \in Row /\ \A o \in T : RowChecks(T, o) /\ o.seq \in Nat
    BY DEF RowsOf, ChainValid, SeqInv, TypeOK, Row
  <2>3. ASSUME NEW c \in Content \ {r.body}
        PROVE  BrokenAt(Edited(r, c), r.acct) = {r.seq}
    <3> DEFINE s == [r EXCEPT !.body = c]
               U == (T \ {r}) \cup {s}
    <3>1. s.acct = r.acct /\ s.seq = r.seq /\ s.seq \in Nat
      BY <2>2 DEF Row
    <3>2. RowsOf((table \ {r}) \cup {s}, r.acct) = U
      BY <3>1 DEF RowsOf
    <3>3. {x \in U : ~RowChecks(U, x)} = {s}
      BY <2>1, <2>2, EditIsNamed
    <3> HIDE DEF s, U
    <3>4. BrokenAt((table \ {r}) \cup {s}, r.acct) = {r.seq}
      BY <3>1, <3>2, <3>3 DEF BrokenAt
    <3> QED
      BY <3>4 DEF s, Edited
  <2>4. BrokenAt(table \ {r}, r.acct) =
          {m.seq : m \in {x \in {o \in T : r.seq < o.seq} :
                            \A o \in {y \in T : r.seq < y.seq} : x.seq <= o.seq}}
    <3> DEFINE U == T \ {r}
               later == {o \in T : r.seq < o.seq}
               first == {x \in later : \A o \in later : x.seq <= o.seq}
    <3>1. RowsOf(table \ {r}, r.acct) = U
      BY DEF RowsOf
    <3>2. {x \in U : ~RowChecks(U, x)} = first
      BY <2>1, <2>2, GapIsNamed
    <3>3. \A b \in first : \A o \in first : b.seq <= o.seq
      OBVIOUS
    <3> HIDE DEF U, first
    <3>4. BrokenAt(table \ {r}, r.acct) = {m.seq : m \in first}
      BY <3>1, <3>2, <3>3 DEF BrokenAt
    <3> QED
      BY <3>4 DEF first
  <2> DEFINE later == {o \in RowsOf(table, r.acct) : r.seq < o.seq}
             first == {x \in later : \A o \in later : x.seq <= o.seq}
  <2>5. ASSUME later # {} PROVE {m.seq : m \in first} = {Min(Seqs(later))}
    <3>1. /\ \A o \in later : o.seq \in Nat
          /\ \A x, y \in later : x.seq = y.seq => x = y
      BY <2>1, <2>2 DEF Numbered
    <3> HIDE DEF later
    <3>2. Seqs(later) \subseteq Nat /\ Seqs(later) # {}
      BY <2>5, <3>1 DEF Seqs
    <3>3. PICK d \in Seqs(later) : \A k \in Seqs(later) : d <= k
      BY <3>2, LeastOf
    <3>4. Min(Seqs(later)) = d
      <4>1. \A x \in Seqs(later) : (\A k \in Seqs(later) : x <= k) => x = d
        BY <3>2, <3>3
      <4>2. \A k \in Seqs(later) : d <= k
        BY <3>3
      <4>3. PICK D : D = Seqs(later)
        OBVIOUS
      <4>4. /\ d \in D /\ \A k \in D : d <= k
            /\ \A x \in D : (\A k \in D : x <= k) => x = d
        BY <3>3, <4>1, <4>2, <4>3
      <4>5. Min(D) = d
        BY <4>4 DEF Min
      <4> QED
        BY <4>3, <4>5
    <3>5. PICK x \in later : x.seq = d
      BY <3>3 DEF Seqs
    <3>6. first = {x}
      BY <3>1, <3>3, <3>5 DEF Seqs
    <3> QED
      BY <3>4, <3>5, <3>6
  <2>6. BrokenAt(table \ {r}, r.acct) = {m.seq : m \in first}
    BY <2>4
  <2> QED
    BY <2>3, <2>5, <2>6
<1> QED
  BY <1>1, SeqInvInit, SeqInvNext, PTL DEF Spec
=============================================================================
