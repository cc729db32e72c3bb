----------------------------- MODULE AuditChain -----------------------------
(***************************************************************************)
(* The audit log of src/common/audit.py and its second, older writer       *)
(* AuditLogRepo.record (src/storage/repositories_v2.py).  Requests of      *)
(* several workers append to one SQLite table; each append reads the       *)
(* latest row_hash of the account, then the largest seq, then inserts.     *)
(*                                                                         *)
(* SQLite runs a SELECT outside a transaction until the first INSERT or    *)
(* UPDATE of the session; from there to COMMIT the session holds the one   *)
(* write lock.  So a session that changed another table before it audits   *)
(* reads under the lock, and one whose first statement is the audit's own  *)
(* SELECT does not.  SHA-256 is taken as injective: the hash of a row is   *)
(* the sequence of everything hashed into it.                              *)
(***************************************************************************)
EXTENDS Naturals, Sequences, FiniteSets, FiniteSetsExt

CONSTANTS
    Process,    \* concurrent requests: worker processes and their threads
    Account,    \* tenant_id values that own a chain; the NULL one is a member
    Content,    \* hashed content of an entry, up to equality
    Routes,     \* which requests of this deployment log under which account
    MaxRows,    \* bound: rows the table may hold
    NoHash,     \* the NULL in prev_hash / row_hash of AuditLogRepo's rows
    NoProcess   \* nobody holds the write lock

\* review.decide/assign flush an UPDATE, then audit.record; the middleware
\* calls audit.record in a session of its own; create_brand, triage_alert,
\* add_alert_note, revoke_key, ... flush, then AuditLogRepo.record;
\* run_discovery, recheck_brand and submit_alert_takedown call it first.
Path == {"decision", "middleware", "mutation", "submission"}

ASSUME RoutesAssumption == Routes \subseteq Account \X Path
ASSUME MaxRowsAssumption == MaxRows \in Nat
ASSUME NoHashAssumption == NoHash \notin Seq(Account \X Content)
ASSUME NoProcessAssumption == NoProcess \notin Process

VARIABLES
    table,      \* committed rows of audit_log
    lock,       \* holder of SQLite's write lock
    req,        \* the request each process is serving
    collided    \* paths on which an INSERT met the UNIQUE index on seq

vars == <<table, lock, req, collided>>

-----------------------------------------------------------------------------
Hashes == Seq(Account \X Content)
Genesis == <<>>

Row == [seq: Nat, acct: Account, body: Content,
        prev: Hashes \cup {NoHash}, hash: Hashes \cup {NoHash}]

Hash(prev, a, c) == Append(prev, <<a, c>>)

RowsOf(T, a) == {r \in T : r.acct = a}
Seqs(T) == {r.seq : r \in T}

\* SELECT row_hash WHERE tenant_id = a ORDER BY seq DESC LIMIT 1, `or` genesis
Newest(T) == CHOOSE r \in T : \A o \in T : o.seq <= r.seq
LatestHash(T, a) ==
    LET mine == RowsOf(T, a)
    IN IF mine = {} \/ Newest(mine).hash = NoHash
         THEN Genesis ELSE Newest(mine).hash

\* (SELECT max(seq) or 0) + 1, over the whole table
NextSeq(T) == IF T = {} THEN 1 ELSE Max(Seqs(T)) + 1

-----------------------------------------------------------------------------
\* verify_chain: the cursor of a row is the row_hash of the one before it.
Before(mine, r) == {o \in mine : o.seq < r.seq}
Cursor(mine, r) ==
    IF Before(mine, r) = {} THEN Genesis
    ELSE Newest(Before(mine, r)).hash

\* mutant: verify_chain trusts each row's own prev_hash
RowChecks_OwnLink(mine, r) == r.prev # NoHash /\ r.hash = Hash(r.prev, r.acct, r.body)
RowChecks(mine, r) ==
    /\ r.prev = Cursor(mine, r)
    /\ r.prev # NoHash
    /\ r.hash = Hash(r.prev, r.acct, r.body)

ChainValid(T, a) == \A r \in RowsOf(T, a) : RowChecks(RowsOf(T, a), r)

\* broken_at: the first row, in seq order, that fails the check
BrokenAt(T, a) ==
    LET bad == {r \in RowsOf(T, a) : ~RowChecks(RowsOf(T, a), r)}
    IN {r.seq : r \in {b \in bad : \A o \in bad : b.seq <= o.seq}}

-----------------------------------------------------------------------------
Chained(path) == path \in {"decision", "middleware"}
\* mutant: decide audits before it flushes the item's UPDATE
ChangesFirst_AuditFirst(path) == path = "mutation"
ChangesFirst(path) == path \in {"decision", "mutation"}

Idle == [pc |-> "idle"]
Request == [pc: {"prev", "seq", "insert", "inserted"}, path: Path,
            acct: Account, body: Content, prev: Hashes \cup {NoHash},
            seq: Nat]

Busy(p) == req[p].pc # "idle"
MayWrite(p) == lock \in {p, NoProcess}

TypeOK ==
    /\ table \subseteq Row
    /\ lock \in Process \cup {NoProcess}
    /\ req \in [Process -> Request \cup {Idle}]
    /\ collided \subseteq Path

Init ==
    /\ table = {}
    /\ lock = NoProcess
    /\ req = [p \in Process |-> Idle]
    /\ collided = {}

Entry(path) == IF Chained(path) THEN "prev" ELSE "seq"

\* A request opens its session; some paths change another table first.
Open(p, path, a, c) ==
    /\ ~Busy(p)
    /\ <<a, path>> \in Routes
    /\ req' = [req EXCEPT ![p] =
                 [pc |-> Entry(path), path |-> path, acct |-> a, body |-> c,
                  prev |-> NoHash, seq |-> 0]]
    /\ IF ChangesFirst(path)
         THEN MayWrite(p) /\ lock' = p
         ELSE UNCHANGED lock
    /\ UNCHANGED <<table, collided>>

Begin(p) == \E path \in Path, a \in Account, c \in Content : Open(p, path, a, c)

ReadPrev(p) ==
    /\ req[p].pc = "prev"
    /\ req' = [req EXCEPT ![p].pc = "seq",
                          ![p].prev = LatestHash(table, req[p].acct)]
    /\ UNCHANGED <<table, lock, collided>>

ReadSeq(p) ==
    /\ req[p].pc = "seq"
    /\ req' = [req EXCEPT ![p].pc = "insert",
                          ![p].seq = NextSeq(table)]
    /\ UNCHANGED <<table, lock, collided>>

\* the row p inserts, invisible to others until p commits
NewRow(p) ==
    [seq |-> req[p].seq, acct |-> req[p].acct, body |-> req[p].body,
     prev |-> req[p].prev,
     hash |-> IF Chained(req[p].path)
                THEN Hash(req[p].prev, req[p].acct, req[p].body)
                ELSE NoHash]

\* mutant: seq without its UNIQUE index
Insert_NotUnique(p) ==
    /\ req[p].pc = "insert"
    /\ MayWrite(p)
    /\ lock' = p
    /\ req' = [req EXCEPT ![p].pc = "inserted"]
    /\ UNCHANGED <<table, collided>>
\* s.flush(): takes the write lock if the session does not hold it yet
Insert(p) ==
    /\ req[p].pc = "insert"
    /\ MayWrite(p)
    /\ req[p].seq \notin Seqs(table)
    /\ lock' = p
    /\ req' = [req EXCEPT ![p].pc = "inserted"]
    /\ UNCHANGED <<table, collided>>

Release(p) == lock' = IF lock = p THEN NoProcess ELSE lock

\* s.flush() raises IntegrityError: session_scope rolls everything back
Collide(p) ==
    /\ req[p].pc = "insert"
    /\ MayWrite(p)
    /\ req[p].seq \in Seqs(table)
    /\ collided' = collided \cup {req[p].path}
    /\ req' = [req EXCEPT ![p] = Idle]
    /\ Release(p)
    /\ UNCHANGED table

\* mutant: a size cap that drops the oldest row
Commit_Trim(p) ==
    /\ req[p].pc = "inserted"
    /\ table' = {r \in table : r.seq + 2 > req[p].seq} \cup {NewRow(p)}
    /\ req' = [req EXCEPT ![p] = Idle]
    /\ Release(p)
    /\ UNCHANGED collided
\* session_scope commits: the row becomes visible, the lock is released
Commit(p) ==
    /\ req[p].pc = "inserted"
    /\ Cardinality(table) < MaxRows
    /\ table' = table \cup {NewRow(p)}
    /\ req' = [req EXCEPT ![p] = Idle]
    /\ Release(p)
    /\ UNCHANGED collided

\* Any other exception in the session (busy timeout, a later statement).
Rollback(p) ==
    /\ Busy(p)
    /\ req' = [req EXCEPT ![p] = Idle]
    /\ Release(p)
    /\ UNCHANGED <<table, collided>>

Step(p) == \/ Begin(p) \/ ReadPrev(p) \/ ReadSeq(p) \/ Insert(p)
           \/ Collide(p) \/ Commit(p) \/ Rollback(p)

Next == \E p \in Process : Step(p)

Spec == Init /\ [][Next]_vars

-----------------------------------------------------------------------------
(* Properties *)

\* Whatever the interleaving, seq numbers the committed rows 1, 2, 3, ...
\* without a gap and without a tie: the "canonical ordering for the hash
\* chain" of AuditLogRow.seq.  Rolled-back inserts and lost races leave no
\* hole, because a number is only ever taken from the committed maximum.
SeqIsDense ==
    /\ Seqs(table) = 1..Cardinality(table)
    /\ \A r1, r2 \in table : r1.seq = r2.seq => r1 = r2

\* "Append-only record": a committed row is never changed or removed, and
\* every new one is placed after all the rows already there.
AppendOnly ==
    [][ /\ table \subseteq table'
        /\ \A r \in table' \ table : \A o \in table : o.seq < r.seq ]_table

\* verify_chain finds the chain of an account intact while all its writers are
\* chained ones that either change a row before they audit, so that the write
\* lock spans both reads and the insert, or run in the only process there is.
Alone == \A p, q \in Process : p = q
Serial(a) == \A path \in Path : <<a, path>> \in Routes =>
                 path = "decision" \/ (path = "middleware" /\ Alone)
ChainIntact == \A a \in Account : Serial(a) => ChainValid(table, a)

\* A review decision or another mutation that audits after its own UPDATE is
\* never lost to the race for the next seq: it reads the maximum under the lock.
MutationsNeverCollide == collided \cap {"decision", "mutation"} = {}

Edited(r, c) == (table \ {r}) \cup {[r EXCEPT !.body = c]}

\* verify_chain pinpoints tampering with an intact chain: an edit of the hashed
\* content of any row names that row, and the deletion of a row that has others
\* of its account after it names the first of these.
TamperingPinpointed ==
    \A r \in table : ChainValid(table, r.acct) =>
        LET later == {o \in RowsOf(table, r.acct) : r.seq < o.seq}
        IN /\ \A c \in Content \ {r.body} : BrokenAt(Edited(r, c), r.acct) = {r.seq}
           /\ later # {} => BrokenAt(table \ {r}, r.acct) = {Min(Seqs(later))}

\* "Altering or deleting any historical row breaks the chain, which verify_chain
\* detects" (src/common/audit.py:9): no row of an intact chain can be altered or
\* deleted so that the chain still verifies.
TamperingIsSeen ==
    \A r \in table : ChainValid(table, r.acct) =>
        /\ \A c \in Content \ {r.body} : ~ChainValid(Edited(r, c), r.acct)
        /\ ~ChainValid(table \ {r}, r.acct)

\* "seq never ties, so _latest() and verify_chain() agree on order": a log that
\* nobody tampered with verifies, for every account.
UntouchedLogVerifies == \A a \in Account : ChainValid(table, a)

-----------------------------------------------------------------------------
(* The inductive invariants behind the theorems of AuditChainProofs *)

\* An uncommitted row exists only under the write lock.
InsertedHoldsLock == \A p \in Process : req[p].pc = "inserted" => lock = p

\* The number a request read is at most one past the committed rows, and an
\* inserted row has a number no committed row has.
NumberIsFresh ==
    \A p \in Process :
        /\ req[p].pc \in {"insert", "inserted"} =>
              req[p].seq \in 1..(Cardinality(table) + 1)
        /\ req[p].pc = "inserted" => req[p].seq \notin Seqs(table)

\* A chained request past its first read holds a real hash, not NULL.
LinkRead ==
    \A p \in Process : req[p].pc \in {"seq", "insert", "inserted"} =>
        (Chained(req[p].path) => req[p].prev # NoHash)

SeqInv == /\ TypeOK
          /\ IsFiniteSet(table)
          /\ LinkRead
          /\ SeqIsDense
          /\ InsertedHoldsLock
          /\ NumberIsFresh

\* A request that changes a row first holds the lock from then on, so the
\* maximum it read is still the maximum when it inserts.
LockFirst == \A p \in Process :
    Busy(p) /\ ChangesFirst(req[p].path) => lock = p
SeqIsFresh == \A p \in Process :
    req[p].pc = "insert" /\ ChangesFirst(req[p].path) =>
        req[p].seq = NextSeq(table)

FirstInv == SeqInv /\ LockFirst /\ SeqIsFresh /\ MutationsNeverCollide

\* A request for a serial account holds the lock from its first statement, or
\* is alone, so the hash it read is still the latest when it inserts.
Routed == \A p \in Process : Busy(p) => <<req[p].acct, req[p].path>> \in Routes
LinkIsFresh ==
    \A p \in Process :
        req[p].pc \in {"seq", "insert", "inserted"} /\ Serial(req[p].acct) =>
            req[p].prev = LatestHash(table, req[p].acct)

ChainInv == FirstInv /\ Routed /\ LinkIsFresh /\ ChainIntact
=============================================================================
