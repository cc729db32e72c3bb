------------------------------ MODULE Evidence ------------------------------
(***************************************************************************)
(* What SpoofVane keeps outside its database: content-addressed blobs      *)
(* (src/storage/blob_store.py), report files (src/common/reports.py) and   *)
(* fitted calibrations (src/scoring/calibration.py and                     *)
(* family_calibration.py), each written by opening the file, which empties *)
(* it, and writing; and the two hash chains that travel with evidence      *)
(* (src/deepfake/chain_of_custody.py, src/compliance).                     *)
(***************************************************************************)
EXTENDS Naturals, Sequences, FiniteSets

CONSTANTS
    Writer,     \* threads of the workers
    Blob,       \* blobs' contents
    Kind,       \* kinds of report, for one account and format
    Family,     \* kit families with a calibration of their own
    MaxSecond,  \* bound: the clock
    MaxWrites,  \* bound: reports and fits begun
    MaxEvents   \* bound: records of a chain

ASSUME WriterAssumption == IsFiniteSet(Writer)
ASSUME EvidenceAssumption == {MaxSecond, MaxWrites, MaxEvents} \subseteq Nat

VARIABLES
    topic,    \* what a behaviour is about: the four share nothing
    file,     \* what each file holds
    writer,   \* what each thread is doing
    rows,     \* committed ReportRows
    second,   \* the clock
    writes,   \* reports and fits begun
    got,      \* the last calibration loaded
    last,     \* what the last to open a file was to write (history)
    doubt,    \* files whose last writer was killed or had company (history)
    chain     \* the records of a chain, and those presented for verification

fileVars == <<file, writer, rows, second, writes, got, last, doubt>>
evidenceVars == <<topic, fileVars, chain>>

-----------------------------------------------------------------------------
AtRest == [pc |-> "idle"]
Nothing == [kind |-> "nothing"]
Torn == [kind |-> "torn"]
Default == [kind |-> "default"]

BlobPath(b) == <<"blob", b>>
FitPath(f) == <<"fit", f>>
Global == "global"
\* mutant: the kind is not part of the name
ReportPath_NoKind(kind, at) == <<"report", "any", at>>
ReportPath(kind, at) == <<"report", kind, at>>
Paths == {BlobPath(b) : b \in Blob} \cup {FitPath(f) : f \in Family \cup {Global}}
         \cup {<<"report", k, t>> : k \in Kind \cup {"any"}, t \in 0..MaxSecond}

\* bytes that are a whole document: neither empty nor two documents overlaid
Whole(p) == file[p] \notin {Nothing, Torn}
Writing(p) == {w \in Writer : writer[w].pc = "write" /\ writer[w].path = p}

EvidenceInit ==
    /\ topic \in {"blobs", "reports", "fits", "chains"}
    /\ file = [p \in Paths |-> Nothing]
    /\ writer = [w \in Writer |-> AtRest]
    /\ rows = {}
    /\ second = 0
    /\ writes = 0
    /\ got = Default
    /\ last = [p \in Paths |-> Nothing]
    /\ doubt = {}
    /\ chain = [pc |-> "none"]

Goto(w, job) == writer' = [writer EXCEPT ![w] = job]

-----------------------------------------------------------------------------
\* write_blob: a file that exists, whatever is in it, is taken for the blob
FindBlob(w, b) ==
    /\ writer[w] = AtRest
    /\ file[BlobPath(b)] = Nothing
    /\ Goto(w, [pc |-> "open", path |-> BlobPath(b), doc |-> [kind |-> "blob", of |-> b]])
    /\ UNCHANGED <<file, rows, second, writes, got, last, doubt, chain>>

\* reports._write and save_calibrator: the document is built, the file named
BeginReport(w, k) ==
    /\ writer[w] = AtRest /\ writes < MaxWrites
    /\ writes' = writes + 1
    /\ Goto(w, [pc |-> "open", path |-> ReportPath(k, second),
                doc |-> [kind |-> "report", of |-> k, n |-> writes]])
    /\ UNCHANGED <<file, rows, second, got, last, doubt, chain>>
BeginFit(w, f) ==
    /\ writer[w] = AtRest /\ writes < MaxWrites
    /\ writes' = writes + 1
    /\ Goto(w, [pc |-> "open", path |-> FitPath(f),
                doc |-> [kind |-> "fit", of |-> f, n |-> writes]])
    /\ UNCHANGED <<file, rows, second, got, last, doubt, chain>>

\* open(path, "wb") empties the file
OpenFile(w) ==
    /\ writer[w].pc = "open"
    /\ LET p == writer[w].path
       IN /\ file' = [file EXCEPT ![p] = Torn]
          /\ last' = [last EXCEPT ![p] = writer[w].doc]
          /\ doubt' = IF Writing(p) = {} THEN doubt \ {p} ELSE doubt \cup {p}
    /\ Goto(w, [writer[w] EXCEPT !.pc = "write"])
    /\ UNCHANGED <<rows, second, writes, got, chain>>

\* the bytes go to the start of the file: what another wrote there since may
\* stick out behind them
Write(w) ==
    /\ writer[w].pc = "write"
    /\ LET p == writer[w].path
           doc == writer[w].doc
           mixed == IF Whole(p) /\ file[p] # doc THEN {Torn} ELSE {}
       IN \E result \in {doc} \cup mixed : file' = [file EXCEPT ![p] = result]
    /\ Goto(w, IF writer[w].doc.kind = "report" THEN [writer[w] EXCEPT !.pc = "row"] ELSE AtRest)
    /\ UNCHANGED <<rows, second, writes, got, last, doubt, chain>>

\* the row is flushed after the file is written, and committed or not
Row(w) ==
    /\ writer[w].pc = "row"
    /\ rows' = rows \cup {[path |-> writer[w].path, doc |-> writer[w].doc]}
    /\ Goto(w, AtRest)
    /\ UNCHANGED <<file, second, writes, got, last, doubt, chain>>
RowFails(w) ==
    /\ writer[w].pc = "row"
    /\ Goto(w, AtRest)
    /\ UNCHANGED <<file, rows, second, writes, got, last, doubt, chain>>

\* the worker process is killed, or the disk is full: nothing is cleaned up
Kill(w) ==
    /\ writer[w] # AtRest
    /\ doubt' = doubt \cup {p \in Paths : w \in Writing(p)}
    /\ Goto(w, AtRest)
    /\ UNCHANGED <<file, rows, second, writes, got, last, chain>>

NextSecond == /\ second < MaxSecond
              /\ second' = second + 1
              /\ UNCHANGED <<file, writer, rows, writes, got, last, doubt, chain>>

-----------------------------------------------------------------------------
\* load_family_calibrator and load_calibrator: what cannot be parsed is as good
\* as absent, first for the family, then for the global fit
LoadFamily(w, f) ==
    /\ writer[w] = AtRest /\ f # Global
    /\ IF Whole(FitPath(f)) THEN got' = file[FitPath(f)] /\ UNCHANGED writer
       ELSE Goto(w, [pc |-> "global"]) /\ UNCHANGED got
    /\ UNCHANGED <<file, rows, second, writes, last, doubt, chain>>
LoadGlobal(w) ==
    /\ writer[w].pc = "global"
    /\ got' = IF Whole(FitPath(Global)) THEN file[FitPath(Global)] ELSE Default
    /\ Goto(w, AtRest)
    /\ UNCHANGED <<file, rows, second, writes, last, doubt, chain>>

FileStep(w) ==
    \/ topic = "blobs" /\ \E b \in Blob : FindBlob(w, b)
    \/ topic = "reports" /\ \E k \in Kind : BeginReport(w, k)
    \/ topic = "fits" /\ \E f \in Family \cup {Global} : BeginFit(w, f) \/ LoadFamily(w, f)
    \/ OpenFile(w) \/ Write(w) \/ Row(w) \/ RowFails(w) \/ Kill(w) \/ LoadGlobal(w)

-----------------------------------------------------------------------------
\* CHAINS.  A hash is what was hashed.  The n-th record binds its content and the
\* hash before it; custody's verify starts from zero, provenance's verify_chain
\* from whatever the first record says.
Zero == [content |-> 0]
Hash(content, prev) == [content |-> content, prev |-> prev]
LastHash(records) == IF records = <<>> THEN Zero ELSE records[Len(records)].this

StartChain ==
    /\ chain.pc = "none"
    /\ chain' = [pc |-> "record", records |-> <<>>]
    /\ UNCHANGED fileVars
\* ChainOfCustody.record, or build_evidence_record chained to the one before
Record(content) ==
    /\ chain.pc = "record" /\ Len(chain.records) < MaxEvents
    /\ LET prev == LastHash(chain.records)
       IN chain' = [chain EXCEPT !.records =
              Append(@, [content |-> content, prev |-> prev, this |-> Hash(content, prev)])]
    /\ UNCHANGED fileVars

\* some of the records, in some order, one of them perhaps edited
Presented(records, picks, edited, content) ==
    [i \in DOMAIN picks |->
        IF i = edited THEN [records[picks[i]] EXCEPT !.content = content]
        ELSE records[picks[i]]]
Present ==
    /\ chain.pc = "record"
    /\ \E n \in 0..Len(chain.records) :
       \E picks \in [1..n -> DOMAIN chain.records], edited \in 0..n, content \in 1..2 :
          chain' = [pc |-> "presented", records |-> chain.records,
                    shown |-> Presented(chain.records, picks, edited, content)]
    /\ UNCHANGED fileVars

Derived(r, prev) == Hash(r.content, prev) = r.this
CustodyVerifies(shown) ==
    \A i \in DOMAIN shown :
        LET prev == IF i = 1 THEN Zero ELSE shown[i - 1].this
        IN Derived(shown[i], prev) /\ shown[i].prev = prev
ProvenanceVerifies(shown) ==
    /\ \A i \in DOMAIN shown \ {1} : shown[i].prev = shown[i - 1].this
    /\ \A i \in DOMAIN shown : Derived(shown[i], shown[i].prev)

ChainStep == StartChain \/ (\E content \in 1..2 : Record(content)) \/ Present

EvidenceNext ==
    /\ \/ \E w \in Writer : FileStep(w)
       \/ topic = "reports" /\ NextSecond
       \/ topic = "chains" /\ ChainStep
    /\ UNCHANGED topic
EvidenceSpec == EvidenceInit /\ [][EvidenceNext]_evidenceVars

-----------------------------------------------------------------------------
\* A file nobody is writing holds what its last writer meant, unless that one was
\* killed or had company; a blob's file never holds another blob; a committed
\* report's file is that report, or one of its kind that took its name in the
\* same second; and a calibration is one that somebody saved, or the default.
FilesHold ==
    /\ \A p \in Paths \ doubt : Writing(p) = {} => file[p] = last[p]
    /\ \A b \in Blob : Whole(BlobPath(b)) => file[BlobPath(b)].of = b
    /\ \A r \in rows :
         \/ file[r.path] = r.doc
         \/ Writing(r.path) # {} \/ r.path \in doubt
         \/ /\ last[r.path] # r.doc
            /\ last[r.path].of = r.doc.of
    /\ got # Default => got.kind = "fit" /\ got.n < writes

\* A chain of custody verifies exactly if it is an unaltered beginning of what
\* was recorded, an evidence chain exactly if it is an unaltered stretch of it.
ChainsTell ==
    chain.pc = "presented" =>
        LET stretch(from) == \A i \in DOMAIN chain.shown :
                /\ from + i <= Len(chain.records)
                /\ chain.shown[i] = chain.records[from + i]
        IN /\ CustodyVerifies(chain.shown) <=> stretch(0)
           /\ ProvenanceVerifies(chain.shown) <=>
                \E from \in 0..Len(chain.records) : stretch(from)

FilesAreWhole == FilesHold /\ ChainsTell
=============================================================================
