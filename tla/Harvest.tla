------------------------------ MODULE Harvest ------------------------------
(***************************************************************************)
(* A discovery run (src/discovery/run_once.py): the sources of a plan, one *)
(* after the other, in one session.  A source asks its queries, feeds or   *)
(* candidates in turn, looks at each hit and yields suspects; a suspect is *)
(* flushed at once.  A flush that fails is counted and the loop goes on,   *)
(* but it has rolled back the transaction and the session refuses          *)
(* everything from then on, the commit at the end included.                *)
(***************************************************************************)
EXTENDS Naturals, Sequences, FiniteSets

CONSTANTS
    Plans,           \* the sequences of sources a run may be asked for
    Calls,           \* how many queries, feeds or candidates each source has
    Hit,             \* what may be answered: [url, page, kind]
    MaxPerPlatform,  \* SocialMediaSource.max_per_platform
    MaxHits          \* bound: hits answered in a run

ASSUME HarvestAssumption ==
    /\ Plans \subseteq Seq(DOMAIN Calls) /\ <<>> \notin Plans
    /\ \A s \in DOMAIN Calls : Calls[s] \in Nat
    /\ \A h \in Hit : h.kind \in {"foreign", "own", "broken"}
    /\ MaxPerPlatform \in Nat /\ MaxHits \in Nat

VARIABLE harvest   \* the run

-----------------------------------------------------------------------------
\* A failed query is skipped, or ends its source.  Yielded hits are remembered
\* by URL, by URL without its query, or not at all.
SkipsFailures == {"serp", "cert_stream", "social_media"}
Key(source, hit) == IF source = "social_media" THEN hit.page ELSE hit.url
Remembers == {"social_media", "openphish_feed", "crawl_seed"}

NoHarvest == [pc |-> "none"]
HarvestInit == harvest = NoHarvest

\* log: what each query of each source was answered; rows: what was flushed, or
\* lost with the session (history)
BeginHarvest(plan) ==
    /\ harvest = NoHarvest
    /\ harvest' = [pc |-> "ask", plan |-> plan, call |-> 1, hits |-> <<>>,
                   known |-> {}, count |-> 0, queued |-> 0, errors |-> 0,
                   dead |-> FALSE, log |-> <<>>, rows |-> <<>>, told |-> <<>>]

Turn == Len(harvest.told) + 1
Source == harvest.plan[Turn]
Replies == {n \in DOMAIN harvest.log : harvest.log[n].hits # <<>>}
Room == MaxHits - Cardinality({r \in Replies \X (1..MaxHits) :
                                 r[2] \in DOMAIN harvest.log[r[1]].hits})

Logged(hits, failed) ==
    Append(harvest.log, [at |-> Turn, call |-> harvest.call, hits |-> hits, failed |-> failed])

Ask ==
    /\ harvest.pc = "ask" /\ Turn <= Len(harvest.plan) /\ harvest.call <= Calls[Source]
    /\ \E n \in 0..Room : \E hits \in [1..n -> Hit] :
         harvest' = [harvest EXCEPT !.pc = "take", !.hits = hits, !.count = 0,
                                    !.log = Logged(hits, FALSE)]

\* the source's summary; the next source starts afresh
EndSource(h) ==
    [h EXCEPT !.pc = "ask", !.call = 1, !.hits = <<>>, !.known = {}, !.queued = 0,
              !.errors = 0,
              !.told = Append(@, [queued |-> h.queued, errors |-> h.errors])]
Broken(h) == EndSource([h EXCEPT !.errors = @ + 1])

AskFails ==
    /\ harvest.pc = "ask" /\ Turn <= Len(harvest.plan) /\ harvest.call <= Calls[Source]
    /\ LET h == [harvest EXCEPT !.log = Logged(<<>>, TRUE)]
       IN harvest' = IF Source \in SkipsFailures THEN [h EXCEPT !.call = @ + 1]
                     ELSE Broken(h)

Exhausted ==
    /\ harvest.pc = "ask" /\ Turn <= Len(harvest.plan) /\ harvest.call > Calls[Source]
    /\ harvest' = EndSource(harvest)

-----------------------------------------------------------------------------
Capped == Source = "social_media" /\ harvest.count >= MaxPerPlatform
Foreign(hit) ==
    /\ hit.kind = "foreign"
    /\ Source \in Remembers => Key(Source, hit) \notin harvest.known

\* the next hit of an answer; is_same_brand_domain raises on a malformed URL
\* mutant: what is filtered out uses up the platform's share too
Take_CountsAll ==
    /\ harvest.pc = "take"
    /\ IF harvest.hits = <<>> \/ Capped
       THEN harvest' = [harvest EXCEPT !.pc = "ask", !.call = @ + 1, !.hits = <<>>]
       ELSE LET hit == Head(harvest.hits)
                h == [harvest EXCEPT !.hits = Tail(@), !.count = @ + 1]
            IN harvest' =
                 CASE hit.kind = "broken" -> Broken(h)
                   [] Foreign(hit) -> [h EXCEPT !.pc = "persist", !.hits = harvest.hits,
                                                !.known = @ \cup {Key(Source, hit)}]
                   [] OTHER -> h
Take ==
    /\ harvest.pc = "take"
    /\ IF harvest.hits = <<>> \/ Capped
       THEN harvest' = [harvest EXCEPT !.pc = "ask", !.call = @ + 1, !.hits = <<>>]
       ELSE LET hit == Head(harvest.hits)
                h == [harvest EXCEPT !.hits = Tail(@)]
            IN harvest' =
                 CASE hit.kind = "broken" -> Broken(h)
                   [] Foreign(hit) -> [harvest EXCEPT !.pc = "persist", !.count = @ + 1,
                                                      !.known = @ \cup {Key(Source, hit)}]
                   [] OTHER -> h

\* repo.create: the flush, by a session that works
Flush ==
    /\ harvest.pc = "persist" /\ ~harvest.dead
    /\ harvest' = [harvest EXCEPT !.pc = "take", !.hits = Tail(@), !.queued = @ + 1,
                     !.rows = Append(@, [at |-> Turn, call |-> harvest.call,
                                         hit |-> Head(harvest.hits)])]
FlushFails ==
    /\ harvest.pc = "persist"
    /\ harvest' = [harvest EXCEPT !.pc = "take", !.hits = Tail(@), !.errors = @ + 1,
                                  !.dead = TRUE]

\* the end of session_scope: the commit may fail too
Settle ==
    /\ harvest.pc = "ask" /\ Turn > Len(harvest.plan)
    /\ \/ ~harvest.dead /\ harvest' = [harvest EXCEPT !.pc = "kept"]
       \/ harvest' = [harvest EXCEPT !.pc = "raised"]

HarvestStep ==
    \/ \E p \in Plans : BeginHarvest(p)
    \/ Ask \/ AskFails \/ Exhausted \/ Take \/ Flush \/ FlushFails \/ Settle
HarvestSpec == HarvestInit /\ [][HarvestStep]_harvest

-----------------------------------------------------------------------------
RowsOf(i, c) == {n \in DOMAIN harvest.rows : harvest.rows[n].at = i /\ harvest.rows[n].call = c}

\* A run that returns has asked every source of its plan, its summaries count the
\* rows it stored, and it counted an error exactly for a source that was cut short.
\* No source stores the brand's own pages, one that remembers stores nothing twice,
\* no platform more than its share; and a foreign hit is missing only if it is
\* known, beyond the share, or behind what cut its source short.
HarvestIsHonest ==
    harvest.pc = "kept" =>
        LET rows == harvest.rows
            plan == harvest.plan
            entry == harvest.log
            of(i) == {n \in DOMAIN rows : rows[n].at = i}
            cut(i) == \E n \in DOMAIN entry :
                        /\ entry[n].at = i
                        /\ \/ entry[n].failed /\ plan[i] \notin SkipsFailures
                           \/ \E k \in DOMAIN entry[n].hits : entry[n].hits[k].kind = "broken"
        IN /\ Len(harvest.told) = Len(plan)
           /\ \A i \in DOMAIN plan :
                /\ harvest.told[i].queued = Cardinality(of(i))
                /\ harvest.told[i].errors \in {0, 1}
                /\ harvest.told[i].errors = 1 => cut(i)
                /\ harvest.told[i].errors = 0 =>
                     {entry[n].call : n \in {m \in DOMAIN entry : entry[m].at = i}}
                        = 1..Calls[plan[i]]
                /\ \A n \in of(i) : rows[n].hit.kind = "foreign"
                /\ plan[i] \in Remembers =>
                     \A m, n \in of(i) :
                        Key(plan[i], rows[m].hit) = Key(plan[i], rows[n].hit) => m = n
                /\ plan[i] = "social_media" =>
                     \A c \in 1..Calls[plan[i]] : Cardinality(RowsOf(i, c)) <= MaxPerPlatform
           /\ \A n \in DOMAIN entry : \A k \in DOMAIN entry[n].hits :
                LET i == entry[n].at
                    hit == entry[n].hits[k]
                IN hit.kind = "foreign" =>
                     \/ \E m \in of(i) : rows[m].hit = hit /\ rows[m].call = entry[n].call
                     \/ plan[i] \in Remembers /\ \E m \in of(i) :
                            Key(plan[i], rows[m].hit) = Key(plan[i], hit)
                     \/ plan[i] = "social_media"
                        /\ Cardinality(RowsOf(i, entry[n].call)) = MaxPerPlatform
                     \/ harvest.told[i].errors = 1
                        /\ \E j \in 1..(k - 1) : entry[n].hits[j].kind = "broken"
=============================================================================
