----------------------------- MODULE MCOffline -----------------------------
(***************************************************************************)
(* Ten parts that share no state, each with its own variables and         *)
(* actions.  A behaviour is one of one part while the others rest, so that *)
(* TLC explores the sum of the ten and not their product.                 *)
(***************************************************************************)
EXTENDS Delivery, Guards, Grouping, Verdicts, Cases, Leads, Evidence,
        Notices, Kits, Harvest

VARIABLE part   \* the part a behaviour is about

McFeedbackKind(o, n, named) == [outcome |-> o, score |-> n, signal |-> named]
McFeedback ==
    {McFeedbackKind("true_positive", 850, TRUE), McFeedbackKind("true_positive", 430, FALSE),
     McFeedbackKind("true_positive", 0, TRUE), McFeedbackKind("false_positive", 610, TRUE),
     McFeedbackKind("false_positive", 200, FALSE), McFeedbackKind("needs_review", 500, TRUE)}
\* on and beside every bound, and what a jitter moves onto one
McComposites == {0, 300, 420, 449, 450, 480, 540, 690, 750, 780, 810, 1000}
McClaude == {[verdict |-> "phish", confidence |-> 900],
             [verdict |-> "suspicious", confidence |-> 501],
             [verdict |-> "benign", confidence |-> 333]}
McVisual == [{"phash", "dom"} -> [weight: {0, 40}, value: {0, 500, 1000}]]
McRawAux == {-200, 300, 1400}

\* "wix.com" loses its w as "www.example.com" loses its "www."
McHost == {"example.com", "www.example.com", "wix.com"}
McCanon == [h \in McHost |-> IF h = "wix.com" THEN "ix.com" ELSE "example.com"]
McAnchor == {<<"domain", "one">>, <<"domain", "two">>, <<"social", "one">>}
McEntity == {<<"ip", "one">>}

McStored == [kind: {"stored"}, email: {TRUE}, min: {0, 2}]
            \cup [kind: {"stored"}, email: {FALSE}, min: {0}]

\* pages with signatures of at most three families and three kits
McZero == <<0, 0, 0, 0, 0, 0>>
McFamilies == {<<a, 0, b, 0, c>> : a, b, c \in 0..2}
McText == {<<a, b, 0, 0, 0, 0>> : a, b \in 0..2}
McTree == {<<a, 0, c, 0, 0, 0>> : a, c \in {0, 1, 3}}
McBundles == {<<>>, <<"EvilProxy">>, <<"Tycoon-2FA", "16Shop">>}
McPages ==
    {[family |-> f, text |-> McZero, tree |-> McZero, bundles |-> <<>>] : f \in McFamilies}
    \cup [family: {<<0, 1, 0, 1, 0>>}, text: McText, tree: McTree, bundles: McBundles]

\* two URLs of one page, another page, one of the brand's own, and no URL at all
McHit == {[url |-> "a?1", page |-> "a", kind |-> "foreign"],
          [url |-> "a?2", page |-> "a", kind |-> "foreign"],
          [url |-> "b", page |-> "b", kind |-> "foreign"],
          [url |-> "www", page |-> "www", kind |-> "own"],
          [url |-> "[", page |-> "[", kind |-> "broken"]}
McCalls == [social_media |-> 2, openphish_feed |-> 1, crawl_seed |-> 1, serp |-> 1]
McPlans == {<<"social_media", "openphish_feed">>, <<"crawl_seed", "serp">>}

\* another part's inputs are fixed, for it takes no step
Resting ==
    /\ part # "delivery" => pages = {}
    /\ part # "grouping" => mode = "clusters" /\ \A d \in Domain : has[d] = {}
    /\ part # "evidence" => topic = "blobs"
    /\ part # "notices" => active = Member

Init ==
    /\ part \in {"delivery", "guards", "grouping", "verdicts", "cases", "leads", "evidence",
                "notices", "kits", "harvest"}
    /\ DeliveryInit /\ GuardInit /\ GroupInit /\ VerdictInit /\ CaseInit
    /\ LeadInit /\ EvidenceInit /\ NoticeInit /\ KitInit /\ HarvestInit
    /\ Resting

Next ==
    /\ UNCHANGED part
    /\ IF part = "delivery" THEN DeliveryNext ELSE UNCHANGED deliveryVars
    /\ IF part = "guards" THEN GuardNext ELSE UNCHANGED guardVars
    /\ IF part = "grouping" THEN GroupStep ELSE UNCHANGED groupVars
    /\ IF part = "verdicts" THEN VerdictNext ELSE UNCHANGED analysis
    /\ IF part = "cases" THEN CaseNext ELSE UNCHANGED caseVars
    /\ IF part = "leads" THEN LeadStep ELSE UNCHANGED lead
    /\ IF part = "evidence" THEN EvidenceNext ELSE UNCHANGED evidenceVars
    /\ IF part = "notices" THEN NoticeNext ELSE UNCHANGED noticeVars
    /\ IF part = "kits" THEN KitStep ELSE UNCHANGED page
    /\ IF part = "harvest" THEN HarvestStep ELSE UNCHANGED harvest

offlineVars == <<part, deliveryVars, guardVars, groupVars, analysis, caseVars,
                 lead, evidenceVars, noticeVars, page, harvest>>

Spec ==
    /\ Init /\ [][Next]_offlineVars
    /\ \A a \in Alert : WF_deliveryVars(part = "delivery" /\ Dispatch(a))
    /\ WF_groupVars(part = "grouping" /\ GroupStep)
    /\ WF_lead(part = "leads" /\ LeadStep)
    /\ WF_page(part = "kits" /\ KitStep)
    /\ WF_harvest(part = "harvest" /\ HarvestStep)

\* Every dispatch that was begun ends, whatever the network does, because each
\* attempt has a deadline and the attempts are counted; so does every grouping,
\* whose find must not run in a circle, every batch of leads, every page and every discovery run.
WorkEnds ==
    /\ \A a \in Alert :
         part = "delivery" /\ job[a].pc = "ready" ~> job[a].pc \in {"done", "broken"}
    /\ part = "grouping" ~> find.pc = "done"
    /\ part = "leads" ~> lead.pc \in {"unified", "raised", "selected", "shown"}
    /\ part = "kits" ~> page.pc = "named"
    /\ part = "harvest" ~> harvest.pc \in {"kept", "raised"}

\* The ensemble, the classifier, the tuning advice, the fusion, the takedown
\* cases and the recognition of kits answer as the definitions of what they
\* promise say.
AnswersMeetReferences ==
    /\ MergeIsCautious /\ CloakingIsRelative /\ AdviceIsSteady /\ FusionPullsFairly
    /\ CasesAreTraceable /\ KitsAreNamed
=============================================================================
