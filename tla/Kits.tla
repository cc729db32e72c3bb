-------------------------------- MODULE Kits --------------------------------
(***************************************************************************)
(* What a rendered page is recognised by: the family of the attack         *)
(* (src/scoring/family.py), which chooses the weights of the score, and    *)
(* the kit that made it (src/scoring/template_fingerprint.py); the         *)
(* pipeline names both in the verdict.  A turn of each loop is a step.     *)
(* Confidences are in thousandths.                                         *)
(***************************************************************************)
EXTENDS Naturals, Sequences, FiniteSets

CONSTANT Pages   \* pages: signatures found, per family and kit, and bundles

VARIABLE page    \* the page at hand

-----------------------------------------------------------------------------
\* _FAMILY_TABLE, and the number of each family's signatures
Families == <<"m365", "banking", "crypto", "payment", "support">>
FamilySignatures == [m365 |-> 5, banking |-> 5, crypto |-> 5, payment |-> 4, support |-> 4]

\* the order of _KIT_DB; signatures found in the text, and only in parsed HTML
KitDb == <<"16Shop", "EvilProxy", "Caffeine", "Tycoon-2FA", "GreatHorn-clone",
           "ModlishkaProxy">>
KitSignatures ==
    <<[text |-> 2, tree |-> 5], [text |-> 2, tree |-> 3], [text |-> 1, tree |-> 3],
      [text |-> 2, tree |-> 1], [text |-> 1, tree |-> 3], [text |-> 1, tree |-> 1]>>
BundleKits == {"16Shop", "EvilProxy", "Caffeine", "Tycoon-2FA"}

ASSUME PagesAssumption ==
    \A p \in Pages :
        /\ \A i \in DOMAIN Families : p.family[i] \in 0..FamilySignatures[Families[i]]
        /\ \A k \in DOMAIN KitDb : p.text[k] \in 0..KitSignatures[k].text
                                   /\ p.tree[k] \in 0..KitSignatures[k].tree
        /\ p.bundles \in Seq(BundleKits)

Generic == [name |-> "generic", hits |-> 0]
NoPage == [pc |-> "none"]
KitInit == page = NoPage

\* a page may be too broken for the parser
Render(p, parsed) ==
    /\ page = NoPage
    /\ page' = [pc |-> "families", of |-> p, parsed |-> parsed, at |-> 1,
                best |-> Generic, found |-> <<>>]

-----------------------------------------------------------------------------
\* classify_dom_text
TryFamily ==
    /\ page.pc = "families" /\ page.at <= Len(Families)
    /\ LET hits == page.of.family[page.at]
       IN page' = [page EXCEPT !.at = @ + 1,
                     !.best = IF hits > @.hits
                              THEN [name |-> Families[page.at], hits |-> hits] ELSE @]
ChooseFamily ==
    /\ page.pc = "families" /\ page.at > Len(Families)
    /\ page' = [page EXCEPT !.pc = "kits", !.at = 1]

Least(a, b) == IF a <= b THEN a ELSE b
FamilyConfidence(best) ==
    IF best = Generic THEN 0 ELSE Least(1000, 400 + 200 * best.hits)

\* composite.score: one signature is already "strong"
Weights == [m365 |-> <<45, 30, 20, 5>>, banking |-> <<35, 35, 25, 5>>,
            crypto |-> <<20, 55, 20, 5>>, payment |-> <<30, 45, 20, 5>>,
            support |-> <<50, 25, 20, 5>>]
Strong(best) == FamilyConfidence(best) >= 600

-----------------------------------------------------------------------------
\* _match_kit, for one kit of the database
KitHits(k) == page.of.text[k] + (IF page.parsed THEN page.of.tree[k] ELSE 0)
KitConfidence(hits) ==
    IF hits >= 2 THEN Least(1000, 550 + 150 * (hits - 1)) ELSE 450

Fingerprint ==
    /\ page.pc = "kits" /\ page.at <= Len(KitDb)
    /\ page' = [page EXCEPT !.at = @ + 1,
                  !.found = IF KitHits(page.at) = 0 THEN @
                            ELSE Append(@, [kit |-> KitDb[page.at],
                                            conf |-> KitConfidence(KitHits(page.at))])]

\* matches.sort by confidence, reversed, which keeps the order of equals
Sorted(s) ==
    LET before(i) == {j \in DOMAIN s : s[j].conf > s[i].conf
                                       \/ (s[j].conf = s[i].conf /\ j < i)}
    IN [n \in DOMAIN s |->
           s[CHOOSE i \in DOMAIN s : Cardinality(before(i)) = n - 1]]

\* check_js_bundles: in the order of the page's bundles
Bundled(bundles) == [i \in DOMAIN bundles |-> [kit |-> bundles[i], conf |-> 900]]

\* fingerprint(insp) + check_js_bundles(insp), and what the verdict is told
Name ==
    /\ page.pc = "kits" /\ page.at > Len(KitDb)
    /\ LET matches == Sorted(page.found) \o Bundled(page.of.bundles)
       IN page' = [pc |-> "named", of |-> page.of, parsed |-> page.parsed,
                   best |-> page.best, matches |-> matches,
                   family |-> IF Strong(page.best) THEN page.best.name ELSE "none",
                   weights |-> IF Strong(page.best) THEN Weights[page.best.name] ELSE <<>>,
                   kit |-> IF matches = <<>> THEN "none" ELSE matches[1].kit]

KitStep == (\E p \in Pages, parsed \in BOOLEAN : Render(p, parsed))
           \/ TryFamily \/ ChooseFamily \/ Fingerprint \/ Name
KitSpec == KitInit /\ [][KitStep]_page

-----------------------------------------------------------------------------
\* A page is weighed and named by the first family with the most signatures, and
\* by none only if it has none.  The kit named first is on the page, and no kit
\* in its HTML is surer; a surer bundle is passed over only for a kit with at
\* most three signatures in the HTML.
KitsAreNamed ==
    page.pc = "named" =>
        LET hits(i) == page.of.family[i]
            surer == {i \in DOMAIN page.matches : page.matches[i].conf > page.matches[1].conf}
        IN /\ page.family = "none" <=> \A i \in DOMAIN Families : hits(i) = 0
           /\ \A i, j \in DOMAIN Families :
                page.family = Families[i] =>
                    /\ hits(j) <= hits(i) /\ (j < i => hits(j) < hits(i))
                    /\ page.weights = Weights[Families[i]]
           /\ page.kit = "none" <=>
                /\ page.of.bundles = <<>>
                /\ \A k \in DOMAIN KitDb : KitHits(k) = 0
           /\ \A k \in DOMAIN KitDb :
                /\ KitHits(k) > 0 => \E n \in 1..Len(page.matches) :
                     /\ page.matches[n] = [kit |-> KitDb[k], conf |-> KitConfidence(KitHits(k))]
                     /\ page.matches[n].conf <= page.matches[1].conf
                /\ page.matches # <<>> /\ page.kit = KitDb[k] /\ surer # {} =>
                     KitHits(k) \in 1..3 /\ page.of.bundles # <<>>
=============================================================================
