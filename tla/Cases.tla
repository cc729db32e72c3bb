------------------------------- MODULE Cases -------------------------------
(***************************************************************************)
(* The life of a takedown case (src/delivery/takedown): its routing, the   *)
(* ladder of escalation, the clock of its SLA, and the two ways a request  *)
(* leaves the house, submit_takedown's providers and the hosting report.   *)
(***************************************************************************)
EXTENDS Integers, Sequences, FiniteSets

CONSTANT MaxDay   \* bound: the clock

ASSUME DayAssumption == MaxDay \in Nat

VARIABLES
    case,      \* the case: its channels, and its SlaTracker's history
    decision,  \* what EscalationLadder.decide answered last
    filing,    \* a request to a provider or a host, and its answer
    day        \* the clock

caseVars == <<case, decision, filing, day>>

-----------------------------------------------------------------------------
Routing == [domain |-> <<"registrar", "host", "google_safebrowsing", "apwg_ecrime">>,
            url |-> <<"host", "google_safebrowsing", "apwg_ecrime">>,
            social |-> <<"social_platform">>,
            app |-> <<"app_store">>,
            cert |-> <<"cert_revocation">>]
Cooperative == {"google_safebrowsing", "apwg_ecrime", "registrar",
                "social_platform", "app_store"}
LegalProne == {"host"}

SlaNext == [filed |-> {"acknowledged", "rejected"},
            acknowledged |-> {"in_progress", "rejected"},
            in_progress |-> {"resolved", "rejected"},
            resolved |-> {}, rejected |-> {}]

NoCase == [kind |-> "none"]
NoDecision == [tier |-> "none"]
NoFiling == [by |-> "nobody"]

CaseInit ==
    /\ case = NoCase
    /\ decision = NoDecision
    /\ filing = NoFiling
    /\ day = 0

\* route_takedown: every type of the enumeration has its channels
Route(kind) ==
    /\ case = NoCase
    /\ filing = NoFiling
    /\ case' = [kind |-> kind, channels |-> Routing[kind],
                history |-> <<[state |-> "filed", at |-> day]>>]
    /\ UNCHANGED <<decision, filing, day>>

-----------------------------------------------------------------------------
\* EscalationLadder.decide reads the case; the case keeps its own tier, "auto"
Tier(channels, cooperates) ==
    IF channels \cap Cooperative # {} /\ cooperates THEN "auto"
    ELSE IF ~cooperates
              \/ (channels \cap LegalProne # {} /\ channels \cap Cooperative = {})
         THEN "legal" ELSE "analyst"

Channels == {case.channels[i] : i \in DOMAIN case.channels}

Decide(cooperates) ==
    /\ case # NoCase
    /\ decision' = [tier |-> Tier(Channels, cooperates), cooperates |-> cooperates,
                    human |-> Tier(Channels, cooperates) # "auto"]
    /\ UNCHANGED <<case, filing, day>>

-----------------------------------------------------------------------------
State == case.history[Len(case.history)].state

\* SlaTracker.transition raises for any other state and changes nothing
Transition(to) ==
    /\ case # NoCase
    /\ to \in SlaNext[State]
    /\ case' = [case EXCEPT !.history = Append(@, [state |-> to, at |-> day])]
    /\ UNCHANGED <<decision, filing, day>>

Resolutions == {i \in DOMAIN case.history : case.history[i].state = "resolved"}
TimeToResolution ==
    IF Resolutions = {} THEN {}
    ELSE LET first == CHOOSE i \in Resolutions : \A j \in Resolutions : i <= j
         IN {case.history[first].at - case.history[1].at}

NextDay == day < MaxDay /\ day' = day + 1 /\ UNCHANGED <<case, decision, filing>>

-----------------------------------------------------------------------------
\* the order of registration: that of the route's imports
Providers == <<"cloudflare", "namecheap", "godaddy">>
Known == {"cloudflare", "namecheap", "godaddy"}

\* a site is [registrar: the providers its name contains, cf: the host says so]
SupportsCloudflare(site, mock) == mock \/ site.cf
SupportsNamecheap(site) == "namecheap" \in site.registrar
SupportsGoDaddy(site) == "godaddy" \in site.registrar
Supports(p, site, mock) ==
    CASE p = "cloudflare" -> SupportsCloudflare(site, mock)
      [] p = "namecheap" -> SupportsNamecheap(site)
      [] p = "godaddy" -> SupportsGoDaddy(site)

Takers(enabled, site, mock) ==
    {i \in DOMAIN Providers :
        Providers[i] \in enabled /\ Supports(Providers[i], site, mock)}

\* each provider's submit invents a case id in mock mode and fails in live mode
Succeeds(p, mock) == mock

\* a request reads nothing of the case; bound: one, when there is no case
MayFile == filing = NoFiling /\ case = NoCase /\ day = 0

\* submit_takedown: the first that takes it, and nobody after one that failed
Submit(enabled, site, mock) ==
    LET takers == Takers(enabled, site, mock)
        first == CHOOSE i \in takers : \A j \in takers : i <= j
        answer(p, ok) == [by |-> "providers", enabled |-> enabled, site |-> site,
                          mock |-> mock, provider |-> p, success |-> ok]
    IN /\ MayFile
       /\ filing' = IF takers = {} THEN answer("none", FALSE)
                    ELSE answer(Providers[first], Succeeds(Providers[first], mock))
       /\ UNCHANGED <<case, decision, day>>

-----------------------------------------------------------------------------
AbuseChannels == <<"aws", "gcp", "hetzner", "ovh", "hostinger", "cloudflare">>

\* host_from_asn: words are those of its names the organisation contains
HostOf(words) ==
    LET named == {i \in DOMAIN AbuseChannels : AbuseChannels[i] \in words}
    IN IF named # {} THEN AbuseChannels[CHOOSE i \in named : \A j \in named : i <= j]
       ELSE IF "amazon" \in words THEN "aws"
       ELSE IF "google" \in words THEN "gcp"
       ELSE "cloudflare"

\* HostingAbuseReporter.submit
ReportHost(words, approved) ==
    /\ MayFile
    /\ filing' = [by |-> "host", words |-> words, provider |-> HostOf(words),
                  approved |-> approved, success |-> approved]
    /\ UNCHANGED <<case, decision, day>>

CaseNext ==
    \/ \E kind \in DOMAIN Routing : Route(kind)
    \/ \E cooperates \in BOOLEAN : Decide(cooperates)
    \/ \E to \in DOMAIN SlaNext : Transition(to)
    \/ NextDay
    \/ \E enabled \in SUBSET Known, registrar \in SUBSET {"namecheap", "godaddy"},
          cf \in BOOLEAN, mock \in BOOLEAN :
          Submit(enabled, [registrar |-> registrar, cf |-> cf], mock)
    \/ \E words \in SUBSET {"aws", "ovh", "amazon", "google"}, approved \in BOOLEAN :
          ReportHost(words, approved)

CaseSpec == CaseInit /\ [][CaseNext]_caseVars

-----------------------------------------------------------------------------
\* A history only moves forward: resolved only after acknowledged and in
\* progress, nothing after it is closed, and the time to resolution is the whole
\* time of the case.
HistoryIsAPath ==
    case # NoCase =>
        LET h == case.history
            was(s) == \E i \in DOMAIN h : h[i].state = s
        IN /\ \A i, j \in DOMAIN h : i < j =>
                /\ h[i].state # h[j].state /\ h[i].at <= h[j].at
                /\ h[i].state \notin {"resolved", "rejected"}
           /\ h[1].state = "filed"
           /\ was("resolved") => was("acknowledged") /\ was("in_progress")
           /\ TimeToResolution = IF State = "resolved"
                                 THEN {h[Len(h)].at - h[1].at} ELSE {}

\* Nothing is filed without a human unless some channel of the case and the host
\* cooperate; a host that does not always means lawyers.
LadderIsCareful ==
    decision # NoDecision =>
        /\ ~decision.human => decision.cooperates /\ Channels \cap Cooperative # {}
        /\ ~decision.cooperates => decision.tier = "legal"
        /\ case.kind = "cert" => decision.human

\* Who is told of a site serves it and is enabled, and is the only one told: no
\* other is asked when it fails, and outside mock mode every provider fails.
FilingIsHonest ==
    /\ filing.by = "providers" =>
         LET takers == {p \in filing.enabled : Supports(p, filing.site, filing.mock)}
         IN /\ filing.provider \in takers \cup {"none"}
            /\ filing.provider = "none" <=> takers = {}
            /\ filing.success <=> filing.mock /\ takers # {}
            /\ filing.mock /\ "cloudflare" \in filing.enabled =>
                 filing.provider = "cloudflare"
    /\ filing.by = "host" =>
         /\ filing.success => filing.approved
         /\ filing.words \cap {"aws", "ovh"} # {} => filing.provider \in filing.words

CasesAreTraceable == HistoryIsAPath /\ LadderIsCareful /\ FilingIsHonest
=============================================================================
