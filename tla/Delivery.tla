------------------------------ MODULE Delivery ------------------------------
(***************************************************************************)
(* dispatch_alert (src/delivery/webhooks.py) tells the configured          *)
(* destinations of an alert, one after the other, by HTTP.  Some are tried *)
(* once, some through post_with_retry (src/delivery/integration_base.py).  *)
(* A request may arrive late or never, and its answer may be lost: whoever *)
(* sends knows what the answer says and nothing else.                      *)
(***************************************************************************)
EXTENDS Naturals, Sequences

CONSTANTS
    Alert,        \* alerts, each dispatched by the sweep that raised it
    Configured,   \* destinations the settings name
    MaxAttempts   \* max_attempts of post_with_retry

Order == <<"slack", "splunk", "generic", "servicenow", "sentinel",
           "pagerduty", "taxii">>
Dest == {"slack", "splunk", "generic", "servicenow", "sentinel",
         "pagerduty", "taxii"}
Retried == {"servicenow", "pagerduty", "taxii"}
\* httpx calls under "except Exception": no answer can raise out of them
Guarded == {"slack", "splunk", "generic"}

ASSUME ConfiguredAssumption == Configured \subseteq Dest
ASSUME AttemptsAssumption == MaxAttempts \in Nat \ {0}

VARIABLES
    pages,   \* alerts of a severity PagerDuty wakes somebody for
    job,     \* where the dispatch of each alert is
    try,     \* the attempts made, per alert and destination
    status   \* the statuses dispatch_alert will return

deliveryVars == <<pages, job, try, status>>

-----------------------------------------------------------------------------
Stops == Len(Order)
\* where a request is (a lost one stays on the wire), and how its attempt ended
\* for the sender
Attempt == [where: {"wire", "accepted", "rejected"},
            end: {"open", "ok", "busy", "refused", "silent", "garbled"}]
Job == [pc: {"idle", "ready", "waiting", "done", "broken"}, at: 1..(Stops + 1)]

DeliveryTypeOK ==
    /\ pages \subseteq Alert
    /\ job \in [Alert -> Job]
    /\ try \in [Alert -> [Dest -> Seq(Attempt)]]
    /\ status \in [Alert -> [Dest -> {"none", "ok", "fail"}]]

DeliveryInit ==
    /\ pages \in SUBSET Alert
    /\ job = [a \in Alert |-> [pc |-> "idle", at |-> 1]]
    /\ try = [a \in Alert |-> [d \in Dest |-> <<>>]]
    /\ status = [a \in Alert |-> [d \in Dest |-> "none"]]

\* the next destination of an alert whose dispatch has not ended
At(a) == Order[job[a].at]
Due(a, pc) == job[a].pc = pc /\ job[a].at <= Stops
\* trigger_pagerduty returns None for severities below HIGH
Wants(a, d) == d \in Configured /\ (d = "pagerduty" => a \in pages)
Tried(a) == Len(try[a][At(a)])
Limit(d) == IF d \in Retried THEN MaxAttempts ELSE 1

-----------------------------------------------------------------------------
Start(a) ==
    /\ job[a].pc = "idle"
    /\ job' = [job EXCEPT ![a].pc = "ready"]
    /\ UNCHANGED <<pages, try, status>>

\* not configured, or not for this severity: no status at all
Skip(a) ==
    /\ Due(a, "ready")
    /\ ~Wants(a, At(a))
    /\ job' = [job EXCEPT ![a].at = @ + 1]
    /\ UNCHANGED <<pages, try, status>>

Send(a) ==
    /\ Due(a, "ready")
    /\ Wants(a, At(a))
    /\ try' = [try EXCEPT ![a][At(a)] =
                 Append(@, [where |-> "wire", end |-> "open"])]
    /\ job' = [job EXCEPT ![a].pc = "waiting"]
    /\ UNCHANGED <<pages, status>>

Finish(a) ==
    /\ job[a] = [pc |-> "ready", at |-> Stops + 1]
    /\ job' = [job EXCEPT ![a].pc = "done"]
    /\ UNCHANGED <<pages, try, status>>

\* the network and the destination, at any time, also after the sender left
Arrive(a, d, n, where) ==
    /\ try[a][d][n].where = "wire"
    /\ try' = [try EXCEPT ![a][d][n].where = where]
    /\ UNCHANGED <<pages, job, status>>

-----------------------------------------------------------------------------
Answered(a, where, end) ==
    /\ Due(a, "waiting")
    /\ try[a][At(a)][Tried(a)].where \in where
    /\ try' = [try EXCEPT ![a][At(a)][Tried(a)].end = end]
    /\ UNCHANGED pages

\* the destination's status is known, and the next one is due
Settles(a, result) ==
    /\ status' = [status EXCEPT ![a][At(a)] = result]
    /\ job' = [job EXCEPT ![a] = [pc |-> "ready", at |-> job[a].at + 1]]

\* mutant: 200 is not taken for success
Succeed_After200(a) ==
    /\ Answered(a, {"accepted"}, "ok")
    /\ IF Tried(a) < Limit(At(a))
       THEN job' = [job EXCEPT ![a].pc = "ready"] /\ UNCHANGED status
       ELSE Settles(a, "fail")
\* 2xx
Succeed(a) ==
    /\ Answered(a, {"accepted"}, "ok")
    /\ Settles(a, "ok")

\* mutant: the refusal ends the whole dispatch
Refuse_EndsAll(a) ==
    /\ Answered(a, {"rejected"}, "refused")
    /\ status' = [status EXCEPT ![a][At(a)] = "fail"]
    /\ job' = [job EXCEPT ![a] = [pc |-> "done", at |-> Stops + 1]]
\* 4xx except 408 and 429: the loop is left
Refuse(a) ==
    /\ Answered(a, {"rejected"}, "refused")
    /\ Settles(a, "fail")

\* after a failed attempt that may be repeated
Again(a) ==
    IF Tried(a) < Limit(At(a))
    THEN /\ job' = [job EXCEPT ![a].pc = "ready"]
         /\ UNCHANGED status
    ELSE Settles(a, "fail")

\* 5xx, 408, 429, 3xx: also from a gateway behind which the POST was accepted
Busy(a) == Answered(a, {"accepted", "rejected"}, "busy") /\ Again(a)

\* mutant: the deadline is renewed, the request is not sent again
TimeOut_Renews(a) ==
    /\ Due(a, "waiting")
    /\ UNCHANGED deliveryVars
\* URLError, TimeoutError, OSError: whatever became of the request
TimeOut(a) ==
    /\ Answered(a, {"wire", "accepted", "rejected"}, "silent")
    /\ Again(a)

\* http.client.HTTPException, an answer that is no HTTP, is none of the errors
\* that are caught: it leaves dispatch_alert, and the sweep counts an error
Garble(a) ==
    /\ Answered(a, {"accepted", "rejected"}, "garbled")
    /\ At(a) \notin Guarded
    /\ job' = [job EXCEPT ![a].pc = "broken"]
    /\ UNCHANGED status

Dispatch(a) ==
    Start(a) \/ Skip(a) \/ Send(a) \/ Finish(a) \/ Succeed(a) \/ Refuse(a)
    \/ Busy(a) \/ TimeOut(a) \/ Garble(a)
Network ==
    \E a \in Alert, d \in Dest : \E n \in 1..Len(try[a][d]) :
        \E where \in {"accepted", "rejected"} : Arrive(a, d, n, where)

DeliveryNext == (\E a \in Alert : Dispatch(a)) \/ Network

DeliverySpec == DeliveryInit /\ [][DeliveryNext]_deliveryVars

-----------------------------------------------------------------------------
Accepted(a, d) == {n \in 1..Len(try[a][d]) : try[a][d][n].where = "accepted"}

\* A status says what happened as far as the sender can know: "ok" only if the
\* last request was accepted, "fail" for an accepted one only if some attempt
\* ended without a clear answer; and a second copy of an alert exists only
\* because the attempt before it was answered "busy" or not at all.
CopiesAreExplained ==
    \A a \in Alert, d \in Dest :
        LET t == try[a][d]
            unclear == {n \in DOMAIN t : t[n].end \in {"busy", "silent"}}
        IN /\ status[a][d] = "ok" => t # <<>> /\ Len(t) \in Accepted(a, d) \ unclear
           /\ status[a][d] = "fail" /\ Accepted(a, d) # {} => unclear # {}
           /\ \A n \in 1..Len(t) : n < Len(t) => n \in unclear

\* A dispatch that ended has a status for every destination that wanted the
\* alert; one that broke has it for all before the destination that broke it,
\* and the later ones were not tried at all.
NobodyIsSkipped ==
    \A a \in Alert : \A i \in 1..Stops :
        Wants(a, Order[i]) =>
            /\ job[a].pc = "done" => status[a][Order[i]] # "none"
            /\ job[a].pc = "broken" =>
                 /\ i < job[a].at <=> status[a][Order[i]] # "none"
                 /\ i > job[a].at => try[a][Order[i]] = <<>>
=============================================================================
