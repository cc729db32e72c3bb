-------------------------------- MODULE Desk --------------------------------
(***************************************************************************)
(* What analysts and integrations do once they are let in: API keys and    *)
(* their administration, triage and notes of alerts, brands, notification  *)
(* preferences (src/api/app.py, admin_router.py, ops_router.py), the MCP   *)
(* tools and the copilot's loop over them.  People come in through         *)
(* Identity, integrations by an API key; all share its write lock.         *)
(***************************************************************************)
EXTENDS Identity

CONSTANTS
    Key,         \* rows of api_keys
    NoKey,       \* a request without a key
    Tenant,      \* rows of tenants
    NoTenant,    \* NULL in tenant_id
    Alert,       \* rows of alerts
    Actor,       \* names a client may give as triaged_by
    Wanted,      \* statuses clients ask for
    Nobody,      \* NULL in triaged_by
    BrandName,   \* names of brands
    KeyScopes,   \* the sets of scopes keys are issued with
    RequireAuth, \* settings.require_auth
    MaxTurns     \* bound: tool calls of one run of the copilot

Status == {"open", "triaged", "confirmed", "dismissed", "closed"}

ASSUME NoKeyAssumption == NoKey \notin Key
ASSUME NoTenantAssumption == NoTenant \notin Tenant
ASSUME DeskAssumption == /\ RequireAuth \in BOOLEAN
                         /\ KeyScopes \subseteq SUBSET Scope
                         /\ Wanted \subseteq Status
                         /\ MaxTurns \in Nat

VARIABLES
    key,     \* rows of api_keys
    alert,   \* rows of alerts
    brand,   \* number of rows of brands with this name
    note,    \* number of rows of alert_notes per alert
    pref,    \* number of rows of notification_prefs per user, for one kind
    fed,     \* feedback events per alert: outcomes in order
    desk,    \* the route each worker is serving
    agent,   \* the copilot's loop on each worker
    last,    \* the last triage of each alert that was committed, and its route
    torn     \* alerts, names and users two overlapping requests wrote

deskVars == <<key, alert, brand, note, pref, fed, desk, agent, last, torn>>
vars == <<idVars, deskVars>>

-----------------------------------------------------------------------------
\* triage_alert's outcome_map
Outcome(status) == CASE status = "confirmed" -> <<"true_positive">>
                     [] status = "dismissed" -> <<"false_positive">>
                     [] OTHER -> <<>>

NoRow == [state |-> "absent"]
ActiveKey == [state: {"active"}, tenant: Tenant, scopes: KeyScopes]

NoCall == [pc |-> "none"]
NoAgent == [pc |-> "none"]

DeskInit ==
    /\ IdInit
    /\ key \in [Key -> {NoRow} \cup ActiveKey]
    /\ alert \in [Alert -> [tenant: Tenant \cup {NoTenant}, status: {"open"},
                           by: {Nobody}]]
    /\ brand = [n \in BrandName |-> 0]
    /\ note = [a \in Alert |-> 0]
    /\ pref = [u \in User |-> 0]
    /\ fed = [a \in Alert |-> <<>>]
    /\ desk = [w \in Worker |-> NoCall]
    /\ agent = [w \in Worker |-> NoAgent]
    /\ last = [a \in Alert |-> [status |-> "open", by |-> Nobody,
                                kind |-> "none"]]
    /\ torn = {}

-----------------------------------------------------------------------------
Serving(w, kind) == desk[w].pc = "flushed" /\ desk[w].op.kind = kind

\* what two requests must not both have read before either wrote
Subject(op) ==
    CASE op.kind \in {"triage", "mark"} -> {op.alert}
      [] op.kind = "brand" -> {op.name}
      [] op.kind = "pref" -> {op.user}
      [] OTHER -> {}
Calls(w, op) ==
    /\ desk' = [desk EXCEPT ![w] = [pc |-> "read", op |-> op]]
    /\ torn' = torn \cup
        {x \in Subject(op) : \E v \in Worker \ {w} :
            desk[v].pc \in {"read", "flushed"} /\ x \in Subject(desk[v].op)}
    /\ UNCHANGED <<key, alert, brand, note, pref, fed, last>>

DeskFlush(w) ==
    /\ desk[w].pc = "read"
    /\ lock = NoWorker
    /\ lock' = w
    /\ desk' = [desk EXCEPT ![w].pc = "flushed"]
    /\ UNCHANGED <<user, session, token, req, begun, accepted, overlap, refused>>
    /\ UNCHANGED <<key, alert, brand, note, pref, fed, agent, last, torn>>

\* the route's session commits, and the worker is free
Done(w) ==
    /\ lock' = NoWorker
    /\ desk' = [desk EXCEPT ![w] = NoCall]
    /\ req' = [req EXCEPT ![w] = Idle]
    /\ UNCHANGED <<user, session, token, begun, accepted, overlap, refused, torn>>
\* an exception: HTTPException, the busy timeout, a restart
DeskRollback(w) ==
    /\ desk[w].pc \in {"read", "flushed"}
    /\ lock' = IF lock = w THEN NoWorker ELSE lock
    /\ desk' = [desk EXCEPT ![w] = NoCall]
    /\ req' = [req EXCEPT ![w] = IF agent[w] = NoAgent THEN Idle ELSE Busy]
    /\ UNCHANGED <<user, session, token, begun, accepted, overlap, refused>>
    /\ UNCHANGED <<key, alert, brand, note, pref, fed, agent, last, torn>>

-----------------------------------------------------------------------------
\* require_auth with a key: it is active when it is read, and last_used_at is
\* committed before the route runs
KeyRead(w, k) ==
    /\ Free(w)
    /\ begun < MaxRequests
    /\ key[k].state = "active"
    /\ begun' = begun + 1
    /\ req' = [req EXCEPT ![w] = Busy]
    /\ Calls(w, [kind |-> "key", key |-> k])
    /\ UNCHANGED <<user, session, token, lock, accepted, overlap, refused, agent>>

\* mutant: the row is written back as it was loaded, all columns of it
KeyCommit_WholeRow(w) ==
    LET k == desk[w].op.key
    IN /\ Serving(w, "key")
       /\ desk' = [desk EXCEPT ![w] = [pc |-> "keyed", key |-> k]]
       /\ key' = [key EXCEPT ![k].state = "active"]
       /\ lock' = NoWorker
       /\ UNCHANGED <<user, session, token, req, begun, accepted, overlap, refused>>
       /\ UNCHANGED <<alert, brand, note, pref, fed, agent, last, torn>>
KeyCommit(w) ==
    /\ Serving(w, "key")
    /\ desk' = [desk EXCEPT ![w] = [pc |-> "keyed", key |-> desk[w].op.key]]
    /\ lock' = NoWorker
    /\ UNCHANGED <<user, session, token, req, begun, accepted, overlap, refused>>
    /\ UNCHANGED <<key, alert, brand, note, pref, fed, agent, last, torn>>

\* require_auth without a header passes every scope, unless RequireAuth
Anonymous(w) ==
    /\ Free(w)
    /\ begun < MaxRequests
    /\ ~RequireAuth
    /\ begun' = begun + 1
    /\ req' = [req EXCEPT ![w] = Busy]
    /\ desk' = [desk EXCEPT ![w] = [pc |-> "keyed", key |-> NoKey]]
    /\ UNCHANGED <<user, session, token, lock, accepted, overlap, refused>>
    /\ UNCHANGED <<key, alert, brand, note, pref, fed, agent, last, torn>>

\* a route behind require_auth(scope)
ApiRoute(w, scope, op) ==
    /\ desk[w].pc = "keyed"
    /\ desk[w].key # NoKey => Satisfies(key[desk[w].key].scopes, {scope})
    /\ Calls(w, op)
    /\ UNCHANGED <<user, session, token, lock, req, begun, accepted, overlap, refused, agent>>

\* tenant isolation: a row without a tenant, and a caller without one, pass
Visible(k, tenant) ==
    k # NoKey => tenant \in {NoTenant, key[k].tenant}

\* POST /api/admin/tenants/{t}/keys and DELETE /api/admin/keys/{k}
IssueRead(w, k) ==
    /\ key[k].state = "absent"
    /\ \E s \in KeyScopes, t \in Tenant :
         ApiRoute(w, "admin:*", [kind |-> "issue", key |-> k, scopes |-> s,
                                 tenant |-> t])
IssueCommit(w) ==
    LET op == desk[w].op
    IN /\ Serving(w, "issue")
       /\ key[op.key].state = "absent"   \* ids are random
       /\ key' = [key EXCEPT ![op.key] = [state |-> "active", tenant |-> op.tenant,
                                          scopes |-> op.scopes]]
       /\ Done(w)
       /\ UNCHANGED <<alert, brand, note, pref, fed, agent, last>>

RevokeRead(w, k) ==
    /\ key[k].state # "absent"
    /\ ApiRoute(w, "admin:*", [kind |-> "revoke", key |-> k])
RevokeCommit(w) ==
    /\ Serving(w, "revoke")
    /\ key' = [key EXCEPT ![desk[w].op.key].state = "revoked"]
    /\ Done(w)
    /\ UNCHANGED <<alert, brand, note, pref, fed, agent, last>>

\* POST /api/brands: the name is looked up before the lock, and the column is
\* not unique (mutant: the name is not looked up)
BrandRead_NoLookup(w, n) ==
    ApiRoute(w, "brands:write", [kind |-> "brand", name |-> n])
BrandRead(w, n) ==
    /\ brand[n] = 0
    /\ ApiRoute(w, "brands:write", [kind |-> "brand", name |-> n])
BrandCommit(w) ==
    /\ Serving(w, "brand")
    /\ brand' = [brand EXCEPT ![desk[w].op.name] = @ + 1]
    /\ Done(w)
    /\ UNCHANGED <<key, alert, note, pref, fed, agent, last>>

\* POST /api/alerts/{a}/notes: a row of its own and its audit entry
NoteRead(w, a) ==
    /\ desk[w].pc = "keyed" /\ Visible(desk[w].key, alert[a].tenant)
    /\ ApiRoute(w, "alerts:triage", [kind |-> "note", alert |-> a])
NoteCommit(w) ==
    /\ Serving(w, "note")
    /\ note' = [note EXCEPT ![desk[w].op.alert] = @ + 1]
    /\ Done(w)
    /\ UNCHANGED <<key, alert, brand, pref, fed, agent, last>>

-----------------------------------------------------------------------------
\* POST /api/alerts/{a}/triage: any status may follow any other
TriageRead(w, a) ==
    /\ desk[w].pc = "keyed" /\ Visible(desk[w].key, alert[a].tenant)
    /\ \E status \in Wanted, by \in Actor :
         ApiRoute(w, "alerts:triage",
                  [kind |-> "triage", alert |-> a, status |-> status,
                   loaded |-> alert[a], by |-> by])

\* the ORM writes a column only when the new value differs from the loaded one
Columns(row, op) ==
    [row EXCEPT !.status = IF op.status = op.loaded.status THEN @ ELSE op.status,
                !.by = IF op.by = op.loaded.by THEN @ ELSE op.by]

\* mutant: a dismissed alert keeps its status
UpdateTriage_KeepsDismissed(op) ==
    /\ alert' = [alert EXCEPT ![op.alert] =
                   IF @.status = "dismissed" THEN [@ EXCEPT !.by = op.by]
                   ELSE Columns(@, op)]
    /\ last' = [last EXCEPT ![op.alert] = [status |-> op.status, by |-> op.by,
                                           kind |-> op.kind]]
\* AlertRepo.update_triage
UpdateTriage(op) ==
    /\ alert' = [alert EXCEPT ![op.alert] = Columns(@, op)]
    /\ last' = [last EXCEPT ![op.alert] = [status |-> op.status, by |-> op.by,
                                           kind |-> op.kind]]

\* with the feedback event of a final outcome and the audit entry
TriageCommit(w) ==
    LET op == desk[w].op
    IN /\ Serving(w, "triage")
       /\ UpdateTriage(op)
       /\ fed' = [fed EXCEPT ![op.alert] = @ \o Outcome(op.status)]
       /\ Done(w)
       /\ UNCHANGED <<key, brand, note, pref, agent>>

\* mark_triaged, from an MCP host or the copilot: the caller names the analyst;
\* no tenant, no audit entry and no feedback event; a status that is no
\* AlertStatus raises before the session
Mark(w, a) ==
    \E status \in Wanted, by \in Actor :
        Calls(w, [kind |-> "mark", alert |-> a, status |-> status,
                  loaded |-> alert[a], by |-> by])

\* the MCP server is a process of its own: its requests need no login
McpMark(w, a) ==
    /\ Free(w)
    /\ begun < MaxRequests
    /\ begun' = begun + 1
    /\ req' = [req EXCEPT ![w] = Busy]
    /\ Mark(w, a)
    /\ UNCHANGED <<user, session, token, lock, accepted, overlap, refused, agent>>

McpCommit(w) ==
    /\ Serving(w, "mark")
    /\ agent[w] = NoAgent
    /\ UpdateTriage(desk[w].op)
    /\ Done(w)
    /\ UNCHANGED <<key, brand, note, pref, fed, agent>>

-----------------------------------------------------------------------------
\* deps.require: the resolved caller's role grants the permission
Permitted(w, permission) ==
    req[w].pc = "authed" /\ Permits(req[w].role, {permission})

\* POST /notifications/prefs: get_pref before the lock, then INSERT or UPDATE
PrefRead(w) ==
    /\ Permitted(w, "notifications:manage")
    /\ Calls(w, [kind |-> "pref", user |-> req[w].user,
                 new |-> pref[req[w].user] = 0])
    /\ req' = [req EXCEPT ![w] = Busy]
    /\ UNCHANGED <<user, session, token, lock, begun, accepted, overlap, refused, agent>>
PrefCommit(w) ==
    LET op == desk[w].op
    IN /\ Serving(w, "pref")
       /\ pref' = [pref EXCEPT ![op.user] = IF op.new THEN @ + 1 ELSE @]
       /\ Done(w)
       /\ UNCHANGED <<key, alert, brand, note, fed, agent, last>>

-----------------------------------------------------------------------------
\* POST /copilot/ask: allow_actions asks for the stronger permission
CopilotAsk(w, act) ==
    /\ Permitted(w, "alerts:read")
    /\ act => Permitted(w, "alerts:triage")
    /\ agent' = [agent EXCEPT ![w] = [pc |-> "loop", user |-> req[w].user,
                   act |-> act, turn |-> 0]]
    /\ req' = [req EXCEPT ![w] = Busy]
    /\ UNCHANGED <<user, session, token, lock, begun, accepted, overlap, refused>>
    /\ UNCHANGED <<key, alert, brand, note, pref, fed, desk, last, torn>>

Looping(w) == agent[w] # NoAgent /\ desk[w] = NoCall

\* one tool call of _live_answer: a read, a disabled tool, or mark_triaged
AgentReads(w) ==
    /\ Looping(w)
    /\ agent[w].turn < MaxTurns
    /\ agent' = [agent EXCEPT ![w].turn = @ + 1]
    /\ UNCHANGED <<user, session, token, lock, req, begun, accepted, overlap, refused>>
    /\ UNCHANGED <<key, alert, brand, note, pref, fed, desk, last, torn>>

AgentMarks(w, a) ==
    /\ Looping(w)
    /\ agent[w].act
    /\ agent[w].turn < MaxTurns
    /\ agent' = [agent EXCEPT ![w].turn = @ + 1]
    /\ Mark(w, a)
    /\ UNCHANGED <<user, session, token, lock, req, begun, accepted, overlap, refused>>

\* the tool's own session commits, and _dispatch returns to the loop
AgentCommit(w) ==
    /\ Serving(w, "mark")
    /\ agent[w] # NoAgent
    /\ UpdateTriage(desk[w].op)
    /\ lock' = NoWorker
    /\ desk' = [desk EXCEPT ![w] = NoCall]
    /\ UNCHANGED <<user, session, token, req, begun, accepted, overlap, refused>>
    /\ UNCHANGED <<key, brand, note, pref, fed, agent, torn>>

\* the model stops, or the ceiling is reached and it is asked once more; or a
\* call to it raises, and _mock_answer only reads what it answers from
AgentEnds(w) ==
    /\ Looping(w)
    /\ agent' = [agent EXCEPT ![w] = NoAgent]
    /\ req' = [req EXCEPT ![w] = Idle]
    /\ UNCHANGED <<user, session, token, lock, begun, accepted, overlap, refused>>
    /\ UNCHANGED <<key, alert, brand, note, pref, fed, desk, last, torn>>

Admin(w) ==
    \/ \E k \in Key : KeyRead(w, k) \/ IssueRead(w, k) \/ RevokeRead(w, k)
    \/ Anonymous(w) \/ KeyCommit(w) \/ IssueCommit(w) \/ RevokeCommit(w)
Analyst(w) ==
    \/ \E a \in Alert : TriageRead(w, a) \/ NoteRead(w, a) \/ McpMark(w, a)
    \/ \E n \in BrandName : BrandRead(w, n)
    \/ TriageCommit(w) \/ NoteCommit(w) \/ McpCommit(w) \/ BrandCommit(w)
    \/ PrefRead(w) \/ PrefCommit(w)
Copilot(w) ==
    \/ \E act \in BOOLEAN : CopilotAsk(w, act)
    \/ \E a \in Alert : AgentMarks(w, a)
    \/ AgentReads(w) \/ AgentCommit(w) \/ AgentEnds(w)

DeskNext ==
    \/ IdNext /\ UNCHANGED deskVars
    \/ \E w \in Worker : \/ DeskFlush(w) \/ DeskRollback(w)
                          \/ Admin(w) \/ Analyst(w) \/ Copilot(w)

DeskSpec == DeskInit /\ [][DeskNext]_vars

-----------------------------------------------------------------------------
\* A revoked session and a revoked API key are never good again: the requests
\* that were loading them store last_seen_at and last_used_at and leave the
\* revocation alone, and a second issue takes a new row.
RevokedForGood ==
    [][/\ \A i \in DOMAIN session : session[i].revoked => session'[i].revoked
       /\ \A k \in Key : key[k].state = "revoked" => key'[k] = key[k]]_vars

\* An alert shows the status and the analyst of one triage, the last that was
\* committed, and if that triage was a final one through the API its outcome is
\* the alert's latest feedback event; unless two triages overlapped: then the
\* ORM may keep the status of one under the name of the other.
TriageIsWhole ==
    \A a \in Alert \ torn :
        /\ alert[a].status = last[a].status
        /\ alert[a].by = last[a].by
        /\ last[a].kind = "triage" => IsSuffix(Outcome(alert[a].status), fed[a])

\* No two brands have one name and no user has two preferences for a kind,
\* unless two requests looked it up before either had inserted: neither column
\* is unique.
NoTwins == /\ \A n \in BrandName \ torn : brand[n] <= 1
           /\ \A u \in User \ torn : pref[u] <= 1
=============================================================================
