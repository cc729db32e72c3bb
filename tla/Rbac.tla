-------------------------------- MODULE Rbac --------------------------------
(***************************************************************************)
(* Who may do what: the permission matrix of src/common/rbac.py and the    *)
(* scopes of API keys of src/common/tenants.py.                            *)
(* Pure data; Identity and Desk read it where the routes depend on it.     *)
(***************************************************************************)
Reads == {"brands:read", "inspection:read", "alerts:read", "reports:read"}
Triage == {"alerts:triage", "alerts:assign", "review:read", "review:escalate",
           "takedown:draft", "reports:generate", "notifications:manage"}
OwnerOnly == {"account:manage", "billing:manage"}
AllInAccount ==
    Reads \cup Triage \cup OwnerOnly \cup
    {"brands:write", "brands:delete", "discovery:run", "review:decide",
     "takedown:approve", "takedown:submit", "audit:read", "audit:export",
     "members:read", "members:invite", "members:manage", "apikeys:manage"}
Permission == AllInAccount \cup {"platform:admin"}

Role == {"owner", "admin", "analyst", "reviewer", "viewer", "service",
         "platform"}

\* _ROLE_PERMISSIONS and permissions_for
Grants ==
    [viewer   |-> Reads \cup {"notifications:manage"},
     service  |-> Reads \cup {"review:read", "discovery:run",
                              "reports:generate", "audit:read"},
     analyst  |-> Reads \cup Triage \cup {"brands:write", "discovery:run"},
     reviewer |-> Reads \cup Triage \cup {"review:decide", "takedown:approve"},
     admin    |-> AllInAccount \ OwnerOnly,
     owner    |-> AllInAccount,
     platform |-> Permission]

\* deps.require: every permission the route names is granted to the role
Permits(role, required) == required \subseteq Grants[role]

-----------------------------------------------------------------------------
Scope == {"alerts:read", "alerts:triage", "brands:read", "brands:write",
          "discovery:run", "admin:*"}

\* key_satisfies for every scope a route requires
Satisfies(scopes, required) ==
    "admin:*" \in scopes \/ required \subseteq scopes
=============================================================================
