------------------------------ MODULE Notices ------------------------------
(***************************************************************************)
(* Notifications (src/common/notifications.py).  notify writes a row in    *)
(* its caller's transaction and mails whoever wants to know, before that   *)
(* transaction commits: its first INSERT holds SQLite's write lock while   *)
(* the mail goes out, so neither a preference nor another notice can       *)
(* change in between, but the caller may still roll back.                  *)
(***************************************************************************)
EXTENDS Naturals, Sequences

CONSTANTS
    Member,      \* users with a membership of the account
    Stored,      \* preferences a member may store
    MaxNotices   \* bound: notices made

ASSUME NoticesAssumption ==
    /\ MaxNotices \in Nat
    /\ Stored \subseteq [kind: {"stored"}, email: BOOLEAN, min: 0..2]

VARIABLES
    active,   \* members whose user is active
    pref,     \* the preference each member has stored for the kind of event
    notice,   \* the notices made, with the preferences of that moment (history)
    tx,       \* where the open transaction is
    mailed    \* mails that reached a member: pairs of a notice and the member

noticeVars == <<active, pref, notice, tx, mailed>>

-----------------------------------------------------------------------------
Severities == 0..2   \* info, warning, critical
NoPref == [kind |-> "default"]

\* no preference: mail from "warning" on.  in_app is stored and never read.
Allows(p, severity) ==
    IF p = NoPref THEN severity >= 1 ELSE p.email /\ severity >= p.min

\* mutant: the user's own is_active is not looked at
Recipients_Anybody(n, prefs) ==
    {u \in Member : /\ notice[n].to \in {u, "everybody"}
                    /\ Allows(prefs[u], notice[n].severity)}
Recipients(n, prefs) ==
    {u \in active : /\ notice[n].to \in {u, "everybody"}
                    /\ Allows(prefs[u], notice[n].severity)}

NoTx == [pc |-> "none"]

NoticeInit ==
    /\ active \in SUBSET Member
    /\ pref = [u \in Member |-> NoPref]
    /\ notice = <<>>
    /\ tx = NoTx
    /\ mailed = {}

-----------------------------------------------------------------------------
Newest == Len(notice)

Notify(to, severity) ==
    /\ tx = NoTx
    /\ Newest < MaxNotices
    /\ notice' = Append(notice, [to |-> to, severity |-> severity, state |-> "open",
                                 emailed |-> FALSE, read |-> FALSE, prefs |-> pref])
    /\ tx' = [pc |-> "resolve"]
    /\ UNCHANGED <<active, pref, mailed>>

\* _recipients
Resolve ==
    /\ tx.pc = "resolve"
    /\ tx' = IF Recipients(Newest, pref) = {} THEN [pc |-> "end"]
             ELSE [pc |-> "send", to |-> Recipients(Newest, pref)]
    /\ UNCHANGED <<active, pref, notice, mailed>>

\* _send_smtp: not configured, failed, cut short, refused for some, or sent
SendMail ==
    /\ tx.pc = "send"
    /\ \E reached \in SUBSET tx.to :
         mailed' = mailed \cup ({Newest} \X reached)
    /\ tx' = [pc |-> "mark"]
    /\ UNCHANGED <<active, pref, notice>>

\* emailed_at is set whatever became of the mail
MarkEmailed ==
    /\ tx.pc = "mark"
    /\ notice' = [notice EXCEPT ![Newest].emailed = TRUE]
    /\ tx' = [pc |-> "end"]
    /\ UNCHANGED <<active, pref, mailed>>

\* the caller's session_scope; it may raise at any time
Keep ==
    /\ tx.pc = "end"
    /\ notice' = [notice EXCEPT ![Newest].state = "kept"]
    /\ tx' = NoTx
    /\ UNCHANGED <<active, pref, mailed>>
Undo ==
    /\ tx # NoTx
    /\ notice' = [notice EXCEPT ![Newest].state = "undone"]
    /\ tx' = NoTx
    /\ UNCHANGED <<active, pref, mailed>>

SetPref(u, p) ==
    /\ tx = NoTx
    /\ pref' = [pref EXCEPT ![u] = p]
    /\ UNCHANGED <<active, notice, tx, mailed>>

\* mark_read: by anybody, and for everybody
MarkRead(n) ==
    /\ tx = NoTx
    /\ notice[n].state = "kept" /\ ~notice[n].read
    /\ notice' = [notice EXCEPT ![n].read = TRUE]
    /\ UNCHANGED <<active, pref, tx, mailed>>

NoticeNext ==
    \/ \E to \in Member \cup {"everybody"}, severity \in Severities : Notify(to, severity)
    \/ Resolve \/ SendMail \/ MarkEmailed \/ Keep \/ Undo
    \/ \E u \in Member, p \in Stored : SetPref(u, p)
    \/ \E n \in DOMAIN notice : MarkRead(n)

NoticeSpec == NoticeInit /\ [][NoticeNext]_noticeVars

-----------------------------------------------------------------------------
\* Nobody is mailed who is inactive, not addressed, or whose preference at that
\* moment says no; a committed notice says "emailed" exactly if somebody should
\* have been mailed; a mail without such a notice is one whose transaction was
\* undone or is still open; and no severity is mailed to somebody who would not
\* be mailed a graver one.
NoticesReach ==
    /\ \A m \in mailed :
         LET n == notice[m[1]]
         IN /\ m[2] \in active /\ n.to \in {m[2], "everybody"}
            /\ Allows(n.prefs[m[2]], n.severity)
            /\ \A graver \in Severities : graver > n.severity => Allows(n.prefs[m[2]], graver)
            /\ n.state = "kept" => n.emailed
    /\ \A n \in DOMAIN notice :
         /\ notice[n].state = "kept" =>
              (notice[n].emailed <=> Recipients(n, notice[n].prefs) # {})
         /\ notice[n].state = "open" => n = Newest /\ tx # NoTx
=============================================================================
