----------------------------- MODULE ReviewGate -----------------------------
(***************************************************************************)
(* What the human-in-the-loop gate of src/common/review.py promises: an    *)
(* item queued for review is decided by a human once, and the decision     *)
(* stands.  ReviewQueue is the code; this module is what it is checked     *)
(* against, and what a takedown may rely on.                               *)
(***************************************************************************)
CONSTANTS
    Item,       \* review items
    Verdict,    \* verdicts a reviewer may record, "phish" and "benign" among them
    NoVerdict   \* no human has given one: the NULL in human_verdict

VARIABLE review

Outcomes == {"approved", "rejected", "escalated"}

Absent == [state |-> "absent", human |-> NoVerdict]
Pending == [state |-> "pending", human |-> NoVerdict]

GateTypeOK ==
    review \in [Item -> [state: {"absent", "pending"} \cup Outcomes,
                         human: Verdict \cup {NoVerdict}]]

GateInit == review = [i \in Item |-> Absent]

Enqueue(i) ==
    /\ review[i] = Absent
    /\ review' = [review EXCEPT ![i] = Pending]

Decide(i) ==
    /\ review[i] = Pending
    /\ \E o \in Outcomes, h \in Verdict \cup {NoVerdict} :
        /\ o = "escalated" <=> h = NoVerdict
        /\ review' = [review EXCEPT ![i] = [state |-> o, human |-> h]]

GateNext == \E i \in Item : Enqueue(i) \/ Decide(i)

GateSpec == GateInit /\ [][GateNext]_review

Eligible(r) == r.state = "approved" /\ r.human = "phish"
=============================================================================
