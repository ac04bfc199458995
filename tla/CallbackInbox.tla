---------------------------- MODULE CallbackInbox ----------------------------
(***************************************************************************)
(* What the manager promises the scanner about its callbacks, whoever      *)
(* sends them and however many at once: a body is recorded in one step,    *)
(* under its event id, for good; a revision with a row is not received     *)
(* again; a review is opened in the step that receives, and stays.         *)
(* ScannerWebhook, with its two advisory locks and three reads, is shown   *)
(* to implement this specification.                                        *)
(***************************************************************************)
CONSTANTS
    Bodies,   \* callback bodies: event id and document revision among others
    Reviews,  \* received results are put up for review (BOOLEAN)
    None

VARIABLE inbox   \* event id -> [state, body, review]

Ids == {p.event : p \in Bodies}

Nothing == [state |-> "absent", body |-> None, review |-> FALSE]

\* No body of this revision has a row.
FirstOfRevision(p) ==
    \A e \in Ids : inbox[e] # Nothing => inbox[e].body.doc # p.doc

Init == inbox = [e \in Ids |-> Nothing]

Receive(p) ==
    /\ inbox[p.event] = Nothing
    /\ FirstOfRevision(p)
    /\ inbox' = [inbox EXCEPT ![p.event] =
                    [state |-> "received", body |-> p, review |-> Reviews]]

\* A body that comes twice, or at the wrong time, is kept and not reviewed.
Quarantine(p) ==
    /\ inbox[p.event] = Nothing
    /\ inbox' = [inbox EXCEPT ![p.event] =
                    [state |-> "quarantined", body |-> p, review |-> FALSE]]

\* Other bytes under a known event id; what is under review stays there.
Dispute(p) ==
    /\ inbox[p.event] # Nothing /\ inbox[p.event].body # p
    /\ inbox' = [inbox EXCEPT ![p.event].state = "integrity_fault"]

Next == \E p \in Bodies : Receive(p) \/ Quarantine(p) \/ Dispute(p)

Spec == Init /\ [][Next]_inbox
=============================================================================
