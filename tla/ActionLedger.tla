----------------------------- MODULE ActionLedger -----------------------------
(***************************************************************************)
(* What the companion promises about actions, without handlers, locks,     *)
(* timers or receipts: a snapshot carries at most one action, the action   *)
(* may take effect only while it runs, its outcome is settled once and     *)
(* never contradicts the effect, and every client that is told a final     *)
(* outcome is told the settled one.                                        *)
(***************************************************************************)
EXTENDS Naturals

CONSTANTS
    Requests,   \* records with a field snap: the snapshot an action consumes
    SnapIDs

VARIABLES
    begun,      \* snapshots that have been consumed by an action
    running,    \* requests whose action is under way
    acted,      \* snapshots whose action took effect
    settled,    \* pairs of a request and its outcome
    heard       \* pairs that some client has been told

vars == <<begun, running, acted, settled, heard>>

Verdicts == {"completed", "refused", "failed", "unknown"}

Init == begun = {} /\ running = {} /\ acted = {} /\ settled = {} /\ heard = {}

Begin(q) ==
    /\ q.snap \notin begun
    /\ begun' = begun \cup {q.snap}
    /\ running' = running \cup {q}
    /\ UNCHANGED <<acted, settled, heard>>

Act(q) ==
    /\ q \in running
    /\ acted' = acted \cup {q.snap}
    /\ UNCHANGED <<begun, running, settled, heard>>

Settle(q, o) ==
    /\ q \in running
    /\ o = "completed" => q.snap \in acted
    /\ o = "refused" => q.snap \notin acted
    /\ running' = running \ {q}
    /\ settled' = settled \cup {<<q, o>>}
    /\ UNCHANGED <<begun, acted, heard>>

Tell(q, o) ==
    /\ <<q, o>> \in settled
    /\ heard' = heard \cup {<<q, o>>}
    /\ UNCHANGED <<begun, running, acted, settled>>

Next ==
    \E q \in Requests :
        \/ Begin(q)
        \/ Act(q)
        \/ \E o \in Verdicts : Settle(q, o) \/ Tell(q, o)

Spec == Init /\ [][Next]_vars

=============================================================================
