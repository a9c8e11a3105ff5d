----------------------------- MODULE NoteDelivery -----------------------------
(***************************************************************************)
(* What the runner promises about a note (a developer's message or a       *)
(* webhook event): once accepted it is held until an agent is given it,    *)
(* which happens at most once, or until it is dropped, which is final.     *)
(***************************************************************************)
CONSTANT Notes
VARIABLE fate

Fates == {"fresh", "held", "delivered", "dropped"}

\* fate[n] may become g
Allowed(n, g) == \/ g = fate[n]
                 \/ fate[n] = "fresh" /\ g = "held"
                 \/ fate[n] = "held" /\ g \in {"delivered", "dropped"}

Init == fate = [n \in Notes |-> "fresh"]

Next == /\ fate' \in [Notes -> Fates]
        /\ \A n \in Notes : Allowed(n, fate'[n])

Spec == Init /\ [][Next]_fate
=============================================================================
