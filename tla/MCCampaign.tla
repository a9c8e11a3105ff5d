------------------------------ MODULE MCCampaign ------------------------------
(* Model checking instances of Campaign. *)
EXTENDS Campaign, TLC

CONSTANTS a, b, c

\* c waits for a and b; in the chain, b waits for a.
Diamond == (a :> {}) @@ (b :> {}) @@ (c :> {a, b})
Chain == (a :> {}) @@ (b :> {a})

\* The slots of asynchronous calls are interchangeable.
Slots == Permutations(Tasks)
=============================================================================
