------------------------------ MODULE Settings ------------------------------
(***************************************************************************)
(* What the components of both versions of Kachu have in common.           *)
(***************************************************************************)
EXTENDS Naturals

CONSTANTS
    None,                       \* nothing, nobody
    Slots,                      \* slots for concurrently running requests
    Photos, Sentences,          \* messages to the first Kachu, Meta events
    MaxCrashes, MaxMishaps      \* bounds: restarts of the process, failing calls

\* Restarts and failing calls are counted.
ASSUME MishapsNat == MaxCrashes \in Nat /\ MaxMishaps \in Nat
=============================================================================
