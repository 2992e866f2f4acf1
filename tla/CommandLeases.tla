--------------------------- MODULE CommandLeases ---------------------------
(***************************************************************************)
(* What the client promises about the commands it leases: each of them is  *)
(* settled once, by being processed or by being discarded; only commands   *)
(* of an unknown type are discarded before a shutdown; and no more than    *)
(* Bound commands are in the client at any time. CommandPipeline           *)
(* implements this specification.                                          *)
(***************************************************************************)
EXTENDS Naturals, FiniteSets

CONSTANTS Commands, Untyped, Bound

VARIABLES
    phase,     \* command -> "remote", "resident", "processed" or "discarded"
    stopping   \* a shutdown has begun

leaseVars == <<phase, stopping>>

InPhase(p) == {c \in Commands : phase[c] = p}

Init ==
    /\ phase = [c \in Commands |-> "remote"]
    /\ stopping = FALSE

Become(S, p) == phase' = [c \in Commands |-> IF c \in S THEN p ELSE phase[c]]

Lease(S) ==
    /\ S \subseteq InPhase("remote")
    /\ Become(S, "resident")
    /\ Cardinality(S) + Cardinality(InPhase("resident")) <= Bound
    /\ UNCHANGED stopping

Process(c) ==
    /\ c \in InPhase("resident")
    /\ Become({c}, "processed")
    /\ UNCHANGED stopping

Discard(S) ==
    /\ S \subseteq InPhase("resident")
    /\ S \subseteq Untyped \/ stopping
    /\ Become(S, "discarded")
    /\ UNCHANGED stopping

Stop == stopping' = TRUE /\ UNCHANGED phase

Next ==
    \/ \E S \in SUBSET Commands : Lease(S) \/ Discard(S)
    \/ \E c \in Commands : Process(c)
    \/ Stop

(* A leased command does not linger unless the client shuts down.          *)
Settles == \A c \in Commands : phase[c] = "resident" ~> phase[c] # "resident" \/ stopping

Spec == Init /\ [][Next]_leaseVars /\ Settles

=============================================================================
