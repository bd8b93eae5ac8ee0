----------------------------- MODULE MCAdapter -----------------------------
(* Instances of Adapter for TLC: matcher a has two responses, b matches with *)
(* code of the program, c is a custom matcher, real bypasses the mocking.    *)
EXTENDS Adapter, TLC

CONSTANTS a, b, c, real, r1, r2, k1, k2, t1, t2

Lists == [m \in Matchers |-> CASE m = a -> <<r1, r2>> [] m = b -> <<r1>> [] OTHER -> <<>>]

\* a is for any request, real for k1, and b and the custom matcher see any and
\* accept k2.
AddressedKinds == {a, b, c} \X {k1, k2} \cup {<<real, k1>>}
AcceptedKinds  == {b, c} \X {k2}

MCAddressed == AddressedKinds \cap (Matchers \X Kinds)
MCAccepted  == AcceptedKinds \cap (Matchers \X Kinds)

ThreadSymmetry == Permutations({t1, t2})
=============================================================================
