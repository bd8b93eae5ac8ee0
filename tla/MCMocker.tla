------------------------------ MODULE MCMocker ------------------------------
(* Instances of Mocker for TLC.                                            *)
EXTENDS Mocker, TLC

CONSTANTS s1, s2, m1, m2, t1, t2, main

\* Mockers of the whole class, mockers of session s1, and one of each.
ClassTargets   == [m \in Mockers |-> SessionClass]
SessionTargets == [m \in Mockers |-> s1]
OuterClass     == [m \in Mockers |-> IF m = m1 THEN SessionClass ELSE s1]

\* Worker threads share session s1 and main sends nothing, or each thread has a
\* session of its own.
SharedUses  == [t \in Threads |-> IF t = main THEN {} ELSE {s1}]
PrivateUses == [t \in Threads |-> IF t = main THEN {s2} ELSE {s1}]
WorkerUses  == [t \in Threads |-> CASE t = t1 -> {s1} [] t = t2 -> {s2} [] OTHER -> {}]
AllUses     == [t \in Threads |-> Sessions]

\* Workers that share a session are interchangeable, and so are class mockers.
WorkerSymmetry == Permutations({t1, t2})
MockerSymmetry == Permutations(Mockers)

NoJoins    == {}
JoinsOther == {<<t1, t2>>}
=============================================================================
