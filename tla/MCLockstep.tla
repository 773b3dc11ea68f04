----------------------------- MODULE MCLockstep -----------------------------
(* Instances of Lockstep for TLC. *)
EXTENDS Lockstep, TLC

PeerSymmetry == Permutations(Peers)

\* All peers have the same definitions, or one has others than the rest.
OneSet == [p \in Peers |-> TRUE]

AnySets == {OneSet} \union {[p \in Peers |-> p = q] : q \in Peers}

Sends(id, contacts) == [inputs |-> {id}, contacts |-> contacts]

\* Each peer always has an input, so that a prediction is always wrong.
AgreedHost == [p \in Peers |-> {Sends(p, "none")}]

\* A peer may see other contacts and then sends an input under an identifier that others
\* use too: hosts disagree when one of them does, identifiers collide when all do.
ErrantHost == [p \in Peers |-> {Sends(p, "none"), Sends("shared", "wall")}]
=============================================================================
