---------------------------- MODULE ActionForest ----------------------------
(***************************************************************************)
(* What a host may rely on about the action instances of a simulation,     *)
(* seen only between two calls of tick: identities are never reused, an    *)
(* action that is over stays over, links to a parent are made once, to an  *)
(* action of the same entity that was not yet over, and may only be cut    *)
(* afterwards, and an action reports its end to its parent at most once.   *)
(*                                                                         *)
(* TickExecutor implements this specification under the mapping given      *)
(* there; how a tick gets from one forest to the next is not said here.    *)
(***************************************************************************)
EXTENDS Integers, Sequences

CONSTANT Entities

VARIABLE forest   \* the instances by identity: [owner, parent, over, reported]

Node == [owner : Entities, parent : Nat, over : BOOLEAN, reported : BOOLEAN]

Init == forest = << >>

\* An instance keeps its identity and owner.
Kept(old, new) ==
  /\ new.owner = old.owner
  /\ new.parent \in {old.parent, 0}
  /\ old.over => new.over
  /\ old.reported => new.reported

\* A report is due once, from an action that is over to the parent it is linked to.
Reports(old, new) ==
  ~old.reported /\ new.reported => new.over /\ new.parent # 0

\* A child is started by an action of its entity that was not over when the tick began.
Started(i) ==
  LET a == forest'[i] IN
  /\ a.parent \in 0 .. (i - 1)
  /\ a.parent # 0 => forest'[a.parent].owner = a.owner
  /\ a.parent \in DOMAIN forest => ~forest[a.parent].over
  /\ a.reported => a.over /\ a.parent # 0

Tick ==
  /\ forest' \in Seq(Node)
  /\ Len(forest) <= Len(forest')
  /\ \A i \in 1 .. Len(forest) : Kept(forest[i], forest'[i]) /\ Reports(forest[i], forest'[i])
  /\ \A i \in Len(forest) + 1 .. Len(forest') : Started(i)

Spec == Init /\ [][Tick]_forest
=============================================================================
