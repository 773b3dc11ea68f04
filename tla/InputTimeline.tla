---------------------------- MODULE InputTimeline ----------------------------
(***************************************************************************)
(* What rollback promises: the host lives on one timeline of batches that  *)
(* grows at its end and may be rewritten at a recent tick, and what it     *)
(* shows is always what the timeline, run from its beginning, presents.    *)
(* How the rewritten timeline is computed is not said here.                *)
(***************************************************************************)
EXTENDS Integers, Sequences

CONSTANTS Inputs, Hosts, StartStates, NoState, Retained, Cues(_, _)

VARIABLES
  timeline,   \* the batches of the ticks so far
  since,      \* the tick at which the host began to show effects
  shown       \* the effects on show

Batch == [inputs : Inputs, host : Hosts]

\* What ticks since .. Len(s) - 1 of s present, each effect with its tick.
Presents(s, from) ==
  UNION {{<<t, c>> : c \in Cues(SubSeq(s, 1, t), s[t + 1])} : t \in from .. Len(s) - 1}

Init == timeline = NoState /\ since = 0 /\ shown = {}

Begin ==
  /\ timeline = NoState
  /\ \E s \in StartStates, b \in Batch : timeline' = Append(s, b)
  /\ since' = Len(timeline') - 1

Grow ==
  /\ timeline # NoState
  /\ \E b \in Batch : timeline' = Append(timeline, b)
  /\ UNCHANGED since

Rewrite ==
  /\ timeline # NoState
  /\ \E t \in since .. Len(timeline) - 1, b \in Batch :
       /\ t >= Len(timeline) - Retained
       /\ timeline' = [timeline EXCEPT ![t + 1] = b]
  /\ UNCHANGED since

Next == (Begin \/ Grow \/ Rewrite) /\ shown' = Presents(timeline', since')

Spec == Init /\ [][Next]_<<timeline, since, shown>>
=============================================================================
