--------------------------- MODULE FreezeSchedule ---------------------------
(***************************************************************************)
(* What freeze tokens promise: the requests that were made settle which    *)
(* ticks are frozen.  A request gets one span of ticks, as long as its     *)
(* duration, in the place that its own stack policy says, or none; it is   *)
(* absolute, and nobody counts it down.                                    *)
(*                                                                         *)
(* A tick that is replaced by its fault containment advances the clock and *)
(* does nothing else: it stretches the spans it falls into and leaves the  *)
(* ones that start later where they are.                                   *)
(***************************************************************************)
EXTENDS Integers, Sequences

\* What may be asked for: a target, a group and a policy, a duration, and what is frozen how.
CONSTANT Requests

VARIABLES
  now,    \* the logical tick
  lost,   \* ticks that were replaced by a fault containment
  asked,  \* the requests so far; their places number them
  spans   \* the spans that are not over yet

vars == <<now, lost, asked, spans>>

Init == now = 0 /\ lost = 0 /\ asked = << >> /\ spans = {}

Rivals(r) == {s \in spans : s.target = r.target /\ s.group = r.group}

\* A group that counts its durations together freezes one thing in one way.
Suits(r) ==
  r.policy \in {"MAX_DURATION", "SUM_DURATION"} =>
    \A s \in Rivals(r) :
      s.policy = r.policy /\ s.domains = r.domains /\ s.accrual = r.accrual

\* The first tick from which on no rival of r freezes.
Behind(r) ==
  CHOOSE n \in {now + 1} \union {s.last + 1 : s \in Rivals(r)} :
    n > now /\ \A s \in Rivals(r) : n > s.last

SpanOf(id, r, first) ==
  [id |-> id, target |-> r.target, group |-> r.group, policy |-> r.policy,
   domains |-> r.domains, accrual |-> r.accrual,
   first |-> first, last |-> first + r.duration - 1]

\* r is the next request: it freezes from the next tick on, beside its rivals or in their
\* place, or behind them, or it is refused.
Ask(r) ==
  LET soon == SpanOf(Len(asked), r, now + 1)
  IN  /\ Suits(r)
      /\ asked' = Append(asked, r)
      /\ UNCHANGED <<now, lost>>
      /\ spans' = CASE r.policy \in {"INDEPENDENT", "MAX_DURATION"} -> spans \union {soon}
                    [] r.policy = "SUM_DURATION" ->
                         spans \union {SpanOf(Len(asked), r, Behind(r))}
                    [] r.policy = "REPLACE" -> (spans \ Rivals(r)) \union {soon}
                    [] r.policy = "REJECT_NEW" ->
                         IF Rivals(r) = {} THEN spans \union {soon} ELSE spans

\* Time passes; a span goes with its last tick.
Tick ==
  /\ now' = now + 1
  /\ UNCHANGED <<lost, asked>>
  /\ spans' = {s \in spans : s.last > now}

\* A contained tick is not counted; the targets that fault in it lose their spans.
Stretch ==
  /\ now' = now + 1
  /\ lost' = lost + 1
  /\ asked' = asked
  /\ \E gone \in SUBSET {s.target : s \in spans} :
       spans' = {IF s.first <= now THEN [s EXCEPT !.last = @ + 1] ELSE s :
                   s \in {r \in spans : r.target \notin gone}}

\* The target is over, and so are its freezes.
Release ==
  /\ UNCHANGED <<now, lost, asked>>
  /\ \E t \in {s.target : s \in spans} : spans' = {s \in spans : s.target # t}

Next == (\E r \in Requests : Ask(r)) \/ Tick \/ Stretch \/ Release

Spec == Init /\ [][Next]_vars
=============================================================================
