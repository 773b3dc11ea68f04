---------------------------- MODULE InputBuffer -----------------------------
(***************************************************************************)
(* The input buffer of an action (reference/python/pcam_runtime/           *)
(* buffers.py).  The runtime captures with priority 0 only, so an entry    *)
(* has none here.                                                          *)
(***************************************************************************)
EXTENDS CanonicalOrder

OverflowPolicies == {"DROP_OLDEST", "DROP_NEWEST", "FAULT"}
ConsumePolicies == {"ON_ACCEPT", "ON_ATTEMPT", "NEVER"}

\* at is captured_tick, rem is remaining_eligibility_ticks.
BufferEntry(Commands) ==
  [id : Nat, cmd : Commands, seq : Nat, at : Nat, rem : Nat \ {0}]

Capture(input, tick, lifetime) ==
  [id |-> input.id, cmd |-> input.cmd, seq |-> input.seq, at |-> tick, rem |-> lifetime]

\* The ids number the inputs by command_id, then input_id.
Age(e) == <<e.at, e.seq, e.id>>

Known(entries, id) == \E e \in entries : e.id = id

CaptureRaises(entries, entry, capacity, policy) ==
  /\ policy = "FAULT" /\ capacity > 0
  /\ ~Known(entries, entry.id) /\ Cardinality(entries) >= capacity

\* Mutant of CaptureEntry: a full buffer gives up its youngest entry.
CaptureForYoungest(entries, entry, capacity, policy) ==
  IF Known(entries, entry.id) THEN entries
  ELSE IF Cardinality(entries) < capacity THEN entries \union {entry}
  ELSE IF policy = "DROP_NEWEST" \/ capacity = 0 THEN entries
  ELSE (entries \ {CHOOSE y \in entries : \A e \in entries : ~LexLess(Age(y), Age(e))}) \union {entry}

CaptureEntry(entries, entry, capacity, policy) ==
  IF Known(entries, entry.id) THEN entries
  ELSE IF Cardinality(entries) < capacity THEN entries \union {entry}
  ELSE IF policy = "DROP_NEWEST" \/ capacity = 0 THEN entries
  ELSE (entries \ {First(entries, Age)}) \union {entry}

Matching(entries, cmd) == {e \in entries : e.cmd = cmd}

\* {} or the entry that a transition on cmd consumes.
SelectEntry(entries, cmd) ==
  IF Matching(entries, cmd) = {} THEN {} ELSE {First(Matching(entries, cmd), Age)}

ApplyConsumption(entries, matched, policy, accepted) ==
  IF policy = "ON_ATTEMPT" \/ (policy = "ON_ACCEPT" /\ accepted) THEN entries \ matched
  ELSE entries

\* Mutant of ExpireEntries: an entry goes one tick late.
ExpireLate(entries, frozen) ==
  IF frozen THEN entries ELSE {[e EXCEPT !.rem = @ - 1] : e \in {f \in entries : f.rem > 0}}

ExpireEntries(entries, frozen) ==
  IF frozen THEN entries ELSE {[e EXCEPT !.rem = @ - 1] : e \in {f \in entries : f.rem > 1}}
=============================================================================
