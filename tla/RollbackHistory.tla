--------------------------- MODULE RollbackHistory ---------------------------
(***************************************************************************)
(* RetainedRollbackHistory (reference/python/pcam_runtime/rollback.py):    *)
(* a snapshot of every recent tick, corrections of a past tick by replay,  *)
(* and the reconciliation of presentation effects by their identifiers.    *)
(*                                                                         *)
(* The executor is a deterministic function, so a simulation state is      *)
(* represented by what led to it: the sequence of the batches of the ticks *)
(* so far.  The tick of a state is its length, and saving and restoring a  *)
(* state compares as the state does.  What one tick presents, and whether  *)
(* it raises to the host, are arbitrary functions of that history.         *)
(***************************************************************************)
EXTENDS Integers, Sequences, FiniteSets

CONSTANTS
  Inputs,          \* input tuples of one tick, in canonical order
  Hosts,           \* host snapshots of one tick
  NoInput,         \* the empty tuple
  NoHost,          \* HostSnapshot(): the default of a tick without one
  StartStates,     \* states a history may begin with
  NoState,         \* head_state before the first advance
  Retained,        \* retained_history_ticks
  MaxTick,         \* bound: the host stops advancing
  Cues(_, _),      \* effect_ids of the non-authoritative effects of a tick, without the
                   \* tick they begin with
  Raises(_, _)     \* the tick raises to the host

Batch == [inputs : Inputs, host : Hosts]

ASSUME HistoryAssumption ==
  /\ Retained \in Nat \ {0}
  /\ MaxTick \in Nat
  /\ NoInput \in Inputs /\ NoHost \in Hosts
  /\ StartStates \subseteq Seq(Batch)
  /\ NoState \notin Seq(Batch)

VARIABLES
  frames,      \* the retained frames by tick
  head,        \* head_state
  presented,   \* presented_effect_ids
  result,      \* what the last call returned, or how it raised
  screen,      \* external: the effects the host shows
  first        \* external: the tick of the state the history began with

vars == <<frames, head, presented, result, screen, first>>

-----------------------------------------------------------------------------
(* States and frames *)

\* The state before tick t of a state's history.
Before(s, t) == SubSeq(s, 1, t)

\* effect_id begins with the tick of the effect, so ticks never share one.
Shown(s, t) == {<<t, c>> : c \in Cues(Before(s, t), s[t + 1])}

Fails(s, t) == Raises(Before(s, t), s[t + 1])

\* Mutant of Frame: the snapshot is taken after the tick.
FrameLate(s, t) ==
  [snapshot |-> Before(s, t + 1), inputs |-> s[t + 1].inputs, host |-> s[t + 1].host,
   cues |-> Shown(s, t)]

Frame(s, t) ==
  [snapshot |-> Before(s, t), inputs |-> s[t + 1].inputs, host |-> s[t + 1].host,
   cues |-> Shown(s, t)]

BatchOf(frame) == [inputs |-> frame.inputs, host |-> frame.host]

None == [call |-> "none", emit |-> {}, invalidated |-> {}, suppressed |-> {}]

Refused == [None EXCEPT !.call = "refused"]

Raised == [None EXCEPT !.call = "raised"]

Init ==
  /\ frames = << >>
  /\ head = NoState
  /\ presented = {}
  /\ result = None
  /\ screen = {}
  /\ first = 0

-----------------------------------------------------------------------------
(* advance *)

\* Mutant of Prune: the window is one tick short.
PruneShort(f, tick) == [t \in {u \in DOMAIN f : u > tick - Retained} |-> f[t]]

Prune(f, tick) == [t \in {u \in DOMAIN f : u >= tick - Retained} |-> f[t]]

Extend(f, t, frame) == [u \in DOMAIN f \union {t} |-> IF u = t THEN frame ELSE f[u]]

Advance(s, batch) ==
  LET next == Append(s, batch)
      t    == Len(s)
  IN  /\ t < MaxTick
      /\ head # NoState => s = head
      /\ ~Fails(next, t)
      /\ frames' = Prune(Extend(frames, t, Frame(next, t)), t + 1)
      /\ head' = next
      /\ presented' = presented \union Shown(next, t)
      /\ result' = [None EXCEPT !.call = "advance", !.emit = Shown(next, t)]
      /\ screen' = screen \union Shown(next, t)
      /\ first' = IF head = NoState THEN t ELSE first

AdvanceRaises(s, batch) ==
  /\ Len(s) < MaxTick
  /\ head # NoState => s = head
  /\ Fails(Append(s, batch), Len(s))
  /\ result' = Raised
  /\ UNCHANGED <<frames, head, presented, screen, first>>

-----------------------------------------------------------------------------
(* correct_and_resimulate *)

\* Mutant of Replay: the corrected inputs are given to every replayed tick.
ReplayRepeating(t, batch) ==
  [i \in 1 .. Len(head) |->
     IF i <= t THEN frames[t].snapshot[i]
     ELSE [inputs |-> batch.inputs,
           host   |-> IF i = t + 1 THEN batch.host ELSE frames[i - 1].host]]

\* The head that follows from the retained batches when tick t had the given one.
Replay(t, batch) ==
  [i \in 1 .. Len(head) |->
     IF i <= t THEN frames[t].snapshot[i]
     ELSE IF i = t + 1 THEN batch
     ELSE BatchOf(frames[i - 1])]

Required(t) == t .. (Len(head) - 1)

CuesOf(f, ticks) == UNION {f[t].cues : t \in ticks}

\* Mutant of Refresh: only the corrected frame is replaced.
RefreshOne(f, t, s) == [u \in DOMAIN f |-> IF u = t THEN Frame(s, u) ELSE f[u]]

Refresh(f, t, s) == [u \in DOMAIN f |-> IF u \in Required(t) THEN Frame(s, u) ELSE f[u]]

\* Mutant of Reconcile: an effect that was shown before is emitted again.
ReconcileAgain(old, new, others) ==
  [call |-> "correct", emit |-> new \ others, invalidated |-> old \ new,
   suppressed |-> old \intersect new]

\* Mutant of Reconcile: effects that no longer happen are not taken back.
ReconcileKeeping(old, new, others) ==
  [call |-> "correct", emit |-> (new \ old) \ others, invalidated |-> {},
   suppressed |-> old \intersect new]

\* old and new are the effects of the replayed ticks, others those of the other ticks.
Reconcile(old, new, others) ==
  [call |-> "correct", emit |-> (new \ old) \ others, invalidated |-> old \ new,
   suppressed |-> old \intersect new]

CanCorrect(t) == head # NoState /\ t \in DOMAIN frames /\ Required(t) \subseteq DOMAIN frames

\* Without a corrected host, the batch has the host of the frame.
Correct(t, batch) ==
  LET s      == Replay(t, batch)
      old    == CuesOf(frames, Required(t))
      others == presented \ old
      new    == CuesOf(Refresh(frames, t, s), Required(t))
  IN  /\ CanCorrect(t)
      /\ \A u \in Required(t) : ~Fails(s, u)
      /\ frames' = Refresh(frames, t, s)
      /\ head' = s
      /\ presented' = others \union new
      /\ result' = Reconcile(old, new, others)
      /\ screen' = (screen \ result'.invalidated) \union result'.emit
      /\ UNCHANGED first

\* Nothing of a replay that raises is kept.
CorrectRaises(t, batch) ==
  /\ CanCorrect(t)
  /\ \E u \in Required(t) : Fails(Replay(t, batch), u)
  /\ result' = Raised
  /\ UNCHANGED <<frames, head, presented, screen, first>>

\* A call is refused: the state is not the head, the tick is not retained, an input is
\* assigned to another tick or given twice.
Refuse ==
  /\ result' = Refused
  /\ UNCHANGED <<frames, head, presented, screen, first>>

Begin == \E s \in StartStates, batch \in Batch : head = NoState /\ Advance(s, batch)

Grow == \E batch \in Batch : head # NoState /\ Advance(head, batch)

Next ==
  \/ Begin \/ Grow
  \/ \E s \in StartStates \union {head}, batch \in Batch :
       s # NoState /\ AdvanceRaises(s, batch)
  \/ \E t \in DOMAIN frames, batch \in Batch : Correct(t, batch) \/ CorrectRaises(t, batch)
  \/ Refuse

Spec == Init /\ [][Next]_vars

-----------------------------------------------------------------------------
(* RollbackManager: the same replay from histories that the caller keeps *)

Lookup(f, t, default) == IF t \in DOMAIN f THEN f[t] ELSE default

\* The state that correct_and_resimulate of RollbackManager returns.
Resimulate(snapshot, inputs, hosts, t, corrected, until) ==
  [i \in 1 .. until |->
     IF i <= Len(snapshot) THEN snapshot[i]
     ELSE [inputs |-> IF i = t + 1 THEN corrected ELSE Lookup(inputs, i - 1, NoInput),
           host   |-> Lookup(hosts, i - 1, NoHost)]]

-----------------------------------------------------------------------------
(* Properties *)

\* Types of the variables; a frame holds the state before its tick.
TypeOK ==
  /\ head \in Seq(Batch) \union {NoState}
  /\ DOMAIN frames \subseteq Nat
  /\ \A t \in DOMAIN frames :
       /\ BatchOf(frames[t]) \in Batch
       /\ frames[t].snapshot \in Seq(Batch)
       /\ Len(frames[t].snapshot) = t
  /\ result.call \in {"none", "advance", "correct", "refused", "raised"}
  /\ first \in Nat

\* Every retained frame lies on the history of the head, whatever was corrected before, so
\* that a later correction starts from a state that was corrected too (replacement_frames).
FramesOnHistory ==
  \A t \in DOMAIN frames : t < Len(head) /\ frames[t] = Frame(head, t)

\* The frames are the latest Retained ticks without a gap, so a correction inside the
\* window never fails as not contiguous, and one before it always fails (_prune).
WindowComplete ==
  /\ head = NoState => DOMAIN frames = {}
  /\ head # NoState =>
       DOMAIN frames = {t \in first .. Len(head) - 1 : t >= Len(head) - Retained}

\* presented_effect_ids is what the host shows, however often corrections withdraw and
\* restore an effect.
PresentedIsShown == presented = screen

\* A correction emits only effects that are not on show, withdraws only effects that are,
\* and suppresses only effects that stay.
ReconciledOnce ==
  [][LET r == result' IN
       /\ r.emit \intersect screen = {}
       /\ r.invalidated \subseteq screen
       /\ r.suppressed \subseteq screen \intersect screen']_vars

\* PCAM-v3.md 38.17: a history that is corrected equals one that had the correct batch at
\* once, and shows what that one shows.
Timeline ==
  INSTANCE InputTimeline WITH timeline <- head, since <- first, shown <- screen

TimelineSpec == Timeline!Spec

\* Replaying a retained history through RollbackManager, from any retained baseline at or
\* before the corrected tick, returns the state that the retained history computes.
ManagerAgrees ==
  \A b, t \in DOMAIN frames : \A x \in Inputs :
    b <= t =>
      Resimulate(frames[b].snapshot,
                 [u \in DOMAIN frames |-> frames[u].inputs],
                 [u \in DOMAIN frames |-> frames[u].host],
                 t, x, Len(head))
        = Replay(t, [inputs |-> x, host |-> frames[t].host])
=============================================================================
