----------------------- MODULE RollbackHistory_proofs -----------------------
(***************************************************************************)
(* Proofs about RollbackHistory for every set of inputs and hosts, every   *)
(* length of the window, whatever a tick presents and whenever it raises.  *)
(*                                                                         *)
(* The invariant that carries everything says what the retained frames and *)
(* the presented effects are in terms of the head alone: the frames of its *)
(* latest ticks, and what all of its ticks present since the history       *)
(* began.  A correction then amounts to a head with one batch replaced.    *)
(***************************************************************************)
EXTENDS RollbackHistory, SequenceTheorems, TLAPS

Ticks(s, from) == from .. (Len(s) - 1)

ShownSince(s, from) == UNION {Shown(s, t) : t \in Ticks(s, from)}

ShownBefore(s, from, end) == UNION {Shown(s, t) : t \in from .. (end - 1)}

Window(s, from) == {t \in Ticks(s, from) : t >= Len(s) - Retained}

\* What a history that has begun looks like.
Begun ==
  /\ head \in Seq(Batch) /\ first \in Nat /\ first < Len(head)
  /\ frames = [t \in Window(head, first) |-> Frame(head, t)]
  /\ presented = ShownSince(head, first)
  /\ screen = presented

NotBegun == head = NoState /\ frames = << >> /\ presented = {} /\ screen = {} /\ first = 0

IInv == (Begun \/ NotBegun) /\ result.call \in {"none", "advance", "correct", "refused", "raised"}

-----------------------------------------------------------------------------
(* States and frames *)

\* A frame and the effects of a tick depend on the batches up to that tick only.
LEMMA FrameLocal ==
  ASSUME NEW r \in Seq(Batch), NEW s \in Seq(Batch), NEW t \in Nat, t < Len(r), t < Len(s),
         \A i \in 1 .. (t + 1) : r[i] = s[i]
  PROVE  Frame(r, t) = Frame(s, t) /\ Shown(r, t) = Shown(s, t)
<1>1. r[t + 1] = s[t + 1]
  OBVIOUS
<1>2. Before(r, t) = Before(s, t)
  BY DEF Before
<1> QED
  BY <1>1, <1>2 DEF Frame, Shown

\* The frame of a tick holds its batch and the state before it.
LEMMA FrameFacts ==
  ASSUME NEW s \in Seq(Batch), NEW t \in Nat, t < Len(s)
  PROVE  /\ s[t + 1] \in Batch
         /\ BatchOf(Frame(s, t)) = s[t + 1]
         /\ Frame(s, t).snapshot \in Seq(Batch) /\ Len(Frame(s, t).snapshot) = t
         /\ \A i \in 1 .. t : Frame(s, t).snapshot[i] = s[i]
         /\ Frame(s, t).cues = Shown(s, t)
<1>1. t + 1 \in 1 .. Len(s)
  OBVIOUS
<1>2. s[t + 1] \in Batch
  BY <1>1
<1>3. BatchOf(Frame(s, t)) = s[t + 1]
  BY <1>2 DEF BatchOf, Frame, Batch
<1>4. /\ SubSeq(s, 1, t) \in Seq(Batch) /\ Len(SubSeq(s, 1, t)) = t
      /\ \A i \in 1 .. t : SubSeq(s, 1, t)[i] = s[i]
  OBVIOUS
<1> QED
  BY <1>2, <1>3, <1>4 DEF Frame, Before

\* The effects of different ticks are different.
LEMMA ShownTagged == ASSUME NEW s, NEW t, NEW x \in Shown(s, t) PROVE x[1] = t
BY DEF Shown

\* What a history has shown is what its first ticks and what its last ticks have shown.
LEMMA ShownSplit ==
  ASSUME NEW s \in Seq(Batch), NEW from \in Nat, NEW t \in from .. Len(s)
  PROVE  /\ ShownSince(s, from) = ShownBefore(s, from, t) \union ShownSince(s, t)
         /\ ShownBefore(s, from, t) \intersect ShownSince(s, t) = {}
<1>1. Ticks(s, from) = (from .. (t - 1)) \union Ticks(s, t)
  BY DEF Ticks
<1>2. ASSUME NEW x \in ShownBefore(s, from, t), x \in ShownSince(s, t) PROVE FALSE
  <2>1. PICK u \in from .. (t - 1) : x \in Shown(s, u)
    BY DEF ShownBefore
  <2>2. PICK v \in Ticks(s, t) : x \in Shown(s, v)
    BY <1>2 DEF ShownSince
  <2>3. u = v
    BY <2>1, <2>2, ShownTagged
  <2> QED
    BY <2>3 DEF Ticks
<1> QED
  BY <1>1, <1>2 DEF ShownSince, ShownBefore

-----------------------------------------------------------------------------
(* advance *)

\* The first advance begins a history, every other one extends the one that is there.
LEMMA AdvanceIInv ==
  ASSUME IInv, NEW s, NEW batch \in Batch, Advance(s, batch),
         head = NoState => s \in StartStates
  PROVE  /\ Begun' /\ head' = Append(s, batch) /\ result'.call = "advance"
         /\ head # NoState => s = head /\ UNCHANGED first
         /\ head = NoState => first' = Len(s)
         /\ result'.emit = Shown(head', Len(s))
         /\ result'.emit \intersect screen = {}
         /\ result'.invalidated = {} /\ result'.suppressed = {}
<1> DEFINE next == Append(s, batch)
           t    == Len(s)
<1>1. /\ head # NoState => s = head
      /\ frames' = Prune(Extend(frames, t, Frame(next, t)), t + 1)
      /\ head' = next
      /\ presented' = presented \union Shown(next, t)
      /\ result' = [None EXCEPT !.call = "advance", !.emit = Shown(next, t)]
      /\ screen' = screen \union Shown(next, t)
      /\ first' = IF head = NoState THEN t ELSE first
  BY DEF Advance
<1>2. s \in Seq(Batch) /\ t \in Nat
  BY <1>1, HistoryAssumption DEF IInv, Begun, NotBegun
<1>3. /\ next \in Seq(Batch) /\ Len(next) = t + 1
      /\ \A i \in 1 .. t : next[i] = s[i]
  BY <1>2
<1>4. /\ result'.call = "advance" /\ result'.emit = Shown(next, t)
      /\ result'.invalidated = {} /\ result'.suppressed = {}
  BY <1>1 DEF None
<1>5. CASE head = NoState
  <2>1. NotBegun
    BY <1>5, HistoryAssumption DEF IInv, Begun
  <2>2. first' = t /\ Ticks(next, t) = {t} /\ Window(next, t) = {t}
    BY <1>1, <1>2, <1>3, <1>5, HistoryAssumption DEF Ticks, Window
  <2>3. frames' = [u \in Window(next, t) |-> Frame(next, u)]
    BY <1>1, <1>2, <2>1, <2>2, HistoryAssumption DEF NotBegun, Prune, Extend
  <2>4. ShownSince(next, t) = Shown(next, t)
    BY <2>2 DEF ShownSince
  <2> QED
    BY <1>1, <1>2, <1>3, <1>4, <1>5, <2>1, <2>2, <2>3, <2>4 DEF Begun, NotBegun
<1>6. CASE head # NoState
  <2>1. Begun /\ s = head /\ first' = first
    BY <1>1, <1>6 DEF IInv, NotBegun
  <2>2. first \in Nat /\ first < t
    BY <2>1 DEF Begun
  <2>3. \A u \in Nat : u < t => Frame(next, u) = Frame(s, u) /\ Shown(next, u) = Shown(s, u)
    <3>1. SUFFICES ASSUME NEW u \in Nat, u < t
                   PROVE  Frame(next, u) = Frame(s, u) /\ Shown(next, u) = Shown(s, u)
      OBVIOUS
    <3>2. \A i \in 1 .. (u + 1) : next[i] = s[i]
      BY <1>2, <1>3, <3>1
    <3>3. next \in Seq(Batch) /\ s \in Seq(Batch) /\ u < Len(next) /\ u < Len(s)
      BY <1>2, <1>3, <3>1
    <3> HIDE DEF next, t
    <3> QED
      BY <3>2, <3>3, FrameLocal
  <2>4. frames' = [u \in Window(next, first) |-> Frame(next, u)]
    <3>1. DOMAIN frames = Window(s, first) /\ \A u \in DOMAIN frames : frames[u] = Frame(s, u)
      BY <2>1 DEF Begun
    <3>2. {u \in DOMAIN frames \union {t} : u >= (t + 1) - Retained} = Window(next, first)
      BY <1>2, <1>3, <2>2, <3>1, HistoryAssumption DEF Window, Ticks
    <3>3. \A u \in Window(s, first) : u \in Nat /\ u < t
      BY <1>2, <2>2 DEF Window, Ticks
    <3>4. \A u \in Window(next, first) :
            (IF u = t THEN Frame(next, t) ELSE frames[u]) = Frame(next, u)
      BY <2>3, <3>1, <3>2, <3>3
    <3>5. frames' = [u \in {v \in DOMAIN frames \union {t} : v >= (t + 1) - Retained} |->
                       IF u = t THEN Frame(next, t) ELSE frames[u]]
      BY <1>1 DEF Prune, Extend
    <3> QED
      BY <3>2, <3>4, <3>5
  <2>5. ShownSince(next, first) = ShownSince(s, first) \union Shown(next, t)
    <3>1. Ticks(next, first) = Ticks(s, first) \union {t}
      BY <1>2, <1>3, <2>2 DEF Ticks
    <3>2. \A u \in Ticks(s, first) : Shown(next, u) = Shown(s, u)
      BY <1>2, <2>2, <2>3 DEF Ticks
    <3> QED
      BY <3>1, <3>2 DEF ShownSince
  <2>6. Shown(next, t) \intersect ShownSince(s, first) = {}
    <3>1. ASSUME NEW x \in Shown(next, t), NEW u \in Ticks(s, first), x \in Shown(s, u)
          PROVE  FALSE
      BY <1>2, <3>1, ShownTagged DEF Ticks
    <3> QED
      BY <3>1 DEF ShownSince
  <2> QED
    BY <1>1, <1>2, <1>3, <1>4, <1>6, <2>1, <2>2, <2>4, <2>5, <2>6 DEF Begun
<1> QED
  BY <1>5, <1>6

-----------------------------------------------------------------------------
(* correct_and_resimulate *)

\* A history that can be corrected has begun, and its frames give back the head.
LEMMA CorrectableFacts ==
  ASSUME IInv, NEW t, CanCorrect(t)
  PROVE  /\ Begun /\ t \in Nat /\ first <= t /\ t < Len(head) /\ t >= Len(head) - Retained
         /\ \A u \in Required(t) : u \in DOMAIN frames /\ frames[u] = Frame(head, u)
         /\ \A u \in DOMAIN frames : u \in Nat /\ u < Len(head) /\ frames[u] = Frame(head, u)
<1>1. Begun /\ t \in Window(head, first)
  BY HistoryAssumption DEF CanCorrect, IInv, Begun, NotBegun
<1>2. /\ \A u \in DOMAIN frames : u \in Nat /\ u < Len(head) /\ frames[u] = Frame(head, u)
      /\ Required(t) \subseteq DOMAIN frames
  BY <1>1, HistoryAssumption DEF Begun, Window, Ticks, CanCorrect
<1> QED
  BY <1>1, <1>2, HistoryAssumption DEF Begun, Window, Ticks

\* Replaying the retained batches gives the head with one batch replaced.
LEMMA ReplayReplaces ==
  ASSUME IInv, NEW t, CanCorrect(t), NEW batch \in Batch
  PROVE  /\ Replay(t, batch) \in Seq(Batch)
         /\ Replay(t, batch) = [head EXCEPT ![t + 1] = batch]
<1>1. /\ Begun /\ t \in Nat /\ first <= t /\ t < Len(head)
      /\ \A u \in DOMAIN frames : u \in Nat /\ u < Len(head) /\ frames[u] = Frame(head, u)
  BY CorrectableFacts
<1>2. head \in Seq(Batch) /\ Len(head) \in Nat /\ DOMAIN head = 1 .. Len(head)
  BY <1>1 DEF Begun
<1>3. \A i \in 1 .. t : frames[t].snapshot[i] = head[i]
  BY <1>1, <1>2, FrameFacts DEF CanCorrect
<1>4. ASSUME NEW i \in 1 .. Len(head), i > t + 1 PROVE BatchOf(frames[i - 1]) = head[i]
  <2>1. i - 1 \in Required(t) /\ i - 1 \in Nat /\ i - 1 < Len(head) /\ (i - 1) + 1 = i
    BY <1>1, <1>2, <1>4 DEF Required
  <2>2. frames[i - 1] = Frame(head, i - 1)
    BY <1>1, <2>1 DEF CanCorrect
  <2> QED
    BY <1>2, <2>1, <2>2, FrameFacts
<1>5. ASSUME NEW i \in 1 .. Len(head)
      PROVE  (IF i <= t THEN frames[t].snapshot[i]
              ELSE IF i = t + 1 THEN batch
              ELSE BatchOf(frames[i - 1])) = IF i = t + 1 THEN batch ELSE head[i]
  BY <1>1, <1>2, <1>3, <1>4
<1>6. Replay(t, batch) = [i \in 1 .. Len(head) |-> IF i = t + 1 THEN batch ELSE head[i]]
  BY <1>5 DEF Replay
<1>7. [head EXCEPT ![t + 1] = batch] \in Seq(Batch)
  BY <1>1, <1>2
<1> QED
  BY <1>2, <1>6, <1>7

\* A correction leaves a history that its own batches explain, and reconciles what is shown.
LEMMA CorrectIInv ==
  ASSUME IInv, NEW t, NEW batch \in Batch, Correct(t, batch)
  PROVE  /\ Begun' /\ result'.call = "correct"
         /\ head' = [head EXCEPT ![t + 1] = batch] /\ UNCHANGED first
         /\ first <= t /\ t < Len(head) /\ t >= Len(head) - Retained /\ t \in Nat
         /\ result'.emit \intersect screen = {}
         /\ result'.invalidated \subseteq screen
         /\ result'.suppressed \subseteq screen \intersect screen'
<1> DEFINE s      == Replay(t, batch)
           old    == CuesOf(frames, Required(t))
           others == presented \ old
           new    == CuesOf(Refresh(frames, t, s), Required(t))
<1>1. /\ CanCorrect(t)
      /\ frames' = Refresh(frames, t, s)
      /\ head' = s
      /\ presented' = others \union new
      /\ result' = Reconcile(old, new, others)
      /\ screen' = (screen \ result'.invalidated) \union result'.emit
      /\ first' = first
  BY DEF Correct
<1>2. /\ Begun /\ t \in Nat /\ first <= t /\ t < Len(head) /\ t >= Len(head) - Retained
      /\ \A u \in Required(t) : u \in DOMAIN frames /\ frames[u] = Frame(head, u)
      /\ \A u \in DOMAIN frames : u \in Nat /\ u < Len(head) /\ frames[u] = Frame(head, u)
  BY <1>1, CorrectableFacts
<1>3. /\ s \in Seq(Batch) /\ s = [head EXCEPT ![t + 1] = batch]
  BY <1>1, ReplayReplaces
<1>4. /\ head \in Seq(Batch) /\ Len(s) = Len(head) /\ Len(head) \in Nat
      /\ first \in Nat /\ screen = presented /\ presented = ShownSince(head, first)
      /\ \A i \in 1 .. t : s[i] = head[i]
  BY <1>2, <1>3 DEF Begun
<1>5. ASSUME NEW u \in Nat, u < t PROVE Frame(s, u) = Frame(head, u) /\ Shown(s, u) = Shown(head, u)
  <2>1. \A i \in 1 .. (u + 1) : s[i] = head[i]
    BY <1>2, <1>4, <1>5
  <2>2. u < Len(s) /\ u < Len(head)
    BY <1>2, <1>4, <1>5
  <2> HIDE DEF s
  <2> QED
    BY <1>3, <1>4, <2>1, <2>2, FrameLocal
<1>6. Required(t) = Ticks(head, t) /\ Required(t) = Ticks(s, t)
  BY <1>4 DEF Required, Ticks
<1>7. ASSUME NEW u \in Required(t) PROVE Frame(head, u).cues = Shown(head, u) /\ Frame(s, u).cues = Shown(s, u)
  BY DEF Frame
<1>8. old = ShownSince(head, t)
  BY <1>2, <1>6, <1>7 DEF CuesOf, ShownSince
<1>9. new = ShownSince(s, t)
  <2>1. \A u \in Required(t) : Refresh(frames, t, s)[u] = Frame(s, u)
    BY <1>2 DEF Refresh
  <2> HIDE DEF s
  <2> QED
    BY <1>6, <1>7, <2>1 DEF CuesOf, ShownSince
<1>10. ShownBefore(head, first, t) = ShownBefore(s, first, t)
  <2>1. \A u \in first .. (t - 1) : Shown(s, u) = Shown(head, u)
    BY <1>2, <1>4, <1>5
  <2> HIDE DEF s
  <2> QED
    BY <2>1 DEF ShownBefore
<1>11. /\ presented = ShownBefore(head, first, t) \union old
       /\ ShownBefore(head, first, t) \intersect old = {}
  BY <1>2, <1>4, <1>8, ShownSplit
<1>12. presented' = ShownSince(s, first)
  <2>1. others = ShownBefore(s, first, t)
    BY <1>10, <1>11
  <2>2. t \in first .. Len(s)
    BY <1>2, <1>4
  <2> HIDE DEF s, others, new
  <2>3. ShownSince(s, first) = ShownBefore(s, first, t) \union ShownSince(s, t)
    BY <1>3, <1>4, <2>2, ShownSplit
  <2> QED
    BY <1>1, <1>9, <2>1, <2>3
<1>13. /\ result'.call = "correct" /\ result'.emit = (new \ old) \ others
       /\ result'.invalidated = old \ new /\ result'.suppressed = old \intersect new
  BY <1>1 DEF Reconcile
<1>14. old \subseteq presented
  BY <1>11
<1>15. /\ screen' = presented'
       /\ result'.emit \intersect screen = {}
       /\ result'.invalidated \subseteq screen
       /\ result'.suppressed \subseteq screen \intersect screen'
  BY <1>1, <1>4, <1>13, <1>14
<1>16. frames' = [u \in Window(s, first) |-> Frame(s, u)]
  <2>1. DOMAIN frames = Window(s, first)
    BY <1>2, <1>4 DEF Begun, Window, Ticks
  <2>2. ASSUME NEW u \in Window(s, first)
        PROVE  (IF u \in Required(t) THEN Frame(s, u) ELSE frames[u]) = Frame(s, u)
    <3>1. CASE u \in Required(t)
      BY <3>1
    <3>2. CASE u \notin Required(t)
      <4>1. u \in Nat /\ u < t /\ frames[u] = Frame(head, u)
        BY <1>2, <1>4, <2>1, <3>2 DEF Required
      <4> QED
        BY <1>5, <3>2, <4>1
    <3> QED
      BY <3>1, <3>2
  <2> HIDE DEF s
  <2> QED
    BY <1>1, <2>1, <2>2 DEF Refresh
<1>17. Begun'
  BY <1>1, <1>2, <1>3, <1>4, <1>12, <1>15, <1>16 DEF Begun
<1> QED
  BY <1>1, <1>2, <1>3, <1>13, <1>15, <1>17

-----------------------------------------------------------------------------
(* The inductive invariant *)

\* A call that raises or is refused changes nothing that the invariant reads.
LEMMA NothingKept ==
  ASSUME IInv, UNCHANGED <<frames, head, presented, screen, first>>,
         result' \in {Refused, Raised, result}
  PROVE  IInv'
<1>1. result'.call \in {"none", "advance", "correct", "refused", "raised"}
  BY DEF Refused, Raised, None, IInv
<1>2. (Begun \/ NotBegun)'
  <2>1. CASE Begun
    BY <2>1 DEF Begun
  <2>2. CASE NotBegun
    BY <2>2 DEF NotBegun
  <2> QED
    BY <2>1, <2>2 DEF IInv
<1> QED
  BY <1>1, <1>2 DEF IInv

\* A history that has not begun retains nothing.
LEMMA InitIInv == Init => IInv
BY DEF Init, IInv, NotBegun, None

\* Every step is an advance, a correction, or a call after which all is as before.
LEMMA NextCases ==
  ASSUME IInv, [Next]_vars
  PROVE  \/ \E s \in StartStates, batch \in Batch : head = NoState /\ Advance(s, batch)
         \/ \E batch \in Batch : head # NoState /\ Advance(head, batch)
         \/ \E t : \E batch \in Batch : Correct(t, batch)
         \/ /\ UNCHANGED <<frames, head, presented, screen, first>>
            /\ result' \in {Refused, Raised, result}
<1>1. CASE Next
  <2>1. CASE Begin \/ Grow
    BY <2>1 DEF Begin, Grow
  <2>2. ASSUME NEW s, NEW batch, AdvanceRaises(s, batch)
        PROVE  UNCHANGED <<frames, head, presented, screen, first>> /\ result' = Raised
    BY <2>2 DEF AdvanceRaises
  <2>3. ASSUME NEW t, NEW batch, CorrectRaises(t, batch)
        PROVE  UNCHANGED <<frames, head, presented, screen, first>> /\ result' = Raised
    BY <2>3 DEF CorrectRaises
  <2>4. CASE Refuse
    BY <2>4 DEF Refuse
  <2>5. CASE \E s \in StartStates \union {head}, batch \in Batch :
               s # NoState /\ AdvanceRaises(s, batch)
    BY <2>2, <2>5
  <2>6. CASE \E t \in DOMAIN frames, batch \in Batch : Correct(t, batch) \/ CorrectRaises(t, batch)
    <3>1. PICK t \in DOMAIN frames, batch \in Batch : Correct(t, batch) \/ CorrectRaises(t, batch)
      BY <2>6
    <3>2. CASE CorrectRaises(t, batch)
      BY <2>3, <3>2
    <3> QED
      BY <3>1, <3>2
  <2> QED
    BY <1>1, <2>1, <2>4, <2>5, <2>6 DEF Next
<1>2. CASE UNCHANGED vars
  BY <1>2 DEF vars
<1> QED
  BY <1>1, <1>2

\* An advance and a correction keep the invariant, and a call that raises changes nothing.
LEMMA NextIInv == IInv /\ [Next]_vars => IInv'
<1> SUFFICES ASSUME IInv, [Next]_vars PROVE IInv'
  OBVIOUS
<1>1. ASSUME NEW s \in StartStates, NEW batch \in Batch, head = NoState, Advance(s, batch)
      PROVE  IInv'
  BY <1>1, AdvanceIInv DEF IInv
<1>2. ASSUME NEW batch \in Batch, head # NoState, Advance(head, batch) PROVE IInv'
  BY <1>2, AdvanceIInv DEF IInv
<1>3. ASSUME NEW t, NEW batch \in Batch, Correct(t, batch) PROVE IInv'
  BY <1>3, CorrectIInv DEF IInv
<1> QED
  BY <1>1, <1>2, <1>3, NextCases, NothingKept

\* The invariant that the properties follow from holds after every call.
THEOREM IInvAlways == Spec => []IInv
BY InitIInv, NextIInv, PTL DEF Spec

-----------------------------------------------------------------------------
(* What follows about every state *)

\* The variables keep their types, and a retained snapshot is a state of its tick.
THEOREM TypeCorrect == Spec => []TypeOK
<1>1. IInv => TypeOK
  <2> SUFFICES ASSUME IInv PROVE TypeOK
    OBVIOUS
  <2>1. CASE Begun
    <3>1. \A t \in DOMAIN frames : t \in Nat /\ t < Len(head) /\ frames[t] = Frame(head, t)
      BY <2>1 DEF Begun, Window, Ticks
    <3>2. \A t \in DOMAIN frames :
            /\ BatchOf(frames[t]) \in Batch
            /\ frames[t].snapshot \in Seq(Batch)
            /\ Len(frames[t].snapshot) = t
      BY <2>1, <3>1, FrameFacts DEF Begun
    <3> QED
      BY <2>1, <3>1, <3>2 DEF IInv, Begun, TypeOK
  <2>2. CASE NotBegun
    BY <2>2 DEF IInv, NotBegun, TypeOK
  <2> QED
    BY <2>1, <2>2 DEF IInv
<1> QED
  BY <1>1, IInvAlways, PTL

\* After any sequence of corrections, every retained frame is a frame of the head, so a
\* later correction never replays from a state that an earlier one has replaced.
THEOREM FramesOnHistoryHolds == Spec => []FramesOnHistory
<1>1. IInv => FramesOnHistory
  BY DEF IInv, Begun, NotBegun, FramesOnHistory, Window, Ticks
<1> QED
  BY <1>1, IInvAlways, PTL

\* The window is the latest Retained ticks since the history began, without a gap.
THEOREM WindowCompleteHolds == Spec => []WindowComplete
<1>1. IInv => WindowComplete
  BY HistoryAssumption DEF IInv, Begun, NotBegun, WindowComplete, Window, Ticks
<1> QED
  BY <1>1, IInvAlways, PTL

\* The runtime's account of what is presented is what the host shows.
THEOREM PresentedIsShownHolds == Spec => []PresentedIsShown
<1>1. IInv => PresentedIsShown
  BY DEF IInv, Begun, NotBegun, PresentedIsShown
<1> QED
  BY <1>1, IInvAlways, PTL

\* RollbackManager and the retained history compute the same state from any retained
\* baseline at or before the corrected tick.
THEOREM ManagerAgreesHolds == Spec => []ManagerAgrees
<1>1. IInv => ManagerAgrees
  <2> SUFFICES ASSUME IInv, NEW b \in DOMAIN frames, NEW t \in DOMAIN frames, NEW x \in Inputs,
                      b <= t
               PROVE  Resimulate(frames[b].snapshot,
                                 [u \in DOMAIN frames |-> frames[u].inputs],
                                 [u \in DOMAIN frames |-> frames[u].host],
                                 t, x, Len(head))
                        = Replay(t, [inputs |-> x, host |-> frames[t].host])
    BY DEF ManagerAgrees
  <2> DEFINE inputs == [u \in DOMAIN frames |-> frames[u].inputs]
             hosts  == [u \in DOMAIN frames |-> frames[u].host]
             batch  == [inputs |-> x, host |-> frames[t].host]
  <2>1. Begun
    BY DEF IInv, NotBegun
  <2>2. /\ head \in Seq(Batch) /\ Len(head) \in Nat /\ first \in Nat
        /\ DOMAIN frames = Window(head, first)
        /\ \A u \in DOMAIN frames : u \in Nat /\ u < Len(head) /\ frames[u] = Frame(head, u)
    BY <2>1 DEF Begun, Window, Ticks
  <2>3. \A u \in DOMAIN frames :
          /\ Len(frames[u].snapshot) = u
          /\ \A i \in 1 .. u : frames[u].snapshot[i] = head[i]
    BY <2>2, FrameFacts
  <2>4. ASSUME NEW i \in 1 .. Len(head), i > b PROVE i - 1 \in DOMAIN frames
    BY <2>2, <2>4, HistoryAssumption DEF Window, Ticks
  <2>5. ASSUME NEW i \in 1 .. Len(head)
        PROVE  (IF i <= Len(frames[b].snapshot) THEN frames[b].snapshot[i]
                ELSE [inputs |-> IF i = t + 1 THEN x ELSE Lookup(inputs, i - 1, NoInput),
                      host   |-> Lookup(hosts, i - 1, NoHost)])
               = (IF i <= t THEN frames[t].snapshot[i]
                  ELSE IF i = t + 1 THEN batch
                  ELSE BatchOf(frames[i - 1]))
    <3>1. CASE i <= b
      BY <2>2, <2>3, <3>1
    <3>2. CASE i > b
      <4>1. /\ i - 1 \in DOMAIN frames
            /\ inputs[i - 1] = frames[i - 1].inputs /\ hosts[i - 1] = frames[i - 1].host
        BY <2>4, <3>2
      <4>2. /\ Lookup(inputs, i - 1, NoInput) = frames[i - 1].inputs
            /\ Lookup(hosts, i - 1, NoHost) = frames[i - 1].host
        BY <4>1 DEF Lookup
      <4>3. BatchOf(frames[i - 1]) = head[i]
        <5>1. i - 1 \in Nat /\ i - 1 < Len(head) /\ (i - 1) + 1 = i /\ frames[i - 1] = Frame(head, i - 1)
          BY <2>2, <4>1
        <5> QED
          BY <2>2, <5>1, FrameFacts
      <4>4. CASE i <= t
        <5>1. /\ i # t + 1 /\ ~(i <= Len(frames[b].snapshot))
              /\ frames[t].snapshot[i] = head[i]
          BY <2>2, <2>3, <3>2, <4>4
        <5> HIDE DEF inputs, hosts, batch
        <5> QED
          BY <4>2, <4>3, <4>4, <5>1 DEF BatchOf
      <4>5. CASE i = t + 1
        <5>1. ~(i <= t) /\ ~(i <= Len(frames[b].snapshot)) /\ i - 1 = t
          BY <2>2, <2>3, <3>2, <4>5
        <5> HIDE DEF inputs, hosts
        <5> QED
          BY <4>2, <4>5, <5>1
      <4>6. CASE i > t + 1
        <5>1. ~(i <= t) /\ i # t + 1 /\ ~(i <= Len(frames[b].snapshot))
          BY <2>2, <2>3, <3>2, <4>6
        <5> HIDE DEF inputs, hosts, batch
        <5> QED
          BY <4>2, <5>1 DEF BatchOf
      <4> QED
        BY <2>2, <4>4, <4>5, <4>6
    <3> QED
      BY <2>2, <3>1, <3>2
  <2> QED
    BY <2>5 DEF Resimulate, Replay
<1> QED
  BY <1>1, IInvAlways, PTL

-----------------------------------------------------------------------------
(* What follows about every step *)

\* No call ever emits an effect that is on show, withdraws one that is not, or keeps quiet
\* about one that goes.
THEOREM ReconciledOnceHolds == Spec => ReconciledOnce
<1> DEFINE Reconciled == /\ result'.emit \intersect screen = {}
                         /\ result'.invalidated \subseteq screen
                         /\ result'.suppressed \subseteq screen \intersect screen'
<1>1. IInv /\ [Next]_vars => [Reconciled]_vars
  <2> SUFFICES ASSUME IInv, [Next]_vars PROVE [Reconciled]_vars
    OBVIOUS
  <2>1. ASSUME NEW s \in StartStates, NEW batch \in Batch, head = NoState, Advance(s, batch)
        PROVE  Reconciled
    BY <2>1, AdvanceIInv
  <2>2. ASSUME NEW batch \in Batch, head # NoState, Advance(head, batch) PROVE Reconciled
    BY <2>2, AdvanceIInv
  <2>3. ASSUME NEW t, NEW batch \in Batch, Correct(t, batch) PROVE Reconciled
    BY <2>3, CorrectIInv
  <2>4. CASE /\ UNCHANGED <<frames, head, presented, screen, first>>
             /\ result' \in {Refused, Raised, result}
    BY <2>4 DEF Refused, Raised, None, vars
  <2> QED
    BY <2>1, <2>2, <2>3, <2>4, NextCases
<1> QED
  BY <1>1, IInvAlways, PTL DEF Spec, ReconciledOnce

\* What a history has shown is what its timeline presents.
LEMMA ShownIsPresents ==
  ASSUME NEW s, NEW from PROVE ShownSince(s, from) = Timeline!Presents(s, from)
BY DEF ShownSince, Timeline!Presents, Ticks, Shown, Before

\* RetainedRollbackHistory implements a timeline that is rewritten in place: an advance
\* appends to it, a correction replaces one batch of the window, and what the host shows is
\* always what the timeline presents.
THEOREM TimelineImplemented == Spec => TimelineSpec
<1>1. Init => Timeline!Init
  BY DEF Init, Timeline!Init
<1>2. IInv /\ [Next]_vars => [Timeline!Next]_<<head, first, screen>>
  <2> SUFFICES ASSUME IInv, [Next]_vars PROVE Timeline!Next \/ UNCHANGED <<head, first, screen>>
    OBVIOUS
  <2>1. Timeline!Batch = Batch
    BY DEF Batch, Timeline!Batch
  <2>2. ASSUME Begun' PROVE screen' = Timeline!Presents(head', first')
    BY <2>2, ShownIsPresents DEF Begun
  <2>3. ASSUME NEW s \in StartStates, NEW batch \in Batch, head = NoState, Advance(s, batch)
        PROVE  Timeline!Next
    <3>1. Begun' /\ head' = Append(s, batch) /\ first' = Len(s)
      BY <2>3, AdvanceIInv
    <3>2. s \in Seq(Batch)
      BY HistoryAssumption
    <3>3. first' = Len(head') - 1
      BY <3>1, <3>2
    <3>4. Timeline!Begin
      BY <2>1, <2>3, <3>1, <3>3 DEF Timeline!Begin
    <3> QED
      BY <2>2, <3>1, <3>4 DEF Timeline!Next
  <2>4. ASSUME NEW batch \in Batch, head # NoState, Advance(head, batch) PROVE Timeline!Next
    <3>1. Begun' /\ head' = Append(head, batch) /\ UNCHANGED first
      BY <2>4, AdvanceIInv
    <3>2. Timeline!Grow
      BY <2>1, <2>4, <3>1 DEF Timeline!Grow
    <3> QED
      BY <2>2, <3>1, <3>2 DEF Timeline!Next
  <2>5. ASSUME NEW t, NEW batch \in Batch, Correct(t, batch) PROVE Timeline!Next
    <3>1. /\ Begun' /\ head' = [head EXCEPT ![t + 1] = batch] /\ UNCHANGED first
          /\ first <= t /\ t < Len(head) /\ t >= Len(head) - Retained /\ t \in Nat
      BY <2>5, CorrectIInv
    <3>2. head # NoState /\ first \in Nat /\ Len(head) \in Nat
      BY <2>5 DEF Correct, CanCorrect, IInv, Begun, NotBegun
    <3>3. t \in first .. (Len(head) - 1)
      BY <3>1, <3>2
    <3>4. Timeline!Rewrite
      BY <2>1, <3>1, <3>2, <3>3 DEF Timeline!Rewrite
    <3> QED
      BY <2>2, <3>1, <3>4 DEF Timeline!Next
  <2> QED
    BY <2>3, <2>4, <2>5, NextCases
<1> QED
  BY <1>1, <1>2, IInvAlways, PTL DEF Spec, TimelineSpec, Timeline!Spec
=============================================================================
