------------------------------ MODULE Lockstep ------------------------------
(***************************************************************************)
(* A lockstep session: one LockstepCoordinator (reference/python/          *)
(* pcam_runtime/networking.py) at every peer.  The transport and the host  *)
(* are outside the code: a packet or a digest that was sent may arrive at  *)
(* any time, in any order, more than once or never, and the host runs the  *)
(* documents its coordinator returns.                                      *)
(*                                                                         *)
(* A tick document merges the packets in a canonical order, so it is the   *)
(* set of its inputs.  A state is what led to it: the documents a peer has *)
(* run, on the definition set of that peer; digests compare as states do.  *)
(***************************************************************************)
EXTENDS Integers, Sequences, FiniteSets

CONSTANTS
  Peers,         \* required_peers
  Builds,        \* definition_set_hash of each peer: the possible combinations
  Policies,      \* input_availability_policy: WAIT or PREDICT
  Resolutions,   \* desynchronization_policy: abort or report
  Interval,      \* digest_interval_ticks
  Choices,       \* external: the input_ids and contacts each peer may send for a tick
  NoContacts,    \* contacts of a tick without any packet
  MaxTick        \* bound: no tick is run from here on

ASSUME SessionAssumption ==
  /\ Peers # {} /\ IsFiniteSet(Peers)
  /\ Policies \subseteq {"WAIT", "PREDICT"}
  /\ Resolutions \subseteq {"pcam.desync.abort", "pcam.desync.report"}
  /\ Interval \in Nat \ {0}
  /\ MaxTick \in Nat

VARIABLES
  policy,      \* the input_availability_policy the session was agreed on
  onDesync,    \* the desynchronization_policy likewise
  build,       \* definition_set_hash of each coordinator
  nextTick,    \* next_tick of each coordinator
  aborted,     \* aborted
  packets,     \* _packets: by peer
  digestTicks, \* _digest_ticks
  reports,     \* _digest_reports: by tick, then by peer
  sent,        \* external: the packets that were sent
  log,         \* external: the documents each peer has run
  verdict      \* external: by tick, the resolution each peer was given

coordinator == <<nextTick, aborted, packets, digestTicks, reports>>

session == <<policy, onDesync, build>>

vars == <<session, coordinator, sent, log, verdict>>

Empty == << >>

Init ==
  /\ policy \in Policies
  /\ onDesync \in Resolutions
  /\ build \in Builds
  /\ nextTick = [p \in Peers |-> 0]
  /\ aborted = [p \in Peers |-> FALSE]
  /\ packets = [p \in Peers |-> Empty]
  /\ digestTicks = [p \in Peers |-> {}]
  /\ reports = [p \in Peers |-> Empty]
  /\ sent = {}
  /\ log = [p \in Peers |-> Empty]
  /\ verdict = [p \in Peers |-> Empty]

\* f with x at k, where k may be new.
With(f, k, x) == [j \in DOMAIN f \union {k} |-> IF j = k THEN x ELSE f[j]]

-----------------------------------------------------------------------------
(* Packets *)

Payload == UNION {Choices[p] : p \in Peers}

Packet == [from : Peers, tick : Nat, build : {build[p] : p \in Peers}, payload : Payload]

\* A peer makes up its mind about a tick once, and sends the same packet to everyone.
Send(p) ==
  /\ nextTick[p] < MaxTick
  /\ \A m \in sent : m.from = p => m.tick # nextTick[p]
  /\ \E payload \in Choices[p] :
       sent' = sent \union {[from |-> p, tick |-> nextTick[p], build |-> build[p],
                             payload |-> payload]}
  /\ UNCHANGED <<session, coordinator, log, verdict>>

\* Mutant of Accepts: a packet of an earlier tick is taken for this one.
AcceptsLate(p, m) ==
  /\ ~aborted[p]
  /\ m.tick <= nextTick[p]
  /\ m.build = build[p]
  /\ m.from \notin DOMAIN packets[p]

\* submit raises unless the packet is the peer's only one for the tick that comes next.  Its
\* inputs are those of a sender that keeps to the format: of the tick of the packet, each once.
Accepts(p, m) ==
  /\ ~aborted[p]
  /\ m.tick = nextTick[p]
  /\ m.build = build[p]
  /\ m.from \notin DOMAIN packets[p]

Submit(p, m) ==
  /\ Accepts(p, m)
  /\ packets' = [packets EXCEPT ![p] = With(@, m.from, m)]
  /\ UNCHANGED <<session, nextTick, aborted, digestTicks, reports, sent, log, verdict>>

-----------------------------------------------------------------------------
(* Ticks *)

Have(p) == DOMAIN packets[p]

\* advance raises when hosts disagree about the contacts or an input_id comes twice.
HostsAgree(p) == \A q, r \in Have(p) : packets[p][q].payload.contacts = packets[p][r].payload.contacts

NoCollision(p) ==
  \A q, r \in Have(p) : q # r => packets[p][q].payload.inputs \intersect packets[p][r].payload.inputs = {}

Document(p) ==
  [inputs   |-> UNION {packets[p][q].payload.inputs : q \in Have(p)},
   contacts |-> IF Have(p) = {} THEN NoContacts
                ELSE packets[p][CHOOSE q \in Have(p) : TRUE].payload.contacts]

\* Mutant of Complete: a tick runs as soon as there is a packet.
CompleteSoon(p) == policy = "PREDICT" \/ Have(p) # {}

\* Otherwise advance answers WAITING and changes nothing.
Complete(p) == policy = "PREDICT" \/ Have(p) = Peers

DigestDue(t) == (t + 1) % Interval = 0

Advance(p) ==
  /\ ~aborted[p] /\ nextTick[p] < MaxTick
  /\ Complete(p) /\ HostsAgree(p) /\ NoCollision(p)
  /\ log' = [log EXCEPT ![p] = Append(@, Document(p))]
  /\ packets' = [packets EXCEPT ![p] = Empty]
  /\ nextTick' = [nextTick EXCEPT ![p] = @ + 1]
  /\ digestTicks' = [digestTicks EXCEPT ![p] =
                       IF DigestDue(nextTick[p]) THEN @ \union {nextTick[p]} ELSE @]
  /\ UNCHANGED <<session, aborted, reports, sent, verdict>>

-----------------------------------------------------------------------------
(* Digests *)

\* The digest of the state of p after tick t.
Digest(p, t) == <<build[p], SubSeq(log[p], 1, t + 1)>>

ReportsOf(p, t) == IF t \in DOMAIN reports[p] THEN reports[p][t] ELSE Empty

Desync == IF onDesync = "pcam.desync.abort" THEN "ABORTED" ELSE "REPORTED"

\* Mutant of Resolution: the reports so far decide.
ResolutionSoon(p, t, known) ==
  IF \E q \in DOMAIN known : known[q] # Digest(p, t) THEN Desync ELSE "MATCH"

\* Mutant of Resolution: a report that is missing is taken for one that differs.
ResolutionMissing(p, t, known) ==
  IF DOMAIN known = Peers /\ \A q \in Peers : known[q] = Digest(p, t) THEN "MATCH" ELSE Desync

\* Mutant of Resolution: only the report that came with the first peer is compared.
ResolutionFirst(p, t, known) ==
  IF DOMAIN known # Peers THEN "WAITING"
  ELSE IF known[CHOOSE q \in Peers : TRUE] # Digest(p, t) THEN Desync ELSE "MATCH"

Resolution(p, t, known) ==
  IF DOMAIN known # Peers THEN "WAITING"
  ELSE IF \E q \in Peers : known[q] # Digest(p, t) THEN Desync ELSE "MATCH"

\* Peer q has run tick t and reported its digest, which never changes afterwards.
SubmitDigest(p, q, t) ==
  LET known == With(ReportsOf(p, t), q, Digest(q, t))
      res   == Resolution(p, t, known)
  IN  /\ ~aborted[p]
      /\ t \in digestTicks[p] /\ t \in digestTicks[q]
      /\ q \notin DOMAIN ReportsOf(p, t)
      /\ reports' = [reports EXCEPT ![p] = With(@, t, known)]
      /\ aborted' = [aborted EXCEPT ![p] = res = "ABORTED"]
      /\ verdict' = [verdict EXCEPT ![p] = With(@, t, res)]
      /\ UNCHANGED <<session, nextTick, packets, digestTicks, sent, log>>

-----------------------------------------------------------------------------

Next ==
  \/ \E p \in Peers : Send(p) \/ Advance(p) \/ \E m \in sent : Submit(p, m)
  \/ \E p, q \in Peers : \E t \in digestTicks[q] : SubmitDigest(p, q, t)

Spec == Init /\ [][Next]_vars

\* A transport that loses nothing, and hosts that keep calling advance.
Fairness ==
  \A p \in Peers :
    /\ WF_vars(Send(p))
    /\ WF_vars(Advance(p))
    /\ WF_vars(\E m \in sent : Submit(p, m))
    /\ \A q \in Peers : WF_vars(\E t \in digestTicks[q] : SubmitDigest(p, q, t))

FairSpec == Spec /\ Fairness

-----------------------------------------------------------------------------
(* Properties *)

\* Types of the variables; a packet is kept only for the tick that comes next.
TypeOK ==
  /\ nextTick \in [Peers -> 0 .. MaxTick]
  /\ aborted \in [Peers -> BOOLEAN]
  /\ sent \subseteq Packet
  /\ \A p \in Peers :
       /\ DOMAIN packets[p] \subseteq Peers
       /\ \A q \in DOMAIN packets[p] :
            packets[p][q] \in Packet /\ packets[p][q].tick = nextTick[p]
       /\ digestTicks[p] \subseteq 0 .. (nextTick[p] - 1)
       /\ DOMAIN reports[p] \subseteq digestTicks[p]
       /\ Len(log[p]) = nextTick[p]

SameUpTo(p, q, t) == SubSeq(log[p], 1, t) = SubSeq(log[q], 1, t)

\* Under WAIT, two peers never run different documents for a tick, whatever arrives late,
\* twice or never, and whatever their hosts disagree about (PCAM-v3.md 29.2).
SameTimeline ==
  policy = "WAIT" =>
    \A p, q \in Peers : nextTick[p] <= nextTick[q] => SameUpTo(p, q, nextTick[p])

\* Under WAIT, no peer is more than one tick ahead of another.
InStep == policy = "WAIT" => \A p, q \in Peers : nextTick[p] <= nextTick[q] + 1

\* A peer that was told MATCH for a tick has run the same documents on the same definitions
\* as everyone up to that tick, prediction or not.
MatchMeansEqual ==
  \A p, q \in Peers : \A t \in DOMAIN verdict[p] :
    verdict[p][t] = "MATCH" =>
      t < nextTick[q] /\ SameUpTo(p, q, t + 1) /\ build[p] = build[q]

\* Two peers whose states differ after t ticks, by a prediction or by their definitions, and
\* that both run on through the next tick whose digest is exchanged, do not go on unnoticed:
\* each is told.
DriftNoticed ==
  \A p, q \in Peers : \A t \in 1 .. MaxTick :
    (/\ \E u \in t - 1 .. MaxTick - 1 : DigestDue(u) /\ u < nextTick[p] /\ u < nextTick[q]
     /\ Digest(p, t - 1) # Digest(q, t - 1)) ~>
       aborted[p] \/ \E u \in DOMAIN verdict[p] : verdict[p][u] = "REPORTED"

\* When one coordinator aborts, the session ends everywhere.
AbortSpreads == \A p, q \in Peers : aborted[p] ~> aborted[q]

\* With hosts and definitions that agree and a transport that loses nothing, waiting peers
\* get to the end, and no exchange ends the session.
SessionAdvances ==
  policy = "WAIT" /\ (\A p, q \in Peers : build[p] = build[q]) =>
    \A p \in Peers : <>[](nextTick[p] = MaxTick /\ ~aborted[p])
=============================================================================
