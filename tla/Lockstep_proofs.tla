-------------------------- MODULE Lockstep_proofs --------------------------
(***************************************************************************)
(* Proofs about Lockstep for every finite set of peers, every choice of    *)
(* inputs and contacts, every combination of definition sets, every digest *)
(* interval and every number of ticks.                                     *)
(*                                                                         *)
(* Agreement is not inductive alone: a document is read from the packets a *)
(* peer happens to hold, and two peers that hold packets of one tick agree *)
(* because a peer sends one packet for a tick and no later one until it    *)
(* has run that tick.                                                      *)
(***************************************************************************)
EXTENDS Lockstep, SequenceTheorems, TLAPS

Doc == [inputs   : SUBSET UNION {c.inputs : c \in Payload},
        contacts : {NoContacts} \union {c.contacts : c \in Payload}]

\* What the updates of the variables need of their shapes.
Shapes ==
  /\ DOMAIN packets = Peers
  /\ digestTicks \in [Peers -> SUBSET Nat]
  /\ DOMAIN reports = Peers
  /\ DOMAIN verdict = Peers
  /\ log \in [Peers -> Seq(Doc)]

\* A peer sends at most one packet for a tick, and none beyond the tick that comes next.
SentOnce ==
  /\ \A m, n \in sent : m.from = n.from /\ m.tick = n.tick => m = n
  /\ \A m \in sent : m.tick <= nextTick[m.from]

\* What a peer holds was sent, and is kept under its sender.
HeldWasSent ==
  \A p \in Peers : \A q \in DOMAIN packets[p] : packets[p][q] \in sent /\ packets[p][q].from = q

Spoke(q, t) == \E m \in sent : m.from = q /\ m.tick = t

PacketOf(q, t) == CHOOSE m \in sent : m.from = q /\ m.tick = t

\* The document of a tick for which every packet arrived.
FullDocument(t) ==
  [inputs   |-> UNION {PacketOf(q, t).payload.inputs : q \in Peers},
   contacts |-> PacketOf(CHOOSE q \in Peers : TRUE, t).payload.contacts]

\* Under WAIT, a tick is run with a packet of every peer, and its document follows from
\* what was sent.
LogFromSent ==
  policy = "WAIT" =>
    \A p \in Peers : \A t \in 0 .. (nextTick[p] - 1) :
      /\ \A q \in Peers : Spoke(q, t)
      /\ log[p][t + 1] = FullDocument(t)

\* A report is the digest of a tick its peer has run.
ReportsTrue ==
  \A p \in Peers : \A t \in DOMAIN reports[p] : \A q \in DOMAIN reports[p][t] :
    q \in Peers /\ t < nextTick[q] /\ reports[p][t][q] = Digest(q, t)

\* MATCH is given when all digests are in and are the peer's own.
VerdictsTrue ==
  \A p \in Peers : \A t \in DOMAIN verdict[p] :
    /\ t \in Nat /\ t < nextTick[p]
    /\ verdict[p][t] = "MATCH" =>
         \A q \in Peers : t < nextTick[q] /\ Digest(q, t) = Digest(p, t)

IInv ==
  /\ TypeOK /\ Shapes /\ SentOnce /\ HeldWasSent /\ LogFromSent /\ ReportsTrue /\ VerdictsTrue

-----------------------------------------------------------------------------
(* Digests of logs that grow *)

\* A log that grows keeps its prefixes.
LEMMA PrefixKept ==
  ASSUME NEW S, NEW s \in Seq(S), NEW d \in S, NEW n \in 0 .. Len(s)
  PROVE  SubSeq(Append(s, d), 1, n) = SubSeq(s, 1, n)
<1>1. Append(s, d) = s \o <<d>> /\ <<d>> \in Seq(S)
  BY AppendIsConcat
<1> QED
  BY <1>1, SubSeqOfConcat1

\* Logs of equal digests have the same prefix.
LEMMA DigestsEqual ==
  ASSUME NEW p, NEW q, NEW t, Digest(p, t) = Digest(q, t)
  PROVE  SameUpTo(p, q, t + 1) /\ build[p] = build[q]
BY DEF Digest, SameUpTo

-----------------------------------------------------------------------------
(* The inductive invariant *)

\* The initial state.
LEMMA InitIInv == Init => IInv
<1> SUFFICES ASSUME Init PROVE IInv
  OBVIOUS
<1>1. << >> \in Seq(Doc) /\ Len(<< >>) = 0 /\ DOMAIN << >> = {}
  OBVIOUS
<1>2. TypeOK
  BY <1>1, SessionAssumption DEF Init, TypeOK, Empty
<1>3. Shapes
  BY <1>1 DEF Init, Shapes, Empty
<1>4. SentOnce /\ HeldWasSent /\ LogFromSent /\ ReportsTrue /\ VerdictsTrue
  BY <1>1 DEF Init, SentOnce, HeldWasSent, LogFromSent, ReportsTrue, VerdictsTrue, Empty
<1> QED
  BY <1>2, <1>3, <1>4 DEF IInv

\* A packet is sent for a tick for which its peer has sent none.
LEMMA SendIInv == ASSUME IInv, NEW p \in Peers, Send(p) PROVE IInv'
<1>0. /\ nextTick \in [Peers -> 0 .. MaxTick] /\ MaxTick \in Nat
      /\ \A m \in sent : m.from \in Peers /\ m.tick \in Nat
  BY SessionAssumption DEF IInv, TypeOK, Packet
<1>1. PICK payload \in Choices[p] :
        sent' = sent \union {[from |-> p, tick |-> nextTick[p], build |-> build[p],
                              payload |-> payload]}
  BY DEF Send
<1> DEFINE new == [from |-> p, tick |-> nextTick[p], build |-> build[p], payload |-> payload]
<1>2. /\ UNCHANGED <<policy, build, nextTick, aborted, packets, digestTicks, reports, log, verdict>>
      /\ \A m \in sent : m.from = p => m.tick # nextTick[p]
  BY DEF Send, session, coordinator
<1>3. payload \in Payload /\ new \in [from : Peers, tick : Nat, build : {build[q] : q \in Peers}, payload : Payload]
  BY <1>0 DEF Payload
<1>4. TypeOK'
  BY <1>1, <1>2, <1>3 DEF IInv, TypeOK, Packet
<1>5. Shapes'
  BY <1>2 DEF IInv, Shapes
<1>6. SentOnce'
  BY <1>0, <1>1, <1>2 DEF IInv, SentOnce
<1>7. HeldWasSent'
  BY <1>1, <1>2 DEF IInv, HeldWasSent
<1>8. ASSUME NEW q \in Peers, NEW t, Spoke(q, t)
      PROVE  Spoke(q, t)' /\ PacketOf(q, t)' = PacketOf(q, t)
  <2>1. PICK m \in sent : m.from = q /\ m.tick = t
    BY <1>8 DEF Spoke
  <2>2. \A n \in sent' : n.from = q /\ n.tick = t => n = m
    BY <1>1, <1>6, <2>1 DEF SentOnce
  <2>3. \A n \in sent : n.from = q /\ n.tick = t => n = m
    BY <1>1, <2>2
  <2>4. PacketOf(q, t) = m
    BY <2>1, <2>3 DEF PacketOf
  <2>5. PacketOf(q, t)' = m
    BY <1>1, <2>1, <2>2 DEF PacketOf
  <2> QED
    BY <1>1, <2>1, <2>4, <2>5 DEF Spoke
<1>9. LogFromSent'
  <2> SUFFICES ASSUME policy = "WAIT", NEW q \in Peers, NEW t \in 0 .. (nextTick[q] - 1)
               PROVE  (\A r \in Peers : Spoke(r, t)') /\ log[q][t + 1] = FullDocument(t)'
    BY <1>2 DEF LogFromSent
  <2>1. (\A r \in Peers : Spoke(r, t)) /\ log[q][t + 1] = FullDocument(t)
    BY DEF IInv, LogFromSent
  <2>2. \A r \in Peers : Spoke(r, t)' /\ PacketOf(r, t)' = PacketOf(r, t)
    BY <1>8, <2>1
  <2>3. (CHOOSE r \in Peers : TRUE) \in Peers
    BY SessionAssumption
  <2>4. FullDocument(t)' = FullDocument(t)
    BY <2>2, <2>3 DEF FullDocument
  <2> QED
    BY <2>1, <2>2, <2>4
<1>10. ReportsTrue' /\ VerdictsTrue'
  BY <1>2 DEF IInv, ReportsTrue, VerdictsTrue, Digest
<1> QED
  BY <1>4, <1>5, <1>6, <1>7, <1>9, <1>10 DEF IInv

\* A packet that is taken was sent for the tick that comes next.
LEMMA SubmitIInv == ASSUME IInv, NEW p \in Peers, NEW m \in sent, Submit(p, m) PROVE IInv'
<1>1. /\ packets' = [packets EXCEPT ![p] = With(@, m.from, m)]
      /\ UNCHANGED <<policy, build, nextTick, aborted, digestTicks, reports, sent, log, verdict>>
      /\ m.tick = nextTick[p] /\ m \in Packet
  BY DEF Submit, Accepts, session, IInv, TypeOK
<1>2. \A q \in Peers : q # p => packets'[q] = packets[q]
  BY <1>1 DEF IInv, Shapes
<1>3. /\ DOMAIN packets'[p] = DOMAIN packets[p] \union {m.from}
      /\ \A q \in DOMAIN packets'[p] :
           packets'[p][q] = IF q = m.from THEN m ELSE packets[p][q]
  BY <1>1 DEF IInv, Shapes, With
<1>4. TypeOK'
  <2>1. /\ \A q \in DOMAIN packets'[p] : packets'[p][q] \in Packet /\ packets'[p][q].tick = nextTick[p]
        /\ DOMAIN packets'[p] \subseteq Peers
    <3>1. m.from \in Peers
      BY <1>1 DEF Packet
    <3> QED
      BY <1>1, <1>3, <3>1 DEF IInv, TypeOK
  <2>2. Packet' = Packet
    BY <1>1 DEF Packet
  <2> QED
    BY <1>1, <1>2, <2>1, <2>2 DEF IInv, TypeOK
<1>5. Shapes'
  BY <1>1 DEF IInv, Shapes
<1>6. HeldWasSent'
  BY <1>1, <1>2, <1>3 DEF IInv, HeldWasSent
<1>7. LogFromSent'
  BY <1>1 DEF IInv, LogFromSent, Spoke, FullDocument, PacketOf
<1>8. SentOnce' /\ ReportsTrue' /\ VerdictsTrue'
  BY <1>1 DEF IInv, SentOnce, ReportsTrue, VerdictsTrue, Digest
<1> QED
  BY <1>4, <1>5, <1>6, <1>7, <1>8 DEF IInv

\* A tick is run: under WAIT, with the packets that everyone sent for it.
LEMMA AdvanceIInv == ASSUME IInv, NEW p \in Peers, Advance(p) PROVE IInv'
<1> DEFINE now == nextTick[p]
<1>1. /\ log' = [log EXCEPT ![p] = Append(@, Document(p))]
      /\ packets' = [packets EXCEPT ![p] = Empty]
      /\ nextTick' = [nextTick EXCEPT ![p] = @ + 1]
      /\ digestTicks' = [digestTicks EXCEPT ![p] = IF DigestDue(now) THEN @ \union {now} ELSE @]
      /\ UNCHANGED <<policy, build, aborted, reports, sent, verdict>>
      /\ now < MaxTick /\ Complete(p)
  BY DEF Advance, session
<1>2. /\ now \in Nat /\ log[p] \in Seq(Doc) /\ Len(log[p]) = now /\ MaxTick \in Nat
      /\ nextTick \in [Peers -> 0 .. MaxTick]
  BY SessionAssumption DEF IInv, TypeOK, Shapes
<1>3. Document(p) \in Doc
  <2>1. \A q \in Have(p) : packets[p][q].payload \in Payload
    BY DEF IInv, TypeOK, Have, Packet
  <2>2. Have(p) # {} => (CHOOSE q \in Have(p) : TRUE) \in Have(p)
    OBVIOUS
  <2>3. UNION {packets[p][q].payload.inputs : q \in Have(p)}
          \in SUBSET UNION {c.inputs : c \in Payload}
    BY <2>1
  <2> QED
    BY <2>1, <2>2, <2>3 DEF Document, Doc
<1>4. /\ log'[p] \in Seq(Doc) /\ Len(log'[p]) = now + 1 /\ log'[p][now + 1] = Document(p)
      /\ \A t \in 0 .. (now - 1) : log'[p][t + 1] = log[p][t + 1]
      /\ \A q \in Peers : q # p => log'[q] = log[q]
  BY <1>1, <1>2, <1>3 DEF IInv, Shapes
<1>5. /\ nextTick'[p] = now + 1 /\ packets'[p] = << >>
      /\ \A q \in Peers : q # p => nextTick'[q] = nextTick[q] /\ packets'[q] = packets[q]
      /\ \A q \in Peers : nextTick'[q] \in 0 .. MaxTick /\ nextTick[q] <= nextTick'[q]
      /\ nextTick' \in [Peers -> 0 .. MaxTick]
  BY <1>1, <1>2 DEF IInv, TypeOK, Shapes, Empty
<1>6. \A q \in Peers : digestTicks'[q] \subseteq 0 .. (nextTick'[q] - 1) /\ digestTicks[q] \subseteq digestTicks'[q]
  BY <1>1, <1>2, <1>5 DEF IInv, TypeOK, Shapes
<1>7. TypeOK'
  <2>1. Packet' = Packet
    BY <1>1 DEF Packet
  <2> QED
    BY <1>1, <1>2, <1>4, <1>5, <1>6, <2>1 DEF IInv, TypeOK
<1>8. Shapes'
  <2>1. log' \in [Peers -> Seq(Doc)]
    BY <1>1, <1>4 DEF IInv, Shapes
  <2>2. digestTicks' \in [Peers -> SUBSET Nat]
    BY <1>1, <1>2 DEF IInv, Shapes
  <2>3. Doc' = Doc
    BY DEF Doc, Payload
  <2> QED
    BY <1>1, <2>1, <2>2, <2>3 DEF IInv, Shapes
<1>9. SentOnce'
  <2>1. \A m \in sent : m.from \in Peers /\ m.tick \in Nat
    BY DEF IInv, TypeOK, Packet
  <2> QED
    BY <1>1, <1>2, <1>5, <2>1 DEF IInv, SentOnce
<1>10. HeldWasSent'
  BY <1>1, <1>5 DEF IInv, HeldWasSent
<1>11. LogFromSent'
  <2> SUFFICES ASSUME policy = "WAIT", NEW q \in Peers, NEW t \in 0 .. (nextTick'[q] - 1)
               PROVE  (\A r \in Peers : Spoke(r, t)) /\ log'[q][t + 1] = FullDocument(t)
    <3>1. \A r, u : Spoke(r, u)' = Spoke(r, u) /\ FullDocument(u)' = FullDocument(u)
      BY <1>1 DEF Spoke, FullDocument, PacketOf
    <3> QED
      BY <1>1, <3>1 DEF LogFromSent
  <2>1. CASE t < nextTick[q]
    <3>1. t \in 0 .. (nextTick[q] - 1)
      BY <2>1, <1>2
    <3>2. (\A r \in Peers : Spoke(r, t)) /\ log[q][t + 1] = FullDocument(t)
      BY <3>1 DEF IInv, LogFromSent
    <3> QED
      BY <3>1, <3>2, <1>4
  <2>2. CASE ~(t < nextTick[q])
    <3>1. q = p /\ t = now
      BY <2>2, <1>2, <1>5
    <3>2. Have(p) = Peers
      BY <1>1 DEF Complete
    <3>3. ASSUME NEW r \in Peers PROVE Spoke(r, now) /\ packets[p][r] = PacketOf(r, now)
      <4>1. /\ packets[p][r] \in sent /\ packets[p][r].from = r
            /\ packets[p][r].tick = now
        BY <3>2 DEF Have, IInv, TypeOK, HeldWasSent
      <4>2. \A m \in sent : m.from = r /\ m.tick = now => m = packets[p][r]
        BY <4>1 DEF IInv, SentOnce
      <4> QED
        BY <4>1, <4>2 DEF Spoke, PacketOf
    <3>4. (CHOOSE r \in Peers : TRUE) \in Peers
      BY SessionAssumption
    <3>5. Document(p) = FullDocument(now)
      BY <3>2, <3>3, <3>4 DEF Document, FullDocument
    <3> QED
      BY <3>1, <3>3, <3>5, <1>4
  <2> QED
    BY <2>1, <2>2
<1>12. ASSUME NEW q \in Peers, NEW t \in Nat, t < nextTick[q]
       PROVE  Digest(q, t)' = Digest(q, t) /\ t < nextTick'[q]
  <2>1. SubSeq(log'[q], 1, t + 1) = SubSeq(log[q], 1, t + 1)
    <3>1. CASE q = p
      <4>1. t + 1 \in 0 .. Len(log[p])
        BY <1>2, <1>12, <3>1
      <4> QED
        BY <1>1, <1>2, <1>3, <3>1, <4>1, PrefixKept DEF IInv, Shapes
    <3> QED
      BY <3>1, <1>4
  <2> QED
    BY <1>1, <1>2, <1>5, <1>12, <2>1 DEF Digest
<1>13. ReportsTrue'
  <2> SUFFICES ASSUME NEW r \in Peers, NEW t \in DOMAIN reports[r], NEW q \in DOMAIN reports[r][t]
               PROVE  q \in Peers /\ t < nextTick'[q] /\ reports[r][t][q] = Digest(q, t)'
    BY <1>1 DEF ReportsTrue
  <2>1. t \in Nat
    BY DEF IInv, TypeOK, Shapes
  <2>2. q \in Peers /\ t < nextTick[q] /\ reports[r][t][q] = Digest(q, t)
    BY DEF IInv, ReportsTrue
  <2> QED
    BY <1>12, <2>1, <2>2
<1>14. VerdictsTrue'
  <2> SUFFICES ASSUME NEW r \in Peers, NEW t \in DOMAIN verdict[r]
               PROVE  /\ t \in Nat /\ t < nextTick'[r]
                      /\ verdict[r][t] = "MATCH" =>
                           \A q \in Peers : t < nextTick'[q] /\ Digest(q, t)' = Digest(r, t)'
    BY <1>1 DEF VerdictsTrue
  <2>1. /\ t \in Nat /\ t < nextTick[r]
        /\ verdict[r][t] = "MATCH" =>
             \A q \in Peers : t < nextTick[q] /\ Digest(q, t) = Digest(r, t)
    BY DEF IInv, VerdictsTrue
  <2> QED
    BY <1>12, <2>1
<1> QED
  BY <1>7, <1>8, <1>9, <1>10, <1>11, <1>13, <1>14 DEF IInv

\* A digest is reported, and MATCH is answered only to the last of equal ones.
LEMMA SubmitDigestIInv ==
  ASSUME IInv, NEW p \in Peers, NEW q \in Peers, NEW t, SubmitDigest(p, q, t) PROVE IInv'
<1> DEFINE known == With(ReportsOf(p, t), q, Digest(q, t))
           res   == Resolution(p, t, known)
<1>1. /\ t \in digestTicks[p] /\ t \in digestTicks[q]
      /\ reports' = [reports EXCEPT ![p] = With(@, t, known)]
      /\ aborted' = [aborted EXCEPT ![p] = res = "ABORTED"]
      /\ verdict' = [verdict EXCEPT ![p] = With(@, t, res)]
      /\ UNCHANGED <<policy, build, nextTick, packets, digestTicks, sent, log>>
  BY DEF SubmitDigest, session
<1>2. t \in Nat /\ t < nextTick[p] /\ t < nextTick[q]
  BY <1>1 DEF IInv, TypeOK, Shapes
<1>3. /\ DOMAIN reports'[p] = DOMAIN reports[p] \union {t}
      /\ reports'[p][t] = known
      /\ \A u \in DOMAIN reports[p] : u # t => reports'[p][u] = reports[p][u]
      /\ \A r \in Peers : r # p => reports'[r] = reports[r]
  BY <1>1 DEF IInv, Shapes, With
<1>4. /\ DOMAIN verdict'[p] = DOMAIN verdict[p] \union {t}
      /\ verdict'[p][t] = res
      /\ \A u \in DOMAIN verdict[p] : u # t => verdict'[p][u] = verdict[p][u]
      /\ \A r \in Peers : r # p => verdict'[r] = verdict[r]
  BY <1>1 DEF IInv, Shapes, With
<1>5. \A r \in DOMAIN known : r \in Peers /\ t < nextTick[r] /\ known[r] = Digest(r, t)
  BY <1>2 DEF IInv, ReportsTrue, With, ReportsOf, Empty
<1>6. TypeOK'
  <2>1. Packet' = Packet
    BY <1>1 DEF Packet
  <2>2. aborted' \in [Peers -> BOOLEAN]
    BY <1>1 DEF IInv, TypeOK
  <2>3. \A r \in Peers : DOMAIN reports'[r] \subseteq digestTicks[r]
    BY <1>1, <1>3 DEF IInv, TypeOK
  <2> QED
    BY <1>1, <2>1, <2>2, <2>3 DEF IInv, TypeOK
<1>7. Shapes'
  BY <1>1 DEF IInv, Shapes, Doc, Payload
<1>8. SentOnce' /\ HeldWasSent'
  BY <1>1 DEF IInv, SentOnce, HeldWasSent
<1>9. LogFromSent'
  BY <1>1 DEF IInv, LogFromSent, Spoke, FullDocument, PacketOf
<1>10. \A r, u : Digest(r, u)' = Digest(r, u)
  BY <1>1 DEF Digest
<1>11. ReportsTrue'
  <2> SUFFICES ASSUME NEW r \in Peers, NEW u \in DOMAIN reports'[r], NEW o \in DOMAIN reports'[r][u]
               PROVE  o \in Peers /\ u < nextTick[o] /\ reports'[r][u][o] = Digest(o, u)
    BY <1>1, <1>10 DEF ReportsTrue
  <2>1. CASE r = p /\ u = t
    BY <1>3, <1>5, <2>1
  <2>2. CASE ~(r = p /\ u = t)
    <3>1. u \in DOMAIN reports[r] /\ reports'[r][u] = reports[r][u]
      BY <1>3, <2>2
    <3> QED
      BY <3>1 DEF IInv, ReportsTrue
  <2> QED
    BY <2>1, <2>2
<1>12. VerdictsTrue'
  <2> SUFFICES ASSUME NEW r \in Peers, NEW u \in DOMAIN verdict'[r]
               PROVE  /\ u \in Nat /\ u < nextTick[r]
                      /\ verdict'[r][u] = "MATCH" =>
                           \A o \in Peers : u < nextTick[o] /\ Digest(o, u) = Digest(r, u)
    BY <1>1, <1>10 DEF VerdictsTrue
  <2>1. CASE r = p /\ u = t
    <3>1. ASSUME res = "MATCH", NEW o \in Peers PROVE t < nextTick[o] /\ Digest(o, t) = Digest(p, t)
      <4>1. DOMAIN known = Peers
        BY <3>1 DEF Resolution
      <4>2. ~ \E x \in Peers : known[x] # Digest(p, t)
        BY <3>1, <4>1 DEF Resolution, Desync
      <4> QED
        BY <1>5, <4>1, <4>2
    <3> QED
      BY <1>2, <1>4, <2>1, <3>1
  <2>2. CASE ~(r = p /\ u = t)
    <3>1. u \in DOMAIN verdict[r] /\ verdict'[r][u] = verdict[r][u]
      BY <1>4, <2>2
    <3> QED
      BY <3>1 DEF IInv, VerdictsTrue
  <2> QED
    BY <2>1, <2>2
<1> QED
  BY <1>6, <1>7, <1>8, <1>9, <1>11, <1>12 DEF IInv

\* Every step of every coordinator and of the transport.
LEMMA NextIInv == IInv /\ [Next]_vars => IInv'
<1> SUFFICES ASSUME IInv, [Next]_vars PROVE IInv'
  OBVIOUS
<1>1. ASSUME NEW p \in Peers, Send(p) PROVE IInv'
  BY <1>1, SendIInv
<1>2. ASSUME NEW p \in Peers, Advance(p) PROVE IInv'
  BY <1>2, AdvanceIInv
<1>3. ASSUME NEW p \in Peers, NEW m \in sent, Submit(p, m) PROVE IInv'
  BY <1>3, SubmitIInv
<1>4. ASSUME NEW p \in Peers, NEW q \in Peers, NEW t \in digestTicks[q], SubmitDigest(p, q, t)
      PROVE  IInv'
  BY <1>4, SubmitDigestIInv
<1>5. CASE UNCHANGED vars
  <2>1. UNCHANGED <<policy, build, nextTick, aborted, packets, digestTicks, reports, sent, log,
                    verdict>>
    BY <1>5 DEF vars, session, coordinator
  <2>2. UNCHANGED <<TypeOK, Shapes>>
    BY <2>1 DEF TypeOK, Packet, Shapes, Doc, Payload
  <2>3. UNCHANGED <<SentOnce, HeldWasSent, LogFromSent>>
    BY <2>1 DEF SentOnce, HeldWasSent, LogFromSent, Spoke, FullDocument, PacketOf
  <2>4. UNCHANGED <<ReportsTrue, VerdictsTrue>>
    BY <2>1 DEF ReportsTrue, VerdictsTrue, Digest
  <2> QED
    BY <2>2, <2>3, <2>4 DEF IInv
<1> QED
  BY <1>1, <1>2, <1>3, <1>4, <1>5 DEF Next

\* The invariant that the properties follow from holds in every state of a session.
THEOREM IInvAlways == Spec => []IInv
BY InitIInv, NextIInv, PTL DEF Spec

-----------------------------------------------------------------------------
(* What follows *)

\* The variables of every coordinator keep their types; in particular a packet is kept only
\* for the tick that comes next.
THEOREM TypeCorrect == Spec => []TypeOK
<1>1. IInv => TypeOK
  BY DEF IInv
<1> QED
  BY <1>1, IInvAlways, PTL

\* Under WAIT, a peer ran its latest tick with a packet of every other one, which that one
\* sends only when it has run all earlier ticks: no peer is more than one tick ahead.
THEOREM InStepHolds == Spec => []InStep
<1>1. IInv => InStep
  <2> SUFFICES ASSUME IInv, policy = "WAIT", NEW p \in Peers, NEW q \in Peers
               PROVE  nextTick[p] <= nextTick[q] + 1
    BY DEF InStep
  <2>1. nextTick[p] \in Nat /\ nextTick[q] \in Nat
    BY SessionAssumption DEF IInv, TypeOK
  <2>2. CASE nextTick[p] = 0
    BY <2>1, <2>2
  <2>3. CASE nextTick[p] # 0
    <3>1. nextTick[p] - 1 \in 0 .. (nextTick[p] - 1)
      BY <2>1, <2>3
    <3>2. PICK m \in sent : m.from = q /\ m.tick = nextTick[p] - 1
      BY <3>1 DEF IInv, LogFromSent, Spoke
    <3> QED
      BY <2>1, <3>2 DEF IInv, SentOnce
  <2> QED
    BY <2>2, <2>3
<1> QED
  BY <1>1, IInvAlways, PTL

\* Under WAIT, the documents that any two peers have run agree on every tick both have run,
\* for any number of peers and whatever the transport and the hosts do.
THEOREM SameTimelineHolds == Spec => []SameTimeline
<1>1. IInv => SameTimeline
  <2> SUFFICES ASSUME IInv, policy = "WAIT", NEW p \in Peers, NEW q \in Peers,
                      nextTick[p] <= nextTick[q]
               PROVE  SubSeq(log[p], 1, nextTick[p]) = SubSeq(log[q], 1, nextTick[p])
    BY DEF SameTimeline, SameUpTo
  <2>1. /\ nextTick[p] \in Nat /\ nextTick[q] \in Nat
        /\ log[p] \in Seq(Doc) /\ log[q] \in Seq(Doc)
        /\ Len(log[p]) = nextTick[p] /\ Len(log[q]) = nextTick[q]
    BY SessionAssumption DEF IInv, TypeOK, Shapes
  <2>2. ASSUME NEW i \in 1 .. nextTick[p] PROVE log[p][i] = log[q][i]
    <3>1. i - 1 \in 0 .. (nextTick[p] - 1) /\ i - 1 \in 0 .. (nextTick[q] - 1) /\ (i - 1) + 1 = i
      BY <2>1
    <3>2. log[p][(i - 1) + 1] = FullDocument(i - 1) /\ log[q][(i - 1) + 1] = FullDocument(i - 1)
      BY <3>1 DEF IInv, LogFromSent
    <3> QED
      BY <3>1, <3>2
  <2> QED
    BY <2>1, <2>2
<1> QED
  BY <1>1, IInvAlways, PTL

\* MATCH is never told to peers that differ, also when ticks were run on predictions.
THEOREM MatchMeansEqualHolds == Spec => []MatchMeansEqual
<1>1. IInv => MatchMeansEqual
  BY DigestsEqual DEF IInv, VerdictsTrue, MatchMeansEqual, Digest, SameUpTo
<1> QED
  BY <1>1, IInvAlways, PTL
=============================================================================
