-------------------------- MODULE MCRollbackHistory --------------------------
(* An instance of RollbackHistory for TLC. *)
EXTENDS RollbackHistory

Idle == [inputs |-> NoInput, host |-> NoHost]

Starts == {<< >>, <<Idle>>}

\* A strike shows a spark where there is contact, and an echo one tick after it was made.
StrikeCues(s, b) ==
  (IF b.inputs = "strike" /\ b.host = "contact" THEN {"spark"} ELSE {})
  \union (IF Len(s) > 0 /\ s[Len(s)].inputs = "strike" THEN {"echo"} ELSE {})

\* Two strikes in a row with contact at the second one are a fault.
StrikeRaises(s, b) ==
  Len(s) > 0 /\ s[Len(s)].inputs = "strike" /\ b = [inputs |-> "strike", host |-> "contact"]
=============================================================================
