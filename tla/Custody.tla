------------------------------ MODULE Custody ------------------------------
(***************************************************************************)
(* What the probers promise about the holds they acquire: a hold KTMB keeps*)
(* for us always has somebody to see to it, or a line in the log; whoever  *)
(* hands it over no longer touches it, unless the handover was in doubt;   *)
(* and it is only forgotten once it is gone or has been given up.          *)
(***************************************************************************)
CONSTANTS Holds,
          Doubt   \* a handover that failed may have taken place

VARIABLES
  open,       \* the holds KTMB keeps for us
  cancelled,  \* the holds ended by our own Cancel
  owners      \* who sees to a hold; "nobody" once it is given up

vars == <<open, cancelled, owners>>

Init == open = {} /\ cancelled = {} /\ owners = [h \in Holds |-> {}]

\* By a slot, or by nobody when the answer does not get through.
Acquire(h, by) ==
  /\ owners[h] = {} /\ h \notin open
  /\ open' = open \union {h}
  /\ owners' = [owners EXCEPT ![h] = {by}]
  /\ UNCHANGED cancelled

\* From the slot to the buyers, the backlog or, given up, to nobody.
HandOver(h, to) ==
  /\ "slot" \in owners[h]
  /\ owners' = [owners EXCEPT ![h] = (@ \ {"slot"}) \union {to}]
  /\ UNCHANGED <<open, cancelled>>

\* The buyers or the backlog may have it, so both sides go on with it.
HandOverInDoubt(h) ==
  /\ Doubt /\ "slot" \in owners[h]
  /\ \/ owners' = [owners EXCEPT ![h] = @ \union {"buyers"}]
     \/ owners' = [owners EXCEPT ![h] = (@ \ {"slot"}) \union {"backlog", "nobody"}]
  /\ UNCHANGED <<open, cancelled>>

Mine == {"slot", "backlog"}

CancelHold(h) ==
  /\ h \in open /\ owners[h] \cap Mine # {}
  /\ open' = open \ {h} /\ cancelled' = cancelled \union {h}
  /\ owners' = owners \/ owners' = [owners EXCEPT ![h] = @ \ {"slot"}]

\* Paid by a buyer or run out.
End(h) ==
  /\ h \in open
  /\ open' = open \ {h}
  /\ UNCHANGED <<cancelled, owners>>

GiveUp(h) ==
  /\ "backlog" \in owners[h]
  /\ owners' = [owners EXCEPT ![h] = @ \union {"nobody"}]
  /\ UNCHANGED <<open, cancelled>>

Forget(h) ==
  /\ h \notin open \/ "nobody" \in owners[h]
  /\ owners' = [owners EXCEPT ![h] = @ \ {"backlog"}]
  /\ UNCHANGED <<open, cancelled>>

\* The pod dies with what its slots have in hand.
Die(S) ==
  /\ \A h \in S : "slot" \in owners[h]
  /\ owners' = [h \in Holds |-> IF h \in S THEN (owners[h] \ {"slot"}) \union {"nobody"} ELSE owners[h]]
  /\ UNCHANGED <<open, cancelled>>

Next ==
  \/ \E h \in Holds, by \in {"slot", "nobody"} : Acquire(h, by)
  \/ \E h \in Holds, to \in {"buyers", "backlog", "nobody"} : HandOver(h, to)
  \/ \E h \in Holds : HandOverInDoubt(h) \/ CancelHold(h) \/ End(h) \/ GiveUp(h) \/ Forget(h)
  \/ \E S \in SUBSET Holds : Die(S)

Spec == Init /\ [][Next]_vars
=============================================================================
