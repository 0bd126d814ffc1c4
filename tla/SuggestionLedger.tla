--------------------------- MODULE SuggestionLedger ---------------------------
(***************************************************************************)
(* What serving suggestions promises, with no tables and no interleaving:  *)
(* a ledger of spent tickets (suggestion ids and queued suggestions), from *)
(* which each request gets a ticket nobody else got or gets, or is refused.*)
(* A ticket spent for a request that dies is never handed out, and a       *)
(* request may exchange the ticket it spent for an unspent one before it   *)
(* answers.                                                                *)
(***************************************************************************)
CONSTANTS Requests, Tickets

VARIABLES
  spent,  \* tickets claimed so far
  answer  \* the answer of each request

Init ==
  /\ spent = {}
  /\ answer = [r \in Requests |-> "waiting"]

HandedOut == {answer[r] : r \in Requests}

(* On behalf of some request a ticket is claimed. *)
Spend(t) ==
  /\ t \notin spent
  /\ spent' = spent \union {t}
  /\ UNCHANGED answer

Give(r, t) ==
  /\ answer[r] = "waiting"
  /\ t \in spent \ HandedOut
  /\ answer' = [answer EXCEPT ![r] = t]
  /\ UNCHANGED spent

GiveInstead(r, t, new) ==
  /\ answer[r] = "waiting"
  /\ t \in spent \ HandedOut
  /\ new \notin spent \union HandedOut
  /\ spent' = (spent \ {t}) \union {new}
  /\ answer' = [answer EXCEPT ![r] = new]

Refuse(r) ==
  /\ answer[r] = "waiting"
  /\ answer' = [answer EXCEPT ![r] = "refused"]
  /\ UNCHANGED spent

Next ==
  \/ \E t \in Tickets : Spend(t)
  \/ \E r \in Requests, t \in Tickets : Give(r, t)
  \/ \E r \in Requests, t, new \in Tickets : GiveInstead(r, t, new)
  \/ \E r \in Requests : Refuse(r)

Spec == Init /\ [][Next]_<<spent, answer>>
==============================================================================
