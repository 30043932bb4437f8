----------------------------- MODULE Conversation -----------------------------
(***************************************************************************)
(* What one OPPRF instance promises its caller: four messages pass, each   *)
(* end speaking in turn, and the receiver ends up with the values the      *)
(* sender programmed; or, if the instance was not prepared, the first one  *)
(* passes and the receiver refuses.  SepPSI composes such conversations;   *)
(* SepOpprf is the code that implements one.                               *)
(***************************************************************************)

VARIABLES
    prepared,   \* whether the offline exchange has taken place
    msg,        \* the last message that was passed
    right       \* whether the receiver has decoded what the sender programmed

vars == <<prepared, msg, right>>

Init == prepared \in BOOLEAN /\ msg = "none" /\ right = FALSE

Pass(from, to) == msg = from /\ msg' = to /\ UNCHANGED prepared

SendSeed    == Pass("none", "seed") /\ UNCHANGED right
Refuse      == ~prepared /\ Pass("seed", "refused") /\ UNCHANGED right
Answer      == prepared /\ Pass("seed", "answer") /\ UNCHANGED right
SendPayload == Pass("answer", "payload") /\ UNCHANGED right
TakePayload == Pass("payload", "taken") /\ right' = TRUE

Next == SendSeed \/ Refuse \/ Answer \/ SendPayload \/ TakePayload

(* Its caller waits: a conversation that has begun is carried through.     *)
Fairness == WF_vars(Next)

Spec == Init /\ [][Next]_vars /\ Fairness
===============================================================================
