---------------------------- MODULE MailContract ----------------------------
(***************************************************************************)
(* What the verification-email pipeline promises for each mail, whatever   *)
(* queues, locks and retries it uses: a mail that was accepted stays owed  *)
(* until the provider takes it or it is parked for an operator; a parked   *)
(* mail is owed again when it is replayed; only a replay that breaks off   *)
(* can make a mail that was parked disappear.                              *)
(***************************************************************************)
CONSTANT Mails
VARIABLES state,   \* where each mail stands
          broken   \* mails whose replay broke off half-way

vars == <<state, broken>>

Init == /\ state = [m \in Mails |-> "unasked"]
        /\ broken = {}

Move(m, from, to) == /\ state[m] \in from
                     /\ state' = [state EXCEPT ![m] = to]
                     /\ UNCHANGED broken

Accept(m)  == Move(m, {"unasked"}, "owed")
Deliver(m) == Move(m, {"unasked", "owed"}, "delivered")
Park(m)    == Move(m, {"owed"}, "parked")
Replay(m)  == Move(m, {"parked"}, "owed")
\* A replay breaks off: the mail may be gone, now or when its last attempt ends.
Break(m)   == /\ broken' = broken \cup {m}
              /\ \/ UNCHANGED state
                 \/ /\ state[m] = "parked"
                    /\ state' = [state EXCEPT ![m] = "gone"]
GiveUp(m)  == m \in broken /\ Move(m, {"owed"}, "gone")

Next == \E m \in Mails : \/ Accept(m) \/ Deliver(m) \/ Park(m)
                         \/ Replay(m) \/ Break(m) \/ GiveUp(m)

Spec == Init /\ [][Next]_vars
=============================================================================
