----------------------------- MODULE Engagement -----------------------------
(* What users do and are told: the analytics events, the notification        *)
(* pipeline, the social features and the WebSocket server.  These components *)
(* share no stored state: what one hands to another - an event published to  *)
(* the notification stream, a notice fanned out to sockets - is an input of  *)
(* the receiver, which takes it in any order.  So a behaviour runs one of    *)
(* them, chosen by the initial state, and one model checks them all.         *)
EXTENDS NotificationStream, EventQueue, Social, Realtime

VARIABLE part  \* the component this behaviour exercises

Parts == {"stream", "events", "social", "realtime"}

vars == <<part, stimuli, streamVars, queueVars, socialVars, realtimeVars>>

Init ==
  /\ part \in Parts /\ stimuli = 0
  /\ StreamInit /\ EventInit /\ SocialInit /\ RealtimeInit

Next ==
  /\ part' = part
  /\ \/ /\ part = "stream" /\ StreamNext
        /\ UNCHANGED <<queueVars, socialVars, realtimeVars>>
     \/ /\ part = "events" /\ EventNext
        /\ UNCHANGED <<streamVars, socialVars, realtimeVars>>
     \/ /\ part = "social" /\ SocialNext
        /\ UNCHANGED <<streamVars, queueVars, realtimeVars>>
     \/ /\ part = "realtime" /\ RealtimeNext
        /\ UNCHANGED <<streamVars, queueVars, socialVars>>

Spec == Init /\ [][Next]_vars


\* Every component's state stays within its type.
TypeOK == BudgetOK /\ StreamTypeOK /\ EventTypeOK /\ SocialTypeOK /\ RealtimeTypeOK
=============================================================================
