-------------------------- MODULE DeliveryContract --------------------------
(***************************************************************************)
(* What the gateway promises the terminals and the destinations, without   *)
(* queue, loop, sessions or dump (README.md, "Delivery and recovery").     *)
(* A packet is refused, or its delivery to every destination it is for is  *)
(* owed until it is made.  A failure may lose owed deliveries, never those *)
(* made safe before, and a destination may take a packet again.            *)
(***************************************************************************)
EXTENDS Naturals

CONSTANTS Packets, Dests, Targets, AckMode

VARIABLES
    sent,       \* packets handed over by terminals
    owed,       \* deliveries promised, not made and not lost
    safe,       \* those of them no failure can lose
    accepted,   \* packets each destination has taken
    reply       \* what terminals were told

vars == <<sent, owed, safe, accepted, reply>>

Init ==
    /\ sent = {} /\ owed = {} /\ safe = {}
    /\ accepted = [d \in Dests |-> {}]
    /\ reply = [p \in Packets |-> "none"]

Promise(p) ==
    /\ p \notin sent /\ sent' = sent \union {p}
    /\ owed' = owed \union ({p} \X Targets[p])
    /\ UNCHANGED <<safe, accepted, reply>>

Reject(p) ==
    /\ p \notin sent /\ sent' = sent \union {p}
    /\ UNCHANGED <<owed, safe, accepted, reply>>

\* A destination takes a packet that is owed to it, and no other.
Take(p, d) ==
    /\ <<p, d>> \in owed
    /\ owed' = owed \ {<<p, d>>} /\ safe' = safe \ {<<p, d>>}
    /\ accepted' = [accepted EXCEPT ![d] = @ \union {p}]
    /\ UNCHANGED <<sent, reply>>

\* Safe deliveries stay safe until they are made, even when others are lost.
Secure ==
    /\ safe \subseteq safe' /\ safe' \subseteq owed
    /\ UNCHANGED <<sent, owed, accepted, reply>>
Lose ==
    /\ safe \subseteq owed' /\ owed' \subseteq owed
    /\ safe \subseteq safe' /\ safe' \subseteq owed'
    /\ UNCHANGED <<sent, accepted, reply>>

\* A positive answer means the deliveries are owed or made, in mode "delivered"
\* all made; a refused packet is owed to nobody and never delivered.
Accounted(p, d) == <<p, d>> \in owed \/ p \in accepted[d]
Answer(p) ==
    /\ p \in sent /\ reply[p] = "none"
    /\ \/ /\ \A d \in Targets[p] : IF AckMode = "delivered" THEN p \in accepted[d] ELSE Accounted(p, d)
          /\ reply' = [reply EXCEPT ![p] = "ok"]
       \/ /\ \A d \in Dests : ~Accounted(p, d)
          /\ reply' = [reply EXCEPT ![p] = "refused"]
    /\ UNCHANGED <<sent, owed, safe, accepted>>

Next ==
    \/ \E p \in Packets : Promise(p) \/ Reject(p) \/ Answer(p) \/ \E d \in Dests : Take(p, d)
    \/ Secure \/ Lose

Spec == Init /\ [][Next]_vars
=============================================================================
