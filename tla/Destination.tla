----------------------------- MODULE Destination -----------------------------
(***************************************************************************)
(* What the delivery loop expects of WriteContext of any destination: an   *)
(* attempt with one packet ends without an error only if the destination   *)
(* has taken the packet in this attempt, once. After an error it may or    *)
(* may not have taken it. This is what the workers of module Gateway       *)
(* assume (AttemptOk, AttemptErr).                                         *)
(***************************************************************************)
CONSTANTS Messages, None

VARIABLES
    busy,    \* the packet of the attempt in progress
    taken,   \* the destination has taken it
    outcome  \* of the last attempt

vars == <<busy, taken, outcome>>

Init == busy = None /\ taken = FALSE /\ outcome = "none"

Begin(m) == busy = None /\ busy' = m /\ taken' = FALSE /\ outcome' = "none"
Take == busy # None /\ ~taken /\ taken' = TRUE /\ UNCHANGED <<busy, outcome>>
Confirm == busy # None /\ taken /\ outcome' = "ok" /\ busy' = None /\ taken' = FALSE
Fail == busy # None /\ outcome' = "error" /\ busy' = None /\ taken' = FALSE

\* Refused before anything was tried, or closed.
Refuse == busy = None /\ outcome' \in {"none", "error"} /\ UNCHANGED <<busy, taken>>

Next == (\E m \in Messages : Begin(m)) \/ Take \/ Confirm \/ Fail \/ Refuse

Spec == Init /\ [][Next]_vars

=============================================================================
