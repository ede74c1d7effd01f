--------------------------- MODULE GenerationLedger ---------------------------
(* What the Control Store promises its readers (ADR-003): installation          *)
(* generations are committed one after the other, one transition at a time.     *)
(* A transition either becomes visible as a whole, once, and is then cleaned up *)
(* behind, or is abandoned and never seen; what is visible is never rolled back.*)
EXTENDS Naturals

VARIABLES
    desired,  \* the last committed generation
    visible,  \* the set holding the one generation readers see, empty at first
    serial,   \* how many generations have been made visible
    phase     \* the transition in progress: "idle", "preparing" or "retiring"

vars == <<desired, visible, serial, phase>>

Init == desired = 0 /\ visible = {} /\ serial = 0 /\ phase = "idle"

Commit ==
    /\ phase = "idle" /\ phase' = "preparing"
    /\ desired' = desired + 1
    /\ UNCHANGED <<visible, serial>>

Publish ==
    /\ phase = "preparing" /\ phase' = "retiring"
    /\ visible' = {desired} /\ serial' = serial + 1
    /\ UNCHANGED desired

Abandon ==
    /\ phase = "preparing" /\ phase' = "idle"
    /\ UNCHANGED <<desired, visible, serial>>

Finish ==
    /\ phase = "retiring" /\ phase' = "idle"
    /\ UNCHANGED <<desired, visible, serial>>

Next == Commit \/ Publish \/ Abandon \/ Finish

Spec == Init /\ [][Next]_vars
==============================================================================
