--------------------------- MODULE MCDispatchSafety ---------------------------
(* An install and an upgrade of the same package, in two installations: one     *)
(* whose owners fail and whose processes die, and a healthy one, whose owners   *)
(* defer.                                                                       *)
EXTENDS MCControlDispatch

VARIABLE healthy

Troubled == INSTANCE ControlDispatch WITH MaxDeferrals <- 0
Healthy == INSTANCE ControlDispatch WITH Faulty <- FALSE, MaxCrashes <- 0

SafetyInit == InitDispatch /\ healthy \in BOOLEAN
SafetyNext ==
    \/ ~healthy /\ Troubled!NextDispatch /\ UNCHANGED healthy
    \/ healthy /\ Healthy!NextDispatch /\ UNCHANGED healthy
SafetySpec == SafetyInit /\ [][SafetyNext]_<<allVars, healthy>>
==============================================================================
