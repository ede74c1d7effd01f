---------------------------- MODULE MCDispatchLive ----------------------------
(* Two installations: one whose owners fail and whose processes die, and a      *)
(* healthy one, whose owners defer and in which what is pending completes.      *)
EXTENDS MCControlDispatch

CONSTANTS TroubledIterations

VARIABLE healthy

Troubled ==
    INSTANCE ControlDispatch
        WITH Faulty <- TRUE, MaxCrashes <- 1, MaxClock <- 1, MaxDeferrals <- 1,
             MaxIterations <- TroubledIterations

LiveInit == InitDispatch /\ healthy \in BOOLEAN
LiveNext ==
    \/ healthy /\ NextDispatch /\ UNCHANGED healthy
    \/ ~healthy /\ Troubled!NextDispatch /\ UNCHANGED healthy
LiveSpec ==
    /\ LiveInit
    /\ [][LiveNext]_<<allVars, healthy>>
    /\ \/ healthy /\ JobFairness /\ DrainFairness
       \/ ~healthy /\ Troubled!JobFairness

==============================================================================
