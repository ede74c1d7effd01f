--------------------------- MODULE MCControlDispatch ---------------------------
(* One package with one required surface, installed by the first operation and  *)
(* upgraded by the second, applied and resumed by concurrent processes.         *)
EXTENDS ControlDispatch, TLC

CONSTANTS a, sa, o1, o2

MCPackage == {a}
MCSurface == {sa}
MCSurfacePackage == sa :> a
MCOrder == (a :> 1) @@ (sa :> 2)
MCDepends == a :> <<{}, {}>>
Install == [action |-> "install", root |-> a, lock |-> a :> 1]
Upgrade == [action |-> "upgrade", root |-> a, lock |-> a :> 2]
MCInstall == {Install}
MCPlan == {Install, Upgrade}
WorkerSymmetry == Permutations(Worker)
MCToken == Op \X (0 .. MaxIterations)
==============================================================================
