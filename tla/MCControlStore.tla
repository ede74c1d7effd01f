---------------------------- MODULE MCControlStore ----------------------------
(* A small instance of ControlStore: package b may depend on package a, each has *)
(* one surface, and a plan is one of the reviewed plans listed here.            *)
EXTENDS ControlStore, TLC

CONSTANTS a, b, sa, sb

Locked(ra, rb) == (a :> ra) @@ (b :> rb)
PlanOf(action, root, lock) == [action |-> action, root |-> root, lock |-> lock]

MCPackage == {a, b}
MCSurface == {sa, sb}
MCSurfacePackage == (sa :> a) @@ (sb :> b)
MCOrder == (a :> 1) @@ (b :> 3) @@ (sa :> 2) @@ (sb :> 4)
\* Release 1 of b needs a; release 2 does not.
MCDepends == (a :> <<{}, {}>>) @@ (b :> <<{a}, {}>>)

\* Every action, a shared dependency, an upgrade that drops one.
MCPlan ==
    {PlanOf("install", a, Locked(1, 0)), PlanOf("install", b, Locked(1, 1)),
     PlanOf("upgrade", a, Locked(2, 0)), PlanOf("upgrade", b, Locked(0, 2)),
     PlanOf("disable", a, NoLock), PlanOf("enable", a, NoLock),
     PlanOf("uninstall", a, NoLock), PlanOf("uninstall", b, NoLock)}

MCToken == Op \X EffectId \X (1 .. MaxAttempt)

\* Tokens are only compared, and a caller presents a new one with every claim:
\* naming it after the attempt stands for every such choice.
MCClaim ==
    \E o \in Op, e \in EffectId, now \in Time, explicit \in BOOLEAN :
        /\ ClaimReady(o, e, now, explicit)
        /\ \E lease \in now + 1 .. now + MaxLease :
             ClaimNextEffect(o, e, <<o, e, outbox[o][e].attempt + 1>>, now, lease, explicit)

MCNext == Register \/ Cancel \/ Commit \/ MCClaim \/ Record \/ Complete
MCSpec == Init /\ [][MCNext]_vars

OpSymmetry == Permutations(Op)
==============================================================================
