---------------------------- MODULE MCFileProtocols -----------------------------
(* Parts of an installation that share no state with each other, explored one at *)
(* a time.  Calls: two call sets and two packages through three publications of  *)
(* the capability plane (installs, an upgrade, a package that is disabled and    *)
(* enabled again).  Index: two processes publish one index document through      *)
(* process exits and power failures.  Fence: two processes, two tasks in the     *)
(* first.  Tools: two versions of one tool.  Grants: two operations on two       *)
(* generations of two packages, or three on two generations of one.              *)
EXTENDS CapabilityPlane, CapabilityIndex, MaintenanceFence, ToolStore, WorkspaceGrants, TLC

CONSTANTS p1, p2, t1, t2, t3, q1, q2, o3

VARIABLE part

MCProcessOf == (t1 :> p1) @@ (t2 :> p1) @@ (t3 :> p2)

\* What the reviewed changes are about.
Changed ==
    UNION {DOMAIN change'[o].grants \cup DOMAIN change'[o].retirements :
             o \in {o \in Operation : change'[o] # Nothing}}
GrantsWithin == change'[o3] = Nothing \/ q2 \notin Changed

MCInit ==
    /\ part \in {"calls", "index", "fence", "tools", "grants"}
    /\ Init /\ IndexInit /\ FenceInit /\ ToolInit /\ GrantInit
    /\ part # "fence" => ~marker
MCNext ==
    /\ UNCHANGED part
    /\ \/ /\ part = "calls" /\ Next
          /\ UNCHANGED <<indexVars, fenceVars, toolVars, grantVars>>
       \/ /\ part = "index" /\ IndexNext
          /\ UNCHANGED <<vars, fenceVars, toolVars, grantVars>>
       \/ /\ part = "fence" /\ FenceNext
          /\ UNCHANGED <<vars, indexVars, toolVars, grantVars>>
       \/ /\ part = "tools" /\ ToolNext
          /\ UNCHANGED <<vars, indexVars, fenceVars, grantVars>>
       \/ /\ part = "grants" /\ GrantNext /\ GrantsWithin
          /\ UNCHANGED <<vars, indexVars, fenceVars, toolVars>>
MCSpec ==
    /\ MCInit
    /\ [][MCNext]_<<vars, indexVars, fenceVars, toolVars, grantVars, part>>
    /\ \/ part = "calls" /\ Fairness
       \/ part = "index" /\ IndexFairness
       \/ part = "fence" /\ FenceFairness
       \/ part \in {"tools", "grants"}

\* No failure of materialize leaves something behind that stops later attempts: as
\* long as the cutover is retried, the document gets published.
EventuallyPublished == part = "index" ~> receipt
================================================================================
