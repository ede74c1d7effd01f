--------------------------- MODULE MaintenanceFence ---------------------------
(* The maintenance fence of one installation state root: the lock file that    *)
(* ordinary state access takes shared and backup or restore take exclusive,    *)
(* the process-wide map that lets nested shared guards reuse one OS handle,    *)
(* and the durable restore marker that keeps ordinary access out until an      *)
(* interrupted restore has been finished.                                      *)
(*                                                                             *)
(* A task is one asynchronous caller of one process.  Its control state names  *)
(* the await point of StateMaintenanceLock::acquire it is suspended at.        *)
EXTENDS Integers, FiniteSets

CONSTANTS
    Process,
    Task,
    ProcessOf,      \* [Task -> Process]
    MaxRequests     \* how often each task asks for a guard

ASSUME FenceAssumption ==
    /\ IsFiniteSet(Task)
    /\ ProcessOf \in [Task -> Process]
    /\ MaxRequests \in Nat

VARIABLES
    stage,         \* what each task is doing
    depth,      \* the depth of each process' entry in shared_holds(), 0 when absent
    marker,     \* a non-empty .maintenance.restore.json exists
    requests    \* how many guards each task has asked for

fenceVars == <<stage, depth, marker, requests>>

\* "nested" has joined its process' hold and has not looked at the marker yet;
\* "opening" and "claiming" wait for the file lock; "locked" owns a shared
\* handle and has not looked at the marker; "checked" has; "draining" waits for
\* its own process' holds.
Control ==
    {"idle", "nested", "opening", "locked", "checked", "shared",
     "draining", "claiming", "exclusive"}

\* The map entry owns the handle of every guard of its process.
HandleOfProcess(p) == depth[p] > 0
HandleOfTask(t) == stage[t] \in {"locked", "checked"}

\* What the operating system's lock on .maintenance.lock is held as.
LockedShared == (\E p \in Process : HandleOfProcess(p)) \/ (\E t \in Task : HandleOfTask(t))
LockedExclusive == \E t \in Task : stage[t] = "exclusive"

FenceGoto(t, state) == stage' = [stage EXCEPT ![t] = state]

Hold(t) == depth' = [depth EXCEPT ![ProcessOf[t]] = @ + 1]

\* Mutant: only the outermost guard gives its depth back.
UnholdOutermost(t) ==
    depth' = [depth EXCEPT ![ProcessOf[t]] = IF @ = 1 THEN 0 ELSE @]

\* The last guard to go removes the entry and with it closes the handle.
Unhold(t) == depth' = [depth EXCEPT ![ProcessOf[t]] = @ - 1]

FenceInit ==
    /\ stage = [t \in Task |-> "idle"]
    /\ depth = [p \in Process |-> 0]
    /\ marker \in BOOLEAN
    /\ requests = [t \in Task |-> 0]

Request(t) ==
    /\ stage[t] = "idle"
    /\ requests[t] < MaxRequests
    /\ requests' = [requests EXCEPT ![t] = @ + 1]

\* acquire_shared, up to its first await: join the hold of the own process when
\* there is one, and otherwise go for the file lock.
RequestShared(t) ==
    /\ Request(t)
    /\ \/ /\ depth[ProcessOf[t]] > 0
          /\ Hold(t)
          /\ FenceGoto(t, "nested")
       \/ /\ depth[ProcessOf[t]] = 0
          /\ FenceGoto(t, "opening")
          /\ UNCHANGED depth
    /\ UNCHANGED marker

\* The nested guard is returned, or dropped with the error.
CheckNested(t) ==
    /\ stage[t] = "nested"
    /\ FenceGoto(t, IF marker THEN "idle" ELSE "shared")
    /\ IF marker THEN Unhold(t) ELSE UNCHANGED depth
    /\ UNCHANGED <<marker, requests>>

LockShared(t) ==
    /\ stage[t] = "opening"
    /\ ~LockedExclusive
    /\ FenceGoto(t, "locked")
    /\ UNCHANGED <<depth, marker, requests>>

\* try_acquire_shared does not wait behind an exclusive holder.
Contended(t) ==
    /\ stage[t] = "opening"
    /\ LockedExclusive
    /\ FenceGoto(t, "idle")
    /\ UNCHANGED <<depth, marker, requests>>

\* Mutant: the marker is not looked at.
CheckMarkerIgnored(t) ==
    /\ stage[t] = "locked"
    /\ FenceGoto(t, "checked")
    /\ UNCHANGED <<depth, marker, requests>>

\* reject_active_restore; the error closes the handle.
CheckMarker(t) ==
    /\ stage[t] = "locked"
    /\ FenceGoto(t, IF marker THEN "idle" ELSE "checked")
    /\ UNCHANGED <<depth, marker, requests>>

\* Enter the hold map: a hold that appeared meanwhile is joined and the new
\* handle closed, otherwise the new handle becomes the hold.
PublishHold(t) ==
    /\ stage[t] = "checked"
    /\ FenceGoto(t, "shared")
    /\ Hold(t)
    /\ UNCHANGED <<marker, requests>>

ReleaseShared(t) ==
    /\ stage[t] = "shared"
    /\ FenceGoto(t, "idle")
    /\ Unhold(t)
    /\ UNCHANGED <<marker, requests>>

RequestExclusive(t) ==
    /\ Request(t)
    /\ FenceGoto(t, "draining")
    /\ UNCHANGED <<depth, marker>>

\* The polling loop ends when this process holds nothing.
HoldsDrained(t) ==
    /\ stage[t] = "draining"
    /\ depth[ProcessOf[t]] = 0
    /\ FenceGoto(t, "claiming")
    /\ UNCHANGED <<depth, marker, requests>>

\* Mutant: handles of callers still on their way into the map are overlooked.
ExclusiveOverHolds == ~LockedExclusive /\ \A p \in Process : depth[p] = 0

\* External: flock grants the exclusive lock.  The hold map may have filled
\* again since the loop ended; the file lock decides.
ExclusiveGrantable == ~LockedShared /\ ~LockedExclusive

LockExclusive(t) ==
    /\ stage[t] = "claiming"
    /\ ExclusiveGrantable
    /\ FenceGoto(t, "exclusive")
    /\ UNCHANGED <<depth, marker, requests>>

\* A restore publishes its marker and clears it last, both under the exclusive
\* guard.  An exclusive holder that finds a marker is the restore's resumption.
PublishMarker(t) ==
    /\ stage[t] = "exclusive"
    /\ ~marker
    /\ marker' = TRUE
    /\ UNCHANGED <<stage, depth, requests>>

ClearMarker(t) ==
    /\ stage[t] = "exclusive"
    /\ marker
    /\ marker' = FALSE
    /\ UNCHANGED <<stage, depth, requests>>

ReleaseExclusive(t) ==
    /\ stage[t] = "exclusive"
    /\ FenceGoto(t, "idle")
    /\ UNCHANGED <<depth, marker, requests>>

\* The caller drops its future at an await point.  A blocking lock call that
\* was already running closes its handle as soon as it returns.
Cancel(t) ==
    /\ \/ /\ stage[t] \in {"opening", "locked", "draining", "claiming"}
          /\ UNCHANGED depth
       \/ /\ stage[t] = "nested"
          /\ Unhold(t)
    /\ FenceGoto(t, "idle")
    /\ UNCHANGED <<marker, requests>>

\* External: the process dies and the system closes its handles.  The marker
\* survives.
CrashProcess(p) ==
    /\ \E t \in Task : ProcessOf[t] = p /\ stage[t] # "idle"
    /\ stage' = [t \in Task |-> IF ProcessOf[t] = p THEN "idle" ELSE stage[t]]
    /\ depth' = [depth EXCEPT ![p] = 0]
    /\ UNCHANGED <<marker, requests>>

\* The steps a caller takes by itself once it has asked for a guard.
FenceStep(t) ==
    \/ CheckNested(t) \/ LockShared(t) \/ CheckMarker(t) \/ PublishHold(t) \/ ReleaseShared(t)
    \/ HoldsDrained(t) \/ LockExclusive(t) \/ ReleaseExclusive(t)

FenceNext ==
    \/ \E t \in Task :
         \/ RequestShared(t) \/ RequestExclusive(t) \/ FenceStep(t)
         \/ Contended(t) \/ PublishMarker(t) \/ ClearMarker(t) \/ Cancel(t)
    \/ \E p \in Process : CrashProcess(p)

FenceSpec == FenceInit /\ [][FenceNext]_fenceVars

\* Guards are dropped when their scope ends, and the runtime polls every task.
FenceFairness == \A t \in Task : WF_fenceVars(FenceStep(t))

------------------------------------------------------------------------------

\* Type invariant of the fence.
FenceTypeOK ==
    /\ stage \in [Task -> Control]
    /\ depth \in [Process -> Nat]
    /\ marker \in BOOLEAN
    /\ requests \in [Task -> 0 .. MaxRequests]

GuardsOf(p) == {t \in Task : ProcessOf[t] = p /\ stage[t] \in {"nested", "shared"}}

\* The depth of the hold map entry counts the live guards of its process
\* exactly (StateMaintenanceGuard::drop against acquire), so the OS handle is
\* closed neither early nor late.
DepthCountsGuards == \A p \in Process : depth[p] = Cardinality(GuardsOf(p))

\* While one caller owns the exclusive guard nobody else, in any process, owns
\* a guard of either kind, although a nested shared guard is handed out without
\* touching the file lock.
Exclusion ==
    \A t, u \in Task :
        stage[t] = "exclusive" /\ u # t => stage[u] \notin {"exclusive", "shared", "nested"}

\* While a restore marker is on disk no caller is inside ordinary state access,
\* also after the restoring process died: reject_active_restore runs before the
\* guard is returned and nothing can publish a marker in between.
RestoreIsolated == marker => \A t \in Task : stage[t] # "shared"

\* An exclusive guard leaves no shared handle anywhere, neither in a hold map
\* nor on its way into one.
ExclusiveAlone ==
    \A t \in Task : stage[t] = "exclusive" =>
        /\ \A p \in Process : depth[p] = 0
        /\ \A u \in Task : stage[u] \notin {"locked", "checked"}
        /\ \A u \in Task : stage[u] = "exclusive" => u = t

\* Past the marker check, only while there is no marker.
MarkerExcludes == marker => \A t \in Task : stage[t] \notin {"checked", "nested", "shared"}

\* The inductive invariant of the fence: the counting of guards ties the hold
\* map to the tasks, which makes the file lock's own exclusion carry over to
\* guards that never touched the file.
Fenced == FenceTypeOK /\ DepthCountsGuards /\ ExclusiveAlone /\ MarkerExcludes

\* Every caller that waits for an exclusive guard gets it or gives up, once the
\* others stop asking: the polling loop never waits for a hold nobody owns.
ExclusiveServed ==
    \A t \in Task : stage[t] = "draining" ~> stage[t] \in {"exclusive", "idle"}
==============================================================================
