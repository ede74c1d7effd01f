------------------------ MODULE MaintenanceFenceProofs ------------------------
(* The maintenance fence excludes for any number of processes and tasks.       *)
EXTENDS MaintenanceFence, FiniteSetTheorems, TLAPS

Guarding == {"nested", "shared"}

------------------------------------------------------------------------------

\* The guards of a process are finitely many.
LEMMA GuardsFinite ==
    ASSUME NEW p
    PROVE  /\ IsFiniteSet(GuardsOf(p))
           /\ Cardinality(GuardsOf(p)) \in Nat
BY FenceAssumption, FS_Subset, FS_CardinalityType DEF GuardsOf

\* A process whose task owns a guard has an entry in its hold map.
LEMMA GuardHolds ==
    ASSUME FenceTypeOK, DepthCountsGuards, NEW t \in Task, stage[t] \in Guarding
    PROVE  depth[ProcessOf[t]] > 0
<1>1. ProcessOf[t] \in Process
  BY FenceAssumption
<1>2. t \in GuardsOf(ProcessOf[t])
  BY DEF GuardsOf, Guarding
<1>3. Cardinality(GuardsOf(ProcessOf[t])) # 0
  BY <1>2, GuardsFinite, FS_EmptySet
<1> QED
  BY <1>1, <1>3, GuardsFinite DEF DepthCountsGuards, FenceTypeOK

\* Taking a guard and counting it keeps the count.
LEMMA GuardGained ==
    ASSUME FenceTypeOK, DepthCountsGuards, NEW t \in Task, NEW s \in Guarding,
           stage[t] \notin Guarding, FenceGoto(t, s), Hold(t)
    PROVE  DepthCountsGuards' /\ depth' \in [Process -> Nat]
<1>1. ProcessOf[t] \in Process
  BY FenceAssumption
<1>2. \A p \in Process : p # ProcessOf[t] => GuardsOf(p)' = GuardsOf(p)
  BY DEF GuardsOf, Guarding, FenceGoto, FenceTypeOK
<1>3. GuardsOf(ProcessOf[t])' = GuardsOf(ProcessOf[t]) \cup {t}
  BY DEF GuardsOf, Guarding, FenceGoto, FenceTypeOK
<1>4. t \notin GuardsOf(ProcessOf[t])
  BY DEF GuardsOf, Guarding
<1>5. Cardinality(GuardsOf(ProcessOf[t])') = Cardinality(GuardsOf(ProcessOf[t])) + 1
  BY <1>3, <1>4, GuardsFinite, FS_AddElement, Zenon
<1>6. depth' \in [Process -> Nat]
  BY <1>1 DEF Hold, FenceTypeOK
<1> QED
  BY <1>1, <1>2, <1>5, <1>6 DEF DepthCountsGuards, Hold, FenceTypeOK

\* Dropping a guard and its count keeps the count, which never goes below zero.
LEMMA GuardLost ==
    ASSUME FenceTypeOK, DepthCountsGuards, NEW t \in Task, stage[t] \in Guarding,
           FenceGoto(t, "idle"), Unhold(t)
    PROVE  DepthCountsGuards' /\ depth' \in [Process -> Nat]
<1>1. ProcessOf[t] \in Process
  BY FenceAssumption
<1>2. \A p \in Process : p # ProcessOf[t] => GuardsOf(p)' = GuardsOf(p)
  BY DEF GuardsOf, Guarding, FenceGoto, FenceTypeOK
<1>3. GuardsOf(ProcessOf[t])' = GuardsOf(ProcessOf[t]) \ {t}
  BY DEF GuardsOf, Guarding, FenceGoto, FenceTypeOK
<1>4. t \in GuardsOf(ProcessOf[t])
  BY DEF GuardsOf, Guarding
<1>5. Cardinality(GuardsOf(ProcessOf[t])') = Cardinality(GuardsOf(ProcessOf[t])) - 1
  BY <1>3, <1>4, GuardsFinite, FS_RemoveElement
<1>6. depth[ProcessOf[t]] > 0
  BY GuardHolds
<1>7. depth' \in [Process -> Nat]
  BY <1>1, <1>6 DEF Unhold, FenceTypeOK
<1> QED
  BY <1>1, <1>2, <1>5, <1>7 DEF DepthCountsGuards, Unhold, FenceTypeOK

\* Any other move of a task leaves the count alone.
LEMMA GuardKept ==
    ASSUME FenceTypeOK, DepthCountsGuards, NEW t \in Task, NEW s,
           stage[t] \in Guarding <=> s \in Guarding, FenceGoto(t, s), UNCHANGED depth
    PROVE  DepthCountsGuards'
<1>1. \A p \in Process : GuardsOf(p)' = GuardsOf(p)
  BY DEF GuardsOf, Guarding, FenceGoto, FenceTypeOK
<1> QED
  BY <1>1 DEF DepthCountsGuards

\* The fence starts with no guards.
LEMMA FencedInit == FenceInit => Fenced
<1> SUFFICES ASSUME FenceInit PROVE Fenced
  OBVIOUS
<1>1. \A p \in Process : GuardsOf(p) = {}
  BY DEF FenceInit, GuardsOf
<1> QED
  BY <1>1, FS_EmptySet, FenceAssumption
  DEF FenceInit, Fenced, FenceTypeOK, Control, DepthCountsGuards, ExclusiveAlone,
      MarkerExcludes

\* Every step keeps the fence.
LEMMA FencedStep == Fenced /\ [FenceNext]_fenceVars => Fenced'
<1> SUFFICES ASSUME Fenced, [FenceNext]_fenceVars PROVE Fenced'
  OBVIOUS
<1> USE DEF Fenced
<1> USE FenceAssumption
<1>1. ASSUME NEW t \in Task, RequestShared(t) PROVE Fenced'
  <2>1. CASE depth[ProcessOf[t]] > 0
    <3>1. Hold(t) /\ FenceGoto(t, "nested") /\ stage[t] = "idle"
      BY <1>1, <2>1 DEF RequestShared, Request
    <3>2. DepthCountsGuards' /\ depth' \in [Process -> Nat]
      BY <3>1, GuardGained DEF Guarding
    <3>3. \A u \in Task : stage[u] # "exclusive"
      BY <2>1 DEF ExclusiveAlone, FenceTypeOK
    <3>4. ~marker
      <4>1. GuardsOf(ProcessOf[t]) # {}
        BY <2>1, FS_EmptySet DEF DepthCountsGuards
      <4> QED
        BY <4>1 DEF GuardsOf, MarkerExcludes
    <3>5. FenceTypeOK' /\ ExclusiveAlone' /\ MarkerExcludes'
      BY <1>1, <3>1, <3>2, <3>3, <3>4
      DEF RequestShared, Request, FenceGoto, ExclusiveAlone, MarkerExcludes, FenceTypeOK,
          Control
    <3> QED
      BY <3>2, <3>5
  <2>2. CASE ~(depth[ProcessOf[t]] > 0)
    <3>1. FenceGoto(t, "opening") /\ stage[t] = "idle" /\ UNCHANGED depth
      BY <1>1, <2>2 DEF RequestShared, Request
    <3>2. DepthCountsGuards'
      BY <3>1, GuardKept DEF Guarding
    <3>3. FenceTypeOK' /\ ExclusiveAlone' /\ MarkerExcludes'
      BY <1>1, <3>1
        DEF RequestShared, Request, FenceGoto, ExclusiveAlone, MarkerExcludes,
            FenceTypeOK, Control
    <3> QED
      BY <3>2, <3>3
  <2> QED
    BY <2>1, <2>2
<1>2. ASSUME NEW t \in Task, CheckNested(t) PROVE Fenced'
  <2>1. ~marker
    BY <1>2 DEF CheckNested, MarkerExcludes
  <2>2. FenceGoto(t, "shared") /\ stage[t] = "nested" /\ UNCHANGED depth
    BY <1>2, <2>1 DEF CheckNested
  <2>3. DepthCountsGuards'
    BY <2>2, GuardKept DEF Guarding
  <2>4. FenceTypeOK' /\ ExclusiveAlone' /\ MarkerExcludes'
    BY <1>2, <2>1, <2>2
      DEF CheckNested, FenceGoto, ExclusiveAlone, MarkerExcludes, FenceTypeOK, Control
  <2> QED
    BY <2>3, <2>4
<1>3. ASSUME NEW t \in Task, LockShared(t) PROVE Fenced'
  <2>1. DepthCountsGuards'
    BY <1>3, GuardKept DEF LockShared, Guarding
  <2>2. FenceTypeOK' /\ ExclusiveAlone' /\ MarkerExcludes'
    BY <1>3
      DEF LockShared, LockedExclusive, FenceGoto, ExclusiveAlone, MarkerExcludes,
          FenceTypeOK, Control
  <2> QED
    BY <2>1, <2>2
<1>4. ASSUME NEW t \in Task, Contended(t) PROVE Fenced'
  <2>1. DepthCountsGuards'
    BY <1>4, GuardKept DEF Contended, Guarding
  <2>2. FenceTypeOK' /\ ExclusiveAlone' /\ MarkerExcludes'
    BY <1>4 DEF Contended, FenceGoto, ExclusiveAlone, MarkerExcludes, FenceTypeOK, Control
  <2> QED
    BY <2>1, <2>2
<1>5. ASSUME NEW t \in Task, CheckMarker(t) PROVE Fenced'
  <2>1. DepthCountsGuards'
    BY <1>5, GuardKept DEF CheckMarker, Guarding
  <2>2. FenceTypeOK' /\ ExclusiveAlone' /\ MarkerExcludes'
    BY <1>5 DEF CheckMarker, FenceGoto, ExclusiveAlone, MarkerExcludes, FenceTypeOK, Control
  <2> QED
    BY <2>1, <2>2
<1>6. ASSUME NEW t \in Task, PublishHold(t) PROVE Fenced'
  <2>1. DepthCountsGuards' /\ depth' \in [Process -> Nat]
    BY <1>6, GuardGained DEF PublishHold, Guarding
  <2>2. ~marker /\ \A u \in Task : stage[u] # "exclusive"
    BY <1>6 DEF PublishHold, ExclusiveAlone, MarkerExcludes
  <2>3. FenceTypeOK' /\ ExclusiveAlone' /\ MarkerExcludes'
    BY <1>6, <2>1, <2>2
      DEF PublishHold, FenceGoto, ExclusiveAlone, MarkerExcludes, FenceTypeOK, Control
  <2> QED
    BY <2>1, <2>3
<1>7. ASSUME NEW t \in Task, ReleaseShared(t) PROVE Fenced'
  <2>1. DepthCountsGuards' /\ depth' \in [Process -> Nat]
    BY <1>7, GuardLost DEF ReleaseShared, Guarding
  <2>2. \A u \in Task : stage[u] # "exclusive"
    BY <1>7, GuardHolds DEF ReleaseShared, Guarding, ExclusiveAlone, FenceTypeOK
  <2>3. FenceTypeOK' /\ ExclusiveAlone' /\ MarkerExcludes'
    BY <1>7, <2>1, <2>2
      DEF ReleaseShared, FenceGoto, ExclusiveAlone, MarkerExcludes, FenceTypeOK, Control
  <2> QED
    BY <2>1, <2>3
<1>8. ASSUME NEW t \in Task, RequestExclusive(t) PROVE Fenced'
  <2>1. DepthCountsGuards'
    BY <1>8, GuardKept DEF RequestExclusive, Request, Guarding
  <2>2. FenceTypeOK' /\ ExclusiveAlone' /\ MarkerExcludes'
    BY <1>8
      DEF RequestExclusive, Request, FenceGoto, ExclusiveAlone, MarkerExcludes,
          FenceTypeOK, Control
  <2> QED
    BY <2>1, <2>2
<1>9. ASSUME NEW t \in Task, HoldsDrained(t) PROVE Fenced'
  <2>1. DepthCountsGuards'
    BY <1>9, GuardKept DEF HoldsDrained, Guarding
  <2>2. FenceTypeOK' /\ ExclusiveAlone' /\ MarkerExcludes'
    BY <1>9
      DEF HoldsDrained, FenceGoto, ExclusiveAlone, MarkerExcludes, FenceTypeOK, Control
  <2> QED
    BY <2>1, <2>2
<1>10. ASSUME NEW t \in Task, LockExclusive(t) PROVE Fenced'
  <2>1. DepthCountsGuards'
    BY <1>10, GuardKept DEF LockExclusive, Guarding
  <2>2. \A p \in Process : depth[p] = 0
    BY <1>10
      DEF LockExclusive, ExclusiveGrantable, LockedShared, HandleOfProcess, FenceTypeOK
  <2>3. \A u \in Task : stage[u] \notin {"locked", "checked", "exclusive"}
    BY <1>10
      DEF LockExclusive, ExclusiveGrantable, LockedShared, LockedExclusive, HandleOfTask
  <2>4. FenceTypeOK' /\ ExclusiveAlone' /\ MarkerExcludes'
    BY <1>10, <2>2, <2>3
      DEF LockExclusive, FenceGoto, ExclusiveAlone, MarkerExcludes, FenceTypeOK, Control
  <2> QED
    BY <2>1, <2>4
<1>11. ASSUME NEW t \in Task, PublishMarker(t) PROVE Fenced'
  <2>1. DepthCountsGuards'
    BY <1>11 DEF PublishMarker, DepthCountsGuards, GuardsOf
  <2>2. \A u \in Task : stage[u] \notin {"checked", "nested", "shared"}
    BY <1>11, GuardHolds DEF PublishMarker, ExclusiveAlone, Guarding, FenceTypeOK
  <2>3. FenceTypeOK' /\ ExclusiveAlone' /\ MarkerExcludes'
    BY <1>11, <2>2 DEF PublishMarker, ExclusiveAlone, MarkerExcludes, FenceTypeOK
  <2> QED
    BY <2>1, <2>3
<1>12. ASSUME NEW t \in Task, ClearMarker(t) PROVE Fenced'
  <2>1. DepthCountsGuards'
    BY <1>12 DEF ClearMarker, DepthCountsGuards, GuardsOf
  <2>2. \A u \in Task : stage[u] \notin {"checked", "nested", "shared"}
    BY <1>12, GuardHolds DEF ClearMarker, ExclusiveAlone, Guarding, FenceTypeOK
  <2>3. FenceTypeOK' /\ ExclusiveAlone' /\ MarkerExcludes'
    BY <1>12, <2>2, Zenon DEF ClearMarker, ExclusiveAlone, MarkerExcludes, FenceTypeOK
  <2> QED
    BY <2>1, <2>3
<1>13. ASSUME NEW t \in Task, ReleaseExclusive(t) PROVE Fenced'
  <2>1. DepthCountsGuards'
    BY <1>13, GuardKept DEF ReleaseExclusive, Guarding
  <2>2. FenceTypeOK' /\ ExclusiveAlone' /\ MarkerExcludes'
    BY <1>13
      DEF ReleaseExclusive, FenceGoto, ExclusiveAlone, MarkerExcludes, FenceTypeOK, Control
  <2> QED
    BY <2>1, <2>2
<1>14. ASSUME NEW t \in Task, Cancel(t) PROVE Fenced'
  <2>1. CASE stage[t] = "nested"
    <3>1. Unhold(t) /\ FenceGoto(t, "idle")
      BY <1>14, <2>1 DEF Cancel
    <3>2. DepthCountsGuards' /\ depth' \in [Process -> Nat]
      BY <2>1, <3>1, GuardLost DEF Guarding
    <3>3. \A u \in Task : stage[u] # "exclusive"
      BY <2>1, GuardHolds DEF Guarding, ExclusiveAlone, FenceTypeOK
    <3>4. FenceTypeOK' /\ ExclusiveAlone' /\ MarkerExcludes'
      BY <1>14, <3>1, <3>2, <3>3
        DEF Cancel, FenceGoto, ExclusiveAlone, MarkerExcludes, FenceTypeOK, Control
    <3> QED
      BY <3>2, <3>4
  <2>2. CASE stage[t] # "nested"
    <3>1. UNCHANGED depth /\ FenceGoto(t, "idle") /\ stage[t] \notin Guarding
      BY <1>14, <2>2 DEF Cancel, Guarding
    <3>2. DepthCountsGuards'
      BY <3>1, GuardKept DEF Guarding
    <3>3. FenceTypeOK' /\ ExclusiveAlone' /\ MarkerExcludes'
      BY <1>14, <3>1
        DEF Cancel, FenceGoto, ExclusiveAlone, MarkerExcludes, FenceTypeOK, Control
    <3> QED
      BY <3>2, <3>3
  <2> QED
    BY <2>1, <2>2
<1>15. ASSUME NEW p \in Process, CrashProcess(p) PROVE Fenced'
  <2>1. \A q \in Process : GuardsOf(q)' = IF q = p THEN {} ELSE GuardsOf(q)
    BY <1>15 DEF CrashProcess, GuardsOf, FenceTypeOK
  <2>2. depth' \in [Process -> Nat]
    BY <1>15 DEF CrashProcess, FenceTypeOK
  <2>3. DepthCountsGuards'
    BY <1>15, <2>1, FS_EmptySet, Zenon DEF CrashProcess, DepthCountsGuards, FenceTypeOK
  <2>4. FenceTypeOK' /\ ExclusiveAlone' /\ MarkerExcludes'
    BY <1>15, <2>2 DEF CrashProcess, ExclusiveAlone, MarkerExcludes, FenceTypeOK, Control
  <2> QED
    BY <2>3, <2>4
<1>16. CASE UNCHANGED fenceVars
  BY <1>16
    DEF fenceVars, FenceTypeOK, DepthCountsGuards, GuardsOf, ExclusiveAlone, MarkerExcludes
<1> QED
  BY <1>1, <1>2, <1>3, <1>4, <1>5, <1>6, <1>7, <1>8, <1>9, <1>10, <1>11, <1>12, <1>13,
     <1>14, <1>15, <1>16
    DEF FenceNext, FenceStep

\* The inductive invariant holds in every reachable state.
THEOREM AlwaysFenced == FenceSpec => []Fenced
<1>1. FenceInit => Fenced
  BY FencedInit
<1>2. Fenced /\ [FenceNext]_fenceVars => Fenced'
  BY FencedStep
<1> QED
  BY <1>1, <1>2, PTL DEF FenceSpec

\* The hold map entry of a process counts its live guards exactly.
THEOREM GuardsCounted == FenceSpec => []DepthCountsGuards
<1>1. Fenced => DepthCountsGuards
  BY DEF Fenced
<1> QED
  BY <1>1, AlwaysFenced, PTL

\* An exclusive guard excludes every other guard of every process.
THEOREM FenceExcludes == FenceSpec => []Exclusion
<1>1. Fenced => Exclusion
  <2> SUFFICES ASSUME Fenced, NEW t \in Task, NEW u \in Task, stage[t] = "exclusive", u # t
               PROVE  stage[u] \notin {"exclusive", "shared", "nested"}
    BY DEF Exclusion
  <2>1. stage[u] # "exclusive"
    BY DEF Fenced, ExclusiveAlone
  <2>2. stage[u] \notin Guarding
    BY GuardHolds, FenceAssumption DEF Fenced, ExclusiveAlone, FenceTypeOK
  <2> QED
    BY <2>1, <2>2 DEF Guarding
<1> QED
  BY <1>1, AlwaysFenced, PTL

\* No ordinary access overlaps an unfinished restore.
THEOREM RestoresIsolated == FenceSpec => []RestoreIsolated
<1>1. Fenced => RestoreIsolated
  BY DEF Fenced, MarkerExcludes, RestoreIsolated
<1> QED
  BY <1>1, AlwaysFenced, PTL
==============================================================================
