-------------------------- MODULE ControlStoreTypes --------------------------
(* Type correctness of ControlStore, and what its transactions do to single   *)
(* rows, for every set of operations, packages, surfaces, plans and tokens and *)
(* for every bound.                                                           *)
EXTENDS ControlStore, FiniteSetTheorems, SequenceTheorems, TLAPS

\* The lock a set of root locks selects is a lock.
LEMMA ReleaseOfType ==
    ASSUME NEW roots \in [Package -> Lock]
    PROVE  ReleaseOf(roots) \in Lock
<1> SUFFICES ASSUME NEW p \in Package
             PROVE  ReleaseOf(roots)[p] \in 0 .. MaxRelease
  BY Zenon DEF ReleaseOf, Lock
<1> DEFINE releases == {roots[r][p] : r \in Package} \ {0}
<1>1. releases \subseteq 0 .. MaxRelease
  BY DEF Lock
<1>2. ReleaseOf(roots)[p] = IF releases = {} THEN 0 ELSE CHOOSE r \in releases : TRUE
  BY DEF ReleaseOf
<1>3. CASE releases = {}
  BY <1>2, <1>3, PackageAssumption
<1>4. CASE releases # {}
  <2>1. (CHOOSE r \in releases : TRUE) \in releases
    BY <1>4
  <2> QED
    BY <2>1, <1>1, <1>2, <1>4
<1> QED
  BY <1>3, <1>4

\* Lifecycle identities allocated from a natural number are natural numbers above it.
LEMMA AllocateType ==
    ASSUME NEW last \in Nat, NEW changed \in SUBSET Package, NEW p \in changed
    PROVE  /\ AllocateLifecycle(last, changed, p) \in Nat
           /\ AllocateLifecycle(last, changed, p) > last
<1> DEFINE S == {q \in changed : Order[q] <= Order[p]}
<1>1. IsFiniteSet(S)
  BY PackageAssumption, FS_Subset
<1>2. Cardinality(S) \in Nat
  BY <1>1, FS_CardinalityType
<1>3. p \in S
  BY OrderAssumption
<1>4. Cardinality(S) # 0
  BY <1>1, <1>3, FS_EmptySet
<1> QED
  BY <1>2, <1>4 DEF AllocateLifecycle

LEMMA EmptySnapshotType == EmptySnapshot \in Snapshot
  BY PackageAssumption DEF EmptySnapshot, Snapshot, Lock, NoLock

\* The projection of a snapshot by a reviewed plan is a snapshot.
LEMMA ProjectSnapshotType ==
    ASSUME NEW prior \in Snapshot, NEW plan \in PlanSet, NEW last \in Nat,
           NEW lastState \in [Package -> Nat]
    PROVE  ProjectSnapshot(prior, plan, last, lastState) \in Snapshot
<1>1. RootsAfter(prior, plan) \in [Package -> Lock]
  <2>1. NoLock \in Lock /\ plan.lock \in Lock
    BY PackageAssumption DEF NoLock, Lock, PlanSet
  <2> QED
    BY <2>1, Zenon DEF RootsAfter, Snapshot
<1>2. ProjectEnablement(prior, plan) \in Snapshot
  <2> DEFINE state == [prior.stateGen EXCEPT ![plan.root] = prior.stateGen[plan.root] + 1]
             enabled == IF plan.action = "enable" THEN prior.enabled \cup {plan.root}
                                                  ELSE prior.enabled \ {plan.root}
  <2>1. state \in [Package -> Nat]
    BY DEF Snapshot, PlanSet
  <2>2. enabled \in SUBSET Package
    BY DEF Snapshot, PlanSet
  <2>3. ProjectEnablement(prior, plan) = [prior EXCEPT !.stateGen = state, !.enabled = enabled]
    BY DEF ProjectEnablement
  <2> HIDE DEF state, enabled
  <2> QED
    BY <2>1, <2>2, <2>3, Zenon DEF Snapshot
<1>3. ProjectGraph(prior, plan, last, lastState) \in Snapshot
  <2> DEFINE release == ReleaseOf(RootsAfter(prior, plan))
             changed == ChangedIn(prior, release)
  <2>1. release \in Lock
    BY <1>1, ReleaseOfType
  <2>2. changed \in SUBSET Package
    BY DEF ChangedIn
  <2>3. \A p \in changed : AllocateLifecycle(last, changed, p) \in Nat
    BY <2>2, AllocateType
  <2> HIDE DEF release, changed
  <2>4. [p \in Package |-> IF p \in changed THEN AllocateLifecycle(last, changed, p)
            ELSE IF release[p] # 0 THEN prior.life[p] ELSE 0] \in [Package -> Nat]
    BY <2>3 DEF Snapshot
  <2>5. [p \in Package |-> IF p \in changed THEN lastState[p] + 1
            ELSE IF release[p] # 0 THEN prior.stateGen[p] ELSE 0] \in [Package -> Nat]
    BY DEF Snapshot
  <2>6. {p \in Package : release[p] # 0 /\ (p \in changed \/ p \in prior.enabled)}
          \in SUBSET Package
    OBVIOUS
  <2> QED
    BY <1>1, <2>1, <2>4, <2>5, <2>6 DEF ProjectGraph, Snapshot, release, changed
<1> QED
  BY <1>2, <1>3 DEF ProjectSnapshot

LEMMA FreshRowType ==
    /\ FreshRow("none") \in EffectRow
    /\ FreshRow("pending") \in EffectRow
  BY DEF FreshRow, EffectRow, EffectStatus

LEMMA CutoverInEffectId == Cutover \in EffectId
  BY DEF EffectId

LEMMA InitType == Init => TypeOK
<1> SUFFICES ASSUME Init PROVE TypeOK
  OBVIOUS
<1>1. (CHOOSE p \in Package : TRUE) \in Package
  BY PackageAssumption
<1>2. op \in [Op -> OpRow]
  BY <1>1, PackageAssumption DEF Init, OpRow, OpStatus, PlanSet, Action, Lock, NoLock
<1>3. gen \in Seq(GenRow) /\ Len(gen) = current
  BY DEF Init
<1>4. outbox \in [Op -> [EffectId -> EffectRow]]
  BY FreshRowType DEF Init
<1> QED
  BY <1>2, <1>3, <1>4 DEF Init, TypeOK

\* A snapshot read at any generation up to the cursor is a snapshot.
LEMMA SnapshotAtType ==
    ASSUME TypeOK, NEW g \in 0 .. current
    PROVE  SnapshotAt(g) \in Snapshot
<1>1. CASE g = 0
  BY <1>1, EmptySnapshotType DEF SnapshotAt
<1>2. CASE g # 0
  <2>1. g \in 1 .. Len(gen)
    BY <1>2 DEF TypeOK
  <2>2. gen[g] \in GenRow
    BY <2>1 DEF TypeOK
  <2> QED
    BY <1>2, <2>2 DEF SnapshotAt, GenRow
<1> QED
  BY <1>1, <1>2

LEMMA OpRowUpdate ==
    ASSUME NEW row \in OpRow, NEW status \in OpStatus, NEW at \in Nat
    PROVE  /\ [row EXCEPT !.status = status, !.completedAt = at] \in OpRow
           /\ [row EXCEPT !.status = status, !.committedAt = at] \in OpRow
  BY Zenon DEF OpRow

LEMMA TimeIsNat == ASSUME NEW at \in Time PROVE at \in Nat /\ at > 0
  BY BoundAssumption DEF Time

LEMMA RegisterType ==
    ASSUME TypeOK, NEW o \in Op, NEW plan \in Plan, NEW at \in Time,
           RegisterOperation(o, plan, at)
    PROVE  TypeOK'
<1>1. op' \in [Op -> OpRow]
  BY PlanAssumption DEF TypeOK, RegisterOperation, OpRow, OpStatus, Time
<1> QED
  BY <1>1 DEF TypeOK, RegisterOperation

LEMMA CancelType ==
    ASSUME TypeOK, NEW o \in Op, NEW at \in Time, CancelOperation(o, at)
    PROVE  TypeOK'
<1>1. [op[o] EXCEPT !.status = "cancelled", !.completedAt = at] \in OpRow
  BY OpRowUpdate, TimeIsNat, Zenon DEF TypeOK, OpStatus
<1>2. op' \in [Op -> OpRow]
  BY <1>1 DEF TypeOK, CancelOperation
<1> QED
  BY <1>2 DEF TypeOK, CancelOperation

\* What a commit appends: one generation projected from the prior snapshot.
LEMMA CommitShape ==
    ASSUME TypeOK, NEW o \in Op, NEW at \in Time, CommitTransition(o, at)
    PROVE  \E last \in Nat, lastState \in [Package -> Nat] :
             LET target == ProjectSnapshot(SnapshotAt(current), op[o].plan, last, lastState)
             IN  /\ IsGreatest(last, LifecycleNumbers(current))
                 /\ target \in Snapshot
                 /\ InsertGeneration(o, target,
                        ProjectEffects(SnapshotAt(current), op[o].plan, target))
<1>1. op[o].expected = current /\ current \in 0 .. current
  BY DEF TypeOK, CommitTransition, CursorsExpected
<1>2. PICK last \in LifecycleNumbers(current) :
        \E lastState \in [Package -> UNION {StateNumbers(current, p) : p \in Package}] :
          LET target == ProjectSnapshot(SnapshotAt(current), op[o].plan, last, lastState)
          IN  /\ IsGreatest(last, LifecycleNumbers(current))
              /\ InsertGeneration(o, target,
                   ProjectEffects(SnapshotAt(current), op[o].plan, target))
  <2>1. \E last \in LifecycleNumbers(op[o].expected) :
        \E lastState \in [Package -> UNION {StateNumbers(op[o].expected, p) : p \in Package}] :
          LET target == ProjectSnapshot(SnapshotAt(op[o].expected), op[o].plan, last, lastState)
          IN  /\ IsGreatest(last, LifecycleNumbers(op[o].expected))
              /\ InsertGeneration(o, target,
                   ProjectEffects(SnapshotAt(op[o].expected), op[o].plan, target))
    BY Zenon DEF CommitTransition
  <2> QED
    BY <2>1, <1>1
<1>3. PICK lastState \in [Package -> UNION {StateNumbers(current, p) : p \in Package}] :
          LET target == ProjectSnapshot(SnapshotAt(current), op[o].plan, last, lastState)
          IN  /\ IsGreatest(last, LifecycleNumbers(current))
              /\ InsertGeneration(o, target,
                   ProjectEffects(SnapshotAt(current), op[o].plan, target))
  BY <1>2
<1>4. \A g \in 1 .. current : gen[g].snapshot \in Snapshot
  <2> TAKE g \in 1 .. current
  <2>1. gen[g] \in GenRow
    BY DEF TypeOK
  <2> QED
    BY <2>1 DEF GenRow
<1>5. last \in Nat
  BY <1>4 DEF LifecycleNumbers, Snapshot
<1>6. UNION {StateNumbers(current, p) : p \in Package} \subseteq Nat
  BY <1>4 DEF StateNumbers, Snapshot
<1>7. lastState \in [Package -> Nat]
  BY <1>6
<1>8. op[o].plan \in PlanSet
  BY DEF TypeOK, OpRow
<1>9. ProjectSnapshot(SnapshotAt(current), op[o].plan, last, lastState) \in Snapshot
  BY <1>1, <1>5, <1>7, <1>8, SnapshotAtType, ProjectSnapshotType
<1> QED
  BY <1>3, <1>5, <1>7, <1>9

\* Appending a generation moves the cursor with it.
LEMMA CommitType ==
    ASSUME TypeOK, NEW o \in Op, NEW at \in Time, CommitTransition(o, at)
    PROVE  TypeOK'
<1>1. PICK last \in Nat, lastState \in [Package -> Nat] :
        LET target == ProjectSnapshot(SnapshotAt(current), op[o].plan, last, lastState)
        IN  /\ IsGreatest(last, LifecycleNumbers(current))
            /\ target \in Snapshot
            /\ InsertGeneration(o, target,
                 ProjectEffects(SnapshotAt(current), op[o].plan, target))
  BY CommitShape
<1> DEFINE target == ProjectSnapshot(SnapshotAt(current), op[o].plan, last, lastState)
           effects == ProjectEffects(SnapshotAt(current), op[o].plan, target)
           row == [op |-> o, snapshot |-> target, cap |-> TargetCap(o),
                   state |-> "candidate", publishedAt |-> 0]
<1>2. target \in Snapshot /\ InsertGeneration(o, target, effects)
  BY <1>1
<1> HIDE DEF target, effects
<1>3. op[o] \in OpRow /\ current = op[o].expected
  BY DEF TypeOK, CommitTransition, CursorsExpected
<1>4. TargetCap(o) \in Nat
  BY <1>3 DEF TargetCap, OpRow
<1>5. row \in GenRow
  BY <1>2, <1>4 DEF GenRow, PublicationState
<1>6. current' = current + 1 /\ current' \in Nat
  BY <1>3 DEF CommitTransition, Target, TypeOK
<1>7. gen' \in Seq(GenRow) /\ Len(gen') = current'
  <2>1. gen' = Append(gen, row)
    BY <1>2 DEF InsertGeneration
  <2> HIDE DEF row
  <2> QED
    BY <2>1, <1>5, <1>6 DEF TypeOK
<1>8. outbox' \in [Op -> [EffectId -> EffectRow]]
  <2>1. [e \in EffectId |-> FreshRow(IF e \in effects THEN "pending" ELSE "none")]
          \in [EffectId -> EffectRow]
    <3> SUFFICES ASSUME NEW e \in EffectId
                 PROVE  FreshRow(IF e \in effects THEN "pending" ELSE "none") \in EffectRow
      OBVIOUS
    <3> QED
      BY FreshRowType
  <2> QED
    BY <1>2, <2>1 DEF InsertGeneration, TypeOK
<1>9. op' \in [Op -> OpRow]
  <2>1. [op[o] EXCEPT !.status = "effects-pending", !.committedAt = at] \in OpRow
    BY <1>3, OpRowUpdate, TimeIsNat, Zenon DEF OpStatus
  <2> QED
    BY <2>1 DEF TypeOK, CommitTransition
<1> QED
  BY <1>6, <1>7, <1>8, <1>9 DEF TypeOK, CommitTransition

LEMMA ClaimType ==
    ASSUME TypeOK, NEW o \in Op, NEW e \in EffectId, NEW t \in Token, NEW now \in Time,
           NEW lease \in now + 1 .. now + MaxLease, NEW explicit \in BOOLEAN,
           ClaimNextEffect(o, e, t, now, lease, explicit)
    PROVE  TypeOK'
<1> DEFINE row == [status |-> "claimed", attempt |-> outbox[o][e].attempt + 1,
                   token |-> t, lease |-> lease, observedAt |-> 0, retry |-> 0]
<1>1. outbox[o][e] \in EffectRow
  BY DEF TypeOK
<1>2. lease \in Nat
  BY TimeIsNat, BoundAssumption
<1>3. row \in EffectRow
  BY <1>1, <1>2 DEF EffectRow, EffectStatus
<1> HIDE DEF row
<1>4. outbox' = [outbox EXCEPT ![o][e] = row]
  BY DEF ClaimNextEffect, row
<1>5. outbox' \in [Op -> [EffectId -> EffectRow]]
  BY <1>3, <1>4 DEF TypeOK
<1> QED
  BY <1>5 DEF TypeOK, ClaimNextEffect

\* The capability rows after a cutover are the same sequence with new states.
LEMMA PublishType ==
    ASSUME TypeOK, NEW o \in Op, NEW at \in Time, PublishCapabilityCutover(o, at)
    PROVE  /\ published' \in Nat
           /\ gen' \in Seq(GenRow) /\ Len(gen') = Len(gen)
<1>1. op[o] \in OpRow
  BY DEF TypeOK
<1>2. \A g \in 1 .. Len(gen) : CutoverRow(o, g, at) \in GenRow
  <2> TAKE g \in 1 .. Len(gen)
  <2>1. gen[g] \in GenRow
    BY DEF TypeOK
  <2>2. at \in Nat
    BY TimeIsNat
  <2> QED
    BY <2>1, <2>2, Zenon DEF CutoverRow, GenRow, PublicationState
<1>3. Len(gen) \in Nat
  BY DEF TypeOK
<1>4. gen' = [g \in 1 .. Len(gen) |-> CutoverRow(o, g, at)]
  BY DEF PublishCapabilityCutover
<1> QED
  BY <1>1, <1>2, <1>3, <1>4 DEF PublishCapabilityCutover, TargetCap, OpRow

LEMMA RejectType ==
    ASSUME TypeOK, NEW o \in Op, NEW at \in Time, RejectOperation(o, at)
    PROVE  /\ op' \in [Op -> OpRow] /\ published' \in Nat
           /\ gen' \in Seq(GenRow) /\ Len(gen') = Len(gen)
<1>1. op' \in [Op -> OpRow]
  <2>1. [op[o] EXCEPT !.status = "rejected", !.completedAt = at] \in OpRow
    BY OpRowUpdate, TimeIsNat, Zenon DEF TypeOK, OpStatus
  <2> QED
    BY <2>1 DEF TypeOK, RejectOperation
<1>2. gen' \in Seq(GenRow) /\ Len(gen') = Len(gen)
  <2> DEFINE g == Target(o)
  <2>1. CASE g \in 1 .. Len(gen)
    <3>1. gen[g] \in GenRow
      BY <2>1 DEF TypeOK
    <3>2. [gen[g] EXCEPT !.state = "abandoned"] \in GenRow
      BY <3>1 DEF GenRow, PublicationState
    <3>3. gen' = gen \/ gen' = [gen EXCEPT ![g] = [gen[g] EXCEPT !.state = "abandoned"]]
      BY DEF RejectOperation
    <3> HIDE DEF g
    <3>4. gen \in Seq(GenRow)
      BY DEF TypeOK
    <3> QED
      BY <2>1, <3>2, <3>3, <3>4, ExceptSeq
  <2>2. CASE g \notin 1 .. Len(gen)
    <3>1. gen = [i \in 1 .. Len(gen) |-> gen[i]]
      BY LenProperties DEF TypeOK
    <3>2. ASSUME NEW x PROVE [gen EXCEPT ![g] = x] = gen
      <4> DEFINE h == [gen EXCEPT ![g] = x]
      <4>1. DOMAIN gen = 1 .. Len(gen) /\ h = [i \in 1 .. Len(gen) |-> h[i]]
        BY <3>1, Zenon
      <4>2. \A i \in 1 .. Len(gen) : h[i] = gen[i]
        BY <2>2, <4>1
      <4> QED
        BY <3>1, <4>1, <4>2, Zenon
    <3>3. gen' = gen
      BY <3>2 DEF RejectOperation
    <3> QED
      BY <3>3 DEF TypeOK
  <2> QED
    BY <2>1, <2>2
<1> QED
  BY <1>1, <1>2 DEF RejectOperation, TypeOK

LEMMA RecordType ==
    ASSUME TypeOK, NEW o \in Op, NEW e \in EffectId, NEW at \in Time,
           NEW outcome \in Outcome, NEW retry \in Nat, NEW t,
           RecordEffectObservation(o, e, t, outcome, at, retry)
    PROVE  TypeOK'
<1> DEFINE row == [outbox[o][e] EXCEPT !.status = outcome, !.observedAt = at, !.retry = retry]
<1>1. outbox[o][e] \in EffectRow
  BY DEF TypeOK
<1>2. row \in EffectRow
  BY <1>1, TimeIsNat, Zenon DEF EffectRow, EffectStatus, Outcome
<1>3. outbox' = [outbox EXCEPT ![o][e] = row]
  BY DEF RecordEffectObservation
<1> HIDE DEF row
<1>4. outbox' \in [Op -> [EffectId -> EffectRow]]
  BY <1>2, <1>3 DEF TypeOK
<1>5. CASE PublishCapabilityCutover(o, at)
  <2>1. op' = op
    BY <1>5 DEF PublishCapabilityCutover
  <2> QED
    BY <1>4, <1>5, <2>1, PublishType DEF TypeOK, RecordEffectObservation
<1>6. CASE RejectOperation(o, at)
  BY <1>4, <1>6, RejectType DEF TypeOK, RecordEffectObservation
<1>7. CASE UNCHANGED <<op, gen, published>>
  BY <1>4, <1>7 DEF TypeOK, RecordEffectObservation
<1>8. \/ PublishCapabilityCutover(o, at) \/ RejectOperation(o, at)
      \/ UNCHANGED <<op, gen, published>>
  BY DEF RecordEffectObservation
<1> QED
  BY <1>5, <1>6, <1>7, <1>8

LEMMA CompleteType ==
    ASSUME TypeOK, NEW o \in Op, NEW at \in Time, CompleteOperation(o, at)
    PROVE  TypeOK'
<1>1. [op[o] EXCEPT !.status = "completed", !.completedAt = at] \in OpRow
  BY OpRowUpdate, TimeIsNat, Zenon DEF TypeOK, OpStatus
<1>2. op' \in [Op -> OpRow]
  BY <1>1 DEF TypeOK, CompleteOperation
<1> QED
  BY <1>2 DEF TypeOK, CompleteOperation

\* Both ways an observation is recorded are one RecordEffectObservation step.
LEMMA RecordShape ==
    ASSUME Record
    PROVE  \E o \in Op, e \in EffectId, at \in Time, outcome \in Outcome, retry \in Nat :
             RecordEffectObservation(o, e, outbox[o][e].token, outcome, at, retry)
<1>1. PICK o \in Op, e \in EffectId, at \in Time :
        \/ \E outcome \in Outcome \ {"deferred"} :
             RecordEffectObservation(o, e, outbox[o][e].token, outcome, at, 0)
        \/ \E retry \in at + 1 .. at + MaxDeferral :
             RecordEffectObservation(o, e, outbox[o][e].token, "deferred", at, retry)
  BY DEF Record
<1>2. \A retry \in at + 1 .. at + MaxDeferral : retry \in Nat
  BY TimeIsNat, BoundAssumption
<1> QED
  BY <1>1, <1>2, Zenon DEF Outcome

LEMMA NextType == TypeOK /\ [Next]_vars => TypeOK'
<1> SUFFICES ASSUME TypeOK, [Next]_vars PROVE TypeOK'
  OBVIOUS
<1>1. CASE Register
  BY <1>1, RegisterType DEF Register
<1>2. CASE Cancel
  BY <1>2, CancelType DEF Cancel
<1>3. CASE Commit
  BY <1>3, CommitType DEF Commit
<1>4. CASE Claim
  BY <1>4, ClaimType DEF Claim
<1>5. CASE Record
  BY <1>5, RecordShape, RecordType
<1>6. CASE Complete
  BY <1>6, CompleteType DEF Complete
<1>7. CASE UNCHANGED vars
  BY <1>7 DEF vars, TypeOK
<1> QED
  BY <1>1, <1>2, <1>3, <1>4, <1>5, <1>6, <1>7 DEF Next

\* The rows of the Control Store keep their types, and there is one generation row
\* for every value the generation cursor has had.
THEOREM TypeCorrect == Spec => []TypeOK
<1>1. Init => TypeOK
  BY InitType
<1>2. TypeOK /\ [Next]_vars => TypeOK'
  BY NextType
<1> QED
  BY <1>1, <1>2, PTL DEF Spec

(* ---------------------------------- rows ---------------------------------- *)

\* The outbox sequence orders any two effects.
LEMMA PrecedesTotal ==
    ASSUME NEW e \in EffectId, NEW f \in EffectId, e # f
    PROVE  Precedes(e, f) \/ Precedes(f, e)
<1>1. Phase(e) \in 1 .. 5 /\ Phase(f) \in 1 .. 5
  BY DEF EffectId, Phase, SurfaceKind, Cutover
<1>2. CASE Phase(e) # Phase(f)
  BY <1>1, <1>2 DEF Precedes
<1>3. CASE Phase(e) = Phase(f)
  <2>1. e.kind = f.kind
    BY <1>3 DEF EffectId, Phase, SurfaceKind, Cutover
  <2>2. e.subject # f.subject /\ e.subject \in Package \cup Surface
                             /\ f.subject \in Package \cup Surface
    BY <2>1 DEF EffectId, SurfaceKind, Cutover
  <2>3. Order[e.subject] # Order[f.subject]
        /\ Order[e.subject] \in Nat /\ Order[f.subject] \in Nat
    BY <2>2, OrderAssumption
  <2> QED
    BY <1>3, <2>3 DEF Precedes
<1> QED
  BY <1>2, <1>3

\* The dispatcher has at most one effect of an operation in its hands.
LEMMA OneClaimed ==
    ASSUME EffectsInSequence, NEW o \in Op, NEW e \in EffectId, NEW f \in EffectId,
           outbox[o][e].status = "claimed", outbox[o][f].status = "claimed"
    PROVE  e = f
<1> SUFFICES ASSUME e # f PROVE FALSE
  OBVIOUS
<1>1. Unfinished(o, e) /\ Unfinished(o, f)
  BY DEF Unfinished
<1> QED
  BY <1>1, PrecedesTotal DEF EffectsInSequence

\* Every generation row names a committed operation and a capability above 0.
LEMMA RowOwner ==
    ASSUME Consistent, NEW g \in 1 .. Len(gen)
    PROVE  /\ gen[g] \in GenRow /\ gen[g].op \in Op /\ gen[g].cap \in Nat /\ gen[g].cap > 0
           /\ Committed(gen[g].op) /\ Target(gen[g].op) = g
<1>1. gen[g] \in GenRow
  BY DEF Consistent, TypeOK
<1>2. gen[g].op \in Op /\ gen[g].cap \in Nat
  BY <1>1 DEF GenRow
<1>3. Committed(gen[g].op) /\ Target(gen[g].op) = g
  BY DEF Consistent, OperationOwnsGeneration
<1>4. gen[g].cap = TargetCap(gen[g].op)
  BY <1>2, <1>3 DEF Consistent, OperationOwnsGeneration
<1>5. op[gen[g].op].expectedCap \in Nat
  BY <1>2 DEF Consistent, TypeOK, OpRow
<1> QED
  BY <1>1, <1>2, <1>3, <1>4, <1>5 DEF TargetCap

\* What a change of an operation's status leaves alone.
LEMMA StatusStep ==
    ASSUME TypeOK, NEW o \in Op, NEW status, NEW at,
           \/ op' = [op EXCEPT ![o] = [@ EXCEPT !.status = status, !.completedAt = at]]
           \/ op' = [op EXCEPT ![o] = [@ EXCEPT !.status = status, !.committedAt = at]]
    PROVE  /\ op'[o].status = status /\ op'[o].expected = op[o].expected
           /\ op'[o].expectedCap = op[o].expectedCap /\ op'[o].plan = op[o].plan
           /\ \A q \in Op \ {o} : op'[q] = op[q]
<1>1. op[o] \in OpRow
  BY DEF TypeOK
<1> QED
  BY <1>1, Zenon DEF TypeOK, OpRow

\* What a commit does to the rows.
LEMMA CommitFacts ==
    ASSUME TypeOK, NEW o \in Op, NEW at \in Time, CommitTransition(o, at)
    PROVE  /\ op'[o].status = "effects-pending" /\ op'[o].expected = op[o].expected
           /\ op'[o].expectedCap = op[o].expectedCap
           /\ \A q \in Op \ {o} : op'[q] = op[q]
           /\ Len(gen) = current /\ Len(gen') = Len(gen) + 1 /\ current' = current + 1
           /\ gen'[current + 1].op = o /\ gen'[current + 1].cap = TargetCap(o)
           /\ gen'[current + 1].state = "candidate"
           /\ \A g \in 1 .. Len(gen) : gen'[g] = gen[g]
           /\ \A e \in EffectId : outbox'[o][e].status \in {"none", "pending"}
           /\ \A q \in Op \ {o} : outbox'[q] = outbox[q]
<1>1. /\ op'[o].status = "effects-pending" /\ op'[o].expected = op[o].expected
      /\ op'[o].expectedCap = op[o].expectedCap
      /\ \A q \in Op \ {o} : op'[q] = op[q]
  BY StatusStep, Zenon DEF CommitTransition
<1>2. current \in Nat /\ Len(gen) = current /\ current' = current + 1
  BY DEF TypeOK, Target, CommitTransition, CursorsExpected
<1>3. PICK target, effects : InsertGeneration(o, target, effects)
  BY CommitShape
<1> DEFINE row == [op |-> o, snapshot |-> target, cap |-> TargetCap(o),
                   state |-> "candidate", publishedAt |-> 0]
<1>4. /\ Len(gen') = Len(gen) + 1 /\ gen'[current + 1] = row
      /\ \A g \in 1 .. Len(gen) : gen'[g] = gen[g]
  <2>1. gen' = Append(gen, row)
    BY <1>3 DEF InsertGeneration
  <2>2. gen \in Seq(GenRow)
    BY DEF TypeOK
  <2> HIDE DEF row
  <2> QED
    BY <1>2, <2>1, <2>2
<1>5. /\ \A e \in EffectId : outbox'[o][e].status \in {"none", "pending"}
      /\ \A q \in Op \ {o} : outbox'[q] = outbox[q]
  BY <1>3 DEF InsertGeneration, FreshRow, TypeOK
<1> QED
  BY <1>1, <1>2, <1>4, <1>5

\* An unfinished effect may be started, or a started one observed, without
\* disturbing the sequence, if nothing before it is unfinished.
LEMMA SequenceStep ==
    ASSUME EffectsInSequence, NEW o \in Op, NEW e \in EffectId, Unfinished(o, e),
           \A f \in EffectId : Precedes(f, e) => ~Unfinished(o, f),
           \A q \in Op, f \in EffectId : (q # o \/ f # e) => outbox'[q][f] = outbox[q][f]
    PROVE  EffectsInSequence'
<1> SUFFICES ASSUME NEW q \in Op, NEW g \in EffectId, NEW f \in EffectId, Precedes(f, g),
                    outbox'[q][g].status \notin {"none", "pending"}
             PROVE  ~Unfinished(q, f)'
  BY DEF EffectsInSequence
<1>1. CASE q = o /\ f = e /\ g # e
  <2>1. outbox'[q][g] = outbox[q][g]
    BY <1>1
  <2> QED
    BY <1>1, <2>1 DEF EffectsInSequence
<1>2. CASE q = o /\ g = e /\ f # e
  BY <1>2 DEF Unfinished
<1>3. CASE q = o /\ g = e /\ f = e
  <2>1. ~Precedes(e, e)
    <3>1. Phase(e) \in 1 .. 5
      BY DEF EffectId, Phase, SurfaceKind, Cutover
    <3> QED
      BY <3>1 DEF Precedes
  <2> QED
    BY <1>3, <2>1
<1>4. CASE q # o \/ (f # e /\ g # e)
  <2>1. outbox'[q][f] = outbox[q][f] /\ outbox'[q][g] = outbox[q][g]
    BY <1>4
  <2> QED
    BY <2>1 DEF EffectsInSequence, Unfinished
<1> QED
  BY <1>1, <1>2, <1>3, <1>4

\* What a claim and an observation do to the outbox.
LEMMA ClaimRow ==
    ASSUME TypeOK, NEW o \in Op, NEW e \in EffectId, NEW t, NEW now, NEW lease, NEW explicit,
           ClaimNextEffect(o, e, t, now, lease, explicit)
    PROVE  /\ outbox'[o][e].status = "claimed"
           /\ \A q \in Op, f \in EffectId : (q # o \/ f # e) => outbox'[q][f] = outbox[q][f]
<1> DEFINE row == [status |-> "claimed", attempt |-> outbox[o][e].attempt + 1,
                   token |-> t, lease |-> lease, observedAt |-> 0, retry |-> 0]
<1>1. outbox' = [outbox EXCEPT ![o][e] = row] /\ row.status = "claimed"
  BY DEF ClaimNextEffect
<1> HIDE DEF row
<1> QED
  BY <1>1 DEF TypeOK

LEMMA RecordRow ==
    ASSUME TypeOK, NEW o \in Op, NEW e \in EffectId, NEW t, NEW outcome, NEW at, NEW retry,
           RecordEffectObservation(o, e, t, outcome, at, retry)
    PROVE  /\ outbox'[o][e].status = outcome
           /\ \A q \in Op, f \in EffectId : (q # o \/ f # e) => outbox'[q][f] = outbox[q][f]
<1> DEFINE row == [outbox[o][e] EXCEPT !.status = outcome, !.observedAt = at, !.retry = retry]
<1>1. outbox[o][e] \in EffectRow
  BY DEF TypeOK
<1>2. outbox' = [outbox EXCEPT ![o][e] = row] /\ row.status = outcome
  BY <1>1 DEF RecordEffectObservation, EffectRow
<1> HIDE DEF row
<1> QED
  BY <1>2 DEF TypeOK

\* What a cutover does to the capability rows.
LEMMA PublishFacts ==
    ASSUME Consistent, NEW o \in Op, NEW at \in Time, PublishCapabilityCutover(o, at)
    PROVE  /\ Len(gen') = Len(gen)
           /\ \A g \in 1 .. Len(gen) :
                /\ gen'[g].op = gen[g].op /\ gen'[g].cap = gen[g].cap
                /\ gen'[g].snapshot = gen[g].snapshot
                /\ g = Target(o) => gen'[g].state = "published"
                /\ g # Target(o) /\ gen[g].state = "published" => gen'[g].state = "retired"
                /\ gen[g].state # "published" /\ g # Target(o) => gen'[g] = gen[g]
<1>1. /\ published = op[o].expectedCap
      /\ gen' = [g \in 1 .. Len(gen) |-> CutoverRow(o, g, at)]
  BY DEF PublishCapabilityCutover
<1>2. Len(gen') = Len(gen)
  BY <1>1 DEF Consistent, TypeOK
<1>3. ASSUME NEW g \in 1 .. Len(gen)
      PROVE  /\ gen'[g].op = gen[g].op /\ gen'[g].cap = gen[g].cap
             /\ gen'[g].snapshot = gen[g].snapshot
             /\ g = Target(o) => gen'[g].state = "published"
             /\ g # Target(o) /\ gen[g].state = "published" => gen'[g].state = "retired"
             /\ gen[g].state # "published" /\ g # Target(o) => gen'[g] = gen[g]
  <2>1. gen[g] \in GenRow /\ gen[g].cap > 0 /\ gen[g].cap \in Nat
    BY RowOwner
  <2>2. gen'[g] = CutoverRow(o, g, at)
    BY <1>1
  <2>3. gen[g].state = "published" => op[o].expectedCap > 0 /\ g \in PublishedAs(op[o].expectedCap)
    BY <1>1, <2>1 DEF Consistent, PublicationMatchesCursor, PublishedAs
  <2>4. g \in PublishedAs(op[o].expectedCap) => gen[g].state = "published"
    BY DEF PublishedAs
  <2> QED
    BY <2>1, <2>2, <2>3, <2>4 DEF CutoverRow, GenRow
<1> QED
  BY <1>2, <1>3

\* What a rejection does to the capability rows.
LEMMA RejectFacts ==
    ASSUME TypeOK, NEW o \in Op, NEW at \in Time, RejectOperation(o, at),
           Target(o) \in 1 .. Len(gen), gen[Target(o)].state = "candidate"
    PROVE  /\ Len(gen') = Len(gen) /\ published' = published
           /\ gen'[Target(o)].state = "abandoned"
           /\ gen'[Target(o)].op = gen[Target(o)].op /\ gen'[Target(o)].cap = gen[Target(o)].cap
           /\ gen'[Target(o)].snapshot = gen[Target(o)].snapshot
           /\ \A g \in 1 .. Len(gen) : g # Target(o) => gen'[g] = gen[g]
<1> DEFINE row == [gen[Target(o)] EXCEPT !.state = "abandoned"]
<1>1. gen[Target(o)] \in GenRow
  BY DEF TypeOK
<1>2. /\ row \in GenRow /\ row.state = "abandoned" /\ row.op = gen[Target(o)].op
      /\ row.cap = gen[Target(o)].cap /\ row.snapshot = gen[Target(o)].snapshot
  BY <1>1 DEF GenRow, PublicationState
<1>3. gen' = [gen EXCEPT ![Target(o)] = row] /\ published' = published
  BY DEF RejectOperation
<1>4. gen \in Seq(GenRow)
  BY DEF TypeOK
<1> HIDE DEF row
<1> QED
  BY <1>2, <1>3, <1>4, ExceptSeq
==============================================================================
