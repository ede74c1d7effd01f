-------------------------- MODULE ArtifactStoreProofs --------------------------
(* ReferencedKept for any set of artifacts and of writers, any quota and any    *)
(* number of plans, crashes and damaged bytes.                                 *)
EXTENDS ArtifactStore, TLAPS

\* The types the steps need.
Types ==
    /\ content \in [Digest -> {"absent", "none", "good"} \cup Damage]
    /\ at \in [Writer -> {"idle", "admitted", "upgrading", "writing", "staging", "staged",
                          "published", "unguarded", "readmitted", "leased"}]
    /\ aim \in [Writer -> Digest] /\ way \in [Writer -> Way]
    /\ subject \in Digest

\* The steps of an operation that is going to retire its targets or to move its
\* subject's bytes.
Collecting == task \in {"prepare", "publish", "chain", "retire"}
Repairing ==
    task \in {"repair-prepare", "repair-admit", "repair-stage", "repair-copy",
              "repair-swap", "repair-tidy", "repair-complete", "repair-publish"}

\* The guard excludes every admission, and what an operation found unreferenced
\* stays so: committing a reference takes an admission.
Guarded ==
    /\ CollectionHeld => \A w \in Writer : ~Admitted(w)
    /\ Collecting => \A d \in Targets(plan) : ~Referenced(d)
    /\ Repairing => ~Referenced(subject)

\* The inductive invariant: ReferencedKept with the reason for it.
KeptInv == Types /\ Guarded /\ ReferencedKept

--------------------------------------------------------------------------------
\* Damaged bytes are bytes: a container without content is none of them.
LEMMA NoContent ==
    /\ "absent" \notin {"good"} \cup Damage
    /\ "none" \notin {"good"} \cup Damage
BY ArtifactAssumption DEF ArtifactAssumption

\* There is an artifact to name while a variable is about none.
LEMMA AnythingTyped == Anything \in Digest
BY ArtifactAssumption DEF ArtifactAssumption, Anything

\* A store without maintenance or references keeps everything.
LEMMA KeptInit == ArtifactInit => KeptInv
BY AnythingTyped DEF ArtifactInit, KeptInv, Types, Guarded, ReferencedKept, CollectionHeld,
    Collecting, Repairing, Reading, Way

\* A writer's step neither takes content away nor breaks into maintenance.
LEMMA KeptWriter ==
    ASSUME KeptInv, NEW w \in Writer, Write(w) \/ GiveUp(w) \/ CrashWriter(w)
    PROVE  KeptInv'
<1> USE NoContent, AnythingTyped
        DEF KeptInv, Types, Guarded, ReferencedKept, CollectionHeld, Collecting,
            Repairing, Reading, Admitted, Referenced, Complete, Targets,
            Place, Aim, SameAim, Leave, Elsewhere, UnlessCommit, WriterOnly, Way,
            repairVars, recordVars, taskVars, countVars, quotaVars
<1>1. CASE AdmitReference(w)
  BY <1>1 DEF AdmitReference
<1>2. CASE AdmitStorage(w)
  BY <1>2 DEF AdmitStorage
<1>3. CASE UpgradeStorage(w)
  BY <1>3 DEF UpgradeStorage
<1>4. CASE BeginCommit(w)
  BY <1>4 DEF BeginCommit, Gated, Present, MutationFree, Mutating
<1>5. CASE StageContent(w)
  BY <1>5 DEF StageContent
<1>6. CASE PublishContent(w)
  BY <1>6 DEF PublishContent
<1>7. CASE OpenCached(w)
  BY <1>7 DEF OpenCached
<1>8. CASE DropAdmission(w)
  BY <1>8 DEF DropAdmission
<1>9. CASE CommitReference(w)
  BY <1>9 DEF CommitReference
<1>10. ASSUME NEW d \in Digest, Lease(w, d) PROVE KeptInv'
  BY <1>10 DEF Lease
<1>11. CASE GiveUp(w)
  BY <1>11 DEF GiveUp, Idle
<1>12. CASE CrashWriter(w)
  BY <1>12 DEF CrashWriter, Idle
<1>. QED  BY <1>1, <1>2, <1>3, <1>4, <1>5, <1>6, <1>7, <1>8, <1>9, <1>10, <1>11, <1>12 DEF Write

\* What the operator, the owners of references and the disk do between operations.
LEMMA KeptOutside ==
    ASSUME KeptInv,
           \/ \E r \in refs : RetireReference(r)
           \/ SetQuota
           \/ \E targets \in SUBSET Digest \ {{}} : PlanCollection(targets)
           \/ \E d \in Digest : DamageContent(d)
    PROVE  KeptInv'
<1> USE NoContent
        DEF KeptInv, Types, Guarded, ReferencedKept, CollectionHeld, Collecting,
            Repairing, Reading, Admitted, Referenced, Complete, Targets,
            writerVars, taskVars
<1>1. ASSUME NEW r \in refs, RetireReference(r) PROVE KeptInv'
  BY <1>1 DEF RetireReference
<1>2. CASE SetQuota
  BY <1>2 DEF SetQuota
<1>3. ASSUME NEW targets, PlanCollection(targets) PROVE KeptInv'
  BY <1>3, Zenon DEF PlanCollection
<1>4. ASSUME NEW d \in Digest, DamageContent(d) PROVE KeptInv'
  <2>1. PICK x \in Damage : content' = [content EXCEPT ![d] = x]
    BY <1>4, Zenon DEF DamageContent
  <2>2. UNCHANGED <<at, aim, way, refs, task, plan, subject>>
    BY <1>4 DEF DamageContent
  <2>3. Types' /\ Guarded'
    BY <2>1, <2>2
  <2>4. ReferencedKept'
    BY <2>1, <2>2
  <2>. QED  BY <2>3, <2>4, Zenon
<1>. QED  BY <1>1, <1>2, <1>3, <1>4, Zenon

\* A collection retires its targets only, which nobody refers to or reads.
LEMMA KeptCollection ==
    ASSUME KeptInv, ResumeCollection \/ Collect
    PROVE  KeptInv'
<1> USE NoContent, AnythingTyped
        DEF KeptInv, Types, Guarded, ReferencedKept, CollectionHeld, Collecting,
            Repairing, Reading, Admitted, Referenced, Complete, Targets,
            Do, Stop, TaskOnly, UnlessTask, repairVars, writerVars
<1>1. ASSUME NEW c \in confirmed, BeginCollection(c) PROVE KeptInv'
  BY <1>1, Zenon DEF BeginCollection, CollectionFree, Unreachable
<1>2. CASE WritePrepared
  BY <1>2, Zenon DEF WritePrepared
<1>3. CASE PublishPrepared
  BY <1>3, Zenon DEF PublishPrepared
<1>4. CASE RemovePredecessor
  BY <1>4, Zenon DEF RemovePredecessor
<1>5. CASE WriteCompleted
  BY <1>5 DEF WriteCompleted
<1>6. CASE PublishCompleted
  BY <1>6 DEF PublishCompleted
<1>7. CASE RemovePrepared
  BY <1>7 DEF RemovePrepared
<1>8. ASSUME NEW d \in Digest, RetireContainer(d) PROVE KeptInv'
  <2>1. /\ \A w \in Writer : at[w] \in {"idle", "unguarded"}
        /\ \A e \in Targets(plan) : \A how \in Way : <<how, e>> \notin refs
    BY <1>8, Zenon DEF RetireContainer
  <2>2. /\ content' \in [Digest -> {"absent", "none", "good"} \cup Damage]
        /\ \A e \in Digest \ {d} : content'[e] = content[e]
        /\ d \in Targets(plan)
    BY <1>8 DEF RetireContainer
  <2>3. /\ UNCHANGED <<at, aim, way, refs>>
        /\ subject' \in Digest
        /\ task' = "idle" \/ (task' = "retire" /\ plan' = plan)
    BY <1>8 DEF RetireContainer
  <2>4. Types' /\ Guarded'
    BY <2>1, <2>2, <2>3, Zenon
  <2>5. ReferencedKept'
    BY <2>1, <2>2, <2>3, Zenon DEF Way
  <2>. QED  BY <2>4, <2>5, Zenon
<1>9. ASSUME NEW d \in Digest, RemoveTombstone(d) PROVE KeptInv'
  BY <1>9 DEF RemoveTombstone
<1>. QED  BY <1>1, <1>2, <1>3, <1>4, <1>5, <1>6, <1>7, <1>8, <1>9, Zenon DEF Collect, ResumeCollection

\* A repair moves the bytes of its subject only, which nobody refers to or reads.
LEMMA KeptRepair ==
    ASSUME KeptInv,
           \/ \E d \in Digest : BeginQuarantine(d) \/ BeginRehydration(d)
           \/ Repair \/ CrashMaintenance
    PROVE  KeptInv'
<1> USE NoContent, AnythingTyped
        DEF KeptInv, Types, Guarded, ReferencedKept, CollectionHeld, Collecting,
            Repairing, Reading, Admitted, Referenced, Complete, Targets,
            Do, Stop, UnlessRepair, UnlessTask, repairVars, writerVars
<1>1. ASSUME NEW d \in Digest, BeginQuarantine(d) PROVE KeptInv'
  BY <1>1 DEF BeginQuarantine, CollectionFree
<1>2. ASSUME NEW d \in Digest, BeginRehydration(d) PROVE KeptInv'
  BY <1>2, Zenon DEF BeginRehydration, CollectionFree
<1>3. CASE PublishQuarantine
  BY <1>3 DEF PublishQuarantine
<1>4. CASE PublishRepairPlan
  BY <1>4 DEF PublishRepairPlan
<1>5. CASE AdmitRepair
  BY <1>5 DEF AdmitRepair
<1>6. CASE StageCandidate
  BY <1>6 DEF StageCandidate
<1>7. CASE CopyCandidate
  BY <1>7 DEF CopyCandidate
<1>8. CASE SwapContent
  <2>1. /\ \A w \in Writer : at[w] \in {"idle", "unguarded"}
        /\ \A how \in Way : <<how, subject>> \notin refs
    BY <1>8 DEF SwapContent
  <2>2. /\ content' \in [Digest -> {"absent", "none", "good"} \cup Damage]
        /\ \A d \in Digest \ {subject} : content'[d] = content[d]
    BY <1>8 DEF SwapContent
  <2>3. /\ UNCHANGED <<at, aim, way, refs, subject>>
        /\ task' \in {"repair-swap", "repair-tidy"}
    BY <1>8 DEF SwapContent
  <2>4. Types' /\ Guarded'
    BY <2>1, <2>2, <2>3, Zenon
  <2>5. ReferencedKept'
    BY <2>1, <2>2, <2>3 DEF Way
  <2>. QED  BY <2>4, <2>5, Zenon
<1>9. CASE TidyRepair
  BY <1>9 DEF TidyRepair
<1>10. CASE WriteRepaired
  BY <1>10 DEF WriteRepaired
<1>11. CASE PublishRepaired
  BY <1>11 DEF PublishRepaired
<1>12. CASE CrashMaintenance
  BY <1>12 DEF CrashMaintenance
<1>. QED
  BY <1>1, <1>2, <1>3, <1>4, <1>5, <1>6, <1>7, <1>8, <1>9, <1>10, <1>11, <1>12, Zenon
    DEF Repair

\* Every step of the store keeps the invariant.
LEMMA KeptStep == KeptInv /\ [ArtifactNext]_artifactVars => KeptInv'
<1> SUFFICES ASSUME KeptInv, [ArtifactNext]_artifactVars PROVE KeptInv'
  OBVIOUS
<1>1. CASE UNCHANGED artifactVars
  BY <1>1
    DEF KeptInv, Types, Guarded, ReferencedKept, CollectionHeld, Collecting, Repairing,
        Reading, Admitted, Referenced, Complete, Targets,
        artifactVars, writerVars, taskVars
<1>2. CASE ArtifactNext
  BY <1>2, KeptWriter, KeptOutside, KeptCollection, KeptRepair DEF ArtifactNext
<1>. QED  BY <1>1, <1>2

\* What a writer has published, referred to or leased under one admission keeps its
\* bytes: no collection or repair of this store, interrupted and resumed however
\* often, takes them away.
THEOREM PublishedBytesKept == ArtifactSpec => []ReferencedKept
<1>1. KeptInv => ReferencedKept
  BY DEF KeptInv
<1>. QED  BY <1>1, KeptInit, KeptStep, PTL DEF ArtifactSpec
================================================================================
