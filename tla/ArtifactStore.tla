----------------------------- MODULE ArtifactStore -----------------------------
(* The Artifact Store of one installation: immutable content in one container  *)
(* per digest, written by processes that hold a shared reference admission and *)
(* maintained (garbage collection, quarantine, rehydration) by an operator who *)
(* holds the same lock file exclusively.                                       *)
(*                                                                             *)
(* A file is what a crash can leave of it: absent, a temporary, or published   *)
(* by one rename.  A writer works in one of two ways: a "cache" write (the      *)
(* Registry target cache) keeps one admission from the write to the reference  *)
(* it commits, an "install" (also an upgrade) drops it in between and takes a  *)
(* second one.                                                                 *)
EXTENDS Integers, FiniteSets, FiniteSetsExt

CONSTANTS
    Digest,
    Damage,             \* the digests that damaged bytes may hash to
    Writer,             \* processes that publish, refer to and read artifacts
    Quota,              \* the policies an operator may set
    NoPlan, NoQuota,
    Size,               \* bytes of each complete artifact
    MaxPlans,           \* garbage collections an operator confirms
    MaxStoreCrashes, MaxDamage

Way == {"cache", "install"}

\* What a variable about an artifact holds while it is about none.
Anything == CHOOSE d \in Digest : TRUE

ASSUME ArtifactAssumption ==
    /\ IsFiniteSet(Digest) /\ IsFiniteSet(Writer)
    /\ Digest # {}
    /\ Damage \cap {"absent", "none", "good", "temp"} = {}
    /\ Quota \subseteq [bytes : Nat, artifacts : Nat] /\ NoQuota \notin Quota
    /\ Size \in Nat \ {0, 1}
    /\ MaxPlans \in Nat /\ MaxStoreCrashes \in Nat /\ MaxDamage \in Nat

VARIABLES
    content,        \* each container's content, "absent" when there is no container
    staging,        \* each container's ordinary staging file
    quarantine,     \* each container's quarantine record: the digest it observed
    rehydration,    \* each container's rehydration records
    candidate,      \* each container's rehydration staging
    retired,        \* the damaged content a rehydration has moved aside
    prepared, preparing,        \* the prepared collection record and its temporary
    completed, completing,      \* the completed collection record and its temporary
    tombstones,     \* containers renamed for removal, with their plan
    policy,         \* the storage quota in force
    baseline,       \* history: the bytes in use when the last write was admitted under it
    refs,           \* the references that have been committed, with the way they were
    at, aim, way,   \* what each writer is doing, about which artifact and in which way
    quotaLock,      \* how each writer holds the storage quota lock
    task, plan, subject, observed,   \* the maintenance operation in progress
    born,           \* history: how often each container has been created
    confirmed,      \* the plans an operator has confirmed, with the containers seen
    storeCrashes, damages

repairVars == <<quarantine, rehydration, candidate, retired>>
recordVars == <<prepared, preparing, completed, completing, tombstones>>
quotaVars == <<policy, baseline>>
writerVars == <<at, aim, way, quotaLock>>
taskVars == <<task, plan, subject, observed>>
countVars == <<storeCrashes, damages>>
artifactVars ==
    <<content, staging, repairVars, recordVars, quotaVars, refs, writerVars,
      taskVars, born, confirmed, countVars>>

--------------------------------------------------------------------------------
(* What an inspection of the files finds.                                      *)

Present(d) == content[d] # "absent"

\* A complete artifact: content of some digest.
Complete(d) == content[d] \in {"good"} \cup Damage

CollectionNone ==
    prepared = NoPlan /\ ~preparing /\ completed = NoPlan /\ ~completing

CollectionCompleted ==
    /\ ~preparing /\ ~completing
    /\ completed # NoPlan /\ prepared \in {NoPlan, completed}

CollectionPrepared ==
    /\ ~preparing /\ ~completing
    /\ prepared # NoPlan /\ prepared # completed
    /\ completed \in {NoPlan, prepared.predecessor}

InterruptedPreparation == preparing /\ prepared = NoPlan /\ ~completing

InterruptedCompletion ==
    completing /\ ~preparing /\ prepared # NoPlan /\ completed = NoPlan

\* inspect_state knows these combinations of the four files and no other.
CollectionRecognised ==
    \/ CollectionNone \/ CollectionCompleted \/ CollectionPrepared
    \/ InterruptedPreparation \/ InterruptedCompletion

\* Mutant: a prepared record without temporaries does not close the fence.
AdmissionAllowedTemporariesOnly == ~preparing /\ ~completing

\* ensure_reference_admission_allowed
AdmissionAllowed ==
    \/ prepared = NoPlan /\ ~preparing /\ ~completing
    \/ CollectionCompleted /\ tombstones = {}

\* A repair is in force and not finished: the container takes no ordinary use.
Gated(d) == quarantine[d] # "none" /\ rehydration[d] # "rehydrated"

RepairRecognised(d) ==
    rehydration[d] # "none" => quarantine[d] \in Damage

\* scan_inventory_under_global_guard: a tombstone is not a digest container.
InventoryReadable ==
    /\ CollectionRecognised
    /\ tombstones = {}
    /\ \A d \in Digest : RepairRecognised(d)

StagedBytes(d) ==
    (CASE staging[d] = "none" -> 0 [] staging[d] = "torn" -> 1 [] OTHER -> Size)
    + (CASE candidate[d] \in {"none", "empty"} -> 0
         [] candidate[d] = "torn" -> 1 [] OTHER -> Size)
    + (IF retired[d] = "none" THEN 0 ELSE Size)

ContentBytes(d) == IF Complete(d) THEN Size ELSE 0

UsedBytes == MapThenSumSet(LAMBDA d : ContentBytes(d) + StagedBytes(d), Digest)

\* Every container counts: one that was created stays until it is collected.
UsedArtifacts == Cardinality({d \in Digest : Present(d)})

--------------------------------------------------------------------------------
(* The two locks.  A writer holds its reference admission from the admission to *)
(* the end of what it does, except where an installer has dropped it.          *)

Idle(w) == at[w] = "idle"
Admitted(w) == at[w] \notin {"idle", "unguarded"}
CollectionHeld == task # "idle"

\* The storage quota lock is taken and given back inside one admission.
QuotaFree == \A w \in Writer : quotaLock[w] = "none"
QuotaSharable == \A w \in Writer : quotaLock[w] # "exclusive"

\* The container's own lock: a commit holds it exclusively, a lease shared.
Mutating(w) == at[w] \in {"staging", "staged"}
MutationFree(d) ==
    \A w \in Writer : Mutating(w) \/ at[w] = "leased" => aim[w] # d
MutationSharable(d) == \A w \in Writer : Mutating(w) => aim[w] # d

Place(w, step) == at' = [at EXCEPT ![w] = step]
Aim(w, d, how) == aim' = [aim EXCEPT ![w] = d] /\ way' = [way EXCEPT ![w] = how]
SameAim == UNCHANGED <<aim, way>>
Lock(w, mode) ==
    /\ quotaLock' = [quotaLock EXCEPT ![w] = mode]
    /\ baseline' = IF mode = "exclusive" THEN UsedBytes
                   ELSE IF quotaLock[w] = "exclusive" THEN 0 ELSE baseline
Leave(w) == Place(w, "idle") /\ Aim(w, Anything, "cache") /\ Lock(w, "none")

\* Everything but the writers and the one container a commit is about.
Elsewhere == UNCHANGED <<repairVars, recordVars, policy, taskVars, confirmed>>
UnlessCommit == Elsewhere /\ UNCHANGED <<refs, countVars>>
WriterOnly == UnlessCommit /\ UNCHANGED <<content, staging, born>>

--------------------------------------------------------------------------------
(* Writers.                                                                    *)

\* acquire_reference_admission, for a write or for the second time.
AdmitReference(w) ==
    /\ ~CollectionHeld /\ AdmissionAllowed
    /\ \/ /\ Idle(w) /\ Place(w, "admitted")
          /\ \E d \in Digest, how \in Way : Aim(w, d, how)
       \/ at[w] = "unguarded" /\ Place(w, "readmitted") /\ SameAim
    /\ WriterOnly
    /\ UNCHANGED <<quotaLock, baseline>>

\* acquire_storage_admission: without a policy the shared lock is enough, with one
\* it is given back for the exclusive lock.
AdmitStorage(w) ==
    /\ at[w] = "admitted"
    /\ QuotaSharable
    /\ IF policy = NoQuota
         THEN Place(w, "writing") /\ Lock(w, "shared")
         ELSE Place(w, "upgrading") /\ UNCHANGED <<quotaLock, baseline>>
    /\ WriterOnly /\ SameAim

\* Mutant: the bytes abandoned in the container are taken off twice.
QuotaAllowsTwice(d) ==
    LET bytes == UsedBytes - 2 * StagedBytes(d) + (IF Complete(d) THEN 0 ELSE Size)
    IN  bytes <= policy.bytes \/ bytes <= UsedBytes

\* admit_storage_write: a write may exceed the policy only where it does not make
\* an excess worse.
QuotaAllows(d) ==
    LET bytes == UsedBytes - StagedBytes(d) + (IF Complete(d) THEN 0 ELSE Size)
        artifacts == UsedArtifacts + (IF Present(d) THEN 0 ELSE 1)
    IN  /\ bytes <= policy.bytes \/ bytes <= UsedBytes
        /\ artifacts <= policy.artifacts \/ artifacts <= UsedArtifacts

\* The policy is read again under the exclusive lock.
UpgradeStorage(w) ==
    /\ at[w] = "upgrading"
    /\ QuotaFree
    /\ IF policy = NoQuota \/ (InventoryReadable /\ QuotaAllows(aim[w]))
         THEN Place(w, "writing") /\ Lock(w, "exclusive") /\ SameAim
         ELSE Leave(w)
    /\ WriterOnly

\* commit_blob up to its staging file: the container is created, abandoned staging
\* is removed under the container's lock, existing content is verified and used.
BeginCommit(w) ==
    LET d == aim[w]
    IN  /\ at[w] = "writing"
        /\ MutationFree(d)
        /\ IF Gated(d)
             THEN Leave(w) /\ UNCHANGED <<content, staging, born>>
             ELSE /\ content' = [content EXCEPT ![d] = IF Present(d) THEN @ ELSE "none"]
                  /\ born' = [born EXCEPT ![d] = IF Present(d) THEN @ ELSE @ + 1]
                  /\ staging' = [staging EXCEPT ![d] = IF Complete(d) THEN "none" ELSE "torn"]
                  /\ \/ /\ content[d] = "good"
                        /\ Place(w, "published") /\ Lock(w, "none") /\ SameAim
                     \/ content[d] \in Damage /\ Leave(w)
                     \/ /\ ~Complete(d)
                        /\ Place(w, "staging") /\ SameAim /\ UNCHANGED <<quotaLock, baseline>>
        /\ UnlessCommit

\* The staging file holds all the bytes and they have the declared digest.
StageContent(w) ==
    /\ at[w] = "staging"
    /\ staging' = [staging EXCEPT ![aim[w]] = "full"]
    /\ Place(w, "staged")
    /\ UnlessCommit /\ SameAim
    /\ UNCHANGED <<content, born, quotaLock, baseline>>

\* One rename that replaces nothing.
PublishContent(w) ==
    /\ at[w] = "staged"
    /\ content' = [content EXCEPT ![aim[w]] = "good"]
    /\ staging' = [staging EXCEPT ![aim[w]] = "none"]
    /\ Place(w, "published")
    /\ Lock(w, "none")
    /\ UnlessCommit /\ SameAim
    /\ UNCHANGED born

\* open_blob: a cached target is verified and used as it is.
OpenCached(w) ==
    /\ at[w] = "admitted" /\ way[w] = "cache"
    /\ content[aim[w]] = "good" /\ ~Gated(aim[w])
    /\ Place(w, "published")
    /\ WriterOnly /\ SameAim
    /\ UNCHANGED <<quotaLock, baseline>>

\* Install and upgrade give the admission back once the bytes are published.
DropAdmission(w) ==
    /\ at[w] = "published" /\ way[w] = "install"
    /\ Place(w, "unguarded")
    /\ WriterOnly /\ SameAim
    /\ UNCHANGED <<quotaLock, baseline>>

\* The reference is committed and the admission released.
CommitReference(w) ==
    /\ at[w] = IF way[w] = "cache" THEN "published" ELSE "readmitted"
    /\ refs' = refs \cup {<<way[w], aim[w]>>}
    /\ Leave(w)
    /\ Elsewhere
    /\ UNCHANGED <<content, staging, born, countVars>>

\* acquire_verified_package: a lease of verified content.
Lease(w, d) ==
    /\ Idle(w)
    /\ ~CollectionHeld /\ AdmissionAllowed
    /\ MutationSharable(d)
    /\ content[d] = "good" /\ ~Gated(d)
    /\ Aim(w, d, "cache")
    /\ Place(w, "leased")
    /\ WriterOnly
    /\ UNCHANGED <<quotaLock, baseline>>

\* A lease ends, a step fails or the caller gives up: every guard is released, and
\* a commit removes its staging file.
GiveUp(w) ==
    /\ ~Idle(w)
    /\ Leave(w)
    /\ staging' = IF Mutating(w) THEN [staging EXCEPT ![aim[w]] = "none"] ELSE staging
    /\ UnlessCommit
    /\ UNCHANGED <<content, born>>

CrashWriter(w) ==
    /\ ~Idle(w)
    /\ storeCrashes < MaxStoreCrashes
    /\ storeCrashes' = storeCrashes + 1
    /\ Leave(w)
    /\ Elsewhere
    /\ UNCHANGED <<content, staging, born, refs, damages>>

\* The owner of a reference retires it; references are retired without the guard.
RetireReference(r) ==
    /\ refs' = refs \ {r}
    /\ UNCHANGED <<content, staging, repairVars, recordVars, quotaVars, writerVars,
                   taskVars, born, confirmed, countVars>>

\* set_storage_quota and clear_storage_quota against the revision they reviewed.
SetQuota ==
    /\ ~CollectionHeld /\ AdmissionAllowed
    /\ QuotaFree
    /\ policy' \in (Quota \cup {NoQuota}) \ {policy}
    /\ UNCHANGED <<content, staging, repairVars, recordVars, baseline, refs, writerVars,
                   taskVars, born, confirmed, countVars>>

\* External: bytes on the disk change under the store.
DamageContent(d) ==
    /\ content[d] = "good"
    /\ damages < MaxDamage
    /\ damages' = damages + 1
    /\ \E x \in Damage : content' = [content EXCEPT ![d] = x]
    /\ UNCHANGED <<staging, repairVars, recordVars, quotaVars, refs, writerVars,
                   taskVars, born, confirmed, storeCrashes>>

--------------------------------------------------------------------------------
(* Garbage collection.  A plan names its targets with what was seen of each and *)
(* the plan completed before it, and is its own digest.                        *)

Referenced(d) == \E how \in Way : <<how, d>> \in refs

\* Only finished lifecycles are collected.
Settled(d) ==
    \/ quarantine[d] = "none" /\ rehydration[d] = "none"
    \/ quarantine[d] \in Damage /\ rehydration[d] \in {"none", "rehydrated"}

Entry(d) ==
    [bytes |-> ContentBytes(d), staged |-> StagedBytes(d),
     quarantine |-> quarantine[d], rehydration |-> rehydration[d]]

BuildPlan(targets) ==
    [entries |-> [d \in targets |-> Entry(d)], predecessor |-> completed]

Buildable(targets) ==
    InventoryReadable /\ \A d \in targets : Present(d) /\ Settled(d)

Targets(p) == DOMAIN p.entries

\* acquire_collection: the lock file exclusively, whatever the records say.
CollectionFree == ~CollectionHeld /\ \A w \in Writer : ~Admitted(w)

\* The operator reviews a plan and confirms its digest.
PlanCollection(targets) ==
    /\ CollectionFree
    /\ CollectionNone \/ CollectionCompleted
    /\ Buildable(targets)
    /\ \A d \in targets : ~Referenced(d)
    /\ Cardinality(confirmed) < MaxPlans
    /\ confirmed' =
         confirmed \cup {[plan |-> BuildPlan(targets), born |-> [d \in targets |-> born[d]]]}
    /\ UNCHANGED <<content, staging, repairVars, recordVars, quotaVars, refs, writerVars,
                   taskVars, born, countVars>>

\* The next step of the operation, and its end with the guard released.
Do(step) == task' = step /\ UNCHANGED <<plan, subject, observed, baseline>>
Stop ==
    /\ task' = "idle" /\ plan' = NoPlan
    /\ subject' = Anything /\ observed' = "none"
    /\ baseline' = 0

UnlessTask == UNCHANGED <<policy, refs, writerVars, confirmed, countVars, born>>
TaskOnly == UnlessTask /\ UNCHANGED <<content, staging, repairVars>>

\* Mutant: what was reachable when the plan was made is taken for granted.
UnreachableAsReviewed(p) == TRUE

\* The references are read again under the guard.
Unreachable(p) == \A d \in Targets(p) : ~Referenced(d)


StartsAnew(p) ==
    /\ CollectionNone \/ InterruptedPreparation \/ CollectionCompleted
    /\ completed # p

\* apply_unreferenced_garbage_collection up to its first write.  A prepared plan
\* is resumed as it is; otherwise what the last collection left is removed, and the
\* plan is built again and has to be the same.
BeginCollection(c) ==
    LET p == c.plan
    IN  /\ CollectionFree
        /\ Unreachable(p)
        /\ \/ /\ StartsAnew(p)
              /\ prepared' = NoPlan
              /\ IF Buildable(Targets(p)) /\ BuildPlan(Targets(p)) = p
                   THEN plan' = p /\ task' = "prepare"
                   ELSE UNCHANGED <<plan, task>>
           \/ /\ CollectionPrepared \/ InterruptedCompletion
              /\ prepared = p
              /\ plan' = p /\ task' = "chain" /\ UNCHANGED prepared
        /\ TaskOnly
        /\ UNCHANGED <<preparing, completed, completing, tombstones, subject, observed, baseline>>

\* write_prepared_record: a temporary, then a rename.
WritePrepared ==
    /\ task = "prepare"
    /\ Do("publish")
    /\ preparing' = TRUE
    /\ TaskOnly
    /\ UNCHANGED <<prepared, completed, completing, tombstones>>

PublishPrepared ==
    /\ task = "publish"
    /\ Do("chain")
    /\ preparing' = FALSE /\ prepared' = plan
    /\ TaskOnly
    /\ UNCHANGED <<completed, completing, tombstones>>

RemovePredecessor ==
    /\ task = "chain"
    /\ Do("retire")
    /\ completed' = NoPlan
    /\ TaskOnly
    /\ UNCHANGED <<prepared, preparing, completing, tombstones>>

Buried(d) == <<d, plan>> \in tombstones

UnchangedTarget(p, d) ==
    RepairRecognised(d) /\ Settled(d) /\ Entry(d) = p.entries[d]

\* retire_artifact, up to the rename of the container; a target that is not what
\* was reviewed ends the collection.
RetireContainer(d) ==
    /\ task = "retire"
    /\ d \in Targets(plan) /\ Present(d)
    /\ \A e \in Digest : Buried(e) => e = d
    /\ IF Buried(d) \/ ~UnchangedTarget(plan, d)
         THEN Stop /\ UNCHANGED <<content, staging, repairVars, tombstones>>
         ELSE /\ tombstones' = tombstones \cup {<<d, plan>>}
              /\ content' = [content EXCEPT ![d] = "absent"]
              /\ staging' = [staging EXCEPT ![d] = "none"]
              /\ quarantine' = [quarantine EXCEPT ![d] = "none"]
              /\ rehydration' = [rehydration EXCEPT ![d] = "none"]
              /\ candidate' = [candidate EXCEPT ![d] = "none"]
              /\ retired' = [retired EXCEPT ![d] = "none"]
              /\ Do("retire")
    /\ UnlessTask
    /\ UNCHANGED <<prepared, preparing, completed, completing>>

RemoveTombstone(d) ==
    /\ task = "retire"
    /\ Buried(d) /\ ~Present(d)
    /\ tombstones' = tombstones \ {<<d, plan>>}
    /\ Do("retire")
    /\ TaskOnly
    /\ UNCHANGED <<prepared, preparing, completed, completing>>

WriteCompleted ==
    /\ task = "retire"
    /\ \A d \in Targets(plan) : ~Present(d) /\ ~Buried(d)
    /\ Do("complete")
    /\ completing' = TRUE
    /\ TaskOnly
    /\ UNCHANGED <<prepared, preparing, completed, tombstones>>

PublishCompleted ==
    /\ task = "complete"
    /\ Do("finish")
    /\ completing' = FALSE /\ completed' = plan
    /\ TaskOnly
    /\ UNCHANGED <<prepared, preparing, tombstones>>

RemovePrepared ==
    /\ task = "finish"
    /\ Stop
    /\ prepared' = NoPlan
    /\ TaskOnly
    /\ UNCHANGED <<preparing, completed, completing, tombstones>>

--------------------------------------------------------------------------------
(* Quarantine and rehydration of one damaged container.                        *)

UnlessRepair == UnlessTask /\ UNCHANGED <<staging, recordVars>>

\* apply_quarantine of the audit it was confirmed against: a temporary, a rename.
BeginQuarantine(d) ==
    /\ CollectionFree /\ InventoryReadable
    /\ content[d] \in Damage
    /\ quarantine[d] \in {"none", "temp"}
    /\ quarantine' = [quarantine EXCEPT ![d] = "temp"]
    /\ task' = "quarantine" /\ subject' = d /\ observed' = content[d]
    /\ UnlessRepair
    /\ UNCHANGED <<content, rehydration, candidate, retired, plan, baseline>>

PublishQuarantine ==
    /\ task = "quarantine"
    /\ quarantine' = [quarantine EXCEPT ![subject] = observed]
    /\ Stop
    /\ UnlessRepair
    /\ UNCHANGED <<content, rehydration, candidate, retired>>

\* apply_unreferenced_rehydration with a candidate of the right digest: a new plan
\* needs the very bytes that were quarantined, a prepared one is resumed.
BeginRehydration(d) ==
    /\ CollectionFree /\ InventoryReadable
    /\ Present(d) /\ ~Referenced(d)
    /\ quarantine[d] \in Damage
    /\ \/ /\ rehydration[d] \in {"none", "preparing"} /\ content[d] = quarantine[d]
          /\ rehydration' = [rehydration EXCEPT ![d] = "preparing"]
          /\ task' = "repair-prepare"
       \/ /\ rehydration[d] \in {"prepared", "completing"}
          /\ UNCHANGED rehydration
          /\ task' = "repair-admit"
    /\ subject' = d
    /\ UnlessRepair
    /\ UNCHANGED <<content, quarantine, candidate, retired, plan, observed, baseline>>

PublishRepairPlan ==
    /\ task = "repair-prepare"
    /\ rehydration' = [rehydration EXCEPT ![subject] = "prepared"]
    /\ Do("repair-admit")
    /\ UnlessRepair
    /\ UNCHANGED <<content, quarantine, candidate, retired>>

\* rehydration_storage_projection and its admission: a repaired content or a whole
\* candidate needs no room, and an empty candidate file cannot be measured.
RepairAllowed(d) ==
    LET whole == content[d] = "good" \/ candidate[d] = "full"
        removed == IF candidate[d] = "torn" THEN 1 ELSE 0
        bytes == UsedBytes + (IF whole THEN 0 ELSE Size - removed)
    IN  /\ candidate[d] # "empty"
        /\ policy = NoQuota \/ bytes <= policy.bytes \/ bytes <= UsedBytes

\* The bytes the repair finds are the ones it planned for, in one place only.
RepairConsistent(d) ==
    \/ /\ content[d] = "good" /\ retired[d] \in {"none", quarantine[d]}
       /\ candidate[d] \in {"none", "full"}
    \/ content[d] = quarantine[d] /\ retired[d] = "none"
    \/ content[d] = "none" /\ retired[d] = quarantine[d]

AdmitRepair ==
    LET d == subject
    IN  /\ task = "repair-admit"
        /\ IF RepairAllowed(d) /\ RepairConsistent(d)
             THEN /\ task' = IF content[d] = "good" THEN "repair-tidy" ELSE "repair-stage"
                  /\ baseline' = UsedBytes
                  /\ UNCHANGED <<plan, subject, observed>>
             ELSE Stop
        /\ UnlessRepair
        /\ UNCHANGED <<content, repairVars>>

\* ensure_candidate_staging: a whole candidate is kept, anything else written anew.
StageCandidate ==
    LET d == subject
    IN  /\ task = "repair-stage"
        /\ IF candidate[d] = "full"
             THEN Do("repair-swap") /\ UNCHANGED candidate
             ELSE Do("repair-copy") /\ candidate' = [candidate EXCEPT ![d] = "empty"]
        /\ UnlessRepair
        /\ UNCHANGED <<content, quarantine, rehydration, retired>>

CopyCandidate ==
    /\ task = "repair-copy"
    /\ candidate' = [candidate EXCEPT ![subject] = "full"]
    /\ Do("repair-swap")
    /\ UnlessRepair
    /\ UNCHANGED <<content, quarantine, rehydration, retired>>

\* Mutant: the damaged bytes are deleted to make place for the candidate.
SwapContentDeleting ==
    LET d == subject
    IN  /\ task = "repair-swap"
        /\ IF content[d] # "none"
             THEN /\ content' = [content EXCEPT ![d] = "none"]
                  /\ Do("repair-swap") /\ UNCHANGED candidate
             ELSE /\ content' = [content EXCEPT ![d] = "good"]
                  /\ candidate' = [candidate EXCEPT ![d] = "none"]
                  /\ Do("repair-tidy")
        /\ UnlessRepair
        /\ UNCHANGED <<quarantine, rehydration, retired>>

\* Two renames: the damaged content aside, the candidate into its place.
SwapContent ==
    LET d == subject
    IN  /\ task = "repair-swap"
        /\ IF content[d] # "none"
             THEN /\ retired' = [retired EXCEPT ![d] = content[d]]
                  /\ content' = [content EXCEPT ![d] = "none"]
                  /\ Do("repair-swap") /\ UNCHANGED candidate
             ELSE /\ content' = [content EXCEPT ![d] = "good"]
                  /\ candidate' = [candidate EXCEPT ![d] = "none"]
                  /\ Do("repair-tidy") /\ UNCHANGED retired
        /\ UnlessRepair
        /\ UNCHANGED <<quarantine, rehydration>>

\* A candidate that is no longer needed and the damaged bytes go, once the content
\* has been verified.
TidyRepair ==
    LET d == subject
    IN  /\ task = "repair-tidy"
        /\ IF content[d] = "good"
             THEN /\ candidate' = [candidate EXCEPT ![d] = "none"]
                  /\ retired' = [retired EXCEPT ![d] = "none"]
                  /\ Do("repair-complete")
             ELSE Stop /\ UNCHANGED <<candidate, retired>>
        /\ UnlessRepair
        /\ UNCHANGED <<content, quarantine, rehydration>>

WriteRepaired ==
    /\ task = "repair-complete"
    /\ rehydration' = [rehydration EXCEPT ![subject] = "completing"]
    /\ Do("repair-publish")
    /\ UnlessRepair
    /\ UNCHANGED <<content, quarantine, candidate, retired>>

PublishRepaired ==
    /\ task = "repair-publish"
    /\ rehydration' = [rehydration EXCEPT ![subject] = "rehydrated"]
    /\ Stop
    /\ UnlessRepair
    /\ UNCHANGED <<content, quarantine, candidate, retired>>

\* The operator's process dies; of a copy in progress some bytes may be there.
CrashMaintenance ==
    /\ CollectionHeld
    /\ storeCrashes < MaxStoreCrashes
    /\ storeCrashes' = storeCrashes + 1
    /\ Stop
    /\ \/ UNCHANGED candidate
       \/ task = "repair-copy" /\ candidate' = [candidate EXCEPT ![subject] = "torn"]
    /\ UNCHANGED <<content, staging, quarantine, rehydration, retired, recordVars, policy,
                   refs, writerVars, born, confirmed, damages>>

--------------------------------------------------------------------------------
\* A store with some complete artifacts and no maintenance behind it.
ArtifactInit ==
    /\ content \in [Digest -> {"absent", "good"}]
    /\ staging = [d \in Digest |-> "none"]
    /\ quarantine = [d \in Digest |-> "none"] /\ rehydration = [d \in Digest |-> "none"]
    /\ candidate = [d \in Digest |-> "none"] /\ retired = [d \in Digest |-> "none"]
    /\ prepared = NoPlan /\ completed = NoPlan
    /\ preparing = FALSE /\ completing = FALSE
    /\ tombstones = {}
    /\ policy = NoQuota /\ baseline = 0
    /\ refs = {}
    /\ at = [w \in Writer |-> "idle"] /\ quotaLock = [w \in Writer |-> "none"]
    /\ aim = [w \in Writer |-> Anything] /\ way = [w \in Writer |-> "cache"]
    /\ task = "idle" /\ plan = NoPlan
    /\ subject = Anything /\ observed = "none"
    /\ born = [d \in Digest |-> 0]
    /\ confirmed = {}
    /\ storeCrashes = 0 /\ damages = 0

Write(w) ==
    \/ AdmitReference(w) \/ AdmitStorage(w) \/ UpgradeStorage(w)
    \/ BeginCommit(w) \/ StageContent(w) \/ PublishContent(w)
    \/ OpenCached(w) \/ DropAdmission(w) \/ CommitReference(w)
    \/ \E d \in Digest : Lease(w, d)

Collect ==
    \/ WritePrepared \/ PublishPrepared \/ RemovePredecessor
    \/ \E d \in Digest : RetireContainer(d) \/ RemoveTombstone(d)
    \/ WriteCompleted \/ PublishCompleted \/ RemovePrepared

Repair ==
    \/ PublishQuarantine
    \/ PublishRepairPlan \/ AdmitRepair \/ StageCandidate \/ CopyCandidate
    \/ SwapContent \/ TidyRepair \/ WriteRepaired \/ PublishRepaired

ResumeCollection == \E c \in confirmed : BeginCollection(c)

ArtifactNext ==
    \/ \E w \in Writer : Write(w) \/ GiveUp(w) \/ CrashWriter(w)
    \/ \E r \in refs : RetireReference(r)
    \/ SetQuota
    \/ \E targets \in SUBSET Digest \ {{}} : PlanCollection(targets)
    \/ ResumeCollection \/ Collect
    \/ \E d \in Digest : BeginQuarantine(d) \/ BeginRehydration(d) \/ DamageContent(d)
    \/ Repair
    \/ CrashMaintenance

ArtifactSpec == ArtifactInit /\ [][ArtifactNext]_artifactVars

\* A maintenance operation runs to its end, every writer lets go of its admission
\* (each lock is waited for at most two seconds), and the operator retries what was
\* interrupted until it gets the guard.
ArtifactFairness ==
    /\ WF_artifactVars(Collect) /\ WF_artifactVars(Repair)
    /\ \A w \in Writer : WF_artifactVars(GiveUp(w))
    /\ SF_artifactVars(ResumeCollection)
    /\ \A d \in Digest : SF_artifactVars(BeginRehydration(d))

--------------------------------------------------------------------------------
ArtifactTypeOK ==
    /\ content \in [Digest -> {"absent", "none", "good"} \cup Damage]
    /\ staging \in [Digest -> {"none", "torn", "full"}]
    /\ quarantine \in [Digest -> {"none", "temp"} \cup Damage]
    /\ rehydration \in
         [Digest -> {"none", "preparing", "prepared", "completing", "rehydrated"}]
    /\ candidate \in [Digest -> {"none", "empty", "torn", "full"}]
    /\ retired \in [Digest -> {"none"} \cup Damage]
    /\ preparing \in BOOLEAN /\ completing \in BOOLEAN
    /\ policy \in Quota \cup {NoQuota}
    /\ refs \subseteq Way \X Digest
    /\ at \in [Writer -> {"idle", "admitted", "upgrading", "writing", "staging", "staged",
                          "published", "unguarded", "readmitted", "leased"}]
    /\ aim \in [Writer -> Digest] /\ way \in [Writer -> Way]
    /\ quotaLock \in [Writer -> {"none", "shared", "exclusive"}]
    /\ subject \in Digest

\* Who needs the bytes of d to be there: a committed reference, the publication w is
\* about to refer to under the same admission, the lease w is reading through.
Reading(w, d) == at[w] \in {"published", "leased"} /\ aim[w] = d

\* What a writer that keeps one admission from its write to its reference has
\* published, referred to or leased is never collected and never moved aside by a
\* repair, whatever crashes in between.
ReferencedKept ==
    \A d \in Digest :
      <<"cache", d>> \in refs \/ (\E w \in Writer : Reading(w, d)) => Complete(d)

\* The same for install and upgrade, which commit the reference under a second
\* admission.
EveryReferenceKept == \A d \in Digest : Referenced(d) => Complete(d)

\* A container is only ever retired under a plan that was confirmed for this very
\* container: a plan that has been carried out does not retire what was published
\* again later.
ReviewedRetired ==
    [][\A d \in Digest :
         Present(d) /\ content'[d] = "absent" =>
           \E c \in confirmed :
             c.plan = plan /\ d \in DOMAIN c.born /\ c.born[d] = born[d]]_artifactVars

\* Whatever a crash leaves behind is a state that the inspections know, a damaged
\* artifact keeps its evidence until verified bytes have replaced it, and only
\* complete content is ever open to ordinary use after a repair.
RepairsRecoverable ==
    /\ CollectionRecognised
    /\ \A d \in Digest :
         /\ RepairRecognised(d)
         /\ rehydration[d] \in {"prepared", "completing"} =>
              Complete(d) \/ retired[d] = quarantine[d]
         /\ quarantine[d] # "none" /\ ~Gated(d) => Complete(d) /\ retired[d] = "none"

\* Under a quota the store grows only within it, or back to what the write found.
QuotaHeld ==
    [][policy # NoQuota =>
         /\ UsedBytes' > UsedBytes => UsedBytes' <= policy.bytes \/ UsedBytes' <= baseline
         /\ UsedArtifacts' > UsedArtifacts => UsedArtifacts' <= policy.artifacts]_artifactVars

\* Can the confirmed plan still be carried out?
Resumable(p) ==
    \/ /\ CollectionPrepared \/ InterruptedCompletion
       /\ prepared = p
       /\ \A d \in Targets(p) : Present(d) => UnchangedTarget(p, d)
    \/ InterruptedPreparation /\ Buildable(Targets(p)) /\ BuildPlan(Targets(p)) = p

\* The admission fence of an interrupted collection lifts, unless the targets have
\* changed under it.
FenceLifts ==
    ~AdmissionAllowed ~> AdmissionAllowed \/ \A c \in confirmed : ~Resumable(c.plan)

\* A prepared repair completes, unless what it needs is taken away from it.
RepairEnds ==
    []<>CollectionFree =>
    \A d \in Digest :
      rehydration[d] \in {"prepared", "completing"} ~>
        \/ rehydration[d] = "rehydrated" \/ ~Present(d)
        \/ Referenced(d) \/ ~RepairAllowed(d) \/ ~RepairConsistent(d)
        \/ \A c \in confirmed : ~AdmissionAllowed /\ ~Resumable(c.plan)

================================================================================
