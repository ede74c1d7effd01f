----------------------------- MODULE StateRestore -----------------------------
(* Whole-installation restore: backup, review, and the durable operation that  *)
(* publishes a reviewed backup over live state and survives the death of its   *)
(* process at any write.  Live state is the registered files plus the journals *)
(* of earlier restores, which the inventory scan also covers.  Everything here *)
(* runs under the exclusive maintenance fence; ordinary writes run under the   *)
(* shared one, which the active marker keeps closed (module MaintenanceFence). *)
EXTENDS Integers, FiniteSets, Sequences

CONSTANTS
    File,               \* registered state files
    Authority,          \* those that a restore must find unchanged: the Control export
    Content,
    Absent,             \* no such file
    Nothing,            \* no marker, no tombstone, no candidate root
    MaxHistory,         \* MAX_OPERATION_COUNT
    MaxPlans,           \* how many different restores are ever reviewed
    MaxBackups,         \* how many archives are kept
    MaxAttempts,        \* how many operations are ever started
    MaxCrashes,
    TornWrites,         \* a crash may fall inside the first write of a journal
    ReplayCompleted     \* callers repeat the apply of a completed operation

PlanId == 1 .. MaxPlans
Attempt == 1 .. MaxAttempts

ASSUME RestoreAssumption ==
    /\ Authority \subseteq File
    /\ File \cap PlanId = {}
    /\ {MaxHistory, MaxPlans, MaxBackups, MaxAttempts} \subseteq Nat \ {0}
    /\ MaxCrashes \in Nat
    /\ {TornWrites, ReplayCompleted} \subseteq BOOLEAN

VARIABLES
    live,       \* [File -> Content or Absent]
    journal,    \* [PlanId -> [status, attempt] or Absent]: operation.json
    dirs,       \* the operation directories that exist
    temp,       \* [PlanId -> "none", "torn" or "whole"]: operation.json.tmp
    tomb,       \* the pruning tombstone: [plan, full], full while it holds its journal
    marker,     \* .maintenance.restore.json: [plan, attempt]
    cand,       \* the hidden candidate root: [Path -> value], or Nothing
    plans,      \* the reviewed plans; a digest is the place of its plan
    backups,    \* the archives that exist, by what they hold
    job,        \* the running restore: [step, plan, attempt]
    attempts,   \* operations started
    crashes

vars == <<live, journal, dirs, temp, tomb, marker, cand, plans, backups, job, attempts, crashes>>

\* A journal is a path of the inventory like any other.
Path == File \cup PlanId

Status == <<"planned", "staged", "publishing", "published", "removed", "verified", "completed">>
Rank(status) == CHOOSE i \in DOMAIN Status : Status[i] = status
Journal == [status : {Status[i] : i \in DOMAIN Status}, attempt : Attempt]
Value == Content \cup Journal \cup {Absent}
Inventory == [Path -> Value]

Idle == [step |-> "idle", plan |-> 0, attempt |-> 0]
Step == {"idle", "rollback", "activate", "reserve", "create", "sync", "rename", "resume"}

ValueAt(x) == IF x \in File THEN live[x] ELSE journal[x]
Present(p) == journal[p] # Absent
Terminal(p) == Present(p) /\ journal[p].status = "completed"

\* The scan refuses temporary and nonterminal evidence, except the evidence of
\* the active operation, which it leaves out.
Scannable(active) ==
    /\ \A p \in PlanId \ {active} : temp[p] = "none" /\ (Present(p) => Terminal(p))
    /\ tomb # Nothing => ~tomb.full

Scan(active) == [x \in Path |-> IF x = active THEN Absent ELSE ValueAt(x)]
Matches(active, inventory) == Scannable(active) /\ Scan(active) = inventory

Before(p) == plans[p].before
After(p) == plans[p].after
Selected(p) == {x \in Path : After(p)[x] # Absent /\ After(p)[x] # Before(p)[x]}
Removed(p) == {x \in Path : After(p)[x] = Absent /\ Before(p)[x] # Absent}

Init ==
    /\ live \in [File -> Content]
    /\ journal = [p \in PlanId |-> Absent]
    /\ dirs = {}
    /\ temp = [p \in PlanId |-> "none"]
    /\ tomb = Nothing
    /\ marker = Nothing
    /\ cand = Nothing
    /\ plans = <<>>
    /\ backups = {}
    /\ job = Idle
    /\ attempts = 0
    /\ crashes = 0

------------------------------------------------------------------------------
(* Ordinary access, backup and review.                                         *)

\* Some state family writes one of its files under a shared guard, which is not
\* granted while a restore runs or its marker is on disk.
Write(f, c) ==
    /\ job = Idle
    /\ marker = Nothing
    /\ live[f] # c
    /\ live' = [live EXCEPT ![f] = c]
    /\ UNCHANGED <<journal, dirs, temp, tomb, marker, cand, plans, backups, job, attempts, crashes>>

Backup ==
    /\ job = Idle
    /\ marker = Nothing
    /\ Scannable(0)
    /\ Scan(0) \notin backups
    /\ Cardinality(backups) < MaxBackups
    /\ backups' = backups \cup {Scan(0)}
    /\ UNCHANGED <<live, journal, dirs, temp, tomb, marker, cand, plans, job, attempts, crashes>>

\* plan_restore changes nothing; the caller keeps the digest.
PlanRestore(backup) ==
    /\ job = Idle
    /\ marker = Nothing
    /\ Scannable(0)
    /\ \A f \in Authority : live[f] = backup[f]
    /\ \A p \in DOMAIN plans : plans[p] # [before |-> Scan(0), after |-> backup]
    /\ Len(plans) < MaxPlans
    /\ plans' = Append(plans, [before |-> Scan(0), after |-> backup])
    /\ UNCHANGED <<live, journal, dirs, temp, tomb, marker, cand, backups, job, attempts, crashes>>

------------------------------------------------------------------------------
(* apply_restore, up to the first write.                                       *)

Run(step, p, a) == job' = [step |-> step, plan |-> p, attempt |-> a]
Continue(step) == job' = [job EXCEPT !.step = step]
Stop == job' = Idle

\* load: a temporary journal is discarded beside a durable one and promoted in
\* its place otherwise.  A torn one is promoted too and cannot be read.
Loadable(p) == temp[p] # "torn"
Loads(p) == p \in dirs /\ (Present(p) \/ temp[p] = "whole")

\* A durable operation: the marker is put back if it is gone, then it resumes.
ApplyDurable(p) ==
    /\ job = Idle
    /\ marker # Nothing => marker.plan = p
    /\ Loadable(p)
    /\ Loads(p)
    /\ ReplayCompleted \/ marker # Nothing \/ ~Terminal(p)
    /\ LET recovered == IF Present(p) THEN journal[p]
                        ELSE [status |-> "planned", attempt |-> marker.attempt]
       IN  /\ journal' = [journal EXCEPT ![p] = recovered]
           /\ Run("activate", p, recovered.attempt)
    /\ temp' = [temp EXCEPT ![p] = "none"]
    /\ UNCHANGED <<live, dirs, tomb, marker, cand, plans, backups, attempts, crashes>>

\* A marker without a journal: the exact plan must still be derivable.
ApplyMarked(p) ==
    /\ job = Idle
    /\ marker # Nothing /\ marker.plan = p
    /\ Loadable(p)
    /\ ~Loads(p)
    /\ After(p) \in backups
    /\ Matches(p, Before(p))
    /\ Before(p) \in backups
    /\ Run("reserve", p, marker.attempt)
    /\ UNCHANGED <<live, journal, dirs, temp, tomb, marker, cand, plans, backups, attempts, crashes>>

\* nonterminal(): every retained directory has a journal, and all are terminal.
HistoryTerminal == \A d \in dirs : Terminal(d)

\* A new operation, as long as live state is still what was reviewed.
ApplyFresh(p) ==
    /\ job = Idle
    /\ marker = Nothing
    /\ ~Loads(p)
    /\ HistoryTerminal
    /\ After(p) \in backups
    /\ Matches(0, Before(p))
    /\ Before(p) # After(p)
    /\ attempts < MaxAttempts
    /\ attempts' = attempts + 1
    /\ Run("rollback", p, attempts + 1)
    /\ UNCHANGED <<live, journal, dirs, temp, tomb, marker, cand, plans, backups, crashes>>

------------------------------------------------------------------------------
(* Marker and journal.                                                         *)

\* ensure_rollback_backup archives the reviewed live inventory first.
CaptureRollback ==
    /\ job.step = "rollback"
    /\ backups' = backups \cup {Before(job.plan)}
    /\ Continue("activate")
    /\ UNCHANGED <<live, journal, dirs, temp, tomb, marker, cand, plans, attempts, crashes>>

\* The marker binds plan and attempt; a marker of another attempt is a conflict.
Unclaimed == marker \in {Nothing, [plan |-> job.plan, attempt |-> job.attempt]}

Activate ==
    /\ job.step = "activate"
    /\ Unclaimed
    /\ marker' = [plan |-> job.plan, attempt |-> job.attempt]
    /\ Continue(IF Present(job.plan) THEN "resume" ELSE "reserve")
    /\ UNCHANGED <<live, journal, dirs, temp, tomb, cand, plans, backups, attempts, crashes>>

\* The attempt number orders completed journals as completed_at_ms does.
Oldest(q) == \A d \in dirs : journal[q].attempt <= journal[d].attempt

\* Every other directory must hold a journal.
HistoryRecorded == \A d \in dirs \ {job.plan} : Present(d)

\* reserve, one durable change at a time: an interrupted prune is finished, then
\* there is room for the directory, or the oldest terminal journal goes.
FinishPruning ==
    /\ job.step = "reserve"
    /\ tomb # Nothing
    /\ tomb' = IF tomb.full THEN [tomb EXCEPT !.full = FALSE] ELSE Nothing
    /\ UNCHANGED <<live, journal, dirs, temp, marker, cand, plans, backups, job, attempts, crashes>>

Prune(q) ==
    /\ job.step = "reserve"
    /\ tomb = Nothing
    /\ job.plan \notin dirs
    /\ Cardinality(dirs) >= MaxHistory
    /\ HistoryRecorded /\ HistoryTerminal
    /\ q \in dirs /\ Oldest(q)
    /\ tomb' = [plan |-> q, full |-> TRUE]
    /\ dirs' = dirs \ {q}
    /\ journal' = [journal EXCEPT ![q] = Absent]
    /\ UNCHANGED <<live, temp, marker, cand, plans, backups, job, attempts, crashes>>

EnsureDirectory ==
    /\ job.step = "reserve"
    /\ tomb = Nothing
    /\ HistoryRecorded
    /\ job.plan \in dirs \/ Cardinality(dirs) < MaxHistory
    /\ dirs' = dirs \cup {job.plan}
    /\ Continue("create")
    /\ UNCHANGED <<live, journal, temp, tomb, marker, cand, plans, backups, attempts, crashes>>

\* write_json: a temporary file is created, filled and synchronised, renamed.
CreateTemporary ==
    /\ job.step = "create"
    /\ temp' = [temp EXCEPT ![job.plan] = "torn"]
    /\ Continue("sync")
    /\ UNCHANGED <<live, journal, dirs, tomb, marker, cand, plans, backups, attempts, crashes>>

SyncTemporary ==
    /\ job.step = "sync"
    /\ temp' = [temp EXCEPT ![job.plan] = "whole"]
    /\ Continue("rename")
    /\ UNCHANGED <<live, journal, dirs, tomb, marker, cand, plans, backups, attempts, crashes>>

RenameTemporary ==
    /\ job.step = "rename"
    /\ temp' = [temp EXCEPT ![job.plan] = "none"]
    /\ journal' = [journal EXCEPT ![job.plan] = [status |-> "planned", attempt |-> job.attempt]]
    /\ Continue("resume")
    /\ UNCHANGED <<live, dirs, tomb, marker, cand, plans, backups, attempts, crashes>>

------------------------------------------------------------------------------
(* resume_restore: one status after the other, each of them repeatable.        *)

Resuming(status) == job.step = "resume" /\ journal[job.plan].status = status

\* advance saves the journal under the next status.
Advance ==
    journal' = [journal EXCEPT ![job.plan].status = Status[Rank(@) + 1]]

Put(x, v) ==
    /\ live' = IF x \in File THEN [live EXCEPT ![x] = v] ELSE live
    /\ journal' = IF x \in File THEN journal ELSE [journal EXCEPT ![x] = v]

Candidate(x) == IF cand = Nothing THEN Absent ELSE cand[x]
SetCandidate(x, v) == cand' = [y \in Path |-> IF y = x THEN v ELSE Candidate(y)]
AllStaged(p) == \A x \in Selected(p) : Candidate(x) = After(p)[x]

\* stage_candidates copies every file to be added or replaced out of the archive.
Stage(x) ==
    /\ Resuming("planned")
    /\ x \in Selected(job.plan)
    /\ After(job.plan) \in backups
    /\ Candidate(x) = Absent
    /\ SetCandidate(x, After(job.plan)[x])
    /\ UNCHANGED <<live, journal, dirs, temp, tomb, marker, plans, backups, job, attempts, crashes>>

\* Mutant: staging is taken as finished before every file is copied.
FinishStagingEarly ==
    /\ Resuming("planned")
    /\ Advance
    /\ UNCHANGED <<live, dirs, temp, tomb, marker, cand, plans, backups, job, attempts, crashes>>

FinishStaging ==
    /\ Resuming("planned")
    /\ AllStaged(job.plan)
    /\ Advance
    /\ UNCHANGED <<live, dirs, temp, tomb, marker, cand, plans, backups, job, attempts, crashes>>

\* Live state must still be the reviewed one before the first file changes.
CompareReviewed ==
    /\ Resuming("staged")
    /\ Matches(job.plan, Before(job.plan))
    /\ Advance
    /\ UNCHANGED <<live, dirs, temp, tomb, marker, cand, plans, backups, job, attempts, crashes>>

\* apply_remove.
RemoveFile(x) ==
    /\ Resuming("publishing")
    /\ x \in Removed(job.plan)
    /\ ValueAt(x) = Before(job.plan)[x]
    /\ Put(x, Absent)
    /\ UNCHANGED <<dirs, temp, tomb, marker, cand, plans, backups, job, attempts, crashes>>

\* apply_publication: the target is removed, then the candidate takes its place.
RemoveTarget(x) ==
    /\ Resuming("publishing")
    /\ x \in Selected(job.plan)
    /\ Candidate(x) = After(job.plan)[x]
    /\ ValueAt(x) # Absent
    /\ ValueAt(x) = Before(job.plan)[x]
    /\ Put(x, Absent)
    /\ UNCHANGED <<dirs, temp, tomb, marker, cand, plans, backups, job, attempts, crashes>>

\* A candidate beside an already published file is dropped in the same way.
PublishCandidate(x) ==
    /\ Resuming("publishing")
    /\ x \in Selected(job.plan)
    /\ Candidate(x) = After(job.plan)[x]
    /\ ValueAt(x) \in {Absent, After(job.plan)[x]}
    /\ Put(x, After(job.plan)[x])
    /\ SetCandidate(x, Absent)
    /\ dirs' = dirs \cup ({x} \cap PlanId)
    /\ UNCHANGED <<temp, tomb, marker, plans, backups, job, attempts, crashes>>

Applied(p, x) == ValueAt(x) = After(p)[x] /\ (x \in Selected(p) => Candidate(x) = Absent)

FinishPublishing ==
    /\ Resuming("publishing")
    /\ \A x \in Path \ {job.plan} : Applied(job.plan, x)
    /\ Advance
    /\ UNCHANGED <<live, dirs, temp, tomb, marker, cand, plans, backups, job, attempts, crashes>>

\* The root is removed only when no candidate is left in it.
RemoveCandidates ==
    /\ Resuming("published")
    /\ \A x \in Path : Candidate(x) = Absent
    /\ cand' = Nothing
    /\ Advance
    /\ UNCHANGED <<live, dirs, temp, tomb, marker, plans, backups, job, attempts, crashes>>

ValidTerminal(p) == cand = Nothing /\ Matches(p, After(p))

Verify ==
    /\ Resuming("removed")
    /\ ValidTerminal(job.plan)
    /\ Advance
    /\ UNCHANGED <<live, dirs, temp, tomb, marker, cand, plans, backups, job, attempts, crashes>>

Complete ==
    /\ Resuming("verified")
    /\ Advance
    /\ UNCHANGED <<live, dirs, temp, tomb, marker, cand, plans, backups, job, attempts, crashes>>

ClearActive ==
    /\ Resuming("completed")
    /\ ValidTerminal(job.plan)
    /\ marker' = Nothing
    /\ Stop
    /\ UNCHANGED <<live, journal, dirs, temp, tomb, cand, plans, backups, attempts, crashes>>

\* What makes a step return its error: the process lets go of the fence and
\* leaves everything on disk as it is.
OnCourse(p, x) ==
    \/ Applied(p, x)
    \/ x \in Removed(p) /\ ValueAt(x) = Before(p)[x]
    \/ x \in Selected(p) /\ Candidate(x) = After(p)[x] /\ ValueAt(x) \in {Absent, Before(p)[x]}

Refused(p) ==
    CASE job.step = "activate" -> ~Unclaimed
      [] job.step = "reserve" -> tomb = Nothing /\ ~HistoryRecorded
      [] Resuming("planned") -> ~AllStaged(p) /\ After(p) \notin backups
      [] Resuming("staged") -> ~Matches(p, Before(p))
      [] Resuming("publishing") -> \E x \in Path \ {p} : ~OnCourse(p, x)
      [] Resuming("published") -> \E x \in Path : Candidate(x) # Absent
      [] Resuming("removed") \/ Resuming("completed") -> ~ValidTerminal(p)
      [] OTHER -> FALSE

Refuse ==
    /\ job # Idle
    /\ Refused(job.plan)
    /\ Stop
    /\ UNCHANGED <<live, journal, dirs, temp, tomb, marker, cand, plans, backups, attempts, crashes>>

------------------------------------------------------------------------------
(* The environment.                                                            *)

\* The process dies.  Renames and removals are synchronised before the next
\* step, so what is on disk is what the steps so far have written.
Crash ==
    /\ job # Idle
    /\ crashes < MaxCrashes
    /\ TornWrites \/ job.step # "sync"
    /\ crashes' = crashes + 1
    /\ Stop
    /\ UNCHANGED <<live, journal, dirs, temp, tomb, marker, cand, plans, backups, attempts>>

\* The source archive is outside the installation and may go once every
\* candidate is staged.
LoseArchive ==
    /\ marker # Nothing
    /\ Present(marker.plan)
    /\ journal[marker.plan].status # "planned" \/ AllStaged(marker.plan)
    /\ After(marker.plan) \in backups
    /\ backups' = backups \ {After(marker.plan)}
    /\ UNCHANGED <<live, journal, dirs, temp, tomb, marker, cand, plans, job, attempts, crashes>>

Apply(p) == ApplyDurable(p) \/ ApplyMarked(p) \/ ApplyFresh(p)

Progress ==
    \/ CaptureRollback \/ Activate
    \/ FinishPruning \/ (\E q \in PlanId : Prune(q)) \/ EnsureDirectory
    \/ CreateTemporary \/ SyncTemporary \/ RenameTemporary
    \/ (\E x \in Path : Stage(x)) \/ FinishStaging \/ CompareReviewed
    \/ (\E x \in Path : RemoveFile(x) \/ RemoveTarget(x) \/ PublishCandidate(x))
    \/ FinishPublishing \/ RemoveCandidates \/ Verify \/ Complete \/ ClearActive \/ Refuse

Next ==
    \/ \E f \in File, c \in Content \cup {Absent} : Write(f, c)
    \/ Backup
    \/ \E b \in backups : PlanRestore(b)
    \/ \E p \in DOMAIN plans : Apply(p)
    \/ Progress
    \/ Crash
    \/ LoseArchive

Spec == Init /\ [][Next]_vars

\* The process that took the fence keeps running, and the caller that the marker
\* tells to resume the exact operation does.
Fairness ==
    /\ WF_vars(Progress)
    /\ \A p \in PlanId : WF_vars(p \in DOMAIN plans /\ marker # Nothing /\ Apply(p))

------------------------------------------------------------------------------
(* Properties.                                                                 *)

\* Every variable has its type: journals, marker and tombstone are well formed
\* records, and the running restore is at one of the steps of apply_restore.
TypeOK ==
    /\ live \in [File -> Content \cup {Absent}]
    /\ journal \in [PlanId -> Journal \cup {Absent}]
    /\ dirs \subseteq PlanId
    /\ temp \in [PlanId -> {"none", "torn", "whole"}]
    /\ tomb \in [plan : PlanId, full : BOOLEAN] \cup {Nothing}
    /\ marker \in [plan : PlanId, attempt : Attempt] \cup {Nothing}
    /\ cand = Nothing \/ cand \in Inventory
    /\ Len(plans) <= MaxPlans
    /\ \A i \in DOMAIN plans : plans[i].before \in Inventory /\ plans[i].after \in Inventory
    /\ \A b \in backups : b \in Inventory
    /\ job = Idle \/ job \in [step : Step \ {"idle"}, plan : DOMAIN plans, attempt : Attempt]
    /\ attempts \in 0 .. MaxAttempts
    /\ crashes \in 0 .. MaxCrashes

\* Until its restored form is in place, the form of a file to publish is a
\* candidate, and what is live is the reviewed file, the restored one, or nothing
\* yet.
PublishedOnCourse ==
    \A p \in DOMAIN plans :
        Present(p) /\ journal[p].status = "publishing" =>
            \A x \in Path \ {p} : OnCourse(p, x)

\* From the end of publication until verification, live state is the backup and
\* nothing else, so validate_terminal can only confirm it.
PublishedExactly ==
    \A p \in DOMAIN plans :
        Present(p) /\ journal[p].status \in {"published", "removed", "verified"} =>
            \A x \in Path \ {p} : ValueAt(x) = After(p)[x]

\* No crash between the steps of apply_actions_blocking, and no replay of them,
\* loses a file or leaves one that the backup does not hold.
NothingLost == PublishedOnCourse /\ PublishedExactly

\* "The active marker is durable before its journal or live mutation": an
\* unfinished journal always has its own marker, so at most one is unfinished.
UnfinishedIsMarked ==
    \A p \in PlanId :
        Present(p) /\ ~Terminal(p) => marker = [plan |-> p, attempt |-> journal[p].attempt]

\* Whenever a marker keeps ordinary access out, the archive of the state that
\* was reviewed already exists: ensure_rollback_backup runs before activate.
RollbackExists ==
    marker # Nothing => Before(marker.plan) \in backups

\* "History retains at most 64 directories", the tombstone of an interrupted
\* prune included (read_root_entries refuses to read more).
HistoryBounded ==
    Cardinality(dirs) + (IF tomb = Nothing THEN 0 ELSE 1) <= MaxHistory

\* What recovery after a crash stands on: the types, the marker of the one
\* unfinished journal, the rollback archive and a history that can be read.
Recoverable == TypeOK /\ UnfinishedIsMarked /\ RollbackExists /\ HistoryBounded

\* Three ways in which the code cannot finish what it has marked: a torn first
\* journal, a reviewed journal that was pruned to make room for this one, and the
\* repeated apply of a completed restore whose files were changed since.
Stranded ==
    \/ job = Idle /\ \E p \in PlanId : temp[p] = "torn"
    \/ marker # Nothing /\ \E q \in PlanId \ {marker.plan} :
            Before(marker.plan)[q] # Absent /\ ~Present(q)
    \/ marker # Nothing /\ Terminal(marker.plan) /\ ~ValidTerminal(marker.plan)


\* The same without exception, as apply_restore is documented.
Converges == marker # Nothing ~> marker = Nothing
==============================================================================
