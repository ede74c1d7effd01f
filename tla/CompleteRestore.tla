---------------------------- MODULE CompleteRestore ----------------------------
(* The restore of a complete installation snapshot into a clean state root      *)
(* (control_store/payload_owner/complete_set).  One process at a time holds the  *)
(* exclusive maintenance fence.  It stages a candidate for each of seven         *)
(* components under one attempt directory, raises the active restore marker,     *)
(* and then makes the components live in a fixed order, with a checkpoint in     *)
(* the activation journal after each one.  After the last checkpoint it lowers   *)
(* the marker and removes the staging directories.  What remains, attempt.json   *)
(* and the complete activation.json, is the terminal receipt.                    *)
(*                                                                              *)
(* The process may die between any two file operations and inside any write.     *)
(* Whenever no process holds the fence and the marker is down, ordinary work     *)
(* may use the state root.  A caller that is refused, or that died, tries again. *)
EXTENDS Naturals, Integers, Sequences, FiniteSets

CONSTANTS
    MaxDeaths,  \* deaths of a restore process
    MaxWork     \* changes that ordinary work makes to the state root

ASSUME RestoreBounds == MaxDeaths \in Nat /\ MaxWork \in Nat

\* RestoreComponent::ALL, the order of staging, activation and retirement.
Order == <<"control", "runtime", "capability", "host", "knowledge",
           "observations", "history">>
Component == {Order[i] : i \in DOMAIN Order}
Last == Len(Order)
Index(c) == CHOOSE i \in DOMAIN Order : Order[i] = c

\* Owners whose payload is one directory, activated by a marker and a rename.
RootOwner == {"runtime", "capability", "host"}
\* Owners that refuse a marker partial of length zero.
RefusesEmptyPartial == {"runtime", "capability"}

NoJournal == -1

VARIABLES
    present,     \* components for which the snapshot has a payload
    attempt,     \* attempt.json: "none" (no directory), "dir", "torn", "full", "done"
    staged,      \* each component's staging directory
    inPlace,     \* each component's live state
    checkpoints, \* checkpoints in activation.json, or NoJournal
    journalTemp, \* activation.json.tmp
    restoring,   \* the active restore marker .maintenance.restore.json is there
    partial,     \* its partial
    sidecar,     \* a SQLite sidecar lies next to the Control database
    foreign,     \* the state root has an entry that no component owns
    at,          \* what the holder of the fence does; "idle": nobody holds it
    reached,     \* the component it has reached
    worked,      \* components that ordinary work has changed
    deaths

files == <<attempt, staged, inPlace, checkpoints, journalTemp, restoring, partial,
           sidecar, foreign>>
crVars == <<present, files, at, reached, worked, deaths>>

(* A staging directory: none; a candidate in the making; the candidate (or, for *)
(* an absent payload, nothing); an activation marker partial of length zero,     *)
(* incomplete, or whole; the activation marker (the archive renamed, for         *)
(* observations); the candidate moved into the live root.                        *)
StageState == {"absent", "building", "staged", "empty", "torn", "full", "marked", "moved"}
LiveState == {"absent", "some", "exact", "used"}
Phase == {"idle", "prepare", "staging", "reopen", "restage", "activate", "begin",
          "rebegin", "effect", "checkpoint", "publish", "finish", "retire"}

CrTypeOK ==
    /\ present \in SUBSET Component /\ "control" \in present
    /\ attempt \in {"none", "dir", "torn", "full", "done"}
    /\ staged \in [Component -> StageState]
    /\ inPlace \in [Component -> LiveState]
    /\ checkpoints \in NoJournal..Last
    /\ journalTemp \in {"none", "torn", "first", "next"}
    /\ partial \in {"none", "torn", "full"}
    /\ {restoring, sidecar, foreign} \subseteq BOOLEAN
    /\ at \in Phase /\ reached \in 1..Last
    /\ worked \subseteq Component
    /\ deaths \in 0..MaxDeaths

CrInit ==
    /\ present \in {{"control"} \union S : S \in SUBSET (Component \ {"control"})}
    /\ attempt = "none"
    /\ staged = [c \in Component |-> "absent"]
    /\ inPlace = [c \in Component |-> "absent"]
    /\ checkpoints = NoJournal /\ journalTemp = "none"
    /\ restoring = FALSE /\ partial = "none" /\ sidecar = FALSE /\ foreign = FALSE
    /\ at = "idle" /\ reached = 1 /\ worked = {} /\ deaths = 0

--------------------------------------------------------------------------------
(* What the process reads before it acts.                                       *)

AllCheckpointed == checkpoints = Last
HasDirectories == \A c \in Component : staged[c] # "absent"
NoDirectories == \A c \in Component : staged[c] = "absent"
ControlCandidate == staged["control"] = "staged"
LiveControl == inPlace["control"] # "absent"

\* validate_state_root_inventory: only locks and the attempt directory.
CleanRoot ==
    /\ ~restoring /\ partial = "none" /\ ~foreign
    /\ \A c \in Component : inPlace[c] = "absent"

\* inspect_root: every entry of the state root is one this restore may own.
OwnedRoot == ~foreign /\ ~(sidecar /\ LiveControl)

\* require_control_boundary: the candidate or the live database, not both.
ControlBoundary == ControlCandidate # LiveControl

\* validate_checkpoint_root: what is live is a prefix of the journal's order,
\* with at most one component more.
CheckpointRoot(n) ==
    /\ n > 0 => LiveControl
    /\ \A c \in Component \ {"control"} :
           inPlace[c] # "absent" => n >= Index(c) - 1
    /\ inPlace["history"] # "absent" => n >= Index("observations") - 1

\* Mutant of LoadsActive: the active marker is not looked for.
LoadsUnmarked ==
    OwnedRoot /\ ControlBoundary /\ partial = "none" /\ checkpoints # NoJournal
    /\ CheckpointRoot(checkpoints)

\* load_active, but for the recovery of the journal's temporary.
LoadsActive ==
    /\ OwnedRoot /\ ControlBoundary /\ partial = "none"
    /\ checkpoints # NoJournal
    /\ restoring \/ AllCheckpointed
    /\ CheckpointRoot(checkpoints)

\* control_restore_activation::validate_boundary and control_restore_reopen:
\* one exact database, with its evidence and no sidecar.
ControlExact ==
    /\ ~sidecar
    /\ \/ staged["control"] = "staged" /\ inPlace["control"] = "absent"
       \/ staged["control"] = "moved" /\ inPlace["control"] = "exact"

--------------------------------------------------------------------------------
(* Staging a component, on a clean target or when an attempt is reopened.       *)

\* recover_activation_marker of the directory owners.
RecoverMarker(c) ==
    CASE staged[c] \in {"torn", "empty"} -> "staged"
      [] staged[c] = "full" -> "marked"
      [] OTHER -> staged[c]

\* The entries that an owner finds in its staging directory and refuses.
ControlStages == ~sidecar
RuntimeStages == staged["runtime"] # "empty"
CapabilityStages == staged["capability"] # "empty"
HistoryStages == staged["history"] \in {"absent", "building", "staged"}

StageAccepts(c) ==
    CASE c = "control" -> ControlStages
      [] c = "runtime" -> RuntimeStages
      [] c = "capability" -> CapabilityStages
      [] c = "history" -> HistoryStages
      [] OTHER -> TRUE

\* knowledge/restore/reopen.rs: the database is in staging or live, never in both.
KnowledgeReopens ==
    IF "knowledge" \in present
    THEN \/ staged["knowledge"] = "staged" /\ inPlace["knowledge"] \in {"absent", "some"}
         \/ staged["knowledge"] = "moved" /\ inPlace["knowledge"] = "exact"
    ELSE inPlace["knowledge"] = "absent"

\* What reopen_activation accepts: the Control database, Knowledge and the
\* restore history are inspected, the other owners are staged again.
ReopenAccepts(c) ==
    CASE c = "control" -> ControlExact
      [] c = "knowledge" -> KnowledgeReopens
      [] c = "history" -> staged[c] # "building"
      [] OTHER -> StageAccepts(c)

\* The staging directory after its next file operation: it is created, its
\* candidate is completed, or its activation marker is recovered.
StageNext(c) ==
    CASE staged[c] = "absent" -> IF c \in present THEN "building" ELSE "staged"
      [] staged[c] = "building" -> "staged"
      [] c \in RootOwner -> RecoverMarker(c)
      [] OTHER -> staged[c]

Staged(c) == StageNext(c) = staged[c]

--------------------------------------------------------------------------------
(* Making a component live.  LiveNext is the next file operation of the owner's *)
(* activate, a pair of staging and live state; an owner that is done, or that    *)
(* refuses, has none.                                                            *)

Activated(c) ==
    CASE c = "control" -> ControlExact /\ LiveControl
      [] c = "history" ->
            staged[c] = "marked" /\ inPlace[c] = IF c \in present THEN "exact" ELSE "absent"
      [] c \notin present -> inPlace[c] = "absent"
      [] c = "observations" -> staged[c] = "marked" /\ inPlace[c] = "exact"
      [] OTHER -> staged[c] = "moved" /\ inPlace[c] = "exact"

\* Both owners with a marker of their own create it in the same way.
MarkNext(c) ==
    CASE staged[c] = "staged" -> {"full"}
      [] staged[c] = "full" -> {"marked"}
      [] staged[c] = "torn" -> {"staged"}
      [] staged[c] = "empty" /\ c \notin RefusesEmptyPartial -> {"staged"}
      [] OTHER -> {}

\* publish_directory: the candidate becomes the live root in one rename.
RootNext(c) ==
    {<<s, "absent">> : s \in MarkNext(c)} \union
    (IF staged[c] = "marked" THEN {<<"moved", "exact">>} ELSE {})

\* restore_database_guard creates the directories and the lock; then a rename.
KnowledgeNext(c) ==
    CASE staged[c] = "staged" /\ inPlace[c] = "absent" -> {<<"staged", "some">>}
      [] staged[c] = "staged" /\ inPlace[c] = "some" -> {<<"moved", "exact">>}
      [] OTHER -> {}

\* Records are published one at a time, by owners that mark the activation first.
RecordsNext(c) ==
    IF staged[c] # "marked" THEN {}
    ELSE CASE inPlace[c] = "absent" -> {<<"marked", "some">>}
           [] inPlace[c] = "some" -> {<<"marked", "exact">>}
           [] OTHER -> {}

ObservationsNext(c) ==
    IF staged[c] = "staged" /\ inPlace[c] = "absent" THEN {<<"marked", "absent">>}
    ELSE RecordsNext(c)

\* Only under the active restore marker.  Records that were live before would be
\* retired into staging; load_active has excluded them.
HistoryNext(c) ==
    (IF inPlace[c] = "absent" THEN {<<s, "absent">> : s \in MarkNext(c)} ELSE {}) \union
    (IF c \in present THEN RecordsNext(c) ELSE {})

LiveNext(c) ==
    CASE c = "history" -> IF restoring THEN HistoryNext(c) ELSE {}
      [] c \notin present -> {}
      [] c = "control" -> IF ControlExact /\ ControlCandidate THEN {<<"moved", "exact">>} ELSE {}
      [] c \in RootOwner -> IF inPlace[c] = "absent" THEN RootNext(c) ELSE {}
      [] c = "knowledge" -> KnowledgeNext(c)
      [] c = "observations" -> ObservationsNext(c)

\* preflight_clean: each component is staged, not started, over a clean target.
PreflightClean ==
    /\ ControlExact
    /\ \A c \in Component : staged[c] = "staged" /\ inPlace[c] = "absent"

\* publish_new_journal: only on a root without any effect of an activation.
WritesFirst == journalTemp = "none" /\ checkpoints = NoJournal /\ CleanRoot /\ ControlCandidate

\* reconcile_marker: the marker is raised only before the first effect.
RaisesMarker ==
    /\ journalTemp = "none" /\ ~restoring /\ partial # "torn"
    /\ checkpoints = 0 /\ ~LiveControl /\ ControlCandidate

\* Mutant of RecoversTemp: only a first temporary is recovered.
RecoversFirstTemp == journalTemp = "first" /\ checkpoints = NoJournal

\* recover_journal_temporary: an old one is removed, a whole first one published.
RecoversTemp == journalTemp # "none" /\ (checkpoints # NoJournal \/ journalTemp = "first")

\* load_or_begin.
BeginAccepts ==
    /\ attempt = "done" /\ HasDirectories /\ OwnedRoot /\ ControlBoundary
    /\ \/ RecoversTemp \/ WritesFirst \/ RaisesMarker
       \/ journalTemp = "none" /\ LoadsActive

\* restore_retirement: finish and retire_components.
FinishAccepts ==
    attempt = "done" /\ LoadsActive /\ AllCheckpointed /\ (restoring => HasDirectories)

\* The checks of the call in progress; when one fails the call ends.
Accepts ==
    CASE at = "prepare" -> CleanRoot /\ (attempt # "done" => NoDirectories)
      [] at = "staging" -> StageAccepts(Order[reached])
      [] at = "reopen" -> attempt = "done" /\ ((AllCheckpointed /\ ~restoring) \/ HasDirectories)
      [] at = "restage" -> ReopenAccepts(Order[reached])
      [] at = "activate" ->
            IF checkpoints = NoJournal THEN PreflightClean
            ELSE LoadsActive /\ ControlExact
      [] at \in {"begin", "rebegin"} -> BeginAccepts
      [] at = "effect" ->
            /\ Order[reached] = "history" => LoadsActive
            /\ LiveNext(Order[reached]) # {} \/ Activated(Order[reached])
      [] at = "checkpoint" -> LoadsActive /\ checkpoints >= reached - 1
      [] at = "publish" -> TRUE
      [] at \in {"finish", "retire"} -> FinishAccepts

--------------------------------------------------------------------------------
(* The calls.  A caller takes the exclusive fence; each step after that is one  *)
(* file operation.                                                              *)

GoOn(phase, i) == at' = phase /\ reached' = i
SameMemory == UNCHANGED <<present, worked, deaths>>

\* stage_clean_restore and reopen_activation.
StartCall(phase) ==
    /\ at = "idle"
    /\ GoOn(phase, 1)
    /\ UNCHANGED files /\ SameMemory

\* prepare_attempt: the directory, then its descriptor through a partial.
Prepare ==
    /\ at = "prepare" /\ Accepts
    /\ \/ /\ attempt # "done"
          /\ attempt' = CASE attempt \in {"none", "torn"} -> "dir"
                          [] attempt = "dir" -> "full"
                          [] attempt = "full" -> "done"
          /\ UNCHANGED <<at, reached>>
       \/ attempt = "done" /\ GoOn("staging", 1) /\ UNCHANGED attempt
    /\ UNCHANGED <<staged, inPlace, checkpoints, journalTemp, restoring, partial, sidecar, foreign>>
    /\ SameMemory

\* The next component, or the call that follows when every component is done.
NextComponent(phase, next) == IF reached < Last THEN GoOn(phase, reached + 1) ELSE GoOn(next, 1)

StageStep(next) ==
    /\ IF Staged(Order[reached])
       THEN NextComponent(at, next) /\ UNCHANGED staged
       ELSE /\ staged' = [staged EXCEPT ![Order[reached]] = StageNext(Order[reached])]
            /\ UNCHANGED <<at, reached>>
    /\ UNCHANGED <<attempt, inPlace, checkpoints, journalTemp, restoring, partial, sidecar, foreign>>
    /\ SameMemory

StageComponent ==
    /\ at = "staging" /\ Accepts
    /\ StageStep("activate")

\* reopen_activation after begin: the owners are staged again.
RestageComponent ==
    /\ at = "restage" /\ Accepts
    /\ StageStep("activate")

\* reopen_activation: a complete restore whose marker is gone only has to retire
\* its staging; any other attempt needs all its directories and begins again.
Reopen ==
    /\ at = "reopen" /\ Accepts
    /\ IF AllCheckpointed /\ ~restoring THEN GoOn("finish", 1) ELSE GoOn("rebegin", 1)
    /\ UNCHANGED files /\ SameMemory

\* activate: what it decides before load_or_begin.  A complete restore without its
\* marker does not get here: reopen_activation has gone on to finish it.
StartActivation ==
    /\ at = "activate" /\ Accepts
    /\ GoOn("begin", 1)
    /\ UNCHANGED files /\ SameMemory

--------------------------------------------------------------------------------
(* load_or_begin, one file operation at a time.                                 *)

LoadOrBegin ==
    /\ at \in {"begin", "rebegin"} /\ Accepts
    /\ \/ /\ RecoversTemp
          /\ journalTemp' = "none"
          /\ checkpoints' = IF checkpoints = NoJournal THEN 0 ELSE checkpoints
          /\ UNCHANGED <<restoring, partial, at, reached>>
       \/ /\ WritesFirst
          /\ journalTemp' = "first"
          /\ UNCHANGED <<checkpoints, restoring, partial, at, reached>>
       \/ /\ RaisesMarker
          /\ \/ partial = "none" /\ partial' = "full" /\ UNCHANGED restoring
             \/ partial = "full" /\ partial' = "none" /\ restoring' = TRUE
          /\ UNCHANGED <<checkpoints, journalTemp, at, reached>>
       \/ /\ journalTemp = "none" /\ LoadsActive
          /\ GoOn(IF at = "begin" THEN "effect" ELSE "restage", 1)
          /\ UNCHANGED <<checkpoints, journalTemp, restoring, partial>>
    /\ UNCHANGED <<attempt, staged, inPlace, sidecar, foreign>> /\ SameMemory

--------------------------------------------------------------------------------
(* One component: its owner's file operations, then its checkpoint.             *)

Effect ==
    /\ at = "effect" /\ Accepts
    /\ \/ \E next \in LiveNext(Order[reached]) :
             /\ staged' = [staged EXCEPT ![Order[reached]] = next[1]]
             /\ inPlace' = [inPlace EXCEPT ![Order[reached]] = next[2]]
             /\ UNCHANGED <<at, reached>>
       \/ Activated(Order[reached]) /\ GoOn("checkpoint", reached) /\ UNCHANGED <<staged, inPlace>>
    /\ UNCHANGED <<attempt, checkpoints, journalTemp, restoring, partial, sidecar, foreign>>
    /\ SameMemory

\* checkpoint: one that is there already is kept; the next one is written to the
\* temporary that replaces the journal; any other is out of order.  begin has
\* recovered an older temporary.
Checkpoint ==
    /\ at = "checkpoint" /\ Accepts
    /\ IF checkpoints >= reached
       THEN NextComponent("effect", "finish") /\ UNCHANGED journalTemp
       ELSE journalTemp' = "next" /\ GoOn("publish", reached)
    /\ UNCHANGED <<attempt, staged, inPlace, checkpoints, restoring, partial, sidecar, foreign>>
    /\ SameMemory

\* replace_journal: the rename.
ReplaceJournal ==
    /\ at = "publish"
    /\ checkpoints' = reached /\ journalTemp' = "none"
    /\ NextComponent("effect", "finish")
    /\ UNCHANGED <<attempt, staged, inPlace, restoring, partial, sidecar, foreign>>
    /\ SameMemory

--------------------------------------------------------------------------------
(* restore_retirement::finish.                                                  *)

Finish ==
    /\ at = "finish" /\ Accepts
    /\ restoring' = FALSE
    /\ GoOn("retire", 1)
    /\ UNCHANGED <<attempt, staged, inPlace, checkpoints, journalTemp, partial, sidecar, foreign>>
    /\ SameMemory

\* retire_components: a directory that is gone is skipped.
RetireComponents ==
    /\ at = "retire" /\ Accepts
    /\ staged' = [staged EXCEPT ![Order[reached]] = "absent"]
    /\ NextComponent("retire", "idle")
    /\ UNCHANGED <<attempt, inPlace, checkpoints, journalTemp, restoring, partial, sidecar, foreign>>
    /\ SameMemory

--------------------------------------------------------------------------------
(* Refusals, crashes and ordinary work.                                         *)

CallStep ==
    \/ Prepare \/ StageComponent \/ Reopen \/ RestageComponent \/ StartActivation \/ LoadOrBegin
    \/ Effect \/ Checkpoint \/ ReplaceJournal \/ Finish \/ RetireComponents

\* A check that fails ends the call, which releases the fence.
RefuseCall ==
    /\ at # "idle" /\ ~Accepts
    /\ GoOn("idle", 1)
    /\ UNCHANGED files /\ SameMemory

\* What the death of the process inside a write leaves behind.
TornAttempt ==
    /\ at = "prepare" /\ Accepts /\ attempt = "dir" /\ attempt' = "torn"
    /\ UNCHANGED <<staged, inPlace, checkpoints, journalTemp, restoring, partial, sidecar, foreign>>
TornTemp ==
    /\ \/ at \in {"begin", "rebegin"} /\ Accepts /\ WritesFirst
       \/ at = "checkpoint" /\ Accepts /\ checkpoints < reached
    /\ journalTemp' = "torn"
    /\ UNCHANGED <<attempt, staged, inPlace, checkpoints, restoring, partial, sidecar, foreign>>
TornPartial ==
    /\ at \in {"begin", "rebegin"} /\ Accepts /\ RaisesMarker /\ partial = "none"
    /\ partial' = "torn"
    /\ UNCHANGED <<attempt, staged, inPlace, checkpoints, journalTemp, restoring, sidecar, foreign>>
TornMarker ==
    /\ at = "effect" /\ Accepts /\ <<"full", "absent">> \in LiveNext(Order[reached])
    /\ \E left \in {"empty", "torn"} : staged' = [staged EXCEPT ![Order[reached]] = left]
    /\ UNCHANGED <<attempt, inPlace, checkpoints, journalTemp, restoring, partial, sidecar, foreign>>
\* validate_database opens the Control database through SQLite.
LeftSidecar ==
    /\ \/ at = "activate"
       \/ at \in {"staging", "restage", "effect"} /\ Order[reached] = "control"
    /\ staged["control"] # "absent" /\ sidecar' = TRUE
    /\ UNCHANGED <<attempt, staged, inPlace, checkpoints, journalTemp, restoring, partial, foreign>>

ProcessDies ==
    /\ at # "idle" /\ deaths < MaxDeaths
    /\ \/ TornAttempt \/ TornTemp \/ TornPartial \/ TornMarker \/ LeftSidecar
       \/ UNCHANGED files
    /\ GoOn("idle", 1) /\ deaths' = deaths + 1
    /\ UNCHANGED <<present, worked>>

\* A shared lease is granted while no process is exclusive and no marker is up.
OrdinaryWork ==
    /\ at = "idle" /\ ~restoring
    /\ \/ /\ Cardinality(worked) < MaxWork
          /\ \E c \in Component :
                 worked' = worked \union {c} /\ inPlace' = [inPlace EXCEPT ![c] = "used"]
          /\ UNCHANGED foreign
       \/ MaxWork > 0 /\ foreign' = TRUE /\ UNCHANGED <<worked, inPlace>>
    /\ UNCHANGED <<present, attempt, staged, checkpoints, journalTemp, restoring, partial, sidecar>>
    /\ UNCHANGED <<at, reached, deaths>>

CrNext ==
    \/ StartCall("prepare") \/ StartCall("reopen")
    \/ CallStep \/ RefuseCall \/ ProcessDies \/ OrdinaryWork

\* A call runs to its end, and the caller keeps trying both calls.
CrFairness ==
    /\ WF_crVars(CallStep) /\ WF_crVars(RefuseCall)
    /\ SF_crVars(StartCall("prepare")) /\ SF_crVars(StartCall("reopen"))

CrSpec == CrInit /\ [][CrNext]_crVars /\ CrFairness

--------------------------------------------------------------------------------
Restored(c) == inPlace[c] \in {"exact", "used"}

\* validate_terminal_receipt_blocking: backup and reachability accept it.
TerminalReceipt == attempt = "done" /\ AllCheckpointed /\ journalTemp = "none" /\ NoDirectories

\* The state root is open for ordinary work only while nothing of the snapshot is
\* live in it or all of it is: the marker goes up before the first effect and comes
\* down after the last checkpoint, whatever crashes in between.
AllOrNothing ==
    at = "idle" /\ ~restoring =>
        \/ \A c \in Component : inPlace[c] \in {"absent", "used"}
        \/ \A c \in present : Restored(c)

\* What ordinary work wrote is never replaced by a restore that resumes after it.
WorkKept == \A c \in worked : inPlace[c] = "used"

\* A receipt that backup and reachability accept means that the whole snapshot was
\* made live and the marker is down.
ReceiptTrue == TerminalReceipt => ~restoring /\ \A c \in present : Restored(c)

\* Whatever crashes between two file operations or inside a write, and whatever
\* ordinary work does while no marker keeps it out, the state root holds nothing or
\* all of the snapshot when it is open, work is kept and the receipt is true.
RestoreWhole == CrTypeOK /\ AllOrNothing /\ WorkKept /\ ReceiptTrue

\* Files from which no call of the restore goes on: a marker partial, or the first
\* journal temporary, cut short; an owner's marker partial of length zero; a SQLite
\* sidecar of a process that died while it verified the Control database; intent
\* recorded over an unfinished history candidate; ordinary work before the end.
CannotFinish ==
    \/ partial = "torn" \/ sidecar
    \/ journalTemp = "torn" /\ checkpoints = NoJournal
    \/ \E c \in RefusesEmptyPartial : staged[c] = "empty"
    \/ staged["history"] = "building" /\ restoring
    \/ foreign \/ (worked # {} /\ ~AllCheckpointed)

\* Before the journal records the intent to activate, each candidate has been
\* completed.
IntentAfterCandidates ==
    checkpoints # NoJournal /\ ~AllCheckpointed =>
        \A c \in Component : staged[c] \notin {"absent", "building"}
==============================================================================
