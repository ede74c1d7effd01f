---------------------------- MODULE CapabilityIndex ----------------------------
(* Publication of one immutable Capability Index document (capability_plane/    *)
(* index.rs): a staging file is written, synced and hard-linked to its          *)
(* content-addressed name.  Processes race for the mutation lock, die at any    *)
(* step, and the power can fail: a directory entry that was not synced may come *)
(* back as it was before, and a file that was not synced may come back torn.    *)
EXTENDS Naturals

CONSTANTS
    Writer,     \* processes that materialize the document
    MaxLosses,  \* power failures
    MaxExits    \* processes that die

ASSUME IndexAssumption == MaxLosses \in Nat /\ MaxExits \in Nat

VARIABLES
    staging, target,          \* the directory entries as running processes see them
    stagingDisk, targetDisk,  \* the entries as last synced
    pc,                       \* where each process is in materialize
    receipt,                  \* some process returned the receipt of the document
    losses, exits

dirs == <<staging, target, stagingDisk, targetDisk>>
indexVars == <<dirs, pc, receipt, losses, exits>>

\* "cached" is a complete file whose bytes were not synced yet.
File == {"absent", "torn", "cached", "full"}
Step == {"idle", "inspect", "clear", "create", "write", "sync", "syncStaging", "link",
         "verify", "syncTarget", "retire", "syncRetired"}

IndexInit ==
    /\ staging = "absent" /\ target = "absent"
    /\ stagingDisk = "absent" /\ targetDisk = "absent"
    /\ pc = [w \in Writer |-> "idle"]
    /\ receipt = FALSE
    /\ losses = 0 /\ exits = 0

Goto(w, step) == pc' = [pc EXCEPT ![w] = step]

\* try_acquire_mutation: another process that is inside makes it an error.
Acquire(w) ==
    /\ pc[w] = "idle"
    /\ \A v \in Writer : pc[v] = "idle"
    /\ Goto(w, "inspect")
    /\ UNCHANGED <<dirs, receipt, losses, exits>>

\* A target that is there is only made durable; one with other bytes is a conflict.
Inspect(w) ==
    /\ pc[w] = "inspect"
    /\ Goto(w, CASE target = "absent" -> "clear"
                 [] target \in {"cached", "full"} -> "syncTarget"
                 [] OTHER -> "idle")
    /\ UNCHANGED <<dirs, receipt, losses, exits>>

\* Mutant: what an earlier attempt left is kept.
ClearNothing(w) ==
    /\ pc[w] = "clear"
    /\ Goto(w, "create")
    /\ UNCHANGED <<dirs, receipt, losses, exits>>

Clear(w) ==
    /\ pc[w] = "clear"
    /\ staging' = "absent"
    /\ Goto(w, "create")
    /\ UNCHANGED <<target, stagingDisk, targetDisk, receipt, losses, exits>>

\* create_new: a file that is there is an error.
Create(w) ==
    /\ pc[w] = "create"
    /\ IF staging = "absent" THEN staging' = "torn" /\ Goto(w, "write")
                             ELSE Goto(w, "idle") /\ UNCHANGED staging
    /\ UNCHANGED <<target, stagingDisk, targetDisk, receipt, losses, exits>>

Write(w) ==
    /\ pc[w] = "write"
    /\ staging' = "cached"
    /\ Goto(w, "sync")
    /\ UNCHANGED <<target, stagingDisk, targetDisk, receipt, losses, exits>>

\* Mutant: the bytes are left to the page cache.
SyncFileNever(w) ==
    /\ pc[w] = "sync"
    /\ Goto(w, "syncStaging")
    /\ UNCHANGED <<dirs, receipt, losses, exits>>

SyncFile(w) ==
    /\ pc[w] = "sync"
    /\ staging' = "full"
    /\ Goto(w, "syncStaging")
    /\ UNCHANGED <<target, stagingDisk, targetDisk, receipt, losses, exits>>

SyncStaging(w) ==
    /\ pc[w] = "syncStaging"
    /\ stagingDisk' = staging
    /\ Goto(w, "link")
    /\ UNCHANGED <<staging, target, targetDisk, receipt, losses, exits>>

\* The link never replaces a target that is already there.
Link(w) ==
    /\ pc[w] = "link"
    /\ target' = IF target = "absent" THEN staging ELSE target
    /\ Goto(w, "verify")
    /\ UNCHANGED <<staging, stagingDisk, targetDisk, receipt, losses, exits>>

Verify(w) ==
    /\ pc[w] = "verify"
    /\ Goto(w, IF target \in {"cached", "full"} THEN "syncTarget" ELSE "idle")
    /\ UNCHANGED <<dirs, receipt, losses, exits>>

SyncTarget(w) ==
    /\ pc[w] = "syncTarget"
    /\ targetDisk' = target
    /\ Goto(w, "retire")
    /\ UNCHANGED <<staging, target, stagingDisk, receipt, losses, exits>>

RetireStaging(w) ==
    /\ pc[w] = "retire"
    /\ staging' = "absent"
    /\ Goto(w, "syncRetired")
    /\ UNCHANGED <<target, stagingDisk, targetDisk, receipt, losses, exits>>

\* The receipt is returned, and the Control Store publishes the generation.
Return(w) ==
    /\ pc[w] = "syncRetired"
    /\ stagingDisk' = staging
    /\ receipt' = TRUE
    /\ Goto(w, "idle")
    /\ UNCHANGED <<staging, target, targetDisk, losses, exits>>

\* A process ends wherever it is; the system releases its lock.
Exit(w) ==
    /\ pc[w] # "idle"
    /\ exits < MaxExits
    /\ exits' = exits + 1
    /\ Goto(w, "idle")
    /\ UNCHANGED <<dirs, receipt, losses>>

\* What may be found after a power failure: the entry of either time or, when it
\* was removed and created in between, none; a file that was not synced is torn
\* or complete.
Survivors(now, disk) ==
    LET entry == IF now = disk THEN {now} ELSE {now, disk, "absent"}
    IN  (entry \ {"cached"}) \cup IF "cached" \in entry THEN {"torn", "full"} ELSE {}

PowerLoss ==
    /\ losses < MaxLosses
    /\ losses' = losses + 1
    /\ staging' \in Survivors(staging, stagingDisk) /\ stagingDisk' = staging'
    /\ target' \in Survivors(target, targetDisk) /\ targetDisk' = target'
    /\ pc' = [w \in Writer |-> "idle"]
    /\ UNCHANGED <<receipt, exits>>

Materialize(w) ==
    \/ Inspect(w) \/ Clear(w) \/ Create(w) \/ Write(w) \/ SyncFile(w) \/ SyncStaging(w)
    \/ Link(w) \/ Verify(w) \/ SyncTarget(w) \/ RetireStaging(w) \/ Return(w)

IndexNext == (\E w \in Writer : Acquire(w) \/ Materialize(w) \/ Exit(w)) \/ PowerLoss

IndexSpec == IndexInit /\ [][IndexNext]_indexVars

\* The cutover is tried again after a failure, and a process that runs goes on.
IndexFairness ==
    /\ WF_indexVars(\E w \in Writer : Acquire(w))
    /\ \A w \in Writer : WF_indexVars(Materialize(w))

------------------------------------------------------------------------------
(* Properties.                                                                  *)

\* The entries and the processes keep their types; an entry is synced only after
\* the file it names.
IndexTypeOK ==
    /\ staging \in File /\ target \in File
    /\ stagingDisk \in File \ {"cached"} /\ targetDisk \in File \ {"cached"}
    /\ pc \in [Writer -> Step]
    /\ receipt \in BOOLEAN
    /\ losses \in Nat /\ exits \in Nat

\* No reader ever finds other bytes under the content-addressed name, before or
\* after a power failure, which would be a conflict for every later attempt:
\* the link is made only to a file that was synced.
TargetIsExact == "torn" \notin {target, targetDisk}

\* Once a receipt was returned, the document is there and survives every power
\* failure: "the publication directory must reach stable storage before the
\* recovery link is removed".
ReceiptIsDurable == receipt => target = "full" /\ targetDisk = "full"

\* Whatever process exits and power failures come between, the document that is
\* found is the document that was published, and stays found.
IndexSafe == TargetIsExact /\ ReceiptIsDurable

\* Why that is so.  One process is inside; what it links was synced; the receipt
\* comes after the sync of the target's directory; and no entry ever goes back.
PublicationOrdered ==
    /\ \A v, w \in Writer : pc[v] # "idle" /\ pc[w] # "idle" => v = w
    /\ {target, targetDisk} \subseteq {"absent", "full"}
    /\ targetDisk = "full" => target = "full"
    /\ \A w \in Writer :
         /\ pc[w] \in {"syncStaging", "link"} => staging = "full"
         /\ pc[w] = "syncTarget" => target = "full"
         /\ pc[w] \in {"retire", "syncRetired"} => targetDisk = "full"
         /\ pc[w] = "syncRetired" => staging = "absent"

\* The inductive invariant of materialize: the receipt is durable because of where the process
\* that returns it has been.
IndexInv == IndexTypeOK /\ ReceiptIsDurable /\ PublicationOrdered
==============================================================================
