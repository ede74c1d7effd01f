--------------------------- MODULE ExtensionRegistry ---------------------------
(* The registry of one installation (crates/extension/src/registry): a selected *)
(* receipt per package, receipts retained for generations that were superseded, *)
(* one snapshot file that says what is published, and generation leases.  Every *)
(* mutation runs under the registry lock as a list of file writes: a process    *)
(* can die between two of them, and a write that fails is compensated.  Reading *)
(* and leasing take no lock.                                                    *)
EXTENDS Naturals, Sequences, FiniteSets, SequencesExt

CONSTANTS
    Package,
    MaxGeneration,  \* bound on the lifecycle generations of a package
    MaxPending,     \* MAX_PENDING_REGISTRY_CUTOVERS
    Needs,          \* the packages a generation of a package depends on
    Op,             \* lifecycle operations; their cutover keys
    Call            \* callers that lease generations

VARIABLES
    receipt,    \* <package>.json: the selected receipt
    retained,   \* the retained receipts, one per generation
    snapshot,   \* registry.json
    job,        \* what the holder of the registry lock has still to write
    lease       \* the generation locks of each caller

registry == <<receipt, retained, snapshot, job, lease>>

Generation == 1 .. MaxGeneration
Identity == Package \X Generation

\* Generation 0: there is no receipt, and no binding.
Receipt == [generation : 0 .. MaxGeneration, enabled : BOOLEAN]
NoReceipt == [generation |-> 0, enabled |-> FALSE]
Bound(g, on) == [generation |-> g, enabled |-> on]

\* want: still to lock; fresh: locked and not yet confirmed; cursor: the
\* publication a lease on the whole snapshot was asked for.
Lease == [want : SUBSET Identity, at : SUBSET Identity, fresh : SUBSET Identity,
          cursor : SUBSET Nat, held : BOOLEAN]
NoLease == [want |-> {}, at |-> {}, fresh |-> {}, cursor |-> {}, held |-> FALSE]

\* done: what undoes the writes that were made, the latest last; undo: whether a
\* write that fails is compensated, and in which order.
NoJob == [owner |-> {}, writes |-> <<>>, done |-> <<>>, drains |-> {}, undo |-> "none",
          failed |-> FALSE]

RegistryInit ==
    /\ receipt = [p \in Package |-> NoReceipt]
    /\ retained = [k \in Identity |-> "none"]
    /\ snapshot = [generation |-> 0, packages |-> [p \in Package |-> NoReceipt], cutovers |-> {}]
    /\ job = NoJob
    /\ lease = [c \in Call |-> NoLease]

Published == {k \in Identity : snapshot.packages[k[1]] = Bound(k[2], TRUE)}
Selected(k) == receipt[k[1]].generation = k[2]
Binds(k) == snapshot.packages[k[1]].generation = k[2]
RetainedOf(p) == {k \in Identity : k[1] = p /\ retained[k] # "none"}

\* get_lifecycle_generation: the selected receipt, or else a retained one.
Visibility(k) ==
    IF Selected(k) THEN IF receipt[k[1]].enabled THEN "enabled" ELSE "hidden" ELSE retained[k]

\* ensure_no_installed_dependents
NoDependents(p, gone) ==
    \A q \in Package \ (gone \cup {p}) :
        receipt[q].generation # 0 => p \notin Needs[q, receipt[q].generation]

------------------------------------------------------------------------------
(* File writes.  A snapshot is always written from the receipts of the moment.  *)

Select(p, g, on) == [file |-> "receipt", at |-> <<p, g>>, to |-> IF on THEN "enabled" ELSE "hidden"]
Unselect(p) == [file |-> "receipt", at |-> <<p, 0>>, to |-> "none"]
Retain(k, to) == [file |-> "retained", at |-> k, to |-> to]
Forget(k) == Retain(k, "none")
WriteSnapshot(key) == [file |-> "snapshot", at |-> key, to |-> "none"]

Undoes(w) ==
    CASE w.file = "receipt" /\ receipt[w.at[1]] = NoReceipt -> <<Unselect(w.at[1])>>
      [] w.file = "receipt" /\ receipt[w.at[1]] # NoReceipt ->
           <<Select(w.at[1], receipt[w.at[1]].generation, receipt[w.at[1]].enabled)>>
      [] w.file = "retained" -> <<Forget(w.at)>>
      [] w.file = "snapshot" -> <<>>

\* publish_snapshot_locked; with a key, publish_snapshot_with_cutover_locked.
SnapshotAfter(key) ==
    IF receipt = snapshot.packages
    THEN snapshot
    ELSE [generation |-> snapshot.generation + 1, packages |-> receipt,
          cutovers |-> snapshot.cutovers \cup key]

Perform(w) ==
    /\ receipt' = IF w.file = "receipt"
                  THEN [receipt EXCEPT ![w.at[1]] = Bound(w.at[2], w.to = "enabled")]
                  ELSE receipt
    /\ retained' = IF w.file = "retained" THEN [retained EXCEPT ![w.at] = w.to] ELSE retained
    /\ snapshot' = IF w.file = "snapshot" THEN SnapshotAfter(w.at) ELSE snapshot

\* Mutant: removed packages are not put back.
CompensateEnabled ==
    LET Enabled(w) == w.file = "receipt" /\ w.to = "hidden"
    IN  IF job.undo = "cutover" THEN SelectSeq(job.done, Enabled) ELSE Reverse(job.done)

\* restore_lifecycle_receipts, then restore_removed_lifecycle_packages: enabled
\* receipts go back in the order they were written, removed packages in reverse.
Compensation ==
    LET Enabled(w) == w.file = "receipt" /\ w.to = "hidden"
        Other(w) == ~Enabled(w)
    IN  CASE job.undo = "none" -> <<>>
          [] job.undo = "reverse" -> Reverse(job.done)
          [] job.undo = "cutover" ->
               SelectSeq(job.done, Enabled) \o Reverse(SelectSeq(job.done, Other))

Submit(o, writes, drains, undo) ==
    job' = [owner |-> {o}, writes |-> writes, done |-> <<>>, drains |-> drains, undo |-> undo,
            failed |-> FALSE]

\* A cutover that changes nothing is refused.
Refused(w) == w.file = "snapshot" /\ w.at # {} /\ receipt = snapshot.packages

------------------------------------------------------------------------------
(* The registry operations: when they are admitted, and what they write.        *)

\* commit_lifecycle_package_selection: a replay of what is staged.
CommitReplays(k) ==
    /\ receipt[k[1]] = Bound(k[2], FALSE)
    /\ \/ RetainedOf(k[1]) = {} /\ k \notin Published
       \/ \E prior \in RetainedOf(k[1]) :
            /\ RetainedOf(k[1]) = {prior}
            /\ snapshot.packages[k[1]] = Bound(prior[2], retained[prior] = "enabled")

\* A new generation is staged while the selected one is what is published.
CommitStages(k) ==
    \/ receipt[k[1]] = NoReceipt
    \/ /\ receipt[k[1]].generation \in 1 .. k[2] - 1
       /\ snapshot.packages[k[1]] = receipt[k[1]]
       /\ \A r \in RetainedOf(k[1]) :
            Selected(r) /\ (retained[r] = "enabled") = receipt[k[1]].enabled

\* Mutant: every commit refreshes the snapshot.
CommitPublishes(k) ==
    LET prior == <<k[1], receipt[k[1]].generation>>
    IN  (IF receipt[k[1]] = NoReceipt THEN <<>> ELSE <<Retain(prior, Visibility(prior))>>)
        \o <<Select(k[1], k[2], FALSE), WriteSnapshot({})>>

CommitWrites(k) ==
    LET prior == <<k[1], receipt[k[1]].generation>>
    IN  (IF receipt[k[1]] = NoReceipt \/ retained[prior] # "none"
         THEN <<>> ELSE <<Retain(prior, Visibility(prior))>>)
        \o <<Select(k[1], k[2], FALSE)>>

\* retire_lifecycle_visibility: only a generation the cutover took out.
RetireAdmitted(k) ==
    /\ Visibility(k) # "none"
    /\ ~Binds(k)
    /\ Selected(k) => snapshot.packages[k[1]] = NoReceipt

RetireWrites(k) ==
    CASE Visibility(k) = "hidden" -> <<>>
      [] Visibility(k) = "enabled" /\ Selected(k) -> <<Select(k[1], k[2], FALSE), WriteSnapshot({})>>
      [] Visibility(k) = "enabled" /\ ~Selected(k) -> <<Retain(k, "hidden")>>

\* Mutant: the drain waits for nobody.
NotDrained(k) == TRUE

\* acquire_drain_lock: nobody shares the generation's lock.
Drained(k) == \A c \in Call : k \notin lease[c].at

\* drain_lifecycle_package
DrainAdmitted(k) == Visibility(k) = "hidden"

\* remove_lifecycle_package: a retained or missing generation, or the selected one.
RemoveAdmitted(k) ==
    IF Selected(k)
    THEN NoDependents(k[1], {}) /\ RetainedOf(k[1]) = {} /\ Visibility(k) = "hidden"
    ELSE /\ receipt[k[1]] = NoReceipt => NoDependents(k[1], {})
         /\ k \notin Published
         /\ Binds(k) => receipt[k[1]] = NoReceipt /\ retained[k] = "none"
         /\ retained[k] # "enabled"

RemoveWrites(k) ==
    CASE Selected(k) -> <<Unselect(k[1]), WriteSnapshot({})>>
      [] ~Selected(k) /\ retained[k] # "none" -> <<Forget(k)>>
      [] ~Selected(k) /\ retained[k] = "none" /\ Binds(k) -> <<WriteSnapshot({})>>
      [] ~Selected(k) /\ retained[k] = "none" /\ ~Binds(k) -> <<>>

------------------------------------------------------------------------------
(* publish_lifecycle_packages_for_host_version: candidates appear and removed   *)
(* packages vanish in one snapshot.  t: [op, candidates, removed, keep,         *)
(* expected, hide]; hide: an uninstall, which passes no package lock.           *)

Exact(k) == receipt[k[1]] = Bound(k[2], TRUE) /\ k \in Published

\* Every package of the candidate lock is selected, enabled and published.
CandidateComplete(t) ==
    ~t.hide /\ \A k \in ToSet(t.candidates) \cup t.keep : Exact(k)

\* What is known of a package that leaves the graph.
RemovalAdmitted(t, k) ==
    LET bound == snapshot.packages[k[1]] # NoReceipt
    IN  /\ receipt[k[1]].generation \in {0, k[2]}
        /\ \/ /\ Visibility(k) = "enabled"
              /\ k \in Published \/ CandidateComplete(t) \/ (t.hide /\ ~Selected(k) /\ ~bound)
           \/ Visibility(k) = "hidden" /\ ~bound
           \/ Visibility(k) = "none" /\ ~bound /\ (t.hide \/ CandidateComplete(t))

\* What replay and first attempt have in common.
TransitionChecked(t) ==
    /\ \A k \in t.keep : Exact(k)
    /\ \A k \in ToSet(t.candidates) : Visibility(k) # "none"
    /\ \A k \in ToSet(t.removed) : RemovalAdmitted(t, k)

\* Mutant: a cutover that was made is not recognised.
NeverReplays(t) == FALSE

\* recorded_cutover: the snapshot remembers the key until the operation ends.
TransitionReplays(t) ==
    /\ t.op \in snapshot.cutovers
    /\ TransitionChecked(t)
    /\ \A k \in ToSet(t.candidates) : Exact(k)
    /\ \A k \in ToSet(t.removed) : ~Binds(k)

TransitionAdmitted(t) ==
    /\ t.op \notin snapshot.cutovers
    /\ snapshot.generation = t.expected
    /\ Cardinality(snapshot.cutovers) < MaxPending
    /\ \A k \in ToSet(t.removed) : NoDependents(k[1], {r[1] : r \in ToSet(t.removed)})
    /\ TransitionChecked(t)
    /\ \A k \in ToSet(t.removed) : Selected(k) => retained[k] # "enabled"

\* Removed packages are retained as hidden, candidates enabled, and the snapshot
\* written last: it is the commit point.
TransitionWrites(t) ==
    LET Moved(k) == IF ~Selected(k) THEN <<>>
                    ELSE <<Retain(k, "hidden"), Unselect(k[1])>>
        Enabled(k) == IF Visibility(k) = "enabled" THEN <<>> ELSE <<Select(k[1], k[2], TRUE)>>
    IN  FlattenSeq([i \in DOMAIN t.removed |-> Moved(t.removed[i])])
        \o FlattenSeq([i \in DOMAIN t.candidates |-> Enabled(t.candidates[i])])
        \o <<WriteSnapshot({t.op})>>

------------------------------------------------------------------------------
(* rollback_lifecycle_package_graph: candidates that were never published go,   *)
(* and the generations they were to replace are selected again.                 *)

RollbackAdmitted(t, prior) ==
    \A k \in ToSet(t.candidates) :
        /\ k \notin Published
        /\ IF prior[k[1]] # 0
           THEN /\ <<k[1], prior[k[1]]>> \in Published
                /\ \/ Selected(k) /\ Visibility(<<k[1], prior[k[1]]>>) # "none"
                   \/ Selected(<<k[1], prior[k[1]]>>)
           ELSE receipt[k[1]] \in {NoReceipt, Bound(k[2], FALSE)}

RollbackWrites(t, prior) ==
    LET Restored(k) ==
            CASE ~Selected(k) -> <<>>
              [] Selected(k) /\ prior[k[1]] = 0 -> <<Unselect(k[1])>>
              [] Selected(k) /\ prior[k[1]] # 0 ->
                   <<Select(k[1], prior[k[1]], retained[<<k[1], prior[k[1]]>>] = "enabled")>>
        Forgotten(k) ==
            IF prior[k[1]] # 0 /\ retained[<<k[1], prior[k[1]]>>] # "none"
            THEN <<Forget(<<k[1], prior[k[1]]>>)>> ELSE <<>>
    IN  FlattenSeq([i \in DOMAIN t.candidates |-> Restored(t.candidates[i])])
        \o <<WriteSnapshot({})>>
        \o FlattenSeq([i \in DOMAIN t.candidates |-> Forgotten(t.candidates[i])])

------------------------------------------------------------------------------
(* Leases: a shared lock on the generation, confirmed by what is then published.*)

\* acquire_published_lifecycle_generation asks for one generation,
\* acquire_published_snapshot for all that a publication makes callable.
Ask(c) ==
    /\ lease[c] = NoLease
    /\ \/ \E k \in Published : lease' = [lease EXCEPT ![c].want = {k}]
       \/ /\ Published # {}
          /\ lease' = [lease EXCEPT ![c].want = Published, ![c].cursor = {snapshot.generation}]

\* A generation that is being removed is locked exclusively: there is no lease.
TakeLock(c) ==
    /\ lease[c].fresh = {}
    /\ \E k \in lease[c].want :
         lease' = [lease EXCEPT ![c] =
                     IF k \in job.drains THEN NoLease
                     ELSE [@ EXCEPT !.want = @ \ {k}, !.at = @ \cup {k}, !.fresh = {k}]]

\* get_snapshot_binding: what is published now must describe the receipt exactly.
Confirm(c) ==
    /\ lease[c].fresh # {}
    /\ lease' = [lease EXCEPT ![c] =
                   IF \E k \in lease[c].fresh : k \notin Published \/ Visibility(k) # "enabled"
                   THEN NoLease
                   ELSE [@ EXCEPT !.fresh = {}, !.held = lease[c].want = {} /\ lease[c].cursor = {}]]

\* Mutant: the publication is not compared again.
RecheckNothing(c) ==
    /\ lease[c].cursor # {} /\ lease[c].want = {} /\ lease[c].fresh = {} /\ ~lease[c].held
    /\ lease' = [lease EXCEPT ![c].held = TRUE]

\* The publication is compared again once all of it is locked.
Recheck(c) ==
    /\ lease[c].cursor # {} /\ lease[c].want = {} /\ lease[c].fresh = {} /\ ~lease[c].held
    /\ lease' = [lease EXCEPT ![c] =
                   IF lease[c].cursor = {snapshot.generation}
                   THEN [@ EXCEPT !.held = TRUE] ELSE NoLease]

Release(c) ==
    /\ lease[c].held
    /\ lease' = [lease EXCEPT ![c] = NoLease]

================================================================================
