------------------------------ MODULE PackageGraph ------------------------------
(* The package graph saga (src/plugin_lifecycle): a reviewed plan installs,     *)
(* upgrades or uninstalls a closure of packages.  Each package keeps a journal  *)
(* of checkpoints, surfaces are prepared and removed at their hosts, and one    *)
(* registry cutover makes the whole closure visible or hides it.  The process   *)
(* can die anywhere; the caller replays the operation.                          *)
EXTENDS ExtensionRegistry

CONSTANTS
    Changes,        \* what plans may ask for: packages to add or replace, to remove
    InstallOrder,   \* the packages, dependencies first
    Surfaces,       \* the surfaces of each package, in preparation order
    Optional,       \* surfaces that may fail to prepare
    MaxOpen,        \* bound on operations under way at the same time
    MaxCrashes,     \* bound on processes that die
    MaxFaults,      \* bound on writes and host calls that fail, and on answers that
                    \* are lost once the operation has ended
    TornRemovals    \* may a process die between retaining a removed package's
                    \* receipt and writing the snapshot?

VARIABLES
    plan,       \* the reviewed plans
    active,     \* active.json of each package's journal
    last,       \* last.json
    prepared,   \* surfaces that exist at their hosts
    run,        \* where the coordinator is in each operation
    outcome,    \* how the operation ended
    issued,     \* the highest generation planned of each package
    budget      \* what is left of the bounds

vars == <<registry, plan, active, last, prepared, run, outcome, issued, budget>>

Surface == UNION {ToSet(Surfaces[p]) : p \in Package}

NoPlan == [kind |-> "none", candidate |-> [p \in Package |-> 0], prior |-> [p \in Package |-> 0],
           keep |-> {}, expected |-> 0]

\* done: how many checkpoints of the schedule have a receipt.
NoRecord == [op |-> {}, role |-> "none", done |-> 0, status |-> "none"]
NewRecord(o, role) == [op |-> {o}, role |-> role, done |-> 0, status |-> "applying"]

\* todo: the units a stage has still to go through; pending: a checkpoint has
\* been executed and has no receipt yet.
Idle == [stage |-> "idle", todo |-> <<>>, units |-> <<>>, pending |-> FALSE]

Init ==
    /\ RegistryInit
    /\ plan = [o \in Op |-> NoPlan]
    /\ active = [p \in Package |-> NoRecord]
    /\ last = [p \in Package |-> NoRecord]
    /\ prepared = {}
    /\ run = [o \in Op |-> Idle]
    /\ outcome = [o \in Op |-> "none"]
    /\ issued = [p \in Package |-> 0]
    /\ budget = [crashes |-> MaxCrashes, faults |-> MaxFaults]

------------------------------------------------------------------------------
(* Plans.                                                                       *)

Of(gens) == {k \in Identity : gens[k[1]] = k[2]}
Candidates(o) == SelectSeq(InstallOrder, LAMBDA p : plan[o].candidate[p] # 0)
Retirements(o) == SelectSeq(Reverse(InstallOrder), LAMBDA p : plan[o].prior[p] # 0)
Removals(o) == SelectSeq(Reverse(InstallOrder),
                         LAMBDA p : plan[o].prior[p] # 0 /\ plan[o].candidate[p] = 0)

\* The identities of a sequence of packages.
At(gens, ps) == [i \in DOMAIN ps |-> <<ps[i], gens[ps[i]]>>]

\* What the publication host is asked for.
Transition(o) ==
    [op |-> o, candidates |-> At(plan[o].candidate, Candidates(o)),
     removed |-> At(plan[o].prior, Removals(o)), keep |-> plan[o].keep,
     expected |-> plan[o].expected, hide |-> plan[o].kind = "uninstall"]

\* Dependencies of everything in the graph are in the graph.
Closed(graph) == \A k \in graph : Needs[k[1], k[2]] \subseteq {g[1] : g \in graph}

Open == {o \in Op : plan[o] # NoPlan /\ outcome[o] = "none"}
Busy == Open \cup {o \in Op : run[o] # Idle}

\* A plan is made over what is published: added and replaced packages get fresh
\* generations, removed ones go, and the graph stays closed.
Review(o) ==
    /\ plan[o] = NoPlan
    /\ Cardinality(Busy) < MaxOpen
    /\ \E ask \in Changes :
         LET change == ask[1]
             gone == ask[2]
             candidate == [p \in Package |-> IF p \in change THEN issued[p] + 1 ELSE 0]
             prior == [p \in Package |->
                         IF p \in change \cup gone THEN snapshot.packages[p].generation ELSE 0]
             graph == (Published \ Of(prior)) \cup Of(candidate)
             kind == CASE gone = {} /\ prior = [p \in Package |-> 0] -> "install"
                       [] change = {} -> "uninstall"
                       [] OTHER -> "upgrade"
         IN  /\ change \cup gone # {}
             /\ change \cap gone = {}
             /\ \A p \in gone : prior[p] # 0
             /\ \A p \in change : candidate[p] \in Generation
             /\ kind = "upgrade" => \E p \in change : prior[p] # 0
             /\ Closed(graph)
             /\ plan' = [plan EXCEPT ![o] =
                  [kind |-> kind, candidate |-> candidate, prior |-> prior,
                   keep |-> {k \in graph \ Of(candidate) :
                               \E c \in Of(candidate) : k[1] \in Needs[c[1], c[2]]},
                   expected |-> snapshot.generation]]
             /\ issued' = [p \in Package |-> IF p \in change THEN candidate[p] ELSE issued[p]]
    /\ UNCHANGED <<registry, active, last, prepared, run, outcome, budget>>

------------------------------------------------------------------------------
(* Journals.                                                                    *)

Owned(r, o, role) == r.op = {o} /\ r.role = role

\* load_exact_record
ExactRecord(o, role, p) ==
    CASE Owned(active[p], o, role) -> active[p]
      [] ~Owned(active[p], o, role) /\ Owned(last[p], o, role) -> last[p]
      [] OTHER -> NoRecord

Unfinished(r) == r.status \in {"applying", "rollingback"}

\* begin: another operation's unfinished record keeps the package busy.
CanBegin(o, role, p) == Owned(active[p], o, role) \/ ~Unfinished(active[p])

Begin(o, role, p) ==
    IF Owned(active[p], o, role)
    THEN UNCHANGED <<active, last>>
    ELSE /\ last' = [last EXCEPT ![p] = active[p]]
         /\ active' = [active EXCEPT ![p] = NewRecord(o, role)]

Checkpoint(p) == active[p].done + 1
Prepared(p) == 1 + Len(Surfaces[p])     \* the receipts of a candidate before its cutover

RecordReceipt(p) == active' = [active EXCEPT ![p].done = @ + 1]
SetStatus(p, status) == active' = [active EXCEPT ![p].status = status]

------------------------------------------------------------------------------
(* The stages of a run.                                                         *)

Units(o, stage) ==
    CASE stage \in {"prepare", "record"} -> Candidates(o)
      [] stage \in {"hidden", "drain", "retire"} -> Retirements(o)
      [] OTHER -> <<>>

After(o, stage) ==
    CASE stage = "prepare" -> "publish"
      [] stage = "publish" -> "record"
      [] stage = "record" -> IF plan[o].kind = "install" THEN "finish" ELSE "drain"
      [] stage = "hide" -> "hidden"
      [] stage = "hidden" -> "drain"
      [] stage = "drain" -> "retire"
      [] stage = "retire" -> "finish"
      [] stage = "start_rollback" -> "surfaces"
      [] stage = "surfaces" -> "unregister"
      [] stage = "unregister" -> "rolled_back"

\* A rollback goes over the candidates the run had come to.
Entered(o, stage, units) ==
    [stage |-> stage, units |-> units, pending |-> FALSE,
     todo |-> CASE stage \in {"start_rollback", "rolled_back"} -> units
                [] stage = "surfaces" -> Reverse(units)
                [] OTHER -> Units(o, stage)]

Enter(o, stage, units) == run' = [run EXCEPT ![o] = Entered(o, stage, units)]
NextStage(o) == Enter(o, After(o, run[o].stage), run[o].units)
Unit(o) == Head(run[o].todo)
In(o, stage) == run[o].stage = stage /\ run[o].todo # <<>> /\ ~run[o].pending

\* The next unit of the stage, or else the next stage.
Advance(o) ==
    IF Len(run[o].todo) > 1
    THEN run' = [run EXCEPT ![o].todo = Tail(@), ![o].pending = FALSE]
    ELSE NextStage(o)

Pend(o) == run' = [run EXCEPT ![o].pending = TRUE]

\* An upgrade that fails before its cutover rolls its candidates back; any other
\* failure goes back to the caller.
Fails(o) ==
    IF plan[o].kind = "upgrade" /\ run[o].stage \in {"prepare", "publish"}
    THEN Enter(o, "start_rollback",
               IF run[o].stage = "publish" THEN Candidates(o)
               ELSE SubSeq(Candidates(o), 1, Len(Candidates(o)) - Len(run[o].todo) + 1))
    ELSE run' = [run EXCEPT ![o] = Idle]

Fault == budget.faults > 0 /\ budget' = [budget EXCEPT !.faults = @ - 1]

\* An operation of the registry is refused, has nothing to write, or starts.
Registry(o, admitted, writes, drains, undo) ==
    /\ job.owner = {}
    /\ CASE ~admitted -> Fails(o) /\ UNCHANGED job
         [] admitted /\ writes = <<>> ->
              /\ IF run[o].todo # <<>> THEN Pend(o) ELSE NextStage(o)
              /\ UNCHANGED job
         [] admitted /\ writes # <<>> -> Submit(o, writes, drains, undo) /\ UNCHANGED run
    /\ UNCHANGED <<receipt, retained, snapshot, lease, plan, active, last, prepared, outcome,
                   issued, budget>>

Compensate(o) ==
    IF Compensation = <<>>
    THEN job' = NoJob /\ Fails(o)
    ELSE job' = [job EXCEPT !.writes = Compensation, !.failed = TRUE] /\ UNCHANGED run

\* One file write; the caller goes on after the last one.  A cutover that would
\* change nothing is an error.
Write(o) ==
    /\ job.owner = {o}
    /\ LET w == Head(job.writes)
       IN  IF Refused(w)
           THEN Compensate(o) /\ UNCHANGED <<receipt, retained, snapshot>>
           ELSE /\ Perform(w)
                /\ IF Len(job.writes) = 1
                   THEN /\ job' = NoJob
                        /\ CASE job.failed -> Fails(o)
                             [] ~job.failed /\ run[o].todo # <<>> -> Pend(o)
                             [] ~job.failed /\ run[o].todo = <<>> -> NextStage(o)
                   ELSE /\ job' = [job EXCEPT !.writes = Tail(@),
                                     !.done = CASE job.failed -> @
                                                [] ~job.failed /\ w.file = "snapshot" -> <<>>
                                                [] OTHER -> @ \o Undoes(w)]
                        /\ UNCHANGED run
    /\ UNCHANGED <<lease, plan, active, last, prepared, outcome, issued, budget>>

\* A write fails: what was written is put back.
WriteFails(o) ==
    /\ job.owner = {o}
    /\ ~job.failed
    /\ Fault
    /\ Compensate(o)
    /\ UNCHANGED <<receipt, retained, snapshot, lease, plan, active, last, prepared, outcome,
                   issued>>

------------------------------------------------------------------------------
(* Candidates: prepare_for_graph, the cutover, and its receipts.                *)

registryAndPlans == <<registry, plan, outcome, issued>>

Remembered(o) ==
    /\ \A p \in ToSet(Candidates(o)) : ExactRecord(o, "candidate", p) # NoRecord
    /\ outcome[o] = "completed" =>
         \A p \in ToSet(Retirements(o)) : ExactRecord(o, "retirement", p) # NoRecord

\* The caller submits the plan, again after a failure, a crash or a lost answer;
\* once it has ended, only while its packages' journals still name it.
\* An upgrade first looks for a rollback that was interrupted.
Start(o) ==
    LET Status(p) == ExactRecord(o, "candidate", p).status
        Seen(status) == \E p \in ToSet(Candidates(o)) : Status(p) = status
    IN  /\ plan[o] # NoPlan
        /\ run[o] = Idle
        /\ plan[o].kind = "upgrade" =>
             \A p \in ToSet(Candidates(o)) : Status(p) = "none" => ~Unfinished(active[p])
        /\ IF outcome[o] = "none" THEN UNCHANGED budget
           ELSE /\ Remembered(o)
                /\ Cardinality(Busy) < MaxOpen
                /\ Fault
        /\ CASE plan[o].kind = "install" -> Enter(o, "prepare", <<>>) /\ UNCHANGED outcome
             [] plan[o].kind = "uninstall" -> Enter(o, "hide", <<>>) /\ UNCHANGED outcome
             [] plan[o].kind = "upgrade" /\ Seen("rollingback") ->
                  /\ Enter(o, "start_rollback",
                           SelectSeq(Candidates(o),
                                     LAMBDA p : Status(p) \in {"applying", "rollingback", "rolledback"}))
                  /\ UNCHANGED outcome
             [] plan[o].kind = "upgrade" /\ ~Seen("rollingback") /\ Seen("rolledback") ->
                  outcome' = [outcome EXCEPT ![o] = "rolledback"] /\ UNCHANGED run
             [] OTHER -> Enter(o, "prepare", <<>>) /\ UNCHANGED outcome
    /\ UNCHANGED <<registry, plan, active, last, prepared, issued>>

\* The unit's journal is opened, or found to belong to something else.
OpenRecord(o, role) ==
    IF ExactRecord(o, role, Unit(o)).status = "none" /\ CanBegin(o, role, Unit(o))
    THEN Begin(o, role, Unit(o)) /\ UNCHANGED run
    ELSE Fails(o) /\ UNCHANGED <<active, last>>

BeginCandidate(o) ==
    /\ In(o, "prepare")
    /\ ExactRecord(o, "candidate", Unit(o)).status \notin {"applying", "completed"}
    /\ OpenRecord(o, "candidate")
    /\ UNCHANGED <<registryAndPlans, prepared, budget>>

Preparing(o) == In(o, "prepare") /\ ExactRecord(o, "candidate", Unit(o)).status = "applying"
Candidate(o) == <<Unit(o), plan[o].candidate[Unit(o)]>>
Prior(o) == <<Unit(o), plan[o].prior[Unit(o)]>>

CommitPackage(o) ==
    /\ Preparing(o)
    /\ Checkpoint(Unit(o)) = 1
    /\ Registry(o, CommitReplays(Candidate(o)) \/ CommitStages(Candidate(o)),
                IF CommitReplays(Candidate(o)) THEN <<>> ELSE CommitWrites(Candidate(o)),
                {}, "reverse")

NextSurface(o) == Surfaces[Unit(o)][Checkpoint(Unit(o)) - 1]
ToPrepare(o) == Preparing(o) /\ Checkpoint(Unit(o)) \in 2 .. Prepared(Unit(o))

PrepareSurface(o) ==
    /\ ToPrepare(o)
    /\ prepared' = prepared \cup {<<Candidate(o), NextSurface(o)>>}
    /\ Pend(o)
    /\ UNCHANGED <<registryAndPlans, active, last, budget>>

\* The host may have done its work before it failed.
SurfaceFails(o) ==
    /\ ToPrepare(o)
    /\ Fault
    /\ prepared' \in {prepared, prepared \cup {<<Candidate(o), NextSurface(o)>>}}
    /\ IF NextSurface(o) \in Optional
       THEN RecordReceipt(Unit(o)) /\ UNCHANGED run
       ELSE Fails(o) /\ UNCHANGED active
    /\ UNCHANGED <<registryAndPlans, last>>

\* The journal learns of a checkpoint that was executed.
Record(o) ==
    /\ run[o].pending
    /\ RecordReceipt(Unit(o))
    /\ run' = [run EXCEPT ![o].pending = FALSE]
    /\ UNCHANGED <<registryAndPlans, last, prepared, budget>>

\* Every candidate stops short of its publication.
CandidateReady(o) ==
    /\ In(o, "prepare")
    /\ \/ ExactRecord(o, "candidate", Unit(o)).status = "completed"
       \/ Preparing(o) /\ Checkpoint(Unit(o)) > Prepared(Unit(o))
    /\ Advance(o)
    /\ UNCHANGED <<registryAndPlans, active, last, prepared, budget>>

\* One cutover for the closure: publish an install or upgrade, hide an uninstall.
Cutover(o) ==
    /\ run[o].stage \in {"publish", "hide"}
    /\ Registry(o, TransitionReplays(Transition(o)) \/ TransitionAdmitted(Transition(o)),
                IF o \in snapshot.cutovers THEN <<>> ELSE TransitionWrites(Transition(o)),
                {}, "cutover")

\* complete_graph_publication: the receipt, then the end of the record.
RecordPublication(o) ==
    /\ In(o, "record")
    /\ LET r == ExactRecord(o, "candidate", Unit(o))
       IN  CASE r.status = "completed" -> Advance(o) /\ UNCHANGED active
             [] r.status = "applying" /\ r.done = Prepared(Unit(o)) ->
                  RecordReceipt(Unit(o)) /\ UNCHANGED run
             [] r.status = "applying" /\ r.done > Prepared(Unit(o)) ->
                  SetStatus(Unit(o), "completed") /\ Advance(o)
             [] OTHER -> Fails(o) /\ UNCHANGED active
    /\ UNCHANGED <<registryAndPlans, last, prepared, budget>>

------------------------------------------------------------------------------
(* Retirement: hidden by the cutover, drained, taken apart in reverse.          *)

Finished(o) == ExactRecord(o, "retirement", Unit(o)).status = "completed"
Retiring(o, stage) ==
    In(o, stage) /\ Owned(active[Unit(o)], o, "retirement") /\ ~Finished(o)

BeginRetirement(o) ==
    /\ In(o, "hidden") \/ In(o, "drain") \/ In(o, "retire")
    /\ ~Finished(o) /\ ~Owned(active[Unit(o)], o, "retirement")
    /\ OpenRecord(o, "retirement")
    /\ UNCHANGED <<registryAndPlans, prepared, budget>>

\* record_graph_capability_hidden: the cutover is the receipt's evidence.
RecordHidden(o) ==
    /\ Retiring(o, "hidden")
    /\ IF Checkpoint(Unit(o)) = 1 THEN RecordReceipt(Unit(o)) ELSE UNCHANGED active
    /\ Advance(o)
    /\ UNCHANGED <<registryAndPlans, last, prepared, budget>>

\* A replaced generation is hidden now that nothing binds it.
RetireHidden(o) ==
    /\ Retiring(o, "drain")
    /\ Checkpoint(Unit(o)) = 1
    /\ Registry(o, RetireAdmitted(Prior(o)), RetireWrites(Prior(o)), {}, "none")

\* The lock is exclusive as soon as the last call lets go, or the wait times out.
Drain(o) ==
    /\ Retiring(o, "drain")
    /\ Checkpoint(Unit(o)) = 2
    /\ Registry(o, DrainAdmitted(Prior(o)) /\ Drained(Prior(o)), <<>>, {}, "none")

\* What is left of the package once its calls are drained.
RetirementReady(o) ==
    /\ \/ Retiring(o, "drain") /\ Checkpoint(Unit(o)) > 2
       \/ (In(o, "hidden") \/ In(o, "drain") \/ In(o, "retire")) /\ Finished(o)
    /\ Advance(o)
    /\ UNCHANGED <<registryAndPlans, active, last, prepared, budget>>

LastSurface(o) == Surfaces[Unit(o)][Len(Surfaces[Unit(o)]) - (Checkpoint(Unit(o)) - 3)]
ToRemove(o) ==
    Retiring(o, "retire") /\ Checkpoint(Unit(o)) \in 3 .. 2 + Len(Surfaces[Unit(o)])

RemoveSurface(o) ==
    /\ ToRemove(o)
    /\ prepared' = prepared \ {<<Prior(o), LastSurface(o)>>}
    /\ Pend(o)
    /\ UNCHANGED <<registryAndPlans, active, last, budget>>

RemovalFails(o) ==
    /\ ToRemove(o) \/ In(o, "surfaces")
    /\ Fault
    /\ Fails(o)
    /\ UNCHANGED <<registryAndPlans, active, last, prepared>>

RemovePackage(o) ==
    /\ Retiring(o, "retire")
    /\ Checkpoint(Unit(o)) = 3 + Len(Surfaces[Unit(o)])
    /\ Registry(o, RemoveAdmitted(Prior(o)) /\ Drained(Prior(o)), RemoveWrites(Prior(o)),
                {Prior(o)}, "none")

CompleteRetirement(o) ==
    /\ Retiring(o, "retire")
    /\ Checkpoint(Unit(o)) > 3 + Len(Surfaces[Unit(o)])
    /\ SetStatus(Unit(o), "completed")
    /\ Advance(o)
    /\ UNCHANGED <<registryAndPlans, last, prepared, budget>>

\* complete_lifecycle_cutover: the snapshot forgets the key.
Finish(o) ==
    /\ run[o].stage = "finish"
    /\ job.owner = {}
    /\ snapshot' = [snapshot EXCEPT !.cutovers = @ \ {o}]
    /\ outcome' = [outcome EXCEPT ![o] = "completed"]
    /\ run' = [run EXCEPT ![o] = Idle]
    /\ UNCHANGED <<receipt, retained, job, lease, plan, active, last, prepared, issued, budget>>

------------------------------------------------------------------------------
(* rollback_upgrade_candidates.                                                 *)

StartRollback(o) ==
    /\ In(o, "start_rollback")
    /\ LET status == ExactRecord(o, "candidate", Unit(o)).status
       IN  CASE status = "applying" -> SetStatus(Unit(o), "rollingback") /\ Advance(o)
             [] status \in {"rollingback", "rolledback"} -> Advance(o) /\ UNCHANGED active
             [] OTHER -> run' = [run EXCEPT ![o] = Idle] /\ UNCHANGED active
    /\ UNCHANGED <<registryAndPlans, last, prepared, budget>>

\* Mutant: only surfaces with a receipt.
AttemptedReceipts(p) == {Surfaces[p][i] : i \in {j \in DOMAIN Surfaces[p] : j < active[p].done}}

\* Surfaces with a receipt, and the next one: its host may have been faster than
\* the journal.
Attempted(p) == {Surfaces[p][i] : i \in {j \in DOMAIN Surfaces[p] : j <= active[p].done}}

RollbackSurfaces(o) ==
    /\ In(o, "surfaces")
    /\ prepared' = IF ExactRecord(o, "candidate", Unit(o)).status = "rolledback" THEN prepared
                   ELSE prepared \ {<<Candidate(o), s>> : s \in Attempted(Unit(o))}
    /\ Advance(o)
    /\ UNCHANGED <<registryAndPlans, active, last, budget>>

RollbackCandidates(o) ==
    /\ run[o].stage = "unregister"
    /\ LET t == [candidates |-> At(plan[o].candidate, run[o].units)]
       IN  Registry(o, RollbackAdmitted(t, plan[o].prior), RollbackWrites(t, plan[o].prior),
                    {}, "reverse")

CompleteRollback(o) ==
    /\ In(o, "rolled_back")
    /\ IF ExactRecord(o, "candidate", Unit(o)).status = "rolledback" THEN UNCHANGED active
       ELSE SetStatus(Unit(o), "rolledback")
    /\ IF Len(run[o].todo) > 1
       THEN run' = [run EXCEPT ![o].todo = Tail(@)] /\ UNCHANGED outcome
       ELSE /\ run' = [run EXCEPT ![o] = Idle]
            /\ outcome' = [outcome EXCEPT ![o] = "rolledback"]
    /\ UNCHANGED <<registry, plan, last, prepared, issued, budget>>

------------------------------------------------------------------------------

\* The host process dies: files stay, locks and everything in memory go.
Crash ==
    /\ budget.crashes > 0
    /\ \E o \in Op : run[o] # Idle
    /\ TornRemovals \/ job.undo # "cutover" \/ \A w \in ToSet(job.done) : w.file # "retained"
    /\ run' = [o \in Op |-> Idle]
    /\ job' = NoJob
    /\ budget' = [budget EXCEPT !.crashes = @ - 1]
    /\ UNCHANGED <<receipt, retained, snapshot, lease, plan, active, last, prepared, outcome,
                   issued>>

Caller(c) ==
    /\ Ask(c) \/ TakeLock(c) \/ Confirm(c) \/ Recheck(c) \/ Release(c)
    /\ UNCHANGED <<receipt, retained, snapshot, job, plan, active, last, prepared, run, outcome,
                   issued, budget>>

Coordinator(o) ==
    \/ Write(o) \/ BeginCandidate(o) \/ CommitPackage(o) \/ PrepareSurface(o) \/ Record(o)
    \/ CandidateReady(o) \/ Cutover(o) \/ RecordPublication(o)
    \/ BeginRetirement(o) \/ RecordHidden(o) \/ RetireHidden(o) \/ Drain(o) \/ RetirementReady(o)
    \/ RemoveSurface(o) \/ RemovePackage(o) \/ CompleteRetirement(o) \/ Finish(o)
    \/ StartRollback(o) \/ RollbackSurfaces(o) \/ RollbackCandidates(o) \/ CompleteRollback(o)

Faulty(o) == WriteFails(o) \/ SurfaceFails(o) \/ RemovalFails(o)

Next ==
    \/ \E o \in Op : Review(o) \/ Start(o) \/ Coordinator(o) \/ Faulty(o)
    \/ \E c \in Call : Caller(c)
    \/ Crash

Spec == Init /\ [][Next]_vars

\* The coordinator runs on, the caller replays what has not ended, and calls end.
FairSpec ==
    /\ Spec
    /\ \A o \in Op : WF_vars(Coordinator(o)) /\ WF_vars(outcome[o] = "none" /\ Start(o))
    /\ \A c \in Call : WF_vars(Caller(c))

------------------------------------------------------------------------------
(* Properties.                                                                  *)

Required(k) == {<<k, s>> : s \in ToSet(Surfaces[k[1]]) \ Optional}
Installed(k) == Visibility(k) # "none"

\* What is published, and what a caller leases, can be served: a receipt still
\* leads to its package and its required surfaces are at their hosts.
\* Preparation, cutover, drain and removal are steps of different actors, any of
\* which can be replayed.
Served ==
    \A k \in Published \cup UNION {lease[c].at : c \in {d \in Call : lease[d].held}} :
        Installed(k) /\ Required(k) \subseteq prepared

\* Published packages find their dependencies published, at every moment of a
\* cutover that replaces, adds and removes packages (registry snapshot commit
\* point of publish_lifecycle_packages_for_host_version).
GraphClosed == Closed(Published)

\* An operation that ended leaves nothing behind: rolled back, no receipt and no
\* surface of its candidates, not even one whose receipt was lost; completed,
\* nothing of what it retired.
EndsClean ==
    \A o \in Op : \A k \in Of(IF outcome[o] = "rolledback" THEN plan[o].candidate
                              ELSE IF outcome[o] = "completed" THEN plan[o].prior
                              ELSE NoPlan.prior) :
        ~Installed(k) /\ ~Binds(k) /\ \A s \in Surface : <<k, s>> \notin prepared

\* The published graph moves from one reviewed graph to the next in one step: no
\* write, failure, compensation, crash or rollback shows half an operation.
CutoverAtomic ==
    [][Published' # Published =>
         \E o \in Open : /\ o \notin snapshot.cutovers
                         /\ Published' = (Published \ Of(plan[o].prior)) \cup Of(plan[o].candidate)]_vars

\* acquire_published_snapshot never returns generations of different
\* publications: what it holds is exactly what is published when it returns.
LeaseIsOnePublication ==
    [][\A c \in Call : (~lease[c].held /\ lease[c].cursor # {} /\ lease'[c].held) =>
         lease[c].at = Published]_vars

\* The process died inside a cutover: a receipt is enabled that is not published.
Torn(o) ==
    job.owner = {} /\ \E k \in Of(plan[o].candidate) : Visibility(k) = "enabled" /\ k \notin Published

\* Every reviewed operation completes or is rolled back if its caller replays it,
\* whatever crash, failed write or failed host it met, unless the process died
\* between a cutover's receipts and its snapshot.
OperationsEnd == \A o \in Op : plan[o] # NoPlan ~> (outcome[o] # "none" \/ Torn(o))

================================================================================
