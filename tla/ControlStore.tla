------------------------------ MODULE ControlStore ------------------------------
(* The per-installation Control Store aggregate (src/src/control_store):        *)
(* reviewed operations, the installation generations they commit, the           *)
(* capability publication cursor and the typed effect outbox.  Every action is  *)
(* one immediate SQLite transaction of aggregate.rs or aggregate/dispatch.rs.   *)
(* A refused request and an exact replay change nothing and are stuttering      *)
(* steps.  Digests, grants and provider evidence are data no property tells     *)
(* apart; packages keep their releases, dependencies and surfaces.              *)
EXTENDS Integers, Sequences, FiniteSets

CONSTANTS
    Op,               \* operation IDs
    Plan,             \* the reviewed plans under study, records of PlanSet
    Package, Surface, \* package IDs and qualified surfaces
    SurfacePackage,   \* the package that declares each surface
    RequiredSurface,  \* surfaces the schedule marks required
    Executable,       \* tool and MCP surfaces, owned by a selected provider
    Depends,          \* Depends[p][r]: the packages release r of p depends on
    Order,            \* install order of packages, schedule order of surfaces
    MaxRelease,       \* releases of a package are 1..MaxRelease
    Token, NoToken,   \* claim tokens
    Installation,     \* the subject of a capability cutover
    MaxTime,          \* clocks read 1..MaxTime; 0 is SQL NULL
    MaxLease,         \* longest claim lease
    MaxDeferral,      \* longest deferral of a retry
    MaxAttempt        \* bound on claims of one effect

Lock == [Package -> 0 .. MaxRelease]
NoLock == [p \in Package |-> 0]
Action == {"install", "upgrade", "enable", "disable", "uninstall"}
PlanSet == [action : Action, root : Package, lock : Lock]

ASSUME OpAssumption == IsFiniteSet(Op)
ASSUME PlanAssumption == Plan \subseteq PlanSet
ASSUME PackageAssumption ==
    /\ IsFiniteSet(Package) /\ Package # {}
    /\ MaxRelease \in Nat \ {0}
    /\ Depends \in [Package -> [1 .. MaxRelease -> SUBSET Package]]
ASSUME SurfaceAssumption ==
    /\ SurfacePackage \in [Surface -> Package]
    /\ RequiredSurface \subseteq Surface
    /\ Executable \subseteq Surface
ASSUME OrderAssumption ==
    /\ Package \cap Surface = {}
    /\ Order \in [Package \cup Surface -> Nat]
    /\ \A x, y \in Package \cup Surface : Order[x] = Order[y] => x = y
    /\ \A s, t \in Surface :
         Order[SurfacePackage[s]] < Order[SurfacePackage[t]] => Order[s] < Order[t]
ASSUME TokenAssumption == NoToken \notin Token
ASSUME BoundAssumption ==
    /\ MaxTime \in Nat \ {0} /\ MaxLease \in Nat \ {0}
    /\ MaxDeferral \in Nat \ {0} /\ MaxAttempt \in Nat \ {0}

VARIABLES
    current,    \* control_installation.current_generation
    published,  \* control_installation.published_capability_generation
    op,         \* control_operation rows
    gen,        \* installation_generation and capability_generation rows
    outbox      \* effect_outbox rows

vars == <<current, published, op, gen, outbox>>

Time == 1 .. MaxTime

(* ------------------------------- effects ------------------------------- *)

Prepare(s) == [kind |-> "surface-prepare", subject |-> s]
Cutover == [kind |-> "capability-cutover", subject |-> Installation]
Drain(p) == [kind |-> "calls-drain", subject |-> p]
Stop(s) == [kind |-> "surface-stop", subject |-> s]
Remove(s) == [kind |-> "surface-remove", subject |-> s]

SurfaceKind == {"surface-prepare", "surface-stop", "surface-remove"}
EffectId == [kind : SurfaceKind, subject : Surface]
            \cup [kind : {"calls-drain"}, subject : Package]
            \cup {Cutover}

\* The package an effect acts on; the cutover acts on the whole installation.
EffectPackage(e) ==
    IF e.kind \in SurfaceKind THEN SurfacePackage[e.subject] ELSE e.subject

\* Only a preparation can be optional.
RequiredEffect(e) == e.kind = "surface-prepare" => e.subject \in RequiredSurface

Phase(e) == CASE e.kind = "surface-prepare" -> 1
              [] e.kind = "capability-cutover" -> 2
              [] e.kind = "calls-drain" -> 3
              [] e.kind = "surface-stop" -> 4
              [] e.kind = "surface-remove" -> 5

\* The outbox sequence: preparations in install order, the cutover, then drains
\* and retirements in removal order, which is the install order reversed.  One
\* operation stops or removes surfaces, never both.
Precedes(e, f) ==
    \/ Phase(e) < Phase(f)
    \/ /\ Phase(e) = Phase(f) /\ e # f
       /\ IF Phase(e) = 1 THEN Order[e.subject] < Order[f.subject]
                          ELSE Order[f.subject] < Order[e.subject]

EffectStatus ==
    {"none", "pending", "claimed", "deferred", "applied", "rejected", "unknown"}
Outcome == {"deferred", "applied", "rejected", "unknown"}
EffectRow == [status : EffectStatus, attempt : Nat, token : Token \cup {NoToken},
              lease : Nat, observedAt : Nat, retry : Nat]
FreshRow(status) == [status |-> status, attempt |-> 0, token |-> NoToken,
                     lease |-> 0, observedAt |-> 0, retry |-> 0]

\* An optional rejected preparation is finished, a required one is not.
Unfinished(o, e) ==
    /\ outbox[o][e].status \notin {"none", "applied"}
    /\ RequiredEffect(e) \/ outbox[o][e].status # "rejected"

CutoverApplied(o) == outbox[o][Cutover].status = "applied"

(* --------------------------- rows and snapshots --------------------------- *)

OpStatus ==
    {"absent", "reviewed", "cancelled", "effects-pending", "rejected", "completed"}
OpRow == [status : OpStatus, plan : PlanSet, expected : Nat, expectedCap : Nat,
          reviewedAt : Nat, committedAt : Nat, completedAt : Nat]
PublicationState == {"candidate", "published", "retired", "abandoned"}
\* life[p] = 0 says that the snapshot does not select package p.
Snapshot == [roots : [Package -> Lock], release : Lock, life : [Package -> Nat],
             stateGen : [Package -> Nat], enabled : SUBSET Package]
GenRow == [op : Op, snapshot : Snapshot, cap : Nat,
           state : PublicationState, publishedAt : Nat]

EmptySnapshot == [roots |-> [p \in Package |-> NoLock], release |-> NoLock,
                  life |-> [p \in Package |-> 0],
                  stateGen |-> [p \in Package |-> 0], enabled |-> {}]

SnapshotAt(g) == IF g = 0 THEN EmptySnapshot ELSE gen[g].snapshot

Target(o) == op[o].expected + 1
TargetCap(o) == op[o].expectedCap + 1
Committed(o) == op[o].status \in {"effects-pending", "rejected", "completed"}

(* ------------------------------- projection ------------------------------- *)

\* A resolved lock holds its root, the dependencies of what it holds, nothing else.
ValidLock(root, lock) ==
    /\ lock[root] # 0
    /\ \A p \in Package : lock[p] # 0 =>
         /\ \A q \in Depends[p][lock[p]] : lock[q] # 0
         /\ p # root => \E q \in Package \ {p} : lock[q] # 0 /\ p \in Depends[q][lock[q]]

\* graph_roots_after: the root locks the plan leaves.
RootsAfter(prior, plan) ==
    CASE plan.action \in {"install", "upgrade"} ->
           [prior.roots EXCEPT ![plan.root] = plan.lock]
      [] plan.action = "uninstall" -> [prior.roots EXCEPT ![plan.root] = NoLock]
      [] OTHER -> prior.roots

\* packages_from_roots: two roots may not select different releases of a package.
RootsAgree(roots) ==
    \A r1, r2, p \in Package :
        roots[r1][p] # 0 /\ roots[r2][p] # 0 => roots[r1][p] = roots[r2][p]

ReleaseOf(roots) ==
    [p \in Package |->
        LET releases == {roots[r][p] : r \in Package} \ {0}
        IN  IF releases = {} THEN 0 ELSE CHOOSE r \in releases : TRUE]

\* Packages the target adds or replaces, and packages it replaces or removes.
ChangedIn(prior, release) ==
    {p \in Package : release[p] # 0 /\ release[p] # prior.release[p]}
RetiredIn(prior, release) ==
    {p \in Package : prior.release[p] # 0 /\ release[p] # prior.release[p]}

\* Identities of one package allocated in install order after the last ones.
AllocateLifecycle(last, changed, p) ==
    last + Cardinality({q \in changed : Order[q] <= Order[p]})

\* project_graph: changed packages get fresh identities and are enabled, the
\* others keep theirs.
ProjectGraph(prior, plan, last, lastState) ==
    LET roots == RootsAfter(prior, plan)
        release == ReleaseOf(roots)
        changed == ChangedIn(prior, release)
    IN  [roots |-> roots,
         release |-> release,
         life |-> [p \in Package |->
             IF p \in changed THEN AllocateLifecycle(last, changed, p)
             ELSE IF release[p] # 0 THEN prior.life[p] ELSE 0],
         stateGen |-> [p \in Package |->
             IF p \in changed THEN lastState[p] + 1
             ELSE IF release[p] # 0 THEN prior.stateGen[p] ELSE 0],
         enabled |-> {p \in Package :
             release[p] # 0 /\ (p \in changed \/ p \in prior.enabled)}]

\* project_enablement: only the root's flag and state generation change.
ProjectEnablement(prior, plan) ==
    [prior EXCEPT
        !.stateGen = [prior.stateGen EXCEPT ![plan.root] = prior.stateGen[plan.root] + 1],
        !.enabled = IF plan.action = "enable" THEN prior.enabled \cup {plan.root}
                                              ELSE prior.enabled \ {plan.root}]

ProjectSnapshot(prior, plan, last, lastState) ==
    IF plan.action \in {"enable", "disable"}
    THEN ProjectEnablement(prior, plan)
    ELSE ProjectGraph(prior, plan, last, lastState)

\* The root's own change is the one its action names.
RootTransition(prior, plan, target) ==
    LET root == plan.root
        isRoot == prior.roots[root] # NoLock
    IN  CASE plan.action = "install" -> ~isRoot /\ prior.release[root] = 0
          [] plan.action = "upgrade" ->
               isRoot /\ target.release[root] # prior.release[root]
          [] plan.action = "uninstall" -> isRoot /\ target.release[root] = 0
          [] plan.action = "enable" -> isRoot /\ root \notin prior.enabled
          [] plan.action = "disable" -> isRoot /\ root \in prior.enabled

\* InstallationSnapshot::validate: enabled packages need enabled dependencies.
DependenciesEnabled(snapshot) ==
    \A p \in snapshot.enabled :
        Depends[p][snapshot.release[p]] \subseteq snapshot.enabled

PreparedPackages(prior, plan, target) ==
    IF plan.action = "enable" THEN {plan.root}
    ELSE IF plan.action \in {"install", "upgrade"}
    THEN ChangedIn(prior, target.release) ELSE {}

\* Mutant: an upgrade leaves what it replaces behind.
UpgradeWithoutRetire(prior, plan, target) ==
    IF plan.action = "disable" THEN {plan.root}
    ELSE IF plan.action = "uninstall" THEN RetiredIn(prior, target.release) ELSE {}

RetiredPackages(prior, plan, target) ==
    IF plan.action = "disable" THEN {plan.root}
    ELSE IF plan.action \in {"upgrade", "uninstall"}
    THEN RetiredIn(prior, target.release) ELSE {}

SurfacesOf(packages) == {s \in Surface : SurfacePackage[s] \in packages}

\* project_effects: the effect inventory of a transition.
ProjectEffects(prior, plan, target) ==
    LET retired == RetiredPackages(prior, plan, target)
    IN  {Prepare(s) : s \in SurfacesOf(PreparedPackages(prior, plan, target))}
        \cup {Cutover}
        \cup {Drain(p) : p \in retired}
        \cup {IF plan.action = "disable" THEN Stop(s) ELSE Remove(s) :
                s \in SurfacesOf(retired)}

\* surface_owner: provider selections survive only for enabled packages, so an
\* executable surface of a disabled package has no owner to retire it.
OwnersSelected(prior, plan, target) ==
    \A s \in SurfacesOf(RetiredPackages(prior, plan, target)) \cap Executable :
        SurfacePackage[s] \in prior.enabled

Projectable(prior, plan, target) ==
    /\ plan.action \in {"install", "upgrade"} => ValidLock(plan.root, plan.lock)
    /\ RootsAgree(target.roots)
    /\ RootTransition(prior, plan, target)
    /\ DependenciesEnabled(target)
    /\ OwnersSelected(prior, plan, target)

\* Mutant: only the prior generation is consulted, not the whole history.
PriorLifecycleNumbers(g) ==
    {0} \cup IF g = 0 THEN {} ELSE {gen[g].snapshot.life[p] : p \in Package}

\* read_projection_history: the greatest lifecycle number of the installation and
\* the greatest state generation of each package, over all generations so far.
LifecycleNumbers(g) ==
    {0} \cup {gen[h].snapshot.life[p] : h \in 1 .. g, p \in Package}
StateNumbers(g, p) == {0} \cup {gen[h].snapshot.stateGen[p] : h \in 1 .. g}
IsGreatest(n, S) == n \in S /\ \A m \in S : m <= n

\* validate_prior: the prior generation agrees with that history.
PriorMatchesHistory(prior, last, lastState) ==
    \A p \in Package : prior.release[p] # 0 =>
        /\ prior.life[p] \in 1 .. last
        /\ prior.stateGen[p] = lastState[p]

(* -------------------------------- operations ------------------------------ *)

Init ==
    /\ current = 0
    /\ published = 0
    /\ op = [o \in Op |-> [status |-> "absent",
                           plan |-> [action |-> "install", root |-> CHOOSE p \in Package : TRUE,
                                     lock |-> NoLock],
                           expected |-> 0, expectedCap |-> 0,
                           reviewedAt |-> 0, committedAt |-> 0, completedAt |-> 0]]
    /\ gen = <<>>
    /\ outbox = [o \in Op |-> [e \in EffectId |-> FreshRow("none")]]

RegisterOperation(o, plan, at) ==
    /\ op[o].status = "absent"
    /\ op' = [op EXCEPT ![o] = [status |-> "reviewed", plan |-> plan,
                                expected |-> current, expectedCap |-> published,
                                reviewedAt |-> at, committedAt |-> 0, completedAt |-> 0]]
    /\ UNCHANGED <<current, published, gen, outbox>>

CancelOperation(o, at) ==
    /\ op[o].status = "reviewed"
    /\ op[o].reviewedAt <= at
    /\ op' = [op EXCEPT ![o] = [@ EXCEPT !.status = "cancelled", !.completedAt = at]]
    /\ UNCHANGED <<current, published, gen, outbox>>

\* Mutant: the commit compares the generation cursor only.
GenerationExpected(o) == current = op[o].expected

CursorsExpected(o) == current = op[o].expected /\ published = op[o].expectedCap

\* Mutant: the commit does not look for an effects-pending operation.
IgnoreOtherPending(o) == TRUE

NoOtherPending(o) == \A q \in Op \ {o} : op[q].status # "effects-pending"

\* insert_generation: the generation, its candidate capability and its outbox.
InsertGeneration(o, target, effects) ==
    /\ gen' = Append(gen, [op |-> o, snapshot |-> target, cap |-> TargetCap(o),
                           state |-> "candidate", publishedAt |-> 0])
    /\ outbox' = [outbox EXCEPT ![o] = [e \in EffectId |->
                     FreshRow(IF e \in effects THEN "pending" ELSE "none")]]

CommitTransition(o, at) ==
    /\ op[o].status = "reviewed"
    /\ op[o].reviewedAt <= at
    /\ CursorsExpected(o)
    /\ NoOtherPending(o)
    /\ LET prior == SnapshotAt(op[o].expected)
           plan == op[o].plan
       IN  \E last \in LifecycleNumbers(op[o].expected) :
           \E lastState \in [Package -> UNION {StateNumbers(op[o].expected, p) : p \in Package}] :
             LET target == ProjectSnapshot(prior, plan, last, lastState)
             IN  /\ IsGreatest(last, LifecycleNumbers(op[o].expected))
                 /\ \A p \in Package :
                      IsGreatest(lastState[p], StateNumbers(op[o].expected, p))
                 /\ PriorMatchesHistory(prior, last, lastState)
                 /\ Projectable(prior, plan, target)
                 /\ InsertGeneration(o, target, ProjectEffects(prior, plan, target))
    /\ current' = Target(o)
    /\ op' = [op EXCEPT ![o] = [@ EXCEPT !.status = "effects-pending", !.committedAt = at]]
    /\ UNCHANGED published

(* ------------------------------ effect dispatch --------------------------- *)

\* The generation an effect names: the target for preparations and the cutover,
\* the prior one for what is retired.
EffectGeneration(o, e) == IF Phase(e) <= 2 THEN Target(o) ELSE op[o].expected
EffectLife(o, e) == SnapshotAt(EffectGeneration(o, e)).life[EffectPackage(e)]

\* Outbox rows of surface s of incarnation life up to the cutover of operation o.
SurfaceHistory(o, life, s) ==
    {row \in [op : Op, effect : {Prepare(s), Stop(s), Remove(s)}] :
        /\ Committed(row.op) /\ outbox[row.op][row.effect].status # "none"
        /\ EffectLife(row.op, row.effect) = life
        /\ Target(row.op) <= Target(o)
        /\ row.op = o => Precedes(row.effect, Cutover)}

\* Mutant: the cutover does not look at what was prepared.
MaterializedUnchecked(o) == TRUE

\* materializations_for: the latest effect on every surface of every enabled
\* package is a terminal preparation, and a required one was applied.
Materialized(o) ==
    LET target == SnapshotAt(Target(o))
    IN  \A s \in SurfacesOf(target.enabled) :
          LET history == SurfaceHistory(o, target.life[SurfacePackage[s]], s)
          IN  \E row \in history :
                /\ \A other \in history : Target(other.op) <= Target(row.op)
                /\ row.effect = Prepare(s)
                /\ \/ outbox[row.op][row.effect].status = "applied"
                   \/ /\ outbox[row.op][row.effect].status = "rejected"
                      /\ s \notin RequiredSurface

\* derive_claim_authority: a cutover needs a candidate generation whose surfaces
\* are materialized; a preparation needs its package enabled.
ClaimAuthority(o, e) ==
    CASE e = Cutover -> gen[Target(o)].state = "candidate" /\ Materialized(o)
      [] e.kind = "surface-prepare" ->
           EffectPackage(e) \in SnapshotAt(Target(o)).enabled
      [] OTHER -> TRUE

NextUnfinished(o, e) ==
    Unfinished(o, e) /\ \A f \in EffectId : Unfinished(o, f) => ~Precedes(f, e)

\* Which states of an effect a claim may take over.
Claimable(row, now, explicit) ==
    \/ row.status = "pending"
    \/ row.status = "deferred" /\ row.retry <= now
    \/ explicit /\ row.status = "claimed" /\ row.lease < now
    \/ explicit /\ row.status \in {"unknown", "rejected"}

\* effect_outbox.claim_token is UNIQUE: no other row may hold it.
TokenFree(o, e, t) ==
    \A q \in Op, f \in EffectId : outbox[q][f].token = t => q = o /\ f = e

ClaimReady(o, e, now, explicit) ==
    /\ op[o].status = "effects-pending"
    /\ NextUnfinished(o, e)
    /\ Claimable(outbox[o][e], now, explicit)
    /\ outbox[o][e].attempt < MaxAttempt
    /\ ClaimAuthority(o, e)

ClaimNextEffect(o, e, t, now, lease, explicit) ==
    /\ ClaimReady(o, e, now, explicit)
    /\ TokenFree(o, e, t)
    /\ outbox' = [outbox EXCEPT ![o][e] =
                    [status |-> "claimed", attempt |-> outbox[o][e].attempt + 1,
                     token |-> t, lease |-> lease, observedAt |-> 0, retry |-> 0]]
    /\ UNCHANGED <<current, published, op, gen>>

\* Mutant: the prior publication is not retired.
CutoverRowKeepsPrior(o, g, at) ==
    IF g = Target(o) THEN [gen[g] EXCEPT !.state = "published", !.publishedAt = at]
    ELSE gen[g]

PublishedAs(cap) ==
    {g \in 1 .. Len(gen) : gen[g].cap = cap /\ gen[g].state = "published"}

\* The capability row of generation g after the cutover.
CutoverRow(o, g, at) ==
    IF g = Target(o) THEN [gen[g] EXCEPT !.state = "published", !.publishedAt = at]
    ELSE IF op[o].expectedCap > 0 /\ g \in PublishedAs(op[o].expectedCap)
    THEN [gen[g] EXCEPT !.state = "retired"]
    ELSE gen[g]

\* publish_capability_cutover: exactly one row is retired (when there was a
\* publication), exactly the candidate is published, and the cursor moves.
PublishCapabilityCutover(o, at) ==
    /\ op[o].expectedCap > 0 =>
         \E g \in PublishedAs(op[o].expectedCap) : PublishedAs(op[o].expectedCap) = {g}
    /\ gen[Target(o)].cap = TargetCap(o) /\ gen[Target(o)].state = "candidate"
    /\ current = Target(o) /\ published = op[o].expectedCap
    /\ published' = TargetCap(o)
    /\ gen' = [g \in 1 .. Len(gen) |-> CutoverRow(o, g, at)]
    /\ UNCHANGED op

\* A required rejection before the cutover ends the operation; the generation
\* stays current and its candidate capability is abandoned.
RejectOperation(o, at) ==
    /\ op' = IF op[o].status = "effects-pending"
             THEN [op EXCEPT ![o] = [@ EXCEPT !.status = "rejected", !.completedAt = at]]
             ELSE op
    /\ gen' = IF gen[Target(o)].state = "candidate"
              THEN [gen EXCEPT ![Target(o)] = [@ EXCEPT !.state = "abandoned"]]
              ELSE gen
    /\ UNCHANGED published

OwnsLease(row, t, at) == row.status = "claimed" /\ row.token = t /\ at <= row.lease

\* Mutant: earlier observations of the operation are not consulted.
ObservationAfterCommit(o, e, at) == op[o].committedAt <= at

ObservationInOrder(o, e, at) ==
    /\ op[o].committedAt <= at
    /\ \A f \in EffectId : Precedes(f, e) => outbox[o][f].observedAt <= at

RecordEffectObservation(o, e, t, outcome, at, retry) ==
    /\ OwnsLease(outbox[o][e], t, at)
    /\ ObservationInOrder(o, e, at)
    /\ outbox' = [outbox EXCEPT ![o][e] =
                    [@ EXCEPT !.status = outcome, !.observedAt = at, !.retry = retry]]
    /\ CASE outcome = "applied" /\ e = Cutover -> PublishCapabilityCutover(o, at)
         [] outcome = "rejected" /\ RequiredEffect(e) /\ ~CutoverApplied(o) ->
              RejectOperation(o, at)
         [] OTHER -> UNCHANGED <<op, gen, published>>
    /\ UNCHANGED current

CompleteOperation(o, at) ==
    /\ op[o].status = "effects-pending"
    /\ op[o].committedAt <= at
    /\ \A e \in EffectId : ~Unfinished(o, e) /\ outbox[o][e].observedAt <= at
    /\ gen[Target(o)].cap = TargetCap(o) /\ gen[Target(o)].state = "published"
    /\ published = TargetCap(o)
    /\ gen[Target(o)].publishedAt \in 1 .. at
    /\ op' = [op EXCEPT ![o] = [@ EXCEPT !.status = "completed", !.completedAt = at]]
    /\ UNCHANGED <<current, published, gen, outbox>>

Register == \E o \in Op, plan \in Plan, at \in Time : RegisterOperation(o, plan, at)
Cancel == \E o \in Op, at \in Time : CancelOperation(o, at)
Commit == \E o \in Op, at \in Time : CommitTransition(o, at)
Claim == \E o \in Op, e \in EffectId, now \in Time, explicit \in BOOLEAN :
            /\ ClaimReady(o, e, now, explicit)
            /\ \E t \in Token, lease \in now + 1 .. now + MaxLease :
                 ClaimNextEffect(o, e, t, now, lease, explicit)
\* An observation under any other token is refused.
Record == \E o \in Op, e \in EffectId, at \in Time :
            \/ \E outcome \in Outcome \ {"deferred"} :
                 RecordEffectObservation(o, e, outbox[o][e].token, outcome, at, 0)
            \/ \E retry \in at + 1 .. at + MaxDeferral :
                 RecordEffectObservation(o, e, outbox[o][e].token, "deferred", at, retry)
Complete == \E o \in Op, at \in Time : CompleteOperation(o, at)

\* The store's step: one immediate transaction of one of its operations.
Next == Register \/ Cancel \/ Commit \/ Claim \/ Record \/ Complete

Spec == Init /\ [][Next]_vars

(* ------------------------------- properties ------------------------------- *)

\* Every row stays within the schema's types, and there is one generation row per
\* value of the generation cursor (control_installation, schema/definition.rs).
TypeOK ==
    /\ current \in Nat /\ published \in Nat
    /\ op \in [Op -> OpRow]
    /\ gen \in Seq(GenRow) /\ Len(gen) = current
    /\ outbox \in [Op -> [EffectId -> EffectRow]]

\* effects_pending_operation promises that "Control admits at most one
\* EffectsPending transition": no two operations own external effects at once.
SinglePending ==
    \A o, q \in Op :
        op[o].status = "effects-pending" /\ op[q].status = "effects-pending" => o = q

\* The cursor and the capability rows never disagree: with a cursor of 0 nothing
\* is published, otherwise exactly one generation is, under the cursor's number.
PublicationMatchesCursor ==
    /\ \A g \in 1 .. Len(gen) : gen[g].state = "published" => gen[g].cap = published
    /\ \A g, h \in 1 .. Len(gen) :
         gen[g].state = "published" /\ gen[h].state = "published" => g = h
    /\ published > 0 => \E g \in 1 .. Len(gen) : gen[g].state = "published"

\* The state of a generation's capability is the one its operation earned.
EarnedState(o, state) ==
    CASE op[o].status = "rejected" -> state = "abandoned"
      [] op[o].status = "completed" -> state \in {"published", "retired"}
      [] op[o].status = "effects-pending" ->
           /\ Target(o) = current
           /\ IF CutoverApplied(o) THEN state = "published" /\ published = TargetCap(o)
              ELSE state = "candidate" /\ published = op[o].expectedCap

\* An operation and the generation it committed agree through every commit,
\* cutover, rejection and completion; no candidate outlives its operation.
OperationOwnsGeneration ==
    /\ \A o \in Op : Committed(o) =>
         /\ Target(o) \in 1 .. Len(gen)
         /\ gen[Target(o)].op = o /\ gen[Target(o)].cap = TargetCap(o)
         /\ EarnedState(o, gen[Target(o)].state)
    /\ \A g \in 1 .. Len(gen) : Committed(gen[g].op) /\ Target(gen[g].op) = g

\* The dispatcher works through the outbox strictly in sequence: while an effect
\* has been started, nothing before it is still unfinished.
EffectsInSequence ==
    \A o \in Op : \A e, f \in EffectId :
        outbox[o][e].status \notin {"none", "pending"} /\ Precedes(f, e)
            => ~Unfinished(o, f)

\* A cutover the owner has been asked to perform can always be recorded: none of
\* the row counts of publish_capability_cutover can fail while it is claimed.
ClaimedCutoverCanPublish ==
    \A o \in Op : outbox[o][Cutover].status = "claimed" =>
        /\ op[o].expectedCap > 0 =>
             \E g \in 1 .. Len(gen) :
                 gen[g].cap = op[o].expectedCap /\ gen[g].state = "published"
        /\ gen[Target(o)].cap = TargetCap(o) /\ gen[Target(o)].state = "candidate"
        /\ current = Target(o) /\ published = op[o].expectedCap

\* Only a committed operation has outbox rows, and only the effects-pending one
\* has a claimed effect: record_effect_observation, which does not look at the
\* operation's status, can never change a terminal operation.
OutboxOwned ==
    \A o \in Op : \A e \in EffectId :
        /\ outbox[o][e].status # "none" => Committed(o)
        /\ outbox[o][e].status = "claimed" => op[o].status = "effects-pending"

\* The inductive invariant: the rows that one transaction writes and another
\* reads never disagree.  "Control admits at most one EffectsPending transition"
\* carries the rest: cursors and capability rows, operations and generations, and
\* the outbox, whose sequence the dispatcher relies on.
Consistent ==
    /\ TypeOK
    /\ SinglePending
    /\ PublicationMatchesCursor
    /\ OperationOwnsGeneration
    /\ EffectsInSequence
    /\ OutboxOwned

Started(o, e) == outbox[o][e].status \notin {"none", "pending"}

PublishedGenerations == {g \in 1 .. Len(gen) : gen[g].state = "published"}

\* What is published really runs: every surface of every enabled package of the
\* published generation has an applied preparation (or an optional rejected one)
\* of that incarnation, and no later stop or removal of it has been started.
PublishedSurfacesPrepared ==
    \A g \in PublishedGenerations :
        LET snapshot == gen[g].snapshot
        IN  \A s \in SurfacesOf(snapshot.enabled) :
              LET life == snapshot.life[SurfacePackage[s]]
              IN  \E q \in Op :
                    /\ Committed(q) /\ EffectLife(q, Prepare(s)) = life
                    /\ \/ outbox[q][Prepare(s)].status = "applied"
                       \/ outbox[q][Prepare(s)].status = "rejected" /\ s \notin RequiredSurface
                    /\ \A r \in Op : Committed(r) /\ Target(r) > Target(q) =>
                         \A e \in {Stop(s), Remove(s)} :
                             Started(r, e) => EffectLife(r, e) # life

\* "removal followed by reinstall without reusing lifecycle identity" (ADR-003):
\* an incarnation number belongs to one release of one package, and once a
\* generation no longer selects it no later generation selects it again.
LifecycleNeverReused ==
    \A g, h \in 1 .. Len(gen) : \A p, q \in Package :
        LET G == gen[g].snapshot
            H == gen[h].snapshot
        IN  (g <= h /\ G.life[p] # 0 /\ G.life[p] = H.life[q]) =>
              /\ p = q /\ G.release[p] = H.release[p]
              /\ \A k \in g .. h : gen[k].snapshot.life[p] = G.life[p]

\* A package's state generation never goes back, not across an uninstall either,
\* and the same number always stands for the same incarnation and enablement.
StateGenerationMonotone ==
    \A g, h \in 1 .. Len(gen) : \A p \in Package :
        LET G == gen[g].snapshot
            H == gen[h].snapshot
        IN  (g <= h /\ G.life[p] # 0 /\ H.life[p] # 0) =>
              /\ G.stateGen[p] <= H.stateGen[p]
              /\ G.stateGen[p] = H.stateGen[p] =>
                   G.life[p] = H.life[p] /\ (p \in G.enabled <=> p \in H.enabled)

\* Neither number of an incarnation, the lifecycle generation nor the state
\* generation, ever comes back: not after an uninstall, a reinstall or a candidate
\* that was abandoned.
IncarnationsNeverReused == LifecycleNeverReused /\ StateGenerationMonotone

\* "Event timestamps remain ordered as transition commit, provider observations,
\* then terminal operation completion" (ADR-003), whatever clocks callers read.
EventTimesOrdered ==
    \A o \in Op : Committed(o) =>
        /\ op[o].reviewedAt <= op[o].committedAt
        /\ \A e \in EffectId : outbox[o][e].observedAt # 0 =>
             /\ op[o].committedAt <= outbox[o][e].observedAt
             /\ op[o].completedAt # 0 => outbox[o][e].observedAt <= op[o].completedAt
             /\ \A f \in EffectId : Precedes(f, e) =>
                  outbox[o][f].observedAt <= outbox[o][e].observedAt
        /\ gen[Target(o)].state \in {"published", "retired"} =>
             gen[Target(o)].publishedAt = outbox[o][Cutover].observedAt

\* An incarnation whose surface was prepared is selected by the current or the
\* published generation, or its removal is done or still due in the outbox.
Accounted(o, s) ==
    LET life == EffectLife(o, Prepare(s))
        p == SurfacePackage[s]
    IN  \/ SnapshotAt(current).life[p] = life
        \/ \E g \in PublishedGenerations : gen[g].snapshot.life[p] = life
        \/ \E r \in Op : /\ op[r].status \in {"effects-pending", "completed"}
                         /\ outbox[r][Remove(s)].status # "none"
                         /\ EffectLife(r, Remove(s)) = life

NoRejection == \A o \in Op : op[o].status # "rejected"

\* "Upgrade prepares the candidate, cuts over, drains prior calls, and removes
\* prior surfaces" (ADR-003): no prepared incarnation is ever forgotten.
NoOrphanedSurface ==
    \A o \in Op, s \in Surface :
        Committed(o) /\ outbox[o][Prepare(s)].status = "applied" => Accounted(o, s)

\* materializations_for reports corruption when a target surface has no terminal
\* preparation: a store that only ran its own operations never meets that error.
CutoverAuthorityDerivable ==
    \A o \in Op :
        op[o].status = "effects-pending" /\ NextUnfinished(o, Cutover)
            => ClaimAuthority(o, Cutover)

\* As long as no operation is rejected, the outbox rows of all earlier operations
\* account for every prepared incarnation and let every cutover be claimed.
SoundWithoutRejection == NoRejection => NoOrphanedSurface /\ CutoverAuthorityDerivable

(* ------------------------------- refinement ------------------------------- *)

EffectsPending == {o \in Op : op[o].status = "effects-pending"}

LedgerPhase ==
    IF EffectsPending = {} THEN "idle"
    ELSE IF \E o \in EffectsPending : CutoverApplied(o) THEN "retiring" ELSE "preparing"

\* The store as the ledger its readers see: which generation is desired, which
\* one is visible, and how far the one transition in progress has come.
Ledger == INSTANCE GenerationLedger WITH
    desired <- current,
    serial <- published,
    visible <- PublishedGenerations,
    phase <- LedgerPhase

\* The outbox, claims, leases and replays implement the ledger: readers see one
\* whole generation at a time, and only ones that were committed and cut over.
ImplementsLedger == Ledger!Spec
=============================================================================
