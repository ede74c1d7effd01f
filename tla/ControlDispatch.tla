---------------------------- MODULE ControlDispatch ----------------------------
(* The production lifecycle over the Control Store (production.rs) and the      *)
(* dispatcher it drives (dispatcher/mod.rs): processes that apply or resume an  *)
(* operation, claim one effect in one transaction, call its owner outside of    *)
(* any, and record the outcome in a second one.  Two processes may do so at     *)
(* once, since both only hold the shared maintenance fence; a process may die   *)
(* between any two steps, and a call that outlives its deadline goes on alone.  *)
EXTENDS ControlStore, FiniteSetsExt

CONSTANTS
    Worker,            \* processes with a production lifecycle
    MaxIterations,     \* MAX_EFFECT_DISPATCH_ITERATIONS
    MaxStreak,         \* MAX_DEFERRED_STREAK
    MaxCrashes,        \* how many processes die
    MaxDeferrals,      \* how often owners defer
    MaxClock,          \* the latest time a clock shows without a job that sleeps
    Faulty             \* owners may also reject, fail or miss the deadline, and
                       \* clocks may be set back

ASSUME DispatchAssumption ==
    /\ IsFiniteSet(Worker)
    /\ MaxIterations \in Nat /\ MaxStreak \in Nat
    /\ MaxCrashes \in Nat /\ MaxDeferrals \in Nat /\ MaxClock \in Nat
    /\ Faulty \in BOOLEAN

VARIABLES
    job,        \* what each process is doing
    calls,      \* owner calls in flight: [worker, op, effect]
    performed,  \* [Op -> the effects that really happened at their owners]
    clock,
    crashes, deferrals

drain == <<job, calls, performed, clock, crashes, deferrals>>
allVars == <<vars, drain>>


\* The token of the production drain: the operation and the turn of the loop.
DrainToken(o, sequence) == <<o, sequence>>

NoJob == [step |-> "idle", op |-> CHOOSE o \in Op : TRUE, drains |-> CHOOSE o \in Op : TRUE,
          plan |-> CHOOSE p \in Plan : TRUE, expected |-> <<0, 0>>,
          sequence |-> 0, streak |-> 0, effect |-> Cutover, outcome |-> "applied"]
JobStep == {"idle", "inspect", "register", "commit", "claim", "call", "record", "next", "complete"}
Job == [step : JobStep, op : Op, drains : Op, plan : Plan, expected : Nat \X Nat,
        sequence : Nat, streak : Nat, effect : EffectId, outcome : Outcome]

InitDispatch ==
    /\ Init
    /\ job = [w \in Worker |-> NoJob]
    /\ calls = {}
    /\ performed = [o \in Op |-> {}]
    /\ clock = 1
    /\ crashes = 0
    /\ deferrals = 0

Goto(w, step) == job' = [job EXCEPT ![w] = [@ EXCEPT !.step = step]]
Fail(w) == job' = [job EXCEPT ![w] = NoJob]

Pending == {o \in Op : op[o].status = "effects-pending"}

------------------------------------------------------------------------------
(* apply_reviewed_operation and resume_pending_effects.                         *)

StartDrain(w, o) ==
    job' = [job EXCEPT ![w] =
               [@ EXCEPT !.step = "claim", !.drains = o, !.sequence = 0, !.streak = 0]]

\* A caller applies a reviewed plan, or one it applied before.
Apply(w, o, plan) ==
    /\ job[w].step = "idle"
    /\ op[o].status # "absent" => op[o].plan = plan
    /\ job' = [job EXCEPT ![w] =
                 [NoJob EXCEPT !.step = "inspect", !.op = o, !.plan = plan,
                               !.expected = <<current, published>>]]
    /\ UNCHANGED <<vars, calls, performed, clock, crashes, deferrals>>

\* Another operation's abandoned effects come first.
Inspect(w) ==
    /\ job[w].step = "inspect"
    /\ IF Pending \ {job[w].op} = {} THEN Goto(w, "register")
       ELSE \E o \in Pending \ {job[w].op} : StartDrain(w, o)
    /\ UNCHANGED <<vars, calls, performed, clock, crashes, deferrals>>

\* An exact replay of the registration changes nothing.
RegisterReviewed(w) ==
    LET o == job[w].op
    IN  /\ job[w].step = "register"
        /\ IF op[o].status = "absent" /\ job[w].expected = <<current, published>>
             THEN RegisterOperation(o, job[w].plan, clock) /\ Goto(w, "commit")
             ELSE /\ IF op[o].status = "absent" THEN Fail(w) ELSE Goto(w, "commit")
                  /\ UNCHANGED vars
        /\ UNCHANGED <<calls, performed, clock, crashes, deferrals>>

\* project_transition refuses an operation that is no longer merely reviewed.
CommitReviewed(w) ==
    /\ job[w].step = "commit"
    /\ CommitTransition(job[w].op, clock)
    /\ StartDrain(w, job[w].op)
    /\ UNCHANGED <<calls, performed, clock, crashes, deferrals>>

\* The commit can fail for any reason of its own: the status, a moved cursor, the
\* projection, a missing Runtime plan.
CommitRefused(w) ==
    /\ job[w].step = "commit"
    /\ Fail(w)
    /\ UNCHANGED <<vars, calls, performed, clock, crashes, deferrals>>

Resume(w) ==
    /\ job[w].step = "idle"
    /\ \E o \in Pending :
         job' = [job EXCEPT ![w] = [NoJob EXCEPT !.step = "claim", !.op = o, !.drains = o]]
    /\ UNCHANGED <<vars, calls, performed, clock, crashes, deferrals>>

------------------------------------------------------------------------------
(* drain_effects over dispatch_under_maintenance.                               *)

Due(o) == {e \in EffectId : NextUnfinished(o, e)}

\* claim_next_effect returns nothing: no work, a deferral that is not due yet, or
\* a claim whose lease still runs.
Nothing(o) ==
    \A e \in Due(o) :
        \/ outbox[o][e].status = "deferred" /\ clock < outbox[o][e].retry
        \/ outbox[o][e].status = "claimed" /\ clock <= outbox[o][e].lease

\* Mutant: the drain takes over whatever is unfinished.
ReconcilesAlways == TRUE

\* Production never asks for explicit reconciliation.
Reconciles == FALSE

Granted(o, e, token) == ClaimReady(o, e, clock, Reconciles) /\ TokenFree(o, e, token)

ClaimEffect(w) ==
    LET o == job[w].drains
        token == DrainToken(o, job[w].sequence)
    IN  /\ job[w].step = "claim"
        /\ job[w].sequence < MaxIterations
        /\ \E e \in Due(o) :
             /\ Granted(o, e, token)
             /\ ClaimNextEffect(o, e, token, clock, clock + MaxLease, Reconciles)
             /\ job' = [job EXCEPT ![w] = [@ EXCEPT !.step = "call", !.effect = e]]
             /\ calls' = calls \cup {[worker |-> w, op |-> o, effect |-> e]}
        /\ UNCHANGED <<performed, clock, crashes, deferrals>>

ClaimIdle(w) ==
    /\ job[w].step = "claim"
    /\ job[w].sequence < MaxIterations
    /\ Nothing(job[w].drains)
    /\ op[job[w].drains].status = "effects-pending"
    /\ Goto(w, "complete")
    /\ UNCHANGED <<vars, calls, performed, clock, crashes, deferrals>>

\* Every other answer of the claim is an error: the operation is terminal, the
\* effect needs reconciliation, its authority cannot be derived, or the token is
\* taken.  So is running out of turns.
ClaimRefused(w) ==
    LET o == job[w].drains
    IN  /\ job[w].step = "claim"
        /\ \/ job[w].sequence >= MaxIterations
           \/ op[o].status # "effects-pending"
           \/ \E e \in Due(o) :
                ~Nothing(o) /\ ~Granted(o, e, DrainToken(o, job[w].sequence))
        /\ Fail(w)
        /\ UNCHANGED <<vars, calls, performed, clock, crashes, deferrals>>

CallOf(w) == [worker |-> w, op |-> job[w].drains, effect |-> job[w].effect]
Perform(c) == performed' = [performed EXCEPT ![c.op] = @ \cup {c.effect}]
Observe(w, outcome) ==
    job' = [job EXCEPT ![w] = [@ EXCEPT !.step = "record", !.outcome = outcome]]

\* The owner answers in time.  An answer it cannot account for says nothing about
\* whether the effect happened.
OwnerApplies(w) ==
    /\ job[w].step = "call"
    /\ CallOf(w) \in calls
    /\ calls' = calls \ {CallOf(w)}
    /\ Perform(CallOf(w))
    /\ \E outcome \in IF Faulty THEN {"applied", "unknown"} ELSE {"applied"} : Observe(w, outcome)
    /\ UNCHANGED <<vars, clock, crashes, deferrals>>

OwnerDefers(w) ==
    /\ job[w].step = "call"
    /\ deferrals < MaxDeferrals
    /\ deferrals' = deferrals + 1
    /\ calls' = calls \ {CallOf(w)}
    /\ Observe(w, "deferred")
    /\ UNCHANGED <<vars, performed, clock, crashes>>

OwnerRejects(w) ==
    /\ job[w].step = "call"
    /\ Faulty
    /\ calls' = calls \ {CallOf(w)}
    /\ \E outcome \in {"rejected", "unknown"} : Observe(w, outcome)
    /\ UNCHANGED <<vars, performed, clock, crashes, deferrals>>

\* Mutant: a call that misses the deadline counts as done.
DeadlineApplies(w) ==
    /\ job[w].step = "call" /\ Faulty
    /\ Observe(w, "applied")
    /\ UNCHANGED <<vars, calls, performed, clock, crashes, deferrals>>

\* Mutant: the wait goes on for as long as the call does.
DeadlineAfterCall(w) ==
    /\ job[w].step = "call" /\ CallOf(w) \notin calls
    /\ Observe(w, "unknown")
    /\ UNCHANGED <<vars, calls, performed, clock, crashes, deferrals>>

\* The wait ends, the call does not: it keeps running detached from its job.
Deadline(w) ==
    /\ job[w].step = "call"
    /\ Faulty
    /\ Observe(w, "unknown")
    /\ UNCHANGED <<vars, calls, performed, clock, crashes, deferrals>>

DetachedCallEnds ==
    /\ \E c \in calls :
         /\ ~(job[c.worker].step = "call" /\ c = CallOf(c.worker))
         /\ calls' = calls \ {c}
         /\ Perform(c) \/ UNCHANGED performed
    /\ UNCHANGED <<vars, job, clock, crashes, deferrals>>

\* A clock that was set back since the claim, or behind an earlier observation,
\* leaves the outcome unrecorded.
Recordable(o, e, token) ==
    /\ outbox[o][e].lease - MaxLease <= clock
    /\ OwnsLease(outbox[o][e], token, clock)
    /\ ObservationInOrder(o, e, clock)

RecordOutcome(w) ==
    LET o == job[w].drains
        e == job[w].effect
        token == DrainToken(o, job[w].sequence)
        retry == IF job[w].outcome = "deferred" THEN clock + 1 ELSE 0
    IN  /\ job[w].step = "record"
        /\ IF Recordable(o, e, token)
             THEN /\ RecordEffectObservation(o, e, token, job[w].outcome, clock, retry)
                  /\ Goto(w, "next")
             ELSE Fail(w) /\ UNCHANGED vars
        /\ UNCHANGED <<calls, performed, clock, crashes, deferrals>>

\* The drain stops at an unknown outcome, at a rejection that ended the operation
\* and at too many deferrals in a row; it sleeps until a deferred effect is due.
Proceed(w, streak) ==
    job' = [job EXCEPT ![w] =
               [@ EXCEPT !.step = "claim", !.sequence = @ + 1, !.streak = streak]]

AfterDeferral(w) ==
    /\ job[w].step = "next" /\ job[w].outcome = "deferred"
    /\ IF job[w].streak + 1 > MaxStreak
         THEN Fail(w) /\ UNCHANGED clock
         ELSE /\ Proceed(w, job[w].streak + 1)
              /\ clock' = Max({clock, outbox[job[w].drains][job[w].effect].retry})
    /\ UNCHANGED <<vars, calls, performed, crashes, deferrals>>

AfterOutcome(w) ==
    /\ job[w].step = "next" /\ job[w].outcome # "deferred"
    /\ IF \/ job[w].outcome = "unknown"
          \/ job[w].outcome = "rejected" /\ op[job[w].drains].status = "rejected"
         THEN Fail(w) ELSE Proceed(w, 0)
    /\ UNCHANGED <<vars, calls, performed, clock, crashes, deferrals>>

\* Between two dispatches the drain can also be dropped by its caller, or stopped
\* by a gateway that cannot be activated; a dispatch itself runs to its record.
Abandon(w) ==
    /\ job[w].step = "next"
    /\ Faulty
    /\ Fail(w)
    /\ UNCHANGED <<vars, calls, performed, clock, crashes, deferrals>>

\* An operation that was drained only to get out of the way is followed by the
\* one that was asked for.
Finish(w) ==
    LET o == job[w].drains
    IN  /\ job[w].step = "complete"
        /\ IF /\ op[o].status = "effects-pending"
              /\ \A e \in EffectId : ~Unfinished(o, e) /\ outbox[o][e].observedAt <= clock
             THEN /\ CompleteOperation(o, clock)
                  /\ IF job[w].op = o THEN Fail(w) ELSE Goto(w, "register")
             ELSE Fail(w) /\ UNCHANGED vars
        /\ UNCHANGED <<calls, performed, clock, crashes, deferrals>>

\* The process and the calls inside it end; what they asked for may have happened.
Crash(w) ==
    LET own == {c \in calls : c.worker = w}
    IN  /\ job[w].step # "idle" \/ own # {}
        /\ crashes < MaxCrashes
        /\ crashes' = crashes + 1
        /\ Fail(w)
        /\ calls' = calls \ own
        /\ \E done \in SUBSET own :
             performed' = [o \in Op |-> performed[o] \cup {c.effect : c \in {d \in done : d.op = o}}]
        /\ UNCHANGED <<vars, clock, deferrals>>

Tick ==
    /\ clock' \in (IF Faulty THEN 1 ELSE clock + 1) .. MaxClock
    /\ UNCHANGED <<vars, job, calls, performed, crashes, deferrals>>

OwnerAnswers(w) == OwnerApplies(w) \/ OwnerDefers(w) \/ OwnerRejects(w)

Work(w) ==
    \/ Inspect(w) \/ RegisterReviewed(w) \/ CommitReviewed(w) \/ CommitRefused(w)
    \/ ClaimEffect(w) \/ ClaimIdle(w) \/ ClaimRefused(w) \/ Deadline(w)
    \/ RecordOutcome(w) \/ AfterDeferral(w) \/ AfterOutcome(w) \/ Finish(w)

NextDispatch ==
    \/ \E w \in Worker : Work(w) \/ OwnerAnswers(w) \/ Resume(w) \/ Abandon(w) \/ Crash(w)
    \/ \E w \in Worker, o \in Op, plan \in Plan : Apply(w, o, plan)
    \/ DetachedCallEnds \/ Tick

DispatchSpec == InitDispatch /\ [][NextDispatch]_allVars

\* A job that started goes on; owners need not answer while there is a deadline.
JobFairness == \A w \in Worker : WF_allVars(Work(w))

\* What is pending is applied and resumed again and again, and healthy owners
\* answer.
DrainFairness ==
    /\ \A w \in Worker : SF_allVars(Resume(w))
    /\ \A w \in Worker : ~Faulty => WF_allVars(OwnerAnswers(w))
    /\ \A w \in Worker, o \in Op, plan \in Plan :
         SF_allVars(o \in Pending /\ Apply(w, o, plan))

FairDispatch == DispatchSpec /\ JobFairness /\ DrainFairness

------------------------------------------------------------------------------
(* Properties.                                                                  *)

\* Jobs, calls and owner effects keep their types.
DispatchTypeOK ==
    /\ job \in [Worker -> Job]
    /\ calls \subseteq [worker : Worker, op : Op, effect : EffectId]
    /\ performed \in [Op -> SUBSET EffectId]
    /\ clock \in Nat /\ crashes \in 0 .. MaxCrashes /\ deferrals \in 0 .. MaxDeferrals

\* The claim is the only way to an owner, and a claim whose outcome is open is
\* never taken over: whatever processes race, die or time out, no two owner
\* calls of the installation are ever in flight together.
SingleFlight == Cardinality(calls) <= 1

\* The store believes nothing that did not happen: an applied effect was performed
\* by its owner, and a required rejection before the cutover was not.
ObservedTruthfully ==
    \A o \in Op : \A e \in EffectId :
        /\ outbox[o][e].status = "applied" => e \in performed[o]
        /\ outbox[o][e].status = "rejected" => e \notin performed[o]

\* Nothing of a prior generation is drained, stopped or removed at its owner
\* before the new generation is published, not even by a call that was given up.
RetiresAfterPublication ==
    \A o \in Op : \A e \in performed[o] :
        Phase(e) > 2 => gen[Target(o)].state \in {"published", "retired"}

\* What readers see is really there: a required surface of an enabled package of
\* the published generation was prepared at its owner under that incarnation.
PublishedIsPerformed ==
    \A g \in PublishedGenerations : \A s \in RequiredSurface :
        SurfacePackage[s] \in gen[g].snapshot.enabled =>
            \E o \in Op :
                /\ Committed(o) /\ Prepare(s) \in performed[o]
                /\ EffectLife(o, Prepare(s)) = gen[g].snapshot.life[SurfacePackage[s]]

\* Nothing is believed that is not so, by the store or by its readers, and nothing
\* is taken away from them early, with every job, call and owner effect of its type.
Truthful ==
    DispatchTypeOK /\ ObservedTruthfully /\ RetiresAfterPublication /\ PublishedIsPerformed

\* An apply or a resume always returns, even when owners never answer: the
\* deadline and the bounds of drain_effects see to it.
JobsEnd == \A w \in Worker : job[w].step # "idle" ~> job[w].step = "idle"

\* "Resume the sole EffectsPending operation after process restart": a pending
\* operation of which no effect is claimed or in doubt does not stay untouched.
Untouched(o) ==
    o \in Pending /\ \A e \in EffectId : outbox[o][e].status \in {"none", "pending", "applied"}
PendingTakenUp == \A o \in Op : Untouched(o) ~> ~Untouched(o)
==============================================================================
