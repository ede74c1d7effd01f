---------------------------- MODULE CapabilityPlane ----------------------------
(* Admission of calls to a published capability generation against the cutover  *)
(* and the drain that follow it (effect_owner/capability_plane.rs, lease.rs).   *)
(* A caller reads the cursor, takes one shared file lock per package            *)
(* incarnation and reads the cursor again; the drain of a retired incarnation   *)
(* reads the cursor, takes that file's lock exclusively and lets it go.  No     *)
(* lock covers both sides.                                                      *)
EXTENDS Integers, Sequences, FiniteSets

CONSTANTS
    Session,        \* accepted call sets, in any process
    Package,
    MaxGeneration,  \* bound on publications
    MaxLife         \* bound on incarnations of one package

ASSUME PlaneAssumption == MaxGeneration \in Nat /\ MaxLife \in Nat

VARIABLES
    content,   \* the published generations: package -> incarnation, 0 when not enabled
    life,      \* the newest incarnation of each package
    pending,   \* incarnations the current operation has still to drain
    retiring,  \* drained, about to be stopped and removed at their owners
    gone,      \* removed
    drain,     \* the drain in progress
    sess

vars == <<content, life, pending, retiring, gone, drain, sess>>

Key == Package \X (Nat \ {0})
Keys(c) == {<<p, c[p]>> : p \in {q \in Package : c[q] # 0}}
published == Len(content)
Published == IF published = 0 THEN {} ELSE Keys(content[published])

Drain == [step : {"idle", "checked", "locked"}, keys : SUBSET Key]
NoDrain == [step |-> "idle", keys |-> {}]
Sess == [step : {"idle", "check", "lock", "confirm", "held"}, expected : Nat, leases : SUBSET Key]
NoSess == [step |-> "idle", expected |-> 0, leases |-> {}]

Init ==
    /\ content = <<>>
    /\ life = [p \in Package |-> 0]
    /\ pending = {} /\ retiring = {} /\ gone = {}
    /\ drain = NoDrain
    /\ sess = [s \in Session |-> NoSess]

Become(s, step, expected, leases) ==
    sess' = [sess EXCEPT ![s] = [step |-> step, expected |-> expected, leases |-> leases]]
Enter(s, step) == Become(s, step, sess[s].expected, sess[s].leases)
Leave(s) == sess' = [sess EXCEPT ![s] = NoSess]

------------------------------------------------------------------------------
(* The operations of the Control Store, one at a time.                          *)

\* An operation publishes its generation once everything in it is prepared: every
\* package is left alone, removed or disabled, enabled again or newly installed.
\* What the generation before had and this one has not is to be drained.
Publish(new) ==
    /\ pending = {} /\ retiring = {}
    /\ published < MaxGeneration
    /\ \A p \in Package : new[p] \in {0, life[p], life[p] + 1} /\ new[p] <= MaxLife
    /\ content' = Append(content, new)
    /\ life' = [p \in Package |-> IF new[p] = 0 THEN life[p] ELSE new[p]]
    /\ gone' = gone \ Keys(new)
    /\ pending' = Published \ Keys(new)
    /\ UNCHANGED <<retiring, drain, sess>>

\* Mutant: the drain goes by the cursor alone.
NeverBusy(k) == FALSE

\* Some call set, admitted or on its way in, has the file locked.
Busy(k) == \E s \in Session : k \in sess[s].leases

\* drain: an incarnation that is still published is deferred.
DrainCheck(k) ==
    /\ drain = NoDrain
    /\ k \in pending
    /\ k \notin Published
    /\ drain' = [step |-> "checked", keys |-> {k}]
    /\ UNCHANGED <<content, life, pending, retiring, gone, sess>>

\* try_acquire_exclusive: a busy incarnation is deferred.
DrainLock ==
    /\ drain.step = "checked"
    /\ drain' = IF \E k \in drain.keys : Busy(k) THEN NoDrain
                ELSE [drain EXCEPT !.step = "locked"]
    /\ UNCHANGED <<content, life, pending, retiring, gone, sess>>

\* The lock is dropped and the drain recorded as applied.
DrainApplied ==
    /\ drain.step = "locked"
    /\ drain' = NoDrain
    /\ pending' = pending \ drain.keys
    /\ retiring' = retiring \cup drain.keys
    /\ UNCHANGED <<content, life, gone, sess>>

\* The call fails or its process ends; the system releases its lock.
DrainLost ==
    /\ drain # NoDrain
    /\ drain' = NoDrain
    /\ UNCHANGED <<content, life, pending, retiring, gone, sess>>

\* The owners stop and remove what was drained, after the last drain.
Remove(k) ==
    /\ pending = {}
    /\ k \in retiring
    /\ retiring' = retiring \ {k}
    /\ gone' = gone \cup {k}
    /\ UNCHANGED <<content, life, pending, drain, sess>>

------------------------------------------------------------------------------
(* acquire_published: the caller brings a cursor it read at some time before.    *)

Begin(s, expected) ==
    /\ sess[s].step = "idle"
    /\ expected \in 1 .. published
    /\ Become(s, "check", expected, {})
    /\ UNCHANGED <<content, life, pending, retiring, gone, drain>>

Current(s) == sess[s].expected = published


CheckCursor(s) ==
    /\ sess[s].step = "check"
    /\ IF Current(s) THEN Enter(s, "lock") ELSE Leave(s)
    /\ UNCHANGED <<content, life, pending, retiring, gone, drain>>

Wanted(s) == Keys(content[sess[s].expected])
ExclusivelyLocked == IF drain.step = "locked" THEN drain.keys ELSE {}

\* try_acquire_shared, one package after the other; a lock that is taken
\* exclusively ends the attempt and drops the others.
LockPackage(s) ==
    /\ sess[s].step = "lock"
    /\ \E k \in Wanted(s) \ sess[s].leases :
         IF k \in ExclusivelyLocked THEN Leave(s)
         ELSE Become(s, "lock", sess[s].expected, sess[s].leases \cup {k})
    /\ UNCHANGED <<content, life, pending, retiring, gone, drain>>

AllLocked(s) ==
    /\ sess[s].step = "lock"
    /\ Wanted(s) \subseteq sess[s].leases
    /\ Enter(s, "confirm")
    /\ UNCHANGED <<content, life, pending, retiring, gone, drain>>

\* Mutant: the cursor is only read before the locks.
ConfirmNothing(s) ==
    /\ sess[s].step = "confirm"
    /\ Enter(s, "held")
    /\ UNCHANGED <<content, life, pending, retiring, gone, drain>>

Confirm(s) ==
    /\ sess[s].step = "confirm"
    /\ IF Current(s) THEN Enter(s, "held") ELSE Leave(s)
    /\ UNCHANGED <<content, life, pending, retiring, gone, drain>>

\* The call set ends, is cancelled on its way in, or its process ends.
Release(s) ==
    /\ sess[s].step # "idle"
    /\ Leave(s)
    /\ UNCHANGED <<content, life, pending, retiring, gone, drain>>

Admit(s) == CheckCursor(s) \/ LockPackage(s) \/ AllLocked(s) \/ Confirm(s)
Retire == (\E k \in pending : DrainCheck(k)) \/ DrainLock \/ DrainApplied

Next ==
    \/ \E new \in [Package -> 0 .. MaxLife] : Publish(new)
    \/ Retire \/ DrainLost
    \/ \E k \in retiring : Remove(k)
    \/ \E s \in Session, expected \in 1 .. MaxGeneration : Begin(s, expected)
    \/ \E s \in Session : Admit(s) \/ Release(s)

Spec == Init /\ [][Next]_vars

\* A deferred drain is tried again, does not die every time, and every call set
\* ends.
Fairness ==
    /\ WF_vars(Retire) /\ SF_vars(DrainLock) /\ SF_vars(DrainApplied)
    /\ \A s \in Session : WF_vars(Release(s))

------------------------------------------------------------------------------
(* Properties.                                                                  *)

\* Publications, drains and call sets keep their types.
TypeOK ==
    /\ content \in Seq([Package -> Nat])
    /\ life \in [Package -> Nat]
    /\ pending \subseteq Key /\ retiring \subseteq Key /\ gone \subseteq Key
    /\ drain \in Drain
    /\ sess \in [Session -> Sess]

\* "A concurrent cutover therefore either observes these leases during drain or
\* makes this admission return stale" (acquire_published): no accepted call set
\* uses an incarnation that was drained, let alone one that is being removed.
CallsKeepTheirSurfaces ==
    \A s \in Session :
        sess[s].step = "held" => Wanted(s) \cap (retiring \cup gone) = {}

\* The other half of that sentence, "without exposing a mixed graph": the call
\* set holds all packages of one generation, and that one is the published one
\* or its missing packages are still waiting for this call set.
CallsSeeOneGeneration ==
    \A s \in Session :
        sess[s].step = "held" =>
            /\ Wanted(s) \subseteq sess[s].leases
            /\ Wanted(s) \ Published \subseteq pending

\* Why that is so.  A lock is never held both ways; a call set past its locks has
\* all of them; the drain works on what is pending; and what is published,
\* pending or already drained are three different things.
AdmissionGuarded ==
    /\ \A s \in Session :
         /\ sess[s].step # "idle" => sess[s].expected \in 1 .. published
         /\ sess[s].step \in {"confirm", "held"} => Wanted(s) \subseteq sess[s].leases
         /\ sess[s].leases \cap ExclusivelyLocked = {}
    /\ drain.keys \subseteq pending
    /\ Published \cap (pending \cup retiring \cup gone) = {}
    /\ pending \cap (retiring \cup gone) = {}

\* The inductive invariant of acquire_published, cutover and drain.
Inv == TypeOK /\ AdmissionGuarded /\ CallsSeeOneGeneration

==============================================================================
