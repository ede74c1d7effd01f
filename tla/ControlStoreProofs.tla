------------------------- MODULE ControlStoreProofs --------------------------
(* Theorems of ControlStore: the inductive invariant, the safety properties that *)
(* follow from it, and that the store implements GenerationLedger.            *)
EXTENDS ControlStoreSteps

LEMMA NextConsistent == Consistent /\ [Next]_vars => Consistent'
<1> SUFFICES ASSUME Consistent, [Next]_vars PROVE Consistent'
  OBVIOUS
<1>1. CASE Register
  BY <1>1, RegisterConsistent DEF Register
<1>2. CASE Cancel
  BY <1>2, CancelConsistent DEF Cancel
<1>3. CASE Commit
  BY <1>3, CommitConsistent DEF Commit
<1>4. CASE Claim
  BY <1>4, ClaimConsistent DEF Claim
<1>5. CASE Record
  BY <1>5, RecordShape, RecordConsistent
<1>6. CASE Complete
  BY <1>6, CompleteConsistent DEF Complete
<1>7. CASE UNCHANGED vars
  <2>1. TypeOK' /\ SinglePending' /\ PublicationMatchesCursor'
    BY <1>7 DEF vars, Consistent, TypeOK, SinglePending, PublicationMatchesCursor
  <2>2. OperationOwnsGeneration'
    BY <1>7, Zenon DEF vars, Consistent, OperationOwnsGeneration, EarnedState, Committed, Target,
       TargetCap, CutoverApplied
  <2>3. EffectsInSequence' /\ OutboxOwned'
    BY <1>7 DEF vars, Consistent, EffectsInSequence, Unfinished, OutboxOwned, Committed
  <2> QED
    BY <2>1, <2>2, <2>3 DEF Consistent
<1> QED
  BY <1>1, <1>2, <1>3, <1>4, <1>5, <1>6, <1>7 DEF Next

\* Every behaviour of the store keeps the inductive invariant.
THEOREM AlwaysConsistent == Spec => []Consistent
<1>1. Init => Consistent
  BY InitConsistent
<1>2. Consistent /\ [Next]_vars => Consistent'
  BY NextConsistent
<1> QED
  BY <1>1, <1>2, PTL DEF Spec

\* commit_transition never lets two operations own external effects at once.
THEOREM OnePendingOperation == Spec => []SinglePending
<1>1. Consistent => SinglePending
  BY DEF Consistent
<1> QED
  BY <1>1, AlwaysConsistent, PTL

\* The published capability cursor and the capability rows always agree.
THEOREM PublicationConsistent == Spec => []PublicationMatchesCursor
<1>1. Consistent => PublicationMatchesCursor
  BY DEF Consistent
<1> QED
  BY <1>1, AlwaysConsistent, PTL

\* An operation and its generation agree through commit, cutover and the end.
THEOREM OperationsOwnGenerations == Spec => []OperationOwnsGeneration
<1>1. Consistent => OperationOwnsGeneration
  BY DEF Consistent
<1> QED
  BY <1>1, AlwaysConsistent, PTL

\* The outbox of every operation is worked through strictly in sequence.
THEOREM OutboxInSequence == Spec => []EffectsInSequence
<1>1. Consistent => EffectsInSequence
  BY DEF Consistent
<1> QED
  BY <1>1, AlwaysConsistent, PTL

\* Only the effects-pending operation ever has a claimed effect.
THEOREM ClaimsArePending == Spec => []OutboxOwned
<1>1. Consistent => OutboxOwned
  BY DEF Consistent
<1> QED
  BY <1>1, AlwaysConsistent, PTL

\* A claimed cutover can be recorded: no row count of publish_capability_cutover
\* can fail after the capability owner was asked to cut over.
THEOREM CutoverNeverStrands == Spec => []ClaimedCutoverCanPublish
<1>1. Consistent => ClaimedCutoverCanPublish
  <2> SUFFICES ASSUME Consistent, NEW o \in Op, outbox[o][Cutover].status = "claimed"
               PROVE  /\ op[o].expectedCap > 0 =>
                           \E g \in 1 .. Len(gen) :
                               gen[g].cap = op[o].expectedCap /\ gen[g].state = "published"
                      /\ gen[Target(o)].cap = TargetCap(o)
                      /\ gen[Target(o)].state = "candidate"
                      /\ current = Target(o) /\ published = op[o].expectedCap
    BY DEF ClaimedCutoverCanPublish
  <2>1. op[o].status = "effects-pending" /\ Committed(o) /\ ~CutoverApplied(o)
    BY CutoverInEffectId DEF Consistent, OutboxOwned, Committed, CutoverApplied
  <2>2. /\ gen[Target(o)].cap = TargetCap(o) /\ gen[Target(o)].state = "candidate"
        /\ current = Target(o) /\ published = op[o].expectedCap
    BY <2>1, Zenon DEF Consistent, OperationOwnsGeneration, EarnedState
  <2> QED
    BY <2>2 DEF Consistent, PublicationMatchesCursor
<1> QED
  BY <1>1, AlwaysConsistent, PTL

(* ------------------------------- refinement ------------------------------- *)

\* With one operation pending, the phase is read off its cutover effect.
LEMMA PhaseOfPending ==
    ASSUME SinglePending, NEW o \in Op, op[o].status = "effects-pending"
    PROVE  LedgerPhase = IF CutoverApplied(o) THEN "retiring" ELSE "preparing"
<1>1. EffectsPending = {o}
  BY DEF SinglePending, EffectsPending
<1> QED
  BY <1>1 DEF LedgerPhase

LEMMA LedgerUnchanged ==
    ASSUME UNCHANGED <<current, published, gen>>,
           \A q \in Op : /\ op'[q].status = "effects-pending" <=> op[q].status = "effects-pending"
                         /\ CutoverApplied(q)' <=> CutoverApplied(q)
    PROVE  UNCHANGED Ledger!vars
<1>1. EffectsPending' = EffectsPending
  BY DEF EffectsPending
<1>2. LedgerPhase' = LedgerPhase
  BY <1>1 DEF LedgerPhase, EffectsPending
<1> QED
  BY <1>2 DEF Ledger!vars, PublishedGenerations

LEMMA CommitIsLedgerCommit ==
    ASSUME Consistent, Consistent', NEW o \in Op, NEW at \in Time, CommitTransition(o, at)
    PROVE  Ledger!Commit
<1>1. TypeOK
  BY DEF Consistent
<1>2. /\ op[o].status = "reviewed" /\ published' = published
      /\ \A q \in Op \ {o} : op[q].status # "effects-pending"
  BY DEF CommitTransition, NoOtherPending
<1>3. LedgerPhase = "idle"
  BY <1>2 DEF LedgerPhase, EffectsPending
<1>4. ~CutoverApplied(o)' /\ op'[o].status = "effects-pending"
  BY <1>1, CommitFacts, CutoverInEffectId, Zenon DEF CutoverApplied
<1>5. LedgerPhase' = "preparing"
  <2>1. EffectsPending' = {o}
    BY <1>4 DEF Consistent, SinglePending, EffectsPending
  <2> QED
    BY <1>4, <2>1 DEF LedgerPhase
<1>6. current' = current + 1
  BY <1>1, CommitFacts
<1>7. PublishedGenerations' = PublishedGenerations
  <2>1. /\ Len(gen) \in Nat /\ Len(gen') = Len(gen) + 1 /\ Len(gen) = current
        /\ gen'[current + 1].state = "candidate"
        /\ \A g \in 1 .. Len(gen) : gen'[g] = gen[g]
    BY <1>1, CommitFacts DEF TypeOK
  <2> QED
    BY <2>1 DEF PublishedGenerations
<1> QED
  BY <1>2, <1>3, <1>5, <1>6, <1>7 DEF Ledger!Commit

LEMMA RecordIsLedgerStep ==
    ASSUME Consistent, Consistent', NEW o \in Op, NEW e \in EffectId, NEW at \in Time,
           NEW outcome \in Outcome, NEW retry \in Nat, NEW t,
           RecordEffectObservation(o, e, t, outcome, at, retry)
    PROVE  Ledger!Publish \/ Ledger!Abandon \/ UNCHANGED Ledger!vars
<1>1. TypeOK /\ UNCHANGED current
  BY DEF Consistent, RecordEffectObservation
<1>2. /\ outbox'[o][e].status = outcome
      /\ \A q \in Op, f \in EffectId : (q # o \/ f # e) => outbox'[q][f] = outbox[q][f]
  BY <1>1, RecordRow
<1>3. outbox[o][e].status = "claimed"
  BY DEF RecordEffectObservation, OwnsLease
<1>4. op[o].status = "effects-pending" /\ Committed(o)
  BY <1>3 DEF Consistent, OutboxOwned, Committed
<1>5. LedgerPhase = IF CutoverApplied(o) THEN "retiring" ELSE "preparing"
  BY <1>4, PhaseOfPending DEF Consistent
<1>6. CASE outcome = "applied" /\ e = Cutover
  <2>1. PublishCapabilityCutover(o, at) /\ op' = op
    BY <1>6 DEF RecordEffectObservation, PublishCapabilityCutover
  <2>2. ~CutoverApplied(o) /\ CutoverApplied(o)'
    BY <1>2, <1>3, <1>6 DEF CutoverApplied
  <2>3. LedgerPhase' = "retiring"
    <3>1. EffectsPending' = {o}
      BY <1>4, <2>1 DEF Consistent, SinglePending, EffectsPending
    <3> QED
      BY <2>2, <3>1 DEF LedgerPhase
  <2>4. current = Target(o) /\ published' = published + 1
    BY <2>1 DEF PublishCapabilityCutover, TargetCap
  <2>5. Target(o) \in 1 .. Len(gen)
    BY <1>4 DEF Consistent, OperationOwnsGeneration
  <2>6. PublishedGenerations' = {current}
    BY <2>1, <2>4, <2>5, PublishFacts DEF PublishedGenerations
  <2> QED
    BY <1>1, <1>5, <2>2, <2>3, <2>4, <2>6 DEF Ledger!Publish
<1>7. CASE ~(outcome = "applied" /\ e = Cutover)
           /\ outcome = "rejected" /\ RequiredEffect(e) /\ ~CutoverApplied(o)
  <2>1. RejectOperation(o, at)
    BY <1>7 DEF RecordEffectObservation
  <2>2. op'[o].status = "rejected" /\ \A q \in Op \ {o} : op'[q] = op[q]
    BY <1>1, <1>4, <2>1, StatusStep, Zenon DEF RejectOperation
  <2>3. LedgerPhase' = "idle"
    <3>1. EffectsPending' = {}
      BY <1>4, <2>2 DEF Consistent, SinglePending, EffectsPending
    <3> QED
      BY <3>1 DEF LedgerPhase
  <2>4. Target(o) \in 1 .. Len(gen) /\ gen[Target(o)].state = "candidate"
    BY <1>4, <1>7, Zenon DEF Consistent, OperationOwnsGeneration, EarnedState
  <2>5. PublishedGenerations' = PublishedGenerations /\ published' = published
    BY <1>1, <2>1, <2>4, RejectFacts DEF PublishedGenerations
  <2> QED
    BY <1>1, <1>5, <1>7, <2>3, <2>5 DEF Ledger!Abandon
<1>8. CASE ~(outcome = "applied" /\ e = Cutover)
           /\ ~(outcome = "rejected" /\ RequiredEffect(e) /\ ~CutoverApplied(o))
  <2>1. UNCHANGED <<op, gen, published, current>>
    BY <1>1, <1>8 DEF RecordEffectObservation
  <2>2. \A q \in Op : CutoverApplied(q)' <=> CutoverApplied(q)
    BY <1>2, <1>3, <1>8, CutoverInEffectId DEF CutoverApplied
  <2> QED
    BY <2>1, <2>2, LedgerUnchanged
<1> QED
  BY <1>6, <1>7, <1>8

LEMMA CompleteIsLedgerFinish ==
    ASSUME Consistent, NEW o \in Op, NEW at \in Time, CompleteOperation(o, at)
    PROVE  Ledger!Finish
<1>1. op[o].status = "effects-pending" /\ gen[Target(o)].state = "published"
      /\ UNCHANGED <<current, published, gen>>
  BY DEF CompleteOperation
<1>2. op'[o].status = "completed" /\ \A q \in Op \ {o} : op'[q] = op[q]
  BY StatusStep, Zenon DEF CompleteOperation, Consistent
<1>3. CutoverApplied(o)
  BY <1>1, Zenon DEF Consistent, OperationOwnsGeneration, EarnedState, Committed
<1>4. LedgerPhase = "retiring"
  BY <1>1, <1>3, PhaseOfPending DEF Consistent
<1>5. EffectsPending' = {}
  BY <1>1, <1>2 DEF Consistent, SinglePending, EffectsPending
<1> QED
  BY <1>1, <1>4, <1>5 DEF Ledger!Finish, LedgerPhase, PublishedGenerations

LEMMA NextIsLedgerStep ==
    ASSUME Consistent, Consistent', [Next]_vars
    PROVE  [Ledger!Next]_(Ledger!vars)
<1>1. CASE Register
  <2>1. PICK o \in Op, plan \in Plan, at \in Time : RegisterOperation(o, plan, at)
    BY <1>1 DEF Register
  <2>2. /\ op[o].status = "absent" /\ op'[o].status = "reviewed"
        /\ \A q \in Op \ {o} : op'[q] = op[q]
    BY <2>1 DEF RegisterOperation, Consistent, TypeOK
  <2>3. UNCHANGED <<current, published, gen, outbox>>
    BY <2>1 DEF RegisterOperation
  <2> QED
    BY <2>2, <2>3, LedgerUnchanged DEF CutoverApplied
<1>2. CASE Cancel
  <2>1. PICK o \in Op, at \in Time : CancelOperation(o, at)
    BY <1>2 DEF Cancel
  <2>2. /\ op[o].status = "reviewed" /\ op'[o].status = "cancelled"
        /\ \A q \in Op \ {o} : op'[q] = op[q]
    BY <2>1, StatusStep, Zenon DEF CancelOperation, Consistent
  <2>3. UNCHANGED <<current, published, gen, outbox>>
    BY <2>1 DEF CancelOperation
  <2> QED
    BY <2>2, <2>3, LedgerUnchanged DEF CutoverApplied
<1>3. CASE Commit
  BY <1>3, CommitIsLedgerCommit DEF Commit, Ledger!Next
<1>4. CASE Claim
  <2>1. PICK o \in Op, e \in EffectId, now \in Time, explicit \in BOOLEAN :
          \E t \in Token, lease \in now + 1 .. now + MaxLease :
            ClaimNextEffect(o, e, t, now, lease, explicit)
    BY <1>4 DEF Claim
  <2>2. Unfinished(o, e) /\ UNCHANGED <<current, published, op, gen>>
    BY <2>1 DEF ClaimNextEffect, ClaimReady, NextUnfinished
  <2>3. \A q \in Op : CutoverApplied(q)' <=> CutoverApplied(q)
    <3>1. /\ outbox'[o][e].status = "claimed"
          /\ \A q \in Op, f \in EffectId : (q # o \/ f # e) => outbox'[q][f] = outbox[q][f]
      <4>1. PICK t \in Token, lease \in now + 1 .. now + MaxLease :
              ClaimNextEffect(o, e, t, now, lease, explicit)
        BY <2>1
      <4>2. TypeOK
        BY DEF Consistent
      <4> QED
        BY <4>1, <4>2, ClaimRow
    <3>2. outbox[o][e].status # "applied"
      BY <2>2 DEF Unfinished
    <3> QED
      BY <3>1, <3>2, CutoverInEffectId DEF CutoverApplied
  <2> QED
    BY <2>2, <2>3, LedgerUnchanged
<1>5. CASE Record
  BY <1>5, RecordShape, RecordIsLedgerStep DEF Ledger!Next
<1>6. CASE Complete
  BY <1>6, CompleteIsLedgerFinish DEF Complete, Ledger!Next
<1>7. CASE UNCHANGED vars
  BY <1>7, LedgerUnchanged DEF vars, CutoverApplied
<1> QED
  BY <1>1, <1>2, <1>3, <1>4, <1>5, <1>6, <1>7 DEF Next

\* The Control Store implements the generation ledger: whatever the outbox does,
\* readers see one whole generation at a time and never an abandoned one.
THEOREM StoreImplementsLedger == Spec => ImplementsLedger
<1>1. Init => Ledger!Init
  <2> SUFFICES ASSUME Init PROVE Ledger!Init
    OBVIOUS
  <2>1. EffectsPending = {} /\ PublishedGenerations = {}
    BY DEF Init, EffectsPending, PublishedGenerations
  <2> QED
    BY <2>1 DEF Init, Ledger!Init, LedgerPhase
<1>2. Consistent /\ Consistent' /\ [Next]_vars => [Ledger!Next]_(Ledger!vars)
  BY NextIsLedgerStep
<1> QED
  BY <1>1, <1>2, AlwaysConsistent, PTL DEF Spec, ImplementsLedger, Ledger!Spec
==============================================================================
