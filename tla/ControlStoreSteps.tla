-------------------------- MODULE ControlStoreSteps --------------------------
(* Every transaction of ControlStore keeps Consistent.  None of its conjuncts is *)
(* inductive alone: a commit keeps one operation pending and one publication  *)
(* because of what the others say of the outbox and the rows.                 *)
EXTENDS ControlStoreTypes

LEMMA InitConsistent == Init => Consistent
<1> SUFFICES ASSUME Init PROVE Consistent
  OBVIOUS
<1>1. TypeOK
  BY InitType
<1>2. \A o \in Op : op[o].status = "absent"
  BY DEF Init
<1>3. \A o \in Op, e \in EffectId : outbox[o][e].status = "none"
  BY DEF Init, FreshRow
<1>4. Len(gen) = 0 /\ published = 0
  BY DEF Init
<1>5. SinglePending /\ OutboxOwned
  BY <1>2, <1>3 DEF SinglePending, OutboxOwned
<1>6. PublicationMatchesCursor /\ OperationOwnsGeneration
  BY <1>2, <1>4 DEF PublicationMatchesCursor, OperationOwnsGeneration, Committed
<1>7. EffectsInSequence
  BY <1>3 DEF EffectsInSequence
<1> QED
  BY <1>1, <1>5, <1>6, <1>7 DEF Consistent

\* A step on a row that no transition has committed, to another such status.
LEMMA UncommittedStep ==
    ASSUME Consistent, TypeOK', NEW o \in Op, UNCHANGED <<current, published, gen, outbox>>,
           op[o].status \in {"absent", "reviewed"}, op'[o].status \in {"reviewed", "cancelled"},
           \A q \in Op \ {o} : op'[q] = op[q]
    PROVE  Consistent'
<1>1. ~Committed(o) /\ ~Committed(o)' /\ op'[o].status # "effects-pending"
      /\ op[o].status # "effects-pending"
  BY DEF Committed
<1>2. \A q \in Op : Committed(q)' <=> Committed(q)
  BY <1>1 DEF Committed
<1>3. \A q \in Op : Committed(q) => op'[q] = op[q]
  BY <1>1
<1>4. SinglePending'
  BY <1>1 DEF Consistent, SinglePending
<1>5. PublicationMatchesCursor'
  BY DEF Consistent, PublicationMatchesCursor
<1>6. OperationOwnsGeneration'
  <2>1. \A g \in 1 .. Len(gen) : gen[g].op \in Op
    BY RowOwner
  <2>2. ASSUME NEW q \in Op, Committed(q)
        PROVE  /\ op'[q] = op[q] /\ Target(q)' = Target(q) /\ TargetCap(q)' = TargetCap(q)
               /\ CutoverApplied(q)' <=> CutoverApplied(q)
    BY <1>3, <2>2 DEF Target, TargetCap, CutoverApplied
  <2>3. ASSUME NEW q \in Op, Committed(q)
        PROVE  /\ Target(q) \in 1 .. Len(gen)
               /\ gen[Target(q)].op = q /\ gen[Target(q)].cap = TargetCap(q)
               /\ EarnedState(q, gen[Target(q)].state)'
    <3>1. /\ Target(q) \in 1 .. Len(gen)
          /\ gen[Target(q)].op = q /\ gen[Target(q)].cap = TargetCap(q)
          /\ EarnedState(q, gen[Target(q)].state)
      BY <2>3 DEF Consistent, OperationOwnsGeneration
    <3>2. EarnedState(q, gen[Target(q)].state)'
      BY <2>2, <2>3, <3>1, Zenon DEF EarnedState, Committed
    <3> QED
      BY <3>1, <3>2
  <2>4. \A g \in 1 .. Len(gen) : Committed(gen[g].op) /\ Target(gen[g].op) = g
    BY DEF Consistent, OperationOwnsGeneration
  <2> QED
    BY <1>2, <2>1, <2>2, <2>3, <2>4 DEF OperationOwnsGeneration
<1>7. EffectsInSequence' /\ OutboxOwned'
  <2>1. OutboxOwned'
    BY <1>1, <1>2, <1>3 DEF Consistent, OutboxOwned, Committed
  <2> QED
    BY <2>1 DEF Consistent, EffectsInSequence, Unfinished
<1> QED
  BY <1>4, <1>5, <1>6, <1>7 DEF Consistent

LEMMA RegisterConsistent ==
    ASSUME Consistent, NEW o \in Op, NEW plan \in Plan, NEW at \in Time,
           RegisterOperation(o, plan, at)
    PROVE  Consistent'
<1>1. TypeOK /\ TypeOK'
  BY RegisterType DEF Consistent
<1>2. op'[o].status = "reviewed" /\ \A q \in Op \ {o} : op'[q] = op[q]
  BY <1>1 DEF RegisterOperation, TypeOK
<1> QED
  BY <1>1, <1>2, UncommittedStep DEF RegisterOperation

LEMMA CancelConsistent ==
    ASSUME Consistent, NEW o \in Op, NEW at \in Time, CancelOperation(o, at)
    PROVE  Consistent'
<1>1. TypeOK /\ TypeOK'
  BY CancelType DEF Consistent
<1>2. op'[o].status = "cancelled" /\ \A q \in Op \ {o} : op'[q] = op[q]
  BY <1>1, StatusStep, Zenon DEF CancelOperation
<1> QED
  BY <1>1, <1>2, UncommittedStep DEF CancelOperation

LEMMA CommitConsistent ==
    ASSUME Consistent, NEW o \in Op, NEW at \in Time, CommitTransition(o, at)
    PROVE  Consistent'
<1>1. TypeOK /\ TypeOK'
  BY CommitType DEF Consistent
<1>2. /\ op'[o].status = "effects-pending" /\ op'[o].expected = op[o].expected
      /\ op'[o].expectedCap = op[o].expectedCap
      /\ \A q \in Op \ {o} : op'[q] = op[q]
  BY <1>1, CommitFacts
<1>3. /\ op[o].status = "reviewed" /\ current = op[o].expected
      /\ published = op[o].expectedCap /\ published' = published
      /\ \A q \in Op \ {o} : op[q].status # "effects-pending"
  BY DEF CommitTransition, CursorsExpected, NoOtherPending
<1>4. current \in Nat /\ Len(gen) = current /\ Target(o) = current + 1
      /\ current' = current + 1 /\ Target(o)' = current + 1 /\ TargetCap(o)' = TargetCap(o)
  BY <1>1, <1>2, <1>3 DEF TypeOK, Target, TargetCap, CommitTransition
<1>6. /\ Len(gen') = Len(gen) + 1
      /\ gen'[current + 1].op = o /\ gen'[current + 1].cap = TargetCap(o)
      /\ gen'[current + 1].state = "candidate"
      /\ \A g \in 1 .. Len(gen) : gen'[g] = gen[g]
  BY <1>1, CommitFacts
<1>7. /\ \A e \in EffectId : outbox'[o][e].status \in {"none", "pending"}
      /\ \A q \in Op \ {o} : outbox'[q] = outbox[q]
  BY <1>1, CommitFacts
<1>8. ~Committed(o) /\ Committed(o)'
      /\ \A q \in Op \ {o} : Committed(q)' <=> Committed(q)
  BY <1>2, <1>3 DEF Committed
<1>9. SinglePending'
  BY <1>2, <1>3 DEF SinglePending
<1>10. PublicationMatchesCursor'
  <2>1. \A g \in 1 .. Len(gen') : gen'[g].state = "published" =>
          g \in 1 .. Len(gen) /\ gen'[g] = gen[g]
    BY <1>4, <1>6
  <2>2. 1 .. Len(gen) \subseteq 1 .. Len(gen')
    BY <1>4, <1>6
  <2> QED
    BY <1>3, <1>6, <2>1, <2>2 DEF Consistent, PublicationMatchesCursor
<1>11. OperationOwnsGeneration'
  <2>1. ASSUME NEW q \in Op \ {o}, Committed(q)
        PROVE  /\ Target(q)' = Target(q) /\ Target(q) \in 1 .. Len(gen)
               /\ gen[Target(q)].op = q /\ gen[Target(q)].cap = TargetCap(q)'
               /\ EarnedState(q, gen[Target(q)].state)'
    <3>1. op'[q] = op[q] /\ Target(q)' = Target(q) /\ TargetCap(q)' = TargetCap(q)
      BY <1>2 DEF Target, TargetCap
    <3>2. /\ Target(q) \in 1 .. Len(gen)
          /\ gen[Target(q)].op = q /\ gen[Target(q)].cap = TargetCap(q)
          /\ EarnedState(q, gen[Target(q)].state)
      BY <2>1 DEF Consistent, OperationOwnsGeneration
    <3>3. op[q].status \in {"rejected", "completed"}
      BY <1>3, <2>1 DEF Committed
    <3>4. gen'[Target(q)'].state = gen[Target(q)].state
      BY <1>6, <3>1, <3>2
    <3> QED
      BY <3>1, <3>2, <3>3, <3>4, Zenon DEF EarnedState
  <2>2. /\ Target(o)' \in 1 .. Len(gen')
        /\ gen'[Target(o)'].op = o /\ gen'[Target(o)'].cap = TargetCap(o)'
        /\ gen'[Target(o)'].state = "candidate"
    BY <1>4, <1>6
  <2>3. ~CutoverApplied(o)'
    BY <1>7, CutoverInEffectId DEF CutoverApplied
  <2>4. EarnedState(o, gen[Target(o)].state)'
    BY <1>2, <1>3, <1>4, <2>2, <2>3 DEF EarnedState
  <2>5. \A q \in Op : Committed(q)' =>
          /\ Target(q)' \in 1 .. Len(gen')
          /\ gen'[Target(q)'].op = q /\ gen'[Target(q)'].cap = TargetCap(q)'
          /\ EarnedState(q, gen[Target(q)].state)'
    BY <1>4, <1>6, <1>8, <2>1, <2>2, <2>4
  <2>6. ASSUME NEW g \in 1 .. Len(gen')
        PROVE  Committed(gen[g].op)' /\ Target(gen[g].op)' = g
    <3>1. CASE g = current + 1
      BY <1>4, <1>6, <1>8, <3>1
    <3>2. CASE g # current + 1
      <4>1. g \in 1 .. Len(gen) /\ gen'[g] = gen[g]
        BY <1>4, <1>6, <3>2
      <4>2. gen[g].op \in Op \ {o} /\ Committed(gen[g].op) /\ Target(gen[g].op) = g
        BY <1>8, <4>1, RowOwner
      <4> QED
        BY <1>8, <2>1, <4>1, <4>2
    <3> QED
      BY <3>1, <3>2
  <2> QED
    BY <2>5, <2>6 DEF OperationOwnsGeneration
<1>12. EffectsInSequence'
  <2>1. ASSUME NEW q \in Op, NEW e \in EffectId, NEW f \in EffectId, Precedes(f, e),
               outbox'[q][e].status \notin {"none", "pending"}
        PROVE  ~Unfinished(q, f)'
    <3>1. outbox'[q] = outbox[q]
      BY <1>7, <2>1
    <3> QED
      BY <2>1, <3>1 DEF Consistent, EffectsInSequence, Unfinished
  <2> QED
    BY <2>1 DEF EffectsInSequence
<1>13. OutboxOwned'
  BY <1>2, <1>7, <1>8 DEF Consistent, OutboxOwned
<1> QED
  BY <1>1, <1>9, <1>10, <1>11, <1>12, <1>13 DEF Consistent

LEMMA ClaimConsistent ==
    ASSUME Consistent, NEW o \in Op, NEW e \in EffectId, NEW t \in Token, NEW now \in Time,
           NEW lease \in now + 1 .. now + MaxLease, NEW explicit \in BOOLEAN,
           ClaimNextEffect(o, e, t, now, lease, explicit)
    PROVE  Consistent'
<1>1. TypeOK /\ TypeOK'
  BY ClaimType DEF Consistent
<1>2. /\ outbox'[o][e].status = "claimed"
      /\ \A q \in Op, f \in EffectId : (q # o \/ f # e) => outbox'[q][f] = outbox[q][f]
  BY <1>1, ClaimRow
<1>3. /\ op[o].status = "effects-pending" /\ Unfinished(o, e)
      /\ \A f \in EffectId : Unfinished(o, f) => ~Precedes(f, e)
      /\ UNCHANGED <<current, published, op, gen>>
  BY DEF ClaimNextEffect, ClaimReady, NextUnfinished
<1>4. \A q \in Op : CutoverApplied(q)' <=> CutoverApplied(q)
  BY <1>2, <1>3, CutoverInEffectId DEF CutoverApplied, Unfinished
<1>5. SinglePending' /\ PublicationMatchesCursor'
  BY <1>3 DEF Consistent, SinglePending, PublicationMatchesCursor
<1>6. OperationOwnsGeneration'
  <2>1. \A q \in Op : \A state : EarnedState(q, state) => EarnedState(q, state)'
    BY <1>3, <1>4, Zenon DEF EarnedState, Target, TargetCap
  <2>2. \A q : /\ Committed(q)' <=> Committed(q)
               /\ Target(q)' = Target(q) /\ TargetCap(q)' = TargetCap(q)
    BY <1>3 DEF Committed, Target, TargetCap
  <2> QED
    BY <1>3, <2>1, <2>2 DEF Consistent, OperationOwnsGeneration
<1>7. EffectsInSequence'
  BY <1>2, <1>3, SequenceStep DEF Consistent
<1>8. OutboxOwned'
  BY <1>2, <1>3 DEF Consistent, OutboxOwned, Committed
<1> QED
  BY <1>1, <1>5, <1>6, <1>7, <1>8 DEF Consistent

\* The owner's confirmation of a cutover: one publication replaces another.
LEMMA PublishConsistent ==
    ASSUME Consistent, TypeOK', NEW o \in Op, NEW at \in Time,
           outbox[o][Cutover].status = "claimed", outbox'[o][Cutover].status = "applied",
           \A q \in Op, f \in EffectId :
               (q # o \/ f # Cutover) => outbox'[q][f] = outbox[q][f],
           PublishCapabilityCutover(o, at), UNCHANGED current
    PROVE  SinglePending' /\ PublicationMatchesCursor' /\ OperationOwnsGeneration'
<1>1. op' = op /\ op[o].status = "effects-pending" /\ Committed(o)
  BY CutoverInEffectId DEF PublishCapabilityCutover, Consistent, OutboxOwned, Committed
<1>2. SinglePending'
  BY <1>1 DEF Consistent, SinglePending
<1>3. /\ gen[Target(o)].state = "candidate" /\ current = Target(o)
      /\ published = op[o].expectedCap /\ published' = TargetCap(o)
      /\ gen' = [g \in 1 .. Len(gen) |-> CutoverRow(o, g, at)]
  BY DEF PublishCapabilityCutover
<1>4. /\ Target(o) \in 1 .. Len(gen) /\ gen[Target(o)].op = o
      /\ gen[Target(o)].cap = TargetCap(o)
  BY <1>1 DEF Consistent, OperationOwnsGeneration
<1>5. Len(gen') = Len(gen)
  BY <1>3 DEF Consistent, TypeOK
<1>6. \A g \in 1 .. Len(gen) :
         /\ gen'[g].op = gen[g].op /\ gen'[g].cap = gen[g].cap
         /\ g = Target(o) => gen'[g].state = "published"
         /\ g # Target(o) /\ gen[g].state = "published" => gen'[g].state = "retired"
         /\ gen[g].state # "published" /\ g # Target(o) => gen'[g].state = gen[g].state
  BY PublishFacts
<1>7. PublicationMatchesCursor'
  BY <1>3, <1>4, <1>5, <1>6 DEF PublicationMatchesCursor
<1>8. OperationOwnsGeneration'
  <2>1. \A q \in Op : /\ Committed(q)' <=> Committed(q)
                      /\ Target(q)' = Target(q) /\ TargetCap(q)' = TargetCap(q)
    BY <1>1 DEF Committed, Target, TargetCap
  <2>2. CutoverApplied(o)'
    BY DEF CutoverApplied
  <2>3. EarnedState(o, gen[Target(o)].state)'
    BY <1>1, <1>3, <1>4, <1>6, <2>1, <2>2 DEF EarnedState
  <2>4. ASSUME NEW q \in Op, Committed(q), q # o
        PROVE  EarnedState(q, gen[Target(q)].state)'
    <3>1. /\ Target(q) \in 1 .. Len(gen) /\ gen[Target(q)].op = q
          /\ EarnedState(q, gen[Target(q)].state)
      BY <2>4 DEF Consistent, OperationOwnsGeneration
    <3>2. Target(q) # Target(o)
      BY <1>4, <2>4, <3>1
    <3>3. op[q].status \in {"rejected", "completed"}
      BY <1>1, <2>4 DEF Consistent, SinglePending, Committed
    <3> QED
      BY <1>1, <1>6, <2>1, <3>1, <3>2, <3>3, Zenon DEF EarnedState
  <2>5. ASSUME NEW q \in Op, Committed(q)
        PROVE  /\ Target(q) \in 1 .. Len(gen)
               /\ gen'[Target(q)].op = q /\ gen'[Target(q)].cap = TargetCap(q)
    BY <1>6, <2>5 DEF Consistent, OperationOwnsGeneration
  <2>6. \A g \in 1 .. Len(gen) : gen'[g].op \in Op /\ Committed(gen'[g].op) /\ Target(gen'[g].op) = g
    BY <1>6, RowOwner
  <2>7. ASSUME NEW q \in Op, Committed(q)'
        PROVE  /\ Target(q)' \in 1 .. Len(gen')
               /\ gen'[Target(q)'].op = q /\ gen'[Target(q)'].cap = TargetCap(q)'
               /\ EarnedState(q, gen[Target(q)].state)'
    <3>1. Committed(q) /\ Target(q)' = Target(q) /\ TargetCap(q)' = TargetCap(q)
      BY <2>1, <2>7
    <3>2. EarnedState(q, gen[Target(q)].state)'
      BY <2>3, <2>4, <3>1
    <3> QED
      BY <1>5, <2>5, <3>1, <3>2
  <2>8. ASSUME NEW g \in 1 .. Len(gen')
        PROVE  Committed(gen[g].op)' /\ Target(gen[g].op)' = g
    <3>1. g \in 1 .. Len(gen)
      BY <1>5, <2>8
    <3>2. gen'[g].op \in Op /\ Committed(gen'[g].op) /\ Target(gen'[g].op) = g
      BY <2>6, <3>1
    <3> QED
      BY <1>1, <3>2 DEF Committed, Target
  <2> QED
    BY <2>7, <2>8 DEF OperationOwnsGeneration
<1> QED
  BY <1>2, <1>7, <1>8

\* A required rejection before the cutover abandons the candidate.
LEMMA RejectConsistent ==
    ASSUME Consistent, TypeOK', NEW o \in Op, NEW e \in EffectId, NEW at \in Time,
           outbox[o][e].status = "claimed", outbox'[o][e].status = "rejected",
           \A q \in Op, f \in EffectId :
               (q # o \/ f # e) => outbox'[q][f] = outbox[q][f],
           RejectOperation(o, at), ~CutoverApplied(o), UNCHANGED current
    PROVE  /\ SinglePending' /\ PublicationMatchesCursor' /\ OperationOwnsGeneration'
           /\ OutboxOwned'
<1>1. op[o].status = "effects-pending" /\ Committed(o)
  BY DEF Consistent, OutboxOwned, Committed
<1>2. /\ op'[o].status = "rejected" /\ op'[o].expected = op[o].expected
      /\ op'[o].expectedCap = op[o].expectedCap
      /\ \A q \in Op \ {o} : op'[q] = op[q]
  BY <1>1, StatusStep, Zenon DEF RejectOperation, Consistent
<1>3. \A q \in Op : /\ Committed(q)' <=> Committed(q)
                    /\ Target(q)' = Target(q) /\ TargetCap(q)' = TargetCap(q)
  BY <1>1, <1>2 DEF Committed, Target, TargetCap
<1>4. /\ Target(o) \in 1 .. Len(gen) /\ gen[Target(o)].op = o
      /\ gen[Target(o)].cap = TargetCap(o) /\ gen[Target(o)].state = "candidate"
  BY <1>1, Zenon DEF Consistent, OperationOwnsGeneration, EarnedState
<1>5. /\ Len(gen') = Len(gen) /\ published' = published
      /\ gen'[Target(o)].state = "abandoned"
      /\ gen'[Target(o)].op = o /\ gen'[Target(o)].cap = TargetCap(o)
      /\ \A g \in 1 .. Len(gen) : g # Target(o) => gen'[g] = gen[g]
  BY <1>4, RejectFacts DEF Consistent
<1>6. SinglePending'
  BY <1>1, <1>2 DEF Consistent, SinglePending
<1>7. PublicationMatchesCursor'
  <2>1. \A g \in 1 .. Len(gen) : gen'[g].state = "published" => gen'[g] = gen[g]
    BY <1>4, <1>5
  <2>2. \A g \in 1 .. Len(gen) : gen[g].state = "published" => gen'[g] = gen[g]
    BY <1>4, <1>5
  <2>3. PublicationMatchesCursor /\ Len(gen') = Len(gen) /\ published' = published
    BY <1>5 DEF Consistent
  <2> QED
    BY ONLY <2>1, <2>2, <2>3 DEF PublicationMatchesCursor
<1>8. OperationOwnsGeneration'
  <2>1. EarnedState(o, gen[Target(o)].state)'
    BY <1>2, <1>3, <1>5 DEF EarnedState
  <2>2. ASSUME NEW q \in Op, Committed(q), q # o
        PROVE  /\ Target(q) \in 1 .. Len(gen) /\ gen'[Target(q)] = gen[Target(q)]
               /\ gen[Target(q)].op = q /\ gen[Target(q)].cap = TargetCap(q)
               /\ EarnedState(q, gen[Target(q)].state)'
    <3>1. /\ Target(q) \in 1 .. Len(gen) /\ gen[Target(q)].op = q
          /\ gen[Target(q)].cap = TargetCap(q) /\ EarnedState(q, gen[Target(q)].state)
      BY <2>2 DEF Consistent, OperationOwnsGeneration
    <3>2. gen'[Target(q)] = gen[Target(q)]
      BY <1>4, <1>5, <2>2, <3>1
    <3>3. op[q].status \in {"rejected", "completed"}
      BY <1>1, <2>2 DEF Consistent, SinglePending, Committed
    <3> QED
      BY <1>2, <1>3, <2>2, <3>1, <3>2, <3>3, Zenon DEF EarnedState
  <2>3. \A g \in 1 .. Len(gen) : gen'[g].op = gen[g].op
    BY <1>4, <1>5
  <2>4. \A g \in 1 .. Len(gen) : /\ gen[g].op \in Op
                                 /\ Committed(gen[g].op) /\ Target(gen[g].op) = g
    BY RowOwner
  <2>5. ASSUME NEW q \in Op, Committed(q)'
        PROVE  /\ Target(q)' \in 1 .. Len(gen')
               /\ gen'[Target(q)'].op = q /\ gen'[Target(q)'].cap = TargetCap(q)'
               /\ EarnedState(q, gen[Target(q)].state)'
    <3>1. Committed(q) /\ Target(q)' = Target(q) /\ TargetCap(q)' = TargetCap(q)
      BY <1>3, <2>5
    <3>2. CASE q = o
      BY <1>4, <1>5, <2>1, <3>1, <3>2
    <3>3. CASE q # o
      <4>1. /\ Target(q) \in 1 .. Len(gen) /\ gen'[Target(q)] = gen[Target(q)]
            /\ gen[Target(q)].op = q /\ gen[Target(q)].cap = TargetCap(q)
            /\ EarnedState(q, gen[Target(q)].state)'
        BY <2>2, <3>1, <3>3
      <4>2. Len(gen') = Len(gen)
        BY <1>5
      <4> QED
        BY ONLY <3>1, <4>1, <4>2
    <3> QED
      BY <3>2, <3>3
  <2>6. ASSUME NEW g \in 1 .. Len(gen')
        PROVE  Committed(gen[g].op)' /\ Target(gen[g].op)' = g
    <3>1. g \in 1 .. Len(gen) /\ gen'[g].op = gen[g].op /\ gen[g].op \in Op
      BY <1>5, <2>3, <2>4, <2>6
    <3> DEFINE q == gen[g].op
    <3>2. q \in Op /\ Committed(q) /\ Target(q) = g
      BY <2>4, <3>1
    <3>3. op'[q].status \in {"effects-pending", "rejected", "completed"} /\ op'[q].expected + 1 = g
      BY <1>3, <3>2 DEF Committed, Target
    <3> QED
      BY <3>1, <3>3 DEF Committed, Target
  <2> QED
    BY <2>5, <2>6 DEF OperationOwnsGeneration
<1>9. OutboxOwned'
  <2> SUFFICES ASSUME NEW q \in Op, NEW f \in EffectId
               PROVE  /\ outbox'[q][f].status # "none" => Committed(q)'
                      /\ outbox'[q][f].status = "claimed" => op'[q].status = "effects-pending"
    BY DEF OutboxOwned
  <2>1. CASE q = o
    BY <1>1, <1>3, <2>1, OneClaimed DEF Consistent
  <2>2. CASE q # o
    <3>1. outbox'[q][f] = outbox[q][f] /\ op'[q] = op[q]
      BY <1>2, <2>2
    <3>2. /\ outbox[q][f].status # "none" => Committed(q)
          /\ outbox[q][f].status = "claimed" => op[q].status = "effects-pending"
      BY DEF Consistent, OutboxOwned
    <3>3. Committed(q)' <=> Committed(q)
      BY <1>3
    <3> QED
      BY ONLY <3>1, <3>2, <3>3
  <2> QED
    BY <2>1, <2>2
<1> QED
  BY <1>6, <1>7, <1>8, <1>9

LEMMA RecordConsistent ==
    ASSUME Consistent, NEW o \in Op, NEW e \in EffectId, NEW at \in Time,
           NEW outcome \in Outcome, NEW retry \in Nat, NEW t,
           RecordEffectObservation(o, e, t, outcome, at, retry)
    PROVE  Consistent'
<1>1. TypeOK /\ TypeOK'
  BY RecordType DEF Consistent
<1>2. /\ outbox'[o][e].status = outcome
      /\ \A q \in Op, f \in EffectId : (q # o \/ f # e) => outbox'[q][f] = outbox[q][f]
  BY <1>1, RecordRow
<1>3. outbox[o][e].status = "claimed" /\ Unfinished(o, e) /\ UNCHANGED current
  BY DEF RecordEffectObservation, OwnsLease, Unfinished
<1>4. op[o].status = "effects-pending" /\ Committed(o)
  BY <1>3 DEF Consistent, OutboxOwned, Committed
<1>5. EffectsInSequence'
  <2>1. \A f \in EffectId : Precedes(f, e) => ~Unfinished(o, f)
    BY <1>3 DEF Consistent, EffectsInSequence
  <2> QED
    BY <1>2, <1>3, <2>1, SequenceStep DEF Consistent
<1>6. CASE outcome = "applied" /\ e = Cutover
  <2>1. PublishCapabilityCutover(o, at) /\ op' = op
    BY <1>6 DEF RecordEffectObservation, PublishCapabilityCutover
  <2>2. SinglePending' /\ PublicationMatchesCursor' /\ OperationOwnsGeneration'
    BY <1>1, <1>2, <1>3, <1>6, <2>1, PublishConsistent
  <2>3. OutboxOwned'
    <3> SUFFICES ASSUME NEW q \in Op, NEW f \in EffectId
                 PROVE  /\ outbox'[q][f].status # "none" => Committed(q)'
                        /\ outbox'[q][f].status = "claimed" => op'[q].status = "effects-pending"
      BY DEF OutboxOwned
    <3>1. op' = op /\ (Committed(q)' <=> Committed(q))
      BY <2>1 DEF Committed
    <3>2. CASE q = o /\ f = e
      BY <1>4, <3>1, <3>2
    <3>3. CASE q # o \/ f # e
      <4>1. outbox'[q][f] = outbox[q][f]
        BY <1>2, <3>3
      <4>2. /\ outbox[q][f].status # "none" => Committed(q)
            /\ outbox[q][f].status = "claimed" => op[q].status = "effects-pending"
        BY DEF Consistent, OutboxOwned
      <4> QED
        BY ONLY <3>1, <4>1, <4>2
    <3> QED
      BY <3>2, <3>3
  <2> QED
    BY <1>1, <1>5, <2>2, <2>3 DEF Consistent
<1>7. CASE ~(outcome = "applied" /\ e = Cutover)
           /\ outcome = "rejected" /\ RequiredEffect(e) /\ ~CutoverApplied(o)
  <2>1. RejectOperation(o, at)
    BY <1>7 DEF RecordEffectObservation
  <2> QED
    BY <1>1, <1>2, <1>3, <1>5, <1>7, <2>1, RejectConsistent DEF Consistent
<1>8. CASE ~(outcome = "applied" /\ e = Cutover)
           /\ ~(outcome = "rejected" /\ RequiredEffect(e) /\ ~CutoverApplied(o))
  <2>1. UNCHANGED <<op, gen, published, current>>
    BY <1>3, <1>8 DEF RecordEffectObservation
  <2>2. \A q \in Op : CutoverApplied(q)' <=> CutoverApplied(q)
    BY <1>2, <1>3, <1>8, CutoverInEffectId DEF CutoverApplied
  <2>3. \A q \in Op : \A state : EarnedState(q, state) => EarnedState(q, state)'
    BY <2>1, <2>2, Zenon DEF EarnedState, Target, TargetCap
  <2>4. \A q : /\ Committed(q)' <=> Committed(q)
               /\ Target(q)' = Target(q) /\ TargetCap(q)' = TargetCap(q)
    BY <2>1 DEF Committed, Target, TargetCap
  <2>5. OperationOwnsGeneration'
    BY <2>1, <2>3, <2>4 DEF Consistent, OperationOwnsGeneration
  <2>6. SinglePending' /\ PublicationMatchesCursor'
    BY <2>1 DEF Consistent, SinglePending, PublicationMatchesCursor
  <2>7. OutboxOwned'
    BY <1>2, <1>4, <2>1 DEF Consistent, OutboxOwned, Committed
  <2> QED
    BY <1>1, <1>5, <2>5, <2>6, <2>7 DEF Consistent
<1> QED
  BY <1>6, <1>7, <1>8

LEMMA CompleteConsistent ==
    ASSUME Consistent, NEW o \in Op, NEW at \in Time, CompleteOperation(o, at)
    PROVE  Consistent'
<1>1. TypeOK /\ TypeOK'
  BY CompleteType DEF Consistent
<1>2. /\ op'[o].status = "completed" /\ op'[o].expected = op[o].expected
      /\ op'[o].expectedCap = op[o].expectedCap
      /\ \A q \in Op \ {o} : op'[q] = op[q]
  BY <1>1, StatusStep, Zenon DEF CompleteOperation
<1>3. /\ op[o].status = "effects-pending" /\ gen[Target(o)].state = "published"
      /\ \A e \in EffectId : ~Unfinished(o, e)
      /\ UNCHANGED <<current, published, gen, outbox>>
  BY DEF CompleteOperation
<1>4. \A q \in Op : /\ Committed(q)' <=> Committed(q)
                    /\ Target(q)' = Target(q) /\ TargetCap(q)' = TargetCap(q)
                    /\ CutoverApplied(q)' <=> CutoverApplied(q)
  BY <1>2, <1>3 DEF Committed, Target, TargetCap, CutoverApplied
<1>5. SinglePending' /\ PublicationMatchesCursor'
  BY <1>2, <1>3 DEF Consistent, SinglePending, PublicationMatchesCursor
<1>6. OperationOwnsGeneration'
  <2>1. EarnedState(o, gen[Target(o)].state)'
    BY <1>2, <1>3, <1>4 DEF EarnedState
  <2>2. ASSUME NEW q \in Op, q # o, Committed(q), EarnedState(q, gen[Target(q)].state)
        PROVE  EarnedState(q, gen[Target(q)].state)'
    BY <1>2, <1>3, <1>4, <2>2, Zenon DEF EarnedState, Committed
  <2>3. \A g \in 1 .. Len(gen) : gen[g].op \in Op
    BY RowOwner
  <2> QED
    BY <1>3, <1>4, <2>1, <2>2, <2>3 DEF Consistent, OperationOwnsGeneration
<1>7. EffectsInSequence'
  BY <1>3 DEF Consistent, EffectsInSequence, Unfinished
<1>8. OutboxOwned'
  <2> SUFFICES ASSUME NEW q \in Op, NEW f \in EffectId
               PROVE  /\ outbox[q][f].status # "none" => Committed(q)
                      /\ outbox[q][f].status = "claimed" => op'[q].status = "effects-pending"
    BY <1>3, <1>4 DEF OutboxOwned
  <2>1. CASE q = o
    BY <1>3, <2>1 DEF Unfinished, Committed
  <2>2. CASE q # o
    BY <1>2, <2>2 DEF Consistent, OutboxOwned
  <2> QED
    BY <2>1, <2>2
<1> QED
  BY <1>1, <1>5, <1>6, <1>7, <1>8 DEF Consistent
==============================================================================
