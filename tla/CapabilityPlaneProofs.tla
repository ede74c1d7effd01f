------------------------- MODULE CapabilityPlaneProofs -------------------------
(* Admission against cutover and drain, for any number of call sets, packages,  *)
(* publications and incarnations.                                               *)
EXTENDS CapabilityPlane, TLAPS

\* The keys of a published generation are keys.
LEMMA KeysType == ASSUME NEW c \in [Package -> Nat] PROVE Keys(c) \subseteq Key
  BY DEF Keys, Key

\* The incarnations that are published now are keys.
LEMMA PublishedType == ASSUME TypeOK PROVE Published \subseteq Key
  BY KeysType DEF TypeOK, Published, published

\* Nothing is published, drained or admitted at first.
LEMMA InitInv == ASSUME Init PROVE Inv
  BY DEF Init, Inv, TypeOK, AdmissionGuarded, CallsSeeOneGeneration, NoDrain, NoSess, Drain,
         Sess, Published, published, ExclusivelyLocked, Key

\* A publication keeps the invariant: it takes place when nothing is pending.
LEMMA PublishInv ==
    ASSUME Inv, NEW new \in [Package -> 0 .. MaxLife], Publish(new)
    PROVE  Inv'
<1> USE DEF Inv
<1>1. new \in [Package -> Nat]
  BY PlaneAssumption
<1>2. /\ content' \in Seq([Package -> Nat])
      /\ Len(content') = Len(content) + 1
      /\ content'[Len(content) + 1] = new
      /\ \A i \in 1 .. Len(content) : content'[i] = content[i]
  BY <1>1 DEF Publish, TypeOK
<1>3. Published' = Keys(new) /\ published' = published + 1
  BY <1>2 DEF Published, published, TypeOK
<1>4. TypeOK'
  BY <1>1, <1>2, PublishedType, KeysType DEF TypeOK, Publish
<1>5. AdmissionGuarded'
  <2>1. \A s \in Session : sess[s].step # "idle" => Wanted(s)' = Wanted(s)
    BY <1>2 DEF Wanted, AdmissionGuarded, published, Publish
  <2>2. drain.keys = {}
    BY DEF AdmissionGuarded, Publish
  <2>3. \A s \in Session :
          /\ sess'[s].step # "idle" => sess'[s].expected \in 1 .. published'
          /\ sess'[s].step \in {"confirm", "held"} => Wanted(s)' \subseteq sess'[s].leases
          /\ sess'[s].leases \cap ExclusivelyLocked' = {}
    BY <1>3, <2>1, <2>2 DEF AdmissionGuarded, Publish, ExclusivelyLocked, published, TypeOK
  <2> QED
    BY <1>3, <2>2, <2>3 DEF AdmissionGuarded, Publish
<1>6. CallsSeeOneGeneration'
  <2> SUFFICES ASSUME NEW s \in Session, sess'[s].step = "held"
               PROVE  /\ Wanted(s)' \subseteq sess'[s].leases
                      /\ Wanted(s)' \ Published' \subseteq pending'
    BY DEF CallsSeeOneGeneration
  <2>1. Wanted(s)' = Wanted(s) /\ sess' = sess
    BY <1>2 DEF Wanted, AdmissionGuarded, published, Publish
  <2> QED
    BY <1>3, <2>1 DEF CallsSeeOneGeneration, Publish
<1> QED BY <1>4, <1>5, <1>6

\* A drain keeps the invariant: what it drains no call set has locked.
LEMMA DrainInv ==
    ASSUME Inv, (\E k \in pending : DrainCheck(k)) \/ DrainLock \/ DrainApplied \/ DrainLost
    PROVE  Inv'
<1> USE DEF Inv
<1>1. UNCHANGED <<content, life, gone, sess>>
  BY DEF DrainCheck, DrainLock, DrainApplied, DrainLost
<1>2. Published' = Published /\ published' = published /\ \A s \in Session : Wanted(s)' = Wanted(s)
  BY <1>1 DEF Published, published, Wanted
<1>3. TypeOK'
  <2>1. drain.keys \subseteq Key /\ drain.step \in {"idle", "checked", "locked"}
    BY DEF TypeOK, Drain
  <2>2. drain' \in Drain /\ pending' \subseteq Key /\ retiring' \subseteq Key
    <3>1. CASE \E k \in pending : DrainCheck(k)
      BY <3>1 DEF TypeOK, DrainCheck, Drain
    <3>2. CASE DrainLock
      BY <2>1, <3>2 DEF TypeOK, DrainLock, Drain, NoDrain
    <3>3. CASE DrainApplied
      BY <2>1, <3>3 DEF TypeOK, DrainApplied, Drain, NoDrain
    <3>4. CASE DrainLost
      BY <3>4 DEF TypeOK, DrainLost, Drain, NoDrain
    <3> QED BY <3>1, <3>2, <3>3, <3>4
  <2> QED BY <1>1, <2>2 DEF TypeOK
<1>4. CASE (\E k \in pending : DrainCheck(k)) \/ DrainLost
  <2>1. UNCHANGED <<pending, retiring>> /\ drain'.keys \subseteq pending /\ ExclusivelyLocked' = {}
    BY <1>4 DEF DrainCheck, DrainLost, NoDrain, ExclusivelyLocked
  <2> QED
    BY <1>1, <1>2, <1>3, <2>1 DEF AdmissionGuarded, CallsSeeOneGeneration
<1>5. CASE DrainLock
  <2>1. UNCHANGED <<pending, retiring>> /\ drain'.keys \subseteq pending
    BY <1>5 DEF DrainLock, NoDrain, AdmissionGuarded, TypeOK, Drain
  <2>2. ASSUME NEW s \in Session PROVE sess'[s].leases \cap ExclusivelyLocked' = {}
    BY <1>1, <1>5 DEF DrainLock, NoDrain, Busy, ExclusivelyLocked, TypeOK, Drain
  <2> QED
    BY <1>1, <1>2, <1>3, <2>1, <2>2 DEF AdmissionGuarded, CallsSeeOneGeneration
<1>6. CASE DrainApplied
  <2>1. /\ drain'.keys = {} /\ ExclusivelyLocked' = {} /\ ExclusivelyLocked = drain.keys
        /\ pending' = pending \ drain.keys
        /\ retiring' = retiring \cup drain.keys
    BY <1>6 DEF DrainApplied, NoDrain, ExclusivelyLocked
  <2>2. AdmissionGuarded'
    BY <1>1, <1>2, <2>1 DEF AdmissionGuarded
  <2>3. CallsSeeOneGeneration'
    BY <1>1, <1>2, <2>1 DEF AdmissionGuarded, CallsSeeOneGeneration
  <2> QED BY <1>3, <2>2, <2>3
<1> QED BY <1>4, <1>5, <1>6

\* Removing what was drained keeps the invariant.
LEMMA RemoveInv ==
    ASSUME Inv, NEW k \in retiring, Remove(k)
    PROVE  Inv'
<1> USE DEF Inv
<1>1. UNCHANGED <<content, life, pending, drain, sess>>
  BY DEF Remove
<1>2. /\ Published' = Published /\ published' = published /\ ExclusivelyLocked' = ExclusivelyLocked
      /\ \A s \in Session : Wanted(s)' = Wanted(s)
  BY <1>1 DEF Published, published, Wanted, ExclusivelyLocked
<1>3. TypeOK'
  BY <1>1 DEF TypeOK, Remove
<1>4. AdmissionGuarded' /\ CallsSeeOneGeneration'
  BY <1>1, <1>2 DEF AdmissionGuarded, CallsSeeOneGeneration, Remove
<1> QED BY <1>3, <1>4

\* A step of a call set keeps the invariant; it is admitted only while the
\* generation it locked is the published one.
LEMMA SessionInv ==
    ASSUME Inv, NEW s \in Session,
           (\E expected \in 1 .. MaxGeneration : Begin(s, expected)) \/ Admit(s) \/ Release(s)
    PROVE  Inv'
<1> USE DEF Inv
<1>1. UNCHANGED <<content, life, pending, retiring, gone, drain>>
  BY DEF Begin, Admit, CheckCursor, LockPackage, AllLocked, Confirm, Release
<1>2. Published' = Published /\ published' = published /\ ExclusivelyLocked' = ExclusivelyLocked
  BY <1>1 DEF Published, published, ExclusivelyLocked
<1>3. sess \in [Session -> Sess] /\ sess[s] \in Sess
  BY DEF TypeOK
<1>4. ASSUME NEW x \in Sess, sess' = [sess EXCEPT ![s] = x],
             x.step # "idle" => x.expected \in 1 .. published,
             x.step \in {"confirm", "held"} => Keys(content[x.expected]) \subseteq x.leases,
             x.leases \cap ExclusivelyLocked = {},
             x.step = "held" => Keys(content[x.expected]) \ Published \subseteq pending
      PROVE  Inv'
  <2>1. /\ sess'[s] = x
        /\ \A t \in Session : t # s => sess'[t] = sess[t]
    BY <1>3, <1>4
  <2>2. /\ Wanted(s)' = Keys(content[x.expected])
        /\ \A t \in Session : t # s => Wanted(t)' = Wanted(t)
    BY <1>1, <2>1 DEF Wanted
  <2>3. TypeOK'
    BY <1>1, <1>3, <1>4 DEF TypeOK
  <2>4. AdmissionGuarded'
    <3>1. ASSUME NEW t \in Session
          PROVE  /\ sess'[t].step # "idle" => sess'[t].expected \in 1 .. published'
                 /\ sess'[t].step \in {"confirm", "held"} => Wanted(t)' \subseteq sess'[t].leases
                 /\ sess'[t].leases \cap ExclusivelyLocked' = {}
      BY <1>2, <1>4, <2>1, <2>2 DEF AdmissionGuarded
    <3> QED BY <1>1, <1>2, <3>1 DEF AdmissionGuarded
  <2>5. CallsSeeOneGeneration'
    <3> SUFFICES ASSUME NEW t \in Session, sess'[t].step = "held"
                 PROVE  /\ Wanted(t)' \subseteq sess'[t].leases
                        /\ Wanted(t)' \ Published' \subseteq pending'
      BY DEF CallsSeeOneGeneration
    <3> QED BY <1>1, <1>2, <1>4, <2>1, <2>2 DEF CallsSeeOneGeneration
  <2> QED BY <2>3, <2>4, <2>5
<1>5. /\ sess[s].step # "idle" => sess[s].expected \in 1 .. published
      /\ sess[s].step \in {"confirm", "held"} => Keys(content[sess[s].expected]) \subseteq sess[s].leases
      /\ sess[s].leases \cap ExclusivelyLocked = {}
      /\ sess[s].expected \in Nat /\ sess[s].leases \subseteq Key
  BY <1>3 DEF AdmissionGuarded, Wanted, Sess
<1>6. ASSUME NEW step \in {"check", "lock", "confirm", "held"}, NEW expected \in 1 .. published,
             NEW leases \in SUBSET Key, Become(s, step, expected, leases),
             step \in {"confirm", "held"} => Keys(content[expected]) \subseteq leases,
             leases \cap ExclusivelyLocked = {},
             step = "held" => Keys(content[expected]) \ Published \subseteq pending
      PROVE  Inv'
  <2> DEFINE x == [step |-> step, expected |-> expected, leases |-> leases]
  <2>1. x \in Sess /\ x.step = step /\ x.expected = expected /\ x.leases = leases
    BY DEF Sess
  <2>2. sess' = [sess EXCEPT ![s] = x]
    BY <1>6 DEF Become
  <2> HIDE DEF x
  <2> QED BY <1>4, <1>6, <2>1, <2>2, Zenon
<1>7. ASSUME Leave(s) PROVE Inv'
  BY <1>4, <1>7, Zenon DEF Leave, NoSess, Sess
<1>8. CASE \E expected \in 1 .. MaxGeneration : Begin(s, expected)
  <2>1. PICK expected \in 1 .. published : Become(s, "check", expected, {})
    BY <1>8 DEF Begin
  <2> QED BY <1>6, <2>1
<1>9. CASE CheckCursor(s)
  BY <1>5, <1>6, <1>7, <1>9 DEF CheckCursor, Enter
<1>10. CASE LockPackage(s)
  <2>1. ASSUME NEW k \in Wanted(s), k \notin ExclusivelyLocked, sess[s].step = "lock",
               Become(s, "lock", sess[s].expected, sess[s].leases \cup {k})
        PROVE  Inv'
    <3>1. sess[s].expected \in 1 .. Len(content)
      BY <1>5, <2>1 DEF published
    <3>2. content[sess[s].expected] \in [Package -> Nat]
      BY <3>1 DEF TypeOK
    <3>3. k \in Key
      BY <3>2, KeysType DEF Wanted
    <3> QED BY <1>5, <1>6, <2>1, <3>3
  <2> QED BY <1>7, <1>10, <2>1 DEF LockPackage
<1>11. CASE AllLocked(s)
  BY <1>5, <1>6, <1>11 DEF AllLocked, Enter, Wanted
<1>12. CASE Confirm(s)
  <2>1. CASE Current(s)
    <3>1. Keys(content[sess[s].expected]) = Published
      BY <1>5, <1>12, <2>1 DEF Current, Published, Confirm
    <3> QED BY <1>5, <1>6, <1>12, <2>1, <3>1 DEF Confirm, Enter
  <2> QED BY <1>7, <1>12, <2>1 DEF Confirm
<1>13. CASE Release(s)
  BY <1>7, <1>13 DEF Release
<1> QED BY <1>8, <1>9, <1>10, <1>11, <1>12, <1>13 DEF Admit

\* The invariant holds throughout.
THEOREM AlwaysGuarded == Spec => []Inv
<1>1. Init => Inv
  BY InitInv
<1>2. Inv /\ [Next]_vars => Inv'
  <2> SUFFICES ASSUME Inv, [Next]_vars PROVE Inv'
    OBVIOUS
  <2>1. CASE \E new \in [Package -> 0 .. MaxLife] : Publish(new)
    BY <2>1, PublishInv
  <2>2. CASE Retire \/ DrainLost
    BY <2>2, DrainInv DEF Retire
  <2>3. CASE \E k \in retiring : Remove(k)
    BY <2>3, RemoveInv
  <2>4. CASE \E s \in Session, expected \in 1 .. MaxGeneration : Begin(s, expected)
    BY <2>4, SessionInv
  <2>5. CASE \E s \in Session : Admit(s) \/ Release(s)
    BY <2>5, SessionInv
  <2>6. CASE UNCHANGED vars
    BY <2>6 DEF vars, Inv, TypeOK, AdmissionGuarded, CallsSeeOneGeneration, Published, published,
                Wanted, ExclusivelyLocked
  <2> QED BY <2>1, <2>2, <2>3, <2>4, <2>5, <2>6 DEF Next
<1> QED BY <1>1, <1>2, PTL DEF Spec

\* Every accepted call set holds all packages of one generation, which is
\* published or waits for it (acquire_published "without exposing a mixed graph").
THEOREM OneGeneration == Spec => []CallsSeeOneGeneration
<1>1. Inv => CallsSeeOneGeneration
  BY DEF Inv
<1> QED BY <1>1, AlwaysGuarded, PTL

\* No accepted call set uses an incarnation whose drain was applied: the drain
\* sees its locks, or the admission sees the new cursor.
THEOREM SurfacesKept == Spec => []CallsKeepTheirSurfaces
<1>1. Inv => CallsKeepTheirSurfaces
  <2> SUFFICES ASSUME Inv, NEW s \in Session, sess[s].step = "held"
               PROVE  Wanted(s) \cap (retiring \cup gone) = {}
    BY DEF CallsKeepTheirSurfaces
  <2>1. Wanted(s) \subseteq Published \cup pending
    BY DEF Inv, CallsSeeOneGeneration
  <2> QED BY <2>1 DEF Inv, AdmissionGuarded
<1> QED BY <1>1, AlwaysGuarded, PTL
===============================================================================
