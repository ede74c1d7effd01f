-------------------------- MODULE ReconcileStoreProofs --------------------------
(* Leases keep their bytes, the receipt names complete bytes and an identity is *)
(* never reused, for any number of hosts, packages, generations and crashes.    *)
EXTENDS ReconcileStore, TLAPS

\* A cursor is a package and a generation.
LEMMA CursorType ==
  ASSUME NEW k \in Cursor
  PROVE  k[1] \in Package /\ k[2] \in Gen /\ k[2] \in Nat \ {0} /\ k = <<k[1], k[2]>>
  BY StoreAssumption DEF Cursor, Gen

LEMMA InitInv == Init => Inv
<1> SUFFICES ASSUME Init PROVE Inv
  OBVIOUS
<1>1. TypeOK
  BY StoreAssumption DEF Init, TypeOK, Receipt, NoReceipt, Job, NoJob, Step, Selection, NoSelection
<1>2. Published = {}
  BY CursorType DEF Init, Published, NoReceipt
<1>3. LeasedBytesKept /\ CurrentComplete
  BY <1>2 DEF Init, LeasedBytesKept, CurrentComplete
<1>4. JobApart /\ Counted
  BY <1>2 DEF Init, JobApart, Counted, NoJob
<1> QED BY <1>1, <1>3, <1>4 DEF Inv

\* apply writes to a directory past the counter, which nobody can have leased.
LEMMA ApplyInv ==
  ASSUME Inv, NEW h \in Host, NEW p \in Package, Apply(h, p)
  PROVE  Inv'
<1>1. PICK g \in 0 .. MaxGeneration :
        /\ NextGeneration(p, g)
        /\ bytes' = [bytes EXCEPT ![<<p, g>>] = "partial"]
        /\ job' = [step |-> "write", host |-> {h}, package |-> {p}, at |-> {<<p, g>>},
                   todo |-> {}]
  BY Zenon DEF Apply
<1> DEFINE c == <<p, g>>
<1>2. receipt[p] \in Receipt /\ g > receipt[p].generation
  BY <1>1 DEF NextGeneration, Inv, TypeOK
<1>3. g \in Gen /\ c \in Cursor
  BY <1>2, StoreAssumption DEF Gen, Cursor, Receipt
<1>4. UNCHANGED <<receipt, guards, held, releasing, selection, issued, crashes>>
  BY DEF Apply
<1>5. Published' = Published
  BY <1>4 DEF Published
<1>6. c \notin issued
  BY <1>2, <1>3 DEF Inv, Counted, Receipt
<1>7. \A k \in Cursor : k # c => bytes'[k] = bytes[k]
  BY <1>1, <1>3 DEF Inv, TypeOK
<1>8. TypeOK'
  BY <1>1, <1>3, <1>4 DEF Inv, TypeOK, Job, Step
<1>9. LeasedBytesKept'
  BY <1>4, <1>6, <1>7 DEF Inv, LeasedBytesKept, Counted, Intact, TypeOK
<1>10. CurrentComplete'
  BY <1>5, <1>6, <1>7 DEF Inv, CurrentComplete, Counted, Intact, Published
<1>11. JobApart'
  BY <1>1, <1>2, <1>4 DEF JobApart
<1>12. Counted'
  BY <1>4, <1>5 DEF Inv, Counted
<1> QED BY <1>8, <1>9, <1>10, <1>11, <1>12 DEF Inv

\* The bytes are written to the candidate.
LEMMA WriteInv ==
  ASSUME Inv, WriteGeneration
  PROVE  Inv'
<1>1. UNCHANGED <<receipt, guards, held, releasing, selection, issued, crashes>>
  BY DEF WriteGeneration
<1>2. Published' = Published
  BY <1>1 DEF Published
<1>3. bytes' = [k \in Cursor |-> IF k \in job.at THEN "full" ELSE bytes[k]]
  BY DEF WriteGeneration
<1>4. job' = [step |-> "publish", host |-> job.host, package |-> job.package, at |-> job.at,
             todo |-> job.todo]
  BY DEF WriteGeneration, Goto
<1>5. job \in Job /\ job.step = "write"
  BY DEF WriteGeneration, Inv, TypeOK
<1>6. TypeOK'
  BY <1>1, <1>3, <1>4, <1>5 DEF Inv, TypeOK, Job, Step
<1>7. LeasedBytesKept'
  BY <1>1, <1>3 DEF Inv, LeasedBytesKept, Intact, TypeOK
<1>8. CurrentComplete'
  BY <1>2, <1>3 DEF Inv, CurrentComplete, Intact, Published
<1>9. JobApart'
  BY <1>1, <1>3, <1>4, <1>5 DEF Inv, JobApart, Intact, Job
<1>10. Counted'
  BY <1>1, <1>2 DEF Inv, Counted
<1> QED BY <1>6, <1>7, <1>8, <1>9, <1>10 DEF Inv

\* The renamed receipt names the complete candidate.
LEMMA PublishInv ==
  ASSUME Inv, PublishReceipt
  PROVE  /\ Inv'
         /\ \A k \in issued : k \in Published' => k \in Published
<1>1. PICK c \in job.at :
        /\ receipt' = [receipt EXCEPT ![c[1]] = [generation |-> c[2], published |-> TRUE]]
        /\ issued' = issued \cup {c}
  BY Zenon DEF PublishReceipt
<1>2. job \in Job /\ c \in Cursor /\ job.step = "publish"
  BY <1>1 DEF Inv, TypeOK, Job, PublishReceipt
<1>3. c[1] \in Package /\ c[2] \in Gen /\ c = <<c[1], c[2]>>
  BY <1>2, CursorType
<1>4. c[2] > receipt[c[1]].generation /\ Intact(c)
  BY <1>1, <1>2 DEF Inv, JobApart
<1>5. job' = NoJob /\ UNCHANGED <<bytes, guards, held, releasing, selection, crashes>>
  BY DEF PublishReceipt
<1>6. receipt \in [Package -> Receipt] /\ receipt' \in [Package -> Receipt]
  BY <1>1, <1>3, StoreAssumption DEF Inv, TypeOK, Receipt, Gen
<1>7. \A k \in Cursor : k[1] # c[1] => receipt'[k[1]] = receipt[k[1]]
  BY <1>1, <1>3, <1>6, CursorType
<1>8. receipt'[c[1]] = [generation |-> c[2], published |-> TRUE]
  BY <1>1, <1>3, <1>6
<1>9. Published' = {k \in Published : k[1] # c[1]} \cup {c}
  <2>1. ASSUME NEW k \in Cursor, k[1] # c[1] PROVE k \in Published' <=> k \in Published
    BY <2>1, <1>7 DEF Published
  <2>2. ASSUME NEW k \in Cursor, k[1] = c[1] PROVE k \in Published' <=> k = c
    BY <2>2, <1>3, <1>8, CursorType DEF Published
  <2> QED BY <2>1, <2>2, <1>2 DEF Published
<1>10. TypeOK'
  BY <1>1, <1>2, <1>5, <1>6 DEF Inv, TypeOK, NoJob, Job, Step
<1>11. LeasedBytesKept'
  BY <1>5 DEF Inv, LeasedBytesKept, Intact
<1>12. CurrentComplete'
  BY <1>4, <1>5, <1>9 DEF Inv, CurrentComplete, Intact
<1>13. JobApart'
  BY <1>5 DEF JobApart, NoJob
<1>14. Counted'
  <2>1. \A k \in issued' : k[2] <= receipt'[k[1]].generation
    <3> SUFFICES ASSUME NEW k \in issued' PROVE k[2] <= receipt'[k[1]].generation
      OBVIOUS
    <3>1. k \in Cursor /\ (k \in issued \/ k = c)
      BY <1>1, <1>2 DEF Inv, TypeOK
    <3>2. CASE k[1] # c[1]
      BY <3>1, <3>2, <1>7 DEF Inv, Counted
    <3>3. CASE k[1] = c[1]
      <4>1. receipt[k[1]] \in Receipt /\ k[2] \in Nat /\ c[2] \in Nat
        BY <3>1, <1>2, <1>6, CursorType
      <4>2. k = c \/ k[2] <= receipt[c[1]].generation
        BY <3>1, <3>3 DEF Inv, Counted
      <4> QED BY <4>1, <4>2, <3>3, <1>4, <1>8, StoreAssumption DEF Receipt
    <3> QED BY <3>2, <3>3
  <2>2. Published' \subseteq issued'
    BY <1>1, <1>9 DEF Inv, Counted
  <2>3. \A h \in Host : held'[h] \subseteq issued'
    BY <1>1, <1>5 DEF Inv, Counted
  <2> QED BY <2>1, <2>2, <2>3 DEF Counted
<1>15. c \notin issued
  BY <1>3, <1>4, <1>6, StoreAssumption DEF Inv, Counted, Receipt, Gen
<1>16. \A k \in issued : k \in Published' => k \in Published
  BY <1>9, <1>15
<1> QED BY <1>10, <1>11, <1>12, <1>13, <1>14, <1>16 DEF Inv

\* Hiding a package takes its generation out of what is published.
LEMMA WithdrawInv ==
  ASSUME Inv, NEW h \in Host, NEW p \in Package, Withdraw(h, p)
  PROVE  Inv' /\ Published' \subseteq Published
<1>1. /\ receipt' = [receipt EXCEPT ![p] =
                       [generation |-> receipt[p].generation, published |-> FALSE]]
      /\ job' = [step |-> "collect", host |-> {h}, package |-> {p}, at |-> {},
                 todo |-> Directories(p)]
      /\ UNCHANGED <<bytes, guards, held, releasing, selection, issued, crashes>>
  BY DEF Withdraw, StartCollect
<1>2. receipt \in [Package -> Receipt] /\ receipt' \in [Package -> Receipt]
  BY <1>1 DEF Inv, TypeOK, Receipt
<1>3. \A q \in Package :
        /\ receipt'[q].generation = receipt[q].generation
        /\ receipt'[q].published => receipt[q].published
  BY <1>1, <1>2
<1>4. Published' \subseteq Published
  BY <1>3, CursorType DEF Published
<1>5. TypeOK'
  BY <1>1, <1>2 DEF Inv, TypeOK, Job, Step, Directories
<1>6. LeasedBytesKept'
  BY <1>1 DEF Inv, LeasedBytesKept, Intact
<1>7. CurrentComplete'
  BY <1>1, <1>4 DEF Inv, CurrentComplete, Intact
<1>8. JobApart'
  BY <1>1 DEF JobApart
<1>9. Counted'
  BY <1>1, <1>3, <1>4, CursorType DEF Inv, Counted, TypeOK
<1> QED BY <1>4, <1>5, <1>6, <1>7, <1>8, <1>9 DEF Inv

\* A step that starts or goes on with a collection, takes or releases leases that
\* are admissible, and leaves receipts and bytes alone.
LEMMA QuietInv ==
  ASSUME Inv,
         UNCHANGED <<receipt, bytes, issued>>,
         guards' \subseteq Cursor, job' \in Job, releasing' \in [Host -> SUBSET Package],
         selection' \in Selection, crashes' \in Nat, held' \in [Host -> SUBSET Cursor],
         \A h \in Host : \A k \in held'[h] :
            k \in guards' /\ (k \in held[h] \/ (k \in Published /\ Intact(k))),
         JobApart'
  PROVE  Inv' /\ Published' = Published
<1>1. Published' = Published
  BY DEF Published
<1>2. TypeOK'
  BY DEF Inv, TypeOK
<1>3. LeasedBytesKept'
  BY DEF Inv, LeasedBytesKept, Intact
<1>4. CurrentComplete'
  BY <1>1 DEF Inv, CurrentComplete, Intact
<1>5. Counted'
  <2>1. \A h \in Host : held'[h] \subseteq issued'
    BY DEF Inv, Counted
  <2> QED BY <1>1, <2>1 DEF Inv, Counted
<1> QED BY <1>1, <1>2, <1>3, <1>4, <1>5 DEF Inv

\* The current retirement call starts; the same goes for a release that waited.
LEMMA CollectStartInv ==
  ASSUME Inv, NEW h \in Host, NEW p \in Package,
         CollectRetired(h, p) \/ CollectReleased(h, p)
  PROVE  Inv' /\ Published' = Published
<1>1. job' = [step |-> "collect", host |-> {h}, package |-> {p}, at |-> {},
             todo |-> Directories(p)]
  BY DEF CollectRetired, CollectReleased, StartCollect
<1>2. job' \in Job /\ JobApart'
  BY <1>1 DEF Job, Step, Directories, JobApart
<1>3. releasing' \in [Host -> SUBSET Package]
  BY DEF CollectRetired, CollectReleased, Inv, TypeOK
<1>4. UNCHANGED <<receipt, bytes, issued, guards, held, selection, crashes>>
  BY DEF CollectRetired, CollectReleased
<1> QED
  BY <1>2, <1>3, <1>4, QuietInv DEF Inv, TypeOK, LeasedBytesKept

\* Only a generation that is neither current nor leased is chosen for removal.
LEMMA CollectNextInv ==
  ASSUME Inv, CollectNext
  PROVE  Inv' /\ Published' = Published
<1>1. PICK k \in job.todo :
        /\ guards' = IF k \in Published THEN guards ELSE guards \cup {k}
        /\ IF Retained(k) THEN Goto("collect", {}, job.todo \ {k})
                          ELSE Goto("remove", {k}, job.todo \ {k})
  BY Zenon DEF CollectNext
<1>2. job \in Job /\ k \in Cursor
  BY <1>1 DEF Inv, TypeOK, Job
<1>3. UNCHANGED <<receipt, bytes, held, releasing, selection, issued, crashes>>
  BY DEF CollectNext
<1>4. job' \in Job
  BY <1>1, <1>2 DEF Goto, Job, Step
<1>5. Published' = Published /\ Leased(k)' = Leased(k)
  BY <1>3 DEF Published, Leased
<1>6. JobApart'
  <2>1. CASE Retained(k)
    BY <1>1, <2>1 DEF Goto, JobApart
  <2>2. CASE ~Retained(k)
    <3>1. job'.step = "remove" /\ job'.at = {k}
      BY <1>1, <2>2 DEF Goto
    <3>2. k \notin Published' /\ ~Leased(k)'
      BY <2>2, <1>5 DEF Retained
    <3> QED BY <3>1, <3>2 DEF JobApart
  <2> QED BY <2>1, <2>2
<1>7. guards' \subseteq Cursor /\ guards \subseteq guards'
  BY <1>1, <1>2 DEF Inv, TypeOK
<1> QED
  BY <1>3, <1>4, <1>6, <1>7, QuietInv DEF Inv, TypeOK, LeasedBytesKept

\* Files are removed only under a generation nobody has.
LEMMA RemoveInv ==
  ASSUME Inv, RemoveTree
  PROVE  Inv' /\ Published' = Published
<1>1. UNCHANGED <<receipt, guards, held, releasing, selection, issued, crashes>>
  BY DEF RemoveTree
<1>2. job \in Job /\ job.step \in {"remove", "removing"}
  BY DEF RemoveTree, Inv, TypeOK
<1>3. /\ bytes' \in [Cursor -> {"none", "partial", "full"}]
      /\ \A k \in Cursor \ job.at : bytes'[k] = bytes[k]
  BY DEF RemoveTree, Inv, TypeOK
<1>4. /\ job'.at = job.at /\ job'.step \in {"removing", "unlink"}
      /\ job' \in Job
  BY <1>2 DEF RemoveTree, Goto, Job, Step
<1>5. \A k \in job.at : k \notin Published /\ ~Leased(k)
  BY <1>2 DEF Inv, JobApart
<1>6. Published' = Published /\ \A k \in job.at : Leased(k)' = Leased(k)
  BY <1>1 DEF Published, Leased
<1>7. TypeOK'
  BY <1>1, <1>3, <1>4 DEF Inv, TypeOK
<1>8. LeasedBytesKept'
  BY <1>1, <1>3, <1>5 DEF Inv, TypeOK, LeasedBytesKept, Intact, Leased
<1>9. CurrentComplete'
  BY <1>3, <1>5, <1>6 DEF Inv, CurrentComplete, Intact, Published
<1>10. JobApart'
  BY <1>4, <1>5, <1>6 DEF JobApart
<1>11. Counted'
  BY <1>1, <1>6 DEF Inv, Counted
<1> QED BY <1>6, <1>7, <1>8, <1>9, <1>10, <1>11 DEF Inv

\* Guard files go only when nobody has the lock on them.
LEMMA UnlinkInv ==
  ASSUME Inv, UnlinkGuard \/ CollectDone
  PROVE  Inv' /\ Published' = Published
<1>1. UNCHANGED <<receipt, bytes, held, releasing, selection, issued, crashes>>
  BY DEF UnlinkGuard, CollectDone
<1>2. guards' \subseteq guards
  BY DEF UnlinkGuard, CollectDone
<1>3. job' \in Job /\ JobApart'
  <2>1. job \in Job
    BY DEF Inv, TypeOK
  <2>2. CASE UnlinkGuard
    BY <2>1, <2>2 DEF UnlinkGuard, Goto, Job, Step, JobApart
  <2>3. CASE CollectDone
    BY <2>3 DEF CollectDone, NoJob, Job, Step, JobApart
  <2> QED BY <2>2, <2>3
<1>4. \A h \in Host : \A k \in held[h] : k \in guards'
  <2> SUFFICES ASSUME NEW h \in Host, NEW k \in held[h] PROVE k \in guards'
    OBVIOUS
  <2>1. k \in guards /\ Leased(k)
    BY DEF Inv, LeasedBytesKept, Leased
  <2>2. CASE UnlinkGuard
    BY <2>1, <2>2 DEF UnlinkGuard, Inv, JobApart
  <2>3. CASE CollectDone
    BY <2>1, <2>3 DEF CollectDone
  <2> QED BY <2>2, <2>3
<1> QED
  BY <1>1, <1>2, <1>3, <1>4, QuietInv DEF Inv, TypeOK

\* An operation that runs while nobody has the lock leaves no job behind.
LEMMA NoJobApart == job' = NoJob => JobApart' /\ job' \in Job
  BY DEF NoJob, JobApart, Job, Step

\* Leases are taken on what is current and intact.
LEMMA AcquireInv ==
  ASSUME Inv, NEW h \in Host, NEW keys \in SUBSET Cursor, job = NoJob, Retainable(keys),
         held' = [held EXCEPT ![h] = held[h] \cup keys],
         guards' = guards \cup keys,
         UNCHANGED <<receipt, bytes, job, releasing, selection, issued, crashes>>
  PROVE  Inv' /\ Published' = Published
<1>1. held' \in [Host -> SUBSET Cursor] /\ guards' \subseteq Cursor
  BY DEF Inv, TypeOK
<1>2. \A i \in Host : \A k \in held'[i] :
        k \in guards' /\ (k \in held[i] \/ (k \in Published /\ Intact(k)))
  BY DEF Inv, TypeOK, LeasedBytesKept, Retainable
<1>3. JobApart' /\ job' \in Job
  BY NoJobApart
<1> QED BY <1>1, <1>2, <1>3, QuietInv DEF Inv, TypeOK

\* Letting a lease go frees no more than that lease.
LEMMA ReleaseInv ==
  ASSUME Inv, NEW h \in Host, NEW k \in Cursor, Release(h, k) \/ Drop(h, k)
  PROVE  Inv' /\ Published' = Published
<1>1. /\ UNCHANGED <<receipt, bytes, guards, selection, issued, crashes>>
      /\ held' = [held EXCEPT ![h] = held[h] \ {k}]
  BY DEF Release, Drop
<1>2. held' \in [Host -> SUBSET Cursor] /\ \A i \in Host : held'[i] \subseteq held[i]
  BY <1>1 DEF Inv, TypeOK
<1>3. k[1] \in Package
  BY CursorType
<1>4. releasing' \in [Host -> SUBSET Package]
  BY <1>3 DEF Release, Drop, Inv, TypeOK
<1>5. \A l \in Cursor : Leased(l)' => Leased(l)
  BY <1>2 DEF Leased
<1>6. Published' = Published
  BY <1>1 DEF Published
<1>7. job' \in Job /\ JobApart'
  <2>1. CASE job' = job
    <3>1. \A l \in job.at : l \in Cursor
      BY DEF Inv, TypeOK, Job
    <3> QED BY <2>1, <3>1, <1>1, <1>5, <1>6 DEF Inv, TypeOK, JobApart, Intact
  <2>2. CASE StartCollect(h, k[1])
    BY <2>2, <1>3 DEF StartCollect, Job, Step, Directories, JobApart
  <2> QED BY <2>1, <2>2 DEF Release, Drop
<1> QED BY <1>1, <1>2, <1>4, <1>7, QuietInv DEF Inv, TypeOK, LeasedBytesKept

\* Selections are receipts of their own.
LEMMA SelectionInv ==
  ASSUME Inv, job = NoJob, selection' \in Selection,
         guards' \subseteq Cursor, guards \subseteq guards',
         UNCHANGED <<receipt, bytes, held, job, releasing, issued, crashes>>
  PROVE  Inv' /\ Published' = Published
  BY NoJobApart, QuietInv DEF Inv, TypeOK, LeasedBytesKept

\* A dead host leaves files behind and no lock.
LEMMA CrashInv ==
  ASSUME Inv, NEW h \in Host, Crash(h)
  PROVE  Inv' /\ Published' = Published
<1>1. UNCHANGED <<receipt, bytes, guards, selection, issued>>
  BY DEF Crash
<1>2. /\ held' \in [Host -> SUBSET Cursor] /\ \A i \in Host : held'[i] \subseteq held[i]
      /\ releasing' \in [Host -> SUBSET Package] /\ crashes' \in Nat
  BY DEF Crash, Inv, TypeOK
<1>3. \A l \in Cursor : Leased(l)' => Leased(l)
  BY <1>2 DEF Leased
<1>4. Published' = Published
  BY <1>1 DEF Published
<1>5. job' \in Job /\ JobApart'
  <2>1. CASE job' = job
    <3>1. \A l \in job.at : l \in Cursor
      BY DEF Inv, TypeOK, Job
    <3> QED BY <2>1, <3>1, <1>1, <1>3, <1>4 DEF Inv, TypeOK, JobApart, Intact
  <2>2. CASE job' = NoJob
    BY <2>2, NoJobApart
  <2> QED BY <2>1, <2>2 DEF Crash
<1> QED BY <1>1, <1>2, <1>5, QuietInv DEF Inv, TypeOK, LeasedBytesKept

\* Every step keeps the invariant, and publishes nothing that was published before
\* and is no longer.
LEMMA NextInv ==
  ASSUME Inv, [Next]_vars
  PROVE  Inv' /\ \A k \in issued : k \in Published' => k \in Published
<1>1. CASE Work
  BY <1>1, WriteInv, PublishInv, CollectNextInv, RemoveInv, UnlinkInv
  DEF Work, WriteGeneration, Published
<1>2. ASSUME NEW h \in Host, NEW p \in Package, Apply(h, p)
      PROVE  Inv' /\ Published' = Published
  BY <1>2, ApplyInv, Zenon DEF Apply, Published
<1>3. ASSUME NEW h \in Host, NEW p \in Package,
             Withdraw(h, p) \/ CollectRetired(h, p) \/ CollectReleased(h, p)
      PROVE  Inv' /\ Published' \subseteq Published
  BY <1>3, WithdrawInv, CollectStartInv
<1>4. ASSUME NEW h \in Host, NEW k \in Cursor, Acquire(h, k) \/ Release(h, k) \/ Drop(h, k)
      PROVE  Inv' /\ Published' = Published
  <2>1. CASE Acquire(h, k)
    <3>1. {k} \in SUBSET Cursor /\ Retainable({k})
      BY <2>1 DEF Acquire, Retainable
    <3> QED BY <2>1, <3>1, AcquireInv, Zenon DEF Acquire
  <2>2. CASE Release(h, k) \/ Drop(h, k)
    BY <2>2, ReleaseInv
  <2> QED BY <1>4, <2>1, <2>2
<1>5. ASSUME NEW generation \in 0 .. MaxSelections - 1, NEW published \in BOOLEAN,
             NEW packages \in SUBSET Published,
             PublishSelection(generation, published, packages)
      PROVE  Inv' /\ Published' = Published
  <2>1. packages \in SUBSET Cursor /\ guards' = guards \cup packages
    BY <1>5 DEF Published, PublishSelection
  <2>2. selection' \in Selection
    BY <1>5, <2>1, StoreAssumption DEF PublishSelection, Selection, Inv, TypeOK
  <2> QED BY <1>5, <2>1, <2>2, SelectionInv DEF PublishSelection, Inv, TypeOK
<1>6. ASSUME NEW generation \in 0 .. MaxSelections, NEW published \in BOOLEAN,
             WithdrawSelection(generation, published)
      PROVE  Inv' /\ Published' = Published
  <2>1. selection' \in Selection
    BY <1>6, StoreAssumption DEF WithdrawSelection, Selection, Inv, TypeOK
  <2> QED BY <1>6, <2>1, SelectionInv DEF WithdrawSelection, Inv, TypeOK
<1>7. ASSUME NEW h \in Host, NEW generation \in 0 .. MaxSelections,
             AcquireSelection(h, generation)
      PROVE  Inv' /\ Published' = Published
  <2>1. selection.packages \in SUBSET Cursor
    BY DEF Inv, TypeOK, Selection
  <2> QED BY <1>7, <2>1, AcquireInv, Zenon DEF AcquireSelection
<1>8. ASSUME NEW k \in Published, RetainFails(k)
      PROVE  Inv' /\ Published' = Published
  BY <1>8, SelectionInv DEF RetainFails, Published, Inv, TypeOK
<1>9. ASSUME NEW h \in Host, Crash(h)
      PROVE  Inv' /\ Published' = Published
  BY <1>9, CrashInv
<1>10. CASE UNCHANGED vars
  <2>1. JobApart'
    BY <1>10 DEF vars, Inv, JobApart, Published, Leased, Intact
  <2> QED BY <1>10, <2>1, QuietInv DEF vars, Inv, TypeOK, LeasedBytesKept
<1> QED
  BY <1>1, <1>2, <1>3, <1>4, <1>5, <1>6, <1>7, <1>8, <1>9, <1>10 DEF Next

\* The invariant holds always.
THEOREM AlwaysApart == Spec => []Inv
<1>1. Inv /\ [Next]_vars => Inv'
  BY NextInv
<1> QED BY InitInv, <1>1, PTL DEF Spec

\* GenerationLease: a leased generation keeps its files and its guard.
THEOREM LeasesKeepBytes == Spec => []LeasedBytesKept
<1>1. Inv => LeasedBytesKept
  BY DEF Inv
<1> QED BY AlwaysApart, <1>1, PTL

\* A receipt never names an incomplete generation.
THEOREM CurrentAlwaysComplete == Spec => []CurrentComplete
<1>1. Inv => CurrentComplete
  BY DEF Inv
<1> QED BY AlwaysApart, <1>1, PTL

\* withdraw keeps the counter, so that no identity comes back.
THEOREM IdentitiesUnique == Spec => IdentityNotReused
<1> DEFINE A == \A k \in Cursor : k \in issued \ Published => k \notin Published'
<1>1. Inv /\ [Next]_vars => [A]_vars
  BY NextInv
<1>2. Spec => [][A]_vars
  BY AlwaysApart, <1>1, PTL DEF Spec
<1> QED BY <1>2 DEF IdentityNotReused
==============================================================================
