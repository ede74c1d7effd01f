----------------------------- MODULE ReconcileStore -----------------------------
(* The package reconcile store (crates/reconcile): generations of package bytes *)
(* behind one receipt per package, selections over packages, and leases that    *)
(* keep a generation while someone uses it.  Every operation runs under the     *)
(* store's writer lock; letting a lease go does not, and a host may die between *)
(* any two file operations.                                                     *)
EXTENDS Naturals

CONSTANTS
    Host,           \* processes that use the store
    Package,
    MaxGeneration,  \* bound on the generations of a package
    MaxSelections,  \* bound on publications of the selection
    MaxCrashes      \* bound on hosts that die

ASSUME StoreAssumption ==
    MaxGeneration \in Nat /\ MaxSelections \in Nat /\ MaxCrashes \in Nat

VARIABLES
    receipt,    \* snapshot.json of each package
    bytes,      \* the generation directories g/<n>
    guards,     \* the files leases/<n>.lock that exist
    held,       \* the leases of each host
    job,        \* what the holder of .reconcile.lock is doing
    releasing,  \* packages each host waits to collect after a release
    selection,  \* the receipt of one selection
    issued,     \* the generations that were ever published
    crashes

vars == <<receipt, bytes, guards, held, job, releasing, selection, issued, crashes>>

Gen == 1 .. MaxGeneration
Cursor == Package \X Gen

\* Generation 0: there is no receipt.  A withdrawn receipt keeps its counter.
Receipt == [generation : 0 .. MaxGeneration, published : BOOLEAN]
NoReceipt == [generation |-> 0, published |-> FALSE]
Selection == [generation : Nat, published : BOOLEAN, packages : SUBSET Cursor]
NoSelection == [generation |-> 0, published |-> FALSE, packages |-> {}]

\* todo: the generation directories a collection has still to look at.
Step == {"idle", "write", "publish", "collect", "remove", "removing", "unlink"}
Job == [step : Step, host : SUBSET Host, package : SUBSET Package, at : SUBSET Cursor,
        todo : SUBSET Cursor]
NoJob == [step |-> "idle", host |-> {}, package |-> {}, at |-> {}, todo |-> {}]

Init ==
    /\ receipt = [p \in Package |-> NoReceipt]
    /\ bytes = [k \in Cursor |-> "none"]
    /\ guards = {}
    /\ held = [h \in Host |-> {}]
    /\ job = NoJob
    /\ releasing = [h \in Host |-> {}]
    /\ selection = NoSelection
    /\ issued = {}
    /\ crashes = 0

\* The holder of the lock goes on.
Goto(step, at, todo) ==
    job' = [step |-> step, host |-> job.host, package |-> job.package, at |-> at,
            todo |-> todo]

Leased(k) == \E h \in Host : k \in held[h]
Directories(p) == {k \in Cursor : k[1] = p /\ bytes[k] # "none"}
Published == {k \in Cursor : receipt[k[1]].published /\ receipt[k[1]].generation = k[2]}
\* verify_content
Intact(k) == bytes[k] = "full"

------------------------------------------------------------------------------
(* apply: the bytes go to a new directory before the receipt is renamed.        *)


\* One past the receipt and every directory, abandoned ones included.
NextGeneration(p, g) ==
    /\ g > receipt[p].generation /\ \A k \in Directories(p) : g > k[2]
    /\ g - 1 = receipt[p].generation \/ \E k \in Directories(p) : g - 1 = k[2]

\* What is current already is left alone unless an entry lost its mode.
Apply(h, p) ==
    /\ job = NoJob
    /\ \E g \in 0 .. MaxGeneration :
         /\ NextGeneration(p, g)
         /\ bytes' = [bytes EXCEPT ![<<p, g>>] = "partial"]
         /\ job' = [step |-> "write", host |-> {h}, package |-> {p}, at |-> {<<p, g>>},
                    todo |-> {}]
    /\ UNCHANGED <<receipt, guards, held, releasing, selection, issued, crashes>>

WriteGeneration ==
    /\ job.step = "write"
    /\ bytes' = [k \in Cursor |-> IF k \in job.at THEN "full" ELSE bytes[k]]
    /\ Goto("publish", job.at, job.todo)
    /\ UNCHANGED <<receipt, guards, held, releasing, selection, issued, crashes>>

\* The receipt is renamed into place, and the lock is dropped.
PublishReceipt ==
    /\ job.step = "publish"
    /\ \E k \in job.at :
         /\ receipt' = [receipt EXCEPT ![k[1]] = [generation |-> k[2], published |-> TRUE]]
         /\ issued' = issued \cup {k}
    /\ job' = NoJob
    /\ UNCHANGED <<bytes, guards, held, releasing, selection, crashes>>

------------------------------------------------------------------------------
(* withdraw and collect_retired.                                                *)

StartCollect(h, p) ==
    job' = [step |-> "collect", host |-> {h}, package |-> {p}, at |-> {},
            todo |-> Directories(p)]

\* Mutant: nothing is left of the package.
WithdrawForgets(h, p) ==
    /\ job = NoJob
    /\ receipt[p].generation # 0
    /\ receipt' = [receipt EXCEPT ![p] = NoReceipt]
    /\ StartCollect(h, p)
    /\ UNCHANGED <<bytes, guards, held, releasing, selection, issued, crashes>>

\* The package is hidden first.
Withdraw(h, p) ==
    /\ job = NoJob
    /\ receipt[p].generation # 0
    /\ receipt' = [receipt EXCEPT ![p] =
                     [generation |-> receipt[p].generation, published |-> FALSE]]
    /\ StartCollect(h, p)
    /\ UNCHANGED <<bytes, guards, held, releasing, selection, issued, crashes>>

CollectRetired(h, p) ==
    /\ job = NoJob
    /\ receipt[p].generation # 0
    /\ StartCollect(h, p)
    /\ UNCHANGED <<receipt, bytes, guards, held, releasing, selection, issued, crashes>>

\* Mutant: a generation nobody can find any more is nobody's.
RetainedNever(k) == k \in Published

\* The current generation stays, and so does one whose guard is locked.
Retained(k) == k \in Published \/ Leased(k)

\* Mutant: a generation in use ends the collection.
CollectStops ==
    /\ job.step = "collect"
    /\ \E k \in job.todo :
         /\ \A o \in job.todo : k[2] <= o[2]
         /\ guards' = IF k \in Published THEN guards ELSE guards \cup {k}
         /\ IF Retained(k) THEN Goto("collect", {}, {})
                           ELSE Goto("remove", {k}, job.todo \ {k})
    /\ UNCHANGED <<receipt, bytes, held, releasing, selection, issued, crashes>>

\* One directory after the other, oldest first; the guard file is created to be
\* locked exclusively.
CollectNext ==
    /\ job.step = "collect"
    /\ \E k \in job.todo :
         /\ \A o \in job.todo : k[2] <= o[2]
         /\ guards' = IF k \in Published THEN guards ELSE guards \cup {k}
         /\ IF Retained(k) THEN Goto("collect", {}, job.todo \ {k})
                           ELSE Goto("remove", {k}, job.todo \ {k})
    /\ UNCHANGED <<receipt, bytes, held, releasing, selection, issued, crashes>>

\* remove_tree, file by file.
RemoveTree ==
    /\ job.step \in {"remove", "removing"}
    /\ bytes' = [k \in Cursor |->
                   IF k \in job.at THEN IF job.step = "remove" THEN "partial" ELSE "none"
                   ELSE bytes[k]]
    /\ Goto(IF job.step = "remove" THEN "removing" ELSE "unlink", job.at, job.todo)
    /\ UNCHANGED <<receipt, guards, held, releasing, selection, issued, crashes>>

UnlinkGuard ==
    /\ job.step = "unlink"
    /\ guards' = guards \ job.at
    /\ Goto("collect", {}, job.todo)
    /\ UNCHANGED <<receipt, bytes, held, releasing, selection, issued, crashes>>

\* Guard files without a directory are what a crash left behind.
CollectDone ==
    /\ job.step = "collect" /\ job.todo = {}
    /\ guards' = {k \in guards : k[1] \in job.package => bytes[k] # "none" \/ Leased(k)}
    /\ job' = NoJob
    /\ UNCHANGED <<receipt, bytes, held, releasing, selection, issued, crashes>>

------------------------------------------------------------------------------
(* Leases.                                                                      *)

\* acquire and acquire_current: the current generation, if its bytes are intact.
Acquire(h, k) ==
    /\ job = NoJob
    /\ k \in Published /\ Intact(k)
    /\ held' = [held EXCEPT ![h] = held[h] \cup {k}]
    /\ guards' = guards \cup {k}
    /\ UNCHANGED <<receipt, bytes, job, releasing, selection, issued, crashes>>

\* release: the guard goes at once, the collection waits for the writer lock.
Release(h, k) ==
    /\ k \in held[h]
    /\ held' = [held EXCEPT ![h] = held[h] \ {k}]
    /\ releasing' = [releasing EXCEPT ![h] = releasing[h] \cup {k[1]}]
    /\ UNCHANGED <<receipt, bytes, guards, job, selection, issued, crashes>>

CollectReleased(h, p) ==
    /\ p \in releasing[h]
    /\ job = NoJob
    /\ StartCollect(h, p)
    /\ releasing' = [releasing EXCEPT ![h] = releasing[h] \ {p}]
    /\ UNCHANGED <<receipt, bytes, guards, held, selection, issued, crashes>>

\* A lease that goes out of scope only collects when nobody has the lock.
Drop(h, k) ==
    /\ k \in held[h]
    /\ held' = [held EXCEPT ![h] = held[h] \ {k}]
    /\ IF job = NoJob THEN StartCollect(h, k[1]) ELSE UNCHANGED job
    /\ UNCHANGED <<receipt, bytes, guards, releasing, selection, issued, crashes>>

------------------------------------------------------------------------------
(* Selections: a caller brings the cursor it read before.                       *)

\* compare_current: the revision covers the generation and whether it is published.
Expected(generation, published) ==
    selection.generation = generation /\ selection.published = published

\* retain_packages: every package at its current generation, or nothing.
Retainable(packages) == \A k \in packages : k \in Published /\ Intact(k)

PublishSelection(generation, published, packages) ==
    /\ job = NoJob
    /\ Expected(generation, published)
    /\ Retainable(packages)
    /\ guards' = guards \cup packages
    /\ selection' = IF published /\ selection.packages = packages THEN selection
                    ELSE [generation |-> generation + 1, published |-> TRUE,
                          packages |-> packages]
    /\ UNCHANGED <<receipt, bytes, held, job, releasing, issued, crashes>>

\* A later package turns out stale: the guard files made so far stay.
RetainFails(k) ==
    /\ job = NoJob
    /\ k \in Published /\ Intact(k)
    /\ guards' = guards \cup {k}
    /\ UNCHANGED <<receipt, bytes, held, job, releasing, selection, issued, crashes>>

AcquireSelection(h, generation) ==
    /\ job = NoJob
    /\ Expected(generation, TRUE)
    /\ Retainable(selection.packages)
    /\ guards' = guards \cup selection.packages
    /\ held' = [held EXCEPT ![h] = held[h] \cup selection.packages]
    /\ UNCHANGED <<receipt, bytes, job, releasing, selection, issued, crashes>>

WithdrawSelection(generation, published) ==
    /\ job = NoJob
    /\ generation # 0
    /\ Expected(generation, published)
    /\ selection' = [generation |-> generation, published |-> FALSE,
                     packages |-> selection.packages]
    /\ UNCHANGED <<receipt, bytes, guards, held, job, releasing, issued, crashes>>

------------------------------------------------------------------------------
\* A host dies: the system lets its locks go, and the files stay as they are.
Crash(h) ==
    /\ crashes < MaxCrashes
    /\ crashes' = crashes + 1
    /\ held' = [held EXCEPT ![h] = {}]
    /\ releasing' = [releasing EXCEPT ![h] = {}]
    /\ job' = IF h \in job.host THEN NoJob ELSE job
    /\ UNCHANGED <<receipt, bytes, guards, selection, issued>>

Work ==
    \/ WriteGeneration \/ PublishReceipt
    \/ CollectNext \/ RemoveTree \/ UnlinkGuard \/ CollectDone

Next ==
    \/ Work
    \/ \E h \in Host, p \in Package :
         \/ Apply(h, p) \/ Withdraw(h, p) \/ CollectRetired(h, p) \/ CollectReleased(h, p)
    \/ \E h \in Host, k \in Cursor : Acquire(h, k) \/ Release(h, k) \/ Drop(h, k)
    \/ \E generation \in 0 .. MaxSelections - 1, published \in BOOLEAN,
         packages \in SUBSET Published : PublishSelection(generation, published, packages)
    \/ \E generation \in 0 .. MaxSelections :
         \/ \E published \in BOOLEAN : WithdrawSelection(generation, published)
         \/ \E h \in Host : AcquireSelection(h, generation)
    \/ \E k \in Published : RetainFails(k)
    \/ \E h \in Host : Crash(h)

Spec == Init /\ [][Next]_vars

\* The holder of the writer lock goes on, a host that waits for it gets it at
\* some time, and hosts call the retirement API now and then.
FairSpec ==
    /\ Spec
    /\ WF_vars(Work)
    /\ \A p \in Package : SF_vars(\E h \in Host : CollectRetired(h, p))

------------------------------------------------------------------------------
(* Properties.                                                                  *)

\* Receipts, directories and jobs keep their types.
TypeOK ==
    /\ receipt \in [Package -> Receipt]
    /\ bytes \in [Cursor -> {"none", "partial", "full"}]
    /\ guards \subseteq Cursor
    /\ held \in [Host -> SUBSET Cursor]
    /\ job \in Job
    /\ releasing \in [Host -> SUBSET Package]
    /\ selection \in Selection
    /\ issued \subseteq Cursor
    /\ crashes \in Nat

\* "Publication replacement and withdrawal cannot delete its managed bytes": a
\* leased generation keeps all of its files, and the guard file that protects
\* them, through applies, withdrawals and collections of other hosts and crashes.
LeasedBytesKept ==
    \A h \in Host : \A k \in held[h] : Intact(k) /\ k \in guards

\* The receipt never names a generation that is incomplete, whenever a host dies.
CurrentComplete == \A k \in Published : Intact(k)

\* What the holder of the writer lock works on is nobody's: a candidate is past
\* the counter, and what is being removed is neither current nor leased.
JobApart ==
    /\ job.step \in {"write", "publish"} =>
         \A k \in job.at : k[2] > receipt[k[1]].generation
    /\ job.step = "publish" => \A k \in job.at : Intact(k)
    /\ job.step \in {"remove", "removing", "unlink"} =>
         \A k \in job.at : k \notin Published /\ ~Leased(k)

\* The counter is past everything that was ever published.
Counted ==
    /\ \A k \in issued : k[2] <= receipt[k[1]].generation
    /\ Published \subseteq issued
    /\ \A h \in Host : held[h] \subseteq issued

\* The inductive invariant of apply, withdraw, leases and collection: a crash
\* between two file operations finds every lease and every receipt complete.
Inv == TypeOK /\ LeasedBytesKept /\ CurrentComplete /\ JobApart /\ Counted

\* "The hidden receipt retains its counter so reinstall cannot reuse an identity":
\* a cursor that was replaced or withdrawn is never admitted again.
IdentityNotReused ==
    [][\A k \in Cursor : k \in issued \ Published => k \notin Published']_vars

\* An abandoned candidate is not overwritten: apply writes to a directory that is
\* not there, so that no file of a dead attempt gets into a generation.
CandidatesFresh ==
    [][job.step = "idle" /\ job'.step = "write" => \A k \in job'.at : bytes[k] = "none"]_vars

\* "Hidden receipts keep their counter, preventing ABA on a later publication": a
\* selection cursor stands for one set of packages, and once it is replaced or
\* withdrawn it is never admitted again.
SelectionNoABA ==
    [][/\ selection'.generation >= selection.generation
       /\ selection'.generation = selection.generation =>
            /\ selection'.packages = selection.packages
            /\ selection'.published => selection.published]_vars


\* "Residual data is recoverable by the explicit retirement API": what is neither
\* current nor leased gets reclaimed, whoever died or lost the race for the lock.
Reclaimed ==
    \A k \in Cursor :
        (/\ bytes[k] # "none" /\ k \notin Published /\ ~Leased(k)
         /\ k \notin job.at /\ receipt[k[1]].generation # 0)
        ~> bytes[k] = "none"
==============================================================================
