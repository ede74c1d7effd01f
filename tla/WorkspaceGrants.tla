---------------------------- MODULE WorkspaceGrants ----------------------------
(* The workspace grant store of one scope: one record per package generation,   *)
(* and one journal per operation that prepares candidate grants, waits for the  *)
(* capability cutover and retires the prior ones, or rolls back.  Every call    *)
(* holds the store's lock; it writes its files one after the other and may die  *)
(* between any two.  Several operations may be reviewed against one snapshot.   *)
EXTENDS Integers, FiniteSets

CONSTANTS
    Plugin, Generation,
    Operation,
    Nothing

ASSUME GrantAssumption == Nothing \notin Generation \cup Operation

VARIABLES
    record,     \* the stored grant of each package generation
    change,     \* the reviewed change set of each operation
    journal,    \* the phase of each operation
    priors,     \* the records each intent found at its candidates' paths
    call,       \* the call that holds the store's lock
    todo,       \* the packages whose records it has still to write
    live,       \* external: the generation of each package that is published
    cutovers,   \* external: the operations whose generation was published
    revision    \* external: the state revision, which a cutover advances

grantVars == <<record, change, journal, priors, call, todo, live, cutovers, revision>>

NoCall == [op |-> Nothing]
Candidates(o) == DOMAIN change[o].grants
Granted(o, p) == [kind |-> "granted", op |-> o, revision |-> change[o].revision]
Revoked(o, prior) ==
    [kind |-> "revoked", op |-> o, revision |-> change[o].revision, prior |-> prior]
Active(r) == r # Nothing /\ r.kind = "granted"

--------------------------------------------------------------------------------
(* snapshot_scope: refused while a record is newer than the state it is taken   *)
(* for, and while a package has two granted generations.                        *)

Snapshot == [p \in Plugin |-> [g \in Generation |->
               IF Active(record[p][g]) THEN record[p][g] ELSE Nothing]]

GrantedGenerations(p) == {g \in Generation : Active(record[p][g])}

SnapshotTaken(state) ==
    /\ \A p \in Plugin, g \in Generation :
         record[p][g] # Nothing => record[p][g].revision <= state
    /\ \A p \in Plugin : Cardinality(GrantedGenerations(p)) <= 1

\* A change set is reviewed: packages get a grant for a generation, lose the one
\* they have, or both.  The snapshot it was planned from is bound to it, and may be
\* left out where no prior grant is touched.
Review(o) ==
    /\ change[o] = Nothing
    /\ SnapshotTaken(revision)
    /\ \E changed \in SUBSET Plugin : \E granted \in SUBSET changed :
         \E grants \in [granted -> Generation] :
           LET retired == {p \in changed : GrantedGenerations(p) # {}}
           IN  /\ changed # {} /\ changed \ granted \subseteq retired
               /\ change' = [change EXCEPT ![o] =
                    [revision |-> revision + 1, grants |-> grants,
                     retirements |-> [p \in retired |->
                                        CHOOSE g \in Generation : Active(record[p][g])],
                     bound |-> retired # {}, snapshot |-> Snapshot]]
    /\ UNCHANGED <<record, journal, priors, call, todo, live, cutovers, revision>>

Prior(o, p) == change[o].snapshot[p][change[o].retirements[p]]

\* Callers hold the lock of the package graph and finish what a crash interrupted
\* before they begin another operation; reviews are not serialised.
Settled == \A o \in Operation : journal[o] \in {"none", "completed", "rolled-back"}

\* begin_change_set: the intent is recorded before any candidate is written.
BeginChangeSet(o) ==
    LET c == change[o]
        found == [p \in DOMAIN c.grants |-> record[p][c.grants[p]]]
    IN  /\ call = NoCall /\ c # Nothing /\ journal[o] = "none" /\ Settled
        /\ SnapshotTaken(c.revision - 1)
        /\ c.bound => c.snapshot = Snapshot
        /\ \A p \in DOMAIN c.grants :
             Active(found[p]) => p \in DOMAIN c.retirements /\ found[p] = Prior(o, p)
        /\ journal' = [journal EXCEPT ![o] = "intent"]
        /\ priors' = [priors EXCEPT ![o] = found]
        /\ UNCHANGED <<record, change, call, todo, live, cutovers, revision>>

EnterCall(o, what, phase, packages) ==
    /\ call = NoCall
    /\ call' = [op |-> o, what |-> what]
    /\ journal' = [journal EXCEPT ![o] = phase]
    /\ todo' = packages
LeaveCall == call' = NoCall /\ todo' = {}
Fail == LeaveCall /\ UNCHANGED <<record, journal>>
Others == UNCHANGED <<change, priors, live, cutovers, revision>>
Calling(what) == call # NoCall /\ call.what = what

--------------------------------------------------------------------------------
(* prepare_change_set                                                          *)

PrepareChangeSet(o) ==
    /\ journal[o] \in {"intent", "preparing", "prepared"}
    /\ EnterCall(o, "prepare", IF journal[o] = "intent" THEN "preparing" ELSE journal[o],
             Candidates(o))
    /\ Others /\ UNCHANGED record

\* put_locked: an older record is replaced, a newer one or another one of the same
\* revision refuses the call.
PutCandidate(p) ==
    LET o == call.op
        g == change[o].grants[p]
        current == record[p][g]
    IN  /\ Calling("prepare") /\ p \in todo
        /\ IF current \in {Nothing, Granted(o, p)} \/ current.revision < change[o].revision
             THEN /\ record' = [record EXCEPT ![p][g] = Granted(o, p)]
                  /\ todo' = todo \ {p}
                  /\ UNCHANGED <<call, journal>>
             ELSE Fail
        /\ Others

Prepared ==
    /\ Calling("prepare") /\ todo = {}
    /\ journal' = [journal EXCEPT ![call.op] = "prepared"]
    /\ LeaveCall
    /\ Others /\ UNCHANGED record

--------------------------------------------------------------------------------
(* The cutover, and the retirement it allows.                                  *)

CandidatesStand(o) ==
    \A p \in Candidates(o) : record[p][change[o].grants[p]] = Granted(o, p)

\* External: the capability plane publishes the generation of a prepared operation.
PublishCapabilities(o) ==
    /\ journal[o] = "prepared"
    /\ change[o].revision = revision + 1
    /\ revision' = revision + 1 /\ cutovers' = cutovers \cup {o}
    /\ live' = [p \in Plugin |->
                  IF p \in Candidates(o) THEN change[o].grants[p]
                  ELSE IF p \in DOMAIN change[o].retirements THEN Nothing ELSE live[p]]
    /\ UNCHANGED <<record, change, journal, priors, call, todo>>

\* commit_change_set_cutover, with the evidence of that publication.
CommitCutover(o) ==
    /\ call = NoCall
    /\ o \in cutovers /\ journal[o] = "prepared"
    /\ CandidatesStand(o)
    /\ journal' = [journal EXCEPT ![o] = "cutover"]
    /\ Others /\ UNCHANGED <<record, call, todo>>

\* retire_change_set: the phase is recorded before the candidates are looked at.
RetireChangeSet(o) ==
    /\ journal[o] \in {"cutover", "retiring"}
    /\ EnterCall(o, "retire", "retiring", DOMAIN change[o].retirements)
    /\ Others /\ UNCHANGED record

\* The candidates are verified.  A generation that stays was granted anew by its
\* candidate; any other prior grant is revoked, if it is still the one reviewed.
RetireGrant(p) ==
    LET o == call.op
        g == change[o].retirements[p]
        kept == p \in Candidates(o) /\ change[o].grants[p] = g
        revoked == Revoked(o, Prior(o, p))
    IN  /\ Calling("retire") /\ p \in todo
        /\ IF CandidatesStand(o) /\ (kept \/ record[p][g] \in {Prior(o, p), revoked})
             THEN /\ record' = IF kept THEN record ELSE [record EXCEPT ![p][g] = revoked]
                  /\ todo' = todo \ {p}
                  /\ UNCHANGED <<call, journal>>
             ELSE Fail
        /\ Others

Retired ==
    /\ Calling("retire") /\ todo = {}
    /\ CandidatesStand(call.op)
    /\ journal' = [journal EXCEPT ![call.op] = "completed"]
    /\ LeaveCall
    /\ Others /\ UNCHANGED record

--------------------------------------------------------------------------------
(* rollback_change_set, which its callers use before the publication only.      *)

RollbackChangeSet(o) ==
    /\ o \notin cutovers
    /\ journal[o] \in {"intent", "preparing", "prepared", "rolling-back"}
    /\ EnterCall(o, "rollback", "rolling-back", Candidates(o))
    /\ Others /\ UNCHANGED record

\* Mutant: a candidate that replaced nothing is left where it is.
RestoreCandidateReplaced(p) ==
    LET o == call.op
        g == change[o].grants[p]
    IN  /\ Calling("rollback") /\ p \in todo
        /\ record' = IF priors[o][p] = Nothing THEN record
                     ELSE [record EXCEPT ![p][g] = priors[o][p]]
        /\ todo' = todo \ {p}
        /\ UNCHANGED <<call, journal>>
        /\ Others

\* restore_candidate_record: a record that is neither the candidate nor what the
\* intent found refuses the call.
RestoreCandidate(p) ==
    LET o == call.op
        g == change[o].grants[p]
    IN  /\ Calling("rollback") /\ p \in todo
        /\ IF record[p][g] \in {priors[o][p], Granted(o, p)}
             THEN /\ record' = [record EXCEPT ![p][g] = priors[o][p]]
                  /\ todo' = todo \ {p}
                  /\ UNCHANGED <<call, journal>>
             ELSE Fail
        /\ Others

RolledBack ==
    /\ Calling("rollback") /\ todo = {}
    /\ journal' = [journal EXCEPT ![call.op] = "rolled-back"]
    /\ LeaveCall
    /\ Others /\ UNCHANGED record

\* The process of the call dies between two writes.
CrashCall ==
    /\ call # NoCall
    /\ Fail
    /\ Others

--------------------------------------------------------------------------------
GrantInit ==
    /\ record = [p \in Plugin |-> [g \in Generation |-> Nothing]]
    /\ change = [o \in Operation |-> Nothing]
    /\ journal = [o \in Operation |-> "none"]
    /\ priors = [o \in Operation |-> Nothing]
    /\ call = NoCall /\ todo = {}
    /\ live = [p \in Plugin |-> Nothing]
    /\ cutovers = {} /\ revision = 1

GrantNext ==
    \/ \E o \in Operation :
         \/ Review(o) \/ BeginChangeSet(o) \/ PrepareChangeSet(o)
         \/ PublishCapabilities(o) \/ CommitCutover(o) \/ RetireChangeSet(o) \/ RollbackChangeSet(o)
    \/ \E p \in todo : PutCandidate(p) \/ RetireGrant(p) \/ RestoreCandidate(p)
    \/ Prepared \/ Retired \/ RolledBack
    \/ CrashCall

GrantSpec == GrantInit /\ [][GrantNext]_grantVars

--------------------------------------------------------------------------------
\* Every published generation has its grant: candidates are granted before the
\* cutover publishes them and prior grants are revoked after it only, whichever
\* operations overlap and wherever a call dies.
PublishedAuthorised ==
    \A p \in Plugin : live[p] # Nothing => Active(record[p][live[p]])

\* Once no operation is between its first candidate and its end, the grants are
\* exactly those of the published generations: nothing that was rolled back, replaced
\* or removed keeps its authority.
SettledGrantsExact ==
    Settled => \A p \in Plugin : GrantedGenerations(p) = {live[p]} \ {Nothing}

\* What is published is authorised, and at rest nothing else is.
GrantsExact == PublishedAuthorised /\ SettledGrantsExact
================================================================================
