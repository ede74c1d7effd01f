---------------------------- MODULE MCStateRestore ----------------------------
(* Two kinds of restore, explored one at a time.  Of a backup: one state file    *)
(* that ordinary work changes and the Control export that a restore must find     *)
(* unchanged, in an installation whose history is full after a restore, so that   *)
(* the next one has to prune, and in one whose history has room.  Of a complete   *)
(* snapshot into a clean root: one that lacks no payload, one, or all but the     *)
(* Control database.                                                              *)
EXTENDS StateRestore, CompleteRestore, TLC

CONSTANTS k, export, old, new

VARIABLE form

MCFile == {k, export}
MCAuthority == {export}
MCContent == {old, new}

Roomy == INSTANCE StateRestore WITH MaxHistory <- MaxPlans

Snapshots ==
    {Component, {"control"}} \cup {Component \ {c} : c \in Component \ {"control"}}

MCInit ==
    /\ Init /\ CrInit
    /\ form \in {"full", "roomy", "complete"}
    /\ IF form = "complete"
       THEN present \in Snapshots /\ live = [x \in MCFile |-> old]
       ELSE present = Component
MCNext ==
    /\ UNCHANGED form
    /\ \/ form = "full" /\ Next /\ UNCHANGED crVars
       \/ form = "roomy" /\ Roomy!Next /\ UNCHANGED crVars
       \/ form = "complete" /\ CrNext /\ UNCHANGED vars
MCSpec ==
    /\ MCInit
    /\ [][MCNext]_<<vars, crVars, form>>
    /\ \/ form = "full" /\ Fairness
       \/ form = "roomy" /\ Roomy!Fairness
       \/ form = "complete" /\ CrFairness

\* No crash of apply_restore loses a file, or leaves state that recovery cannot
\* read: NothingLost, and Recoverable of either installation with its own bound on
\* the history.
RestoreRecoverable ==
    /\ NothingLost
    /\ IF form = "roomy" THEN Roomy!Recoverable ELSE Recoverable

\* A restore of a complete snapshot that is retried after each crash reaches its
\* terminal receipt, unless the crash left one of the files that every call of
\* complete_set refuses.
CompleteRestoreEnds == form = "complete" ~> TerminalReceipt \/ CannotFinish
==============================================================================
