---------------------------- MODULE MCArtifactStore ----------------------------
(* Five corners of one small store.  One artifact and one writer, with repairs   *)
(* and a quota: two collections and a crash, or one collection and two crashes.   *)
(* Two artifacts, one collection and a crash.  Two writers and one collection.    *)
(* Two artifacts, a quota and a crash.                                             *)
EXTENDS ArtifactStore

CONSTANTS d1, d2, w1, w2, Corners

VARIABLE corner

MCQuota == {[bytes |-> 2, artifacts |-> 1]}

OneArtifact == content'[d2] = "absent"
OneWriter == at'[w2] = "idle"
OnePlan == Cardinality(confirmed') < 2
OneCrash == storeCrashes' < 2
Within ==
    CASE corner = "deep" -> OneArtifact /\ OneWriter /\ OneCrash
      [] corner = "retried" -> OneArtifact /\ OneWriter /\ OnePlan
      [] corner = "wide" -> OneWriter /\ OnePlan /\ OneCrash /\ damages' = 0 /\ policy' = NoQuota
      [] corner = "busy" -> OneArtifact /\ OnePlan /\ storeCrashes' = 0 /\ damages' = 0
      [] corner = "full" -> OneWriter /\ OneCrash /\ damages' = 0 /\ confirmed' = {}

MCInit ==
    /\ ArtifactInit
    /\ corner \in Corners
    /\ corner \notin {"wide", "full"} => content[d2] = "absent"
MCNext == ArtifactNext /\ Within /\ UNCHANGED corner
MCSpec == MCInit /\ [][MCNext]_<<artifactVars, corner>> /\ ArtifactFairness
================================================================================
