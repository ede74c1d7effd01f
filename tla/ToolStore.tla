------------------------------- MODULE ToolStore -------------------------------
(* The tool store: version directories, one current pointer and one receipt per *)
(* tool, and one shim per executable name.  Every operation holds the install   *)
(* lock, but writes its files one after the other and may stop between any two: *)
(* the process dies, or a write fails and the operation returns its error.      *)
EXTENDS Integers, FiniteSets

CONSTANTS
    Tool, Version, Executable,
    Payload,            \* the bytes a version may be installed with, by their digest
    None,
    MaxAborts           \* operations that stop half way

ASSUME ToolAssumption ==
    /\ None \notin Tool \cup Version \cup Payload
    /\ MaxAborts \in Nat

VARIABLES
    installs,       \* each tool's version directories
    pointer,        \* each tool's current version
    receipts,       \* each tool's receipt
    failed,         \* the tools with a failure record
    shims,          \* the tool each executable name runs
    doing,          \* the step of the operation that holds the install lock
    request,        \* and its request
    previous,       \* the pointer as the publication found it
    interrupted,    \* history: tools whose pointer and receipt were left apart
    aborts

fileVars == <<installs, pointer, receipts, failed, shims>>
toolVars == <<fileVars, doing, request, previous, interrupted, aborts>>

ToolRequest ==
    [tool : Tool, version : Version, executable : Executable, payload : Payload,
     expected : Payload \cup {None}]
NoRequest == [tool |-> None]

\* A version directory that a removal has only begun to take away.
Torn == [executable |-> None, payload |-> None]
Directory(r) == [executable |-> r.executable, payload |-> r.payload]
ReceiptOf(r) == [version |-> r.version, executable |-> r.executable, payload |-> r.payload]
Free == doing = "idle"

To(step) == doing' = step
Same == UNCHANGED <<request, previous, interrupted, aborts>>
Done ==
    /\ To("idle")
    /\ request' = NoRequest
    /\ UNCHANGED <<previous, aborts>>

--------------------------------------------------------------------------------
(* apply_local, also at the end of acquire_with.                               *)

\* What is installed is asked for again: nothing is written, whatever the answer.
\* The payload is staged in a directory of its own, which every apply makes anew;
\* bytes of another digest end in a failure record.
ApplyLocal(r) ==
    /\ Free
    /\ pointer[r.tool] # r.version
    /\ IF r.expected \in {None, r.payload}
         THEN /\ To("replace") /\ request' = r
              /\ UNCHANGED failed
         ELSE /\ failed' = failed \cup {r.tool}
              /\ UNCHANGED <<doing, request>>
    /\ UNCHANGED <<installs, pointer, receipts, shims, previous, interrupted, aborts>>

\* A directory of this version that is not current is in the way.
ReplaceVersion ==
    LET r == request
    IN  /\ doing = "replace"
        /\ installs' = [installs EXCEPT ![r.tool][r.version] = None]
        /\ To("publish")
        /\ Same /\ UNCHANGED <<pointer, receipts, failed, shims>>

\* One rename of the staged directory.
PublishVersion ==
    LET r == request
    IN  /\ doing = "publish"
        /\ installs' = [installs EXCEPT ![r.tool][r.version] = Directory(r)]
        /\ To("shim")
        /\ Same /\ UNCHANGED <<pointer, receipts, failed, shims>>

WriteShim ==
    LET r == request
    IN  /\ doing = "shim"
        /\ shims' = [shims EXCEPT ![r.executable] = r.tool]
        /\ To("point")
        /\ Same /\ UNCHANGED <<installs, pointer, receipts, failed>>

PointCurrent ==
    LET r == request
    IN  /\ doing = "point"
        /\ previous' = pointer[r.tool]
        /\ pointer' = [pointer EXCEPT ![r.tool] = r.version]
        /\ To("receipt")
        /\ UNCHANGED <<installs, receipts, failed, shims, request, interrupted, aborts>>

\* The receipt is published, or its write fails and the pointer is to be put back.
WriteReceipt ==
    LET r == request
    IN  /\ doing = "receipt"
        /\ \/ /\ receipts' = [receipts EXCEPT ![r.tool] = ReceiptOf(r)]
              /\ interrupted' = interrupted \ {r.tool}
              /\ To("clear")
           \/ /\ To("restore")
              /\ UNCHANGED <<receipts, interrupted>>
        /\ UNCHANGED <<installs, pointer, failed, shims, request, previous, aborts>>

RestorePointer ==
    LET r == request
    IN  /\ doing = "restore"
        /\ pointer' = [pointer EXCEPT ![r.tool] = previous]
        /\ Done
        /\ UNCHANGED <<installs, receipts, failed, shims, interrupted>>

ClearFailure ==
    /\ doing = "clear"
    /\ failed' = failed \ {request.tool}
    /\ Done
    /\ UNCHANGED <<installs, pointer, receipts, shims, interrupted>>

--------------------------------------------------------------------------------
(* remove and prune.                                                           *)

\* The shim goes first, by the name in the receipt, whichever tool it runs by now.
RemoveTool(t) ==
    /\ Free
    /\ shims' = IF receipts[t] = None THEN shims
                ELSE [shims EXCEPT ![receipts[t].executable] = None]
    /\ To("remove-receipt")
    /\ request' = [tool |-> t]
    /\ UNCHANGED <<installs, pointer, receipts, failed, previous, interrupted, aborts>>

RemoveReceipt ==
    /\ doing = "remove-receipt"
    /\ receipts' = [receipts EXCEPT ![request.tool] = None]
    /\ To("remove-pointer")
    /\ Same /\ UNCHANGED <<installs, pointer, failed, shims>>

\* The failure record and then the pointer.
RemovePointer ==
    LET t == request.tool
    IN  /\ doing = "remove-pointer"
        /\ \/ t \in failed /\ failed' = failed \ {t}
              /\ UNCHANGED <<pointer, doing, interrupted>>
           \/ t \notin failed /\ pointer' = [pointer EXCEPT ![t] = None]
              /\ interrupted' = interrupted \ {t}
              /\ To("remove-installs")
              /\ UNCHANGED failed
        /\ UNCHANGED <<installs, receipts, shims, request, previous, aborts>>

RemoveInstalls ==
    /\ doing = "remove-installs"
    /\ installs' = [installs EXCEPT ![request.tool] = [v \in Version |-> None]]
    /\ Done
    /\ UNCHANGED <<pointer, receipts, failed, shims, interrupted>>


Pruned(t) ==
    {v \in Version : installs[t][v] # None /\ pointer[t] # None /\ v # pointer[t]}

\* One version after the other, all under one lock.
Prune(t) ==
    /\ Free
    /\ Pruned(t) # {}
    /\ To("prune")
    /\ request' = [tool |-> t]
    /\ UNCHANGED <<fileVars, previous, interrupted, aborts>>

PruneVersion ==
    LET t == request.tool
    IN  /\ doing = "prune"
        /\ IF Pruned(t) = {} THEN Done /\ UNCHANGED <<installs, interrupted>>
           ELSE \E v \in Pruned(t) :
                  installs' = [installs EXCEPT ![t][v] = None] /\ Same /\ UNCHANGED doing
        /\ UNCHANGED <<pointer, receipts, failed, shims>>

--------------------------------------------------------------------------------
\* The version directories a step is about to take away.
Removing ==
    LET t == request.tool
    IN  CASE doing = "replace" -> {request.version}
          [] doing = "remove-installs" -> Version
          [] doing = "prune" -> Pruned(t)
          [] OTHER -> {}

\* A process dies, or gets an error and returns it: the lock is free again, and a
\* removal may have taken some of the files of a directory.
Abort ==
    LET t == request.tool
    IN  /\ ~Free
        /\ aborts < MaxAborts
        /\ aborts' = aborts + 1
        /\ \E some \in SUBSET {v \in Removing : installs[t][v] # None} :
             installs' = [installs EXCEPT ![t] =
                            [v \in Version |-> IF v \in some THEN Torn ELSE @[v]]]
        /\ interrupted' = IF doing \in {"receipt", "restore", "remove-pointer"}
                            THEN interrupted \cup {t} ELSE interrupted
        /\ To("idle")
        /\ request' = NoRequest
        /\ UNCHANGED <<pointer, receipts, failed, shims, previous>>

ToolInit ==
    /\ installs = [t \in Tool |-> [v \in Version |-> None]]
    /\ pointer = [t \in Tool |-> None]
    /\ receipts = [t \in Tool |-> None]
    /\ failed = {}
    /\ shims = [e \in Executable |-> None]
    /\ doing = "idle"
    /\ request = NoRequest
    /\ previous = None
    /\ interrupted = {}
    /\ aborts = 0

Install ==
    \/ \E r \in ToolRequest : ApplyLocal(r)
    \/ ReplaceVersion \/ PublishVersion \/ WriteShim \/ PointCurrent
    \/ WriteReceipt \/ RestorePointer \/ ClearFailure

Uninstall ==
    \/ \E t \in Tool : RemoveTool(t) \/ Prune(t)
    \/ RemoveReceipt \/ RemovePointer \/ RemoveInstalls \/ PruneVersion

ToolNext == Install \/ Uninstall \/ Abort

ToolSpec == ToolInit /\ [][ToolNext]_toolVars

--------------------------------------------------------------------------------
\* What the shim runs: the current pointer never names a version directory that is
\* missing, half removed or still to be published, wherever an operation stopped.
CurrentRuns ==
    \A t \in Tool : pointer[t] # None => installs[t][pointer[t]] \notin {None, Torn}

InHand(t) == request.tool = t

\* The receipt, the pointer and the bytes of the current version agree, unless an
\* operation stopped exactly between the pointer and the receipt and none has
\* completed since.
ReceiptTruthful ==
    \A t \in Tool :
      \/ InHand(t) \/ t \in interrupted
      \/ receipts[t] = None /\ pointer[t] = None
      \/ /\ receipts[t] # None /\ pointer[t] = receipts[t].version
         /\ installs[t][pointer[t]] = Directory(receipts[t])

================================================================================
