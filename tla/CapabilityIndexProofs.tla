------------------------- MODULE CapabilityIndexProofs -------------------------
(* A returned receipt is durable, for any number of processes, exits and power  *)
(* failures.                                                                    *)
EXTENDS CapabilityIndex, TLAPS

LEMMA InitInv == IndexInit => IndexInv
<1> SUFFICES ASSUME IndexInit PROVE IndexInv
  OBVIOUS
<1>1. IndexTypeOK
  BY Zenon DEF IndexInit, IndexTypeOK, File, Step
<1>2. ReceiptIsDurable
  BY DEF IndexInit, ReceiptIsDurable
<1>3. PublicationOrdered
  BY DEF IndexInit, PublicationOrdered
<1> QED BY <1>1, <1>2, <1>3 DEF IndexInv

\* What survives a power failure is a file that was there, or none.
LEMMA SurvivorsType ==
  ASSUME NEW now \in File, NEW disk \in File
  PROVE  /\ Survivors(now, disk) \subseteq File \ {"cached"}
         /\ {now, disk} \subseteq {"absent", "full"}
              => Survivors(now, disk) \subseteq {"absent", "full"}
         /\ now = "full" /\ disk = "full" => Survivors(now, disk) = {"full"}
  BY DEF Survivors, File

\* Acquire keeps the invariant: nobody else is inside.
LEMMA AcquireInv ==
  ASSUME IndexInv, NEW w \in Writer, Acquire(w)
  PROVE  IndexInv'
  BY DEF IndexInv, IndexTypeOK, ReceiptIsDurable, PublicationOrdered, Acquire, Goto, dirs, Step

\* Every step of materialize keeps the invariant.
LEMMA WorkInv ==
  ASSUME IndexInv, NEW w \in Writer, Materialize(w)
  PROVE  IndexInv'
<1> USE DEF IndexInv, IndexTypeOK, ReceiptIsDurable, PublicationOrdered, Goto, dirs, Step, File
<1>1. CASE Inspect(w) BY <1>1 DEF Inspect
<1>2. CASE Clear(w) BY <1>2 DEF Clear
<1>3. CASE Create(w) BY <1>3 DEF Create
<1>4. CASE Write(w) BY <1>4 DEF Write
<1>5. CASE SyncFile(w) BY <1>5 DEF SyncFile
<1>6. CASE SyncStaging(w) BY <1>6 DEF SyncStaging
<1>7. CASE Link(w) BY <1>7 DEF Link
<1>8. CASE Verify(w) BY <1>8 DEF Verify
<1>9. CASE SyncTarget(w) BY <1>9 DEF SyncTarget
<1>10. CASE RetireStaging(w) BY <1>10 DEF RetireStaging
<1>11. CASE Return(w) BY <1>11 DEF Return
<1> QED
  BY <1>1, <1>2, <1>3, <1>4, <1>5, <1>6, <1>7, <1>8, <1>9, <1>10, <1>11 DEF Materialize

\* The end of a process keeps the invariant.
LEMMA ExitInv ==
  ASSUME IndexInv, NEW w \in Writer, Exit(w)
  PROVE  IndexInv'
  BY DEF IndexInv, IndexTypeOK, ReceiptIsDurable, PublicationOrdered, Exit, Goto, dirs, Step

\* A power failure keeps the invariant.
LEMMA PowerLossInv ==
  ASSUME IndexInv, PowerLoss
  PROVE  IndexInv'
<1>1. staging' \in File \ {"cached"} /\ stagingDisk' = staging'
  BY SurvivorsType DEF PowerLoss, IndexInv, IndexTypeOK
<1>2. target' \in {"absent", "full"} /\ targetDisk' = target'
  BY SurvivorsType DEF PowerLoss, IndexInv, IndexTypeOK, PublicationOrdered
<1>3. receipt' => target' = "full"
  BY SurvivorsType DEF PowerLoss, IndexInv, IndexTypeOK, ReceiptIsDurable
<1> QED
  BY <1>1, <1>2, <1>3
  DEF PowerLoss, IndexInv, IndexTypeOK, ReceiptIsDurable, PublicationOrdered, Step, File

\* The invariant holds always.
THEOREM AlwaysOrdered == IndexSpec => []IndexInv
<1>1. IndexInv /\ [IndexNext]_indexVars => IndexInv'
  <2> SUFFICES ASSUME IndexInv, [IndexNext]_indexVars PROVE IndexInv'
    OBVIOUS
  <2>1. CASE IndexNext
    BY <2>1, AcquireInv, WorkInv, ExitInv, PowerLossInv DEF IndexNext
  <2>2. CASE UNCHANGED indexVars
    BY <2>2 DEF indexVars, dirs, IndexInv, IndexTypeOK, ReceiptIsDurable, PublicationOrdered
  <2> QED BY <2>1, <2>2
<1> QED BY InitInv, <1>1, PTL DEF IndexSpec

\* A receipt that materialize returned stands for a document that every later
\* power failure leaves in place, and no reader finds torn bytes under the
\* content-addressed name.
THEOREM IndexAlwaysSafe == IndexSpec => []IndexSafe
<1>1. IndexInv => IndexSafe
  BY DEF IndexInv, PublicationOrdered, TargetIsExact, IndexSafe
<1> QED BY AlwaysOrdered, <1>1, PTL
==============================================================================
