--------------------------- MODULE ReplaceTxnProofs ---------------------------
(***************************************************************************)
(* Proofs about ReplaceTxn, for any requests, keys and parents: the        *)
(* inductive invariant IInv, the safety properties that it gives, and that *)
(* the transaction implements KeyedStore.                                  *)
(***************************************************************************)
EXTENDS ReplaceTxn, TLAPS

USE DEF Txns, PCs, Open, Committed

(* The initial states satisfy the inductive invariant: nothing is stored,  *)
(* nothing is locked and nothing was seen.                                 *)
LEMMA InitIInv == Init => IInv
<1> SUFFICES ASSUME Init PROVE IInv
  OBVIOUS
<1>1. TypeOK
  BY NumItemsAssumption DEF Init, TypeOK
<1>2. RowLocks /\ ParentLocks /\ Snapshots
  BY DEF Init, RowLocks, Dependents, ParentLocks, Snapshots
<1>3. StoredWhole /\ ReferentialIntegrity /\ ExactSurvivors
  BY DEF Init, StoredWhole, ReferentialIntegrity, ExactSurvivors
<1> QED BY <1>1, <1>2, <1>3 DEF IInv

(* StartDelete preserves the invariant. *)
LEMMA StartDeleteIInv ==
  ASSUME IInv, NEW r \in Requests, StartDelete(r)
  PROVE  IInv'
<1>1. TypeOK'
  BY DEF IInv, StartDelete, TypeOK
<1>2. RowLocks'
  BY DEF IInv, StartDelete, TypeOK, RowLocks, Snapshots, StoredWhole, Remaining, Dependents
<1>3. ParentLocks'
  BY DEF IInv, StartDelete, TypeOK, ParentLocks
<1>4. Snapshots'
  BY DEF IInv, StartDelete, TypeOK, Snapshots, RowLocks, StoredWhole
<1>5. StoredWhole'
  BY DEF IInv, StartDelete, TypeOK, StoredWhole
<1>6. ReferentialIntegrity'
  BY DEF IInv, StartDelete, TypeOK, ReferentialIntegrity
<1>7. ExactSurvivors'
  BY DEF IInv, StartDelete, TypeOK, ExactSurvivors
<1> QED BY <1>1, <1>2, <1>3, <1>4, <1>5, <1>6, <1>7 DEF IInv

(* DeleteRow preserves the invariant. *)
LEMMA DeleteRowIInv ==
  ASSUME IInv, NEW r \in Requests, NEW x \in Requests, DeleteRow(r, x)
  PROVE  IInv'
<1>1. TypeOK'
  BY DEF IInv, DeleteRow, Remaining, HeldByAnother, TypeOK
<1>2. RowLocks'
  <2>1. \A t \in Txns : locks'[t] \subseteq rows'
    BY TxnAssumption DEF IInv, DeleteRow, Remaining, HeldByAnother, TypeOK, RowLocks
  <2>2. \A t, u \in Txns : t /= u => locks'[t] \cap locks'[u] = {}
    BY TxnAssumption DEF IInv, DeleteRow, Remaining, HeldByAnother, TypeOK, RowLocks
  <2>3. \A q \in Requests : /\ locks'[q] \subseteq snap'[q]
                            /\ pc'[q] \notin Open => locks'[q] = {}
                            /\ pc'[q] = "inserting" => Remaining(q)' = {}
    BY TxnAssumption DEF IInv, DeleteRow, Remaining, HeldByAnother, TypeOK, RowLocks, Remaining
  <2>4. \A q \in Parents : /\ locks'[q] \subseteq Dependents(q)'
                           /\ q \notin dropping' => locks'[q] = {}
    BY TxnAssumption DEF IInv, DeleteRow, Remaining, HeldByAnother, TypeOK, RowLocks, Dependents
  <2> QED BY <2>1, <2>2, <2>3, <2>4 DEF RowLocks
<1>3. ParentLocks'
  BY DEF IInv, DeleteRow, Remaining, HeldByAnother, TypeOK, ParentLocks
<1>4. Snapshots'
  BY DEF IInv, DeleteRow, Remaining, HeldByAnother, TypeOK, Snapshots, RowLocks, StoredWhole
<1>5. StoredWhole'
  BY DEF IInv, DeleteRow, Remaining, HeldByAnother, TypeOK, StoredWhole
<1>6. ReferentialIntegrity'
  BY DEF IInv, DeleteRow, Remaining, HeldByAnother, TypeOK, ReferentialIntegrity
<1>7. ExactSurvivors'
  BY DEF IInv, DeleteRow, Remaining, HeldByAnother, TypeOK, ExactSurvivors
<1> QED BY <1>1, <1>2, <1>3, <1>4, <1>5, <1>6, <1>7 DEF IInv

(* InsertHead preserves the invariant. *)
LEMMA InsertHeadIInv ==
  ASSUME IInv, NEW r \in Requests, InsertHead(r)
  PROVE  IInv'
<1>1. TypeOK'
  BY DEF IInv, InsertHead, Remaining, TypeOK
<1>2. RowLocks'
  BY DEF IInv, InsertHead, Remaining, TypeOK, RowLocks, Snapshots, StoredWhole, Remaining, Dependents
<1>3. ParentLocks'
  BY DEF IInv, InsertHead, Remaining, TypeOK, ParentLocks
<1>4. Snapshots'
  BY DEF IInv, InsertHead, Remaining, TypeOK, Snapshots, RowLocks, StoredWhole
<1>5. StoredWhole'
  BY DEF IInv, InsertHead, Remaining, TypeOK, StoredWhole
<1>6. ReferentialIntegrity'
  BY DEF IInv, InsertHead, Remaining, TypeOK, ReferentialIntegrity
<1>7. ExactSurvivors'
  BY DEF IInv, InsertHead, Remaining, TypeOK, ExactSurvivors
<1> QED BY <1>1, <1>2, <1>3, <1>4, <1>5, <1>6, <1>7 DEF IInv

(* ShareParent preserves the invariant. *)
LEMMA ShareParentIInv ==
  ASSUME IInv, NEW r \in Requests, NEW p \in Parents, ShareParent(r, p)
  PROVE  IInv'
<1>1. TypeOK'
  BY DEF IInv, ShareParent, TypeOK
<1>2. RowLocks'
  BY DEF IInv, ShareParent, TypeOK, RowLocks, Snapshots, StoredWhole, Remaining, Dependents
<1>3. ParentLocks'
  BY DEF IInv, ShareParent, TypeOK, ParentLocks
<1>4. Snapshots'
  BY DEF IInv, ShareParent, TypeOK, Snapshots, RowLocks, StoredWhole
<1>5. StoredWhole'
  BY DEF IInv, ShareParent, TypeOK, StoredWhole
<1>6. ReferentialIntegrity'
  BY DEF IInv, ShareParent, TypeOK, ReferentialIntegrity
<1>7. ExactSurvivors'
  BY DEF IInv, ShareParent, TypeOK, ExactSurvivors
<1> QED BY <1>1, <1>2, <1>3, <1>4, <1>5, <1>6, <1>7 DEF IInv

(* InsertItem preserves the invariant. *)
LEMMA InsertItemIInv ==
  ASSUME IInv, NEW r \in Requests, InsertItem(r)
  PROVE  IInv'
<1>1. TypeOK'
  BY NumItemsAssumption DEF IInv, InsertItem, TypeOK
<1>2. RowLocks'
  BY DEF IInv, InsertItem, TypeOK, RowLocks, Snapshots, StoredWhole, Remaining, Dependents
<1>3. ParentLocks'
  BY DEF IInv, InsertItem, TypeOK, ParentLocks
<1>4. Snapshots'
  BY DEF IInv, InsertItem, TypeOK, Snapshots, RowLocks, StoredWhole
<1>5. StoredWhole'
  BY DEF IInv, InsertItem, TypeOK, StoredWhole
<1>6. ReferentialIntegrity'
  BY DEF IInv, InsertItem, TypeOK, ReferentialIntegrity
<1>7. ExactSurvivors'
  BY DEF IInv, InsertItem, TypeOK, ExactSurvivors
<1> QED BY <1>1, <1>2, <1>3, <1>4, <1>5, <1>6, <1>7 DEF IInv

(* CommitAs preserves the invariant. *)
LEMMA CommitAsIInv ==
  ASSUME IInv, NEW r \in Requests, NEW c \in Committed, CommitAs(r, c)
  PROVE  IInv'
<1>1. TypeOK'
  BY DEF IInv, CommitAs, TypeOK
<1>2. RowLocks'
  BY DEF IInv, CommitAs, TypeOK, RowLocks, Snapshots, StoredWhole, Remaining, Dependents
<1>3. ParentLocks'
  BY DEF IInv, CommitAs, TypeOK, ParentLocks
<1>4. Snapshots'
  BY DEF IInv, CommitAs, TypeOK, Snapshots, RowLocks, StoredWhole
<1>5. StoredWhole'
  BY DEF IInv, CommitAs, TypeOK, StoredWhole
<1>6. ReferentialIntegrity'
  BY DEF IInv, CommitAs, TypeOK, ReferentialIntegrity, ParentLocks
<1>7. ExactSurvivors'
  <2> DEFINE Replaced(x) == \E y \in Requests : /\ pc'[y] \in Committed
                                               /\ key[y] = key[x]
                                               /\ x \in before[y]
  <2>1. /\ key' = key /\ before' = before /\ live' = live
        /\ pc' = [pc EXCEPT ![r] = c]
        /\ rows' = (rows \ locks[r]) \cup {r}
    BY DEF CommitAs
  <2>2. ParentsOf[key[r]] \subseteq live /\ ~Replaced(r)
    BY DEF IInv, CommitAs, TypeOK, ParentLocks, Snapshots
  <2>3. \A x \in locks[r] : Replaced(x)
    BY <2>1 DEF IInv, TypeOK, RowLocks, Snapshots
  <2>4. \A x \in rows \ locks[r] : ~(key[x] = key[r] /\ x \in before[r])
    BY DEF IInv, CommitAs, RowLocks, Snapshots, Remaining
  <2>5. \A x \in rows \ locks[r] : ~Replaced(x)
    BY <2>1, <2>4 DEF IInv, TypeOK, ExactSurvivors
  <2>6. \A x \in Requests \ {r} :
           pc'[x] \in Committed /\ ParentsOf[key[x]] \subseteq live /\ ~Replaced(x) => x \in rows
    BY <2>1 DEF IInv, CommitAs, TypeOK, ExactSurvivors
  <2>7. \A x \in rows : x /= r => pc'[x] \in Committed /\ ParentsOf[key[x]] \subseteq live
    BY <2>1 DEF IInv, TypeOK, StoredWhole, ReferentialIntegrity
  <2>8. pc'[r] \in Committed
    BY <2>1 DEF IInv, TypeOK
  <2>9. rows' = {x \in Requests : /\ pc'[x] \in Committed
                                  /\ ParentsOf[key[x]] \subseteq live
                                  /\ ~Replaced(x)}
    BY <2>1, <2>2, <2>3, <2>5, <2>6, <2>7, <2>8 DEF IInv, TypeOK
  <2> QED BY <2>1, <2>9 DEF ExactSurvivors
<1> QED BY <1>1, <1>2, <1>3, <1>4, <1>5, <1>6, <1>7 DEF IInv

(* Rollback preserves the invariant. *)
LEMMA RollbackIInv ==
  ASSUME IInv, NEW r \in Requests, Rollback(r)
  PROVE  IInv'
<1>1. TypeOK'
  BY DEF IInv, Rollback, TypeOK
<1>2. RowLocks'
  BY DEF IInv, Rollback, TypeOK, RowLocks, Snapshots, StoredWhole, Remaining, Dependents
<1>3. ParentLocks'
  BY DEF IInv, Rollback, TypeOK, ParentLocks
<1>4. Snapshots'
  BY DEF IInv, Rollback, TypeOK, Snapshots, RowLocks, StoredWhole
<1>5. StoredWhole'
  BY DEF IInv, Rollback, TypeOK, StoredWhole
<1>6. ReferentialIntegrity'
  BY DEF IInv, Rollback, TypeOK, ReferentialIntegrity
<1>7. ExactSurvivors'
  BY DEF IInv, Rollback, TypeOK, ExactSurvivors
<1> QED BY <1>1, <1>2, <1>3, <1>4, <1>5, <1>6, <1>7 DEF IInv

(* BeginFails preserves the invariant. *)
LEMMA BeginFailsIInv ==
  ASSUME IInv, NEW r \in Requests, BeginFails(r)
  PROVE  IInv'
<1>1. TypeOK'
  BY DEF IInv, BeginFails, TypeOK
<1>2. RowLocks'
  BY DEF IInv, BeginFails, TypeOK, RowLocks, Snapshots, StoredWhole, Remaining, Dependents
<1>3. ParentLocks'
  BY DEF IInv, BeginFails, TypeOK, ParentLocks
<1>4. Snapshots'
  BY DEF IInv, BeginFails, TypeOK, Snapshots, RowLocks, StoredWhole
<1>5. StoredWhole'
  BY DEF IInv, BeginFails, TypeOK, StoredWhole
<1>6. ReferentialIntegrity'
  BY DEF IInv, BeginFails, TypeOK, ReferentialIntegrity
<1>7. ExactSurvivors'
  BY DEF IInv, BeginFails, TypeOK, ExactSurvivors
<1> QED BY <1>1, <1>2, <1>3, <1>4, <1>5, <1>6, <1>7 DEF IInv

(* LockParent preserves the invariant. *)
LEMMA LockParentIInv ==
  ASSUME IInv, NEW p \in Parents, LockParent(p)
  PROVE  IInv'
<1>1. TypeOK'
  BY DEF IInv, LockParent, TypeOK
<1>2. RowLocks'
  BY DEF IInv, LockParent, TypeOK, RowLocks, Snapshots, StoredWhole, Remaining, Dependents
<1>3. ParentLocks'
  BY DEF IInv, LockParent, TypeOK, ParentLocks
<1>4. Snapshots'
  BY DEF IInv, LockParent, TypeOK, Snapshots, RowLocks, StoredWhole
<1>5. StoredWhole'
  BY DEF IInv, LockParent, TypeOK, StoredWhole
<1>6. ReferentialIntegrity'
  BY DEF IInv, LockParent, TypeOK, ReferentialIntegrity
<1>7. ExactSurvivors'
  BY DEF IInv, LockParent, TypeOK, ExactSurvivors
<1> QED BY <1>1, <1>2, <1>3, <1>4, <1>5, <1>6, <1>7 DEF IInv

(* CascadeRow preserves the invariant. *)
LEMMA CascadeRowIInv ==
  ASSUME IInv, NEW p \in Parents, NEW x \in Requests, CascadeRow(p, x)
  PROVE  IInv'
<1>1. TypeOK'
  BY DEF IInv, CascadeRow, RemainingUnder, Dependents, HeldByAnother, TypeOK
<1>2. RowLocks'
  <2>1. \A t \in Txns : locks'[t] \subseteq rows'
    BY TxnAssumption DEF IInv, CascadeRow, RemainingUnder, Dependents, HeldByAnother, TypeOK, RowLocks
  <2>2. \A t, u \in Txns : t /= u => locks'[t] \cap locks'[u] = {}
    BY TxnAssumption DEF IInv, CascadeRow, RemainingUnder, Dependents, HeldByAnother, TypeOK, RowLocks
  <2>3. \A q \in Requests : /\ locks'[q] \subseteq snap'[q]
                            /\ pc'[q] \notin Open => locks'[q] = {}
                            /\ pc'[q] = "inserting" => Remaining(q)' = {}
    BY TxnAssumption DEF IInv, CascadeRow, RemainingUnder, Dependents, HeldByAnother, TypeOK, RowLocks, Remaining
  <2>4. \A q \in Parents : /\ locks'[q] \subseteq Dependents(q)'
                           /\ q \notin dropping' => locks'[q] = {}
    BY TxnAssumption DEF IInv, CascadeRow, RemainingUnder, Dependents, HeldByAnother, TypeOK, RowLocks, Dependents
  <2> QED BY <2>1, <2>2, <2>3, <2>4 DEF RowLocks
<1>3. ParentLocks'
  BY DEF IInv, CascadeRow, RemainingUnder, Dependents, HeldByAnother, TypeOK, ParentLocks
<1>4. Snapshots'
  BY DEF IInv, CascadeRow, RemainingUnder, Dependents, HeldByAnother, TypeOK, Snapshots, RowLocks, StoredWhole
<1>5. StoredWhole'
  BY DEF IInv, CascadeRow, RemainingUnder, Dependents, HeldByAnother, TypeOK, StoredWhole
<1>6. ReferentialIntegrity'
  BY DEF IInv, CascadeRow, RemainingUnder, Dependents, HeldByAnother, TypeOK, ReferentialIntegrity
<1>7. ExactSurvivors'
  BY DEF IInv, CascadeRow, RemainingUnder, Dependents, HeldByAnother, TypeOK, ExactSurvivors
<1> QED BY <1>1, <1>2, <1>3, <1>4, <1>5, <1>6, <1>7 DEF IInv

(* CommitDrop preserves the invariant. *)
LEMMA CommitDropIInv ==
  ASSUME IInv, NEW p \in Parents, CommitDrop(p)
  PROVE  IInv'
<1>1. TypeOK'
  BY DEF IInv, CommitDrop, RemainingUnder, Dependents, TypeOK
<1>2. RowLocks'
  BY DEF IInv, CommitDrop, RemainingUnder, Dependents, TypeOK, RowLocks, Snapshots, StoredWhole, Remaining, Dependents
<1>3. ParentLocks'
  BY DEF IInv, CommitDrop, RemainingUnder, Dependents, TypeOK, ParentLocks
<1>4. Snapshots'
  BY DEF IInv, CommitDrop, RemainingUnder, Dependents, TypeOK, Snapshots, RowLocks, StoredWhole
<1>5. StoredWhole'
  BY DEF IInv, CommitDrop, RemainingUnder, Dependents, TypeOK, StoredWhole
<1>6. ReferentialIntegrity'
  BY DEF IInv, CommitDrop, RemainingUnder, Dependents, TypeOK, ReferentialIntegrity
<1>7. ExactSurvivors'
  <2>1. /\ pc' = pc /\ key' = key /\ before' = before
        /\ live' = live \ {p} /\ rows' = rows \ locks[p]
    BY DEF CommitDrop
  <2>2. locks[p] = {x \in rows : p \in ParentsOf[key[x]]}
    BY DEF IInv, CommitDrop, RemainingUnder, Dependents, RowLocks
  <2> QED BY <2>1, <2>2 DEF IInv, TypeOK, ExactSurvivors
<1> QED BY <1>1, <1>2, <1>3, <1>4, <1>5, <1>6, <1>7 DEF IInv

(* AbortDrop preserves the invariant. *)
LEMMA AbortDropIInv ==
  ASSUME IInv, NEW p \in Parents, AbortDrop(p)
  PROVE  IInv'
<1>1. TypeOK'
  BY DEF IInv, AbortDrop, TypeOK
<1>2. RowLocks'
  <2>1. \A t \in Txns : locks'[t] \subseteq rows'
    BY TxnAssumption DEF IInv, AbortDrop, TypeOK, RowLocks
  <2>2. \A t, u \in Txns : t /= u => locks'[t] \cap locks'[u] = {}
    BY TxnAssumption DEF IInv, AbortDrop, TypeOK, RowLocks
  <2>3. \A q \in Requests : /\ locks'[q] \subseteq snap'[q]
                            /\ pc'[q] \notin Open => locks'[q] = {}
                            /\ pc'[q] = "inserting" => Remaining(q)' = {}
    BY TxnAssumption DEF IInv, AbortDrop, TypeOK, RowLocks, Remaining
  <2>4. \A q \in Parents : /\ locks'[q] \subseteq Dependents(q)'
                           /\ q \notin dropping' => locks'[q] = {}
    BY TxnAssumption DEF IInv, AbortDrop, TypeOK, RowLocks, Dependents
  <2> QED BY <2>1, <2>2, <2>3, <2>4 DEF RowLocks
<1>3. ParentLocks'
  BY DEF IInv, AbortDrop, TypeOK, ParentLocks
<1>4. Snapshots'
  BY DEF IInv, AbortDrop, TypeOK, Snapshots, RowLocks, StoredWhole
<1>5. StoredWhole'
  BY DEF IInv, AbortDrop, TypeOK, StoredWhole
<1>6. ReferentialIntegrity'
  BY DEF IInv, AbortDrop, TypeOK, ReferentialIntegrity
<1>7. ExactSurvivors'
  BY DEF IInv, AbortDrop, TypeOK, ExactSurvivors
<1> QED BY <1>1, <1>2, <1>3, <1>4, <1>5, <1>6, <1>7 DEF IInv

-----------------------------------------------------------------------------
(* IInv is inductive: every step, of a request or of the DELETE of a       *)
(* parent, and every stuttering step preserves it.                         *)
LEMMA StepIInv == IInv /\ [Next]_vars => IInv'
<1> SUFFICES ASSUME IInv, [Next]_vars PROVE IInv'
  OBVIOUS
<1>1. ASSUME NEW r \in Requests, RequestStep(r) PROVE IInv'
  <2>1. CASE StartDelete(r)
    BY <2>1, StartDeleteIInv
  <2>2. CASE \E x \in Requests : DeleteRow(r, x)
    BY <2>2, DeleteRowIInv
  <2>3. CASE InsertHead(r)
    BY <2>3, InsertHeadIInv
  <2>4. CASE \E p \in Parents : ShareParent(r, p)
    BY <2>4, ShareParentIInv
  <2>5. CASE InsertItem(r)
    BY <2>5, InsertItemIInv
  <2>6. CASE Commit(r)
    BY <2>6, CommitAsIInv DEF Commit
  <2>7. CASE CommitAnswerLost(r)
    BY <2>7, CommitAsIInv DEF CommitAnswerLost
  <2>8. CASE Rollback(r)
    BY <2>8, RollbackIInv
  <2>9. CASE BeginFails(r)
    BY <2>9, BeginFailsIInv
  <2> QED BY <1>1, <2>1, <2>2, <2>3, <2>4, <2>5, <2>6, <2>7, <2>8, <2>9 DEF RequestStep
<1>2. ASSUME NEW p \in Parents, ParentStep(p) PROVE IInv'
  <2>1. CASE LockParent(p)
    BY <2>1, LockParentIInv
  <2>2. CASE \E x \in Requests : CascadeRow(p, x)
    BY <2>2, CascadeRowIInv
  <2>3. CASE CommitDrop(p)
    BY <2>3, CommitDropIInv
  <2>4. CASE AbortDrop(p)
    BY <2>4, AbortDropIInv
  <2> QED BY <1>2, <2>1, <2>2, <2>3, <2>4 DEF ParentStep
<1>3. CASE UNCHANGED vars
  BY <1>3 DEF vars, IInv, TypeOK, RowLocks, Remaining, Dependents, ParentLocks, Snapshots,
              StoredWhole, ReferentialIntegrity, ExactSurvivors
<1> QED BY <1>1, <1>2, <1>3 DEF Next

(* The inductive invariant holds throughout every behaviour.               *)
THEOREM Invariance == Spec => []IInv
<1> QED BY InitIInv, StepIInv, PTL DEF Spec

(* Every variable of the transactions keeps its type, whatever the number  *)
(* of requests, keys and parents.                                          *)
THEOREM TypeCorrect == Spec => []TypeOK
<1>1. IInv => TypeOK
  BY DEF IInv
<1> QED BY <1>1, Invariance, PTL

(* A reader finds a record whole or not at all: the rows that a commit     *)
(* makes visible are all those that the record has.                        *)
THEOREM RecordsAreWhole == Spec => []StoredWhole
<1>1. IInv => StoredWhole
  BY DEF IInv
<1> QED BY <1>1, Invariance, PTL

(* No record outlives its user or its plan: deleting a parent cascades to  *)
(* the records, or waits for those that are being written.                 *)
THEOREM ParentsAreLive == Spec => []ReferentialIntegrity
<1>1. IInv => ReferentialIntegrity
  BY DEF IInv
<1> QED BY <1>1, Invariance, PTL

(* The stored records are exactly the committed ones whose parents live    *)
(* and that no committed transaction of the key found when it began.       *)
THEOREM SurvivorsAreExact == Spec => []ExactSurvivors
<1>1. IInv => ExactSurvivors
  BY DEF IInv
<1> QED BY <1>1, Invariance, PTL

(* Two records of one key are there together only if the transactions that *)
(* wrote them overlapped: neither found the other one committed.  So when  *)
(* the calls for one key come one after the other, a key has one record.   *)
THEOREM OnlyOverlapsDuplicate ==
  Spec => [](\A x, y \in rows : key[x] = key[y] => x \notin before[y] /\ y \notin before[x])
<1>1. IInv => \A x, y \in rows : key[x] = key[y] => x \notin before[y] /\ y \notin before[x]
  BY DEF IInv, TypeOK, StoredWhole, ExactSurvivors
<1> QED BY <1>1, Invariance, PTL

-----------------------------------------------------------------------------
(* Only the commit of a request and that of the DELETE of a parent change  *)
(* the stored records and the parents.                                     *)
LEMMA OthersKeepRows ==
  ASSUME [Next]_vars,
         \A r \in Requests : ~Commit(r) /\ ~CommitAnswerLost(r),
         \A p \in Parents : ~CommitDrop(p)
  PROVE  rows' = rows /\ live' = live
BY DEF Next, RequestStep, ParentStep, vars, StartDelete, DeleteRow, InsertHead, ShareParent,
       InsertItem, Rollback, BeginFails, LockParent, CascadeRow, AbortDrop

(* What a commit of a request does to the stored records: it adds its own  *)
(* and takes away exactly those that its DELETE found.                     *)
LEMMA CommitReplaces ==
  ASSUME IInv, NEW r \in Requests, NEW c \in Committed, CommitAs(r, c)
  PROVE  /\ rows' = (rows \ snap[r]) \cup {r}
         /\ r \notin rows
         /\ \A x \in snap[r] : key[x] = key[r]
         /\ ParentsOf[key[r]] \subseteq live
<1>1. locks[r] = snap[r] \cap rows
  BY DEF IInv, CommitAs, RowLocks, Remaining
<1> QED BY <1>1 DEF IInv, CommitAs, TypeOK, StoredWhole, ParentLocks, Snapshots

(* What a commit of the DELETE of a parent does: the records under it, and *)
(* no others, go with it.                                                  *)
LEMMA DropCascades ==
  ASSUME IInv, NEW p \in Parents, CommitDrop(p)
  PROVE  /\ rows' = {x \in rows : p \notin ParentsOf[key[x]]}
         /\ p \in live
BY DEF IInv, CommitDrop, TypeOK, RowLocks, RemainingUnder, Dependents

(* No record is lost by a replacement that fails: it leaves only as        *)
(* another one of its key comes, or with one of its parents.               *)
THEOREM NothingVanishes == Spec => NeverVanishes
<1> DEFINE Kept == \A x \in rows \ rows' :
                      \/ \E y \in rows' \ rows : key[y] = key[x]
                      \/ \E p \in live \ live' : p \in ParentsOf[key[x]]
<1>1. ASSUME IInv, [Next]_vars PROVE Kept
  <2>1. ASSUME NEW r \in Requests, NEW c \in Committed, CommitAs(r, c) PROVE Kept
    BY <1>1, <2>1, CommitReplaces
  <2>2. ASSUME NEW p \in Parents, CommitDrop(p) PROVE Kept
    <3>1. live' = live \ {p}
      BY <2>2 DEF CommitDrop
    <3> QED BY <1>1, <2>2, <3>1, DropCascades DEF IInv, TypeOK
  <2>3. CASE /\ \A r \in Requests : ~Commit(r) /\ ~CommitAnswerLost(r)
             /\ \A p \in Parents : ~CommitDrop(p)
    BY <1>1, <2>3, OthersKeepRows
  <2> QED BY <2>1, <2>2, <2>3 DEF Commit, CommitAnswerLost
<1>2. IInv /\ [Next]_vars => [Kept]_vars
  BY <1>1
<1> QED BY <1>2, Invariance, PTL DEF Spec, NeverVanishes

-----------------------------------------------------------------------------
(* Refinement of KeyedStore.                                               *)

(* The phase of a request as a function, and how a step of one request     *)
(* changes it.                                                             *)
Phase == [r \in Requests |-> PhaseOf(pc[r])]

LEMMA PhaseChanges ==
  ASSUME TypeOK, NEW r \in Requests, NEW c \in PCs, pc' = [pc EXCEPT ![r] = c]
  PROVE  Phase' = [Phase EXCEPT ![r] = PhaseOf(c)]
BY DEF TypeOK, Phase, PhaseOf

(* The initial states are those of KeyedStore.                             *)
LEMMA InitRefines == Init => KS!Init
BY DEF Init, KS!Init, PhaseOf

(* Every step replaces, opens, fails or drops as KeyedStore does, or       *)
(* changes nothing that KeyedStore has.                                    *)
LEMMA StepRefines == IInv /\ [Next]_vars => [KS!Next]_KS!vars
<1> SUFFICES ASSUME IInv, [Next]_vars PROVE [KS!Next]_KS!vars
  OBVIOUS
<1> USE DEF Phase
<1>1. ASSUME NEW r \in Requests, RequestStep(r) PROVE KS!Next \/ UNCHANGED KS!vars
  <2>1. CASE StartDelete(r)
    <3>1. pc[r] = "idle" /\ Phase[r] = "waiting" /\ Phase' = [Phase EXCEPT ![r] = "open"]
      BY <2>1, PhaseChanges DEF IInv, StartDelete, PhaseOf
    <3>2. KS!Open(r)
      BY <2>1, <3>1 DEF StartDelete, KS!Open
    <3> QED BY <3>2 DEF KS!Next
  <2>2. CASE (\E x \in Requests : DeleteRow(r, x)) \/ (\E p \in Parents : ShareParent(r, p))
                \/ InsertItem(r)
    BY <2>2 DEF DeleteRow, ShareParent, InsertItem, KS!vars
  <2>3. CASE InsertHead(r)
    <3>1. pc[r] = "deleting" /\ Phase' = [Phase EXCEPT ![r] = "open"]
      BY <2>3, PhaseChanges DEF IInv, InsertHead, PhaseOf
    <3>2. Phase' = Phase
      BY <3>1 DEF PhaseOf
    <3> QED BY <2>3, <3>2 DEF InsertHead, KS!vars
  <2>4. ASSUME NEW c \in Committed, CommitAs(r, c) PROVE KS!Next
    <3>1. Phase[r] = "open" /\ Phase' = [Phase EXCEPT ![r] = "stored"]
      BY <2>4, PhaseChanges DEF IInv, CommitAs, PhaseOf
    <3>2. rows' = (rows \ snap[r]) \cup {r} /\ ParentsOf[key[r]] \subseteq live
      BY <2>4, CommitReplaces
    <3>3. KS!Replace(r)
      BY <2>4, <3>1, <3>2 DEF CommitAs, KS!Replace
    <3> QED BY <3>3 DEF KS!Next
  <2>5. CASE Rollback(r) \/ BeginFails(r)
    <3>1. Phase[r] \in {"waiting", "open"} /\ Phase' = [Phase EXCEPT ![r] = "failed"]
      BY <2>5, PhaseChanges DEF IInv, Rollback, BeginFails, PhaseOf
    <3>2. KS!Fail(r)
      BY <2>5, <3>1 DEF Rollback, BeginFails, KS!Fail
    <3> QED BY <3>2 DEF KS!Next
  <2> QED BY <1>1, <2>1, <2>2, <2>3, <2>4, <2>5 DEF RequestStep, Commit, CommitAnswerLost
<1>2. ASSUME NEW p \in Parents, ParentStep(p) PROVE KS!Next \/ UNCHANGED KS!vars
  <2>1. CASE CommitDrop(p)
    <3>1. KS!Drop(p)
      BY <2>1, DropCascades DEF CommitDrop, KS!Drop
    <3> QED BY <3>1 DEF KS!Next
  <2>2. CASE LockParent(p) \/ (\E x \in Requests : CascadeRow(p, x)) \/ AbortDrop(p)
    BY <2>2 DEF LockParent, CascadeRow, AbortDrop, KS!vars
  <2> QED BY <1>2, <2>1, <2>2 DEF ParentStep
<1>3. CASE UNCHANGED vars
  BY <1>3 DEF vars, KS!vars
<1> QED BY <1>1, <1>2, <1>3 DEF Next

(* The statements, the locks and the cascades together are the one-step    *)
(* replacement that KeyedStore promises.                                   *)
THEOREM Refinement == Spec => ImplementsKeyedStore
<1> QED BY InitRefines, StepRefines, Invariance, PTL DEF Spec, ImplementsKeyedStore, KS!Spec

=============================================================================
