----------------------------- MODULE ReplaceTxn -----------------------------
(***************************************************************************)
(* The transaction that replaces a record, statement by statement, as both *)
(* InsertAvailabilitySubmission and InsertSchedulingResult run it: begin,  *)
(* DELETE the records of the key, INSERT the head row, INSERT the rows     *)
(* under it one by one, commit; a deferred Rollback ends every other path. *)
(*                                                                         *)
(* BeginTx is called with nil options, so PostgreSQL runs it READ          *)
(* COMMITTED: the DELETE looks at the rows committed when it starts, waits *)
(* for the rows that another transaction is deleting, and skips those that *)
(* are gone when the wait ends.  No table has a unique constraint on the   *)
(* key.  A foreign key makes the INSERT of the head row lock its parents   *)
(* (a user, a plan), and ON DELETE CASCADE makes the DELETE of a parent    *)
(* delete the records under it, in the transaction of that DELETE.         *)
(*                                                                         *)
(* A record is identified with the request that wrote it: the row of       *)
(* request r is visible when r \in rows.                                   *)
(***************************************************************************)
EXTENDS Naturals, FiniteSets

CONSTANTS Requests,     \* calls of the Insert function, one key each
          Keys,         \* (user, plan) of a submission, plan of a result
          Parents,      \* the user and plan rows
          ParentsOf,    \* the foreign keys of the head row of a key
          NumItems      \* the rows inserted under each head row

ASSUME ParentsOfAssumption == ParentsOf \in [Keys -> SUBSET Parents]
ASSUME NumItemsAssumption  == NumItems \in Nat
\* A transaction is named by the request or the parent it is for.
ASSUME TxnAssumption       == Requests \cap Parents = {}

VARIABLES pc,           \* where each request is
          key,          \* the key whose record each request replaces
          snap,         \* the records that each DELETE found when it started
          locks,        \* the row locks that each open transaction holds
          shares,       \* the parents that the foreign keys of an open INSERT hold
          items,        \* the rows inserted so far under each head row
          rows,         \* the committed records
          live,         \* the committed parents
          dropping,     \* the parents locked by a DELETE that is still open
          before        \* history: the requests committed when a DELETE started

vars == <<pc, key, snap, locks, shares, items, rows, live, dropping, before>>

Txns == Requests \cup Parents

(***************************************************************************)
(* "unknown" is a commit that took effect but whose answer was lost: the   *)
(* function returns an error all the same.                                 *)
(***************************************************************************)
PCs == {"idle", "deleting", "inserting", "ok", "unknown", "failed"}
Open == {"deleting", "inserting"}
Committed == {"ok", "unknown"}

Init == /\ pc = [r \in Requests |-> "idle"]
        /\ key \in [Requests -> Keys]
        /\ snap = [r \in Requests |-> {}]
        /\ locks = [t \in Txns |-> {}]
        /\ shares = [r \in Requests |-> {}]
        /\ items = [r \in Requests |-> 0]
        /\ rows = {}
        /\ live = Parents
        /\ dropping = {}
        /\ before = [r \in Requests |-> {}]

-----------------------------------------------------------------------------
(* Row locks.                                                              *)

HeldByAnother(t, x) == \E u \in Txns \ {t} : x \in locks[u]

\* The rows of its snapshot that a DELETE has still to lock or to skip.
Remaining(r) == (snap[r] \cap rows) \ locks[r]

\* The records under a parent that its cascade has still to lock.
Dependents(p) == {x \in rows : p \in ParentsOf[key[x]]}
RemainingUnder(p) == Dependents(p) \ locks[p]

-----------------------------------------------------------------------------
(* The transaction of a request.                                           *)

\* Mutant of StartDelete: WHERE names one column of the key only.
StartDeleteOneColumn(r) ==
    /\ pc[r] = "idle"
    /\ pc' = [pc EXCEPT ![r] = "deleting"]
    /\ snap' = [snap EXCEPT ![r] = {x \in rows : ParentsOf[key[x]] \cap ParentsOf[key[r]] /= {}}]
    /\ before' = [before EXCEPT ![r] = {x \in Requests : pc[x] \in Committed}]
    /\ UNCHANGED <<key, locks, shares, items, rows, live, dropping>>

\* The DELETE starts: WHERE names the whole key.
StartDelete(r) ==
    /\ pc[r] = "idle"
    /\ pc' = [pc EXCEPT ![r] = "deleting"]
    /\ snap' = [snap EXCEPT ![r] = {x \in rows : key[x] = key[r]}]
    /\ before' = [before EXCEPT ![r] = {x \in Requests : pc[x] \in Committed}]
    /\ UNCHANGED <<key, locks, shares, items, rows, live, dropping>>

\* Mutant of DeleteRow: the DELETE runs on the pool, outside the transaction.
DeleteRowAutocommit(r, x) ==
    /\ pc[r] = "deleting"
    /\ x \in Remaining(r)
    /\ ~HeldByAnother(r, x)
    /\ rows' = rows \ {x}
    /\ UNCHANGED <<pc, key, snap, locks, shares, items, live, dropping, before>>

DeleteRow(r, x) ==
    /\ pc[r] = "deleting"
    /\ x \in Remaining(r)
    /\ ~HeldByAnother(r, x)
    /\ locks' = [locks EXCEPT ![r] = @ \cup {x}]
    /\ UNCHANGED <<pc, key, snap, shares, items, rows, live, dropping, before>>

\* Mutant of InsertHead: the DELETE skips the rows that others have locked.
InsertHeadSkipLocked(r) ==
    /\ pc[r] = "deleting"
    /\ \A x \in Remaining(r) : HeldByAnother(r, x)
    /\ pc' = [pc EXCEPT ![r] = "inserting"]
    /\ UNCHANGED <<key, snap, locks, shares, items, rows, live, dropping, before>>

\* The DELETE has ended; the head row is written, its foreign keys come next.
InsertHead(r) ==
    /\ pc[r] = "deleting"
    /\ Remaining(r) = {}
    /\ pc' = [pc EXCEPT ![r] = "inserting"]
    /\ UNCHANGED <<key, snap, locks, shares, items, rows, live, dropping, before>>

\* Mutant of ShareParent: the check reads the parent and locks nothing.
ShareParentUnlocked(r, p) ==
    /\ pc[r] = "inserting"
    /\ p \in (ParentsOf[key[r]] \ shares[r]) \cap live
    /\ shares' = [shares EXCEPT ![r] = @ \cup {p}]
    /\ UNCHANGED <<pc, key, snap, locks, items, rows, live, dropping, before>>

\* A foreign key locks its parent, and waits while that is being deleted.
ShareParent(r, p) ==
    /\ pc[r] = "inserting"
    /\ p \in (ParentsOf[key[r]] \ shares[r]) \cap live
    /\ p \notin dropping
    /\ shares' = [shares EXCEPT ![r] = @ \cup {p}]
    /\ UNCHANGED <<pc, key, snap, locks, items, rows, live, dropping, before>>

\* Mutant of InsertItem: one row too many.
InsertItemOffByOne(r) ==
    /\ pc[r] = "inserting"
    /\ shares[r] = ParentsOf[key[r]]
    /\ items[r] <= NumItems
    /\ items' = [items EXCEPT ![r] = @ + 1]
    /\ UNCHANGED <<pc, key, snap, locks, shares, rows, live, dropping, before>>

InsertItem(r) ==
    /\ pc[r] = "inserting"
    /\ shares[r] = ParentsOf[key[r]]
    /\ items[r] < NumItems
    /\ items' = [items EXCEPT ![r] = @ + 1]
    /\ UNCHANGED <<pc, key, snap, locks, shares, rows, live, dropping, before>>

\* Mutant of CommitAs: an error of an INSERT is ignored, or each has its own
\* transaction.
CommitEarly(r, outcome) ==
    /\ pc[r] = "inserting"
    /\ shares[r] = ParentsOf[key[r]]
    /\ pc' = [pc EXCEPT ![r] = outcome]
    /\ rows' = (rows \ locks[r]) \cup {r}
    /\ locks' = [locks EXCEPT ![r] = {}]
    /\ shares' = [shares EXCEPT ![r] = {}]
    /\ UNCHANGED <<key, snap, items, live, dropping, before>>

\* What COMMIT does, whether or not its answer arrives.
CommitAs(r, outcome) ==
    /\ pc[r] = "inserting"
    /\ shares[r] = ParentsOf[key[r]]
    /\ items[r] = NumItems
    /\ pc' = [pc EXCEPT ![r] = outcome]
    /\ rows' = (rows \ locks[r]) \cup {r}
    /\ locks' = [locks EXCEPT ![r] = {}]
    /\ shares' = [shares EXCEPT ![r] = {}]
    /\ UNCHANGED <<key, snap, items, live, dropping, before>>

Commit(r) == CommitAs(r, "ok")
CommitAnswerLost(r) == CommitAs(r, "unknown")

\* Mutant of Rollback: the function returns and leaves the transaction open.
NoRollback(r) ==
    /\ pc[r] \in Open
    /\ pc' = [pc EXCEPT ![r] = "failed"]
    /\ UNCHANGED <<key, snap, locks, shares, items, rows, live, dropping, before>>

\* The deferred Rollback, after an error of any statement or at the timeout.
Rollback(r) ==
    /\ pc[r] \in Open
    /\ pc' = [pc EXCEPT ![r] = "failed"]
    /\ locks' = [locks EXCEPT ![r] = {}]
    /\ shares' = [shares EXCEPT ![r] = {}]
    /\ UNCHANGED <<key, snap, items, rows, live, dropping, before>>

\* BeginTx fails: there is no transaction to roll back.
BeginFails(r) ==
    /\ pc[r] = "idle"
    /\ pc' = [pc EXCEPT ![r] = "failed"]
    /\ UNCHANGED <<key, snap, locks, shares, items, rows, live, dropping, before>>

-----------------------------------------------------------------------------
(* DELETE of a parent: DeleteUser and DeleteSchedulePlan.                  *)

\* Waits for the transactions that have inserted a head row under the parent.
LockParent(p) ==
    /\ p \in live \ dropping
    /\ \A r \in Requests : p \notin shares[r]
    /\ dropping' = dropping \cup {p}
    /\ UNCHANGED <<pc, key, snap, locks, shares, items, rows, live, before>>

CascadeRow(p, x) ==
    /\ p \in dropping
    /\ x \in RemainingUnder(p)
    /\ ~HeldByAnother(p, x)
    /\ locks' = [locks EXCEPT ![p] = @ \cup {x}]
    /\ UNCHANGED <<pc, key, snap, shares, items, rows, live, dropping, before>>

CommitDrop(p) ==
    /\ p \in dropping
    /\ RemainingUnder(p) = {}
    /\ live' = live \ {p}
    /\ dropping' = dropping \ {p}
    /\ rows' = rows \ locks[p]
    /\ locks' = [locks EXCEPT ![p] = {}]
    /\ UNCHANGED <<pc, key, snap, shares, items, before>>

AbortDrop(p) ==
    /\ p \in dropping
    /\ dropping' = dropping \ {p}
    /\ locks' = [locks EXCEPT ![p] = {}]
    /\ UNCHANGED <<pc, key, snap, shares, items, rows, live, before>>

-----------------------------------------------------------------------------
RequestStep(r) == \/ StartDelete(r)
                  \/ \E x \in Requests : DeleteRow(r, x)
                  \/ InsertHead(r)
                  \/ \E p \in Parents : ShareParent(r, p)
                  \/ InsertItem(r)
                  \/ Commit(r)
                  \/ CommitAnswerLost(r)
                  \/ Rollback(r)
                  \/ BeginFails(r)

ParentStep(p) == \/ LockParent(p)
                 \/ \E x \in Requests : CascadeRow(p, x)
                 \/ CommitDrop(p)
                 \/ AbortDrop(p)

Next == \/ \E r \in Requests : RequestStep(r)
        \/ \E p \in Parents : ParentStep(p)

Spec == Init /\ [][Next]_vars

-----------------------------------------------------------------------------
(* Waiting.  A transaction is stuck when all that it has still to lock is  *)
(* locked by others.  PostgreSQL looks for a set of transactions that wait *)
(* for one another and aborts one of them.                                 *)

Unshared(r) == ParentsOf[key[r]] \ shares[r]

RowHolders(t, wanted) ==
    IF \E x \in wanted : ~HeldByAnother(t, x)
    THEN {}
    ELSE {u \in Txns \ {t} : locks[u] \cap wanted /= {}}

Blockers(t) ==
    CASE t \in Requests /\ pc[t] = "deleting" -> RowHolders(t, Remaining(t))
      [] t \in Requests /\ pc[t] = "inserting" ->
            IF Unshared(t) \subseteq dropping THEN Unshared(t) ELSE {}
      [] t \in dropping -> RowHolders(t, RemainingUnder(t))
      [] OTHER -> {}

Deadlocked(t) ==
    \E S \in SUBSET Txns :
        /\ t \in S
        /\ \A u \in S : Blockers(u) \cap S /= {}

VictimRollback(r) == Deadlocked(r) /\ Rollback(r)
VictimAbort(p) == Deadlocked(p) /\ AbortDrop(p)

\* A foreign key finds its parent gone.
ForeignKeyError(r) ==
    /\ pc[r] = "inserting"
    /\ ~(Unshared(r) \subseteq live)
    /\ Rollback(r)

(***************************************************************************)
(* The server runs the statements of an open transaction, the lock manager *)
(* serves those that wait, and the deadlock detector picks a victim.  That *)
(* a request is ever made, or ever times out, is not assumed.              *)
(***************************************************************************)
Fairness ==
    /\ \A r \in Requests :
         /\ SF_vars(\E x \in Requests : DeleteRow(r, x))
         /\ WF_vars(InsertHead(r))
         /\ SF_vars(\E p \in Parents : ShareParent(r, p))
         /\ WF_vars(ForeignKeyError(r))
         /\ WF_vars(InsertItem(r))
         /\ WF_vars(Commit(r) \/ CommitAnswerLost(r))
         /\ WF_vars(VictimRollback(r))
    /\ \A p \in Parents :
         /\ SF_vars(\E x \in Requests : CascadeRow(p, x))
         /\ WF_vars(CommitDrop(p))
         /\ WF_vars(VictimAbort(p))

FairSpec == Spec /\ Fairness

-----------------------------------------------------------------------------
TypeOK ==
    /\ pc \in [Requests -> PCs]
    /\ key \in [Requests -> Keys]
    /\ snap \in [Requests -> SUBSET Requests]
    /\ locks \in [Txns -> SUBSET Requests]
    /\ shares \in [Requests -> SUBSET Parents]
    /\ items \in [Requests -> 0 .. NumItems]
    /\ rows \in SUBSET Requests
    /\ live \in SUBSET Parents
    /\ dropping \in SUBSET live
    /\ before \in [Requests -> SUBSET Requests]

\* What is visible of a record is all of it: a reader never finds the head
\* row of a record without the rows under it, whichever statement failed.
StoredWhole == \A x \in rows : pc[x] \in Committed /\ items[x] = NumItems

\* No record outlives its user or its plan, although the record may be
\* inserted while the parent is being deleted (foreign keys, ON DELETE
\* CASCADE).
ReferentialIntegrity == \A x \in rows : ParentsOf[key[x]] \subseteq live

\* Exactly these records are there: those that were committed, whose parents
\* live, and that no committed transaction of the same key found committed
\* when its own DELETE started.  Nothing else is ever lost, and whatever a
\* DELETE could see is gone.
ExactSurvivors ==
    rows = {x \in Requests :
              /\ pc[x] \in Committed
              /\ ParentsOf[key[x]] \subseteq live
              /\ ~\E y \in Requests : /\ pc[y] \in Committed
                                      /\ key[y] = key[x]
                                      /\ x \in before[y]}

\* A record leaves only in the step that stores another of its key, or in the
\* step that drops one of its parents: a failed replacement never leaves the
\* key with less than it had ("先把原先的记录删除再插入" is one transaction).
NeverVanishes ==
    [][\A x \in rows \ rows' :
          \/ \E y \in rows' \ rows : key[y] = key[x]
          \/ \E p \in live \ live' : p \in ParentsOf[key[x]]]_vars

\* The comments of both functions say that the former record is deleted
\* before the new one is inserted, so a key has one record at most.
AtMostOneRecord == \A x, y \in rows : key[x] = key[y] => x = y

\* Every transaction that was begun ends, and so does every DELETE of a
\* parent, also when no timeout ever fires: whatever waits is served or is
\* the victim of a deadlock.
EveryTransactionEnds ==
    /\ \A r \in Requests : pc[r] \in Open ~> pc[r] \notin Open
    /\ \A p \in Parents : p \in dropping ~> p \notin dropping

-----------------------------------------------------------------------------
(* Why it is so: what the locks and the snapshots maintain.                *)

\* A row lock is on a visible row, has one holder, and is one that the holder
\* has reason to take; when the DELETE has ended, nothing is left to lock.
RowLocks ==
    /\ \A t \in Txns : locks[t] \subseteq rows
    /\ \A t, u \in Txns : t /= u => locks[t] \cap locks[u] = {}
    /\ \A r \in Requests :
         /\ locks[r] \subseteq snap[r]
         /\ pc[r] \notin Open => locks[r] = {}
         /\ pc[r] = "inserting" => Remaining(r) = {}
    /\ \A p \in Parents :
         /\ locks[p] \subseteq Dependents(p)
         /\ p \notin dropping => locks[p] = {}

\* A parent that an open INSERT refers to lives and is not being deleted.
ParentLocks ==
    \A r \in Requests :
      /\ shares[r] \subseteq ParentsOf[key[r]] \cap live
      /\ shares[r] \cap dropping = {}
      /\ pc[r] /= "inserting" => shares[r] = {}

\* Of its key, an open transaction has found all that was committed before
\* it began and that is still there; what it found was committed.
Snapshots ==
    \A r \in Requests :
      /\ snap[r] \subseteq {x \in before[r] : key[x] = key[r]}
      /\ before[r] \subseteq {x \in Requests : pc[x] \in Committed}
      /\ pc[r] \in Open =>
           \A x \in rows \cap before[r] : key[x] = key[r] => x \in snap[r]
      /\ pc[r] = "idle" => before[r] = {}

\* The inductive invariant.
IInv == /\ TypeOK
        /\ RowLocks
        /\ ParentLocks
        /\ Snapshots
        /\ StoredWhole
        /\ ReferentialIntegrity
        /\ ExactSurvivors

-----------------------------------------------------------------------------
(* The transaction implements KeyedStore: it opens when its DELETE starts  *)
(* and replaces what the DELETE found when it commits.                     *)

PhaseOf(c) == CASE c = "idle" -> "waiting"
                [] c \in Open -> "open"
                [] c \in Committed -> "stored"
                [] c = "failed" -> "failed"

KS == INSTANCE KeyedStore WITH phase <- [r \in Requests |-> PhaseOf(pc[r])],
                               saw <- snap,
                               stored <- rows

\* Every behaviour of the statements is one that the promise allows.
ImplementsKeyedStore == KS!Spec
=============================================================================
