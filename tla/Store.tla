-------------------------------- MODULE Store --------------------------------
(***************************************************************************)
(* SQLiteStore.WriteRepository (store/store.go), statement by statement,   *)
(* on a SQLite database in WAL mode.                                       *)
(*                                                                         *)
(* Each indexer (a goroutine or a process with the same database file      *)
(* open) runs WriteRepository: BEGIN, one DELETE per table, the INSERT     *)
(* loops, COMMIT.  BEGIN is deferred, so the first DELETE takes SQLite's   *)
(* write lock and the snapshot.  Every statement can fail (lock busy,      *)
(* context cancelled, disk full, a primary key already taken): the         *)
(* function then returns the error and the deferred tx.Rollback discards   *)
(* the transaction.  A process can also die at any statement; SQLite's     *)
(* recovery then discards what was not committed.                          *)
(*                                                                         *)
(* One step writes one entity: its own row and the rows it owns.  The      *)
(* INSERTs behind a step that fails half-way are discarded with the rest   *)
(* of the transaction.  The loops over Go maps run in any order; those     *)
(* over slices run in order, and since rows form a set the model may let   *)
(* them run in any order too.                                              *)
(***************************************************************************)
EXTENDS Tables

CONSTANTS Indexers,      \* the concurrent callers of WriteRepository
          Repositories,  \* the repositories they may pass
          NoRepo,        \* no call in progress
          NoIndexer      \* nobody holds the write lock

ASSUME StoreAssumption ==
  /\ NoRepo \notin Repositories
  /\ NoIndexer \notin Indexers

VARIABLES db,       \* the committed rows
          lock,     \* the indexer whose transaction holds the write lock
          call,     \* call[w]: the argument of w's WriteRepository in progress
          cleared,  \* cleared[w]: how many tables w's transaction has cleared
          todo,     \* todo[w][s]: entities the loop of stage s has yet to insert
          view,     \* view[w]: the rows as w's transaction sees them
          applied,  \* applied[w]: w's COMMIT has succeeded
          reply     \* reply[w]: how w's last call returned

vars == << db, lock, call, cleared, todo, view, applied, reply >>

NoEntities == [s \in Stages |-> {}]

Init ==
  /\ db = {}
  /\ lock = NoIndexer
  /\ call = [w \in Indexers |-> NoRepo]
  /\ cleared = [w \in Indexers |-> 0]
  /\ todo = [w \in Indexers |-> NoEntities]
  /\ view = [w \in Indexers |-> {}]
  /\ applied = [w \in Indexers |-> FALSE]
  /\ reply = [w \in Indexers |-> "none"]

InTx(w) == call[w] # NoRepo /\ ~applied[w]

\* The tables WriteRepository clears.
NumToClear == Len(ClearOrder)

BeginTx(w, r) ==
  /\ call[w] = NoRepo
  /\ call' = [call EXCEPT ![w] = r]
  /\ todo' = [todo EXCEPT ![w] = [s \in Stages |-> r[s]]]
  /\ applied' = [applied EXCEPT ![w] = FALSE]
  /\ reply' = [reply EXCEPT ![w] = "none"]
  /\ UNCHANGED << db, lock, cleared, view >>

Without(d, table) == {r \in d : r[1] # table}

\* Faulty variant: the transaction begins without taking the write lock.
ClearTableUnlocked(w) ==
  /\ InTx(w) /\ cleared[w] < NumToClear
  /\ lock' = w
  /\ view' = [view EXCEPT ![w] =
                Without(IF cleared[w] = 0 THEN db ELSE view[w],
                        ClearOrder[cleared[w] + 1])]
  /\ cleared' = [cleared EXCEPT ![w] = @ + 1]
  /\ UNCHANGED << db, call, todo, applied, reply >>

\* DELETE FROM table.  The first one upgrades the deferred transaction: it
\* takes the lock and reads the committed content.
ClearTable(w) ==
  /\ InTx(w) /\ cleared[w] < NumToClear
  /\ IF cleared[w] = 0 THEN lock = NoIndexer ELSE lock = w
  /\ lock' = w
  /\ view' = [view EXCEPT ![w] =
                Without(IF cleared[w] = 0 THEN db ELSE view[w],
                        ClearOrder[cleared[w] + 1])]
  /\ cleared' = [cleared EXCEPT ![w] = @ + 1]
  /\ UNCHANGED << db, call, todo, applied, reply >>

\* The loops of the stages before s have ended.
Reached(w, s) ==
  \A i, j \in 1..Len(WriteOrder) :
    i < j /\ WriteOrder[j] = s => todo[w][WriteOrder[i]] = {}

\* Faulty variant: the entity goes into a table named like its loop.
InsertEntityMisplaced(w, s) ==
  /\ InTx(w) /\ cleared[w] = NumToClear
  /\ Reached(w, s)
  /\ \E e \in todo[w][s] :
       /\ view' = [view EXCEPT ![w] = @ \cup {<< s, e >>}]
       /\ todo' = [todo EXCEPT ![w][s] = @ \ {e}]
  /\ UNCHANGED << db, lock, call, cleared, applied, reply >>

InsertEntity(w, s) ==
  /\ InTx(w) /\ cleared[w] = NumToClear
  /\ Reached(w, s)
  /\ \E e \in todo[w][s] :
       /\ ~KeyTaken(view[w], s, e)
       /\ view' = [view EXCEPT ![w] = @ \cup RowsOf(s, e)]
       /\ todo' = [todo EXCEPT ![w][s] = @ \ {e}]
  /\ UNCHANGED << db, lock, call, cleared, applied, reply >>

\* The transaction is over, and what it held with it.
EndTx(w) ==
  /\ cleared' = [cleared EXCEPT ![w] = 0]
  /\ todo' = [todo EXCEPT ![w] = NoEntities]
  /\ view' = [view EXCEPT ![w] = {}]
  /\ lock' = IF lock = w THEN NoIndexer ELSE lock

\* Faulty variant: the transaction is committed between two insert loops.
CommitBetweenLoops(w) ==
  /\ InTx(w) /\ cleared[w] = NumToClear
  /\ todo[w]["tasks"] = {}
  /\ db' = view[w]
  /\ applied' = [applied EXCEPT ![w] = TRUE]
  /\ EndTx(w)
  /\ UNCHANGED << call, reply >>

Commit(w) ==
  /\ InTx(w) /\ cleared[w] = NumToClear
  /\ todo[w] = NoEntities
  /\ db' = view[w]
  /\ applied' = [applied EXCEPT ![w] = TRUE]
  /\ EndTx(w)
  /\ UNCHANGED << call, reply >>

\* The function returns nil to its caller.
Return(w) ==
  /\ call[w] # NoRepo /\ applied[w]
  /\ call' = [call EXCEPT ![w] = NoRepo]
  /\ reply' = [reply EXCEPT ![w] = "ok"]
  /\ UNCHANGED << db, lock, cleared, todo, view, applied >>

\* Faulty variant: a failed statement makes the function start over.
FailRetries(w) ==
  /\ InTx(w)
  /\ cleared' = [cleared EXCEPT ![w] = 0]
  /\ todo' = [todo EXCEPT ![w] = [s \in Stages |-> call[w][s]]]
  /\ view' = [view EXCEPT ![w] = {}]
  /\ lock' = IF lock = w THEN NoIndexer ELSE lock
  /\ UNCHANGED << db, call, applied, reply >>

\* A statement fails: return err, and the deferred Rollback.  After a failing
\* COMMIT that Rollback does nothing; SQLite itself has undone the transaction.
Fail(w) ==
  /\ InTx(w)
  /\ call' = [call EXCEPT ![w] = NoRepo]
  /\ reply' = [reply EXCEPT ![w] = "error"]
  /\ EndTx(w)
  /\ UNCHANGED << db, applied >>

\* The process dies; the next opener recovers the write-ahead log.
Crash(w) ==
  /\ call[w] # NoRepo
  /\ call' = [call EXCEPT ![w] = NoRepo]
  /\ EndTx(w)
  /\ UNCHANGED << db, applied, reply >>

\* What the code of a call in progress does on its own.
Step(w) ==
  \/ ClearTable(w)
  \/ \E s \in Stages : InsertEntity(w, s)
  \/ Commit(w)
  \/ Return(w)
  \/ Fail(w)

Next ==
  \E w \in Indexers :
    \/ \E r \in Repositories : BeginTx(w, r)
    \/ Step(w)
    \/ Crash(w)

Spec == Init /\ [][Next]_vars

FairSpec == Spec /\ \A w \in Indexers : WF_vars(Step(w))

-----------------------------------------------------------------------------
(***************************************************************************)
(* PROPERTIES                                                              *)
(***************************************************************************)

AllRows == UNION {Image(r) : r \in Repositories}

Entities == UNION {r[s] : r \in Repositories, s \in Stages}

TypeOK ==
  /\ db \in SUBSET AllRows
  /\ lock \in Indexers \cup {NoIndexer}
  /\ call \in [Indexers -> Repositories \cup {NoRepo}]
  /\ cleared \in [Indexers -> 0..NumToClear]
  /\ todo \in [Indexers -> [Stages -> SUBSET Entities]]
  /\ view \in [Indexers -> SUBSET AllRows]
  /\ applied \in [Indexers -> BOOLEAN]
  /\ reply \in [Indexers -> {"none", "ok", "error"}]

(***************************************************************************)
(* The committed database is empty or the image of exactly one repository  *)
(* that was passed to WriteRepository, with no two entities on one primary *)
(* key: never a mixture of two, a remainder of an older one or a part of   *)
(* one, whatever failed or crashed on the way ("writes a complete          *)
(* repository to the database in a single transaction", store.go:84).      *)
(***************************************************************************)
CommittedWhole ==
  \/ db = {}
  \/ \E r \in Repositories : KeysUnique(r) /\ db = Image(r)

(***************************************************************************)
(* The write lock is held exactly while its holder is between its first    *)
(* DELETE and the end of its transaction, so no early return leaks it (the *)
(* deferred Rollback of store.go:92) and no two indexers write at once.    *)
(***************************************************************************)
LockHeldWhileWriting ==
  \A w \in Indexers : lock = w <=> (InTx(w) /\ cleared[w] > 0)

(***************************************************************************)
(* A repository with distinct keys never meets a constraint error: the     *)
(* DELETEs left nothing its INSERTs can collide with, although another     *)
(* repository with the same keys was committed before (re-indexing).       *)
(***************************************************************************)
NoSpuriousConflict ==
  \A w \in Indexers :
    InTx(w) /\ cleared[w] = NumToClear /\ KeysUnique(call[w]) =>
      \A s \in Stages : \A e \in todo[w][s] : ~KeyTaken(view[w], s, e)

(***************************************************************************)
(* The statement by statement program implements the atomic store: to a    *)
(* reader each call takes effect at once, at its COMMIT, or not at all.    *)
(***************************************************************************)
Abs == INSTANCE StoreAbs WITH content <- db

ImplementsStoreAbs == Abs!StoreSpec

(***************************************************************************)
(* Liveness, when every call in progress eventually executes its next      *)
(* statement, with success or an error: the call ends.  (With it ends its  *)
(* write lock, by LockHeldWhileWriting.)                                   *)
(***************************************************************************)
EveryCallEnds ==
  \A w \in Indexers : call[w] # NoRepo ~> call[w] = NoRepo

=============================================================================
