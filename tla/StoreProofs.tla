----------------------------- MODULE StoreProofs -----------------------------
(***************************************************************************)
(* Proofs about Store, for every set of indexers and of repositories.      *)
(*                                                                         *)
(* The inductive invariant IInv ties a transaction's private view to what  *)
(* its indexer has done: after k DELETEs the view holds no row of the      *)
(* first k tables of ClearOrder; after the last one it is the image of     *)
(* the entities already taken out of "todo", whose keys are distinct.      *)
(***************************************************************************)
EXTENDS Store, TLAPS

-----------------------------------------------------------------------------
(***************************************************************************)
(* FACTS ABOUT TABLES                                                      *)
(***************************************************************************)

LEMMA StagesAre ==
  Stages = {"version", "tasks", "teams", "iterations", "rules", "results"}
<1>1. Len(WriteOrder) = 6
  BY DEF WriteOrder
<1>2. 1..6 = {1, 2, 3, 4, 5, 6}
  OBVIOUS
<1> QED  BY <1>1, <1>2 DEF Stages, WriteOrder

LEMMA TablesAre ==
  /\ NumToClear = 11
  /\ AllTables =
       {"sla_results", "sla_rules", "team_members", "teams",
        "iteration_tasks", "iterations", "change_log", "task_dependencies",
        "task_labels", "tasks", "repository_meta"}
<1>1. Len(ClearOrder) = 11
  BY DEF ClearOrder
<1>2. 1..11 = {1, 2, 3, 4, 5, 6, 7, 8, 9, 10, 11}
  OBVIOUS
<1> QED  BY <1>1, <1>2 DEF AllTables, NumToClear, ClearOrder

\* Every row WriteRepository inserts is in a table it also clears.
LEMMA RowsInAllTables ==
  ASSUME NEW s \in Stages, NEW e, NEW row \in RowsOf(s, e)
  PROVE  row[1] \in AllTables
BY StagesAre, TablesAre DEF RowsOf, OwnRow, ChildRows

LEMMA ImageInAllTables ==
  ASSUME NEW es, NEW row \in Image(es)
  PROVE  row[1] \in AllTables
BY RowsInAllTables DEF Image

\* The tables of the own rows differ from each other and from those of the
\* rows an entity owns.
LEMMA OwnRowTable ==
  ASSUME NEW s \in Stages, NEW t \in Stages, NEW e, NEW f,
         NEW row \in RowsOf(t, f), row[1] = OwnRow(s, e)[1]
  PROVE  s = t /\ row = OwnRow(t, f)
BY StagesAre DEF RowsOf, OwnRow, ChildRows

LEMMA ImageDependsOnStages ==
  ASSUME NEW es, NEW fs, \A s \in Stages : es[s] = fs[s]
  PROVE  Image(es) = Image(fs)
BY DEF Image

LEMMA ImageEmpty ==
  ASSUME NEW es, \A s \in Stages : es[s] = {}
  PROVE  Image(es) = {}
BY DEF Image

-----------------------------------------------------------------------------
(***************************************************************************)
(* THE INDUCTIVE INVARIANT                                                 *)
(***************************************************************************)

\* The entities w's transaction has inserted so far.
Written(w) == [s \in Stages |-> call[w][s] \ todo[w][s]]

TxInv(w) ==
  /\ ~InTx(w) => cleared[w] = 0
  /\ InTx(w) => \A s \in Stages : todo[w][s] \subseteq call[w][s]
  /\ InTx(w) /\ cleared[w] < NumToClear =>
       \A s \in Stages : todo[w][s] = call[w][s]
  /\ 0 < cleared[w] /\ cleared[w] < NumToClear =>
       \A row \in view[w] : \A i \in 1..cleared[w] : row[1] # ClearOrder[i]
  /\ InTx(w) /\ cleared[w] = NumToClear =>
       /\ view[w] = Image(Written(w))
       /\ KeysUnique(Written(w))

IInv ==
  /\ TypeOK
  /\ CommittedWhole
  /\ LockHeldWhileWriting
  /\ \A w \in Indexers : TxInv(w)

LEMMA InTxRepository ==
  ASSUME TypeOK, NEW w \in Indexers, InTx(w)
  PROVE  call[w] \in Repositories
BY DEF TypeOK, InTx

LEMMA CallRows ==
  ASSUME TypeOK, NEW w \in Indexers, InTx(w), NEW s \in Stages,
         NEW e \in call[w][s]
  PROVE  RowsOf(s, e) \subseteq AllRows
BY InTxRepository DEF AllRows, Image

\* What a step of w leaves alone.
LEMMA OthersUnchanged ==
  ASSUME NEW w \in Indexers, NEW v \in Indexers, v # w, TypeOK, TxInv(v),
         call'[v] = call[v], cleared'[v] = cleared[v], todo'[v] = todo[v],
         view'[v] = view[v], applied'[v] = applied[v]
  PROVE  TxInv(v)'
<1>1. Written(v)' = Written(v)
  BY DEF Written
<1> QED  BY <1>1 DEF TxInv, InTx

LEMMA InitInv == Init => IInv
<1> SUFFICES ASSUME Init PROVE IInv
  OBVIOUS
<1>1. TypeOK
  BY TablesAre DEF Init, TypeOK, NoEntities
<1>2. CommittedWhole
  BY DEF Init, CommittedWhole
<1>3. LockHeldWhileWriting
  BY StoreAssumption DEF Init, LockHeldWhileWriting, InTx
<1>4. \A w \in Indexers : TxInv(w)
  BY TablesAre DEF Init, TxInv, InTx
<1> QED  BY <1>1, <1>2, <1>3, <1>4 DEF IInv

LEMMA BeginTxInv ==
  ASSUME IInv, NEW w \in Indexers, NEW r \in Repositories, BeginTx(w, r)
  PROVE  IInv'
<1> USE DEF IInv
<1>1. TypeOK'
  <2>1. [s \in Stages |-> r[s]] \in [Stages -> SUBSET Entities]
    BY DEF Entities
  <2> QED  BY <2>1 DEF BeginTx, TypeOK
<1>2. CommittedWhole'
  BY DEF BeginTx, CommittedWhole
<1>3. cleared[w] = 0
  BY DEF TxInv, BeginTx, InTx
<1>4. LockHeldWhileWriting'
  BY <1>3 DEF LockHeldWhileWriting, BeginTx, InTx, TypeOK
<1>5. TxInv(w)'
  BY <1>3, TablesAre, StoreAssumption DEF TxInv, BeginTx, InTx, TypeOK
<1>6. ASSUME NEW v \in Indexers, v # w PROVE TxInv(v)'
  BY <1>6, OthersUnchanged DEF BeginTx, TypeOK
<1> QED  BY <1>1, <1>2, <1>4, <1>5, <1>6

LEMMA ClearTableInv ==
  ASSUME IInv, NEW w \in Indexers, ClearTable(w)
  PROVE  IInv'
<1> USE DEF IInv
<1> DEFINE c == cleared[w]
           seen == IF c = 0 THEN db ELSE view[w]
<1>1. c \in 0..10 /\ cleared'[w] = c + 1 /\ InTx(w)
  BY TablesAre DEF ClearTable, TypeOK
<1>2. view'[w] = Without(seen, ClearOrder[c + 1])
  BY DEF ClearTable, TypeOK
<1>3. seen \in SUBSET AllRows
  BY DEF TypeOK
<1>4. TypeOK'
  <2>1. Without(seen, ClearOrder[c + 1]) \in SUBSET AllRows
    BY <1>3 DEF Without
  <2>2. c + 1 \in 0..NumToClear
    BY <1>1, TablesAre
  <2> QED  BY <2>1, <2>2 DEF ClearTable, TypeOK
<1>5. CommittedWhole'
  BY DEF ClearTable, CommittedWhole
<1>6. LockHeldWhileWriting'
  <2>1. \A v \in Indexers \ {w} : lock # v
    BY <1>1, StoreAssumption DEF ClearTable, LockHeldWhileWriting
  <2>2. \A v \in Indexers \ {w} : ~(InTx(v) /\ cleared[v] > 0)
    BY <2>1 DEF LockHeldWhileWriting
  <2>3. \A v \in Indexers \ {w} : lock' # v /\ ~(InTx(v)' /\ cleared'[v] > 0)
    BY <2>2 DEF ClearTable, InTx, TypeOK
  <2>4. lock' = w /\ InTx(w)' /\ cleared'[w] > 0
    BY <1>1 DEF ClearTable, InTx, TypeOK
  <2> QED  BY <2>3, <2>4 DEF LockHeldWhileWriting
<1>7. \A row \in view'[w] : \A i \in 1..(c + 1) : row[1] # ClearOrder[i]
  BY <1>1, <1>2, TablesAre DEF TxInv, Without
<1>8. TxInv(w)'
  <2>1. InTx(w)' /\ call'[w] = call[w] /\ todo'[w] = todo[w]
    BY <1>1 DEF ClearTable, InTx
  <2>2. \A s \in Stages : todo[w][s] = call[w][s]
    BY <1>1, TablesAre DEF TxInv
  <2>3. CASE c < 10
    BY <1>1, <1>7, <2>1, <2>2, <2>3, TablesAre DEF TxInv
  <2>4. CASE c = 10
    <3>1. view'[w] \subseteq AllRows
      BY <1>4 DEF TypeOK
    <3>2. \A row \in AllRows : row[1] \in AllTables
      BY ImageInAllTables DEF AllRows
    <3>3. \A row \in view'[w] : row[1] \notin AllTables
      BY <1>7, <2>4, TablesAre DEF AllTables, NumToClear
    <3>4. view'[w] = {}
      BY <3>1, <3>2, <3>3
    <3>5. \A s \in Stages : Written(w)'[s] = {}
      BY <2>1, <2>2 DEF Written
    <3>6. Image(Written(w)') = {}
      BY <3>5, ImageEmpty
    <3>7. KeysUnique(Written(w)')
      BY <3>5 DEF KeysUnique
    <3> QED
      BY <1>1, <2>1, <2>2, <2>4, <3>4, <3>6, <3>7, TablesAre
      DEF TxInv, Written, KeysUnique
  <2> QED  BY <1>1, <2>3, <2>4
<1>9. ASSUME NEW v \in Indexers, v # w PROVE TxInv(v)'
  BY <1>9, OthersUnchanged DEF ClearTable, TypeOK
<1> QED  BY <1>4, <1>5, <1>6, <1>8, <1>9

LEMMA InsertEntityInv ==
  ASSUME IInv, NEW w \in Indexers, NEW s \in Stages, InsertEntity(w, s)
  PROVE  IInv'
<1> USE DEF IInv
<1>1. PICK e \in todo[w][s] :
        /\ ~KeyTaken(view[w], s, e)
        /\ view' = [view EXCEPT ![w] = @ \cup RowsOf(s, e)]
        /\ todo' = [todo EXCEPT ![w][s] = @ \ {e}]
  BY DEF InsertEntity
<1>2. InTx(w) /\ InTx(w)' /\ cleared[w] = NumToClear
  BY DEF InsertEntity, InTx
<1>3. e \in call[w][s] /\ RowsOf(s, e) \subseteq AllRows
  BY <1>1, <1>2, CallRows DEF TxInv
<1>4. /\ todo'[w][s] = todo[w][s] \ {e}
      /\ \A t \in Stages \ {s} : todo'[w][t] = todo[w][t]
      /\ view'[w] = view[w] \cup RowsOf(s, e)
  BY <1>1 DEF TypeOK
<1>5. TypeOK'
  <2>1. view' \in [Indexers -> SUBSET AllRows]
    BY <1>1, <1>3 DEF TypeOK
  <2>2. todo' \in [Indexers -> [Stages -> SUBSET Entities]]
    BY <1>1 DEF TypeOK
  <2> QED  BY <2>1, <2>2 DEF InsertEntity, TypeOK
<1>6. CommittedWhole'
  BY DEF InsertEntity, CommittedWhole
<1>7. LockHeldWhileWriting'
  BY DEF InsertEntity, LockHeldWhileWriting, InTx
<1>8. TxInv(w)'
  <2>1. call'[w] = call[w] /\ cleared'[w] = cleared[w]
    BY DEF InsertEntity
  <2>2. view[w] = Image(Written(w)) /\ KeysUnique(Written(w))
    BY <1>2 DEF TxInv
  <2>3. /\ Written(w)'[s] = Written(w)[s] \cup {e}
        /\ \A t \in Stages \ {s} : Written(w)'[t] = Written(w)[t]
    BY <1>3, <1>4, <2>1 DEF Written
  <2>4. view'[w] = Image(Written(w)')
    <3> DEFINE es == Written(w)
               fs == Written(w)'
    <3>1. fs[s] = es[s] \cup {e} /\ \A t \in Stages \ {s} : fs[t] = es[t]
      BY <2>3
    <3> HIDE DEF es, fs
    <3>2. Image(fs) = Image(es) \cup RowsOf(s, e)
      BY <3>1, SMTT(20) DEF Image
    <3> USE DEF es, fs
    <3> QED  BY <1>4, <2>2, <3>2
  <2>5. KeysUnique(Written(w)')
    <3> SUFFICES ASSUME NEW t \in Stages \ {"results"},
                        NEW e1 \in Written(w)'[t], NEW e2 \in Written(w)'[t],
                        OwnRow(t, e1)[1] = OwnRow(t, e2)[1],
                        OwnRow(t, e1)[2] = OwnRow(t, e2)[2]
                 PROVE  e1 = e2
      BY DEF KeysUnique
    <3>1. CASE t # s \/ (e1 # e /\ e2 # e)
      BY <2>2, <2>3, <3>1 DEF KeysUnique
    <3>2. CASE t = s /\ (e1 = e \/ e2 = e)
      <4>1. \A f \in Written(w)[s] : OwnRow(s, f) \in view[w]
        BY <2>2 DEF Image, RowsOf
      <4>2. \A f \in Written(w)[s] : OwnRow(s, f)[1] = OwnRow(s, e)[1]
                                       => OwnRow(s, f)[2] # OwnRow(s, e)[2]
        BY <1>1, <4>1, <3>2 DEF KeyTaken
      <4> QED  BY <2>3, <3>2, <4>2
    <3> QED  BY <3>1, <3>2
  <2>6. \A t \in Stages : todo'[w][t] \subseteq call'[w][t]
    BY <1>2, <1>4, <2>1 DEF TxInv
  <2> QED  BY <1>2, <2>1, <2>4, <2>5, <2>6, TablesAre DEF TxInv, Written, KeysUnique
<1>9. ASSUME NEW v \in Indexers, v # w PROVE TxInv(v)'
  BY <1>1, <1>9, OthersUnchanged DEF InsertEntity, TypeOK
<1> QED  BY <1>5, <1>6, <1>7, <1>8, <1>9

\* What ends a transaction keeps the invariant, whatever it leaves in "db".
LEMMA EndTxInv ==
  ASSUME IInv, NEW w \in Indexers, EndTx(w),
         call' \in [Indexers -> Repositories \cup {NoRepo}],
         applied' \in [Indexers -> BOOLEAN],
         reply' \in [Indexers -> {"none", "ok", "error"}],
         db' \in SUBSET AllRows, CommittedWhole',
         \A v \in Indexers \ {w} : call'[v] = call[v] /\ applied'[v] = applied[v],
         ~InTx(w)'
  PROVE  IInv'
<1> USE DEF IInv
<1>1. TypeOK'
  <2>1. NoEntities \in [Stages -> SUBSET Entities]
    BY DEF NoEntities
  <2>2. 0 \in 0..NumToClear
    BY TablesAre
  <2> QED  BY <2>1, <2>2 DEF EndTx, TypeOK
<1>2. LockHeldWhileWriting'
  <2>1. \A v \in Indexers \ {w} : InTx(v)' <=> InTx(v)
    BY DEF InTx
  <2> QED  BY <2>1, StoreAssumption DEF EndTx, LockHeldWhileWriting, TypeOK
<1>3. TxInv(w)'
  BY TablesAre DEF TxInv, EndTx, TypeOK, InTx
<1>4. ASSUME NEW v \in Indexers, v # w PROVE TxInv(v)'
  BY <1>4, OthersUnchanged DEF EndTx, TypeOK
<1> QED  BY <1>1, <1>2, <1>3, <1>4

\* At COMMIT everything is written: the view is the image of the argument.
LEMMA CommitIsWhole ==
  ASSUME IInv, NEW w \in Indexers, Commit(w)
  PROVE  /\ call[w] \in Repositories
         /\ KeysUnique(call[w])
         /\ db' = Image(call[w])
<1> USE DEF IInv
<1>1. InTx(w) /\ cleared[w] = NumToClear /\ todo[w] = NoEntities /\ db' = view[w]
  BY DEF Commit
<1>2. view[w] = Image(Written(w)) /\ KeysUnique(Written(w))
  BY <1>1 DEF TxInv
<1>3. \A s \in Stages : Written(w)[s] = call[w][s]
  BY <1>1 DEF Written, NoEntities
<1>4. Image(Written(w)) = Image(call[w])
  BY <1>3, ImageDependsOnStages
<1>5. KeysUnique(call[w])
  BY <1>2, <1>3 DEF KeysUnique
<1> QED  BY <1>1, <1>2, <1>4, <1>5, InTxRepository

LEMMA CommitInv ==
  ASSUME IInv, NEW w \in Indexers, Commit(w)
  PROVE  IInv'
<1>1. CommittedWhole' /\ db' \in SUBSET AllRows
  BY CommitIsWhole DEF CommittedWhole, AllRows
<1>2. ~InTx(w)'
  BY DEF Commit, InTx, IInv, TypeOK
<1> QED  BY <1>1, <1>2, EndTxInv DEF Commit, IInv, TypeOK

LEMMA FailInv ==
  ASSUME IInv, NEW w \in Indexers, Fail(w)
  PROVE  IInv'
BY EndTxInv DEF Fail, InTx, IInv, TypeOK, CommittedWhole

LEMMA CrashInv ==
  ASSUME IInv, NEW w \in Indexers, Crash(w)
  PROVE  IInv'
BY EndTxInv DEF Crash, InTx, IInv, TypeOK, CommittedWhole

LEMMA ReturnInv ==
  ASSUME IInv, NEW w \in Indexers, Return(w)
  PROVE  IInv'
<1> USE DEF IInv
<1>1. TypeOK' /\ CommittedWhole'
  BY DEF Return, TypeOK, CommittedWhole
<1>2. ~InTx(w) /\ ~InTx(w)'
  BY DEF Return, InTx, TypeOK
<1>3. LockHeldWhileWriting'
  BY <1>2 DEF Return, LockHeldWhileWriting, InTx, TypeOK
<1>4. TxInv(w)'
  BY <1>2, TablesAre DEF Return, TxInv, TypeOK
<1>5. ASSUME NEW v \in Indexers, v # w PROVE TxInv(v)'
  BY <1>5, OthersUnchanged DEF Return, TypeOK
<1> QED  BY <1>1, <1>3, <1>4, <1>5

LEMMA StutterInv == IInv /\ UNCHANGED vars => IInv'
BY DEF vars, IInv, TypeOK, CommittedWhole, LockHeldWhileWriting, TxInv, InTx,
       Written

\* Every reachable state satisfies the inductive invariant.
THEOREM InductiveInvariant == Spec => []IInv
<1>1. IInv /\ [Next]_vars => IInv'
  BY BeginTxInv, ClearTableInv, InsertEntityInv, CommitInv, ReturnInv, FailInv,
     CrashInv, StutterInv DEF Next, Step
<1> QED  BY InitInv, <1>1, PTL DEF Spec

-----------------------------------------------------------------------------
(***************************************************************************)
(* THE THEOREMS                                                            *)
(***************************************************************************)

\* Every variable keeps its type: in particular a transaction only ever sees
\* rows that some repository really has.
THEOREM TypeCorrect == Spec => []TypeOK
<1>1. IInv => TypeOK
  BY DEF IInv
<1> QED  BY InductiveInvariant, <1>1, PTL

\* What WriteRepository leaves in the file is one whole repository, however
\* its callers interleave, fail and die (store.go:85-228).
THEOREM CommittedIsWhole == Spec => []CommittedWhole
<1>1. IInv => CommittedWhole
  BY DEF IInv
<1> QED  BY InductiveInvariant, <1>1, PTL

\* The write lock is held exactly while a transaction writes: no early return
\* of WriteRepository keeps it.
THEOREM LockIsExact == Spec => []LockHeldWhileWriting
<1>1. IInv => LockHeldWhileWriting
  BY DEF IInv
<1> QED  BY InductiveInvariant, <1>1, PTL

\* Re-indexing never collides with what an earlier call committed.
THEOREM RewriteNeverConflicts == Spec => []NoSpuriousConflict
<1>1. IInv => NoSpuriousConflict
  <2> SUFFICES ASSUME IInv, NEW w \in Indexers, InTx(w),
                      cleared[w] = NumToClear, KeysUnique(call[w]),
                      NEW s \in Stages, NEW e \in todo[w][s],
                      KeyTaken(view[w], s, e)
               PROVE  FALSE
    BY DEF NoSpuriousConflict
  <2>1. view[w] = Image(Written(w)) /\ todo[w][s] \subseteq call[w][s]
    BY DEF IInv, TxInv
  <2>2. PICK row \in Image(Written(w)) :
          row[1] = OwnRow(s, e)[1] /\ row[2] = OwnRow(s, e)[2]
    BY <2>1 DEF KeyTaken
  <2>3. PICK t \in Stages : \E g \in Written(w)[t] : row \in RowsOf(t, g)
    BY <2>2 DEF Image
  <2>4. PICK f \in Written(w)[t] : row \in RowsOf(t, f)
    BY <2>3
  <2>5. s = t /\ row = OwnRow(t, f)
    BY <2>2, <2>4, OwnRowTable
  <2>6. f \in call[w][s] /\ f \notin todo[w][s]
    BY <2>4, <2>5 DEF Written
  <2>7. s # "results"
    BY DEF KeyTaken
  <2>8. e = f
    BY <2>1, <2>2, <2>5, <2>6, <2>7 DEF KeysUnique
  <2> QED  BY <2>6, <2>8
<1> QED  BY InductiveInvariant, <1>1, PTL

\* The refinement uses the rows of Tables unchanged.
LEMMA TablesAgree ==
  ASSUME NEW es
  PROVE  /\ Abs!Image(es) = Image(es)
         /\ Abs!KeysUnique(es) <=> KeysUnique(es)
<1>1. Abs!Stages = Stages
  BY DEF Abs!Stages, Abs!WriteOrder, Stages, WriteOrder
<1>2. \A s, e : Abs!OwnRow(s, e) = OwnRow(s, e)
  BY DEF Abs!OwnRow, OwnRow
<1>3. \A s, e : Abs!ChildRows(s, e) = ChildRows(s, e)
  BY DEF Abs!ChildRows, ChildRows
<1>4. \A s, e : Abs!RowsOf(s, e) = RowsOf(s, e)
  BY <1>2, <1>3 DEF Abs!RowsOf, RowsOf
<1> QED
  BY <1>1, <1>2, <1>4
  DEF Abs!Image, Image, Abs!KeysUnique, KeysUnique

\* The program of store.go:85-228 implements the atomic store of StoreAbs.
THEOREM Refinement == Spec => ImplementsStoreAbs
<1>1. Init => Abs!StoreInit
  BY DEF Init, Abs!StoreInit
<1>2. IInv /\ [Next]_vars => [Abs!StoreNext]_(Abs!storeVars)
  <2> SUFFICES ASSUME IInv, [Next]_vars
               PROVE  [Abs!StoreNext]_(Abs!storeVars)
    OBVIOUS
  <2>1. ASSUME NEW w \in Indexers, NEW r \in Repositories, BeginTx(w, r)
        PROVE  Abs!Invoke(w, r)
    BY <2>1 DEF BeginTx, Abs!Invoke
  <2>2. ASSUME NEW w \in Indexers, ClearTable(w)
        PROVE  UNCHANGED Abs!storeVars
    BY <2>2 DEF ClearTable, Abs!storeVars
  <2>3. ASSUME NEW w \in Indexers, NEW s \in Stages, InsertEntity(w, s)
        PROVE  UNCHANGED Abs!storeVars
    BY <2>3 DEF InsertEntity, Abs!storeVars
  <2>4. ASSUME NEW w \in Indexers, Commit(w)
        PROVE  Abs!Apply(w)
    <3>1. KeysUnique(call[w]) /\ db' = Image(call[w])
      BY <2>4, CommitIsWhole
    <3>2. Abs!KeysUnique(call[w]) /\ db' = Abs!Image(call[w])
      BY <3>1, TablesAgree
    <3> QED  BY <2>4, <3>2 DEF Commit, InTx, Abs!Apply
  <2>5. ASSUME NEW w \in Indexers, Return(w)
        PROVE  Abs!Acknowledge(w)
    BY <2>5 DEF Return, Abs!Acknowledge
  <2>6. ASSUME NEW w \in Indexers, Fail(w)
        PROVE  Abs!Reject(w)
    BY <2>6 DEF Fail, InTx, Abs!Reject
  <2>7. ASSUME NEW w \in Indexers, Crash(w)
        PROVE  Abs!Abandon(w)
    BY <2>7 DEF Crash, Abs!Abandon
  <2>8. CASE UNCHANGED vars
    BY <2>8 DEF vars, Abs!storeVars
  <2> QED
    BY <2>1, <2>2, <2>3, <2>4, <2>5, <2>6, <2>7, <2>8
    DEF Next, Step, Abs!StoreNext
<1> QED
  BY <1>1, <1>2, InductiveInvariant, PTL
  DEF Spec, ImplementsStoreAbs, Abs!StoreSpec

=============================================================================
