------------------------------ MODULE StoreAbs ------------------------------
(***************************************************************************)
(* What the store promises to the callers of WriteRepository: the content  *)
(* is the image of one whole repository and is replaced in one indivisible *)
(* step, although a call may fail, and its process may die, at any time.   *)
(*                                                                         *)
(* A call takes effect at most once, between its invocation and its reply. *)
(* A call that replies "error" took no effect.  A call whose process died  *)
(* gets no reply, and may or may not have taken effect.                    *)
(* Store.tla, the statement by statement model, implements this module.    *)
(***************************************************************************)
EXTENDS Tables

CONSTANTS Indexers,      \* the concurrent callers of WriteRepository
          Repositories,  \* the repositories they may pass
          NoRepo         \* no call in progress

ASSUME NoRepoAssumption == NoRepo \notin Repositories

VARIABLES content,  \* what a reader of the database sees
          call,     \* call[w]: the repository of w's call in progress
          applied,  \* applied[w]: that call has taken effect
          reply     \* reply[w]: how w's last call ended

storeVars == << content, call, applied, reply >>

StoreInit ==
  /\ content = {}
  /\ call = [w \in Indexers |-> NoRepo]
  /\ applied = [w \in Indexers |-> FALSE]
  /\ reply = [w \in Indexers |-> "none"]

Invoke(w, r) ==
  /\ call[w] = NoRepo
  /\ call' = [call EXCEPT ![w] = r]
  /\ applied' = [applied EXCEPT ![w] = FALSE]
  /\ reply' = [reply EXCEPT ![w] = "none"]
  /\ UNCHANGED content

\* Only a repository without duplicate keys can take effect.
Apply(w) ==
  /\ call[w] # NoRepo /\ ~applied[w]
  /\ KeysUnique(call[w])
  /\ content' = Image(call[w])
  /\ applied' = [applied EXCEPT ![w] = TRUE]
  /\ UNCHANGED << call, reply >>

Acknowledge(w) ==
  /\ call[w] # NoRepo /\ applied[w]
  /\ call' = [call EXCEPT ![w] = NoRepo]
  /\ reply' = [reply EXCEPT ![w] = "ok"]
  /\ UNCHANGED << content, applied >>

Reject(w) ==
  /\ call[w] # NoRepo /\ ~applied[w]
  /\ call' = [call EXCEPT ![w] = NoRepo]
  /\ reply' = [reply EXCEPT ![w] = "error"]
  /\ UNCHANGED << content, applied >>

Abandon(w) ==
  /\ call[w] # NoRepo
  /\ call' = [call EXCEPT ![w] = NoRepo]
  /\ UNCHANGED << content, applied, reply >>

StoreNext ==
  \E w \in Indexers :
    \/ \E r \in Repositories : Invoke(w, r)
    \/ Apply(w)
    \/ Acknowledge(w)
    \/ Reject(w)
    \/ Abandon(w)

StoreSpec == StoreInit /\ [][StoreNext]_storeVars

=============================================================================
