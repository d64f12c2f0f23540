----------------------------- MODULE XactoTrans -----------------------------
(***************************************************************************)
(* The transaction manager of the Xacto server (xacto/src/transaction.c):  *)
(* dependency lists, the commit and abort protocol built on one semaphore  *)
(* and one wait count per transaction, and reference counting.             *)
(*                                                                         *)
(* Every client connection has a service thread, and every thread owns one *)
(* transaction, so a transaction, its ID and its thread share one number.  *)
(* A step is one access to a field another thread may touch at that time:  *)
(* trans_commit and trans_abort read a dependee's status, increment its    *)
(* waitcnt (a read and a write, under the WRONG mutex) and use its         *)
(* semaphore in separate steps; trans_unref drops the count under the      *)
(* mutex and tests it after unlocking.                                     *)
(*                                                                         *)
(* The object store is external (store.c under src/ is a stub; the server  *)
(* links a library): include/store.h states which calls it makes.  Under   *)
(* its own mutex it makes versions (each holds a reference on its creator),*)
(* adds dependencies on pending creators with a smaller ID, and garbage    *)
(* collects: it disposes of versions and aborts the creators of an aborted *)
(* version and of the versions behind it.  A version is behind an aborted  *)
(* one exactly when its creator was made dependent on that aborter, so the *)
(* keys and version lists are abstracted to "some dependee has aborted".   *)
(***************************************************************************)
EXTENDS Integers, Sequences, FiniteSets

CONSTANTS N,            \* number of client connections
          MaxVersions,  \* bound: versions one creator has in the store
          Refusable     \* bound: transactions the store may refuse as late

ASSUME NAssumption == N \in Nat \ {0}
ASSUME MaxVersionsAssumption == MaxVersions \in Nat

Trans == 0 .. N - 1
None == N

VARIABLES
  unique_id,  \* the next transaction ID
  status,     \* [Trans -> TRANS_STATUS]
  depends,    \* [Trans -> Seq(Trans)], the DEPENDENCY list in list order
  waitcnt,    \* [Trans -> Nat]
  sem,        \* [Trans -> Nat]
  refcnt,     \* [Trans -> Nat]
  freed,      \* transactions whose memory has been freed
  versions,   \* [Trans -> Nat], versions the store holds, by creator
  mapmutex,   \* the thread inside the store, or None
  pc,         \* control point of each thread
  tgt,        \* the transaction a thread's abort / unref / add call is about
  ret,        \* where that call returns to
  idx,        \* loop cursor over depends
  reg,        \* a local: waitcnt as read
  halt        \* "no", or why the server process is gone

shared == <<unique_id, status, depends, waitcnt, sem, refcnt, freed>>
store == <<versions, mapmutex>>
local == <<pc, tgt, ret, idx, reg>>
vars == <<shared, store, local, halt>>

TRANS_STATUS == {"PENDING", "COMMITTED", "ABORTED"}

AbortPC == {"a_chk", "a_set", "a_cnt", "a_V"}
PC == {"none", "idle", "store", "dep", "gcdisp", "c_read", "c_inc", "c_add",
       "c_P", "c_chk", "c_cnt", "c_V", "c_set", "u_dec", "u_chk", "end"}
        \cup AbortPC
RET == {"end", "store", "gcdisp"}
HALT == {"no", "abort", "undefined"}

Deps(t) == {depends[t][i] : i \in 1 .. Len(depends[t])}

\* The dependee a commit loop is at.
Cursor(t) == depends[t][idx[t]]

Goto(t, l) == pc' = [pc EXCEPT ![t] = l]

At(t, l) == halt = "no" /\ pc[t] = l

-----------------------------------------------------------------------------
Init ==
  /\ unique_id = 0
  /\ status = [t \in Trans |-> "PENDING"]
  /\ depends = [t \in Trans |-> << >>]
  /\ waitcnt = [t \in Trans |-> 0]
  /\ sem = [t \in Trans |-> 0]
  /\ refcnt = [t \in Trans |-> 0]
  /\ freed = {}
  /\ versions = [t \in Trans |-> 0]
  /\ mapmutex = None
  /\ pc = [t \in Trans |-> "none"]
  /\ tgt = [t \in Trans |-> t]
  /\ ret = [t \in Trans |-> "end"]
  /\ idx = [t \in Trans |-> 1]
  /\ reg = [t \in Trans |-> 0]
  /\ halt = "no"

\* Variant: the creator's own reference is not counted.
CreateUnreferenced(t) ==
  /\ At(t, "none")
  /\ t = unique_id
  /\ unique_id' = unique_id + 1
  /\ Goto(t, "idle")
  /\ UNCHANGED <<status, depends, waitcnt, sem, refcnt, freed, store, tgt,
                 ret, idx, reg, halt>>

\* A client connects and its thread calls trans_create, as one step: the races
\* of its unlocked statements are not modelled.
trans_create(t) ==
  /\ At(t, "none")
  /\ t = unique_id
  /\ unique_id' = unique_id + 1
  /\ refcnt' = [refcnt EXCEPT ![t] = @ + 1]
  /\ Goto(t, "idle")
  /\ UNCHANGED <<status, depends, waitcnt, sem, freed, store, tgt, ret, idx,
                 reg, halt>>

-----------------------------------------------------------------------------
(* The store, called by a PUT or GET request of the client (external).     *)

StoreEnter(t) ==
  /\ At(t, "idle")
  /\ mapmutex = None
  /\ mapmutex' = t
  /\ Goto(t, "store")
  /\ UNCHANGED <<shared, versions, tgt, ret, idx, reg, halt>>

\* Garbage collection meets an aborted version, or one behind it: the store
\* takes a reference, which trans_abort consumes, and then disposes of it.
StoreGCAbort(t, v) ==
  /\ At(t, "store")
  /\ versions[v] > 0
  /\ status[v] = "ABORTED" \/ \E d \in Deps(v) : status[d] = "ABORTED"
  /\ refcnt' = [refcnt EXCEPT ![v] = @ + 1]
  /\ tgt' = [tgt EXCEPT ![t] = v]
  /\ ret' = [ret EXCEPT ![t] = "gcdisp"]
  /\ Goto(t, "a_chk")
  /\ UNCHANGED <<unique_id, status, depends, waitcnt, sem, freed, store, idx,
                 reg, halt>>

\* version_dispose: the version's reference on its creator is dropped.
Dispose(t, v) ==
  /\ versions' = [versions EXCEPT ![v] = @ - 1]
  /\ tgt' = [tgt EXCEPT ![t] = v]
  /\ ret' = [ret EXCEPT ![t] = "store"]
  /\ Goto(t, "u_dec")
  /\ UNCHANGED <<shared, mapmutex, idx, reg, halt>>

StoreGCDispose(t) ==
  /\ At(t, "gcdisp")
  /\ Dispose(t, tgt[t])

\* Garbage collection removes a committed version that is not the latest: one
\* of a later creator is committed too.  (The two are of one key, which the
\* model, having no keys, does not ask.)
StoreGCCommitted(t, v) ==
  /\ At(t, "store")
  /\ versions[v] > 0
  /\ status[v] = "COMMITTED"
  /\ \E w \in Trans : w > v /\ versions[w] > 0 /\ status[w] = "COMMITTED"
  /\ Dispose(t, v)

\* The creator v of an earlier version is seen pending: t will depend on it.
StoreSeePending(t, v) ==
  /\ At(t, "store")
  /\ v < t
  /\ versions[v] > 0
  /\ status[v] = "PENDING"
  /\ status[t] = "PENDING"
  /\ tgt' = [tgt EXCEPT ![t] = v]
  /\ Goto(t, "dep")
  /\ UNCHANGED <<shared, store, ret, idx, reg, halt>>

\* The operation succeeds and makes a version; version_create refs t.
StoreNewVersion(t) ==
  /\ At(t, "store")
  /\ status[t] = "PENDING"
  /\ versions[t] < MaxVersions
  /\ versions' = [versions EXCEPT ![t] = @ + 1]
  /\ refcnt' = [refcnt EXCEPT ![t] = @ + 1]
  /\ mapmutex' = None
  /\ Goto(t, "idle")
  /\ UNCHANGED <<unique_id, status, depends, waitcnt, sem, freed, tgt, ret,
                 idx, reg, halt>>

\* The operation replaces t's own version: one reference for another.
StoreReplaceVersion(t) ==
  /\ At(t, "store")
  /\ status[t] = "PENDING"
  /\ versions[t] > 0
  /\ mapmutex' = None
  /\ Goto(t, "idle")
  /\ UNCHANGED <<shared, versions, tgt, ret, idx, reg, halt>>

\* A creator with a greater ID has a version: the store aborts t.  It "arranges
\* to increase the reference count before doing so".
StoreAbortSelf(t) ==
  /\ At(t, "store")
  /\ t \in Refusable
  /\ status[t] = "PENDING"
  /\ \E u \in Trans : u > t /\ versions[u] > 0
  /\ refcnt' = [refcnt EXCEPT ![t] = @ + 1]
  /\ ret' = [ret EXCEPT ![t] = "store"]
  /\ Goto(t, "a_chk")
  /\ UNCHANGED <<unique_id, status, depends, waitcnt, sem, freed, store, tgt,
                 idx, reg, halt>>

\* The operation returns TRANS_ABORTED and the server calls abort_end: t is
\* aborted once more, for its thread's own reference.
StoreRefuse(t) ==
  /\ At(t, "store")
  /\ status[t] = "ABORTED"
  /\ mapmutex' = None
  /\ tgt' = [tgt EXCEPT ![t] = t]
  /\ ret' = [ret EXCEPT ![t] = "end"]
  /\ Goto(t, "a_chk")
  /\ UNCHANGED <<shared, versions, idx, reg, halt>>

-----------------------------------------------------------------------------
(* trans_add_dependency(t, tgt[t]).                                        *)

\* Variant: no search for an existing entry but the first.
FirstListed(t, d) == Len(depends[t]) > 1 /\ depends[t][1] = d

\* The cursor stops at the last node, whose trans is never compared.
AlreadyListed(t, d) ==
  \E i \in 1 .. Len(depends[t]) - 1 : depends[t][i] = d

\* Variant: the stored pointer is not counted.
AddUnreferenced(t) ==
  /\ At(t, "dep")
  /\ ~AlreadyListed(t, tgt[t])
  /\ depends' = [depends EXCEPT ![t] = Append(@, tgt[t])]
  /\ tgt' = [tgt EXCEPT ![t] = t]
  /\ Goto(t, "store")
  /\ UNCHANGED <<unique_id, status, waitcnt, sem, refcnt, freed, store, ret,
                 idx, reg, halt>>

trans_add_dependency(t) ==
  /\ At(t, "dep")
  /\ ~AlreadyListed(t, tgt[t])
  /\ depends' = [depends EXCEPT ![t] = Append(@, tgt[t])]
  /\ refcnt' = [refcnt EXCEPT ![tgt[t]] = @ + 1]
  /\ tgt' = [tgt EXCEPT ![t] = t]
  /\ Goto(t, "store")
  /\ UNCHANGED <<unique_id, status, waitcnt, sem, freed, store, ret, idx, reg,
                 halt>>

trans_add_listed(t) ==
  /\ At(t, "dep")
  /\ AlreadyListed(t, tgt[t])
  /\ tgt' = [tgt EXCEPT ![t] = t]
  /\ Goto(t, "store")
  /\ UNCHANGED <<shared, store, ret, idx, reg, halt>>


-----------------------------------------------------------------------------
(* trans_commit(t), called for a COMMIT request.                           *)

CommitBegin(t) ==
  /\ At(t, "idle")
  /\ idx' = [idx EXCEPT ![t] = 1]
  /\ Goto(t, "c_read")
  /\ UNCHANGED <<shared, store, tgt, ret, reg, halt>>

\* First loop: the status of the dependee at the cursor is read under t's own
\* mutex.  A finished one is passed over ...
AtDependee(t) == idx[t] <= Len(depends[t])

Advance(t) == idx' = [idx EXCEPT ![t] = @ + 1]

\* Variant: sem_wait is called for a finished dependee too.
CommitAlwaysWait(t) ==
  /\ At(t, "c_read")
  /\ AtDependee(t)
  /\ status[Cursor(t)] # "PENDING"
  /\ Goto(t, "c_inc")
  /\ UNCHANGED <<shared, store, tgt, ret, idx, reg, halt>>

CommitSeeFinal(t) ==
  /\ At(t, "c_read")
  /\ AtDependee(t)
  /\ status[Cursor(t)] # "PENDING"
  /\ Advance(t)
  /\ UNCHANGED <<shared, store, pc, tgt, ret, reg, halt>>

\* Variant: a pending dependee is passed over instead of waited for.
CommitNoWait(t) ==
  /\ At(t, "c_read")
  /\ AtDependee(t)
  /\ status[Cursor(t)] = "PENDING"
  /\ Advance(t)
  /\ UNCHANGED <<shared, store, pc, tgt, ret, reg, halt>>

\* ... a pending one will be waited for ...
CommitSeePending(t) ==
  /\ At(t, "c_read")
  /\ AtDependee(t)
  /\ status[Cursor(t)] = "PENDING"
  /\ Goto(t, "c_inc")
  /\ UNCHANGED <<shared, store, tgt, ret, idx, reg, halt>>

\* ... and at the end of the list the second loop starts.
CommitWaitsDone(t) ==
  /\ At(t, "c_read")
  /\ ~AtDependee(t)
  /\ idx' = [idx EXCEPT ![t] = 1]
  /\ Goto(t, "c_chk")
  /\ UNCHANGED <<shared, store, tgt, ret, reg, halt>>

\* depend->trans->waitcnt++ reads ...
CommitIncRead(t) ==
  /\ At(t, "c_inc")
  /\ reg' = [reg EXCEPT ![t] = waitcnt[Cursor(t)]]
  /\ Goto(t, "c_add")
  /\ UNCHANGED <<shared, store, tgt, ret, idx, halt>>

\* ... and writes back: the dependee's mutex is not held.
CommitIncWrite(t) ==
  /\ At(t, "c_add")
  /\ waitcnt' = [waitcnt EXCEPT ![Cursor(t)] = reg[t] + 1]
  /\ reg' = [reg EXCEPT ![t] = 0]
  /\ Goto(t, "c_P")
  /\ UNCHANGED <<unique_id, status, depends, sem, refcnt, freed, store, tgt,
                 ret, idx, halt>>

CommitP(t) ==
  /\ At(t, "c_P")
  /\ sem[Cursor(t)] > 0
  /\ sem' = [sem EXCEPT ![Cursor(t)] = @ - 1]
  /\ idx' = [idx EXCEPT ![t] = @ + 1]
  /\ Goto(t, "c_read")
  /\ UNCHANGED <<unique_id, status, depends, waitcnt, refcnt, freed, store,
                 tgt, ret, reg, halt>>

\* Second loop: if any dependee has aborted, return trans_abort(t).
CommitFoundAborted(t) ==
  /\ At(t, "c_chk")
  /\ AtDependee(t)
  /\ status[Cursor(t)] = "ABORTED"
  /\ tgt' = [tgt EXCEPT ![t] = t]
  /\ ret' = [ret EXCEPT ![t] = "end"]
  /\ idx' = [idx EXCEPT ![t] = 1]
  /\ Goto(t, "a_chk")
  /\ UNCHANGED <<shared, store, reg, halt>>

CommitCheckNext(t) ==
  /\ At(t, "c_chk")
  /\ AtDependee(t)
  /\ status[Cursor(t)] # "ABORTED"
  /\ Advance(t)
  /\ UNCHANGED <<shared, store, pc, tgt, ret, reg, halt>>

\* Variant: the second loop may stop before the last dependee.
CommitDecideEarly(t) ==
  /\ At(t, "c_chk")
  /\ idx[t] >= Len(depends[t])
  /\ idx' = [idx EXCEPT ![t] = 1]
  /\ Goto(t, "c_cnt")
  /\ UNCHANGED <<shared, store, tgt, ret, reg, halt>>

CommitDecide(t) ==
  /\ At(t, "c_chk")
  /\ ~AtDependee(t)
  /\ idx' = [idx EXCEPT ![t] = 1]
  /\ Goto(t, "c_cnt")
  /\ UNCHANGED <<shared, store, tgt, ret, reg, halt>>

CommitReadWaitcnt(t) ==
  /\ At(t, "c_cnt")
  /\ reg' = [reg EXCEPT ![t] = waitcnt[t]]
  /\ Goto(t, "c_V")
  /\ UNCHANGED <<shared, store, tgt, ret, idx, halt>>

CommitV(t) ==
  /\ At(t, "c_V")
  /\ reg[t] > 0
  /\ sem' = [sem EXCEPT ![t] = @ + 1]
  /\ reg' = [reg EXCEPT ![t] = @ - 1]
  /\ UNCHANGED <<unique_id, status, depends, waitcnt, refcnt, freed, store, pc,
                 tgt, ret, idx, halt>>

CommitReleased(t) ==
  /\ At(t, "c_V")
  /\ reg[t] = 0
  /\ Goto(t, "c_set")
  /\ UNCHANGED <<shared, store, tgt, ret, idx, reg, halt>>

\* The status is set only after the waiters have been released.
CommitSet(t) ==
  /\ At(t, "c_set")
  /\ status' = [status EXCEPT ![t] = "COMMITTED"]
  /\ tgt' = [tgt EXCEPT ![t] = t]
  /\ ret' = [ret EXCEPT ![t] = "end"]
  /\ Goto(t, "u_dec")
  /\ UNCHANGED <<unique_id, depends, waitcnt, sem, refcnt, freed, store, idx,
                 reg, halt>>

-----------------------------------------------------------------------------
(* trans_abort(tgt[t]).                                                    *)

\* The client disconnects, or sends a packet that is not a request.
Disconnect(t) ==
  /\ At(t, "idle")
  /\ tgt' = [tgt EXCEPT ![t] = t]
  /\ ret' = [ret EXCEPT ![t] = "end"]
  /\ Goto(t, "a_chk")
  /\ UNCHANGED <<shared, store, idx, reg, halt>>

\* The status test holds no lock; on a committed transaction abort() ends
\* the process.
AbortTest(t) ==
  LET seen == status[tgt[t]] IN
  /\ At(t, "a_chk")
  /\ Goto(t, IF seen = "PENDING" THEN "a_set" ELSE "a_cnt")
  /\ halt' = IF seen = "COMMITTED" THEN "abort" ELSE halt
  /\ UNCHANGED <<shared, store, tgt, ret, idx, reg>>

AbortSet(t) ==
  /\ At(t, "a_set")
  /\ status' = [status EXCEPT ![tgt[t]] = "ABORTED"]
  /\ Goto(t, "a_cnt")
  /\ UNCHANGED <<unique_id, depends, waitcnt, sem, refcnt, freed, store, tgt,
                 ret, idx, reg, halt>>

AbortReadWaitcnt(t) ==
  /\ At(t, "a_cnt")
  /\ reg' = [reg EXCEPT ![t] = waitcnt[tgt[t]]]
  /\ Goto(t, "a_V")
  /\ UNCHANGED <<shared, store, tgt, ret, idx, halt>>

AbortV(t) ==
  /\ At(t, "a_V")
  /\ reg[t] > 0
  /\ sem' = [sem EXCEPT ![tgt[t]] = @ + 1]
  /\ reg' = [reg EXCEPT ![t] = @ - 1]
  /\ UNCHANGED <<unique_id, status, depends, waitcnt, refcnt, freed, store, pc,
                 tgt, ret, idx, halt>>

AbortReleased(t) ==
  /\ At(t, "a_V")
  /\ reg[t] = 0
  /\ Goto(t, "u_dec")
  /\ UNCHANGED <<shared, store, tgt, ret, idx, reg, halt>>


-----------------------------------------------------------------------------
(* trans_unref(tgt[t]).                                                    *)

\* Variant: the count is guarded by the store's mutex, which a thread in
\* the store already holds.
UnrefUnderMapMutex(t) ==
  /\ At(t, "u_dec")
  /\ mapmutex = None
  /\ refcnt' = [refcnt EXCEPT ![tgt[t]] = @ - 1]
  /\ Goto(t, "u_chk")
  /\ UNCHANGED <<unique_id, status, depends, waitcnt, sem, freed, store, tgt,
                 ret, idx, reg, halt>>

UnrefDec(t) ==
  /\ At(t, "u_dec")
  /\ refcnt' = [refcnt EXCEPT ![tgt[t]] = @ - 1]
  /\ Goto(t, "u_chk")
  /\ UNCHANGED <<unique_id, status, depends, waitcnt, sem, freed, store, tgt,
                 ret, idx, reg, halt>>

\* Back to the caller, whose locals are live again.
Return(t) ==
  /\ tgt' = [tgt EXCEPT ![t] = IF ret[t] = "gcdisp" THEN @ ELSE t]
  /\ ret' = [ret EXCEPT ![t] = "end"]
  /\ Goto(t, ret[t])

\* The count is tested after the unlock: it may be another thread's unref
\* that made it zero.
UnrefKeep(t) ==
  /\ At(t, "u_chk")
  /\ tgt[t] \notin freed
  /\ refcnt[tgt[t]] # 0
  /\ Return(t)
  /\ UNCHANGED <<shared, store, idx, reg, halt>>

\* Freeing also frees the dependency nodes, without dropping the references
\* they hold.  That it takes the transaction out of trans_list without a lock
\* is not modelled: nothing here reads that list.
UnrefFree(t) ==
  /\ At(t, "u_chk")
  /\ tgt[t] \notin freed
  /\ refcnt[tgt[t]] = 0
  /\ freed' = freed \cup {tgt[t]}
  /\ depends' = [depends EXCEPT ![tgt[t]] = << >>]
  /\ waitcnt' = [waitcnt EXCEPT ![tgt[t]] = 0]
  /\ sem' = [sem EXCEPT ![tgt[t]] = 0]
  /\ Return(t)
  /\ UNCHANGED <<unique_id, status, refcnt, store, idx, reg, halt>>

\* A test of memory that is already free is undefined: the model stops.
UnrefUndefined(t) ==
  /\ At(t, "u_chk")
  /\ tgt[t] \in freed
  /\ halt' = "undefined"
  /\ UNCHANGED <<shared, store, local>>


-----------------------------------------------------------------------------
CommitStep(t) ==
  \/ CommitSeeFinal(t) \/ CommitSeePending(t) \/ CommitWaitsDone(t)
  \/ CommitIncRead(t) \/ CommitIncWrite(t) \/ CommitP(t)
  \/ CommitFoundAborted(t) \/ CommitCheckNext(t) \/ CommitDecide(t)
  \/ CommitReadWaitcnt(t) \/ CommitV(t) \/ CommitReleased(t) \/ CommitSet(t)

AbortStep(t) ==
  \/ AbortTest(t) \/ AbortSet(t) \/ AbortReadWaitcnt(t) \/ AbortV(t)
  \/ AbortReleased(t)

UnrefStep(t) ==
  UnrefDec(t) \/ UnrefKeep(t) \/ UnrefFree(t) \/ UnrefUndefined(t)

\* The part of a store operation that always comes to its end.
StoreEnds(t) ==
  \/ StoreGCDispose(t) \/ StoreNewVersion(t) \/ StoreReplaceVersion(t)
  \/ StoreAbortSelf(t) \/ StoreRefuse(t)
  \/ trans_add_dependency(t) \/ trans_add_listed(t)

StoreStep(t) ==
  \/ \E v \in Trans :
       StoreGCAbort(t, v) \/ StoreGCCommitted(t, v) \/ StoreSeePending(t, v)
  \/ StoreEnds(t)

Next ==
  \E t \in Trans :
    \/ trans_create(t) \/ StoreEnter(t) \/ StoreStep(t) \/ CommitBegin(t)
    \/ CommitStep(t) \/ Disconnect(t) \/ AbortStep(t) \/ UnrefStep(t)

Spec == Init /\ [][Next]_vars
\* Fairness: the scheduler runs every thread that can run, and the library's
\* store operations end.  A client may stay silent for ever.
Running(t) == CommitStep(t) \/ AbortStep(t) \/ UnrefStep(t) \/ StoreEnds(t)

FairSpec == Spec /\ \A t \in Trans : WF_vars(Running(t))

-----------------------------------------------------------------------------
(* Properties.                                                             *)

SharedTypeOK ==
  /\ unique_id \in Nat
  /\ status \in [Trans -> TRANS_STATUS]
  /\ depends \in [Trans -> Seq(Trans)]
  /\ waitcnt \in [Trans -> Nat]
  /\ sem \in [Trans -> Nat]
  /\ refcnt \in [Trans -> Nat]
  /\ freed \subseteq Trans

LocalTypeOK ==
  /\ versions \in [Trans -> Nat]
  /\ mapmutex \in Trans \cup {None}
  /\ pc \in [Trans -> PC]
  /\ tgt \in [Trans -> Trans]
  /\ ret \in [Trans -> RET]
  /\ idx \in [Trans -> Nat]
  /\ reg \in [Trans -> Nat]
  /\ halt \in HALT

\* The types of the fields.  refcnt in Nat is the promise not to "attempt to
\* decrease any reference count below zero".
TypeOK == SharedTypeOK /\ LocalTypeOK

\* t is past the point where its commit can still turn into an abort.
Decided(t) ==
  status[t] = "COMMITTED" \/ pc[t] \in {"c_cnt", "c_V", "c_set"}

\* "If any of the transactions in the dependency set aborts, then the
\* transaction itself must abort": once t commits, nothing it depends on has
\* aborted or will, although trans_commit re-reads the dependees' status
\* without their locks and before they have set it.
CommitSafe ==
  \A t \in Trans : Decided(t) => \A d \in Deps(t) : Decided(d)

\* "that value is the stable final status of the transaction"
\* (trans_get_status): no step leaves COMMITTED or ABORTED, although
\* trans_abort tests the status without the lock it then takes to set it.
StatusStable ==
  [][\A t \in Trans : status[t] # "PENDING" => status'[t] = status[t]]_status

\* The store's collection never aborts a committed transaction, so that
\* abort() in trans_abort is never reached from a store operation.
NoFatalAbort == halt # "abort"

\* The references to x in use: its service thread's own, the one a call of
\* the store consumes, the versions', and the dependency nodes' (at least one).
Count(b) == IF b THEN 1 ELSE 0
Owned(x) == pc[x] \notin {"none", "end"} /\ ~(pc[x] = "u_chk" /\ ret[x] = "end")
Pinned(x) == \E t \in Trans : /\ tgt[t] = x /\ ret[t] # "end"
                              /\ pc[t] \in AbortPC \cup {"u_dec"}
Listed(x) == \E t \in Trans : x \in Deps(t)
References(x) ==
  Count(Owned(x)) + Count(Pinned(x)) + versions[x] + Count(Listed(x))

\* No pointer outlives its object: the count covers the references in use,
\* whatever the order of version_dispose in one thread and trans_commit in
\* another, and nothing refers to a freed transaction.
RefcntCovers ==
  \A x \in Trans : /\ refcnt[x] >= References(x)
                   /\ x \in freed => References(x) = 0

\* The dependency list repeats a dependee at most once, and only next to
\* itself: all that is left of "at most once" (transaction.h) when
\* trans_add_dependency does not compare the last node.
DependsNearlyUnique ==
  \A t \in Trans : \A i, j \in 1 .. Len(depends[t]) :
    i < j /\ depends[t][i] = depends[t][j] => j = i + 1

\* The promise: outcomes are final and agree with the dependencies.  A
\* transaction's outcome is fixed where its commit can no longer fail, which
\* is before its waiters are released and before its status is set.
Promise == INSTANCE CommitOrder WITH
  outcome <- [t \in Trans |-> IF Decided(t) THEN "COMMITTED" ELSE status[t]],
  deps <- [t \in Trans |-> Deps(t)]

\* trans_commit and trans_abort implement CommitOrder.
ImplementsCommitOrder == Promise!Spec

\* Liveness: trans_abort never blocks, so every abort that starts returns, in
\* particular when trans_commit or the collection turns into one.
AbortReturns ==
  \A t \in Trans :
    pc[t] \in AbortPC ~> pc[t] \notin AbortPC \cup {"u_dec"} \/ halt # "no"

\* Liveness: a commit that starts when every dependee has its final status
\* returns without waiting for anybody.
CommitOfResolvedReturns ==
  \A t \in Trans :
    (/\ pc[t] = "c_read" /\ idx[t] = 1
     /\ \A d \in Deps(t) : status[d] # "PENDING")
      ~> (pc[t] \in {"u_dec", "u_chk", "end"} \/ halt # "no")

-----------------------------------------------------------------------------
(* What the documentation promises and the code does not keep.             *)

\* README: "waitcnt always correctly reflects the number of transactions
\* waiting on sem_wait", so a waiter is released once its dependee is done.
WaiterReleased ==
  \A t \in Trans :
    (pc[t] = "c_P" /\ status[Cursor(t)] # "PENDING")
      ~> (pc[t] # "c_P" \/ halt # "no")

\* README: a reference count is "protected by mutexes", and an object is
\* freed once, when it drops to zero.
NoUndefined == halt # "undefined"
=============================================================================
