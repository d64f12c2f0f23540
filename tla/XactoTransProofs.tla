------------------------- MODULE XactoTransProofs ---------------------------
(***************************************************************************)
(* Proofs about XactoTrans for any number of connections and versions.     *)
(*                                                                         *)
(* The inductive invariant has three parts: Shape (which control points go *)
(* with which locals and with the store's mutex), Memory (the reference    *)
(* counts) and Commitment (what a thread knows of its dependees at each    *)
(* point of trans_commit and trans_abort).                                 *)
(***************************************************************************)
EXTENDS XactoTrans, TLAPS

CallPC == AbortPC \cup {"u_dec", "u_chk"}

\* t is inside the store, and so holds its mutex.
InStore(t) ==
  pc[t] \in {"store", "dep", "gcdisp"} \/ (pc[t] \in CallPC /\ ret[t] # "end")

\* What the locals of a call are at each control point.
Calls ==
  \A t \in Trans :
    /\ InStore(t) <=> mapmutex = t
    /\ ret[t] = "end" /\ pc[t] \notin {"dep", "gcdisp"} => tgt[t] = t
    /\ ret[t] = "gcdisp" => pc[t] \in CallPC
    /\ ret[t] = "store" => pc[t] \in CallPC
    /\ ret[t] = "store" /\ pc[t] \in AbortPC => tgt[t] = t

\* Only created transactions are used, and a call of the store is about a
\* transaction that still has a version.
Existing ==
  \A t \in Trans :
    /\ pc[t] = "none" <=> t >= unique_id
    /\ pc[t] # "none" => pc[tgt[t]] # "none"
    /\ versions[t] > 0 => pc[t] # "none"
    /\ pc[t] \in {"dep", "gcdisp"} \/ ret[t] = "gcdisp" => versions[tgt[t]] > 0
    /\ t \in freed => pc[t] # "none"

Cursors ==
  \A t \in Trans :
    /\ idx[t] >= 1
    /\ pc[t] \in {"c_inc", "c_add", "c_P"} => idx[t] <= Len(depends[t])

Shape == Calls /\ Existing /\ Cursors

Memory == RefcntCovers

\* t's status will not change any more, whatever else happens.
Resolved(t) == Decided(t) \/ status[t] = "ABORTED"

\* t must abort, because a transaction it depends on has.
Doomed(t) == \E d \in Deps(t) : status[d] = "ABORTED"

\* t's own thread is where a transaction that was aborted by it can be.
OwnAbort(t) ==
  pc[t] \notin {"none", "idle", "dep", "c_read", "c_inc", "c_add", "c_P", "c_chk",
                "c_cnt", "c_V", "c_set"}

Finishing(t) ==
  \/ pc[t] = "end"
  \/ pc[t] \in {"u_dec", "u_chk"} /\ ret[t] = "end"

\* The dependees before the cursor of trans_commit's first loop.
Awaited(t) ==
  \A i \in 1 .. Len(depends[t]) : i < idx[t] => Resolved(depends[t][i])

\* The dependees while trans_commit's second loop looks for an aborted one.
Checked(t) ==
  \A i \in 1 .. Len(depends[t]) :
    Resolved(depends[t][i]) /\ (i < idx[t] => Decided(depends[t][i]))

\* What holds of a transaction and of its thread.
Committing(t) ==
  /\ status[t] = "COMMITTED" => Finishing(t)
  /\ Decided(t) => status[t] # "ABORTED" /\ \A d \in Deps(t) : Decided(d)
  /\ sem[t] > 0 => Resolved(t)
  /\ pc[t] \in {"c_read", "c_inc", "c_add", "c_P"} => Awaited(t)
  /\ pc[t] = "c_chk" => Checked(t)
  /\ status[t] = "ABORTED" => OwnAbort(t) \/ Doomed(t)
  /\ pc[t] \in AbortPC /\ ret[t] = "gcdisp" =>
       status[tgt[t]] = "ABORTED" \/ Doomed(tgt[t])
  /\ pc[t] \in {"a_cnt", "a_V"} => status[tgt[t]] = "ABORTED"
  /\ pc[t] = "dep" => status[t] = "PENDING"
  /\ Finishing(t) => status[t] # "PENDING"
  /\ pc[t] = "none" => status[t] = "PENDING"

Commitment == \A t \in Trans : Committing(t)

IInv == TypeOK /\ Shape /\ Memory /\ Commitment /\ NoFatalAbort
-----------------------------------------------------------------------------
(* The labels the actions assign are labels.                               *)
LEMMA Labels ==
  /\ "idle" \in PC /\ "store" \in PC /\ "dep" \in PC /\ "gcdisp" \in PC
  /\ "c_read" \in PC /\ "c_inc" \in PC /\ "c_add" \in PC /\ "c_P" \in PC
  /\ "c_chk" \in PC /\ "c_cnt" \in PC /\ "c_V" \in PC /\ "c_set" \in PC
  /\ "u_dec" \in PC /\ "u_chk" \in PC /\ "a_chk" \in PC /\ "a_set" \in PC
  /\ "a_cnt" \in PC /\ "a_V" \in PC
  /\ RET \subseteq PC
  /\ "end" \in RET /\ "store" \in RET /\ "gcdisp" \in RET
  /\ "COMMITTED" \in TRANS_STATUS /\ "ABORTED" \in TRANS_STATUS
  /\ "abort" \in HALT /\ "undefined" \in HALT
BY DEF PC, AbortPC, RET, TRANS_STATUS, HALT

(* An object a call is about to drop or abort is referenced: trans_unref   *)
(* never decreases a count of zero.                                        *)
LEMMA TargetReferenced ==
  ASSUME TypeOK, Shape, Memory, NEW t \in Trans, pc[t] \in AbortPC \cup {"u_dec"}
  PROVE  /\ tgt[t] \in Trans
         /\ refcnt[tgt[t]] \in Nat
         /\ refcnt[tgt[t]] >= 1
         /\ tgt[t] \notin freed
<1>1. tgt[t] \in Trans /\ refcnt[tgt[t]] \in Nat /\ versions[tgt[t]] \in Nat
  BY DEF TypeOK, SharedTypeOK, LocalTypeOK
<1>2. Owned(tgt[t]) \/ Pinned(tgt[t])
  BY <1>1 DEF Owned, Pinned, Shape, Calls, CallPC, AbortPC, RET
<1>3. References(tgt[t]) \in Nat /\ References(tgt[t]) >= 1
  BY <1>1, <1>2 DEF References, Count
<1> QED
  BY <1>1, <1>3 DEF Memory, RefcntCovers

(* What is freed at a count of zero has no reference left.                 *)
LEMMA UnreferencedAtZero ==
  ASSUME TypeOK, Memory, NEW x \in Trans, refcnt[x] = 0
  PROVE  ~Owned(x) /\ ~Pinned(x) /\ versions[x] = 0 /\ ~Listed(x)
<1>1. versions[x] \in Nat
  BY DEF TypeOK, LocalTypeOK
<1>2. References(x) <= 0
  BY DEF Memory, RefcntCovers
<1> QED
  BY <1>1, <1>2 DEF References, Count

(* The cursor of the first loop of trans_commit points at a transaction.   *)
LEMMA CursorType ==
  ASSUME TypeOK, Shape, NEW t \in Trans,
         pc[t] \in {"c_inc", "c_add", "c_P"} \/ idx[t] <= Len(depends[t])
  PROVE  /\ Cursor(t) \in Trans
         /\ idx[t] \in 1 .. Len(depends[t])
         /\ Cursor(t) \in Deps(t)
<1>1. depends[t] \in Seq(Trans) /\ idx[t] \in Nat
  BY DEF TypeOK, SharedTypeOK, LocalTypeOK
<1>2. idx[t] \in 1 .. Len(depends[t])
  BY <1>1 DEF Shape, Cursors
<1> QED
  BY <1>1, <1>2 DEF Cursor, Deps

(* A step gives the shared fields values of their types: no reference      *)
(* count is decreased below zero by trans_unref.                           *)
LEMMA SharedTypeNext == IInv /\ [Next]_vars => SharedTypeOK'
<1> SUFFICES ASSUME IInv, [Next]_vars PROVE SharedTypeOK'
  OBVIOUS
<1>a. SharedTypeOK /\ LocalTypeOK
  BY DEF IInv, TypeOK
<1>b. TypeOK /\ Shape /\ Memory
  BY DEF IInv
<1> USE <1>a, Labels DEF SharedTypeOK, shared
<1>1. ASSUME NEW t \in Trans, trans_create(t) PROVE SharedTypeOK'
  BY <1>1 DEF trans_create
<1>2. ASSUME NEW t \in Trans, StoreEnter(t) PROVE SharedTypeOK'
  BY <1>2 DEF StoreEnter
<1>3. ASSUME NEW t \in Trans, NEW v \in Trans, StoreGCAbort(t, v) PROVE SharedTypeOK'
  BY <1>3 DEF StoreGCAbort
<1>4. ASSUME NEW t \in Trans, NEW v \in Trans, StoreGCCommitted(t, v) PROVE SharedTypeOK'
  BY <1>4 DEF StoreGCCommitted, Dispose
<1>5. ASSUME NEW t \in Trans, NEW v \in Trans, StoreSeePending(t, v) PROVE SharedTypeOK'
  BY <1>5 DEF StoreSeePending
<1>6. ASSUME NEW t \in Trans, StoreGCDispose(t) PROVE SharedTypeOK'
  BY <1>6 DEF StoreGCDispose, Dispose
<1>7. ASSUME NEW t \in Trans, StoreNewVersion(t) PROVE SharedTypeOK'
  BY <1>7 DEF StoreNewVersion
<1>8. ASSUME NEW t \in Trans, StoreReplaceVersion(t) PROVE SharedTypeOK'
  BY <1>8 DEF StoreReplaceVersion
<1>9. ASSUME NEW t \in Trans, StoreAbortSelf(t) PROVE SharedTypeOK'
  BY <1>9 DEF StoreAbortSelf
<1>10. ASSUME NEW t \in Trans, StoreRefuse(t) PROVE SharedTypeOK'
  BY <1>10 DEF StoreRefuse
<1>11. ASSUME NEW t \in Trans, trans_add_dependency(t) PROVE SharedTypeOK'
  <2>1. tgt[t] \in Trans /\ Append(depends[t], tgt[t]) \in Seq(Trans)
    BY DEF LocalTypeOK
  <2>2. depends' \in [Trans -> Seq(Trans)]
    BY <1>11, <2>1 DEF trans_add_dependency
  <2>3. refcnt' \in [Trans -> Nat]
    BY <1>11, <2>1 DEF trans_add_dependency
  <2> QED
    BY <1>11, <2>2, <2>3 DEF trans_add_dependency
<1>12. ASSUME NEW t \in Trans, trans_add_listed(t) PROVE SharedTypeOK'
  BY <1>12 DEF trans_add_listed
<1>13. ASSUME NEW t \in Trans, CommitBegin(t) PROVE SharedTypeOK'
  BY <1>13 DEF CommitBegin
<1>14. ASSUME NEW t \in Trans, CommitSeeFinal(t) PROVE SharedTypeOK'
  BY <1>14 DEF CommitSeeFinal, Advance
<1>15. ASSUME NEW t \in Trans, CommitSeePending(t) PROVE SharedTypeOK'
  BY <1>15 DEF CommitSeePending, AtDependee
<1>16. ASSUME NEW t \in Trans, CommitWaitsDone(t) PROVE SharedTypeOK'
  BY <1>16 DEF CommitWaitsDone
<1>17. ASSUME NEW t \in Trans, CommitIncRead(t) PROVE SharedTypeOK'
  BY <1>17 DEF CommitIncRead
<1>18. ASSUME NEW t \in Trans, CommitIncWrite(t) PROVE SharedTypeOK'
  <2>1. reg[t] + 1 \in Nat
    BY DEF LocalTypeOK
  <2>2. waitcnt' \in [Trans -> Nat]
    BY <1>18, <2>1 DEF CommitIncWrite
  <2> QED
    BY <1>18, <2>2 DEF CommitIncWrite
<1>19. ASSUME NEW t \in Trans, CommitP(t) PROVE SharedTypeOK'
  <2>1. Cursor(t) \in Trans
    BY <1>19, <1>b, CursorType DEF CommitP, At
  <2>2. sem' \in [Trans -> Nat]
    BY <1>19, <2>1 DEF CommitP
  <2> QED
    BY <1>19, <2>2 DEF CommitP
<1>20. ASSUME NEW t \in Trans, CommitFoundAborted(t) PROVE SharedTypeOK'
  BY <1>20 DEF CommitFoundAborted
<1>21. ASSUME NEW t \in Trans, CommitCheckNext(t) PROVE SharedTypeOK'
  BY <1>21 DEF CommitCheckNext, Advance
<1>22. ASSUME NEW t \in Trans, CommitDecide(t) PROVE SharedTypeOK'
  BY <1>22 DEF CommitDecide
<1>23. ASSUME NEW t \in Trans, CommitReadWaitcnt(t) PROVE SharedTypeOK'
  BY <1>23 DEF CommitReadWaitcnt
<1>24. ASSUME NEW t \in Trans, CommitV(t) PROVE SharedTypeOK'
  BY <1>24 DEF CommitV
<1>25. ASSUME NEW t \in Trans, CommitReleased(t) PROVE SharedTypeOK'
  BY <1>25 DEF CommitReleased
<1>26. ASSUME NEW t \in Trans, CommitSet(t) PROVE SharedTypeOK'
  BY <1>26 DEF CommitSet
<1>27. ASSUME NEW t \in Trans, Disconnect(t) PROVE SharedTypeOK'
  BY <1>27 DEF Disconnect
<1>28. ASSUME NEW t \in Trans, AbortTest(t) PROVE SharedTypeOK'
  BY <1>28 DEF AbortTest
<1>29. ASSUME NEW t \in Trans, AbortSet(t) PROVE SharedTypeOK'
  BY <1>29 DEF AbortSet
<1>30. ASSUME NEW t \in Trans, AbortReadWaitcnt(t) PROVE SharedTypeOK'
  BY <1>30 DEF AbortReadWaitcnt
<1>31. ASSUME NEW t \in Trans, AbortV(t) PROVE SharedTypeOK'
  <2>1. tgt[t] \in Trans
    BY DEF LocalTypeOK
  <2>2. sem' = [sem EXCEPT ![tgt[t]] = @ + 1]
    BY <1>31 DEF AbortV
  <2>3. sem' \in [Trans -> Nat]
    BY <2>1, <2>2
  <2> QED
    BY <1>31, <2>3 DEF AbortV
<1>32. ASSUME NEW t \in Trans, AbortReleased(t) PROVE SharedTypeOK'
  BY <1>32 DEF AbortReleased
<1>33. ASSUME NEW t \in Trans, UnrefDec(t) PROVE SharedTypeOK'
  <2>1. tgt[t] \in Trans /\ refcnt[tgt[t]] >= 1
    BY <1>33, <1>b, TargetReferenced DEF UnrefDec, At
  <2>2. refcnt[tgt[t]] - 1 \in Nat
    BY <2>1
  <2>3. refcnt' \in [Trans -> Nat]
    BY <1>33, <2>1, <2>2 DEF UnrefDec
  <2> QED
    BY <1>33, <2>3 DEF UnrefDec
<1>34. ASSUME NEW t \in Trans, UnrefKeep(t) PROVE SharedTypeOK'
  BY <1>34 DEF UnrefKeep, Return
<1>35. ASSUME NEW t \in Trans, UnrefFree(t) PROVE SharedTypeOK'
  <2>1. tgt[t] \in Trans /\ << >> \in Seq(Trans)
    BY DEF LocalTypeOK
  <2> QED
    BY <1>35, <2>1 DEF UnrefFree
<1>36. ASSUME NEW t \in Trans, UnrefUndefined(t) PROVE SharedTypeOK'
  BY <1>36 DEF UnrefUndefined, local
<1>37. CASE UNCHANGED vars
  BY <1>37 DEF vars, local, store, shared
<1> QED
  BY <1>1, <1>2, <1>3, <1>4, <1>5, <1>6, <1>7, <1>8, <1>9, <1>10,
     <1>11, <1>12, <1>13, <1>14, <1>15, <1>16, <1>17, <1>18, <1>19, <1>20,
     <1>21, <1>22, <1>23, <1>24, <1>25, <1>26, <1>27, <1>28, <1>29, <1>30,
     <1>31, <1>32, <1>33, <1>34, <1>35, <1>36, <1>37
     DEF Next, CommitStep, AbortStep, UnrefStep, StoreStep, StoreEnds

(* A step gives the store's and the threads' variables their types.        *)
LEMMA LocalTypeNext == IInv /\ [Next]_vars => LocalTypeOK'
<1> SUFFICES ASSUME IInv, [Next]_vars PROVE LocalTypeOK'
  OBVIOUS
<1>a. LocalTypeOK
  BY DEF IInv, TypeOK
<1>b. TypeOK /\ Shape /\ SharedTypeOK
  BY DEF IInv, TypeOK
<1> USE <1>a, Labels DEF LocalTypeOK, Goto, store
<1>1. ASSUME NEW t \in Trans, trans_create(t) PROVE LocalTypeOK'
  BY <1>1 DEF trans_create
<1>2. ASSUME NEW t \in Trans, StoreEnter(t) PROVE LocalTypeOK'
  BY <1>2 DEF StoreEnter
<1>3. ASSUME NEW t \in Trans, NEW v \in Trans, StoreGCAbort(t, v) PROVE LocalTypeOK'
  BY <1>3 DEF StoreGCAbort
<1>4. ASSUME NEW t \in Trans, NEW v \in Trans, StoreGCCommitted(t, v) PROVE LocalTypeOK'
  BY <1>4 DEF StoreGCCommitted, Dispose
<1>5. ASSUME NEW t \in Trans, NEW v \in Trans, StoreSeePending(t, v) PROVE LocalTypeOK'
  BY <1>5 DEF StoreSeePending
<1>6. ASSUME NEW t \in Trans, StoreGCDispose(t) PROVE LocalTypeOK'
  <2>1. tgt[t] \in Trans /\ versions[tgt[t]] > 0
    BY <1>6, <1>b DEF StoreGCDispose, At, Shape, Existing
  <2>2. versions[tgt[t]] - 1 \in Nat
    BY <2>1
  <2> QED
    BY <1>6, <2>1, <2>2 DEF StoreGCDispose, Dispose
<1>7. ASSUME NEW t \in Trans, StoreNewVersion(t) PROVE LocalTypeOK'
  BY <1>7 DEF StoreNewVersion
<1>8. ASSUME NEW t \in Trans, StoreReplaceVersion(t) PROVE LocalTypeOK'
  BY <1>8 DEF StoreReplaceVersion
<1>9. ASSUME NEW t \in Trans, StoreAbortSelf(t) PROVE LocalTypeOK'
  BY <1>9 DEF StoreAbortSelf
<1>10. ASSUME NEW t \in Trans, StoreRefuse(t) PROVE LocalTypeOK'
  BY <1>10 DEF StoreRefuse
<1>11. ASSUME NEW t \in Trans, trans_add_dependency(t) PROVE LocalTypeOK'
  BY <1>11 DEF trans_add_dependency
<1>12. ASSUME NEW t \in Trans, trans_add_listed(t) PROVE LocalTypeOK'
  BY <1>12 DEF trans_add_listed
<1>13. ASSUME NEW t \in Trans, CommitBegin(t) PROVE LocalTypeOK'
  BY <1>13 DEF CommitBegin
<1>14. ASSUME NEW t \in Trans, CommitSeeFinal(t) PROVE LocalTypeOK'
  BY <1>14 DEF CommitSeeFinal, Advance
<1>15. ASSUME NEW t \in Trans, CommitSeePending(t) PROVE LocalTypeOK'
  BY <1>15 DEF CommitSeePending, AtDependee
<1>16. ASSUME NEW t \in Trans, CommitWaitsDone(t) PROVE LocalTypeOK'
  BY <1>16 DEF CommitWaitsDone
<1>17. ASSUME NEW t \in Trans, CommitIncRead(t) PROVE LocalTypeOK'
  <2>1. Cursor(t) \in Trans
    BY <1>17, <1>b, CursorType DEF CommitIncRead, At
  <2>2. waitcnt[Cursor(t)] \in Nat
    BY <2>1, <1>b DEF SharedTypeOK
  <2> QED
    BY <1>17, <2>2 DEF CommitIncRead
<1>18. ASSUME NEW t \in Trans, CommitIncWrite(t) PROVE LocalTypeOK'
  BY <1>18 DEF CommitIncWrite
<1>19. ASSUME NEW t \in Trans, CommitP(t) PROVE LocalTypeOK'
  BY <1>19 DEF CommitP
<1>20. ASSUME NEW t \in Trans, CommitFoundAborted(t) PROVE LocalTypeOK'
  BY <1>20 DEF CommitFoundAborted
<1>21. ASSUME NEW t \in Trans, CommitCheckNext(t) PROVE LocalTypeOK'
  BY <1>21 DEF CommitCheckNext, Advance
<1>22. ASSUME NEW t \in Trans, CommitDecide(t) PROVE LocalTypeOK'
  BY <1>22 DEF CommitDecide
<1>23. ASSUME NEW t \in Trans, CommitReadWaitcnt(t) PROVE LocalTypeOK'
  <2>1. waitcnt[t] \in Nat
    BY <1>b DEF SharedTypeOK
  <2> QED
    BY <1>23, <2>1 DEF CommitReadWaitcnt
<1>24. ASSUME NEW t \in Trans, CommitV(t) PROVE LocalTypeOK'
  BY <1>24 DEF CommitV
<1>25. ASSUME NEW t \in Trans, CommitReleased(t) PROVE LocalTypeOK'
  BY <1>25 DEF CommitReleased
<1>26. ASSUME NEW t \in Trans, CommitSet(t) PROVE LocalTypeOK'
  BY <1>26 DEF CommitSet
<1>27. ASSUME NEW t \in Trans, Disconnect(t) PROVE LocalTypeOK'
  BY <1>27 DEF Disconnect
<1>28. ASSUME NEW t \in Trans, AbortTest(t) PROVE LocalTypeOK'
  <2>1. status[tgt[t]] \in TRANS_STATUS
    BY <1>b DEF SharedTypeOK
  <2>2. CASE status[tgt[t]] = "PENDING"
    BY <1>28, <2>2 DEF AbortTest
  <2>3. CASE status[tgt[t]] = "ABORTED"
    BY <1>28, <2>3 DEF AbortTest
  <2>4. CASE status[tgt[t]] = "COMMITTED"
    BY <1>28, <2>4 DEF AbortTest
  <2> QED
    BY <2>1, <2>2, <2>3, <2>4 DEF TRANS_STATUS
<1>29. ASSUME NEW t \in Trans, AbortSet(t) PROVE LocalTypeOK'
  BY <1>29 DEF AbortSet
<1>30. ASSUME NEW t \in Trans, AbortReadWaitcnt(t) PROVE LocalTypeOK'
  <2>1. waitcnt[tgt[t]] \in Nat
    BY <1>b DEF SharedTypeOK
  <2> QED
    BY <1>30, <2>1 DEF AbortReadWaitcnt
<1>31. ASSUME NEW t \in Trans, AbortV(t) PROVE LocalTypeOK'
  BY <1>31 DEF AbortV
<1>32. ASSUME NEW t \in Trans, AbortReleased(t) PROVE LocalTypeOK'
  BY <1>32 DEF AbortReleased
<1>33. ASSUME NEW t \in Trans, UnrefDec(t) PROVE LocalTypeOK'
  BY <1>33 DEF UnrefDec
<1>34. ASSUME NEW t \in Trans, UnrefKeep(t) PROVE LocalTypeOK'
  BY <1>34 DEF UnrefKeep, Return
<1>35. ASSUME NEW t \in Trans, UnrefFree(t) PROVE LocalTypeOK'
  BY <1>35 DEF UnrefFree, Return
<1>36. ASSUME NEW t \in Trans, UnrefUndefined(t) PROVE LocalTypeOK'
  BY <1>36 DEF UnrefUndefined, local
<1>37. CASE UNCHANGED vars
  BY <1>37 DEF vars, local, store, shared
<1> QED
  BY <1>1, <1>2, <1>3, <1>4, <1>5, <1>6, <1>7, <1>8, <1>9, <1>10,
     <1>11, <1>12, <1>13, <1>14, <1>15, <1>16, <1>17, <1>18, <1>19, <1>20,
     <1>21, <1>22, <1>23, <1>24, <1>25, <1>26, <1>27, <1>28, <1>29, <1>30,
     <1>31, <1>32, <1>33, <1>34, <1>35, <1>36, <1>37
     DEF Next, CommitStep, AbortStep, UnrefStep, StoreStep, StoreEnds

(* A step keeps the locals of every call in shape.                         *)
LEMMA CallsNext == IInv /\ [Next]_vars => Calls'
<1> SUFFICES ASSUME IInv, [Next]_vars PROVE Calls'
  OBVIOUS
<1>a. /\ Calls
      /\ pc \in [Trans -> PC] /\ ret \in [Trans -> RET] /\ tgt \in [Trans -> Trans]
  BY DEF IInv, TypeOK, LocalTypeOK, Shape
<1>b. None \notin Trans
  BY NAssumption DEF None, Trans
<1> USE <1>a, <1>b DEF Calls, InStore, CallPC, AbortPC, RET, At, Goto, store
<1>1. ASSUME NEW t \in Trans, trans_create(t) PROVE Calls'
  BY <1>1 DEF trans_create
<1>2. ASSUME NEW t \in Trans, StoreEnter(t) PROVE Calls'
  BY <1>2 DEF StoreEnter
<1>3. ASSUME NEW t \in Trans, NEW v \in Trans, StoreGCAbort(t, v) PROVE Calls'
  BY <1>3 DEF StoreGCAbort
<1>4. ASSUME NEW t \in Trans, NEW v \in Trans, StoreGCCommitted(t, v) PROVE Calls'
  BY <1>4 DEF StoreGCCommitted, Dispose
<1>5. ASSUME NEW t \in Trans, NEW v \in Trans, StoreSeePending(t, v) PROVE Calls'
  BY <1>5 DEF StoreSeePending
<1>6. ASSUME NEW t \in Trans, StoreGCDispose(t) PROVE Calls'
  BY <1>6 DEF StoreGCDispose, Dispose
<1>7. ASSUME NEW t \in Trans, StoreNewVersion(t) PROVE Calls'
  BY <1>7 DEF StoreNewVersion
<1>8. ASSUME NEW t \in Trans, StoreReplaceVersion(t) PROVE Calls'
  BY <1>8 DEF StoreReplaceVersion
<1>9. ASSUME NEW t \in Trans, StoreAbortSelf(t) PROVE Calls'
  BY <1>9 DEF StoreAbortSelf
<1>10. ASSUME NEW t \in Trans, StoreRefuse(t) PROVE Calls'
  BY <1>10 DEF StoreRefuse
<1>11. ASSUME NEW t \in Trans, trans_add_dependency(t) PROVE Calls'
  BY <1>11 DEF trans_add_dependency
<1>12. ASSUME NEW t \in Trans, trans_add_listed(t) PROVE Calls'
  BY <1>12 DEF trans_add_listed
<1>13. ASSUME NEW t \in Trans, CommitBegin(t) PROVE Calls'
  BY <1>13 DEF CommitBegin
<1>14. ASSUME NEW t \in Trans, CommitSeeFinal(t) PROVE Calls'
  BY <1>14 DEF CommitSeeFinal, Advance
<1>15. ASSUME NEW t \in Trans, CommitSeePending(t) PROVE Calls'
  BY <1>15 DEF CommitSeePending, AtDependee
<1>16. ASSUME NEW t \in Trans, CommitWaitsDone(t) PROVE Calls'
  BY <1>16 DEF CommitWaitsDone
<1>17. ASSUME NEW t \in Trans, CommitIncRead(t) PROVE Calls'
  BY <1>17 DEF CommitIncRead
<1>18. ASSUME NEW t \in Trans, CommitIncWrite(t) PROVE Calls'
  BY <1>18 DEF CommitIncWrite
<1>19. ASSUME NEW t \in Trans, CommitP(t) PROVE Calls'
  BY <1>19 DEF CommitP
<1>20. ASSUME NEW t \in Trans, CommitFoundAborted(t) PROVE Calls'
  BY <1>20 DEF CommitFoundAborted
<1>21. ASSUME NEW t \in Trans, CommitCheckNext(t) PROVE Calls'
  BY <1>21 DEF CommitCheckNext, Advance
<1>22. ASSUME NEW t \in Trans, CommitDecide(t) PROVE Calls'
  BY <1>22 DEF CommitDecide
<1>23. ASSUME NEW t \in Trans, CommitReadWaitcnt(t) PROVE Calls'
  BY <1>23 DEF CommitReadWaitcnt
<1>24. ASSUME NEW t \in Trans, CommitV(t) PROVE Calls'
  BY <1>24 DEF CommitV
<1>25. ASSUME NEW t \in Trans, CommitReleased(t) PROVE Calls'
  BY <1>25 DEF CommitReleased
<1>26. ASSUME NEW t \in Trans, CommitSet(t) PROVE Calls'
  BY <1>26 DEF CommitSet
<1>27. ASSUME NEW t \in Trans, Disconnect(t) PROVE Calls'
  BY <1>27 DEF Disconnect
<1>28. ASSUME NEW t \in Trans, AbortTest(t) PROVE Calls'
  BY <1>28 DEF AbortTest
<1>29. ASSUME NEW t \in Trans, AbortSet(t) PROVE Calls'
  BY <1>29 DEF AbortSet
<1>30. ASSUME NEW t \in Trans, AbortReadWaitcnt(t) PROVE Calls'
  BY <1>30 DEF AbortReadWaitcnt
<1>31. ASSUME NEW t \in Trans, AbortV(t) PROVE Calls'
  BY <1>31 DEF AbortV
<1>32. ASSUME NEW t \in Trans, AbortReleased(t) PROVE Calls'
  BY <1>32 DEF AbortReleased
<1>33. ASSUME NEW t \in Trans, UnrefDec(t) PROVE Calls'
  BY <1>33 DEF UnrefDec
<1>34. ASSUME NEW t \in Trans, UnrefKeep(t) PROVE Calls'
  BY <1>34 DEF UnrefKeep, Return
<1>35. ASSUME NEW t \in Trans, UnrefFree(t) PROVE Calls'
  BY <1>35 DEF UnrefFree, Return
<1>36. ASSUME NEW t \in Trans, UnrefUndefined(t) PROVE Calls'
  BY <1>36 DEF UnrefUndefined, local
<1>37. CASE UNCHANGED vars
  BY <1>37 DEF vars, local, store, shared
<1> QED
  BY <1>1, <1>2, <1>3, <1>4, <1>5, <1>6, <1>7, <1>8, <1>9, <1>10,
     <1>11, <1>12, <1>13, <1>14, <1>15, <1>16, <1>17, <1>18, <1>19, <1>20,
     <1>21, <1>22, <1>23, <1>24, <1>25, <1>26, <1>27, <1>28, <1>29, <1>30,
     <1>31, <1>32, <1>33, <1>34, <1>35, <1>36, <1>37
     DEF Next, CommitStep, AbortStep, UnrefStep, StoreStep, StoreEnds

(* A step uses created transactions only.                                  *)
LEMMA ExistingNext == IInv /\ [Next]_vars => Existing'
<1> SUFFICES ASSUME IInv, [Next]_vars PROVE Existing'
  OBVIOUS
<1>a. /\ Existing /\ Calls
      /\ pc \in [Trans -> PC] /\ ret \in [Trans -> RET] /\ tgt \in [Trans -> Trans]
      /\ versions \in [Trans -> Nat] /\ unique_id \in Nat
  BY DEF IInv, TypeOK, LocalTypeOK, SharedTypeOK, Shape
<1>b. Trans \subseteq Nat
  BY NAssumption DEF Trans
<1> USE <1>a, <1>b DEF Existing, Calls, InStore, CallPC, AbortPC, RET, At, Goto, store, shared
<1>1. ASSUME NEW t \in Trans, trans_create(t) PROVE Existing'
  BY <1>1 DEF trans_create
<1>2. ASSUME NEW t \in Trans, StoreEnter(t) PROVE Existing'
  BY <1>2 DEF StoreEnter
<1>3. ASSUME NEW t \in Trans, NEW v \in Trans, StoreGCAbort(t, v) PROVE Existing'
  BY <1>3 DEF StoreGCAbort
<1>4. ASSUME NEW t \in Trans, NEW v \in Trans, StoreGCCommitted(t, v) PROVE Existing'
  BY <1>4 DEF StoreGCCommitted, Dispose
<1>5. ASSUME NEW t \in Trans, NEW v \in Trans, StoreSeePending(t, v) PROVE Existing'
  BY <1>5 DEF StoreSeePending
<1>6. ASSUME NEW t \in Trans, StoreGCDispose(t) PROVE Existing'
  BY <1>6 DEF StoreGCDispose, Dispose
<1>7. ASSUME NEW t \in Trans, StoreNewVersion(t) PROVE Existing'
  BY <1>7 DEF StoreNewVersion
<1>8. ASSUME NEW t \in Trans, StoreReplaceVersion(t) PROVE Existing'
  BY <1>8 DEF StoreReplaceVersion
<1>9. ASSUME NEW t \in Trans, StoreAbortSelf(t) PROVE Existing'
  BY <1>9 DEF StoreAbortSelf
<1>10. ASSUME NEW t \in Trans, StoreRefuse(t) PROVE Existing'
  BY <1>10 DEF StoreRefuse
<1>11. ASSUME NEW t \in Trans, trans_add_dependency(t) PROVE Existing'
  BY <1>11 DEF trans_add_dependency
<1>12. ASSUME NEW t \in Trans, trans_add_listed(t) PROVE Existing'
  BY <1>12 DEF trans_add_listed
<1>13. ASSUME NEW t \in Trans, CommitBegin(t) PROVE Existing'
  BY <1>13 DEF CommitBegin
<1>14. ASSUME NEW t \in Trans, CommitSeeFinal(t) PROVE Existing'
  BY <1>14 DEF CommitSeeFinal, Advance
<1>15. ASSUME NEW t \in Trans, CommitSeePending(t) PROVE Existing'
  BY <1>15 DEF CommitSeePending, AtDependee
<1>16. ASSUME NEW t \in Trans, CommitWaitsDone(t) PROVE Existing'
  BY <1>16 DEF CommitWaitsDone
<1>17. ASSUME NEW t \in Trans, CommitIncRead(t) PROVE Existing'
  BY <1>17 DEF CommitIncRead
<1>18. ASSUME NEW t \in Trans, CommitIncWrite(t) PROVE Existing'
  BY <1>18 DEF CommitIncWrite
<1>19. ASSUME NEW t \in Trans, CommitP(t) PROVE Existing'
  BY <1>19 DEF CommitP
<1>20. ASSUME NEW t \in Trans, CommitFoundAborted(t) PROVE Existing'
  BY <1>20 DEF CommitFoundAborted
<1>21. ASSUME NEW t \in Trans, CommitCheckNext(t) PROVE Existing'
  BY <1>21 DEF CommitCheckNext, Advance
<1>22. ASSUME NEW t \in Trans, CommitDecide(t) PROVE Existing'
  BY <1>22 DEF CommitDecide
<1>23. ASSUME NEW t \in Trans, CommitReadWaitcnt(t) PROVE Existing'
  BY <1>23 DEF CommitReadWaitcnt
<1>24. ASSUME NEW t \in Trans, CommitV(t) PROVE Existing'
  BY <1>24 DEF CommitV
<1>25. ASSUME NEW t \in Trans, CommitReleased(t) PROVE Existing'
  BY <1>25 DEF CommitReleased
<1>26. ASSUME NEW t \in Trans, CommitSet(t) PROVE Existing'
  BY <1>26 DEF CommitSet
<1>27. ASSUME NEW t \in Trans, Disconnect(t) PROVE Existing'
  BY <1>27 DEF Disconnect
<1>28. ASSUME NEW t \in Trans, AbortTest(t) PROVE Existing'
  BY <1>28 DEF AbortTest
<1>29. ASSUME NEW t \in Trans, AbortSet(t) PROVE Existing'
  BY <1>29 DEF AbortSet
<1>30. ASSUME NEW t \in Trans, AbortReadWaitcnt(t) PROVE Existing'
  BY <1>30 DEF AbortReadWaitcnt
<1>31. ASSUME NEW t \in Trans, AbortV(t) PROVE Existing'
  BY <1>31 DEF AbortV
<1>32. ASSUME NEW t \in Trans, AbortReleased(t) PROVE Existing'
  BY <1>32 DEF AbortReleased
<1>33. ASSUME NEW t \in Trans, UnrefDec(t) PROVE Existing'
  BY <1>33 DEF UnrefDec
<1>34. ASSUME NEW t \in Trans, UnrefKeep(t) PROVE Existing'
  BY <1>34 DEF UnrefKeep, Return
<1>35. ASSUME NEW t \in Trans, UnrefFree(t) PROVE Existing'
  BY <1>35 DEF UnrefFree, Return
<1>36. ASSUME NEW t \in Trans, UnrefUndefined(t) PROVE Existing'
  BY <1>36 DEF UnrefUndefined, local
<1>37. CASE UNCHANGED vars
  BY <1>37 DEF vars, local, store, shared
<1> QED
  BY <1>1, <1>2, <1>3, <1>4, <1>5, <1>6, <1>7, <1>8, <1>9, <1>10,
     <1>11, <1>12, <1>13, <1>14, <1>15, <1>16, <1>17, <1>18, <1>19, <1>20,
     <1>21, <1>22, <1>23, <1>24, <1>25, <1>26, <1>27, <1>28, <1>29, <1>30,
     <1>31, <1>32, <1>33, <1>34, <1>35, <1>36, <1>37
     DEF Next, CommitStep, AbortStep, UnrefStep, StoreStep, StoreEnds

(* A step keeps the loop cursors of trans_commit in range.                 *)
LEMMA CursorsNext == IInv /\ [Next]_vars => Cursors'
<1> SUFFICES ASSUME IInv, [Next]_vars PROVE Cursors'
  OBVIOUS
<1>a. Cursors /\ pc \in [Trans -> PC] /\ idx \in [Trans -> Nat]
      /\ depends \in [Trans -> Seq(Trans)]
  BY DEF IInv, TypeOK, LocalTypeOK, SharedTypeOK, Shape
<1>b. TypeOK /\ Shape /\ Memory
  BY DEF IInv
<1>c. RET \cap {"c_inc", "c_add", "c_P"} = {}
  BY DEF RET
<1>d. /\ ret \in [Trans -> RET] /\ tgt \in [Trans -> Trans]
      /\ refcnt \in [Trans -> Nat] /\ versions \in [Trans -> Nat]
  BY <1>b DEF TypeOK, LocalTypeOK, SharedTypeOK
<1> USE <1>a DEF Cursors, At, Goto, store, shared
<1>1. ASSUME NEW t \in Trans, trans_create(t) PROVE Cursors'
  BY <1>1 DEF trans_create
<1>2. ASSUME NEW t \in Trans, StoreEnter(t) PROVE Cursors'
  BY <1>2 DEF StoreEnter
<1>3. ASSUME NEW t \in Trans, NEW v \in Trans, StoreGCAbort(t, v) PROVE Cursors'
  BY <1>3 DEF StoreGCAbort
<1>4. ASSUME NEW t \in Trans, NEW v \in Trans, StoreGCCommitted(t, v) PROVE Cursors'
  BY <1>4 DEF StoreGCCommitted, Dispose
<1>5. ASSUME NEW t \in Trans, NEW v \in Trans, StoreSeePending(t, v) PROVE Cursors'
  BY <1>5 DEF StoreSeePending
<1>6. ASSUME NEW t \in Trans, StoreGCDispose(t) PROVE Cursors'
  BY <1>6 DEF StoreGCDispose, Dispose
<1>7. ASSUME NEW t \in Trans, StoreNewVersion(t) PROVE Cursors'
  BY <1>7 DEF StoreNewVersion
<1>8. ASSUME NEW t \in Trans, StoreReplaceVersion(t) PROVE Cursors'
  BY <1>8 DEF StoreReplaceVersion
<1>9. ASSUME NEW t \in Trans, StoreAbortSelf(t) PROVE Cursors'
  BY <1>9 DEF StoreAbortSelf
<1>10. ASSUME NEW t \in Trans, StoreRefuse(t) PROVE Cursors'
  BY <1>10 DEF StoreRefuse
<1>11. ASSUME NEW t \in Trans, trans_add_dependency(t) PROVE Cursors'
  BY <1>11 DEF trans_add_dependency
<1>12. ASSUME NEW t \in Trans, trans_add_listed(t) PROVE Cursors'
  BY <1>12 DEF trans_add_listed
<1>13. ASSUME NEW t \in Trans, CommitBegin(t) PROVE Cursors'
  BY <1>13 DEF CommitBegin
<1>14. ASSUME NEW t \in Trans, CommitSeeFinal(t) PROVE Cursors'
  BY <1>14 DEF CommitSeeFinal, Advance
<1>15. ASSUME NEW t \in Trans, CommitSeePending(t) PROVE Cursors'
  BY <1>15 DEF CommitSeePending, AtDependee
<1>16. ASSUME NEW t \in Trans, CommitWaitsDone(t) PROVE Cursors'
  BY <1>16 DEF CommitWaitsDone
<1>17. ASSUME NEW t \in Trans, CommitIncRead(t) PROVE Cursors'
  BY <1>17 DEF CommitIncRead
<1>18. ASSUME NEW t \in Trans, CommitIncWrite(t) PROVE Cursors'
  BY <1>18 DEF CommitIncWrite
<1>19. ASSUME NEW t \in Trans, CommitP(t) PROVE Cursors'
  BY <1>19 DEF CommitP
<1>20. ASSUME NEW t \in Trans, CommitFoundAborted(t) PROVE Cursors'
  BY <1>20 DEF CommitFoundAborted
<1>21. ASSUME NEW t \in Trans, CommitCheckNext(t) PROVE Cursors'
  BY <1>21 DEF CommitCheckNext, Advance
<1>22. ASSUME NEW t \in Trans, CommitDecide(t) PROVE Cursors'
  BY <1>22 DEF CommitDecide
<1>23. ASSUME NEW t \in Trans, CommitReadWaitcnt(t) PROVE Cursors'
  BY <1>23 DEF CommitReadWaitcnt
<1>24. ASSUME NEW t \in Trans, CommitV(t) PROVE Cursors'
  BY <1>24 DEF CommitV
<1>25. ASSUME NEW t \in Trans, CommitReleased(t) PROVE Cursors'
  BY <1>25 DEF CommitReleased
<1>26. ASSUME NEW t \in Trans, CommitSet(t) PROVE Cursors'
  BY <1>26 DEF CommitSet
<1>27. ASSUME NEW t \in Trans, Disconnect(t) PROVE Cursors'
  BY <1>27 DEF Disconnect
<1>28. ASSUME NEW t \in Trans, AbortTest(t) PROVE Cursors'
  BY <1>28 DEF AbortTest
<1>29. ASSUME NEW t \in Trans, AbortSet(t) PROVE Cursors'
  BY <1>29 DEF AbortSet
<1>30. ASSUME NEW t \in Trans, AbortReadWaitcnt(t) PROVE Cursors'
  BY <1>30 DEF AbortReadWaitcnt
<1>31. ASSUME NEW t \in Trans, AbortV(t) PROVE Cursors'
  BY <1>31 DEF AbortV
<1>32. ASSUME NEW t \in Trans, AbortReleased(t) PROVE Cursors'
  BY <1>32 DEF AbortReleased
<1>33. ASSUME NEW t \in Trans, UnrefDec(t) PROVE Cursors'
  BY <1>33 DEF UnrefDec
<1>34. ASSUME NEW t \in Trans, UnrefKeep(t) PROVE Cursors'
  <2>1. ret[t] \in RET
    BY <1>d
  <2> QED
    BY <1>34, <1>c, <2>1 DEF UnrefKeep, Return
<1>35. ASSUME NEW t \in Trans, UnrefFree(t) PROVE Cursors'
  <2>1. ret[t] \in RET /\ tgt[t] \in Trans
    BY <1>d
  <2>2. ~Owned(tgt[t])
    BY <1>35, <1>b, <2>1, UnreferencedAtZero DEF UnrefFree
  <2>3. pc[tgt[t]] \notin {"c_inc", "c_add", "c_P"}
    BY <2>2 DEF Owned
  <2> QED
    BY <1>35, <1>c, <2>1, <2>3 DEF UnrefFree, Return
<1>36. ASSUME NEW t \in Trans, UnrefUndefined(t) PROVE Cursors'
  BY <1>36 DEF UnrefUndefined, local
<1>37. CASE UNCHANGED vars
  BY <1>37 DEF vars, local, store, shared
<1> QED
  BY <1>1, <1>2, <1>3, <1>4, <1>5, <1>6, <1>7, <1>8, <1>9, <1>10,
     <1>11, <1>12, <1>13, <1>14, <1>15, <1>16, <1>17, <1>18, <1>19, <1>20,
     <1>21, <1>22, <1>23, <1>24, <1>25, <1>26, <1>27, <1>28, <1>29, <1>30,
     <1>31, <1>32, <1>33, <1>34, <1>35, <1>36, <1>37
     DEF Next, CommitStep, AbortStep, UnrefStep, StoreStep, StoreEnds


-----------------------------------------------------------------------------
(* Reference counts.                                                       *)

\* The call t is in will consume a reference to x.
Holds(t, x) ==
  tgt[t] = x /\ ret[t] # "end" /\ pc[t] \in AbortPC \cup {"u_dec"}

Covers(x) ==
  refcnt[x] >= References(x) /\ (x \in freed => References(x) = 0)

\* Only the locals of t change.
LocalStep(t) ==
  \A u \in Trans : u # t =>
    pc'[u] = pc[u] /\ ret'[u] = ret[u] /\ tgt'[u] = tgt[u]

(* An object whose references do not grow and whose count does not drop    *)
(* stays covered.                                                          *)
LEMMA CoversKept ==
  ASSUME NEW x \in Trans, Covers(x), refcnt[x] \in Nat, refcnt'[x] \in Nat,
         versions[x] \in Nat, versions'[x] \in Nat,
         refcnt'[x] >= refcnt[x], versions'[x] <= versions[x],
         Owned(x)' => Owned(x), Pinned(x)' => Pinned(x),
         Listed(x)' => Listed(x), x \in freed' => x \in freed
  PROVE  Covers(x)'
BY DEF Covers, References, Count

(* A step that touches no count, version or list keeps every object        *)
(* covered when the thread that takes it gains no reference.               *)
LEMMA NeutralStep ==
  ASSUME TypeOK, Memory, NEW t \in Trans, LocalStep(t),
         UNCHANGED <<refcnt, versions, freed, depends>>,
         Owned(t)' => Owned(t),
         \A x \in Trans : Holds(t, x)' => Holds(t, x)
  PROVE  Memory'
<1> SUFFICES ASSUME NEW x \in Trans PROVE Covers(x)'
  BY DEF Memory, RefcntCovers, Covers
<1>1. Covers(x)
  BY DEF Memory, RefcntCovers, Covers
<1>2. refcnt[x] \in Nat /\ versions[x] \in Nat
  BY DEF TypeOK, SharedTypeOK, LocalTypeOK
<1>3. Owned(x)' => Owned(x)
  BY DEF LocalStep, Owned
<1>4. Pinned(x)' => Pinned(x)
  BY DEF LocalStep, Pinned, Holds
<1>5. Listed(x)' => Listed(x)
  BY DEF Listed, Deps
<1> QED
  BY <1>1, <1>2, <1>3, <1>4, <1>5, CoversKept

(* A step keeps every object covered: a pointer is stored before its count *)
(* can drop, and what is freed is referred to by nobody.                   *)
LEMMA MemoryNext == IInv /\ [Next]_vars => Memory'
<1> SUFFICES ASSUME IInv, [Next]_vars PROVE Memory'
  OBVIOUS
<1>a. TypeOK /\ Shape /\ Memory
  BY DEF IInv
<1>b. /\ pc \in [Trans -> PC] /\ ret \in [Trans -> RET] /\ tgt \in [Trans -> Trans]
      /\ Calls
  BY <1>a DEF TypeOK, LocalTypeOK, Shape
<1>c. refcnt \in [Trans -> Nat] /\ versions \in [Trans -> Nat]
  BY <1>a DEF TypeOK, SharedTypeOK, LocalTypeOK
<1>d. \A x \in Trans : Covers(x)
  BY <1>a DEF Memory, RefcntCovers, Covers
<1>e. ASSUME \A x \in Trans : Covers(x)' PROVE Memory'
  BY <1>e DEF Memory, RefcntCovers, Covers
<1>f. None \notin Trans
  BY NAssumption DEF None, Trans
<1>1. ASSUME NEW t \in Trans, trans_create(t) PROVE Memory'
  <2> SUFFICES ASSUME NEW x \in Trans PROVE Covers(x)'
    BY <1>e
  <2>1. /\ refcnt' = [refcnt EXCEPT ![t] = @ + 1]
        /\ UNCHANGED <<versions, freed, depends, ret, tgt>>
        /\ pc[t] = "none" /\ pc' = [pc EXCEPT ![t] = "idle"]
    BY <1>1 DEF trans_create, At, Goto, store
  <2>2. (Listed(x)' => Listed(x)) /\ (Pinned(x)' => Pinned(x))
    BY <1>b, <2>1 DEF Listed, Deps, Pinned, AbortPC
  <2>3. CASE x = t
    <3>1. ~Owned(x) /\ x \notin freed
      BY <1>a, <2>1, <2>3 DEF Owned, Shape, Existing
    <3> QED
      BY <1>c, <1>d, <2>1, <2>2, <2>3, <3>1 DEF Covers, References, Count
  <2>4. CASE x # t
    <3>1. Owned(x)' => Owned(x)
      BY <1>b, <2>1, <2>4 DEF Owned
    <3> QED
      BY <1>c, <1>d, <2>1, <2>2, <2>4, <3>1, CoversKept
  <2> QED
    BY <2>3, <2>4
<1>2. ASSUME NEW t \in Trans, StoreEnter(t) PROVE Memory'
  <2>1. LocalStep(t) /\ UNCHANGED <<refcnt, versions, freed, depends>>
    BY <1>2, <1>b DEF StoreEnter, Goto, LocalStep, shared, store
  <2>2. (Owned(t)' => Owned(t)) /\ \A x \in Trans : Holds(t, x)' => Holds(t, x)
    BY <1>2, <1>b DEF StoreEnter, At, Goto, Owned, Holds, AbortPC, RET
  <2> QED
    BY <1>a, <2>1, <2>2, NeutralStep
<1>3. ASSUME NEW t \in Trans, NEW v \in Trans, StoreGCAbort(t, v) PROVE Memory'
  <2> SUFFICES ASSUME NEW x \in Trans PROVE Covers(x)'
    BY <1>e
  <2>1. /\ refcnt' = [refcnt EXCEPT ![v] = @ + 1]
        /\ UNCHANGED <<versions, freed, depends>>
        /\ pc[t] = "store" /\ pc' = [pc EXCEPT ![t] = "a_chk"]
        /\ tgt' = [tgt EXCEPT ![t] = v] /\ ret' = [ret EXCEPT ![t] = "gcdisp"]
        /\ versions[v] > 0
    BY <1>3 DEF StoreGCAbort, At, Goto, store
  <2>2. (Listed(x)' => Listed(x)) /\ (Owned(x)' => Owned(x))
    BY <1>b, <2>1 DEF Listed, Deps, Owned
  <2>3. ~Pinned(x)
    BY <1>b, <2>1 DEF Pinned, Calls, InStore, CallPC, AbortPC
  <2>4. CASE x = v
    <3>1. x \notin freed
      BY <1>c, <1>d, <2>1, <2>4 DEF Covers, References, Count
    <3> QED
      BY <1>c, <1>d, <2>1, <2>2, <2>3, <2>4, <3>1 DEF Covers, References, Count
  <2>5. CASE x # v
    <3>1. ~Pinned(x)'
      BY <1>b, <2>1, <2>3, <2>5 DEF Pinned
    <3> QED
      BY <1>c, <1>d, <2>1, <2>2, <2>5, <3>1, CoversKept
  <2> QED
    BY <2>4, <2>5
<1>4. ASSUME NEW t \in Trans, NEW v \in Trans, StoreGCCommitted(t, v) PROVE Memory'
  <2> SUFFICES ASSUME NEW x \in Trans PROVE Covers(x)'
    BY <1>e
  <2>1. /\ versions' = [versions EXCEPT ![v] = @ - 1] /\ versions[v] > 0
        /\ UNCHANGED <<refcnt, freed, depends>>
        /\ pc[t] = "store" /\ pc' = [pc EXCEPT ![t] = "u_dec"]
        /\ tgt' = [tgt EXCEPT ![t] = v] /\ ret' = [ret EXCEPT ![t] = "store"]
        /\ v \in Trans
    BY <1>4, <1>a, <1>b DEF StoreGCCommitted, Dispose, At, Goto, shared, Shape, Existing
  <2>2. (Listed(x)' => Listed(x)) /\ (Owned(x)' => Owned(x))
    BY <1>b, <2>1 DEF Listed, Deps, Owned
  <2>3. ~Pinned(x)
    BY <1>b, <2>1 DEF Pinned, Calls, InStore, CallPC, AbortPC
  <2>4. CASE x = v
    BY <1>c, <1>d, <2>1, <2>2, <2>3, <2>4 DEF Covers, References, Count
  <2>5. CASE x # v
    <3>1. ~Pinned(x)'
      BY <1>b, <2>1, <2>3, <2>5 DEF Pinned
    <3> QED
      BY <1>c, <1>d, <2>1, <2>2, <2>5, <3>1, CoversKept
  <2> QED
    BY <2>4, <2>5
<1>5. ASSUME NEW t \in Trans, NEW v \in Trans, StoreSeePending(t, v) PROVE Memory'
  <2>1. LocalStep(t) /\ UNCHANGED <<refcnt, versions, freed, depends>>
    BY <1>5, <1>b DEF StoreSeePending, Goto, LocalStep, shared, store
  <2>2. (Owned(t)' => Owned(t)) /\ \A x \in Trans : Holds(t, x)' => Holds(t, x)
    BY <1>5, <1>b DEF StoreSeePending, At, Goto, Owned, Holds, AbortPC, RET
  <2> QED
    BY <1>a, <2>1, <2>2, NeutralStep
<1>6. ASSUME NEW t \in Trans, StoreGCDispose(t) PROVE Memory'
  <2> SUFFICES ASSUME NEW x \in Trans PROVE Covers(x)'
    BY <1>e
  <2>1. /\ versions' = [versions EXCEPT ![tgt[t]] = @ - 1] /\ versions[tgt[t]] > 0
        /\ UNCHANGED <<refcnt, freed, depends>>
        /\ pc[t] = "gcdisp" /\ pc' = [pc EXCEPT ![t] = "u_dec"]
        /\ tgt' = [tgt EXCEPT ![t] = tgt[t]] /\ ret' = [ret EXCEPT ![t] = "store"]
        /\ tgt[t] \in Trans
    BY <1>6, <1>a, <1>b DEF StoreGCDispose, Dispose, At, Goto, shared, Shape, Existing
  <2>2. (Listed(x)' => Listed(x)) /\ (Owned(x)' => Owned(x))
    BY <1>b, <2>1 DEF Listed, Deps, Owned
  <2>3. ~Pinned(x)
    BY <1>b, <2>1 DEF Pinned, Calls, InStore, CallPC, AbortPC
  <2>4. CASE x = tgt[t]
    BY <1>c, <1>d, <2>1, <2>2, <2>3, <2>4 DEF Covers, References, Count
  <2>5. CASE x # tgt[t]
    <3>1. ~Pinned(x)'
      BY <1>b, <2>1, <2>3, <2>5 DEF Pinned
    <3> QED
      BY <1>c, <1>d, <2>1, <2>2, <2>5, <3>1, CoversKept
  <2> QED
    BY <2>4, <2>5
<1>7. ASSUME NEW t \in Trans, StoreNewVersion(t) PROVE Memory'
  <2> SUFFICES ASSUME NEW x \in Trans PROVE Covers(x)'
    BY <1>e
  <2>1. /\ refcnt' = [refcnt EXCEPT ![t] = @ + 1]
        /\ versions' = [versions EXCEPT ![t] = @ + 1]
        /\ UNCHANGED <<freed, depends, ret, tgt>>
        /\ pc[t] = "store" /\ pc' = [pc EXCEPT ![t] = "idle"]
    BY <1>7 DEF StoreNewVersion, At, Goto
  <2>2. (Listed(x)' => Listed(x)) /\ (Owned(x)' => Owned(x))
        /\ (Pinned(x)' => Pinned(x))
    BY <1>b, <2>1 DEF Listed, Deps, Owned, Pinned, AbortPC
  <2>3. CASE x = t
    <3>1. Owned(x)
      BY <2>1, <2>3 DEF Owned
    <3>2. x \notin freed
      BY <1>c, <1>d, <3>1 DEF Covers, References, Count
    <3> QED
      BY <1>c, <1>d, <2>1, <2>2, <2>3, <3>2 DEF Covers, References, Count
  <2>4. CASE x # t
    BY <1>c, <1>d, <2>1, <2>2, <2>4, CoversKept
  <2> QED
    BY <2>3, <2>4
<1>8. ASSUME NEW t \in Trans, StoreReplaceVersion(t) PROVE Memory'
  <2>1. LocalStep(t) /\ UNCHANGED <<refcnt, versions, freed, depends>>
    BY <1>8, <1>b DEF StoreReplaceVersion, Goto, LocalStep, shared, store
  <2>2. (Owned(t)' => Owned(t)) /\ \A x \in Trans : Holds(t, x)' => Holds(t, x)
    BY <1>8, <1>b DEF StoreReplaceVersion, At, Goto, Owned, Holds, AbortPC, RET
  <2> QED
    BY <1>a, <2>1, <2>2, NeutralStep
<1>9. ASSUME NEW t \in Trans, StoreAbortSelf(t) PROVE Memory'
  <2> SUFFICES ASSUME NEW x \in Trans PROVE Covers(x)'
    BY <1>e
  <2>1. /\ refcnt' = [refcnt EXCEPT ![t] = @ + 1]
        /\ UNCHANGED <<versions, freed, depends>>
        /\ pc[t] = "store" /\ pc' = [pc EXCEPT ![t] = "a_chk"]
        /\ tgt' = tgt /\ ret' = [ret EXCEPT ![t] = "store"]
        /\ tgt[t] = t
    BY <1>9, <1>b DEF StoreAbortSelf, Calls, CallPC, AbortPC, RET, At, Goto, store
  <2>2. (Listed(x)' => Listed(x)) /\ (Owned(x)' => Owned(x))
    BY <1>b, <2>1 DEF Listed, Deps, Owned
  <2>3. ~Pinned(x)
    BY <1>b, <2>1 DEF Pinned, Calls, InStore, CallPC, AbortPC
  <2>4. CASE x = t
    <3>1. x \notin freed
      <4>1. Owned(x) /\ Covers(x) /\ versions[x] \in Nat
        BY <1>c, <1>d, <2>1, <2>4 DEF Owned
      <4> QED
        BY <4>1 DEF Covers, References, Count
    <3> QED
      BY <1>c, <1>d, <2>1, <2>2, <2>3, <2>4, <3>1 DEF Covers, References, Count
  <2>5. CASE x # t
    <3>1. ~Pinned(x)'
      BY <1>b, <2>1, <2>3, <2>5 DEF Pinned
    <3> QED
      BY <1>c, <1>d, <2>1, <2>2, <2>5, <3>1, CoversKept
  <2> QED
    BY <2>4, <2>5
<1>10. ASSUME NEW t \in Trans, StoreRefuse(t) PROVE Memory'
  <2>1. LocalStep(t) /\ UNCHANGED <<refcnt, versions, freed, depends>>
    BY <1>10, <1>b DEF StoreRefuse, Goto, LocalStep, shared, store
  <2>2. (Owned(t)' => Owned(t)) /\ \A x \in Trans : Holds(t, x)' => Holds(t, x)
    BY <1>10, <1>b DEF StoreRefuse, At, Goto, Owned, Holds, AbortPC, RET
  <2> QED
    BY <1>a, <2>1, <2>2, NeutralStep
<1>11. ASSUME NEW t \in Trans, trans_add_dependency(t) PROVE Memory'
  <2> SUFFICES ASSUME NEW x \in Trans PROVE Covers(x)'
    BY <1>e
  <2>1. /\ refcnt' = [refcnt EXCEPT ![tgt[t]] = @ + 1]
        /\ UNCHANGED <<versions, freed, ret>>
        /\ pc[t] = "dep" /\ pc' = [pc EXCEPT ![t] = "store"]
        /\ tgt' = [tgt EXCEPT ![t] = t] /\ tgt[t] \in Trans
        /\ versions[tgt[t]] > 0
    BY <1>11, <1>a, <1>b DEF trans_add_dependency, At, Goto, store, Shape, Existing
  <2>2. depends' = [depends EXCEPT ![t] = Append(@, tgt[t])]
    BY <1>11 DEF trans_add_dependency
  <2>3. (Owned(x)' => Owned(x)) /\ (Pinned(x)' => Pinned(x))
    BY <1>b, <2>1 DEF Owned, Pinned, AbortPC
  <2>4. CASE x = tgt[t]
    <3>1. Covers(x) /\ versions[x] \in Nat /\ versions[x] > 0
      BY <1>c, <1>d, <2>1, <2>4
    <3>2. x \notin freed
      BY <3>1 DEF Covers, References, Count
    <3> QED
      BY <1>c, <1>d, <2>1, <2>3, <2>4, <3>2 DEF Covers, References, Count
  <2>5. CASE x # tgt[t]
    <3>1. \A u \in Trans : depends[u] \in Seq(Trans)
      BY <1>a DEF TypeOK, SharedTypeOK
    <3>2. \A u \in Trans : u # t => depends'[u] = depends[u]
      BY <1>a, <2>2 DEF TypeOK, SharedTypeOK
    <3>3. depends'[t] = Append(depends[t], tgt[t])
      BY <1>a, <2>2 DEF TypeOK, SharedTypeOK
    <3>4. x \in Deps(t)' => x \in Deps(t)
      BY <2>1, <2>5, <3>1, <3>3 DEF Deps
    <3>5. Listed(x)' => Listed(x)
      BY <3>2, <3>4 DEF Listed, Deps
    <3> QED
      BY <1>c, <1>d, <2>1, <2>3, <2>5, <3>5, CoversKept
  <2> QED
    BY <2>4, <2>5
<1>12. ASSUME NEW t \in Trans, trans_add_listed(t) PROVE Memory'
  <2>1. LocalStep(t) /\ UNCHANGED <<refcnt, versions, freed, depends>>
    BY <1>12, <1>b DEF trans_add_listed, Goto, LocalStep, shared, store
  <2>2. (Owned(t)' => Owned(t)) /\ \A x \in Trans : Holds(t, x)' => Holds(t, x)
    BY <1>12, <1>b DEF trans_add_listed, At, Goto, Owned, Holds, AbortPC, RET
  <2> QED
    BY <1>a, <2>1, <2>2, NeutralStep
<1>13. ASSUME NEW t \in Trans, CommitBegin(t) PROVE Memory'
  <2>1. LocalStep(t) /\ UNCHANGED <<refcnt, versions, freed, depends>>
    BY <1>13, <1>b DEF CommitBegin, Goto, LocalStep, shared, store
  <2>2. (Owned(t)' => Owned(t)) /\ \A x \in Trans : Holds(t, x)' => Holds(t, x)
    BY <1>13, <1>b DEF CommitBegin, At, Goto, Owned, Holds, AbortPC, RET
  <2> QED
    BY <1>a, <2>1, <2>2, NeutralStep
<1>14. ASSUME NEW t \in Trans, CommitSeeFinal(t) PROVE Memory'
  <2>1. LocalStep(t) /\ UNCHANGED <<refcnt, versions, freed, depends>>
    BY <1>14, <1>b DEF CommitSeeFinal, Advance, Goto, LocalStep, shared, store
  <2>2. (Owned(t)' => Owned(t)) /\ \A x \in Trans : Holds(t, x)' => Holds(t, x)
    BY <1>14, <1>b DEF CommitSeeFinal, Advance, At, Goto, Owned, Holds, AbortPC, RET
  <2> QED
    BY <1>a, <2>1, <2>2, NeutralStep
<1>15. ASSUME NEW t \in Trans, CommitSeePending(t) PROVE Memory'
  <2>1. LocalStep(t) /\ UNCHANGED <<refcnt, versions, freed, depends>>
    BY <1>15, <1>b DEF CommitSeePending, AtDependee, Goto, LocalStep, shared, store
  <2>2. (Owned(t)' => Owned(t)) /\ \A x \in Trans : Holds(t, x)' => Holds(t, x)
    BY <1>15, <1>b DEF CommitSeePending, AtDependee, At, Goto, Owned, Holds, AbortPC, RET
  <2> QED
    BY <1>a, <2>1, <2>2, NeutralStep
<1>16. ASSUME NEW t \in Trans, CommitWaitsDone(t) PROVE Memory'
  <2>1. LocalStep(t) /\ UNCHANGED <<refcnt, versions, freed, depends>>
    BY <1>16, <1>b DEF CommitWaitsDone, Goto, LocalStep, shared, store
  <2>2. (Owned(t)' => Owned(t)) /\ \A x \in Trans : Holds(t, x)' => Holds(t, x)
    BY <1>16, <1>b DEF CommitWaitsDone, At, Goto, Owned, Holds, AbortPC, RET
  <2> QED
    BY <1>a, <2>1, <2>2, NeutralStep
<1>17. ASSUME NEW t \in Trans, CommitIncRead(t) PROVE Memory'
  <2>1. LocalStep(t) /\ UNCHANGED <<refcnt, versions, freed, depends>>
    BY <1>17, <1>b DEF CommitIncRead, Goto, LocalStep, shared, store
  <2>2. (Owned(t)' => Owned(t)) /\ \A x \in Trans : Holds(t, x)' => Holds(t, x)
    BY <1>17, <1>b DEF CommitIncRead, At, Goto, Owned, Holds, AbortPC, RET
  <2> QED
    BY <1>a, <2>1, <2>2, NeutralStep
<1>18. ASSUME NEW t \in Trans, CommitIncWrite(t) PROVE Memory'
  <2>1. LocalStep(t) /\ UNCHANGED <<refcnt, versions, freed, depends>>
    BY <1>18, <1>b DEF CommitIncWrite, Goto, LocalStep, shared, store
  <2>2. (Owned(t)' => Owned(t)) /\ \A x \in Trans : Holds(t, x)' => Holds(t, x)
    BY <1>18, <1>b DEF CommitIncWrite, At, Goto, Owned, Holds, AbortPC, RET
  <2> QED
    BY <1>a, <2>1, <2>2, NeutralStep
<1>19. ASSUME NEW t \in Trans, CommitP(t) PROVE Memory'
  <2>1. LocalStep(t) /\ UNCHANGED <<refcnt, versions, freed, depends>>
    BY <1>19, <1>b DEF CommitP, Goto, LocalStep, shared, store
  <2>2. (Owned(t)' => Owned(t)) /\ \A x \in Trans : Holds(t, x)' => Holds(t, x)
    BY <1>19, <1>b DEF CommitP, At, Goto, Owned, Holds, AbortPC, RET
  <2> QED
    BY <1>a, <2>1, <2>2, NeutralStep
<1>20. ASSUME NEW t \in Trans, CommitFoundAborted(t) PROVE Memory'
  <2>1. LocalStep(t) /\ UNCHANGED <<refcnt, versions, freed, depends>>
    BY <1>20, <1>b DEF CommitFoundAborted, Goto, LocalStep, shared, store
  <2>2. (Owned(t)' => Owned(t)) /\ \A x \in Trans : Holds(t, x)' => Holds(t, x)
    BY <1>20, <1>b DEF CommitFoundAborted, At, Goto, Owned, Holds, AbortPC, RET
  <2> QED
    BY <1>a, <2>1, <2>2, NeutralStep
<1>21. ASSUME NEW t \in Trans, CommitCheckNext(t) PROVE Memory'
  <2>1. LocalStep(t) /\ UNCHANGED <<refcnt, versions, freed, depends>>
    BY <1>21, <1>b DEF CommitCheckNext, Advance, Goto, LocalStep, shared, store
  <2>2. (Owned(t)' => Owned(t)) /\ \A x \in Trans : Holds(t, x)' => Holds(t, x)
    BY <1>21, <1>b DEF CommitCheckNext, Advance, At, Goto, Owned, Holds, AbortPC, RET
  <2> QED
    BY <1>a, <2>1, <2>2, NeutralStep
<1>22. ASSUME NEW t \in Trans, CommitDecide(t) PROVE Memory'
  <2>1. LocalStep(t) /\ UNCHANGED <<refcnt, versions, freed, depends>>
    BY <1>22, <1>b DEF CommitDecide, Goto, LocalStep, shared, store
  <2>2. (Owned(t)' => Owned(t)) /\ \A x \in Trans : Holds(t, x)' => Holds(t, x)
    BY <1>22, <1>b DEF CommitDecide, At, Goto, Owned, Holds, AbortPC, RET
  <2> QED
    BY <1>a, <2>1, <2>2, NeutralStep
<1>23. ASSUME NEW t \in Trans, CommitReadWaitcnt(t) PROVE Memory'
  <2>1. LocalStep(t) /\ UNCHANGED <<refcnt, versions, freed, depends>>
    BY <1>23, <1>b DEF CommitReadWaitcnt, Goto, LocalStep, shared, store
  <2>2. (Owned(t)' => Owned(t)) /\ \A x \in Trans : Holds(t, x)' => Holds(t, x)
    BY <1>23, <1>b DEF CommitReadWaitcnt, At, Goto, Owned, Holds, AbortPC, RET
  <2> QED
    BY <1>a, <2>1, <2>2, NeutralStep
<1>24. ASSUME NEW t \in Trans, CommitV(t) PROVE Memory'
  <2>1. LocalStep(t) /\ UNCHANGED <<refcnt, versions, freed, depends>>
    BY <1>24, <1>b DEF CommitV, Goto, LocalStep, shared, store
  <2>2. (Owned(t)' => Owned(t)) /\ \A x \in Trans : Holds(t, x)' => Holds(t, x)
    BY <1>24, <1>b DEF CommitV, At, Goto, Owned, Holds, AbortPC, RET
  <2> QED
    BY <1>a, <2>1, <2>2, NeutralStep
<1>25. ASSUME NEW t \in Trans, CommitReleased(t) PROVE Memory'
  <2>1. LocalStep(t) /\ UNCHANGED <<refcnt, versions, freed, depends>>
    BY <1>25, <1>b DEF CommitReleased, Goto, LocalStep, shared, store
  <2>2. (Owned(t)' => Owned(t)) /\ \A x \in Trans : Holds(t, x)' => Holds(t, x)
    BY <1>25, <1>b DEF CommitReleased, At, Goto, Owned, Holds, AbortPC, RET
  <2> QED
    BY <1>a, <2>1, <2>2, NeutralStep
<1>26. ASSUME NEW t \in Trans, CommitSet(t) PROVE Memory'
  <2>1. LocalStep(t) /\ UNCHANGED <<refcnt, versions, freed, depends>>
    BY <1>26, <1>b DEF CommitSet, Goto, LocalStep, shared, store
  <2>2. (Owned(t)' => Owned(t)) /\ \A x \in Trans : Holds(t, x)' => Holds(t, x)
    BY <1>26, <1>b DEF CommitSet, At, Goto, Owned, Holds, AbortPC, RET
  <2> QED
    BY <1>a, <2>1, <2>2, NeutralStep
<1>27. ASSUME NEW t \in Trans, Disconnect(t) PROVE Memory'
  <2>1. LocalStep(t) /\ UNCHANGED <<refcnt, versions, freed, depends>>
    BY <1>27, <1>b DEF Disconnect, Goto, LocalStep, shared, store
  <2>2. (Owned(t)' => Owned(t)) /\ \A x \in Trans : Holds(t, x)' => Holds(t, x)
    BY <1>27, <1>b DEF Disconnect, At, Goto, Owned, Holds, AbortPC, RET
  <2> QED
    BY <1>a, <2>1, <2>2, NeutralStep
<1>28. ASSUME NEW t \in Trans, AbortTest(t) PROVE Memory'
  <2>1. LocalStep(t) /\ UNCHANGED <<refcnt, versions, freed, depends>>
    BY <1>28, <1>b DEF AbortTest, Goto, LocalStep, shared, store
  <2>2. (Owned(t)' => Owned(t)) /\ \A x \in Trans : Holds(t, x)' => Holds(t, x)
    BY <1>28, <1>b DEF AbortTest, At, Goto, Owned, Holds, AbortPC, RET
  <2> QED
    BY <1>a, <2>1, <2>2, NeutralStep
<1>29. ASSUME NEW t \in Trans, AbortSet(t) PROVE Memory'
  <2>1. LocalStep(t) /\ UNCHANGED <<refcnt, versions, freed, depends>>
    BY <1>29, <1>b DEF AbortSet, Goto, LocalStep, shared, store
  <2>2. (Owned(t)' => Owned(t)) /\ \A x \in Trans : Holds(t, x)' => Holds(t, x)
    BY <1>29, <1>b DEF AbortSet, At, Goto, Owned, Holds, AbortPC, RET
  <2> QED
    BY <1>a, <2>1, <2>2, NeutralStep
<1>30. ASSUME NEW t \in Trans, AbortReadWaitcnt(t) PROVE Memory'
  <2>1. LocalStep(t) /\ UNCHANGED <<refcnt, versions, freed, depends>>
    BY <1>30, <1>b DEF AbortReadWaitcnt, Goto, LocalStep, shared, store
  <2>2. (Owned(t)' => Owned(t)) /\ \A x \in Trans : Holds(t, x)' => Holds(t, x)
    BY <1>30, <1>b DEF AbortReadWaitcnt, At, Goto, Owned, Holds, AbortPC, RET
  <2> QED
    BY <1>a, <2>1, <2>2, NeutralStep
<1>31. ASSUME NEW t \in Trans, AbortV(t) PROVE Memory'
  <2>1. LocalStep(t) /\ UNCHANGED <<refcnt, versions, freed, depends>>
    BY <1>31, <1>b DEF AbortV, Goto, LocalStep, shared, store
  <2>2. (Owned(t)' => Owned(t)) /\ \A x \in Trans : Holds(t, x)' => Holds(t, x)
    BY <1>31, <1>b DEF AbortV, At, Goto, Owned, Holds, AbortPC, RET
  <2> QED
    BY <1>a, <2>1, <2>2, NeutralStep
<1>32. ASSUME NEW t \in Trans, AbortReleased(t) PROVE Memory'
  <2>1. LocalStep(t) /\ UNCHANGED <<refcnt, versions, freed, depends>>
    BY <1>32, <1>b DEF AbortReleased, Goto, LocalStep, shared, store
  <2>2. (Owned(t)' => Owned(t)) /\ \A x \in Trans : Holds(t, x)' => Holds(t, x)
    BY <1>32, <1>b DEF AbortReleased, At, Goto, Owned, Holds, AbortPC, RET
  <2> QED
    BY <1>a, <2>1, <2>2, NeutralStep
<1>33. ASSUME NEW t \in Trans, UnrefDec(t) PROVE Memory'
  <2> SUFFICES ASSUME NEW x \in Trans PROVE Covers(x)'
    BY <1>e
  <2>1. /\ refcnt' = [refcnt EXCEPT ![tgt[t]] = @ - 1] /\ tgt[t] \in Trans
        /\ UNCHANGED <<versions, freed, depends, ret, tgt>>
        /\ pc[t] = "u_dec" /\ pc' = [pc EXCEPT ![t] = "u_chk"]
    BY <1>33, <1>b DEF UnrefDec, At, Goto, store
  <2>2. (Listed(x)' => Listed(x)) /\ (Owned(x)' => Owned(x))
        /\ (Pinned(x)' => Pinned(x))
    BY <1>b, <2>1 DEF Listed, Deps, Owned, Pinned, AbortPC
  <2>3. CASE x = tgt[t]
    <3>1. x \notin freed /\ refcnt[x] >= 1
      BY <1>a, <2>1, <2>3, TargetReferenced
    <3>2. CASE ret[t] = "end"
      <4>1. Owned(x) /\ ~Owned(x)'
        BY <1>b, <2>1, <2>3, <3>2 DEF Owned, Calls
      <4> QED
        BY <1>c, <1>d, <2>1, <2>2, <2>3, <3>1, <4>1 DEF Covers, References, Count
    <3>3. CASE ret[t] # "end"
      <4>1. Pinned(x) /\ ~Pinned(x)'
        BY <1>b, <2>1, <2>3, <3>3 DEF Pinned, Calls, InStore, CallPC, AbortPC
      <4> QED
        BY <1>c, <1>d, <2>1, <2>2, <2>3, <3>1, <4>1 DEF Covers, References, Count
    <3> QED
      BY <3>2, <3>3
  <2>4. CASE x # tgt[t]
    BY <1>c, <1>d, <2>1, <2>2, <2>4, CoversKept
  <2> QED
    BY <2>3, <2>4
<1>34. ASSUME NEW t \in Trans, UnrefKeep(t) PROVE Memory'
  <2>1. LocalStep(t) /\ UNCHANGED <<refcnt, versions, freed, depends>>
    BY <1>34, <1>b DEF UnrefKeep, Return, Goto, LocalStep, shared, store
  <2>2. (Owned(t)' => Owned(t)) /\ \A x \in Trans : Holds(t, x)' => Holds(t, x)
    BY <1>34, <1>b DEF UnrefKeep, Return, At, Goto, Owned, Holds, AbortPC, RET
  <2> QED
    BY <1>a, <2>1, <2>2, NeutralStep
<1>35. ASSUME NEW t \in Trans, UnrefFree(t) PROVE Memory'
  <2> SUFFICES ASSUME NEW x \in Trans PROVE Covers(x)'
    BY <1>e
  <2>1. /\ UNCHANGED <<versions, refcnt>> /\ freed' = freed \cup {tgt[t]}
        /\ depends' = [depends EXCEPT ![tgt[t]] = << >>]
        /\ pc[t] = "u_chk" /\ refcnt[tgt[t]] = 0 /\ tgt[t] \in Trans
    BY <1>35, <1>b DEF UnrefFree, At, store
  <2>2. LocalStep(t) /\ pc'[t] = ret[t] /\ ret'[t] = "end" /\ ret[t] \in RET
    BY <1>35, <1>b DEF UnrefFree, Return, Goto, LocalStep
  <2>3. Owned(x)' => Owned(x)
    BY <2>1, <2>2 DEF Owned, LocalStep, RET
  <2>4. Pinned(x)' => Pinned(x)
    BY <2>1, <2>2 DEF Pinned, LocalStep, RET, AbortPC
  <2>5. Listed(x)' => Listed(x)
    <3>1. \A u \in Trans : depends'[u] = depends[u] \/ depends'[u] = << >>
      BY <1>a, <2>1 DEF TypeOK, SharedTypeOK
    <3> QED
      BY <3>1 DEF Listed, Deps
  <2>6. CASE x = tgt[t]
    <3>1. ~Owned(x) /\ ~Pinned(x) /\ versions[x] = 0 /\ ~Listed(x)
      BY <1>a, <2>1, <2>6, UnreferencedAtZero
    <3> QED
      BY <2>1, <2>3, <2>4, <2>5, <2>6, <3>1 DEF Covers, References, Count
  <2>7. CASE x # tgt[t]
    BY <1>c, <1>d, <2>1, <2>3, <2>4, <2>5, <2>7, CoversKept
  <2> QED
    BY <2>6, <2>7
<1>36. ASSUME NEW t \in Trans, UnrefUndefined(t) PROVE Memory'
  <2>1. LocalStep(t) /\ UNCHANGED <<refcnt, versions, freed, depends>>
    BY <1>36, <1>b DEF UnrefUndefined, Goto, LocalStep, shared, store, local
  <2>2. (Owned(t)' => Owned(t)) /\ \A x \in Trans : Holds(t, x)' => Holds(t, x)
    BY <1>36, <1>b DEF UnrefUndefined, At, Goto, Owned, Holds, AbortPC, RET, Calls, local
  <2> QED
    BY <1>a, <2>1, <2>2, NeutralStep
<1>37. CASE UNCHANGED vars
  <2> SUFFICES ASSUME NEW x \in Trans PROVE Covers(x)'
    BY <1>e
  <2>1. UNCHANGED <<refcnt, versions, freed, depends, pc, ret, tgt>>
    BY <1>37 DEF vars, shared, store, local
  <2>2. /\ (Owned(x)' => Owned(x)) /\ (Pinned(x)' => Pinned(x))
        /\ (Listed(x)' => Listed(x))
    BY <2>1 DEF Owned, Pinned, Listed, Deps
  <2> QED
    BY <1>c, <1>d, <2>1, <2>2, CoversKept
<1> QED
  BY <1>1, <1>2, <1>3, <1>4, <1>5, <1>6, <1>7, <1>8, <1>9, <1>10,
     <1>11, <1>12, <1>13, <1>14, <1>15, <1>16, <1>17, <1>18, <1>19, <1>20,
     <1>21, <1>22, <1>23, <1>24, <1>25, <1>26, <1>27, <1>28, <1>29, <1>30,
     <1>31, <1>32, <1>33, <1>34, <1>35, <1>36, <1>37
     DEF Next, CommitStep, AbortStep, UnrefStep, StoreStep, StoreEnds


-----------------------------------------------------------------------------
(* The commit protocol.                                                    *)

\* Outside t's own transaction and thread nothing changes but the semaphores
\* of resolved transactions, and what t's transaction is known for persists.
Quiet(t) ==
  /\ LocalStep(t)
  /\ \A u \in Trans : u # t =>
       idx'[u] = idx[u] /\ status'[u] = status[u] /\ depends'[u] = depends[u]
  /\ status'[t] = "ABORTED" <=> status[t] = "ABORTED"
  /\ Decided(t) => Decided(t)'
  /\ Deps(t) \subseteq Deps(t)'
  /\ \A x \in Trans : sem'[x] > 0 => sem[x] > 0 \/ Resolved(x)

LEMMA DepsType ==
  ASSUME TypeOK, NEW x \in Trans
  PROVE  /\ Deps(x) \subseteq Trans
         /\ depends[x] \in Seq(Trans)
         /\ \A i \in 1 .. Len(depends[x]) :
              depends[x][i] \in Trans /\ depends[x][i] \in Deps(x)
<1>1. depends[x] \in Seq(Trans)
  BY DEF TypeOK, SharedTypeOK
<1>2. \A i \in 1 .. Len(depends[x]) : depends[x][i] \in Trans
  BY <1>1
<1> QED
  BY <1>1, <1>2 DEF Deps

(* What is known of a transaction survives a quiet step of t.              *)
LEMMA QuietPersists ==
  ASSUME TypeOK, NEW t \in Trans, Quiet(t), NEW x \in Trans
  PROVE  /\ Decided(x) => Decided(x)'
         /\ status'[x] = "ABORTED" <=> status[x] = "ABORTED"
         /\ Resolved(x) => Resolved(x)'
<1>1. Decided(x) => Decided(x)'
  BY DEF Quiet, LocalStep, Decided
<1>2. status'[x] = "ABORTED" <=> status[x] = "ABORTED"
  BY DEF Quiet
<1> QED
  BY <1>1, <1>2 DEF Resolved

LEMMA QuietDoomed ==
  ASSUME TypeOK, NEW t \in Trans, Quiet(t), NEW x \in Trans, Doomed(x)
  PROVE  Doomed(x)'
<1>1. PICK d \in Deps(x) : status[d] = "ABORTED"
  BY DEF Doomed
<1>2. d \in Trans
  BY DepsType
<1>3. d \in Deps(x)'
  BY <1>1 DEF Quiet, Deps
<1>4. status'[d] = "ABORTED"
  BY <1>1, <1>2, QuietPersists
<1> QED
  BY <1>3, <1>4 DEF Doomed

(* A quiet step of t disturbs no other thread.                             *)
LEMMA QuietOthers ==
  ASSUME TypeOK, Commitment, NEW t \in Trans, Quiet(t), NEW u \in Trans, u # t
  PROVE  Committing(u)'
<1>1. /\ pc'[u] = pc[u] /\ ret'[u] = ret[u] /\ tgt'[u] = tgt[u]
      /\ idx'[u] = idx[u] /\ status'[u] = status[u] /\ depends'[u] = depends[u]
  BY DEF Quiet, LocalStep
<1>2. Committing(u)
  BY DEF Commitment
<1>3. /\ Finishing(u)' <=> Finishing(u)
      /\ OwnAbort(u)' <=> OwnAbort(u)
      /\ Decided(u)' <=> Decided(u)
      /\ Deps(u)' = Deps(u)
  BY <1>1 DEF Finishing, OwnAbort, Decided, Deps
<1>4. \A x \in Trans : /\ Decided(x) => Decided(x)'
                       /\ status'[x] = "ABORTED" <=> status[x] = "ABORTED"
                       /\ Resolved(x) => Resolved(x)'
  BY QuietPersists
<1>5. \A x \in Trans : Doomed(x) => Doomed(x)'
  BY QuietDoomed
<1>6. Awaited(u) => Awaited(u)'
  BY <1>1, <1>4, DepsType DEF Awaited
<1>7. Checked(u) => Checked(u)'
  BY <1>1, <1>4, DepsType DEF Checked
<1>8. tgt[u] \in Trans
  BY DEF TypeOK, LocalTypeOK
<1>9. sem'[u] > 0 => Resolved(u)'
  BY <1>2, <1>4 DEF Quiet, Committing
<1>10. Decided(u)' => \A d \in Deps(u)' : Decided(d)'
  BY <1>2, <1>3, <1>4, DepsType DEF Committing
<1> QED
  BY <1>1, <1>2, <1>3, <1>4, <1>5, <1>6, <1>7, <1>8, <1>9, <1>10 DEF Committing

LEMMA QuietStep ==
  ASSUME TypeOK, Commitment, NEW t \in Trans, Quiet(t), Committing(t)'
  PROVE  Commitment'
BY QuietOthers DEF Commitment

(* trans_abort is never about a transaction whose commit is decided: the   *)
(* store aborts doomed transactions only, and a thread never aborts its    *)
(* own once its commit is decided.                                         *)
LEMMA AbortUndecided ==
  ASSUME TypeOK, Shape, Commitment, NEW t \in Trans, pc[t] \in {"a_chk", "a_set"}
  PROVE  tgt[t] \in Trans /\ ~Decided(tgt[t])
<1>1. tgt[t] \in Trans /\ ret[t] \in RET
  BY DEF TypeOK, LocalTypeOK
<1>2. Committing(t) /\ Committing(tgt[t])
  BY <1>1 DEF Commitment
<1>3. CASE ret[t] = "end"
  BY <1>1, <1>2, <1>3 DEF Shape, Calls, Committing, Decided, Finishing
<1>4. CASE ret[t] = "gcdisp"
  <2>1. status[tgt[t]] = "ABORTED" \/ Doomed(tgt[t])
    BY <1>2, <1>4 DEF Committing, AbortPC
  <2>2. ASSUME NEW d \in Deps(tgt[t]), status[d] = "ABORTED" PROVE ~Decided(d)
    <3>1. d \in Trans
      BY <1>1, DepsType
    <3> QED
      BY <2>2, <3>1 DEF Commitment, Committing
  <2>3. Decided(tgt[t]) =>
          status[tgt[t]] # "ABORTED" /\ \A d \in Deps(tgt[t]) : Decided(d)
    BY <1>2 DEF Committing
  <2> QED
    BY <1>1, <2>1, <2>2, <2>3 DEF Doomed
<1>5. CASE ret[t] = "store"
  BY <1>1, <1>2, <1>5 DEF Shape, Calls, Committing, Decided, Finishing, AbortPC
<1> QED
  BY <1>1, <1>3, <1>4, <1>5 DEF RET


\* A step of t that sets no status and adds no dependency, and what it must
\* establish for its own thread.
Plain(t) ==
  /\ LocalStep(t) /\ UNCHANGED <<status, depends>>
  /\ \A u \in Trans : u # t => idx'[u] = idx[u]
  /\ \A x \in Trans : sem'[x] > 0 => sem[x] > 0 \/ Resolved(x)
  /\ Decided(t)' <=> Decided(t)
  /\ Finishing(t) => Finishing(t)'
  /\ OwnAbort(t) /\ status[t] = "ABORTED" => OwnAbort(t)'
  /\ Finishing(t)' => status[t] # "PENDING"
  /\ pc'[t] \in {"c_read", "c_inc", "c_add", "c_P"} => Awaited(t)'
  /\ pc'[t] = "c_chk" => Checked(t)'
  /\ pc'[t] \in AbortPC /\ ret'[t] = "gcdisp" =>
       status[tgt'[t]] = "ABORTED" \/ Doomed(tgt'[t])
  /\ pc'[t] \in {"a_cnt", "a_V"} => status[tgt'[t]] = "ABORTED"
  /\ pc'[t] = "dep" => status[t] = "PENDING"
  /\ pc'[t] # "none"
  /\ tgt'[t] \in Trans

LEMMA PlainStep ==
  ASSUME TypeOK, Commitment, NEW t \in Trans, Plain(t)
  PROVE  Commitment'
<1>1. Deps(t)' = Deps(t)
  BY DEF Plain, Deps
<1>2. Quiet(t)
  BY <1>1 DEF Plain, Quiet
<1>3. Committing(t)
  BY DEF Commitment
<1>4. \A x \in Trans : /\ Decided(x) => Decided(x)'
                       /\ Resolved(x) => Resolved(x)'
  BY <1>2, QuietPersists
<1>5. \A x \in Trans : Doomed(x) => Doomed(x)'
  BY <1>2, QuietDoomed
<1>6. sem'[t] > 0 => Resolved(t)'
  BY <1>3, <1>4 DEF Plain, Committing
<1>7. Decided(t)' => status'[t] # "ABORTED" /\ \A d \in Deps(t)' : Decided(d)'
  BY <1>1, <1>3, <1>4, DepsType DEF Plain, Committing
<1>8. Committing(t)'
  BY <1>3, <1>5, <1>6, <1>7 DEF Plain, Committing
<1> QED
  BY <1>2, <1>8, QuietStep

(* A step keeps what the threads know of each other's transactions.        *)
LEMMA CommitmentNext == IInv /\ [Next]_vars => Commitment'
<1> SUFFICES ASSUME IInv, [Next]_vars PROVE Commitment'
  OBVIOUS
<1>a. TypeOK /\ Shape /\ Memory /\ Commitment
  BY DEF IInv
<1>b. /\ pc \in [Trans -> PC] /\ ret \in [Trans -> RET] /\ tgt \in [Trans -> Trans]
      /\ idx \in [Trans -> Nat]
  BY <1>a DEF TypeOK, LocalTypeOK
<1>c. \A x \in Trans : Committing(x)
  BY <1>a DEF Commitment
<1>1. ASSUME NEW t \in Trans, trans_create(t) PROVE Commitment'
  <2>1. /\ LocalStep(t) /\ UNCHANGED <<status, depends, sem>>
        /\ \A u \in Trans : u # t => idx'[u] = idx[u]
    BY <1>1, <1>b DEF trans_create, Goto, LocalStep, shared
  <2>2. Committing(t) /\ tgt[t] \in Trans /\ ret[t] \in RET
    BY <1>b, <1>c
  <2>3. Plain(t)
    BY <1>1, <1>b, <2>1, <2>2 DEF trans_create, Plain, Committing, Finishing, OwnAbort,
       Decided, At, Goto, AbortPC, RET
  <2> QED
    BY <1>a, <2>3, PlainStep
<1>2. ASSUME NEW t \in Trans, StoreEnter(t) PROVE Commitment'
  <2>1. /\ LocalStep(t) /\ UNCHANGED <<status, depends, sem>>
        /\ \A u \in Trans : u # t => idx'[u] = idx[u]
    BY <1>2, <1>b DEF StoreEnter, Goto, LocalStep, shared
  <2>2. Committing(t) /\ tgt[t] \in Trans /\ ret[t] \in RET
    BY <1>b, <1>c
  <2>3. Plain(t)
    BY <1>2, <1>b, <2>1, <2>2 DEF StoreEnter, Plain, Committing, Finishing, OwnAbort,
       Decided, At, Goto, AbortPC, RET
  <2> QED
    BY <1>a, <2>3, PlainStep
<1>3. ASSUME NEW t \in Trans, NEW v \in Trans, StoreGCAbort(t, v) PROVE Commitment'
  <2>1. /\ LocalStep(t) /\ UNCHANGED <<status, depends, sem>>
        /\ \A u \in Trans : u # t => idx'[u] = idx[u]
    BY <1>3, <1>b DEF StoreGCAbort, Goto, LocalStep, shared
  <2>2. Committing(t) /\ tgt[t] \in Trans /\ ret[t] \in RET
    BY <1>b, <1>c
  <2>3. status[v] = "ABORTED" \/ Doomed(v)
    BY <1>3 DEF StoreGCAbort, Doomed
  <2> QED
    <3>1. Plain(t)
      BY <1>3, <1>b, <2>1, <2>2, <2>3 DEF StoreGCAbort, Plain, Committing, Finishing,
         OwnAbort, Decided, At, Goto, AbortPC, RET
    <3> QED
      BY <1>a, <3>1, PlainStep
<1>4. ASSUME NEW t \in Trans, NEW v \in Trans, StoreGCCommitted(t, v) PROVE Commitment'
  <2>1. /\ LocalStep(t) /\ UNCHANGED <<status, depends, sem>>
        /\ \A u \in Trans : u # t => idx'[u] = idx[u]
    BY <1>4, <1>b DEF StoreGCCommitted, Dispose, Goto, LocalStep, shared
  <2>2. Committing(t) /\ tgt[t] \in Trans /\ ret[t] \in RET
    BY <1>b, <1>c
  <2>3. Plain(t)
    BY <1>4, <1>b, <2>1, <2>2 DEF StoreGCCommitted, Dispose, Plain, Committing, Finishing, OwnAbort,
       Decided, At, Goto, AbortPC, RET
  <2> QED
    BY <1>a, <2>3, PlainStep
<1>5. ASSUME NEW t \in Trans, NEW v \in Trans, StoreSeePending(t, v) PROVE Commitment'
  <2>1. /\ LocalStep(t) /\ UNCHANGED <<status, depends, sem>>
        /\ \A u \in Trans : u # t => idx'[u] = idx[u]
    BY <1>5, <1>b DEF StoreSeePending, Goto, LocalStep, shared
  <2>2. Committing(t) /\ tgt[t] \in Trans /\ ret[t] \in RET
    BY <1>b, <1>c
  <2>3. Plain(t)
    BY <1>5, <1>b, <2>1, <2>2 DEF StoreSeePending, Plain, Committing, Finishing, OwnAbort,
       Decided, At, Goto, AbortPC, RET
  <2> QED
    BY <1>a, <2>3, PlainStep
<1>6. ASSUME NEW t \in Trans, StoreGCDispose(t) PROVE Commitment'
  <2>1. /\ LocalStep(t) /\ UNCHANGED <<status, depends, sem>>
        /\ \A u \in Trans : u # t => idx'[u] = idx[u]
    BY <1>6, <1>b DEF StoreGCDispose, Dispose, Goto, LocalStep, shared
  <2>2. Committing(t) /\ tgt[t] \in Trans /\ ret[t] \in RET
    BY <1>b, <1>c
  <2>3. Plain(t)
    BY <1>6, <1>b, <2>1, <2>2 DEF StoreGCDispose, Dispose, Plain, Committing, Finishing, OwnAbort,
       Decided, At, Goto, AbortPC, RET
  <2> QED
    BY <1>a, <2>3, PlainStep
<1>7. ASSUME NEW t \in Trans, StoreNewVersion(t) PROVE Commitment'
  <2>1. /\ LocalStep(t) /\ UNCHANGED <<status, depends, sem>>
        /\ \A u \in Trans : u # t => idx'[u] = idx[u]
    BY <1>7, <1>b DEF StoreNewVersion, Goto, LocalStep, shared
  <2>2. Committing(t) /\ tgt[t] \in Trans /\ ret[t] \in RET
    BY <1>b, <1>c
  <2>3. Plain(t)
    BY <1>7, <1>b, <2>1, <2>2 DEF StoreNewVersion, Plain, Committing, Finishing, OwnAbort,
       Decided, At, Goto, AbortPC, RET
  <2> QED
    BY <1>a, <2>3, PlainStep
<1>8. ASSUME NEW t \in Trans, StoreReplaceVersion(t) PROVE Commitment'
  <2>1. /\ LocalStep(t) /\ UNCHANGED <<status, depends, sem>>
        /\ \A u \in Trans : u # t => idx'[u] = idx[u]
    BY <1>8, <1>b DEF StoreReplaceVersion, Goto, LocalStep, shared
  <2>2. Committing(t) /\ tgt[t] \in Trans /\ ret[t] \in RET
    BY <1>b, <1>c
  <2>3. Plain(t)
    BY <1>8, <1>b, <2>1, <2>2 DEF StoreReplaceVersion, Plain, Committing, Finishing, OwnAbort,
       Decided, At, Goto, AbortPC, RET
  <2> QED
    BY <1>a, <2>3, PlainStep
<1>9. ASSUME NEW t \in Trans, StoreAbortSelf(t) PROVE Commitment'
  <2>1. /\ LocalStep(t) /\ UNCHANGED <<status, depends, sem>>
        /\ \A u \in Trans : u # t => idx'[u] = idx[u]
    BY <1>9, <1>b DEF StoreAbortSelf, Goto, LocalStep, shared
  <2>2. Committing(t) /\ tgt[t] \in Trans /\ ret[t] \in RET
    BY <1>b, <1>c
  <2>3. Plain(t)
    BY <1>9, <1>b, <2>1, <2>2 DEF StoreAbortSelf, Plain, Committing, Finishing, OwnAbort,
       Decided, At, Goto, AbortPC, RET
  <2> QED
    BY <1>a, <2>3, PlainStep
<1>10. ASSUME NEW t \in Trans, StoreRefuse(t) PROVE Commitment'
  <2>1. /\ LocalStep(t) /\ UNCHANGED <<status, depends, sem>>
        /\ \A u \in Trans : u # t => idx'[u] = idx[u]
    BY <1>10, <1>b DEF StoreRefuse, Goto, LocalStep, shared
  <2>2. Committing(t) /\ tgt[t] \in Trans /\ ret[t] \in RET
    BY <1>b, <1>c
  <2>3. Plain(t)
    BY <1>10, <1>b, <2>1, <2>2 DEF StoreRefuse, Plain, Committing, Finishing, OwnAbort,
       Decided, At, Goto, AbortPC, RET
  <2> QED
    BY <1>a, <2>3, PlainStep
<1>11. ASSUME NEW t \in Trans, trans_add_dependency(t) PROVE Commitment'
  <2>1. /\ LocalStep(t) /\ UNCHANGED <<status, sem, idx, ret>>
        /\ pc[t] = "dep" /\ pc'[t] = "store"
    BY <1>11, <1>b DEF trans_add_dependency, At, Goto, LocalStep
  <2>2. /\ \A u \in Trans : u # t => depends'[u] = depends[u]
        /\ depends'[t] = Append(depends[t], tgt[t])
    BY <1>11, <1>a DEF trans_add_dependency, TypeOK, SharedTypeOK
  <2>3. Deps(t) \subseteq Deps(t)'
    <3>1. depends[t] \in Seq(Trans) /\ tgt[t] \in Trans
      BY <1>a, <1>b, DepsType
    <3> QED
      BY <2>2, <3>1 DEF Deps
  <2>4. Committing(t) /\ status[t] = "PENDING"
    BY <1>c, <2>1 DEF Committing
  <2>5. ~Decided(t) /\ ~Decided(t)' /\ ~Resolved(t)
    BY <2>1, <2>4 DEF Decided, Resolved
  <2>6. Quiet(t)
    BY <2>1, <2>2, <2>3, <2>5 DEF Quiet
  <2>7. Committing(t)'
    BY <2>1, <2>4, <2>5 DEF Committing, Finishing, AbortPC
  <2> QED
    BY <1>a, <2>6, <2>7, QuietStep
<1>12. ASSUME NEW t \in Trans, trans_add_listed(t) PROVE Commitment'
  <2>1. /\ LocalStep(t) /\ UNCHANGED <<status, depends, sem>>
        /\ \A u \in Trans : u # t => idx'[u] = idx[u]
    BY <1>12, <1>b DEF trans_add_listed, Goto, LocalStep, shared
  <2>2. Committing(t) /\ tgt[t] \in Trans /\ ret[t] \in RET
    BY <1>b, <1>c
  <2>3. Plain(t)
    BY <1>12, <1>b, <2>1, <2>2 DEF trans_add_listed, Plain, Committing, Finishing, OwnAbort,
       Decided, At, Goto, AbortPC, RET
  <2> QED
    BY <1>a, <2>3, PlainStep
<1>13. ASSUME NEW t \in Trans, CommitBegin(t) PROVE Commitment'
  <2>1. /\ LocalStep(t) /\ UNCHANGED <<status, depends, sem>>
        /\ \A u \in Trans : u # t => idx'[u] = idx[u]
    BY <1>13, <1>b DEF CommitBegin, Goto, LocalStep, shared
  <2>2. Committing(t) /\ tgt[t] \in Trans /\ ret[t] \in RET
    BY <1>b, <1>c
  <2>3. Awaited(t)'
    BY <1>13, <1>b DEF CommitBegin, Awaited
  <2> QED
    <3>1. Plain(t)
      BY <1>13, <1>b, <2>1, <2>2, <2>3 DEF CommitBegin, Plain, Committing, Finishing,
         OwnAbort, Decided, At, Goto, AbortPC, RET
    <3> QED
      BY <1>a, <3>1, PlainStep
<1>14. ASSUME NEW t \in Trans, CommitSeeFinal(t) PROVE Commitment'
  <2>1. /\ LocalStep(t) /\ UNCHANGED <<status, depends, sem>>
        /\ \A u \in Trans : u # t => idx'[u] = idx[u]
    BY <1>14, <1>b DEF CommitSeeFinal, Advance, Goto, LocalStep, shared
  <2>2. Committing(t) /\ tgt[t] \in Trans /\ ret[t] \in RET
    BY <1>b, <1>c
  <2>3. pc[t] = "c_read" /\ pc'[t] = "c_read"
    BY <1>14, <1>b DEF CommitSeeFinal, Advance, At, Goto
  <2>4. \A x \in Trans : (Decided(x)' <=> Decided(x)) /\ (Resolved(x)' <=> Resolved(x))
    BY <2>1, <2>3 DEF LocalStep, Decided, Resolved
  <2>5. Cursor(t) \in Trans /\ Resolved(Cursor(t))
    <3>1. Cursor(t) \in Trans
      BY <1>14, <1>a, CursorType DEF CommitSeeFinal, AtDependee
    <3>2. status[Cursor(t)] \in TRANS_STATUS
      BY <1>a, <3>1 DEF TypeOK, SharedTypeOK
    <3> QED
      BY <1>14, <3>1, <3>2 DEF CommitSeeFinal, TRANS_STATUS, Resolved, Decided
  <2>6. Awaited(t)'
    <3>1. Awaited(t) /\ idx'[t] = idx[t] + 1 /\ depends' = depends /\ idx[t] \in Nat
      BY <1>14, <1>b, <2>2, <2>3 DEF CommitSeeFinal, Advance, Committing, shared
    <3> SUFFICES ASSUME NEW i \in 1 .. Len(depends[t]), i < idx[t] + 1
                 PROVE  Resolved(depends[t][i])
      BY <1>a, <2>4, <3>1, DepsType DEF Awaited
    <3>2. CASE i < idx[t]
      BY <3>1, <3>2 DEF Awaited
    <3>3. CASE i = idx[t]
      BY <2>5, <3>3 DEF Cursor
    <3> QED
      BY <1>a, <3>1, <3>2, <3>3, DepsType
  <2> QED
    <3>1. Plain(t)
      BY <1>14, <1>b, <2>1, <2>2, <2>3, <2>6 DEF CommitSeeFinal, Advance, Plain, Committing, Finishing,
         OwnAbort, Decided, At, Goto, AbortPC, RET
    <3> QED
      BY <1>a, <3>1, PlainStep
<1>15. ASSUME NEW t \in Trans, CommitSeePending(t) PROVE Commitment'
  <2>1. /\ LocalStep(t) /\ UNCHANGED <<status, depends, sem>>
        /\ \A u \in Trans : u # t => idx'[u] = idx[u]
    BY <1>15, <1>b DEF CommitSeePending, AtDependee, Goto, LocalStep, shared
  <2>2. Committing(t) /\ tgt[t] \in Trans /\ ret[t] \in RET
    BY <1>b, <1>c
  <2>3. pc[t] = "c_read" /\ pc'[t] = "c_inc"
    BY <1>15, <1>b DEF CommitSeePending, AtDependee, At, Goto
  <2>4. \A x \in Trans : (Decided(x)' <=> Decided(x)) /\ (Resolved(x)' <=> Resolved(x))
    BY <2>1, <2>3 DEF LocalStep, Decided, Resolved
  <2>5. Awaited(t)'
    <3>1. Awaited(t) /\ idx' = idx /\ depends' = depends
      BY <1>15, <2>2, <2>3 DEF CommitSeePending, Committing, shared
    <3> QED
      BY <1>a, <2>4, <3>1, DepsType DEF Awaited
  <2> QED
    <3>1. Plain(t)
      BY <1>15, <1>b, <2>1, <2>2, <2>3, <2>5 DEF CommitSeePending, AtDependee, Plain, Committing, Finishing,
         OwnAbort, Decided, At, Goto, AbortPC, RET
    <3> QED
      BY <1>a, <3>1, PlainStep
<1>16. ASSUME NEW t \in Trans, CommitWaitsDone(t) PROVE Commitment'
  <2>1. /\ LocalStep(t) /\ UNCHANGED <<status, depends, sem>>
        /\ \A u \in Trans : u # t => idx'[u] = idx[u]
    BY <1>16, <1>b DEF CommitWaitsDone, Goto, LocalStep, shared
  <2>2. Committing(t) /\ tgt[t] \in Trans /\ ret[t] \in RET
    BY <1>b, <1>c
  <2>3. pc[t] = "c_read" /\ pc'[t] = "c_chk"
    BY <1>16, <1>b DEF CommitWaitsDone, At, Goto
  <2>4. \A x \in Trans : (Decided(x)' <=> Decided(x)) /\ (Resolved(x)' <=> Resolved(x))
    BY <2>1, <2>3 DEF LocalStep, Decided, Resolved
  <2>5. Checked(t)'
    <3>1. /\ Awaited(t) /\ idx'[t] = 1 /\ depends' = depends /\ idx[t] \in Nat
          /\ idx[t] > Len(depends[t])
      BY <1>16, <1>a, <1>b, <2>2, <2>3, DepsType
         DEF CommitWaitsDone, AtDependee, Committing, shared
    <3> QED
      BY <1>a, <2>4, <3>1, DepsType DEF Awaited, Checked
  <2> QED
    <3>1. Plain(t)
      BY <1>16, <1>b, <2>1, <2>2, <2>3, <2>5 DEF CommitWaitsDone, Plain, Committing, Finishing,
         OwnAbort, Decided, At, Goto, AbortPC, RET
    <3> QED
      BY <1>a, <3>1, PlainStep
<1>17. ASSUME NEW t \in Trans, CommitIncRead(t) PROVE Commitment'
  <2>1. /\ LocalStep(t) /\ UNCHANGED <<status, depends, sem>>
        /\ \A u \in Trans : u # t => idx'[u] = idx[u]
    BY <1>17, <1>b DEF CommitIncRead, Goto, LocalStep, shared
  <2>2. Committing(t) /\ tgt[t] \in Trans /\ ret[t] \in RET
    BY <1>b, <1>c
  <2>3. pc[t] = "c_inc" /\ pc'[t] = "c_add"
    BY <1>17, <1>b DEF CommitIncRead, At, Goto
  <2>4. \A x \in Trans : (Decided(x)' <=> Decided(x)) /\ (Resolved(x)' <=> Resolved(x))
    BY <2>1, <2>3 DEF LocalStep, Decided, Resolved
  <2>5. Awaited(t)'
    <3>1. Awaited(t) /\ idx' = idx /\ depends' = depends
      BY <1>17, <2>2, <2>3 DEF CommitIncRead, Committing, shared
    <3> QED
      BY <1>a, <2>4, <3>1, DepsType DEF Awaited
  <2> QED
    <3>1. Plain(t)
      BY <1>17, <1>b, <2>1, <2>2, <2>3, <2>5 DEF CommitIncRead, Plain, Committing, Finishing,
         OwnAbort, Decided, At, Goto, AbortPC, RET
    <3> QED
      BY <1>a, <3>1, PlainStep
<1>18. ASSUME NEW t \in Trans, CommitIncWrite(t) PROVE Commitment'
  <2>1. /\ LocalStep(t) /\ UNCHANGED <<status, depends, sem>>
        /\ \A u \in Trans : u # t => idx'[u] = idx[u]
    BY <1>18, <1>b DEF CommitIncWrite, Goto, LocalStep, shared
  <2>2. Committing(t) /\ tgt[t] \in Trans /\ ret[t] \in RET
    BY <1>b, <1>c
  <2>3. pc[t] = "c_add" /\ pc'[t] = "c_P"
    BY <1>18, <1>b DEF CommitIncWrite, At, Goto
  <2>4. \A x \in Trans : (Decided(x)' <=> Decided(x)) /\ (Resolved(x)' <=> Resolved(x))
    BY <2>1, <2>3 DEF LocalStep, Decided, Resolved
  <2>5. Awaited(t)'
    <3>1. Awaited(t) /\ idx' = idx /\ depends' = depends
      BY <1>18, <2>2, <2>3 DEF CommitIncWrite, Committing, shared
    <3> QED
      BY <1>a, <2>4, <3>1, DepsType DEF Awaited
  <2> QED
    <3>1. Plain(t)
      BY <1>18, <1>b, <2>1, <2>2, <2>3, <2>5 DEF CommitIncWrite, Plain, Committing, Finishing,
         OwnAbort, Decided, At, Goto, AbortPC, RET
    <3> QED
      BY <1>a, <3>1, PlainStep
<1>19. ASSUME NEW t \in Trans, CommitP(t) PROVE Commitment'
  <2>0. Cursor(t) \in Trans /\ Committing(Cursor(t))
    BY <1>19, <1>a, <1>c, CursorType DEF CommitP, At
  <2>7. \A x \in Trans : sem'[x] > 0 => sem[x] > 0
    <3>1. sem \in [Trans -> Nat] /\ sem' = [sem EXCEPT ![Cursor(t)] = @ - 1]
      BY <1>19, <1>a DEF CommitP, TypeOK, SharedTypeOK
    <3> QED
      BY <2>0, <3>1
  <2>1. /\ LocalStep(t) /\ UNCHANGED <<status, depends>>
        /\ \A u \in Trans : u # t => idx'[u] = idx[u]
    BY <1>19, <1>b DEF CommitP, Goto, LocalStep, shared
  <2>2. Committing(t) /\ tgt[t] \in Trans /\ ret[t] \in RET
    BY <1>b, <1>c
  <2>3. pc[t] = "c_P" /\ pc'[t] = "c_read"
    BY <1>19, <1>b DEF CommitP, At, Goto
  <2>4. \A x \in Trans : (Decided(x)' <=> Decided(x)) /\ (Resolved(x)' <=> Resolved(x))
    BY <2>1, <2>3 DEF LocalStep, Decided, Resolved
  <2>5. Resolved(Cursor(t))
    BY <1>19, <2>0 DEF CommitP, Committing
  <2>6. Awaited(t)'
    <3>1. Awaited(t) /\ idx'[t] = idx[t] + 1 /\ depends' = depends /\ idx[t] \in Nat
      BY <1>19, <1>b, <2>2, <2>3 DEF CommitP, Committing
    <3> SUFFICES ASSUME NEW i \in 1 .. Len(depends[t]), i < idx[t] + 1
                 PROVE  Resolved(depends[t][i])
      BY <1>a, <2>4, <3>1, DepsType DEF Awaited
    <3>2. CASE i < idx[t]
      BY <3>1, <3>2 DEF Awaited
    <3>3. CASE i = idx[t]
      BY <2>0, <2>5, <3>3 DEF Cursor
    <3> QED
      BY <1>a, <3>1, <3>2, <3>3, DepsType
  <2> QED
    <3>1. Plain(t)
      BY <1>19, <1>b, <2>1, <2>2, <2>3, <2>6, <2>7 DEF CommitP, Plain, Committing, Finishing,
         OwnAbort, Decided, At, Goto, AbortPC, RET
    <3> QED
      BY <1>a, <3>1, PlainStep
<1>20. ASSUME NEW t \in Trans, CommitFoundAborted(t) PROVE Commitment'
  <2>1. /\ LocalStep(t) /\ UNCHANGED <<status, depends, sem>>
        /\ \A u \in Trans : u # t => idx'[u] = idx[u]
    BY <1>20, <1>b DEF CommitFoundAborted, Goto, LocalStep, shared
  <2>2. Committing(t) /\ tgt[t] \in Trans /\ ret[t] \in RET
    BY <1>b, <1>c
  <2>3. Plain(t)
    BY <1>20, <1>b, <2>1, <2>2 DEF CommitFoundAborted, Plain, Committing, Finishing, OwnAbort,
       Decided, At, Goto, AbortPC, RET
  <2> QED
    BY <1>a, <2>3, PlainStep
<1>21. ASSUME NEW t \in Trans, CommitCheckNext(t) PROVE Commitment'
  <2>1. /\ LocalStep(t) /\ UNCHANGED <<status, depends, sem>>
        /\ \A u \in Trans : u # t => idx'[u] = idx[u]
    BY <1>21, <1>b DEF CommitCheckNext, Advance, Goto, LocalStep, shared
  <2>2. Committing(t) /\ tgt[t] \in Trans /\ ret[t] \in RET
    BY <1>b, <1>c
  <2>3. pc[t] = "c_chk" /\ pc'[t] = "c_chk"
    BY <1>21, <1>b DEF CommitCheckNext, Advance, At, Goto
  <2>4. \A x \in Trans : (Decided(x)' <=> Decided(x)) /\ (Resolved(x)' <=> Resolved(x))
    BY <2>1, <2>3 DEF LocalStep, Decided, Resolved
  <2>5. Cursor(t) \in Trans /\ Decided(Cursor(t))
    <3>1. Cursor(t) \in Trans /\ idx[t] \in 1 .. Len(depends[t])
      BY <1>21, <1>a, CursorType DEF CommitCheckNext, AtDependee
    <3>2. Resolved(Cursor(t))
      BY <2>2, <2>3, <3>1 DEF Committing, Checked, Cursor
    <3> QED
      BY <1>21, <3>1, <3>2 DEF CommitCheckNext, Resolved
  <2>6. Checked(t)'
    <3>1. Checked(t) /\ idx'[t] = idx[t] + 1 /\ depends' = depends /\ idx[t] \in Nat
      BY <1>21, <1>b, <2>2, <2>3 DEF CommitCheckNext, Advance, Committing, shared
    <3> QED
      BY <1>a, <2>4, <2>5, <3>1, DepsType DEF Checked, Cursor
  <2> QED
    <3>1. Plain(t)
      BY <1>21, <1>b, <2>1, <2>2, <2>3, <2>6 DEF CommitCheckNext, Advance, Plain, Committing, Finishing,
         OwnAbort, Decided, At, Goto, AbortPC, RET
    <3> QED
      BY <1>a, <3>1, PlainStep
<1>22. ASSUME NEW t \in Trans, CommitDecide(t) PROVE Commitment'
  <2>1. /\ LocalStep(t) /\ UNCHANGED <<status, depends, sem>>
        /\ \A u \in Trans : u # t => idx'[u] = idx[u]
    BY <1>22, <1>b DEF CommitDecide, Goto, LocalStep, shared
  <2>2. Committing(t) /\ tgt[t] \in Trans /\ ret[t] \in RET
    BY <1>b, <1>c
  <2>3. /\ pc[t] = "c_chk" /\ pc'[t] = "c_cnt" /\ UNCHANGED <<ret, tgt>>
        /\ idx[t] \in Nat /\ idx[t] > Len(depends[t])
    BY <1>22, <1>a, <1>b, DepsType DEF CommitDecide, At, Goto, AtDependee
  <2>4. \A x \in Trans : Decided(x) => Decided(x)'
    BY <2>1, <2>3 DEF LocalStep, Decided
  <2>5. Deps(t)' = Deps(t) /\ \A d \in Deps(t) : d \in Trans /\ Decided(d)
    BY <1>a, <2>1, <2>2, <2>3, DepsType DEF Committing, Checked, Deps
  <2>6. status[t] # "ABORTED"
    <3>1. \A d \in Deps(t) : status[d] # "ABORTED"
      BY <1>c, <2>5 DEF Committing
    <3> QED
      BY <2>2, <2>3, <3>1 DEF Committing, OwnAbort, Doomed
  <2>7. Quiet(t)
    BY <2>1, <2>3, <2>4, <2>5 DEF Quiet
  <2>8. Decided(t)'
    BY <2>3 DEF Decided
  <2>9. Committing(t)'
    BY <2>1, <2>2, <2>3, <2>4, <2>5, <2>6, <2>8 DEF Committing, Finishing, Resolved, AbortPC
  <2> QED
    BY <1>a, <2>7, <2>9, QuietStep
<1>23. ASSUME NEW t \in Trans, CommitReadWaitcnt(t) PROVE Commitment'
  <2>1. /\ LocalStep(t) /\ UNCHANGED <<status, depends, sem>>
        /\ \A u \in Trans : u # t => idx'[u] = idx[u]
    BY <1>23, <1>b DEF CommitReadWaitcnt, Goto, LocalStep, shared
  <2>2. Committing(t) /\ tgt[t] \in Trans /\ ret[t] \in RET
    BY <1>b, <1>c
  <2>3. Plain(t)
    BY <1>23, <1>b, <2>1, <2>2 DEF CommitReadWaitcnt, Plain, Committing, Finishing, OwnAbort,
       Decided, At, Goto, AbortPC, RET
  <2> QED
    BY <1>a, <2>3, PlainStep
<1>24. ASSUME NEW t \in Trans, CommitV(t) PROVE Commitment'
  <2>1. /\ LocalStep(t) /\ UNCHANGED <<status, depends>>
        /\ \A u \in Trans : u # t => idx'[u] = idx[u]
    BY <1>24, <1>b DEF CommitV, Goto, LocalStep, shared
  <2>2. Committing(t) /\ tgt[t] \in Trans /\ ret[t] \in RET
    BY <1>b, <1>c
  <2>3. pc[t] = "c_V" /\ UNCHANGED <<pc, ret, tgt>> /\ Resolved(t)
    BY <1>24 DEF CommitV, At, Resolved, Decided
  <2>4. \A x \in Trans : sem'[x] > 0 => sem[x] > 0 \/ Resolved(x)
    BY <1>24, <1>a, <2>3 DEF CommitV, TypeOK, SharedTypeOK
  <2>5. Plain(t)
    BY <2>1, <2>2, <2>3, <2>4 DEF Plain, Committing, Finishing, OwnAbort, Decided, AbortPC
  <2> QED
    BY <1>a, <2>5, PlainStep
<1>25. ASSUME NEW t \in Trans, CommitReleased(t) PROVE Commitment'
  <2>1. /\ LocalStep(t) /\ UNCHANGED <<status, depends, sem>>
        /\ \A u \in Trans : u # t => idx'[u] = idx[u]
    BY <1>25, <1>b DEF CommitReleased, Goto, LocalStep, shared
  <2>2. Committing(t) /\ tgt[t] \in Trans /\ ret[t] \in RET
    BY <1>b, <1>c
  <2>3. Plain(t)
    BY <1>25, <1>b, <2>1, <2>2 DEF CommitReleased, Plain, Committing, Finishing, OwnAbort,
       Decided, At, Goto, AbortPC, RET
  <2> QED
    BY <1>a, <2>3, PlainStep
<1>26. ASSUME NEW t \in Trans, CommitSet(t) PROVE Commitment'
  <2>1. /\ LocalStep(t) /\ UNCHANGED <<depends, sem, idx>>
        /\ pc[t] = "c_set" /\ pc'[t] = "u_dec" /\ ret'[t] = "end"
    BY <1>26, <1>b DEF CommitSet, At, Goto, LocalStep
  <2>2. status'[t] = "COMMITTED" /\ \A u \in Trans : u # t => status'[u] = status[u]
    BY <1>26, <1>a DEF CommitSet, TypeOK, SharedTypeOK
  <2>3. Committing(t) /\ Decided(t)
    BY <1>c, <2>1 DEF Decided
  <2>4. \A x \in Trans : Decided(x) => Decided(x)'
    BY <2>1, <2>2 DEF LocalStep, Decided
  <2>5. Deps(t)' = Deps(t)
    BY <2>1 DEF Deps
  <2>6. Quiet(t)
    BY <2>1, <2>2, <2>3, <2>4, <2>5 DEF Quiet, Committing
  <2>7. \A d \in Deps(t) : Decided(d)'
    BY <1>a, <2>3, <2>4, DepsType DEF Committing
  <2>8. Resolved(t)' /\ Finishing(t)'
    BY <2>1, <2>2 DEF Resolved, Decided, Finishing
  <2>9. Committing(t)'
    BY <2>1, <2>2, <2>5, <2>7, <2>8 DEF Committing, AbortPC
  <2> QED
    BY <1>a, <2>6, <2>9, QuietStep
<1>27. ASSUME NEW t \in Trans, Disconnect(t) PROVE Commitment'
  <2>1. /\ LocalStep(t) /\ UNCHANGED <<status, depends, sem>>
        /\ \A u \in Trans : u # t => idx'[u] = idx[u]
    BY <1>27, <1>b DEF Disconnect, Goto, LocalStep, shared
  <2>2. Committing(t) /\ tgt[t] \in Trans /\ ret[t] \in RET
    BY <1>b, <1>c
  <2>3. Plain(t)
    BY <1>27, <1>b, <2>1, <2>2 DEF Disconnect, Plain, Committing, Finishing, OwnAbort,
       Decided, At, Goto, AbortPC, RET
  <2> QED
    BY <1>a, <2>3, PlainStep
<1>28. ASSUME NEW t \in Trans, AbortTest(t) PROVE Commitment'
  <2>1. /\ LocalStep(t) /\ UNCHANGED <<status, depends, sem>>
        /\ \A u \in Trans : u # t => idx'[u] = idx[u]
    BY <1>28, <1>b DEF AbortTest, Goto, LocalStep, shared
  <2>2. Committing(t) /\ tgt[t] \in Trans /\ ret[t] \in RET
    BY <1>b, <1>c
  <2>3. status[tgt[t]] \in {"PENDING", "ABORTED"}
    <3>1. status[tgt[t]] \in TRANS_STATUS
      BY <1>a, <2>2 DEF TypeOK, SharedTypeOK
    <3> QED
      BY <1>28, <1>a, <3>1, AbortUndecided DEF AbortTest, At, Decided, TRANS_STATUS
  <2>4. /\ pc[t] = "a_chk" /\ UNCHANGED <<ret, tgt>>
        /\ pc'[t] \in {"a_set", "a_cnt"}
        /\ pc'[t] = "a_cnt" => status[tgt[t]] = "ABORTED"
    BY <1>28, <1>b, <2>3 DEF AbortTest, At, Goto
  <2>5. Plain(t)
    BY <2>1, <2>2, <2>4 DEF Plain, Committing, Finishing, OwnAbort, Decided, AbortPC
  <2> QED
    BY <1>a, <2>5, PlainStep
<1>29. ASSUME NEW t \in Trans, AbortSet(t) PROVE Commitment'
  <2>1. /\ LocalStep(t) /\ UNCHANGED <<depends, sem, idx, ret, tgt>>
        /\ pc[t] = "a_set" /\ pc'[t] = "a_cnt"
    BY <1>29, <1>b DEF AbortSet, At, Goto, LocalStep
  <2>2. tgt[t] \in Trans /\ ~Decided(tgt[t]) /\ pc[tgt[t]] # "none" /\ pc[tgt[t]] # "dep"
    <3>1. tgt[t] \in Trans /\ ~Decided(tgt[t])
      BY <1>a, <2>1, AbortUndecided
    <3>2. pc[tgt[t]] # "none"
      BY <1>a, <2>1, <3>1 DEF Shape, Existing
    <3>3. pc[tgt[t]] # "dep"
      BY <1>a, <2>1, <3>1 DEF Shape, Calls, InStore, CallPC, AbortPC
    <3> QED
      BY <3>1, <3>2, <3>3
  <2>3. /\ status'[tgt[t]] = "ABORTED"
        /\ \A u \in Trans : u # tgt[t] => status'[u] = status[u]
    BY <1>29, <1>a, <2>2 DEF AbortSet, TypeOK, SharedTypeOK
  <2>4. \A x \in Trans : /\ Decided(x)' <=> Decided(x)
                         /\ status[x] = "ABORTED" => status'[x] = "ABORTED"
                         /\ Deps(x)' = Deps(x)
    BY <2>1, <2>2, <2>3 DEF LocalStep, Decided, Deps
  <2>5. \A x \in Trans : Resolved(x) => Resolved(x)'
    BY <2>4 DEF Resolved
  <2>6. \A x \in Trans : Doomed(x) => Doomed(x)'
    BY <1>a, <2>4, DepsType DEF Doomed
  <2>7. \A x \in Trans : /\ Finishing(x)' <=> Finishing(x)
                         /\ OwnAbort(x) => OwnAbort(x)'
    BY <2>1 DEF LocalStep, Finishing, OwnAbort
  <2>8. \A x \in Trans : (Awaited(x) => Awaited(x)') /\ (Checked(x) => Checked(x)')
    BY <1>a, <2>1, <2>4, <2>5, DepsType DEF Awaited, Checked
  <2>9. OwnAbort(tgt[t])' \/ Doomed(tgt[t])'
    <3>1. ret[t] \in RET /\ Committing(t) /\ (ret[t] # "gcdisp" => tgt[t] = t)
      BY <1>a, <1>b, <1>c, <2>1 DEF Shape, Calls, AbortPC, RET
    <3>2. CASE ret[t] # "gcdisp"
      BY <2>1, <3>1, <3>2 DEF OwnAbort
    <3>3. CASE ret[t] = "gcdisp"
      <4>1. status[tgt[t]] = "ABORTED" \/ Doomed(tgt[t])
        BY <2>1, <3>1, <3>3 DEF Committing, AbortPC
      <4>2. Committing(tgt[t])
        BY <1>c, <2>2
      <4> QED
        BY <2>1, <2>2, <2>6, <2>7, <4>1, <4>2 DEF Committing
    <3> QED
      BY <3>1, <3>2, <3>3 DEF RET
  <2>10. \A x \in Trans : \A d \in Deps(x) : Decided(d)' <=> Decided(d)
    BY <1>a, <2>4, DepsType
  <2> SUFFICES ASSUME NEW u \in Trans PROVE Committing(u)'
    BY DEF Commitment
  <2>11. Committing(u) /\ tgt[u] \in Trans /\ tgt'[u] = tgt[u] /\ ret'[u] = ret[u]
    BY <1>b, <1>c, <2>1
  <2>12. /\ sem'[u] > 0 => Resolved(u)'
         /\ pc'[u] \in {"c_read", "c_inc", "c_add", "c_P"} => Awaited(u)'
         /\ pc'[u] = "c_chk" => Checked(u)'
    BY <2>1, <2>5, <2>8, <2>11 DEF Committing, LocalStep
  <2>13. CASE u = tgt[t]
    <3>1. ~Decided(u)' /\ status'[u] = "ABORTED"
      BY <2>2, <2>3, <2>4, <2>13
    <3>2. pc'[u] # "dep" /\ pc'[u] # "none"
      BY <2>1, <2>2, <2>13 DEF LocalStep
    <3>3. /\ pc'[u] \in AbortPC /\ ret'[u] = "gcdisp" =>
               status'[tgt'[u]] = "ABORTED" \/ Doomed(tgt[u])'
          /\ pc'[u] \in {"a_cnt", "a_V"} => status'[tgt'[u]] = "ABORTED"
      BY <2>1, <2>3, <2>4, <2>6, <2>11 DEF Committing, LocalStep, AbortPC
    <3> QED
      BY <2>1, <2>9, <2>11, <2>12, <2>13, <3>1, <3>2, <3>3 DEF Committing
  <2>14. CASE u # tgt[t]
    <3>1. status'[u] = status[u]
      BY <2>3, <2>14
    <3>2. /\ pc'[u] \in AbortPC /\ ret'[u] = "gcdisp" =>
               status'[tgt'[u]] = "ABORTED" \/ Doomed(tgt[u])'
          /\ pc'[u] \in {"a_cnt", "a_V"} => status'[tgt'[u]] = "ABORTED"
          /\ pc'[u] = "dep" \/ pc'[u] = "none" => pc[u] = pc'[u]
      BY <2>1, <2>3, <2>4, <2>6, <2>11 DEF Committing, LocalStep, AbortPC
    <3> QED
      BY <2>4, <2>6, <2>7, <2>10, <2>11, <2>12, <3>1, <3>2 DEF Committing
  <2> QED
    BY <2>13, <2>14
<1>30. ASSUME NEW t \in Trans, AbortReadWaitcnt(t) PROVE Commitment'
  <2>1. /\ LocalStep(t) /\ UNCHANGED <<status, depends, sem>>
        /\ \A u \in Trans : u # t => idx'[u] = idx[u]
    BY <1>30, <1>b DEF AbortReadWaitcnt, Goto, LocalStep, shared
  <2>2. Committing(t) /\ tgt[t] \in Trans /\ ret[t] \in RET
    BY <1>b, <1>c
  <2>3. Plain(t)
    BY <1>30, <1>b, <2>1, <2>2 DEF AbortReadWaitcnt, Plain, Committing, Finishing, OwnAbort,
       Decided, At, Goto, AbortPC, RET
  <2> QED
    BY <1>a, <2>3, PlainStep
<1>31. ASSUME NEW t \in Trans, AbortV(t) PROVE Commitment'
  <2>1. /\ LocalStep(t) /\ UNCHANGED <<status, depends>>
        /\ \A u \in Trans : u # t => idx'[u] = idx[u]
    BY <1>31, <1>b DEF AbortV, Goto, LocalStep, shared
  <2>2. Committing(t) /\ tgt[t] \in Trans /\ ret[t] \in RET
    BY <1>b, <1>c
  <2>3. pc[t] = "a_V" /\ UNCHANGED <<pc, ret, tgt>> /\ status[tgt[t]] = "ABORTED"
    BY <1>31, <2>2 DEF AbortV, At, Committing
  <2>4. \A x \in Trans : sem'[x] > 0 => sem[x] > 0 \/ Resolved(x)
    <3>1. sem \in [Trans -> Nat] /\ sem' = [sem EXCEPT ![tgt[t]] = @ + 1]
      BY <1>31, <1>a DEF AbortV, TypeOK, SharedTypeOK
    <3>2. \A x \in Trans : x # tgt[t] => sem'[x] = sem[x]
      BY <2>2, <3>1
    <3> QED
      BY <2>3, <3>2 DEF Resolved
  <2>5. Plain(t)
    BY <2>1, <2>2, <2>3, <2>4 DEF Plain, Committing, Finishing, OwnAbort, Decided, AbortPC
  <2> QED
    BY <1>a, <2>5, PlainStep
<1>32. ASSUME NEW t \in Trans, AbortReleased(t) PROVE Commitment'
  <2>1. /\ LocalStep(t) /\ UNCHANGED <<status, depends, sem>>
        /\ \A u \in Trans : u # t => idx'[u] = idx[u]
    BY <1>32, <1>b DEF AbortReleased, Goto, LocalStep, shared
  <2>2. Committing(t) /\ tgt[t] \in Trans /\ ret[t] \in RET
    BY <1>b, <1>c
  <2>3. status[tgt[t]] = "ABORTED" /\ (ret[t] = "end" => tgt[t] = t)
    BY <1>32, <1>a, <2>2 DEF AbortReleased, At, Committing, Shape, Calls
  <2> QED
    <3>1. Plain(t)
      BY <1>32, <1>b, <2>1, <2>2, <2>3 DEF AbortReleased, Plain, Committing, Finishing,
         OwnAbort, Decided, At, Goto, AbortPC, RET
    <3> QED
      BY <1>a, <3>1, PlainStep
<1>33. ASSUME NEW t \in Trans, UnrefDec(t) PROVE Commitment'
  <2>1. /\ LocalStep(t) /\ UNCHANGED <<status, depends, sem>>
        /\ \A u \in Trans : u # t => idx'[u] = idx[u]
    BY <1>33, <1>b DEF UnrefDec, Goto, LocalStep, shared
  <2>2. Committing(t) /\ tgt[t] \in Trans /\ ret[t] \in RET
    BY <1>b, <1>c
  <2>3. Plain(t)
    BY <1>33, <1>b, <2>1, <2>2 DEF UnrefDec, Plain, Committing, Finishing, OwnAbort,
       Decided, At, Goto, AbortPC, RET
  <2> QED
    BY <1>a, <2>3, PlainStep
<1>34. ASSUME NEW t \in Trans, UnrefKeep(t) PROVE Commitment'
  <2>1. /\ LocalStep(t) /\ UNCHANGED <<status, depends, sem>>
        /\ \A u \in Trans : u # t => idx'[u] = idx[u]
    BY <1>34, <1>b DEF UnrefKeep, Return, Goto, LocalStep, shared
  <2>2. Committing(t) /\ tgt[t] \in Trans /\ ret[t] \in RET
    BY <1>b, <1>c
  <2>3. Plain(t)
    BY <1>34, <1>b, <2>1, <2>2 DEF UnrefKeep, Return, Plain, Committing, Finishing, OwnAbort,
       Decided, At, Goto, AbortPC, RET
  <2> QED
    BY <1>a, <2>3, PlainStep
<1>35. ASSUME NEW t \in Trans, UnrefFree(t) PROVE Commitment'
  <2>1. /\ LocalStep(t) /\ UNCHANGED <<status, idx>> /\ tgt[t] \in Trans
        /\ pc[t] = "u_chk" /\ pc'[t] = ret[t] /\ ret'[t] = "end" /\ ret[t] \in RET
        /\ tgt'[t] \in Trans /\ refcnt[tgt[t]] = 0
    BY <1>35, <1>b DEF UnrefFree, Return, At, Goto, LocalStep
  <2>0. PICK z \in Trans : z = tgt[t]
    BY <2>1
  <2>2. /\ depends'[z] = << >> /\ sem'[z] = 0
        /\ \A u \in Trans : u # z => depends'[u] = depends[u] /\ sem'[u] = sem[u]
    BY <1>35, <1>a, <2>0 DEF UnrefFree, TypeOK, SharedTypeOK
  <2>3. ~Owned(z) /\ ~Pinned(z) /\ ~Listed(z)
    BY <1>a, <2>0, <2>1, UnreferencedAtZero
  <2>4. Finishing(z) /\ pc[z] # "none"
    BY <1>a, <2>0, <2>1, <2>3 DEF Owned, Finishing, Shape, Existing
  <2>5. \A x \in Trans : /\ Decided(x)' <=> Decided(x)
                         /\ Finishing(x)' <=> Finishing(x)
                         /\ OwnAbort(x)' <=> OwnAbort(x)
    BY <2>1 DEF LocalStep, Decided, Finishing, OwnAbort, RET
  <2>6. \A x \in Trans : Resolved(x)' <=> Resolved(x)
    BY <2>1, <2>5 DEF Resolved
  <2>7. /\ Deps(z)' = {}
        /\ \A x \in Trans : x # z => Deps(x)' = Deps(x)
    BY <2>1, <2>2 DEF Deps
  <2>8. \A x \in Trans : x # z /\ Doomed(x) => Doomed(x)'
    BY <2>1, <2>7 DEF Doomed
  <2>9. \A x \in Trans : x # z =>
          (Awaited(x) => Awaited(x)') /\ (Checked(x) => Checked(x)')
    BY <1>a, <2>1, <2>2, <2>5, <2>6, DepsType DEF Awaited, Checked
  <2>10. \A x \in Trans : \A d \in Deps(x) : Decided(d)' <=> Decided(d)
    BY <1>a, <2>5, DepsType
  <2> SUFFICES ASSUME NEW u \in Trans PROVE Committing(u)'
    BY DEF Commitment
  <2>11. Committing(u) /\ tgt[u] \in Trans /\ tgt'[u] \in Trans
    BY <1>b, <1>c, <2>1 DEF LocalStep
  <2>12. /\ pc'[u] \in AbortPC /\ ret'[u] = "gcdisp" =>
              status'[tgt'[u]] = "ABORTED" \/ Doomed(tgt[u])'
         /\ pc'[u] \in {"a_cnt", "a_V"} => status'[tgt'[u]] = "ABORTED"
         /\ pc'[u] = "dep" \/ pc'[u] = "none" => pc[u] = pc'[u]
    <3>1. CASE u = t
      BY <2>1, <3>1 DEF RET, AbortPC
    <3>2. CASE u # t
      <4>1. pc'[u] = pc[u] /\ ret'[u] = ret[u] /\ tgt'[u] = tgt[u]
        BY <2>1, <3>2 DEF LocalStep
      <4>2. pc[u] \in AbortPC /\ ret[u] = "gcdisp" => tgt[u] # z
        BY <2>3 DEF Pinned
      <4> QED
        BY <2>1, <2>8, <2>11, <4>1, <4>2 DEF Committing
    <3> QED
      BY <3>1, <3>2
  <2>13. pc'[u] = pc[u] \/ pc'[u] \in RET
    BY <2>1 DEF LocalStep
  <2>14. CASE u = z
    <3>1. pc[u] \in {"end", "u_dec", "u_chk"}
      BY <2>4, <2>14 DEF Finishing
    <3>2. OwnAbort(u)'
      BY <2>4, <2>5, <2>14 DEF Finishing, OwnAbort
    <3>3. ~(sem'[u] > 0) /\ Deps(u)' = {}
      BY <2>2, <2>7, <2>14
    <3> QED
      BY <2>1, <2>5, <2>11, <2>12, <2>13, <3>1, <3>2, <3>3 DEF Committing, RET
  <2>15. CASE u # z
    BY <2>1, <2>2, <2>5, <2>6, <2>7, <2>8, <2>9, <2>10, <2>11, <2>12, <2>13, <2>15
       DEF Committing, RET
  <2> QED
    BY <2>14, <2>15
<1>36. ASSUME NEW t \in Trans, UnrefUndefined(t) PROVE Commitment'
  <2>1. /\ LocalStep(t) /\ UNCHANGED <<status, depends, sem>>
        /\ \A u \in Trans : u # t => idx'[u] = idx[u]
    BY <1>36, <1>b DEF UnrefUndefined, local, Goto, LocalStep, shared
  <2>2. Committing(t) /\ tgt[t] \in Trans /\ ret[t] \in RET
    BY <1>b, <1>c
  <2>3. Plain(t)
    BY <1>36, <1>b, <2>1, <2>2 DEF UnrefUndefined, local, Plain, Committing, Finishing, OwnAbort,
       Decided, At, Goto, AbortPC, RET
  <2> QED
    BY <1>a, <2>3, PlainStep
<1>37. CASE UNCHANGED vars
  <2>1. UNCHANGED <<status, depends, sem, pc, ret, tgt, idx>>
    BY <1>37 DEF vars, shared, local
  <2>2. \A x \in Trans : /\ Decided(x)' <=> Decided(x)
                         /\ Resolved(x)' <=> Resolved(x)
                         /\ Deps(x)' = Deps(x)
                         /\ Finishing(x)' <=> Finishing(x)
                         /\ OwnAbort(x)' <=> OwnAbort(x)
    BY <2>1 DEF Decided, Resolved, Deps, Finishing, OwnAbort
  <2>3. \A x \in Trans : Doomed(x)' <=> Doomed(x)
    BY <2>1, <2>2 DEF Doomed
  <2>4. \A x \in Trans : (Awaited(x) => Awaited(x)') /\ (Checked(x) => Checked(x)')
    BY <1>a, <2>1, <2>2, DepsType DEF Awaited, Checked
  <2>5. \A x \in Trans : \A d \in Deps(x) : Decided(d) => Decided(d)'
    BY <1>a, <2>2, DepsType
  <2> SUFFICES ASSUME NEW x \in Trans PROVE Committing(x)'
    BY DEF Commitment
  <2> QED
    BY <1>b, <1>c, <2>1, <2>2, <2>3, <2>4, <2>5 DEF Committing
<1> QED
  BY <1>1, <1>2, <1>3, <1>4, <1>5, <1>6, <1>7, <1>8, <1>9, <1>10,
     <1>11, <1>12, <1>13, <1>14, <1>15, <1>16, <1>17, <1>18, <1>19, <1>20,
     <1>21, <1>22, <1>23, <1>24, <1>25, <1>26, <1>27, <1>28, <1>29, <1>30,
     <1>31, <1>32, <1>33, <1>34, <1>35, <1>36, <1>37
     DEF Next, CommitStep, AbortStep, UnrefStep, StoreStep, StoreEnds

(* A step never reaches the abort() in trans_abort.                        *)
LEMMA NoFatalNext == IInv /\ [Next]_vars => NoFatalAbort'
<1> SUFFICES ASSUME IInv, [Next]_vars PROVE NoFatalAbort'
  OBVIOUS
<1>a. TypeOK /\ Shape /\ Commitment /\ NoFatalAbort
  BY DEF IInv
<1> USE <1>a DEF NoFatalAbort
<1>1. ASSUME NEW t \in Trans, trans_create(t) PROVE NoFatalAbort'
  BY <1>1 DEF trans_create
<1>2. ASSUME NEW t \in Trans, StoreEnter(t) PROVE NoFatalAbort'
  BY <1>2 DEF StoreEnter
<1>3. ASSUME NEW t \in Trans, NEW v \in Trans, StoreGCAbort(t, v) PROVE NoFatalAbort'
  BY <1>3 DEF StoreGCAbort
<1>4. ASSUME NEW t \in Trans, NEW v \in Trans, StoreGCCommitted(t, v) PROVE NoFatalAbort'
  BY <1>4 DEF StoreGCCommitted, Dispose
<1>5. ASSUME NEW t \in Trans, NEW v \in Trans, StoreSeePending(t, v) PROVE NoFatalAbort'
  BY <1>5 DEF StoreSeePending
<1>6. ASSUME NEW t \in Trans, StoreGCDispose(t) PROVE NoFatalAbort'
  BY <1>6 DEF StoreGCDispose, Dispose
<1>7. ASSUME NEW t \in Trans, StoreNewVersion(t) PROVE NoFatalAbort'
  BY <1>7 DEF StoreNewVersion
<1>8. ASSUME NEW t \in Trans, StoreReplaceVersion(t) PROVE NoFatalAbort'
  BY <1>8 DEF StoreReplaceVersion
<1>9. ASSUME NEW t \in Trans, StoreAbortSelf(t) PROVE NoFatalAbort'
  BY <1>9 DEF StoreAbortSelf
<1>10. ASSUME NEW t \in Trans, StoreRefuse(t) PROVE NoFatalAbort'
  BY <1>10 DEF StoreRefuse
<1>11. ASSUME NEW t \in Trans, trans_add_dependency(t) PROVE NoFatalAbort'
  BY <1>11 DEF trans_add_dependency
<1>12. ASSUME NEW t \in Trans, trans_add_listed(t) PROVE NoFatalAbort'
  BY <1>12 DEF trans_add_listed
<1>13. ASSUME NEW t \in Trans, CommitBegin(t) PROVE NoFatalAbort'
  BY <1>13 DEF CommitBegin
<1>14. ASSUME NEW t \in Trans, CommitSeeFinal(t) PROVE NoFatalAbort'
  BY <1>14 DEF CommitSeeFinal, Advance
<1>15. ASSUME NEW t \in Trans, CommitSeePending(t) PROVE NoFatalAbort'
  BY <1>15 DEF CommitSeePending, AtDependee
<1>16. ASSUME NEW t \in Trans, CommitWaitsDone(t) PROVE NoFatalAbort'
  BY <1>16 DEF CommitWaitsDone
<1>17. ASSUME NEW t \in Trans, CommitIncRead(t) PROVE NoFatalAbort'
  BY <1>17 DEF CommitIncRead
<1>18. ASSUME NEW t \in Trans, CommitIncWrite(t) PROVE NoFatalAbort'
  BY <1>18 DEF CommitIncWrite
<1>19. ASSUME NEW t \in Trans, CommitP(t) PROVE NoFatalAbort'
  BY <1>19 DEF CommitP
<1>20. ASSUME NEW t \in Trans, CommitFoundAborted(t) PROVE NoFatalAbort'
  BY <1>20 DEF CommitFoundAborted
<1>21. ASSUME NEW t \in Trans, CommitCheckNext(t) PROVE NoFatalAbort'
  BY <1>21 DEF CommitCheckNext, Advance
<1>22. ASSUME NEW t \in Trans, CommitDecide(t) PROVE NoFatalAbort'
  BY <1>22 DEF CommitDecide
<1>23. ASSUME NEW t \in Trans, CommitReadWaitcnt(t) PROVE NoFatalAbort'
  BY <1>23 DEF CommitReadWaitcnt
<1>24. ASSUME NEW t \in Trans, CommitV(t) PROVE NoFatalAbort'
  BY <1>24 DEF CommitV
<1>25. ASSUME NEW t \in Trans, CommitReleased(t) PROVE NoFatalAbort'
  BY <1>25 DEF CommitReleased
<1>26. ASSUME NEW t \in Trans, CommitSet(t) PROVE NoFatalAbort'
  BY <1>26 DEF CommitSet
<1>27. ASSUME NEW t \in Trans, Disconnect(t) PROVE NoFatalAbort'
  BY <1>27 DEF Disconnect
<1>28. ASSUME NEW t \in Trans, AbortTest(t) PROVE NoFatalAbort'
  <2>1. status[tgt[t]] # "COMMITTED"
    BY <1>28, AbortUndecided DEF AbortTest, At, Decided
  <2> QED
    BY <1>28, <2>1 DEF AbortTest
<1>29. ASSUME NEW t \in Trans, AbortSet(t) PROVE NoFatalAbort'
  BY <1>29 DEF AbortSet
<1>30. ASSUME NEW t \in Trans, AbortReadWaitcnt(t) PROVE NoFatalAbort'
  BY <1>30 DEF AbortReadWaitcnt
<1>31. ASSUME NEW t \in Trans, AbortV(t) PROVE NoFatalAbort'
  BY <1>31 DEF AbortV
<1>32. ASSUME NEW t \in Trans, AbortReleased(t) PROVE NoFatalAbort'
  BY <1>32 DEF AbortReleased
<1>33. ASSUME NEW t \in Trans, UnrefDec(t) PROVE NoFatalAbort'
  BY <1>33 DEF UnrefDec
<1>34. ASSUME NEW t \in Trans, UnrefKeep(t) PROVE NoFatalAbort'
  BY <1>34 DEF UnrefKeep, Return
<1>35. ASSUME NEW t \in Trans, UnrefFree(t) PROVE NoFatalAbort'
  BY <1>35 DEF UnrefFree, Return
<1>36. ASSUME NEW t \in Trans, UnrefUndefined(t) PROVE NoFatalAbort'
  BY <1>36 DEF UnrefUndefined
<1>37. CASE UNCHANGED vars
  BY <1>37 DEF vars
<1> QED
  BY <1>1, <1>2, <1>3, <1>4, <1>5, <1>6, <1>7, <1>8, <1>9, <1>10,
     <1>11, <1>12, <1>13, <1>14, <1>15, <1>16, <1>17, <1>18, <1>19, <1>20,
     <1>21, <1>22, <1>23, <1>24, <1>25, <1>26, <1>27, <1>28, <1>29, <1>30,
     <1>31, <1>32, <1>33, <1>34, <1>35, <1>36, <1>37
     DEF Next, CommitStep, AbortStep, UnrefStep, StoreStep, StoreEnds


-----------------------------------------------------------------------------
(* The inductive invariant.                                                *)

LEMMA InitIInv == Init => IInv
<1> SUFFICES ASSUME Init PROVE IInv
  OBVIOUS
<1> USE NAssumption
<1>1. 0 \in Nat /\ 1 \in Nat /\ << >> \in Seq(Trans) /\ {} \subseteq Trans
  OBVIOUS
<1>2. SharedTypeOK
  BY <1>1 DEF Init, SharedTypeOK, TRANS_STATUS
<1>3. LocalTypeOK
  BY <1>1 DEF Init, LocalTypeOK, PC, RET, HALT
<1>4. None \notin Trans /\ Trans \subseteq Nat
  BY DEF None, Trans
<1>5. Shape
  BY <1>4 DEF Init, Shape, Calls, Existing, Cursors, InStore, CallPC, AbortPC
<1>6. \A x \in Trans : Deps(x) = {}
  BY DEF Init, Deps
<1>7. Memory
  BY <1>6 DEF Init, Memory, RefcntCovers, References, Count, Owned, Pinned, Listed,
     AbortPC
<1>8. Commitment
  BY <1>6 DEF Init, Commitment, Committing, Decided, Finishing, AbortPC
<1>9. NoFatalAbort
  BY DEF Init, NoFatalAbort
<1> QED
  BY <1>2, <1>3, <1>5, <1>7, <1>8, <1>9 DEF IInv, TypeOK

LEMMA NextIInv == IInv /\ [Next]_vars => IInv'
BY SharedTypeNext, LocalTypeNext, CallsNext, ExistingNext, CursorsNext,
   MemoryNext, CommitmentNext, NoFatalNext DEF IInv, TypeOK, Shape

LEMMA Invariant == Spec => []IInv
BY InitIInv, NextIInv, PTL DEF Spec

(* Every field keeps its type, so no reference count goes below zero: each *)
(* trans_unref drops a reference that was counted.                         *)
THEOREM TypeCorrect == Spec => []TypeOK
<1>1. IInv => TypeOK
  BY DEF IInv
<1> QED
  BY <1>1, Invariant, PTL

(* No pointer outlives its object: a transaction's count covers its        *)
(* thread, the versions in the store, the dependency lists and the calls   *)
(* in progress, and a freed transaction has none of them.                  *)
THEOREM RefcntSafe == Spec => []RefcntCovers
<1>1. IInv => RefcntCovers
  BY DEF IInv, Memory
<1> QED
  BY <1>1, Invariant, PTL

(* A transaction commits only with everything it depends on, whatever the  *)
(* interleaving of trans_commit, trans_abort and the store's collection.   *)
THEOREM CommitsAreSafe == Spec => []CommitSafe
<1>1. IInv => CommitSafe
  BY DEF IInv, Commitment, Committing, CommitSafe
<1> QED
  BY <1>1, Invariant, PTL

(* The abort() in trans_abort is not reached.                              *)
THEOREM AbortNotFatal == Spec => []NoFatalAbort
<1>1. IInv => NoFatalAbort
  BY DEF IInv
<1> QED
  BY <1>1, Invariant, PTL

-----------------------------------------------------------------------------
(* Final statuses.                                                         *)

Stable == \A t \in Trans : status[t] # "PENDING" => status'[t] = status[t]

LEMMA StatusStep ==
  ASSUME IInv, Next, status' # status
  PROVE  \E t \in Trans : CommitSet(t) \/ AbortSet(t)
BY DEF Next, CommitStep, AbortStep, UnrefStep, StoreStep, StoreEnds, trans_create,
   StoreEnter, StoreGCAbort, StoreGCCommitted, StoreSeePending, StoreGCDispose,
   Dispose, StoreNewVersion, StoreReplaceVersion, StoreAbortSelf, StoreRefuse,
   trans_add_dependency, trans_add_listed, CommitBegin, CommitSeeFinal,
   CommitSeePending, CommitWaitsDone, CommitIncRead, CommitIncWrite, CommitP,
   CommitFoundAborted, CommitCheckNext, CommitDecide, CommitReadWaitcnt, CommitV,
   CommitReleased, Disconnect, AbortTest, AbortReadWaitcnt, AbortV, AbortReleased,
   UnrefDec, UnrefKeep, UnrefFree, UnrefUndefined, shared

LEMMA StableNext == IInv /\ [Next]_vars => [Stable]_status
<1> SUFFICES ASSUME IInv, [Next]_vars, status' # status PROVE Stable
  OBVIOUS
<1>1. Next
  BY DEF vars, shared
<1>2. TypeOK /\ Shape /\ Commitment /\ status \in [Trans -> TRANS_STATUS]
  BY DEF IInv, TypeOK, SharedTypeOK
<1>3. ASSUME NEW t \in Trans, CommitSet(t) PROVE Stable
  <2>1. Committing(t) /\ Decided(t)
    BY <1>2, <1>3 DEF CommitSet, At, Decided, Commitment
  <2>2. status[t] \in {"PENDING", "COMMITTED"}
    BY <1>2, <2>1 DEF Committing, TRANS_STATUS
  <2> QED
    BY <1>2, <1>3, <2>2 DEF CommitSet, Stable
<1>4. ASSUME NEW t \in Trans, AbortSet(t) PROVE Stable
  <2>1. tgt[t] \in Trans /\ status[tgt[t]] # "COMMITTED"
    BY <1>2, <1>4, AbortUndecided DEF AbortSet, At, Decided
  <2>2. status[tgt[t]] \in {"PENDING", "ABORTED"}
    BY <1>2, <2>1 DEF TRANS_STATUS
  <2> QED
    BY <1>2, <1>4, <2>2 DEF AbortSet, Stable
<1> QED
  BY <1>1, <1>3, <1>4, StatusStep

(* COMMITTED and ABORTED are final, although trans_abort tests the status  *)
(* without the lock under which it then sets it.                           *)
THEOREM StatusIsStable == Spec => StatusStable
<1>1. [Stable]_status <=>
        [\A t \in Trans : status[t] # "PENDING" => status'[t] = status[t]]_status
  BY DEF Stable
<1> QED
  BY <1>1, Invariant, StableNext, PTL DEF Spec, StatusStable

-----------------------------------------------------------------------------
(* The dependency lists.                                                   *)

(* Only trans_add_dependency and the freeing trans_unref change a list.    *)
LEMMA DependsStep ==
  ASSUME IInv, Next, depends' # depends
  PROVE  \E t \in Trans : trans_add_dependency(t) \/ UnrefFree(t)
BY DEF Next, CommitStep, AbortStep, UnrefStep, StoreStep, StoreEnds, trans_create,
   StoreEnter, StoreGCAbort, StoreGCCommitted, StoreSeePending, StoreGCDispose,
   Dispose, StoreNewVersion, StoreReplaceVersion, StoreAbortSelf, StoreRefuse,
   trans_add_listed, CommitBegin, CommitSeeFinal, CommitSeePending,
   CommitWaitsDone, CommitIncRead, CommitIncWrite, CommitP, CommitFoundAborted,
   CommitCheckNext, CommitDecide, CommitReadWaitcnt, CommitV, CommitReleased,
   CommitSet, Disconnect, AbortTest, AbortSet, AbortReadWaitcnt, AbortV,
   AbortReleased, UnrefDec, UnrefKeep, UnrefUndefined, shared

LEMMA NearlyUniqueNext ==
  IInv /\ DependsNearlyUnique /\ [Next]_vars => DependsNearlyUnique'
<1> SUFFICES ASSUME IInv, DependsNearlyUnique, [Next]_vars
             PROVE  DependsNearlyUnique'
  OBVIOUS
<1>1. /\ depends \in [Trans -> Seq(Trans)] /\ tgt \in [Trans -> Trans]
  BY DEF IInv, TypeOK, SharedTypeOK, LocalTypeOK
<1>2. CASE depends' = depends
  BY <1>2 DEF DependsNearlyUnique
<1>3. ASSUME NEW t \in Trans, trans_add_dependency(t)
      PROVE  DependsNearlyUnique'
  <2> DEFINE s == depends[t]
             d == tgt[t]
             n == Len(s)
  <2>1. s \in Seq(Trans) /\ d \in Trans /\ n \in Nat
    BY <1>1
  <2>2. \A i \in 1 .. n - 1 : s[i] # d
    BY <1>3 DEF trans_add_dependency, AlreadyListed
  <2>3. depends' = [depends EXCEPT ![t] = Append(s, d)]
    BY <1>1, <1>3 DEF trans_add_dependency
  <2>4. \A i, j \in 1 .. n : i < j /\ s[i] = s[j] => j = i + 1
    BY DEF DependsNearlyUnique
  <2> HIDE DEF s, d
  <2>5. \A i, j \in 1 .. Len(Append(s, d)) :
          i < j /\ Append(s, d)[i] = Append(s, d)[j] => j = i + 1
    BY <2>1, <2>2, <2>4
  <2> QED
    BY <1>1, <2>3, <2>5 DEF DependsNearlyUnique
<1>4. ASSUME NEW t \in Trans, UnrefFree(t)
      PROVE  DependsNearlyUnique'
  <2>1. depends' = [depends EXCEPT ![tgt[t]] = << >>]
    BY <1>4 DEF UnrefFree
  <2> QED
    BY <1>1, <2>1 DEF DependsNearlyUnique
<1>5. CASE UNCHANGED vars
  BY <1>5 DEF vars, shared, DependsNearlyUnique
<1> QED
  BY <1>2, <1>3, <1>4, <1>5, DependsStep

(* trans_add_dependency lists a dependee at most twice, and then in two    *)
(* nodes next to each other.                                               *)
THEOREM NearlyUnique == Spec => []DependsNearlyUnique
<1>1. Init => DependsNearlyUnique
  BY DEF Init, DependsNearlyUnique
<1> QED
  BY <1>1, Invariant, NearlyUniqueNext, PTL DEF Spec

-----------------------------------------------------------------------------
(* XactoTrans implements CommitOrder.                                      *)

(* A step that changes no status, no list and no decision is invisible.    *)
LEMMA Invisible ==
  ASSUME NEW t \in Trans, LocalStep(t), UNCHANGED <<status, depends>>,
         Decided(t)' <=> Decided(t)
  PROVE  UNCHANGED Promise!vars
<1>1. \A x \in Trans : (Decided(x)' <=> Decided(x)) /\ Deps(x)' = Deps(x)
  BY DEF LocalStep, Decided, Deps
<1> QED
  BY <1>1 DEF Promise!vars

(* A step of trans_commit that decides, of trans_abort that sets the       *)
(* status, of trans_add_dependency and of the freeing trans_unref is the   *)
(* abstract step; every other step is a stutter.                           *)
LEMMA PromiseNext == IInv /\ [Next]_vars => [Promise!Next]_(Promise!vars)
<1> SUFFICES ASSUME IInv, [Next]_vars PROVE [Promise!Next]_(Promise!vars)
  OBVIOUS
<1>a. TypeOK /\ Shape /\ Memory /\ Commitment
  BY DEF IInv
<1>b. /\ pc \in [Trans -> PC] /\ ret \in [Trans -> RET] /\ tgt \in [Trans -> Trans]
      /\ idx \in [Trans -> Nat] /\ status \in [Trans -> TRANS_STATUS]
  BY <1>a DEF TypeOK, LocalTypeOK, SharedTypeOK
<1>c. \A x \in Trans : Committing(x)
  BY <1>a DEF Commitment
<1>1. ASSUME NEW t \in Trans, trans_create(t) PROVE [Promise!Next]_(Promise!vars)
  <2>1. LocalStep(t) /\ UNCHANGED <<status, depends>> /\ (Decided(t)' <=> Decided(t))
    BY <1>1, <1>b DEF trans_create, At, Goto, LocalStep, Decided, shared, RET
  <2> QED
    BY <2>1, Invisible
<1>2. ASSUME NEW t \in Trans, StoreEnter(t) PROVE [Promise!Next]_(Promise!vars)
  <2>1. LocalStep(t) /\ UNCHANGED <<status, depends>> /\ (Decided(t)' <=> Decided(t))
    BY <1>2, <1>b DEF StoreEnter, At, Goto, LocalStep, Decided, shared, RET
  <2> QED
    BY <2>1, Invisible
<1>3. ASSUME NEW t \in Trans, NEW v \in Trans, StoreGCAbort(t, v) PROVE [Promise!Next]_(Promise!vars)
  <2>1. LocalStep(t) /\ UNCHANGED <<status, depends>> /\ (Decided(t)' <=> Decided(t))
    BY <1>3, <1>b DEF StoreGCAbort, At, Goto, LocalStep, Decided, shared, RET
  <2> QED
    BY <2>1, Invisible
<1>4. ASSUME NEW t \in Trans, NEW v \in Trans, StoreGCCommitted(t, v) PROVE [Promise!Next]_(Promise!vars)
  <2>1. LocalStep(t) /\ UNCHANGED <<status, depends>> /\ (Decided(t)' <=> Decided(t))
    BY <1>4, <1>b DEF StoreGCCommitted, Dispose, At, Goto, LocalStep, Decided, shared, RET
  <2> QED
    BY <2>1, Invisible
<1>5. ASSUME NEW t \in Trans, NEW v \in Trans, StoreSeePending(t, v) PROVE [Promise!Next]_(Promise!vars)
  <2>1. LocalStep(t) /\ UNCHANGED <<status, depends>> /\ (Decided(t)' <=> Decided(t))
    BY <1>5, <1>b DEF StoreSeePending, At, Goto, LocalStep, Decided, shared, RET
  <2> QED
    BY <2>1, Invisible
<1>6. ASSUME NEW t \in Trans, StoreGCDispose(t) PROVE [Promise!Next]_(Promise!vars)
  <2>1. LocalStep(t) /\ UNCHANGED <<status, depends>> /\ (Decided(t)' <=> Decided(t))
    BY <1>6, <1>b DEF StoreGCDispose, Dispose, At, Goto, LocalStep, Decided, shared, RET
  <2> QED
    BY <2>1, Invisible
<1>7. ASSUME NEW t \in Trans, StoreNewVersion(t) PROVE [Promise!Next]_(Promise!vars)
  <2>1. LocalStep(t) /\ UNCHANGED <<status, depends>> /\ (Decided(t)' <=> Decided(t))
    BY <1>7, <1>b DEF StoreNewVersion, At, Goto, LocalStep, Decided, shared, RET
  <2> QED
    BY <2>1, Invisible
<1>8. ASSUME NEW t \in Trans, StoreReplaceVersion(t) PROVE [Promise!Next]_(Promise!vars)
  <2>1. LocalStep(t) /\ UNCHANGED <<status, depends>> /\ (Decided(t)' <=> Decided(t))
    BY <1>8, <1>b DEF StoreReplaceVersion, At, Goto, LocalStep, Decided, shared, RET
  <2> QED
    BY <2>1, Invisible
<1>9. ASSUME NEW t \in Trans, StoreAbortSelf(t) PROVE [Promise!Next]_(Promise!vars)
  <2>1. LocalStep(t) /\ UNCHANGED <<status, depends>> /\ (Decided(t)' <=> Decided(t))
    BY <1>9, <1>b DEF StoreAbortSelf, At, Goto, LocalStep, Decided, shared, RET
  <2> QED
    BY <2>1, Invisible
<1>10. ASSUME NEW t \in Trans, StoreRefuse(t) PROVE [Promise!Next]_(Promise!vars)
  <2>1. LocalStep(t) /\ UNCHANGED <<status, depends>> /\ (Decided(t)' <=> Decided(t))
    BY <1>10, <1>b DEF StoreRefuse, At, Goto, LocalStep, Decided, shared, RET
  <2> QED
    BY <2>1, Invisible
<1>11. ASSUME NEW t \in Trans, trans_add_dependency(t) PROVE [Promise!Next]_(Promise!vars)
  <2>1. /\ LocalStep(t) /\ UNCHANGED status /\ tgt[t] \in Trans
        /\ pc[t] = "dep" /\ pc'[t] = "store"
    BY <1>11, <1>b DEF trans_add_dependency, At, Goto, LocalStep
  <2>2. /\ \A u \in Trans : u # t => depends'[u] = depends[u]
        /\ depends'[t] = Append(depends[t], tgt[t])
    BY <1>11, <1>a DEF trans_add_dependency, TypeOK, SharedTypeOK
  <2>3. Deps(t)' = Deps(t) \cup {tgt[t]}
    <3>1. depends[t] \in Seq(Trans)
      BY <1>a, DepsType
    <3> QED
      BY <2>1, <2>2, <3>1 DEF Deps
  <2>4. \A u \in Trans : u # t => Deps(u)' = Deps(u)
    BY <2>2 DEF Deps
  <2>5. \A x \in Trans : Decided(x)' <=> Decided(x)
    BY <2>1 DEF LocalStep, Decided
  <2>6. status[t] = "PENDING" /\ ~Decided(t)
    BY <1>c, <2>1 DEF Committing, Decided
  <2>7. Promise!Depend(t, tgt[t])
    BY <2>1, <2>3, <2>4, <2>5, <2>6 DEF Promise!Depend
  <2> QED
    BY <2>1, <2>7 DEF Promise!Next
<1>12. ASSUME NEW t \in Trans, trans_add_listed(t) PROVE [Promise!Next]_(Promise!vars)
  <2>1. LocalStep(t) /\ UNCHANGED <<status, depends>> /\ (Decided(t)' <=> Decided(t))
    BY <1>12, <1>b DEF trans_add_listed, At, Goto, LocalStep, Decided, shared, RET
  <2> QED
    BY <2>1, Invisible
<1>13. ASSUME NEW t \in Trans, CommitBegin(t) PROVE [Promise!Next]_(Promise!vars)
  <2>1. LocalStep(t) /\ UNCHANGED <<status, depends>> /\ (Decided(t)' <=> Decided(t))
    BY <1>13, <1>b DEF CommitBegin, At, Goto, LocalStep, Decided, shared, RET
  <2> QED
    BY <2>1, Invisible
<1>14. ASSUME NEW t \in Trans, CommitSeeFinal(t) PROVE [Promise!Next]_(Promise!vars)
  <2>1. LocalStep(t) /\ UNCHANGED <<status, depends>> /\ (Decided(t)' <=> Decided(t))
    BY <1>14, <1>b DEF CommitSeeFinal, Advance, At, Goto, LocalStep, Decided, shared, RET
  <2> QED
    BY <2>1, Invisible
<1>15. ASSUME NEW t \in Trans, CommitSeePending(t) PROVE [Promise!Next]_(Promise!vars)
  <2>1. LocalStep(t) /\ UNCHANGED <<status, depends>> /\ (Decided(t)' <=> Decided(t))
    BY <1>15, <1>b DEF CommitSeePending, AtDependee, At, Goto, LocalStep, Decided, shared, RET
  <2> QED
    BY <2>1, Invisible
<1>16. ASSUME NEW t \in Trans, CommitWaitsDone(t) PROVE [Promise!Next]_(Promise!vars)
  <2>1. LocalStep(t) /\ UNCHANGED <<status, depends>> /\ (Decided(t)' <=> Decided(t))
    BY <1>16, <1>b DEF CommitWaitsDone, At, Goto, LocalStep, Decided, shared, RET
  <2> QED
    BY <2>1, Invisible
<1>17. ASSUME NEW t \in Trans, CommitIncRead(t) PROVE [Promise!Next]_(Promise!vars)
  <2>1. LocalStep(t) /\ UNCHANGED <<status, depends>> /\ (Decided(t)' <=> Decided(t))
    BY <1>17, <1>b DEF CommitIncRead, At, Goto, LocalStep, Decided, shared, RET
  <2> QED
    BY <2>1, Invisible
<1>18. ASSUME NEW t \in Trans, CommitIncWrite(t) PROVE [Promise!Next]_(Promise!vars)
  <2>1. LocalStep(t) /\ UNCHANGED <<status, depends>> /\ (Decided(t)' <=> Decided(t))
    BY <1>18, <1>b DEF CommitIncWrite, At, Goto, LocalStep, Decided, shared, RET
  <2> QED
    BY <2>1, Invisible
<1>19. ASSUME NEW t \in Trans, CommitP(t) PROVE [Promise!Next]_(Promise!vars)
  <2>1. LocalStep(t) /\ UNCHANGED <<status, depends>> /\ (Decided(t)' <=> Decided(t))
    BY <1>19, <1>b DEF CommitP, At, Goto, LocalStep, Decided, shared, RET
  <2> QED
    BY <2>1, Invisible
<1>20. ASSUME NEW t \in Trans, CommitFoundAborted(t) PROVE [Promise!Next]_(Promise!vars)
  <2>1. LocalStep(t) /\ UNCHANGED <<status, depends>> /\ (Decided(t)' <=> Decided(t))
    BY <1>20, <1>b DEF CommitFoundAborted, At, Goto, LocalStep, Decided, shared, RET
  <2> QED
    BY <2>1, Invisible
<1>21. ASSUME NEW t \in Trans, CommitCheckNext(t) PROVE [Promise!Next]_(Promise!vars)
  <2>1. LocalStep(t) /\ UNCHANGED <<status, depends>> /\ (Decided(t)' <=> Decided(t))
    BY <1>21, <1>b DEF CommitCheckNext, Advance, At, Goto, LocalStep, Decided, shared, RET
  <2> QED
    BY <2>1, Invisible
<1>22. ASSUME NEW t \in Trans, CommitDecide(t) PROVE [Promise!Next]_(Promise!vars)
  <2>1. /\ LocalStep(t) /\ UNCHANGED <<status, depends>>
        /\ pc[t] = "c_chk" /\ pc'[t] = "c_cnt"
        /\ idx[t] \in Nat /\ idx[t] > Len(depends[t])
    BY <1>22, <1>a, <1>b, DepsType
       DEF CommitDecide, At, Goto, AtDependee, LocalStep, shared
  <2>2. \A d \in Deps(t) : d \in Trans /\ Decided(d)
    BY <1>a, <1>c, <2>1, DepsType DEF Committing, Checked, Deps
  <2>3. status[t] = "PENDING" /\ ~Decided(t)
    <3>1. \A d \in Deps(t) : status[d] # "ABORTED"
      BY <1>c, <2>2 DEF Committing
    <3>2. status[t] # "ABORTED" /\ status[t] # "COMMITTED"
      BY <1>c, <2>1, <3>1 DEF Committing, OwnAbort, Doomed, Finishing
    <3> QED
      BY <1>b, <2>1, <3>2 DEF TRANS_STATUS, Decided
  <2>4. Decided(t)' /\ \A u \in Trans : u # t => (Decided(u)' <=> Decided(u))
    BY <2>1 DEF LocalStep, Decided
  <2>5. \A x \in Trans : Deps(x)' = Deps(x)
    BY <2>1 DEF Deps
  <2>6. Promise!Commit(t)
    BY <2>1, <2>2, <2>3, <2>4, <2>5 DEF Promise!Commit
  <2> QED
    BY <2>6 DEF Promise!Next
<1>23. ASSUME NEW t \in Trans, CommitReadWaitcnt(t) PROVE [Promise!Next]_(Promise!vars)
  <2>1. LocalStep(t) /\ UNCHANGED <<status, depends>> /\ (Decided(t)' <=> Decided(t))
    BY <1>23, <1>b DEF CommitReadWaitcnt, At, Goto, LocalStep, Decided, shared, RET
  <2> QED
    BY <2>1, Invisible
<1>24. ASSUME NEW t \in Trans, CommitV(t) PROVE [Promise!Next]_(Promise!vars)
  <2>1. LocalStep(t) /\ UNCHANGED <<status, depends>> /\ (Decided(t)' <=> Decided(t))
    BY <1>24, <1>b DEF CommitV, At, Goto, LocalStep, Decided, shared, RET
  <2> QED
    BY <2>1, Invisible
<1>25. ASSUME NEW t \in Trans, CommitReleased(t) PROVE [Promise!Next]_(Promise!vars)
  <2>1. LocalStep(t) /\ UNCHANGED <<status, depends>> /\ (Decided(t)' <=> Decided(t))
    BY <1>25, <1>b DEF CommitReleased, At, Goto, LocalStep, Decided, shared, RET
  <2> QED
    BY <2>1, Invisible
<1>26. ASSUME NEW t \in Trans, CommitSet(t) PROVE [Promise!Next]_(Promise!vars)
  <2>1. LocalStep(t) /\ UNCHANGED depends /\ pc[t] = "c_set"
    BY <1>26, <1>b DEF CommitSet, At, Goto, LocalStep
  <2>2. status'[t] = "COMMITTED" /\ \A u \in Trans : u # t => status'[u] = status[u]
    BY <1>26, <1>b DEF CommitSet
  <2>3. Decided(t) /\ Decided(t)'
    BY <2>1, <2>2 DEF Decided
  <2>4. \A u \in Trans : u # t => (Decided(u)' <=> Decided(u))
    BY <2>1, <2>2 DEF LocalStep, Decided
  <2>5. \A x \in Trans : Deps(x)' = Deps(x)
    BY <2>1 DEF Deps
  <2> QED
    BY <2>2, <2>3, <2>4, <2>5 DEF Promise!vars
<1>27. ASSUME NEW t \in Trans, Disconnect(t) PROVE [Promise!Next]_(Promise!vars)
  <2>1. LocalStep(t) /\ UNCHANGED <<status, depends>> /\ (Decided(t)' <=> Decided(t))
    BY <1>27, <1>b DEF Disconnect, At, Goto, LocalStep, Decided, shared, RET
  <2> QED
    BY <2>1, Invisible
<1>28. ASSUME NEW t \in Trans, AbortTest(t) PROVE [Promise!Next]_(Promise!vars)
  <2>1. LocalStep(t) /\ UNCHANGED <<status, depends>> /\ (Decided(t)' <=> Decided(t))
    BY <1>28, <1>b DEF AbortTest, At, Goto, LocalStep, Decided, shared, RET
  <2> QED
    BY <2>1, Invisible
<1>29. ASSUME NEW t \in Trans, AbortSet(t) PROVE [Promise!Next]_(Promise!vars)
  <2>1. /\ LocalStep(t) /\ UNCHANGED depends
        /\ pc[t] = "a_set" /\ pc'[t] = "a_cnt"
    BY <1>29, <1>b DEF AbortSet, At, Goto, LocalStep
  <2>2. PICK z \in Trans : z = tgt[t]
    BY <1>b
  <2>3. ~Decided(z)
    BY <1>a, <2>1, <2>2, AbortUndecided
  <2>4. status'[z] = "ABORTED" /\ \A u \in Trans : u # z => status'[u] = status[u]
    BY <1>29, <1>b, <2>2 DEF AbortSet
  <2>5. \A x \in Trans : (Decided(x)' <=> Decided(x)) /\ Deps(x)' = Deps(x)
    BY <2>1, <2>3, <2>4 DEF LocalStep, Decided, Deps
  <2>6. status[z] \in {"PENDING", "ABORTED"}
    BY <1>b, <2>3 DEF Decided, TRANS_STATUS
  <2>7. CASE status[z] = "PENDING"
    <3>1. Promise!Abort(z)
      BY <2>3, <2>4, <2>5, <2>7 DEF Promise!Abort
    <3> QED
      BY <3>1 DEF Promise!Next
  <2>8. CASE status[z] = "ABORTED"
    BY <2>4, <2>5, <2>8 DEF Promise!vars
  <2> QED
    BY <2>6, <2>7, <2>8
<1>30. ASSUME NEW t \in Trans, AbortReadWaitcnt(t) PROVE [Promise!Next]_(Promise!vars)
  <2>1. LocalStep(t) /\ UNCHANGED <<status, depends>> /\ (Decided(t)' <=> Decided(t))
    BY <1>30, <1>b DEF AbortReadWaitcnt, At, Goto, LocalStep, Decided, shared, RET
  <2> QED
    BY <2>1, Invisible
<1>31. ASSUME NEW t \in Trans, AbortV(t) PROVE [Promise!Next]_(Promise!vars)
  <2>1. LocalStep(t) /\ UNCHANGED <<status, depends>> /\ (Decided(t)' <=> Decided(t))
    BY <1>31, <1>b DEF AbortV, At, Goto, LocalStep, Decided, shared, RET
  <2> QED
    BY <2>1, Invisible
<1>32. ASSUME NEW t \in Trans, AbortReleased(t) PROVE [Promise!Next]_(Promise!vars)
  <2>1. LocalStep(t) /\ UNCHANGED <<status, depends>> /\ (Decided(t)' <=> Decided(t))
    BY <1>32, <1>b DEF AbortReleased, At, Goto, LocalStep, Decided, shared, RET
  <2> QED
    BY <2>1, Invisible
<1>33. ASSUME NEW t \in Trans, UnrefDec(t) PROVE [Promise!Next]_(Promise!vars)
  <2>1. LocalStep(t) /\ UNCHANGED <<status, depends>> /\ (Decided(t)' <=> Decided(t))
    BY <1>33, <1>b DEF UnrefDec, At, Goto, LocalStep, Decided, shared, RET
  <2> QED
    BY <2>1, Invisible
<1>34. ASSUME NEW t \in Trans, UnrefKeep(t) PROVE [Promise!Next]_(Promise!vars)
  <2>1. LocalStep(t) /\ UNCHANGED <<status, depends>> /\ (Decided(t)' <=> Decided(t))
    BY <1>34, <1>b DEF UnrefKeep, Return, At, Goto, LocalStep, Decided, shared, RET
  <2> QED
    BY <2>1, Invisible
<1>35. ASSUME NEW t \in Trans, UnrefFree(t) PROVE [Promise!Next]_(Promise!vars)
  <2>1. /\ LocalStep(t) /\ UNCHANGED status /\ refcnt[tgt[t]] = 0
        /\ pc[t] = "u_chk" /\ pc'[t] = ret[t] /\ ret[t] \in RET
    BY <1>35, <1>b DEF UnrefFree, Return, At, Goto, LocalStep
  <2>2. PICK z \in Trans : z = tgt[t]
    BY <1>b
  <2>3. depends'[z] = << >> /\ \A u \in Trans : u # z => depends'[u] = depends[u]
    BY <1>35, <1>a, <2>2 DEF UnrefFree, TypeOK, SharedTypeOK
  <2>4. ~Owned(z)
    BY <1>a, <2>1, <2>2, UnreferencedAtZero
  <2>5. Finishing(z)
    BY <1>a, <2>1, <2>2, <2>4 DEF Owned, Finishing, Shape, Existing
  <2>6. status[z] # "PENDING"
    BY <1>c, <2>5 DEF Committing
  <2>7. \A x \in Trans : Decided(x)' <=> Decided(x)
    BY <2>1 DEF LocalStep, Decided, RET
  <2>8. Deps(z)' = {} /\ \A u \in Trans : u # z => Deps(u)' = Deps(u)
    BY <2>3 DEF Deps
  <2>9. Promise!Forget(z)
    BY <2>1, <2>6, <2>7, <2>8 DEF Promise!Forget
  <2> QED
    BY <2>9 DEF Promise!Next
<1>36. ASSUME NEW t \in Trans, UnrefUndefined(t) PROVE [Promise!Next]_(Promise!vars)
  <2>1. LocalStep(t) /\ UNCHANGED <<status, depends>> /\ (Decided(t)' <=> Decided(t))
    BY <1>36, <1>b DEF UnrefUndefined, local, At, Goto, LocalStep, Decided, shared, RET
  <2> QED
    BY <2>1, Invisible
<1>37. CASE UNCHANGED vars
  <2>1. UNCHANGED <<status, depends, pc>>
    BY <1>37 DEF vars, shared, local
  <2>2. \A x \in Trans : (Decided(x)' <=> Decided(x)) /\ Deps(x)' = Deps(x)
    BY <2>1 DEF Decided, Deps
  <2> QED
    BY <2>1, <2>2 DEF Promise!vars
<1> QED
  BY <1>1, <1>2, <1>3, <1>4, <1>5, <1>6, <1>7, <1>8, <1>9, <1>10,
     <1>11, <1>12, <1>13, <1>14, <1>15, <1>16, <1>17, <1>18, <1>19, <1>20,
     <1>21, <1>22, <1>23, <1>24, <1>25, <1>26, <1>27, <1>28, <1>29, <1>30,
     <1>31, <1>32, <1>33, <1>34, <1>35, <1>36, <1>37
     DEF Next, CommitStep, AbortStep, UnrefStep, StoreStep, StoreEnds


LEMMA PromiseInit == Init => Promise!Init
<1> SUFFICES ASSUME Init PROVE Promise!Init
  OBVIOUS
<1>1. \A x \in Trans : ~Decided(x) /\ status[x] = "PENDING" /\ Deps(x) = {}
  BY DEF Init, Decided, Deps
<1> QED
  BY <1>1 DEF Promise!Init

(* The threads of trans_commit, trans_abort and the store implement the    *)
(* abstract promise: one final outcome each, and commits in agreement with *)
(* the dependencies.                                                       *)
THEOREM Implementation == Spec => ImplementsCommitOrder
BY Invariant, PromiseInit, PromiseNext, PTL
   DEF Spec, ImplementsCommitOrder, Promise!Spec
=============================================================================
