------------------------- MODULE XactoServerProofs --------------------------
(***************************************************************************)
(* Proofs about XactoServer for any set of connections and any number of   *)
(* descriptors.                                                            *)
(*                                                                         *)
(* None of the three properties is inductive alone.  The registry is exact *)
(* because open descriptors are distinct (Descriptors); the outcome a      *)
(* client is told is right because of what its transaction is at each      *)
(* control point of the service thread (Outcomes); and the wakeup is not   *)
(* lost because the last thread to leave is still to test the count when   *)
(* it finds it zero (NoLostWakeup, with the types).                        *)
(***************************************************************************)
EXTENDS XactoServer, FiniteSetTheorems, TLAPS

\* A connection has a descriptor of its own from its acceptance to its close.
Descriptors ==
  /\ \A c \in Clients : fd[c] = 0 <=> pc[c] \in {"none", "done"}
  /\ \A c, d \in Clients : c # d /\ fd[c] # 0 => fd[c] # fd[d]

\* The control points of a service whose transaction is not finished.
Serving == {"recv", "commit"} \cup DOMAIN NextStep

\* The transaction of a thread, and what its client knows, at each point.
Outcomes ==
  \A c \in Clients :
    /\ pc[c] \in {"none", "accepted", "start"} => tx[c] = "none"
    /\ pc[c] \in Serving => tx[c] = "pending"
    /\ pc[c] = "commit_reply" => tx[c] \in {"committed", "aborted"}
    /\ pc[c] \notin {"unreg", "test", "close", "done"} => told[c] = "none"

IInv ==
  /\ TypeOK
  /\ Descriptors
  /\ RegistryExact
  /\ NoLostWakeup
  /\ Outcomes
  /\ OutcomeTold

-----------------------------------------------------------------------------
(* Where the handlers of PUT and GET can be, and where they go.            *)
LEMMA Steps ==
  /\ DOMAIN NextStep = {"put_key", "put_value", "put_store", "put_reply",
                        "get_key", "get_store", "get_reply", "get_data"}
  /\ \A l \in DOMAIN NextStep : NextStep[l] \in Serving /\ NextStep[l] \in PC
  /\ Reads \subseteq DOMAIN NextStep
<1>1. DOMAIN NextStep = {"put_key", "put_value", "put_store", "put_reply",
                         "get_key", "get_store", "get_reply", "get_data"}
  BY DEF NextStep
<1>2. \A l \in DOMAIN NextStep : NextStep[l] \in DOMAIN NextStep \cup {"recv"}
  BY <1>1 DEF NextStep
<1> QED
  BY <1>1, <1>2 DEF Serving, PC, Reads

(* The initial state: no connection, and an empty registry.                *)
LEMMA InitIInv == Init => IInv
<1> SUFFICES ASSUME Init PROVE IInv
  OBVIOUS
<1>1. TypeOK
  BY FdAssumption DEF Init, TypeOK, PC, Fds
<1>2. Descriptors /\ Outcomes /\ OutcomeTold /\ NoLostWakeup
  BY Steps DEF Init, Descriptors, Outcomes, OutcomeTold, NoLostWakeup, Serving
<1>3. fds = {} /\ {fd[c] : c \in {d \in Clients : Registered(d)}} = {}
  BY DEF Init, Registered
<1>4. RegistryExact
  BY <1>3, FS_EmptySet DEF RegistryExact, Init
<1> QED
  BY <1>1, <1>2, <1>4 DEF IInv

(* The registry's set is finite, and a registered connection counts in it. *)
LEMMA Counted ==
  ASSUME IInv
  PROVE  /\ IsFiniteSet(fds)
         /\ \A c \in Clients : Registered(c) => fd[c] \in fds /\ val >= 1
<1>1. IsFiniteSet(fds)
  <2>1. 1 \in Int /\ FD_SETSIZE \in Int
    BY FdAssumption
  <2>2. IsFiniteSet(1 .. FD_SETSIZE)
    BY <2>1, FS_Interval
  <2>3. fds \subseteq 1 .. FD_SETSIZE
    BY DEF IInv, TypeOK, Fds
  <2> QED
    BY <2>2, <2>3, FS_Subset
<1>2. ASSUME NEW c \in Clients, Registered(c) PROVE fd[c] \in fds
  BY <1>2 DEF IInv, RegistryExact
<1>3. ASSUME NEW c \in Clients, Registered(c) PROVE val >= 1
  <2>1. fds # {}
    BY <1>2, <1>3
  <2>2. Cardinality(fds) # 0
    BY <1>1, <2>1, FS_EmptySet
  <2> QED
    BY <2>2 DEF IInv, RegistryExact, TypeOK
<1> QED
  BY <1>1, <1>2, <1>3

(* The fields keep their types.                                           *)
LEMMA TypeNext == ASSUME IInv, [Next]_vars PROVE TypeOK'
<1> USE DEF IInv
<1>1. CASE sighup_handler
  BY <1>1 DEF sighup_handler, thread, registry, TypeOK, PC
<1>2. CASE creg_shutdown_all
  <2>1. cursor' \in 1 .. FD_SETSIZE + 1
    BY <1>2, FdAssumption DEF creg_shutdown_all, TypeOK
  <2>2. conn' \in [Clients -> {"open", "shut", "gone"}]
    BY <1>2 DEF creg_shutdown_all, TypeOK
  <2> QED
    BY <1>2, <2>1, <2>2 DEF creg_shutdown_all, registry, TypeOK, PC
<1>3. CASE ShutdownDone
  BY <1>3 DEF ShutdownDone, thread, registry, TypeOK, PC
<1>4. CASE creg_wait_for_empty
  BY <1>4 DEF creg_wait_for_empty, thread, TypeOK, PC
<1>5. CASE creg_fini
  BY <1>5 DEF creg_fini, thread, registry, TypeOK, PC
<1>6. CASE Exit
  BY <1>6 DEF Exit, thread, registry, TypeOK, PC
<1>7. ASSUME NEW c \in Clients, NEW f \in Fds, Accept(c, f) PROVE TypeOK'
  BY <1>7 DEF Accept, Goto, registry, TypeOK, PC
<1>8. ASSUME NEW c \in Clients, Pthread_create(c) PROVE TypeOK'
  BY <1>8 DEF Pthread_create, Goto, registry, TypeOK, PC
<1>9. ASSUME NEW c \in Clients, PeerCloses(c) PROVE TypeOK'
  BY <1>9 DEF PeerCloses, registry, mainvars, TypeOK, PC
<1>10. ASSUME NEW c \in Clients, creg_register(c) PROVE TypeOK'
  <2>1. fd[c] \in Fds
    BY <1>10 DEF creg_register, At, TypeOK, Descriptors
  <2> QED
    BY <1>10, <2>1 DEF creg_register, Goto, mainvars, TypeOK, PC
<1>11. ASSUME NEW c \in Clients, RecvRequest(c) PROVE TypeOK'
  BY <1>11, Steps DEF RecvRequest, Goto, At, Stay, registry, mainvars, TypeOK,
       PC
<1>12. ASSUME NEW c \in Clients, ReadPacket(c) PROVE TypeOK'
  BY <1>12, Steps DEF ReadPacket, Goto, Stay, registry, mainvars, TypeOK, PC
<1>13. ASSUME NEW c \in Clients, OperationStep(c) PROVE TypeOK'
  BY <1>13, Steps DEF OperationStep, Goto, Stay, registry, mainvars, TypeOK,
       PC
<1>14. ASSUME NEW c \in Clients, CommitReply(c) PROVE TypeOK'
  <2>1. tx[c] \in {"committed", "aborted"}
    BY <1>14 DEF CommitReply, At, Outcomes
  <2> QED
    BY <1>14, <2>1 DEF CommitReply, Goto, Tell, registry, mainvars, TypeOK, PC
<1>15. ASSUME NEW c \in Clients, creg_unregister(c) PROVE TypeOK'
  <2>1. val >= 1
    BY <1>15, Counted DEF creg_unregister, At, Registered
  <2>2. val' \in Nat
    BY <1>15, <2>1 DEF creg_unregister, TypeOK
  <2> QED
    BY <1>15, <2>2 DEF creg_unregister, Goto, mainvars, TypeOK, PC
<1>16. ASSUME NEW c \in Clients, UnregisterTest(c) PROVE TypeOK'
  BY <1>16 DEF UnregisterTest, Goto, At, mainvars, TypeOK, PC
<1>17. ASSUME NEW c \in Clients, UseFreed(c) PROVE TypeOK'
  BY <1>17 DEF UseFreed, thread, registry, mainvars, TypeOK, PC
<1>18. ASSUME NEW c \in Clients, Close(c) PROVE TypeOK'
  BY <1>18 DEF Close, Goto, At, registry, mainvars, TypeOK, PC
<1>19. ASSUME NEW c \in Clients, NEW outcome \in {"committed", "aborted"},
             trans_commit(c, outcome)
      PROVE TypeOK'
  BY <1>19 DEF trans_commit, Goto, At, registry, mainvars, TypeOK, PC
<1>20. ASSUME NEW c \in Clients, RecvEnds(c) PROVE TypeOK'
  BY <1>20, Steps DEF RecvEnds, At, abort_end, Goto, Tell, registry, mainvars,
       TypeOK, PC
<1>21. ASSUME NEW c \in Clients, OperationFails(c) PROVE TypeOK'
  BY <1>21, Steps DEF OperationFails, ReplyFails, abort_end, Goto, Tell,
       registry, mainvars, TypeOK, PC
<1>22. ASSUME NEW c \in Clients, CommitReplyFails(c) PROVE TypeOK'
  BY <1>22 DEF CommitReplyFails, At, ReplyFails, abort_end, Goto, Tell,
       registry, mainvars, TypeOK, PC
<1>23. CASE UNCHANGED vars
  BY <1>23 DEF vars, mainvars, thread, registry, TypeOK, PC
<1> QED
  BY <1>1, <1>2, <1>3, <1>4, <1>5, <1>6, <1>7, <1>8, <1>9, <1>10, <1>11,
     <1>12, <1>13, <1>14, <1>15, <1>16, <1>17, <1>18, <1>19, <1>20, <1>21,
     <1>22, <1>23
     DEF Next, MainStep, ServiceStep, ClientStep

(* Accept takes a descriptor that is free, and Close gives it back last.   *)
LEMMA DescriptorsNext == ASSUME IInv, [Next]_vars PROVE Descriptors'
<1> USE DEF IInv
<1>1. CASE sighup_handler
  BY <1>1 DEF sighup_handler, thread, registry, Descriptors, TypeOK
<1>2. CASE creg_shutdown_all
  BY <1>2 DEF creg_shutdown_all, registry, Descriptors, TypeOK
<1>3. CASE ShutdownDone
  BY <1>3 DEF ShutdownDone, thread, registry, Descriptors, TypeOK
<1>4. CASE creg_wait_for_empty
  BY <1>4 DEF creg_wait_for_empty, thread, Descriptors, TypeOK
<1>5. CASE creg_fini
  BY <1>5 DEF creg_fini, thread, registry, Descriptors, TypeOK
<1>6. CASE Exit
  BY <1>6 DEF Exit, thread, registry, Descriptors, TypeOK
<1>7. ASSUME NEW c \in Clients, NEW f \in Fds, Accept(c, f) PROVE Descriptors'
  BY <1>7 DEF Accept, Goto, registry, Descriptors, TypeOK
<1>8. ASSUME NEW c \in Clients, Pthread_create(c) PROVE Descriptors'
  BY <1>8 DEF Pthread_create, Goto, registry, Descriptors, TypeOK
<1>9. ASSUME NEW c \in Clients, PeerCloses(c) PROVE Descriptors'
  BY <1>9 DEF PeerCloses, registry, mainvars, Descriptors, TypeOK
<1>10. ASSUME NEW c \in Clients, creg_register(c) PROVE Descriptors'
  BY <1>10 DEF creg_register, Goto, At, mainvars, Descriptors, TypeOK
<1>11. ASSUME NEW c \in Clients, RecvRequest(c) PROVE Descriptors'
  BY <1>11, Steps DEF RecvRequest, Goto, At, Stay, registry, mainvars,
       Descriptors, TypeOK
<1>12. ASSUME NEW c \in Clients, ReadPacket(c) PROVE Descriptors'
  BY <1>12, Steps DEF ReadPacket, Goto, Stay, registry, mainvars, Descriptors,
       TypeOK, Serving
<1>13. ASSUME NEW c \in Clients, OperationStep(c) PROVE Descriptors'
  BY <1>13, Steps DEF OperationStep, Goto, Stay, registry, mainvars,
       Descriptors, TypeOK, Serving
<1>14. ASSUME NEW c \in Clients, CommitReply(c) PROVE Descriptors'
  BY <1>14 DEF CommitReply, Goto, At, Tell, registry, mainvars, Descriptors,
       TypeOK
<1>15. ASSUME NEW c \in Clients, creg_unregister(c) PROVE Descriptors'
  BY <1>15 DEF creg_unregister, Goto, At, mainvars, Descriptors, TypeOK
<1>16. ASSUME NEW c \in Clients, UnregisterTest(c) PROVE Descriptors'
  BY <1>16 DEF UnregisterTest, Goto, At, mainvars, Descriptors, TypeOK
<1>17. ASSUME NEW c \in Clients, UseFreed(c) PROVE Descriptors'
  BY <1>17 DEF UseFreed, thread, registry, mainvars, Descriptors, TypeOK
<1>18. ASSUME NEW c \in Clients, Close(c) PROVE Descriptors'
  BY <1>18 DEF Close, Goto, At, registry, mainvars, Descriptors, TypeOK
<1>19. ASSUME NEW c \in Clients, NEW outcome \in {"committed", "aborted"},
             trans_commit(c, outcome)
      PROVE Descriptors'
  BY <1>19 DEF trans_commit, Goto, At, registry, mainvars, Descriptors, TypeOK
<1>20. ASSUME NEW c \in Clients, RecvEnds(c) PROVE Descriptors'
  BY <1>20, Steps DEF RecvEnds, At, abort_end, Goto, Tell, registry, mainvars,
       Descriptors, TypeOK
<1>21. ASSUME NEW c \in Clients, OperationFails(c) PROVE Descriptors'
  BY <1>21, Steps DEF OperationFails, ReplyFails, abort_end, Goto, Tell,
       registry, mainvars, Descriptors, TypeOK
<1>22. ASSUME NEW c \in Clients, CommitReplyFails(c) PROVE Descriptors'
  BY <1>22 DEF CommitReplyFails, At, ReplyFails, abort_end, Goto, Tell,
       registry, mainvars, Descriptors, TypeOK
<1>23. CASE UNCHANGED vars
  BY <1>23 DEF vars, mainvars, thread, registry, Descriptors, TypeOK
<1> QED
  BY <1>1, <1>2, <1>3, <1>4, <1>5, <1>6, <1>7, <1>8, <1>9, <1>10, <1>11,
     <1>12, <1>13, <1>14, <1>15, <1>16, <1>17, <1>18, <1>19, <1>20, <1>21,
     <1>22, <1>23
     DEF Next, MainStep, ServiceStep, ClientStep

(* What a client is told is what its transaction became: trans_abort is    *)
(* called only for a pending one, or after a reply that did not arrive.    *)
LEMMA OutcomesNext == ASSUME IInv, [Next]_vars PROVE (Outcomes /\ OutcomeTold)'
<1> USE Steps DEF IInv
<1>1. CASE sighup_handler
  BY <1>1 DEF sighup_handler, thread, registry, Outcomes, OutcomeTold,
       Serving, TypeOK
<1>2. CASE creg_shutdown_all
  BY <1>2 DEF creg_shutdown_all, registry, Outcomes, OutcomeTold, Serving,
       TypeOK
<1>3. CASE ShutdownDone
  BY <1>3 DEF ShutdownDone, thread, registry, Outcomes, OutcomeTold, Serving,
       TypeOK
<1>4. CASE creg_wait_for_empty
  BY <1>4 DEF creg_wait_for_empty, thread, Outcomes, OutcomeTold, Serving,
       TypeOK
<1>5. CASE creg_fini
  BY <1>5 DEF creg_fini, thread, registry, Outcomes, OutcomeTold, Serving,
       TypeOK
<1>6. CASE Exit
  BY <1>6 DEF Exit, thread, registry, Outcomes, OutcomeTold, Serving, TypeOK
<1>7. ASSUME NEW c \in Clients, NEW f \in Fds, Accept(c, f)
      PROVE (Outcomes /\ OutcomeTold)'
  BY <1>7 DEF Accept, Goto, registry, Outcomes, OutcomeTold, Serving, TypeOK
<1>8. ASSUME NEW c \in Clients, Pthread_create(c)
      PROVE (Outcomes /\ OutcomeTold)'
  BY <1>8 DEF Pthread_create, Goto, registry, Outcomes, OutcomeTold, Serving,
       TypeOK
<1>9. ASSUME NEW c \in Clients, PeerCloses(c)
      PROVE (Outcomes /\ OutcomeTold)'
  BY <1>9 DEF PeerCloses, registry, mainvars, Outcomes, OutcomeTold, Serving,
       TypeOK
<1>10. ASSUME NEW c \in Clients, creg_register(c)
      PROVE (Outcomes /\ OutcomeTold)'
  BY <1>10 DEF creg_register, Goto, At, mainvars, Outcomes, OutcomeTold,
       Serving, TypeOK
<1>11. ASSUME NEW c \in Clients, RecvRequest(c)
      PROVE (Outcomes /\ OutcomeTold)'
  BY <1>11 DEF RecvRequest, Goto, At, Stay, registry, mainvars, Outcomes,
       OutcomeTold, Serving, TypeOK
<1>12. ASSUME NEW c \in Clients, ReadPacket(c)
      PROVE (Outcomes /\ OutcomeTold)'
  BY <1>12 DEF ReadPacket, Goto, Stay, registry, mainvars, Outcomes,
       OutcomeTold, Serving, TypeOK
<1>13. ASSUME NEW c \in Clients, OperationStep(c)
      PROVE (Outcomes /\ OutcomeTold)'
  BY <1>13 DEF OperationStep, Goto, Stay, registry, mainvars, Outcomes,
       OutcomeTold, Serving, TypeOK
<1>14. ASSUME NEW c \in Clients, CommitReply(c)
      PROVE (Outcomes /\ OutcomeTold)'
  BY <1>14 DEF CommitReply, Goto, At, Tell, registry, mainvars, Outcomes,
       OutcomeTold, Serving, TypeOK
<1>15. ASSUME NEW c \in Clients, creg_unregister(c)
      PROVE (Outcomes /\ OutcomeTold)'
  BY <1>15 DEF creg_unregister, Goto, At, mainvars, Outcomes, OutcomeTold,
       Serving, TypeOK
<1>16. ASSUME NEW c \in Clients, UnregisterTest(c)
      PROVE (Outcomes /\ OutcomeTold)'
  BY <1>16 DEF UnregisterTest, Goto, At, mainvars, Outcomes, OutcomeTold,
       Serving, TypeOK
<1>17. ASSUME NEW c \in Clients, UseFreed(c)
      PROVE (Outcomes /\ OutcomeTold)'
  BY <1>17 DEF UseFreed, thread, registry, mainvars, Outcomes, OutcomeTold,
       Serving, TypeOK
<1>18. ASSUME NEW c \in Clients, Close(c)
      PROVE (Outcomes /\ OutcomeTold)'
  BY <1>18 DEF Close, Goto, At, registry, mainvars, Outcomes, OutcomeTold,
       Serving, TypeOK
<1>19. ASSUME NEW c \in Clients, NEW outcome \in {"committed", "aborted"},
             trans_commit(c, outcome)
      PROVE (Outcomes /\ OutcomeTold)'
  BY <1>19 DEF trans_commit, Goto, At, registry, mainvars, Outcomes,
       OutcomeTold, Serving, TypeOK
<1>20. ASSUME NEW c \in Clients, RecvEnds(c)
      PROVE (Outcomes /\ OutcomeTold)'
  BY <1>20 DEF RecvEnds, At, abort_end, Goto, Tell, registry, mainvars,
       Outcomes, OutcomeTold, Serving, TypeOK
<1>21. ASSUME NEW c \in Clients, OperationFails(c)
      PROVE (Outcomes /\ OutcomeTold)'
  BY <1>21 DEF OperationFails, ReplyFails, abort_end, Goto, Tell, registry,
       mainvars, Outcomes, OutcomeTold, Serving, TypeOK
<1>22. ASSUME NEW c \in Clients, CommitReplyFails(c)
      PROVE (Outcomes /\ OutcomeTold)'
  BY <1>22 DEF CommitReplyFails, At, ReplyFails, abort_end, Goto, Tell,
       registry, mainvars, Outcomes, OutcomeTold, Serving, TypeOK
<1>23. CASE UNCHANGED vars
  BY <1>23 DEF vars, mainvars, thread, registry, Outcomes, OutcomeTold,
       Serving, TypeOK
<1> QED
  BY <1>1, <1>2, <1>3, <1>4, <1>5, <1>6, <1>7, <1>8, <1>9, <1>10, <1>11,
     <1>12, <1>13, <1>14, <1>15, <1>16, <1>17, <1>18, <1>19, <1>20, <1>21,
     <1>22, <1>23
     DEF Next, MainStep, ServiceStep, ClientStep

(* The last thread to make the count zero tests it while it is zero.       *)
LEMMA WakeupNext == ASSUME IInv, [Next]_vars PROVE NoLostWakeup'
<1> USE DEF IInv
<1>1. CASE sighup_handler
  BY <1>1 DEF sighup_handler, thread, registry, NoLostWakeup, TypeOK
<1>2. CASE creg_shutdown_all
  BY <1>2 DEF creg_shutdown_all, registry, NoLostWakeup, TypeOK
<1>3. CASE ShutdownDone
  BY <1>3 DEF ShutdownDone, thread, registry, NoLostWakeup, TypeOK
<1>4. CASE creg_wait_for_empty
  BY <1>4 DEF creg_wait_for_empty, thread, NoLostWakeup, TypeOK
<1>5. CASE creg_fini
  BY <1>5 DEF creg_fini, thread, registry, NoLostWakeup, TypeOK
<1>6. CASE Exit
  BY <1>6 DEF Exit, thread, registry, NoLostWakeup, TypeOK
<1>7. ASSUME NEW c \in Clients, NEW f \in Fds, Accept(c, f) PROVE NoLostWakeup'
  BY <1>7 DEF Accept, Goto, registry, NoLostWakeup, TypeOK
<1>8. ASSUME NEW c \in Clients, Pthread_create(c) PROVE NoLostWakeup'
  BY <1>8 DEF Pthread_create, Goto, registry, NoLostWakeup, TypeOK
<1>9. ASSUME NEW c \in Clients, PeerCloses(c) PROVE NoLostWakeup'
  BY <1>9 DEF PeerCloses, registry, mainvars, NoLostWakeup, TypeOK
<1>10. ASSUME NEW c \in Clients, creg_register(c) PROVE NoLostWakeup'
  BY <1>10 DEF creg_register, Goto, At, mainvars, NoLostWakeup, TypeOK
<1>11. ASSUME NEW c \in Clients, RecvRequest(c) PROVE NoLostWakeup'
  BY <1>11, Steps DEF RecvRequest, Goto, At, Stay, registry, mainvars,
       NoLostWakeup, TypeOK
<1>12. ASSUME NEW c \in Clients, ReadPacket(c) PROVE NoLostWakeup'
  BY <1>12, Steps DEF ReadPacket, Goto, Stay, registry, mainvars,
       NoLostWakeup, TypeOK, Serving
<1>13. ASSUME NEW c \in Clients, OperationStep(c) PROVE NoLostWakeup'
  BY <1>13, Steps DEF OperationStep, Goto, Stay, registry, mainvars,
       NoLostWakeup, TypeOK, Serving
<1>14. ASSUME NEW c \in Clients, CommitReply(c) PROVE NoLostWakeup'
  BY <1>14 DEF CommitReply, Goto, At, Tell, registry, mainvars, NoLostWakeup,
       TypeOK
<1>15. ASSUME NEW c \in Clients, creg_unregister(c) PROVE NoLostWakeup'
  BY <1>15 DEF creg_unregister, Goto, At, mainvars, NoLostWakeup, TypeOK
<1>16. ASSUME NEW c \in Clients, UnregisterTest(c) PROVE NoLostWakeup'
  BY <1>16 DEF UnregisterTest, Goto, At, mainvars, NoLostWakeup, TypeOK
<1>17. ASSUME NEW c \in Clients, UseFreed(c) PROVE NoLostWakeup'
  BY <1>17 DEF UseFreed, thread, registry, mainvars, NoLostWakeup, TypeOK
<1>18. ASSUME NEW c \in Clients, Close(c) PROVE NoLostWakeup'
  BY <1>18 DEF Close, Goto, At, registry, mainvars, NoLostWakeup, TypeOK
<1>19. ASSUME NEW c \in Clients, NEW outcome \in {"committed", "aborted"},
             trans_commit(c, outcome)
      PROVE NoLostWakeup'
  BY <1>19 DEF trans_commit, Goto, At, registry, mainvars, NoLostWakeup,
       TypeOK
<1>20. ASSUME NEW c \in Clients, RecvEnds(c) PROVE NoLostWakeup'
  BY <1>20, Steps DEF RecvEnds, At, abort_end, Goto, Tell, registry, mainvars,
       NoLostWakeup, TypeOK
<1>21. ASSUME NEW c \in Clients, OperationFails(c) PROVE NoLostWakeup'
  BY <1>21, Steps DEF OperationFails, ReplyFails, abort_end, Goto, Tell,
       registry, mainvars, NoLostWakeup, TypeOK
<1>22. ASSUME NEW c \in Clients, CommitReplyFails(c) PROVE NoLostWakeup'
  BY <1>22 DEF CommitReplyFails, At, ReplyFails, abort_end, Goto, Tell,
       registry, mainvars, NoLostWakeup, TypeOK
<1>23. CASE UNCHANGED vars
  BY <1>23 DEF vars, mainvars, thread, registry, NoLostWakeup, TypeOK
<1> QED
  BY <1>1, <1>2, <1>3, <1>4, <1>5, <1>6, <1>7, <1>8, <1>9, <1>10, <1>11,
     <1>12, <1>13, <1>14, <1>15, <1>16, <1>17, <1>18, <1>19, <1>20, <1>21,
     <1>22, <1>23
     DEF Next, MainStep, ServiceStep, ClientStep

(* The registry follows register and unregister, and nothing else moves it. *)
LEMMA RegistryNext == ASSUME IInv, [Next]_vars PROVE RegistryExact'
<1> USE DEF IInv
<1>1. CASE sighup_handler
  BY <1>1 DEF sighup_handler, thread, registry, RegistryExact, Registered,
       TypeOK
<1>2. CASE creg_shutdown_all
  BY <1>2 DEF creg_shutdown_all, registry, RegistryExact, Registered, TypeOK
<1>3. CASE ShutdownDone
  BY <1>3 DEF ShutdownDone, thread, registry, RegistryExact, Registered,
       TypeOK
<1>4. CASE creg_wait_for_empty
  BY <1>4 DEF creg_wait_for_empty, thread, RegistryExact, Registered, TypeOK
<1>5. CASE creg_fini
  BY <1>5 DEF creg_fini, thread, registry, RegistryExact, Registered, TypeOK
<1>6. CASE Exit
  BY <1>6 DEF Exit, thread, registry, RegistryExact, Registered, TypeOK
<1>7. ASSUME NEW c \in Clients, NEW f \in Fds, Accept(c, f) PROVE RegistryExact'
  BY <1>7 DEF Accept, Goto, registry, RegistryExact, Registered, TypeOK
<1>8. ASSUME NEW c \in Clients, Pthread_create(c) PROVE RegistryExact'
  BY <1>8 DEF Pthread_create, Goto, registry, RegistryExact, Registered,
       TypeOK
<1>9. ASSUME NEW c \in Clients, PeerCloses(c) PROVE RegistryExact'
  BY <1>9 DEF PeerCloses, registry, mainvars, RegistryExact, Registered,
       TypeOK
<1>10. ASSUME NEW c \in Clients, creg_register(c) PROVE RegistryExact'
  <2> DEFINE R == {d \in Clients : Registered(d)}
  <2>1. fd[c] \in Fds /\ fd' = fd /\ fds' = fds \cup {fd[c]} /\ val' = val + 1
    BY <1>10 DEF creg_register, At, TypeOK, Descriptors
  <2>2. R' = R \cup {c} /\ ~Registered(c)
    BY <1>10 DEF creg_register, At, Goto, TypeOK, Registered
  <2>3. fds' = {fd'[d] : d \in R'}
    BY <2>1, <2>2 DEF RegistryExact
  <2>4. fd[c] \notin fds
    BY <1>10, <2>1, <2>2 DEF RegistryExact, Descriptors, Registered
  <2>5. Cardinality(fds') = Cardinality(fds) + 1
    BY <2>1, <2>4, Counted, FS_AddElement
  <2> QED
    BY <2>1, <2>3, <2>5 DEF RegistryExact
<1>11. ASSUME NEW c \in Clients, RecvRequest(c) PROVE RegistryExact'
  BY <1>11, Steps DEF RecvRequest, Goto, At, Stay, registry, mainvars,
       RegistryExact, Registered, TypeOK
<1>12. ASSUME NEW c \in Clients, ReadPacket(c) PROVE RegistryExact'
  BY <1>12, Steps DEF ReadPacket, Goto, Stay, registry, mainvars,
       RegistryExact, Registered, TypeOK, Serving
<1>13. ASSUME NEW c \in Clients, OperationStep(c) PROVE RegistryExact'
  BY <1>13, Steps DEF OperationStep, Goto, Stay, registry, mainvars,
       RegistryExact, Registered, TypeOK, Serving
<1>14. ASSUME NEW c \in Clients, CommitReply(c) PROVE RegistryExact'
  BY <1>14 DEF CommitReply, Goto, At, Tell, registry, mainvars, RegistryExact,
       Registered, TypeOK
<1>15. ASSUME NEW c \in Clients, creg_unregister(c) PROVE RegistryExact'
  <2> DEFINE R == {d \in Clients : Registered(d)}
  <2>1. fd' = fd /\ fds' = fds \ {fd[c]} /\ val' = val - 1
    BY <1>15 DEF creg_unregister
  <2>2. R' = R \ {c} /\ Registered(c)
    BY <1>15 DEF creg_unregister, At, Goto, TypeOK, Registered
  <2>3. \A d \in R : d # c => fd[d] # fd[c]
    BY <2>2 DEF Descriptors, Registered
  <2>4. fds' = {fd'[d] : d \in R'}
    BY <2>1, <2>2, <2>3 DEF RegistryExact
  <2>5. Cardinality(fds') = Cardinality(fds) - 1
    BY <2>1, <2>2, Counted, FS_RemoveElement
  <2> QED
    BY <2>1, <2>4, <2>5 DEF RegistryExact
<1>16. ASSUME NEW c \in Clients, UnregisterTest(c) PROVE RegistryExact'
  BY <1>16 DEF UnregisterTest, Goto, At, mainvars, RegistryExact, Registered,
       TypeOK
<1>17. ASSUME NEW c \in Clients, UseFreed(c) PROVE RegistryExact'
  BY <1>17 DEF UseFreed, thread, registry, mainvars, RegistryExact,
       Registered, TypeOK
<1>18. ASSUME NEW c \in Clients, Close(c) PROVE RegistryExact'
  BY <1>18 DEF Close, Goto, At, registry, mainvars, RegistryExact, Registered,
       TypeOK
<1>19. ASSUME NEW c \in Clients, NEW outcome \in {"committed", "aborted"},
             trans_commit(c, outcome)
      PROVE RegistryExact'
  BY <1>19 DEF trans_commit, Goto, At, registry, mainvars, RegistryExact,
       Registered, TypeOK
<1>20. ASSUME NEW c \in Clients, RecvEnds(c) PROVE RegistryExact'
  BY <1>20, Steps DEF RecvEnds, At, abort_end, Goto, Tell, registry, mainvars,
       RegistryExact, Registered, TypeOK
<1>21. ASSUME NEW c \in Clients, OperationFails(c) PROVE RegistryExact'
  BY <1>21, Steps DEF OperationFails, ReplyFails, abort_end, Goto, Tell,
       registry, mainvars, RegistryExact, Registered, TypeOK
<1>22. ASSUME NEW c \in Clients, CommitReplyFails(c) PROVE RegistryExact'
  BY <1>22 DEF CommitReplyFails, At, ReplyFails, abort_end, Goto, Tell,
       registry, mainvars, RegistryExact, Registered, TypeOK
<1>23. CASE UNCHANGED vars
  BY <1>23 DEF vars, mainvars, thread, registry, RegistryExact, Registered,
       TypeOK
<1> QED
  BY <1>1, <1>2, <1>3, <1>4, <1>5, <1>6, <1>7, <1>8, <1>9, <1>10, <1>11,
     <1>12, <1>13, <1>14, <1>15, <1>16, <1>17, <1>18, <1>19, <1>20, <1>21,
     <1>22, <1>23
     DEF Next, MainStep, ServiceStep, ClientStep

-----------------------------------------------------------------------------
(* The invariant holds in every reachable state.                           *)
THEOREM Invariant == Spec => []IInv
<1>1. IInv /\ [Next]_vars => IInv'
  BY TypeNext, DescriptorsNext, OutcomesNext, WakeupNext, RegistryNext DEF IInv
<1> QED
  BY <1>1, InitIInv, PTL DEF Spec

(* Every variable keeps its type: the registry's count, which              *)
(* creg_unregister decrements without a test, never goes below zero.       *)
THEOREM TypesKept == Spec => []TypeOK
<1>1. IInv => TypeOK
  BY DEF IInv
<1> QED
  BY <1>1, Invariant, PTL

(* creg_register and creg_unregister keep the set of descriptors and the   *)
(* count exact, however many connections reuse however few descriptors.    *)
THEOREM RegistryIsExact == Spec => []RegistryExact
<1>1. IInv => RegistryExact
  BY DEF IInv
<1> QED
  BY <1>1, Invariant, PTL

(* creg_unregister tests the count after it has unlocked the registry, and *)
(* the thread that waits in creg_wait_for_empty is woken all the same.     *)
THEOREM WakeupNotLost == Spec => []NoLostWakeup
<1>1. IInv => NoLostWakeup
  BY DEF IInv
<1> QED
  BY <1>1, Invariant, PTL

(* A service thread ends with its transaction finished, and its client has *)
(* been told that transaction's outcome or nothing.                        *)
THEOREM OutcomeIsTold == Spec => []OutcomeTold
<1>1. IInv => OutcomeTold
  BY DEF IInv
<1> QED
  BY <1>1, Invariant, PTL
=============================================================================
