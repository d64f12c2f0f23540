---------------------------- MODULE XactoServer -----------------------------
(***************************************************************************)
(* The Xacto server around the transaction manager: the accept loop and    *)
(* the SIGHUP shutdown (xacto/src/main.c), the client registry             *)
(* (client_registry.c) and one service thread per connection (server.c).   *)
(*                                                                         *)
(* SIGHUP interrupts the main thread, which runs terminate() in its        *)
(* handler and never accepts again.  A packet is its request type; once    *)
(* the connection is shut down or its peer is gone, packets that have      *)
(* arrived can still be read and then reads fail; a write may fail once    *)
(* the peer is gone.  Of a transaction only the outcome is kept:           *)
(* trans_commit returns either (XactoTrans models it), trans_abort ends    *)
(* the process when the transaction has committed.                         *)
(***************************************************************************)
EXTENDS Integers, FiniteSets

CONSTANTS Clients,    \* the connections clients will make
          FD_SETSIZE  \* bound: file descriptors, fewer than connections

ASSUME FdAssumption == FD_SETSIZE \in Nat \ {0}

Fds == 1 .. FD_SETSIZE

VARIABLES
  main,    \* control point of the main thread
  cursor,  \* the i of creg_shutdown_all
  pc,      \* control point of each service thread
  fd,      \* its descriptor, 0 when it has none
  conn,    \* the connection: "open", "shut" (read side) or "gone" (peer)
  tx,      \* the thread's transaction
  told,    \* the outcome its client has been sent
  fds,     \* cr->fds
  val,     \* cr->val
  sem,     \* cr->sem
  halt     \* "no", or why the process died

registry == <<fds, val, sem>>
mainvars == <<main, cursor>>
thread == <<pc, fd, conn, tx, told>>
vars == <<mainvars, thread, registry, halt>>

Init ==
  /\ main = "accept"
  /\ cursor = 1
  /\ pc = [c \in Clients |-> "none"]
  /\ fd = [c \in Clients |-> 0]
  /\ conn = [c \in Clients |-> "open"]
  /\ tx = [c \in Clients |-> "none"]
  /\ told = [c \in Clients |-> "none"]
  /\ fds = {}
  /\ val = 0
  /\ sem = 0
  /\ halt = "no"

Alive == halt = "no" /\ main # "exit"

\* creg_fini has freed the registry.
Freed == main \in {"freed", "exit"}

Goto(c, l) == pc' = [pc EXCEPT ![c] = l]

At(c, l) == Alive /\ pc[c] = l

-----------------------------------------------------------------------------
(* The main thread.                                                        *)

Accept(c, f) ==
  /\ Alive /\ main = "accept"
  /\ pc[c] = "none"
  /\ \A o \in Clients : fd[o] # f
  /\ fd' = [fd EXCEPT ![c] = f]
  /\ Goto(c, "accepted")
  /\ main' = "spawn"
  /\ UNCHANGED <<cursor, conn, tx, told, registry, halt>>

Pthread_create(c) ==
  /\ Alive /\ main = "spawn"
  /\ pc[c] = "accepted"
  /\ Goto(c, "start")
  /\ main' = "accept"
  /\ UNCHANGED <<cursor, fd, conn, tx, told, registry, halt>>

sighup_handler ==
  /\ Alive /\ main \in {"accept", "spawn"}
  /\ main' = "shut"
  /\ UNCHANGED <<cursor, thread, registry, halt>>

\* Variant: the loop ends before the last descriptor.
ShutdownShort ==
  /\ Alive /\ main = "shut" /\ cursor <= FD_SETSIZE
  /\ conn' = [c \in Clients |->
       IF fd[c] = cursor /\ cursor \in fds /\ cursor < FD_SETSIZE /\ conn[c] = "open"
       THEN "shut" ELSE conn[c]]
  /\ cursor' = cursor + 1
  /\ UNCHANGED <<main, pc, fd, tx, told, registry, halt>>

\* One turn of creg_shutdown_all; fds is read without the mutex.
creg_shutdown_all ==
  /\ Alive /\ main = "shut" /\ cursor <= FD_SETSIZE
  /\ conn' = [c \in Clients |->
       IF fd[c] = cursor /\ cursor \in fds /\ conn[c] = "open"
       THEN "shut" ELSE conn[c]]
  /\ cursor' = cursor + 1
  /\ UNCHANGED <<main, pc, fd, tx, told, registry, halt>>

ShutdownDone ==
  /\ Alive /\ main = "shut" /\ cursor > FD_SETSIZE
  /\ main' = "wait"
  /\ UNCHANGED <<cursor, thread, registry, halt>>

creg_wait_for_empty ==
  /\ Alive /\ main = "wait"
  /\ sem > 0
  /\ sem' = sem - 1
  /\ main' = "fini"
  /\ UNCHANGED <<cursor, thread, fds, val, halt>>

creg_fini ==
  /\ Alive /\ main = "fini"
  /\ main' = "freed"
  /\ UNCHANGED <<cursor, thread, registry, halt>>

\* trans_fini, store_fini and exit.
Exit ==
  /\ Alive /\ main = "freed"
  /\ main' = "exit"
  /\ UNCHANGED <<cursor, thread, registry, halt>>

-----------------------------------------------------------------------------
(* The clients (external) and the replies they get.                        *)

PeerCloses(c) ==
  /\ Alive
  /\ fd[c] # 0
  /\ conn[c] # "gone"
  /\ conn' = [conn EXCEPT ![c] = "gone"]
  /\ UNCHANGED <<mainvars, pc, fd, tx, told, registry, halt>>

Tell(c, outcome) ==
  told' = IF conn[c] = "gone" THEN told ELSE [told EXCEPT ![c] = outcome]

\* proto_send_packet returns -1.
ReplyFails(c) == conn[c] = "gone"

\* proto_recv_packet returns -1, once it has returned what has arrived.
RecvFails(c) == conn[c] # "open"

\* Variant: the service loop ends without an abort.
EndOnly(c) ==
  /\ Tell(c, "aborted")
  /\ Goto(c, "unreg")
  /\ UNCHANGED <<mainvars, fd, conn, tx, registry, halt>>

\* abort_end: reply, end the service loop, trans_abort.
abort_end(c) ==
  /\ Tell(c, "aborted")
  /\ tx' = IF tx[c] = "committed" THEN tx ELSE [tx EXCEPT ![c] = "aborted"]
  /\ halt' = IF tx[c] = "committed" THEN "abort" ELSE halt
  /\ Goto(c, "unreg")
  /\ UNCHANGED <<mainvars, fd, conn, registry>>

-----------------------------------------------------------------------------
(* The service thread.                                                     *)

Stay == UNCHANGED <<mainvars, fd, conn, tx, told, registry, halt>>

\* Variant: the connection is not counted.
RegisterUncounted(c) ==
  /\ At(c, "start") /\ ~Freed
  /\ fds' = fds \cup {fd[c]}
  /\ tx' = [tx EXCEPT ![c] = "pending"]
  /\ Goto(c, "recv")
  /\ UNCHANGED <<mainvars, fd, conn, told, val, sem, halt>>

\* creg_register, then trans_create.
creg_register(c) ==
  /\ At(c, "start") /\ ~Freed
  /\ val' = val + 1
  /\ fds' = fds \cup {fd[c]}
  /\ tx' = [tx EXCEPT ![c] = "pending"]
  /\ Goto(c, "recv")
  /\ UNCHANGED <<mainvars, fd, conn, told, sem, halt>>

\* A request arrives: its type selects the handler.
RecvRequest(c) ==
  /\ At(c, "recv")
  /\ \E l \in {"put_key", "get_key", "commit"} : Goto(c, l)
  /\ Stay

\* A packet of another type, or none, ends the service.
RecvEnds(c) ==
  /\ At(c, "recv")
  /\ abort_end(c)

\* xacto_put_pkt and xacto_get_pkt: the packets, the store, the replies.
NextStep == [put_key |-> "put_value", put_value |-> "put_store",
             put_store |-> "put_reply", put_reply |-> "recv",
             get_key |-> "get_store", get_store |-> "get_reply",
             get_reply |-> "get_data", get_data |-> "recv"]

Reads == {"put_key", "put_value", "get_key"}

ReadPacket(c) ==
  /\ Alive /\ pc[c] \in Reads
  /\ Goto(c, NextStep[pc[c]])
  /\ Stay

OperationStep(c) ==
  /\ Alive /\ pc[c] \in DOMAIN NextStep \ Reads
  /\ Goto(c, NextStep[pc[c]])
  /\ Stay

\* A read fails, the store returns TRANS_ABORTED or a reply fails.
OperationFails(c) ==
  /\ Alive /\ pc[c] \in DOMAIN NextStep
  /\ pc[c] \in Reads => RecvFails(c)
  /\ pc[c] \in {"put_reply", "get_reply", "get_data"} => ReplyFails(c)
  /\ abort_end(c)

trans_commit(c, outcome) ==
  /\ At(c, "commit")
  /\ tx' = [tx EXCEPT ![c] = outcome]
  /\ Goto(c, "commit_reply")
  /\ UNCHANGED <<mainvars, fd, conn, told, registry, halt>>

CommitReply(c) ==
  /\ At(c, "commit_reply")
  /\ Tell(c, tx[c])
  /\ Goto(c, "unreg")
  /\ UNCHANGED <<mainvars, fd, conn, tx, registry, halt>>

\* The reply of a commit fails: abort_end of the committed transaction.
CommitReplyFails(c) ==
  /\ At(c, "commit_reply")
  /\ ReplyFails(c)
  /\ tx[c] = "committed"
  /\ abort_end(c)

\* Variant: FD_CLR is missing.
UnregisterKeepsFd(c) ==
  /\ At(c, "unreg") /\ ~Freed
  /\ val' = val - 1
  /\ Goto(c, "test")
  /\ UNCHANGED <<mainvars, fd, conn, tx, told, fds, sem, halt>>

creg_unregister(c) ==
  /\ At(c, "unreg") /\ ~Freed
  /\ val' = val - 1
  /\ fds' = fds \ {fd[c]}
  /\ Goto(c, "test")
  /\ UNCHANGED <<mainvars, fd, conn, tx, told, sem, halt>>

\* Variant: the count is tested as it was before the decrement.
UnregisterTestOld(c) ==
  /\ At(c, "test") /\ ~Freed
  /\ sem' = IF val + 1 = 0 THEN sem + 1 ELSE sem
  /\ Goto(c, "close")
  /\ UNCHANGED <<mainvars, fd, conn, tx, told, fds, val, halt>>

\* The count is tested after the unlock.
UnregisterTest(c) ==
  /\ At(c, "test") /\ ~Freed
  /\ sem' = IF val = 0 THEN sem + 1 ELSE sem
  /\ Goto(c, "close")
  /\ UNCHANGED <<mainvars, fd, conn, tx, told, fds, val, halt>>

\* The registry is used after creg_fini has freed it: undefined.
UseFreed(c) ==
  /\ Alive /\ pc[c] \in {"start", "unreg", "test"} /\ Freed
  /\ halt' = "undefined"
  /\ UNCHANGED <<mainvars, thread, registry>>

Close(c) ==
  /\ At(c, "close")
  /\ fd' = [fd EXCEPT ![c] = 0]
  /\ Goto(c, "done")
  /\ UNCHANGED <<mainvars, conn, tx, told, registry, halt>>

-----------------------------------------------------------------------------
MainStep ==
  \/ creg_shutdown_all \/ ShutdownDone \/ creg_wait_for_empty \/ creg_fini
  \/ Exit \/ \E c \in Clients : Pthread_create(c)

\* What a service thread does on its own: everything but waiting for a
\* packet and for trans_commit.
ServiceStep(c) ==
  \/ creg_register(c) \/ OperationStep(c) \/ OperationFails(c)
  \/ CommitReply(c) \/ CommitReplyFails(c)
  \/ creg_unregister(c) \/ UnregisterTest(c) \/ UseFreed(c) \/ Close(c)

\* A read that finds the end of the input.
EndOfInput(c) ==
  /\ RecvFails(c)
  /\ RecvEnds(c) \/ (pc[c] \in Reads /\ OperationFails(c))

ClientStep(c) ==
  \/ \E f \in Fds : Accept(c, f)
  \/ PeerCloses(c) \/ RecvRequest(c) \/ ReadPacket(c) \/ RecvEnds(c)
  \/ \E outcome \in {"committed", "aborted"} : trans_commit(c, outcome)

Next ==
  \/ sighup_handler \/ MainStep
  \/ \E c \in Clients : ServiceStep(c) \/ ClientStep(c)

Spec == Init /\ [][Next]_vars

\* Fairness: the scheduler runs every thread that can run, and nobody sends
\* for ever on a connection that has been shut down or closed, so its end is
\* read if it is waited for again and again.  A client may stay silent.
FairSpec ==
  /\ Spec
  /\ WF_vars(MainStep)
  /\ \A c \in Clients : WF_vars(ServiceStep(c)) /\ SF_vars(EndOfInput(c))

-----------------------------------------------------------------------------
(* Properties.                                                             *)

PC == {"none", "accepted", "start", "recv", "commit", "commit_reply", "unreg",
       "test", "close", "done"} \cup DOMAIN NextStep

TypeOK ==
  /\ main \in {"accept", "spawn", "shut", "wait", "fini", "freed", "exit"}
  /\ cursor \in 1 .. FD_SETSIZE + 1
  /\ pc \in [Clients -> PC]
  /\ fd \in [Clients -> Fds \cup {0}]
  /\ conn \in [Clients -> {"open", "shut", "gone"}]
  /\ tx \in [Clients -> {"none", "pending", "committed", "aborted"}]
  /\ told \in [Clients -> {"none", "committed", "aborted"}]
  /\ fds \subseteq Fds
  /\ val \in Nat
  /\ sem \in Nat
  /\ halt \in {"no", "abort", "undefined"}

Registered(c) ==
  pc[c] \notin {"none", "accepted", "start", "test", "close", "done"}

\* The registry knows exactly the connections being served, and counts each
\* once, although descriptors are reused as soon as they are closed: what
\* creg_shutdown_all reaches and what creg_wait_for_empty waits for agree.
RegistryExact ==
  /\ fds = {fd[c] : c \in {d \in Clients : Registered(d)}}
  /\ val = Cardinality(fds)

\* A client that empties the registry wakes the waiter: whatever the order of
\* the unlocked tests in creg_unregister, once clients have come and all have
\* left, the semaphore is up, or creg_wait_for_empty has returned.
NoLostWakeup ==
  /\ val = 0
  /\ \E c \in Clients : pc[c] \in {"close", "done"}
  /\ \A c \in Clients : pc[c] # "test"
  => sem > 0 \/ main \in {"fini", "freed", "exit"}

\* No thread leaves with a pending transaction, which would keep every
\* dependent transaction waiting, and no client is told another outcome than
\* the transaction's.
OutcomeTold ==
  \A c \in Clients :
    /\ pc[c] \in {"unreg", "test", "close", "done"} => tx[c] # "pending"
    /\ told[c] \in {"none", tx[c]}

\* Liveness: SIGHUP ends the server when every accepted connection is
\* registered and at least one has been, unless a commit waits for ever.
ShutdownEnds ==
  (/\ main = "shut" /\ cursor = 1
   /\ \A c \in Clients : pc[c] \notin {"accepted", "start"}
   /\ \E c \in Clients : pc[c] # "none")
    ~> (~Alive \/ [](\E c \in Clients : pc[c] = "commit"))
=============================================================================
