--------------------------- MODULE SpoolerProofs ----------------------------
(***************************************************************************)
(* Proofs about Spooler for any number of types, printers and jobs and any *)
(* print command.                                                          *)
(*                                                                         *)
(* The properties rest on one another.  A job is forked once because a     *)
(* queued job has never had a pipeline (Queue); the handler does not wait  *)
(* while only exits are signalled, because a signal that arrives while it  *)
(* runs leaves a second zombie behind (Signals); and a queued job is blocked when the next command is  *)
(* read because the innermost scan has found every job behind its cursor   *)
(* blocked, whatever the scans around it have left to do (Scanned).        *)
(***************************************************************************)
EXTENDS Spooler, FiniteSetTheorems, SequenceTheorems, WellFoundedInduction,
        TLAPS

\* No job is paused, since none runs when a command is read; a queued job has
\* no pipeline; the job being forked has a printer of the list.
Queue ==
  /\ \A j \in JobIds :
       /\ jobs[j].status # "PAUSED"
       /\ jobs[j].status = "QUEUED" => pipe[j] = "none"
  /\ forking # 0 => jobs[forking].chosen \in Declared

Zombies == {j \in JobIds : pipe[j] = "zombie"}

\* Unless a stop is among the signals, a pending one has a zombie of its own,
\* beside the handler's.
Signals ==
  ~owed =>
    /\ handler \/ sigchld => Zombies # {}
    /\ handler /\ sigchld => \E j, k \in Zombies : j # k

\* No printer can take the job.
Blocked(job) == \A p \in Declared : ~Usable(job, p)

\* Outside fork_conv, the queued jobs behind the innermost cursor are blocked:
\* all of them when no scan is in progress.
Scanned ==
  forking = 0 =>
    \A j \in JobIds :
      jobs[j].status = "QUEUED" /\ (calls = << >> \/ j < Cursor)
        => Blocked(jobs[j])

\* The jobs whose fork is behind the spooler.
Started == {j \in JobIds : pipe[j] # "none" /\ forking # j}

IInv ==
  /\ TypeOK
  /\ BusyAgrees
  /\ Queue
  /\ Signals
  /\ Scanned
  /\ ScanDepth

-----------------------------------------------------------------------------
(* Lists and numbers.                                                      *)

(* A non-empty set of naturals has a least element.                        *)
LEMMA Least ==
  ASSUME NEW S \in SUBSET Nat, S # {}
  PROVE  \E m \in S : \A n \in S : m <= n
<1> DEFINE Below == {ss \in Nat \X Nat : ss[1] < ss[2]}
<1>1. IsWellFoundedOn(Below, Nat)
  BY NatLessThanWellFounded, Zenon DEF OpToRel
<1> HIDE DEF Below
<1>2. PICK m \in S : \A n \in S : <<n, m>> \notin Below
  BY <1>1, WFMin
<1>3. \A n \in S : ~(n < m)
  BY <1>2 DEF Below
<1> QED
  BY <1>3

(* The lengths of the lists and the types of their elements.               *)
LEMMA Lists ==
  ASSUME TypeOK
  PROVE  /\ Len(printers) \in Nat /\ Len(jobs) \in Nat /\ Len(calls) \in Nat
         /\ Declared \subseteq Ids
         /\ \A p \in Declared : printers[p] \in Printer
         /\ \A j \in JobIds : jobs[j] \in Job /\ pipe[j] \in PIPE
         /\ calls # << >> =>
              Len(calls) \in 1 .. Len(calls) /\ Cursor \in Nat \ {0}
<1>1. /\ Len(printers) \in Nat
      /\ \A p \in Declared : printers[p] \in Printer
  BY ElementOfSeq, LenProperties DEF TypeOK, Declared
<1>2. /\ Len(jobs) \in Nat
      /\ \A j \in JobIds : jobs[j] \in Job
  BY ElementOfSeq, LenProperties DEF TypeOK, JobIds
<1>3. \A j \in JobIds : pipe[j] \in PIPE
  BY ElementOfSeq DEF TypeOK, JobIds
<1>4. Len(calls) \in Nat
  BY LenProperties DEF TypeOK
<1>5. calls # << >> =>
        Len(calls) \in 1 .. Len(calls) /\ Cursor \in Nat \ {0}
  BY <1>4, EmptySeq, ElementOfSeq DEF TypeOK, Cursor
<1>6. Declared \subseteq Ids
  BY <1>1, MaxPrintersAssumption DEF TypeOK, Declared, Ids
<1> QED
  BY <1>1, <1>2, <1>3, <1>4, <1>5, <1>6

-----------------------------------------------------------------------------
(* The choice of a printer.                                                *)

(* find_bfs returns a usable printer of the list, and none exactly when    *)
(* the job is blocked.                                                     *)
LEMMA Choice ==
  ASSUME TypeOK, NEW job
  PROVE  /\ find_bfs(job) = NoPrinter <=> Blocked(job)
         /\ find_bfs(job) # NoPrinter =>
              find_bfs(job) \in Declared /\ Usable(job, find_bfs(job))
<1> DEFINE usable == {p \in Declared : Usable(job, p)}
<1>1. usable \in SUBSET Nat /\ NoPrinter \notin usable
  BY Lists DEF Declared, NoPrinter
<1>2. CASE usable = {}
  BY <1>2 DEF find_bfs, Blocked
<1>3. CASE usable # {}
  <2> DEFINE p == CHOOSE p \in usable : \A q \in usable : p <= q
  <2>1. p \in usable
    BY <1>1, <1>3, Least
  <2>2. find_bfs(job) = p
    BY <1>3 DEF find_bfs
  <2> QED
    BY <1>1, <2>1, <2>2 DEF Blocked
<1> QED
  BY <1>2, <1>3

(* bfs depends on the types and conversions only, and Blocked on the       *)
(* printers too.                                                           *)
LEMMA SameBfs ==
  ASSUME UNCHANGED <<types, convs>>
  PROVE  \A src, dest : bfs(src, dest)' <=> bfs(src, dest)
BY DEF bfs, Ahead, Onward, Types

LEMMA SameBlocked ==
  ASSUME UNCHANGED <<types, convs, printers>>
  PROVE  \A job : Blocked(job)' <=> Blocked(job)
BY DEF Blocked, Usable, bfs, Ahead, Onward, Types, Declared

-----------------------------------------------------------------------------
(* What the steps do to the lists.                                         *)

(* A job of the list may be replaced by another.                           *)
LEMMA JobReplaced ==
  ASSUME TypeOK, NEW j \in JobIds, NEW job \in Job,
         jobs' = [jobs EXCEPT ![j] = job]
  PROVE  /\ jobs' \in Seq(Job) /\ Len(jobs') = Len(jobs) /\ JobIds' = JobIds
         /\ \A k \in JobIds : jobs'[k] = IF k = j THEN job ELSE jobs[k]
BY ExceptSeq DEF TypeOK, JobIds

(* change_job_status changes one job, and clears the printer of a job that *)
(* it ends.                                                                *)
LEMMA StatusChanged ==
  ASSUME TypeOK, NEW j \in JobIds, NEW status \in {"COMPLETED", "ABORTED"},
         change_job_status(j, status)
  PROVE  /\ jobs' \in Seq(Job) /\ Len(jobs') = Len(jobs) /\ JobIds' = JobIds
         /\ jobs'[j].status = status /\ jobs'[j].chosen = NoPrinter
         /\ \A k \in JobIds : k # j => jobs'[k] = jobs[k]
<1> DEFINE job == [jobs[j] EXCEPT !.status = status, !.chosen = NoPrinter]
<1>1. jobs[j] \in Job
  BY Lists
<1>2. job \in Job /\ job.status = status /\ job.chosen = NoPrinter
  BY <1>1 DEF Job, JOB_STATUS
<1>3. j \in DOMAIN jobs
  BY LenProperties DEF TypeOK, JobIds
<1>4. jobs' = [jobs EXCEPT ![j] = job]
  BY <1>3 DEF change_job_status
<1> HIDE DEF job
<1>5. /\ jobs' \in Seq(Job) /\ Len(jobs') = Len(jobs) /\ JobIds' = JobIds
      /\ \A k \in JobIds : jobs'[k] = IF k = j THEN job ELSE jobs[k]
  BY <1>2, <1>4, JobReplaced, Zenon
<1> QED
  BY <1>2, <1>5

(* A printer's flags change and nothing else of it.                        *)
LEMMA PrinterReplaced ==
  ASSUME TypeOK, NEW p \in Declared, NEW pr \in Printer,
         printers' = [printers EXCEPT ![p] = pr]
  PROVE  /\ printers' \in Seq(Printer) /\ Len(printers') = Len(printers)
         /\ Declared' = Declared
         /\ \A q \in Declared : printers'[q] = IF q = p THEN pr ELSE printers[q]
BY ExceptSeq DEF TypeOK, Declared

(* A pipeline moves on.                                                    *)
LEMMA PipeReplaced ==
  ASSUME TypeOK, NEW j \in JobIds, NEW state \in PIPE,
         pipe' = [pipe EXCEPT ![j] = state]
  PROVE  /\ pipe' \in Seq(PIPE) /\ Len(pipe') = Len(pipe)
         /\ \A k \in JobIds : pipe'[k] = IF k = j THEN state ELSE pipe[k]
BY ExceptSeq DEF TypeOK, JobIds

(* When the process ends nothing is left to go wrong.                      *)
LEMMA Ended ==
  ASSUME NEW why \in {"quit", "crash"}, Ends(why)
  PROVE  IInv'
<1>1. TypeOK'
  <2>1. \A S : << >> \in Seq(S) /\ Len(<< >>) = 0
    BY EmptySeq
  <2>2. (/\ printers \in Seq(Printer) /\ Len(printers) < MAX_PRINTERS
         /\ jobs \in Seq(Job)
         /\ pipe \in Seq(PIPE) /\ Len(pipe) = Len(jobs)
         /\ calls \in Seq(Nat \ {0}))'
    BY <2>1, MaxPrintersAssumption DEF Ends
  <2>3. types' \in 0 .. MaxTypes /\ forking' \in JobIds' \cup {0}
    BY MaxJobsAssumption DEF Ends
  <2>4. (convs \subseteq Types \X Types)'
    BY DEF Ends
  <2>5. (sigchld \in BOOLEAN /\ handler \in BOOLEAN /\ owed \in BOOLEAN)'
    BY DEF Ends
  <2>6. halt' \in {"no", "quit", "crash"}
    BY DEF Ends
  <2> QED
    BY <2>2, <2>3, <2>4, <2>5, <2>6 DEF TypeOK
<1>2. JobIds' = {} /\ Declared' = {}
  BY EmptySeq DEF Ends, JobIds, Declared
<1>3. (BusyAgrees /\ Queue /\ Signals /\ Scanned)'
  BY <1>2 DEF Ends, BusyAgrees, Queue, Signals, Scanned
<1>4. {j \in JobIds : pipe[j] # "none" /\ forking # j}' = {}
  BY <1>2
<1>5. ScanDepth'
  BY <1>4, EmptySeq, FS_EmptySet DEF Ends, ScanDepth
<1> QED
  BY <1>1, <1>3, <1>5 DEF IInv

(* While no type is declared, the lists keep the types of their elements.  *)
LEMMA TypeKept ==
  ASSUME TypeOK, UNCHANGED config,
         printers' \in Seq(Printer), Len(printers') < MAX_PRINTERS,
         jobs' \in Seq(Job), pipe' \in Seq(PIPE), Len(pipe') = Len(jobs'),
         calls' \in Seq(Nat \ {0}), forking' \in 1 .. Len(jobs') \cup {0},
         sigchld' \in BOOLEAN, handler' \in BOOLEAN, owed' \in BOOLEAN,
         halt' \in {"no", "quit", "crash"}
  PROVE  TypeOK'
<1>1. Types' = Types
  BY DEF config, Types
<1>2. Job' = Job /\ Printer' = Printer
  BY <1>1 DEF Job, Printer
<1>3. JobIds' = 1 .. Len(jobs')
  BY DEF JobIds
<1> QED
  BY <1>1, <1>2, <1>3 DEF TypeOK, config

(* ScanDepth compares two natural numbers.                                 *)
LEMMA StartedCounts ==
  ASSUME TypeOK
  PROVE  /\ IsFiniteSet(Started) /\ Cardinality(Started) \in Nat
         /\ ScanDepth <=> Len(calls) <= 1 + Cardinality(Started)
<1>1. IsFiniteSet(JobIds)
  BY Lists, FS_Interval DEF JobIds
<1>2. IsFiniteSet(Started)
  BY <1>1, FS_Subset DEF Started
<1> QED
  BY <1>2, FS_CardinalityType DEF ScanDepth, Started

(* Nothing but the signals and the pipelines concerns the handler, and     *)
(* nothing but the pipelines and the fork the depth of the scans.          *)
LEMMA SameSignals ==
  ASSUME Signals, UNCHANGED <<pipe, signals>>, JobIds' = JobIds
  PROVE  Signals'
BY DEF Signals, Zombies, signals

LEMMA SameDepth ==
  ASSUME ScanDepth, UNCHANGED <<pipe, forking, calls>>, JobIds' = JobIds
  PROVE  ScanDepth'
BY DEF ScanDepth

(* The innermost cursor moves to the next job.                             *)
LEMMA NextJobMoves ==
  ASSUME TypeOK, calls # << >>, NextJob
  PROVE  /\ calls' \in Seq(Nat \ {0}) /\ Len(calls') = Len(calls) /\ calls' # << >>
         /\ Cursor' = Cursor + 1
<1> DEFINE n == Cursor + 1
<1>1. Len(calls) \in 1 .. Len(calls) /\ n \in Nat \ {0} /\ Len(calls) # 0
  BY Lists
<1>2. calls' = [calls EXCEPT ![Len(calls)] = n]
  BY <1>1, LenProperties DEF NextJob, Cursor, TypeOK
<1> HIDE DEF n
<1>3. /\ calls' \in Seq(Nat \ {0}) /\ Len(calls') = Len(calls)
      /\ calls'[Len(calls)] = n
  BY <1>1, <1>2, ExceptSeq DEF TypeOK
<1>4. calls' # << >>
  BY <1>1, <1>3, EmptySeq
<1> QED
  BY <1>3, <1>4 DEF Cursor, n

-----------------------------------------------------------------------------
(* fork_conv and process_print.                                            *)

(* The fork is about a job that runs, which is neither queued nor scanned. *)
LEMMA ForkKeeps ==
  ASSUME IInv, Fork \/ ForkFails
  PROVE  IInv'
<1> USE DEF IInv
<1>1. PICK state \in {"running", "failed"} :
        /\ Running /\ forking # 0 /\ pipe[forking] = "none"
        /\ pipe' = [pipe EXCEPT ![forking] = state]
        /\ UNCHANGED <<config, printers, jobs, calls, forking, signals, halt>>
  BY DEF Fork, ForkFails
<1>2. forking \in JobIds /\ jobs[forking].status = "RUNNING"
  BY <1>1 DEF TypeOK, BusyAgrees
<1>3. /\ pipe' \in Seq(PIPE) /\ Len(pipe') = Len(pipe)
      /\ \A k \in JobIds : pipe'[k] = IF k = forking THEN state ELSE pipe[k]
  <2>1. state \in PIPE
    BY DEF PIPE
  <2> QED
    BY <1>1, <1>2, <2>1, PipeReplaced, Zenon
<1>4. TypeOK'
  BY <1>1, <1>3, TypeKept DEF TypeOK, JobIds, signals
<1>5. JobIds' = JobIds /\ Declared' = Declared
  BY <1>1 DEF JobIds, Declared
<1>6. BusyAgrees' /\ Queue'
  BY <1>1, <1>2, <1>3, <1>5 DEF BusyAgrees, Queue
<1>7. Zombies' = Zombies
  BY <1>1, <1>3, <1>5 DEF Zombies
<1>8. Signals'
  BY <1>1, <1>7 DEF Signals, signals
<1>9. Scanned'
  BY <1>1 DEF Scanned
<1>10. Started' = Started
  BY <1>1, <1>3, <1>5 DEF Started
<1>11. ScanDepth'
  BY <1>1, <1>4, <1>10, StartedCounts DEF ScanDepth, Started
<1> QED
  BY <1>4, <1>6, <1>8, <1>9, <1>11

(* The job is over and its printer free: a scan of the whole queue begins, *)
(* and there is one more job that has been started.                        *)
LEMMA ForkedKeeps ==
  ASSUME IInv, Forked
  PROVE  IInv'
<1> USE DEF IInv
<1> DEFINE p == jobs[forking].chosen
           pr == [printers[p] EXCEPT !.busy = FALSE]
<1>1. /\ forking \in JobIds /\ forking # 0 /\ p \in Declared
      /\ pipe[forking] # "none"
  BY DEF Forked, TypeOK, Queue
<1>2. /\ jobs' \in Seq(Job) /\ Len(jobs') = Len(jobs) /\ JobIds' = JobIds
      /\ jobs'[forking].status = "ABORTED" /\ jobs'[forking].chosen = NoPrinter
      /\ \A k \in JobIds : k # forking => jobs'[k] = jobs[k]
  BY <1>1, StatusChanged DEF Forked
<1>3. pr \in Printer /\ ~pr.busy
  BY <1>1, Lists DEF Printer
<1>4. p \in DOMAIN printers
  BY <1>1, LenProperties DEF TypeOK, Declared
<1>5. printers' = [printers EXCEPT ![p] = pr]
  BY <1>4 DEF Forked
<1> HIDE DEF p, pr
<1>6. /\ printers' \in Seq(Printer) /\ Len(printers') = Len(printers)
      /\ Declared' = Declared
      /\ \A q \in Declared : printers'[q] = IF q = p THEN pr ELSE printers[q]
  BY <1>1, <1>3, <1>5, PrinterReplaced, Zenon
<1>7. /\ calls' \in Seq(Nat \ {0}) /\ calls' # << >> /\ Cursor' = 1
      /\ Len(calls') = Len(calls) + 1
  <2>1. calls' = Append(calls, 1) /\ calls \in Seq(Nat \ {0}) /\ 1 \in Nat \ {0}
    BY DEF Forked, TypeOK
  <2>2. /\ calls' \in Seq(Nat \ {0}) /\ calls' # << >>
        /\ Len(calls') = Len(calls) + 1 /\ calls'[Len(calls) + 1] = 1
    BY <2>1, AppendProperties
  <2> QED
    BY <2>2 DEF Cursor
<1>8. TypeOK'
  BY <1>2, <1>6, <1>7, TypeKept DEF Forked, TypeOK, signals
<1>9. BusyAgrees'
  <2>1. \A q \in Declared : ~printers'[q].busy
    BY <1>1, <1>3, <1>6 DEF BusyAgrees, p
  <2>2. \A j \in JobIds :
          jobs'[j].status # "RUNNING" /\ jobs'[j].chosen = NoPrinter
    BY <1>1, <1>2 DEF BusyAgrees
  <2> QED
    BY <1>2, <1>6, <2>1, <2>2 DEF Forked, BusyAgrees, JobIds, NoPrinter
<1>10. Queue'
  BY <1>1, <1>2 DEF Forked, Queue
<1>11. Signals'
  BY <1>2, SameSignals DEF Forked
<1>12. Scanned'
  BY <1>2, <1>7 DEF Scanned, JobIds
<1>13. ScanDepth'
  <2>1. Started' = Started \cup {forking} /\ forking \notin Started
    BY <1>1, <1>2 DEF Forked, Started, JobIds
  <2>2. Cardinality(Started') = Cardinality(Started) + 1
    BY <2>1, StartedCounts, FS_AddElement
  <2>3. Len(calls') <= 1 + Cardinality(Started')
    BY <1>7, <2>2, Lists, StartedCounts
  <2> QED
    BY <2>3 DEF ScanDepth, Started
<1> QED
  BY <1>8, <1>9, <1>10, <1>11, <1>12, <1>13

(* A queued job that has a usable printer gets it.                         *)
LEMMA ScanStartKeeps ==
  ASSUME IInv, ScanStart
  PROVE  IInv'
<1> USE DEF IInv
<1> DEFINE j == Cursor
           p == find_bfs(jobs[j])
           job == Given(jobs[j], p)
           pr == [printers[p] EXCEPT !.busy = TRUE]
<1>1. /\ j \in JobIds /\ j \in Nat \ {0} /\ jobs[j] \in Job /\ calls # << >>
      /\ forking = 0 /\ jobs[j].status = "QUEUED" /\ pipe[j] = "none"
  BY Lists DEF ScanStart, Scanning, Queue, JobIds
<1>2. p \in Declared /\ Usable(jobs[j], p) /\ p # NoPrinter
  BY Choice DEF ScanStart
<1>3. /\ printers[p] \in Printer /\ p \in Ids /\ p \in DOMAIN printers
      /\ p \in jobs[j].eligible
  BY <1>2, Lists, LenProperties DEF TypeOK, Declared, Usable
<1>4. pr \in Printer /\ pr.busy
  BY <1>3 DEF Printer
<1>5. /\ job \in Job /\ job.status = "RUNNING" /\ job.chosen = p
      /\ job.eligible = jobs[j].eligible
  BY <1>1, <1>3 DEF Given, Job, JOB_STATUS
<1>6. printers' = [printers EXCEPT ![p] = pr]
  BY <1>3 DEF ScanStart, TakePrinter
<1>7. jobs' = [jobs EXCEPT ![j] = job]
  <2>1. j \in DOMAIN jobs
    BY <1>1, LenProperties DEF TypeOK, JobIds
  <2> QED
    BY <2>1 DEF ScanStart
<1>8. forking' = j /\ pipe' = pipe /\ UNCHANGED <<config, signals, halt>>
  BY DEF ScanStart
<1>9. calls' \in Seq(Nat \ {0}) /\ Len(calls') = Len(calls) /\ calls' # << >>
  BY NextJobMoves, <1>1 DEF ScanStart
<1> HIDE DEF j, p, job, pr
<1>10. /\ printers' \in Seq(Printer) /\ Len(printers') = Len(printers)
       /\ Declared' = Declared
       /\ \A q \in Declared : printers'[q] = IF q = p THEN pr ELSE printers[q]
  BY <1>2, <1>4, <1>6, PrinterReplaced, Zenon
<1>11. /\ jobs' \in Seq(Job) /\ Len(jobs') = Len(jobs) /\ JobIds' = JobIds
       /\ \A k \in JobIds : jobs'[k] = IF k = j THEN job ELSE jobs[k]
  BY <1>1, <1>5, <1>7, JobReplaced, Zenon
<1>12. TypeOK'
  BY <1>1, <1>8, <1>9, <1>10, <1>11, TypeKept DEF TypeOK, signals, JobIds
<1>13. BusyAgrees'
  <2>1. \A q \in Declared : printers'[q].busy <=> q = p
    BY <1>1, <1>4, <1>10 DEF BusyAgrees
  <2>2. \A k \in JobIds :
          /\ jobs'[k].status = "RUNNING" <=> j = k
          /\ jobs'[k].chosen # NoPrinter =>
               j = k /\ jobs'[k].chosen \in jobs'[k].eligible
    BY <1>1, <1>3, <1>5, <1>11 DEF BusyAgrees, JobIds
  <2> QED
    BY <1>1, <1>5, <1>8, <1>10, <1>11, <2>1, <2>2 DEF BusyAgrees
<1>14. Queue'
  BY <1>1, <1>2, <1>5, <1>8, <1>10, <1>11 DEF Queue
<1>15. Signals'
  BY <1>8, <1>11, SameSignals
<1>16. Scanned'
  BY <1>1, <1>8 DEF Scanned
<1>17. ScanDepth'
  <2>1. Started' = Started
    BY <1>1, <1>8, <1>11 DEF Started, JobIds
  <2> QED
    BY <1>9, <2>1 DEF ScanDepth, Started
<1> QED
  BY <1>12, <1>13, <1>14, <1>15, <1>16, <1>17

(* The cursor passes a job that is not queued or is blocked.               *)
LEMMA ScanPassKeeps ==
  ASSUME IInv, ScanPass
  PROVE  IInv'
<1> USE DEF IInv
<1>1. /\ calls # << >> /\ forking = 0 /\ Cursor \in JobIds /\ NextJob
      /\ UNCHANGED <<config, printers, jobs, pipe, forking, signals, halt>>
  BY DEF ScanPass, Scanning
<1>2. jobs[Cursor].status = "QUEUED" => Blocked(jobs[Cursor])
  BY Choice DEF ScanPass
<1>3. /\ calls' \in Seq(Nat \ {0}) /\ Len(calls') = Len(calls) /\ calls' # << >>
      /\ Cursor' = Cursor + 1
  BY <1>1, NextJobMoves
<1>4. TypeOK'
  BY <1>1, <1>3, TypeKept DEF TypeOK, signals, JobIds
<1>5. JobIds' = JobIds /\ Declared' = Declared
  BY <1>1 DEF JobIds, Declared
<1>6. BusyAgrees' /\ Queue'
  BY <1>1, <1>5 DEF BusyAgrees, Queue
<1>7. Signals'
  BY <1>1, <1>5, SameSignals
<1>8. Scanned'
  <2>1. \A job : Blocked(job)' <=> Blocked(job)
    BY <1>1, SameBlocked DEF config
  <2>2. ASSUME NEW j \in JobIds, jobs[j].status = "QUEUED", j < Cursor + 1
        PROVE  Blocked(jobs[j])
    BY <1>1, <1>2, <2>2, Lists DEF Scanned, JobIds
  <2> QED
    BY <1>1, <1>3, <1>5, <2>1, <2>2 DEF Scanned
<1>9. Started' = Started
  BY <1>1, <1>5 DEF Started
<1>10. ScanDepth'
  BY <1>3, <1>9 DEF ScanDepth, Started
<1> QED
  BY <1>4, <1>6, <1>7, <1>8, <1>10

(* A scan that has passed every job leaves nothing to the scan around it.  *)
LEMMA ScanEndKeeps ==
  ASSUME IInv, ScanEnd
  PROVE  IInv'
<1> USE DEF IInv
<1>1. /\ calls # << >> /\ forking = 0 /\ Cursor \notin JobIds
      /\ calls' = SubSeq(calls, 1, Len(calls) - 1)
      /\ UNCHANGED <<config, printers, jobs, pipe, forking, signals, halt>>
  BY DEF ScanEnd, Scanning
<1>2. calls' \in Seq(Nat \ {0}) /\ Len(calls') = Len(calls) - 1
  <2>1. Len(calls) \in Nat \ {0}
    BY <1>1, EmptySeq DEF TypeOK
  <2> DEFINE n == Len(calls) - 1
  <2>2. 1 \in Int /\ n \in Int /\ \A i \in 1 .. n : calls[i] \in Nat \ {0}
    BY <2>1, ElementOfSeq DEF TypeOK
  <2>3. calls' = SubSeq(calls, 1, n) /\ n = Len(calls) - 1
    BY <1>1
  <2> HIDE DEF n
  <2>4. /\ SubSeq(calls, 1, n) \in Seq(Nat \ {0})
        /\ Len(SubSeq(calls, 1, n)) = IF 1 <= n THEN n - 1 + 1 ELSE 0
    BY <2>2, SubSeqProperties
  <2>5. /\ calls' \in Seq(Nat \ {0})
        /\ Len(calls') = IF 1 <= n THEN n - 1 + 1 ELSE 0
    BY <2>3, <2>4, Zenon
  <2> QED
    BY <2>1, <2>3, <2>5
<1>3. TypeOK'
  BY <1>1, <1>2, TypeKept DEF TypeOK, signals, JobIds
<1>4. JobIds' = JobIds /\ Declared' = Declared
  BY <1>1 DEF JobIds, Declared
<1>5. BusyAgrees' /\ Queue'
  BY <1>1, <1>4 DEF BusyAgrees, Queue
<1>6. Signals'
  BY <1>1, <1>4, SameSignals
<1>7. Scanned'
  <2>1. \A job : Blocked(job)' <=> Blocked(job)
    BY <1>1, SameBlocked DEF config
  <2>2. ASSUME NEW j \in JobIds, jobs[j].status = "QUEUED"
        PROVE  Blocked(jobs[j])
    BY <1>1, <2>2, Lists DEF Scanned, JobIds
  <2> QED
    BY <1>1, <1>4, <2>1, <2>2 DEF Scanned
<1>8. Started' = Started
  BY <1>1, <1>4 DEF Started
<1>9. ScanDepth'
  <2>1. Len(calls') <= 1 + Cardinality(Started')
    BY <1>2, <1>8, Lists, StartedCounts
  <2> QED
    BY <2>1 DEF ScanDepth, Started
<1> QED
  BY <1>3, <1>5, <1>6, <1>7, <1>9

-----------------------------------------------------------------------------
(* The commands.                                                           *)

(* A new type is no step of any conversion, so it makes no printer usable. *)
LEMMA TypeCommandKeeps ==
  ASSUME IInv, type
  PROVE  IInv'
<1> USE DEF IInv
<1>1. /\ types' = types + 1 /\ types < MaxTypes
      /\ UNCHANGED <<convs, printers, jobs, pipe, calls, forking, signals, halt>>
  BY DEF type
<1>2. Types \subseteq Types'
  BY <1>1 DEF TypeOK, Types
<1>3. Job \subseteq Job' /\ Printer \subseteq Printer'
  BY <1>2 DEF Job, Printer
<1>4. JobIds' = JobIds /\ Declared' = Declared
  BY <1>1 DEF JobIds, Declared
<1>5. TypeOK'
  <2>1. jobs' \in Seq(Job') /\ printers' \in Seq(Printer')
    BY <1>1, <1>3, SeqMonotonic DEF TypeOK
  <2>2. types' \in 0 .. MaxTypes
    BY <1>1, MaxJobsAssumption DEF TypeOK
  <2> QED
    BY <1>1, <1>2, <1>4, <2>1, <2>2 DEF TypeOK, signals
<1>6. BusyAgrees' /\ Queue'
  BY <1>1, <1>4 DEF BusyAgrees, Queue
<1>7. Signals' /\ ScanDepth'
  BY <1>1, <1>4, SameSignals, SameDepth
<1>8. ASSUME NEW job, Blocked(job) PROVE Blocked(job)'
  <2>1. convs \subseteq Types \X Types
    BY DEF TypeOK
  <2>2. ASSUME NEW src, NEW t \in Types, t \in Ahead(src)' PROVE t \in Ahead(src)
    BY <1>1, <1>2, <2>1, <2>2 DEF Ahead, Onward
  <2>3. ASSUME NEW src, NEW dest, bfs(src, dest)' PROVE bfs(src, dest)
    BY <1>1, <2>1, <2>2, <2>3 DEF bfs
  <2> QED
    BY <1>1, <1>4, <1>8, <2>3 DEF Blocked, Usable
<1>9. Scanned'
  BY <1>1, <1>4, <1>8 DEF Scanned, Cursor
<1> QED
  BY <1>5, <1>6, <1>7, <1>9

(* A new printer is disabled, hence not usable.                            *)
LEMMA PrinterCommandKeeps ==
  ASSUME IInv, NEW t \in Types, printer(t)
  PROVE  IInv'
<1> USE DEF IInv
<1> DEFINE pr == [type |-> t, enabled |-> FALSE, busy |-> FALSE]
           n == Len(printers) + 1
<1>1. /\ printers' = Append(printers, pr) /\ n # MAX_PRINTERS /\ forking = 0
      /\ UNCHANGED <<config, jobs, pipe, calls, forking, signals, halt>>
  BY DEF printer, Ready
<1>2. pr \in Printer /\ ~pr.enabled /\ ~pr.busy
  BY DEF Printer
<1> HIDE DEF pr
<1>3. /\ printers' \in Seq(Printer) /\ Len(printers') = n /\ printers'[n] = pr
      /\ \A p \in Declared : printers'[p] = printers[p]
  BY <1>1, <1>2, AppendProperties DEF TypeOK, Declared
<1>4. Declared' = Declared \cup {n} /\ JobIds' = JobIds
  BY <1>1, <1>3, Lists DEF Declared, JobIds
<1>5. TypeOK'
  <2>1. Len(printers') < MAX_PRINTERS
    BY <1>1, <1>3, Lists, MaxPrintersAssumption DEF TypeOK
  <2> QED
    BY <1>1, <1>3, <2>1, TypeKept DEF TypeOK, signals, JobIds
<1>6. BusyAgrees' /\ Queue'
  <2>1. \A p \in Declared' : ~printers'[p].busy
    BY <1>1, <1>2, <1>3, <1>4 DEF BusyAgrees
  <2>2. BusyAgrees'
    BY <1>1, <1>4, <2>1 DEF BusyAgrees
  <2>3. Queue'
    BY <1>1, <1>4 DEF Queue
  <2> QED
    BY <2>2, <2>3
<1>7. Signals' /\ ScanDepth'
  BY <1>1, <1>4, SameSignals, SameDepth
<1>8. ASSUME NEW job, Blocked(job) PROVE Blocked(job)'
  <2>1. \A src, dest : bfs(src, dest)' <=> bfs(src, dest)
    BY <1>1, SameBfs DEF config
  <2> QED
    BY <1>2, <1>3, <1>4, <1>8, <2>1 DEF Blocked, Usable
<1>9. Scanned'
  BY <1>1, <1>4, <1>8 DEF Scanned, Cursor
<1> QED
  BY <1>5, <1>6, <1>7, <1>9

(* A new conversion and an enabled printer make jobs startable, and a scan *)
(* of the whole queue follows.                                             *)
LEMMA ConversionKeeps ==
  ASSUME IInv, NEW a \in Types, NEW b \in Types, conversion(a, b)
  PROVE  IInv'
<1> USE DEF IInv
<1>1. /\ calls' = <<1>> /\ convs' \subseteq Types \X Types
      /\ UNCHANGED <<types, printers, jobs, pipe, forking, signals, halt>>
  BY DEF conversion, TypeOK
<1>2. /\ Types' = Types /\ Job' = Job /\ Printer' = Printer
      /\ JobIds' = JobIds /\ Declared' = Declared
  BY <1>1 DEF Types, Job, Printer, JobIds, Declared
<1>3. /\ calls' \in Seq(Nat \ {0}) /\ Len(calls') = 1 /\ calls' # << >>
      /\ Cursor' = 1
  BY <1>1 DEF Cursor
<1>4. TypeOK'
  BY <1>1, <1>2, <1>3 DEF TypeOK, signals
<1>5. BusyAgrees' /\ Queue'
  BY <1>1, <1>2 DEF BusyAgrees, Queue
<1>6. Signals'
  BY <1>1, <1>2, SameSignals
<1>7. Scanned'
  BY <1>2, <1>3 DEF Scanned, JobIds
<1>8. Started' = Started
  BY <1>1, <1>2 DEF Started
<1>9. ScanDepth'
  <2>1. Len(calls') <= 1 + Cardinality(Started')
    BY <1>3, <1>8, StartedCounts
  <2> QED
    BY <2>1 DEF ScanDepth, Started
<1> QED
  BY <1>4, <1>5, <1>6, <1>7, <1>9

(* disable makes a printer unusable; enable is followed by a scan.         *)
LEMMA SwitchKeeps ==
  ASSUME IInv, NEW p \in Declared, disable(p) \/ enable(p)
  PROVE  IInv'
<1> USE DEF IInv
<1>1. PICK on \in BOOLEAN :
        /\ printers' = [printers EXCEPT ![p].enabled = on]
        /\ on => calls' = <<1>>
        /\ ~on => calls' = calls
        /\ Ready
        /\ UNCHANGED <<config, jobs, pipe, forking, signals, halt>>
  BY DEF disable, enable
<1> DEFINE pr == [printers[p] EXCEPT !.enabled = on]
<1>2. printers[p] \in Printer /\ p \in DOMAIN printers
  BY Lists, LenProperties DEF TypeOK, Declared
<1>3. /\ pr \in Printer /\ pr.type = printers[p].type
      /\ pr.enabled = on /\ pr.busy = printers[p].busy
  BY <1>2 DEF Printer
<1>4. printers' = [printers EXCEPT ![p] = pr]
  BY <1>1, <1>2
<1> HIDE DEF pr
<1>5. /\ printers' \in Seq(Printer) /\ Len(printers') = Len(printers)
      /\ Declared' = Declared
      /\ \A q \in Declared : printers'[q] = IF q = p THEN pr ELSE printers[q]
  BY <1>3, <1>4, PrinterReplaced, Zenon
<1>6. JobIds' = JobIds
  BY <1>1 DEF JobIds
<1>7. calls' \in Seq(Nat \ {0}) /\ Len(calls') <= 1
  <2>1. CASE on
    <3>1. <<1>> \in Seq(Nat \ {0}) /\ Len(<<1>>) = 1
      OBVIOUS
    <3>2. calls' = <<1>>
      BY <1>1, <2>1, Zenon
    <3> QED
      BY <3>1, <3>2
  <2>2. CASE ~on
    BY <1>1, <2>2, EmptySeq DEF TypeOK, Ready
  <2> QED
    BY <2>1, <2>2
<1>8. TypeOK'
  BY <1>1, <1>5, <1>7, TypeKept DEF TypeOK, signals, JobIds
<1>9. BusyAgrees' /\ Queue'
  BY <1>1, <1>3, <1>5, <1>6 DEF BusyAgrees, Queue
<1>10. Signals'
  BY <1>1, <1>6, SameSignals
<1>11. Scanned'
  <2>1. CASE on
    <3>1. calls' = <<1>>
      BY <1>1, <2>1, Zenon
    <3>2. calls' # << >> /\ Cursor' = 1
      BY <3>1 DEF Cursor
    <3> QED
      BY <1>6, <3>2 DEF Scanned, JobIds
  <2>2. CASE ~on
    <3>1. ASSUME NEW job, Blocked(job) PROVE Blocked(job)'
      <4>1. \A src, dest : bfs(src, dest)' <=> bfs(src, dest)
        BY <1>1, SameBfs DEF config
      <4> QED
        BY <1>3, <1>5, <2>2, <3>1, <4>1 DEF Blocked, Usable
    <3> QED
      BY <1>1, <1>6, <2>2, <3>1 DEF Scanned, Cursor
  <2> QED
    BY <2>1, <2>2
<1>12. Started' = Started
  BY <1>1, <1>6 DEF Started
<1>13. ScanDepth'
  <2>1. Len(calls') <= 1 + Cardinality(Started')
    BY <1>7, <1>8, <1>12, StartedCounts, LenProperties DEF TypeOK
  <2> QED
    BY <2>1 DEF ScanDepth, Started
<1> QED
  BY <1>8, <1>9, <1>10, <1>11, <1>13

(* cancel ends a job; pause and resume find none they apply to.            *)
LEMMA JobCommandKeeps ==
  ASSUME IInv, NEW j \in JobIds, cancel(j) \/ pause(j) \/ resume(j)
  PROVE  IInv'
<1> USE DEF IInv
<1>1. /\ forking = 0 /\ calls = << >>
      /\ UNCHANGED <<config, printers, pipe, calls, forking, signals, halt>>
  BY DEF cancel, pause, resume, Ready
<1>2. /\ jobs' \in Seq(Job) /\ Len(jobs') = Len(jobs) /\ JobIds' = JobIds
      /\ \A k \in JobIds :
           \/ jobs'[k] = jobs[k]
           \/ jobs'[k].status = "ABORTED" /\ jobs'[k].chosen = NoPrinter
  <2>1. CASE cancel(j)
    BY <2>1, StatusChanged DEF cancel
  <2>2. CASE pause(j) \/ resume(j)
    <3>1. jobs[j].status \notin {"RUNNING", "PAUSED"}
      BY <1>1 DEF BusyAgrees, Queue, JobIds
    <3>2. jobs' = jobs
      BY <2>2, <3>1 DEF pause, resume
    <3> QED
      BY <3>2 DEF TypeOK, JobIds
  <2> QED
    BY <2>1, <2>2
<1>3. TypeOK'
  BY <1>1, <1>2, TypeKept DEF TypeOK, signals, JobIds
<1>4. Declared' = Declared
  BY <1>1 DEF Declared
<1>5. BusyAgrees' /\ Queue'
  BY <1>1, <1>2, <1>4 DEF BusyAgrees, Queue, JobIds
<1>6. Signals' /\ ScanDepth'
  BY <1>1, <1>2, SameSignals, SameDepth
<1>7. Scanned'
  <2>1. \A job : Blocked(job)' <=> Blocked(job)
    BY <1>1, SameBlocked DEF config
  <2> QED
    BY <1>1, <1>2, <2>1 DEF Scanned, Cursor
<1> QED
  BY <1>3, <1>5, <1>6, <1>7

(* A new job is queued if it is blocked, and gets its printer otherwise.   *)
LEMMA PrintKeeps ==
  ASSUME IInv, NEW t \in Types, NEW named, print(t, named)
  PROVE  IInv'
<1> USE DEF IInv
<1> DEFINE new == NewJob(t, named)
           p == find_bfs(new)
           n == Len(jobs) + 1
<1>1. /\ forking = 0 /\ calls = << >> /\ pipe' = Append(pipe, "none")
      /\ UNCHANGED <<config, calls, signals, halt>>
  BY DEF print, Ready
<1>2. /\ new \in Job /\ new.status = "QUEUED" /\ new.chosen = NoPrinter
  <2>1. PrinterSet(named) \subseteq Ids
    BY Lists DEF PrinterSet
  <2> QED
    BY <2>1 DEF NewJob, Job, JOB_STATUS
<1>3. n \in Nat /\ n # 0 /\ n \notin JobIds
  BY Lists DEF JobIds
<1>4. /\ pipe' \in Seq(PIPE) /\ Len(pipe') = n /\ pipe'[n] = "none"
      /\ \A k \in JobIds : pipe'[k] = pipe[k]
  <2>1. "none" \in PIPE
    BY DEF PIPE
  <2> QED
    BY <1>1, <2>1, AppendProperties DEF TypeOK, JobIds
<1> HIDE DEF n
<1>5. ASSUME NEW job \in Job, jobs' = Append(jobs, job)
      PROVE  /\ jobs' \in Seq(Job) /\ Len(jobs') = n /\ jobs'[n] = job
             /\ JobIds' = JobIds \cup {n}
             /\ \A k \in JobIds : jobs'[k] = jobs[k]
  <2>1. /\ jobs' \in Seq(Job) /\ Len(jobs') = n /\ jobs'[n] = job
        /\ \A k \in JobIds : jobs'[k] = jobs[k]
    BY <1>5, AppendProperties DEF TypeOK, JobIds, n
  <2> QED
    BY <2>1, Lists DEF JobIds, n
<1>6. ASSUME JobIds' = JobIds \cup {n}, forking' \in {0, n}
      PROVE  Signals' /\ ScanDepth'
  <2>1. Zombies' = Zombies /\ Started' = Started
    BY <1>1, <1>3, <1>4, <1>6 DEF Zombies, Started, JobIds
  <2>2. Signals'
    BY <1>1, <2>1 DEF Signals, signals
  <2>3. ScanDepth'
    BY <1>1, <2>1 DEF ScanDepth, Started
  <2> QED
    BY <2>2, <2>3
<1>7. CASE p = NoPrinter
  <2>1. jobs' = Append(jobs, new) /\ UNCHANGED <<printers, forking>>
    BY <1>7 DEF print
  <2>2. Blocked(new)
    BY <1>7, Choice
  <2> HIDE DEF new, p
  <2>3. /\ jobs' \in Seq(Job) /\ Len(jobs') = n /\ jobs'[n] = new
        /\ JobIds' = JobIds \cup {n}
        /\ \A k \in JobIds : jobs'[k] = jobs[k]
    BY <1>2, <1>5, <2>1
  <2>4. TypeOK'
    BY <1>1, <1>4, <2>1, <2>3, TypeKept DEF TypeOK, signals, JobIds
  <2>5. Declared' = Declared
    BY <2>1 DEF Declared
  <2>6. BusyAgrees' /\ Queue'
    <3>1. BusyAgrees'
      <4>1. \A q \in Declared : ~printers[q].busy
        BY <1>1 DEF BusyAgrees
      <4>2. \A k \in JobIds :
              jobs[k].status # "RUNNING" /\ jobs[k].chosen = NoPrinter
        BY <1>1 DEF BusyAgrees, JobIds
      <4>3. \A k \in JobIds' :
              jobs'[k].status # "RUNNING" /\ jobs'[k].chosen = NoPrinter
        BY <1>2, <2>3, <4>2
      <4>4. 0 \notin JobIds'
        BY DEF JobIds
      <4> QED
        BY <1>1, <2>1, <2>5, <4>1, <4>3, <4>4 DEF BusyAgrees
    <3>2. Queue'
      BY <1>1, <1>2, <1>4, <2>1, <2>3 DEF Queue
    <3> QED
      BY <3>1, <3>2
  <2>7. Scanned'
    <3>1. \A job : Blocked(job)' <=> Blocked(job)
      BY <1>1, <2>1, SameBlocked DEF config
    <3>2. \A k \in JobIds : jobs[k].status = "QUEUED" => Blocked(jobs[k])
      BY <1>1 DEF Scanned
    <3> QED
      BY <2>2, <2>3, <3>1, <3>2 DEF Scanned
  <2> QED
    BY <1>1, <1>6, <2>1, <2>3, <2>4, <2>6, <2>7
<1>8. CASE p # NoPrinter
  <2> DEFINE job == Given(new, p)
             pr == [printers[p] EXCEPT !.busy = TRUE]
  <2>1. /\ printers' = [printers EXCEPT ![p].busy = TRUE]
        /\ jobs' = Append(jobs, job) /\ forking' = n
    BY <1>8 DEF print, TakePrinter, n
  <2>2. p \in Declared /\ p \in new.eligible
    BY <1>8, Choice DEF Usable
  <2> HIDE DEF new, p
  <2>3. p \in Ids /\ printers[p] \in Printer /\ p \in DOMAIN printers
    BY <2>2, Lists, LenProperties DEF TypeOK, Declared
  <2>4. pr \in Printer /\ pr.busy
    BY <2>3 DEF Printer
  <2>5. printers' = [printers EXCEPT ![p] = pr]
    BY <2>1, <2>3
  <2>6. /\ job \in Job /\ job.status = "RUNNING" /\ job.chosen = p
        /\ job.eligible = new.eligible
    BY <1>2, <2>3 DEF Given, Job, JOB_STATUS
  <2> HIDE DEF job, pr
  <2>7. /\ printers' \in Seq(Printer) /\ Len(printers') = Len(printers)
        /\ Declared' = Declared
        /\ \A q \in Declared : printers'[q] = IF q = p THEN pr ELSE printers[q]
    BY <2>2, <2>4, <2>5, PrinterReplaced, Zenon
  <2>8. /\ jobs' \in Seq(Job) /\ Len(jobs') = n /\ jobs'[n] = job
        /\ JobIds' = JobIds \cup {n}
        /\ \A k \in JobIds : jobs'[k] = jobs[k]
    BY <1>5, <2>1, <2>6
  <2>9. TypeOK'
    BY <1>1, <1>3, <1>4, <2>1, <2>7, <2>8, TypeKept DEF TypeOK, signals
  <2>10. BusyAgrees'
    <3>1. \A q \in Declared : printers'[q].busy <=> q = p
      BY <1>1, <2>4, <2>7 DEF BusyAgrees
    <3>2. \A k \in JobIds :
            jobs[k].status # "RUNNING" /\ jobs[k].chosen = NoPrinter
      BY <1>1 DEF BusyAgrees, JobIds
    <3>3. \A k \in JobIds' :
            /\ jobs'[k].status = "RUNNING" <=> n = k
            /\ jobs'[k].chosen # NoPrinter =>
                 n = k /\ jobs'[k].chosen \in jobs'[k].eligible
      BY <1>3, <2>2, <2>6, <2>8, <3>2
    <3>4. jobs'[forking'].chosen = p /\ forking' # 0
      BY <1>3, <2>1, <2>6, <2>8
    <3> QED
      BY <2>1, <2>7, <3>1, <3>3, <3>4 DEF BusyAgrees
  <2>11. Queue'
    BY <1>3, <1>4, <2>1, <2>2, <2>6, <2>7, <2>8 DEF Queue
  <2>12. Scanned'
    BY <1>3, <2>1 DEF Scanned
  <2> QED
    BY <1>6, <2>1, <2>8, <2>9, <2>10, <2>11, <2>12
<1> QED
  BY <1>7, <1>8

-----------------------------------------------------------------------------
(* The pipelines and the handler.                                          *)

(* A pipeline that exists moves on: its job is not queued, and it stays a  *)
(* started one.                                                            *)
LEMMA PipeMoves ==
  ASSUME IInv, NEW j \in JobIds, NEW state \in PIPE \ {"none"},
         pipe[j] # "none", pipe' = [pipe EXCEPT ![j] = state],
         sigchld' \in BOOLEAN, handler' \in BOOLEAN, owed' \in BOOLEAN,
         UNCHANGED <<config, printers, jobs, calls, forking, halt>>
  PROVE  /\ TypeOK' /\ BusyAgrees' /\ Queue' /\ Scanned' /\ ScanDepth'
         /\ Zombies' = IF state = "zombie" THEN Zombies \cup {j} ELSE Zombies \ {j}
<1> USE DEF IInv
<1>1. /\ pipe' \in Seq(PIPE) /\ Len(pipe') = Len(pipe)
      /\ \A k \in JobIds : pipe'[k] = IF k = j THEN state ELSE pipe[k]
  BY PipeReplaced, Zenon
<1>2. JobIds' = JobIds /\ Declared' = Declared
  BY DEF JobIds, Declared
<1>3. TypeOK'
  BY <1>1, TypeKept DEF TypeOK, JobIds
<1>4. BusyAgrees' /\ Queue'
  BY <1>1, <1>2 DEF BusyAgrees, Queue
<1>5. Scanned'
  <2>1. \A job : Blocked(job)' <=> Blocked(job)
    BY SameBlocked DEF config
  <2> QED
    BY <1>2, <2>1 DEF Scanned, Cursor
<1>6. Started' = Started
  BY <1>1, <1>2 DEF Started
<1>7. ScanDepth'
  BY <1>6 DEF ScanDepth, Started
<1>8. Zombies' = IF state = "zombie" THEN Zombies \cup {j} ELSE Zombies \ {j}
  BY <1>1, <1>2 DEF Zombies
<1> QED
  BY <1>3, <1>4, <1>5, <1>7, <1>8

(* The child that cannot connect is no zombie.                             *)
LEMMA ConnectFailsKeeps ==
  ASSUME IInv, NEW j \in JobIds, ConnectFails(j)
  PROVE  IInv'
<1>1. "second" \in PIPE \ {"none"}
  BY DEF PIPE
<1>2. /\ TypeOK' /\ BusyAgrees' /\ Queue' /\ Scanned' /\ ScanDepth'
      /\ Zombies' = Zombies \ {j}
  BY <1>1, PipeMoves DEF ConnectFails, signals, IInv, TypeOK
<1>3. j \notin Zombies
  BY DEF ConnectFails, Zombies
<1>4. Signals'
  BY <1>2, <1>3 DEF ConnectFails, Signals, signals, IInv
<1> QED
  BY <1>2, <1>4 DEF IInv

(* An exit leaves a zombie, which is a second one if the handler runs.     *)
LEMMA PipeExitsKeeps ==
  ASSUME IInv, NEW j \in JobIds, PipeExits(j)
  PROVE  IInv'
<1>1. "zombie" \in PIPE \ {"none"}
  BY DEF PIPE
<1>2. /\ TypeOK' /\ BusyAgrees' /\ Queue' /\ Scanned' /\ ScanDepth'
      /\ Zombies' = Zombies \cup {j}
  BY <1>1, PipeMoves DEF PipeExits, IInv, TypeOK
<1>3. j \notin Zombies
  BY DEF PipeExits, Zombies
<1>4. Signals'
  BY <1>2, <1>3 DEF PipeExits, Signals, IInv
<1> QED
  BY <1>2, <1>4 DEF IInv

(* The pending signal's zombie becomes the handler's.                      *)
LEMMA DeliverKeeps ==
  ASSUME IInv, Deliver
  PROVE  IInv'
<1> USE DEF IInv
<1>1. JobIds' = JobIds /\ Declared' = Declared
  BY DEF Deliver, JobIds, Declared
<1>2. TypeOK'
  BY TypeKept DEF Deliver, TypeOK, JobIds
<1>3. BusyAgrees' /\ Queue' /\ ScanDepth'
  BY <1>1, SameDepth DEF Deliver, BusyAgrees, Queue
<1>4. Scanned'
  <2>1. \A job : Blocked(job)' <=> Blocked(job)
    BY SameBlocked DEF Deliver, config
  <2> QED
    BY <1>1, <2>1 DEF Deliver, Scanned, Cursor
<1>5. Signals'
  BY <1>1 DEF Deliver, Signals, Zombies
<1> QED
  BY <1>2, <1>3, <1>4, <1>5

(* cleanup reaps one zombie; if a signal is pending another is left.       *)
LEMMA CleanupKeeps ==
  ASSUME IInv, NEW j \in JobIds, cleanup(j)
  PROVE  IInv'
<1>1. "reaped" \in PIPE \ {"none"}
  BY DEF PIPE
<1>2. /\ TypeOK' /\ BusyAgrees' /\ Queue' /\ Scanned' /\ ScanDepth'
      /\ Zombies' = Zombies \ {j}
  BY <1>1, PipeMoves DEF cleanup, Answered, IInv, TypeOK
<1>3. Signals'
  BY <1>2 DEF cleanup, Answered, Signals, IInv, TypeOK
<1> QED
  BY <1>2, <1>3 DEF IInv

(* Only the signals change: a stop is announced, or cleanup finds no child *)
(* and returns.                                                            *)
LEMMA SignalsOnlyKeep ==
  ASSUME IInv, CleanupNone \/ \E j \in JobIds : PipeStops(j)
  PROVE  IInv'
<1> USE DEF IInv
<1>1. /\ UNCHANGED <<config, printers, jobs, pipe, calls, forking, halt>>
      /\ sigchld' \in BOOLEAN /\ handler' \in BOOLEAN /\ owed' \in BOOLEAN
  BY DEF CleanupNone, PipeStops, Answered, TypeOK
<1>2. JobIds' = JobIds /\ Declared' = Declared
  BY <1>1 DEF JobIds, Declared
<1>3. TypeOK'
  BY <1>1, TypeKept DEF TypeOK, JobIds
<1>4. BusyAgrees' /\ Queue' /\ ScanDepth'
  BY <1>1, <1>2, SameDepth DEF BusyAgrees, Queue
<1>5. Scanned'
  <2>1. \A job : Blocked(job)' <=> Blocked(job)
    BY <1>1, SameBlocked DEF config
  <2> QED
    BY <1>1, <1>2, <2>1 DEF Scanned, Cursor
<1>6. Zombies' = Zombies
  BY <1>1, <1>2 DEF Zombies
<1>7. Signals'
  <2>1. CASE owed'
    BY <2>1 DEF Signals
  <2>2. CASE ~owed'
    <3>1. CleanupNone
      BY <2>2 DEF PipeStops
    <3>2. handler' = FALSE /\ sigchld' = sigchld /\ (owed' <=> owed /\ sigchld)
      BY <3>1 DEF CleanupNone, Answered, TypeOK
    <3> QED
      BY <1>6, <2>2, <3>2 DEF Signals
  <2> QED
    BY <2>1, <2>2
<1> QED
  BY <1>3, <1>4, <1>5, <1>7

-----------------------------------------------------------------------------
(* The invariant and what follows from it.                                 *)

LEMMA InitIInv == Init => IInv
<1> SUFFICES ASSUME Init PROVE IInv
  OBVIOUS
<1>1. TypeOK
  <2>1. \A S : << >> \in Seq(S) /\ Len(<< >>) = 0
    BY EmptySeq
  <2>2. /\ printers \in Seq(Printer) /\ Len(printers) < MAX_PRINTERS
        /\ jobs \in Seq(Job)
        /\ pipe \in Seq(PIPE) /\ Len(pipe) = Len(jobs)
        /\ calls \in Seq(Nat \ {0})
    BY <2>1, MaxPrintersAssumption DEF Init
  <2>3. types \in 0 .. MaxTypes /\ forking \in JobIds \cup {0}
    BY MaxJobsAssumption DEF Init
  <2>4. convs \subseteq Types \X Types
    BY DEF Init
  <2>5. sigchld \in BOOLEAN /\ handler \in BOOLEAN /\ owed \in BOOLEAN
    BY DEF Init
  <2>6. halt \in {"no", "quit", "crash"}
    BY DEF Init
  <2> QED
    BY <2>2, <2>3, <2>4, <2>5, <2>6 DEF TypeOK
<1>2. JobIds = {} /\ Declared = {}
  BY EmptySeq DEF Init, JobIds, Declared
<1>3. BusyAgrees /\ Queue /\ Signals /\ Scanned
  BY <1>2 DEF Init, BusyAgrees, Queue, Signals, Scanned
<1>4. Started = {}
  BY <1>2 DEF Started
<1>5. ScanDepth
  BY <1>4, EmptySeq, FS_EmptySet DEF Init, ScanDepth, Started
<1> QED
  BY <1>1, <1>3, <1>5 DEF IInv

(* A step that changes nothing.                                            *)
LEMMA StutterKeeps ==
  ASSUME IInv, UNCHANGED vars
  PROVE  IInv'
<1> USE DEF IInv, vars, config, signals
<1>1. TypeOK'
  BY TypeKept DEF TypeOK, JobIds
<1>2. BusyAgrees' /\ Queue' /\ ScanDepth'
  BY DEF BusyAgrees, Queue, ScanDepth, JobIds, Declared
<1>3. Signals'
  BY DEF Signals, Zombies, JobIds
<1>4. Scanned'
  <2>1. \A job : Blocked(job)' <=> Blocked(job)
    BY SameBlocked
  <2> QED
    BY <2>1 DEF Scanned, Cursor, JobIds
<1> QED
  BY <1>1, <1>2, <1>3, <1>4

LEMMA NextIInv == IInv /\ [Next]_vars => IInv'
<1> SUFFICES ASSUME IInv, [Next]_vars PROVE IInv'
  OBVIOUS
<1>1. CASE Command
  BY <1>1, TypeCommandKeeps, PrinterCommandKeeps, ConversionKeeps, PrintKeeps,
     JobCommandKeeps, SwitchKeeps, Ended DEF Command, PrinterLimit, quit
<1>2. CASE Working
  BY <1>2, ForkKeeps, ForkedKeeps, ScanStartKeeps, ScanPassKeeps, ScanEndKeeps
     DEF Working
<1>3. CASE Signalled
  BY <1>3, DeliverKeeps, CleanupKeeps, SignalsOnlyKeep DEF Signalled
<1>4. CASE \E j \in JobIds : ConnectFails(j) \/ PipeExits(j) \/ PipeStops(j)
  BY <1>4, ConnectFailsKeeps, PipeExitsKeeps, SignalsOnlyKeep
<1> QED
  BY <1>1, <1>2, <1>3, <1>4, StutterKeeps DEF Next

(* The inductive invariant holds in every reachable state.                 *)
THEOREM Invariant == Spec => []IInv
BY InitIInv, NextIInv, PTL DEF Spec

(* Every variable keeps its type; the printer list stays below its limit.  *)
THEOREM TypesKept == Spec => []TypeOK
<1>1. IInv => TypeOK
  BY DEF IInv
<1> QED
  BY <1>1, Invariant, PTL

(* Whatever the order of the commands, no job waits in the queue beside a  *)
(* printer it could use when interactive_mode reads the next command.      *)
THEOREM QueueIsBlocked == Spec => []QueuedBlocked
<1>1. IInv => QueuedBlocked
  BY Choice DEF IInv, QueuedBlocked, Ready, Scanned
<1> QED
  BY <1>1, Invariant, PTL

(* fork_conv and change_job_status give back every printer they take.      *)
THEOREM PrintersAgree == Spec => []BusyAgrees
<1>1. IInv => BusyAgrees
  BY DEF IInv
<1> QED
  BY <1>1, Invariant, PTL

(* While only exits are signalled, the waitpid in the SIGCHLD handler      *)
(* finds a pipeline that has exited.                                       *)
THEOREM HandlerDoesNotWait == Spec => []HandlerNeverWaits
<1>1. IInv => HandlerNeverWaits
  BY DEF IInv, HandlerNeverWaits, Signals, Zombies
<1> QED
  BY <1>1, Invariant, PTL

(* process_print and fork_conv call each other at most once per job.       *)
THEOREM RecursionBounded == Spec => []ScanDepth
<1>1. IInv => ScanDepth
  BY DEF IInv
<1> QED
  BY <1>1, Invariant, PTL

(* fork_conv forks a job at most once, however many scans are nested.      *)
THEOREM ForkedOnce == Spec => PrintedOnce
<1> DEFINE Once == \A j \in JobIds : forking # j /\ forking' = j => pipe[j] = "none"
<1>1. IInv /\ [Next]_vars => [Once]_vars
  <2> SUFFICES ASSUME IInv, Next PROVE Once
    BY DEF vars
  <2>1. SUFFICES ASSUME NEW j \in JobIds, forking # j, forking' = j
                 PROVE  pipe[j] = "none"
    OBVIOUS
  <2>2. j # 0 /\ j <= Len(jobs)
    BY DEF JobIds
  <2>3. CASE ScanStart
    BY <2>1, <2>3 DEF ScanStart, IInv, Queue
  <2>4. ~(forking' = forking \/ forking' = 0)
    BY <2>1, <2>2
  <2>5. ASSUME NEW t, NEW named, print(t, named) PROVE FALSE
    BY <2>1, <2>2, <2>4, <2>5, Lists DEF print, IInv
  <2>6. CASE Command
    BY <2>4, <2>5, <2>6
       DEF Command, type, printer, PrinterLimit, conversion, cancel, pause,
           resume, disable, enable, quit, Ends
  <2>7. CASE Working
    BY <2>3, <2>4, <2>7 DEF Working, Fork, ForkFails, Forked, ScanPass, ScanEnd
  <2> QED
    BY <2>4, <2>6, <2>7
       DEF Next, Signalled, Deliver, cleanup, CleanupNone, ConnectFails, PipeExits,
           PipeStops
<1>2. [Once]_vars <=>
        [\A j \in JobIds : forking # j /\ forking' = j => pipe[j] = "none"]_vars
  OBVIOUS
<1> HIDE DEF Once
<1> QED
  BY <1>1, <1>2, Invariant, PTL DEF Spec, PrintedOnce
=============================================================================
