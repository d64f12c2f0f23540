------------------------------ MODULE Spooler -------------------------------
(***************************************************************************)
(* The Imprimer print spooler (Printer Spooler/src/main.c, job.c,          *)
(* printer.c): file types, conversions, printers and jobs, the commands    *)
(* that change them, the scan that starts queued jobs, and the conversion  *)
(* pipelines it forks.                                                     *)
(*                                                                         *)
(* The spooler is one process.  A command that starts jobs does so in the  *)
(* steps of process_print and fork_conv, which call one another: the calls *)
(* of process_print in progress are a stack of list cursors.  A SIGCHLD    *)
(* may interrupt it between any two steps; it is not queued, so two exits  *)
(* may be one signal.  signal(SIGCHLD, cleanup) does not ask for exits     *)
(* only: a pipeline that is stopped or continued raises the signal too.    *)
(* A pipeline is a master and one child; the master's exit is the          *)
(* pipeline's.  A child that cannot connect to its printer returns from    *)
(* fork_conv and goes on as a second spooler.                              *)
(*                                                                         *)
(* A file type or a printer is known by its position in its list, since a  *)
(* name that is already there is refused; a command that only prints a     *)
(* message or a status changes nothing and is left out.                    *)
(***************************************************************************)
EXTENDS Integers, Sequences, FiniteSets

CONSTANTS MaxTypes,     \* bound: file types
          MAX_PRINTERS, \* 32 in imprimer.h
          MaxJobs,      \* bound: jobs
          MaxNamed      \* bound: printers named in one print command

ASSUME MaxPrintersAssumption == MAX_PRINTERS \in Nat \ {0}
ASSUME MaxJobsAssumption == MaxTypes \in Nat /\ MaxJobs \in Nat

VARIABLES
  types,     \* the length of the type list
  convs,     \* the conversions, <<from, to>>
  printers,  \* the printer list; an id is a position in it
  jobs,      \* the job list; a jobid is a position in it
  pipe,      \* the pipeline of each job
  calls,     \* cursors of the process_print calls in progress, inner last
  forking,   \* the job fork_conv is about, 0 outside it
  sigchld,   \* a SIGCHLD is pending
  handler,   \* cleanup is running
  owed,      \* ghost: a stop or continue is among the signals being handled
  halt       \* "no", "quit" or "crash"

config == <<types, convs>>
signals == <<sigchld, handler, owed>>
vars == <<config, printers, jobs, pipe, calls, forking, signals, halt>>

JOB_STATUS == {"QUEUED", "RUNNING", "PAUSED", "COMPLETED", "ABORTED"}
NoPrinter == 0
Ids == 1 .. MAX_PRINTERS
Types == 1 .. types
Declared == 1 .. Len(printers)
JobIds == 1 .. Len(jobs)

Init ==
  /\ types = 0
  /\ convs = {}
  /\ printers = << >>
  /\ jobs = << >>
  /\ pipe = << >>
  /\ calls = << >>
  /\ forking = 0
  /\ sigchld = FALSE
  /\ handler = FALSE
  /\ owed = FALSE
  /\ halt = "no"

\* The process and its memory are gone; its pipelines are nobody's.
Ends(why) ==
  /\ halt' = why
  /\ types' = 0
  /\ convs' = {}
  /\ printers' = << >>
  /\ jobs' = << >>
  /\ pipe' = << >>
  /\ calls' = << >>
  /\ forking' = 0
  /\ sigchld' = FALSE
  /\ handler' = FALSE
  /\ owed' = FALSE

\* The spooler runs and is not in its signal handler.
Running == halt = "no" /\ ~handler

\* It has read a command.
Ready == Running /\ calls = << >> /\ forking = 0

-----------------------------------------------------------------------------
(* What starts a job.                                                      *)

\* look goes on from a type only to the types declared after it.
Onward(a, b) == <<a, b>> \in convs /\ a < b

Ahead(src) ==
  {t \in Types : \A S \in SUBSET Types :
     src \in S /\ (\A a \in S, b \in Types : Onward(a, b) => b \in S)
       => t \in S}

\* bfs leaves a path in result: the last conversion may lead anywhere.
bfs(src, dest) ==
  src = dest \/ \E t \in Ahead(src) : <<t, dest>> \in convs

Usable(job, p) ==
  /\ p \in job.eligible
  /\ printers[p].enabled
  /\ ~printers[p].busy
  /\ bfs(job.type, printers[p].type)

\* The first usable printer, in the order of the ids.
find_bfs(job) ==
  LET usable == {p \in Declared : Usable(job, p)} IN
  IF usable = {} THEN NoPrinter
  ELSE CHOOSE p \in usable : \A q \in usable : p <= q

\* Variant: statuses that end a job do not clear its printer.
StatusOnly(j, status) ==
  jobs' = [jobs EXCEPT ![j].status = status]

change_job_status(j, status) ==
  jobs' = [jobs EXCEPT ![j].status = status,
                       ![j].chosen = IF status \in {"QUEUED", "COMPLETED", "ABORTED"}
                                     THEN NoPrinter ELSE @]

\* fork_conv up to the fork: the job gets its printer.
TakePrinter(p) == printers' = [printers EXCEPT ![p].busy = TRUE]

Given(job, p) == [job EXCEPT !.chosen = p, !.status = "RUNNING"]

\* The fork: the pipeline exists, and the spooler goes on beside it ...
Fork ==
  /\ Running /\ forking # 0
  /\ pipe[forking] = "none"
  /\ pipe' = [pipe EXCEPT ![forking] = "running"]
  /\ UNCHANGED <<config, printers, jobs, calls, forking, signals, halt>>

\* ... and it goes on if there is none.
ForkFails ==
  /\ Running /\ forking # 0
  /\ pipe[forking] = "none"
  /\ pipe' = [pipe EXCEPT ![forking] = "failed"]
  /\ UNCHANGED <<config, printers, jobs, calls, forking, signals, halt>>

\* Variant: the job goes back to the queue.
ForkedRequeued ==
  /\ Running /\ forking # 0
  /\ pipe[forking] # "none"
  /\ printers' = [printers EXCEPT ![jobs[forking].chosen].busy = FALSE]
  /\ change_job_status(forking, "QUEUED")
  /\ forking' = 0
  /\ calls' = Append(calls, 1)
  /\ UNCHANGED <<config, pipe, signals, halt>>

\* fork_conv after the fork, in the spooler.  The status it tests is a zero it
\* has just assigned: WIFEXITED of it is 1, which is not EXIT_SUCCESS.
Forked ==
  /\ Running /\ forking # 0
  /\ pipe[forking] # "none"
  /\ printers' = [printers EXCEPT ![jobs[forking].chosen].busy = FALSE]
  /\ change_job_status(forking, "ABORTED")
  /\ forking' = 0
  /\ calls' = Append(calls, 1)
  /\ UNCHANGED <<config, pipe, signals, halt>>

\* The innermost process_print, at its cursor.
Cursor == calls[Len(calls)]

Scanning == Running /\ calls # << >> /\ forking = 0

NextJob == calls' = [calls EXCEPT ![Len(calls)] = @ + 1]

ScanStart ==
  LET p == find_bfs(jobs[Cursor]) IN
  /\ Scanning /\ Cursor \in JobIds
  /\ jobs[Cursor].status = "QUEUED"
  /\ p # NoPrinter
  /\ TakePrinter(p)
  /\ jobs' = [jobs EXCEPT ![Cursor] = Given(@, p)]
  /\ forking' = Cursor
  /\ NextJob
  /\ UNCHANGED <<config, pipe, signals, halt>>

ScanPass ==
  /\ Scanning /\ Cursor \in JobIds
  /\ jobs[Cursor].status # "QUEUED" \/ find_bfs(jobs[Cursor]) = NoPrinter
  /\ NextJob
  /\ UNCHANGED <<config, printers, jobs, pipe, forking, signals, halt>>

ScanEnd ==
  /\ Scanning /\ Cursor \notin JobIds
  /\ calls' = SubSeq(calls, 1, Len(calls) - 1)
  /\ UNCHANGED <<config, printers, jobs, pipe, forking, signals, halt>>

-----------------------------------------------------------------------------
(* The commands, interactive_mode.                                         *)

type ==
  /\ Ready
  /\ types < MaxTypes
  /\ types' = types + 1
  /\ UNCHANGED <<convs, printers, jobs, pipe, calls, forking, signals, halt>>

\* Variant: the limit is not tested.
PrinterUnlimited(t) ==
  /\ Ready
  /\ printers' = Append(printers, [type |-> t, enabled |-> FALSE, busy |-> FALSE])
  /\ UNCHANGED <<config, jobs, pipe, calls, forking, signals, halt>>

printer(t) ==
  /\ Ready
  /\ Len(printers) + 1 # MAX_PRINTERS
  /\ printers' = Append(printers, [type |-> t, enabled |-> FALSE, busy |-> FALSE])
  /\ UNCHANGED <<config, jobs, pipe, calls, forking, signals, halt>>

\* add_printer returns NULL, which the caller dereferences.
PrinterLimit ==
  /\ Ready /\ Types # {}
  /\ Len(printers) + 1 = MAX_PRINTERS
  /\ Ends("crash")

\* Variant: a new conversion does not start the jobs it allows.
ConversionOnly(a, b) ==
  /\ Ready
  /\ convs' = convs \cup {<<a, b>>}
  /\ UNCHANGED <<types, printers, jobs, pipe, calls, forking, signals, halt>>

\* The scan follows even if there is no new conversion.
conversion(a, b) ==
  /\ Ready
  /\ convs' = IF a # b THEN convs \cup {<<a, b>>} ELSE convs
  /\ calls' = <<1>>
  /\ UNCHANGED <<types, printers, jobs, pipe, forking, signals, halt>>

\* The names are combined by exclusive or; with none, every printer is
\* eligible, those declared later too.
PrinterSet(named) ==
  IF named = << >> THEN Ids
  ELSE {p \in Declared :
          Cardinality({i \in 1 .. Len(named) : named[i] = p}) % 2 = 1}

NewJob(t, named) ==
  [type |-> t, eligible |-> PrinterSet(named), status |-> "QUEUED",
   chosen |-> NoPrinter]

\* A new job, which is started at once if it can be; no other job is tried.
print(t, named) ==
  LET job == NewJob(t, named)
      p == find_bfs(job)
  IN
  /\ Ready
  /\ Len(jobs) < MaxJobs
  /\ PrinterSet(named) # {}
  /\ pipe' = Append(pipe, "none")
  /\ \/ /\ p = NoPrinter
        /\ jobs' = Append(jobs, job)
        /\ UNCHANGED <<printers, forking>>
     \/ /\ p # NoPrinter
        /\ jobs' = Append(jobs, Given(job, p))
        /\ TakePrinter(p)
        /\ forking' = Len(jobs) + 1
  /\ UNCHANGED <<config, calls, signals, halt>>

cancel(j) ==
  /\ Ready
  /\ change_job_status(j, "ABORTED")
  /\ UNCHANGED <<config, printers, pipe, calls, forking, signals, halt>>

pause(j) ==
  /\ Ready
  /\ IF jobs[j].status = "RUNNING" THEN change_job_status(j, "PAUSED")
     ELSE UNCHANGED jobs
  /\ UNCHANGED <<config, printers, pipe, calls, forking, signals, halt>>

resume(j) ==
  /\ Ready
  /\ IF jobs[j].status = "PAUSED" THEN change_job_status(j, "RUNNING")
     ELSE UNCHANGED jobs
  /\ UNCHANGED <<config, printers, pipe, calls, forking, signals, halt>>

disable(p) ==
  /\ Ready
  /\ printers[p].enabled
  /\ printers' = [printers EXCEPT ![p].enabled = FALSE]
  /\ UNCHANGED <<config, jobs, pipe, calls, forking, signals, halt>>

enable(p) ==
  /\ Ready
  /\ ~printers[p].enabled
  /\ printers' = [printers EXCEPT ![p].enabled = TRUE]
  /\ calls' = <<1>>
  /\ UNCHANGED <<config, jobs, pipe, forking, signals, halt>>

quit ==
  /\ Ready
  /\ Ends("quit")

-----------------------------------------------------------------------------
(* The pipelines (their programs are external) and SIGCHLD.                *)

\* The child cannot connect to the printer: it returns from fork_conv and
\* reads commands, and the master waits for it.
ConnectFails(j) ==
  /\ halt = "no"
  /\ pipe[j] = "running"
  /\ pipe' = [pipe EXCEPT ![j] = "second"]
  /\ UNCHANGED <<config, printers, jobs, calls, forking, signals, halt>>

\* The master exits, when its child has.
PipeExits(j) ==
  /\ halt = "no"
  /\ pipe[j] \in {"running", "second"}
  /\ pipe' = [pipe EXCEPT ![j] = "zombie"]
  /\ sigchld' = TRUE
  /\ UNCHANGED <<config, printers, jobs, calls, forking, handler, owed, halt>>

\* The master is stopped or continued: it stays in the spooler's process group,
\* since its setpgid names the spooler, so a stop typed at the terminal is for
\* it too.  The signal comes as it does for an exit, and there is no zombie.
PipeStops(j) ==
  /\ halt = "no"
  /\ pipe[j] \in {"running", "second"}
  /\ sigchld' = TRUE
  /\ owed' = TRUE
  /\ UNCHANGED <<config, printers, jobs, pipe, calls, forking, handler, halt>>

Deliver ==
  /\ Running /\ sigchld
  /\ sigchld' = FALSE
  /\ handler' = TRUE
  /\ UNCHANGED <<config, printers, jobs, pipe, calls, forking, owed, halt>>

\* What waitpid may wait for.
Children == {"running", "second", "zombie"}

\* cleanup returns; a stop is behind it unless a signal came meanwhile.
Answered == owed' = (owed /\ sigchld)

\* Variant: the handler waits until it has reaped everything.
CleanupAll(j) ==
  /\ halt = "no" /\ handler
  /\ pipe[j] = "zombie"
  /\ pipe' = [pipe EXCEPT ![j] = "reaped"]
  /\ handler' = \E k \in JobIds : k # j /\ pipe[k] \in Children
  /\ Answered
  /\ UNCHANGED <<config, printers, jobs, calls, forking, sigchld, halt>>

\* waitpid(child) with child = 0: any one child of the process group, and the
\* call waits if none has exited: a stop does not end it.
cleanup(j) ==
  /\ halt = "no" /\ handler
  /\ pipe[j] = "zombie"
  /\ pipe' = [pipe EXCEPT ![j] = "reaped"]
  /\ handler' = FALSE
  /\ Answered
  /\ UNCHANGED <<config, printers, jobs, calls, forking, sigchld, halt>>

\* It fails if there is no child.
CleanupNone ==
  /\ halt = "no" /\ handler
  /\ \A j \in JobIds : pipe[j] \notin Children
  /\ handler' = FALSE
  /\ Answered
  /\ UNCHANGED <<config, printers, jobs, pipe, calls, forking, sigchld, halt>>

-----------------------------------------------------------------------------
Signalled == Deliver \/ CleanupNone \/ \E j \in JobIds : cleanup(j)

Working == Fork \/ ForkFails \/ Forked \/ ScanStart \/ ScanPass \/ ScanEnd

Named == UNION {[1 .. n -> Declared] : n \in 0 .. MaxNamed}

Command ==
  \/ type
  \/ \E t \in Types : printer(t)
  \/ PrinterLimit
  \/ \E a, b \in Types : conversion(a, b)
  \/ \E t \in Types, named \in Named : print(t, named)
  \/ \E j \in JobIds : cancel(j) \/ pause(j) \/ resume(j)
  \/ \E p \in Declared : disable(p) \/ enable(p)
  \/ quit

Next ==
  \/ Command \/ Working \/ Signalled
  \/ \E j \in JobIds : ConnectFails(j) \/ PipeExits(j) \/ PipeStops(j)

Spec == Init /\ [][Next]_vars

-----------------------------------------------------------------------------
(* Properties.                                                             *)

Job == [type : Types, eligible : SUBSET Ids, status : JOB_STATUS,
        chosen : Ids \cup {NoPrinter}]
Printer == [type : Types, enabled : BOOLEAN, busy : BOOLEAN]
PIPE == {"none", "failed", "running", "second", "zombie", "reaped"}

TypeOK ==
  /\ types \in 0 .. MaxTypes
  /\ convs \subseteq Types \X Types
  /\ printers \in Seq(Printer)
  /\ Len(printers) < MAX_PRINTERS
  /\ jobs \in Seq(Job)
  /\ pipe \in Seq(PIPE) /\ Len(pipe) = Len(jobs)
  /\ calls \in Seq(Nat \ {0})
  /\ forking \in JobIds \cup {0}
  /\ sigchld \in BOOLEAN /\ handler \in BOOLEAN /\ owed \in BOOLEAN
  /\ halt \in {"no", "quit", "crash"}

\* README: "A job will persist in this state only as long as there are no
\* printers ... that can be used to print the job."  Whatever the order in
\* which types, conversions, printers and jobs came, a job in the queue has no
\* usable printer when the next command is read, although only some commands
\* scan the queue.
QueuedBlocked ==
  Ready => \A j \in JobIds :
    jobs[j].status = "QUEUED" => find_bfs(jobs[j]) = NoPrinter

\* A printer is busy exactly while a job runs on it, which only the job being
\* forked does, and that job was eligible for it: no printer is left busy and
\* no finished job keeps a printer.
BusyAgrees ==
  /\ \A p \in Declared :
       printers[p].busy <=> forking # 0 /\ jobs[forking].chosen = p
  /\ \A j \in JobIds :
       /\ jobs[j].status = "RUNNING" <=> forking = j
       /\ jobs[j].chosen # NoPrinter => forking = j /\ jobs[j].chosen \in jobs[j].eligible

\* No job is printed twice, although each start scans the queue anew from
\* within the scans in progress.
PrintedOnce ==
  [][\A j \in JobIds : forking # j /\ forking' = j => pipe[j] = "none"]_vars

\* The blocking waitpid of cleanup finds an exited pipeline, although signals
\* are merged and the handler does not know whose exit it is for, as long as
\* exits are all that is signalled.  A stop or a continue is answered like an
\* exit, so the handler may then wait, and with it every command, for an exit
\* that is still to come: at once, or when the exits signalled while it ran
\* have been reaped one signal too early.  When it has caught up, it is as
\* before.
HandlerNeverWaits == handler /\ ~owed => \E j \in JobIds : pipe[j] = "zombie"

\* The scans in progress are at most one more than the jobs they have started:
\* the mutual recursion of process_print and fork_conv ends.
ScanDepth ==
  Len(calls) <= 1 + Cardinality({j \in JobIds : pipe[j] # "none" /\ forking # j})
=============================================================================
