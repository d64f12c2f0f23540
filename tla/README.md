# TLA+ models of the CSE320 programs

The repository holds ten C programs. One of them, `xacto`, is a concurrent
server: a thread per client, a transaction manager with its own commit
protocol, reference counts and a shutdown. It is where this development started.
The print spooler, with its child processes and
signals, comes second. The other four programs modelled are sequential: an HTTP
client, a grade book, a MIPS assembler and disassembler, and an audio filter.
For them the questions are what a long run of legal input does to state that is
kept between steps, what is left when one step of several fails, and whether the
two halves of a program that should be inverse to one another are.

## Inventory

| component | state | operations | talks to |
| --- | --- | --- | --- |
| xacto transaction manager (`xacto/src/transaction.c`) | per transaction: status, dependency list, wait count, semaphore, reference count, mutex; the list of all; `unique_id` | create, ref, unref, add_dependency, commit, abort, get_status | service threads call it, the store calls it, threads meet in its semaphores |
| xacto data module (`data.c`) | blobs and versions with reference counts | blob/key/version create, ref, unref, dispose, compare, hash | versions hold transactions |
| xacto object store (`store.c`, a stub here; a library is linked) | hash map of keys to version lists, one mutex | put, get, garbage collection | creates and disposes versions, adds dependencies, aborts creators |
| xacto client registry (`client_registry.c`) | descriptor set, count, semaphore, mutex | register, unregister, wait_for_empty, shutdown_all, init, fini | service threads and the main thread |
| xacto service and main (`server.c`, `main.c`, `protocol.c`) | one loop per connection; the accept loop; SIGHUP | PUT, GET, COMMIT, disconnect, terminate | all of the above |
| Printer Spooler | jobs, printers, file types and conversions; one child pipeline | type, printer, conversion, print, cancel, pause, resume, disable, enable, quit; SIGCHLD | fork/exec of conversion programs |
| sfmm | heap with boundary tags, segregated free lists | malloc, free, realloc | - |
| grades | stack of open files and a token buffer; course, rosters, scores, statistics | read, collate; link, count, normalise, sort, report | data files and the files they include |
| snarf | argv, whose storage is reused; the parts of the URL; an HTTP connection: state, headers, body | parse_args, url_parse, open, request, response, headers, lookup, body, close | a server that may fail at each call |
| MIPS Convertor | options; the address; one Instruction that is used for every line | validargs, encode, decode, assemble, disassemble | stdin and stdout; its own output |
| audible | options; header, annotation buffers, frame buffers, generator | validargs, read/write header, annotation and frame; speed up, slow down, crypt | stdin and stdout; its own output |
| imprimer ("Ecran") | sessions, virtual screens | session and screen operations, main loop | ptys |
| Intro, budmm, bavarde | stubs | - | - |

What is hard in xacto, and what makes it right:

* Commits, aborts and store operations of different threads interleave at every
  unlocked read: the outcome of a transaction must still be final and agree
  with its dependencies, and the process must not `abort()`.
* Threads wait for one another: a waiter must be released, an abort inside the
  store must not wait.
* Four kinds of pointers share one reference count: none may outlive its object.
* SIGHUP arrives while threads are accepted, registered, served or leaving: the
  registry must be exact, and the server must end.

In the spooler: commands, pipeline exits and signals come in any order; a job
must not wait for a printer it could have, nor be printed twice.

In the sequential programs: buffers and records outlive the item they were filled
for (`instr.args` of the assembler, the header node of `http_parse_headers`, the
frame of `read_frame`, the links of a roster); failures are noticed late or never;
and what is written must be readable (assembler and disassembler, `--collate`,
`-c` twice).

PROJECT.json lists each hazard at its line with the properties aimed at it.

## Modules

`CommitOrder` is the promise of the transaction manager with every operation in
one step: a transaction commits only after everything it depends on, and an
outcome is final.

`XactoTrans` is `transaction.c`. A thread, its transaction and the transaction's
ID are one number in `0 .. N-1`. A step is one access to a field that another
thread may be using, so the C statements that take the wrong lock or none
(`waitcnt++`, the status tests, the count test of `trans_unref`) are steps of
their own, and those under the right lock are one step. `pc` is the control
point; `tgt` and `ret` are the argument and return point of a nested call of
`trans_abort` or `trans_unref`; `idx` is the list cursor; `reg` the local copy
of a wait count. The names follow the code: `Commit...` are the statements of
`trans_commit` in order, `Abort...` of `trans_abort`, `Unref...` of
`trans_unref`. Reading memory that has been freed is undefined in C; the model
halts there (`UnrefUndefined`), so what the other properties say holds up to
such a race, which run `xacto_ref` exhibits.

The store is not in the source. The actions named `Store...` make the calls that
`include/store.h` says it makes, under its one mutex: create or replace a
version, become dependent on a pending creator with a smaller ID, abort a
transaction that is late, collect committed and aborted versions. Keys and
version lists are abstracted: a committed version is collected only if a later
transaction has committed a version, of whatever key; and a version stands behind
an aborted one exactly when its creator was made dependent on the aborter, so
"some dependee has aborted" decides whether collection may abort it. The list of
all transactions is left out, since only `trans_show_all` reads it, and with it
the unlocked unlink in `trans_unref`.

The theorems about a module `M` are in `MProofs`: `XactoTransProofs`,
`XactoServerProofs`, `SpoolerProofs`, `SpoolerPathProofs`, `SnarfProofs`,
`MipsProofs`, `GradesProofs`, `AudibleProofs`.

`XactoServer` is `main.c`, `client_registry.c` and the service loop of
`server.c`. The main thread is `main` and the cursor of `creg_shutdown_all`; a
service thread is `pc`, its descriptor, the state of its connection, and the
outcome of its transaction beside the outcome its client was told. Descriptors
are reused after `Close`. Of `trans_commit` only the returned status is kept: it
is `XactoTrans` that says when it returns which. A packet is its type; once a
connection is shut down or closed by its peer, packets that had arrived may
still be read, and then reads fail; a write may fail once the peer is gone.
`creg_unregister` is two steps, because the test of the count follows the
unlock. Use of the freed registry halts the model (`UseFreed`).

`Spooler` is the print spooler (`Printer Spooler/src/main.c`, `job.c`,
`printer.c`). Names that are already declared are refused, so a type or a
printer is its position in its list. A command is one step, except that a
command which starts jobs goes on in the steps of `process_print` and
`fork_conv`, whose mutual recursion is the stack `calls`. `pipe` is the state of
each job's pipeline (`second`: its child could not connect, returned from
`fork_conv` and reads commands; `failed`: no fork). SIGCHLD is one pending bit,
and its handler may run between any two steps. The signal comes when a pipeline
exits and, because `signal` sets no SA_NOCLDSTOP, also when one is stopped or
continued (`PipeStops`). The handler then waits in `waitpid` as if for an exit
(`cleanup`), or returns if there is no child (`CleanupNone`). `owed` is a history
variable: such a signal has been raised and the handler has not caught up with
it. `pause` and `resume` are there,
but never find a job to act on: `BusyAgrees` says that no job is RUNNING when a
command is read.

`SpoolerPath` is `list.c`: the search for a chain of conversions. A step is one
turn of a loop of `look`, `bfs` or `backtrack`; the recursion of `look` is an
explicit stack of the nodes whose lists it is walking. `result` is kept from one
search to the next, as in the code: a search between different types empties it
first, one between a type and itself appends to it. The code does so past the end
of the array too; the model stops at `ResultSize`. `FoundIfAhead` justifies
the closed form that `Spooler` uses for the whole search.

`Mips` is the MIPS convertor. A 32-bit word is the set of its bits that are 1, so
the shifts, masks and sign extensions of `encode` and `decode` are set
operations of the full width. The tables are those of `instr_table.c`. A program
goes through the loop of `-d`, and the lines it prints through the loop of `-a`
with the same options; `args` is the part of `instr` that survives from one line
to the next. A line is an opcode and its arguments.

`Snarf` is the HTTP client. Options are read one by one; `dirty` holds the bytes
of argv that `stringConcat` has overwritten with joined query words. `url_parse`
works on tokens. Every call of the network or the file system may fail, each
header line may be malformed, and the response may end anywhere. A write of the
document may fail when the byte is written or when the stream is flushed, and
`output.lost` records it; the code does not look. `heap` is what is allocated
apart from the header nodes, which are in `headers`; a header node that was freed
and is still linked is `"freed"`, and the model halts where the program reads it.
A query word is an atom: that `strtok` splits one that holds blanks is left out.

`GradesRead` is the scanner, the reader and the writer of grades. A file is lines
of words; `io` holds the stack of files and the token, and every function of
`read.c` that consumes input is an operator from `io` to `io`, with the readers
of course, assignments, sections, students and scores as actions. After a
reading without errors `Collate` does what `main` does with `--collate`: it
normalizes the course, which may change the maximum of a SCALE assignment, and
writes it; then the text is read again. Numbers are words with a value in units
of 1e-7, and `Printed` is what `%f` with its six decimals makes of one.

`Grades` starts from a course and follows `main`: options, the passes of
`stats.c`, `normalize`, `composites`, `sortrosters`, and one report per step.
`do_links` takes a step per student and assignment, `do_freqs` and `do_sums` one
per score, along the links `cnext` that `do_links` left; `cur` is where a loop is.
The quicksort runs one call of `sorttable` per step with the pending ranges in
`stack`; the turns of the loop of `partition` are a recursive function. Floats are
hundredths, rounded down; what is below EPSILON is 0; `nan` and `inf`, which
`sscanf` accepts as scores, are not among them.

`Audible` is the audio filter, run twice with one command line, the second time
on its own output. A byte is one bit; header fields are numbers with the
wraparound of their word, and the sizes of the format (alignment, header,
annotation limit, word) are constants. A frame is the int of four bytes that
`read_frame` shifts into. The samples `-d` interpolates are `Unknown`, and so is
what `copyFrame` leaves behind when it writes past its buffers; a command line
that overruns the annotation buffers ends the model. Every write may fail:
`write_header` and `write_frame` report it, `write_annotation` and the flush at
exit do not. `lost` is a history variable that says that some write has failed.

The modules `MC...` hold the inputs of a run.

## Runs

| run | bounds | shows |
| --- | --- | --- |
| `xacto_trans` | N = 3, one version per creator | `CommitSafe`, `StatusStable`, `NoFatalAbort`, `RefcntCovers`, `DependsNearlyUnique` in all interleavings (2.7 million states) |
| `xacto_live` | N = 2, any transaction may be refused | refinement of `CommitOrder`; `AbortReturns`, `CommitOfResolvedReturns` |
| `xacto_wait` | N = 2 | `WaiterReleased` is violated: missed wakeup |
| `xacto_ref` | N = 2 | `NoUndefined` is violated: an abort and a collection drop the last references, and the count is tested after the unlock |
| `xacto_server` | 2 clients, 2 descriptors | `RegistryExact`, `NoLostWakeup`, `OutcomeTold`, `ShutdownEnds` |
| `spooler` | 2 types, 2 printers and the limit, 2 jobs, 2 names in a print | `QueuedBlocked`, `BusyAgrees`, `PrintedOnce`, `ScanDepth`, `HandlerNeverWaits` (4.4 million states) |
| `spooler_path` | 4 types, 5 conversions in all, 3 entries of `result` (6.3 million states) | `ResultIsChain`, `FoundIfAhead` on every such graph, in every order of declaration, after every earlier search |
| `mips` | 18 words alone and in all pairs, both byte orders, 63 command lines | `Reassembled`: what was disassembled assembles to the same words; `RefusalExplained`: which lines the assembler refuses; `OptionsMean` |
| `snarf` | command lines of up to 3 options, 3 header lines, 2 bytes of document, every failure, of a write too (79 thousand states) | `HeadersExact`, `ArgumentsIntact`, `AllReleased`, `QueriesAnswered`, `SuccessMeans` |
| `grades_read` | 3 headings, 27 lists of assignments, 21 lists of sections, 6 included files, 4 open files (188 thousand states) | `NothingSkipped`: no error means that everything was read; `CollateReadsBack` |
| `grades` | 2 sections with every normalisation and substitution; all orders of up to 5 students with ties (256 thousand states) | `StatsExact`, `RosterComplete`, `NormMeans`, `ReportsSorted`, `ReportsSound`, `SortAdvances` |
| `audible` | up to 8 data bytes, 5 annotations, all encodings, header sizes below, at and above the data, 20 command lines, a 5-bit word, lost writes (2.0 million states) | `SamplesKept`, `Readable` |

Three threads are the fewest in which one collects while two others commit, in
which dependencies form a chain, and in which two waiters race on one wait
count; two already give every pairwise race and keep the liveness check small.
`MaxVersions` = 1 keeps a version per creator: more versions only repeat the
same references (`StoreReplaceVersion` covers the second put on a key), and the
theorems hold for any value. `Refusable` bounds who may come late; the
three-thread run leaves refusal to the two-thread runs. Two descriptors let two
connections be served at once, and let the second reuse the first one's.
Two jobs give a scan inside a scan and two exits with one signal; two printers
give a choice; four types and five conversions give dead ends and chains of three
conversions, and three entries of `result` what a search leaves in front of the
next two.
Pairs of instructions show what one line leaves to the next, and a base in the
last page of a segment lets an address cross into the next; three header lines
give a malformed one at the start, in the middle and at the end; three options
let two queries enclose an output file; five students give ranges of every shape
to the quicksort; eight bytes hold two frames of four, a partial one, and one
frame that does not fit an int; a word of 5 bits makes the sizes wrap.

Deadlock is not checked: the programs end, the spooler may have quit, all clients
may be gone, or silent, and a commit may wait for ever (finding `xacto_wait`).

A violation run checks a statement of the repository's own documents:
`xacto/README.md` on wait counts and on reference counts. The findings quote
them. The other findings were met on the way and need no run of their own: either
they follow from one statement (the job that is set to ABORTED when it has been
started, the reply whose failure aborts a committed transaction, the semaphore
that counts earlier emptyings of the registry), or a property of a passing run
names the case as its exception. These exceptions are part of what the property
shows: it holds in all other cases. They also mean that some properties do not
themselves catch the hazard they are listed under, but say how far it goes:
`DependsNearlyUnique` admits a repeated last node, `ShutdownEnds` exempts a client
that registers behind the cursor, `BusyAgrees` accepts a printer that is idle while
a pipeline still prints, `HandlerNeverWaits` excepts signals of stops, `NormMeans`
a type without weights, `SuccessMeans` a failed write, and `SamplesKept` states
what `-d` does rather than what `audible/README.md` asks of it.

## Fairness

`FairSpec` of `XactoTrans` gives weak fairness to every thread's own steps: the
kernel schedules every runnable thread. The store's operations end
(`StoreEnds`), but which collections happen is free, and clients may stay
silent, so nothing is assumed of requests. `FairSpec` of `XactoServer` is the
same for the main and the service threads; in addition, nobody sends for ever on
a connection that has been shut down, so a thread that keeps reading from it
reads the end at last (strong fairness of `EndOfInput`). The return of
`trans_commit` is not assumed: `ShutdownEnds` exempts a commit that never
returns, and it starts from states in which every accepted connection is
registered, because a thread that registers behind the cursor is not shut down,
and in which some client has come, because otherwise nobody posts.

## Proofs

Every theorem holds for every value of the constants of its module that meets
the named assumptions. The assumptions say that bounds are natural numbers
(`NAssumption`, `MaxVersionsAssumption`, `FdAssumption`, `MaxPrintersAssumption`,
`MaxJobsAssumption`, `BoundsAssumption`, `CmdLensAssumption`, `DecOfAssumption`,
`HexOfAssumption`, `GeneratorAssumption`, by which the modulus of the random
generator is also at least 2)
and of what shape an input is: an argument of snarf and a header key are not the
marks `"freed"` and `"bad"` of the model; an argument of the MIPS convertor that
has hexadecimal digits is not a flag; a program is a sequence of words; a file of
audible is a header, complete or not, and bytes; the size of its header is a
multiple of the alignment, and its annotation limit fits a word
(`SizesAssumption`); a course of grades is a record of the types the reader
fills in, in which every student is in a section and the students are numbered
section by section (`CoursesAssumption`). TLC evaluates all of them in the runs.

| module | theorem | states |
| --- | --- | --- |
| `XactoTransProofs` | `TypeCorrect` | `Spec => []TypeOK`; no count falls below zero |
| | `RefcntSafe` | `Spec => []RefcntCovers` |
| | `CommitsAreSafe` | `Spec => []CommitSafe` |
| | `AbortNotFatal` | `Spec => []NoFatalAbort` |
| | `StatusIsStable` | `Spec => StatusStable` |
| | `NearlyUnique` | `Spec => []DependsNearlyUnique` |
| | `Implementation` | `Spec => ImplementsCommitOrder` |
| `XactoServerProofs` | `TypesKept` | `Spec => []TypeOK` |
| | `RegistryIsExact` | `Spec => []RegistryExact` |
| | `WakeupNotLost` | `Spec => []NoLostWakeup` |
| | `OutcomeIsTold` | `Spec => []OutcomeTold` |
| `SpoolerProofs` | `TypesKept` | `Spec => []TypeOK` |
| | `QueueIsBlocked` | `Spec => []QueuedBlocked` |
| | `PrintersAgree` | `Spec => []BusyAgrees` |
| | `HandlerDoesNotWait` | `Spec => []HandlerNeverWaits` |
| | `RecursionBounded` | `Spec => []ScanDepth` |
| | `ForkedOnce` | `Spec => PrintedOnce` |
| `SpoolerPathProofs` | `ChainCorrect` | `Spec => []ResultIsChain` |
| | `FoundCorrect` | `Spec => []FoundIfAhead` |
| | `QueueEmptyBetween` | the queue is empty whenever no search is under way |
| `SnarfProofs` | `ArgumentsStayIntact` | `Spec => []ArgumentsIntact` |
| | `EverythingReleased` | `Spec => []AllReleased` |
| | `HeadersAreExact` | `Spec => []HeadersExact` |
| | `QueriesAreAnswered` | `Spec => []QueriesAnswered` |
| | `SuccessHasMeaning` | `Spec => []SuccessMeans` |
| `MipsProofs` | `OptionsHaveMeaning` | `Spec => []OptionsMean` |
| | `RefusalsAreExplained` | `Spec => []RefusalExplained` |
| | `WordsComeBack` | `Spec => []Reassembled` |
| `GradesProofs` | `GradesInvariant` | `Spec => []IInv` |
| | `RostersComplete` | `Spec => []RosterComplete` |
| | `ReportsInOrder` | `Spec => []ReportsSorted` |
| | `SortEnds` | `Spec => SortAdvances` |
| | `StatisticsExact` | `Spec => []StatsExact` |
| | `NormalizationMeans` | `Spec => []NormMeans` |
| | `ReportsWithinBounds` | `Spec => []ReportsSound` |
| `AudibleProofs` | `ReadsBack` | `Spec => []Readable` |
| | `SamplesSurvive` | `Spec => []SamplesKept` |

Each module has an inductive invariant `IInv`, with one lemma or step per action,
and a theorem that it is one; the theorems of the table follow from it. None of the
properties is inductive alone, except the small ones that are conjuncts of `IInv`.

**`XactoTransProofs`.** `IInv` adds

* `Shape` (`Calls`, `Existing`, `Cursors`): where a thread's locals may point at
  each control point, which transactions exist, and that a list cursor stays
  within the list;
* `Memory`: the reference-count inequality, with the transactions whose count is
  zero accounted for. This is what makes the type of `refcnt` inductive: a
  decrement is always of a count that the call itself holds;
* `Commitment`: a commit that has passed a dependee in the first loop knows it is
  final or about to commit, and one that has passed it in the second loop knows
  that it has not aborted and will not. The subtle case is a waiter released
  by `V` before its dependee writes COMMITTED: it reads PENDING, and it is right
  to go on only because a dependee that posts from `trans_commit` is already
  `Decided`, while one that posts from `trans_abort` has already written ABORTED.

`Decided` is therefore also the refinement mapping: the outcome of a transaction
is fixed when its second loop ends, before its status says so. Per action the
proof has one step for each part of the invariant the action can disturb.
`NearlyUnique` needs the list only: the comparison of `trans_add_dependency`
stops before the last node, so a new node repeats at most that one.

**`XactoServerProofs`.** `Descriptors`: an open descriptor belongs to one
connection, which is why the set of the registry can be counted although
descriptors are reused. `Outcomes`: what a transaction is, and that its client
has been told nothing yet, at each control point of a service thread. The wakeup
is kept because the thread that took the count to zero is still to test it.

**`SpoolerProofs`.** `Queue`: a queued job has no pipeline, and the job being
forked has a printer. `Signals`: unless a stop is being answered (`owed`), a pending
SIGCHLD has a zombie of its own beside the handler's. `Scanned`: outside `fork_conv` every queued job behind the
*innermost* cursor is blocked. A scan that starts a job starts another scan from
the head of the queue; when that one ends, all queued jobs are blocked, whatever
the scans around it have left to do. `ScanDepth` holds because every level of the
recursion but one has forked a job of its own.

**`SpoolerPathProofs`.** Two invariants of one search. For the chain: the nodes in
the queue are distinct, the first is the start, and each other one has a
predecessor in front of it, so that `backtrack`, which walks the queue from its
end, always has a node with a conversion to the one it took last still ahead. For
the answer: what is visited is closed under the conversions to nodes further on
in the list, except for the nodes whose lists are still being walked, which are
on the stack. So a search that ends without its goal has visited everything ahead
of the start, and the goal is not there. What earlier searches left in `result` is
emptied before a search between different types starts. The run has the graphs of
four types with up to five conversions; the theorems every graph.

**`GradesProofs`.** `IInv` has three parts.

* The links. `do_links` links every student once per assignment, so from the
  second assignment on the list is cut behind the student linked last and grows
  again, while the rest, linked in the round before, leads back to the first
  student. `Linking` says what `cnext` holds at each turn;
  `Rostered` and `Met` that from then on the walk along `cnext` meets each student
  once. The walk is a recursive function bounded by the number of students; that
  it is the list is the lemma about `Prefix`.
* The sort. `PartitionIs` is the loop of `partition`: after each turn the table is
  a permutation of what it was within its range, what lies below `l` is not above
  the pivot and what lies from `h` on is not below. `InSort` says that the table is
  a permutation of the roster, that the ranges on the stack are disjoint, and that
  two students who are out of order are in one range of the stack. An empty stack
  therefore means order, and relinking in the order of the table keeps it
  (`SortedSoFar`).
* Its end. A range of length `n` counts 4n² + 1, and 3 more when its pivot is its
  only least element. `partition` may give a range back whole, but only in that
  case, and then the elements have been rotated so that the pivot is no longer in
  the middle: this is what `Rotated` follows through the turns of the loop. Every
  other split lowers the sum of the squares.

`StatsExact` needs a second invariant, `Exact`: at each turn of `do_freqs` and
`do_sums` the tables and sums are those of the scores met so far (`Upto`), and
between the passes those of all scores. A table is in ascending order with the
number of scores equal to each grade (`Tabled`); from this, that `do_quantiles`
computes the number below is a count of a disjoint union. The sums of the property
go over the course, not over the roster: one more score changes one term of one
term (`TotalRaised`). That the loops meet each score once is what the roster part
of `IInv` gives.

`NormalizationMeans` needs no more state: `NormMeans` is about the one state behind
`normalize`, so that step has it from `Exact` before it. A larger score has a larger
quotient rounded down (`QuotientOrder`), which settles `linear` and `scale`; for
`quantile` the table has a bucket of each score that counts, at which the search
stops, and `numless` grows along the table. An average lies between two of its
scores since a total over weights is compared term by term with the weight times
the largest (`TotalAtMost`) and the least (`TotalAtLeast`). The order is kept only
if the deviation or scale to normalize to is not negative: the parser accepts a
negative one, and the order is then reversed.

`ReportsWithinBounds` needs that the tables are still those of the scores when they
are reported: `Summed`, which the sorts and `normalize` keep (it raises deviations
and maxima only). `Curve` is what `interpolatequantile` reads: scores and
percentages that ascend, the latter from 0. `InterpolateIs` says where it reads,
between the two buckets around the percentage or at the last one; `ReadRange` and
`ReadOrder` compare two such readings, within a bucket by `QuotientOrder`.

**`SnarfProofs`.** `Arguments` and `Overwritten`: what `parse_args` has made of
the arguments it has passed, and that what `stringConcat` overwrites lies between
the first and the last query word passed. The places of the arguments in memory
are a recursive function; that they grow is proved from a least counterexample.
`Allocated`: what may be on the heap at each statement of `main`. `Headers`: the
list against the lines read. `Lookups`: up to which argument the queries have been
answered. `Transfer`: where a code, a document and a status come from.
`HeadersExact` and `QueriesAnswered` say "these elements in this order" with
`AtPlaces`, a map from the positions of one sequence to those of the other.

**`MipsProofs`.** `Inputs`: `global_options` is what `validargs` returned, with or
without the bit of the mode. `Lines`: a sequence of addresses, from the base and
in steps of four, at which every line was written; the assembler is at the same
address as the disassembler was, so a jump's target is in the segment `encode`
compares it with, unless a carry from bits 2 to 27 leaves it. `LeftOver`: an
argument that is not zero was left by a line already assembled. `Reassembled` is
the lemma `RoundTrip` at each line: the tables of 64 entries name an opcode once
(`OpcodeOnce`, `SpecialOnce`), a field that is shifted down and masked comes back
when it is shifted up, and the subtraction of the address in `encode` undoes the
addition in `decode`. The last is `SubAdd`, a ripple-carry argument: were the
result different, there would be a least bit where it differs, and below it the
borrows are the carries.

**`AudibleProofs`.** `IInv` follows a file through both runs of the program.
`Options`: both runs read the command line alike. `Input`: the second run is given
a file that is acceptable or excepted. `Output`: what is written is such a file
from the moment the header and the annotation are out, whatever frames follow.
The heart is `WrittenIs`: the annotation that is written is as long as the header
says, a multiple of the alignment, within the limit and ends in NUL, unless the
text fills it (the exceptions of `Readable`).

For the samples `DInv` adds what the loops over frames have done
(`DataInvariant`: `IInv /\ DInv` is inductive). `Behind`: stdin holds the data
behind the frames read so far, or nothing. `Xored`, `Picked` and `Kept`: for each
frame that was there to be read, which bytes of the output it has become, as long
as it fits into the int that `read_frame` shifts into and no write has been lost.
`Length`: how many frames `-u` has written, which is what places the next one.
`Inserted`: how many frames of the input `-d` will write behind its first bytes,
from the sizes in the header; `Kept` also says that they have all been there. For `-c`, `Stream` names the
state of the generator before each frame of the first run; the second run starts
from the same key and is shown to draw the same numbers, so that it adds to each
bit what the first run added. The conclusion needs that the loops run often enough,
which for `-u` is the product in the new header, divided again, if it has not
wrapped around.

Only model-checked:

* the liveness properties (`AbortReturns`, `CommitOfResolvedReturns`,
  `ShutdownEnds`): fairness is out of the prover's reach;
* `GradesRead` (`NothingSkipped`, `CollateReadsBack`): that reading what was
  written gives the same course is an induction over the text of the course.

## Not modelled, and plan

Left out of the xacto models: the races inside `trans_create` (IDs and list
links), blobs and keys, the output of `trans_show_all` and `store_show`, packet
contents, option parsing, SIGPIPE, and what a signal handler may not call. The
wrappers of `csapp.c` are third-party. Left out of the spooler models: argument
counts, option parsing and messages, the capacity of `queue`, what is overwritten
behind the end of `result`, and what a second spooler does with the commands it
takes.

Left out of the sequential programs: running out of memory, the scanner's token
buffer of 64 bytes in grades (the models' words are shorter), layout and wording
of all output, the bytes of an HTTP request, the values `audible -d`
interpolates, and effects of a buffer overrun.

Not modelled: `sfmm`, whose coalescing reads footers that payloads overwrite, so
that a faithful model is a heap of words (first in the plan); `imprimer`, course
base code over ptys and curses; `csapp.c`, textbook wrappers; the text of
`msg.c`; Intro, budmm and bavarde, which are empty exercises.

In order:

1. `Sfmm`: headers, footers and free lists of the allocator on a small heap, word
   by word; blocks tile the heap and each free block is in one list.
2. `XactoBlob`: reference counts of blobs, keys and versions, with the early
   `blob_unref` of a GET.
