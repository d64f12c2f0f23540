------------------------------- MODULE Grades -------------------------------
(***************************************************************************)
(* The grades program (grades/src) once its data has been read: options,   *)
(* statistics (stats.c), normalization (normal.c), sorting (sort.c) and    *)
(* the reports (report.c), in the order of main.                           *)
(*                                                                         *)
(* Students are numbered in the order in which they were read, section by  *)
(* section; a score belongs to an assignment.  A float is an integer number *)
(* of hundredths, rounded down; a float below EPSILON is 0 and 2*EPSILON is *)
(* the unit, Tiny.  Names and IDs are numbers in the order of strcmp.       *)
(***************************************************************************)
EXTENDS Integers, Sequences, FiniteSets, SequencesExt

CONSTANTS Courses,  \* courses as the reader returns them
          Argvs     \* sequences of options

Scores(asgts) ==
  [asgt : DOMAIN asgts, grade : Int, flag : {"VALID", "INVALID"},
   subst : {"USERAW", "USENORM", "USELIKEAVG", "USECLASSAVG"}]

\* What the reader returns: every student is in a section.
IsCourse(c) ==
  /\ DOMAIN c = {"sections", "asgts", "students"}
  /\ c.sections \in Nat
  /\ c.asgts \in Seq([npolicy : {"RAW", "LINEAR", "SCALE", "QUANTILE"},
                      ngroup : {"BYCLASS", "BYSECTION"}, weighted : BOOLEAN,
                      weight : Int, max : Int, mean : Int, stddev : Int,
                      scale : Int, atype : STRING])
  /\ c.students \in Seq([section : 1 .. c.sections, name : Int, id : Int,
                         scores : Seq(Scores(c.asgts))])
  /\ \A s, t \in DOMAIN c.students :
       s <= t => c.students[s].section <= c.students[t].section

ASSUME CoursesAssumption == \A c \in Courses : IsCourse(c)

Unit == 100
Tiny == 1

VARIABLES
  pc,
  argv, opts,      \* options still to be read, and those that were given
  course,          \* students, assignments (whose max normal may change)
  cnext, roster,   \* the links of the course roster, and its head, 0 for NULL
  rp, cur,         \* the student linked last, and where the loops of stats.c are
  rosters,         \* section rosters
  stats,           \* per assignment and group: 0 is the class, else a section
  norm,            \* normscores of each student
  composite,
  compare,         \* the comparison of the present sort
  stab, stack,     \* the table being sorted, and the ranges still to be sorted,
                   \* the next one last
  sorting,         \* the roster that is in the table: 0 for the class
  todo,            \* reports still to be produced
  printed          \* what the last report printed

optvars == <<argv, opts>>
linkvars == <<cnext, roster, rosters, rp, cur>>
sortvars == <<compare, stab, stack, sorting>>
outvars == <<todo, printed>>
vars == <<pc, optvars, course, linkvars, stats, norm, composite, sortvars, outvars>>

Students == DOMAIN course.students
Asgts == DOMAIN course.asgts
Groups == 0 .. course.sections
Of(s) == course.students[s]

CountIn(seq, test(_)) == Len(SelectSeq(seq, test))

Total(s) ==
  LET sum[n \in 0 .. Len(s)] == IF n = 0 THEN 0 ELSE sum[n - 1] + s[n]
  IN sum[Len(s)]

\* The roster of a section that was read: its students are numbered from one
\* more than the students of the sections before it.
Section(g) ==
  LET size(T) == Cardinality({s \in Students : Of(s).section \in T}) IN
  [i \in 1 .. size({g}) |-> size(1 .. g - 1) + i]

Init ==
  /\ pc = "options" /\ argv \in Argvs /\ opts = << >> /\ course \in Courses
  /\ roster = 0 /\ cnext = [s \in Students |-> 0] /\ rp = 0 /\ cur = <<0, 0>>
  /\ rosters = [g \in 1 .. course.sections |-> Section(g)]
  /\ stats = << >> /\ norm = [s \in Students |-> << >>]
  /\ composite = [s \in Students |-> 0]
  /\ compare = "name" /\ stab = << >> /\ stack = << >> /\ sorting = 0
  /\ todo = << >> /\ printed = << >>

-----------------------------------------------------------------------------
(* The options.                                                            *)

SortKeys == {"sortby=name", "sortby=id", "sortby=score"}
Known == {"report", "collate", "freqs", "quants", "summaries", "stats", "comps",
          "indivs", "histos", "tabsep", "all", "nonames", "output"} \cup SortKeys

\* The option without its argument: each may be given once.
Flag(o) == IF o \in SortKeys THEN "sortby" ELSE o

Option ==
  /\ pc = "options" /\ argv # << >>
  /\ LET o == Head(argv) IN
     IF o \notin Known \/ \E p \in Range(opts) : Flag(p) = Flag(o)
       THEN pc' = "failed" /\ UNCHANGED opts
       ELSE opts' = Append(opts, o) /\ UNCHANGED pc
  /\ argv' = Tail(argv)
  /\ UNCHANGED <<course, linkvars, stats, norm, composite, sortvars, outvars>>

Given(o) == o \in Range(opts)

\* Exactly one of report and collate, and it is the first one.
OptionsEnd ==
  /\ pc = "options" /\ argv = << >>
  /\ IF Given("report") = Given("collate") \/ Head(opts) \notin {"report", "collate"}
       THEN pc' = "failed"
       \* fopen may fail, and its result is not tested.
       ELSE pc' \in (IF Given("output") THEN {"build", "undefined"} ELSE {"build"})
  /\ UNCHANGED <<optvars, course, linkvars, stats, norm, composite, sortvars, outvars>>

-----------------------------------------------------------------------------
(* stats.c.                                                                *)

NewStats == [valid |-> 0, tallied |-> 0, sum |-> 0, sumsq |-> 0, min |-> 0,
             max |-> 0, mean |-> 0, stddev |-> 0, freqs |-> << >>]

buildstats ==
  /\ pc = "build"
  /\ stats' = [a \in Asgts |-> [g \in Groups |-> NewStats]]
  /\ roster' = 0 /\ rp' = 0 /\ cur' = <<1, 1>>
  /\ pc' = "links"
  /\ UNCHANGED <<optvars, course, cnext, rosters, norm, composite, sortvars, outvars>>

\* Variant: the link of the new student is not cleared.
LinkLate(s) ==
  /\ roster' = (IF rp = 0 THEN s ELSE roster)
  /\ cnext' = (IF rp = 0 THEN cnext ELSE [cnext EXCEPT ![rp] = s])
  /\ rp' = s

\* A student is linked behind the last one, or at the head.
Link(s) ==
  /\ roster' = (IF rp = 0 THEN s ELSE roster)
  /\ cnext' = [(IF rp = 0 THEN cnext ELSE [cnext EXCEPT ![rp] = s]) EXCEPT ![s] = 0]
  /\ rp' = s

\* The students of all sections are linked once for every assignment.
do_links ==
  /\ pc = "links"
  /\ LET a == cur[1]
         s == cur[2] IN
     \/ /\ a > Len(course.asgts)
        /\ pc' = "freqs" /\ cur' = <<roster, 1>>
        /\ UNCHANGED <<cnext, roster, rp>>
     \/ /\ a <= Len(course.asgts) /\ s > Len(course.students)
        /\ cur' = <<a + 1, 1>>
        /\ UNCHANGED <<pc, cnext, roster, rp>>
     \/ /\ a <= Len(course.asgts) /\ s <= Len(course.students)
        /\ Link(s) /\ cur' = <<a, s + 1>>
        /\ UNCHANGED pc
  /\ UNCHANGED <<optvars, course, rosters, stats, norm, composite, sortvars, outvars>>

\* The list that starts at a student: more than all of them if it is a cycle.
Walk ==
  LET walk[n \in 0 .. Len(course.students) + 1] ==
        IF n = 0 THEN << >>
        ELSE IF n = 1 THEN IF roster = 0 THEN << >> ELSE <<roster>>
        ELSE IF walk[n - 1] = << >> \/ cnext[Last(walk[n - 1])] = 0 THEN walk[n - 1]
        ELSE Append(walk[n - 1], cnext[Last(walk[n - 1])])
  IN walk[Len(course.students) + 1]

Tallied(x) == x.flag = "VALID" \/ x.subst = "USERAW"

\* One turn of a loop over the scores, student by student along the roster,
\* that adds those that count to the statistics.
EachScore(Add(_, _), then) ==
  LET s == cur[1]
      k == cur[2] IN
  \/ /\ s = 0
     /\ pc' = then
     /\ UNCHANGED <<cur, stats>>
  \/ /\ s # 0 /\ k > Len(Of(s).scores)
     /\ cur' = <<cnext[s], 1>>
     /\ UNCHANGED <<pc, stats>>
  \/ /\ s # 0 /\ k <= Len(Of(s).scores)
     /\ cur' = <<s, k + 1>>
     /\ stats' = (IF Tallied(Of(s).scores[k]) THEN Add(Of(s).scores[k], Of(s).section)
                  ELSE stats)
     /\ UNCHANGED pc

Bucket(g) == [score |-> g, count |-> 1, numless |-> 0, numlesseq |-> 0]

\* Variant: a new bucket is always put at the end.
count_scoreEnd(f, g) ==
  LET at == SelectInSeq(f, LAMBDA b : b.score = g) IN
  IF at = 0 THEN Append(f, Bucket(g)) ELSE [f EXCEPT ![at].count = @ + 1]

\* The list is walked to the first bucket that is not below the grade.
count_score(f, g) ==
  LET at == SelectInSeq(f, LAMBDA b : b.score >= g) IN
  CASE at = 0 -> Append(f, Bucket(g))
    [] at # 0 /\ f[at].score = g -> [f EXCEPT ![at].count = @ + 1]
    [] OTHER -> InsertAt(f, at, Bucket(g))

\* A score is added to the record of the class, then to that of the section.
Tally(x, section) ==
  LET add(r) == [r EXCEPT !.freqs = count_score(@, x.grade), !.tallied = @ + 1] IN
  [stats EXCEPT ![x.asgt] = [g \in Groups |->
     IF g \in {0, section} THEN add(@[g]) ELSE @[g]]]

do_freqs ==
  /\ pc = "freqs" /\ EachScore(Tally, "quantiles")
  /\ UNCHANGED <<optvars, course, cnext, roster, rosters, rp, norm, composite, sortvars,
                 outvars>>

Cumulated(f) ==
  [n \in DOMAIN f |->
     LET less == Total([m \in 1 .. n - 1 |-> f[m].count]) IN
     [f[n] EXCEPT !.numless = less, !.numlesseq = less + f[n].count]]

do_quantiles ==
  /\ pc = "quantiles"
  /\ stats' = [a \in Asgts |-> [g \in Groups |->
                 [stats[a][g] EXCEPT !.freqs = Cumulated(@)]]]
  /\ pc' = "sums" /\ cur' = <<roster, 1>>
  /\ UNCHANGED <<optvars, course, cnext, roster, rosters, rp, norm, composite, sortvars,
                 outvars>>

\* The class has its extremes updated; a section keeps those of its first score.
AddScore(x, section) ==
  LET v == x.grade
      add(r) == [r EXCEPT !.valid = @ + 1, !.sum = @ + v, !.sumsq = @ + v * v,
                          !.min = IF r.valid = 0 THEN v ELSE @,
                          !.max = IF r.valid = 0 THEN v ELSE @]
      widen(r) == [r EXCEPT !.min = IF v < @ THEN v ELSE @,
                            !.max = IF v > @ THEN v ELSE @]
  IN [stats EXCEPT ![x.asgt] = [g \in Groups |->
        IF g = 0 THEN widen(add(@[g])) ELSE IF g = section THEN add(@[g]) ELSE @[g]]]

do_sums ==
  /\ pc = "sums" /\ EachScore(AddScore, "moments")
  /\ UNCHANGED <<optvars, course, cnext, roster, rosters, rp, norm, composite, sortvars,
                 outvars>>

\* Bound: the results of sqrt.
MaxRoot == 2000
Sqrt(n) == Cardinality({r \in 1 .. MaxRoot : r * r <= n})

stddev(n, sum, sumsq) ==
  IF n >= 2 THEN Sqrt((sumsq - (sum * sum) \div n) \div (n - 1)) ELSE 0

Moments(r) ==
  [r EXCEPT !.mean = IF r.valid = 0 THEN 0 ELSE r.sum \div r.valid,
            !.stddev = stddev(r.valid, r.sum, r.sumsq)]

do_moments ==
  /\ pc = "moments"
  /\ stats' = [a \in Asgts |-> [g \in Groups |-> Moments(stats[a][g])]]
  /\ pc' = "normalize"
  /\ UNCHANGED <<optvars, course, linkvars, norm, composite, sortvars, outvars>>

-----------------------------------------------------------------------------
(* normal.c.                                                               *)

linear(s, rm, rd, nm, nd) == (nd * (s - rm)) \div rd + nm
scale(s, max, to) == (s * to) \div max
AtLeastTiny(x) == IF x < Tiny THEN Tiny ELSE x

GroupOf(a, section) == IF course.asgts[a].ngroup = "BYCLASS" THEN 0 ELSE section

\* The group's percentage below the score: numless, of the bucket that has it.
quantile(s, r) ==
  LET at == SelectInSeq(r.freqs, LAMBDA b : s <= b.score)
      n == IF r.tallied = 0 THEN 1 ELSE r.tallied IN
  IF at = 0 THEN Unit ELSE (r.freqs[at].numless * 100 * Unit) \div n

normal(s, a, section) ==
  LET p == course.asgts[a]
      r == stats[a][GroupOf(a, section)] IN
  CASE p.npolicy = "RAW" -> s
    [] p.npolicy = "LINEAR" -> linear(s, r.mean, AtLeastTiny(r.stddev), p.mean, p.stddev)
    [] p.npolicy = "SCALE" -> scale(s, AtLeastTiny(p.max), p.scale)
    [] p.npolicy = "QUANTILE" -> quantile(s, r)

\* The scores of a student that count, of the assignments of a type.
Like(s, t) ==
  {k \in DOMAIN Of(s).scores :
     Tallied(Of(s).scores[k]) /\ course.asgts[Of(s).scores[k].asgt].atype = t}

\* The sum over these scores, normalized, times weight.
LikeSum(s, t) ==
  Total([k \in DOMAIN Of(s).scores |->
    LET x == Of(s).scores[k]
        p == course.asgts[x.asgt] IN
    IF k \in Like(s, t)
      THEN (IF p.weighted THEN p.weight ELSE 1) * normal(x.grade, x.asgt, Of(s).section)
      ELSE 0])

\* Variant: the weights are left out of the divisor.
studentavgCount(s, t) ==
  IF Like(s, t) = {} THEN 0 ELSE LikeSum(s, t) \div Cardinality(Like(s, t))

\* A quotient, rounded down.
Quotient(x, y) == IF y < 0 THEN (-x) \div (-y) ELSE x \div y

\* w is 0 also when no assignment of the type is weighted.
studentavg(s, t) ==
  LET w == Total([k \in DOMAIN Of(s).scores |->
             LET p == course.asgts[Of(s).scores[k].asgt] IN
             IF k \in Like(s, t) /\ p.weighted THEN p.weight ELSE 0])
  IN IF w = 0 THEN 0 ELSE Quotient(LikeSum(s, t), w)

Normalized(s, x) ==
  LET p == course.asgts[x.asgt] IN
  CASE Tallied(x) -> normal(x.grade, x.asgt, Of(s).section)
    [] ~Tallied(x) /\ x.subst = "USENORM" -> x.grade
    [] ~Tallied(x) /\ x.subst = "USELIKEAVG" -> studentavg(s, p.atype)
    [] ~Tallied(x) /\ x.subst = "USECLASSAVG" ->
         IF p.npolicy = "QUANTILE" THEN 50 * Unit ELSE p.mean

\* What normal changes: a standard deviation or a maximum that is too small.
Touched(s, a, policy) ==
  /\ course.asgts[a].npolicy = policy
  /\ \E x \in Range(Of(s).scores) : x.asgt = a /\ Tallied(x)

normalize ==
  /\ pc = "normalize"
  /\ norm' = [s \in Students |->
                IF s \in Range(Walk)
                  THEN [k \in DOMAIN Of(s).scores |-> Normalized(s, Of(s).scores[k])]
                  ELSE << >>]
  /\ stats' = [a \in Asgts |-> [g \in Groups |->
                 IF \E s \in Range(Walk) : /\ Touched(s, a, "LINEAR")
                                           /\ GroupOf(a, Of(s).section) = g
                   THEN [stats[a][g] EXCEPT !.stddev = AtLeastTiny(@)]
                   ELSE stats[a][g]]]
  /\ course' = [course EXCEPT !.asgts = [a \in Asgts |->
                  IF \E s \in Range(Walk) : Touched(s, a, "SCALE")
                    THEN [course.asgts[a] EXCEPT !.max = AtLeastTiny(@)]
                    ELSE course.asgts[a]]]
  /\ pc' = "composites"
  /\ UNCHANGED <<optvars, linkvars, composite, sortvars, outvars>>

\* Every score of every assignment counts, with its weight.
Composite(s) ==
  LET sum == [k \in DOMAIN norm[s] |->
                LET p == course.asgts[Of(s).scores[k].asgt] IN
                norm[s][k] * (IF p.weighted THEN p.weight ELSE 1)]
  IN Total(sum)

\* sortroster: the table is filled from its end.
Table(r) == Reverse(r)

composites ==
  /\ pc = "composites"
  /\ composite' = [s \in Students |-> IF s \in Range(Walk) THEN Composite(s) ELSE 0]
  /\ pc' = "sort" /\ compare' = "name"
  /\ sorting' = 0 /\ stab' = Table(Walk) /\ stack' = << <<0, Len(Walk)>> >>
  /\ UNCHANGED <<optvars, course, linkvars, stats, norm, outvars>>

-----------------------------------------------------------------------------
(* sort.c.  Indices start at 0 in the code: stab[i + 1] is its stab[i].    *)

\* The sign of compare(s, t).
Compare(s, t) ==
  LET k(x) == CASE compare = "name" -> Of(x).name [] compare = "id" -> Of(x).id
                [] OTHER -> -composite[x]
  IN k(s) - k(t)

Swap(t, i, j) == [[t EXCEPT ![i] = t[j]] EXCEPT ![j] = t[i]]

\* Variant: what equals the pivot stays at the low end.
TurnLow(p, pivot) ==
  IF Compare(p.tab[p.l + 1], pivot) > 0
  THEN [p EXCEPT !.tab = Swap(p.tab, p.l + 1, p.h), !.h = @ - 1]
  ELSE [p EXCEPT !.l = @ + 1]

\* One turn of the loop of partition: what is above the pivot goes to the high
\* end; what equals it goes there and to the low end in turn.
Turn(p, pivot) ==
  LET c == Compare(p.tab[p.l + 1], pivot)
      alt == IF c = 0 THEN -p.alt ELSE p.alt IN
  IF c > 0 \/ (c = 0 /\ p.alt = 1)
  THEN [tab |-> Swap(p.tab, p.l + 1, p.h), l |-> p.l, h |-> p.h - 1, alt |-> alt]
  ELSE [tab |-> p.tab, l |-> p.l + 1, h |-> p.h, alt |-> alt]

\* Every turn brings l and h closer by one: there are high - low.
partition(tab, low, high) ==
  LET turn[n \in 0 .. high - low] ==
        IF n = 0 THEN [tab |-> tab, l |-> low, h |-> high, alt |-> 1]
        ELSE Turn(turn[n - 1], tab[(low + high) \div 2 + 1])
  IN turn[high - low]

\* Variant: only the low part is sorted.
sorttableHalf ==
  /\ pc = "sort" /\ stack # << >>
  /\ LET low == Last(stack)[1]
         high == Last(stack)[2] IN
     IF low = high THEN stack' = Front(stack) /\ UNCHANGED stab
     ELSE LET p == partition(stab, low, high) IN
          /\ stab' = p.tab
          /\ stack' = IF low + 1 = high THEN Front(stack)
                      ELSE Append(Front(stack), <<low, p.l>>)
  /\ UNCHANGED <<pc, optvars, course, linkvars, stats, norm, composite, compare,
                 sorting, outvars>>

\* The calls of sorttable that are pending are on the stack.
sorttable ==
  /\ pc = "sort" /\ stack # << >>
  /\ LET low == Last(stack)[1]
         high == Last(stack)[2] IN
     IF low = high THEN stack' = Front(stack) /\ UNCHANGED stab
     ELSE LET p == partition(stab, low, high) IN
          /\ stab' = p.tab
          /\ stack' = IF low + 1 = high THEN Front(stack)
                      ELSE Append(Append(Front(stack), <<p.l, high>>), <<low, p.l>>)
  /\ UNCHANGED <<pc, optvars, course, linkvars, stats, norm, composite, compare,
                 sorting, outvars>>

Reports == <<"stats", "comps", "freqs", "quants", "summaries", "histos", "indivs",
             "tabsep">>

\* The students are relinked in the order of the table; the next roster, then
\* the sort by the chosen key unless that was it, or the reports.
sortroster ==
  /\ pc = "sort" /\ stack = << >>
  /\ IF sorting = 0
       THEN /\ roster' = (IF stab = << >> THEN 0 ELSE stab[1])
            /\ cnext' = [s \in Students |->
                 IF s \notin Range(stab) THEN cnext[s]
                 ELSE LET at == CHOOSE i \in DOMAIN stab : stab[i] = s IN
                      IF at = Len(stab) THEN 0 ELSE stab[at + 1]]
            /\ UNCHANGED rosters
       ELSE rosters' = [rosters EXCEPT ![sorting] = stab] /\ UNCHANGED <<cnext, roster>>
  /\ IF sorting < course.sections
       THEN /\ sorting' = sorting + 1
            /\ stab' = Table(rosters[sorting + 1])
            /\ stack' = << <<0, Len(rosters[sorting + 1])>> >>
            /\ UNCHANGED pc
       ELSE UNCHANGED <<sorting, stab, stack>> /\ pc' = "sorted"
  /\ UNCHANGED <<optvars, course, rp, cur, stats, norm, composite, compare, outvars>>

\* The reports that were asked for, in main's order.
Wanted == SelectSeq(Reports, LAMBDA r : Given(r) \/ Given("all"))

\* After the sort by name: collate writes and ends; a report sorts again.
SortAgain ==
  /\ pc = "sorted" /\ todo = << >>
  /\ IF Given("collate") THEN pc' = "done" /\ UNCHANGED <<sortvars, todo>>
     ELSE /\ pc' = "sort"
          /\ compare' = (CASE Given("sortby=id") -> "id" [] Given("sortby=score") -> "score"
                           [] OTHER -> "name")
          /\ sorting' = 0 /\ stab' = Table(Walk) /\ stack' = << <<0, Len(Walk)>> >>
          /\ todo' = <<"params">> \o Wanted
  /\ UNCHANGED <<optvars, course, linkvars, stats, norm, composite, printed>>

-----------------------------------------------------------------------------
(* report.c.                                                               *)

\* The class, and the sections unless there is one only.
Shown == IF course.sections = 1 THEN {0} ELSE Groups

Quantiles == <<10, 25, 50, 75, 90>>

\* Score at quantile q of n scores, interpolated between two buckets.
interpolatequantile(f, n, q) ==
  LET nq(i) == (f[i].numless * 100 * Unit) \div n
      at == {i \in 1 .. Len(f) - 1 : (IF i = 1 THEN 0 ELSE nq(i - 1)) <= q * Unit
                                       /\ q * Unit < nq(i)}
      i == CHOOSE j \in at : \A k \in at : j <= k
  IN IF f = << >> THEN 0
     ELSE IF at = {} THEN f[Len(f)].score
     ELSE f[i - 1].score + ((f[i].score - f[i - 1].score) * (q * Unit - nq(i - 1)))
                             \div (nq(i) - nq(i - 1))

\* The column of the histogram of assignment a that a score is counted in.
AssignmentColumn(a, score) ==
  LET declared == course.asgts[a].max
      max == IF declared # 0 THEN declared
             ELSE IF stats[a][0].max = 0 THEN Unit ELSE stats[a][0].max
      abs(x) == IF x < 0 THEN -x ELSE x
      \* The quotient is truncated towards 0.
      quot(x, y) == (abs(x) \div abs(y)) * (IF (x < 0) = (y < 0) THEN 1 ELSE -1)
  IN IF score > max THEN 49 ELSE quot(49 * score, max)

AssignmentColumns(a) ==
  {AssignmentColumn(a, b.score) : b \in Range(stats[a][0].freqs)}

\* Variant: the columns are numbered up to 50.
CompositeColumn50(s) ==
  LET all == {composite[t] : t \in Range(Walk)} \cup {0}
      max == CHOOSE x \in all : \A y \in all : y <= x
      min == CHOOSE x \in all : \A y \in all : x <= y
  IN (50 * (composite[s] - min)) \div (IF max = min THEN Unit ELSE max - min)

CompositeColumn(s) ==
  LET all == {composite[t] : t \in Range(Walk)} \cup {0}
      max == CHOOSE x \in all : \A y \in all : y <= x
      min == CHOOSE x \in all : \A y \in all : x <= y
  IN (49 * (composite[s] - min)) \div (IF max = min THEN Unit ELSE max - min)

CompositeColumns == {CompositeColumn(s) : s \in Range(Walk)}

\* The rows, of 20 and one for the peak, that have a star: the highest column
\* fills them.
histo(bins) ==
  LET cmax == CHOOSE x \in Range(bins) \cup {0} :
                \A y \in Range(bins) \cup {0} : y <= x
  IN [c \in DOMAIN bins |-> {row \in 0 .. 20 : 20 * bins[c] > row * cmax}]

\* The histogram of the composites and one for each assignment.
reporthistos ==
  <<histo([c \in CompositeColumns |-> CountIn(Walk, LAMBDA s : CompositeColumn(s) = c)])>>
  \o [a \in Asgts |-> histo([c \in AssignmentColumns(a) |->
        LET f == stats[a][0].freqs IN
        Total([n \in DOMAIN f |-> IF AssignmentColumn(a, f[n].score) = c THEN f[n].count
                                  ELSE 0])])]

\* For each assignment, for the class and the sections.
ForGroups(text(_)) == [a \in Asgts |-> [g \in Shown |-> text(stats[a][g])]]

reportmoments == ForGroups(LAMBDA r : <<r.valid, r.mean, r.stddev>>)

reportfreqs ==
  ForGroups(LAMBDA r : [n \in DOMAIN r.freqs |-> <<r.freqs[n].score, r.freqs[n].count>>])

reportquantiles ==
  ForGroups(LAMBDA r : [n \in DOMAIN r.freqs |->
    <<r.freqs[n].score, (r.freqs[n].numless * 100 * Unit) \div r.tallied>>])

\* The score at each quantile, and its place between the first and the last.
reportquantilesummaries ==
  ForGroups(LAMBDA r :
    LET at == [q \in 1 .. 5 |-> interpolatequantile(r.freqs, r.tallied, Quantiles[q])] IN
    [q \in 1 .. 5 |-> <<at[q], IF at[1] < at[5]
                                THEN <<((at[q] - at[1]) * Unit) \div (at[5] - at[1])>>
                                ELSE <<"***.***">> >>])

reportcomposites == [n \in DOMAIN Walk |-> <<composite[Walk[n]], Walk[n]>>]

\* A raw score as it is printed: only if it counts.
Raw(x) == IF Tallied(x) THEN <<x.grade>> ELSE <<"***.**">>

\* The raw and the normalized scores are walked side by side.
reportscores ==
  [n \in DOMAIN Walk |->
     LET s == Walk[n] IN
     <<composite[s], [k \in DOMAIN norm[s] |->
        LET x == Of(s).scores[k] IN
        <<Raw(x), norm[s][k], stats[x.asgt][0].mean, stats[x.asgt][Of(s).section].mean>>]>>]

\* The first score of each assignment.
reporttabs ==
  [n \in DOMAIN Walk |->
     <<[a \in Asgts |->
          LET x == SelectSeq(Of(Walk[n]).scores, LAMBDA y : y.asgt = a) IN
          IF x = << >> THEN <<"***.**">> ELSE Raw(x[1])],
       composite[Walk[n]]>>]

Text(r) ==
  CASE r = "params" -> <<"title">>
    [] r = "stats" -> reportmoments
    [] r = "comps" -> reportcomposites
    [] r = "freqs" -> reportfreqs
    [] r = "quants" -> reportquantiles
    [] r = "summaries" -> reportquantilesummaries
    [] r = "histos" -> reporthistos
    [] r = "indivs" -> reportscores
    [] OTHER -> reporttabs

\* A column outside the 50 bins is an access outside the array.
OutOfBins ==
  Head(todo) = "histos" /\ ~(UNION {AssignmentColumns(a) : a \in Asgts}
                               \cup CompositeColumns \subseteq 0 .. 49)

Report ==
  /\ pc = "sorted" /\ todo # << >>
  /\ printed' = IF OutOfBins THEN printed ELSE <<Head(todo), Text(Head(todo))>>
  /\ todo' = Tail(todo)
  /\ pc' = (IF OutOfBins THEN "undefined"
            ELSE IF Tail(todo) = << >> THEN "done" ELSE pc)
  /\ UNCHANGED <<optvars, course, linkvars, stats, norm, composite, sortvars>>

Next ==
  \/ Option \/ OptionsEnd
  \/ buildstats \/ do_links \/ do_freqs \/ do_quantiles \/ do_sums \/ do_moments
  \/ normalize \/ composites
  \/ sorttable \/ sortroster \/ SortAgain
  \/ Report

Spec == Init /\ [][Next]_vars

-----------------------------------------------------------------------------
(* Properties.                                                             *)

\* The scores that count for an assignment and a group, from the course itself:
\* the student and the position among the scores of the student.
Counted(a, g) ==
  UNION {{<<s, k>> : k \in {m \in DOMAIN Of(s).scores :
                              Of(s).scores[m].asgt = a /\ Tallied(Of(s).scores[m])}} :
         s \in {t \in Students : g \in {0, Of(t).section}}}

Grade(x) == Of(x[1]).scores[x[2]].grade

\* The sum of f(grade) over these scores.
SumOver(a, g, f(_)) ==
  Total([s \in Students |-> Total([k \in DOMAIN Of(s).scores |->
    IF <<s, k>> \in Counted(a, g) THEN f(Of(s).scores[k].grade) ELSE 0])])

\* When the statistics are complete, the table of every assignment and group has
\* each grade once, in ascending order, with the numbers of scores equal to it
\* and below it; count, sums and, for the class, the extremes are those of the
\* scores of the course.  (The extremes of a section are never read.)
StatsExact ==
  pc = "normalize" => \A a \in Asgts : \A g \in Groups :
    LET r == stats[a][g]
        all == Counted(a, g) IN
    /\ r.tallied = Cardinality(all) /\ r.valid = Cardinality(all)
    /\ r.sum = SumOver(a, g, LAMBDA v : v) /\ r.sumsq = SumOver(a, g, LAMBDA v : v * v)
    /\ {b.score : b \in Range(r.freqs)} = {Grade(x) : x \in all}
    /\ \A n \in DOMAIN r.freqs :
         LET b == r.freqs[n] IN
         /\ n > 1 => r.freqs[n - 1].score < b.score
         /\ b.count = Cardinality({x \in all : Grade(x) = b.score})
         /\ b.numless = Cardinality({x \in all : Grade(x) < b.score})
         /\ b.numlesseq = Cardinality({x \in all : Grade(x) <= b.score})
    /\ g = 0 /\ all # {} =>
         /\ \E x \in all : r.min = Grade(x)
         /\ \E x \in all : r.max = Grade(x)
         /\ \A x \in all : r.min <= Grade(x) /\ Grade(x) <= r.max

\* Linking the students again for every assignment and relinking them after each
\* sort neither loses nor repeats one, and closes no cycle: from the first
\* statistic to the last report every student is met once if there is an
\* assignment, and nobody is if there is none.
RosterComplete ==
  pc \notin {"options", "failed", "undefined", "build", "links"} =>
    /\ Range(Walk) = (IF Asgts = {} THEN {} ELSE Students) /\ IsInjective(Walk)
    /\ \A g \in 1 .. course.sections :
         Range(rosters[g]) = {s \in Students : Of(s).section = g} /\ IsInjective(rosters[g])

\* The reports list the class and the sections in the order that was asked for.
ReportsSorted ==
  pc \in {"sorted", "done"} =>
    \A t \in {Walk} \cup Range(rosters) :
      \A n \in 2 .. Len(t) : Compare(t[n - 1], t[n]) <= 0

\* A lower score of the group stays lower, unless the deviation or the scale to
\* normalize to is negative.
Keeps(s, t, k) ==
  LET x == Of(s).scores[k]
      p == course.asgts[x.asgt] IN
  /\ Tallied(x)
  /\ p.npolicy = "LINEAR" => p.stddev >= 0
  /\ p.npolicy = "SCALE" => p.scale >= 0
  => \A m \in DOMAIN norm[t] :
       LET y == Of(t).scores[m] IN
       /\ y.asgt = x.asgt /\ Tallied(y) /\ y.grade < x.grade
       /\ GroupOf(x.asgt, Of(s).section) \in {0, Of(t).section}
       => norm[t][m] <= norm[s][k]

\* A percentage is in [0, 100].
Percents(s, k) ==
  LET x == Of(s).scores[k] IN
  Tallied(x) /\ course.asgts[x.asgt].npolicy = "QUANTILE" => norm[s][k] \in 0 .. 100 * Unit

\* The average over like assignments that all have positive weights is between
\* the lowest and the highest of their scores.
Averages(s, k) ==
  LET x == Of(s).scores[k]
      p == course.asgts[x.asgt]
      like == {m \in DOMAIN norm[s] :
                 /\ course.asgts[Of(s).scores[m].asgt].atype = p.atype
                 /\ Tallied(Of(s).scores[m])} IN
  /\ ~Tallied(x) /\ x.subst = "USELIKEAVG" /\ like # {}
  /\ \A m \in like : LET q == course.asgts[Of(s).scores[m].asgt] IN
                     q.weighted /\ q.weight > 0
  => /\ \E m \in like : norm[s][m] <= norm[s][k]
     /\ \E m \in like : norm[s][k] <= norm[s][m]

\* Normalization keeps the order of scores within its group, unless the deviation
\* or the scale to normalize to is negative; percentages are in [0, 100]; an
\* average over like assignments that all have positive weights is between their
\* scores.
NormMeans ==
  pc = "composites" => \A s, t \in Range(Walk) : \A k \in DOMAIN norm[s] :
    Keeps(s, t, k) /\ Percents(s, k) /\ Averages(s, k)

\* The histogram leaves its 50 bins only for a negative raw score; the quantile
\* summaries rise with the quantile and stay between the lowest and the highest
\* score.
ReportsSound ==
  pc = "sorted" /\ todo # << >> =>
    /\ CompositeColumns \subseteq 0 .. 49
    /\ \A a \in Asgts : (\A x \in Counted(a, 0) : Grade(x) >= 0) =>
         AssignmentColumns(a) \subseteq 0 .. 49
    /\ \A a \in Asgts, g \in Shown :
         LET f == stats[a][g].freqs
             at(q) == interpolatequantile(f, stats[a][g].tallied, Quantiles[q]) IN
         f # << >> => /\ f[1].score <= at(1) /\ at(5) <= f[Len(f)].score
                      /\ \A q \in 1 .. 4 : at(q) <= at(q + 1)

\* What is left to sort: a range counts by the square of its length, and more if
\* its pivot is its only least element.
Unsplit(r) ==
  LET mid == (r[1] + r[2]) \div 2 + 1 IN
  /\ r[1] < r[2]
  /\ \A i \in (r[1] + 1 .. r[2]) \ {mid} : Compare(stab[mid], stab[i]) < 0

Weight(r) == 4 * (r[2] - r[1]) * (r[2] - r[1]) + 1 + (IF Unsplit(r) THEN 3 ELSE 0)

Work == Total([n \in DOMAIN stack |-> Weight(stack[n])])

\* The quicksort ends: partition may split a range into nothing and itself, which
\* sorttable then calls again, but only once: the work that is left decreases
\* with every call.
SortAdvances == [][pc = "sort" /\ stack # << >> => Work' < Work]_vars
=============================================================================
