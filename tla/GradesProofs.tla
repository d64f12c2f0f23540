---------------------------- MODULE GradesProofs ----------------------------
(***************************************************************************)
(* Proofs about the grades program: for every course and every sequence of *)
(* options, no student is lost or met twice by the links of do_links and   *)
(* of the sorts, the rosters end up in the order of the sort, every call   *)
(* of sorttable brings the quicksort closer to its end, and the statistics *)
(* are those of the scores.                                                *)
(***************************************************************************)
EXTENDS Grades, SequenceTheorems, FiniteSetTheorems, WellFoundedInduction, TLAPS

-----------------------------------------------------------------------------
(* Induction and recursive functions over an interval.                     *)

\* A non-empty set of naturals has a least element.
LEMMA Least ==
  ASSUME NEW T, T \subseteq Nat, T # {}
  PROVE  \E x \in T : \A y \in T : x <= y
<1> DEFINE Under == {ss \in Nat \X Nat : ss[1] < ss[2]}
<1>1. IsWellFoundedOn(Under, Nat)
  BY NatLessThanWellFounded, Zenon DEF OpToRel
<1> HIDE DEF Under
<1>2. PICK x \in T : \A y \in T : <<y, x>> \notin Under
  BY <1>1, WFMin
<1>3. \A y \in T : ~(y < x)
  BY <1>2 DEF Under
<1> QED BY <1>3

\* Induction over 0 .. L: the set T stands for the property.
LEMMA UpTo ==
  ASSUME NEW L \in Nat, NEW T, 0 \in T, \A n \in 1 .. L : n - 1 \in T => n \in T
  PROVE  \A n \in 0 .. L : n \in T
<1> DEFINE Bad == {n \in 0 .. L : n \notin T}
<1>0. Bad \subseteq Nat
  OBVIOUS
<1> HIDE DEF Bad
<1>1. ASSUME Bad # {} PROVE FALSE
  <2>1. PICK x \in Bad : \A y \in Bad : x <= y
    BY <1>0, <1>1, Least
  <2>2. x \in 1 .. L /\ x \notin T
    BY <2>1 DEF Bad
  <2>3. x - 1 \in T
    BY <2>1, <2>2 DEF Bad
  <2> QED BY <2>2, <2>3
<1> QED BY <1>1 DEF Bad

\* A function that is defined step by step.
Steps(f, L, F, e) == f = [n \in 0 .. L |-> IF n = 0 THEN e ELSE F[n][f[n - 1]]]

\* It exists; S bounds its values.
LEMMA Iterate ==
  ASSUME NEW L \in Nat, NEW S, NEW F, NEW e, e \in S[0],
         \A n \in 1 .. L : \A x \in S[n - 1] : F[n][x] \in S[n]
  PROVE  \E f : Steps(f, L, F, e) /\ \A n \in 0 .. L : f[n] \in S[n]
<1> DEFINE Good(f, m) == /\ f = [n \in 0 .. m |-> IF n = 0 THEN e ELSE F[n][f[n - 1]]]
                         /\ \A n \in 0 .. m : f[n] \in S[n]
           T == {m \in 0 .. L : \E f : Good(f, m)}
<1>1. 0 \in T
  <2> DEFINE f == [n \in 0 .. 0 |-> e]
  <2>1. \A n \in 0 .. 0 : f[n] = (IF n = 0 THEN e ELSE F[n][f[n - 1]]) /\ f[n] \in S[n]
    OBVIOUS
  <2>2. f = [n \in 0 .. 0 |-> IF n = 0 THEN e ELSE F[n][f[n - 1]]]
    BY <2>1
  <2> HIDE DEF f
  <2>3. Good(f, 0)
    BY <2>1, <2>2
  <2>4. 0 \in 0 .. L
    OBVIOUS
  <2> QED BY <2>3, <2>4, Zenon
<1>2. ASSUME NEW m \in 1 .. L, m - 1 \in T
      PROVE  m \in T
  <2>1. PICK g : Good(g, m - 1)
    BY <1>2
  <2> DEFINE f == [n \in 0 .. m |-> IF n = m THEN F[m][g[m - 1]] ELSE g[n]]
  <2>2. \A n \in 0 .. m - 1 : g[n] = (IF n = 0 THEN e ELSE F[n][g[n - 1]]) /\ g[n] \in S[n]
    BY <2>1
  <2>3. \A n \in 0 .. m - 1 : f[n] = g[n]
    OBVIOUS
  <2>4. f[m] = F[m][f[m - 1]] /\ f[m] \in S[m]
    <3>1. f[m - 1] = g[m - 1] /\ g[m - 1] \in S[m - 1]
      BY <2>2, <2>3
    <3> QED BY <3>1
  <2>5. \A n \in 0 .. m : f[n] = (IF n = 0 THEN e ELSE F[n][f[n - 1]])
    BY <2>2, <2>3, <2>4
  <2>6. f = [n \in 0 .. m |-> IF n = 0 THEN e ELSE F[n][f[n - 1]]]
    BY <2>5
  <2>7. \A n \in 0 .. m : f[n] \in S[n]
    BY <2>2, <2>3, <2>4
  <2> HIDE DEF f
  <2>8. \E h : Good(h, m)
    BY <2>6, <2>7
  <2> QED BY <2>8
<1> HIDE DEF T
<1>3. L \in T
  BY <1>1, <1>2, UpTo
<1> QED BY <1>3 DEF T, Steps

-----------------------------------------------------------------------------
(* Total.                                                                  *)

\* The equation of the function that Total chooses.
Sums(f, s) == f = [n \in 0 .. Len(s) |-> IF n = 0 THEN 0 ELSE f[n - 1] + s[n]]

LEMMA TotalIs ==
  ASSUME NEW s \in Seq(Int)
  PROVE  \E f : Sums(f, s) /\ Total(s) = f[Len(s)] /\ \A n \in 0 .. Len(s) : f[n] \in Int
<1> DEFINE L == Len(s)
           S == [n \in 0 .. L |-> Int]
           F == [n \in 1 .. L |-> [x \in Int |-> x + s[n]]]
           sum == CHOOSE f : Sums(f, s)
<1>0. L \in Nat /\ \A n \in 1 .. L : s[n] \in Int
  OBVIOUS
<1>1. \E f : Sums(f, s)
  <2>1. 0 \in S[0] /\ \A n \in 1 .. L : \A x \in S[n - 1] : F[n][x] \in S[n]
    BY <1>0
  <2> HIDE DEF S, F
  <2>2. PICK f : Steps(f, L, F, 0) /\ \A n \in 0 .. L : f[n] \in S[n]
    <3> HIDE DEF L
    <3>1. L \in Nat
      BY <1>0
    <3>2. 0 \in S[0]
      BY <2>1
    <3>3. \A n \in 1 .. L : \A x \in S[n - 1] : F[n][x] \in S[n]
      BY <2>1
    <3> QED BY <3>1, <3>2, <3>3, Iterate, Zenon
  <2>3. \A n \in 0 .. L : f[n] \in Int
    BY <2>2 DEF S
  <2>4. ASSUME NEW n \in 1 .. L PROVE F[n][f[n - 1]] = f[n - 1] + s[n]
    <3>1. f[n - 1] \in Int
      BY <1>0, <2>3
    <3> QED BY <3>1 DEF F
  <2>5. \A n \in 0 .. L : f[n] = IF n = 0 THEN 0 ELSE f[n - 1] + s[n]
    BY <1>0, <2>2, <2>4, SMTT(40) DEF Steps
  <2>6. f = [n \in 0 .. L |-> IF n = 0 THEN 0 ELSE f[n - 1] + s[n]]
    BY <2>2, <2>5 DEF Steps
  <2> QED BY <2>6 DEF Sums
<1>2. Sums(sum, s)
  BY <1>1
<1>3. Total(s) = sum[Len(s)]
  BY DEF Total, Sums
<1> HIDE DEF sum
<1>4. \A n \in 0 .. L : sum[n] \in Int
  <2> DEFINE T == {n \in 0 .. L : sum[n] \in Int}
  <2>1. 0 \in T
    BY <1>0, <1>2 DEF Sums
  <2>2. \A n \in 1 .. L : n - 1 \in T => n \in T
    BY <1>0, <1>2, SMTT(20) DEF Sums
  <2> HIDE DEF T
  <2>3. \A n \in 0 .. L : n \in T
    BY <1>0, <2>1, <2>2, UpTo
  <2> QED BY <2>3 DEF T
<1> QED BY <1>2, <1>3, <1>4

LEMMA TotalType ==
  ASSUME NEW s \in Seq(Int)
  PROVE  Total(s) \in Int
BY TotalIs

\* The last element is added last.
LEMMA TotalAppend ==
  ASSUME NEW s \in Seq(Int), NEW x \in Int
  PROVE  Total(Append(s, x)) = Total(s) + x
<1> DEFINE t == Append(s, x)
           L == Len(s)
<1>0. /\ t \in Seq(Int) /\ L \in Nat /\ Len(t) = L + 1
      /\ t[L + 1] = x /\ \A n \in 1 .. L : t[n] = s[n]
  OBVIOUS
<1> HIDE DEF t
<1>1. PICK f : Sums(f, s) /\ Total(s) = f[L] /\ \A n \in 0 .. L : f[n] \in Int
  BY TotalIs
<1>2. PICK g : Sums(g, t) /\ Total(t) = g[L + 1] /\ \A n \in 0 .. L + 1 : g[n] \in Int
  BY <1>0, TotalIs
<1> DEFINE T == {n \in 0 .. L : f[n] = g[n]}
<1>3. \A n \in 0 .. L : f[n] = IF n = 0 THEN 0 ELSE f[n - 1] + s[n]
  BY <1>0, <1>1 DEF Sums
<1>4. \A n \in 0 .. L + 1 : g[n] = IF n = 0 THEN 0 ELSE g[n - 1] + t[n]
  BY <1>0, <1>2 DEF Sums
<1>5. 0 \in T
  BY <1>0, <1>3, <1>4
<1>6. \A n \in 1 .. L : n - 1 \in T => n \in T
  BY <1>0, <1>3, <1>4, SMTT(20)
<1> HIDE DEF T
<1>7. L \in T
  <2>1. \A n \in 0 .. L : n \in T
    BY <1>0, <1>5, <1>6, UpTo
  <2> QED BY <1>0, <2>1
<1>8. f[L] = g[L]
  BY <1>7 DEF T
<1>9. g[L + 1] = g[L] + x
  BY <1>0, <1>4, SMTT(20)
<1> QED BY <1>1, <1>2, <1>8, <1>9 DEF t

-----------------------------------------------------------------------------
(* Types.                                                                  *)

Buckets == [score : Int, count : Nat, numless : Int, numlesseq : Int]

Records == [valid : Nat, tallied : Nat, sum : Int, sumsq : Int, min : Int, max : Int,
            mean : Int, stddev : Int, freqs : Seq(Buckets)]

LEMMA CourseType ==
  ASSUME IsCourse(course)
  PROVE  /\ Len(course.students) \in Nat /\ Students = 1 .. Len(course.students)
         /\ Len(course.asgts) \in Nat /\ Asgts = 1 .. Len(course.asgts)
         /\ course.sections \in Nat
BY DEF IsCourse, Students, Asgts

LEMMA StudentType ==
  ASSUME IsCourse(course), NEW s \in Students
  PROVE  /\ Of(s).section \in 1 .. course.sections
         /\ Of(s).name \in Int /\ Of(s).id \in Int
         /\ Of(s).scores \in Seq(Scores(course.asgts))
         /\ Len(Of(s).scores) \in Nat
         /\ DOMAIN Of(s).scores = 1 .. Len(Of(s).scores)
         /\ \A k \in 1 .. Len(Of(s).scores) : Of(s).scores[k] \in Scores(course.asgts)
<1>1. Of(s) \in [section : 1 .. course.sections, name : Int, id : Int,
                 scores : Seq(Scores(course.asgts))]
  <2> DEFINE R == [section : 1 .. course.sections, name : Int, id : Int,
                   scores : Seq(Scores(course.asgts))]
  <2>1. course.students \in Seq(R)
    BY DEF IsCourse
  <2> HIDE DEF R
  <2>2. course.students[s] \in R
    BY <2>1 DEF Students
  <2> QED BY <2>2 DEF R, Of
<1>2. Of(s).scores \in Seq(Scores(course.asgts))
  BY <1>1
<1> QED BY <1>1, <1>2

LEMMA ScoreType ==
  ASSUME IsCourse(course), NEW x \in Scores(course.asgts)
  PROVE  x.asgt \in Asgts /\ x.grade \in Int
BY DEF Scores, Asgts

LEMMA AsgtType ==
  ASSUME IsCourse(course), NEW a \in Asgts
  PROVE  /\ course.asgts[a].npolicy \in {"RAW", "LINEAR", "SCALE", "QUANTILE"}
         /\ course.asgts[a].weight \in Int /\ course.asgts[a].max \in Int
         /\ course.asgts[a].mean \in Int /\ course.asgts[a].stddev \in Int
         /\ course.asgts[a].scale \in Int
<1> DEFINE R == [npolicy : {"RAW", "LINEAR", "SCALE", "QUANTILE"},
                 ngroup : {"BYCLASS", "BYSECTION"}, weighted : BOOLEAN,
                 weight : Int, max : Int, mean : Int, stddev : Int,
                 scale : Int, atype : STRING]
<1>1. course.asgts \in Seq(R)
  BY DEF IsCourse
<1> HIDE DEF R
<1>2. course.asgts[a] \in R
  BY <1>1 DEF Asgts
<1> QED BY <1>2 DEF R

\* The first bucket that is not below a grade.
LEMMA SelectIs ==
  ASSUME NEW f \in Seq(Buckets), NEW g \in Int
  PROVE  LET at == SelectInSeq(f, LAMBDA b : b.score >= g) IN
         /\ at \in 0 .. Len(f)
         /\ at = 0 => \A i \in 1 .. Len(f) : f[i].score < g
         /\ at # 0 => f[at].score >= g /\ \A i \in 1 .. at - 1 : f[i].score < g
<1> DEFINE I == {i \in 1 .. Len(f) : f[i].score >= g}
           at == SelectInSeq(f, LAMBDA b : b.score >= g)
<1>0. Len(f) \in Nat /\ \A i \in 1 .. Len(f) : f[i].score \in Int
  <2>1. Len(f) \in Nat /\ \A i \in 1 .. Len(f) : f[i] \in Buckets
    OBVIOUS
  <2> QED BY <2>1 DEF Buckets
<1>1. at = IF I # {} THEN Min(I) ELSE 0
  BY DEF SelectInSeq
<1>2. ASSUME I # {} PROVE Min(I) \in I /\ \A y \in I : Min(I) <= y
  <2>1. I \subseteq Nat
    BY <1>0
  <2> HIDE DEF I
  <2> QED BY <1>2, <2>1, Least DEF Min
<1> HIDE DEF at
<1>3. /\ at \in 0 .. Len(f)
      /\ at = 0 => \A i \in 1 .. Len(f) : f[i].score < g
      /\ at # 0 => f[at].score >= g /\ \A i \in 1 .. at - 1 : f[i].score < g
  <2>1. CASE I = {}
    <3>1. at = 0
      BY <1>1, <2>1
    <3>2. \A i \in 1 .. Len(f) : f[i].score < g
      BY <1>0, <2>1
    <3> QED BY <1>0, <3>1, <3>2
  <2>2. CASE I # {}
    <3>1. at \in 1 .. Len(f) /\ f[at].score >= g /\ \A y \in I : at <= y
      BY <1>1, <1>2, <2>2
    <3>2. \A i \in 1 .. at - 1 : f[i].score < g
      BY <1>0, <3>1
    <3> QED BY <1>0, <3>1, <3>2
  <2> QED BY <2>1, <2>2
<1> QED BY <1>3 DEF at

LEMMA InsertType ==
  ASSUME NEW S, NEW f \in Seq(S), NEW e \in S, NEW at \in 1 .. Len(f)
  PROVE  /\ InsertAt(f, at, e) \in Seq(S)
         /\ Len(InsertAt(f, at, e)) = Len(f) + 1
         /\ \A i \in 1 .. at - 1 : InsertAt(f, at, e)[i] = f[i]
         /\ InsertAt(f, at, e)[at] = e
         /\ \A i \in at + 1 .. Len(f) + 1 : InsertAt(f, at, e)[i] = f[i - 1]
<1> DEFINE a == SubSeq(f, 1, at - 1)
           c == SubSeq(f, at, Len(f))
<1>0. Len(f) \in Nat /\ at \in Nat
  OBVIOUS
<1>1. /\ a \in Seq(S) /\ Len(a) = at - 1
      /\ \A i \in 1 .. at - 1 : a[i] = f[i]
  BY <1>0
<1>2. /\ c \in Seq(S) /\ Len(c) = Len(f) + 1 - at
      /\ \A i \in 1 .. Len(f) + 1 - at : c[i] = f[at + i - 1]
  BY <1>0
<1>3. InsertAt(f, at, e) = a \o <<e>> \o c
  BY DEF InsertAt
<1> HIDE DEF a, c
<1> DEFINE b == a \o <<e>>
<1>4. /\ b \in Seq(S) /\ Len(b) = at
      /\ \A i \in 1 .. at - 1 : b[i] = f[i]
      /\ b[at] = e
  <2>1. <<e>> \in Seq(S) /\ Len(<<e>>) = 1 /\ <<e>>[1] = e
    OBVIOUS
  <2> QED BY <1>0, <1>1, <2>1
<1> HIDE DEF b
<1>5. /\ b \o c \in Seq(S) /\ Len(b \o c) = Len(f) + 1
      /\ \A i \in 1 .. at : (b \o c)[i] = b[i]
      /\ \A i \in at + 1 .. Len(f) + 1 : (b \o c)[i] = c[i - at]
  <2>1. /\ b \o c \in Seq(S) /\ Len(b \o c) = Len(b) + Len(c)
        /\ \A i \in 1 .. Len(b) + Len(c) :
             (b \o c)[i] = IF i <= Len(b) THEN b[i] ELSE c[i - Len(b)]
    BY <1>2, <1>4, ConcatProperties
  <2>2. Len(b) = at /\ Len(b) + Len(c) = Len(f) + 1
    BY <1>0, <1>2, <1>4
  <2> QED BY <1>0, <2>1, <2>2
<1>6. \A i \in at + 1 .. Len(f) + 1 : c[i - at] = f[i - 1]
  <2> TAKE i \in at + 1 .. Len(f) + 1
  <2>1. i - at \in 1 .. Len(f) + 1 - at /\ at + (i - at) - 1 = i - 1
    BY <1>0
  <2> QED BY <1>2, <2>1
<1>7. InsertAt(f, at, e) = b \o c
  BY <1>3 DEF b
<1> QED BY <1>0, <1>4, <1>5, <1>6, <1>7

LEMMA CountType ==
  ASSUME NEW f \in Seq(Buckets), NEW g \in Int
  PROVE  count_score(f, g) \in Seq(Buckets)
<1> DEFINE at == SelectInSeq(f, LAMBDA b : b.score >= g)
<1>1. at \in 0 .. Len(f)
  BY SelectIs
<1>2. Bucket(g) \in Buckets
  BY DEF Bucket, Buckets
<1>3. count_score(f, g) =
        CASE at = 0 -> Append(f, Bucket(g))
          [] at # 0 /\ f[at].score = g -> [f EXCEPT ![at].count = @ + 1]
          [] OTHER -> InsertAt(f, at, Bucket(g))
  BY DEF count_score
<1> HIDE DEF at
<1>4. CASE at = 0
  BY <1>2, <1>3, <1>4
<1>5. CASE at # 0
  <2>1. at \in 1 .. Len(f) /\ f[at] \in Buckets
    BY <1>1, <1>5
  <2>2. [f[at] EXCEPT !.count = @ + 1] \in Buckets
    <3>1. PICK b \in Buckets : b = f[at]
      BY <2>1
    <3>2. b.count + 1 \in Nat
      BY DEF Buckets
    <3>3. [b EXCEPT !.count = @ + 1] \in Buckets
      BY <3>2 DEF Buckets
    <3> QED BY <3>1, <3>3
  <2>3. [f EXCEPT ![at].count = @ + 1] \in Seq(Buckets)
    BY <2>1, <2>2
  <2>4. InsertAt(f, at, Bucket(g)) \in Seq(Buckets)
    BY <1>2, <2>1, InsertType
  <2> QED BY <1>3, <1>5, <2>3, <2>4
<1> QED BY <1>4, <1>5

StatsType == stats \in [Asgts -> [Groups -> Records]]

LEMMA NewType == NewStats \in Records
<1>1. << >> \in Seq(Buckets)
  OBVIOUS
<1> QED BY <1>1 DEF NewStats, Records

LEMMA RecordType ==
  ASSUME StatsType, NEW a \in Asgts, NEW g \in Groups
  PROVE  stats[a][g] \in Records
BY DEF StatsType

LEMMA TallyType ==
  ASSUME IsCourse(course), StatsType, NEW x \in Scores(course.asgts), NEW section
  PROVE  Tally(x, section) \in [Asgts -> [Groups -> Records]]
<1> DEFINE add(r) == [r EXCEPT !.freqs = count_score(@, x.grade), !.tallied = @ + 1]
<1>1. x.asgt \in Asgts /\ x.grade \in Int
  BY ScoreType
<1>2. ASSUME NEW r \in Records PROVE add(r) \in Records
  <2>1. r.freqs \in Seq(Buckets) /\ r.tallied + 1 \in Nat
    BY DEF Records
  <2>2. count_score(r.freqs, x.grade) \in Seq(Buckets)
    BY <1>1, <2>1, CountType
  <2> QED BY <2>1, <2>2 DEF Records
<1>3. Tally(x, section) =
        [stats EXCEPT ![x.asgt] = [g \in Groups |->
           IF g \in {0, section} THEN add(stats[x.asgt][g]) ELSE stats[x.asgt][g]]]
  BY <1>1 DEF Tally, StatsType
<1> HIDE DEF add
<1>4. [g \in Groups |-> IF g \in {0, section} THEN add(stats[x.asgt][g])
                        ELSE stats[x.asgt][g]] \in [Groups -> Records]
  BY <1>1, <1>2, RecordType
<1> QED BY <1>1, <1>3, <1>4 DEF StatsType

LEMMA AddType ==
  ASSUME IsCourse(course), StatsType, NEW x \in Scores(course.asgts), NEW section
  PROVE  AddScore(x, section) \in [Asgts -> [Groups -> Records]]
<1> DEFINE v == x.grade
           add(r) == [r EXCEPT !.valid = @ + 1, !.sum = @ + v, !.sumsq = @ + v * v,
                               !.min = IF r.valid = 0 THEN v ELSE @,
                               !.max = IF r.valid = 0 THEN v ELSE @]
           widen(r) == [r EXCEPT !.min = IF v < @ THEN v ELSE @,
                                 !.max = IF v > @ THEN v ELSE @]
<1>1. x.asgt \in Asgts /\ x.grade \in Int
  BY ScoreType
<1>2. ASSUME NEW r \in Records PROVE add(r) \in Records
  <2>1. /\ r.valid + 1 \in Nat /\ r.sum + v \in Int /\ r.sumsq + v * v \in Int
        /\ r.min \in Int /\ r.max \in Int
    BY <1>1 DEF Records
  <2> QED BY <1>1, <2>1 DEF Records
<1>3. ASSUME NEW r \in Records PROVE widen(r) \in Records
  <2>1. r.min \in Int /\ r.max \in Int
    BY DEF Records
  <2> QED BY <1>1, <2>1 DEF Records
<1>4. AddScore(x, section) =
        [stats EXCEPT ![x.asgt] = [g \in Groups |->
           IF g = 0 THEN widen(add(stats[x.asgt][g]))
           ELSE IF g = section THEN add(stats[x.asgt][g]) ELSE stats[x.asgt][g]]]
  BY <1>1 DEF AddScore, StatsType
<1> HIDE DEF add, widen
<1>5. [g \in Groups |-> IF g = 0 THEN widen(add(stats[x.asgt][g]))
                        ELSE IF g = section THEN add(stats[x.asgt][g])
                        ELSE stats[x.asgt][g]] \in [Groups -> Records]
  BY <1>1, <1>2, <1>3, RecordType
<1> QED BY <1>1, <1>4, <1>5 DEF StatsType

LEMMA CumulatedType ==
  ASSUME NEW f \in Seq(Buckets)
  PROVE  /\ Cumulated(f) \in Seq(Buckets) /\ Len(Cumulated(f)) = Len(f)
         /\ \A n \in 1 .. Len(f) :
              LET less == Total([m \in 1 .. n - 1 |-> f[m].count]) IN
              /\ Cumulated(f)[n].score = f[n].score
              /\ Cumulated(f)[n].count = f[n].count
              /\ Cumulated(f)[n].numless = less
              /\ Cumulated(f)[n].numlesseq = less + f[n].count
<1> DEFINE less(n) == Total([m \in 1 .. n - 1 |-> f[m].count])
           new(n) == [f[n] EXCEPT !.numless = less(n), !.numlesseq = less(n) + f[n].count]
<1>0. Len(f) \in Nat /\ DOMAIN f = 1 .. Len(f)
      /\ \A n \in 1 .. Len(f) : f[n] \in Buckets
  OBVIOUS
<1>1. ASSUME NEW n \in 1 .. Len(f) PROVE f[n].count \in Int
  BY <1>0 DEF Buckets
<1>2. ASSUME NEW n \in 1 .. Len(f) PROVE less(n) \in Int
  <2> DEFINE c == [m \in 1 .. n - 1 |-> f[m].count]
  <2>1. \A m \in 1 .. n - 1 : f[m].count \in Int
    BY <1>0, <1>1
  <2>2. c \in Seq(Int)
    BY <2>1
  <2> HIDE DEF c
  <2>3. Total(c) \in Int
    BY <2>2, TotalType
  <2> QED BY <2>3 DEF c
<1>3. Cumulated(f) = [n \in 1 .. Len(f) |-> new(n)]
  BY <1>0 DEF Cumulated
<1> HIDE DEF less
<1>4. ASSUME NEW n \in 1 .. Len(f)
      PROVE  /\ new(n) \in Buckets /\ new(n).score = f[n].score
             /\ new(n).count = f[n].count /\ new(n).numless = less(n)
             /\ new(n).numlesseq = less(n) + f[n].count
  <2>1. PICK b \in Buckets : b = f[n]
    BY <1>0
  <2>2. less(n) \in Int /\ b.count \in Int
    BY <1>2 DEF Buckets
  <2>3. PICK y \in Int : y = less(n)
    BY <2>2
  <2>4. PICK z \in Int : z = y + b.count
    BY <2>2
  <2>5. PICK d : d = [b EXCEPT !.numless = y, !.numlesseq = z]
    OBVIOUS
  <2>6. /\ d \in Buckets /\ d.score = b.score /\ d.count = b.count
        /\ d.numless = y /\ d.numlesseq = z
    BY <2>5 DEF Buckets
  <2>7. d = new(n)
    BY <2>1, <2>3, <2>4, <2>5
  <2> HIDE DEF new
  <2> QED BY <2>1, <2>3, <2>4, <2>6, <2>7
<1> HIDE DEF new
<1>5. /\ Cumulated(f) \in Seq(Buckets) /\ Len(Cumulated(f)) = Len(f)
      /\ \A n \in 1 .. Len(f) : Cumulated(f)[n] = new(n)
  BY <1>0, <1>3, <1>4
<1> QED BY <1>4, <1>5 DEF less

LEMMA MomentsType ==
  ASSUME NEW r \in Records
  PROVE  /\ Moments(r) \in Records
         /\ Moments(r).valid = r.valid /\ Moments(r).tallied = r.tallied
         /\ Moments(r).sum = r.sum /\ Moments(r).sumsq = r.sumsq
         /\ Moments(r).min = r.min /\ Moments(r).max = r.max
         /\ Moments(r).freqs = r.freqs
<1>1. \A n \in Int : Sqrt(n) \in Int
  <2> TAKE n \in Int
  <2> DEFINE R == {q \in 1 .. MaxRoot : q * q <= n}
  <2>0. MaxRoot \in Int
    BY DEF MaxRoot
  <2>1. IsFiniteSet(1 .. MaxRoot) /\ R \in SUBSET (1 .. MaxRoot)
    BY <2>0, FS_Interval
  <2> HIDE DEF R
  <2>2. IsFiniteSet(R)
    BY <2>1, FS_Subset
  <2>3. Cardinality(R) \in Nat
    BY <2>2, FS_CardinalityType
  <2> QED BY <2>3 DEF Sqrt, R
<1>2. \A x \in Int, y \in Nat : y # 0 => x \div y \in Int
  OBVIOUS
<1>3. r.valid \in Nat /\ r.sum \in Int /\ r.sumsq \in Int
  BY DEF Records
<1>4. (IF r.valid = 0 THEN 0 ELSE r.sum \div r.valid) \in Int
  BY <1>2, <1>3
<1>5. stddev(r.valid, r.sum, r.sumsq) \in Int
  <2>1. CASE r.valid >= 2
    <3>1. PICK n \in Nat : n = r.valid /\ n # 0 /\ n - 1 \in Nat /\ n - 1 # 0
      BY <1>3, <2>1
    <3>2. r.sum * r.sum \in Int
      BY <1>3
    <3>3. (r.sum * r.sum) \div n \in Int
      BY <1>2, <3>1, <3>2
    <3>4. r.sumsq - (r.sum * r.sum) \div n \in Int
      BY <1>3, <3>3
    <3>5. (r.sumsq - (r.sum * r.sum) \div n) \div (n - 1) \in Int
      BY <1>2, <3>1, <3>4
    <3> QED BY <1>1, <2>1, <3>1, <3>5 DEF stddev
  <2> QED BY <2>1 DEF stddev
<1> QED BY <1>4, <1>5 DEF Moments, Records

\* normal.c: every number that is computed is one.
LEMMA DivType ==
  /\ \A x \in Int, y \in Nat : y # 0 => x \div y \in Int
  /\ \A x \in Int, y \in Int : y # 0 => Quotient(x, y) \in Int
<1>1. \A x \in Int, y \in Nat : y # 0 => x \div y \in Int
  OBVIOUS
<1>2. ASSUME NEW x \in Int, NEW y \in Int, y # 0 PROVE Quotient(x, y) \in Int
  <2>1. CASE y < 0
    <3>1. -x \in Int /\ -y \in Nat /\ -y # 0
      BY <2>1
    <3>2. (-x) \div (-y) \in Int
      BY <1>1, <3>1
    <3> QED BY <2>1, <3>2 DEF Quotient
  <2>2. CASE ~(y < 0)
    <3>1. y \in Nat
      BY <2>2
    <3> QED BY <1>1, <1>2, <2>2, <3>1 DEF Quotient
  <2> QED BY <2>1, <2>2
<1> QED BY <1>1, <1>2

LEMMA TinyType ==
  ASSUME NEW x \in Int
  PROVE  AtLeastTiny(x) \in Nat /\ AtLeastTiny(x) # 0
BY DEF AtLeastTiny, Tiny

LEMMA NormalType ==
  ASSUME IsCourse(course), StatsType, NEW s \in Int, NEW a \in Asgts,
         NEW section \in 1 .. course.sections
  PROVE  normal(s, a, section) \in Int
<1> DEFINE p == course.asgts[a]
           r == stats[a][GroupOf(a, section)]
<1>1. GroupOf(a, section) \in Groups
  BY CourseType DEF GroupOf, Groups
<1>2. r \in Records
  BY <1>1, RecordType
<1>3. /\ p.npolicy \in {"RAW", "LINEAR", "SCALE", "QUANTILE"} /\ p.max \in Int
      /\ p.mean \in Int /\ p.stddev \in Int /\ p.scale \in Int
  BY AsgtType
<1>4. normal(s, a, section) =
        CASE p.npolicy = "RAW" -> s
          [] p.npolicy = "LINEAR" -> linear(s, r.mean, AtLeastTiny(r.stddev), p.mean, p.stddev)
          [] p.npolicy = "SCALE" -> scale(s, AtLeastTiny(p.max), p.scale)
          [] p.npolicy = "QUANTILE" -> quantile(s, r)
  BY DEF normal
<1> HIDE DEF r, p
<1>5. r.mean \in Int /\ r.stddev \in Int /\ r.tallied \in Nat /\ r.freqs \in Seq(Buckets)
  BY <1>2 DEF Records
<1>6. linear(s, r.mean, AtLeastTiny(r.stddev), p.mean, p.stddev) \in Int
  <2>1. PICK x \in Int : x = p.stddev * (s - r.mean)
    BY <1>3, <1>5
  <2>2. x \div AtLeastTiny(r.stddev) \in Int
    BY <1>5, DivType, TinyType
  <2> QED BY <1>3, <2>1, <2>2 DEF linear
<1>7. scale(s, AtLeastTiny(p.max), p.scale) \in Int
  <2>1. PICK x \in Int : x = s * p.scale
    BY <1>3
  <2>2. x \div AtLeastTiny(p.max) \in Int
    BY <1>3, DivType, TinyType
  <2> QED BY <2>1, <2>2 DEF scale
<1>8. quantile(s, r) \in Int
  <2> DEFINE at == SelectInSeq(r.freqs, LAMBDA b : s <= b.score)
             n == IF r.tallied = 0 THEN 1 ELSE r.tallied
             I == {i \in 1 .. Len(r.freqs) : s <= r.freqs[i].score}
  <2>1. quantile(s, r) = IF at = 0 THEN Unit ELSE (r.freqs[at].numless * 100 * Unit) \div n
    BY DEF quantile
  <2>2. at = IF I # {} THEN Min(I) ELSE 0
    BY DEF SelectInSeq
  <2>3. I \subseteq 1 .. Len(r.freqs) /\ I \subseteq Nat
    OBVIOUS
  <2> HIDE DEF at, I
  <2>4. at = 0 \/ at \in I
    BY <2>2, <2>3, Least DEF Min
  <2>5. n \in Nat /\ n # 0
    BY <1>5
  <2> HIDE DEF n
  <2>6. CASE at # 0
    <3>0. at \in 1 .. Len(r.freqs)
      BY <2>3, <2>4, <2>6
    <3>1. r.freqs[at] \in Buckets
      BY <1>5, <3>0
    <3>2. r.freqs[at].numless \in Int
      BY <3>1 DEF Buckets
    <3>3. PICK x \in Int : x = r.freqs[at].numless * 100 * Unit
      BY <3>2 DEF Unit
    <3>4. x \div n \in Int
      BY <2>5, DivType
    <3> QED BY <2>1, <2>6, <3>3, <3>4
  <2> QED BY <2>1, <2>6 DEF Unit
<1> QED BY <1>3, <1>4, <1>6, <1>7, <1>8

LEMMA StudentAvgType ==
  ASSUME IsCourse(course), StatsType, NEW s \in Students, NEW t
  PROVE  studentavg(s, t) \in Int
<1> DEFINE x(k) == Of(s).scores[k]
           p(k) == course.asgts[x(k).asgt]
           u(k) == IF k \in Like(s, t)
                     THEN (IF p(k).weighted THEN p(k).weight ELSE 1)
                            * normal(x(k).grade, x(k).asgt, Of(s).section)
                     ELSE 0
           w(k) == IF k \in Like(s, t) /\ p(k).weighted THEN p(k).weight ELSE 0
           L == Len(Of(s).scores)
<1>0. L \in Nat /\ DOMAIN Of(s).scores = 1 .. L /\ Of(s).section \in 1 .. course.sections
  BY StudentType
<1>1. ASSUME NEW k \in 1 .. L PROVE u(k) \in Int /\ w(k) \in Int
  <2>1. x(k) \in Scores(course.asgts)
    BY StudentType
  <2>2. x(k).asgt \in Asgts /\ x(k).grade \in Int
    BY <2>1, ScoreType
  <2>3. p(k).weight \in Int
    BY <2>2, AsgtType
  <2>4. normal(x(k).grade, x(k).asgt, Of(s).section) \in Int
    BY <1>0, <2>2, NormalType
  <2> QED BY <2>3, <2>4
<1>2. LikeSum(s, t) = Total([k \in 1 .. L |-> u(k)])
  BY <1>0 DEF LikeSum
<1>3. studentavg(s, t) = LET v == Total([k \in 1 .. L |-> w(k)]) IN
                         IF v = 0 THEN 0 ELSE Quotient(LikeSum(s, t), v)
  BY <1>0 DEF studentavg
<1> HIDE DEF u, w, L
<1>4. [k \in 1 .. L |-> u(k)] \in Seq(Int) /\ [k \in 1 .. L |-> w(k)] \in Seq(Int)
  BY <1>0, <1>1
<1>5. Total([k \in 1 .. L |-> u(k)]) \in Int
  BY <1>4, TotalType
<1>6. Total([k \in 1 .. L |-> w(k)]) \in Int
  BY <1>4, TotalType
<1> QED BY <1>2, <1>3, <1>5, <1>6, DivType

LEMMA NormalizedType ==
  ASSUME IsCourse(course), StatsType, NEW s \in Students, NEW x \in Scores(course.asgts)
  PROVE  Normalized(s, x) \in Int
<1>1. x.asgt \in Asgts /\ x.grade \in Int
  BY ScoreType
<1>2. x.subst \in {"USERAW", "USENORM", "USELIKEAVG", "USECLASSAVG"}
  BY DEF Scores
<1>3. normal(x.grade, x.asgt, Of(s).section) \in Int
  BY <1>1, NormalType, StudentType
<1>4. studentavg(s, course.asgts[x.asgt].atype) \in Int
  BY StudentAvgType
<1>5. course.asgts[x.asgt].mean \in Int
  BY <1>1, AsgtType
<1>6. 50 * Unit \in Int
  BY DEF Unit
<1> QED BY <1>1, <1>2, <1>3, <1>4, <1>5, <1>6 DEF Normalized, Tallied

LEMMA CompositeType ==
  ASSUME IsCourse(course), NEW s \in Students, norm[s] \in Seq(Int),
         Len(norm[s]) <= Len(Of(s).scores)
  PROVE  Composite(s) \in Int
<1> DEFINE p(k) == course.asgts[Of(s).scores[k].asgt]
           u(k) == norm[s][k] * (IF p(k).weighted THEN p(k).weight ELSE 1)
           L == Len(norm[s])
<1>0. L \in Nat /\ DOMAIN norm[s] = 1 .. L
  OBVIOUS
<1>1. ASSUME NEW k \in 1 .. L PROVE u(k) \in Int
  <2>1. Of(s).scores[k] \in Scores(course.asgts)
    <3>1. k \in 1 .. Len(Of(s).scores)
      BY StudentType
    <3> QED BY <3>1, StudentType
  <2>2. Of(s).scores[k].asgt \in Asgts
    BY <2>1, ScoreType
  <2>3. p(k).weight \in Int
    BY <2>2, AsgtType
  <2>4. norm[s][k] \in Int
    OBVIOUS
  <2> HIDE DEF p
  <2> QED BY <2>3, <2>4
<1>2. Composite(s) = Total([k \in 1 .. L |-> u(k)])
  BY <1>0 DEF Composite
<1> HIDE DEF u, L
<1>3. [k \in 1 .. L |-> u(k)] \in Seq(Int)
  BY <1>0, <1>1
<1>4. Total([k \in 1 .. L |-> u(k)]) \in Int
  BY <1>3, TotalType
<1> QED BY <1>2, <1>4

-----------------------------------------------------------------------------
(* The rosters.                                                            *)

\* The students of the class, if there is an assignment, or of a section.
Members(g) ==
  IF g = 0 THEN IF Asgts = {} THEN {} ELSE Students
  ELSE {s \in Students : Of(s).section = g}

\* Walk, from the number of students, the head and the links.
WalkFrom(N, r, next) ==
  LET walk[n \in 0 .. N + 1] ==
        IF n = 0 THEN << >>
        ELSE IF n = 1 THEN IF r = 0 THEN << >> ELSE <<r>>
        ELSE IF walk[n - 1] = << >> \/ next[Last(walk[n - 1])] = 0 THEN walk[n - 1]
        ELSE Append(walk[n - 1], next[Last(walk[n - 1])])
  IN walk[N + 1]

LEMMA WalkDef == Walk = WalkFrom(Len(course.students), roster, cnext)
BY DEF Walk, WalkFrom

\* A turn along the list.
Onward(n, v, r, next) ==
  IF n = 0 THEN << >>
  ELSE IF n = 1 THEN IF r = 0 THEN << >> ELSE <<r>>
  ELSE IF v = << >> \/ next[Last(v)] = 0 THEN v
  ELSE Append(v, next[Last(v)])

\* The links follow the sequence t to its end.
Follows(t, r, next) ==
  /\ t = << >> => r = 0
  /\ t # << >> => r = t[1] /\ next[t[Len(t)]] = 0
  /\ \A i \in 1 .. Len(t) - 1 : next[t[i]] = t[i + 1]

\* What is met in n turns.
Prefix(t, n) == SubSeq(t, 1, IF n <= Len(t) THEN n ELSE Len(t))

LEMMA PrefixIs ==
  ASSUME NEW S, NEW t \in Seq(S), NEW n \in Nat
  PROVE  LET m == IF n <= Len(t) THEN n ELSE Len(t) IN
         /\ m \in 0 .. Len(t) /\ Prefix(t, n) \in Seq(S) /\ Len(Prefix(t, n)) = m
         /\ \A i \in 1 .. m : Prefix(t, n)[i] = t[i]
<1> DEFINE m == IF n <= Len(t) THEN n ELSE Len(t)
<1>1. m \in 0 .. Len(t)
  OBVIOUS
<1>2. Prefix(t, n) = SubSeq(t, 1, m)
  BY DEF Prefix
<1> HIDE DEF m
<1>3. /\ Prefix(t, n) \in Seq(S) /\ Len(Prefix(t, n)) = m
      /\ \A i \in 1 .. m : Prefix(t, n)[i] = t[i]
  BY <1>1, <1>2
<1> QED BY <1>1, <1>3 DEF m

LEMMA PrefixNext ==
  ASSUME NEW N \in Nat, NEW r, NEW next, NEW t \in Seq(1 .. N), Follows(t, r, next),
         NEW n \in Nat \ {0}
  PROVE  Prefix(t, n) = Onward(n, Prefix(t, n - 1), r, next)
<1> DEFINE S == 1 .. N
           L == Len(t)
<1>0. L \in Nat /\ \A i \in 1 .. L : t[i] \in 1 .. N
  OBVIOUS
<1>1. /\ Prefix(t, n) \in Seq(S) /\ Len(Prefix(t, n)) = IF n <= L THEN n ELSE L
      /\ \A i \in 1 .. (IF n <= L THEN n ELSE L) : Prefix(t, n)[i] = t[i]
  BY PrefixIs
<1>2. /\ Prefix(t, n - 1) \in Seq(S)
      /\ Len(Prefix(t, n - 1)) = IF n - 1 <= L THEN n - 1 ELSE L
      /\ \A i \in 1 .. (IF n - 1 <= L THEN n - 1 ELSE L) : Prefix(t, n - 1)[i] = t[i]
  BY PrefixIs
<1>3. PICK u \in Seq(S) : u = Prefix(t, n)
  BY <1>1
<1>4. PICK v \in Seq(S) : v = Prefix(t, n - 1)
  BY <1>2
<1>5. CASE L = 0
  <2>1. u = << >> /\ v = << >>
    BY <1>0, <1>1, <1>2, <1>3, <1>4, <1>5
  <2>2. r = 0
    BY <1>5 DEF Follows
  <2> QED BY <1>3, <1>4, <2>1, <2>2 DEF Onward
<1>6. CASE L # 0 /\ n = 1
  <2>1. Len(u) = 1 /\ u[1] = t[1]
    BY <1>0, <1>1, <1>3, <1>6
  <2>2. u = <<t[1]>>
    BY <2>1
  <2>3. r = t[1] /\ r # 0
    BY <1>0, <1>6 DEF Follows
  <2> QED BY <1>3, <1>6, <2>2, <2>3 DEF Onward
<1>7. CASE n > 1 /\ n - 1 < L
  <2>1. Len(v) = n - 1 /\ Last(v) = t[n - 1] /\ v # << >>
    BY <1>0, <1>2, <1>4, <1>7, SMTT(20) DEF Last
  <2>2. next[t[n - 1]] = t[n] /\ t[n] # 0
    <3>1. n - 1 \in 1 .. L - 1 /\ n \in 1 .. L
      BY <1>0, <1>7
    <3> QED BY <1>0, <3>1 DEF Follows
  <2>3. Onward(n, v, r, next) = Append(v, t[n])
    BY <1>7, <2>1, <2>2, SMTT(20) DEF Onward
  <2>4. /\ Len(u) = n /\ \A i \in 1 .. n : u[i] = t[i]
    BY <1>0, <1>1, <1>3, <1>7
  <2>5. \A i \in 1 .. n - 1 : v[i] = t[i]
    BY <1>0, <1>2, <1>4, <1>7
  <2>6. t[n] \in S
    BY <1>0, <1>7
  <2>7. PICK x \in Seq(S) : x = Append(v, t[n])
    BY <2>6, AppendProperties
  <2>8. Len(x) = n /\ \A i \in 1 .. n : x[i] = t[i]
    BY <2>1, <2>5, <2>6, <2>7, SMTT(20)
  <2>9. u = x
    BY <2>4, <2>8, SeqEqual
  <2> QED BY <1>3, <1>4, <2>3, <2>7, <2>9
<1>8. CASE L # 0 /\ n > 1 /\ n - 1 >= L
  <2>1. Len(v) = L /\ Last(v) = t[L] /\ v # << >>
    BY <1>0, <1>2, <1>4, <1>8, SMTT(20) DEF Last
  <2>2. next[t[L]] = 0
    BY <1>0, <1>8 DEF Follows
  <2>3. Onward(n, v, r, next) = v
    BY <1>8, <2>1, <2>2 DEF Onward
  <2>4. Len(u) = L /\ \A i \in 1 .. L : u[i] = v[i]
    BY <1>0, <1>1, <1>2, <1>3, <1>4, <1>8
  <2>5. u = v
    BY <2>1, <2>4, SeqEqual
  <2> QED BY <1>3, <1>4, <2>3, <2>5
<1> QED BY <1>0, <1>5, <1>6, <1>7, <1>8

\* The list is the sequence that the links follow.
LEMMA WalkIs ==
  ASSUME NEW N \in Nat, NEW r, NEW next, NEW t \in Seq(1 .. N), Len(t) <= N,
         Follows(t, r, next)
  PROVE  WalkFrom(N, r, next) = t
<1> DEFINE Is(f) == f = [n \in 0 .. N + 1 |-> Onward(n, f[n - 1], r, next)]
           w == [n \in 0 .. N + 1 |-> Prefix(t, n)]
           walk == CHOOSE f : Is(f)
<1>0. Len(t) \in Nat
  OBVIOUS
<1>1. WalkFrom(N, r, next) = walk[N + 1]
  BY DEF WalkFrom, Onward
<1>2. Prefix(t, 0) = << >>
  BY <1>0, PrefixIs
<1>3. Is(w)
  <2>1. ASSUME NEW n \in 0 .. N + 1 PROVE w[n] = Onward(n, w[n - 1], r, next)
    <3>1. CASE n = 0
      BY <1>2, <3>1 DEF Onward
    <3>2. CASE n # 0
      <4>1. n \in Nat \ {0} /\ n - 1 \in 0 .. N + 1
        BY <3>2
      <4>2. w[n] = Prefix(t, n) /\ w[n - 1] = Prefix(t, n - 1)
        BY <4>1
      <4> QED BY <4>1, <4>2, PrefixNext
    <3> QED BY <3>1, <3>2
  <2> QED BY <2>1
<1> HIDE DEF w
<1>4. Is(walk)
  BY <1>3
<1> HIDE DEF walk
<1> DEFINE T == {n \in 0 .. N + 1 : walk[n] = Prefix(t, n)}
<1>5. \A n \in 0 .. N + 1 : walk[n] = Onward(n, walk[n - 1], r, next)
  BY <1>4
<1>6. 0 \in T
  BY <1>2, <1>5 DEF Onward
<1>7. ASSUME NEW n \in 1 .. N + 1, n - 1 \in T PROVE n \in T
  <2>1. walk[n - 1] = Prefix(t, n - 1)
    BY <1>7
  <2>2. n \in Nat \ {0} /\ n \in 0 .. N + 1
    OBVIOUS
  <2>3. walk[n] = Prefix(t, n)
    BY <1>5, <2>1, <2>2, PrefixNext
  <2> QED BY <2>2, <2>3
<1> HIDE DEF T
<1>8. N + 1 \in T
  <2>1. N + 1 \in Nat /\ N + 1 \in 0 .. N + 1
    OBVIOUS
  <2>2. \A n \in 0 .. N + 1 : n \in T
    BY <1>6, <1>7, <2>1, UpTo
  <2> QED BY <2>1, <2>2
<1>9. Prefix(t, N + 1) = t
  <2>1. PICK u \in Seq(1 .. N) : u = Prefix(t, N + 1)
    BY PrefixIs
  <2>2. Len(u) = Len(t) /\ \A i \in 1 .. Len(t) : u[i] = t[i]
    BY <1>0, <2>1, PrefixIs
  <2>3. u = t
    BY <2>2, SMTT(20)
  <2> QED BY <2>1, <2>3
<1> QED BY <1>1, <1>8, <1>9 DEF T

\* A set of numbers from 1 on is an interval.
LEMMA Initial ==
  ASSUME NEW N \in Nat, NEW T, T \subseteq 1 .. N, \A t \in T : \A s \in 1 .. t : s \in T
  PROVE  Cardinality(T) \in 0 .. N /\ T = 1 .. Cardinality(T)
<1> DEFINE Out == {n \in 1 .. N + 1 : n \notin T}
<1>1. Out \subseteq Nat /\ N + 1 \in Out
  OBVIOUS
<1> HIDE DEF Out
<1>2. PICK m \in Out : \A n \in Out : m <= n
  BY <1>1, Least
<1>3. m \in 1 .. N + 1 /\ m \notin T /\ \A n \in 1 .. N + 1 : n < m => n \in T
  BY <1>2 DEF Out
<1>4. T = 1 .. m - 1
  <2>1. \A t \in T : t \in 1 .. m - 1
    BY <1>3
  <2>2. \A t \in 1 .. m - 1 : t \in T
    BY <1>3
  <2> QED BY <2>1, <2>2
<1>5. Cardinality(1 .. m - 1) = m - 1
  <2>1. 1 \in Int /\ m - 1 \in Int
    BY <1>3
  <2>2. Cardinality(1 .. m - 1) = IF 1 > m - 1 THEN 0 ELSE m - 1 - 1 + 1
    BY <2>1, FS_Interval
  <2> QED BY <1>3, <2>2
<1> QED BY <1>3, <1>4, <1>5

\* A section that was read has its students, each once.
LEMMA SectionIs ==
  ASSUME IsCourse(course), NEW g \in 1 .. course.sections
  PROVE  /\ Section(g) \in Seq(Students) /\ IsInjective(Section(g))
         /\ Range(Section(g)) = Members(g)
<1> DEFINE N == Len(course.students)
           In(T) == {s \in Students : Of(s).section \in T}
           A == In(1 .. g - 1)
           B == In(1 .. g)
           G == In({g})
<1>0. /\ N \in Nat /\ Students = 1 .. N /\ course.sections \in Nat
      /\ \A s \in Students : Of(s).section \in 1 .. course.sections
  BY CourseType, StudentType
<1>1. \A s, t \in Students : s <= t => Of(s).section <= Of(t).section
  BY DEF IsCourse, Students, Of
<1>2. PICK a \in 0 .. N : a = Cardinality(A) /\ A = 1 .. a
  <2>1. A \subseteq 1 .. N
    BY <1>0
  <2>2. \A t \in A : \A s \in 1 .. t : s \in A
    BY <1>0, <1>1
  <2> HIDE DEF A
  <2> QED BY <1>0, <2>1, <2>2, Initial
<1>3. PICK b \in 0 .. N : B = 1 .. b
  <2>1. B \subseteq 1 .. N
    BY <1>0
  <2>2. \A t \in B : \A s \in 1 .. t : s \in B
    BY <1>0, <1>1
  <2> HIDE DEF B
  <2> QED BY <1>0, <2>1, <2>2, Initial
<1>4. G = a + 1 .. b /\ a <= b
  <2>1. \A s \in 1 .. N : s \in G <=> s \in B /\ s \notin A
    BY <1>0
  <2>2. A \subseteq B
    BY <1>0
  <2>3. G \subseteq 1 .. N
    BY <1>0
  <2> HIDE DEF A, B, G, N
  <2>4. a \in Nat /\ b \in Nat /\ b <= N /\ N \in Nat
    BY <1>0
  <2>5. A = 1 .. a /\ B = 1 .. b
    BY <1>2, <1>3
  <2>6. a <= b
    <3>1. a = 0 \/ a \in 1 .. a
      BY <2>4
    <3>2. a = 0 \/ a \in 1 .. b
      BY <2>2, <2>5, <3>1
    <3> QED BY <2>4, <3>2
  <2>7. \A s \in G : s \in a + 1 .. b
    BY <2>1, <2>3, <2>4, <2>5
  <2>8. \A s \in a + 1 .. b : s \in G
    BY <2>1, <2>4, <2>5
  <2> QED BY <2>6, <2>7, <2>8
<1>5. Cardinality(G) = b - a
  <2>1. a + 1 \in Int /\ b \in Int
    OBVIOUS
  <2>2. Cardinality(a + 1 .. b) = IF a + 1 > b THEN 0 ELSE b - (a + 1) + 1
    BY <2>1, FS_Interval
  <2>3. (IF a + 1 > b THEN 0 ELSE b - (a + 1) + 1) = b - a
    BY <1>4
  <2> QED BY <1>4, <2>2, <2>3
<1>6. Section(g) = [i \in 1 .. b - a |-> a + i]
  <2>1. Section(g) = [i \in 1 .. Cardinality(G) |-> Cardinality(A) + i]
    BY DEF Section
  <2> QED BY <1>2, <1>5, <2>1
<1>7. Members(g) = G
  BY DEF Members
<1> HIDE DEF G, A, B
<1>8. Section(g) \in Seq(Students) /\ IsInjective(Section(g))
  BY <1>0, <1>4, <1>6 DEF IsInjective
<1>9. Range(Section(g)) = a + 1 .. b
  <2>1. ASSUME NEW s \in a + 1 .. b PROVE s \in Range(Section(g))
    <3>1. s - a \in 1 .. b - a /\ a + (s - a) = s
      BY <1>4
    <3> QED BY <1>6, <3>1 DEF Range
  <2>2. Range(Section(g)) \subseteq a + 1 .. b
    BY <1>4, <1>6 DEF Range
  <2> QED BY <2>1, <2>2
<1> QED BY <1>4, <1>7, <1>8, <1>9

-----------------------------------------------------------------------------
(* partition.                                                              *)

\* What compare compares.
Key(x) ==
  CASE compare = "name" -> Of(x).name [] compare = "id" -> Of(x).id
    [] OTHER -> -composite[x]

Keys == \A s \in Students : Key(s) \in Int

LEMMA CompareIs ==
  ASSUME NEW s, NEW t
  PROVE  Compare(s, t) = Key(s) - Key(t)
BY DEF Compare, Key

LEMMA KeyType ==
  ASSUME IsCourse(course), composite \in [Students -> Int]
  PROVE  Keys
<1> SUFFICES ASSUME NEW s \in Students PROVE Key(s) \in Int
  BY DEF Keys
<1>1. Of(s).name \in Int /\ Of(s).id \in Int
  BY StudentType
<1>2. -composite[s] \in Int
  OBVIOUS
<1> QED BY <1>1, <1>2 DEF Key

LEMMA SwapIs ==
  ASSUME NEW S, NEW t \in Seq(S), NEW i \in 1 .. Len(t), NEW j \in 1 .. Len(t)
  PROVE  /\ Swap(t, i, j) \in Seq(S) /\ Len(Swap(t, i, j)) = Len(t)
         /\ Swap(t, i, j)[i] = t[j] /\ Swap(t, i, j)[j] = t[i]
         /\ \A k \in 1 .. Len(t) : k # i /\ k # j => Swap(t, i, j)[k] = t[k]
BY DEF Swap

\* The table u is the table t, permuted between low and high.
Permuted(u, t, low, high) ==
  /\ u \in Seq(Students) /\ Len(u) = Len(t)
  /\ \A i, j \in 1 .. Len(t) : u[i] = u[j] => i = j
  /\ \A i \in 1 .. Len(t) : i \notin low + 1 .. high => u[i] = t[i]
  /\ \A i \in low + 1 .. high : \E j \in low + 1 .. high : u[i] = t[j]
  /\ \A i \in low + 1 .. high : \E j \in low + 1 .. high : t[i] = u[j]

LEMMA PermutedSwap ==
  ASSUME NEW t \in Seq(Students), NEW u, NEW low \in Nat, NEW high \in Nat,
         high <= Len(t), Permuted(u, t, low, high),
         NEW a \in low + 1 .. high, NEW b \in low + 1 .. high
  PROVE  Permuted(Swap(u, a, b), t, low, high)
<1>0. Len(t) \in Nat /\ u \in Seq(Students) /\ Len(u) = Len(t)
  BY DEF Permuted
<1>1. a \in 1 .. Len(t) /\ b \in 1 .. Len(t) /\ low + 1 .. high \subseteq 1 .. Len(t)
  BY <1>0
<1>2. PICK w : w = Swap(u, a, b)
  OBVIOUS
<1>3. /\ w \in Seq(Students) /\ Len(w) = Len(t) /\ w[a] = u[b] /\ w[b] = u[a]
      /\ \A k \in 1 .. Len(t) : k # a /\ k # b => w[k] = u[k]
  <2>1. a \in 1 .. Len(u) /\ b \in 1 .. Len(u)
    BY <1>0, <1>1
  <2>2. /\ w \in Seq(Students) /\ Len(w) = Len(u) /\ w[a] = u[b] /\ w[b] = u[a]
        /\ \A k \in 1 .. Len(u) : k # a /\ k # b => w[k] = u[k]
    BY <1>0, <1>2, <2>1, SwapIs, ZenonT(30)
  <2> QED BY <1>0, <2>2
<1>4. \A i, j \in 1 .. Len(t) : u[i] = u[j] => i = j
  BY DEF Permuted
<1>5. \A i, j \in 1 .. Len(t) : w[i] = w[j] => i = j
  BY <1>1, <1>3, <1>4
<1>6. \A i \in 1 .. Len(t) : i \notin low + 1 .. high => w[i] = t[i]
  <2>1. \A i \in 1 .. Len(t) : i \notin low + 1 .. high => u[i] = t[i]
    BY DEF Permuted
  <2> QED BY <1>3, <2>1
<1>7. \A i \in low + 1 .. high : \E j \in low + 1 .. high : w[i] = u[j]
  BY <1>1, <1>3
<1>8. \A i \in low + 1 .. high : \E j \in low + 1 .. high : u[i] = w[j]
  BY <1>1, <1>3
<1>9. \A i \in low + 1 .. high : \E j \in low + 1 .. high : w[i] = t[j]
  <2>1. \A i \in low + 1 .. high : \E j \in low + 1 .. high : u[i] = t[j]
    BY DEF Permuted
  <2> TAKE i \in low + 1 .. high
  <2>2. PICK k \in low + 1 .. high : w[i] = u[k]
    BY <1>7
  <2>3. PICK j \in low + 1 .. high : u[k] = t[j]
    BY <2>1
  <2> QED BY <2>2, <2>3
<1>10. \A i \in low + 1 .. high : \E j \in low + 1 .. high : t[i] = w[j]
  <2>1. \A i \in low + 1 .. high : \E j \in low + 1 .. high : t[i] = u[j]
    BY DEF Permuted
  <2> TAKE i \in low + 1 .. high
  <2>2. PICK k \in low + 1 .. high : t[i] = u[k]
    BY <2>1
  <2>3. PICK j \in low + 1 .. high : u[k] = w[j]
    BY <1>8
  <2> QED BY <2>2, <2>3
<1> QED BY <1>2, <1>3, <1>5, <1>6, <1>9, <1>10 DEF Permuted

\* After n turns: what was put at the low end is not above the pivot v, what was
\* put at the high end is not below it.  The first that equals v goes up.
Parted(p, n, low, high, v) ==
  /\ p.l \in Int /\ p.h \in Int /\ p.alt \in {1, -1}
  /\ low <= p.l /\ p.h <= high /\ p.h - p.l = high - low - n
  /\ \A i \in low + 1 .. p.l : Key(p.tab[i]) <= Key(v)
  /\ \A i \in p.h + 1 .. high : Key(v) <= Key(p.tab[i])
  /\ p.h = high => p.alt = 1 /\ \A i \in low + 1 .. p.l : Key(p.tab[i]) < Key(v)

\* As long as nothing was put at the low end, only one student equalled the
\* pivot, and the table is rotated at its high end.
Rotated(p, t, low, high, v) ==
  p.l = low =>
    /\ p.h < high => p.tab[high] = t[low + 1]
    /\ \A j \in p.h + 1 .. high - 1 : p.tab[j] = t[j + 1]
    /\ low < p.h /\ p.h < high => p.tab[low + 1] = t[p.h + 1]
    /\ p.h = high => p.tab[low + 1] = t[low + 1]
    /\ \A j \in low + 2 .. p.h : p.tab[j] = t[j]
    /\ p.alt = 1 => \A i \in p.h + 1 .. high : Key(v) < Key(p.tab[i])
    /\ \E e : \A i \in p.h + 1 .. high : p.tab[i] # e => Key(v) < Key(p.tab[i])

\* What a turn does.
LEMMA TurnIs ==
  ASSUME NEW p, NEW v, Key(p.tab[p.l + 1]) \in Int, Key(v) \in Int, p.alt \in {1, -1}
  PROVE  \/ /\ Key(v) <= Key(p.tab[p.l + 1])
            /\ Key(v) = Key(p.tab[p.l + 1]) => p.alt = 1 /\ Turn(p, v).alt = -1
            /\ Key(v) < Key(p.tab[p.l + 1]) => Turn(p, v).alt = p.alt
            /\ Turn(p, v).tab = Swap(p.tab, p.l + 1, p.h)
            /\ Turn(p, v).l = p.l /\ Turn(p, v).h = p.h - 1
            /\ Turn(p, v).alt \in {1, -1}
         \/ /\ Key(p.tab[p.l + 1]) <= Key(v)
            /\ Key(v) = Key(p.tab[p.l + 1]) => p.alt = -1 /\ Turn(p, v).alt = 1
            /\ Key(p.tab[p.l + 1]) < Key(v) => Turn(p, v).alt = p.alt
            /\ Turn(p, v).tab = p.tab
            /\ Turn(p, v).l = p.l + 1 /\ Turn(p, v).h = p.h
            /\ Turn(p, v).alt \in {1, -1}
<1> DEFINE c == Compare(p.tab[p.l + 1], v)
           alt == IF c = 0 THEN -p.alt ELSE p.alt
<1>1. c = Key(p.tab[p.l + 1]) - Key(v)
  BY CompareIs
<1>2. Turn(p, v) = IF c > 0 \/ (c = 0 /\ p.alt = 1)
        THEN [tab |-> Swap(p.tab, p.l + 1, p.h), l |-> p.l, h |-> p.h - 1, alt |-> alt]
        ELSE [tab |-> p.tab, l |-> p.l + 1, h |-> p.h, alt |-> alt]
  BY DEF Turn
<1> HIDE DEF c
<1>3. CASE c > 0 \/ (c = 0 /\ p.alt = 1)
  BY <1>1, <1>2, <1>3
<1>4. CASE ~(c > 0 \/ (c = 0 /\ p.alt = 1))
  BY <1>1, <1>2, <1>4
<1> QED BY <1>3, <1>4

\* What is known of the loop of partition after n turns.
Halfway(p, n, t, low, high, v) ==
  Permuted(p.tab, t, low, high) /\ Parted(p, n, low, high, v) /\ Rotated(p, t, low, high, v)

\* A turn that puts a student at the high end.
LEMMA TurnUp ==
  ASSUME NEW t \in Seq(Students), NEW low \in Nat, NEW high \in Nat, low < high,
         high <= Len(t), NEW v \in Students, Keys, NEW n \in 1 .. high - low,
         NEW p, Halfway(p, n - 1, t, low, high, v), NEW q,
         Key(v) <= Key(p.tab[p.l + 1]),
         Key(v) = Key(p.tab[p.l + 1]) => p.alt = 1 /\ q.alt = -1,
         Key(v) < Key(p.tab[p.l + 1]) => q.alt = p.alt,
         q.tab = Swap(p.tab, p.l + 1, p.h), q.l = p.l, q.h = p.h - 1, q.alt \in {1, -1}
  PROVE  Halfway(q, n, t, low, high, v)
<1> DEFINE l == p.l
           h == p.h
           u == p.tab
           w == q.tab
           W == low + 1 .. high
           kv == Key(v)
<1>0. Len(t) \in Nat /\ l \in Int /\ h \in Int /\ low <= l /\ h <= high
      /\ h - l = high - low - (n - 1)
  BY DEF Halfway, Parted
<1>1. l + 1 \in W /\ h \in W /\ l < h /\ W \subseteq 1 .. Len(t)
  BY <1>0, SMTT(20)
<1>2. Permuted(w, t, low, high)
  BY <1>1, PermutedSwap DEF Halfway
<1>3. u \in Seq(Students) /\ Len(u) = Len(t)
  BY DEF Halfway, Permuted
<1>4. /\ w[l + 1] = u[h] /\ w[h] = u[l + 1]
      /\ \A k \in 1 .. Len(t) : k # l + 1 /\ k # h => w[k] = u[k]
  <2>1. l + 1 \in 1 .. Len(u) /\ h \in 1 .. Len(u)
    BY <1>1, <1>3
  <2>2. /\ w[l + 1] = u[h] /\ w[h] = u[l + 1]
        /\ \A k \in 1 .. Len(u) : k # l + 1 /\ k # h => w[k] = u[k]
    <3>1. PICK a \in 1 .. Len(u) : a = l + 1
      BY <2>1
    <3>2. w = Swap(u, a, h)
      BY <3>1
    <3> HIDE DEF u, h, w
    <3>3. /\ w[a] = u[h] /\ w[h] = u[a]
          /\ \A k \in 1 .. Len(u) : k # a /\ k # h => w[k] = u[k]
      BY <1>3, <2>1, <3>2, SwapIs, ZenonT(30)
    <3> QED BY <3>1, <3>3
  <2> QED BY <1>3, <2>2
<1>5. kv \in Int /\ \A k \in 1 .. Len(t) : Key(u[k]) \in Int
  BY <1>3, SMTT(20) DEF Keys
<1>6. /\ \A i \in low + 1 .. l : Key(u[i]) <= kv
      /\ \A i \in h + 1 .. high : kv <= Key(u[i])
      /\ p.alt \in {1, -1}
  BY DEF Halfway, Parted
<1>7. \A i \in h + 1 .. high : w[i] = u[i]
  BY <1>0, <1>1, <1>4, SMTT(20)
<1>8. Parted(q, n, low, high, v)
  <2>1. q.l \in Int /\ q.h \in Int /\ low <= q.l /\ q.h <= high /\ q.h < high
        /\ q.h - q.l = high - low - n
    BY <1>0, SMTT(20)
  <2>2. \A i \in low + 1 .. q.l : Key(w[i]) <= kv
    <3>1. \A i \in low + 1 .. l : i \in 1 .. Len(t) /\ i # l + 1 /\ i # h
      BY <1>0, SMTT(20)
    <3>2. \A i \in low + 1 .. l : w[i] = u[i]
      BY <1>4, <3>1
    <3> QED BY <1>6, <3>2
  <2>3. ASSUME NEW i \in q.h + 1 .. high PROVE kv <= Key(w[i])
    <3>1. i = h \/ i \in h + 1 .. high
      BY <1>0
    <3>2. CASE i = h
      BY <1>4, <3>2
    <3>3. CASE i \in h + 1 .. high
      BY <1>6, <1>7, <3>3
    <3> QED BY <3>1, <3>2, <3>3
  <2> QED BY <2>1, <2>2, <2>3 DEF Parted
<1>9. Rotated(q, t, low, high, v)
  <2> SUFFICES ASSUME q.l = low PROVE
        /\ q.h < high => w[high] = t[low + 1]
        /\ \A j \in q.h + 1 .. high - 1 : w[j] = t[j + 1]
        /\ low < q.h /\ q.h < high => w[low + 1] = t[q.h + 1]
        /\ q.h = high => w[low + 1] = t[low + 1]
        /\ \A j \in low + 2 .. q.h : w[j] = t[j]
        /\ q.alt = 1 => \A i \in q.h + 1 .. high : Key(v) < Key(w[i])
        /\ \E e : \A i \in q.h + 1 .. high : w[i] # e => Key(v) < Key(w[i])
    BY DEF Rotated
  <2>1. l = low
    OBVIOUS
  <2>2. /\ h < high => u[high] = t[low + 1]
        /\ \A j \in h + 1 .. high - 1 : u[j] = t[j + 1]
        /\ low < h /\ h < high => u[low + 1] = t[h + 1]
        /\ h = high => u[low + 1] = t[low + 1]
        /\ \A j \in low + 2 .. h : u[j] = t[j]
    BY <2>1 DEF Halfway, Rotated
  <2>3. /\ p.alt = 1 => \A i \in h + 1 .. high : kv < Key(u[i])
        /\ \E e : \A i \in h + 1 .. high : u[i] # e => kv < Key(u[i])
    BY <2>1 DEF Halfway, Rotated
  <2>4. w[high] = t[low + 1]
    <3>1. CASE h = high
      BY <1>4, <2>1, <2>2, <3>1
    <3>2. CASE h < high
      <4>1. high \in h + 1 .. high
        BY <1>0, <3>2
      <4> QED BY <1>7, <2>2, <3>2, <4>1
    <3> QED BY <1>0, <3>1, <3>2
  <2>5. ASSUME NEW j \in q.h + 1 .. high - 1 PROVE w[j] = t[j + 1]
    <3>1. (j = h /\ h < high) \/ j \in h + 1 .. high - 1
      BY <1>0, SMTT(20)
    <3>2. CASE j = h /\ h < high
      BY <1>0, <1>1, <1>4, <2>1, <2>2, <3>2
    <3>3. CASE j \in h + 1 .. high - 1
      <4>1. j \in h + 1 .. high
        BY <1>0, <3>3
      <4> QED BY <1>7, <2>2, <3>3, <4>1
    <3> QED BY <3>1, <3>2, <3>3
  <2>6. low < q.h => w[low + 1] = t[q.h + 1]
    <3> SUFFICES ASSUME low < q.h PROVE w[low + 1] = t[q.h + 1]
      OBVIOUS
    <3>1. q.h + 1 = h /\ h \in low + 2 .. h
      BY <1>0
    <3> QED BY <1>4, <2>1, <2>2, <3>1
  <2>7. ASSUME NEW j \in low + 2 .. q.h PROVE w[j] = t[j]
    <3>1. j \in low + 2 .. h /\ j # h /\ j # l + 1 /\ j \in 1 .. Len(t)
      BY <1>0, <1>1, <2>1, SMTT(20)
    <3> QED BY <1>4, <2>2, <3>1
  <2>8. q.alt = 1 => \A i \in q.h + 1 .. high : Key(v) < Key(w[i])
    <3> SUFFICES ASSUME q.alt = 1, NEW i \in q.h + 1 .. high PROVE kv < Key(w[i])
      OBVIOUS
    <3>1. kv < Key(u[l + 1]) /\ p.alt = 1
      BY <1>1, <1>5
    <3>2. i = h \/ i \in h + 1 .. high
      BY <1>0
    <3> QED BY <1>4, <1>7, <2>3, <3>1, <3>2
  <2>9. \E e : \A i \in q.h + 1 .. high : w[i] # e => Key(v) < Key(w[i])
    <3>0. \A i \in q.h + 1 .. high : i = h \/ i \in h + 1 .. high
      BY <1>0
    <3>1. CASE kv = Key(u[l + 1])
      <4>1. \A i \in h + 1 .. high : kv < Key(u[i])
        BY <2>3, <3>1
      <4>2. \A i \in q.h + 1 .. high : w[i] # u[l + 1] => kv < Key(w[i])
        BY <1>4, <1>7, <3>0, <4>1
      <4> QED BY <4>2
    <3>2. CASE kv < Key(u[l + 1])
      <4>1. PICK e : \A i \in h + 1 .. high : u[i] # e => kv < Key(u[i])
        BY <2>3
      <4>2. \A i \in q.h + 1 .. high : w[i] # e => kv < Key(w[i])
        BY <1>4, <1>7, <3>0, <3>2, <4>1
      <4> QED BY <4>2
    <3> QED BY <1>1, <1>5, <3>1, <3>2
  <2>10. q.h < high /\ q.h # high
    BY <1>0
  <2> QED BY <2>4, <2>5, <2>6, <2>7, <2>8, <2>9, <2>10
<1> QED BY <1>2, <1>8, <1>9 DEF Halfway

\* A turn that leaves a student at the low end.
LEMMA TurnDown ==
  ASSUME NEW t \in Seq(Students), NEW low \in Nat, NEW high \in Nat, low < high,
         high <= Len(t), NEW v \in Students, Keys, NEW n \in 1 .. high - low,
         NEW p, Halfway(p, n - 1, t, low, high, v), NEW q,
         Key(p.tab[p.l + 1]) <= Key(v),
         Key(v) = Key(p.tab[p.l + 1]) => p.alt = -1 /\ q.alt = 1,
         Key(p.tab[p.l + 1]) < Key(v) => q.alt = p.alt,
         q.tab = p.tab, q.l = p.l + 1, q.h = p.h, q.alt \in {1, -1}
  PROVE  Halfway(q, n, t, low, high, v)
<1> DEFINE l == p.l
           u == p.tab
           kv == Key(v)
<1>0. Len(t) \in Nat /\ l \in Int /\ p.h \in Int /\ low <= l /\ p.h <= high
      /\ p.h - l = high - low - (n - 1)
  BY DEF Halfway, Parted
<1>1. /\ \A i \in low + 1 .. l : Key(u[i]) <= kv
      /\ \A i \in p.h + 1 .. high : kv <= Key(u[i])
      /\ p.h = high => p.alt = 1 /\ \A i \in low + 1 .. l : Key(u[i]) < kv
  BY DEF Halfway, Parted
<1>2. kv \in Int /\ Key(u[l + 1]) \in Int
  <2>1. u \in Seq(Students) /\ Len(u) = Len(t)
    BY DEF Halfway, Permuted
  <2>2. l + 1 \in 1 .. Len(u)
    BY <1>0, <2>1
  <2> QED BY <2>1, <2>2, SMTT(20) DEF Keys
<1>3. \A i \in low + 1 .. q.l : i = l + 1 \/ i \in low + 1 .. l
  BY <1>0
<1>4. \A i \in low + 1 .. q.l : Key(u[i]) <= kv
  BY <1>1, <1>3
<1>5. p.h = high => q.alt = 1 /\ \A i \in low + 1 .. q.l : Key(u[i]) < kv
  BY <1>1, <1>2, <1>3
<1>6. Parted(q, n, low, high, v)
  BY <1>0, <1>1, <1>4, <1>5 DEF Parted
<1>7. Rotated(q, t, low, high, v)
  BY <1>0 DEF Rotated
<1> QED BY <1>6, <1>7 DEF Halfway

\* What partition returns: the table is permuted between low and high, and what
\* is below l is not above the pivot, what is above l not below it.  l is below
\* high; it is low only if the pivot is less than all others, and then the
\* students have moved down by one, the first to the end.
Partitioned(p, t, low, high) ==
  LET mid == (low + high) \div 2 + 1
      v == t[mid] IN
  /\ Permuted(p.tab, t, low, high)
  /\ p.l \in low .. high - 1
  /\ \A i \in low + 1 .. p.l : Key(p.tab[i]) <= Key(v)
  /\ \A i \in p.l + 1 .. high : Key(v) <= Key(p.tab[i])
  /\ p.l = low => /\ \A i \in low + 1 .. high : i # mid => Key(v) < Key(t[i])
                  /\ p.tab[high] = t[low + 1]
                  /\ \A j \in low + 1 .. high - 1 : p.tab[j] = t[j + 1]

LEMMA Middle ==
  ASSUME NEW low \in Nat, NEW high \in Nat, low < high
  PROVE  /\ (low + high) \div 2 + 1 \in low + 1 .. high
         /\ low + 1 < high => (low + high) \div 2 + 1 > low + 1
OBVIOUS

\* The loop ends with what partition promises.
LEMMA HalfwayEnd ==
  ASSUME NEW t \in Seq(Students), NEW low \in Nat, NEW high \in Nat, low < high,
         high <= Len(t), Keys, IsInjective(t), NEW mid \in low + 1 .. high,
         NEW p, Halfway(p, high - low, t, low, high, t[mid])
  PROVE  /\ Permuted(p.tab, t, low, high)
         /\ p.l \in low .. high - 1
         /\ \A i \in low + 1 .. p.l : Key(p.tab[i]) <= Key(t[mid])
         /\ \A i \in p.l + 1 .. high : Key(t[mid]) <= Key(p.tab[i])
         /\ p.l = low => /\ \A i \in low + 1 .. high : i # mid => Key(t[mid]) < Key(t[i])
                         /\ p.tab[high] = t[low + 1]
                         /\ \A j \in low + 1 .. high - 1 : p.tab[j] = t[j + 1]
<1> DEFINE u == p.tab
           v == t[mid]
           kv == Key(t[mid])
<1>0. Len(t) \in Nat /\ low + 1 .. high \subseteq 1 .. Len(t)
  OBVIOUS
<1>1. p.l \in Int /\ p.h = p.l /\ low <= p.l /\ p.l <= high
  BY <1>0 DEF Halfway, Parted
<1>2. \A i \in low + 1 .. high : \E j \in low + 1 .. high : t[i] = u[j]
  BY DEF Halfway, Permuted
<1>3. kv \in Int
  BY <1>0 DEF Keys
<1>4. PICK m \in low + 1 .. high : t[mid] = u[m]
  BY <1>2
<1>5. p.l # high
  <2>1. p.l = high => Key(u[m]) < kv
    BY <1>1 DEF Halfway, Parted
  <2> QED BY <1>3, <1>4, <2>1
<1>6. /\ \A i \in low + 1 .. p.l : Key(u[i]) <= kv
      /\ \A i \in p.l + 1 .. high : kv <= Key(u[i])
  BY <1>1 DEF Halfway, Parted
<1>7. ASSUME p.l = low
      PROVE  /\ \A i \in low + 1 .. high : i # mid => kv < Key(t[i])
             /\ u[high] = t[low + 1]
             /\ \A j \in low + 1 .. high - 1 : u[j] = t[j + 1]
  <2>1. /\ u[high] = t[low + 1]
        /\ \A j \in low + 1 .. high - 1 : u[j] = t[j + 1]
        /\ \E e : \A i \in low + 1 .. high : u[i] # e => kv < Key(u[i])
    BY <1>1, <1>7 DEF Halfway, Rotated
  <2>2. PICK e : \A i \in low + 1 .. high : u[i] # e => kv < Key(u[i])
    BY <2>1
  <2>3. e = t[mid]
    BY <1>3, <1>4, <2>2
  <2>4. ASSUME NEW i \in low + 1 .. high, i # mid PROVE kv < Key(t[i])
    <3>1. PICK j \in low + 1 .. high : t[i] = u[j]
      BY <1>2
    <3>2. t[i] # t[mid]
      BY <1>0, <2>4 DEF IsInjective
    <3> QED BY <2>2, <2>3, <3>1, <3>2
  <2> QED BY <2>1, <2>4
<1>8. Permuted(u, t, low, high)
  BY DEF Halfway
<1> QED BY <1>1, <1>5, <1>6, <1>7, <1>8

LEMMA HalfwayInit ==
  ASSUME NEW t \in Seq(Students), NEW low \in Nat, NEW high \in Nat, low < high,
         high <= Len(t), IsInjective(t), NEW v
  PROVE  Halfway([tab |-> t, l |-> low, h |-> high, alt |-> 1], 0, t, low, high, v)
<1>1. PICK p : p = [tab |-> t, l |-> low, h |-> high, alt |-> 1]
  OBVIOUS
<1>2. p.tab = t /\ p.l = low /\ p.h = high /\ p.alt = 1
  BY <1>1
<1>3. Permuted(t, t, low, high)
  BY DEF Permuted, IsInjective
<1>4. Parted(p, 0, low, high, v)
  BY <1>2 DEF Parted
<1>5. Rotated(p, t, low, high, v)
  BY <1>2 DEF Rotated
<1> QED BY <1>1, <1>2, <1>3, <1>4, <1>5 DEF Halfway

LEMMA HalfwayNext ==
  ASSUME NEW t \in Seq(Students), NEW low \in Nat, NEW high \in Nat, low < high,
         high <= Len(t), NEW v \in Students, Keys, NEW n \in 1 .. high - low,
         NEW p, Halfway(p, n - 1, t, low, high, v)
  PROVE  Halfway(Turn(p, v), n, t, low, high, v)
<1>1. Key(p.tab[p.l + 1]) \in Int /\ Key(v) \in Int /\ p.alt \in {1, -1}
  <2>1. /\ p.l \in Int /\ p.h \in Int /\ low <= p.l /\ p.h <= high
        /\ p.h - p.l = high - low - (n - 1) /\ p.alt \in {1, -1}
    BY DEF Halfway, Parted
  <2>2. p.tab \in Seq(Students) /\ Len(p.tab) = Len(t)
    BY DEF Halfway, Permuted
  <2>3. p.l + 1 \in 1 .. Len(p.tab)
    BY <2>1, <2>2
  <2>4. p.tab[p.l + 1] \in Students
    BY <2>2, <2>3
  <2> QED BY <2>1, <2>4 DEF Keys
<1>2. PICK q : q = Turn(p, v)
  OBVIOUS
<1>3. \/ /\ Key(v) <= Key(p.tab[p.l + 1])
         /\ Key(v) = Key(p.tab[p.l + 1]) => p.alt = 1 /\ q.alt = -1
         /\ Key(v) < Key(p.tab[p.l + 1]) => q.alt = p.alt
         /\ q.tab = Swap(p.tab, p.l + 1, p.h)
         /\ q.l = p.l /\ q.h = p.h - 1
         /\ q.alt \in {1, -1}
      \/ /\ Key(p.tab[p.l + 1]) <= Key(v)
         /\ Key(v) = Key(p.tab[p.l + 1]) => p.alt = -1 /\ q.alt = 1
         /\ Key(p.tab[p.l + 1]) < Key(v) => q.alt = p.alt
         /\ q.tab = p.tab
         /\ q.l = p.l + 1 /\ q.h = p.h
         /\ q.alt \in {1, -1}
  BY <1>1, <1>2, TurnIs
<1> QED BY <1>2, <1>3, TurnUp, TurnDown

LEMMA PartitionIs ==
  ASSUME NEW t \in Seq(Students), NEW low \in Nat, NEW high \in Nat, low < high,
         high <= Len(t), Keys, IsInjective(t)
  PROVE  Partitioned(partition(t, low, high), t, low, high)
<1> DEFINE mid == (low + high) \div 2 + 1
           v == t[mid]
           L == high - low
           e == [tab |-> t, l |-> low, h |-> high, alt |-> 1]
           Is(f) == f = [n \in 0 .. L |-> IF n = 0 THEN e ELSE Turn(f[n - 1], v)]
           turn == CHOOSE f : Is(f)
<1>0. L \in Nat /\ mid \in low + 1 .. high
  BY Middle
<1>1. v \in Students
  BY <1>0
<1>2. partition(t, low, high) = turn[L]
  BY DEF partition
<1> HIDE DEF mid, v, L, e
<1>3. Halfway(e, 0, t, low, high, v)
  BY HalfwayInit DEF e
<1>4. ASSUME NEW n \in 1 .. L, NEW p, Halfway(p, n - 1, t, low, high, v)
      PROVE  Halfway(Turn(p, v), n, t, low, high, v)
  BY <1>1, <1>4, HalfwayNext DEF L
<1>5. \E f : Is(f)
  <2> DEFINE R == [tab : Seq(Students), l : Int, h : Int, alt : {1, -1}]
             S == [n \in 0 .. L |-> {p \in R : Halfway(p, n, t, low, high, v)}]
             F == [n \in 1 .. L |-> [p \in S[n - 1] |-> Turn(p, v)]]
  <2>1. e \in S[0]
    <3>1. e \in R
      BY DEF e
    <3> QED BY <1>0, <1>3, <3>1
  <2>2. ASSUME NEW n \in 1 .. L, NEW p \in S[n - 1]
        PROVE  F[n][p] = Turn(p, v) /\ F[n][p] \in S[n]
    <3>0. n - 1 \in 0 .. L /\ n \in 0 .. L
      BY <1>0
    <3>1. Halfway(p, n - 1, t, low, high, v) /\ p \in R
      BY <3>0
    <3>2. Halfway(Turn(p, v), n, t, low, high, v)
      BY <1>4, <3>1
    <3>3. Turn(p, v) \in R
      <4>1. PICK q : q = Turn(p, v)
        OBVIOUS
      <4>2. q.tab \in Seq(Students) /\ q.l \in Int /\ q.h \in Int /\ q.alt \in {1, -1}
        BY <3>2, <4>1 DEF Halfway, Permuted, Parted
      <4>3. q = [tab |-> q.tab, l |-> q.l, h |-> q.h, alt |-> q.alt]
        BY <4>1 DEF Turn
      <4> QED BY <4>1, <4>2, <4>3
    <3>4. F[n][p] = Turn(p, v)
      OBVIOUS
    <3> HIDE DEF F, R
    <3> QED BY <3>0, <3>2, <3>3, <3>4
  <2> HIDE DEF F, S
  <2>3. PICK f : Steps(f, L, F, e) /\ \A n \in 0 .. L : f[n] \in S[n]
    BY <1>0, <2>1, <2>2, Iterate, Zenon
  <2>4. ASSUME NEW n \in 0 .. L PROVE f[n] = IF n = 0 THEN e ELSE Turn(f[n - 1], v)
    <3>1. f[n] = IF n = 0 THEN e ELSE F[n][f[n - 1]]
      BY <2>3 DEF Steps
    <3>2. CASE n # 0
      <4>1. n \in 1 .. L /\ n - 1 \in 0 .. L
        BY <1>0, <3>2
      <4>2. f[n - 1] \in S[n - 1]
        BY <2>3, <4>1
      <4> QED BY <2>2, <3>1, <3>2, <4>1, <4>2
    <3> QED BY <3>1, <3>2
  <2>5. Is(f)
    BY <2>3, <2>4 DEF Steps
  <2> QED BY <2>5
<1>6. Is(turn)
  BY <1>5
<1> HIDE DEF turn
<1>7. \A n \in 0 .. L : turn[n] = IF n = 0 THEN e ELSE Turn(turn[n - 1], v)
  BY <1>6
<1> DEFINE T == {n \in 0 .. L : Halfway(turn[n], n, t, low, high, v)}
<1>8. 0 \in T
  BY <1>0, <1>3, <1>7
<1>9. ASSUME NEW n \in 1 .. L, n - 1 \in T PROVE n \in T
  <2>1. Halfway(turn[n - 1], n - 1, t, low, high, v) /\ n \in 0 .. L /\ n # 0
    BY <1>0, <1>9
  <2>2. Halfway(Turn(turn[n - 1], v), n, t, low, high, v)
    BY <1>4, <2>1
  <2> QED BY <1>7, <2>1, <2>2
<1> HIDE DEF T
<1>10. L \in T
  <2>1. \A n \in 0 .. L : n \in T
    BY <1>0, <1>8, <1>9, UpTo
  <2> QED BY <1>0, <2>1
<1>11. Halfway(turn[L], high - low, t, low, high, t[mid])
  BY <1>10 DEF T, L, v
<1>12. PICK p : p = partition(t, low, high)
  OBVIOUS
<1>13. Halfway(p, high - low, t, low, high, t[mid])
  BY <1>2, <1>11, <1>12
<1>14. /\ Permuted(p.tab, t, low, high)
       /\ p.l \in low .. high - 1
       /\ \A i \in low + 1 .. p.l : Key(p.tab[i]) <= Key(t[mid])
       /\ \A i \in p.l + 1 .. high : Key(t[mid]) <= Key(p.tab[i])
       /\ p.l = low => /\ \A i \in low + 1 .. high : i # mid => Key(t[mid]) < Key(t[i])
                       /\ p.tab[high] = t[low + 1]
                       /\ \A j \in low + 1 .. high - 1 : p.tab[j] = t[j + 1]
  BY <1>0, <1>13, HalfwayEnd
<1> QED BY <1>12, <1>14 DEF Partitioned, mid

-----------------------------------------------------------------------------
(* sorttable.                                                              *)

\* The ranges on a stack, the next one last and lowest: they are disjoint.
Ranges(st, L) ==
  /\ st \in Seq(Nat \X Nat)
  /\ \A k \in 1 .. Len(st) : st[k][1] <= st[k][2] /\ st[k][2] <= L
  /\ \A j, k \in 1 .. Len(st) : j < k => st[k][2] <= st[j][1]

\* Two students are in order or still in one range.
Ordered(t, st) ==
  \A i, j \in 1 .. Len(t) :
    i < j => \/ Key(t[i]) <= Key(t[j])
             \/ \E k \in 1 .. Len(st) : st[k][1] < i /\ j <= st[k][2]

LEMMA FrontIs ==
  ASSUME NEW S, NEW s \in Seq(S), s # << >>
  PROVE  /\ Len(s) \in Nat /\ Len(s) >= 1 /\ Last(s) \in S /\ Last(s) = s[Len(s)]
         /\ Front(s) \in Seq(S) /\ Len(Front(s)) = Len(s) - 1
         /\ \A i \in 1 .. Len(s) - 1 : Front(s)[i] = s[i]
<1>1. Len(s) \in Nat /\ Len(s) >= 1
  OBVIOUS
<1>2. /\ Front(s) \in Seq(S) /\ Len(Front(s)) = Len(s) - 1
      /\ \A i \in 1 .. Len(s) - 1 : Front(s)[i] = s[i]
  <2>1. PICK n \in Nat : n = Len(s) - 1
    BY <1>1
  <2>2. Front(s) = SubSeq(s, 1, n)
    BY <2>1 DEF Front
  <2>3. \A i \in 1 .. n : s[i] \in S
    BY <1>1, <2>1
  <2>4. /\ SubSeq(s, 1, n) \in Seq(S)
        /\ Len(SubSeq(s, 1, n)) = IF 1 <= n THEN n - 1 + 1 ELSE 0
        /\ \A i \in 1 .. n - 1 + 1 : SubSeq(s, 1, n)[i] = s[1 + i - 1]
    BY <2>3, SubSeqProperties
  <2>5. \A i \in 1 .. n : i \in 1 .. n - 1 + 1 /\ 1 + i - 1 = i
    BY <2>1
  <2> QED BY <2>1, <2>2, <2>4, <2>5
<1> QED BY <1>1, <1>2 DEF Last

\* Without its last range, a stack has only ranges above it.
LEMMA RangesFront ==
  ASSUME NEW L \in Nat, NEW st, Ranges(st, L), st # << >>
  PROVE  /\ Ranges(Front(st), L)
         /\ Last(st)[1] \in Nat /\ Last(st)[2] \in Nat
         /\ Last(st)[1] <= Last(st)[2] /\ Last(st)[2] <= L
         /\ \A k \in 1 .. Len(Front(st)) :
              /\ Front(st)[k] = st[k]
              /\ Front(st)[k] \in Nat \X Nat /\ Last(st)[2] <= Front(st)[k][1]
<1>0. st \in Seq(Nat \X Nat)
  BY DEF Ranges
<1>1. /\ Len(st) \in Nat /\ Len(st) >= 1 /\ Last(st) \in Nat \X Nat
      /\ Last(st) = st[Len(st)]
      /\ Front(st) \in Seq(Nat \X Nat) /\ Len(Front(st)) = Len(st) - 1
      /\ \A i \in 1 .. Len(st) - 1 : Front(st)[i] = st[i]
  BY <1>0, FrontIs
<1>2. Last(st)[1] <= Last(st)[2] /\ Last(st)[2] <= L
  BY <1>1 DEF Ranges
<1>3. \A k \in 1 .. Len(st) - 1 : k \in 1 .. Len(st) /\ k < Len(st) /\ Len(st) \in 1 .. Len(st)
  BY <1>1
<1>4. \A k \in 1 .. Len(st) - 1 : Last(st)[2] <= st[k][1]
  BY <1>1, <1>3 DEF Ranges
<1>5. Ranges(Front(st), L)
  <2>1. \A k \in 1 .. Len(st) - 1 : st[k][1] <= st[k][2] /\ st[k][2] <= L
    BY <1>3 DEF Ranges
  <2>2. \A j, k \in 1 .. Len(st) - 1 : j < k => st[k][2] <= st[j][1]
    BY <1>3 DEF Ranges
  <2> QED BY <1>1, <2>1, <2>2 DEF Ranges
<1>6. \A k \in 1 .. Len(Front(st)) : Front(st)[k] \in Nat \X Nat
  BY <1>1
<1> QED BY <1>1, <1>2, <1>4, <1>5, <1>6

\* The stack a is the stack st with one more range.
Pushed(a, st, r, L) ==
  /\ Ranges(a, L) /\ Len(st) \in Nat /\ Len(a) = Len(st) + 1
  /\ \A k \in 1 .. Len(st) : a[k] = st[k]
  /\ a[Len(st) + 1] = r

Above(st, high) == \A k \in 1 .. Len(st) : high <= st[k][1]

\* A range below all others can be put on the stack.
LEMMA RangesAppend ==
  ASSUME NEW L \in Nat, NEW st, Ranges(st, L), NEW low \in Nat, NEW high \in Nat,
         low <= high, high <= L, Above(st, high)
  PROVE  Pushed(Append(st, <<low, high>>), st, <<low, high>>, L)
<1>0. st \in Seq(Nat \X Nat)
  BY DEF Ranges
<1>1. PICK r \in Nat \X Nat : r = <<low, high>> /\ r[1] = low /\ r[2] = high
  <2>1. <<low, high>> \in Nat \X Nat /\ <<low, high>>[1] = low /\ <<low, high>>[2] = high
    OBVIOUS
  <2> QED BY <2>1, Zenon
<1>2. PICK a : a = Append(st, r)
  OBVIOUS
<1>3. /\ a \in Seq(Nat \X Nat) /\ Len(st) \in Nat /\ Len(a) = Len(st) + 1
      /\ \A k \in 1 .. Len(st) : a[k] = st[k]
      /\ a[Len(st) + 1] = r
  BY <1>0, <1>2, AppendProperties
<1>4. \A k \in 1 .. Len(a) : k \in 1 .. Len(st) \/ k = Len(st) + 1
  BY <1>3
<1>5. \A k \in 1 .. Len(a) : a[k][1] <= a[k][2] /\ a[k][2] <= L
  BY <1>1, <1>3, <1>4 DEF Ranges
<1>6. ASSUME NEW j \in 1 .. Len(a), NEW k \in 1 .. Len(a), j < k
      PROVE  a[k][2] <= a[j][1]
  <2>1. j \in 1 .. Len(st)
    BY <1>3, <1>6
  <2>2. CASE k \in 1 .. Len(st)
    BY <1>3, <1>6, <2>1, <2>2 DEF Ranges
  <2>3. CASE k = Len(st) + 1
    BY <1>1, <1>3, <2>1, <2>3 DEF Above
  <2> QED BY <1>4, <2>2, <2>3
<1>7. Ranges(a, L)
  BY <1>3, <1>5, <1>6 DEF Ranges
<1> QED BY <1>1, <1>2, <1>3, <1>7 DEF Pushed

\* The permutation keeps the students.
LEMMA PermutedRange ==
  ASSUME NEW t \in Seq(Students), NEW u, NEW low \in Nat, NEW high \in Nat,
         high <= Len(t), Permuted(u, t, low, high)
  PROVE  u \in Seq(Students) /\ Len(u) = Len(t) /\ IsInjective(u) /\ Range(u) = Range(t)
<1>0. u \in Seq(Students) /\ Len(u) = Len(t) /\ Len(t) \in Nat
      /\ DOMAIN u = 1 .. Len(t) /\ DOMAIN t = 1 .. Len(t)
  BY DEF Permuted
<1>1. IsInjective(u)
  BY <1>0 DEF Permuted, IsInjective
<1>2. low + 1 .. high \subseteq 1 .. Len(t)
  BY <1>0
<1>3. \A i \in 1 .. Len(t) : \E j \in 1 .. Len(t) : u[i] = t[j]
  BY <1>2 DEF Permuted
<1>4. \A i \in 1 .. Len(t) : \E j \in 1 .. Len(t) : t[i] = u[j]
  BY <1>2 DEF Permuted
<1>5. ASSUME NEW x \in Range(u) PROVE x \in Range(t)
  <2>1. PICK i \in 1 .. Len(t) : x = u[i]
    BY <1>0 DEF Range
  <2>2. PICK j \in 1 .. Len(t) : u[i] = t[j]
    BY <1>3
  <2> QED BY <1>0, <2>1, <2>2 DEF Range
<1>6. ASSUME NEW x \in Range(t) PROVE x \in Range(u)
  <2>1. PICK i \in 1 .. Len(t) : x = t[i]
    BY <1>0 DEF Range
  <2>2. PICK j \in 1 .. Len(t) : t[i] = u[j]
    BY <1>4
  <2> QED BY <1>0, <2>1, <2>2 DEF Range
<1> QED BY <1>0, <1>1, <1>5, <1>6

\* The students of the last range are in order with all others, and remain so
\* when they are permuted.
LEMMA OutsideOrdered ==
  ASSUME NEW t \in Seq(Students), NEW st, Ranges(st, Len(t)), st # << >>,
         Ordered(t, st), NEW u, Permuted(u, t, Last(st)[1], Last(st)[2]),
         NEW i \in 1 .. Len(t), NEW j \in 1 .. Len(t), i < j,
         ~(Last(st)[1] < i /\ j <= Last(st)[2])
  PROVE  \/ Key(u[i]) <= Key(u[j])
         \/ \E k \in 1 .. Len(Front(st)) : Front(st)[k][1] < i /\ j <= Front(st)[k][2]
<1>1. PICK low \in Nat, high \in Nat :
        /\ low = Last(st)[1] /\ high = Last(st)[2] /\ low <= high /\ high <= Len(t)
  BY RangesFront
<1>2. /\ Len(st) \in Nat /\ Len(st) >= 1 /\ Last(st) = st[Len(st)]
      /\ Len(Front(st)) = Len(st) - 1
  BY FrontIs DEF Ranges
<1>3. \A k \in 1 .. Len(st) - 1 : /\ Front(st)[k] = st[k] /\ high <= st[k][1]
                                  /\ st[k][1] \in Nat /\ st[k][2] \in Nat
  <2>1. Len(t) \in Nat
    OBVIOUS
  <2>2. \A k \in 1 .. Len(Front(st)) :
          /\ Front(st)[k] = st[k]
          /\ Front(st)[k] \in Nat \X Nat /\ Last(st)[2] <= Front(st)[k][1]
    BY <2>1, RangesFront
  <2> QED BY <1>1, <1>2, <2>2
<1>4. ASSUME NEW a \in 1 .. Len(t), NEW b \in 1 .. Len(t), a < b,
             a \notin low + 1 .. high \/ b \notin low + 1 .. high
      PROVE  \/ Key(t[a]) <= Key(t[b])
             \/ \E k \in 1 .. Len(st) - 1 : high < a /\ st[k][1] < a /\ b <= st[k][2]
  <2>1. CASE Key(t[a]) <= Key(t[b])
    BY <2>1
  <2>2. CASE ~(Key(t[a]) <= Key(t[b]))
    <3>1. PICK k \in 1 .. Len(st) : st[k][1] < a /\ b <= st[k][2]
      BY <1>4, <2>2 DEF Ordered
    <3>2. k # Len(st)
      BY <1>1, <1>2, <1>4, <3>1
    <3>3. k \in 1 .. Len(st) - 1
      BY <1>2, <3>2
    <3>4. high < a
      BY <1>1, <1>3, <3>1, <3>3
    <3> QED BY <3>1, <3>3, <3>4
  <2> QED BY <2>1, <2>2
<1>5. Permuted(u, t, low, high)
  BY <1>1
<1>6. CASE i \in low + 1 .. high
  <2>1. j \notin low + 1 .. high /\ high < j
    BY <1>1, <1>6
  <2>2. u[j] = t[j]
    BY <1>5, <2>1 DEF Permuted
  <2>3. PICK a \in low + 1 .. high : u[i] = t[a]
    BY <1>5, <1>6 DEF Permuted
  <2>4. a \in 1 .. Len(t) /\ a < j /\ ~(high < a)
    BY <1>1, <2>1
  <2>5. Key(t[a]) <= Key(t[j])
    BY <1>4, <2>1, <2>4
  <2> QED BY <2>2, <2>3, <2>5
<1>7. CASE i \notin low + 1 .. high /\ j \in low + 1 .. high
  <2>1. u[i] = t[i]
    BY <1>5, <1>7 DEF Permuted
  <2>2. PICK b \in low + 1 .. high : u[j] = t[b]
    BY <1>5, <1>7 DEF Permuted
  <2>3. b \in 1 .. Len(t) /\ i < b /\ ~(high < i)
    BY <1>1, <1>7
  <2>4. Key(t[i]) <= Key(t[b])
    BY <1>4, <1>7, <2>3
  <2> QED BY <2>1, <2>2, <2>4
<1>8. CASE i \notin low + 1 .. high /\ j \notin low + 1 .. high
  <2>1. u[i] = t[i] /\ u[j] = t[j]
    BY <1>5, <1>8 DEF Permuted
  <2>2. \/ Key(t[i]) <= Key(t[j])
        \/ \E k \in 1 .. Len(st) - 1 : st[k][1] < i /\ j <= st[k][2]
    BY <1>4, <1>8
  <2> QED BY <1>2, <1>3, <2>1, <2>2
<1> QED BY <1>6, <1>7, <1>8

\* A call of sorttable: on the stack with the last range split at l.
Halves(st, l) ==
  LET r == Last(st) IN
  IF r[1] + 1 = r[2] THEN Front(st)
  ELSE Append(Append(Front(st), <<l, r[2]>>), <<r[1], l>>)

Halved(s, f, l, low, high, L) ==
  /\ Ranges(s, L)
  /\ Len(f) \in Nat
  /\ Len(s) = Len(f) + 2
  /\ \A k \in 1 .. Len(f) : s[k] = f[k]
  /\ s[Len(f) + 1] = <<l, high>>
  /\ s[Len(f) + 2] = <<low, l>>
  /\ s = Append(Append(f, <<l, high>>), <<low, l>>)

LEMMA HalvesRanges ==
  ASSUME NEW L \in Nat, NEW st, Ranges(st, L), st # << >>,
         NEW low \in Nat, NEW high \in Nat, low = Last(st)[1], high = Last(st)[2],
         low + 1 < high, NEW l \in low .. high - 1
  PROVE  Halved(Halves(st, l), Front(st), l, low, high, L)
<1>1. PICK f : f = Front(st)
  OBVIOUS
<1>2. Ranges(f, L) /\ high <= L /\ \A k \in 1 .. Len(f) : high <= f[k][1]
  BY <1>1, RangesFront
<1>3. l \in Nat /\ l <= high /\ low <= l /\ l <= L
  BY <1>2
<1>4. PICK a : a = Append(f, <<l, high>>)
  OBVIOUS
<1>5. /\ Ranges(a, L) /\ Len(f) \in Nat /\ Len(a) = Len(f) + 1
      /\ \A k \in 1 .. Len(f) : a[k] = f[k]
      /\ a[Len(f) + 1] = <<l, high>>
  <2>1. Above(f, high)
    BY <1>2 DEF Above
  <2>2. Pushed(Append(f, <<l, high>>), f, <<l, high>>, L)
    BY <1>2, <1>3, <2>1, RangesAppend
  <2> QED BY <1>4, <2>2 DEF Pushed
<1>6. ASSUME NEW k \in 1 .. Len(a) PROVE l <= a[k][1]
  <2>1. CASE k \in 1 .. Len(f)
    <3>1. f[k] \in Nat \X Nat
      BY <1>2, <2>1 DEF Ranges
    <3>2. f[k][1] \in Nat /\ high <= f[k][1]
      BY <1>2, <2>1, <3>1
    <3> QED BY <1>3, <1>5, <2>1, <3>2
  <2>2. CASE k = Len(f) + 1
    BY <1>3, <1>5, <2>2
  <2> QED BY <1>5, <2>1, <2>2
<1>7. PICK b : b = Append(a, <<low, l>>)
  OBVIOUS
<1>8. /\ Ranges(b, L) /\ Len(a) \in Nat /\ Len(b) = Len(a) + 1
      /\ \A k \in 1 .. Len(a) : b[k] = a[k]
      /\ b[Len(a) + 1] = <<low, l>>
  <2>1. Above(a, l)
    BY <1>6 DEF Above
  <2>2. Pushed(Append(a, <<low, l>>), a, <<low, l>>, L)
    BY <1>3, <1>5, <2>1, RangesAppend
  <2> QED BY <1>5, <1>7, <2>2 DEF Pushed
<1>9. Halves(st, l) = b
  BY <1>1, <1>4, <1>7 DEF Halves
<1>10. \A k \in 1 .. Len(f) : b[k] = f[k]
  BY <1>5, <1>8
<1>11. b[Len(f) + 1] = <<l, high>> /\ b[Len(f) + 2] = <<low, l>> /\ Len(b) = Len(f) + 2
  BY <1>5, <1>8
<1> QED BY <1>1, <1>4, <1>5, <1>7, <1>8, <1>9, <1>10, <1>11 DEF Halved

\* After a call the students are still in order or in one range.
LEMMA HalvesOrdered ==
  ASSUME NEW t \in Seq(Students), NEW st, Ranges(st, Len(t)), st # << >>,
         Ordered(t, st), Keys, NEW low \in Nat, NEW high \in Nat,
         low = Last(st)[1], high = Last(st)[2], low < high,
         NEW p, Partitioned(p, t, low, high)
  PROVE  Ranges(Halves(st, p.l), Len(t)) /\ Ordered(p.tab, Halves(st, p.l))
<1> DEFINE u == p.tab
           l == p.l
           mid == (low + high) \div 2 + 1
<1>0. Len(t) \in Nat /\ l \in Int /\ l \in low .. high - 1 /\ high <= Len(t)
  BY RangesFront DEF Partitioned
<1>1. Permuted(u, t, low, high)
  BY DEF Partitioned
<1>2. u \in Seq(Students) /\ Len(u) = Len(t)
  BY <1>0, <1>1, PermutedRange
<1>3. \A i, j \in 1 .. Len(t) : i < j /\ ~(low < i /\ j <= high) =>
        \/ Key(u[i]) <= Key(u[j])
        \/ \E k \in 1 .. Len(Front(st)) : Front(st)[k][1] < i /\ j <= Front(st)[k][2]
  BY <1>1, OutsideOrdered
<1>4. CASE low + 1 = high
  <2>1. Halves(st, l) = Front(st)
    BY <1>4 DEF Halves
  <2>2. Ranges(Front(st), Len(t))
    BY <1>0, RangesFront
  <2>3. \A i, j \in 1 .. Len(t) : i < j => ~(low < i /\ j <= high)
    BY <1>4
  <2>4. Ordered(u, Front(st))
    BY <1>2, <1>3, <2>3 DEF Ordered
  <2> QED BY <2>1, <2>2, <2>4
<1>5. CASE low + 1 < high
  <2>1. PICK s : s = Halves(st, l)
    OBVIOUS
  <2>2. /\ Ranges(s, Len(t))
        /\ Len(Front(st)) \in Nat
        /\ Len(s) = Len(Front(st)) + 2
        /\ \A k \in 1 .. Len(Front(st)) : s[k] = Front(st)[k]
        /\ s[Len(Front(st)) + 1] = <<l, high>>
        /\ s[Len(Front(st)) + 2] = <<low, l>>
    <3> HIDE DEF l
    <3>1. Halved(s, Front(st), l, low, high, Len(t))
      BY <1>0, <1>5, <2>1, HalvesRanges
    <3> QED BY <3>1 DEF Halved
  <2>3. PICK m \in Nat : m = Len(Front(st))
    BY <2>2
  <2>4. m + 1 \in 1 .. Len(s) /\ m + 2 \in 1 .. Len(s) /\ \A k \in 1 .. m : k \in 1 .. Len(s)
    BY <2>2, <2>3
  <2>5. /\ s[m + 1][1] = l /\ s[m + 1][2] = high /\ s[m + 2][1] = low /\ s[m + 2][2] = l
    BY <2>2, <2>3
  <2>6. ASSUME NEW i \in 1 .. Len(t), NEW j \in 1 .. Len(t), i < j
        PROVE  \/ Key(u[i]) <= Key(u[j])
               \/ \E k \in 1 .. Len(s) : s[k][1] < i /\ j <= s[k][2]
    <3>1. CASE ~(low < i /\ j <= high)
      <4>1. \/ Key(u[i]) <= Key(u[j])
            \/ \E k \in 1 .. m : Front(st)[k][1] < i /\ j <= Front(st)[k][2]
        BY <1>3, <2>3, <2>6, <3>1
      <4>2. \A k \in 1 .. m : s[k] = Front(st)[k]
        BY <2>2, <2>3
      <4> QED BY <2>4, <4>1, <4>2
    <3>2. CASE low < i /\ j <= high /\ j <= l
      BY <2>4, <2>5, <3>2
    <3>3. CASE low < i /\ j <= high /\ l < i
      BY <2>4, <2>5, <3>3
    <3>4. CASE low < i /\ j <= high /\ i <= l /\ l < j
      <4>1. i \in low + 1 .. l /\ j \in l + 1 .. high
        BY <1>0, <3>4
      <4>2. Key(u[i]) <= Key(t[mid]) /\ Key(t[mid]) <= Key(u[j])
        BY <4>1 DEF Partitioned
      <4>3. u[i] \in Students /\ u[j] \in Students /\ t[mid] \in Students
        <5>1. mid \in low + 1 .. high
          BY Middle
        <5> QED BY <1>0, <1>2, <5>1, SMTT(20)
      <4>4. Key(u[i]) \in Int /\ Key(u[j]) \in Int /\ Key(t[mid]) \in Int
        BY <4>3 DEF Keys
      <4> QED BY <4>2, <4>4
    <3> QED BY <1>0, <3>1, <3>2, <3>3, <3>4
  <2>7. Ordered(u, s)
    BY <1>2, <2>6 DEF Ordered
  <2> QED BY <2>1, <2>2, <2>7
<1> QED BY <1>4, <1>5

\* An empty range is taken from the stack.
LEMMA FrontOrdered ==
  ASSUME NEW t \in Seq(Students), NEW st, Ranges(st, Len(t)), st # << >>,
         Ordered(t, st), Last(st)[1] = Last(st)[2], IsInjective(t)
  PROVE  Ranges(Front(st), Len(t)) /\ Ordered(t, Front(st))
<1>0. Len(t) \in Nat
  OBVIOUS
<1>1. PICK low \in Nat : low = Last(st)[1] /\ low = Last(st)[2]
  BY <1>0, RangesFront
<1>2. Permuted(t, t, low, low)
  BY <1>1 DEF Permuted, IsInjective
<1>3. \A i, j \in 1 .. Len(t) : i < j => ~(low < i /\ j <= low)
  BY <1>1
<1>4. \A i, j \in 1 .. Len(t) : i < j =>
        \/ Key(t[i]) <= Key(t[j])
        \/ \E k \in 1 .. Len(Front(st)) : Front(st)[k][1] < i /\ j <= Front(st)[k][2]
  BY <1>1, <1>2, <1>3, OutsideOrdered
<1> QED BY <1>0, <1>4, RangesFront DEF Ordered

-----------------------------------------------------------------------------
(* The work that is left to the quicksort.                                 *)

\* Unsplit and Weight, of a table.
Lone(t, r) ==
  LET mid == (r[1] + r[2]) \div 2 + 1 IN
  /\ r[1] < r[2]
  /\ \A i \in (r[1] + 1 .. r[2]) \ {mid} : Key(t[mid]) - Key(t[i]) < 0

Cost(t, r) == 4 * (r[2] - r[1]) * (r[2] - r[1]) + 1 + (IF Lone(t, r) THEN 3 ELSE 0)

Costs(t, st) == [n \in 1 .. Len(st) |-> Cost(t, st[n])]

LEMMA CostType ==
  ASSUME NEW t, NEW r \in Nat \X Nat
  PROVE  Cost(t, r) \in Nat /\ Cost(t, r) > 0
<1>1. PICK m \in Int : m = r[2] - r[1]
  OBVIOUS
<1>2. m * m >= 0 /\ m * m \in Int
  OBVIOUS
<1>3. 4 * m * m = 4 * (m * m)
  OBVIOUS
<1>4. Cost(t, r) = 4 * m * m + 1 + (IF Lone(t, r) THEN 3 ELSE 0)
  BY <1>1 DEF Cost
<1> QED BY <1>2, <1>3, <1>4

LEMMA CostsType ==
  ASSUME NEW t, NEW st \in Seq(Nat \X Nat)
  PROVE  Costs(t, st) \in Seq(Int)
<1>1. \A n \in 1 .. Len(st) : Cost(t, st[n]) \in Int
  BY CostType
<1> QED BY <1>1 DEF Costs

LEMMA CostsAppend ==
  ASSUME NEW t, NEW st \in Seq(Nat \X Nat), NEW r \in Nat \X Nat
  PROVE  Total(Costs(t, Append(st, r))) = Total(Costs(t, st)) + Cost(t, r)
<1>1. PICK a : a = Append(st, r)
  OBVIOUS
<1>2. /\ a \in Seq(Nat \X Nat) /\ Len(st) \in Nat /\ Len(a) = Len(st) + 1
      /\ \A k \in 1 .. Len(st) : a[k] = st[k]
      /\ a[Len(st) + 1] = r
  BY <1>1, AppendProperties
<1>3. PICK c \in Seq(Int) : c = Costs(t, st)
  BY CostsType
<1>4. PICK d \in Seq(Int) : d = Costs(t, a)
  BY <1>2, CostsType
<1>5. PICK x \in Int : x = Cost(t, r)
  BY CostType
<1>6. PICK e \in Seq(Int) : e = Append(c, x)
  BY AppendProperties
<1>7. Len(c) = Len(st) /\ \A k \in 1 .. Len(st) : c[k] = Cost(t, st[k])
  BY <1>2, <1>3 DEF Costs
<1>8. Len(d) = Len(st) + 1 /\ \A k \in 1 .. Len(st) + 1 : d[k] = Cost(t, a[k])
  BY <1>2, <1>4 DEF Costs
<1>9. Len(e) = Len(st) + 1 /\ e[Len(st) + 1] = x /\ \A k \in 1 .. Len(st) : e[k] = c[k]
  BY <1>6, <1>7, AppendProperties
<1>10. ASSUME NEW k \in 1 .. Len(st) + 1 PROVE d[k] = e[k]
  <2>1. k \in 1 .. Len(st) \/ k = Len(st) + 1
    BY <1>2
  <2> QED BY <1>2, <1>5, <1>7, <1>8, <1>9, <2>1
<1>11. d = e
  BY <1>8, <1>9, <1>10, SeqEqual
<1>12. Total(e) = Total(c) + x
  BY <1>6, TotalAppend
<1> QED BY <1>1, <1>3, <1>4, <1>5, <1>11, <1>12

LEMMA CostsFront ==
  ASSUME NEW t, NEW st \in Seq(Nat \X Nat), st # << >>
  PROVE  Total(Costs(t, st)) = Total(Costs(t, Front(st))) + Cost(t, Last(st))
<1>1. PICK f : f = Front(st)
  OBVIOUS
<1>2. PICK r : r = Last(st)
  OBVIOUS
<1>3. /\ Len(st) \in Nat /\ Len(st) >= 1 /\ r \in Nat \X Nat /\ r = st[Len(st)]
      /\ f \in Seq(Nat \X Nat) /\ Len(f) = Len(st) - 1
      /\ \A i \in 1 .. Len(st) - 1 : f[i] = st[i]
  BY <1>1, <1>2, FrontIs
<1>4. PICK a \in Seq(Nat \X Nat) : a = Append(f, r)
  BY <1>3, AppendProperties
<1>5. Len(a) = Len(f) + 1 /\ a[Len(f) + 1] = r /\ \A i \in 1 .. Len(f) : a[i] = f[i]
  BY <1>3, <1>4, AppendProperties
<1>6. Len(a) = Len(st) /\ \A i \in 1 .. Len(st) : a[i] = st[i]
  <2>1. \A i \in 1 .. Len(st) : i \in 1 .. Len(f) \/ i = Len(st)
    BY <1>3
  <2>2. Len(f) + 1 = Len(st)
    BY <1>3
  <2> QED BY <1>3, <1>5, <2>1, <2>2
<1>7. a = st
  BY <1>6, SeqEqual
<1>8. Total(Costs(t, Append(f, r))) = Total(Costs(t, f)) + Cost(t, r)
  BY <1>3, CostsAppend
<1> QED BY <1>1, <1>2, <1>4, <1>7, <1>8

\* What is not touched costs the same.
LEMMA CostSame ==
  ASSUME NEW t \in Seq(Students), NEW u, NEW low \in Nat, NEW high \in Nat,
         Permuted(u, t, low, high), NEW r \in Nat \X Nat, high <= r[1], r[2] <= Len(t)
  PROVE  Cost(u, r) = Cost(t, r)
<1>1. PICK x \in Nat, y \in Nat : x = r[1] /\ y = r[2] /\ r = <<x, y>>
  OBVIOUS
<1>2. Len(t) \in Nat
  OBVIOUS
<1>3. \A i \in x + 1 .. y : i \in 1 .. Len(t) /\ i \notin low + 1 .. high
  BY <1>1, <1>2
<1>4. \A i \in x + 1 .. y : u[i] = t[i]
  BY <1>3 DEF Permuted
<1>5. x < y => (x + y) \div 2 + 1 \in x + 1 .. y
  BY Middle
<1>6. Lone(u, r) <=> Lone(t, r)
  BY <1>1, <1>4, <1>5 DEF Lone
<1> QED BY <1>6 DEF Cost

LEMMA CostsSame ==
  ASSUME NEW t \in Seq(Students), NEW u, NEW low \in Nat, NEW high \in Nat,
         Permuted(u, t, low, high), NEW st, Ranges(st, Len(t)), Above(st, high)
  PROVE  Costs(u, st) = Costs(t, st)
<1>1. ASSUME NEW k \in 1 .. Len(st) PROVE Cost(u, st[k]) = Cost(t, st[k])
  <2>1. st[k] \in Nat \X Nat
    BY DEF Ranges
  <2>2. high <= st[k][1] /\ st[k][2] <= Len(t)
    BY DEF Ranges, Above
  <2> QED BY <2>1, <2>2, CostSame
<1> QED BY <1>1 DEF Costs

LEMMA Squares ==
  ASSUME NEW a \in Nat, NEW b \in Nat, a >= 1, b >= 1
  PROVE  4 * a * a + 4 * b * b + 8 < 4 * (a + b) * (a + b) + 1
<1>1. a * b >= 1 /\ a * b \in Int /\ a * a \in Int /\ b * b \in Int
  OBVIOUS
<1>2. (a + b) * (a + b) = a * a + 2 * (a * b) + b * b
  OBVIOUS
<1>3. /\ 4 * a * a = 4 * (a * a) /\ 4 * b * b = 4 * (b * b)
      /\ 4 * (a + b) * (a + b) = 4 * ((a + b) * (a + b))
  OBVIOUS
<1> QED BY <1>1, <1>2, <1>3

\* The halves of a range cost less than it.
LEMMA CostHalves ==
  ASSUME NEW t \in Seq(Students), NEW low \in Nat, NEW high \in Nat, low + 1 < high,
         high <= Len(t), Keys, IsInjective(t), NEW p, Partitioned(p, t, low, high)
  PROVE  Cost(p.tab, <<p.l, high>>) + Cost(p.tab, <<low, p.l>>) < Cost(t, <<low, high>>)
<1> DEFINE mid == (low + high) \div 2 + 1
<1>1. PICK l \in low .. high - 1 : l = p.l
  BY DEF Partitioned
<1>2. PICK u : u = p.tab
  OBVIOUS
<1>3. l \in Nat
  OBVIOUS
<1>4. ASSUME NEW x \in Nat, NEW y \in Nat, NEW w
      PROVE  Cost(w, <<x, y>>) = 4 * (y - x) * (y - x) + 1 + (IF Lone(w, <<x, y>>) THEN 3 ELSE 0)
  BY DEF Cost
<1>5. CASE low < l
  <2>1. PICK a \in Nat : a = l - low /\ a >= 1
    BY <1>3, <1>5
  <2>2. PICK b \in Nat : b = high - l /\ b >= 1
    BY <1>3
  <2>3. Cost(u, <<l, high>>) = 4 * b * b + 1 + (IF Lone(u, <<l, high>>) THEN 3 ELSE 0)
    BY <1>3, <1>4, <2>2
  <2>4. Cost(u, <<low, l>>) = 4 * a * a + 1 + (IF Lone(u, <<low, l>>) THEN 3 ELSE 0)
    BY <1>3, <1>4, <2>1
  <2>5. high - low = a + b
    BY <1>3, <2>1, <2>2
  <2>6. Cost(t, <<low, high>>) =
          4 * (a + b) * (a + b) + 1 + (IF Lone(t, <<low, high>>) THEN 3 ELSE 0)
    BY <1>4, <2>5
  <2>7. 4 * a * a + 4 * b * b + 8 < 4 * (a + b) * (a + b) + 1
    BY <2>1, <2>2, Squares
  <2>8. 4 * a * a \in Int /\ 4 * b * b \in Int /\ 4 * (a + b) * (a + b) \in Int
    OBVIOUS
  <2>9. PICK i \in Int, j \in Int, k \in Int :
          i = 4 * a * a /\ j = 4 * b * b /\ k = 4 * (a + b) * (a + b)
    BY <2>8
  <2>10. Cost(u, <<l, high>>) \in Int /\ Cost(u, <<l, high>>) <= j + 4
    BY <2>3, <2>9
  <2>11. Cost(u, <<low, l>>) \in Int /\ Cost(u, <<low, l>>) <= i + 4
    BY <2>4, <2>9
  <2>12. Cost(t, <<low, high>>) \in Int /\ k + 1 <= Cost(t, <<low, high>>)
    BY <2>6, <2>9
  <2>13. i + j + 8 < k + 1
    BY <2>7, <2>9
  <2>14. Cost(u, <<l, high>>) + Cost(u, <<low, l>>) < Cost(t, <<low, high>>)
    BY <2>10, <2>11, <2>12, <2>13
  <2> QED BY <1>1, <1>2, <2>14
<1>6. CASE l = low
  <2>0. Len(t) \in Nat
    OBVIOUS
  <2>1. mid \in low + 1 .. high /\ low + 1 < mid /\ mid \in Nat
    BY Middle
  <2>2. /\ \A i \in low + 1 .. high : i # mid => Key(t[mid]) < Key(t[i])
        /\ u[high] = t[low + 1]
        /\ \A j \in low + 1 .. high - 1 : u[j] = t[j + 1]
    BY <1>1, <1>2, <1>6 DEF Partitioned
  <2> HIDE DEF mid
  <2>3. \A i \in low + 1 .. high : Key(t[i]) \in Int
    BY <2>0 DEF Keys
  <2>4. Lone(t, <<low, high>>)
    <3>1. \A i \in (low + 1 .. high) \ {mid} : Key(t[mid]) - Key(t[i]) < 0
      BY <2>1, <2>2, <2>3
    <3> QED BY <3>1 DEF Lone, mid
  <2>5. ~Lone(u, <<low, high>>)
    <3> SUFFICES ASSUME Lone(u, <<low, high>>) PROVE FALSE
      OBVIOUS
    <3>1. \A i \in (low + 1 .. high) \ {mid} : Key(u[mid]) - Key(u[i]) < 0
      BY DEF Lone, mid
    <3>2. mid - 1 \in low + 1 .. high - 1 /\ mid - 1 # mid /\ mid - 1 + 1 = mid
      BY <2>1
    <3>3. u[mid - 1] = t[mid]
      BY <2>2, <3>2
    <3>4. Key(u[mid]) - Key(t[mid]) < 0
      <4>1. mid - 1 \in (low + 1 .. high) \ {mid}
        BY <3>2
      <4> QED BY <3>1, <3>3, <4>1
    <3>5. PICK m \in low + 1 .. high : u[mid] = t[m]
      <4>1. CASE mid = high
        <5>1. low + 1 \in low + 1 .. high
          OBVIOUS
        <5> QED BY <2>2, <4>1, <5>1
      <4>2. CASE mid # high
        <5>1. mid \in low + 1 .. high - 1 /\ mid + 1 \in low + 1 .. high
          BY <2>1, <4>2
        <5> QED BY <2>2, <5>1
      <4> QED BY <4>1, <4>2
    <3>6. Key(t[mid]) <= Key(t[m])
      BY <2>1, <2>2, <2>3
    <3>7. Key(t[m]) \in Int /\ Key(t[mid]) \in Int
      BY <2>1, <2>3
    <3> QED BY <3>4, <3>5, <3>6, <3>7
  <2>6. PICK d \in Nat : d = high - low
    OBVIOUS
  <2>7. Cost(u, <<l, high>>) = 4 * d * d + 1 + 0
    BY <1>4, <1>6, <2>5, <2>6
  <2>8. Cost(t, <<low, high>>) = 4 * d * d + 1 + 3
    BY <1>4, <2>4, <2>6
  <2>9. Cost(u, <<low, l>>) = 1
    <3>1. ~Lone(u, <<low, low>>)
      BY DEF Lone
    <3>2. Cost(u, <<low, low>>) = 4 * (low - low) * (low - low) + 1 + 0
      BY <1>4, <3>1
    <3> QED BY <1>6, <3>2
  <2>10. 4 * d * d \in Int
    OBVIOUS
  <2> QED BY <1>1, <1>2, <2>7, <2>8, <2>9, <2>10
<1> QED BY <1>3, <1>5, <1>6

\* Every call of sorttable leaves less to do.
LEMMA CallShrinks ==
  ASSUME NEW t \in Seq(Students), IsInjective(t), Keys, NEW st, Ranges(st, Len(t)),
         st # << >>, NEW low \in Nat, NEW high \in Nat,
         low = Last(st)[1], high = Last(st)[2]
  PROVE  /\ low = high => Total(Costs(t, Front(st))) < Total(Costs(t, st))
         /\ \A p : low < high /\ Partitioned(p, t, low, high) =>
              Total(Costs(p.tab, Halves(st, p.l))) < Total(Costs(t, st))
<1>0. Len(t) \in Nat /\ st \in Seq(Nat \X Nat) /\ high <= Len(t)
  <2>1. Len(t) \in Nat
    OBVIOUS
  <2>2. high <= Len(t)
    BY <2>1, RangesFront
  <2> QED BY <2>1, <2>2 DEF Ranges
<1>1. PICK f : f = Front(st)
  OBVIOUS
<1>2. f \in Seq(Nat \X Nat) /\ Ranges(f, Len(t)) /\ Above(f, high)
  BY <1>0, <1>1, RangesFront DEF Above, Ranges
<1>3. PICK x \in Int : x = Total(Costs(t, f))
  BY <1>2, CostsType, TotalType
<1>4. Last(st) = <<low, high>> /\ Last(st) \in Nat \X Nat
  BY <1>0, FrontIs, SMTT(20)
<1>5. PICK c \in Nat : c = Cost(t, <<low, high>>) /\ c > 0
  BY <1>4, CostType
<1>6. Total(Costs(t, st)) = x + c
  BY <1>0, <1>1, <1>3, <1>4, <1>5, CostsFront
<1>7. Total(Costs(t, Front(st))) < Total(Costs(t, st))
  BY <1>1, <1>3, <1>5, <1>6
<1>8. ASSUME NEW p, low < high, Partitioned(p, t, low, high)
      PROVE  Total(Costs(p.tab, Halves(st, p.l))) < Total(Costs(t, st))
  <2>1. Permuted(p.tab, t, low, high)
    BY <1>8 DEF Partitioned
  <2>2. PICK u : u = p.tab
    OBVIOUS
  <2>3. Costs(u, f) = Costs(t, f)
    BY <1>2, <2>1, <2>2, CostsSame
  <2>4. PICK l \in low .. high - 1 : l = p.l
    BY <1>8 DEF Partitioned
  <2>5. CASE low + 1 = high
    <3>1. Halves(st, l) = f
      BY <1>1, <2>5 DEF Halves
    <3> QED BY <1>3, <1>5, <1>6, <2>2, <2>3, <2>4, <3>1
  <2>6. CASE low + 1 < high
    <3>0. <<l, high>> \in Nat \X Nat /\ <<low, l>> \in Nat \X Nat
      <4>1. l \in Nat
        OBVIOUS
      <4> QED BY <4>1
    <3>1. PICK r \in Nat \X Nat : r = <<l, high>>
      BY <3>0
    <3>2. PICK s \in Nat \X Nat : s = <<low, l>>
      BY <3>0
    <3>3. PICK a \in Seq(Nat \X Nat) : a = Append(f, r)
      BY <1>2, AppendProperties
    <3>4. Halves(st, l) = Append(a, s)
      <4>1. Halves(st, l) = Append(Append(Front(st), <<l, high>>), <<low, l>>)
        <5>1. low + 1 # high
          BY <2>6
        <5> QED BY <5>1 DEF Halves
      <4> QED BY <1>1, <3>1, <3>2, <3>3, <4>1
    <3>5. Total(Costs(u, a)) = x + Cost(u, r)
      BY <1>2, <1>3, <2>3, <3>3, CostsAppend
    <3>6. Total(Costs(u, Append(a, s))) = Total(Costs(u, a)) + Cost(u, s)
      BY CostsAppend
    <3>7. Cost(u, r) + Cost(u, s) < c
      BY <1>0, <1>5, <1>8, <2>2, <2>4, <2>6, <3>1, <3>2, CostHalves
    <3>8. Cost(u, r) \in Nat /\ Cost(u, s) \in Nat
      BY CostType
    <3>9. Total(Costs(u, Append(a, s))) < x + c
      BY <3>5, <3>6, <3>7, <3>8
    <3> QED BY <1>6, <2>2, <2>4, <3>4, <3>9
  <2> QED BY <1>8, <2>5, <2>6
<1> QED BY <1>7, <1>8

-----------------------------------------------------------------------------
(* The inductive invariant.                                                *)

Counting == {"freqs", "quantiles", "sums", "moments", "normalize"}
After == Counting \cup {"composites", "sort", "sorted", "done"}

\* The course and the rosters.
Core ==
  /\ IsCourse(course)
  /\ cnext \in [Students -> 0 .. Len(course.students)]
  /\ roster \in 0 .. Len(course.students)
  /\ rosters \in [1 .. course.sections -> Seq(Students)]
  /\ composite \in [Students -> Int]

Typed ==
  /\ pc \in After \cup {"options", "failed", "undefined", "build", "links"}
  /\ pc \in Counting \cup {"links"} => StatsType
  /\ pc \in {"freqs", "sums"} => cur \in (0 .. Len(course.students)) \X (Nat \ {0})
  /\ pc = "composites" => \A s \in Students :
       norm[s] \in Seq(Int) /\ Len(norm[s]) <= Len(Of(s).scores)

\* do_links: in the first pass the students before s are linked; in a later one
\* the link of the last student linked is cleared, and those behind it still
\* have the links of the pass before.
Linking ==
  pc = "links" =>
    LET a == cur[1]
        s == cur[2]
        N == Len(course.students) IN
    /\ a \in 1 .. Len(course.asgts) + 1 /\ s \in 1 .. N + 1
    /\ a > Len(course.asgts) => s = 1
    /\ IF N = 0 \/ (a = 1 /\ s = 1) THEN roster = 0 /\ rp = 0
       ELSE /\ roster = 1 /\ rp = (IF s = 1 THEN N ELSE s - 1) /\ cnext[rp] = 0
            /\ \A j \in 1 .. N - 1 : j # rp /\ (a > 1 \/ j < s) => cnext[j] = j + 1

\* The class roster has its members, each once.
Met ==
  pc \in After =>
    /\ Walk \in Seq(Students) /\ Len(Walk) <= Len(course.students)
    /\ IsInjective(Walk) /\ Range(Walk) = Members(0)

\* And so have the sections.
Rostered ==
  \A g \in 1 .. course.sections :
    IsInjective(rosters[g]) /\ Range(rosters[g]) = Members(g)

\* The table has the members of the roster being sorted; the calls still to be
\* made are on disjoint ranges, outside of which everything is in order.
InSort ==
  pc = "sort" =>
    /\ sorting \in 0 .. course.sections
    /\ stab \in Seq(Students) /\ IsInjective(stab) /\ Range(stab) = Members(sorting)
    /\ sorting = 0 => Len(stab) <= Len(course.students)
    /\ Ranges(stack, Len(stab)) /\ Ordered(stab, stack)

Ascending(t) == \A n \in 2 .. Len(t) : Compare(t[n - 1], t[n]) <= 0

\* The rosters that the present sort is done with are in order.
SortedSoFar ==
  /\ pc = "sort" => /\ sorting > 0 => Ascending(Walk)
                    /\ \A g \in 1 .. sorting - 1 : Ascending(rosters[g])
  /\ pc \in {"sorted", "done"} =>
       Ascending(Walk) /\ \A g \in 1 .. course.sections : Ascending(rosters[g])

IInv == Core /\ Typed /\ Linking /\ Met /\ Rostered /\ InSort /\ SortedSoFar

-----------------------------------------------------------------------------
(* The initial state, and what a step that leaves the rosters keeps.       *)

LEMMA InitInv == Init => IInv
<1> SUFFICES ASSUME Init PROVE IInv
  OBVIOUS
<1>1. IsCourse(course) /\ pc = "options"
  BY CoursesAssumption DEF Init
<1>2. Len(course.students) \in Nat /\ Students = 1 .. Len(course.students)
  BY <1>1, CourseType
<1>3. Core
  <2>1. \A g \in 1 .. course.sections : Section(g) \in Seq(Students)
    BY <1>1, SectionIs
  <2> QED BY <1>1, <1>2, <2>1 DEF Init, Core
<1>4. Typed
  BY <1>1 DEF Typed, After, Counting
<1>5. Rostered
  BY <1>1, SectionIs DEF Init, Rostered
<1> QED BY <1>1, <1>3, <1>4, <1>5 DEF IInv, Linking, Met, InSort, SortedSoFar, After, Counting

LEMMA WalkSame ==
  ASSUME course'.students = course.students, cnext' = cnext, roster' = roster
  PROVE  Walk' = Walk
<1>1. Walk' = WalkFrom(Len(course'.students), roster', cnext')
  BY DEF Walk, WalkFrom
<1> QED BY <1>1, WalkDef

\* The rosters are kept.
LEMMA Frame ==
  ASSUME Core, Met, Rostered, UNCHANGED <<course, cnext, roster, rosters>>,
         composite' \in [Students -> Int], pc \in After \/ pc' \notin After
  PROVE  /\ Core' /\ Met' /\ Rostered'
         /\ Students' = Students /\ Asgts' = Asgts /\ Groups' = Groups
         /\ Walk' = Walk
         /\ \A g : Members(g)' = Members(g)
<1>1. Students' = Students /\ Asgts' = Asgts /\ Groups' = Groups
  BY DEF Students, Asgts, Groups
<1>2. Walk' = Walk
  BY WalkSame
<1>3. \A g : Members(g)' = Members(g)
  BY <1>1 DEF Members, Of
<1>4. Core'
  BY <1>1 DEF Core
<1>5. Met'
  BY <1>1, <1>2, <1>3 DEF Met
<1>6. Rostered'
  BY <1>1, <1>3 DEF Rostered
<1> QED BY <1>1, <1>2, <1>3, <1>4, <1>5, <1>6

-----------------------------------------------------------------------------
(* Every action keeps the invariant.                                       *)

LEMMA OptionInv == IInv /\ (Option \/ OptionsEnd) => IInv'
<1> SUFFICES ASSUME IInv, Option \/ OptionsEnd PROVE IInv'
  OBVIOUS
<1>1. /\ pc' \in {"options", "failed", "undefined", "build"}
      /\ UNCHANGED <<course, cnext, roster, rosters, composite>>
  <2>1. CASE Option
    BY <2>1 DEF Option, linkvars
  <2>2. CASE OptionsEnd
    BY <2>2 DEF OptionsEnd, linkvars
  <2> QED BY <2>1, <2>2
<1>2. Core' /\ Met' /\ Rostered'
  BY <1>1, Frame DEF IInv, Core, After, Counting
<1> QED BY <1>1, <1>2 DEF IInv, Typed, Linking, InSort, SortedSoFar, After, Counting

LEMMA BuildInv == IInv /\ buildstats => IInv'
<1> SUFFICES ASSUME IInv, buildstats PROVE IInv'
  OBVIOUS
<1>0. IsCourse(course)
  BY DEF IInv, Core
<1>1. /\ pc' = "links" /\ roster' = 0 /\ rp' = 0 /\ cur' = <<1, 1>>
      /\ UNCHANGED <<course, cnext, rosters, composite>>
      /\ stats' = [a \in Asgts |-> [g \in Groups |-> NewStats]]
  BY DEF buildstats
<1>2. /\ Students' = Students /\ Asgts' = Asgts /\ Groups' = Groups
      /\ \A g : Members(g)' = Members(g)
  BY <1>1 DEF Students, Asgts, Groups, Members, Of
<1>3. Core'
  <2>1. Len(course.students) \in Nat
    BY <1>0, CourseType
  <2> QED BY <1>1, <1>2, <2>1 DEF IInv, Core
<1>4. Rostered'
  BY <1>1, <1>2 DEF IInv, Rostered
<1>5. StatsType'
  BY <1>1, <1>2, NewType DEF StatsType
<1>6. Typed'
  BY <1>1, <1>5 DEF Typed, After, Counting
<1>7. Linking'
  <2>1. Len(course.students) \in Nat /\ Len(course.asgts) \in Nat
    BY <1>0, CourseType
  <2>2. cur'[1] = 1 /\ cur'[2] = 1
    BY <1>1
  <2> QED BY <1>1, <2>1, <2>2 DEF Linking
<1> QED BY <1>1, <1>3, <1>4, <1>6, <1>7 DEF IInv, Met, InSort, SortedSoFar, After, Counting

\* The end of do_links: the students are linked in the order of their numbers.
LEMMA LinksEnd ==
  ASSUME IsCourse(course), Linking, pc = "links", cur[1] > Len(course.asgts)
  PROVE  \E t \in Seq(Students) :
           /\ Len(t) <= Len(course.students) /\ Follows(t, roster, cnext)
           /\ IsInjective(t) /\ Range(t) = Members(0)
           /\ t = IF Asgts = {} THEN << >> ELSE [i \in Students |-> i]
<1> DEFINE N == Len(course.students)
           A == Len(course.asgts)
<1>0. N \in Nat /\ Students = 1 .. N /\ A \in Nat /\ Asgts = 1 .. A
  BY CourseType
<1>1. cur[2] = 1 /\ cur[1] \in 1 .. A + 1
  BY DEF Linking
<1>2. CASE A = 0 \/ N = 0
  <2>1. roster = 0
    BY <1>0, <1>1, <1>2 DEF Linking
  <2>2. << >> \in Seq(Students) /\ Len(<< >>) = 0 /\ DOMAIN << >> = {}
    OBVIOUS
  <2>3. Follows(<< >>, roster, cnext)
    BY <2>1, <2>2 DEF Follows
  <2>4. IsInjective(<< >>) /\ Range(<< >>) = {}
    BY <2>2 DEF IsInjective, Range
  <2>5. Members(0) = {}
    BY <1>0, <1>2 DEF Members
  <2>6. << >> = IF Asgts = {} THEN << >> ELSE [i \in Students |-> i]
    <3>1. CASE A = 0
      BY <1>0, <3>1
    <3>2. CASE A # 0
      BY <1>0, <1>2, <3>2
    <3> QED BY <3>1, <3>2
  <2>7. Len(<< >>) <= Len(course.students)
    BY <1>0, <2>2
  <2>8. PICK t \in Seq(Students) : t = << >>
    BY <2>2
  <2> QED BY <2>3, <2>4, <2>5, <2>6, <2>7, <2>8
<1>3. CASE A # 0 /\ N # 0
  <2>1. /\ roster = 1 /\ rp = N /\ cnext[N] = 0
        /\ \A j \in 1 .. N - 1 : cnext[j] = j + 1
    BY <1>0, <1>1, <1>3 DEF Linking
  <2>2. PICK t : t = [i \in 1 .. N |-> i]
    OBVIOUS
  <2>3. t \in Seq(Students) /\ Len(t) = N /\ DOMAIN t = 1 .. N /\ \A i \in 1 .. N : t[i] = i
    BY <1>0, <2>2
  <2>4. Follows(t, roster, cnext)
    <3>1. t # << >> /\ t[1] = 1 /\ t[N] = N
      BY <1>0, <1>3, <2>3
    <3>2. \A i \in 1 .. N - 1 : t[i] = i /\ t[i + 1] = i + 1
      BY <1>0, <2>3
    <3> QED BY <2>1, <2>3, <3>1, <3>2 DEF Follows
  <2>5. IsInjective(t) /\ Range(t) = 1 .. N
    BY <2>3 DEF IsInjective, Range
  <2>6. Members(0) = 1 .. N /\ Asgts # {}
    <3>1. 1 \in Asgts
      BY <1>0, <1>3
    <3>2. Members(0) = Students
      BY <3>1 DEF Members
    <3> QED BY <1>0, <3>1, <3>2
  <2> QED BY <1>0, <2>2, <2>3, <2>4, <2>5, <2>6
<1> QED BY <1>2, <1>3

LEMMA LinksInv == IInv /\ do_links => IInv'
<1> SUFFICES ASSUME IInv, do_links PROVE IInv'
  OBVIOUS
<1> DEFINE a == cur[1]
           s == cur[2]
           N == Len(course.students)
           A == Len(course.asgts)
<1>0. IsCourse(course) /\ pc = "links" /\ Core
  BY DEF IInv, Core, do_links
<1>1. N \in Nat /\ Students = 1 .. N /\ A \in Nat /\ Asgts = 1 .. A
  BY <1>0, CourseType
<1>2. UNCHANGED <<course, rosters, stats, composite>>
  BY DEF do_links
<1>3. /\ Students' = Students /\ Asgts' = Asgts /\ Groups' = Groups
      /\ \A g : Members(g)' = Members(g) /\ StatsType'
  <2>1. StatsType
    BY <1>0 DEF IInv, Typed
  <2> QED BY <1>2, <2>1 DEF Students, Asgts, Groups, Members, Of, StatsType
<1>4. Rostered'
  BY <1>2, <1>3 DEF IInv, Rostered
<1>5. /\ a \in 1 .. A + 1 /\ s \in 1 .. N + 1
      /\ a > A => s = 1
      /\ IF N = 0 \/ (a = 1 /\ s = 1) THEN roster = 0 /\ rp = 0
         ELSE /\ roster = 1 /\ rp = (IF s = 1 THEN N ELSE s - 1) /\ cnext[rp] = 0
              /\ \A j \in 1 .. N - 1 : j # rp /\ (a > 1 \/ j < s) => cnext[j] = j + 1
  BY <1>0 DEF IInv, Linking
<1>6. CASE a > A
  <2>1. pc' = "freqs" /\ cur' = <<roster, 1>> /\ UNCHANGED <<cnext, roster>>
    BY <1>1, <1>5, <1>6 DEF do_links
  <2>2. Core'
    BY <1>2, <1>3, <2>1, <1>0 DEF Core
  <2>3. PICK t \in Seq(Students) : /\ Len(t) <= N /\ Follows(t, roster, cnext)
                                   /\ IsInjective(t) /\ Range(t) = Members(0)
    BY <1>0, <1>6, LinksEnd DEF IInv
  <2>4. Walk = t
    <3>1. WalkFrom(N, roster, cnext) = t
      BY <1>1, <2>3, WalkIs
    <3> QED BY <3>1, WalkDef
  <2>5. Walk' = Walk
    BY <1>2, <2>1, WalkSame
  <2>6. Met'
    BY <1>2, <1>3, <2>3, <2>4, <2>5 DEF Met
  <2>7. Typed'
    <3>1. cur' \in (0 .. N) \X (Nat \ {0})
      BY <1>0, <2>1 DEF Core
    <3> QED BY <1>2, <1>3, <2>1, <3>1 DEF Typed, After, Counting
  <2> QED BY <1>4, <2>1, <2>2, <2>6, <2>7 DEF IInv, Linking, InSort, SortedSoFar
<1>7. CASE a <= A /\ s > N
  <2>1. pc' = "links" /\ cur' = <<a + 1, 1>> /\ UNCHANGED <<cnext, roster, rp>>
    BY <1>0, <1>1, <1>5, <1>7 DEF do_links
  <2>2. Core'
    BY <1>2, <1>3, <2>1, <1>0 DEF Core
  <2>3. Linking'
    <3>1. cur'[1] = a + 1 /\ cur'[2] = 1 /\ a + 1 # 1 /\ a + 1 > 1 /\ s = N + 1
      BY <1>1, <1>5, <1>7, <2>1
    <3>2. CASE N = 0
      BY <1>1, <1>2, <1>5, <1>7, <2>1, <3>1, <3>2 DEF Linking
    <3>3. CASE N # 0
      <4>1. /\ roster = 1 /\ rp = N /\ cnext[N] = 0
            /\ \A j \in 1 .. N - 1 : cnext[j] = j + 1
        BY <1>1, <1>5, <3>1, <3>3
      <4> QED BY <1>1, <1>2, <1>5, <1>7, <2>1, <3>1, <3>3, <4>1 DEF Linking
    <3> QED BY <3>2, <3>3
  <2>4. Typed'
    BY <1>3, <2>1 DEF Typed, After, Counting
  <2> QED BY <1>4, <2>1, <2>2, <2>3, <2>4 DEF IInv, Met, InSort, SortedSoFar, After, Counting
<1>8. CASE a <= A /\ s <= N
  <2>1. pc' = "links" /\ cur' = <<a, s + 1>> /\ Link(s)
    BY <1>0, <1>1, <1>5, <1>8 DEF do_links
  <2>2. /\ cnext \in [1 .. N -> 0 .. N] /\ roster \in 0 .. N /\ rp \in 0 .. N /\ s \in 1 .. N
        /\ rp = 0 <=> (a = 1 /\ s = 1)
    BY <1>0, <1>1, <1>5, <1>8 DEF Core
  <2>3. rp' = s /\ roster' = (IF rp = 0 THEN s ELSE roster)
    BY <2>1 DEF Link
  <2>4. /\ cnext' \in [1 .. N -> 0 .. N] /\ cnext'[s] = 0
        /\ rp # 0 /\ rp # s => cnext'[rp] = s
        /\ \A j \in 1 .. N : j # s /\ j # rp => cnext'[j] = cnext[j]
    <3>1. cnext' = [(IF rp = 0 THEN cnext ELSE [cnext EXCEPT ![rp] = s]) EXCEPT ![s] = 0]
      BY <2>1 DEF Link
    <3>2. CASE rp = 0
      BY <1>1, <2>2, <3>1, <3>2
    <3>3. CASE rp # 0
      <4>0. s \in 0 .. N /\ cnext \in [1 .. N -> 0 .. N]
        BY <1>1, <2>2
      <4>1. PICK c \in [1 .. N -> 0 .. N] : c = [cnext EXCEPT ![rp] = s]
        <5>1. [cnext EXCEPT ![rp] = s] \in [1 .. N -> 0 .. N]
          BY <4>0
        <5> QED BY <5>1
      <4>2. cnext' = [c EXCEPT ![s] = 0]
        BY <3>1, <3>3, <4>1
      <4> QED BY <1>1, <2>2, <3>3, <4>1, <4>2
    <3> QED BY <3>2, <3>3
  <2>5. Core'
    BY <1>0, <1>1, <1>2, <1>3, <2>2, <2>3, <2>4 DEF Core
  <2>6. Linking'
    <3>1. cur'[1] = a /\ cur'[2] = s + 1 /\ s + 1 # 1 /\ N # 0 /\ s + 1 - 1 = s
          /\ s + 1 \in 1 .. N + 1 /\ a \in 1 .. A + 1 /\ ~(a > A)
      BY <1>1, <1>5, <1>8, <2>1
    <3>2. roster' = 1
      BY <1>5, <2>2, <2>3, <3>1
    <3>3. ASSUME NEW j \in 1 .. N - 1, j # s, a > 1 \/ j < s + 1 PROVE cnext'[j] = j + 1
      <4>1. CASE j = rp
        <5>1. s # 1 /\ rp = s - 1
          BY <1>1, <1>5, <2>2, <3>1, <3>3, <4>1
        <5> QED BY <1>1, <2>2, <2>4, <3>3, <4>1, <5>1
      <4>2. CASE j # rp
        <5>1. ~(a = 1 /\ s = 1)
          BY <1>1, <2>2, <3>3
        <5>2. a > 1 \/ j < s
          BY <2>2, <3>3
        <5>3. cnext[j] = j + 1
          BY <1>5, <3>1, <4>2, <5>1, <5>2
        <5>4. j \in 1 .. N
          BY <1>1
        <5> QED BY <2>4, <3>3, <4>2, <5>3, <5>4
      <4> QED BY <4>1, <4>2
    <3>4. /\ cur'[1] \in 1 .. Len(course'.asgts) + 1
          /\ cur'[2] \in 1 .. Len(course'.students) + 1
          /\ ~(cur'[1] > Len(course'.asgts))
          /\ ~(Len(course'.students) = 0 \/ (cur'[1] = 1 /\ cur'[2] = 1))
          /\ rp' = (IF cur'[2] = 1 THEN Len(course'.students) ELSE cur'[2] - 1)
      <4>1. Len(course'.asgts) = A /\ Len(course'.students) = N
        BY <1>2
      <4>2. rp' = cur'[2] - 1 /\ cur'[2] # 1
        <5>1. PICK n \in Int : n = cur[2]
          BY <2>2
        <5>2. rp' = n /\ cur'[2] = n + 1
          BY <2>3, <3>1, <5>1
        <5> QED BY <2>2, <5>1, <5>2
      <4>3. ~(cur'[1] > A) /\ cur'[1] \in 1 .. A + 1 /\ cur'[2] \in 1 .. N + 1 /\ N # 0
        BY <3>1
      <4> QED BY <4>1, <4>2, <4>3
    <3>5. \A j \in 1 .. Len(course'.students) - 1 :
            j # rp' /\ (cur'[1] > 1 \/ j < cur'[2]) => cnext'[j] = j + 1
      BY <1>2, <2>3, <3>1, <3>3
    <3> QED BY <2>3, <2>4, <3>2, <3>4, <3>5 DEF Linking
  <2>7. Typed'
    BY <1>3, <2>1 DEF Typed, After, Counting
  <2> QED BY <1>4, <2>1, <2>5, <2>6, <2>7 DEF IInv, Met, InSort, SortedSoFar, After, Counting
<1> QED BY <1>1, <1>5, <1>6, <1>7, <1>8

\* A step of the statistics leaves the rosters.
LEMMA CountingInv ==
  ASSUME IInv, pc \in Counting, pc' \in Counting, Typed',
         UNCHANGED <<course, cnext, roster, rosters, composite>>
  PROVE  IInv'
<1>1. Core /\ Met /\ Rostered /\ pc \in After /\ composite' \in [Students -> Int]
  BY DEF IInv, After, Core
<1>2. Core' /\ Met' /\ Rostered'
  BY <1>1, Frame
<1>3. Linking' /\ InSort' /\ SortedSoFar'
  BY DEF Linking, InSort, SortedSoFar, Counting
<1> QED BY <1>2, <1>3 DEF IInv

LEMMA FreqsInv == IInv /\ do_freqs => IInv'
<1> SUFFICES ASSUME IInv, do_freqs PROVE IInv'
  OBVIOUS
<1> DEFINE N == Len(course.students)
<1>0. Core /\ IsCourse(course) /\ pc = "freqs" /\ StatsType /\ cur \in (0 .. N) \X (Nat \ {0})
  BY DEF IInv, Core, Typed, do_freqs, Counting
<1>1. N \in Nat /\ Students = 1 .. N
  BY <1>0, CourseType
<1>2. UNCHANGED <<course, cnext, roster, rosters, composite>>
  BY DEF do_freqs
<1>3. Students' = Students /\ Asgts' = Asgts /\ Groups' = Groups
  BY <1>2 DEF Students, Asgts, Groups
<1>4. PICK s \in 0 .. N, k \in Nat \ {0} : cur = <<s, k>> /\ cur[1] = s /\ cur[2] = k
  BY <1>0
<1>5. /\ pc' \in {"freqs", "quantiles"} /\ stats' \in [Asgts -> [Groups -> Records]]
      /\ cur' \in (0 .. N) \X (Nat \ {0})
  <2>1. CASE s = 0
    <3>1. pc' = "quantiles" /\ UNCHANGED <<cur, stats>>
      BY <1>4, <2>1 DEF do_freqs, EachScore
    <3> QED BY <1>0, <3>1 DEF StatsType
  <2>2. CASE s # 0 /\ k > Len(Of(s).scores)
    <3>1. cur' = <<cnext[s], 1>> /\ UNCHANGED <<pc, stats>>
      <4>1. s \in Students
        BY <1>1, <2>2
      <4>2. Len(Of(s).scores) \in Nat
        BY <1>0, <4>1, StudentType
      <4> QED BY <1>4, <2>2, <4>2 DEF do_freqs, EachScore
    <3>2. cnext[s] \in 0 .. N
      BY <1>0, <1>1, <2>2 DEF Core
    <3> QED BY <1>0, <3>1, <3>2 DEF StatsType
  <2>3. CASE s # 0 /\ k <= Len(Of(s).scores)
    <3>1. s \in Students
      BY <1>1, <2>3
    <3>2. PICK x : x = Of(s).scores[k] /\ x \in Scores(course.asgts)
      BY <1>0, <2>3, <3>1, StudentType
    <3>3. Len(Of(s).scores) \in Nat
      BY <1>0, <3>1, StudentType
    <3>4. /\ cur' = <<s, k + 1>> /\ UNCHANGED pc
          /\ stats' = IF Tallied(x) THEN Tally(x, Of(s).section) ELSE stats
      BY <1>4, <2>3, <3>2, <3>3 DEF do_freqs, EachScore
    <3>5. Tally(x, Of(s).section) \in [Asgts -> [Groups -> Records]]
      BY <1>0, <3>2, TallyType
    <3>6. stats' \in [Asgts -> [Groups -> Records]]
      BY <1>0, <3>4, <3>5 DEF StatsType
    <3> QED BY <1>0, <3>4, <3>6
  <2>4. s = 0 \/ k > Len(Of(s).scores) \/ k <= Len(Of(s).scores)
    <3>1. s # 0 => Len(Of(s).scores) \in Nat
      BY <1>0, <1>1, StudentType
    <3> QED BY <3>1
  <2> QED BY <2>1, <2>2, <2>3, <2>4
<1>6. Typed'
  BY <1>2, <1>3, <1>5 DEF Typed, StatsType, After, Counting
<1> QED BY <1>0, <1>2, <1>5, <1>6, CountingInv DEF Counting

LEMMA SumsInv == IInv /\ do_sums => IInv'
<1> SUFFICES ASSUME IInv, do_sums PROVE IInv'
  OBVIOUS
<1> DEFINE N == Len(course.students)
<1>0. Core /\ IsCourse(course) /\ pc = "sums" /\ StatsType /\ cur \in (0 .. N) \X (Nat \ {0})
  BY DEF IInv, Core, Typed, do_sums, Counting
<1>1. N \in Nat /\ Students = 1 .. N
  BY <1>0, CourseType
<1>2. UNCHANGED <<course, cnext, roster, rosters, composite>>
  BY DEF do_sums
<1>3. Students' = Students /\ Asgts' = Asgts /\ Groups' = Groups
  BY <1>2 DEF Students, Asgts, Groups
<1>4. PICK s \in 0 .. N, k \in Nat \ {0} : cur = <<s, k>> /\ cur[1] = s /\ cur[2] = k
  BY <1>0
<1>5. /\ pc' \in {"sums", "moments"} /\ stats' \in [Asgts -> [Groups -> Records]]
      /\ cur' \in (0 .. N) \X (Nat \ {0})
  <2>1. CASE s = 0
    <3>1. pc' = "moments" /\ UNCHANGED <<cur, stats>>
      BY <1>4, <2>1 DEF do_sums, EachScore
    <3> QED BY <1>0, <3>1 DEF StatsType
  <2>2. CASE s # 0 /\ k > Len(Of(s).scores)
    <3>1. cur' = <<cnext[s], 1>> /\ UNCHANGED <<pc, stats>>
      <4>1. s \in Students
        BY <1>1, <2>2
      <4>2. Len(Of(s).scores) \in Nat
        BY <1>0, <4>1, StudentType
      <4> QED BY <1>4, <2>2, <4>2 DEF do_sums, EachScore
    <3>2. cnext[s] \in 0 .. N
      BY <1>0, <1>1, <2>2 DEF Core
    <3> QED BY <1>0, <3>1, <3>2 DEF StatsType
  <2>3. CASE s # 0 /\ k <= Len(Of(s).scores)
    <3>1. s \in Students
      BY <1>1, <2>3
    <3>2. PICK x : x = Of(s).scores[k] /\ x \in Scores(course.asgts)
      BY <1>0, <2>3, <3>1, StudentType
    <3>3. Len(Of(s).scores) \in Nat
      BY <1>0, <3>1, StudentType
    <3>4. /\ cur' = <<s, k + 1>> /\ UNCHANGED pc
          /\ stats' = IF Tallied(x) THEN AddScore(x, Of(s).section) ELSE stats
      BY <1>4, <2>3, <3>2, <3>3 DEF do_sums, EachScore
    <3>5. AddScore(x, Of(s).section) \in [Asgts -> [Groups -> Records]]
      BY <1>0, <3>2, AddType
    <3>6. stats' \in [Asgts -> [Groups -> Records]]
      BY <1>0, <3>4, <3>5 DEF StatsType
    <3> QED BY <1>0, <3>4, <3>6
  <2>4. s = 0 \/ k > Len(Of(s).scores) \/ k <= Len(Of(s).scores)
    <3>1. s # 0 => Len(Of(s).scores) \in Nat
      BY <1>0, <1>1, StudentType
    <3> QED BY <3>1
  <2> QED BY <2>1, <2>2, <2>3, <2>4
<1>6. Typed'
  BY <1>2, <1>3, <1>5 DEF Typed, StatsType, After, Counting
<1> QED BY <1>0, <1>2, <1>5, <1>6, CountingInv DEF Counting

LEMMA QuantilesInv == IInv /\ do_quantiles => IInv'
<1> SUFFICES ASSUME IInv, do_quantiles PROVE IInv'
  OBVIOUS
<1>0. Core /\ IsCourse(course) /\ pc = "quantiles" /\ StatsType
  BY DEF IInv, Core, Typed, do_quantiles, Counting
<1>1. /\ UNCHANGED <<course, cnext, roster, rosters, composite>> /\ pc' = "sums"
      /\ cur' = <<roster, 1>>
      /\ stats' = [a \in Asgts |-> [g \in Groups |->
                     [stats[a][g] EXCEPT !.freqs = Cumulated(@)]]]
  BY DEF do_quantiles
<1>2. Students' = Students /\ Asgts' = Asgts /\ Groups' = Groups
  BY <1>1 DEF Students, Asgts, Groups
<1>3. ASSUME NEW a \in Asgts, NEW g \in Groups
      PROVE  [stats[a][g] EXCEPT !.freqs = Cumulated(@)] \in Records
  <2>1. PICK r \in Records : r = stats[a][g]
    BY <1>0, RecordType
  <2>2. r.freqs \in Seq(Buckets)
    BY DEF Records
  <2>3. Cumulated(r.freqs) \in Seq(Buckets)
    BY <2>2, CumulatedType
  <2>4. [r EXCEPT !.freqs = Cumulated(r.freqs)] \in Records
    BY <2>3 DEF Records
  <2> QED BY <2>1, <2>4
<1>4. stats' \in [Asgts -> [Groups -> Records]]
  BY <1>1, <1>3
<1>5. cur' \in (0 .. Len(course.students)) \X (Nat \ {0})
  BY <1>0, <1>1 DEF Core
<1>6. Typed'
  BY <1>1, <1>2, <1>4, <1>5 DEF Typed, StatsType, After, Counting
<1> QED BY <1>0, <1>1, <1>6, CountingInv DEF Counting

LEMMA MomentsInv == IInv /\ do_moments => IInv'
<1> SUFFICES ASSUME IInv, do_moments PROVE IInv'
  OBVIOUS
<1>0. Core /\ IsCourse(course) /\ pc = "moments" /\ StatsType
  BY DEF IInv, Core, Typed, do_moments, Counting
<1>1. /\ UNCHANGED <<course, cnext, roster, rosters, composite>> /\ pc' = "normalize"
      /\ stats' = [a \in Asgts |-> [g \in Groups |-> Moments(stats[a][g])]]
  BY DEF do_moments, linkvars
<1>2. Students' = Students /\ Asgts' = Asgts /\ Groups' = Groups
  BY <1>1 DEF Students, Asgts, Groups
<1>3. \A a \in Asgts : \A g \in Groups : Moments(stats[a][g]) \in Records
  BY <1>0, RecordType, MomentsType
<1>4. stats' \in [Asgts -> [Groups -> Records]]
  BY <1>1, <1>3
<1>5. Typed'
  BY <1>1, <1>2, <1>4 DEF Typed, StatsType, After, Counting
<1> QED BY <1>0, <1>1, <1>5, CountingInv DEF Counting

LEMMA NormalizeInv == IInv /\ normalize => IInv'
<1> SUFFICES ASSUME IInv, normalize PROVE IInv'
  OBVIOUS
<1> DEFINE R == [npolicy : {"RAW", "LINEAR", "SCALE", "QUANTILE"},
                 ngroup : {"BYCLASS", "BYSECTION"}, weighted : BOOLEAN,
                 weight : Int, max : Int, mean : Int, stddev : Int,
                 scale : Int, atype : STRING]
           F == [a \in Asgts |->
                  IF \E s \in Range(Walk) : Touched(s, a, "SCALE")
                    THEN [course.asgts[a] EXCEPT !.max = AtLeastTiny(course.asgts[a].max)]
                    ELSE course.asgts[a]]
<1>0. Core /\ IsCourse(course) /\ pc = "normalize" /\ StatsType /\ Met /\ Rostered
  BY DEF IInv, Core, Typed, normalize, Counting
<1>1. /\ UNCHANGED <<cnext, roster, rosters, composite>> /\ pc' = "composites"
      /\ norm' = [s \in Students |->
                   IF s \in Range(Walk)
                   THEN [k \in DOMAIN Of(s).scores |-> Normalized(s, Of(s).scores[k])]
                   ELSE << >>]
  BY DEF normalize, linkvars
<1>a. course' = [course EXCEPT !.asgts = F]
  BY DEF normalize
<1>2. course.asgts \in Seq(R) /\ Asgts = 1 .. Len(course.asgts) /\ Len(course.asgts) \in Nat
  BY <1>0, CourseType DEF IsCourse
<1>3. F \in Seq(R) /\ DOMAIN F = Asgts
  <2>1. ASSUME NEW a \in Asgts PROVE F[a] \in R
    <3>1. PICK p : p = course.asgts[a] /\ p \in R
      <4> HIDE DEF R
      <4> QED BY <1>2
    <3>2. AtLeastTiny(p.max) \in Int
      BY <3>1 DEF AtLeastTiny, Tiny
    <3>3. [p EXCEPT !.max = AtLeastTiny(p.max)] \in R
      BY <3>1, <3>2
    <3>4. F[a] = p \/ F[a] = [p EXCEPT !.max = AtLeastTiny(p.max)]
      BY <3>1
    <3> QED BY <3>1, <3>3, <3>4, Zenon
  <2> HIDE DEF R
  <2>2. F = [a \in 1 .. Len(course.asgts) |-> F[a]]
    BY <1>2
  <2> HIDE DEF F
  <2>3. F \in Seq(R)
    BY <1>2, <2>1, <2>2
  <2> QED BY <1>2, <2>2, <2>3
<1> HIDE DEF F
<1>4. /\ DOMAIN course' = {"sections", "asgts", "students"}
      /\ course'.sections = course.sections /\ course'.students = course.students
      /\ course'.asgts = F
  BY <1>0, <1>a DEF IsCourse
<1>5. Students' = Students /\ Asgts' = Asgts /\ Groups' = Groups
  BY <1>3, <1>4 DEF Students, Asgts, Groups
<1>6. Scores(course'.asgts) = Scores(course.asgts)
  BY <1>3, <1>4 DEF Scores, Asgts
<1>7. IsCourse(course')
  <2>1. course'.asgts \in Seq(R)
    BY <1>3, <1>4
  <2> HIDE DEF R
  <2>2. course'.students \in Seq([section : 1 .. course'.sections, name : Int, id : Int,
                                  scores : Seq(Scores(course'.asgts))])
    BY <1>0, <1>4, <1>6 DEF IsCourse
  <2>3. course'.sections \in Nat /\ \A s, t \in DOMAIN course'.students :
         s <= t => course'.students[s].section <= course'.students[t].section
    BY <1>0, <1>4 DEF IsCourse
  <2> QED BY <1>4, <2>1, <2>2, <2>3 DEF IsCourse, R
<1>8. Core'
  BY <1>0, <1>1, <1>4, <1>5, <1>7 DEF Core
<1>9. \A g : Members(g)' = Members(g)
  BY <1>4, <1>5 DEF Members, Of
<1>10. Walk' = Walk
  BY <1>1, <1>4, WalkSame
<1>11. Met'
  BY <1>0, <1>4, <1>5, <1>9, <1>10 DEF Met, After, Counting
<1>12. Rostered'
  BY <1>0, <1>1, <1>4, <1>9 DEF Rostered
<1>13. Typed'
  <2>1. ASSUME NEW s \in Students
        PROVE  norm'[s] \in Seq(Int) /\ Len(norm'[s]) <= Len(Of(s).scores)
    <3>1. PICK z : z = Of(s).scores
      OBVIOUS
    <3>2. Len(z) \in Nat /\ DOMAIN z = 1 .. Len(z)
          /\ \A k \in 1 .. Len(z) : z[k] \in Scores(course.asgts)
      BY <1>0, <3>1, StudentType
    <3>3. \A k \in 1 .. Len(z) : Normalized(s, z[k]) \in Int
      BY <1>0, <3>2, NormalizedType
    <3>4. PICK n : n = [k \in 1 .. Len(z) |-> Normalized(s, z[k])]
      OBVIOUS
    <3>5. n \in Seq(Int) /\ Len(n) = Len(z)
      BY <3>2, <3>3, <3>4
    <3>6. norm'[s] = n \/ norm'[s] = << >>
      BY <1>1, <3>1, <3>2, <3>4
    <3>7. << >> \in Seq(Int) /\ Len(<< >>) = 0
      OBVIOUS
    <3>8. Len(n) <= Len(z) /\ 0 <= Len(z)
      BY <3>2, <3>5
    <3> QED BY <3>1, <3>5, <3>6, <3>7, <3>8
  <2>2. \A s \in Students' :
          norm'[s] \in Seq(Int) /\ Len(norm'[s]) <= Len(course'.students[s].scores)
    BY <1>4, <1>5, <2>1 DEF Of
  <2> QED BY <1>1, <2>2 DEF Typed, After, Counting, Of
<1> QED BY <1>1, <1>8, <1>11, <1>12, <1>13 DEF IInv, Linking, InSort, SortedSoFar

-----------------------------------------------------------------------------
(* Sorting.                                                                *)

\* All are still in one range.
Together(t, st) ==
  \A i, j \in 1 .. Len(t) :
    i < j => \E k \in 1 .. Len(st) : st[k][1] < i /\ j <= st[k][2]

\* The whole table, still to be sorted.
LEMMA Whole ==
  ASSUME NEW t \in Seq(Students)
  PROVE  Ranges(<< <<0, Len(t)>> >>, Len(t)) /\ Together(t, << <<0, Len(t)>> >>)
<1>1. PICK L \in Nat : L = Len(t)
  OBVIOUS
<1>2. PICK r \in Nat \X Nat : r = <<0, L>> /\ r[1] = 0 /\ r[2] = L
  <2>1. <<0, L>> \in Nat \X Nat /\ <<0, L>>[1] = 0 /\ <<0, L>>[2] = L
    OBVIOUS
  <2> QED BY <2>1
<1>3. PICK st : st = <<r>>
  OBVIOUS
<1>4. st \in Seq(Nat \X Nat) /\ Len(st) = 1 /\ st[1] = r
  BY <1>3
<1>5. Ranges(st, L)
  BY <1>2, <1>4 DEF Ranges
<1>6. Together(t, st)
  BY <1>1, <1>2, <1>4 DEF Together
<1> QED BY <1>1, <1>2, <1>3, <1>5, <1>6

LEMMA TableIs ==
  ASSUME NEW S, NEW t \in Seq(S), IsInjective(t)
  PROVE  /\ Table(t) \in Seq(S) /\ Len(Table(t)) = Len(t)
         /\ IsInjective(Table(t)) /\ Range(Table(t)) = Range(t)
<1>1. PICK L \in Nat : L = Len(t) /\ DOMAIN t = 1 .. L
  OBVIOUS
<1>2. PICK u : u = Table(t)
  OBVIOUS
<1>3. u = [i \in 1 .. L |-> t[L - i + 1]]
  BY <1>1, <1>2 DEF Table, Reverse
<1>4. \A i \in 1 .. L : L - i + 1 \in 1 .. L /\ L - (L - i + 1) + 1 = i
  OBVIOUS
<1>5. u \in Seq(S) /\ Len(u) = L /\ DOMAIN u = 1 .. L
  BY <1>1, <1>3, <1>4
<1>6. IsInjective(u)
  <2> SUFFICES ASSUME NEW i \in 1 .. L, NEW j \in 1 .. L, u[i] = u[j] PROVE i = j
    BY <1>5 DEF IsInjective
  <2>1. L - i + 1 = L - j + 1
    BY <1>1, <1>3, <1>4 DEF IsInjective
  <2> QED BY <2>1
<1>7. Range(u) = Range(t)
  <2>1. \A i \in 1 .. L : u[i] = t[L - i + 1] /\ t[i] = u[L - i + 1]
    BY <1>3, <1>4
  <2>2. Range(u) \subseteq Range(t)
    BY <1>1, <1>4, <1>5, <2>1 DEF Range
  <2>3. Range(t) \subseteq Range(u)
    BY <1>1, <1>4, <1>5, <2>1 DEF Range
  <2> QED BY <2>2, <2>3
<1> QED BY <1>1, <1>2, <1>5, <1>6, <1>7

\* A roster in the table: nothing is sorted yet.
LEMMA Begun ==
  ASSUME NEW t \in Seq(Students), IsInjective(t), NEW g, Range(t) = Members(g)
  PROVE  /\ Table(t) \in Seq(Students) /\ Len(Table(t)) = Len(t)
         /\ IsInjective(Table(t)) /\ Range(Table(t)) = Members(g)
         /\ Ranges(<< <<0, Len(t)>> >>, Len(Table(t)))
         /\ Together(Table(t), << <<0, Len(t)>> >>)
<1>1. PICK u \in Seq(Students) : u = Table(t) /\ Len(u) = Len(t) /\ IsInjective(u)
                                 /\ Range(u) = Range(t)
  BY TableIs
<1>2. Ranges(<< <<0, Len(u)>> >>, Len(u)) /\ Together(u, << <<0, Len(u)>> >>)
  BY Whole
<1> QED BY <1>1, <1>2

LEMMA CompositesInv == IInv /\ composites => IInv'
<1> SUFFICES ASSUME IInv, composites PROVE IInv'
  OBVIOUS
<1>0. Core /\ IsCourse(course) /\ pc = "composites" /\ Met /\ Rostered
  BY DEF IInv, Core, composites
<1>1. /\ UNCHANGED <<course, cnext, roster, rosters>> /\ pc' = "sort" /\ sorting' = 0
      /\ composite' = [s \in Students |-> IF s \in Range(Walk) THEN Composite(s) ELSE 0]
      /\ stab' = Table(Walk) /\ stack' = << <<0, Len(Walk)>> >>
  BY DEF composites, linkvars
<1>2. composite' \in [Students -> Int]
  <2>1. ASSUME NEW s \in Students PROVE Composite(s) \in Int
    <3>1. norm[s] \in Seq(Int) /\ Len(norm[s]) <= Len(Of(s).scores)
      BY <1>0 DEF IInv, Typed
    <3> QED BY <1>0, <3>1, CompositeType
  <2> QED BY <1>1, <2>1
<1>3. /\ Core' /\ Met' /\ Rostered'
      /\ Students' = Students /\ Members(0)' = Members(0)
  BY <1>0, <1>1, <1>2, Frame DEF After
<1>4. PICK w \in Seq(Students) :
        w = Walk /\ IsInjective(w) /\ Range(w) = Members(0) /\ Len(w) <= Len(course.students)
  BY <1>0 DEF Met, After
<1>5. PICK u, st : u = stab' /\ st = stack'
  OBVIOUS
<1>6. /\ u \in Seq(Students) /\ Len(u) = Len(w) /\ IsInjective(u) /\ Range(u) = Members(0)
      /\ Ranges(st, Len(u)) /\ Together(u, st)
  BY <1>1, <1>4, <1>5, Begun
<1>7. InSort'
  <2>1. Ordered(stab, stack)'
    BY <1>5, <1>6 DEF Ordered, Together
  <2>2. 0 \in 0 .. course.sections
    BY <1>0, CourseType
  <2>3. Range(stab') = Members(sorting)'
    <3>1. Members(sorting)' = Members(0)'
      BY <1>1 DEF Members
    <3> QED BY <1>3, <1>5, <1>6, <3>1
  <2> QED BY <1>1, <1>3, <1>4, <1>5, <1>6, <2>1, <2>2, <2>3 DEF InSort
<1>8. SortedSoFar'
  BY <1>1 DEF SortedSoFar
<1>9. Typed'
  BY <1>1 DEF Typed, After, Counting
<1> QED BY <1>1, <1>3, <1>7, <1>8, <1>9 DEF IInv, Linking

LEMMA SortTableInv == IInv /\ sorttable => IInv'
<1> SUFFICES ASSUME IInv, sorttable PROVE IInv'
  OBVIOUS
<1>0. Core /\ IsCourse(course) /\ pc = "sort" /\ stack # << >> /\ Met /\ Rostered /\ InSort
  BY DEF IInv, Core, sorttable
<1>1. UNCHANGED <<pc, course, cnext, roster, rosters, composite, compare, sorting>>
  BY DEF sorttable, linkvars
<1>2. /\ Core' /\ Met' /\ Rostered' /\ Walk' = Walk
      /\ Students' = Students /\ \A g : Members(g)' = Members(g)
  BY <1>0, <1>1, Frame DEF After, Core
<1>3. /\ stab \in Seq(Students) /\ IsInjective(stab) /\ Range(stab) = Members(sorting)
      /\ Ranges(stack, Len(stab)) /\ Ordered(stab, stack) /\ Len(stab) \in Nat
  BY <1>0 DEF InSort
<1>4. Keys
  BY <1>0, KeyType DEF Core
<1>5. PICK low \in Nat, high \in Nat : low = Last(stack)[1] /\ high = Last(stack)[2]
                                       /\ low <= high /\ high <= Len(stab)
  BY <1>0, <1>3, RangesFront
<1>6. PICK u, st : u = stab' /\ st = stack'
  OBVIOUS
<1>7. /\ u \in Seq(Students) /\ Len(u) = Len(stab) /\ IsInjective(u) /\ Range(u) = Range(stab)
      /\ Ranges(st, Len(u)) /\ Ordered(u, st)
  <2>1. CASE low = high
    <3>1. u = stab /\ st = Front(stack)
      BY <1>5, <1>6, <2>1 DEF sorttable
    <3>2. Ranges(Front(stack), Len(stab)) /\ Ordered(stab, Front(stack))
      BY <1>0, <1>3, <1>5, <2>1, FrontOrdered
    <3> QED BY <1>3, <3>1, <3>2
  <2>2. CASE low < high
    <3>1. PICK p : p = partition(stab, low, high)
      OBVIOUS
    <3>2. u = p.tab /\ st = Halves(stack, p.l)
      <4>1. low # high
        BY <2>2
      <4>2. /\ stab' = p.tab
            /\ stack' = IF low + 1 = high THEN Front(stack)
                        ELSE Append(Append(Front(stack), <<p.l, high>>), <<low, p.l>>)
        BY <1>5, <3>1, <4>1, Zenon DEF sorttable
      <4>3. stack' = Halves(stack, p.l)
        BY <1>5, <4>2, Zenon DEF Halves
      <4> QED BY <1>6, <4>2, <4>3
    <3>3. Partitioned(p, stab, low, high)
      BY <1>3, <1>4, <1>5, <2>2, <3>1, PartitionIs
    <3>4. Ranges(st, Len(stab)) /\ Ordered(u, st)
      BY <1>0, <1>3, <1>4, <1>5, <2>2, <3>2, <3>3, HalvesOrdered
    <3>5. Permuted(u, stab, low, high)
      BY <3>2, <3>3 DEF Partitioned
    <3>6. u \in Seq(Students) /\ Len(u) = Len(stab) /\ IsInjective(u) /\ Range(u) = Range(stab)
      BY <1>3, <1>5, <3>5, PermutedRange
    <3> QED BY <3>4, <3>6
  <2> QED BY <1>5, <2>1, <2>2
<1>8. \A s : Key(s)' = Key(s)
  BY <1>1 DEF Key, Of
<1>9. InSort'
  <2>1. Ordered(stab, stack)'
    <3>1. Ordered(stab, stack)' <=>
            \A i, j \in 1 .. Len(u) :
              i < j => \/ Key(u[i])' <= Key(u[j])'
                       \/ \E k \in 1 .. Len(st) : st[k][1] < i /\ j <= st[k][2]
      BY <1>6 DEF Ordered
    <3> QED BY <1>7, <1>8, <3>1 DEF Ordered
  <2>2. Members(sorting)' = Members(sorting)
    BY <1>1, <1>2 DEF Members, Of
  <2> QED BY <1>0, <1>1, <1>2, <1>3, <1>6, <1>7, <2>1, <2>2 DEF InSort
<1>10. \A t : Ascending(t) => Ascending(t)'
  BY <1>1 DEF Ascending, Compare, Of
<1>11. SortedSoFar'
  BY <1>0, <1>1, <1>2, <1>10 DEF IInv, SortedSoFar, Ascending, Compare, Of
<1>12. Typed'
  BY <1>0, <1>1 DEF Typed, After, Counting
<1> QED BY <1>0, <1>1, <1>2, <1>9, <1>11, <1>12 DEF IInv, Linking

\* The links that sortroster writes follow the table.
Relinked(t, next, N) ==
  [s \in 1 .. N |->
     IF s \notin Range(t) THEN next[s]
     ELSE LET at == CHOOSE i \in DOMAIN t : t[i] = s IN
          IF at = Len(t) THEN 0 ELSE t[at + 1]]

LEMMA RelinkedIs ==
  ASSUME NEW N \in Nat, NEW t \in Seq(1 .. N), IsInjective(t), NEW next \in [1 .. N -> 0 .. N]
  PROVE  /\ Relinked(t, next, N) \in [1 .. N -> 0 .. N]
         /\ Follows(t, IF t = << >> THEN 0 ELSE t[1], Relinked(t, next, N))
<1>1. PICK L \in Nat : L = Len(t) /\ DOMAIN t = 1 .. L /\ \A i \in 1 .. L : t[i] \in 1 .. N
  <2>1. Len(t) \in Nat /\ DOMAIN t = 1 .. Len(t)
    OBVIOUS
  <2>2. \A i \in 1 .. Len(t) : t[i] \in 1 .. N
    OBVIOUS
  <2> QED BY <2>1, <2>2
<1>2. PICK f : f = Relinked(t, next, N)
  OBVIOUS
<1>3. ASSUME NEW i \in 1 .. L
      PROVE  f[t[i]] = IF i = L THEN 0 ELSE t[i + 1]
  <2>1. PICK s \in 1 .. N : s = t[i]
    BY <1>1
  <2>2. s \in Range(t)
    BY <1>1, <2>1 DEF Range
  <2>3. (CHOOSE j \in DOMAIN t : t[j] = s) = i
    BY <1>1, <2>1 DEF IsInjective
  <2>4. f[s] = IF i = L THEN 0 ELSE t[i + 1]
    <3> DEFINE at == CHOOSE j \in DOMAIN t : t[j] = s
    <3>1. f[s] = IF s \notin Range(t) THEN next[s] ELSE IF at = Len(t) THEN 0 ELSE t[at + 1]
      BY <1>2 DEF Relinked
    <3>2. at = i
      BY <2>3
    <3> HIDE DEF at
    <3> QED BY <1>1, <2>2, <3>1, <3>2
  <2> QED BY <2>1, <2>4
<1>4. f \in [1 .. N -> 0 .. N]
  <2>1. ASSUME NEW s \in 1 .. N PROVE f[s] \in 0 .. N
    <3>1. CASE s \notin Range(t)
      <4>1. f[s] = next[s]
        BY <1>2, <3>1 DEF Relinked
      <4> QED BY <4>1
    <3>2. CASE s \in Range(t)
      <4>1. PICK i \in 1 .. L : s = t[i]
        BY <1>1, <3>2 DEF Range
      <4>2. CASE i = L
        BY <1>3, <4>1, <4>2
      <4>3. CASE i # L
        <5>1. i + 1 \in 1 .. L
          BY <4>3
        <5>2. f[s] = t[i + 1]
          BY <1>3, <4>1, <4>3
        <5> QED BY <1>1, <5>1, <5>2
      <4> QED BY <4>2, <4>3
    <3> QED BY <3>1, <3>2
  <2>2. f = [s \in 1 .. N |-> f[s]]
    BY <1>2 DEF Relinked
  <2> QED BY <2>1, <2>2
<1>5. t = << >> => 0 = IF t = << >> THEN 0 ELSE t[1]
  OBVIOUS
<1>6. t # << >> => f[t[Len(t)]] = 0
  BY <1>1, <1>3
<1>7. \A i \in 1 .. Len(t) - 1 : f[t[i]] = t[i + 1]
  <2>1. \A i \in 1 .. L - 1 : i \in 1 .. L /\ i # L
    OBVIOUS
  <2> QED BY <1>1, <1>3, <2>1
<1> QED BY <1>2, <1>4, <1>5, <1>6, <1>7 DEF Follows

\* When no range is left, the table is in order.
LEMMA Finished ==
  ASSUME NEW t \in Seq(Students), Keys, Ordered(t, << >>)
  PROVE  Ascending(t)
<1> SUFFICES ASSUME NEW n \in 2 .. Len(t) PROVE Compare(t[n - 1], t[n]) <= 0
  BY DEF Ascending
<1>1. n - 1 \in 1 .. Len(t) /\ n \in 1 .. Len(t) /\ n - 1 < n
  OBVIOUS
<1>2. Key(t[n - 1]) <= Key(t[n])
  <2>1. Len(<< >>) = 0
    OBVIOUS
  <2> QED BY <1>1, <2>1 DEF Ordered
<1>3. Key(t[n - 1]) \in Int /\ Key(t[n]) \in Int
  BY <1>1 DEF Keys
<1> QED BY <1>2, <1>3, CompareIs

LEMMA SortRosterInv == IInv /\ sortroster => IInv'
<1> SUFFICES ASSUME IInv, sortroster PROVE IInv'
  OBVIOUS
<1> DEFINE N == Len(course.students)
<1>0. Core /\ IsCourse(course) /\ pc = "sort" /\ stack = << >> /\ Met /\ Rostered /\ InSort
      /\ SortedSoFar
  BY DEF IInv, Core, sortroster
<1>1. N \in Nat /\ Students = 1 .. N /\ course.sections \in Nat
  BY <1>0, CourseType
<1>2. UNCHANGED <<course, composite, compare>>
  BY DEF sortroster
<1>3. /\ Students' = Students /\ Groups' = Groups /\ \A g : Members(g)' = Members(g)
  BY <1>2 DEF Students, Groups, Members, Asgts, Of
<1>4. \A t : Ascending(t) => Ascending(t)'
  BY <1>2 DEF Ascending, Compare, Of
<1>5. /\ sorting \in 0 .. course.sections
      /\ stab \in Seq(Students) /\ IsInjective(stab) /\ Range(stab) = Members(sorting)
      /\ sorting = 0 => Len(stab) <= N
  BY <1>0 DEF InSort
<1>6. Ascending(stab)
  <2>1. Keys
    BY <1>0, KeyType DEF Core
  <2> QED BY <1>0, <1>5, <2>1, Finished DEF InSort
<1>7. /\ cnext' \in [Students -> 0 .. N] /\ roster' \in 0 .. N
      /\ Walk' \in Seq(Students) /\ Len(Walk') <= N
      /\ IsInjective(Walk') /\ Range(Walk') = Members(0)
      /\ Ascending(Walk')
  <2>1. CASE sorting = 0
    <3>1. roster' = (IF stab = << >> THEN 0 ELSE stab[1]) /\ cnext' = Relinked(stab, cnext, N)
      BY <1>1, <2>1 DEF sortroster, Relinked
    <3>2. cnext' \in [1 .. N -> 0 .. N] /\ Follows(stab, roster', cnext')
      BY <1>0, <1>1, <1>5, <3>1, RelinkedIs DEF Core
    <3>3. WalkFrom(N, roster', cnext') = stab
      BY <1>1, <1>5, <2>1, <3>2, WalkIs
    <3>4. Walk' = stab
      BY <1>2, <3>3 DEF Walk, WalkFrom
    <3>5. roster' \in 0 .. N
      BY <1>1, <1>5, <3>1
    <3> QED BY <1>1, <1>5, <1>6, <2>1, <3>2, <3>4, <3>5
  <2>2. CASE sorting # 0
    <3>1. UNCHANGED <<cnext, roster>>
      BY <2>2 DEF sortroster
    <3>2. Walk' = Walk
      BY <1>2, <3>1, WalkSame
    <3>3. Ascending(Walk)
      BY <1>0, <1>1, <1>5, <2>2 DEF SortedSoFar
    <3> QED BY <1>0, <3>1, <3>2, <3>3 DEF Core, Met, After
  <2> QED BY <2>1, <2>2
<1>8. /\ rosters' \in [1 .. course.sections -> Seq(Students)]
      /\ sorting # 0 => rosters'[sorting] = stab
      /\ \A g \in 1 .. course.sections : g # sorting => rosters'[g] = rosters[g]
  <2>1. CASE sorting = 0
    <3>1. rosters' = rosters
      BY <2>1 DEF sortroster
    <3> QED BY <1>0, <2>1, <3>1 DEF Core
  <2>2. CASE sorting # 0
    <3>1. rosters' = [rosters EXCEPT ![sorting] = stab]
      BY <2>2 DEF sortroster
    <3>2. sorting \in 1 .. course.sections
      BY <1>1, <1>5, <2>2
    <3> QED BY <1>0, <1>5, <3>1, <3>2 DEF Core
  <2> QED BY <2>1, <2>2
<1>9. ASSUME NEW g \in 1 .. course.sections
      PROVE  IsInjective(rosters'[g]) /\ Range(rosters'[g]) = Members(g)
  <2>1. CASE g = sorting
    BY <1>1, <1>5, <1>8, <2>1
  <2>2. CASE g # sorting
    BY <1>0, <1>8, <2>2 DEF Rostered
  <2> QED BY <2>1, <2>2
<1>10. Core'
  BY <1>0, <1>2, <1>3, <1>7, <1>8 DEF Core
<1>11. Met'
  BY <1>2, <1>3, <1>7 DEF Met
<1>12. Rostered'
  BY <1>2, <1>3, <1>9 DEF Rostered
<1>13. \A g \in 1 .. sorting : Ascending(rosters'[g])
  <2> SUFFICES ASSUME NEW g \in 1 .. sorting PROVE Ascending(rosters'[g])
    OBVIOUS
  <2>1. CASE g = sorting
    BY <1>5, <1>6, <1>8, <2>1
  <2>2. CASE g # sorting
    <3>1. g \in 1 .. sorting - 1 /\ g \in 1 .. course.sections
      BY <1>1, <1>5, <2>2
    <3>2. Ascending(rosters[g])
      BY <1>0, <3>1 DEF SortedSoFar
    <3> QED BY <1>8, <2>2, <3>1, <3>2
  <2> QED BY <2>1, <2>2
<1>14. PICK w, ro : w = Walk' /\ ro = rosters'
  OBVIOUS
<1>15. Ascending(Walk)' /\ \A g \in 1 .. sorting : Ascending(ro[g])'
  BY <1>4, <1>7, <1>13, <1>14 DEF Ascending, Compare, Of
<1>16. CASE sorting < course.sections
  <2>1. /\ sorting' = sorting + 1 /\ stab' = Table(rosters[sorting + 1])
        /\ stack' = << <<0, Len(rosters[sorting + 1])>> >> /\ pc' = "sort"
    BY <1>0, <1>16 DEF sortroster
  <2>2. sorting + 1 \in 1 .. course.sections /\ sorting + 1 # 0
    BY <1>1, <1>5, <1>16
  <2>3. PICK r \in Seq(Students) : /\ r = rosters[sorting + 1] /\ IsInjective(r)
                                   /\ Range(r) = Members(sorting + 1)
    BY <1>0, <2>2 DEF Core, Rostered
  <2>4. PICK u, st : u = stab' /\ st = stack'
    OBVIOUS
  <2>5. /\ u \in Seq(Students) /\ Len(u) = Len(r) /\ IsInjective(u)
        /\ Range(u) = Members(sorting + 1)
        /\ Ranges(st, Len(u)) /\ Together(u, st)
    BY <2>1, <2>3, <2>4, Begun
  <2>6. InSort'
    <3>1. Ordered(stab, stack)'
      BY <2>4, <2>5 DEF Ordered, Together
    <3>2. Range(stab') = Members(sorting)'
      <4>1. Members(sorting)' = Members(sorting + 1)
        BY <1>2, <2>1 DEF Members, Students, Asgts, Of
      <4> QED BY <2>4, <2>5, <4>1
    <3>3. sorting' \in 0 .. course.sections /\ sorting' # 0
      BY <1>1, <2>1, <2>2
    <3> QED BY <1>2, <1>3, <2>1, <2>4, <2>5, <3>1, <3>2, <3>3 DEF InSort
  <2>7. SortedSoFar'
    <3>1. 1 .. sorting' - 1 = 1 .. sorting
      BY <1>1, <1>5, <2>1
    <3>2. \A g \in 1 .. sorting' - 1 : Ascending(rosters[g])'
      BY <1>14, <1>15, <3>1 DEF Ascending, Compare, Of
    <3> QED BY <1>15, <2>1, <3>2 DEF SortedSoFar
  <2>8. Typed'
    BY <2>1 DEF Typed, After, Counting
  <2> QED BY <1>10, <1>11, <1>12, <2>1, <2>6, <2>7, <2>8 DEF IInv, Linking
<1>17. CASE ~(sorting < course.sections)
  <2>1. pc' = "sorted" /\ sorting = course.sections
    BY <1>1, <1>5, <1>17 DEF sortroster
  <2>2. SortedSoFar'
    <3>1. \A g \in 1 .. course'.sections : Ascending(rosters[g])'
      BY <1>2, <1>14, <1>15, <2>1 DEF Ascending, Compare, Of
    <3> QED BY <1>15, <2>1, <3>1 DEF SortedSoFar
  <2>3. Typed'
    BY <2>1 DEF Typed, After, Counting
  <2> QED BY <1>10, <1>11, <1>12, <2>1, <2>2, <2>3 DEF IInv, Linking, InSort
<1> QED BY <1>16, <1>17

LEMMA SortAgainInv == IInv /\ SortAgain => IInv'
<1> SUFFICES ASSUME IInv, SortAgain PROVE IInv'
  OBVIOUS
<1>0. Core /\ IsCourse(course) /\ pc = "sorted" /\ Met /\ Rostered /\ SortedSoFar
  BY DEF IInv, Core, SortAgain
<1>1. UNCHANGED <<course, cnext, roster, rosters, composite>>
  BY DEF SortAgain, linkvars
<1>2. /\ Core' /\ Met' /\ Rostered' /\ Walk' = Walk
      /\ Students' = Students /\ Members(0)' = Members(0)
  BY <1>0, <1>1, Frame DEF After, Core
<1>3. CASE Given("collate")
  <2>1. pc' = "done" /\ UNCHANGED compare
    BY <1>3 DEF SortAgain, sortvars
  <2>2. SortedSoFar'
    BY <1>0, <1>1, <1>2, <2>1 DEF SortedSoFar, Ascending, Compare, Of
  <2>3. Typed'
    BY <2>1 DEF Typed, After, Counting
  <2> QED BY <1>2, <2>1, <2>2, <2>3 DEF IInv, Linking, InSort
<1>4. CASE ~Given("collate")
  <2>1. /\ pc' = "sort" /\ sorting' = 0
        /\ stab' = Table(Walk) /\ stack' = << <<0, Len(Walk)>> >>
    BY <1>4 DEF SortAgain
  <2>2. PICK w \in Seq(Students) :
          w = Walk /\ IsInjective(w) /\ Range(w) = Members(0) /\ Len(w) <= Len(course.students)
    BY <1>0 DEF Met, After
  <2>3. PICK u, st : u = stab' /\ st = stack'
    OBVIOUS
  <2>4. /\ u \in Seq(Students) /\ Len(u) = Len(w) /\ IsInjective(u) /\ Range(u) = Members(0)
        /\ Ranges(st, Len(u)) /\ Together(u, st)
    BY <2>1, <2>2, <2>3, Begun
  <2>5. InSort'
    <3>1. Ordered(stab, stack)'
      BY <2>3, <2>4 DEF Ordered, Together
    <3>2. 0 \in 0 .. course.sections
      BY <1>0, CourseType
    <3>3. Range(stab') = Members(sorting)'
      <4>1. Members(sorting)' = Members(0)'
        BY <2>1 DEF Members
      <4> QED BY <1>2, <2>3, <2>4, <4>1
    <3> QED BY <1>1, <1>2, <2>1, <2>2, <2>3, <2>4, <3>1, <3>2, <3>3 DEF InSort
  <2>6. SortedSoFar'
    BY <2>1 DEF SortedSoFar
  <2>7. Typed'
    BY <2>1 DEF Typed, After, Counting
  <2> QED BY <1>2, <2>1, <2>5, <2>6, <2>7 DEF IInv, Linking
<1> QED BY <1>3, <1>4

LEMMA ReportInv == IInv /\ Report => IInv'
<1> SUFFICES ASSUME IInv, Report PROVE IInv'
  OBVIOUS
<1>0. Core /\ pc = "sorted" /\ Met /\ Rostered /\ SortedSoFar
  BY DEF IInv, Report
<1>1. /\ UNCHANGED <<course, cnext, roster, rosters, composite, compare>>
      /\ pc' \in {"sorted", "done", "undefined"}
  BY <1>0 DEF Report, linkvars, sortvars
<1>2. Core' /\ Met' /\ Rostered' /\ Walk' = Walk
  BY <1>0, <1>1, Frame DEF After, Core
<1>3. SortedSoFar'
  BY <1>0, <1>1, <1>2 DEF SortedSoFar, Ascending, Compare, Of
<1>4. Typed'
  BY <1>1 DEF Typed, After, Counting
<1> QED BY <1>1, <1>2, <1>3, <1>4 DEF IInv, Linking, InSort

LEMMA StutterInv == IInv /\ UNCHANGED vars => IInv'
<1> SUFFICES ASSUME IInv, UNCHANGED vars PROVE IInv'
  OBVIOUS
<1>0. Core /\ Met /\ Rostered /\ composite \in [Students -> Int]
  BY DEF IInv, Core
<1>1. /\ UNCHANGED <<pc, course, cnext, roster, rosters, composite, compare, rp, cur, stats>>
      /\ UNCHANGED <<norm, stab, stack, sorting>>
  BY DEF vars, linkvars, sortvars
<1>2. Walk' = Walk
  BY <1>1, WalkSame
<1>3. Core' /\ Met' /\ Rostered'
  BY <1>0, <1>1, Frame
<1>4. Typed' /\ Linking'
  BY <1>1 DEF IInv, Typed, Linking, StatsType, Students, Asgts, Groups, Of
<1>5. InSort'
  BY <1>1 DEF IInv, InSort, Members, Students, Asgts, Of, Ordered, Key
<1>6. SortedSoFar'
  BY <1>1, <1>2 DEF IInv, SortedSoFar, Ascending, Compare, Of
<1> QED BY <1>3, <1>4, <1>5, <1>6 DEF IInv

LEMMA NextInv == IInv /\ [Next]_vars => IInv'
BY OptionInv, BuildInv, LinksInv, FreqsInv, QuantilesInv, SumsInv, MomentsInv, NormalizeInv,
   CompositesInv, SortTableInv, SortRosterInv, SortAgainInv, ReportInv, StutterInv DEF Next

-----------------------------------------------------------------------------
(* Theorems.                                                               *)

\* The rosters are lists of the students, in the course of do_links and of every
\* sort of the grades program.
THEOREM GradesInvariant == Spec => []IInv
<1>1. Init => IInv
  BY InitInv
<1>2. IInv /\ [Next]_vars => IInv'
  BY NextInv
<1> QED BY <1>1, <1>2, PTL DEF Spec

\* Whatever the course, linking and relinking lose and repeat no student, and
\* close no cycle: do_links and sortroster.
THEOREM RostersComplete == Spec => []RosterComplete
<1>1. IInv => RosterComplete
  <2> SUFFICES ASSUME IInv, pc \notin {"options", "failed", "undefined", "build", "links"}
               PROVE  /\ Range(Walk) = (IF Asgts = {} THEN {} ELSE Students)
                      /\ IsInjective(Walk)
                      /\ \A g \in 1 .. course.sections :
                           /\ Range(rosters[g]) = {s \in Students : Of(s).section = g}
                           /\ IsInjective(rosters[g])
    BY DEF RosterComplete
  <2>1. pc \in After
    BY DEF IInv, Typed
  <2>2. IsInjective(Walk) /\ Range(Walk) = Members(0)
    BY <2>1 DEF IInv, Met
  <2>3. ASSUME NEW g \in 1 .. course.sections
        PROVE  /\ Range(rosters[g]) = {s \in Students : Of(s).section = g}
               /\ IsInjective(rosters[g])
    <3>1. g # 0
      BY DEF IInv, Core, IsCourse
    <3> QED BY <3>1 DEF IInv, Rostered, Members
  <2> QED BY <2>2, <2>3 DEF Members
<1> QED BY <1>1, GradesInvariant, PTL

\* Whatever the course, the reports list the class and the sections in the order
\* asked for: sorttable, partition and sortroster.
THEOREM ReportsInOrder == Spec => []ReportsSorted
<1>1. IInv => ReportsSorted
  <2> SUFFICES ASSUME IInv, pc \in {"sorted", "done"}, NEW t \in {Walk} \cup Range(rosters)
               PROVE  Ascending(t)
    BY DEF ReportsSorted, Ascending
  <2>1. Ascending(Walk) /\ \A g \in 1 .. course.sections : Ascending(rosters[g])
    BY DEF IInv, SortedSoFar
  <2>2. DOMAIN rosters = 1 .. course.sections
    BY DEF IInv, Core
  <2> QED BY <2>1, <2>2 DEF Range
<1> QED BY <1>1, GradesInvariant, PTL

\* Whatever the course, sorttable comes to an end: every call leaves less to do.
THEOREM SortEnds == Spec => SortAdvances
<1>1. IInv /\ [Next]_vars => [pc = "sort" /\ stack # << >> => Work' < Work]_vars
  <2> SUFFICES ASSUME IInv, Next, pc = "sort", stack # << >> PROVE Work' < Work
    OBVIOUS
  <2>1. sorttable
    BY DEF Next, Option, OptionsEnd, buildstats, do_links, do_freqs, do_quantiles, do_sums,
           do_moments, normalize, composites, sortroster, SortAgain, Report
  <2>2. Core /\ IsCourse(course) /\ InSort
    BY DEF IInv, Core
  <2>3. /\ stab \in Seq(Students) /\ IsInjective(stab) /\ Len(stab) \in Nat
        /\ Ranges(stack, Len(stab)) /\ stack \in Seq(Nat \X Nat)
    BY <2>2, SMTT(20) DEF InSort, Ranges
  <2>4. Keys
    BY <2>2, KeyType DEF Core
  <2>5. UNCHANGED <<course, composite, compare>>
    BY <2>1 DEF sorttable
  <2>6. Work = Total(Costs(stab, stack))
    <3>1. \A r : Weight(r) = Cost(stab, r)
      BY CompareIs DEF Weight, Unsplit, Cost, Lone
    <3>2. DOMAIN stack = 1 .. Len(stack)
      BY <2>3
    <3> QED BY <3>1, <3>2 DEF Work, Costs
  <2>7. PICK low \in Nat, high \in Nat : low = Last(stack)[1] /\ high = Last(stack)[2]
                                         /\ low <= high /\ high <= Len(stab)
    BY <2>3, RangesFront
  <2>8. PICK u, st : u = stab' /\ st = stack'
    OBVIOUS
  <2>9. st \in Seq(Nat \X Nat) => Work' = Total(Costs(u, st))
    <3> SUFFICES ASSUME st \in Seq(Nat \X Nat) PROVE Work' = Total(Costs(u, st))
      OBVIOUS
    <3>1. \A s, t : Compare(s, t)' = Key(s) - Key(t)
      BY <2>5 DEF Compare, Key, Of
    <3>2. \A r : Unsplit(r)' <=> Lone(u, r)
      BY <2>8, <3>1 DEF Unsplit, Lone
    <3>3. \A r : Weight(r)' = Cost(u, r)
      BY <3>2 DEF Weight, Cost
    <3>4. DOMAIN st = 1 .. Len(st)
      OBVIOUS
    <3>5. Work' = Total([n \in 1 .. Len(st) |-> Weight(st[n])'])
      BY <2>8, <3>4 DEF Work
    <3> QED BY <3>3, <3>5 DEF Costs
  <2>10. CASE low = high
    <3>1. u = stab /\ st = Front(stack)
      BY <2>1, <2>7, <2>8, <2>10 DEF sorttable
    <3>2. st \in Seq(Nat \X Nat) /\ Total(Costs(u, st)) < Total(Costs(stab, stack))
      BY <2>3, <2>4, <2>7, <2>10, <3>1, CallShrinks, FrontIs
    <3> QED BY <2>6, <2>9, <3>2
  <2>11. CASE low < high
    <3>1. PICK p : p = partition(stab, low, high)
      OBVIOUS
    <3>2. u = p.tab /\ st = Halves(stack, p.l)
      BY <2>1, <2>7, <2>8, <2>11, <3>1 DEF sorttable, Halves
    <3>3. Partitioned(p, stab, low, high)
      BY <2>3, <2>4, <2>7, <2>11, <3>1, PartitionIs
    <3>4. Total(Costs(u, st)) < Total(Costs(stab, stack))
      BY <2>3, <2>4, <2>7, <2>11, <3>2, <3>3, CallShrinks
    <3>5. st \in Seq(Nat \X Nat)
      BY <2>3, <2>7, <2>11, <3>2, <3>3, <2>2, <2>4, HalvesOrdered DEF InSort, Ranges
    <3> QED BY <2>6, <2>9, <3>4, <3>5
  <2> QED BY <2>7, <2>10, <2>11
<1> QED BY <1>1, GradesInvariant, PTL DEF Spec, SortAdvances

-----------------------------------------------------------------------------
(* Totals of sequences that differ in one place, or are zero.              *)

\* u is s with d added to its ith element.
Raised(u, s, i, d) ==
  /\ u \in Seq(Int) /\ Len(u) = Len(s) /\ u[i] = s[i] + d
  /\ \A n \in 1 .. Len(s) : n # i => u[n] = s[n]

LEMMA TotalRaised ==
  ASSUME NEW s \in Seq(Int), NEW u, NEW i \in 1 .. Len(s), NEW d \in Int, Raised(u, s, i, d)
  PROVE  Total(u) = Total(s) + d
<1> DEFINE L == Len(s)
<1>0. L \in Nat /\ u \in Seq(Int) /\ Len(u) = L /\ i \in 1 .. L
  BY DEF Raised
<1>1. PICK f : Sums(f, s) /\ Total(s) = f[L] /\ \A n \in 0 .. L : f[n] \in Int
  BY TotalIs
<1>2. PICK g : Sums(g, u) /\ Total(u) = g[L] /\ \A n \in 0 .. L : g[n] \in Int
  BY <1>0, TotalIs
<1>3. \A n \in 0 .. L : f[n] = IF n = 0 THEN 0 ELSE f[n - 1] + s[n]
  BY <1>0, <1>1 DEF Sums
<1>4. \A n \in 0 .. L : g[n] = IF n = 0 THEN 0 ELSE g[n - 1] + u[n]
  BY <1>0, <1>2 DEF Sums
<1>5. \A n \in 1 .. L : s[n] \in Int /\ u[n] = IF n = i THEN s[n] + d ELSE s[n]
  BY <1>0 DEF Raised
<1> HIDE DEF L
<1> DEFINE T == {n \in 0 .. L : g[n] = IF n < i THEN f[n] ELSE f[n] + d}
<1>6. 0 \in T
  BY <1>0, <1>3, <1>4
<1>7. ASSUME NEW n \in 1 .. L, n - 1 \in T PROVE n \in T
  <2>1. n - 1 \in 0 .. L /\ f[n - 1] \in Int /\ f[n] = f[n - 1] + s[n] /\ g[n] = g[n - 1] + u[n]
    BY <1>0, <1>1, <1>3, <1>4, SMTT(20)
  <2>2. g[n - 1] = IF n - 1 < i THEN f[n - 1] ELSE f[n - 1] + d
    BY <1>7
  <2>3. n \in 0 .. L /\ s[n] \in Int
    BY <1>0, <1>5
  <2>4. CASE n < i
    <3>1. u[n] = s[n] /\ g[n - 1] = f[n - 1]
      BY <1>0, <1>5, <2>2, <2>4
    <3> QED BY <2>1, <2>3, <2>4, <3>1
  <2>5. CASE n = i
    <3>1. u[n] = s[n] + d /\ g[n - 1] = f[n - 1]
      BY <1>0, <1>5, <2>2, <2>5
    <3> QED BY <2>1, <2>3, <2>5, <3>1
  <2>6. CASE n > i
    <3>1. u[n] = s[n] /\ g[n - 1] = f[n - 1] + d
      BY <1>0, <1>5, <2>2, <2>6
    <3> QED BY <2>1, <2>3, <2>6, <3>1
  <2> QED BY <1>0, <2>4, <2>5, <2>6
<1> HIDE DEF T
<1>8. \A n \in 0 .. L : n \in T
  BY <1>0, <1>6, <1>7, UpTo
<1>9. g[L] = IF L < i THEN f[L] ELSE f[L] + d
  BY <1>0, <1>8 DEF T
<1> QED BY <1>0, <1>1, <1>2, <1>9

LEMMA TotalZero ==
  ASSUME NEW s \in Seq(Int), \A n \in 1 .. Len(s) : s[n] = 0
  PROVE  Total(s) = 0
<1>1. PICK f : Sums(f, s) /\ Total(s) = f[Len(s)] /\ \A n \in 0 .. Len(s) : f[n] \in Int
  BY TotalIs
<1>2. PICK L \in Nat : L = Len(s)
  OBVIOUS
<1>3. \A n \in 0 .. L : f[n] = IF n = 0 THEN 0 ELSE f[n - 1] + s[n]
  BY <1>1, <1>2 DEF Sums
<1> DEFINE T == {n \in 0 .. L : f[n] = 0}
<1>4. 0 \in T
  BY <1>2, <1>3
<1>5. \A n \in 1 .. L : n - 1 \in T => n \in T
  BY <1>2, <1>3
<1> HIDE DEF T
<1>6. \A n \in 0 .. L : n \in T
  BY <1>4, <1>5, UpTo
<1> QED BY <1>1, <1>2, <1>6 DEF T

-----------------------------------------------------------------------------
(* The sums over a set of scores.                                          *)

Itself == [v \in Int |-> v]
Squared == [v \in Int |-> v * v]

\* The scores of one student, and of all.
SumOf(s, S, F) ==
  [k \in 1 .. Len(Of(s).scores) |-> IF <<s, k>> \in S THEN F[Of(s).scores[k].grade] ELSE 0]
SumsOf(S, F) == [s \in 1 .. Len(course.students) |-> Total(SumOf(s, S, F))]
SumIn(S, F) == Total(SumsOf(S, F))

LEMMA SumType ==
  ASSUME IsCourse(course), NEW S, NEW F \in [Int -> Int]
  PROVE  /\ \A s \in Students : /\ SumOf(s, S, F) \in Seq(Int)
                                /\ Len(SumOf(s, S, F)) = Len(Of(s).scores)
                                /\ Len(Of(s).scores) \in Nat
                                /\ Total(SumOf(s, S, F)) \in Int
         /\ SumsOf(S, F) \in Seq(Int) /\ Len(SumsOf(S, F)) = Len(course.students)
         /\ SumIn(S, F) \in Int
<1>1. ASSUME NEW s \in Students
      PROVE  /\ SumOf(s, S, F) \in Seq(Int) /\ Len(SumOf(s, S, F)) = Len(Of(s).scores)
             /\ Len(Of(s).scores) \in Nat /\ Total(SumOf(s, S, F)) \in Int
  <2>1. PICK z : z = Of(s).scores
    OBVIOUS
  <2>2. Len(z) \in Nat /\ \A k \in 1 .. Len(z) : z[k] \in Scores(course.asgts)
    BY <2>1, StudentType
  <2>3. \A k \in 1 .. Len(z) : F[z[k].grade] \in Int
    BY <2>2, ScoreType
  <2>4. SumOf(s, S, F) = [k \in 1 .. Len(z) |-> IF <<s, k>> \in S THEN F[z[k].grade] ELSE 0]
    BY <2>1 DEF SumOf
  <2>5. SumOf(s, S, F) \in Seq(Int) /\ Len(SumOf(s, S, F)) = Len(z)
    BY <2>2, <2>3, <2>4
  <2> QED BY <2>1, <2>2, <2>5, TotalType
<1>2. PICK N \in Nat : N = Len(course.students) /\ Students = 1 .. N
  BY CourseType
<1>3. SumsOf(S, F) \in Seq(Int) /\ Len(SumsOf(S, F)) = N
  <2>1. SumsOf(S, F) = [s \in 1 .. N |-> Total(SumOf(s, S, F))]
    BY <1>2 DEF SumsOf
  <2> QED BY <1>1, <1>2, <2>1
<1>4. SumIn(S, F) \in Int
  BY <1>3, TotalType DEF SumIn
<1> QED BY <1>1, <1>2, <1>3, <1>4

LEMMA SumEmpty ==
  ASSUME IsCourse(course), NEW F \in [Int -> Int]
  PROVE  SumIn({}, F) = 0
<1>1. \A s \in Students : Total(SumOf(s, {}, F)) = 0
  <2> TAKE s \in Students
  <2>1. SumOf(s, {}, F) \in Seq(Int) /\ Len(SumOf(s, {}, F)) = Len(Of(s).scores)
    BY SumType
  <2>2. \A k \in 1 .. Len(Of(s).scores) : SumOf(s, {}, F)[k] = 0
    BY DEF SumOf
  <2> QED BY <2>1, <2>2, TotalZero
<1>2. SumsOf({}, F) \in Seq(Int) /\ Len(SumsOf({}, F)) = Len(course.students)
  BY SumType
<1>3. \A s \in 1 .. Len(course.students) : SumsOf({}, F)[s] = 0
  BY <1>1, CourseType DEF SumsOf
<1> QED BY <1>2, <1>3, TotalZero DEF SumIn

LEMMA SumAdd ==
  ASSUME IsCourse(course), NEW F \in [Int -> Int], NEW S, NEW s \in Students,
         NEW k \in 1 .. Len(Of(s).scores), <<s, k>> \notin S
  PROVE  SumIn(S \cup {<<s, k>>}, F) = SumIn(S, F) + F[Of(s).scores[k].grade]
<1> DEFINE U == S \cup {<<s, k>>}
<1>1. PICK d \in Int : d = F[Of(s).scores[k].grade]
  BY StudentType, ScoreType
<1>2. \A t, m : <<t, m>> \in U <=> (<<t, m>> \in S \/ (t = s /\ m = k))
  OBVIOUS
<1> HIDE DEF U
<1>3. Total(SumOf(s, U, F)) = Total(SumOf(s, S, F)) + d
  <2>1. PICK a \in Seq(Int) : a = SumOf(s, S, F) /\ Len(a) = Len(Of(s).scores)
    BY SumType
  <2>2. PICK b \in Seq(Int) : b = SumOf(s, U, F) /\ Len(b) = Len(Of(s).scores)
    BY SumType
  <2>3. a[k] = 0 /\ b[k] = d
    BY <1>1, <1>2, <2>1, <2>2 DEF SumOf
  <2>4. \A n \in 1 .. Len(a) : n # k => b[n] = a[n]
    BY <1>2, <2>1, <2>2 DEF SumOf
  <2>5. Raised(b, a, k, d)
    BY <2>1, <2>2, <2>3, <2>4 DEF Raised
  <2> QED BY <2>1, <2>2, <2>5, TotalRaised
<1>4. ASSUME NEW t \in Students, t # s PROVE SumOf(t, U, F) = SumOf(t, S, F)
  BY <1>2, <1>4 DEF SumOf
<1>5. PICK a \in Seq(Int) : a = SumsOf(S, F) /\ Len(a) = Len(course.students)
  BY SumType
<1>6. PICK b \in Seq(Int) : b = SumsOf(U, F) /\ Len(b) = Len(course.students)
  BY SumType
<1>7. PICK N \in Nat : N = Len(course.students) /\ Students = 1 .. N
  BY CourseType
<1>8. \A t \in 1 .. N : a[t] = Total(SumOf(t, S, F)) /\ b[t] = Total(SumOf(t, U, F))
  BY <1>5, <1>6, <1>7 DEF SumsOf
<1>9. Raised(b, a, s, d)
  BY <1>3, <1>4, <1>5, <1>6, <1>7, <1>8 DEF Raised
<1>10. Total(b) = Total(a) + d
  BY <1>5, <1>7, <1>9, TotalRaised
<1> QED BY <1>1, <1>5, <1>6, <1>10 DEF SumIn, U
-----------------------------------------------------------------------------
(* The tables.                                                             *)

Ascends(f) == \A i, j \in 1 .. Len(f) : i < j => f[i].score < f[j].score

\* The table u is f with one more score g.
Inserted(u, f, g) ==
  /\ u \in Seq(Buckets) /\ Ascends(u)
  /\ \E n \in 1 .. Len(u) : u[n].score = g
  /\ \A m \in 1 .. Len(f) : \E n \in 1 .. Len(u) : u[n].score = f[m].score
  /\ \A n \in 1 .. Len(u) :
       u[n].score = g => \/ \E m \in 1 .. Len(f) : f[m].score = g /\ u[n].count = f[m].count + 1
                         \/ u[n].count = 1 /\ \A m \in 1 .. Len(f) : f[m].score # g
  /\ \A n \in 1 .. Len(u) :
       u[n].score # g =>
         \E m \in 1 .. Len(f) : f[m].score = u[n].score /\ u[n].count = f[m].count

LEMMA BucketType ==
  ASSUME NEW f \in Seq(Buckets)
  PROVE  Len(f) \in Nat /\ \A n \in 1 .. Len(f) : f[n].score \in Int /\ f[n].count \in Nat
<1>1. Len(f) \in Nat /\ \A n \in 1 .. Len(f) : f[n] \in Buckets
  OBVIOUS
<1> QED BY <1>1 DEF Buckets

LEMMA CountIs ==
  ASSUME NEW f \in Seq(Buckets), NEW g \in Int, Ascends(f)
  PROVE  Inserted(count_score(f, g), f, g)
<1> DEFINE at == SelectInSeq(f, LAMBDA b : b.score >= g)
<1>1. /\ at \in 0 .. Len(f)
      /\ at = 0 => \A i \in 1 .. Len(f) : f[i].score < g
      /\ at # 0 => f[at].score >= g /\ \A i \in 1 .. at - 1 : f[i].score < g
  BY SelectIs
<1>2. Bucket(g) \in Buckets /\ Bucket(g).score = g /\ Bucket(g).count = 1
  BY DEF Bucket, Buckets
<1>3. count_score(f, g) =
        CASE at = 0 -> Append(f, Bucket(g))
          [] at # 0 /\ f[at].score = g -> [f EXCEPT ![at].count = @ + 1]
          [] OTHER -> InsertAt(f, at, Bucket(g))
  BY DEF count_score
<1> HIDE DEF at
<1>4. PICK L \in Nat : L = Len(f) /\ \A n \in 1 .. L : f[n].score \in Int /\ f[n].count \in Nat
  BY BucketType
<1>5. PICK b \in Buckets : b = Bucket(g)
  BY <1>2
<1>6. PICK u : u = count_score(f, g) /\ u \in Seq(Buckets)
  BY CountType
<1>7. CASE at = 0
  <2>1. Len(u) = L + 1 /\ u[L + 1] = b /\ \A n \in 1 .. L : u[n] = f[n]
    BY <1>3, <1>4, <1>5, <1>6, <1>7
  <2>2. \A n \in 1 .. L : f[n].score < g
    BY <1>1, <1>4, <1>7
  <2>3. Ascends(u)
    <3> SUFFICES ASSUME NEW i \in 1 .. L + 1, NEW j \in 1 .. L + 1, i < j
                 PROVE  u[i].score < u[j].score
      BY <2>1 DEF Ascends
    <3>1. i \in 1 .. L /\ u[i] = f[i]
      BY <2>1
    <3>2. CASE j = L + 1
      BY <1>2, <1>5, <2>1, <2>2, <3>1, <3>2
    <3>3. CASE j # L + 1
      <4>1. j \in 1 .. L /\ u[j] = f[j]
        BY <2>1, <3>3
      <4> QED BY <1>4, <3>1, <4>1 DEF Ascends
    <3> QED BY <3>2, <3>3
  <2>4. \E n \in 1 .. Len(u) : u[n].score = g
    BY <1>2, <1>5, <2>1
  <2>5. \A m \in 1 .. L : m \in 1 .. Len(u) /\ u[m].score = f[m].score
    BY <2>1
  <2>6. \A n \in 1 .. Len(u) : u[n].score = g => u[n].count = 1
    BY <1>2, <1>4, <1>5, <2>1, <2>2
  <2>7. \A m \in 1 .. L : f[m].score # g
    BY <1>4, <2>2
  <2>8. \A n \in 1 .. Len(u) : u[n].score # g => n \in 1 .. L /\ u[n] = f[n]
    BY <1>2, <1>5, <2>1
  <2> QED BY <1>4, <1>6, <2>3, <2>4, <2>5, <2>6, <2>7, <2>8 DEF Inserted
<1>8. CASE at # 0 /\ f[at].score = g
  <2>0. at \in 1 .. L
    BY <1>1, <1>4, <1>8
  <2>1. PICK c \in Buckets : c = f[at] /\ c.score = g
    BY <1>4, <1>8, <2>0
  <2>2. u = [f EXCEPT ![at] = [c EXCEPT !.count = c.count + 1]]
    BY <1>3, <1>6, <1>8, <2>1
  <2>3. PICK e : e = [c EXCEPT !.count = c.count + 1]
    OBVIOUS
  <2>4. e.score = g /\ e.count = c.count + 1
    BY <2>1, <2>3 DEF Buckets
  <2>5. Len(u) = L /\ u[at] = e /\ \A n \in 1 .. L : n # at => u[n] = f[n]
    BY <1>4, <2>0, <2>2, <2>3
  <2>6. \A n \in 1 .. L : u[n].score = f[n].score
    BY <1>8, <2>4, <2>5
  <2>7. Ascends(u)
    BY <1>4, <2>5, <2>6 DEF Ascends
  <2>8. \E n \in 1 .. Len(u) : u[n].score = g
    BY <2>0, <2>4, <2>5
  <2>9. \A n \in 1 .. L : u[n].score = g => n = at
    <3> SUFFICES ASSUME NEW n \in 1 .. L, f[n].score = g PROVE n = at
      BY <2>6
    <3>1. ~(n < at) /\ ~(at < n)
      BY <1>4, <1>8, <2>0 DEF Ascends
    <3> QED BY <2>0, <3>1
  <2>10. \A n \in 1 .. L : u[n].score = g => f[at].score = g /\ u[n].count = f[at].count + 1
    BY <1>8, <2>1, <2>4, <2>5, <2>9
  <2>11. \A n \in 1 .. L : u[n].score # g => u[n] = f[n]
    BY <2>4, <2>5
  <2>12. \A n \in 1 .. L : u[n].score = g =>
           \E m \in 1 .. L : f[m].score = g /\ u[n].count = f[m].count + 1
    BY <2>0, <2>10
  <2>13. \A n \in 1 .. L : u[n].score # g =>
           \E m \in 1 .. L : f[m].score = u[n].score /\ u[n].count = f[m].count
    BY <2>11
  <2>14. \A m \in 1 .. L : \E n \in 1 .. L : u[n].score = f[m].score
    BY <2>6
  <2>15. 1 .. Len(u) = 1 .. L /\ 1 .. Len(f) = 1 .. L
    BY <1>4, <2>5
  <2>16. \A m \in 1 .. Len(f) : \E n \in 1 .. Len(u) : u[n].score = f[m].score
    BY <2>14, <2>15
  <2>17. \A n \in 1 .. Len(u) : u[n].score = g =>
           \E m \in 1 .. Len(f) : f[m].score = g /\ u[n].count = f[m].count + 1
    BY <2>12, <2>15
  <2>18. \A n \in 1 .. Len(u) : u[n].score # g =>
           \E m \in 1 .. Len(f) : f[m].score = u[n].score /\ u[n].count = f[m].count
    BY <2>13, <2>15
  <2>19. Inserted(u, f, g)
    BY <1>6, <2>7, <2>8, <2>16, <2>17, <2>18 DEF Inserted
  <2> QED BY <1>6, <2>19
<1>9. CASE at # 0 /\ f[at].score # g
  <2>0. at \in 1 .. L /\ f[at].score > g /\ \A i \in 1 .. at - 1 : f[i].score < g
    BY <1>1, <1>4, <1>9
  <2>1. /\ Len(u) = L + 1 /\ u[at] = b
        /\ \A i \in 1 .. at - 1 : u[i] = f[i]
        /\ \A i \in at + 1 .. L + 1 : u[i] = f[i - 1]
    <3>1. u = InsertAt(f, at, b)
      BY <1>3, <1>5, <1>6, <1>9
    <3>2. at \in 1 .. Len(f)
      BY <1>4, <2>0
    <3>3. /\ Len(InsertAt(f, at, b)) = Len(f) + 1
          /\ \A i \in 1 .. at - 1 : InsertAt(f, at, b)[i] = f[i]
          /\ InsertAt(f, at, b)[at] = b
          /\ \A i \in at + 1 .. Len(f) + 1 : InsertAt(f, at, b)[i] = f[i - 1]
      BY <3>2, InsertType
    <3> QED BY <1>4, <3>1, <3>3
  <2>2. \A i \in at .. L : f[i].score > g
    <3> SUFFICES ASSUME NEW i \in at .. L PROVE f[i].score > g
      OBVIOUS
    <3>1. CASE i = at
      BY <2>0, <3>1
    <3>2. CASE i # at
      <4>1. f[at].score < f[i].score
        BY <1>4, <2>0, <3>2 DEF Ascends
      <4> QED BY <1>4, <2>0, <4>1
    <3> QED BY <3>1, <3>2
  <2>3. b.score = g /\ b.count = 1
    BY <1>2, <1>5
  <2>4. Ascends(u)
    <3> SUFFICES ASSUME NEW i \in 1 .. L + 1, NEW j \in 1 .. L + 1, i < j
                 PROVE  u[i].score < u[j].score
      BY <2>1 DEF Ascends
    <3>1. CASE j < at
      <4>1. u[i] = f[i] /\ u[j] = f[j] /\ i \in 1 .. L /\ j \in 1 .. L
        BY <2>0, <2>1, <3>1
      <4> QED BY <1>4, <4>1 DEF Ascends
    <3>2. CASE j = at
      <4>1. u[i] = f[i] /\ i \in 1 .. at - 1
        BY <2>0, <2>1, <3>2
      <4> QED BY <2>0, <2>1, <2>3, <3>2, <4>1
    <3>3. CASE j > at /\ i < at
      <4>1. u[i] = f[i] /\ u[j] = f[j - 1] /\ i \in 1 .. at - 1 /\ j - 1 \in at .. L
        BY <2>0, <2>1, <3>3
      <4>2. f[i].score < g /\ g < f[j - 1].score /\ f[i].score \in Int /\ f[j - 1].score \in Int
        BY <1>4, <2>0, <2>2, <4>1
      <4> QED BY <4>1, <4>2
    <3>4. CASE j > at /\ i = at
      <4>1. u[j] = f[j - 1] /\ j - 1 \in at .. L
        BY <2>0, <2>1, <3>4
      <4>2. g < f[j - 1].score
        BY <1>4, <2>0, <2>2, <4>1
      <4> QED BY <2>1, <2>3, <3>4, <4>1, <4>2
    <3>5. CASE i > at
      <4>1. u[i] = f[i - 1] /\ u[j] = f[j - 1] /\ i - 1 \in 1 .. L /\ j - 1 \in 1 .. L
            /\ i - 1 < j - 1
        BY <2>0, <2>1, <3>5
      <4> QED BY <1>4, <4>1 DEF Ascends
    <3> QED BY <2>0, <3>1, <3>2, <3>3, <3>4, <3>5
  <2>5. \E n \in 1 .. Len(u) : u[n].score = g
    BY <2>0, <2>1, <2>3
  <2>6. \A m \in 1 .. L : f[m].score # g
    BY <1>4, <2>0, <2>2
  <2>7. ASSUME NEW m \in 1 .. L PROVE \E n \in 1 .. Len(u) : u[n].score = f[m].score
    <3>1. CASE m < at
      <4>1. m \in 1 .. Len(u) /\ u[m] = f[m]
        BY <2>0, <2>1, <3>1
      <4> QED BY <4>1
    <3>2. CASE m >= at
      <4>1. m + 1 \in 1 .. Len(u) /\ u[m + 1] = f[m]
        BY <2>0, <2>1, <3>2
      <4> QED BY <4>1
    <3> QED BY <2>0, <3>1, <3>2
  <2>8. ASSUME NEW n \in 1 .. Len(u), u[n].score # g
        PROVE  \E m \in 1 .. L : f[m].score = u[n].score /\ u[n].count = f[m].count
    <3>1. n # at
      BY <2>1, <2>3, <2>8
    <3>2. CASE n < at
      <4>1. n \in 1 .. L /\ u[n] = f[n]
        BY <2>0, <2>1, <3>2
      <4> QED BY <4>1
    <3>3. CASE n > at
      <4>1. n - 1 \in 1 .. L /\ u[n] = f[n - 1]
        BY <2>0, <2>1, <3>3
      <4> QED BY <4>1
    <3> QED BY <2>0, <2>1, <3>1, <3>2, <3>3
  <2>9. ASSUME NEW n \in 1 .. Len(u), u[n].score = g PROVE u[n].count = 1
    <3>1. CASE n = at
      BY <2>1, <2>3, <3>1
    <3>2. CASE n < at
      <4>1. n \in 1 .. L /\ u[n] = f[n]
        BY <2>0, <2>1, <3>2
      <4> QED BY <2>6, <2>9, <4>1
    <3>3. CASE n > at
      <4>1. n - 1 \in 1 .. L /\ u[n] = f[n - 1]
        BY <2>0, <2>1, <3>3
      <4> QED BY <2>6, <2>9, <4>1
    <3> QED BY <2>0, <2>1, <3>1, <3>2, <3>3
  <2> QED BY <1>4, <1>6, <2>4, <2>5, <2>6, <2>7, <2>8, <2>9 DEF Inserted
<1> QED BY <1>6, <1>7, <1>8, <1>9
-----------------------------------------------------------------------------
(* A table of a set of scores.                                             *)

\* The scores with a grade, and those below it.
Equal(S, v) == {x \in S : Grade(x) = v}
Below(S, v) == {x \in S : Grade(x) < v}

Graded(S) == IsFiniteSet(S) /\ \A x \in S : Grade(x) \in Int

Tabled(f, S) ==
  /\ f \in Seq(Buckets) /\ Ascends(f)
  /\ \A x \in S : \E n \in 1 .. Len(f) : f[n].score = Grade(x)
  /\ \A n \in 1 .. Len(f) : /\ f[n].count = Cardinality(Equal(S, f[n].score))
                            /\ Equal(S, f[n].score) # {}

LEMMA TabledEmpty == Tabled(<< >>, {})
<1>1. << >> \in Seq(Buckets) /\ Len(<< >>) = 0
  OBVIOUS
<1> QED BY <1>1 DEF Tabled, Ascends

\* U is S with one more score x.
OneMore(U, S, x) ==
  /\ Graded(U) /\ Cardinality(U) = Cardinality(S) + 1
  /\ \A v : v # Grade(x) => Equal(U, v) = Equal(S, v)
  /\ \A v : v = Grade(x) => Equal(U, v) = Equal(S, v) \cup {x}
  /\ \A v : v = Grade(x) => Cardinality(Equal(U, v)) = Cardinality(Equal(S, v)) + 1

LEMMA GradedAdd ==
  ASSUME NEW S, Graded(S), NEW x, Grade(x) \in Int, x \notin S
  PROVE  OneMore(S \cup {x}, S, x)
<1>1. Graded(S \cup {x}) /\ Cardinality(S \cup {x}) = Cardinality(S) + 1
  BY FS_AddElement DEF Graded
<1>2. \A v : v # Grade(x) => Equal(S \cup {x}, v) = Equal(S, v)
  BY DEF Equal
<1>3. \A v : v = Grade(x) => Equal(S \cup {x}, v) = Equal(S, v) \cup {x}
  BY DEF Equal
<1>4. \A v : IsFiniteSet(Equal(S, v)) /\ x \notin Equal(S, v)
  <2> TAKE v
  <2>1. Equal(S, v) \in SUBSET S
    BY DEF Equal
  <2> QED BY <2>1, FS_Subset DEF Graded
<1>5. \A v : Cardinality(Equal(S, v) \cup {x}) = Cardinality(Equal(S, v)) + 1
  BY <1>4, FS_AddElement
<1>6. \A v : v = Grade(x) => Cardinality(Equal(S \cup {x}, v)) = Cardinality(Equal(S, v)) + 1
  BY <1>3, <1>5
<1> QED BY <1>1, <1>2, <1>3, <1>6 DEF OneMore

\* count_score keeps the table.
LEMMA TabledAdd ==
  ASSUME NEW S, Graded(S), NEW x, Grade(x) \in Int, x \notin S, NEW f, Tabled(f, S)
  PROVE  Tabled(count_score(f, Grade(x)), S \cup {x})
<1>1. PICK g \in Int : g = Grade(x)
  OBVIOUS
<1>2. PICK u : u = count_score(f, g)
  OBVIOUS
<1>3. Inserted(u, f, g)
  BY <1>2, CountIs DEF Tabled
<1>4. PICK U : U = S \cup {x}
  OBVIOUS
<1>5. \A v : /\ v # g => Equal(U, v) = Equal(S, v)
             /\ v = g => /\ Equal(U, v) = Equal(S, v) \cup {x}
                         /\ Cardinality(Equal(U, v)) = Cardinality(Equal(S, v)) + 1
  <2>1. OneMore(U, S, x)
    BY <1>4, GradedAdd
  <2> QED BY <1>1, <2>1 DEF OneMore
<1>6. ASSUME NEW y \in U PROVE \E n \in 1 .. Len(u) : u[n].score = Grade(y)
  <2>1. CASE y \in S
    <3>1. PICK m \in 1 .. Len(f) : f[m].score = Grade(y)
      BY <2>1 DEF Tabled
    <3> QED BY <1>3, <3>1 DEF Inserted
  <2>2. CASE y = x
    BY <1>1, <1>3, <2>2 DEF Inserted
  <2> QED BY <1>4, <2>1, <2>2
<1>7. ASSUME NEW n \in 1 .. Len(u)
      PROVE  u[n].count = Cardinality(Equal(U, u[n].score)) /\ Equal(U, u[n].score) # {}
  <2>1. CASE u[n].score # g
    <3>1. PICK m \in 1 .. Len(f) : f[m].score = u[n].score /\ u[n].count = f[m].count
      BY <1>3, <2>1 DEF Inserted
    <3>2. f[m].count = Cardinality(Equal(S, f[m].score)) /\ Equal(S, f[m].score) # {}
      BY DEF Tabled
    <3> QED BY <1>5, <2>1, <3>1, <3>2
  <2>2. CASE u[n].score = g
    <3>1. /\ Equal(U, g) = Equal(S, g) \cup {x}
          /\ Cardinality(Equal(U, g)) = Cardinality(Equal(S, g)) + 1
      BY <1>5
    <3>2. CASE \E m \in 1 .. Len(f) : f[m].score = g /\ u[n].count = f[m].count + 1
      <4>1. PICK m \in 1 .. Len(f) : f[m].score = g /\ u[n].count = f[m].count + 1
        BY <3>2
      <4>2. f[m].count = Cardinality(Equal(S, g))
        BY <4>1 DEF Tabled
      <4> QED BY <2>2, <3>1, <4>1, <4>2
    <3>3. CASE u[n].count = 1 /\ \A m \in 1 .. Len(f) : f[m].score # g
      <4>1. Equal(S, g) = {}
        <5>1. ASSUME NEW y \in S, Grade(y) = g PROVE FALSE
          <6>1. PICK m \in 1 .. Len(f) : f[m].score = Grade(y)
            BY DEF Tabled
          <6> QED BY <3>3, <5>1, <6>1
        <5> QED BY <5>1 DEF Equal
      <4>2. Cardinality(Equal(U, g)) = 0 + 1
        BY <3>1, <4>1, FS_EmptySet
      <4> QED BY <2>2, <3>1, <3>3, <4>2
    <3> QED BY <1>3, <2>2, <3>2, <3>3 DEF Inserted
  <2> QED BY <2>1, <2>2
<1>8. u \in Seq(Buckets) /\ Ascends(u)
  BY <1>3 DEF Inserted
<1>9. Tabled(u, U)
  BY <1>6, <1>7, <1>8 DEF Tabled
<1> QED BY <1>1, <1>2, <1>4, <1>9

\* The counts of the buckets in front add up to the scores below.
FrontCounts(f, S, n) ==
  /\ Total([m \in 1 .. n - 1 |-> f[m].count]) = Cardinality(Below(S, f[n].score))
  /\ Cardinality(Below(S, f[n].score)) + f[n].count =
       Cardinality({x \in S : Grade(x) <= f[n].score})

LEMMA TabledLess ==
  ASSUME NEW S, Graded(S), NEW f, Tabled(f, S), NEW n \in 1 .. Len(f)
  PROVE  FrontCounts(f, S, n)
<1>0. PICK L \in Nat : L = Len(f) /\ \A i \in 1 .. L : f[i].score \in Int /\ f[i].count \in Nat
  BY BucketType DEF Tabled
<1> DEFINE part(i) == [m \in 1 .. i - 1 |-> f[m].count]
           T == {i \in 0 .. L : i = 0 \/ Total(part(i)) = Cardinality(Below(S, f[i].score))}
<1>1. \A v : IsFiniteSet(Below(S, v)) /\ IsFiniteSet(Equal(S, v))
             /\ Cardinality(Below(S, v)) \in Nat
  <2> TAKE v
  <2>1. Below(S, v) \in SUBSET S /\ Equal(S, v) \in SUBSET S
    BY DEF Below, Equal
  <2> QED BY <2>1, FS_Subset, FS_CardinalityType DEF Graded
<1>2. \A v \in Int : /\ Below(S, v) \cap Equal(S, v) = {}
                     /\ Cardinality(Below(S, v) \cup Equal(S, v)) =
                          Cardinality(Below(S, v)) + Cardinality(Equal(S, v))
  <2> TAKE v \in Int
  <2>1. Below(S, v) \cap Equal(S, v) = {}
    BY DEF Below, Equal, Graded
  <2>2. Cardinality(Below(S, v) \cup Equal(S, v)) =
          Cardinality(Below(S, v)) + Cardinality(Equal(S, v)) - 0
    BY <1>1, <2>1, FS_Union, FS_EmptySet
  <2>3. Cardinality(Below(S, v)) \in Nat /\ Cardinality(Equal(S, v)) \in Nat
    BY <1>1, FS_CardinalityType
  <2> QED BY <2>1, <2>2, <2>3
<1>3. \A i \in 1 .. L : part(i) \in Seq(Int) /\ Len(part(i)) = i - 1
  <2> TAKE i \in 1 .. L
  <2>1. i - 1 \in Nat /\ \A m \in 1 .. i - 1 : f[m].count \in Int
    BY <1>0
  <2> QED BY <2>1
<1>4. 0 \in T
  OBVIOUS
<1>5. ASSUME NEW i \in 1 .. L, i - 1 \in T PROVE i \in T
  <2>1. CASE i = 1
    <3>1. Below(S, f[1].score) = {}
      <4>1. ASSUME NEW x \in S, Grade(x) < f[1].score PROVE FALSE
        <5>1. PICK m \in 1 .. L : f[m].score = Grade(x)
          BY <1>0 DEF Tabled
        <5>2. m = 1 \/ f[1].score < f[m].score
          BY <1>0 DEF Tabled, Ascends
        <5> QED BY <1>0, <4>1, <5>1, <5>2
      <4> QED BY <4>1 DEF Below
    <3>2. Total(part(1)) = 0
      <4>1. part(1) \in Seq(Int) /\ \A k \in 1 .. Len(part(1)) : part(1)[k] = 0
        <5>1. 1 .. 1 - 1 = {} /\ part(1) = << >>
          OBVIOUS
        <5> QED BY <1>0, <1>3, <2>1, <5>1
      <4> HIDE DEF part
      <4> QED BY <4>1, TotalZero
    <3> QED BY <2>1, <3>1, <3>2, FS_EmptySet
  <2>2. CASE i # 1
    <3>1. i - 1 \in 1 .. L /\ Total(part(i - 1)) = Cardinality(Below(S, f[i - 1].score))
      BY <1>0, <1>5, <2>2
    <3>2. Total(part(i)) = Total(part(i - 1)) + f[i - 1].count
      <4>1. PICK p \in Seq(Int) : p = part(i - 1) /\ Len(p) = i - 2
        <5>1. i - 1 - 1 = i - 2
          OBVIOUS
        <5> HIDE DEF part
        <5> QED BY <1>3, <3>1, <5>1
      <4>2. PICK c \in Int : c = f[i - 1].count
        BY <1>0, <3>1
      <4>3. part(i) = Append(p, c)
        <5>1. part(i) \in Seq(Int) /\ Len(part(i)) = i - 1
          BY <1>0, <1>3
        <5>2. Append(p, c) \in Seq(Int) /\ Len(Append(p, c)) = i - 1
          <6>1. Append(p, c) \in Seq(Int) /\ Len(Append(p, c)) = Len(p) + 1
            BY AppendProperties
          <6>2. (i - 2) + 1 = i - 1
            OBVIOUS
          <6> QED BY <4>1, <6>1, <6>2
        <5>3. ASSUME NEW k \in 1 .. i - 1 PROVE part(i)[k] = Append(p, c)[k]
          <6>1. part(i)[k] = f[k].count
            OBVIOUS
          <6>2. CASE k = i - 1
            BY <4>1, <4>2, <6>1, <6>2
          <6>3. CASE k # i - 1
            <7>1. k \in 1 .. i - 2 /\ k \in 1 .. (i - 1) - 1
              BY <6>3
            <7>2. p[k] = f[k].count
              BY <4>1, <7>1
            <7> QED BY <4>1, <4>2, <6>1, <7>1, <7>2
          <6> QED BY <6>2, <6>3
        <5> HIDE DEF part
        <5> QED BY <5>1, <5>2, <5>3, SeqEqual
      <4> HIDE DEF part
      <4>4. Total(Append(p, c)) = Total(p) + c
        BY TotalAppend
      <4> QED BY <4>1, <4>2, <4>3, <4>4
    <3>3. PICK v \in Int, w \in Int : v = f[i - 1].score /\ w = f[i].score /\ v < w
      BY <1>0, <3>1 DEF Tabled, Ascends
    <3>4. Below(S, w) = Below(S, v) \cup Equal(S, v)
      <4>1. ASSUME NEW x \in S, Grade(x) < w PROVE Grade(x) <= v
        <5>1. PICK m \in 1 .. L : f[m].score = Grade(x)
          BY <1>0 DEF Tabled
        <5>2. m < i
          <6>1. i = m \/ ~(i < m)
            BY <1>0, <3>3, <4>1, <5>1 DEF Tabled, Ascends
          <6>2. m # i
            BY <1>0, <3>3, <4>1, <5>1
          <6> QED BY <1>0, <6>1, <6>2
        <5>3. m = i - 1 \/ f[m].score < v
          BY <1>0, <3>1, <3>3, <5>2 DEF Tabled, Ascends
        <5> QED BY <1>0, <3>3, <5>1, <5>3
      <4>2. \A x \in S : Grade(x) \in Int
        BY DEF Graded
      <4> QED BY <3>3, <4>1, <4>2 DEF Below, Equal
    <3>5. f[i - 1].count = Cardinality(Equal(S, v))
      BY <1>0, <3>1, <3>3 DEF Tabled
    <3>6. Cardinality(Below(S, w)) = Cardinality(Below(S, v)) + Cardinality(Equal(S, v))
      BY <1>2, <3>4
    <3> HIDE DEF part
    <3>7. Total(part(i)) = Cardinality(Below(S, f[i].score))
      BY <3>1, <3>2, <3>3, <3>5, <3>6
    <3> QED BY <3>7
  <2> QED BY <2>1, <2>2
<1> HIDE DEF T
<1>6. \A i \in 0 .. L : i \in T
  BY <1>4, <1>5, UpTo
<1>7. Total(part(n)) = Cardinality(Below(S, f[n].score))
  BY <1>0, <1>6 DEF T
<1>8. {x \in S : Grade(x) <= f[n].score} = Below(S, f[n].score) \cup Equal(S, f[n].score)
  BY <1>0 DEF Below, Equal, Graded
<1>9. f[n].count = Cardinality(Equal(S, f[n].score)) /\ f[n].score \in Int
  BY <1>0 DEF Tabled
<1> QED BY <1>2, <1>7, <1>8, <1>9 DEF FrontCounts
-----------------------------------------------------------------------------
(* The records while the scores are counted.                               *)

\* What the loops of stats.c have met before score k of student s.
Upto(a, g, s, k) ==
  {x \in Counted(a, g) : s = 0 \/ x[1] < s \/ (x[1] = s /\ x[2] < k)}

\* The class roster has the students in the order of their numbers.
Straight ==
  LET N == Len(course.students) IN
  Asgts # {} => /\ roster = (IF N = 0 THEN 0 ELSE 1)
                /\ \A j \in 1 .. N : cnext[j] = IF j = N THEN 0 ELSE j + 1

Unsummed(r) == r.valid = 0 /\ r.sum = 0 /\ r.sumsq = 0

\* The record r after do_freqs met the scores S,
Tallies(r, S) == Graded(S) /\ r.tallied = Cardinality(S) /\ Tabled(r.freqs, S)

\* after do_quantiles,
Cumulates(r, S) ==
  /\ Tallies(r, S)
  /\ \A n \in 1 .. Len(r.freqs) :
       LET b == r.freqs[n] IN
       /\ b.numless = Cardinality(Below(S, b.score))
       /\ b.numlesseq = Cardinality({x \in S : Grade(x) <= b.score})

\* and after do_sums did.
Adds(r, S, g) ==
  /\ Graded(S) /\ r.valid = Cardinality(S)
  /\ r.sum = SumIn(S, Itself) /\ r.sumsq = SumIn(S, Squared)
  /\ g = 0 /\ S # {} => /\ \E x \in S : r.min = Grade(x)
                        /\ \E x \in S : r.max = Grade(x)
                        /\ \A x \in S : r.min <= Grade(x) /\ Grade(x) <= r.max

\* The statistics of group g for assignment a.
ExactFor(a, g) ==
  LET r == stats[a][g]
      all == Counted(a, g)
      seen == Upto(a, g, cur[1], cur[2]) IN
  /\ pc = "links" => r = NewStats
  /\ pc = "freqs" => Tallies(r, seen) /\ Unsummed(r)
  /\ pc = "quantiles" => Tallies(r, all) /\ Unsummed(r)
  /\ pc = "sums" => Cumulates(r, all) /\ Adds(r, seen, g)
  /\ pc \in {"moments", "normalize"} => Cumulates(r, all) /\ Adds(r, all, g)

Exact ==
  /\ pc \in Counting => Straight
  /\ \A a \in Asgts : \A g \in Groups : ExactFor(a, g)

LEMMA CountedIs ==
  ASSUME IsCourse(course), NEW a, NEW g
  PROVE  /\ \A x \in Counted(a, g) :
              \E t \in Students : \E m \in 1 .. Len(Of(t).scores) : x = <<t, m>>
         /\ \A t \in Students : \A m \in 1 .. Len(Of(t).scores) :
              /\ <<t, m>> \in Counted(a, g) <=> /\ Of(t).scores[m].asgt = a
                                                /\ Tallied(Of(t).scores[m])
                                                /\ g \in {0, Of(t).section}
              /\ Grade(<<t, m>>) = Of(t).scores[m].grade
              /\ Grade(<<t, m>>) \in Int
<1>1. \A t \in Students : DOMAIN Of(t).scores = 1 .. Len(Of(t).scores)
  BY StudentType
<1>2. \A x : x \in Counted(a, g) <=>
               \E t \in Students : \E m \in 1 .. Len(Of(t).scores) :
                 /\ x = <<t, m>> /\ Of(t).scores[m].asgt = a
                 /\ Tallied(Of(t).scores[m]) /\ g \in {0, Of(t).section}
  BY <1>1 DEF Counted
<1>3. ASSUME NEW t \in Students, NEW m \in 1 .. Len(Of(t).scores)
      PROVE  /\ <<t, m>> \in Counted(a, g) <=> /\ Of(t).scores[m].asgt = a
                                               /\ Tallied(Of(t).scores[m])
                                               /\ g \in {0, Of(t).section}
             /\ Grade(<<t, m>>) = Of(t).scores[m].grade /\ Grade(<<t, m>>) \in Int
  <2>1. \A u, n : <<t, m>> = <<u, n>> => t = u /\ m = n
    OBVIOUS
  <2>2. Grade(<<t, m>>) = Of(t).scores[m].grade
    BY DEF Grade
  <2>3. Of(t).scores[m].grade \in Int
    BY StudentType, ScoreType
  <2>4. <<t, m>> \in Counted(a, g) <=> /\ Of(t).scores[m].asgt = a
                                       /\ Tallied(Of(t).scores[m])
                                       /\ g \in {0, Of(t).section}
    BY <1>2, <2>1
  <2> QED BY <2>2, <2>3, <2>4
<1>4. \A x \in Counted(a, g) :
        \E t \in Students : \E m \in 1 .. Len(Of(t).scores) : x = <<t, m>>
  BY <1>2
<1> QED BY <1>3, <1>4

\* The loops meet the scores one after the other.
LEMMA UptoStart ==
  ASSUME IsCourse(course), NEW a, NEW g
  PROVE  /\ Upto(a, g, 0, 1) = Counted(a, g)
         /\ Upto(a, g, 1, 1) = {}
         /\ Len(course.students) = 0 => Counted(a, g) = {}
<1>1. PICK N \in Nat : N = Len(course.students) /\ Students = 1 .. N
  BY CourseType
<1>2. ASSUME NEW x \in Counted(a, g) PROVE ~(1 = 0 \/ x[1] < 1 \/ (x[1] = 1 /\ x[2] < 1))
  <2>1. PICK t \in Students : \E m \in 1 .. Len(Of(t).scores) : x = <<t, m>>
    BY CountedIs
  <2>2. PICK m \in 1 .. Len(Of(t).scores) : x = <<t, m>>
    BY <2>1
  <2>3. x[1] = t /\ x[2] = m /\ t \in Nat \ {0} /\ m \in Nat \ {0}
    <3>1. Len(Of(t).scores) \in Nat
      BY StudentType
    <3> QED BY <1>1, <2>2, <3>1
  <2> QED BY <2>3
<1>3. Upto(a, g, 1, 1) = {}
  BY <1>2 DEF Upto
<1>4. Upto(a, g, 0, 1) = Counted(a, g)
  BY DEF Upto
<1>5. N = 0 => Counted(a, g) = {}
  BY <1>1, CountedIs
<1> QED BY <1>1, <1>3, <1>4, <1>5

\* U is S with the score y, if it is one of C.
Grown(U, S, y, C) ==
  /\ y \notin S
  /\ y \in C => U = S \cup {y}
  /\ y \notin C => U = S

LEMMA UptoStep ==
  ASSUME IsCourse(course), NEW a, NEW g, NEW s \in Students,
         NEW k \in 1 .. Len(Of(s).scores)
  PROVE  Grown(Upto(a, g, s, k + 1), Upto(a, g, s, k), <<s, k>>, Counted(a, g))
<1>1. s \in Nat \ {0} /\ k \in Nat
  <2>1. Len(Of(s).scores) \in Nat
    BY StudentType
  <2> QED BY <2>1, CourseType
<1>2. PICK y : y = <<s, k>> /\ y[1] = s /\ y[2] = k
  <2>1. <<s, k>>[1] = s /\ <<s, k>>[2] = k
    OBVIOUS
  <2> QED BY <2>1
<1>3. y \notin Upto(a, g, s, k)
  BY <1>1, <1>2 DEF Upto
<1>4. ASSUME NEW x \in Counted(a, g)
      PROVE  x \in Upto(a, g, s, k + 1) <=> (x \in Upto(a, g, s, k) \/ x = y)
  <2>1. PICK t \in Students : \E m \in 1 .. Len(Of(t).scores) : x = <<t, m>>
    BY CountedIs
  <2>2. PICK m \in 1 .. Len(Of(t).scores) : x = <<t, m>>
    BY <2>1
  <2>3. x[1] = t /\ x[2] = m /\ t \in Nat /\ m \in Nat
    <3>1. Len(Of(t).scores) \in Nat
      BY StudentType
    <3> QED BY <2>2, <3>1, CourseType
  <2>4. x = y <=> (t = s /\ m = k)
    BY <1>2, <2>2
  <2>5. m < k + 1 <=> (m < k \/ m = k)
    BY <1>1, <2>3
  <2> QED BY <1>1, <2>3, <2>4, <2>5 DEF Upto
<1>5. \A j : Upto(a, g, s, j) \subseteq Counted(a, g)
  BY DEF Upto
<1>6. ASSUME y \in Counted(a, g) PROVE Upto(a, g, s, k + 1) = Upto(a, g, s, k) \cup {y}
  <2>1. Upto(a, g, s, k + 1) \subseteq Upto(a, g, s, k) \cup {y}
    BY <1>4, <1>5
  <2>2. Upto(a, g, s, k) \cup {y} \subseteq Upto(a, g, s, k + 1)
    BY <1>4, <1>5, <1>6
  <2> QED BY <2>1, <2>2
<1>7. ASSUME y \notin Counted(a, g) PROVE Upto(a, g, s, k + 1) = Upto(a, g, s, k)
  <2>1. \A x \in Counted(a, g) : x # y
    BY <1>7
  <2>2. Upto(a, g, s, k + 1) \subseteq Upto(a, g, s, k)
    BY <1>4, <1>5, <2>1
  <2>3. Upto(a, g, s, k) \subseteq Upto(a, g, s, k + 1)
    BY <1>4, <1>5
  <2> QED BY <2>2, <2>3
<1> QED BY <1>2, <1>3, <1>6, <1>7 DEF Grown

LEMMA UptoTurn ==
  ASSUME IsCourse(course), NEW a, NEW g, NEW s \in Students, NEW k \in Nat,
         k > Len(Of(s).scores), NEW n,
         n = IF s = Len(course.students) THEN 0 ELSE s + 1
  PROVE  Upto(a, g, n, 1) = Upto(a, g, s, k)
<1>1. PICK N \in Nat : N = Len(course.students) /\ Students = 1 .. N
  BY CourseType
<1>2. ASSUME NEW x \in Counted(a, g)
      PROVE  (n = 0 \/ x[1] < n \/ (x[1] = n /\ x[2] < 1))
               <=> (s = 0 \/ x[1] < s \/ (x[1] = s /\ x[2] < k))
  <2>1. PICK t \in Students : \E m \in 1 .. Len(Of(t).scores) : x = <<t, m>>
    BY CountedIs
  <2>2. PICK m \in 1 .. Len(Of(t).scores) : x = <<t, m>>
    BY <2>1
  <2>3. x[1] = t /\ x[2] = m /\ t \in 1 .. N /\ m \in Nat \ {0} /\ Len(Of(t).scores) \in Nat
    <3>1. Len(Of(t).scores) \in Nat
      BY StudentType
    <3> QED BY <1>1, <2>2, <3>1
  <2>4. t = s => m < k
    BY <2>3
  <2>5. s \in 1 .. N /\ s # 0
    BY <1>1
  <2>6. CASE s = N
    <3>1. n = 0 /\ (t < s \/ t = s)
      BY <1>1, <2>3, <2>6
    <3> QED BY <2>3, <2>4, <3>1
  <2>7. CASE s # N
    <3>1. n = s + 1 /\ n # 0
      BY <1>1, <2>5, <2>7
    <3>2. t < s + 1 <=> (t < s \/ t = s)
      BY <2>3, <2>5
    <3>3. ~(m < 1)
      BY <2>3
    <3> QED BY <2>3, <2>4, <2>5, <3>1, <3>2, <3>3
  <2> QED BY <2>6, <2>7
<1> QED BY <1>2 DEF Upto
\* One score more, in do_freqs.
LEMMA TalliesAdd ==
  ASSUME NEW S, NEW x, Grade(x) \in Int, x \notin S, NEW r, NEW q,
         Tallies(r, S), Unsummed(r),
         q.freqs = count_score(r.freqs, Grade(x)), q.tallied = r.tallied + 1,
         q.valid = r.valid, q.sum = r.sum, q.sumsq = r.sumsq
  PROVE  Tallies(q, S \cup {x}) /\ Unsummed(q)
<1>1. Graded(S) /\ Tabled(r.freqs, S) /\ r.tallied = Cardinality(S)
  BY DEF Tallies
<1>2. Tabled(q.freqs, S \cup {x})
  BY <1>1, TabledAdd
<1>3. OneMore(S \cup {x}, S, x)
  BY <1>1, GradedAdd
<1> QED BY <1>1, <1>2, <1>3 DEF Tallies, Unsummed, OneMore

\* What AddScore does to the record r of group g for a score v.
Scored(q, r, v, g) ==
  /\ q.valid = r.valid + 1 /\ q.sum = r.sum + v /\ q.sumsq = r.sumsq + v * v
  /\ q.freqs = r.freqs /\ q.tallied = r.tallied
  /\ g = 0 => /\ q.min = IF r.valid = 0 \/ v < r.min THEN v ELSE r.min
              /\ q.max = IF r.valid = 0 \/ v > r.max THEN v ELSE r.max

\* And in do_sums.
LEMMA AddsAdd ==
  ASSUME IsCourse(course), NEW S, NEW s \in Students, NEW k \in 1 .. Len(Of(s).scores),
         <<s, k>> \notin S, NEW g, NEW r \in Records, NEW q, Adds(r, S, g),
         NEW v \in Int, v = Of(s).scores[k].grade, Scored(q, r, v, g)
  PROVE  Adds(q, S \cup {<<s, k>>}, g)
<1>0. PICK y : y = <<s, k>>
  OBVIOUS
<1>10. q.valid = r.valid + 1 /\ q.sum = r.sum + v /\ q.sumsq = r.sumsq + v * v
  BY DEF Scored
<1>1. Grade(y) = v
  BY <1>0, CountedIs
<1>2. Graded(S) /\ r.valid = Cardinality(S) /\ r.sum = SumIn(S, Itself)
      /\ r.sumsq = SumIn(S, Squared)
  BY DEF Adds
<1>3. PICK U : U = S \cup {y}
  OBVIOUS
<1>4. OneMore(U, S, y)
  BY <1>0, <1>1, <1>2, <1>3, GradedAdd
<1>5. q.sum = SumIn(U, Itself)
  <2>1. Itself \in [Int -> Int] /\ Itself[v] = v
    BY DEF Itself
  <2>2. SumIn(U, Itself) = SumIn(S, Itself) + Itself[v]
    BY <1>0, <1>3, <2>1, SumAdd, ZenonT(30)
  <2> QED BY <1>10, <1>2, <2>1, <2>2
<1>6. q.sumsq = SumIn(U, Squared)
  <2>1. Squared \in [Int -> Int] /\ Squared[v] = v * v
    BY DEF Squared
  <2>2. SumIn(U, Squared) = SumIn(S, Squared) + Squared[v]
    BY <1>0, <1>3, <2>1, SumAdd
  <2> QED BY <1>10, <1>2, <2>1, <2>2
<1>7. ASSUME g = 0
      PROVE  /\ \E x \in U : q.min = Grade(x)
             /\ \E x \in U : q.max = Grade(x)
             /\ \A x \in U : q.min <= Grade(x) /\ Grade(x) <= q.max
  <2>0. /\ q.min = (IF r.valid = 0 \/ v < r.min THEN v ELSE r.min)
        /\ q.max = (IF r.valid = 0 \/ v > r.max THEN v ELSE r.max)
        /\ r.min \in Int /\ r.max \in Int
    BY <1>7 DEF Records, Scored
  <2>1. CASE S = {}
    <3>1. r.valid = 0 /\ U = {y}
      BY <1>2, <1>3, <2>1, FS_EmptySet
    <3> QED BY <1>1, <2>0, <3>1
  <2>2. CASE S # {}
    <3>1. r.valid # 0
      BY <1>2, <2>2, FS_EmptySet DEF Graded
    <3>2. PICK l \in S : r.min = Grade(l)
      BY <1>7, <2>2 DEF Adds
    <3>3. PICK h \in S : r.max = Grade(h)
      BY <1>7, <2>2 DEF Adds
    <3>4. \A x \in S : r.min <= Grade(x) /\ Grade(x) <= r.max /\ Grade(x) \in Int
      BY <1>2, <1>7, <2>2 DEF Adds, Graded
    <3>5. \E x \in U : q.min = Grade(x)
      BY <1>1, <1>3, <2>0, <3>1, <3>2
    <3>6. \E x \in U : q.max = Grade(x)
      BY <1>1, <1>3, <2>0, <3>1, <3>3
    <3>7. q.min \in Int /\ q.max \in Int /\ q.min <= v /\ v <= q.max
          /\ q.min <= r.min /\ r.max <= q.max
      BY <2>0, <3>1
    <3>8. \A x \in S : q.min <= Grade(x) /\ Grade(x) <= q.max
      BY <2>0, <3>4, <3>7
    <3> QED BY <1>1, <1>3, <3>5, <3>6, <3>7, <3>8
  <2> QED BY <2>1, <2>2
<1>8. Graded(U) /\ q.valid = Cardinality(U)
  BY <1>10, <1>2, <1>4 DEF OneMore
<1>9. Adds(q, U, g)
  BY <1>5, <1>6, <1>7, <1>8 DEF Adds
<1> QED BY <1>0, <1>3, <1>9

\* Cumulated, in do_quantiles.
LEMMA CumulatesIs ==
  ASSUME NEW S, NEW r \in Records, Tallies(r, S), NEW q,
         q.freqs = Cumulated(r.freqs), q.tallied = r.tallied
  PROVE  Cumulates(q, S)
<1>1. PICK f \in Seq(Buckets) : f = r.freqs /\ Tabled(f, S)
  BY DEF Tallies, Tabled
<1>2. PICK c \in Seq(Buckets) : c = Cumulated(f) /\ Len(c) = Len(f)
  BY CumulatedType
<1>3. PICK L \in Nat : L = Len(f)
  OBVIOUS
<1>4. ASSUME NEW n \in 1 .. L
      PROVE  /\ c[n].score = f[n].score /\ c[n].count = f[n].count
             /\ c[n].numless = Cardinality(Below(S, f[n].score))
             /\ c[n].numlesseq = Cardinality({x \in S : Grade(x) <= f[n].score})
  <2>1. /\ c[n].score = f[n].score /\ c[n].count = f[n].count
        /\ c[n].numless = Total([m \in 1 .. n - 1 |-> f[m].count])
        /\ c[n].numlesseq = Total([m \in 1 .. n - 1 |-> f[m].count]) + f[n].count
    BY <1>2, <1>3, CumulatedType
  <2>2. /\ Total([m \in 1 .. n - 1 |-> f[m].count]) = Cardinality(Below(S, f[n].score))
        /\ Cardinality(Below(S, f[n].score)) + f[n].count =
              Cardinality({x \in S : Grade(x) <= f[n].score})
    <3>1. Graded(S) /\ n \in 1 .. Len(f)
      BY <1>3 DEF Tallies
    <3>2. FrontCounts(f, S, n)
      BY <1>1, <3>1, TabledLess
    <3> QED BY <3>2 DEF FrontCounts
  <2> QED BY <2>1, <2>2
<1>5. Tabled(c, S)
  <2>1. Ascends(c)
    <3> SUFFICES ASSUME NEW i \in 1 .. L, NEW j \in 1 .. L, i < j
                 PROVE  c[i].score < c[j].score
      BY <1>2, <1>3 DEF Ascends
    <3>1. f[i].score < f[j].score
      BY <1>1, <1>3 DEF Tabled, Ascends
    <3> QED BY <1>4, <3>1
  <2>2. \A x \in S : \E n \in 1 .. L : c[n].score = Grade(x)
    BY <1>1, <1>3, <1>4, ZenonT(30) DEF Tabled
  <2>3. \A n \in 1 .. L : /\ c[n].count = Cardinality(Equal(S, c[n].score))
                          /\ Equal(S, c[n].score) # {}
    BY <1>1, <1>3, <1>4 DEF Tabled
  <2> QED BY <1>2, <1>3, <2>1, <2>2, <2>3 DEF Tabled
<1>6. Tallies(q, S)
  BY <1>1, <1>2, <1>5 DEF Tallies
<1>7. q.freqs = c
  BY <1>1, <1>2
<1> QED BY <1>2, <1>3, <1>4, <1>6, <1>7 DEF Cumulates

LEMMA AddsEmpty ==
  ASSUME IsCourse(course), NEW r, Unsummed(r), NEW g
  PROVE  Adds(r, {}, g)
<1>1. Itself \in [Int -> Int] /\ Squared \in [Int -> Int]
  BY DEF Itself, Squared
<1>2. SumIn({}, Itself) = 0 /\ SumIn({}, Squared) = 0
  BY <1>1, SumEmpty
<1>3. Graded({}) /\ Cardinality({}) = 0
  BY FS_EmptySet DEF Graded
<1> QED BY <1>2, <1>3 DEF Adds, Unsummed

\* What Tally and AddScore do to one record.
LEMMA TallyIs ==
  ASSUME IsCourse(course), StatsType, NEW x \in Scores(course.asgts), NEW section,
         NEW a \in Asgts, NEW g \in Groups
  PROVE  LET r == stats[a][g]
             q == Tally(x, section)[a][g] IN
         /\ ~(a = x.asgt /\ g \in {0, section}) => q = r
         /\ a = x.asgt /\ g \in {0, section} =>
              /\ q.freqs = count_score(r.freqs, x.grade) /\ q.tallied = r.tallied + 1
              /\ q.valid = r.valid /\ q.sum = r.sum /\ q.sumsq = r.sumsq
<1>1. PICK r \in Records : r = stats[a][g]
  BY RecordType
<1>2. PICK q : q = Tally(x, section)[a][g]
  OBVIOUS
<1>3. q = IF a = x.asgt /\ g \in {0, section}
          THEN [r EXCEPT !.freqs = count_score(r.freqs, x.grade), !.tallied = r.tallied + 1]
          ELSE r
  BY <1>1, <1>2, ScoreType DEF Tally, StatsType
<1>4. a = x.asgt /\ g \in {0, section} =>
        /\ q.freqs = count_score(r.freqs, x.grade) /\ q.tallied = r.tallied + 1
        /\ q.valid = r.valid /\ q.sum = r.sum /\ q.sumsq = r.sumsq
  BY <1>3 DEF Records
<1> QED BY <1>1, <1>2, <1>3, <1>4

(* The record q is r with one more score counted.                           *)
Bumped(q, r, grade) ==
    /\ q.freqs = count_score(r.freqs, grade) /\ q.tallied = r.tallied + 1
    /\ q.valid = r.valid /\ q.sum = r.sum /\ q.sumsq = r.sumsq

LEMMA TallyHits ==
  ASSUME IsCourse(course), StatsType, NEW x \in Scores(course.asgts), NEW section,
         NEW a \in Asgts, NEW g \in Groups, a = x.asgt, g \in {0, section},
         NEW r, r = stats[a][g], NEW q, q = Tally(x, section)[a][g]
  PROVE  Bumped(q, r, x.grade)
<1>1. /\ q.freqs = count_score(r.freqs, x.grade) /\ q.tallied = r.tallied + 1
      /\ q.valid = r.valid /\ q.sum = r.sum /\ q.sumsq = r.sumsq
  BY TallyIs
<1> QED BY <1>1 DEF Bumped

LEMMA AddIs ==
  ASSUME IsCourse(course), StatsType, NEW x \in Scores(course.asgts),
         NEW section, section # 0, NEW a \in Asgts, NEW g \in Groups
  PROVE  LET r == stats[a][g]
             q == AddScore(x, section)[a][g] IN
         /\ ~(a = x.asgt /\ g \in {0, section}) => q = r
         /\ a = x.asgt /\ g \in {0, section} => Scored(q, r, x.grade, g)
<1>1. PICK r \in Records : r = stats[a][g]
  BY RecordType
<1>2. PICK q : q = AddScore(x, section)[a][g]
  OBVIOUS
<1>3. PICK v \in Int : v = x.grade
  BY ScoreType
<1>4. PICK p : p = [r EXCEPT !.valid = r.valid + 1, !.sum = r.sum + v,
                             !.sumsq = r.sumsq + v * v,
                             !.min = IF r.valid = 0 THEN v ELSE r.min,
                             !.max = IF r.valid = 0 THEN v ELSE r.max]
  OBVIOUS
<1>5. PICK w : w = [p EXCEPT !.min = IF v < p.min THEN v ELSE p.min,
                             !.max = IF v > p.max THEN v ELSE p.max]
  OBVIOUS
<1>6. q = IF a = x.asgt THEN IF g = 0 THEN w ELSE IF g = section THEN p ELSE r ELSE r
  <2> DEFINE add(z) == [z EXCEPT !.valid = @ + 1, !.sum = @ + x.grade,
                                 !.sumsq = @ + x.grade * x.grade,
                                 !.min = IF z.valid = 0 THEN x.grade ELSE @,
                                 !.max = IF z.valid = 0 THEN x.grade ELSE @]
             widen(z) == [z EXCEPT !.min = IF x.grade < @ THEN x.grade ELSE @,
                                   !.max = IF x.grade > @ THEN x.grade ELSE @]
  <2>1. p = add(r)
    BY <1>3, <1>4
  <2>2. w = widen(p)
    BY <1>3, <1>5
  <2>3. AddScore(x, section) =
          [stats EXCEPT ![x.asgt] = [h \in Groups |->
             IF h = 0 THEN widen(add(stats[x.asgt][h]))
             ELSE IF h = section THEN add(stats[x.asgt][h]) ELSE stats[x.asgt][h]]]
    BY ScoreType DEF AddScore, StatsType
  <2> HIDE DEF add, widen
  <2>4. x.asgt \in Asgts /\ DOMAIN stats = Asgts
    BY ScoreType DEF StatsType
  <2> QED BY <1>1, <1>2, <2>1, <2>2, <2>3, <2>4
<1>7. /\ p.valid = r.valid + 1 /\ p.sum = r.sum + v /\ p.sumsq = r.sumsq + v * v
      /\ p.freqs = r.freqs /\ p.tallied = r.tallied
      /\ p.min = (IF r.valid = 0 THEN v ELSE r.min)
      /\ p.max = (IF r.valid = 0 THEN v ELSE r.max)
      /\ DOMAIN p = DOMAIN r
  BY <1>4 DEF Records
<1>8. /\ w.valid = p.valid /\ w.sum = p.sum /\ w.sumsq = p.sumsq
      /\ w.freqs = p.freqs /\ w.tallied = p.tallied
      /\ w.min = (IF v < p.min THEN v ELSE p.min)
      /\ w.max = (IF v > p.max THEN v ELSE p.max)
  BY <1>5, <1>7 DEF Records
<1>9. /\ w.min = (IF r.valid = 0 \/ v < r.min THEN v ELSE r.min)
      /\ w.max = (IF r.valid = 0 \/ v > r.max THEN v ELSE r.max)
  BY <1>3, <1>7, <1>8
<1>10. Scored(w, r, v, 0) /\ (g # 0 => Scored(p, r, v, g))
  BY <1>7, <1>8, <1>9 DEF Scored
<1> QED BY <1>1, <1>2, <1>3, <1>6, <1>10
-----------------------------------------------------------------------------
(* Every action keeps the statistics exact.                                *)

\* The scores do not change while they are counted.
LEMMA ScoresSame ==
  ASSUME course' = course
  PROVE  /\ \A a, g : Counted(a, g)' = Counted(a, g)
         /\ \A x : Grade(x)' = Grade(x)
         /\ \A S, F : SumIn(S, F)' = SumIn(S, F)
<1>1. \A a, g : Counted(a, g)' = Counted(a, g)
  BY DEF Counted, Students, Of
<1>2. \A x : Grade(x)' = Grade(x)
  BY DEF Grade, Of
<1>3. \A S, F : SumIn(S, F)' = SumIn(S, F)
  BY DEF SumIn, SumsOf, SumOf, Of
<1> QED BY <1>1, <1>2, <1>3

LEMMA RecordsSame ==
  ASSUME course' = course
  PROVE  /\ \A r, S : Tallies(r, S) => Tallies(r, S)'
         /\ \A r, S : Cumulates(r, S) => Cumulates(r, S)'
         /\ \A r, S, g : Adds(r, S, g) => Adds(r, S, g)'
<1>1. \A S : Graded(S)' <=> Graded(S)
  BY ScoresSame DEF Graded
<1>2. \A S, v : Equal(S, v)' = Equal(S, v) /\ Below(S, v)' = Below(S, v)
  BY ScoresSame DEF Equal, Below
<1>3. \A f, S : Tabled(f, S) => Tabled(f, S)'
  BY <1>2, ScoresSame DEF Tabled
<1>4. \A r, S : Tallies(r, S) => Tallies(r, S)'
  BY <1>1, <1>3 DEF Tallies
<1>5. \A r, S : Cumulates(r, S) => Cumulates(r, S)'
  <2> SUFFICES ASSUME NEW r, NEW S, Cumulates(r, S) PROVE Cumulates(r, S)'
    OBVIOUS
  <2>1. Tallies(r, S)'
    BY <1>4 DEF Cumulates
  <2>2. \A v : {x \in S : Grade(x) <= v}' = {x \in S : Grade(x) <= v}
    BY ScoresSame
  <2> QED BY <1>2, <2>1, <2>2 DEF Cumulates
<1>6. \A r, S, g : Adds(r, S, g) => Adds(r, S, g)'
  <2> SUFFICES ASSUME NEW r, NEW S, NEW g, Adds(r, S, g) PROVE Adds(r, S, g)'
    OBVIOUS
  <2>1. Graded(S)' /\ SumIn(S, Itself)' = SumIn(S, Itself)
        /\ SumIn(S, Squared)' = SumIn(S, Squared)
    BY <1>1, ScoresSame DEF Adds, Itself, Squared
  <2> QED BY <2>1, ScoresSame DEF Adds
<1> QED BY <1>4, <1>5, <1>6

LEMMA ExactNext ==
  ASSUME course' = course, NEW a, NEW g, NEW q, q = stats'[a][g],
         NEW U, U = Upto(a, g, cur'[1], cur'[2]),
         pc' = "links" => q = NewStats,
         pc' = "freqs" => Tallies(q, U) /\ Unsummed(q),
         pc' = "quantiles" => Tallies(q, Counted(a, g)) /\ Unsummed(q),
         pc' = "sums" => Cumulates(q, Counted(a, g)) /\ Adds(q, U, g),
         pc' \in {"moments", "normalize"} =>
           Cumulates(q, Counted(a, g)) /\ Adds(q, Counted(a, g), g)
  PROVE  ExactFor(a, g)'
<1>1. PICK C : C = Counted(a, g) /\ C = Counted(a, g)'
  BY ScoresSame
<1>2. U = Upto(a, g, cur[1], cur[2])'
  BY <1>1 DEF Upto
<1>3. /\ \A r, S : Tallies(r, S) => Tallies(r, S)'
      /\ \A r, S : Cumulates(r, S) => Cumulates(r, S)'
      /\ \A r, S, h : Adds(r, S, h) => Adds(r, S, h)'
  BY RecordsSame
<1>4. /\ pc' = "freqs" => Tallies(q, U)'
      /\ pc' = "quantiles" => Tallies(q, C)'
      /\ pc' = "sums" => Cumulates(q, C)' /\ Adds(q, U, g)'
      /\ pc' \in {"moments", "normalize"} => Cumulates(q, C)' /\ Adds(q, C, g)'
  BY <1>1, <1>3
<1>5. NewStats' = NewStats /\ \A r : Unsummed(r)' <=> Unsummed(r)
  BY DEF NewStats, Unsummed
<1> QED BY <1>1, <1>2, <1>4, <1>5 DEF ExactFor, Tallies, Cumulates, Adds, Unsummed

LEMMA Outside ==
  ASSUME pc' \notin Counting \cup {"links"}
  PROVE  Exact'
BY DEF Exact, ExactFor, Counting

LEMMA LinksStraight ==
  ASSUME IsCourse(course), Linking, pc = "links", cur[1] > Len(course.asgts)
  PROVE  Straight
<1>1. PICK N \in Nat : N = Len(course.students) /\ Students = 1 .. N
  BY CourseType
<1> SUFFICES ASSUME Asgts # {}
             PROVE  /\ roster = (IF N = 0 THEN 0 ELSE 1)
                    /\ \A j \in 1 .. N : cnext[j] = IF j = N THEN 0 ELSE j + 1
  BY <1>1 DEF Straight
<1>2. PICK t \in Seq(Students) : /\ Follows(t, roster, cnext)
                                 /\ t = IF Asgts = {} THEN << >> ELSE [i \in Students |-> i]
  BY LinksEnd
<1>3. t = [i \in 1 .. N |-> i] /\ Len(t) = N
  BY <1>1, <1>2
<1>4. CASE N = 0
  <2>1. t = << >>
    BY <1>2, <1>3, <1>4
  <2> QED BY <1>2, <1>4, <2>1 DEF Follows
<1>5. CASE N # 0
  <2>1. t # << >> /\ \A j \in 1 .. N : t[j] = j
    BY <1>3, <1>5
  <2>2. roster = 1 /\ cnext[N] = 0
    BY <1>1, <1>2, <1>3, <1>5, <2>1 DEF Follows
  <2>3. ASSUME NEW j \in 1 .. N - 1 PROVE cnext[j] = j + 1
    <3>1. j \in 1 .. N /\ j + 1 \in 1 .. N
      BY <1>1
    <3> QED BY <1>2, <1>3, <2>1, <3>1 DEF Follows
  <2> QED BY <1>5, <2>2, <2>3
<1> QED BY <1>4, <1>5

LEMMA BuildExact == IInv /\ Exact /\ (buildstats \/ do_links) => Exact'
<1> SUFFICES ASSUME IInv, Exact, buildstats \/ do_links PROVE Exact'
  OBVIOUS
<1>0. IsCourse(course)
  BY DEF IInv, Core
<1>1. course' = course /\ Asgts' = Asgts /\ Groups' = Groups
  BY DEF buildstats, do_links, Asgts, Groups
<1>2. PICK N \in Nat : N = Len(course.students)
  BY <1>0, CourseType
<1>3. ASSUME pc' = "links", NEW a \in Asgts, NEW g \in Groups PROVE ExactFor(a, g)'
  <2>1. stats'[a][g] = NewStats
    <3>1. CASE buildstats
      BY <3>1 DEF buildstats
    <3>2. CASE do_links
      BY <3>2 DEF do_links, Exact, ExactFor
    <3> QED BY <3>1, <3>2
  <2> QED BY <1>1, <1>3, <2>1, ExactNext
<1>4. CASE pc' = "links"
  <2>1. \A a \in Asgts' : \A g \in Groups' : ExactFor(a, g)'
    BY <1>1, <1>3, <1>4
  <2> QED BY <1>4, <2>1 DEF Exact, Counting
<1>5. CASE pc' # "links"
  <2>1. /\ pc = "links" /\ pc' = "freqs" /\ cur[1] > Len(course.asgts)
        /\ cur' = <<roster, 1>> /\ UNCHANGED <<cnext, roster, stats>>
    BY <1>5 DEF buildstats, do_links
  <2>2. Straight
    BY <1>0, <2>1, LinksStraight DEF IInv
  <2>3. Straight'
    BY <1>1, <2>1, <2>2 DEF Straight, Asgts
  <2>4. ASSUME NEW a \in Asgts, NEW g \in Groups PROVE ExactFor(a, g)'
    <3>1. PICK q : q = stats'[a][g]
      OBVIOUS
    <3>2. q = NewStats
      BY <2>1, <3>1 DEF Exact, ExactFor
    <3>3. roster = IF N = 0 THEN 0 ELSE 1
      BY <1>2, <2>2 DEF Straight
    <3>4. Upto(a, g, roster, 1) = {}
      BY <1>0, <1>2, <3>3, UptoStart
    <3>5. Tallies(q, {}) /\ Unsummed(q)
      BY <3>2, TabledEmpty, FS_EmptySet DEF NewStats, Tallies, Unsummed, Graded
    <3>6. cur'[1] = roster /\ cur'[2] = 1
      BY <2>1
    <3> QED BY <1>1, <2>1, <3>1, <3>4, <3>5, <3>6, ExactNext
  <2> QED BY <1>1, <2>3, <2>4 DEF Exact
<1> QED BY <1>4, <1>5

LEMMA FreqsExact == IInv /\ Exact /\ do_freqs => Exact'
<1> SUFFICES ASSUME IInv, Exact, do_freqs PROVE Exact'
  OBVIOUS
<1>0. Core /\ IsCourse(course) /\ pc = "freqs" /\ StatsType /\ Straight
      /\ cur \in (0 .. Len(course.students)) \X (Nat \ {0})
  BY DEF IInv, Core, Typed, do_freqs, Counting, Exact
<1>1. PICK N \in Nat : N = Len(course.students) /\ Students = 1 .. N
  BY <1>0, CourseType
<1>2. UNCHANGED <<course, cnext, roster>>
  BY DEF do_freqs
<1>3. Asgts' = Asgts /\ Groups' = Groups
  BY <1>2 DEF Asgts, Groups
<1>4. PICK s \in 0 .. N, k \in Nat \ {0} : cur = <<s, k>> /\ cur[1] = s /\ cur[2] = k
  BY <1>0, <1>1
<1>5. Straight'
  BY <1>0, <1>2 DEF Straight, Asgts
<1>6. \A a \in Asgts : \A g \in Groups :
        Tallies(stats[a][g], Upto(a, g, s, k)) /\ Unsummed(stats[a][g])
  BY <1>0, <1>4 DEF Exact, ExactFor
<1>7. ASSUME NEW a \in Asgts, NEW g \in Groups PROVE ExactFor(a, g)'
  <2>0. PICK r \in Records : r = stats[a][g]
    BY <1>0, RecordType
  <2>1. PICK q : q = stats'[a][g]
    OBVIOUS
  <2>2. PICK S : S = Upto(a, g, s, k)
    OBVIOUS
  <2>3. Tallies(r, S) /\ Unsummed(r)
    BY <1>6, <2>0, <2>2
  <2>4. CASE s = 0
    <3>1. pc' = "quantiles" /\ q = r
      BY <1>4, <2>0, <2>1, <2>4 DEF do_freqs, EachScore
    <3>2. S = Counted(a, g)
      BY <2>2, <2>4 DEF Upto
    <3> QED BY <1>2, <2>1, <2>3, <3>1, <3>2, ExactNext
  <2>5. CASE s # 0 /\ k > Len(Of(s).scores)
    <3>1. s \in Students /\ Len(Of(s).scores) \in Nat
      BY <1>0, <1>1, <2>5, StudentType
    <3>2. cur' = <<cnext[s], 1>> /\ pc' = "freqs" /\ q = r
      BY <1>0, <1>4, <2>0, <2>1, <2>5, <3>1 DEF do_freqs, EachScore
    <3>3. cnext[s] = IF s = Len(course.students) THEN 0 ELSE s + 1
      BY <1>0, <1>1, <3>1 DEF Straight
    <3>4. Upto(a, g, cnext[s], 1) = S
      BY <1>0, <2>2, <2>5, <3>1, <3>3, UptoTurn
    <3>5. cur'[1] = cnext[s] /\ cur'[2] = 1
      BY <3>2
    <3>6. S = Upto(a, g, cur'[1], cur'[2])
      BY <3>4, <3>5
    <3> QED BY <1>2, <2>1, <2>3, <3>2, <3>6, ExactNext
  <2>6. CASE s # 0 /\ k <= Len(Of(s).scores)
    <3>1. s \in Students /\ Len(Of(s).scores) \in Nat
      BY <1>0, <1>1, <2>6, StudentType
    <3>2. k \in 1 .. Len(Of(s).scores)
      BY <2>6, <3>1
    <3>3. PICK x : x = Of(s).scores[k] /\ x \in Scores(course.asgts)
      BY <1>0, <3>1, <3>2, StudentType
    <3>4. /\ cur' = <<s, k + 1>> /\ pc' = "freqs"
          /\ stats' = IF Tallied(x) THEN Tally(x, Of(s).section) ELSE stats
      BY <1>0, <1>4, <2>6, <3>1, <3>3 DEF do_freqs, EachScore
    <3>5. cur'[1] = s /\ cur'[2] = k + 1
      BY <3>4
    <3>6. PICK U : U = Upto(a, g, s, k + 1)
      OBVIOUS
    <3>7. /\ <<s, k>> \notin S
          /\ <<s, k>> \in Counted(a, g) => U = S \cup {<<s, k>>}
          /\ <<s, k>> \notin Counted(a, g) => U = S
      <4>1. Grown(U, S, <<s, k>>, Counted(a, g))
        BY <1>0, <2>2, <3>1, <3>2, <3>6, UptoStep
      <4> QED BY <4>1 DEF Grown
    <3>8. PICK section : section = Of(s).section /\ section # 0
      <4>1. Of(s).section \in 1 .. course.sections /\ course.sections \in Nat
        BY <1>0, <3>1, StudentType, CourseType
      <4>2. Of(s).section # 0
        BY <4>1
      <4> QED BY <4>2
    <3>9. <<s, k>> \in Counted(a, g) <=> x.asgt = a /\ Tallied(x) /\ g \in {0, section}
      BY <1>0, <3>1, <3>2, <3>3, <3>8, CountedIs
    <3>10. Grade(<<s, k>>) = x.grade /\ x.grade \in Int
      BY <1>0, <3>1, <3>2, <3>3, CountedIs
    <3>11. CASE <<s, k>> \notin Counted(a, g)
      <4>1. q = r
        <5>1. CASE Tallied(x)
          <6>1. ~(a = x.asgt /\ g \in {0, section})
            BY <3>9, <3>11, <5>1
          <6>2. Tally(x, section)[a][g] = stats[a][g]
            BY <1>0, <3>3, <3>8, <6>1, TallyIs
          <6> QED BY <2>0, <2>1, <3>4, <3>8, <5>1, <6>2
        <5>2. CASE ~Tallied(x)
          BY <2>0, <2>1, <3>4, <5>2
        <5> QED BY <5>1, <5>2
      <4>2. S = Upto(a, g, cur'[1], cur'[2])
        BY <3>5, <3>6, <3>7, <3>11
      <4> QED BY <1>2, <2>1, <2>3, <3>4, <4>1, <4>2, ExactNext
    <3>12. CASE <<s, k>> \in Counted(a, g)
      <4>1. a = x.asgt /\ Tallied(x) /\ g \in {0, section}
        BY <3>9, <3>12
      <4>2. q = Tally(x, section)[a][g]
        BY <2>1, <3>4, <3>8, <4>1
      <4>3. /\ q.freqs = count_score(r.freqs, Grade(<<s, k>>)) /\ q.tallied = r.tallied + 1
            /\ q.valid = r.valid /\ q.sum = r.sum /\ q.sumsq = r.sumsq
        <5>1. Bumped(q, r, x.grade)
          BY <1>0, <2>0, <3>3, <4>1, <4>2, TallyHits
        <5> QED BY <3>10, <5>1 DEF Bumped
      <4>4. Tallies(q, U) /\ Unsummed(q)
        BY <2>3, <3>7, <3>10, <3>12, <4>3, TalliesAdd
      <4>5. U = Upto(a, g, cur'[1], cur'[2])
        BY <3>5, <3>6
      <4> QED BY <1>2, <2>1, <3>4, <4>4, <4>5, ExactNext
    <3> QED BY <3>11, <3>12
  <2>7. s = 0 \/ k > Len(Of(s).scores) \/ k <= Len(Of(s).scores)
    <3>1. s # 0 => Len(Of(s).scores) \in Nat
      BY <1>0, <1>1, StudentType
    <3> QED BY <3>1
  <2> QED BY <2>4, <2>5, <2>6, <2>7
<1> QED BY <1>3, <1>5, <1>7 DEF Exact

LEMMA SumsExact == IInv /\ Exact /\ do_sums => Exact'
<1> SUFFICES ASSUME IInv, Exact, do_sums PROVE Exact'
  OBVIOUS
<1>0. Core /\ IsCourse(course) /\ pc = "sums" /\ StatsType /\ Straight
      /\ cur \in (0 .. Len(course.students)) \X (Nat \ {0})
  BY DEF IInv, Core, Typed, do_sums, Counting, Exact
<1>1. PICK N \in Nat : N = Len(course.students) /\ Students = 1 .. N
  BY <1>0, CourseType
<1>2. UNCHANGED <<course, cnext, roster>>
  BY DEF do_sums
<1>3. Asgts' = Asgts /\ Groups' = Groups
  BY <1>2 DEF Asgts, Groups
<1>4. PICK s \in 0 .. N, k \in Nat \ {0} : cur = <<s, k>> /\ cur[1] = s /\ cur[2] = k
  BY <1>0, <1>1
<1>5. Straight'
  BY <1>0, <1>2 DEF Straight, Asgts
<1>6. \A a \in Asgts : \A g \in Groups :
        /\ Cumulates(stats[a][g], Counted(a, g))
        /\ Adds(stats[a][g], Upto(a, g, s, k), g)
  BY <1>0, <1>4 DEF Exact, ExactFor
<1>7. ASSUME NEW a \in Asgts, NEW g \in Groups PROVE ExactFor(a, g)'
  <2>0. PICK r \in Records : r = stats[a][g]
    BY <1>0, RecordType
  <2>1. PICK q : q = stats'[a][g]
    OBVIOUS
  <2>2. PICK S : S = Upto(a, g, s, k)
    OBVIOUS
  <2>3. Cumulates(r, Counted(a, g)) /\ Adds(r, S, g)
    BY <1>6, <2>0, <2>2
  <2>4. CASE s = 0
    <3>1. pc' = "moments" /\ q = r
      BY <1>4, <2>0, <2>1, <2>4 DEF do_sums, EachScore
    <3>2. S = Counted(a, g)
      BY <2>2, <2>4 DEF Upto
    <3> QED BY <1>2, <2>1, <2>3, <3>1, <3>2, ExactNext
  <2>5. CASE s # 0 /\ k > Len(Of(s).scores)
    <3>1. s \in Students /\ Len(Of(s).scores) \in Nat
      BY <1>0, <1>1, <2>5, StudentType
    <3>2. cur' = <<cnext[s], 1>> /\ pc' = "sums" /\ q = r
      BY <1>0, <1>4, <2>0, <2>1, <2>5, <3>1 DEF do_sums, EachScore
    <3>3. cnext[s] = IF s = Len(course.students) THEN 0 ELSE s + 1
      BY <1>0, <1>1, <3>1 DEF Straight
    <3>4. Upto(a, g, cnext[s], 1) = S
      BY <1>0, <2>2, <2>5, <3>1, <3>3, UptoTurn
    <3>5. cur'[1] = cnext[s] /\ cur'[2] = 1
      BY <3>2
    <3>6. S = Upto(a, g, cur'[1], cur'[2])
      BY <3>4, <3>5
    <3> QED BY <1>2, <2>1, <2>3, <3>2, <3>6, ExactNext
  <2>6. CASE s # 0 /\ k <= Len(Of(s).scores)
    <3>1. s \in Students /\ Len(Of(s).scores) \in Nat
      BY <1>0, <1>1, <2>6, StudentType
    <3>2. k \in 1 .. Len(Of(s).scores)
      BY <2>6, <3>1
    <3>3. PICK x : x = Of(s).scores[k] /\ x \in Scores(course.asgts)
      BY <1>0, <3>1, <3>2, StudentType
    <3>4. /\ cur' = <<s, k + 1>> /\ pc' = "sums"
          /\ stats' = IF Tallied(x) THEN AddScore(x, Of(s).section) ELSE stats
      BY <1>0, <1>4, <2>6, <3>1, <3>3 DEF do_sums, EachScore
    <3>5. cur'[1] = s /\ cur'[2] = k + 1
      BY <3>4
    <3>6. PICK U : U = Upto(a, g, s, k + 1)
      OBVIOUS
    <3>7. /\ <<s, k>> \notin S
          /\ <<s, k>> \in Counted(a, g) => U = S \cup {<<s, k>>}
          /\ <<s, k>> \notin Counted(a, g) => U = S
      <4>1. Grown(U, S, <<s, k>>, Counted(a, g))
        BY <1>0, <2>2, <3>1, <3>2, <3>6, UptoStep
      <4> QED BY <4>1 DEF Grown
    <3>8. PICK section : section = Of(s).section /\ section # 0
      <4>1. Of(s).section \in 1 .. course.sections /\ course.sections \in Nat
        BY <1>0, <3>1, StudentType, CourseType
      <4>2. Of(s).section # 0
        BY <4>1
      <4> QED BY <4>2
    <3>9. <<s, k>> \in Counted(a, g) <=> x.asgt = a /\ Tallied(x) /\ g \in {0, section}
      BY <1>0, <3>1, <3>2, <3>3, <3>8, CountedIs
    <3>10. Grade(<<s, k>>) = x.grade /\ x.grade \in Int
      BY <1>0, <3>1, <3>2, <3>3, CountedIs
    <3>11. CASE <<s, k>> \notin Counted(a, g)
      <4>1. q = r
        <5>1. CASE Tallied(x)
          <6>1. ~(a = x.asgt /\ g \in {0, section})
            BY <3>9, <3>11, <5>1
          <6>2. AddScore(x, section)[a][g] = stats[a][g]
            BY <1>0, <3>3, <3>8, <6>1, AddIs
          <6> QED BY <2>0, <2>1, <3>4, <3>8, <5>1, <6>2
        <5>2. CASE ~Tallied(x)
          BY <2>0, <2>1, <3>4, <5>2
        <5> QED BY <5>1, <5>2
      <4>2. S = Upto(a, g, cur'[1], cur'[2])
        BY <3>5, <3>6, <3>7, <3>11
      <4> QED BY <1>2, <2>1, <2>3, <3>4, <4>1, <4>2, ExactNext
    <3>12. CASE <<s, k>> \in Counted(a, g)
      <4>1. a = x.asgt /\ Tallied(x) /\ g \in {0, section}
        BY <3>9, <3>12
      <4>2. q = AddScore(x, section)[a][g]
        BY <2>1, <3>4, <3>8, <4>1
      <4>3. PICK v \in Int : v = x.grade /\ Scored(q, r, v, g)
        BY <1>0, <2>0, <3>3, <3>8, <3>10, <4>1, <4>2, AddIs
      <4>4. Cumulates(q, Counted(a, g)) /\ Adds(q, U, g)
        <5>1. PICK C : C = Counted(a, g)
          OBVIOUS
        <5>2. q.freqs = r.freqs /\ q.tallied = r.tallied
          BY <4>3 DEF Scored
        <5>3. Cumulates(q, C)
          BY <2>3, <5>1, <5>2 DEF Cumulates, Tallies
        <5>4. <<s, k>> \notin S /\ v = Of(s).scores[k].grade
          BY <3>3, <3>7, <4>3
        <5>5. Adds(q, S \cup {<<s, k>>}, g)
          BY <1>0, <2>3, <3>1, <3>2, <4>3, <5>4, AddsAdd
        <5> QED BY <3>7, <3>12, <5>1, <5>3, <5>5
      <4>5. U = Upto(a, g, cur'[1], cur'[2])
        BY <3>5, <3>6
      <4> QED BY <1>2, <2>1, <3>4, <4>4, <4>5, ExactNext
    <3> QED BY <3>11, <3>12
  <2>7. s = 0 \/ k > Len(Of(s).scores) \/ k <= Len(Of(s).scores)
    <3>1. s # 0 => Len(Of(s).scores) \in Nat
      BY <1>0, <1>1, StudentType
    <3> QED BY <3>1
  <2> QED BY <2>4, <2>5, <2>6, <2>7
<1> QED BY <1>3, <1>5, <1>7 DEF Exact

LEMMA QuantilesExact == IInv /\ Exact /\ do_quantiles => Exact'
<1> SUFFICES ASSUME IInv, Exact, do_quantiles PROVE Exact'
  OBVIOUS
<1>0. Core /\ IsCourse(course) /\ pc = "quantiles" /\ StatsType /\ Straight
  BY DEF IInv, Core, Typed, do_quantiles, Counting, Exact
<1>1. /\ UNCHANGED <<course, cnext, roster>> /\ pc' = "sums" /\ cur' = <<roster, 1>>
      /\ stats' = [a \in Asgts |-> [g \in Groups |->
                     [stats[a][g] EXCEPT !.freqs = Cumulated(@)]]]
  BY DEF do_quantiles
<1>2. Asgts' = Asgts /\ Groups' = Groups
  BY <1>1 DEF Asgts, Groups
<1>3. Straight'
  BY <1>0, <1>1 DEF Straight, Asgts
<1>4. PICK N \in Nat : N = Len(course.students)
  BY <1>0, CourseType
<1>5. ASSUME NEW a \in Asgts, NEW g \in Groups PROVE ExactFor(a, g)'
  <2>0. PICK r \in Records : r = stats[a][g]
    BY <1>0, RecordType
  <2>1. PICK q : q = stats'[a][g]
    OBVIOUS
  <2>2. q = [r EXCEPT !.freqs = Cumulated(r.freqs)]
    BY <1>1, <2>0, <2>1
  <2>3. /\ q.freqs = Cumulated(r.freqs) /\ q.tallied = r.tallied
        /\ q.valid = r.valid /\ q.sum = r.sum /\ q.sumsq = r.sumsq
    BY <2>2 DEF Records
  <2>4. Tallies(r, Counted(a, g)) /\ Unsummed(r)
    BY <1>0, <2>0 DEF Exact, ExactFor
  <2>5. Cumulates(q, Counted(a, g))
    BY <2>3, <2>4, CumulatesIs
  <2>6. Adds(q, {}, g)
    BY <1>0, <2>3, <2>4, AddsEmpty DEF Unsummed
  <2>7. roster = IF N = 0 THEN 0 ELSE 1
    BY <1>0, <1>4 DEF Straight
  <2>8. Upto(a, g, roster, 1) = {}
    BY <1>0, <1>4, <2>7, UptoStart
  <2>9. cur'[1] = roster /\ cur'[2] = 1
    BY <1>1
  <2> QED BY <1>1, <2>1, <2>5, <2>6, <2>8, <2>9, ExactNext
<1> QED BY <1>2, <1>3, <1>5 DEF Exact

LEMMA MomentsExact == IInv /\ Exact /\ do_moments => Exact'
<1> SUFFICES ASSUME IInv, Exact, do_moments PROVE Exact'
  OBVIOUS
<1>0. Core /\ IsCourse(course) /\ pc = "moments" /\ StatsType /\ Straight
  BY DEF IInv, Core, Typed, do_moments, Counting, Exact
<1>1. /\ UNCHANGED <<course, cnext, roster>> /\ pc' = "normalize"
      /\ stats' = [a \in Asgts |-> [g \in Groups |-> Moments(stats[a][g])]]
  BY DEF do_moments, linkvars
<1>2. Asgts' = Asgts /\ Groups' = Groups
  BY <1>1 DEF Asgts, Groups
<1>3. Straight'
  BY <1>0, <1>1 DEF Straight, Asgts
<1>4. ASSUME NEW a \in Asgts, NEW g \in Groups PROVE ExactFor(a, g)'
  <2>0. PICK r \in Records : r = stats[a][g]
    BY <1>0, RecordType
  <2>1. PICK q : q = stats'[a][g]
    OBVIOUS
  <2>2. q = Moments(r)
    BY <1>1, <2>0, <2>1
  <2>3. /\ q.valid = r.valid /\ q.tallied = r.tallied /\ q.sum = r.sum /\ q.sumsq = r.sumsq
        /\ q.min = r.min /\ q.max = r.max /\ q.freqs = r.freqs
    BY <2>2, MomentsType
  <2>4. PICK C : C = Counted(a, g)
    OBVIOUS
  <2>5. Cumulates(r, C) /\ Adds(r, C, g)
    BY <1>0, <2>0, <2>4 DEF Exact, ExactFor
  <2>6. Cumulates(q, C)
    BY <2>3, <2>5 DEF Cumulates, Tallies
  <2>7. Adds(q, C, g)
    BY <2>3, <2>5 DEF Adds
  <2> QED BY <1>1, <2>1, <2>4, <2>6, <2>7, ExactNext
<1> QED BY <1>2, <1>3, <1>4 DEF Exact

LEMMA StutterExact == IInv /\ Exact /\ UNCHANGED vars => Exact'
<1> SUFFICES ASSUME IInv, Exact, UNCHANGED vars PROVE Exact'
  OBVIOUS
<1>1. UNCHANGED <<pc, course, cnext, roster, stats, cur>>
  BY DEF vars, linkvars
<1>2. Asgts' = Asgts /\ Groups' = Groups
  BY <1>1 DEF Asgts, Groups
<1>3. pc' \in Counting => Straight'
  BY <1>1 DEF Exact, Straight, Asgts
<1>4. ASSUME NEW a \in Asgts, NEW g \in Groups PROVE ExactFor(a, g)'
  <2>1. ExactFor(a, g)
    BY DEF Exact
  <2>2. PICK q : q = stats'[a][g] /\ q = stats[a][g]
    BY <1>1
  <2>3. PICK U : U = Upto(a, g, cur'[1], cur'[2]) /\ U = Upto(a, g, cur[1], cur[2])
    BY <1>1
  <2> QED BY <1>1, <2>1, <2>2, <2>3, ExactNext DEF ExactFor
<1> QED BY <1>2, <1>3, <1>4 DEF Exact

LEMMA NextExact == IInv /\ Exact /\ [Next]_vars => Exact'
<1> SUFFICES ASSUME IInv, Exact, [Next]_vars PROVE Exact'
  OBVIOUS
<1>1. CASE Option \/ OptionsEnd \/ normalize \/ composites
  BY <1>1, Outside DEF Option, OptionsEnd, normalize, composites, Counting
<1>2. CASE sorttable \/ sortroster \/ SortAgain \/ Report
  BY <1>2, Outside DEF sorttable, sortroster, SortAgain, Report, Counting
<1> QED BY <1>1, <1>2, BuildExact, FreqsExact, QuantilesExact, SumsExact, MomentsExact,
           StutterExact DEF Next

\* What StatsExact says of the record r of group g for assignment a.
RecordExact(r, all, a, g) ==
  /\ r.tallied = Cardinality(all) /\ r.valid = Cardinality(all)
  /\ r.sum = SumOver(a, g, LAMBDA v : v) /\ r.sumsq = SumOver(a, g, LAMBDA v : v * v)
  /\ {b.score : b \in Range(r.freqs)} = {Grade(x) : x \in all}
  /\ \A n \in DOMAIN r.freqs :
       LET b == r.freqs[n] IN
       /\ n > 1 => r.freqs[n - 1].score < b.score
       /\ b.count = Cardinality({x \in all : Grade(x) = b.score})
       /\ b.numless = Cardinality({x \in all : Grade(x) < b.score})
       /\ b.numlesseq = Cardinality({x \in all : Grade(x) <= b.score})
  /\ g = 0 /\ all # {} =>
       /\ \E x \in all : r.min = Grade(x)
       /\ \E x \in all : r.max = Grade(x)
       /\ \A x \in all : r.min <= Grade(x) /\ Grade(x) <= r.max

\* Whatever the course, the statistics that are complete are those of its scores:
\* do_freqs, count_score, do_quantiles and do_sums.
THEOREM StatisticsExact == Spec => []StatsExact
<1>1. Init => Exact
  BY DEF Init, Exact, ExactFor, Counting
<1>2. IInv /\ Exact => StatsExact
  <2> SUFFICES ASSUME IInv, Exact, pc = "normalize", NEW a \in Asgts, NEW g \in Groups
               PROVE  RecordExact(stats[a][g], Counted(a, g), a, g)
    BY DEF StatsExact, RecordExact
  <2>0. IsCourse(course)
    BY DEF IInv, Core
  <2>1. PICK r : r = stats[a][g]
    OBVIOUS
  <2>2. PICK C : C = Counted(a, g)
    OBVIOUS
  <2>3. Cumulates(r, C) /\ Adds(r, C, g)
    BY <2>1, <2>2 DEF Exact, ExactFor
  <2>4. PICK f \in Seq(Buckets) : f = r.freqs /\ Tabled(f, C)
    BY <2>3 DEF Cumulates, Tallies, Tabled
  <2>5. PICK L \in Nat : L = Len(f) /\ DOMAIN f = 1 .. L
    BY <2>4
  <2>6. r.tallied = Cardinality(C) /\ r.valid = Cardinality(C)
    BY <2>3 DEF Cumulates, Tallies, Adds
  <2>7. r.sum = SumOver(a, g, LAMBDA v : v) /\ r.sumsq = SumOver(a, g, LAMBDA v : v * v)
    <3>1. \A s \in Students : DOMAIN Of(s).scores = 1 .. Len(Of(s).scores)
          /\ \A k \in 1 .. Len(Of(s).scores) : Of(s).scores[k].grade \in Int
      BY <2>0, StudentType, ScoreType
    <3>2. Students = 1 .. Len(course.students)
      BY <2>0, CourseType
    <3>3. SumOver(a, g, LAMBDA v : v) = SumIn(C, Itself)
      BY <2>2, <3>1, <3>2 DEF SumOver, SumIn, SumsOf, SumOf, Itself
    <3>4. SumOver(a, g, LAMBDA v : v * v) = SumIn(C, Squared)
      BY <2>2, <3>1, <3>2 DEF SumOver, SumIn, SumsOf, SumOf, Squared
    <3> QED BY <2>3, <3>3, <3>4 DEF Adds
  <2>8. {b.score : b \in Range(f)} = {Grade(x) : x \in C}
    <3>1. \A n \in 1 .. L : \E x \in C : Grade(x) = f[n].score
      BY <2>4, <2>5 DEF Tabled, Equal
    <3>2. \A x \in C : \E n \in 1 .. L : f[n].score = Grade(x)
      BY <2>4, <2>5 DEF Tabled
    <3>3. Range(f) = {f[n] : n \in 1 .. L}
      BY <2>5 DEF Range
    <3>4. {b.score : b \in Range(f)} \subseteq {Grade(x) : x \in C}
      BY <3>1, <3>3
    <3>5. {Grade(x) : x \in C} \subseteq {b.score : b \in Range(f)}
      BY <3>2, <3>3
    <3> QED BY <3>4, <3>5
  <2>9. ASSUME NEW n \in 1 .. L
        PROVE  /\ n > 1 => f[n - 1].score < f[n].score
               /\ f[n].count = Cardinality({x \in C : Grade(x) = f[n].score})
               /\ f[n].numless = Cardinality({x \in C : Grade(x) < f[n].score})
               /\ f[n].numlesseq = Cardinality({x \in C : Grade(x) <= f[n].score})
    <3>1. n > 1 => f[n - 1].score < f[n].score
      <4>1. n > 1 => n - 1 \in 1 .. L /\ n - 1 < n
        BY <2>5
      <4> QED BY <2>4, <2>5, <4>1 DEF Tabled, Ascends
    <3>2. f[n].count = Cardinality({x \in C : Grade(x) = f[n].score})
      BY <2>4, <2>5 DEF Tabled, Equal
    <3>3. /\ f[n].numless = Cardinality({x \in C : Grade(x) < f[n].score})
          /\ f[n].numlesseq = Cardinality({x \in C : Grade(x) <= f[n].score})
      BY <2>3, <2>4, <2>5 DEF Cumulates, Below
    <3> QED BY <3>1, <3>2, <3>3
  <2>10. g = 0 /\ C # {} =>
           /\ \E x \in C : r.min = Grade(x)
           /\ \E x \in C : r.max = Grade(x)
           /\ \A x \in C : r.min <= Grade(x) /\ Grade(x) <= r.max
    BY <2>3 DEF Adds
  <2>11. \A n \in DOMAIN r.freqs :
           /\ n > 1 => r.freqs[n - 1].score < r.freqs[n].score
           /\ r.freqs[n].count = Cardinality({x \in C : Grade(x) = r.freqs[n].score})
           /\ r.freqs[n].numless = Cardinality({x \in C : Grade(x) < r.freqs[n].score})
           /\ r.freqs[n].numlesseq = Cardinality({x \in C : Grade(x) <= r.freqs[n].score})
    <3>1. \A n \in DOMAIN f :
            /\ n > 1 => f[n - 1].score < f[n].score
            /\ f[n].count = Cardinality({x \in C : Grade(x) = f[n].score})
            /\ f[n].numless = Cardinality({x \in C : Grade(x) < f[n].score})
            /\ f[n].numlesseq = Cardinality({x \in C : Grade(x) <= f[n].score})
      <4> TAKE n \in DOMAIN f
      <4>1. n \in 1 .. L
        BY <2>5
      <4> QED BY <2>9, <4>1, Zenon
    <3> QED BY <2>4, <3>1, Zenon
  <2>12. {b.score : b \in Range(r.freqs)} = {Grade(x) : x \in C}
    BY <2>4, <2>8, Zenon
  <2>13. RecordExact(r, C, a, g)
    BY <2>6, <2>7, <2>10, <2>11, <2>12, Zenon DEF RecordExact
  <2> QED BY <2>1, <2>2, <2>13
<1> QED BY <1>1, <1>2, NextExact, GradesInvariant, PTL DEF Spec

-----------------------------------------------------------------------------
(* Quotients rounded down.                                                 *)

LEMMA Quotients ==
  ASSUME NEW x \in Int, NEW d \in Nat, d # 0
  PROVE  x \div d \in Int /\ (x \div d) * d <= x /\ x < (x \div d) * d + d
<1>1. PICK q \in Int, r \in 0 .. d - 1 : q = x \div d /\ x = d * q + r
  OBVIOUS
<1>2. d * q = q * d
  OBVIOUS
<1> QED BY <1>1, <1>2

LEMMA Products ==
  ASSUME NEW x \in Int, NEW y \in Int, x <= y, NEW d \in Nat
  PROVE  x * d <= y * d /\ d * x <= d * y /\ x * d \in Int /\ y * d \in Int
<1>1. PICK e \in Nat : y = x + e
  OBVIOUS
<1>2. y * d = x * d + e * d /\ e * d \in Nat
  BY <1>1
<1>3. d * x = x * d /\ d * y = y * d
  OBVIOUS
<1> QED BY <1>2, <1>3

\* A quotient is at least m if the dividend is at least m divisors.
LEMMA QuotientLow ==
  ASSUME NEW x \in Int, NEW d \in Nat, d # 0, NEW m \in Int, m * d <= x
  PROVE  m <= x \div d
<1>1. PICK q \in Int : q = x \div d /\ x < q * d + d
  BY Quotients
<1> SUFFICES ASSUME q + 1 <= m PROVE FALSE
  BY <1>1
<1>2. (q + 1) * d <= m * d
  BY Products
<1>3. (q + 1) * d = q * d + d
  OBVIOUS
<1>4. q * d \in Int /\ m * d \in Int
  OBVIOUS
<1> QED BY <1>1, <1>2, <1>3, <1>4

LEMMA QuotientHigh ==
  ASSUME NEW x \in Int, NEW d \in Nat, d # 0, NEW m \in Int, x < m * d + d
  PROVE  x \div d <= m
<1>1. PICK q \in Int : q = x \div d /\ q * d <= x
  BY Quotients
<1> SUFFICES ASSUME m + 1 <= q PROVE FALSE
  BY <1>1
<1>2. (m + 1) * d <= q * d
  BY Products
<1>3. (m + 1) * d = m * d + d
  OBVIOUS
<1>4. q * d \in Int /\ m * d \in Int
  OBVIOUS
<1> QED BY <1>1, <1>2, <1>3, <1>4

LEMMA QuotientOrder ==
  ASSUME NEW x \in Int, NEW y \in Int, x <= y, NEW d \in Nat, d # 0
  PROVE  x \div d <= y \div d
<1>1. PICK q \in Int : q = x \div d /\ q * d <= x
  BY Quotients
<1>2. q * d \in Int
  OBVIOUS
<1>3. q * d <= y
  BY <1>1, <1>2
<1>4. q <= y \div d
  BY <1>3, QuotientLow
<1> QED BY <1>1, <1>4

-----------------------------------------------------------------------------
(* normal keeps the order of the scores of a group.                        *)

LEMMA LinearOrder ==
  ASSUME NEW v \in Int, NEW w \in Int, v <= w, NEW rm \in Int, NEW rd \in Nat, rd # 0,
         NEW nm \in Int, NEW nd \in Nat
  PROVE  linear(v, rm, rd, nm, nd) <= linear(w, rm, rd, nm, nd)
<1>1. PICK x \in Int, y \in Int : x = v - rm /\ y = w - rm /\ x <= y
  OBVIOUS
<1>2. PICK X \in Int, Y \in Int : X = nd * x /\ Y = nd * y /\ X <= Y
  <2>1. nd * x <= nd * y /\ nd * x \in Int /\ nd * y \in Int
    BY <1>1, Products
  <2> QED BY <2>1
<1>3. X \div rd <= Y \div rd
  BY <1>2, QuotientOrder
<1>4. X \div rd \in Int /\ Y \div rd \in Int
  BY <1>2, Quotients
<1>5. linear(v, rm, rd, nm, nd) = X \div rd + nm /\ linear(w, rm, rd, nm, nd) = Y \div rd + nm
  BY <1>1, <1>2 DEF linear
<1> QED BY <1>3, <1>4, <1>5

LEMMA ScaleOrder ==
  ASSUME NEW v \in Int, NEW w \in Int, v <= w, NEW max \in Nat, max # 0, NEW to \in Nat
  PROVE  scale(v, max, to) <= scale(w, max, to)
<1>1. PICK X \in Int, Y \in Int : X = v * to /\ Y = w * to /\ X <= Y
  <2>1. v * to <= w * to /\ v * to \in Int /\ w * to \in Int
    BY Products
  <2> QED BY <2>1
<1>2. X \div max <= Y \div max
  BY <1>1, QuotientOrder
<1> QED BY <1>1, <1>2 DEF scale

\* The bucket of a grade that is in the table is the one that quantile stops at.
LEMMA QuantileIs ==
  ASSUME NEW r \in Records, Ascends(r.freqs), NEW i \in 1 .. Len(r.freqs),
         NEW v \in Int, r.freqs[i].score = v, r.tallied # 0
  PROVE  quantile(v, r) = (r.freqs[i].numless * 100 * Unit) \div r.tallied
<1> DEFINE at == SelectInSeq(r.freqs, LAMBDA b : v <= b.score)
           I == {j \in 1 .. Len(r.freqs) : v <= r.freqs[j].score}
<1>1. at = IF I # {} THEN Min(I) ELSE 0
  BY DEF SelectInSeq
<1>2. r.freqs \in Seq(Buckets) /\ r.tallied \in Nat
  BY DEF Records
<1>3. Len(r.freqs) \in Nat /\ \A j \in 1 .. Len(r.freqs) : r.freqs[j].score \in Int
  BY <1>2, BucketType
<1>4. i \in I
  BY <1>3
<1>5. \A j \in I : i <= j
  <2> SUFFICES ASSUME NEW j \in I, j < i PROVE FALSE
    BY <1>3
  <2>1. j \in 1 .. Len(r.freqs) /\ v <= r.freqs[j].score
    OBVIOUS
  <2>2. r.freqs[j].score < v
    BY <2>1 DEF Ascends
  <2> QED BY <1>3, <2>1, <2>2
<1>6. I \subseteq Nat
  BY <1>3
<1> HIDE DEF I
<1>7. Min(I) = i
  <2>1. Min(I) \in I /\ \A y \in I : Min(I) <= y
    BY <1>4, <1>6, Least DEF Min
  <2>2. PICK m \in Nat : m = Min(I) /\ m <= i /\ i <= m
    BY <1>4, <1>5, <1>6, <2>1
  <2>3. i \in Nat
    BY <1>4, <1>6
  <2> QED BY <2>2, <2>3
<1>8. at = i /\ at # 0
  BY <1>1, <1>3, <1>4, <1>7
<1>9. quantile(v, r) = IF at = 0 THEN Unit
                       ELSE (r.freqs[at].numless * 100 * Unit)
                              \div (IF r.tallied = 0 THEN 1 ELSE r.tallied)
  BY DEF quantile
<1> HIDE DEF at
<1> QED BY <1>8, <1>9

\* What the table of a group says of two scores that are counted in it.
LEMMA CumulatesOrder ==
  ASSUME NEW S, NEW r \in Records, Cumulates(r, S),
         NEW i \in 1 .. Len(r.freqs), NEW j \in 1 .. Len(r.freqs)
  PROVE  /\ r.freqs[i].numless \in 0 .. r.tallied
         /\ r.tallied # 0
         /\ i <= j => r.freqs[i].numless <= r.freqs[j].numless
         /\ i < j => r.freqs[i].numless < r.freqs[j].numless
         /\ \A x \in S : i = 1 => r.freqs[1].score <= Grade(x)
         /\ i = 1 => r.freqs[i].numless = 0
<1> DEFINE f == r.freqs
<1>1. /\ IsFiniteSet(S) /\ \A x \in S : Grade(x) \in Int
      /\ r.tallied = Cardinality(S) /\ Tabled(f, S)
  BY DEF Cumulates, Tallies, Graded
<1>2. /\ Len(f) \in Nat /\ \A n \in 1 .. Len(f) : f[n].score \in Int
      /\ \A n, m \in 1 .. Len(f) : n < m => f[n].score < f[m].score
  BY <1>1, BucketType DEF Tabled, Ascends
<1>3. \A n \in 1 .. Len(f) : f[n].numless = Cardinality(Below(S, f[n].score))
  BY DEF Cumulates
<1>4. \A n \in 1 .. Len(f) : Below(S, f[n].score) \subseteq S
  BY DEF Below
<1>5. \A n \in 1 .. Len(f) : \E x \in S : Grade(x) = f[n].score
  BY <1>1 DEF Tabled, Equal
<1> HIDE DEF f
<1>6. \A n \in 1 .. Len(f) :
        IsFiniteSet(Below(S, f[n].score)) /\ Cardinality(Below(S, f[n].score)) \in Nat
        /\ Cardinality(Below(S, f[n].score)) <= Cardinality(S)
  BY <1>1, <1>4, FS_Subset, FS_CardinalityType
<1>7. Cardinality(S) \in Nat
  BY <1>1, FS_CardinalityType
<1>8. Cardinality(S) # 0
  BY <1>1, <1>5, FS_EmptySet DEF f
<1>9. ASSUME i < j PROVE f[i].numless < f[j].numless
  <2>1. PICK x \in S : Grade(x) = f[i].score
    BY <1>5 DEF f
  <2>2. f[i].score < f[j].score
    BY <1>2, <1>9 DEF f
  <2>3. x \in Below(S, f[j].score) /\ x \notin Below(S, f[i].score)
    BY <1>2, <2>1, <2>2 DEF Below, f
  <2>4. Below(S, f[i].score) \subseteq Below(S, f[j].score)
    BY <1>1, <1>2, <2>2 DEF Below, f
  <2>5. PICK A, B : A = Below(S, f[i].score) /\ B = Below(S, f[j].score)
    OBVIOUS
  <2>6. IsFiniteSet(B) /\ A \subseteq B /\ A # B
    BY <1>6, <2>3, <2>4, <2>5 DEF f
  <2>7. Cardinality(A) < Cardinality(B)
    <3>1. Cardinality(A) <= Cardinality(B) /\ (Cardinality(B) = Cardinality(A) => B = A)
      BY <2>6, FS_Subset
    <3>2. Cardinality(A) \in Nat /\ Cardinality(B) \in Nat
      BY <1>6, <2>5 DEF f
    <3> QED BY <2>6, <3>1, <3>2
  <2> QED BY <1>3, <2>5, <2>7 DEF f
<1>10. ASSUME i = 1, NEW x \in S PROVE f[1].score <= Grade(x)
  <2>1. PICK n \in 1 .. Len(f) : f[n].score = Grade(x)
    BY <1>1 DEF Tabled
  <2>2. n = 1 \/ 1 < n
    BY <1>2
  <2> QED BY <1>2, <1>10, <2>1, <2>2 DEF f
<1>11. i = 1 => f[i].numless = 0
  <2> SUFFICES ASSUME i = 1 PROVE f[i].numless = 0
    OBVIOUS
  <2>1. \A x \in S : ~(Grade(x) < f[1].score)
    BY <1>1, <1>2, <1>10 DEF f
  <2>2. Below(S, f[i].score) = {}
    BY <2>1 DEF Below
  <2> QED BY <1>3, <2>2, FS_EmptySet DEF f
<1>12. f[i].numless \in 0 .. r.tallied
  BY <1>1, <1>3, <1>6, <1>7 DEF f
<1>13. i = j \/ i < j \/ j < i
  BY <1>2 DEF f
<1>14. f[i].numless \in Int /\ f[j].numless \in Int
  BY <1>3, <1>6 DEF f
<1>15. i <= j => f[i].numless <= f[j].numless
  BY <1>9, <1>13, <1>14, <1>2 DEF f
<1> QED BY <1>1, <1>8, <1>9, <1>10, <1>11, <1>12, <1>15 DEF f

\* The tables are those of all scores, as they are when normalize is called.
Complete ==
  \A a \in Asgts : \A g \in Groups : Cumulates(stats[a][g], Counted(a, g))

LEMMA InTable ==
  ASSUME IsCourse(course), StatsType, Complete, NEW s \in Students,
         NEW k \in 1 .. Len(Of(s).scores), NEW x, x = Of(s).scores[k], Tallied(x),
         NEW g \in Groups, g \in {0, Of(s).section}
  PROVE  /\ x.asgt \in Asgts /\ x.grade \in Int
         /\ stats[x.asgt][g] \in Records
         /\ Cumulates(stats[x.asgt][g], Counted(x.asgt, g))
         /\ \E i \in 1 .. Len(stats[x.asgt][g].freqs) : stats[x.asgt][g].freqs[i].score = x.grade
<1>1. x \in Scores(course.asgts)
  BY StudentType
<1>2. PICK a \in Asgts : a = x.asgt /\ x.grade \in Int
  BY <1>1, ScoreType
<1>3. PICK r \in Records : r = stats[a][g]
  BY RecordType
<1>4. Cumulates(r, Counted(a, g))
  BY <1>3 DEF Complete
<1>5. <<s, k>> \in Counted(a, g) /\ Grade(<<s, k>>) = x.grade
  BY <1>2, CountedIs
<1>6. \E i \in 1 .. Len(r.freqs) : r.freqs[i].score = x.grade
  <2>1. \A z \in Counted(a, g) : \E n \in 1 .. Len(r.freqs) : r.freqs[n].score = Grade(z)
    BY <1>4 DEF Cumulates, Tallies, Tabled
  <2> QED BY <1>5, <2>1
<1> QED BY <1>2, <1>3, <1>4, <1>6

\* A bucket of the table of r has the score v.
Holds(r, v) == \E i \in 1 .. Len(r.freqs) : r.freqs[i].score = v

LEMMA TableHolds ==
  ASSUME IsCourse(course), StatsType, Complete, NEW s \in Students,
         NEW k \in 1 .. Len(Of(s).scores), NEW x, x = Of(s).scores[k], Tallied(x),
         NEW g \in Groups, g \in {0, Of(s).section}
  PROVE  Holds(stats[x.asgt][g], x.grade)
BY InTable DEF Holds

LEMMA GroupType ==
  ASSUME IsCourse(course), NEW s \in Students, NEW a
  PROVE  /\ GroupOf(a, Of(s).section) \in Groups
         /\ GroupOf(a, Of(s).section) \in {0, Of(s).section}
<1>1. Of(s).section \in 1 .. course.sections /\ course.sections \in Nat
  BY StudentType, CourseType
<1> QED BY <1>1 DEF GroupOf, Groups

LEMMA QuantileOrder ==
  ASSUME NEW S, NEW r \in Records, Cumulates(r, S),
         NEW i \in 1 .. Len(r.freqs), NEW j \in 1 .. Len(r.freqs),
         NEW v \in Int, NEW w \in Int, r.freqs[i].score = v, r.freqs[j].score = w, v < w
  PROVE  quantile(v, r) <= quantile(w, r)
<1>1. Ascends(r.freqs) /\ r.freqs \in Seq(Buckets) /\ r.tallied \in Nat
  BY DEF Cumulates, Tallies, Tabled, Records
<1>2. Len(r.freqs) \in Nat
  BY <1>1, BucketType
<1>3. i <= j
  <2>1. j < i => w < v
    BY <1>1 DEF Ascends
  <2> QED BY <1>2, <2>1
<1>4. r.tallied # 0
  BY CumulatesOrder
<1>5. PICK X \in Int, Y \in Int : X = r.freqs[i].numless /\ Y = r.freqs[j].numless /\ X <= Y
  <2>1. r.freqs[i].numless <= r.freqs[j].numless
    BY <1>3, CumulatesOrder
  <2>2. r.freqs[i].numless \in 0 .. r.tallied
    BY CumulatesOrder
  <2>3. r.freqs[j].numless \in 0 .. r.tallied
    BY CumulatesOrder
  <2> QED BY <1>1, <2>1, <2>2, <2>3
<1>6. X * 100 * Unit <= Y * 100 * Unit /\ X * 100 * Unit \in Int /\ Y * 100 * Unit \in Int
  BY <1>5, SMTT(20) DEF Unit
<1>7. (X * 100 * Unit) \div r.tallied <= (Y * 100 * Unit) \div r.tallied
  BY <1>1, <1>4, <1>6, QuotientOrder
<1>8. quantile(v, r) = (X * 100 * Unit) \div r.tallied
  BY <1>1, <1>4, <1>5, QuantileIs
<1>9. quantile(w, r) = (Y * 100 * Unit) \div r.tallied
  BY <1>1, <1>4, <1>5, QuantileIs
<1> QED BY <1>7, <1>8, <1>9

LEMMA QuantileRange ==
  ASSUME NEW S, NEW r \in Records, Cumulates(r, S), NEW i \in 1 .. Len(r.freqs),
         NEW v \in Int, r.freqs[i].score = v
  PROVE  quantile(v, r) \in 0 .. 100 * Unit
<1>1. Ascends(r.freqs) /\ r.tallied \in Nat
  BY DEF Cumulates, Tallies, Tabled, Records
<1>2. r.tallied # 0 /\ r.freqs[i].numless \in 0 .. r.tallied
  BY CumulatesOrder
<1>3. PICK n \in Nat, X \in Nat : n = r.tallied /\ X = r.freqs[i].numless /\ n # 0 /\ X <= n
  BY <1>1, <1>2
<1>4. quantile(v, r) = (X * 100 * Unit) \div n
  BY <1>1, <1>2, <1>3, QuantileIs
<1>5. PICK Z \in Int : Z = X * 100 * Unit
  BY <1>3 DEF Unit
<1>6. 0 * n <= Z /\ Z < 10000 * n + n
  <2>1. Z = 10000 * X
    BY <1>5 DEF Unit
  <2>2. X <= n /\ n # 0
    BY <1>3
  <2>3. 0 * n = 0
    OBVIOUS
  <2>4. 0 <= Z
    BY <2>1
  <2>5. Z < 10000 * n + n
    BY <2>1, <2>2
  <2> QED BY <2>3, <2>4, <2>5
<1>7. n # 0
  BY <1>3
<1>8. 0 <= Z \div n
  BY <1>6, <1>7, QuotientLow
<1>9. Z \div n <= 10000
  BY <1>6, <1>7, QuotientHigh
<1>10. Z \div n \in Int
  BY <1>7, Quotients
<1>11. quantile(v, r) = Z \div n /\ 100 * Unit = 10000
  BY <1>4, <1>5 DEF Unit
<1> QED BY <1>8, <1>9, <1>10, <1>11

\* n is the score v, normalized as p says over the group of the record r.
NormalBy(n, v, p, r) ==
  /\ p.npolicy = "RAW" => n = v
  /\ p.npolicy = "LINEAR" => n = linear(v, r.mean, AtLeastTiny(r.stddev), p.mean, p.stddev)
  /\ p.npolicy = "SCALE" => n = scale(v, AtLeastTiny(p.max), p.scale)
  /\ p.npolicy = "QUANTILE" => n = quantile(v, r)

LEMMA NormalIs ==
  ASSUME NEW v, NEW a, NEW section, NEW p, p = course.asgts[a], NEW r,
         r = stats[a][GroupOf(a, section)],
         p.npolicy \in {"RAW", "LINEAR", "SCALE", "QUANTILE"}
  PROVE  NormalBy(normal(v, a, section), v, p, r)
BY DEF normal, NormalBy

LEMMA NormalOrder ==
  ASSUME IsCourse(course), StatsType, Complete,
         NEW s \in Students, NEW k \in 1 .. Len(Of(s).scores), NEW x, x = Of(s).scores[k],
         NEW t \in Students, NEW m \in 1 .. Len(Of(t).scores), NEW y, y = Of(t).scores[m],
         Tallied(x), Tallied(y), y.asgt = x.asgt, y.grade < x.grade,
         GroupOf(x.asgt, Of(s).section) \in {0, Of(t).section},
         course.asgts[x.asgt].npolicy = "LINEAR" => course.asgts[x.asgt].stddev >= 0,
         course.asgts[x.asgt].npolicy = "SCALE" => course.asgts[x.asgt].scale >= 0
  PROVE  normal(y.grade, y.asgt, Of(t).section) <= normal(x.grade, x.asgt, Of(s).section)
<1>1. PICK g \in Groups : g = GroupOf(x.asgt, Of(s).section) /\ g \in {0, Of(s).section}
  BY GroupType
<1>2. g = GroupOf(x.asgt, Of(t).section) /\ g \in {0, Of(t).section}
  <2>1. Of(s).section # 0
    BY StudentType, CourseType
  <2> QED BY <1>1, <2>1 DEF GroupOf
<1>3. PICK a \in Asgts, w \in Int : a = x.asgt /\ w = x.grade
  BY <1>1, InTable
<1>4. PICK r \in Records : r = stats[a][g] /\ Cumulates(r, Counted(a, g))
  BY <1>1, <1>3, InTable
<1>5. PICK i \in 1 .. Len(r.freqs) : r.freqs[i].score = w
  <2>1. Holds(stats[x.asgt][g], x.grade)
    BY <1>1, TableHolds
  <2> QED BY <1>3, <1>4, <2>1 DEF Holds
<1>6. PICK v \in Int : v = y.grade /\ v < w
  BY <1>2, <1>3, InTable
<1>7. PICK j \in 1 .. Len(r.freqs) : r.freqs[j].score = v
  <2>1. Holds(stats[y.asgt][g], y.grade)
    BY <1>2, TableHolds
  <2>2. stats[y.asgt][g] = r
    BY <1>3, <1>4
  <2> QED BY <1>6, <2>1, <2>2 DEF Holds
<1>8. PICK p : p = course.asgts[a]
  OBVIOUS
<1>9. /\ p.npolicy \in {"RAW", "LINEAR", "SCALE", "QUANTILE"} /\ p.max \in Int
      /\ p.mean \in Int /\ p.stddev \in Int /\ p.scale \in Int
  BY <1>8, AsgtType
<1>10. NormalBy(normal(v, a, Of(t).section), v, p, r)
  <2>1. r = stats[a][GroupOf(a, Of(t).section)]
    BY <1>2, <1>3, <1>4
  <2> QED BY <1>8, <1>9, <2>1, NormalIs
<1>11. NormalBy(normal(w, a, Of(s).section), w, p, r)
  <2>1. r = stats[a][GroupOf(a, Of(s).section)]
    BY <1>1, <1>3, <1>4
  <2> QED BY <1>8, <1>9, <2>1, NormalIs
<1>12. normal(v, a, Of(t).section) <= normal(w, a, Of(s).section)
  <2>1. CASE p.npolicy = "RAW"
    BY <1>6, <1>10, <1>11, <2>1 DEF NormalBy
  <2>2. CASE p.npolicy = "LINEAR"
    <3>1. r.mean \in Int /\ r.stddev \in Int
      BY DEF Records
    <3>2. PICK d \in Nat : d = AtLeastTiny(r.stddev) /\ d # 0
      BY <3>1, TinyType
    <3>3. p.stddev \in Nat
      BY <1>3, <1>8, <1>9, <2>2, SMTT(20)
    <3>4. linear(v, r.mean, d, p.mean, p.stddev) <= linear(w, r.mean, d, p.mean, p.stddev)
      <4>1. v <= w /\ d # 0 /\ p.mean \in Int
        BY <1>6, <1>9, <3>2
      <4> QED BY <3>1, <3>3, <4>1, LinearOrder
    <3> QED BY <1>10, <1>11, <2>2, <3>2, <3>4 DEF NormalBy
  <2>3. CASE p.npolicy = "SCALE"
    <3>1. PICK d \in Nat : d = AtLeastTiny(p.max) /\ d # 0
      BY <1>9, TinyType
    <3>2. p.scale \in Nat
      BY <1>3, <1>8, <1>9, <2>3, SMTT(20)
    <3>3. scale(v, d, p.scale) <= scale(w, d, p.scale)
      BY <1>6, <3>1, <3>2, ScaleOrder, SMTT(20)
    <3> QED BY <1>10, <1>11, <2>3, <3>1, <3>3 DEF NormalBy
  <2>4. CASE p.npolicy = "QUANTILE"
    <3>1. quantile(v, r) <= quantile(w, r)
      BY <1>4, <1>5, <1>6, <1>7, QuantileOrder
    <3> QED BY <1>10, <1>11, <2>4, <3>1 DEF NormalBy
  <2> QED BY <1>9, <2>1, <2>2, <2>3, <2>4
<1> QED BY <1>3, <1>6, <1>12

LEMMA NormalRange ==
  ASSUME IsCourse(course), StatsType, Complete,
         NEW s \in Students, NEW k \in 1 .. Len(Of(s).scores), NEW x, x = Of(s).scores[k],
         Tallied(x), course.asgts[x.asgt].npolicy = "QUANTILE"
  PROVE  normal(x.grade, x.asgt, Of(s).section) \in 0 .. 100 * Unit
<1>1. PICK g \in Groups : g = GroupOf(x.asgt, Of(s).section) /\ g \in {0, Of(s).section}
  BY GroupType
<1>2. PICK a \in Asgts, w \in Int : a = x.asgt /\ w = x.grade
  BY <1>1, InTable
<1>3. PICK r \in Records : r = stats[a][g] /\ Cumulates(r, Counted(a, g))
  BY <1>1, <1>2, InTable
<1>4. PICK i \in 1 .. Len(r.freqs) : r.freqs[i].score = w
  BY <1>1, <1>2, <1>3, InTable
<1>5. normal(w, a, Of(s).section) = quantile(w, r)
  <2>1. PICK p : p = course.asgts[a] /\ p.npolicy = "QUANTILE"
    BY <1>2
  <2>2. r = stats[a][GroupOf(a, Of(s).section)]
    BY <1>1, <1>2, <1>3
  <2>3. NormalBy(normal(w, a, Of(s).section), w, p, r)
    BY <2>1, <2>2, NormalIs
  <2> QED BY <2>1, <2>3 DEF NormalBy
<1>6. quantile(w, r) \in 0 .. 100 * Unit
  BY <1>3, <1>4, QuantileRange
<1> QED BY <1>2, <1>5, <1>6

-----------------------------------------------------------------------------
(* Weighted averages.                                                      *)

LEMMA Distributed ==
  ASSUME NEW c \in Int, NEW x \in Int, NEW y \in Int
  PROVE  c * (x + y) = c * x + c * y /\ c * x \in Int /\ c * y \in Int /\ c * (x + y) \in Int
OBVIOUS

LEMMA TotalAtLeast ==
  ASSUME NEW s \in Seq(Int), NEW w \in Seq(Int), Len(w) = Len(s), NEW c \in Int,
         \A n \in 1 .. Len(s) : c * w[n] <= s[n]
  PROVE  c * Total(w) <= Total(s)
<1>1. PICK L \in Nat : L = Len(s)
  OBVIOUS
<1>2. PICK f : Sums(f, s) /\ Total(s) = f[L] /\ \A n \in 0 .. L : f[n] \in Int
  BY <1>1, TotalIs
<1>3. PICK g : Sums(g, w) /\ Total(w) = g[L] /\ \A n \in 0 .. L : g[n] \in Int
  BY <1>1, TotalIs
<1>4. \A n \in 0 .. L : f[n] = IF n = 0 THEN 0 ELSE f[n - 1] + s[n]
  BY <1>1, <1>2 DEF Sums
<1>5. \A n \in 0 .. L : g[n] = IF n = 0 THEN 0 ELSE g[n - 1] + w[n]
  BY <1>1, <1>3 DEF Sums
<1>6. \A n \in 1 .. L : s[n] \in Int /\ w[n] \in Int /\ c * w[n] <= s[n]
  BY <1>1
<1> DEFINE T == {n \in 0 .. L : c * g[n] <= f[n]}
<1>7. 0 \in T
  <2>1. f[0] = 0 /\ g[0] = 0
    BY <1>1, <1>4, <1>5
  <2> QED BY <1>1, <2>1
<1>8. ASSUME NEW n \in 1 .. L, n - 1 \in T PROVE n \in T
  <2>1. PICK F \in Int, G \in Int, u \in Int, v \in Int :
          F = f[n - 1] /\ G = g[n - 1] /\ u = s[n] /\ v = w[n]
    <3>1. n - 1 \in 0 .. L
      BY <1>1
    <3>2. f[n - 1] \in Int /\ g[n - 1] \in Int /\ s[n] \in Int /\ w[n] \in Int
      BY <1>2, <1>3, <1>6, <3>1
    <3> QED BY <3>2
  <2>2. f[n] = F + u /\ g[n] = G + v /\ n \in 0 .. L
    BY <1>1, <1>4, <1>5, <2>1
  <2>3. c * G <= F /\ c * v <= u
    BY <1>6, <1>8, <2>1
  <2>4. c * (G + v) <= F + u
    BY <2>3, Distributed
  <2> QED BY <2>2, <2>4
<1> HIDE DEF T
<1>9. L \in T
  <2>1. \A n \in 0 .. L : n \in T
    BY <1>7, <1>8, UpTo
  <2> QED BY <1>1, <2>1
<1> QED BY <1>2, <1>3, <1>9 DEF T

LEMMA TotalAtMost ==
  ASSUME NEW s \in Seq(Int), NEW w \in Seq(Int), Len(w) = Len(s), NEW c \in Int,
         \A n \in 1 .. Len(s) : s[n] <= c * w[n]
  PROVE  Total(s) <= c * Total(w)
<1>1. PICK L \in Nat : L = Len(s)
  OBVIOUS
<1>2. PICK f : Sums(f, s) /\ Total(s) = f[L] /\ \A n \in 0 .. L : f[n] \in Int
  BY <1>1, TotalIs
<1>3. PICK g : Sums(g, w) /\ Total(w) = g[L] /\ \A n \in 0 .. L : g[n] \in Int
  BY <1>1, TotalIs
<1>4. \A n \in 0 .. L : f[n] = IF n = 0 THEN 0 ELSE f[n - 1] + s[n]
  BY <1>1, <1>2 DEF Sums
<1>5. \A n \in 0 .. L : g[n] = IF n = 0 THEN 0 ELSE g[n - 1] + w[n]
  BY <1>1, <1>3 DEF Sums
<1>6. \A n \in 1 .. L : s[n] \in Int /\ w[n] \in Int /\ s[n] <= c * w[n]
  BY <1>1
<1> DEFINE T == {n \in 0 .. L : f[n] <= c * g[n]}
<1>7. 0 \in T
  <2>1. f[0] = 0 /\ g[0] = 0
    BY <1>1, <1>4, <1>5
  <2> QED BY <1>1, <2>1
<1>8. ASSUME NEW n \in 1 .. L, n - 1 \in T PROVE n \in T
  <2>1. PICK F \in Int, G \in Int, u \in Int, v \in Int :
          F = f[n - 1] /\ G = g[n - 1] /\ u = s[n] /\ v = w[n]
    <3>1. n - 1 \in 0 .. L
      BY <1>1
    <3>2. f[n - 1] \in Int /\ g[n - 1] \in Int /\ s[n] \in Int /\ w[n] \in Int
      BY <1>2, <1>3, <1>6, <3>1
    <3> QED BY <3>2
  <2>2. f[n] = F + u /\ g[n] = G + v /\ n \in 0 .. L
    BY <1>1, <1>4, <1>5, <2>1
  <2>3. F <= c * G /\ u <= c * v
    BY <1>6, <1>8, <2>1
  <2>4. F + u <= c * (G + v)
    BY <2>3, Distributed
  <2> QED BY <2>2, <2>4
<1> HIDE DEF T
<1>9. L \in T
  <2>1. \A n \in 0 .. L : n \in T
    BY <1>7, <1>8, UpTo
  <2> QED BY <1>1, <2>1
<1> QED BY <1>2, <1>3, <1>9 DEF T

LEMMA TotalPositive ==
  ASSUME NEW s \in Seq(Int), \A n \in 1 .. Len(s) : s[n] >= 0,
         NEW i \in 1 .. Len(s), s[i] > 0
  PROVE  Total(s) > 0
<1>1. PICK L \in Nat : L = Len(s)
  OBVIOUS
<1>2. PICK f : Sums(f, s) /\ Total(s) = f[L] /\ \A n \in 0 .. L : f[n] \in Int
  BY <1>1, TotalIs
<1>3. \A n \in 0 .. L : f[n] = IF n = 0 THEN 0 ELSE f[n - 1] + s[n]
  BY <1>1, <1>2 DEF Sums
<1>4. \A n \in 1 .. L : s[n] \in Int /\ s[n] >= 0
  BY <1>1
<1> DEFINE T == {n \in 0 .. L : f[n] >= 0 /\ (n >= i => f[n] > 0)}
<1>5. 0 \in T
  BY <1>1, <1>3
<1>6. ASSUME NEW n \in 1 .. L, n - 1 \in T PROVE n \in T
  <2>1. PICK F \in Int, u \in Int : F = f[n - 1] /\ u = s[n] /\ u >= 0
    BY <1>1, <1>2, <1>4
  <2>2. f[n] = F + u /\ n \in 0 .. L
    BY <1>1, <1>3, <2>1
  <2>3. F >= 0 /\ (n - 1 >= i => F > 0)
    BY <1>6, <2>1
  <2>4. n = i => u > 0
    BY <2>1
  <2>5. n >= i => n = i \/ n - 1 >= i
    BY <1>1
  <2> QED BY <2>1, <2>2, <2>3, <2>4, <2>5, SMTT(20)
<1> HIDE DEF T
<1>7. L \in T
  <2>1. \A n \in 0 .. L : n \in T
    BY <1>5, <1>6, UpTo
  <2> QED BY <1>1, <2>1
<1>8. L >= i
  BY <1>1
<1> QED BY <1>2, <1>7, <1>8 DEF T

\* The quotient of A and B is between two of the values of v on K.
Between(A, B, K, v) ==
  /\ B \in Nat /\ B # 0 /\ A \in Int
  /\ \E k \in K : v[k] <= A \div B
  /\ \E k \in K : A \div B <= v[k]

\* An average with positive weights is between the least and the greatest score.
LEMMA Averaged ==
  ASSUME NEW L \in Nat, NEW K, K \subseteq 1 .. L, K # {},
         NEW v, NEW w, \A k \in K : v[k] \in Int /\ w[k] \in Nat /\ w[k] # 0,
         NEW A, A = Total([k \in 1 .. L |-> IF k \in K THEN w[k] * v[k] ELSE 0]),
         NEW B, B = Total([k \in 1 .. L |-> IF k \in K THEN w[k] ELSE 0])
  PROVE  Between(A, B, K, v)
<1>1. PICK s : s = [k \in 1 .. L |-> IF k \in K THEN w[k] * v[k] ELSE 0]
  OBVIOUS
<1>2. PICK u : u = [k \in 1 .. L |-> IF k \in K THEN w[k] ELSE 0]
  OBVIOUS
<1>3. s \in Seq(Int) /\ Len(s) = L
      /\ \A k \in 1 .. L : s[k] = IF k \in K THEN w[k] * v[k] ELSE 0
  BY <1>1
<1>4. u \in Seq(Int) /\ Len(u) = L
      /\ \A k \in 1 .. L : u[k] = IF k \in K THEN w[k] ELSE 0
  BY <1>2
<1>5. A = Total(s) /\ B = Total(u) /\ A \in Int /\ B \in Int
  BY <1>1, <1>2, <1>3, <1>4, TotalType
<1>6. B > 0
  <2>1. PICK i \in K : TRUE
    OBVIOUS
  <2>2. i \in 1 .. Len(u) /\ u[i] > 0
    BY <1>4, <2>1
  <2>3. ASSUME NEW n \in 1 .. Len(u) PROVE u[n] >= 0
    <3>1. u[n] = 0 \/ (n \in K /\ u[n] = w[n])
      BY <1>4
    <3> QED BY <3>1
  <2> QED BY <1>4, <1>5, <2>2, <2>3, TotalPositive
<1>7. PICK d \in Nat : d = B /\ d # 0
  <2>1. B \in Nat /\ B # 0
    <3>1. B \in Int
      BY <1>5
    <3> QED BY <1>6, <3>1
  <2> QED BY <2>1
<1>8. PICK q \in Int : q = A \div d /\ q * d <= A /\ A < q * d + d
  BY <1>5, <1>7, Quotients
<1>9. \E k \in K : v[k] <= q
  <2> SUFFICES ASSUME \A k \in K : ~(v[k] <= q) PROVE FALSE
    OBVIOUS
  <2>0. ASSUME NEW k \in K PROVE q + 1 <= v[k]
    <3>1. v[k] \in Int /\ ~(v[k] <= q)
      OBVIOUS
    <3> QED BY <3>1
  <2>1. ASSUME NEW n \in 1 .. L PROVE (q + 1) * u[n] <= s[n]
    <3>1. CASE n \in K
      <4>1. PICK e \in Nat, x \in Int : e = w[n] /\ x = v[n] /\ q + 1 <= x
        BY <2>0, <3>1
      <4>2. (q + 1) * e <= x * e /\ x * e = e * x
        BY <4>1, Products
      <4> QED BY <1>3, <1>4, <3>1, <4>1, <4>2
    <3>2. CASE n \notin K
      BY <1>3, <1>4, <3>2
    <3> QED BY <3>1, <3>2
  <2>2. (q + 1) * Total(u) <= Total(s)
    <3>1. q + 1 \in Int
      OBVIOUS
    <3> QED BY <1>3, <1>4, <2>1, <3>1, TotalAtLeast
  <2>3. (q + 1) * d = q * d + d /\ q * d \in Int
    OBVIOUS
  <2>4. q * d + d <= A
    BY <1>5, <1>7, <2>2, <2>3
  <2>5. PICK Q \in Int : Q = q * d
    BY <2>3
  <2>6. A \in Int /\ A < Q + d /\ Q + d <= A
    BY <1>5, <1>8, <2>4, <2>5
  <2> QED BY <2>6
<1>10. \E k \in K : q <= v[k]
  <2> SUFFICES ASSUME \A k \in K : ~(q <= v[k]) PROVE FALSE
    OBVIOUS
  <2>0. ASSUME NEW k \in K PROVE v[k] <= q - 1
    <3>1. v[k] \in Int /\ ~(q <= v[k])
      OBVIOUS
    <3> QED BY <3>1
  <2>1. ASSUME NEW n \in 1 .. L PROVE s[n] <= (q - 1) * u[n]
    <3>1. CASE n \in K
      <4>1. PICK e \in Nat, x \in Int : e = w[n] /\ x = v[n] /\ x <= q - 1
        BY <2>0, <3>1
      <4>2. x * e <= (q - 1) * e /\ x * e = e * x
        <5>1. PICK z \in Int : z = q - 1
          OBVIOUS
        <5>2. x * e <= z * e
          BY <4>1, <5>1, Products
        <5> QED BY <5>1, <5>2
      <4> QED BY <1>3, <1>4, <3>1, <4>1, <4>2
    <3>2. CASE n \notin K
      BY <1>3, <1>4, <3>2
    <3> QED BY <3>1, <3>2
  <2>2. Total(s) <= (q - 1) * Total(u)
    <3>1. q - 1 \in Int
      OBVIOUS
    <3> QED BY <1>3, <1>4, <2>1, <3>1, TotalAtMost
  <2>3. (q - 1) * d = q * d - d /\ q * d \in Int
    OBVIOUS
  <2>4. A <= q * d - d
    BY <1>5, <1>7, <2>2, <2>3
  <2>5. PICK Q \in Int : Q = q * d
    BY <2>3
  <2>6. A \in Int /\ Q <= A /\ A <= Q - d
    BY <1>5, <1>8, <2>4, <2>5
  <2>7. d > 0
    BY <1>7
  <2> QED BY <2>6, <2>7
<1> QED BY <1>5, <1>7, <1>8, <1>9, <1>10 DEF Between

LEMMA LikeAverage ==
  ASSUME IsCourse(course), StatsType, NEW s \in Students, NEW t, Like(s, t) # {},
         \A k \in Like(s, t) : LET q == course.asgts[Of(s).scores[k].asgt] IN
                               q.weighted /\ q.weight > 0
  PROVE  /\ \E k \in Like(s, t) : LET x == Of(s).scores[k] IN
              normal(x.grade, x.asgt, Of(s).section) <= studentavg(s, t)
         /\ \E k \in Like(s, t) : LET x == Of(s).scores[k] IN
              studentavg(s, t) <= normal(x.grade, x.asgt, Of(s).section)
<1>1. PICK L \in Nat : L = Len(Of(s).scores) /\ DOMAIN Of(s).scores = 1 .. L
  BY StudentType
<1>2. PICK K : K = Like(s, t) /\ K # {} /\ K \subseteq 1 .. L
  BY <1>1 DEF Like
<1>3. PICK v : v = [k \in 1 .. L |->
                 normal(Of(s).scores[k].grade, Of(s).scores[k].asgt, Of(s).section)]
  OBVIOUS
<1>4. PICK w : w = [k \in 1 .. L |-> course.asgts[Of(s).scores[k].asgt].weight]
  OBVIOUS
<1>5. ASSUME NEW k \in K
      PROVE  /\ v[k] \in Int /\ w[k] \in Nat /\ w[k] # 0
             /\ v[k] = normal(Of(s).scores[k].grade, Of(s).scores[k].asgt, Of(s).section)
             /\ w[k] = course.asgts[Of(s).scores[k].asgt].weight
             /\ course.asgts[Of(s).scores[k].asgt].weighted
  <2>1. k \in 1 .. L
    BY <1>2
  <2>2. Of(s).scores[k] \in Scores(course.asgts) /\ Of(s).section \in 1 .. course.sections
    BY <1>1, <2>1, StudentType
  <2>3. PICK a \in Asgts, g \in Int : a = Of(s).scores[k].asgt /\ g = Of(s).scores[k].grade
    BY <2>2, ScoreType
  <2>4. normal(g, a, Of(s).section) \in Int
    BY <2>2, NormalType
  <2>5. course.asgts[a].weight \in Int /\ course.asgts[a].weight > 0 /\ course.asgts[a].weighted
    BY <1>2, <2>3, AsgtType
  <2>6. v[k] = normal(g, a, Of(s).section) /\ w[k] = course.asgts[a].weight
    BY <1>3, <1>4, <2>1, <2>3
  <2> QED BY <2>3, <2>4, <2>5, <2>6
<1>6. PICK A : A = Total([k \in 1 .. L |-> IF k \in K THEN w[k] * v[k] ELSE 0])
  OBVIOUS
<1>7. PICK B : B = Total([k \in 1 .. L |-> IF k \in K THEN w[k] ELSE 0])
  OBVIOUS
<1>8. /\ B \in Nat /\ B # 0 /\ A \in Int
      /\ \E k \in K : v[k] <= A \div B
      /\ \E k \in K : A \div B <= v[k]
  <2>1. \A k \in K : v[k] \in Int /\ w[k] \in Nat /\ w[k] # 0
    BY <1>5
  <2>2. Between(A, B, K, v)
    BY <1>2, <1>6, <1>7, <2>1, Averaged
  <2> QED BY <2>2 DEF Between
<1>9. LikeSum(s, t) = A
  <2>1. LikeSum(s, t) =
          Total([k \in 1 .. L |->
            IF k \in K
              THEN (IF course.asgts[Of(s).scores[k].asgt].weighted
                      THEN course.asgts[Of(s).scores[k].asgt].weight ELSE 1)
                     * normal(Of(s).scores[k].grade, Of(s).scores[k].asgt, Of(s).section)
              ELSE 0])
    BY <1>1, <1>2 DEF LikeSum
  <2>2. [k \in 1 .. L |->
            IF k \in K
              THEN (IF course.asgts[Of(s).scores[k].asgt].weighted
                      THEN course.asgts[Of(s).scores[k].asgt].weight ELSE 1)
                     * normal(Of(s).scores[k].grade, Of(s).scores[k].asgt, Of(s).section)
              ELSE 0]
        = [k \in 1 .. L |-> IF k \in K THEN w[k] * v[k] ELSE 0]
    BY <1>5, Zenon
  <2> QED BY <1>6, <2>1, <2>2, Zenon
<1>10. studentavg(s, t) = A \div B
  <2>1. studentavg(s, t) =
          LET d == Total([k \in 1 .. L |->
                     IF k \in K /\ course.asgts[Of(s).scores[k].asgt].weighted
                     THEN course.asgts[Of(s).scores[k].asgt].weight ELSE 0])
          IN IF d = 0 THEN 0 ELSE Quotient(LikeSum(s, t), d)
    BY <1>1, <1>2 DEF studentavg
  <2>2. [k \in 1 .. L |-> IF k \in K /\ course.asgts[Of(s).scores[k].asgt].weighted
                          THEN course.asgts[Of(s).scores[k].asgt].weight ELSE 0]
        = [k \in 1 .. L |-> IF k \in K THEN w[k] ELSE 0]
    BY <1>5, Zenon
  <2>3. studentavg(s, t) = IF B = 0 THEN 0 ELSE Quotient(LikeSum(s, t), B)
    BY <1>7, <2>1, <2>2, Zenon
  <2>4. studentavg(s, t) = Quotient(A, B)
    BY <1>8, <1>9, <2>3
  <2>5. ~(B < 0)
    BY <1>8
  <2> QED BY <2>4, <2>5 DEF Quotient
<1> QED BY <1>2, <1>5, <1>8, <1>10

-----------------------------------------------------------------------------
(* What normalize leaves as it was.                                        *)

LEMMA MeansIs ==
  (\A s, t \in Range(Walk) : \A k \in DOMAIN norm[s] :
     Keeps(s, t, k) /\ Percents(s, k) /\ Averages(s, k)) => NormMeans
BY DEF NormMeans

\* An assignment, but for the maximum that normal may raise.
Alike(q, p) ==
  /\ q.npolicy = p.npolicy /\ q.ngroup = p.ngroup /\ q.atype = p.atype
  /\ q.weighted = p.weighted /\ q.weight = p.weight /\ q.stddev = p.stddev
  /\ q.scale = p.scale /\ q.mean = p.mean

LEMMA NormalizeKeeps ==
  ASSUME IInv, normalize
  PROVE  /\ pc' = "composites" /\ Walk' = Walk /\ Range(Walk) \subseteq Students
         /\ course'.students = course.students /\ course'.sections = course.sections
         /\ Asgts' = Asgts /\ \A a \in Asgts : Alike(course'.asgts[a], course.asgts[a])
         /\ \A s \in Range(Walk) :
              norm'[s] = [k \in 1 .. Len(Of(s).scores) |-> Normalized(s, Of(s).scores[k])]
<1>0. IsCourse(course) /\ pc = "normalize" /\ Met
  BY DEF IInv, Core, normalize
<1>1. pc' = "composites" /\ UNCHANGED <<cnext, roster>>
  BY DEF normalize, linkvars
<1>2. Walk \in Seq(Students) /\ Range(Walk) \subseteq Students
  <2>1. Walk \in Seq(Students)
    BY <1>0 DEF Met, After, Counting
  <2> QED BY <2>1 DEF Range
<1>3. PICK F : /\ course' = [course EXCEPT !.asgts = F]
               /\ F = [a \in Asgts |->
                         IF \E s \in Range(Walk) : Touched(s, a, "SCALE")
                         THEN [course.asgts[a] EXCEPT !.max = AtLeastTiny(course.asgts[a].max)]
                         ELSE course.asgts[a]]
  BY DEF normalize
<1>4. course'.students = course.students /\ course'.sections = course.sections
      /\ course'.asgts = F
  BY <1>0, <1>3 DEF IsCourse
<1>5. Asgts' = Asgts
  BY <1>3, <1>4 DEF Asgts
<1>6. ASSUME NEW a \in Asgts PROVE Alike(course'.asgts[a], course.asgts[a])
  <2> DEFINE R == [npolicy : {"RAW", "LINEAR", "SCALE", "QUANTILE"},
                   ngroup : {"BYCLASS", "BYSECTION"}, weighted : BOOLEAN,
                   weight : Int, max : Int, mean : Int, stddev : Int,
                   scale : Int, atype : STRING]
  <2>0. course.asgts \in Seq(R) /\ Asgts = 1 .. Len(course.asgts) /\ Len(course.asgts) \in Nat
    BY <1>0, CourseType DEF IsCourse
  <2>1. PICK p : p = course.asgts[a]
    OBVIOUS
  <2>2. p \in R
    <3> HIDE DEF R
    <3> QED BY <2>0, <2>1
  <2>3. F[a] = p \/ F[a] = [p EXCEPT !.max = AtLeastTiny(p.max)]
    BY <1>3, <2>1
  <2>4. Alike(p, p)
    BY DEF Alike
  <2>5. Alike([p EXCEPT !.max = AtLeastTiny(p.max)], p)
    BY <2>2 DEF Alike
  <2> QED BY <1>4, <2>1, <2>3, <2>4, <2>5
<1>7. ASSUME NEW s \in Range(Walk)
      PROVE  norm'[s] = [k \in 1 .. Len(Of(s).scores) |-> Normalized(s, Of(s).scores[k])]
  <2>1. s \in Students /\ DOMAIN Of(s).scores = 1 .. Len(Of(s).scores)
    BY <1>0, <1>2, StudentType
  <2> QED BY <2>1 DEF normalize
<1>8. Walk' = Walk
  BY <1>1, <1>4, WalkSame
<1> QED BY <1>1, <1>2, <1>4, <1>5, <1>6, <1>7, <1>8

LEMMA NormalizeMeans ==
  ASSUME IInv, Exact, normalize
  PROVE  NormMeans'
<1>0. IsCourse(course) /\ StatsType /\ Complete
  <2>1. IsCourse(course) /\ StatsType /\ pc = "normalize"
    BY DEF IInv, Core, Typed, normalize, Counting
  <2>2. Complete
    BY <2>1 DEF Exact, ExactFor, Complete
  <2> QED BY <2>1, <2>2
<1>1. /\ Walk' = Walk /\ Range(Walk) \subseteq Students
      /\ \A a \in Asgts : Alike(course'.asgts[a], course.asgts[a])
      /\ \A s \in Range(Walk) :
           norm'[s] = [k \in 1 .. Len(Of(s).scores) |-> Normalized(s, Of(s).scores[k])]
  BY NormalizeKeeps
<1>2. \A s : Of(s)' = Of(s)
  BY NormalizeKeeps DEF Of
<1>3. \A a \in Asgts : \A section : GroupOf(a, section)' = GroupOf(a, section)
  BY <1>1 DEF GroupOf, Alike
<1>4. ASSUME NEW s \in Range(Walk), NEW k \in DOMAIN norm'[s]
      PROVE  /\ s \in Students /\ k \in 1 .. Len(Of(s).scores)
             /\ norm'[s][k] = Normalized(s, Of(s).scores[k])
             /\ Of(s).scores[k] \in Scores(course.asgts) /\ Of(s).scores[k].asgt \in Asgts
             /\ Tallied(Of(s).scores[k]) =>
                  norm'[s][k] = normal(Of(s).scores[k].grade, Of(s).scores[k].asgt, Of(s).section)
  <2>1. s \in Students
    BY <1>1
  <2>2. k \in 1 .. Len(Of(s).scores) /\ norm'[s][k] = Normalized(s, Of(s).scores[k])
    BY <1>1
  <2>3. PICK x : x = Of(s).scores[k] /\ x \in Scores(course.asgts)
    BY <1>0, <2>1, <2>2, StudentType
  <2>4. x.asgt \in Asgts
    BY <1>0, <2>3, ScoreType
  <2>5. Tallied(x) => Normalized(s, x) = normal(x.grade, x.asgt, Of(s).section)
    BY DEF Normalized
  <2> QED BY <2>1, <2>2, <2>3, <2>4, <2>5
<1>5. ASSUME NEW s \in Range(Walk), NEW t \in Range(Walk), NEW k \in DOMAIN norm'[s]
      PROVE  Keeps(s, t, k)'
  <2>1. PICK x : x = Of(s).scores[k]
    OBVIOUS
  <2>2. PICK p : p = course.asgts[x.asgt]
    OBVIOUS
  <2>3. PICK q : q = course'.asgts[x.asgt]
    OBVIOUS
  <2>4. Alike(q, p) /\ x.asgt \in Asgts
    BY <1>1, <1>4, <2>1, <2>2, <2>3
  <2>5. ASSUME Tallied(x), q.npolicy = "LINEAR" => q.stddev >= 0,
               q.npolicy = "SCALE" => q.scale >= 0, NEW m \in DOMAIN norm'[t],
               NEW y, y = Of(t).scores[m], y.asgt = x.asgt, Tallied(y), y.grade < x.grade,
               GroupOf(x.asgt, Of(s).section) \in {0, Of(t).section}
        PROVE  norm'[t][m] <= norm'[s][k]
    <3>1. s \in Students /\ k \in 1 .. Len(Of(s).scores)
          /\ norm'[s][k] = normal(x.grade, x.asgt, Of(s).section)
      BY <1>4, <2>1, <2>5
    <3>2. t \in Students /\ m \in 1 .. Len(Of(t).scores)
          /\ norm'[t][m] = normal(y.grade, y.asgt, Of(t).section)
      BY <1>4, <2>5
    <3>3. (p.npolicy = "LINEAR" => p.stddev >= 0) /\ (p.npolicy = "SCALE" => p.scale >= 0)
      BY <2>4, <2>5 DEF Alike
    <3>4. normal(y.grade, y.asgt, Of(t).section) <= normal(x.grade, x.asgt, Of(s).section)
      BY <1>0, <2>1, <2>2, <2>5, <3>1, <3>2, <3>3, NormalOrder
    <3> QED BY <3>1, <3>2, <3>4
  <2>6. GroupOf(x.asgt, Of(s).section)' = GroupOf(x.asgt, Of(s).section)
    BY <1>2, <1>3, <2>4
  <2> QED BY <1>2, <2>1, <2>3, <2>5, <2>6 DEF Keeps
<1>6. ASSUME NEW s \in Range(Walk), NEW k \in DOMAIN norm'[s] PROVE Percents(s, k)'
  <2>1. PICK x : x = Of(s).scores[k]
    OBVIOUS
  <2>2. ASSUME Tallied(x), course'.asgts[x.asgt].npolicy = "QUANTILE"
        PROVE  norm'[s][k] \in 0 .. 100 * Unit
    <3>1. s \in Students /\ k \in 1 .. Len(Of(s).scores) /\ x.asgt \in Asgts
          /\ norm'[s][k] = normal(x.grade, x.asgt, Of(s).section)
      BY <1>4, <2>1, <2>2
    <3>2. course.asgts[x.asgt].npolicy = "QUANTILE"
      BY <1>1, <2>2, <3>1 DEF Alike
    <3>3. normal(x.grade, x.asgt, Of(s).section) \in 0 .. 100 * Unit
      BY <1>0, <2>1, <2>2, <3>1, <3>2, NormalRange
    <3> QED BY <3>1, <3>3
  <2> QED BY <1>2, <2>1, <2>2 DEF Percents
<1>7. ASSUME NEW s \in Range(Walk), NEW k \in DOMAIN norm'[s] PROVE Averages(s, k)'
  <2>1. PICK x : x = Of(s).scores[k]
    OBVIOUS
  <2>2. PICK ty : ty = course.asgts[x.asgt].atype
    OBVIOUS
  <2>3. PICK like : like = {m \in DOMAIN norm'[s] :
                             /\ course'.asgts[Of(s).scores[m].asgt].atype
                                  = course'.asgts[x.asgt].atype
                             /\ Tallied(Of(s).scores[m])}
    OBVIOUS
  <2>4. like = Like(s, ty)
    <3>1. DOMAIN norm'[s] = 1 .. Len(Of(s).scores) /\ s \in Students
      BY <1>1
    <3>2. DOMAIN Of(s).scores = 1 .. Len(Of(s).scores)
      BY <1>0, <3>1, StudentType
    <3>3. \A m \in DOMAIN norm'[s] : course'.asgts[Of(s).scores[m].asgt].atype
                                       = course.asgts[Of(s).scores[m].asgt].atype
      BY <1>1, <1>4 DEF Alike
    <3>4. course'.asgts[x.asgt].atype = ty
      BY <2>1, <2>2, <3>3
    <3> QED BY <2>3, <3>1, <3>2, <3>3, <3>4 DEF Like
  <2>5. ASSUME ~Tallied(x), x.subst = "USELIKEAVG", like # {},
               \A m \in like : course'.asgts[Of(s).scores[m].asgt].weighted
                               /\ course'.asgts[Of(s).scores[m].asgt].weight > 0
        PROVE  /\ \E m \in like : norm'[s][m] <= norm'[s][k]
               /\ \E m \in like : norm'[s][k] <= norm'[s][m]
    <3>1. s \in Students /\ norm'[s][k] = Normalized(s, x)
      BY <1>4, <2>1
    <3>2. norm'[s][k] = studentavg(s, ty)
      BY <2>2, <2>5, <3>1 DEF Normalized, Tallied
    <3>3. ASSUME NEW m \in Like(s, ty)
          PROVE  /\ norm'[s][m] = normal(Of(s).scores[m].grade, Of(s).scores[m].asgt,
                                         Of(s).section)
                 /\ course.asgts[Of(s).scores[m].asgt].weighted
                 /\ course.asgts[Of(s).scores[m].asgt].weight > 0
      <4>1. m \in like /\ m \in DOMAIN norm'[s] /\ Tallied(Of(s).scores[m])
        BY <2>3, <2>4
      <4>2. Of(s).scores[m].asgt \in Asgts
        BY <1>4, <4>1
      <4>3. Alike(course'.asgts[Of(s).scores[m].asgt], course.asgts[Of(s).scores[m].asgt])
        BY <1>1, <4>2
      <4> QED BY <1>4, <2>5, <4>1, <4>3 DEF Alike
    <3>4. /\ \E m \in Like(s, ty) :
               normal(Of(s).scores[m].grade, Of(s).scores[m].asgt, Of(s).section)
                 <= studentavg(s, ty)
          /\ \E m \in Like(s, ty) :
               studentavg(s, ty) <=
                 normal(Of(s).scores[m].grade, Of(s).scores[m].asgt, Of(s).section)
      BY <1>0, <2>4, <2>5, <3>1, <3>3, LikeAverage
    <3> QED BY <2>4, <3>2, <3>3, <3>4
  <2> QED BY <1>2, <2>1, <2>3, <2>5 DEF Averages
<1>8. (\A s, t \in Range(Walk) : \A k \in DOMAIN norm[s] :
         Keeps(s, t, k) /\ Percents(s, k) /\ Averages(s, k))' => NormMeans'
  BY MeansIs, PTL
<1> QED BY <1>1, <1>5, <1>6, <1>7, <1>8

\* Whatever the course, normal, linear, scale and studentavg of normal.c keep the
\* order of scores, percentages between 0 and 100, and averages between scores.
THEOREM NormalizationMeans == Spec => []NormMeans
<1>1. Init => NormMeans
  BY DEF Init, NormMeans
<1>2. Init => Exact
  BY DEF Init, Exact, ExactFor, Counting
<1>3. IInv /\ Exact /\ NormMeans /\ [Next]_vars => NormMeans'
  <2> SUFFICES ASSUME IInv, Exact, NormMeans, [Next]_vars PROVE NormMeans'
    OBVIOUS
  <2>1. CASE normalize
    BY <2>1, NormalizeMeans
  <2>2. CASE Option \/ OptionsEnd \/ buildstats \/ do_links \/ do_freqs \/ do_quantiles
             \/ do_sums \/ do_moments
    <3>1. pc' # "composites"
      BY <2>2 DEF Option, OptionsEnd, buildstats, do_links, do_freqs, do_quantiles, do_sums,
                  do_moments, EachScore
    <3> QED BY <3>1 DEF NormMeans
  <2>3. CASE composites \/ sorttable \/ sortroster \/ SortAgain \/ Report
    <3>1. pc' # "composites"
      BY <2>3 DEF composites, sorttable, sortroster, SortAgain, Report
    <3> QED BY <3>1 DEF NormMeans
  <2>4. CASE UNCHANGED vars
    <3>1. UNCHANGED <<pc, course, norm, cnext, roster>>
      BY <2>4 DEF vars, linkvars
    <3>2. Walk' = Walk
      BY <3>1, WalkSame
    <3>3. Range(Walk)' = Range(Walk)
      BY <3>2 DEF Range
    <3>4. (\A s : Of(s)' = Of(s)) /\ (\A a, g : GroupOf(a, g)' = GroupOf(a, g))
      BY <3>1 DEF Of, GroupOf
    <3>5. CASE pc # "composites"
      BY <3>1, <3>5 DEF NormMeans
    <3>6. CASE pc = "composites"
      <4>1. ASSUME NEW s \in Range(Walk), NEW t \in Range(Walk), NEW k \in DOMAIN norm[s]
            PROVE  Keeps(s, t, k) /\ Percents(s, k) /\ Averages(s, k)
        BY <3>6, <4>1 DEF NormMeans
      <4>2. ASSUME NEW s \in Range(Walk), NEW t \in Range(Walk), NEW k \in DOMAIN norm[s]
            PROVE  (Keeps(s, t, k) /\ Percents(s, k) /\ Averages(s, k))'
        <5>1. Keeps(s, t, k)'
          BY <3>1, <3>4, <4>1 DEF Keeps
        <5>2. Percents(s, k)'
          BY <3>1, <3>4, <4>1 DEF Percents
        <5>3. Averages(s, k)'
          BY <3>1, <3>4, <4>1 DEF Averages
        <5> QED BY <5>1, <5>2, <5>3
      <4>3. (\A s, t \in Range(Walk) : \A k \in DOMAIN norm[s] :
               Keeps(s, t, k) /\ Percents(s, k) /\ Averages(s, k))'
        BY <3>1, <3>3, <4>2
      <4> QED BY <4>3, MeansIs, PTL
    <3> QED BY <3>5, <3>6
  <2> QED BY <2>1, <2>2, <2>3, <2>4 DEF Next
<1> QED BY <1>1, <1>2, <1>3, NextExact, GradesInvariant, PTL DEF Spec

-----------------------------------------------------------------------------
(* The tables stay as they are behind normalize.                           *)

LEMMA CumulatesSame ==
  ASSUME course'.students = course.students
  PROVE  /\ \A a, g : Counted(a, g)' = Counted(a, g)
         /\ \A r, S : Cumulates(r, S) => Cumulates(r, S)'
<1>1. \A a, g : Counted(a, g)' = Counted(a, g)
  BY DEF Counted, Students, Of
<1>2. \A x : Grade(x)' = Grade(x)
  BY DEF Grade, Of
<1>3. \A S : Graded(S)' <=> Graded(S)
  BY <1>2 DEF Graded
<1>4. \A S, v : Equal(S, v)' = Equal(S, v) /\ Below(S, v)' = Below(S, v)
  BY <1>2 DEF Equal, Below
<1>5. \A f, S : Tabled(f, S) => Tabled(f, S)'
  BY <1>2, <1>4 DEF Tabled, Ascends
<1>6. \A r, S : Tallies(r, S) => Tallies(r, S)'
  BY <1>3, <1>5 DEF Tallies
<1>7. \A r, S : Cumulates(r, S) => Cumulates(r, S)'
  BY <1>2, <1>4, <1>6 DEF Cumulates
<1> QED BY <1>1, <1>7

\* What is reported has been counted.
Summed == pc \in {"composites", "sort", "sorted"} => StatsType /\ Complete

LEMMA SummedSame ==
  ASSUME StatsType, Complete, course' = course, stats' = stats
  PROVE  (StatsType /\ Complete)'
<1>1. Asgts' = Asgts /\ Groups' = Groups
  BY DEF Asgts, Groups
<1>2. StatsType'
  BY <1>1 DEF StatsType
<1>3. ASSUME NEW a \in Asgts, NEW g \in Groups PROVE Cumulates(stats[a][g], Counted(a, g))'
  <2>1. PICK r, S : r = stats[a][g] /\ S = Counted(a, g) /\ Cumulates(r, S)
    BY DEF Complete
  <2>2. Cumulates(r, S)'
    BY <2>1, CumulatesSame
  <2>3. stats'[a][g] = r /\ Counted(a, g)' = S
    BY <2>1, CumulatesSame
  <2> QED BY <2>2, <2>3
<1> QED BY <1>1, <1>2, <1>3 DEF Complete

LEMMA NormalizeSummed ==
  ASSUME IInv, Exact, normalize
  PROVE  (StatsType /\ Complete)'
<1>0. IsCourse(course) /\ pc = "normalize" /\ StatsType
  BY DEF IInv, Core, Typed, normalize, Counting
<1>1. course'.students = course.students /\ course'.sections = course.sections /\ Asgts' = Asgts
  BY NormalizeKeeps
<1>2. Groups' = Groups
  BY <1>1 DEF Groups
<1>3. ASSUME NEW a \in Asgts, NEW g \in Groups
      PROVE  stats'[a][g] \in Records /\ Cumulates(stats[a][g], Counted(a, g))'
  <2>1. PICK r \in Records : r = stats[a][g]
    BY <1>0, RecordType
  <2>2. PICK S : S = Counted(a, g) /\ Cumulates(r, S)
    BY <1>0, <2>1 DEF Exact, ExactFor
  <2>3. PICK d \in Int : d = AtLeastTiny(r.stddev)
    BY DEF AtLeastTiny, Tiny, Records
  <2>4. PICK q : q = stats'[a][g]
    OBVIOUS
  <2>5. q = r \/ q = [r EXCEPT !.stddev = d]
    BY <2>1, <2>3, <2>4 DEF normalize
  <2>6. [r EXCEPT !.stddev = d] \in Records /\ [r EXCEPT !.stddev = d].freqs = r.freqs
        /\ [r EXCEPT !.stddev = d].tallied = r.tallied
    BY DEF Records
  <2>7. q \in Records /\ q.freqs = r.freqs /\ q.tallied = r.tallied
    BY <2>5, <2>6
  <2>8. Cumulates(q, S)
    BY <2>2, <2>7 DEF Cumulates, Tallies
  <2>9. Cumulates(q, S)' /\ Counted(a, g)' = S
    BY <1>1, <2>2, <2>8, CumulatesSame
  <2> QED BY <2>4, <2>7, <2>9
<1>4. StatsType'
  <2>1. stats' = [a \in Asgts |-> [g \in Groups |-> stats'[a][g]]]
    BY DEF normalize
  <2>2. stats' \in [Asgts -> [Groups -> Records]]
    BY <1>3, <2>1
  <2> QED BY <1>1, <1>2, <2>2 DEF StatsType
<1> QED BY <1>1, <1>2, <1>3, <1>4 DEF Complete

LEMMA NextSummed == IInv /\ Exact /\ Summed /\ [Next]_vars => Summed'
<1> SUFFICES ASSUME IInv, Exact, Summed, [Next]_vars PROVE Summed'
  OBVIOUS
<1>1. CASE normalize
  BY <1>1, NormalizeSummed DEF Summed
<1>2. CASE Option \/ OptionsEnd \/ buildstats \/ do_links \/ do_freqs \/ do_quantiles
           \/ do_sums \/ do_moments
  <2>1. pc' \notin {"composites", "sort", "sorted"}
    BY <1>2 DEF Option, OptionsEnd, buildstats, do_links, do_freqs, do_quantiles, do_sums,
                do_moments, EachScore
  <2> QED BY <2>1 DEF Summed
<1>3. CASE composites \/ sorttable \/ sortroster \/ SortAgain \/ Report \/ UNCHANGED vars
  <2>1. /\ pc' \in {"composites", "sort", "sorted"} => pc \in {"composites", "sort", "sorted"}
        /\ course' = course /\ stats' = stats
    BY <1>3 DEF composites, sorttable, sortroster, SortAgain, Report, vars
  <2> QED BY <2>1, SummedSame DEF Summed
<1> QED BY <1>1, <1>2, <1>3 DEF Next

-----------------------------------------------------------------------------
(* The histograms.                                                         *)

\* x is the highest of 0 and the first n values of c, y the lowest.
Extremes(x, y, c, n) ==
  /\ x \in Int /\ 0 <= x /\ (\A i \in 1 .. n : c[i] <= x)
  /\ x = 0 \/ \E i \in 1 .. n : x = c[i]
  /\ y \in Int /\ y <= 0 /\ (\A i \in 1 .. n : y <= c[i])
  /\ y = 0 \/ \E i \in 1 .. n : y = c[i]

LEMMA ExtremesAre ==
  ASSUME NEW L \in Nat, NEW c, \A i \in 1 .. L : c[i] \in Int
  PROVE  \E x, y : Extremes(x, y, c, L)
<1> DEFINE T == {n \in 0 .. L : \E x, y : Extremes(x, y, c, n)}
<1>1. 0 \in T
  <2>1. Extremes(0, 0, c, 0)
    BY DEF Extremes
  <2> QED BY <2>1
<1>2. ASSUME NEW n \in 1 .. L, n - 1 \in T PROVE n \in T
  <2>1. PICK x, y : Extremes(x, y, c, n - 1)
    BY <1>2
  <2>2. PICK X : X = IF x < c[n] THEN c[n] ELSE x
    OBVIOUS
  <2>3. PICK Y : Y = IF c[n] < y THEN c[n] ELSE y
    OBVIOUS
  <2>4. c[n] \in Int
    OBVIOUS
  <2>5. X \in Int /\ 0 <= X /\ x <= X /\ c[n] <= X /\ (X = x \/ X = c[n])
    BY <2>1, <2>2, <2>4 DEF Extremes
  <2>6. Y \in Int /\ Y <= 0 /\ Y <= y /\ Y <= c[n] /\ (Y = y \/ Y = c[n])
    BY <2>1, <2>3, <2>4 DEF Extremes
  <2>7. ASSUME NEW i \in 1 .. n PROVE Y <= c[i] /\ c[i] <= X
    <3>1. CASE i = n
      BY <2>5, <2>6, <3>1
    <3>2. CASE i # n
      <4>1. i \in 1 .. n - 1 /\ c[i] \in Int
        BY <3>2
      <4>2. y <= c[i] /\ c[i] <= x /\ x \in Int /\ y \in Int
        BY <2>1, <4>1 DEF Extremes
      <4> QED BY <2>5, <2>6, <4>1, <4>2
    <3> QED BY <3>1, <3>2
  <2>8. (X = 0 \/ \E i \in 1 .. n : X = c[i]) /\ (Y = 0 \/ \E i \in 1 .. n : Y = c[i])
    BY <2>1, <2>5, <2>6 DEF Extremes
  <2>9. Extremes(X, Y, c, n)
    BY <2>5, <2>6, <2>7, <2>8 DEF Extremes
  <2> QED BY <2>9
<1> HIDE DEF T
<1>3. L \in T
  BY <1>1, <1>2, UpTo
<1> QED BY <1>3 DEF T

\* x out of d, scaled to the columns.
LEMMA Scaled ==
  ASSUME NEW x \in Int, NEW d \in Nat, d # 0, 0 <= x, x <= d
  PROVE  (49 * x) \div d \in 0 .. 49
<1>1. PICK z \in Int : z = 49 * x /\ 0 <= z /\ z <= 49 * d
  OBVIOUS
<1>2. 0 * d <= z
  <2>1. 0 * d = 0
    OBVIOUS
  <2> QED BY <1>1, <2>1
<1>3. z < 49 * d + d
  BY <1>1
<1>4. 0 <= z \div d
  BY <1>2, QuotientLow
<1>5. z \div d <= 49
  BY <1>3, QuotientHigh
<1>6. z \div d \in Int
  BY Quotients
<1> QED BY <1>1, <1>4, <1>5, <1>6

LEMMA CompositesFit ==
  ASSUME IsCourse(course), composite \in [Students -> Int], Walk \in Seq(Students)
  PROVE  CompositeColumns \subseteq 0 .. 49
<1> SUFFICES ASSUME NEW s \in Range(Walk) PROVE CompositeColumn(s) \in 0 .. 49
  BY DEF CompositeColumns
<1>1. PICK W \in Seq(Students) : W = Walk
  OBVIOUS
<1>2. PICK L \in Nat : L = Len(W) /\ DOMAIN W = 1 .. L
  OBVIOUS
<1>3. Range(Walk) = {W[i] : i \in 1 .. L}
  BY <1>1, <1>2 DEF Range
<1>4. PICK c : c = [i \in 1 .. L |-> composite[W[i]]]
  OBVIOUS
<1>5. \A i \in 1 .. L : W[i] \in Students /\ c[i] = composite[W[i]] /\ c[i] \in Int
  BY <1>1, <1>2, <1>4
<1>6. PICK x, y : Extremes(x, y, c, L)
  BY <1>5, ExtremesAre
<1> DEFINE all == {composite[t] : t \in Range(Walk)} \cup {0}
           max == CHOOSE v \in all : \A w \in all : w <= v
           min == CHOOSE v \in all : \A w \in all : v <= w
<1>7. all = {c[i] : i \in 1 .. L} \cup {0}
  <2>1. ASSUME NEW w \in all PROVE w \in {c[i] : i \in 1 .. L} \cup {0}
    <3>1. CASE w = 0
      BY <3>1
    <3>2. CASE w # 0
      <4>1. PICK t \in Range(Walk) : w = composite[t]
        BY <2>1, <3>2
      <4>2. PICK i \in 1 .. L : t = W[i]
        BY <1>3
      <4> QED BY <1>5, <4>1, <4>2
    <3> QED BY <3>1, <3>2
  <2>2. ASSUME NEW i \in 1 .. L PROVE c[i] \in all
    <3>1. W[i] \in Range(Walk) /\ c[i] = composite[W[i]]
      BY <1>3, <1>5
    <3> QED BY <3>1
  <2> QED BY <2>1, <2>2
<1>8. all \subseteq Int
  BY <1>5, <1>7
<1>9. x \in all /\ \A w \in all : w <= x
  BY <1>6, <1>7 DEF Extremes
<1>10. y \in all /\ \A w \in all : y <= w
  BY <1>6, <1>7 DEF Extremes
<1>11. composite[s] \in all
  OBVIOUS
<1>12. CompositeColumn(s) = (49 * (composite[s] - min)) \div (IF max = min THEN Unit ELSE max - min)
  BY DEF CompositeColumn
<1> HIDE DEF all
<1>13. max \in all /\ \A w \in all : w <= max
  BY <1>9
<1>14. min \in all /\ \A w \in all : min <= w
  BY <1>10
<1> HIDE DEF max, min
<1>15. PICK v \in Int, hi \in Int, lo \in Int : v = composite[s] /\ hi = max /\ lo = min
                                                /\ lo <= v /\ v <= hi
  BY <1>8, <1>11, <1>13, <1>14
<1>16. PICK d \in Nat : d = (IF hi = lo THEN Unit ELSE hi - lo) /\ d # 0 /\ v - lo <= d
  <2>1. CASE hi = lo
    <3>1. v - lo = 0
      BY <1>15, <2>1
    <3> QED BY <2>1, <3>1 DEF Unit
  <2>2. CASE hi # lo
    <3>1. hi - lo \in Nat /\ hi - lo # 0 /\ v - lo <= hi - lo
      BY <1>15, <2>2
    <3> QED BY <2>2, <3>1
  <2> QED BY <2>1, <2>2
<1>17. (49 * (v - lo)) \div d \in 0 .. 49
  <2>1. v - lo \in Int /\ 0 <= v - lo
    BY <1>15
  <2> QED BY <1>16, <2>1, Scaled
<1> QED BY <1>12, <1>15, <1>16, <1>17

\* A score that is not negative, whatever the maximum.
LEMMA AssignmentFits ==
  ASSUME IsCourse(course), StatsType, NEW a \in Asgts, NEW score \in Int, 0 <= score
  PROVE  AssignmentColumn(a, score) \in 0 .. 49
<1>1. PICK declared \in Int : declared = course.asgts[a].max
  BY AsgtType
<1>2. PICK m \in Int : m = stats[a][0].max
  <2>1. 0 \in Groups
    BY CourseType DEF Groups
  <2> QED BY <2>1, RecordType DEF Records
<1>3. PICK max \in Int : /\ max = IF declared # 0 THEN declared ELSE IF m = 0 THEN Unit ELSE m
                         /\ max # 0
  BY DEF Unit
<1>4. CASE score > max
  <2>1. AssignmentColumn(a, score) = 49
    BY <1>1, <1>2, <1>3, <1>4 DEF AssignmentColumn
  <2> QED BY <2>1
<1>5. CASE score <= max
  <2>1. PICK z \in Int : z = 49 * score /\ 0 <= z
    OBVIOUS
  <2>2. max \in Nat /\ ~(max < 0) /\ ~(z < 0) /\ ~(score > max)
    BY <1>3, <1>5, <2>1
  <2>3. z \div max \in 0 .. 49
    BY <1>3, <1>5, <2>1, <2>2, Scaled
  <2>4. AssignmentColumn(a, score) = (z \div max) * 1
    BY <1>1, <1>2, <1>3, <2>1, <2>2 DEF AssignmentColumn
  <2> QED BY <2>3, <2>4
<1> QED BY <1>3, <1>4, <1>5

LEMMA AssignmentsFit ==
  ASSUME IsCourse(course), StatsType, Complete, NEW a \in Asgts,
         \A x \in Counted(a, 0) : Grade(x) >= 0
  PROVE  AssignmentColumns(a) \subseteq 0 .. 49
<1>0. 0 \in Groups
  BY CourseType DEF Groups
<1>1. PICK r \in Records : r = stats[a][0] /\ Cumulates(r, Counted(a, 0))
  BY <1>0, RecordType DEF Complete
<1>2. PICK f \in Seq(Buckets) : f = r.freqs /\ Tabled(f, Counted(a, 0))
  BY <1>1 DEF Cumulates, Tallies, Tabled
<1> SUFFICES ASSUME NEW b \in Range(f) PROVE AssignmentColumn(a, b.score) \in 0 .. 49
  BY <1>1, <1>2 DEF AssignmentColumns
<1>3. PICK n \in 1 .. Len(f) : b = f[n]
  BY <1>2 DEF Range
<1>4. b.score \in Int
  <2>1. b \in Buckets
    BY <1>2, <1>3
  <2> QED BY <2>1 DEF Buckets
<1>5. PICK x \in Counted(a, 0) : Grade(x) = b.score
  BY <1>2, <1>3 DEF Tabled, Equal
<1>6. 0 <= b.score
  BY <1>4, <1>5
<1> QED BY <1>4, <1>6, AssignmentFits

-----------------------------------------------------------------------------
(* The summaries.                                                          *)

\* The scores of the table f ascend, the percentages N of its buckets too, from 0.
Curve(f, N, L) ==
  /\ L = Len(f) /\ L # 0 /\ N[1] = 0
  /\ \A i \in 1 .. L : f[i].score \in Int /\ N[i] \in Int
  /\ \A i, j \in 1 .. L : i <= j => f[i].score <= f[j].score /\ N[i] <= N[j]

\* v is between buckets i - 1 and i.
Inside(v, f, N, p, i) ==
  /\ N[i - 1] <= p /\ p < N[i]
  /\ v = f[i - 1].score + ((f[i].score - f[i - 1].score) * (p - N[i - 1]))
                            \div (N[i] - N[i - 1])

\* v is read at percentage p.
ReadAt(v, f, N, L, p) ==
  \/ \E i \in 2 .. L - 1 : Inside(v, f, N, p, i)
  \/ v = f[L].score /\ \A i \in 1 .. L - 1 : N[i] <= p

\* A share of the difference d: w parts out of e.
LEMMA Share ==
  ASSUME NEW d \in Nat, NEW e \in Nat, e # 0, NEW w \in Nat, w <= e
  PROVE  (d * w) \div e \in 0 .. d
<1>1. PICK z \in Int : z = d * w
  OBVIOUS
<1>2. d * w <= d * e /\ d * e \in Int
  BY Products
<1>3. 0 <= z
  BY <1>1
<1>4. 0 * e <= z
  <2>1. 0 * e = 0
    OBVIOUS
  <2> QED BY <1>3, <2>1
<1>5. z < d * e + e
  BY <1>1, <1>2
<1>6. 0 <= z \div e
  BY <1>4, QuotientLow
<1>7. z \div e <= d
  BY <1>5, QuotientHigh
<1>8. z \div e \in Int
  BY Quotients
<1> QED BY <1>1, <1>6, <1>7, <1>8

LEMMA InsideIs ==
  ASSUME NEW L \in Nat, NEW f, NEW N, Curve(f, N, L), NEW p \in Nat, NEW v,
         NEW i \in 2 .. L - 1, Inside(v, f, N, p, i)
  PROVE  v \in Int /\ f[i - 1].score <= v /\ v <= f[i].score
<1>0. i \in 1 .. L /\ i - 1 \in 1 .. L /\ i - 1 <= i
  OBVIOUS
<1>1. PICK x \in Int, y \in Int : x = f[i - 1].score /\ y = f[i].score /\ x <= y
  BY <1>0 DEF Curve
<1>2. PICK m \in Int, n \in Int : m = N[i - 1] /\ n = N[i] /\ m <= p /\ p < n
  BY <1>0 DEF Curve, Inside
<1>3. v = x + ((y - x) * (p - m)) \div (n - m)
  BY <1>1, <1>2 DEF Inside
<1>4. y - x \in Nat /\ n - m \in Nat /\ n - m # 0 /\ p - m \in Nat /\ p - m <= n - m
  BY <1>1, <1>2
<1>5. PICK k : k = ((y - x) * (p - m)) \div (n - m)
  OBVIOUS
<1>6. k \in 0 .. y - x
  BY <1>4, <1>5, Share
<1>7. v \in Int /\ x <= v /\ v <= y
  BY <1>1, <1>3, <1>5, <1>6
<1> QED BY <1>1, <1>7

LEMMA ReadRange ==
  ASSUME NEW L \in Nat, NEW f, NEW N, Curve(f, N, L), NEW p \in Nat, NEW v,
         ReadAt(v, f, N, L, p)
  PROVE  v \in Int /\ f[1].score <= v /\ v <= f[L].score
<1>1. L \in 1 .. L /\ 1 \in 1 .. L /\ f[1].score <= f[L].score /\ f[L].score \in Int
      /\ f[1].score \in Int
  BY DEF Curve
<1>2. ASSUME NEW i \in 2 .. L - 1, Inside(v, f, N, p, i)
      PROVE  v \in Int /\ f[1].score <= v /\ v <= f[L].score
  <2>1. v \in Int /\ f[i - 1].score <= v /\ v <= f[i].score
    BY <1>2, InsideIs
  <2>2. i \in 1 .. L /\ i - 1 \in 1 .. L /\ 1 <= i - 1 /\ i <= L
    OBVIOUS
  <2>3. f[1].score <= f[i - 1].score /\ f[i].score <= f[L].score
        /\ f[i].score \in Int /\ f[i - 1].score \in Int
    BY <1>1, <2>2 DEF Curve
  <2> QED BY <1>1, <2>1, <2>3
<1>3. CASE v = f[L].score
  BY <1>1, <1>3
<1> QED BY <1>2, <1>3 DEF ReadAt

\* In one bucket.
LEMMA InsideOrder ==
  ASSUME NEW L \in Nat, NEW f, NEW N, Curve(f, N, L), NEW i \in 2 .. L - 1,
         NEW p \in Nat, NEW q \in Nat, p <= q, NEW v, NEW w,
         Inside(v, f, N, p, i), Inside(w, f, N, q, i)
  PROVE  v <= w
<1>0. i \in 1 .. L /\ i - 1 \in 1 .. L /\ i - 1 <= i
  OBVIOUS
<1>1. PICK x \in Int, y \in Int : x = f[i - 1].score /\ y = f[i].score /\ x <= y
  BY <1>0 DEF Curve
<1>2. PICK m \in Int, n \in Int : m = N[i - 1] /\ n = N[i] /\ m <= p /\ p < n
  BY <1>0 DEF Curve, Inside
<1>3. v = x + ((y - x) * (p - m)) \div (n - m) /\ w = x + ((y - x) * (q - m)) \div (n - m)
  BY <1>1, <1>2 DEF Inside
<1>4. PICK d \in Nat, e \in Nat : d = y - x /\ e = n - m /\ e # 0
  BY <1>1, <1>2
<1>5. PICK s \in Int, t \in Int : s = p - m /\ t = q - m /\ s <= t
  BY <1>2
<1>6. PICK A \in Int, B \in Int : A = d * s /\ B = d * t /\ A <= B
  BY <1>5, Products
<1>7. A \div e <= B \div e
  BY <1>4, <1>6, QuotientOrder
<1>8. A \div e \in Int /\ B \div e \in Int
  BY <1>4, Quotients
<1>9. v = x + A \div e /\ w = x + B \div e
  BY <1>3, <1>4, <1>5, <1>6
<1> QED BY <1>7, <1>8, <1>9

LEMMA ReadOrder ==
  ASSUME NEW L \in Nat, NEW f, NEW N, Curve(f, N, L),
         NEW p \in Nat, NEW q \in Nat, p <= q, NEW v, NEW w,
         ReadAt(v, f, N, L, p), ReadAt(w, f, N, L, q)
  PROVE  v <= w
<1>1. v \in Int /\ v <= f[L].score /\ w \in Int
  BY ReadRange
<1>2. CASE w = f[L].score
  BY <1>1, <1>2
<1>3. ASSUME NEW j \in 2 .. L - 1, Inside(w, f, N, q, j) PROVE v <= w
  <2>1. N[j - 1] <= q /\ q < N[j] /\ f[j - 1].score <= w
    BY <1>3, InsideIs DEF Inside
  <2>2. j \in 1 .. L - 1 /\ N[j] \in Int
    BY DEF Curve
  <2>3. ~(N[j] <= p)
    BY <2>1, <2>2
  <2>4. PICK i \in 2 .. L - 1 : Inside(v, f, N, p, i)
    BY <2>2, <2>3 DEF ReadAt
  <2>5. N[i - 1] <= p /\ p < N[i] /\ v <= f[i].score
    BY <2>4, InsideIs DEF Inside
  <2>6. CASE i = j
    BY <1>3, <2>4, <2>6, InsideOrder
  <2>7. CASE i < j
    <3>1. i \in 1 .. L /\ j - 1 \in 1 .. L /\ i <= j - 1
      BY <2>7
    <3>2. f[i].score <= f[j - 1].score /\ f[i].score \in Int /\ f[j - 1].score \in Int
      BY <3>1 DEF Curve
    <3> QED BY <1>1, <2>1, <2>5, <3>2
  <2>8. CASE j < i
    <3>1. j \in 1 .. L /\ i - 1 \in 1 .. L /\ j <= i - 1
      BY <2>8
    <3>2. N[j] <= N[i - 1] /\ N[j] \in Int /\ N[i - 1] \in Int
      BY <3>1 DEF Curve
    <3> QED BY <2>1, <2>5, <3>2
  <2> QED BY <2>6, <2>7, <2>8
<1> QED BY <1>2, <1>3 DEF ReadAt

LEMMA InterpolateIs ==
  ASSUME NEW L \in Nat, NEW f, NEW N, Curve(f, N, L), f # << >>, NEW n,
         \A i \in 1 .. L : N[i] = (f[i].numless * 100 * Unit) \div n, NEW q \in Nat
  PROVE  ReadAt(interpolatequantile(f, n, q), f, N, L, q * Unit)
<1> DEFINE nq(i) == (f[i].numless * 100 * Unit) \div n
           raw == {i \in 1 .. Len(f) - 1 : (IF i = 1 THEN 0 ELSE nq(i - 1)) <= q * Unit
                                            /\ q * Unit < nq(i)}
           k == CHOOSE j \in raw : \A l \in raw : j <= l
<1>1. interpolatequantile(f, n, q) =
        IF raw = {} THEN f[Len(f)].score
        ELSE f[k - 1].score + ((f[k].score - f[k - 1].score) * (q * Unit - nq(k - 1)))
                                \div (nq(k) - nq(k - 1))
  BY DEF interpolatequantile
<1>2. PICK p \in Nat : p = q * Unit
  BY DEF Unit
<1>3. L = Len(f) /\ L # 0 /\ N[1] = 0 /\ \A i \in 1 .. L : N[i] \in Int
  BY DEF Curve
<1>4. \A i \in 1 .. L : nq(i) = N[i]
  OBVIOUS
<1> HIDE DEF nq
<1>5. \A i \in 1 .. L - 1 : i \in raw <=> i # 1 /\ N[i - 1] <= p /\ p < N[i]
  <2> SUFFICES ASSUME NEW i \in 1 .. L - 1
               PROVE  i \in raw <=> i # 1 /\ N[i - 1] <= p /\ p < N[i]
    OBVIOUS
  <2>1. i \in raw <=> (IF i = 1 THEN 0 ELSE nq(i - 1)) <= p /\ p < nq(i)
    BY <1>2, <1>3
  <2>2. nq(i) = N[i]
    BY <1>4
  <2>3. CASE i = 1
    BY <1>2, <1>3, <2>1, <2>2, <2>3
  <2>4. CASE i # 1
    <3>1. i - 1 \in 1 .. L
      BY <2>4
    <3>2. nq(i - 1) = N[i - 1]
      BY <1>4, <3>1
    <3> QED BY <2>1, <2>2, <2>4, <3>2
  <2> QED BY <2>3, <2>4
<1>6. raw \subseteq 1 .. L - 1
  BY <1>3
<1> HIDE DEF raw
<1>7. CASE raw = {}
  <2> DEFINE Bad == {i \in 1 .. L - 1 : p < N[i]}
  <2>1. Bad = {}
    <3> SUFFICES ASSUME Bad # {} PROVE FALSE
      OBVIOUS
    <3>1. PICK i \in Bad : \A l \in Bad : i <= l
      <4>1. Bad \subseteq Nat
        OBVIOUS
      <4> HIDE DEF Bad
      <4> QED BY <4>1, Least
    <3>2. i \in 1 .. L - 1 /\ p < N[i]
      BY <3>1
    <3>3. i # 1
      BY <1>3, <3>2
    <3>4. i - 1 \in 1 .. L - 1 /\ i - 1 \notin Bad
      BY <3>1, <3>2, <3>3
    <3>5. N[i - 1] <= p
      <4>1. N[i - 1] \in Int /\ ~(p < N[i - 1])
        BY <1>3, <3>4
      <4> QED BY <4>1
    <3> QED BY <1>5, <1>7, <3>2, <3>3, <3>5
  <2>2. ASSUME NEW i \in 1 .. L - 1 PROVE N[i] <= p
    <3>1. N[i] \in Int /\ ~(p < N[i])
      BY <1>3, <2>1
    <3> QED BY <3>1
  <2> QED BY <1>1, <1>2, <1>3, <1>7, <2>2 DEF ReadAt
<1>8. CASE raw # {}
  <2>1. k \in raw
    <3>1. raw \subseteq Nat
      BY <1>6
    <3>2. \E j \in raw : \A l \in raw : j <= l
      BY <1>8, <3>1, Least
    <3> QED BY <3>2
  <2> HIDE DEF k
  <2>2. k \in 2 .. L - 1 /\ N[k - 1] <= p /\ p < N[k]
    BY <1>5, <1>6, <2>1
  <2>3. nq(k) = N[k] /\ nq(k - 1) = N[k - 1]
    BY <1>4, <2>2
  <2>4. Inside(interpolatequantile(f, n, q), f, N, p, k)
    BY <1>1, <1>2, <1>8, <2>2, <2>3 DEF Inside
  <2> QED BY <1>2, <2>2, <2>4 DEF ReadAt
<1> QED BY <1>7, <1>8

LEMMA CurveIs ==
  ASSUME NEW S, NEW r \in Records, Cumulates(r, S), NEW L \in Nat, L = Len(r.freqs), L # 0
  PROVE  /\ r.tallied \in Nat /\ r.tallied # 0
         /\ Curve(r.freqs, [i \in 1 .. L |-> (r.freqs[i].numless * 100 * Unit) \div r.tallied], L)
<1>1. PICK f \in Seq(Buckets), n \in Nat : f = r.freqs /\ n = r.tallied /\ Ascends(f)
  BY DEF Cumulates, Tallies, Tabled, Records
<1>2. n # 0 /\ f[1].numless = 0
  BY <1>1, CumulatesOrder
<1>3. \A i \in 1 .. L : f[i].numless \in 0 .. n
  BY <1>1, CumulatesOrder
<1>4. \A i, j \in 1 .. L : i <= j => f[i].numless <= f[j].numless
  BY <1>1, CumulatesOrder
<1>5. ASSUME NEW i \in 1 .. L PROVE f[i].score \in Int
  <2>1. f[i] \in Buckets
    BY <1>1
  <2> QED BY <2>1 DEF Buckets
<1>6. PICK N : N = [i \in 1 .. L |-> (f[i].numless * 100 * Unit) \div n]
  OBVIOUS
<1>7. ASSUME NEW i \in 1 .. L
      PROVE  /\ f[i].numless * 100 * Unit \in Int /\ N[i] \in Int
             /\ N[i] = (f[i].numless * 100 * Unit) \div n
  <2>1. PICK z \in Int : z = f[i].numless * 100 * Unit
    BY <1>3 DEF Unit
  <2>2. z \div n \in Int
    BY <1>2, Quotients
  <2> QED BY <1>6, <2>1, <2>2
<1>8. ASSUME NEW i \in 1 .. L, NEW j \in 1 .. L, i <= j
      PROVE  f[i].score <= f[j].score /\ N[i] <= N[j]
  <2>1. f[i].score <= f[j].score
    <3>1. CASE i = j
      BY <1>5, <3>1
    <3>2. CASE i < j
      BY <1>1, <1>5, <3>2 DEF Ascends
    <3> QED BY <1>8, <3>1, <3>2
  <2>2. PICK x \in Int, y \in Int : x = f[i].numless /\ y = f[j].numless /\ x <= y
    BY <1>3, <1>4, <1>8
  <2>3. PICK X \in Int, Y \in Int : X = x * 100 * Unit /\ Y = y * 100 * Unit /\ X <= Y
    <3>1. x * 100 * Unit = 10000 * x /\ y * 100 * Unit = 10000 * y
      BY DEF Unit
    <3>2. 10000 * x <= 10000 * y
      BY <2>2
    <3> QED BY <3>1, <3>2
  <2>4. X \div n <= Y \div n
    BY <1>2, <2>3, QuotientOrder
  <2> QED BY <1>7, <2>1, <2>2, <2>3, <2>4
<1>9. N[1] = 0
  <2>1. N[1] = (0 * 100 * Unit) \div n
    BY <1>2, <1>7
  <2>2. 0 * 100 * Unit = 0
    BY DEF Unit
  <2>3. 0 \div n = 0
    BY <1>2
  <2> QED BY <2>1, <2>2, <2>3
<1>10. Curve(f, N, L)
  BY <1>1, <1>5, <1>7, <1>8, <1>9 DEF Curve
<1> QED BY <1>1, <1>2, <1>6, <1>10

\* What ReportsSound says of the quantiles of the table f of n scores.
Rises(f, n) ==
  LET at(q) == interpolatequantile(f, n, Quantiles[q]) IN
  f # << >> => /\ f[1].score <= at(1) /\ at(5) <= f[Len(f)].score
               /\ \A q \in 1 .. 4 : at(q) <= at(q + 1)

LEMMA SummaryRises ==
  ASSUME NEW S, NEW r \in Records, Cumulates(r, S)
  PROVE  Rises(r.freqs, r.tallied)
<1> SUFFICES ASSUME r.freqs # << >>
             PROVE  LET at(q) == interpolatequantile(r.freqs, r.tallied, Quantiles[q]) IN
                    /\ r.freqs[1].score <= at(1) /\ at(5) <= r.freqs[Len(r.freqs)].score
                    /\ \A q \in 1 .. 4 : at(q) <= at(q + 1)
  BY DEF Rises
<1>1. PICK f \in Seq(Buckets), n \in Nat : f = r.freqs /\ n = r.tallied
  BY DEF Records
<1>2. PICK L \in Nat : L = Len(f) /\ L # 0
  BY <1>1
<1>3. PICK N : N = [i \in 1 .. L |-> (f[i].numless * 100 * Unit) \div n]
  OBVIOUS
<1>4. Curve(f, N, L)
  BY <1>1, <1>2, <1>3, CurveIs
<1>5. PICK Q : Q = [q \in 1 .. 5 |-> Quantiles[q]]
  OBVIOUS
<1>6. \A q \in 1 .. 5 : Q[q] = Quantiles[q] /\ Q[q] \in Nat /\ Q[q] * Unit \in Nat
  BY <1>5 DEF Quantiles, Unit
<1>7. \A q \in 1 .. 4 : Q[q] * Unit <= Q[q + 1] * Unit
  BY <1>5 DEF Quantiles, Unit
<1>8. PICK A : A = [q \in 1 .. 5 |-> interpolatequantile(f, n, Quantiles[q])]
  OBVIOUS
<1>9. ASSUME NEW q \in 1 .. 5
      PROVE  A[q] = interpolatequantile(f, n, Quantiles[q]) /\ ReadAt(A[q], f, N, L, Q[q] * Unit)
  <2>1. A[q] = interpolatequantile(f, n, Q[q]) /\ Q[q] \in Nat
    BY <1>6, <1>8
  <2>2. \A i \in 1 .. L : N[i] = (f[i].numless * 100 * Unit) \div n
    BY <1>3
  <2>3. f # << >>
    BY <1>1
  <2>4. ReadAt(interpolatequantile(f, n, Q[q]), f, N, L, Q[q] * Unit)
    BY <1>4, <2>1, <2>2, <2>3, InterpolateIs
  <2> QED BY <1>6, <2>1, <2>4
<1>10. f[1].score <= A[1] /\ A[5] <= f[L].score
  <2>1. 1 \in 1 .. 5 /\ 5 \in 1 .. 5
    OBVIOUS
  <2>2. PICK p \in Nat, m \in Nat : p = Q[1] * Unit /\ m = Q[5] * Unit
    BY <1>6, <2>1
  <2>3. ReadAt(A[1], f, N, L, p) /\ ReadAt(A[5], f, N, L, m)
    BY <1>9, <2>1, <2>2
  <2> QED BY <1>4, <2>3, ReadRange
<1>11. ASSUME NEW q \in 1 .. 4 PROVE A[q] <= A[q + 1]
  <2>1. q \in 1 .. 5 /\ q + 1 \in 1 .. 5
    OBVIOUS
  <2>2. PICK p \in Nat, m \in Nat : p = Q[q] * Unit /\ m = Q[q + 1] * Unit /\ p <= m
    BY <1>6, <1>7, <2>1
  <2>3. ReadAt(A[q], f, N, L, p) /\ ReadAt(A[q + 1], f, N, L, m)
    BY <1>9, <2>1, <2>2
  <2> QED BY <1>4, <2>2, <2>3, ReadOrder
<1>12. \A q \in 1 .. 5 : A[q] = interpolatequantile(r.freqs, r.tallied, Quantiles[q])
  BY <1>1, <1>9
<1>13. \A q \in 1 .. 4 : interpolatequantile(r.freqs, r.tallied, Quantiles[q])
                         <= interpolatequantile(r.freqs, r.tallied, Quantiles[q + 1])
  <2> SUFFICES ASSUME NEW q \in 1 .. 4
               PROVE  interpolatequantile(r.freqs, r.tallied, Quantiles[q])
                        <= interpolatequantile(r.freqs, r.tallied, Quantiles[q + 1])
    OBVIOUS
  <2>1. q \in 1 .. 5 /\ q + 1 \in 1 .. 5
    OBVIOUS
  <2> QED BY <1>11, <1>12, <2>1
<1>14. /\ r.freqs[1].score <= interpolatequantile(r.freqs, r.tallied, Quantiles[1])
       /\ interpolatequantile(r.freqs, r.tallied, Quantiles[5]) <= r.freqs[Len(r.freqs)].score
  BY <1>1, <1>2, <1>10, <1>12
<1> QED BY <1>13, <1>14

\* Whatever the course, the columns and the quantiles that report.c computes: a
\* negative score only is counted outside of the histogram, and the summaries
\* rise with the quantile, from the lowest score to the highest.
THEOREM ReportsWithinBounds == Spec => []ReportsSound
<1>1. Init => Exact /\ Summed
  BY DEF Init, Exact, ExactFor, Counting, Summed
<1>2. IInv /\ Summed => ReportsSound
  <2> SUFFICES ASSUME IInv, Summed, pc = "sorted" PROVE ReportsSound
    BY DEF ReportsSound
  <2>1. IsCourse(course) /\ StatsType /\ Complete
    BY DEF IInv, Core, Summed
  <2>2. CompositeColumns \subseteq 0 .. 49
    <3>1. composite \in [Students -> Int] /\ Walk \in Seq(Students)
      BY DEF IInv, Core, Met, After
    <3> QED BY <2>1, <3>1, CompositesFit
  <2>3. \A a \in Asgts : (\A x \in Counted(a, 0) : Grade(x) >= 0) =>
          AssignmentColumns(a) \subseteq 0 .. 49
    BY <2>1, AssignmentsFit
  <2>4. ASSUME NEW a \in Asgts, NEW g \in Shown
        PROVE  Rises(stats[a][g].freqs, stats[a][g].tallied)
    <3>1. g \in Groups
      BY <2>1, CourseType DEF Shown, Groups
    <3>2. PICK r \in Records : r = stats[a][g] /\ Cumulates(r, Counted(a, g))
      BY <2>1, <3>1, RecordType DEF Complete
    <3> QED BY <3>2, SummaryRises
  <2> QED BY <2>2, <2>3, <2>4 DEF ReportsSound, Rises
<1> QED BY <1>1, <1>2, NextExact, NextSummed, GradesInvariant, PTL DEF Spec

=============================================================================
