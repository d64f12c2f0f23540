------------------------------ MODULE MCGrades ------------------------------
(* Small instances for TLC: courses with one and two sections, every        *)
(* normalization, scores with every substitution, names and IDs with ties.  *)
EXTENDS Grades

Asgt(npolicy, ngroup, weighted, max) ==
  [npolicy |-> npolicy, ngroup |-> ngroup, weighted |-> weighted, weight |-> 3,
   max |-> max, mean |-> 7000, stddev |-> 1000, scale |-> 500, atype |-> "HW"]

Valid(a, g) == [asgt |-> a, grade |-> g * Unit, flag |-> "VALID", subst |-> "USERAW"]
Invalid(a, g, subst) == [asgt |-> a, grade |-> g * Unit, flag |-> "INVALID", subst |-> subst]

Student(section, name, id, scores) ==
  [section |-> section, name |-> name, id |-> id, scores |-> scores]

Course(sections, asgts, students) ==
  [sections |-> sections, asgts |-> asgts, students |-> students]

\* All normalizations of three scores of one assignment and one of another.
Normalizing ==
  {Course(2, <<Asgt(n, g, w, m), Asgt("RAW", "BYCLASS", w, 0)>>,
          <<Student(1, 2, 1, <<Valid(1, x), Valid(2, 3)>>),
            Student(1, 1, 3, <<Valid(1, y), last>>),
            Student(2, 2, 2, <<Valid(1, 2), Valid(2, 5)>>)>>) :
     n \in {"RAW", "LINEAR", "SCALE", "QUANTILE"}, g \in {"BYCLASS", "BYSECTION"},
     w \in BOOLEAN, m \in {0, 4 * Unit}, x \in {0, 2}, y \in {-1, 2, 5},
     last \in {Invalid(2, 1, s) : s \in {"USERAW", "USENORM", "USELIKEAVG", "USECLASSAVG"}}}

\* All orders of up to five students with ties.
Sorting ==
  UNION {{Course(1, <<Asgt("RAW", "BYCLASS", FALSE, 0)>>,
                 [i \in 1 .. n |-> Student(1, names[i], n - i, <<Valid(1, names[n + 1 - i])>>)]) :
            names \in [1 .. n -> 1 .. 3]} : n \in 0 .. 5}
  \cup {Course(2, << >>, <<Student(2, 1, 1, << >>)>>),
        Course(1, <<Asgt("QUANTILE", "BYCLASS", TRUE, 0)>>,
               <<Student(1, 1, 1, <<Valid(1, -4)>>), Student(1, 2, 2, << >>)>>)}

MCCourses == Normalizing \cup Sorting

MCArgvs == {<<"report", "all", "sortby=score">>, <<"collate", "nonames">>,
            <<"report", "sortby=id", "histos", "output">>, <<"all", "report">>,
            <<"report", "collate">>, <<"report", "freqs", "freqs">>, <<"report", "sortby=x">>}
=============================================================================
