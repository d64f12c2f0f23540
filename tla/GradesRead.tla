----------------------------- MODULE GradesRead -----------------------------
(***************************************************************************)
(* The reader of the grades program (grades/src/read.c) and the writer of  *)
(* its --collate option (write.c).  A data file is read, with the files it *)
(* includes; if there was no error the course is written, and what was     *)
(* written is read again.                                                  *)
(*                                                                         *)
(* A file is a sequence of lines and a line a sequence of words; the word  *)
(* " " is white space in front of anything else, and every line ends in a  *)
(* newline.  Words are shorter than the 64 bytes of the token buffer.  A   *)
(* number is one of the words of Value, which sscanf reads as that value;  *)
(* %f writes six decimals, which is none of those of a value below 1e-6.   *)
(***************************************************************************)
EXTENDS Integers, Sequences, FiniteSets, SequencesExt

CONSTANTS Roots,    \* contents of the data file
          Includes, \* contents of the file "inc"; the file "none" does not exist
          MaxFiles  \* bound: files that can be open

ASSUME MaxFilesAssumption == MaxFiles \in Nat \ {0}

\* The numbers, in units of 1e-7.
Value == [w \in {"-1", "0", "1e-7", "2e-6", "1", "5", "200"} |->
            CASE w = "-1" -> -10000000 [] w = "0" -> 0 [] w = "1e-7" -> 1
              [] w = "2e-6" -> 20 [] w = "1" -> 10000000 [] w = "5" -> 50000000
              [] OTHER -> 2000000000]
EPSILON == 10

\* What %f makes of a number.
Printed(w) == IF w = "1e-7" THEN "0" ELSE w
Unset == "?"  \* a field that is not initialised

VARIABLES pc,       \* the reader that is active
          io,       \* the stack of files, the token buffer, errors
          course,   \* what has been built
          root, inc,
          written   \* the course whose text is being read again, << >> before

vars == <<pc, io, course, root, inc, written>>

-----------------------------------------------------------------------------
(* The scanner.  io.files has the rest of each open file, the current one   *)
(* first; io.tok is << >> or holds one token, a sequence of words.          *)

Start(file) == [files |-> <<file>>, tok |-> << >>, errors |-> 0, fatal |-> FALSE]

Top(i) == Head(i.files)
SetTop(i, f) == [i EXCEPT !.files = <<f>> \o Tail(@)]
Line(i) == Head(Top(i))

istoken(i) == i.tok # << >>
flushtoken(i) == [i EXCEPT !.tok = << >>]
error(i) == [i EXCEPT !.errors = @ + 1]
fatal(i) == [i EXCEPT !.fatal = TRUE]

Unspaced(line) == IF line # << >> /\ Head(line) = " " THEN Tail(line) ELSE line

gobblewhitespace(i) ==
  IF istoken(i) \/ Top(i) = << >> THEN i
  ELSE SetTop(i, <<Unspaced(Line(i))>> \o Tail(Top(i)))

\* Empty lines and comments; white space is removed only behind an empty line,
\* so that a line of spaces elsewhere is not blank.
Blank(line) == line = << >> \/ Head(line) = "#"

GobbledLines[f \in Seq(Seq(STRING))] ==
  CASE f # << >> /\ Blank(Head(f)) ->
         GobbledLines[IF Head(f) = << >> /\ Len(f) > 1
                        THEN <<Unspaced(f[2])>> \o SubSeq(f, 3, Len(f))
                        ELSE Tail(f)]
    [] OTHER -> f

gobbleblanklines(i) == IF istoken(i) THEN i ELSE SetTop(i, GobbledLines[Top(i)])

\* An unread token is an error.
Ready(i) == gobblewhitespace(flushtoken(IF istoken(i) THEN error(i) ELSE i))

advancetoken(i) ==
  LET r == Ready(i) IN
  IF Top(r) = << >> \/ Line(r) = << >> THEN r
  ELSE [SetTop(r, <<Tail(Line(r))>> \o Tail(Top(r))) EXCEPT !.tok = << <<Head(Line(r))>> >>]

\* The rest of the line, which may be empty, is one token.
advanceeol(i) ==
  LET r == Ready(i) IN
  IF Top(r) = << >> THEN fatal(r)
  ELSE [SetTop(r, << << >> >> \o Tail(Top(r))) EXCEPT !.tok = <<Line(r)>>]

Peek(i) == IF istoken(i) THEN i ELSE advancetoken(i)
IsKey(i, key) == Peek(i).tok = << <<key>> >>

\* checktoken: what follows the keyword if it is there, the input with the token
\* in the buffer if it is not.
checktoken(i, key) == IF IsKey(i, key) THEN flushtoken(Peek(i)) ELSE Peek(i)

expecttoken(i, key) ==
  IF IsKey(i, key) THEN flushtoken(Peek(i)) ELSE error(Peek(i))

\* Anything but a newline is an error and the rest of the line is skipped.
expectnewline(i) ==
  LET g == gobblewhitespace(i) IN
  IF Top(g) = << >> THEN fatal(g)
  ELSE IF ~istoken(g) /\ Line(g) = << >> THEN gobbleblanklines(SetTop(g, Tail(Top(g))))
  ELSE SetTop(flushtoken(error(g)), Tail(Top(g)))

\* A reader returns the input that follows (in) and a value (is).
readid(i) ==
  LET p == Peek(i) IN
  IF istoken(p) THEN [in |-> flushtoken(p), is |-> p.tok[1]]
  ELSE [in |-> error(p), is |-> << >>]

readsurname(i) == readid(i)
readatype(i) == readid(i)

readname(i) ==
  LET p == advanceeol(i) IN
  [in |-> IF p.fatal THEN p ELSE expectnewline(flushtoken(p)),
   is |-> IF istoken(p) THEN p.tok[1] ELSE << >>]

IsNumber(p) == istoken(p) /\ Len(p.tok[1]) = 1 /\ p.tok[1][1] \in DOMAIN Value

\* A number, or an error, the default, and the token left in the buffer.
ReadNumber(p, default) ==
  IF IsNumber(p) THEN [in |-> flushtoken(p), is |-> p.tok[1][1]]
  ELSE [in |-> error(p), is |-> default]

-----------------------------------------------------------------------------
(* The parts of a course.                                                  *)

NoCourse == [number |-> << >>, title |-> << >>, professor |-> << >>,
             assignments |-> << >>, sections |-> << >>]

\* readprofessor and readassistant: surname and name, << >> for NULL.
ReadPerson(i, key) ==
  LET surname == readsurname(checktoken(i, key))
      name == readname(surname.in) IN
  IF IsKey(i, key) THEN [in |-> name.in, is |-> <<surname.is, name.is>>]
  ELSE [in |-> checktoken(i, key), is |-> << >>]

NewAssignment(name, atype) ==
  [name |-> name, atype |-> atype, wpolicy |-> "NOWEIGHT", npolicy |-> "RAW",
   weight |-> "0", max |-> "0", ngroup |-> "BYCLASS", mean |-> Unset,
   stddev |-> Unset, scale |-> Unset]

readweight(i, a) ==
  LET n == ReadNumber(advancetoken(i), "0") IN
  [in |-> n.in,
   is |-> IF n.in.errors > i.errors THEN [a EXCEPT !.wpolicy = "NOWEIGHT"]
          ELSE [a EXCEPT !.wpolicy = "WEIGHT", !.weight = n.is]]

readmax(i, a) ==
  LET n == ReadNumber(advancetoken(i), a.max) IN
  [in |-> n.in, is |-> [a EXCEPT !.max = n.is]]

NormKeys == {"RAW", "STDLINEAR", "GENLINEAR", "QUANTILE", "SCALE", "BYCLASS",
             "BYSECTION"}

\* One turn of the loop of readnorm, for the keyword key.
NormStep(i, a, key) ==
  LET next == checktoken(i, key)
      n1 == ReadNumber(advancetoken(next), "0")
      n2 == ReadNumber(advancetoken(n1.in), "1") IN
  CASE key \in {"RAW", "QUANTILE"} -> [in |-> next, is |-> [a EXCEPT !.npolicy = key]]
    [] key = "STDLINEAR" ->
         [in |-> next,
          is |-> [a EXCEPT !.npolicy = "LINEAR", !.mean = "0", !.stddev = "1"]]
    [] key = "GENLINEAR" ->
         [in |-> n2.in,
          is |-> [a EXCEPT !.npolicy = "LINEAR", !.mean = n1.is, !.stddev = n2.is]]
    [] key = "SCALE" ->
         [in |-> n1.in, is |-> [a EXCEPT !.npolicy = "SCALE", !.scale = n1.is]]
    [] OTHER -> [in |-> next, is |-> [a EXCEPT !.ngroup = key]]

\* The loop: a line has few words, so a few turns reach its end.
readnorm(i, a) ==
  LET Turn(s) ==
        IF \E k \in NormKeys : IsKey(s.in, k)
          THEN NormStep(s.in, s.is, CHOOSE k \in NormKeys : IsKey(s.in, k))
          ELSE [s EXCEPT !.in = Peek(@)]
      end == Turn(Turn(Turn(Turn([in |-> i, is |-> a])))) IN
  IF \E k \in NormKeys : IsKey(i, k) THEN end
  ELSE [in |-> error(Peek(i)),
        is |-> [a EXCEPT !.npolicy = "RAW", !.ngroup = "BYCLASS"]]

Substs == {"USERAW", "USENORM", "USELIKEAVG", "USECLASSAVG"}

NewScore(asgt) == [asgt |-> asgt, flag |-> "VALID", subst |-> Unset,
                   grade |-> Unset, norm |-> Unset, code |-> << >>]

\* The code that ends an invalid score.
ReadCode(i, s) ==
  LET p == advanceeol(i) IN
  [in |-> flushtoken(p), is |-> [s EXCEPT !.code = IF istoken(p) THEN p.tok[1] ELSE << >>]]

InRange(a, w) ==
  CASE a.npolicy = "QUANTILE" -> 0 <= Value[w] /\ Value[w] <= 100 * Value["1"]
    [] a.npolicy = "SCALE" -> 0 <= Value[w] /\ Value[w] <= Value[a.scale]
    [] OTHER -> TRUE

\* readgrade, for a score of assignment a.
readgrade(i, a, s) ==
  LET subst == {k \in Substs : IsKey(i, k)}
      key == CHOOSE k \in subst : TRUE
      next == checktoken(i, key)
      n == ReadNumber(Peek(next), "0")
      inv == [s EXCEPT !.flag = "INVALID", !.subst = key] IN
  CASE subst = {} ->
         LET v == ReadNumber(Peek(i), "0") IN
         [in |-> v.in, is |-> [s EXCEPT !.grade = v.is]]
    [] subst = {"USERAW"} -> ReadCode(n.in, [inv EXCEPT !.grade = n.is])
    [] subst = {"USENORM"} ->
         ReadCode(IF InRange(a, n.is) \/ n.in.errors > next.errors THEN n.in
                  ELSE error(n.in),
                  [inv EXCEPT !.norm = n.is])
    [] OTHER -> ReadCode(next, inv)

-----------------------------------------------------------------------------
(* readfile.  The readers call each other in a fixed order; a list grows at *)
(* its end.                                                                 *)

\* The section and the student that are being read.
Students == Last(course.sections).students
WithSection(c, s) == [c EXCEPT !.sections[Len(c.sections)] = s]
WithStudents(c, ss) == [c EXCEPT !.sections[Len(c.sections)].students = ss]

\* The next state of the scanner: a fatal error ends the program.
Continue(i, next) == io' = i /\ pc' = (IF i.fatal THEN "fatal" ELSE next)

Init ==
  /\ root \in Roots /\ inc \in Includes
  /\ pc = "course" /\ io = Start(root) /\ course = NoCourse /\ written = << >>

readcourse ==
  /\ pc = "course"
  /\ LET number == readid(expecttoken(gobbleblanklines(io), "COURSE"))
         title == readname(number.in) IN
     /\ course' = [course EXCEPT !.number = number.is, !.title = title.is]
     /\ Continue(title.in, "professor")
  /\ UNCHANGED <<root, inc, written>>

readprofessor ==
  /\ pc = "professor"
  /\ LET p == ReadPerson(io, "PROFESSOR") IN
     /\ course' = [course EXCEPT !.professor = p.is]
     /\ Continue(p.in, "assignments")
  /\ UNCHANGED <<root, inc, written>>

readassignments ==
  /\ pc = "assignments"
  /\ LET name == readid(checktoken(io, "ASSIGNMENT"))
         atype == readatype(name.in) IN
     IF IsKey(io, "ASSIGNMENT")
       THEN /\ course' = [course EXCEPT !.assignments =
                            Append(@, NewAssignment(name.is, atype.is))]
            /\ Continue(expectnewline(atype.in), "assignment")
       ELSE course' = course /\ Continue(Peek(io), "sections")
  /\ UNCHANGED <<root, inc, written>>

\* The loop over the lines of an assignment.
AssignmentLine ==
  /\ pc = "assignment"
  /\ LET a == Last(course.assignments)
         Read(key, reader(_, _)) ==
           LET r == reader(checktoken(io, key), a) IN
           /\ course' = [course EXCEPT !.assignments[Len(course.assignments)] = r.is]
           /\ Continue(expectnewline(r.in), "assignment")
     IN \/ IsKey(io, "WEIGHT") /\ Read("WEIGHT", readweight)
        \/ IsKey(io, "NORMALIZE") /\ Read("NORMALIZE", readnorm)
        \/ IsKey(io, "MAXIMUM") /\ Read("MAXIMUM", readmax)
        \/ /\ \A k \in {"WEIGHT", "NORMALIZE", "MAXIMUM"} : ~IsKey(io, k)
           /\ course' = course /\ Continue(Peek(io), "assignments")
  /\ UNCHANGED <<root, inc, written>>

\* A file that has no token left is closed, the data file aside.
previousfile ==
  /\ pc = "sections" /\ ~istoken(Peek(io)) /\ Len(io.files) > 1
  /\ Continue([io EXCEPT !.files = Tail(@)], "sections")
  /\ UNCHANGED <<course, root, inc, written>>

pushfile ==
  /\ pc = "sections" /\ IsKey(io, "FILE")
  /\ LET name == advanceeol(checktoken(io, "FILE"))
         next == expectnewline(flushtoken(name)) IN
     IF next.fatal \/ name.tok # << <<"inc">> >> \/ Len(next.files) = MaxFiles
       THEN Continue(fatal(next), "sections")
       ELSE Continue(gobbleblanklines([next EXCEPT !.files = <<inc>> \o @]), "sections")
  /\ UNCHANGED <<course, root, inc, written>>

readsections ==
  /\ pc = "sections" /\ IsKey(io, "SECTION")
  /\ LET name == readname(checktoken(io, "SECTION"))
         assistant == ReadPerson(name.in, "ASSISTANT") IN
     /\ course' = [course EXCEPT !.sections = Append(@,
          [name |-> name.is, assistant |-> assistant.is, students |-> << >>])]
     /\ Continue(IF name.in.fatal THEN name.in ELSE assistant.in, "students")
  /\ UNCHANGED <<root, inc, written>>

readstudents ==
  /\ pc = "students"
  /\ LET id == readid(checktoken(io, "STUDENT"))
         surname == readsurname(id.in)
         name == readname(surname.in) IN
     IF IsKey(io, "STUDENT")
       THEN /\ course' = WithStudents(course, Append(Students,
                 [id |-> id.is, surname |-> surname.is, name |-> name.is,
                  scores |-> << >>]))
            /\ Continue(name.in, "scores")
       ELSE course' = course /\ Continue(Peek(io), "sections")
  /\ UNCHANGED <<root, inc, written>>

\* The assignment must have been declared, or the error is fatal.
readscores ==
  /\ pc = "scores"
  /\ LET p == Peek(checktoken(io, "SCORE"))
         a == {n \in DOMAIN course.assignments :
                 istoken(p) /\ course.assignments[n].name = p.tok[1]}
         n == CHOOSE m \in a : \A k \in a : m <= k
         g == readgrade(flushtoken(p), course.assignments[n], NewScore(n)) IN
     CASE ~IsKey(io, "SCORE") -> course' = course /\ Continue(Peek(io), "students")
       [] IsKey(io, "SCORE") /\ a = {} -> course' = course /\ Continue(fatal(p), "scores")
       [] OTHER ->
            /\ course' = WithStudents(course, [Students EXCEPT ![Len(Students)].scores =
                                                 Append(@, g.is)])
            /\ Continue(IF g.in.fatal THEN g.in ELSE expectnewline(g.in), "scores")
  /\ UNCHANGED <<root, inc, written>>

\* Variant: a token that is left over is not an error.
expecteofLenient ==
  /\ pc = "sections"
  /\ LET p == gobbleblanklines(Peek(io)) IN
     /\ ~IsKey(io, "SECTION") /\ ~IsKey(io, "FILE")
     /\ istoken(Peek(io)) \/ Len(io.files) = 1
     /\ Continue([p EXCEPT !.tok = << >>, !.files = << >>],
                 IF written = << >> THEN "read" ELSE "reread")
  /\ UNCHANGED <<course, root, inc, written>>

\* No section follows: the end of the data file is expected.
expecteof ==
  /\ pc = "sections"
  /\ LET p == gobbleblanklines(Peek(io)) IN
     /\ ~IsKey(io, "SECTION") /\ ~IsKey(io, "FILE")
     /\ istoken(Peek(io)) \/ Len(io.files) = 1
     /\ Continue([(IF ~istoken(p) /\ p.files = << << >> >> THEN p ELSE error(p))
                    EXCEPT !.tok = << >>, !.files = << >>],
                 IF written = << >> THEN "read" ELSE "reread")
  /\ UNCHANGED <<course, root, inc, written>>

-----------------------------------------------------------------------------
(* write.c.                                                                *)

WritePerson(key, p) == IF p = << >> THEN << >> ELSE << <<" ", key>> \o p[1] \o p[2] >>

\* Variant: the group is written for QUANTILE only.
writeassignmentGroup(a) ==
  << <<" ", "ASSIGNMENT">> \o a.name \o a.atype >>
  \o (IF a.wpolicy = "WEIGHT" THEN << <<" ", "WEIGHT", Printed(a.weight)>> >> ELSE << >>)
  \o (IF a.npolicy = "RAW" THEN << >>
      ELSE << <<" ", "NORMALIZE">>
              \o CASE a.npolicy = "LINEAR" -> <<"LINEAR", Printed(a.mean), Printed(a.stddev)>>
                   [] a.npolicy = "QUANTILE" -> <<"QUANTILE", a.ngroup>>
                   [] a.npolicy = "SCALE" -> <<"SCALE", Printed(a.scale)>> >>)
  \o (IF a.max = "0" THEN << >> ELSE << <<" ", "MAXIMUM", Printed(a.max)>> >>)

writeassignment(a) ==
  << <<" ", "ASSIGNMENT">> \o a.name \o a.atype >>
  \o (IF a.wpolicy = "WEIGHT" THEN << <<" ", "WEIGHT", Printed(a.weight)>> >> ELSE << >>)
  \o (IF a.npolicy = "RAW" THEN << >>
      ELSE << <<" ", "NORMALIZE">>
              \o CASE a.npolicy = "LINEAR" -> <<"LINEAR", Printed(a.mean), Printed(a.stddev)>>
                   [] a.npolicy = "QUANTILE" -> <<"QUANTILE">>
                   [] a.npolicy = "SCALE" -> <<"SCALE", Printed(a.scale)>>
              \o <<a.ngroup>> >>)
  \o (IF a.max = "0" THEN << >> ELSE << <<" ", "MAXIMUM", Printed(a.max)>> >>)

\* USENORM falls through to USELIKEAVG.
writescore(s, a) ==
  << <<" ", "SCORE">> \o a.name
     \o CASE s.flag = "VALID" -> <<Printed(s.grade)>>
          [] s.flag = "INVALID" /\ s.subst = "USERAW" -> <<"USERAW", Printed(s.grade)>> \o s.code
          [] s.flag = "INVALID" /\ s.subst = "USENORM" ->
               (IF a.npolicy = "RAW" THEN << >> ELSE <<"USENORM", Printed(s.norm)>>)
                 \o <<"USELIKEAVG">> \o s.code
          [] OTHER -> <<s.subst>> \o s.code >>

writestudent(s, assignments) ==
  << <<" ", "STUDENT">> \o s.id \o s.surname \o s.name >>
  \o FlattenSeq([n \in DOMAIN s.scores |->
                   writescore(s.scores[n], assignments[s.scores[n].asgt])])

writesection(s, assignments) ==
  << <<" ", "SECTION">> \o s.name >> \o WritePerson("ASSISTANT", s.assistant)
  \o FlattenSeq([n \in DOMAIN s.students |-> writestudent(s.students[n], assignments)])

writecourse(c) ==
  << <<"COURSE">> \o c.number \o c.title >> \o WritePerson("PROFESSOR", c.professor)
  \o FlattenSeq([n \in DOMAIN c.assignments |-> writeassignment(c.assignments[n])])
  \o FlattenSeq([n \in DOMAIN c.sections |-> writesection(c.sections[n], c.assignments)])

\* A score that normal is called for.
Normalized(s) == s.flag = "VALID" \/ s.subst = "USERAW"

Scored(c, n) ==
  \E sec \in Range(c.sections) : \E st \in Range(sec.students) :
    \E s \in Range(st.scores) : s.asgt = n /\ Normalized(s)

\* What normalize changes of what was read: the maximum of a SCALE assignment,
\* if it is too small to divide by.
normalize(c) ==
  [c EXCEPT !.assignments = [n \in DOMAIN @ |->
     IF @[n].npolicy = "SCALE" /\ Value[@[n].max] < EPSILON /\ Scored(c, n)
       THEN [@[n] EXCEPT !.max = "2e-6"] ELSE @[n]]]

\* main with --collate, if there were no errors: the course is normalized and
\* written; then the output is read.  (The rosters are in the order of the names
\* already, and the composites are not written.)
Collate ==
  /\ pc = "read" /\ io.errors = 0
  /\ written' = <<course>> /\ course' = NoCourse
  /\ io' = Start(writecourse(normalize(course))) /\ pc' = "course"
  /\ UNCHANGED <<root, inc>>

Next ==
  \/ readcourse \/ readprofessor \/ readassignments \/ AssignmentLine
  \/ previousfile \/ pushfile \/ readsections \/ readstudents \/ readscores
  \/ expecteof \/ Collate

Spec == Init /\ [][Next]_vars

-----------------------------------------------------------------------------
(* Properties.                                                             *)

\* Lines of a file that start, after white space, with a keyword.
Count(file, key) ==
  Len(SelectSeq(file, LAMBDA l : Unspaced(l) # << >> /\ Head(Unspaced(l)) = key))

Size(c, part(_)) == FoldLeft(LAMBDA n, s : n + part(s), 0, c.sections)

\* A file that was read without an error was read completely: every section,
\* student and score of the data file, and of an included file each time it is
\* included, is in the course.  The exception is a line of white space in an
\* included file: the reader takes it for the end of that file.
NothingSkipped ==
  pc = "read" /\ io.errors = 0 /\ (\A n \in DOMAIN inc : inc[n] # <<" ">>) =>
    LET all(key) == Count(root, key) + Count(root, "FILE") * Count(inc, key) IN
    /\ Len(course.sections) = all("SECTION")
    /\ Size(course, LAMBDA s : Len(s.students)) = all("STUDENT")
    /\ Size(course, LAMBDA s : FoldLeft(LAMBDA n, t : n + Len(t.scores), 0, s.students))
         = all("SCORE")

\* A course to six decimals, with the fields of its assignments that their
\* policies use; their maxima aside.
Meaning(c) ==
  LET asgt(a) ==
        [a EXCEPT !.ngroup = IF a.npolicy = "RAW" THEN "BYCLASS" ELSE @,
                  !.weight = Printed(@), !.max = Unset,
                  !.mean = Unset, !.stddev = Unset,
                  !.scale = IF a.npolicy = "SCALE" THEN Printed(@) ELSE Unset]
      student(t) == [t EXCEPT !.scores = [k \in DOMAIN @ |->
                                            [@[k] EXCEPT !.grade = Printed(@)]]]
  IN [c EXCEPT !.assignments = [n \in DOMAIN @ |-> asgt(@[n])],
               !.sections = [n \in DOMAIN @ |->
                  [@[n] EXCEPT !.students = [m \in DOMAIN @ |-> student(@[m])]]]]

\* What --collate writes reads back, without an error, as the same course to six
\* decimals unless it has a LINEAR assignment (written with a keyword the reader
\* does not know) or a USENORM score (written as USELIKEAVG as well).  The data
\* are normalized before they are written: a SCALE assignment that has no
\* maximum worth dividing by gets one, which was not in the input.
CollateReadsBack ==
  pc = "reread" =>
    LET c == written[1]
        linear == \E n \in DOMAIN c.assignments : c.assignments[n].npolicy = "LINEAR"
        usenorm == \E s \in Range(c.sections) : \E t \in Range(s.students) :
                     \E x \in Range(t.scores) : x.subst = "USENORM"
        max(n) == c.assignments[n].max
    IN \/ linear \/ usenorm
       \/ /\ io.errors = 0
          /\ Meaning(course) = Meaning(c)
          /\ \A n \in DOMAIN c.assignments :
               \/ course.assignments[n].max = Printed(max(n))
               \/ /\ c.assignments[n].npolicy = "SCALE" /\ Value[max(n)] < EPSILON
                  /\ Scored(c, n) /\ course.assignments[n].max = "2e-6"
=============================================================================
