---------------------------- MODULE MCGradesRead ----------------------------
(* Small instances for TLC: files put together from well-formed and         *)
(* malformed parts.                                                         *)
EXTENDS GradesRead

Headings == {<< <<"#", "x">>, << >>, <<" ">>, <<"COURSE", "c1", "a", "title">> >>,
             << <<"COURSE">>, <<"PROFESSOR", "s", "n">> >>,
             << <<"CURSE", "c1", "t">> >>}

Norms == {<<"NORMALIZE", "STDLINEAR", "BYSECTION">>, <<"NORMALIZE", "QUANTILE">>,
          <<"NORMALIZE", "SCALE", "5", "BYSECTION">>, <<"NORMALIZE", "SCALE", "x">>,
          <<"NORMALIZE", "GENLINEAR", "5", "BYCLASS">>, <<"NORMALIZE">>,
          <<"NORMALIZE", "RAW", "BYSECTION">>, <<"WEIGHT", "5">>, <<"WEIGHT", "x">>,
          <<"MAXIMUM", "5", "1">>, <<"MAXIMUM", "5">>, <<"MAXIMUM", "1e-7">>, <<" ">>}

Assignments ==
  {<< >>} \cup {<< <<"ASSIGNMENT", "hw", "HW">>, n>> : n \in Norms}
    \cup {<< <<"ASSIGNMENT", "hw", "HW">>, <<"WEIGHT", "1">>, << >>, n,
             <<"ASSIGNMENT", "ex", "EX">> >> : n \in Norms}

Scores == {<<"SCORE", "hw", "5">>, <<"SCORE", "hw", "1e-7">>, <<"SCORE", "ex", "5">>, <<"SCORE", "hw", "x">>,
           <<"SCORE", "hw", "USERAW", "5", "late">>, <<"SCORE", "hw", "USENORM", "200">>,
           <<"SCORE", "hw", "USENORM", "1", "sick">>,
           <<"SCORE", "hw", "USELIKEAVG", "sick">>, <<"SCORE", "hw", "USECLASSAVG">>}

Student1 == <<"STUDENT", "i1", "s1", "n1">>

Sections ==
  {<< >>, << <<"SECTION">>, <<"FOO">> >>, << <<"FILE", "none">> >>}
    \cup {<< <<"SECTION", "s">>, Student1, s>> : s \in Scores}
    \cup {<< <<"FILE", "inc">>, <<"SECTION", "s">>, <<"ASSISTANT", "a", "b">>, Student1, s,
             <<"SCORE", "hw", "1">>, <<"STUDENT", "i2", "s2">>, s, <<"FILE", "inc">> >> :
            s \in Scores}

MCRoots == {h \o a \o s : h \in Headings, a \in Assignments, s \in Sections}

MCIncludes == {<< >>, << <<"FILE", "inc">> >>, << <<"SECTION", "t">>, Student1 >>,
               << <<"SECTION", "t">>, <<" ">>, Student1 >>,
               << <<"#">>, <<"SECTION", "t">>, Student1, <<"SCORE", "hw", "5">> >>,
               << Student1 >>}
=============================================================================
