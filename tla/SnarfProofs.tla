---------------------------- MODULE SnarfProofs -----------------------------
(***************************************************************************)
(* Proofs about Snarf: for every command line, every set of response codes *)
(* and header keys and every bound, the five invariants that the run       *)
(* checks.  IInv, the inductive invariant, says                            *)
(*   - Arguments: what parse_args has made of the arguments it has passed;  *)
(*   - Overwritten: what stringConcat overwrites lies between the first and *)
(*     the last query word it has passed;                                   *)
(*   - Allocated: what is on the heap, by the statement main is at;         *)
(*   - Headers: the list of header nodes against the lines that were read;  *)
(*   - Lookups: up to which argument the queries have been answered;        *)
(*   - Transfer: where a document, a code and an exit status come from.     *)
(***************************************************************************)
EXTENDS Snarf, WellFoundedInduction, TLAPS

Strings == [i \in DOMAIN argv |-> argv[i].s]

\* The arguments before n that are words to look up.
Asked(n) == {i \in 2 .. n - 1 : argv[i - 1].s = "-q"}

Arguments ==
  /\ argv \in Argvs
  /\ optind \in 1 .. Len(argv) + 1
  /\ pc = "args" /\ optind > 1 => ~IsFlag(optind - 1)
  /\ pc \notin {"args", "exited"} => optind = Len(argv) + 1
  /\ file \in Nat
  /\ file # 0 => /\ file \in 2 .. optind - 1
                 /\ argv[file - 1].s = "-o" /\ ~IsFlag(file)
  /\ key.words \in Seq(STRING \ {"freed", "bad"})
  /\ AtPlaces(key.words, Strings, Asked(optind))

EndOf(i) == Start(i) + argv[i].len

Between(j, k) ==
  /\ argv[j].s = "-q" /\ argv[k].s = "-q"
  /\ ~IsFlag(j + 1) /\ ~IsFlag(k + 1)
  /\ key.end \in EndOf(j + 1) .. EndOf(k + 1)
  /\ dirty \subseteq EndOf(j + 1) .. key.end

Overwritten ==
  /\ key \in [words : Seq(STRING), end : Nat]
  /\ key.words = << >> => dirty = {}
  /\ key.words # << >> => \E j, k \in 1 .. optind - 2 : Between(j, k)

UrlParts == {"url", "method", "hostname"}
Connection == {"http", "stream", "response"}

Allocated ==
  /\ pc \in {"args", "url", "exited"} => heap = {}
  /\ pc \in {"address", "connect"} => heap \subseteq UrlParts
  /\ pc \in {"request", "response", "headers", "queries"} =>
       heap \subseteq UrlParts \cup Connection
  /\ pc = "body" => heap \subseteq UrlParts \cup Connection \cup {"fp"}

GoodLines == {i \in DOMAIN lines : lines[i] # "bad"}

Headers ==
  /\ lines \in Seq(Keys \cup {"bad"})
  /\ headers \in Seq(Keys \cup {"freed"})
  /\ \A n \in DOMAIN headers : headers[n] = "freed" =>
       n = Len(headers) /\ lines # << >> /\ lines[Len(lines)] = "bad"
  /\ pc = "undefined" => lines # << >> /\ lines[Len(lines)] = "bad"
  /\ AtPlaces(Linked, lines, GoodLines)

Answered(i) == Strings[i] \in Range(lines)

Early == {"args", "url", "address", "connect", "request", "response", "headers"}

Lookups ==
  /\ shown \in Seq(STRING \ {"freed", "bad"})
  /\ queries \in Seq(STRING \ {"freed", "bad"})
  /\ pc \in Early => shown = << >>
  /\ pc = "queries" =>
       \E m \in 1 .. optind :
         /\ AtPlaces(queries, Strings, {i \in Asked(optind) : i > m})
         /\ AtPlaces(shown, Strings, {i \in Asked(optind) : i <= m /\ Answered(i)})
  /\ output.to # "none" =>
       /\ pc \in {"body", "exited", "undefined"}
       /\ optind = Len(argv) + 1
       /\ AtPlaces(shown, Strings, {i \in Asked(optind) : Answered(i)})

Outputs == [to : {"none", "stdout", "file"}, bytes : Nat, lost : BOOLEAN]

Transfer ==
  /\ pc \in Early \cup {"queries", "body", "exited", "undefined"}
  /\ output \in Outputs
  /\ body \in Nat /\ output.bytes <= body
  /\ output.lost \/ output.bytes = body
  /\ pc \in Early \cup {"queries"} => output.to = "none" /\ body = 0
  /\ pc \in Early => state # "ST_BODY"
  /\ pc = "body" => output.to # "none"
  /\ pc \in {"request", "response", "headers", "queries", "body"} =>
       url.method = <<"http">>
  /\ pc = "headers" => code \in Codes
  /\ state = "ST_BODY" => code \in Codes /\ url.method = <<"http">>
  /\ body > 0 \/ output.lost => state = "ST_BODY"
  /\ pc = "exited" /\ status = 0 /\ (\A i \in DOMAIN argv : argv[i].s # "-h") =>
       (code = 200 \/ code % 256 = 0) /\ output.to # "none"

\* The inductive invariant.
IInv == Arguments /\ Overwritten /\ Allocated /\ Headers /\ Lookups /\ Transfer

-----------------------------------------------------------------------------
(* Numbers and places.                                                     *)

(* Every non-empty set of naturals has a least element: the place function *)
(* of Start is unfolded from it.                                            *)
LEMMA LeastNumber ==
  ASSUME NEW S \in SUBSET Nat, S # {}
  PROVE  \E m \in S : \A n \in S : m <= n
<1> DEFINE Less == {ss \in Nat \X Nat : ss[1] < ss[2]}
<1>1. IsWellFoundedOn(Less, Nat)
  BY NatLessThanWellFounded, Zenon DEF OpToRel
<1> HIDE DEF Less
<1>2. PICK m \in S : \A n \in S : <<n, m>> \notin Less
  BY <1>1, WFMin
<1>3. \A n \in S : ~(n < m)
  BY <1>2 DEF Less
<1> QED
  BY <1>3

(* What parse_args takes of the arguments: strings with lengths.            *)
LEMMA Argv ==
  ASSUME argv \in Argvs
  PROVE  /\ Len(argv) \in Nat /\ DOMAIN argv = 1 .. Len(argv)
         /\ \A i \in DOMAIN argv :
              argv[i].s \in STRING \ {"freed", "bad"} /\ argv[i].len \in Nat
<1> DEFINE Arg == [s : STRING \ {"freed", "bad"}, len : Nat]
<1>1. argv \in Seq(Arg)
  BY ArgvsAssumption
<1> HIDE DEF Arg
<1>2. Len(argv) \in Nat /\ DOMAIN argv = 1 .. Len(argv)
  BY <1>1
<1>3. \A i \in DOMAIN argv : argv[i] \in Arg
  BY <1>1
<1> QED
  BY <1>2, <1>3 DEF Arg

(* The places of the arguments exist and each follows the one before: Start *)
(* is what its recursion says.                                              *)
LEMMA StartIs ==
  ASSUME argv \in Argvs, NEW j \in DOMAIN argv
  PROVE  /\ Start(j) \in Nat
         /\ j = 1 => Start(j) = 1
         /\ j > 1 => Start(j) = Start(j - 1) + argv[j - 1].len + 1
<1> DEFINE N == Len(argv)
           e(f, i) == IF i = 1 THEN 1 ELSE f[i - 1] + argv[i - 1].len + 1
           Fits(f, n) == f = [i \in 1 .. n |-> e(f, i)]
           Bad == {n \in 0 .. N : ~ \E f : Fits(f, n)}
<1>1. N \in Nat /\ \A i \in 1 .. N : argv[i].len \in Nat
  BY Argv
<1>2. Bad = {}
  <2> SUFFICES ASSUME Bad # {} PROVE FALSE
    OBVIOUS
  <2>0. Bad \subseteq 0 .. N /\ 0 .. N \subseteq Nat
    BY <1>1
  <2>1. PICK n \in Bad : \A m \in Bad : n <= m
    <3> HIDE DEF Bad
    <3> QED
      BY <2>0, LeastNumber
  <2>2. CASE n = 0
    <3>1. Fits([i \in 1 .. 0 |-> 0], 0)
      OBVIOUS
    <3> QED
      BY <2>1, <2>2, <3>1
  <2>3. CASE n # 0
    <3>0. n \in 1 .. N /\ n - 1 \in 0 .. N
      BY <1>1, <2>0, <2>3
    <3>1. n - 1 \notin Bad
      <4> HIDE DEF Bad
      <4> QED
        BY <1>1, <2>1, <3>0
    <3>2. PICK f : Fits(f, n - 1)
      BY <3>0, <3>1
    <3> DEFINE g == [i \in 1 .. n |-> e(f, i)]
    <3>3. \A i \in 1 .. n - 1 : g[i] = f[i]
      BY <1>1, <3>0, <3>2
    <3>4. \A i \in 1 .. n : e(g, i) = e(f, i)
      <4> TAKE i \in 1 .. n
      <4>1. i # 1 => i - 1 \in 1 .. n - 1
        BY <1>1, <3>0
      <4> HIDE DEF g
      <4> QED
        BY <3>3, <4>1
    <3>5. Fits(g, n)
      BY <3>4
    <3> QED
      BY <2>1, <3>5
  <2> QED
    BY <2>2, <2>3
<1>3. \E f : Fits(f, N)
  BY <1>1, <1>2
<1> DEFINE place == CHOOSE f : Fits(f, N)
<1>4. Fits(place, N)
  BY <1>3, Zenon
<1>5. \A i : Start(i) = place[i]
  BY Zenon DEF Start
<1> HIDE DEF place
<1>6. \A i \in 1 .. N : place[i] = e(place, i)
  BY <1>4
<1>7. \A i \in 1 .. N : place[i] \in Nat
  <2> DEFINE Odd == {i \in 1 .. N : place[i] \notin Nat}
  <2> SUFFICES ASSUME Odd # {} PROVE FALSE
    OBVIOUS
  <2>0. Odd \subseteq 1 .. N /\ 1 .. N \subseteq Nat
    BY <1>1
  <2>1. PICK i \in Odd : \A k \in Odd : i <= k
    <3> HIDE DEF Odd
    <3> QED
      BY <2>0, LeastNumber
  <2>2. CASE i = 1
    BY <1>1, <1>6, <2>1, <2>2
  <2>3. CASE i # 1
    <3>1. i - 1 \in 1 .. N /\ i - 1 \notin Odd
      BY <1>1, <2>1, <2>3
    <3> QED
      BY <1>1, <1>6, <2>1, <2>3, <3>1
  <2> QED
    BY <2>2, <2>3
<1> QED
  BY <1>1, <1>5, <1>6, <1>7, Argv

(* The strings stand one behind the other.                                  *)
LEMMA StartGrows ==
  ASSUME argv \in Argvs, NEW i \in DOMAIN argv, NEW j \in DOMAIN argv, i < j
  PROVE  EndOf(i) < Start(j)
<1> DEFINE Bad == {k \in DOMAIN argv : i < k /\ ~(EndOf(i) < Start(k))}
<1> SUFFICES ASSUME Bad # {} PROVE FALSE
  OBVIOUS
<1>1. Bad \subseteq Nat
  BY Argv
<1>2. PICK k \in Bad : \A m \in Bad : k <= m
  BY <1>1, LeastNumber
<1>3. k \in DOMAIN argv /\ k > 1 /\ k - 1 \in DOMAIN argv /\ i <= k - 1
  BY <1>2, Argv
<1>5. k - 1 \notin Bad
  <2> HIDE DEF Bad
  <2> QED
    BY <1>1, <1>2, <1>3, Argv
<1>6. /\ Start(k) = Start(k - 1) + argv[k - 1].len + 1
      /\ Start(k - 1) \in Nat /\ argv[k - 1].len \in Nat
  BY <1>3, Argv, StartIs
<1>4. Start(i) \in Nat /\ argv[i].len \in Nat
  BY Argv, StartIs
<1> QED
  BY <1>2, <1>3, <1>4, <1>5, <1>6, Argv DEF EndOf

-----------------------------------------------------------------------------
(* Sequences that pick the elements at some places.                         *)

(* The empty sequence picks at no places, and only there.                   *)
LEMMA PlacesEmpty ==
  ASSUME NEW s
  PROVE  /\ AtPlaces(<< >>, s, {})
         /\ \A I : AtPlaces(<< >>, s, I) => I = {}
<1>1. DOMAIN << >> = {}
  OBVIOUS
<1>2. [n \in {} |-> 0] \in [DOMAIN << >> -> {}]
  BY <1>1
<1> QED
  BY <1>1, <1>2 DEF AtPlaces

(* A later element is added at the end.                                     *)
LEMMA PlacesAppend ==
  ASSUME NEW T, NEW t \in Seq(T), NEW s, NEW I \in SUBSET Nat, NEW i \in Nat,
         s[i] \in T, AtPlaces(t, s, I), \A j \in I : j < i
  PROVE  AtPlaces(Append(t, s[i]), s, I \cup {i})
<1> DEFINE u == Append(t, s[i])
<1>1. PICK place \in [DOMAIN t -> I] :
        /\ \A j \in I : \E n \in DOMAIN t : place[n] = j
        /\ \A n \in DOMAIN t : t[n] = s[place[n]]
        /\ \A m, n \in DOMAIN t : m < n => place[m] < place[n]
  BY DEF AtPlaces
<1>2. /\ Len(t) \in Nat /\ DOMAIN t = 1 .. Len(t) /\ DOMAIN u = 1 .. Len(t) + 1
      /\ \A n \in DOMAIN t : u[n] = t[n]
      /\ u[Len(t) + 1] = s[i]
  OBVIOUS
<1> HIDE DEF u
<1> DEFINE q == [n \in DOMAIN u |-> IF n = Len(t) + 1 THEN i ELSE place[n]]
<1>3. /\ q \in [DOMAIN u -> I \cup {i}]
      /\ \A n \in DOMAIN t : q[n] = place[n] /\ n # Len(t) + 1
      /\ Len(t) + 1 \in DOMAIN u /\ q[Len(t) + 1] = i
  BY <1>1, <1>2
<1> HIDE DEF q
<1>4. \A j \in I \cup {i} : \E n \in DOMAIN u : q[n] = j
  BY <1>1, <1>2, <1>3
<1>5. \A n \in DOMAIN u : u[n] = s[q[n]]
  BY <1>1, <1>2, <1>3
<1>6. ASSUME NEW m \in DOMAIN u, NEW n \in DOMAIN u, m < n
      PROVE  q[m] < q[n]
  <2>1. m \in DOMAIN t /\ q[m] = place[m] /\ place[m] \in I
    BY <1>1, <1>2, <1>3, <1>6
  <2>2. CASE n = Len(t) + 1
    BY <1>3, <2>1, <2>2
  <2>3. CASE n # Len(t) + 1
    <3>1. n \in DOMAIN t
      BY <1>2, <2>3
    <3> QED
      BY <1>1, <1>3, <1>6, <2>1, <3>1
  <2> QED
    BY <2>2, <2>3
<1> QED
  BY <1>3, <1>4, <1>5, <1>6 DEF AtPlaces, u

(* The sequence the elements come from matters at these places only.        *)
LEMMA PlacesSame ==
  ASSUME NEW t, NEW s, NEW r, NEW I, AtPlaces(t, s, I), \A i \in I : s[i] = r[i]
  PROVE  AtPlaces(t, r, I)
BY DEF AtPlaces

(* The first element comes from the least place.                            *)
LEMMA PlacesTail ==
  ASSUME NEW T, NEW t \in Seq(T), t # << >>, NEW s, NEW I \in SUBSET Nat,
         AtPlaces(t, s, I)
  PROVE  \E i \in I : /\ Head(t) = s[i]
                       /\ \A j \in I : i <= j
                       /\ AtPlaces(Tail(t), s, I \ {i})
<1> DEFINE u == Tail(t)
<1>1. PICK place \in [DOMAIN t -> I] :
        /\ \A j \in I : \E n \in DOMAIN t : place[n] = j
        /\ \A n \in DOMAIN t : t[n] = s[place[n]]
        /\ \A m, n \in DOMAIN t : m < n => place[m] < place[n]
  BY DEF AtPlaces
<1>2. /\ Len(t) \in Nat \ {0} /\ DOMAIN t = 1 .. Len(t) /\ DOMAIN u = 1 .. Len(t) - 1
      /\ \A n \in DOMAIN u : u[n] = t[n + 1]
      /\ Head(t) = t[1]
  OBVIOUS
<1> HIDE DEF u
<1> DEFINE i == place[1]
           q == [n \in DOMAIN u |-> place[n + 1]]
<1>3. /\ 1 \in DOMAIN t /\ i \in I /\ Head(t) = s[i]
      /\ \A n \in DOMAIN t : place[n] \in I /\ (n # 1 => 1 < n)
  BY <1>1, <1>2
<1>0. \A n \in DOMAIN t : n # 1 => i < place[n] /\ i \in Nat /\ place[n] \in Nat
  BY <1>1, <1>3
<1>4. ASSUME NEW j \in I
      PROVE  i <= j /\ (j # i => \E n \in DOMAIN t : n # 1 /\ place[n] = j)
  <2>1. PICK n \in DOMAIN t : place[n] = j
    BY <1>1
  <2>2. CASE n = 1
    BY <2>1, <2>2
  <2>3. CASE n # 1
    <3> HIDE DEF i
    <3> QED
      BY <1>0, <2>1, <2>3
  <2> QED
    BY <2>2, <2>3
<1>5. \A n \in DOMAIN u : n + 1 \in DOMAIN t /\ 1 < n + 1 /\ q[n] = place[n + 1]
  BY <1>2
<1>6. \A n \in DOMAIN t : n # 1 => n - 1 \in DOMAIN u /\ q[n - 1] = place[n]
  BY <1>2
<1>7. q \in [DOMAIN u -> I \ {i}]
  <2>1. \A n \in DOMAIN u : place[n + 1] \in I \ {i}
    BY <1>0, <1>3, <1>5
  <2> QED
    BY <2>1
<1>8. \A j \in I \ {i} : \E n \in DOMAIN u : q[n] = j
  <2> HIDE DEF q, i
  <2> QED
    BY <1>4, <1>6
<1>9. \A n \in DOMAIN u : u[n] = s[q[n]]
  BY <1>1, <1>2, <1>5
<1>10. \A m, n \in DOMAIN u : m < n => q[m] < q[n]
  BY <1>1, <1>2, <1>5
<1>11. AtPlaces(u, s, I \ {i})
  <2> HIDE DEF q, i
  <2> QED
    BY <1>7, <1>8, <1>9, <1>10 DEF AtPlaces
<1> QED
  BY <1>3, <1>4, <1>11 DEF u

-----------------------------------------------------------------------------
(* The arguments.                                                          *)

(* No step writes to the pointers of argv.                                  *)
LEMMA SameArgv ==
  ASSUME [Next]_vars
  PROVE  argv' = argv
BY DEF Next, vars, argvars, urlvars, connvars, outvars, Exit,
       HelpWanted, Query, OutputFile, Usage, UrlToSnarf, NoUrlGiven, UrlParse,
       url_address, NotHttp, OpenFails, http_open, http_request, NoResponse,
       http_response, HeaderGood, HeaderBad, HeadersEnd, Lookup, ToStdout, ToFile,
       FileFails, Byte, End

(* What depends on argv alone.                                              *)
LEMMA OfArgv ==
  ASSUME argv' = argv
  PROVE  /\ Strings' = Strings
         /\ \A n : Asked(n)' = Asked(n)
         /\ \A i : (IsFlag(i)' <=> IsFlag(i)) /\ EndOf(i)' = EndOf(i)
BY DEF Strings, Asked, IsFlag, EndOf, Start

(* Which statement follows which, for the arguments.                        *)
LEMMA ArgumentsKept ==
  ASSUME Arguments, UNCHANGED argvars,
         \/ pc' = pc
         \/ pc' = "exited"
         \/ pc \notin {"args", "exited"} /\ pc' # "args"
  PROVE  Arguments'
BY OfArgv DEF Arguments, argvars

(* The places of the words to look up grow with optind.                     *)
LEMMA AskedGrows ==
  ASSUME Arguments, pc = "args", optind <= Len(argv)
  PROVE  /\ Asked(optind) \in SUBSET (2 .. optind - 1)
         /\ Asked(optind + 1) = Asked(optind)
         /\ argv[optind].s = "-q" => Asked(optind + 2) = Asked(optind) \cup {optind + 1}
         /\ argv[optind].s # "-q" => Asked(optind + 2) = Asked(optind)
<1>1. Len(argv) \in Nat /\ optind \in 1 .. Len(argv)
  BY Argv DEF Arguments
<1>2. optind > 1 => argv[optind - 1].s # "-q"
  BY DEF Arguments, IsFlag
<1>3. Asked(optind) \in SUBSET (2 .. optind - 1)
  BY DEF Asked
<1>4. Asked(optind + 1) = Asked(optind)
  <2>1. \A i : i \in 2 .. optind <=> (i \in 2 .. optind - 1 \/ (i = optind /\ optind > 1))
    BY <1>1
  <2> QED
    BY <1>1, <1>2, <2>1 DEF Asked
<1>5. \A i : i \in Asked(optind + 2) <=>
             i \in Asked(optind + 1) \/ (i = optind + 1 /\ argv[optind].s = "-q")
  <2>1. \A i : i \in 2 .. optind + 1 <=> (i \in 2 .. optind \/ i = optind + 1)
    BY <1>1
  <2> QED
    BY <1>1, <2>1 DEF Asked
<1> QED
  BY <1>3, <1>4, <1>5

(* What the parsing steps need of the argument behind an option.            *)
LEMMA NextArgument ==
  ASSUME Arguments, Parsing, optind < Len(argv)
  PROVE  /\ Len(argv) \in Nat /\ optind \in 1 .. Len(argv)
         /\ DOMAIN argv = 1 .. Len(argv)
         /\ optind + 1 \in DOMAIN argv
         /\ argv[optind + 1].s \in STRING \ {"freed", "bad"}
         /\ argv[optind + 1].len \in Nat
         /\ argv[optind + 1].s = Strings[optind + 1]
BY Argv DEF Arguments, Parsing, Strings

LEMMA ArgumentsNext ==
  ASSUME IInv, [Next]_vars
  PROVE  Arguments'
<1>0. /\ argv' = argv /\ Strings' = Strings /\ \A n : Asked(n)' = Asked(n)
      /\ \A i : IsFlag(i)' <=> IsFlag(i)
      /\ Arguments
  BY SameArgv, OfArgv DEF IInv
<1>1. CASE Query
  <2>1. /\ Parsing /\ optind < Len(argv) /\ pc = "args" /\ pc' = pc
        /\ argv[optind].s = "-q" /\ ~IsFlag(optind + 1)
        /\ optind' = optind + 2 /\ file' = file
    BY <1>1 DEF Query, Parsing
  <2>2. key'.words = Append(key.words, argv[optind + 1].s)
    <3>1. \A w : <<w>> = Append(<< >>, w)
      OBVIOUS
    <3>2. CASE key.words = << >>
      <4>1. key' = [words |-> <<argv[optind + 1].s>>,
                    end |-> Start(optind + 1) + argv[optind + 1].len]
        BY <1>1, <3>2 DEF Query
      <4> QED
        BY <3>1, <3>2, <4>1
    <3>3. CASE key.words # << >>
      BY <1>1, <3>3 DEF Query, stringConcat
    <3> QED
      BY <3>2, <3>3
  <2>3. /\ Asked(optind') = Asked(optind) \cup {optind + 1}
        /\ Asked(optind) \in SUBSET (2 .. optind - 1)
    BY <1>0, <2>1, AskedGrows, NextArgument
  <2>4. AtPlaces(key'.words, Strings, Asked(optind'))
    <3>1. Asked(optind) \in SUBSET Nat /\ \A j \in Asked(optind) : j < optind + 1
      BY <1>0, <2>1, <2>3, NextArgument
    <3> DEFINE T == STRING \ {"freed", "bad"}
    <3>2. key.words \in Seq(T) /\ AtPlaces(key.words, Strings, Asked(optind))
      BY <1>0 DEF Arguments
    <3>3. /\ optind + 1 \in Nat /\ argv[optind + 1].s = Strings[optind + 1]
          /\ Strings[optind + 1] \in T
      BY <1>0, <2>1, NextArgument
    <3> HIDE DEF T
    <3>4. AtPlaces(Append(key.words, Strings[optind + 1]), Strings,
                   Asked(optind) \cup {optind + 1})
      BY <3>1, <3>2, <3>3, PlacesAppend
    <3> QED
      BY <2>2, <2>3, <3>3, <3>4
  <2>5. key'.words \in Seq(STRING \ {"freed", "bad"})
    BY <1>0, <2>1, <2>2, NextArgument DEF Arguments
  <2>6. optind' \in 1 .. Len(argv) + 1 /\ optind' - 1 = optind + 1
    BY <1>0, <2>1, NextArgument
  <2>7. file' # 0 => file' \in 2 .. optind' - 1
    BY <1>0, <2>1, NextArgument DEF Arguments
  <2> QED
    BY <1>0, <2>1, <2>4, <2>5, <2>6, <2>7 DEF Arguments
<1>2. CASE OutputFile
  <2>1. /\ Parsing /\ optind < Len(argv) /\ pc = "args" /\ pc' = pc
        /\ argv[optind].s = "-o" /\ ~IsFlag(optind + 1)
        /\ optind' = optind + 2 /\ file' = optind + 1 /\ key' = key
    BY <1>2 DEF OutputFile, Parsing
  <2>2. Asked(optind') = Asked(optind)
    BY <1>0, <2>1, AskedGrows, NextArgument
  <2>3. /\ optind' \in 1 .. Len(argv) + 1 /\ optind' - 1 = optind + 1
        /\ file' \in 2 .. optind' - 1 /\ file' - 1 = optind /\ file' \in Nat
    BY <1>0, <2>1, NextArgument
  <2> QED
    BY <1>0, <2>1, <2>2, <2>3 DEF Arguments
<1>3. CASE UrlToSnarf
  <2>1. /\ pc = "args" /\ pc' = "url" /\ optind = Len(argv) /\ optind' = optind + 1
        /\ file' = file /\ key' = key
    BY <1>3 DEF UrlToSnarf, Parsing
  <2>2. Len(argv) \in Nat
    BY <1>0, Argv DEF Arguments
  <2>3. Asked(optind') = Asked(optind)
    BY <1>0, <2>1, <2>2, AskedGrows
  <2>4. file' # 0 => file' \in 2 .. optind' - 1
    BY <1>0, <2>1, <2>2 DEF Arguments
  <2>5. optind' \in 1 .. Len(argv) + 1
    BY <1>0, <2>1, <2>2 DEF Arguments
  <2> QED
    BY <1>0, <2>1, <2>2, <2>3, <2>4, <2>5 DEF Arguments
<1>4. CASE HelpWanted \/ Usage \/ NoUrlGiven \/ NotHttp \/ OpenFails
  BY <1>0, <1>4, ArgumentsKept
  DEF HelpWanted, Usage, NoUrlGiven, NotHttp, OpenFails, Exit
<1>5. CASE UrlParse \/ url_address \/ http_open \/ http_request \/ NoResponse
            \/ http_response \/ HeadersEnd \/ ToStdout \/ ToFile
  BY <1>0, <1>5, ArgumentsKept
  DEF UrlParse, url_address, http_open, http_request, NoResponse, http_response,
      HeadersEnd, ToStdout, ToFile
<1>6. CASE HeaderGood \/ HeaderBad \/ Byte
  BY <1>0, <1>6, ArgumentsKept DEF HeaderGood, HeaderBad, Byte
<1>7. CASE Lookup \/ FileFails \/ End
  BY <1>0, <1>7, ArgumentsKept DEF Lookup, FileFails, End, Exit
<1>8. CASE UNCHANGED vars
  BY <1>0, <1>8, ArgumentsKept DEF vars
<1> QED
  BY <1>1, <1>2, <1>3, <1>4, <1>5, <1>6, <1>7, <1>8 DEF Next

(* stringConcat goes no further than the word it copies.                    *)
LEMMA OverwrittenNext ==
  ASSUME IInv, [Next]_vars
  PROVE  Overwritten'
<1>0. /\ argv' = argv /\ \A i : EndOf(i)' = EndOf(i)
      /\ \A i : IsFlag(i)' <=> IsFlag(i)
      /\ Arguments /\ Overwritten /\ argv \in Argvs
  BY SameArgv, OfArgv DEF IInv, Arguments
<1>1. CASE Query
  <2>0. PICK o, w : o = optind /\ w = optind + 1
    OBVIOUS
  <2>1. /\ Parsing /\ optind < Len(argv) /\ argv[o].s = "-q" /\ ~IsFlag(w)
        /\ optind' = optind + 2
    BY <1>1, <2>0 DEF Query
  <2>2. /\ o \in Nat \ {0} /\ w = o + 1 /\ w \in DOMAIN argv /\ argv[w].s \in STRING
        /\ argv[w].len \in Nat /\ DOMAIN argv = 1 .. Len(argv) /\ Len(argv) \in Nat
    BY <1>0, <2>0, <2>1, NextArgument
  <2>3. Start(w) \in Nat /\ EndOf(w) = Start(w) + argv[w].len
    BY <1>0, <2>2, StartIs DEF EndOf
  <2>4. o \in 1 .. optind' - 2
    BY <2>0, <2>1, <2>2
  <2>5. CASE key.words = << >>
    <3>1. /\ key' = [words |-> <<argv[w].s>>, end |-> EndOf(w)] /\ dirty' = dirty
          /\ dirty = {}
      BY <1>0, <1>1, <2>0, <2>5 DEF Query, EndOf, Overwritten
    <3>2. key'.words # << >> /\ key'.end = EndOf(w)
      BY <3>1
    <3>3. key' \in [words : Seq(STRING), end : Nat]
      BY <2>2, <2>3, <3>1
    <3>4. Between(o, o)'
      BY <1>0, <2>1, <2>3, <2>2, <3>1, <3>2 DEF Between
    <3> QED
      BY <2>4, <3>2, <3>3, <3>4 DEF Overwritten
  <2>6. CASE key.words # << >>
    <3>1. PICK j, k \in 1 .. optind - 2 : Between(j, k)
      BY <1>0, <2>6 DEF Overwritten
    <3>0. PICK end : end = key.end + 1 + argv[w].len
      OBVIOUS
    <3>2. key \in [words : Seq(STRING), end : Nat] /\ key.end \in Nat
      BY <1>0 DEF Overwritten
    <3>3. /\ key' = [words |-> Append(key.words, argv[w].s), end |-> end]
          /\ dirty' = dirty \cup key.end .. end
      BY <1>1, <2>0, <2>6, <3>0 DEF Query, stringConcat
    <3>4. key'.words # << >> /\ key'.end = end /\ end \in Nat
      <4>1. key.words \in Seq(STRING) /\ argv[w].s \in STRING
        BY <2>2, <3>2
      <4>2. Append(key.words, argv[w].s) # << >>
        <5>1. Len(Append(key.words, argv[w].s)) = Len(key.words) + 1
          BY <4>1
        <5>2. Len(key.words) \in Nat /\ Len(<< >>) = 0
          BY <4>1
        <5> QED
          BY <5>1, <5>2
      <4> QED
        BY <2>2, <3>0, <3>2, <3>3, <4>2
    <3>5. key' \in [words : Seq(STRING), end : Nat]
      <4>1. key.words \in Seq(STRING) /\ argv[w].s \in STRING
        BY <2>2, <3>2
      <4>2. Append(key.words, argv[w].s) \in Seq(STRING)
        BY <4>1
      <4> QED
        BY <3>3, <3>4, <4>2
    <3>6. /\ j + 1 \in DOMAIN argv /\ k + 1 \in DOMAIN argv /\ k + 1 < w
          /\ j \in 1 .. optind' - 2
      BY <2>0, <2>1, <2>2, <3>1
    <3>7. EndOf(k + 1) < Start(w) /\ EndOf(j + 1) \in Nat /\ EndOf(k + 1) \in Nat
      <4>1. EndOf(k + 1) < Start(w)
        BY <1>0, <2>2, <3>6, StartGrows
      <4>2. \A i \in DOMAIN argv : Start(i) \in Nat /\ argv[i].len \in Nat
        BY <1>0, StartIs, Argv
      <4> QED
        BY <3>6, <4>1, <4>2 DEF EndOf
    <3>8. /\ key.end \in EndOf(j + 1) .. EndOf(k + 1)
          /\ dirty \subseteq EndOf(j + 1) .. key.end
          /\ argv[j].s = "-q" /\ ~IsFlag(j + 1)
      BY <3>1 DEF Between
    <3>9. EndOf(j + 1) <= key.end /\ key.end <= EndOf(k + 1) /\ key.end <= end
      BY <2>2, <3>0, <3>2, <3>7, <3>8
    <3>10. end \in EndOf(j + 1) .. EndOf(w)
      BY <2>2, <2>3, <3>0, <3>2, <3>4, <3>7, <3>9
    <3>11. dirty' \subseteq EndOf(j + 1) .. end
      <4>1. \A b : b \in EndOf(j + 1) .. key.end => b \in EndOf(j + 1) .. end
        BY <3>2, <3>4, <3>7, <3>9
      <4>2. \A b : b \in key.end .. end => b \in EndOf(j + 1) .. end
        BY <3>2, <3>4, <3>7, <3>9
      <4> QED
        BY <3>3, <3>8, <4>1, <4>2
    <3>12. Between(j, o)'
      BY <1>0, <2>1, <2>2, <3>4, <3>8, <3>10, <3>11 DEF Between
    <3> QED
      BY <2>4, <3>4, <3>5, <3>6, <3>12 DEF Overwritten
  <2> QED
    BY <2>5, <2>6
<1>2. CASE key' = key /\ dirty' = dirty /\ optind' \in Nat /\ optind <= optind'
  <2>1. \A j, k : Between(j, k)' <=> Between(j, k)
    BY <1>0, <1>2 DEF Between
  <2>2. optind \in Nat
    BY <1>0, Argv DEF Arguments
  <2>3. key.words # << >> => \E j, k \in 1 .. optind' - 2 : Between(j, k)'
    <3> SUFFICES ASSUME key.words # << >>
                 PROVE  \E j, k \in 1 .. optind' - 2 : Between(j, k)'
      OBVIOUS
    <3>1. PICK j, k \in 1 .. optind - 2 : Between(j, k)
      BY <1>0 DEF Overwritten
    <3>2. j \in 1 .. optind' - 2 /\ k \in 1 .. optind' - 2
      <4>1. \A m, n \in Nat : m <= n => 1 .. m - 2 \subseteq 1 .. n - 2
        OBVIOUS
      <4> QED
        BY <1>2, <2>2, <4>1
    <3> QED
      BY <2>1, <3>1, <3>2
  <2> QED
    BY <1>0, <1>2, <2>3 DEF Overwritten
<1>3. CASE ~Query
  <2>1. optind \in Nat
    BY <1>0, Argv DEF Arguments
  <2>2. key' = key /\ dirty' = dirty /\ optind' \in {optind, optind + 1, optind + 2}
    BY <1>3
    DEF Next, vars, argvars, Exit,
       HelpWanted, OutputFile, Usage, UrlToSnarf, NoUrlGiven, UrlParse,
       url_address, NotHttp, OpenFails, http_open, http_request, NoResponse,
       http_response, HeaderGood, HeaderBad, HeadersEnd, Lookup, ToStdout, ToFile,
       FileFails, Byte, End
  <2> QED
    BY <1>2, <2>1, <2>2
<1> QED
  BY <1>1, <1>3

-----------------------------------------------------------------------------
(* The heap.                                                               *)

LEMMA AllocatedNext ==
  ASSUME IInv, [Next]_vars
  PROVE  Allocated'
<1>0. Allocated
  BY DEF IInv
<1>1. CASE HelpWanted \/ Query \/ OutputFile \/ Usage \/ UrlToSnarf \/ NoUrlGiven
  BY <1>0, <1>1
  DEF HelpWanted, Query, OutputFile, Usage, UrlToSnarf, NoUrlGiven, Parsing, Exit,
      Allocated
<1>2. CASE UrlParse
  <2>1. \A s : url_parse(s).strings \subseteq UrlParts
    BY DEF url_parse, UrlParts
  <2> QED
    BY <1>0, <1>2, <2>1 DEF UrlParse, Allocated
<1>3. CASE url_address
  BY <1>0, <1>3 DEF url_address, Allocated
<1>4. CASE NotHttp \/ OpenFails
  BY <1>0, <1>4 DEF NotHttp, OpenFails, Exit, url_free, Allocated, UrlParts
<1>5. CASE http_open
  BY <1>0, <1>5 DEF http_open, Allocated, Connection
<1>6. CASE http_request \/ HeaderGood \/ HeaderBad \/ HeadersEnd
  BY <1>0, <1>6 DEF http_request, HeaderGood, HeaderBad, HeadersEnd, Allocated
<1>7. CASE NoResponse \/ http_response
  BY <1>0, <1>7 DEF NoResponse, http_response, Allocated, Connection
<1>8. CASE Lookup
  BY <1>0, <1>8 DEF Lookup, Allocated
<1>9. CASE ToStdout \/ ToFile
  BY <1>0, <1>9 DEF ToStdout, ToFile, Allocated
<1>10. CASE FileFails
  BY <1>0, <1>10
  DEF FileFails, Exit, url_free, http_close, Allocated, UrlParts, Connection
<1>11. CASE Byte
  BY <1>0, <1>11 DEF Byte, Allocated
<1>12. CASE End
  BY <1>0, <1>12
  DEF End, Exit, url_free, http_close, Allocated, UrlParts, Connection
<1>13. CASE UNCHANGED vars
  BY <1>0, <1>13 DEF vars, Allocated
<1> QED
  BY <1>1, <1>2, <1>3, <1>4, <1>5, <1>6, <1>7, <1>8, <1>9, <1>10, <1>11, <1>12,
     <1>13
  DEF Next

-----------------------------------------------------------------------------
(* The header nodes.                                                       *)

(* The linked nodes are the keys of the list without a freed last node.     *)
LEMMA LinkedIs ==
  ASSUME Headers
  PROVE  /\ Linked \in Seq(Keys)
         /\ headers = Linked \/ headers = Append(Linked, "freed")
<1>1. /\ headers \in Seq(Keys \cup {"freed"}) /\ Len(headers) \in Nat
      /\ DOMAIN headers = 1 .. Len(headers)
      /\ \A n \in DOMAIN headers : headers[n] = "freed" => n = Len(headers)
      /\ \A n \in DOMAIN headers : headers[n] \in Keys \cup {"freed"}
  BY DEF Headers
<1>2. CASE headers # << >> /\ Last(headers) = "freed"
  <2>1. Len(headers) # 0 /\ headers[Len(headers)] = "freed"
    BY <1>1, <1>2 DEF Last
  <2>2. Linked = SubSeq(headers, 1, Len(headers) - 1)
    BY <1>2 DEF Linked, Front
  <2>3. /\ DOMAIN Linked = 1 .. Len(headers) - 1 /\ Len(Linked) = Len(headers) - 1
        /\ \A n \in 1 .. Len(headers) - 1 : Linked[n] = headers[n]
        /\ Linked \in Seq(Keys \cup {"freed"})
    BY <1>1, <2>1, <2>2
  <2>4. \A n \in 1 .. Len(Linked) : Linked[n] \in Keys
    BY <1>1, <2>1, <2>3
  <2>5. Linked \in Seq(Keys)
    BY <2>3, <2>4
  <2>6. headers = Append(Linked, "freed")
    <3> DEFINE u == Append(Linked, "freed")
    <3>1. /\ u \in Seq(Keys \cup {"freed"}) /\ Len(u) = Len(headers)
          /\ DOMAIN u = 1 .. Len(headers)
      <4>1. u \in Seq(Keys \cup {"freed"}) /\ Len(u) = Len(Linked) + 1
        BY <2>3
      <4> HIDE DEF u
      <4> QED
        BY <1>1, <2>1, <2>3, <4>1
    <3>2. \A n \in 1 .. Len(headers) : u[n] = headers[n]
      BY <1>1, <2>1, <2>3
    <3> HIDE DEF u
    <3>3. u = headers
      BY <1>1, <3>1, <3>2
    <3> QED
      BY <3>3 DEF u
  <2> QED
    BY <2>5, <2>6
<1>3. CASE ~(headers # << >> /\ Last(headers) = "freed")
  <2>1. Linked = headers
    BY <1>3 DEF Linked
  <2>2. \A n \in DOMAIN headers : headers[n] # "freed"
    BY <1>1, <1>3 DEF Last
  <2>3. headers \in Seq(Keys)
    BY <1>1, <2>2
  <2> QED
    BY <2>1, <2>3
<1> QED
  BY <1>2, <1>3

(* Behind a new node, Linked ends with it or, if it was freed, before it.   *)
LEMMA LinkedAppend ==
  ASSUME NEW t \in Seq(Keys), NEW k \in Keys \cup {"freed"}, headers' = Append(t, k)
  PROVE  /\ k = "freed" => Linked' = t
         /\ k # "freed" => Linked' = headers'
         /\ headers' \in Seq(Keys \cup {"freed"})
         /\ \A n \in DOMAIN headers' : headers'[n] = "freed" =>
              n = Len(headers') /\ k = "freed"
<1> DEFINE u == Append(t, k)
<1>1. t \in Seq(Keys \cup {"freed"}) /\ Len(t) \in Nat /\ DOMAIN t = 1 .. Len(t)
  OBVIOUS
<1>2. /\ u \in Seq(Keys \cup {"freed"}) /\ Len(u) = Len(t) + 1
      /\ DOMAIN u = 1 .. Len(t) + 1
      /\ \A n \in 1 .. Len(t) : u[n] = t[n] /\ t[n] \in Keys
      /\ u[Len(t) + 1] = k
  BY <1>1
<1>3. u # << >> /\ Last(u) = k
  BY <1>1, <1>2 DEF Last
<1>4. Front(u) = t
  BY <1>1 DEF Front
<1>5. \A n \in DOMAIN u : u[n] = "freed" => n = Len(u) /\ k = "freed"
  <2>1. "freed" \notin Keys
    BY KeysAssumption
  <2> QED
    BY <1>1, <1>2, <2>1
<1> HIDE DEF u
<1>6. headers' = u
  BY DEF u
<1> QED
  BY <1>2, <1>3, <1>4, <1>5, <1>6 DEF Linked

(* The lines before a new one keep their places.                            *)
LEMMA LinesAppend ==
  ASSUME Headers, NEW k \in Keys \cup {"bad"}, lines' = Append(lines, k)
  PROVE  /\ lines' \in Seq(Keys \cup {"bad"}) /\ lines' # << >>
         /\ lines'[Len(lines')] = k
         /\ k = "bad" => GoodLines' = GoodLines
         /\ k # "bad" => GoodLines' = GoodLines \cup {Len(lines) + 1}
         /\ Len(lines) + 1 \in Nat /\ lines'[Len(lines) + 1] = k
         /\ \A i \in GoodLines : i \in Nat /\ i < Len(lines) + 1 /\ lines'[i] = lines[i]
<1> DEFINE u == Append(lines, k)
<1>1. lines \in Seq(Keys \cup {"bad"}) /\ Len(lines) \in Nat /\ DOMAIN lines = 1 .. Len(lines)
  BY DEF Headers
<1>2. /\ u \in Seq(Keys \cup {"bad"}) /\ Len(u) = Len(lines) + 1
      /\ DOMAIN u = 1 .. Len(lines) + 1
      /\ \A i \in 1 .. Len(lines) : u[i] = lines[i]
      /\ u[Len(lines) + 1] = k
  BY <1>1
<1> HIDE DEF u
<1>3. lines' = u
  BY DEF u
<1>4. u # << >>
  BY <1>1, <1>2
<1>5. \A i : i \in DOMAIN u <=> i \in DOMAIN lines \/ i = Len(lines) + 1
  BY <1>1, <1>2
<1> QED
  BY <1>1, <1>2, <1>3, <1>4, <1>5 DEF GoodLines

LEMMA HeadersNext ==
  ASSUME IInv, [Next]_vars
  PROVE  Headers'
<1>0. Headers /\ Linked \in Seq(Keys)
  BY LinkedIs DEF IInv
<1>1. CASE HeaderGood
  <2>1. PICK k \in Keys : lines' = Append(lines, k) /\ headers' = Append(Linked, k)
    BY <1>1 DEF HeaderGood
  <2>2. pc' = "headers"
    BY <1>1 DEF HeaderGood
  <2>3. k # "bad" /\ k # "freed"
    BY KeysAssumption
  <2>4. /\ Linked' = Append(Linked, k) /\ headers' \in Seq(Keys \cup {"freed"})
        /\ \A n \in DOMAIN headers' : headers'[n] # "freed"
    BY <1>0, <2>1, <2>3, LinkedAppend
  <2>5. PICK p : p = Len(lines) + 1
    OBVIOUS
  <2>6. /\ lines' \in Seq(Keys \cup {"bad"})
        /\ GoodLines' = GoodLines \cup {p} /\ p \in Nat /\ lines'[p] = k
        /\ \A i \in GoodLines : i \in Nat /\ i < p /\ lines'[i] = lines[i]
    BY <1>0, <2>1, <2>3, <2>5, LinesAppend
  <2>7. AtPlaces(Linked, lines, GoodLines)
    BY <1>0 DEF Headers
  <2>8. AtPlaces(Linked, lines', GoodLines)
    BY <2>6, <2>7, PlacesSame
  <2>9. AtPlaces(Append(Linked, lines'[p]), lines', GoodLines \cup {p})
    BY <1>0, <2>6, <2>8, PlacesAppend
  <2>10. AtPlaces(Linked, lines, GoodLines)'
    BY <2>4, <2>6, <2>9 DEF AtPlaces
  <2> QED
    BY <2>2, <2>4, <2>6, <2>10 DEF Headers
<1>2. CASE HeaderBad
  <2>1. /\ lines' = Append(lines, "bad") /\ headers' = Append(Linked, "freed")
        /\ pc' = "headers"
    BY <1>2 DEF HeaderBad
  <2>2. /\ Linked' = Linked /\ headers' \in Seq(Keys \cup {"freed"})
        /\ \A n \in DOMAIN headers' : headers'[n] = "freed" => n = Len(headers')
    BY <1>0, <2>1, LinkedAppend
  <2>3. /\ lines' \in Seq(Keys \cup {"bad"}) /\ lines' # << >>
        /\ lines'[Len(lines')] = "bad"
        /\ GoodLines' = GoodLines
        /\ \A i \in GoodLines : lines'[i] = lines[i]
    BY <1>0, <2>1, LinesAppend
  <2>4. AtPlaces(Linked, lines, GoodLines)
    BY <1>0 DEF Headers
  <2>5. AtPlaces(Linked, lines', GoodLines)
    BY <2>3, <2>4, PlacesSame
  <2>6. AtPlaces(Linked, lines, GoodLines)'
    BY <2>2, <2>3, <2>5 DEF AtPlaces
  <2> QED
    BY <2>1, <2>2, <2>3, <2>6 DEF Headers
<1>3. CASE /\ lines' = lines /\ headers' = headers
           /\ pc' = "undefined" =>
                pc = "undefined" \/ \E n \in DOMAIN headers : headers[n] = "freed"
  <2>1. Linked' = Linked /\ GoodLines' = GoodLines
    BY <1>3 DEF Linked, GoodLines, Last, Front
  <2>2. AtPlaces(Linked, lines, GoodLines)' <=> AtPlaces(Linked, lines, GoodLines)
    BY <1>3, <2>1 DEF AtPlaces
  <2> QED
    BY <1>0, <1>3, <2>2 DEF Headers
<1>4. CASE Lookup \/ FileFails \/ End
  BY <1>3, <1>4 DEF Lookup, FileFails, End, Exit, connvars, Range
<1>5. CASE ~(HeaderGood \/ HeaderBad \/ Lookup \/ FileFails \/ End)
  <2>1. lines' = lines /\ headers' = headers /\ (pc' = "undefined" => pc = "undefined")
    BY <1>5
    DEF Next, vars, connvars, Exit,
       HelpWanted, Query, OutputFile, Usage, UrlToSnarf, NoUrlGiven, UrlParse,
       url_address, NotHttp, OpenFails, http_open, http_request, NoResponse,
       http_response, HeadersEnd, ToStdout, ToFile, Byte
  <2> QED
    BY <1>3, <2>1
<1> QED
  BY <1>1, <1>2, <1>4, <1>5

(* What http_headers_lookup finds is what the response has.                 *)
LEMMA SameWords ==
  ASSUME Headers, NEW w \in STRING \ {"freed", "bad"}
  PROVE  w \in Range(headers) <=> w \in Range(lines)
<1>1. PICK place \in [DOMAIN Linked -> GoodLines] :
        /\ \A i \in GoodLines : \E n \in DOMAIN Linked : place[n] = i
        /\ \A n \in DOMAIN Linked : Linked[n] = lines[place[n]]
  BY DEF Headers, AtPlaces
<1>2. w \in Range(lines) <=> \E i \in GoodLines : lines[i] = w
  BY DEF Range, GoodLines
<1>3. w \in Range(headers) <=> \E n \in DOMAIN Linked : Linked[n] = w
  <2>1. CASE headers = Linked
    BY <2>1 DEF Range
  <2>2. CASE headers = Append(Linked, "freed")
    <3>1. /\ Len(Linked) \in Nat /\ DOMAIN Linked = 1 .. Len(Linked)
          /\ DOMAIN headers = 1 .. Len(Linked) + 1
          /\ headers[Len(Linked) + 1] = "freed"
          /\ \A n \in DOMAIN Linked : headers[n] = Linked[n]
      BY <2>2, LinkedIs
    <3>2. \A n : n \in DOMAIN headers <=> n \in DOMAIN Linked \/ n = Len(Linked) + 1
      BY <3>1
    <3> QED
      BY <3>1, <3>2 DEF Range
  <2> QED
    BY <2>1, <2>2, LinkedIs
<1> QED
  BY <1>1, <1>2, <1>3

-----------------------------------------------------------------------------
(* The queries.                                                            *)

(* Before the response nothing has been looked up.                          *)
LEMMA EarlyKept ==
  ASSUME IInv, pc \in Early, pc' \in Early \cup {"exited"},
         UNCHANGED <<shown, queries, output>>
  PROVE  Lookups'
BY DEF IInv, Lookups, Transfer, Early

(* Once the queries are answered, they stay so.                             *)
LEMMA LookupsKept ==
  ASSUME IInv, argv' = argv, UNCHANGED <<optind, lines, shown, queries>>,
         output'.to = output.to, pc' = pc \/ pc' \in {"exited", "undefined"}
  PROVE  Lookups'
<1>1. Strings' = Strings /\ \A n : Asked(n)' = Asked(n)
  BY OfArgv
<1>2. \A i : Answered(i)' <=> Answered(i)
  BY <1>1 DEF Answered, Range
<1>3. Lookups
  BY DEF IInv
<1>4. \A m : (/\ AtPlaces(queries, Strings, {i \in Asked(optind) : i > m})
              /\ AtPlaces(shown, Strings, {i \in Asked(optind) : i <= m /\ Answered(i)}))
         <=> (/\ AtPlaces(queries, Strings, {i \in Asked(optind) : i > m})'
              /\ AtPlaces(shown, Strings,
                          {i \in Asked(optind) : i <= m /\ Answered(i)})')
  <2> TAKE m
  <2>1. {i \in Asked(optind) : i > m}' = {i \in Asked(optind) : i > m}
    BY <1>1
  <2>2. {i \in Asked(optind) : i <= m /\ Answered(i)}'
          = {i \in Asked(optind) : i <= m /\ Answered(i)}
    BY <1>1, <1>2
  <2> QED
    BY <1>1, <2>1, <2>2 DEF AtPlaces
<1>5. AtPlaces(shown, Strings, {i \in Asked(optind) : Answered(i)})
        <=> AtPlaces(shown, Strings, {i \in Asked(optind) : Answered(i)})'
  <2>1. {i \in Asked(optind) : Answered(i)}' = {i \in Asked(optind) : Answered(i)}
    BY <1>1, <1>2
  <2> QED
    BY <1>1, <2>1 DEF AtPlaces
<1>6. shown' = shown /\ queries' = queries /\ optind' = optind
  OBVIOUS
<1> QED
  BY <1>3, <1>4, <1>5, <1>6 DEF Lookups, Early

(* The queries start with all the words, none of them shown.                *)
LEMMA LookupsStart ==
  ASSUME IInv, [Next]_vars, pc \in {"response", "headers"}, pc' = "queries",
         queries' = key.words,
         UNCHANGED <<optind, shown, output>>
  PROVE  Lookups'
<1>1. argv' = argv /\ Strings' = Strings /\ \A n : Asked(n)' = Asked(n)
  BY SameArgv, OfArgv
<1>2. /\ key.words \in Seq(STRING \ {"freed", "bad"})
      /\ AtPlaces(key.words, Strings, Asked(optind))
      /\ optind \in Nat \ {0}
  BY Argv DEF IInv, Arguments
<1>3. shown = << >> /\ output.to = "none"
  BY DEF IInv, Lookups, Transfer, Early
<1>4. \A i \in Asked(optind) : i > 1 /\ ~(i <= 1)
  BY <1>2 DEF Asked
<1>5. AtPlaces(queries, Strings, {i \in Asked(optind) : i > 1})'
  <2>1. {i \in Asked(optind) : i > 1}' = Asked(optind)
    BY <1>1, <1>4
  <2> QED
    BY <1>1, <1>2, <2>1 DEF AtPlaces
<1>6. AtPlaces(shown, Strings, {i \in Asked(optind) : i <= 1 /\ Answered(i)})'
  <2>1. {i \in Asked(optind) : i <= 1 /\ Answered(i)}' = {}
    BY <1>1, <1>4
  <2>2. AtPlaces(<< >>, Strings, {})
    BY PlacesEmpty
  <2> QED
    BY <1>1, <1>3, <2>1, <2>2 DEF AtPlaces
<1>7. 1 \in 1 .. optind'
  BY <1>2
<1>8. Lookups
  BY DEF IInv
<1> QED
  BY <1>2, <1>3, <1>5, <1>6, <1>7, <1>8 DEF Lookups, Early

(* One lookup answers the next word.                                        *)
LEMMA LookupsLookup ==
  ASSUME IInv, [Next]_vars, Lookup
  PROVE  Lookups'
<1> DEFINE T == STRING \ {"freed", "bad"}
<1>1. argv' = argv /\ Strings' = Strings /\ \A n : Asked(n)' = Asked(n)
  BY SameArgv, OfArgv
<1>2. /\ pc = "queries" /\ queries # << >> /\ queries' = Tail(queries)
      /\ UNCHANGED <<optind, lines, output>>
      /\ pc' \in {pc, "undefined"}
  BY DEF Lookup, argvars, connvars
<1>3. /\ queries \in Seq(T) /\ shown \in Seq(T) /\ output.to = "none"
      /\ optind \in Nat \ {0}
  BY <1>2, Argv DEF IInv, Lookups, Transfer, Arguments
<1>4. PICK m \in 1 .. optind :
        /\ AtPlaces(queries, Strings, {i \in Asked(optind) : i > m})
        /\ AtPlaces(shown, Strings, {i \in Asked(optind) : i <= m /\ Answered(i)})
  BY <1>2 DEF IInv, Lookups
<1> DEFINE Left == {i \in Asked(optind) : i > m}
           Done == {i \in Asked(optind) : i <= m /\ Answered(i)}
<1>5. Asked(optind) \subseteq 1 .. optind /\ Asked(optind) \subseteq Nat
  BY <1>3 DEF Asked
<1>6. Left \in SUBSET Nat /\ Done \in SUBSET Nat
  BY <1>5
<1>7. PICK a \in Left : /\ Head(queries) = Strings[a]
                        /\ \A j \in Left : a <= j
                        /\ AtPlaces(Tail(queries), Strings, Left \ {a})
  <2> HIDE DEF T, Left
  <2> QED
    BY <1>2, <1>3, <1>4, <1>6, PlacesTail DEF Left
<1>8. /\ a \in Asked(optind) /\ a \in Nat /\ m \in Nat /\ m < a /\ a \in 1 .. optind'
      /\ \A i \in Asked(optind) : i \in Nat /\ (i > m => a <= i)
  BY <1>2, <1>3, <1>5, <1>7
<1>9. AtPlaces(queries, Strings, {i \in Asked(optind) : i > a})'
  <2>1. {i \in Asked(optind) : i > a} = Left \ {a}
    <3>1. \A i \in Asked(optind) : i > a <=> (i > m /\ i # a)
      BY <1>8
    <3> QED
      BY <3>1
  <2>2. {i \in Asked(optind) : i > a}' = {i \in Asked(optind) : i > a}
    BY <1>1, <1>2
  <2> QED
    BY <1>1, <1>2, <1>7, <2>1, <2>2 DEF AtPlaces
<1>10. Head(queries) \in T /\ Tail(queries) \in Seq(T)
  BY <1>2, <1>3
<1>11. Head(queries) \in Range(headers) <=> Answered(a)
  BY <1>7, <1>10, SameWords DEF IInv, Answered
<1>12. \A i : Answered(i)' <=> Answered(i)
  BY <1>1, <1>2 DEF Answered
<1>13. {i \in Asked(optind) : i <= a /\ Answered(i)}'
         = {i \in Asked(optind) : i <= a /\ Answered(i)}
  BY <1>1, <1>2, <1>12
<1>14. shown' \in Seq(T)
       /\ AtPlaces(shown, Strings, {i \in Asked(optind) : i <= a /\ Answered(i)})'
  <2>1. CASE Answered(a)
    <3>1. shown' = Append(shown, Strings[a])
      BY <1>7, <1>11, <2>1 DEF Lookup
    <3>2. {i \in Asked(optind) : i <= a /\ Answered(i)} = Done \cup {a}
      <4>1. \A i \in Asked(optind) : i <= a <=> (i <= m \/ i = a)
        BY <1>8
      <4> QED
        BY <1>8, <2>1, <4>1
    <3>3. \A j \in Done : j < a
      BY <1>8
    <3>4. AtPlaces(Append(shown, Strings[a]), Strings, Done \cup {a})
      <4> HIDE DEF T, Done
      <4> QED
        BY <1>3, <1>4, <1>6, <1>7, <1>8, <1>10, <3>3, PlacesAppend DEF Done
    <3>5. shown' \in Seq(T)
      BY <1>3, <1>7, <1>10, <3>1
    <3> QED
      BY <1>1, <1>13, <3>1, <3>2, <3>4, <3>5 DEF AtPlaces
  <2>2. CASE ~Answered(a)
    <3>1. shown' = shown
      BY <1>11, <2>2 DEF Lookup
    <3>2. {i \in Asked(optind) : i <= a /\ Answered(i)} = Done
      <4>1. \A i \in Asked(optind) : i <= a <=> (i <= m \/ i = a)
        BY <1>8
      <4> QED
        BY <1>8, <2>2, <4>1
    <3>3. AtPlaces(shown, Strings, Done)
      BY <1>4
    <3> HIDE DEF Done
    <3> QED
      BY <1>1, <1>3, <1>13, <3>1, <3>2, <3>3 DEF AtPlaces
  <2> QED
    BY <2>1, <2>2
<1> QED
  BY <1>2, <1>3, <1>8, <1>9, <1>10, <1>14 DEF Lookups, Early

LEMMA LookupsNext ==
  ASSUME IInv, [Next]_vars
  PROVE  Lookups'
<1>0. argv' = argv
  BY SameArgv
<1>1. CASE HelpWanted \/ Query \/ OutputFile \/ Usage \/ UrlToSnarf \/ NoUrlGiven
  BY <1>1, EarlyKept
  DEF HelpWanted, Query, OutputFile, Usage, UrlToSnarf, NoUrlGiven, Parsing, Exit,
      Early, outvars
<1>2. CASE UrlParse \/ url_address \/ NotHttp \/ OpenFails \/ http_open
            \/ http_request \/ http_response \/ HeaderGood \/ HeaderBad
  BY <1>2, EarlyKept
  DEF UrlParse, url_address, NotHttp, OpenFails, http_open, http_request,
      http_response, HeaderGood, HeaderBad, Exit, Early, outvars
<1>3. CASE NoResponse \/ HeadersEnd
  BY <1>3, LookupsStart DEF NoResponse, HeadersEnd, argvars
<1>4. CASE Lookup
  BY <1>4, LookupsLookup
<1>5. CASE ToStdout \/ ToFile
  <2>1. /\ pc = "queries" /\ pc' = "body" /\ queries = << >>
        /\ UNCHANGED <<optind, lines, shown, queries>>
    BY <1>5 DEF ToStdout, ToFile, argvars, connvars
  <2>2. /\ Strings' = Strings /\ \A n : Asked(n)' = Asked(n)
        /\ \A i : Answered(i)' <=> Answered(i)
    BY <1>0, <2>1, OfArgv DEF Answered
  <2>3. PICK m \in 1 .. optind :
          /\ AtPlaces(queries, Strings, {i \in Asked(optind) : i > m})
          /\ AtPlaces(shown, Strings, {i \in Asked(optind) : i <= m /\ Answered(i)})
    BY <2>1 DEF IInv, Lookups
  <2>4. {i \in Asked(optind) : i > m} = {}
    BY <2>1, <2>3, PlacesEmpty
  <2>5. \A i \in Asked(optind) : i <= m
    BY <2>3, <2>4 DEF Asked
  <2>6. {i \in Asked(optind) : i <= m /\ Answered(i)}
          = {i \in Asked(optind) : Answered(i)}
    BY <2>5
  <2>7. {i \in Asked(optind) : Answered(i)}' = {i \in Asked(optind) : Answered(i)}
    BY <2>1, <2>2
  <2>8. AtPlaces(shown, Strings, {i \in Asked(optind) : Answered(i)})'
    BY <2>1, <2>2, <2>3, <2>6, <2>7 DEF AtPlaces
  <2>9. Lookups /\ optind = Len(argv) + 1
    BY <2>1 DEF IInv, Arguments
  <2> QED
    BY <1>0, <2>1, <2>8, <2>9 DEF Lookups, Early
<1>6. CASE FileFails
  BY <1>0, <1>6, LookupsKept DEF FileFails, Exit, argvars, connvars, outvars
<1>7. CASE Byte \/ End
  <2>1. output'.to = output.to
    BY <1>7 DEF Byte, End, Flush, IInv, Transfer, Outputs
  <2> QED
    BY <1>0, <1>7, <2>1, LookupsKept DEF Byte, End, Exit, argvars, connvars
<1>8. CASE UNCHANGED vars
  BY <1>0, <1>8, LookupsKept DEF vars, argvars, connvars, outvars
<1> QED
  BY <1>1, <1>2, <1>3, <1>4, <1>5, <1>6, <1>7, <1>8 DEF Next

-----------------------------------------------------------------------------
(* The document, the code and the exit status.                             *)

LEMMA TransferNext ==
  ASSUME IInv, [Next]_vars
  PROVE  Transfer'
<1>0. Transfer /\ argv' = argv
  BY SameArgv DEF IInv
<1>1. CASE HelpWanted
  BY <1>0, <1>1 DEF HelpWanted, Exit, urlvars, connvars, outvars, Transfer, Early,
                         Outputs
<1>2. CASE Query \/ OutputFile \/ UrlToSnarf
  BY <1>0, <1>2
  DEF Query, OutputFile, UrlToSnarf, Parsing, urlvars, connvars, outvars, Transfer,
      Early, Outputs
<1>3. CASE Usage \/ NoUrlGiven \/ NotHttp \/ OpenFails
  BY <1>0, <1>3
  DEF Usage, NoUrlGiven, NotHttp, OpenFails, Parsing, Exit, urlvars, connvars,
      outvars, Transfer, Early, Outputs
<1>4. CASE UrlParse \/ url_address \/ http_open
  BY <1>0, <1>4
  DEF UrlParse, url_address, http_open, urlvars, connvars, outvars, Transfer, Early,
      Outputs
<1>5. CASE http_request \/ http_response
  BY <1>0, <1>5
  DEF http_request, http_response, urlvars, connvars, outvars, Transfer, Early,
      Outputs
<1>6. CASE NoResponse \/ HeadersEnd
  BY <1>0, <1>6
  DEF NoResponse, HeadersEnd, urlvars, connvars, Transfer, Early, Outputs
<1>7. CASE HeaderGood \/ HeaderBad \/ Lookup
  BY <1>0, <1>7
  DEF HeaderGood, HeaderBad, Lookup, urlvars, connvars, outvars, Transfer, Early,
      Outputs
<1>8. CASE ToStdout \/ ToFile
  BY <1>0, <1>8 DEF ToStdout, ToFile, urlvars, connvars, Transfer, Early, Outputs
<1>9. CASE FileFails
  BY <1>0, <1>9
  DEF FileFails, Exit, urlvars, connvars, outvars, Transfer, Early, Outputs
<1>10. CASE Byte
  <2>1. output \in Outputs /\ body \in Nat /\ body' = body + 1
    BY <1>0, <1>10 DEF Byte, Transfer, Outputs
  <2>2. \/ output' = [output EXCEPT !.bytes = output.bytes + 1]
        \/ output' = [output EXCEPT !.lost = TRUE]
    BY <1>10 DEF Byte
  <2>3. /\ output' \in Outputs /\ output'.to = output.to
        /\ \/ output'.bytes = output.bytes + 1 /\ output'.lost = output.lost
           \/ output'.bytes = output.bytes /\ output'.lost
    <3>1. CASE output' = [output EXCEPT !.bytes = output.bytes + 1]
      <4>1. output.bytes + 1 \in Nat
        BY <2>1 DEF Outputs
      <4> QED
        BY <2>1, <3>1, <4>1 DEF Outputs
    <3>2. CASE output' = [output EXCEPT !.lost = TRUE]
      BY <2>1, <3>2 DEF Outputs
    <3> QED
      BY <2>2, <3>1, <3>2
  <2>4. /\ output'.bytes <= body' /\ (output'.lost \/ output'.bytes = body')
        /\ body' \in Nat
    BY <1>0, <2>1, <2>3 DEF Transfer, Outputs
  <2> QED
    BY <1>0, <1>10, <2>3, <2>4 DEF Byte, urlvars, connvars, Transfer, Early, Outputs
<1>11. CASE End
  <2>1. pc' = "exited" /\ status' = 0 => code = 200 \/ code % 256 = 0
    BY <1>11 DEF End, Exit
  <2>2. /\ output' \in Outputs
        /\ output'.to = output.to /\ output'.bytes <= body
        /\ output'.lost \/ output'.bytes = body
        /\ output'.lost => output.lost \/ body > 0
    <3>1. /\ output \in Outputs /\ body \in Nat /\ output.bytes <= body
          /\ output.lost \/ output.bytes = body
      BY <1>0 DEF Transfer, Outputs
    <3>2. CASE output' = output
      BY <3>1, <3>2
    <3>3. CASE output' # output
      <4>1. PICK n \in 0 .. output.bytes - 1 :
              output' = [output EXCEPT !.bytes = n, !.lost = TRUE]
        BY <1>11, <3>3 DEF End, Flush
      <4>2. output.bytes \in Nat /\ n \in Nat /\ n <= body /\ body > 0
        BY <3>1, <4>1 DEF Outputs
      <4>3. output' \in Outputs /\ output'.to = output.to /\ output'.bytes = n /\ output'.lost
        BY <3>1, <4>1, <4>2 DEF Outputs
      <4> QED
        BY <4>2, <4>3
    <3> QED
      BY <3>2, <3>3
  <2> QED
    BY <1>0, <1>11, <2>1, <2>2
    DEF End, Exit, urlvars, connvars, Transfer, Early, Outputs
<1>12. CASE UNCHANGED vars
  BY <1>0, <1>12 DEF vars, urlvars, connvars, outvars, Transfer, Early, Outputs
<1> QED
  BY <1>1, <1>2, <1>3, <1>4, <1>5, <1>6, <1>7, <1>8, <1>9, <1>10, <1>11, <1>12
  DEF Next

-----------------------------------------------------------------------------
(* The theorems.                                                           *)

LEMMA IInvInit == Init => IInv
<1> SUFFICES ASSUME Init PROVE IInv
  OBVIOUS
<1>0. /\ pc = "args" /\ argv \in Argvs /\ optind = 1 /\ heap = {}
      /\ file = 0 /\ dirty = {} /\ state = "ST_REQ" /\ status = 0 /\ body = 0
      /\ lines = << >> /\ headers = << >> /\ queries = << >> /\ shown = << >>
      /\ key = [words |-> << >>, end |-> 0]
      /\ output = [to |-> "none", bytes |-> 0, lost |-> FALSE]
  BY DEF Init
<1>1. Arguments
  <2>1. Asked(optind) = {} /\ optind \in 1 .. Len(argv) + 1
    BY <1>0, Argv DEF Asked
  <2>2. AtPlaces(key.words, Strings, Asked(optind))
    BY <1>0, <2>1, PlacesEmpty
  <2> QED
    BY <1>0, <2>1, <2>2 DEF Arguments
<1>2. Overwritten
  BY <1>0 DEF Overwritten
<1>3. Allocated
  BY <1>0 DEF Allocated
<1>4. Headers
  <2>1. Linked = << >> /\ GoodLines = {}
    BY <1>0 DEF Linked, GoodLines
  <2>2. AtPlaces(Linked, lines, GoodLines)
    BY <2>1, PlacesEmpty
  <2> QED
    BY <1>0, <2>2 DEF Headers
<1>5. Lookups
  BY <1>0 DEF Lookups
<1>6. Transfer
  BY <1>0 DEF Transfer, Early, Outputs
<1> QED
  BY <1>1, <1>2, <1>3, <1>4, <1>5, <1>6 DEF IInv

(* IInv holds initially and every step of main keeps it.                    *)
THEOREM Invariant == Spec => []IInv
<1>1. IInv /\ [Next]_vars => IInv'
  BY ArgumentsNext, OverwrittenNext, AllocatedNext, HeadersNext, LookupsNext,
     TransferNext DEF IInv
<1> QED
  BY <1>1, IInvInit, PTL DEF Spec

(* What stringConcat overwrites is no argument that is still to be parsed,  *)
(* and the output file's name only if it stands between two queries.        *)
THEOREM ArgumentsStayIntact == Spec => []ArgumentsIntact
<1>1. IInv => ArgumentsIntact
  <2> SUFFICES ASSUME IInv, NEW i \in DOMAIN argv, Storage(i) \cap dirty # {}
               PROVE  /\ i < optind
                      /\ i = file => \E j \in 1 .. i - 2, k \in i + 1 .. optind - 1 :
                                       argv[j].s = "-q" /\ argv[k].s = "-q"
    BY DEF ArgumentsIntact
  <2>0. /\ argv \in Argvs /\ Len(argv) \in Nat /\ DOMAIN argv = 1 .. Len(argv)
        /\ optind \in Nat /\ optind <= Len(argv) + 1 /\ i \in Nat
    BY Argv DEF IInv, Arguments
  <2>1. PICK j, k \in 1 .. optind - 2 : Between(j, k)
    BY DEF IInv, Overwritten
  <2>2. PICK b : b \in Storage(i) /\ b \in dirty
    OBVIOUS
  <2>3. /\ j \in Nat /\ k \in Nat /\ j >= 1 /\ k >= 1
        /\ j + 1 \in DOMAIN argv /\ k + 1 \in DOMAIN argv
        /\ k + 1 < optind
    BY <2>0
  <2>4. \A n \in DOMAIN argv : Start(n) \in Nat /\ argv[n].len \in Nat /\ EndOf(n) \in Nat
                              /\ Start(n) <= EndOf(n)
    BY <2>0, Argv, StartIs DEF EndOf
  <2>5. /\ b \in Start(i) .. EndOf(i) /\ b \in EndOf(j + 1) .. key.end
        /\ key.end \in EndOf(j + 1) .. EndOf(k + 1)
    BY <2>1, <2>2 DEF Storage, EndOf, Between
  <2>6. EndOf(j + 1) <= EndOf(i) /\ Start(i) <= EndOf(k + 1)
    BY <2>3, <2>4, <2>5
  <2>7. j + 1 <= i
    <3> SUFFICES ASSUME i < j + 1 PROVE FALSE
      BY <2>0, <2>3
    <3>1. EndOf(i) < Start(j + 1)
      BY <2>0, <2>3, StartGrows
    <3> QED
      BY <2>3, <2>4, <2>6, <3>1
  <2>8. i <= k + 1
    <3> SUFFICES ASSUME k + 1 < i PROVE FALSE
      BY <2>0, <2>3
    <3>1. EndOf(k + 1) < Start(i)
      BY <2>0, <2>3, StartGrows
    <3> QED
      BY <2>3, <2>4, <2>6, <3>1
  <2>9. i < optind
    BY <2>0, <2>3, <2>8
  <2>10. ASSUME i = file
         PROVE  j \in 1 .. i - 2 /\ k \in i + 1 .. optind - 1
    <3>1. file # 0 /\ argv[file - 1].s = "-o" /\ ~IsFlag(file)
      BY <2>0, <2>10 DEF IInv, Arguments
    <3>2. argv[j].s = "-q" /\ argv[k].s = "-q"
      BY <2>1 DEF Between
    <3>3. i - 1 # j /\ i - 1 # k /\ i # k
      BY <2>10, <3>1, <3>2 DEF IsFlag
    <3> QED
      BY <2>0, <2>3, <2>7, <2>8, <3>3
  <2>11. argv[j].s = "-q" /\ argv[k].s = "-q"
    BY <2>1 DEF Between
  <2> QED
    BY <2>9, <2>10, <2>11
<1> QED
  BY <1>1, Invariant, PTL

(* main gives back all it has allocated, whichever way it ends.             *)
THEOREM EverythingReleased == Spec => []AllReleased
<1>1. IInv => AllReleased
  BY DEF IInv, Allocated, AllReleased
<1> QED
  BY <1>1, Invariant, PTL

(* The nodes are the well-formed lines in order, and freed memory is used   *)
(* only if the last line was malformed.                                     *)
THEOREM HeadersAreExact == Spec => []HeadersExact
<1>1. IInv => HeadersExact
  BY DEF IInv, Headers, HeadersExact, GoodLines, Range, Last
<1> QED
  BY <1>1, Invariant, PTL

(* The headers printed are the ones asked for that the response has.        *)
THEOREM QueriesAreAnswered == Spec => []QueriesAnswered
<1>1. IInv => QueriesAnswered
  <2> SUFFICES ASSUME IInv, output.to # "none"
               PROVE  AtPlaces(shown, Strings,
                        {i \in 2 .. Len(argv) : /\ argv[i - 1].s = "-q"
                                                /\ argv[i].s \in Range(lines)})
    BY DEF QueriesAnswered, Strings
  <2>1. /\ optind = Len(argv) + 1
        /\ AtPlaces(shown, Strings, {i \in Asked(optind) : Answered(i)})
    BY DEF IInv, Lookups
  <2>2. Len(argv) \in Nat /\ DOMAIN argv = 1 .. Len(argv)
    BY Argv DEF IInv, Arguments
  <2>3. optind - 1 = Len(argv) /\ \A i \in 2 .. Len(argv) : Strings[i] = argv[i].s
    BY <2>1, <2>2 DEF Strings
  <2>4. {i \in Asked(optind) : Answered(i)}
          = {i \in 2 .. Len(argv) : /\ argv[i - 1].s = "-q"
                                    /\ argv[i].s \in Range(lines)}
    BY <2>3 DEF Asked, Answered
  <2> QED
    BY <2>1, <2>4
<1> QED
  BY <1>1, Invariant, PTL

(* What success says of the response, that it says nothing of a write that *)
(* failed, and that there is no document without a response.               *)
THEOREM SuccessHasMeaning == Spec => []SuccessMeans
<1>1. IInv => SuccessMeans
  BY DEF IInv, Transfer, SuccessMeans, Outputs
<1> QED
  BY <1>1, Invariant, PTL
=============================================================================
