------------------------------- MODULE Snarf --------------------------------
(***************************************************************************)
(* The HTTP client snarf (snarf/src): option parsing, url_parse, the       *)
(* connection of http.c with its response headers, and main.  The server   *)
(* and the network are the environment: a call that may fail may fail, and *)
(* each line or byte that is read is any line or byte, or the end.         *)
(*                                                                         *)
(* Memory never runs out; a use of freed memory is undefined, and the model *)
(* halts there.                                                            *)
(***************************************************************************)
EXTENDS Integers, Sequences, FiniteSets, SequencesExt

CONSTANTS Argvs,       \* command lines: sequences of strings with their lengths
          UrlOf,       \* the tokens of the arguments that are URLs
          Codes,       \* response codes
          Keys,        \* header keys
          MaxHeaders,  \* bound: header lines
          MaxBody      \* bound: bytes of the document

ASSUME BoundsAssumption == MaxHeaders \in Nat /\ MaxBody \in Nat

\* "freed" and "bad" mark nodes and lines of the model: they are no keys, and
\* nobody asks for them.
ASSUME ArgvsAssumption == Argvs \subseteq Seq([s : STRING \ {"freed", "bad"}, len : Nat])
ASSUME KeysAssumption == Keys \subseteq STRING \ {"freed", "bad"}

VARIABLES
  pc,      \* the statement main is at
  argv,    \* the arguments after argv[0]
  optind,  \* the next argument
  key,     \* keyParam: its words and the place of its terminator
  file,    \* output_file: its index in argv, 0 for NULL
  dirty,   \* the bytes of argv that stringConcat has overwritten
  url,     \* the parts of the URL
  addr,    \* what url_address returned
  heap,    \* what is allocated, the header nodes aside
  state,   \* http->state
  code,    \* main's code: the response code, -1 if there was no response
  lines,   \* header lines that have been read: the key, "bad" if malformed
  headers, \* http->headers: the keys of the linked nodes, "freed" for a freed one
  queries, \* keywords still to be looked up
  shown,   \* keys of the headers that were printed
  output,  \* where the document goes, its bytes so far, whether a write failed
  body,    \* bytes of the document that have been received
  status   \* the exit status

argvars == <<argv, optind, key, file, dirty>>
urlvars == <<url, addr>>
connvars == <<state, code, lines, headers>>
outvars == <<queries, shown, output, body>>
vars == <<pc, argvars, urlvars, heap, connvars, outvars, status>>

NoUrl == [method |-> << >>, hostname |-> << >>, port |-> 0, path |-> << >>]

Init ==
  /\ pc = "args" /\ argv \in Argvs /\ optind = 1
  /\ key = [words |-> << >>, end |-> 0] /\ file = 0 /\ dirty = {}
  /\ url = NoUrl /\ addr = "NULL" /\ heap = {}
  /\ state = "ST_REQ" /\ code = -1 /\ lines = << >> /\ headers = << >>
  /\ queries = << >> /\ shown = << >> /\ body = 0
  /\ output = [to |-> "none", bytes |-> 0, lost |-> FALSE] /\ status = 0

Exit(s) == pc' = "exited" /\ status' = s

-----------------------------------------------------------------------------
(* parse_args.  The strings of argv stand one after the other in memory.   *)

Start(i) ==
  LET place[j \in 1 .. Len(argv)] ==
        IF j = 1 THEN 1 ELSE place[j - 1] + argv[j - 1].len + 1
  IN place[i]

\* The bytes of an argument, with its terminator.
Storage(i) == Start(i) .. Start(i) + argv[i].len

\* -h anywhere ends the program at once, with success.
HelpWanted ==
  /\ pc = "args" /\ optind = 1
  /\ \E i \in DOMAIN argv : argv[i].s = "-h"
  /\ Exit(0)
  /\ UNCHANGED <<argvars, urlvars, heap, connvars, outvars>>

Parsing ==
  /\ pc = "args" /\ optind <= Len(argv)
  /\ \A i \in DOMAIN argv : argv[i].s # "-h"

IsFlag(i) == argv[i].s \in {"-q", "-o"}

\* Variant: the first word is copied behind the second one.
stringConcatBehind(i) ==
  LET from == Start(i) + argv[i].len
      end == from + 1 + argv[Len(argv)].len IN
  /\ key' = [words |-> Append(key.words, argv[i].s), end |-> end]
  /\ dirty' = dirty \cup from .. end

\* Variant: the second word replaces the first one.
stringReplace(i) ==
  /\ key' = [words |-> <<argv[i].s>>, end |-> Start(i) + argv[i].len]
  /\ dirty' = dirty

\* The second word is copied behind the first one, with a space, over whatever
\* stands there: the words are in the storage of argv.
stringConcat(i) ==
  LET end == key.end + 1 + argv[i].len IN
  /\ key' = [words |-> Append(key.words, argv[i].s), end |-> end]
  /\ dirty' = dirty \cup key.end .. end

Query ==
  /\ Parsing /\ argv[optind].s = "-q"
  /\ optind < Len(argv) /\ ~IsFlag(optind + 1)
  /\ IF key.words = << >>
       THEN /\ key' = [words |-> <<argv[optind + 1].s>>,
                       end |-> Start(optind + 1) + argv[optind + 1].len]
            /\ UNCHANGED dirty
       ELSE stringConcat(optind + 1)
  /\ optind' = optind + 2
  /\ UNCHANGED <<pc, argv, file, urlvars, heap, connvars, outvars, status>>

OutputFile ==
  /\ Parsing /\ argv[optind].s = "-o" /\ file = 0
  /\ optind < Len(argv) /\ ~IsFlag(optind + 1)
  /\ file' = optind + 1
  /\ optind' = optind + 2
  /\ UNCHANGED <<pc, argv, key, dirty, urlvars, heap, connvars, outvars, status>>

\* A missing or misplaced argument, a second -o, anything but the URL at the
\* end of the line, an option that is unknown or whose argument is attached:
\* usage and failure.
Usage ==
  /\ Parsing
  /\ \/ /\ IsFlag(optind)
        /\ \/ optind = Len(argv)
           \/ optind < Len(argv) /\ IsFlag(optind + 1)
           \/ argv[optind].s = "-o" /\ file # 0
     \/ argv[optind].s \in {"-x", "-oX"}
     \/ argv[optind].s \in DOMAIN UrlOf /\ optind < Len(argv)
  /\ Exit(255)
  /\ UNCHANGED <<argvars, urlvars, heap, connvars, outvars>>

UrlToSnarf ==
  /\ Parsing /\ argv[optind].s \in DOMAIN UrlOf /\ optind = Len(argv)
  /\ optind' = optind + 1
  /\ pc' = "url"
  /\ UNCHANGED <<argv, key, file, dirty, urlvars, heap, connvars, outvars, status>>

NoUrlGiven ==
  /\ pc = "args" /\ optind > Len(argv)
  /\ Exit(255)
  /\ UNCHANGED <<argvars, urlvars, heap, connvars, outvars>>

-----------------------------------------------------------------------------
(* url.c.  A URL is a sequence of tokens: ":", "/", words and numbers.      *)

Numbers == [n \in {"8080", "0"} |-> IF n = "8080" THEN 8080 ELSE 0]

Find(s, tokens, from) ==
  LET at == {i \in from .. Len(s) : s[i] \in tokens} IN
  IF at = {} THEN Len(s) + 1 ELSE CHOOSE i \in at : \A j \in at : i <= j

\* What url_parse makes of a URL, and the strings it allocates.
url_parse(s) ==
  LET slash == Find(s, {"/"}, 1)
      colon == Find(s, {":"}, 1)
      both == slash <= Len(s) /\ colon <= Len(s)
      method == IF both /\ colon < slash THEN SubSeq(s, 1, colon - 1) ELSE << >>
      host == both /\ slash < Len(s) /\ s[slash + 1] = "/"
      hostEnd == Find(s, {":", "/"}, slash + 2)
      hasPort == host /\ hostEnd <= Len(s) /\ s[hostEnd] = ":"
      digits == hasPort /\ hostEnd < Len(s) /\ s[hostEnd + 1] \in DOMAIN Numbers
      cp == IF host THEN IF ~hasPort THEN hostEnd
                         ELSE IF digits THEN hostEnd + 2 ELSE hostEnd + 1
            ELSE IF both /\ colon < slash THEN colon + 1 ELSE 1
  IN [parts |-> [method |-> method,
                 hostname |-> IF host THEN SubSeq(s, slash + 2, hostEnd - 1) ELSE << >>,
                 port |-> IF digits THEN Numbers[s[hostEnd + 1]]
                          ELSE IF hasPort THEN 0
                          ELSE IF method = <<"http">> THEN 80 ELSE 0,
                 path |-> IF both /\ cp > Len(s) THEN <<"/">> ELSE SubSeq(s, cp, Len(s))],
      strings |-> {"url"} \cup (IF both /\ colon < slash THEN {"method"} ELSE {})
                          \cup (IF host THEN {"hostname"} ELSE {})]

UrlParse ==
  /\ pc = "url"
  /\ LET parsed == url_parse(UrlOf[argv[Len(argv)].s]) IN
     /\ url' = parsed.parts
     /\ heap' = heap \cup parsed.strings
  /\ pc' = "address"
  /\ UNCHANGED <<argvars, addr, connvars, outvars, status>>

\* Without a host name there is no lookup, and the address is 0.0.0.0.
url_address ==
  /\ pc = "address"
  /\ IF url.hostname = << >> THEN addr' = "0.0.0.0" ELSE addr' \in {"host", "NULL"}
  /\ pc' = "connect"
  /\ UNCHANGED <<argvars, url, heap, connvars, outvars, status>>

\* What url_free leaves of the heap.
url_free(h) == h \ {"url", "method", "hostname"}

-----------------------------------------------------------------------------
(* http.c and the rest of main.                                            *)

NotHttp ==
  /\ pc = "connect" /\ url.method # <<"http">>
  /\ heap' = url_free(heap)
  /\ Exit(255)
  /\ UNCHANGED <<argvars, urlvars, connvars, outvars>>

\* No address, or socket, connect or fdopen fails: what was made is undone.
OpenFails ==
  /\ pc = "connect" /\ url.method = <<"http">>
  /\ heap' = url_free(heap)
  /\ Exit(255)
  /\ UNCHANGED <<argvars, urlvars, connvars, outvars>>

http_open ==
  /\ pc = "connect" /\ url.method = <<"http">> /\ addr # "NULL"
  /\ heap' = heap \cup {"http", "stream"}
  /\ pc' = "request"
  /\ UNCHANGED <<argvars, urlvars, connvars, outvars, status>>

\* A failure to write is not reported: http_response then finds the state.
http_request ==
  /\ pc = "request"
  /\ state' \in {"ST_HDRS", "ST_REQ"}
  /\ pc' = "response"
  /\ UNCHANGED <<argvars, urlvars, heap, code, lines, headers, outvars, status>>

\* Variant: a line that is not a status line starts the document all the same.
NoResponseBody ==
  /\ pc = "response"
  /\ heap' \in {heap} \cup (IF state = "ST_HDRS" THEN {heap \cup {"response"}} ELSE {})
  /\ state' = "ST_BODY"
  /\ pc' = "queries" /\ queries' = key.words
  /\ UNCHANGED <<argvars, urlvars, code, lines, headers, shown, output, body, status>>

\* No response: the state is wrong or the rest of the request cannot be written;
\* or the stream ends, or the first line is not a status line, and http->response
\* is allocated but the state stays.
NoResponse ==
  /\ pc = "response"
  /\ heap' \in {heap} \cup (IF state = "ST_HDRS" THEN {heap \cup {"response"}} ELSE {})
  /\ pc' = "queries" /\ queries' = key.words
  /\ UNCHANGED <<argvars, urlvars, connvars, shown, output, body, status>>

http_response ==
  /\ pc = "response" /\ state = "ST_HDRS"
  /\ heap' = heap \cup {"response"}
  /\ code' \in Codes
  /\ pc' = "headers"
  /\ UNCHANGED <<argvars, urlvars, state, lines, headers, outvars, status>>

\* The list up to `last', the last node that was filled in.
Linked == IF headers # << >> /\ Last(headers) = "freed" THEN Front(headers) ELSE headers

HeaderGood ==
  /\ pc = "headers" /\ Len(lines) < MaxHeaders
  /\ \E k \in Keys : /\ lines' = Append(lines, k)
                    /\ headers' = Append(Linked, k)
  /\ UNCHANGED <<pc, argvars, urlvars, heap, state, code, outvars, status>>

\* Variant: the node becomes `last' although it is freed.
HeaderBadLast ==
  /\ pc = "headers" /\ Len(lines) < MaxHeaders
  /\ lines' = Append(lines, "bad")
  /\ headers' = <<"freed">>
  /\ UNCHANGED <<pc, argvars, urlvars, heap, state, code, outvars, status>>

\* The node is linked, then freed, and `last' stays: the next line unlinks it.
HeaderBad ==
  /\ pc = "headers" /\ Len(lines) < MaxHeaders
  /\ lines' = Append(lines, "bad")
  /\ headers' = Append(Linked, "freed")
  /\ UNCHANGED <<pc, argvars, urlvars, heap, state, code, outvars, status>>

\* An empty line or the end of the stream; http_status.
HeadersEnd ==
  /\ pc = "headers"
  /\ state' = "ST_BODY"
  /\ pc' = "queries" /\ queries' = key.words
  /\ UNCHANGED <<argvars, urlvars, heap, code, lines, headers, shown, output, body,
                 status>>

\* http_headers_lookup for the next word of keyParam: the first node with the
\* key, unless the list ends in a freed node.
Lookup ==
  /\ pc = "queries" /\ queries # << >>
  /\ \/ /\ Head(queries) \in Range(headers)
        /\ shown' = Append(shown, Head(queries)) /\ UNCHANGED pc
     \/ /\ Head(queries) \notin Range(headers)
        /\ pc' = (IF "freed" \in Range(headers) THEN "undefined" ELSE pc)
        /\ UNCHANGED shown
  /\ queries' = Tail(queries)
  /\ UNCHANGED <<argvars, urlvars, heap, connvars, output, body, status>>

ToStdout ==
  /\ pc = "queries" /\ queries = << >> /\ file = 0
  /\ output' = [output EXCEPT !.to = "stdout"]
  /\ pc' = "body"
  /\ UNCHANGED <<argvars, urlvars, heap, connvars, queries, shown, body, status>>

\* fopen: the file is made, or emptied, whatever the response was.
ToFile ==
  /\ pc = "queries" /\ queries = << >> /\ file # 0
  /\ output' = [output EXCEPT !.to = "file"]
  /\ heap' = heap \cup {"fp"}
  /\ pc' = "body"
  /\ UNCHANGED <<argvars, urlvars, connvars, queries, shown, body, status>>

\* What http_close leaves: http_free_headers has freed every node.
http_close(h) == h \ {"stream", "response", "http"}

\* Variant: only the connection is closed.
FileFailsLeak ==
  /\ pc = "queries" /\ queries = << >> /\ file # 0
  /\ heap' = http_close(heap)
  /\ IF "freed" \in Range(headers) THEN pc' = "undefined" /\ UNCHANGED status
                                    ELSE Exit(255)
  /\ UNCHANGED <<argvars, urlvars, connvars, outvars>>

FileFails ==
  /\ pc = "queries" /\ queries = << >> /\ file # 0
  /\ heap' = url_free(http_close(heap))
  /\ IF "freed" \in Range(headers) THEN pc' = "undefined" /\ UNCHANGED status
                                    ELSE Exit(255)
  /\ UNCHANGED <<argvars, urlvars, connvars, outvars>>

\* http_getc returns a byte, which is written; nobody asks whether it was.
Byte ==
  /\ pc = "body" /\ state = "ST_BODY" /\ body < MaxBody
  /\ body' = body + 1
  /\ \/ output' = [output EXCEPT !.bytes = @ + 1]
     \/ output' = [output EXCEPT !.lost = TRUE]
  /\ UNCHANGED <<pc, argvars, urlvars, heap, connvars, queries, shown, status>>

\* What is buffered is written when the stream is closed, or at exit; that it is
\* lost then is not noticed either.
Flush ==
  \/ UNCHANGED output
  \/ \E n \in 0 .. output.bytes - 1 :
       output' = [output EXCEPT !.bytes = n, !.lost = TRUE]

\* http_getc returns EOF: fclose, http_close, url_free, exit(code).
End ==
  /\ pc = "body"
  /\ Flush
  /\ heap' = url_free(http_close(heap \ {"fp"}))
  /\ IF "freed" \in Range(headers) THEN pc' = "undefined" /\ UNCHANGED status
     ELSE Exit(IF code = 200 THEN 0 ELSE code % 256)
  /\ UNCHANGED <<argvars, urlvars, connvars, queries, shown, body>>

Next ==
  \/ HelpWanted \/ Query \/ OutputFile \/ Usage \/ UrlToSnarf \/ NoUrlGiven
  \/ UrlParse \/ url_address \/ NotHttp \/ OpenFails \/ http_open
  \/ http_request \/ NoResponse \/ http_response
  \/ HeaderGood \/ HeaderBad \/ HeadersEnd \/ Lookup
  \/ ToStdout \/ ToFile \/ FileFails \/ Byte \/ End

Spec == Init /\ [][Next]_vars

-----------------------------------------------------------------------------
(* Properties.                                                             *)

\* t holds the elements of s at the places I, in their order.
AtPlaces(t, s, I) ==
  \E place \in [DOMAIN t -> I] :
    /\ \A i \in I : \E n \in DOMAIN t : place[n] = i
    /\ \A n \in DOMAIN t : t[n] = s[place[n]]
    /\ \A m, n \in DOMAIN t : m < n => place[m] < place[n]

\* stringConcat writes behind the first query word, inside argv: it never
\* reaches an argument that is still to be parsed, and reaches the name of the
\* output file only if that stands between two queries.
ArgumentsIntact ==
  \A i \in DOMAIN argv :
    Storage(i) \cap dirty # {} =>
      /\ i < optind
      /\ i = file => \E j \in 1 .. i - 2, k \in i + 1 .. optind - 1 :
                       argv[j].s = "-q" /\ argv[k].s = "-q"

\* Every way out of main once there is a URL gives back all that was allocated
\* and closes the streams, whichever call failed.
AllReleased == pc = "exited" => heap = {}

\* Malformed header lines cost nothing but themselves: the list holds the good
\* ones in order, and memory is used after it was freed only if the last line
\* before the end of the headers was malformed.
HeadersExact ==
  /\ AtPlaces(Linked, lines, {i \in DOMAIN lines : lines[i] # "bad"})
  /\ "freed" \in Range(headers) \/ pc = "undefined" =>
       lines # << >> /\ Last(lines) = "bad"

\* A query prints a header exactly when the response has it, in the order of the
\* command line.
QueriesAnswered ==
  pc \in {"body", "exited"} /\ output.to # "none" =>
    AtPlaces(shown, [i \in DOMAIN argv |-> argv[i].s],
             {i \in 2 .. Len(argv) : /\ argv[i - 1].s = "-q"
                                     /\ argv[i].s \in Range(lines)})

\* Success is reported only for a response whose code is 200 or a multiple of
\* 256 and whose output could be opened.  It says nothing of the writes: what
\* was received is all there unless one failed, and the exit status does not
\* tell.  Without a response nothing is written.
SuccessMeans ==
  /\ output.bytes > 0 \/ output.lost => code \in Codes /\ url.method = <<"http">>
  /\ pc = "exited" /\ status = 0 /\ (\A i \in DOMAIN argv : argv[i].s # "-h") =>
       /\ code = 200 \/ code % 256 = 0
       /\ output.to # "none"
       /\ output.bytes = body \/ output.lost
=============================================================================
