-------------------------- MODULE SpoolerPathProofs --------------------------
(***************************************************************************)
(* Proofs about the search for a chain of conversions: of whatever types   *)
(* and conversions have been declared, in whatever order, a search between *)
(* different types returns a chain of conversions, whatever earlier calls  *)
(* have left in the arrays, and finds one exactly when one exists that goes *)
(* through types declared later and later up to its last conversion.       *)
(***************************************************************************)
EXTENDS SpoolerPath, SequenceTheorems, TLAPS

-----------------------------------------------------------------------------
(* The inductive invariant.                                                *)

TypeOK ==
  /\ types \in Nat
  /\ conv \in Seq(Seq(Nat)) /\ Len(conv) = types
  /\ \A t \in Types : \A i \in 1 .. Len(conv[t]) : conv[t][i] \in Types
  /\ visited \subseteq Types
  /\ queue \in Seq(Types)
  /\ result \in Seq(Types)
  /\ pc \in {"idle", "look", "scan", "backtrack", "done"}
  /\ stack \in Seq(Types \X (Nat \ {0}))
  /\ pc # "idle" => src \in Types /\ dest \in Types

\* What the arrays hold in each phase.  That queue is empty between searches
\* is what bfs relies on: it never resets loc.
Phases ==
  /\ pc \in {"idle", "done"} => queue = << >>
  /\ pc \in {"look", "scan"} => result = << >>
  /\ pc # "look" => stack = << >>
  /\ pc \in {"look", "scan", "backtrack"} => src # dest
  /\ pc = "look" => queue # << >>

\* add_conv declares no conversion of a type to itself.
NoLoop == \A t \in Types : ~search_conv(t, t)

\* The queue starts at src, holds no type twice, and every other type in it
\* has a conversion from one in front of it.
Trail ==
  /\ queue # << >> => queue[1] = src
  /\ \A p \in 2 .. Len(queue) : \E q \in 1 .. p - 1 : search_conv(queue[q], queue[p])
  /\ \A p, q \in 1 .. Len(queue) : queue[p] = queue[q] => p = q

InQueue(t) == \E p \in 1 .. Len(queue) : queue[p] = t

Reach == \E t \in Ahead(src) : search_conv(t, dest)

\* A call of look on t is under way that has yet to take its j-th conversion.
Pending(t, j) == \E k \in 1 .. Len(stack) : stack[k][1] = t /\ stack[k][2] <= j

\* Until dest is visited, a conversion that leads ahead leads to a visited
\* type or is still to be taken, and so is any conversion to dest.
Closing ==
  \A t \in visited :
    /\ search_conv(t, dest) => Pending(t, 1)
    /\ \A j \in 1 .. Len(conv[t]) :
         conv[t][j] > t => conv[t][j] \in visited \/ Pending(t, j)

\* The flags mark the types in the queue.
Marks == \A t \in Types : t \in visited <=> InQueue(t)

\* look calls itself on visited types only, and not from dest.
Frames == \A k \in 1 .. Len(stack) : stack[k][1] \in visited /\ stack[k][1] # dest

\* The types visited can be reached.
Reached ==
  /\ \A t \in visited : t # dest => t \in Ahead(src)
  /\ dest \in visited => Reach

Looking ==
  pc = "look" => Marks /\ Frames /\ Reached /\ (dest \notin visited => Closing)

Scanning == pc = "scan" => (InQueue(dest) <=> Reach)

\* The last type taken has a conversion from one that is still in the queue;
\* none is taken twice, because the queue has none of those taken, save dest
\* on the first turn.
Backtracking ==
  pc = "backtrack" =>
    /\ Reach
    /\ result # << >> /\ result[1] = dest
    /\ \A i \in 1 .. Len(result) - 1 : search_conv(result[i + 1], result[i])
    /\ \A i, j \in 1 .. Len(result) : result[i] = result[j] => i = j
    /\ queue = << >> => result[Len(result)] = src
    /\ queue # << >> =>
         \E q \in 1 .. Len(queue) : search_conv(queue[q], result[Len(result)])
    /\ \/ Len(result) = 1 /\ queue # << >> /\ queue[Len(queue)] = dest
       \/ \A i \in 1 .. Len(result) : ~InQueue(result[i])

IInv ==
  /\ TypeOK /\ Phases /\ NoLoop
  /\ Trail /\ Looking /\ Scanning /\ Backtracking
  /\ ResultIsChain /\ FoundIfAhead

-----------------------------------------------------------------------------
(* Sequences.                                                              *)

\* Front drops the last element and nothing else.
LEMMA FrontFacts ==
  ASSUME NEW S, NEW s \in Seq(S), s # << >>
  PROVE  /\ Front(s) \in Seq(S)
         /\ Len(s) \in Nat \ {0} /\ Len(Front(s)) = Len(s) - 1
         /\ \A i \in 1 .. Len(s) - 1 : Front(s)[i] = s[i]
         /\ s[Len(s)] \in S
<1>1. Len(s) \in Nat \ {0} /\ s[Len(s)] \in S
  OBVIOUS
<1>2. PICK n \in Nat : n = Len(s) - 1
  BY <1>1
<1>3. Front(s) = SubSeq(s, 1, n)
  BY <1>2 DEF Front
<1>4. \A i \in 1 .. n : s[i] \in S
  BY <1>1, <1>2
<1>5. /\ SubSeq(s, 1, n) \in Seq(S)
      /\ Len(SubSeq(s, 1, n)) = IF 1 <= n THEN n - 1 + 1 ELSE 0
      /\ \A i \in 1 .. n - 1 + 1 : SubSeq(s, 1, n)[i] = s[1 + i - 1]
  BY <1>4, SubSeqProperties
<1>6. \A i \in 1 .. n : i \in 1 .. n - 1 + 1 /\ 1 + i - 1 = i
  BY <1>2
<1> QED
  BY <1>1, <1>2, <1>3, <1>5, <1>6

\* Reverse turns the positions round.
LEMMA ReverseFacts ==
  ASSUME NEW S, NEW s \in Seq(S)
  PROVE  /\ Reverse(s) \in Seq(S) /\ Len(Reverse(s)) = Len(s)
         /\ \A i \in 1 .. Len(s) : Reverse(s)[i] = s[Len(s) - i + 1]
  BY DEF Reverse

\* Append adds one element and nothing else.
LEMMA AppendFacts ==
  ASSUME NEW S, NEW s \in Seq(S), NEW e \in S
  PROVE  /\ Append(s, e) \in Seq(S) /\ Len(Append(s, e)) = Len(s) + 1
         /\ Len(s) \in Nat
         /\ \A i \in 1 .. Len(s) : Append(s, e)[i] = s[i]
         /\ Append(s, e)[Len(s) + 1] = e
         /\ Append(s, e) # << >>
  OBVIOUS

\* A position up to m + 1 is one up to m or the last.
LEMMA UpToNext ==
  ASSUME NEW m \in Nat, NEW n, n = m + 1
  PROVE  \A r \in 1 .. n : r \in 1 .. m \/ r = m + 1
  OBVIOUS

-----------------------------------------------------------------------------
(* Reachability.                                                           *)

\* While the lists of types and conversions stand still, so does what can be
\* reached.
LEMMA SameGraph ==
  ASSUME UNCHANGED graph, UNCHANGED args
  PROVE  /\ Types' = Types /\ Ahead(src)' = Ahead(src)
         /\ \A t, d : search_conv(t, d)' <=> search_conv(t, d)
         /\ NoLoop' <=> NoLoop
         /\ Reach' <=> Reach
<1>1. types' = types /\ conv' = conv /\ src' = src /\ dest' = dest
  BY DEF graph, args
<1>2. Types' = Types
  BY <1>1 DEF Types
<1>3. \A t, d : search_conv(t, d)' <=> search_conv(t, d)
  BY <1>1 DEF search_conv
<1>4. Ahead(src)' = Ahead(src)
  BY <1>1, <1>2, <1>3, Zenon DEF Ahead, search_conv
<1>5. NoLoop' <=> NoLoop
  BY <1>2, <1>3, Zenon DEF NoLoop
<1>6. Reach' <=> Reach
  BY <1>1, <1>4 DEF Reach, search_conv
<1> QED
  BY <1>2, <1>3, <1>4, <1>5, <1>6

\* A type can be reached from itself.
LEMMA AheadStart ==
  ASSUME NEW s \in Types
  PROVE  s \in Ahead(s)
  BY Zenon DEF Ahead

\* A conversion that leads ahead from a type that can be reached leads to one
\* that can be reached.
LEMMA AheadStep ==
  ASSUME NEW s, NEW t \in Ahead(s), NEW n \in Types, search_conv(t, n), t < n
  PROVE  n \in Ahead(s)
<1>1. SUFFICES ASSUME NEW S \in SUBSET Types, s \in S,
                      \A a \in S, b \in Types : search_conv(a, b) /\ a < b => b \in S
               PROVE  n \in S
  BY Zenon DEF Ahead
<1>2. t \in S
  BY <1>1, Zenon DEF Ahead
<1> QED
  BY <1>1, <1>2, Zenon

\* Whatever holds src and is closed holds what can be reached.
LEMMA AheadLeast ==
  ASSUME NEW s, NEW S \in SUBSET Types, s \in S,
         \A a \in S, b \in Types : search_conv(a, b) /\ a < b => b \in S
  PROVE  Ahead(s) \subseteq S
  BY Zenon DEF Ahead

-----------------------------------------------------------------------------
(* Declarations: made between searches, when queue is empty.               *)

\* Between searches only the lists, and the queue being empty, matter.
LEMMA IdleParts ==
  ASSUME pc' = "idle", Phases'
  PROVE  (Trail /\ Looking /\ Scanning /\ Backtracking /\ ResultIsChain /\ FoundIfAhead)'
<1>1. queue' = << >>
  BY DEF Phases
<1>2. Trail'
  BY <1>1 DEF Trail
<1> QED
  BY <1>2 DEF Looking, Scanning, Backtracking, ResultIsChain, FoundIfAhead

LEMMA AddListStep ==
  ASSUME IInv, add_list
  PROVE  IInv'
<1>1. TypeOK /\ Phases /\ NoLoop /\ pc = "idle"
  BY DEF IInv, add_list
<1>2. /\ types' = types + 1 /\ conv' = Append(conv, << >>)
      /\ UNCHANGED <<visited, queue, result, pc, src, dest, stack>>
  BY DEF add_list, args
<1>3. types \in Nat /\ conv \in Seq(Seq(Nat)) /\ Len(conv) = types
  BY <1>1 DEF TypeOK
<1>4. << >> \in Seq(Nat)
  OBVIOUS
<1>5. /\ conv' \in Seq(Seq(Nat)) /\ Len(conv') = types'
      /\ \A t \in 1 .. types : conv'[t] = conv[t]
      /\ conv'[types + 1] = << >>
  BY <1>2, <1>3, <1>4, AppendFacts
<1>6. queue = << >> /\ stack = << >>
  BY <1>1 DEF Phases
<1>7. \A t \in 1 .. types' : t \in 1 .. types \/ (t = types + 1 /\ Len(conv'[t]) = 0)
  BY <1>2, <1>3, <1>5
<1>8. TypeOK'
  <2>1. \A t \in 1 .. types' : \A i \in 1 .. Len(conv'[t]) : conv'[t][i] \in 1 .. types'
    <3>1. SUFFICES ASSUME NEW t \in 1 .. types', NEW i \in 1 .. Len(conv'[t])
                   PROVE  conv'[t][i] \in 1 .. types'
      OBVIOUS
    <3>2. t \in 1 .. types /\ conv'[t] = conv[t]
      BY <1>5, <1>7
    <3>3. conv[t][i] \in 1 .. types
      BY <1>1, <3>1, <3>2 DEF TypeOK, Types
    <3> QED
      BY <1>2, <1>3, <3>2, <3>3
  <2>2. visited' \subseteq 1 .. types'
    BY <1>1, <1>2, <1>3 DEF TypeOK, Types
  <2>3. types' \in Nat
    BY <1>2, <1>3
  <2> QED
    <3>1. Types \subseteq Types' /\ result \in Seq(Types)
      BY <1>1, <1>2, <1>3 DEF TypeOK, Types
    <3>2. result' \in Seq(Types')
      BY <1>2, <3>1
    <3> QED
      BY <1>1, <1>2, <1>5, <1>6, <2>1, <2>2, <2>3, <3>2 DEF TypeOK, Types
<1>9. Phases' /\ pc' = "idle"
  BY <1>1, <1>2 DEF Phases
<1>10. NoLoop'
  <2>1. SUFFICES ASSUME NEW t \in 1 .. types', NEW i \in 1 .. Len(conv'[t])
                 PROVE  conv'[t][i] # t
    BY DEF NoLoop, search_conv, Types
  <2>2. t \in 1 .. types /\ conv'[t] = conv[t]
    <3>1. t \in 1 .. types
      BY <1>7, <2>1
    <3> QED
      BY <1>5, <3>1
  <2> QED
    BY <1>1, <2>1, <2>2 DEF NoLoop, search_conv, Types
<1> QED
  BY <1>8, <1>9, <1>10, IdleParts DEF IInv

LEMMA AddConvStep ==
  ASSUME IInv, NEW a \in Types, NEW b \in Types, add_conv(a, b)
  PROVE  IInv'
<1>1. TypeOK /\ Phases /\ NoLoop /\ pc = "idle" /\ a # b
  BY DEF IInv, add_conv
<1>2. /\ conv' = [conv EXCEPT ![a] = Append(conv[a], b)]
      /\ UNCHANGED <<types, visited, queue, result, pc, src, dest, stack>>
  BY DEF add_conv, args
<1>3. types \in Nat /\ conv \in Seq(Seq(Nat)) /\ Len(conv) = types
  BY <1>1 DEF TypeOK
<1>4. a \in 1 .. types /\ b \in 1 .. types /\ b \in Nat /\ conv[a] \in Seq(Nat)
  BY <1>3 DEF Types
<1>5. /\ Append(conv[a], b) \in Seq(Nat) /\ Len(Append(conv[a], b)) = Len(conv[a]) + 1
      /\ Len(conv[a]) \in Nat
      /\ \A i \in 1 .. Len(conv[a]) : Append(conv[a], b)[i] = conv[a][i]
      /\ Append(conv[a], b)[Len(conv[a]) + 1] = b
  BY <1>4, AppendFacts
<1>6. /\ conv' \in Seq(Seq(Nat)) /\ Len(conv') = types'
      /\ conv'[a] = Append(conv[a], b)
      /\ \A t \in 1 .. types : t # a => conv'[t] = conv[t]
  BY <1>2, <1>3, <1>4, <1>5
\* Every conversion is one there was, or the new one.
<1>7. ASSUME NEW t \in 1 .. types, NEW i \in 1 .. Len(conv'[t])
      PROVE  \/ t = a /\ conv'[t][i] = b
             \/ i \in 1 .. Len(conv[t]) /\ conv'[t][i] = conv[t][i]
  <2>1. CASE t # a
    BY <1>6, <1>7, <2>1
  <2>2. CASE t = a
    <3>1. i \in 1 .. Len(conv[a]) \/ i = Len(conv[a]) + 1
      BY <1>5, <1>6, <1>7, <2>2
    <3> QED
      BY <1>5, <1>6, <2>2, <3>1
  <2> QED
    BY <2>1, <2>2
<1>8. TypeOK'
  <2>1. \A t \in 1 .. types' : \A i \in 1 .. Len(conv'[t]) : conv'[t][i] \in 1 .. types'
    BY <1>1, <1>2, <1>4, <1>7 DEF TypeOK, Types
  <2> QED
    BY <1>1, <1>2, <1>6, <2>1 DEF TypeOK, Types
<1>9. Phases' /\ pc' = "idle"
  BY <1>1, <1>2 DEF Phases
<1>10. NoLoop'
  <2>1. SUFFICES ASSUME NEW t \in 1 .. types, NEW i \in 1 .. Len(conv'[t])
                 PROVE  conv'[t][i] # t
    BY <1>2 DEF NoLoop, search_conv, Types
  <2> QED
    BY <1>1, <1>7, <2>1 DEF NoLoop, search_conv, Types
<1> QED
  BY <1>8, <1>9, <1>10, IdleParts DEF IInv

-----------------------------------------------------------------------------
(* The call of bfs.                                                        *)

LEMMA BfsStep ==
  ASSUME IInv, NEW a \in Types, NEW b \in Types, bfs(a, b)
  PROVE  IInv'
<1>1. TypeOK /\ Phases /\ NoLoop /\ pc = "idle"
  BY DEF IInv, bfs
<1>2. queue = << >> /\ stack = << >>
  BY <1>1 DEF Phases
<1>3. types' = types /\ conv' = conv /\ src' = a /\ dest' = b
  BY DEF bfs, graph
<1>4. NoLoop' /\ Types' = Types
  BY <1>1, <1>3 DEF NoLoop, search_conv, Types
<1>5. CASE a = b
  <2>1. /\ result' = Append(result, a) /\ pc' = "done"
        /\ UNCHANGED <<visited, queue, stack>>
    BY <1>5 DEF bfs
  <2>2. result' \in Seq(Types) /\ result'[Len(result')] = a
    BY <1>1, <2>1, AppendFacts DEF TypeOK
  <2>3. TypeOK'
    BY <1>1, <1>3, <1>4, <2>1, <2>2 DEF TypeOK
  <2>4. Phases' /\ Trail'
    BY <1>2, <2>1 DEF Phases, Trail
  <2>5. ResultIsChain'
    BY <1>3, <1>5, <2>2 DEF ResultIsChain
  <2>6. Looking' /\ Scanning' /\ Backtracking' /\ FoundIfAhead'
    BY <1>3, <1>5, <2>1 DEF Looking, Scanning, Backtracking, FoundIfAhead
  <2> QED
    BY <1>4, <2>3, <2>4, <2>5, <2>6 DEF IInv
<1>6. CASE a # b
  <2>1. /\ result' = << >> /\ pc' = "look" /\ visited' = {a}
        /\ queue' = <<a>> /\ stack' = << <<a, 1>> >>
    BY <1>2, <1>6 DEF bfs, look, reset_visited
  <2>2. TypeOK'
    BY <1>1, <1>3, <1>4, <2>1 DEF TypeOK
  <2>3. Phases' /\ Trail'
    BY <1>3, <1>6, <2>1 DEF Phases, Trail
  <2>4. a \in Ahead(src)'
    <3>1. a \in Ahead(a)'
      BY <1>4, AheadStart DEF Ahead
    <3> QED
      BY <1>3, <3>1 DEF Ahead
  <2>5. Looking'
    <3>1. Marks'
      BY <2>1 DEF Marks, InQueue
    <3>2. Frames'
      BY <1>3, <1>6, <2>1 DEF Frames
    <3>3. Closing'
      BY <2>1 DEF Closing, Pending
    <3>4. Reached'
      BY <1>3, <1>6, <2>1, <2>4 DEF Reached
    <3> QED
      BY <3>1, <3>2, <3>3, <3>4 DEF Looking
  <2>6. Scanning' /\ Backtracking' /\ ResultIsChain' /\ FoundIfAhead'
    BY <2>1 DEF Scanning, Backtracking, ResultIsChain, FoundIfAhead
  <2> QED
    BY <1>4, <2>2, <2>3, <2>5, <2>6 DEF IInv
<1> QED
  BY <1>5, <1>6

-----------------------------------------------------------------------------
(* The calls of look.                                                      *)

\* A step of look leaves the parts about the other phases alone.
LEMMA LookParts ==
  ASSUME pc' = "look"
  PROVE  (Scanning /\ Backtracking /\ ResultIsChain /\ FoundIfAhead)'
  BY DEF Scanning, Backtracking, ResultIsChain, FoundIfAhead

\* A call of look on a type that the caller t has a conversion to.
LEMMA LookCall ==
  ASSUME IInv, pc = "look", NEW node \in Types, NEW t \in visited, t # dest,
         search_conv(t, node), node = dest \/ t < node,
         NEW callers \in Seq(Types \X (Nat \ {0})),
         \A k \in 1 .. Len(callers) : callers[k][1] \in visited /\ callers[k][1] # dest,
         look(node, dest, visited, callers),
         UNCHANGED <<graph, result, pc, args>>
  PROVE  (TypeOK /\ Phases /\ NoLoop /\ Trail /\ Marks /\ Frames /\ Reached)'
<1>1. TypeOK /\ Phases /\ NoLoop /\ Trail /\ Marks /\ Frames /\ Reached
  BY DEF IInv, Looking
<1>2. /\ types' = types /\ conv' = conv /\ result' = result /\ pc' = pc
      /\ src' = src /\ dest' = dest
  BY DEF graph, args
<1>3. /\ Types' = Types /\ Ahead(src)' = Ahead(src) /\ NoLoop' /\ (Reach' <=> Reach)
      /\ \A x, d : search_conv(x, d)' <=> search_conv(x, d)
  BY <1>1, SameGraph
<1>4. queue \in Seq(Types) /\ queue # << >> /\ src # dest
  BY <1>1 DEF TypeOK, Phases
<1>5. CASE node \in visited
  <2>1. visited' = visited /\ stack' = callers /\ queue' = queue
    BY <1>5 DEF look
  <2>2. TypeOK'
    BY <1>1, <1>2, <1>3, <2>1 DEF TypeOK
  <2>3. Phases'
    BY <1>1, <1>2, <2>1 DEF Phases
  <2>4. Trail'
    BY <1>1, <1>2, <2>1 DEF Trail, search_conv
  <2>5. Marks'
    BY <1>1, <1>3, <2>1 DEF Marks, InQueue
  <2>6. Frames'
    BY <1>2, <2>1 DEF Frames
  <2>7. Reached'
    BY <1>1, <1>2, <1>3, <2>1 DEF Reached
  <2> QED
    BY <1>3, <2>2, <2>3, <2>4, <2>5, <2>6, <2>7
<1>6. CASE node \notin visited
  <2>1. /\ visited' = visited \cup {node} /\ queue' = Append(queue, node)
        /\ stack' = IF node = dest THEN callers ELSE Append(callers, <<node, 1>>)
    BY <1>6 DEF look
  <2>2. /\ queue' \in Seq(Types) /\ Len(queue') = Len(queue) + 1 /\ Len(queue) \in Nat
        /\ \A i \in 1 .. Len(queue) : queue'[i] = queue[i]
        /\ queue'[Len(queue) + 1] = node /\ queue' # << >>
    BY <1>4, <2>1, AppendFacts
  <2>3. <<node, 1>> \in Types \X (Nat \ {0})
    OBVIOUS
  <2>4. /\ Append(callers, <<node, 1>>) \in Seq(Types \X (Nat \ {0}))
        /\ Len(Append(callers, <<node, 1>>)) = Len(callers) + 1 /\ Len(callers) \in Nat
        /\ \A k \in 1 .. Len(callers) : Append(callers, <<node, 1>>)[k] = callers[k]
        /\ Append(callers, <<node, 1>>)[Len(callers) + 1] = <<node, 1>>
    BY <2>3, AppendFacts
  <2>5. TypeOK'
    <3>1. visited' \subseteq Types /\ stack' \in Seq(Types \X (Nat \ {0}))
      BY <1>1, <2>1, <2>4 DEF TypeOK
    <3> QED
      BY <1>1, <1>2, <1>3, <2>2, <3>1 DEF TypeOK
  <2>6. Phases'
    BY <1>1, <1>2, <2>2 DEF Phases
  <2>7. PICK q0 \in 1 .. Len(queue) : queue[q0] = t
    BY <1>1 DEF Marks, InQueue, TypeOK
  <2>8. Trail'
    <3>1. queue'[1] = src'
      BY <1>1, <1>2, <1>4, <2>2 DEF Trail
    <3>2. ASSUME NEW p \in 2 .. Len(queue')
          PROVE  \E q \in 1 .. p - 1 : search_conv(queue'[q], queue'[p])
      <4>1. CASE p \in 2 .. Len(queue)
        <5>1. PICK q \in 1 .. p - 1 : search_conv(queue[q], queue[p])
          BY <1>1, <4>1 DEF Trail
        <5>2. queue'[q] = queue[q] /\ queue'[p] = queue[p]
          BY <2>2, <4>1
        <5> QED
          BY <5>1, <5>2
      <4>2. CASE p = Len(queue) + 1
        <5>1. queue'[q0] = t /\ queue'[p] = node /\ q0 \in 1 .. p - 1
          BY <2>2, <2>7, <4>2
        <5> QED
          BY <5>1
      <4> QED
        BY <2>2, <3>2, <4>1, <4>2
    <3>3. \A p \in 1 .. Len(queue) : queue[p] # node
      BY <1>1, <1>6 DEF Marks, InQueue
    <3>4. ASSUME NEW p \in 1 .. Len(queue'), NEW q \in 1 .. Len(queue'),
                 queue'[p] = queue'[q]
          PROVE  p = q
      <4>1. \A r \in 1 .. Len(queue') : r \in 1 .. Len(queue) \/ r = Len(queue) + 1
        BY <2>2, UpToNext
      <4>2. CASE p \in 1 .. Len(queue) /\ q \in 1 .. Len(queue)
        BY <1>1, <2>2, <3>4, <4>2 DEF Trail
      <4>3. CASE p = Len(queue) + 1 /\ q \in 1 .. Len(queue)
        BY <2>2, <3>3, <3>4, <4>3
      <4>4. CASE q = Len(queue) + 1 /\ p \in 1 .. Len(queue)
        BY <2>2, <3>3, <3>4, <4>4
      <4> QED
        BY <4>1, <4>2, <4>3, <4>4
    <3>5. \A p \in 2 .. Len(queue') : \E q \in 1 .. p - 1 : search_conv(queue[q], queue[p])'
      BY <1>2, <3>2 DEF search_conv
    <3> QED
      BY <3>1, <3>4, <3>5 DEF Trail
  <2>9. Marks'
    <3>1. SUFFICES ASSUME NEW x \in Types
                   PROVE  x \in visited' <=> InQueue(x)'
      BY <1>3 DEF Marks
    <3>2. x \in visited <=> InQueue(x)
      BY <1>1 DEF Marks
    <3>3. InQueue(x)' <=> InQueue(x) \/ x = node
      <4>1. ASSUME InQueue(x)'
            PROVE  InQueue(x) \/ x = node
        <5>1. PICK p \in 1 .. Len(queue') : queue'[p] = x
          BY <4>1 DEF InQueue
        <5>2. p \in 1 .. Len(queue) \/ p = Len(queue) + 1
          <6>1. Len(queue') = Len(queue) + 1 /\ Len(queue) \in Nat
            BY <2>2
          <6> QED
            BY <6>1
        <5> QED
          BY <2>2, <5>1, <5>2 DEF InQueue
      <4>2. ASSUME InQueue(x) PROVE InQueue(x)'
        <5>1. PICK p \in 1 .. Len(queue) : queue[p] = x
          BY <4>2 DEF InQueue
        <5>2. p \in 1 .. Len(queue') /\ queue'[p] = x
          BY <2>2, <5>1
        <5> QED
          BY <5>2 DEF InQueue
      <4>3. ASSUME x = node PROVE InQueue(x)'
        <5>1. Len(queue') \in 1 .. Len(queue') /\ queue'[Len(queue')] = x
          BY <2>2, <4>3
        <5> QED
          BY <5>1 DEF InQueue
      <4> QED
        BY <4>1, <4>2, <4>3
    <3> QED
      BY <2>1, <3>2, <3>3
  <2>10. Frames'
    <3>1. SUFFICES ASSUME NEW k \in 1 .. Len(stack')
                   PROVE  stack'[k][1] \in visited' /\ stack'[k][1] # dest
      BY <1>2 DEF Frames
    <3>2. CASE node = dest
      BY <2>1, <3>1, <3>2
    <3>3. CASE node # dest
      <4>1. stack' = Append(callers, <<node, 1>>)
        BY <2>1, <3>3
      <4>2. k \in 1 .. Len(callers) \/ k = Len(callers) + 1
        BY <2>4, <3>1, <4>1
      <4>3. CASE k \in 1 .. Len(callers)
        BY <2>1, <2>4, <4>1, <4>3
      <4>4. CASE k = Len(callers) + 1
        BY <2>1, <2>4, <3>3, <4>1, <4>4
      <4> QED
        BY <4>2, <4>3, <4>4
    <3> QED
      BY <3>2, <3>3
  <2>11. Reached'
    <3>1. t \in Ahead(src)
      BY <1>1 DEF Reached
    <3>2. CASE node = dest
      <4>1. Reach
        BY <3>1, <3>2 DEF Reach
      <4> QED
        BY <1>1, <1>2, <1>3, <2>1, <3>2, <4>1 DEF Reached
    <3>3. CASE node # dest
      <4>1. node \in Ahead(src)
        BY <3>1, <3>3, AheadStep
      <4> QED
        BY <1>1, <1>2, <1>3, <2>1, <3>3, <4>1 DEF Reached
    <3> QED
      BY <3>2, <3>3
  <2> QED
    BY <1>3, <2>5, <2>6, <2>8, <2>9, <2>10, <2>11
<1> QED
  BY <1>5, <1>6

\* The conversions of a type.
LEMMA ConvFacts ==
  ASSUME TypeOK, NEW t \in Types
  PROVE  /\ Len(conv[t]) \in Nat
         /\ \A j \in 1 .. Len(conv[t]) : conv[t][j] \in Types /\ search_conv(t, conv[t][j])
<1>1. conv[t] \in Seq(Nat)
  BY DEF TypeOK, Types
<1>2. Len(conv[t]) \in Nat
  BY <1>1
<1> QED
  BY <1>2 DEF TypeOK, search_conv

\* The last call under way, and the ones it was called from.
LEMMA TopFacts ==
  ASSUME IInv, pc = "look", stack # << >>
  PROVE  /\ Top \in Types \X (Nat \ {0}) /\ Top[1] \in Types /\ Top[2] \in Nat \ {0}
         /\ Top[1] \in visited /\ Top[1] # dest
         /\ Callers \in Seq(Types \X (Nat \ {0}))
         /\ Len(stack) \in Nat \ {0} /\ Len(Callers) = Len(stack) - 1
         /\ \A k \in 1 .. Len(stack) - 1 : Callers[k] = stack[k]
         /\ \A k \in 1 .. Len(Callers) :
              Callers[k][1] \in visited /\ Callers[k][1] # dest
<1>1. stack \in Seq(Types \X (Nat \ {0})) /\ Frames
  BY DEF IInv, TypeOK, Looking
<1>2. /\ Callers \in Seq(Types \X (Nat \ {0}))
      /\ Len(stack) \in Nat \ {0} /\ Len(Callers) = Len(stack) - 1
      /\ \A k \in 1 .. Len(stack) - 1 : Callers[k] = stack[k]
      /\ Top \in Types \X (Nat \ {0})
  BY <1>1, FrontFacts DEF Callers, Top
<1>3. Top[1] \in Types /\ Top[2] \in Nat \ {0}
  BY <1>2
<1>4. Top[1] \in visited /\ Top[1] # dest
  BY <1>1, <1>2 DEF Frames, Top
<1>5. ASSUME NEW k \in 1 .. Len(Callers)
      PROVE  Callers[k][1] \in visited /\ Callers[k][1] # dest
  <2>1. k \in 1 .. Len(stack) /\ Callers[k] = stack[k]
    BY <1>2
  <2> QED
    BY <1>1, <2>1 DEF Frames
<1> QED
  BY <1>2, <1>3, <1>4, <1>5

LEMMA LookDestStep ==
  ASSUME IInv, LookDest
  PROVE  IInv'
<1>1. /\ pc = "look" /\ stack # << >> /\ search_conv(Top[1], dest)
      /\ look(dest, dest, visited, Callers)
      /\ UNCHANGED <<graph, result, pc, args>>
  BY DEF LookDest
<1>2. dest \in Types
  BY <1>1 DEF IInv, TypeOK
<1>3. (TypeOK /\ Phases /\ NoLoop /\ Trail /\ Marks /\ Frames /\ Reached)'
  BY <1>1, <1>2, TopFacts, LookCall
<1>4. pc' = "look" /\ dest' \in visited'
  BY <1>1 DEF look, args
<1> QED
  BY <1>3, <1>4, LookParts DEF IInv, Looking

\* A step that only changes stack, to calls on visited types.
LEMMA StackOnly ==
  ASSUME IInv, pc = "look", stack' \in Seq(Types \X (Nat \ {0})),
         \A k \in 1 .. Len(stack') : stack'[k][1] \in visited /\ stack'[k][1] # dest,
         UNCHANGED <<graph, visited, queue, result, pc, args>>
  PROVE  (TypeOK /\ Phases /\ NoLoop /\ Trail /\ Marks /\ Frames /\ Reached)'
<1>1. TypeOK /\ Phases /\ NoLoop /\ Trail /\ Marks /\ Frames /\ Reached
  BY DEF IInv, Looking
<1>2. /\ types' = types /\ conv' = conv /\ result' = result /\ pc' = pc
      /\ src' = src /\ dest' = dest /\ visited' = visited /\ queue' = queue
  BY DEF graph, args
<1>3. /\ Types' = Types /\ Ahead(src)' = Ahead(src) /\ NoLoop' /\ (Reach' <=> Reach)
  BY <1>1, SameGraph
<1>4. TypeOK'
  BY <1>1, <1>2, <1>3 DEF TypeOK
<1>5. Phases'
  BY <1>1, <1>2 DEF Phases
<1>6. Trail'
  BY <1>1, <1>2 DEF Trail, search_conv
<1>7. Marks'
  BY <1>1, <1>2, <1>3 DEF Marks, InQueue
<1>8. Frames'
  BY <1>2 DEF Frames
<1>9. Reached'
  BY <1>1, <1>2, <1>3 DEF Reached
<1> QED
  BY <1>3, <1>4, <1>5, <1>6, <1>7, <1>8, <1>9

\* A turn of the loop and a return lose no conversion that is still to be
\* taken, save the one the turn takes.
LEMMA LookReturnStep ==
  ASSUME IInv, LookReturn
  PROVE  IInv'
<1>1. /\ pc = "look" /\ stack # << >> /\ ~search_conv(Top[1], dest)
      /\ Top[2] > Len(conv[Top[1]]) /\ stack' = Callers
      /\ UNCHANGED <<graph, visited, queue, result, pc, args>>
  BY DEF LookReturn
<1>2. (TypeOK /\ Phases /\ NoLoop /\ Trail /\ Marks /\ Frames /\ Reached)'
  BY <1>1, TopFacts, StackOnly
<1>3. conv' = conv /\ dest' = dest /\ visited' = visited /\ pc' = "look"
  BY <1>1 DEF graph, args
<1>4. ASSUME NEW t, NEW j \in Nat, Pending(t, j), t # Top[1] \/ j <= Len(conv[t])
      PROVE  Pending(t, j)'
  <2>1. PICK k \in 1 .. Len(stack) : stack[k][1] = t /\ stack[k][2] <= j
    BY <1>4 DEF Pending
  <2>2. k # Len(stack)
    <3>1. SUFFICES ASSUME k = Len(stack) PROVE FALSE
      OBVIOUS
    <3>2. Top[1] = t /\ Top[2] <= j
      BY <2>1, <3>1 DEF Top
    <3>3. t \in Types /\ TypeOK
      BY <1>1, <3>2, TopFacts DEF IInv
    <3>4. Len(conv[t]) \in Nat
      BY <3>3, ConvFacts
    <3> QED
      BY <1>1, <1>4, <3>2, <3>4, TopFacts
  <2>3. k \in 1 .. Len(stack') /\ stack'[k] = stack[k]
    BY <1>1, <2>2, TopFacts
  <2> QED
    BY <2>1, <2>3 DEF Pending
<1>5. ASSUME dest \notin visited PROVE Closing'
  <2>1. Closing
    BY <1>1, <1>5 DEF IInv, Looking
  <2>2. SUFFICES ASSUME NEW t \in visited
                 PROVE  /\ search_conv(t, dest) => Pending(t, 1)'
                        /\ \A j \in 1 .. Len(conv[t]) :
                             conv[t][j] > t => conv[t][j] \in visited \/ Pending(t, j)'
    BY <1>3 DEF Closing, search_conv
  <2>3. ASSUME search_conv(t, dest) PROVE Pending(t, 1)'
    <3>1. t # Top[1] /\ Pending(t, 1)
      BY <1>1, <2>1, <2>2, <2>3 DEF Closing
    <3> QED
      BY <1>4, <3>1
  <2>4. ASSUME NEW j \in 1 .. Len(conv[t]), conv[t][j] > t, conv[t][j] \notin visited
        PROVE  Pending(t, j)'
    <3>1. Pending(t, j)
      BY <2>1, <2>2, <2>4 DEF Closing
    <3>2. t \in Types /\ TypeOK
      BY <2>2 DEF IInv, TypeOK
    <3>3. j \in Nat /\ j <= Len(conv[t])
      BY <3>2, ConvFacts
    <3> QED
      BY <1>4, <3>1, <3>3
  <2> QED
    BY <2>3, <2>4
<1> QED
  BY <1>2, <1>3, <1>5, LookParts DEF IInv, Looking

LEMMA LookNextStep ==
  ASSUME IInv, LookNext
  PROVE  IInv'
<1>1. /\ pc = "look" /\ stack # << >> /\ ~search_conv(Top[1], dest)
      /\ Top[2] <= Len(conv[Top[1]])
      /\ UNCHANGED <<graph, result, pc, args>>
  BY DEF LookNext
<1>2. PICK node, i : node = Top[1] /\ i = Top[2]
  OBVIOUS
<1>3. PICK next : next = conv[node][i]
  OBVIOUS
<1>4. PICK turned : turned = Append(Callers, <<node, i + 1>>)
  OBVIOUS
<1>5. \/ next < node /\ stack' = turned /\ UNCHANGED <<visited, queue>>
      \/ ~(next < node) /\ look(next, dest, visited, turned)
  BY <1>2, <1>3, <1>4, Zenon DEF LookNext
<1>6. TypeOK /\ NoLoop
  BY DEF IInv
<1>7. node \in Types /\ i \in Nat \ {0} /\ node \in visited /\ node # dest
  BY <1>1, <1>2, TopFacts
<1>8. i \in 1 .. Len(conv[node])
  BY <1>1, <1>2, <1>6, <1>7, ConvFacts
<1>9. next \in Types /\ search_conv(node, next) /\ next # node /\ next # dest
  <2>1. next \in Types /\ search_conv(node, next)
    BY <1>3, <1>6, <1>7, <1>8, ConvFacts
  <2> QED
    BY <1>1, <1>2, <1>6, <1>7, <2>1 DEF NoLoop
<1>10. types \in Nat /\ next \in Nat /\ node \in Nat
  BY <1>6, <1>7, <1>9 DEF TypeOK, Types
<1>11. <<node, i + 1>> \in Types \X (Nat \ {0})
  BY <1>7
<1>12. /\ turned \in Seq(Types \X (Nat \ {0})) /\ Len(turned) = Len(stack)
       /\ Len(stack) \in Nat \ {0}
       /\ \A k \in 1 .. Len(stack) - 1 : turned[k] = stack[k]
       /\ turned[Len(stack)] = <<node, i + 1>>
  <2>1. /\ Append(Callers, <<node, i + 1>>) \in Seq(Types \X (Nat \ {0}))
        /\ Len(Append(Callers, <<node, i + 1>>)) = Len(Callers) + 1
        /\ \A k \in 1 .. Len(Callers) : Append(Callers, <<node, i + 1>>)[k] = Callers[k]
        /\ Append(Callers, <<node, i + 1>>)[Len(Callers) + 1] = <<node, i + 1>>
    BY <1>1, <1>11, TopFacts, AppendFacts
  <2>2. /\ Len(stack) \in Nat \ {0} /\ Len(Callers) = Len(stack) - 1
        /\ \A k \in 1 .. Len(stack) - 1 : Callers[k] = stack[k]
    BY <1>1, TopFacts
  <2>3. Len(Callers) + 1 = Len(stack)
    BY <2>2
  <2>4. turned[Len(stack)] = <<node, i + 1>> /\ Len(turned) = Len(stack)
    BY <1>4, <2>1, <2>3
  <2>5. \A k \in 1 .. Len(stack) - 1 : turned[k] = stack[k]
    BY <1>4, <2>1, <2>2
  <2> QED
    BY <1>4, <2>1, <2>2, <2>4, <2>5
<1>13. \A k \in 1 .. Len(turned) : turned[k][1] \in visited /\ turned[k][1] # dest
  <2>1. SUFFICES ASSUME NEW k \in 1 .. Len(turned)
                 PROVE  turned[k][1] \in visited /\ turned[k][1] # dest
    OBVIOUS
  <2>2. Frames
    BY <1>1 DEF IInv, Looking
  <2>3. CASE k = Len(stack)
    BY <1>7, <1>12, <2>3
  <2>4. CASE k # Len(stack)
    <3>1. k \in 1 .. Len(stack) /\ turned[k] = stack[k]
      BY <1>12, <2>4
    <3> QED
      BY <2>2, <3>1 DEF Frames
  <2> QED
    BY <2>3, <2>4
<1>14. (TypeOK /\ Phases /\ NoLoop /\ Trail /\ Marks /\ Frames /\ Reached)'
  <2>1. CASE next < node /\ stack' = turned /\ UNCHANGED <<visited, queue>>
    BY <1>1, <1>12, <1>13, <2>1, StackOnly
  <2>2. CASE ~(next < node) /\ look(next, dest, visited, turned)
    <3>1. node < next
      BY <1>9, <1>10, <2>2
    <3> QED
      BY <1>1, <1>7, <1>9, <1>12, <1>13, <2>2, <3>1, LookCall
  <2> QED
    BY <1>5, <2>1, <2>2
<1>15. /\ conv' = conv /\ dest' = dest /\ pc' = "look"
  BY <1>1 DEF graph, args
\* The calls of turned are still under way, and the new one, if there is one.
<1>16. /\ Len(stack') \in Nat /\ Len(stack') >= Len(stack)
       /\ \A k \in 1 .. Len(stack) : stack'[k] = turned[k]
       /\ visited \subseteq visited'
       /\ next > node => next \in visited'
       /\ \A t \in visited' : t \in visited \/ t = dest
            \/ \E k \in 1 .. Len(stack') : stack'[k] = <<t, 1>>
  <2>1. CASE next < node /\ stack' = turned /\ UNCHANGED <<visited, queue>>
    BY <1>10, <1>12, <2>1
  <2>2. CASE next \in visited /\ look(next, dest, visited, turned)
    <3>1. stack' = turned /\ visited' = visited
      BY <2>2 DEF look
    <3> QED
      BY <1>12, <2>2, <3>1
  <2>3. CASE next \notin visited /\ look(next, dest, visited, turned)
    <3>1. stack' = Append(turned, <<next, 1>>) /\ visited' = visited \cup {next}
      BY <1>9, <2>3 DEF look
    <3>2. <<next, 1>> \in Types \X (Nat \ {0})
      BY <1>9
    <3>3. /\ Len(stack') = Len(stack) + 1
          /\ \A k \in 1 .. Len(stack) : stack'[k] = turned[k]
          /\ stack'[Len(stack) + 1] = <<next, 1>>
      BY <1>12, <3>1, <3>2, AppendFacts
    <3>4. Len(stack) + 1 \in 1 .. Len(stack') /\ Len(stack') \in Nat
      BY <1>12, <3>3
    <3>5. \A t \in visited' : t \in visited \/ t = dest
            \/ \E k \in 1 .. Len(stack') : stack'[k] = <<t, 1>>
      BY <3>1, <3>3, <3>4
    <3>6. Len(stack') >= Len(stack)
      BY <1>12, <3>3
    <3> QED
      BY <3>1, <3>3, <3>4, <3>5, <3>6
  <2> QED
    BY <1>5, <2>1, <2>2, <2>3
<1>17. ASSUME NEW t, NEW j, Pending(t, j), t # node \/ j # i, j \in Nat
       PROVE  Pending(t, j)'
  <2>1. PICK k \in 1 .. Len(stack) : stack[k][1] = t /\ stack[k][2] <= j
    BY <1>17 DEF Pending
  <2>2. k \in 1 .. Len(stack') /\ stack'[k] = turned[k]
    BY <1>12, <1>16
  <2>3. CASE k # Len(stack)
    <3>1. k \in 1 .. Len(stack) - 1
      BY <1>12, <2>1, <2>3
    <3>2. turned[k] = stack[k]
      BY <1>12, <3>1
    <3> QED
      BY <2>1, <2>2, <3>2 DEF Pending
  <2>4. CASE k = Len(stack)
    <3>1. t = node /\ i <= j
      BY <1>2, <2>1, <2>4 DEF Top
    <3>2. i + 1 <= j
      BY <1>7, <1>17, <3>1
    <3>3. stack'[k][1] = t /\ stack'[k][2] <= j
      BY <1>12, <2>2, <2>4, <3>1, <3>2
    <3> QED
      BY <2>2, <3>3 DEF Pending
  <2> QED
    BY <2>3, <2>4
<1>18. ASSUME dest \notin visited' PROVE Closing'
  <2>1. Closing
    BY <1>1, <1>16, <1>18 DEF IInv, Looking
  <2>2. SUFFICES ASSUME NEW t \in visited'
                 PROVE  /\ search_conv(t, dest) => Pending(t, 1)'
                        /\ \A j \in 1 .. Len(conv[t]) :
                             conv[t][j] > t => conv[t][j] \in visited' \/ Pending(t, j)'
    BY <1>15 DEF Closing, search_conv
  <2>3. t \in Types /\ Len(conv[t]) \in Nat
    BY <1>6, <1>14, <1>15, <2>2, ConvFacts, SameGraph, <1>1 DEF TypeOK
  <2>4. CASE \E k \in 1 .. Len(stack') : stack'[k] = <<t, 1>>
    <3>1. \A j \in Nat : 1 <= j => Pending(t, j)'
      BY <2>4 DEF Pending
    <3> QED
      BY <2>3, <3>1
  <2>5. CASE t \in visited
    <3>1. ASSUME search_conv(t, dest) PROVE Pending(t, 1)'
      <4>1. t # node /\ Pending(t, 1)
        BY <1>1, <1>2, <2>1, <2>5, <3>1 DEF Closing
      <4> QED
        BY <1>17, <4>1
    <3>2. ASSUME NEW j \in 1 .. Len(conv[t]), conv[t][j] > t, conv[t][j] \notin visited'
          PROVE  Pending(t, j)'
      <4>1. Pending(t, j)
        BY <1>16, <2>1, <2>5, <3>2 DEF Closing
      <4>2. t # node \/ j # i
        BY <1>3, <1>16, <3>2
      <4>3. j \in Nat
        BY <2>3
      <4> QED
        BY <1>17, <4>1, <4>2, <4>3
    <3> QED
      BY <3>1, <3>2
  <2> QED
    BY <1>15, <1>16, <1>18, <2>2, <2>4, <2>5
<1> QED
  BY <1>14, <1>15, <1>18, LookParts DEF IInv, Looking

\* When look has returned, dest is in the queue exactly if it can be reached:
\* otherwise nothing is left to take, the types visited are closed under the
\* conversions that lead ahead, and none of them has a conversion to dest.
LEMMA LookDoneStep ==
  ASSUME IInv, LookDone
  PROVE  IInv'
<1>1. /\ pc = "look" /\ stack = << >> /\ pc' = "scan"
      /\ UNCHANGED <<graph, visited, queue, result, args, stack>>
  BY DEF LookDone
<1>2. TypeOK /\ Phases /\ NoLoop /\ Trail /\ Marks /\ Reached
  BY <1>1 DEF IInv, Looking
<1>3. /\ types' = types /\ conv' = conv /\ result' = result /\ stack' = stack
      /\ src' = src /\ dest' = dest /\ visited' = visited /\ queue' = queue
  BY <1>1 DEF graph, args
<1>4. /\ Types' = Types /\ NoLoop' /\ (Reach' <=> Reach)
  BY <1>1, <1>2, SameGraph
<1>5. src \in Types /\ dest \in Types /\ queue \in Seq(Types) /\ visited \in SUBSET Types
  BY <1>1, <1>2 DEF TypeOK
<1>6. TypeOK'
  BY <1>1, <1>2, <1>3, <1>4 DEF TypeOK
<1>7. Phases'
  BY <1>1, <1>2, <1>3 DEF Phases
<1>8. Trail'
  BY <1>2, <1>3 DEF Trail, search_conv
<1>9. ASSUME InQueue(dest) PROVE Reach
  BY <1>2, <1>5, <1>9 DEF Marks, Reached
<1>10. ASSUME Reach, ~InQueue(dest) PROVE FALSE
  <2>1. dest \notin visited
    BY <1>2, <1>5, <1>10 DEF Marks
  <2>2. Closing
    BY <1>1, <2>1 DEF IInv, Looking
  <2>3. \A t, j : ~Pending(t, j)
    BY <1>1 DEF Pending
  <2>4. ASSUME NEW a \in visited, NEW b \in Types, search_conv(a, b), a < b
        PROVE  b \in visited
    <3>1. PICK j \in 1 .. Len(conv[a]) : conv[a][j] = b
      BY <2>4 DEF search_conv
    <3>2. a \in Nat /\ b \in Nat
      BY <1>2, <1>5, <2>4 DEF TypeOK, Types
    <3>3. conv[a][j] > a
      BY <2>4, <3>1, <3>2
    <3> QED
      BY <2>2, <2>3, <2>4, <3>1, <3>3 DEF Closing
  <2>5. src \in visited
    <3>1. queue[1] = src /\ 1 \in 1 .. Len(queue)
      BY <1>1, <1>2, <1>5 DEF Trail, Phases
    <3> QED
      BY <1>2, <1>5, <3>1 DEF Marks, InQueue
  <2>6. Ahead(src) \subseteq visited
    BY <1>5, <2>4, <2>5, AheadLeast
  <2>7. PICK t \in Ahead(src) : search_conv(t, dest)
    BY <1>10 DEF Reach
  <2> QED
    BY <2>2, <2>3, <2>6, <2>7 DEF Closing
<1>11. Scanning'
  BY <1>3, <1>4, <1>9, <1>10 DEF Scanning, InQueue
<1>12. Looking' /\ Backtracking' /\ ResultIsChain' /\ FoundIfAhead'
  BY <1>1 DEF Looking, Backtracking, ResultIsChain, FoundIfAhead
<1> QED
  BY <1>4, <1>6, <1>7, <1>8, <1>11, <1>12 DEF IInv

-----------------------------------------------------------------------------
(* The way back through the queue.                                         *)

\* What the queue is without its last element.
LEMMA PopQueue ==
  ASSUME TypeOK, Trail, queue # << >>, queue' = Front(queue),
         UNCHANGED <<graph, args>>
  PROVE  /\ Trail' /\ queue' \in Seq(Types)
         /\ Len(queue) \in Nat \ {0} /\ Len(queue') = Len(queue) - 1
         /\ \A p \in 1 .. Len(queue) - 1 : queue'[p] = queue[p]
         /\ queue[Len(queue)] \in Types
         /\ \A t : t = queue[Len(queue)] => ~InQueue(t)'
         /\ queue' = << >> <=> Len(queue) = 1
         /\ \A t : InQueue(t)' => InQueue(t)
         /\ \A t : InQueue(t) /\ t # queue[Len(queue)] => InQueue(t)'
<1>1. /\ queue' \in Seq(Types)
      /\ Len(queue) \in Nat \ {0} /\ Len(queue') = Len(queue) - 1
      /\ \A p \in 1 .. Len(queue) - 1 : queue'[p] = queue[p]
      /\ queue[Len(queue)] \in Types
  BY FrontFacts DEF TypeOK
<1>2. conv' = conv /\ src' = src
  BY DEF graph, args
<1>3. \A p \in 1 .. Len(queue') : p \in 1 .. Len(queue) /\ p < Len(queue) /\ queue'[p] = queue[p]
  BY <1>1
<1>4. queue' = << >> <=> Len(queue) = 1
  BY <1>1
<1>5. Trail'
  <2>1. ASSUME queue' # << >> PROVE queue'[1] = src'
    <3>1. 1 \in 1 .. Len(queue) - 1
      BY <1>1, <1>4, <2>1
    <3> QED
      BY <1>1, <1>2, <3>1 DEF Trail
  <2>2. ASSUME NEW p \in 2 .. Len(queue')
        PROVE  \E q \in 1 .. p - 1 : search_conv(queue'[q], queue'[p])
    <3>1. p \in 2 .. Len(queue) /\ p \in 1 .. Len(queue')
      BY <1>1
    <3>2. PICK q \in 1 .. p - 1 : search_conv(queue[q], queue[p])
      BY <3>1 DEF Trail
    <3>3. q \in 1 .. Len(queue')
      BY <1>1, <3>2
    <3> QED
      BY <1>3, <3>1, <3>2, <3>3
  <2>3. \A p, q \in 1 .. Len(queue') : queue'[p] = queue'[q] => p = q
    BY <1>3 DEF Trail
  <2>4. \A p \in 2 .. Len(queue') : \E q \in 1 .. p - 1 : search_conv(queue[q], queue[p])'
    BY <1>2, <2>2 DEF search_conv
  <2> QED
    BY <2>1, <2>3, <2>4 DEF Trail
<1>6. PICK last : last = queue[Len(queue)]
  OBVIOUS
<1>7. \A p \in 1 .. Len(queue') : queue'[p] # last
  <2>1. Len(queue) \in 1 .. Len(queue)
    BY <1>1
  <2> QED
    BY <1>1, <1>3, <1>6, <2>1 DEF Trail
<1>8. ~InQueue(last)'
  BY <1>7 DEF InQueue
<1>9. \A t : InQueue(t)' => InQueue(t)
  BY <1>3 DEF InQueue
<1>10. ASSUME NEW t, InQueue(t), t # last PROVE InQueue(t)'
  <2>1. PICK p \in 1 .. Len(queue) : queue[p] = t
    BY <1>10 DEF InQueue
  <2>2. p \in 1 .. Len(queue') /\ p \in 1 .. Len(queue) - 1
    BY <1>1, <1>6, <1>10, <2>1
  <2> QED
    BY <1>3, <2>1, <2>2 DEF InQueue
<1> QED
  BY <1>1, <1>4, <1>5, <1>6, <1>8, <1>9, <1>10

LEMMA ScanTurnStep ==
  ASSUME IInv, ScanTurn
  PROVE  IInv'
<1>1. /\ pc = "scan" /\ queue # << >>
      /\ UNCHANGED <<graph, visited, args, stack>>
  BY DEF ScanTurn
<1>2. TypeOK /\ Phases /\ NoLoop /\ Trail /\ (InQueue(dest) <=> Reach)
  BY <1>1 DEF IInv, Scanning
<1>3. /\ types' = types /\ conv' = conv /\ stack' = stack
      /\ src' = src /\ dest' = dest /\ visited' = visited
  BY <1>1 DEF graph, args
<1>4. /\ Types' = Types /\ NoLoop' /\ (Reach' <=> Reach)
  BY <1>1, <1>2, SameGraph
<1>5. /\ queue \in Seq(Types) /\ Len(queue) \in Nat \ {0} /\ queue[1] = src
      /\ src # dest /\ src \in Types /\ dest \in Types /\ stack = << >> /\ result = << >>
  BY <1>1, <1>2 DEF TypeOK, Trail, Phases
<1>6. CASE queue[Len(queue)] = dest
  <2>1. /\ result' = <<dest>> /\ queue' = queue
        /\ pc' = IF Len(queue) > 1 THEN "backtrack" ELSE "done"
    BY <1>6 DEF ScanTurn
  <2>2. Len(queue) > 1
    BY <1>5, <1>6
  <2>3. pc' = "backtrack"
    BY <2>1, <2>2
  <2>4. TypeOK'
    BY <1>2, <1>3, <1>4, <1>5, <2>1, <2>3 DEF TypeOK
  <2>5. Phases' /\ Trail'
    <3>1. Phases'
      BY <1>3, <1>5, <2>3 DEF Phases
    <3>2. Trail'
      BY <1>2, <1>3, <2>1 DEF Trail, search_conv
    <3> QED
      BY <3>1, <3>2
  <2>6. Backtracking'
    <3>1. Reach'
      BY <1>2, <1>4, <1>5, <1>6 DEF InQueue
    <3>2. PICK q \in 1 .. Len(queue) - 1 : search_conv(queue[q], queue[Len(queue)])
      BY <1>2, <1>5, <2>2 DEF Trail
    <3>3. q \in 1 .. Len(queue) /\ search_conv(queue[q], dest)
      BY <1>5, <1>6, <3>2
    <3>4. (\E p \in 1 .. Len(queue) : search_conv(queue[p], result[Len(result)]))'
      BY <1>3, <2>1, <3>3 DEF search_conv
    <3>5. /\ result'[1] = dest' /\ Len(result') = 1 /\ result' # << >>
          /\ queue' # << >> /\ queue'[Len(queue')] = dest'
      BY <1>1, <1>3, <1>6, <2>1
    <3>6. (\A i \in 1 .. Len(result) - 1 : search_conv(result[i + 1], result[i]))'
      BY <3>5
    <3>7. (\A i, j \in 1 .. Len(result) : result[i] = result[j] => i = j)'
      BY <3>5
    <3> QED
      BY <3>1, <3>4, <3>5, <3>6, <3>7 DEF Backtracking
  <2>7. Looking' /\ Scanning' /\ ResultIsChain' /\ FoundIfAhead'
    BY <2>3 DEF Looking, Scanning, ResultIsChain, FoundIfAhead
  <2> QED
    BY <1>4, <2>4, <2>5, <2>6, <2>7 DEF IInv
<1>7. CASE queue[Len(queue)] # dest
  <2>1. queue' = Front(queue) /\ result' = result /\ pc' = pc
    BY <1>7 DEF ScanTurn
  <2>2. /\ Trail' /\ queue' \in Seq(Types)
        /\ \A t : InQueue(t)' => InQueue(t)
        /\ \A t : InQueue(t) /\ t # queue[Len(queue)] => InQueue(t)'
    BY <1>1, <1>2, <2>1, PopQueue
  <2>3. TypeOK'
    BY <1>2, <1>3, <1>4, <2>1, <2>2 DEF TypeOK
  <2>4. Phases'
    BY <1>1, <1>2, <1>3, <2>1 DEF Phases
  <2>5. Scanning'
    <3>1. \A t : t = dest => (InQueue(t)' <=> InQueue(t))
      BY <1>7, <2>2
    <3>2. InQueue(dest)' <=> InQueue(dest)
      BY <1>3, <3>1 DEF InQueue
    <3> QED
      BY <1>2, <1>4, <3>2 DEF Scanning
  <2>6. Looking' /\ Backtracking' /\ ResultIsChain' /\ FoundIfAhead'
    BY <1>1, <2>1 DEF Looking, Backtracking, ResultIsChain, FoundIfAhead
  <2> QED
    BY <1>4, <2>2, <2>3, <2>4, <2>5, <2>6 DEF IInv
<1> QED
  BY <1>6, <1>7

LEMMA ScanDoneStep ==
  ASSUME IInv, ScanDone
  PROVE  IInv'
<1>1. /\ pc = "scan" /\ queue = << >> /\ pc' = "done"
      /\ UNCHANGED <<graph, visited, queue, result, args, stack>>
  BY DEF ScanDone
<1>2. TypeOK /\ Phases /\ NoLoop /\ Trail /\ (InQueue(dest) <=> Reach)
  BY <1>1 DEF IInv, Scanning
<1>3. /\ types' = types /\ conv' = conv /\ stack' = stack /\ queue' = queue
      /\ src' = src /\ dest' = dest /\ visited' = visited /\ result' = result
  BY <1>1 DEF graph, args
<1>4. /\ Types' = Types /\ NoLoop' /\ (Reach' <=> Reach)
  BY <1>1, <1>2, SameGraph
<1>5. TypeOK'
  BY <1>1, <1>2, <1>3, <1>4 DEF TypeOK
<1>6. Phases' /\ Trail'
  BY <1>1, <1>2, <1>3 DEF Phases, Trail
<1>7. ~InQueue(dest) /\ result' = << >>
  BY <1>1, <1>2, <1>3 DEF InQueue, Phases
<1>8. FoundIfAhead'
  BY <1>2, <1>4, <1>7 DEF FoundIfAhead, Reach
<1>9. Looking' /\ Scanning' /\ Backtracking' /\ ResultIsChain'
  BY <1>1, <1>7 DEF Looking, Scanning, Backtracking, ResultIsChain
<1> QED
  BY <1>4, <1>5, <1>6, <1>8, <1>9 DEF IInv

LEMMA ReturnStep ==
  ASSUME IInv, Return
  PROVE  IInv'
<1>1. /\ pc = "done" /\ pc' = "idle" /\ result' = result
      /\ types' = types /\ conv' = conv /\ visited' = visited
      /\ queue' = queue /\ stack' = stack
  BY DEF Return, graph
<1>2. TypeOK /\ Phases /\ NoLoop
  BY DEF IInv
<1>3. TypeOK'
  BY <1>1, <1>2 DEF TypeOK, Types
<1>4. Phases'
  BY <1>1, <1>2 DEF Phases
<1>5. NoLoop'
  BY <1>1, <1>2 DEF NoLoop, search_conv, Types
<1> QED
  BY <1>1, <1>3, <1>4, <1>5, IdleParts DEF IInv

LEMMA BacktrackStep ==
  ASSUME IInv, backtrack
  PROVE  IInv'
<1>1. /\ pc = "backtrack" /\ queue # << >> /\ queue' = Front(queue)
      /\ UNCHANGED <<graph, visited, pc, args, stack>>
  BY DEF backtrack
<1>2. TypeOK /\ Phases /\ NoLoop /\ Trail
  BY DEF IInv
<1>3. /\ types' = types /\ conv' = conv /\ stack' = stack /\ pc' = "backtrack"
      /\ src' = src /\ dest' = dest /\ visited' = visited
  BY <1>1 DEF graph, args
<1>4. /\ Types' = Types /\ NoLoop' /\ (Reach' <=> Reach)
  BY <1>1, <1>2, SameGraph
<1>5. PICK n, node : n = Len(queue) /\ node = queue[Len(queue)]
  OBVIOUS
<1>6. /\ Trail' /\ queue' \in Seq(Types) /\ n \in Nat \ {0} /\ Len(queue') = n - 1
      /\ \A p \in 1 .. n - 1 : queue'[p] = queue[p]
      /\ node \in Types /\ ~InQueue(node)' /\ (queue' = << >> <=> n = 1)
      /\ \A t : InQueue(t)' => InQueue(t)
  BY <1>1, <1>2, <1>5, PopQueue
<1>7. PICK m, last : m = Len(result) /\ last = result[Len(result)]
  OBVIOUS
<1>8. /\ Reach /\ result # << >> /\ result[1] = dest
      /\ \A i \in 1 .. m - 1 : search_conv(result[i + 1], result[i])
      /\ \A i, j \in 1 .. m : result[i] = result[j] => i = j
      /\ \E q \in 1 .. n : search_conv(queue[q], last)
      /\ \/ m = 1 /\ node = dest
         \/ \A i \in 1 .. m : ~InQueue(result[i])
  BY <1>1, <1>5, <1>7 DEF IInv, Backtracking
<1>9. result \in Seq(Types) /\ m \in Nat \ {0} /\ last \in Types
  BY <1>2, <1>7, <1>8 DEF TypeOK
<1>10. /\ search_conv(node, last) => result' = Append(result, node)
       /\ ~search_conv(node, last) => result' = result
  BY <1>5, <1>7 DEF backtrack
<1>11. Phases'
  <2>1. src # dest /\ stack = << >>
    BY <1>1, <1>2 DEF Phases
  <2> QED
    BY <1>3, <2>1 DEF Phases
<1>12. (Looking /\ Scanning /\ ResultIsChain /\ FoundIfAhead)'
  BY <1>3 DEF Looking, Scanning, ResultIsChain, FoundIfAhead
<1>13. CASE ~search_conv(node, last)
  <2>1. result' = result
    BY <1>10, <1>13
  <2>2. TypeOK'
    BY <1>1, <1>2, <1>3, <1>4, <1>6, <2>1 DEF TypeOK
  <2>3. PICK q \in 1 .. n : search_conv(queue[q], last)
    BY <1>8
  <2>4. q \in 1 .. n - 1 /\ n # 1
    BY <1>5, <1>6, <1>13, <2>3
  <2>5. queue' # << >> /\ \E p \in 1 .. Len(queue') : search_conv(queue'[p], last)
    BY <1>6, <2>3, <2>4
  <2>6. (\A i \in 1 .. Len(result) : ~InQueue(result[i]))'
    <3>1. CASE m = 1 /\ node = dest
      <4>1. result[1] = node
        BY <1>8, <3>1
      <4>2. \A i \in 1 .. m : result[i] = node
        BY <3>1, <4>1
      <4> QED
        BY <1>6, <1>7, <2>1, <4>2 DEF InQueue
    <3>2. CASE \A i \in 1 .. m : ~InQueue(result[i])
      <4>1. \A t : \A i \in 1 .. m : t = result[i] => ~InQueue(t)'
        BY <1>6, <3>2
      <4> QED
        BY <1>7, <2>1, <4>1 DEF InQueue
    <3> QED
      BY <1>8, <3>1, <3>2
  <2>7. Backtracking'
    <3>1. (\A i \in 1 .. Len(result) - 1 : search_conv(result[i + 1], result[i]))'
      BY <1>3, <1>7, <1>8, <2>1 DEF search_conv
    <3>2. (\A i, j \in 1 .. Len(result) : result[i] = result[j] => i = j)'
      BY <1>7, <1>8, <2>1
    <3>3. (\E p \in 1 .. Len(queue) : search_conv(queue[p], result[Len(result)]))'
      BY <1>3, <1>7, <2>1, <2>5 DEF search_conv
    <3>4. Reach' /\ result' # << >> /\ result'[1] = dest' /\ queue' # << >>
      BY <1>3, <1>4, <1>8, <2>1, <2>5
    <3> QED
      BY <2>6, <3>1, <3>2, <3>3, <3>4 DEF Backtracking
  <2> QED
    BY <1>4, <1>6, <1>11, <1>12, <2>2, <2>7 DEF IInv
<1>14. CASE search_conv(node, last)
  <2>1. /\ result' \in Seq(Types) /\ Len(result') = m + 1
        /\ \A i \in 1 .. m : result'[i] = result[i]
        /\ result'[m + 1] = node /\ result' # << >>
    <3>1. result' = Append(result, node)
      BY <1>10, <1>14
    <3>2. /\ Append(result, node) \in Seq(Types)
          /\ Len(Append(result, node)) = Len(result) + 1
          /\ \A i \in 1 .. Len(result) : Append(result, node)[i] = result[i]
          /\ Append(result, node)[Len(result) + 1] = node
          /\ Append(result, node) # << >>
      BY <1>6, <1>9, AppendFacts
    <3> QED
      BY <1>7, <3>1, <3>2, Zenon
  <2>2. TypeOK'
    BY <1>1, <1>2, <1>3, <1>4, <1>6, <2>1 DEF TypeOK
  \* The first turn takes nothing: dest has no conversion to itself.
  <2>3. \A i \in 1 .. m : ~InQueue(result[i])
    <3>1. SUFFICES ASSUME m = 1 /\ node = dest PROVE FALSE
      BY <1>8
    <3>2. last = node
      BY <1>7, <1>8, <3>1
    <3> QED
      BY <1>2, <1>6, <1>14, <3>2 DEF NoLoop
  <2>4. InQueue(node)
    <3>1. n \in 1 .. Len(queue) /\ queue[n] = node
      BY <1>5, <1>6
    <3> QED
      BY <3>1 DEF InQueue
  <2>5. \A i \in 1 .. m : result[i] # node
    BY <2>3, <2>4
  <2>6. \A r \in 1 .. Len(result') : r \in 1 .. m \/ r = m + 1
    BY <1>9, <2>1, UpToNext
  <2>7. (\A i, j \in 1 .. Len(result) : result[i] = result[j] => i = j)'
    <3>1. SUFFICES ASSUME NEW i \in 1 .. Len(result'), NEW j \in 1 .. Len(result'),
                          result'[i] = result'[j]
                   PROVE  i = j
      OBVIOUS
    <3>2. CASE i \in 1 .. m /\ j \in 1 .. m
      BY <1>8, <2>1, <3>1, <3>2
    <3>3. CASE i = m + 1 /\ j \in 1 .. m
      BY <2>1, <2>5, <3>1, <3>3
    <3>4. CASE j = m + 1 /\ i \in 1 .. m
      BY <2>1, <2>5, <3>1, <3>4
    <3> QED
      BY <2>6, <3>1, <3>2, <3>3, <3>4
  <2>8. \A i \in 1 .. m : search_conv(result'[i + 1], result'[i])
    <3>1. SUFFICES ASSUME NEW i \in 1 .. m
                   PROVE  search_conv(result'[i + 1], result'[i])
      OBVIOUS
    <3>2. CASE i = m
      BY <1>7, <1>14, <2>1, <3>1, <3>2
    <3>3. CASE i # m
      <4>1. i \in 1 .. m - 1 /\ i + 1 \in 1 .. m
        BY <1>9, <3>1, <3>3
      <4> QED
        BY <1>8, <2>1, <4>1
    <3> QED
      BY <3>2, <3>3
  <2>9. (\A i \in 1 .. Len(result) - 1 : search_conv(result[i + 1], result[i]))'
    <3>1. Len(result') - 1 = m
      BY <1>9, <2>1
    <3> QED
      BY <1>3, <2>8, <3>1 DEF search_conv
  <2>10. result'[1] = dest' /\ result'[Len(result')] = node /\ Reach'
    BY <1>3, <1>4, <1>8, <1>9, <2>1
  <2>11. ASSUME queue' = << >> PROVE node = src'
    BY <1>2, <1>1, <1>3, <1>5, <1>6, <2>11 DEF Trail
  <2>12. ASSUME queue' # << >>
         PROVE  \E q \in 1 .. Len(queue') : search_conv(queue'[q], node)
    <3>1. n \in 2 .. Len(queue)
      BY <1>5, <1>6, <2>12
    <3>2. PICK q \in 1 .. n - 1 : search_conv(queue[q], queue[n])
      BY <1>2, <3>1 DEF Trail
    <3> QED
      BY <1>5, <1>6, <3>2
  <2>13. (queue # << >> => \E q \in 1 .. Len(queue) : search_conv(queue[q], result[Len(result)]))'
    BY <1>3, <2>10, <2>12 DEF search_conv
  <2>14. (\A i \in 1 .. Len(result) : ~InQueue(result[i]))'
    <3>1. SUFFICES ASSUME NEW i \in 1 .. Len(result'), NEW t, t = result'[i]
                   PROVE  ~InQueue(t)'
      BY DEF InQueue
    <3>2. CASE i \in 1 .. m
      BY <1>6, <2>1, <2>3, <3>1, <3>2
    <3>3. CASE i = m + 1
      BY <1>6, <2>1, <3>1, <3>3
    <3> QED
      BY <2>6, <3>1, <3>2, <3>3
  <2>15. Backtracking'
    BY <2>1, <2>7, <2>9, <2>10, <2>11, <2>13, <2>14 DEF Backtracking
  <2> QED
    BY <1>4, <1>6, <1>11, <1>12, <2>2, <2>15 DEF IInv
<1> QED
  BY <1>13, <1>14

LEMMA BacktrackDoneStep ==
  ASSUME IInv, BacktrackDone
  PROVE  IInv'
<1>1. /\ pc = "backtrack" /\ queue = << >> /\ pc' = "done" /\ result' = Reverse(result)
      /\ UNCHANGED <<graph, visited, queue, args, stack>>
  BY DEF BacktrackDone
<1>2. TypeOK /\ Phases /\ NoLoop /\ Trail
  BY DEF IInv
<1>3. /\ types' = types /\ conv' = conv /\ stack' = stack /\ queue' = queue
      /\ src' = src /\ dest' = dest /\ visited' = visited
  BY <1>1 DEF graph, args
<1>4. /\ Types' = Types /\ NoLoop' /\ (Reach' <=> Reach)
  BY <1>1, <1>2, SameGraph
<1>5. PICK m : m = Len(result)
  OBVIOUS
<1>6. /\ Reach /\ result # << >> /\ result[1] = dest /\ result[m] = src
      /\ \A i \in 1 .. m - 1 : search_conv(result[i + 1], result[i])
      /\ \A i, j \in 1 .. m : result[i] = result[j] => i = j
  BY <1>1, <1>5 DEF IInv, Backtracking
<1>7. result \in Seq(Types) /\ m \in Nat \ {0}
  BY <1>2, <1>5, <1>6 DEF TypeOK
<1>8. /\ result' \in Seq(Types) /\ Len(result') = m
      /\ \A i \in 1 .. m : result'[i] = result[m - i + 1]
  BY <1>1, <1>5, <1>7, ReverseFacts
<1>9. TypeOK'
  BY <1>1, <1>2, <1>3, <1>4, <1>8 DEF TypeOK
<1>10. Phases' /\ Trail'
  BY <1>1, <1>2, <1>3 DEF Phases, Trail
<1>11. result' # << >>
  BY <1>7, <1>8
<1>12. ResultIsChain'
  <2>1. result'[1] = src' /\ result'[Len(result')] = dest'
    <3>1. 1 \in 1 .. m /\ m \in 1 .. m /\ m - 1 + 1 = m /\ m - m + 1 = 1
      BY <1>7
    <3>2. result'[1] = result[m] /\ result'[m] = result[1]
      BY <1>8, <3>1
    <3> QED
      BY <1>3, <1>6, <1>8, <3>2
  <2>2. ASSUME NEW i \in 1 .. m - 1
        PROVE  search_conv(result'[i], result'[i + 1])
    <3>1. PICK k : k = m - i
      OBVIOUS
    <3>2. /\ k \in 1 .. m - 1 /\ m - i + 1 = k + 1 /\ m - (i + 1) + 1 = k
          /\ i \in 1 .. m /\ i + 1 \in 1 .. m
      BY <1>7, <3>1
    <3>3. result'[i] = result[k + 1] /\ result'[i + 1] = result[k]
      BY <1>8, <3>2
    <3> QED
      BY <1>6, <3>2, <3>3
  <2>3. (\A i \in 1 .. Len(result) - 1 : search_conv(result[i], result[i + 1]))'
    BY <1>3, <1>8, <2>2 DEF search_conv
  <2>4. ASSUME NEW i \in 1 .. m, NEW j \in 1 .. m, result'[i] = result'[j]
        PROVE  i = j
    <3>1. PICK p, q : p = m - i + 1 /\ q = m - j + 1
      OBVIOUS
    <3>2. p \in 1 .. m /\ q \in 1 .. m
      BY <1>7, <3>1
    <3>3. result[p] = result[q]
      BY <1>8, <2>4, <3>1
    <3>4. p = q
      BY <1>6, <3>2, <3>3
    <3> QED
      BY <1>7, <3>1, <3>4
  <2> QED
    BY <1>8, <2>1, <2>3, <2>4 DEF ResultIsChain
<1>13. FoundIfAhead'
  BY <1>4, <1>6, <1>11 DEF FoundIfAhead, Reach
<1>14. Looking' /\ Scanning' /\ Backtracking'
  BY <1>1 DEF Looking, Scanning, Backtracking
<1> QED
  BY <1>4, <1>9, <1>10, <1>12, <1>13, <1>14 DEF IInv

-----------------------------------------------------------------------------
(* The theorems.                                                           *)

LEMMA InitIInv == Init => IInv
<1>1. SUFFICES ASSUME Init PROVE IInv
  OBVIOUS
<1>2. /\ types = 0 /\ conv = << >> /\ visited = {} /\ queue = << >> /\ result = << >>
      /\ pc = "idle" /\ stack = << >>
  BY <1>1 DEF Init
<1>3. TypeOK
  BY <1>2 DEF TypeOK, Types
<1>4. Phases /\ NoLoop /\ Trail
  BY <1>2 DEF Phases, NoLoop, Trail, Types
<1>5. Looking /\ Scanning /\ Backtracking /\ ResultIsChain /\ FoundIfAhead
  BY <1>2 DEF Looking, Scanning, Backtracking, ResultIsChain, FoundIfAhead
<1> QED
  BY <1>3, <1>4, <1>5 DEF IInv

LEMMA StutterIInv ==
  ASSUME IInv, UNCHANGED vars
  PROVE  IInv'
<1>1. /\ UNCHANGED graph /\ UNCHANGED args
      /\ types' = types /\ conv' = conv /\ visited' = visited /\ queue' = queue
      /\ result' = result /\ pc' = pc /\ src' = src /\ dest' = dest /\ stack' = stack
  BY DEF vars, graph, args
<1>2. /\ Types' = Types /\ Ahead(src)' = Ahead(src) /\ (NoLoop' <=> NoLoop)
      /\ (Reach' <=> Reach)
  BY <1>1, SameGraph
<1>3. TypeOK'
  BY <1>1, <1>2 DEF IInv, TypeOK
<1>4. Phases'
  BY <1>1 DEF IInv, Phases
<1>5. Trail'
  BY <1>1 DEF IInv, Trail, search_conv
<1>6. Looking'
  <2>1. Marks' <=> Marks
    BY <1>1, <1>2 DEF Marks, InQueue
  <2>2. Frames' <=> Frames
    BY <1>1 DEF Frames
  <2>3. Reached' <=> Reached
    BY <1>1, <1>2 DEF Reached
  <2>4. Closing' <=> Closing
    BY <1>1 DEF Closing, Pending, search_conv
  <2> QED
    BY <1>1, <2>1, <2>2, <2>3, <2>4 DEF IInv, Looking
<1>7. Scanning'
  BY <1>1, <1>2 DEF IInv, Scanning, InQueue
<1>8. Backtracking'
  BY <1>1, <1>2 DEF IInv, Backtracking, InQueue, search_conv
<1>9. ResultIsChain'
  BY <1>1 DEF IInv, ResultIsChain, search_conv
<1>10. FoundIfAhead'
  BY <1>1, <1>2 DEF IInv, FoundIfAhead, Reach
<1> QED
  BY <1>2, <1>3, <1>4, <1>5, <1>6, <1>7, <1>8, <1>9, <1>10 DEF IInv

\* Whatever has been declared and whatever search is under way, the invariant
\* of the phases of bfs holds.
THEOREM SearchInvariant == Spec => []IInv
<1>1. IInv /\ [Next]_vars => IInv'
  <2>1. SUFFICES ASSUME IInv, [Next]_vars PROVE IInv'
    OBVIOUS
  <2>2. CASE add_list
    BY <2>1, <2>2, AddListStep
  <2>3. CASE \E a, b \in Types : add_conv(a, b) \/ bfs(a, b)
    BY <2>1, <2>3, AddConvStep, BfsStep
  <2>4. CASE LookDest
    BY <2>1, <2>4, LookDestStep
  <2>5. CASE LookNext
    BY <2>1, <2>5, LookNextStep
  <2>6. CASE LookReturn
    BY <2>1, <2>6, LookReturnStep
  <2>7. CASE LookDone
    BY <2>1, <2>7, LookDoneStep
  <2>8. CASE ScanTurn
    BY <2>1, <2>8, ScanTurnStep
  <2>9. CASE ScanDone
    BY <2>1, <2>9, ScanDoneStep
  <2>10. CASE backtrack
    BY <2>1, <2>10, BacktrackStep
  <2>11. CASE BacktrackDone
    BY <2>1, <2>11, BacktrackDoneStep
  <2>12. CASE Return
    BY <2>1, <2>12, ReturnStep
  <2>13. CASE UNCHANGED vars
    BY <2>1, <2>13, StutterIInv
  <2> QED
    BY <2>1, <2>2, <2>3, <2>4, <2>5, <2>6, <2>7, <2>8, <2>9, <2>10, <2>11, <2>12,
       <2>13 DEF Next
<1> QED
  BY <1>1, InitIInv, PTL DEF Spec

\* What a search between different types returns is a chain of declared
\* conversions from the type of the file to that of the printer that goes
\* through no type twice; after a search for the same type, what earlier calls
\* left stands in front of it.
THEOREM ChainCorrect == Spec => []ResultIsChain
<1>1. IInv => ResultIsChain
  BY DEF IInv
<1> QED
  BY <1>1, SearchInvariant, PTL

\* A search finds a chain exactly if one exists in which only the last
\* conversion leads to a type declared earlier.
THEOREM FoundCorrect == Spec => []FoundIfAhead
<1>1. IInv => FoundIfAhead
  BY DEF IInv
<1> QED
  BY <1>1, SearchInvariant, PTL

\* Between two searches the queue is empty, which bfs relies on without ever
\* resetting loc.
THEOREM QueueEmptyBetween == Spec => [](pc = "idle" => queue = << >>)
<1>1. IInv => (pc = "idle" => queue = << >>)
  BY DEF IInv, Phases
<1> QED
  BY <1>1, SearchInvariant, PTL
=============================================================================
