---------------------------- MODULE SpoolerPath -----------------------------
(***************************************************************************)
(* The search for a chain of conversions (Printer Spooler/src/list.c): the *)
(* list of file types, the list of conversions of each, and a call of bfs, *)
(* with one step per turn of the loops of look, bfs and backtrack.  A type *)
(* is its position in the list of types.  The arrays queue and result are  *)
(* the sequences of their elements up to loc and res_loc.                  *)
(***************************************************************************)
EXTENDS Integers, Sequences, SequencesExt

CONSTANTS MaxTypes,   \* bound: file types
          MaxConvs,   \* bound: conversions, of all types
          ResultSize  \* the size of result, 128; a write past it is not modelled

VARIABLES types,    \* the length of the list of types
          conv,     \* conv[t]: the conversions of t, their dest, in list order
          visited,  \* the types whose visited flag is set
          queue,    \* queue[0 .. loc]; bfs does not empty it
          result,   \* result[0 .. res_loc], kept between calls
          pc,       \* where the call of bfs is: "idle" between calls
          src, dest,  \* its arguments, 0 between calls
          stack     \* the calls of look under way, each its node and the
                    \* position of temp in the conversions of the node

graph == <<types, conv>>
args == <<src, dest>>
vars == <<graph, visited, queue, result, pc, args, stack>>

Types == 1 .. types

Init ==
  /\ types = 0 /\ conv = << >>
  /\ visited = {} /\ queue = << >> /\ result = << >>
  /\ pc = "idle" /\ src = 0 /\ dest = 0
  /\ stack = << >>

add_list ==
  /\ pc = "idle" /\ types < MaxTypes
  /\ types' = types + 1
  /\ conv' = Append(conv, << >>)
  /\ UNCHANGED <<visited, queue, result, pc, args, stack>>

search_conv(t, d) == \E i \in 1 .. Len(conv[t]) : conv[t][i] = d

add_conv(a, b) ==
  /\ pc = "idle" /\ Len(FlattenSeq(conv)) < MaxConvs
  /\ a # b
  /\ ~search_conv(a, b)
  /\ conv' = [conv EXCEPT ![a] = Append(@, b)]
  /\ UNCHANGED <<types, visited, queue, result, pc, args, stack>>

-----------------------------------------------------------------------------
\* What a call look(head, node, d) does before it calls look itself, with the
\* flags of seen set and the calls of callers under way.
look(node, d, seen, callers) ==
  IF node \in seen
  THEN visited' = seen /\ stack' = callers /\ UNCHANGED queue
  ELSE /\ visited' = seen \cup {node}
       /\ queue' = Append(queue, node)
       /\ stack' = IF node = d THEN callers ELSE Append(callers, <<node, 1>>)

\* The types whose flag is set when reset_visited has returned.
reset_visited == {}

\* Variant: the flags of the previous search are not reset.
bfsNoReset(a, b) ==
  /\ pc = "idle"
  /\ src' = a /\ dest' = b
  /\ IF a = b
     THEN /\ Len(result) < ResultSize
          /\ result' = Append(result, a)
          /\ pc' = "done"
          /\ UNCHANGED <<visited, queue, stack>>
     ELSE result' = << >> /\ pc' = "look" /\ look(a, b, visited, << >>)
  /\ UNCHANGED graph

\* The call, up to the first turn of a loop.  For one type and the same type
\* nothing is searched for, and res_loc is not reset: the type is appended to
\* what earlier calls have left.
bfs(a, b) ==
  /\ pc = "idle"
  /\ src' = a /\ dest' = b
  /\ IF a = b
     THEN /\ Len(result) < ResultSize
          /\ result' = Append(result, a)
          /\ pc' = "done"
          /\ UNCHANGED <<visited, queue, stack>>
     ELSE result' = << >> /\ pc' = "look" /\ look(a, b, reset_visited, << >>)
  /\ UNCHANGED graph

Top == stack[Len(stack)]
Callers == Front(stack)

\* The last call of look finds a conversion to dest: it looks at dest and
\* returns.
LookDest ==
  /\ pc = "look" /\ stack # << >>
  /\ search_conv(Top[1], dest)
  /\ look(dest, dest, visited, Callers)
  /\ UNCHANGED <<graph, result, pc, args>>

\* One turn of its loop: the next neighbour is searched for in the part of the
\* list that starts at the node, and not found if it was declared before it.
LookNext ==
  /\ pc = "look" /\ stack # << >>
  /\ ~search_conv(Top[1], dest)
  /\ Top[2] <= Len(conv[Top[1]])
  /\ LET node == Top[1]
         next == conv[node][Top[2]]
         turned == Append(Callers, <<node, Top[2] + 1>>)
     IN IF next < node
        THEN stack' = turned /\ UNCHANGED <<visited, queue>>
        ELSE look(next, dest, visited, turned)
  /\ UNCHANGED <<graph, result, pc, args>>

LookReturn ==
  /\ pc = "look" /\ stack # << >>
  /\ ~search_conv(Top[1], dest)
  /\ Top[2] > Len(conv[Top[1]])
  /\ stack' = Callers
  /\ UNCHANGED <<graph, visited, queue, result, pc, args>>

LookDone ==
  /\ pc = "look" /\ stack = << >>
  /\ pc' = "scan"
  /\ UNCHANGED <<graph, visited, queue, result, args, stack>>

-----------------------------------------------------------------------------
\* One turn of the loop of bfs that looks for dest in queue, from its end.
ScanTurn ==
  /\ pc = "scan" /\ queue # << >>
  /\ IF queue[Len(queue)] = dest
     THEN /\ result' = <<dest>>
          /\ pc' = IF Len(queue) > 1 THEN "backtrack" ELSE "done"
          /\ UNCHANGED queue
     ELSE queue' = Front(queue) /\ UNCHANGED <<result, pc>>
  /\ UNCHANGED <<graph, visited, args, stack>>

ScanDone ==
  /\ pc = "scan" /\ queue = << >>
  /\ pc' = "done"
  /\ UNCHANGED <<graph, visited, queue, result, args, stack>>

\* Variant: every node is taken.
TakeAll ==
  /\ pc = "backtrack" /\ queue # << >>
  /\ result' = Append(result, queue[Len(queue)])
  /\ queue' = Front(queue)
  /\ UNCHANGED <<graph, visited, pc, args, stack>>

\* One turn of the loop of backtrack: the node at loc is taken if it has a
\* conversion to the last one taken.
backtrack ==
  /\ pc = "backtrack" /\ queue # << >>
  /\ LET node == queue[Len(queue)] IN
     result' = IF search_conv(node, result[Len(result)])
               THEN Append(result, node) ELSE result
  /\ queue' = Front(queue)
  /\ UNCHANGED <<graph, visited, pc, args, stack>>

\* The chain found is reversed.
BacktrackDone ==
  /\ pc = "backtrack" /\ queue = << >>
  /\ result' = Reverse(result)
  /\ pc' = "done"
  /\ UNCHANGED <<graph, visited, queue, args, stack>>

\* bfs returns to find_bfs, which asks whether result is empty and no more.
Return ==
  /\ pc = "done"
  /\ pc' = "idle" /\ src' = 0 /\ dest' = 0
  /\ UNCHANGED <<graph, visited, queue, result, stack>>

Next ==
  \/ add_list
  \/ \E a, b \in Types : add_conv(a, b) \/ bfs(a, b)
  \/ LookDest \/ LookNext \/ LookReturn \/ LookDone
  \/ ScanTurn \/ ScanDone \/ backtrack \/ BacktrackDone
  \/ Return

Spec == Init /\ [][Next]_vars

-----------------------------------------------------------------------------
(* Properties.                                                             *)

\* Between different types, a result is a chain of declared conversions from
\* the type of the file to that of the printer, without detours: what a pipeline
\* can be made of, although the queue it is taken from also holds the dead ends.
\* For one type and the same type only its last entry is this call's: in front
\* of it stands what earlier calls left, so result with size res_loc is no path.
ResultIsChain ==
  pc = "done" /\ result # << >> =>
    /\ result[Len(result)] = dest
    /\ src # dest =>
         /\ result[1] = src
         /\ \A i \in 1 .. Len(result) - 1 : search_conv(result[i], result[i + 1])
         /\ \A i, j \in 1 .. Len(result) : result[i] = result[j] => i = j

\* The types that can be reached through types declared later and later.
Ahead(s) ==
  {t \in Types : \A S \in SUBSET Types :
     s \in S /\ (\A a \in S, b \in Types :
                   search_conv(a, b) /\ a < b => b \in S)
       => t \in S}

\* A chain is found exactly if one exists in which only the last conversion
\* leads to a type declared earlier: the test that module Spooler uses.
FoundIfAhead ==
  pc = "done" /\ src # dest =>
    (result # << >> <=> \E t \in Ahead(src) : search_conv(t, dest))
=============================================================================
