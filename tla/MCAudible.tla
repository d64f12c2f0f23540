----------------------------- MODULE MCAudible -----------------------------
(* Small instances of Audible: files of up to eight data bytes. *)
EXTENDS Audible

MCDecOf == [w \in {"0", "1", "2", "3", "33"} |->
                CASE w = "0" -> 0 [] w = "1" -> 1 [] w = "2" -> 2
                  [] w = "3" -> 3 [] OTHER -> 33]
MCHexOf == [w \in {"0", "5", "b"} |-> CASE w = "0" -> 0 [] w = "5" -> 5
                                        [] OTHER -> 11]
MCLenOf == [w \in {"0", "1", "2", "3", "5", "b", "33", "abc", "-p"} |->
                CASE w = "abc" -> 3 [] w \in {"33", "-p"} -> 2 [] OTHER -> 1]

MCArgvs == {
    <<>>, <<"-h", "-u">>, <<"-p">>, <<"-u", "-p", "-f">>, <<"-c", "-k">>,
    <<"-u", "-f", "0">>, <<"-d", "-f", "b">>, <<"-c", "-k", "abc">>,
    <<"-c", "-k", "-p">>, <<"-u", "-f", "33">>,
    <<"-u">>, <<"-u", "-f", "2">>, <<"-u", "-p", "-f", "3">>,
    <<"-d">>, <<"-d", "-f", "2", "-p">>, <<"-d", "-p">>, <<"-d", "-f", "3">>,
    <<"-c", "-k", "5">>, <<"-c", "-k", "b", "-p">>, <<"-c", "-p", "-k", "5">>}

\* Two patterns of samples for each length.
Data == {[k \in 1..n |-> k % 2] : n \in 0..8} \cup
        {[k \in 1..n |-> IF k % 3 = 1 THEN 1 ELSE 0] : n \in 0..8}

\* No annotation, one with text, one that starts with NUL, one without NUL.
Annotations == {<<>>, <<1, 1, 0, 0>>, <<0, 1, 1, 0>>, <<1, 1, 1, 1>>,
                <<1, 0, 1, 0, 1, 0, 0, 0>>}

Hdr(c, m, off, size, enc, ch) ==
    [complete |-> c, magic |-> m, data_offset |-> off, data_size |-> size,
     encoding |-> enc, channels |-> ch]

\* Files whose header counts their data, or more than there is, or less.
Good == {[hdr |-> Hdr(TRUE, TRUE, HEADER + Len(a), s, e, c), rest |-> a \o d] :
            a \in Annotations, d \in Data, s \in {5, 8, WORD - 1},
            e \in 2..5, c \in {1, 2}}
Bad == {[hdr |-> h, rest |-> <<>>] : h \in {
            Hdr(TRUE, FALSE, HEADER, 0, 2, 1), Hdr(TRUE, TRUE, 1, 0, 2, 1),
            Hdr(TRUE, TRUE, 0, 0, 2, 1), Hdr(TRUE, TRUE, HEADER, 0, 6, 1),
            Hdr(TRUE, TRUE, HEADER, 0, 2, 3), Hdr(TRUE, TRUE, HEADER + ALIGN, 0, 2, 1),
            Hdr(TRUE, TRUE, HEADER + 2 * ANNOTATION_MAX, 0, 2, 1),
            NoHeader}}
MCFiles == Good \cup Bad
=============================================================================
