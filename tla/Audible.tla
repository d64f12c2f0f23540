------------------------------ MODULE Audible ------------------------------
(***************************************************************************)
(* audible (src/audible/src): recodes a Sun audio file from stdin to       *)
(* stdout.  validargs reads the command line, recode reads the header and  *)
(* the annotation, writes both anew, and then treats the samples frame by  *)
(* frame: -u drops frames, -d adds interpolated ones, -c exclusive-ors     *)
(* them with a random stream that the key seeds.                           *)
(*                                                                         *)
(* The program is run twice with one command line, the second time on the  *)
(* file the first run wrote, since that is how a file is decrypted.        *)
(*                                                                         *)
(* A byte is abstracted to one bit: 0 stands for NUL in an annotation and  *)
(* for a clear bit in a sample.  Unknown is a byte of which the model      *)
(* says nothing: an interpolated one, or one an overrun has overwritten.   *)
(***************************************************************************)
EXTENDS Integers, Sequences, SequencesExt, FiniteSetsExt

CONSTANTS
    Files,          \* the files on stdin: records [hdr, rest]
    Argvs,          \* the command lines, without argv[0]: sequences of words
    CmdLens,        \* the lengths of a joined command line, with its newline
    DecOf, HexOf,   \* the number a word spells in decimal, in hexadecimal
    LenOf,          \* the length of a word
    MAX_DIGITS,     \* of a key: 8 in the code
    ALIGN,          \* 8 in the code
    HEADER,         \* sizeof(AUDIO_HEADER): 24 in the code
    ANNOTATION_MAX, \* 1024 in the code
    FACTOR_MAX,     \* 1024 in the code
    WORD,           \* 2^32 in the code
    MULT, INC, MOD  \* of the generator in myrand.c

ASSUME SizesAssumption ==
    /\ ALIGN \in Nat \ {0}
    /\ HEADER \in Nat /\ HEADER % ALIGN = 0
    /\ ANNOTATION_MAX \in Nat /\ WORD \in Nat /\ ANNOTATION_MAX < WORD

ASSUME CmdLensAssumption == CmdLens \subseteq Nat
ASSUME DecOfAssumption == \A w \in DOMAIN DecOf : DecOf[w] \in Nat
ASSUME HexOfAssumption == \A w \in DOMAIN HexOf : HexOf[w] \in Nat
ASSUME GeneratorAssumption == MULT \in Nat /\ INC \in Nat /\ MOD \in Nat /\ MOD >= 2

VARIABLES
    stdin,          \* what this run has not read yet: [hdr, rest]
    argv, cmdlen,   \* the command line
    opts,           \* global_options
    pass,           \* 1 or 2: which run of the program
    pc, status,     \* where recode is, and the exit status
    hp, ann,        \* the header and input_annotation
    frame,          \* input_frame, four bytes with the highest first
    i,              \* the loop counter
    next,           \* the generator's state
    noerror,
    out,            \* what has been written: [hdr, rest]
    lost,           \* ghost: a write to stdout has failed, and out is not all
                    \* that the program took for written
    orig            \* the file the first run was given

vars == <<stdin, argv, cmdlen, opts, pass, pc, status, hp, ann, frame, i,
          next, noerror, out, lost, orig>>

Unknown == 2
NoHeader == [complete |-> FALSE]
NoFile == [hdr |-> NoHeader, rest |-> <<>>]

\* The 24 bytes of the header are there, or they are not.
Headers ==
    {NoHeader} \cup [complete : {TRUE}, magic : BOOLEAN, data_offset : Nat,
                     data_size : Nat, encoding : Nat, channels : Nat]

ASSUME FilesAssumption == Files \subseteq [hdr : Headers, rest : Seq({0, 1})]
NoOptions == [mode |-> "none", p |-> FALSE, factor |-> 0, key |-> 0]

-----------------------------------------------------------------------------
(* The command line *)

\* decStrToDec: -1 for what is no decimal number; an int that wraps.
decStrToDec(w) ==
    IF w \in DOMAIN DecOf
    THEN ((DecOf[w] + WORD \div 2) % WORD) - WORD \div 2
    ELSE -1

\* factor: the factor less one goes into its bits, or everything is cleared.
factor(o, w) ==
    LET n == decStrToDec(w)
    IN  IF n > 0 /\ n < FACTOR_MAX + 1
        THEN [ok |-> TRUE, o |-> [o EXCEPT !.factor = n - 1]]
        ELSE [ok |-> FALSE, o |-> NoOptions]

\* key (isHex, hexStrToDec, stringLength).
key(o, w) ==
    IF LenOf[w] > MAX_DIGITS \/ w \notin DOMAIN HexOf
    THEN [ok |-> FALSE, o |-> NoOptions]
    ELSE [ok |-> TRUE, o |-> [o EXCEPT !.key = HexOf[w]]]

\* speed and crypt differ in the flag, in what reads its value, and in that
\* -p may come alone after -u and -d.
speed(o, a) ==
    LET po == [o EXCEPT !.p = TRUE]
    IN  CASE Len(a) = 2 /\ a[2] = "-p" -> [ok |-> TRUE, o |-> po]
          [] Len(a) = 3 /\ a[2] = "-f" -> factor(o, a[3])
          [] Len(a) = 4 /\ a[2] = "-p" /\ a[3] = "-f" -> factor(po, a[4])
          [] Len(a) = 4 /\ a[4] = "-p" /\ a[2] = "-f" -> factor(po, a[3])
          [] OTHER -> [ok |-> FALSE, o |-> o]

crypt(o, a) ==
    LET po == [o EXCEPT !.p = TRUE]
    IN  CASE Len(a) = 3 /\ a[2] = "-k" -> key(o, a[3])
          [] Len(a) = 4 /\ a[2] = "-p" /\ a[3] = "-k" -> key(po, a[4])
          [] Len(a) = 4 /\ a[4] = "-p" /\ a[2] = "-k" -> key(po, a[3])
          [] OTHER -> [ok |-> FALSE, o |-> o]

validargs(a) ==
    LET Mode(m) == [NoOptions EXCEPT !.mode = m]
    IN  CASE a = <<>> -> [ok |-> FALSE, o |-> NoOptions]
          [] a # <<>> /\ a[1] = "-h" -> [ok |-> TRUE, o |-> Mode("h")]
          [] a # <<>> /\ a[1] \in {"-u", "-d"} ->
                LET o == Mode(IF a[1] = "-u" THEN "u" ELSE "d")
                IN  IF Len(a) = 1 THEN [ok |-> TRUE, o |-> o] ELSE speed(o, a)
          [] a # <<>> /\ a[1] = "-c" -> crypt(Mode("c"), a)
          [] OTHER -> [ok |-> FALSE, o |-> NoOptions]

-----------------------------------------------------------------------------
(* Frames: an int of four bytes *)

Zeros(n) == [k \in 1..n |-> 0]

\* What read_frame leaves in a frame that held f when it has read s.
ShiftIn(f, s) == SubSeq(f \o s, Len(s) + 1, Len(s) + 4)

\* read_frame: up to n bytes are shifted in; ok only if there were n.
read_frame(f, n) ==
    LET got == SubSeq(stdin.rest, 1, Min({n, Len(stdin.rest)}))
    IN  [ok |-> Len(got) = n, frame |-> ShiftIn(f, got),
         rest |-> SubSeq(stdin.rest, Len(got) + 1, Len(stdin.rest))]

write_frameLittle(f, n) == [k \in 1..n |-> f[4 - ((k - 1) % 4)]]

\* write_frame: n bytes, the highest first.  A shift by 32 or more is
\* undefined; the build's shift instruction takes the count modulo 32.
write_frame(f, n) == [k \in 1..n |-> f[4 - ((n - k) % 4)]]

\* The four calls of myrand by myrand32: the state after k of them.
Seeds(s) ==
    LET Step(x) == (x * MULT + INC) % MOD
    IN  <<Step(s), Step(Step(s)), Step(Step(Step(s))),
          Step(Step(Step(Step(s))))>>

\* myrand32: of each number the most significant bits.
myrand32(s) == [k \in 1..4 |-> Seeds(s)[k] \div (MOD \div 2)]

Mask(r, n) == [k \in 1..4 |-> IF k > 4 - n THEN r[k] ELSE 0]
ShiftUp(r, n) == [k \in 1..4 |-> IF k + n <= 4 THEN r[k + n] ELSE 0]
Or(r, s) == [k \in 1..4 |-> Max({r[k], s[k]})]
Xor(r, s) == [k \in 1..4 |-> (r[k] + s[k]) % 2]

\* One random number for each channel, masked to a sample's width.  With
\* two channels the first is shifted so that it starts at the int's top.
Pad(s, encoding, channels) ==
    LET one == Mask(myrand32(s), encoding - 1)
        two == Mask(myrand32(Seeds(s)[4]), encoding - 1)
    IN  IF channels = 2 THEN Or(ShiftUp(one, 5 - encoding), two) ELSE one

FrameSize(h) == h.channels * (h.encoding - 1)
Factor == opts.factor + 1

-----------------------------------------------------------------------------
(* recode *)

\* read_header's own checks, after 24 bytes have been read.
HeaderOK(h) ==
    /\ h.complete
    /\ h.magic
    /\ h.data_offset % ALIGN = 0
    /\ h.encoding \in 2..5
    /\ h.channels \in {1, 2}

\* The size of the annotation, unsigned, and recode's check of it.
AnnotationSize(h) == (h.data_offset - HEADER) % WORD
SizeOK(h) ==
    /\ AnnotationSize(h) % ALIGN = 0
    /\ AnnotationSize(h) <= ANNOTATION_MAX

\* read_annotation: all of it is there, and its last byte is NUL.
AnnotationOK(s, size) ==
    /\ size <= ANNOTATION_MAX - 1
    /\ size > 0 => (Len(s) >= size /\ s[size] = 0)

Accepts(f) ==
    /\ HeaderOK(f.hdr)
    /\ SizeOK(f.hdr)
    /\ AnnotationOK(f.rest, AnnotationSize(f.hdr))

\* Data as read_header's caller finds it: behind the annotation.
DataOf(f) == SubSeq(f.rest, AnnotationSize(f.hdr) + 1, Len(f.rest))

\* The header's new data_size.
NewSize(h) ==
    CASE opts.mode = "u" -> ((h.data_size \div FrameSize(h) + 1) * Factor) % WORD
      [] opts.mode = "d" ->
            (((h.data_size \div Factor - 1) % WORD) * FrameSize(h)) % WORD
      [] OTHER -> h.data_size

\* The annotation up to its first NUL, as prepending copies it.
Text(a) ==
    SubSeq(a, 1, Min({k - 1 : k \in {j \in 1..Len(a) : a[j] = 0}} \cup {Len(a)}))

Padded(n) == n + ((-n) % ALIGN)

prependingWhole(a) ==
    LET size == Padded(Len(a) + cmdlen)
        text == [k \in 1..cmdlen |-> 1] \o a
    IN  text \o [k \in 1..(size - Len(text)) |-> 1]

\* prepending: the command line, then the old text.  What is written of
\* output_annotation is as long as both fields together, padded; the bytes
\* behind the text are those of a zeroed global.
prepending(a) ==
    LET size == Padded(Len(a) + cmdlen)
        text == [k \in 1..cmdlen |-> 1] \o Text(a)
    IN  text \o Zeros(size - Len(text))

\* The arrays are written or read past their end: output_annotation by
\* prepending or by write_annotation, input_annotation by the padding loop.
Overrun(a) ==
    LET size == Padded(Len(a) + cmdlen)
    IN  \/ cmdlen + Len(Text(a)) + 1 > ANNOTATION_MAX
        \/ size > ANNOTATION_MAX
        \/ size = ANNOTATION_MAX /\ (Len(a) + cmdlen) % ALIGN # 0

-----------------------------------------------------------------------------
Init ==
    /\ stdin \in Files
    /\ argv \in Argvs
    /\ cmdlen \in CmdLens
    /\ orig = stdin
    /\ opts = NoOptions
    /\ pass = 1
    /\ pc = "args"
    /\ status = 0
    /\ hp = NoHeader
    /\ ann = <<>>
    /\ frame = Zeros(4)
    /\ i = 0
    /\ next = 1
    /\ noerror = TRUE
    /\ out = NoFile
    /\ lost = FALSE

Exit(st) == pc' = "done" /\ status' = st

\* main: usage errors and -h end here.
main ==
    /\ pc = "args"
    /\ LET v == validargs(argv)
       IN  /\ opts' = v.o
           /\ \/ ~v.ok /\ Exit(1)
              \/ v.ok /\ v.o.mode = "h" /\ Exit(0)
              \/ v.ok /\ v.o.mode # "h" /\ pc' = "header" /\ UNCHANGED status
    /\ UNCHANGED <<stdin, argv, cmdlen, pass, hp, ann, frame, i, next,
                   noerror, out, lost, orig>>

\* recode up to the first test of noerror.
ReadHead ==
    /\ pc = "header"
    /\ \/ /\ ~Accepts(stdin)
          /\ Exit(1)
          /\ UNCHANGED <<hp, ann, stdin>>
       \/ /\ Accepts(stdin)
          /\ hp' = stdin.hdr
          /\ ann' = SubSeq(stdin.rest, 1, AnnotationSize(stdin.hdr))
          /\ stdin' = [stdin EXCEPT !.rest = DataOf(stdin)]
          /\ pc' = "write"
          /\ UNCHANGED status
    /\ UNCHANGED <<argv, cmdlen, opts, pass, frame, i, next, noerror, out, lost,
                   orig>>

\* The header and the annotation are written.  What happens after an overrun
\* is not in the model; a command line longer than the limit has overrun too.
\* A header that cannot be written ends recode; that the annotation cannot,
\* write_annotation does not notice.
WriteHead ==
    /\ pc = "write"
    /\ \/ /\ ~opts.p /\ Overrun(ann)
          /\ pc' = "undefined"
          /\ UNCHANGED <<hp, out, next, status, lost>>
       \/ /\ opts.p \/ ~Overrun(ann)
          /\ LET a == IF opts.p THEN ann ELSE prepending(ann)
                 h == [hp EXCEPT !.data_size = NewSize(hp),
                                 !.data_offset = HEADER + Len(a)]
             IN  /\ hp' = h
                 /\ \/ /\ out' = [hdr |-> h, rest |-> a]
                       /\ next' = IF opts.mode = "c" THEN opts.key % MOD ELSE next
                       /\ pc' = IF opts.mode = "d" THEN "first" ELSE "frames"
                       /\ \/ UNCHANGED lost
                          \/ a # <<>> /\ lost' = TRUE
                       /\ UNCHANGED status
                    \/ /\ Exit(1)
                       /\ lost' = TRUE
                       /\ UNCHANGED <<out, next>>
    /\ i' = 0
    /\ UNCHANGED <<stdin, argv, cmdlen, opts, pass, ann, frame, noerror, orig>>

\* What a frame's write_frame does to noerror and to the output, ok being what
\* its read_frame did to noerror.  Behind a byte that was lost nothing more is
\* said of the output.
Emit(s, ok) ==
    \/ /\ out' = IF lost THEN out ELSE [out EXCEPT !.rest = @ \o s]
       /\ noerror' = (noerror /\ ok)
       /\ UNCHANGED lost
    \/ /\ s # <<>>
       /\ lost' = TRUE
       /\ noerror' = FALSE
       /\ UNCHANGED out

\* How often the loop over frames runs.  It does not look at the end of stdin.
Rounds ==
    CASE opts.mode = "u" -> hp.data_size \div Factor
      [] opts.mode = "d" -> hp.data_size \div (Factor * (hp.encoding + 1))
      [] OTHER -> hp.data_size \div FrameSize(hp)

\* -u: what read_frame returns is ignored, so that the frame may be stale.
SpeedUp ==
    /\ pc = "frames" /\ opts.mode = "u" /\ i < Rounds
    /\ LET r == read_frame(frame, FrameSize(hp))
       IN  /\ frame' = r.frame
           /\ stdin' = [stdin EXCEPT !.rest = r.rest]
           /\ Emit(IF i % Factor = 0 THEN write_frame(r.frame, FrameSize(hp))
                                     ELSE <<>>, TRUE)
    /\ i' = i + 1
    /\ UNCHANGED <<argv, cmdlen, opts, pass, pc, status, hp, ann, next, orig>>

\* -d: the first frame is read with the factor as its bytes per sample.
SlowDownFirst ==
    /\ pc = "first"
    /\ LET r == read_frame(frame, hp.channels * Factor)
       IN  /\ frame' = r.frame
           /\ stdin' = [stdin EXCEPT !.rest = r.rest]
           /\ Emit(write_frame(r.frame, hp.channels * Factor), TRUE)
    /\ pc' = "frames"
    /\ UNCHANGED <<argv, cmdlen, opts, pass, status, hp, ann, i, next, orig>>

\* -d: one interpolated frame, whose value is abstracted, then the frame read.
\* copyFrame writes 32 bytes over the three frames of 8: what it leaves in
\* input_frame is unknown.
SlowDown ==
    /\ pc = "frames" /\ opts.mode = "d" /\ i < Rounds
    /\ LET unknown(n) == [k \in 1..n |-> Unknown]
           r == read_frame(unknown(4), FrameSize(hp))
       IN  /\ frame' = r.frame
           /\ stdin' = [stdin EXCEPT !.rest = r.rest]
           /\ Emit(unknown(FrameSize(hp)) \o write_frame(r.frame, FrameSize(hp)),
                   r.ok)
    /\ i' = i + 1
    /\ UNCHANGED <<argv, cmdlen, opts, pass, pc, status, hp, ann, next, orig>>

\* -c: the random stream advances by one number for each channel.
Crypt ==
    /\ pc = "frames" /\ opts.mode = "c" /\ i < Rounds
    /\ LET r == read_frame(frame, FrameSize(hp))
           w == Xor(Pad(next, hp.encoding, hp.channels), r.frame)
       IN  /\ frame' = r.frame
           /\ stdin' = [stdin EXCEPT !.rest = r.rest]
           /\ Emit(write_frame(w, FrameSize(hp)), TRUE)
    /\ next' = IF hp.channels = 2 THEN Seeds(Seeds(next)[4])[4] ELSE Seeds(next)[4]
    /\ i' = i + 1
    /\ UNCHANGED <<argv, cmdlen, opts, pass, pc, status, hp, ann, orig>>

\* What is still in stdout's buffer is written when main has returned: that
\* this fails no longer changes the exit status.
Finish ==
    /\ pc = "frames" /\ i >= Rounds
    /\ Exit(IF noerror THEN 0 ELSE 1)
    /\ UNCHANGED lost \/ lost' = TRUE
    /\ UNCHANGED <<stdin, argv, cmdlen, opts, pass, hp, ann, frame, i, next,
                   noerror, out, orig>>

\* The program is started again on what it has written, if all of that is in
\* the file.
Again ==
    /\ pc = "done" /\ status = 0 /\ pass = 1 /\ opts.mode # "h" /\ ~lost
    /\ pass' = 2
    /\ stdin' = out
    /\ opts' = NoOptions /\ pc' = "args" /\ hp' = NoHeader /\ ann' = <<>>
    /\ frame' = Zeros(4) /\ i' = 0 /\ next' = 1 /\ noerror' = TRUE
    /\ out' = NoFile
    /\ UNCHANGED <<argv, cmdlen, status, lost, orig>>

Next ==
    \/ main
    \/ ReadHead
    \/ WriteHead
    \/ SpeedUp
    \/ SlowDownFirst
    \/ SlowDown
    \/ Crypt
    \/ Finish
    \/ Again

Spec == Init /\ [][Next]_vars

-----------------------------------------------------------------------------
\* A run that is over and has lost nothing of what it wrote.
Ended == pc = "done" /\ out.hdr.complete /\ ~lost

\* The input's data, cut to the bytes of whole frames that the header counts.
Whole(f) ==
    LET n == Min({f.hdr.data_size, Len(DataOf(f))}) \div FrameSize(f.hdr)
    IN  SubSeq(DataOf(f), 1, n * FrameSize(f.hdr))

\* Encrypting twice with one key gives back every whole frame, also of a
\* truncated file and one with a trailing partial frame, if a frame fits into
\* an int.  (A frame of 6 or 8 bytes does not: its first bytes are lost.)
CryptRestores ==
    (Ended /\ pass = 2 /\ opts.mode = "c" /\ FrameSize(hp) <= 4)
        => IsPrefix(Whole(orig), DataOf(out))

\* -u writes the frames 0, f, 2f, ... of the input, unaltered and in order,
\* whatever it writes behind them, unless the new size has wrapped around.
SpeedUpPicks ==
    (Ended /\ pass = 1 /\ opts.mode = "u" /\ FrameSize(hp) <= 4
           /\ (orig.hdr.data_size \div FrameSize(hp) + 1) * Factor < WORD)
        => LET F == FrameSize(hp)
               n == Len(Whole(orig)) \div F
               Frame(s, k) == SubSeq(s, k * F + 1, (k + 1) * F)
           IN  \A k \in 0..(n - 1) : k % Factor = 0 =>
                   Frame(DataOf(out), k \div Factor) = Frame(DataOf(orig), k)

\* -d that ends without an error has written exactly this: the input's first
\* bytes, as many for each channel as the factor says, and behind them n times
\* one interpolated frame, whatever the factor is, and one frame of the input.
\* The n frames are the input's next ones, unaltered and in order; n comes
\* from the sizes in the header alone, and what the input holds behind them is
\* dropped.
SlowDownKeeps ==
    (Ended /\ pass = 1 /\ opts.mode = "d" /\ status = 0 /\ FrameSize(hp) <= 4
           /\ hp.channels * Factor <= Min({4, Len(DataOf(orig))}))
        => LET F == FrameSize(hp)
               first == hp.channels * Factor
               size == (((orig.hdr.data_size \div Factor - 1) % WORD) * F) % WORD
               n == size \div (Factor * (orig.hdr.encoding + 1))
           IN  /\ Len(DataOf(out)) = first + n * (2 * F)
               /\ first + n * F <= Len(DataOf(orig))
               /\ \A k \in 1..first : DataOf(out)[k] = DataOf(orig)[k]
               /\ \A k \in 0..(n - 1) : \A j \in 1..F :
                      DataOf(out)[first + k * (2 * F) + F + j]
                        = DataOf(orig)[first + k * F + j]

\* What recode does to the samples, unless stdout fails: -c is undone by a
\* second run, -u picks, -d keeps some; read_frame, write_frame and the loops
\* agree on what a frame is.
SamplesKept == CryptRestores /\ SpeedUpPicks /\ SlowDownKeeps

\* The program accepts every file it has written itself, but for two cases:
\* the input had no annotation and the command line fills the new one to its
\* last byte, so that it has no NUL; or the new annotation has exactly
\* ANNOTATION_MAX bytes, which read_annotation refuses.
Readable ==
    (pass = 2 /\ pc = "done" /\ ~out.hdr.complete /\ ~lost)
        => /\ ~opts.p
           /\ \/ AnnotationSize(orig.hdr) = 0 /\ cmdlen % ALIGN = 0
              \/ AnnotationSize(orig.hdr) + cmdlen = ANNOTATION_MAX
=============================================================================
