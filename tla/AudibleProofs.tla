--------------------------- MODULE AudibleProofs ---------------------------
(***************************************************************************)
(* Proof that audible reads back every file it has written (Readable), for *)
(* all files, command lines and sizes of the annotation, with the two      *)
(* exceptions the property names, and that the samples survive recode      *)
(* (SamplesKept).                                                          *)
(*                                                                         *)
(* IInv follows one file through two runs of the program: what recode has  *)
(* read of it, what it has written, and that a written file is acceptable  *)
(* from the moment its header and annotation are out, whatever frames are  *)
(* appended.                                                               *)
(*                                                                         *)
(* DInv adds to IInv what the loops over frames have read and written: how *)
(* far stdin has been read, and for every frame read whole which bytes of  *)
(* the output it has become.  For -c it also names the random numbers of   *)
(* the first run, because the second run restores a frame only if it draws *)
(* the same ones.                                                          *)
(***************************************************************************)
EXTENDS Audible, WellFoundedInduction, TLAPS

\* A sequence, whatever its elements.
IsSeq(s) == Len(s) \in Nat /\ s = [k \in 1 .. Len(s) |-> s[k]]

\* A header that is there, whatever its other fields.
Fields == {"complete", "magic", "data_offset", "data_size", "encoding", "channels"}
IsHeader(h) ==
    /\ h = [x \in Fields |-> h[x]]
    /\ h.complete /\ h.data_offset \in Nat

IsFile(f) == f = [hdr |-> f.hdr, rest |-> f.rest] /\ IsSeq(f.rest)

\* The two cases in which a written file is refused.
Excepted ==
    /\ ~validargs(argv).o.p
    /\ \/ AnnotationSize(orig.hdr) = 0 /\ cmdlen % ALIGN = 0
       \/ AnnotationSize(orig.hdr) + cmdlen = ANNOTATION_MAX

\* A file the program may be given again.
Reusable(f) == IsFile(f) /\ IsHeader(f.hdr) /\ (Accepts(f) \/ Excepted)

\* The statements of recode behind the writing of the header.
Late == {"first", "frames"}

\* The command line is read alike by both runs.
Options ==
    /\ argv \in Argvs
    /\ pc # "args" => opts = validargs(argv).o
    /\ pc \notin {"args", "done"} => validargs(argv).ok /\ opts.mode # "h"
    /\ pc = "done" /\ status = 0 => validargs(argv).ok
    /\ pass = 2 => validargs(argv).ok /\ validargs(argv).o.mode # "h"

\* The input: the original file first, what was written of it then.
Input ==
    /\ pass \in {1, 2} /\ orig \in Files /\ cmdlen \in Nat
    /\ pass = 1 /\ pc \in {"args", "header"} => stdin = orig
    /\ pass = 2 /\ pc \in {"args", "header"} => Reusable(stdin)
    /\ pc = "write" => IsHeader(hp) /\ HeaderOK(hp) /\ IsSeq(ann)
    /\ pass = 1 /\ pc = "write" =>
         /\ Accepts(orig) /\ hp = orig.hdr
         /\ ann = SubSeq(orig.rest, 1, AnnotationSize(orig.hdr))

\* The output, from the header on.
Output ==
    /\ pc \in Late => /\ hp.encoding \in 2 .. 5 /\ hp.channels \in {1, 2}
                     /\ IsFile(out) /\ IsHeader(out.hdr)
    /\ pass = 1 /\ pc \in Late => Reusable(out)
    /\ pass = 1 /\ pc = "done" /\ status = 0 /\ validargs(argv).o.mode # "h" => Reusable(out)
    /\ pass = 2 /\ pc = "done" => out.hdr.complete \/ Excepted \/ lost

\* The inductive invariant.
IInv == Options /\ Input /\ Output

-----------------------------------------------------------------------------
(* Remainders.                                                             *)

LEMMA Division ==
    ASSUME NEW A \in Nat \ {0}, NEW n \in Int
    PROVE  /\ n = A * (n \div A) + (n % A)
           /\ n \div A \in Int /\ n % A \in 0 .. A - 1
OBVIOUS

LEMMA Multiple ==
    ASSUME NEW A \in Nat \ {0}, NEW q \in Int
    PROVE  (A * q) % A = 0 /\ A * q \in Int
OBVIOUS

LEMMA Divides ==
    ASSUME NEW A \in Nat \ {0}, NEW n \in Int, n % A = 0
    PROVE  \E q \in Int : n = A * q
<1>1. n = A * (n \div A) + 0 /\ n \div A \in Int
  BY Division
<1>2. A * (n \div A) \in Int
  BY <1>1
<1>3. n = A * (n \div A)
  BY <1>1, <1>2
<1> QED
  BY <1>1, <1>3

LEMMA MultiplesAdd ==
    ASSUME NEW A \in Nat \ {0}, NEW n \in Int, NEW m \in Int, n % A = 0, m % A = 0
    PROVE  (n + m) % A = 0
<1>1. PICK q \in Int : n = A * q
  BY Divides
<1>2. PICK p \in Int : m = A * p
  BY Divides
<1>3. n + m = A * (q + p) /\ q + p \in Int
  BY <1>1, <1>2
<1> QED
  BY <1>3, Multiple

(* What is added to a length makes it a multiple.                           *)
LEMMA Negated ==
    ASSUME NEW A \in Nat \ {0}, NEW n \in Int, NEW m \in Int, m = -n
    PROVE  /\ (n + (m % A)) % A = 0
           /\ n % A = 0 => m % A = 0
<1>1. PICK r \in 0 .. A - 1, q \in Int : r = m % A /\ m = A * q + r
  BY Division
<1>2. n + r = A * (-q) /\ -q \in Int
  <2>1. \A a, x, y, z \in Int : z = -x /\ z = a * y + r => x + r = a * (-y)
    BY <1>1
  <2> QED
    BY <1>1, <2>1
<1>3. (n + r) % A = 0
  BY <1>2, Multiple
<1>4. ASSUME n % A = 0 PROVE m % A = 0
  <2>1. PICK p \in Int : n = A * p
    BY <1>4, Divides
  <2>2. m = A * (-p) /\ -p \in Int
    <3>1. \A a, x, y, z \in Int : z = -x /\ x = a * y => z = a * (-y)
      OBVIOUS
    <3> QED
      BY <2>1, <3>1
  <2> QED
    BY <2>2, Multiple
<1> QED
  BY <1>1, <1>3, <1>4

LEMMA Padding ==
    ASSUME NEW n \in Nat
    PROVE  /\ Padded(n) \in Nat /\ Padded(n) >= n
           /\ Padded(n) % ALIGN = 0
           /\ n % ALIGN = 0 <=> Padded(n) = n
<1>1. PICK m \in Int : m = -n
  OBVIOUS
<1>2. ALIGN \in Nat \ {0}
  BY SizesAssumption
<1>3. PICK r \in 0 .. ALIGN - 1 : r = m % ALIGN
  BY <1>2, Division
<1>4. Padded(n) = n + r
  BY <1>1, <1>3 DEF Padded
<1>5. (n + r) % ALIGN = 0 /\ (n % ALIGN = 0 => r = 0)
  <2>1. n \in Int /\ m \in Int
    OBVIOUS
  <2>2. (n + (m % ALIGN)) % ALIGN = 0 /\ (n % ALIGN = 0 => m % ALIGN = 0)
    BY <1>1, <1>2, <2>1, Negated
  <2> QED
    BY <1>3, <2>2
<1> QED
  BY <1>2, <1>3, <1>4, <1>5

(* A remainder of what is smaller already.                                  *)
LEMMA Small ==
    ASSUME NEW A \in Nat, NEW n \in Nat, n < A
    PROVE  n % A = n
OBVIOUS

-----------------------------------------------------------------------------
(* Sequences.                                                              *)

LEMMA SeqIs ==
    ASSUME NEW S, NEW s \in Seq(S)
    PROVE  IsSeq(s)
BY DEF IsSeq

LEMMA IsInSeq ==
    ASSUME NEW s, IsSeq(s)
    PROVE  /\ s \in Seq({s[k] : k \in 1 .. Len(s)})
           /\ Len(s) \in Nat /\ DOMAIN s = 1 .. Len(s)
<1> DEFINE S == {s[k] : k \in 1 .. Len(s)}
<1>1. Len(s) \in Nat /\ s \in [1 .. Len(s) -> S]
  BY DEF IsSeq
<1> HIDE DEF S
<1>2. s \in Seq(S)
  BY <1>1
<1> QED
  BY <1>1, <1>2 DEF S

LEMMA Concatenated ==
    ASSUME NEW s, NEW t, IsSeq(s), IsSeq(t)
    PROVE  /\ IsSeq(s \o t)
           /\ Len(s \o t) = Len(s) + Len(t)
           /\ \A k \in 1 .. Len(s) : (s \o t)[k] = s[k]
           /\ \A k \in 1 .. Len(t) : (s \o t)[Len(s) + k] = t[k]
<1> DEFINE S == {s[k] : k \in 1 .. Len(s)} \cup {t[k] : k \in 1 .. Len(t)}
<1>1. s \in Seq(S) /\ t \in Seq(S)
  <2>1. /\ s \in Seq({s[k] : k \in 1 .. Len(s)})
        /\ t \in Seq({t[k] : k \in 1 .. Len(t)})
    BY IsInSeq
  <2>2. \A A, B : Seq(A) \subseteq Seq(A \cup B) /\ Seq(B) \subseteq Seq(A \cup B)
    OBVIOUS
  <2> QED
    BY <2>1, <2>2
<1> HIDE DEF S
<1>2. s \o t \in Seq(S)
  BY <1>1
<1>3. IsSeq(s \o t)
  BY <1>2, SeqIs
<1> QED
  BY <1>1, <1>3

(* A function on 1 .. n is a sequence.                                      *)
LEMMA Tabulated ==
    ASSUME NEW n \in Nat, NEW f, f = [k \in 1 .. n |-> f[k]]
    PROVE  IsSeq(f) /\ Len(f) = n
<1> DEFINE S == {f[k] : k \in 1 .. n}
<1>1. f \in [1 .. n -> S]
  OBVIOUS
<1> HIDE DEF S
<1>2. f \in Seq(S) /\ Len(f) = n
  BY <1>1
<1> QED
  BY <1>2, SeqIs

LEMMA Frames ==
    ASSUME NEW n \in Nat, NEW f
    PROVE  IsSeq(write_frame(f, n))
<1>1. write_frame(f, n) = [k \in 1 .. n |-> write_frame(f, n)[k]]
  BY DEF write_frame
<1> QED
  BY <1>1, Tabulated

-----------------------------------------------------------------------------
(* The annotation.                                                         *)

(* The least of a set of naturals.                                          *)
LEMMA LeastIs ==
    ASSUME NEW S \in SUBSET Nat, S # {}
    PROVE  Min(S) \in S /\ \A n \in S : Min(S) <= n
<1> DEFINE Less == {ss \in Nat \X Nat : ss[1] < ss[2]}
<1>1. IsWellFoundedOn(Less, Nat)
  BY NatLessThanWellFounded, Zenon DEF OpToRel
<1> HIDE DEF Less
<1>2. PICK m \in S : \A n \in S : <<n, m>> \notin Less
  BY <1>1, WFMin
<1>3. \A n \in S : ~(n < m)
  BY <1>2 DEF Less
<1>4. \A n \in S : m <= n
  BY <1>3
<1> QED
  BY <1>4 DEF Min

(* The text of an annotation that ends in NUL is shorter than it.           *)
LEMMA TextIs ==
    ASSUME NEW S, NEW a \in Seq(S)
    PROVE  /\ IsSeq(Text(a)) /\ Len(Text(a)) \in Nat /\ Len(Text(a)) <= Len(a)
           /\ Len(a) > 0 /\ a[Len(a)] = 0 => Len(Text(a)) < Len(a)
<1> DEFINE K == {k - 1 : k \in {j \in 1..Len(a) : a[j] = 0}} \cup {Len(a)}
<1>1. Len(a) \in Nat /\ Len(a) \in K /\ K \in SUBSET Nat
  OBVIOUS
<1>2. Len(a) > 0 /\ a[Len(a)] = 0 => Len(a) - 1 \in K
  BY <1>1
<1>3. PICK n : n = Min(K)
  OBVIOUS
<1>4. Text(a) = SubSeq(a, 1, n)
  BY <1>3 DEF Text
<1> HIDE DEF K
<1>5. n \in Nat /\ n <= Len(a) /\ (Len(a) > 0 /\ a[Len(a)] = 0 => n < Len(a))
  <2>1. K # {}
    BY <1>1
  <2>2. n \in K /\ \A k \in K : n <= k
    BY <1>1, <1>3, <2>1, LeastIs
  <2> QED
    BY <1>1, <1>2, <2>2
<1>6. SubSeq(a, 1, n) \in Seq(S) /\ Len(SubSeq(a, 1, n)) = n
  BY <1>1, <1>5
<1> QED
  BY <1>4, <1>5, <1>6, SeqIs

(* What prepending writes is as long as both fields together, padded, and   *)
(* ends in NUL unless the text fills it.                                    *)
LEMMA PrependingIs ==
    ASSUME NEW S, NEW a \in Seq(S), cmdlen \in Nat
    PROVE  /\ IsSeq(prepending(a))
           /\ Len(prepending(a)) = Padded(Len(a) + cmdlen)
           /\ cmdlen + Len(Text(a)) < Padded(Len(a) + cmdlen) =>
                prepending(a)[Padded(Len(a) + cmdlen)] = 0
<1>1. PICK size : size = Padded(Len(a) + cmdlen)
  OBVIOUS
<1>2. PICK ones : ones = [k \in 1..cmdlen |-> 1]
  OBVIOUS
<1>3. PICK text : text = ones \o Text(a)
  OBVIOUS
<1>4. PICK zeros : zeros = Zeros(size - Len(text))
  OBVIOUS
<1>5. prepending(a) = text \o zeros
  BY <1>1, <1>2, <1>3, <1>4 DEF prepending
<1>6. IsSeq(ones) /\ Len(ones) = cmdlen
  BY <1>2, Tabulated
<1>7. /\ Len(Text(a)) \in Nat /\ Len(Text(a)) <= Len(a) /\ IsSeq(Text(a))
      /\ Len(a) \in Nat
  BY TextIs
<1>8. IsSeq(text) /\ Len(text) = cmdlen + Len(Text(a))
  BY <1>3, <1>6, <1>7, Concatenated
<1>9. size \in Nat /\ size >= Len(a) + cmdlen
  BY <1>1, <1>7, Padding
<1>10. size - Len(text) \in Nat
  BY <1>7, <1>8, <1>9
<1>11. /\ IsSeq(zeros) /\ Len(zeros) = size - Len(text)
       /\ \A k \in 1 .. size - Len(text) : zeros[k] = 0
  BY <1>4, <1>10, Tabulated DEF Zeros
<1>12. /\ IsSeq(text \o zeros) /\ Len(text \o zeros) = Len(text) + Len(zeros)
       /\ \A k \in 1 .. Len(zeros) : (text \o zeros)[Len(text) + k] = zeros[k]
  BY <1>8, <1>11, Concatenated
<1>13. Len(text) \in Nat /\ Len(text) + (size - Len(text)) = size
  BY <1>7, <1>8, <1>9
<1>14. ASSUME Len(text) < size PROVE (text \o zeros)[size] = 0
  <2>1. size - Len(text) \in 1 .. size - Len(text)
    BY <1>9, <1>13, <1>14
  <2>2. (text \o zeros)[Len(text) + (size - Len(text))] = zeros[size - Len(text)]
    BY <1>11, <1>12, <2>1
  <2> QED
    BY <1>11, <1>13, <2>1, <2>2
<1> QED
  BY <1>1, <1>5, <1>8, <1>11, <1>12, <1>13, <1>14

-----------------------------------------------------------------------------
(* Files.                                                                  *)

(* A file given to the first run.                                           *)
LEMMA OrigIs ==
    ASSUME orig \in Files
    PROVE  /\ orig = [hdr |-> orig.hdr, rest |-> orig.rest]
           /\ orig.rest \in Seq({0, 1})
           /\ HeaderOK(orig.hdr) => IsHeader(orig.hdr)
<1>1. orig \in [hdr : Headers, rest : Seq({0, 1})]
  BY FilesAssumption
<1>2. orig.hdr \in Headers /\ orig.rest \in Seq({0, 1})
      /\ orig = [hdr |-> orig.hdr, rest |-> orig.rest]
  BY <1>1
<1>3. HeaderOK(orig.hdr) => orig.hdr # NoHeader
  BY DEF HeaderOK, NoHeader
<1> QED
  <2>1. ASSUME NEW h \in [complete : {TRUE}, magic : BOOLEAN, data_offset : Nat,
                          data_size : Nat, encoding : Nat, channels : Nat]
        PROVE  IsHeader(h)
    <3>1. h.complete = TRUE /\ h.data_offset \in Nat
      OBVIOUS
    <3>2. h = [x \in Fields |-> h[x]]
      BY DEF Fields
    <3> QED
      BY <3>1, <3>2 DEF IsHeader
  <2> QED
    BY <1>2, <1>3, <2>1 DEF Headers

LEMMA SizeIs ==
    ASSUME NEW h, IsHeader(h)
    PROVE  AnnotationSize(h) \in Nat /\ AnnotationSize(h) < WORD
<1>1. h.data_offset - HEADER \in Int /\ WORD \in Nat \ {0}
  BY SizesAssumption DEF IsHeader
<1> QED
  BY <1>1, Division DEF AnnotationSize

(* Frames behind the annotation do not matter.                              *)
LEMMA EmitKeeps ==
    ASSUME NEW s, NEW ok, IsSeq(s), IsFile(out), IsHeader(out.hdr), Emit(s, ok)
    PROVE  /\ IsFile(out') /\ out'.hdr = out.hdr
           /\ Accepts(out) => Accepts(out')
<1>1. CASE out' = out
  BY <1>1
<1>2. CASE out' = [out EXCEPT !.rest = @ \o s]
  <2>1. out' = [hdr |-> out.hdr, rest |-> out.rest \o s]
    BY <1>2 DEF IsFile
  <2>2. IsSeq(out.rest)
    BY DEF IsFile
  <2>3. /\ IsSeq(out.rest \o s) /\ Len(out.rest \o s) >= Len(out.rest)
        /\ Len(out.rest) \in Nat /\ Len(out.rest \o s) \in Nat
        /\ \A k \in 1 .. Len(out.rest) : (out.rest \o s)[k] = out.rest[k]
    BY <2>2, Concatenated, IsInSeq
  <2>4. IsFile(out') /\ out'.hdr = out.hdr /\ out'.rest = out.rest \o s
    BY <2>1, <2>3 DEF IsFile
  <2>5. ASSUME Accepts(out) PROVE Accepts(out')
    <3>1. PICK size \in Nat : size = AnnotationSize(out.hdr)
      BY SizeIs
    <3>2. AnnotationOK(out.rest, size)
      BY <2>5, <3>1 DEF Accepts
    <3>3. AnnotationOK(out.rest \o s, size)
      BY <2>3, <3>1, <3>2 DEF AnnotationOK
    <3> QED
      BY <2>4, <2>5, <3>1, <3>3 DEF Accepts
  <2> QED
    BY <2>4, <2>5
<1> QED
  BY <1>1, <1>2 DEF Emit

(* What WriteHead writes in the first run.                                  *)
LEMMA WrittenIs ==
    ASSUME IInv, pass = 1, pc = "write", opts.p \/ ~Overrun(ann),
           NEW a, a = IF opts.p THEN ann ELSE prepending(ann),
           NEW h, h = [hp EXCEPT !.data_size = NewSize(hp),
                                 !.data_offset = HEADER + Len(a)]
    PROVE  LET f == [hdr |-> h, rest |-> a] IN
           IsFile(f) /\ IsHeader(h) /\ (Accepts(f) \/ Excepted)
<1>1. PICK size : size = AnnotationSize(orig.hdr)
  OBVIOUS
<1>2. /\ orig \in Files /\ cmdlen \in Nat /\ Accepts(orig)
      /\ hp = orig.hdr /\ IsHeader(hp) /\ HeaderOK(hp)
      /\ ann = SubSeq(orig.rest, 1, size)
      /\ opts = validargs(argv).o
  BY <1>1 DEF IInv, Input, Options
<1>3. orig.rest \in Seq({0, 1}) /\ Len(orig.rest) \in Nat
  BY <1>2, OrigIs
<1>4. /\ size \in Nat /\ size < WORD
      /\ size % ALIGN = 0 /\ size <= ANNOTATION_MAX - 1
      /\ size > 0 => Len(orig.rest) >= size /\ orig.rest[size] = 0
  BY <1>1, <1>2, SizeIs DEF Accepts, SizeOK, AnnotationOK
<1>5. /\ ann \in Seq({0, 1}) /\ Len(ann) = size
      /\ size > 0 => ann[size] = 0
  BY <1>2, <1>3, <1>4
<1>6. PICK n : n = Len(a)
  OBVIOUS
<1>7. /\ ALIGN \in Nat \ {0} /\ HEADER \in Nat /\ HEADER % ALIGN = 0
      /\ ANNOTATION_MAX \in Nat /\ WORD \in Nat /\ ANNOTATION_MAX < WORD
  BY SizesAssumption
<1>8. /\ IsSeq(a) /\ n \in Nat /\ n % ALIGN = 0 /\ n <= ANNOTATION_MAX
      /\ (n <= ANNOTATION_MAX - 1 /\ (n > 0 => a[n] = 0)) \/ Excepted
  <2>1. CASE opts.p
    <3>1. a = ann
      BY <2>1
    <3> QED
      BY <1>4, <1>5, <1>6, <1>7, <3>1, SeqIs
  <2>2. CASE ~opts.p
    <3>1. a = prepending(ann) /\ ~Overrun(ann)
      BY <2>2
    <3>2. PICK sum \in Nat : sum = Len(ann) + cmdlen
      BY <1>2, <1>4, <1>5
    <3>3. /\ IsSeq(a) /\ n = Padded(sum)
          /\ cmdlen + Len(Text(ann)) < n => a[n] = 0
      BY <1>2, <1>5, <1>6, <3>1, <3>2, PrependingIs
    <3>4. /\ n \in Nat /\ n >= sum /\ n % ALIGN = 0
          /\ sum % ALIGN = 0 <=> n = sum
      BY <3>3, Padding
    <3>5. /\ n <= ANNOTATION_MAX
          /\ n = ANNOTATION_MAX => sum % ALIGN = 0
      BY <1>7, <3>1, <3>2, <3>3, <3>4 DEF Overrun
    <3>6. CASE n = ANNOTATION_MAX
      <4>1. size + cmdlen = ANNOTATION_MAX
        BY <1>5, <3>2, <3>4, <3>5, <3>6
      <4> QED
        BY <1>1, <1>2, <2>2, <3>3, <3>4, <3>5, <4>1 DEF Excepted
    <3>7. CASE n # ANNOTATION_MAX /\ size = 0
      <4>1. CASE cmdlen % ALIGN = 0
        BY <1>1, <1>2, <2>2, <3>3, <3>4, <3>5, <3>7, <4>1 DEF Excepted
      <4>2. CASE cmdlen % ALIGN # 0
        <5>1. sum = cmdlen
          BY <1>2, <1>5, <3>2, <3>7
        <5>2. cmdlen < n
          BY <1>2, <3>4, <4>2, <5>1
        <5>3. Len(Text(ann)) = 0
          <6>1. Len(Text(ann)) \in Nat /\ Len(Text(ann)) <= Len(ann)
            BY <1>5, TextIs
          <6> QED
            BY <1>5, <3>7, <6>1
        <5>4. cmdlen + Len(Text(ann)) < n
          BY <1>2, <5>2, <5>3
        <5>5. a[n] = 0
          BY <3>3, <5>4
        <5> QED
          BY <1>7, <3>3, <3>4, <3>5, <3>7, <5>5
      <4> QED
        BY <4>1, <4>2
    <3>8. CASE n # ANNOTATION_MAX /\ size # 0
      <4>1. Len(Text(ann)) \in Nat /\ Len(Text(ann)) < Len(ann)
        BY <1>4, <1>5, <3>8, TextIs
      <4>2. cmdlen + Len(Text(ann)) < n
        BY <1>2, <1>4, <1>5, <3>2, <3>4, <4>1
      <4>3. a[n] = 0
        BY <3>3, <4>2
      <4> QED
        BY <1>7, <3>3, <3>4, <3>5, <3>8, <4>3
    <3> QED
      BY <3>6, <3>7, <3>8
  <2> QED
    BY <2>1, <2>2
<1>9. /\ IsHeader(h) /\ h.data_offset = HEADER + n
      /\ h.magic = hp.magic /\ h.encoding = hp.encoding /\ h.channels = hp.channels
  <2>1. hp = [x \in Fields |-> hp[x]] /\ hp.complete
    BY <1>2 DEF IsHeader
  <2>2. h = [x \in Fields |-> IF x = "data_offset" THEN HEADER + n
                              ELSE IF x = "data_size" THEN NewSize(hp) ELSE hp[x]]
    BY <1>6, <2>1 DEF Fields
  <2>3. h = [x \in Fields |-> h[x]]
    BY <2>2
  <2>4. /\ h.data_offset = HEADER + n /\ h["complete"] = hp["complete"]
        /\ h.magic = hp.magic /\ h.encoding = hp.encoding /\ h.channels = hp.channels
    BY <2>2 DEF Fields
  <2>5. HEADER + n \in Nat
    BY <1>7, <1>8
  <2> QED
    BY <2>1, <2>3, <2>4, <2>5 DEF IsHeader
<1>10. AnnotationSize(h) = n
  <2>1. h.data_offset - HEADER = n /\ n < WORD
    BY <1>7, <1>8, <1>9
  <2> QED
    BY <1>7, <1>8, <2>1, Small DEF AnnotationSize
<1>11. HeaderOK(h)
  <2>1. h.data_offset % ALIGN = 0
    BY <1>7, <1>8, <1>9, MultiplesAdd
  <2>2. h.complete
    BY <1>9 DEF IsHeader
  <2> QED
    BY <1>2, <1>9, <2>1, <2>2 DEF HeaderOK
<1>12. PICK f : f = [hdr |-> h, rest |-> a]
  OBVIOUS
<1>13. f.hdr = h /\ f.rest = a /\ IsFile(f)
  BY <1>8, <1>12 DEF IsFile
<1>14. ASSUME n <= ANNOTATION_MAX - 1, n > 0 => a[n] = 0 PROVE Accepts(f)
  <2>1. SizeOK(h)
    BY <1>8, <1>10 DEF SizeOK
  <2>2. AnnotationOK(a, n)
    BY <1>6, <1>8, <1>14 DEF AnnotationOK
  <2> QED
    BY <1>10, <1>11, <1>13, <2>1, <2>2 DEF Accepts
<1> QED
  BY <1>8, <1>9, <1>12, <1>13, <1>14

-----------------------------------------------------------------------------
(* The options.                                                            *)

(* A factor that is accepted is at least 1, and a key is a number.          *)
LEMMA FactorIs ==
    ASSUME NEW a
    PROVE  validargs(a).o.factor \in Nat /\ validargs(a).o.key \in Nat
<1> DEFINE OK(o) == o = [x \in {"mode", "p", "factor", "key"} |-> o[x]]
                    /\ o.factor \in Nat /\ o.key \in Nat
<1>1. OK(NoOptions)
  BY DEF NoOptions
<1>2. ASSUME NEW o, OK(o), NEW v
      PROVE  /\ OK([o EXCEPT !.mode = v]) /\ OK([o EXCEPT !.p = v])
             /\ v \in Nat => OK([o EXCEPT !.key = v])
             /\ v \in Nat => OK([o EXCEPT !.factor = v])
  BY <1>2
<1>3. \A w : decStrToDec(w) \in Int
  <2>1. WORD \in Nat \ {0}
    BY SizesAssumption
  <2>2. \A w \in DOMAIN DecOf : DecOf[w] \in Int
    BY DecOfAssumption
  <2>3. WORD \div 2 \in Int
    BY <2>1
  <2>4. \A w \in DOMAIN DecOf : (DecOf[w] + WORD \div 2) % WORD \in Int
    <3> TAKE w \in DOMAIN DecOf
    <3>1. DecOf[w] + WORD \div 2 \in Int
      BY <2>2, <2>3
    <3> QED
      BY <2>1, <3>1, Division
  <2> QED
    BY <2>3, <2>4 DEF decStrToDec
<1> HIDE DEF OK
<1>4. ASSUME NEW o, OK(o), NEW w
      PROVE  OK(factor(o, w).o) /\ OK(key(o, w).o)
  <2>1. OK(factor(o, w).o)
    <3>1. CASE decStrToDec(w) > 0 /\ decStrToDec(w) < FACTOR_MAX + 1
      <4>1. PICK n \in Nat : n = decStrToDec(w) - 1
        BY <1>3, <3>1
      <4>2. factor(o, w).o = [o EXCEPT !.factor = n]
        BY <3>1, <4>1 DEF factor
      <4>3. OK([o EXCEPT !.factor = n])
        BY <1>2, <1>4
      <4> QED
        BY <4>2, <4>3
    <3>2. CASE ~(decStrToDec(w) > 0 /\ decStrToDec(w) < FACTOR_MAX + 1)
      BY <1>1, <3>2 DEF factor
    <3> QED
      BY <3>1, <3>2
  <2>2. OK(key(o, w).o)
    BY <1>1, <1>2, <1>4, HexOfAssumption DEF key
  <2> QED
    BY <2>1, <2>2
<1>5. ASSUME NEW o, OK(o)
      PROVE  OK(speed(o, a).o) /\ OK(crypt(o, a).o)
  <2>1. PICK po : po = [o EXCEPT !.p = TRUE] /\ OK(po)
    BY <1>2, <1>5
  <2>2. OK(speed(o, a).o)
    BY <1>4, <1>5, <2>1 DEF speed
  <2>3. OK(crypt(o, a).o)
    BY <1>4, <1>5, <2>1 DEF crypt
  <2> QED
    BY <2>2, <2>3
<1>6. \A m : OK([NoOptions EXCEPT !.mode = m])
  BY <1>1, <1>2
<1>7. OK(validargs(a).o)
  BY <1>1, <1>5, <1>6 DEF validargs
<1> QED
  BY <1>7 DEF OK

-----------------------------------------------------------------------------
(* The steps.                                                              *)

LEMMA IInvInit == Init => IInv
<1> SUFFICES ASSUME Init PROVE IInv
  OBVIOUS
<1>1. /\ stdin \in Files /\ argv \in Argvs /\ cmdlen \in CmdLens /\ orig = stdin
      /\ pass = 1 /\ pc = "args"
  BY DEF Init
<1>2. Options
  BY <1>1 DEF Options
<1>3. Input
  BY <1>1, CmdLensAssumption DEF Input
<1>4. Output
  BY <1>1 DEF Output, Late
<1> QED
  BY <1>2, <1>3, <1>4 DEF IInv

(* What depends on the command line and the original file alone.            *)
LEMMA SameFile ==
    ASSUME [Next]_vars
    PROVE  /\ argv' = argv /\ cmdlen' = cmdlen /\ orig' = orig
           /\ validargs(argv)' = validargs(argv)
           /\ Excepted' <=> Excepted
           /\ \A f : Reusable(f)' <=> Reusable(f)
<1>1. argv' = argv /\ cmdlen' = cmdlen /\ orig' = orig
  BY DEF Next, vars, main, ReadHead, WriteHead, SpeedUp, SlowDownFirst, SlowDown,
         Crypt, Finish, Again
<1>2. validargs(argv)' = validargs(argv)
  BY <1>1 DEF validargs, speed, crypt, factor, key, decStrToDec, NoOptions
<1>3. Excepted' <=> Excepted
  BY <1>1, <1>2 DEF Excepted, AnnotationSize
<1>4. \A f : Reusable(f)' <=> Reusable(f)
  BY <1>3
  DEF Reusable, IsFile, IsSeq, IsHeader, Fields, Accepts, HeaderOK, SizeOK,
      AnnotationOK, AnnotationSize
<1> QED
  BY <1>1, <1>2, <1>3, <1>4

(* A step of a loop appends frames.                                         *)
LEMMA LoopKeeps ==
    ASSUME IInv, [Next]_vars, pc \in Late, pc' \in Late,
           UNCHANGED <<opts, pass, status, hp>>,
           NEW s, NEW ok, IsSeq(s), Emit(s, ok)
    PROVE  IInv'
<1>1. /\ argv' = argv /\ cmdlen' = cmdlen /\ orig' = orig
      /\ validargs(argv)' = validargs(argv) /\ (Excepted' <=> Excepted)
  BY SameFile
<1>2. Options /\ Input /\ Output
  BY DEF IInv
<1>3. Options'
  BY <1>1, <1>2 DEF Options, Late
<1>4. Input'
  BY <1>1, <1>2 DEF Input, Late
<1>5. /\ hp.encoding \in 2 .. 5 /\ hp.channels \in {1, 2}
      /\ IsFile(out) /\ IsHeader(out.hdr)
  BY <1>2 DEF Output
<1>6. IsFile(out') /\ out'.hdr = out.hdr /\ (Accepts(out) => Accepts(out'))
  BY <1>5, EmitKeeps
<1>7. pass = 1 => Reusable(out')
  BY <1>2, <1>5, <1>6 DEF Output, Reusable
<1>8. pass = 1 => Reusable(out)'
  <2>1. PICK f : f = out'
    OBVIOUS
  <2>2. Reusable(f) => Reusable(out)'
    BY <1>1, <2>1
    DEF Reusable, IsFile, IsSeq, IsHeader, Fields, Accepts, HeaderOK, SizeOK,
        AnnotationOK, AnnotationSize
  <2> QED
    BY <1>7, <2>1, <2>2
<1>9. IsFile(out)' /\ IsHeader(out.hdr)'
  BY <1>5, <1>6 DEF IsFile, IsSeq, IsHeader, Fields
<1>10. Output'
  BY <1>5, <1>8, <1>9 DEF Output, Late
<1> QED
  BY <1>3, <1>4, <1>10 DEF IInv

(* The size of a frame, and of the first one with -d.                       *)
LEMMA FrameSizes ==
    ASSUME IInv, pc \in Late
    PROVE  FrameSize(hp) \in Nat /\ hp.channels * Factor \in Nat
<1>1. hp.encoding \in 2 .. 5 /\ hp.channels \in {1, 2}
  BY DEF IInv, Output
<1>2. opts.factor \in Nat
  BY FactorIs DEF IInv, Options, Late
<1>3. Factor \in Nat /\ hp.encoding - 1 \in Nat
  BY <1>1, <1>2 DEF Factor
<1> QED
  BY <1>1, <1>3 DEF FrameSize

LEMMA IInvNext ==
    ASSUME IInv, [Next]_vars
    PROVE  IInv'
<1>0. /\ argv' = argv /\ cmdlen' = cmdlen /\ orig' = orig
      /\ validargs(argv)' = validargs(argv) /\ (Excepted' <=> Excepted)
  BY SameFile
<1>. Options /\ Input /\ Output
  BY DEF IInv
<1>1. CASE main
  <2>1. /\ pc = "args" /\ pass' = pass /\ stdin' = stdin
        /\ opts' = validargs(argv).o
        /\ \/ ~validargs(argv).ok /\ pc' = "done" /\ status' = 1
           \/ /\ validargs(argv).ok /\ validargs(argv).o.mode = "h"
              /\ pc' = "done" /\ status' = 0
           \/ /\ validargs(argv).ok /\ validargs(argv).o.mode # "h"
              /\ pc' = "header"
    BY <1>1 DEF main, Exit
  <2>2. Options'
    BY <1>0, <2>1 DEF Options
  <2>3. Reusable(stdin) => Reusable(stdin)'
    BY <1>0, <2>1
    DEF Reusable, IsFile, IsSeq, IsHeader, Fields, Accepts, HeaderOK, SizeOK,
        AnnotationOK, AnnotationSize
  <2>4. Input'
    BY <1>0, <2>1, <2>3 DEF Input
  <2>5. Output'
    BY <1>0, <2>1 DEF Output, Options, Late
  <2> QED
    BY <2>2, <2>4, <2>5 DEF IInv
<1>2. CASE ReadHead
  <2>1. /\ pc = "header" /\ UNCHANGED <<opts, pass, out>>
    BY <1>2 DEF ReadHead
  <2>2. CASE ~Accepts(stdin)
    <3>1. pc' = "done" /\ status' = 1
      BY <1>2, <2>2 DEF ReadHead, Exit
    <3>2. pass = 2 => Excepted
      BY <2>1, <2>2 DEF Input, Reusable
    <3>3. Options'
      BY <1>0, <2>1, <3>1 DEF Options
    <3>4. Input'
      BY <1>0, <2>1, <3>1 DEF Input
    <3>5. Output'
      BY <1>0, <2>1, <3>1, <3>2 DEF Output, Late
    <3> QED
      BY <3>3, <3>4, <3>5 DEF IInv
  <2>3. CASE Accepts(stdin)
    <3>1. /\ hp' = stdin.hdr /\ pc' = "write"
          /\ ann' = SubSeq(stdin.rest, 1, AnnotationSize(stdin.hdr))
      BY <1>2, <2>3 DEF ReadHead
    <3>2. HeaderOK(stdin.hdr)
      BY <2>3 DEF Accepts
    <3>3. IsHeader(stdin.hdr)
      BY <2>1, <3>2, OrigIs DEF Input, Reusable
    <3>4. IsHeader(hp)' /\ HeaderOK(hp)' /\ IsSeq(ann)'
      <4>1. IsSeq(stdin.rest)
        BY <2>1, OrigIs, SeqIs DEF Input, Reusable, IsFile
      <4>2. PICK S : stdin.rest \in Seq(S)
        BY <4>1, IsInSeq
      <4>3. PICK size \in Nat : /\ size = AnnotationSize(stdin.hdr)
                                /\ size > 0 => Len(stdin.rest) >= size
        BY <2>3, <3>3, SizeIs DEF Accepts, AnnotationOK
      <4>4. SubSeq(stdin.rest, 1, size) \in Seq(S)
        BY <4>2, <4>3
      <4>5. IsSeq(ann')
        BY <3>1, <4>3, <4>4, SeqIs
      <4>6. IsSeq(ann)'
        BY <4>5 DEF IsSeq
      <4> QED
        BY <3>1, <3>2, <3>3, <4>6 DEF IsHeader, HeaderOK, Fields
    <3>5. pass = 1 => /\ Accepts(orig)' /\ (hp = orig.hdr)'
                      /\ (ann = SubSeq(orig.rest, 1, AnnotationSize(orig.hdr)))'
      <4>1. pass = 1 => stdin = orig
        BY <2>1 DEF Input
      <4>2. Accepts(orig) => Accepts(orig)'
        BY <1>0 DEF Accepts, HeaderOK, SizeOK, AnnotationOK, AnnotationSize
      <4> QED
        BY <1>0, <2>3, <3>1, <4>1, <4>2 DEF AnnotationSize
    <3>6. Options'
      BY <1>0, <2>1, <3>1 DEF Options
    <3>7. Input'
      BY <1>0, <2>1, <3>1, <3>4, <3>5 DEF Input
    <3>8. Output'
      BY <3>1 DEF Output, Late
    <3> QED
      BY <3>6, <3>7, <3>8 DEF IInv
  <2> QED
    BY <2>2, <2>3
<1>3. CASE WriteHead
  <2>1. pc = "write" /\ UNCHANGED <<opts, pass>>
    BY <1>3 DEF WriteHead
  <2>4. CASE pc' = "done"
    <3>1. status' = 1 /\ lost'
      BY <1>3, <2>4, Zenon DEF WriteHead, Exit
    <3>2. status' # 0
      BY <3>1
    <3>3. Options' /\ Input'
      BY <1>0, <2>1, <2>4, <3>2 DEF Options, Input
    <3>4. Output'
      BY <2>4, <3>1, <3>2 DEF Output, Late
    <3> QED
      BY <3>3, <3>4 DEF IInv
  <2>2. CASE pc' = "undefined"
    <3>1. Options' /\ Input' /\ Output'
      BY <1>0, <2>1, <2>2 DEF Options, Input, Output, Late
    <3> QED
      BY <3>1 DEF IInv
  <2>3. CASE pc' \notin {"undefined", "done"}
    <3>1. PICK a, h : /\ a = IF opts.p THEN ann ELSE prepending(ann)
                      /\ h = [hp EXCEPT !.data_size = NewSize(hp),
                                        !.data_offset = HEADER + Len(a)]
      OBVIOUS
    <3>2. /\ opts.p \/ ~Overrun(ann)
          /\ hp' = h /\ out' = [hdr |-> h, rest |-> a] /\ pc' \in Late
      BY <1>3, <2>3, <3>1 DEF WriteHead, Late, Exit
    <3>3. PICK f : f = [hdr |-> h, rest |-> a]
      OBVIOUS
    <3>4. IsHeader(hp) /\ HeaderOK(hp) /\ IsSeq(ann) /\ cmdlen \in Nat
      BY <2>1 DEF Input
    <3>5. IsSeq(a) /\ Len(a) \in Nat
      <4>1. PICK S : ann \in Seq(S)
        BY <3>4, IsInSeq
      <4>2. IsSeq(a)
        BY <3>1, <3>4, <4>1, PrependingIs
      <4> QED
        BY <4>2, IsInSeq
    <3>6. IsHeader(h) /\ h.encoding = hp.encoding /\ h.channels = hp.channels
      <4>1. h = [x \in Fields |-> IF x = "data_offset" THEN HEADER + Len(a)
                                  ELSE IF x = "data_size" THEN NewSize(hp) ELSE hp[x]]
        BY <3>1, <3>4 DEF IsHeader, Fields
      <4>2. h = [x \in Fields |-> h[x]]
        BY <4>1
      <4>3. /\ h.data_offset = HEADER + Len(a) /\ h["complete"] = hp["complete"]
            /\ h.encoding = hp.encoding /\ h.channels = hp.channels
        BY <4>1 DEF Fields
      <4>4. HEADER + Len(a) \in Nat
        BY <3>5, SizesAssumption
      <4> QED
        BY <3>4, <4>2, <4>3, <4>4 DEF IsHeader
    <3>7. f.hdr = h /\ f.rest = a /\ IsFile(f)
      BY <3>3, <3>5 DEF IsFile
    <3>8. pass = 1 => Reusable(f)
      BY <2>1, <3>1, <3>2, <3>3, <3>6, <3>7, WrittenIs DEF Reusable
    <3>9. (IsFile(out) /\ IsHeader(out.hdr))' /\ (pass = 1 => Reusable(out)')
      <4>1. out' = f
        BY <3>2, <3>3
      <4> QED
        BY <1>0, <3>6, <3>7, <3>8, <4>1
        DEF Reusable, IsFile, IsSeq, IsHeader, Fields, Accepts, HeaderOK, SizeOK,
            AnnotationOK, AnnotationSize
    <3>10. hp'.encoding \in 2 .. 5 /\ hp'.channels \in {1, 2}
      BY <3>2, <3>4, <3>6 DEF HeaderOK
    <3>11. Options' /\ Input'
      BY <1>0, <2>1, <3>2 DEF Options, Input, Late
    <3>12. Output'
      BY <2>1, <3>2, <3>9, <3>10 DEF Output, Late
    <3> QED
      BY <3>11, <3>12 DEF IInv
  <2> QED
    BY <2>2, <2>3, <2>4
<1>4. CASE SpeedUp
  <2>1. PICK f : Emit(IF i % Factor = 0 THEN write_frame(f, FrameSize(hp)) ELSE <<>>, TRUE)
    BY <1>4 DEF SpeedUp
  <2>2. /\ pc \in Late /\ pc' \in Late /\ UNCHANGED <<opts, pass, status, hp>>
    BY <1>4 DEF SpeedUp, Late
  <2>3. IsSeq(write_frame(f, FrameSize(hp))) /\ IsSeq(<<>>)
    BY <2>2, FrameSizes, Frames DEF IsSeq
  <2> QED
    BY <2>1, <2>2, <2>3, LoopKeeps
<1>5. CASE SlowDownFirst
  <2>1. PICK f : Emit(write_frame(f, hp.channels * Factor), TRUE)
    BY <1>5 DEF SlowDownFirst
  <2>2. /\ pc \in Late /\ pc' \in Late /\ UNCHANGED <<opts, pass, status, hp>>
    BY <1>5 DEF SlowDownFirst, Late
  <2>3. IsSeq(write_frame(f, hp.channels * Factor))
    BY <2>2, FrameSizes, Frames
  <2> QED
    BY <2>1, <2>2, <2>3, LoopKeeps
<1>6. CASE SlowDown
  <2>1. PICK f, ok : Emit([k \in 1 .. FrameSize(hp) |-> Unknown] \o write_frame(f, FrameSize(hp)), ok)
    BY <1>6 DEF SlowDown
  <2>2. /\ pc \in Late /\ pc' \in Late /\ UNCHANGED <<opts, pass, status, hp>>
    BY <1>6 DEF SlowDown, Late
  <2>3. FrameSize(hp) \in Nat
    BY <2>2, FrameSizes
  <2>4. IsSeq([k \in 1 .. FrameSize(hp) |-> Unknown])
    BY <2>3, Tabulated
  <2>5. IsSeq(write_frame(f, FrameSize(hp)))
    BY <2>3, Frames
  <2> QED
    BY <2>1, <2>2, <2>4, <2>5, Concatenated, LoopKeeps
<1>7. CASE Crypt
  <2>1. PICK f : Emit(write_frame(f, FrameSize(hp)), TRUE)
    BY <1>7 DEF Crypt
  <2>2. /\ pc \in Late /\ pc' \in Late /\ UNCHANGED <<opts, pass, status, hp>>
    BY <1>7 DEF Crypt, Late
  <2>3. IsSeq(write_frame(f, FrameSize(hp)))
    BY <2>2, FrameSizes, Frames
  <2> QED
    BY <2>1, <2>2, <2>3, LoopKeeps
<1>8. CASE Finish
  <2>1. /\ pc \in Late /\ pc' = "done" /\ UNCHANGED <<opts, pass, out>>
    BY <1>8 DEF Finish, Exit, Late
  <2>2. Options' /\ Input'
    BY <1>0, <2>1 DEF Options, Input, Late
  <2>3. pass = 1 => Reusable(out)'
    BY <1>0, <2>1
    DEF Output, Reusable, IsFile, IsSeq, IsHeader, Fields, Accepts, HeaderOK, SizeOK,
        AnnotationOK, AnnotationSize
  <2>4. out.hdr.complete
    BY <2>1 DEF Output, IsHeader
  <2>5. Output'
    BY <2>1, <2>3, <2>4 DEF Output, Late
  <2> QED
    BY <2>2, <2>5 DEF IInv
<1>9. CASE Again
  <2>1. /\ pc = "done" /\ status = 0 /\ pass = 1 /\ opts.mode # "h"
        /\ pass' = 2 /\ stdin' = out /\ pc' = "args"
    BY <1>9 DEF Again
  <2>2. validargs(argv).ok /\ validargs(argv).o.mode # "h"
    BY <2>1 DEF Options
  <2>3. Reusable(stdin)'
    BY <1>0, <2>1, <2>2
    DEF Output, Reusable, IsFile, IsSeq, IsHeader, Fields, Accepts, HeaderOK, SizeOK,
        AnnotationOK, AnnotationSize
  <2>4. Options' /\ Input' /\ Output'
    BY <1>0, <2>1, <2>2, <2>3 DEF Options, Input, Output, Late
  <2> QED
    BY <2>4 DEF IInv
<1>10. CASE UNCHANGED vars
  <2>1. /\ UNCHANGED <<stdin, opts, pass, pc, status, hp, ann, out, lost>>
    BY <1>10 DEF vars
  <2>2. Options'
    BY <1>0, <2>1 DEF Options
  <2>3. (Reusable(stdin)' <=> Reusable(stdin)) /\ (Reusable(out)' <=> Reusable(out))
    BY <1>0, <2>1
    DEF Reusable, IsFile, IsSeq, IsHeader, Fields, Accepts, HeaderOK, SizeOK,
        AnnotationOK, AnnotationSize
  <2>4. Input'
    BY <1>0, <2>1, <2>3
    DEF Input, IsSeq, IsHeader, Fields, Accepts, HeaderOK, SizeOK, AnnotationOK,
        AnnotationSize
  <2>5. Output'
    BY <1>0, <2>1, <2>3 DEF Output, Late, IsFile, IsSeq, IsHeader, Fields
  <2> QED
    BY <2>2, <2>4, <2>5 DEF IInv
<1> QED
  BY <1>1, <1>2, <1>3, <1>4, <1>5, <1>6, <1>7, <1>8, <1>9, <1>10 DEF Next

(* IInv holds in every state of both runs.                                  *)
THEOREM Invariant == Spec => []IInv
BY IInvInit, IInvNext, PTL DEF Spec

(* The program reads back what it has written, but for the two exceptions.  *)
THEOREM ReadsBack == Spec => []Readable
<1>1. IInv => Readable
  BY DEF IInv, Options, Output, Excepted, Readable
<1> QED
  BY <1>1, Invariant, PTL

-----------------------------------------------------------------------------
(* Products.                                                               *)

(* Multiples of F.                                                          *)
LEMMA Products ==
    ASSUME NEW F \in Nat, NEW k \in Nat, NEW m \in Nat
    PROVE  /\ k * F \in Nat /\ (k + 1) * F = k * F + F
           /\ k < m => k * F + F <= m * F
<1>1. k * F \in Nat /\ (k + 1) * F = k * F + F
  OBVIOUS
<1>2. ASSUME k < m PROVE k * F + F <= m * F
  <2>1. PICK d \in Nat : m = k + 1 + d
    BY <1>2
  <2>2. m * F = k * F + F + d * F /\ d * F \in Nat
    BY <2>1
  <2> QED
    BY <1>1, <2>2
<1> QED
  BY <1>1, <1>2

(* Quotients of naturals.                                                   *)
LEMMA Quotient ==
    ASSUME NEW F \in Nat \ {0}, NEW n \in Nat
    PROVE  /\ n \div F \in Nat /\ (n \div F) * F <= n
           /\ (n * F) \div F = n
<1>1. n \div F \in Nat /\ (n \div F) * F <= n
  <2>1. PICK q \in Int, r \in 0 .. F - 1 : q = n \div F /\ n = F * q + r
    BY Division
  <2>2. q * F = F * q
    BY <2>1
  <2>3. q >= 0
    <3>1. ASSUME q < 0 PROVE FALSE
      <4>1. PICK d \in Nat : q = -1 - d
        BY <2>1, <3>1
      <4>2. F * q = -F - F * d /\ F * d \in Nat
        BY <4>1
      <4> QED
        BY <2>1, <4>2
    <3> QED
      BY <2>1, <3>1
  <2> QED
    BY <2>1, <2>2, <2>3
<1>2. (n * F) \div F = n
  OBVIOUS
<1> QED
  BY <1>1, <1>2

(* Two multiples less than F apart are one.                                 *)
LEMMA Near ==
    ASSUME NEW F \in Nat \ {0}, NEW p \in Nat, NEW q \in Nat
    PROVE  /\ F * p < F * q => p < q
           /\ F * p <= F * q /\ F * q < F * p + F => p = q
<1>1. ASSUME q < p PROVE F * q + F <= F * p
  <2>1. q * F + F <= p * F
    BY <1>1, Products
  <2> QED
    BY <2>1
<1>2. ASSUME p < q PROVE F * p + F <= F * q
  <2>1. p * F + F <= q * F
    BY <1>2, Products
  <2> QED
    BY <2>1
<1> QED
  BY <1>1, <1>2

-----------------------------------------------------------------------------
(* Frames.                                                                 *)

\* What has been read of the data is its first p bytes, or all of it.
Behind(data, p, rest) ==
    /\ IsSeq(rest)
    /\ IF p <= Len(data)
       THEN /\ Len(rest) = Len(data) - p
            /\ \A k \in 1 .. Len(rest) : rest[k] = data[p + k]
       ELSE Len(rest) = 0

IsFrame(f) == IsSeq(f) /\ Len(f) = 4

\* The last n bytes of a frame are those of the data behind p.
Ends(f, n, data, p) == \A j \in 1 .. n : f[4 - n + j] = data[p + j]

(* A part of a sequence.                                                    *)
LEMMA SubIs ==
    ASSUME NEW s, IsSeq(s), NEW lo \in Nat \ {0}, NEW n \in Nat, lo <= n + 1, n <= Len(s)
    PROVE  /\ IsSeq(SubSeq(s, lo, n)) /\ Len(SubSeq(s, lo, n)) = n - lo + 1
           /\ \A k \in 1 .. n - lo + 1 : SubSeq(s, lo, n)[k] = s[lo + k - 1]
<1>1. PICK S : s \in Seq(S) /\ Len(s) \in Nat
  BY IsInSeq
<1>2. /\ SubSeq(s, lo, n) \in Seq(S) /\ Len(SubSeq(s, lo, n)) = n - lo + 1
      /\ \A k \in 1 .. n - lo + 1 : SubSeq(s, lo, n)[k] = s[lo + k - 1]
  BY <1>1
<1> QED
  BY <1>2, SeqIs

(* Sequences with the same elements are the same.                           *)
LEMMA SameSeq ==
    ASSUME NEW s, NEW t, IsSeq(s), IsSeq(t), Len(s) = Len(t),
           \A k \in 1 .. Len(s) : s[k] = t[k]
    PROVE  s = t
BY DEF IsSeq

(* The lesser of two numbers.                                               *)
LEMMA LesserIs ==
    ASSUME NEW m \in Nat, NEW n \in Nat
    PROVE  Min({m, n}) = IF m <= n THEN m ELSE n
<1>1. PICK x \in {m, n} : x = Min({m, n}) /\ \A y \in {m, n} : x <= y
  BY LeastIs
<1> QED
  BY <1>1

(* Bytes shifted into a frame come last.                                    *)
LEMMA ShiftInIs ==
    ASSUME NEW f, IsFrame(f), NEW s, IsSeq(s)
    PROVE  /\ IsFrame(ShiftIn(f, s))
           /\ Len(s) <= 4 => \A j \in 1 .. Len(s) : ShiftIn(f, s)[4 - Len(s) + j] = s[j]
<1>1. PICK n \in Nat : n = Len(s)
  BY DEF IsSeq
<1>2. PICK t : t = f \o s
  OBVIOUS
<1>3. /\ IsSeq(t) /\ Len(t) = 4 + n
      /\ \A k \in 1 .. n : t[4 + k] = s[k]
  <2>1. IsSeq(f)
    BY DEF IsFrame
  <2>2. /\ IsSeq(f \o s) /\ Len(f \o s) = Len(f) + Len(s)
        /\ \A k \in 1 .. Len(s) : (f \o s)[Len(f) + k] = s[k]
    BY <2>1, Concatenated
  <2> QED
    BY <1>1, <1>2, <2>2 DEF IsFrame
<1>4. PICK r : r = SubSeq(t, n + 1, n + 4)
  OBVIOUS
<1>5. IsSeq(r) /\ Len(r) = 4 /\ \A k \in 1 .. 4 : r[k] = t[n + k]
  <2>1. n + 1 \in Nat \ {0} /\ n + 4 \in Nat /\ n + 1 <= n + 4 + 1 /\ n + 4 <= Len(t)
    BY <1>1, <1>3
  <2>2. PICK lo \in Nat \ {0}, hi \in Nat :
          lo = n + 1 /\ hi = n + 4 /\ lo <= hi + 1 /\ hi <= Len(t)
    BY <2>1
  <2>3. r = SubSeq(t, lo, hi)
    BY <1>4, <2>2, Zenon
  <2>4. /\ IsSeq(SubSeq(t, lo, hi)) /\ Len(SubSeq(t, lo, hi)) = hi - lo + 1
        /\ \A k \in 1 .. hi - lo + 1 : SubSeq(t, lo, hi)[k] = t[lo + k - 1]
    <3>1. IsSeq(t)
      BY <1>3
    <3>2. lo <= hi + 1 /\ hi <= Len(t)
      BY <2>2
    <3> QED
      BY <3>1, <3>2, SubIs
  <2>5. hi - lo + 1 = 4
    BY <2>2
  <2>6. /\ IsSeq(r) /\ Len(r) = 4 /\ \A k \in 1 .. 4 : r[k] = t[lo + k - 1]
    BY <2>3, <2>4, <2>5, Zenon
  <2>7. ASSUME NEW k \in 1 .. 4 PROVE r[k] = t[n + k]
    <3>1. lo + k - 1 = n + k
      BY <1>1, <2>2
    <3> QED
      BY <2>6, <3>1, Zenon
  <2> QED
    BY <2>6, <2>7, Zenon
<1>6. ASSUME n <= 4, NEW j \in 1 .. n PROVE r[4 - n + j] = s[j]
  <2>1. 4 - n + j \in 1 .. 4 /\ n + (4 - n + j) = 4 + j
    BY <1>1, <1>6
  <2> QED
    BY <1>3, <1>5, <1>6, <2>1
<1> QED
  BY <1>1, <1>2, <1>4, <1>5, <1>6 DEF ShiftIn, IsFrame

(* The bytes that are written of a frame that fits into an int.             *)
LEMMA WrittenBytes ==
    ASSUME NEW n \in 1 .. 4, NEW f
    PROVE  /\ IsSeq(write_frame(f, n)) /\ Len(write_frame(f, n)) = n
           /\ \A j \in 1 .. n : write_frame(f, n)[j] = f[4 - n + j]
<1>1. write_frame(f, n) = [k \in 1 .. n |-> write_frame(f, n)[k]]
  BY DEF write_frame
<1>2. IsSeq(write_frame(f, n)) /\ Len(write_frame(f, n)) = n
  BY <1>1, Tabulated
<1>3. ASSUME NEW j \in 1 .. n PROVE write_frame(f, n)[j] = f[4 - n + j]
  <2>1. write_frame(f, n)[j] = f[4 - ((n - j) % 4)]
    BY DEF write_frame
  <2>2. (n - j) % 4 = n - j
    BY Small
  <2>3. 4 - (n - j) = 4 - n + j
    OBVIOUS
  <2> QED
    BY <2>1, <2>2, <2>3
<1> QED
  BY <1>2, <1>3

(* read_frame takes n bytes off the data, or finds that there are fewer.    *)
LEMMA FrameRead ==
    ASSUME NEW data, IsSeq(data), NEW p \in Nat, NEW n \in Nat \ {0},
           Behind(data, p, stdin.rest), NEW f, IsFrame(f),
           NEW r, r = read_frame(f, n)
    PROVE  /\ IsFrame(r.frame) /\ Behind(data, p + n, r.rest)
           /\ r.ok <=> p + n <= Len(data)
           /\ p + n <= Len(data) /\ n <= 4 => Ends(r.frame, n, data, p)
<1>1. PICK s : s = stdin.rest
  OBVIOUS
<1>2. PICK l \in Nat, m \in Nat : l = Len(s) /\ m = Len(data)
  BY <1>1 DEF Behind, IsSeq
<1>3. IsSeq(s) /\ IF p <= m THEN l = m - p /\ \A k \in 1 .. l : s[k] = data[p + k]
                            ELSE l = 0
  BY <1>1, <1>2 DEF Behind
<1>4. PICK g \in Nat : g = (IF n <= l THEN n ELSE l) /\ g = Min({n, l}) /\ g <= l
  BY LesserIs
<1>5. PICK got : got = SubSeq(s, 1, g)
  OBVIOUS
<1>6. IsSeq(got) /\ Len(got) = g /\ \A k \in 1 .. g : got[k] = s[k]
  <2>1. 1 \in Nat \ {0} /\ 1 <= g + 1 /\ g <= Len(s)
    BY <1>2, <1>4
  <2>2. IsSeq(got) /\ Len(got) = g - 1 + 1 /\ \A k \in 1 .. g - 1 + 1 : got[k] = s[1 + k - 1]
    <3>1. IsSeq(s)
      BY <1>3
    <3>2. /\ IsSeq(SubSeq(s, 1, g)) /\ Len(SubSeq(s, 1, g)) = g - 1 + 1
          /\ \A k \in 1 .. g - 1 + 1 : SubSeq(s, 1, g)[k] = s[1 + k - 1]
      BY <2>1, <3>1, SubIs
    <3> QED
      BY <1>5, <3>2
  <2> QED
    BY <2>2
<1>7. PICK rest : rest = SubSeq(s, g + 1, l)
  OBVIOUS
<1>8. IsSeq(rest) /\ Len(rest) = l - g /\ \A k \in 1 .. l - g : rest[k] = s[g + k]
  <2>1. g + 1 \in Nat \ {0} /\ g + 1 <= l + 1 /\ l <= Len(s) /\ IsSeq(s)
    BY <1>2, <1>3, <1>4
  <2>2. IsSeq(rest) /\ Len(rest) = l - (g + 1) + 1
        /\ \A k \in 1 .. l - (g + 1) + 1 : rest[k] = s[g + 1 + k - 1]
    BY <1>7, <2>1, SubIs
  <2>3. l - (g + 1) + 1 = l - g /\ \A k \in 1 .. l - g : g + 1 + k - 1 = g + k
    OBVIOUS
  <2> QED
    BY <2>2, <2>3
<1>9. r.ok <=> g = n
  BY <1>1, <1>2, <1>4, <1>5, <1>6 DEF read_frame
<1>10. r.frame = ShiftIn(f, got) /\ r.rest = rest
  BY <1>1, <1>2, <1>4, <1>5, <1>6, <1>7 DEF read_frame
<1>11. IsFrame(ShiftIn(f, got))
       /\ (g <= 4 => \A j \in 1 .. g : ShiftIn(f, got)[4 - g + j] = got[j])
  BY <1>6, ShiftInIs
<1>12. r.ok <=> p + n <= m
  BY <1>3, <1>4, <1>9
<1>13. Behind(data, p + n, rest)
  <2>1. CASE p + n <= m
    <3>1. g = n /\ l = m - p
      BY <1>3, <1>4, <2>1
    <3>2. Len(rest) = m - (p + n)
      BY <1>8, <3>1
    <3>3. ASSUME NEW k \in 1 .. Len(rest) PROVE rest[k] = data[(p + n) + k]
      <4>1. k \in 1 .. l - g /\ g + k \in 1 .. l /\ p + (g + k) = (p + n) + k
        BY <1>8, <3>1
      <4> QED
        BY <1>3, <1>8, <2>1, <4>1
    <3> QED
      BY <1>2, <1>8, <2>1, <3>2, <3>3 DEF Behind
  <2>2. CASE ~(p + n <= m)
    <3>1. Len(rest) = 0
      BY <1>3, <1>4, <1>8, <2>2
    <3> QED
      BY <1>2, <1>8, <2>2, <3>1 DEF Behind
  <2> QED
    BY <2>1, <2>2
<1>14. ASSUME p + n <= m, n <= 4, NEW j \in 1 .. n
       PROVE  r.frame[4 - n + j] = data[p + j]
  <2>1. g = n /\ l = m - p /\ j \in 1 .. l
    BY <1>3, <1>4, <1>14
  <2>2. r.frame[4 - g + j] = got[j] /\ got[j] = s[j] /\ s[j] = data[p + j]
    BY <1>3, <1>6, <1>10, <1>11, <1>14, <2>1
  <2> QED
    BY <2>1, <2>2
<1>15. p + n <= m /\ n <= 4 => Ends(r.frame, n, data, p)
  BY <1>14 DEF Ends
<1> QED
  BY <1>2, <1>10, <1>11, <1>12, <1>13, <1>15

-----------------------------------------------------------------------------
(* The invariant.                                                          *)

\* The options, and the frames of the original file.
Cmd == validargs(argv).o
Size == FrameSize(orig.hdr)
Data == DataOf(orig)
Count == orig.hdr.data_size \div Size

\* The header and the annotation have been written; where the data begins.
Begun == pc \in Late \/ (pc = "done" /\ out.hdr.complete)
Body == AnnotationSize(out.hdr)

\* A header with the frames of the original file.
Same(h) ==
    /\ h.encoding = orig.hdr.encoding /\ h.channels = orig.hdr.channels
    /\ Cmd.mode = "c" => h.data_size = orig.hdr.data_size

Heads ==
    /\ IsFrame(frame) /\ i \in Nat
    /\ pc \in {"write", "first", "frames"} => IsFile(stdin)
    /\ pc = "first" => Cmd.mode = "d"
    /\ pc \in {"args", "header", "write"} => out = NoFile
    /\ pc = "write" => Len(ann) <= ANNOTATION_MAX
    /\ pass = 2 \/ pc = "write" \/ Begun => Accepts(orig)
    /\ pc = "write" \/ Begun => Same(hp)
    /\ pass = 2 /\ pc \in {"args", "header"} => Same(stdin.hdr)
    /\ pass = 1 /\ pc = "write" => stdin.rest = Data
    /\ Begun => IsFile(out) /\ out.hdr = hp /\ Body \in Nat /\ Body <= Len(out.rest)

\* The state of the generator before each frame of the first run.
Advance(s) == IF orig.hdr.channels = 2 THEN Seeds(Seeds(s)[4])[4] ELSE Seeds(s)[4]
Stream(seeds, n) ==
    /\ seeds \in [Nat -> Int] /\ seeds[0] = Cmd.key % MOD
    /\ \A k \in 0 .. n - 1 : seeds[k + 1] = Advance(seeds[k])

\* The first n frames of the data, if they are whole, encrypted behind at.
Byte(s, j) == Pad(s, orig.hdr.encoding, orig.hdr.channels)[4 - Size + j]
Xored(s, at, data, seeds, n) ==
    \A k \in 0 .. n - 1 : k * Size + Size <= Len(data) =>
        \A j \in 1 .. Size :
            s[at + (k * Size + j)] = (Byte(seeds[k], j) + data[k * Size + j]) % 2

\* What the second run is given.
Once(data, seeds) ==
    /\ IsSeq(data) /\ Len(data) = Count * Size
    /\ Stream(seeds, Count) /\ Xored(data, 0, Data, seeds, Count)

CryptLoop(data, seeds) ==
    /\ IsSeq(data) /\ (pass = 1 => data = Data) /\ (pass = 2 => Once(data, seeds))
    /\ Stream(seeds, i) /\ i <= Count
    /\ Len(out.rest) = Body + i * Size /\ Xored(out.rest, Body, data, seeds, i)
    /\ pc = "frames" => next = seeds[i] /\ Behind(data, i * Size, stdin.rest)
    /\ pc = "done" => i = Count

Crypted ==
    Cmd.mode = "c" /\ Size <= 4 =>
        /\ pass = 2 /\ pc \in {"args", "header"} => \E seeds : Once(DataOf(stdin), seeds)
        /\ pass = 2 /\ pc = "write" => \E seeds : Once(stdin.rest, seeds)
        /\ Begun /\ ~lost => \E data, seeds : CryptLoop(data, seeds)

\* -u: every frame whose number is a multiple of Times, of the first m.
Times == Cmd.factor + 1
Picked(s, at, m) ==
    \A k \in 0 .. m - 1 : \A q \in Nat :
        k = Times * q /\ k * Size + Size <= Len(Data) =>
          \A j \in 1 .. Size : s[at + (q * Size + j)] = Data[k * Size + j]

\* w frames have been written of m.
Length(s, at, m) ==
    \E w \in Nat : Len(s) = at + w * Size /\ m <= Times * w /\ Times * w < m + Times

SpedUp ==
    pass = 1 /\ Cmd.mode = "u" /\ Size <= 4 /\ Begun /\ ~lost =>
        /\ hp.data_size = ((orig.hdr.data_size \div Size + 1) * Times) % WORD
        /\ Length(out.rest, Body, i) /\ Picked(out.rest, Body, i)
        /\ pc = "frames" => Behind(Data, i * Size, stdin.rest)
        /\ pc = "done" => i >= hp.data_size \div Times

\* -d: a first frame of another size, and m frames behind interpolated ones.
First == orig.hdr.channels * Times
Kept(s, at, m) ==
    /\ Len(s) = at + (First + m * (2 * Size)) /\ First + m * Size <= Len(Data)
    /\ \A k \in 1 .. First : s[at + k] = Data[k]
    /\ \A k \in 0 .. m - 1 : \A j \in 1 .. Size :
         s[at + (First + k * (2 * Size) + Size + j)] = Data[First + k * Size + j]

\* How many frames of the input follow the first one.
Slowed == (((orig.hdr.data_size \div Times - 1) % WORD) * Size) % WORD
Inserted == Slowed \div (Times * (orig.hdr.encoding + 1))

SlowedDown ==
    pass = 1 /\ Cmd.mode = "d" /\ Size <= 4 /\ First <= 4 /\ First <= Len(Data)
             /\ Begun /\ ~lost =>
        /\ hp.data_size = Slowed
        /\ pc = "first" => /\ i = 0 /\ Len(out.rest) = Body
                           /\ Behind(Data, 0, stdin.rest)
        /\ pc = "frames" => i <= Inserted
        /\ pc = "frames" /\ noerror => /\ Kept(out.rest, Body, i)
                                      /\ Behind(Data, First + i * Size, stdin.rest)
        /\ pc = "done" /\ status = 0 => Kept(out.rest, Body, i) /\ i = Inserted

DInv == Heads /\ Crypted /\ SpedUp /\ SlowedDown

-----------------------------------------------------------------------------
(* The original file.                                                      *)

(* What is known of an original file that is accepted.                      *)
LEMMA Original ==
    ASSUME IInv, Accepts(orig)
    PROVE  /\ orig.hdr.encoding \in 2 .. 5 /\ orig.hdr.channels \in {1, 2}
           /\ orig.hdr.data_size \in Nat /\ Size \in Nat \ {0} /\ Count \in Nat
           /\ Data \in Seq({0, 1}) /\ IsSeq(Data) /\ Len(Data) \in Nat
           /\ Times \in Nat \ {0} /\ First \in Nat \ {0} /\ Inserted \in Nat
<1>1. orig \in Files /\ HeaderOK(orig.hdr)
  BY DEF IInv, Input, Accepts
<1>2. orig.hdr.encoding \in 2 .. 5 /\ orig.hdr.channels \in {1, 2} /\ orig.hdr.complete
  BY <1>1 DEF HeaderOK
<1>3. orig.hdr.data_size \in Nat
  <2>1. orig.hdr \in Headers
    BY <1>1, FilesAssumption
  <2>2. orig.hdr # NoHeader
    BY <1>2 DEF NoHeader
  <2> QED
    BY <2>1, <2>2 DEF Headers
<1>4. Size \in Nat \ {0}
  <2>1. PICK e \in 2 .. 5, c \in {1, 2} : e = orig.hdr.encoding /\ c = orig.hdr.channels
    BY <1>2
  <2>2. e - 1 \in Nat \ {0} /\ c \in Nat \ {0}
    OBVIOUS
  <2>3. \A x, y \in Nat \ {0} : x * y \in Nat \ {0}
    OBVIOUS
  <2>4. c * (e - 1) \in Nat \ {0}
    BY <2>2, <2>3
  <2> QED
    BY <2>1, <2>4 DEF Size, FrameSize
<1>5. Count \in Nat
  BY <1>3, <1>4, Quotient DEF Count
<1>6. Data \in Seq({0, 1})
  <2>1. orig.rest \in Seq({0, 1}) /\ IsHeader(orig.hdr)
    BY <1>1, OrigIs
  <2>2. AnnotationSize(orig.hdr) \in Nat
    BY <2>1, SizeIs
  <2> QED
    BY <2>1, <2>2 DEF Data, DataOf
<1>7. IsSeq(Data) /\ Len(Data) \in Nat
  BY <1>6, SeqIs
<1>8. Times \in Nat \ {0}
  <2>1. Cmd.factor \in Nat
    BY FactorIs DEF Cmd
  <2> QED
    BY <2>1 DEF Times
<1>9. First \in Nat \ {0}
  BY <1>2, <1>8 DEF First
<1>10. Inserted \in Nat
  <2>1. WORD \in Nat \ {0}
    BY SizesAssumption
  <2>2. PICK q \in Int : q = orig.hdr.data_size \div Times - 1
    BY <1>3, <1>8, Quotient
  <2>3. PICK a \in Nat, b \in Nat : a = q % WORD /\ b = a * Size
    BY <1>4, <2>1, Division
  <2>4. b % WORD \in Nat
    BY <2>1, Division
  <2>5. Slowed \in Nat
    BY <2>2, <2>3, <2>4 DEF Slowed
  <2>6. PICK e \in Nat \ {0} : e = orig.hdr.encoding + 1
    BY <1>2
  <2>7. PICK f \in Nat \ {0} : f = Times * e
    <3>1. \A x, y \in Nat \ {0} : x * y \in Nat \ {0}
      OBVIOUS
    <3> QED
      BY <1>8, <2>6, <3>1
  <2> QED
    BY <2>5, <2>6, <2>7, Quotient DEF Inserted
<1> QED
  BY <1>2, <1>3, <1>4, <1>5, <1>6, <1>7, <1>8, <1>9, <1>10

(* Frames that fit into an int.                                             *)
LEMMA SmallFrames ==
    ASSUME IInv, Accepts(orig)
    PROVE  (Size <= 4 => Size \in 1 .. 4) /\ (First <= 4 => First \in 1 .. 4)
<1>1. Size \in Nat \ {0} /\ First \in Nat \ {0}
  BY Original
<1> QED
  BY <1>1

(* What depends on the command line and the original file alone.            *)
LEMMA Fixed ==
    ASSUME [Next]_vars
    PROVE  /\ Cmd' = Cmd /\ Size' = Size /\ Data' = Data /\ Count' = Count
           /\ Times' = Times /\ First' = First /\ orig' = orig /\ argv' = argv
           /\ cmdlen' = cmdlen /\ Slowed' = Slowed /\ Inserted' = Inserted
           /\ Accepts(orig)' <=> Accepts(orig)
           /\ \A data, seeds : Once(data, seeds)' <=> Once(data, seeds)
           /\ \A seeds, n : Stream(seeds, n)' <=> Stream(seeds, n)
           /\ \A s, at, data, seeds, n :
                Xored(s, at, data, seeds, n)' <=> Xored(s, at, data, seeds, n)
           /\ \A h : Same(h)' <=> Same(h)
           /\ \A s, at, m : /\ Picked(s, at, m)' <=> Picked(s, at, m)
                            /\ Length(s, at, m)' <=> Length(s, at, m)
                            /\ Kept(s, at, m)' <=> Kept(s, at, m)
<1>1. argv' = argv /\ orig' = orig /\ validargs(argv)' = validargs(argv) /\ cmdlen' = cmdlen
  BY SameFile
<1>2. Cmd' = Cmd
  BY <1>1 DEF Cmd
<1>3. Size' = Size
  BY <1>1 DEF Size, FrameSize
<1>4. Data' = Data
  BY <1>1 DEF Data, DataOf, AnnotationSize
<1>5. Count' = Count
  BY <1>1, <1>3 DEF Count
<1>6. Times' = Times /\ First' = First
  BY <1>1, <1>2 DEF Times, First
<1>18. Slowed' = Slowed /\ Inserted' = Inserted
  BY <1>1, <1>3, <1>6 DEF Slowed, Inserted
<1>7. Accepts(orig)' <=> Accepts(orig)
  BY <1>1 DEF Accepts, HeaderOK, SizeOK, AnnotationOK, AnnotationSize
<1>8. \A s : Advance(s)' = Advance(s)
  BY <1>1 DEF Advance, Seeds
<1>9. \A seeds, n : Stream(seeds, n)' <=> Stream(seeds, n)
  BY <1>2, <1>8 DEF Stream
<1>10. \A s, j : Byte(s, j)' = Byte(s, j)
  BY <1>1, <1>3 DEF Byte, Pad, Mask, Or, ShiftUp, myrand32, Seeds
<1>11. \A s, at, data, seeds, n :
         Xored(s, at, data, seeds, n)' <=> Xored(s, at, data, seeds, n)
  BY <1>3, <1>10 DEF Xored
<1>12. \A data, seeds : Once(data, seeds)' <=> Once(data, seeds)
  BY <1>3, <1>4, <1>5, <1>9, <1>11 DEF Once, IsSeq
<1>13. \A h : Same(h)' <=> Same(h)
  BY <1>1, <1>2 DEF Same
<1>14. \A s, at, m : Picked(s, at, m)' <=> Picked(s, at, m)
  BY <1>3, <1>4, <1>6 DEF Picked
<1>15. \A s, at, m : Length(s, at, m)' <=> Length(s, at, m)
  BY <1>3, <1>6 DEF Length
<1>16. \A s, at, m : Kept(s, at, m)' <=> Kept(s, at, m)
  BY <1>3, <1>4, <1>6 DEF Kept
<1>17. \A s, at, m : /\ Picked(s, at, m)' <=> Picked(s, at, m)
                     /\ Length(s, at, m)' <=> Length(s, at, m)
                     /\ Kept(s, at, m)' <=> Kept(s, at, m)
  BY <1>14, <1>15, <1>16
<1> QED
  BY <1>1, <1>2, <1>3, <1>4, <1>5, <1>6, <1>7, <1>9, <1>11, <1>12, <1>13, <1>17, <1>18, Zenon

-----------------------------------------------------------------------------
(* Frames that are appended.                                               *)

\* t is s with u behind it.
Longer(t, s, u) ==
    /\ IsSeq(t) /\ Len(t) = Len(s) + Len(u)
    /\ \A k \in 1 .. Len(s) : t[k] = s[k]
    /\ \A k \in 1 .. Len(u) : t[Len(s) + k] = u[k]

(* What Emit writes comes behind what was written.                          *)
LEMMA Emitted ==
    ASSUME IInv, Heads, pc \in Late, NEW s, NEW ok, IsSeq(s), Emit(s, ok)
    PROVE  /\ out'.hdr = out.hdr /\ IsFile(out)' /\ Body' = Body
           /\ \E t : /\ t = out'.rest /\ Len(t) \in Nat /\ Len(out.rest) <= Len(t)
                     /\ ~lost' => Longer(t, out.rest, s)
           /\ IsSeq(out.rest) /\ Len(out.rest) \in Nat /\ Len(s) \in Nat
           /\ ~lost' => ~lost /\ (noerror' => noerror /\ ok)
<1>1. IsFile(out) /\ IsHeader(out.hdr)
  BY DEF IInv, Output
<1>2. IsFile(out') /\ out'.hdr = out.hdr
  BY <1>1, EmitKeeps
<1>3. IsSeq(out.rest) /\ Len(out.rest) \in Nat /\ Len(s) \in Nat
  BY <1>1, IsInSeq DEF IsFile
<1>4. Longer(out.rest \o s, out.rest, s)
  BY <1>3, Concatenated DEF Longer
<1>5. IsFile(out)'
  BY <1>2 DEF IsFile, IsSeq
<1>6. Body' = Body
  BY <1>2 DEF Body, AnnotationSize
<1>7. ~lost' => ~lost /\ (noerror' => noerror /\ ok) /\ out' = [out EXCEPT !.rest = @ \o s]
  <2>1. CASE lost' = TRUE
    BY <2>1
  <2>2. CASE /\ out' = IF lost THEN out ELSE [out EXCEPT !.rest = @ \o s]
             /\ noerror' = (noerror /\ ok)
             /\ lost' = lost
    <3>1. CASE lost
      BY <2>2, <3>1, Zenon
    <3>2. CASE ~lost
      <4>1. out' = [out EXCEPT !.rest = @ \o s]
        BY <2>2, <3>2, Zenon
      <4>2. noerror' => noerror /\ ok
        BY <2>2, Zenon
      <4> QED
        BY <3>2, <4>1, <4>2, Zenon
    <3> QED
      BY <3>1, <3>2, Zenon
  <2> QED
    BY <2>1, <2>2, Zenon DEF Emit
<1>8. out' = out \/ out' = [out EXCEPT !.rest = @ \o s]
  BY DEF Emit
<1>9. out' = [out EXCEPT !.rest = @ \o s] => out'.rest = out.rest \o s
  BY <1>1 DEF IsFile
<1>10. PICK t : t = out'.rest
  OBVIOUS
<1>11. Len(t) \in Nat /\ Len(out.rest) <= Len(t)
  <2>1. Len(out.rest \o s) = Len(out.rest) + Len(s)
    BY <1>4 DEF Longer
  <2> QED
    BY <1>3, <1>8, <1>9, <1>10, <2>1
<1>12. ~lost' => Longer(t, out.rest, s)
  BY <1>4, <1>7, <1>9, <1>10
<1>13. ~lost' => ~lost /\ (noerror' => noerror /\ ok)
  BY <1>7, Zenon
<1> QED
  BY <1>2, <1>3, <1>5, <1>6, <1>10, <1>11, <1>12, <1>13, Zenon

(* A frame of -c.                                                           *)
LEMMA CryptFrame ==
    ASSUME IInv, Accepts(orig), Size <= 4, NEW data, NEW seeds, NEW s, NEW t, NEW u,
           NEW m \in Nat, NEW at \in Nat, NEW f, NEW w,
           Len(s) = at + m * Size, Xored(s, at, data, seeds, m),
           Longer(t, s, u), u = write_frame(w, Size),
           w = Xor(Pad(seeds[m], orig.hdr.encoding, orig.hdr.channels), f),
           m * Size + Size <= Len(data) => Ends(f, Size, data, m * Size)
    PROVE  Len(t) = at + (m + 1) * Size /\ Xored(t, at, data, seeds, m + 1)
<1>1. PICK z \in 1 .. 4 : z = Size
  BY SmallFrames
<1>2. Len(u) = z /\ \A j \in 1 .. z : u[j] = w[4 - z + j]
  BY <1>1, WrittenBytes
<1>3. PICK p \in Nat : p = m * Size /\ (m + 1) * Size = p + z
  BY <1>1, Products
<1>4. Len(t) = at + (p + z) /\ Len(s) = at + p
  BY <1>2, <1>3 DEF Longer
<1>5. ASSUME NEW k \in 0 .. m, k * Size + Size <= Len(data), NEW j \in 1 .. z
      PROVE  t[at + (k * Size + j)] = (Byte(seeds[k], j) + data[k * Size + j]) % 2
  <2>1. CASE k < m
    <3>1. PICK q \in Nat : q = k * Size /\ q + z <= p
      BY <1>1, <1>3, <2>1, Products
    <3>2. at + (q + j) \in 1 .. Len(s)
      <4>1. q + z <= p /\ Len(s) = at + p
        BY <1>4, <3>1
      <4>2. at + (q + j) \in 1 .. at + p
        BY <4>1
      <4> QED
        BY <4>1, <4>2
    <3>3. t[at + (q + j)] = s[at + (q + j)]
      BY <3>2 DEF Longer
    <3>4. k \in 0 .. m - 1 /\ j \in 1 .. Size
      BY <1>1, <2>1
    <3>5. s[at + (k * Size + j)] = (Byte(seeds[k], j) + data[k * Size + j]) % 2
      BY <1>5, <3>4 DEF Xored
    <3> QED
      BY <3>1, <3>3, <3>5
  <2>2. CASE k = m
    <3>1. at + (p + j) = Len(s) + j /\ j \in 1 .. Len(u)
      <4>1. at + (p + j) = at + p + j
        OBVIOUS
      <4> QED
        BY <1>2, <1>4, <4>1
    <3>2. t[at + (p + j)] = u[j]
      BY <3>1 DEF Longer
    <3>3. u[j] = w[4 - z + j] /\ 4 - z + j \in 1 .. 4
      BY <1>2
    <3>4. w[4 - z + j] = (Byte(seeds[m], j) + f[4 - z + j]) % 2
      BY <1>1, <3>3 DEF Xor, Byte
    <3>5. f[4 - z + j] = data[p + j]
      BY <1>1, <1>3, <1>5, <2>2 DEF Ends
    <3> QED
      BY <1>3, <2>2, <3>2, <3>3, <3>4, <3>5
  <2> QED
    BY <2>1, <2>2
<1>6. Xored(t, at, data, seeds, m + 1)
  BY <1>1, <1>5 DEF Xored
<1> QED
  BY <1>3, <1>4, <1>6

(* A frame of -u.                                                           *)
LEMMA PickedMore ==
    ASSUME NEW s, NEW at, NEW m \in Nat, Picked(s, at, m),
           \A q \in Nat : m = Times * q /\ m * Size + Size <= Len(Data) =>
             \A j \in 1 .. Size : s[at + (q * Size + j)] = Data[m * Size + j]
    PROVE  Picked(s, at, m + 1)
<1>1. \A k \in 0 .. m + 1 - 1 : k \in 0 .. m - 1 \/ k = m
  OBVIOUS
<1> QED
  BY <1>1 DEF Picked

(* One round of the loop of -u.                                             *)
LEMMA SpeedUpFrame ==
    ASSUME IInv, Accepts(orig), Size <= 4, NEW s, NEW t, NEW u, IsSeq(s),
           NEW m \in Nat, NEW at \in Nat, NEW f,
           Length(s, at, m), Picked(s, at, m), Longer(t, s, u),
           u = IF m % Times = 0 THEN write_frame(f, Size) ELSE <<>>,
           m * Size + Size <= Len(Data) => Ends(f, Size, Data, m * Size)
    PROVE  Length(t, at, m + 1) /\ Picked(t, at, m + 1)
<1>1. PICK z \in 1 .. 4 : z = Size
  BY SmallFrames
<1>2. PICK x \in Nat \ {0} : x = Times
  BY Original
<1>3. PICK w \in Nat : Len(s) = at + w * z /\ m <= x * w /\ x * w < m + x
  BY <1>1, <1>2 DEF Length
<1>4. w * z \in Nat /\ (w + 1) * z = w * z + z /\ x * w \in Nat /\ x * (w + 1) = x * w + x
  <2>1. w * x \in Nat /\ (w + 1) * x = w * x + x
    BY Products
  <2>2. x * w = w * x /\ x * (w + 1) = (w + 1) * x
    OBVIOUS
  <2> QED
    BY <2>1, <2>2, Products
<1>5. ASSUME NEW k \in 0 .. m - 1, NEW q \in Nat, k = x * q, k * z + z <= Len(Data),
             NEW j \in 1 .. z
      PROVE  t[at + (q * z + j)] = Data[k * z + j]
  <2>1. x * q < x * w
    BY <1>3, <1>4, <1>5
  <2>2. q < w
    BY <2>1, Near
  <2>3. q * z \in Nat /\ q * z + z <= w * z
    BY <2>2, Products
  <2>4. at + (q * z + j) \in 1 .. Len(s)
    BY <1>3, <1>4, <2>3
  <2>5. t[at + (q * z + j)] = s[at + (q * z + j)]
    BY <2>4 DEF Longer
  <2>6. s[at + (q * z + j)] = Data[k * z + j]
    BY <1>1, <1>2, <1>5 DEF Picked
  <2> QED
    BY <2>5, <2>6
<1>6. Picked(t, at, m)
  BY <1>1, <1>2, <1>5 DEF Picked
<1>7. CASE m % x = 0
  <2>0. m \in Int
    OBVIOUS
  <2>1. PICK y \in Int : m = x * y
    BY <1>7, <2>0, Divides, Zenon
  <2>2. y \in Nat
    <3>1. ASSUME y < 0 PROVE FALSE
      <4>1. PICK d \in Nat : y = -1 - d
        BY <2>1, <3>1
      <4>2. x * y = -x - x * d /\ x * d \in Nat
        BY <4>1
      <4> QED
        BY <2>1, <4>2
    <3> QED
      BY <2>1, <3>1
  <2>3. y = w
    BY <1>3, <2>1, <2>2, Near
  <2>4. Len(u) = z /\ \A j \in 1 .. z : u[j] = f[4 - z + j]
    <3>1. u = write_frame(f, z)
      BY <1>1, <1>2, <1>7
    <3> QED
      BY <3>1, WrittenBytes
  <2>5. Len(t) = at + (w + 1) * z
    <3>1. Len(t) = Len(s) + Len(u)
      BY DEF Longer
    <3> QED
      BY <1>3, <1>4, <2>4, <3>1
  <2>6. Length(t, at, m + 1)
    <3>1. m + 1 <= x * (w + 1) /\ x * (w + 1) < m + 1 + x
      BY <1>2, <1>4, <2>1, <2>3
    <3> QED
      BY <1>1, <1>2, <2>5, <3>1 DEF Length
  <2>7. ASSUME NEW q \in Nat, m = x * q, m * z + z <= Len(Data), NEW j \in 1 .. z
        PROVE  t[at + (q * z + j)] = Data[m * z + j]
    <3>1. q = w
      BY <1>3, <2>7, Near
    <3>2. at + (w * z + j) = Len(s) + j /\ j \in 1 .. Len(u)
      BY <1>3, <1>4, <2>4
    <3>3. t[at + (w * z + j)] = u[j]
      BY <3>2 DEF Longer
    <3>4. f[4 - z + j] = Data[m * z + j]
      BY <1>1, <2>7 DEF Ends
    <3> QED
      BY <2>4, <3>1, <3>3, <3>4
  <2>8. Picked(t, at, m + 1)
    BY <1>1, <1>2, <1>6, <2>7, PickedMore
  <2> QED
    BY <2>6, <2>8
<1>8. CASE m % x # 0
  <2>1. Len(u) = 0
    BY <1>2, <1>8
  <2>2. Len(t) = at + w * z
    <3>1. Len(t) = Len(s) + Len(u)
      BY DEF Longer
    <3>2. at + w * z + 0 = at + w * z
      BY <1>4
    <3> QED
      BY <1>3, <2>1, <3>1, <3>2
  <2>3. \A q \in Nat : m # x * q
    <3>1. \A q \in Nat : (x * q) % x = 0
      BY Multiple
    <3> QED
      BY <1>8, <3>1
  <2>4. Length(t, at, m + 1)
    <3>1. m + 1 <= x * w /\ x * w < m + 1 + x
      <4>1. PICK v \in Nat : v = x * w
        BY <1>4
      <4>2. m <= v /\ v < m + x /\ m # v
        BY <1>3, <2>3, <4>1
      <4>3. m + 1 <= v /\ v < m + 1 + x
        BY <4>2
      <4> QED
        BY <4>1, <4>3
    <3> QED
      BY <1>1, <1>2, <2>2, <3>1 DEF Length
  <2>5. Picked(t, at, m + 1)
    BY <1>1, <1>2, <1>6, <2>3, PickedMore
  <2> QED
    BY <2>4, <2>5
<1> QED
  BY <1>7, <1>8

(* The first frame of -d.                                                   *)
LEMMA SlowDownFirstFrame ==
    ASSUME IInv, Accepts(orig), First <= 4, First <= Len(Data), NEW s, NEW t, NEW u,
           NEW at \in Nat, Len(s) = at, Longer(t, s, u), NEW f, u = write_frame(f, First),
           Ends(f, First, Data, 0)
    PROVE  Kept(t, at, 0)
<1>1. PICK z \in 1 .. 4 : z = First
  BY SmallFrames
<1>2. Len(u) = z /\ \A j \in 1 .. z : u[j] = f[4 - z + j]
  BY <1>1, WrittenBytes
<1>3. Size \in Nat /\ 0 * (2 * Size) = 0 /\ 0 * Size = 0
  BY Original
<1>4. Len(t) = at + z
  BY <1>2 DEF Longer
<1>5. ASSUME NEW k \in 1 .. z PROVE t[at + k] = Data[k]
  <2>1. t[at + k] = u[k]
    BY <1>2, <1>5 DEF Longer
  <2>2. u[k] = f[4 - z + k] /\ f[4 - z + k] = Data[0 + k] /\ 0 + k = k
    BY <1>1, <1>2, <1>5 DEF Ends
  <2> QED
    BY <2>1, <2>2
<1>6. \A k \in 0 .. 0 - 1 : FALSE
  OBVIOUS
<1>7. Len(t) = at + (First + 0 * (2 * Size)) /\ First + 0 * Size <= Len(Data)
  BY <1>1, <1>3, <1>4
<1> QED
  BY <1>1, <1>5, <1>6, <1>7 DEF Kept

(* A frame of -d.                                                           *)
LEMMA SlowDownFrame ==
    ASSUME IInv, Accepts(orig), Size <= 4, NEW s, NEW t, NEW u, IsSeq(s),
           NEW m \in Nat, NEW at \in Nat, Kept(s, at, m), Longer(t, s, u),
           NEW f, u = [k \in 1 .. Size |-> Unknown] \o write_frame(f, Size),
           First + m * Size + Size <= Len(Data), Ends(f, Size, Data, First + m * Size)
    PROVE  Kept(t, at, m + 1)
<1>1. PICK z \in 1 .. 4 : z = Size
  BY SmallFrames
<1>2. PICK x \in Nat : x = First
  <2>1. First \in Nat
    BY Original
  <2> QED
    BY <2>1
<1>3. PICK p \in Nat : p = m * Size /\ (m + 1) * Size = p + z /\ m * (2 * Size) = 2 * p
                       /\ (m + 1) * (2 * Size) = 2 * p + 2 * z
  <2>1. m * z \in Nat /\ (m + 1) * z = m * z + z
    BY Products
  <2>2. m * (2 * z) = 2 * (m * z) /\ (m + 1) * (2 * z) = 2 * (m * z) + 2 * z
    OBVIOUS
  <2> QED
    BY <1>1, <2>1, <2>2
<1>4. Len(u) = z + z /\ \A j \in 1 .. z : u[z + j] = f[4 - z + j]
  <2>1. PICK v : v = [k \in 1 .. z |-> Unknown]
    OBVIOUS
  <2>2. IsSeq(v) /\ Len(v) = z
    BY <2>1, Tabulated
  <2>3. PICK y : y = write_frame(f, z)
    OBVIOUS
  <2>4. IsSeq(y) /\ Len(y) = z /\ \A j \in 1 .. z : y[j] = f[4 - z + j]
    BY <2>3, WrittenBytes
  <2>5. IsSeq(v) /\ IsSeq(y)
    BY <2>2, <2>4
  <2>6. Len(v \o y) = Len(v) + Len(y) /\ \A k \in 1 .. Len(y) : (v \o y)[Len(v) + k] = y[k]
    BY <2>5, Concatenated
  <2>7. u = v \o y
    BY <1>1, <2>1, <2>3
  <2> QED
    BY <2>2, <2>4, <2>6, <2>7
<1>5. /\ Len(s) = at + (x + 2 * p) /\ x + p <= Len(Data)
      /\ \A k \in 1 .. x : s[at + k] = Data[k]
      /\ \A k \in 0 .. m - 1 : \A j \in 1 .. z :
           s[at + (x + k * (2 * z) + z + j)] = Data[x + k * z + j]
  BY <1>1, <1>2, <1>3 DEF Kept
<1>6. Len(t) = at + (x + 2 * p + 2 * z) /\ \A k \in 1 .. Len(s) : t[k] = s[k]
  <2>1. Len(t) = Len(s) + Len(u) /\ Len(s) = at + (x + 2 * p) /\ Len(u) = z + z
    BY <1>4, <1>5 DEF Longer
  <2>2. at + (x + 2 * p) + (z + z) = at + (x + 2 * p + 2 * z)
    OBVIOUS
  <2> QED
    BY <2>1, <2>2 DEF Longer
<1>7. ASSUME NEW k \in 1 .. x PROVE t[at + k] = Data[k]
  BY <1>5, <1>6
<1>8. ASSUME NEW k \in 0 .. m, NEW j \in 1 .. z
      PROVE  t[at + (x + k * (2 * z) + z + j)] = Data[x + k * z + j]
  <2>1. CASE k < m
    <3>1. PICK q \in Nat : q = k * (2 * z) /\ q + 2 * z <= 2 * p
      <4>1. 2 * z \in Nat /\ k \in Nat
        OBVIOUS
      <4>2. k * (2 * z) \in Nat /\ k * (2 * z) + 2 * z <= m * (2 * z)
        BY <2>1, <4>1, Products
      <4> QED
        BY <1>1, <1>3, <4>2
    <3>2. at + (x + q + z + j) \in 1 .. Len(s)
      BY <1>5, <3>1
    <3>3. t[at + (x + q + z + j)] = s[at + (x + q + z + j)]
      BY <1>6, <3>2
    <3>4. k \in 0 .. m - 1
      BY <2>1
    <3> QED
      BY <1>5, <3>1, <3>3, <3>4
  <2>2. CASE k = m
    <3>1. k * (2 * z) = 2 * p /\ k * z = p
      BY <1>1, <1>3, <2>2
    <3>2. at + (x + 2 * p + z + j) = Len(s) + (z + j) /\ z + j \in 1 .. Len(u)
      <4>1. Len(s) = at + (x + 2 * p) /\ Len(u) = z + z
        BY <1>4, <1>5
      <4>2. at + (x + 2 * p + z + j) = at + (x + 2 * p) + (z + j) /\ z + j \in 1 .. z + z
        OBVIOUS
      <4> QED
        BY <4>1, <4>2
    <3>3. t[at + (x + 2 * p + z + j)] = u[z + j]
      BY <3>2 DEF Longer
    <3>4. u[z + j] = f[4 - z + j]
      BY <1>4
    <3>5. f[4 - z + j] = Data[x + p + j]
      BY <1>1, <1>2, <1>3 DEF Ends
    <3> QED
      BY <3>1, <3>3, <3>4, <3>5
  <2> QED
    BY <2>1, <2>2
<1>9. Len(t) = at + (x + (m + 1) * (2 * z)) /\ x + (m + 1) * z <= Len(Data)
  <2>1. x + p + z <= Len(Data)
    BY <1>1, <1>2, <1>3
  <2>2. (m + 1) * (2 * z) = 2 * p + 2 * z /\ (m + 1) * z = p + z
    BY <1>1, <1>3
  <2>3. x + 2 * p + 2 * z = x + (2 * p + 2 * z) /\ x + p + z = x + (p + z)
    OBVIOUS
  <2> QED
    BY <1>6, <2>1, <2>2, <2>3
<1>10. m + 1 - 1 = m
  OBVIOUS
<1>11. \A k \in 0 .. m + 1 - 1 : \A j \in 1 .. z :
         t[at + (x + k * (2 * z) + z + j)] = Data[x + k * z + j]
  BY <1>8, <1>10
<1> QED
  BY <1>1, <1>2, <1>7, <1>9, <1>11 DEF Kept

-----------------------------------------------------------------------------
(* The header and the annotation.                                          *)

(* What WriteHead writes.                                                   *)
LEMMA HeadWritten ==
    ASSUME IInv, Heads, pc = "write", opts.p \/ ~Overrun(ann),
           NEW a, a = IF opts.p THEN ann ELSE prepending(ann),
           NEW h, h = [hp EXCEPT !.data_size = NewSize(hp),
                                 !.data_offset = HEADER + Len(a)]
    PROVE  /\ IsSeq(a) /\ Len(a) \in Nat /\ AnnotationSize(h) = Len(a)
           /\ h.encoding = hp.encoding /\ h.channels = hp.channels
           /\ h.data_size = NewSize(hp)
<1>1. IsHeader(hp) /\ IsSeq(ann) /\ cmdlen \in Nat /\ Len(ann) <= ANNOTATION_MAX
  BY DEF IInv, Input, Heads
<1>2. PICK S : ann \in Seq(S) /\ Len(ann) \in Nat
  BY <1>1, IsInSeq
<1>3. /\ HEADER \in Nat /\ ANNOTATION_MAX \in Nat /\ WORD \in Nat
      /\ ANNOTATION_MAX < WORD
  BY SizesAssumption
<1>4. IsSeq(a) /\ Len(a) \in Nat /\ Len(a) <= ANNOTATION_MAX
  <2>1. CASE opts.p
    BY <1>1, <1>2, <2>1
  <2>2. CASE ~opts.p
    <3>1. a = prepending(ann) /\ ~Overrun(ann)
      BY <2>2
    <3>2. PICK n \in Nat : n = Padded(Len(ann) + cmdlen)
      BY <1>1, <1>2, Padding
    <3>3. IsSeq(prepending(ann)) /\ Len(prepending(ann)) = n
      BY <1>1, <1>2, <3>2, PrependingIs
    <3>4. n <= ANNOTATION_MAX
      BY <1>3, <3>1, <3>2 DEF Overrun
    <3> QED
      BY <3>1, <3>3, <3>4
  <2> QED
    BY <2>1, <2>2
<1>5. h = [x \in Fields |-> IF x = "data_offset" THEN HEADER + Len(a)
                            ELSE IF x = "data_size" THEN NewSize(hp) ELSE hp[x]]
  BY <1>1 DEF IsHeader, Fields
<1>6. /\ h.data_offset = HEADER + Len(a) /\ h.data_size = NewSize(hp)
      /\ h.encoding = hp.encoding /\ h.channels = hp.channels
  BY <1>5 DEF Fields
<1>7. AnnotationSize(h) = Len(a)
  <2>1. PICK n \in Nat : n = Len(a) /\ n < WORD
    BY <1>3, <1>4
  <2>2. h.data_offset - HEADER = n
    BY <1>3, <1>6, <2>1
  <2> QED
    BY <1>3, <2>1, <2>2, Small DEF AnnotationSize
<1> QED
  BY <1>4, <1>6, <1>7

-----------------------------------------------------------------------------
(* The steps.                                                              *)

(* Nothing has been written.                                                *)
LEMMA NotBegun ==
    ASSUME out = NoFile, pc \notin Late
    PROVE  ~Begun
<1>1. ~out.hdr.complete
  BY DEF NoFile, NoHeader
<1> QED
  BY <1>1 DEF Begun

(* A program that starts has read nothing.                                  *)
LEMMA DInvInit == Init => DInv
<1> SUFFICES ASSUME Init PROVE DInv
  OBVIOUS
<1>1. pc = "args" /\ pass = 1 /\ out = NoFile /\ frame = Zeros(4) /\ i = 0
  BY DEF Init
<1>2. ~Begun
  BY <1>1, NotBegun DEF Late
<1>3. IsFrame(frame)
  <2>1. frame = [k \in 1 .. 4 |-> frame[k]]
    BY <1>1 DEF Zeros
  <2> QED
    BY <2>1, Tabulated DEF IsFrame
<1> QED
  BY <1>1, <1>2, <1>3 DEF DInv, Heads, Crypted, SpedUp, SlowedDown

(* The command line.                                                        *)
LEMMA mainKeeps ==
    ASSUME IInv, DInv, main
    PROVE  DInv'
<1>1. [Next]_vars
  BY DEF Next
<1>2. /\ Cmd' = Cmd /\ Size' = Size
      /\ Accepts(orig)' <=> Accepts(orig)
      /\ \A data, seeds : Once(data, seeds)' <=> Once(data, seeds)
      /\ \A h : Same(h)' <=> Same(h)
  BY <1>1, Fixed
<1>3. /\ pc = "args" /\ pc' \in {"done", "header"}
      /\ UNCHANGED <<stdin, argv, pass, hp, ann, frame, i, next, noerror, out, orig>>
  BY DEF main, Exit
<1>4. out = NoFile
  BY <1>3 DEF DInv, Heads
<1>5. ~Begun'
  BY <1>3, <1>4 DEF Begun, Late, NoFile, NoHeader
<1>6. Heads'
  <2>1. Same(stdin.hdr)' <=> Same(stdin.hdr)
    BY <1>2, <1>3
  <2>2. IsFrame(frame)' <=> IsFrame(frame)
    BY <1>3 DEF IsFrame, IsSeq
  <2> QED
    BY <1>2, <1>3, <1>4, <1>5, <2>1, <2>2 DEF DInv, Heads
<1>7. Crypted'
  <2>1. DataOf(stdin)' = DataOf(stdin)
    BY <1>3 DEF DataOf, AnnotationSize
  <2> QED
    BY <1>2, <1>3, <1>5, <2>1 DEF DInv, Crypted
<1> QED
  BY <1>5, <1>6, <1>7 DEF DInv, SpedUp, SlowedDown

(* The input of either run.                                                 *)
LEMMA InputIs ==
    ASSUME IInv, pc = "header", Accepts(stdin)
    PROVE  /\ stdin = [hdr |-> stdin.hdr, rest |-> stdin.rest]
           /\ IsSeq(stdin.rest) /\ AnnotationSize(stdin.hdr) \in Nat
<1>1. pass = 1 => stdin = orig /\ orig \in Files
  BY DEF IInv, Input
<1>2. pass = 2 => Reusable(stdin)
  BY DEF IInv, Input
<1>3. pass \in {1, 2}
  BY DEF IInv, Input
<1>4. HeaderOK(stdin.hdr)
  BY DEF Accepts
<1>5. CASE pass = 1
  BY <1>1, <1>4, <1>5, OrigIs, SeqIs, SizeIs
<1>6. CASE pass = 2
  BY <1>2, <1>6, SizeIs DEF Reusable, IsFile
<1> QED
  BY <1>3, <1>5, <1>6

(* The header and the annotation are read.                                  *)
LEMMA ReadHeadKeeps ==
    ASSUME IInv, DInv, ReadHead
    PROVE  DInv'
<1>1. [Next]_vars
  BY DEF Next
<1>2. /\ Cmd' = Cmd /\ Size' = Size /\ Data' = Data
      /\ Accepts(orig)' <=> Accepts(orig)
      /\ \A data, seeds : Once(data, seeds)' <=> Once(data, seeds)
      /\ \A h : Same(h)' <=> Same(h)
  BY <1>1, Fixed
<1>3. /\ pc = "header" /\ pc' \in {"done", "write"}
      /\ UNCHANGED <<argv, pass, frame, i, next, noerror, out, orig>>
  BY DEF ReadHead, Exit
<1>4. out = NoFile
  BY <1>3 DEF DInv, Heads
<1>5. ~Begun'
  BY <1>3, <1>4 DEF Begun, Late, NoFile, NoHeader
<1>6. IsFrame(frame)' /\ i' \in Nat
  BY <1>3 DEF DInv, Heads, IsFrame, IsSeq
<1>7. CASE ~Accepts(stdin)
  <2>1. pc' = "done"
    BY <1>7 DEF ReadHead, Exit
  <2>2. Heads'
    BY <1>2, <1>3, <1>4, <1>5, <1>6, <2>1 DEF DInv, Heads
  <2> QED
    BY <1>5, <2>1, <2>2 DEF DInv, Crypted, SpedUp, SlowedDown
<1>8. CASE Accepts(stdin)
  <2>1. /\ hp' = stdin.hdr /\ pc' = "write" /\ stdin' = [stdin EXCEPT !.rest = DataOf(stdin)]
        /\ ann' = SubSeq(stdin.rest, 1, AnnotationSize(stdin.hdr))
    BY <1>8 DEF ReadHead, Exit
  <2>2. /\ stdin = [hdr |-> stdin.hdr, rest |-> stdin.rest]
        /\ IsSeq(stdin.rest) /\ AnnotationSize(stdin.hdr) \in Nat
    BY <1>3, <1>8, InputIs
  <2>3. stdin'.rest = DataOf(stdin)
    BY <2>1, <2>2
  <2>4. Len(ann') <= ANNOTATION_MAX
    <3>1. PICK n \in Nat : /\ n = AnnotationSize(stdin.hdr) /\ n <= ANNOTATION_MAX
                           /\ n > 0 => n <= Len(stdin.rest)
      BY <1>8, <2>2 DEF Accepts, SizeOK, AnnotationOK
    <3>2. PICK S : stdin.rest \in Seq(S) /\ Len(stdin.rest) \in Nat
      BY <2>2, IsInSeq
    <3>3. Len(SubSeq(stdin.rest, 1, n)) = n
      BY <3>1, <3>2
    <3> QED
      BY <2>1, <3>1, <3>3
  <2>5. pass \in {1, 2} /\ (pass = 1 => stdin = orig)
    BY <1>3 DEF IInv, Input
  <2>6. Accepts(orig)'
    BY <1>2, <1>8, <2>5 DEF DInv, Heads
  <2>7. Same(hp)'
    <3>1. Same(stdin.hdr)
      BY <1>3, <2>5 DEF DInv, Heads, Same
    <3> QED
      BY <1>2, <2>1, <3>1
  <2>8. pass = 1 => stdin'.rest = Data
    BY <2>3, <2>5 DEF Data
  <2>9. Heads'
    <3>1. IsSeq(DataOf(stdin))
      <4>1. PICK S : stdin.rest \in Seq(S) /\ Len(stdin.rest) \in Nat
        BY <2>2, IsInSeq
      <4>2. DataOf(stdin) \in Seq(S)
        BY <2>2, <4>1 DEF DataOf
      <4> QED
        BY <4>2, SeqIs
    <3>2. IsFile(stdin)'
      BY <2>1, <2>2, <3>1 DEF IsFile, IsSeq
    <3> QED
      BY <1>2, <1>3, <1>4, <1>5, <1>6, <2>1, <2>4, <2>6, <2>7, <2>8, <3>2 DEF Heads
  <2>10. Crypted'
    <3>1. \A seeds : Once(stdin.rest, seeds)' <=> Once(DataOf(stdin), seeds)
      BY <1>2, <2>3
    <3> QED
      BY <1>2, <1>3, <1>5, <2>1, <3>1 DEF DInv, Crypted
  <2> QED
    BY <1>5, <2>9, <2>10 DEF DInv, SpedUp, SlowedDown
<1> QED
  BY <1>7, <1>8

(* The loops begin.                                                         *)
LEMMA WriteHeadKeeps ==
    ASSUME IInv, IInv', DInv, WriteHead
    PROVE  DInv'
<1>1. [Next]_vars
  BY DEF Next
<1>2. /\ Cmd' = Cmd /\ Size' = Size /\ Data' = Data /\ Count' = Count
      /\ Times' = Times /\ First' = First /\ orig' = orig /\ Slowed' = Slowed
      /\ Inserted' = Inserted
      /\ Accepts(orig)' <=> Accepts(orig)
  BY <1>1, Fixed
<1>3. /\ \A data, seeds : Once(data, seeds)' <=> Once(data, seeds)
      /\ \A seeds, n : Stream(seeds, n)' <=> Stream(seeds, n)
      /\ \A r, at, data, seeds, n :
           Xored(r, at, data, seeds, n)' <=> Xored(r, at, data, seeds, n)
      /\ \A h : Same(h)' <=> Same(h)
      /\ \A r, at, m : /\ Picked(r, at, m)' <=> Picked(r, at, m)
                       /\ Length(r, at, m)' <=> Length(r, at, m)
  BY <1>1, Fixed
<1>4. /\ pc = "write" /\ i' = 0
      /\ UNCHANGED <<stdin, opts, pass, ann, frame, noerror>>
  BY DEF WriteHead
<1>5. opts = Cmd /\ pass \in {1, 2}
  BY <1>4 DEF IInv, Options, Input, Cmd
<1>6. Accepts(orig) /\ Same(hp) /\ (pass = 1 => stdin.rest = Data /\ hp = orig.hdr)
  BY <1>4 DEF DInv, Heads, IInv, Input
<1>7. IsFrame(frame)' /\ i' \in Nat
  BY <1>4 DEF DInv, Heads, IsFrame, IsSeq
<1>8. CASE pc' = "undefined"
  <2>1. ~Begun'
    BY <1>8 DEF Begun, Late
  <2> QED
    BY <1>2, <1>6, <1>7, <1>8, <2>1 DEF DInv, Heads, Crypted, SpedUp, SlowedDown
<1>10. CASE pc' = "done"
  <2>1. out' = out
    BY <1>10 DEF WriteHead
  <2>2. out = NoFile
    BY <1>4 DEF DInv, Heads
  <2>3. ~Begun'
    BY <1>10, <2>1, <2>2 DEF Begun, Late, NoFile, NoHeader
  <2> QED
    BY <1>2, <1>6, <1>7, <1>10, <2>3 DEF DInv, Heads, Crypted, SpedUp, SlowedDown
<1>9. CASE pc' \notin {"undefined", "done"}
  <2>1. PICK a, h : /\ a = IF opts.p THEN ann ELSE prepending(ann)
                    /\ h = [hp EXCEPT !.data_size = NewSize(hp),
                                      !.data_offset = HEADER + Len(a)]
    OBVIOUS
  <2>2. /\ opts.p \/ ~Overrun(ann)
        /\ hp' = h /\ out' = [hdr |-> h, rest |-> a]
        /\ pc' = (IF opts.mode = "d" THEN "first" ELSE "frames")
        /\ next' = IF opts.mode = "c" THEN opts.key % MOD ELSE next
    BY <1>9, <2>1 DEF WriteHead, Exit
  <2>3. /\ IsSeq(a) /\ Len(a) \in Nat /\ AnnotationSize(h) = Len(a)
        /\ h.encoding = hp.encoding /\ h.channels = hp.channels
        /\ h.data_size = NewSize(hp)
    BY <1>4, <2>1, <2>2, HeadWritten DEF DInv
  <2>4. out'.hdr = h /\ out'.rest = a
    BY <2>2
  <2>5. Body' = Len(a)
    BY <2>3, <2>4 DEF Body, AnnotationSize
  <2>6. Begun' /\ pc' \in Late
    BY <2>2 DEF Begun, Late
  <2>7. Same(hp)'
    <3>1. Cmd.mode = "c" => NewSize(hp) = hp.data_size
      BY <1>5 DEF NewSize
    <3>2. Same(h)
      BY <1>6, <2>3, <3>1 DEF Same
    <3> QED
      BY <1>3, <2>2, <3>2
  <2>8. Heads'
    <3>1. IsFile(out)'
      BY <2>6 DEF IInv, Output
    <3>2. IsFile(stdin)'
      BY <1>4 DEF DInv, Heads, IsFile, IsSeq
    <3> QED
      BY <1>2, <1>5, <1>6, <1>7, <2>2, <2>3, <2>4, <2>5, <2>6, <2>7, <3>1, <3>2
      DEF Heads, Late
  <2>9. /\ Size \in Nat \ {0} /\ Count \in Nat /\ Times \in Nat \ {0}
        /\ IsSeq(Data) /\ Len(Data) \in Nat
    BY <1>6, Original
  <2>10. 0 * Size = 0 /\ Times * 0 = 0 /\ Len(a) + 0 * Size = Len(a)
    BY <2>3, <2>9
  <2>11. ASSUME NEW data, IsSeq(data), stdin.rest = data PROVE Behind(data, 0, stdin.rest)
    BY <2>11, IsInSeq DEF Behind
  <2>12. ASSUME Cmd.mode = "c", Size <= 4
         PROVE  \E data, seeds : CryptLoop(data, seeds)'
    <3>1. PICK seed \in Int : seed = Cmd.key % MOD
      <4>1. Cmd.key \in Nat
        BY FactorIs DEF Cmd
      <4> QED
        BY <4>1, GeneratorAssumption
    <3>2. PICK data, seeds : /\ IsSeq(data) /\ stdin.rest = data /\ Stream(seeds, 0)
                             /\ pass = 1 => data = Data
                             /\ pass = 2 => Once(data, seeds)
      <4>1. CASE pass = 1
        <5>1. PICK seeds : seeds = [k \in Nat |-> seed]
          OBVIOUS
        <5>2. Stream(seeds, 0)
          BY <3>1, <5>1 DEF Stream
        <5> QED
          BY <1>6, <2>9, <4>1, <5>2
      <4>2. CASE pass = 2
        <5>1. PICK seeds : Once(stdin.rest, seeds)
          BY <1>4, <2>12, <4>2 DEF DInv, Crypted
        <5>2. IsSeq(stdin.rest) /\ Stream(seeds, Count)
          BY <5>1 DEF Once
        <5>3. Stream(seeds, 0)
          BY <5>2 DEF Stream
        <5> QED
          BY <4>2, <5>1, <5>2, <5>3
      <4> QED
        BY <1>5, <4>1, <4>2
    <3>3. Xored(a, Len(a), data, seeds, 0)
      BY DEF Xored
    <3>4. pc' = "frames" /\ next' = seeds[0]
      BY <1>5, <2>2, <2>12, <3>2 DEF Stream
    <3>5. Behind(data, 0, stdin.rest)
      BY <2>11, <3>2
    <3>6. Behind(data, i * Size, stdin.rest)'
      BY <1>2, <1>4, <2>10, <3>5 DEF Behind, IsSeq
    <3>7. Xored(out.rest, Body, data, seeds, i)' /\ Stream(seeds, i)'
      BY <1>3, <1>4, <2>4, <2>5, <3>2, <3>3
    <3>8. Once(data, seeds)' <=> Once(data, seeds)
      BY <1>3
    <3>9. IsSeq(data)'
      BY <3>2 DEF IsSeq
    <3>10. (i <= Count)' /\ (Len(out.rest) = Body + i * Size)'
      BY <1>2, <1>4, <2>4, <2>5, <2>9, <2>10
    <3>11. CryptLoop(data, seeds)'
      BY <1>2, <1>4, <3>2, <3>4, <3>6, <3>7, <3>8, <3>9, <3>10 DEF CryptLoop
    <3> QED
      BY <3>11
  <2>13. Crypted'
    BY <1>2, <2>2, <2>12 DEF Crypted
  <2>14. SpedUp'
    <3> SUFFICES ASSUME pass = 1, Cmd.mode = "u", Size <= 4
                 PROVE  /\ h.data_size = ((orig.hdr.data_size \div Size + 1) * Times) % WORD
                        /\ Length(a, Len(a), 0) /\ Picked(a, Len(a), 0)
                        /\ pc' = "frames" /\ Behind(Data, 0, stdin.rest)
      <4>1. (Length(out.rest, Body, i)' <=> Length(a, Len(a), 0))
            /\ (Picked(out.rest, Body, i)' <=> Picked(a, Len(a), 0))
        BY <1>3, <1>4, <2>4, <2>5
      <4>2. Behind(Data, i * Size, stdin.rest)' <=> Behind(Data, 0, stdin.rest)
        BY <1>2, <1>4, <2>10 DEF Behind, IsSeq
      <4> QED
        BY <1>2, <1>4, <2>2, <4>1, <4>2 DEF SpedUp
    <3>1. h.data_size = ((orig.hdr.data_size \div Size + 1) * Times) % WORD
      BY <1>5, <1>6, <2>3 DEF NewSize, Factor, Times, Size
    <3>2. Length(a, Len(a), 0)
      <4>1. 0 \in Nat /\ Len(a) = Len(a) + 0 * Size /\ 0 <= Times * 0 /\ Times * 0 < 0 + Times
        BY <2>3, <2>9, <2>10
      <4> QED
        BY <4>1 DEF Length
    <3>3. Picked(a, Len(a), 0)
      BY DEF Picked
    <3>4. pc' = "frames" /\ Behind(Data, 0, stdin.rest)
      BY <1>5, <1>6, <2>2, <2>9, <2>11
    <3> QED
      BY <3>1, <3>2, <3>3, <3>4
  <2>15. SlowedDown'
    <3> SUFFICES ASSUME pass = 1, Cmd.mode = "d"
                 PROVE  /\ pc' = "first" /\ Behind(Data, 0, stdin.rest)
                        /\ h.data_size = Slowed
      <4>1. Behind(Data, 0, stdin.rest)' <=> Behind(Data, 0, stdin.rest)
        BY <1>2, <1>4 DEF Behind, IsSeq
      <4> QED
        BY <1>2, <1>4, <2>2, <2>4, <2>5, <4>1 DEF SlowedDown
    <3>1. h.data_size = Slowed
      BY <1>5, <1>6, <2>3 DEF NewSize, Factor, Times, Size, Slowed
    <3> QED
      BY <1>5, <1>6, <2>2, <2>9, <2>11, <3>1
  <2> QED
    BY <2>8, <2>13, <2>14, <2>15 DEF DInv
<1> QED
  BY <1>8, <1>9, <1>10

(* The loops leave the header and the place of the data alone.              *)
LEMMA LoopHeads ==
    ASSUME IInv, IInv', Heads, [Next]_vars, pc \in Late, pc' = "frames",
           UNCHANGED <<pass, hp>>, NEW u, NEW ok, IsSeq(u), Emit(u, ok), IsFrame(frame'),
           i' \in Nat, IsFile(stdin')
    PROVE  Heads'
<1>1. /\ out'.hdr = out.hdr /\ IsFile(out)' /\ Body' = Body
      /\ Len(out'.rest) \in Nat /\ Len(out.rest) <= Len(out'.rest)
      /\ Len(out.rest) \in Nat
  BY Emitted
<1>2. Begun /\ Begun'
  BY DEF Begun, Late
<1>3. Accepts(orig) /\ Same(hp) /\ out.hdr = hp /\ Body \in Nat /\ Body <= Len(out.rest)
  BY <1>2 DEF Heads
<1>4. (Accepts(orig)' <=> Accepts(orig)) /\ \A h : Same(h)' <=> Same(h)
  BY Fixed
<1>5. Same(hp)'
  BY <1>3, <1>4
<1>6. (Body <= Len(out.rest))'
  BY <1>1, <1>3
<1>7. IsFrame(frame)' /\ IsFile(stdin)'
  BY DEF IsFrame, IsSeq, IsFile
<1> QED
  BY <1>1, <1>2, <1>3, <1>4, <1>5, <1>6, <1>7 DEF Heads, Late

(* What read_frame leaves, whatever it finds.                               *)
LEMMA AnyRead ==
    ASSUME IsFile(stdin), NEW f, IsFrame(f), NEW n \in Nat \ {0},
           NEW r, r = read_frame(f, n), stdin' = [stdin EXCEPT !.rest = r.rest]
    PROVE  IsFrame(r.frame) /\ stdin'.rest = r.rest /\ IsFile(stdin')
<1>1. IsSeq(stdin.rest) /\ stdin = [hdr |-> stdin.hdr, rest |-> stdin.rest]
  BY DEF IsFile
<1>2. Behind(stdin.rest, 0, stdin.rest)
  BY <1>1, IsInSeq DEF Behind
<1>3. IsFrame(r.frame) /\ Behind(stdin.rest, 0 + n, r.rest)
  BY <1>1, <1>2, FrameRead
<1>4. stdin' = [hdr |-> stdin.hdr, rest |-> r.rest] /\ IsSeq(r.rest)
  BY <1>1, <1>3 DEF Behind
<1> QED
  BY <1>3, <1>4 DEF IsFile

(* The sizes of the frames are those of the original file.                  *)
LEMMA LoopSizes ==
    ASSUME IInv, Heads, pc \in Late
    PROVE  /\ Accepts(orig) /\ FrameSize(hp) = Size /\ hp.channels = orig.hdr.channels
           /\ hp.encoding = orig.hdr.encoding /\ opts = Cmd /\ Factor = Times
           /\ Cmd.mode = "c" => hp.data_size = orig.hdr.data_size
           /\ i \in Nat /\ IsFrame(frame) /\ pass \in {1, 2} /\ Body \in Nat
           /\ Size \in Nat \ {0} /\ Times \in Nat \ {0} /\ First \in Nat \ {0}
           /\ IsSeq(Data) /\ Begun /\ IsFile(stdin)
<1>1. Begun
  BY DEF Begun
<1>2. /\ Accepts(orig) /\ Same(hp) /\ i \in Nat /\ IsFrame(frame) /\ Body \in Nat
      /\ IsFile(stdin)
  BY <1>1 DEF Heads, Late
<1>3. opts = Cmd /\ pass \in {1, 2}
  BY DEF IInv, Options, Input, Cmd, Late
<1>4. Factor = Times
  BY <1>3 DEF Factor, Times
<1>5. /\ FrameSize(hp) = Size /\ hp.channels = orig.hdr.channels
      /\ hp.encoding = orig.hdr.encoding
      /\ Cmd.mode = "c" => hp.data_size = orig.hdr.data_size
  BY <1>2 DEF Same, Size, FrameSize
<1>6. /\ Size \in Nat \ {0} /\ Times \in Nat \ {0} /\ First \in Nat \ {0} /\ IsSeq(Data)
  BY <1>2, Original
<1> QED
  BY <1>1, <1>2, <1>3, <1>4, <1>5, <1>6

(* A round of -u.                                                           *)
LEMMA SpeedUpKeeps ==
    ASSUME IInv, IInv', DInv, SpeedUp
    PROVE  DInv'
<1>1. [Next]_vars
  BY DEF Next
<1>2. /\ Cmd' = Cmd /\ Size' = Size /\ Data' = Data /\ Times' = Times /\ orig' = orig
      /\ \A r, at, m : /\ Picked(r, at, m)' <=> Picked(r, at, m)
                       /\ Length(r, at, m)' <=> Length(r, at, m)
  BY <1>1, Fixed
<1>3. /\ pc = "frames" /\ opts.mode = "u" /\ i' = i + 1
      /\ UNCHANGED <<opts, pass, pc, hp>>
  BY DEF SpeedUp
<1>4. pc \in Late /\ pc' \in Late /\ Heads
  BY <1>3 DEF Late, DInv
<1>5. /\ Accepts(orig) /\ FrameSize(hp) = Size /\ opts = Cmd /\ Factor = Times
      /\ i \in Nat /\ IsFrame(frame) /\ Body \in Nat /\ Size \in Nat \ {0}
      /\ IsSeq(Data) /\ Begun /\ IsFile(stdin)
  BY <1>4, LoopSizes
<1>6. PICK r : r = read_frame(frame, Size)
  OBVIOUS
<1>7. PICK u : u = IF i % Times = 0 THEN write_frame(r.frame, Size) ELSE <<>>
  OBVIOUS
<1>8. frame' = r.frame /\ stdin' = [stdin EXCEPT !.rest = r.rest] /\ Emit(u, TRUE)
  BY <1>5, <1>6, <1>7 DEF SpeedUp
<1>9. IsSeq(u)
  <2>1. IsSeq(write_frame(r.frame, Size)) /\ IsSeq(<<>>)
    BY <1>5, Frames DEF IsSeq
  <2> QED
    BY <1>7, <2>1
<1>10. PICK t : t = out'.rest /\ (~lost' => Longer(t, out.rest, u))
  BY <1>4, <1>8, <1>9, Emitted
<1>11. Body' = Body /\ IsSeq(out.rest) /\ (~lost' => ~lost)
  BY <1>4, <1>8, <1>9, Emitted
<1>12. IsFrame(r.frame) /\ stdin'.rest = r.rest /\ IsFile(stdin')
  BY <1>5, <1>6, <1>8, AnyRead
<1>13. Heads'
  <2>1. PICK ok : Emit(u, ok)
    BY <1>8, Zenon
  <2>2. IsFrame(frame') /\ i' \in Nat /\ pass' = pass /\ hp' = hp /\ pc' = "frames"
    BY <1>3, <1>5, <1>8, <1>12
  <2> QED
    BY <1>1, <1>4, <1>9, <1>12, <2>1, <2>2, LoopHeads
<1>14. SpedUp'
  <2> SUFFICES ASSUME pass = 1, Size <= 4, ~lost'
               PROVE  /\ hp.data_size = ((orig.hdr.data_size \div Size + 1) * Times) % WORD
                      /\ Length(t, Body, i + 1) /\ Picked(t, Body, i + 1)
                      /\ Behind(Data, (i + 1) * Size, r.rest)
    <3>1. (Length(out.rest, Body, i)' <=> Length(t, Body, i + 1))
          /\ (Picked(out.rest, Body, i)' <=> Picked(t, Body, i + 1))
      BY <1>2, <1>3, <1>10, <1>11
    <3>2. Behind(Data, i * Size, stdin.rest)' <=> Behind(Data, (i + 1) * Size, r.rest)
      BY <1>2, <1>3, <1>12 DEF Behind, IsSeq
    <3> QED
      BY <1>2, <1>3, <3>1, <3>2 DEF SpedUp
  <2>1. /\ hp.data_size = ((orig.hdr.data_size \div Size + 1) * Times) % WORD
        /\ Length(out.rest, Body, i) /\ Picked(out.rest, Body, i)
        /\ Behind(Data, i * Size, stdin.rest)
    BY <1>3, <1>5, <1>11 DEF DInv, SpedUp
  <2>2. PICK p \in Nat : p = i * Size /\ (i + 1) * Size = p + Size
    BY <1>5, Products
  <2>3. /\ Behind(Data, p + Size, r.rest)
        /\ p + Size <= Len(Data) => Ends(r.frame, Size, Data, p)
    <3>1. Behind(Data, p, stdin.rest)
      BY <2>1, <2>2
    <3> QED
      BY <1>5, <1>6, <3>1, FrameRead
  <2>4. Length(t, Body, i + 1) /\ Picked(t, Body, i + 1)
    <3>1. i * Size + Size <= Len(Data) => Ends(r.frame, Size, Data, i * Size)
      BY <2>2, <2>3
    <3> QED
      BY <1>5, <1>7, <1>10, <1>11, <2>1, <3>1, SpeedUpFrame
  <2> QED
    BY <2>1, <2>2, <2>3, <2>4
<1>15. Crypted' /\ SlowedDown'
  BY <1>2, <1>3, <1>5 DEF Crypted, SlowedDown
<1> QED
  BY <1>13, <1>14, <1>15 DEF DInv

(* The first frame of -d.                                                   *)
LEMMA SlowDownFirstKeeps ==
    ASSUME IInv, IInv', DInv, SlowDownFirst
    PROVE  DInv'
<1>1. [Next]_vars
  BY DEF Next
<1>2. /\ Cmd' = Cmd /\ Size' = Size /\ Data' = Data /\ First' = First /\ orig' = orig
      /\ Slowed' = Slowed /\ Inserted' = Inserted
      /\ \A r, at, m : Kept(r, at, m)' <=> Kept(r, at, m)
  BY <1>1, Fixed
<1>3. /\ pc = "first" /\ pc' = "frames" /\ UNCHANGED <<opts, pass, hp, i>>
  BY DEF SlowDownFirst
<1>4. pc \in Late /\ pc' \in Late /\ Heads
  BY <1>3 DEF Late, DInv
<1>5. /\ Accepts(orig) /\ hp.channels * Factor = First /\ i \in Nat /\ IsFrame(frame)
      /\ Body \in Nat /\ First \in Nat \ {0} /\ Size \in Nat \ {0}
      /\ IsSeq(Data) /\ Begun /\ IsFile(stdin)
  BY <1>4, LoopSizes DEF First
<1>6. PICK r : r = read_frame(frame, First)
  OBVIOUS
<1>7. PICK u : u = write_frame(r.frame, First)
  OBVIOUS
<1>8. frame' = r.frame /\ stdin' = [stdin EXCEPT !.rest = r.rest] /\ Emit(u, TRUE)
  BY <1>5, <1>6, <1>7 DEF SlowDownFirst
<1>9. IsSeq(u)
  BY <1>5, <1>7, Frames
<1>10. PICK t : t = out'.rest /\ (~lost' => Longer(t, out.rest, u))
  BY <1>4, <1>8, <1>9, Emitted
<1>11. Body' = Body /\ IsSeq(out.rest) /\ (~lost' => ~lost)
  BY <1>4, <1>8, <1>9, Emitted
<1>12. IsFrame(r.frame) /\ stdin'.rest = r.rest /\ IsFile(stdin')
  BY <1>5, <1>6, <1>8, AnyRead
<1>13. Heads'
  BY <1>1, <1>3, <1>4, <1>5, <1>8, <1>9, <1>12, LoopHeads
<1>14. SlowedDown'
  <2> SUFFICES ASSUME pass = 1, Cmd.mode = "d", Size <= 4, First <= 4, First <= Len(Data),
                      ~lost'
               PROVE  /\ i = 0 /\ Kept(t, Body, 0) /\ Behind(Data, First + 0 * Size, r.rest)
                      /\ hp.data_size = Slowed /\ i <= Inserted
    <3>1. i = 0 => (Kept(out.rest, Body, i)' <=> Kept(t, Body, 0))
      BY <1>2, <1>3, <1>10, <1>11
    <3>2. i = 0 =>
            (Behind(Data, First + i * Size, stdin.rest)' <=> Behind(Data, First + 0 * Size, r.rest))
      BY <1>2, <1>3, <1>12 DEF Behind, IsSeq
    <3> QED
      BY <1>2, <1>3, <3>1, <3>2 DEF SlowedDown
  <2>1. /\ i = 0 /\ Len(out.rest) = Body /\ Behind(Data, 0, stdin.rest)
        /\ hp.data_size = Slowed
    BY <1>3, <1>5, <1>11 DEF DInv, SlowedDown
  <2>5. i <= Inserted
    <3>1. Inserted \in Nat
      BY <1>5, Original
    <3> QED
      BY <2>1, <3>1
  <2>2. /\ Behind(Data, 0 + First, r.rest)
        /\ 0 + First <= Len(Data) => Ends(r.frame, First, Data, 0)
    BY <1>5, <1>6, <2>1, FrameRead
  <2>3. 0 + First = First /\ First + 0 * Size = First
    BY <1>5
  <2>4. Kept(t, Body, 0)
    BY <1>5, <1>7, <1>10, <2>1, <2>2, <2>3, SlowDownFirstFrame
  <2> QED
    BY <2>1, <2>2, <2>3, <2>4, <2>5
<1>15. Crypted' /\ SpedUp'
  <2>1. Cmd.mode = "d"
    BY <1>3 DEF DInv, Heads
  <2> QED
    BY <1>2, <2>1 DEF Crypted, SpedUp
<1> QED
  BY <1>13, <1>14, <1>15 DEF DInv

(* A round of -d.                                                           *)
LEMMA InterpolatedKeeps ==
    ASSUME IInv, IInv', DInv, SlowDown
    PROVE  DInv'
<1>1. [Next]_vars
  BY DEF Next
<1>2. /\ Cmd' = Cmd /\ Size' = Size /\ Data' = Data /\ First' = First /\ orig' = orig
      /\ Slowed' = Slowed /\ Inserted' = Inserted
      /\ \A r, at, m : Kept(r, at, m)' <=> Kept(r, at, m)
  BY <1>1, Fixed
<1>3. /\ pc = "frames" /\ opts.mode = "d" /\ i < Rounds /\ i' = i + 1
      /\ UNCHANGED <<opts, pass, pc, hp>>
  BY DEF SlowDown
<1>4. pc \in Late /\ pc' = "frames" /\ Heads
  BY <1>3 DEF Late, DInv
<1>5. /\ Accepts(orig) /\ FrameSize(hp) = Size /\ opts = Cmd /\ i \in Nat
      /\ Body \in Nat /\ Size \in Nat \ {0} /\ First \in Nat \ {0}
      /\ IsSeq(Data) /\ Begun /\ IsFile(stdin) /\ Factor = Times
      /\ hp.encoding = orig.hdr.encoding
  BY <1>4, LoopSizes
<1>6. PICK f : f = [k \in 1 .. 4 |-> Unknown] /\ IsFrame(f)
  <2>1. PICK f : f = [k \in 1 .. 4 |-> Unknown]
    OBVIOUS
  <2>2. f = [k \in 1 .. 4 |-> f[k]]
    BY <2>1
  <2>3. IsSeq(f) /\ Len(f) = 4
    BY <2>2, Tabulated
  <2> QED
    BY <2>1, <2>3 DEF IsFrame
<1>7. PICK r : r = read_frame(f, Size)
  OBVIOUS
<1>8. PICK u : u = [k \in 1 .. Size |-> Unknown] \o write_frame(r.frame, Size)
  OBVIOUS
<1>9. /\ frame' = r.frame /\ stdin' = [stdin EXCEPT !.rest = r.rest] /\ Emit(u, r.ok)
  BY <1>5, <1>6, <1>7, <1>8 DEF SlowDown
<1>10. IsSeq(u)
  <2>1. IsSeq([k \in 1 .. Size |-> Unknown])
    BY <1>5, Tabulated
  <2>2. IsSeq(write_frame(r.frame, Size))
    BY <1>5, Frames
  <2> QED
    BY <1>8, <2>1, <2>2, Concatenated
<1>11. PICK t : t = out'.rest /\ (~lost' => Longer(t, out.rest, u))
  BY <1>4, <1>9, <1>10, Emitted
<1>12. /\ Body' = Body /\ IsSeq(out.rest)
       /\ ~lost' => ~lost /\ (noerror' => noerror /\ r.ok)
  BY <1>4, <1>9, <1>10, Emitted
<1>13. IsFrame(r.frame) /\ stdin'.rest = r.rest /\ IsFile(stdin')
  BY <1>5, <1>6, <1>7, <1>9, AnyRead
<1>14. Heads'
  BY <1>1, <1>3, <1>4, <1>5, <1>9, <1>10, <1>13, LoopHeads
<1>15. SlowedDown'
  <2>7. ASSUME pass = 1, Size <= 4, First <= 4, First <= Len(Data), ~lost
        PROVE  hp.data_size = Slowed /\ i + 1 <= Inserted
    <3>1. SlowedDown /\ Cmd.mode = "d"
      BY <1>3, <1>5 DEF DInv
    <3>2. hp.data_size = Slowed
      BY <1>5, <2>7, <3>1, Zenon DEF SlowedDown
    <3>3. Rounds = Inserted
      BY <1>3, <1>5, <3>2 DEF Rounds, Inserted
    <3>4. Inserted \in Nat
      BY <1>5, Original
    <3> QED
      BY <1>3, <1>5, <3>2, <3>3, <3>4
  <2> SUFFICES ASSUME pass = 1, Size <= 4, First <= 4, First <= Len(Data), noerror, r.ok,
                      ~lost, ~lost'
               PROVE  Kept(t, Body, i + 1) /\ Behind(Data, First + (i + 1) * Size, r.rest)
    <3>1. Kept(out.rest, Body, i)' <=> Kept(t, Body, i + 1)
      BY <1>2, <1>3, <1>11, <1>12
    <3>2. Behind(Data, First + i * Size, stdin.rest)'
            <=> Behind(Data, First + (i + 1) * Size, r.rest)
      BY <1>2, <1>3, <1>13 DEF Behind, IsSeq
    <3> QED
      BY <1>2, <1>3, <1>12, <2>7, <3>1, <3>2 DEF SlowedDown
  <2>1. Kept(out.rest, Body, i) /\ Behind(Data, First + i * Size, stdin.rest)
    <3>1. SlowedDown /\ Cmd.mode = "d"
      BY <1>3, <1>5 DEF DInv
    <3> QED
      BY <1>3, <1>5, <3>1, Zenon DEF SlowedDown
  <2>2. PICK p \in Nat : p = First + i * Size /\ First + (i + 1) * Size = p + Size
    <3>1. i * Size \in Nat /\ (i + 1) * Size = i * Size + Size
      BY <1>5, Products
    <3>2. \A x, y, z \in Nat : x + (y + z) = x + y + z /\ x + y \in Nat
      OBVIOUS
    <3> QED
      BY <1>5, <3>1, <3>2
  <2>3. Behind(Data, p, stdin.rest)
    BY <2>1, <2>2
  <2>4. /\ Behind(Data, p + Size, r.rest) /\ p + Size <= Len(Data)
        /\ Ends(r.frame, Size, Data, p)
    <3>1. /\ Behind(Data, p + Size, r.rest)
          /\ r.ok <=> p + Size <= Len(Data)
          /\ p + Size <= Len(Data) /\ Size <= 4 => Ends(r.frame, Size, Data, p)
      BY <1>5, <1>6, <1>7, <2>3, FrameRead
    <3>2. p + Size <= Len(Data)
      BY <3>1, Zenon
    <3> QED
      BY <3>1, <3>2, Zenon
  <2>5. First + i * Size + Size <= Len(Data) /\ Ends(r.frame, Size, Data, First + i * Size)
    BY <2>2, <2>4
  <2>6. Kept(t, Body, i + 1)
    BY <1>5, <1>8, <1>11, <1>12, <2>1, <2>5, SlowDownFrame
  <2> QED
    BY <2>2, <2>4, <2>6
<1>16. Crypted' /\ SpedUp'
  BY <1>2, <1>3, <1>5 DEF Crypted, SpedUp
<1> QED
  BY <1>14, <1>15, <1>16 DEF DInv

(* The states of the generator.                                             *)
LEMMA SeedsAreNumbers ==
    ASSUME NEW s \in Int
    PROVE  \A k \in 1 .. 4 : Seeds(s)[k] \in Int
<1>1. MULT \in Int /\ INC \in Int /\ MOD \in Nat \ {0}
  BY GeneratorAssumption
<1> DEFINE Step(x) == (x * MULT + INC) % MOD
<1>2. \A x \in Int : Step(x) \in Int
  <2> TAKE x \in Int
  <2>1. x * MULT + INC \in Int
    BY <1>1
  <2> QED
    BY <1>1, <2>1, Division
<1>3. Seeds(s) = <<Step(s), Step(Step(s)), Step(Step(Step(s))), Step(Step(Step(Step(s))))>>
  BY DEF Seeds
<1> HIDE DEF Step
<1>4. Step(s) \in Int /\ Step(Step(s)) \in Int /\ Step(Step(Step(s))) \in Int
      /\ Step(Step(Step(Step(s)))) \in Int
  BY <1>2
<1> QED
  BY <1>3, <1>4

(* One more number is drawn.                                                *)
LEMMA StreamMore ==
    ASSUME NEW seeds, NEW n \in Nat, Stream(seeds, n)
    PROVE  \E more : /\ Stream(more, n + 1) /\ more[n + 1] = Advance(seeds[n])
                     /\ \A k \in 0 .. n : more[k] = seeds[k]
<1>1. seeds \in [Nat -> Int] /\ seeds[0] = Cmd.key % MOD
      /\ \A k \in 0 .. n - 1 : seeds[k + 1] = Advance(seeds[k])
  BY DEF Stream
<1>2. PICK x \in Int : x = Advance(seeds[n])
  <2>1. \A y \in Int : Advance(y) \in Int
    BY SeedsAreNumbers DEF Advance
  <2> QED
    BY <1>1, <2>1
<1>3. PICK more : more = [seeds EXCEPT ![n + 1] = x]
  OBVIOUS
<1>4. more \in [Nat -> Int] /\ more[n + 1] = x /\ \A k \in 0 .. n : more[k] = seeds[k]
  BY <1>1, <1>3
<1>5. \A k \in 0 .. n : more[k + 1] = Advance(more[k])
  <2> TAKE k \in 0 .. n
  <2>1. CASE k = n
    BY <1>2, <1>4, <2>1
  <2>2. CASE k # n
    <3>1. k \in 0 .. n - 1 /\ k \in 0 .. n /\ k + 1 \in 0 .. n
      BY <2>2
    <3> QED
      BY <1>1, <1>4, <3>1
  <2> QED
    BY <2>1, <2>2
<1>6. n + 1 - 1 = n /\ 0 \in 0 .. n
  OBVIOUS
<1>7. Stream(more, n + 1)
  <2>1. more[0] = Cmd.key % MOD
    BY <1>1, <1>4, <1>6
  <2>2. \A k \in 0 .. n + 1 - 1 : more[k + 1] = Advance(more[k])
    BY <1>5, <1>6
  <2>3. more \in [Nat -> Int] /\ more[0] = Cmd.key % MOD
        /\ \A k \in 0 .. n + 1 - 1 : more[k + 1] = Advance(more[k])
    BY <1>4, <2>1, <2>2
  <2> QED
    BY <2>3 DEF Stream
<1> QED
  BY <1>2, <1>4, <1>6, <1>7, Zenon

(* Only the numbers that were drawn matter.                                 *)
LEMMA XoredSame ==
    ASSUME NEW s, NEW at, NEW data, NEW seeds, NEW more, NEW m \in Nat,
           Xored(s, at, data, seeds, m + 1), \A k \in 0 .. m : more[k] = seeds[k]
    PROVE  Xored(s, at, data, more, m + 1)
<1>1. ASSUME NEW k \in 0 .. m + 1 - 1, k * Size + Size <= Len(data), NEW j \in 1 .. Size
      PROVE  s[at + (k * Size + j)] = (Byte(more[k], j) + data[k * Size + j]) % 2
  <2>1. s[at + (k * Size + j)] = (Byte(seeds[k], j) + data[k * Size + j]) % 2
    BY <1>1 DEF Xored
  <2>2. more[k] = seeds[k]
    OBVIOUS
  <2> QED
    BY <2>1, <2>2, Zenon
<1> QED
  BY <1>1 DEF Xored

(* A round of -c.                                                           *)
LEMMA CryptKeeps ==
    ASSUME IInv, IInv', DInv, Crypt
    PROVE  DInv'
<1>1. [Next]_vars
  BY DEF Next
<1>2. /\ Cmd' = Cmd /\ Size' = Size /\ Data' = Data /\ Count' = Count /\ orig' = orig
      /\ \A data, seeds : Once(data, seeds)' <=> Once(data, seeds)
      /\ \A seeds, n : Stream(seeds, n)' <=> Stream(seeds, n)
      /\ \A q, at, data, seeds, n :
           Xored(q, at, data, seeds, n)' <=> Xored(q, at, data, seeds, n)
  BY <1>1, Fixed
<1>3. /\ pc = "frames" /\ opts.mode = "c" /\ i < Rounds /\ i' = i + 1
      /\ UNCHANGED <<opts, pass, pc, hp>>
  BY DEF Crypt
<1>4. pc \in Late /\ pc' = "frames" /\ Heads
  BY <1>3 DEF Late, DInv
<1>5. /\ Accepts(orig) /\ FrameSize(hp) = Size /\ opts = Cmd /\ i \in Nat
      /\ hp.channels = orig.hdr.channels /\ hp.encoding = orig.hdr.encoding
      /\ Body \in Nat /\ Size \in Nat \ {0} /\ pass \in {1, 2}
      /\ IsFrame(frame) /\ Begun /\ IsFile(stdin)
  BY <1>4, LoopSizes
<1>6. i < Count /\ Count \in Nat
  <2>1. hp.data_size = orig.hdr.data_size
    BY <1>3, <1>4, <1>5, LoopSizes
  <2>2. Rounds = Count
    BY <1>3, <1>5, <2>1 DEF Rounds, Count
  <2> QED
    BY <1>3, <1>5, <2>2, Original
<1>7. PICK r : r = read_frame(frame, Size)
  OBVIOUS
<1>8. PICK w : w = Xor(Pad(next, orig.hdr.encoding, orig.hdr.channels), r.frame)
  OBVIOUS
<1>9. PICK u : u = write_frame(w, Size)
  OBVIOUS
<1>10. /\ frame' = r.frame /\ stdin' = [stdin EXCEPT !.rest = r.rest] /\ Emit(u, TRUE)
       /\ next' = Advance(next)
  BY <1>5, <1>7, <1>8, <1>9 DEF Crypt, Advance
<1>11. IsSeq(u)
  BY <1>5, <1>9, Frames
<1>12. PICK t : t = out'.rest /\ (~lost' => Longer(t, out.rest, u))
  BY <1>4, <1>10, <1>11, Emitted
<1>13. Body' = Body /\ (~lost' => ~lost)
  BY <1>4, <1>10, <1>11, Emitted
<1>14. IsFrame(r.frame) /\ stdin'.rest = r.rest /\ IsFile(stdin')
  BY <1>5, <1>7, <1>10, AnyRead
<1>15. Heads'
  <2>1. PICK ok : Emit(u, ok)
    BY <1>10, Zenon
  <2>2. IsFrame(frame') /\ i' \in Nat /\ pass' = pass /\ hp' = hp
    BY <1>3, <1>5, <1>10, <1>14
  <2> QED
    BY <1>1, <1>4, <1>11, <1>14, <2>1, <2>2, LoopHeads
<1>16. ASSUME Size <= 4, ~lost' PROVE \E data, seeds : CryptLoop(data, seeds)'
  <2>1. PICK data, seeds : CryptLoop(data, seeds)
    BY <1>3, <1>5, <1>13, <1>16 DEF DInv, Crypted
  <2>2. /\ IsSeq(data) /\ (pass = 1 => data = Data) /\ (pass = 2 => Once(data, seeds))
        /\ Stream(seeds, i) /\ Len(out.rest) = Body + i * Size
        /\ Xored(out.rest, Body, data, seeds, i)
        /\ next = seeds[i] /\ Behind(data, i * Size, stdin.rest)
    BY <1>3, <2>1 DEF CryptLoop
  <2>3. PICK p \in Nat : p = i * Size /\ (i + 1) * Size = p + Size
    BY <1>5, Products
  <2>4. /\ Behind(data, p + Size, r.rest)
        /\ p + Size <= Len(data) => Ends(r.frame, Size, data, p)
    <3>1. Behind(data, p, stdin.rest)
      BY <2>2, <2>3
    <3> QED
      BY <1>5, <1>7, <1>16, <2>2, <3>1, FrameRead
  <2>5. Len(t) = Body + (i + 1) * Size /\ Xored(t, Body, data, seeds, i + 1)
    <3>1. i * Size + Size <= Len(data) => Ends(r.frame, Size, data, i * Size)
      BY <2>3, <2>4
    <3>2. w = Xor(Pad(seeds[i], orig.hdr.encoding, orig.hdr.channels), r.frame)
      BY <1>8, <2>2
    <3>3. PICK at \in Nat : at = Body
      BY <1>5
    <3>4. PICK s : /\ Len(s) = at + i * Size /\ Xored(s, at, data, seeds, i)
                   /\ Longer(t, s, u)
      BY <1>12, <1>16, <2>2, <3>3
    <3>5. Len(t) = at + (i + 1) * Size /\ Xored(t, at, data, seeds, i + 1)
      BY <1>5, <1>9, <1>16, <3>1, <3>2, <3>4, CryptFrame
    <3> QED
      BY <3>3, <3>5
  <2>6. PICK more : /\ Stream(more, i + 1) /\ Xored(t, Body, data, more, i + 1)
                    /\ next' = more[i + 1] /\ (pass = 2 => Once(data, more))
    <3>1. CASE pass = 2
      <4>1. Stream(seeds, Count)
        BY <2>2, <3>1 DEF Once
      <4>2. seeds[i + 1] = Advance(seeds[i]) /\ Stream(seeds, i + 1)
        <5>1. i \in 0 .. Count - 1 /\ \A k \in 0 .. i + 1 - 1 : k \in 0 .. Count - 1
          BY <1>5, <1>6
        <5> QED
          BY <4>1, <5>1 DEF Stream
      <4> QED
        BY <1>10, <2>2, <2>5, <4>2
    <3>2. CASE pass = 1
      <4>1. PICK more : /\ Stream(more, i + 1) /\ more[i + 1] = Advance(seeds[i])
                        /\ \A k \in 0 .. i : more[k] = seeds[k]
        BY <1>5, <2>2, StreamMore
      <4>2. Xored(t, Body, data, more, i + 1)
        BY <1>5, <2>5, <4>1, XoredSame
      <4> QED
        BY <1>10, <2>2, <3>2, <4>1, <4>2
    <3> QED
      BY <1>5, <3>1, <3>2
  <2>7. Stream(more, i)' /\ Xored(out.rest, Body, data, more, i)'
    BY <1>2, <1>3, <1>12, <1>13, <2>6
  <2>8. Behind(data, i * Size, stdin.rest)'
    <3>1. Behind(data, (i + 1) * Size, r.rest)
      BY <2>3, <2>4
    <3> QED
      BY <1>2, <1>3, <1>14, <3>1 DEF Behind, IsSeq
  <2>9. (i <= Count)' /\ (Len(out.rest) = Body + i * Size)'
    BY <1>2, <1>3, <1>5, <1>6, <1>12, <1>13, <2>5
  <2>10. IsSeq(data)' /\ (Once(data, more)' <=> Once(data, more))
    BY <1>2, <2>2 DEF IsSeq
  <2>11. CryptLoop(data, more)'
    BY <1>2, <1>3, <2>2, <2>6, <2>7, <2>8, <2>9, <2>10 DEF CryptLoop
  <2> QED
    BY <2>11
<1>17. Crypted'
  BY <1>2, <1>3, <1>16 DEF Crypted
<1>18. SpedUp' /\ SlowedDown'
  BY <1>2, <1>3, <1>5 DEF SpedUp, SlowedDown
<1> QED
  BY <1>15, <1>17, <1>18 DEF DInv

(* The data behind the annotation.                                          *)
LEMMA BodyIs ==
    ASSUME NEW s, IsSeq(s), NEW at \in Nat, at <= Len(s)
    PROVE  /\ IsSeq(SubSeq(s, at + 1, Len(s))) /\ Len(SubSeq(s, at + 1, Len(s))) = Len(s) - at
           /\ \A k \in 1 .. Len(s) - at : SubSeq(s, at + 1, Len(s))[k] = s[at + k]
<1> DEFINE d == SubSeq(s, at + 1, Len(s))
<1>1. PICK l \in Nat : l = Len(s) /\ at <= l
  BY IsInSeq
<1>2. at + 1 \in Nat \ {0} /\ at + 1 <= l + 1 /\ l <= Len(s)
  BY <1>1
<1>3. IsSeq(d) /\ Len(d) = l - (at + 1) + 1
      /\ \A k \in 1 .. l - (at + 1) + 1 : d[k] = s[at + 1 + k - 1]
  BY <1>1, <1>2, SubIs
<1>4. l - (at + 1) + 1 = l - at /\ \A k \in 1 .. l - at : at + 1 + k - 1 = at + k
  BY <1>1
<1> QED
  BY <1>1, <1>3, <1>4

(* What the first run has encrypted, as the second run reads it.            *)
LEMMA XoredBody ==
    ASSUME IInv, Accepts(orig), NEW s, NEW at \in Nat, NEW m \in Nat, NEW n \in Nat,
           n = m * Size, NEW data, NEW seeds, Xored(s, at, data, seeds, m),
           NEW d, \A k \in 1 .. n : d[k] = s[at + k]
    PROVE  Xored(d, 0, data, seeds, m)
<1>1. PICK z \in Nat : z = Size
  BY Original
<1>5. ASSUME NEW k \in 0 .. m - 1, k * Size + Size <= Len(data), NEW j \in 1 .. Size
      PROVE  d[0 + (k * Size + j)] = (Byte(seeds[k], j) + data[k * Size + j]) % 2
  <2>1. s[at + (k * Size + j)] = (Byte(seeds[k], j) + data[k * Size + j]) % 2
    BY <1>5, Zenon DEF Xored
  <2>2. k \in Nat /\ k < m /\ Size \in Nat
    BY <1>1
  <2>3. k * Size \in Nat /\ k * Size + Size <= m * Size
    BY <2>2, Products, Zenon
  <2>4. PICK q \in Nat : q = k * Size /\ q + z <= n
    BY <1>1, <2>3
  <2>5. q + j \in 1 .. n /\ 0 + (q + j) = q + j
    BY <1>1, <2>4
  <2>6. d[q + j] = s[at + (q + j)]
    BY <2>5
  <2> QED
    BY <2>1, <2>4, <2>5, <2>6
<1> QED
  BY <1>5, Zenon DEF Xored

(* When the loop has ended.                                                 *)
LEMMA FinishKeeps ==
    ASSUME IInv, IInv', DInv, Finish
    PROVE  DInv'
<1>1. [Next]_vars
  BY DEF Next
<1>2. /\ Cmd' = Cmd /\ Size' = Size /\ Data' = Data /\ Count' = Count /\ orig' = orig
      /\ Times' = Times /\ First' = First /\ Slowed' = Slowed /\ Inserted' = Inserted
      /\ (Accepts(orig)' <=> Accepts(orig))
      /\ \A h : Same(h)' <=> Same(h)
  BY <1>1, Fixed
<1>3. /\ \A data, seeds : Once(data, seeds)' <=> Once(data, seeds)
      /\ \A seeds, n : Stream(seeds, n)' <=> Stream(seeds, n)
      /\ \A q, at, data, seeds, n :
           Xored(q, at, data, seeds, n)' <=> Xored(q, at, data, seeds, n)
      /\ \A r, at, m : /\ Picked(r, at, m)' <=> Picked(r, at, m)
                       /\ Length(r, at, m)' <=> Length(r, at, m)
                       /\ Kept(r, at, m)' <=> Kept(r, at, m)
  BY <1>1, Fixed
<1>4. /\ pc = "frames" /\ pc' = "done" /\ i >= Rounds
      /\ status' = (IF noerror THEN 0 ELSE 1)
      /\ UNCHANGED <<pass, hp, frame, i, noerror, out>>
      /\ ~lost' => ~lost
  <2>1. ~lost' => ~lost
    BY Zenon DEF Finish
  <2> QED
    BY <2>1 DEF Finish, Exit
<1>5. pc \in Late /\ Heads
  BY <1>4 DEF Late, DInv
<1>6. /\ Accepts(orig) /\ FrameSize(hp) = Size /\ opts = Cmd /\ i \in Nat /\ Factor = Times
      /\ hp.encoding = orig.hdr.encoding
      /\ Cmd.mode = "c" => hp.data_size = orig.hdr.data_size
      /\ Begun
  BY <1>5, LoopSizes
<1>7. /\ Same(hp) /\ IsFile(out) /\ out.hdr = hp /\ Body \in Nat /\ Body <= Len(out.rest)
      /\ IsFrame(frame)
  BY <1>5, <1>6 DEF Heads
<1>8. Body' = Body /\ out'.rest = out.rest
  BY <1>4 DEF Body, AnnotationSize
<1>9. Heads'
  <2>1. Same(hp)'
    BY <1>2, <1>4, <1>7
  <2>2. IsFile(out)' /\ IsFrame(frame)'
    BY <1>4, <1>7 DEF IsFile, IsFrame, IsSeq
  <2> QED
    BY <1>2, <1>4, <1>6, <1>7, <1>8, <2>1, <2>2 DEF Heads
<1>10. Crypted'
  <2> SUFFICES ASSUME Cmd.mode = "c", Size <= 4, ~lost'
               PROVE  \E data, seeds : CryptLoop(data, seeds)'
    BY <1>2, <1>4 DEF Crypted
  <2>1. PICK data, seeds : CryptLoop(data, seeds)
    BY <1>4, <1>6 DEF DInv, Crypted
  <2>2. i = Count
    <3>1. Rounds = Count
      BY <1>6 DEF Rounds, Count
    <3>2. i <= Count /\ Count \in Nat
      BY <1>6, <2>1, Original DEF CryptLoop
    <3> QED
      BY <1>4, <1>6, <3>1, <3>2
  <2>3. Stream(seeds, i)' /\ Xored(out.rest, Body, data, seeds, i)'
    BY <1>3, <1>4, <1>8, <2>1 DEF CryptLoop
  <2>4. IsSeq(data)' /\ (Once(data, seeds)' <=> Once(data, seeds))
    BY <1>3, <2>1 DEF CryptLoop, IsSeq
  <2>5. CryptLoop(data, seeds)'
    BY <1>2, <1>4, <1>8, <2>1, <2>2, <2>3, <2>4 DEF CryptLoop
  <2> QED
    BY <2>5
<1>11. SpedUp'
  <2> SUFFICES ASSUME pass = 1, Cmd.mode = "u", Size <= 4, ~lost'
               PROVE  /\ hp.data_size = ((orig.hdr.data_size \div Size + 1) * Times) % WORD
                      /\ Length(out.rest, Body, i) /\ Picked(out.rest, Body, i)
                      /\ i >= hp.data_size \div Times
    <3>1. (Length(out.rest, Body, i)' <=> Length(out.rest, Body, i))
          /\ (Picked(out.rest, Body, i)' <=> Picked(out.rest, Body, i))
      BY <1>3, <1>4, <1>8
    <3> QED
      BY <1>2, <1>4, <3>1 DEF SpedUp
  <2>1. i >= hp.data_size \div Times
    BY <1>4, <1>6 DEF Rounds
  <2> QED
    BY <1>4, <1>6, <2>1 DEF DInv, SpedUp
<1>12. SlowedDown'
  <2> SUFFICES ASSUME pass = 1, Cmd.mode = "d", Size <= 4, First <= 4, First <= Len(Data),
                      ~lost'
               PROVE  /\ hp.data_size = Slowed
                      /\ status' = 0 => Kept(out.rest, Body, i) /\ i = Inserted
    <3>1. Kept(out.rest, Body, i)' <=> Kept(out.rest, Body, i)
      BY <1>3, <1>4, <1>8
    <3> QED
      BY <1>2, <1>4, <3>1 DEF SlowedDown
  <2>1. ASSUME status' = 0 PROVE noerror
    <3>1. ASSUME ~noerror PROVE status' = 1
      BY <1>4, <3>1, Zenon
    <3>2. status' # 1
      BY <2>1
    <3> QED
      BY <3>1, <3>2, Zenon
  <2>2. SlowedDown /\ ~lost
    BY <1>4, Zenon DEF DInv
  <2>3. hp.data_size = Slowed /\ i <= Inserted /\ (noerror => Kept(out.rest, Body, i))
    BY <1>4, <1>6, <2>2, Zenon DEF SlowedDown
  <2>4. i = Inserted
    <3>1. Rounds = Inserted
      BY <1>6, <2>3 DEF Rounds, Inserted
    <3>2. Inserted \in Nat
      BY <1>6, Original
    <3> QED
      BY <1>4, <1>6, <2>3, <3>1, <3>2
  <2> QED
    BY <2>1, <2>3, <2>4, Zenon
<1> QED
  BY <1>9, <1>10, <1>11, <1>12 DEF DInv

(* The second run.                                                          *)
LEMMA AgainKeeps ==
    ASSUME IInv, IInv', DInv, Again
    PROVE  DInv'
<1>1. [Next]_vars
  BY DEF Next
<1>2. /\ Cmd' = Cmd /\ Size' = Size /\ (Accepts(orig)' <=> Accepts(orig))
      /\ \A h : Same(h)' <=> Same(h)
      /\ \A data, seeds : Once(data, seeds)' <=> Once(data, seeds)
  BY <1>1, Fixed
<1>3. /\ pc = "done" /\ status = 0 /\ pass = 1 /\ opts.mode # "h" /\ pc' = "args"
      /\ pass' = 2 /\ stdin' = out /\ frame' = Zeros(4) /\ i' = 0 /\ out' = NoFile
      /\ ~lost
  BY DEF Again
<1>4. opts = Cmd
  BY <1>3 DEF IInv, Options, Cmd
<1>5. Reusable(out)
  BY <1>3, <1>4 DEF IInv, Output, Cmd
<1>6. IsSeq(out.rest) /\ out.hdr.complete
  BY <1>5 DEF Reusable, IsFile, IsHeader
<1>7. Begun
  BY <1>3, <1>6 DEF Begun
<1>8. Accepts(orig) /\ Same(hp) /\ out.hdr = hp /\ Body \in Nat
  BY <1>7 DEF DInv, Heads
<1>9. ~Begun'
  BY <1>3 DEF Begun, Late
<1>10. IsFrame(frame)'
  <2>1. PICK f : f = frame' /\ f = [k \in 1 .. 4 |-> f[k]]
    BY <1>3 DEF Zeros
  <2>2. IsFrame(f)
    BY <2>1, Tabulated DEF IsFrame
  <2> QED
    BY <2>1, <2>2 DEF IsFrame, IsSeq
<1>11. Same(stdin.hdr)'
  BY <1>2, <1>3, <1>8
<1>12. Heads'
  BY <1>2, <1>3, <1>8, <1>9, <1>10, <1>11 DEF Heads
<1>13. ASSUME Cmd.mode = "c", Size <= 4 PROVE \E seeds : Once(DataOf(stdin), seeds)'
  <2>1. PICK data, seeds : CryptLoop(data, seeds)
    BY <1>3, <1>7, <1>13 DEF DInv, Crypted
  <2>2. /\ Stream(seeds, Count) /\ Len(out.rest) = Body + Count * Size
        /\ Xored(out.rest, Body, Data, seeds, Count)
    BY <1>3, <2>1 DEF CryptLoop
  <2>3. PICK at \in Nat, m \in Nat : at = Body /\ m = Count
    BY <1>8, Original
  <2>4. PICK n \in Nat : n = m * Size
    <3>1. Size \in Nat
      BY <1>8, Original
    <3> QED
      BY <3>1, Products
  <2>5. PICK s, d : s = out.rest /\ d = SubSeq(s, at + 1, Len(s))
    OBVIOUS
  <2>6. IsSeq(s) /\ Len(s) = at + n /\ Xored(s, at, Data, seeds, m)
    BY <1>6, <2>2, <2>3, <2>4, <2>5
  <2>7. IsSeq(d) /\ Len(d) = n /\ \A k \in 1 .. n : d[k] = s[at + k]
    <3>1. at \in Nat /\ at <= Len(s) /\ IsSeq(s) /\ Len(s) - at = n
      BY <2>6
    <3>2. /\ IsSeq(SubSeq(s, at + 1, Len(s))) /\ Len(SubSeq(s, at + 1, Len(s))) = Len(s) - at
          /\ \A k \in 1 .. Len(s) - at : SubSeq(s, at + 1, Len(s))[k] = s[at + k]
      BY <3>1, BodyIs, Zenon
    <3> QED
      BY <2>5, <3>1, <3>2
  <2>8. Xored(d, 0, Data, seeds, m)
    BY <1>8, <2>4, <2>6, <2>7, XoredBody
  <2>9. Once(d, seeds)
    BY <2>2, <2>3, <2>4, <2>7, <2>8 DEF Once
  <2>10. DataOf(stdin)' = d
    BY <1>3, <2>3, <2>5 DEF DataOf, Body, AnnotationSize
  <2> QED
    BY <1>2, <2>9, <2>10
<1>14. Crypted'
  BY <1>2, <1>3, <1>9, <1>13 DEF Crypted
<1> QED
  BY <1>9, <1>12, <1>14 DEF DInv, SpedUp, SlowedDown

(* Nothing changes.                                                         *)
LEMMA StutterKeeps ==
    ASSUME IInv, DInv, UNCHANGED vars
    PROVE  DInv'
<1>1. [Next]_vars
  OBVIOUS
<1>2. /\ Cmd' = Cmd /\ Size' = Size /\ Data' = Data /\ Count' = Count /\ orig' = orig
      /\ Times' = Times /\ First' = First /\ Slowed' = Slowed /\ Inserted' = Inserted
      /\ (Accepts(orig)' <=> Accepts(orig))
      /\ \A h : Same(h)' <=> Same(h)
  BY <1>1, Fixed
<1>3. /\ \A data, seeds : Once(data, seeds)' <=> Once(data, seeds)
      /\ \A seeds, n : Stream(seeds, n)' <=> Stream(seeds, n)
      /\ \A q, at, data, seeds, n :
           Xored(q, at, data, seeds, n)' <=> Xored(q, at, data, seeds, n)
      /\ \A r, at, m : /\ Picked(r, at, m)' <=> Picked(r, at, m)
                       /\ Length(r, at, m)' <=> Length(r, at, m)
                       /\ Kept(r, at, m)' <=> Kept(r, at, m)
  BY <1>1, Fixed
<1>4. UNCHANGED <<stdin, pass, pc, status, hp, ann, frame, i, next, noerror, out, lost>>
  BY DEF vars
<1>5. /\ Body' = Body /\ DataOf(stdin)' = DataOf(stdin) /\ (Begun' <=> Begun)
      /\ (IsFrame(frame)' <=> IsFrame(frame)) /\ (IsFile(stdin)' <=> IsFile(stdin))
      /\ (IsFile(out)' <=> IsFile(out))
  BY <1>4 DEF Body, DataOf, AnnotationSize, Begun, IsFrame, IsFile, IsSeq
<1>6. Heads'
  <2>1. (Same(hp)' <=> Same(hp)) /\ (Same(stdin.hdr)' <=> Same(stdin.hdr))
    BY <1>2, <1>4
  <2> QED
    BY <1>2, <1>4, <1>5, <2>1 DEF DInv, Heads
<1>7. \A data, p : Behind(data, p, stdin.rest)' <=> Behind(data, p, stdin.rest)
  BY <1>4 DEF Behind, IsSeq
<1>8. Crypted'
  <2>1. ASSUME NEW data, NEW seeds, CryptLoop(data, seeds) PROVE CryptLoop(data, seeds)'
    <3>1. /\ Stream(seeds, i)' <=> Stream(seeds, i)
          /\ Xored(out.rest, Body, data, seeds, i)' <=> Xored(out.rest, Body, data, seeds, i)
          /\ Once(data, seeds)' <=> Once(data, seeds)
      BY <1>3, <1>4, <1>5
    <3>2. Behind(data, i * Size, stdin.rest)' <=> Behind(data, i * Size, stdin.rest)
      BY <1>2, <1>4 DEF Behind, IsSeq
    <3>3. IsSeq(data)' <=> IsSeq(data)
      BY DEF IsSeq
    <3> QED
      BY <1>2, <1>4, <1>5, <2>1, <3>1, <3>2, <3>3 DEF CryptLoop
  <2>2. \A seeds : /\ Once(stdin.rest, seeds)' <=> Once(stdin.rest, seeds)
                   /\ Once(DataOf(stdin), seeds)' <=> Once(DataOf(stdin), seeds)
    BY <1>3, <1>4, <1>5
  <2> QED
    BY <1>2, <1>4, <1>5, <2>1, <2>2 DEF DInv, Crypted
<1>9. SpedUp'
  <2>1. (Length(out.rest, Body, i)' <=> Length(out.rest, Body, i))
        /\ (Picked(out.rest, Body, i)' <=> Picked(out.rest, Body, i))
    BY <1>3, <1>4, <1>5
  <2>2. Behind(Data, i * Size, stdin.rest)' <=> Behind(Data, i * Size, stdin.rest)
    BY <1>2, <1>4 DEF Behind, IsSeq
  <2> QED
    BY <1>2, <1>4, <1>5, <2>1, <2>2 DEF DInv, SpedUp
<1>10. SlowedDown'
  <2>1. Kept(out.rest, Body, i)' <=> Kept(out.rest, Body, i)
    BY <1>3, <1>4, <1>5
  <2>2. /\ Behind(Data, First + i * Size, stdin.rest)'
             <=> Behind(Data, First + i * Size, stdin.rest)
        /\ Behind(Data, 0, stdin.rest)' <=> Behind(Data, 0, stdin.rest)
    BY <1>2, <1>4 DEF Behind, IsSeq
  <2>3. (noerror' <=> noerror) /\ (lost' <=> lost) /\ SlowedDown
    BY <1>4, Zenon DEF DInv
  <2> QED
    BY <1>2, <1>4, <1>5, <2>1, <2>2, <2>3 DEF SlowedDown
<1> QED
  BY <1>6, <1>8, <1>9, <1>10 DEF DInv

(* Every step.                                                              *)
LEMMA DInvNext ==
    ASSUME IInv, IInv', DInv, [Next]_vars
    PROVE  DInv'
BY mainKeeps, ReadHeadKeeps, WriteHeadKeeps, SpeedUpKeeps, SlowDownFirstKeeps,
   InterpolatedKeeps, CryptKeeps, FinishKeeps, AgainKeeps, StutterKeeps DEF Next

\* How far stdin has been read and what each frame has become.
THEOREM DataInvariant == Spec => [](IInv /\ DInv)
<1>1. IInv /\ DInv /\ [Next]_vars => (IInv /\ DInv)'
  BY IInvNext, DInvNext
<1> QED
  BY IInvInit, DInvInit, <1>1, PTL DEF Spec

-----------------------------------------------------------------------------
(* The samples.                                                            *)

(* The frames that the header counts and that are there.                    *)
LEMMA WholeIs ==
    ASSUME IInv, Accepts(orig), NEW w, w = Whole(orig)
    PROVE  \E n \in Nat : /\ n <= Count /\ n * Size \in Nat /\ n * Size <= Len(Data)
                          /\ IsSeq(w) /\ Len(w) = n * Size
                          /\ \A k \in 1 .. n * Size : w[k] = Data[k]
<1>1. PICK z \in Nat \ {0} : z = Size
  BY Original
<1>2. PICK a \in Nat, b \in Nat : a = orig.hdr.data_size /\ b = Len(Data)
  BY Original
<1>3. PICK l \in Nat : l = Min({a, b}) /\ l <= a /\ l <= b
  BY LesserIs
<1>4. PICK n \in Nat, p \in Nat : n = l \div z /\ p = n * z /\ p <= l
  BY Quotient, Products
<1>5. n <= a \div z
  <2>1. PICK m \in Nat : m = a \div z /\ a < z * m + z
    <3>1. a = z * (a \div z) + (a % z) /\ a % z \in 0 .. z - 1
      BY Division
    <3>2. PICK m \in Nat : m = a \div z
      BY Quotient
    <3>3. PICK y \in 0 .. z - 1, p2 \in Int : y = a % z /\ p2 = z * m
      BY <3>1, <3>2
    <3>4. a = p2 + y
      BY <3>1, <3>2, <3>3
    <3>5. a < p2 + z
      BY <3>3, <3>4
    <3> QED
      BY <3>2, <3>3, <3>5
  <2>2. ASSUME m < n PROVE FALSE
    <3>1. m * z + z <= n * z /\ m * z = z * m
      BY <2>2, Products
    <3> QED
      BY <1>3, <1>4, <2>1, <3>1
  <2> QED
    BY <2>1, <2>2
<1>6. w = SubSeq(Data, 1, p)
  BY <1>1, <1>2, <1>3, <1>4 DEF Whole, Data, Size
<1>7. IsSeq(w) /\ Len(w) = p /\ \A k \in 1 .. p : w[k] = Data[k]
  <2>1. IsSeq(Data) /\ 1 \in Nat \ {0} /\ 1 <= p + 1 /\ p <= Len(Data)
    <3>1. IsSeq(Data)
      BY Original
    <3>2. p <= Len(Data)
      BY <1>2, <1>3, <1>4
    <3> QED
      BY <3>1, <3>2
  <2>2. IsSeq(w) /\ Len(w) = p - 1 + 1 /\ \A k \in 1 .. p - 1 + 1 : w[k] = Data[1 + k - 1]
    BY <1>6, <2>1, SubIs
  <2> QED
    BY <2>2
<1>8. p = n * Size /\ p <= Len(Data) /\ n <= Count
  BY <1>1, <1>2, <1>3, <1>4, <1>5 DEF Count
<1> QED
  BY <1>7, <1>8

(* The greater of two numbers.                                              *)
LEMMA GreaterIs ==
    ASSUME NEW m \in Int, NEW n \in Int
    PROVE  Max({m, n}) \in Int
<1>1. \E x \in {m, n} : \A y \in {m, n} : x >= y
  <2>1. CASE m <= n
    BY <2>1
  <2>2. CASE n <= m
    BY <2>2
  <2> QED
    BY <2>1, <2>2
<1>2. Max({m, n}) \in {m, n}
  BY <1>1 DEF Max
<1> QED
  BY <1>2

(* What is added to a byte is a number.                                     *)
LEMMA ByteIs ==
    ASSUME IInv, Accepts(orig), Size <= 4, NEW s \in Int, NEW j \in 1 .. Size
    PROVE  Byte(s, j) \in Int
<1>1. PICK e \in 2 .. 5, c \in {1, 2} : e = orig.hdr.encoding /\ c = orig.hdr.channels
  BY Original
<1>2. PICK h \in Nat \ {0} : h = MOD \div 2
  BY GeneratorAssumption
<1>3. ASSUME NEW x \in Int, NEW k \in 1 .. 4 PROVE Mask(myrand32(x), e - 1)[k] \in Int
  <2>1. Seeds(x)[k] \in Int
    BY SeedsAreNumbers
  <2>2. Seeds(x)[k] \div h \in Int
    BY <2>1, Division
  <2>3. myrand32(x)[k] = Seeds(x)[k] \div h
    BY <1>2 DEF myrand32
  <2>4. Mask(myrand32(x), e - 1)[k] = IF k > 4 - (e - 1) THEN myrand32(x)[k] ELSE 0
    BY DEF Mask
  <2> QED
    BY <2>2, <2>3, <2>4
<1>4. ASSUME NEW k \in 1 .. 4 PROVE Pad(s, e, c)[k] \in Int
  <2>1. PICK one, two : /\ one = Mask(myrand32(s), e - 1)
                        /\ two = Mask(myrand32(Seeds(s)[4]), e - 1)
    OBVIOUS
  <2>2. Seeds(s)[4] \in Int
    BY SeedsAreNumbers
  <2>3. \A l \in 1 .. 4 : one[l] \in Int /\ two[l] \in Int
    BY <1>3, <2>1, <2>2
  <2>4. Pad(s, e, c) = IF c = 2 THEN Or(ShiftUp(one, 5 - e), two) ELSE one
    BY <2>1 DEF Pad
  <2>5. PICK up : up = ShiftUp(one, 5 - e)
    OBVIOUS
  <2>6. up[k] \in Int
    <3>1. up[k] = IF k + (5 - e) <= 4 THEN one[k + (5 - e)] ELSE 0
      BY <2>5 DEF ShiftUp
    <3>2. k + (5 - e) <= 4 => k + (5 - e) \in 1 .. 4
      OBVIOUS
    <3> QED
      BY <2>3, <3>1, <3>2
  <2>7. Or(up, two)[k] \in Int
    <3>1. Or(up, two)[k] = Max({up[k], two[k]})
      BY DEF Or
    <3> QED
      BY <2>3, <2>6, <3>1, GreaterIs
  <2> QED
    BY <2>3, <2>4, <2>5, <2>7
<1>5. 4 - Size + j \in 1 .. 4
  <2>1. PICK z \in 1 .. 4 : z = Size
    BY SmallFrames
  <2> QED
    BY <2>1
<1> QED
  BY <1>1, <1>4, <1>5 DEF Byte

(* A program that has ended.                                                *)
LEMMA EndedIs ==
    ASSUME IInv, DInv, Ended
    PROVE  /\ Begun /\ ~lost /\ pc = "done" /\ Accepts(orig) /\ FrameSize(hp) = Size /\ opts = Cmd
           /\ hp.channels = orig.hdr.channels /\ Factor = Times
           /\ IsSeq(out.rest) /\ Body \in Nat /\ pass \in {1, 2}
           /\ DataOf(out) = SubSeq(out.rest, Body + 1, Len(out.rest))
<1>1. pc = "done" /\ Begun /\ ~lost
  BY DEF Ended, Begun
<1>2. Accepts(orig) /\ Same(hp) /\ IsSeq(out.rest) /\ Body \in Nat
  BY <1>1 DEF DInv, Heads, IsFile
<1>3. FrameSize(hp) = Size /\ hp.channels = orig.hdr.channels
  BY <1>2 DEF Same, Size, FrameSize
<1>4. opts = Cmd /\ pass \in {1, 2}
  BY <1>1 DEF IInv, Options, Input, Cmd
<1>5. Factor = Times
  BY <1>4 DEF Factor, Times
<1> QED
  BY <1>1, <1>2, <1>3, <1>4, <1>5 DEF DataOf, Body

(* Where a byte of the data lies.                                           *)
LEMMA PlaceIs ==
    ASSUME NEW z \in Nat \ {0}, NEW n \in Nat, NEW k \in 1 .. n * z
    PROVE  \E q \in 0 .. n - 1, j \in 1 .. z : k = q * z + j
<1>1. PICK p \in Nat : p = n * z
  BY Products
<1>2. k - 1 \in Nat /\ k <= p
  BY <1>1
<1>3. PICK x \in Nat : x = k - 1
  BY <1>2
<1>4. PICK q \in Nat : q = x \div z
  BY Quotient
<1>5. PICK y \in 0 .. z - 1 : y = x % z /\ x = z * q + y
  <2>1. x = z * (x \div z) + (x % z) /\ x % z \in 0 .. z - 1
    BY Division
  <2> QED
    BY <1>4, <2>1
<1>6. z * q = q * z /\ q * z \in Nat
  BY Products
<1>7. q < n
  <2>1. ASSUME n <= q PROVE n * z <= q * z
    <3>1. CASE n = q
      BY <1>1, <3>1
    <3>2. CASE n < q
      <4>1. n * z + z <= q * z
        BY <3>2, Products
      <4> QED
        BY <1>1, <1>6, <4>1
    <3> QED
      BY <2>1, <3>1, <3>2
  <2> QED
    BY <1>1, <1>2, <1>3, <1>5, <1>6, <2>1
<1>8. q \in 0 .. n - 1 /\ y + 1 \in 1 .. z /\ k = q * z + (y + 1)
  BY <1>3, <1>5, <1>6, <1>7
<1> QED
  BY <1>8

(* A bit exclusive-ored twice.                                              *)
LEMMA Twice ==
    ASSUME NEW b \in Int, NEW x \in {0, 1}
    PROVE  (b + ((b + x) % 2)) % 2 = x
OBVIOUS

(* -c twice.                                                                *)
LEMMA DecryptedIs ==
    ASSUME IInv, DInv
    PROVE  CryptRestores
<1> SUFFICES ASSUME Ended, pass = 2, opts.mode = "c", FrameSize(hp) <= 4
             PROVE  IsPrefix(Whole(orig), DataOf(out))
  BY DEF CryptRestores
<1>1. /\ Begun /\ ~lost /\ pc = "done" /\ Accepts(orig) /\ Size <= 4 /\ Cmd.mode = "c"
      /\ IsSeq(out.rest) /\ Body \in Nat
      /\ DataOf(out) = SubSeq(out.rest, Body + 1, Len(out.rest))
  BY EndedIs
<1>2. PICK data, seeds : CryptLoop(data, seeds)
  BY <1>1 DEF DInv, Crypted
<1>3. /\ Once(data, seeds) /\ i = Count /\ Stream(seeds, i)
      /\ Len(out.rest) = Body + i * Size /\ Xored(out.rest, Body, data, seeds, i)
  BY <1>1, <1>2 DEF CryptLoop
<1>4. PICK z \in 1 .. 4, m \in Nat : z = Size /\ m = Count
  BY <1>1, SmallFrames, Original
<1>5. PICK l \in Nat : l = m * z
  BY Products
<1>6. PICK w, d, s : w = Whole(orig) /\ d = DataOf(out) /\ s = out.rest
  OBVIOUS
<1>7. PICK at \in Nat : at = Body
  BY <1>1
<1>8. IsSeq(s) /\ Len(s) = at + l /\ d = SubSeq(s, at + 1, Len(s))
  BY <1>1, <1>3, <1>4, <1>5, <1>6, <1>7
<1>9. IsSeq(d) /\ Len(d) = l /\ \A k \in 1 .. l : d[k] = s[at + k]
  <2>1. at \in Nat /\ at <= Len(s) /\ IsSeq(s) /\ Len(s) - at = l
    BY <1>8
  <2>2. /\ IsSeq(SubSeq(s, at + 1, Len(s))) /\ Len(SubSeq(s, at + 1, Len(s))) = Len(s) - at
        /\ \A k \in 1 .. Len(s) - at : SubSeq(s, at + 1, Len(s))[k] = s[at + k]
    BY <2>1, BodyIs, Zenon
  <2> QED
    BY <1>8, <2>1, <2>2
<1>10. PICK n \in Nat : /\ n <= m /\ n * z \in Nat /\ n * z <= Len(Data)
                        /\ IsSeq(w) /\ Len(w) = n * z
                        /\ \A k \in 1 .. n * z : w[k] = Data[k]
  BY <1>1, <1>4, <1>6, WholeIs
<1>11. PICK p \in Nat : p = n * z /\ p <= l
  <2>1. n * z <= m * z
    <3>1. CASE n = m
      BY <1>5, <3>1
    <3>2. CASE n < m
      <4>1. n * z + z <= m * z
        BY <3>2, Products
      <4> QED
        BY <1>5, <1>10, <4>1
    <3> QED
      BY <1>10, <3>1, <3>2
  <2> QED
    BY <1>5, <1>10, <2>1
<1>12. /\ Len(data) = l /\ Xored(data, 0, Data, seeds, m) /\ Xored(s, at, data, seeds, m)
       /\ seeds \in [Nat -> Int]
  BY <1>3, <1>4, <1>5, <1>6, <1>7 DEF Once, Stream
<1>13. ASSUME NEW k \in 1 .. p PROVE d[k] = w[k]
  <2>1. PICK q \in 0 .. n - 1, j \in 1 .. z : k = q * z + j
    <3>1. k \in 1 .. n * z /\ z \in Nat \ {0}
      BY <1>11
    <3> QED
      BY <3>1, PlaceIs
  <2>2. PICK g \in Nat : g = q * z /\ g + z <= p
    <3>1. q \in Nat /\ q < n
      OBVIOUS
    <3>2. q * z \in Nat /\ q * z + z <= n * z
      BY <3>1, Products
    <3> QED
      BY <1>11, <3>2
  <2>3. q \in 0 .. m - 1 /\ g + z <= Len(Data) /\ g + z <= Len(data)
    <3>1. q \in 0 .. m - 1
      BY <1>10
    <3>2. p <= Len(Data) /\ p <= Len(data) /\ Len(Data) \in Nat /\ Len(data) \in Nat
      BY <1>1, <1>10, <1>11, <1>12, Original
    <3> QED
      BY <2>2, <3>1, <3>2
  <2>4. PICK b \in Int : b = Byte(seeds[q], j)
    <3>1. seeds[q] \in Int /\ j \in 1 .. Size
      BY <1>4, <1>12
    <3>2. Byte(seeds[q], j) \in Int
      BY <1>1, <3>1, ByteIs
    <3> QED
      BY <3>2
  <2>5. data[0 + (g + j)] = (b + Data[g + j]) % 2 /\ s[at + (g + j)] = (b + data[g + j]) % 2
    BY <1>4, <1>12, <2>2, <2>3, <2>4 DEF Xored
  <2>6. PICK x \in {0, 1} : x = Data[k]
    <3>1. Data \in Seq({0, 1})
      BY <1>1, Original
    <3>2. k \in 1 .. Len(Data)
      BY <1>10, <1>11, <3>1
    <3> QED
      BY <3>1, <3>2
  <2>7. k = g + j /\ 0 + k = k /\ k \in 1 .. l
    BY <1>11, <2>1, <2>2
  <2>8. data[k] = (b + x) % 2 /\ s[at + k] = (b + data[k]) % 2
    BY <2>5, <2>6, <2>7
  <2>9. s[at + k] = x
    BY <2>8, Twice
  <2>10. d[k] = s[at + k]
    BY <1>9, <2>7
  <2>11. w[k] = Data[k]
    BY <1>10, <1>11
  <2> QED
    BY <2>6, <2>9, <2>10, <2>11
<1>14. /\ IsSeq(SubSeq(w, 1, p)) /\ Len(SubSeq(w, 1, p)) = p - 1 + 1
       /\ \A k \in 1 .. p - 1 + 1 : SubSeq(w, 1, p)[k] = w[1 + k - 1]
  BY <1>10, <1>11, SubIs
<1>15. /\ IsSeq(SubSeq(d, 1, p)) /\ Len(SubSeq(d, 1, p)) = p - 1 + 1
       /\ \A k \in 1 .. p - 1 + 1 : SubSeq(d, 1, p)[k] = d[1 + k - 1]
  <2>1. IsSeq(d) /\ 1 \in Nat \ {0} /\ 1 <= p + 1 /\ p <= Len(d)
    BY <1>9, <1>11
  <2> QED
    BY <2>1, SubIs
<1>16. SubSeq(w, 1, p) = SubSeq(d, 1, p)
  BY <1>13, <1>14, <1>15, SameSeq
<1> QED
  BY <1>6, <1>9, <1>10, <1>11, <1>16 DEF IsPrefix

(* -u.                                                                      *)
LEMMA PickedIs ==
    ASSUME IInv, DInv
    PROVE  SpeedUpPicks
<1>1. SUFFICES ASSUME Ended, pass = 1, opts.mode = "u", FrameSize(hp) <= 4,
                      (orig.hdr.data_size \div FrameSize(hp) + 1) * Factor < WORD,
                      NEW k, k \in 0 .. (Len(Whole(orig)) \div FrameSize(hp)) - 1,
                      k % Factor = 0
               PROVE  SubSeq(DataOf(out), (k \div Factor) * FrameSize(hp) + 1,
                                          (k \div Factor + 1) * FrameSize(hp))
                        = SubSeq(DataOf(orig), k * FrameSize(hp) + 1, (k + 1) * FrameSize(hp))
  BY DEF SpeedUpPicks
<1>2. /\ Begun /\ ~lost /\ pc = "done" /\ Accepts(orig) /\ FrameSize(hp) = Size /\ Factor = Times
      /\ IsSeq(out.rest) /\ Body \in Nat /\ Cmd.mode = "u"
      /\ DataOf(out) = SubSeq(out.rest, Body + 1, Len(out.rest))
  BY <1>1, EndedIs
<1>3. PICK z \in 1 .. 4, x \in Nat \ {0}, m \in Nat : z = Size /\ x = Times /\ m = Count
  BY <1>1, <1>2, SmallFrames, Original
<1>4. PICK s, d, at : s = out.rest /\ d = DataOf(out) /\ at = Body /\ at \in Nat
  BY <1>2
<1>5. i > m
  <2>1. (m + 1) * x < WORD /\ hp.data_size = ((m + 1) * x) % WORD /\ i >= hp.data_size \div x
    BY <1>1, <1>2, <1>3 DEF DInv, SpedUp, Count
  <2>2. PICK y \in Nat : y = (m + 1) * x
    BY Products
  <2>3. y % WORD = y
    BY <2>1, <2>2, SizesAssumption, Small
  <2>4. y \div x = m + 1
    BY <2>2, Quotient
  <2>5. hp.data_size = y
    BY <2>1, <2>2, <2>3
  <2>6. i >= m + 1 /\ i \in Nat
    BY <2>1, <2>4, <2>5 DEF DInv, Heads
  <2> QED
    BY <2>6
<1>6. PICK n \in Nat : /\ n <= m /\ n * z \in Nat /\ n * z <= Len(Data)
                       /\ Len(Whole(orig)) = n * z
  BY <1>2, <1>3, WholeIs
<1>7. k \in Nat /\ k < n
  <2>1. (n * z) \div z = n
    BY Quotient
  <2> QED
    BY <1>1, <1>2, <1>3, <1>6, <2>1
<1>8. PICK q \in Nat : q = k \div x /\ k = x * q
  <2>1. k = x * (k \div x) + (k % x) /\ k % x = 0
    BY <1>1, <1>2, <1>3, <1>7, Division
  <2>2. PICK q \in Nat : q = k \div x
    BY <1>7, Quotient
  <2>3. k = x * q + 0 /\ x * q + 0 = x * q
    BY <2>1, <2>2
  <2> QED
    BY <2>2, <2>3
<1>9. PICK g \in Nat : g = k * z /\ (k + 1) * z = g + z /\ g + z <= Len(Data)
  <2>1. k * z \in Nat /\ (k + 1) * z = k * z + z /\ k * z + z <= n * z
    BY <1>6, <1>7, Products
  <2> QED
    BY <1>2, <1>6, <2>1, Original
<1>10. PICK w \in Nat : Len(s) = at + w * z /\ i <= x * w
  BY <1>1, <1>2, <1>3, <1>4 DEF DInv, SpedUp, Length
<1>11. q < w
  <2>1. i \in Nat
    BY DEF DInv, Heads
  <2>2. x * q < x * w
    BY <1>5, <1>6, <1>7, <1>8, <1>10, <2>1
  <2> QED
    BY <2>2, Near
<1>12. PICK r \in Nat, l \in Nat : r = q * z /\ (q + 1) * z = r + z /\ l = w * z /\ r + z <= l
  BY <1>11, Products
<1>13. IsSeq(s) /\ Len(s) = at + l /\ d = SubSeq(s, at + 1, Len(s))
  BY <1>2, <1>4, <1>10, <1>12
<1>14. IsSeq(d) /\ Len(d) = l /\ \A p \in 1 .. l : d[p] = s[at + p]
  <2>1. at \in Nat /\ at <= Len(s) /\ IsSeq(s) /\ Len(s) - at = l
    BY <1>4, <1>13
  <2>2. /\ IsSeq(SubSeq(s, at + 1, Len(s))) /\ Len(SubSeq(s, at + 1, Len(s))) = Len(s) - at
        /\ \A v \in 1 .. Len(s) - at : SubSeq(s, at + 1, Len(s))[v] = s[at + v]
    BY <2>1, BodyIs, Zenon
  <2> QED
    BY <1>13, <2>1, <2>2
<1>15. \A j \in 1 .. z : d[r + j] = Data[g + j]
  <2> TAKE j \in 1 .. z
  <2>1. Picked(s, at, i)
    BY <1>1, <1>2, <1>3, <1>4 DEF DInv, SpedUp
  <2>2. k \in 0 .. i - 1
    <3>1. i \in Nat
      BY DEF DInv, Heads
    <3> QED
      BY <1>5, <1>6, <1>7, <3>1
  <2>3. s[at + (q * z + j)] = Data[k * z + j]
    BY <1>3, <1>8, <1>9, <2>1, <2>2 DEF Picked
  <2>4. d[r + j] = s[at + (r + j)]
    <3>1. r + j \in 1 .. l
      BY <1>12
    <3> QED
      BY <1>14, <3>1
  <2> QED
    BY <1>9, <1>12, <2>3, <2>4
<1>16. PICK a, b : a = SubSeq(d, r + 1, r + z) /\ b = SubSeq(Data, g + 1, g + z)
  OBVIOUS
<1>17. IsSeq(a) /\ Len(a) = z /\ \A j \in 1 .. z : a[j] = d[r + j]
  <2>1. r + z <= Len(d)
    <3>1. Len(d) = l
      BY <1>14
    <3> QED
      BY <1>12, <3>1
  <2>2. IsSeq(d)
    BY <1>14
  <2>3. PICK e \in Nat \ {0}, f \in Nat : e = r + 1 /\ f = r + z
    OBVIOUS
  <2>4. e <= f + 1 /\ f <= Len(d) /\ f - e + 1 = z /\ \A j \in 1 .. z : e + j - 1 = r + j
    BY <2>1, <2>3
  <2>5. a = SubSeq(d, e, f)
    BY <1>16, <2>3
  <2>6. /\ IsSeq(a) /\ Len(a) = f - e + 1
        /\ \A j \in 1 .. f - e + 1 : a[j] = d[e + j - 1]
    BY <2>2, <2>4, <2>5, SubIs
  <2>7. ASSUME NEW j \in 1 .. z PROVE a[j] = d[r + j]
    BY <2>4, <2>6
  <2> QED
    BY <2>4, <2>6, <2>7
<1>18. IsSeq(b) /\ Len(b) = z /\ \A j \in 1 .. z : b[j] = Data[g + j]
  <2>1. g + z <= Len(Data)
    BY <1>9
  <2>2. IsSeq(Data)
    BY <1>2, Original
  <2>3. PICK e \in Nat \ {0}, f \in Nat : e = g + 1 /\ f = g + z
    OBVIOUS
  <2>4. e <= f + 1 /\ f <= Len(Data) /\ f - e + 1 = z /\ \A j \in 1 .. z : e + j - 1 = g + j
    BY <2>1, <2>3
  <2>5. b = SubSeq(Data, e, f)
    BY <1>16, <2>3
  <2>6. /\ IsSeq(b) /\ Len(b) = f - e + 1
        /\ \A j \in 1 .. f - e + 1 : b[j] = Data[e + j - 1]
    BY <2>2, <2>4, <2>5, SubIs
  <2>7. ASSUME NEW j \in 1 .. z PROVE b[j] = Data[g + j]
    BY <2>4, <2>6
  <2> QED
    BY <2>4, <2>6, <2>7
<1>19. a = b
  BY <1>15, <1>17, <1>18, SameSeq
<1> QED
  BY <1>2, <1>3, <1>4, <1>8, <1>9, <1>12, <1>16, <1>19 DEF Data

(* -d.                                                                      *)
LEMMA KeptIs ==
    ASSUME IInv, DInv
    PROVE  SlowDownKeeps
<1>1. SUFFICES ASSUME Ended, pass = 1, opts.mode = "d", status = 0, FrameSize(hp) <= 4,
                      hp.channels * Factor <= Min({4, Len(DataOf(orig))}),
                      NEW F, F = FrameSize(hp), NEW first, first = hp.channels * Factor,
                      NEW d, d = DataOf(out),
                      NEW n, n = ((((orig.hdr.data_size \div Factor - 1) % WORD) * F) % WORD)
                                   \div (Factor * (orig.hdr.encoding + 1))
               PROVE  /\ Len(d) = first + n * (2 * F)
                      /\ first + n * F <= Len(DataOf(orig))
                      /\ \A k \in 1 .. first : d[k] = DataOf(orig)[k]
                      /\ \A k \in 0 .. (n - 1) : \A j \in 1 .. F :
                           d[first + k * (2 * F) + F + j] = DataOf(orig)[first + k * F + j]
  BY DEF SlowDownKeeps
<1>2. /\ Begun /\ ~lost /\ pc = "done" /\ Accepts(orig) /\ F = Size /\ first = First
      /\ Factor = Times
      /\ IsSeq(out.rest) /\ Body \in Nat /\ Cmd.mode = "d" /\ DataOf(orig) = Data
      /\ d = SubSeq(out.rest, Body + 1, Len(out.rest))
  BY <1>1, EndedIs DEF First, Data
<1>3. PICK z \in 1 .. 4, x \in Nat, l \in Nat : z = Size /\ x = First /\ l = Len(Data)
  BY <1>1, <1>2, SmallFrames, Original
<1>4. x <= 4 /\ x <= l
  <2>1. x <= Min({4, l})
    BY <1>1, <1>2, <1>3
  <2> QED
    BY <2>1, LesserIs
<1>5. PICK m, at, s : m = i /\ at = Body /\ s = out.rest /\ m \in Nat /\ at \in Nat
  BY <1>2 DEF DInv, Heads
<1>6. Kept(s, at, m) /\ m = Inserted
  BY <1>1, <1>2, <1>3, <1>4, <1>5 DEF DInv, SlowedDown
<1>7. PICK p \in Nat : p = m * z /\ m * (2 * z) = 2 * p
  <2>1. m * z \in Nat
    BY <1>5, Products
  <2>2. m * (2 * z) = 2 * (m * z)
    BY <1>5
  <2> QED
    BY <2>1, <2>2
<1>8. /\ Len(s) = at + (x + 2 * p) /\ x + p <= l
      /\ \A k \in 1 .. x : s[at + k] = Data[k]
      /\ \A k \in 0 .. m - 1 : \A j \in 1 .. z :
           s[at + (x + k * (2 * z) + z + j)] = Data[x + k * z + j]
  BY <1>3, <1>6, <1>7 DEF Kept
<1>9. PICK t \in Nat : t = x + 2 * p
  OBVIOUS
<1>10. IsSeq(s) /\ Len(s) = at + t /\ d = SubSeq(s, at + 1, Len(s))
  BY <1>2, <1>5, <1>8, <1>9
<1>11. IsSeq(d) /\ Len(d) = t /\ \A k \in 1 .. t : d[k] = s[at + k]
  <2>1. at \in Nat /\ at <= Len(s) /\ IsSeq(s) /\ Len(s) - at = t
    BY <1>5, <1>10
  <2>2. /\ IsSeq(SubSeq(s, at + 1, Len(s))) /\ Len(SubSeq(s, at + 1, Len(s))) = Len(s) - at
        /\ \A k \in 1 .. Len(s) - at : SubSeq(s, at + 1, Len(s))[k] = s[at + k]
    BY <2>1, BodyIs, Zenon
  <2> QED
    BY <1>10, <2>1, <2>2
<1>12. n = m
  BY <1>1, <1>2, <1>6 DEF Inserted, Slowed
<1>13. ASSUME NEW k \in 1 .. x PROVE d[k] = Data[k]
  BY <1>8, <1>9, <1>11
<1>14. ASSUME NEW k \in 0 .. m - 1, NEW j \in 1 .. z
       PROVE  d[x + k * (2 * z) + z + j] = Data[x + k * z + j]
  <2>1. PICK q \in Nat : q = k * (2 * z) /\ q + 2 * z <= 2 * p
    <3>1. 2 * z \in Nat /\ k \in Nat /\ k < m
      BY <1>5
    <3>2. k * (2 * z) \in Nat /\ k * (2 * z) + 2 * z <= m * (2 * z)
      BY <1>5, <3>1, Products
    <3> QED
      BY <1>7, <3>2
  <2>2. x + q + z + j \in 1 .. t
    BY <1>9, <2>1
  <2>3. d[x + q + z + j] = s[at + (x + q + z + j)]
    BY <1>11, <2>2
  <2>4. s[at + (x + k * (2 * z) + z + j)] = Data[x + k * z + j]
    BY <1>8
  <2> QED
    BY <2>1, <2>3, <2>4
<1>15. /\ Len(d) = x + m * (2 * z) /\ x + m * z <= l
  BY <1>7, <1>8, <1>9, <1>11
<1> QED
  BY <1>2, <1>3, <1>12, <1>13, <1>14, <1>15, Zenon

\* What recode does to the samples (SamplesKept), unless stdout fails, for all
\* files, keys and factors and for frames that fit into an int: encrypting
\* twice restores every whole frame; -u picks the frames 0, f, 2f, ...; -d
\* keeps its first bytes and the n frames behind them that its loop counts,
\* each behind one interpolated frame, and drops the rest.
THEOREM SamplesSurvive == Spec => []SamplesKept
<1>1. IInv /\ DInv => SamplesKept
  BY DecryptedIs, PickedIs, KeptIs DEF SamplesKept
<1> QED
  BY <1>1, DataInvariant, PTL
=============================================================================
