----------------------------- MODULE MipsProofs -----------------------------
(***************************************************************************)
(* Proofs about Mips for all programs and all command lines: what the      *)
(* options mean (OptionsMean), which lines the assembler refuses           *)
(* (RefusalExplained), and that the others give their words back           *)
(* (Reassembled).                                                          *)
(*                                                                         *)
(* The last two need the history of both loops.  The disassembler and the  *)
(* assembler meet a line at the same address, because both start at the    *)
(* base and advance alike (Lines); and an argument that a line does not    *)
(* have was left by a line before it, because both start with cleared      *)
(* arguments (LeftOver).  That a line gives its word back is the lemma     *)
(* RoundTrip: the tables name one opcode for one code, and the subtraction *)
(* of the address undoes its addition.                                     *)
(***************************************************************************)
EXTENDS Mips, FiniteSetTheorems, WellFoundedInduction, TLAPS

\* The address of the first word.
Start == Add(options \cap 12 .. 31, Shl(Num(skip), 2))

\* A line is what decode made of a word at an address: an argument for every
\* source, and these come first.
LineOf(line, value, a) ==
  /\ line.op = opcode(value) /\ line.op # "ILLEGL"
  /\ Len(line.args) \in Nat
  /\ \A i \in 1 .. 3 :
       /\ srcs(line.op)[i] = "NSRC" => i > Len(line.args)
       /\ srcs(line.op)[i] # "NSRC" =>
            /\ i <= Len(line.args)
            /\ line.args[i] = decode(line.op, value, a)[i]

\* An argument of d for every source, as decode gives it.
Decoded(d, op, value, a) ==
  \A i \in 1 .. 3 : srcs(op)[i] # "NSRC" => d[i] = decode(op, value, a)[i]

IsSeq(s) == Len(s) \in Nat /\ s = [k \in 1 .. Len(s) |-> s[k]]

Inputs ==
  /\ argv \in Argvs /\ program \in Programs
  /\ proc \notin {"args", "refused"} =>
       \E o \in validargs(argv) : options = o \/ options = o \ {1}

\* The addresses at which the lines were written, and the next one.
Chain(at) ==
  /\ at[0] = Start
  /\ \A k \in 0 .. Len(text) - 1 : at[k + 1] = Add(at[k], {2})
  /\ \A k \in 1 .. Len(text) : LineOf(text[k], Ordered(program[k]), at[k - 1])

Lines ==
  /\ IsSeq(text) /\ Len(text) <= Len(program)
  /\ proc = "args" => text = << >> /\ out = << >>
  /\ \E at \in [0 .. Len(text) -> SUBSET Bits] :
       /\ Chain(at)
       /\ proc = "disassemble" => addr = at[Len(text)] /\ out = << >>
       /\ proc = "assemble" => addr = at[Len(out)]

LeftOver ==
  /\ IsSeq(out) /\ Len(out) <= Len(text)
  /\ proc = "assemble" =>
       \A i \in 1 .. 3 : args[i] # {} =>
         \E j \in 1 .. Len(out) :
           i <= Len(text[j].args) /\ text[j].args[i] = args[i]

\* The inductive invariant.
IInv ==
  /\ Inputs
  /\ Lines
  /\ LeftOver
  /\ RefusalExplained
  /\ Reassembled

-----------------------------------------------------------------------------
(* Numbers and sequences.                                                  *)

(* A non-empty set of naturals has a least element.                        *)
LEMMA Least ==
  ASSUME NEW S \in SUBSET Nat, S # {}
  PROVE  \E m \in S : \A n \in S : m <= n
<1> DEFINE Below == {ss \in Nat \X Nat : ss[1] < ss[2]}
<1>1. IsWellFoundedOn(Below, Nat)
  BY NatLessThanWellFounded, Zenon DEF OpToRel
<1> HIDE DEF Below
<1>2. PICK m \in S : \A n \in S : <<n, m>> \notin Below
  BY <1>1, WFMin
<1>3. \A n \in S : ~(n < m)
  BY <1>2 DEF Below
<1> QED
  BY <1>3

LEMMA Appended ==
  ASSUME NEW s, NEW x, IsSeq(s)
  PROVE  /\ IsSeq(Append(s, x))
         /\ Len(s) \in Nat /\ Len(Append(s, x)) = Len(s) + 1
         /\ \A k \in 1 .. Len(s) : Append(s, x)[k] = s[k]
         /\ Append(s, x)[Len(s) + 1] = x
<1> DEFINE S == {s[k] : k \in 1 .. Len(s)} \cup {x}
<1>1. Len(s) \in Nat /\ s \in [1 .. Len(s) -> S] /\ x \in S
  BY DEF IsSeq
<1> HIDE DEF S
<1>2. s \in Seq(S)
  BY <1>1
<1>3. Append(s, x) \in Seq(S)
  BY <1>1, <1>2
<1>4. /\ Len(Append(s, x)) = Len(s) + 1
      /\ \A k \in 1 .. Len(s) : Append(s, x)[k] = s[k]
      /\ Append(s, x)[Len(s) + 1] = x
  BY <1>1, <1>2
<1>5. PICK t : t = Append(s, x)
  OBVIOUS
<1>6. t \in Seq(S)
  BY <1>3, <1>5
<1>7. IsSeq(t)
  BY <1>6 DEF IsSeq
<1> QED
  BY <1>1, <1>4, <1>5, <1>7

LEMMA Empty == IsSeq(<< >>) /\ Len(<< >>) = 0
BY DEF IsSeq

-----------------------------------------------------------------------------
(* Words.                                                                  *)

(* A bit of a sum is the parity of the two bits and the carry.             *)
LEMMA SumBit ==
  ASSUME NEW w, NEW v, NEW b \in Bits
  PROVE  b \in Add(w, v) <=> ((b \in w <=> b \in v) <=> Carry(w, v, b))
<1> DEFINE p == b \in w
           q == b \in v
           r == Carry(w, v, b)
<1>1. b \in Add(w, v) <=> (p # q) # r
  BY Zenon DEF Add
<1>2. r = TRUE \/ r = FALSE
  BY DEF Carry
<1>3. p = TRUE \/ p = FALSE
  OBVIOUS
<1>4. q = TRUE \/ q = FALSE
  OBVIOUS
<1> HIDE DEF p, q, r
<1>5. (p # q) # r <=> ((p <=> q) <=> r)
  BY <1>2, <1>3, <1>4
<1> QED
  BY <1>1, <1>5, Zenon DEF p, q, r

(* The carries of a ripple adder.                                          *)
LEMMA Ripple ==
  ASSUME NEW w \in SUBSET Bits, NEW v \in SUBSET Bits
  PROVE  /\ ~Carry(w, v, 0)
         /\ \A b \in 0 .. 31 :
              Carry(w, v, b + 1) <=>
                \/ b \in w /\ b \in v
                \/ (b \in w \/ b \in v) /\ Carry(w, v, b)
<1>1. ~Carry(w, v, 0)
  BY DEF Carry, Bits
<1>2. ASSUME NEW b \in 0 .. 31, Carry(w, v, b + 1)
      PROVE  \/ b \in w /\ b \in v
             \/ (b \in w \/ b \in v) /\ Carry(w, v, b)
  <2>1. PICK k \in w \cap v : k < b + 1 /\ (k + 1) .. ((b + 1) - 1) \subseteq w \cup v
    BY <1>2 DEF Carry
  <2>2. k \in 0 .. 31
    BY DEF Bits
  <2>3. CASE k = b
    BY <2>3
  <2>4. CASE k < b
    <3>1. b \in (k + 1) .. ((b + 1) - 1) /\ (k + 1) .. (b - 1) \subseteq (k + 1) .. ((b + 1) - 1)
      BY <2>2, <2>4
    <3> QED
      BY <2>1, <2>4, <3>1 DEF Carry
  <2> QED
    BY <2>1, <2>2, <2>3, <2>4
<1>3. ASSUME NEW b \in 0 .. 31, b \in w, b \in v
      PROVE  Carry(w, v, b + 1)
  <2>1. b < b + 1 /\ (b + 1) .. ((b + 1) - 1) = {}
    OBVIOUS
  <2> QED
    BY <1>3, <2>1 DEF Carry
<1>4. ASSUME NEW b \in 0 .. 31, b \in w \/ b \in v, Carry(w, v, b)
      PROVE  Carry(w, v, b + 1)
  <2>1. PICK k \in w \cap v : k < b /\ (k + 1) .. (b - 1) \subseteq w \cup v
    BY <1>4 DEF Carry
  <2>2. k \in 0 .. 31
    BY DEF Bits
  <2>3. (k + 1) .. ((b + 1) - 1) \subseteq w \cup v
    BY <1>4, <2>1, <2>2
  <2>4. k < b + 1
    BY <2>1, <2>2
  <2> QED
    BY <2>3, <2>4 DEF Carry
<1> QED
  BY <1>1, <1>2, <1>3, <1>4

(* The two's complement: the bits up to the lowest one stay, the others     *)
(* turn.                                                                   *)
NoneBelow(y, b) == \A k \in y : k >= b

LEMMA Negative ==
  ASSUME NEW y \in SUBSET Bits, NEW b \in Bits
  PROVE  b \in Add(Bits \ y, {0}) <=> (b \in y <=> NoneBelow(y, b))
<1>1. 0 \in Bits /\ b \in 0 .. 31 /\ \A k \in y : k \in 0 .. 31
  BY DEF Bits
<1>2. CASE b = 0
  <2>1. NoneBelow(y, b)
    BY <1>1, <1>2 DEF NoneBelow
  <2>2. ~Carry(Bits \ y, {0}, b)
    BY <1>2 DEF Carry
  <2> QED
    BY <1>1, <1>2, <2>1, <2>2, SumBit
<1>3. CASE b > 0
  <2>1. Carry(Bits \ y, {0}, b) <=> NoneBelow(y, b)
    <3>1. ASSUME NoneBelow(y, b) PROVE Carry(Bits \ y, {0}, b)
      <4>1. 0 \in (Bits \ y) \cap {0} /\ 0 < b
        BY <1>1, <1>3, <3>1 DEF NoneBelow
      <4>2. (0 + 1) .. (b - 1) \subseteq (Bits \ y) \cup {0}
        BY <1>1, <3>1 DEF NoneBelow, Bits
      <4> QED
        BY <4>1, <4>2 DEF Carry
    <3>2. ASSUME Carry(Bits \ y, {0}, b) PROVE NoneBelow(y, b)
      <4>1. 0 \notin y /\ (0 + 1) .. (b - 1) \subseteq (Bits \ y) \cup {0}
        BY <3>2 DEF Carry
      <4>2. ASSUME NEW k \in y, k < b PROVE FALSE
        <5>1. k \in (0 + 1) .. (b - 1)
          BY <1>1, <4>1, <4>2
        <5> QED
          BY <4>1, <5>1
      <4> QED
        BY <1>1, <4>2 DEF NoneBelow
    <3> QED
      BY <3>1, <3>2
  <2>2. b \notin {0} /\ (b \in Bits \ y <=> b \notin y)
    BY <1>3
  <2> QED
    BY <2>1, <2>2, SumBit
<1> QED
  BY <1>1, <1>2, <1>3

(* Subtraction undoes addition.                                            *)
LEMMA SubAdd ==
  ASSUME NEW x \in SUBSET Bits, NEW y \in SUBSET Bits
  PROVE  Sub(Add(x, y), y) = x
<1>1. PICK s \in SUBSET Bits : s = Add(x, y)
  BY DEF Add
<1>2. PICK n \in SUBSET Bits : n = Add(Bits \ y, {0})
  BY DEF Add
<1> DEFINE D(b) == Carry(s, n, b) <=> ~NoneBelow(y, b) /\ ~Carry(x, y, b)
<1>3. \A b \in 0 .. 31 : NoneBelow(y, b) => ~Carry(x, y, b)
  BY DEF NoneBelow, Carry, Bits
<1>4. \A b \in 0 .. 31 : NoneBelow(y, b + 1) <=> NoneBelow(y, b) /\ b \notin y
  BY DEF NoneBelow, Bits
<1>5. \A b \in 0 .. 31 : /\ b \in s <=> ((b \in x <=> b \in y) <=> Carry(x, y, b))
                         /\ b \in n <=> (b \in y <=> NoneBelow(y, b))
  BY <1>1, <1>2, SumBit, Negative DEF Bits
<1>6. ASSUME NEW b \in 0 .. 31, D(b)
      PROVE  D(b + 1)
  <2>1. /\ b \in s <=> ((b \in x <=> b \in y) <=> Carry(x, y, b))
        /\ b \in n <=> (b \in y <=> NoneBelow(y, b))
        /\ NoneBelow(y, b + 1) <=> NoneBelow(y, b) /\ b \notin y
        /\ NoneBelow(y, b) => ~Carry(x, y, b)
    BY <1>3, <1>4, <1>5
  <2>2. Carry(s, n, b + 1) <=> \/ b \in s /\ b \in n
                               \/ (b \in s \/ b \in n) /\ Carry(s, n, b)
    BY Ripple
  <2>3. Carry(x, y, b + 1) <=> \/ b \in x /\ b \in y
                               \/ (b \in x \/ b \in y) /\ Carry(x, y, b)
    BY Ripple
  <2> QED
    BY <1>6, <2>1, <2>2, <2>3
<1>7. D(0)
  <2>1. ~Carry(s, n, 0)
    BY Ripple
  <2>2. NoneBelow(y, 0)
    BY DEF NoneBelow, Bits
  <2> QED
    BY <2>1, <2>2
<1>8. \A b \in 0 .. 31 : D(b)
  <2> DEFINE Bad == {b \in 0 .. 31 : ~D(b)}
  <2> SUFFICES ASSUME Bad # {} PROVE FALSE
    BY DEF Bad
  <2>1. PICK m \in Bad : \A b \in Bad : m <= b
    <3>1. Bad \in SUBSET Nat
      OBVIOUS
    <3> HIDE DEF Bad
    <3> QED
      BY <3>1, Least
  <2>2. m \in 0 .. 31 /\ ~D(m) /\ m # 0
    BY <1>7
  <2> HIDE DEF D
  <2>3. m - 1 \in 0 .. 31 /\ m - 1 \notin Bad
    BY <2>1, <2>2
  <2>4. D(m - 1) /\ (m - 1) + 1 = m
    BY <2>2, <2>3
  <2>5. D((m - 1) + 1)
    BY <1>6, <2>3, <2>4
  <2> QED
    BY <2>2, <2>4, <2>5
<1>9. ASSUME NEW b \in Bits
      PROVE  b \in Add(s, n) <=> b \in x
  <2>1. b \in Add(s, n) <=> ((b \in s <=> b \in n) <=> Carry(s, n, b))
    BY SumBit
  <2>2. /\ b \in s <=> ((b \in x <=> b \in y) <=> Carry(x, y, b))
        /\ b \in n <=> (b \in y <=> NoneBelow(y, b))
        /\ NoneBelow(y, b) => ~Carry(x, y, b)
    BY <1>3, <1>5 DEF Bits
  <2>3. D(b)
    BY <1>8 DEF Bits
  <2> QED
    BY <2>1, <2>2, <2>3
<1>10. Add(s, n) \subseteq Bits
  BY DEF Add
<1> QED
  BY <1>1, <1>2, <1>9, <1>10 DEF Sub

(* Subtracting a segment changes nothing below it.                         *)
LEMMA SubSegment ==
  ASSUME NEW w \in SUBSET Bits, NEW h \in SUBSET (28 .. 31)
  PROVE  Sub(w, h) \cap 0 .. 27 = w \cap 0 .. 27
<1>1. PICK n \in SUBSET Bits : n = Add(Bits \ h, {0})
  BY DEF Add
<1>2. ASSUME NEW b \in 0 .. 27 PROVE b \notin n
  <2>1. b \in Bits /\ h \in SUBSET Bits /\ NoneBelow(h, b) /\ b \notin h
    BY DEF Bits, NoneBelow
  <2> QED
    BY <1>1, <2>1, Negative
<1>3. ASSUME NEW b \in 0 .. 27 PROVE b \in Add(w, n) <=> b \in w
  <2>1. ~Carry(w, n, b)
    BY <1>2 DEF Carry, Bits
  <2> QED
    BY <1>2, <2>1, SumBit DEF Bits
<1> QED
  BY <1>1, <1>3 DEF Sub

(* The bytes of a word are swapped and swapped back.                       *)
LEMMA Swapped ==
  ASSUME NEW w \in SUBSET Bits
  PROVE  bigEndian(w) \in SUBSET Bits /\ bigEndian(bigEndian(w)) = w
<1> DEFINE g(b) == b + (24 - 16 * (b \div 8))
<1>1. \A b \in 0 .. 31 : g(b) \in 0 .. 31 /\ g(g(b)) = b
  OBVIOUS
<1>2. \A u : bigEndian(u) = {g(b) : b \in u}
  BY DEF bigEndian
<1> HIDE DEF g
<1> QED
  BY <1>1, <1>2 DEF Bits

(* The bits of a word that is shifted.                                     *)
LEMMA Shifted ==
  ASSUME NEW w \in SUBSET Bits, NEW k \in 0 .. 31
  PROVE  /\ Shl(w, k) \in SUBSET Bits /\ Shr(w, k) \in SUBSET Bits
         /\ \A b \in 0 .. 31 : b \in Shl(w, k) <=> b - k \in w
         /\ \A b \in 0 .. 31 : b \in Shr(w, k) <=> b + k \in w
<1>1. Shl(w, k) \in SUBSET Bits /\ Shr(w, k) \in SUBSET Bits
  BY DEF Shl, Shr
<1>2. \A c \in w : c \in 0 .. 31
  BY DEF Bits
<1>3. ASSUME NEW b \in 0 .. 31 PROVE b \in Shl(w, k) <=> b - k \in w
  <2>1. b \in Shl(w, k) <=> \E c \in w : b = c + k
    BY DEF Shl, Bits
  <2>2. \A c \in w : b = c + k <=> c = b - k
    BY <1>2
  <2> QED
    BY <2>1, <2>2
<1>4. ASSUME NEW b \in 0 .. 31 PROVE b \in Shr(w, k) <=> b + k \in w
  <2>1. b \in Shr(w, k) <=> \E c \in w : b = c - k
    BY DEF Shr, Bits
  <2>2. \A c \in w : b = c - k <=> c = b + k
    BY <1>2
  <2> QED
    BY <2>1, <2>2
<1> QED
  BY <1>1, <1>3, <1>4

(* A field that is moved down and up again is the field.                   *)
LEMMA FieldBits ==
  ASSUME NEW value \in SUBSET Bits, NEW k \in 0 .. 26, NEW n \in 0 .. 31, k + n <= 31
  PROVE  Shl(Shr(value, k) \cap 0 .. n, k) = value \cap k .. (k + n)
<1>1. ASSUME NEW b \in Shl(Shr(value, k) \cap 0 .. n, k)
      PROVE  b \in value \cap k .. (k + n)
  <2>1. PICK c \in Shr(value, k) \cap 0 .. n : b = c + k
    BY <1>1 DEF Shl
  <2>2. PICK d \in value : c = d - k
    BY DEF Shr
  <2>3. d \in 0 .. 31
    BY DEF Bits
  <2>4. d = b
    BY <2>1, <2>2, <2>3
  <2> QED
    BY <2>1, <2>2, <2>3, <2>4
<1>2. ASSUME NEW b \in value \cap k .. (k + n)
      PROVE  b \in Shl(Shr(value, k) \cap 0 .. n, k)
  <2>1. b \in 0 .. 31 /\ b - k \in 0 .. n /\ b - k \in 0 .. 31 /\ (b - k) + k = b
    BY DEF Bits
  <2>2. b - k \in Shr(value, k)
    BY <2>1 DEF Shr, Bits
  <2> QED
    BY <2>1, <2>2 DEF Shl, Bits
<1> QED
  BY <1>1, <1>2

(* Words without a common bit are added without a carry.                   *)
LEMMA AddDisjoint ==
  ASSUME NEW w \in SUBSET Bits, NEW v \in SUBSET Bits, w \cap v = {}
  PROVE  Add(w, v) = w \cup v
<1>1. ASSUME NEW b \in Bits
      PROVE  b \in Add(w, v) <=> b \in w \cup v
  <2>1. ~Carry(w, v, b)
    BY DEF Carry
  <2> QED
    BY <2>1, SumBit
<1>2. Add(w, v) \subseteq Bits
  BY DEF Add
<1> QED
  BY <1>1, <1>2

(* The carry of addr + 4 reaches the segment only through bits 2 to 27.     *)
LEMMA AddFour ==
  ASSUME NEW a \in SUBSET Bits, a \cap 2 .. 27 # 2 .. 27
  PROVE  Add(a, {2}) \cap 28 .. 31 = a \cap 28 .. 31
<1>1. ASSUME NEW b \in 28 .. 31
      PROVE  ~Carry(a, {2}, b)
  <2> SUFFICES ASSUME Carry(a, {2}, b) PROVE FALSE
    OBVIOUS
  <2>1. 2 \in a /\ 3 .. (b - 1) \subseteq a \cup {2}
    BY DEF Carry
  <2>2. \A k \in 2 .. 27 : k \in a
    BY <2>1
  <2> QED
    BY <2>2
<1>2. \A b \in 28 .. 31 : b \in Bits /\ b # 2
  BY DEF Bits
<1>3. \A b \in 28 .. 31 : b \in Add(a, {2}) <=> b \in a
  BY <1>1, <1>2, SumBit
<1> QED
  BY <1>3

-----------------------------------------------------------------------------
(* The tables.                                                             *)

LEMMA Tables ==
  /\ DOMAIN opcodeTable = 1 .. 64 /\ Len(opcodeTable) = 64
  /\ DOMAIN specialTable = 1 .. 64 /\ Len(specialTable) = 64
BY DEF opcodeTable, specialTable

LEMMA OpcodeOnce ==
  \A i, j \in 1 .. 64 :
    opcodeTable[i] = opcodeTable[j] /\ opcodeTable[i] \notin {"ILLEGL", "UNIMP"} => i = j
BY DEF opcodeTable

LEMMA SpecialOnce ==
  \A i, j \in 1 .. 64 :
    specialTable[i] = specialTable[j] /\ specialTable[i] # "ILLEGL" => i = j
BY DEF specialTable

LEMMA TablesDisjoint ==
  /\ \A i, j \in 1 .. 64 : opcodeTable[i] = specialTable[j] => opcodeTable[i] = "ILLEGL"
  /\ \A i \in 1 .. 64 : opcodeTable[i] \notin {"BLTZ", "BGEZ", "BLTZAL", "BGEZAL"}
  /\ \A i \in 1 .. 64 :
       specialTable[i] \notin {"BLTZ", "BGEZ", "BLTZAL", "BGEZAL", "J", "JAL", "UNIMP"}
BY DEF opcodeTable, specialTable

LEMMA Positions ==
  /\ opcodeTable[1] = "SPECIAL" /\ opcodeTable[2] = "BCOND"
  /\ specialTable[14] = "BREAK"
BY DEF opcodeTable, specialTable

LEMMA IndexIs ==
  ASSUME NEW T, Len(T) = 64, NEW f \in 1 .. 64, \A i \in 1 .. 64 : T[i] = T[f] => i = f
  PROVE  Index(T, T[f]) = f - 1
<1>1. {i \in 1 .. 64 : T[i] = T[f]} = {f}
  OBVIOUS
<1>2. Min({f}) = f
  BY DEF Min
<1> QED
  BY <1>1, <1>2 DEF Index, SelectInSeq

(* Six bits are a number below 64.                                         *)
LEMMA SixBits ==
  ASSUME NEW w \in SUBSET (0 .. 5)
  PROVE  \E n \in 0 .. 63 : Num(n) = w
<1> DEFINE x0 == IF 0 \in w THEN 1 ELSE 0
           x1 == IF 1 \in w THEN 2 ELSE 0
           x2 == IF 2 \in w THEN 4 ELSE 0
           x3 == IF 3 \in w THEN 8 ELSE 0
           x4 == IF 4 \in w THEN 16 ELSE 0
           x5 == IF 5 \in w THEN 32 ELSE 0
           n == x0 + x1 + x2 + x3 + x4 + x5
<1>1. n \in 0 .. 63
  OBVIOUS
<1>2. (n % 2 = 1 <=> 0 \in w) /\ ((n \div 2) % 2 = 1 <=> 1 \in w)
  OBVIOUS
<1>3. ((n \div 4) % 2 = 1 <=> 2 \in w) /\ ((n \div 8) % 2 = 1 <=> 3 \in w)
  OBVIOUS
<1>4. ((n \div 16) % 2 = 1 <=> 4 \in w) /\ ((n \div 32) % 2 = 1 <=> 5 \in w)
  OBVIOUS
<1> HIDE DEF n
<1>5. \A p \in {64, 128, 256, 512, 1024, 2048, 4096, 8192, 16384, 32768} : n \div p = 0
  BY <1>1
<1>6. \A b \in 0 .. 15 : (n \div PowersOf2[b + 1]) % 2 = 1 <=> b \in w
  BY <1>1, <1>2, <1>3, <1>4, <1>5 DEF PowersOf2
<1>7. Num(n) = w
  <2>1. \A b \in w : b \in 0 .. 15
    OBVIOUS
  <2> QED
    BY <1>6, <2>1 DEF Num
<1> QED
  BY <1>1, <1>7

(* The field that decode makes of six bits.                                *)
Field(w) == CHOOSE n \in 0 .. 63 : Num(n) = w

LEMMA FieldIs ==
  ASSUME NEW w \in SUBSET (0 .. 5)
  PROVE  Field(w) \in 0 .. 63 /\ Num(Field(w)) = w
BY SixBits DEF Field

LEMMA NumOne == Num(0) = {} /\ Num(1) = {0}
<1>1. \A b \in 0 .. 15 : PowersOf2[b + 1] \in Nat \ {0} /\ (b > 0 => PowersOf2[b + 1] > 1)
  BY DEF PowersOf2
<1>2. PowersOf2[0 + 1] = 1
  BY DEF PowersOf2
<1>3. \A p \in Nat \ {0} : (0 \div p) % 2 = 0 /\ (p > 1 => (1 \div p) % 2 = 0)
  OBVIOUS
<1>4. (1 \div 1) % 2 = 1
  OBVIOUS
<1> QED
  BY <1>1, <1>2, <1>3, <1>4 DEF Num

LEMMA TypeIs ==
  ASSUME NEW op
  PROVE  /\ (\E i \in 1 .. 64 : specialTable[i] = op) => type(op) = "RTYP"
         /\ type(op) = "RTYP" => \E i \in 1 .. 64 : specialTable[i] = op
         /\ op = "UNIMP" => type(op) = "NTYP"
BY Tables, TablesDisjoint DEF type

(* The bits of the opcode that encode finds are those decode has read.     *)
LEMMA OpcodeIs ==
  ASSUME NEW value \in SUBSET Bits, NEW op, op = opcode(value), op # "ILLEGL",
         type(op) # "NTYP"
  PROVE  OpcodeBits(op) = value \cap OpcodeField(op)
<1> DEFINE top == Shr(value, 26)
           major == opcodeTable[Field(top) + 1]
           cond == {c \in DOMAIN bcondCode : bcondCode[c] = value \cap 16 .. 20}
<1>1. top \in SUBSET (0 .. 5)
  BY DEF Shr, Bits
<1>2. /\ Field(top) \in 0 .. 63 /\ Num(Field(top)) = top
      /\ Field(top) + 1 \in 1 .. 64 /\ (Field(top) + 1) - 1 = Field(top)
  BY <1>1, FieldIs
<1>3. Shl(top, 26) = value \cap 26 .. 31
  <2>1. top \cap 0 .. 5 = top
    BY <1>1
  <2>2. Shl(top \cap 0 .. 5, 26) = value \cap 26 .. (26 + 5)
    <3>1. 26 \in 0 .. 26 /\ 5 \in 0 .. 31 /\ 26 + 5 <= 31
      OBVIOUS
    <3> QED
      BY <3>1, FieldBits, Zenon
  <2> HIDE DEF top
  <2> QED
    BY <2>1, <2>2
<1>4. op = CASE major = "SPECIAL" -> specialTable[Field(value \cap 0 .. 5) + 1]
             [] major = "BCOND" -> IF cond = {} THEN "ILLEGL" ELSE CHOOSE c \in cond : TRUE
             [] OTHER -> major
  BY DEF opcode, Field
<1>5. DOMAIN bcondCode = {"BLTZ", "BGEZ", "BLTZAL", "BGEZAL"}
  BY DEF bcondCode
<1> HIDE DEF top
<1>6. CASE major = "SPECIAL"
  <2>1. Field(top) + 1 = 1
    <3>1. PICK m \in 1 .. 64 : m = Field(top) + 1 /\ opcodeTable[m] = "SPECIAL"
      BY <1>2, <1>6
    <3>2. m = 1
      BY <3>1, OpcodeOnce, Positions
    <3> QED
      BY <3>1, <3>2
  <2>2. top = {}
    BY <1>2, <2>1, NumOne
  <2>3. value \cap 26 .. 31 = {}
    BY <1>3, <2>2 DEF Shl
  <2>4. PICK f \in 1 .. 64 : f = Field(value \cap 0 .. 5) + 1 /\ Num(f - 1) = value \cap 0 .. 5
    <3>1. value \cap 0 .. 5 \in SUBSET (0 .. 5)
      OBVIOUS
    <3> QED
      BY <3>1, FieldIs
  <2>5. op = specialTable[f]
    BY <1>4, <1>6, <2>4
  <2>6. Index(specialTable, op) = f - 1
    <3>1. \A i \in 1 .. 64 : specialTable[i] = specialTable[f] => i = f
      BY <2>5, SpecialOnce
    <3>2. Index(specialTable, specialTable[f]) = f - 1
      BY <3>1, Tables, IndexIs
    <3> QED
      BY <2>5, <3>2
  <2>7. op \notin DOMAIN bcondCode /\ type(op) = "RTYP"
    BY <1>5, <2>5, TablesDisjoint, TypeIs
  <2>8. \E i \in DOMAIN specialTable : specialTable[i] = op
    BY <2>5, Tables
  <2>9. OpcodeBits(op) = value \cap 0 .. 5
    BY <2>4, <2>6, <2>7, <2>8 DEF OpcodeBits
  <2> QED
    BY <2>3, <2>7, <2>9 DEF OpcodeField
<1>7. CASE major = "BCOND"
  <2>1. Field(top) + 1 = 2
    BY <1>2, <1>7, OpcodeOnce, Positions
  <2>2. op \in DOMAIN bcondCode /\ bcondCode[op] = value \cap 16 .. 20
    BY <1>4, <1>7
  <2>3. type(op) # "RTYP"
    BY <1>5, <2>2, TablesDisjoint, TypeIs
  <2>4. Index(opcodeTable, "BCOND") = 1
    <3>1. 2 \in 1 .. 64 /\ \A i \in 1 .. 64 : opcodeTable[i] = opcodeTable[2] => i = 2
      BY OpcodeOnce, Positions
    <3>2. Index(opcodeTable, opcodeTable[2]) = 2 - 1
      BY <3>1, Tables, IndexIs
    <3> QED
      BY <3>2, Positions
  <2>5. Num(1) = top
    BY <1>2, <2>1
  <2>6. OpcodeBits(op) = (value \cap 26 .. 31) \cup (value \cap 16 .. 20)
    BY <1>3, <2>2, <2>4, <2>5 DEF OpcodeBits
  <2> QED
    BY <2>2, <2>3, <2>6 DEF OpcodeField
<1>8. CASE major \notin {"SPECIAL", "BCOND"}
  <2>1. op = opcodeTable[Field(top) + 1] /\ op \notin {"ILLEGL", "UNIMP"}
    BY <1>4, <1>8, TypeIs
  <2>2. Index(opcodeTable, op) = Field(top)
    <3>1. \A i \in 1 .. 64 : opcodeTable[i] = opcodeTable[Field(top) + 1] => i = Field(top) + 1
      BY <1>2, <2>1, OpcodeOnce
    <3>2. Index(opcodeTable, opcodeTable[Field(top) + 1]) = (Field(top) + 1) - 1
      BY <1>2, <3>1, Tables, IndexIs
    <3> QED
      BY <1>2, <2>1, <3>2
  <2>3. op \notin DOMAIN bcondCode /\ ~\E i \in 1 .. 64 : specialTable[i] = op
    BY <1>2, <1>5, <2>1, TablesDisjoint
  <2>4. type(op) # "RTYP"
    BY <2>3, TypeIs
  <2>5. OpcodeBits(op) = value \cap 26 .. 31
    BY <1>2, <1>3, <2>2, <2>3, Tables DEF OpcodeBits
  <2> QED
    BY <2>3, <2>4, <2>5 DEF OpcodeField
<1> QED
  BY <1>6, <1>7, <1>8

(* The target of a jump is in the segment of the address behind it.        *)
LEMMA JumpSegment ==
  ASSUME NEW op, type(op) = "JTYP", NEW value, NEW a \in SUBSET Bits
  PROVE  Extra(op, value, a) \cap 28 .. 31 = Add(a, {2}) \cap 28 .. 31
<1> DEFINE low == Shl(value \cap 0 .. 25, 2)
           high == Add(a, {2}) \cap 28 .. 31
<1>1. op # "BREAK"
  <2>1. specialTable[14] = "BREAK" /\ 14 \in DOMAIN specialTable
    BY DEF specialTable
  <2> QED
    BY <2>1 DEF type
<1>2. Extra(op, value, a) = Add(low, high)
  BY <1>1 DEF Extra
<1>3. low \subseteq 2 .. 27 /\ low \subseteq Bits
  BY DEF Shl, Bits
<1>4. high \subseteq 28 .. 31 /\ high \subseteq Bits
  BY DEF Add
<1>5. low \cap high = {}
  BY <1>3, <1>4
<1>6. Add(low, high) = low \cup high
  BY <1>3, <1>4, <1>5, AddDisjoint
<1> HIDE DEF low, high
<1>7. (low \cup high) \cap 28 .. 31 = high
  <2>1. \A b \in 28 .. 31 : b \notin low
    BY <1>3
  <2> QED
    BY <2>1, <1>4
<1> QED
  BY <1>2, <1>6, <1>7 DEF high

LEMMA SourcesAre ==
  ASSUME NEW op, NEW i \in 1 .. 3
  PROVE  srcs(op)[i] \in {"RS", "RT", "RD", "EXTRA", "NSRC"}
BY DEF srcs

(* The arguments of an instruction come first in its list of sources.      *)
LEMMA Sources ==
  ASSUME NEW op
  PROVE  \E n \in 0 .. 3 : {i \in 1 .. 3 : srcs(op)[i] # "NSRC"} = 1 .. n
<1>1. srcs(op) \in
        {<<"RD", "RS", "RT">>, <<"RT", "RS", "EXTRA">>, <<"RS", "RT", "EXTRA">>,
         <<"RS", "EXTRA", "NSRC">>, <<"RS", "RT", "NSRC">>,
         <<"EXTRA", "NSRC", "NSRC">>, <<"RD", "RS", "NSRC">>,
         <<"RS", "NSRC", "NSRC">>, <<"RT", "EXTRA", "RS">>,
         <<"RT", "EXTRA", "NSRC">>, <<"RD", "NSRC", "NSRC">>,
         <<"RD", "RT", "EXTRA">>, <<"RD", "RT", "RS">>,
         <<"NSRC", "NSRC", "NSRC">>}
  BY DEF srcs
<1>2. \/ srcs(op)[1] = "NSRC" /\ srcs(op)[2] = "NSRC" /\ srcs(op)[3] = "NSRC"
      \/ srcs(op)[1] # "NSRC" /\ srcs(op)[2] = "NSRC" /\ srcs(op)[3] = "NSRC"
      \/ srcs(op)[1] # "NSRC" /\ srcs(op)[2] # "NSRC" /\ srcs(op)[3] = "NSRC"
      \/ srcs(op)[1] # "NSRC" /\ srcs(op)[2] # "NSRC" /\ srcs(op)[3] # "NSRC"
  BY <1>1
<1>3. \A n \in 0 .. 3 :
        {i \in 1 .. 3 : srcs(op)[i] # "NSRC"} = 1 .. n
          <=> \A i \in {1, 2, 3} : srcs(op)[i] # "NSRC" <=> i <= n
  OBVIOUS
<1> QED
  BY <1>2, <1>3

(* The line that the disassembler prints.                                  *)
LEMMA Printed ==
  ASSUME NEW op, NEW value, NEW a, op = opcode(value), op # "ILLEGL"
  PROVE  LET n == Cardinality({i \in 1 .. 3 : srcs(op)[i] # "NSRC"})
             t == SubSeq(decode(op, value, a), 1, n)
         IN LineOf([op |-> op, args |-> t], value, a)
<1> DEFINE d == decode(op, value, a)
           sources == {i \in 1 .. 3 : srcs(op)[i] # "NSRC"}
<1>1. PICK n \in 0 .. 3 : sources = 1 .. n
  BY Sources
<1>2. Cardinality(sources) = n
  <2>1. n \in Int /\ 1 \in Int
    BY <1>1
  <2>2. Cardinality(1 .. n) = IF 1 > n THEN 0 ELSE n - 1 + 1
    BY <2>1, FS_Interval
  <2>3. Cardinality(1 .. n) = n
    BY <1>1, <2>2
  <2> QED
    BY <1>1, <2>3, Zenon
<1>3. d = [i \in 1 .. 3 |-> d[i]]
  BY DEF decode
<1>4. \A i \in 1 .. 3 : srcs(op)[i] # "NSRC" <=> i <= n
  BY <1>1
<1> HIDE DEF d, sources
<1>5. PICK t : t = SubSeq(d, 1, n)
  OBVIOUS
<1>6. Len(t) = n /\ \A i \in 1 .. n : t[i] = d[i]
  <2>1. SubSeq(d, 1, n) = [i \in 1 .. n |-> d[i]]
    BY <1>3
  <2>2. DOMAIN [i \in 1 .. n |-> d[i]] = 1 .. n
    OBVIOUS
  <2>3. Len([i \in 1 .. n |-> d[i]]) = n
    BY <2>2
  <2> QED
    BY <1>5, <2>1, <2>3
<1>7. LineOf([op |-> op, args |-> t], value, a)
  BY <1>4, <1>6 DEF LineOf, d
<1> QED
  BY <1>2, <1>5, <1>7 DEF d, sources

-----------------------------------------------------------------------------
(* What encode makes of what decode has made of a word.                    *)

LEMMA TypesAre ==
  ASSUME NEW op
  PROVE  /\ type(op) \in {"NTYP", "JTYP", "RTYP", "ITYP"}
         /\ op = "BREAK" => type(op) = "RTYP"
         /\ isBranch(op) => type(op) = "ITYP"
<1>1. type(op) \in {"NTYP", "JTYP", "RTYP", "ITYP"}
  BY DEF type
<1>2. op = "BREAK" => type(op) = "RTYP"
  <2>1. 14 \in 1 .. 64
    OBVIOUS
  <2> QED
    BY <2>1, Positions, TypeIs
<1>3. isBranch(op) => \A i \in 1 .. 64 : specialTable[i] # op
  BY DEF isBranch, specialTable
<1>4. isBranch(op) => type(op) = "ITYP"
  BY <1>3, Tables DEF type, isBranch
<1> QED
  BY <1>1, <1>2, <1>4

LEMMA ImmediateIs ==
  ASSUME NEW value \in SUBSET Bits
  PROVE  /\ SignExtend(value) \in SUBSET Bits
         /\ SignExtend(value) \cap 0 .. 15 = value \cap 0 .. 15
         /\ Sar(Shl(SignExtend(value), 2), 2) \cap 0 .. 15 = value \cap 0 .. 15
<1>1. PICK e : e = SignExtend(value)
  OBVIOUS
<1>2. e \in SUBSET Bits /\ e \cap 0 .. 15 = value \cap 0 .. 15
  <2>1. 0 .. 15 \subseteq Bits /\ 16 .. 31 \subseteq Bits /\ 16 .. 31 \cap 0 .. 15 = {}
    BY DEF Bits
  <2>2. e = value \cup 16 .. 31 \/ e = value \cap 0 .. 15
    BY <1>1 DEF SignExtend
  <2> QED
    BY <2>1, <2>2
<1>3. ASSUME NEW b \in 0 .. 15
      PROVE  b \in Sar(Shl(e, 2), 2) <=> b \in e
  <2>1. b \notin (32 - 2) .. 31 /\ b \in 0 .. 31 /\ b + 2 \in 0 .. 31 /\ (b + 2) - 2 = b
    OBVIOUS
  <2>2. b \in Sar(Shl(e, 2), 2) <=> b \in Shr(Shl(e, 2), 2)
    BY <2>1 DEF Sar
  <2>3. b \in Shr(Shl(e, 2), 2) <=> b + 2 \in Shl(e, 2)
    BY <1>2, <2>1, Shifted
  <2>4. b + 2 \in Shl(e, 2) <=> b \in e
    BY <1>2, <2>1, Shifted
  <2> QED
    BY <2>2, <2>3, <2>4
<1> QED
  BY <1>1, <1>2, <1>3

LEMMA BranchIs ==
  ASSUME NEW value \in SUBSET Bits, NEW a \in SUBSET Bits
  PROVE  LET extra == Add(Shl(SignExtend(value), 2), Add(a, {2}))
         IN Sar(Sub(extra, Add(a, {2})), 2) \cap 0 .. 15 = value \cap 0 .. 15
<1>1. Shl(SignExtend(value), 2) \in SUBSET Bits /\ Add(a, {2}) \in SUBSET Bits
  BY DEF Shl, Add
<1>2. Sub(Add(Shl(SignExtend(value), 2), Add(a, {2})), Add(a, {2})) = Shl(SignExtend(value), 2)
  BY <1>1, SubAdd
<1> QED
  BY <1>2, ImmediateIs

LEMMA BreakIs ==
  ASSUME NEW value \in SUBSET Bits, 25 \notin value
  PROVE  Sar(Shl(Shr(value, 6) \cap 0 .. 19, 12), 6) = value \cap 6 .. 25
<1>1. PICK c \in SUBSET (0 .. 18) : c = Shr(value, 6) \cap 0 .. 19
  <2>1. 19 \notin Shr(value, 6)
    BY Shifted
  <2>2. \A b \in Shr(value, 6) \cap 0 .. 19 : b \in 0 .. 18
    BY <2>1
  <2> QED
    BY <2>2
<1>2. 31 \notin Shl(c, 12)
  BY DEF Shl
<1>3. Sar(Shl(c, 12), 6) = Shr(Shl(c, 12), 6)
  BY <1>2 DEF Sar
<1>4. Shr(Shl(c, 12), 6) = Shl(c, 6)
  <2>1. c \in SUBSET Bits /\ Shl(c, 12) \in SUBSET Bits
    BY DEF Bits, Shl
  <2>2. ASSUME NEW b \in 0 .. 31
        PROVE  b \in Shr(Shl(c, 12), 6) <=> b - 6 \in c
    <3>1. b \in Shr(Shl(c, 12), 6) <=> b + 6 \in Shl(c, 12)
      BY <2>1, Shifted
    <3>2. CASE b + 6 \in 0 .. 31
      <4>1. (b + 6) - 12 = b - 6
        OBVIOUS
      <4> QED
        BY <2>1, <3>1, <3>2, <4>1, Shifted
    <3>3. CASE b + 6 \notin 0 .. 31
      <4>1. b - 6 \notin c
        BY <3>3
      <4>2. b + 6 \notin Shl(c, 12)
        BY <3>3 DEF Shl, Bits
      <4> QED
        BY <3>1, <4>1, <4>2
    <3> QED
      BY <3>2, <3>3
  <2>3. \A b \in 0 .. 31 : b \in Shl(c, 6) <=> b - 6 \in c
    BY <2>1, Shifted
  <2>4. Shr(Shl(c, 12), 6) \subseteq 0 .. 31 /\ Shl(c, 6) \subseteq 0 .. 31
    BY DEF Shl, Shr, Bits
  <2> QED
    BY <2>2, <2>3, <2>4
<1>5. Shl(Shr(value, 6) \cap 0 .. 19, 6) = value \cap 6 .. (6 + 19)
  <2>1. 6 \in 0 .. 26 /\ 19 \in 0 .. 31 /\ 6 + 19 <= 31
    OBVIOUS
  <2> QED
    BY <2>1, FieldBits, Zenon
<1> QED
  BY <1>1, <1>3, <1>4, <1>5

LEMMA JumpIs ==
  ASSUME NEW value \in SUBSET Bits, NEW a \in SUBSET Bits, NEW h \in SUBSET (28 .. 31)
  PROVE  LET extra == Add(Shl(value \cap 0 .. 25, 2), Add(a, {2}) \cap 28 .. 31)
         IN Sar(Sub(extra, h), 2) \cap 0 .. 25 = value \cap 0 .. 25
<1>1. PICK low \in SUBSET (2 .. 27) : low = Shl(value \cap 0 .. 25, 2)
  <2>1. \A b \in Shl(value \cap 0 .. 25, 2) : \E c \in 0 .. 25 : b = c + 2
    BY DEF Shl
  <2>2. \A b \in Shl(value \cap 0 .. 25, 2) : b \in 2 .. 27
    BY <2>1
  <2> QED
    BY <2>2
<1>2. PICK high \in SUBSET (28 .. 31) : high = Add(a, {2}) \cap 28 .. 31
  OBVIOUS
<1>3. PICK extra \in SUBSET Bits : extra = Add(low, high)
  BY DEF Add
<1>4. \A b \in 0 .. 27 : b \in extra <=> b \in low
  <2>1. ASSUME NEW b \in 0 .. 27 PROVE ~Carry(low, high, b) /\ b \notin high /\ b \in Bits
    BY DEF Carry, Bits
  <2> QED
    BY <1>3, <2>1, SumBit
<1>5. Sub(extra, h) \cap 0 .. 27 = extra \cap 0 .. 27
  BY SubSegment
<1>6. PICK d \in SUBSET Bits : d = Sub(extra, h)
  BY DEF Sub, Add
<1>7. ASSUME NEW b \in 0 .. 25
      PROVE  b \in Sar(d, 2) <=> b \in value
  <2>1. b \notin (32 - 2) .. 31 /\ b + 2 \in 0 .. 27
    OBVIOUS
  <2>2. b \in Sar(d, 2) <=> b \in Shr(d, 2)
    BY <2>1 DEF Sar
  <2>3. b \in Shr(d, 2) <=> b + 2 \in d
    BY DEF Shr, Bits
  <2>4. b + 2 \in d <=> b + 2 \in low
    BY <1>4, <1>5, <1>6, <2>1
  <2>5. b + 2 \in low <=> b \in value
    BY <1>1 DEF Shl, Bits
  <2> QED
    BY <2>2, <2>3, <2>4, <2>5
<1> QED
  BY <1>1, <1>2, <1>3, <1>6, <1>7

(* A register or a shift amount in its place.                               *)
LEMMA RegisterIs ==
  ASSUME NEW value \in SUBSET Bits, NEW op
  PROVE  /\ Shl(Shr(value, 21) \cap 0 .. 4, 21) = value \cap SourceBits(op, "RS")
         /\ Shl(Shr(value, 16) \cap 0 .. 4, 16) = value \cap SourceBits(op, "RT")
         /\ Shl(Shr(value, 11) \cap 0 .. 4, 11) = value \cap SourceBits(op, "RD")
         /\ Shl(Shr(value, 6) \cap 0 .. 4, 6) = value \cap 6 .. 10
<1>1. ASSUME NEW k \in {6, 11, 16, 21}
      PROVE  Shl(Shr(value, k) \cap 0 .. 4, k) = value \cap k .. (k + 4)
  <2>1. k \in 0 .. 26 /\ 4 \in 0 .. 31 /\ k + 4 <= 31
    OBVIOUS
  <2> QED
    BY <2>1, FieldBits, Zenon
<1>2. /\ SourceBits(op, "RS") = 21 .. (21 + 4)
      /\ SourceBits(op, "RT") = 16 .. (16 + 4)
      /\ SourceBits(op, "RD") = 11 .. (11 + 4)
  BY DEF SourceBits
<1>3. 6 + 4 = 10
  OBVIOUS
<1> QED
  BY <1>1, <1>2, <1>3, Zenon

(* The other argument in its place.                                        *)
LEMMA ExtraIs ==
  ASSUME NEW value \in SUBSET Bits, NEW a \in SUBSET Bits, NEW op, type(op) # "NTYP",
         op = "BREAK" => 25 \notin value, NEW d, d = Extra(op, value, a)
  PROVE  ExtraBits(op, d, a) = value \cap SourceBits(op, "EXTRA")
<1>1. CASE op = "BREAK"
  <2>1. /\ ExtraBits(op, d, a) = Sar(Shl(d, 12), 6)
        /\ d = Shr(value, 6) \cap 0 .. 19 /\ SourceBits(op, "EXTRA") = 6 .. 25
    BY <1>1, TypesAre DEF ExtraBits, Extra, SourceBits
  <2> QED
    BY <1>1, <2>1, BreakIs
<1>2. CASE op # "BREAK" /\ type(op) = "RTYP"
  <2>1. /\ ExtraBits(op, d, a) = Shl(d \cap 0 .. 4, 6)
        /\ d = Shr(value, 6) \cap 0 .. 4 /\ SourceBits(op, "EXTRA") = 6 .. 10
    BY <1>2 DEF ExtraBits, Extra, SourceBits
  <2>2. d \cap 0 .. 4 = Shr(value, 6) \cap 0 .. 4
    BY <2>1
  <2> QED
    BY <2>1, <2>2, RegisterIs
<1>3. CASE type(op) = "ITYP" /\ ~isBranch(op)
  <2>1. /\ ExtraBits(op, d, a) = d \cap 0 .. 15
        /\ d = SignExtend(value) /\ SourceBits(op, "EXTRA") = 0 .. 15
    BY <1>3, TypesAre DEF ExtraBits, Extra, SourceBits
  <2> QED
    BY <2>1, ImmediateIs
<1>4. CASE type(op) = "ITYP" /\ isBranch(op)
  <2>1. /\ ExtraBits(op, d, a) = Sar(Sub(d, Add(a, {2})), 2) \cap 0 .. 15
        /\ d = Add(Shl(SignExtend(value), 2), Add(a, {2}))
        /\ SourceBits(op, "EXTRA") = 0 .. 15
    BY <1>4, TypesAre DEF ExtraBits, Extra, SourceBits
  <2> QED
    BY <2>1, BranchIs
<1>5. CASE type(op) = "JTYP"
  <2>1. PICK h \in SUBSET (28 .. 31) : h = Sub(a, {2}) \cap 28 .. 31
    OBVIOUS
  <2>2. /\ ExtraBits(op, d, a) = Sar(Sub(d, h), 2) \cap 0 .. 25
        /\ d = Add(Shl(value \cap 0 .. 25, 2), Add(a, {2}) \cap 28 .. 31)
        /\ SourceBits(op, "EXTRA") = 0 .. 25
    BY <1>5, <2>1, TypesAre DEF ExtraBits, Extra, SourceBits
  <2> QED
    BY <2>2, JumpIs
<1> QED
  BY <1>1, <1>2, <1>3, <1>4, <1>5, TypesAre

(* A word that is decoded and encoded again, with the bits its opcode does *)
(* not use cleared.                                                        *)
LEMMA RoundTrip ==
  ASSUME NEW value \in SUBSET Bits, NEW a \in SUBSET Bits, NEW op,
         op = opcode(value), op # "ILLEGL", type(op) # "NTYP",
         op = "BREAK" => 25 \notin value, NEW d, Decoded(d, op, value, a)
  PROVE  encode(op, d, a) = value \cap Used(op)
<1> USE DEF Decoded
<1> DEFINE part(i) == CASE srcs(op)[i] = "EXTRA" -> ExtraBits(op, d[i], a)
                        [] srcs(op)[i] = "RS" -> Shl(d[i], 21)
                        [] srcs(op)[i] = "RT" -> Shl(d[i], 16)
                        [] srcs(op)[i] = "RD" -> Shl(d[i], 11)
                        [] OTHER -> {}
<1>1. ASSUME NEW i \in 1 .. 3
      PROVE  part(i) = value \cap SourceBits(op, srcs(op)[i])
  <2>1. srcs(op)[i] \in {"RS", "RT", "RD", "EXTRA", "NSRC"}
    BY SourcesAre
  <2>2. CASE srcs(op)[i] = "NSRC"
    BY <2>2 DEF SourceBits
  <2>3. CASE srcs(op)[i] = "EXTRA"
    <3>1. d[i] = Extra(op, value, a) /\ part(i) = ExtraBits(op, d[i], a)
      BY <2>3 DEF decode
    <3> QED
      BY <2>3, <3>1, ExtraIs
  <2>4. CASE srcs(op)[i] = "RS"
    <3>1. d[i] = Shr(value, 21) \cap 0 .. 4 /\ part(i) = Shl(d[i], 21)
      BY <2>4 DEF decode
    <3>2. Shl(Shr(value, 21) \cap 0 .. 4, 21) = value \cap SourceBits(op, "RS")
      BY RegisterIs
    <3> HIDE DEF part
    <3> QED
      BY <2>4, <3>1, <3>2
  <2>5. CASE srcs(op)[i] = "RT"
    <3>1. d[i] = Shr(value, 16) \cap 0 .. 4 /\ part(i) = Shl(d[i], 16)
      BY <2>5 DEF decode
    <3>2. Shl(Shr(value, 16) \cap 0 .. 4, 16) = value \cap SourceBits(op, "RT")
      BY RegisterIs
    <3> HIDE DEF part
    <3> QED
      BY <2>5, <3>1, <3>2
  <2>6. CASE srcs(op)[i] = "RD"
    <3>1. d[i] = Shr(value, 11) \cap 0 .. 4 /\ part(i) = Shl(d[i], 11)
      BY <2>6 DEF decode
    <3>2. Shl(Shr(value, 11) \cap 0 .. 4, 11) = value \cap SourceBits(op, "RD")
      BY RegisterIs
    <3> HIDE DEF part
    <3> QED
      BY <2>6, <3>1, <3>2
  <2> QED
    BY <2>1, <2>2, <2>3, <2>4, <2>5, <2>6
<1> DEFINE P == UNION {part(i) : i \in 1 .. 3}
           S == UNION {SourceBits(op, srcs(op)[i]) : i \in 1 .. 3}
<1>2. encode(op, d, a) = OpcodeBits(op) \cup P
  BY DEF encode
<1>3. Used(op) = S \cup OpcodeField(op)
  BY DEF Used
<1>4. OpcodeBits(op) = value \cap OpcodeField(op)
  BY OpcodeIs
<1> HIDE DEF part
<1>5. P = value \cap S
  <2>1. \A b : b \in P <=> \E i \in 1 .. 3 : b \in part(i)
    OBVIOUS
  <2>2. \A b : b \in S <=> \E i \in 1 .. 3 : b \in SourceBits(op, srcs(op)[i])
    OBVIOUS
  <2>3. \A b : \A i \in 1 .. 3 :
          b \in part(i) <=> b \in value /\ b \in SourceBits(op, srcs(op)[i])
    BY <1>1
  <2> HIDE DEF P, S
  <2>4. \A b : b \in P <=> b \in value /\ b \in S
    BY <2>1, <2>2, <2>3
  <2> QED
    BY <2>4
<1> HIDE DEF P, S
<1> QED
  BY <1>2, <1>3, <1>4, <1>5

-----------------------------------------------------------------------------
(* Options.                                                                *)

LEMMA Above ==
  ASSUME NEW k \in Nat, k >= 12, NEW b \in 0 .. 15, b + k \in 0 .. 31
  PROVE  b + k \in 12 .. 31
OBVIOUS

(* A base that is accepted has no bit below 12.                            *)
LEMMA BaseIs ==
  ASSUME NEW arg \in Arguments, validBase(arg)
  PROVE  strToI(arg) \subseteq 12 .. 31 /\ arg.s \notin {"-b", "-e"}
<1>1. PICK num \in Seq(0 .. 16) : num = arg.digits
  BY DEF Arguments
<1>2. Len(num) \in 1 .. 8 /\ lastThreeZero(num)
  BY <1>1 DEF validBase
<1>3. arg.s \notin {"-b", "-e"}
  <2>1. num # << >>
    <3>1. PICK n : n = Len(num)
      OBVIOUS
    <3>2. n # 0
      BY <1>2, <3>1
    <3> QED
      BY <3>1, <3>2, Empty, Zenon
  <2> QED
    BY <1>1, <2>1 DEF Arguments
<1>4. ASSUME NEW i \in DOMAIN num
      PROVE  Shl(Num(num[i]), 4 * (Len(num) - i)) \subseteq 12 .. 31
  <2>1. Len(num) \in Nat /\ i \in 1 .. Len(num)
    OBVIOUS
  <2>2. CASE i > Len(num) - 3
    <3>1. num[i] = 0
      BY <1>2, <2>2 DEF lastThreeZero
    <3> QED
      BY <3>1, NumOne DEF Shl
  <2>3. CASE i <= Len(num) - 3
    <3>1. PICK k \in Nat : k = 4 * (Len(num) - i) /\ k >= 12
      BY <2>1, <2>3
    <3>2. \A b \in Num(num[i]) : b \in 0 .. 15
      BY DEF Num
    <3>3. \A c \in Shl(Num(num[i]), k) : c \in 0 .. 31 /\ \E b \in Num(num[i]) : c = b + k
      BY DEF Shl, Bits
    <3>4. ASSUME NEW c \in Shl(Num(num[i]), k)
          PROVE  c \in 12 .. 31
      <4>1. PICK b \in 0 .. 15 : c = b + k
        BY <3>2, <3>3
      <4>2. c \in 0 .. 31
        BY <3>3
      <4> QED
        BY <3>1, <4>1, <4>2, Above
    <3> QED
      BY <3>1, <3>4
  <2>4. i > Len(num) - 3 \/ i <= Len(num) - 3
    BY <2>1
  <2> QED
    BY <2>2, <2>3, <2>4, Zenon
<1> QED
  BY <1>1, <1>3, <1>4 DEF strToI

(* What an option with its value adds.                                     *)
LEMMA OptionAdds ==
  ASSUME NEW o, NEW flag, NEW arg, NEW p \in Option(o, flag, arg)
  PROVE  \/ flag.s = "-b" /\ validBase(arg) /\ p = o \cup strToI(arg)
         \/ flag.s = "-e" /\ arg.s = "b" /\ p = o \cup {2}
         \/ flag.s = "-e" /\ arg.s = "l" /\ p = o
BY DEF Option

\* What OptionsMean says, for a value of global_options.
Meaning(o) ==
  LET base == {i \in 2 .. Len(argv) : argv[i - 1].s = "-b"} IN
  /\ 0 \in o <=> argv[1].s = "-h"
  /\ 0 \notin o =>
       /\ 2 \in o <=> \E i \in 2 .. Len(argv) - 1 :
                        argv[i].s = "-e" /\ argv[i + 1].s = "b"
       /\ o \cap 12 .. 31 = UNION {strToI(argv[i]) : i \in base}

(* The four forms of an accepted command line.                             *)
LEMMA Forms ==
  ASSUME argv \in Argvs, NEW o \in validargs(argv)
  PROVE  LET mode == IF argv[1].s = "-d" THEN {1} ELSE {} IN
         \/ argv[1].s = "-h" /\ o = {0}
         \/ argv[1].s \in {"-a", "-d"} /\ Len(argv) = 1 /\ o = mode
         \/ /\ argv[1].s \in {"-a", "-d"} /\ Len(argv) = 3
            /\ o \in Option(mode, argv[2], argv[3])
         \/ /\ argv[1].s \in {"-a", "-d"} /\ Len(argv) = 5
            /\ argv[2].s # argv[4].s
            /\ \E p \in Option(mode, argv[2], argv[3]) :
                 o \in Option(p, argv[4], argv[5])
BY DEF validargs

LEMMA OptionsAre ==
  ASSUME argv \in Argvs, NEW o \in validargs(argv)
  PROVE  Meaning(o)
<1> DEFINE mode == IF argv[1].s = "-d" THEN {1} ELSE {}
           base == {i \in 2 .. Len(argv) : argv[i - 1].s = "-b"}
<1>1. argv \in Seq(Arguments) /\ Len(argv) \in Nat
  BY ArgvsAssumption
<1>2. \A i \in 1 .. Len(argv) : argv[i] \in Arguments
  BY <1>1
<1>3. CASE argv[1].s = "-h" /\ o = {0}
  BY <1>3 DEF Meaning
<1>4. mode \subseteq {1}
  OBVIOUS
<1>5. CASE argv[1].s \in {"-a", "-d"} /\ Len(argv) = 1 /\ o = mode
  <2>1. base = {} /\ 2 .. Len(argv) - 1 = {}
    BY <1>5
  <2> QED
    BY <1>4, <1>5, <2>1 DEF Meaning
<1>6. CASE /\ argv[1].s \in {"-a", "-d"} /\ Len(argv) = 3
           /\ o \in Option(mode, argv[2], argv[3])
  <2>1. 2 .. Len(argv) - 1 = {2}
    BY <1>6
  <2>2. \A i : i \in base <=> i = 3 /\ argv[2].s = "-b"
    <3>1. 2 .. Len(argv) = {2, 3}
      BY <1>6
    <3> QED
      BY <1>6, <3>1
  <2> HIDE DEF mode, base
  <2>3. CASE argv[2].s = "-b" /\ validBase(argv[3]) /\ o = mode \cup strToI(argv[3])
    <3>1. strToI(argv[3]) \subseteq 12 .. 31
      BY <1>2, <1>6, <2>3, BaseIs
    <3>2. UNION {strToI(argv[i]) : i \in base} = strToI(argv[3])
      BY <2>2, <2>3
    <3>3. o \cap 12 .. 31 = strToI(argv[3]) /\ 0 \notin o /\ 2 \notin o
      BY <1>4, <2>3, <3>1
    <3> QED
      BY <1>6, <2>1, <2>3, <3>2, <3>3 DEF Meaning, base
  <2>4. CASE argv[2].s = "-e" /\ argv[3].s = "b" /\ o = mode \cup {2}
    <3>1. UNION {strToI(argv[i]) : i \in base} = {}
      BY <2>2, <2>4
    <3>2. o \cap 12 .. 31 = {} /\ 0 \notin o /\ 2 \in o
      BY <1>4, <2>4
    <3> QED
      BY <1>6, <2>1, <2>4, <3>1, <3>2 DEF Meaning, base
  <2>5. CASE argv[2].s = "-e" /\ argv[3].s = "l" /\ o = mode
    <3>1. UNION {strToI(argv[i]) : i \in base} = {}
      BY <2>2, <2>5
    <3>2. o \cap 12 .. 31 = {} /\ 0 \notin o /\ 2 \notin o
      BY <1>4, <2>5
    <3> QED
      BY <1>6, <2>1, <2>5, <3>1, <3>2 DEF Meaning, base
  <2> QED
    BY <1>6, <2>3, <2>4, <2>5, OptionAdds
<1>7. ASSUME argv[1].s \in {"-a", "-d"}, Len(argv) = 5, argv[2].s # argv[4].s,
             NEW p \in Option(mode, argv[2], argv[3]),
             o \in Option(p, argv[4], argv[5])
      PROVE  Meaning(o)
  <2>1. 2 .. Len(argv) - 1 = {2, 3, 4}
    BY <1>7
  <2>2. argv[3].s \notin {"-b", "-e"} /\ argv[4].s \in {"-b", "-e"}
    <3>1. validBase(argv[3]) => argv[3].s \notin {"-b", "-e"}
      BY <1>2, <1>7, BaseIs
    <3>2. validBase(argv[3]) \/ argv[3].s \in {"b", "l"}
      BY <1>7, OptionAdds
    <3>3. argv[4].s \in {"-b", "-e"}
      BY <1>7, OptionAdds
    <3> QED
      BY <3>1, <3>2, <3>3
  <2>3. \A i : i \in base <=> \/ i = 3 /\ argv[2].s = "-b"
                              \/ i = 5 /\ argv[4].s = "-b"
    <3>1. 2 .. Len(argv) = {2, 3, 4, 5}
      BY <1>7
    <3> QED
      BY <1>7, <2>2, <3>1
  <2>4. (\E i \in 2 .. Len(argv) - 1 : argv[i].s = "-e" /\ argv[i + 1].s = "b")
          <=> \/ argv[2].s = "-e" /\ argv[3].s = "b"
              \/ argv[4].s = "-e" /\ argv[5].s = "b"
    <3> DEFINE P(i) == argv[i].s = "-e" /\ argv[i + 1].s = "b"
    <3>1. (\E i \in 2 .. Len(argv) - 1 : P(i)) <=> P(2) \/ P(3) \/ P(4)
      BY <2>1
    <3>2. ~P(3)
      BY <2>2
    <3>3. P(2) <=> argv[2].s = "-e" /\ argv[3].s = "b"
      BY 2 + 1 = 3
    <3>4. P(4) <=> argv[4].s = "-e" /\ argv[5].s = "b"
      BY 4 + 1 = 5
    <3> QED
      BY <3>1, <3>2, <3>3, <3>4
  <2> HIDE DEF mode, base
  <2>5. CASE argv[2].s = "-b"
    <3>1. validBase(argv[3]) /\ p = mode \cup strToI(argv[3])
      BY <1>7, <2>5, OptionAdds
    <3>2. /\ argv[4].s = "-e"
          /\ \/ argv[5].s = "b" /\ o = p \cup {2}
             \/ argv[5].s = "l" /\ o = p
      <4>1. argv[4].s # "-b"
        BY <1>7, <2>5
      <4> QED
        BY <1>7, <4>1, OptionAdds
    <3>3. strToI(argv[3]) \subseteq 12 .. 31
      BY <1>2, <1>7, <3>1, BaseIs
    <3>4. UNION {strToI(argv[i]) : i \in base} = strToI(argv[3])
      BY <2>3, <2>5, <3>2
    <3>5. /\ o \cap 12 .. 31 = strToI(argv[3]) /\ 0 \notin o
          /\ 2 \in o <=> argv[5].s = "b"
      BY <1>4, <3>1, <3>2, <3>3
    <3> QED
      BY <1>7, <2>4, <2>5, <3>2, <3>4, <3>5 DEF Meaning, base
  <2>6. CASE argv[2].s = "-e"
    <3>1. \/ argv[3].s = "b" /\ p = mode \cup {2}
          \/ argv[3].s = "l" /\ p = mode
      BY <1>7, <2>6, OptionAdds
    <3>2. argv[4].s = "-b" /\ validBase(argv[5]) /\ o = p \cup strToI(argv[5])
      BY <1>7, <2>6, OptionAdds
    <3>3. strToI(argv[5]) \subseteq 12 .. 31
      BY <1>2, <1>7, <3>2, BaseIs
    <3>4. UNION {strToI(argv[i]) : i \in base} = strToI(argv[5])
      BY <2>3, <2>6, <3>2
    <3>5. /\ o \cap 12 .. 31 = strToI(argv[5]) /\ 0 \notin o
          /\ 2 \in o <=> argv[3].s = "b"
      BY <1>4, <3>1, <3>2, <3>3
    <3> QED
      BY <1>7, <2>4, <2>6, <3>2, <3>4, <3>5 DEF Meaning, base
  <2> QED
    BY <1>7, <2>5, <2>6, OptionAdds
<1> QED
  BY <1>3, <1>5, <1>6, <1>7, Forms

-----------------------------------------------------------------------------
(* The invariant.                                                          *)

LEMMA ProgramLength ==
  ASSUME Inputs
  PROVE  /\ Len(program) \in Nat
         /\ \A k \in 1 .. Len(program) : program[k] \in SUBSET Bits
BY ProgramsAssumption DEF Inputs

LEMMA InitIInv == Init => IInv
<1> SUFFICES ASSUME Init PROVE IInv
  OBVIOUS
<1>1. Inputs
  BY DEF Init, Inputs
<1>2. text = << >> /\ out = << >> /\ proc = "args"
  BY DEF Init
<1>3. Start \in SUBSET Bits
  BY DEF Start, Add
<1>4. Lines
  <2> DEFINE f == [k \in 0 .. 0 |-> Start]
  <2>1. f \in [0 .. Len(text) -> SUBSET Bits] /\ f[0] = Start
    BY <1>2, <1>3, Empty
  <2>2. 0 .. Len(text) - 1 = {} /\ 1 .. Len(text) = {}
    BY <1>2, Empty
  <2>3. Len(program) \in Nat
    BY <1>1, ProgramLength
  <2> HIDE DEF f
  <2> QED
    BY <1>2, <2>1, <2>2, <2>3, Empty DEF Lines, Chain
<1>5. LeftOver
  BY <1>2, Empty DEF LeftOver
<1>6. RefusalExplained
  BY <1>2 DEF RefusalExplained
<1>7. Reassembled
  BY <1>2, Empty DEF Reassembled
<1> QED
  BY <1>1, <1>4, <1>5, <1>6, <1>7 DEF IInv

(* The mode bit counts neither for the base nor for the byte order.        *)
LEMMA SameChain ==
  ASSUME NEW at, Chain(at), UNCHANGED <<text, program, skip>>,
         options' = options \/ options' = options \ {1}
  PROVE  Chain(at)' /\ Start' = Start
<1>1. options' \cap 12 .. 31 = options \cap 12 .. 31 /\ (2 \in options' <=> 2 \in options)
  OBVIOUS
<1>2. Start' = Start
  BY <1>1 DEF Start
<1>3. \A k : Ordered(program[k])' = Ordered(program[k])
  BY <1>1 DEF Ordered
<1> QED
  BY <1>2, <1>3 DEF Chain

LEMMA SameOutput ==
  ASSUME Reassembled, UNCHANGED <<program, out>>, options' = options \/ out = << >>
  PROVE  Reassembled'
<1>1. CASE out = << >>
  <2>1. 1 .. Len(out') = {}
    BY <1>1, Empty
  <2> QED
    BY <2>1 DEF Reassembled
<1>2. CASE options' = options
  BY <1>2 DEF Reassembled, Ordered
<1> QED
  BY <1>1, <1>2

LEMMA InputsNext ==
  ASSUME IInv, [Next]_vars
  PROVE  Inputs'
<1>1. argv' = argv /\ program' = program
  BY DEF Next, vars, inputs, Validate, Disassemble, DisassembleEnd, Assemble, AssembleEnd
<1>2. validargs(argv)' = validargs(argv)
  BY <1>1
<1>3. CASE Validate
  BY <1>1, <1>2, <1>3 DEF IInv, Inputs, Validate, Begin
<1>4. CASE DisassembleEnd
  <2>1. PICK o \in validargs(argv) : options = o \/ options = o \ {1}
    BY <1>4 DEF IInv, Inputs, DisassembleEnd
  <2>2. options' = o \ {1}
    BY <1>4, <2>1 DEF DisassembleEnd, Begin
  <2> QED
    BY <1>1, <1>2, <2>2 DEF IInv, Inputs
<1>5. CASE options' = options /\ (proc' \notin {"args", "refused"} =>
                                   proc \notin {"args", "refused"})
  BY <1>1, <1>2, <1>5 DEF IInv, Inputs
<1>6. Disassemble \/ Assemble \/ AssembleEnd \/ UNCHANGED vars => <1>5!1
  BY DEF Disassemble, Assemble, AssembleEnd, vars
<1> QED
  BY <1>3, <1>4, <1>5, <1>6 DEF Next

LEMMA ValidateKeeps ==
  ASSUME IInv, Validate
  PROVE  Lines' /\ LeftOver' /\ RefusalExplained' /\ Reassembled'
<1>1. text = << >> /\ out = << >> /\ text' = << >> /\ out' = << >>
  BY DEF IInv, Lines, Validate
<1>2. proc' \in {"refused", "usage", "disassemble", "assemble"}
  BY DEF Validate
<1>3. proc' # "refused" => addr' = Start' /\ args' = NoArgs
  BY DEF Validate, Begin, Start, inputs
<1>4. Start' \in SUBSET Bits
  BY DEF Start, Add
<1>5. PICK s \in SUBSET Bits : s = Start'
  BY <1>4
<1>6. Lines'
  <2> DEFINE f == [k \in 0 .. 0 |-> s]
  <2>1. f \in [0 .. Len(text') -> SUBSET Bits] /\ f[0] = s
    BY <1>1, Empty
  <2>2. 0 .. Len(text') - 1 = {} /\ 1 .. Len(text') = {}
    BY <1>1, Empty
  <2> HIDE DEF f
  <2>3. Chain(f)'
    BY <1>5, <2>1, <2>2 DEF Chain
  <2>4. Len(program') = Len(program) /\ Len(program) \in Nat
    BY ProgramLength DEF IInv, Validate, inputs
  <2> QED
    BY <1>1, <1>2, <1>3, <1>5, <2>1, <2>3, <2>4, Empty DEF Lines
<1>7. LeftOver'
  BY <1>1, <1>2, <1>3, Empty DEF LeftOver, NoArgs
<1>8. RefusalExplained'
  BY <1>2 DEF RefusalExplained
<1>9. Reassembled'
  BY <1>1, Empty DEF Reassembled
<1> QED
  BY <1>6, <1>7, <1>8, <1>9

LEMMA DisassembleKeeps ==
  ASSUME IInv, Disassemble
  PROVE  Lines' /\ LeftOver' /\ RefusalExplained' /\ Reassembled'
<1>1. PICK at \in [0 .. Len(text) -> SUBSET Bits] :
        Chain(at) /\ addr = at[Len(text)] /\ out = << >>
  BY DEF IInv, Lines, Disassemble
<1>2. UNCHANGED <<argv, program, skip, options, out>>
  BY DEF Disassemble, inputs
<1>3. IsSeq(text) /\ Len(text) \in Nat
  BY DEF IInv, Lines, IsSeq
<1>4. Len(text) < Len(program) /\ Len(program) \in Nat /\ Len(program') = Len(program)
  BY <1>2, ProgramLength DEF IInv, Disassemble
<1>5. Reassembled'
  BY <1>2, SameOutput DEF IInv
<1>6. CASE proc' = "failed" /\ UNCHANGED <<addr, args, text>>
  <2>1. Lines'
    BY <1>1, <1>2, <1>3, <1>6, <1>4, SameChain DEF Lines
  <2>2. LeftOver'
    BY <1>2, <1>6 DEF LeftOver, IInv
  <2>3. Len(text') # Len(program')
    BY <1>3, <1>6, <1>4
  <2> QED
    BY <1>5, <2>1, <2>2, <2>3 DEF RefusalExplained
<1>7. CASE proc' # "failed"
  <2> DEFINE value == Ordered(program[Len(text) + 1])
             op == opcode(value)
             n == Cardinality({i \in 1 .. 3 : srcs(op)[i] # "NSRC"})
  <2>1. /\ args' = decode(op, value, addr)
        /\ text' = Append(text, [op |-> op, args |-> SubSeq(args', 1, n)])
        /\ addr' = Add(addr, {2})
        /\ proc = "disassemble" /\ proc' = "disassemble" /\ op # "ILLEGL"
    BY <1>7 DEF Disassemble
  <2>2. LineOf([op |-> op, args |-> SubSeq(args', 1, n)], value, addr)
    BY <2>1, Printed
  <2>3. PICK v : v = value
    OBVIOUS
  <2>4. PICK line : line = [op |-> op, args |-> SubSeq(args', 1, n)]
    OBVIOUS
  <2>5. LineOf(line, v, addr) /\ text' = Append(text, line)
    BY <2>1, <2>2, <2>3, <2>4
  <2>6. PICK w : w = Ordered(program[Len(text) + 1]) /\ w = v
    BY <2>3
  <2> HIDE DEF value, op, n
  <2>7. PICK m \in Nat : m = Len(text)
    BY <1>3
  <2>8. /\ IsSeq(text') /\ Len(text') = m + 1
        /\ \A k \in 1 .. m : text'[k] = text[k]
        /\ text'[m + 1] = line
    BY <1>3, <2>5, <2>7, Appended
  <2>9. PICK next : next = Add(addr, {2})
    OBVIOUS
  <2>10. next \in SUBSET Bits
    BY <2>9 DEF Add
  <2> DEFINE f == [k \in 0 .. m + 1 |-> IF k = m + 1 THEN next ELSE at[k]]
  <2>11. f \in [0 .. m + 1 -> SUBSET Bits]
    BY <1>1, <2>7, <2>10
  <2>12. f[m + 1] = next /\ \A k \in 0 .. m : f[k] = at[k]
    OBVIOUS
  <2> HIDE DEF f
  <2>13. Chain(f)'
    <3>1. f[0] = Start'
      BY <1>1, <1>2, <2>12 DEF Chain, Start
    <3>2. ASSUME NEW k \in 0 .. m
          PROVE  f[k + 1] = Add(f[k], {2})
      <4>1. CASE k = m
        BY <1>1, <2>7, <2>9, <2>12, <4>1
      <4>2. CASE k < m
        <5>1. k \in 0 .. Len(text) - 1 /\ k + 1 \in 0 .. m
          BY <2>7, <4>2
        <5> QED
          BY <1>1, <2>12, <5>1 DEF Chain
      <4> QED
        BY <4>1, <4>2
    <3>3. ASSUME NEW k \in 1 .. m + 1
          PROVE  LineOf(text'[k], Ordered(program[k])', f[k - 1])
      <4>1. Ordered(program[k])' = Ordered(program[k])
        BY <1>2 DEF Ordered
      <4>2. CASE k = m + 1
        <5>1. Ordered(program[k]) = v
          BY <2>6, <2>7, <4>2
        <5>2. f[k - 1] = addr
          BY <1>1, <2>7, <2>12, <4>2
        <5> QED
          BY <2>5, <2>8, <4>1, <4>2, <5>1, <5>2
      <4>3. CASE k <= m
        <5>1. k \in 1 .. Len(text) /\ k - 1 \in 0 .. m
          BY <2>7, <4>3
        <5> QED
          BY <1>1, <2>8, <2>12, <4>1, <4>3, <5>1 DEF Chain
      <4> QED
        BY <4>2, <4>3
    <3>4. 0 .. Len(text') - 1 = 0 .. m /\ 1 .. Len(text') = 1 .. m + 1
      BY <2>8
    <3> QED
      BY <3>1, <3>2, <3>3, <3>4 DEF Chain
  <2>14. Lines'
    BY <1>1, <1>2, <1>4, <2>1, <2>7, <2>8, <2>9, <2>11, <2>12, <2>13 DEF Lines
  <2>15. LeftOver'
    BY <1>1, <1>2, <2>1, <2>8, Empty DEF LeftOver
  <2> QED
    BY <1>5, <2>1, <2>14, <2>15 DEF RefusalExplained
<1> QED
  BY <1>6, <1>7 DEF Disassemble

LEMMA DisassembleEndKeeps ==
  ASSUME IInv, DisassembleEnd
  PROVE  Lines' /\ LeftOver' /\ RefusalExplained' /\ Reassembled'
<1>1. PICK at \in [0 .. Len(text) -> SUBSET Bits] :
        Chain(at) /\ addr = at[Len(text)] /\ out = << >>
  BY DEF IInv, Lines, DisassembleEnd
<1>2. UNCHANGED <<argv, program, skip, text, out>> /\ options' = options \ {1}
  BY DEF DisassembleEnd, inputs, Begin
<1>3. proc' = "assemble" /\ args' = NoArgs /\ addr' = Start'
  BY <1>2 DEF DisassembleEnd, Begin, Start
<1>4. Chain(at)' /\ addr' = at[0]
  <2>1. Chain(at)' /\ Start' = Start
    BY <1>1, <1>2, SameChain
  <2> QED
    BY <1>1, <1>3, <2>1 DEF Chain
<1>5. Lines'
  BY <1>1, <1>2, <1>3, <1>4, Empty DEF IInv, Lines
<1>6. LeftOver'
  BY <1>1, <1>2, <1>3 DEF IInv, LeftOver, NoArgs
<1>7. Reassembled'
  BY <1>1, <1>2, SameOutput DEF IInv
<1> QED
  BY <1>3, <1>5, <1>6, <1>7 DEF RefusalExplained

(* A line the disassembler wrote at the assembler's address is refused for  *)
(* one of the reasons of RefusalExplained.                                 *)
LEMMA Refused ==
  ASSUME NEW line, NEW value, NEW a \in SUBSET Bits, LineOf(line, value, a),
         ~EncodeOK(line.op, Scanned(line), a)
  PROVE  \/ type(line.op) = "NTYP" \/ isBranch(line.op)
         \/ type(line.op) = "JTYP" /\ a \cap 2 .. 27 = 2 .. 27
         \/ \E i \in 1 .. 3 : i > Len(line.args) /\ args[i] # {}
<1> SUFFICES ASSUME type(line.op) # "NTYP", ~isBranch(line.op),
                    ~(type(line.op) = "JTYP" /\ a \cap 2 .. 27 = 2 .. 27)
             PROVE  \E i \in 1 .. 3 : i > Len(line.args) /\ args[i] # {}
  OBVIOUS
<1>1. PICK i \in 1 .. 3 :
        \/ srcs(line.op)[i] = "NSRC" /\ Scanned(line)[i] # {}
        \/ srcs(line.op)[i] = "EXTRA" /\ ~ExtraOK(line.op, Scanned(line)[i], a)
        \/ /\ srcs(line.op)[i] \in {"RS", "RT", "RD"}
           /\ ~(Scanned(line)[i] \subseteq 0 .. 4)
  BY DEF EncodeOK
<1>2. Scanned(line)[i] = IF i <= Len(line.args) THEN line.args[i] ELSE args[i]
  BY DEF Scanned
<1>3. CASE srcs(line.op)[i] = "NSRC" /\ Scanned(line)[i] # {}
  BY <1>2, <1>3 DEF LineOf
<1>4. srcs(line.op)[i] # "NSRC" =>
        Scanned(line)[i] = decode(line.op, value, a)[i]
  BY <1>2 DEF LineOf
<1>5. CASE srcs(line.op)[i] = "EXTRA" /\ ~ExtraOK(line.op, Scanned(line)[i], a)
  <2>1. Scanned(line)[i] = Extra(line.op, value, a)
    BY <1>4, <1>5 DEF decode
  <2>2. /\ type(line.op) = "JTYP"
        /\ Extra(line.op, value, a) \cap 28 .. 31 # a \cap 28 .. 31
    BY <1>5, <2>1 DEF ExtraOK
  <2>3. Add(a, {2}) \cap 28 .. 31 = a \cap 28 .. 31
    BY <2>2, AddFour
  <2> QED
    BY <2>2, <2>3, JumpSegment
<1>6. CASE /\ srcs(line.op)[i] \in {"RS", "RT", "RD"}
           /\ ~(Scanned(line)[i] \subseteq 0 .. 4)
  BY <1>4, <1>6 DEF decode
<1> QED
  BY <1>1, <1>3, <1>5, <1>6

(* A line that encode accepts gives back its word.                         *)
LEMMA Reordered ==
  ASSUME Inputs, NEW k \in 1 .. Len(program), NEW value, value = Ordered(program[k]),
         NEW a \in SUBSET Bits, NEW line, LineOf(line, value, a),
         EncodeOK(line.op, Scanned(line), a), NEW w,
         w = Ordered(encode(line.op, Scanned(line), a))
  PROVE  \/ Ordered(w) = value \cap Used(opcode(value))
         \/ opcode(value) = "BREAK" /\ 25 \in value
<1> SUFFICES ASSUME opcode(value) = "BREAK" => 25 \notin value
             PROVE  Ordered(w) = value \cap Used(opcode(value))
  OBVIOUS
<1>1. \A x \in SUBSET Bits : Ordered(x) \in SUBSET Bits /\ Ordered(Ordered(x)) = x
  BY Swapped DEF Ordered
<1>2. value \in SUBSET Bits
  BY <1>1, ProgramLength
<1>3. PICK op : op = line.op
  OBVIOUS
<1>4. op = opcode(value) /\ op # "ILLEGL" /\ type(op) # "NTYP"
  BY <1>3 DEF LineOf, EncodeOK
<1>5. PICK d : d = Scanned(line)
  OBVIOUS
<1>6. Decoded(d, op, value, a)
  BY <1>3, <1>5 DEF LineOf, Scanned, Decoded
<1>7. encode(op, d, a) = value \cap Used(op)
  <2>1. op = "BREAK" => 25 \notin value
    BY <1>4
  <2> QED
    BY <1>2, <1>4, <1>6, <2>1, RoundTrip
<1>8. value \cap Used(op) \in SUBSET Bits
  BY <1>2
<1> QED
  BY <1>1, <1>3, <1>4, <1>5, <1>7, <1>8

LEMMA AssembleKeeps ==
  ASSUME IInv, Assemble
  PROVE  Lines' /\ LeftOver' /\ RefusalExplained' /\ Reassembled'
<1>1. PICK at \in [0 .. Len(text) -> SUBSET Bits] : Chain(at) /\ addr = at[Len(out)]
  BY DEF IInv, Lines, Assemble
<1>2. UNCHANGED <<argv, program, skip, options, text>> /\ proc = "assemble"
  BY DEF Assemble, inputs
<1>3. IsSeq(text) /\ IsSeq(out) /\ Len(text) \in Nat /\ Len(out) \in Nat
  BY DEF IInv, Lines, LeftOver, IsSeq
<1>4. PICK m \in Nat : m = Len(out) /\ m < Len(text)
  BY <1>3 DEF Assemble
<1>5. m + 1 \in 1 .. Len(program) /\ Len(text') <= Len(program') /\ addr \in SUBSET Bits
  <2>1. Len(text) <= Len(program) /\ Len(program) \in Nat
    BY ProgramLength DEF IInv, Lines
  <2> QED
    BY <1>1, <1>2, <1>3, <1>4, <2>1
<1>6. PICK line : line = text[m + 1]
  OBVIOUS
<1>7. args' = Scanned(line)
  BY <1>4, <1>6 DEF Assemble
<1>8. Chain(at)'
  BY <1>1, <1>2, SameChain
<1>9. LineOf(line, Ordered(program[m + 1]), addr)
  <2>1. m + 1 \in 1 .. Len(text) /\ (m + 1) - 1 = m
    BY <1>3, <1>4
  <2> QED
    BY <1>1, <1>4, <1>6, <2>1 DEF Chain
<1>10. CASE /\ ~EncodeOK(line.op, args', addr)
           /\ proc' = "failed" /\ UNCHANGED <<addr, out>>
  <2>1. Lines'
    BY <1>1, <1>2, <1>3, <1>8, <1>10, <1>5 DEF Lines
  <2>2. LeftOver'
    BY <1>2, <1>10 DEF LeftOver, IInv
  <2>3. Reassembled'
    BY <1>2, <1>10, SameOutput DEF IInv
  <2>4. \/ type(line.op) = "NTYP" \/ isBranch(line.op)
        \/ type(line.op) = "JTYP" /\ addr \cap 2 .. 27 = 2 .. 27
        \/ \E i \in 1 .. 3 : i > Len(line.args) /\ args[i] # {}
    BY <1>7, <1>9, <1>10, <1>5, Refused
  <2>5. ASSUME NEW i \in 1 .. 3, i > Len(line.args), args[i] # {}
        PROVE  \E j \in 1 .. m : \E k \in 1 .. Len(text[j].args) :
                 k > Len(line.args) /\ text[j].args[k] # {}
    <3>1. PICK j \in 1 .. m : i <= Len(text[j].args) /\ text[j].args[i] = args[i]
      BY <1>2, <1>4, <2>5 DEF IInv, LeftOver
    <3>2. Len(text[j].args) \in Nat
      <4>1. j \in 1 .. Len(text)
        BY <1>3, <1>4
      <4> QED
        BY <1>1, <4>1 DEF Chain, LineOf
    <3>3. i \in 1 .. Len(text[j].args)
      BY <3>1, <3>2
    <3> QED
      BY <2>5, <3>1, <3>3
  <2>6. RefusalExplained'
    <3>1. Len(out') + 1 = m + 1 /\ text'[m + 1] = line /\ (m + 1) - 1 = m
      BY <1>2, <1>4, <1>6, <1>10
    <3>2. \/ type(line.op) = "NTYP" \/ isBranch(line.op)
          \/ type(line.op) = "JTYP" /\ addr' \cap 2 .. 27 = 2 .. 27
          \/ \E j \in 1 .. m : \E k \in 1 .. Len(text'[j].args) :
               k > Len(line.args) /\ text'[j].args[k] # {}
      BY <1>2, <1>10, <2>4, <2>5
    <3> QED
      BY <3>1, <3>2 DEF RefusalExplained
  <2> QED
    BY <2>1, <2>2, <2>3, <2>6
<1>11. ASSUME NEW w, w = Ordered(encode(line.op, args', addr)), out' = Append(out, w),
              EncodeOK(line.op, args', addr), addr' = Add(addr, {2}), proc' = proc
       PROVE  Lines' /\ LeftOver' /\ RefusalExplained' /\ Reassembled'
  <2>1. IsSeq(out') /\ Len(out') = m + 1
    BY <1>3, <1>4, <1>11, Appended
  <2>2. addr' = at[m + 1]
    <3>1. m \in 0 .. Len(text) - 1
      BY <1>3, <1>4
    <3> QED
      BY <1>1, <1>4, <1>11, <3>1 DEF Chain
  <2>3. Lines'
    BY <1>1, <1>2, <1>3, <1>8, <1>11, <1>5, <2>1, <2>2 DEF Lines
  <2>4. ASSUME NEW i \in 1 .. 3, args'[i] # {}
        PROVE  \E j \in 1 .. m + 1 :
                 i <= Len(text[j].args) /\ text[j].args[i] = args'[i]
    <3>1. args'[i] = IF i <= Len(line.args) THEN line.args[i] ELSE args[i]
      BY <1>7 DEF Scanned
    <3>2. CASE i <= Len(line.args)
      BY <1>6, <3>1, <3>2
    <3>3. CASE ~(i <= Len(line.args))
      <4>1. PICK j \in 1 .. m : i <= Len(text[j].args) /\ text[j].args[i] = args[i]
        BY <1>2, <1>4, <2>4, <3>1, <3>3 DEF IInv, LeftOver
      <4>2. j \in 1 .. m + 1
        OBVIOUS
      <4> QED
        BY <3>1, <3>3, <4>1, <4>2
    <3> QED
      BY <3>2, <3>3
  <2>5. LeftOver'
    <3>1. m + 1 <= Len(text)
      BY <1>3, <1>4
    <3> QED
      BY <1>2, <2>1, <2>4, <3>1 DEF LeftOver
  <2>6. PICK value : value = Ordered(program[m + 1])
    OBVIOUS
  <2>7. \/ Ordered(w) = value \cap Used(opcode(value))
        \/ opcode(value) = "BREAK" /\ 25 \in value
    BY <1>2, <1>7, <1>9, <1>11, <1>5, <2>6, Reordered DEF IInv
  <2>8. /\ \A k \in 1 .. m : out'[k] = out[k]
        /\ out'[m + 1] = w
    BY <1>3, <1>4, <1>11, Appended
  <2>9. Reassembled'
    <3> SUFFICES ASSUME NEW k \in 1 .. m + 1
                 PROVE  LET x == Ordered(program[k]) IN
                        \/ Ordered(out'[k]) = x \cap Used(opcode(x))
                        \/ opcode(x) = "BREAK" /\ 25 \in x
      BY <1>2, <2>1 DEF Reassembled, Ordered
    <3>2. CASE k = m + 1
      BY <2>6, <2>7, <2>8, <3>2
    <3>3. CASE k \in 1 .. m
      BY <1>4, <2>8, <3>3 DEF IInv, Reassembled
    <3> QED
      BY <3>2, <3>3
  <2> QED
    BY <1>2, <1>11, <2>3, <2>5, <2>9 DEF RefusalExplained
<1> QED
  BY <1>4, <1>6, <1>10, <1>11 DEF Assemble

LEMMA IInvNext == IInv /\ [Next]_vars => IInv'
<1> SUFFICES ASSUME IInv, [Next]_vars PROVE IInv'
  OBVIOUS
<1>1. Inputs'
  BY InputsNext
<1>2. CASE Validate
  BY <1>1, <1>2, ValidateKeeps DEF IInv
<1>3. CASE Disassemble
  BY <1>1, <1>3, DisassembleKeeps DEF IInv
<1>4. CASE DisassembleEnd
  BY <1>1, <1>4, DisassembleEndKeeps DEF IInv
<1>5. CASE Assemble
  BY <1>1, <1>5, AssembleKeeps DEF IInv
<1>6. CASE AssembleEnd \/ UNCHANGED vars
  <2>1. UNCHANGED <<argv, program, skip, options, text, out, addr, args>>
    BY <1>6 DEF AssembleEnd, vars, inputs
  <2>2. proc' = proc \/ proc' = "done"
    BY <1>6 DEF AssembleEnd, vars
  <2>3. PICK at \in [0 .. Len(text) -> SUBSET Bits] :
          /\ Chain(at)
          /\ proc = "disassemble" => addr = at[Len(text)] /\ out = << >>
          /\ proc = "assemble" => addr = at[Len(out)]
    BY DEF IInv, Lines
  <2>4. Chain(at)'
    BY <2>1, <2>3, SameChain
  <2>5. Lines'
    BY <2>1, <2>2, <2>3, <2>4 DEF IInv, Lines
  <2>6. LeftOver' /\ RefusalExplained'
    BY <2>1, <2>2 DEF IInv, LeftOver, RefusalExplained
  <2>7. Reassembled'
    BY <2>1, SameOutput DEF IInv
  <2> QED
    BY <1>1, <2>5, <2>6, <2>7 DEF IInv
<1> QED
  BY <1>2, <1>3, <1>4, <1>5, <1>6 DEF Next

(* For every program and command line, IInv holds in every state of the    *)
(* two loops of main.                                                      *)
THEOREM Invariant == Spec => []IInv
<1>1. Init => IInv
  BY InitIInv
<1>2. IInv /\ [Next]_vars => IInv'
  BY IInvNext
<1> QED
  BY <1>1, <1>2, PTL DEF Spec

(* Whatever base address validargs accepts, it leaves the bits of           *)
(* global_options for help, mode and byte order to their flags.            *)
THEOREM OptionsHaveMeaning == Spec => []OptionsMean
<1>1. IInv => OptionsMean
  <2> SUFFICES ASSUME IInv, proc \notin {"args", "refused"}
               PROVE  Meaning(options)
    BY DEF OptionsMean, Meaning
  <2>1. PICK o \in validargs(argv) : options = o \/ options = o \ {1}
    BY DEF IInv, Inputs
  <2>2. Meaning(o)
    BY OptionsAre DEF IInv, Inputs
  <2>3. /\ options \cap 12 .. 31 = o \cap 12 .. 31
        /\ (0 \in options <=> 0 \in o) /\ (2 \in options <=> 2 \in o)
    BY <2>1
  <2> QED
    BY <2>2, <2>3 DEF Meaning
<1> QED
  BY <1>1, Invariant, PTL

(* Of the lines the disassembler wrote, encode refuses only those that      *)
(* RefusalExplained names.                                                 *)
THEOREM RefusalsAreExplained == Spec => []RefusalExplained
<1>1. IInv => RefusalExplained
  BY DEF IInv
<1> QED
  BY <1>1, Invariant, PTL

(* What encode accepts of the disassembler's text is the word it came from, *)
(* whatever the word, the address and the byte order.                      *)
THEOREM WordsComeBack == Spec => []Reassembled
<1>1. IInv => Reassembled
  BY DEF IInv
<1> QED
  BY <1>1, Invariant, PTL
=============================================================================
