-------------------------------- MODULE Mips --------------------------------
(***************************************************************************)
(* The MIPS convertor (MIPS Convertor/src): its options, the tables of     *)
(* instructions, encode and decode, and the two loops of main.  The words  *)
(* of a program go through a disassembler (-d) whose text is the input of  *)
(* an assembler (-a) with the same base address and byte order.            *)
(*                                                                         *)
(* A 32-bit word is the set of its bits that are 1, so that |, & and the   *)
(* shifts are set operations.  A line of text is an opcode with its        *)
(* arguments: printf and sscanf with one format are inverse on these.      *)
(***************************************************************************)
EXTENDS Integers, Sequences, FiniteSets, SequencesExt

CONSTANTS Programs,  \* sequences of words
          Argvs,     \* sequences of command-line arguments
          Skips      \* numbers of leading nops (the word 0) already converted

Bits == 0 .. 31

\* An argument of main is a word, or the digits of a number (16 stands for a
\* character that is not a hexadecimal digit); no number is a flag.
Arguments == {a \in [s : STRING, digits : Seq(0 .. 16)] :
                a.digits # << >> => a.s \notin {"-b", "-e"}}

ASSUME ProgramsAssumption == Programs \subseteq Seq(SUBSET Bits)
ASSUME ArgvsAssumption == Argvs \subseteq Seq(Arguments)

Shl(w, k) == {b + k : b \in w} \cap Bits
Shr(w, k) == {b - k : b \in w} \cap Bits
Sar(w, k) == Shr(w, k) \cup (IF 31 \in w THEN (32 - k) .. 31 ELSE {})

\* The bits of a number of up to 16 bits.
PowersOf2 == <<1, 2, 4, 8, 16, 32, 64, 128, 256, 512, 1024, 2048, 4096, 8192,
               16384, 32768>>
Num(n) == {b \in 0 .. 15 : (n \div PowersOf2[b + 1]) % 2 = 1}

\* The carry into bit b is made at a bit k and passed on by those in between.
Carry(w, v, b) == \E k \in w \cap v : k < b /\ (k + 1) .. (b - 1) \subseteq w \cup v
Add(w, v) == {b \in Bits : ((b \in w) # (b \in v)) # Carry(w, v, b)}
Sub(w, v) == Add(w, Add(Bits \ v, {0}))

bigEndian(w) == {b + (24 - 16 * (b \div 8)) : b \in w}

-----------------------------------------------------------------------------
(* The tables.  Indices start at 0 in the code and here at 1.             *)

opcodeTable ==
  <<"SPECIAL", "BCOND", "J", "JAL", "BEQ", "BNE", "BLEZ", "BGTZ",
    "ADDI", "ADDIU", "SLTI", "SLTIU", "ANDI", "ORI", "XORI", "LUI",
    "UNIMP", "UNIMP", "UNIMP", "UNIMP">> \o [i \in 1 .. 12 |-> "ILLEGL"] \o
  <<"LB", "LH", "LWL", "LW", "LBU", "LHU", "LWR", "ILLEGL",
    "SB", "SH", "SWL", "SW", "ILLEGL", "ILLEGL", "SWR", "ILLEGL",
    "UNIMP", "UNIMP", "UNIMP", "UNIMP", "ILLEGL", "ILLEGL", "ILLEGL", "ILLEGL",
    "UNIMP", "UNIMP", "UNIMP", "UNIMP", "ILLEGL", "ILLEGL", "ILLEGL", "ILLEGL">>

specialTable ==
  <<"SLL", "ILLEGL", "SRL", "SRA", "SLLV", "ILLEGL", "SRLV", "SRAV",
    "JR", "JALR", "ILLEGL", "ILLEGL", "SYSCALL", "BREAK", "ILLEGL", "ILLEGL",
    "MFHI", "MTHI", "MFLO", "MTLO", "ILLEGL", "ILLEGL", "ILLEGL", "ILLEGL",
    "MULT", "MULTU", "DIV", "DIVU", "ILLEGL", "ILLEGL", "ILLEGL", "ILLEGL",
    "ADD", "ADDU", "SUB", "SUBU", "AND", "OR", "XOR", "NOR",
    "ILLEGL", "ILLEGL", "SLT", "SLTU">> \o [i \in 1 .. 20 |-> "ILLEGL"]

\* The sources of the arguments and the type of an instruction.
srcs(op) ==
  CASE op \in {"ADD", "ADDU", "AND", "NOR", "OR", "SLT", "SLTU", "SUB", "SUBU",
               "XOR"} -> <<"RD", "RS", "RT">>
    [] op \in {"ADDI", "ADDIU", "ANDI", "ORI", "SLTI", "SLTIU", "XORI"}
         -> <<"RT", "RS", "EXTRA">>
    [] op \in {"BEQ", "BNE"} -> <<"RS", "RT", "EXTRA">>
    [] op \in {"BGEZ", "BGEZAL", "BGTZ", "BLEZ", "BLTZ", "BLTZAL"}
         -> <<"RS", "EXTRA", "NSRC">>
    [] op \in {"DIV", "DIVU", "MULT", "MULTU"} -> <<"RS", "RT", "NSRC">>
    [] op \in {"J", "JAL", "BREAK"} -> <<"EXTRA", "NSRC", "NSRC">>
    [] op = "JALR" -> <<"RD", "RS", "NSRC">>
    [] op \in {"JR", "MTHI", "MTLO"} -> <<"RS", "NSRC", "NSRC">>
    [] op \in {"LB", "LBU", "LH", "LHU", "LW", "LWL", "LWR", "SB", "SH", "SW",
               "SWL", "SWR"} -> <<"RT", "EXTRA", "RS">>
    [] op = "LUI" -> <<"RT", "EXTRA", "NSRC">>
    [] op \in {"MFHI", "MFLO"} -> <<"RD", "NSRC", "NSRC">>
    [] op \in {"SLL", "SRA", "SRL"} -> <<"RD", "RT", "EXTRA">>
    [] op \in {"SLLV", "SRAV", "SRLV"} -> <<"RD", "RT", "RS">>
    [] OTHER -> <<"NSRC", "NSRC", "NSRC">>  \* SYSCALL, UNIMP

type(op) ==
  CASE op = "UNIMP" -> "NTYP"
    [] op \in {"J", "JAL"} -> "JTYP"
    [] \E i \in DOMAIN specialTable : specialTable[i] = op -> "RTYP"
    [] OTHER -> "ITYP"

isBranch(op) ==
  op \in {"BEQ", "BGEZ", "BGEZAL", "BGTZ", "BLEZ", "BLTZ", "BLTZAL", "BNE"}

Index(table, op) == SelectInSeq(table, LAMBDA e : e = op) - 1

-----------------------------------------------------------------------------
(* encode and decode.                                                      *)

\* Bits 20:16 of the branches whose opcode is BCOND.
bcondCode == [op \in {"BLTZ", "BGEZ", "BLTZAL", "BGEZAL"} |->
                CASE op = "BLTZ" -> {} [] op = "BGEZ" -> {16}
                  [] op = "BLTZAL" -> {20} [] OTHER -> {16, 20}]

\* ip->value once the opcode has been found: findBcond, isSpecial, isNotSpecial.
OpcodeBits(op) ==
  IF op \in DOMAIN bcondCode
    THEN Shl(Num(Index(opcodeTable, "BCOND")), 26) \cup bcondCode[op]
  ELSE IF \E i \in DOMAIN specialTable : specialTable[i] = op
    THEN Num(Index(specialTable, op))
  ELSE Shl(Num(Index(opcodeTable, op)), 26)

\* Variant: the immediate of type I keeps the bits of its sign.
ExtraBitsUnmasked(op, extra, addr) ==
  CASE op = "BREAK" -> Sar(Shl(extra, 12), 6)
    [] op # "BREAK" /\ type(op) = "RTYP" -> Shl(extra \cap 0 .. 4, 6)
    [] OTHER -> extra

\* The EXTRA argument in its place.  The shifts of BREAK are those of an int.
ExtraBits(op, extra, addr) ==
  CASE op = "BREAK" -> Sar(Shl(extra, 12), 6)
    [] op # "BREAK" /\ type(op) = "RTYP" -> Shl(extra \cap 0 .. 4, 6)
    [] type(op) = "ITYP" ->
         (IF isBranch(op) THEN Sar(Sub(extra, Add(addr, {2})), 2) ELSE extra)
           \cap 0 .. 15
    [] type(op) = "JTYP" ->
         Sar(Sub(extra, Sub(addr, {2}) \cap 28 .. 31), 2) \cap 0 .. 25

\* The tests on the EXTRA argument.  ip->extra holds the argument as well:
\* main and decode store it there.
ExtraOK(op, extra, addr) ==
  /\ isBranch(op) => Sar(Sub(extra, Add(addr, {2})), 2) = extra
  /\ type(op) = "JTYP" => extra \cap 28 .. 31 = addr \cap 28 .. 31

\* Variant: register 31 is refused.
EncodeOKBelow31(op, args, addr) ==
  /\ type(op) # "NTYP"
  /\ \A i \in 1 .. 3 :
       /\ srcs(op)[i] = "NSRC" => args[i] = {}
       /\ srcs(op)[i] = "EXTRA" => ExtraOK(op, args[i], addr)
       /\ srcs(op)[i] \in {"RS", "RT", "RD"} =>
            args[i] \subseteq 0 .. 4 /\ args[i] # 0 .. 4

EncodeOK(op, args, addr) ==
  /\ type(op) # "NTYP"
  /\ \A i \in 1 .. 3 :
       /\ srcs(op)[i] = "NSRC" => args[i] = {}
       /\ srcs(op)[i] = "EXTRA" => ExtraOK(op, args[i], addr)
       /\ srcs(op)[i] \in {"RS", "RT", "RD"} => args[i] \subseteq 0 .. 4

encode(op, args, addr) ==
  OpcodeBits(op) \cup
    UNION {CASE srcs(op)[i] = "EXTRA" -> ExtraBits(op, args[i], addr)
             [] srcs(op)[i] = "RS" -> Shl(args[i], 21)
             [] srcs(op)[i] = "RT" -> Shl(args[i], 16)
             [] srcs(op)[i] = "RD" -> Shl(args[i], 11)
             [] OTHER -> {} : i \in 1 .. 3}

\* The opcode of a word, "ILLEGL" if it has none.
opcode(value) ==
  LET field(w) == CHOOSE n \in 0 .. 63 : Num(n) = w
      major == opcodeTable[field(Shr(value, 26)) + 1]
      cond == {op \in DOMAIN bcondCode : bcondCode[op] = value \cap 16 .. 20}
  IN CASE major = "SPECIAL" -> specialTable[field(value \cap 0 .. 5) + 1]
       [] major = "BCOND" -> IF cond = {} THEN "ILLEGL" ELSE CHOOSE op \in cond : TRUE
       [] OTHER -> major

SignExtend(w) == IF 15 \in w THEN w \cup 16 .. 31 ELSE w \cap 0 .. 15

Extra(op, value, addr) ==
  CASE op = "BREAK" -> Shr(value, 6) \cap 0 .. 19
    [] op # "BREAK" /\ type(op) = "RTYP" -> Shr(value, 6) \cap 0 .. 4
    [] type(op) = "ITYP" ->
         IF isBranch(op) THEN Add(Shl(SignExtend(value), 2), Add(addr, {2}))
                         ELSE SignExtend(value)
    [] type(op) = "JTYP" ->
         Add(Shl(value \cap 0 .. 25, 2), Add(addr, {2}) \cap 28 .. 31)

decode(op, value, addr) ==
  [i \in 1 .. 3 |->
     CASE srcs(op)[i] = "EXTRA" -> Extra(op, value, addr)
       [] srcs(op)[i] = "RS" -> Shr(value, 21) \cap 0 .. 4
       [] srcs(op)[i] = "RT" -> Shr(value, 16) \cap 0 .. 4
       [] srcs(op)[i] = "RD" -> Shr(value, 11) \cap 0 .. 4
       [] OTHER -> {}]

-----------------------------------------------------------------------------
(* The options.                                                            *)

\* Variant: numbers of up to three digits are not tested.
lastThreeZeroLong(num) ==
  Len(num) > 3 => \A i \in DOMAIN num : i > Len(num) - 3 => num[i] = 0

lastThreeZero(num) == \A i \in DOMAIN num : i > Len(num) - 3 => num[i] = 0

validBase(arg) ==
  /\ Len(arg.digits) \in 1 .. 8
  /\ \A i \in DOMAIN arg.digits : arg.digits[i] < 16
  /\ lastThreeZero(arg.digits)

strToI(arg) == UNION {Shl(Num(arg.digits[i]), 4 * (Len(arg.digits) - i)) :
                        i \in DOMAIN arg.digits}

\* The effect of one option with its value on global_options, {} if it is
\* not valid.
Option(options, flag, arg) ==
  CASE flag.s = "-b" /\ validBase(arg) -> {options \cup strToI(arg)}
    [] flag.s = "-e" /\ arg.s = "b" -> {options \cup {2}}
    [] flag.s = "-e" /\ arg.s = "l" -> {options}
    [] OTHER -> {}

\* The values of global_options that validargs may return 1 with: at most one.
\* argv[1] is the first argument (the code's argv + 1).
validargs(argv) ==
  LET mode == IF argv[1].s = "-d" THEN {1} ELSE {} IN
  CASE argv = << >> -> {}
    [] argv # << >> /\ argv[1].s = "-h" -> {{0}}
    [] argv # << >> /\ argv[1].s \in {"-a", "-d"} /\ Len(argv) = 1 -> {mode}
    [] argv # << >> /\ argv[1].s \in {"-a", "-d"} /\ Len(argv) = 3 ->
         Option(mode, argv[2], argv[3])
    [] argv # << >> /\ argv[1].s \in {"-a", "-d"} /\ Len(argv) = 5
         /\ argv[2].s # argv[4].s ->
         UNION {Option(o, argv[4], argv[5]) : o \in Option(mode, argv[2], argv[3])}
    [] OTHER -> {}

-----------------------------------------------------------------------------
(* main.                                                                   *)

VARIABLES argv, program,
          skip,     \* leading nops, converted before the words of program
          options,  \* global_options
          proc,     \* what runs: validargs, the disassembler, the assembler
          addr,
          args,     \* instr.args, which the assembler does not clear
          text,     \* the disassembler's output and the assembler's input
          out       \* the assembler's output

inputs == <<argv, program, skip>>
vars == <<argv, program, skip, options, proc, addr, args, text, out>>

NoArgs == [i \in 1 .. 3 |-> {}]

Init ==
  /\ argv \in Argvs /\ program \in Programs /\ skip \in Skips
  /\ options = {} /\ proc = "args" /\ addr = {} /\ args = NoArgs
  /\ text = << >> /\ out = << >>

\* The state in which a process with these options meets the first word:
\* skip nops, whose arguments are zero, have advanced addr.
Begin(opts) ==
  /\ options' = opts
  /\ addr' = Add(opts \cap 12 .. 31, Shl(Num(skip), 2))
  /\ args' = NoArgs

Validate ==
  /\ proc = "args"
  /\ \/ /\ validargs(argv) = {}
        /\ proc' = "refused" /\ UNCHANGED <<options, addr, args>>
     \/ /\ validargs(argv) # {}
        /\ \E opts \in validargs(argv) :
             /\ Begin(opts)
             /\ proc' = IF 0 \in opts THEN "usage"
                        ELSE IF 1 \in opts THEN "disassemble" ELSE "assemble"
  /\ UNCHANGED <<inputs, text, out>>

\* A word as the byte order of the options has it.
Ordered(w) == IF 2 \in options THEN bigEndian(w) ELSE w

Disassemble ==
  /\ proc = "disassemble" /\ Len(text) < Len(program)
  /\ LET value == Ordered(program[Len(text) + 1])
         op == opcode(value) IN
     \/ /\ op = "ILLEGL"
        /\ proc' = "failed" /\ UNCHANGED <<addr, args, text>>
     \/ /\ op # "ILLEGL"
        /\ args' = decode(op, value, addr)
        /\ text' = Append(text, [op |-> op,
             args |-> SubSeq(args', 1, Cardinality({i \in 1 .. 3 : srcs(op)[i] # "NSRC"}))])
        /\ addr' = Add(addr, {2})
        /\ UNCHANGED proc
  /\ UNCHANGED <<inputs, options, out>>

\* The text goes to an assembler with the same base address and byte order.
DisassembleEnd ==
  /\ proc = "disassemble" /\ Len(text) = Len(program)
  /\ Begin(options \ {1})
  /\ proc' = "assemble"
  /\ UNCHANGED <<inputs, text, out>>

\* sscanf stores the arguments the line has, and leaves the others alone.
Scanned(line) ==
  [i \in 1 .. 3 |-> IF i <= Len(line.args) THEN line.args[i] ELSE args[i]]

Assemble ==
  /\ proc = "assemble" /\ Len(out) < Len(text)
  /\ LET line == text[Len(out) + 1] IN
     /\ args' = Scanned(line)
     /\ \/ /\ ~EncodeOK(line.op, args', addr)
           /\ proc' = "failed" /\ UNCHANGED <<addr, out>>
        \/ /\ EncodeOK(line.op, args', addr)
           /\ out' = Append(out, Ordered(encode(line.op, args', addr)))
           /\ addr' = Add(addr, {2})
           /\ UNCHANGED proc
  /\ UNCHANGED <<inputs, options, text>>

AssembleEnd ==
  /\ proc = "assemble" /\ Len(out) = Len(text)
  /\ proc' = "done"
  /\ UNCHANGED <<inputs, options, addr, args, text, out>>

Next == Validate \/ Disassemble \/ DisassembleEnd \/ Assemble \/ AssembleEnd

Spec == Init /\ [][Next]_vars

-----------------------------------------------------------------------------
(* Properties.                                                             *)

\* The base address shares a word with the mode and the byte order: whatever
\* digits are accepted, the bits that choose help, disassembly and big-endian
\* order are those of the flags, and addr = global_options & 0xFFFFF000 is the
\* number that was given.
OptionsMean ==
  proc \notin {"args", "refused"} /\ out = << >> /\ text = << >> =>
    LET base == {i \in 2 .. Len(argv) : argv[i - 1].s = "-b"} IN
    /\ 0 \in options <=> argv[1].s = "-h"
    /\ 0 \notin options =>
         /\ 2 \in options <=> \E i \in 2 .. Len(argv) - 1 :
                                argv[i].s = "-e" /\ argv[i + 1].s = "b"
         /\ options \cap 12 .. 31 = UNION {strToI(argv[i]) : i \in base}

\* The bits of a word that an argument stands for.
SourceBits(op, src) ==
  CASE src = "RS" -> 21 .. 25 [] src = "RT" -> 16 .. 20 [] src = "RD" -> 11 .. 15
    [] src = "NSRC" -> {}
    [] OTHER -> CASE op = "BREAK" -> 6 .. 25
                  [] op # "BREAK" /\ type(op) = "RTYP" -> 6 .. 10
                  [] type(op) = "ITYP" -> 0 .. 15
                  [] OTHER -> 0 .. 25

\* The bits that tell the opcode.
OpcodeField(op) ==
  26 .. 31 \cup (IF type(op) = "RTYP" THEN 0 .. 5 ELSE {})
           \cup (IF op \in DOMAIN bcondCode THEN 16 .. 20 ELSE {})

\* The bits of a word that its opcode gives a meaning.
Used(op) == (UNION {SourceBits(op, srcs(op)[i]) : i \in 1 .. 3}) \cup OpcodeField(op)

\* What is disassembled and assembled again is what was read, with the bits
\* that mean nothing cleared: decode and encode agree on every field, on sign
\* extension, on the segment of jumps and on the byte order.  The one exception
\* is a break whose code has bit 19 set: the shifts of encode extend that sign
\* over the opcode.
Reassembled ==
  \A i \in 1 .. Len(out) :
    LET value == Ordered(program[i]) IN
    \/ Ordered(out[i]) = value \cap Used(opcode(value))
    \/ opcode(value) = "BREAK" /\ 25 \in value

\* The assembler refuses a line that the disassembler wrote only if it is not
\* an instruction, is a branch (encode compares the offset with the absolute
\* target), is a jump in the last word of a segment, or has fewer arguments
\* than an earlier line, whose arguments are still there.
RefusalExplained ==
  proc = "failed" /\ Len(text) = Len(program) =>
    LET n == Len(out) + 1
        line == text[n] IN
    \/ type(line.op) = "NTYP" \/ isBranch(line.op)
    \/ type(line.op) = "JTYP" /\ addr \cap 2 .. 27 = 2 .. 27
    \/ \E j \in 1 .. n - 1 : \E i \in 1 .. Len(text[j].args) :
         i > Len(line.args) /\ text[j].args[i] # {}
=============================================================================
