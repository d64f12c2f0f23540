------------------------------- MODULE MCMips -------------------------------
(* Small instances for TLC: a word of each form of instruction, with the    *)
(* extreme values of its fields, alone and after another one.               *)
EXTENDS Mips

Word(op, rest) == OpcodeBits(op) \cup rest

MCWords ==
  {Word("ADD", {11, 17, 21}), Word("SLL", 6 .. 20), Word("JR", 21 .. 25),
   Word("JALR", {12, 21, 6}), Word("SYSCALL", {}), Word("BREAK", {6}),
   Word("BREAK", {25}), Word("BEQ", 0 .. 15), Word("BGEZAL", {1, 22}),
   Word("LW", 15 .. 25), Word("LUI", {0, 17, 22}), Word("J", {0, 25}),
   Word("JAL", 0 .. 25), Word("MULT", {16, 21}), Word("MFHI", {13}),
   {26, 27, 28, 29, 30, 31}, {30}, {26, 17}}

Flag(s) == [s |-> s, digits |-> << >>]
Hex(d) == [s |-> "", digits |-> d]

MCPrograms == {<<w>> : w \in MCWords} \cup {<<w, v>> : w, v \in MCWords}
                \cup {<<bigEndian(w), bigEndian(v)>> : w, v \in MCWords}

\* No base, a base in the last page of a segment, short and bad ones.
Bases == {Hex(d) : d \in {<<0>>, <<15, 15, 15, 15, 0, 0, 0>>, <<4>>,
                          <<1, 0, 0>>, <<16, 0, 0, 0>>, << >>}}
Tails == {<< >>, <<Flag("-e")>>}
           \cup {<<Flag("-b"), b>> : b \in Bases}
           \cup {<<Flag("-e"), Flag(e)>> : e \in {"b", "l", "x"}}
           \cup {<<Flag("-b"), b, Flag("-e"), Flag("b")>> : b \in Bases}
           \cup {<<Flag("-e"), Flag(e), Flag("-b"), b>> : e \in {"b", "l"}, b \in Bases}
           \cup {<<Flag("-b"), Hex(<<0>>), Flag("-b"), Hex(<<1, 0, 0, 0>>)>>}

MCArgvs == {<< >>, <<Flag("-h")>>, <<Flag("-x")>>}
             \cup {<<Flag(m)>> \o t : m \in {"-a", "-d"}, t \in Tails}

\* The segment ends 1023 words after the base in its last page.
MCSkips == {0, 1022}
=============================================================================
