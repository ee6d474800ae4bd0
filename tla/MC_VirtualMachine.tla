------------------------- MODULE MC_VirtualMachine --------------------------
(***************************************************************************)
(* VirtualMachine with two registers, words of two one-bit bytes and three *)
(* bytes of memory on two pages: addresses 0 and 1 hold a word, 2 does not *)
(* fit, 3 neither.                                                         *)
(***************************************************************************)
EXTENDS VirtualMachine

I(o, d, s, t, v) == [op |-> o, rd |-> d, rs |-> s, rt |-> t, imm |-> v]

(* -1 and -2 are the addresses 3 and 2 of lw and sw. *)
MCFirst == {I("Li", 0, 0, 0, MinValue), I("Li", 1, 0, 0, -1)}

MCInstructions ==
  MCFirst \cup
    {I("Li", 0, 0, 0, 1), I("Add", 0, 0, 1, 0), I("Addi", 1, 0, 0, 1),
     I("Sub", 0, 1, 0, 0), I("Mul", 1, 0, 1, 0), I("Div", 0, 0, 1, 0),
     I("Lw", 0, 0, 0, 0), I("Lw", 1, 0, 0, 1), I("Sw", 0, 0, 0, 1),
     I("Sw", 0, 1, 0, -2), I("Nop", 0, 0, 0, 0), I("Migrate", 0, 0, 0, 0),
     I("Halt", 0, 0, 0, 0), I("Invalid", 0, 0, 0, 0)}

MCPrograms ==
  {<<>>} \cup {<<a, b, c>> : a \in MCFirst, b \in MCInstructions, c \in MCInstructions}

MCWritten == {[k \in DOMAIN p |-> Spelling(p[k])] : p \in MCPrograms}

(***************************************************************************)
(* Lines as they should not be: "li $1,1" without the space, "li" alone,   *)
(* an immediate beyond int32_t, "add $0 $1", "sw 0 1" and "li $x, 1".      *)
(***************************************************************************)
MCMalformed ==
  LET R(n) == Parser!RegisterWord(n)
      N(v) == Parser!NumberWord(v)
      L(op, words) == [op |-> op, words |-> words]
  IN {L("Li", <<R(1)>>), L("Li", <<>>), L("Li", <<R(0), N(5)>>), L("Li", <<R(1), N(-7)>>),
      L("Add", <<R(0), R(1)>>), L("Sw", <<N(0), N(1)>>), L("Lw", <<R(1), Parser!OtherWord>>),
      L("Li", <<Parser!BadRegisterWord, N(1)>>), L("Blank", <<>>)}

MCTexts == MCWritten \cup {<<a, b>> : a \in MCMalformed, b \in MCMalformed}

=============================================================================
