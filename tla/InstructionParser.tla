------------------------- MODULE InstructionParser -------------------------
(***************************************************************************)
(* vmm::ParseProgram: from the lines of a program to its instructions.     *)
(*                                                                         *)
(* A line is the instruction its first word names and the words after it.  *)
(* A word is what it is read as: by ParseRegister, after TrimComma, and by *)
(* operator>> into a number.                                               *)
(***************************************************************************)
EXTENDS Integers, Sequences

CONSTANTS
  MinImm, MaxImm,   \* the range of int32_t
  NotANumber,       \* operator>> into a number fails on the word
  Throws            \* std::stoi throws on the word

(* "$n" and "$n,"; "$1,42" without a space reads as this, too. *)
RegisterWord(n) == [register |-> n, number |-> NotANumber]

(* ParseRegister gives 0 for what does not start with "$". *)
NumberWord(n) == [register |-> 0, number |-> n]

OtherWord == [register |-> 0, number |-> NotANumber]

(* "$" before something that is no number. *)
BadRegisterWord == [register |-> Throws, number |-> NotANumber]

(* Mutant: sw reads its register like lw, into rd. *)
OperandsSwLikeLw(op) ==
  CASE op \in {"Li", "Lw", "Sw"} -> <<"rd", "imm">>
    [] op \in {"Add", "Sub", "Mul"} -> <<"rd", "rs", "rt">>
    [] op = "Addi" -> <<"rd", "rs", "imm">>
    [] op = "Div" -> <<"rs", "rt">>
    [] OTHER -> <<>>

(* The fields of an Instruction the words after the first are read into. *)
Operands(op) ==
  CASE op \in {"Li", "Lw"} -> <<"rd", "imm">>
    [] op = "Sw" -> <<"rs", "imm">>
    [] op \in {"Add", "Sub", "Mul"} -> <<"rd", "rs", "rt">>
    [] op = "Addi" -> <<"rd", "rs", "imm">>
    [] op = "Div" -> <<"rs", "rt">>
    [] OTHER -> <<>>

(***************************************************************************)
(* iss >> imm: 0 without a number to read, and the nearest int32_t for one *)
(* that is out of range.                                                   *)
(***************************************************************************)
ReadImm(word) ==
  IF word.number = NotANumber THEN 0
  ELSE IF word.number > MaxImm THEN MaxImm
  ELSE IF word.number < MinImm THEN MinImm
  ELSE word.number

(* What field gets in line: 0 if its word is missing or it has none. *)
FieldOf(line, field) ==
  LET at == {k \in DOMAIN Operands(line.op) \cap DOMAIN line.words :
               Operands(line.op)[k] = field}
  IN IF at = {} THEN 0
     ELSE LET word == line.words[CHOOSE k \in at : TRUE]
          IN IF field = "imm" THEN ReadImm(word) ELSE word.register

ParseLine(line) ==
  [op |-> line.op, rd |-> FieldOf(line, "rd"), rs |-> FieldOf(line, "rs"),
   rt |-> FieldOf(line, "rt"), imm |-> FieldOf(line, "imm")]

(* "Blank": an empty line, or one whose first word begins with "#". *)
IsCode(line) == line.op # "Blank"

(* A turn of the loop: continue, or push_back. *)
AddLine(program, line) ==
  IF IsCode(line) THEN Append(program, ParseLine(line)) ELSE program

ParseProgram(lines) ==
  LET after[n \in 0 .. Len(lines)] ==
        IF n = 0 THEN <<>> ELSE AddLine(after[n - 1], lines[n])
  IN after[Len(lines)]

(* The exception leaves ParseProgram, and main, which catches none. *)
ParsingThrows(lines) ==
  \E k \in DOMAIN lines :
    /\ IsCode(lines[k])
    /\ Throws \in {FieldOf(lines[k], f) : f \in {"rd", "rs", "rt"}}

=============================================================================
