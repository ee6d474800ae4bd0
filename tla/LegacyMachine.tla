--------------------------- MODULE LegacyMachine ----------------------------
(***************************************************************************)
(* VmClass and solve of the coursework programs: what one line of assembly *)
(* does to the registers.  homework1.cc, project.cc, the migration client  *)
(* and the server share them but for SNAPSHOT, MIGRATE and the counting of *)
(* instructions, which LegacyHypervisor and LegacyMigration add.           *)
(*                                                                         *)
(* A line is a record of its opcode and its operands; registers have Width *)
(* bits.                                                                   *)
(***************************************************************************)
EXTENDS Integers, Sequences

CONSTANTS
  Width,      \* bits of an int, 32 in the code
  Registers   \* register numbers

ASSUME LegacyAssumption == Width \in Nat \ {0} /\ Registers \subseteq Nat

PowerOfTwo(n) ==
  LET power[k \in 0 .. n] == IF k = 0 THEN 1 ELSE 2 * power[k - 1] IN power[n]

Space == PowerOfTwo(Width)
MinValue == -(Space \div 2)
Value == MinValue .. -MinValue - 1

(* The conversions between int and unsigned int. *)
Unsigned(v) == v % Space
Signed(n) == ((n - MinValue) % Space) + MinValue

VmClass == [registers : [Registers -> Value], hi : Value, low : Value]

Constructed == [registers |-> [r \in Registers |-> 0], hi |-> 0, low |-> 0]

(* Opcodes with three registers, with an immediate, and with two registers. *)
ThreeRegisters == {"add", "addu", "sub", "subu", "mul", "xor", "and", "or"}
Immediate == {"li", "addi", "addiu", "andi", "ori", "sll", "srl"}
TwoRegisters == {"mult", "div"}

(* "ori": a line whose opcode is or and whose last operand has no $. *)
Line(op, d, s, t) == [op |-> op, d |-> d, s |-> s, t |-> t]

Lines ==
  [op : ThreeRegisters \cup TwoRegisters, d : Registers, s : Registers, t : Registers]
    \cup [op : Immediate, d : Registers, s : Registers, t : Value]

-----------------------------------------------------------------------------

Bit(v, i) == (Unsigned(v) \div PowerOfTwo(i)) % 2

(* The number whose bits are 1 where those of a and b are a pair of table. *)
Bits(table, a, b) ==
  LET low[n \in 0 .. Width] ==
        IF n = 0 THEN 0
        ELSE low[n - 1] + IF <<Bit(a, n - 1), Bit(b, n - 1)>> \in table
                          THEN PowerOfTwo(n - 1) ELSE 0
  IN low[Width]

AND == {<<1, 1>>}
XOR == {<<0, 1>>, <<1, 0>>}
OR == AND \cup XOR

(* The processor takes the count of a shift modulo the width. *)
Count(t) == Unsigned(t) % Width

(* The value of an opcode that writes its first register; a is the second. *)
Result(line, a, b) ==
  CASE line.op = "li" -> line.t
    [] line.op \in {"add", "addu"} -> a + b
    [] line.op \in {"addi", "addiu"} -> a + line.t
    [] line.op \in {"sub", "subu"} -> a - b
    [] line.op = "mul" -> a * b
    [] line.op = "xor" -> Bits(XOR, a, b)
    [] line.op = "and" -> Bits(AND, a, b)
    [] line.op = "or" -> Bits(OR, a, b)
    [] line.op = "andi" -> Bits(AND, a, line.t)
    [] line.op = "ori" -> Bits(OR, a, line.t)
    [] line.op = "sll" -> a * PowerOfTwo(Count(line.t))
    [] line.op = "srl" -> a \div PowerOfTwo(Count(line.t))

(* Mutant: the low half keeps its sign, and the high half is truncated. *)
multTruncated(m, a, b) ==
  LET magnitude == (IF a < 0 THEN -a ELSE a) * (IF b < 0 THEN -b ELSE b)
      high == magnitude \div Space
  IN [m EXCEPT !.hi = IF (a < 0) = (b < 0) THEN high ELSE -high, !.low = Signed(a * b)]

(* The product in twice the width, shifted with its sign and masked. *)
mult(m, a, b) == [m EXCEPT !.hi = (a * b) \div Space, !.low = Signed(a * b)]

(* Mutant: division that rounds towards minus infinity. *)
diviFloor(m, a, b) ==
  LET q == IF b > 0 THEN a \div b ELSE (-a) \div (-b)
  IN [m EXCEPT !.low = Signed(q), !.hi = a - b * q]

(* C++ division rounds towards zero; b is not 0. *)
divi(m, a, b) ==
  LET quotient == (IF a < 0 THEN -a ELSE a) \div (IF b < 0 THEN -b ELSE b)
      q == IF (a < 0) = (b < 0) THEN quotient ELSE -quotient
  IN [m EXCEPT !.low = Signed(q), !.hi = a - b * q]

(* divi calls exit for a divisor of zero: that ends the whole program. *)
Exits(m, line) == line.op = "div" /\ m.registers[line.s] = 0

(* The quotient that does not fit: the processor may trap. *)
MayTrap(m, line) ==
  /\ line.op = "div"
  /\ m.registers[line.d] = MinValue
  /\ m.registers[line.s] = -1

(* The machine after a line that does not end the program. *)
solve(m, line) ==
  LET a == m.registers[line.s]
      b == m.registers[line.t]
  IN CASE line.op \in ThreeRegisters \cup Immediate ->
            [m EXCEPT !.registers[line.d] = Signed(Result(line, a, b))]
       [] line.op = "mult" -> mult(m, m.registers[line.d], a)
       [] line.op = "div" -> divi(m, m.registers[line.d], a)
       [] OTHER -> m

=============================================================================
