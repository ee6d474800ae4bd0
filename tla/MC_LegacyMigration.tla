------------------------- MODULE MC_LegacyMigration -------------------------
(***************************************************************************)
(* LegacyMigration with every program of up to four of eight lines, and    *)
(* every opcode on every contents of its registers, started afresh or from *)
(* a snapshot.  A buffer without the whole message may be read as nothing, *)
(* as the start of a message, or as another machine with another program.  *)
(***************************************************************************)
EXTENDS LegacyMigration

Increment == Line("addi", 0, 0, 1)
Double == Line("add", 0, 0, 0)

MCLines ==
  {Increment, Double, Line("mult", 0, 0, 0), Line("div", 0, 1, 0), Empty, Migrate,
   Malformed, Snapshot}

MCShort == UNION {[1 .. n -> MCLines] : n \in 0 .. 4}

(* Load two values, combine them, migrate. *)
MCOpcodes ==
  {<<Line("li", 0, 0, a), Line("li", 1, 0, b), l, Migrate>> :
     a \in Value, b \in Value,
     l \in {Line(op, 0, 0, 1) : op \in ThreeRegisters}
         \cup {Line(op, 0, 0, t) : op \in Immediate, t \in Value}
         \cup {Line(op, 0, 1, 0) : op \in TwoRegisters}}

MCSaved == {[registers |-> [r \in Registers |-> 1 - 3 * r], hi |-> 1, low |-> -1]}

MCPrograms == MCShort \cup MCOpcodes

MCFragments ==
  {[registers |-> Constructed.registers, pc |-> 0, lines |-> <<>>],
   [registers |-> [r \in Registers |-> IF r = 0 THEN 1 ELSE 0], pc |-> 0, lines |-> <<>>],
   [registers |-> [r \in Registers |-> 3], pc |-> -2, lines |-> <<Increment, Double>>],
   [registers |-> [r \in Registers |-> -1], pc |-> 3, lines |-> <<Increment>>]}
=============================================================================
