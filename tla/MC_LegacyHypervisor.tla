------------------------ MODULE MC_LegacyHypervisor -------------------------
(***************************************************************************)
(* LegacyHypervisor with two registers of two bits: programs that count,    *)
(* take a snapshot, divide by zero, overflow a division, and are empty,    *)
(* blank or malformed.                                                     *)
(***************************************************************************)
EXTENDS LegacyHypervisor

CONSTANTS fileA, fileB

Increment == Line("addi", 0, 0, 1)

MCPrograms ==
  {<<>>,
   <<Increment, Increment, Increment, Increment>>,
   <<Increment, SnapshotTo(fileA), Empty, Increment>>,
   <<Line("div", 0, 0, 0)>>,
   <<Line("li", 0, 0, -2), Line("div", 0, 1, 0)>>,
   <<Increment, Malformed>>}

(* A register of -1 lets a machine with a snapshot overflow a division. *)
MCSaved == {[Constructed EXCEPT !.registers = [r \in Registers |-> -1]]}

MCCommandLines ==
  {<<"-v", "-v">>, <<"-v", fileA, "-v">>, <<fileA, "-v", "-v">>, <<"-v", fileB, fileA, "-v">>,
   <<"-v", fileA, "-v", fileB>>, <<"-v", "-v", fileA, "-v">>}
=============================================================================
