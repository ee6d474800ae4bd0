-------------------------- MODULE MC_SnapshotFile --------------------------
(***************************************************************************)
(* SnapshotFile with numbers of up to three binary digits, one register    *)
(* and up to three bytes of memory.                                        *)
(***************************************************************************)
EXTENDS SnapshotFile

Object(name, numbers, table, memory) ==
  [vmName |-> name, numbers |-> numbers, pageTable |-> table, memoryBytes |-> memory]

Plain == [line |-> "vm", rest |-> NoBreak]

(* A line break at the end, before other text, and before numbers. *)
MCBroken ==
  {[line |-> "vm", rest |-> rest] :
     rest \in {<<>>, <<Unreadable>>, <<3>>, <<5, -9>>, <<2, Unreadable>>}}

MCNumbers ==
  {<<6, b, c, d>> : b \in {-5, 3}, c \in {-1, 2}, d \in {-2, 1}}

MCMemories == {<<>>, <<7>>, <<2, 5, 0>>}

(* Numbers with each memory, and each name; the page tables differ. *)
MCObjects ==
  {Object(Plain, n, "table1", m) : n \in MCNumbers, m \in MCMemories}
    \cup {Object(name, n, "table2", <<2, 5, 0>>) :
            name \in MCBroken, n \in {<<6, -5, 2, 1>>, <<6, 3, 2, -2>>}}

=============================================================================
