-------------------------- MODULE MC_VirtualMemory --------------------------
(***************************************************************************)
(* VirtualMemory with pages and words of two bytes.  The constructed store *)
(* covers the second of three pages in part; one page number wraps.        *)
(***************************************************************************)
EXTENDS VirtualMemory

(* Page tables: none, the identity, two pages swapped. *)
MCTables ==
  {[vp \in VirtualPages |-> Unmapped],
   [vp \in VirtualPages |-> vp],
   [vp \in VirtualPages |-> IF vp < 2 THEN 1 - vp ELSE Unmapped]}

(* Contents of the constructor's size, of a smaller one, which covers nothing of *)
(* the second page, and of a larger one, which covers the third in part.         *)
MCImages == {[b \in 0 .. size - 1 |-> b % 2] : size \in Sizes}

=============================================================================
