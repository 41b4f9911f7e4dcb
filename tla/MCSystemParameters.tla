------------------------- MODULE MCSystemParameters -------------------------
(***************************************************************************)
(* Three parameters of two values each.  WholeTables are those that a      *)
(* download produces and their edits that spoil one line; EditedTables may *)
(* also lack lines.                                                        *)
(***************************************************************************)
EXTENDS SystemParameters

FirstValue == 1
DefaultTable == [p \in 1 .. N |-> FirstValue]
EditedTables == [1 .. N -> Values \cup {Invalid, Missing}]
=============================================================================
