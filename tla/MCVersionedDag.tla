--------------------------- MODULE MCVersionedDag ---------------------------
(***************************************************************************)
(* The programs of MCAnnotationDag in which a cell has one name, with the  *)
(* log of VersionedDag.                                                    *)
(***************************************************************************)
EXTENDS MCAnnotationDag, Locks

MCNameOf == [c \in Cell |-> IF c = x1 THEN x ELSE c]

MCPrograms == MCReplays \cup MCPairs
=============================================================================
