------------------------------ MODULE Compiled ------------------------------
(***************************************************************************)
(* The compiler and the interpreter together: what the interpreter makes   *)
(* of the compiler's output is what the program means.                     *)
(***************************************************************************)
EXTENDS Compiler, Machine

\* A source is a program, with the order its procedures are written in, or a
\* text by hand.
IsProgram(c) == "prog" \in DOMAIN c
TextOf(c) == IF IsProgram(c) THEN Compile(c.prog, c.names) ELSE c.text

\* A run ends with the values the program means in the global variables, after
\* any number of runs back and forth.
Implements == AtEnd /\ IsProgram(code) => mem.heap = Meaning(code.prog).cell
=============================================================================
