----------------------------- MODULE MCDebugger -----------------------------
(***************************************************************************)
(* Instances of Debugger for TLC.                                          *)
(***************************************************************************)
EXTENDS Debugger

CONSTANTS main, fa, fb, mx

Do == [kind |-> "step", sem |-> mx, kids |-> << >>]
V == [Do EXCEPT !.kind = "V"]
P == [Do EXCEPT !.kind = "P"]
Calls(K) == [Do EXCEPT !.kind = "call", !.kids = K]

\* main calls fa and fb, which exclude each other by a semaphore.
MCSemaphores ==
  [p \in Proc |-> IF p = main THEN <<Do, Calls(<<fa, fb>>), Do>> ELSE <<V, P>>]

\* main calls fa, which is two blocks long.
MCPlain == [p \in Proc |-> IF p = main THEN <<Calls(<<fa>>), Do>> ELSE <<Do, Do>>]
=============================================================================
