---------------------------- MODULE VersionStore ----------------------------
(***************************************************************************)
(* What the annotation DAG promises, without a DAG: memory with an undo    *)
(* and redo log.                                                           *)
(*                                                                         *)
(* Every write of a variable makes a version of it.  The log keeps what    *)
(* the variable holds in each version and which version it replaced.       *)
(* Undoing or redoing a write copies the logged value back.  The           *)
(* interpreter keeps no values: it computes them again, or computes their  *)
(* inverse, from whatever its variables hold at that moment.               *)
(***************************************************************************)
CONSTANTS
  Version,   \* names of versions
  None,      \* the version of a variable nobody has written
  Sym,       \* variables
  Cell, Val, InitMem,  \* cells, what they may hold, and hold at first
  NameOf     \* NameOf[c]: the variable cell c belongs to

VARIABLES
  cur,  \* cur[s]: the current version of s
  log,  \* entries, one per version ever written
  mem   \* memory

vars == <<cur, log, mem>>

CellsOf(s) == {c \in Cell : NameOf[c] = s}
Image(s, m) == [c \in CellsOf(s) |-> m[c]]

Entry(n, s, m, img) == [ver |-> n, sym |-> s, over |-> m, img |-> img]

\* Version m of s holds img.
Holds(s, m, img) ==
  \/ m = None /\ img = Image(s, InitMem)
  \/ \E l \in log : l.ver = m /\ l.sym = s /\ l.img = img

\* The cells of s take the values img, the others keep theirs.
Show(s, img) == mem' = [c \in Cell |-> IF NameOf[c] = s THEN img[c] ELSE mem[c]]

Init ==
  /\ cur = [s \in Sym |-> None]
  /\ log = {}
  /\ mem = InitMem

\* A new version, which replaces one that no version has replaced before: the
\* versions of a variable never branch.
Write(n, s) ==
  /\ \A l \in log : l.ver # n /\ ~(l.sym = s /\ l.over = cur[s])
  /\ \E img \in [CellsOf(s) -> Val] :
       log' = log \cup {Entry(n, s, cur[s], img)} /\ Show(s, img)
  /\ cur' = [cur EXCEPT ![s] = n]

Redo(l) ==
  /\ cur[l.sym] = l.over
  /\ cur' = [cur EXCEPT ![l.sym] = l.ver]
  /\ Show(l.sym, l.img)
  /\ log' = log

Undo(l) ==
  /\ cur[l.sym] = l.ver
  /\ cur' = [cur EXCEPT ![l.sym] = l.over]
  /\ \E img \in [CellsOf(l.sym) -> Val] : Holds(l.sym, l.over, img) /\ Show(l.sym, img)
  /\ log' = log

\* The log may be given up only where it says nothing about the present.
Forget ==
  /\ \A s \in Sym : cur[s] = None
  /\ log' = {}
  /\ UNCHANGED <<cur, mem>>

Next ==
  \/ \E n \in Version, s \in Sym : Write(n, s)
  \/ \E l \in log : Redo(l) \/ Undo(l)
  \/ Forget

Spec == Init /\ [][Next]_vars
=============================================================================
