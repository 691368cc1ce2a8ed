------------------------------ MODULE CallTree ------------------------------
(***************************************************************************)
(* The call tree of a program, and the invariant of fork and join.         *)
(*                                                                         *)
(* getChildPC names a process by its place in the tree (treepid), so the   *)
(* caller of a process is fixed, and a later call in the same place runs   *)
(* the same process on: its counter continues.  Mark(P, c, k) is where the *)
(* counter of c stands when its caller has executed k blocks.              *)
(***************************************************************************)
EXTENDS AnnotationDag

CONSTANTS Caller(_), Mark(_, _, _)

\* Every process hangs from main: no set of other processes is closed under
\* Caller.
ASSUME TreeAssumption ==
  /\ \A c \in Proc \ {Root} : Caller(c) \in Proc
  /\ \A S \in SUBSET (Proc \ {Root}) : S # {} => \E c \in S : Caller(c) \notin S

\* Main has one begin and one end.
MainIsWhole(P) ==
  /\ Len(P[Root]) > 0
  /\ \A k \in 1 .. Len(P[Root]) :
       (P[Root][k].first <=> k = 1) /\ (P[Root][k].last <=> k = Len(P[Root]))

\* The k-th block of its caller runs c from begin to end, or does not run it.
CallIsWhole(P, c, k) ==
  LET call == P[Caller(c)][k]
      from == Mark(P, c, k - 1)
      to == Mark(P, c, k)
  IN  IF call.kind = "call" /\ c \in call.kids
      THEN /\ from < to
           /\ \A j \in from + 1 .. to :
                (P[c][j].first <=> j = from + 1) /\ (P[c][j].last <=> j = to)
      ELSE to = from

ASSUME CallAssumption ==
  \A P \in Programs :
    /\ MainIsWhole(P)
    /\ \A p \in Proc : \A k \in DOMAIN P[p] : P[p][k].kind = "call" =>
         \A c \in P[p][k].kids : c # Root /\ Caller(c) = p
    /\ \A c \in Proc \ {Root} :
         /\ Mark(P, c, 0) = 0
         /\ Mark(P, c, Len(P[Caller(c)])) = Len(P[c])
         /\ \A k \in 0 .. Len(P[Caller(c)]) : Mark(P, c, k) \in 0 .. Len(P[c])
         /\ \A k \in 1 .. Len(P[Caller(c)]) : CallIsWhole(P, c, k)

-----------------------------------------------------------------------------
\* The caller of c waits in a call that runs c.
Called(c) == Caller(c) \in inCall /\ c \in NextBlock(Caller(c)).kids

From(c) == Mark(prog, c, pc[Caller(c)])
To(c) == Mark(prog, c, pc[Caller(c)] + 1)

\* A called process is between the begin and the end of this call, and has
\* returned only at the far one; a process not called is where its caller's
\* progress says.
Placed(c) ==
  IF Called(c)
  THEN /\ From(c) <= pc[c] /\ pc[c] <= To(c)
       /\ IF c \in live
          THEN /\ ~rev \/ c \in inCall => pc[c] < To(c)
               /\ rev /\ c \notin inCall => pc[c] > From(c)
          ELSE pc[c] = IF rev THEN From(c) ELSE To(c)
  ELSE pc[c] = From(c)

MainPlaced ==
  IF Root \in live
  THEN /\ ~rev => pc[Root] < Len(prog[Root])
       /\ rev /\ Root \notin inCall => pc[Root] > 0
  ELSE pc[Root] = IF rev THEN 0 ELSE Len(prog[Root])

\* Fork and join: who waits runs, who runs has been called, and everybody is in
\* its place.  It implies WholeRuns.
TreeInv ==
  /\ \A p \in inCall : p \in live /\ NextBlock(p).kind = "call"
  /\ \A c \in live \ {Root} : Called(c)
  /\ \A c \in Proc \ {Root} : Placed(c)
  /\ MainPlaced
=============================================================================
