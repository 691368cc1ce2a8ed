------------------------------ MODULE MCWaits -------------------------------
(***************************************************************************)
(* Instances of Waits for TLC: y is an index where it is read, and, as the *)
(* compiler does, every expression that reads it stands under a lock of it. *)
(***************************************************************************)
EXTENDS MCVersionedDag, Waits

MCEarly == {Var(y)}

\* LockY waits for whoever holds x, with y read; others write y and x.
Blocking ==
  <<LockY, LockX,
    <<Over("lock", {x}), Over("read", {x}), Over("unlock", {x})>>,
    <<Over("lock", {x, y}), Set("+", z, 0, {x, y}), Over("unlock", {x, y})>>,
    Critical(y, x),
    <<Set("+", y, 1, {}), Set("-", y, 3, {})>>,
    <<Set("^", x, 3, {z})>>>>

MCBlocking ==
  UNION {UNION {{Fork3(Blocking[i], Blocking[j], Blocking[k]) : k \in j .. Len(Blocking)}
                : j \in i .. Len(Blocking)} : i \in DOMAIN Blocking}
=============================================================================
