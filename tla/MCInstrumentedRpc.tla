-------------------------- MODULE MCInstrumentedRpc --------------------------
(***************************************************************************)
(* InstrumentedRpc for TLC.  Calls and methods are interchangeable, and no *)
(* temporal property is checked.  States that differ only in what neither  *)
(* a guard of the client nor a property of InstrumentedRpc reads are       *)
(* explored once: ids, histories of RpcClient, attempts given up.          *)
(***************************************************************************)
EXTENDS InstrumentedRpc, TLC

Symmetry == Permutations(Calls) \cup Permutations(Methods)

Awaited == {t \in inflight : Listens(t[1], t[2])}

Seen ==
    <<closed, pc, kind, attempt, outcome, [c \in Calls |-> reply[c].what], Awaited,
      method, tables, reset>>
=============================================================================
