---------------------------- MODULE Confirmation ----------------------------
(***************************************************************************)
(* What the rest of the package may rely on when it calls                  *)
(* wait_for_confirmation: the ledger settles a transaction once, for good  *)
(* or as failed; the call returns only after that, and may raise at any    *)
(* time.  Polling, clocks, rollbacks and lost answers are the business of  *)
(* module Wait, which implements this one.  The modules of the helpers     *)
(* that send transactions and await them have Return and Raise for their   *)
(* waits.                                                                  *)
(***************************************************************************)
CONSTANT Calls   \* calls of wait_for_confirmation, each for its transaction

VARIABLES
    fate,     \* fate[c]: open, ok, failed (on chain)
    result    \* result[c]: none, returned, raised

vars == <<fate, result>>

Init ==
    /\ fate = [c \in Calls |-> "open"]
    /\ result = [c \in Calls |-> "none"]

Settle(c) ==
    /\ fate[c] = "open"
    /\ \E f \in {"ok", "failed"} : fate' = [fate EXCEPT ![c] = f]
    /\ UNCHANGED result

Finish(c, how) ==
    /\ result[c] = "none"
    /\ result' = [result EXCEPT ![c] = how]
    /\ UNCHANGED fate

Return(c) == fate[c] # "open" /\ Finish(c, "returned")
Raise(c) == Finish(c, "raised")

Next == \E c \in Calls : Settle(c) \/ Return(c) \/ Raise(c)

Spec == Init /\ [][Next]_vars
=============================================================================
