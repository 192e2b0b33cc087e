--------------------------- MODULE AtomicProgram ---------------------------
(***************************************************************************)
(* What deploy_program_upgradeable and upgrade_program promise of the one  *)
(* program they are called for: its code changes in one step, from the     *)
(* image of one call to the image of another, at most once for a call,     *)
(* and only while the call's authority is the program's; the image is      *)
(* whole unless a transaction of that call failed on chain.  A call that   *)
(* returned has replaced the code or seen a failure; one that raised may   *)
(* still replace it later.                                                 *)
(***************************************************************************)
CONSTANTS Calls, Key, Nobody

VARIABLES
    code,        \* the call whose image the program runs, or Nobody
    whole,       \* that image is complete
    authority,   \* who may replace it; Nobody: before the first, or never again
    installed,   \* the calls that have replaced the code
    failed,      \* the calls with a transaction that failed on chain
    result       \* result[c]: none, returned, raised

vars == <<code, whole, authority, installed, failed, result>>

Init ==
    /\ code = Nobody /\ whole = FALSE /\ authority = Nobody
    /\ installed = {} /\ failed = {}
    /\ result = [c \in Calls |-> "none"]

Install(c) ==
    /\ c \notin installed /\ result[c] # "returned"
    /\ IF code = Nobody THEN authority' = Key[c]
                        ELSE authority = Key[c] /\ UNCHANGED authority
    /\ code' = c
    /\ whole' \in {TRUE, c \notin failed}
    /\ installed' = installed \cup {c}
    /\ UNCHANGED <<failed, result>>

Fail(c) ==
    /\ result[c] # "returned"
    /\ failed' = failed \cup {c}
    /\ UNCHANGED <<code, whole, authority, installed, result>>

HandOver ==
    /\ authority # Nobody
    /\ \E k \in {Key[c] : c \in Calls} \cup {Nobody} : authority' = k
    /\ UNCHANGED <<code, whole, installed, failed, result>>

Finish(c, how) ==
    /\ result[c] = "none"
    /\ result' = [result EXCEPT ![c] = how]
    /\ UNCHANGED <<code, whole, authority, installed, failed>>

Return(c) == c \in installed \cup failed /\ Finish(c, "returned")
Raise(c) == Finish(c, "raised")

Next == HandOver \/ \E c \in Calls : Install(c) \/ Fail(c) \/ Return(c) \/ Raise(c)

Spec == Init /\ [][Next]_vars
=============================================================================
