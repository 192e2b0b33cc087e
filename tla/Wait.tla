-------------------------------- MODULE Wait --------------------------------
(***************************************************************************)
(* The two polling loops of wait.py: wait_for_confirmation (a Confirmer    *)
(* polls the status of one transaction) and wait_for_health (a             *)
(* HealthWaiter polls one node).  Time is discrete.  A coroutine whose     *)
(* sleep has ended is resumed at most Lag ticks late; one HTTP exchange    *)
(* ends, by an answer or by an exception, within Latency ticks.  The       *)
(* transactions and the nodes they ask about change on their own.          *)
(***************************************************************************)
EXTENDS Integers

CONSTANTS
    Confirmers,      \* coroutines running wait_for_confirmation
    HealthWaiters,   \* coroutines running wait_for_health
    Timeout,         \* the `timeout` argument
    Interval,        \* the `interval` argument
    Latency,         \* longest HTTP exchange the client's own timeouts allow
    Lag,             \* longest delay of the event loop in resuming a coroutine
    MaxStart         \* bound: no wait begins after this time

ASSUME WaitAssumption ==
    /\ Timeout \in Nat \ {0} /\ Interval \in Nat /\ Latency \in Nat
    /\ Lag \in Nat /\ MaxStart \in Nat
    /\ Confirmers \cap HealthWaiters = {}

VARIABLES
    now,       \* the clock of the event loop
    subject,   \* subject[p]: true state of the transaction or node p asks about
    since,     \* since[p]: when subject[p] last became settled
    pc,        \* pc[p]: idle, loop (at the while test), post (request out), done
    deadline,  \* deadline[p], fixed on entry
    timer,     \* loop: when p is due; post: when the exchange ends at the latest
    reply,     \* reply[p]: what the last exchange has produced so far
    outcome    \* outcome[p]: how the call ended

vars == <<now, subject, since, pc, deadline, timer, reply, outcome>>
world == <<now, subject, since>>

Pollers == Confirmers \cup HealthWaiters

(* "confirmed" stands for confirmed and finalized, which the code treats   *)
(* alike; the suffix _err marks a status whose err field is set.           *)
TxStates == {"unknown", "processed", "processed_err", "confirmed", "confirmed_err"}
NodeStates == {"down", "starting", "up"}

(* The states on which a wait has something to report.                     *)
SettledStates == {"processed_err", "confirmed", "confirmed_err", "up"}
Settled(p) == subject[p] \in SettledStates

(* A reply that tells the state of the subject, and one that does not: no  *)
(* reply yet, a JSON-RPC error body, a request that got no answer.         *)
Told == TxStates \cup NodeStates
Untold == {"none", "error", "lost"}
Outcomes == {"none", "ok", "tx_error", "timeout", "escaped"}

Init ==
    /\ now = 0
    /\ subject = [p \in Pollers |-> IF p \in Confirmers THEN "unknown" ELSE "down"]
    /\ since = [p \in Pollers |-> 0]
    /\ pc = [p \in Pollers |-> "idle"]
    /\ deadline = [p \in Pollers |-> 0]
    /\ timer = [p \in Pollers |-> 0]
    /\ reply = [p \in Pollers |-> "none"]
    /\ outcome = [p \in Pollers |-> "none"]

-----------------------------------------------------------------------------
(* The coroutines.                                                         *)

Begin(p) ==
    /\ pc[p] = "idle" /\ now <= MaxStart
    /\ pc' = [pc EXCEPT ![p] = "loop"]
    /\ deadline' = [deadline EXCEPT ![p] = now + Timeout]
    /\ timer' = [timer EXCEPT ![p] = now]
    /\ UNCHANGED <<world, reply, outcome>>

Resumed(p) == pc[p] = "loop" /\ now >= timer[p]

(* Mutations: the deadline itself still counts; no poll that could outlast *)
(* the deadline.                                                           *)
InTimeInclusive(p) == now <= deadline[p]
InTimeEarly(p) == now + Interval + Latency + Lag < deadline[p]
InTime(p) == now < deadline[p]

Poll(p) ==
    /\ Resumed(p) /\ InTime(p)
    /\ pc' = [pc EXCEPT ![p] = "post"]
    /\ timer' = [timer EXCEPT ![p] = now + Latency]
    /\ reply' = [reply EXCEPT ![p] = "none"]
    /\ UNCHANGED <<world, deadline, outcome>>

(* Mutation: the result of the call is lost on its way out.                *)
FinishSilently(p, how) ==
    /\ pc' = [pc EXCEPT ![p] = "done"]
    /\ UNCHANGED <<world, deadline, timer, outcome>>

Finish(p, how) ==
    /\ pc' = [pc EXCEPT ![p] = "done"]
    /\ outcome' = [outcome EXCEPT ![p] = how]
    /\ UNCHANGED <<world, deadline, timer>>

Sleep(p) ==
    /\ pc' = [pc EXCEPT ![p] = "loop"]
    /\ timer' = [timer EXCEPT ![p] = now + Interval]
    /\ UNCHANGED <<world, deadline, outcome>>

(* Mutation: the loop ends and the function returns.                       *)
ExpireQuietly(p) ==
    /\ Resumed(p) /\ ~InTime(p)
    /\ Finish(p, "ok")
    /\ UNCHANGED reply
Expire(p) ==
    /\ Resumed(p) /\ ~InTime(p)
    /\ Finish(p, "timeout")
    /\ UNCHANGED reply

(* The status is looked at in the order of the code: confirmationStatus    *)
(* first, err only when the transaction is not confirmed.                  *)
(* Mutation: processed taken for confirmed.                                *)
AcceptsProcessed(r) == r \in {"processed", "confirmed", "confirmed_err"}
Accepts(r) == r \in {"confirmed", "confirmed_err"}
Rejects(r) == r = "processed_err"

ReceiveStatus(p) ==
    /\ p \in Confirmers /\ pc[p] = "post" /\ reply[p] # "none"
    /\ \/ Accepts(reply[p]) /\ Finish(p, "ok")
       \/ ~Accepts(reply[p]) /\ Rejects(reply[p]) /\ Finish(p, "tx_error")
       \/ ~Accepts(reply[p]) /\ ~Rejects(reply[p]) /\ Sleep(p)
    /\ UNCHANGED reply

ReceiveHealth(p) ==
    /\ p \in HealthWaiters /\ pc[p] = "post" /\ reply[p] # "none"
    /\ IF reply[p] \in {"up", "error"} THEN Finish(p, "ok") ELSE Sleep(p)
    /\ UNCHANGED reply

(* An exception of the client: only wait_for_health catches connect, read  *)
(* and timeout errors, and neither loop catches the others (a server that  *)
(* is there and closes the connection without a response).                 *)
Caught(p, kind) == p \in HealthWaiters /\ kind = "transport"

Raise(p, kind) ==
    /\ pc[p] = "post"
    /\ kind = "protocol" => subject[p] # "down"
    /\ reply' = [reply EXCEPT ![p] = "lost"]
    /\ IF Caught(p, kind) THEN Sleep(p) ELSE Finish(p, "escaped")

-----------------------------------------------------------------------------
(* The world the coroutines poll.                                          *)

(* The server reads the state when it handles the request; the answer      *)
(* travels on its own.  A node that is up may also answer getHealth or the *)
(* status query with a JSON-RPC error in a 200 response.                   *)
Serve(p) ==
    /\ pc[p] = "post" /\ reply[p] = "none" /\ subject[p] # "down"
    /\ \E r \in {subject[p]} \cup (IF subject[p] = "starting" THEN {} ELSE {"error"}) :
          reply' = [reply EXCEPT ![p] = r]
    /\ UNCHANGED <<world, pc, deadline, timer, outcome>>

(* A processed transaction may still be rolled back; a node may crash.     *)
Successors(s) ==
    CASE s = "unknown"       -> {"processed", "processed_err"}
      [] s = "processed"     -> {"confirmed", "unknown"}
      [] s = "processed_err" -> {"confirmed_err", "unknown"}
      [] s = "down"          -> {"starting"}
      [] s = "starting"      -> {"up", "down"}
      [] s = "up"            -> {"down"}
      [] OTHER               -> {}

Evolve(p) ==
    /\ \E s \in Successors(subject[p]) :
          /\ subject' = [subject EXCEPT ![p] = s]
          /\ since' = IF ~Settled(p) /\ s \in SettledStates
                        THEN [since EXCEPT ![p] = now] ELSE since
    /\ UNCHANGED <<now, pc, deadline, timer, reply, outcome>>

Active(p) == pc[p] \in {"loop", "post"}

Tick ==
    /\ now < MaxStart \/ \E p \in Pollers : Active(p)
    /\ \A p \in Pollers : /\ pc[p] = "loop" => now < timer[p] + Lag
                          /\ pc[p] = "post" => now < timer[p]
    /\ now' = now + 1
    /\ UNCHANGED <<subject, since, pc, deadline, timer, reply, outcome>>

Finished ==
    /\ \A p \in Pollers : pc[p] = "done"
    /\ UNCHANGED vars

-----------------------------------------------------------------------------
Next ==
    \/ \E p \in Pollers :
          \/ Begin(p) \/ Poll(p) \/ Expire(p) \/ ReceiveStatus(p) \/ ReceiveHealth(p)
          \/ Raise(p, "transport") \/ Raise(p, "protocol")
          \/ Serve(p) \/ Evolve(p)
    \/ Tick
    \/ Finished

Spec == Init /\ [][Next]_vars

-----------------------------------------------------------------------------
(* Properties.                                                             *)

(* The variables have their types, and a call has an outcome exactly when  *)
(* its coroutine is over: no path leaves either loop without a result.     *)
TypeOK ==
    /\ now \in Nat
    /\ subject \in [Pollers -> Told]
    /\ since \in [Pollers -> Nat]
    /\ pc \in [Pollers -> {"idle", "loop", "post", "done"}]
    /\ deadline \in [Pollers -> Nat]
    /\ timer \in [Pollers -> Nat]
    /\ reply \in [Pollers -> Told \cup Untold]
    /\ outcome \in [Pollers -> Outcomes]
    /\ \A p \in Pollers : pc[p] = "done" <=> outcome[p] # "none"

(* wait_for_confirmation returns only for a transaction that is, and stays,*)
(* confirmed: no rollback that happens while the answer travels, or later, *)
(* can undo what the caller was told.                                      *)
ConfirmationStable ==
    \A p \in Confirmers :
        outcome[p] = "ok" => subject[p] \in {"confirmed", "confirmed_err"}

(* A TimeoutError whose last poll got a proper answer is not a missed one: *)
(* whatever became settled did so later than one interval, one exchange    *)
(* and one late resumption before the deadline.                            *)
NoMissedSettlement ==
    \A p \in Pollers :
        outcome[p] = "timeout" /\ reply[p] \in Told /\ Settled(p)
            => since[p] + Interval + Latency + Lag >= deadline[p]

(* A wait outlives its `timeout` by less than one exchange, one interval   *)
(* and one late resumption: what the last poll before the deadline costs.  *)
ReturnsInTime ==
    \A p \in Pollers :
        Active(p) => now < deadline[p] + Latency + Interval + Lag

(* TransactionError stands for "Transaction execution failed on-chain."    *)
(* (wait.py:79): a wait that returns normally has seen a transaction that  *)
(* did not fail.  The status is tested before the error, so it does not    *)
(* hold.                                                                   *)
ConfirmedMeansSucceeded ==
    \A p \in Confirmers : outcome[p] = "ok" => subject[p] # "confirmed_err"

(* How Confirmation sees the states and outcomes of this module.           *)
FateOf(s) == CASE s = "confirmed" -> "ok" [] s = "confirmed_err" -> "failed" [] OTHER -> "open"
ResultOf(o) == CASE o = "none" -> "none" [] o = "ok" -> "returned" [] OTHER -> "raised"

(* wait_for_confirmation keeps what Confirmation promises, at every step:  *)
(* it returns only when its transaction is settled, and never twice.       *)
Promise ==
    INSTANCE Confirmation WITH
        Calls <- Confirmers,
        fate <- [p \in Confirmers |-> FateOf(subject[p])],
        result <- [p \in Confirmers |-> ResultOf(outcome[p])]
ImplementsConfirmation == Promise!Spec
=============================================================================
