------------------------------ MODULE RpcClient ------------------------------
(***************************************************************************)
(* RpcClient of rpc.py: coroutines that share one client call request,     *)
(* request_raw or batch while another coroutine may close the client.  A   *)
(* request is one HTTP exchange at a time, retried by _send_with_retry; a  *)
(* batch is a single exchange.  The server is external: an attempt may be  *)
(* executed late, its answer may be lost, and an attempt the client has    *)
(* given up on may still be executed.                                      *)
(***************************************************************************)
EXTENDS Integers, Sequences, Functions

CONSTANTS
    Calls,        \* the calls the coroutines make
    MaxRetries,   \* RetryPolicy.max_retries
    BatchSize     \* number of requests in a batch

ASSUME RpcAssumption == MaxRetries \in Nat /\ BatchSize \in Nat \ {0}

VARIABLES
    requestId,  \* _request_id, the last id handed out
    closed,     \* the httpx client has been closed
    pc,         \* pc[c]: idle, post (exchange out), sleep (backing off), done
    kind,       \* kind[c]: the operation called
    ids,        \* ids[c]: the ids in the payload of the call, in request order
    attempt,    \* attempt[c]: the loop variable of _send_with_retry
    reply,      \* reply[c]: the answer to the current attempt
    lost,       \* lost[c]: attempts that ended in a transport exception
    refused,    \* refused[c]: attempts answered by a retryable error and retried
    outcome,    \* outcome[c]: how the call ended
    result,     \* result[c]: ids of the responses returned, in order
    inflight,   \* attempts <<c, a>> sent and not yet handled by the server
    executed    \* executed[c]: attempts of c the server has executed

client == <<requestId, closed, pc, kind, ids, attempt, lost, refused, outcome, result>>
vars == <<client, reply, inflight, executed>>

Attempts == 0..MaxRetries
Kinds == {"request", "request_raw", "batch"}

(* What an exchange may bring back: a result, an RPC error with a code     *)
(* among retryable_codes (the node did not process the request), another   *)
(* RPC error, an HTTP status >= 400.  order lists the ids of the responses *)
(* as the server wrote them; empty for an answer that is no list.          *)
Whats == {"result", "retryable", "fatal", "status"}
Waiting == [what |-> "none", order |-> <<>>]
Answer(what, order) == [what |-> what, order |-> order]

Outcomes == {"none", "ok", "rpc_error", "busy_error", "gave_up", "escaped", "cancelled"}

Init ==
    /\ requestId = 0 /\ closed = FALSE
    /\ pc = [c \in Calls |-> "idle"]
    /\ kind = [c \in Calls |-> "request"]
    /\ ids = [c \in Calls |-> <<>>]
    /\ attempt = [c \in Calls |-> 0]
    /\ reply = [c \in Calls |-> Waiting]
    /\ lost = [c \in Calls |-> {}]
    /\ refused = [c \in Calls |-> {}]
    /\ outcome = [c \in Calls |-> "none"]
    /\ result = [c \in Calls |-> <<>>]
    /\ inflight = {}
    /\ executed = [c \in Calls |-> {}]

-----------------------------------------------------------------------------
(* The client.                                                             *)

End(c, how) ==
    /\ pc' = [pc EXCEPT ![c] = "done"]
    /\ outcome' = [outcome EXCEPT ![c] = how]

(* client.post: refused locally by a client that has been closed.          *)
Transmit(c, a) ==
    /\ reply' = [reply EXCEPT ![c] = Waiting]
    /\ IF closed
         THEN End(c, "escaped") /\ UNCHANGED inflight
         ELSE /\ pc' = [pc EXCEPT ![c] = "post"]
              /\ inflight' = inflight \cup {<<c, a>>}
              /\ UNCHANGED outcome

(* Mutation: one id for the whole batch, taken once.                       *)
NewIdsOnce(n) == [i \in 1..n |-> requestId + 1]
NewIds(n) == [i \in 1..n |-> requestId + i]

(* request, request_raw, batch: the payload is built, with its ids, before *)
(* the first suspension; retries send the same payload.                    *)
Call(c) ==
    /\ pc[c] = "idle"
    /\ \E k \in Kinds :
          LET n == IF k = "batch" THEN BatchSize ELSE 1 IN
          /\ kind' = [kind EXCEPT ![c] = k]
          /\ ids' = [ids EXCEPT ![c] = NewIds(n)]
          /\ requestId' = requestId + n
    /\ Transmit(c, 0)
    /\ UNCHANGED <<closed, attempt, lost, refused, result, executed>>

(* Mutations: range(max_retries); a last attempt that is retried too.      *)
MayRetryLess(c) == kind[c] # "batch" /\ attempt[c] + 1 < MaxRetries
MayRetryMore(c) == kind[c] # "batch" /\ attempt[c] <= MaxRetries
MayRetry(c) == kind[c] # "batch" /\ attempt[c] < MaxRetries

(* ConnectError, ReadError, TimeoutException: sleep and retry, or give up; *)
(* a batch lets the exception through.                                     *)
TransportError(c) ==
    /\ pc[c] = "post"
    /\ lost' = [lost EXCEPT ![c] = @ \cup {attempt[c]}]
    /\ \/ MayRetry(c) /\ pc' = [pc EXCEPT ![c] = "sleep"] /\ UNCHANGED outcome
       \/ ~MayRetry(c) /\ End(c, IF kind[c] = "batch" THEN "escaped" ELSE "gave_up")
    /\ UNCHANGED <<requestId, closed, kind, ids, attempt, refused, result,
                   reply, inflight, executed>>

(* Any other exception of the exchange is caught nowhere.                  *)
OtherError(c) ==
    /\ pc[c] = "post" /\ End(c, "escaped")
    /\ UNCHANGED <<requestId, closed, kind, ids, attempt, lost, refused, result,
                   reply, inflight, executed>>

(* The task of the caller is cancelled while it awaits the exchange or a   *)
(* backoff sleep: CancelledError is caught nowhere.                        *)
Cancel(c) ==
    /\ pc[c] \in {"post", "sleep"} /\ End(c, "cancelled")
    /\ UNCHANGED <<requestId, closed, kind, ids, attempt, lost, refused, result,
                   reply, inflight, executed>>

(* Mutation: every RPC error is retried.                                   *)
RetryableAny(what) == what \in {"retryable", "fatal"}
Retryable(what) == what = "retryable"

Refused(c) ==
    /\ pc[c] = "post" /\ Retryable(reply[c].what) /\ MayRetry(c)
    /\ refused' = [refused EXCEPT ![c] = @ \cup {attempt[c]}]
    /\ pc' = [pc EXCEPT ![c] = "sleep"]
    /\ UNCHANGED <<requestId, closed, kind, ids, attempt, lost, outcome, result,
                   reply, inflight, executed>>

(* Mutation: a loop that forgets to count.                                 *)
SameAttempt(c) == attempt[c]
NextAttempt(c) == attempt[c] + 1

Backoff(c) ==
    /\ pc[c] = "sleep"
    /\ attempt' = [attempt EXCEPT ![c] = NextAttempt(c)]
    /\ Transmit(c, NextAttempt(c))
    /\ UNCHANGED <<requestId, closed, kind, ids, lost, refused, result, executed>>

Rearrangements(seq) ==
    { [i \in DOMAIN seq |-> seq[f[i]]] : f \in Bijection(DOMAIN seq, DOMAIN seq) }

(* Mutation: responses taken in the order of the server.                   *)
AsReceived(order) == order
InIdOrder(order) ==
    CHOOSE s \in Rearrangements(order) : \A i, j \in DOMAIN s : i < j => s[i] <= s[j]

(* raise_for_status, then _parse_response and, for request, unwrap: an RPC *)
(* error is raised by request and returned by request_raw and batch; both  *)
(* are recorded as the error the caller sees.                              *)
Verdict(what) ==
    CASE what = "result"    -> "ok"
      [] what = "retryable" -> "busy_error"
      [] what = "fatal"     -> "rpc_error"
      [] what = "status"    -> "escaped"

Return(c) ==
    /\ pc[c] = "post" /\ reply[c].what # "none"
    /\ ~(Retryable(reply[c].what) /\ MayRetry(c))
    /\ End(c, Verdict(reply[c].what))
    /\ result' = [result EXCEPT ![c] = InIdOrder(reply[c].order)]
    /\ UNCHANGED <<requestId, closed, kind, ids, attempt, lost, refused,
                   reply, inflight, executed>>

(* close(): exchanges still out end in an exception.                       *)
Close ==
    /\ ~closed
    /\ closed' = TRUE
    /\ UNCHANGED <<requestId, pc, kind, ids, attempt, lost, refused, outcome, result,
                   reply, inflight, executed>>

-----------------------------------------------------------------------------
(* The server and the network.                                             *)

Listens(c, a) == pc[c] = "post" /\ attempt[c] = a

(* An answer reaches only an attempt that still waits for it.              *)
Respond(c, a, answer) ==
    reply' = IF Listens(c, a) THEN [reply EXCEPT ![c] = answer] ELSE reply

(* The responses of a batch come in any order.                             *)
Orders(c) == Rearrangements(ids[c])

Execute(c, a) ==
    /\ <<c, a>> \in inflight
    /\ inflight' = inflight \ {<<c, a>>}
    /\ executed' = [executed EXCEPT ![c] = @ \cup {a}]
    /\ \E what \in {"result", "fatal"}, order \in Orders(c) :
          Respond(c, a, Answer(what, order))
    /\ UNCHANGED client

(* Turned down without being executed: node behind, bad request, 4xx/5xx.  *)
Refuse(c, a) ==
    /\ <<c, a>> \in inflight
    /\ inflight' = inflight \ {<<c, a>>}
    /\ \E what \in Whats \ {"result"} :
          Respond(c, a, Answer(what, <<>>))
    /\ UNCHANGED <<client, executed>>

Drop(c, a) ==
    /\ <<c, a>> \in inflight
    /\ inflight' = inflight \ {<<c, a>>}
    /\ UNCHANGED <<client, reply, executed>>

Finished ==
    /\ \A c \in Calls : pc[c] = "done"
    /\ UNCHANGED vars

-----------------------------------------------------------------------------
ClientStep(c) ==
    \/ Call(c) \/ TransportError(c) \/ OtherError(c) \/ Cancel(c) \/ Refused(c)
    \/ Backoff(c) \/ Return(c)

ServerStep(c) == \E a \in Attempts : Execute(c, a) \/ Refuse(c, a) \/ Drop(c, a)

Next ==
    \/ \E c \in Calls : ClientStep(c) \/ ServerStep(c)
    \/ Close
    \/ Finished

(* A coroutine that can run runs, and the timeout of the httpx client ends *)
(* an exchange nobody answers.                                             *)
Fairness ==
    \A c \in Calls : /\ WF_vars(Refused(c) \/ Return(c) \/ TransportError(c))
                     /\ WF_vars(Backoff(c))

Spec == Init /\ [][Next]_vars
FairSpec == Spec /\ Fairness

-----------------------------------------------------------------------------
(* Properties.                                                             *)

(* The variables have their types, an attempt never exceeds the policy,    *)
(* and a call has an outcome exactly when its coroutine is over.           *)
TypeOK ==
    /\ requestId \in Nat /\ closed \in BOOLEAN
    /\ pc \in [Calls -> {"idle", "post", "sleep", "done"}]
    /\ kind \in [Calls -> Kinds]
    /\ ids \in [Calls -> Seq(Nat)]
    /\ attempt \in [Calls -> Attempts]
    /\ DOMAIN reply = Calls
    /\ \A c \in Calls : reply[c].what \in Whats \cup {"none"}
    /\ lost \in [Calls -> SUBSET Attempts]
    /\ refused \in [Calls -> SUBSET Attempts]
    /\ outcome \in [Calls -> Outcomes]
    /\ DOMAIN result = Calls
    /\ inflight \subseteq Calls \X Attempts
    /\ executed \in [Calls -> SUBSET Attempts]
    /\ \A c \in Calls : pc[c] = "done" <=> outcome[c] # "none"

(* A request executed twice is one whose answer was lost: an attempt the   *)
(* server executed and the client retried ended in a transport exception.  *)
(* An error the server answered is never retried after an execution, and a *)
(* batch is never executed twice.                                          *)
ReexecutedOnlyAfterLoss ==
    \A c \in Calls :
        /\ \A a \in executed[c] : a < attempt[c] => a \in lost[c]
        /\ kind[c] = "batch" => executed[c] \subseteq {0}

(* The budget of RetryPolicy is spent before a call gives up or hands a    *)
(* retryable error to its caller, and every attempt before the current one *)
(* was either lost or refused, never both.                                 *)
BudgetSpent ==
    \A c \in Calls :
        /\ outcome[c] \in {"gave_up", "busy_error"} /\ kind[c] # "batch"
              => attempt[c] = MaxRetries
        /\ outcome[c] = "gave_up" => attempt[c] \in lost[c]
        /\ \A a \in Attempts : a < attempt[c] => (a \in lost[c] <=> a \notin refused[c])

(* The ids of concurrent calls, and of the requests of one batch, are all  *)
(* different, whatever the interleaving and the retries.                   *)
IdsDistinct ==
    \A c, d \in Calls : \A i \in DOMAIN ids[c], j \in DOMAIN ids[d] :
        ids[c][i] = ids[d][j] => c = d /\ i = j

(* "Returns responses in order." (rpc.py:95): a batch answered by a list   *)
(* returns the responses in the order of the requests.                     *)
BatchInOrder ==
    \A c \in Calls : result[c] # <<>> => result[c] = ids[c]

(* Every call ends, whatever the server does and even if the client is     *)
(* closed meanwhile.                                                       *)
CallsEnd == \A c \in Calls : pc[c] # "idle" ~> pc[c] = "done"
=============================================================================
