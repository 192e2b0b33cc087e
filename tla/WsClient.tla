------------------------------ MODULE WsClient ------------------------------
(***************************************************************************)
(* WsClient of ws.py: one coroutine drives one websocket connection        *)
(* through subscribe, recv_notification(s), unsubscribe and close, while   *)
(* the server pushes notifications on the same connection.  The client     *)
(* never looks at the id of a message: whatever comes next is taken for    *)
(* the answer it waits for.  The server is external; it may answer late    *)
(* or never, and the connection may break.                                 *)
(***************************************************************************)
EXTENDS Integers, Sequences, FiniteSets, Functions

CONSTANTS
    FirstId,      \* the first subscription id the server hands out
    MaxRequests,  \* bound: requests the client sends
    MaxNotes,     \* bound: notifications the server sends
    MaxCount      \* bound: largest count given to recv_notifications

ASSUME WsAssumption ==
    FirstId \in Nat /\ MaxRequests \in Nat /\ MaxNotes \in Nat /\ MaxCount \in Nat

VARIABLES
    pc,         \* ready (between two calls: one has returned or raised),
                \* subscribing, receiving, unsubscribing, closing, closed
    requestId,  \* _request_id
    subs,       \* keys of _subscriptions
    target,     \* the subscription being given up
    todo,       \* what is left of the list close() goes through; {} elsewhere
    closingUp,  \* _unsubscribe was called by close(), not by unsubscribe
    want,       \* notifications recv_notifications still waits for
    got,        \* notifications it has collected so far
    up,         \* requests on their way to the server
    down,       \* messages on their way to the client
    alive,      \* the connection is up
    active,     \* the server's subscriptions on this connection
    nextSub,    \* the next subscription id of the server
    notes,      \* notifications sent so far
    owner,      \* owner[i]: the request that created subscription i
    delivered,  \* notifications returned to the caller, in order
    missed,     \* notifications read and not returned to the caller
    stale,      \* answers the client no longer waits for and has not read
    astray,     \* such answers it has read where it expected a notification
    returned    \* <<request, id>> pairs: what subscribe returned

client == <<pc, requestId, subs, target, todo, closingUp, want, got>>
server == <<alive, active, nextSub, notes, owner>>
history == <<delivered, missed, stale, astray, returned>>
vars == <<client, up, down, server, history>>

SubIds == FirstId .. FirstId + MaxRequests
Types == {"ack", "unack", "error", "note"}

(* An "ack" carries the new subscription id, an "unack" True as 1 or False *)
(* as 0 (what Python's True and False are as dictionary keys), a "note"    *)
(* its number in req and its subscription in val.                          *)
Message(type, req, val) == [type |-> type, req |-> req, val |-> val]

Init ==
    /\ pc = "ready" /\ requestId = 0 /\ subs = {} /\ target = FirstId
    /\ todo = {} /\ closingUp = FALSE /\ want = 0 /\ got = <<>>
    /\ up = <<>> /\ down = <<>>
    /\ alive = TRUE /\ active = {} /\ nextSub = FirstId /\ notes = 0
    /\ owner = [i \in SubIds |-> 0]
    /\ delivered = <<>> /\ missed = {} /\ stale = 0 /\ astray = 0
    /\ returned = {}

Broken == ~alive /\ down = <<>>

-----------------------------------------------------------------------------
(* The client.  An exception ends the call and nothing else: the caller    *)
(* may catch it inside the async with and go on, or let it reach           *)
(* __aexit__, which closes.                                                *)

Send(op, sub) ==
    /\ requestId' = requestId + 1
    /\ up' = Append(up, [op |-> op, req |-> requestId + 1, sub |-> sub])

Take == down' = Tail(down)
Miss(m) == missed' = IF m.type = "note" THEN missed \cup {m.req} ELSE missed

(* The answer is left for a later recv if a note was taken for it.         *)
Desync(m) == stale' = IF m.type = "note" THEN stale + 1 ELSE stale

Subscribe ==
    /\ pc = "ready" /\ requestId < MaxRequests
    /\ IF alive
         THEN Send("sub", FirstId) /\ pc' = "subscribing"
         ELSE requestId' = requestId + 1 /\ UNCHANGED <<pc, up>>
    /\ UNCHANGED <<subs, target, todo, closingUp, want, got, down, server, history>>

(* response["result"] of whatever message comes next: a subscription id,   *)
(* True or False left over from an unsubscribe; an error and a note, which *)
(* has no such key, raise.                                                 *)
SubscribeReply ==
    /\ pc = "subscribing" /\ down # <<>>
    /\ LET m == Head(down) IN
         /\ Take /\ Miss(m) /\ Desync(m)
         /\ \/ /\ m.type \in {"ack", "unack"}
               /\ subs' = subs \cup {m.val}
               /\ returned' = returned \cup {<<requestId, m.val>>}
            \/ m.type \in {"error", "note"} /\ UNCHANGED <<subs, returned>>
    /\ pc' = "ready"
    /\ UNCHANGED <<requestId, target, todo, closingUp, want, got, up, server,
                   delivered, astray>>

Receive ==
    /\ pc = "ready"
    /\ pc' = "receiving"
    /\ want' \in 1..MaxCount
    /\ UNCHANGED <<requestId, subs, target, todo, closingUp, got, up, down, server, history>>

(* msg["params"]: an answer nobody waited for has no such key.             *)
ReceiveMessage ==
    /\ pc = "receiving" /\ down # <<>>
    /\ LET m == Head(down) IN
         IF m.type # "note"
           THEN /\ pc' = "ready" /\ got' = <<>>
                /\ stale' = stale - 1 /\ astray' = astray + 1
                /\ missed' = missed \cup Range(got)
                /\ UNCHANGED <<want, delivered>>
           ELSE IF want = 1
             THEN /\ pc' = "ready" /\ got' = <<>>
                  /\ delivered' = delivered \o Append(got, m.req)
                  /\ UNCHANGED <<want, missed, stale, astray>>
             ELSE /\ got' = Append(got, m.req) /\ want' = want - 1
                  /\ UNCHANGED <<pc, delivered, missed, stale, astray>>
    /\ Take
    /\ UNCHANGED <<requestId, subs, target, todo, closingUp, up, server, returned>>

(* Mutation: a recv that is cancelled with a message in its hands.         *)
AfterCancelLossy == IF down = <<>> THEN down ELSE Tail(down)
AfterCancel == down

(* asyncio.wait_for cancels recv, which leaves the queue as it is; the     *)
(* notifications collected so far are lost with the frame.                 *)
ReceiveTimeout ==
    /\ pc = "receiving" /\ ~Broken
    /\ pc' = "ready" /\ got' = <<>> /\ missed' = missed \cup Range(got)
    /\ down' = AfterCancel
    /\ UNCHANGED <<requestId, subs, target, todo, closingUp, want, up, server,
                   delivered, stale, astray, returned>>

(* recv raises ConnectionClosed; only _unsubscribe swallows it.            *)
ConnectionClosed ==
    /\ pc \in {"subscribing", "receiving"} /\ Broken
    /\ pc' = "ready" /\ got' = <<>> /\ missed' = missed \cup Range(got)
    /\ UNCHANGED <<requestId, subs, target, todo, closingUp, want, up, down, server,
                   delivered, stale, astray, returned>>

(* Mutations: only an acknowledged subscription is forgotten; none is.     *)
ForgetIfTrue(s, answer) == IF answer THEN subs \ {s} ELSE subs
ForgetNone(s, answer) == subs
Forget(s, answer) == subs \ {s}

(* The end of _unsubscribe, and the return to its caller.                  *)
GiveUp(s, answer) ==
    /\ subs' = Forget(s, answer)
    /\ pc' = IF closingUp THEN "closing" ELSE "ready"

StartUnsubscribe(s) ==
    /\ target' = s
    /\ IF alive
         THEN /\ Send("unsub", s) /\ pc' = "unsubscribing"
              /\ UNCHANGED subs
         ELSE /\ requestId' = requestId + 1 /\ GiveUp(s, FALSE) /\ UNCHANGED up

(* An id that is not in the table is answered False without a request.     *)
Unsubscribe(s) ==
    /\ pc = "ready" /\ s \in subs /\ requestId < MaxRequests
    /\ StartUnsubscribe(s)
    /\ UNCHANGED <<todo, closingUp, want, got, down, server, history>>

(* bool(message.get("result", False)) of whatever message comes next.      *)
Answer(m) == m.type \in {"ack", "unack"} /\ m.val # 0

UnsubscribeReply ==
    /\ pc = "unsubscribing" /\ down # <<>>
    /\ LET m == Head(down) IN
         /\ Take /\ Miss(m) /\ Desync(m) /\ GiveUp(target, Answer(m))
    /\ UNCHANGED <<requestId, target, todo, closingUp, want, got, up, server,
                   delivered, astray, returned>>

(* Mutation: the 5 second limit applies to unsubscribe only.               *)
ImpatientCaller == ~closingUp
Impatient == TRUE

UnsubscribeTimeout ==
    /\ pc = "unsubscribing" /\ (Impatient \/ Broken)
    /\ GiveUp(target, FALSE)
    /\ stale' = stale + 1
    /\ UNCHANGED <<requestId, target, todo, closingUp, want, got, up, down, server,
                   delivered, missed, astray, returned>>

Close ==
    /\ pc = "ready"
    /\ pc' = "closing" /\ todo' = subs /\ closingUp' = TRUE
    /\ UNCHANGED <<requestId, subs, target, want, got, up, down, server, history>>

CloseNext ==
    /\ pc = "closing" /\ \E s \in todo : StartUnsubscribe(s) /\ todo' = todo \ {s}
    /\ UNCHANGED <<closingUp, want, got, down, server, history>>

(* _conn.close(): the server drops what belongs to the connection.         *)
CloseEnd ==
    /\ pc = "closing" /\ todo = {}
    /\ pc' = "closed" /\ alive' = FALSE /\ active' = {} /\ up' = <<>> /\ down' = <<>>
    /\ UNCHANGED <<requestId, subs, target, todo, closingUp, want, got,
                   nextSub, notes, owner, history>>

-----------------------------------------------------------------------------
(* The server.                                                             *)

Push(m) == down' = Append(down, m)

Handle ==
    /\ alive /\ up # <<>>
    /\ up' = Tail(up)
    /\ LET r == Head(up) IN
         \/ /\ r.op = "sub"
            /\ active' = active \cup {nextSub} /\ nextSub' = nextSub + 1
            /\ owner' = [owner EXCEPT ![nextSub] = r.req]
            /\ Push(Message("ack", r.req, nextSub))
         \/ /\ r.op = "sub" /\ Push(Message("error", r.req, 0))
            /\ UNCHANGED <<active, nextSub, owner>>
         \/ /\ r.op = "unsub" /\ r.sub \in active
            /\ active' = active \ {r.sub} /\ Push(Message("unack", r.req, 1))
            /\ UNCHANGED <<nextSub, owner>>
         \/ /\ r.op = "unsub" /\ r.sub \notin active
            /\ Push(Message("error", r.req, 0)) /\ UNCHANGED <<active, nextSub, owner>>
    /\ UNCHANGED <<client, alive, notes, history>>

Notify ==
    /\ alive /\ notes < MaxNotes
    /\ \E s \in active : Push(Message("note", notes + 1, s))
    /\ notes' = notes + 1
    /\ UNCHANGED <<client, up, alive, active, nextSub, owner, history>>

Break ==
    /\ alive /\ alive' = FALSE /\ active' = {} /\ up' = <<>>
    /\ UNCHANGED <<client, down, nextSub, notes, owner, history>>

Finished == pc = "closed" /\ UNCHANGED vars

-----------------------------------------------------------------------------
Next ==
    \/ Subscribe \/ SubscribeReply
    \/ Receive \/ ReceiveMessage \/ ReceiveTimeout \/ ConnectionClosed
    \/ \E s \in subs : Unsubscribe(s)
    \/ UnsubscribeReply \/ UnsubscribeTimeout
    \/ Close \/ CloseNext \/ CloseEnd
    \/ Handle \/ Notify \/ Break
    \/ Finished

(* The coroutine runs when it can and its timers fire.  Nothing is assumed *)
(* of the server.                                                          *)
Fairness ==
    WF_vars(UnsubscribeReply \/ UnsubscribeTimeout \/ CloseNext \/ CloseEnd)

Spec == Init /\ [][Next]_vars
FairSpec == Spec /\ Fairness
-----------------------------------------------------------------------------
(* Properties.                                                             *)

AnswersIn(q) == {i \in DOMAIN q : q[i].type # "note"}
NotesIn(q) == {m.req : m \in {x \in Range(q) : x.type = "note"}}
Awaiting == IF pc \in {"subscribing", "unsubscribing"} THEN 1 ELSE 0

(* The variables have their types, and a closed client has forgotten every *)
(* subscription.                                                           *)
TypeOK ==
    /\ pc \in {"ready", "subscribing", "receiving", "unsubscribing", "closing", "closed"}
    /\ requestId \in Nat /\ target \in Nat /\ want \in Nat
    /\ stale \in Nat /\ astray \in Nat
    /\ subs \subseteq Nat /\ todo \subseteq subs
    /\ closingUp \in BOOLEAN /\ alive \in BOOLEAN
    /\ active \subseteq SubIds /\ nextSub \in Nat /\ notes \in 0..MaxNotes
    /\ \A i \in DOMAIN down : down[i].type \in Types
    /\ pc = "closed" => subs = {}

(* On a live connection the answers under way are the one the client waits *)
(* for and those it has walked away from: each note taken for an answer,   *)
(* and each answer not awaited for, leaves exactly one behind, which a     *)
(* later call will meet.                                                   *)
AnswersAccounted ==
    alive => Len(up) + Cardinality(AnswersIn(down)) = stale + Awaiting

(* As long as no answer has been left behind, and none was since read in   *)
(* the place of a notification, a client between two calls knows exactly   *)
(* the subscriptions the server has, and every subscribe returned the id   *)
(* the server created for it.                                              *)
InStep ==
    alive /\ pc = "ready" /\ stale = 0 /\ astray = 0 =>
        /\ subs = active
        /\ \A r \in returned : r[2] \in SubIds /\ owner[r[2]] = r[1]

(* Notifications reach the caller in the order sent, and one that did not  *)
(* was taken for an answer or was collected by a recv_notifications that   *)
(* failed: none vanishes, none is delivered twice, a timeout loses none    *)
(* that it has not collected.                                              *)
NoSilentLoss ==
    /\ \A i, j \in DOMAIN delivered : i < j => delivered[i] < delivered[j]
    /\ Range(delivered) \cap missed = {}
    /\ pc # "closed" =>
          1..notes = Range(delivered) \cup missed \cup Range(got) \cup NotesIn(down)

(* close() comes to an end, even if the server never answers again.        *)
CloseEnds == pc = "closing" ~> pc = "closed"
=============================================================================
