------------------------------- MODULE RpcProofs -------------------------------
(***************************************************************************)
(* The RPC client, the instrumented client around it and the comparison of *)
(* two nodes, for any number of concurrent calls, any retry budget and any *)
(* batch size.  First RpcClient on its own: types, retries, the            *)
(* distinctness of the ids, the order of the responses of a batch, the     *)
(* number of steps of a call.  Then InstrumentedRpc: its interceptors      *)
(* change nothing of the client, and their tables count every request      *)
(* once, for any number of methods and any cap.  Last Comparison: what the *)
(* recursion of deep_compare finds in values of any depth, and the         *)
(* verdicts of compare_many.                                               *)
(***************************************************************************)
EXTENDS InstrumentedRpc, Comparison, FiniteSetTheorems, WellFoundedInduction, TLAPS

(* Where attempt a of call c stands: on its way, or with the server.       *)
AtServer(c, a) == <<c, a>> \in inflight \/ a \in executed[c]

(* The server meets an attempt at most once, never one not sent yet, and   *)
(* an attempt that was refused is over for the server.                     *)
ServerSide(c) ==
    /\ \A a \in Attempts : AtServer(c, a) => pc[c] # "idle" /\ a <= attempt[c]
    /\ \A a \in Attempts : ~(<<c, a>> \in inflight /\ a \in executed[c])
    /\ \A a \in refused[c] : ~AtServer(c, a)
    /\ pc[c] = "post" /\ reply[c].what = "retryable" => ~AtServer(c, attempt[c])

(* Every attempt before the current one ended in exactly one way; the      *)
(* current one has ended when the call sleeps and has not while it waits.  *)
AttemptsEnded(c) ==
    /\ \A a \in Attempts : a < attempt[c] => (a \in lost[c] <=> a \notin refused[c])
    /\ \A a \in Attempts : a > attempt[c] => a \notin lost[c] /\ a \notin refused[c]
    /\ pc[c] \in {"idle", "post"} => attempt[c] \notin lost[c] /\ attempt[c] \notin refused[c]
    /\ pc[c] = "sleep" => (attempt[c] \in lost[c] <=> attempt[c] \notin refused[c])

(* Only requests are retried, and only within the budget.                  *)
Budget(c) ==
    /\ pc[c] = "idle" => attempt[c] = 0
    /\ pc[c] = "sleep" => attempt[c] < MaxRetries /\ kind[c] # "batch"
    /\ kind[c] = "batch" => attempt[c] = 0
    /\ outcome[c] \in {"gave_up", "busy_error"} /\ kind[c] # "batch" => attempt[c] = MaxRetries
    /\ outcome[c] = "gave_up" => attempt[c] \in lost[c]

IInv == TypeOK /\ \A c \in Calls : ServerSide(c) /\ AttemptsEnded(c) /\ Budget(c)

(* No call has begun: the initial states satisfy the invariant.           *)
LEMMA InitInv == Init => IInv
  <1> SUFFICES ASSUME Init PROVE IInv
    OBVIOUS
  <1>1. TypeOK
    <2>1. 0 \in Attempts
      BY RpcAssumption DEF RpcAssumption, Attempts
    <2>2. ids \in [Calls -> Seq(Nat)]
      BY DEF Init
    <2>3. DOMAIN reply = Calls /\ \A c \in Calls : reply[c].what \in Whats \cup {"none"}
      BY DEF Init, Waiting
    <2>4. \A c \in Calls : pc[c] = "done" <=> outcome[c] # "none"
      BY DEF Init
    <2> QED
      BY <2>1, <2>2, <2>3, <2>4 DEF Init, TypeOK, Kinds, Outcomes
  <1>2. ASSUME NEW c \in Calls PROVE ServerSide(c) /\ AttemptsEnded(c) /\ Budget(c)
    BY RpcAssumption
       DEF RpcAssumption, Init, ServerSide, AttemptsEnded, Budget, AtServer, Attempts, Waiting
  <1> QED
    BY <1>1, <1>2 DEF IInv

(* A step of one call, by its coroutine or by the server.                  *)
Own(c) == ClientStep(c) \/ ServerStep(c)

Untouched(d) ==
    /\ pc'[d] = pc[d] /\ kind'[d] = kind[d] /\ attempt'[d] = attempt[d]
    /\ reply'[d] = reply[d] /\ lost'[d] = lost[d] /\ refused'[d] = refused[d]
    /\ outcome'[d] = outcome[d] /\ executed'[d] = executed[d]
    /\ \A a \in Attempts : <<d, a>> \in inflight' <=> <<d, a>> \in inflight

(* A step of one call does not touch another.                              *)
LEMMA OwnFrame ==
    ASSUME TypeOK, NEW c \in Calls, Own(c), NEW d \in Calls, d # c
    PROVE  Untouched(d)
  <1> USE DEF TypeOK, Untouched
  <1>1. CASE Call(c)
    BY <1>1 DEF Call, Transmit, End
  <1>2. CASE TransportError(c) \/ OtherError(c) \/ Cancel(c) \/ Refused(c) \/ Return(c)
    BY <1>2 DEF TransportError, OtherError, Cancel, Refused, Return, End
  <1>3. CASE Backoff(c)
    BY <1>3 DEF Backoff, Transmit, End
  <1>4. ASSUME NEW a \in Attempts, Execute(c, a) \/ Refuse(c, a) \/ Drop(c, a)
        PROVE  Untouched(d)
    BY <1>4 DEF Execute, Refuse, Drop, Respond, client
  <1> QED
    BY <1>1, <1>2, <1>3, <1>4 DEF Own, ClientStep, ServerStep

(* What is not touched stays as the invariant has it.                      *)
LEMMA UntouchedInv ==
    ASSUME TypeOK, NEW d \in Calls, ServerSide(d), AttemptsEnded(d), Budget(d), Untouched(d)
    PROVE  ServerSide(d)' /\ AttemptsEnded(d)' /\ Budget(d)'
  BY DEF TypeOK, Untouched, ServerSide, AttemptsEnded, Budget, AtServer

(* The types client.post sets.                                             *)
LEMMA TransmitType ==
    ASSUME TypeOK, NEW c \in Calls, NEW a \in Attempts, pc[c] # "done", Transmit(c, a)
    PROVE  /\ pc' \in [Calls -> {"idle", "post", "sleep", "done"}]
           /\ outcome' \in [Calls -> Outcomes]
           /\ inflight' \subseteq Calls \X Attempts
           /\ \A d \in Calls : pc'[d] = "done" <=> outcome'[d] # "none"
           /\ DOMAIN reply' = Calls
           /\ \A d \in Calls : reply'[d].what \in Whats \cup {"none"}
  <1>1. DOMAIN reply' = Calls /\ \A d \in Calls : reply'[d].what \in Whats \cup {"none"}
    BY DEF TypeOK, Transmit, Waiting
  <1>2. CASE closed
    <2>1. /\ pc' = [pc EXCEPT ![c] = "done"] /\ outcome' = [outcome EXCEPT ![c] = "escaped"]
          /\ inflight' = inflight
      BY <1>2 DEF Transmit, End
    <2>2. outcome' \in [Calls -> Outcomes]
      BY <2>1 DEF TypeOK, Outcomes
    <2>3. \A d \in Calls : pc'[d] = "done" <=> outcome'[d] # "none"
      BY <2>1 DEF TypeOK
    <2> QED
      BY <1>1, <2>1, <2>2, <2>3 DEF TypeOK
  <1>3. CASE ~closed
    <2>1. /\ pc' = [pc EXCEPT ![c] = "post"] /\ outcome' = outcome
          /\ inflight' = inflight \cup {<<c, a>>}
      BY <1>3 DEF Transmit
    <2>2. inflight' \subseteq Calls \X Attempts
      BY <2>1 DEF TypeOK
    <2>3. \A d \in Calls : pc'[d] = "done" <=> outcome'[d] # "none"
      BY <2>1 DEF TypeOK
    <2> QED
      BY <1>1, <2>1, <2>2, <2>3 DEF TypeOK
  <1> QED
    BY <1>2, <1>3 DEF TypeOK

(* The types the server sets.                                              *)
LEMMA ServerType ==
    ASSUME TypeOK, NEW c \in Calls, NEW a \in Attempts,
           Execute(c, a) \/ Refuse(c, a) \/ Drop(c, a)
    PROVE  TypeOK'
  <1>1. CASE Execute(c, a)
    <2>1. PICK what \in {"result", "fatal"}, order \in Orders(c) :
             Respond(c, a, Answer(what, order))
      BY <1>1 DEF Execute
    <2>2. DOMAIN reply' = Calls /\ \A d \in Calls : reply'[d].what \in Whats \cup {"none"}
      BY <2>1 DEF TypeOK, Respond, Answer, Whats
    <2> QED
      BY <1>1, <2>2 DEF TypeOK, Execute, client
  <1>2. CASE Refuse(c, a)
    <2>1. PICK what \in Whats \ {"result"} : Respond(c, a, Answer(what, <<>>))
      BY <1>2 DEF Refuse
    <2>2. DOMAIN reply' = Calls /\ \A d \in Calls : reply'[d].what \in Whats \cup {"none"}
      BY <2>1 DEF TypeOK, Respond, Answer
    <2> QED
      BY <1>2, <2>2 DEF TypeOK, Refuse, client
  <1>3. CASE Drop(c, a)
    BY <1>3 DEF TypeOK, Drop, client
  <1> QED
    BY <1>1, <1>2, <1>3

(* A step of one call keeps the types.                                     *)
LEMMA OwnType ==
    ASSUME IInv, NEW c \in Calls, Own(c)
    PROVE  TypeOK'
  <1> USE RpcAssumption DEF RpcAssumption, IInv, TypeOK, Budget, Attempts
  <1>1. CASE Call(c)
    <2>1. PICK k \in Kinds : LET n == IF k = "batch" THEN BatchSize ELSE 1 IN
             /\ kind' = [kind EXCEPT ![c] = k]
             /\ ids' = [ids EXCEPT ![c] = NewIds(n)]
             /\ requestId' = requestId + n
      BY <1>1 DEF Call
    <2> DEFINE n == IF k = "batch" THEN BatchSize ELSE 1
    <2>2. n \in Nat /\ NewIds(n) \in Seq(Nat)
      <3>1. n \in Nat
        OBVIOUS
      <3>2. \A i \in 1..n : requestId + i \in Nat
        BY <3>1
      <3> HIDE DEF n
      <3>3. NewIds(n) \in [1..n -> Nat]
        BY <3>2 DEF NewIds
      <3> QED
        BY <3>1, <3>3
    <2>3. requestId' \in Nat /\ kind' \in [Calls -> Kinds] /\ ids' \in [Calls -> Seq(Nat)]
      <3>1. /\ kind' = [kind EXCEPT ![c] = k]
            /\ ids' = [ids EXCEPT ![c] = NewIds(n)]
            /\ requestId' = requestId + n
        BY <2>1
      <3> HIDE DEF n
      <3> QED
        BY <2>2, <3>1
    <2>4. 0 \in Attempts /\ Transmit(c, 0) /\ pc[c] # "done"
      BY <1>1 DEF Call
    <2> QED
      BY <1>1, <2>3, <2>4, TransmitType DEF Call
  <1>2. CASE TransportError(c)
    <2>1. lost' \in [Calls -> SUBSET Attempts]
      BY <1>2 DEF TransportError
    <2>2. CASE pc' = [pc EXCEPT ![c] = "sleep"] /\ UNCHANGED outcome
      BY <1>2, <2>1, <2>2 DEF TransportError
    <2>3. CASE End(c, "escaped")
      BY <1>2, <2>1, <2>3 DEF TransportError, End, Outcomes
    <2>4. CASE End(c, "gave_up")
      BY <1>2, <2>1, <2>4 DEF TransportError, End, Outcomes
    <2> QED
      BY <1>2, <2>2, <2>3, <2>4 DEF TransportError
  <1>3. CASE OtherError(c) \/ Cancel(c)
    <2>1. CASE OtherError(c)
      BY <2>1 DEF OtherError, End, Outcomes
    <2>2. CASE Cancel(c)
      BY <2>2 DEF Cancel, End, Outcomes
    <2> QED
      BY <1>3, <2>1, <2>2
  <1>4. CASE Refused(c)
    BY <1>4 DEF Refused
  <1>5. CASE Backoff(c)
    <2>1. attempt' \in [Calls -> Attempts] /\ attempt[c] + 1 \in Attempts
      BY <1>5 DEF Backoff, NextAttempt
    <2>2. Transmit(c, attempt[c] + 1) /\ pc[c] # "done"
      BY <1>5 DEF Backoff, NextAttempt
    <2> QED
      BY <1>5, <2>1, <2>2, TransmitType DEF Backoff
  <1>6. CASE Return(c)
    <2>1. Verdict(reply[c].what) \in Outcomes \ {"none"}
      BY <1>6 DEF Return, Verdict, Whats, Outcomes
    <2> QED
      BY <1>6, <2>1 DEF Return, End
  <1>7. ASSUME NEW a \in Attempts, Execute(c, a) \/ Refuse(c, a) \/ Drop(c, a)
        PROVE  TypeOK'
    BY <1>7, ServerType
  <1> QED
    BY <1>1, <1>2, <1>3, <1>4, <1>5, <1>6, <1>7 DEF Own, ClientStep, ServerStep

(* What the invariant says of one call, with the types it involves.        *)
LEMMA CallFacts ==
    ASSUME IInv, NEW c \in Calls
    PROVE  /\ MaxRetries \in Nat /\ attempt[c] \in Nat /\ attempt[c] <= MaxRetries
           /\ attempt[c] \in Attempts /\ \A a \in Attempts : a \in Nat
           /\ lost[c] \subseteq Attempts /\ refused[c] \subseteq Attempts
           /\ executed[c] \subseteq Attempts
           /\ ServerSide(c) /\ AttemptsEnded(c) /\ Budget(c)
           /\ pc[c] = "done" <=> outcome[c] # "none"
  BY RpcAssumption DEF RpcAssumption, IInv, TypeOK, Attempts

(* A new attempt, the first of a call or the next one after a sleep, is    *)
(* new to the server.                                                      *)
LEMMA TransmitServer ==
    ASSUME TypeOK, NEW c \in Calls, NEW a \in Attempts, Transmit(c, a), ServerSide(c),
           pc[c] = "idle" \/ a > attempt[c], attempt'[c] = a, executed' = executed,
           refused' = refused, a \notin refused[c], \A b \in Attempts : b \in Nat
    PROVE  ServerSide(c)'
  <1>1. /\ pc'[c] # "idle" /\ reply'[c].what = "none"
        /\ \A b \in Attempts : <<c, b>> \in inflight' => <<c, b>> \in inflight \/ b = a
    BY DEF TypeOK, Transmit, End, Waiting
  <1>2. attempt[c] \in Attempts /\ refused[c] \subseteq Attempts
    BY DEF TypeOK
  <1>3. ~AtServer(c, a)
    BY <1>2 DEF ServerSide
  <1>4. \A b \in Attempts : AtServer(c, b)' => b = a \/ AtServer(c, b)
    BY <1>1 DEF AtServer
  <1>5. \A b \in Attempts : AtServer(c, b)' => b <= a
    BY <1>2, <1>4 DEF ServerSide
  <1>6. \A b \in Attempts : ~(<<c, b>> \in inflight' /\ b \in executed'[c])
    BY <1>1, <1>3 DEF ServerSide, AtServer
  <1>7. \A b \in refused[c] : ~AtServer(c, b)'
    BY <1>2, <1>4 DEF ServerSide
  <1> QED
    BY <1>1, <1>5, <1>6, <1>7 DEF ServerSide

(* A step of one call keeps what the invariant says of that call.          *)
LEMMA OwnInv ==
    ASSUME IInv, NEW c \in Calls, Own(c)
    PROVE  ServerSide(c)' /\ AttemptsEnded(c)' /\ Budget(c)'
  <1> USE CallFacts
  <1>0. TypeOK
    BY DEF IInv
  <1>1. CASE Call(c)
    <2>1. /\ Transmit(c, 0) /\ attempt' = attempt /\ lost' = lost /\ refused' = refused
          /\ executed' = executed /\ pc[c] = "idle" /\ 0 \in Attempts /\ attempt[c] = 0
      BY <1>1, RpcAssumption DEF Call, Budget, RpcAssumption, Attempts
    <2>2. pc'[c] \in {"post", "done"} /\ outcome'[c] \in {"none", "escaped"}
      BY <1>0, <2>1 DEF Transmit, End, TypeOK
    <2>3. AttemptsEnded(c)'
      BY <2>1, <2>2 DEF AttemptsEnded
    <2>4. Budget(c)'
      BY <2>1, <2>2 DEF Budget
    <2>5. ServerSide(c)'
      BY <1>0, <2>1, TransmitServer DEF AttemptsEnded
    <2> QED
      BY <2>3, <2>4, <2>5
  <1>2. CASE TransportError(c)
    <2>1. /\ attempt' = attempt /\ refused' = refused /\ executed' = executed
          /\ lost'[c] = lost[c] \cup {attempt[c]} /\ kind' = kind
          /\ inflight' = inflight /\ reply' = reply /\ pc[c] = "post"
          /\ \/ pc'[c] = "sleep" /\ attempt[c] < MaxRetries /\ kind[c] # "batch"
                /\ outcome'[c] = "none"
             \/ pc'[c] = "done" /\ outcome'[c] \in {"escaped", "gave_up"}
                /\ (kind[c] = "batch" => outcome'[c] = "escaped")
                /\ (kind[c] # "batch" => attempt[c] = MaxRetries)
      BY <1>0, <1>2 DEF TransportError, End, MayRetry, TypeOK
    <2>2. AttemptsEnded(c)'
      BY <2>1 DEF AttemptsEnded
    <2>3. Budget(c)'
      BY <2>1 DEF Budget
    <2>4. ServerSide(c)'
      BY <2>1 DEF ServerSide, AtServer
    <2> QED
      BY <2>2, <2>3, <2>4
  <1>3. CASE OtherError(c) \/ Cancel(c)
    <2>1. /\ attempt' = attempt /\ refused' = refused /\ executed' = executed
          /\ lost' = lost /\ kind' = kind /\ inflight' = inflight /\ reply' = reply
          /\ pc[c] \in {"post", "sleep"} /\ pc'[c] = "done"
          /\ outcome'[c] \in {"escaped", "cancelled"}
      BY <1>0, <1>3 DEF OtherError, Cancel, End, TypeOK
    <2> QED
      BY <2>1 DEF AttemptsEnded, Budget, ServerSide, AtServer
  <1>4. CASE Refused(c)
    <2>1. /\ attempt' = attempt /\ lost' = lost /\ outcome' = outcome /\ kind' = kind
          /\ reply' = reply /\ inflight' = inflight /\ executed' = executed
          /\ refused'[c] = refused[c] \cup {attempt[c]}
          /\ pc[c] = "post" /\ pc'[c] = "sleep" /\ reply[c].what = "retryable"
          /\ kind[c] # "batch" /\ attempt[c] < MaxRetries
      BY <1>0, <1>4 DEF Refused, Retryable, MayRetry, TypeOK
    <2>2. AttemptsEnded(c)'
      BY <2>1 DEF AttemptsEnded
    <2>3. Budget(c)'
      BY <2>1 DEF Budget
    <2>4. ServerSide(c)'
      BY <2>1 DEF ServerSide, AtServer
    <2> QED
      BY <2>2, <2>3, <2>4
  <1>5. CASE Backoff(c)
    <2>1. /\ attempt'[c] = attempt[c] + 1 /\ lost' = lost /\ refused' = refused
          /\ executed' = executed /\ kind' = kind /\ pc[c] = "sleep"
          /\ Transmit(c, attempt[c] + 1)
          /\ attempt[c] < MaxRetries /\ kind[c] # "batch"
      BY <1>0, <1>5 DEF Backoff, NextAttempt, Budget, TypeOK
    <2>2. attempt[c] + 1 \in Attempts
      BY <2>1 DEF Attempts
    <2>3. pc'[c] \in {"post", "done"} /\ outcome'[c] \in {"none", "escaped"}
      BY <1>0, <2>1 DEF Transmit, End, TypeOK
    <2>4. \A b \in Attempts : b < attempt[c] + 1 => (b \in lost[c] <=> b \notin refused[c])
      <3>1. \A b \in Attempts : b < attempt[c] + 1 => b < attempt[c] \/ b = attempt[c]
        OBVIOUS
      <3> QED
        BY <2>1, <3>1 DEF AttemptsEnded
    <2>5. \A b \in Attempts : b >= attempt[c] + 1 => b \notin lost[c] /\ b \notin refused[c]
      BY DEF AttemptsEnded
    <2>6. AttemptsEnded(c)'
      BY <2>1, <2>2, <2>3, <2>4, <2>5 DEF AttemptsEnded
    <2>7. Budget(c)'
      BY <2>1, <2>3 DEF Budget
    <2>8. ServerSide(c)'
      BY <1>0, <2>1, <2>2, <2>5, TransmitServer
    <2> QED
      BY <2>6, <2>7, <2>8
  <1>6. CASE Return(c)
    <2>1. /\ attempt' = attempt /\ lost' = lost /\ refused' = refused /\ executed' = executed
          /\ inflight' = inflight /\ kind' = kind /\ reply' = reply
          /\ pc[c] = "post" /\ pc'[c] = "done" /\ outcome'[c] = Verdict(reply[c].what)
          /\ reply[c].what \in Whats
      BY <1>0, <1>6 DEF Return, End, TypeOK
    <2>2. /\ outcome'[c] # "gave_up"
          /\ outcome'[c] = "busy_error" => reply[c].what = "retryable"
      BY <2>1 DEF Verdict, Whats
    <2>3. outcome'[c] = "busy_error" /\ kind[c] # "batch" => attempt[c] = MaxRetries
      BY <1>6, <2>2 DEF Return, Retryable, MayRetry
    <2> QED
      BY <2>1, <2>2, <2>3 DEF AttemptsEnded, Budget, ServerSide, AtServer
  <1>7. ASSUME NEW a \in Attempts, Execute(c, a) \/ Refuse(c, a) \/ Drop(c, a)
        PROVE  ServerSide(c)' /\ AttemptsEnded(c)' /\ Budget(c)'
    <2>1. /\ attempt' = attempt /\ lost' = lost /\ refused' = refused /\ kind' = kind
          /\ pc' = pc /\ outcome' = outcome
          /\ <<c, a>> \in inflight /\ inflight' = inflight \ {<<c, a>>}
          /\ \/ executed' = executed
             \/ executed'[c] = executed[c] \cup {a}
      BY <1>0, <1>7 DEF Execute, Refuse, Drop, client, TypeOK
    <2>2. AttemptsEnded(c)' /\ Budget(c)'
      BY <2>1 DEF AttemptsEnded, Budget
    <2>3. \A b \in Attempts : AtServer(c, b)' => AtServer(c, b)
      BY <2>1 DEF AtServer
    <2>4. \A b \in Attempts : ~(<<c, b>> \in inflight' /\ b \in executed'[c])
      BY <2>1 DEF ServerSide
    <2>5. pc[c] = "post" /\ reply'[c].what = "retryable" => ~AtServer(c, attempt[c])'
      <3>1. CASE Execute(c, a)
        <4>1. PICK what \in {"result", "fatal"}, order \in Orders(c) :
                 Respond(c, a, Answer(what, order))
          BY <3>1 DEF Execute
        <4>2. pc[c] = "post" /\ reply'[c].what = "retryable" => reply' = reply
          BY <1>0, <4>1 DEF Respond, Answer, TypeOK
        <4> QED
          BY <2>1, <2>3, <4>2 DEF ServerSide
      <3>2. CASE Refuse(c, a)
        <4>1. PICK what \in Whats \ {"result"} : Respond(c, a, Answer(what, <<>>))
          BY <3>2 DEF Refuse
        <4>2. executed' = executed
          BY <3>2 DEF Refuse
        <4>3. CASE Listens(c, a)
          BY <2>1, <4>2, <4>3 DEF Listens, ServerSide, AtServer
        <4>4. CASE ~Listens(c, a)
          BY <2>1, <2>3, <4>1, <4>4 DEF Respond, ServerSide
        <4> QED
          BY <4>3, <4>4
      <3>3. CASE Drop(c, a)
        BY <2>1, <2>3, <3>3 DEF Drop, ServerSide
      <3> QED
        BY <1>7, <3>1, <3>2, <3>3
    <2>6. ServerSide(c)'
      BY <2>1, <2>3, <2>4, <2>5 DEF ServerSide
    <2> QED
      BY <2>2, <2>6
  <1> QED
    BY <1>1, <1>2, <1>3, <1>4, <1>5, <1>6, <1>7 DEF Own, ClientStep, ServerStep

(* Every step keeps the invariant; closing the client disturbs no part.    *)
LEMMA NextInv == IInv /\ [Next]_vars => IInv'
  <1> SUFFICES ASSUME IInv, [Next]_vars PROVE IInv'
    OBVIOUS
  <1>1. ASSUME NEW c \in Calls, Own(c) PROVE IInv'
    <2>1. TypeOK'
      BY <1>1, OwnType
    <2>2. ASSUME NEW d \in Calls PROVE ServerSide(d)' /\ AttemptsEnded(d)' /\ Budget(d)'
      <3>1. CASE d = c
        BY <1>1, <3>1, OwnInv
      <3>2. CASE d # c
        BY <1>1, <3>2, OwnFrame, UntouchedInv DEF IInv
      <3> QED
        BY <3>1, <3>2
    <2> QED
      BY <2>1, <2>2 DEF IInv
  <1>2. CASE Close
    <2>1. TypeOK'
      BY <1>2 DEF Close, IInv, TypeOK
    <2>2. ASSUME NEW d \in Calls PROVE ServerSide(d)' /\ AttemptsEnded(d)' /\ Budget(d)'
      BY <1>2 DEF Close, IInv, ServerSide, AttemptsEnded, Budget, AtServer
    <2> QED
      BY <2>1, <2>2 DEF IInv
  <1>3. CASE UNCHANGED vars
    <2>1. TypeOK'
      BY <1>3 DEF vars, client, IInv, TypeOK
    <2>2. ASSUME NEW d \in Calls PROVE ServerSide(d)' /\ AttemptsEnded(d)' /\ Budget(d)'
      BY <1>3 DEF vars, client, IInv, ServerSide, AttemptsEnded, Budget, AtServer
    <2> QED
      BY <2>1, <2>2 DEF IInv
  <1> QED
    BY <1>1, <1>2, <1>3 DEF Next, Own, Finished

(* The strengthened invariant holds in every reachable state.              *)
THEOREM Invariance == Spec => []IInv
  BY InitInv, NextInv, PTL DEF Spec

(* The client keeps its types, and its attempts stay within the policy.    *)
THEOREM TypeCorrect == Spec => []TypeOK
  <1>1. IInv => TypeOK
    BY DEF IInv
  <1> QED
    BY <1>1, Invariance, PTL

(* A request is executed again only if the answer of an execution was lost,*)
(* and a batch never.                                                      *)
THEOREM RetriesAreJustified == Spec => []ReexecutedOnlyAfterLoss
  <1>1. ASSUME IInv PROVE ReexecutedOnlyAfterLoss
    <2>1. ASSUME NEW c \in Calls, NEW a \in executed[c], a < attempt[c]
          PROVE  a \in lost[c]
      <3>1. a \in Attempts /\ a \notin refused[c]
        BY <1>1, <2>1, CallFacts DEF ServerSide, AtServer
      <3> QED
        BY <1>1, <2>1, <3>1, CallFacts DEF AttemptsEnded
    <2>2. ASSUME NEW c \in Calls, kind[c] = "batch", NEW a \in executed[c]
          PROVE  a = 0
      <3>1. a \in Attempts /\ a <= attempt[c] /\ attempt[c] = 0
        BY <1>1, <2>2, CallFacts DEF ServerSide, AtServer, Budget
      <3> QED
        BY <3>1 DEF Attempts
    <2> QED
      BY <2>1, <2>2 DEF ReexecutedOnlyAfterLoss
  <1> QED
    BY <1>1, Invariance, PTL

(* The retry budget is spent before a call fails for want of an answer.    *)
THEOREM BudgetIsSpent == Spec => []BudgetSpent
  <1>1. ASSUME IInv PROVE BudgetSpent
    BY <1>1, CallFacts DEF BudgetSpent, Budget, AttemptsEnded
  <1> QED
    BY <1>1, Invariance, PTL

-----------------------------------------------------------------------------
(* The ids in use are those handed out so far, all different.              *)
IdsUsed ==
    /\ requestId \in Nat
    /\ ids \in [Calls -> Seq(Nat)]
    /\ \A c \in Calls : pc[c] = "idle" => ids[c] = <<>>
    /\ \A c \in Calls : \A i \in DOMAIN ids[c] : ids[c][i] <= requestId
    /\ IdsDistinct

(* A call takes the next ids; nothing else touches the counter.            *)
LEMMA IdsStep == TypeOK /\ IdsUsed /\ [Next]_vars => IdsUsed'
  <1> SUFFICES ASSUME TypeOK, IdsUsed, [Next]_vars PROVE IdsUsed'
    OBVIOUS
  <1>1. ASSUME NEW c \in Calls, Call(c) PROVE IdsUsed'
    <2>1. PICK k \in Kinds : LET n == IF k = "batch" THEN BatchSize ELSE 1 IN
             /\ ids' = [ids EXCEPT ![c] = NewIds(n)]
             /\ requestId' = requestId + n
      BY <1>1 DEF Call
    <2>2. PICK n \in Nat : ids' = [ids EXCEPT ![c] = NewIds(n)] /\ requestId' = requestId + n
      BY <2>1, RpcAssumption DEF RpcAssumption
    <2>3. NewIds(n) \in [1..n -> Nat]
      <3>1. \A i \in 1..n : requestId + i \in Nat
        BY DEF IdsUsed
      <3> QED
        BY <3>1 DEF NewIds
    <2>4. ids'[c] = NewIds(n) /\ \A d \in Calls : d # c => ids'[d] = ids[d]
      BY <2>2 DEF IdsUsed
    <2>5. DOMAIN ids'[c] = 1..n /\ \A i \in 1..n : ids'[c][i] = requestId + i
      BY <2>4 DEF NewIds
    <2>6. ids' \in [Calls -> Seq(Nat)] /\ requestId' \in Nat
      BY <2>2, <2>3 DEF IdsUsed
    <2>7. ASSUME NEW d \in Calls, NEW i \in DOMAIN ids'[d] PROVE ids'[d][i] <= requestId'
      <3>1. CASE d = c
        BY <2>2, <2>5, <2>7, <3>1 DEF IdsUsed
      <3>2. CASE d # c
        BY <2>2, <2>4, <2>7, <3>2 DEF IdsUsed
      <3> QED
        BY <3>1, <3>2
    <2>8. IdsDistinct'
      <3> SUFFICES ASSUME NEW d \in Calls, NEW e \in Calls,
                          NEW i \in DOMAIN ids'[d], NEW j \in DOMAIN ids'[e],
                          ids'[d][i] = ids'[e][j]
                   PROVE  d = e /\ i = j
        BY DEF IdsDistinct
      <3>1. CASE d = c /\ e = c
        BY <2>5, <3>1 DEF IdsUsed
      <3>2. CASE d # c /\ e # c
        BY <2>4, <3>2 DEF IdsUsed, IdsDistinct
      <3>3. CASE d = c /\ e # c
        BY <2>4, <2>5, <3>3 DEF IdsUsed
      <3>4. CASE d # c /\ e = c
        BY <2>4, <2>5, <3>4 DEF IdsUsed
      <3> QED
        BY <3>1, <3>2, <3>3, <3>4
    <2>9. \A d \in Calls : pc'[d] = "idle" => ids'[d] = <<>>
      BY <1>1, <2>4 DEF Call, Transmit, End, TypeOK, IdsUsed
    <2> QED
      BY <2>6, <2>7, <2>8, <2>9 DEF IdsUsed
  <1>2. ASSUME UNCHANGED <<requestId, ids>>,
               \A c \in Calls : pc'[c] = "idle" => pc[c] = "idle"
        PROVE  IdsUsed'
    BY <1>2 DEF IdsUsed, IdsDistinct
  <1>3. ASSUME NEW c \in Calls, Own(c), ~Call(c) PROVE IdsUsed'
    <2>1. UNCHANGED <<requestId, ids>>
      BY <1>3 DEF Own, ClientStep, ServerStep, TransportError, OtherError, Cancel, Refused, Backoff, Return, Execute, Refuse,
                  Drop, client
    <2>2. \A d \in Calls : pc'[d] = "idle" => pc[d] = "idle"
      BY <1>3 DEF Own, ClientStep, ServerStep, TransportError, OtherError, Cancel, Refused, Backoff, Return, Execute, Refuse,
                  Drop, client, Transmit, End, TypeOK
    <2> QED
      BY <1>2, <2>1, <2>2
  <1>4. CASE Close \/ UNCHANGED vars
    BY <1>2, <1>4 DEF Close, vars, client
  <1> QED
    BY <1>1, <1>3, <1>4 DEF Next, Own, Finished

(* The ids of concurrent calls, and of one batch, are all different.       *)
THEOREM IdsAreDistinct == Spec => []IdsDistinct
  <1>1. Init => IdsUsed
    BY DEF Init, IdsUsed, IdsDistinct
  <1>2. IdsUsed => IdsDistinct
    BY DEF IdsUsed
  <1> QED
    BY <1>1, <1>2, IdsStep, TypeCorrect, PTL DEF Spec

-----------------------------------------------------------------------------
(* The order of the responses of a batch.                                  *)

(* A set of naturals that is not empty has a least element.                *)
LEMMA LeastElement ==
    ASSUME NEW S \in SUBSET Nat, S # {}
    PROVE  \E n \in S : \A m \in S : n <= m
  <1> DEFINE R == OpToRel(<, Nat)
  <1>1. \A m, n \in Nat : <<m, n>> \in R <=> m < n
    BY DEF OpToRel
  <1>2. IsWellFoundedOn(R, Nat)
    BY NatLessThanWellFounded
  <1> HIDE DEF R
  <1>3. PICK n \in S : \A m \in S : <<m, n>> \notin R
    BY <1>2, WFMin
  <1>4. ASSUME NEW m \in S PROVE n <= m
    <2>1. m \in Nat /\ n \in Nat /\ ~(m < n)
      BY <1>1, <1>3, <1>4
    <2> QED
      BY <2>1
  <1> QED
    BY <1>4

(* Only the identity rearranges 1..n without turning two of them round.    *)
LEMMA OrderedIsIdentity ==
    ASSUME NEW n \in Nat, NEW h \in Bijection(1..n, 1..n),
           \A i, j \in 1..n : i < j => h[i] <= h[j]
    PROVE  \A i \in 1..n : h[i] = i
  <1> DEFINE moved == {i \in 1..n : h[i] # i}
  <1>1. h \in [1..n -> 1..n] /\ \A i, j \in 1..n : h[i] = h[j] => i = j
    BY DEF Bijection, Injection, IsInjective
  <1>2. \A i \in 1..n : \E j \in 1..n : h[j] = i
    BY DEF Bijection, Surjection
  <1>3. ASSUME moved # {} PROVE FALSE
    <2>1. PICK i \in moved : \A j \in moved : i <= j
      <3> moved \in SUBSET Nat
        OBVIOUS
      <3> HIDE DEF moved
      <3> QED
        BY <1>3, LeastElement
    <2>2. \A j \in 1..n : j < i => h[j] = j
      BY <2>1
    <2>3. i \in 1..n /\ h[i] \in 1..n /\ h[i] # i
      BY <1>1, <2>1
    <2>4. h[i] > i
      BY <1>1, <2>2, <2>3
    <2>5. PICK m \in 1..n : h[m] = i
      BY <1>2
    <2>6. m > i
      BY <2>2, <2>3, <2>5
    <2> QED
      BY <2>3, <2>4, <2>5, <2>6
  <1> QED
    BY <1>3

LEMMA SortRestores ==
    ASSUME NEW k \in Nat, NEW n \in Nat, NEW order \in Rearrangements([i \in 1..n |-> k + i])
    PROVE  InIdOrder(order) = [i \in 1..n |-> k + i]
  <1> DEFINE seq == [i \in 1..n |-> k + i]
             Ordered(s) == \A i, j \in DOMAIN s : i < j => s[i] <= s[j]
  <1>1. PICK f \in Bijection(1..n, 1..n) : order = [i \in 1..n |-> k + f[i]]
    <2>1. PICK f \in Bijection(DOMAIN seq, DOMAIN seq) : order = [i \in DOMAIN seq |-> seq[f[i]]]
      BY DEF Rearrangements
    <2>2. DOMAIN seq = 1..n /\ \A i \in 1..n : f[i] \in 1..n
      BY <2>1 DEF Bijection, Injection
    <2> QED
      BY <2>1, <2>2
  <1>2. /\ f \in [1..n -> 1..n] /\ \A i, j \in 1..n : f[i] = f[j] => i = j
        /\ \A i \in 1..n : \E j \in 1..n : f[j] = i
    BY <1>1 DEF Bijection, Injection, Surjection, IsInjective
  <1>3. seq \in Rearrangements(order)
    <2> DEFINE g == [i \in 1..n |-> CHOOSE j \in 1..n : f[j] = i]
    <2>1. \A i \in 1..n : g[i] \in 1..n /\ f[g[i]] = i
      BY <1>2
    <2>2. g \in [1..n -> 1..n]
      BY <2>1
    <2> HIDE DEF g
    <2>3. \A i, j \in 1..n : g[i] = g[j] => i = j
      BY <2>1
    <2>4. \A j \in 1..n : g[f[j]] = j
      BY <1>2, <2>1
    <2>5. g \in Bijection(1..n, 1..n)
      BY <1>2, <2>2, <2>3, <2>4 DEF Bijection, Injection, Surjection, IsInjective
    <2>6. seq = [i \in 1..n |-> order[g[i]]]
      BY <1>1, <2>1
    <2> QED
      BY <1>1, <2>5, <2>6 DEF Rearrangements
  <1>4. Ordered(seq)
    OBVIOUS
  <1>5. ASSUME NEW s \in Rearrangements(order), Ordered(s) PROVE s = seq
    <2>1. PICK g \in Bijection(1..n, 1..n) : s = [i \in 1..n |-> order[g[i]]]
      BY <1>1 DEF Rearrangements
    <2>2. /\ g \in [1..n -> 1..n] /\ \A i, j \in 1..n : g[i] = g[j] => i = j
          /\ \A i \in 1..n : \E j \in 1..n : g[j] = i
      BY <2>1 DEF Bijection, Injection, Surjection, IsInjective
    <2> DEFINE h == [i \in 1..n |-> f[g[i]]]
    <2>3. \A i \in 1..n : h[i] \in 1..n /\ s[i] = k + h[i]
      BY <1>1, <1>2, <2>1, <2>2
    <2>4. h \in [1..n -> 1..n] /\ \A i, j \in 1..n : h[i] = h[j] => i = j
      BY <1>2, <2>2
    <2>5. \A i \in 1..n : \E j \in 1..n : h[j] = i
      BY <1>2, <2>2
    <2>6. h \in Bijection(1..n, 1..n)
      BY <2>4, <2>5 DEF Bijection, Injection, Surjection, IsInjective
    <2> HIDE DEF h
    <2>7. ASSUME NEW i \in 1..n, NEW j \in 1..n, i < j PROVE h[i] <= h[j]
      <3>1. s[i] <= s[j]
        BY <1>5, <2>1, <2>7
      <3> QED
        BY <2>3, <3>1
    <2>8. \A i \in 1..n : h[i] = i
      BY <2>6, <2>7, OrderedIsIdentity
    <2> QED
      BY <2>1, <2>3, <2>8
  <1> HIDE DEF seq
  <1>6. InIdOrder(order) = CHOOSE s \in Rearrangements(order) : Ordered(s)
    BY DEF InIdOrder
  <1> HIDE DEF Ordered
  <1>7. InIdOrder(order) = seq
    BY <1>3, <1>4, <1>5, <1>6
  <1> QED
    BY <1>7 DEF seq

(* The ids of a call are consecutive, what the server answers is a list of *)
(* them, and what the call returns is that list in the order of the ids.   *)
InSequence(c) ==
    /\ \E k, n \in Nat : ids[c] = [i \in 1..n |-> k + i]
    /\ reply[c].order \in {<<>>} \cup Orders(c)
    /\ result[c] \in {<<>>, ids[c]}
    /\ pc[c] = "idle" => result[c] = <<>>

Sequenced == \A c \in Calls : InSequence(c)

(* Sorting what the server answered gives nothing or the ids as they are.  *)
LEMMA SortedReply ==
    ASSUME NEW c \in Calls, InSequence(c)
    PROVE  InIdOrder(reply[c].order) \in {<<>>, ids[c]}
  <1>1. PICK k, n \in Nat : ids[c] = [i \in 1..n |-> k + i]
    BY DEF InSequence
  <1>2. CASE reply[c].order \in Orders(c)
    BY <1>1, <1>2, SortRestores DEF Orders
  <1>3. CASE reply[c].order = <<>>
    <2> DEFINE none == [i \in 1..0 |-> 0 + i]
    <2>1. none = <<>>
      OBVIOUS
    <2>2. none \in Bijection(DOMAIN none, DOMAIN none)
      BY DEF Bijection, Injection, Surjection, IsInjective
    <2>3. none = [i \in DOMAIN none |-> none[none[i]]]
      OBVIOUS
    <2>4. none \in Rearrangements(none)
      BY <2>2, <2>3 DEF Rearrangements
    <2>5. InIdOrder(none) = none
      BY <2>4, SortRestores
    <2> QED
      BY <1>3, <2>1, <2>5
  <1> QED
    BY <1>2, <1>3 DEF InSequence

(* A call takes consecutive ids and has neither answer nor result; a list  *)
(* comes from the server only; Return sorts it.                            *)
LEMMA SequencedStep == TypeOK /\ Sequenced /\ [Next]_vars => Sequenced'
  <1> SUFFICES ASSUME TypeOK, Sequenced, [Next]_vars, NEW d \in Calls
               PROVE  InSequence(d)'
    BY DEF Sequenced
  <1>0. InSequence(d)
    BY DEF Sequenced
  <1>1. ASSUME ids'[d] = ids[d], reply'[d] = reply[d], result'[d] = result[d],
               pc'[d] = "idle" => pc[d] = "idle"
        PROVE  InSequence(d)'
    BY <1>0, <1>1 DEF InSequence, Orders
  <1>2. ASSUME NEW c \in Calls, Call(c) PROVE InSequence(d)'
    <2>1. CASE c # d
      BY <1>1, <1>2, <2>1 DEF Call, Transmit, End, TypeOK
    <2>2. CASE c = d
      <3>1. PICK n \in Nat : ids' = [ids EXCEPT ![d] = NewIds(n)]
        BY <1>2, <2>2, RpcAssumption DEF Call, RpcAssumption
      <3>2. \E k, m \in Nat : ids'[d] = [i \in 1..m |-> k + i]
        BY <3>1 DEF TypeOK, NewIds
      <3>3. reply'[d].order = <<>>
        BY <1>2, <2>2 DEF Call, Transmit, TypeOK, Waiting
      <3>4. result'[d] = <<>>
        BY <1>0, <1>2, <2>2 DEF Call, InSequence
      <3> QED
        BY <3>2, <3>3, <3>4 DEF InSequence
    <2> QED
      BY <2>1, <2>2
  <1>3. ASSUME NEW c \in Calls, TransportError(c) \/ OtherError(c) \/ Cancel(c) \/ Refused(c)
        PROVE  InSequence(d)'
    BY <1>1, <1>3 DEF TransportError, OtherError, Cancel, Refused, End, TypeOK
  <1>4. ASSUME NEW c \in Calls, Backoff(c) PROVE InSequence(d)'
    <2>1. CASE c # d
      BY <1>1, <1>4, <2>1 DEF Backoff, Transmit, End, TypeOK
    <2>2. CASE c = d
      <3>1. reply'[d].order = <<>> /\ pc'[d] # "idle"
        BY <1>4, <2>2 DEF Backoff, Transmit, End, TypeOK, Waiting
      <3>2. ids' = ids /\ result' = result
        BY <1>4 DEF Backoff
      <3> QED
        BY <1>0, <3>1, <3>2 DEF InSequence
    <2> QED
      BY <2>1, <2>2
  <1>5. ASSUME NEW c \in Calls, Return(c) PROVE InSequence(d)'
    <2>1. CASE c # d
      BY <1>1, <1>5, <2>1 DEF Return, End, TypeOK
    <2>2. CASE c = d
      <3>1. result'[d] = InIdOrder(reply[d].order) /\ pc'[d] # "idle"
        BY <1>5, <2>2 DEF Return, End, TypeOK
      <3>2. ids' = ids /\ reply' = reply
        BY <1>5 DEF Return
      <3>3. result'[d] \in {<<>>, ids[d]}
        BY <1>0, <3>1, SortedReply
      <3> QED
        BY <1>0, <3>1, <3>2, <3>3 DEF InSequence, Orders
    <2> QED
      BY <2>1, <2>2
  <1>6. ASSUME NEW c \in Calls, NEW a \in Attempts, Execute(c, a) \/ Refuse(c, a) \/ Drop(c, a)
        PROVE  InSequence(d)'
    <2>1. UNCHANGED <<ids, result, pc>>
      BY <1>6 DEF Execute, Refuse, Drop, client
    <2>2. reply'[d].order \in {<<>>} \cup Orders(d)
      <3>1. ASSUME NEW answer, answer.order \in {<<>>} \cup Orders(c), Respond(c, a, answer)
            PROVE  reply'[d].order \in {<<>>} \cup Orders(d)
        BY <1>0, <3>1 DEF Respond, InSequence, TypeOK
      <3>2. CASE Execute(c, a)
        <4>1. PICK what \in {"result", "fatal"}, order \in Orders(c) :
                 Respond(c, a, Answer(what, order))
          BY <3>2 DEF Execute
        <4> QED
          BY <3>1, <4>1 DEF Answer
      <3>3. CASE Refuse(c, a)
        <4>1. PICK what \in Whats \ {"result"} : Respond(c, a, Answer(what, <<>>))
          BY <3>3 DEF Refuse
        <4> QED
          BY <3>1, <4>1 DEF Answer
      <3>4. CASE Drop(c, a)
        BY <1>0, <3>4 DEF Drop, InSequence
      <3> QED
        BY <1>6, <3>2, <3>3, <3>4
    <2>3. Orders(d)' = Orders(d)
      BY <2>1 DEF Orders
    <2> QED
      BY <1>0, <2>1, <2>2, <2>3 DEF InSequence
  <1>7. CASE Close \/ UNCHANGED vars
    BY <1>1, <1>7 DEF Close, vars, client
  <1> QED
    BY <1>2, <1>3, <1>4, <1>5, <1>6, <1>7 DEF Next, ClientStep, ServerStep, Finished

(* "Returns responses in order." (rpc.py:95), however the server ordered   *)
(* them, for any batch size and whatever calls run beside the batch.       *)
THEOREM BatchReturnsInOrder == Spec => []BatchInOrder
  <1>1. Init => Sequenced
    <2> SUFFICES ASSUME Init, NEW c \in Calls PROVE InSequence(c)
      BY DEF Sequenced
    <2>1. ids[c] = [i \in 1..0 |-> 0 + i]
      BY DEF Init
    <2> QED
      BY <2>1 DEF Init, InSequence, Waiting
  <1>2. Sequenced => BatchInOrder
    BY DEF Sequenced, InSequence, BatchInOrder
  <1> QED
    BY <1>1, <1>2, SequencedStep, TypeCorrect, PTL DEF Spec

-----------------------------------------------------------------------------
(* A call only goes on.                                                    *)

(* The steps the coroutine of c may still take: two for each attempt left, *)
(* an exchange and the backoff before the next one.                        *)
StepsLeft(c) ==
    CASE pc[c] = "idle"  -> 2 * MaxRetries + 3
      [] pc[c] = "post"  -> 2 * (MaxRetries - attempt[c]) + 2
      [] pc[c] = "sleep" -> 2 * (MaxRetries - attempt[c]) + 1
      [] pc[c] = "done"  -> 0

Advances(c) == StepsLeft(c)' < StepsLeft(c)
Rests(c) == pc'[c] = pc[c] /\ attempt'[c] = attempt[c]

(* The measure counts down from what the retry budget allows.              *)
LEMMA StepsBounded ==
    ASSUME IInv, NEW c \in Calls
    PROVE  StepsLeft(c) \in 0 .. 2 * MaxRetries + 3
  <1>1. pc[c] \in {"idle", "post", "sleep", "done"}
    BY DEF IInv, TypeOK
  <1> QED
    BY <1>1, CallFacts DEF StepsLeft

(* A step of the coroutine of c uses one of them up, whichever it is.      *)
LEMMA ClientAdvances ==
    ASSUME IInv, NEW c \in Calls, ClientStep(c)
    PROVE  Advances(c)
  <1> DEFINE left == MaxRetries - attempt[c]
  <1>0. TypeOK /\ MaxRetries \in Nat /\ left \in Nat /\ Budget(c)
    BY CallFacts DEF IInv
  <1>1. StepsLeft(c) > 0 /\ pc'[c] = "done" => Advances(c)
    BY DEF StepsLeft, Advances
  <1>2. pc[c] # "done" => StepsLeft(c) > 0
    BY <1>0 DEF StepsLeft, TypeOK
  <1>3. CASE Call(c)
    <2>1. /\ pc[c] = "idle" /\ attempt'[c] = attempt[c] /\ attempt[c] = 0
          /\ pc'[c] \in {"post", "done"}
      BY <1>0, <1>3 DEF Call, Transmit, End, TypeOK, Budget
    <2> QED
      BY <1>0, <1>1, <1>2, <2>1 DEF StepsLeft, Advances
  <1>4. CASE TransportError(c) \/ Refused(c)
    <2>1. /\ pc[c] = "post" /\ attempt'[c] = attempt[c]
          /\ pc'[c] \in {"sleep", "done"}
      BY <1>0, <1>4 DEF TransportError, Refused, End, TypeOK
    <2> QED
      BY <1>0, <1>1, <1>2, <2>1 DEF StepsLeft, Advances
  <1>5. CASE OtherError(c) \/ Cancel(c) \/ Return(c)
    <2>1. pc[c] # "done" /\ pc'[c] = "done"
      BY <1>0, <1>5 DEF OtherError, Cancel, Return, End, TypeOK
    <2> QED
      BY <1>1, <1>2, <2>1
  <1>6. CASE Backoff(c)
    <2>1. /\ pc[c] = "sleep" /\ attempt'[c] = attempt[c] + 1
          /\ pc'[c] \in {"post", "done"}
      BY <1>0, <1>6 DEF Backoff, NextAttempt, Transmit, End, TypeOK
    <2>2. attempt[c] \in Nat
      BY CallFacts
    <2> QED
      BY <1>0, <1>1, <1>2, <2>1, <2>2 DEF StepsLeft, Advances
  <1> QED
    BY <1>3, <1>4, <1>5, <1>6 DEF ClientStep

(* Each step of a call (request, request_raw and batch of rpc.py) uses up  *)
(* one of the 2 * max_retries + 3 it has, and nothing the server, the      *)
(* other calls or close() do gives one back: no call goes round for ever,  *)
(* and what CallsEnd asks beyond this is that a waiting call is resumed.   *)
THEOREM CallsOnlyAdvance ==
    Spec => [][\A c \in Calls : Rests(c) \/ Advances(c)]_vars
  <1>1. IInv /\ [Next]_vars => [\A c \in Calls : Rests(c) \/ Advances(c)]_vars
    <2> SUFFICES ASSUME IInv, Next, NEW c \in Calls PROVE Rests(c) \/ Advances(c)
      OBVIOUS
    <2>0. TypeOK
      BY DEF IInv
    <2>1. ASSUME NEW d \in Calls, Own(d), d # c PROVE Rests(c)
      BY <2>0, <2>1, OwnFrame DEF Untouched, Rests
    <2>2. CASE ClientStep(c)
      BY <2>2, ClientAdvances
    <2>3. CASE ServerStep(c)
      BY <2>3 DEF ServerStep, Execute, Refuse, Drop, client, Rests
    <2>4. CASE Close \/ Finished
      BY <2>4 DEF Close, Finished, vars, client, Rests
    <2> QED
      BY <2>1, <2>2, <2>3, <2>4 DEF Next, Own
  <1> QED
    BY <1>1, Invariance, PTL DEF Spec

(* What is left of a call is bounded by its retry budget at any time.      *)
THEOREM CallsAreShort ==
    Spec => [](\A c \in Calls : StepsLeft(c) \in 0 .. 2 * MaxRetries + 3)
  <1>1. IInv => \A c \in Calls : StepsLeft(c) \in 0 .. 2 * MaxRetries + 3
    BY StepsBounded
  <1> QED
    BY <1>1, Invariance, PTL

-----------------------------------------------------------------------------
(* The instrumented client.  A step either counts one call that has just   *)
(* ended (Counts), or leaves the tables and the calls that are over alone  *)
(* (Quiet), or is a reset.                                                 *)

(* "Transparently passes all calls through the middleware"                 *)
(* (instrumented_rpc.py:3): every behaviour of the instrumented client is  *)
(* one of RpcClient, so that the theorems above hold for it.               *)
THEOREM Transparent == InstrumentedSpec => Spec
  <1>1. InstrumentedInit => Init
    BY DEF InstrumentedInit
  <1>2. [InstrumentedNext]_allVars => [Next]_vars
    BY DEF InstrumentedNext, allVars, Instrumented, ResetStats, ResetRecords, Next
  <1> QED
    BY <1>1, <1>2, PTL DEF InstrumentedSpec, Spec

SameCalls == \A d \in Over : pc'[d] = "done" /\ kind'[d] = kind[d] /\ outcome'[d] = outcome[d]

Quiet ==
    /\ UNCHANGED <<method, tables, reset>>
    /\ SameCalls /\ Counted' = Counted

Counts(c) ==
    /\ c \notin Over /\ SameCalls /\ Counted' = Counted \cup {c}
    /\ ErrorOf(c)' \in Codes \cup {"none"}
    /\ UNCHANGED <<method, reset>>
    /\ RunAfter(c, ErrorOf(c)')

IInvTables == TablesOK /\ StatisticsMatch /\ RecordsMatch /\ ErrorsMatch

(* What a step of the instrumented client can be.                          *)
LEMMA StepKinds ==
    ASSUME TypeOK, TypeOK', InstrumentedNext
    PROVE  Quiet \/ (\E c \in Calls : Counts(c)) \/ ResetStats \/ ResetRecords
  <1>1. ASSUME NEW c \in Calls, Instrumented(c)
        PROVE  Quiet \/ Counts(c)
    <2>1. \A d \in Calls \ {c} : Untouched(d)
      BY <1>1, OwnFrame DEF Instrumented, Own
    <2>2. pc[c] # "done"
      BY <1>1 DEF Instrumented, ClientStep, Call, TransportError, OtherError, Cancel, Refused,
                  Backoff, Return
    <2>3. SameCalls /\ c \notin Over
      BY <2>1, <2>2 DEF SameCalls, Over, Untouched
    <2>4. \A d \in Calls \ {c} : d \in Counted' <=> d \in Counted
      BY <2>1 DEF Untouched, Counted, Over
    <2>5. Counted \subseteq Calls /\ Counted' \subseteq Calls /\ c \notin Counted
      BY <2>3 DEF Counted, Over
    <2>6. CASE pc'[c] = "done" /\ kind'[c] # "batch"
      <3>1. Counted' = Counted \cup {c}
        BY <2>4, <2>5, <2>6 DEF Counted, Over
      <3>2. outcome'[c] \in Outcomes \ {"none"}
        BY <2>6 DEF TypeOK
      <3>3. ErrorOf(c)' \in Codes \cup {"none"}
        BY <3>2 DEF ErrorOf, ErrorData, Codes, Outcomes
      <3>4. RunAfter(c, ErrorOf(c)')
        BY <1>1, <2>6 DEF Instrumented, Hooks, ErrorOf
      <3> QED
        BY <1>1, <2>3, <3>1, <3>3, <3>4 DEF Counts, Instrumented
    <2>7. CASE ~(pc'[c] = "done" /\ kind'[c] # "batch")
      <3>1. Counted' = Counted
        BY <2>4, <2>5, <2>7 DEF Counted, Over
      <3> QED
        BY <1>1, <2>3, <2>7, <3>1 DEF Quiet, Instrumented, Hooks
    <2> QED
      BY <2>6, <2>7
  <1>2. ASSUME (\E c \in Calls : ServerStep(c)) \/ Close \/ Finished,
               UNCHANGED <<method, tables, reset>>
        PROVE  Quiet
    <2>1. UNCHANGED <<pc, kind, outcome>>
      BY <1>2 DEF ServerStep, Execute, Refuse, Drop, Close, Finished, client, vars
    <2> QED
      BY <1>2, <2>1 DEF Quiet, SameCalls, Counted, Over
  <1> QED
    BY <1>1, <1>2 DEF InstrumentedNext

(* The calls counted of some kind, one of which has just ended.            *)
LEMMA OneMore ==
    ASSUME NEW S \in SUBSET Calls, NEW c \in Calls, c \notin S
    PROVE  Cardinality(S) \in Nat /\ Cardinality(S \cup {c}) = Cardinality(S) + 1
  BY InstrumentedAssumption, FS_Subset, FS_AddElement, FS_CardinalityType
     DEF InstrumentedAssumption

Since(m) == {c \in Counted \ statsOld : method[c] = m}
Failures(m) == {c \in Since(m) : ErrorOf(c) # "none"}
With(e) == {c \in Counted : ErrorOf(c) = e}
WithIn(m, e) == {c \in Counted : method[c] = m /\ ErrorOf(c) = e}

(* What is over is over for good, with the error it had.                   *)
LEMMA Frozen ==
    ASSUME SameCalls, NEW d \in Over
    PROVE  ErrorOf(d)' = ErrorOf(d)
  BY DEF SameCalls, ErrorOf

(* A call that ends adds one to the statistics of its method.              *)
LEMMA CountsStatistics ==
    ASSUME IInvTables, NEW c \in Calls, Counts(c)
    PROVE  StatisticsMatch'
  <1> SUFFICES ASSUME NEW m \in Methods
               PROVE  /\ stats'[m].calls = Cardinality(Since(m)')
                      /\ stats'[m].errors = Cardinality(Failures(m)')
    BY DEF StatisticsMatch, Since, Failures
  <1> DEFINE e == ErrorOf(c)'
  <1>1. /\ stats[m].calls = Cardinality(Since(m))
        /\ stats[m].errors = Cardinality(Failures(m))
    BY DEF IInvTables, StatisticsMatch, Since, Failures
  <1>2. /\ stats' = [stats EXCEPT ![method[c]].calls = @ + 1,
                                  ![method[c]].errors = IF e = "none" THEN @ ELSE @ + 1]
        /\ method' = method /\ statsOld' = statsOld /\ c \notin Over
    BY DEF Counts, RunAfter, Record, reset
  <1>3. statsOld \subseteq Over /\ stats \in [Methods -> [calls : Nat, errors : Nat]]
        /\ method \in [Calls -> Methods]
    BY DEF IInvTables, TablesOK
  <1>4. Counted' = Counted \cup {c} /\ Counted \subseteq Over
    BY DEF Counts, Counted
  <1>5. \A d \in Counted : ErrorOf(d)' = ErrorOf(d)
    BY <1>4, Frozen DEF Counts
  <1>6. Since(m) \subseteq Calls /\ Failures(m) \subseteq Calls /\ c \notin Since(m)
        /\ c \notin Failures(m)
    BY <1>2, <1>4 DEF Since, Failures, Counted, Over
  <1>7. CASE method[c] = m
    <2>1. Since(m)' = Since(m) \cup {c}
      BY <1>2, <1>3, <1>4, <1>7 DEF Since
    <2>2. Failures(m)' = IF e = "none" THEN Failures(m) ELSE Failures(m) \cup {c}
      BY <1>5, <2>1 DEF Failures, Since
    <2>3. /\ stats'[m].calls = stats[m].calls + 1
          /\ stats'[m].errors = IF e = "none" THEN stats[m].errors ELSE stats[m].errors + 1
      BY <1>2, <1>3, <1>7
    <2> QED
      BY <1>1, <1>6, <2>1, <2>2, <2>3, OneMore
  <1>8. CASE method[c] # m
    <2>1. Since(m)' = Since(m)
      BY <1>2, <1>3, <1>4, <1>8 DEF Since
    <2>2. Failures(m)' = Failures(m)
      BY <1>5, <2>1 DEF Failures, Since
    <2>3. stats'[m] = stats[m]
      BY <1>2, <1>3, <1>8
    <2> QED
      BY <1>1, <2>1, <2>2, <2>3
  <1> QED
    BY <1>7, <1>8

(* A call that ends in an error adds one to that error in both tables.     *)
LEMMA CountsErrors ==
    ASSUME IInvTables, NEW c \in Calls, Counts(c)
    PROVE  ErrorsMatch'
  <1> SUFFICES ASSUME NEW x \in Codes
               PROVE  /\ byCode'[x] = Cardinality(With(x)')
                      /\ \A m \in Methods : byMethod'[m][x] = Cardinality(WithIn(m, x)')
    BY DEF ErrorsMatch, With, WithIn
  <1> DEFINE e == ErrorOf(c)'
  <1>1. /\ byCode[x] = Cardinality(With(x))
        /\ \A m \in Methods : byMethod[m][x] = Cardinality(WithIn(m, x))
    BY DEF IInvTables, ErrorsMatch, With, WithIn
  <1>2. /\ Classify(method[c], e) /\ method' = method /\ c \notin Over
        /\ x # "none" /\ e \in Codes \cup {"none"}
    BY DEF Counts, RunAfter, Codes
  <1>3. byCode \in [Codes -> Nat] /\ byMethod \in [Methods -> [Codes -> Nat]]
        /\ method \in [Calls -> Methods]
    BY DEF IInvTables, TablesOK
  <1>4. Counted' = Counted \cup {c} /\ Counted \subseteq Over
    BY DEF Counts, Counted
  <1>5. \A d \in Counted : ErrorOf(d)' = ErrorOf(d)
    BY <1>4, Frozen DEF Counts
  <1>6. /\ With(x) \subseteq Calls /\ c \notin With(x)
        /\ \A m \in Methods : WithIn(m, x) \subseteq Calls /\ c \notin WithIn(m, x)
    BY <1>2, <1>4 DEF With, WithIn, Counted, Over
  <1>7. CASE e = x
    <2>1. /\ byCode' = [byCode EXCEPT ![x] = @ + 1]
          /\ byMethod' = [byMethod EXCEPT ![method[c]][x] = @ + 1]
      BY <1>2, <1>7 DEF Classify
    <2>2. With(x)' = With(x) \cup {c}
      BY <1>4, <1>5, <1>7 DEF With
    <2>3. byCode'[x] = Cardinality(With(x)')
      BY <1>1, <1>3, <1>6, <2>1, <2>2, OneMore
    <2>4. ASSUME NEW m \in Methods PROVE byMethod'[m][x] = Cardinality(WithIn(m, x)')
      <3>1. WithIn(m, x)' = IF method[c] = m THEN WithIn(m, x) \cup {c} ELSE WithIn(m, x)
        BY <1>2, <1>4, <1>5, <1>7 DEF WithIn
      <3>2. byMethod'[m][x] = IF method[c] = m THEN byMethod[m][x] + 1 ELSE byMethod[m][x]
        BY <1>3, <2>1
      <3> QED
        BY <1>1, <1>6, <3>1, <3>2, OneMore
    <2> QED
      BY <2>3, <2>4
  <1>8. CASE e # x
    <2>1. byCode'[x] = byCode[x] /\ \A m \in Methods : byMethod'[m][x] = byMethod[m][x]
      BY <1>2, <1>3, <1>8 DEF Classify
    <2>2. With(x)' = With(x) /\ \A m \in Methods : WithIn(m, x)' = WithIn(m, x)
      BY <1>2, <1>4, <1>5, <1>8 DEF With, WithIn
    <2> QED
      BY <1>1, <2>1, <2>2
  <1> QED
    BY <1>7, <1>8

(* A call that ends is recorded if there is room, and the types are kept.  *)
LEMMA CountsRecords ==
    ASSUME IInvTables, NEW c \in Calls, Counts(c)
    PROVE  TablesOK' /\ RecordsMatch'
  <1> DEFINE e == ErrorOf(c)'
  <1> DEFINE r == [call |-> c, error |-> e]
  <1>1. /\ RunAfter(c, e) /\ UNCHANGED <<method, statsOld, recordsOld>> /\ c \notin Over
        /\ e \in Codes \cup {"none"} /\ SameCalls
    BY DEF Counts, reset
  <1>2. TablesOK /\ RecordsMatch
    BY DEF IInvTables
  <1>3. Counted' = Counted \cup {c} /\ Counted \subseteq Over /\ Over \subseteq Over'
    BY <1>1 DEF Counts, Counted, Over, SameCalls
  <1>4. /\ \A d \in Counted : kind'[d] = kind[d] /\ outcome'[d] = outcome[d]
        /\ c \notin recordsOld /\ e = ErrorData(kind'[c], outcome'[c])
    BY <1>1, <1>2, <1>3 DEF TablesOK, SameCalls, ErrorOf
  <1>5. r \in [call : Calls, error : Codes \cup {"none"}] /\ MaxRecords \in Nat
    BY <1>1, InstrumentedAssumption DEF InstrumentedAssumption
  <1>6. stats' \in [Methods -> [calls : Nat, errors : Nat]]
    BY <1>1, <1>2 DEF RunAfter, Record, TablesOK
  <1>7. byCode' \in [Codes -> Nat] /\ byMethod' \in [Methods -> [Codes -> Nat]]
    <2>1. CASE e = "none"
      BY <1>1, <1>2, <2>1 DEF RunAfter, Classify, TablesOK
    <2>2. CASE e # "none"
      <3>1. /\ byCode' = [byCode EXCEPT ![e] = @ + 1]
            /\ byMethod' = [byMethod EXCEPT ![method[c]][e] = @ + 1]
        BY <1>1, <2>2 DEF RunAfter, Classify
      <3>2. e \in Codes /\ method[c] \in Methods
        BY <1>1, <1>2, <2>2 DEF TablesOK
      <3> HIDE DEF e
      <3> QED
        BY <1>2, <3>1, <3>2 DEF TablesOK
    <2> QED
      BY <2>1, <2>2
  <1>8. CASE Room
    <2> HIDE DEF r, e
    <2>1. records' = Append(records, r)
      BY <1>1, <1>8 DEF RunAfter, Keep, r, e
    <2>2. records \in Seq([call : Calls, error : Codes \cup {"none"}])
      BY <1>2 DEF TablesOK
    <2>3. /\ records' \in Seq([call : Calls, error : Codes \cup {"none"}])
          /\ Len(records') = Len(records) + 1
          /\ \A i \in 1..Len(records) : records'[i] = records[i]
          /\ records'[Len(records) + 1] = r
      BY <1>5, <2>1, <2>2
    <2>4. r.call = c /\ r.error = e
      BY DEF r
    <2>5. \A i \in 1..Len(records) : records[i].call \in Counted \ recordsOld
      BY <1>2, <2>2 DEF RecordsMatch
    <2>6. \A i \in 1..Len(records) : records[i].call # c
      BY <1>1, <1>3, <2>5
    <2>7. Len(records') <= MaxRecords
      BY <1>5, <1>8, <2>2, <2>3 DEF Room
    <2>8. TablesOK'
      BY <1>1, <1>2, <1>3, <1>6, <1>7, <2>3, <2>7 DEF TablesOK
    <2>9. ASSUME NEW i \in 1..Len(records')
          PROVE  /\ records'[i].call \in Counted' \ recordsOld'
                 /\ records'[i].error =
                        ErrorData(kind'[records'[i].call], outcome'[records'[i].call])
                 /\ \A j \in 1..Len(records') :
                       records'[i].call = records'[j].call => i = j
      <3>1. i \in 1..Len(records) \/ i = Len(records) + 1
        BY <2>2, <2>3
      <3>2. \A j \in 1..Len(records') : j \in 1..Len(records) \/ j = Len(records) + 1
        BY <2>2, <2>3
      <3>3. CASE i \in 1..Len(records)
        <4>1. records[i].error = ErrorData(kind[records[i].call], outcome[records[i].call])
          BY <1>2, <2>2, <3>3 DEF RecordsMatch, ErrorOf
        <4>2. \A j \in 1..Len(records) : records[i].call = records[j].call => i = j
          BY <1>2, <2>2, <3>3 DEF RecordsMatch
        <4> QED
          BY <1>1, <1>3, <1>4, <2>3, <2>4, <2>5, <2>6, <3>2, <3>3, <4>1, <4>2
      <3>4. CASE i = Len(records) + 1
        BY <1>1, <1>3, <1>4, <2>3, <2>4, <2>6, <3>2, <3>4
      <3> QED
        BY <3>1, <3>3, <3>4
    <2>10. ASSUME NEW d \in Counted' \ recordsOld'
           PROVE  \E i \in 1..Len(records') : records'[i].call = d
      <3>1. CASE d = c
        BY <2>2, <2>3, <2>4, <3>1
      <3>2. CASE d # c
        <4>1. PICK i \in 1..Len(records) : records[i].call = d
          BY <1>1, <1>2, <1>3, <1>8, <2>2, <3>2 DEF RecordsMatch, Room
        <4> QED
          BY <2>2, <2>3, <4>1
      <3> QED
        BY <3>1, <3>2
    <2>11. DOMAIN records' = 1..Len(records')
      BY <2>3
    <2>12. RecordsMatch'
      BY <2>9, <2>10, <2>11 DEF RecordsMatch, ErrorOf
    <2> QED
      BY <2>8, <2>12
  <1>9. CASE ~Room
    <2>1. records' = records
      BY <1>1, <1>9 DEF RunAfter, Keep
    <2>2. TablesOK'
      BY <1>1, <1>2, <1>3, <1>6, <1>7, <2>1 DEF TablesOK
    <2>3. RecordsMatch'
      BY <1>1, <1>2, <1>3, <1>4, <1>9, <2>1 DEF RecordsMatch, Room, ErrorOf
    <2> QED
      BY <2>2, <2>3
  <1> QED
    BY <1>8, <1>9

(* Nothing is counted at first.                                            *)
LEMMA InitTables == InstrumentedInit => IInvTables
  <1> SUFFICES ASSUME InstrumentedInit PROVE IInvTables
    OBVIOUS
  <1>1. Over = {} /\ Counted = {}
    BY DEF InstrumentedInit, Init, Over, Counted
  <1>2. TablesOK
    BY <1>1, InstrumentedAssumption DEF InstrumentedInit, TablesOK, InstrumentedAssumption
  <1>3. StatisticsMatch
    <2>1. ASSUME NEW m \in Methods PROVE Since(m) = {} /\ Failures(m) = {}
      BY <1>1 DEF Since, Failures
    <2> QED
      BY <2>1, FS_EmptySet DEF InstrumentedInit, StatisticsMatch, Since, Failures
  <1>4. RecordsMatch
    BY <1>1 DEF InstrumentedInit, RecordsMatch
  <1>5. ErrorsMatch
    <2>1. \A e \in Codes : With(e) = {} /\ \A m \in Methods : WithIn(m, e) = {}
      BY <1>1 DEF With, WithIn
    <2> QED
      BY <2>1, FS_EmptySet DEF InstrumentedInit, ErrorsMatch, With, WithIn
  <1> QED
    BY <1>2, <1>3, <1>4, <1>5 DEF IInvTables

(* The calls that are over, when no call is touched.                       *)
LEMMA SameErrors ==
    ASSUME SameCalls, Counted' = Counted, UNCHANGED method
    PROVE  /\ \A e \in Codes : With(e)' = With(e)
           /\ \A e \in Codes : \A m \in Methods : WithIn(m, e)' = WithIn(m, e)
           /\ statsOld' = statsOld => \A m \in Methods :
                  Since(m)' = Since(m) /\ Failures(m)' = Failures(m)
  <1>1. \A d \in Counted : ErrorOf(d)' = ErrorOf(d)
    BY Frozen DEF Counted
  <1> QED
    BY <1>1 DEF With, WithIn, Since, Failures

LEMMA QuietInv == IInvTables /\ Quiet => IInvTables'
  <1> SUFFICES ASSUME IInvTables, Quiet PROVE IInvTables'
    OBVIOUS
  <1>1. /\ UNCHANGED <<method, stats, records, byCode, byMethod, statsOld, recordsOld>>
        /\ SameCalls /\ Counted' = Counted
    BY DEF Quiet, tables, reset
  <1>2. Over \subseteq Over'
    BY <1>1 DEF SameCalls, Over
  <1>3. TablesOK'
    BY <1>1, <1>2 DEF IInvTables, TablesOK
  <1>4. StatisticsMatch'
    BY <1>1, SameErrors DEF IInvTables, StatisticsMatch, Since, Failures
  <1>5. RecordsMatch'
    <2>1. \A d \in Counted : kind'[d] = kind[d] /\ outcome'[d] = outcome[d]
      BY <1>1 DEF SameCalls, Counted
    <2> QED
      BY <1>1, <2>1 DEF IInvTables, RecordsMatch, ErrorOf
  <1>6. ErrorsMatch'
    BY <1>1, SameErrors DEF IInvTables, ErrorsMatch, With, WithIn
  <1> QED
    BY <1>3, <1>4, <1>5, <1>6 DEF IInvTables

LEMMA ResetInv == IInvTables /\ (ResetStats \/ ResetRecords) => IInvTables'
  <1> SUFFICES ASSUME IInvTables, ResetStats \/ ResetRecords PROVE IInvTables'
    OBVIOUS
  <1>1. UNCHANGED <<pc, kind, outcome, method, byCode, byMethod>>
    BY DEF ResetStats, ResetRecords, vars, client
  <1>2. SameCalls /\ Counted' = Counted /\ Over' = Over
    BY <1>1 DEF SameCalls, Counted, Over
  <1>3. ErrorsMatch'
    BY <1>1, <1>2, SameErrors DEF IInvTables, ErrorsMatch, With, WithIn
  <1>4. CASE ResetStats
    <2>1. /\ stats' = [m \in Methods |-> [calls |-> 0, errors |-> 0]]
          /\ statsOld' = Over /\ UNCHANGED <<records, recordsOld>>
      BY <1>4 DEF ResetStats
    <2>2. TablesOK'
      BY <1>1, <1>2, <2>1 DEF IInvTables, TablesOK
    <2>3. \A m \in Methods : Since(m)' = {} /\ Failures(m)' = {}
      BY <1>2, <2>1 DEF Since, Failures, Counted
    <2>4. StatisticsMatch'
      BY <2>1, <2>3, FS_EmptySet DEF StatisticsMatch, Since, Failures
    <2>5. RecordsMatch'
      BY <1>1, <1>2, <2>1 DEF IInvTables, RecordsMatch, ErrorOf
    <2> QED
      BY <1>3, <2>2, <2>4, <2>5 DEF IInvTables
  <1>5. CASE ResetRecords
    <2>1. records' = <<>> /\ recordsOld' = Over /\ UNCHANGED <<stats, statsOld>>
      BY <1>5 DEF ResetRecords
    <2>2. TablesOK'
      BY <1>1, <1>2, <2>1, InstrumentedAssumption
         DEF IInvTables, TablesOK, InstrumentedAssumption
    <2>3. StatisticsMatch'
      BY <1>1, <1>2, <2>1, SameErrors DEF IInvTables, StatisticsMatch, Since, Failures
    <2>4. RecordsMatch'
      BY <1>2, <2>1 DEF RecordsMatch, Counted
    <2> QED
      BY <1>3, <2>2, <2>3, <2>4 DEF IInvTables
  <1> QED
    BY <1>4, <1>5

(* The tables of the three interceptors match what has happened.           *)
THEOREM TablesMatch == InstrumentedSpec => []IInvTables
  <1>1. TypeOK /\ TypeOK' /\ IInvTables /\ [InstrumentedNext]_allVars => IInvTables'
    <2>1. ASSUME IInvTables, NEW c \in Calls, Counts(c) PROVE IInvTables'
      BY <2>1, CountsStatistics, CountsErrors, CountsRecords DEF IInvTables
    <2>2. IInvTables /\ UNCHANGED allVars => Quiet
      BY DEF allVars, vars, client, Quiet, SameCalls, Counted, Over
    <2> QED
      BY <2>1, <2>2, StepKinds, QuietInv, ResetInv
  <1> QED
    BY <1>1, InitTables, Transparent, TypeCorrect, PTL DEF InstrumentedSpec

(* The tables of the default chain (instrumented_rpc.py) keep their types, *)
(* and the recording interceptor keeps its cap.                            *)
THEOREM TablesKeepTypes == InstrumentedSpec => []TablesOK
  <1>1. IInvTables => TablesOK
    BY DEF IInvTables
  <1> QED
    BY <1>1, TablesMatch, PTL

(* Every request is counted once by the timing interceptor.                *)
THEOREM StatisticsAreExact == InstrumentedSpec => []StatisticsMatch
  <1>1. IInvTables => StatisticsMatch
    BY DEF IInvTables
  <1> QED
    BY <1>1, TablesMatch, PTL

(* The recording interceptor keeps the first requests to end, up to its    *)
(* cap.                                                                    *)
THEOREM RecordsAreExact == InstrumentedSpec => [](TablesOK /\ RecordsMatch)
  <1>1. IInvTables => TablesOK /\ RecordsMatch
    BY DEF IInvTables
  <1> QED
    BY <1>1, TablesMatch, PTL

(* The two tables of the error classifier agree with what requests met.    *)
THEOREM ErrorsAreExact == InstrumentedSpec => []ErrorsMatch
  <1>1. IInvTables => ErrorsMatch
    BY DEF IInvTables
  <1> QED
    BY <1>1, TablesMatch, PTL

-----------------------------------------------------------------------------
(* Induction, for a set of naturals.                                       *)
LEMMA SetInduction ==
    ASSUME NEW S \in SUBSET Nat, 0 \in S, \A n \in S : n + 1 \in S
    PROVE  S = Nat
  <1> DEFINE R == OpToRel(<, Nat)
             rest == Nat \ S
  <1>1. \A m, n \in Nat : <<m, n>> \in R <=> m < n
    BY DEF OpToRel
  <1>2. IsWellFoundedOn(R, Nat)
    BY NatLessThanWellFounded
  <1>3. rest \subseteq Nat /\ (S # Nat => rest # {})
    OBVIOUS
  <1>4. ASSUME NEW n \in rest, \A m \in rest : <<m, n>> \notin R
        PROVE  FALSE
    <2>1. n \in Nat /\ n # 0 /\ n - 1 \in Nat /\ n - 1 < n
      OBVIOUS
    <2>2. n - 1 \notin rest
      BY <1>1, <1>4, <2>1
    <2>3. n - 1 + 1 \in S
      BY <2>1, <2>2
    <2> QED
      BY <2>1, <2>3
  <1> HIDE DEF R, rest
  <1>5. rest = {}
    <2>1. rest # {} => \E n \in rest : \A m \in rest : <<m, n>> \notin R
      BY <1>2, <1>3, WFMin
    <2> QED
      BY <1>4, <2>1
  <1> QED
    BY <1>3, <1>5

-----------------------------------------------------------------------------

-----------------------------------------------------------------------------
(* Recursion along a rank: a body B that looks only at what has a lower    *)
(* rank has a fixed point.  Good(f, ...) is one up to rank n.              *)

Looks(B, S, T, rank) ==
    \A x \in S : \A f, g \in [S -> T] :
        (\A y \in S : rank[y] < rank[x] => f[y] = g[y]) => B[x][f] = B[x][g]

Recursion(B, S, T, rank) ==
    /\ T # {} /\ rank \in [S -> Nat] /\ B \in [S -> [[S -> T] -> T]]
    /\ Looks(B, S, T, rank)

FixedTo(f, B, S, rank, n) == \A x \in S : rank[x] < n => f[x] = B[x][f]

LEMMA FixedUnique ==
    ASSUME NEW S, NEW T, NEW rank, NEW B, Recursion(B, S, T, rank)
    PROVE  \A n \in Nat : \A f, g \in [S -> T] :
              FixedTo(f, B, S, rank, n) /\ FixedTo(g, B, S, rank, n)
              => \A x \in S : rank[x] < n => f[x] = g[x]
  <1> USE DEF Recursion
  <1> DEFINE Same(n) == \A f, g \in [S -> T] :
                FixedTo(f, B, S, rank, n) /\ FixedTo(g, B, S, rank, n)
                => \A x \in S : rank[x] < n => f[x] = g[x]
             same == {n \in Nat : Same(n)}
  <1>1. Same(0)
    OBVIOUS
  <1>2. ASSUME NEW n \in Nat, Same(n) PROVE Same(n + 1)
    <2> SUFFICES ASSUME NEW f \in [S -> T], NEW g \in [S -> T],
                        FixedTo(f, B, S, rank, n + 1), FixedTo(g, B, S, rank, n + 1),
                        NEW x \in S, rank[x] < n + 1
                 PROVE  f[x] = g[x]
      OBVIOUS
    <2>1. FixedTo(f, B, S, rank, n) /\ FixedTo(g, B, S, rank, n)
      BY DEF FixedTo
    <2>2. \A y \in S : rank[y] < n => f[y] = g[y]
      BY <1>2, <2>1
    <2>3. \A y \in S : rank[y] < rank[x] => f[y] = g[y]
      BY <2>2
    <2>4. B[x][f] = B[x][g]
      BY <2>3 DEF Looks
    <2> QED
      BY <2>4 DEF FixedTo
  <1>3. same \in SUBSET Nat /\ 0 \in same /\ \A n \in same : n + 1 \in same
    <2> HIDE DEF Same
    <2> QED
      BY <1>1, <1>2
  <1> HIDE DEF same
  <1>4. same = Nat
    BY <1>3, SetInduction
  <1> QED
    BY <1>4 DEF same

LEMMA FixedTos ==
    ASSUME NEW S, NEW T, NEW rank, NEW B, Recursion(B, S, T, rank)
    PROVE  \A n \in Nat : \E f \in [S -> T] : FixedTo(f, B, S, rank, n)
  <1> USE DEF Recursion
  <1> DEFINE Some(n) == \E f \in [S -> T] : FixedTo(f, B, S, rank, n)
             some == {n \in Nat : Some(n)}
  <1>1. Some(0)
    <2>1. PICK a \in T : TRUE
      OBVIOUS
    <2>2. [x \in S |-> a] \in [S -> T]
      OBVIOUS
    <2>3. FixedTo([x \in S |-> a], B, S, rank, 0)
      BY DEF FixedTo
    <2> QED
      BY <2>2, <2>3
  <1>2. ASSUME NEW n \in Nat, Some(n) PROVE Some(n + 1)
    <2>1. PICK f \in [S -> T] : FixedTo(f, B, S, rank, n)
      BY <1>2
    <2> DEFINE g == [x \in S |-> B[x][f]]
    <2>2. g \in [S -> T]
      OBVIOUS
    <2>3. \A x \in S : rank[x] < n => g[x] = f[x]
      BY <2>1 DEF FixedTo
    <2>4. ASSUME NEW x \in S, rank[x] < n + 1 PROVE g[x] = B[x][g]
      <3>1. \A y \in S : rank[y] < rank[x] => g[y] = f[y]
        BY <2>3, <2>4
      <3>2. g[x] = B[x][f]
        OBVIOUS
      <3> HIDE DEF g
      <3>3. B[x][g] = B[x][f]
        BY <2>2, <3>1 DEF Looks
      <3> QED
        BY <3>2, <3>3
    <2> HIDE DEF g
    <2>5. FixedTo(g, B, S, rank, n + 1)
      BY <2>4 DEF FixedTo
    <2> QED
      BY <2>2, <2>5
  <1>3. some \in SUBSET Nat /\ 0 \in some /\ \A n \in some : n + 1 \in some
    <2> HIDE DEF Some
    <2> QED
      BY <1>1, <1>2
  <1> HIDE DEF some
  <1>4. some = Nat
    BY <1>3, SetInduction
  <1> QED
    BY <1>4 DEF some

LEMMA FixedPoint ==
    ASSUME NEW S, NEW T, NEW rank, NEW B, Recursion(B, S, T, rank)
    PROVE  \E f \in [S -> T] : \A x \in S : f[x] = B[x][f]
  <1> DEFINE upTo(n) == CHOOSE f \in [S -> T] : FixedTo(f, B, S, rank, n)
             f == [x \in S |-> upTo(rank[x] + 1)[x]]
  <1>1. \A n \in Nat : \A g, h \in [S -> T] :
           FixedTo(g, B, S, rank, n) /\ FixedTo(h, B, S, rank, n)
           => \A x \in S : rank[x] < n => g[x] = h[x]
    BY FixedUnique
  <1>2. \A n \in Nat : \E g \in [S -> T] : FixedTo(g, B, S, rank, n)
    BY FixedTos
  <1>3. rank \in [S -> Nat] /\ B \in [S -> [[S -> T] -> T]] /\ Looks(B, S, T, rank)
    BY DEF Recursion
  <1>4. \A n \in Nat : upTo(n) \in [S -> T] /\ FixedTo(upTo(n), B, S, rank, n)
    BY <1>2
  <1> HIDE DEF upTo
  <1> USE <1>3
  <1>5. f \in [S -> T]
    BY <1>4
  <1>6. ASSUME NEW x \in S, NEW n \in Nat, rank[x] < n PROVE f[x] = upTo(n)[x]
    <2> DEFINE m == rank[x] + 1
    <2>1. m \in Nat /\ m <= n /\ rank[x] < m
      BY <1>6
    <2>2. f[x] = upTo(m)[x]
      OBVIOUS
    <2> HIDE DEF m, f
    <2>3. FixedTo(upTo(n), B, S, rank, m) /\ FixedTo(upTo(m), B, S, rank, m)
      <3>1. FixedTo(upTo(n), B, S, rank, n) /\ FixedTo(upTo(m), B, S, rank, m)
        BY <1>4, <2>1
      <3>2. \A y \in S : rank[y] < m => rank[y] < n
        BY <2>1
      <3> QED
        BY <3>1, <3>2 DEF FixedTo
    <2>4. upTo(n) \in [S -> T] /\ upTo(m) \in [S -> T]
      BY <1>4, <2>1
    <2> QED
      BY <1>1, <2>1, <2>2, <2>3, <2>4
  <1>7. ASSUME NEW x \in S PROVE f[x] = B[x][f]
    <2> DEFINE m == rank[x] + 1
    <2>1. m \in Nat /\ rank[x] < m
      OBVIOUS
    <2>2. \A y \in S : rank[y] < rank[x] => f[y] = upTo(m)[y]
      BY <1>6, <2>1
    <2>3. f[x] = upTo(m)[x]
      OBVIOUS
    <2> HIDE DEF m, f
    <2>4. upTo(m) \in [S -> T] /\ upTo(m)[x] = B[x][upTo(m)]
      BY <1>4, <2>1 DEF FixedTo
    <2>5. B[x][f] = B[x][upTo(m)]
      BY <1>5, <2>2, <2>4 DEF Looks
    <2> QED
      BY <2>3, <2>4, <2>5
  <1> HIDE DEF f
  <1> QED
    BY <1>5, <1>7

-----------------------------------------------------------------------------
(* deep_compare, unfolded.                                                 *)

Both(x, type) == x.reference.t = type /\ x.target.t = type
Nested(x) == Both(x, "dict") \/ Both(x, "list")
AllKeys(x) == DOMAIN x.reference.v \cup DOMAIN x.target.v
NameOf(value, k) == IF value.t = "dict" THEN k ELSE Item(k)
Below(x, k) == Append(x.path, NameOf(x.reference, k))

(* What deep_compare looks at, at one level.                               *)
Compares(x) ==
    IF Both(x, "dict") THEN {k \in AllKeys(x) : ~Ignored(Append(x.path, k))}
    ELSE 1..Length(x.reference.v, x.target.v)

(* The body of deep_compare, with f for what it says one level below.      *)
DiffsOf(f, x) ==
    LET r == x.reference
        t == x.target
        both(type) == r.t = type /\ t.t = type
        child(k, path) ==
            CASE k \notin DOMAIN t.v -> Found(path, "missing_field")
              [] k \notin DOMAIN r.v -> Found(path, "extra_field")
              [] OTHER -> f[[path |-> path, reference |-> r.v[k], target |-> t.v[k]]]
    IN
    IF Ignored(x.path) THEN {}
    ELSE CASE both("dict") ->
                UNION {child(k, Append(x.path, k)) :
                       k \in {k \in DOMAIN r.v \cup DOMAIN t.v : ~Ignored(Append(x.path, k))}}
           [] both("list") ->
                UNION {child(i, Append(x.path, Item(i))) : i \in 1..Length(r.v, t.v)}
           [] OTHER ->
                IF ~IsInstance(r, t) THEN Found(x.path, "type_mismatch")
                ELSE IF r.v # t.v THEN Found(x.path, "value_mismatch") ELSE {}

ChildDiffs(f, x, k) ==
    CASE k \notin DOMAIN x.target.v -> Found(Below(x, k), "missing_field")
      [] k \notin DOMAIN x.reference.v -> Found(Below(x, k), "extra_field")
      [] OTHER -> f[[path |-> Below(x, k), reference |-> x.reference.v[k], target |-> x.target.v[k]]]

LEMMA DiffsIgnored == ASSUME NEW f, NEW x, Ignored(x.path) PROVE DiffsOf(f, x) = {}
  BY DEF DiffsOf

LEMMA DiffsNested ==
    ASSUME NEW f, NEW x, ~Ignored(x.path), Nested(x)
    PROVE  DiffsOf(f, x) = UNION {ChildDiffs(f, x, k) : k \in Compares(x)}
  <1>1. CASE Both(x, "dict")
    BY <1>1 DEF DiffsOf, Both, Compares, AllKeys, ChildDiffs, Below, NameOf
  <1>2. CASE Both(x, "list")
    BY <1>2 DEF DiffsOf, Both, Compares, AllKeys, ChildDiffs, Below, NameOf
  <1> QED
    BY <1>1, <1>2 DEF Nested

LEMMA DiffsLeaf ==
    ASSUME NEW f, NEW x, ~Ignored(x.path), ~Nested(x)
    PROVE  DiffsOf(f, x) =
             IF ~IsInstance(x.reference, x.target) THEN Found(x.path, "type_mismatch")
             ELSE IF x.reference.v # x.target.v THEN Found(x.path, "value_mismatch") ELSE {}
  BY DEF DiffsOf, Nested, Both

LEMMA DeepCompareIs == DeepCompare = CHOOSE f : f = [x \in Pairs |-> DiffsOf(f, x)]
  BY DEF DeepCompare, DiffsOf

(* Two values of the same kind, dicts or lists: what is at each key, what  *)
(* is ignored, and what the paths are called.                              *)
LEMMA ListShape ==
    ASSUME NEW value \in Values, value.t = "list"
    PROVE  /\ Len(value.v) \in Nat /\ DOMAIN value.v = 1..Len(value.v)
           /\ \A i \in DOMAIN value.v :
                 /\ Item(i) \in Names /\ \A path \in Default : path[Len(path)] # Item(i)
                 /\ \A j \in DOMAIN value.v : Item(i) = Item(j) => i = j
  BY ComparisonAssumption DEF ComparisonAssumption

LEMMA Content ==
    ASSUME NEW value \in Values, value.t \in {"dict", "list"}, NEW k \in DOMAIN value.v
    PROVE  /\ value.v[k] \in Values /\ Depth[value.v[k]] \in Nat /\ Depth[value] \in Nat
           /\ Depth[value.v[k]] < Depth[value]
           /\ NameOf(value, k) \in Names
           /\ \A j \in DOMAIN value.v : NameOf(value, j) = NameOf(value, k) => j = k
  <1>1. value.v[k] \in Values /\ Depth[value.v[k]] < Depth[value] /\ Depth \in [Values -> Nat]
    BY ComparisonAssumption DEF ComparisonAssumption
  <1>2. CASE value.t = "dict"
    <2>1. DOMAIN value.v \subseteq Names
      BY <1>2, ComparisonAssumption DEF ComparisonAssumption
    <2> QED
      BY <1>1, <1>2, <2>1 DEF NameOf
  <1>3. CASE value.t = "list"
    BY <1>1, <1>3, ListShape DEF NameOf
  <1> QED
    BY <1>2, <1>3

LEMMA ItemsNotIgnored ==
    ASSUME NEW value \in Values, value.t = "list", NEW i \in DOMAIN value.v,
           NEW path \in Seq(Names)
    PROVE  ~Ignored(Append(path, Item(i)))
  <1>1. Item(i) \in Names /\ \A p \in Default : p[Len(p)] # Item(i)
    BY ListShape
  <1>2. Append(path, Item(i)) \in Seq(Names) /\ Len(Append(path, Item(i))) = Len(path) + 1
        /\ Append(path, Item(i))[Len(path) + 1] = Item(i)
    BY <1>1
  <1>3. <<Item(i)>>[Len(<<Item(i)>>)] = Item(i)
    OBVIOUS
  <1> QED
    BY <1>1, <1>2, <1>3 DEF Ignored

LEMMA Shape ==
    ASSUME NEW x \in Pairs, Nested(x)
    PROVE  /\ \A k \in AllKeys(x) :
                 /\ NameOf(x.reference, k) \in Names /\ Below(x, k) \in Seq(Names)
                 /\ k \in Compares(x) <=> ~Ignored(Below(x, k))
                 /\ \A j \in AllKeys(x) : NameOf(x.reference, j) = NameOf(x.reference, k) => j = k
                 /\ NameOf(x.target, k) = NameOf(x.reference, k)
           /\ Compares(x) \subseteq AllKeys(x)
           /\ x.path \in Seq(Names) /\ x.reference \in Values /\ x.target \in Values
           /\ x.reference.t \in {"dict", "list"} /\ x.target.t = x.reference.t
  <1>1. /\ x.path \in Seq(Names) /\ x.reference \in Values /\ x.target \in Values
        /\ x.reference.t \in {"dict", "list"} /\ x.target.t = x.reference.t
    BY DEF Pairs, Nested, Both
  <1>2. ASSUME NEW k \in AllKeys(x)
        PROVE  NameOf(x.reference, k) \in Names /\ NameOf(x.target, k) = NameOf(x.reference, k)
    <2>1. NameOf(x.target, k) = NameOf(x.reference, k)
      BY <1>1 DEF NameOf
    <2> QED
      BY <1>1, <1>2, <2>1, Content DEF AllKeys
  <1>3. \A k \in AllKeys(x) : Below(x, k) \in Seq(Names)
    BY <1>1, <1>2 DEF Below
  <1>4. CASE Both(x, "dict")
    BY <1>1, <1>2, <1>3, <1>4 DEF Both, NameOf, Compares, Below
  <1>5. CASE Both(x, "list")
    <2>1. /\ DOMAIN x.reference.v = 1..Len(x.reference.v) /\ Len(x.reference.v) \in Nat
          /\ DOMAIN x.target.v = 1..Len(x.target.v) /\ Len(x.target.v) \in Nat
      BY <1>1, <1>5, ListShape DEF Both
    <2>2. AllKeys(x) = 1..Length(x.reference.v, x.target.v)
      BY <2>1 DEF AllKeys, Length, Max2
    <2>3. Compares(x) = AllKeys(x)
      BY <1>5, <2>2 DEF Compares, Both
    <2>4. \A k \in AllKeys(x) : ~Ignored(Below(x, k))
      BY <1>1, <1>5, ItemsNotIgnored DEF AllKeys, Below, NameOf, Both
    <2>5. AllKeys(x) = DOMAIN x.reference.v \/ AllKeys(x) = DOMAIN x.target.v
      BY <2>1 DEF AllKeys
    <2>6. ASSUME NEW j \in AllKeys(x), NEW k \in AllKeys(x), Item(j) = Item(k) PROVE j = k
      BY <1>1, <1>5, <2>5, <2>6, ListShape DEF Both
    <2> QED
      BY <1>1, <1>2, <1>3, <1>5, <2>3, <2>4, <2>6 DEF NameOf, Both
  <1> QED
    BY <1>4, <1>5 DEF Nested

(* The pair at key k, where both have it.                                  *)
At(x, k) == [path |-> Below(x, k), reference |-> x.reference.v[k], target |-> x.target.v[k]]
InBoth(x, k) == k \in DOMAIN x.reference.v /\ k \in DOMAIN x.target.v

LEMMA PairBelow ==
    ASSUME NEW x \in Pairs, Nested(x), NEW k, InBoth(x, k)
    PROVE  /\ At(x, k) \in Pairs /\ At(x, k).path = Below(x, k)
           /\ At(x, k).reference = x.reference.v[k] /\ At(x, k).target = x.target.v[k]
           /\ Depth[At(x, k).reference] < Depth[x.reference]
  <1>1. k \in AllKeys(x)
    BY DEF InBoth, AllKeys
  <1>2. Below(x, k) \in Seq(Names)
    BY <1>1, Shape
  <1>3. x.reference.v[k] \in Values /\ Depth[x.reference.v[k]] < Depth[x.reference]
    BY Shape, Content DEF InBoth
  <1>4. x.target.v[k] \in Values
    BY Shape, Content DEF InBoth
  <1> QED
    BY <1>2, <1>3, <1>4 DEF At, Pairs

LEMMA ChildDiffsAre ==
    ASSUME NEW f, NEW x, NEW k \in AllKeys(x)
    PROVE  /\ InBoth(x, k) => ChildDiffs(f, x, k) = f[At(x, k)]
           /\ ~InBoth(x, k) => \E what \in {"missing_field", "extra_field"} :
                                   ChildDiffs(f, x, k) = Found(Below(x, k), what)
  <1>1. CASE InBoth(x, k)
    BY <1>1 DEF InBoth, ChildDiffs, At
  <1>2. CASE k \notin DOMAIN x.target.v
    BY <1>2 DEF InBoth, ChildDiffs, AllKeys
  <1>3. CASE k \notin DOMAIN x.reference.v
    BY <1>3 DEF InBoth, ChildDiffs, AllKeys
  <1> QED
    BY <1>1, <1>2, <1>3 DEF InBoth

Differences ==
    [path : Seq(Names),
     kind : {"missing_field", "extra_field", "type_mismatch", "value_mismatch"}]

LEMMA DiffsOfType ==
    ASSUME NEW f \in [Pairs -> SUBSET Differences], NEW x \in Pairs
    PROVE  DiffsOf(f, x) \in SUBSET Differences
  <1>1. CASE Ignored(x.path)
    BY <1>1, DiffsIgnored
  <1>2. CASE ~Ignored(x.path) /\ Nested(x)
    <2>1. ASSUME NEW k \in Compares(x) PROVE ChildDiffs(f, x, k) \in SUBSET Differences
      <3>1. k \in AllKeys(x) /\ Below(x, k) \in Seq(Names)
        BY <1>2, Shape
      <3>2. CASE InBoth(x, k)
        BY <1>2, <3>1, <3>2, PairBelow, ChildDiffsAre
      <3>3. CASE ~InBoth(x, k)
        <4>1. PICK what \in {"missing_field", "extra_field"} :
                  ChildDiffs(f, x, k) = Found(Below(x, k), what)
          BY <3>1, <3>3, ChildDiffsAre
        <4> QED
          BY <3>1, <4>1 DEF Found, Differences
      <3> QED
        BY <3>2, <3>3
    <2>2. DiffsOf(f, x) = UNION {ChildDiffs(f, x, k) : k \in Compares(x)}
      BY <1>2, DiffsNested
    <2> QED
      BY <2>1, <2>2
  <1>3. CASE ~Ignored(x.path) /\ ~Nested(x)
    <2>1. x.path \in Seq(Names)
      BY DEF Pairs
    <2>2. Found(x.path, "type_mismatch") \in SUBSET Differences
          /\ Found(x.path, "value_mismatch") \in SUBSET Differences
      BY <2>1 DEF Found, Differences
    <2> QED
      BY <1>3, <2>2, DiffsLeaf
  <1> QED
    BY <1>1, <1>2, <1>3

LEMMA DiffsOfLooks ==
    ASSUME NEW f, NEW g, NEW x \in Pairs,
           \A y \in Pairs : Depth[y.reference] < Depth[x.reference] => f[y] = g[y]
    PROVE  DiffsOf(f, x) = DiffsOf(g, x)
  <1>1. CASE Ignored(x.path)
    BY <1>1, DiffsIgnored
  <1>2. CASE ~Ignored(x.path) /\ Nested(x)
    <2>1. ASSUME NEW k \in Compares(x) PROVE ChildDiffs(f, x, k) = ChildDiffs(g, x, k)
      <3>1. k \in AllKeys(x)
        BY <1>2, Shape
      <3>2. CASE InBoth(x, k)
        BY <1>2, <3>1, <3>2, PairBelow, ChildDiffsAre
      <3>3. CASE ~InBoth(x, k)
        BY <3>1, <3>3 DEF ChildDiffs, InBoth, AllKeys
      <3> QED
        BY <3>2, <3>3
    <2>2. DiffsOf(f, x) = UNION {ChildDiffs(f, x, k) : k \in Compares(x)}
          /\ DiffsOf(g, x) = UNION {ChildDiffs(g, x, k) : k \in Compares(x)}
      BY <1>2, DiffsNested
    <2> QED
      BY <2>1, <2>2
  <1>3. CASE ~Ignored(x.path) /\ ~Nested(x)
    BY <1>3, DiffsLeaf
  <1> QED
    BY <1>1, <1>2, <1>3

LEMMA DeepCompareUnfolds == \A x \in Pairs : DeepCompare[x] = DiffsOf(DeepCompare, x)
  <1> DEFINE T == SUBSET Differences
             B == [x \in Pairs |-> [f \in [Pairs -> T] |-> DiffsOf(f, x)]]
             rank == [x \in Pairs |-> Depth[x.reference]]
  <1>1. rank \in [Pairs -> Nat]
    BY ComparisonAssumption DEF ComparisonAssumption, Pairs
  <1>2. B \in [Pairs -> [[Pairs -> T] -> T]]
    BY DiffsOfType
  <1>3. \A x \in Pairs : \A f \in [Pairs -> T] : B[x][f] = DiffsOf(f, x)
    OBVIOUS
  <1>4. \A x \in Pairs : rank[x] = Depth[x.reference]
    OBVIOUS
  <1>5. T # {}
    OBVIOUS
  <1> HIDE DEF B, T, rank
  <1>6. Looks(B, Pairs, T, rank)
    <2> SUFFICES ASSUME NEW x \in Pairs, NEW f \in [Pairs -> T], NEW g \in [Pairs -> T],
                        \A y \in Pairs : rank[y] < rank[x] => f[y] = g[y]
                 PROVE  B[x][f] = B[x][g]
      BY DEF Looks
    <2>1. \A y \in Pairs : Depth[y.reference] < Depth[x.reference] => f[y] = g[y]
      BY <1>4
    <2>2. DiffsOf(f, x) = DiffsOf(g, x)
      BY <2>1, DiffsOfLooks
    <2> QED
      BY <1>3, <2>2
  <1>7. PICK f \in [Pairs -> T] : \A x \in Pairs : f[x] = B[x][f]
    <2>1. Recursion(B, Pairs, T, rank)
      BY <1>1, <1>2, <1>5, <1>6 DEF Recursion
    <2> QED
      BY <2>1, FixedPoint
  <1>8. f = [x \in Pairs |-> DiffsOf(f, x)]
    BY <1>3, <1>7
  <1>9. DeepCompare = [x \in Pairs |-> DiffsOf(DeepCompare, x)]
    BY <1>8, DeepCompareIs
  <1> QED
    BY <1>9

-----------------------------------------------------------------------------
(* What a value says, unfolded.                                            *)

Places == [path : Seq(Names), value : Values]

SaysOf(f, x) ==
    LET value == x.value
        here(v) == {[path |-> x.path, t |-> value.t, v |-> v]}
        name(k) == IF value.t = "dict" THEN k ELSE Item(k)
    IN
    IF Ignored(x.path) THEN {}
    ELSE IF value.t \in {"dict", "list"}
      THEN here(0) \cup UNION {f[[path |-> Append(x.path, name(k)), value |-> value.v[k]]] :
                               k \in DOMAIN value.v}
      ELSE here(value.v)

LEMMA SaysIs == Says = CHOOSE f : f = [x \in Places |-> SaysOf(f, x)]
  BY DEF Says, SaysOf, Places

IsTree(value) == value.t \in {"dict", "list"}
Root(x) == [path |-> x.path, t |-> x.value.t, v |-> IF IsTree(x.value) THEN 0 ELSE x.value.v]
Branch(x, k) == [path |-> Append(x.path, NameOf(x.value, k)), value |-> x.value.v[k]]

LEMMA SaysOfIgnored == ASSUME NEW f, NEW x, Ignored(x.path) PROVE SaysOf(f, x) = {}
  BY DEF SaysOf

LEMMA SaysOfTree ==
    ASSUME NEW f, NEW x, ~Ignored(x.path), IsTree(x.value)
    PROVE  SaysOf(f, x) = {Root(x)} \cup UNION {f[Branch(x, k)] : k \in DOMAIN x.value.v}
  BY DEF SaysOf, IsTree, Root, Branch, NameOf

LEMMA SaysOfLeaf ==
    ASSUME NEW f, NEW x, ~Ignored(x.path), ~IsTree(x.value)
    PROVE  SaysOf(f, x) = {Root(x)}
  BY DEF SaysOf, IsTree, Root

LEMMA PlaceBelow ==
    ASSUME NEW x \in Places, IsTree(x.value), NEW k \in DOMAIN x.value.v
    PROVE  /\ Branch(x, k) \in Places /\ Branch(x, k).path = Append(x.path, NameOf(x.value, k))
           /\ Branch(x, k).value = x.value.v[k]
           /\ x.path \in Seq(Names) /\ NameOf(x.value, k) \in Names
           /\ Depth[Branch(x, k).value] \in Nat /\ Depth[x.value] \in Nat
           /\ Depth[Branch(x, k).value] < Depth[x.value]
  <1>1. x.path \in Seq(Names) /\ x.value \in Values
    BY DEF Places
  <1>2. /\ x.value.v[k] \in Values /\ Depth[x.value.v[k]] \in Nat /\ Depth[x.value] \in Nat
        /\ Depth[x.value.v[k]] < Depth[x.value] /\ NameOf(x.value, k) \in Names
    BY <1>1, Content DEF IsTree
  <1> QED
    BY <1>1, <1>2 DEF Branch, Places

Facts ==
    [path : Seq(Names), t : {value.t : value \in Values}, v : {0} \cup {value.v : value \in Values}]

LEMMA RootIsFact == ASSUME NEW x \in Places PROVE Root(x) \in Facts
  BY DEF Places, Root, Facts

LEMMA SaysOfType ==
    ASSUME NEW f \in [Places -> SUBSET Facts], NEW x \in Places
    PROVE  SaysOf(f, x) \in SUBSET Facts
  <1>1. CASE Ignored(x.path)
    BY <1>1, SaysOfIgnored
  <1>2. CASE ~Ignored(x.path) /\ IsTree(x.value)
    <2>1. \A k \in DOMAIN x.value.v : f[Branch(x, k)] \in SUBSET Facts
      BY <1>2, PlaceBelow
    <2> QED
      BY <1>2, <2>1, SaysOfTree, RootIsFact
  <1>3. CASE ~Ignored(x.path) /\ ~IsTree(x.value)
    BY <1>3, SaysOfLeaf, RootIsFact
  <1> QED
    BY <1>1, <1>2, <1>3

LEMMA SaysOfLooks ==
    ASSUME NEW f, NEW g, NEW x \in Places,
           \A y \in Places : Depth[y.value] < Depth[x.value] => f[y] = g[y]
    PROVE  SaysOf(f, x) = SaysOf(g, x)
  <1>1. CASE Ignored(x.path)
    BY <1>1, SaysOfIgnored
  <1>2. CASE ~Ignored(x.path) /\ IsTree(x.value)
    <2>1. \A k \in DOMAIN x.value.v : f[Branch(x, k)] = g[Branch(x, k)]
      BY <1>2, PlaceBelow
    <2>2. {f[Branch(x, k)] : k \in DOMAIN x.value.v} = {g[Branch(x, k)] : k \in DOMAIN x.value.v}
      BY <2>1
    <2>3. /\ SaysOf(f, x) = {Root(x)} \cup UNION {f[Branch(x, k)] : k \in DOMAIN x.value.v}
          /\ SaysOf(g, x) = {Root(x)} \cup UNION {g[Branch(x, k)] : k \in DOMAIN x.value.v}
      BY <1>2, SaysOfTree
    <2> QED
      BY <2>2, <2>3
  <1>3. CASE ~Ignored(x.path) /\ ~IsTree(x.value)
    BY <1>3, SaysOfLeaf
  <1> QED
    BY <1>1, <1>2, <1>3

LEMMA SaysUnfolds == \A x \in Places : Says[x] = SaysOf(Says, x)
  <1> DEFINE T == SUBSET Facts
             B == [x \in Places |-> [f \in [Places -> T] |-> SaysOf(f, x)]]
             rank == [x \in Places |-> Depth[x.value]]
  <1>1. rank \in [Places -> Nat]
    BY ComparisonAssumption DEF ComparisonAssumption, Places
  <1>2. B \in [Places -> [[Places -> T] -> T]]
    BY SaysOfType
  <1>3. \A x \in Places : \A f \in [Places -> T] : B[x][f] = SaysOf(f, x)
    OBVIOUS
  <1>4. \A x \in Places : rank[x] = Depth[x.value]
    OBVIOUS
  <1>5. T # {}
    OBVIOUS
  <1> HIDE DEF B, T, rank
  <1>6. Looks(B, Places, T, rank)
    <2> SUFFICES ASSUME NEW x \in Places, NEW f \in [Places -> T], NEW g \in [Places -> T],
                        \A y \in Places : rank[y] < rank[x] => f[y] = g[y]
                 PROVE  B[x][f] = B[x][g]
      BY DEF Looks
    <2>1. \A y \in Places : Depth[y.value] < Depth[x.value] => f[y] = g[y]
      BY <1>4
    <2>2. SaysOf(f, x) = SaysOf(g, x)
      BY <2>1, SaysOfLooks
    <2> QED
      BY <1>3, <2>2
  <1>7. PICK f \in [Places -> T] : \A x \in Places : f[x] = B[x][f]
    <2>1. Recursion(B, Places, T, rank)
      BY <1>1, <1>2, <1>5, <1>6 DEF Recursion
    <2> QED
      BY <2>1, FixedPoint
  <1>8. f = [x \in Places |-> SaysOf(f, x)]
    BY <1>3, <1>7
  <1>9. Says = [x \in Places |-> SaysOf(Says, x)]
    BY <1>8, SaysIs
  <1> QED
    BY <1>9

-----------------------------------------------------------------------------
(* What a value says lies at its path and below it.                        *)

LEMMA ByDepth ==
    ASSUME NEW G, \A v \in Values : (\A u \in Values : Depth[u] < Depth[v] => u \in G) => v \in G
    PROVE  Values \subseteq G
  <1> DEFINE good == {n \in Nat : \A v \in Values : Depth[v] < n => v \in G}
  <1>1. \A v \in Values : Depth[v] \in Nat
    BY ComparisonAssumption DEF ComparisonAssumption
  <1>2. good \in SUBSET Nat /\ 0 \in good
    BY <1>1
  <1>3. ASSUME NEW n \in good PROVE n + 1 \in good
    <2>1. ASSUME NEW v \in Values, Depth[v] < n + 1 PROVE v \in G
      <3>1. \A u \in Values : Depth[u] < Depth[v] => Depth[u] < n
        BY <1>1, <2>1
      <3> QED
        BY <3>1
    <2> QED
      BY <2>1
  <1> HIDE DEF good
  <1>4. good = Nat
    BY <1>2, <1>3, SetInduction
  <1>5. ASSUME NEW v \in Values PROVE v \in G
    <2>1. Depth[v] + 1 \in good /\ Depth[v] < Depth[v] + 1
      BY <1>1, <1>4
    <2> QED
      BY <2>1 DEF good
  <1> QED
    BY <1>5

Extends(path, q) ==
    /\ q \in Seq(Names) /\ Len(q) \in Nat /\ Len(path) <= Len(q)
    /\ \A i \in 1..Len(path) : q[i] = path[i]

LEMMA ExtendsOne ==
    ASSUME NEW path \in Seq(Names), NEW name \in Names, NEW q, Extends(Append(path, name), q)
    PROVE  Extends(path, q) /\ Len(path) < Len(q) /\ q[Len(path) + 1] = name
  <1>1. /\ Len(path) \in Nat /\ Len(Append(path, name)) = Len(path) + 1
        /\ Append(path, name)[Len(path) + 1] = name
        /\ \A i \in 1..Len(path) : Append(path, name)[i] = path[i]
    OBVIOUS
  <1>2. q \in Seq(Names) /\ Len(q) \in Nat /\ Len(path) + 1 <= Len(q)
        /\ \A i \in 1..(Len(path) + 1) : q[i] = Append(path, name)[i]
    BY <1>1 DEF Extends
  <1>3. \A i \in 1..Len(path) : q[i] = path[i]
    BY <1>1, <1>2
  <1>4. q[Len(path) + 1] = name
    BY <1>1, <1>2
  <1> QED
    BY <1>1, <1>2, <1>3, <1>4 DEF Extends

(* What is said is said at the root, or below one branch.                  *)
SaysWell(x) == \A s \in Says[x] : s = Root(x) \/ (Extends(x.path, s.path) /\ Len(x.path) < Len(s.path))

LEMMA SaysTree ==
    ASSUME NEW x \in Places, ~Ignored(x.path), IsTree(x.value)
    PROVE  Says[x] = {Root(x)} \cup UNION {Says[Branch(x, k)] : k \in DOMAIN x.value.v}
  BY SaysUnfolds, SaysOfTree

LEMMA SaysLeaf ==
    ASSUME NEW x \in Places, ~Ignored(x.path), ~IsTree(x.value) PROVE Says[x] = {Root(x)}
  BY SaysUnfolds, SaysOfLeaf

LEMMA SaysIgnored == ASSUME NEW x \in Places, Ignored(x.path) PROVE Says[x] = {}
  BY SaysUnfolds, SaysOfIgnored

LEMMA RootPath == ASSUME NEW x \in Places PROVE Extends(x.path, Root(x).path) /\ Root(x).path = x.path
  <1>1. x.path \in Seq(Names) /\ Len(x.path) \in Nat /\ Root(x).path = x.path
    BY DEF Places, Root
  <1> QED
    BY <1>1 DEF Extends

LEMMA SaysBelow == \A x \in Places : SaysWell(x)
  <1> DEFINE G == {v \in Values : \A x \in Places : x.value = v => SaysWell(x)}
  <1>1. ASSUME NEW v \in Values, \A u \in Values : Depth[u] < Depth[v] => u \in G
        PROVE  v \in G
    <2> SUFFICES ASSUME NEW x \in Places, x.value = v PROVE SaysWell(x)
      OBVIOUS
    <2>1. CASE Ignored(x.path)
      BY <2>1, SaysIgnored DEF SaysWell
    <2>2. CASE ~Ignored(x.path) /\ ~IsTree(x.value)
      BY <2>2, SaysLeaf DEF SaysWell
    <2>3. CASE ~Ignored(x.path) /\ IsTree(x.value)
      <3> SUFFICES ASSUME NEW s \in Says[x], s # Root(x)
                   PROVE  Extends(x.path, s.path) /\ Len(x.path) < Len(s.path)
        BY DEF SaysWell
      <3>1. PICK k \in DOMAIN x.value.v : s \in Says[Branch(x, k)]
        BY <2>3, SaysTree
      <3> DEFINE y == Branch(x, k)
      <3>2. /\ y \in Places /\ y.path = Append(x.path, NameOf(x.value, k))
            /\ x.path \in Seq(Names) /\ NameOf(x.value, k) \in Names
            /\ y.value \in Values /\ Depth[y.value] < Depth[v]
        BY <2>3, PlaceBelow DEF Places
      <3> HIDE DEF y
      <3>3. SaysWell(y)
        BY <1>1, <3>2
      <3>4. Extends(y.path, s.path)
        BY <3>1, <3>2, <3>3, RootPath DEF SaysWell, y
      <3> QED
        BY <3>2, <3>4, ExtendsOne
    <2> QED
      BY <2>1, <2>2, <2>3
  <1> HIDE DEF G
  <1>2. Values \subseteq G
    BY <1>1, ByDepth
  <1> QED
    BY <1>2 DEF G, Places

(* The root says something unless it is ignored; a fact at its own path is *)
(* the root's; a fact below names the branch it comes from.                *)
LEMMA AtRoot ==
    ASSUME NEW x \in Places, NEW s \in Says[x], s.path = x.path PROVE s = Root(x)
  <1>1. s = Root(x) \/ (Len(x.path) < Len(x.path) /\ Len(x.path) \in Nat)
    BY SaysBelow DEF SaysWell, Places
  <1> QED
    BY <1>1

LEMMA RootSaid == ASSUME NEW x \in Places, ~Ignored(x.path) PROVE Root(x) \in Says[x]
  BY SaysTree, SaysLeaf

LEMMA FromBranch ==
    ASSUME NEW x \in Places, IsTree(x.value), NEW k \in DOMAIN x.value.v,
           NEW s \in Says[Branch(x, k)]
    PROVE  Len(x.path) < Len(s.path) /\ s.path[Len(x.path) + 1] = NameOf(x.value, k)
  <1> DEFINE y == Branch(x, k)
  <1>1. /\ y \in Places /\ y.path = Append(x.path, NameOf(x.value, k))
        /\ x.path \in Seq(Names) /\ NameOf(x.value, k) \in Names
    BY PlaceBelow
  <1> HIDE DEF y
  <1>2. Extends(y.path, s.path)
    BY <1>1, SaysBelow, RootPath DEF SaysWell, y
  <1> QED
    BY <1>1, <1>2, ExtendsOne

-----------------------------------------------------------------------------
(* deep_compare finds nothing exactly if both values say the same.         *)

LeftPlace(x) == [path |-> x.path, value |-> x.reference]
RightPlace(x) == [path |-> x.path, value |-> x.target]

Tells(S, T) == \A y \in T : \E x \in S : x.path = y.path
SayTheSame(x) ==
    Covers(Says[LeftPlace(x)], Says[RightPlace(x)]) /\ Tells(Says[LeftPlace(x)], Says[RightPlace(x)])
Judged(x) == DeepCompare[x] = {} <=> SayTheSame(x)

LEMMA PlacesOf ==
    ASSUME NEW x \in Pairs
    PROVE  /\ LeftPlace(x) \in Places /\ LeftPlace(x).path = x.path
           /\ LeftPlace(x).value = x.reference
           /\ RightPlace(x) \in Places /\ RightPlace(x).path = x.path
           /\ RightPlace(x).value = x.target
  BY DEF Pairs, Places, LeftPlace, RightPlace

LEMMA JudgedIgnored == ASSUME NEW x \in Pairs, Ignored(x.path) PROVE Judged(x)
  <1>1. DeepCompare[x] = {}
    BY DeepCompareUnfolds, DiffsIgnored
  <1>2. Says[LeftPlace(x)] = {} /\ Says[RightPlace(x)] = {}
    BY PlacesOf, SaysIgnored
  <1> QED
    BY <1>1, <1>2 DEF Judged, SayTheSame, Covers, Tells

LEMMA JudgedLeaf == ASSUME NEW x \in Pairs, ~Ignored(x.path), ~Nested(x) PROVE Judged(x)
  <1> DEFINE l == LeftPlace(x)
             r == RightPlace(x)
  <1>1. DeepCompare[x] =
             IF ~IsInstance(x.reference, x.target) THEN Found(x.path, "type_mismatch")
             ELSE IF x.reference.v # x.target.v THEN Found(x.path, "value_mismatch") ELSE {}
    BY DeepCompareUnfolds, DiffsLeaf
  <1>2. /\ l \in Places /\ l.path = x.path /\ l.value = x.reference
        /\ r \in Places /\ r.path = x.path /\ r.value = x.target
    BY PlacesOf
  <1> HIDE DEF l, r
  <1>3. /\ Root(l).path = x.path /\ Root(l).t = x.reference.t
        /\ Root(r).path = x.path /\ Root(r).t = x.target.t
    BY <1>2 DEF Root
  <1>4. CASE ~IsInstance(x.reference, x.target)
    <2>1. DeepCompare[x] # {}
      BY <1>1, <1>4 DEF Found
    <2>2. Root(l) \in Says[l]
      BY <1>2, RootSaid
    <2>3. ASSUME NEW y \in Says[r], y.path = Root(l).path PROVE ~IsInstance(Root(l), y)
      <3>1. y = Root(r)
        BY <1>2, <1>3, <2>3, AtRoot
      <3> QED
        BY <1>3, <1>4, <3>1 DEF IsInstance
    <2>4. ~Covers(Says[l], Says[r])
      BY <2>2, <2>3 DEF Covers
    <2> QED
      BY <2>1, <2>4 DEF Judged, SayTheSame, l, r
  <1>5. CASE IsInstance(x.reference, x.target)
    <2>1. ~IsTree(x.reference) /\ ~IsTree(x.target)
      BY <1>5 DEF IsInstance, Nested, Both, IsTree
    <2>2. Says[l] = {Root(l)} /\ Says[r] = {Root(r)}
      BY <1>2, <2>1, SaysLeaf
    <2>3. Root(l).v = x.reference.v /\ Root(r).v = x.target.v
      BY <1>2, <2>1 DEF Root
    <2>4. IsInstance(Root(l), Root(r))
      BY <1>3, <1>5 DEF IsInstance
    <2>5. Covers(Says[l], Says[r]) /\ Tells(Says[l], Says[r]) <=> x.reference.v = x.target.v
      BY <1>3, <2>2, <2>3, <2>4 DEF Covers, Tells
    <2>6. DeepCompare[x] = {} <=> x.reference.v = x.target.v
      BY <1>1, <1>5 DEF Found
    <2> QED
      BY <2>5, <2>6 DEF Judged, SayTheSame, l, r
  <1> QED
    BY <1>4, <1>5

LEMMA NoDiffs ==
    ASSUME NEW x \in Pairs, ~Ignored(x.path), Nested(x)
    PROVE  DeepCompare[x] = {} <=> \A k \in Compares(x) : InBoth(x, k) /\ DeepCompare[At(x, k)] = {}
  <1>1. DeepCompare[x] = UNION {ChildDiffs(DeepCompare, x, k) : k \in Compares(x)}
    BY DeepCompareUnfolds, DiffsNested
  <1>2. ASSUME NEW k \in Compares(x)
        PROVE  ChildDiffs(DeepCompare, x, k) = {} <=> InBoth(x, k) /\ DeepCompare[At(x, k)] = {}
    <2>1. k \in AllKeys(x)
      BY Shape
    <2>2. CASE InBoth(x, k)
      BY <2>1, <2>2, ChildDiffsAre
    <2>3. CASE ~InBoth(x, k)
      <3>1. PICK what \in {"missing_field", "extra_field"} :
                ChildDiffs(DeepCompare, x, k) = Found(Below(x, k), what)
        BY <2>1, <2>3, ChildDiffsAre
      <3> QED
        BY <2>3, <3>1 DEF Found
    <2> QED
      BY <2>2, <2>3
  <1> QED
    BY <1>1, <1>2

(* Two nested values: the branches of each side are the places below.      *)
LEMMA Branches ==
    ASSUME NEW x \in Pairs, ~Ignored(x.path), Nested(x)
    PROVE  LET l == LeftPlace(x)
               r == RightPlace(x)
           IN  /\ Says[l] = {Root(l)} \cup UNION {Says[Branch(l, k)] : k \in DOMAIN x.reference.v}
               /\ Says[r] = {Root(r)} \cup UNION {Says[Branch(r, k)] : k \in DOMAIN x.target.v}
               /\ Root(l).path = x.path /\ Root(r).path = x.path /\ Root(l) = Root(r)
               /\ \A k \in AllKeys(x) :
                     /\ Branch(l, k).path = Below(x, k) /\ Branch(r, k).path = Below(x, k)
                     /\ InBoth(x, k) => /\ LeftPlace(At(x, k)) = Branch(l, k)
                                        /\ RightPlace(At(x, k)) = Branch(r, k)
  <1> DEFINE l == LeftPlace(x)
             r == RightPlace(x)
  <1>1. /\ l \in Places /\ l.path = x.path /\ l.value = x.reference
        /\ r \in Places /\ r.path = x.path /\ r.value = x.target
    BY PlacesOf
  <1> HIDE DEF l, r
  <1>2. IsTree(x.reference) /\ IsTree(x.target) /\ x.reference.t = x.target.t
    BY DEF Nested, Both, IsTree
  <1>3. /\ Says[l] = {Root(l)} \cup UNION {Says[Branch(l, k)] : k \in DOMAIN x.reference.v}
        /\ Says[r] = {Root(r)} \cup UNION {Says[Branch(r, k)] : k \in DOMAIN x.target.v}
    BY <1>1, <1>2, SaysTree
  <1>4. Root(l).path = x.path /\ Root(r).path = x.path /\ Root(l) = Root(r)
    BY <1>1, <1>2 DEF Root
  <1>5. ASSUME NEW k \in AllKeys(x)
        PROVE  /\ Branch(l, k) = [path |-> Below(x, k), value |-> x.reference.v[k]]
               /\ Branch(r, k) = [path |-> Below(x, k), value |-> x.target.v[k]]
    <2>1. NameOf(x.target, k) = NameOf(x.reference, k)
      BY Shape
    <2> QED
      BY <1>1, <2>1 DEF Branch, Below
  <1>6. ASSUME NEW k \in AllKeys(x)
        PROVE  /\ LeftPlace(At(x, k)) = [path |-> Below(x, k), value |-> x.reference.v[k]]
               /\ RightPlace(At(x, k)) = [path |-> Below(x, k), value |-> x.target.v[k]]
    BY DEF At, LeftPlace, RightPlace
  <1> QED
    BY <1>3, <1>4, <1>5, <1>6 DEF l, r

LEMMA LeftBranch ==
    ASSUME NEW x \in Pairs, Nested(x), NEW k \in DOMAIN x.reference.v,
           NEW s \in Says[Branch(LeftPlace(x), k)]
    PROVE  /\ k \in Compares(x) /\ Len(x.path) < Len(s.path)
           /\ s.path[Len(x.path) + 1] = NameOf(x.reference, k)
  <1> DEFINE l == LeftPlace(x)
  <1>1. l \in Places /\ l.path = x.path /\ l.value = x.reference
    BY PlacesOf
  <1> HIDE DEF l
  <1>2. IsTree(x.reference) /\ k \in AllKeys(x)
    BY DEF Nested, Both, IsTree, AllKeys
  <1>3. Branch(l, k) \in Places /\ Branch(l, k).path = Below(x, k)
    BY <1>1, <1>2, PlaceBelow DEF Below
  <1>4. ~Ignored(Below(x, k))
    BY <1>3, SaysIgnored DEF l
  <1>5. k \in Compares(x)
    BY <1>2, <1>4, Shape
  <1>6. Len(x.path) < Len(s.path) /\ s.path[Len(x.path) + 1] = NameOf(x.reference, k)
    BY <1>1, <1>2, FromBranch DEF l
  <1> QED
    BY <1>5, <1>6

LEMMA RightBranch ==
    ASSUME NEW x \in Pairs, Nested(x), NEW k \in DOMAIN x.target.v,
           NEW s \in Says[Branch(RightPlace(x), k)]
    PROVE  /\ k \in Compares(x) /\ Len(x.path) < Len(s.path)
           /\ s.path[Len(x.path) + 1] = NameOf(x.reference, k)
  <1> DEFINE r == RightPlace(x)
  <1>1. r \in Places /\ r.path = x.path /\ r.value = x.target
    BY PlacesOf
  <1> HIDE DEF r
  <1>2. IsTree(x.target) /\ k \in AllKeys(x)
    BY DEF Nested, Both, IsTree, AllKeys
  <1>3. NameOf(x.target, k) = NameOf(x.reference, k)
    BY <1>2, Shape
  <1>4. Branch(r, k) \in Places /\ Branch(r, k).path = Below(x, k)
    BY <1>1, <1>2, <1>3, PlaceBelow DEF Below
  <1>5. ~Ignored(Below(x, k))
    BY <1>4, SaysIgnored DEF r
  <1>6. k \in Compares(x)
    BY <1>2, <1>5, Shape
  <1>7. Len(x.path) < Len(s.path) /\ s.path[Len(x.path) + 1] = NameOf(x.reference, k)
    BY <1>1, <1>2, <1>3, FromBranch DEF r
  <1> QED
    BY <1>6, <1>7

(* If every key compared is in both and says the same there, so do both.   *)
LEMMA SameBelow ==
    ASSUME NEW x \in Pairs, ~Ignored(x.path), Nested(x),
           \A k \in Compares(x) : InBoth(x, k) /\ SayTheSame(At(x, k))
    PROVE  SayTheSame(x)
  <1> DEFINE l == LeftPlace(x)
             r == RightPlace(x)
  <1>1. /\ Says[l] = {Root(l)} \cup UNION {Says[Branch(l, k)] : k \in DOMAIN x.reference.v}
        /\ Says[r] = {Root(r)} \cup UNION {Says[Branch(r, k)] : k \in DOMAIN x.target.v}
        /\ Root(l) = Root(r)
    BY Branches
  <1>2. ASSUME NEW k \in Compares(x)
        PROVE  /\ k \in DOMAIN x.reference.v /\ k \in DOMAIN x.target.v
               /\ Covers(Says[Branch(l, k)], Says[Branch(r, k)])
               /\ Tells(Says[Branch(l, k)], Says[Branch(r, k)])
    <2>1. InBoth(x, k) /\ SayTheSame(At(x, k)) /\ k \in AllKeys(x)
      BY <1>2, Shape
    <2>2. LeftPlace(At(x, k)) = Branch(l, k) /\ RightPlace(At(x, k)) = Branch(r, k)
      BY <2>1, Branches
    <2> QED
      BY <2>1, <2>2 DEF InBoth, SayTheSame
  <1>3. \A k \in DOMAIN x.reference.v : Says[Branch(l, k)] # {} => k \in Compares(x)
    BY LeftBranch
  <1>4. \A k \in DOMAIN x.target.v : Says[Branch(r, k)] # {} => k \in Compares(x)
    BY RightBranch
  <1>5. SayTheSame(x) <=> Covers(Says[l], Says[r]) /\ Tells(Says[l], Says[r])
    BY DEF SayTheSame
  <1> HIDE DEF l, r
  <1>6. Covers(Says[l], Says[r])
    <2> SUFFICES ASSUME NEW s \in Says[l]
                 PROVE  \E y \in Says[r] : s.path = y.path /\ s.v = y.v /\ IsInstance(s, y)
      BY DEF Covers
    <2>1. CASE s = Root(l)
      BY <1>1, <2>1 DEF IsInstance
    <2>2. CASE s # Root(l)
      <3>1. PICK k \in DOMAIN x.reference.v : s \in Says[Branch(l, k)]
        BY <1>1, <2>2
      <3>2. k \in Compares(x)
        BY <1>3, <3>1
      <3>3. PICK y \in Says[Branch(r, k)] : s.path = y.path /\ s.v = y.v /\ IsInstance(s, y)
        BY <1>2, <3>1, <3>2 DEF Covers
      <3>4. y \in Says[r]
        BY <1>1, <1>2, <3>2, <3>3
      <3> QED
        BY <3>3, <3>4
    <2> QED
      BY <2>1, <2>2
  <1>7. Tells(Says[l], Says[r])
    <2> SUFFICES ASSUME NEW y \in Says[r] PROVE \E s \in Says[l] : s.path = y.path
      BY DEF Tells
    <2>1. CASE y = Root(r)
      BY <1>1, <2>1
    <2>2. CASE y # Root(r)
      <3>1. PICK k \in DOMAIN x.target.v : y \in Says[Branch(r, k)]
        BY <1>1, <2>2
      <3>2. k \in Compares(x)
        BY <1>4, <3>1
      <3>3. PICK s \in Says[Branch(l, k)] : s.path = y.path
        BY <1>2, <3>1, <3>2 DEF Tells
      <3>4. s \in Says[l]
        BY <1>1, <1>2, <3>2, <3>3
      <3> QED
        BY <3>3, <3>4
    <2> QED
      BY <2>1, <2>2
  <1> QED
    BY <1>5, <1>6, <1>7

(* Facts of both sides at one path come from the same key.                 *)
LEMMA OneKey ==
    ASSUME NEW x \in Pairs, Nested(x), NEW j \in AllKeys(x), NEW k \in AllKeys(x),
           NEW p, p[Len(x.path) + 1] = NameOf(x.reference, j),
           p[Len(x.path) + 1] = NameOf(x.reference, k)
    PROVE  j = k
  BY Shape

(* If both say the same, every key compared is in both and says the same.  *)
LEMMA SameEach ==
    ASSUME NEW x \in Pairs, ~Ignored(x.path), Nested(x), SayTheSame(x), NEW k \in Compares(x)
    PROVE  InBoth(x, k) /\ SayTheSame(At(x, k))
  <1> DEFINE l == LeftPlace(x)
             r == RightPlace(x)
  <1>1. /\ Says[l] = {Root(l)} \cup UNION {Says[Branch(l, n)] : n \in DOMAIN x.reference.v}
        /\ Says[r] = {Root(r)} \cup UNION {Says[Branch(r, n)] : n \in DOMAIN x.target.v}
        /\ Root(l).path = x.path /\ Root(r).path = x.path
    BY Branches
  <1>2. Covers(Says[l], Says[r]) /\ Tells(Says[l], Says[r])
    BY DEF SayTheSame
  <1>3. k \in AllKeys(x) /\ ~Ignored(Below(x, k)) /\ Len(x.path) \in Nat
    BY Shape
  <1>4. ASSUME NEW s \in Says[Branch(l, k)], k \in DOMAIN x.reference.v,
               NEW y \in Says[r], y.path = s.path
        PROVE  k \in DOMAIN x.target.v /\ y \in Says[Branch(r, k)]
    <2>1. Len(x.path) < Len(s.path) /\ s.path[Len(x.path) + 1] = NameOf(x.reference, k)
      BY <1>4, LeftBranch
    <2>2. y # Root(r)
      BY <1>1, <1>3, <1>4, <2>1
    <2>3. PICK n \in DOMAIN x.target.v : y \in Says[Branch(r, n)]
      BY <1>1, <1>4, <2>2
    <2>4. y.path[Len(x.path) + 1] = NameOf(x.reference, n) /\ n \in AllKeys(x)
      BY <2>3, RightBranch DEF AllKeys
    <2>5. n = k
      BY <1>3, <1>4, <2>1, <2>4, OneKey
    <2> QED
      BY <2>3, <2>5
  <1>5. ASSUME NEW y \in Says[Branch(r, k)], k \in DOMAIN x.target.v,
               NEW s \in Says[l], s.path = y.path
        PROVE  k \in DOMAIN x.reference.v /\ s \in Says[Branch(l, k)]
    <2>1. Len(x.path) < Len(y.path) /\ y.path[Len(x.path) + 1] = NameOf(x.reference, k)
      BY <1>5, RightBranch
    <2>2. s # Root(l)
      BY <1>1, <1>3, <1>5, <2>1
    <2>3. PICK n \in DOMAIN x.reference.v : s \in Says[Branch(l, n)]
      BY <1>1, <1>5, <2>2
    <2>4. s.path[Len(x.path) + 1] = NameOf(x.reference, n) /\ n \in AllKeys(x)
      BY <2>3, LeftBranch DEF AllKeys
    <2>5. n = k
      BY <1>3, <1>5, <2>1, <2>4, OneKey
    <2> QED
      BY <2>3, <2>5
  <1>6. /\ k \in DOMAIN x.reference.v => \E s \in Says[Branch(l, k)] : TRUE
        /\ k \in DOMAIN x.target.v => \E y \in Says[Branch(r, k)] : TRUE
    <2>1. IsTree(x.reference) /\ IsTree(x.target)
      BY DEF Nested, Both, IsTree
    <2>2. Branch(l, k).path = Below(x, k) /\ Branch(r, k).path = Below(x, k)
      BY <1>3, Branches
    <2>3. k \in DOMAIN x.reference.v => Branch(l, k) \in Places
      BY <2>1, PlacesOf, PlaceBelow
    <2>4. k \in DOMAIN x.target.v => Branch(r, k) \in Places
      BY <2>1, PlacesOf, PlaceBelow
    <2> QED
      BY <1>3, <2>2, <2>3, <2>4, RootSaid
  <1> HIDE DEF l, r
  <1>7. InBoth(x, k)
    <2>1. ASSUME k \in DOMAIN x.reference.v PROVE k \in DOMAIN x.target.v
      <3>1. PICK s \in Says[Branch(l, k)] : TRUE
        BY <1>6, <2>1
      <3>2. PICK y \in Says[r] : s.path = y.path
        BY <1>1, <1>2, <2>1, <3>1 DEF Covers
      <3> QED
        BY <1>4, <2>1, <3>2
    <2>2. ASSUME k \in DOMAIN x.target.v PROVE k \in DOMAIN x.reference.v
      <3>1. PICK y \in Says[Branch(r, k)] : TRUE
        BY <1>6, <2>2
      <3>2. PICK s \in Says[l] : s.path = y.path
        BY <1>1, <1>2, <2>2, <3>1 DEF Tells
      <3> QED
        BY <1>5, <2>2, <3>2
    <2> QED
      BY <1>3, <2>1, <2>2 DEF InBoth, AllKeys
  <1>8. Covers(Says[Branch(l, k)], Says[Branch(r, k)])
    <2> SUFFICES ASSUME NEW s \in Says[Branch(l, k)]
                 PROVE  \E y \in Says[Branch(r, k)] : s.path = y.path /\ s.v = y.v /\ IsInstance(s, y)
      BY DEF Covers
    <2>1. PICK y \in Says[r] : s.path = y.path /\ s.v = y.v /\ IsInstance(s, y)
      BY <1>1, <1>2, <1>7 DEF Covers, InBoth
    <2> QED
      BY <1>4, <1>7, <2>1 DEF InBoth
  <1>9. Tells(Says[Branch(l, k)], Says[Branch(r, k)])
    <2> SUFFICES ASSUME NEW y \in Says[Branch(r, k)]
                 PROVE  \E s \in Says[Branch(l, k)] : s.path = y.path
      BY DEF Tells
    <2>1. PICK s \in Says[l] : s.path = y.path
      BY <1>1, <1>2, <1>7 DEF Tells, InBoth
    <2> QED
      BY <1>5, <1>7, <2>1 DEF InBoth
  <1>10. LeftPlace(At(x, k)) = Branch(l, k) /\ RightPlace(At(x, k)) = Branch(r, k)
    BY <1>3, <1>7, Branches DEF l, r
  <1> QED
    BY <1>7, <1>8, <1>9, <1>10 DEF SayTheSame

LEMMA DeepCompareJudges == \A x \in Pairs : Judged(x)
  <1> DEFINE G == {v \in Values : \A x \in Pairs : x.reference = v => Judged(x)}
  <1>1. ASSUME NEW v \in Values, \A u \in Values : Depth[u] < Depth[v] => u \in G
        PROVE  v \in G
    <2> SUFFICES ASSUME NEW x \in Pairs, x.reference = v, ~Ignored(x.path), Nested(x)
                 PROVE  Judged(x)
      BY JudgedIgnored, JudgedLeaf
    <2>1. ASSUME NEW k, InBoth(x, k) PROVE Judged(At(x, k))
      <3>1. At(x, k) \in Pairs /\ Depth[At(x, k).reference] < Depth[v]
        BY <2>1, PairBelow
      <3>2. At(x, k).reference \in G
        BY <1>1, <3>1 DEF Pairs
      <3> QED
        BY <3>1, <3>2
    <2> HIDE DEF G
    <2>2. DeepCompare[x] = {} <=> \A k \in Compares(x) : InBoth(x, k) /\ SayTheSame(At(x, k))
      BY <2>1, NoDiffs DEF Judged
    <2> QED
      BY <2>2, SameBelow, SameEach DEF Judged
  <1> HIDE DEF G
  <1>2. Values \subseteq G
    BY <1>1, ByDepth
  <1> QED
    BY <1>2 DEF G, Pairs

(* For any two values, deep_compare finds no difference exactly if they    *)
(* agree on every field that is not ignored (the recursion of              *)
(* comparison.py:98, at any depth, with any ignored fields).               *)
THEOREM DeepCompareDecides ==
    \A r, t \in Values :
        DeepCompare[[path |-> <<>>, reference |-> r, target |-> t]] = {} <=> Agree(r, t)
  <1> TAKE r, t \in Values
  <1> DEFINE x == [path |-> <<>>, reference |-> r, target |-> t]
  <1>1. x \in Pairs
    BY DEF Pairs
  <1>2. LeftPlace(x) = [path |-> <<>>, value |-> r] /\ RightPlace(x) = [path |-> <<>>, value |-> t]
    BY DEF LeftPlace, RightPlace
  <1>3. SayTheSame(x) <=> Agree(r, t)
    BY <1>2 DEF SayTheSame, Tells, Agree
  <1> HIDE DEF x
  <1>4. DeepCompare[x] = {} <=> SayTheSame(x)
    BY <1>1, DeepCompareJudges DEF Judged
  <1> QED
    BY <1>3, <1>4 DEF x

-----------------------------------------------------------------------------
(* compare and compare_many.                                               *)

AllAnswers == UNION {Answers(c) : c \in Questions}
RecordOf(c, a, b) == [call |-> c, reference |-> a, target |-> b, diffs |-> Diffs(a, b)]
Records == {RecordOf(c, a, b) : c \in Questions, a \in AllAnswers, b \in AllAnswers}

Once == \A i, j \in DOMAIN results : results[i].call = results[j].call => i = j

AsHeard ==
    \A i \in DOMAIN results :
        /\ results[i].reference = heard[results[i].call]["reference"]
        /\ results[i].target = heard[results[i].call]["target"]

ReturnedOK ==
    returned # <<>> =>
        /\ \A c \in Questions : Compared(c)
        /\ Range(returned) = Range(results)
        /\ \A c \in Questions : returned[c].call = c

IInvComparison ==
    /\ heard \in [Questions -> [Sides -> AllAnswers \cup {Unheard}]]
    /\ results \in Seq(Records)
    /\ Once /\ AsHeard /\ ReturnedOK

LEMMA AnswersAre ==
    ASSUME NEW a \in AllAnswers
    PROVE  /\ a # Unheard
           /\ a.is \in {"result", "error", "exception"} /\ (~IsError(a) => a.value \in Values)
  <1>1. a.is \in {"result", "error", "exception"} /\ (a.is = "result" => a.value \in Values)
    BY ComparisonAssumption DEF ComparisonAssumption, AllAnswers
  <1>2. Unheard.is = "unheard"
    BY DEF Unheard
  <1> QED
    BY <1>1, <1>2 DEF IsError

LEMMA RecordFields ==
    ASSUME NEW r \in Records
    PROVE  /\ r.call \in Questions /\ r.reference \in AllAnswers /\ r.target \in AllAnswers
           /\ r.diffs = Diffs(r.reference, r.target)
  BY DEF Records, RecordOf

(* The verdict on one record.                                              *)
LEMMA RecordVerdict ==
    ASSUME NEW r \in Records
    PROVE  LET a == r.reference
               b == r.target
           IN  /\ Matches(r) <=>
                     \/ IsError(a) /\ IsError(b) /\ Code(a) = Code(b)
                     \/ ~IsError(a) /\ ~IsError(b) /\ Agree(a.value, b.value)
               /\ Matches(r) <=> Kind(r) \in {"match", "both_error"}
  <1> DEFINE a == r.reference
             b == r.target
  <1>1. /\ Matches(r) <=> Diffs(a, b) = {}
        /\ ~IsError(a) => a.value \in Values
        /\ ~IsError(b) => b.value \in Values
    BY RecordFields, AnswersAre DEF Matches
  <1>2. CASE IsError(a) /\ IsError(b)
    <2>1. Diffs(a, b) = {} <=> Code(a) = Code(b)
      BY <1>2 DEF Diffs, Found
    <2>2. Kind(r) = IF Code(a) = Code(b) THEN "both_error" ELSE "error_mismatch"
      BY <1>2 DEF Kind
    <2> QED
      BY <1>1, <1>2, <2>1, <2>2
  <1>3. CASE IsError(a) # IsError(b)
    <2>1. Diffs(a, b) # {}
      BY <1>3 DEF Diffs, Found, IsError
    <2>2. Kind(r) \in {"reference_error", "target_error"}
      BY <1>3 DEF Kind, IsError
    <2> QED
      BY <1>1, <1>3, <2>1, <2>2 DEF IsError
  <1>4. CASE ~IsError(a) /\ ~IsError(b)
    <2>1. Diffs(a, b) = DeepCompare[[path |-> <<>>, reference |-> a.value, target |-> b.value]]
      BY <1>4 DEF Diffs, IsError
    <2>2. Diffs(a, b) = {} <=> Agree(a.value, b.value)
      BY <1>1, <1>4, <2>1, DeepCompareDecides
    <2>3. Kind(r) = IF Matches(r) THEN "match" ELSE "value_mismatch"
      BY <1>4 DEF Kind, IsError
    <2> QED
      BY <1>1, <1>4, <2>2, <2>3
  <1> QED
    BY <1>2, <1>3, <1>4 DEF IsError

LEMMA ComparisonSoundNow == IInvComparison => VerdictSound
  <1> SUFFICES ASSUME IInvComparison PROVE VerdictSound
    OBVIOUS
  <1>1. \A r \in Range(results) : \E i \in DOMAIN results : r = results[i]
    BY DEF Range
  <1>2. \A i \in DOMAIN results : results[i] \in Records
    BY DEF IInvComparison
  <1>3. ASSUME NEW r \in Range(results)
        PROVE  /\ r \in Records
               /\ r.reference = heard[r.call]["reference"] /\ r.target = heard[r.call]["target"]
    BY <1>1, <1>2 DEF IInvComparison, AsHeard
  <1>4. Once /\ ReturnedOK
    BY DEF IInvComparison
  <1> QED
    BY <1>3, <1>4, RecordVerdict DEF VerdictSound, Once, ReturnedOK

LEMMA ComparisonStarts == ComparisonInit => IInvComparison
  BY DEF ComparisonInit, IInvComparison, Once, AsHeard, ReturnedOK

LEMMA HearInv ==
    ASSUME IInvComparison, NEW c \in Questions, NEW side \in Sides, Hear(c, side)
    PROVE  IInvComparison'
  <1>1. PICK answer \in Answers(c) : heard' = [heard EXCEPT ![c][side] = answer]
    BY DEF Hear
  <1>2. UNCHANGED <<results, returned>> /\ heard[c][side] = Unheard
    BY DEF Hear
  <1>3. heard' \in [Questions -> [Sides -> AllAnswers \cup {Unheard}]]
    BY <1>1 DEF IInvComparison, AllAnswers
  <1>4. ASSUME NEW i \in DOMAIN results, NEW s \in Sides, heard[results[i].call][s] \in AllAnswers
        PROVE  heard'[results[i].call][s] = heard[results[i].call][s]
    <2>1. results[i].call \in Questions
      BY RecordFields DEF IInvComparison
    <2>2. ~(results[i].call = c /\ s = side)
      BY <1>2, <1>4, AnswersAre
    <2> QED
      BY <1>1, <2>1, <2>2 DEF IInvComparison
  <1>5. AsHeard'
    <2> SUFFICES ASSUME NEW i \in DOMAIN results
                 PROVE  /\ results[i].reference = heard'[results[i].call]["reference"]
                        /\ results[i].target = heard'[results[i].call]["target"]
      BY <1>2 DEF AsHeard
    <2>1. results[i].reference \in AllAnswers /\ results[i].target \in AllAnswers
      BY RecordFields DEF IInvComparison
    <2>2. /\ results[i].reference = heard[results[i].call]["reference"]
          /\ results[i].target = heard[results[i].call]["target"]
      BY DEF IInvComparison, AsHeard
    <2> QED
      BY <1>4, <2>1, <2>2 DEF Sides
  <1>6. Once' /\ ReturnedOK'
    BY <1>2 DEF IInvComparison, Once, ReturnedOK, Compared, Range
  <1> QED
    BY <1>2, <1>3, <1>5, <1>6 DEF IInvComparison

LEMMA CompareInv == ASSUME IInvComparison, NEW c \in Questions, Compare(c) PROVE IInvComparison'
  <1> DEFINE r == Result(c)
             n == Len(results)
  <1>1. /\ results' = Append(results, r) /\ UNCHANGED <<heard, returned>>
        /\ ~Compared(c) /\ \A side \in Sides : heard[c][side] # Unheard
    BY DEF Compare
  <1>2. r \in Records /\ r.call = c
        /\ r.reference = heard[c]["reference"] /\ r.target = heard[c]["target"]
    <2>1. heard[c]["reference"] \in AllAnswers /\ heard[c]["target"] \in AllAnswers
      BY <1>1 DEF IInvComparison, Sides
    <2>2. r = RecordOf(c, heard[c]["reference"], heard[c]["target"])
      BY DEF Result, RecordOf
    <2> QED
      BY <2>1, <2>2 DEF Records, RecordOf
  <1> HIDE DEF r
  <1>3. results \in Seq(Records) /\ n \in Nat /\ DOMAIN results = 1..n
    BY DEF IInvComparison
  <1>4. /\ results' \in Seq(Records) /\ DOMAIN results' = 1..(n + 1)
        /\ results'[n + 1] = r /\ \A i \in 1..n : results'[i] = results[i]
    BY <1>1, <1>2, <1>3
  <1>5. \A i \in 1..n : results[i].call # c
    BY <1>1, <1>3 DEF Compared
  <1>6. Once'
    <2> SUFFICES ASSUME NEW i \in 1..(n + 1), NEW j \in 1..(n + 1),
                        results'[i].call = results'[j].call
                 PROVE  i = j
      BY <1>4 DEF Once
    <2>1. CASE i \in 1..n /\ j \in 1..n
      BY <1>3, <1>4, <2>1 DEF IInvComparison, Once
    <2>2. CASE i = n + 1 /\ j \in 1..n
      BY <1>2, <1>4, <1>5, <2>2
    <2>3. CASE i \in 1..n /\ j = n + 1
      BY <1>2, <1>4, <1>5, <2>3
    <2> QED
      BY <1>3, <2>1, <2>2, <2>3
  <1>7. AsHeard'
    <2> SUFFICES ASSUME NEW i \in 1..(n + 1)
                 PROVE  /\ results'[i].reference = heard[results'[i].call]["reference"]
                        /\ results'[i].target = heard[results'[i].call]["target"]
      BY <1>1, <1>4 DEF AsHeard
    <2>1. CASE i \in 1..n
      BY <1>3, <1>4, <2>1 DEF IInvComparison, AsHeard
    <2>2. CASE i = n + 1
      BY <1>2, <1>4, <2>2
    <2> QED
      BY <1>3, <2>1, <2>2
  <1>8. ReturnedOK'
    <2>1. returned = <<>>
      BY <1>1 DEF IInvComparison, ReturnedOK
    <2> QED
      BY <1>1, <2>1 DEF ReturnedOK
  <1>9. heard' \in [Questions -> [Sides -> AllAnswers \cup {Unheard}]]
    BY <1>1 DEF IInvComparison
  <1> QED
    BY <1>4, <1>6, <1>7, <1>8, <1>9 DEF IInvComparison

LEMMA CompareManyInv == ASSUME IInvComparison, CompareMany PROVE IInvComparison'
  <1> DEFINE chosen(c) == CHOOSE r \in Range(results) : r.call = c
  <1>1. /\ \A c \in Questions : Compared(c)
        /\ returned' = [c \in Questions |-> chosen(c)] /\ UNCHANGED <<heard, results>>
    BY DEF CompareMany
  <1>2. Range(results) = {results[i] : i \in DOMAIN results}
    BY DEF Range
  <1>3. ASSUME NEW c \in Questions PROVE chosen(c) \in Range(results) /\ chosen(c).call = c
    <2>1. PICK i \in DOMAIN results : results[i].call = c
      BY <1>1 DEF Compared
    <2>2. results[i] \in Range(results)
      BY <1>2
    <2> QED
      BY <2>1, <2>2
  <1>4. ASSUME NEW r \in Range(results) PROVE r.call \in Questions /\ chosen(r.call) = r
    <2>1. PICK i \in DOMAIN results : r = results[i]
      BY <1>2
    <2>2. r.call \in Questions
      BY <2>1, RecordFields DEF IInvComparison
    <2>3. PICK j \in DOMAIN results : chosen(r.call) = results[j]
      BY <1>2, <1>3, <2>2
    <2>4. results[j].call = results[i].call
      BY <1>3, <2>1, <2>2, <2>3
    <2>5. i = j
      BY <2>4 DEF IInvComparison, Once
    <2> QED
      BY <2>1, <2>2, <2>3, <2>5
  <1> HIDE DEF chosen
  <1>5. \A c \in Questions : returned'[c].call = c
    BY <1>1, <1>3
  <1>6. Range(returned') = {chosen(c) : c \in Questions}
    BY <1>1 DEF Range
  <1>7. Range(returned') = Range(results)
    BY <1>3, <1>4, <1>6
  <1>8. ReturnedOK'
    <2>1. results' = results
      BY <1>1
    <2>2. \A c \in Questions : Compared(c)'
      BY <1>1, <2>1 DEF Compared
    <2>3. Range(returned)' = Range(results)'
      BY <1>7, <2>1
    <2> QED
      BY <1>5, <2>2, <2>3 DEF ReturnedOK
  <1> QED
    BY <1>1, <1>8 DEF IInvComparison, Once, AsHeard

LEMMA ComparisonStep == IInvComparison /\ [ComparisonNext]_comparisonVars => IInvComparison'
  <1> SUFFICES ASSUME IInvComparison, [ComparisonNext]_comparisonVars PROVE IInvComparison'
    OBVIOUS
  <1>1. CASE UNCHANGED comparisonVars
    BY <1>1 DEF comparisonVars, IInvComparison, Once, AsHeard, ReturnedOK, Compared
  <1>2. CASE \E c \in Questions, side \in Sides : Hear(c, side)
    BY <1>2, HearInv
  <1>3. CASE \E c \in Questions : Compare(c)
    BY <1>3, CompareInv
  <1>4. CASE CompareMany
    BY <1>4, CompareManyInv
  <1> QED
    BY <1>1, <1>2, <1>3, <1>4 DEF ComparisonNext, Done

(* Every call is recorded once, with the answers of its own two sides, and *)
(* the verdict on it is the definition's, for any number of calls, any     *)
(* values and any order of the answers (comparison.py:195, 265).           *)
THEOREM VerdictsAreSound == ComparisonSpec => []VerdictSound
  <1>1. ComparisonSpec => []IInvComparison
    BY ComparisonStarts, ComparisonStep, PTL DEF ComparisonSpec
  <1> QED
    BY <1>1, ComparisonSoundNow, PTL

-----------------------------------------------------------------------------
(* What deep_compare reports is there.                                     *)

(* A missing field is one only the reference has, an extra one only the    *)
(* target; a mismatch is at a path where both say something else.          *)
TrueOf(d, S, T) ==
    /\ d.kind = "missing_field" =>
          (\E s \in S : s.path = d.path) /\ (\A y \in T : y.path # d.path)
    /\ d.kind = "extra_field" =>
          (\A s \in S : s.path # d.path) /\ (\E y \in T : y.path = d.path)
    /\ d.kind = "type_mismatch" =>
          \E s \in S, y \in T : s.path = d.path /\ y.path = d.path /\ ~IsInstance(s, y)
    /\ d.kind = "value_mismatch" =>
          \E s \in S, y \in T : s.path = d.path /\ y.path = d.path /\ IsInstance(s, y) /\ s.v # y.v
    /\ d.kind \in {"missing_field", "extra_field", "type_mismatch", "value_mismatch"}

ReportsTrue(x) ==
    \A d \in DeepCompare[x] :
        Extends(x.path, d.path) /\ TrueOf(d, Says[LeftPlace(x)], Says[RightPlace(x)])

(* A fact at the path of a key, or below it, comes from that key.          *)
LEMMA LeftAt ==
    ASSUME NEW x \in Pairs, ~Ignored(x.path), Nested(x), NEW k \in AllKeys(x),
           NEW s \in Says[LeftPlace(x)], Extends(Below(x, k), s.path)
    PROVE  k \in DOMAIN x.reference.v /\ s \in Says[Branch(LeftPlace(x), k)]
  <1> DEFINE l == LeftPlace(x)
  <1>1. /\ Says[l] = {Root(l)} \cup UNION {Says[Branch(l, n)] : n \in DOMAIN x.reference.v}
        /\ Root(l).path = x.path
    BY Branches
  <1>2. x.path \in Seq(Names) /\ NameOf(x.reference, k) \in Names /\ Len(x.path) \in Nat
    BY Shape
  <1>3. Len(x.path) < Len(s.path) /\ s.path[Len(x.path) + 1] = NameOf(x.reference, k)
    BY <1>2, ExtendsOne DEF Below
  <1>4. s # Root(l)
    BY <1>1, <1>2, <1>3
  <1>5. PICK n \in DOMAIN x.reference.v : s \in Says[Branch(l, n)]
    BY <1>1, <1>4
  <1>6. s.path[Len(x.path) + 1] = NameOf(x.reference, n) /\ n \in AllKeys(x)
    BY <1>5, LeftBranch DEF AllKeys
  <1>7. n = k
    BY <1>3, <1>6, OneKey
  <1> QED
    BY <1>5, <1>7

LEMMA RightAt ==
    ASSUME NEW x \in Pairs, ~Ignored(x.path), Nested(x), NEW k \in AllKeys(x),
           NEW y \in Says[RightPlace(x)], Extends(Below(x, k), y.path)
    PROVE  k \in DOMAIN x.target.v /\ y \in Says[Branch(RightPlace(x), k)]
  <1> DEFINE r == RightPlace(x)
  <1>1. /\ Says[r] = {Root(r)} \cup UNION {Says[Branch(r, n)] : n \in DOMAIN x.target.v}
        /\ Root(r).path = x.path
    BY Branches
  <1>2. x.path \in Seq(Names) /\ NameOf(x.reference, k) \in Names /\ Len(x.path) \in Nat
    BY Shape
  <1>3. Len(x.path) < Len(y.path) /\ y.path[Len(x.path) + 1] = NameOf(x.reference, k)
    BY <1>2, ExtendsOne DEF Below
  <1>4. y # Root(r)
    BY <1>1, <1>2, <1>3
  <1>5. PICK n \in DOMAIN x.target.v : y \in Says[Branch(r, n)]
    BY <1>1, <1>4
  <1>6. y.path[Len(x.path) + 1] = NameOf(x.reference, n) /\ n \in AllKeys(x)
    BY <1>5, RightBranch DEF AllKeys
  <1>7. n = k
    BY <1>3, <1>6, OneKey
  <1> QED
    BY <1>5, <1>7

LEMMA SelfExtends == ASSUME NEW p \in Seq(Names) PROVE Extends(p, p)
  <1>1. Len(p) \in Nat
    OBVIOUS
  <1> QED
    BY <1>1 DEF Extends

LEMMA LeafReportsTrue ==
    ASSUME NEW x \in Pairs, ~Ignored(x.path), ~Nested(x) PROVE ReportsTrue(x)
  <1> DEFINE l == LeftPlace(x)
             r == RightPlace(x)
  <1>1. DeepCompare[x] =
             IF ~IsInstance(x.reference, x.target) THEN Found(x.path, "type_mismatch")
             ELSE IF x.reference.v # x.target.v THEN Found(x.path, "value_mismatch") ELSE {}
    BY DeepCompareUnfolds, DiffsLeaf
  <1>2. /\ l \in Places /\ l.path = x.path /\ l.value = x.reference
        /\ r \in Places /\ r.path = x.path /\ r.value = x.target
    BY PlacesOf
  <1>3. Extends(x.path, x.path)
    BY SelfExtends DEF Pairs
  <1> HIDE DEF l, r
  <1>4. /\ Root(l) \in Says[l] /\ Root(r) \in Says[r]
        /\ Root(l).path = x.path /\ Root(l).t = x.reference.t
        /\ Root(r).path = x.path /\ Root(r).t = x.target.t
    BY <1>2, RootSaid DEF Root
  <1>5. IsInstance(Root(l), Root(r)) <=> IsInstance(x.reference, x.target)
    BY <1>4 DEF IsInstance
  <1>6. IsInstance(x.reference, x.target) => Root(l).v = x.reference.v /\ Root(r).v = x.target.v
    BY <1>2 DEF IsInstance, Nested, Both, IsTree, Root
  <1> SUFFICES ASSUME NEW d \in DeepCompare[x]
               PROVE  Extends(x.path, d.path) /\ TrueOf(d, Says[l], Says[r])
    BY DEF ReportsTrue, l, r
  <1>7. CASE ~IsInstance(x.reference, x.target)
    <2>1. d.path = x.path /\ d.kind = "type_mismatch"
      BY <1>1, <1>7 DEF Found
    <2> QED
      BY <1>3, <1>4, <1>5, <1>7, <2>1 DEF TrueOf
  <1>8. CASE IsInstance(x.reference, x.target)
    <2>1. d.path = x.path /\ d.kind = "value_mismatch" /\ x.reference.v # x.target.v
      BY <1>1, <1>8 DEF Found
    <2> QED
      BY <1>3, <1>4, <1>5, <1>6, <1>8, <2>1 DEF TrueOf
  <1> QED
    BY <1>7, <1>8

(* A key that only one side has.                                           *)
LEMMA OneSideReportsTrue ==
    ASSUME NEW x \in Pairs, ~Ignored(x.path), Nested(x), NEW k \in Compares(x), ~InBoth(x, k),
           NEW d \in ChildDiffs(DeepCompare, x, k)
    PROVE  d.path = Below(x, k) /\ TrueOf(d, Says[LeftPlace(x)], Says[RightPlace(x)])
  <1> DEFINE l == LeftPlace(x)
             r == RightPlace(x)
  <1>1. /\ k \in AllKeys(x) /\ Below(x, k) \in Seq(Names) /\ ~Ignored(Below(x, k))
        /\ Extends(Below(x, k), Below(x, k))
    BY Shape, SelfExtends
  <1>2. /\ Says[l] = {Root(l)} \cup UNION {Says[Branch(l, n)] : n \in DOMAIN x.reference.v}
        /\ Says[r] = {Root(r)} \cup UNION {Says[Branch(r, n)] : n \in DOMAIN x.target.v}
        /\ Branch(l, k).path = Below(x, k) /\ Branch(r, k).path = Below(x, k)
    BY <1>1, Branches
  <1>3. IsTree(x.reference) /\ IsTree(x.target)
    BY DEF Nested, Both, IsTree
  <1>4. CASE k \notin DOMAIN x.target.v
    <2>1. d.path = Below(x, k) /\ d.kind = "missing_field" /\ k \in DOMAIN x.reference.v
      BY <1>1, <1>4 DEF ChildDiffs, Found, AllKeys
    <2>2. Branch(l, k) \in Places
      BY <1>3, <2>1, PlacesOf, PlaceBelow
    <2>3. Root(Branch(l, k)) \in Says[l] /\ Root(Branch(l, k)).path = d.path
      BY <1>1, <1>2, <2>1, <2>2, RootSaid, RootPath
    <2>4. \A y \in Says[r] : y.path # d.path
      BY <1>1, <1>4, <2>1, RightAt
    <2> QED
      BY <2>1, <2>3, <2>4 DEF TrueOf
  <1>5. CASE k \notin DOMAIN x.reference.v
    <2>1. d.path = Below(x, k) /\ d.kind = "extra_field" /\ k \in DOMAIN x.target.v
      BY <1>1, <1>5 DEF ChildDiffs, Found, AllKeys
    <2>2. Branch(r, k) \in Places
      BY <1>3, <2>1, PlacesOf, PlaceBelow
    <2>3. Root(Branch(r, k)) \in Says[r] /\ Root(Branch(r, k)).path = d.path
      BY <1>1, <1>2, <2>1, <2>2, RootSaid, RootPath
    <2>4. \A s \in Says[l] : s.path # d.path
      BY <1>1, <1>5, <2>1, LeftAt
    <2> QED
      BY <2>1, <2>3, <2>4 DEF TrueOf
  <1> QED
    BY <1>4, <1>5 DEF InBoth

(* What is true of one key is true of the whole.                           *)
LEMMA LiftsTrue ==
    ASSUME NEW x \in Pairs, ~Ignored(x.path), Nested(x), NEW k, InBoth(x, k),
           NEW d, Extends(Below(x, k), d.path),
           TrueOf(d, Says[LeftPlace(At(x, k))], Says[RightPlace(At(x, k))])
    PROVE  TrueOf(d, Says[LeftPlace(x)], Says[RightPlace(x)])
  <1> DEFINE l == LeftPlace(x)
             r == RightPlace(x)
  <1>1. k \in AllKeys(x) /\ k \in DOMAIN x.reference.v /\ k \in DOMAIN x.target.v
    BY DEF InBoth, AllKeys
  <1>2. LeftPlace(At(x, k)) = Branch(l, k) /\ RightPlace(At(x, k)) = Branch(r, k)
    BY <1>1, Branches
  <1>3. Says[Branch(l, k)] \subseteq Says[l] /\ Says[Branch(r, k)] \subseteq Says[r]
    BY <1>1, Branches
  <1>4. \A s \in Says[l] : s.path = d.path => s \in Says[Branch(l, k)]
    BY <1>1, LeftAt
  <1>5. \A y \in Says[r] : y.path = d.path => y \in Says[Branch(r, k)]
    BY <1>1, RightAt
  <1>6. TrueOf(d, Says[Branch(l, k)], Says[Branch(r, k)])
    BY <1>2
  <1> HIDE DEF l, r
  <1>7. TrueOf(d, Says[l], Says[r])
    BY <1>3, <1>4, <1>5, <1>6 DEF TrueOf
  <1> QED
    BY <1>7 DEF l, r

LEMMA NestedReportsTrue ==
    ASSUME NEW x \in Pairs, ~Ignored(x.path), Nested(x),
           \A k : InBoth(x, k) => ReportsTrue(At(x, k))
    PROVE  ReportsTrue(x)
  <1> SUFFICES ASSUME NEW d \in DeepCompare[x]
               PROVE  /\ Extends(x.path, d.path)
                      /\ TrueOf(d, Says[LeftPlace(x)], Says[RightPlace(x)])
    BY DEF ReportsTrue
  <1>1. PICK k \in Compares(x) : d \in ChildDiffs(DeepCompare, x, k)
    BY DeepCompareUnfolds, DiffsNested
  <1>2. /\ k \in AllKeys(x) /\ Below(x, k) \in Seq(Names)
        /\ x.path \in Seq(Names) /\ NameOf(x.reference, k) \in Names
    BY Shape
  <1>3. CASE InBoth(x, k)
    <2>1. d \in DeepCompare[At(x, k)] /\ At(x, k).path = Below(x, k)
      BY <1>1, <1>2, <1>3, ChildDiffsAre, PairBelow
    <2>2. /\ Extends(Below(x, k), d.path)
          /\ TrueOf(d, Says[LeftPlace(At(x, k))], Says[RightPlace(At(x, k))])
      BY <1>3, <2>1 DEF ReportsTrue
    <2>3. Extends(x.path, d.path)
      BY <1>2, <2>2, ExtendsOne DEF Below
    <2> QED
      BY <1>3, <2>2, <2>3, LiftsTrue
  <1>4. CASE ~InBoth(x, k)
    <2>1. d.path = Below(x, k) /\ TrueOf(d, Says[LeftPlace(x)], Says[RightPlace(x)])
      BY <1>1, <1>4, OneSideReportsTrue
    <2>2. Extends(x.path, d.path)
      <3>1. Extends(Below(x, k), d.path)
        BY <1>2, <2>1, SelfExtends
      <3> QED
        BY <1>2, <3>1, ExtendsOne DEF Below
    <2> QED
      BY <2>1, <2>2
  <1> QED
    BY <1>3, <1>4

(* For any two values, a field reported missing is only in the reference,  *)
(* an extra one only in the target, and a mismatch is of what both say at  *)
(* that path (the FieldDiffs of comparison.py:98).                         *)
THEOREM DifferencesAreReal ==
    \A r, t \in Values :
        \A d \in DeepCompare[[path |-> <<>>, reference |-> r, target |-> t]] :
            TrueOf(d, Says[[path |-> <<>>, value |-> r]], Says[[path |-> <<>>, value |-> t]])
  <1> DEFINE G == {v \in Values : \A x \in Pairs : x.reference = v => ReportsTrue(x)}
  <1>1. ASSUME NEW v \in Values, \A u \in Values : Depth[u] < Depth[v] => u \in G
        PROVE  v \in G
    <2> SUFFICES ASSUME NEW x \in Pairs, x.reference = v PROVE ReportsTrue(x)
      OBVIOUS
    <2>1. CASE Ignored(x.path)
      <3>1. DeepCompare[x] = {}
        BY <2>1, DeepCompareUnfolds, DiffsIgnored
      <3> QED
        BY <3>1 DEF ReportsTrue
    <2>2. CASE ~Ignored(x.path) /\ ~Nested(x)
      BY <2>2, LeafReportsTrue
    <2>3. CASE ~Ignored(x.path) /\ Nested(x)
      <3>1. ASSUME NEW k, InBoth(x, k) PROVE ReportsTrue(At(x, k))
        <4>1. At(x, k) \in Pairs /\ Depth[At(x, k).reference] < Depth[v]
          BY <2>3, <3>1, PairBelow
        <4>2. At(x, k).reference \in G
          BY <1>1, <4>1 DEF Pairs
        <4> QED
          BY <4>1, <4>2
      <3> HIDE DEF G
      <3> QED
        BY <2>3, <3>1, NestedReportsTrue
    <2> QED
      BY <2>1, <2>2, <2>3
  <1> HIDE DEF G
  <1>2. Values \subseteq G
    BY <1>1, ByDepth
  <1>3. ASSUME NEW x \in Pairs PROVE ReportsTrue(x)
    BY <1>2 DEF G, Pairs
  <1> TAKE r, t \in Values
  <1> DEFINE x == [path |-> <<>>, reference |-> r, target |-> t]
  <1>4. x \in Pairs
    BY DEF Pairs
  <1>5. LeftPlace(x) = [path |-> <<>>, value |-> r] /\ RightPlace(x) = [path |-> <<>>, value |-> t]
    BY DEF LeftPlace, RightPlace
  <1> HIDE DEF x
  <1>6. ReportsTrue(x)
    BY <1>3, <1>4
  <1> QED
    BY <1>5, <1>6 DEF ReportsTrue, x
=============================================================================
