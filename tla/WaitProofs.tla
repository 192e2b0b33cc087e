----------------------------- MODULE WaitProofs -----------------------------
(***************************************************************************)
(* The safety properties of Wait for any number of waits and any timeout,  *)
(* interval, latency and lag.  None of them is inductive: what bounds a    *)
(* late TimeoutError is when the last request was sent, when its answer    *)
(* was written and when the coroutine was resumed.  The strengthening      *)
(* below says, for each point of the loop, where the clock stands.         *)
(***************************************************************************)
EXTENDS Wait, TLAPS

(* What a poller asks about, and what it may be told, depends on its kind. *)
KindOK(p) ==
    IF p \in Confirmers
      THEN subject[p] \in TxStates /\ reply[p] \in TxStates \cup Untold
      ELSE subject[p] \in NodeStates /\ reply[p] \in NodeStates \cup Untold

(* The timer lies within one exchange or one interval ahead of the clock,  *)
(* the clock at most a late resumption ahead of the timer.                 *)
Timing(p) ==
    /\ pc[p] = "post" => /\ now <= timer[p] /\ timer[p] <= now + Latency
                         /\ timer[p] < deadline[p] + Latency
    /\ pc[p] = "loop" => /\ now <= timer[p] + Lag /\ timer[p] <= now + Interval
                         /\ timer[p] < deadline[p] + Latency + Interval
    /\ outcome[p] = "timeout" => now >= deadline[p]

(* A subject that is settled though the last answer said otherwise became  *)
(* so after the request of that answer was sent.                           *)
Honest(p) ==
    /\ pc[p] = "idle" => reply[p] = "none"
    /\ pc[p] = "loop" => reply[p] \notin SettledStates
    /\ Settled(p) /\ reply[p] \in Told /\ reply[p] \notin SettledStates =>
          /\ pc[p] = "post" => since[p] + Latency >= timer[p]
          /\ pc[p] = "loop" => since[p] + Latency + Interval >= timer[p]
    /\ outcome[p] = "timeout" => reply[p] \notin SettledStates
    /\ outcome[p] = "timeout" /\ reply[p] \in Told /\ Settled(p) =>
          since[p] + Interval + Latency + Lag >= deadline[p]

(* A confirmation on its way, or received, is of a confirmed transaction.  *)
Stable(p) ==
    /\ p \in Confirmers
    /\ \/ outcome[p] = "ok"
       \/ pc[p] = "post" /\ Accepts(reply[p])
    => subject[p] \in {"confirmed", "confirmed_err"}

IInv == TypeOK /\ \A p \in Pollers : KindOK(p) /\ Timing(p) /\ Honest(p) /\ Stable(p)

(* The initial states satisfy the strengthened invariant: all waits idle.  *)
LEMMA InitInv == Init => IInv
  <1> SUFFICES ASSUME Init PROVE IInv
    OBVIOUS
  <1>1. TypeOK
    BY DEF Init, TypeOK, Told, Untold, TxStates, NodeStates, Outcomes
  <1>2. ASSUME NEW p \in Pollers
        PROVE  KindOK(p) /\ Timing(p) /\ Honest(p) /\ Stable(p)
    BY DEF Init, KindOK, Timing, Honest, Stable, Untold, TxStates, NodeStates, Told,
           SettledStates, Settled, Accepts
  <1> QED
    BY <1>1, <1>2 DEF IInv

(* A step of one poller (Begin to Serve) leaves everything the invariant   *)
(* says of another poller as it was.                                       *)
Untouched(q) ==
    /\ now' = now /\ subject'[q] = subject[q] /\ since'[q] = since[q]
    /\ pc'[q] = pc[q] /\ deadline'[q] = deadline[q] /\ timer'[q] = timer[q]
    /\ reply'[q] = reply[q] /\ outcome'[q] = outcome[q]

(* What is not touched stays as the invariant has it.                      *)
LEMMA UntouchedInv ==
    ASSUME NEW q \in Pollers, KindOK(q), Timing(q), Honest(q), Stable(q), Untouched(q)
    PROVE  KindOK(q)' /\ Timing(q)' /\ Honest(q)' /\ Stable(q)'
  BY DEF Untouched, KindOK, Timing, Honest, Stable, Settled, Accepts

Local(p) ==
    \/ Begin(p) \/ Poll(p) \/ Expire(p) \/ ReceiveStatus(p) \/ ReceiveHealth(p)
    \/ Raise(p, "transport") \/ Raise(p, "protocol")
    \/ Serve(p) \/ Evolve(p)

(* The frame of the pollers' steps and of their subjects.                  *)
LEMMA LocalFrame ==
    ASSUME TypeOK, NEW p \in Pollers, Local(p), NEW q \in Pollers, q # p
    PROVE  Untouched(q)
  BY DEF Local, TypeOK, Untouched, Begin, Poll, Expire, ReceiveStatus, ReceiveHealth,
         Raise, Serve, Evolve, Finish, Sleep, world

(* A step of a poller or of its subject keeps the types.                   *)
LEMMA LocalType ==
    ASSUME IInv, NEW p \in Pollers, Local(p)
    PROVE  TypeOK'
  <1> USE WaitAssumption DEF WaitAssumption, IInv, TypeOK, Told, Untold, TxStates, NodeStates, Outcomes, world
  <1>1. CASE Begin(p)
    BY <1>1 DEF Begin
  <1>2. CASE Poll(p)
    BY <1>2 DEF Poll, Resumed, InTime
  <1>3. CASE Expire(p)
    BY <1>3 DEF Expire, Finish, Resumed
  <1>4. CASE ReceiveStatus(p)
    BY <1>4 DEF ReceiveStatus, Finish, Sleep
  <1>5. CASE ReceiveHealth(p)
    BY <1>5 DEF ReceiveHealth, Finish, Sleep
  <1>6. CASE Raise(p, "transport") \/ Raise(p, "protocol")
    BY <1>6 DEF Raise, Finish, Sleep
  <1>7. CASE Serve(p)
    BY <1>7 DEF Serve
  <1>8. CASE Evolve(p)
    BY <1>8 DEF Evolve, Successors
  <1> QED
    BY <1>1, <1>2, <1>3, <1>4, <1>5, <1>6, <1>7, <1>8 DEF Local

(* A step of a poller or of its subject keeps what the invariant says of   *)
(* that poller.                                                            *)
LEMMA LocalInv ==
    ASSUME IInv, NEW p \in Pollers, Local(p)
    PROVE  KindOK(p)' /\ Timing(p)' /\ Honest(p)' /\ Stable(p)'
  <1> USE WaitAssumption
      DEF WaitAssumption, IInv, TypeOK, KindOK, Timing, Honest, Stable, Pollers, Told, Untold, TxStates,
          NodeStates, SettledStates, Settled, Accepts, world
  <1>1. CASE Begin(p)
    BY <1>1 DEF Begin
  <1>2. CASE Poll(p)
    <2>1. pc'[p] = "post" /\ timer'[p] = now + Latency /\ reply'[p] = "none"
      BY <1>2 DEF Poll
    <2>2. now' = now /\ now < deadline[p] /\ deadline' = deadline /\ outcome' = outcome
          /\ subject' = subject
      BY <1>2 DEF Poll, InTime
    <2>3. outcome[p] = "none"
      BY <1>2 DEF Poll, Resumed, Outcomes
    <2>4. KindOK(p)'
      BY <2>1, <2>2
    <2>5. Timing(p)'
      BY <2>1, <2>2, <2>3
    <2>6. Honest(p)' /\ Stable(p)'
      BY <2>1, <2>2, <2>3
    <2> QED
      BY <2>4, <2>5, <2>6
  <1>3. CASE Expire(p)
    BY <1>3 DEF Expire, Finish, Resumed, InTime
  <1>4. CASE ReceiveStatus(p)
    BY <1>4 DEF ReceiveStatus, Finish, Sleep, Rejects
  <1>5. CASE ReceiveHealth(p)
    BY <1>5 DEF ReceiveHealth, Finish, Sleep
  <1>6. CASE Raise(p, "transport") \/ Raise(p, "protocol")
    BY <1>6 DEF Raise, Finish, Sleep
  <1>7. CASE Serve(p)
    BY <1>7 DEF Serve
  <1>8. CASE Evolve(p)
    BY <1>8 DEF Evolve, Successors
  <1> QED
    BY <1>1, <1>2, <1>3, <1>4, <1>5, <1>6, <1>7, <1>8 DEF Local

(* The clock advances only while every timer leaves room for it.           *)
LEMMA TickInv == IInv /\ Tick => IInv'
  <1> SUFFICES ASSUME IInv, Tick PROVE IInv'
    OBVIOUS
  <1>1. TypeOK'
    BY DEF IInv, TypeOK, Tick
  <1>2. ASSUME NEW p \in Pollers
        PROVE  KindOK(p)' /\ Timing(p)' /\ Honest(p)' /\ Stable(p)'
    BY WaitAssumption
       DEF WaitAssumption, IInv, TypeOK, Tick, KindOK, Timing, Honest, Stable, Settled, Accepts
  <1> QED
    BY <1>1, <1>2 DEF IInv, Pollers

(* Every step keeps the strengthened invariant.                            *)
LEMMA NextInv == IInv /\ [Next]_vars => IInv'
  <1> SUFFICES ASSUME IInv, [Next]_vars PROVE IInv'
    OBVIOUS
  <1>1. ASSUME NEW p \in Pollers, Local(p) PROVE IInv'
    <2>1. TypeOK'
      BY <1>1, LocalType
    <2>2. ASSUME NEW q \in Pollers
          PROVE  KindOK(q)' /\ Timing(q)' /\ Honest(q)' /\ Stable(q)'
      <3>1. CASE q = p
        BY <1>1, <3>1, LocalInv
      <3>2. CASE q # p
        BY <1>1, <3>2, LocalFrame, UntouchedInv DEF IInv
      <3> QED
        BY <3>1, <3>2
    <2> QED
      BY <2>1, <2>2 DEF IInv, Pollers
  <1>2. CASE Tick
    BY <1>2, TickInv
  <1>3. CASE UNCHANGED vars
    BY <1>3 DEF vars, IInv, TypeOK, KindOK, Timing, Honest, Stable, Settled, Accepts, Pollers
  <1> QED
    BY <1>1, <1>2, <1>3 DEF Next, Local, Finished

(* The strengthened invariant holds in every reachable state.              *)
THEOREM Invariance == Spec => []IInv
  BY InitInv, NextInv, PTL DEF Spec

(* Both polling loops keep their types, and end with an outcome.           *)
THEOREM TypeCorrect == Spec => []TypeOK
  <1>1. IInv => TypeOK
    BY DEF IInv
  <1> QED
    BY <1>1, Invariance, PTL

(* wait_for_confirmation returns only for transactions that stay confirmed.*)
THEOREM ConfirmationIsStable == Spec => []ConfirmationStable
  <1>1. IInv => ConfirmationStable
    BY DEF IInv, Stable, ConfirmationStable, Pollers
  <1> QED
    BY <1>1, Invariance, PTL

(* A TimeoutError after a proper answer misses only what became settled    *)
(* within the last interval, exchange and late resumption.                 *)
THEOREM TimeoutIsHonest == Spec => []NoMissedSettlement
  <1>1. IInv => NoMissedSettlement
    BY DEF IInv, Honest, NoMissedSettlement
  <1> QED
    BY <1>1, Invariance, PTL

(* Neither loop outlives its timeout by more than the last poll may cost.  *)
THEOREM WaitIsBounded == Spec => []ReturnsInTime
  <1>1. IInv => ReturnsInTime
    BY WaitAssumption DEF WaitAssumption, IInv, TypeOK, Timing, ReturnsInTime, Active
  <1> QED
    BY <1>1, Invariance, PTL

(* A step that leaves the transactions and outcomes of wait_for_confirmation *)
(* alone is a stutter of Confirmation.                                     *)
LEMMA Stutter ==
    ASSUME \A p \in Confirmers : /\ FateOf(subject'[p]) = FateOf(subject[p])
                                /\ ResultOf(outcome'[p]) = ResultOf(outcome[p])
    PROVE  UNCHANGED Promise!vars
  BY DEF Promise!vars

(* The end of a wait is a Return, for a settled transaction, or a Raise.   *)
LEMMA FinishMaps ==
    ASSUME TypeOK, NEW p \in Confirmers, pc[p] # "done", NEW how \in Outcomes \ {"none"},
           Finish(p, how), how = "ok" => subject[p] \in {"confirmed", "confirmed_err"}
    PROVE  Promise!Return(p) \/ Promise!Raise(p)
  <1> USE DEF TypeOK, Pollers
  <1>1. outcome[p] = "none" /\ outcome' = [outcome EXCEPT ![p] = how] /\ subject' = subject
    BY DEF Finish, world
  <1>2. how = "ok" => Promise!Finish(p, "returned") /\ FateOf(subject[p]) # "open"
    BY <1>1 DEF Promise!Finish, ResultOf, FateOf
  <1>3. how # "ok" => Promise!Finish(p, "raised")
    BY <1>1 DEF Promise!Finish, ResultOf, Outcomes
  <1> QED
    BY <1>2, <1>3 DEF Promise!Return, Promise!Raise

(* A step about one wait maps to a step of Confirmation or to a stutter.   *)
LEMMA LocalMaps ==
    ASSUME IInv, NEW p \in Pollers, Local(p)
    PROVE  [Promise!Next]_(Promise!vars)
  <1> USE DEF IInv, TypeOK
  <1>1. CASE UNCHANGED <<subject, outcome>>
    BY <1>1, Stutter
  <1>2. CASE p \in HealthWaiters
    <2>1. \A q \in Confirmers : q \in Pollers /\ q # p
      BY <1>2, WaitAssumption DEF WaitAssumption, Pollers
    <2>2. \A q \in Confirmers : subject'[q] = subject[q] /\ outcome'[q] = outcome[q]
      BY <2>1, LocalFrame DEF Untouched
    <2> QED
      BY <2>2, Stutter
  <1>3. CASE p \in Confirmers /\ \E how \in Outcomes \ {"none"} : pc[p] # "done" /\ Finish(p, how)
    <2>1. PICK how \in Outcomes \ {"none"} : pc[p] # "done" /\ Finish(p, how)
      BY <1>3
    <2>2. outcome'[p] = how /\ subject' = subject
      BY <2>1 DEF Finish, world
    <2>3. how = "ok" => subject[p] \in {"confirmed", "confirmed_err"}
      BY <1>3, <2>2, LocalInv DEF Stable
    <2>4. Promise!Return(p) \/ Promise!Raise(p)
      BY <1>3, <2>1, <2>3, FinishMaps
    <2> QED
      BY <1>3, <2>4 DEF Promise!Next
  <1>4. CASE p \in Confirmers /\ Evolve(p)
    <2>1. PICK s \in Successors(subject[p]) :
            subject' = [subject EXCEPT ![p] = s] /\ outcome' = outcome
      BY <1>4 DEF Evolve
    <2>2. CASE s \in {"confirmed", "confirmed_err"}
      <3>1. FateOf(subject[p]) = "open" /\ FateOf(s) \in {"ok", "failed"}
        BY <2>1, <2>2 DEF Successors, FateOf
      <3>2. [q \in Confirmers |-> FateOf(subject'[q])]
              = [[q \in Confirmers |-> FateOf(subject[q])] EXCEPT ![p] = FateOf(s)]
        BY <1>4, <2>1 DEF Pollers
      <3>3. Promise!Settle(p)
        BY <1>4, <2>1, <3>1, <3>2 DEF Promise!Settle
      <3> QED
        BY <1>4, <3>3 DEF Promise!Next
    <2>3. CASE s \notin {"confirmed", "confirmed_err"}
      <3>1. FateOf(s) = FateOf(subject[p])
        BY <2>1, <2>3 DEF Successors, FateOf
      <3>2. \A q \in Confirmers : FateOf(subject'[q]) = FateOf(subject[q])
        BY <2>1, <3>1 DEF Pollers
      <3> QED
        BY <2>1, <3>2, Stutter
    <2> QED
      BY <2>2, <2>3
  <1> QED
    <2>1. CASE Begin(p) \/ Poll(p) \/ Serve(p)
      BY <2>1, <1>1 DEF Begin, Poll, Serve, world
    <2>2. CASE Expire(p)
      BY <2>2, <1>2, <1>3 DEF Expire, Resumed, Pollers, Outcomes
    <2>3. CASE ReceiveStatus(p)
      BY <2>3, <1>1, <1>3 DEF ReceiveStatus, Sleep, world, Outcomes
    <2>4. CASE ReceiveHealth(p)
      BY <2>4, <1>2 DEF ReceiveHealth
    <2>5. CASE Raise(p, "transport") \/ Raise(p, "protocol")
      BY <2>5, <1>1, <1>2, <1>3 DEF Raise, Sleep, world, Pollers, Outcomes
    <2>6. CASE Evolve(p)
      BY <2>6, <1>2, <1>4 DEF Pollers
    <2> QED
      BY <2>1, <2>2, <2>3, <2>4, <2>5, <2>6 DEF Local

(* wait_for_confirmation implements Confirmation: whatever the clock, the  *)
(* network and the ledger do, it returns only for a transaction that is    *)
(* settled for good.                                                       *)
THEOREM Refinement == Spec => ImplementsConfirmation
  <1>1. Init => Promise!Init
    BY DEF Init, Promise!Init, Pollers, FateOf, ResultOf
  <1>2. IInv /\ [Next]_vars => [Promise!Next]_(Promise!vars)
    <2> SUFFICES ASSUME IInv, [Next]_vars PROVE [Promise!Next]_(Promise!vars)
      OBVIOUS
    <2>1. ASSUME NEW p \in Pollers, Local(p) PROVE [Promise!Next]_(Promise!vars)
      BY <2>1, LocalMaps
    <2>2. CASE Tick \/ UNCHANGED vars
      BY <2>2, Stutter DEF Tick, vars
    <2> QED
      BY <2>1, <2>2 DEF Next, Local, Finished
  <1> QED
    BY <1>1, <1>2, Invariance, PTL DEF Spec, ImplementsConfirmation, Promise!Spec
=============================================================================
