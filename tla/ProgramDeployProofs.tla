------------------------- MODULE ProgramDeployProofs -------------------------
(***************************************************************************)
(* Safety of deploy_program for any number of deployers of one address and *)
(* any chunk and batch numbers.  The invariant follows one deployer: what  *)
(* it has sent is a prefix of its transactions (Position), each of them is *)
(* pending or settled (Accounted), the pending ones belong to the current  *)
(* stage and fit in a batch (Batched), and what succeeded is on the ledger *)
(* for good (Landed).  Last, how many steps a deployment has.              *)
(***************************************************************************)
EXTENDS ProgramDeploy, FiniteSetTheorems, TLAPS

InPending(d, k) == \E i \in 1..Len(pending[d]) : pending[d][i] = k

Settled(status) == status \in {"ok", "failed"}

Position(d) ==
    /\ \A k \in Writes : k >= offset[d] => tx[d][k] = "none"
    /\ stage[d] # "finalize" => tx[d][Finalize] = "none"
    /\ pc[d] = "idle" => stage[d] = "create"
    /\ pc[d] \in {"idle", "send"} /\ stage[d] = "create" => tx[d][Create] = "none"
    /\ pc[d] = "send" /\ stage[d] = "finalize" => tx[d][Finalize] = "none"
    /\ pc[d] = "wait" /\ stage[d] = "finalize" => tx[d][Finalize] # "none"
    /\ pc[d] = "wait" /\ stage[d] = "create" => tx[d][Create] # "none"
    /\ stage[d] = "write" => \A k \in Writes : k < offset[d] => tx[d][k] # "none"
    /\ stage[d] = "create" => offset[d] = 1
    /\ stage[d] = "finalize" => offset[d] = Chunks + 1
    /\ pc[d] = "send" /\ stage[d] = "write" => offset[d] <= Chunks

Accounted(d) ==
    /\ \A k \in Txs : tx[d][k] \in {"sent", "dropped"} => InPending(d, k)
    /\ stage[d] # "create" => Settled(tx[d][Create])
    /\ stage[d] = "finalize" => \A k \in Writes : Settled(tx[d][k])
    /\ outcome[d] = "deployed" => stage[d] = "finalize" /\ Settled(tx[d][Finalize])

OfStage(d, k) ==
    /\ stage[d] = "create" => k = Create
    /\ stage[d] = "write" => k \in Writes
    /\ stage[d] = "finalize" => k = Finalize

Batched(d) ==
    /\ Len(pending[d]) <= Batch
    /\ pc[d] \in {"idle", "send"} /\ stage[d] # "write" => pending[d] = <<>>
    /\ pc[d] = "send" /\ stage[d] = "write" => Len(pending[d]) < Batch
    /\ \A i \in 1..Len(pending[d]) : OfStage(d, pending[d][i])

Landed(d) ==
    /\ \A k \in Writes : tx[d][k] = "ok" => k \in image
    /\ tx[d][Finalize] = "ok" => account = "final"

IInv ==
    /\ TypeOK
    /\ \A d \in Deployers : Position(d) /\ Accounted(d) /\ Batched(d) /\ Landed(d)

(* Nothing is sent at first.                                               *)
LEMMA InitInv == Init => IInv
  <1> USE DeployAssumption
  <1> SUFFICES ASSUME Init PROVE IInv
    OBVIOUS
  <1>1. TypeOK
    BY DEF Init, TypeOK
  <1>2. \A d \in Deployers : Position(d) /\ Accounted(d) /\ Batched(d) /\ Landed(d)
    BY DEF Init, Position, Accounted, Batched, Landed, Txs, Writes, Create, Finalize
  <1> QED
    BY <1>1, <1>2 DEF IInv

Own(d) ==
    \/ Enter(d) \/ Send(d) \/ SendRaises(d) \/ Confirmed(d) \/ BatchDone(d) \/ WaitRaises(d)

OnLedger(d) == \E k \in Txs : Land(d, k) \/ Expire(d, k)

Untouched(e) ==
    /\ pc'[e] = pc[e] /\ stage'[e] = stage[e] /\ offset'[e] = offset[e]
    /\ pending'[e] = pending[e] /\ outcome'[e] = outcome[e] /\ tx'[e] = tx[e]

(* A step of one deployer or of its transactions concerns no other, except *)
(* through the ledger, where nothing is ever undone.                       *)
LEMMA Frame ==
  ASSUME IInv, NEW d \in Deployers, Own(d) \/ OnLedger(d), NEW e \in Deployers, e # d
  PROVE  Position(e)' /\ Accounted(e)' /\ Batched(e)' /\ Landed(e)'
  <1>1. Untouched(e)
    BY DEF IInv, TypeOK, Own, OnLedger, Untouched, Enter, Send, SendRaises, Confirmed,
           BatchDone, WaitRaises, Abandon, Land, Expire, ledger
  <1>2. image \subseteq image' /\ (account = "final" => account' = "final")
    BY DEF IInv, TypeOK, Own, OnLedger, Enter, Send, SendRaises, Confirmed,
           BatchDone, WaitRaises, Abandon, Land, Expire, ledger, Apply, Valid
  <1>3. Position(e) /\ Accounted(e) /\ Batched(e) /\ Landed(e)
    BY DEF IInv
  <1>4. Position(e)' /\ Accounted(e)'
    BY <1>1, <1>3 DEF Untouched, Position, Accounted, InPending
  <1>5. Batched(e)'
    BY <1>1, <1>3 DEF Untouched, Batched, OfStage
  <1>6. Landed(e)'
    BY <1>1, <1>2, <1>3 DEF Untouched, Landed
  <1> QED
    BY <1>4, <1>5, <1>6

(* The number of the next transaction is in range.                         *)
LEMMA NextTxType ==
  ASSUME IInv, NEW d \in Deployers, pc[d] = "send"
  PROVE  /\ NextTx(d) \in Txs
         /\ tx[d][NextTx(d)] = "none"
         /\ stage[d] = "write" => NextTx(d) = offset[d] /\ offset[d] \in Writes
         /\ Create \notin Writes /\ Finalize \notin Writes
  BY DeployAssumption
  DEF IInv, TypeOK, Position, NextTx, Txs, Writes, Create, Finalize

(* send_transaction appends to the batch.                                  *)
LEMMA SendPending ==
  ASSUME IInv, NEW d \in Deployers, Send(d)
  PROVE  /\ pending'[d] \in Seq(Txs)
         /\ Len(pending'[d]) = Len(pending[d]) + 1
         /\ \A i \in 1..Len(pending[d]) : pending'[d][i] = pending[d][i]
         /\ pending'[d][Len(pending[d]) + 1] = NextTx(d)
  <1>1. pending[d] \in Seq(Txs) /\ NextTx(d) \in Txs
    BY NextTxType DEF IInv, TypeOK, Send
  <1>2. pending'[d] = Append(pending[d], NextTx(d))
    BY DEF IInv, TypeOK, Send
  <1> QED
    BY <1>1, <1>2

(* Sending keeps the types.                                                *)
LEMMA SendType ==
  ASSUME IInv, NEW d \in Deployers, Send(d)
  PROVE  TypeOK'
  <1> USE DeployAssumption
  <1>1. pending'[d] \in Seq(Txs) /\ NextTx(d) \in Txs
    BY SendPending, NextTxType DEF Send
  <1>2. /\ DOMAIN pending' = Deployers
        /\ \A e \in Deployers : pending'[e] \in Seq(Txs)
    BY <1>1 DEF IInv, TypeOK, Send
  <1>3. tx' \in [Deployers -> [Txs -> {"none", "sent", "ok", "failed", "dropped"}]]
    BY <1>1 DEF IInv, TypeOK, Send
  <1>4. offset' \in [Deployers -> 1..(Chunks + 1)]
    BY NextTxType DEF IInv, TypeOK, Position, Send, NextChunk, Writes, NextTx, Create, Finalize
  <1>5. /\ pc' \in [Deployers -> {"idle", "send", "wait", "done"}]
        /\ stage' \in [Deployers -> {"create", "write", "finalize"}]
        /\ UNCHANGED <<outcome, account, image>>
    BY DEF IInv, TypeOK, Send, StageAt, ledger
  <1> QED
    BY <1>2, <1>3, <1>4, <1>5 DEF IInv, TypeOK

(* A turn of the loop: the stage and the offset agree with what was sent.  *)
LEMMA SendInv ==
  ASSUME IInv, NEW d \in Deployers, Send(d)
  PROVE  Position(d)' /\ Accounted(d)' /\ Batched(d)' /\ Landed(d)'
  <1> USE DeployAssumption
  <1> DEFINE k == NextTx(d)
  <1>1. /\ k \in Txs /\ tx[d][k] = "none" /\ Create \notin Writes /\ Finalize \notin Writes
        /\ stage[d] = "write" => k = offset[d] /\ offset[d] \in Writes
        /\ stage[d] = "create" => k = Create
        /\ stage[d] = "finalize" => k = Finalize
        /\ Create # Finalize
    <2>1. pc[d] = "send"
      BY DEF Send
    <2>2. (stage[d] = "create" => k = Create) /\ (stage[d] = "finalize" => k = Finalize)
      BY DEF NextTx
    <2>3. Create # Finalize
      BY DEF Create, Finalize
    <2> QED
      BY <2>1, <2>2, <2>3, NextTxType
  <1>2. /\ pc[d] = "send" /\ stage[d] \in {"create", "write", "finalize"}
        /\ tx'[d][k] = "sent" /\ \A m \in Txs : m # k => tx'[d][m] = tx[d][m]
        /\ offset'[d] = IF stage[d] = "write" THEN offset[d] + 1 ELSE offset[d]
        /\ stage'[d] = stage[d]
        /\ pc'[d] = IF WaitNext(d) THEN "wait" ELSE "send"
        /\ UNCHANGED <<outcome, account, image>>
    BY <1>1 DEF IInv, TypeOK, Send, NextChunk, WaitNext, StageAt, ledger, Writes
  <1>3. Position(d) /\ Accounted(d) /\ Batched(d) /\ Landed(d) /\ offset[d] \in 1..(Chunks + 1)
    BY DEF IInv, TypeOK
  <1>4. Create \in Txs /\ Finalize \in Txs /\ Writes \subseteq Txs
    BY DEF Txs, Create, Finalize, Writes
  <1>5. /\ Len(pending[d]) \in Nat /\ Len(pending'[d]) = Len(pending[d]) + 1
        /\ pending[d] = <<>> => Len(pending[d]) = 0
        /\ \A i \in 1..Len(pending[d]) : pending'[d][i] = pending[d][i]
        /\ pending'[d][Len(pending[d]) + 1] = k
    BY SendPending DEF IInv, TypeOK
  <1>6. Position(d)'
    BY <1>1, <1>2, <1>3, <1>4 DEF Position, WaitNext, NextChunk, Writes
  <1>7. Accounted(d)'
    <2>1. \A m \in Txs : InPending(d, m) \/ m = k => InPending(d, m)'
      BY <1>5 DEF InPending
    <2> QED
      BY <1>1, <1>2, <1>3, <1>4, <2>1 DEF Accounted, Settled
  <1>8. Batched(d)'
    <2>1. Len(pending[d]) < Batch
      BY <1>2, <1>3, <1>5 DEF Batched
    <2>2. stage'[d] = "write" /\ pc'[d] = "send" => Len(pending'[d]) < Batch
      BY <1>2, <1>5, <2>1 DEF WaitNext, BatchFull
    <2>3. stage'[d] # "write" => pc'[d] = "wait"
      BY <1>2 DEF WaitNext
    <2>4. \A i \in 1..Len(pending'[d]) : OfStage(d, pending[d][i])'
      <3> SUFFICES ASSUME NEW i \in 1..Len(pending'[d]) PROVE OfStage(d, pending[d][i])'
        OBVIOUS
      <3>1. PICK x : x = pending'[d][i]
        OBVIOUS
      <3>2. CASE i \in 1..Len(pending[d])
        <4>1. OfStage(d, x)
          BY <1>3, <1>5, <3>1, <3>2 DEF Batched
        <4> QED
          BY <1>2, <3>1, <4>1 DEF OfStage
      <3>3. CASE i = Len(pending[d]) + 1
        <4>1. x = k
          BY <1>5, <3>1, <3>3
        <4> QED
          BY <1>1, <1>2, <3>1, <4>1 DEF OfStage
      <3> QED
        BY <1>5, <3>2, <3>3
    <2> QED
      BY <1>2, <1>5, <2>1, <2>2, <2>3, <2>4 DEF Batched
  <1>9. Landed(d)'
    BY <1>1, <1>2, <1>3, <1>4 DEF Landed
  <1> QED
    BY <1>6, <1>7, <1>8, <1>9

(* The fixture's entry and its exits disturb nothing that has been sent.   *)
LEMMA EndsInv ==
  ASSUME IInv, NEW d \in Deployers, Enter(d) \/ SendRaises(d) \/ WaitRaises(d)
  PROVE  TypeOK' /\ Position(d)' /\ Accounted(d)' /\ Batched(d)' /\ Landed(d)'
  <1> USE DEF Enter, SendRaises, WaitRaises, Abandon, ledger
  <1>1. Position(d) /\ Accounted(d) /\ Batched(d) /\ Landed(d)
    BY DEF IInv
  <1>2. TypeOK'
    BY DEF IInv, TypeOK
  <1>3. Position(d)'
    BY <1>1 DEF IInv, TypeOK, Position
  <1>4. Accounted(d)'
    BY <1>1 DEF IInv, TypeOK, Accounted, InPending
  <1>5. Batched(d)'
    BY <1>1 DEF IInv, TypeOK, Batched, OfStage, Position
  <1>6. Landed(d)'
    BY <1>1 DEF IInv, TypeOK, Landed
  <1> QED
    BY <1>2, <1>3, <1>4, <1>5, <1>6

(* The head of the batch is settled, the rest stays pending.               *)
LEMMA ConfirmedInv ==
  ASSUME IInv, NEW d \in Deployers, Confirmed(d)
  PROVE  TypeOK' /\ Position(d)' /\ Accounted(d)' /\ Batched(d)' /\ Landed(d)'
  <1>1. /\ pc[d] = "wait" /\ pending[d] \in Seq(Txs) /\ pending[d] # <<>>
        /\ pending' = [pending EXCEPT ![d] = Tail(pending[d])]
        /\ Settled(tx[d][Head(pending[d])])
        /\ UNCHANGED <<stage, offset, outcome, tx, account, image, pc>>
    BY DEF IInv, TypeOK, Confirmed, Accepts, Awaited, Settled, ledger
  <1>2. /\ pending'[d] \in Seq(Txs) /\ Len(pending[d]) \in Nat
        /\ Len(pending'[d]) = Len(pending[d]) - 1
        /\ \A i \in 1..Len(pending'[d]) : pending'[d][i] = pending[d][i + 1]
        /\ Head(pending[d]) = pending[d][1]
    BY <1>1 DEF IInv, TypeOK
  <1>3. Position(d) /\ Accounted(d) /\ Batched(d) /\ Landed(d)
    BY DEF IInv
  <1>4. TypeOK'
    BY <1>1, <1>2 DEF IInv, TypeOK
  <1>5. Position(d)' /\ Landed(d)'
    BY <1>1, <1>3 DEF Position, Landed
  <1>6. ASSUME NEW k \in Txs, InPending(d, k), k # Head(pending[d])
        PROVE  InPending(d, k)'
    <2>1. PICK i \in 1..Len(pending[d]) : pending[d][i] = k
      BY <1>6 DEF InPending
    <2>2. i - 1 \in 1..Len(pending'[d]) /\ pending'[d][i - 1] = k
      BY <1>2, <1>6, <2>1
    <2> QED
      BY <2>2 DEF InPending
  <1>7. Accounted(d)'
    BY <1>1, <1>3, <1>6 DEF Accounted, Settled
  <1>8. Batched(d)'
    <2>1. \A i \in 1..Len(pending'[d]) : i + 1 \in 1..Len(pending[d])
      BY <1>2
    <2>2. \A i \in 1..Len(pending'[d]) : OfStage(d, pending[d][i])'
      BY <1>1, <1>2, <1>3, <2>1 DEF Batched, OfStage
    <2>3. Len(pending'[d]) <= Batch
      BY <1>2, <1>3, DeployAssumption DEF Batched
    <2> QED
      BY <1>1, <2>2, <2>3 DEF Batched
  <1> QED
    BY <1>4, <1>5, <1>7, <1>8

(* A batch that is through settles everything sent so far.                 *)
LEMMA BatchDoneInv ==
  ASSUME IInv, NEW d \in Deployers, BatchDone(d)
  PROVE  TypeOK' /\ Position(d)' /\ Accounted(d)' /\ Batched(d)' /\ Landed(d)'
  <1> USE DeployAssumption
  <1>1. /\ pc[d] = "wait" /\ pending[d] = <<>> /\ Len(pending[d]) = 0
        /\ UNCHANGED <<offset, pending, tx, account, image>>
        /\ stage[d] \in {"create", "write", "finalize"} /\ offset[d] \in 1..(Chunks + 1)
    BY DEF IInv, TypeOK, BatchDone, ledger
  <1>2. Position(d) /\ Accounted(d) /\ Batched(d) /\ Landed(d)
    BY DEF IInv
  <1>3. TypeOK'
    BY DEF IInv, TypeOK, BatchDone, StageAt, ledger
  <1>4. \A k \in Txs : tx[d][k] # "none" => Settled(tx[d][k])
    BY <1>1, <1>2 DEF IInv, TypeOK, Accounted, InPending, Settled
  <1>5. Create \in Txs /\ Finalize \in Txs /\ Writes \subseteq Txs
    BY DEF Txs, Create, Finalize, Writes
  <1>6. CASE stage[d] = "finalize"
    <2>1. /\ pc'[d] = "done" /\ outcome'[d] = "deployed" /\ UNCHANGED stage
      BY <1>6 DEF IInv, TypeOK, BatchDone
    <2>2. Accounted(d)'
      BY <1>1, <1>2, <1>4, <1>5, <1>6, <2>1 DEF Accounted, Position, InPending
    <2> QED
      BY <1>1, <1>2, <1>3, <1>6, <2>1, <2>2 DEF Position, Batched, OfStage, Landed
  <1>7. CASE stage[d] # "finalize"
    <2>1. /\ pc'[d] = "send" /\ UNCHANGED outcome
          /\ stage'[d] = IF offset[d] <= Chunks THEN "write" ELSE "finalize"
      BY <1>7 DEF IInv, TypeOK, BatchDone, StageAt
    <2>2. /\ Settled(tx[d][Create])
          /\ \A k \in Writes : k < offset[d] => Settled(tx[d][k])
      BY <1>1, <1>2, <1>4, <1>5, <1>7 DEF Accounted, Position, Writes
    <2>3. Accounted(d)'
      BY <1>1, <1>2, <1>4, <1>7, <2>1, <2>2 DEF Accounted, Settled, Writes
    <2>4. Position(d)'
      BY <1>1, <1>2, <1>7, <2>1, <2>2 DEF Position, Settled, Writes
    <2> QED
      BY <1>1, <1>2, <1>3, <2>1, <2>3, <2>4 DEF Batched, OfStage, Landed
  <1> QED
    BY <1>6, <1>7

(* A transaction that lands or expires was sent, hence pending; what it    *)
(* does on the ledger is never undone.                                     *)
LEMMA LedgerInv ==
  ASSUME IInv, NEW d \in Deployers, OnLedger(d)
  PROVE  TypeOK' /\ Position(d)' /\ Accounted(d)' /\ Batched(d)' /\ Landed(d)'
  <1> USE DeployAssumption
  <1>1. PICK k \in Txs : Land(d, k) \/ Expire(d, k)
    BY DEF OnLedger
  <1>2. PICK s \in {"ok", "failed", "dropped"} :
          /\ tx[d][k] = "sent" /\ tx' = [tx EXCEPT ![d][k] = s]
          /\ UNCHANGED <<pc, stage, offset, pending, outcome>>
          /\ IF s = "ok" THEN Valid(k) /\ Apply(k) ELSE UNCHANGED ledger
    BY <1>1 DEF Land, Expire
  <1>3. /\ tx'[d][k] = s /\ \A m \in Txs : m # k => tx'[d][m] = tx[d][m]
        /\ tx' \in [Deployers -> [Txs -> {"none", "sent", "ok", "failed", "dropped"}]]
    BY <1>2 DEF IInv, TypeOK
  <1>4. Position(d) /\ Accounted(d) /\ Batched(d) /\ Landed(d)
    BY DEF IInv
  <1>5. Create \in Txs /\ Finalize \in Txs /\ Writes \subseteq Txs /\ Finalize \notin Writes
    BY DEF Txs, Create, Finalize, Writes
  <1>6. /\ account' \in {"none", "created", "final"} /\ image' \subseteq Writes
        /\ account' = "none" => image' = {}
        /\ image \subseteq image' /\ (account = "final" => account' = "final")
        /\ s = "ok" /\ k \in Writes => k \in image'
        /\ s = "ok" /\ k = Finalize => account' = "final"
    BY <1>2, <1>5 DEF IInv, TypeOK, Valid, Apply, ledger, Create, Finalize
  <1>7. TypeOK'
    BY <1>2, <1>3, <1>6 DEF IInv, TypeOK
  <1>8. Position(d)'
    BY <1>2, <1>3, <1>4, <1>5 DEF Position
  <1>9. Accounted(d)'
    BY <1>2, <1>3, <1>4, <1>5 DEF Accounted, InPending, Settled
  <1>10. Batched(d)'
    BY <1>2, <1>4 DEF Batched, OfStage
  <1>11. Landed(d)'
    BY <1>2, <1>3, <1>4, <1>5, <1>6 DEF Landed
  <1> QED
    BY <1>7, <1>8, <1>9, <1>10, <1>11

(* Every step keeps the invariant.                                         *)
LEMMA NextInv == IInv /\ [Next]_vars => IInv'
  <1> SUFFICES ASSUME IInv, [Next]_vars PROVE IInv'
    OBVIOUS
  <1>1. ASSUME NEW d \in Deployers, Own(d) \/ OnLedger(d) PROVE IInv'
    <2>1. TypeOK' /\ Position(d)' /\ Accounted(d)' /\ Batched(d)' /\ Landed(d)'
      BY <1>1, SendType, SendInv, EndsInv, ConfirmedInv, BatchDoneInv, LedgerInv DEF Own
    <2> QED
      BY <1>1, <2>1, Frame DEF IInv
  <1>2. CASE UNCHANGED vars
    <2>1. TypeOK'
      BY <1>2 DEF vars, ledger, IInv, TypeOK
    <2>2. \A d \in Deployers : Position(d)' /\ Accounted(d)'
      BY <1>2 DEF vars, ledger, IInv, Position, Accounted, InPending
    <2>3. \A d \in Deployers : Batched(d)' /\ Landed(d)'
      BY <1>2 DEF vars, ledger, IInv, Batched, OfStage, Landed
    <2> QED
      BY <2>1, <2>2, <2>3 DEF IInv
  <1> QED
    BY <1>1, <1>2 DEF Next, Own, OnLedger, Finished

(* The strengthened invariant holds in every reachable state.              *)
THEOREM Invariance == Spec => []IInv
  BY InitInv, NextInv, PTL DEF Spec

(* The deployers keep their types, and no chunk is on an absent account.   *)
THEOREM TypeCorrect == Spec => []TypeOK
  <1>1. IInv => TypeOK
    BY DEF IInv
  <1> QED
    BY <1>1, Invariance, PTL

(* Nothing is written before the create transaction is settled, and the    *)
(* program is not finalized before every write is.                         *)
THEOREM StagesAreOrdered == Spec => []StagesInOrder
  <1>1. IInv => StagesInOrder
    <2> SUFFICES ASSUME IInv, NEW d \in Deployers, NEW k \in Txs, NEW l \in Txs,
                        k = Create \/ l = Finalize, k < l, tx[d][l] # "none"
                 PROVE  Settled(tx[d][k])
      BY DEF StagesInOrder, Settled
    <2>1. Position(d) /\ Accounted(d) /\ stage[d] \in {"create", "write", "finalize"}
      BY DEF IInv, TypeOK
    <2>2. l \in Writes \/ l = Finalize
      BY DeployAssumption DEF Txs, Create, Writes, Finalize
    <2>3. stage[d] # "create" /\ (l = Finalize => stage[d] = "finalize")
      BY <2>1, <2>2, DeployAssumption DEF Position, Writes
    <2>4. k = Create \/ k \in Writes
      BY DeployAssumption DEF Txs, Create, Writes, Finalize
    <2>5. k \in Writes => l = Finalize
      BY DeployAssumption DEF Create, Writes, Finalize
    <2> QED
      BY <2>1, <2>3, <2>4, <2>5 DEF Accounted
  <1> QED
    BY <1>1, Invariance, PTL

(* A deployment none of whose transactions failed has put its whole image  *)
(* in place and made the program executable before it returns.             *)
THEOREM CompleteUnlessFailed == Spec => []DeployedUnlessFailureHidden
  <1>1. IInv => DeployedUnlessFailureHidden
    <2> SUFFICES ASSUME IInv, NEW d \in Deployers, outcome[d] = "deployed",
                        \A k \in Txs : tx[d][k] # "failed"
                 PROVE  account = "final" /\ image = Writes
      BY DEF DeployedUnlessFailureHidden
    <2>1. Accounted(d) /\ Landed(d) /\ image \subseteq Writes
      BY DEF IInv, TypeOK
    <2>2. Finalize \in Txs /\ Writes \subseteq Txs
      BY DeployAssumption DEF Txs, Writes, Finalize
    <2>3. tx[d][Finalize] = "ok" /\ \A k \in Writes : tx[d][k] = "ok"
      BY <2>1, <2>2 DEF Accounted, Settled
    <2> QED
      BY <2>1, <2>3 DEF Landed
  <1> QED
    BY <1>1, Invariance, PTL

(* The transactions in flight are among the pending ones, of which there   *)
(* is at most a batch.                                                     *)
THEOREM BudgetIsKept == Spec => []WithinBlockBudget
  <1>1. IInv => WithinBlockBudget
    <2> SUFFICES ASSUME IInv, NEW d \in Deployers
                 PROVE  Cardinality(Sent(d)) <= Batch
      BY DEF WithinBlockBudget
    <2> DEFINE n == Len(pending[d])
               f == [i \in 1..n |-> pending[d][i]]
               T == {f[i] : i \in 1..n}
    <2>1. n \in Nat /\ n <= Batch /\ Accounted(d)
      BY DEF IInv, TypeOK, Batched
    <2>2. IsFiniteSet(1..n) /\ Cardinality(1..n) = n
      BY <2>1, FS_Interval
    <2>3. f \in Surjection(1..n, T)
      BY DEF Surjection
    <2>4. IsFiniteSet(T) /\ Cardinality(T) <= n
      <3> HIDE DEF f, T
      <3> QED
        BY <2>2, <2>3, FS_Surjection
    <2>5. Sent(d) \subseteq T
      BY <2>1 DEF Sent, Accounted, InPending
    <2>6. Cardinality(Sent(d)) <= Cardinality(T) /\ Cardinality(Sent(d)) \in Nat
          /\ Cardinality(T) \in Nat
      <3> HIDE DEF T
      <3> QED
        BY <2>4, <2>5, FS_Subset, FS_CardinalityType
    <2> QED
      BY <2>1, <2>4, <2>6, DeployAssumption
  <1> QED
    BY <1>1, Invariance, PTL
-----------------------------------------------------------------------------
(* A deployment only goes on.                                              *)

Unsent(d) == {k \in Txs : tx[d][k] = "none"}

(* The steps d may still take: three for each transaction not sent yet, to *)
(* send it, to confirm it and to end a batch, one for each pending one,    *)
(* and what the point it has reached adds.                                 *)
StepsLeft(d) ==
    IF pc[d] = "done" THEN 0
    ELSE 3 * Cardinality(Unsent(d)) + Len(pending[d]) + (IF pc[d] = "send" THEN 1 ELSE 2)

MostSteps == 3 * (Chunks + 2) + 2

Advances(d) == StepsLeft(d)' < StepsLeft(d)
Rests(d) == pc'[d] = pc[d] /\ StepsLeft(d)' = StepsLeft(d)

(* The transactions of a deployment are Chunks + 2.                        *)
LEMMA TxsAre == IsFiniteSet(Txs) /\ Cardinality(Txs) = Chunks + 2
  <1>1. Txs = 0 .. Chunks + 1 /\ 0 \in Int /\ Chunks + 1 \in Int /\ 0 <= Chunks + 1
    BY DeployAssumption DEF Txs, Finalize
  <1>2. Chunks + 1 - 0 + 1 = Chunks + 2
    BY DeployAssumption
  <1> QED
    BY <1>1, <1>2, FS_Interval

(* The terms of the measure are numbers.                                   *)
LEMMA TermsType ==
    ASSUME IInv, NEW d \in Deployers
    PROVE  /\ IsFiniteSet(Unsent(d)) /\ Cardinality(Unsent(d)) \in Nat
           /\ Len(pending[d]) \in Nat /\ StepsLeft(d) \in Nat
           /\ pc[d] # "done" => StepsLeft(d) > 0
  <1>1. IsFiniteSet(Unsent(d)) /\ Cardinality(Unsent(d)) \in Nat
    BY TxsAre, FS_Subset, FS_CardinalityType DEF Unsent
  <1>2. Len(pending[d]) \in Nat
    BY DEF IInv, TypeOK
  <1> QED
    BY <1>1, <1>2 DEF StepsLeft

(* They are numbers after a step as well.                                  *)
LEMMA NextTermsType ==
    ASSUME IInv', NEW d \in Deployers
    PROVE  /\ Cardinality(Unsent(d))' \in Nat /\ Len(pending[d])' \in Nat
           /\ StepsLeft(d)' \in Nat
  <1>1. IsFiniteSet(Unsent(d)') /\ Cardinality(Unsent(d)') \in Nat
    <2>1. Unsent(d)' \subseteq Txs
      BY DEF Unsent
    <2> QED
      BY <2>1, TxsAre, FS_Subset, FS_CardinalityType
  <1>2. Len(pending[d])' \in Nat
    BY DEF IInv, TypeOK
  <1> QED
    BY <1>1, <1>2 DEF StepsLeft

(* A step of d uses up at least one.                                       *)
LEMMA OwnAdvances ==
    ASSUME IInv, NEW d \in Deployers, Own(d)
    PROVE  Advances(d)
  <1>0. IInv' /\ TypeOK
    BY NextInv DEF Next, Own, IInv
  <1>1. /\ Cardinality(Unsent(d)) \in Nat /\ Len(pending[d]) \in Nat
        /\ Cardinality(Unsent(d))' \in Nat /\ Len(pending[d])' \in Nat
        /\ pc[d] # "done" => StepsLeft(d) > 0
    BY <1>0, TermsType, NextTermsType
  <1>2. pc[d] # "done" /\ pc'[d] = "done" => Advances(d)
    BY <1>1 DEF Advances, StepsLeft
  <1>3. CASE Enter(d)
    <2>1. /\ pc[d] = "idle" /\ pc'[d] \in {"send", "done"}
          /\ pending'[d] = pending[d] /\ Unsent(d)' = Unsent(d)
      BY <1>0, <1>3 DEF Enter, TypeOK, Unsent
    <2> QED
      BY <1>1, <1>2, <2>1 DEF Advances, StepsLeft
  <1>4. CASE Send(d)
    <2>1. /\ pc[d] = "send" /\ pc'[d] \in {"send", "wait"}
          /\ NextTx(d) \in Unsent(d) /\ Unsent(d)' = Unsent(d) \ {NextTx(d)}
      <3>1. pc[d] = "send" /\ pc'[d] \in {"send", "wait"}
        BY <1>0, <1>4 DEF Send, TypeOK
      <3>2. NextTx(d) \in Txs /\ tx[d][NextTx(d)] = "none"
        BY <3>1, NextTxType
      <3>3. tx' = [tx EXCEPT ![d][NextTx(d)] = "sent"]
        BY <1>4 DEF Send
      <3>4. \A k \in Txs : tx'[d][k] = IF k = NextTx(d) THEN "sent" ELSE tx[d][k]
        BY <1>0, <3>2, <3>3 DEF TypeOK
      <3> QED
        BY <3>1, <3>2, <3>4 DEF Unsent
    <2>2. Cardinality(Unsent(d))' = Cardinality(Unsent(d)) - 1
      BY <2>1, TermsType, FS_RemoveElement
    <2>3. Len(pending[d])' = Len(pending[d]) + 1
      BY <1>4, SendPending
    <2> QED
      BY <1>1, <2>1, <2>2, <2>3 DEF Advances, StepsLeft
  <1>5. CASE SendRaises(d) \/ WaitRaises(d)
    <2>1. pc[d] # "done" /\ pc'[d] = "done"
      BY <1>0, <1>5 DEF SendRaises, WaitRaises, Abandon, TypeOK
    <2> QED
      BY <1>2, <2>1
  <1>6. CASE Confirmed(d)
    <2>1. /\ pc[d] = "wait" /\ pc'[d] = "wait" /\ Unsent(d)' = Unsent(d)
          /\ pending'[d] = Tail(pending[d]) /\ pending[d] \in Seq(Txs) /\ pending[d] # <<>>
      BY <1>0, <1>6 DEF Confirmed, TypeOK, Unsent
    <2>2. Len(pending[d])' = Len(pending[d]) - 1
      BY <2>1
    <2> QED
      BY <1>1, <2>1, <2>2 DEF Advances, StepsLeft
  <1>7. CASE BatchDone(d)
    <2>1. /\ pc[d] = "wait" /\ pc'[d] \in {"send", "done"}
          /\ pending'[d] = pending[d] /\ Unsent(d)' = Unsent(d)
      BY <1>0, <1>7 DEF BatchDone, TypeOK, Unsent
    <2> QED
      BY <1>1, <1>2, <2>1 DEF Advances, StepsLeft
  <1> QED
    BY <1>3, <1>4, <1>5, <1>6, <1>7 DEF Own

(* Nothing else moves the measure: the ledger settles only what was sent.  *)
LEMMA OthersRest ==
    ASSUME IInv, Next, NEW d \in Deployers, ~Own(d)
    PROVE  Rests(d)
  <1> SUFFICES pc'[d] = pc[d] /\ pending'[d] = pending[d] /\ Unsent(d)' = Unsent(d)
    BY DEF Rests, StepsLeft
  <1>0. TypeOK
    BY DEF IInv
  <1>1. ASSUME NEW e \in Deployers, e # d, Own(e) \/ OnLedger(e)
        PROVE  Untouched(d)
    BY <1>0, <1>1 DEF TypeOK, Own, OnLedger, Untouched, Enter, Send, SendRaises, Confirmed,
           BatchDone, WaitRaises, Abandon, Land, Expire, ledger
  <1>2. ASSUME NEW k \in Txs, Land(d, k) \/ Expire(d, k)
        PROVE  pc' = pc /\ pending' = pending /\ Unsent(d)' = Unsent(d)
    BY <1>0, <1>2 DEF TypeOK, Land, Expire, Unsent
  <1>3. CASE Finished
    BY <1>3 DEF Finished, vars, Unsent
  <1> QED
    BY <1>1, <1>2, <1>3 DEF Next, Own, OnLedger, Untouched, Unsent

(* Each step of deploy_program (programs.py) uses up one of those it has,  *)
(* and nothing the ledger or another deployer does gives one back: the     *)
(* loops over chunks and batches cannot go round for ever, and what        *)
(* DeployEnds asks beyond this is that a waiting deployer is resumed.      *)
THEOREM DeploysOnlyAdvance ==
    Spec => [][\A d \in Deployers : Rests(d) \/ Advances(d)]_vars
  <1>1. IInv /\ [Next]_vars => [\A d \in Deployers : Rests(d) \/ Advances(d)]_vars
    BY OwnAdvances, OthersRest
  <1> QED
    BY <1>1, Invariance, PTL DEF Spec

(* A deployment takes at most three steps for each of its transactions,    *)
(* the chunks and the two around them, and two more.                       *)
THEOREM DeploysAreShort == Spec => [](\A d \in Deployers : StepsLeft(d) \in 0 .. MostSteps)
  <1> DEFINE Bounded == \A d \in Deployers : StepsLeft(d) <= MostSteps
  <1>0. MostSteps \in Nat
    BY DeployAssumption DEF MostSteps
  <1>1. Init => Bounded
    <2> SUFFICES ASSUME Init, NEW d \in Deployers PROVE StepsLeft(d) <= MostSteps
      OBVIOUS
    <2>1. pc[d] = "idle" /\ Len(pending[d]) = 0 /\ Unsent(d) = Txs
      BY DEF Init, Unsent
    <2>2. StepsLeft(d) = 3 * (Chunks + 2) + 0 + 2
      BY <2>1, TxsAre DEF StepsLeft
    <2> QED
      BY <2>2, DeployAssumption DEF MostSteps
  <1>2. IInv /\ IInv' /\ Bounded /\ [Next]_vars => Bounded'
    <2> SUFFICES ASSUME IInv, IInv', Bounded, [Next]_vars, NEW d \in Deployers
                 PROVE  StepsLeft(d)' <= MostSteps
      BY DEF MostSteps
    <2>1. StepsLeft(d) \in Nat /\ StepsLeft(d)' \in Nat /\ StepsLeft(d) <= MostSteps
      BY TermsType, NextTermsType
    <2>2. CASE UNCHANGED vars
      <3>1. StepsLeft(d)' = StepsLeft(d)
        BY <2>2 DEF vars, StepsLeft, Unsent
      <3> QED
        BY <2>1, <3>1
    <2>3. CASE Next
      <3>1. Rests(d) \/ Advances(d)
        BY <2>3, OwnAdvances, OthersRest
      <3> QED
        BY <1>0, <2>1, <3>1 DEF Rests, Advances
    <2> QED
      BY <2>2, <2>3
  <1>3. IInv /\ Bounded => \A d \in Deployers : StepsLeft(d) \in 0 .. MostSteps
    BY <1>0, TermsType
  <1> QED
    BY <1>1, <1>2, <1>3, Invariance, PTL DEF Spec
=============================================================================
