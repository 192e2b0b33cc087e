--------------------------- MODULE ProgramDeploy ---------------------------
(***************************************************************************)
(* deploy_program of programs.py, called by fixtures that share one        *)
(* program keypair (the syscall_program fixtures of the test suite, which  *)
(* may run in parallel workers): create the account, write the image in    *)
(* chunks, a batch of transactions at a time, finalize.  Each transaction  *)
(* is sent after a preflight simulation and awaited for by                 *)
(* wait_for_confirmation (module Wait), of which only the result matters   *)
(* here.  The ledger is external.                                          *)
(***************************************************************************)
EXTENDS Integers, Sequences, FiniteSets

CONSTANTS
    Deployers,   \* fixtures that deploy to the same address
    Chunks,      \* number of chunks of the program image
    Batch        \* BPF_LOADER_WRITE_BATCH

ASSUME DeployAssumption == Chunks \in Nat \ {0} /\ Batch \in Nat \ {0}

VARIABLES
    pc,        \* pc[d]: idle, send, wait, done
    stage,     \* stage[d]: the part of deploy_program d is in
    offset,    \* offset[d]: the next chunk to write, from 1
    pending,   \* pending[d]: transactions sent and not yet awaited for
    outcome,   \* outcome[d]: how deploy_program ended, or that it was not needed
    tx,        \* tx[d][k]: what became of d's transaction k
    account,   \* the program account: none, created, final (executable)
    image      \* the chunks written to it

vars == <<pc, stage, offset, pending, outcome, tx, account, image>>
ledger == <<account, image>>

(* Transaction 0 creates the account, 1..Chunks write, the last finalizes. *)
Create == 0
Writes == 1..Chunks
Finalize == Chunks + 1
Txs == 0..Finalize

Init ==
    /\ pc = [d \in Deployers |-> "idle"]
    /\ stage = [d \in Deployers |-> "create"]
    /\ offset = [d \in Deployers |-> 1]
    /\ pending = [d \in Deployers |-> <<>>]
    /\ outcome = [d \in Deployers |-> "none"]
    /\ tx = [d \in Deployers |-> [k \in Txs |-> "none"]]
    /\ account = "none" /\ image = {}

-----------------------------------------------------------------------------
(* The ledger.                                                             *)

(* Whether transaction k can succeed on the current state.                 *)
Valid(k) == account = IF k = Create THEN "none" ELSE "created"

Apply(k) ==
    /\ account' = CASE k = Create -> "created" [] k = Finalize -> "final" [] OTHER -> account
    /\ image' = IF k \in Writes THEN image \cup {k} ELSE image

(* A transaction may also fail on chain for reasons of its own (compute    *)
(* budget, fees spent meanwhile, a finalize that finds the image broken).  *)
Land(d, k) ==
    /\ tx[d][k] = "sent"
    /\ \/ Valid(k) /\ tx' = [tx EXCEPT ![d][k] = "ok"] /\ Apply(k)
       \/ tx' = [tx EXCEPT ![d][k] = "failed"] /\ UNCHANGED ledger
    /\ UNCHANGED <<pc, stage, offset, pending, outcome>>

(* Its blockhash expires before it is included in a block.                 *)
Expire(d, k) ==
    /\ tx[d][k] = "sent"
    /\ tx' = [tx EXCEPT ![d][k] = "dropped"]
    /\ UNCHANGED <<pc, stage, offset, pending, outcome, ledger>>

-----------------------------------------------------------------------------
(* The fixture and deploy_program.                                         *)

(* The fixture reuses a program that is there and executable.              *)
Enter(d) ==
    /\ pc[d] = "idle"
    /\ IF account = "final"
         THEN pc' = [pc EXCEPT ![d] = "done"] /\ outcome' = [outcome EXCEPT ![d] = "existing"]
         ELSE pc' = [pc EXCEPT ![d] = "send"] /\ UNCHANGED outcome
    /\ UNCHANGED <<stage, offset, pending, tx, ledger>>

NextTx(d) ==
    CASE stage[d] = "create"   -> Create
      [] stage[d] = "write"    -> offset[d]
      [] stage[d] = "finalize" -> Finalize

(* Mutation: the loop that fills a batch runs to the end of the image.     *)
BatchFullNever(n) == FALSE
BatchFull(n) == n = Batch

(* Mutations: the offset does not move; it moves twice.                    *)
SameChunk(d) == offset[d]
SkipChunk(d) == offset[d] + 2
NextChunk(d) == offset[d] + 1

(* Mutation: only full batches are confirmed, the last one is not.         *)
WaitNextSkipLast(d) ==
    stage[d] # "write" \/ BatchFull(Len(pending[d]) + 1)
(* The wait starts when a batch is full or the image is at its end.        *)
WaitNext(d) ==
    \/ stage[d] # "write"
    \/ BatchFull(Len(pending[d]) + 1)
    \/ NextChunk(d) > Chunks

StageAt(next) == IF next <= Chunks THEN "write" ELSE "finalize"

(* send_transaction: the preflight lets it through only if the simulation  *)
(* succeeds on the current state.                                          *)
Send(d) ==
    /\ pc[d] = "send"
    /\ LET k == NextTx(d) IN
         /\ Valid(k)
         /\ tx' = [tx EXCEPT ![d][k] = "sent"]
         /\ pending' = [pending EXCEPT ![d] = Append(@, k)]
         /\ offset' = IF k \in Writes THEN [offset EXCEPT ![d] = NextChunk(d)] ELSE offset
         /\ IF WaitNext(d)
              THEN pc' = [pc EXCEPT ![d] = "wait"] /\ UNCHANGED stage
              ELSE UNCHANGED pc /\ stage' = [stage EXCEPT ![d] = StageAt(offset'[d])]
    /\ UNCHANGED <<outcome, ledger>>

(* An exception leaves deploy_program where it is; the fixture swallows it *)
(* and returns the address all the same.                                   *)
Abandon(d) ==
    /\ pc' = [pc EXCEPT ![d] = "done"]
    /\ outcome' = [outcome EXCEPT ![d] = "raised"]

(* The preflight rejects the transaction, or a request of the client fails.*)
SendRaises(d) ==
    /\ pc[d] = "send"
    /\ Abandon(d)
    /\ UNCHANGED <<stage, offset, pending, tx, ledger>>

Awaited(d) == tx[d][Head(pending[d])]

(* Mutation: a TimeoutError of the wait is swallowed.                      *)
AcceptsDropped(status) == status \in {"ok", "failed", "dropped"}
Accepts(status) == status \in {"ok", "failed"}

(* wait_for_confirmation returns for a confirmed transaction, failed or    *)
(* not.  When the last of the batch is confirmed the next stage begins.    *)
Confirmed(d) ==
    /\ pc[d] = "wait" /\ pending[d] # <<>>
    /\ Accepts(Awaited(d))
    /\ pending' = [pending EXCEPT ![d] = Tail(@)]
    /\ UNCHANGED <<stage, offset, outcome, tx, ledger, pc>>

BatchDone(d) ==
    /\ pc[d] = "wait" /\ pending[d] = <<>>
    /\ IF stage[d] = "finalize"
         THEN /\ pc' = [pc EXCEPT ![d] = "done"]
              /\ outcome' = [outcome EXCEPT ![d] = "deployed"]
              /\ UNCHANGED stage
         ELSE /\ pc' = [pc EXCEPT ![d] = "send"]
              /\ stage' = [stage EXCEPT ![d] = StageAt(offset[d])]
              /\ UNCHANGED outcome
    /\ UNCHANGED <<offset, pending, tx, ledger>>

(* TimeoutError at any point of the wait, TransactionError for a failure   *)
(* seen while the transaction is only processed.                           *)
WaitRaises(d) ==
    /\ pc[d] = "wait" /\ pending[d] # <<>>
    /\ Abandon(d)
    /\ UNCHANGED <<stage, offset, pending, tx, ledger>>

Finished ==
    /\ \A d \in Deployers : pc[d] = "done"
    /\ UNCHANGED vars

Next ==
    \/ \E d \in Deployers :
          \/ Enter(d) \/ Send(d) \/ SendRaises(d)
          \/ Confirmed(d) \/ BatchDone(d) \/ WaitRaises(d)
          \/ \E k \in Txs : Land(d, k) \/ Expire(d, k)
    \/ Finished

(* A coroutine that can run runs, and wait_for_confirmation returns or     *)
(* times out.                                                              *)
Fairness ==
    \A d \in Deployers :
        WF_vars(Send(d) \/ SendRaises(d) \/ Confirmed(d) \/ BatchDone(d) \/ WaitRaises(d))

Spec == Init /\ [][Next]_vars
FairSpec == Spec /\ Fairness

-----------------------------------------------------------------------------
(* Properties.                                                             *)

Sent(d) == {k \in Txs : tx[d][k] = "sent"}

(* The variables have their types; the account is executable only if it    *)
(* was created, and nothing is written to an account that is not there.    *)
TypeOK ==
    /\ pc \in [Deployers -> {"idle", "send", "wait", "done"}]
    /\ stage \in [Deployers -> {"create", "write", "finalize"}]
    /\ offset \in [Deployers -> 1..(Chunks + 1)]
    /\ DOMAIN pending = Deployers
    /\ \A d \in Deployers : pending[d] \in Seq(Txs)
    /\ outcome \in [Deployers -> {"none", "existing", "deployed", "raised"}]
    /\ tx \in [Deployers -> [Txs -> {"none", "sent", "ok", "failed", "dropped"}]]
    /\ account \in {"none", "created", "final"} /\ image \subseteq Writes
    /\ account = "none" => image = {}

(* "Batching [...] keeping each block within budget" (programs.py:326): a  *)
(* deployment never has more than a batch of transactions in flight.       *)
WithinBlockBudget == \A d \in Deployers : Cardinality(Sent(d)) <= Batch

(* The program is not finalized while one of the deployer's own writes is  *)
(* still under way, nor written to before its account is settled.          *)
StagesInOrder ==
    \A d \in Deployers : \A k, l \in Txs :
        /\ (k = Create \/ l = Finalize) /\ k < l /\ tx[d][l] # "none"
        => tx[d][k] \in {"ok", "failed"}

(* When none of its transactions failed on chain, a deployment that        *)
(* returns has put the whole image in place and made it executable, even   *)
(* with other deployers of the same keypair at work.                       *)
DeployedUnlessFailureHidden ==
    \A d \in Deployers :
        outcome[d] = "deployed" /\ (\A k \in Txs : tx[d][k] # "failed")
            => account = "final" /\ image = Writes

(* Every call of deploy_program ends, by its timeouts if need be.          *)
DeployEnds == \A d \in Deployers : pc[d] # "idle" ~> pc[d] = "done"
=============================================================================
