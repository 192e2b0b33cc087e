------------------------ MODULE ProgramUpgradeProofs ------------------------
(***************************************************************************)
(* That the upgradeable deployments keep their promise (AtomicProgram) for *)
(* any number of calls, any image sizes and any authorities.  What makes   *)
(* an image whole when it is installed is the order of the transactions:   *)
(* a call sends one only when all before it are accepted, so that of those *)
(* before the one under way none is still open and each has succeeded, and *)
(* left its chunk in the buffer, or failed.                                *)
(***************************************************************************)
EXTENDS ProgramUpgrade, TLAPS

Authorities == {Key[c] : c \in Calls} \cup {Nobody}

ProgramOK ==
    program \in [code : Calls \cup {Nobody}, image : SUBSET Nat, cap : Nat,
                 authority : Authorities]

Accepted(c, k) == tx[c][k] \in {"ok", "failed"}

(* Where a call is among its transactions.                                 *)
Position(c) ==
    /\ \A k \in Txs(c) : k < at[c] => Accepted(c, k)
    /\ pc[c] \in {"idle", "send"} => tx[c][at[c]] = "none"
    /\ result[c] = "returned" => at[c] = InstallTx(c) /\ Accepted(c, at[c])

(* What a call's successful writes have left in its buffer.                *)
Filled(c) == \A k \in Writes(c) : tx[c][k] = "ok" => k \in written[c]

IInv == TypeOK /\ ProgramOK /\ \A c \in Calls : Position(c) /\ Filled(c)

(* Transactions are numbered from 0 to one past the chunks.                *)
LEMMA Numbers ==
    ASSUME NEW c \in Calls
    PROVE  /\ Chunks[c] \in Nat \ {0} /\ InstallTx(c) \in Nat \ {0, 1}
           /\ Create \in Txs(c) /\ InstallTx(c) \in Txs(c)
           /\ Txs(c) \subseteq Nat /\ Writes(c) \subseteq Txs(c)
           /\ InstallTx(c) \notin Writes(c)
           /\ \A k \in Txs(c) : k # InstallTx(c) => k + 1 \in Txs(c)
           /\ \A k \in Writes(c) : k < InstallTx(c)
           /\ \A k \in Txs(c) : k <= InstallTx(c)
           /\ Room(c) \in Nat
  BY UpgradeAssumption DEF UpgradeAssumption, InstallTx, Create, Txs, Writes, Room

(* All calls are idle, and there is no program.                            *)
LEMMA InitInv == Init => IInv
  <1> SUFFICES ASSUME Init PROVE IInv
    OBVIOUS
  <1>1. TypeOK
    BY Numbers, UpgradeAssumption DEF UpgradeAssumption, Init, TypeOK
  <1>2. ProgramOK
    BY DEF Init, ProgramOK, Authorities
  <1>3. ASSUME NEW c \in Calls PROVE Position(c) /\ Filled(c)
    BY Numbers DEF Init, Position, Filled, Accepted, Create
  <1> QED
    BY <1>1, <1>2, <1>3 DEF IInv

(* What the invariant says of one call.                                    *)
CallOK(c) ==
    /\ at[c] \in Txs(c) /\ written[c] \subseteq Writes(c)
    /\ tx[c] \in [Txs(c) -> {"none", "sent", "ok", "failed", "dropped"}]
    /\ result[c] = "none" <=> pc[c] # "done"
    /\ \A k \in Txs(c) : k > at[c] => tx[c][k] = "none"
    /\ Position(c) /\ Filled(c)

Shapes ==
    /\ pc \in [Calls -> {"idle", "send", "wait", "done"}]
    /\ result \in [Calls -> {"none", "returned", "raised"}]
    /\ buffer \in [Calls -> {"none", "open", "taken"}]
    /\ DOMAIN at = Calls /\ DOMAIN written = Calls /\ DOMAIN tx = Calls

ImageOK == program.code \in Calls => program.image \subseteq Writes(program.code)

(* The invariant, call by call.                                            *)
LEMMA ByCalls == IInv <=> Shapes /\ ProgramOK /\ ImageOK /\ \A c \in Calls : CallOK(c)
  BY DEF IInv, TypeOK, Shapes, ImageOK, CallOK, ProgramOK

(* A step of one call leaves alone what the invariant says of another.     *)
Untouched(d) ==
    /\ pc'[d] = pc[d] /\ at'[d] = at[d] /\ result'[d] = result[d]
    /\ tx'[d] = tx[d] /\ written'[d] = written[d]

(* What is not touched stays as the invariant has it.                      *)
LEMMA UntouchedOK == ASSUME NEW d \in Calls, CallOK(d), Untouched(d) PROVE CallOK(d)'
  BY DEF Untouched, CallOK, Position, Filled, Accepted

StepOf(c) ==
    \/ Begin(c) \/ FileNotFound(c) \/ Send(c) \/ Raises(c) \/ Confirmed(c)
    \/ \E k \in Txs(c) : Land(c, k) \/ Expire(c, k)

(* The frame of a step of a call, its transactions included.               *)
LEMMA Frame ==
    ASSUME Shapes, NEW c \in Calls, StepOf(c), NEW d \in Calls, d # c
    PROVE  Untouched(d)
  BY DEF StepOf, Shapes, Untouched, Begin, FileNotFound, Send, Raises, Confirmed, Land, Expire,
         End, Apply, caller, ledger

(* A transaction that lands or expires was sent: it is the current one, or *)
(* rather no earlier one, and its call has not returned.                   *)
LEMMA SentIsCurrent ==
    ASSUME NEW c \in Calls, CallOK(c), NEW k \in Txs(c), tx[c][k] = "sent"
    PROVE  k = at[c] /\ result[c] # "returned"
  BY Numbers DEF CallOK, Position, Accepted

(* A step of a call keeps what the invariant says of that call.            *)
LEMMA OwnStep ==
    ASSUME IInv, NEW c \in Calls, StepOf(c)
    PROVE  CallOK(c)'
  <1>1. Shapes /\ CallOK(c)
    BY ByCalls
  <1> USE <1>1, Numbers DEF Shapes, CallOK
  <1>2. CASE Begin(c) \/ FileNotFound(c) \/ Raises(c)
    BY <1>2 DEF Begin, FileNotFound, Raises, End, ledger, Position, Filled, Accepted
  <1>3. CASE Send(c)
    <2>1. at' = at /\ result' = result /\ written' = written /\ pc' = [pc EXCEPT ![c] = "wait"]
          /\ pc[c] = "send" /\ tx' = [tx EXCEPT ![c][at[c]] = "sent"]
      BY <1>3 DEF Send, ledger
    <2>2. tx[c][at[c]] = "none" /\ result[c] = "none"
      BY <2>1 DEF Position
    <2>3. tx'[c] = [tx[c] EXCEPT ![at[c]] = "sent"]
      BY <2>1
    <2>4. tx'[c] \in [Txs(c) -> {"none", "sent", "ok", "failed", "dropped"}]
          /\ \A k \in Txs(c) : k # at[c] => tx'[c][k] = tx[c][k]
          /\ tx'[c][at[c]] = "sent"
      BY <2>3
    <2>5. Position(c)'
      BY <2>1, <2>2, <2>4 DEF Position, Accepted
    <2>6. Filled(c)'
      BY <2>1, <2>4 DEF Filled
    <2> QED
      BY <2>1, <2>4, <2>5, <2>6
  <1>4. CASE Confirmed(c)
    <2>1. pc[c] = "wait" /\ tx[c][at[c]] \in {"ok", "failed"} /\ tx' = tx /\ written' = written
          /\ result[c] = "none"
      BY <1>4 DEF Confirmed, Accepts, ledger
    <2>2. CASE at[c] = InstallTx(c)
      <3>1. at' = at /\ pc'[c] = "done" /\ result'[c] = "returned"
        BY <1>4, <2>2 DEF Confirmed, End
      <3> QED
        BY <2>1, <2>2, <3>1 DEF Position, Filled, Accepted
    <2>3. CASE at[c] # InstallTx(c)
      <3>1. at'[c] = at[c] + 1 /\ pc'[c] = "send" /\ result' = result
        BY <1>4, <2>3 DEF Confirmed, NextTx
      <3>2. at'[c] \in Txs(c) /\ at[c] \in Nat
        BY <2>3, <3>1
      <3>3. \A k \in Txs(c) : (k < at'[c] <=> k < at[c] \/ k = at[c]) /\ (k > at'[c] => k > at[c])
        BY <3>1, <3>2
      <3>4. Position(c)'
        <4>1. at[c] + 1 > at[c]
          BY <3>2
        <4>2. tx[c][at'[c]] = "none"
          BY <3>1, <3>2, <4>1
        <4> QED
          BY <2>1, <3>1, <3>3, <4>2 DEF Position, Accepted
      <3> QED
        BY <2>1, <3>1, <3>2, <3>3, <3>4 DEF Filled
    <2> QED
      BY <2>2, <2>3
  <1>5. ASSUME NEW k \in Txs(c), Land(c, k) \/ Expire(c, k) PROVE CallOK(c)'
    <2>1. pc' = pc /\ at' = at /\ result' = result
      BY <1>5 DEF Land, Expire, caller
    <2>2. k = at[c] /\ result[c] # "returned" /\ pc[c] \notin {"idle", "send"} /\ tx[c][k] = "sent"
      BY <1>5, SentIsCurrent DEF Land, Expire, Position
    <2>3. PICK s \in {"ok", "failed", "dropped"} : tx' = [tx EXCEPT ![c][k] = s]
      BY <1>5 DEF Land, Expire
    <2>4. tx'[c] = [tx[c] EXCEPT ![k] = s]
      BY <2>3
    <2>5. tx'[c] \in [Txs(c) -> {"none", "sent", "ok", "failed", "dropped"}]
          /\ tx'[c][k] = s /\ \A j \in Txs(c) : j # k => tx'[c][j] = tx[c][j]
      BY <2>4
    <2>6. written'[c] \subseteq Writes(c) /\ written[c] \subseteq written'[c]
          /\ (s = "ok" /\ k \in Writes(c) => k \in written'[c])
      <3>1. CASE s = "ok"
        <4>1. tx'[c][k] # "failed" /\ tx'[c][k] # "dropped"
          BY <2>5, <3>1
        <4>2. Land(c, k) /\ Apply(c, k)
          <5>1. ~Expire(c, k)
            BY <4>1 DEF Expire
          <5>2. tx' # [tx EXCEPT ![c][k] = "failed"]
            BY <4>1
          <5> QED
            BY <1>5, <5>1, <5>2 DEF Land
        <4> QED
          BY <4>2 DEF Apply
      <3>2. CASE s # "ok"
        <4>1. tx' # [tx EXCEPT ![c][k] = "ok"]
          BY <2>5, <3>2
        <4>2. written' = written
          BY <1>5, <4>1 DEF Land, Expire, ledger
        <4> QED
          BY <3>2, <4>2
      <3> QED
        BY <3>1, <3>2
    <2>7. Position(c)'
      BY <2>1, <2>2, <2>5 DEF Position, Accepted
    <2>8. Filled(c)'
      BY <2>5, <2>6 DEF Filled
    <2> QED
      BY <2>1, <2>2, <2>5, <2>6, <2>7, <2>8
  <1> QED
    BY <1>2, <1>3, <1>4, <1>5 DEF StepOf

(* An image that is installed is that of its call's buffer.                *)
LEMMA Program ==
    ASSUME IInv, NEW c \in Calls, StepOf(c)
    PROVE  Shapes' /\ ProgramOK' /\ ImageOK'
  <1>1. Shapes /\ ProgramOK /\ ImageOK /\ CallOK(c)
    BY ByCalls
  <1>2. Shapes'
    BY <1>1 DEF Shapes, StepOf, Begin, FileNotFound, Send, Raises, Confirmed, Land, Expire,
                End, Apply, caller, ledger
  <1>3. CASE program' = program
    BY <1>1, <1>2, <1>3 DEF ProgramOK, ImageOK
  <1>4. CASE program' # program
    <2>1. PICK k \in Txs(c) : Land(c, k)
      BY <1>4 DEF StepOf, Begin, FileNotFound, Send, Raises, Confirmed, Expire, ledger
    <2>2. k = InstallTx(c) /\ program' = Installed(c)
      BY <1>4, <2>1 DEF Land, Apply, ledger
    <2>3. program'.code = c /\ program'.image = written[c] /\ program' \in
            [code : Calls \cup {Nobody}, image : SUBSET Nat, cap : Nat, authority : Authorities]
      BY <1>1, <2>2, Numbers
         DEF Installed, Deployed, Upgraded, ProgramOK, Authorities, CallOK
    <2> QED
      BY <1>1, <1>2, <2>3 DEF ProgramOK, ImageOK, CallOK
  <1> QED
    BY <1>2, <1>3, <1>4

(* Every step keeps the strengthened invariant.                            *)
LEMMA NextInv == IInv /\ [Next]_vars => IInv'
  <1> SUFFICES ASSUME IInv, [Next]_vars PROVE IInv'
    OBVIOUS
  <1>1. ASSUME NEW c \in Calls, StepOf(c) PROVE IInv'
    <2>1. Shapes' /\ ProgramOK' /\ ImageOK'
      BY <1>1, Program
    <2>2. ASSUME NEW d \in Calls PROVE CallOK(d)'
      <3>1. CASE d = c
        BY <1>1, <3>1, OwnStep
      <3>2. CASE d # c
        BY <1>1, <3>2, ByCalls, Frame, UntouchedOK
      <3> QED
        BY <3>1, <3>2
    <2>3. (Shapes /\ ProgramOK /\ ImageOK /\ \A d \in Calls : CallOK(d))'
      BY <2>1, <2>2
    <2> QED
      BY <2>3 DEF IInv, TypeOK, Shapes, ImageOK, CallOK, ProgramOK
  <1>2. CASE HandOver
    <2>1. PICK k \in Authorities : program' = [program EXCEPT !.authority = k]
      BY <1>2 DEF HandOver, Authorities
    <2>2. program'.code = program.code /\ program'.image = program.image /\ ProgramOK'
          /\ program'.cap = program.cap
      BY <2>1 DEF IInv, ProgramOK
    <2> QED
      BY <1>2, <2>2 DEF HandOver, caller, IInv, TypeOK, Position, Filled, Accepted
  <1>3. CASE UNCHANGED vars
    BY <1>3 DEF vars, IInv, TypeOK, ProgramOK, Position, Filled, Accepted
  <1> QED
    BY <1>1, <1>2, <1>3 DEF Next, StepOf, Finished

(* The strengthened invariant holds in every reachable state.              *)
THEOREM Invariance == Spec => []IInv
  BY InitInv, NextInv, PTL DEF Spec

(* The calls, the ledger and the program keep their types, and a call has  *)
(* sent nothing beyond the transaction it is at.                           *)
THEOREM TypeCorrect == Spec => []TypeOK
  <1>1. IInv => TypeOK
    BY DEF IInv
  <1> QED
    BY <1>1, Invariance, PTL

-----------------------------------------------------------------------------
(* The refinement.                                                         *)

Done(c) == tx[c][InstallTx(c)] = "ok"
Failed(c) == \E k \in Txs(c) : tx[c][k] = "failed"
Whole == program.code # Nobody /\ program.image = Writes(program.code)

(* A step that changes neither the program nor which calls have installed  *)
(* theirs, failed or ended is a stutter of AtomicProgram.                  *)
LEMMA Stutter ==
    ASSUME program' = program, result' = result,
           \A c \in Calls : Done(c)' = Done(c) /\ Failed(c)' = Failed(c)
    PROVE  UNCHANGED Promise!vars
  BY DEF Promise!vars, Done, Failed

(* A step that changes neither program nor transactions and ends at most   *)
(* one call.                                                               *)
LEMMA EndMaps ==
    ASSUME Shapes, NEW c \in Calls, result[c] = "none", NEW how \in {"returned", "raised"},
           End(c, how), program' = program, tx' = tx,
           how = "returned" => Done(c) \/ Failed(c)
    PROVE  Promise!Next
  <1>1. UNCHANGED <<program.code, Whole, program.authority, {d \in Calls : Done(d)},
                    {d \in Calls : Failed(d)}>>
    BY DEF Whole, Done, Failed
  <1>2. Promise!Finish(c, how)
    BY <1>1 DEF Promise!Finish, End, Whole, Done, Failed
  <1>3. Promise!Return(c) \/ Promise!Raise(c)
    BY <1>2 DEF Promise!Return, Promise!Raise, Done, Failed
  <1> QED
    BY <1>3 DEF Promise!Next

(* The image that is installed is whole unless a write of its call failed. *)
LEMMA WholeUnlessFailed ==
    ASSUME NEW c \in Calls, CallOK(c), at[c] = InstallTx(c), ~Failed(c)
    PROVE  written[c] = Writes(c)
  <1>1. ASSUME NEW k \in Writes(c) PROVE k \in written[c]
    BY Numbers DEF CallOK, Position, Filled, Accepted, Failed
  <1> QED
    BY <1>1 DEF CallOK

(* A transaction that lands maps to Install, to Fail or to a stutter.      *)
LEMMA LandMaps ==
    ASSUME IInv, NEW c \in Calls, NEW k \in Txs(c), Land(c, k)
    PROVE  [Promise!Next]_(Promise!vars)
  <1>1. Shapes /\ ProgramOK /\ CallOK(c) /\ \A d \in Calls : CallOK(d)
    BY ByCalls
  <1>2. k = at[c] /\ result[c] # "returned" /\ result' = result /\ tx[c][k] = "sent"
    BY <1>1, SentIsCurrent DEF Land, caller
  <1>3. \A s : tx' = [tx EXCEPT ![c][k] = s] =>
            /\ tx'[c][k] = s /\ (\A j \in Txs(c) : j # k => tx'[c][j] = tx[c][j])
            /\ \A d \in Calls : d # c => tx'[d] = tx[d]
    BY <1>1 DEF Shapes, CallOK
  <1>4. CASE tx' = [tx EXCEPT ![c][k] = "failed"] /\ UNCHANGED ledger
    <2>1. tx'[c][k] = "failed" /\ (\A j \in Txs(c) : j # k => tx'[c][j] = tx[c][j])
          /\ \A d \in Calls : d # c => tx'[d] = tx[d]
      BY <1>3, <1>4
    <2>2. \A d \in Calls : Done(d)' = Done(d)
      BY <1>2, <2>1, Numbers DEF Done, InstallTx
    <2>3. \A d \in Calls : Failed(d)' <=> Failed(d) \/ d = c
      BY <2>1 DEF Failed, Txs, InstallTx
    <2>4. Promise!Fail(c)
      BY <1>2, <1>4, <2>2, <2>3 DEF Promise!Fail, ledger, Done, Failed
    <2> QED
      BY <2>4 DEF Promise!Next
  <1>5. CASE Valid(c, k) /\ tx' = [tx EXCEPT ![c][k] = "ok"] /\ Apply(c, k)
    <2>1. tx'[c][k] = "ok" /\ (\A j \in Txs(c) : j # k => tx'[c][j] = tx[c][j])
          /\ \A d \in Calls : d # c => tx'[d] = tx[d]
      BY <1>3, <1>5
    <2>2. \A d \in Calls : Failed(d)' = Failed(d)
      BY <1>2, <2>1 DEF Failed, Txs, InstallTx
    <2>3. CASE k # InstallTx(c)
      <3>1. \A d \in Calls : Done(d)' = Done(d)
        BY <2>1, <2>3, Numbers DEF Done, InstallTx
      <3>2. program' = program
        BY <1>5, <2>3 DEF Apply
      <3> QED
        BY <1>2, <2>2, <3>1, <3>2, Stutter
    <2>4. CASE k = InstallTx(c)
      <3>1. program' = Installed(c) /\ MayInstall(c)
        <4>1. InstallTx(c) # Create /\ InstallTx(c) \notin Writes(c)
          BY Numbers DEF Create
        <4> QED
          BY <1>5, <2>4, <4>1 DEF Apply, Valid
      <3>2. program'.code = c /\ program'.image = written[c]
            /\ program'.authority = (IF c \in Deploys THEN Key[c] ELSE program.authority)
        BY <1>1, <3>1 DEF Installed, Deployed, Upgraded, ProgramOK
      <3>3. ~Done(c) /\ \A d \in Calls : Done(d)' <=> Done(d) \/ d = c
        BY <1>2, <2>1, <2>4 DEF Done, InstallTx
      <3>4. Whole' \in {TRUE, ~Failed(c)}
        <4>1. c # Nobody /\ Writes(c)' = Writes(c)
          BY UpgradeAssumption DEF UpgradeAssumption, Writes
        <4>2. Whole' = (written[c] = Writes(c))
          BY <3>2, <4>1 DEF Whole, Writes
        <4>3. ~Failed(c) => Whole'
          BY <1>1, <1>2, <2>4, <4>2, WholeUnlessFailed
        <4> QED
          BY <4>2, <4>3
      <3>5. IF program.code = Nobody THEN program'.authority = Key[c]
               ELSE program.authority = Key[c] /\ program'.authority = program.authority
        BY <3>1, <3>2 DEF MayInstall, MayDeploy, MayUpgrade
      <3>6. Promise!Install(c)
        BY <1>2, <2>2, <3>2, <3>3, <3>4, <3>5 DEF Promise!Install, Whole, Done, Failed
      <3> QED
        BY <3>6 DEF Promise!Next
    <2> QED
      BY <2>3, <2>4
  <1> QED
    BY <1>4, <1>5 DEF Land

(* A step of a call maps to one step of AtomicProgram or to a stutter.     *)
LEMMA StepMaps ==
    ASSUME IInv, NEW c \in Calls, StepOf(c)
    PROVE  [Promise!Next]_(Promise!vars)
  <1>1. Shapes /\ CallOK(c)
    BY ByCalls
  <1>2. CASE Begin(c)
    BY <1>2, Stutter DEF Begin, ledger, Done, Failed
  <1>3. CASE FileNotFound(c) \/ Raises(c)
    <2>1. result[c] = "none" /\ End(c, "raised") /\ program' = program /\ tx' = tx
      BY <1>1, <1>3 DEF FileNotFound, Raises, ledger, CallOK
    <2> QED
      BY <1>1, <2>1, EndMaps
  <1>4. CASE Send(c)
    <2>1. tx[c][at[c]] = "none" /\ tx' = [tx EXCEPT ![c][at[c]] = "sent"] /\ result' = result
          /\ program' = program
      BY <1>1, <1>4 DEF Send, ledger, CallOK, Position
    <2>2. tx'[c][at[c]] = "sent" /\ (\A j \in Txs(c) : j # at[c] => tx'[c][j] = tx[c][j])
          /\ \A d \in Calls : d # c => tx'[d] = tx[d]
      BY <1>1, <2>1 DEF Shapes, CallOK
    <2>3. \A d \in Calls : Done(d)' = Done(d) /\ Failed(d)' = Failed(d)
      BY <1>1, <2>1, <2>2, Numbers DEF Done, Failed, Txs, InstallTx
    <2> QED
      BY <2>1, <2>3, Stutter
  <1>5. CASE Confirmed(c)
    <2>1. pc[c] = "wait" /\ tx[c][at[c]] \in {"ok", "failed"} /\ tx' = tx /\ program' = program
          /\ result[c] = "none"
      BY <1>1, <1>5 DEF Confirmed, Accepts, ledger, CallOK
    <2>2. CASE at[c] = InstallTx(c)
      <3>1. End(c, "returned") /\ (Done(c) \/ Failed(c))
        BY <1>1, <1>5, <2>1, <2>2 DEF Confirmed, Done, Failed, CallOK
      <3> QED
        BY <1>1, <2>1, <3>1, EndMaps
    <2>3. CASE at[c] # InstallTx(c)
      BY <1>5, <2>1, <2>3, Stutter DEF Confirmed, Done, Failed
    <2> QED
      BY <2>2, <2>3
  <1>6. ASSUME NEW k \in Txs(c), Expire(c, k) PROVE [Promise!Next]_(Promise!vars)
    <2>1. tx[c][k] = "sent" /\ tx' = [tx EXCEPT ![c][k] = "dropped"] /\ result' = result
          /\ program' = program
      BY <1>6 DEF Expire, caller, ledger
    <2>2. tx'[c][k] = "dropped" /\ (\A j \in Txs(c) : j # k => tx'[c][j] = tx[c][j])
          /\ \A d \in Calls : d # c => tx'[d] = tx[d]
      BY <1>1, <2>1 DEF Shapes, CallOK
    <2>3. \A d \in Calls : Done(d)' = Done(d) /\ Failed(d)' = Failed(d)
      BY <2>1, <2>2, Numbers DEF Done, Failed, Txs, InstallTx
    <2> QED
      BY <2>1, <2>3, Stutter
  <1> QED
    BY <1>2, <1>3, <1>4, <1>5, <1>6, LandMaps DEF StepOf

(* The calls of deploy_program_upgradeable and upgrade_program implement   *)
(* AtomicProgram: code is replaced in one step, at most once for a call,   *)
(* under its authority, and by a whole image unless a transaction failed.  *)
THEOREM Refinement == Spec => ImplementsAtomicProgram
  <1>1. Init => Promise!Init
    <2> SUFFICES ASSUME Init PROVE Promise!Init
      OBVIOUS
    <2>1. \A c \in Calls : ~Done(c) /\ ~Failed(c)
      BY Numbers DEF Init, Done, Failed
    <2>2. program.code = Nobody /\ program.authority = Nobody
      BY DEF Init
    <2>3. {c \in Calls : Done(c)} = {} /\ {c \in Calls : Failed(c)} = {} /\ Whole = FALSE
      BY <2>1, <2>2 DEF Whole
    <2> QED
      BY <2>2, <2>3 DEF Init, Promise!Init, Whole, Done, Failed
  <1>2. IInv /\ [Next]_vars => [Promise!Next]_(Promise!vars)
    <2> SUFFICES ASSUME IInv, [Next]_vars PROVE [Promise!Next]_(Promise!vars)
      OBVIOUS
    <2>1. ASSUME NEW c \in Calls, StepOf(c) PROVE [Promise!Next]_(Promise!vars)
      BY <2>1, StepMaps
    <2>2. CASE HandOver
      <3>1. PICK k \in Authorities : program' = [program EXCEPT !.authority = k]
        BY <2>2 DEF HandOver, Authorities
      <3>2. program'.code = program.code /\ program'.image = program.image
            /\ program'.authority = k
        BY <3>1 DEF IInv, ProgramOK
      <3>3. Promise!HandOver
        BY <2>2, <3>2 DEF HandOver, Promise!HandOver, caller, Authorities
      <3> QED
        BY <3>3 DEF Promise!Next
    <2>3. CASE UNCHANGED vars
      BY <2>3, Stutter DEF vars, Done, Failed
    <2> QED
      BY <2>1, <2>2, <2>3 DEF Next, StepOf, Finished
  <1> QED
    BY <1>1, <1>2, Invariance, PTL DEF Spec, ImplementsAtomicProgram, Promise!Spec
=============================================================================
