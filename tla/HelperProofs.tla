----------------------------- MODULE HelperProofs -----------------------------
(***************************************************************************)
(* The one-transaction helpers (module TxHelpers), for any calls, any      *)
(* requests, any first ledger and any number of blockhashes: they keep the *)
(* ledger in order, and they do what HelperEffects promises.  First what a *)
(* transaction does: operation by operation, its instructions one after    *)
(* the other are the effect that the names of the parameters tell of.  Then*)
(* that an effect keeps the ledger in order, counting tokens one by one;   *)
(* that equal transactions are wanted alike; and the steps.                *)
(***************************************************************************)
EXTENDS TxHelpers, FiniteSetTheorems, WellFoundedInduction, TLAPS

(* Induction, for a set of naturals.                                       *)
LEMMA SetInduction ==
    ASSUME NEW S \in SUBSET Nat, 0 \in S, \A n \in S : n + 1 \in S
    PROVE  S = Nat
  <1> DEFINE R == OpToRel(<, Nat)
             rest == Nat \ S
  <1>1. \A m, n \in Nat : <<m, n>> \in R <=> m < n
    BY DEF OpToRel
  <1>2. IsWellFoundedOn(R, Nat)
    BY NatLessThanWellFounded
  <1>3. rest \subseteq Nat /\ (S # Nat => rest # {})
    OBVIOUS
  <1>4. ASSUME NEW n \in rest, \A m \in rest : <<m, n>> \notin R
        PROVE  FALSE
    <2>1. n \in Nat /\ n # 0 /\ n - 1 \in Nat /\ n - 1 < n
      OBVIOUS
    <2>2. n - 1 \notin rest
      BY <1>1, <1>4, <2>1
    <2>3. n - 1 + 1 \in S
      BY <2>1, <2>2
    <2> QED
      BY <2>1, <2>3
  <1> HIDE DEF R, rest
  <1>5. rest = {}
    <2>1. rest # {} => \E n \in rest : \A m \in rest : <<m, n>> \notin R
      BY <1>2, <1>3, WFMin
    <2> QED
      BY <1>4, <2>1
  <1> QED
    BY <1>3, <1>5

-----------------------------------------------------------------------------
(* A transaction runs its instructions one after the other.                *)

Ran(S, ix) == UNION {Exec(ix, L) : L \in S}

RunsTo(f, message, m) ==
    f = [n \in 0..m |-> IF n = 0 THEN {ledger} ELSE Ran(f[n - 1], message[n])]

LEMMA RunsExist == ASSUME NEW message PROVE \A m \in Nat : \E f : RunsTo(f, message, m)
  <1> DEFINE Good(m) == \E f : RunsTo(f, message, m)
             good == {m \in Nat : Good(m)}
  <1>1. Good(0)
    <2> DEFINE f == [n \in 0..0 |-> {ledger}]
    <2>1. RunsTo(f, message, 0)
      BY DEF RunsTo
    <2> HIDE DEF f
    <2> QED
      BY <2>1
  <1>2. ASSUME NEW m \in Nat, Good(m) PROVE Good(m + 1)
    <2>1. PICK f : RunsTo(f, message, m)
      BY <1>2
    <2> DEFINE next == Ran(f[m], message[m + 1])
               g == [n \in 0..m + 1 |-> IF n = m + 1 THEN next ELSE f[n]]
    <2> HIDE DEF next
    <2>2. ASSUME NEW n \in 0..m + 1
          PROVE  g[n] = IF n = 0 THEN {ledger} ELSE Ran(g[n - 1], message[n])
      <3>1. CASE n = m + 1
        BY <3>1 DEF next
      <3>2. CASE n # m + 1
        <4>1. n \in 0..m /\ (n # 0 => n - 1 \in 0..m) /\ n - 1 # m + 1
          BY <3>2
        <4>2. f[n] = IF n = 0 THEN {ledger} ELSE Ran(f[n - 1], message[n])
          BY <2>1, <4>1 DEF RunsTo
        <4>3. g[n] = f[n] /\ (n # 0 => g[n - 1] = f[n - 1])
          BY <3>2, <4>1
        <4> QED
          BY <4>2, <4>3
      <3> QED
        BY <3>1, <3>2
    <2>3. g = [n \in 0..m + 1 |-> g[n]]
      OBVIOUS
    <2> HIDE DEF g
    <2>4. RunsTo(g, message, m + 1)
      BY <2>2, <2>3 DEF RunsTo
    <2> QED
      BY <2>4
  <1> HIDE DEF Good
  <1>3. good = Nat
    <2>1. good \in SUBSET Nat /\ 0 \in good /\ \A m \in good : m + 1 \in good
      BY <1>1, <1>2
    <2> HIDE DEF good
    <2> QED
      BY <2>1, SetInduction
  <1>4. \A m \in Nat : Good(m)
    BY <1>3
  <1> QED
    BY <1>4 DEF Good

RanFrom(f, message, m) ==
    f[0] = {ledger} /\ \A n \in Nat : n < m => f[n + 1] = Ran(f[n], message[n + 1])

LEMMA OutcomesFacts ==
    ASSUME NEW message, NEW m \in Nat, Len(message) = m
    PROVE  \E f : Outcomes(message) = f[m] /\ RanFrom(f, message, m)
  <1> DEFINE F == CHOOSE f : RunsTo(f, message, m)
  <1>1. RunsTo(F, message, m)
    BY RunsExist
  <1>2. Outcomes(message) = F[m]
    BY DEF Outcomes, RunsTo, Ran
  <1> HIDE DEF F
  <1>3. F = [n \in 0..m |-> IF n = 0 THEN {ledger} ELSE Ran(F[n - 1], message[n])]
    BY <1>1 DEF RunsTo
  <1>4. \A n \in 0..m : F[n] = IF n = 0 THEN {ledger} ELSE Ran(F[n - 1], message[n])
    BY <1>3
  <1>5. F[0] = {ledger}
    BY <1>4
  <1>6. ASSUME NEW n \in Nat, n < m PROVE F[n + 1] = Ran(F[n], message[n + 1])
    <2>1. n + 1 \in 0..m /\ n + 1 # 0 /\ n + 1 - 1 = n
      BY <1>6
    <2>2. F[n + 1] = Ran(F[n + 1 - 1], message[n + 1])
      BY <1>4, <2>1
    <2> QED
      BY <2>1, <2>2
  <1>7. RanFrom(F, message, m)
    BY <1>5, <1>6 DEF RanFrom
  <1> QED
    BY <1>2, <1>7

LEMMA OutcomesOne == ASSUME NEW a PROVE Outcomes(<<a>>) = Exec(a, ledger)
  <1>1. Len(<<a>>) = 1
    OBVIOUS
  <1>2. PICK f : Outcomes(<<a>>) = f[1] /\ RanFrom(f, <<a>>, 1)
    BY <1>1, OutcomesFacts
  <1>3. f[0] = {ledger} /\ f[0 + 1] = Ran(f[0], <<a>>[0 + 1])
    BY <1>2 DEF RanFrom
  <1>4. f[1] = Ran({ledger}, a)
    BY <1>3
  <1> QED
    BY <1>2, <1>4 DEF Ran

LEMMA OutcomesTwo == ASSUME NEW a, NEW b PROVE Outcomes(<<a, b>>) = Ran(Exec(a, ledger), b)
  <1>1. Len(<<a, b>>) = 2
    OBVIOUS
  <1>2. PICK f : Outcomes(<<a, b>>) = f[2] /\ RanFrom(f, <<a, b>>, 2)
    BY <1>1, OutcomesFacts
  <1>3. /\ f[0] = {ledger} /\ f[0 + 1] = Ran(f[0], <<a, b>>[0 + 1])
        /\ f[1 + 1] = Ran(f[1], <<a, b>>[1 + 1])
    BY <1>2 DEF RanFrom
  <1>4. f[1] = Ran({ledger}, a) /\ f[2] = Ran(f[1], b)
    BY <1>3
  <1>5. Ran({ledger}, a) = Exec(a, ledger)
    BY DEF Ran
  <1> QED
    BY <1>2, <1>4, <1>5

-----------------------------------------------------------------------------
(* What the programs make of each instruction.                             *)

LEMMA ExecCreate ==
    ASSUME NEW L, NEW payer, NEW new, NEW program
    PROVE  Exec(CreateAccount(payer, new, program), L)
               = Promise!Created(L, new, Promise!Account("blank", "-", program))
  BY DEF Exec, CreateAccount, Ix

LEMMA ExecInitializeMint ==
    ASSUME NEW L, NEW a, NEW authority
    PROVE  Exec(InitializeMint(a, authority), L)
               = IF Promise!Blank(L, a, "token")
                   THEN Becomes(L, a, Promise!Account("mint", "-", authority)) ELSE {}
  BY DEF Exec, InitializeMint, Ix

LEMMA ExecInitializeAccount ==
    ASSUME NEW L, NEW a, NEW mint, NEW owner
    PROVE  Exec(InitializeAccount(a, mint, owner), L)
               = IF Promise!Blank(L, a, "token") /\ L[mint].is = "mint"
                   THEN Becomes(L, a, Promise!Account("token", mint, owner)) ELSE {}
  BY DEF Exec, InitializeAccount, Ix

LEMMA ExecInitializeNonce ==
    ASSUME NEW L, NEW a, NEW authorized
    PROVE  Exec(InitializeNonce(a, authorized), L)
               = IF Promise!Blank(L, a, "system")
                   THEN Becomes(L, a, Promise!Account("nonce", "-", authorized)) ELSE {}
  BY DEF Exec, InitializeNonce, Ix

LEMMA ExecMintTo ==
    ASSUME NEW L, NEW mint, NEW destination, NEW authority, NEW n
    PROVE  Exec(MintTo(mint, destination, authority, n), L)
               = IF Promise!Is(L, destination, mint) /\ L[mint].owner = authority
                   THEN {[L EXCEPT ![mint].amount = @ + n, ![destination].amount = @ + n]}
                   ELSE {}
  BY DEF Exec, MintTo, Ix

LEMMA ExecTransfer ==
    ASSUME NEW L, NEW source, NEW destination, NEW owner, NEW n
    PROVE  Exec(Transfer(source, destination, owner, n), L)
               = IF L[source].is = "token" /\ Promise!Is(L, destination, L[source].mint)
                    /\ L[source].owner = owner
                   THEN Promise!Moved(L, source, destination, n) ELSE {}
  BY DEF Exec, Transfer, Ix

LEMMA ExecBurn ==
    ASSUME NEW L, NEW account, NEW mint, NEW owner, NEW n
    PROVE  Exec(Burn(account, mint, owner, n), L)
               = IF Promise!Is(L, account, mint) /\ L[account].owner = owner /\ L[account].amount >= n
                   THEN {[L EXCEPT ![mint].amount = @ - n, ![account].amount = @ - n]}
                   ELSE {}
  BY DEF Exec, Burn, Ix

LEMMA ExecClose ==
    ASSUME NEW L, NEW account, NEW destination, NEW owner
    PROVE  Exec(CloseAccount(account, destination, owner), L)
               = IF L[account].is = "token" /\ L[account].owner = owner /\ L[account].amount = 0
                   THEN Becomes(L, account, Promise!None) ELSE {}
  BY DEF Exec, CloseAccount, Ix

LEMMA ExecSystemTransfer ==
    ASSUME NEW L, NEW from, NEW to, NEW n
    PROVE  Exec(SystemTransfer(from, to, n), L) = Promise!Paid(L, from, to, n)
  BY DEF Exec, SystemTransfer, Ix

LEMMA ExecFaucetTransfer ==
    ASSUME NEW L, NEW to, NEW n
    PROVE  Exec(FaucetTransfer(to, n), L) = Promise!Funded(L, to, n)
  BY DEF Exec, FaucetTransfer, Ix

LEMMA ExecMemo == ASSUME NEW L, NEW signer, NEW text PROVE Exec(Memo(signer, text), L) = {L}
  BY DEF Exec, Memo, Ix

LEMMA ExecComputeBudget == ASSUME NEW L, NEW units PROVE Exec(ComputeBudget(units), L) = {L}
  BY DEF Exec, ComputeBudget, Ix

(* The instruction of an operation does what its parameters say.           *)
LEMMA InstructionPerforms ==
    ASSUME NEW p, p.fn \in Promise!Single, NEW L
    PROVE  Exec(Instruction(p), L) = Promise!Performed(p, L)
  <1>1. CASE p.fn = "initialize_mint"
    <2>1. Instruction(p) = InitializeMint(p.account, p.authority)
      BY <1>1 DEF Instruction
    <2>2. Promise!Performed(p, L)
              = IF Promise!Blank(L, p.account, "token")
                  THEN {[L EXCEPT ![p.account] = Promise!Account("mint", "-", p.authority)]} ELSE {}
      BY <1>1 DEF Promise!Performed
    <2> QED
      BY <2>1, <2>2, ExecInitializeMint DEF Becomes
  <1>2. CASE p.fn = "initialize_account"
    <2>1. Instruction(p) = InitializeAccount(p.account, p.mint, p.owner)
      BY <1>2 DEF Instruction
    <2>2. Promise!Performed(p, L)
              = IF Promise!Blank(L, p.account, "token") /\ L[p.mint].is = "mint"
                  THEN {[L EXCEPT ![p.account] = Promise!Account("token", p.mint, p.owner)]} ELSE {}
      BY <1>2 DEF Promise!Performed
    <2> QED
      BY <2>1, <2>2, ExecInitializeAccount DEF Becomes
  <1>3. CASE p.fn = "initialize_nonce"
    <2>1. Instruction(p) = InitializeNonce(p.account, p.authority)
      BY <1>3 DEF Instruction
    <2>2. Promise!Performed(p, L)
              = IF Promise!Blank(L, p.account, "system")
                  THEN {[L EXCEPT ![p.account] = Promise!Account("nonce", "-", p.authority)]} ELSE {}
      BY <1>3 DEF Promise!Performed
    <2> QED
      BY <2>1, <2>2, ExecInitializeNonce DEF Becomes
  <1>4. CASE p.fn = "mint_to"
    <2>1. Instruction(p) = MintTo(p.mint, p.destination, p.authority, p.amount)
      BY <1>4 DEF Instruction, mint_to
    <2>2. Promise!Performed(p, L)
              = IF Promise!Is(L, p.destination, p.mint) /\ L[p.mint].owner = p.authority
                  THEN {[L EXCEPT ![p.mint].amount = @ + p.amount,
                                  ![p.destination].amount = @ + p.amount]}
                  ELSE {}
      BY <1>4 DEF Promise!Performed
    <2>3. Exec(MintTo(p.mint, p.destination, p.authority, p.amount), L)
              = IF Promise!Is(L, p.destination, p.mint) /\ L[p.mint].owner = p.authority
                  THEN {[L EXCEPT ![p.mint].amount = @ + p.amount,
                                  ![p.destination].amount = @ + p.amount]}
                  ELSE {}
      BY ExecMintTo
    <2> QED
      BY <2>1, <2>2, <2>3, Zenon
  <1>5. CASE p.fn = "token_transfer"
    <2>1. Instruction(p) = Transfer(p.source, p.destination, p.owner, p.amount)
      BY <1>5 DEF Instruction, token_transfer
    <2>2. Promise!Performed(p, L)
              = IF Promise!Is(L, p.source, L[p.destination].mint)
                   /\ Promise!Is(L, p.destination, L[p.source].mint) /\ L[p.source].owner = p.owner
                  THEN Promise!Moved(L, p.source, p.destination, p.amount)
                  ELSE {}
      BY <1>5 DEF Promise!Performed
    <2>3. (/\ Promise!Is(L, p.source, L[p.destination].mint)
           /\ Promise!Is(L, p.destination, L[p.source].mint) /\ L[p.source].owner = p.owner)
          <=> (/\ L[p.source].is = "token"
               /\ Promise!Is(L, p.destination, L[p.source].mint) /\ L[p.source].owner = p.owner)
      BY DEF Promise!Is
    <2> QED
      BY <2>1, <2>2, <2>3, ExecTransfer
  <1>6. CASE p.fn = "burn_tokens"
    <2>1. Instruction(p) = Burn(p.account, p.mint, p.owner, p.amount)
      BY <1>6 DEF Instruction, burn_tokens
    <2>2. Promise!Performed(p, L)
              = IF Promise!Is(L, p.account, p.mint) /\ L[p.account].owner = p.owner
                   /\ L[p.account].amount >= p.amount
                  THEN {[L EXCEPT ![p.mint].amount = @ - p.amount,
                                  ![p.account].amount = @ - p.amount]}
                  ELSE {}
      BY <1>6 DEF Promise!Performed
    <2> QED
      BY <2>1, <2>2, ExecBurn
  <1>7. CASE p.fn = "close_token_account"
    <2>1. Instruction(p) = CloseAccount(p.account, p.destination, p.owner)
      BY <1>7 DEF Instruction, close_token_account
    <2>2. Promise!Performed(p, L)
              = IF L[p.account].is = "token" /\ L[p.account].owner = p.owner
                   /\ L[p.account].amount = 0
                  THEN {[L EXCEPT ![p.account] = Promise!None]} ELSE {}
      BY <1>7 DEF Promise!Performed
    <2>3. Exec(CloseAccount(p.account, p.destination, p.owner), L)
              = IF L[p.account].is = "token" /\ L[p.account].owner = p.owner
                   /\ L[p.account].amount = 0
                  THEN {[L EXCEPT ![p.account] = Promise!None]} ELSE {}
      BY ExecClose DEF Becomes
    <2> QED
      BY <2>1, <2>2, <2>3, Zenon
  <1>8. CASE p.fn \in {"send_memo", "compute_budget"}
    <2>1. Instruction(p) = Memo(p.signer, p.amount) \/ Instruction(p) = ComputeBudget(p.amount)
      BY <1>8 DEF Instruction, send_memo
    <2>2. Promise!Performed(p, L) = {L}
      BY <1>8 DEF Promise!Performed
    <2> QED
      BY <2>1, <2>2, ExecMemo, ExecComputeBudget
  <1>9. CASE p.fn = "send_transfer"
    <2>1. Instruction(p) = SystemTransfer(p.sender, p.to, p.amount)
      BY <1>9 DEF Instruction, send_transfer
    <2>2. Promise!Performed(p, L) = Promise!Paid(L, p.sender, p.to, p.amount)
      BY <1>9 DEF Promise!Performed
    <2> QED
      BY <2>1, <2>2, ExecSystemTransfer
  <1> QED
    BY <1>1, <1>2, <1>3, <1>4, <1>5, <1>6, <1>7, <1>8, <1>9 DEF Promise!Single

(* Operations one after the other.                                         *)
Does(S, p) == UNION {Promise!Performed(p, L) : L \in S}

DoesTo(f, parts, m) ==
    f = [n \in 0..m |-> IF n = 0 THEN {ledger} ELSE Does(f[n - 1], parts[n])]

LEMMA DoesAsRuns ==
    ASSUME NEW parts, NEW message, NEW m \in Nat,
           \A i \in 1..m : parts[i].fn \in Promise!Single /\ message[i] = Instruction(parts[i])
    PROVE  \A f : RunsTo(f, message, m) <=> DoesTo(f, parts, m)
  <1>1. ASSUME NEW S, NEW n \in 1..m
        PROVE  Ran(S, message[n]) = Does(S, parts[n])
    <2>1. \A L : Exec(message[n], L) = Promise!Performed(parts[n], L)
      BY InstructionPerforms
    <2> QED
      BY <2>1 DEF Ran, Does
  <1>2. TAKE f
  <1>3. \A n \in 0..m : (IF n = 0 THEN {ledger} ELSE Ran(f[n - 1], message[n]))
                           = (IF n = 0 THEN {ledger} ELSE Does(f[n - 1], parts[n]))
    <2>1. TAKE n \in 0..m
    <2>2. CASE n = 0
      BY <2>2
    <2>3. CASE n # 0
      BY <1>1, <2>3
    <2> QED
      BY <2>2, <2>3
  <1>4. [n \in 0..m |-> IF n = 0 THEN {ledger} ELSE Ran(f[n - 1], message[n])]
            = [n \in 0..m |-> IF n = 0 THEN {ledger} ELSE Does(f[n - 1], parts[n])]
    BY <1>3
  <1> QED
    BY <1>4 DEF RunsTo, DoesTo

DoneFrom(f, parts, m) ==
    f[0] = {ledger} /\ \A n \in Nat : n < m => f[n + 1] = Does(f[n], parts[n + 1])

LEMMA AllFacts ==
    ASSUME NEW parts, NEW m \in Nat, Len(parts) = m,
           \A i \in 1..m : parts[i].fn \in Promise!Single
    PROVE  \E f : Promise!All(parts, ledger) = f[m] /\ DoneFrom(f, parts, m)
  <1> DEFINE F == CHOOSE f : DoesTo(f, parts, m)
             message == [i \in 1..m |-> Instruction(parts[i])]
  <1>1. DoesTo(F, parts, m)
    <2>1. \A i \in 1..m :
              parts[i].fn \in Promise!Single /\ message[i] = Instruction(parts[i])
      OBVIOUS
    <2> HIDE DEF message
    <2>2. \E f : RunsTo(f, message, m)
      BY RunsExist
    <2>3. \A f : RunsTo(f, message, m) <=> DoesTo(f, parts, m)
      BY <2>1, DoesAsRuns
    <2> QED
      BY <2>2, <2>3
  <1>2. Promise!All(parts, ledger) = F[m]
    BY DEF Promise!All, DoesTo, Does
  <1> HIDE DEF F
  <1>3. F = [n \in 0..m |-> IF n = 0 THEN {ledger} ELSE Does(F[n - 1], parts[n])]
    BY <1>1 DEF DoesTo
  <1>4. \A n \in 0..m : F[n] = IF n = 0 THEN {ledger} ELSE Does(F[n - 1], parts[n])
    BY <1>3
  <1>5. F[0] = {ledger}
    BY <1>4
  <1>6. ASSUME NEW n \in Nat, n < m PROVE F[n + 1] = Does(F[n], parts[n + 1])
    <2>1. n + 1 \in 0..m /\ n + 1 # 0 /\ n + 1 - 1 = n
      BY <1>6
    <2>2. F[n + 1] = Does(F[n + 1 - 1], parts[n + 1])
      BY <1>4, <2>1
    <2> QED
      BY <2>1, <2>2
  <1>7. DoneFrom(F, parts, m)
    BY <1>5, <1>6 DEF DoneFrom
  <1> QED
    BY <1>2, <1>7

LEMMA RunsAll ==
    ASSUME NEW parts, NEW message, NEW m \in Nat, Len(parts) = m, Len(message) = m,
           \A i \in 1..m : parts[i].fn \in Promise!Single /\ message[i] = Instruction(parts[i])
    PROVE  Outcomes(message) = Promise!All(parts, ledger)
  <1>1. PICK p : Promise!All(parts, ledger) = p[m] /\ DoneFrom(p, parts, m)
    BY AllFacts
  <1>2. PICK f : Outcomes(message) = f[m] /\ RanFrom(f, message, m)
    BY OutcomesFacts
  <1>3. ASSUME NEW S, NEW n \in 1..m PROVE Ran(S, message[n]) = Does(S, parts[n])
    <2>1. \A L : Exec(message[n], L) = Promise!Performed(parts[n], L)
      BY InstructionPerforms
    <2> QED
      BY <2>1 DEF Ran, Does
  <1> DEFINE same == {n \in Nat : n <= m => f[n] = p[n]}
  <1> HIDE DEF same
  <1>4. 0 \in same
    BY <1>1, <1>2 DEF same, DoneFrom, RanFrom
  <1>5. ASSUME NEW n \in same PROVE n + 1 \in same
    <2> SUFFICES ASSUME n + 1 <= m PROVE f[n + 1] = p[n + 1]
      BY DEF same
    <2>1. n \in Nat /\ n < m /\ n + 1 \in 1..m /\ f[n] = p[n]
      BY DEF same
    <2>2. p[n + 1] = Does(p[n], parts[n + 1])
      BY <1>1, <2>1 DEF DoneFrom
    <2>3. f[n + 1] = Ran(f[n], message[n + 1])
      BY <1>2, <2>1 DEF RanFrom
    <2> QED
      BY <1>3, <2>1, <2>2, <2>3
  <1>6. same = Nat
    <2>1. same \in SUBSET Nat
      BY DEF same
    <2> QED
      BY <1>4, <1>5, <2>1, SetInduction
  <1>7. f[m] = p[m]
    BY <1>6 DEF same
  <1> QED
    BY <1>1, <1>2, <1>7

(* The helpers by what they send: an account of their own, an airdrop, or  *)
(* operations.                                                             *)
Creates == {"create_mint", "create_token_account", "create_program_owned_account",
            "create_nonce_account"}
Airdropping == {"create_keypair", "fund_account"}
Operates == Promise!Single \cup {"send_transfers", "send_multi_instruction_tx"}

LEMMA Helpers ==
    ASSUME NEW r, IsRequest(r) PROVE r.fn \in Creates \cup Airdropping \cup Operates
  BY DEF IsRequest, Promise!Parameters, Promise!Single, Creates, Airdropping, Operates

LEMMA Instructions ==
    ASSUME NEW c, NEW r, IsRequest(r), r.fn \in Operates
    PROVE  LET parts == Promise!Parts(r)
               message == Message(c, r)
           IN  \E m \in Nat :
                  /\ DOMAIN parts = 1..m /\ Len(parts) = m
                  /\ DOMAIN message = 1..m /\ Len(message) = m
                  /\ \A i \in 1..m : /\ parts[i].fn \in Promise!Single /\ Names(parts[i])
                                     /\ message[i] = Instruction(parts[i])
  <1>1. CASE r.fn \in Promise!Single
    <2>1. Promise!Parts(r) = <<r>> /\ Message(c, r) = <<Instruction(r)>>
      BY <1>1 DEF Promise!Parts, Message, Promise!Single
    <2>2. \A x : DOMAIN <<x>> = 1..1 /\ Len(<<x>>) = 1 /\ <<x>>[1] = x
      OBVIOUS
    <2>3. Names(r)
      BY DEF IsRequest
    <2>4. \A i \in 1..1 : i = 1
      OBVIOUS
    <2> QED
      BY <1>1, <2>1, <2>2, <2>3, <2>4
  <1>2. CASE r.fn = "send_transfers"
    <2>1. IsList(r.recipients) /\ \A i \in DOMAIN r.recipients : r.recipients[i] \in Addresses \X Nat
      BY <1>2 DEF IsRequest
    <2>2. PICK m \in Nat : DOMAIN r.recipients = 1..m
      BY <2>1 DEF IsList
    <2>3. Promise!Parts(r) = [i \in 1..m |-> [fn |-> "send_transfer", sender |-> r.sender,
                                to |-> r.recipients[i][1], amount |-> r.recipients[i][2]]]
      BY <1>2, <2>2 DEF Promise!Parts
    <2>4. Message(c, r)
            = [i \in 1..m |-> SystemTransfer(r.sender, r.recipients[i][1], r.recipients[i][2])]
      BY <1>2, <2>2 DEF Message, send_transfers
    <2>5. r.sender \in Addresses
      BY <1>2 DEF IsRequest, Names, Promise!Parameters, Places
    <2>6. ASSUME NEW i \in 1..m
          PROVE  /\ Promise!Parts(r)[i].fn \in Promise!Single /\ Names(Promise!Parts(r)[i])
                 /\ Message(c, r)[i] = Instruction(Promise!Parts(r)[i])
      <3> DEFINE p == [fn |-> "send_transfer", sender |-> r.sender,
                       to |-> r.recipients[i][1], amount |-> r.recipients[i][2]]
      <3>1. r.recipients[i][1] \in Addresses /\ r.recipients[i][2] \in Nat
        BY <2>1, <2>2
      <3>2. Promise!Parts(r)[i] = p
        BY <2>3
      <3>3. p.fn = "send_transfer" /\ p.sender = r.sender /\ p.to = r.recipients[i][1]
            /\ p.amount = r.recipients[i][2]
            /\ p["sender"] = r.sender /\ p["to"] = r.recipients[i][1]
        OBVIOUS
      <3> HIDE DEF p
      <3>4. Instruction(p) = SystemTransfer(p.sender, p.to, p.amount)
        BY <3>3 DEF Instruction, send_transfer
      <3>5. Promise!Parameters[p.fn] = {"sender", "to", "amount"}
        BY <3>3 DEF Promise!Parameters
      <3>6. Names(p)
        BY <2>5, <3>1, <3>3, <3>5 DEF Names, Places
      <3> QED
        BY <2>4, <3>2, <3>3, <3>4, <3>6 DEF Promise!Single
    <2>7. \A f : f = [i \in 1..m |-> f[i]] => DOMAIN f = 1..m /\ Len(f) = m
      OBVIOUS
    <2> QED
      BY <2>3, <2>4, <2>6, <2>7
  <1>3. CASE r.fn = "send_multi_instruction_tx"
    <2>1. /\ IsList(r.instructions)
          /\ \A i \in DOMAIN r.instructions :
                r.instructions[i].fn \in Promise!Single /\ Names(r.instructions[i])
      BY <1>3 DEF IsRequest
    <2>2. PICK m \in Nat : DOMAIN r.instructions = 1..m /\ Len(r.instructions) = m
      BY <2>1 DEF IsList
    <2>3. Promise!Parts(r) = r.instructions
      BY <1>3 DEF Promise!Parts
    <2>4. Message(c, r) = [i \in 1..m |-> Instruction(r.instructions[i])]
      BY <1>3, <2>2 DEF Message, send_multi_instruction_tx
    <2>5. DOMAIN Message(c, r) = 1..m /\ Len(Message(c, r)) = m
      BY <2>4
    <2> QED
      BY <2>1, <2>2, <2>3, <2>4, <2>5
  <1> QED
    BY <1>1, <1>2, <1>3 DEF Operates

(* An account that is created and initialized is one that holds its        *)
(* contents.                                                               *)
LEMMA CreatedAndBecome ==
    ASSUME NEW L, NEW a \in DOMAIN L, NEW blank, NEW account
    PROVE  LET M == [L EXCEPT ![a] = blank]
           IN  M[a] = blank /\ Becomes(M, a, account) = {[L EXCEPT ![a] = account]}
  BY DEF Becomes

LEMMA CreatesMint ==
    ASSUME NEW a \in DOMAIN ledger, NEW authority
    PROVE  Outcomes(CreateAndInit(CreateAccount("payer", a, "token"), InitializeMint(a, authority)))
               = Promise!Created(ledger, a, Promise!Account("mint", "-", authority))
  <1> DEFINE blank == Promise!Account("blank", "-", "token")
             account == Promise!Account("mint", "-", authority)
             M == [ledger EXCEPT ![a] = blank]
  <1>1. Outcomes(CreateAndInit(CreateAccount("payer", a, "token"), InitializeMint(a, authority)))
            = Ran(Promise!Created(ledger, a, blank), InitializeMint(a, authority))
    BY OutcomesTwo, ExecCreate DEF CreateAndInit
  <1>2. CASE ledger[a] # Promise!None
    BY <1>1, <1>2 DEF Ran, Promise!Created
  <1>3. CASE ledger[a] = Promise!None
    <2>1. Promise!Created(ledger, a, blank) = {M}
      BY <1>3 DEF Promise!Created
    <2>2. Promise!Created(ledger, a, account) = {[ledger EXCEPT ![a] = account]}
      BY <1>3 DEF Promise!Created
    <2>3. Becomes(M, a, account) = {[ledger EXCEPT ![a] = account]} /\ M[a] = blank
      BY CreatedAndBecome
    <2>4. Promise!Blank(M, a, "token")
      BY <2>3 DEF Promise!Blank, Promise!Account
    <2> HIDE DEF M, account, blank
    <2>5. Exec(InitializeMint(a, authority), M) = Becomes(M, a, account)
      BY <2>4, ExecInitializeMint DEF account
    <2> QED
      BY <1>1, <2>1, <2>2, <2>3, <2>5 DEF Ran, account
  <1> QED
    BY <1>2, <1>3

LEMMA CreatesTokenAccount ==
    ASSUME NEW a \in DOMAIN ledger, NEW mint \in DOMAIN ledger, NEW owner
    PROVE  Outcomes(CreateAndInit(CreateAccount("payer", a, "token"),
                                  InitializeAccount(a, mint, owner)))
               = IF ledger[mint].is = "mint"
                   THEN Promise!Created(ledger, a, Promise!Account("token", mint, owner)) ELSE {}
  <1> DEFINE blank == Promise!Account("blank", "-", "token")
             account == Promise!Account("token", mint, owner)
             M == [ledger EXCEPT ![a] = blank]
  <1>1. Outcomes(CreateAndInit(CreateAccount("payer", a, "token"), InitializeAccount(a, mint, owner)))
            = Ran(Promise!Created(ledger, a, blank), InitializeAccount(a, mint, owner))
    BY OutcomesTwo, ExecCreate DEF CreateAndInit
  <1>2. CASE ledger[a] # Promise!None
    BY <1>1, <1>2 DEF Ran, Promise!Created
  <1>3. CASE ledger[a] = Promise!None
    <2>1. Promise!Created(ledger, a, blank) = {M}
      BY <1>3 DEF Promise!Created
    <2>2. Promise!Created(ledger, a, account) = {[ledger EXCEPT ![a] = account]}
      BY <1>3 DEF Promise!Created
    <2>3. Becomes(M, a, account) = {[ledger EXCEPT ![a] = account]} /\ M[a] = blank
      BY CreatedAndBecome
    <2>4. Promise!Blank(M, a, "token")
      BY <2>3 DEF Promise!Blank, Promise!Account
    <2>5. M[mint].is = "mint" <=> ledger[mint].is = "mint"
      BY <1>3 DEF Promise!Account, Promise!None
    <2> HIDE DEF M, account, blank
    <2>6. Exec(InitializeAccount(a, mint, owner), M)
              = IF M[mint].is = "mint" THEN Becomes(M, a, account) ELSE {}
      BY <2>4, ExecInitializeAccount DEF account
    <2> QED
      BY <1>1, <2>1, <2>2, <2>3, <2>5, <2>6 DEF Ran, account
  <1> QED
    BY <1>2, <1>3

LEMMA CreatesNonce ==
    ASSUME NEW a \in DOMAIN ledger, NEW payer
    PROVE  Outcomes(CreateAndInit(CreateAccount(payer, a, "system"), InitializeNonce(a, payer)))
               = Promise!Created(ledger, a, Promise!Account("nonce", "-", payer))
  <1> DEFINE blank == Promise!Account("blank", "-", "system")
             account == Promise!Account("nonce", "-", payer)
             M == [ledger EXCEPT ![a] = blank]
  <1>1. Outcomes(CreateAndInit(CreateAccount(payer, a, "system"), InitializeNonce(a, payer)))
            = Ran(Promise!Created(ledger, a, blank), InitializeNonce(a, payer))
    BY OutcomesTwo, ExecCreate DEF CreateAndInit
  <1>2. CASE ledger[a] # Promise!None
    BY <1>1, <1>2 DEF Ran, Promise!Created
  <1>3. CASE ledger[a] = Promise!None
    <2>1. Promise!Created(ledger, a, blank) = {M}
      BY <1>3 DEF Promise!Created
    <2>2. Promise!Created(ledger, a, account) = {[ledger EXCEPT ![a] = account]}
      BY <1>3 DEF Promise!Created
    <2>3. Becomes(M, a, account) = {[ledger EXCEPT ![a] = account]} /\ M[a] = blank
      BY CreatedAndBecome
    <2>4. Promise!Blank(M, a, "system")
      BY <2>3 DEF Promise!Blank, Promise!Account
    <2> HIDE DEF M, account, blank
    <2>5. Exec(InitializeNonce(a, payer), M) = Becomes(M, a, account)
      BY <2>4, ExecInitializeNonce DEF account
    <2> QED
      BY <1>1, <2>1, <2>2, <2>3, <2>5 DEF Ran, account
  <1> QED
    BY <1>2, <1>3

(* A transaction does what its helper's parameters say.                    *)
LEMMA ExecutesEffect ==
    ASSUME IsLedger(ledger), NEW c \in Calls, NEW r, IsRequest(r)
    PROVE  Outcomes(Message(c, r)) = Promise!Effect(c, r, ledger)
  <1>1. DOMAIN ledger = Addresses /\ c \in Addresses
    BY HelpersAssumption DEF IsLedger
  <1>2. CASE r.fn = "create_mint"
    <2>1. Message(c, r) = create_mint(c, r)
      BY <1>2 DEF Message
    <2>2. Promise!Effect(c, r, ledger)
              = Promise!Created(ledger, c, Promise!Account("mint", "-", r.authority))
      BY <1>2 DEF Promise!Effect
    <2> QED
      BY <1>1, <2>1, <2>2, CreatesMint DEF create_mint
  <1>3. CASE r.fn = "create_token_account"
    <2>1. Message(c, r) = create_token_account(c, r)
      BY <1>3 DEF Message
    <2>2. Promise!Effect(c, r, ledger)
              = IF ledger[r.mint].is = "mint"
                  THEN Promise!Created(ledger, c, Promise!Account("token", r.mint, r.owner)) ELSE {}
      BY <1>3 DEF Promise!Effect
    <2>3. r.mint \in Addresses
      BY <1>3 DEF IsRequest, Names, Promise!Parameters, Places
    <2> QED
      BY <1>1, <2>1, <2>2, <2>3, CreatesTokenAccount DEF create_token_account
  <1>4. CASE r.fn = "create_program_owned_account"
    <2>1. Message(c, r) = create_program_owned_account(c, r)
      BY <1>4 DEF Message
    <2>2. Promise!Effect(c, r, ledger)
              = Promise!Created(ledger, c, Promise!Account("blank", "-", r.owner))
      BY <1>4 DEF Promise!Effect
    <2> QED
      BY <2>1, <2>2, OutcomesOne, ExecCreate DEF create_program_owned_account
  <1>5. CASE r.fn = "create_nonce_account"
    <2>1. Message(c, r) = create_nonce_account(c, r)
      BY <1>5 DEF Message
    <2>2. Promise!Effect(c, r, ledger)
              = Promise!Created(ledger, c, Promise!Account("nonce", "-", r.payer))
      BY <1>5 DEF Promise!Effect
    <2> QED
      BY <1>1, <2>1, <2>2, CreatesNonce DEF create_nonce_account
  <1>6. CASE r.fn = "create_keypair"
    <2>1. Message(c, r) = <<FaucetTransfer(c, r.amount)>>
      BY <1>6 DEF Message, create_keypair
    <2>2. Promise!Effect(c, r, ledger) = Promise!Funded(ledger, c, r.amount)
      BY <1>6 DEF Promise!Effect, Promise!Lamports
    <2> QED
      BY <2>1, <2>2, OutcomesOne, ExecFaucetTransfer
  <1>7. CASE r.fn = "fund_account"
    <2>1. Message(c, r) = <<FaucetTransfer(r.to, Promise!Lamports(r))>>
      BY <1>7 DEF Message, fund_account, Promise!Lamports
    <2>2. Promise!Effect(c, r, ledger) = Promise!Funded(ledger, r.to, Promise!Lamports(r))
      BY <1>7 DEF Promise!Effect
    <2> QED
      BY <2>1, <2>2, OutcomesOne, ExecFaucetTransfer
  <1>8. CASE r.fn \in Operates
    <2>1. Promise!Effect(c, r, ledger) = Promise!All(Promise!Parts(r), ledger)
      BY <1>8 DEF Promise!Effect, Operates, Promise!Single
    <2>2. PICK m \in Nat :
             /\ Len(Promise!Parts(r)) = m /\ Len(Message(c, r)) = m
             /\ \A i \in 1..m : /\ Promise!Parts(r)[i].fn \in Promise!Single
                                /\ Message(c, r)[i] = Instruction(Promise!Parts(r)[i])
      BY <1>8, Instructions
    <2> QED
      BY <2>1, <2>2, RunsAll
  <1> QED
    BY <1>2, <1>3, <1>4, <1>5, <1>6, <1>7, <1>8, Helpers DEF Creates, Airdropping

-----------------------------------------------------------------------------
(* Tokens, one by one.                                                     *)

TokensOf(L, A) == UNION {{a} \X (1..L[a].amount) : a \in A}

LEMMA Interval ==
    ASSUME NEW n \in Nat PROVE IsFiniteSet(1..n) /\ Cardinality(1..n) = n
  <1>1. IsFiniteSet(1..n) /\ Cardinality(1..n) = IF 1 > n THEN 0 ELSE n - 1 + 1
    BY FS_Interval
  <1> QED
    BY <1>1

LEMMA TokensFinite ==
    ASSUME NEW L, NEW A \in SUBSET Addresses, \A a \in A : L[a].amount \in Nat
    PROVE  IsFiniteSet(TokensOf(L, A))
  <1> DEFINE held == [a \in A |-> {a} \X (1..L[a].amount)]
             all == {held[a] : a \in A}
  <1>1. IsFiniteSet(A)
    BY HelpersAssumption, FS_Subset
  <1>2. held \in Surjection(A, all)
    BY DEF Surjection
  <1>3. IsFiniteSet(all)
    BY <1>1, <1>2, FS_Surjection
  <1>4. \A T \in all : IsFiniteSet(T)
    <2>1. TAKE T \in all
    <2>2. PICK a \in A : T = {a} \X (1..L[a].amount)
      BY DEF all
    <2>3. IsFiniteSet({a})
      BY FS_Singleton, Zenon
    <2>4. IsFiniteSet(1..L[a].amount)
      BY Interval
    <2> QED
      BY <2>2, <2>3, <2>4, FS_Product
  <1>5. TokensOf(L, A) = UNION all
    BY DEF TokensOf
  <1> QED
    BY <1>3, <1>4, <1>5, FS_UNION

LEMMA TokensSplit ==
    ASSUME NEW L, NEW A \in SUBSET Addresses, \A a \in A : L[a].amount \in Nat, NEW a \in A
    PROVE  /\ Cardinality(TokensOf(L, A \ {a})) \in Nat
           /\ Cardinality(TokensOf(L, A)) = Cardinality(TokensOf(L, A \ {a})) + L[a].amount
  <1> DEFINE own == {a} \X (1..L[a].amount)
             rest == TokensOf(L, A \ {a})
  <1>1. L[a].amount \in Nat
    OBVIOUS
  <1>2. IsFiniteSet(own) /\ Cardinality(own) = L[a].amount
    <2>1. IsFiniteSet({a}) /\ Cardinality({a}) = 1
      BY FS_Singleton, Zenon
    <2>2. IsFiniteSet(1..L[a].amount) /\ Cardinality(1..L[a].amount) = L[a].amount
      BY <1>1, Interval
    <2>3. IsFiniteSet(own) /\ Cardinality(own) = 1 * L[a].amount
      BY <2>1, <2>2, FS_Product
    <2> QED
      BY <1>1, <2>3
  <1>3. IsFiniteSet(rest) /\ Cardinality(rest) \in Nat
    <2>1. IsFiniteSet(rest)
      BY TokensFinite
    <2> QED
      BY <2>1, FS_CardinalityType
  <1>4. TokensOf(L, A) = rest \cup own
    BY DEF TokensOf
  <1>5. rest \cap own = {}
    BY DEF TokensOf
  <1> HIDE DEF own, rest
  <1>6. Cardinality(rest \cup own) = Cardinality(rest) + L[a].amount - Cardinality({})
    BY <1>2, <1>3, <1>5, FS_Union
  <1>7. Cardinality({}) = 0
    BY FS_EmptySet
  <1> QED
    BY <1>1, <1>3, <1>4, <1>6, <1>7 DEF rest

LEMMA TokensEqual ==
    ASSUME NEW L, NEW M, NEW A, \A a \in A : L[a].amount = M[a].amount
    PROVE  TokensOf(L, A) = TokensOf(M, A)
  BY DEF TokensOf

LEMMA TokensEmpty ==
    ASSUME NEW L, NEW A, NEW a, L[a].amount = 0
    PROVE  TokensOf(L, A \ {a}) = TokensOf(L, A)
  <1>1. {a} \X (1..L[a].amount) = {}
    OBVIOUS
  <1> QED
    BY <1>1 DEF TokensOf

LEMMA TokensAre == ASSUME NEW L, NEW m PROVE Tokens(L, m) = TokensOf(L, Holders(L, m))
  BY DEF Tokens, TokensOf

(* One account holds another number of tokens.                             *)
LEMMA OneChanges ==
    ASSUME NEW L, NEW M, NEW m, NEW a \in Holders(L, m), Holders(M, m) = Holders(L, m),
           \A b \in Addresses : L[b].amount \in Nat /\ M[b].amount \in Nat,
           \A b \in Holders(L, m) \ {a} : M[b].amount = L[b].amount
    PROVE  Cardinality(Tokens(M, m)) = Cardinality(Tokens(L, m)) - L[a].amount + M[a].amount
  <1> DEFINE A == Holders(L, m)
  <1>1. A \in SUBSET Addresses /\ a \in A
    BY DEF Holders
  <1>2. Tokens(L, m) = TokensOf(L, A) /\ Tokens(M, m) = TokensOf(M, A)
    BY TokensAre
  <1> HIDE DEF A
  <1>3. TokensOf(L, A \ {a}) = TokensOf(M, A \ {a})
    BY TokensEqual DEF A
  <1>4. /\ Cardinality(TokensOf(L, A \ {a})) \in Nat
        /\ Cardinality(TokensOf(L, A)) = Cardinality(TokensOf(L, A \ {a})) + L[a].amount
    BY <1>1, TokensSplit
  <1>5. Cardinality(TokensOf(M, A)) = Cardinality(TokensOf(M, A \ {a})) + M[a].amount
    BY <1>1, TokensSplit
  <1>6. L[a].amount \in Nat /\ M[a].amount \in Nat
    BY <1>1
  <1> QED
    BY <1>2, <1>3, <1>4, <1>5, <1>6

(* No holder's tokens change.                                              *)
LEMMA NoneChanges ==
    ASSUME NEW L, NEW M, NEW m, Holders(M, m) = Holders(L, m),
           \A b \in Holders(L, m) : M[b].amount = L[b].amount
    PROVE  Tokens(M, m) = Tokens(L, m)
  BY TokensAre, TokensEqual

(* Holders of a mint are token accounts, and hold no more than is issued.  *)
LEMMA CountedTokens ==
    ASSUME NEW L, IsLedger(L), NEW m
    PROVE  /\ Cardinality(Tokens(L, m)) \in Nat
           /\ \A a \in Holders(L, m) : L[a].amount <= Cardinality(Tokens(L, m))
  <1> DEFINE A == Holders(L, m)
  <1>1. A \in SUBSET Addresses /\ \A a \in A : L[a].amount \in Nat
    BY DEF Holders, IsLedger, IsAccount
  <1>2. Tokens(L, m) = TokensOf(L, A)
    BY TokensAre
  <1> HIDE DEF A
  <1>3. IsFiniteSet(TokensOf(L, A))
    BY <1>1, TokensFinite
  <1>4. Cardinality(TokensOf(L, A)) \in Nat
    BY <1>3, FS_CardinalityType
  <1>5. ASSUME NEW a \in A PROVE L[a].amount <= Cardinality(TokensOf(L, A))
    <2>1. /\ Cardinality(TokensOf(L, A \ {a})) \in Nat
          /\ Cardinality(TokensOf(L, A)) = Cardinality(TokensOf(L, A \ {a})) + L[a].amount
      BY <1>1, TokensSplit
    <2> QED
      BY <1>1, <2>1
  <1> QED
    BY <1>2, <1>4, <1>5 DEF A

-----------------------------------------------------------------------------
(* An effect keeps the ledger in order.                                    *)

(* No account that was not is left without contents.                       *)
NoBlanks(L, M) == \A a \in Addresses : M[a].is = "blank" => M[a] = L[a]

(* Only amounts differ.                                                    *)
SameBut(L, M) ==
    /\ DOMAIN M = Addresses
    /\ \A a \in Addresses : /\ IsAccount(M[a])
                            /\ M[a].is = L[a].is /\ M[a].mint = L[a].mint
                            /\ M[a].owner = L[a].owner

LEMMA SameHolders == ASSUME NEW L, NEW M, SameBut(L, M), NEW m PROVE Holders(M, m) = Holders(L, m)
  BY DEF SameBut, Holders, Promise!Is

LEMMA KeepsAmounts ==
    ASSUME NEW L, NEW M, IsLedger(L), SameBut(L, M),
           \A a \in Addresses : M[a].is = "mint" => Cardinality(Tokens(M, a)) <= M[a].amount
    PROVE  IsLedger(M)
  <1>1. DOMAIN M = Addresses
    BY DEF SameBut
  <1>2. ASSUME NEW a \in Addresses
        PROVE  /\ IsAccount(M[a])
               /\ M[a].is = "token" => M[a].mint \in Addresses /\ M[M[a].mint].is = "mint"
    BY DEF SameBut, IsLedger
  <1> QED
    BY <1>1, <1>2 DEF IsLedger

(* An account of a record with another amount.                             *)
LEMMA Changed ==
    ASSUME NEW x, IsAccount(x), NEW n \in Nat, NEW y, y = [x EXCEPT !.amount = n]
    PROVE  IsAccount(y) /\ y.is = x.is /\ y.mint = x.mint /\ y.owner = x.owner /\ y.amount = n
  BY DEF IsAccount

(* Tokens of a mint are issued to an account, or burned.                   *)
LEMMA KeepsSupply ==
    ASSUME NEW L, NEW M, IsLedger(L), SameBut(L, M),
           NEW m \in Addresses, NEW d \in Addresses, Promise!Is(L, d, m), NEW k \in Int,
           M[m].amount = L[m].amount + k, M[d].amount = L[d].amount + k,
           \A a \in Addresses \ {m, d} : M[a].amount = L[a].amount
    PROVE  IsLedger(M)
  <1>1. L[d].is = "token" /\ L[d].mint = m /\ L[m].is = "mint" /\ m # d
    BY DEF IsLedger, Promise!Is
  <1>2. \A a \in Addresses : L[a].amount \in Nat /\ M[a].amount \in Nat
    BY DEF IsLedger, IsAccount, SameBut
  <1>3. ASSUME NEW b \in Addresses, M[b].is = "mint"
        PROVE  Cardinality(Tokens(M, b)) <= M[b].amount
    <2>1. L[b].is = "mint"
      BY <1>3 DEF SameBut
    <2>2. Cardinality(Tokens(L, b)) <= L[b].amount
      BY <2>1 DEF IsLedger
    <2>3. Holders(M, b) = Holders(L, b)
      BY SameHolders
    <2>4. m \notin Holders(L, b)
      BY <1>1 DEF Holders, Promise!Is
    <2>5. CASE b = m
      <3>1. d \in Holders(L, m)
        BY DEF Holders
      <3>2. \A a \in Holders(L, m) \ {d} : M[a].amount = L[a].amount
        BY <2>4, <2>5 DEF Holders
      <3>3. Cardinality(Tokens(M, m)) = Cardinality(Tokens(L, m)) - L[d].amount + M[d].amount
        BY <1>2, <2>3, <2>5, <3>1, <3>2, OneChanges
      <3>4. Cardinality(Tokens(L, m)) \in Nat
        BY CountedTokens
      <3> QED
        BY <1>2, <2>2, <2>5, <3>3, <3>4
    <2>6. CASE b # m
      <3>1. d \notin Holders(L, b)
        BY <1>1, <2>6 DEF Holders, Promise!Is
      <3>2. \A a \in Holders(L, b) : M[a].amount = L[a].amount
        BY <2>4, <3>1 DEF Holders
      <3>3. Tokens(M, b) = Tokens(L, b)
        BY <2>3, <3>2, NoneChanges
      <3>4. M[b].amount = L[b].amount
        BY <1>1, <2>1, <2>6
      <3> QED
        BY <2>2, <3>3, <3>4
    <2> QED
      BY <2>5, <2>6
  <1> QED
    BY <1>3, KeepsAmounts

LEMMA KeepsMinted ==
    ASSUME NEW L, IsLedger(L), NEW m \in Addresses, NEW d \in Addresses, Promise!Is(L, d, m),
           NEW n \in Nat
    PROVE  LET M == [L EXCEPT ![m].amount = @ + n, ![d].amount = @ + n]
           IN  IsLedger(M) /\ NoBlanks(L, M)
  <1> DEFINE M == [L EXCEPT ![m].amount = @ + n, ![d].amount = @ + n]
  <1>1. m # d
    BY DEF IsLedger, Promise!Is
  <1>2. DOMAIN L = Addresses /\ \A a \in Addresses : IsAccount(L[a]) /\ L[a].amount \in Nat
    BY DEF IsLedger, IsAccount
  <1>3. /\ DOMAIN M = Addresses /\ \A a \in Addresses \ {m, d} : M[a] = L[a]
        /\ M[m] = [L[m] EXCEPT !.amount = L[m].amount + n]
        /\ M[d] = [L[d] EXCEPT !.amount = L[d].amount + n]
    BY <1>1, <1>2
  <1> HIDE DEF M
  <1>4. L[m].amount + n \in Nat /\ L[d].amount + n \in Nat /\ n \in Int
    BY <1>2
  <1>5. SameBut(L, M) /\ M[m].amount = L[m].amount + n /\ M[d].amount = L[d].amount + n
    <2>1. /\ IsAccount(M[m]) /\ M[m].is = L[m].is /\ M[m].mint = L[m].mint
          /\ M[m].owner = L[m].owner /\ M[m].amount = L[m].amount + n
      BY <1>2, <1>3, <1>4, Changed
    <2>2. /\ IsAccount(M[d]) /\ M[d].is = L[d].is /\ M[d].mint = L[d].mint
          /\ M[d].owner = L[d].owner /\ M[d].amount = L[d].amount + n
      BY <1>2, <1>3, <1>4, Changed
    <2>3. ASSUME NEW a \in Addresses
          PROVE  IsAccount(M[a]) /\ M[a].is = L[a].is /\ M[a].mint = L[a].mint
                 /\ M[a].owner = L[a].owner
      BY <1>2, <1>3, <2>1, <2>2
    <2> QED
      BY <1>3, <2>1, <2>2, <2>3 DEF SameBut
  <1>6. \A a \in Addresses \ {m, d} : M[a].amount = L[a].amount
    BY <1>3
  <1>7. IsLedger(M)
    BY <1>4, <1>5, <1>6, KeepsSupply
  <1>8. NoBlanks(L, M)
    <2>1. M[m].is = "mint" /\ M[d].is = "token"
      BY <1>5 DEF SameBut, IsLedger, Promise!Is
    <2> QED
      BY <1>3, <2>1 DEF NoBlanks
  <1> QED
    BY <1>7, <1>8 DEF M

LEMMA KeepsBurned ==
    ASSUME NEW L, IsLedger(L), NEW m \in Addresses, NEW d \in Addresses, Promise!Is(L, d, m),
           NEW n \in Nat, L[d].amount >= n
    PROVE  LET M == [L EXCEPT ![m].amount = @ - n, ![d].amount = @ - n]
           IN  IsLedger(M) /\ NoBlanks(L, M)
  <1> DEFINE M == [L EXCEPT ![m].amount = @ - n, ![d].amount = @ - n]
             k == 0 - n
  <1>1. m # d /\ L[m].is = "mint"
    BY DEF IsLedger, Promise!Is
  <1>2. DOMAIN L = Addresses /\ \A a \in Addresses : IsAccount(L[a]) /\ L[a].amount \in Nat
    BY DEF IsLedger, IsAccount
  <1>3. /\ DOMAIN M = Addresses /\ \A a \in Addresses \ {m, d} : M[a] = L[a]
        /\ M[m] = [L[m] EXCEPT !.amount = L[m].amount - n]
        /\ M[d] = [L[d] EXCEPT !.amount = L[d].amount - n]
    BY <1>1, <1>2
  <1>4. L[m].amount >= L[d].amount
    <2>1. d \in Holders(L, m) /\ Cardinality(Tokens(L, m)) <= L[m].amount
      BY <1>1 DEF Holders, IsLedger
    <2>2. Cardinality(Tokens(L, m)) \in Nat /\ L[d].amount <= Cardinality(Tokens(L, m))
      BY <2>1, CountedTokens
    <2> QED
      BY <1>2, <2>1, <2>2
  <1> HIDE DEF M
  <1>5. L[m].amount - n \in Nat /\ L[d].amount - n \in Nat /\ k \in Int
        /\ L[m].amount - n = L[m].amount + k /\ L[d].amount - n = L[d].amount + k
    BY <1>2, <1>4
  <1> HIDE DEF k
  <1>6. SameBut(L, M) /\ M[m].amount = L[m].amount + k /\ M[d].amount = L[d].amount + k
    <2>1. /\ IsAccount(M[m]) /\ M[m].is = L[m].is /\ M[m].mint = L[m].mint
          /\ M[m].owner = L[m].owner /\ M[m].amount = L[m].amount - n
      BY <1>2, <1>3, <1>5, Changed
    <2>2. /\ IsAccount(M[d]) /\ M[d].is = L[d].is /\ M[d].mint = L[d].mint
          /\ M[d].owner = L[d].owner /\ M[d].amount = L[d].amount - n
      BY <1>2, <1>3, <1>5, Changed
    <2>3. ASSUME NEW a \in Addresses
          PROVE  IsAccount(M[a]) /\ M[a].is = L[a].is /\ M[a].mint = L[a].mint
                 /\ M[a].owner = L[a].owner
      BY <1>2, <1>3, <2>1, <2>2
    <2> QED
      BY <1>5, <1>3, <2>1, <2>2, <2>3 DEF SameBut
  <1>7. \A a \in Addresses \ {m, d} : M[a].amount = L[a].amount
    BY <1>3
  <1>8. IsLedger(M)
    BY <1>5, <1>6, <1>7, KeepsSupply
  <1>9. NoBlanks(L, M)
    <2>1. M[m].is = "mint" /\ M[d].is = "token"
      BY <1>6 DEF SameBut, IsLedger, Promise!Is
    <2> QED
      BY <1>3, <2>1 DEF NoBlanks
  <1> QED
    BY <1>8, <1>9 DEF M

LEMMA KeepsMoved ==
    ASSUME NEW L, IsLedger(L), NEW from \in Addresses, NEW to \in Addresses, NEW m,
           Promise!Is(L, from, m), Promise!Is(L, to, m), NEW n \in Nat,
           NEW M \in Promise!Moved(L, from, to, n)
    PROVE  IsLedger(M) /\ NoBlanks(L, M)
  <1> DEFINE N == [L EXCEPT ![from].amount = @ - n]
  <1>1. L[from].amount >= n /\ M = [N EXCEPT ![to].amount = @ + n]
    <2>1. L[from].amount \in Nat
      BY DEF IsLedger, IsAccount
    <2>2. ~(L[from].amount < n) /\ M = [N EXCEPT ![to].amount = @ + n]
      BY DEF Promise!Moved
    <2> QED
      BY <2>1, <2>2
  <1>2. DOMAIN L = Addresses /\ \A a \in Addresses : IsAccount(L[a]) /\ L[a].amount \in Nat
    BY DEF IsLedger, IsAccount
  <1>3. /\ DOMAIN N = Addresses /\ \A a \in Addresses \ {from} : N[a] = L[a]
        /\ N[from] = [L[from] EXCEPT !.amount = L[from].amount - n]
        /\ L[from].amount - n \in Nat
    BY <1>1, <1>2
  <1> HIDE DEF N
  <1>4. SameBut(L, N) /\ N[from].amount = L[from].amount - n
    <2>1. /\ IsAccount(N[from]) /\ N[from].is = L[from].is /\ N[from].mint = L[from].mint
          /\ N[from].owner = L[from].owner /\ N[from].amount = L[from].amount - n
      BY <1>2, <1>3, Changed
    <2> QED
      BY <1>2, <1>3, <2>1 DEF SameBut
  <1>5. \A a \in Addresses : IsAccount(N[a]) /\ N[a].amount \in Nat
    BY <1>4 DEF SameBut, IsAccount
  <1>6. /\ DOMAIN M = Addresses /\ \A a \in Addresses \ {to} : M[a] = N[a]
        /\ M[to] = [N[to] EXCEPT !.amount = N[to].amount + n]
        /\ N[to].amount + n \in Nat
    BY <1>1, <1>3, <1>5
  <1>7. SameBut(N, M) /\ M[to].amount = N[to].amount + n
    <2>1. /\ IsAccount(M[to]) /\ M[to].is = N[to].is /\ M[to].mint = N[to].mint
          /\ M[to].owner = N[to].owner /\ M[to].amount = N[to].amount + n
      BY <1>5, <1>6, Changed
    <2> QED
      BY <1>5, <1>6, <2>1 DEF SameBut
  <1>8. SameBut(L, M) /\ \A a \in Addresses : M[a].amount \in Nat
    BY <1>4, <1>7 DEF SameBut, IsAccount
  <1>9. ASSUME NEW b \in Addresses, M[b].is = "mint"
        PROVE  Cardinality(Tokens(M, b)) <= M[b].amount
    <2>1. /\ L[b].is = "mint" /\ b # from /\ b # to
          /\ Cardinality(Tokens(L, b)) <= L[b].amount /\ Cardinality(Tokens(L, b)) \in Nat
      BY <1>8, <1>9, CountedTokens DEF SameBut, IsLedger, Promise!Is
    <2>2. M[b].amount = L[b].amount
      BY <1>3, <1>6, <2>1
    <2>3. Holders(N, b) = Holders(L, b) /\ Holders(M, b) = Holders(N, b)
      BY <1>4, <1>7, SameHolders
    <2>4. CASE b = m
      <3>1. from \in Holders(L, b) /\ to \in Holders(N, b)
        BY <2>3, <2>4 DEF Holders
      <3>2. /\ \A a \in Holders(L, b) \ {from} : N[a].amount = L[a].amount
            /\ \A a \in Holders(N, b) \ {to} : M[a].amount = N[a].amount
        BY <1>3, <1>6 DEF Holders
      <3>3. Cardinality(Tokens(N, b)) = Cardinality(Tokens(L, b)) - L[from].amount + N[from].amount
        BY <1>2, <1>5, <2>3, <3>1, <3>2, OneChanges
      <3>4. Cardinality(Tokens(M, b)) = Cardinality(Tokens(N, b)) - N[to].amount + M[to].amount
        BY <1>5, <1>8, <2>3, <3>1, <3>2, OneChanges
      <3> QED
        BY <1>2, <1>4, <1>5, <1>7, <2>1, <2>2, <3>3, <3>4
    <2>5. CASE b # m
      <3>1. \A a \in Holders(L, b) : a # from /\ a # to /\ a \in Addresses
        BY <2>5 DEF Holders, Promise!Is
      <3>2. \A a \in Holders(L, b) : M[a].amount = L[a].amount
        BY <1>3, <1>6, <3>1
      <3>3. Tokens(M, b) = Tokens(L, b)
        BY <2>3, <3>2, NoneChanges
      <3> QED
        BY <2>1, <2>2, <3>3
    <2> QED
      BY <2>4, <2>5
  <1>10. IsLedger(M)
    BY <1>8, <1>9, KeepsAmounts
  <1>11. NoBlanks(L, M)
    <2>1. M[from].is = "token" /\ M[to].is = "token"
      BY <1>8 DEF SameBut, Promise!Is
    <2>2. \A a \in Addresses \ {from, to} : M[a] = L[a]
      BY <1>3, <1>6
    <2> QED
      BY <2>1, <2>2 DEF NoBlanks
  <1> QED
    BY <1>10, <1>11

(* One account changes that holds no tokens and gets none, and was no mint.*)
LEMMA KeepsChange ==
    ASSUME NEW L, NEW M, IsLedger(L), NEW a \in Addresses, DOMAIN M = Addresses,
           \A b \in Addresses \ {a} : M[b] = L[b],
           L[a].is # "mint", L[a].is = "token" => L[a].amount = 0,
           IsAccount(M[a]),
           M[a].is = "token" =>
              M[a].amount = 0 /\ M[a].mint \in Addresses /\ L[M[a].mint].is = "mint"
    PROVE  IsLedger(M)
  <1>1. ASSUME NEW b PROVE Tokens(M, b) = Tokens(L, b)
    <2>1. Tokens(L, b) = TokensOf(L, Holders(L, b) \ {a})
      <3>1. CASE a \in Holders(L, b)
        <4>1. L[a].amount = 0
          BY <3>1 DEF Holders, Promise!Is
        <4> QED
          BY <4>1, TokensAre, TokensEmpty
      <3>2. CASE a \notin Holders(L, b)
        <4>1. Holders(L, b) \ {a} = Holders(L, b)
          BY <3>2
        <4> QED
          BY <4>1, TokensAre
      <3> QED
        BY <3>1, <3>2
    <2>2. Tokens(M, b) = TokensOf(M, Holders(M, b) \ {a})
      <3>1. CASE a \in Holders(M, b)
        <4>1. M[a].amount = 0
          BY <3>1 DEF Holders, Promise!Is
        <4> QED
          BY <4>1, TokensAre, TokensEmpty
      <3>2. CASE a \notin Holders(M, b)
        <4>1. Holders(M, b) \ {a} = Holders(M, b)
          BY <3>2
        <4> QED
          BY <4>1, TokensAre
      <3> QED
        BY <3>1, <3>2
    <2>3. Holders(M, b) \ {a} = Holders(L, b) \ {a}
      BY DEF Holders, Promise!Is
    <2>4. \A x \in Holders(L, b) \ {a} : L[x].amount = M[x].amount
      BY DEF Holders
    <2>5. TokensOf(L, Holders(L, b) \ {a}) = TokensOf(M, Holders(L, b) \ {a})
      BY <2>4, TokensEqual
    <2> QED
      BY <2>1, <2>2, <2>3, <2>5
  <1>2. Cardinality(Tokens(L, a)) = 0
    <2>1. Holders(L, a) = {}
      BY DEF Holders, Promise!Is, IsLedger
    <2>2. Tokens(L, a) = {}
      BY <2>1 DEF Tokens
    <2> QED
      BY <2>2, FS_EmptySet
  <1>3. ASSUME NEW b \in Addresses, M[b].is = "mint"
        PROVE  Cardinality(Tokens(M, b)) <= M[b].amount
    <2>1. CASE b = a
      <3>1. M[a].amount \in Nat
        BY DEF IsAccount
      <3> QED
        BY <1>1, <1>2, <2>1, <3>1
    <2>2. CASE b # a
      BY <1>1, <1>3, <2>2 DEF IsLedger
    <2> QED
      BY <2>1, <2>2
  <1>4. ASSUME NEW b \in Addresses
        PROVE  /\ IsAccount(M[b])
               /\ M[b].is = "token" => M[b].mint \in Addresses /\ M[M[b].mint].is = "mint"
    <2>1. CASE b = a
      <3>1. M[a].is = "token" => M[a].mint # a
        OBVIOUS
      <3> QED
        BY <2>1, <3>1
    <2>2. CASE b # a
      <3>1. M[b] = L[b]
        BY <2>2
      <3>2. IsAccount(M[b])
        BY <3>1 DEF IsLedger
      <3>3. L[b].is = "token" => L[b].mint \in Addresses /\ L[L[b].mint].is = "mint"
        BY DEF IsLedger
      <3>4. L[b].is = "token" => L[b].mint # a
        BY <3>3
      <3> QED
        BY <3>1, <3>2, <3>3, <3>4
    <2> QED
      BY <2>1, <2>2
  <1> QED
    BY <1>3, <1>4 DEF IsLedger

LEMMA KeepsPut ==
    ASSUME NEW L, IsLedger(L), NEW a \in Addresses, L[a].is \in {"none", "blank"},
           NEW is \in {"mint", "token", "blank", "nonce"}, NEW mint, NEW owner,
           is = "token" => mint \in Addresses /\ L[mint].is = "mint",
           NEW M, M = [L EXCEPT ![a] = Promise!Account(is, mint, owner)]
    PROVE  IsLedger(M) /\ (is # "blank" => NoBlanks(L, M))
  <1> DEFINE account == Promise!Account(is, mint, owner)
  <1>1. DOMAIN L = Addresses /\ M = [L EXCEPT ![a] = account]
    BY DEF IsLedger
  <1>2. IsAccount(account) /\ account.is = is /\ account.mint = mint /\ account.amount = 0
    BY DEF IsAccount, Kinds, Promise!Account
  <1> HIDE DEF account
  <1>3. DOMAIN M = Addresses /\ M[a] = account /\ \A b \in Addresses \ {a} : M[b] = L[b]
    BY <1>1
  <1>4. IsLedger(M)
    <2>1. /\ DOMAIN M = Addresses /\ \A b \in Addresses \ {a} : M[b] = L[b]
          /\ L[a].is # "mint" /\ L[a].is # "token" /\ IsAccount(M[a])
      BY <1>2, <1>3
    <2>2. M[a].is = "token" =>
             M[a].amount = 0 /\ M[a].mint \in Addresses /\ L[M[a].mint].is = "mint"
      BY <1>2, <1>3
    <2> QED
      BY <2>1, <2>2, KeepsChange
  <1>5. is # "blank" => NoBlanks(L, M)
    BY <1>2, <1>3 DEF NoBlanks
  <1> QED
    BY <1>4, <1>5

LEMMA KeepsCreated ==
    ASSUME NEW L, IsLedger(L), NEW a \in Addresses, NEW is \in {"mint", "token", "blank", "nonce"},
           NEW mint, NEW owner, NEW M \in Promise!Created(L, a, Promise!Account(is, mint, owner)),
           is = "token" => mint \in Addresses /\ L[mint].is = "mint"
    PROVE  /\ IsLedger(M) /\ (is # "blank" => NoBlanks(L, M))
           /\ M[a] = Promise!Account(is, mint, owner) /\ \A b \in Addresses \ {a} : M[b] = L[b]
  <1>1. L[a] = Promise!None /\ M = [L EXCEPT ![a] = Promise!Account(is, mint, owner)]
    BY DEF Promise!Created
  <1>2. L[a].is = "none" /\ DOMAIN L = Addresses
    BY <1>1 DEF Promise!None, IsLedger
  <1>3. IsLedger(M) /\ (is # "blank" => NoBlanks(L, M))
    BY <1>1, <1>2, KeepsPut
  <1> QED
    BY <1>1, <1>2, <1>3

LEMMA KeepsClosed ==
    ASSUME NEW L, IsLedger(L), NEW a \in Addresses, L[a].is = "token", L[a].amount = 0
    PROVE  LET M == [L EXCEPT ![a] = Promise!None] IN IsLedger(M) /\ NoBlanks(L, M)
  <1> DEFINE M == [L EXCEPT ![a] = Promise!None]
  <1>1. DOMAIN M = Addresses /\ M[a] = Promise!None /\ \A b \in Addresses \ {a} : M[b] = L[b]
    BY DEF IsLedger
  <1> HIDE DEF M
  <1>2. IsAccount(M[a]) /\ M[a].is = "none"
    BY <1>1 DEF IsAccount, Kinds, Promise!None
  <1>3. IsLedger(M)
    BY <1>1, <1>2, KeepsChange
  <1>4. NoBlanks(L, M)
    BY <1>1, <1>2 DEF NoBlanks
  <1> QED
    BY <1>3, <1>4 DEF M

LEMMA KeepsFunded ==
    ASSUME NEW L, IsLedger(L), NEW to \in Addresses, NEW n \in Nat, NEW M \in Promise!Funded(L, to, n)
    PROVE  IsLedger(M) /\ NoBlanks(L, M)
  <1>1. DOMAIN L = Addresses /\ IsAccount(L[to]) /\ L[to].amount \in Nat
    BY DEF IsLedger, IsAccount
  <1>2. CASE L[to].is \notin {"none", "wallet"}
    BY <1>2 DEF Promise!Funded, NoBlanks
  <1>3. CASE L[to].is \in {"none", "wallet"}
    <2>1. M = [L EXCEPT ![to].is = "wallet", ![to].amount = @ + n]
      BY <1>3 DEF Promise!Funded
    <2>2. /\ DOMAIN M = Addresses /\ \A b \in Addresses \ {to} : M[b] = L[b]
          /\ M[to] = [L[to] EXCEPT !.is = "wallet", !.amount = L[to].amount + n]
      <3>1. M[to] = [[L[to] EXCEPT !.is = "wallet"] EXCEPT !.amount = @ + n]
        BY <1>1, <2>1
      <3>2. [L[to] EXCEPT !.is = "wallet"].amount = L[to].amount
        BY <1>1 DEF IsAccount
      <3> QED
        BY <1>1, <2>1, <3>1, <3>2
    <2>3. IsAccount(M[to]) /\ M[to].is = "wallet"
      BY <1>1, <2>2 DEF IsAccount, Kinds
    <2>4. IsLedger(M)
      <3>1. DOMAIN M = Addresses /\ \A b \in Addresses \ {to} : M[b] = L[b]
        BY <2>2
      <3> QED
        BY <1>3, <2>3, <3>1, KeepsChange
    <2>5. NoBlanks(L, M)
      BY <2>2, <2>3 DEF NoBlanks
    <2> QED
      BY <2>4, <2>5
  <1> QED
    BY <1>2, <1>3

LEMMA KeepsPaid ==
    ASSUME NEW L, IsLedger(L), NEW from \in Addresses, NEW to \in Addresses, NEW n \in Nat,
           NEW M \in Promise!Paid(L, from, to, n)
    PROVE  IsLedger(M) /\ NoBlanks(L, M)
  <1> DEFINE N == [L EXCEPT ![from].amount = @ - n]
  <1>1. DOMAIN L = Addresses /\ IsAccount(L[from]) /\ L[from].amount \in Nat
    BY DEF IsLedger, IsAccount
  <1>2. L[from].is = "wallet" /\ ~(L[from].amount < n) /\ M \in Promise!Funded(N, to, n)
    BY DEF Promise!Paid
  <1>3. /\ DOMAIN N = Addresses /\ \A b \in Addresses \ {from} : N[b] = L[b]
        /\ N[from] = [L[from] EXCEPT !.amount = L[from].amount - n]
        /\ L[from].amount - n \in Nat
    BY <1>1, <1>2
  <1> HIDE DEF N
  <1>4. IsAccount(N[from]) /\ N[from].is = "wallet"
    BY <1>1, <1>2, <1>3, Changed
  <1>5. IsLedger(N)
    BY <1>2, <1>3, <1>4, KeepsChange
  <1>6. IsLedger(M) /\ NoBlanks(N, M)
    BY <1>2, <1>5, KeepsFunded
  <1>7. NoBlanks(L, M)
    BY <1>3, <1>4, <1>6 DEF NoBlanks
  <1> QED
    BY <1>6, <1>7

(* An operation keeps the ledger in order, and operations one after the    *)
(* other do.                                                               *)
LEMMA PerformedKeeps ==
    ASSUME NEW L, IsLedger(L), NEW p, p.fn \in Promise!Single, Names(p),
           NEW M \in Promise!Performed(p, L)
    PROVE  IsLedger(M) /\ NoBlanks(L, M)
  <1>1. CASE p.fn = "initialize_mint"
    <2>1. /\ L[p.account].is = "blank"
          /\ M = [L EXCEPT ![p.account] = Promise!Account("mint", "-", p.authority)]
      BY <1>1 DEF Promise!Performed, Promise!Blank
    <2>2. p.account \in Addresses
      BY <1>1 DEF Names, Promise!Parameters, Places
    <2> QED
      BY <2>1, <2>2, KeepsPut
  <1>2. CASE p.fn = "initialize_account"
    <2>1. /\ L[p.account].is = "blank" /\ L[p.mint].is = "mint"
          /\ M = [L EXCEPT ![p.account] = Promise!Account("token", p.mint, p.owner)]
      BY <1>2 DEF Promise!Performed, Promise!Blank
    <2>2. p.account \in Addresses /\ p.mint \in Addresses
      BY <1>2 DEF Names, Promise!Parameters, Places
    <2> QED
      BY <2>1, <2>2, KeepsPut
  <1>3. CASE p.fn = "initialize_nonce"
    <2>1. /\ L[p.account].is = "blank"
          /\ M = [L EXCEPT ![p.account] = Promise!Account("nonce", "-", p.authority)]
      BY <1>3 DEF Promise!Performed, Promise!Blank
    <2>2. p.account \in Addresses
      BY <1>3 DEF Names, Promise!Parameters, Places
    <2> QED
      BY <2>1, <2>2, KeepsPut
  <1>4. CASE p.fn = "mint_to"
    <2>1. /\ Promise!Is(L, p.destination, p.mint)
          /\ M = [L EXCEPT ![p.mint].amount = @ + p.amount, ![p.destination].amount = @ + p.amount]
      BY <1>4 DEF Promise!Performed
    <2>2. p.mint \in Addresses /\ p.destination \in Addresses /\ p.amount \in Nat
      BY <1>4 DEF Names, Promise!Parameters, Places
    <2> QED
      BY <2>1, <2>2, KeepsMinted
  <1>5. CASE p.fn = "token_transfer"
    <2>1. /\ Promise!Is(L, p.source, L[p.source].mint) /\ Promise!Is(L, p.destination, L[p.source].mint)
          /\ M \in Promise!Moved(L, p.source, p.destination, p.amount)
      BY <1>5 DEF Promise!Performed, Promise!Is
    <2>2. p.source \in Addresses /\ p.destination \in Addresses /\ p.amount \in Nat
      BY <1>5 DEF Names, Promise!Parameters, Places
    <2> QED
      BY <2>1, <2>2, KeepsMoved
  <1>6. CASE p.fn = "burn_tokens"
    <2>1. /\ Promise!Is(L, p.account, p.mint) /\ L[p.account].amount >= p.amount
          /\ M = [L EXCEPT ![p.mint].amount = @ - p.amount, ![p.account].amount = @ - p.amount]
      BY <1>6 DEF Promise!Performed
    <2>2. p.mint \in Addresses /\ p.account \in Addresses /\ p.amount \in Nat
      BY <1>6 DEF Names, Promise!Parameters, Places
    <2> QED
      BY <2>1, <2>2, KeepsBurned
  <1>7. CASE p.fn = "close_token_account"
    <2>1. /\ L[p.account].is = "token" /\ L[p.account].amount = 0
          /\ M = [L EXCEPT ![p.account] = Promise!None]
      BY <1>7 DEF Promise!Performed
    <2>2. p.account \in Addresses
      BY <1>7 DEF Names, Promise!Parameters, Places
    <2> QED
      BY <2>1, <2>2, KeepsClosed
  <1>8. CASE p.fn \in {"send_memo", "compute_budget"}
    BY <1>8 DEF Promise!Performed, NoBlanks
  <1>9. CASE p.fn = "send_transfer"
    <2>1. M \in Promise!Paid(L, p.sender, p.to, p.amount)
      BY <1>9 DEF Promise!Performed
    <2>2. p.sender \in Addresses /\ p.to \in Addresses /\ p.amount \in Nat
      BY <1>9 DEF Names, Promise!Parameters, Places
    <2> QED
      BY <2>1, <2>2, KeepsPaid
  <1> QED
    BY <1>1, <1>2, <1>3, <1>4, <1>5, <1>6, <1>7, <1>8, <1>9 DEF Promise!Single

LEMMA AllKeeps ==
    ASSUME IsLedger(ledger), NEW parts, NEW m \in Nat, Len(parts) = m,
           \A i \in 1..m : parts[i].fn \in Promise!Single /\ Names(parts[i]),
           NEW M \in Promise!All(parts, ledger)
    PROVE  IsLedger(M) /\ NoBlanks(ledger, M)
  <1>1. PICK f : Promise!All(parts, ledger) = f[m] /\ DoneFrom(f, parts, m)
    BY AllFacts
  <1> DEFINE Good(S) == \A N \in S : IsLedger(N) /\ NoBlanks(ledger, N)
             good == {n \in Nat : n <= m => Good(f[n])}
  <1> HIDE DEF good
  <1>2. 0 \in good
    <2>1. Good(f[0])
      BY <1>1 DEF DoneFrom, NoBlanks
    <2> QED
      BY <2>1 DEF good
  <1>3. ASSUME NEW n \in good PROVE n + 1 \in good
    <2> SUFFICES ASSUME n + 1 <= m PROVE Good(f[n + 1])
      BY DEF good
    <2>1. n \in Nat /\ n < m /\ Good(f[n]) /\ n + 1 \in 1..m
      BY DEF good
    <2>2. f[n + 1] = Does(f[n], parts[n + 1])
      BY <1>1, <2>1 DEF DoneFrom
    <2>3. ASSUME NEW N \in f[n + 1] PROVE IsLedger(N) /\ NoBlanks(ledger, N)
      <3>1. PICK K \in f[n] : N \in Promise!Performed(parts[n + 1], K)
        BY <2>2, <2>3 DEF Does
      <3>2. IsLedger(K) /\ NoBlanks(ledger, K)
        BY <2>1
      <3>3. IsLedger(N) /\ NoBlanks(K, N)
        BY <2>1, <3>1, <3>2, PerformedKeeps
      <3> QED
        BY <3>2, <3>3 DEF NoBlanks
    <2> QED
      BY <2>3
  <1>4. good = Nat
    <2>1. good \in SUBSET Nat
      BY DEF good
    <2> QED
      BY <1>2, <1>3, <2>1, SetInduction
  <1>5. Good(f[m])
    BY <1>4 DEF good
  <1> QED
    BY <1>1, <1>5

LEMMA EffectKeeps ==
    ASSUME IsLedger(ledger), NEW c \in Calls, NEW r, IsRequest(r),
           NEW M \in Promise!Effect(c, r, ledger)
    PROVE  /\ IsLedger(M)
           /\ \A a \in Addresses : M[a].is = "blank" =>
                 \/ M[a] = ledger[a]
                 \/ /\ a = c /\ r.fn = "create_program_owned_account"
                    /\ M[a] = Promise!Account("blank", "-", r.owner)
  <1>1. DOMAIN ledger = Addresses /\ c \in Addresses
    BY HelpersAssumption DEF IsLedger
  <1>2. CASE r.fn = "create_mint"
    <2>1. M \in Promise!Created(ledger, c, Promise!Account("mint", "-", r.authority))
      BY <1>2 DEF Promise!Effect
    <2> QED
      BY <1>1, <2>1, KeepsCreated DEF NoBlanks
  <1>3. CASE r.fn = "create_token_account"
    <2>1. /\ M \in Promise!Created(ledger, c, Promise!Account("token", r.mint, r.owner))
          /\ ledger[r.mint].is = "mint"
      BY <1>3 DEF Promise!Effect
    <2>2. r.mint \in Addresses
      BY <1>3 DEF IsRequest, Names, Promise!Parameters, Places
    <2> QED
      BY <1>1, <2>1, <2>2, KeepsCreated DEF NoBlanks
  <1>4. CASE r.fn = "create_program_owned_account"
    <2>1. M \in Promise!Created(ledger, c, Promise!Account("blank", "-", r.owner))
      BY <1>4 DEF Promise!Effect
    <2>2. /\ IsLedger(M) /\ M[c] = Promise!Account("blank", "-", r.owner)
          /\ \A b \in Addresses \ {c} : M[b] = ledger[b]
      BY <1>1, <2>1, KeepsCreated
    <2> QED
      BY <1>4, <2>2
  <1>5. CASE r.fn = "create_nonce_account"
    <2>1. M \in Promise!Created(ledger, c, Promise!Account("nonce", "-", r.payer))
      BY <1>5 DEF Promise!Effect
    <2> QED
      BY <1>1, <2>1, KeepsCreated DEF NoBlanks
  <1>6. CASE r.fn \in Airdropping
    <2>1. Promise!Lamports(r) \in Nat
      BY <1>6, HelpersAssumption DEF IsRequest, Names, Promise!Parameters, Promise!Lamports,
                                     Airdropping
    <2>2. r.fn = "fund_account" => r.to \in Addresses
      BY <1>6 DEF IsRequest, Names, Promise!Parameters, Places
    <2>3. \E to \in Addresses : M \in Promise!Funded(ledger, to, Promise!Lamports(r))
      BY <1>1, <1>6, <2>2 DEF Promise!Effect, Airdropping
    <2> QED
      BY <2>1, <2>3, KeepsFunded DEF NoBlanks
  <1>7. CASE r.fn \in Operates
    <2>1. Promise!Effect(c, r, ledger) = Promise!All(Promise!Parts(r), ledger)
      BY <1>7 DEF Promise!Effect, Operates, Promise!Single
    <2>2. PICK m \in Nat :
             /\ Len(Promise!Parts(r)) = m
             /\ \A i \in 1..m : /\ Promise!Parts(r)[i].fn \in Promise!Single
                                /\ Names(Promise!Parts(r)[i])
      BY <1>7, Instructions
    <2>3. IsLedger(M) /\ NoBlanks(ledger, M)
      BY <2>1, <2>2, AllKeeps
    <2> QED
      BY <2>3 DEF NoBlanks
  <1> QED
    BY <1>2, <1>3, <1>4, <1>5, <1>6, <1>7, Helpers DEF Creates

-----------------------------------------------------------------------------
(* Equal transactions are wanted alike.                                    *)

OpOf ==
    [initialize_mint |-> "InitializeMint", initialize_account |-> "InitializeAccount",
     initialize_nonce |-> "InitializeNonce", mint_to |-> "MintTo", token_transfer |-> "Transfer",
     burn_tokens |-> "Burn", close_token_account |-> "CloseAccount", send_memo |-> "Memo",
     compute_budget |-> "ComputeBudget", send_transfer |-> "SystemTransfer"]

LEMMA Operation ==
    ASSUME NEW p, p.fn \in Promise!Single
    PROVE  Instruction(p).op = OpOf[p.fn]
  <1>1. CASE p.fn \in {"initialize_mint", "initialize_account", "initialize_nonce"}
    BY <1>1 DEF OpOf, Instruction, InitializeMint, InitializeAccount, InitializeNonce, Ix
  <1>2. CASE p.fn \in {"mint_to", "token_transfer", "burn_tokens", "close_token_account"}
    BY <1>2 DEF OpOf, Instruction, mint_to, token_transfer, burn_tokens, close_token_account,
                MintTo, Transfer, Burn, CloseAccount, Ix
  <1>3. CASE p.fn \in {"send_memo", "compute_budget", "send_transfer"}
    BY <1>3 DEF OpOf, Instruction, send_memo, send_transfer, Memo, ComputeBudget, SystemTransfer, Ix
  <1> QED
    BY <1>1, <1>2, <1>3 DEF Promise!Single

LEMMA InstructionTells ==
    ASSUME NEW p, NEW q, p.fn \in Promise!Single, q.fn \in Promise!Single,
           Instruction(p) = Instruction(q)
    PROVE  /\ p.fn = q.fn
           /\ [x \in Promise!Parameters[p.fn] |-> p[x]] = [x \in Promise!Parameters[q.fn] |-> q[x]]
  <1>1. p.fn = q.fn
    <2>1. OpOf[p.fn] = OpOf[q.fn]
      BY Operation
    <2> QED
      BY <2>1 DEF OpOf, Promise!Single
  <1>2. \A x \in Promise!Parameters[p.fn] : p[x] = q[x]
    <2>1. CASE p.fn = "initialize_mint"
      <3>1. p.account = q.account /\ p.authority = q.authority
        BY <1>1, <2>1 DEF Instruction, InitializeMint, Ix
      <3> QED
        BY <2>1, <3>1 DEF Promise!Parameters
    <2>2. CASE p.fn = "initialize_account"
      <3>1. p.account = q.account /\ p.mint = q.mint /\ p.owner = q.owner
        BY <1>1, <2>2 DEF Instruction, InitializeAccount, Ix
      <3> QED
        BY <2>2, <3>1 DEF Promise!Parameters
    <2>3. CASE p.fn = "initialize_nonce"
      <3>1. p.account = q.account /\ p.authority = q.authority
        BY <1>1, <2>3 DEF Instruction, InitializeNonce, Ix
      <3> QED
        BY <2>3, <3>1 DEF Promise!Parameters
    <2>4. CASE p.fn = "mint_to"
      <3>1. p.mint = q.mint /\ p.destination = q.destination /\ p.authority = q.authority
            /\ p.amount = q.amount
        BY <1>1, <2>4 DEF Instruction, mint_to, MintTo, Ix
      <3> QED
        BY <2>4, <3>1 DEF Promise!Parameters
    <2>5. CASE p.fn = "token_transfer"
      <3>1. p.source = q.source /\ p.destination = q.destination /\ p.owner = q.owner
            /\ p.amount = q.amount
        BY <1>1, <2>5 DEF Instruction, token_transfer, Transfer, Ix
      <3> QED
        BY <2>5, <3>1 DEF Promise!Parameters
    <2>6. CASE p.fn = "burn_tokens"
      <3>1. p.account = q.account /\ p.mint = q.mint /\ p.owner = q.owner /\ p.amount = q.amount
        BY <1>1, <2>6 DEF Instruction, burn_tokens, Burn, Ix
      <3> QED
        BY <2>6, <3>1 DEF Promise!Parameters
    <2>7. CASE p.fn = "close_token_account"
      <3>1. p.account = q.account /\ p.destination = q.destination /\ p.owner = q.owner
        BY <1>1, <2>7 DEF Instruction, close_token_account, CloseAccount, Ix
      <3> QED
        BY <2>7, <3>1 DEF Promise!Parameters
    <2>8. CASE p.fn = "send_memo"
      <3>1. p.signer = q.signer /\ p.amount = q.amount
        BY <1>1, <2>8 DEF Instruction, send_memo, Memo, Ix
      <3> QED
        BY <2>8, <3>1 DEF Promise!Parameters
    <2>9. CASE p.fn = "compute_budget"
      <3>1. p.amount = q.amount
        BY <1>1, <2>9 DEF Instruction, ComputeBudget, Ix
      <3> QED
        BY <2>9, <3>1 DEF Promise!Parameters
    <2>10. CASE p.fn = "send_transfer"
      <3>1. p.sender = q.sender /\ p.to = q.to /\ p.amount = q.amount
        BY <1>1, <2>10 DEF Instruction, send_transfer, SystemTransfer, Ix
      <3> QED
        BY <2>10, <3>1 DEF Promise!Parameters
    <2> QED
      BY <2>1, <2>2, <2>3, <2>4, <2>5, <2>6, <2>7, <2>8, <2>9, <2>10 DEF Promise!Single
  <1> QED
    BY <1>1, <1>2

(* The first instruction of what creates an account, or asks for lamports. *)
LEMMA Heads ==
    ASSUME NEW c, NEW r, r.fn \in Creates \cup Airdropping
    PROVE  /\ 1 \in DOMAIN Message(c, r)
           /\ Message(c, r)[1].op = IF r.fn \in Creates THEN "CreateAccount" ELSE "FaucetTransfer"
  <1>1. CASE r.fn \in Creates
    BY <1>1 DEF Creates, Message, create_mint, create_token_account,
                create_program_owned_account, create_nonce_account, CreateAndInit,
                CreateAccount, Ix
  <1>2. CASE r.fn \in Airdropping
    BY <1>2 DEF Airdropping, Creates, Message, create_keypair, fund_account, FaucetTransfer, Ix
  <1> QED
    BY <1>1, <1>2

LEMMA OtherHeads ==
    ASSUME NEW c, NEW r, IsRequest(r), r.fn \in Operates, 1 \in DOMAIN Message(c, r)
    PROVE  Message(c, r)[1].op \notin {"CreateAccount", "FaucetTransfer"}
  <1>1. PICK m \in Nat :
           /\ DOMAIN Message(c, r) = 1..m
           /\ \A i \in 1..m : /\ Promise!Parts(r)[i].fn \in Promise!Single
                              /\ Message(c, r)[i] = Instruction(Promise!Parts(r)[i])
    BY Instructions
  <1> DEFINE p == Promise!Parts(r)[1]
  <1>2. p.fn \in Promise!Single /\ Message(c, r)[1] = Instruction(p)
    BY <1>1
  <1> HIDE DEF p
  <1>3. Message(c, r)[1].op = OpOf[p.fn]
    BY <1>2, Operation
  <1> QED
    BY <1>2, <1>3 DEF OpOf, Promise!Single

LEMMA SameClass ==
    ASSUME NEW c, NEW d, NEW q, NEW r, IsRequest(q), IsRequest(r), Message(c, q) = Message(d, r)
    PROVE  \/ q.fn \in Creates /\ r.fn \in Creates
           \/ q.fn \in Airdropping /\ r.fn \in Airdropping
           \/ q.fn \in Operates /\ r.fn \in Operates
  <1>1. q.fn \in Creates \cup Airdropping \cup Operates
        /\ r.fn \in Creates \cup Airdropping \cup Operates
    BY Helpers
  <1>2. CASE q.fn \in Creates \cup Airdropping /\ r.fn \in Creates \cup Airdropping
    <2>1. /\ Message(c, q)[1].op = IF q.fn \in Creates THEN "CreateAccount" ELSE "FaucetTransfer"
          /\ Message(d, r)[1].op = IF r.fn \in Creates THEN "CreateAccount" ELSE "FaucetTransfer"
      BY <1>2, Heads
    <2> QED
      BY <1>2, <2>1
  <1>3. CASE q.fn \in Creates \cup Airdropping /\ r.fn \in Operates
    <2>1. 1 \in DOMAIN Message(d, r) /\ Message(d, r)[1].op \in {"CreateAccount", "FaucetTransfer"}
      BY <1>3, Heads
    <2> QED
      BY <1>3, <2>1, OtherHeads
  <1>4. CASE q.fn \in Operates /\ r.fn \in Creates \cup Airdropping
    <2>1. 1 \in DOMAIN Message(c, q) /\ Message(c, q)[1].op \in {"CreateAccount", "FaucetTransfer"}
      BY <1>4, Heads
    <2> QED
      BY <1>4, <2>1, OtherHeads
  <1> QED
    BY <1>1, <1>2, <1>3, <1>4

(* What the node adds to a transaction it makes.                           *)
Own(c, r) ==
    IF AirdropsApart /\ r.fn \in {"create_keypair", "fund_account"} THEN c ELSE NotYet

LEMMA AirdropTells ==
    ASSUME NEW c, NEW r, r.fn \in Airdropping
    PROVE  Promise!Wanted(c, r)
             = <<"airdrop", <<Message(c, r)[1].keys[1], Message(c, r)[1].amount, Own(c, r)>>>>
  <1>1. Own(c, r) = IF AirdropsApart THEN c ELSE NotYet
    BY DEF Own, Airdropping
  <1>2. Promise!Wanted(c, r)
          = <<"airdrop", <<IF r.fn = "create_keypair" THEN c ELSE r.to, Promise!Lamports(r),
                           IF AirdropsApart THEN c ELSE NotYet>>>>
    BY DEF Promise!Wanted, Promise!Airdrops, Airdropping
  <1>3. CASE r.fn = "create_keypair"
    <2>1. Message(c, r) = <<FaucetTransfer(c, r.amount)>>
      BY <1>3 DEF Message, create_keypair
    <2>2. Promise!Lamports(r) = r.amount
      BY <1>3 DEF Promise!Lamports
    <2>3. Message(c, r)[1].keys[1] = c /\ Message(c, r)[1].amount = r.amount
      BY <2>1 DEF FaucetTransfer, Ix
    <2> QED
      BY <1>1, <1>2, <1>3, <2>2, <2>3
  <1>4. CASE r.fn = "fund_account"
    <2>1. Message(c, r) = <<FaucetTransfer(r.to, Promise!Lamports(r))>>
      BY <1>4 DEF Message, fund_account, Promise!Lamports
    <2>2. Message(c, r)[1].keys[1] = r.to /\ Message(c, r)[1].amount = Promise!Lamports(r)
      BY <2>1 DEF FaucetTransfer, Ix
    <2> QED
      BY <1>1, <1>2, <1>4, <2>2
  <1> QED
    BY <1>3, <1>4 DEF Airdropping

LEMMA MessageTells ==
    ASSUME NEW c, NEW d, NEW q, NEW r, IsRequest(q), IsRequest(r),
           Message(c, q) = Message(d, r), Own(c, q) = Own(d, r)
    PROVE  Promise!Wanted(c, q) = Promise!Wanted(d, r)
  <1>1. CASE q.fn \in Creates /\ r.fn \in Creates
    <2>1. Message(c, q)[1].keys[2] = c /\ Message(d, r)[1].keys[2] = d
      BY <1>1 DEF Creates, Message, create_mint, create_token_account,
                  create_program_owned_account, create_nonce_account, CreateAndInit,
                  CreateAccount, Ix
    <2>2. Promise!Wanted(c, q) = <<"new", <<c>>>> /\ Promise!Wanted(d, r) = <<"new", <<d>>>>
      BY <1>1 DEF Promise!Wanted, Promise!MakesAccount, Promise!Airdrops, Creates
    <2> QED
      BY <2>1, <2>2
  <1>2. CASE q.fn \in Airdropping /\ r.fn \in Airdropping
    BY <1>2, AirdropTells
  <1>3. CASE q.fn \in Operates /\ r.fn \in Operates
    <2> DEFINE told(p) == <<p.fn, [x \in Promise!Parameters[p.fn] |-> p[x]]>>
               us == Promise!Parts(q)
               vs == Promise!Parts(r)
    <2>1. PICK m \in Nat :
             /\ DOMAIN us = 1..m /\ DOMAIN Message(c, q) = 1..m /\ Len(Message(c, q)) = m
             /\ \A i \in 1..m : us[i].fn \in Promise!Single /\ Message(c, q)[i] = Instruction(us[i])
      BY <1>3, Instructions
    <2>2. PICK n \in Nat :
             /\ DOMAIN vs = 1..n /\ DOMAIN Message(d, r) = 1..n /\ Len(Message(d, r)) = n
             /\ \A i \in 1..n : vs[i].fn \in Promise!Single /\ Message(d, r)[i] = Instruction(vs[i])
      BY <1>3, Instructions
    <2>3. m = n
      BY <2>1, <2>2
    <2>4. Promise!Wanted(c, q) = <<"parts", [i \in 1..m |-> told(us[i])]>>
      BY <1>3, <2>1 DEF Promise!Wanted, Promise!MakesAccount, Promise!Airdrops, Operates,
                        Promise!Single
    <2>5. Promise!Wanted(d, r) = <<"parts", [i \in 1..m |-> told(vs[i])]>>
      BY <1>3, <2>2, <2>3 DEF Promise!Wanted, Promise!MakesAccount, Promise!Airdrops, Operates,
                              Promise!Single
    <2>6. ASSUME NEW i \in 1..m PROVE told(us[i]) = told(vs[i])
      <3> DEFINE u == us[i]
                 v == vs[i]
      <3>1. u.fn \in Promise!Single /\ v.fn \in Promise!Single /\ Instruction(u) = Instruction(v)
        BY <2>1, <2>2, <2>3
      <3> HIDE DEF u, v
      <3>2. told(u) = told(v)
        BY <3>1, InstructionTells
      <3> QED
        BY <3>2 DEF u, v
    <2> HIDE DEF told, us, vs
    <2> QED
      BY <2>4, <2>5, <2>6
  <1> QED
    BY <1>1, <1>2, <1>3, SameClass

-----------------------------------------------------------------------------
(* The invariant: a call that has not started has nothing, one that goes   *)
(* on has asked for something and refers to a blockhash, and one that is   *)
(* over has a result.                                                      *)
CallOK(c) ==
    /\ pc[c] = "idle" => asked[c] = NotYet /\ hash[c] = 0 /\ result[c] = "none"
    /\ pc[c] # "idle" => IsRequest(asked[c]) /\ asked[c] # NotYet
    /\ pc[c] \in {"send", "wait"} => hash[c] > 0 /\ result[c] = "none"

IInv == TypeOK /\ DOMAIN asked = Calls /\ \A c \in Calls : CallOK(c)

LEMMA Start == Init => IInv
  <1> SUFFICES ASSUME Init PROVE IInv
    OBVIOUS
  <1>1. \A c \in Calls : pc[c] = "idle" /\ asked[c] = NotYet /\ hash[c] = 0 /\ result[c] = "none"
    BY DEF Init
  <1>2. DOMAIN txs = {}
    BY DEF Init
  <1>3. {d \in Calls : Sent(d)} = {}
    BY <1>1 DEF Sent
  <1>4. IsLedger(ledger) /\ MaxBlock \in Nat \ {0}
    BY HelpersAssumption DEF Init
  <1>5. /\ pc \in [Calls -> {"idle", "send", "wait", "done"}]
        /\ hash \in [Calls -> 0..block] /\ block \in 1..MaxBlock
        /\ result \in [Calls -> {"none", "returned", "raised"}]
    BY <1>4 DEF Init
  <1>6. ledger = Initial
    BY DEF Init
  <1>7. TypeOK
    BY <1>2, <1>3, <1>4, <1>5, <1>6 DEF TypeOK
  <1> QED
    BY <1>1, <1>7 DEF IInv, CallOK, Init

(* Who has sent what: only Send adds to it.                                *)
LEMMA Quiet ==
    ASSUME IInv,
           \/ \E c \in Calls : Ask(c) \/ Raises(c) \/ Return(c)
           \/ \E s \in DOMAIN txs : Land(s) \/ Expire(s)
           \/ NewBlock
           \/ UNCHANGED vars
    PROVE  \A d \in Calls : (Sent(d)' <=> Sent(d)) /\ (Sent(d) => Signature(d)' = Signature(d))
  <1>1. /\ pc \in [Calls -> {"idle", "send", "wait", "done"}] /\ DOMAIN hash = Calls
        /\ DOMAIN asked = Calls /\ block \in Nat \ {0} /\ \A d \in Calls : hash[d] \in Nat /\ CallOK(d)
    BY HelpersAssumption DEF IInv, TypeOK
  <1>2. ASSUME NEW c \in Calls, Ask(c), NEW d \in Calls
        PROVE  (Sent(d)' <=> Sent(d)) /\ (Sent(d) => Signature(d)' = Signature(d))
    <2>1. CASE d = c
      <3>1. ~Sent(c) /\ hash[c] = 0
        BY <1>1, <1>2 DEF Ask, Sent, CallOK
      <3>2. ~Sent(c)'
        BY <1>1, <1>2, <3>1 DEF Ask, Sent, End
      <3> QED
        BY <2>1, <3>1, <3>2
    <2>2. CASE d # c
      <3>1. pc'[d] = pc[d] /\ hash'[d] = hash[d] /\ asked'[d] = asked[d]
        BY <1>1, <1>2, <2>2 DEF Ask, End
      <3> QED
        BY <3>1 DEF Sent, Signature
    <2> QED
      BY <2>1, <2>2
  <1>3. ASSUME NEW c \in Calls, Raises(c), NEW d \in Calls
        PROVE  (Sent(d)' <=> Sent(d)) /\ (Sent(d) => Signature(d)' = Signature(d))
    <2>1. asked' = asked
      BY <1>3 DEF Raises
    <2>2. CASE d = c /\ pc[c] = "wait"
      <3>1. pc'[c] = "done" /\ hash'[c] = hash[c]
        BY <1>1, <1>3, <2>2 DEF Raises, End
      <3> QED
        BY <2>1, <2>2, <3>1 DEF Sent, Signature
    <2>3. CASE d = c /\ pc[c] # "wait"
      <3>1. pc[c] = "send" /\ hash'[c] = 0
        BY <1>1, <1>3, <2>3 DEF Raises
      <3> QED
        BY <2>3, <3>1 DEF Sent
    <2>4. CASE d # c
      <3>1. pc'[d] = pc[d] /\ hash'[d] = hash[d]
        BY <1>1, <1>3, <2>4 DEF Raises, End
      <3> QED
        BY <2>1, <3>1 DEF Sent, Signature
    <2> QED
      BY <2>2, <2>3, <2>4
  <1>4. ASSUME NEW c \in Calls, Return(c), NEW d \in Calls
        PROVE  (Sent(d)' <=> Sent(d)) /\ (Sent(d) => Signature(d)' = Signature(d))
    <2>1. asked' = asked /\ hash' = hash /\ pc[c] = "wait" /\ pc' = [pc EXCEPT ![c] = "done"]
      BY <1>4 DEF Return, End
    <2> QED
      BY <1>1, <2>1 DEF Sent, Signature
  <1>5. ASSUME caller' = caller, NEW d \in Calls
        PROVE  (Sent(d)' <=> Sent(d)) /\ (Sent(d) => Signature(d)' = Signature(d))
    BY <1>5 DEF caller, Sent, Signature
  <1>6. (\E s \in DOMAIN txs : Land(s) \/ Expire(s)) \/ NewBlock \/ UNCHANGED vars
          => caller' = caller
    BY DEF Land, Expire, NewBlock, vars, caller
  <1> QED
    BY <1>2, <1>3, <1>4, <1>5, <1>6

LEMMA SendAdds ==
    ASSUME IInv, NEW c \in Calls, Send(c)
    PROVE  /\ ~Sent(c) /\ Sent(c)'
           /\ \A d \in Calls : Signature(d)' = Signature(d) /\ (Sent(d)' <=> Sent(d) \/ d = c)
  <1>1. pc \in [Calls -> {"idle", "send", "wait", "done"}] /\ hash[c] > 0
    BY DEF IInv, TypeOK, CallOK, Send
  <1>2. pc[c] = "send" /\ pc' = [pc EXCEPT ![c] = "wait"] /\ hash' = hash /\ asked' = asked
    BY DEF Send
  <1> QED
    BY <1>1, <1>2 DEF Sent, Signature

(* The transactions of the node are those that were sent.                  *)
LEMMA QuietDomain ==
    ASSUME IInv, DOMAIN txs' = DOMAIN txs,
           \A d \in Calls : (Sent(d)' <=> Sent(d)) /\ (Sent(d) => Signature(d)' = Signature(d))
    PROVE  DOMAIN txs' = {Signature(c)' : c \in {d \in Calls : Sent(d)'}}
  <1>1. DOMAIN txs = {Signature(c) : c \in {d \in Calls : Sent(d)}}
    BY DEF IInv, TypeOK
  <1>2. {Signature(c)' : c \in {d \in Calls : Sent(d)'}}
            = {Signature(c) : c \in {d \in Calls : Sent(d)}}
    OBVIOUS
  <1> QED
    BY <1>1, <1>2

(* Accounts made blank stay as they were asked for.                        *)
BlanksAsked == \A a \in Addresses : ledger[a].is = "blank" => ledger[a] = Initial[a] \/ AskedBlank(a)

LEMMA BlanksStay ==
    ASSUME BlanksAsked, ledger' = ledger,
           \A c \in Calls : asked[c] # NotYet => asked'[c] = asked[c]
    PROVE  BlanksAsked'
  BY DEF BlanksAsked, AskedBlank

(* A transaction of the node is that of a call, and does what it asked for.*)
LEMMA SentBySome ==
    ASSUME IInv, NEW s \in DOMAIN txs
    PROVE  \E c \in Calls : /\ Sent(c) /\ Signature(c) = s
                            /\ s[1] = Message(c, asked[c])
                            /\ IsRequest(asked[c]) /\ asked[c] # NotYet
                            /\ Outcomes(s[1]) = Promise!Effect(c, asked[c], ledger)
  <1>1. PICK c \in Calls : Sent(c) /\ Signature(c) = s
    BY DEF IInv, TypeOK
  <1>2. s[1] = Message(c, asked[c])
    BY <1>1 DEF Signature
  <1>3. IsRequest(asked[c]) /\ asked[c] # NotYet /\ IsLedger(ledger)
    BY <1>1 DEF IInv, CallOK, Sent, TypeOK
  <1>4. Outcomes(Message(c, asked[c])) = Promise!Effect(c, asked[c], ledger)
    BY <1>3, ExecutesEffect
  <1> QED
    BY <1>1, <1>2, <1>3, <1>4

LEMMA Invariance == IInv /\ [Next]_vars => IInv'
  <1> SUFFICES ASSUME IInv, [Next]_vars PROVE IInv'
    OBVIOUS
  <1>1. /\ pc \in [Calls -> {"idle", "send", "wait", "done"}]
        /\ hash \in [Calls -> 0..block] /\ block \in 1..MaxBlock /\ MaxBlock \in Nat
        /\ result \in [Calls -> {"none", "returned", "raised"}]
        /\ DOMAIN asked = Calls /\ IsLedger(ledger)
        /\ \A s \in DOMAIN txs : txs[s] \in {"sent", "ok", "failed", "dropped"}
    BY HelpersAssumption DEF IInv, TypeOK
  <1>2. (\A c \in Calls : CallOK(c)) /\ BlanksAsked
    BY DEF IInv, TypeOK, BlanksAsked
  <1>3. ASSUME NEW c \in Calls, Ask(c) PROVE IInv'
    <2>1. PICK r \in Requests(Known) :
             /\ asked' = [asked EXCEPT ![c] = r]
             /\ IF Promise!Immediate(r)
                  THEN End(c, "returned") /\ UNCHANGED hash
                  ELSE /\ pc' = [pc EXCEPT ![c] = "send"] /\ hash' = [hash EXCEPT ![c] = block]
                       /\ UNCHANGED result
      BY <1>3 DEF Ask
    <2>2. IsRequest(r) /\ r # NotYet
      BY HelpersAssumption DEF Known
    <2>3. UNCHANGED <<block, txs, ledger>> /\ pc[c] = "idle"
      BY <1>3 DEF Ask
    <2>4. DOMAIN txs' = {Signature(d)' : d \in {e \in Calls : Sent(e)'}}
      BY <1>3, <2>3, Quiet, QuietDomain
    <2>5. /\ pc' \in [Calls -> {"idle", "send", "wait", "done"}]
          /\ hash' \in [Calls -> 0..block']
          /\ result' \in [Calls -> {"none", "returned", "raised"}]
          /\ DOMAIN asked' = Calls
      BY <1>1, <2>1, <2>3 DEF End
    <2>6. BlanksAsked'
      <3>1. asked[c] = NotYet
        BY <1>2, <2>3 DEF CallOK
      <3> QED
        BY <1>1, <1>2, <2>1, <2>3, <3>1, BlanksStay
    <2>7. TypeOK'
      BY <1>1, <2>3, <2>4, <2>5, <2>6 DEF TypeOK, BlanksAsked
    <2>8. ASSUME NEW d \in Calls PROVE CallOK(d)'
      <3>1. CASE d = c
        <4>1. asked'[c] = r /\ pc'[c] \in {"send", "done"}
              /\ (pc'[c] = "send" => hash'[c] = block /\ result' = result)
          BY <1>1, <2>1 DEF End
        <4>2. result[c] = "none"
          BY <1>2, <2>3 DEF CallOK
        <4> QED
          BY <1>1, <2>2, <3>1, <4>1, <4>2 DEF CallOK
      <3>2. CASE d # c
        <4>1. pc'[d] = pc[d] /\ asked'[d] = asked[d] /\ hash'[d] = hash[d] /\ result'[d] = result[d]
          BY <1>1, <2>1, <3>2 DEF End
        <4> QED
          BY <1>2, <4>1 DEF CallOK
      <3> QED
        BY <3>1, <3>2
    <2> QED
      BY <2>5, <2>7, <2>8 DEF IInv
  <1>4. ASSUME NEW c \in Calls, Send(c) PROVE IInv'
    <2>1. /\ pc[c] = "send" /\ pc' = [pc EXCEPT ![c] = "wait"]
          /\ txs' = [s \in DOMAIN txs \cup {Signature(c)} |->
                        IF s \in DOMAIN txs THEN txs[s] ELSE "sent"]
          /\ UNCHANGED <<asked, hash, result, block, ledger>>
      BY <1>4 DEF Send
    <2>2. DOMAIN txs = {Signature(d) : d \in {e \in Calls : Sent(e)}}
      BY DEF IInv, TypeOK
    <2>3. DOMAIN txs' = {Signature(d)' : d \in {e \in Calls : Sent(e)'}}
      <3>1. DOMAIN txs' = DOMAIN txs \cup {Signature(c)}
        BY <2>1
      <3>2. \A d \in Calls : Signature(d)' = Signature(d) /\ (Sent(d)' <=> Sent(d) \/ d = c)
        BY <1>4, SendAdds
      <3>3. {Signature(d)' : d \in {e \in Calls : Sent(e)'}}
                = {Signature(d) : d \in {e \in Calls : Sent(e) \/ e = c}}
        BY <3>2
      <3> QED
        BY <2>2, <3>1, <3>3
    <2>4. \A s \in DOMAIN txs' : txs'[s] \in {"sent", "ok", "failed", "dropped"}
      BY <1>1, <2>1
    <2>5. pc' \in [Calls -> {"idle", "send", "wait", "done"}]
      BY <1>1, <2>1
    <2>6. BlanksAsked'
      BY <1>2, <2>1, BlanksStay
    <2>7. TypeOK'
      BY <1>1, <2>1, <2>3, <2>4, <2>5, <2>6 DEF TypeOK, BlanksAsked
    <2>8. ASSUME NEW d \in Calls PROVE CallOK(d)'
      <3>1. CallOK(c) /\ CallOK(d) /\ pc'[c] = "wait" /\ (d # c => pc'[d] = pc[d])
        BY <1>1, <1>2, <2>1
      <3> QED
        BY <2>1, <3>1 DEF CallOK
    <2> QED
      BY <1>1, <2>1, <2>7, <2>8 DEF IInv
  <1>5. ASSUME NEW c \in Calls, Raises(c) PROVE IInv'
    <2>1. /\ pc[c] \in {"send", "wait"} /\ pc' = [pc EXCEPT ![c] = "done"]
          /\ result' = [result EXCEPT ![c] = "raised"]
          /\ hash' = [hash EXCEPT ![c] = IF pc[c] = "wait" THEN @ ELSE 0]
          /\ UNCHANGED <<asked, block, txs, ledger>>
      BY <1>5 DEF Raises, End
    <2>2. DOMAIN txs' = {Signature(d)' : d \in {e \in Calls : Sent(e)'}}
      BY <1>5, <2>1, Quiet, QuietDomain
    <2>3. /\ pc' \in [Calls -> {"idle", "send", "wait", "done"}]
          /\ hash' \in [Calls -> 0..block']
          /\ result' \in [Calls -> {"none", "returned", "raised"}]
      BY <1>1, <2>1
    <2>4. BlanksAsked'
      BY <1>2, <2>1, BlanksStay
    <2>5. TypeOK'
      BY <1>1, <2>1, <2>2, <2>3, <2>4 DEF TypeOK, BlanksAsked
    <2>6. ASSUME NEW d \in Calls PROVE CallOK(d)'
      <3>1. CallOK(c) /\ CallOK(d) /\ pc'[c] = "done"
            /\ (d # c => pc'[d] = pc[d] /\ hash'[d] = hash[d] /\ result'[d] = result[d])
        BY <1>1, <1>2, <2>1
      <3> QED
        BY <2>1, <3>1 DEF CallOK
    <2> QED
      BY <1>1, <2>1, <2>5, <2>6 DEF IInv
  <1>6. ASSUME NEW c \in Calls, Return(c) PROVE IInv'
    <2>1. /\ pc[c] = "wait" /\ pc' = [pc EXCEPT ![c] = "done"]
          /\ result' = [result EXCEPT ![c] = "returned"]
          /\ UNCHANGED <<asked, hash, block, txs, ledger>>
      BY <1>6 DEF Return, End
    <2>2. DOMAIN txs' = {Signature(d)' : d \in {e \in Calls : Sent(e)'}}
      BY <1>6, <2>1, Quiet, QuietDomain
    <2>3. /\ pc' \in [Calls -> {"idle", "send", "wait", "done"}]
          /\ result' \in [Calls -> {"none", "returned", "raised"}]
      BY <1>1, <2>1
    <2>4. BlanksAsked'
      BY <1>2, <2>1, BlanksStay
    <2>5. TypeOK'
      BY <1>1, <2>1, <2>2, <2>3, <2>4 DEF TypeOK, BlanksAsked
    <2>6. ASSUME NEW d \in Calls PROVE CallOK(d)'
      <3>1. CallOK(c) /\ CallOK(d) /\ pc'[c] = "done"
            /\ (d # c => pc'[d] = pc[d] /\ result'[d] = result[d])
        BY <1>1, <1>2, <2>1
      <3> QED
        BY <2>1, <3>1 DEF CallOK
    <2> QED
      BY <1>1, <2>1, <2>5, <2>6 DEF IInv
  <1>7. ASSUME NEW s \in DOMAIN txs, Land(s) \/ Expire(s) PROVE IInv'
    <2>1. /\ UNCHANGED <<pc, asked, hash, result, block>>
          /\ \E status \in {"ok", "failed", "dropped"} : txs' = [txs EXCEPT ![s] = status]
      BY <1>7 DEF Land, Expire, caller
    <2>2. DOMAIN txs' = DOMAIN txs
          /\ \A t \in DOMAIN txs' : txs'[t] \in {"sent", "ok", "failed", "dropped"}
      BY <1>1, <2>1
    <2>3. DOMAIN txs' = {Signature(d)' : d \in {e \in Calls : Sent(e)'}}
      BY <1>7, <2>2, Quiet, QuietDomain
    <2>4. IsLedger(ledger') /\ BlanksAsked'
      <3>1. ledger' \in Outcomes(s[1]) \/ ledger' = ledger
        BY <1>7 DEF Land, Expire
      <3>2. CASE ledger' \in Outcomes(s[1])
        <4>1. PICK c \in Calls : /\ IsRequest(asked[c]) /\ asked[c] # NotYet
                                 /\ Outcomes(s[1]) = Promise!Effect(c, asked[c], ledger)
          BY SentBySome
        <4>2. /\ IsLedger(ledger')
              /\ \A a \in Addresses : ledger'[a].is = "blank" =>
                    \/ ledger'[a] = ledger[a]
                    \/ /\ a = c /\ asked[c].fn = "create_program_owned_account"
                       /\ ledger'[a] = Promise!Account("blank", "-", asked[c].owner)
          BY <1>1, <3>2, <4>1, EffectKeeps
        <4>3. BlanksAsked'
          BY <1>2, <2>1, <4>1, <4>2 DEF BlanksAsked, AskedBlank
        <4> QED
          BY <4>2, <4>3
      <3>3. CASE ledger' = ledger
        BY <1>1, <1>2, <2>1, <3>3, BlanksStay
      <3> QED
        BY <3>1, <3>2, <3>3
    <2>5. TypeOK'
      BY <1>1, <2>1, <2>2, <2>3, <2>4 DEF TypeOK, BlanksAsked
    <2> QED
      BY <1>1, <1>2, <2>1, <2>5 DEF IInv, CallOK
  <1>8. ASSUME NewBlock PROVE IInv'
    <2>1. block' = block + 1 /\ block < MaxBlock
          /\ UNCHANGED <<pc, asked, hash, result, txs, ledger>>
      BY <1>8 DEF NewBlock, caller
    <2>2. DOMAIN txs' = {Signature(d)' : d \in {e \in Calls : Sent(e)'}}
      BY <1>8, <2>1, Quiet, QuietDomain
    <2>3. hash' \in [Calls -> 0..block'] /\ block' \in 1..MaxBlock
      <3>1. 0..block \subseteq 0..(block + 1)
        BY <1>1
      <3> QED
        BY <1>1, <2>1, <3>1
    <2>4. BlanksAsked'
      BY <1>2, <2>1, BlanksStay
    <2>5. TypeOK'
      BY <1>1, <2>1, <2>2, <2>3, <2>4 DEF TypeOK, BlanksAsked
    <2> QED
      BY <1>1, <1>2, <2>1, <2>5 DEF IInv, CallOK
  <1>9. ASSUME UNCHANGED vars PROVE IInv'
    <2>1. UNCHANGED <<pc, asked, hash, result, block, txs, ledger>>
      BY <1>9 DEF vars
    <2>2. DOMAIN txs' = {Signature(d)' : d \in {e \in Calls : Sent(e)'}}
      BY <1>9, <2>1, Quiet, QuietDomain
    <2>3. BlanksAsked'
      BY <1>2, <2>1, BlanksStay
    <2>4. TypeOK'
      BY <1>1, <2>1, <2>2, <2>3 DEF TypeOK, BlanksAsked
    <2> QED
      BY <1>1, <1>2, <2>1, <2>4 DEF IInv, CallOK
  <1> QED
    BY <1>3, <1>4, <1>5, <1>6, <1>7, <1>8, <1>9 DEF Next, Finished

(* Whatever calls run side by side, and whatever lands, expires or raises, *)
(* the invariant holds in every state.                                     *)
THEOREM InvariantHolds == Spec => []IInv
  BY Start, Invariance, PTL DEF Spec

(* TypeOK: the transactions the node has are those the helpers sent, no    *)
(* helper leaves an account without contents but one that was asked for so,*)
(* and no more tokens of a mint are held than were issued.                 *)
THEOREM TypeCorrect == Spec => []TypeOK
  <1>1. IInv => TypeOK
    BY DEF IInv
  <1> QED
    BY <1>1, InvariantHolds, PTL

-----------------------------------------------------------------------------
(* Step by step, the calls keep the promise.                               *)

(* What was settled stays settled, and what settles is a transaction.      *)
Done(c) == Sent(c) /\ txs[Signature(c)] \in {"ok", "failed"}

LEMMA QuietSettled ==
    ASSUME UNCHANGED txs,
           \A d \in Calls : (Sent(d)' <=> Sent(d)) /\ (Sent(d) => Signature(d)' = Signature(d))
    PROVE  Settled' = Settled
  <1>1. \A d \in Calls : Done(d)' <=> Done(d)
    BY DEF Done
  <1> QED
    BY <1>1 DEF Settled, Done

LEMMA Promises == Init => Promise!Init
  <1> SUFFICES ASSUME Init PROVE Promise!Init
    OBVIOUS
  <1>1. Settled = {}
    BY DEF Init, Settled, Sent
  <1> QED
    BY <1>1 DEF Init, Promise!Init

LEMMA AskAsks == ASSUME IInv, NEW c \in Calls, Ask(c) PROVE Promise!Ask(c)
  <1>1. /\ DOMAIN asked = Calls /\ asked[c] = NotYet
        /\ pc[c] = "idle" /\ UNCHANGED <<block, txs, ledger>>
    BY DEF IInv, CallOK, Ask
  <1>2. PICK r \in Requests(Known) :
           /\ asked' = [asked EXCEPT ![c] = r]
           /\ result' = IF Promise!Immediate(r) THEN [result EXCEPT ![c] = "returned"] ELSE result
    BY DEF Ask, End
  <1>3. r # NotYet /\ asked'[c] = r
    BY <1>1, <1>2, HelpersAssumption DEF Known
  <1>4. Settled' = Settled
    BY <1>1, Quiet, QuietSettled
  <1> QED
    BY <1>1, <1>2, <1>3, <1>4 DEF Promise!Ask

(* A transaction that is there already was sent by a call that wants it.   *)
LEMMA SendJoins ==
    ASSUME IInv, NEW c \in Calls, Send(c)
    PROVE  Promise!Join(c) \/ UNCHANGED Promise!vars
  <1> DEFINE s == Signature(c)
  <1>1. /\ ~Sent(c) /\ Sent(c)'
        /\ \A d \in Calls : Signature(d)' = Signature(d) /\ (Sent(d)' <=> Sent(d) \/ d = c)
    BY SendAdds
  <1>2. /\ txs' = [t \in DOMAIN txs \cup {s} |-> IF t \in DOMAIN txs THEN txs[t] ELSE "sent"]
        /\ UNCHANGED <<asked, result, ledger>>
    BY DEF Send
  <1>3. \A d \in Calls : Sent(d) => Signature(d) \in DOMAIN txs
    BY DEF IInv, TypeOK
  <1> HIDE DEF s
  <1>4. \A d \in Calls \ {c} : Done(d)' <=> Done(d)
    <2>1. TAKE d \in Calls \ {c}
    <2>2. CASE Sent(d)
      <3>1. txs'[Signature(d)] = txs[Signature(d)] /\ Signature(d)' = Signature(d) /\ Sent(d)'
        BY <1>1, <1>2, <1>3, <2>2
      <3> QED
        BY <2>2, <3>1 DEF Done
    <2>3. CASE ~Sent(d)
      BY <1>1, <2>3 DEF Done
    <2> QED
      BY <2>2, <2>3
  <1>5. ~Done(c) /\ (Done(c)' <=> s \in DOMAIN txs /\ txs[s] \in {"ok", "failed"})
    <2>1. txs'[s] = IF s \in DOMAIN txs THEN txs[s] ELSE "sent"
      BY <1>2
    <2>2. Signature(c)' = s
      BY <1>1 DEF s
    <2> QED
      BY <1>1, <2>1, <2>2 DEF Done
  <1>6. CASE Done(c)'
    <2>1. Settled' = Settled \cup {c} /\ c \notin Settled
      BY <1>4, <1>5, <1>6 DEF Settled, Done
    <2>2. PICK d \in Calls : Sent(d) /\ Signature(d) = s
      BY <1>5, <1>6 DEF IInv, TypeOK
    <2>3. d \in Settled
      BY <1>5, <1>6, <2>2 DEF Settled
    <2>4. Message(c, asked[c]) = Message(d, asked[d]) /\ Own(c, asked[c]) = Own(d, asked[d])
      BY <2>2 DEF Signature, Own, s
    <2>5. \A e \in {c, d} : IsRequest(asked[e]) /\ asked[e] # NotYet
      BY <2>2 DEF IInv, CallOK, Send, Sent
    <2>6. Promise!Wanted(c, asked[c]) = Promise!Wanted(d, asked[d])
      BY <2>4, <2>5, MessageTells
    <2>7. Promise!Alike({c, d}) /\ Promise!Alike({c})
      BY <2>5, <2>6 DEF Promise!Alike
    <2> QED
      BY <1>2, <2>1, <2>3, <2>7 DEF Promise!Join, Promise!Settle
  <1>7. CASE ~Done(c)'
    <2>1. Settled' = Settled
      BY <1>4, <1>5, <1>7 DEF Settled, Done
    <2> QED
      BY <1>2, <2>1 DEF Promise!vars
  <1> QED
    BY <1>6, <1>7

LEMMA RaisesRaises == ASSUME IInv, NEW c \in Calls, Raises(c) PROVE Promise!Raise(c)
  <1>1. /\ result[c] = "none" /\ result' = [result EXCEPT ![c] = "raised"]
        /\ UNCHANGED <<asked, ledger, txs>>
    BY DEF IInv, CallOK, Raises, End
  <1>2. Settled' = Settled
    BY <1>1, Quiet, QuietSettled
  <1> QED
    BY <1>1, <1>2 DEF Promise!Raise, Promise!Finish

LEMMA ReturnReturns == ASSUME IInv, NEW c \in Calls, Return(c) PROVE Promise!Return(c)
  <1>1. /\ result[c] = "none" /\ result' = [result EXCEPT ![c] = "returned"]
        /\ UNCHANGED <<asked, ledger, txs>>
    BY DEF IInv, CallOK, Return, End
  <1>2. Settled' = Settled
    BY <1>1, Quiet, QuietSettled
  <1>3. asked[c] # NotYet /\ (asked[c].confirm => c \in Settled)
    BY DEF IInv, CallOK, Return, Settled, Sent, Accepts
  <1> QED
    BY <1>1, <1>2, <1>3 DEF Promise!Return, Promise!Finish

(* A transaction settles the calls that sent it, and they want one thing.  *)
LEMMA LandSettles ==
    ASSUME IInv, NEW s \in DOMAIN txs, Land(s)
    PROVE  \E S \in SUBSET Calls : Promise!Perform(S) \/ Promise!Refuse(S)
  <1> DEFINE S == {c \in Calls : Sent(c) /\ Signature(c) = s}
  <1>1. PICK c \in Calls : /\ Sent(c) /\ Signature(c) = s
                           /\ Outcomes(s[1]) = Promise!Effect(c, asked[c], ledger)
    BY SentBySome
  <1>2. /\ txs[s] = "sent" /\ txs' \in {[txs EXCEPT ![s] = "ok"], [txs EXCEPT ![s] = "failed"]}
        /\ UNCHANGED <<asked, result>>
    BY DEF Land, caller
  <1>3. \A d \in Calls : (Sent(d)' <=> Sent(d)) /\ (Sent(d) => Signature(d)' = Signature(d))
    BY Quiet
  <1>4. \A d \in Calls : Sent(d) => Signature(d) \in DOMAIN txs
    BY DEF IInv, TypeOK
  <1>5. \A d \in Calls : Done(d)' <=> Done(d) \/ d \in S
    <2>1. TAKE d \in Calls
    <2>2. CASE ~Sent(d)
      BY <1>3, <2>2 DEF Done
    <2>3. CASE Sent(d)
      <3>1. Sent(d)' /\ Signature(d)' = Signature(d) /\ Signature(d) \in DOMAIN txs
        BY <1>3, <1>4, <2>3
      <3>2. CASE Signature(d) = s
        <4>1. txs'[s] \in {"ok", "failed"}
          BY <1>2
        <4> QED
          BY <2>3, <3>1, <3>2, <4>1 DEF Done
      <3>3. CASE Signature(d) # s
        <4>1. txs'[Signature(d)] = txs[Signature(d)]
          BY <1>2, <3>1, <3>3
        <4> QED
          BY <2>3, <3>1, <3>3, <4>1 DEF Done
      <3> QED
        BY <3>2, <3>3
    <2> QED
      BY <2>2, <2>3
  <1>6. Settled' = Settled \cup S /\ S \cap Settled = {}
    <2>1. Settled = {d \in Calls : Done(d)} /\ Settled' = {d \in Calls : Done(d)'}
      BY DEF Settled, Done
    <2>2. \A d \in S : ~Done(d)
      BY <1>2 DEF Done
    <2> QED
      BY <1>5, <2>1, <2>2
  <1>7. Promise!Alike(S)
    <2>1. \A d \in S : IsRequest(asked[d]) /\ asked[d] # NotYet
      BY DEF IInv, CallOK, Sent
    <2>2. \A d, e \in S : /\ Message(d, asked[d]) = Message(e, asked[e])
                           /\ Own(d, asked[d]) = Own(e, asked[e])
      BY DEF Signature, Own
    <2> QED
      BY <2>1, <2>2, MessageTells DEF Promise!Alike
  <1>8. S \in SUBSET Calls /\ c \in S
    BY <1>1
  <1> HIDE DEF S
  <1>9. Promise!Settle(S)
    BY <1>2, <1>6, <1>7, <1>8 DEF Promise!Settle
  <1>10. CASE ledger' \in Outcomes(s[1])
    BY <1>1, <1>8, <1>9, <1>10 DEF Promise!Perform
  <1>11. CASE ledger' = ledger
    BY <1>8, <1>9, <1>11 DEF Promise!Refuse
  <1> QED
    BY <1>10, <1>11 DEF Land

LEMMA ExpireStutters == ASSUME IInv, NEW s \in DOMAIN txs, Expire(s) PROVE UNCHANGED Promise!vars
  <1>1. /\ txs[s] = "sent" /\ txs' = [txs EXCEPT ![s] = "dropped"]
        /\ UNCHANGED <<asked, result, ledger>>
    BY DEF Expire, caller
  <1>2. \A d \in Calls : (Sent(d)' <=> Sent(d)) /\ (Sent(d) => Signature(d)' = Signature(d))
    BY Quiet
  <1>3. \A d \in Calls : Sent(d) => Signature(d) \in DOMAIN txs
    BY DEF IInv, TypeOK
  <1>4. \A d \in Calls : Done(d)' <=> Done(d)
    <2>1. TAKE d \in Calls
    <2>2. CASE ~Sent(d)
      BY <1>2, <2>2 DEF Done
    <2>3. CASE Sent(d)
      <3>1. txs'[Signature(d)] = IF Signature(d) = s THEN "dropped" ELSE txs[Signature(d)]
        BY <1>1, <1>3, <2>3
      <3> QED
        BY <1>1, <1>2, <2>3, <3>1 DEF Done
    <2> QED
      BY <2>2, <2>3
  <1>5. Settled' = Settled
    BY <1>4 DEF Settled, Done
  <1> QED
    BY <1>1, <1>5 DEF Promise!vars

LEMMA PromiseStep == IInv /\ [Next]_vars => [Promise!Next]_(Promise!vars)
  <1> SUFFICES ASSUME IInv, [Next]_vars PROVE Promise!Next \/ UNCHANGED Promise!vars
    BY DEF Promise!vars
  <1>1. ASSUME NEW c \in Calls, Ask(c) \/ Send(c) \/ Raises(c) \/ Return(c)
        PROVE  Promise!Next \/ UNCHANGED Promise!vars
    BY <1>1, AskAsks, SendJoins, RaisesRaises, ReturnReturns DEF Promise!Next
  <1>2. ASSUME NEW s \in DOMAIN txs, Land(s) PROVE Promise!Next
    BY <1>2, LandSettles DEF Promise!Next
  <1>3. ASSUME NEW s \in DOMAIN txs, Expire(s) PROVE UNCHANGED Promise!vars
    BY <1>3, ExpireStutters
  <1>4. CASE NewBlock \/ UNCHANGED vars
    <2>1. UNCHANGED <<pc, asked, hash, result, txs, ledger>>
      BY <1>4 DEF NewBlock, caller, vars
    <2>2. Settled' = Settled
      BY <1>4, <2>1, Quiet, QuietSettled
    <2> QED
      BY <2>1, <2>2 DEF Promise!vars
  <1> QED
    BY <1>1, <1>2, <1>3, <1>4 DEF Next, Finished

(* The helpers do what their parameters say, in one step, at most once,    *)
(* and before they return unless the ledger refused it or no confirmation  *)
(* was asked for.                                                          *)
THEOREM KeepsThePromise == Spec => ImplementsHelperEffects
  BY InvariantHolds, Promises, PromiseStep, PTL DEF Spec, ImplementsHelperEffects, Promise!Spec
=============================================================================
