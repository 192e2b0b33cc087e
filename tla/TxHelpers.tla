----------------------------- MODULE TxHelpers -----------------------------
(***************************************************************************)
(* The helpers that build one transaction, send it and await it: token.py, *)
(* the memo, nonce and account helpers of programs.py, the transfers of    *)
(* factories.py and transactions.py, the airdrops of accounts.py,          *)
(* factories.py and client.py.  An instruction carries its accounts by     *)
(* position, as on the wire; the programs that execute it, and the ledger  *)
(* that orders transactions, takes equal ones for one, fails or forgets    *)
(* them, are external.  Rent, fees and signatures proper are left out.     *)
(***************************************************************************)
EXTENDS Integers, Sequences, FiniteSets

CONSTANTS
    Calls,         \* calls of the helpers; c is also the address of c's fresh keypair
    Initial,       \* the accounts at the start
    Airdrop,       \* airdrop_lamports of the configuration
    AirdropsApart, \* whether the node gives every airdrop a transaction of its own
    Requests(_),   \* what may be asked of the helpers, given the new addresses
    MaxBlock,      \* bound: blockhashes that come and go
    NotYet         \* no request

VARIABLES
    pc,       \* pc[c]: idle, send, wait, done
    asked,    \* asked[c]: the helper called and its arguments
    hash,     \* hash[c]: the blockhash its transaction refers to
    result,   \* result[c]: none, returned, raised
    block,    \* the latest blockhash
    txs,      \* signature :-> sent, ok, failed, dropped
    ledger    \* ledger[a]: the account at a

vars == <<pc, asked, hash, result, block, txs, ledger>>

Init ==
    /\ pc = [c \in Calls |-> "idle"]
    /\ asked = [c \in Calls |-> NotYet]
    /\ hash = [c \in Calls |-> 0]
    /\ result = [c \in Calls |-> "none"]
    /\ block = 1
    /\ txs = <<>>
    /\ ledger = Initial

-----------------------------------------------------------------------------
(* The instructions, as the builders lay them out.                         *)

Ix(op, keys, amount) == [op |-> op, keys |-> keys, amount |-> amount]

CreateAccount(payer, new, program) == Ix("CreateAccount", <<payer, new, program>>, 0)
InitializeMint(mint, authority) == Ix("InitializeMint", <<mint, authority>>, 0)
InitializeAccount(account, mint, owner) == Ix("InitializeAccount", <<account, mint, owner>>, 0)
InitializeNonce(nonce, authorized) == Ix("InitializeNonce", <<nonce, authorized>>, 0)
MintTo(mint, destination, authority, n) == Ix("MintTo", <<mint, destination, authority>>, n)

(* Mutation: source and destination change places.                         *)
TransferBackwards(source, destination, owner, n) ==
    Ix("Transfer", <<destination, source, owner>>, n)
Transfer(source, destination, owner, n) == Ix("Transfer", <<source, destination, owner>>, n)

Burn(account, mint, owner, n) == Ix("Burn", <<account, mint, owner>>, n)
CloseAccount(account, destination, owner) == Ix("CloseAccount", <<account, destination, owner>>, 0)
Memo(signer, text) == Ix("Memo", <<signer>>, text)
SystemTransfer(from, to, n) == Ix("SystemTransfer", <<from, to>>, n)
FaucetTransfer(to, n) == Ix("FaucetTransfer", <<to>>, n)
ComputeBudget(units) == Ix("ComputeBudget", <<>>, units)

(* Mutation: the account is created and not initialized.                   *)
CreateOnly(create, init) == <<create>>
CreateAndInit(create, init) == <<create, init>>

(* The message of request r of call c, by helper, under the helper's name; *)
(* c is the address of the keypair it generates.  A memo is a number.      *)
create_mint(c, r) ==
    CreateAndInit(CreateAccount("payer", c, "token"), InitializeMint(c, r.authority))
create_token_account(c, r) ==
    CreateAndInit(CreateAccount("payer", c, "token"), InitializeAccount(c, r.mint, r.owner))
create_program_owned_account(c, r) == <<CreateAccount("payer", c, r.owner)>>
create_nonce_account(c, r) ==
    CreateAndInit(CreateAccount(r.payer, c, "system"), InitializeNonce(c, r.payer))
create_keypair(c, r) == <<FaucetTransfer(c, r.amount)>>
fund_account(r) == <<FaucetTransfer(r.to, IF r.amount = 0 THEN Airdrop ELSE r.amount)>>

mint_to(r) == MintTo(r.mint, r.destination, r.authority, r.amount)
token_transfer(r) == Transfer(r.source, r.destination, r.owner, r.amount)
burn_tokens(r) == Burn(r.account, r.mint, r.owner, r.amount)
close_token_account(r) == CloseAccount(r.account, r.destination, r.owner)
send_memo(r) == Memo(r.signer, r.amount)
send_transfer(r) == SystemTransfer(r.sender, r.to, r.amount)

(* The instruction of a single operation, which a helper sends alone and a *)
(* test may put in a list of its own.                                      *)
Instruction(p) ==
    CASE p.fn = "initialize_mint" -> InitializeMint(p.account, p.authority)
      [] p.fn = "initialize_account" -> InitializeAccount(p.account, p.mint, p.owner)
      [] p.fn = "initialize_nonce" -> InitializeNonce(p.account, p.authority)
      [] p.fn = "mint_to" -> mint_to(p)
      [] p.fn = "token_transfer" -> token_transfer(p)
      [] p.fn = "burn_tokens" -> burn_tokens(p)
      [] p.fn = "close_token_account" -> close_token_account(p)
      [] p.fn = "send_memo" -> send_memo(p)
      [] p.fn = "compute_budget" -> ComputeBudget(p.amount)
      [] p.fn = "send_transfer" -> send_transfer(p)

send_transfers(r) ==
    [i \in DOMAIN r.recipients |-> SystemTransfer(r.sender, r.recipients[i][1], r.recipients[i][2])]

(* Any list; one that needs another signature than the sender's is refused.*)
send_multi_instruction_tx(r) == [i \in DOMAIN r.instructions |-> Instruction(r.instructions[i])]

Message(c, r) ==
    CASE r.fn = "create_mint" -> create_mint(c, r)
      [] r.fn = "create_token_account" -> create_token_account(c, r)
      [] r.fn = "create_program_owned_account" -> create_program_owned_account(c, r)
      [] r.fn = "create_nonce_account" -> create_nonce_account(c, r)
      [] r.fn = "create_keypair" -> create_keypair(c, r)
      [] r.fn = "fund_account" -> fund_account(r)
      [] r.fn = "send_transfers" -> send_transfers(r)
      [] r.fn = "send_multi_instruction_tx" -> send_multi_instruction_tx(r)
      [] OTHER -> <<Instruction(r)>>

(* The signature is a function of the message and the blockhash; that of   *)
(* an airdrop, whose transaction the node makes, may be of its own.        *)
Signature(c) ==
    LET r == asked[c] IN
    <<Message(c, r), hash[c],
      IF AirdropsApart /\ r.fn \in {"create_keypair", "fund_account"} THEN c ELSE NotYet>>

(* The calls whose transaction was handed to the node.                     *)
Sent(c) == pc[c] \in {"wait", "done"} /\ hash[c] > 0
Settled == {c \in Calls : Sent(c) /\ txs[Signature(c)] \in {"ok", "failed"}}

(* What the helpers promise, by the names of their parameters (see the end *)
(* of the module); its accounts are those of the programs here.            *)
Promise == INSTANCE HelperEffects WITH settled <- Settled

-----------------------------------------------------------------------------
(* The programs: the ledgers an instruction leads to, one or none.         *)

Becomes(L, a, account) == {[L EXCEPT ![a] = account]}

(* A state of the ledger: token accounts are of a mint, and no more tokens *)
(* of a mint are held than it has issued.                                  *)
Addresses == DOMAIN Initial
Kinds == {"none", "wallet", "mint", "token", "blank", "nonce"}

IsAccount(x) == DOMAIN x = {"is", "mint", "owner", "amount"} /\ x.is \in Kinds /\ x.amount \in Nat
Holders(L, m) == {a \in Addresses : Promise!Is(L, a, m)}
Tokens(L, m) == UNION {{a} \X (1..L[a].amount) : a \in Holders(L, m)}

IsLedger(L) ==
    /\ DOMAIN L = Addresses
    /\ \A a \in Addresses :
          /\ IsAccount(L[a])
          /\ L[a].is = "token" => L[a].mint \in Addresses /\ L[L[a].mint].is = "mint"
          /\ L[a].is = "mint" => Cardinality(Tokens(L, a)) <= L[a].amount

(* A request, or an operation of a list, names accounts there may be and   *)
(* amounts, whatever list a test puts together.                            *)
Places == {"mint", "source", "destination", "account", "sender", "to"}

Names(r) ==
    LET parameters == Promise!Parameters[r.fn] IN
    /\ \A p \in parameters \cap Places : r[p] \in Addresses
    /\ "amount" \in parameters => r.amount \in Nat

IsList(list) == Len(list) \in Nat /\ DOMAIN list = 1..Len(list)

IsRequest(r) ==
    /\ r.fn \in DOMAIN Promise!Parameters /\ r.confirm \in BOOLEAN /\ Names(r)
    /\ r.fn = "send_transfers" =>
          IsList(r.recipients) /\ \A i \in DOMAIN r.recipients : r.recipients[i] \in Addresses \X Nat
    /\ r.fn = "send_multi_instruction_tx" =>
          /\ IsList(r.instructions)
          /\ \A i \in DOMAIN r.instructions :
                r.instructions[i].fn \in Promise!Single /\ Names(r.instructions[i])

ASSUME HelpersAssumption ==
    /\ IsFiniteSet(Addresses) /\ Calls \subseteq Addresses /\ IsLedger(Initial)
    /\ Airdrop \in Nat /\ AirdropsApart \in BOOLEAN /\ MaxBlock \in Nat \ {0}
    /\ \A known \in SUBSET Calls : \A r \in Requests(known) : IsRequest(r) /\ r # NotYet

Exec(ix, L) ==
    LET k == ix.keys
        n == ix.amount
    IN
    CASE ix.op = "CreateAccount" -> Promise!Created(L, k[2], Promise!Account("blank", "-", k[3]))
      [] ix.op = "InitializeMint" /\ Promise!Blank(L, k[1], "token") ->
            Becomes(L, k[1], Promise!Account("mint", "-", k[2]))
      [] ix.op = "InitializeAccount" /\ Promise!Blank(L, k[1], "token") /\ L[k[2]].is = "mint" ->
            Becomes(L, k[1], Promise!Account("token", k[2], k[3]))
      [] ix.op = "InitializeNonce" /\ Promise!Blank(L, k[1], "system") ->
            Becomes(L, k[1], Promise!Account("nonce", "-", k[2]))
      [] ix.op = "MintTo" /\ Promise!Is(L, k[2], k[1]) /\ L[k[1]].owner = k[3] ->
            {[L EXCEPT ![k[1]].amount = @ + n, ![k[2]].amount = @ + n]}
      [] ix.op = "Transfer" /\ L[k[1]].is = "token" /\ Promise!Is(L, k[2], L[k[1]].mint)
                            /\ L[k[1]].owner = k[3] -> Promise!Moved(L, k[1], k[2], n)
      [] ix.op = "Burn" /\ Promise!Is(L, k[1], k[2]) /\ L[k[1]].owner = k[3]
                        /\ L[k[1]].amount >= n ->
            {[L EXCEPT ![k[2]].amount = @ - n, ![k[1]].amount = @ - n]}
      [] ix.op = "CloseAccount" /\ L[k[1]].is = "token" /\ L[k[1]].owner = k[3]
                                /\ L[k[1]].amount = 0 -> Becomes(L, k[1], Promise!None)
      [] ix.op = "SystemTransfer" -> Promise!Paid(L, k[1], k[2], n)
      [] ix.op = "FaucetTransfer" -> Promise!Funded(L, k[1], n)
      [] ix.op \in {"Memo", "ComputeBudget"} -> {L}
      [] OTHER -> {}

(* All instructions of a transaction, or none.                             *)
Outcomes(message) ==
    LET after[n \in 0..Len(message)] ==
          IF n = 0 THEN {ledger} ELSE UNION {Exec(message[n], L) : L \in after[n - 1]}
    IN after[Len(message)]

caller == <<pc, asked, hash, result>>

Land(s) ==
    /\ txs[s] = "sent"
    /\ \/ ledger' \in Outcomes(s[1]) /\ txs' = [txs EXCEPT ![s] = "ok"]
       \/ UNCHANGED ledger /\ txs' = [txs EXCEPT ![s] = "failed"]
    /\ UNCHANGED <<caller, block>>

Expire(s) ==
    /\ txs[s] = "sent"
    /\ txs' = [txs EXCEPT ![s] = "dropped"]
    /\ UNCHANGED <<caller, block, ledger>>

NewBlock ==
    /\ block < MaxBlock /\ block' = block + 1
    /\ UNCHANGED <<caller, txs, ledger>>

-----------------------------------------------------------------------------
(* The helpers.                                                            *)

(* The new accounts a test can know of: those of calls that returned.      *)
Known == {c \in Calls : result[c] = "returned" /\ Promise!MakesAccount(asked[c])}

End(c, how) ==
    /\ pc' = [pc EXCEPT ![c] = "done"]
    /\ result' = [result EXCEPT ![c] = how]

(* A helper first asks for the latest blockhash; for an airdrop the server *)
(* does.  A keypair that is not to be funded is returned as it is.         *)
Ask(c) ==
    /\ pc[c] = "idle"
    /\ \E r \in Requests(Known) :
          /\ asked' = [asked EXCEPT ![c] = r]
          /\ IF Promise!Immediate(r)
               THEN End(c, "returned") /\ UNCHANGED hash
               ELSE /\ pc' = [pc EXCEPT ![c] = "send"] /\ hash' = [hash EXCEPT ![c] = block]
                    /\ UNCHANGED result
    /\ UNCHANGED <<block, txs, ledger>>

(* A transaction that the node already has is the same transaction.        *)
Send(c) ==
    /\ pc[c] = "send"
    /\ txs' = [s \in DOMAIN txs \cup {Signature(c)} |-> IF s \in DOMAIN txs THEN txs[s] ELSE "sent"]
    /\ pc' = [pc EXCEPT ![c] = "wait"]
    /\ UNCHANGED <<asked, hash, result, block, ledger>>

(* A request fails, the preflight rejects the transaction, the answer of   *)
(* the node that took it is lost, or the wait raises; a transaction that   *)
(* was not sent is forgotten.                                              *)
Raises(c) ==
    /\ pc[c] \in {"send", "wait"}
    /\ End(c, "raised")
    /\ hash' = [hash EXCEPT ![c] = IF pc[c] = "wait" THEN @ ELSE 0]
    /\ UNCHANGED <<asked, block, txs, ledger>>

(* wait_for_confirmation returns for a failed transaction as well.         *)
Accepts(status) == status \in {"ok", "failed"}

Return(c) ==
    /\ pc[c] = "wait" /\ (asked[c].confirm => Accepts(txs[Signature(c)]))
    /\ End(c, "returned")
    /\ UNCHANGED <<asked, hash, block, txs, ledger>>

Finished == (\A c \in Calls : pc[c] = "done") /\ UNCHANGED vars

Next ==
    \/ \E c \in Calls : Ask(c) \/ Send(c) \/ Raises(c) \/ Return(c)
    \/ \E s \in DOMAIN txs : Land(s) \/ Expire(s)
    \/ NewBlock \/ Finished

Spec == Init /\ [][Next]_vars

-----------------------------------------------------------------------------
(* Properties.                                                             *)

AskedBlank(a) ==
    /\ a \in Calls /\ asked[a] # NotYet /\ asked[a].fn = "create_program_owned_account"
    /\ ledger[a] = Promise!Account("blank", "-", asked[a].owner)

(* The variables have their types, the transactions of the node are those  *)
(* of the calls, no account is left without contents but one that was      *)
(* asked for so (the others are created and initialized in one             *)
(* transaction), and no more tokens are held than were issued.             *)
TypeOK ==
    /\ pc \in [Calls -> {"idle", "send", "wait", "done"}]
    /\ hash \in [Calls -> 0..block] /\ block \in 1..MaxBlock
    /\ result \in [Calls -> {"none", "returned", "raised"}]
    /\ DOMAIN txs = {Signature(c) : c \in {d \in Calls : Sent(d)}}
    /\ \A s \in DOMAIN txs : txs[s] \in {"sent", "ok", "failed", "dropped"}
    /\ IsLedger(ledger)
    /\ \A a \in Addresses : ledger[a].is = "blank" => ledger[a] = Initial[a] \/ AskedBlank(a)

(* Every helper does what its parameters say (HelperEffects), in one step, *)
(* at most once, and before it returns unless the ledger refused it or no  *)
(* confirmation was asked for, although instructions are wired by position,*)
(* calls run side by side, transactions get lost or land after the caller  *)
(* gave up, and equal ones under one blockhash are one (of airdrops, if the*)
(* node makes them so).                                                    *)
ImplementsHelperEffects == Promise!Spec
=============================================================================
