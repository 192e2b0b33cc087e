---------------------------- MODULE HelperEffects ----------------------------
(***************************************************************************)
(* What the one-transaction helpers of token.py, programs.py, factories.py,*)
(* accounts.py and client.py promise, told by the names of their           *)
(* parameters: an operation happens in one step or not at all, at most     *)
(* once for a call, and before the call returns, unless the ledger refused *)
(* it or the caller did not ask for confirmation.  Calls that want the     *)
(* same thing may share one performance of it; for airdrops that depends on*)
(* the node (AirdropsApart).                                               *)
(***************************************************************************)
EXTENDS Integers, Sequences

CONSTANTS
    Calls,
    Initial,         \* the accounts at the start
    Airdrop,         \* airdrop_lamports of the configuration
    AirdropsApart,   \* whether the node gives every airdrop a transaction of its own
    NotYet           \* no request

VARIABLES
    asked,     \* asked[c]: the request, or NotYet
    ledger,    \* ledger[a]: the account at a
    settled,   \* calls whose operation was performed or refused
    result     \* result[c]: none, returned, raised

vars == <<asked, ledger, settled, result>>

None == [is |-> "none", mint |-> "-", owner |-> "-", amount |-> 0]
Account(is, mint, owner) == [is |-> is, mint |-> mint, owner |-> owner, amount |-> 0]

Created(L, a, account) == IF L[a] = None THEN {[L EXCEPT ![a] = account]} ELSE {}

Moved(L, from, to, n) ==
    IF L[from].amount < n THEN {}
    ELSE {[[L EXCEPT ![from].amount = @ - n] EXCEPT ![to].amount = @ + n]}

(* Only a wallet's lamports are counted.                                   *)
Funded(L, to, n) ==
    IF L[to].is \notin {"none", "wallet"} THEN {L}
    ELSE {[L EXCEPT ![to].is = "wallet", ![to].amount = @ + n]}

Paid(L, from, to, n) ==
    IF L[from].is # "wallet" \/ L[from].amount < n THEN {}
    ELSE Funded([L EXCEPT ![from].amount = @ - n], to, n)

Lamports(r) == IF r.fn = "fund_account" /\ r.amount = 0 THEN Airdrop ELSE r.amount

Is(L, a, mint) == L[a].is = "token" /\ L[a].mint = mint
Blank(L, a, program) == L[a].is = "blank" /\ L[a].owner = program

(* The parameters of the helpers, as far as they matter here, and of the   *)
(* instructions that a test may also put together itself.                  *)
Parameters ==
    [create_mint |-> {"authority"}, create_token_account |-> {"mint", "owner"},
     create_program_owned_account |-> {"owner"}, create_nonce_account |-> {"payer"},
     initialize_mint |-> {"account", "authority"},
     initialize_account |-> {"account", "mint", "owner"},
     initialize_nonce |-> {"account", "authority"},
     mint_to |-> {"mint", "destination", "authority", "amount"},
     token_transfer |-> {"source", "destination", "owner", "amount"},
     burn_tokens |-> {"account", "mint", "owner", "amount"},
     close_token_account |-> {"account", "destination", "owner"},
     send_memo |-> {"signer", "amount"}, compute_budget |-> {"amount"},
     send_transfer |-> {"sender", "to", "amount"},
     send_transfers |-> {"sender", "recipients"},
     send_multi_instruction_tx |-> {"instructions"},
     create_keypair |-> {"amount"}, fund_account |-> {"to", "amount"}]

(* The operations that one instruction does, and those that r consists of. *)
Single ==
    {"initialize_mint", "initialize_account", "initialize_nonce", "mint_to", "token_transfer",
     "burn_tokens", "close_token_account", "send_memo", "compute_budget", "send_transfer"}

Parts(r) ==
    CASE r.fn = "send_transfers" ->
            [i \in DOMAIN r.recipients |->
                [fn |-> "send_transfer", sender |-> r.sender,
                 to |-> r.recipients[i][1], amount |-> r.recipients[i][2]]]
      [] r.fn = "send_multi_instruction_tx" -> r.instructions
      [] OTHER -> <<r>>

(* The ledgers that an operation leads to: one, or none if it cannot be    *)
(* done.                                                                   *)
Performed(p, L) ==
    CASE p.fn = "initialize_mint" ->
            IF Blank(L, p.account, "token")
              THEN {[L EXCEPT ![p.account] = Account("mint", "-", p.authority)]} ELSE {}
      [] p.fn = "initialize_account" ->
            IF Blank(L, p.account, "token") /\ L[p.mint].is = "mint"
              THEN {[L EXCEPT ![p.account] = Account("token", p.mint, p.owner)]} ELSE {}
      [] p.fn = "initialize_nonce" ->
            IF Blank(L, p.account, "system")
              THEN {[L EXCEPT ![p.account] = Account("nonce", "-", p.authority)]} ELSE {}
      [] p.fn = "mint_to" ->
            IF Is(L, p.destination, p.mint) /\ L[p.mint].owner = p.authority
              THEN {[L EXCEPT ![p.mint].amount = @ + p.amount,
                              ![p.destination].amount = @ + p.amount]}
              ELSE {}
      [] p.fn = "token_transfer" ->
            IF Is(L, p.source, L[p.destination].mint) /\ Is(L, p.destination, L[p.source].mint)
               /\ L[p.source].owner = p.owner
              THEN Moved(L, p.source, p.destination, p.amount)
              ELSE {}
      [] p.fn = "burn_tokens" ->
            IF /\ Is(L, p.account, p.mint) /\ L[p.account].owner = p.owner
               /\ L[p.account].amount >= p.amount
              THEN {[L EXCEPT ![p.mint].amount = @ - p.amount,
                              ![p.account].amount = @ - p.amount]}
              ELSE {}
      [] p.fn = "close_token_account" ->
            IF L[p.account].is = "token" /\ L[p.account].owner = p.owner /\ L[p.account].amount = 0
              THEN {[L EXCEPT ![p.account] = None]}
              ELSE {}
      [] p.fn \in {"send_memo", "compute_budget"} -> {L}
      [] p.fn = "send_transfer" -> Paid(L, p.sender, p.to, p.amount)

(* One after the other, or none at all.                                    *)
All(parts, L) ==
    LET after[n \in 0..Len(parts)] ==
          IF n = 0 THEN {L} ELSE UNION {Performed(parts[n], M) : M \in after[n - 1]}
    IN after[Len(parts)]

(* What request r of call c leads to.  A new account has the address c.    *)
Effect(c, r, L) ==
    CASE r.fn = "create_mint" -> Created(L, c, Account("mint", "-", r.authority))
      [] r.fn = "create_token_account" ->
            IF L[r.mint].is = "mint" THEN Created(L, c, Account("token", r.mint, r.owner)) ELSE {}
      [] r.fn = "create_program_owned_account" -> Created(L, c, Account("blank", "-", r.owner))
      [] r.fn = "create_nonce_account" -> Created(L, c, Account("nonce", "-", r.payer))
      [] r.fn = "create_keypair" -> Funded(L, c, Lamports(r))
      [] r.fn = "fund_account" -> Funded(L, r.to, Lamports(r))
      [] OTHER -> All(Parts(r), L)

Airdrops(r) == r.fn \in {"create_keypair", "fund_account"}
MakesAccount(r) ==
    r.fn \in {"create_mint", "create_token_account", "create_program_owned_account",
              "create_nonce_account", "create_keypair"}

(* What a call wants, whoever asks and whether or not it waits: lamports   *)
(* for an address, an account of its own, or what its parameters say.      *)
Wanted(c, r) ==
    CASE Airdrops(r) ->
            <<"airdrop", <<IF r.fn = "create_keypair" THEN c ELSE r.to, Lamports(r),
                           IF AirdropsApart THEN c ELSE NotYet>>>>
      [] MakesAccount(r) /\ ~Airdrops(r) -> <<"new", <<c>>>>
      [] OTHER ->
            <<"parts", [i \in DOMAIN Parts(r) |->
                LET p == Parts(r)[i] IN <<p.fn, [q \in Parameters[p.fn] |-> p[q]]>>]>>

-----------------------------------------------------------------------------
Init ==
    /\ asked = [c \in Calls |-> NotYet]
    /\ ledger = Initial
    /\ settled = {}
    /\ result = [c \in Calls |-> "none"]

(* An unfunded keypair needs no transaction.                               *)
Immediate(r) == r.fn = "create_keypair" /\ r.amount = 0

(* A test asks for what it likes.                                          *)
Ask(c) ==
    /\ asked[c] = NotYet /\ asked'[c] # NotYet
    /\ asked' = [asked EXCEPT ![c] = asked'[c]]
    /\ result' = IF Immediate(asked'[c]) THEN [result EXCEPT ![c] = "returned"] ELSE result
    /\ UNCHANGED <<ledger, settled>>

Alike(S) ==
    /\ \A c \in S : asked[c] # NotYet
    /\ \A c, d \in S : Wanted(c, asked[c]) = Wanted(d, asked[d])

Settle(S) ==
    /\ S # {} /\ S \cap settled = {} /\ Alike(S)
    /\ settled' = settled \cup S
    /\ UNCHANGED <<asked, result>>

Perform(S) == Settle(S) /\ \E c \in S : ledger' \in Effect(c, asked[c], ledger)
Refuse(S) == Settle(S) /\ UNCHANGED ledger

(* A call that finds what it asks for already settled by one like it.      *)
Join(c) == (\E d \in settled : Alike({c, d})) /\ Settle({c}) /\ UNCHANGED ledger

Finish(c, how) ==
    /\ result[c] = "none"
    /\ result' = [result EXCEPT ![c] = how]
    /\ UNCHANGED <<asked, ledger, settled>>

Return(c) == asked[c] # NotYet /\ (c \in settled \/ ~asked[c].confirm) /\ Finish(c, "returned")
Raise(c) == Finish(c, "raised")

Next ==
    \/ \E c \in Calls : Ask(c) \/ Join(c) \/ Return(c) \/ Raise(c)
    \/ \E S \in SUBSET Calls : Perform(S) \/ Refuse(S)

Spec == Init /\ [][Next]_vars
=============================================================================
