----------------------------- MODULE MCTxHelpers -----------------------------
(* Three calls of any helper on a ledger with a wallet, a mint and two     *)
(* token accounts, or on the accounts that earlier calls have made.        *)
EXTENDS TxHelpers, TLC

MCInitial ==
    [a \in Calls \cup {"payer", "mint", "src", "dst"} |->
        CASE a = "payer" -> [is |-> "wallet", mint |-> "-", owner |-> "-", amount |-> 2]
          [] a = "mint"  -> [is |-> "mint", mint |-> "-", owner |-> "payer", amount |-> 1]
          [] a = "src"   -> [is |-> "token", mint |-> "mint", owner |-> "payer", amount |-> 1]
          [] a = "dst"   -> [is |-> "token", mint |-> "mint", owner |-> "payer", amount |-> 0]
          [] OTHER       -> [is |-> "none", mint |-> "-", owner |-> "-", amount |-> 0]]

Asking(fn, amount, confirm) == [fn |-> fn, amount |-> amount, confirm |-> confirm]

(* Requests about the accounts that are there, or that make new ones.      *)
First ==
    {Asking("create_mint", 0, TRUE) @@ [authority |-> "payer"],
     Asking("create_keypair", 0, TRUE), Asking("create_keypair", 1, TRUE),
     Asking("create_program_owned_account", 0, TRUE) @@ [owner |-> "token"],
     Asking("token_transfer", 1, TRUE) @@ [source |-> "src", destination |-> "dst", owner |-> "payer"]}

Doing(fn, amount) == [fn |-> fn, amount |-> amount]
Multi(instructions) ==
    [fn |-> "send_multi_instruction_tx", confirm |-> TRUE, instructions |-> instructions]

(* Once a test has a new account, the rest of the helpers, on it and beside*)
(* it, and lists of instructions that send what a helper would, that       *)
(* initialize an account made blank, and that fail half way.               *)
Later(known) ==
    {Asking("create_nonce_account", 0, TRUE) @@ [payer |-> "payer"],
     Asking("create_program_owned_account", 0, TRUE) @@ [owner |-> "system"],
     Asking("send_memo", 1, FALSE) @@ [signer |-> "payer"],
     Asking("burn_tokens", 1, TRUE) @@ [account |-> "src", mint |-> "mint", owner |-> "payer"],
     Asking("close_token_account", 0, TRUE)
        @@ [account |-> "src", destination |-> "payer", owner |-> "payer"],
     Multi(<<Doing("send_memo", 1) @@ [signer |-> "payer"]>>),
     Multi(<<Doing("compute_budget", 1),
             Doing("send_transfer", 2) @@ [sender |-> "payer", to |-> "src"],
             Doing("send_transfer", 1) @@ [sender |-> "payer", to |-> "payer"]>>)}
    \cup {Asking("mint_to", 1, TRUE) @@ [mint |-> m, destination |-> a, authority |-> "payer"]
            : m \in {"mint"} \cup known, a \in {"dst"} \cup known}
    \cup {Asking("fund_account", 0, TRUE) @@ [to |-> a] : a \in {"payer"} \cup known}
    \cup {Multi(<<Doing("initialize_mint", 0) @@ [account |-> a, authority |-> "payer"]>>) : a \in known}
    \cup {Asking("send_transfers", 0, FALSE)
             @@ [sender |-> "payer", recipients |-> <<<<a, 1>>, <<a, 2>>>>] : a \in known}

MCRequests(known) ==
    {Asking("create_token_account", 0, TRUE) @@ [mint |-> m, owner |-> "payer"]
        : m \in {"mint"} \cup known}
    \cup IF known = {} THEN First ELSE Later(known)

Symmetry == Permutations(Calls)
=============================================================================
