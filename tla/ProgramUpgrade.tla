--------------------------- MODULE ProgramUpgrade ---------------------------
(***************************************************************************)
(* The upgradeable loader's half of programs.py: calls of                  *)
(* deploy_program_upgradeable and upgrade_program for one program address. *)
(* Each fills a buffer of its own by _write_buffer, awaiting every         *)
(* transaction before the next, and ends with the transaction that moves   *)
(* the buffer into the program.  The loader and the ledger are external.   *)
(***************************************************************************)
EXTENDS Integers

CONSTANTS
    Calls,     \* calls of the two functions
    Deploys,   \* those of deploy_program_upgradeable
    Chunks,    \* Chunks[c]: the length of c's image, in write chunks
    Key,       \* Key[c]: the authority keypair c is given
    Nobody     \* no call, no authority

ASSUME UpgradeAssumption ==
    /\ Deploys \subseteq Calls /\ Nobody \notin Calls
    /\ Chunks \in [Calls -> Nat \ {0}]
    /\ DOMAIN Key = Calls /\ \A c \in Calls : Key[c] # Nobody

VARIABLES
    pc,       \* pc[c]: idle, send, wait, done
    at,       \* at[c]: the transaction c is at
    result,   \* result[c]: none, returned, raised
    tx,       \* tx[c][k]: what became of c's transaction k
    buffer,   \* buffer[c]: none, open, or taken by the program
    written,  \* written[c]: the chunks in c's buffer
    program   \* code: the call whose image it runs; image; cap; authority

vars == <<pc, at, result, tx, buffer, written, program>>
caller == <<pc, at, result>>
ledger == <<buffer, written, program>>

(* Transaction 0 creates and initializes the buffer, the last installs it. *)
Create == 0
Writes(c) == 1..Chunks[c]
InstallTx(c) == Chunks[c] + 1
Txs(c) == Create..InstallTx(c)

Init ==
    /\ pc = [c \in Calls |-> "idle"]
    /\ at = [c \in Calls |-> Create]
    /\ result = [c \in Calls |-> "none"]
    /\ tx = [c \in Calls |-> [k \in Txs(c) |-> "none"]]
    /\ buffer = [c \in Calls |-> "none"]
    /\ written = [c \in Calls |-> {}]
    /\ program = [code |-> Nobody, image |-> {}, cap |-> 0, authority |-> Nobody]

-----------------------------------------------------------------------------
(* The upgradeable loader.                                                 *)

(* The program address is created in the transaction that deploys to it.   *)
MayDeploy == program.code = Nobody

MayUpgrade(c) ==
    /\ program.code # Nobody
    /\ program.authority = Key[c]
    /\ Chunks[c] <= program.cap

MayInstall(c) == IF c \in Deploys THEN MayDeploy ELSE MayUpgrade(c)

(* max_data_len: twice the program size, for future upgrades.              *)
Room(c) == 2 * Chunks[c]

Deployed(c) == [code |-> c, image |-> written[c], authority |-> Key[c], cap |-> Room(c)]
Upgraded(c) == [program EXCEPT !.code = c, !.image = written[c]]
Installed(c) == IF c \in Deploys THEN Deployed(c) ELSE Upgraded(c)

(* The buffer is fresh; only its own call writes to it.                    *)
Valid(c, k) ==
    CASE k = Create       -> buffer[c] = "none"
      [] k \in Writes(c)  -> buffer[c] = "open"
      [] k = InstallTx(c) -> buffer[c] = "open" /\ MayInstall(c)

Apply(c, k) ==
    /\ buffer' = [buffer EXCEPT ![c] = IF k = InstallTx(c) THEN "taken" ELSE "open"]
    /\ written' = IF k \in Writes(c) THEN [written EXCEPT ![c] = @ \cup {k}] ELSE written
    /\ program' = IF k = InstallTx(c) THEN Installed(c) ELSE program

Land(c, k) ==
    /\ tx[c][k] = "sent"
    /\ \/ Valid(c, k) /\ tx' = [tx EXCEPT ![c][k] = "ok"] /\ Apply(c, k)
       \/ tx' = [tx EXCEPT ![c][k] = "failed"] /\ UNCHANGED ledger
    /\ UNCHANGED caller

Expire(c, k) ==
    /\ tx[c][k] = "sent"
    /\ tx' = [tx EXCEPT ![c][k] = "dropped"]
    /\ UNCHANGED <<caller, ledger>>

(* A test passes the program to another authority, or makes it immutable.  *)
HandOver ==
    /\ program.authority # Nobody
    /\ \E k \in {Key[c] : c \in Calls} \cup {Nobody} :
          k # program.authority /\ program' = [program EXCEPT !.authority = k]
    /\ UNCHANGED <<caller, tx, buffer, written>>

-----------------------------------------------------------------------------
(* The two functions.                                                      *)

End(c, how) ==
    /\ pc' = [pc EXCEPT ![c] = "done"]
    /\ result' = [result EXCEPT ![c] = how]

(* The image file is read before anything is sent.                         *)
Begin(c) ==
    /\ pc[c] = "idle"
    /\ pc' = [pc EXCEPT ![c] = "send"]
    /\ UNCHANGED <<at, result, tx, ledger>>

FileNotFound(c) ==
    /\ pc[c] = "idle" /\ End(c, "raised")
    /\ UNCHANGED <<at, tx, ledger>>

Send(c) ==
    /\ pc[c] = "send" /\ Valid(c, at[c])
    /\ tx' = [tx EXCEPT ![c][at[c]] = "sent"]
    /\ pc' = [pc EXCEPT ![c] = "wait"]
    /\ UNCHANGED <<at, result, ledger>>

(* The preflight rejects the transaction, or a request of the client       *)
(* fails, the one for the rent or the blockhash included; or the wait      *)
(* times out, or sees a failure while it is only processed.                *)
Raises(c) ==
    /\ pc[c] \in {"send", "wait"} /\ End(c, "raised")
    /\ UNCHANGED <<at, tx, ledger>>

(* Mutation: a TimeoutError of the wait is swallowed.                      *)
AcceptsDropped(status) == status \in {"ok", "failed", "dropped"}
Accepts(status) == status \in {"ok", "failed"}

(* Mutation: two chunks at a time.                                         *)
NextTxSkip(c) == at[c] + 2
NextTx(c) == at[c] + 1

Confirmed(c) ==
    /\ pc[c] = "wait" /\ Accepts(tx[c][at[c]])
    /\ IF at[c] = InstallTx(c)
         THEN End(c, "returned") /\ UNCHANGED at
         ELSE /\ pc' = [pc EXCEPT ![c] = "send"]
              /\ at' = [at EXCEPT ![c] = NextTx(c)]
              /\ UNCHANGED result
    /\ UNCHANGED <<tx, ledger>>

Finished == (\A c \in Calls : pc[c] = "done") /\ UNCHANGED vars

Next ==
    \/ HandOver \/ Finished
    \/ \E c \in Calls :
          \/ Begin(c) \/ FileNotFound(c) \/ Send(c) \/ Raises(c) \/ Confirmed(c)
          \/ \E k \in Txs(c) : Land(c, k) \/ Expire(c, k)

Spec == Init /\ [][Next]_vars

-----------------------------------------------------------------------------
(* Properties.                                                             *)

(* The variables have their types, and every call is past the transactions *)
(* it has sent: none but the one it waits for is open unless it raised.    *)
TypeOK ==
    /\ pc \in [Calls -> {"idle", "send", "wait", "done"}]
    /\ result \in [Calls -> {"none", "returned", "raised"}]
    /\ buffer \in [Calls -> {"none", "open", "taken"}]
    /\ DOMAIN at = Calls /\ DOMAIN written = Calls /\ DOMAIN tx = Calls
    /\ \A c \in Calls :
          /\ at[c] \in Txs(c) /\ written[c] \subseteq Writes(c)
          /\ tx[c] \in [Txs(c) -> {"none", "sent", "ok", "failed", "dropped"}]
          /\ result[c] = "none" <=> pc[c] # "done"
          /\ \A k \in Txs(c) : k > at[c] => tx[c][k] = "none"
    /\ program.code \in Calls \cup {Nobody} /\ program.cap \in Nat
    /\ program.code \in Calls => program.image \subseteq Writes(program.code)

(* What the two functions promise (AtomicProgram): the program goes from   *)
(* one whole image to another, once for each call and under the authority  *)
(* it holds at that moment, although the image crosses the network in many *)
(* transactions, other calls are at work, and a transaction that timed out *)
(* may still land.                                                         *)
Promise == INSTANCE AtomicProgram WITH
    code <- program.code,
    whole <- program.code # Nobody /\ program.image = Writes(program.code),
    authority <- program.authority,
    installed <- {c \in Calls : tx[c][InstallTx(c)] = "ok"},
    failed <- {c \in Calls : \E k \in Txs(c) : tx[c][k] = "failed"}

ImplementsAtomicProgram == Promise!Spec
=============================================================================
