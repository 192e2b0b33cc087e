# Models and proofs of karstflow-tests

`karstflow-tests` is an asyncio test harness for a Solana-compatible validator: a library
(`src/karstflow_tests`), the pytest suites and plugins that use it (`tests`), and a few on-chain
programs the suites deploy (`programs`). The validator itself is a container the harness starts and
talks to. What is hard in it is therefore not computation but the *conversation*: coroutines that
share clients, deadlines that race answers, retries of requests that may have been executed,
messages that arrive in an order nobody waited for, and multi-transaction operations that stop
half-way. The modules here model those conversations.

Source paths below are relative to the repository; `wait.py` stands for
`src/karstflow_tests/wait.py`, and so on.

## 1. Inventory

| Component | State it keeps | Operations | Hard behaviour | Correct when | Modules |
|---|---|---|---|---|---|
| Polling waits (`wait.py`) | deadline, the last answer | `wait_for_health`, `wait_for_confirmation` | deadline tested only between polls; the answer ages while it travels; exceptions of the client | a return is true and stays true; a timeout is honest; a wait is bounded | `Wait`, `Confirmation`, `WaitProofs` |
| RPC client (`rpc.py`, `RetryPolicy` of `config.py`, `types.py`) | `_request_id`, the httpx client | `request`, `request_raw`, `batch`, `close`, typed wrappers | retry after a lost answer; shared counter; batch answers in any order; close during a call | at most once unless an answer was lost; the budget is exact; ids unique; calls end | `RpcClient`, `RpcProofs` |
| Websocket client (`ws.py`) | `_request_id`, `_subscriptions`, the connection | `subscribe`, `recv_notification(s)`, `unsubscribe`, `close` | one queue for answers and notifications; 5 s limit on the acknowledgement | table agrees with the server; notifications neither lost nor doubled silently | `WsClient`, `WsClientProofs` |
| Program deployment (`programs.py`) | none across calls; the ledger holds it | `deploy_program`, `deploy_program_upgradeable`, `upgrade_program` | dozens of transactions, each may fail, expire or be late; several workers share a program keypair; an upgrade timed out lands later | what is returned is complete and executable; the block budget is kept; a program goes from one whole image to another | `ProgramDeploy`, `ProgramUpgrade`, `AtomicProgram`, `ProgramDeployProofs`, `ProgramUpgradeProofs` |
| Token helpers (`token.py`), the memo, nonce and account helpers of `programs.py`, factories, accounts, transactions | none | mint, transfer, burn, close; fund, send, await | equal calls under one blockhash are one transaction; a wait that raises while the transaction is under way | an operation happens whole or not at all, at most once, and before the return unless refused | `TxHelpers`, `HelperEffects`, `HelperProofs` |
| Validator lifecycle (`lifecycle.py`) | `_process`, `_stopped`, `_started` | `start`, `stop`, `restart`, context managers, compose cluster | docker calls awaited one by one; failures between them; every instance uses the same name and port | no container outlives its owner; readiness is that of one's own container; a `with` cleans up | `ValidatorLifecycle`, `Cluster`, `DockerProofs` |
| Node manager (`node.py`) | `process`, `container_id` of each handle | `start_local`, `start_docker`, `start_cluster`, `wait_all_ready`, `stop` | ignored exit codes; one compose file for everybody; a wait that blocks the event loop | what runs can be stopped by somebody | `Cluster`, `DockerProofs` |
| Middleware (`middleware.py`, `instrumented_rpc.py`) | statistics, records, error counts | `run_before`, `run_after`, instrumented `request(_raw)`, `reset` | one chain shared by concurrent requests; exceptions and cancellation | every request counted once, in each table alike; the record cap is kept | `InstrumentedRpc`, `RpcProofs` |
| State snapshots (`state.py`) | tracked names | `snapshot`, `diff` | a snapshot is several awaits, read at finalized | a difference reported is one of the finalized ledger, and none there is missed | `StateCapture`, `Scenario`, `ScenarioProofs` |
| Scenarios (`scenarios.py`) | context, completed and failed steps | `run`, the step builders | partial failure, second run; balances read at finalized, waits that end at confirmed | completed steps are prefixes, run by run; assertions mean what the script says | `Scenario`, `ScenarioProofs` |
| Comparison (`comparison.py`) | `results` | `deep_compare`, `compare`, `compare_many` | two endpoints, either may fail; recursion on JSON | no difference missed or made up; a result per call | `Comparison`, `RpcProofs` |
| Client facade (`client.py`) | sub-clients | `wait_for_slot`, `wait_slots`, transfers, `custom_rpc` | deadline against a slot that may not move | as the waits and the helpers | partly: `Scenario`, `TxHelpers` |
| Request builder, coverage registry, suites, assertions | none shared | pure functions, one growing set | none | unit tests reach it | left out, see 6 |
| Plugins (`tests/plugins`), load test, on-chain programs (`programs/*`) | per-test tables; account data | pytest hooks; Locust tasks; instructions | none between actors | totals add up | left out, see 6 |
| Validator, docker, network | everything | external | | | environment of each module |

How they interact: the waits, the batches of `deploy_program`, the scenarios, the token helpers and the
factories all go through `wait_for_confirmation`; `RpcClient` is used directly by the tests and, through
inheritance, by `InstrumentedRpcClient`, which puts the interceptor chain around each request; the facade owns
one `RpcClient` and one solana client; the lifecycle and the node manager wait with `wait_for_health`.
Nothing is shared between threads: all concurrency is coroutines of one event loop, which interleave at each
`await`, and separate pytest workers, which meet on the ledger and in docker.

The hazards of this code, each at its line, are in `PROJECT.json` under `hazards`, with the properties that
would catch each one going wrong. Two have none, and a note says why: nothing in the repository says what a batch
answered by a single error object should give (`rpc.py:104`), or that `subscribe` ends (`ws.py:83`). A note also says
what a property leaves open of its hazard: reads that are behind (`scenarios.py:152`) and a cluster whose lifecycle
nobody holds any more (`lifecycle.py:233`).

## 2. The modules

An action is everything a coroutine does between two awaits, so that the actions of different coroutines
interleave where the event loop can interleave them. What is not under `src/` (validator, ledger, network,
docker) is an environment that may do what the harness has to expect of it; its definitions are marked
external in `PROJECT.json`.

### `Wait` - `wait.py`

Time is discrete. Each poller runs one call: `Begin` computes the deadline, `Poll` is the `while` test and the
start of an HTTP exchange, `ReceiveStatus` and `ReceiveHealth` handle an answer in the order of the code
(`confirmationStatus` before `err`), `Raise` is an exception of the client (`wait_for_health` swallows
transport errors only; `wait_for_confirmation` swallows none), `Sleep` the interval, `Expire` the TimeoutError.
`Serve` reads the state of the transaction or node when the *server* handles the request; the answer may be
received later, after the subject has moved on (`Evolve`: a processed transaction is rolled back, a node
crashes). `Latency` bounds an exchange (the httpx timeout) and `Lag` how late the event loop resumes a
coroutine.

`Confirmation` is what the rest of the package builds on: a transaction is settled once, and the call returns only
after that, or raises at any time. `Promise` in `Wait` instantiates it with the fate of the ledger (`FateOf`) and the
outcome of a wait (`ResultOf`). The modules that follow do not poll: their waits are the `Return` and `Raise` of
`Confirmation`.

### `RpcClient` - `rpc.py`

Any number of calls share one client. `Call` takes the ids and sends the first attempt: both happen before
the first suspension. `TransportError`, `Refused`, `OtherError` and `Return` are the ways an exchange ends in
`_send_with_retry`, with its two `MayRetry` tests; `Backoff` is the end of the sleep and the next attempt;
`Close` may come at any moment, after which a `post` raises. On the other side `Execute`, `Refuse` and `Drop`
treat each attempt on its own, also after the client has given up on it, so that an execution can follow a
retry. `Cancel` is the cancellation of the caller's task, by a test's time limit for one. The typed wrappers add
nothing but a method name and are one `Call` each. Backoff delays are not timed.

### `InstrumentedRpc` - `instrumented_rpc.py` over `middleware.py`, composed with `RpcClient`

The module extends `RpcClient`: `Instrumented(c)` is a `ClientStep` of it and, when the call ends in that step, the
`finally` clause around it, which hands the outcome (`ErrorData`) to the after hooks of the default chain: `Record`
(timing), `Keep` (recording, up to the cap) and `Classify` (error tables). The hooks of the default chain do not
suspend, so they belong to the same action. `batch` is inherited and runs no hook. `ResetStats` and `ResetRecords`
may come at any moment. The before hooks of the default chain do nothing; elapsed times are left out.
`MCInstrumentedRpc` gives TLC the symmetry and the view.

### `WsClient` - `ws.py`

One coroutine, one connection. `down` is the queue of messages that the client has not read: answers and
notifications together, which is the point. `SubscribeReply` and `UnsubscribeReply` take whatever is at its
head, as the code does (`response["result"]`, `bool(message.get("result", False))`). `stale` counts answers
the client has walked away from and not read yet, `astray` those it then read where it expected a notification. An
exception ends the call and nothing else: the state is `ready` again, since a caller may catch it inside the
`async with` and go on (`tests/websocket/test_ws_errors.py:31`), or let it reach `__aexit__` (`Close`). The
server may answer with an error, late, or never; the connection may break.

### `ProgramDeploy` - `programs.py` and its fixture

Fixtures deploy to one address at the same time. `Send` is one turn of the loop of `deploy_program` (or its
first or last transaction) with the preflight of `send_transaction`; the batch is awaited for in order
(`Confirmed`, `BatchDone`), and `wait_for_confirmation` appears by its result: it returns for a failed
transaction too (`Accepts`, see run `WaitFailedTx`), raises on a timeout (`WaitRaises`). `Enter` and `Abandon`
are the fixture, which reuses an executable account and swallows every exception. On the ledger a transaction
lands with or without success (`Land`) or is never included (`Expire`).

### `ProgramUpgrade` over `AtomicProgram` - the upgradeable loader of `programs.py`

Calls of `deploy_program_upgradeable` and `upgrade_program` for one program. Each sends its transactions one after
the other and awaits each (`Send`, `Confirmed`, `Raises`): create the buffer, write it chunk by chunk
(`_write_buffer`), install it. The images have different lengths, and a program keeps room for twice its first image,
so that an upgrade may be too long for it; the program's authority may be handed over, or given up, at any time
(`HandOver`). A call that raised leaves its transaction under way, which may still land.
`AtomicProgram` is the promise: the code changes in one step from one call's image to another's, at most once for a
call, under the authority it holds at that moment, and the image is whole unless a transaction of that call failed.

### `TxHelpers` over `HelperEffects` - the one-transaction helpers

Some fifteen helpers share a shape: build instructions, send one transaction, await it or not. `TxHelpers` lays out
each helper's instructions as its builder does, accounts by position (`Transfer`, `CloseAccount` ...); the external
programs execute a transaction in all of its instructions or none. `send_multi_instruction_tx` takes any list of
operations, those of the helpers and the bare `initialize_...` and compute budget instructions, in any order and
number (`Instruction`; a compute budget instruction is a number, whichever of its two kinds it is). It signs with one
key pair, so a list that creates an account, whose key would have to sign too, is refused before it is sent and is one
of the cases of `Raises`. The blockhash advances up to a bound.

A signature is what is signed, with the blockhash: equal calls under one blockhash are one transaction, and both
callers await it; a new keypair makes a call its own. An airdrop is the exception, because the node makes its
transaction: whether two equal ones are apart is not for the harness to say, so it is a constant, `AirdropsApart`. The
tests assume that they are (`tests/functional/errors/test_concurrent_writes.py:77-101`), and so does the run; the proofs
cover both answers.

`HelperEffects` tells what each helper promises by the *names* of its parameters, in one step: the operations a call
consists of (`Parts`), what one of them does (`Performed`), and all of them or nothing (`All`). The two are related in
`TxHelpers` by a refinement mapping, so that a pair of swapped accounts, a missing instruction or a double execution
would break it. Calls may share a transaction when they want the same thing (`Wanted`), whoever asks and whether or not
it waits: a list with one memo and `send_memo` of it, or, without `AirdropsApart`, a funded keypair and an airdrop to its
address. Lamports are counted for wallets only.

`HelpersAssumption` says what is asked of the helpers: accounts that there may be and amounts that are natural numbers,
in any list, also an empty one. `create_program_owned_account` takes any owner, the system and token programs included
(`tests/functional/errors/test_stress.py:139-148`): it makes a `blank` account, which a later transaction may
initialize; `TypeOK` says that an account stands blank only if it was so at the start or was asked for with that owner,
so that `create_mint` and its like leave none behind half-way. `IsLedger` is what the programs keep true of the accounts:
a token account belongs to a mint, and no more tokens are held than were issued.

### `Scenario` and `StateCapture` - `scenarios.py`, `state.py`, the waits of `client.py`

A script is a sequence of steps of the builder, run `Runs` times by one coroutine (`Start`); the context is new in
each run, `completed` and `failed` are those of the scenario and outlive it. A step is done in one action unless it
awaits: `Fund` and `Transfer` submit and wait, `WaitSlots` polls, `Snapshot` reads query by query (`Read`). The ledger
has a confirmed and a finalized state; the wait ends at the first, balances are read at the second (`Root` brings it
forward). The epoch and the transaction count of a snapshot are asked for at confirmed (`rpc.py:188-190`,
`rpc.py:353-355`), so its slot may run ahead of its balances. The count is whatever the node says, one of `Counts`: it
need not follow the ledger, as the tests know (`tests/functional/accounts/test_state_capture.py:109`,
`tests/functional/blocks/test_transaction_count.py:36`). What tells the states of the ledger apart for the properties
is a history variable of the model, the `age`: how many transactions have landed. Transactions of a run that raised
are still there in the next. `StateCapture` holds the pure part: tracking, the queries of a snapshot in order, and the
difference of two; `Put` is Python's assignment to a key of a dictionary. `Does` says, by the names in the script,
what one step does, and `Ideal` what a script has done after each of its steps: that is what runs are measured
against. `ScenarioAssumption` asks that a scenario have between one and `MaxSteps` steps, each one that a builder
makes, with amounts that are natural numbers and any count of slots (a count of zero or less is a loop of `range` that
does not poll, and raises): an empty scenario, which does nothing, and negative amounts are left out.

### `Comparison` - `comparison.py`

`compare_many` asks both sides of each call; answers, errors and exceptions arrive in any order (`Hear`), a
comparison is made and recorded when both are there (`Compare`), and the records are returned in the order asked
(`CompareMany`). `DeepCompare` is the recursive function of the code, with Python's `isinstance` (a bool is an
int) and fields that are ignored by path or by name, on all pairs of values at all paths (`Pairs`). It gives the set of
the differences: their order is in the report only. The property judges it against another definition, the set of
what a value says at which path (`Says`, `Agree`). `ComparisonAssumption` says what JSON is: values of finite depth,
dicts whose keys are names and lists whose items have a name each in the path (`Item`), and that no ignored field is an
item of a list, as none of `DEFAULT_IGNORE_FIELDS` is.

### `ValidatorLifecycle` - `ValidatorLifecycle` and `ValidatorProcess` of `lifecycle.py`

Each lifecycle belongs to one coroutine, and all of them compute the same container name and publish the same
port, as instances with the default configuration do. `op` is the method under way (`start`, `stop`, `restart`,
the entry and the exit of a `with`, a `stop` on the handle inside its body), `pc` what it awaits, `handle` the
`ValidatorProcess` it works with; `process` is `_process`, and `stopped` holds the handles with `_stopped` set.
A docker command is awaited while docker works: `Create` and `Launch` are the two halves of `docker run -d` (a
container whose port cannot be published stays behind, created), `Halt` is `docker stop`, `Remove` is `docker rm -f`;
each may fail, and only the exit code of `run` is looked at. `wait_ready` appears by its result: it returns when
something answers on the port (`Ready`), or raises (`ReadyRaises`, in `__aenter__`, after which `__aexit__` is not
called). A container may `Die` at any moment. `logs` and `is_running` change nothing.

### `Cluster` - `node.py`, `ComposeLifecycle` of `lifecycle.py`, the fixture of `tests/integration`

Users of one event loop share one docker. A lifecycle runs `docker compose -p karstflow-test`, a fixture
(`start_cluster`) the same file without `-p`, a single node `docker run` or a local process (`StartLocal`). The
compose file fixes container names and ports, so a service has at most one container, whose `project` says whose it
is. A command works through the services one by one (`LaunchNode`, `RemoveNode`, and their failures), with other users'
actions in between; only a lifecycle looks at its exit code. The wait polls the ports in turn (`Poll`), those the code
computes (8899 + 10 i for a lifecycle, 8899 + 100 i for a fixture) against those the file publishes. `NodeHandle.stop`
waits for a local process with a call that blocks the event loop (`Blocked`). `ClusterHandle.stop` appears as `compose
down`; its other branch, the gather over handles of single nodes, concerns clusters made by `from_urls` only, whose
handles have nothing to stop.

## 3. The runs

Deadlock is checked in all of them; a finished system stutters through `Finished` or `Done`.

| Run | Shows |
|---|---|
| `Wait` | A confirmation that is reported is never undone by a rollback (`ConfirmationStable`); a TimeoutError after a proper answer misses only what was settled within one interval, one exchange and one late resumption of the deadline (`NoMissedSettlement`); no wait outlives its timeout by more (`ReturnsInTime`); the confirmation waits do what their callers rely on (`ImplementsConfirmation`). |
| `RpcClient` | An executed attempt is retried only if its answer was lost, and a batch never (`ReexecutedOnlyAfterLoss`); a call fails for want of an answer only after the whole budget (`BudgetSpent`); ids are unique over concurrent calls and batches (`IdsDistinct`); responses of a batch are returned in request order (`BatchInOrder`); every call ends (`CallsEnd`). |
| `InstrumentedRpc` | Every instrumented call that is over is counted once by the timing table, however often it was sent and however it ended (`StatisticsMatch`); recorded once, with the error its own call handed to the hooks, unless the cap was reached (`RecordsMatch`); and classified alike in both error tables (`ErrorsMatch`), with resets in between. |
| `WsClient` | Each answer under way is awaited for or counted as left behind (`AnswersAccounted`); while none is left behind, nor went astray, the client's table is the server's, also after exceptions that the caller caught (`InStep`); notifications arrive in order, and those that do not reach the caller went one of the two known ways (`NoSilentLoss`); `close` ends though the server is silent (`CloseEnds`). |
| `ProgramDeploy` | At most a batch of each deployment in flight (`WithinBlockBudget`; nothing bounds the sum over parallel ones, in the code or here); finalize after every write is settled (`StagesInOrder`); a deployment that returns, none of whose transactions failed, left a complete executable program, with other deployers at work (`DeployedUnlessFailureHidden`); every deployment ends (`DeployEnds`). |
| `ProgramUpgrade` | Deployments and upgrades replace one whole image by another, each at most once and under the authority of the moment, although an image crosses the network in many transactions and one that timed out may still land (`ImplementsAtomicProgram`). |
| `TxHelpers` | Each helper does what its parameters say, whole or not at all, at most once, and before it returns unless the ledger refused it or no confirmation was asked for (`ImplementsHelperEffects`); no account is left blank that was not asked for so (`TypeOK`). |
| `ValidatorLifecycle` | A container that exists is reachable from the lifecycle that started it, unless docker failed to launch or remove it (`OwnedUnlessFailed`); although readiness is polled on a port, the validator handed to the body of a `with` is the only one there (`ReadyIsOwn`); once its body has begun, a `with` removes its container, whatever the body does to it (`BodyCleansUp`). |
| `Cluster` | What exists in docker can be stopped by somebody, unless a command or the fixture's wait failed (`NothingForgotten`); the body of a compose lifecycle has its own nodes, all of which answered (`BodyHasOwnNodes`). |
| `Scenario` | As far as a run has come, its context and its assertions are what the script says, if its transactions succeed and its reads are not behind (`RunMatchesIdeal`); the records of completed and failed steps read as prefixes, run by run (`StepsAccounted`); the difference of two snapshots, neither of which was overtaken while it was read, is what the names gained and lost in the finalized ledger, and `has_changes` tells of it, of the slot or of the node's count, whatever that counts (`DiffShowsScenario`); every run ends (`RunEnds`). |
| `Comparison` | A record per call, with its own answers, in the order asked; it matches exactly if the sides failed alike or agree on every field that is not ignored (`VerdictSound`). |
| `WaitFailedTx` | *Violation.* `wait_for_confirmation` returns normally for a transaction that failed on chain and is first seen confirmed. |

The violation run is a disagreement between the code and a docstring of it; `findings` in `PROJECT.json` quotes the
lines. It is kept because most of the package builds on that wait: it is the reason why `ProgramDeploy`,
`ProgramUpgrade`, `TxHelpers` and `Scenario` say "unless a transaction failed".

Other things met while modelling, which the modules contain and no run is spent on:

* `wait_for_health` lets `httpx.RemoteProtocolError` escape (`wait.py:32` names three kinds of error, not this one),
  though it says it polls until healthy or timed out (`wait.py:15`). `Raise` in `Wait`.
* `unsubscribe` returns False for a subscription the server ended at its request if a notification comes before the
  acknowledgement (`ws.py:134` against `ws.py:112`). `UnsubscribeReply`.
* `deploy_program` returns a program with a chunk missing when a write failed on chain (`programs.py:346` against
  `programs.py:291`), and the fixture around it returns an unusable program after a deployment that was cut short
  (`test_syscall_memory_deep.py:27` against its line 19). `Accepts` and `Abandon` in `ProgramDeploy`.
* An RPC error that `request` raises is classified under -1 and not under its code, which only `request_raw` leaves in
  the response (`instrumented_rpc.py:66` against `middleware.py:161`). `ErrorData` in `InstrumentedRpc`.
* The usage in the docstring of `state.py:60-65` (a snapshot, an operation, a snapshot, and the difference of its
  amount), and `test_diff_detects_balance_change` after a `wait_for_confirmation`
  (`tests/functional/accounts/test_state_capture.py:57-65`), expect the amount to show. The wait ends at confirmed
  (`wait.py:68`), while balances are read without a commitment, hence at finalized (`state.py:95`, `client.py:33`,
  `tests/conftest.py:60`): the difference may still be 0. `DiffShowsScenario` is therefore about the finalized ledger,
  and the custom step `Snapshot` in `Scenario` takes such a snapshot.
* Whether the airdrops of `test_concurrent_writes.py:77-101` (three equal ones in parallel, of which at least two must
  be credited) are several transactions is up to the node. On one that builds the same transaction for each, they
  would be credited once and that test would fail: with `AirdropsApart = FALSE` the promise lets them be one. No code
  of the harness makes equal airdrops differ.
* An `async with ValidatorLifecycle()` or `ComposeLifecycle()` whose `wait_ready` raises in `__aenter__` leaves what it
  started running: `__aexit__` is not called, and if the lifecycle has no other name nobody can call its `stop`
  (`lifecycle.py:178-181`, `lifecycle.py:240-244`). `OwnedUnlessFailed` and `NothingForgotten` say that the lifecycle
  still knows what it started, and count it as responsible; they do not say that somebody still holds the lifecycle.
* `ComposeLifecycle` awaits ports 8899 + 10 i (`lifecycle.py:233`) while the compose file publishes 8899 + 100 i, so
  that a second node answers only if something else is there. `Ports` in `Cluster`.
* `start_cluster` looks at no exit code, so the fixture may use a cluster that another project started. `Up` in
  `Cluster`.
* An empty set of ignored fields falls back to the default set, and two endpoints that fail with the same code, both
  unreachable for one, count as a match (`comparison.py:203`, `comparison.py:217`). `Default` and `Matches`.
* `deep_compare` of True with 1 matches and of 1 with True does not, since a bool is an int in Python
  (`comparison.py:140`). `IsInstance`, and the clause of `Agree` for it.

### Bounds

* `Wait`: one poller of each kind (they share nothing but the clock, and the proofs cover any number),
  timeout 4, all other delays 1, one start time. Several polls fit before the deadline, an exchange can cross
  it, and every delay can be at its longest. The deadline is relative to the start, so one start time loses nothing.
* `RpcClient`: two calls, one retry, batches of two: the least with an interleaving, a retry that may follow
  an execution, and an order to restore. The proofs cover every size.
* `InstrumentedRpc`: the calls of `RpcClient` with batches of one, two methods (so that calls agree or differ in
  theirs) and a cap of one record, which the second call exceeds unless a reset came between. Calls and methods are
  interchangeable (symmetry), and states that differ only in ids, histories and given-up attempts, which no guard
  and no property of this module reads, are explored once (the view `Seen`).
* `WsClient`: three requests, three notifications, `count` up to two: enough for an answer left behind by one
  call, met by a second, while a third subscription is open, and for a notification before each. Subscription ids
  start at 1, so that `True`, which is 1 as a dictionary key, can collide with one. The proofs cover any numbers.
* `ProgramDeploy`: two fixtures, three chunks in batches of two: a full batch and a partial one.
* `ProgramUpgrade`: three calls, of one, two and three chunks: a deployment, whose program has room for two; an
  upgrade signed by another authority that just fits; and one that is too long. The proofs cover any calls.
* `TxHelpers`: three calls of any helpers (interchangeable, symmetry) on a ledger with a wallet, a mint and two
  token accounts or on what earlier calls made, two blockhashes: two equal calls and a third that depends on them,
  one after the other or side by side, under one blockhash or two. The requests of `MCTxHelpers` are split so that
  those about accounts in general follow a call that made one. Among them are accounts of the token and the system
  program without contents, and lists: one that sends what `send_memo` would, so that one transaction can serve two
  different helpers; one that initializes an account made blank before; one that fails half-way. `AirdropsApart` is
  TRUE. The proofs cover any calls, requests and lists, and both values of `AirdropsApart`.
* `ValidatorLifecycle`: two lifecycles, three containers in all: one can be started, removed and replaced, and the
  other lifecycle can take the name in between or hold it. The proofs cover any number of both.
* `Cluster`: two lifecycles of one project (symmetry), a fixture and a single node, over two services: one project
  used twice, two projects in conflict, and a port that two commands want. The lifecycles await 8899 and 8909,
  where the file publishes 8899 and 8999: the single node at 8909 is what lets them become ready. The proofs cover
  any users and services.
* `Scenario`: two scripts that between them use every step of the builder, and one that waits for a slot of the past,
  each run twice, two slots, two polls for each slot asked for, a node that counts its transactions as 0 or 1 whatever
  lands: transactions of the first run may land in the second,
  whose steps find the records of the first. `MaxSteps` is 8, the length of the longest script. The proofs cover
  any scripts, any number of runs, any fee and any number of polls.
* `Comparison`: two calls; one answered by any pair of some fifty values (the leaves, lists of up to two, dicts with
  ignored, nested and disjoint keys), an error or an exception on each side, the other by a number or not at all. The
  proofs cover any calls and values.

### Fairness

* `RpcClient`: a coroutine that can run runs, and an exchange ends by an answer or by the httpx timeout that
  every client is built with (`rpc.py:31-37`). Nothing is assumed of the server.
* `WsClient`: only the steps of `_unsubscribe` and `close` are fair: the coroutine runs, and
  `asyncio.wait_for` fires after 5 s (`ws.py:134`). `subscribe` has no time limit, and no fairness.
* `ProgramDeploy`: a coroutine that can run runs; each `wait_for_confirmation` ends because of its own timeout
  (run `Wait`). Nothing is assumed of the ledger.
* `Scenario`: the same: the coroutine proceeds when it can, and a wait that gets no answer raises at its timeout. The
  polls for a slot are counted, so nothing is assumed of the ledger, which may stop finalizing.
* `ValidatorLifecycle`: the body of a `with` ends, a coroutine that can run runs, and a docker command that stops
  or removes a container ends, in success or not. The last is an assumption on docker: the code sets no time limit
  (`lifecycle.py:62-77`).
* `Wait` needs none: its time bounds are safety properties. `ProgramUpgrade`, `TxHelpers`, `Comparison` and
  `Cluster` state safety only; `InstrumentedRpc` ends its calls as `RpcClient` does.

## 4. What is proved

TLAPS checks the following for every value of the constants that satisfies the module's named assumption.

* **`WaitProofs`**: `TypeCorrect`, `ConfirmationIsStable`, `TimeoutIsHonest`, `WaitIsBounded`, for any number
  of pollers, any timeout, interval, latency and lag (`WaitAssumption`). The properties are not inductive: the
  invariant `IInv` adds, per poller, which replies its kind can hold (`KindOK`), where its timer may lie with
  respect to the clock and the deadline (`Timing`), that a proper answer held in `reply` was unsettled no longer
  ago than one exchange and one sleep (`Honest`), and that a confirmed answer means a confirmed transaction
  (`Stable`). The argument is local: a step of one poller keeps its own part (`LocalInv`) and does not touch
  another's (`LocalFrame`, `UntouchedInv`); the clock is the only step that concerns all (`TickInv`). `Refinement`
  maps every step to one of `Confirmation` or a stutter: a wait that finishes in success holds a reply that
  `Stable` says is still true.
* **`RpcProofs`**, first the client: `TypeCorrect`, `RetriesAreJustified`, `BudgetIsSpent`, `IdsAreDistinct`,
  `BatchReturnsInOrder`, for any number of calls, retries and any batch size (`RpcAssumption`). The invariant relates
  each attempt to where it is: not yet sent, on its way or executed, but not both (`ServerSide`); over and lost or
  refused, but not both (`AttemptsEnded`); within the budget (`Budget`). For the ids, `IdsUsed` bounds every id by the
  shared counter. The structure is that of `WaitProofs`. For the order, `Sequenced` says that the ids of a call follow
  each other, also when other calls draw from the counter, and that a reply is a rearrangement of the answers to
  them; of all rearrangements only one is sorted, and it is the one in the order of the requests.
* **`RpcProofs`**, then the instrumented client: `Transparent` says that it implements `RpcClient`, so all of the
  above holds for it; `TablesKeepTypes`, `StatisticsAreExact`, `RecordsAreExact` and `ErrorsAreExact` hold for any
  number of calls and methods and any cap (`InstrumentedAssumption`: there are finitely many calls). The conjunction
  `IInvTables` is inductive once `TypeOK` of the client is known: every step is a reset, leaves tables and finished
  calls alone (`Quiet`), or counts the one call that has just ended (`Counts`), and then each count grows by one with
  the set it counts (`OneMore`, from the theorems on finite sets).
* **`RpcProofs`**, then `Comparison`: `DeepCompareDecides` and `DifferencesAreReal`, about `deep_compare` on any two
  values, and `VerdictsAreSound` (`VerdictSound`), for any number of calls, whatever is answered and in whatever order
  (`ComparisonAssumption`). That the two recursive functions of the module are what their definitions say is itself a
  lemma (`FixedPoint`): a recursion whose body looks only at what has a lower rank, here a lower depth, has a solution,
  built rank by rank. Then `DeepCompare` and `Says` are unfolded one level at a time (`DiffsNested`, `SaysTree` ...).
  What a value says lies at its path or below one of its branches (`SaysBelow`), and the path tells which
  (`FromBranch`); so two nested values say the same exactly if every key that is compared is in both and says the same
  there (`SameBelow`, `SameEach`), and a difference of a branch is one of the whole (`LiftsTrue`). The induction is over
  the depth of the values (`ByDepth`). The invariant `IInvComparison` says of the records that each is made of two
  answers that stand in `heard`, for a call that no other record has, and of the list returned that nothing can follow.
* **`WsClientProofs`**: `TypeCorrect`, `AnswersAreAccounted`, `ClientInStep`, `NothingIsLostSilently`, for any number
  of requests, notifications and any first id (`WsAssumption`). The invariant has a part for each idea: `Control`
  (what `close` still has to give up is what is left of the table), `Requests` (a request is newer than those before
  it, so that the server's ids stay below it), `Counting` (`AnswersAccounted`, and an upper bound for a connection
  that broke), `Notes` (delivered, collected and queued notifications are apart and follow each other in the order
  sent) and `Agreement` (while no answer is left behind or astray, at most one request or answer is under way, it is
  that of the present call, and says what the server did for it). Each part is kept by a lemma of its own. That taking
  the head of the queue takes away exactly one answer is shown by a bijection between the answers of the queue and
  those of its tail (`CountTail`).
* **`ProgramDeployProofs`**: `TypeCorrect`, `StagesAreOrdered`, `CompleteUnlessFailed`, `BudgetIsKept`, for any
  number of deployers of one address, any number of chunks and any batch size (`DeployAssumption`). Per deployer,
  `Position` says that what it has sent is a prefix of its transactions, `Accounted` that each of them is still
  in `pending` or settled, `Batched` that `pending` holds transactions of the current stage and at most a batch of
  them, `Landed` that what succeeded is on the ledger for good. The budget follows because the unsettled
  transactions are among the elements of `pending`, whose number the theorems on finite sets bound by its length.
* **`ProgramUpgradeProofs`**: `TypeCorrect` and `Refinement` (`ImplementsAtomicProgram`), for any calls, images and
  keys (`UpgradeAssumption`). A call sends one transaction at a time, so all before the present one are settled
  (`SentIsCurrent`): when the last one installs the buffer, every chunk has been written unless one failed
  (`WholeUnlessFailed`). That is what `AtomicProgram` requires of the one step in which the code changes
  (`LandMaps`); all other steps stutter or end a call (`EndMaps`).
* **`DockerProofs`**, for `ValidatorLifecycle`: `TypeCorrect`, `NothingIsLost`, `ReadinessIsOwn`, for any number of
  lifecycles and containers (`LifecycleAssumption`). The core is `OneName`: at most one container exists at a time,
  since the name is reserved until it is removed. `Apart` says that no two lifecycles may touch the same container,
  and `Launching` and `Holding` say how far a command has brought the container it is about. Together they make it
  impossible for `start` to overwrite the handle of a container that still exists.
* **`DockerProofs`**, for `Cluster`: `NothingIsForgotten` and `BodyIsOwn`, for any number of users of each kind and
  any services (`ClusterAssumption`). The invariant names, for each container of a service, a user who answers for it
  (`Covers`): one whose `up` has come past it, or whose `down` has not come to it yet, or who has a handle or a
  failure on record. A step of a user keeps what others cover (`CoverKept`) and covers what it makes (`CoverMade`).
* **`HelperProofs`**: `TypeCorrect` and `KeepsThePromise` (`ImplementsHelperEffects`), for any calls, any requests and
  lists of them, any first ledger, any number of blockhashes, and whether or not the node keeps equal airdrops apart
  (`HelpersAssumption`). Four groups of lemmas come before the steps. What a transaction does: operation by operation,
  the instruction laid out by position has the outcome that the names of the parameters tell (`InstructionPerforms`);
  by induction over a list, its instructions one after the other have that of its parts (`RunsAll`); and helper by
  helper, a message has the effect of its request (`ExecutesEffect`; an account that is created and initialized is one
  that was made with its contents). What an effect keeps: `IsLedger`, counting tokens one by one, where minting and
  burning change the supply and one holder by the same number and a transfer moves it between two holders
  (`EffectKeeps`, from the theorems on finite sets, and `AllKeeps` by induction over a list); and it makes no blank
  account (`NoBlanks`) but one asked for so (`BlanksAsked`). What a message tells: equal messages, of airdrops that the
  node did not keep apart (`Own`), are wanted alike (`MessageTells`), so those who share a transaction may share its
  effect. And what only `Send` adds to: the calls that have sent something, and under which
  signature (`Quiet`, `SendAdds`). The invariant `IInv` adds to `TypeOK` where a call stands. Then a landing transaction
  settles, in one step, all calls that sent it (`LandSettles`), and a call that sends what has landed already joins them
  (`SendJoins`).
* **`ScenarioProofs`**: five safety theorems, for any scripts, any number of runs, any fee (`ScenarioAssumption`).
  `RunsInOrder` places a run in its script (`RunOK`). `RecordsReadAsPrefixes` is `StepsAccounted`: the witness is
  where each run stopped, of which a step changes only the last entry, and a few lemmas say how a concatenation of
  many sequences (`FlattenSeq`) grows with the last of them. `RunsKeepApart` is the type invariant and what the other
  two rest on (`SystemInv`): the key pairs of a run are its own and distinct, a transaction pays an address of its own
  run, nothing is where no transaction has put it, and a run waits for the transaction of its own step.
  `RunsDoAsWritten` is `RunMatchesIdeal`: while the present run has had no exception, no failed transaction and no
  outdated read (`Honest`), the confirmed balances at the addresses its names stand for, its notes and its signatures
  are those of `Ideal` as far as the run has come (`IdealInv`, whose `Expected` adds the transaction under way once it
  has landed). A late transaction of an earlier run does no harm since it concerns other addresses.
  `DiffsTellTheLedger` is `DiffShowsScenario`: a snapshot is read in several awaits, so `ShotsInv` says of the one
  under way that it has noted exactly what was asked so far (`ReadOK`), and that its values are those of one ledger if
  the node has not moved since its first query; of finished ones, that they are complete and that what they track only
  grows (`FinishedOK`, `TrackedOK`); and of two states of the ledger, that their age tells them apart (`PastOK`),
  which is a history of the model and nothing that a node answers. There is one lemma for each kind of step. Where
  these need induction (`Ideal` and the folds are recursive functions) it is over a set of naturals (`SetInduction`).

* **How far liveness goes.** Under fairness nothing can be proved here, but that there is no way round in circles can,
  and it is what the code contributes: the fairness only says that whoever waits is resumed, and that docker commands
  and the bodies of a `with` end. Each of the five liveness properties has such a theorem, an action property by which
  every step of the actor uses something up and no step of anybody else gives it back. `CallsOnlyAdvance` and
  `CallsAreShort`: a call has at most `2 * MaxRetries + 3` steps, two per attempt. `DeploysOnlyAdvance` and
  `DeploysAreShort`: a deployment has at most three for each transaction, and two more. `CloseOnlyAdvances`: `close`
  has two for each subscription, of which there are finitely many (`TableIsFinite`), and one more.
  `CleanUpOnlyAdvances`: once the body of a `with` has begun, its lifecycle has at most four steps to the removal of
  its container and takes no others, and what is removed stays removed. `RunsOnlyAdvance`: a run of a scenario goes to
  a later step, to what a step waits for, or to the next of a finite number of polls or queries, and never back. The
  first four count with a number, the last by the place in the script first and the polls or queries second.

Only model-checked are the liveness properties themselves (`CallsEnd`, `CloseEnds`, `DeployEnds`, `BodyCleansUp`,
`RunEnds`), which are beyond the prover. Every safety property and every refinement that a passing run checks is proved.

## 5. What could follow

A `RpcClient` on whose retries the polls of `Wait` run, so that one deadline is followed through both. More runs would be
needed for a wait with several transactions at once; nothing in the repository does that.

## 6. Not modelled, and why

* **RPC client, in part**: delays of the backoff are not timed, since no deadline of this client depends on them; the
  typed wrappers differ by a method name and the shape of their parameters.
* **Client facade, in part**: the read-only queries, `is_healthy`, `custom_rpc` and `batch` are single requests of
  `RpcClient` and change nothing here.
* **`programs.py`**: `_build_upg_close_ix` and `build_compute_budget_set_price` build one instruction each,
  `load_program_keypair` reads a file.
* **`node.py` and `lifecycle.py`**: the cancellation of a task between two docker commands; `logs` and `is_running`
  change nothing; `from_urls` makes handles of nodes that run
  elsewhere, which have nothing to stop, so the `gather` over them has no step in which it could fail.
* **Request builder, coverage registry, suites and assertions**: functions of their arguments, or a set that only
  grows, with no other actor: unit tests reach them entirely.
* **Plugins**: the timing plugin fills two tables in pytest's own order, from one caller.
* **On-chain programs** (`programs/*`): a few lines that the validator runs one instruction at a time.
* **Load test**: input and output only.
* **Key generation, signatures, the byte layout of instructions, formatting of reports, logs and error texts**: a model
  of them would repeat the code.
* **The validator, docker and the network**: what is under test, or outside; they are the environment of each module
  and do whatever the harness has to expect of them.
