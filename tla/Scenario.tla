------------------------------ MODULE Scenario ------------------------------
(***************************************************************************)
(* The scenario runner (scenarios.py): a script of steps, run more than    *)
(* once, against a ledger where transactions land late, fail or are lost,  *)
(* and where balances are read at finalized while wait_for_confirmation    *)
(* (module Confirmation) ends at confirmed.  Custom steps take snapshots   *)
(* (StateCapture) and wait by the client facade (client.py).               *)
(***************************************************************************)
EXTENDS StateCapture

CONSTANTS
    Scripts,    \* the scenarios: sequences of steps
    MaxSteps,   \* bound: the length of the longest of them
    Runs,       \* how often one of them is run
    Fee,        \* what a transfer costs its sender
    PollsPer,   \* polls for a slot: 10, or timeout / interval of the facade
    MaxSlot,    \* bound: where the count of slots stops
    Counts      \* bound: what the node may say of its number of transactions

Checks == {"assert_balance", "assert_balance_decreased", "assert_balance_increased",
           "capture_balance"}
Operations == Checks \cup {"add_keypair", "fund", "transfer", "wait_slots",
                           "facade_wait_slots", "snapshot"}

(* What the builder can add to a scenario: a known step, amounts that are  *)
(* numbers of lamports, and any count of slots.                            *)
IsStep(s) ==
    /\ s.do \in Operations
    /\ s.do \in {"fund", "transfer"} => s.n \in Nat
    /\ s.do \in {"wait_slots", "facade_wait_slots"} => s.n \in Int

ASSUME ScenarioAssumption ==
    /\ Runs \in Nat /\ Fee \in Nat /\ PollsPer \in Nat \ {0} /\ MaxSteps \in Nat /\ MaxSlot \in Nat
    /\ Counts \subseteq Nat /\ Counts # {}
    /\ \A s \in Scripts : s \in Seq(Range(s)) /\ Len(s) \in 1..MaxSteps
    /\ \A s \in Scripts : \A i \in 1..Len(s) : IsStep(s[i])

VARIABLES
    script,      \* the steps of the scenario
    run, pos,    \* which run, and which of its steps
    pc,          \* over, step, wait (for a confirmation), poll, read
    how,         \* how the run ended: none, returned, raised
    ctx,         \* ScenarioContext; shots: the snapshots of its custom steps
    completed,   \* completed_steps
    failed,      \* failed_step
    job,         \* of the step under way: polls left, slot awaited, queries left
    ledger,      \* confirmed: balances, and history: transactions landed
    final,       \* the same, finalized
    slot,        \* the finalized slot
    txs,         \* the transactions, by run and step
    fresh        \* history: no read of this run was behind the confirmed ledger

vars == <<script, run, pos, pc, how, ctx, completed, failed, job, ledger, final, slot, txs, fresh>>
node == <<ledger, final, slot>>

Faucet == <<0, 0>>
Addresses == (1..Runs) \X (1..MaxSteps)    \* of the keypair made by a run's step

NoJob == [polls |-> 0, target |-> 0, queries |-> <<>>]

NewContext ==
    [keys |-> <<>>, balances |-> <<>>, signatures |-> <<>>, tracked |-> <<>>, shots |-> <<>>]

Init ==
    /\ script \in Scripts
    /\ run = 0 /\ pos = 1 /\ pc = "over" /\ how = "none"
    /\ ctx = NewContext
    /\ completed = <<>> /\ failed = "None"
    /\ job = NoJob
    /\ ledger = [bal |-> [a \in Addresses |-> 0], age |-> 0]
    /\ final = ledger /\ slot = 0
    /\ txs = <<>>
    /\ fresh = TRUE

-----------------------------------------------------------------------------
(* The ledger.  Balances may come back to what they were; the age tells    *)
(* whether anything landed meanwhile.  It is not what a node answers to    *)
(* getTransactionCount: the tests of state.py and of that method say that  *)
(* a node need not count real transactions, so Read takes any number.      *)

Credited(L, from, to, n) ==
    [bal |-> [a \in Addresses |->
        L.bal[a] + (IF a = to THEN n ELSE 0) - (IF a = from THEN n + Fee ELSE 0)],
     age |-> L.age + 1]

(* The faucet signs an airdrop; it always has enough.                      *)
Covered(t) == t.from # Faucet => ledger.bal[t.from] >= t.n + Fee

Land(k) ==
    /\ txs[k].status = "sent"
    /\ \/ /\ Covered(txs[k]) /\ txs' = [txs EXCEPT ![k].status = "ok"]
          /\ ledger' = Credited(ledger, txs[k].from, txs[k].to, txs[k].n)
       \/ txs' = [txs EXCEPT ![k].status = "failed"] /\ ledger' = [ledger EXCEPT !.age = @ + 1]
    /\ UNCHANGED <<script, run, pos, pc, how, ctx, completed, failed, job, final, slot, fresh>>

Expire(k) ==
    /\ txs[k].status = "sent"
    /\ txs' = [txs EXCEPT ![k].status = "dropped"]
    /\ UNCHANGED <<script, run, pos, pc, how, ctx, completed, failed, job, node, fresh>>

(* A slot is finalized, and all that was confirmed up to it.               *)
Root ==
    /\ slot' = IF slot < MaxSlot THEN slot + 1 ELSE slot
    /\ final' = ledger
    /\ UNCHANGED <<script, run, pos, pc, how, ctx, completed, failed, job, ledger, txs, fresh>>

-----------------------------------------------------------------------------
(* Scenario.run.                                                           *)

step == script[pos]
here == <<run, pos>>

Start ==
    /\ pc = "over" /\ run < Runs
    /\ run' = run + 1 /\ pos' = 1 /\ pc' = "step" /\ how' = "none"
    /\ ctx' = NewContext /\ fresh' = TRUE
    /\ UNCHANGED <<script, completed, failed, job, node, txs>>

(* Mutation: a step is recorded when it starts.                            *)
RecordedEarly == Append(completed, script[IF pos < Len(script) THEN pos + 1 ELSE pos].do)
Recorded == Append(completed, step.do)

Complete(c) ==
    /\ ctx' = c /\ job' = NoJob /\ completed' = Recorded
    /\ IF pos = Len(script) THEN pc' = "over" /\ how' = "returned" /\ UNCHANGED pos
                           ELSE pc' = "step" /\ pos' = pos + 1 /\ UNCHANGED how
    /\ UNCHANGED failed

FailStep(c) ==
    /\ ctx' = c /\ job' = NoJob /\ failed' = step.do
    /\ pc' = "over" /\ how' = "raised"
    /\ UNCHANGED <<pos, completed>>

Suspend(where, c) ==
    /\ pc' = where /\ ctx' = c
    /\ UNCHANGED <<pos, how, completed, failed>>

Known(name) == name \in DOMAIN ctx.keys
WithKey(name) == [ctx EXCEPT !.keys = Put(@, name, here)]
Note(c, name, n) == [c EXCEPT !.balances = Put(@, name, n)]

(* add_keypair, and fund with nothing to fund.                             *)
AddKeypair ==
    /\ pc = "step" /\ step.do \in {"add_keypair", "fund"}
    /\ step.do = "fund" => step.n = 0
    /\ Complete(Note(WithKey(step.name), step.name, 0))
    /\ UNCHANGED <<script, run, node, txs, fresh>>

Submit(from, to, n) ==
    txs' = Put(txs, here, [status |-> "sent", from |-> from, to |-> to, n |-> n])

Fund ==
    /\ pc = "step" /\ step.do = "fund" /\ step.n > 0
    /\ Submit(Faucet, here, step.n)
    /\ Suspend("wait", WithKey(step.name))
    /\ UNCHANGED <<script, run, job, node, fresh>>

Transfer ==
    /\ pc = "step" /\ step.do = "transfer" /\ Known(step.from) /\ Known(step.to)
    /\ Submit(ctx.keys[step.from], ctx.keys[step.to], step.n)
    /\ Suspend("wait", ctx)
    /\ UNCHANGED <<script, run, job, node, fresh>>

(* Mutation: a TimeoutError of the wait is swallowed.                      *)
AcceptsSent(status) == TRUE
Accepts(status) == status \in {"ok", "failed"}

(* The signature is noted, and for fund the amount that was asked for.     *)
Confirmed ==
    /\ pc = "wait" /\ Accepts(txs[here].status)
    /\ LET signed == [ctx EXCEPT !.signatures = Append(@, here)] IN
         Complete(IF step.do = "fund" THEN Note(signed, step.name, step.n) ELSE signed)
    /\ UNCHANGED <<script, run, node, txs, fresh>>

Abs(n) == IF n < 0 THEN -n ELSE n

(* The condition of an assertion on a balance, given the noted one.        *)
Holds(s, actual, previous) ==
    CASE s.do = "assert_balance" -> Abs(actual - s.n) <= s.tolerance
      [] s.do = "assert_balance_decreased" -> previous - actual >= s.n
      [] s.do = "assert_balance_increased" -> actual - previous >= s.n
      [] s.do = "capture_balance" -> TRUE

Check ==
    /\ pc = "step" /\ step.do \in Checks /\ Known(step.name)
    /\ LET addr == ctx.keys[step.name]
           actual == final.bal[addr]
       IN  /\ fresh' = (fresh /\ actual = ledger.bal[addr])
           /\ IF Holds(step, actual, ValueAt(ctx.balances, step.name, 0))
                THEN Complete(Note(ctx, step.name, actual))
                ELSE FailStep(ctx)
    /\ UNCHANGED <<script, run, node, txs>>

(* wait_slots of the scenario polls 10 times a slot, that of the facade    *)
(* until its deadline whatever the number of slots.                        *)
WaitSlots ==
    /\ pc = "step" /\ step.do \in {"wait_slots", "facade_wait_slots"}
    /\ job' = [job EXCEPT !.polls = IF step.do = "wait_slots" THEN step.n * PollsPer ELSE PollsPer,
                          !.target = slot + step.n]
    /\ Suspend("poll", ctx)
    /\ UNCHANGED <<script, run, node, txs, fresh>>

(* Mutation: the loop has no limit.                                        *)
PollsForever == job
PollsLess == [job EXCEPT !.polls = @ - 1]

Poll ==
    /\ pc = "poll"
    /\ CASE job.polls <= 0   -> FailStep(ctx)
         [] job.polls > 0 /\ slot >= job.target -> Complete(ctx)
         [] OTHER -> job' = PollsLess /\ UNCHANGED <<pc, ctx, pos, how, completed, failed>>
    /\ UNCHANGED <<script, run, node, txs, fresh>>

(* A custom step that tracks a name and takes a snapshot, query by query.  *)
Snapshot ==
    /\ pc = "step" /\ step.do = "snapshot" /\ Known(step.name)
    /\ LET tracked == Track(ctx.tracked, step.name, ctx.keys[step.name])
           shot == EmptyShot(tracked, final)
       IN  /\ job' = [job EXCEPT !.queries = Queries(tracked)]
           /\ Suspend("read", [ctx EXCEPT !.tracked = tracked, !.shots = Append(@, shot)])
    /\ UNCHANGED <<script, run, node, txs, fresh>>

(* Epoch info and count are asked for at confirmed, whose slot is not      *)
(* behind the finalized one; balances and accounts at finalized.           *)
Read ==
    /\ pc = "read"
    /\ \E at \in slot..MaxSlot, n \in Counts :
       LET i == Len(ctx.shots)
           shot == Noted(ctx.shots[i], Head(job.queries), final, at, n)
           begun == IF Head(job.queries) = <<"epoch">> THEN final ELSE shot.from
           c == [ctx EXCEPT !.shots[i] = [shot EXCEPT !.from = begun, !.upto = final]]
       IN  IF Len(job.queries) = 1 THEN Complete(c)
           ELSE Suspend("read", c) /\ job' = [job EXCEPT !.queries = Tail(@)]
    /\ UNCHANGED <<script, run, node, txs, fresh>>

(* A name that no step has put into the context.                           *)
KeyError ==
    /\ pc = "step"
    /\ \/ step.do = "transfer" /\ ~(Known(step.from) /\ Known(step.to))
       \/ step.do \in Checks \cup {"snapshot"} /\ ~Known(step.name)
    /\ FailStep(ctx)
    /\ UNCHANGED <<script, run, node, txs, fresh>>

(* By then fund has put its keypair into the context; a snapshot that is   *)
(* not complete is not returned.                                           *)
Aborted ==
    IF pc = "step" /\ step.do = "fund" THEN WithKey(step.name)
    ELSE IF pc = "read" THEN [ctx EXCEPT !.shots = Front(@)]
    ELSE ctx

(* A request that fails, or a wait that raises.                            *)
Raise ==
    /\ pc \in {"step", "wait", "poll", "read"}
    /\ ~(pc = "step" /\ step.do = "add_keypair")
    /\ FailStep(Aborted)
    /\ UNCHANGED <<script, run, node, txs, fresh>>

Proceed ==
    \/ AddKeypair \/ Fund \/ Transfer \/ Confirmed \/ Check
    \/ WaitSlots \/ Poll \/ Snapshot \/ Read \/ KeyError

Done == pc = "over" /\ run = Runs /\ UNCHANGED vars

Next ==
    \/ Start \/ Proceed \/ Raise \/ Done
    \/ Root \/ \E k \in DOMAIN txs : Land(k) \/ Expire(k)

(* A coroutine that can run runs, and wait_for_confirmation ends.          *)
Spec == Init /\ [][Next]_vars
FairSpec == Spec /\ WF_vars(Proceed \/ (pc = "wait" /\ Raise))

-----------------------------------------------------------------------------
(* Properties.                                                             *)

(* The steps this run has completed.                                       *)
Reached == IF how = "returned" THEN Len(script) ELSE pos - 1

Ours == {k \in DOMAIN txs : k[1] = run}

Paid(bal, from, to, n) == [[bal EXCEPT ![from] = @ - n - Fee] EXCEPT ![to] = @ + n]

(* What step s does by its names: the balances, those the context notes,   *)
(* the transactions signed, and whether the assertions hold.               *)
Does(was, s) ==
    CASE s.do = "add_keypair" ->
            [was EXCEPT !.bal = Put(@, s.name, 0), !.notes = Put(@, s.name, 0)]
      [] s.do = "fund" ->
            [was EXCEPT !.bal = Put(@, s.name, s.n), !.notes = Put(@, s.name, s.n),
                        !.signed = @ + (IF s.n > 0 THEN 1 ELSE 0)]
      [] s.do = "transfer" ->
            [was EXCEPT !.bal = Paid(@, s.from, s.to, s.n), !.signed = @ + 1]
      [] s.do \in Checks ->
            [was EXCEPT
                !.ok = @ /\ Holds(s, was.bal[s.name], ValueAt(was.notes, s.name, 0)),
                !.notes = Put(@, s.name, was.bal[s.name])]
      [] OTHER -> was

(* What the first n steps of the script do.                                *)
Ideal[n \in 0..Len(script)] ==
    IF n = 0 THEN [bal |-> <<>>, notes |-> <<>>, signed |-> 0, ok |-> TRUE]
             ELSE Does(Ideal[n - 1], script[n])

(* As far as a run has come, its context is what the script says, and the  *)
(* assertions it has passed are true of the script, whatever earlier runs  *)
(* left under way: if its transactions succeed and its reads are not       *)
(* behind (get_balance asks for finalized, the waits end at confirmed).    *)
RunMatchesIdeal ==
    LET ideal == Ideal[Reached]
    IN  how # "raised" /\ fresh /\ (\A k \in Ours : txs[k].status # "failed")
        => /\ ideal.ok /\ Len(ctx.signatures) = ideal.signed
           /\ \A name \in DOMAIN ideal.notes : ctx.balances[name] = ideal.notes[name]

(* completed_steps and failed_step outlive a run.  They read as follows:   *)
(* the completed steps are, run by run, a beginning of the script, whole   *)
(* for a run that returned; the failed step is the one at which the last   *)
(* run that raised stopped, even if a later run returned.                  *)
StepsAccounted ==
    \E ends \in [1..run -> 0..Len(script)] :
        LET raised == {r \in 1..run : ends[r] < Len(script) /\ (r = run => how = "raised")}
        IN  /\ completed = FlattenSeq([r \in 1..run |-> [i \in 1..ends[r] |-> script[i].do]])
            /\ run > 0 => ends[run] = Reached
            /\ failed = IF raised = {} THEN "None" ELSE script[ends[Max(raised)] + 1].do

(* What a node in the state of the first query has for a tracked name.     *)
Amount(shot, name) ==
    LET at == {n \in DOMAIN shot.of : shot.of[n][1] = name}
    IN  IF at = {} THEN 0 ELSE shot.from.bal[shot.of[Max(at)][2]]

(* Two snapshots during which nothing was finalized, whatever happened     *)
(* between them, differ by what their names gained or lost in the          *)
(* finalized ledger: a name tracked later counts from nothing.             *)
(* has_changes tells of a moved balance, another slot or another count,    *)
(* and of nothing else.  What is confirmed and not yet finalized is in     *)
(* neither snapshot, so that a transaction that has been waited for may be *)
(* missing, which the usage shown in StateCapture does not reckon with.    *)
DiffShowsScenario ==
    \A j \in 1..(Len(ctx.shots) - (IF pc = "read" THEN 1 ELSE 0)) : \A i \in 1..(j - 1) :
        LET s == ctx.shots[i]
            t == ctx.shots[j]
            names == {t.of[n][1] : n \in DOMAIN t.of}
            moved == {name \in names : Amount(s, name) # Amount(t, name)}
            d == Diff(s, t)
        IN  s.from = s.upto /\ t.from = t.upto =>
            /\ d.balance_changes = [name \in moved |-> Amount(t, name) - Amount(s, name)]
            /\ d.accounts_created = {name \in moved : Amount(s, name) = 0}
            /\ d.accounts_removed = {name \in moved : Amount(t, name) = 0}
            /\ HasChanges(d) <=> moved # {} \/ s.slot # t.slot \/ s.count # t.count

(* Every run of a scenario ends: its waits do, and its polls for a slot    *)
(* are counted even when no slot is finalized any more.                    *)
RunEnds == pc # "over" ~> pc = "over"
=============================================================================
