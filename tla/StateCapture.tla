---------------------------- MODULE StateCapture ----------------------------
(***************************************************************************)
(* Snapshots and their differences (state.py), without the reading of them *)
(* (module Scenario).  A snapshot maps the names it tracks to balances and *)
(* to whether there is an account.                                         *)
(***************************************************************************)
EXTENDS Integers, Sequences, SequencesExt

(* f[key] = value, for a dictionary.                                       *)
Put(f, key, value) == [k \in DOMAIN f \cup {key} |-> IF k = key THEN value ELSE f[k]]

(* track_account: the tracked names with their addresses, in the order     *)
(* they came; a name that is tracked again keeps its place.                *)
Track(tracked, name, addr) ==
    IF \E i \in DOMAIN tracked : tracked[i][1] = name
      THEN [i \in DOMAIN tracked |-> IF tracked[i][1] = name THEN <<name, addr>> ELSE tracked[i]]
      ELSE Append(tracked, <<name, addr>>)

(* snapshot asks for the epoch info, for the transaction count, and for    *)
(* balance and account of one tracked name after the other.                *)
Queries(tracked) ==
    <<<<"epoch">>, <<"count">>>>
        \o FlattenSeq([i \in DOMAIN tracked |->
               <<<<"balance">> \o tracked[i], <<"account">> \o tracked[i]>>])

(* of, from and upto are history: the tracked names, and the state of the  *)
(* node at the first and at the last query.                                *)
EmptyShot(tracked, L) ==
    [slot |-> 0, count |-> 0, balances |-> <<>>, accounts |-> <<>>,
     of |-> tracked, from |-> L, upto |-> L]

(* The answer to query q of a node in state L, noted in shot s: it names a *)
(* slot, and n as its transaction count, which need not follow the ledger. *)
Noted(s, q, L, slot, n) ==
    CASE q[1] = "epoch"   -> [s EXCEPT !.slot = slot]
      [] q[1] = "count"   -> [s EXCEPT !.count = n]
      [] q[1] = "balance" -> [s EXCEPT !.balances = Put(@, q[2], L.bal[q[3]])]
      [] q[1] = "account" -> [s EXCEPT !.accounts = Put(@, q[2], L.bal[q[3]] > 0)]

ValueAt(f, name, default) == IF name \in DOMAIN f THEN f[name] ELSE default

(* Mutation: only the names that were tracked before.                      *)
OldNames(before, after) == DOMAIN before.balances
Names(before, after) == DOMAIN before.balances \cup DOMAIN after.balances

Diff(before, after) ==
    LET delta(name) == ValueAt(after.balances, name, 0) - ValueAt(before.balances, name, 0)
        changed == {name \in Names(before, after) : delta(name) # 0}
        There(s) == {name \in DOMAIN s.accounts : s.accounts[name]}
    IN  [slot_delta |-> after.slot - before.slot,
         tx_count_delta |-> after.count - before.count,
         balance_changes |-> [name \in changed |-> delta(name)],
         accounts_created |-> There(after) \ There(before),
         accounts_removed |-> There(before) \ There(after)]

HasChanges(d) ==
    \/ d.slot_delta # 0 \/ d.tx_count_delta # 0
    \/ DOMAIN d.balance_changes # {}
    \/ d.accounts_created # {} \/ d.accounts_removed # {}
=============================================================================
