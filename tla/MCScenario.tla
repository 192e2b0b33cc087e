----------------------------- MODULE MCScenario -----------------------------
(* Three scenarios: a transfer between two snapshots, asserted on          *)
(* afterwards; one in which a tracked name gets a new keypair between them *)
(* and that ends with a name nobody has put into the context; and one that *)
(* waits for a slot of the past.                                           *)
EXTENDS Scenario

On(do, name) == [do |-> do, name |-> name]
With(do, name, n) == On(do, name) @@ [n |-> n]

MCTransfer ==
    <<With("fund", "a", 4), On("add_keypair", "b"), On("snapshot", "a"),
      [do |-> "transfer", from |-> "a", to |-> "b", n |-> 2],
      [do |-> "wait_slots", n |-> 1], On("snapshot", "b"),
      With("assert_balance_decreased", "a", 3),
      With("assert_balance_increased", "b", 2)>>

MCRenamed ==
    <<With("fund", "a", 2), On("capture_balance", "a"), On("snapshot", "a"), With("fund", "a", 0),
      [do |-> "facade_wait_slots", n |-> 1], On("snapshot", "a"),
      With("assert_balance", "a", 1) @@ [tolerance |-> 1],
      [do |-> "transfer", from |-> "a", to |-> "nobody", n |-> 1]>>

MCBackwards ==
    <<With("fund", "a", 1), [do |-> "facade_wait_slots", n |-> -1],
      [do |-> "wait_slots", n |-> -1], On("capture_balance", "a")>>

MCScripts == {MCTransfer, MCRenamed, MCBackwards}
=============================================================================
