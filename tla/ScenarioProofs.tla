---------------------------- MODULE ScenarioProofs ----------------------------
(***************************************************************************)
(* The scenario runner (module Scenario), for any scenarios, any number of *)
(* runs and any fee: its runs come one after the other, its records read   *)
(* as beginnings of the script, its runs keep apart, a run does what its   *)
(* script says, snapshots differ by what was finalized between them, and a *)
(* run never goes back.                                                    *)
(***************************************************************************)
EXTENDS Scenario, WellFoundedInduction, TLAPS

(* Induction, for a set of naturals.                                       *)
LEMMA SetInduction ==
    ASSUME NEW S \in SUBSET Nat, 0 \in S, \A n \in S : n + 1 \in S
    PROVE  S = Nat
  <1> DEFINE R == OpToRel(<, Nat)
             rest == Nat \ S
  <1>1. \A m, n \in Nat : <<m, n>> \in R <=> m < n
    BY DEF OpToRel
  <1>2. IsWellFoundedOn(R, Nat)
    BY NatLessThanWellFounded
  <1>3. rest \subseteq Nat /\ (S # Nat => rest # {})
    OBVIOUS
  <1>4. ASSUME NEW n \in rest, \A m \in rest : <<m, n>> \notin R
        PROVE  FALSE
    <2>1. n \in Nat /\ n # 0 /\ n - 1 \in Nat /\ n - 1 < n
      OBVIOUS
    <2>2. n - 1 \notin rest
      BY <1>1, <1>4, <2>1
    <2>3. n - 1 + 1 \in S
      BY <2>1, <2>2
    <2> QED
      BY <2>1, <2>3
  <1> HIDE DEF R, rest
  <1>5. rest = {}
    <2>1. rest # {} => \E n \in rest : \A m \in rest : <<m, n>> \notin R
      BY <1>2, <1>3, WFMin
    <2> QED
      BY <1>4, <2>1
  <1> QED
    BY <1>3, <1>5

-----------------------------------------------------------------------------
(* FlattenSeq, one sequence more at a time.                                *)

Folded(ss) ==
    CHOOSE f : f = [i \in 1..Len(ss) |-> IF i = 1 THEN ss[i] ELSE f[i - 1] \o ss[i]]

Solves(f, ss, n) ==
    \A i \in 1..n : f[i] = IF i = 1 THEN ss[i] ELSE f[i - 1] \o ss[i]

LEMMA SolvesAt ==
    ASSUME NEW f, NEW ss, NEW n \in Nat, Solves(f, ss, n), NEW m \in Nat, m + 1 \in 1..n
    PROVE  f[m + 1] = IF m = 0 THEN ss[m + 1] ELSE f[m] \o ss[m + 1]
  <1>1. m + 1 - 1 = m /\ (m + 1 = 1 <=> m = 0)
    OBVIOUS
  <1>2. f[m + 1] = IF m + 1 = 1 THEN ss[m + 1] ELSE f[m + 1 - 1] \o ss[m + 1]
    BY DEF Solves
  <1> QED
    BY <1>1, <1>2

(* The recursion has a solution.                                           *)
LEMMA FoldedExists ==
    ASSUME NEW S, NEW ss \in Seq(Seq(S)), NEW n \in Nat, n <= Len(ss)
    PROVE  \E f \in [1..n -> Seq(S)] : Solves(f, ss, n)
  <1> DEFINE Good(m) == m <= Len(ss) => \E f \in [1..m -> Seq(S)] : Solves(f, ss, m)
             good == {m \in Nat : Good(m)}
  <1>1. Good(0)
    <2> DEFINE f == [i \in 1..0 |-> <<>>]
    <2>1. f \in [1..0 -> Seq(S)]
      OBVIOUS
    <2>2. Solves(f, ss, 0)
      BY DEF Solves
    <2> HIDE DEF f
    <2> QED
      BY <2>1, <2>2
  <1>2. ASSUME NEW m \in Nat, Good(m) PROVE Good(m + 1)
    <2> SUFFICES ASSUME m + 1 <= Len(ss)
                 PROVE  \E f \in [1..m + 1 -> Seq(S)] : Solves(f, ss, m + 1)
      OBVIOUS
    <2>1. PICK f \in [1..m -> Seq(S)] : Solves(f, ss, m)
      BY <1>2
    <2> DEFINE last == IF m = 0 THEN ss[1] ELSE f[m] \o ss[m + 1]
               g == [i \in 1..m + 1 |-> IF i = m + 1 THEN last ELSE f[i]]
    <2>2. ss[m + 1] \in Seq(S) /\ (m # 0 => f[m] \in Seq(S))
      OBVIOUS
    <2>3. last \in Seq(S)
      <3>1. CASE m = 0
        BY <2>2, <3>1
      <3>2. CASE m # 0
        BY <2>2, <3>2
      <3> QED
        BY <3>1, <3>2
    <2>4. g \in [1..m + 1 -> Seq(S)]
      <3> HIDE DEF last
      <3> QED
        BY <2>3
    <2>5. ASSUME NEW i \in 1..m + 1
          PROVE  g[i] = IF i = 1 THEN ss[i] ELSE g[i - 1] \o ss[i]
      <3>1. CASE i = m + 1
        BY <3>1
      <3>2. CASE i # m + 1
        <4>1. i \in 1..m /\ (i # 1 => i - 1 \in 1..m) /\ i - 1 # m + 1
          BY <3>2
        <4>2. f[i] = IF i = 1 THEN ss[i] ELSE f[i - 1] \o ss[i]
          BY <2>1, <4>1 DEF Solves
        <4>3. g[i] = f[i] /\ (i # 1 => g[i - 1] = f[i - 1])
          BY <3>2, <4>1
        <4> QED
          BY <4>2, <4>3
      <3> QED
        BY <3>1, <3>2
    <2> HIDE DEF g
    <2>6. Solves(g, ss, m + 1)
      BY <2>5 DEF Solves
    <2> QED
      BY <2>4, <2>6
  <1> HIDE DEF Good
  <1>3. good = Nat
    <2>1. good \in SUBSET Nat /\ 0 \in good /\ \A m \in good : m + 1 \in good
      BY <1>1, <1>2
    <2> HIDE DEF good
    <2> QED
      BY <2>1, SetInduction
  <1>4. Good(n)
    BY <1>3
  <1> QED
    BY <1>4 DEF Good

(* What FlattenSeq computes on its way.                                    *)
LEMMA FoldedFacts ==
    ASSUME NEW S, NEW ss \in Seq(Seq(S))
    PROVE  Folded(ss) \in [1..Len(ss) -> Seq(S)] /\ Solves(Folded(ss), ss, Len(ss))
  <1> DEFINE Step(f) == [i \in 1..Len(ss) |-> IF i = 1 THEN ss[i] ELSE f[i - 1] \o ss[i]]
             F == Folded(ss)
  <1>1. \E f : f = Step(f)
    <2>1. PICK f \in [1..Len(ss) -> Seq(S)] : Solves(f, ss, Len(ss))
      BY FoldedExists
    <2>2. f = Step(f)
      BY <2>1 DEF Solves
    <2> QED
      BY <2>2
  <1>2. F = CHOOSE f : f = Step(f)
    BY DEF Folded
  <1>3. F = Step(F)
    <2> HIDE DEF Step, F
    <2> QED
      BY <1>1, <1>2
  <1> HIDE DEF F
  <1>4. DOMAIN F = 1..Len(ss) /\ Solves(F, ss, Len(ss)) /\ F = [i \in 1..Len(ss) |-> F[i]]
    BY <1>3 DEF Solves
  <1> DEFINE Good(m) == m \in 1..Len(ss) => F[m] \in Seq(S)
             good == {m \in Nat : Good(m)}
  <1>5. Good(0)
    OBVIOUS
  <1>6. ASSUME NEW m \in Nat, Good(m) PROVE Good(m + 1)
    <2> SUFFICES ASSUME m + 1 \in 1..Len(ss) PROVE F[m + 1] \in Seq(S)
      OBVIOUS
    <2>1. ss[m + 1] \in Seq(S) /\ (m # 0 => F[m] \in Seq(S))
      BY <1>6
    <2>2. F[m + 1] = IF m = 0 THEN ss[m + 1] ELSE F[m] \o ss[m + 1]
      BY <1>4, SolvesAt
    <2>3. CASE m = 0
      BY <2>1, <2>2, <2>3
    <2>4. CASE m # 0
      BY <2>1, <2>2, <2>4
    <2> QED
      BY <2>3, <2>4
  <1> HIDE DEF Good
  <1>7. good = Nat
    <2>1. good \in SUBSET Nat /\ 0 \in good /\ \A m \in good : m + 1 \in good
      BY <1>5, <1>6
    <2> HIDE DEF good
    <2> QED
      BY <2>1, SetInduction
  <1>8. \A i \in 1..Len(ss) : F[i] \in Seq(S)
    <2>1. \A i \in 1..Len(ss) : Good(i)
      BY <1>7
    <2> QED
      BY <2>1 DEF Good
  <1>9. F \in [1..Len(ss) -> Seq(S)]
    BY <1>4, <1>8
  <1> QED
    BY <1>4, <1>9 DEF F

(* FlattenSeq of one sequence more: what it was, and that sequence.        *)
LEMMA FlattenLast ==
    ASSUME NEW S, NEW n \in Nat, NEW ss \in [1..n + 1 -> Seq(S)]
    PROVE  /\ FlattenSeq(ss) = FlattenSeq([i \in 1..n |-> ss[i]]) \o ss[n + 1]
           /\ FlattenSeq([i \in 1..n |-> ss[i]]) \in Seq(S)
  <1> DEFINE front == [i \in 1..n |-> ss[i]]
             F == Folded(ss)
             G == Folded(front)
  <1>1. ss \in Seq(Seq(S)) /\ Len(ss) = n + 1
    OBVIOUS
  <1>2. /\ front \in Seq(Seq(S)) /\ Len(front) = n /\ DOMAIN front = 1..n
        /\ \A i \in 1..n : front[i] = ss[i]
    OBVIOUS
  <1> HIDE DEF front
  <1>3. FlattenSeq(ss) = F[n + 1]
    BY <1>1 DEF FlattenSeq, Folded
  <1>4. FlattenSeq(front) = IF n = 0 THEN front ELSE G[n]
    BY <1>2 DEF FlattenSeq, Folded
  <1>5. Solves(F, ss, n + 1)
    BY <1>1, FoldedFacts
  <1>6. G \in [1..n -> Seq(S)] /\ Solves(G, front, n)
    BY <1>2, FoldedFacts
  <1> HIDE DEF F, G
  <1> DEFINE Good(m) == m \in 1..n => F[m] = G[m]
             good == {m \in Nat : Good(m)}
  <1>7. Good(0)
    OBVIOUS
  <1>8. ASSUME NEW m \in Nat, Good(m) PROVE Good(m + 1)
    <2> SUFFICES ASSUME m + 1 \in 1..n PROVE F[m + 1] = G[m + 1]
      OBVIOUS
    <2>1. ss[m + 1] = front[m + 1] /\ m + 1 \in 1..n + 1 /\ n + 1 \in Nat
      BY <1>2
    <2>2. m # 0 => F[m] = G[m]
      BY <1>8
    <2>3. F[m + 1] = IF m = 0 THEN ss[m + 1] ELSE F[m] \o ss[m + 1]
      BY <1>5, <2>1, SolvesAt
    <2>4. G[m + 1] = IF m = 0 THEN front[m + 1] ELSE G[m] \o front[m + 1]
      BY <1>6, SolvesAt
    <2> QED
      BY <2>1, <2>2, <2>3, <2>4
  <1> HIDE DEF Good
  <1>9. good = Nat
    <2>1. good \in SUBSET Nat /\ 0 \in good /\ \A m \in good : m + 1 \in good
      BY <1>7, <1>8
    <2> HIDE DEF good
    <2> QED
      BY <2>1, SetInduction
  <1>10. n # 0 => F[n] = G[n] /\ G[n] \in Seq(S)
    <2>1. Good(n)
      BY <1>9
    <2> QED
      BY <1>6, <2>1 DEF Good
  <1>11. F[n + 1] = IF n = 0 THEN ss[n + 1] ELSE F[n] \o ss[n + 1]
    BY <1>5, SolvesAt
  <1>12. FlattenSeq(ss) = FlattenSeq(front) \o ss[n + 1] /\ FlattenSeq(front) \in Seq(S)
    <2>1. CASE n = 0
      <3>1. front = <<>> /\ ss[n + 1] \in Seq(S)
        BY <1>2, <2>1
      <3> QED
        BY <1>3, <1>4, <1>11, <2>1, <3>1
    <2>2. CASE n # 0
      BY <1>3, <1>4, <1>10, <1>11, <2>2
    <2> QED
      BY <2>1, <2>2
  <1> QED
    BY <1>12 DEF front

LEMMA ConcatAppend ==
    ASSUME NEW S, NEW s \in Seq(S), NEW t \in Seq(S), NEW x \in S
    PROVE  s \o Append(t, x) = Append(s \o t, x)
  <1> DEFINE u == s \o Append(t, x)
             v == Append(s \o t, x)
  <1>1. s \o t \in Seq(S) /\ Append(t, x) \in Seq(S) /\ Len(s \o t) = Len(s) + Len(t)
    OBVIOUS
  <1>2. u \in Seq(S) /\ v \in Seq(S) /\ Len(u) = Len(v)
    BY <1>1
  <1>3. ASSUME NEW i \in 1..Len(u) PROVE u[i] = v[i]
    <2>1. CASE i <= Len(s)
      BY <1>1, <2>1
    <2>2. CASE i > Len(s) /\ i <= Len(s) + Len(t)
      BY <1>1, <2>2
    <2>3. CASE i = Len(s) + Len(t) + 1
      BY <1>1, <2>3
    <2> QED
      BY <1>1, <2>1, <2>2, <2>3
  <1> HIDE DEF u, v
  <1>4. u = v
    BY <1>2, <1>3
  <1> QED
    BY <1>4 DEF u, v

Rows(m, S) == [1..m -> Seq(S)]

(* One element more in the last sequence is one more at the end.           *)
LEMMA FlattenAppend ==
    ASSUME NEW S, NEW m \in Nat \ {0}, NEW x \in S,
           NEW ss \in Rows(m, S), NEW tt \in Rows(m, S),
           \A i \in 1..m : i # m => tt[i] = ss[i], tt[m] = Append(ss[m], x)
    PROVE  FlattenSeq(tt) = Append(FlattenSeq(ss), x)
  <1> USE DEF Rows
  <1>0. PICK n \in Nat : m = n + 1
    <2>1. m - 1 \in Nat /\ m = (m - 1) + 1
      OBVIOUS
    <2> QED
      BY <2>1
  <1> DEFINE front == FlattenSeq([i \in 1..n |-> ss[i]])
  <1>1. ss[m] \in Seq(S) /\ [i \in 1..n |-> tt[i]] = [i \in 1..n |-> ss[i]]
    BY <1>0
  <1>2. FlattenSeq(ss) = front \o ss[m] /\ front \in Seq(S)
    BY <1>0, FlattenLast
  <1>3. FlattenSeq(tt) = front \o tt[m]
    BY <1>0, <1>1, FlattenLast
  <1> HIDE DEF front
  <1>4. front \o Append(ss[m], x) = Append(front \o ss[m], x)
    BY <1>1, <1>2, ConcatAppend
  <1>5. FlattenSeq(tt) = front \o Append(ss[m], x)
    BY <1>3
  <1>6. FlattenSeq(ss) = front \o ss[m]
    BY <1>2
  <1> HIDE DEF Rows
  <1> QED
    BY <1>4, <1>5, <1>6, Zenon

-----------------------------------------------------------------------------
(* What a step of the system is to the runner: the start of a run, the end *)
(* of a step of the scenario, good or bad, or neither.                     *)

Under == {"step", "wait", "poll", "read"}    \* a run is under way

RunOK ==
    /\ script \in Scripts /\ run \in 0..Runs /\ pos \in 1..Len(script)
    /\ pc \in Under \cup {"over"}
    /\ pc # "over" => run > 0 /\ how = "none"
    /\ pc = "over" /\ run > 0 => how \in {"returned", "raised"}
    /\ run = 0 => how = "none"
    /\ how = "returned" => pos = Len(script)

Completes == \E c : Complete(c)
Fails == \E c : FailStep(c)

Stays ==
    /\ UNCHANGED <<pos, how, completed, failed>>
    /\ pc' = pc \/ (pc \in Under /\ pc' \in Under \ {"step"})

LEMMA StepKinds ==
    ASSUME RunOK, [Next]_vars
    PROVE  \/ Start
           \/ UNCHANGED <<script, run>> /\ pc \in Under /\ (Completes \/ Fails)
           \/ UNCHANGED <<script, run>> /\ Stays
  <1>1. CASE AddKeypair
    BY <1>1 DEF AddKeypair, Completes, Under
  <1>2. CASE Fund \/ Transfer \/ WaitSlots \/ Snapshot
    BY <1>2 DEF Fund, Transfer, WaitSlots, Snapshot, Suspend, Stays, Under
  <1>3. CASE Confirmed
    BY <1>3 DEF Confirmed, Completes, Under
  <1>4. CASE Check
    BY <1>4 DEF Check, Completes, Fails, Under
  <1>5. CASE Poll
    BY <1>5 DEF Poll, Completes, Fails, Stays, Under
  <1>6. CASE Read
    BY <1>6 DEF Read, Completes, Suspend, Stays, Under
  <1>7. CASE KeyError \/ Raise
    BY <1>7 DEF KeyError, Raise, Fails, Under
  <1>8. CASE Root \/ (\E k \in DOMAIN txs : Land(k) \/ Expire(k)) \/ Done \/ UNCHANGED vars
    BY <1>8 DEF Root, Land, Expire, Done, vars, Stays
  <1> QED
    BY <1>1, <1>2, <1>3, <1>4, <1>5, <1>6, <1>7, <1>8 DEF Next, Proceed

(* Every scenario has a step to begin with.                                *)
LEMMA ScriptFacts ==
    ASSUME NEW s \in Scripts
    PROVE  /\ Len(s) \in Nat \ {0} /\ Len(s) <= MaxSteps
           /\ \A i \in 1..Len(s) : IsStep(s[i])
  <1>1. Len(s) \in 1..MaxSteps /\ MaxSteps \in Nat
    BY ScenarioAssumption DEF ScenarioAssumption
  <1>2. \A i \in 1..Len(s) : IsStep(s[i])
    BY ScenarioAssumption DEF ScenarioAssumption
  <1> QED
    BY <1>1, <1>2

LEMMA RunStep == RunOK /\ [Next]_vars => RunOK'
  <1> SUFFICES ASSUME RunOK, [Next]_vars PROVE RunOK'
    OBVIOUS
  <1>0. Len(script) \in Nat \ {0} /\ Runs \in Nat
    BY ScriptFacts, ScenarioAssumption DEF ScenarioAssumption, RunOK
  <1>1. CASE Start
    BY <1>0, <1>1 DEF Start, RunOK, Under
  <1>2. CASE UNCHANGED <<script, run>> /\ pc \in Under /\ Completes
    BY <1>0, <1>2 DEF Completes, Complete, RunOK, Under
  <1>3. CASE UNCHANGED <<script, run>> /\ pc \in Under /\ Fails
    BY <1>0, <1>3 DEF Fails, FailStep, RunOK, Under
  <1>4. CASE UNCHANGED <<script, run>> /\ Stays
    BY <1>0, <1>4 DEF Stays, RunOK, Under
  <1> QED
    BY <1>1, <1>2, <1>3, <1>4, StepKinds

(* Scenario.run executes the steps of its script in order, one run after   *)
(* the other, and a run that returned has come to the last of them.        *)
THEOREM RunsInOrder == Spec => []RunOK
  <1>1. Init => RunOK
    BY ScriptFacts, ScenarioAssumption DEF ScenarioAssumption, Init, RunOK, Under
  <1> QED
    BY <1>1, RunStep, PTL DEF Spec

-----------------------------------------------------------------------------
(* The records of the steps.  ends[r] says how far run r came.             *)

Part(n) == [i \in 1..n |-> script[i].do]
Parts(ends, n) == [r \in 1..n |-> Part(ends[r])]
Stopped(ends) == {r \in 1..run : ends[r] < Len(script) /\ (r = run => how = "raised")}
Ends == [1..run -> 0..Len(script)]

Accounts(ends) ==
    /\ completed = FlattenSeq(Parts(ends, run))
    /\ run > 0 => ends[run] = Reached
    /\ failed = IF Stopped(ends) = {} THEN "None" ELSE script[ends[Max(Stopped(ends))] + 1].do

LEMMA AccountsDef == StepsAccounted <=> \E ends \in Ends : Accounts(ends)
  BY DEF StepsAccounted, Accounts, Part, Parts, Stopped, Ends

LEMMA PartsType ==
    ASSUME RunOK, NEW ends, NEW n \in Nat, \A r \in 1..n : ends[r] \in 0..Len(script)
    PROVE  Parts(ends, n) \in [1..n -> Seq(Operations)]
  <1>1. \A i \in 1..Len(script) : script[i].do \in Operations
    BY ScriptFacts DEF RunOK, IsStep
  <1>2. ASSUME NEW r \in 1..n PROVE Part(ends[r]) \in Seq(Operations)
    <2>1. ends[r] \in 0..Len(script) /\ Len(script) \in Nat
      BY <1>2, ScriptFacts DEF RunOK
    <2>2. \A i \in 1..ends[r] : script[i].do \in Operations
      BY <1>1, <2>1
    <2> QED
      BY <2>1, <2>2 DEF Part
  <1> QED
    BY <1>2 DEF Parts

(* The latest of some runs is one of them.                                 *)
LEMMA MaxOfRuns ==
    ASSUME NEW n \in Nat, NEW S \in SUBSET (1..n), S # {}
    PROVE  Max(S) \in S /\ \A m \in S : m <= Max(S)
  <1> DEFINE Good(k) == \A T \in SUBSET (1..k) : T # {} => \E x \in T : \A y \in T : x >= y
             good == {k \in Nat : Good(k)}
  <1>1. Good(0)
    <2>1. \A T \in SUBSET (1..0) : T = {}
      OBVIOUS
    <2> QED
      BY <2>1
  <1>2. ASSUME NEW k \in Nat, Good(k) PROVE Good(k + 1)
    <2> SUFFICES ASSUME NEW T \in SUBSET (1..k + 1), T # {}
                 PROVE  \E x \in T : \A y \in T : x >= y
      OBVIOUS
    <2>1. CASE k + 1 \in T
      BY <2>1
    <2>2. CASE k + 1 \notin T
      <3>1. T \in SUBSET (1..k)
        BY <2>2
      <3> QED
        BY <1>2, <3>1
    <2> QED
      BY <2>1, <2>2
  <1> HIDE DEF Good
  <1>3. good = Nat
    <2>1. good \in SUBSET Nat /\ 0 \in good /\ \A k \in good : k + 1 \in good
      BY <1>1, <1>2
    <2> HIDE DEF good
    <2> QED
      BY <2>1, SetInduction
  <1>4. Good(n)
    BY <1>3
  <1>5. PICK x \in S : \A y \in S : x >= y
    BY <1>4 DEF Good
  <1>6. Max(S) \in S /\ \A y \in S : Max(S) >= y
    BY <1>5 DEF Max
  <1> QED
    BY <1>6

(* A new run has completed nothing yet, and one that is over has raised    *)
(* unless it came to the end.                                              *)
LEMMA AccountsStart == RunOK /\ StepsAccounted /\ Start => StepsAccounted'
  <1> SUFFICES ASSUME RunOK, StepsAccounted, Start PROVE StepsAccounted'
    OBVIOUS
  <1>1. PICK ends \in Ends : Accounts(ends)
    BY AccountsDef
  <1>2. /\ run \in Nat /\ run' = run + 1 /\ pos' = 1 /\ how' = "none" /\ pc = "over"
        /\ UNCHANGED <<script, completed, failed>> /\ Len(script) \in Nat \ {0}
    BY ScriptFacts DEF RunOK, Start
  <1>3. PICK more \in [1..run + 1 -> 0..Len(script)] :
           more[run + 1] = 0 /\ \A r \in 1..run : more[r] = ends[r]
    <2> DEFINE f == [r \in 1..run + 1 |-> IF r = run + 1 THEN 0 ELSE ends[r]]
    <2>1. /\ f \in [1..run + 1 -> 0..Len(script)]
          /\ f[run + 1] = 0 /\ \A r \in 1..run : f[r] = ends[r]
      BY <1>2 DEF Ends
    <2> HIDE DEF f
    <2> QED
      BY <2>1
  <1>5. FlattenSeq(Parts(more, run + 1)) = FlattenSeq(Parts(ends, run))
    <2>1. /\ Parts(more, run + 1) \in [1..run + 1 -> Seq(Operations)]
          /\ Parts(ends, run) \in [1..run -> Seq(Operations)]
      BY <1>2, <1>3, PartsType DEF Ends
    <2>2. [r \in 1..run |-> Parts(more, run + 1)[r]] = Parts(ends, run)
      BY <1>2, <1>3 DEF Parts
    <2>3. Parts(more, run + 1)[run + 1] = <<>>
      BY <1>2, <1>3 DEF Part, Parts
    <2>4. /\ FlattenSeq(Parts(more, run + 1)) = FlattenSeq(Parts(ends, run)) \o <<>>
          /\ FlattenSeq(Parts(ends, run)) \in Seq(Operations)
      BY <1>2, <2>1, <2>2, <2>3, FlattenLast
    <2> QED
      BY <2>4
  <1>6. Stopped(more)' = Stopped(ends)
    <2>1. \A r \in 1..run + 1 : r \in Stopped(more)' <=> r \in Stopped(ends)
      <3> SUFFICES ASSUME NEW r \in 1..run + 1 PROVE r \in Stopped(more)' <=> r \in Stopped(ends)
        OBVIOUS
      <3>1. CASE r = run + 1
        BY <1>2, <3>1 DEF Stopped
      <3>2. CASE r < run
        BY <1>2, <1>3, <3>2 DEF Stopped
      <3>3. CASE r = run
        <4>1. run > 0 /\ ends[run] = Reached
          BY <1>1, <3>3 DEF Accounts
        <4>2. how = "returned" => ends[run] = Len(script)
          BY <4>1 DEF Reached
        <4>3. ends[run] < Len(script) => how = "raised"
          BY <1>2, <4>1, <4>2 DEF RunOK
        <4> QED
          BY <1>2, <1>3, <3>3, <4>1, <4>3 DEF Stopped
      <3> QED
        BY <1>2, <3>1, <3>2, <3>3
    <2>2. Stopped(more)' \subseteq 1..run + 1 /\ Stopped(ends) \subseteq 1..run + 1
      BY <1>2 DEF Stopped
    <2> QED
      BY <2>1, <2>2
  <1>7. Stopped(ends) # {} => Max(Stopped(ends)) \in 1..run
    <2>1. Stopped(ends) \in SUBSET (1..run)
      BY DEF Stopped
    <2> QED
      BY <1>2, <2>1, MaxOfRuns
  <1>8. Accounts(more)'
    <2>1. completed' = FlattenSeq(Parts(more, run)')
      BY <1>1, <1>2, <1>5 DEF Accounts, Part, Parts
    <2>2. more[run'] = Reached'
      BY <1>2, <1>3 DEF Reached
    <2>3. failed' = IF Stopped(more)' = {} THEN "None"
                    ELSE script'[more[Max(Stopped(more)')] + 1].do
      BY <1>1, <1>2, <1>3, <1>6, <1>7 DEF Accounts
    <2> QED
      BY <2>1, <2>2, <2>3 DEF Accounts
  <1>9. more \in Ends'
    BY <1>2, <1>3 DEF Ends
  <1> QED
    BY <1>8, <1>9 DEF StepsAccounted, Accounts, Part, Parts, Stopped, Ends

(* A step is recorded when it is over, at the end of what this run has     *)
(* recorded.                                                               *)
LEMMA AccountsComplete ==
    RunOK /\ StepsAccounted /\ UNCHANGED <<script, run>> /\ pc \in Under /\ Completes
        => StepsAccounted'
  <1> SUFFICES ASSUME RunOK, StepsAccounted, UNCHANGED <<script, run>>, pc \in Under, Completes
               PROVE  StepsAccounted'
    OBVIOUS
  <1>1. PICK ends \in Ends : Accounts(ends)
    BY AccountsDef
  <1>2. /\ run \in Nat \ {0} /\ how = "none" /\ pos \in 1..Len(script)
        /\ Len(script) \in Nat \ {0}
    BY ScriptFacts DEF RunOK, Under
  <1>3. /\ completed' = Append(completed, script[pos].do) /\ failed' = failed
        /\ how' \in {"none", "returned"} /\ Reached' = pos
    BY <1>2 DEF Completes, Complete, Recorded, step, Reached
  <1>4. ends[run] = pos - 1 /\ ends \in [1..run -> 0..Len(script)]
    BY <1>1, <1>2 DEF Accounts, Reached, Ends
  <1>6. PICK more \in [1..run -> 0..Len(script)] :
           more[run] = pos /\ \A r \in 1..run : r # run => more[r] = ends[r]
    <2> DEFINE f == [ends EXCEPT ![run] = pos]
    <2>1. /\ f \in [1..run -> 0..Len(script)]
          /\ f[run] = pos /\ \A r \in 1..run : r # run => f[r] = ends[r]
      BY <1>2, <1>4
    <2> HIDE DEF f
    <2> QED
      BY <2>1
  <1>7. FlattenSeq(Parts(more, run)) = completed'
    <2> DEFINE ss == Parts(ends, run)
               tt == Parts(more, run)
               x == script[pos].do
    <2>1. x \in Operations
      BY <1>2, ScriptFacts DEF RunOK, IsStep
    <2>2. ss \in Rows(run, Operations) /\ tt \in Rows(run, Operations)
      BY <1>2, <1>4, <1>6, PartsType DEF Rows
    <2>3. Part(pos) = Append(Part(pos - 1), x)
      BY <1>2 DEF Part
    <2>4. ss[run] = Part(pos - 1) /\ tt[run] = Part(pos)
      BY <1>2, <1>4, <1>6 DEF Parts
    <2>5. \A i \in 1..run : i # run => tt[i] = ss[i]
      BY <1>6 DEF Parts
    <2>6. tt[run] = Append(ss[run], x)
      BY <2>3, <2>4
    <2>7. FlattenSeq(tt) = Append(FlattenSeq(ss), x)
      <3> HIDE DEF ss, tt, x
      <3> QED
        BY <1>2, <2>1, <2>2, <2>5, <2>6, FlattenAppend
    <2> QED
      BY <1>1, <1>3, <2>7 DEF Accounts
  <1>8. Stopped(more)' = Stopped(ends)
    BY <1>2, <1>3, <1>6 DEF Stopped
  <1>9. Stopped(ends) # {} => Max(Stopped(ends)) \in (1..run) \ {run}
    <2>1. Stopped(ends) \in SUBSET (1..run) /\ run \notin Stopped(ends)
      BY <1>2 DEF Stopped
    <2> QED
      BY <1>2, <2>1, MaxOfRuns
  <1>10. Accounts(more)'
    <2>1. completed' = FlattenSeq(Parts(more, run)')
      BY <1>7 DEF Part, Parts
    <2>2. more[run'] = Reached'
      BY <1>3, <1>6
    <2>3. failed' = IF Stopped(more)' = {} THEN "None"
                    ELSE script'[more[Max(Stopped(more)')] + 1].do
      BY <1>1, <1>3, <1>6, <1>8, <1>9 DEF Accounts
    <2> QED
      BY <2>1, <2>2, <2>3 DEF Accounts
  <1>11. more \in Ends'
    BY <1>6 DEF Ends
  <1> QED
    BY <1>10, <1>11 DEF StepsAccounted, Accounts, Part, Parts, Stopped, Ends

(* The step at which a run raises is the one after those it has recorded.  *)
LEMMA AccountsFail ==
    RunOK /\ StepsAccounted /\ UNCHANGED <<script, run>> /\ pc \in Under /\ Fails
        => StepsAccounted'
  <1> SUFFICES ASSUME RunOK, StepsAccounted, UNCHANGED <<script, run>>, pc \in Under, Fails
               PROVE  StepsAccounted'
    OBVIOUS
  <1>1. PICK ends \in Ends : Accounts(ends)
    BY AccountsDef
  <1>2. /\ run \in Nat \ {0} /\ how = "none" /\ pos \in 1..Len(script)
        /\ Len(script) \in Nat \ {0}
    BY ScriptFacts DEF RunOK, Under
  <1>3. /\ completed' = completed /\ pos' = pos /\ failed' = script[pos].do /\ how' = "raised"
    BY DEF Fails, FailStep, step
  <1>4. ends[run] = pos - 1 /\ ends \in [1..run -> 0..Len(script)]
    BY <1>1, <1>2 DEF Accounts, Reached, Ends
  <1>5. run \in Stopped(ends)' /\ Stopped(ends)' \in SUBSET (1..run)
    BY <1>2, <1>3, <1>4 DEF Stopped
  <1>6. Max(Stopped(ends)') = run
    <2>1. Max(Stopped(ends)') \in 1..run /\ run <= Max(Stopped(ends)')
      <3> DEFINE S == Stopped(ends)'
      <3> HIDE DEF S
      <3>1. run \in S /\ S \in SUBSET (1..run)
        BY <1>5 DEF S
      <3>2. Max(S) \in 1..run /\ run <= Max(S)
        BY <1>2, <3>1, MaxOfRuns
      <3> QED
        BY <3>2 DEF S
    <2> QED
      BY <1>2, <2>1
  <1>7. Accounts(ends)'
    <2>1. completed' = FlattenSeq(Parts(ends, run)')
      BY <1>1, <1>3 DEF Accounts, Part, Parts
    <2>2. ends[run'] = Reached'
      BY <1>3, <1>4 DEF Reached
    <2>3. script'[ends[run] + 1].do = failed'
      BY <1>2, <1>3, <1>4
    <2>4. failed' = IF Stopped(ends)' = {} THEN "None"
                    ELSE script'[ends[Max(Stopped(ends)')] + 1].do
      BY <1>5, <1>6, <2>3
    <2> QED
      BY <2>1, <2>2, <2>4 DEF Accounts
  <1> QED
    BY <1>1, <1>7 DEF StepsAccounted, Accounts, Part, Parts, Stopped, Ends

LEMMA AccountsStay ==
    RunOK /\ StepsAccounted /\ UNCHANGED <<script, run>> /\ Stays => StepsAccounted'
  BY DEF Stays, StepsAccounted, Reached

(* completed_steps and failed_step outlive a run: run by run, the recorded *)
(* steps are a beginning of the scenario, and the failed step is the one   *)
(* at which the last run that raised stopped.                              *)
THEOREM RecordsReadAsPrefixes == Spec => []StepsAccounted
  <1>1. Init => StepsAccounted
    <2> SUFFICES ASSUME Init PROVE StepsAccounted
      OBVIOUS
    <2>1. PICK ends \in [1..0 -> 0..Len(script)] : TRUE
      <3>1. [r \in 1..0 |-> 0] \in [1..0 -> 0..Len(script)]
        OBVIOUS
      <3> QED
        BY <3>1
    <2>2. Parts(ends, 0) = <<>> /\ Len(Parts(ends, 0)) = 0
      BY DEF Parts
    <2>3. FlattenSeq(Parts(ends, 0)) = <<>>
      BY <2>2 DEF FlattenSeq
    <2>4. Stopped(ends) = {}
      BY DEF Stopped, Init
    <2>5. Accounts(ends)
      BY <2>3, <2>4 DEF Init, Accounts
    <2>6. ends \in Ends
      BY <2>1 DEF Init, Ends
    <2> QED
      BY <2>5, <2>6, AccountsDef
  <1>2. RunOK /\ StepsAccounted /\ [Next]_vars => StepsAccounted'
    BY StepKinds, AccountsStart, AccountsComplete, AccountsFail, AccountsStay
  <1> QED
    BY <1>1, <1>2, RunsInOrder, PTL DEF Spec

-----------------------------------------------------------------------------
(* What keypairs, transactions and balances have to do with the run that   *)
(* made them.                                                              *)

ContextOK ==
    /\ DOMAIN ctx = {"keys", "balances", "signatures", "tracked", "shots"}
    /\ ctx.signatures \in Seq(Addresses)

(* The keypairs are those of different steps of this run.                  *)
KeysOK ==
    /\ \A name \in DOMAIN ctx.keys :
          /\ ctx.keys[name] \in Addresses
          /\ ctx.keys[name][1] = run
          /\ ctx.keys[name][2] <= pos /\ (pc = "step" => ctx.keys[name][2] < pos)
    /\ \A a, b \in DOMAIN ctx.keys : ctx.keys[a] = ctx.keys[b] => a = b

Statuses == {"sent", "ok", "failed", "dropped"}

(* The transaction of a step pays an address of the same run, made by this *)
(* or an earlier step, from another one or from the faucet.                *)
TxOK(k, t) ==
    /\ DOMAIN t = {"status", "from", "to", "n"}
    /\ t.status \in Statuses /\ t.n \in Nat
    /\ t.to \in Addresses /\ t.to[1] = k[1] /\ t.to[2] <= k[2]
    /\ t.from = Faucet \/ (t.from \in Addresses /\ t.from[1] = k[1])

TxsOK ==
    \A k \in DOMAIN txs :
        /\ k \in Addresses /\ TxOK(k, txs[k])
        /\ k[1] <= run
        /\ k[1] = run => k[2] <= pos /\ (pc = "step" => k[2] < pos)

Ledgers == [bal : [Addresses -> Nat], age : Nat]

(* Nothing is where no transaction has put it.                             *)
LedgerOK ==
    /\ ledger \in Ledgers /\ final \in Ledgers
    /\ \A a \in Addresses : ledger.bal[a] # 0 => \E k \in DOMAIN txs : txs[k].to = a

(* The transaction a run waits for is that of its step.                    *)
WaitOK ==
    pc = "wait" =>
        /\ here \in DOMAIN txs
        /\ \/ /\ step.do = "fund" /\ step.n > 0
              /\ step.name \in DOMAIN ctx.keys /\ ctx.keys[step.name] = here
              /\ txs[here].from = Faucet /\ txs[here].to = here
           \/ /\ step.do = "transfer" /\ Known(step.from) /\ Known(step.to)
              /\ txs[here].from = ctx.keys[step.from] /\ txs[here].to = ctx.keys[step.to]
        /\ txs[here].n = step.n

SystemInv == RunOK /\ ContextOK /\ KeysOK /\ TxsOK /\ LedgerOK /\ WaitOK


LEMMA AddressFacts ==
    ASSUME RunOK
    PROVE  /\ run \in Nat /\ pos \in Nat /\ Len(script) \in Nat
           /\ run > 0 => here \in Addresses
           /\ \A k \in Addresses : /\ k[1] \in Nat /\ k[2] \in Nat /\ k # Faucet
                                   /\ k[1] = run /\ k[2] = pos => k = here
  <1>1. /\ run \in 0..Runs /\ Runs \in Nat /\ MaxSteps \in Nat
        /\ pos \in 1..Len(script) /\ Len(script) \in Nat /\ Len(script) <= MaxSteps
    BY ScriptFacts, ScenarioAssumption DEF ScenarioAssumption, RunOK
  <1>2. run > 0 => here \in Addresses
    BY <1>1 DEF here, Addresses
  <1>3. ASSUME NEW k \in Addresses
        PROVE  /\ k[1] \in Nat /\ k[2] \in Nat /\ k # Faucet
               /\ k[1] = run /\ k[2] = pos => k = here
    <2>1. k = <<k[1], k[2]>> /\ k[1] \in 1..Runs /\ k[2] \in 1..MaxSteps
      BY DEF Addresses
    <2> QED
      BY <1>1, <2>1 DEF here, Faucet
  <1> QED
    BY <1>1, <1>2, <1>3

(* The runner only goes forward in the script.                             *)
LEMMA Forward ==
    ASSUME RunOK, [Next]_vars, ~Start
    PROVE  /\ UNCHANGED <<script, run>> /\ pos' >= pos
           /\ pc' = "step" /\ pos' = pos => pc = "step"
           /\ pos' # pos => pc \in Under /\ pos' = pos + 1 /\ pc' = "step"
  <1>1. pos \in Nat
    BY AddressFacts
  <1>2. CASE UNCHANGED <<script, run>> /\ pc \in Under /\ Completes
    BY <1>1, <1>2 DEF Completes, Complete
  <1>3. CASE UNCHANGED <<script, run>> /\ pc \in Under /\ Fails
    BY <1>1, <1>3 DEF Fails, FailStep
  <1>4. CASE UNCHANGED <<script, run>> /\ Stays
    BY <1>1, <1>4 DEF Stays
  <1> QED
    BY <1>2, <1>3, <1>4, StepKinds

(* A new keypair is noted by a step that is then over or waits.            *)
NewKey ==
    /\ pc = "step" /\ (pc' = "step" => pos' = pos + 1)
    /\ ctx'.keys = Put(ctx.keys, step.name, here)

LEMMA ContextStep ==
    ASSUME RunOK, ContextOK, [Next]_vars
    PROVE  /\ ContextOK'
           /\ ~Start => ctx'.keys = ctx.keys \/ NewKey
  <1> USE DEF ContextOK
  <1>0. run > 0 => here \in Addresses
    BY AddressFacts
  <1>1. CASE Start
    BY <1>1 DEF Start, NewContext
  <1>2. CASE AddKeypair \/ Fund
    BY <1>2 DEF AddKeypair, Fund, Complete, Suspend, Note, WithKey, NewKey
  <1>3. CASE Transfer \/ WaitSlots \/ KeyError
    BY <1>3 DEF Transfer, WaitSlots, KeyError, FailStep, Suspend
  <1>4. CASE Confirmed
    <2>1. here \in Addresses
      BY <1>0, <1>4 DEF Confirmed, RunOK
    <2> QED
      BY <1>4, <2>1 DEF Confirmed, Complete, Note
  <1>5. CASE Check \/ Poll
    BY <1>5 DEF Check, Poll, Complete, FailStep, Note
  <1>6. CASE Snapshot \/ Read
    BY <1>6 DEF Snapshot, Read, Complete, Suspend
  <1>7. CASE Raise
    BY <1>7 DEF Raise, FailStep, Aborted, WithKey, NewKey
  <1>8. CASE Root \/ (\E k \in DOMAIN txs : Land(k) \/ Expire(k)) \/ Done \/ UNCHANGED vars
    BY <1>8 DEF Root, Land, Expire, Done, vars
  <1> QED
    BY <1>1, <1>2, <1>3, <1>4, <1>5, <1>6, <1>7, <1>8 DEF Next, Proceed

LEMMA KeysStep ==
    ASSUME RunOK, ContextOK, KeysOK, [Next]_vars
    PROVE  KeysOK'
  <1>0. run \in Nat /\ pos \in Nat /\ (run > 0 => here \in Addresses)
    BY AddressFacts
  <1>1. CASE Start
    BY <1>1 DEF Start, NewContext, KeysOK
  <1>2. CASE ~Start /\ ctx'.keys = ctx.keys
    <2>1. \A name \in DOMAIN ctx.keys : ctx.keys[name][2] \in Nat
      BY AddressFacts DEF KeysOK
    <2> QED
      BY <1>0, <1>2, <2>1, Forward DEF KeysOK
  <1>3. CASE ~Start /\ NewKey
    <2> DEFINE keys == ctx'.keys
    <2>1. /\ DOMAIN keys = DOMAIN ctx.keys \cup {step.name}
          /\ keys[step.name] = here
          /\ \A name \in DOMAIN ctx.keys : name # step.name => keys[name] = ctx.keys[name]
      BY <1>3 DEF NewKey, Put
    <2>2. here \in Addresses /\ here[1] = run /\ here[2] = pos
      BY <1>0, <1>3 DEF NewKey, RunOK, here
    <2>3. \A name \in DOMAIN ctx.keys :
             /\ ctx.keys[name] \in Addresses /\ ctx.keys[name][1] = run
             /\ ctx.keys[name][2] < pos /\ ctx.keys[name][2] \in Nat
      BY <1>3, AddressFacts DEF KeysOK, NewKey
    <2>4. run' = run /\ pos' >= pos /\ pos' \in Nat /\ (pc' = "step" => pos' > pos)
      BY <1>0, <1>3, Forward DEF NewKey
    <2> HIDE DEF keys
    <2>5. ASSUME NEW name \in DOMAIN keys
          PROVE  /\ keys[name] \in Addresses /\ keys[name][1] = run'
                 /\ keys[name][2] <= pos' /\ (pc' = "step" => keys[name][2] < pos')
      <3>1. CASE name = step.name
        BY <1>0, <2>1, <2>2, <2>4, <3>1
      <3>2. CASE name # step.name
        BY <1>0, <2>1, <2>3, <2>4, <3>2
      <3> QED
        BY <3>1, <3>2
    <2>6. \A a, b \in DOMAIN keys : keys[a] = keys[b] => a = b
      BY <1>0, <2>1, <2>2, <2>3 DEF KeysOK
    <2> QED
      BY <2>5, <2>6 DEF KeysOK, keys
  <1> QED
    BY <1>1, <1>2, <1>3, ContextStep

(* The transaction that a step of the scenario sends.                      *)
Sends ==
    /\ pc = "step" /\ pc' = "wait" /\ UNCHANGED <<pos, ledger>>
    /\ \/ /\ step.do = "fund" /\ step.n > 0
          /\ Submit(Faucet, here, step.n) /\ ctx'.keys = Put(ctx.keys, step.name, here)
       \/ /\ step.do = "transfer" /\ Known(step.from) /\ Known(step.to)
          /\ Submit(ctx.keys[step.from], ctx.keys[step.to], step.n) /\ ctx' = ctx

Lands == \E k \in DOMAIN txs : Land(k) \/ Expire(k)

(* What a step does to the transactions and the ledger.                    *)
LEMMA LedgerKinds ==
    ASSUME RunOK, ContextOK, [Next]_vars
    PROVE  \/ Sends /\ final' = final
           \/ Lands
           \/ Root
           \/ UNCHANGED <<txs, ledger, final>> /\ (pc' = "wait" => pc = "wait" /\ ctx' = ctx)
  <1>1. CASE Start
    BY <1>1 DEF Start, node
  <1>2. CASE Fund
    BY <1>2 DEF Fund, Suspend, WithKey, Sends, node, ContextOK
  <1>3. CASE Transfer
    BY <1>3 DEF Transfer, Suspend, Sends, node
  <1>4. CASE AddKeypair \/ Confirmed
    BY <1>4 DEF AddKeypair, Confirmed, Complete, node
  <1>5. CASE Check \/ Poll
    BY <1>5 DEF Check, Poll, Complete, FailStep, node
  <1>6. CASE WaitSlots \/ Snapshot \/ Read
    BY <1>6 DEF WaitSlots, Snapshot, Read, Complete, Suspend, node
  <1>7. CASE KeyError \/ Raise
    BY <1>7 DEF KeyError, Raise, FailStep, node
  <1>8. CASE Root \/ Lands \/ Done \/ UNCHANGED vars
    BY <1>8 DEF Done, vars
  <1> QED
    BY <1>1, <1>2, <1>3, <1>4, <1>5, <1>6, <1>7, <1>8 DEF Next, Proceed, Lands

LEMMA StepFacts ==
    ASSUME RunOK
    PROVE  step.do \in Operations /\ (step.do \in {"fund", "transfer"} => step.n \in Nat)
  BY ScriptFacts DEF RunOK, step, IsStep

LEMMA SentOK ==
    ASSUME RunOK, KeysOK, Sends
    PROVE  here \in Addresses /\ TxOK(here, txs'[here])
  <1>1. here \in Addresses /\ here[1] = run /\ here[2] = pos
    BY AddressFacts DEF Sends, RunOK, here
  <1>2. step.n \in Nat
    BY StepFacts DEF Sends
  <1>3. PICK from, to : txs'[here] = [status |-> "sent", from |-> from, to |-> to, n |-> step.n]
           /\ to \in Addresses /\ to[1] = run /\ to[2] <= pos
           /\ (from = Faucet \/ (from \in Addresses /\ from[1] = run))
    <2>1. CASE step.do = "fund"
      BY <1>1, <2>1, AddressFacts DEF Sends, Submit, Put
    <2>2. CASE step.do = "transfer"
      BY <2>2 DEF Sends, Submit, Put, KeysOK, Known
    <2> QED
      BY <2>1, <2>2 DEF Sends
  <1> QED
    BY <1>1, <1>2, <1>3 DEF TxOK, Statuses

LEMMA TxsStep ==
    ASSUME RunOK, ContextOK, KeysOK, TxsOK, [Next]_vars
    PROVE  TxsOK'
  <1>0. \A k \in DOMAIN txs : k[1] \in Nat /\ k[2] \in Nat
    BY AddressFacts DEF TxsOK
  <1>1. ASSUME NEW k \in DOMAIN txs
        PROVE  k[1] <= run' /\ (k[1] = run' => k[2] <= pos' /\ (pc' = "step" => k[2] < pos'))
    <2>1. CASE Start
      BY <1>0, <2>1, AddressFacts DEF Start, TxsOK
    <2>2. CASE ~Start
      BY <1>0, <2>2, AddressFacts, Forward DEF TxsOK
    <2> QED
      BY <2>1, <2>2
  <1>2. CASE UNCHANGED txs
    BY <1>1, <1>2 DEF TxsOK
  <1>3. CASE Sends
    <2>1. here \in Addresses /\ TxOK(here, txs'[here])
      BY <1>3, SentOK
    <2>2. DOMAIN txs' = DOMAIN txs \cup {here} /\ \A k \in DOMAIN txs : k # here => txs'[k] = txs[k]
      BY <1>3 DEF Sends, Submit, Put
    <2>3. run' = run /\ pos' = pos /\ pc' # "step" /\ here[1] = run /\ here[2] = pos
      BY <1>3, Forward DEF Sends, Start, here
    <2>4. \A k \in DOMAIN txs' : k \in Addresses /\ TxOK(k, txs'[k])
      BY <2>1, <2>2 DEF TxsOK
    <2>5. \A k \in DOMAIN txs' :
             k[1] <= run' /\ (k[1] = run' => k[2] <= pos' /\ (pc' = "step" => k[2] < pos'))
      BY <1>1, <2>2, <2>3, AddressFacts
    <2> QED
      BY <2>4, <2>5 DEF TxsOK
  <1>4. CASE Lands
    <2>1. PICK k \in DOMAIN txs, st \in Statuses : txs' = [txs EXCEPT ![k].status = st]
      BY <1>4 DEF Lands, Land, Expire, Statuses
    <2>2. DOMAIN txs' = DOMAIN txs /\ \A j \in DOMAIN txs : TxOK(j, txs'[j])
      BY <2>1 DEF TxsOK, TxOK
    <2> QED
      BY <1>1, <2>2 DEF TxsOK
  <1> QED
    BY <1>2, <1>3, <1>4, LedgerKinds DEF Root

(* A transfer that lands is covered; a balance never becomes negative.     *)
LEMMA CreditedOK ==
    ASSUME ledger \in Ledgers, Fee \in Nat, NEW k, NEW t, TxOK(k, t), Covered(t)
    PROVE  /\ Credited(ledger, t.from, t.to, t.n) \in Ledgers
           /\ \A a \in Addresses : Credited(ledger, t.from, t.to, t.n).bal[a] # 0
                 => ledger.bal[a] # 0 \/ a = t.to
  <1> DEFINE L == Credited(ledger, t.from, t.to, t.n)
             bal(a) == ledger.bal[a] + (IF a = t.to THEN t.n ELSE 0)
                          - (IF a = t.from THEN t.n + Fee ELSE 0)
  <1>1. L = [bal |-> [a \in Addresses |-> bal(a)], age |-> ledger.age + 1]
    BY DEF Credited
  <1>2. Fee \in Nat /\ t.n \in Nat /\ t.to \in Addresses
    BY DEF TxOK
  <1>3. ASSUME NEW a \in Addresses
        PROVE  bal(a) \in Nat /\ (bal(a) # 0 => ledger.bal[a] # 0 \/ a = t.to)
    <2>1. ledger.bal[a] \in Nat
      BY DEF Ledgers
    <2>2. a = t.from => ledger.bal[a] >= t.n + Fee
      BY DEF Covered, TxOK, Faucet, Addresses
    <2>3. bal(a) = ledger.bal[a] + (IF a = t.to THEN t.n ELSE 0)
                          - (IF a = t.from THEN t.n + Fee ELSE 0)
      OBVIOUS
    <2> QED
      BY <1>2, <2>1, <2>2
  <1> HIDE DEF bal
  <1>4. L \in Ledgers
    BY <1>1, <1>3 DEF Ledgers
  <1> QED
    BY <1>1, <1>3, <1>4

LEMMA LedgerStep ==
    ASSUME RunOK, ContextOK, KeysOK, TxsOK, LedgerOK, [Next]_vars
    PROVE  LedgerOK'
  <1>1. CASE UNCHANGED <<txs, ledger, final>>
    BY <1>1 DEF LedgerOK, Ledgers
  <1>2. CASE Root
    BY <1>2 DEF Root, LedgerOK, Ledgers
  <1>3. CASE Sends /\ final' = final
    <2>1. here \notin DOMAIN txs
      BY <1>3, AddressFacts DEF TxsOK, Sends, here
    <2>2. DOMAIN txs' = DOMAIN txs \cup {here} /\ \A k \in DOMAIN txs : txs'[k] = txs[k]
      BY <1>3, <2>1 DEF Sends, Submit, Put
    <2>3. ledger' = ledger
      BY <1>3 DEF Sends
    <2> QED
      BY <1>3, <2>2, <2>3 DEF LedgerOK, Ledgers
  <1>4. CASE Lands
    <2>1. PICK k \in DOMAIN txs, st \in Statuses :
             /\ txs' = [txs EXCEPT ![k].status = st] /\ final' = final
             /\ \/ ledger' = ledger \/ ledger' = [ledger EXCEPT !.age = @ + 1]
                \/ /\ Covered(txs[k])
                   /\ ledger' = Credited(ledger, txs[k].from, txs[k].to, txs[k].n)
      BY <1>4 DEF Lands, Land, Expire, Statuses, node
    <2>2. /\ DOMAIN txs' = DOMAIN txs
          /\ \A j \in DOMAIN txs : TxOK(j, txs[j]) /\ txs'[j].to = txs[j].to
      BY <2>1 DEF TxsOK, TxOK
    <2>3. CASE ledger' = ledger \/ ledger' = [ledger EXCEPT !.age = @ + 1]
      <3>1. ledger'.bal = ledger.bal /\ ledger' \in Ledgers
        BY <2>3 DEF LedgerOK, Ledgers
      <3> QED
        BY <2>1, <2>2, <3>1 DEF LedgerOK, Ledgers
    <2>4. CASE /\ Covered(txs[k])
               /\ ledger' = Credited(ledger, txs[k].from, txs[k].to, txs[k].n)
      <3>1. /\ ledger' \in Ledgers
            /\ \A a \in Addresses : ledger'.bal[a] # 0 => ledger.bal[a] # 0 \/ a = txs[k].to
        BY <2>2, <2>4, CreditedOK, ScenarioAssumption DEF LedgerOK, ScenarioAssumption
      <3>2. final' \in Ledgers
        BY <2>1 DEF LedgerOK
      <3> QED
        BY <2>2, <3>1, <3>2 DEF LedgerOK, Ledgers
    <2> QED
      BY <2>1, <2>3, <2>4
  <1> QED
    BY <1>1, <1>2, <1>3, <1>4, LedgerKinds

LEMMA WaitStep ==
    ASSUME RunOK, ContextOK, TxsOK, WaitOK, [Next]_vars
    PROVE  WaitOK'
  <1> SUFFICES ASSUME pc' = "wait" PROVE WaitOK'
    BY DEF WaitOK
  <1>0. ~Start /\ UNCHANGED <<script, run, pos>> /\ here' = here /\ step' = step
    BY Forward DEF Start, here, step
  <1>1. CASE UNCHANGED txs /\ pc = "wait" /\ ctx' = ctx
    BY <1>0, <1>1 DEF WaitOK, Known
  <1>2. CASE Sends
    <2>1. here \in DOMAIN txs' /\ txs'[here].n = step.n
      BY <1>2 DEF Sends, Submit, Put
    <2>2. CASE step.do = "fund"
      <3>1. step.name \in DOMAIN ctx'.keys /\ ctx'.keys[step.name] = here
        BY <1>2, <2>2 DEF Sends, Put
      <3>2. step.n > 0 /\ txs'[here].from = Faucet /\ txs'[here].to = here
        BY <1>2, <2>2 DEF Sends, Submit, Put
      <3> QED
        BY <1>0, <2>1, <2>2, <3>1, <3>2 DEF WaitOK
    <2>3. CASE step.do = "transfer"
      <3>1. Known(step.from) /\ Known(step.to) /\ ctx' = ctx
        BY <1>2, <2>3 DEF Sends
      <3>2. txs'[here].from = ctx.keys[step.from] /\ txs'[here].to = ctx.keys[step.to]
        BY <1>2, <2>3 DEF Sends, Submit, Put
      <3> QED
        BY <1>0, <2>1, <2>3, <3>1, <3>2 DEF WaitOK, Known
    <2> QED
      BY <1>2, <2>2, <2>3 DEF Sends
  <1>3. CASE Lands
    <2>1. PICK k \in DOMAIN txs, st \in Statuses : txs' = [txs EXCEPT ![k].status = st]
      BY <1>3 DEF Lands, Land, Expire, Statuses
    <2>2. pc = "wait" /\ ctx' = ctx
      BY <1>3 DEF Lands, Land, Expire
    <2>3. /\ DOMAIN txs' = DOMAIN txs
          /\ \A j \in DOMAIN txs : /\ txs'[j].to = txs[j].to /\ txs'[j].from = txs[j].from
                                   /\ txs'[j].n = txs[j].n
      BY <2>1 DEF TxsOK, TxOK
    <2>4. here \in DOMAIN txs
      BY <2>2 DEF WaitOK
    <2> QED
      BY <1>0, <2>2, <2>3, <2>4 DEF WaitOK, Known
  <1> QED
    BY <1>1, <1>2, <1>3, LedgerKinds DEF Root

LEMMA SystemStep == SystemInv /\ [Next]_vars => SystemInv'
  <1> SUFFICES ASSUME SystemInv, [Next]_vars PROVE SystemInv'
    OBVIOUS
  <1> USE DEF SystemInv
  <1> QED
    BY RunStep, ContextStep, KeysStep, TxsStep, LedgerStep, WaitStep

(* Keypairs, transactions and balances belong to the run that made them,   *)
(* and no balance is negative, whatever transactions are still under way.  *)
THEOREM RunsKeepApart == Spec => []SystemInv
  <1>1. Init => SystemInv
    <2> SUFFICES ASSUME Init PROVE SystemInv
      OBVIOUS
    <2>1. RunOK
      BY ScriptFacts, ScenarioAssumption DEF ScenarioAssumption, Init, RunOK, Under
    <2>2. ContextOK /\ KeysOK /\ TxsOK /\ WaitOK
      BY DEF Init, NewContext, ContextOK, KeysOK, TxsOK, WaitOK
    <2>3. LedgerOK
      BY DEF Init, LedgerOK, Ledgers
    <2> QED
      BY <2>1, <2>2, <2>3 DEF SystemInv
  <1> QED
    BY <1>1, SystemStep, PTL DEF Spec

-----------------------------------------------------------------------------
(* The recursion of Ideal.                                                 *)

Nothing == [bal |-> <<>>, notes |-> <<>>, signed |-> 0, ok |-> TRUE]

FollowsTo(f, m) ==
    f = [n \in 0..m |-> IF n = 0 THEN Nothing ELSE Does(f[n - 1], script[n])]

LEMMA FollowsExists == \A m \in Nat : \E f : FollowsTo(f, m)
  <1> DEFINE Good(m) == \E f : FollowsTo(f, m)
             good == {m \in Nat : Good(m)}
  <1>1. Good(0)
    <2> DEFINE f == [n \in 0..0 |-> Nothing]
    <2>1. FollowsTo(f, 0)
      BY DEF FollowsTo
    <2> HIDE DEF f
    <2> QED
      BY <2>1
  <1>2. ASSUME NEW m \in Nat, Good(m) PROVE Good(m + 1)
    <2>1. PICK f : FollowsTo(f, m)
      BY <1>2
    <2> DEFINE next == Does(f[m], script[m + 1])
               g == [n \in 0..m + 1 |-> IF n = m + 1 THEN next ELSE f[n]]
    <2> HIDE DEF next
    <2>2. ASSUME NEW n \in 0..m + 1
          PROVE  g[n] = IF n = 0 THEN Nothing ELSE Does(g[n - 1], script[n])
      <3>1. CASE n = m + 1
        BY <3>1 DEF next
      <3>2. CASE n # m + 1
        <4>1. n \in 0..m /\ (n # 0 => n - 1 \in 0..m) /\ n - 1 # m + 1
          BY <3>2
        <4>2. f[n] = IF n = 0 THEN Nothing ELSE Does(f[n - 1], script[n])
          BY <2>1, <4>1 DEF FollowsTo
        <4>3. g[n] = f[n] /\ (n # 0 => g[n - 1] = f[n - 1])
          BY <3>2, <4>1
        <4> QED
          BY <4>2, <4>3
      <3> QED
        BY <3>1, <3>2
    <2>3. g = [n \in 0..m + 1 |-> g[n]]
      OBVIOUS
    <2> HIDE DEF g
    <2>4. FollowsTo(g, m + 1)
      BY <2>2, <2>3 DEF FollowsTo
    <2> QED
      BY <2>4
  <1> HIDE DEF Good
  <1>3. good = Nat
    <2>1. good \in SUBSET Nat /\ 0 \in good /\ \A m \in good : m + 1 \in good
      BY <1>1, <1>2
    <2> HIDE DEF good
    <2> QED
      BY <2>1, SetInduction
  <1>4. \A m \in Nat : Good(m)
    BY <1>3
  <1> QED
    BY <1>4 DEF Good

IsIdeal(v) == DOMAIN v = {"bal", "notes", "signed", "ok"}

LEMMA IdealFacts ==
    ASSUME RunOK
    PROVE  /\ Ideal[0] = Nothing
           /\ \A n \in 1..Len(script) : Ideal[n] = Does(Ideal[n - 1], script[n])
           /\ \A n \in 0..Len(script) : IsIdeal(Ideal[n])
  <1>0. Len(script) \in Nat
    BY AddressFacts
  <1> DEFINE I == Ideal
  <1>1. I = CHOOSE f : FollowsTo(f, Len(script))
    BY DEF Ideal, FollowsTo, Nothing
  <1> HIDE DEF I
  <1>2. FollowsTo(I, Len(script))
    BY <1>0, <1>1, FollowsExists
  <1>3. I[0] = Nothing /\ \A n \in 1..Len(script) : I[n] = Does(I[n - 1], script[n])
    BY <1>0, <1>2 DEF FollowsTo
  <1> DEFINE Good(m) == m \in 0..Len(script) => IsIdeal(I[m])
             good == {m \in Nat : Good(m)}
  <1>4. Good(0)
    BY <1>3 DEF Nothing, IsIdeal
  <1>5. ASSUME NEW m \in Nat, Good(m) PROVE Good(m + 1)
    <2> SUFFICES ASSUME m + 1 \in 0..Len(script) PROVE IsIdeal(I[m + 1])
      OBVIOUS
    <2>1. IsIdeal(I[m])
      BY <1>0, <1>5
    <2>2. m + 1 \in 1..Len(script) /\ m + 1 - 1 = m
      BY <1>0
    <2>3. I[m + 1] = Does(I[m], script[m + 1])
      BY <1>3, <2>2
    <2> QED
      BY <2>1, <2>3 DEF IsIdeal, Does
  <1> HIDE DEF Good
  <1>6. good = Nat
    <2>1. good \in SUBSET Nat /\ 0 \in good /\ \A m \in good : m + 1 \in good
      BY <1>4, <1>5
    <2> HIDE DEF good
    <2> QED
      BY <2>1, SetInduction
  <1>7. \A m \in Nat : Good(m)
    BY <1>6
  <1>8. \A n \in 0..Len(script) : IsIdeal(I[n])
    BY <1>0, <1>7 DEF Good
  <1> QED
    BY <1>3, <1>8 DEF I

-----------------------------------------------------------------------------
(* A run does what the script says.                                        *)

(* All went well: no read was behind, nothing was raised and none of the   *)
(* run's transactions has failed.                                          *)
Honest == fresh /\ how # "raised" /\ \A k \in Ours : txs[k].status # "failed"

(* What the run waits or reads for, and what there is before the first.    *)
StageOK ==
    /\ run = 0 => pos = 1 /\ ctx = NewContext
    /\ pc = "poll" => step.do \in {"wait_slots", "facade_wait_slots"}
    /\ pc = "read" => step.do = "snapshot"

(* The balances by name, with the transaction under way if it has landed.  *)
Expected ==
    LET was == Ideal[Reached] IN
    IF pc # "wait" THEN was.bal
    ELSE IF txs[here].status = "ok" THEN Does(was, step).bal
    ELSE IF step.do = "fund" THEN Put(was.bal, step.name, 0)
    ELSE was.bal

Reads(keys, L, bal) ==
    DOMAIN keys = DOMAIN bal /\ \A name \in DOMAIN keys : L.bal[keys[name]] = bal[name]

(* The context is that of the script, and so is the confirmed ledger.      *)
Records(c, v) ==
    /\ v.ok
    /\ Len(c.signatures) = v.signed
    /\ c.balances = v.notes

Matches ==
    /\ Records(ctx, Ideal[Reached])
    /\ Reads(ctx.keys, ledger, Expected)
    /\ \A k \in Ours : txs[k].status = "sent" => pc = "wait" /\ k = here

IdealInv == run > 0 /\ Honest => Matches

LEMMA DoesKey ==
    ASSUME NEW v, NEW s, IsIdeal(v), v.signed \in Int,
           s.do = "add_keypair" \/ (s.do = "fund" /\ s.n = 0)
    PROVE  /\ Does(v, s).bal = Put(v.bal, s.name, 0) /\ Does(v, s).notes = Put(v.notes, s.name, 0)
           /\ Does(v, s).signed = v.signed /\ Does(v, s).ok = v.ok
  <1>1. CASE s.do = "add_keypair"
    <2>1. Does(v, s) = [v EXCEPT !.bal = Put(@, s.name, 0), !.notes = Put(@, s.name, 0)]
      BY <1>1 DEF Does, Checks
    <2> QED
      BY <2>1 DEF IsIdeal
  <1>2. CASE s.do = "fund" /\ s.n = 0
    <2>1. Does(v, s) = [v EXCEPT !.bal = Put(@, s.name, s.n), !.notes = Put(@, s.name, s.n),
                                 !.signed = @ + (IF s.n > 0 THEN 1 ELSE 0)]
      BY <1>2 DEF Does, Checks
    <2> QED
      BY <1>2, <2>1 DEF IsIdeal
  <1> QED
    BY <1>1, <1>2

LEMMA DoesFund ==
    ASSUME NEW v, NEW s, IsIdeal(v), s.do = "fund", s.n > 0
    PROVE  /\ Does(v, s).bal = Put(v.bal, s.name, s.n)
           /\ Does(v, s).notes = Put(v.notes, s.name, s.n)
           /\ Does(v, s).signed = v.signed + 1 /\ Does(v, s).ok = v.ok
  <1>1. Does(v, s) = [v EXCEPT !.bal = Put(@, s.name, s.n), !.notes = Put(@, s.name, s.n),
                               !.signed = @ + (IF s.n > 0 THEN 1 ELSE 0)]
    BY DEF Does, Checks
  <1> QED
    BY <1>1 DEF IsIdeal

LEMMA DoesTransfer ==
    ASSUME NEW v, NEW s, IsIdeal(v), s.do = "transfer"
    PROVE  /\ Does(v, s).bal = Paid(v.bal, s.from, s.to, s.n)
           /\ Does(v, s).notes = v.notes
           /\ Does(v, s).signed = v.signed + 1 /\ Does(v, s).ok = v.ok
  <1>1. Does(v, s) = [v EXCEPT !.bal = Paid(@, s.from, s.to, s.n), !.signed = @ + 1]
    BY DEF Does, Checks
  <1> QED
    BY <1>1 DEF IsIdeal

LEMMA PaidFacts ==
    ASSUME NEW bal, NEW from, NEW to, NEW n, from \in DOMAIN bal, to \in DOMAIN bal
    PROVE  /\ DOMAIN Paid(bal, from, to, n) = DOMAIN bal
           /\ Paid(bal, from, to, n)[to] = (IF from = to THEN bal[to] - n - Fee ELSE bal[to]) + n
           /\ from # to => Paid(bal, from, to, n)[from] = bal[from] - n - Fee
           /\ \A a \in DOMAIN bal : a \notin {from, to} => Paid(bal, from, to, n)[a] = bal[a]
  BY DEF Paid

LEMMA DoesCheck ==
    ASSUME NEW v, NEW s, IsIdeal(v), s.do \in Checks
    PROVE  /\ Does(v, s).bal = v.bal
           /\ Does(v, s).notes = Put(v.notes, s.name, v.bal[s.name])
           /\ Does(v, s).signed = v.signed
           /\ Does(v, s).ok = (v.ok /\ Holds(s, v.bal[s.name], ValueAt(v.notes, s.name, 0)))
  <1> DEFINE ok == v.ok /\ Holds(s, v.bal[s.name], ValueAt(v.notes, s.name, 0))
  <1>1. Does(v, s) = [v EXCEPT !.ok = ok, !.notes = Put(@, s.name, v.bal[s.name])]
    BY DEF Does, Checks
  <1> HIDE DEF ok
  <1>2. /\ Does(v, s).bal = v.bal
        /\ Does(v, s).notes = Put(v.notes, s.name, v.bal[s.name])
        /\ Does(v, s).signed = v.signed
        /\ Does(v, s).ok = ok
    BY <1>1 DEF IsIdeal
  <1> QED
    BY <1>2 DEF ok

LEMMA DoesNothing ==
    ASSUME NEW v, NEW s, s.do \in {"wait_slots", "facade_wait_slots", "snapshot"}
    PROVE  Does(v, s) = v
  BY DEF Does, Checks

LEMMA StageStep == RunOK /\ StageOK /\ [Next]_vars => StageOK'
  <1> SUFFICES ASSUME RunOK, StageOK, [Next]_vars PROVE StageOK'
    OBVIOUS
  <1>0. run \in Nat /\ (pc # "over" => run > 0)
    BY AddressFacts DEF RunOK
  <1>1. CASE Start
    BY <1>0, <1>1 DEF Start, StageOK
  <1>2. CASE AddKeypair \/ Confirmed
    BY <1>0, <1>2 DEF AddKeypair, Confirmed, Complete, StageOK
  <1>3. CASE Fund \/ Transfer
    BY <1>0, <1>3 DEF Fund, Transfer, Suspend, StageOK
  <1>4. CASE Check
    BY <1>0, <1>4 DEF Check, Complete, FailStep, StageOK
  <1>5. CASE WaitSlots \/ Snapshot
    BY <1>0, <1>5 DEF WaitSlots, Snapshot, Suspend, StageOK, step
  <1>6. CASE Poll
    BY <1>0, <1>6 DEF Poll, Complete, FailStep, StageOK, step
  <1>7. CASE Read
    BY <1>0, <1>7 DEF Read, Complete, Suspend, StageOK, step
  <1>8. CASE KeyError \/ Raise
    BY <1>0, <1>8 DEF KeyError, Raise, FailStep, StageOK
  <1>9. CASE Root \/ Lands \/ Done \/ UNCHANGED vars
    BY <1>0, <1>9 DEF Root, Lands, Land, Expire, Done, vars, StageOK, step
  <1> QED
    BY <1>1, <1>2, <1>3, <1>4, <1>5, <1>6, <1>7, <1>8, <1>9 DEF Next, Proceed, Lands

LEMMA HonestBefore ==
    ASSUME SystemInv, [Next]_vars, ~Start, Honest'
    PROVE  Honest /\ UNCHANGED <<script, run>>
  <1>1. UNCHANGED <<script, run>>
    BY Forward DEF SystemInv
  <1>2. fresh
    <2>1. CASE AddKeypair \/ Fund \/ Transfer \/ Confirmed \/ WaitSlots
      BY <2>1 DEF AddKeypair, Fund, Transfer, Confirmed, WaitSlots, Honest
    <2>2. CASE Poll \/ Snapshot \/ Read \/ KeyError \/ Raise
      BY <2>2 DEF Poll, Snapshot, Read, KeyError, Raise, Honest
    <2>3. CASE Check
      BY <2>3 DEF Check, Honest
    <2>4. CASE Root \/ Lands \/ Done \/ UNCHANGED vars
      BY <2>4 DEF Root, Lands, Land, Expire, Done, vars, Honest
    <2> QED
      BY <2>1, <2>2, <2>3, <2>4 DEF Next, Proceed, Lands
  <1>3. how # "raised"
    BY StepKinds DEF SystemInv, RunOK, Under, Stays, Honest
  <1>4. ASSUME NEW k \in Ours PROVE txs[k].status # "failed"
    <2>1. k \in Ours' => txs'[k].status # "failed"
      BY DEF Honest
    <2>2. k \in DOMAIN txs /\ k \in Addresses /\ DOMAIN txs[k] = {"status", "from", "to", "n"}
      BY DEF Ours, SystemInv, TxsOK, TxOK
    <2>3. k \in DOMAIN txs' => k \in Ours'
      BY <1>1 DEF Ours
    <2>4. CASE UNCHANGED txs
      BY <2>1, <2>2, <2>3, <2>4
    <2>5. CASE Sends
      <3>1. here # k
        BY <2>2, <2>5, AddressFacts DEF SystemInv, TxsOK, Sends, here
      <3> QED
        BY <2>1, <2>2, <2>3, <2>5, <3>1 DEF Sends, Submit, Put
    <2>6. CASE Lands
      <3>1. PICK j \in DOMAIN txs, st \in Statuses :
               txs[j].status = "sent" /\ txs' = [txs EXCEPT ![j].status = st]
        BY <2>6 DEF Lands, Land, Expire, Statuses
      <3> QED
        BY <2>1, <2>2, <2>3, <3>1
    <2> QED
      BY <2>4, <2>5, <2>6, LedgerKinds DEF SystemInv, Root
  <1> QED
    BY <1>1, <1>2, <1>3, <1>4 DEF Honest

LEMMA SameIdeal ==
    ASSUME UNCHANGED script
    PROVE  Ideal' = Ideal
  BY DEF Ideal

LEMMA ReachedFacts ==
    ASSUME RunOK
    PROVE  /\ Reached \in 0..Len(script) /\ IsIdeal(Ideal[Reached])
           /\ pc # "over" => Reached = pos - 1
  <1>1. Reached \in 0..Len(script) /\ (pc # "over" => Reached = pos - 1)
    BY AddressFacts DEF Reached, RunOK
  <1> QED
    BY <1>1, IdealFacts

(* The end of a step of the scenario.                                      *)
LEMMA Advance ==
    ASSUME SystemInv, UNCHANGED script, pc \in Under, NEW c, Complete(c)
    PROVE  /\ Ideal[Reached]' = Does(Ideal[Reached], step)
           /\ Expected' = Does(Ideal[Reached], step).bal
           /\ pc' # "wait" /\ ctx' = c
  <1>1. pos \in 1..Len(script) /\ Len(script) \in Nat /\ how # "returned" /\ Reached = pos - 1
    BY ReachedFacts, AddressFacts DEF SystemInv, RunOK, Under
  <1>2. Reached' = pos /\ pc' # "wait" /\ ctx' = c
    BY <1>1 DEF Complete, Reached
  <1>3. Ideal' = Ideal /\ Ideal[pos] = Does(Ideal[pos - 1], script[pos])
    BY <1>1, SameIdeal, IdealFacts DEF SystemInv
  <1>4. Ideal[Reached]' = Does(Ideal[Reached], step)
    BY <1>1, <1>2, <1>3 DEF step
  <1> QED
    BY <1>2, <1>4 DEF Expected

LEMMA NothingHere ==
    ASSUME SystemInv, pc = "step"
    PROVE  ledger.bal[here] = 0
  <1>1. here \in Addresses /\ run \in Nat /\ pos \in Nat
    BY AddressFacts DEF SystemInv, RunOK
  <1>2. ASSUME NEW k \in DOMAIN txs, txs[k].to = here PROVE FALSE
    <2>1. k[1] = run /\ pos <= k[2] /\ k[2] \in Nat
      BY <1>2, AddressFacts DEF SystemInv, TxsOK, TxOK, here
    <2>2. k[2] < pos
      BY <1>2, <2>1 DEF SystemInv, TxsOK
    <2> QED
      BY <1>1, <2>1, <2>2
  <1> QED
    BY <1>1, <1>2 DEF SystemInv, LedgerOK

(* What holds of a run before a step of the scenario that completes.       *)
MatchesNow ==
    /\ SystemInv /\ StageOK /\ Matches /\ UNCHANGED <<script, run>> /\ run > 0 /\ Honest'

LEMMA StartMatches ==
    ASSUME SystemInv, Start
    PROVE  Matches'
  <1>1. Reached' = 0 /\ Ideal' = Ideal /\ Ideal[0] = Nothing
    BY SameIdeal, IdealFacts DEF Start, Reached, SystemInv
  <1>2. ctx' = NewContext /\ Expected' = Nothing.bal
    BY <1>1 DEF Start, Expected
  <1>3. Ours' = {}
    BY AddressFacts DEF Start, Ours, SystemInv, TxsOK
  <1> QED
    BY <1>1, <1>2, <1>3 DEF Matches, Records, Reads, Nothing, NewContext

LEMMA KeypairMatches ==
    ASSUME MatchesNow, AddKeypair
    PROVE  Matches'
  <1> DEFINE v == Ideal[Reached]
             c == Note(WithKey(step.name), step.name, 0)
  <1>1. Complete(c) /\ UNCHANGED <<txs, ledger>> /\ pc = "step"
        /\ (step.do = "add_keypair" \/ (step.do = "fund" /\ step.n = 0))
    BY DEF AddKeypair, node
  <1>2. /\ Ideal[Reached]' = Does(v, step) /\ Expected' = Does(v, step).bal
        /\ pc' # "wait" /\ ctx' = c
    BY <1>1, Advance DEF MatchesNow, Under
  <1>3. IsIdeal(v) /\ v.signed \in Int
    BY ReachedFacts DEF MatchesNow, SystemInv, Matches, Records, ContextOK
  <1>4. /\ Does(v, step).bal = Put(v.bal, step.name, 0)
        /\ Does(v, step).notes = Put(v.notes, step.name, 0)
        /\ Does(v, step).signed = v.signed /\ Does(v, step).ok = v.ok
    BY <1>1, <1>3, DoesKey
  <1>5. c.keys = Put(ctx.keys, step.name, here) /\ c.balances = Put(ctx.balances, step.name, 0)
        /\ c.signatures = ctx.signatures
    BY DEF Note, WithKey, MatchesNow, SystemInv, ContextOK
  <1>6. Records(c, Does(v, step))
    BY <1>4, <1>5 DEF MatchesNow, Matches, Records
  <1>7. ledger.bal[here] = 0
    BY <1>1, NothingHere DEF MatchesNow
  <1>8. Reads(c.keys, ledger, Put(v.bal, step.name, 0))
    <2>1. Reads(ctx.keys, ledger, v.bal)
      BY <1>1 DEF MatchesNow, Matches, Expected
    <2> QED
      BY <1>5, <1>7, <2>1 DEF Reads, Put
  <1>9. \A k \in Ours' : txs'[k].status # "sent"
    BY <1>1 DEF MatchesNow, Matches, Ours
  <1> QED
    BY <1>1, <1>2, <1>4, <1>6, <1>8, <1>9 DEF Matches

(* A transaction is sent: the ledger does not yet know it.                 *)
LEMMA SendMatches ==
    ASSUME MatchesNow, Sends, how' = how,
           ctx'.signatures = ctx.signatures, ctx'.balances = ctx.balances
    PROVE  Matches'
  <1> DEFINE v == Ideal[Reached]
  <1>1. pc = "step" /\ pc' = "wait" /\ pos' = pos /\ ledger' = ledger /\ here' = here
        /\ step' = step /\ txs'[here].status = "sent"
    BY DEF Sends, Submit, Put, MatchesNow, here, step
  <1>2. Reached' = Reached /\ Ideal' = Ideal
    BY <1>1, SameIdeal DEF Reached, MatchesNow
  <1>3. Reads(ctx.keys, ledger, v.bal) /\ Records(ctx, v)
    BY <1>1 DEF MatchesNow, Matches, Expected
  <1>4. Records(ctx, v)'
    BY <1>2, <1>3 DEF Records
  <1>5. Reads(ctx.keys, ledger, Expected)'
    <2>1. CASE step.do = "fund"
      <3>1. Expected' = Put(v.bal, step.name, 0)
        BY <1>1, <1>2, <2>1 DEF Expected
      <3>2. ctx'.keys = Put(ctx.keys, step.name, here) /\ ledger.bal[here] = 0
        BY <1>1, <2>1, NothingHere DEF Sends, MatchesNow
      <3> QED
        BY <1>1, <1>3, <3>1, <3>2 DEF Reads, Put
    <2>2. CASE step.do = "transfer"
      <3>1. Expected' = v.bal /\ ctx' = ctx
        BY <1>1, <1>2, <2>2 DEF Expected, Sends
      <3> QED
        BY <1>1, <1>3, <3>1 DEF Reads
    <2> QED
      BY <2>1, <2>2 DEF Sends
  <1>6. \A k \in Ours' : txs'[k].status = "sent" => k = here
    BY <1>1 DEF MatchesNow, Matches, Ours, Sends, Submit, Put
  <1> QED
    BY <1>1, <1>4, <1>5, <1>6 DEF Matches

LEMMA ConfirmedMatches ==
    ASSUME MatchesNow, Confirmed
    PROVE  Matches'
  <1> DEFINE v == Ideal[Reached]
             signed == [ctx EXCEPT !.signatures = Append(@, here)]
  <1>1. PICK c : /\ c = IF step.do = "fund" THEN Note(signed, step.name, step.n) ELSE signed
                 /\ Complete(c) /\ UNCHANGED <<txs, ledger>> /\ pc = "wait"
                 /\ txs[here].status \in {"ok", "failed"}
    BY DEF Confirmed, node, Accepts
  <1>2. /\ Ideal[Reached]' = Does(v, step) /\ Expected' = Does(v, step).bal
        /\ pc' # "wait" /\ ctx' = c
    BY <1>1, Advance DEF MatchesNow, Under
  <1>3. IsIdeal(v) /\ Records(ctx, v)
    BY ReachedFacts DEF MatchesNow, SystemInv, Matches
  <1>4. here \in Ours /\ Ours' = Ours
    BY <1>1 DEF MatchesNow, SystemInv, WaitOK, Ours, here
  <1>5. txs[here].status = "ok"
    BY <1>1, <1>4 DEF MatchesNow, Honest
  <1>6. Expected = Does(v, step).bal
    BY <1>1, <1>5 DEF Expected
  <1>7. /\ c.keys = ctx.keys /\ Len(c.signatures) = Len(ctx.signatures) + 1
        /\ c.balances = IF step.do = "fund" THEN Put(ctx.balances, step.name, step.n)
                        ELSE ctx.balances
    BY <1>1 DEF Note, MatchesNow, SystemInv, ContextOK
  <1>8. Records(c, Does(v, step))
    <2>1. CASE step.do = "fund"
      <3>1. step.n > 0
        BY <1>1, <2>1 DEF MatchesNow, SystemInv, WaitOK
      <3> QED
        BY <1>3, <1>7, <2>1, <3>1, DoesFund DEF Records
    <2>2. CASE step.do = "transfer"
      BY <1>3, <1>7, <2>2, DoesTransfer DEF Records
    <2> QED
      BY <1>1, <2>1, <2>2 DEF MatchesNow, SystemInv, WaitOK
  <1>9. Reads(c.keys, ledger, Does(v, step).bal)
    BY <1>6, <1>7 DEF MatchesNow, Matches, Reads
  <1>10. \A k \in Ours' : txs'[k].status # "sent"
    BY <1>1, <1>4, <1>5 DEF MatchesNow, Matches
  <1> QED
    BY <1>1, <1>2, <1>8, <1>9, <1>10 DEF Matches

LEMMA CheckMatches ==
    ASSUME MatchesNow, Check
    PROVE  Matches'
  <1> DEFINE v == Ideal[Reached]
             actual == final.bal[ctx.keys[step.name]]
             c == Note(ctx, step.name, actual)
  <1>1. /\ Complete(c) /\ UNCHANGED <<txs, ledger>> /\ pc = "step"
        /\ step.do \in Checks /\ step.name \in DOMAIN ctx.keys
        /\ actual = ledger.bal[ctx.keys[step.name]]
        /\ Holds(step, actual, ValueAt(ctx.balances, step.name, 0))
    <2>1. how' # "raised" /\ fresh'
      BY DEF MatchesNow, Honest
    <2> QED
      BY <2>1 DEF Check, FailStep, Known, node
  <1>2. /\ Ideal[Reached]' = Does(v, step) /\ Expected' = Does(v, step).bal
        /\ pc' # "wait" /\ ctx' = c
    BY <1>1, Advance DEF MatchesNow, Under
  <1>3. IsIdeal(v) /\ Records(ctx, v) /\ Reads(ctx.keys, ledger, v.bal)
    BY <1>1, ReachedFacts DEF MatchesNow, SystemInv, Matches, Expected
  <1>4. actual = v.bal[step.name]
    BY <1>1, <1>3 DEF Reads
  <1>5. /\ c.keys = ctx.keys /\ c.signatures = ctx.signatures
        /\ c.balances = Put(ctx.balances, step.name, actual)
    BY DEF Note, MatchesNow, SystemInv, ContextOK
  <1> HIDE DEF c, actual, v
  <1>6. Records(c, Does(v, step))
    <2>1. v.ok /\ v.notes = ctx.balances /\ v.signed = Len(ctx.signatures)
      BY <1>3 DEF Records
    <2>2. Holds(step, v.bal[step.name], ValueAt(v.notes, step.name, 0))
      BY <1>1, <1>4, <2>1
    <2>3. Does(v, step).ok
      BY <1>1, <1>3, <2>1, <2>2, DoesCheck, Zenon
    <2>4. Does(v, step).notes = c.balances /\ Does(v, step).signed = Len(c.signatures)
      BY <1>1, <1>3, <1>4, <1>5, <2>1, DoesCheck
    <2> QED
      BY <2>3, <2>4 DEF Records
  <1>7. Reads(c.keys, ledger, Does(v, step).bal)
    BY <1>1, <1>3, <1>5, DoesCheck
  <1>8. \A k \in Ours' : txs'[k].status # "sent"
    BY <1>1 DEF MatchesNow, Matches, Ours
  <1> QED
    BY <1>1, <1>2, <1>6, <1>7, <1>8 DEF Matches, v

LEMMA OwnLands ==
    ASSUME MatchesNow, pc = "wait", txs[here].status = "sent", UNCHANGED <<pos, pc, how, ctx>>,
           ledger' = Credited(ledger, txs[here].from, txs[here].to, txs[here].n),
           txs'[here].status = "ok"
    PROVE  Reads(ctx.keys, ledger, Expected)'
  <1> DEFINE v == Ideal[Reached]
             k == here
  <1>1. Reached' = Reached /\ Ideal' = Ideal /\ here' = here /\ step' = step
    BY SameIdeal DEF MatchesNow, Reached, here, step
  <1>2. Expected' = Does(v, step).bal /\ IsIdeal(v)
    BY <1>1, ReachedFacts DEF Expected, MatchesNow, SystemInv
  <1>3. /\ \A name \in DOMAIN ctx.keys :
              ctx.keys[name] \in Addresses /\ ledger.bal[ctx.keys[name]] \in Nat
        /\ \A a, b \in DOMAIN ctx.keys : ctx.keys[a] = ctx.keys[b] => a = b
        /\ Faucet \notin Addresses
    BY AddressFacts DEF MatchesNow, SystemInv, KeysOK, LedgerOK, Ledgers
  <1>4. \A a \in Addresses :
           ledger'.bal[a] = ledger.bal[a] + (IF a = txs[k].to THEN txs[k].n ELSE 0)
                               - (IF a = txs[k].from THEN txs[k].n + Fee ELSE 0)
    BY DEF Credited
  <1>5. txs[k].n \in Nat /\ txs[k].n = step.n /\ Fee \in Nat
    BY ScenarioAssumption DEF MatchesNow, SystemInv, TxsOK, TxOK, WaitOK, ScenarioAssumption
  <1>6. CASE step.do = "fund"
    <2>1. /\ step.n > 0 /\ step.name \in DOMAIN ctx.keys /\ ctx.keys[step.name] = k
          /\ txs[k].from = Faucet /\ txs[k].to = k
      BY <1>6 DEF MatchesNow, SystemInv, WaitOK
    <2>2. Reads(ctx.keys, ledger, Put(v.bal, step.name, 0))
      BY <1>6 DEF MatchesNow, Matches, Expected
    <2>3. Expected' = Put(v.bal, step.name, step.n)
      BY <1>2, <1>6, <2>1, DoesFund
    <2>4. DOMAIN ctx.keys = DOMAIN Put(v.bal, step.name, step.n)
      BY <2>2 DEF Reads, Put
    <2>5. ASSUME NEW name \in DOMAIN ctx.keys
          PROVE  ledger'.bal[ctx.keys[name]] = Put(v.bal, step.name, step.n)[name]
      <3>1. CASE name = step.name
        <4>1. ledger.bal[k] = 0
          BY <2>1, <2>2 DEF Reads, Put
        <4>2. ledger'.bal[k] = 0 + step.n - 0
          BY <1>3, <1>4, <1>5, <2>1, <4>1
        <4> QED
          BY <1>5, <2>1, <2>4, <3>1, <4>2 DEF Put
      <3>2. CASE name # step.name
        <4>1. ctx.keys[name] # k /\ ctx.keys[name] # Faucet
          BY <1>3, <2>1, <3>2
        <4>2. ledger'.bal[ctx.keys[name]] = ledger.bal[ctx.keys[name]]
          BY <1>3, <1>4, <2>1, <4>1
        <4> QED
          BY <2>2, <2>4, <3>2, <4>2 DEF Reads, Put
      <3> QED
        BY <3>1, <3>2
    <2> QED
      BY <2>3, <2>4, <2>5 DEF Reads
  <1>7. CASE step.do = "transfer"
    <2>1. /\ step.from \in DOMAIN ctx.keys /\ step.to \in DOMAIN ctx.keys
          /\ txs[k].from = ctx.keys[step.from] /\ txs[k].to = ctx.keys[step.to]
      BY <1>7 DEF MatchesNow, SystemInv, WaitOK, Known
    <2>2. Reads(ctx.keys, ledger, v.bal)
      BY <1>7 DEF MatchesNow, Matches, Expected
    <2>3. Expected' = Paid(v.bal, step.from, step.to, step.n)
      BY <1>2, <1>7, DoesTransfer
    <2>4. /\ DOMAIN Paid(v.bal, step.from, step.to, step.n) = DOMAIN ctx.keys
          /\ Paid(v.bal, step.from, step.to, step.n)[step.to] =
                (IF step.from = step.to THEN v.bal[step.to] - step.n - Fee ELSE v.bal[step.to]) + step.n
          /\ step.from # step.to =>
                Paid(v.bal, step.from, step.to, step.n)[step.from] = v.bal[step.from] - step.n - Fee
          /\ \A a \in DOMAIN ctx.keys : a \notin {step.from, step.to} =>
                Paid(v.bal, step.from, step.to, step.n)[a] = v.bal[a]
      BY <2>1, <2>2, PaidFacts DEF Reads
    <2> DEFINE paid == Paid(v.bal, step.from, step.to, step.n)
    <2> HIDE DEF paid
    <2>5. ASSUME NEW name \in DOMAIN ctx.keys
          PROVE  ledger'.bal[ctx.keys[name]] = paid[name]
      <3>1. ledger.bal[ctx.keys[name]] = v.bal[name] /\ v.bal[name] \in Nat
        BY <1>3, <2>2 DEF Reads
      <3>2. /\ ctx.keys[name] = txs[k].to <=> name = step.to
            /\ ctx.keys[name] = txs[k].from <=> name = step.from
        BY <1>3, <2>1
      <3>3. ledger'.bal[ctx.keys[name]] =
               v.bal[name] + (IF name = step.to THEN step.n ELSE 0)
                  - (IF name = step.from THEN step.n + Fee ELSE 0)
        BY <1>3, <1>4, <1>5, <3>1, <3>2
      <3> QED
        BY <1>5, <2>4, <3>1, <3>3 DEF paid
    <2> QED
      BY <2>3, <2>4, <2>5 DEF Reads, paid
  <1> QED
    BY <1>6, <1>7 DEF MatchesNow, SystemInv, WaitOK

(* The end of a step that only waits, or takes a snapshot.                 *)
LEMMA QuietEnd ==
    ASSUME MatchesNow, NEW c, Complete(c), UNCHANGED <<txs, ledger>>, pc \in {"poll", "read"},
           c.keys = ctx.keys, c.signatures = ctx.signatures, c.balances = ctx.balances
    PROVE  Matches'
  <1> DEFINE v == Ideal[Reached]
  <1>1. Ideal[Reached]' = v /\ Expected' = v.bal /\ pc' # "wait" /\ ctx' = c
    <2>1. step.do \in {"wait_slots", "facade_wait_slots", "snapshot"}
      BY DEF MatchesNow, StageOK
    <2>2. Does(v, step) = v
      BY <2>1, DoesNothing
    <2> QED
      BY <2>2, Advance DEF MatchesNow, Under
  <1>2. Records(ctx, v) /\ Reads(ctx.keys, ledger, v.bal)
    BY DEF MatchesNow, Matches, Expected
  <1>3. Records(c, v) /\ Reads(c.keys, ledger, v.bal)
    BY <1>2 DEF Records, Reads
  <1>4. \A k \in Ours' : txs'[k].status # "sent"
    BY DEF MatchesNow, Matches, Ours
  <1> QED
    BY <1>1, <1>3, <1>4 DEF Matches

LEMMA QuietMatches ==
    ASSUME MatchesNow, UNCHANGED <<pos, how, ledger, txs>>,
           ctx'.keys = ctx.keys, ctx'.signatures = ctx.signatures, ctx'.balances = ctx.balances,
           pc' = pc \/ (pc # "wait" /\ pc' # "wait")
    PROVE  Matches'
  <1>1. Reached' = Reached /\ Ideal' = Ideal /\ here' = here /\ step' = step /\ Ours' = Ours
    BY SameIdeal DEF Reached, MatchesNow, here, step, Ours
  <1>2. Expected' = Expected
    BY <1>1 DEF Expected
  <1> QED
    BY <1>1, <1>2 DEF MatchesNow, Matches, Records, Reads

(* A transaction of this run is that of its step, one of an earlier run    *)
(* has nothing to do with the addresses of this one.                       *)
LEMMA LandMatches ==
    ASSUME MatchesNow, NEW k \in DOMAIN txs, Land(k)
    PROVE  Matches'
  <1>1. /\ UNCHANGED <<script, run, pos, pc, how, ctx>> /\ txs[k].status = "sent"
        /\ Reached' = Reached /\ Ideal' = Ideal /\ here' = here /\ step' = step
    BY SameIdeal DEF Land, Reached, here, step
  <1>2. TxOK(k, txs[k]) /\ k \in Addresses
    BY DEF MatchesNow, SystemInv, TxsOK
  <1>3. \A name \in DOMAIN ctx.keys : ctx.keys[name] \in Addresses /\ ctx.keys[name][1] = run
    BY DEF MatchesNow, SystemInv, KeysOK
  <1>4. /\ DOMAIN txs' = DOMAIN txs /\ \A j \in DOMAIN txs : j # k => txs'[j] = txs[j]
        /\ txs'[k].status \in {"ok", "failed"} /\ Ours' = Ours
    BY <1>1, <1>2 DEF Land, Ours, TxOK
  <1>5. Records(ctx, Ideal[Reached])'
    BY <1>1 DEF MatchesNow, Matches
  <1>6. \A j \in Ours' : txs'[j].status = "sent" => pc' = "wait" /\ j = here'
    BY <1>1, <1>4 DEF MatchesNow, Matches, Ours
  <1>7. CASE ledger'.bal = ledger.bal /\ k \notin Ours
    <2>1. Expected' = Expected
      <3>1. pc = "wait" => here \in Ours
        BY DEF MatchesNow, SystemInv, WaitOK, Ours, here
      <3> QED
        BY <1>1, <1>4, <1>7, <3>1 DEF Expected, Ours
    <2> QED
      BY <1>1, <1>5, <1>6, <1>7, <2>1 DEF MatchesNow, Matches, Reads
  <1>8. CASE Covered(txs[k]) /\ ledger' = Credited(ledger, txs[k].from, txs[k].to, txs[k].n)
             /\ txs'[k].status = "ok"
    <2>1. \A a \in Addresses :
             ledger'.bal[a] = ledger.bal[a] + (IF a = txs[k].to THEN txs[k].n ELSE 0)
                                 - (IF a = txs[k].from THEN txs[k].n + Fee ELSE 0)
      BY <1>8 DEF Credited
    <2>2. CASE k \notin Ours
      <3>1. Expected' = Expected
        <4>1. pc = "wait" => here \in Ours
          BY DEF MatchesNow, SystemInv, WaitOK, Ours, here
        <4> QED
          BY <1>1, <1>4, <2>2, <4>1 DEF Expected, Ours
      <3>2. k[1] # run
        BY <2>2 DEF Ours
      <3>3. \A a \in Addresses : a[1] = run => a # txs[k].to /\ a # txs[k].from
        BY <1>2, <3>2, AddressFacts DEF TxOK, MatchesNow, SystemInv
      <3>4. \A a \in Addresses : a[1] = run => ledger'.bal[a] = ledger.bal[a]
        <4>1. \A a \in Addresses : ledger.bal[a] \in Nat
          BY DEF MatchesNow, SystemInv, LedgerOK, Ledgers
        <4> QED
          BY <2>1, <3>3, <4>1
      <3> QED
        BY <1>1, <1>3, <1>5, <1>6, <3>1, <3>4 DEF MatchesNow, Matches, Reads
    <2>3. CASE k \in Ours
      <3>1. pc = "wait" /\ k = here
        BY <1>1, <2>3 DEF MatchesNow, Matches
      <3> QED
        BY <1>1, <1>5, <1>6, <1>8, <2>3, <3>1, OwnLands DEF Matches
    <2> QED
      BY <2>2, <2>3
  <1>9. CASE txs'[k].status = "failed" /\ ledger'.bal = ledger.bal
    <2>1. k \notin Ours
      BY <1>4, <1>9 DEF MatchesNow, Honest
    <2> QED
      BY <1>7, <1>9, <2>1
  <1>10. \/ Covered(txs[k]) /\ ledger' = Credited(ledger, txs[k].from, txs[k].to, txs[k].n)
            /\ txs'[k].status = "ok"
         \/ txs'[k].status = "failed" /\ ledger'.bal = ledger.bal
    BY <1>2 DEF Land, TxOK, MatchesNow, SystemInv, LedgerOK, Ledgers
  <1> QED
    BY <1>8, <1>9, <1>10

LEMMA ExpireMatches ==
    ASSUME MatchesNow, NEW k \in DOMAIN txs, Expire(k)
    PROVE  Matches'
  <1>1. /\ UNCHANGED <<script, run, pos, pc, how, ctx, ledger>> /\ txs[k].status = "sent"
        /\ Reached' = Reached /\ Ideal' = Ideal /\ here' = here /\ step' = step
    BY SameIdeal DEF Expire, node, Reached, here, step
  <1>2. /\ DOMAIN txs' = DOMAIN txs /\ \A j \in DOMAIN txs : j # k => txs'[j] = txs[j]
        /\ txs'[k].status = "dropped" /\ Ours' = Ours
    BY <1>1 DEF Expire, Ours, MatchesNow, SystemInv, TxsOK, TxOK
  <1>3. Expected' = Expected
    BY <1>1, <1>2 DEF Expected, MatchesNow, SystemInv, WaitOK
  <1> QED
    BY <1>1, <1>2, <1>3 DEF MatchesNow, Matches, Records, Reads, Ours

LEMMA IdealStep == SystemInv /\ StageOK /\ IdealInv /\ [Next]_vars => IdealInv'
  <1> SUFFICES ASSUME SystemInv, StageOK, IdealInv, [Next]_vars, run' > 0, Honest'
               PROVE  Matches'
    BY DEF IdealInv
  <1>1. CASE Start
    BY <1>1, StartMatches
  <1>2. CASE ~Start
    <2>1. MatchesNow
      BY <1>2, HonestBefore DEF MatchesNow, IdealInv
    <2>2. CASE AddKeypair
      BY <2>1, <2>2, KeypairMatches
    <2>3. CASE Fund
      <3>1. Sends /\ how' = how
        BY <2>1, <2>3 DEF Fund, Suspend, WithKey, Sends, node, MatchesNow, SystemInv, ContextOK
      <3>2. ctx'.signatures = ctx.signatures /\ ctx'.balances = ctx.balances
        BY <2>1, <2>3 DEF Fund, Suspend, WithKey, MatchesNow, SystemInv, ContextOK
      <3> QED
        BY <2>1, <3>1, <3>2, SendMatches
    <2>4. CASE Transfer
      <3>1. Sends /\ how' = how /\ ctx' = ctx
        BY <2>4 DEF Transfer, Suspend, Sends, node
      <3> QED
        BY <2>1, <3>1, SendMatches
    <2>5. CASE Confirmed
      BY <2>1, <2>5, ConfirmedMatches
    <2>6. CASE Check
      BY <2>1, <2>6, CheckMatches
    <2>7. CASE WaitSlots
      <3>1. UNCHANGED <<pos, how, ledger, txs, ctx>> /\ pc = "step" /\ pc' = "poll"
        BY <2>7 DEF WaitSlots, Suspend, node
      <3> QED
        BY <2>1, <3>1, QuietMatches
    <2>8. CASE Poll
      <3>1. how' # "raised"
        BY <2>1 DEF MatchesNow, Honest
      <3>2. \/ Complete(ctx) /\ UNCHANGED <<txs, ledger>> /\ pc = "poll"
            \/ UNCHANGED <<pc, ctx, pos, how, txs, ledger>>
        BY <2>8, <3>1 DEF Poll, FailStep, node
      <3> QED
        BY <2>1, <3>2, QuietEnd, QuietMatches
    <2>9. CASE Snapshot
      <3>1. /\ UNCHANGED <<pos, how, ledger, txs>> /\ pc = "step" /\ pc' = "read"
            /\ \E t, shots : ctx' = [ctx EXCEPT !.tracked = t, !.shots = shots]
        BY <2>9 DEF Snapshot, Suspend, node
      <3>2. /\ ctx'.keys = ctx.keys /\ ctx'.signatures = ctx.signatures
            /\ ctx'.balances = ctx.balances
        BY <2>1, <3>1 DEF MatchesNow, SystemInv, ContextOK
      <3> QED
        BY <2>1, <3>1, <3>2, QuietMatches
    <2>10. CASE Read
      <3>1. PICK c, shots :
               /\ c = [ctx EXCEPT !.shots = shots] /\ UNCHANGED <<txs, ledger>> /\ pc = "read"
               /\ \/ Complete(c)
                  \/ ctx' = c /\ UNCHANGED <<pc, pos, how>>
        <4> DEFINE i == Len(ctx.shots)
                   shot(at, n) == Noted(ctx.shots[i], Head(job.queries), final, at, n)
                   begun(at, n) ==
                       IF Head(job.queries) = <<"epoch">> THEN final ELSE shot(at, n).from
                   read(at, n) ==
                       [ctx.shots EXCEPT ![i] =
                            [shot(at, n) EXCEPT !.from = begun(at, n), !.upto = final]]
        <4>0. PICK at \in slot..MaxSlot, n \in Counts :
                 \/ Complete([ctx EXCEPT !.shots = read(at, n)])
                 \/ Suspend("read", [ctx EXCEPT !.shots = read(at, n)])
          BY <2>10 DEF Read
        <4> DEFINE shots == read(at, n)
        <4>1. /\ UNCHANGED <<txs, ledger>> /\ pc = "read"
              /\ \/ Complete([ctx EXCEPT !.shots = shots])
                 \/ Suspend("read", [ctx EXCEPT !.shots = shots])
          BY <2>10, <4>0 DEF Read, node
        <4> HIDE DEF shots
        <4> QED
          BY <4>1 DEF Suspend
      <3>2. /\ c.keys = ctx.keys /\ c.signatures = ctx.signatures /\ c.balances = ctx.balances
        BY <2>1, <3>1 DEF MatchesNow, SystemInv, ContextOK
      <3> QED
        BY <2>1, <3>1, <3>2, QuietEnd, QuietMatches
    <2>11. CASE KeyError \/ Raise
      BY <2>1, <2>11 DEF KeyError, Raise, FailStep, MatchesNow, Honest
    <2>12. CASE Root \/ Done \/ UNCHANGED vars
      <3>1. UNCHANGED <<pos, how, ledger, txs, ctx, pc>>
        BY <2>12 DEF Root, Done, vars
      <3> QED
        BY <2>1, <3>1, QuietMatches
    <2>13. CASE Lands
      BY <2>1, <2>13, LandMatches, ExpireMatches DEF Lands
    <2> QED
      BY <1>2, <2>2, <2>3, <2>4, <2>5, <2>6, <2>7, <2>8, <2>9, <2>10, <2>11, <2>12, <2>13
         DEF Next, Proceed, Lands
  <1> QED
    BY <1>1, <1>2

(* As far as a run has come without a stale read, an error or a failed     *)
(* transaction, its context is what the script says, whatever earlier runs *)
(* left under way (Scenario.run on a ledger where transactions land late). *)
THEOREM RunsDoAsWritten == Spec => []RunMatchesIdeal
  <1>1. Init => StageOK /\ IdealInv
    BY DEF Init, StageOK, IdealInv
  <1>2. SystemInv /\ StageOK /\ [Next]_vars => StageOK'
    BY StageStep DEF SystemInv
  <1>3. SystemInv /\ StageOK /\ IdealInv => RunMatchesIdeal
    <2> SUFFICES ASSUME SystemInv, StageOK, IdealInv, how # "raised", fresh,
                        \A k \in Ours : txs[k].status # "failed"
                 PROVE  LET ideal == Ideal[Reached]
                        IN  /\ ideal.ok /\ Len(ctx.signatures) = ideal.signed
                            /\ \A name \in DOMAIN ideal.notes :
                                  ctx.balances[name] = ideal.notes[name]
      BY DEF RunMatchesIdeal
    <2>1. Honest
      BY DEF Honest
    <2>2. CASE run > 0
      BY <2>1, <2>2 DEF IdealInv, Matches, Records
    <2>3. CASE run = 0
      <3>1. pos = 1 /\ ctx = NewContext /\ how = "none"
        BY <2>3 DEF StageOK, SystemInv, RunOK
      <3>2. Ideal[Reached] = Nothing
        BY <3>1, IdealFacts DEF SystemInv, Reached
      <3> QED
        BY <3>1, <3>2 DEF Nothing, NewContext
    <2> QED
      BY <2>2, <2>3, AddressFacts DEF SystemInv
  <1> QED
    BY <1>1, <1>2, <1>3, IdealStep, RunsKeepApart, PTL DEF Spec

-----------------------------------------------------------------------------
(* The snapshots of the custom steps.                                      *)

PairsOf(p, f, k) ==
    \A n \in 1..k : f[2 * n - 1] = p[n][1] /\ f[2 * n] = p[n][2]

LEMMA FlattenPairs ==
    ASSUME NEW S, NEW m \in Nat, NEW p \in Rows(m, S), \A i \in 1..m : Len(p[i]) = 2
    PROVE  FlattenSeq(p) \in Seq(S) /\ Len(FlattenSeq(p)) = 2 * m /\ PairsOf(p, FlattenSeq(p), m)
  <1> DEFINE P(k) == [i \in 1..k |-> p[i]]
             F(k) == FlattenSeq(P(k))
             Good(k) == k <= m => F(k) \in Seq(S) /\ Len(F(k)) = 2 * k /\ PairsOf(p, F(k), k)
             good == {k \in Nat : Good(k)}
  <1>0. \A i \in 1..m : p[i] \in Seq(S)
    BY DEF Rows
  <1>1. Good(0)
    <2>1. F(0) = <<>>
      BY DEF FlattenSeq
    <2>2. <<>> \in Seq(S) /\ Len(<<>>) = 2 * 0 /\ PairsOf(p, <<>>, 0)
      BY DEF PairsOf
    <2> HIDE DEF F
    <2> QED
      BY <2>1, <2>2
  <1>2. ASSUME NEW k \in Nat, Good(k) PROVE Good(k + 1)
    <2> SUFFICES ASSUME k + 1 <= m
                 PROVE  /\ F(k + 1) \in Seq(S) /\ Len(F(k + 1)) = 2 * (k + 1)
                        /\ PairsOf(p, F(k + 1), k + 1)
      OBVIOUS
    <2>0. \A i \in 1..k + 1 : i \in 1..m
      OBVIOUS
    <2>1. P(k + 1) \in [1..k + 1 -> Seq(S)]
      BY <1>0, <2>0
    <2>2. [i \in 1..k |-> P(k + 1)[i]] = P(k) /\ P(k + 1)[k + 1] = p[k + 1]
      OBVIOUS
    <2>4. F(k + 1) = F(k) \o p[k + 1]
      <3> HIDE DEF P
      <3> QED
        BY <2>1, <2>2, FlattenLast
    <2> HIDE DEF P, F
    <2>5. PICK f : f = F(k) /\ f \in Seq(S) /\ Len(f) = 2 * k /\ PairsOf(p, f, k)
      BY <1>2
    <2>7. p[k + 1] \in Seq(S) /\ Len(p[k + 1]) = 2
      BY <1>0, <2>0
    <2> DEFINE g == f \o p[k + 1]
    <2>8. g \in Seq(S) /\ Len(g) = 2 * (k + 1)
      <3>1. PICK t \in Seq(S) : t = p[k + 1] /\ Len(t) = 2
        BY <2>7
      <3>2. f \o t \in Seq(S) /\ Len(f \o t) = Len(f) + Len(t)
        BY <2>5
      <3> QED
        BY <2>5, <3>1, <3>2
    <2>9. ASSUME NEW n \in 1..k + 1
          PROVE  g[2 * n - 1] = p[n][1] /\ g[2 * n] = p[n][2]
      <3>1. CASE n = k + 1
        BY <2>5, <2>7, <3>1
      <3>2. CASE n # k + 1
        <4>1. n \in 1..k /\ 2 * n \in 1..Len(f) /\ 2 * n - 1 \in 1..Len(f)
          BY <2>5, <3>2
        <4>2. g[2 * n] = f[2 * n] /\ g[2 * n - 1] = f[2 * n - 1]
          BY <2>5, <2>7, <4>1
        <4> QED
          BY <2>5, <4>1, <4>2 DEF PairsOf
      <3> QED
        BY <3>1, <3>2
    <2> QED
      BY <2>4, <2>5, <2>8, <2>9 DEF PairsOf
  <1> HIDE DEF Good
  <1>3. good = Nat
    <2>1. good \in SUBSET Nat /\ 0 \in good /\ \A k \in good : k + 1 \in good
      BY <1>1, <1>2
    <2> HIDE DEF good
    <2> QED
      BY <2>1, SetInduction
  <1>4. Good(m)
    BY <1>3
  <1>5. F(m) = FlattenSeq(p)
    BY DEF Rows
  <1> HIDE DEF F
  <1> QED
    BY <1>4, <1>5 DEF Good

Total(of) == 2 + 2 * Len(of)

LEMMA ConcatFacts ==
    ASSUME NEW S, NEW s \in Seq(S), NEW t \in Seq(S)
    PROVE  /\ s \o t \in Seq(S) /\ Len(s \o t) = Len(s) + Len(t)
           /\ \A i \in 1..Len(s) : (s \o t)[i] = s[i]
           /\ \A i \in Len(s) + 1..Len(s) + Len(t) : (s \o t)[i] = t[i - Len(s)]
  OBVIOUS

(* The queries of a snapshot, one by one.                                  *)
LEMMA QueriesFacts ==
    ASSUME NEW N, NEW of \in Seq(N)
    PROVE  /\ \E Q : Queries(of) \in Seq(Q)
           /\ Len(Queries(of)) = Total(of)
           /\ Queries(of)[1] = <<"epoch">> /\ Queries(of)[2] = <<"count">>
           /\ \A n \in 1..Len(of) :
                 /\ Queries(of)[2 * n + 1] = <<"balance">> \o of[n]
                 /\ Queries(of)[2 * n + 2] = <<"account">> \o of[n]
  <1> DEFINE m == Len(of)
             a(n) == <<"balance">> \o of[n]
             b(n) == <<"account">> \o of[n]
             p == [n \in 1..m |-> <<a(n), b(n)>>]
             S == {a(n) : n \in 1..m} \cup {b(n) : n \in 1..m}
             Q == S \cup {<<"epoch">>, <<"count">>}
             head == <<<<"epoch">>, <<"count">>>>
  <1>1. m \in Nat /\ DOMAIN of = 1..m
    OBVIOUS
  <1>2. Queries(of) = head \o FlattenSeq(p)
    BY <1>1 DEF Queries
  <1>3. head \in Seq(Q) /\ Len(head) = 2 /\ head[1] = <<"epoch">> /\ head[2] = <<"count">>
    <2>1. <<"epoch">> \in Q /\ <<"count">> \in Q
      OBVIOUS
    <2> HIDE DEF Q
    <2> QED
      BY <2>1
  <1> HIDE DEF a, b
  <1>4. \A n \in 1..m : p[n] = <<a(n), b(n)>> /\ a(n) \in S /\ b(n) \in S
    OBVIOUS
  <1> HIDE DEF S
  <1>5. p \in Rows(m, S) /\ \A n \in 1..m : Len(p[n]) = 2 /\ p[n][1] = a(n) /\ p[n][2] = b(n)
    <2>1. ASSUME NEW n \in 1..m PROVE <<a(n), b(n)>> \in Seq(S)
      <3>1. PICK x \in S, y \in S : x = a(n) /\ y = b(n)
        BY <1>4
      <3>2. <<x, y>> \in Seq(S)
        OBVIOUS
      <3> QED
        BY <3>1, <3>2
    <2> QED
      BY <1>1, <1>4, <2>1 DEF Rows
  <1> HIDE DEF p
  <1>6. PICK f : /\ f = FlattenSeq(p) /\ f \in Seq(S) /\ Len(f) = 2 * m
                 /\ \A n \in 1..m : f[2 * n - 1] = a(n) /\ f[2 * n] = b(n)
    BY <1>1, <1>5, FlattenPairs DEF PairsOf
  <1>7. f \in Seq(Q)
    BY <1>6
  <1> HIDE DEF Q, head
  <1> DEFINE g == head \o f
  <1>8. /\ g \in Seq(Q) /\ Len(g) = 2 + 2 * m
        /\ \A i \in 1..2 : g[i] = head[i]
        /\ \A i \in 3..2 + 2 * m : g[i] = f[i - 2]
    <2>1. /\ g \in Seq(Q) /\ Len(g) = Len(head) + Len(f)
          /\ \A i \in 1..Len(head) : g[i] = head[i]
          /\ \A i \in Len(head) + 1..Len(head) + Len(f) : g[i] = f[i - Len(head)]
      BY <1>3, <1>7, ConcatFacts
    <2> HIDE DEF g
    <2> QED
      BY <1>3, <1>6, <2>1
  <1> HIDE DEF g
  <1>9. ASSUME NEW n \in 1..m
        PROVE  g[2 * n + 1] = a(n) /\ g[2 * n + 2] = b(n)
    <2>1. /\ 2 * n + 1 - 2 = 2 * n - 1 /\ 2 * n + 2 - 2 = 2 * n
          /\ 2 * n + 1 \in 3..2 + 2 * m /\ 2 * n + 2 \in 3..2 + 2 * m
      BY <1>1
    <2>2. f[2 * n - 1] = a(n) /\ f[2 * n] = b(n)
      BY <1>6
    <2> QED
      BY <1>8, <2>1, <2>2
  <1>10. Queries(of) = g
    BY <1>2, <1>6 DEF g
  <1> QED
    BY <1>3, <1>8, <1>9, <1>10 DEF Total, a, b

NamesUpTo(of, k) == {of[n][1] : n \in 1..k}
NamesOf(of) == NamesUpTo(of, Len(of))
Distinct(of) == \A m, n \in 1..Len(of) : of[m][1] = of[n][1] => m = n

(* The names of the custom steps, and what can be tracked and noted.       *)
Tracking == {script[i].name : i \in {j \in 1..Len(script) : script[j].do = "snapshot"}}
Pairs == Tracking \X Addresses
Partly(S) == UNION {[D -> S] : D \in SUBSET Tracking}
Shots == [slot : Nat, count : Nat, balances : Partly(Nat), accounts : Partly(BOOLEAN),
          of : Seq(Pairs), from : Ledgers, upto : Ledgers]

(* After d of its queries a shot has noted b balances and a accounts; if   *)
(* the node has not moved since, they are those of the node at its first.  *)
NotedUpTo(s, d, b, a) ==
    /\ IF d <= 2 THEN a = 0 /\ b = 0 ELSE d = 2 + a + b /\ (b = a \/ b = a + 1)
    /\ DOMAIN s.balances = NamesUpTo(s.of, b) /\ DOMAIN s.accounts = NamesUpTo(s.of, a)
    /\ s.from = s.upto =>
        /\ \A n \in 1..b : s.balances[s.of[n][1]] = s.from.bal[s.of[n][2]]
        /\ \A n \in 1..a : s.accounts[s.of[n][1]] <=> s.from.bal[s.of[n][2]] > 0

Whole(s) == NotedUpTo(s, Total(s.of), Len(s.of), Len(s.of))

UnderWay == ctx.shots[Len(ctx.shots)]
Asked == Total(UnderWay.of) - Len(job.queries)

ShotsType == ctx.tracked \in Seq(Pairs) /\ ctx.shots \in Seq(Shots) /\ slot \in Nat

(* A tracked name has one place, which it keeps.                           *)
TrackedOK ==
    /\ Distinct(ctx.tracked)
    /\ \A i \in 1..Len(ctx.shots) :
          /\ Distinct(ctx.shots[i].of)
          /\ NamesOf(ctx.shots[i].of) \subseteq NamesOf(ctx.tracked)
    /\ \A i, j \in 1..Len(ctx.shots) :
          i < j => NamesOf(ctx.shots[i].of) \subseteq NamesOf(ctx.shots[j].of)

(* Its age tells the states of the ledger apart, whatever its balances.     *)
Past == {ledger, final} \cup {ctx.shots[i].from : i \in 1..Len(ctx.shots)}
                        \cup {ctx.shots[i].upto : i \in 1..Len(ctx.shots)}
PastOK ==
    /\ \A L \in Past : L.age <= ledger.age
    /\ \A L, M \in Past : L.age = M.age => L = M

FinishedOK ==
    \A i \in 1..(Len(ctx.shots) - (IF pc = "read" THEN 1 ELSE 0)) : Whole(ctx.shots[i])

(* A snapshot under way has its remaining queries to ask.                  *)
ReadOK ==
    pc = "read" =>
        /\ Len(ctx.shots) > 0
        /\ Len(job.queries) \in 1..Total(UnderWay.of)
        /\ job.queries = [k \in 1..Len(job.queries) |-> Queries(UnderWay.of)[Asked + k]]
        /\ \E b, a \in 0..Len(UnderWay.of) : NotedUpTo(UnderWay, Asked, b, a)
        /\ UnderWay.from.age <= UnderWay.upto.age
        /\ UnderWay.upto.age <= final.age

ShotsInv == ShotsType /\ TrackedOK /\ PastOK /\ FinishedOK /\ ReadOK

LEMMA Prefixed ==
    ASSUME NEW w, NEW x, NEW y
    PROVE  <<w>> \o <<x, y>> = <<w, x, y>>
  <1> DEFINE S == {w, x, y}
             u == <<w>> \o <<x, y>>
             v == <<w, x, y>>
  <1>1. <<w>> \in Seq(S) /\ <<x, y>> \in Seq(S) /\ v \in Seq(S) /\ Len(v) = 3
        /\ v[1] = w /\ v[2] = x /\ v[3] = y
    OBVIOUS
  <1>2. u \in Seq(S) /\ Len(u) = 3 /\ u[1] = w /\ u[2] = x /\ u[3] = y
    <2>1. Len(<<w>>) = 1 /\ Len(<<x, y>>) = 2 /\ <<w>>[1] = w /\ <<x, y>>[1] = x /\ <<x, y>>[2] = y
      OBVIOUS
    <2>2. /\ u \in Seq(S) /\ Len(u) = Len(<<w>>) + Len(<<x, y>>)
          /\ \A i \in 1..Len(<<w>>) : u[i] = <<w>>[i]
          /\ \A i \in Len(<<w>>) + 1..Len(<<w>>) + Len(<<x, y>>) : u[i] = <<x, y>>[i - Len(<<w>>)]
      BY <1>1, ConcatFacts
    <2> HIDE DEF u
    <2> QED
      BY <2>1, <2>2
  <1> HIDE DEF S, u, v
  <1>3. u = v
    <2>1. \A i \in 1..3 : u[i] = v[i]
      BY <1>1, <1>2
    <2> QED
      BY <1>1, <1>2, <2>1
  <1> QED
    BY <1>3 DEF u, v

(* The query that comes after d others.                                    *)
LEMMA QueryAfter ==
    ASSUME NEW of \in Seq(Pairs), NEW d \in 0..Total(of) - 1,
           NEW b \in 0..Len(of), NEW a \in 0..Len(of),
           IF d <= 2 THEN a = 0 /\ b = 0 ELSE d = 2 + a + b /\ (b = a \/ b = a + 1)
    PROVE  LET q == Queries(of)[d + 1] IN
           \/ d = 0 /\ q = <<"epoch">>
           \/ d = 1 /\ q = <<"count">>
           \/ /\ d >= 2 /\ b = a /\ b < Len(of)
              /\ q = <<"balance", of[b + 1][1], of[b + 1][2]>>
           \/ /\ d >= 2 /\ b = a + 1 /\ b <= Len(of)
              /\ q = <<"account", of[b][1], of[b][2]>>
  <1>0. Len(of) \in Nat /\ \A n \in 1..Len(of) : of[n] = <<of[n][1], of[n][2]>>
    <2>1. ASSUME NEW n \in 1..Len(of) PROVE of[n] = <<of[n][1], of[n][2]>>
      <3>1. of[n] \in Pairs
        OBVIOUS
      <3> QED
        BY <3>1 DEF Pairs
    <2> QED
      BY <2>1
  <1>1. /\ Queries(of)[1] = <<"epoch">> /\ Queries(of)[2] = <<"count">>
        /\ \A n \in 1..Len(of) : /\ Queries(of)[2 * n + 1] = <<"balance">> \o of[n]
                                 /\ Queries(of)[2 * n + 2] = <<"account">> \o of[n]
    BY QueriesFacts
  <1>2. \A n \in 1..Len(of) : /\ Queries(of)[2 * n + 1] = <<"balance", of[n][1], of[n][2]>>
                              /\ Queries(of)[2 * n + 2] = <<"account", of[n][1], of[n][2]>>
    <2>1. ASSUME NEW n \in 1..Len(of), NEW w PROVE <<w>> \o of[n] = <<w, of[n][1], of[n][2]>>
      <3>1. PICK x, y : of[n] = <<x, y>> /\ x = of[n][1] /\ y = of[n][2]
        BY <1>0
      <3>2. <<w>> \o <<x, y>> = <<w, x, y>>
        BY Prefixed
      <3> QED
        BY <3>1, <3>2
    <2> QED
      BY <1>1, <2>1
  <1>3. CASE d <= 1
    BY <1>1, <1>3
  <1>4. CASE d >= 2 /\ b = a
    <2>1. b + 1 \in 1..Len(of) /\ d + 1 = 2 * (b + 1) + 1
      BY <1>0, <1>4 DEF Total
    <2>2. b < Len(of)
      BY <1>0, <2>1
    <2>3. Queries(of)[d + 1] = <<"balance", of[b + 1][1], of[b + 1][2]>>
      BY <1>2, <2>1
    <2> QED
      BY <1>4, <2>2, <2>3
  <1>5. CASE d >= 2 /\ b = a + 1
    <2>1. b \in 1..Len(of) /\ d + 1 = 2 * b + 2
      BY <1>0, <1>5 DEF Total
    <2>2. b <= Len(of)
      BY <1>0, <2>1
    <2>3. Queries(of)[d + 1] = <<"account", of[b][1], of[b][2]>>
      BY <1>2, <2>1
    <2> QED
      BY <1>5, <2>2, <2>3
  <1> QED
    BY <1>3, <1>4, <1>5

(* The same in one word.                                                   *)
Follows(q, of, d, b, a) ==
    \/ d = 0 /\ q = <<"epoch">>
    \/ d = 1 /\ q = <<"count">>
    \/ /\ d >= 2 /\ b = a /\ b < Len(of)
       /\ q = <<"balance", of[b + 1][1], of[b + 1][2]>>
    \/ /\ d >= 2 /\ b = a + 1 /\ b <= Len(of)
       /\ q = <<"account", of[b][1], of[b][2]>>

LEMMA QueryFollows ==
    ASSUME NEW of \in Seq(Pairs), NEW d \in 0..Total(of) - 1,
           NEW b \in 0..Len(of), NEW a \in 0..Len(of),
           IF d <= 2 THEN a = 0 /\ b = 0 ELSE d = 2 + a + b /\ (b = a \/ b = a + 1)
    PROVE  Follows(Queries(of)[d + 1], of, d, b, a)
  BY QueryAfter DEF Follows

LEMMA PartlyPut ==
    ASSUME NEW S, NEW f \in Partly(S), NEW key \in Tracking, NEW value \in S
    PROVE  Put(f, key, value) \in Partly(S)
  <1>1. PICK D \in SUBSET Tracking : f \in [D -> S]
    BY DEF Partly
  <1>2. Put(f, key, value) \in [D \cup {key} -> S]
    BY <1>1 DEF Put
  <1>3. D \cup {key} \in SUBSET Tracking
    BY <1>1
  <1> QED
    BY <1>2, <1>3 DEF Partly

LEMMA TrackFacts ==
    ASSUME NEW tracked \in Seq(Pairs), Distinct(tracked), NEW name \in Tracking,
           NEW addr \in Addresses
    PROVE  /\ Track(tracked, name, addr) \in Seq(Pairs) /\ Distinct(Track(tracked, name, addr))
           /\ NamesOf(Track(tracked, name, addr)) = NamesOf(tracked) \cup {name}
  <1> DEFINE new == <<name, addr>>
             t == Track(tracked, name, addr)
             there == \E i \in DOMAIN tracked : tracked[i][1] = name
             kept == [i \in DOMAIN tracked |-> IF tracked[i][1] = name THEN new ELSE tracked[i]]
  <1>0. Len(tracked) \in Nat /\ DOMAIN tracked = 1..Len(tracked)
        /\ \A i \in 1..Len(tracked) : tracked[i] \in Pairs
    OBVIOUS
  <1>1. new \in Pairs /\ new[1] = name
    BY DEF Pairs
  <1> HIDE DEF new
  <1>2. CASE there
    <2>1. t = kept
      BY <1>2 DEF Track, new
    <2>2. kept \in Seq(Pairs) /\ Len(kept) = Len(tracked)
      BY <1>0, <1>1
    <2>3. \A i \in 1..Len(tracked) : kept[i][1] = tracked[i][1]
      BY <1>0, <1>1
    <2> HIDE DEF kept
    <2>4. Distinct(kept)
      BY <2>2, <2>3 DEF Distinct
    <2>5. NamesOf(kept) = NamesOf(tracked)
      BY <2>2, <2>3 DEF NamesOf, NamesUpTo
    <2>6. name \in NamesOf(tracked)
      BY <1>0, <1>2 DEF NamesOf, NamesUpTo
    <2> QED
      BY <2>1, <2>2, <2>4, <2>5, <2>6
  <1>3. CASE ~there
    <2> DEFINE u == Append(tracked, new)
    <2>1. t = u
      BY <1>3 DEF Track, new
    <2>2. /\ u \in Seq(Pairs) /\ Len(u) = Len(tracked) + 1 /\ u[Len(tracked) + 1] = new
          /\ \A i \in 1..Len(tracked) : u[i] = tracked[i]
      BY <1>0, <1>1
    <2>3. \A i \in 1..Len(tracked) : tracked[i][1] # name
      BY <1>0, <1>3
    <2> HIDE DEF u
    <2>4. Distinct(u)
      BY <1>0, <1>1, <2>2, <2>3 DEF Distinct
    <2>5. NamesOf(u) = NamesOf(tracked) \cup {name}
      <3>1. \A i \in 1..Len(u) : i \in 1..Len(tracked) \/ i = Len(tracked) + 1
        BY <1>0, <2>2
      <3>2. Len(tracked) + 1 \in 1..Len(u) /\ \A i \in 1..Len(tracked) : i \in 1..Len(u)
        BY <1>0, <2>2
      <3> QED
        BY <1>1, <2>2, <3>1, <3>2 DEF NamesOf, NamesUpTo
    <2> QED
      BY <2>1, <2>2, <2>4, <2>5
  <1> QED
    BY <1>2, <1>3

Dated(t, begun, L) == [t EXCEPT !.from = begun, !.upto = L]

LEMMA Renewed ==
    ASSUME NEW t \in Shots, NEW begun \in Ledgers, NEW L \in Ledgers
    PROVE  LET r == Dated(t, begun, L) IN
           /\ r \in Shots /\ r.of = t.of /\ r.upto = L /\ r.from = begun
           /\ r.balances = t.balances /\ r.accounts = t.accounts
  BY DEF Shots, Dated

(* What the answer to a query changes in a shot.                           *)
LEMMA NotedEpoch ==
    ASSUME NEW s \in Shots, NEW L, NEW at \in Nat, NEW n
    PROVE  LET t == Noted(s, <<"epoch">>, L, at, n) IN
           /\ t \in Shots /\ t.of = s.of /\ t.from = s.from
           /\ t.balances = s.balances /\ t.accounts = s.accounts
  <1>1. Noted(s, <<"epoch">>, L, at, n) = [s EXCEPT !.slot = at]
    BY DEF Noted
  <1>2. LET t == [s EXCEPT !.slot = at] IN
           /\ t \in Shots /\ t.of = s.of /\ t.from = s.from
           /\ t.balances = s.balances /\ t.accounts = s.accounts
    BY DEF Shots
  <1> QED
    BY <1>1, <1>2

LEMMA NotedCount ==
    ASSUME NEW s \in Shots, NEW L, NEW at, NEW n \in Nat
    PROVE  LET t == Noted(s, <<"count">>, L, at, n) IN
           /\ t \in Shots /\ t.of = s.of /\ t.from = s.from
           /\ t.balances = s.balances /\ t.accounts = s.accounts
  <1>1. Noted(s, <<"count">>, L, at, n) = [s EXCEPT !.count = n]
    BY DEF Noted
  <1>2. LET t == [s EXCEPT !.count = n] IN
           /\ t \in Shots /\ t.of = s.of /\ t.from = s.from
           /\ t.balances = s.balances /\ t.accounts = s.accounts
    BY DEF Shots
  <1> QED
    BY <1>1, <1>2

LEMMA NotedBalance ==
    ASSUME NEW s \in Shots, NEW L \in Ledgers, NEW at, NEW n,
           NEW name \in Tracking, NEW addr \in Addresses
    PROVE  LET t == Noted(s, <<"balance", name, addr>>, L, at, n) IN
           /\ t \in Shots /\ t.of = s.of /\ t.from = s.from
           /\ t.balances = Put(s.balances, name, L.bal[addr]) /\ t.accounts = s.accounts
  <1>1. Noted(s, <<"balance", name, addr>>, L, at, n)
          = [s EXCEPT !.balances = Put(s.balances, name, L.bal[addr])]
    BY DEF Noted
  <1>2. L.bal[addr] \in Nat /\ s.balances \in Partly(Nat)
    BY DEF Ledgers, Shots
  <1>3. PICK v \in Partly(Nat) : v = Put(s.balances, name, L.bal[addr])
    BY <1>2, PartlyPut
  <1>4. LET t == [s EXCEPT !.balances = v] IN
           /\ t \in Shots /\ t.of = s.of /\ t.from = s.from
           /\ t.balances = v /\ t.accounts = s.accounts
    BY DEF Shots
  <1> QED
    BY <1>1, <1>3, <1>4

LEMMA NotedAccount ==
    ASSUME NEW s \in Shots, NEW L \in Ledgers, NEW at, NEW n,
           NEW name \in Tracking, NEW addr \in Addresses
    PROVE  LET t == Noted(s, <<"account", name, addr>>, L, at, n) IN
           /\ t \in Shots /\ t.of = s.of /\ t.from = s.from
           /\ t.accounts = Put(s.accounts, name, L.bal[addr] > 0) /\ t.balances = s.balances
  <1>1. Noted(s, <<"account", name, addr>>, L, at, n)
          = [s EXCEPT !.accounts = Put(s.accounts, name, L.bal[addr] > 0)]
    BY DEF Noted
  <1>2. (L.bal[addr] > 0) \in BOOLEAN /\ s.accounts \in Partly(BOOLEAN)
    BY DEF Ledgers, Shots
  <1> DEFINE there == L.bal[addr] > 0
  <1> HIDE DEF there
  <1>3. PICK v \in Partly(BOOLEAN) : v = Put(s.accounts, name, there)
    BY <1>2, PartlyPut DEF there
  <1>4. LET t == [s EXCEPT !.accounts = v] IN
           /\ t \in Shots /\ t.of = s.of /\ t.from = s.from
           /\ t.balances = s.balances /\ t.accounts = v
    BY DEF Shots
  <1> QED
    BY <1>1, <1>3, <1>4 DEF there

Keyed(f, of, n) == DOMAIN f = NamesUpTo(of, n)

(* A dictionary gains the value of the next tracked name.                  *)
LEMMA NextNoted ==
    ASSUME NEW of, Distinct(of), NEW n \in 1..Len(of), Len(of) \in Nat, NEW f, NEW value,
           Keyed(f, of, n - 1)
    PROVE  /\ Keyed(Put(f, of[n][1], value), of, n)
           /\ Put(f, of[n][1], value)[of[n][1]] = value
           /\ \A k \in 1..n - 1 : Put(f, of[n][1], value)[of[k][1]] = f[of[k][1]]
  <1>1. PICK key, g : key = of[n][1] /\ g = Put(f, key, value)
    OBVIOUS
  <1>2. /\ DOMAIN g = DOMAIN f \cup {key} /\ g[key] = value
        /\ \A k \in DOMAIN f : k # key => g[k] = f[k]
    BY <1>1 DEF Put
  <1>3. Keyed(g, of, n)
    <2>1. 1..n = (1..n - 1) \cup {n}
      OBVIOUS
    <2>2. NamesUpTo(of, n) = NamesUpTo(of, n - 1) \cup {key}
      BY <1>1, <2>1, Zenon DEF NamesUpTo
    <2> QED
      BY <1>2, <2>2, Zenon DEF Keyed
  <1>4. ASSUME NEW k \in 1..n - 1 PROVE g[of[k][1]] = f[of[k][1]]
    <2>1. k \in 1..Len(of) /\ k # n
      OBVIOUS
    <2>2. of[k][1] # key
      BY <1>1, <2>1 DEF Distinct
    <2>3. of[k][1] \in NamesUpTo(of, n - 1)
      BY DEF NamesUpTo
    <2> QED
      BY <1>2, <2>2, <2>3, Zenon DEF Keyed
  <1> QED
    BY <1>1, <1>2, <1>3, <1>4

(* What Read makes of the shot under way.                                  *)
Answered(s, q, L, at, n) ==
    LET t == Noted(s, q, L, at, n)
    IN  Dated(t, IF q = <<"epoch">> THEN L ELSE t.from, L)

Grows(s, r, d, L) ==
    /\ r \in Shots /\ r.of = s.of /\ r.upto = L /\ r.from \in {s.from, L}
    /\ r.from.age <= L.age
    /\ \E b, a \in 0..Len(s.of) : NotedUpTo(r, d + 1, b, a)

(* The answer to one more query, from a node that has not gone back.       *)
LEMMA NotedStep ==
    ASSUME NEW s \in Shots, Distinct(s.of), NEW L \in Ledgers, NEW at \in Nat, NEW c \in Nat,
           NEW d \in 0..Total(s.of) - 1, NEW b \in 0..Len(s.of), NEW a \in 0..Len(s.of),
           NotedUpTo(s, d, b, a),
           s.from.age <= s.upto.age, s.upto.age <= L.age,
           s.from.age = s.upto.age => s.from = s.upto,
           s.from.age = L.age => s.from = L
    PROVE  Grows(s, Answered(s, Queries(s.of)[d + 1], L, at, c), d, L)
  <1>0. /\ s.of \in Seq(Pairs) /\ Len(s.of) \in Nat
        /\ s.from \in Ledgers /\ s.upto \in Ledgers /\ d \in Nat /\ b \in Nat /\ a \in Nat
        /\ s.from.age \in Nat /\ L.age \in Nat /\ s.upto.age \in Nat
    BY DEF Shots, Ledgers
  <1>f. s.from \in Ledgers
    BY DEF Shots
  <1>1. \A n \in 1..Len(s.of) : s.of[n][1] \in Tracking /\ s.of[n][2] \in Addresses
    BY <1>0 DEF Pairs
  <1>2. (s.from = L => s.from = s.upto) /\ s.from.age <= L.age
    BY <1>0
  <1>3. PICK q : q = Queries(s.of)[d + 1]
    OBVIOUS
  <1>4. IF d <= 2 THEN a = 0 /\ b = 0 ELSE d = 2 + a + b /\ (b = a \/ b = a + 1)
    BY DEF NotedUpTo
  <1>5. /\ DOMAIN s.balances = NamesUpTo(s.of, b) /\ DOMAIN s.accounts = NamesUpTo(s.of, a)
        /\ s.from = s.upto =>
             /\ \A n \in 1..b : s.balances[s.of[n][1]] = s.from.bal[s.of[n][2]]
             /\ \A n \in 1..a : s.accounts[s.of[n][1]] <=> s.from.bal[s.of[n][2]] > 0
    BY DEF NotedUpTo
  <1>6. CASE d = 0 /\ q = <<"epoch">>
    <2>1. PICK t : /\ t = Noted(s, q, L, at, c) /\ t \in Shots /\ t.of = s.of /\ t.from = s.from
                   /\ t.balances = s.balances /\ t.accounts = s.accounts
      BY <1>6, NotedEpoch
    <2>r. PICK r : r = Dated(t, L, L)
      OBVIOUS
    <2>2. /\ r \in Shots /\ r.of = s.of /\ r.upto = L /\ r.from = L
          /\ r.balances = s.balances /\ r.accounts = s.accounts
      BY <1>f, <2>1, <2>r, Renewed
    <2>3. NotedUpTo(r, d + 1, b, a)
      <3>1. a = 0 /\ b = 0 /\ d + 1 = 1
        BY <1>4, <1>6
      <3>2. DOMAIN r.balances = NamesUpTo(r.of, b) /\ DOMAIN r.accounts = NamesUpTo(r.of, a)
        BY <1>5, <2>2
      <3> QED
        BY <3>1, <3>2 DEF NotedUpTo
    <2>4. Grows(s, r, d, L)
      BY <1>0, <2>2, <2>3 DEF Grows
    <2> QED
      BY <1>3, <1>6, <2>1, <2>r, <2>4 DEF Answered
  <1>7. CASE d = 1 /\ q = <<"count">>
    <2>1. PICK t : /\ t = Noted(s, q, L, at, c) /\ t \in Shots /\ t.of = s.of /\ t.from = s.from
                   /\ t.balances = s.balances /\ t.accounts = s.accounts
      BY <1>7, NotedCount
    <2>r. PICK r : r = Dated(t, s.from, L)
      OBVIOUS
    <2>2. /\ r \in Shots /\ r.of = s.of /\ r.upto = L /\ r.from = s.from
          /\ r.balances = s.balances /\ r.accounts = s.accounts
      <3>1. /\ t \in Shots /\ t.of = s.of
            /\ t.balances = s.balances /\ t.accounts = s.accounts
        BY <2>1
      <3> QED
        BY <1>f, <2>r, <3>1, Renewed
    <2>3. NotedUpTo(r, d + 1, b, a)
      <3>1. a = 0 /\ b = 0 /\ d + 1 = 2
        BY <1>4, <1>7
      <3>2. DOMAIN r.balances = NamesUpTo(r.of, b) /\ DOMAIN r.accounts = NamesUpTo(r.of, a)
        BY <1>5, <2>2
      <3> QED
        BY <2>2, <3>1, <3>2 DEF NotedUpTo
    <2>4. Grows(s, r, d, L)
      BY <1>0, <2>2, <2>3 DEF Grows
    <2>5. q # <<"epoch">>
      BY <1>7
    <2> QED
      BY <1>3, <2>1, <2>r, <2>4, <2>5 DEF Answered
  <1>8. CASE /\ d >= 2 /\ b = a /\ b < Len(s.of)
             /\ q = <<"balance", s.of[b + 1][1], s.of[b + 1][2]>>
    <2>0. /\ b + 1 \in 1..Len(s.of) /\ b + 1 \in 0..Len(s.of) /\ b + 1 - 1 = b
          /\ s.of[b + 1][1] \in Tracking /\ s.of[b + 1][2] \in Addresses
      BY <1>0, <1>1, <1>8
    <2>1. PICK t, bal :
              /\ t = Noted(s, q, L, at, c) /\ t \in Shots /\ t.of = s.of /\ t.from = s.from
              /\ bal = Put(s.balances, s.of[b + 1][1], L.bal[s.of[b + 1][2]])
              /\ t.balances = bal /\ t.accounts = s.accounts
      BY <1>8, <2>0, NotedBalance
    <2>r. PICK r : r = Dated(t, s.from, L)
      OBVIOUS
    <2>2. /\ r \in Shots /\ r.of = s.of /\ r.upto = L /\ r.from = s.from
          /\ r.balances = bal /\ r.accounts = s.accounts
      <3>1. /\ t \in Shots /\ t.of = s.of
            /\ t.balances = bal /\ t.accounts = s.accounts
        BY <2>1
      <3> QED
        BY <1>f, <2>r, <3>1, Renewed
    <2>3. /\ DOMAIN bal = NamesUpTo(s.of, b + 1)
          /\ bal[s.of[b + 1][1]] = L.bal[s.of[b + 1][2]]
          /\ \A n \in 1..b : bal[s.of[n][1]] = s.balances[s.of[n][1]]
      <3>1. PICK k, v : k = b + 1 /\ v = L.bal[s.of[b + 1][2]] /\ k - 1 = b
        BY <1>0
      <3>2. k \in 1..Len(s.of) /\ Len(s.of) \in Nat
        BY <1>0, <2>0, <3>1
      <3>3. bal = Put(s.balances, s.of[k][1], v)
        BY <2>1, <3>1
      <3>4. Keyed(s.balances, s.of, k - 1)
        BY <1>5, <3>1 DEF Keyed
      <3>5. /\ Keyed(bal, s.of, k) /\ bal[s.of[k][1]] = v
            /\ \A n \in 1..k - 1 : bal[s.of[n][1]] = s.balances[s.of[n][1]]
        BY <3>2, <3>3, <3>4, NextNoted
      <3> QED
        BY <3>1, <3>5 DEF Keyed
    <2>4. ASSUME s.from = L, NEW n \in 1..b + 1
          PROVE  bal[s.of[n][1]] = s.from.bal[s.of[n][2]]
      <3>1. CASE n = b + 1
        BY <2>3, <2>4, <3>1
      <3>2. CASE n # b + 1
        <4>1. n \in 1..b
          BY <1>0, <3>2
        <4> QED
          BY <1>2, <1>5, <2>3, <2>4, <4>1
      <3> QED
        BY <3>1, <3>2
    <2>5. NotedUpTo(r, d + 1, b + 1, a)
      <3>1. /\ IF d + 1 <= 2 THEN a = 0 /\ b + 1 = 0
               ELSE d + 1 = 2 + a + (b + 1) /\ (b + 1 = a \/ b + 1 = a + 1)
        BY <1>0, <1>4, <1>8
      <3>2. DOMAIN r.balances = NamesUpTo(r.of, b + 1) /\ DOMAIN r.accounts = NamesUpTo(r.of, a)
        BY <1>5, <2>2, <2>3
      <3>3. r.from = r.upto =>
               /\ \A n \in 1..b + 1 : r.balances[r.of[n][1]] = r.from.bal[r.of[n][2]]
               /\ \A n \in 1..a : r.accounts[r.of[n][1]] <=> r.from.bal[r.of[n][2]] > 0
        BY <1>2, <1>5, <1>8, <2>2, <2>4
      <3> QED
        BY <3>1, <3>2, <3>3 DEF NotedUpTo
    <2>6. Grows(s, r, d, L)
      BY <1>2, <2>0, <2>2, <2>5 DEF Grows
    <2>7. q # <<"epoch">>
      BY <1>8
    <2> QED
      BY <1>3, <2>1, <2>r, <2>6, <2>7 DEF Answered
  <1>9. CASE /\ d >= 2 /\ b = a + 1 /\ b <= Len(s.of)
             /\ q = <<"account", s.of[b][1], s.of[b][2]>>
    <2>0. /\ b \in 1..Len(s.of) /\ b \in 0..Len(s.of) /\ b - 1 = a
          /\ s.of[b][1] \in Tracking /\ s.of[b][2] \in Addresses
      BY <1>0, <1>1, <1>9
    <2>1. PICK t, acc, there :
              /\ t = Noted(s, q, L, at, c) /\ t \in Shots /\ t.of = s.of /\ t.from = s.from
              /\ there = (L.bal[s.of[b][2]] > 0)
              /\ acc = Put(s.accounts, s.of[b][1], there)
              /\ t.balances = s.balances /\ t.accounts = acc
      BY <1>9, <2>0, NotedAccount
    <2>r. PICK r : r = Dated(t, s.from, L)
      OBVIOUS
    <2>2. /\ r \in Shots /\ r.of = s.of /\ r.upto = L /\ r.from = s.from
          /\ r.balances = s.balances /\ r.accounts = acc
      <3>1. /\ t \in Shots /\ t.of = s.of
            /\ t.balances = s.balances /\ t.accounts = acc
        BY <2>1
      <3> QED
        BY <1>f, <2>r, <3>1, Renewed
    <2>3. /\ DOMAIN acc = NamesUpTo(s.of, b)
          /\ acc[s.of[b][1]] = there
          /\ \A n \in 1..a : acc[s.of[n][1]] = s.accounts[s.of[n][1]]
      <3>1. b \in 1..Len(s.of) /\ Len(s.of) \in Nat /\ b - 1 = a
        BY <1>0, <2>0
      <3>2. acc = Put(s.accounts, s.of[b][1], there)
        BY <2>1
      <3>3. Keyed(s.accounts, s.of, b - 1)
        BY <1>5, <3>1 DEF Keyed
      <3>4. /\ Keyed(acc, s.of, b) /\ acc[s.of[b][1]] = there
            /\ \A n \in 1..b - 1 : acc[s.of[n][1]] = s.accounts[s.of[n][1]]
        BY <3>1, <3>2, <3>3, NextNoted
      <3> QED
        BY <3>1, <3>4 DEF Keyed
    <2>4. ASSUME s.from = L, NEW n \in 1..b
          PROVE  acc[s.of[n][1]] <=> s.from.bal[s.of[n][2]] > 0
      <3>1. CASE n = b
        BY <2>1, <2>3, <2>4, <3>1
      <3>2. CASE n # b
        <4>1. n \in 1..a
          BY <1>0, <1>9, <3>2
        <4> QED
          BY <1>2, <1>5, <2>3, <2>4, <4>1
      <3> QED
        BY <3>1, <3>2
    <2>5. NotedUpTo(r, d + 1, b, b)
      <3>1. /\ IF d + 1 <= 2 THEN b = 0 /\ b = 0
               ELSE d + 1 = 2 + b + b /\ (b = b \/ b = b + 1)
        BY <1>0, <1>4, <1>9
      <3>2. DOMAIN r.balances = NamesUpTo(r.of, b) /\ DOMAIN r.accounts = NamesUpTo(r.of, b)
        BY <1>5, <2>2, <2>3
      <3>3. r.from = r.upto =>
               /\ \A n \in 1..b : r.balances[r.of[n][1]] = r.from.bal[r.of[n][2]]
               /\ \A n \in 1..b : r.accounts[r.of[n][1]] <=> r.from.bal[r.of[n][2]] > 0
        BY <1>2, <1>5, <1>9, <2>2, <2>4
      <3> QED
        BY <3>1, <3>2, <3>3 DEF NotedUpTo
    <2>6. Grows(s, r, d, L)
      BY <1>2, <2>0, <2>2, <2>5 DEF Grows
    <2>7. q # <<"epoch">>
      BY <1>9
    <2> QED
      BY <1>3, <2>1, <2>r, <2>6, <2>7 DEF Answered
  <1>10. Follows(q, s.of, d, b, a)
    BY <1>0, <1>3, <1>4, QueryFollows
  <1> QED
    BY <1>6, <1>7, <1>8, <1>9, <1>10 DEF Follows

(* What a step does to the snapshots: nothing, or nothing but a move of    *)
(* the node; or a run starts, or a custom step begins, goes on with, or    *)
(* gives up a snapshot.                                                    *)
QuietShots ==
    /\ UNCHANGED <<script, ledger, final, slot>>
    /\ ctx'.shots = ctx.shots /\ ctx'.tracked = ctx.tracked
    /\ pc # "read" /\ pc' # "read"

NodeMoves ==
    /\ UNCHANGED <<script, ctx, pc, job>>
    /\ final' \in {final, ledger} /\ slot' \in {slot, slot + 1}
    /\ ledger' = ledger \/ ledger'.age = ledger.age + 1

DropsShot ==
    /\ pc = "read" /\ pc' = "over" /\ ctx' = [ctx EXCEPT !.shots = Front(@)]
    /\ UNCHANGED <<script, ledger, final, slot>>

LEMMA ShotKinds ==
    ASSUME SystemInv, [Next]_vars
    PROVE  Start \/ QuietShots \/ NodeMoves \/ Snapshot \/ Read \/ DropsShot
  <1>0. RunOK /\ ContextOK /\ ledger \in Ledgers
    BY DEF SystemInv, LedgerOK
  <1>1. CASE AddKeypair \/ Fund
    BY <1>0, <1>1 DEF AddKeypair, Fund, Complete, Suspend, Note, WithKey, QuietShots, ContextOK, node
  <1>2. CASE Transfer \/ WaitSlots \/ KeyError
    BY <1>0, <1>2 DEF Transfer, WaitSlots, KeyError, FailStep, Suspend, QuietShots, node
  <1>3. CASE Confirmed
    BY <1>0, <1>3 DEF Confirmed, Complete, Note, QuietShots, ContextOK, node
  <1>4. CASE Check
    BY <1>0, <1>4 DEF Check, Complete, FailStep, Note, QuietShots, ContextOK, node
  <1>5. CASE Poll
    BY <1>0, <1>5 DEF Poll, Complete, FailStep, QuietShots, node
  <1>6. CASE Raise
    <2>1. CASE pc = "read"
      BY <1>6, <2>1 DEF Raise, FailStep, Aborted, DropsShot, node
    <2>2. CASE pc # "read"
      <3>1. pc' = "over" /\ ctx'.shots = ctx.shots /\ ctx'.tracked = ctx.tracked
        BY <1>0, <1>6, <2>2 DEF Raise, FailStep, Aborted, WithKey, ContextOK
      <3> QED
        BY <1>6, <2>2, <3>1 DEF Raise, QuietShots, node
    <2> QED
      BY <2>1, <2>2
  <1>7. CASE Root
    BY <1>7 DEF Root, NodeMoves
  <1>8. CASE Lands
    <2>1. PICK k \in DOMAIN txs : Land(k) \/ Expire(k)
      BY <1>8 DEF Lands
    <2>2. UNCHANGED <<script, ctx, pc, job, final, slot>>
      BY <2>1 DEF Land, Expire, node
    <2>3. \/ ledger' = ledger \/ ledger' = [ledger EXCEPT !.age = @ + 1]
          \/ ledger' = Credited(ledger, txs[k].from, txs[k].to, txs[k].n)
      BY <2>1 DEF Land, Expire, node
    <2>4. ledger' = ledger \/ ledger'.age = ledger.age + 1
      BY <1>0, <2>3 DEF Credited, Ledgers
    <2> QED
      BY <2>2, <2>4 DEF NodeMoves
  <1>9. CASE Done \/ UNCHANGED vars
    BY <1>9 DEF Done, vars, NodeMoves
  <1> QED
    BY <1>1, <1>2, <1>3, <1>4, <1>5, <1>6, <1>7, <1>8, <1>9 DEF Next, Proceed, Lands

JobOK == DOMAIN job = {"polls", "target", "queries"}

LEMMA JobStep == JobOK /\ [Next]_vars => JobOK'
  <1> SUFFICES ASSUME JobOK, [Next]_vars PROVE JobOK'
    OBVIOUS
  <1> USE DEF JobOK
  <1>1. CASE Start \/ Fund \/ Transfer
    BY <1>1 DEF Start, Fund, Transfer
  <1>2. CASE AddKeypair \/ Confirmed \/ Check
    BY <1>2 DEF AddKeypair, Confirmed, Check, Complete, FailStep, NoJob
  <1>3. CASE KeyError \/ Raise
    BY <1>3 DEF KeyError, Raise, FailStep, NoJob
  <1>4. CASE WaitSlots
    BY <1>4 DEF WaitSlots
  <1>5. CASE Poll
    BY <1>5 DEF Poll, Complete, FailStep, PollsLess, NoJob
  <1>6. CASE Snapshot
    BY <1>6 DEF Snapshot
  <1>7. CASE Read
    BY <1>7 DEF Read, Complete, NoJob
  <1>8. CASE Root \/ Lands \/ Done \/ UNCHANGED vars
    BY <1>8 DEF Root, Lands, Land, Expire, Done, vars
  <1> QED
    BY <1>1, <1>2, <1>3, <1>4, <1>5, <1>6, <1>7, <1>8 DEF Next, Proceed, Lands

LEMMA SameSets ==
    ASSUME UNCHANGED script
    PROVE  Pairs' = Pairs /\ Shots' = Shots /\ Tracking' = Tracking
  BY DEF Pairs, Shots, Partly, Tracking

LEMMA StartShots ==
    ASSUME SystemInv, ShotsInv, Start
    PROVE  ShotsInv'
  <1>1. ctx'.tracked = <<>> /\ ctx'.shots = <<>> /\ pc' = "step"
        /\ UNCHANGED <<script, ledger, final, slot>>
    BY DEF Start, NewContext, node
  <1>2. Len(ctx'.shots) = 0 /\ 1..Len(ctx'.shots) = {} /\ Len(ctx'.tracked) = 0
    BY <1>1
  <1>3. ShotsType'
    BY <1>1 DEF ShotsInv, ShotsType
  <1>4. TrackedOK' /\ FinishedOK' /\ ReadOK'
    BY <1>1, <1>2 DEF TrackedOK, FinishedOK, ReadOK, Distinct
  <1>5. PastOK'
    <2>1. Past' = {ledger, final} /\ ledger \in Past /\ final \in Past
      BY <1>1, <1>2 DEF Past
    <2> QED
      BY <1>1, <2>1 DEF PastOK, ShotsInv
  <1> QED
    BY <1>3, <1>4, <1>5 DEF ShotsInv

LEMMA QuietKeepsShots ==
    ASSUME SystemInv, ShotsInv, QuietShots
    PROVE  ShotsInv'
  <1>1. UNCHANGED <<script, ledger, final, slot>> /\ pc # "read" /\ pc' # "read"
        /\ ctx'.shots = ctx.shots /\ ctx'.tracked = ctx.tracked
    BY DEF QuietShots
  <1>2. ShotsType'
    BY <1>1, SameSets DEF ShotsInv, ShotsType
  <1>3. TrackedOK'
    BY <1>1 DEF ShotsInv, TrackedOK
  <1>4. PastOK'
    BY <1>1 DEF ShotsInv, PastOK, Past
  <1>5. FinishedOK'
    BY <1>1 DEF ShotsInv, FinishedOK
  <1>6. ReadOK'
    BY <1>1 DEF ReadOK
  <1> QED
    BY <1>2, <1>3, <1>4, <1>5, <1>6 DEF ShotsInv

(* No state of the ledger so far is taken for a later one.                 *)
LEMMA PastStep ==
    ASSUME SystemInv, PastOK,
           \A L \in Past : L.age \in Nat,
           Past' \subseteq Past \cup {ledger'},
           ledger' = ledger \/ ledger'.age = ledger.age + 1
    PROVE  PastOK'
  <1>1. ledger \in Past /\ ledger.age \in Nat
    BY DEF Past
  <1>2. \A L \in Past : L.age <= ledger.age
    BY DEF PastOK
  <1>3. CASE ledger' = ledger
    BY <1>1, <1>3 DEF PastOK
  <1>4. CASE ledger'.age = ledger.age + 1
    <2>1. \A L \in Past : L.age < ledger'.age
      BY <1>1, <1>2, <1>4
    <2>2. ASSUME NEW L \in Past' PROVE L.age <= ledger'.age
      BY <1>1, <1>4, <2>1, <2>2
    <2>3. ASSUME NEW L \in Past', NEW M \in Past', L.age = M.age PROVE L = M
      <3>1. CASE L \in Past /\ M \in Past
        BY <2>3, <3>1 DEF PastOK
      <3>2. CASE L \notin Past
        BY <1>1, <1>4, <2>1, <2>3, <3>2
      <3>3. CASE M \notin Past
        BY <1>1, <1>4, <2>1, <2>3, <3>3
      <3> QED
        BY <3>1, <3>2, <3>3
    <2> QED
      BY <2>2, <2>3 DEF PastOK
  <1> QED
    BY <1>3, <1>4

LEMMA PastCounts ==
    ASSUME SystemInv, ShotsType
    PROVE  /\ \A L \in Past : L \in Ledgers /\ L.age \in Nat
           /\ ledger \in Past /\ final \in Past
  <1>1. ledger \in Ledgers /\ final \in Ledgers
    BY DEF SystemInv, LedgerOK
  <1>2. ASSUME NEW i \in 1..Len(ctx.shots)
        PROVE  ctx.shots[i].from \in Ledgers /\ ctx.shots[i].upto \in Ledgers
    <2>1. ctx.shots[i] \in Shots
      BY DEF ShotsType
    <2> QED
      BY <2>1 DEF Shots
  <1>3. \A L \in Past : L \in Ledgers
    BY <1>1, <1>2 DEF Past
  <1> QED
    BY <1>3 DEF Past, Ledgers

LEMMA NodeKeepsShots ==
    ASSUME SystemInv, ShotsInv, NodeMoves
    PROVE  ShotsInv'
  <1>1. UNCHANGED <<script, ctx, pc, job>>
        /\ final' \in {final, ledger} /\ slot' \in {slot, slot + 1}
        /\ (ledger' = ledger \/ ledger'.age = ledger.age + 1)
    BY DEF NodeMoves
  <1>2. ShotsType'
    BY <1>1, SameSets DEF ShotsInv, ShotsType
  <1>3. TrackedOK' /\ FinishedOK'
    BY <1>1 DEF ShotsInv, TrackedOK, FinishedOK
  <1>4. PastOK'
    <2>1. Past' \subseteq Past \cup {ledger'}
      BY <1>1 DEF Past
    <2> QED
      BY <1>1, <2>1, PastStep, PastCounts DEF ShotsInv
  <1>5. final.age \in Nat /\ final'.age \in Nat /\ final.age <= final'.age
    BY <1>1, PastCounts DEF ShotsInv, PastOK
  <1>6. ReadOK'
    <2> SUFFICES ASSUME pc = "read" PROVE ReadOK'
      BY <1>1 DEF ReadOK
    <2>1. UnderWay' = UnderWay /\ Asked' = Asked
      BY <1>1 DEF UnderWay, Asked
    <2>2. UnderWay.upto.age \in Nat
      <3>1. Len(ctx.shots) \in 1..Len(ctx.shots)
        BY DEF ShotsInv, ReadOK, ShotsType
      <3> QED
        BY <3>1, PastCounts DEF UnderWay, Past, ShotsInv
    <2> QED
      BY <1>1, <1>5, <2>1, <2>2 DEF ShotsInv, ReadOK
  <1> QED
    BY <1>2, <1>3, <1>4, <1>6 DEF ShotsInv

LEMMA DropKeepsShots ==
    ASSUME SystemInv, ShotsInv, DropsShot
    PROVE  ShotsInv'
  <1> DEFINE m == Len(ctx.shots)
  <1>1. /\ UNCHANGED <<script, ledger, final, slot>> /\ pc = "read" /\ pc' = "over"
        /\ ctx'.shots = Front(ctx.shots) /\ ctx'.tracked = ctx.tracked
    BY DEF DropsShot, SystemInv, ContextOK
  <1>2. m \in Nat /\ m > 0 /\ ctx.shots \in Seq(Shots)
    BY <1>1 DEF ShotsInv, ReadOK, ShotsType
  <1>3. /\ ctx'.shots \in Seq(Shots) /\ Len(ctx'.shots) = m - 1
        /\ \A i \in 1..m - 1 : ctx'.shots[i] = ctx.shots[i]
    BY <1>1, <1>2 DEF Front
  <1>4. \A i \in 1..m - 1 : i \in 1..m
    BY <1>2
  <1>5. ShotsType'
    BY <1>1, <1>3, SameSets DEF ShotsInv, ShotsType
  <1>6. TrackedOK'
    BY <1>1, <1>3, <1>4 DEF ShotsInv, TrackedOK
  <1>7. PastOK'
    <2>1. Past' \subseteq Past
      BY <1>1, <1>3, <1>4 DEF Past
    <2> QED
      BY <1>1, <2>1 DEF ShotsInv, PastOK
  <1>8. FinishedOK'
    <2>1. \A i \in 1..m - 1 : Whole(ctx.shots[i])
      BY <1>1 DEF ShotsInv, FinishedOK
    <2> QED
      BY <1>1, <1>2, <1>3, <2>1 DEF FinishedOK
  <1>9. ReadOK'
    BY <1>1 DEF ReadOK
  <1> QED
    BY <1>5, <1>6, <1>7, <1>8, <1>9 DEF ShotsInv

LEMMA EmptyPartly == ASSUME NEW S PROVE <<>> \in Partly(S) /\ DOMAIN <<>> = {}
  <1>1. <<>> \in [{} -> S]
    OBVIOUS
  <1>2. {} \in SUBSET Tracking
    OBVIOUS
  <1> QED
    BY <1>1, <1>2 DEF Partly

LEMMA EmptyShotFacts ==
    ASSUME NEW t \in Seq(Pairs), NEW L \in Ledgers
    PROVE  LET e == EmptyShot(t, L) IN
           /\ e \in Shots /\ e.of = t /\ e.from = L /\ e.upto = L
           /\ NotedUpTo(e, 0, 0, 0)
  <1>1. PICK b \in Partly(Nat), a \in Partly(BOOLEAN) :
           b = <<>> /\ a = <<>> /\ DOMAIN b = {} /\ DOMAIN a = {}
    BY EmptyPartly
  <1>2. PICK e : e = [slot |-> 0, count |-> 0, balances |-> b, accounts |-> a,
                      of |-> t, from |-> L, upto |-> L]
    OBVIOUS
  <1>3. /\ e \in Shots /\ e.of = t /\ e.from = L /\ e.upto = L
        /\ e.balances = b /\ e.accounts = a
    BY <1>2 DEF Shots
  <1>4. EmptyShot(t, L) = e
    BY <1>1, <1>2 DEF EmptyShot
  <1>5. NamesUpTo(t, 0) = {}
    BY DEF NamesUpTo
  <1>6. NotedUpTo(e, 0, 0, 0)
    BY <1>1, <1>3, <1>5 DEF NotedUpTo
  <1> QED
    BY <1>3, <1>4, <1>6

LEMMA SnapshotShots ==
    ASSUME SystemInv, JobOK, ShotsInv, Snapshot
    PROVE  ShotsInv'
  <1> DEFINE m == Len(ctx.shots)
             K == ctx'.shots
  <1>1. PICK t, e :
           /\ t = Track(ctx.tracked, step.name, ctx.keys[step.name]) /\ e = EmptyShot(t, final)
           /\ UNCHANGED <<script, ledger, final, slot>> /\ pc = "step" /\ pc' = "read"
           /\ step.do = "snapshot" /\ Known(step.name)
           /\ job' = [job EXCEPT !.queries = Queries(t)]
           /\ ctx' = [ctx EXCEPT !.tracked = t, !.shots = Append(@, e)]
    BY DEF Snapshot, Suspend, node
  <1>2. job'.queries = Queries(t) /\ ctx'.tracked = t /\ K = Append(ctx.shots, e)
    BY <1>1 DEF JobOK, SystemInv, ContextOK
  <1>3. /\ ctx.tracked \in Seq(Pairs) /\ Distinct(ctx.tracked)
        /\ ctx.shots \in Seq(Shots) /\ m \in Nat /\ slot \in Nat
        /\ ledger \in Ledgers /\ final \in Ledgers
    BY DEF ShotsInv, ShotsType, TrackedOK, SystemInv, LedgerOK
  <1>4. /\ t \in Seq(Pairs) /\ Distinct(t) /\ Len(t) \in Nat
        /\ NamesOf(ctx.tracked) \subseteq NamesOf(t)
    <2>1. pos \in 1..Len(script)
      BY DEF SystemInv, RunOK
    <2>2. step.name \in Tracking
      BY <1>1, <2>1 DEF Tracking, step
    <2>3. ctx.keys[step.name] \in Addresses
      BY <1>1 DEF Known, SystemInv, KeysOK
    <2>4. PICK name \in Tracking, addr \in Addresses :
             name = step.name /\ addr = ctx.keys[step.name]
      BY <2>2, <2>3
    <2>5. /\ Track(ctx.tracked, name, addr) \in Seq(Pairs)
          /\ Distinct(Track(ctx.tracked, name, addr))
          /\ NamesOf(Track(ctx.tracked, name, addr)) = NamesOf(ctx.tracked) \cup {name}
      BY <1>3, TrackFacts
    <2> QED
      BY <1>1, <2>4, <2>5
  <1>5. e \in Shots /\ e.of = t /\ e.from = final /\ e.upto = final /\ NotedUpTo(e, 0, 0, 0)
    BY <1>1, <1>3, <1>4, EmptyShotFacts
  <1>6. /\ K \in Seq(Shots) /\ Len(K) = m + 1 /\ K[m + 1] = e
        /\ \A i \in 1..m : K[i] = ctx.shots[i]
    BY <1>2, <1>3, <1>5
  <1>7. \A i \in 1..m + 1 : i \in 1..m \/ i = m + 1
    BY <1>3
  <1>8. ShotsType'
    BY <1>1, <1>2, <1>3, <1>4, <1>6, SameSets DEF ShotsType
  <1>9. TrackedOK'
    <2>1. /\ \A i \in 1..m : /\ Distinct(ctx.shots[i].of)
                             /\ NamesOf(ctx.shots[i].of) \subseteq NamesOf(ctx.tracked)
          /\ \A i, j \in 1..m : i < j =>
                NamesOf(ctx.shots[i].of) \subseteq NamesOf(ctx.shots[j].of)
      BY DEF ShotsInv, TrackedOK
    <2>2. \A i \in 1..m + 1 : Distinct(K[i].of) /\ NamesOf(K[i].of) \subseteq NamesOf(t)
      BY <1>4, <1>5, <1>6, <1>7, <2>1
    <2>3. ASSUME NEW i \in 1..m + 1, NEW j \in 1..m + 1, i < j
          PROVE  NamesOf(K[i].of) \subseteq NamesOf(K[j].of)
      <3>1. i \in 1..m
        BY <1>3, <2>3
      <3>2. CASE j \in 1..m
        BY <1>6, <2>1, <2>3, <3>1, <3>2
      <3>3. CASE j = m + 1
        BY <1>5, <1>6, <2>2, <3>1, <3>3
      <3> QED
        BY <1>7, <3>2, <3>3
    <2> QED
      BY <1>2, <1>4, <1>6, <2>2, <2>3 DEF TrackedOK
  <1>10. PastOK'
    <2>1. Past' \subseteq Past
      <3>1. \A i \in 1..Len(K) : K[i].from \in Past /\ K[i].upto \in Past
        BY <1>5, <1>6, <1>7 DEF Past
      <3> QED
        BY <1>1, <3>1, PastCounts DEF Past, ShotsInv
    <2> QED
      BY <1>1, <2>1 DEF ShotsInv, PastOK
  <1>11. FinishedOK'
    <2>1. \A i \in 1..m : Whole(ctx.shots[i])
      BY <1>1, <1>3 DEF ShotsInv, FinishedOK
    <2>2. Len(K) - 1 = m
      BY <1>3, <1>6
    <2> QED
      BY <1>1, <1>6, <2>1, <2>2 DEF FinishedOK
  <1>12. ReadOK'
    <2>1. UnderWay' = e /\ Len(K) > 0
      BY <1>3, <1>6 DEF UnderWay
    <2>2. Len(Queries(t)) = Total(t) /\ Total(t) \in Nat /\ Total(t) > 0
          /\ Queries(t) = [k \in 1..Len(Queries(t)) |-> Queries(t)[0 + k]]
      <3>1. PICK Q : Queries(t) \in Seq(Q)
        BY <1>4, QueriesFacts
      <3>2. Len(Queries(t)) = Total(t) /\ Total(t) \in Nat /\ Total(t) > 0
        BY <1>4, QueriesFacts DEF Total
      <3>3. PICK f \in Seq(Q) : f = Queries(t)
        BY <3>1
      <3>4. f = [k \in 1..Len(f) |-> f[0 + k]]
        OBVIOUS
      <3> QED
        BY <3>2, <3>3, <3>4
    <2>3. Asked' = 0
      BY <1>2, <1>5, <2>1, <2>2 DEF Asked
    <2>4. final.age \in Nat
      BY <1>3 DEF Ledgers
    <2>5. /\ Len(job'.queries) \in 1..Total(e.of)
          /\ job'.queries = [k \in 1..Len(job'.queries) |-> Queries(e.of)[0 + k]]
      BY <1>2, <1>5, <2>2
    <2>6. \E b, a \in 0..Len(e.of) : NotedUpTo(e, 0, b, a)
      BY <1>4, <1>5
    <2>7. e.from.age <= e.upto.age /\ e.upto.age <= final'.age
      BY <1>1, <1>5, <2>4
    <2> QED
      BY <2>1, <2>3, <2>5, <2>6, <2>7 DEF ReadOK
  <1> QED
    BY <1>8, <1>9, <1>10, <1>11, <1>12 DEF ShotsInv

(* What a Read does, whose answer names slot at and count n.               *)
LEMMA ReadKinds ==
    ASSUME SystemInv, JobOK, ShotsInv, Read
    PROVE  \E at, n \in Nat :
           /\ UNCHANGED <<script, ledger, final, slot>> /\ pc = "read"
           /\ ctx'.tracked = ctx.tracked
           /\ ctx'.shots = [ctx.shots EXCEPT ![Len(ctx.shots)] =
                                Answered(UnderWay, Head(job.queries), final, at, n)]
           /\ IF Len(job.queries) = 1 THEN pc' # "read"
              ELSE pc' = "read" /\ job'.queries = Tail(job.queries)
  <1> DEFINE i == Len(ctx.shots)
             shot(at, n) == Noted(ctx.shots[i], Head(job.queries), final, at, n)
             begun(at, n) == IF Head(job.queries) = <<"epoch">> THEN final ELSE shot(at, n).from
             read(at, n) == [shot(at, n) EXCEPT !.from = begun(at, n), !.upto = final]
  <1>0. PICK at \in slot..MaxSlot, n \in Counts :
           IF Len(job.queries) = 1
             THEN Complete([ctx EXCEPT !.shots = [ctx.shots EXCEPT ![i] = read(at, n)]])
             ELSE /\ Suspend("read",
                             [ctx EXCEPT !.shots = [ctx.shots EXCEPT ![i] = read(at, n)]])
                  /\ job' = [job EXCEPT !.queries = Tail(job.queries)]
    BY DEF Read
  <1>n. at \in Nat /\ n \in Nat
    <2>1. slot \in Nat /\ Counts \subseteq Nat /\ MaxSlot \in Nat
      BY ScenarioAssumption DEF ScenarioAssumption, ShotsInv, ShotsType
    <2> QED
      BY <2>1
  <1> DEFINE r == read(at, n)
             K == [ctx.shots EXCEPT ![i] = r]
  <1>1. /\ UNCHANGED <<script, ledger, final, slot>> /\ pc = "read"
        /\ IF Len(job.queries) = 1 THEN Complete([ctx EXCEPT !.shots = K])
           ELSE /\ Suspend("read", [ctx EXCEPT !.shots = K])
                /\ job' = [job EXCEPT !.queries = Tail(job.queries)]
    BY <1>0 DEF Read, node
  <1>2. r = Answered(UnderWay, Head(job.queries), final, at, n)
    BY DEF Answered, Dated, UnderWay
  <1> HIDE DEF r
  <1>3. K = [ctx.shots EXCEPT ![i] = Answered(UnderWay, Head(job.queries), final, at, n)]
    BY <1>2
  <1> HIDE DEF K
  <1>4. PICK c : c = [ctx EXCEPT !.shots = K] /\ c.shots = K /\ c.tracked = ctx.tracked
    <2>1. DOMAIN ctx = {"keys", "balances", "signatures", "tracked", "shots"}
      BY DEF SystemInv, ContextOK
    <2>2. PICK c : c = [ctx EXCEPT !.shots = K]
      OBVIOUS
    <2>3. c.shots = K /\ c.tracked = ctx.tracked
      BY <2>1, <2>2
    <2> QED
      BY <2>2, <2>3
  <1>5. CASE Len(job.queries) = 1
    <2>1. Complete(c)
      BY <1>1, <1>4, <1>5
    <2>2. ctx' = c /\ pc' # "read"
      BY <2>1 DEF Complete
    <2> QED
      BY <1>n, <1>1, <1>3, <1>4, <1>5, <2>2
  <1>6. CASE Len(job.queries) # 1
    <2>1. Suspend("read", c) /\ job' = [job EXCEPT !.queries = Tail(job.queries)]
      BY <1>1, <1>4, <1>6
    <2>2. ctx' = c /\ pc' = "read" /\ job'.queries = Tail(job.queries)
      BY <2>1 DEF Suspend, JobOK
    <2> QED
      BY <1>n, <1>1, <1>3, <1>4, <1>6, <2>2
  <1> QED
    BY <1>5, <1>6

LEMMA ReadShots ==
    ASSUME SystemInv, JobOK, ShotsInv, Read
    PROVE  ShotsInv'
  <1>0. PICK m, s, qs, d :
           m = Len(ctx.shots) /\ s = UnderWay /\ qs = job.queries /\ d = Asked
    OBVIOUS
  <1>k. PICK at \in Nat, count \in Nat :
           /\ UNCHANGED <<script, ledger, final, slot>> /\ pc = "read"
           /\ ctx'.tracked = ctx.tracked
           /\ ctx'.shots = [ctx.shots EXCEPT ![Len(ctx.shots)] =
                                Answered(UnderWay, Head(job.queries), final, at, count)]
           /\ IF Len(job.queries) = 1 THEN pc' # "read"
              ELSE pc' = "read" /\ job'.queries = Tail(job.queries)
    BY ReadKinds
  <1>r. PICK r : r = Answered(s, Head(qs), final, at, count)
    OBVIOUS
  <1>1. /\ m = Len(ctx.shots) /\ s = UnderWay /\ qs = job.queries /\ d = Asked
           /\ r = Answered(s, Head(qs), final, at, count)
           /\ UNCHANGED <<script, ledger, final, slot>> /\ pc = "read"
           /\ ctx'.tracked = ctx.tracked
           /\ ctx'.shots = [ctx.shots EXCEPT ![m] = r]
           /\ IF Len(qs) = 1 THEN pc' # "read" ELSE pc' = "read" /\ job'.queries = Tail(qs)
    BY <1>0, <1>k, <1>r
  <1>2. /\ m \in Nat /\ m > 0 /\ ctx.shots \in Seq(Shots) /\ slot \in Nat
        /\ s \in Shots /\ s = ctx.shots[m] /\ Distinct(s.of) /\ s.of \in Seq(Pairs)
        /\ Len(s.of) \in Nat /\ Total(s.of) \in Nat
    <2>1. m \in Nat /\ m > 0 /\ ctx.shots \in Seq(Shots) /\ slot \in Nat
      BY <1>1 DEF ShotsInv, ShotsType, ReadOK
    <2>2. m \in 1..m /\ s = ctx.shots[m]
      BY <1>1, <2>1 DEF UnderWay
    <2>3. s \in Shots /\ Distinct(s.of)
      BY <1>1, <2>1, <2>2 DEF ShotsInv, TrackedOK
    <2>4. s.of \in Seq(Pairs)
      BY <2>3 DEF Shots
    <2> QED
      BY <2>1, <2>2, <2>3, <2>4 DEF Total
  <1>3. /\ Len(qs) \in 1..Total(s.of) /\ d = Total(s.of) - Len(qs)
        /\ qs = [k \in 1..Len(qs) |-> Queries(s.of)[d + k]]
        /\ \E b, a \in 0..Len(s.of) : NotedUpTo(s, d, b, a)
        /\ s.from.age <= s.upto.age /\ s.upto.age <= final.age
    BY <1>1 DEF ShotsInv, ReadOK, Asked
  <1>4. Head(qs) = Queries(s.of)[d + 1] /\ d \in 0..Total(s.of) - 1
    BY <1>2, <1>3
  <1>5. /\ final \in Ledgers /\ s.from \in Past /\ s.upto \in Past /\ final \in Past
        /\ s.from.age = s.upto.age => s.from = s.upto
        /\ s.from.age = final.age => s.from = final
    <2>1. s.from \in Past /\ s.upto \in Past /\ final \in Past
      BY <1>1, <1>2 DEF Past
    <2> QED
      BY <2>1 DEF ShotsInv, PastOK, SystemInv, LedgerOK
  <1>6. /\ r \in Shots /\ r.of = s.of /\ r.upto = final /\ r.from \in {s.from, final}
        /\ r.from.age <= final.age
        /\ \E b, a \in 0..Len(s.of) : NotedUpTo(r, d + 1, b, a)
    <2>1. PICK b \in 0..Len(s.of), a \in 0..Len(s.of) : NotedUpTo(s, d, b, a)
      BY <1>3
    <2>2. r = Answered(s, Queries(s.of)[d + 1], final, at, count)
      BY <1>r, <1>4
    <2>3. /\ s \in Shots /\ Distinct(s.of) /\ final \in Ledgers /\ slot \in Nat
          /\ d \in 0..Total(s.of) - 1
          /\ s.from.age <= s.upto.age /\ s.upto.age <= final.age
          /\ s.from.age = s.upto.age => s.from = s.upto
          /\ s.from.age = final.age => s.from = final
      BY <1>2, <1>3, <1>4, <1>5
    <2>4. Grows(s, Answered(s, Queries(s.of)[d + 1], final, at, count), d, final)
      BY <2>1, <2>3, NotedStep
    <2> QED
      BY <2>2, <2>4 DEF Grows
  <1>7. PICK K \in Seq(Shots) :
           /\ K = ctx'.shots /\ Len(K) = m /\ K[m] = r
           /\ \A i \in 1..m : i # m => K[i] = ctx.shots[i]
    <2>1. PICK shots \in Seq(Shots) : shots = ctx.shots /\ Len(shots) = m
      BY <1>1, <1>2
    <2>2. PICK K : K = [shots EXCEPT ![m] = r]
      OBVIOUS
    <2>3. /\ K \in Seq(Shots) /\ Len(K) = m /\ K[m] = r
          /\ \A i \in 1..m : i # m => K[i] = shots[i]
      BY <1>2, <1>6, <2>1, <2>2
    <2>4. K = ctx'.shots
      BY <1>1, <2>1, <2>2
    <2> QED
      BY <2>1, <2>3, <2>4
  <1>8. ShotsType'
    BY <1>1, <1>7, SameSets DEF ShotsInv, ShotsType
  <1>9. TrackedOK'
    <2>1. \A i \in 1..m : K[i].of = ctx.shots[i].of
      BY <1>2, <1>6, <1>7
    <2> QED
      BY <1>1, <1>7, <2>1 DEF ShotsInv, TrackedOK
  <1>10. PastOK'
    <2>1. \A i \in 1..m : K[i].from \in Past /\ K[i].upto \in Past
      <3>1. \A i \in 1..m : ctx.shots[i].from \in Past /\ ctx.shots[i].upto \in Past
        BY <1>1 DEF Past
      <3> QED
        BY <1>5, <1>6, <1>7, <3>1
    <2>2. Past' \subseteq Past
      <3>1. Past' = {ledger, final} \cup {K[i].from : i \in 1..m} \cup {K[i].upto : i \in 1..m}
        BY <1>1, <1>7 DEF Past
      <3>2. ledger \in Past /\ final \in Past
        BY DEF Past
      <3> QED
        BY <2>1, <3>1, <3>2
    <2> QED
      BY <1>1, <2>2 DEF ShotsInv, PastOK
  <1>11. \A i \in 1..m - 1 : Whole(K[i])
    <2>1. \A i \in 1..m - 1 : Whole(ctx.shots[i])
      BY <1>1 DEF ShotsInv, FinishedOK
    <2>2. \A i \in 1..m - 1 : i \in 1..m /\ i # m
      BY <1>2
    <2> QED
      BY <1>7, <2>1, <2>2
  <1>12. FinishedOK'
    <2>1. CASE Len(qs) = 1
      <3>1. PICK b \in 0..Len(s.of), a \in 0..Len(s.of) : NotedUpTo(r, d + 1, b, a)
        BY <1>6
      <3>2. d + 1 = Total(s.of)
        BY <1>2, <1>3, <2>1
      <3>3. IF d + 1 <= 2 THEN a = 0 /\ b = 0 ELSE d + 1 = 2 + a + b /\ (b = a \/ b = a + 1)
        BY <3>1 DEF NotedUpTo
      <3>4. b = Len(s.of) /\ a = Len(s.of)
        BY <1>2, <3>2, <3>3 DEF Total
      <3>5. Whole(r)
        BY <1>6, <3>1, <3>2, <3>4 DEF Whole
      <3>6. \A i \in 1..m : i = m \/ i \in 1..m - 1
        BY <1>2
      <3>7. \A i \in 1..m : Whole(K[i])
        BY <1>7, <1>11, <3>5, <3>6
      <3> QED
        BY <1>1, <1>2, <1>7, <2>1, <3>7 DEF FinishedOK
    <2>2. CASE Len(qs) # 1
      BY <1>1, <1>7, <1>11, <2>2 DEF FinishedOK
    <2> QED
      BY <2>1, <2>2
  <1>13. ReadOK'
    <2>1. CASE Len(qs) = 1
      BY <1>1, <2>1 DEF ReadOK
    <2>2. CASE Len(qs) # 1
      <3>1. UnderWay' = r /\ Len(K) > 0
        BY <1>2, <1>7 DEF UnderWay
      <3> DEFINE tl == Tail(qs)
      <3> HIDE DEF tl
      <3>2. /\ Len(tl) = Len(qs) - 1 /\ Len(tl) \in 1..Total(s.of)
            /\ tl = [k \in 1..Len(qs) - 1 |-> Queries(s.of)[d + 1 + k]]
        <4>1. Len(qs) \in Nat /\ Len(qs) > 1 /\ d \in Nat
          BY <1>2, <1>3, <1>4, <2>2
        <4>2. PICK Q : qs \in Seq(Q)
          <5>1. PICK Q : Queries(s.of) \in Seq(Q)
            BY <1>2, QueriesFacts
          <5>2. Len(Queries(s.of)) = Total(s.of)
            BY <1>2, QueriesFacts
          <5>3. ASSUME NEW k \in 1..Len(qs) PROVE Queries(s.of)[d + k] \in Q
            <6>0. /\ Total(s.of) \in Nat /\ Len(qs) \in Nat /\ d \in Nat
                  /\ d = Total(s.of) - Len(qs)
              BY <1>2, <1>3, <4>1
            <6>1. d + k \in 1..Total(s.of)
              BY <6>0
            <6> QED
              BY <5>1, <5>2, <6>1
          <5>4. PICK n, f : n \in Nat /\ n = Len(qs) /\ f = [k \in 1..n |-> Queries(s.of)[d + k]]
            BY <4>1
          <5>5. f \in Seq(Q) /\ f = qs
            BY <1>3, <5>3, <5>4
          <5> QED
            BY <5>5
        <4>4. tl \in Seq(Q) /\ Len(tl) = Len(qs) - 1 /\ \A k \in 1..Len(qs) - 1 : tl[k] = qs[k + 1]
          BY <4>1, <4>2 DEF tl
        <4>5. \A k \in 1..Len(qs) - 1 : qs[k + 1] = Queries(s.of)[d + 1 + k]
          <5> SUFFICES ASSUME NEW k \in 1..Len(qs) - 1
                       PROVE  qs[k + 1] = Queries(s.of)[d + 1 + k]
            OBVIOUS
          <5>1. k + 1 \in 1..Len(qs) /\ d + (k + 1) = d + 1 + k
            BY <4>1
          <5>2. qs[k + 1] = Queries(s.of)[d + (k + 1)]
            BY <1>3, <5>1
          <5> QED
            BY <5>1, <5>2
        <4>6. tl = [k \in 1..Len(qs) - 1 |-> Queries(s.of)[d + 1 + k]]
          BY <4>1, <4>4, <4>5
        <4>7. Len(tl) \in 1..Total(s.of)
          BY <1>2, <1>3, <4>1, <4>4
        <4>8. Len(tl) = Len(qs) - 1
          BY <4>4
        <4> QED
          BY <4>6, <4>7, <4>8, Zenon
      <3>3. Asked' = d + 1
        <4>1. Asked' = Total(r.of) - Len(tl)
          <5>1. job'.queries = tl
            BY <1>1, <2>2 DEF tl
          <5> QED
            BY <3>1, <5>1 DEF Asked
        <4>2. /\ Total(r.of) = Total(s.of) /\ Total(s.of) \in Nat /\ Len(qs) \in Nat
              /\ Len(tl) = Len(qs) - 1 /\ d = Total(s.of) - Len(qs)
          BY <1>2, <1>3, <1>6, <3>2
        <4> QED
          BY <4>1, <4>2
      <3>4. r.upto.age <= final'.age /\ r.from.age <= r.upto.age
        BY <1>1, <1>5, <1>6 DEF Ledgers
      <3>5. job'.queries = tl
        BY <1>1, <2>2 DEF tl
      <3>6. job'.queries = [k \in 1..Len(job'.queries) |-> Queries(r.of)[d + 1 + k]]
        BY <1>6, <3>2, <3>5
      <3>7. Len(job'.queries) \in 1..Total(r.of)
        BY <1>6, <3>2, <3>5
      <3>8. \E b, a \in 0..Len(r.of) : NotedUpTo(r, d + 1, b, a)
        BY <1>6
      <3>9. Len(ctx'.shots) > 0
        BY <1>7, <3>1
      <3> QED
        BY <3>1, <3>3, <3>4, <3>6, <3>7, <3>8, <3>9 DEF ReadOK
    <2> QED
      BY <2>1, <2>2
  <1> QED
    BY <1>8, <1>9, <1>10, <1>12, <1>13 DEF ShotsInv

LEMMA ShotsStep ==
    SystemInv /\ JobOK /\ ShotsInv /\ [Next]_vars => ShotsInv'
  BY ShotKinds, StartShots, QuietKeepsShots, NodeKeepsShots, DropKeepsShots,
     SnapshotShots, ReadShots

There(s) == {name \in DOMAIN s.accounts : s.accounts[name]}

LEMMA MaxOfOne == ASSUME NEW n \in Nat PROVE Max({n}) = n
  BY DEF Max

(* A finished snapshot during which the node stood still holds the amounts *)
(* of its tracked names.                                                   *)
LEMMA Amounts ==
    ASSUME NEW s \in Shots, Distinct(s.of), Whole(s), s.from = s.upto
    PROVE  /\ DOMAIN s.balances = NamesOf(s.of)
           /\ \A name : /\ Amount(s, name) = ValueAt(s.balances, name, 0)
                        /\ Amount(s, name) \in Nat
                        /\ Amount(s, name) # 0 => name \in NamesOf(s.of)
                        /\ name \in There(s) <=> Amount(s, name) > 0
  <1> DEFINE m == Len(s.of)
  <1>0. /\ s.of \in Seq(Pairs) /\ m \in Nat /\ DOMAIN s.of = 1..m /\ s.from \in Ledgers
    BY DEF Shots
  <1>1. /\ DOMAIN s.balances = NamesOf(s.of) /\ DOMAIN s.accounts = NamesOf(s.of)
        /\ \A n \in 1..m : s.balances[s.of[n][1]] = s.from.bal[s.of[n][2]]
        /\ \A n \in 1..m : s.accounts[s.of[n][1]] <=> s.from.bal[s.of[n][2]] > 0
    BY <1>0 DEF Whole, NotedUpTo, NamesOf, Total
  <1>2. \A n \in 1..m : s.from.bal[s.of[n][2]] \in Nat
    <2> SUFFICES ASSUME NEW n \in 1..m PROVE s.from.bal[s.of[n][2]] \in Nat
      OBVIOUS
    <2>1. s.of[n] \in Pairs
      BY <1>0
    <2>2. s.of[n][2] \in Addresses
      BY <2>1 DEF Pairs
    <2> QED
      BY <1>0, <2>2 DEF Ledgers
  <1>3. ASSUME NEW n \in 1..m
        PROVE  Amount(s, s.of[n][1]) = s.from.bal[s.of[n][2]]
    <2> DEFINE at == {k \in DOMAIN s.of : s.of[k][1] = s.of[n][1]}
    <2>1. at = {n}
      BY <1>0 DEF Distinct
    <2>2. Max(at) = n
      BY <1>0, <2>1, MaxOfOne
    <2> QED
      BY <2>1, <2>2 DEF Amount
  <1>4. ASSUME NEW name, name \notin NamesOf(s.of)
        PROVE  Amount(s, name) = 0
    <2>1. {n \in DOMAIN s.of : s.of[n][1] = name} = {}
      BY <1>0, <1>4 DEF NamesOf, NamesUpTo
    <2> QED
      BY <2>1 DEF Amount
  <1>5. ASSUME NEW name
        PROVE  /\ Amount(s, name) = ValueAt(s.balances, name, 0)
               /\ Amount(s, name) \in Nat
               /\ Amount(s, name) # 0 => name \in NamesOf(s.of)
               /\ name \in There(s) <=> Amount(s, name) > 0
    <2>1. CASE name \in NamesOf(s.of)
      <3>1. PICK n \in 1..m : name = s.of[n][1]
        BY <2>1 DEF NamesOf, NamesUpTo
      <3> QED
        BY <1>1, <1>2, <1>3, <2>1, <3>1 DEF ValueAt, There
    <2>2. CASE name \notin NamesOf(s.of)
      BY <1>1, <1>4, <2>2 DEF ValueAt, There
    <2> QED
      BY <2>1, <2>2
  <1> QED
    BY <1>0, <1>1, <1>5

(* What DiffShowsScenario says of two snapshots.                           *)
Tells(s, t) ==
    LET names == {t.of[n][1] : n \in DOMAIN t.of}
        moved == {name \in names : Amount(s, name) # Amount(t, name)}
        d == Diff(s, t)
    IN  /\ d.balance_changes = [name \in moved |-> Amount(t, name) - Amount(s, name)]
        /\ d.accounts_created = {name \in moved : Amount(s, name) = 0}
        /\ d.accounts_removed = {name \in moved : Amount(t, name) = 0}
        /\ HasChanges(d) <=> moved # {} \/ s.slot # t.slot \/ s.count # t.count

LEMMA DiffFacts ==
    ASSUME NEW s \in Shots, NEW t \in Shots, Distinct(s.of), Distinct(t.of),
           Whole(s), Whole(t), s.from = s.upto, t.from = t.upto,
           NamesOf(s.of) \subseteq NamesOf(t.of)
    PROVE  Tells(s, t)
  <1> DEFINE names == {t.of[n][1] : n \in DOMAIN t.of}
             moved == {name \in names : Amount(s, name) # Amount(t, name)}
             delta(name) == ValueAt(t.balances, name, 0) - ValueAt(s.balances, name, 0)
             changed == {name \in Names(s, t) : delta(name) # 0}
             d == Diff(s, t)
  <1>0. names = NamesOf(t.of)
    <2>1. DOMAIN t.of = 1..Len(t.of)
      BY DEF Shots
    <2> QED
      BY <2>1 DEF NamesOf, NamesUpTo
  <1> HIDE DEF names
  <1>1. /\ DOMAIN s.balances = NamesOf(s.of)
        /\ \A name : /\ Amount(s, name) = ValueAt(s.balances, name, 0)
                     /\ Amount(s, name) \in Nat
                     /\ Amount(s, name) # 0 => name \in NamesOf(s.of)
                     /\ name \in There(s) <=> Amount(s, name) > 0
    BY Amounts
  <1>2. /\ DOMAIN t.balances = names
        /\ \A name : /\ Amount(t, name) = ValueAt(t.balances, name, 0)
                     /\ Amount(t, name) \in Nat
                     /\ Amount(t, name) # 0 => name \in names
                     /\ name \in There(t) <=> Amount(t, name) > 0
    BY <1>0, Amounts
  <1>3. /\ d.balance_changes = [name \in changed |-> delta(name)]
        /\ d.accounts_created = There(t) \ There(s)
        /\ d.accounts_removed = There(s) \ There(t)
        /\ d.tx_count_delta = t.count - s.count /\ d.slot_delta = t.slot - s.slot
    BY DEF Diff, There
  <1>4. Names(s, t) = names
    BY <1>0, <1>1, <1>2 DEF Names
  <1>5. \A name : delta(name) = Amount(t, name) - Amount(s, name)
    BY <1>1, <1>2
  <1> HIDE DEF delta
  <1>6. changed = moved
    <2>1. \A name : Amount(s, name) \in Nat /\ Amount(t, name) \in Nat
      BY <1>1, <1>2
    <2>2. \A name : delta(name) # 0 <=> Amount(s, name) # Amount(t, name)
      BY <1>5, <2>1
    <2> QED
      BY <1>4, <2>2
  <1>7. d.balance_changes = [name \in moved |-> Amount(t, name) - Amount(s, name)]
    BY <1>3, <1>5, <1>6
  <1>8. There(t) \ There(s) = {name \in moved : Amount(s, name) = 0}
    BY <1>0, <1>1, <1>2
  <1>9. There(s) \ There(t) = {name \in moved : Amount(t, name) = 0}
    BY <1>0, <1>1, <1>2
  <1>10. HasChanges(d) <=> moved # {} \/ s.slot # t.slot \/ s.count # t.count
    <2>1. /\ d.tx_count_delta # 0 <=> s.count # t.count
          /\ d.slot_delta # 0 <=> s.slot # t.slot
      BY <1>3 DEF Shots
    <2>2. DOMAIN d.balance_changes = moved
      BY <1>7
    <2>3. d.accounts_created \subseteq moved /\ d.accounts_removed \subseteq moved
      BY <1>3, <1>8, <1>9
    <2> HIDE DEF d, moved
    <2> QED
      BY <2>1, <2>2, <2>3 DEF HasChanges
  <1>11. /\ d.balance_changes = [name \in moved |-> Amount(t, name) - Amount(s, name)]
         /\ d.accounts_created = {name \in moved : Amount(s, name) = 0}
         /\ d.accounts_removed = {name \in moved : Amount(t, name) = 0}
    BY <1>3, <1>7, <1>8, <1>9
  <1> QED
    <2> HIDE DEF d, moved
    <2>1. /\ d.balance_changes = [name \in moved |-> Amount(t, name) - Amount(s, name)]
          /\ d.accounts_created = {name \in moved : Amount(s, name) = 0}
          /\ d.accounts_removed = {name \in moved : Amount(t, name) = 0}
          /\ HasChanges(d) <=> moved # {} \/ s.slot # t.slot \/ s.count # t.count
      BY <1>10, <1>11
    <2> QED
      BY <2>1 DEF Tells, d, moved, names

(* The snapshots are kept as ShotsInv says in every reachable state.       *)
THEOREM ShotsAreKept == Spec => [](SystemInv /\ JobOK /\ ShotsInv)
  <1>1. Init => JobOK /\ ShotsInv
    <2> SUFFICES ASSUME Init PROVE JobOK /\ ShotsInv
      OBVIOUS
    <2>1. ctx.tracked = <<>> /\ ctx.shots = <<>> /\ pc = "over" /\ slot = 0 /\ final = ledger
      BY DEF Init, NewContext
    <2>2. Len(ctx.shots) = 0 /\ 1..Len(ctx.shots) = {} /\ Len(ctx.tracked) = 0
      BY <2>1
    <2>3. JobOK /\ ShotsType
      BY <2>1 DEF Init, JobOK, NoJob, ShotsType
    <2>4. TrackedOK /\ FinishedOK /\ ReadOK
      BY <2>1, <2>2 DEF TrackedOK, FinishedOK, ReadOK, Distinct
    <2>5. PastOK
      <3>1. Past = {ledger} /\ ledger.age = 0
        BY <2>1, <2>2 DEF Past, Init
      <3> QED
        BY <3>1 DEF PastOK
    <2> QED
      BY <2>3, <2>4, <2>5 DEF ShotsInv
  <1>2. SystemInv /\ JobOK /\ ShotsInv /\ [Next]_vars => JobOK' /\ ShotsInv'
    BY JobStep, ShotsStep
  <1> QED
    BY <1>1, <1>2, RunsKeepApart, PTL DEF Spec

(* Two snapshots of a run during which nothing was finalized differ by     *)
(* what their names gained or lost in the finalized ledger (state.py diff, *)
(* called by custom steps of Scenario.run), whatever lands, fails or is    *)
(* lost between them and whatever the node answers to the count of         *)
(* transactions; has_changes tells of these amounts, slot and count only.  *)
THEOREM DiffsTellTheLedger == Spec => []DiffShowsScenario
  <1>1. SystemInv /\ ShotsInv => DiffShowsScenario
    <2> SUFFICES ASSUME SystemInv, ShotsInv,
                        NEW j \in 1..(Len(ctx.shots) - (IF pc = "read" THEN 1 ELSE 0)),
                        NEW i \in 1..(j - 1),
                        ctx.shots[i].from = ctx.shots[i].upto,
                        ctx.shots[j].from = ctx.shots[j].upto
                 PROVE  Tells(ctx.shots[i], ctx.shots[j])
      BY DEF DiffShowsScenario, Tells
    <2>1. /\ Len(ctx.shots) \in Nat /\ i \in 1..Len(ctx.shots) /\ j \in 1..Len(ctx.shots) /\ i < j
          /\ i \in 1..(Len(ctx.shots) - (IF pc = "read" THEN 1 ELSE 0))
      <3>1. Len(ctx.shots) \in Nat
        BY DEF ShotsInv, ShotsType
      <3>2. CASE pc = "read"
        BY <3>1, <3>2
      <3>3. CASE pc # "read"
        BY <3>1, <3>3
      <3> QED
        BY <3>2, <3>3
    <2>2. PICK s \in Shots, t \in Shots : s = ctx.shots[i] /\ t = ctx.shots[j]
      BY <2>1 DEF ShotsInv, ShotsType
    <2>3. /\ Distinct(s.of) /\ Distinct(t.of) /\ Whole(s) /\ Whole(t)
          /\ s.from = s.upto /\ t.from = t.upto /\ NamesOf(s.of) \subseteq NamesOf(t.of)
      BY <2>1, <2>2 DEF ShotsInv, TrackedOK, FinishedOK
    <2> QED
      BY <2>2, <2>3, DiffFacts
  <1> QED
    BY <1>1, ShotsAreKept, PTL
-----------------------------------------------------------------------------
(* A run only goes on.                                                     *)

(* How a run goes on: to its end, to a later step, from the beginning of a *)
(* step to what it waits for, or to the next of its polls or queries.      *)
Advances ==
    /\ UNCHANGED <<script, run>> /\ pc # "over"
    /\ \/ pc' = "over"
       \/ pos < pos' /\ pos' <= Len(script)
       \/ pos' = pos /\ pc = "step" /\ pc' \in {"wait", "poll", "read"}
       \/ pos' = pos /\ pc = "poll" /\ pc' = "poll" /\ job'.polls \in 0 .. job.polls - 1
       \/ pos' = pos /\ pc = "read" /\ pc' = "read"
          /\ Len(job'.queries) \in 0 .. Len(job.queries) - 1

Rests == UNCHANGED <<script, run, pos, pc, job>>

NextRun == pc = "over" /\ UNCHANGED script /\ run' = run + 1 /\ run' <= Runs

(* The polls of a wait for a slot are counted, from any number.            *)
PollOK == pc = "poll" => job.polls \in Int

LEMMA PollStep ==
    ASSUME SystemInv, JobOK, PollOK, [Next]_vars
    PROVE  PollOK'
  <1>1. CASE WaitSlots
    <2>1. IsStep(step) /\ step.do \in {"wait_slots", "facade_wait_slots"}
      BY <1>1, ScriptFacts DEF WaitSlots, SystemInv, RunOK, step
    <2>2. step.n \in Int /\ PollsPer \in Int
      BY <2>1, ScenarioAssumption DEF IsStep, ScenarioAssumption
    <2>3. job'.polls = IF step.do = "wait_slots" THEN step.n * PollsPer ELSE PollsPer
      BY <1>1 DEF WaitSlots, JobOK
    <2>4. step.n * PollsPer \in Int
      BY <2>2
    <2> QED
      BY <2>2, <2>3, <2>4 DEF PollOK
  <1>2. CASE Poll
    <2>1. pc = "poll" /\ job.polls \in Int
      BY <1>2 DEF Poll, PollOK
    <2>2. pc' = "poll" => job' = PollsLess
      BY <1>2, <2>1 DEF Poll, Complete, FailStep
    <2>3. PollsLess.polls = job.polls - 1
      BY DEF PollsLess, JobOK
    <2> QED
      BY <2>1, <2>2, <2>3 DEF PollOK
  <1>3. CASE Start \/ AddKeypair \/ Fund \/ Transfer \/ Confirmed \/ Check
    BY <1>3 DEF Start, AddKeypair, Fund, Transfer, Confirmed, Check, Complete, FailStep,
                Suspend, PollOK
  <1>4. CASE Snapshot \/ Read \/ KeyError \/ Raise
    BY <1>4 DEF Snapshot, Read, KeyError, Raise, Complete, FailStep, Suspend, PollOK
  <1>5. CASE Root \/ Lands \/ Done \/ UNCHANGED vars
    BY <1>5 DEF Root, Lands, Land, Expire, Done, vars, PollOK
  <1> QED
    BY <1>1, <1>2, <1>3, <1>4, <1>5 DEF Next, Proceed, Lands

(* The end of a step, good or bad, is progress.                            *)
LEMMA EndsAdvance ==
    ASSUME RunOK, UNCHANGED <<script, run>>, pc # "over", Completes \/ Fails
    PROVE  Advances
  <1>1. pos \in 1..Len(script) /\ Len(script) \in Nat
    BY AddressFacts DEF RunOK
  <1>2. CASE Completes
    BY <1>1, <1>2 DEF Completes, Complete, Advances
  <1>3. CASE Fails
    BY <1>3 DEF Fails, FailStep, Advances
  <1> QED
    BY <1>2, <1>3

(* So is every other step of the runner.                                   *)
LEMMA ProceedAdvances ==
    ASSUME SystemInv, JobOK, ShotsInv, PollOK, Proceed \/ Raise
    PROVE  Advances
  <1>0. RunOK
    BY DEF SystemInv
  <1>1. CASE AddKeypair \/ Confirmed \/ Check \/ KeyError \/ Raise
    <2>1. UNCHANGED <<script, run>> /\ pc # "over" /\ (Completes \/ Fails)
      BY <1>1 DEF AddKeypair, Confirmed, Check, KeyError, Raise, Completes, Fails
    <2> QED
      BY <1>0, <2>1, EndsAdvance
  <1>2. CASE Fund \/ Transfer \/ WaitSlots \/ Snapshot
    BY <1>2 DEF Fund, Transfer, WaitSlots, Snapshot, Suspend, Advances
  <1>3. CASE Poll
    <2>1. pc = "poll" /\ job.polls \in Int /\ UNCHANGED <<script, run>>
      BY <1>3 DEF Poll, PollOK
    <2>2. CASE Completes \/ Fails
      BY <1>0, <2>1, <2>2, EndsAdvance
    <2>3. CASE ~(Completes \/ Fails)
      <3>1. job.polls > 0 /\ job' = PollsLess /\ UNCHANGED <<pc, pos>>
        BY <1>3, <2>1, <2>3 DEF Poll, Completes, Fails
      <3>2. job'.polls = job.polls - 1
        BY <3>1 DEF PollsLess, JobOK
      <3> QED
        BY <2>1, <3>1, <3>2 DEF Advances
    <2> QED
      BY <2>2, <2>3
  <1>4. CASE Read
    <2>1. pc = "read" /\ UNCHANGED <<script, run>>
      BY <1>4 DEF Read
    <2>2. CASE Completes
      BY <1>0, <2>1, <2>2, EndsAdvance
    <2>3. CASE ~Completes
      <3> DEFINE n == Len(job.queries)
                 S == {job.queries[k] : k \in 1..n}
      <3>1. n \in Nat \ {0} /\ job.queries = [k \in 1..n |-> job.queries[k]]
        <4>1. /\ n \in 1..Total(UnderWay.of)
              /\ job.queries = [k \in 1..n |-> Queries(UnderWay.of)[Asked + k]]
          BY <2>1 DEF ShotsInv, ReadOK
        <4> QED
          BY <4>1
      <3>2. job.queries \in Seq(S)
        <4>1. [k \in 1..n |-> job.queries[k]] \in [1..n -> S]
          OBVIOUS
        <4>2. [1..n -> S] \subseteq Seq(S)
          BY <3>1
        <4> HIDE DEF S, n
        <4> QED
          BY <3>1, <4>1, <4>2
      <3>3. /\ n # 1 /\ pc' = "read" /\ pos' = pos
            /\ job' = [job EXCEPT !.queries = Tail(job.queries)]
        BY <1>4, <2>3 DEF Read, Completes, Suspend
      <3>4. job'.queries = Tail(job.queries)
        BY <3>3 DEF JobOK
      <3>5. Len(Tail(job.queries)) = n - 1
        <4>1. job.queries # <<>>
          BY <3>1
        <4> HIDE DEF S
        <4> QED
          BY <3>2, <4>1
      <3> QED
        BY <2>1, <3>1, <3>3, <3>4, <3>5 DEF Advances
    <2> QED
      BY <2>2, <2>3
  <1> QED
    BY <1>1, <1>2, <1>3, <1>4 DEF Proceed

(* A run of a scenario (Scenario.run of scenarios.py) never goes back, to  *)
(* an earlier step, an earlier poll or a query already answered, whatever  *)
(* the ledger does, and only a run that is over is followed by another: a  *)
(* scenario of finitely many steps takes finitely many.  The limit of the  *)
(* polls holds for any count of slots, zero and less included.  What       *)
(* RunEnds asks beyond this is that a run under way is resumed.            *)
THEOREM RunsOnlyAdvance == Spec => [][NextRun \/ Rests \/ Advances]_vars
  <1> DEFINE Kept == SystemInv /\ JobOK /\ ShotsInv
  <1>1. Init => PollOK
    BY DEF Init, PollOK
  <1>2. Kept /\ PollOK /\ [Next]_vars => PollOK'
    BY PollStep
  <1>3. Kept /\ PollOK /\ [Next]_vars => [NextRun \/ Rests \/ Advances]_vars
    <2> SUFFICES ASSUME Kept, PollOK, Next PROVE NextRun \/ Rests \/ Advances
      OBVIOUS
    <2>1. CASE Start
      <3>1. run \in Nat /\ Runs \in Nat
        BY AddressFacts, ScenarioAssumption DEF ScenarioAssumption, SystemInv
      <3> QED
        BY <2>1, <3>1 DEF Start, NextRun
    <2>2. CASE Proceed \/ Raise
      BY <2>2, ProceedAdvances
    <2>3. CASE Root \/ Lands \/ Done
      BY <2>3 DEF Root, Lands, Land, Expire, Done, vars, Rests
    <2> QED
      BY <2>1, <2>2, <2>3 DEF Next, Lands
  <1> HIDE DEF Kept
  <1>4. Spec => []Kept
    BY ShotsAreKept DEF Kept
  <1> QED
    BY <1>1, <1>2, <1>3, <1>4, PTL DEF Spec
=============================================================================
