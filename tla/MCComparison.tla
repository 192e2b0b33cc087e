---------------------------- MODULE MCComparison ----------------------------
(* Two calls: one is answered by any of the values below, or an error, on  *)
(* each side; the other by a number or not at all.                         *)
EXTENDS Comparison, FiniteSetsExt, TLC

Number(n) == [t |-> "int", v |-> n]
Bool(n) == [t |-> "bool", v |-> n]
List(s) == [t |-> "list", v |-> s]
Dict(f) == [t |-> "dict", v |-> f]

Leaves == {Number(0), Number(1), Bool(1), [t |-> "null", v |-> 0]}
Lists == {List(<<>>)} \cup {List(<<x>>) : x \in Leaves} \cup {List(<<Number(1), x>>) : x \in Leaves}

(* slot is ignored wherever it is, context.apiVersion only there.          *)
Contexts == {Dict([apiVersion |-> Number(0)]), Dict([apiVersion |-> Number(1)]),
             Dict([slot |-> Number(1), value |-> Number(1)]), Dict([value |-> Bool(1)])}
Dicts ==
    {Dict(<<>>)} \cup {Dict([context |-> c]) : c \in Contexts}
    \cup {Dict([apiVersion |-> x, slot |-> y]) : x \in Leaves, y \in {Number(0), Number(1)}}
    \cup {Dict([value |-> x]) : x \in Lists}

Value(x) == [is |-> "result", value |-> x]

MCAnswers(c) ==
    {[is |-> "exception"], [is |-> "error", code |-> 1]}
    \cup IF c = 1 THEN {Value(x) : x \in Leaves \cup Lists \cup Dicts} ELSE {Value(Number(1))}

MCItem(i) == "[" \o ToString(i - 1) \o "]"
MCNames == {"apiVersion", "context", "slot", "value"} \cup {MCItem(i) : i \in 1..2}
MCDefault == {<<"slot">>, <<"context", "apiVersion">>}
MCValues == Leaves \cup Lists \cup Contexts \cup Dicts

MCDepth[x \in MCValues] ==
    IF x.t \in {"dict", "list"} THEN Max({0} \cup {MCDepth[x.v[k]] + 1 : k \in DOMAIN x.v}) ELSE 0
=============================================================================
