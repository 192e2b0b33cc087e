----------------------------- MODULE Comparison -----------------------------
(***************************************************************************)
(* comparison.py: compare_many asks a reference and a target node the same *)
(* questions in parallel, compares the answers field by field and records  *)
(* a result for each.  A value is a record of its type t and its content   *)
(* v; a path is the sequence of its keys and of the names of its items.    *)
(***************************************************************************)
EXTENDS Integers, Sequences, Functions

CONSTANTS
    Questions,  \* the calls given to compare_many: 1..n
    Answers(_), \* what a node may answer to a call: a value, an error, no answer
    Default,    \* DEFAULT_IGNORE_FIELDS, as paths; of one key: at any depth
    Names,      \* what a path is made of: all keys, and the names of items
    Item(_),    \* the name of the i-th item of a list, as in "[0]"
    Values,     \* the values answers are made of, and what these contain
    Depth       \* how deep a value is nested: JSON is a finite tree

ASSUME ComparisonAssumption ==
    /\ Default \subseteq Seq(Names) \ {<<>>}
    /\ Depth \in [Values -> Nat]
    /\ \A value \in Values :
          /\ value.t = "dict" => DOMAIN value.v \subseteq Names
          /\ value.t = "list" =>
                /\ value.v \in Seq(Values)
                /\ \A i \in DOMAIN value.v : 
                      /\ Item(i) \in Names /\ \A path \in Default : path[Len(path)] # Item(i)
                      /\ \A j \in DOMAIN value.v : Item(i) = Item(j) => i = j
          /\ value.t \in {"dict", "list"} =>
                \A k \in DOMAIN value.v : value.v[k] \in Values /\ Depth[value.v[k]] < Depth[value]
    /\ \A c \in Questions : \A answer \in Answers(c) :
          /\ answer.is \in {"result", "error", "exception"}
          /\ answer.is = "result" => answer.value \in Values

VARIABLES
    heard,      \* heard[c]: the answers to call c so far, by side
    results,    \* the list of the client, in the order the comparisons ended
    returned    \* what compare_many returned, or <<>>

comparisonVars == <<heard, results, returned>>
Sides == {"reference", "target"}
Unheard == [is |-> "unheard"]

ComparisonInit ==
    /\ heard = [c \in Questions |-> [s \in Sides |-> Unheard]]
    /\ results = <<>> /\ returned = <<>>

-----------------------------------------------------------------------------
(* deep_compare: the set of the differences found, as nothing asks for     *)
(* their order.                                                            *)

Min2(m, n) == IF m < n THEN m ELSE n
Max2(m, n) == IF m < n THEN n ELSE m

(* Mutation: lists are compared as far as both go.                         *)
CommonLength(r, t) == Min2(Len(r), Len(t))
Length(r, t) == Max2(Len(r), Len(t))

Ignored(path) == path # <<>> /\ (path \in Default \/ <<path[Len(path)]>> \in Default)

Found(path, kind) == {[path |-> path, kind |-> kind]}

(* bool is a subclass of int in Python.                                    *)
IsInstance(r, t) == r.t = t.t \/ (r.t = "bool" /\ t.t = "int")

Pairs == [path : Seq(Names), reference : Values, target : Values]

DeepCompare[x \in Pairs] ==
    LET r == x.reference
        t == x.target
        both(type) == r.t = type /\ t.t = type
        child(k, path) ==
            CASE k \notin DOMAIN t.v -> Found(path, "missing_field")
              [] k \notin DOMAIN r.v -> Found(path, "extra_field")
              [] OTHER -> DeepCompare[[path |-> path, reference |-> r.v[k], target |-> t.v[k]]]
    IN
    IF Ignored(x.path) THEN {}
    ELSE CASE both("dict") ->
                UNION {child(k, Append(x.path, k)) :
                       k \in {k \in DOMAIN r.v \cup DOMAIN t.v : ~Ignored(Append(x.path, k))}}
           [] both("list") ->
                UNION {child(i, Append(x.path, Item(i))) : i \in 1..Length(r.v, t.v)}
           [] OTHER ->
                IF ~IsInstance(r, t) THEN Found(x.path, "type_mismatch")
                ELSE IF r.v # t.v THEN Found(x.path, "value_mismatch") ELSE {}

-----------------------------------------------------------------------------
(* compare and compare_many.                                               *)

(* An exception of the client counts as an error of code -1.               *)
Code(answer) == IF answer.is = "exception" THEN -1 ELSE answer.code
IsError(answer) == answer.is # "result"

Diffs(r, t) ==
    CASE IsError(r) /\ IsError(t) ->
            IF Code(r) = Code(t) THEN {} ELSE Found(<<"error.code">>, "value_mismatch")
      [] IsError(r) # IsError(t) -> Found(<<"error">>, "error_mismatch")
      [] OTHER -> DeepCompare[[path |-> <<>>, reference |-> r.value, target |-> t.value]]

Matches(result) == result.diffs = {}

Kind(result) ==
    LET r == result.reference
        t == result.target
    IN
    CASE IsError(r) /\ IsError(t) -> IF Code(r) = Code(t) THEN "both_error" ELSE "error_mismatch"
      [] IsError(r) /\ ~IsError(t) -> "reference_error"
      [] ~IsError(r) /\ IsError(t) -> "target_error"
      [] OTHER -> IF Matches(result) THEN "match" ELSE "value_mismatch"

Result(c) ==
    [call |-> c, reference |-> heard[c]["reference"], target |-> heard[c]["target"],
     diffs |-> Diffs(heard[c]["reference"], heard[c]["target"])]

Compared(c) == \E i \in DOMAIN results : results[i].call = c

(* Each side answers or raises in its own time; the client retries, and    *)
(* raises in the end (module RpcClient).                                   *)
Hear(c, side) ==
    /\ heard[c][side] = Unheard
    /\ \E answer \in Answers(c) : heard' = [heard EXCEPT ![c][side] = answer]
    /\ UNCHANGED <<results, returned>>

Compare(c) ==
    /\ \A side \in Sides : heard[c][side] # Unheard
    /\ ~Compared(c)
    /\ results' = Append(results, Result(c))
    /\ UNCHANGED <<heard, returned>>

CompareMany ==
    /\ returned = <<>> /\ \A c \in Questions : Compared(c)
    /\ returned' = [c \in Questions |-> CHOOSE r \in Range(results) : r.call = c]
    /\ UNCHANGED <<heard, results>>

Done == returned # <<>> /\ UNCHANGED comparisonVars

ComparisonNext ==
    \/ CompareMany \/ Done
    \/ \E c \in Questions : Compare(c) \/ \E side \in Sides : Hear(c, side)

ComparisonSpec == ComparisonInit /\ [][ComparisonNext]_comparisonVars

-----------------------------------------------------------------------------
(* Properties.                                                             *)

(* What a value says: at which path there is what.  Ignored paths are not  *)
(* looked at.                                                              *)
Says[x \in [path : Seq(Names), value : Values]] ==
    LET value == x.value
        here(v) == {[path |-> x.path, t |-> value.t, v |-> v]}
        name(k) == IF value.t = "dict" THEN k ELSE Item(k)
    IN
    IF Ignored(x.path) THEN {}
    ELSE IF value.t \in {"dict", "list"}
      THEN here(0) \cup UNION {Says[[path |-> Append(x.path, name(k)), value |-> value.v[k]]] :
                               k \in DOMAIN value.v}
      ELSE here(value.v)

Covers(S, T) == \A x \in S : \E y \in T : x.path = y.path /\ x.v = y.v /\ IsInstance(x, y)

(* Two results agree if they say the same, but for a bool of the reference *)
(* that equals a number of the target.                                     *)
Agree(r, t) ==
    LET S == Says[[path |-> <<>>, value |-> r]]
        T == Says[[path |-> <<>>, value |-> t]]
    IN  Covers(S, T) /\ \A y \in T : \E x \in S : x.path = y.path

(* "automatically comparing results" (comparison.py:4): every call is      *)
(* recorded once with the answers of its own two sides, however they       *)
(* interleave, and compare_many returns the records in the order asked.  A *)
(* record matches exactly if both sides failed alike or both succeeded and *)
(* agree on every field that is not ignored, and its kind says the same.   *)
VerdictSound ==
    /\ \A i, j \in DOMAIN results : results[i].call = results[j].call => i = j
    /\ \A r \in Range(results) :
          LET a == r.reference
              b == r.target
          IN  /\ a = heard[r.call]["reference"] /\ b = heard[r.call]["target"]
              /\ Matches(r) <=>
                    \/ IsError(a) /\ IsError(b) /\ Code(a) = Code(b)
                    \/ ~IsError(a) /\ ~IsError(b) /\ Agree(a.value, b.value)
              /\ Matches(r) <=> Kind(r) \in {"match", "both_error"}
    /\ returned # <<>> =>
          /\ Range(returned) = Range(results)
          /\ \A c \in Questions : returned[c].call = c
=============================================================================
