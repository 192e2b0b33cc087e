--------------------------- MODULE InstrumentedRpc ---------------------------
(***************************************************************************)
(* InstrumentedRpcClient of instrumented_rpc.py with the default chain of  *)
(* middleware.py, around the calls of RpcClient: request and request_raw   *)
(* run the after hooks of the interceptors in the step in which the call   *)
(* ends, whichever way; batch is inherited and runs none.  The hooks never *)
(* suspend, and the before hooks do nothing.  One chain serves all calls   *)
(* of a test session, which may reset what it has collected.               *)
(***************************************************************************)
EXTENDS RpcClient, FiniteSets

CONSTANTS
    Methods,     \* names of RPC methods
    MaxRecords   \* max_records of RecordingInterceptor

ASSUME InstrumentedAssumption == IsFiniteSet(Calls) /\ MaxRecords \in Nat

VARIABLES
    method,     \* method[c]: the RPC method of the call
    stats,      \* TimingInterceptor.stats: calls and errors of each method
    records,    \* RecordingInterceptor.records: a call and the error it saw
    byCode,     \* ErrorClassifier.by_code
    byMethod,   \* ErrorClassifier.by_method
    statsOld,   \* calls that were over when stats was last reset
    recordsOld  \* calls that were over when records was last reset

tables == <<stats, records, byCode, byMethod>>
reset == <<statsOld, recordsOld>>
allVars == <<vars, method, tables, reset>>

(* The code under which an error is counted: its own, or -1 ("exception"). *)
Codes == {"exception", "busy_error", "rpc_error"}

InstrumentedInit ==
    /\ Init
    /\ method \in [Calls -> Methods]
    /\ stats = [m \in Methods |-> [calls |-> 0, errors |-> 0]]
    /\ records = <<>>
    /\ byCode = [e \in Codes |-> 0]
    /\ byMethod = [m \in Methods |-> [e \in Codes |-> 0]]
    /\ statsOld = {} /\ recordsOld = {}

-----------------------------------------------------------------------------
(* error_data: request raises an RPC error as RpcCallError, an Exception   *)
(* like any other; request_raw, and request with raw set, return it with   *)
(* its code; a cancellation is no Exception and leaves error_data at None. *)
ErrorData(k, how) ==
    CASE how \in {"ok", "cancelled"}   -> "none"
      [] how \in {"gave_up", "escaped"} -> "exception"
      [] OTHER -> IF k = "request" THEN "exception" ELSE how

(* MethodStats.record.                                                     *)
Record(m, e) ==
    stats' = [stats EXCEPT ![m].calls = @ + 1,
                           ![m].errors = IF e = "none" THEN @ ELSE @ + 1]

(* Mutation: the cap tested after the append.                              *)
RoomForOneMore == Len(records) <= MaxRecords
Room == Len(records) < MaxRecords

(* Mutation: a request that failed is not recorded.                        *)
KeepAnswered(c, e) ==
    records' = IF Room /\ e = "none" THEN Append(records, [call |-> c, error |-> e]) ELSE records
Keep(c, e) ==
    records' = IF Room THEN Append(records, [call |-> c, error |-> e]) ELSE records

(* Mutation: the inner table starts again at each error.                   *)
ClassifyAnew(m, e) ==
    IF e = "none" THEN UNCHANGED <<byCode, byMethod>>
    ELSE /\ byCode' = [byCode EXCEPT ![e] = @ + 1]
         /\ byMethod' = [byMethod EXCEPT ![m] = [x \in Codes |-> IF x = e THEN 1 ELSE 0]]
Classify(m, e) ==
    IF e = "none" THEN UNCHANGED <<byCode, byMethod>>
    ELSE /\ byCode' = [byCode EXCEPT ![e] = @ + 1]
         /\ byMethod' = [byMethod EXCEPT ![m][e] = @ + 1]

RunAfter(c, e) == Record(method[c], e) /\ Keep(c, e) /\ Classify(method[c], e)

(* Mutation: hooks in an else clause, not in finally.                      *)
HooksUnlessCancelled(k, how) == k # "batch" /\ how # "cancelled"
Hooks(k, how) == k # "batch"

(* A step of the coroutine of c, in which the call may end.                *)
Instrumented(c) ==
    /\ ClientStep(c)
    /\ IF pc'[c] = "done" /\ Hooks(kind'[c], outcome'[c])
         THEN RunAfter(c, ErrorData(kind'[c], outcome'[c]))
         ELSE UNCHANGED tables
    /\ UNCHANGED <<method, reset>>

Over == {c \in Calls : pc[c] = "done"}

ResetStats ==
    /\ stats' = [m \in Methods |-> [calls |-> 0, errors |-> 0]]
    /\ statsOld' = Over
    /\ UNCHANGED <<vars, method, records, byCode, byMethod, recordsOld>>

ResetRecords ==
    /\ records' = <<>>
    /\ recordsOld' = Over
    /\ UNCHANGED <<vars, method, stats, byCode, byMethod, statsOld>>

-----------------------------------------------------------------------------
InstrumentedNext ==
    \/ \E c \in Calls : Instrumented(c)
    \/ /\ (\E c \in Calls : ServerStep(c)) \/ Close \/ Finished
       /\ UNCHANGED <<method, tables, reset>>
    \/ ResetStats
    \/ ResetRecords

InstrumentedSpec == InstrumentedInit /\ [][InstrumentedNext]_allVars

-----------------------------------------------------------------------------
(* Properties.                                                             *)

(* The interceptors keep their types, and never more records than the cap. *)
TablesOK ==
    /\ method \in [Calls -> Methods]
    /\ stats \in [Methods -> [calls : Nat, errors : Nat]]
    /\ records \in Seq([call : Calls, error : Codes \cup {"none"}])
    /\ Len(records) <= MaxRecords
    /\ byCode \in [Codes -> Nat] /\ byMethod \in [Methods -> [Codes -> Nat]]
    /\ statsOld \subseteq Over /\ recordsOld \subseteq Over

ErrorOf(c) == ErrorData(kind[c], outcome[c])
Counted == {c \in Over : kind[c] # "batch"}

(* The statistics of a method count every request of it that is over once, *)
(* however often it was sent, however it ended, cancellation included, and *)
(* whatever else was under way; a reset forgets those that were over and   *)
(* none of those under way.                                                *)
StatisticsMatch ==
    \A m \in Methods :
        LET since == {c \in Counted \ statsOld : method[c] = m} IN
        /\ stats[m].calls = Cardinality(since)
        /\ stats[m].errors = Cardinality({c \in since : ErrorOf(c) # "none"})

(* The records are those of the first requests to end since the last       *)
(* reset: none twice, each with the error its own call hands to the hooks  *)
(* (ErrorData: the code, if request_raw returned it, or -1 and 'exception' *)
(* for whatever raised), and none missing before the cap is reached.       *)
RecordsMatch ==
    /\ \A i \in DOMAIN records :
          /\ records[i].call \in Counted \ recordsOld
          /\ records[i].error = ErrorOf(records[i].call)
          /\ \A j \in DOMAIN records : records[i].call = records[j].call => i = j
    /\ Len(records) < MaxRecords =>
          \A c \in Counted \ recordsOld : \E i \in DOMAIN records : records[i].call = c

(* Both tables of the error classifier count every failed request of the   *)
(* session once, under one code, so that they agree with each other.       *)
ErrorsMatch ==
    \A e \in Codes :
        /\ byCode[e] = Cardinality({c \in Counted : ErrorOf(c) = e})
        /\ \A m \in Methods :
              byMethod[m][e] = Cardinality({c \in Counted : method[c] = m /\ ErrorOf(c) = e})
=============================================================================
