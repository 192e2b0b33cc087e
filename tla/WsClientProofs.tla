--------------------------- MODULE WsClientProofs ---------------------------
(***************************************************************************)
(* The safety properties of WsClient for any number of requests and        *)
(* notifications.  The invariant has one part for each idea: the stages of *)
(* close (Control), the numbers of requests and subscriptions (Requests),  *)
(* how many answers are under way (Counting), where each notification is   *)
(* (Notes), and what client and server know of each other as long as no    *)
(* answer has been left behind (Agreement).  Last, how many steps close()  *)
(* has.                                                                    *)
(***************************************************************************)
EXTENDS WsClient, FiniteSetTheorems, SequenceTheorems, TLAPS

Requested == [op : {"sub", "unsub"}, req : Nat, sub : Nat]
Messages == [type : Types, req : Nat, val : Nat]

Shapes ==
    /\ pc \in {"ready", "subscribing", "receiving", "unsubscribing",
               "closing", "closed"}
    /\ requestId \in Nat /\ target \in Nat /\ want \in Nat /\ astray \in Nat
    /\ subs \subseteq Nat /\ todo \subseteq subs
    /\ closingUp \in BOOLEAN /\ alive \in BOOLEAN
    /\ got \in Seq(Nat) /\ delivered \in Seq(Nat) /\ missed \subseteq Nat
    /\ up \in Seq(Requested) /\ down \in Seq(Messages)
    /\ notes \in 0..MaxNotes
    /\ DOMAIN owner = SubIds

(* What close() still has to give up is what is left of the table.         *)
Control ==
    /\ pc \in {"closing", "closed"} => closingUp
    /\ closingUp => pc \in {"closing", "closed", "unsubscribing"}
    /\ pc = "unsubscribing" => target \in subs /\ target \notin todo
    /\ closingUp /\ pc = "unsubscribing" => subs = todo \cup {target}
    /\ pc = "closing" => subs = todo
    /\ pc = "closed" => subs = {}
    /\ pc = "receiving" => want >= 1
    /\ ~closingUp => todo = {}

(* A request is newer than those before it and than every subscription of  *)
(* the server, which therefore never runs out of ids.                      *)
Requests ==
    /\ nextSub \in Nat /\ nextSub >= FirstId /\ nextSub <= FirstId + requestId
    /\ nextSub <= FirstId + MaxRequests
    /\ active \subseteq FirstId .. nextSub - 1
    /\ \A i \in DOMAIN up :
          /\ nextSub < FirstId + up[i].req /\ up[i].req <= requestId
          /\ up[i].op = "sub" => up[i].req <= MaxRequests
    /\ \A i, j \in DOMAIN up : i < j => up[i].req < up[j].req

AnswerCount == Cardinality(AnswersIn(down))

Counting ==
    /\ stale \in Nat
    /\ Len(up) + AnswerCount <= stale + Awaiting
    /\ alive => Len(up) + AnswerCount = stale + Awaiting
    /\ ~alive => up = <<>>

Increasing(s) == \A i, j \in DOMAIN s : i < j => s[i] < s[j]
NotesIncreasing(q) ==
    \A i, j \in DOMAIN q \ AnswersIn(q) : i < j => q[i].req < q[j].req
Below(A, B) == \A a \in A, b \in B : a < b

(* Delivered, then collected, then under way: in the order sent, and apart *)
(* from those that were missed.                                            *)
Notes ==
    /\ Increasing(delivered) /\ Increasing(got) /\ NotesIncreasing(down)
    /\ Below(Range(delivered), Range(got))
    /\ Below(Range(delivered), NotesIn(down)) /\ Below(Range(got), NotesIn(down))
    /\ (Range(delivered) \cup Range(got) \cup NotesIn(down)) \cap missed = {}
    /\ Range(delivered) \cup missed \cup Range(got) \cup NotesIn(down) \subseteq 1..notes
    /\ pc # "closed" =>
          1..notes \subseteq Range(delivered) \cup missed \cup Range(got) \cup NotesIn(down)

(* No answer has ever been left behind, and the connection is in use.      *)
Synced ==
    /\ alive /\ stale = 0 /\ astray = 0 /\ ~closingUp
    /\ pc \in {"ready", "receiving", "subscribing", "unsubscribing"}

(* What the answer to the request under way will say, or says.             *)
AnswerFits(m) ==
    /\ pc = "subscribing" =>
          \/ /\ m.type = "ack" /\ m.val \in FirstId .. nextSub - 1
             /\ owner[m.val] = requestId /\ active = subs \cup {m.val}
          \/ m.type = "error" /\ active = subs
    /\ pc = "unsubscribing" => m.type = "unack" /\ active = subs \ {target}

RequestFits(r) ==
    /\ active = subs
    /\ pc = "subscribing" => r.op = "sub" /\ r.req = requestId
    /\ pc = "unsubscribing" => r.op = "unsub" /\ r.sub = target

Agreement ==
    Synced =>
        /\ pc \in {"ready", "receiving"} => subs = active
        /\ \A i \in DOMAIN up : RequestFits(up[i])
        /\ \A i \in AnswersIn(down) : AnswerFits(down[i])
        /\ \A r \in returned : r[2] \in FirstId .. nextSub - 1 /\ owner[r[2]] = r[1]

IInv == Shapes /\ Control /\ Requests /\ Counting /\ Notes /\ Agreement

-----------------------------------------------------------------------------
(* Sequences.                                                              *)

(* What is left of a queue when its head is taken.                         *)
LEMMA TailFacts ==
    ASSUME NEW S, NEW s \in Seq(S), s # <<>>
    PROVE  /\ Head(s) = s[1] /\ s[1] \in S /\ 1 \in DOMAIN s /\ Len(s) \in Nat \ {0}
           /\ Tail(s) \in Seq(S) /\ Len(Tail(s)) = Len(s) - 1
           /\ DOMAIN s = 1..Len(s) /\ DOMAIN Tail(s) = 1..(Len(s) - 1)
           /\ \A i \in DOMAIN Tail(s) : i + 1 \in DOMAIN s /\ Tail(s)[i] = s[i + 1]
  BY HeadTailProperties, LenProperties, EmptySeq

(* What becomes of a queue when something is added.                        *)
LEMMA AppendFacts ==
    ASSUME NEW S, NEW s \in Seq(S), NEW e \in S
    PROVE  /\ Append(s, e) \in Seq(S) /\ Len(s) \in Nat /\ Len(Append(s, e)) = Len(s) + 1
           /\ DOMAIN s = 1..Len(s) /\ DOMAIN Append(s, e) = 1..(Len(s) + 1)
           /\ \A i \in DOMAIN s : Append(s, e)[i] = s[i]
           /\ Append(s, e)[Len(s) + 1] = e
  BY AppendProperties, LenProperties

(* The empty queue.                                                        *)
LEMMA EmptyFacts ==
    /\ \A S : <<>> \in Seq(S)
    /\ Len(<<>>) = 0 /\ DOMAIN <<>> = {} /\ Range(<<>>) = {}
    /\ AnswersIn(<<>>) = {} /\ NotesIn(<<>>) = {} /\ Cardinality(AnswersIn(<<>>)) = 0
    /\ Increasing(<<>>) /\ NotesIncreasing(<<>>)
  <1>1. DOMAIN <<>> = {}
    BY EmptySeq, LenProperties
  <1>2. Range(<<>>) = {} /\ AnswersIn(<<>>) = {}
    BY <1>1 DEF Range, AnswersIn
  <1> QED
    BY <1>1, <1>2, EmptySeq, FS_EmptySet DEF NotesIn, Increasing, NotesIncreasing

(* The answers of a queue are finitely many.                               *)
LEMMA AnswersFinite ==
    ASSUME NEW q \in Seq(Messages)
    PROVE  /\ IsFiniteSet(AnswersIn(q)) /\ Cardinality(AnswersIn(q)) \in Nat
           /\ Cardinality(AnswersIn(q)) = 0 <=> AnswersIn(q) = {}
  <1>1. AnswersIn(q) \subseteq 1..Len(q) /\ Len(q) \in Nat
    BY LenProperties DEF AnswersIn
  <1>2. IsFiniteSet(1..Len(q))
    BY <1>1, FS_Interval
  <1>3. IsFiniteSet(AnswersIn(q))
    BY <1>1, <1>2, FS_Subset
  <1> QED
    BY <1>3, FS_CardinalityType, FS_EmptySet

(* Taking the head takes one answer away, if it is one.                    *)
LEMMA CountTail ==
    ASSUME NEW q \in Seq(Messages), q # <<>>
    PROVE  Cardinality(AnswersIn(Tail(q))) =
             Cardinality(AnswersIn(q)) - (IF q[1].type # "note" THEN 1 ELSE 0)
  <1> DEFINE A == AnswersIn(Tail(q))
             B == AnswersIn(q) \ {1}
             f == [i \in A |-> i + 1]
  <1>1. A \subseteq 1..(Len(q) - 1) /\ Len(q) \in Nat
    BY TailFacts DEF AnswersIn
  <1>2. \A i \in A : i + 1 \in B
    BY <1>1, TailFacts DEF AnswersIn
  <1>3. \A j \in B : j - 1 \in A /\ f[j - 1] = j
    <2> TAKE j \in B
    <2>1. j \in 1..Len(q) /\ j # 1 /\ q[j].type # "note"
      BY TailFacts DEF AnswersIn
    <2>2. j - 1 \in DOMAIN Tail(q) /\ Tail(q)[j - 1] = q[j]
      BY <2>1, <1>1, TailFacts
    <2> QED
      BY <2>1, <2>2 DEF AnswersIn
  <1>4. ExistsBijection(A, B)
    <2>1. f \in [A -> B]
      BY <1>2
    <2>2. \A i, j \in A : f[i] = f[j] => i = j
      BY <1>1
    <2>3. f \in Injection(A, B)
      BY <2>1, <2>2 DEF Injection, IsInjective
    <2>4. f \in Surjection(A, B)
      <3>1. \A j \in B : \E i \in A : f[i] = j
        BY <1>3
      <3> QED
        BY <2>1, <3>1 DEF Surjection
    <2> QED
      BY <2>3, <2>4 DEF ExistsBijection, Bijection
  <1>5. IsFiniteSet(A) /\ Cardinality(B) = Cardinality(A)
    <2>1. Tail(q) \in Seq(Messages)
      BY TailFacts
    <2>2. IsFiniteSet(A)
      BY <2>1, AnswersFinite
    <2> HIDE DEF A, B
    <2> QED
      BY <1>4, <2>2, FS_Bijection
  <1>6. 1 \in AnswersIn(q) <=> q[1].type # "note"
    BY TailFacts DEF AnswersIn
  <1>7. Cardinality(B) = IF 1 \in AnswersIn(q) THEN Cardinality(AnswersIn(q)) - 1
                                               ELSE Cardinality(AnswersIn(q))
    BY AnswersFinite, FS_RemoveElement
  <1> QED
    BY <1>5, <1>6, <1>7, AnswersFinite

(* Adding a message adds one answer, if it is one.                         *)
LEMMA CountAppend ==
    ASSUME NEW q \in Seq(Messages), NEW m \in Messages
    PROVE  /\ AnswersIn(Append(q, m)) =
                AnswersIn(q) \cup (IF m.type # "note" THEN {Len(q) + 1} ELSE {})
           /\ Cardinality(AnswersIn(Append(q, m))) =
                Cardinality(AnswersIn(q)) + (IF m.type # "note" THEN 1 ELSE 0)
  <1>1. AnswersIn(Append(q, m)) =
           AnswersIn(q) \cup (IF m.type # "note" THEN {Len(q) + 1} ELSE {})
    BY AppendFacts DEF AnswersIn
  <1>2. Len(q) + 1 \notin AnswersIn(q)
    BY AppendFacts DEF AnswersIn
  <1>3. IsFiniteSet(AnswersIn(q)) /\ Cardinality(AnswersIn(q)) \in Nat
    BY AnswersFinite
  <1>4. Cardinality(AnswersIn(q) \cup {Len(q) + 1}) = Cardinality(AnswersIn(q)) + 1
    BY <1>2, <1>3, FS_AddElement
  <1>5. CASE m.type # "note"
    BY <1>1, <1>4, <1>5
  <1>6. CASE m.type = "note"
    <2>1. AnswersIn(Append(q, m)) = AnswersIn(q)
      BY <1>1, <1>6
    <2> QED
      BY <2>1, <1>3, <1>6
  <1> QED
    BY <1>5, <1>6

(* Taking the head takes its note away, if it is one, which is the lowest. *)
LEMMA NotesTail ==
    ASSUME NEW q \in Seq(Messages), q # <<>>, NotesIncreasing(q)
    PROVE  /\ NotesIncreasing(Tail(q))
           /\ q[1].type # "note" => NotesIn(Tail(q)) = NotesIn(q)
           /\ q[1].type = "note" =>
                /\ NotesIn(q) = {q[1].req} \cup NotesIn(Tail(q))
                /\ Below({q[1].req}, NotesIn(Tail(q)))
  <1>1. \A i \in DOMAIN Tail(q) : i \in Nat /\ 1 < i + 1
    BY TailFacts
  <1>2. NotesIncreasing(Tail(q))
    BY <1>1, TailFacts DEF NotesIncreasing, AnswersIn
  <1>3. \A x : x \in NotesIn(Tail(q)) <=>
           \E j \in DOMAIN q : j > 1 /\ q[j].type = "note" /\ x = q[j].req
    <2>1. \A j \in DOMAIN q : j > 1 => j - 1 \in DOMAIN Tail(q) /\ Tail(q)[j - 1] = q[j]
      BY TailFacts
    <2> QED
      BY <2>1, <1>1, TailFacts DEF NotesIn, Range
  <1>4. \A x : x \in NotesIn(q) <=> \E j \in DOMAIN q : q[j].type = "note" /\ x = q[j].req
    BY DEF NotesIn, Range
  <1>5. \A j \in DOMAIN q : j = 1 \/ j > 1
    BY TailFacts
  <1>6. ASSUME q[1].type # "note" PROVE NotesIn(Tail(q)) = NotesIn(q)
    <2>1. \A j \in DOMAIN q : q[j].type = "note" => j > 1
      BY <1>5, <1>6
    <2>2. \A x : x \in NotesIn(Tail(q)) <=> x \in NotesIn(q)
      BY <1>3, <1>4, <2>1
    <2> QED
      BY <2>2
  <1>7. ASSUME q[1].type = "note" PROVE NotesIn(q) = {q[1].req} \cup NotesIn(Tail(q))
    <2>1. 1 \in DOMAIN q
      BY TailFacts
    <2>2. \A x : x \in NotesIn(q) <=> x = q[1].req \/ x \in NotesIn(Tail(q))
      BY <1>3, <1>4, <1>5, <1>7, <2>1
    <2> QED
      BY <2>2
  <1>8. q[1].type = "note" => Below({q[1].req}, NotesIn(Tail(q)))
    BY <1>3, TailFacts DEF NotesIncreasing, AnswersIn, Below
  <1> QED
    BY <1>2, <1>6, <1>7, <1>8

(* Adding a note that is above all others, or something else.              *)
LEMMA NotesAppend ==
    ASSUME NEW q \in Seq(Messages), NEW m \in Messages, NotesIncreasing(q),
           m.type = "note" => Below(NotesIn(q), {m.req})
    PROVE  /\ NotesIncreasing(Append(q, m))
           /\ NotesIn(Append(q, m)) =
                NotesIn(q) \cup (IF m.type = "note" THEN {m.req} ELSE {})
  <1>1. NotesIn(Append(q, m)) = NotesIn(q) \cup (IF m.type = "note" THEN {m.req} ELSE {})
    <2>1. \A x : x \in NotesIn(Append(q, m)) <=>
             \E j \in DOMAIN Append(q, m) :
                Append(q, m)[j].type = "note" /\ x = Append(q, m)[j].req
      BY DEF NotesIn, Range
    <2>2. \A x : x \in NotesIn(q) <=> \E j \in DOMAIN q : q[j].type = "note" /\ x = q[j].req
      BY DEF NotesIn, Range
    <2>3. DOMAIN Append(q, m) = DOMAIN q \cup {Len(q) + 1}
      BY AppendFacts
    <2> QED
      BY <2>1, <2>2, <2>3, AppendFacts
  <1>2. \A j \in DOMAIN q : q[j].type = "note" => q[j].req \in NotesIn(q)
    BY DEF NotesIn, Range
  <1>3. NotesIncreasing(Append(q, m))
    BY <1>2, AppendFacts DEF NotesIncreasing, AnswersIn, Below
  <1> QED
    BY <1>1, <1>3

(* Adding a number above all others.                                       *)
LEMMA IncreasingAppend ==
    ASSUME NEW s \in Seq(Nat), NEW n \in Nat, Increasing(s), Below(Range(s), {n})
    PROVE  /\ Append(s, n) \in Seq(Nat) /\ Increasing(Append(s, n))
           /\ Range(Append(s, n)) = Range(s) \cup {n}
  <1>1. \A i \in DOMAIN s : s[i] < n
    BY DEF Range, Below
  <1>2. Increasing(Append(s, n))
    BY <1>1, AppendFacts DEF Increasing
  <1>3. DOMAIN Append(s, n) = DOMAIN s \cup {Len(s) + 1}
    BY AppendFacts
  <1>4. Range(Append(s, n)) = Range(s) \cup {n}
    BY <1>3, AppendFacts DEF Range
  <1> QED
    BY <1>2, <1>4, AppendFacts

(* Concatenating two increasing sequences, one above the other.            *)
LEMMA IncreasingConcat ==
    ASSUME NEW s \in Seq(Nat), NEW t \in Seq(Nat), Increasing(s), Increasing(t),
           Below(Range(s), Range(t))
    PROVE  /\ s \o t \in Seq(Nat) /\ Increasing(s \o t)
           /\ Range(s \o t) = Range(s) \cup Range(t)
  <1>1. /\ s \o t \in Seq(Nat) /\ Len(s) \in Nat /\ Len(t) \in Nat
        /\ DOMAIN s = 1..Len(s) /\ DOMAIN t = 1..Len(t)
        /\ DOMAIN (s \o t) = 1..(Len(s) + Len(t))
        /\ \A i \in 1..(Len(s) + Len(t)) : (s \o t)[i] =
              IF i <= Len(s) THEN s[i] ELSE t[i - Len(s)]
    BY ConcatProperties, LenProperties
  <1>2. \A i \in DOMAIN s, j \in DOMAIN t : s[i] < t[j]
    BY DEF Range, Below
  <1>3. Increasing(s \o t)
    BY <1>1, <1>2 DEF Increasing
  <1>4. \A j \in DOMAIN t : Len(s) + j \in DOMAIN (s \o t) /\ (s \o t)[Len(s) + j] = t[j]
    BY <1>1
  <1>5. \A i \in DOMAIN s : i \in DOMAIN (s \o t) /\ (s \o t)[i] = s[i]
    BY <1>1
  <1>6. \A i \in DOMAIN (s \o t) :
           (i \in DOMAIN s /\ (s \o t)[i] = s[i])
           \/ (i - Len(s) \in DOMAIN t /\ (s \o t)[i] = t[i - Len(s)])
    BY <1>1
  <1>7. Range(s \o t) \subseteq Range(s) \cup Range(t)
    <2> SUFFICES ASSUME NEW i \in DOMAIN (s \o t)
                 PROVE  (s \o t)[i] \in Range(s) \cup Range(t)
      BY DEF Range
    <2>1. CASE i \in DOMAIN s /\ (s \o t)[i] = s[i]
      BY <2>1 DEF Range
    <2>2. CASE i - Len(s) \in DOMAIN t /\ (s \o t)[i] = t[i - Len(s)]
      BY <2>2 DEF Range
    <2> QED
      BY <2>1, <2>2, <1>6
  <1>8. Range(s) \subseteq Range(s \o t)
    BY <1>5 DEF Range
  <1>9. Range(t) \subseteq Range(s \o t)
    <2> SUFFICES ASSUME NEW j \in DOMAIN t PROVE t[j] \in Range(s \o t)
      BY DEF Range
    <2> QED
      BY <1>4 DEF Range
  <1> QED
    BY <1>1, <1>3, <1>7, <1>8, <1>9

-----------------------------------------------------------------------------
(* The steps.                                                              *)

(* Nothing is under way at first.                                          *)
LEMMA InitInv == Init => IInv
  <1> SUFFICES ASSUME Init PROVE IInv
    OBVIOUS
  <1>1. Shapes
    <2>1. <<>> \in Seq(Nat) /\ <<>> \in Seq(Requested) /\ <<>> \in Seq(Messages)
      BY EmptyFacts
    <2>2. /\ got \in Seq(Nat) /\ delivered \in Seq(Nat)
          /\ up \in Seq(Requested) /\ down \in Seq(Messages)
      BY <2>1 DEF Init
    <2>3. target \in Nat /\ notes \in 0..MaxNotes /\ DOMAIN owner = SubIds
      BY WsAssumption DEF WsAssumption, Init
    <2>4. /\ pc = "ready" /\ requestId \in Nat /\ want \in Nat /\ astray \in Nat
          /\ subs = {} /\ todo = {} /\ missed = {}
          /\ closingUp \in BOOLEAN /\ alive \in BOOLEAN
      BY DEF Init
    <2> QED
      BY <2>2, <2>3, <2>4 DEF Shapes
  <1>2. Control
    BY DEF Init, Control
  <1>3. Requests
    BY EmptyFacts, WsAssumption DEF WsAssumption, Init, Requests
  <1>4. Counting
    BY EmptyFacts DEF Init, Counting, Awaiting, AnswerCount
  <1>5. Notes
    <2>1. 1..0 = {}
      OBVIOUS
    <2> QED
      BY <2>1, EmptyFacts DEF Init, Notes, Below
  <1>6. Agreement
    BY EmptyFacts DEF Init, Agreement
  <1> QED
    BY <1>1, <1>2, <1>3, <1>4, <1>5, <1>6 DEF IInv

(* What the server adds to the queue is a message.                         *)
LEMMA MessageType ==
    ASSUME NEW type \in Types, NEW req \in Nat, NEW val \in Nat
    PROVE  /\ Message(type, req, val) \in Messages
           /\ Message(type, req, val).type = type
           /\ Message(type, req, val).req = req /\ Message(type, req, val).val = val
  BY DEF Message, Messages

(* The numbers of the server.                                              *)
LEMMA ServerNumbers ==
    ASSUME Shapes, Requests
    PROVE  /\ FirstId \in Nat /\ nextSub \in Nat /\ \A s \in active : s \in Nat
           /\ notes \in Nat /\ notes + 1 \in Nat
  <1>1. FirstId \in Nat /\ MaxNotes \in Nat
    BY WsAssumption DEF WsAssumption
  <1>2. notes \in 0..MaxNotes
    BY DEF Shapes
  <1>3. nextSub \in Nat /\ active \subseteq FirstId .. nextSub - 1
    BY DEF Requests
  <1>4. \A s \in FirstId .. nextSub - 1 : s \in Nat
    BY <1>1, <1>3
  <1> QED
    BY <1>1, <1>2, <1>3, <1>4

(* A request that is sent.                                                 *)
LEMMA SendFacts ==
    ASSUME Shapes, NEW op \in {"sub", "unsub"}, NEW sub \in Nat, Send(op, sub)
    PROVE  /\ requestId' = requestId + 1 /\ requestId' \in Nat
           /\ up' \in Seq(Requested)
           /\ Len(up) \in Nat /\ Len(up') = Len(up) + 1
           /\ DOMAIN up = 1..Len(up) /\ DOMAIN up' = DOMAIN up \cup {Len(up) + 1}
           /\ \A i \in DOMAIN up : up'[i] = up[i]
           /\ up'[Len(up) + 1] = [op |-> op, req |-> requestId + 1, sub |-> sub]
  <1> DEFINE r == [op |-> op, req |-> requestId + 1, sub |-> sub]
  <1>1. r \in Requested
    BY DEF Requested, Shapes
  <1>2. /\ up' = Append(up, r) /\ up \in Seq(Requested)
        /\ requestId' = requestId + 1 /\ requestId' \in Nat
    BY DEF Send, Shapes
  <1> HIDE DEF r
  <1>3. /\ Append(up, r) \in Seq(Requested) /\ Len(up) \in Nat
        /\ Len(Append(up, r)) = Len(up) + 1
        /\ DOMAIN up = 1..Len(up) /\ DOMAIN Append(up, r) = 1..(Len(up) + 1)
        /\ \A i \in DOMAIN up : Append(up, r)[i] = up[i]
        /\ Append(up, r)[Len(up) + 1] = r
    BY <1>1, <1>2, AppendFacts
  <1>4. 1..(Len(up) + 1) = 1..Len(up) \cup {Len(up) + 1}
    BY <1>3
  <1> QED
    BY <1>1, <1>2, <1>3, <1>4 DEF r

(* A message that is read.                                                 *)
LEMMA TakeFacts ==
    ASSUME Shapes, Notes, down # <<>>
    PROVE  /\ Head(down) = down[1] /\ down[1] \in Messages /\ 1 \in DOMAIN down
           /\ Tail(down) \in Seq(Messages)
           /\ AnswerCount \in Nat /\ Cardinality(AnswersIn(Tail(down))) \in Nat
           /\ Cardinality(AnswersIn(Tail(down))) =
                AnswerCount - (IF down[1].type # "note" THEN 1 ELSE 0)
           /\ NotesIncreasing(Tail(down))
           /\ down[1].type # "note" => NotesIn(Tail(down)) = NotesIn(down)
           /\ down[1].type = "note" =>
                /\ NotesIn(down) = {down[1].req} \cup NotesIn(Tail(down))
                /\ Below({down[1].req}, NotesIn(Tail(down)))
  <1>1. down \in Seq(Messages) /\ NotesIncreasing(down)
    BY DEF Shapes, Notes
  <1>2. /\ Head(down) = down[1] /\ down[1] \in Messages /\ 1 \in DOMAIN down
        /\ Tail(down) \in Seq(Messages)
    BY <1>1, TailFacts
  <1>3. AnswerCount \in Nat /\ Cardinality(AnswersIn(Tail(down))) \in Nat
    BY <1>1, <1>2, AnswersFinite DEF AnswerCount
  <1>4. Cardinality(AnswersIn(Tail(down))) =
           AnswerCount - (IF down[1].type # "note" THEN 1 ELSE 0)
    BY <1>1, CountTail DEF AnswerCount
  <1> QED
    BY <1>1, <1>2, <1>3, <1>4, NotesTail

(* A message that is added, with a number above those of all notes.        *)
LEMMA PushFacts ==
    ASSUME Shapes, Notes, NEW m \in Messages, m.type = "note" => m.req = notes + 1, Push(m)
    PROVE  /\ down' \in Seq(Messages) /\ Len(down) + 1 \in DOMAIN down'
           /\ down'[Len(down) + 1] = m
           /\ \A i \in DOMAIN down : down'[i] = down[i]
           /\ AnswersIn(down)' =
                AnswersIn(down) \cup (IF m.type # "note" THEN {Len(down) + 1} ELSE {})
           /\ AnswerCount \in Nat
           /\ AnswerCount' = AnswerCount + (IF m.type # "note" THEN 1 ELSE 0)
           /\ NotesIncreasing(down)'
           /\ NotesIn(down)' = NotesIn(down) \cup (IF m.type = "note" THEN {m.req} ELSE {})
  <1>1. down \in Seq(Messages) /\ NotesIncreasing(down) /\ down' = Append(down, m)
    BY DEF Shapes, Notes, Push
  <1>2. NotesIn(down) \subseteq 1..notes /\ notes \in Nat
    BY DEF Shapes, Notes
  <1>3. m.type = "note" => Below(NotesIn(down), {m.req})
    BY <1>2 DEF Below
  <1>4. AnswerCount \in Nat
    BY <1>1, AnswersFinite DEF AnswerCount
  <1>5. /\ AnswersIn(down)' =
             AnswersIn(down) \cup (IF m.type # "note" THEN {Len(down) + 1} ELSE {})
        /\ AnswerCount' = AnswerCount + (IF m.type # "note" THEN 1 ELSE 0)
    BY <1>1, CountAppend DEF AnswerCount
  <1>6. /\ NotesIncreasing(down)'
        /\ NotesIn(down)' = NotesIn(down) \cup (IF m.type = "note" THEN {m.req} ELSE {})
    BY <1>1, <1>3, NotesAppend
  <1>7. /\ down' \in Seq(Messages) /\ Len(down) + 1 \in DOMAIN down'
        /\ down'[Len(down) + 1] = m /\ \A i \in DOMAIN down : down'[i] = down[i]
    BY <1>1, AppendFacts
  <1> QED
    BY <1>4, <1>5, <1>6, <1>7

-----------------------------------------------------------------------------
(* The invariant, part by part.                                            *)

(* Types.                                                                  *)
LEMMA ShapesStep == IInv /\ [Next]_vars => Shapes'
  <1> SUFFICES ASSUME IInv, [Next]_vars PROVE Shapes'
    OBVIOUS
  <1> USE DEF server, client, history
  <1>1. Shapes /\ Control /\ Requests /\ Counting /\ Notes
    BY DEF IInv
  <1>2. FirstId \in Nat
    BY WsAssumption DEF WsAssumption
  <1>3. <<>> \in Seq(Nat) /\ <<>> \in Seq(Requested) /\ <<>> \in Seq(Messages)
    BY EmptyFacts
  <1>4. \A s \in Seq(Nat) : Range(s) \subseteq Nat
    BY LenProperties DEF Range
  <1>5. Range(got) \subseteq Nat
    BY <1>1, <1>4 DEF Shapes
  <1>6. CASE Subscribe
    <2>1. CASE Send("sub", FirstId)
      <3>1. up' \in Seq(Requested) /\ requestId' \in Nat
        BY <1>1, <1>2, <2>1, SendFacts
      <3> QED
        BY <1>1, <1>6, <3>1 DEF Subscribe, Shapes
    <2>2. CASE UNCHANGED up /\ requestId' = requestId + 1
      BY <1>1, <1>6, <2>2 DEF Subscribe, Shapes
    <2> QED
      BY <1>6, <2>1, <2>2 DEF Subscribe, Send
  <1>7. CASE SubscribeReply
    <2>1. down[1] \in Messages /\ Tail(down) \in Seq(Messages) /\ Head(down) = down[1]
      BY <1>1, <1>7, TakeFacts DEF SubscribeReply
    <2> QED
      BY <1>1, <1>7, <2>1 DEF SubscribeReply, Take, Miss, Shapes, Messages
  <1>8. CASE Receive
    BY <1>1, <1>8, WsAssumption DEF WsAssumption, Receive, Shapes
  <1>9. CASE ReceiveMessage
    <2>1. down[1] \in Messages /\ Tail(down) \in Seq(Messages) /\ Head(down) = down[1]
      BY <1>1, <1>9, TakeFacts DEF ReceiveMessage
    <2>2. down[1].req \in Nat
      BY <2>1 DEF Messages
    <2>3. Append(got, down[1].req) \in Seq(Nat)
      BY <1>1, <2>2, AppendFacts DEF Shapes
    <2>4. delivered \o Append(got, down[1].req) \in Seq(Nat)
      BY <1>1, <2>3, ConcatProperties DEF Shapes
    <2>5. got' \in Seq(Nat) /\ delivered' \in Seq(Nat)
      BY <1>1, <1>3, <1>9, <2>1, <2>3, <2>4 DEF ReceiveMessage, Shapes
    <2>6. want' \in Nat
      BY <1>1, <1>9 DEF ReceiveMessage, Shapes, Control
    <2>7. astray' \in Nat
      BY <1>1, <1>9 DEF ReceiveMessage, Shapes
    <2>8. missed' \subseteq Nat /\ pc' \in {"ready", "receiving"}
      BY <1>1, <1>5, <1>9 DEF ReceiveMessage, Shapes
    <2> QED
      BY <1>1, <1>9, <2>1, <2>5, <2>6, <2>7, <2>8 DEF ReceiveMessage, Take, Shapes
  <1>10. CASE ReceiveTimeout
    BY <1>1, <1>3, <1>5, <1>10 DEF ReceiveTimeout, AfterCancel, Shapes
  <1>11. CASE ConnectionClosed
    BY <1>1, <1>3, <1>5, <1>11 DEF ConnectionClosed, Shapes
  <1>12. ASSUME NEW s \in subs, StartUnsubscribe(s) PROVE
           /\ up' \in Seq(Requested) /\ requestId' \in Nat /\ target' \in Nat
           /\ pc' \in {"ready", "unsubscribing", "closing"}
           /\ subs' = subs \/ subs' = subs \ {s}
    <2>1. s \in Nat
      BY <1>1 DEF Shapes
    <2>2. CASE alive
      <3>1. Send("unsub", s) /\ pc' = "unsubscribing" /\ target' = s /\ UNCHANGED subs
        BY <1>12, <2>2 DEF StartUnsubscribe
      <3>2. up' \in Seq(Requested) /\ requestId' \in Nat
        BY <1>1, <2>1, <3>1, SendFacts
      <3> QED
        BY <2>1, <3>1, <3>2
    <2>3. CASE ~alive
      BY <1>1, <1>12, <2>1, <2>3 DEF StartUnsubscribe, GiveUp, Forget, Shapes
    <2> QED
      BY <2>2, <2>3
  <1>13. ASSUME NEW s \in subs, Unsubscribe(s) PROVE Shapes'
    <2>1. todo = {}
      BY <1>1, <1>13 DEF Control, Unsubscribe
    <2> QED
      BY <1>1, <1>12, <1>13, <2>1 DEF Unsubscribe, Shapes
  <1>14. CASE UnsubscribeReply
    <2>1. down[1] \in Messages /\ Tail(down) \in Seq(Messages) /\ Head(down) = down[1]
      BY <1>1, <1>14, TakeFacts DEF UnsubscribeReply
    <2>2. target \notin todo
      BY <1>1, <1>14 DEF UnsubscribeReply, Control
    <2> QED
      BY <1>1, <1>14, <2>1, <2>2
         DEF UnsubscribeReply, GiveUp, Forget, Take, Miss, Shapes, Messages
  <1>15. CASE UnsubscribeTimeout
    <2>1. target \notin todo
      BY <1>1, <1>15 DEF UnsubscribeTimeout, Control
    <2> QED
      BY <1>1, <1>15, <2>1 DEF UnsubscribeTimeout, GiveUp, Forget, Shapes
  <1>16. CASE Close
    BY <1>1, <1>16 DEF Close, Shapes
  <1>17. CASE CloseNext
    <2>1. PICK s \in todo : StartUnsubscribe(s) /\ todo' = todo \ {s}
      BY <1>17 DEF CloseNext
    <2>2. s \in subs
      BY <1>1, <2>1 DEF Shapes
    <2> QED
      BY <1>1, <1>12, <1>17, <2>1, <2>2 DEF CloseNext, Shapes
  <1>18. CASE CloseEnd
    BY <1>1, <1>3, <1>18 DEF CloseEnd, Shapes
  <1>19. CASE Handle
    <2>1. Tail(up) \in Seq(Requested) /\ Head(up) \in Requested
      BY <1>1, <1>19, HeadTailProperties DEF Handle, Shapes
    <2>2. Head(up).req \in Nat /\ nextSub \in Nat
      BY <1>1, <2>1 DEF Requested, Requests
    <2>3. PICK m \in Messages : m.type # "note" /\ Push(m)
      BY <1>19, <2>2, MessageType DEF Handle, Types
    <2>4. down' \in Seq(Messages)
      BY <1>1, <2>3, PushFacts
    <2>5. DOMAIN owner' = SubIds
      BY <1>1, <1>19 DEF Handle, Shapes
    <2> QED
      BY <1>1, <1>19, <2>1, <2>4, <2>5 DEF Handle, Shapes
  <1>20. CASE Notify
    <2>1. PICK s \in active : Push(Message("note", notes + 1, s))
      BY <1>20 DEF Notify
    <2>2. s \in Nat /\ notes + 1 \in Nat /\ notes + 1 \in 0..MaxNotes
      <3>1. s \in Nat /\ notes \in Nat /\ notes + 1 \in Nat
        BY <1>1, ServerNumbers
      <3>2. notes < MaxNotes /\ MaxNotes \in Nat
        BY <1>20, WsAssumption DEF Notify, WsAssumption
      <3> QED
        BY <3>1, <3>2
    <2>3. down' \in Seq(Messages)
      <3>1. PICK n \in Messages : n.type = "note" /\ n.req = notes + 1 /\ Push(n)
        BY <2>1, <2>2, MessageType DEF Types
      <3> QED
        BY <1>1, <3>1, PushFacts
    <2> QED
      BY <1>1, <1>20, <2>2, <2>3 DEF Notify, Shapes
  <1>21. CASE Break
    BY <1>1, <1>3, <1>21 DEF Break, Shapes
  <1>22. CASE UNCHANGED vars
    BY <1>1, <1>22 DEF vars, Shapes
  <1> QED
    BY <1>6, <1>7, <1>8, <1>9, <1>10, <1>11, <1>13, <1>14, <1>15, <1>16, <1>17, <1>18,
       <1>19, <1>20, <1>21, <1>22 DEF Next, Finished

(* The stages of close.                                                    *)
LEMMA ControlStep == IInv /\ [Next]_vars => Control'
  <1> SUFFICES ASSUME IInv, [Next]_vars PROVE Control'
    OBVIOUS
  <1> USE DEF server, client, history
  <1>1. Shapes /\ Control
    BY DEF IInv
  <1>2. CASE Subscribe
    BY <1>1, <1>2 DEF Subscribe, Control
  <1>3. CASE SubscribeReply
    BY <1>1, <1>3 DEF SubscribeReply, Control
  <1>4. CASE Receive
    BY <1>1, <1>4, WsAssumption DEF WsAssumption, Receive, Control
  <1>5. CASE ReceiveMessage
    BY <1>1, <1>5 DEF ReceiveMessage, Control, Shapes
  <1>6. CASE ReceiveTimeout \/ ConnectionClosed
    BY <1>1, <1>6 DEF ReceiveTimeout, ConnectionClosed, Control
  <1>7. ASSUME NEW s \in subs, Unsubscribe(s) PROVE Control'
    <2>1. ~closingUp /\ todo = {}
      BY <1>1, <1>7 DEF Unsubscribe, Control, Shapes
    <2> QED
      BY <1>1, <1>7, <2>1 DEF Unsubscribe, StartUnsubscribe, GiveUp, Control
  <1>8. CASE UnsubscribeReply \/ UnsubscribeTimeout
    <2>1. /\ pc = "unsubscribing" /\ subs' = subs \ {target}
          /\ pc' = (IF closingUp THEN "closing" ELSE "ready")
          /\ UNCHANGED <<todo, closingUp, target, want>>
      BY <1>8 DEF UnsubscribeReply, UnsubscribeTimeout, GiveUp, Forget
    <2>2. CASE closingUp
      <3>1. subs = todo \cup {target} /\ target \notin todo
        BY <1>1, <2>1, <2>2 DEF Control
      <3>2. subs' = todo
        BY <2>1, <3>1
      <3> QED
        BY <2>1, <2>2, <3>2 DEF Control
    <2>3. CASE ~closingUp
      BY <1>1, <2>1, <2>3 DEF Control
    <2> QED
      BY <2>2, <2>3
  <1>9. CASE Close
    BY <1>1, <1>9 DEF Close, Control, Shapes
  <1>10. CASE CloseNext
    <2>1. closingUp /\ subs = todo
      BY <1>1, <1>10 DEF CloseNext, Control
    <2>2. PICK s \in todo : StartUnsubscribe(s) /\ todo' = todo \ {s}
      BY <1>10 DEF CloseNext
    <2>3. closingUp' = closingUp
      BY <1>10 DEF CloseNext
    <2>4. CASE alive
      BY <2>1, <2>2, <2>3, <2>4 DEF StartUnsubscribe, Control
    <2>5. CASE ~alive
      BY <2>1, <2>2, <2>3, <2>5 DEF StartUnsubscribe, GiveUp, Forget, Control
    <2> QED
      BY <2>4, <2>5
  <1>11. CASE CloseEnd
    BY <1>1, <1>11 DEF CloseEnd, Control
  <1>12. CASE Handle \/ Notify \/ Break \/ UNCHANGED vars
    BY <1>1, <1>12 DEF Handle, Notify, Break, vars, Control
  <1> QED
    BY <1>2, <1>3, <1>4, <1>5, <1>6, <1>7, <1>8, <1>9, <1>10, <1>11, <1>12
       DEF Next, Finished

(* The requests under way.                                                 *)
LEMMA RequestTypes == Shapes => \A i \in DOMAIN up : up[i] \in Requested /\ up[i].req \in Nat
  <1> SUFFICES ASSUME Shapes, NEW i \in DOMAIN up PROVE up[i] \in Requested /\ up[i].req \in Nat
    OBVIOUS
  <1>1. up \in Seq(Requested)
    BY DEF Shapes
  <1>2. up[i] \in Requested
    BY <1>1, LenProperties, ElementOfSeq
  <1> QED
    BY <1>2 DEF Requested

(* A request that is sent is newer than all others.                        *)
LEMMA RequestsSend ==
    ASSUME Shapes, Requests, NEW op \in {"sub", "unsub"}, NEW sub \in Nat, Send(op, sub),
           op = "sub" => requestId < MaxRequests, UNCHANGED <<active, nextSub>>
    PROVE  Requests'
  <1>1. requestId \in Nat /\ FirstId \in Nat /\ MaxRequests \in Nat /\ nextSub \in Nat
    BY WsAssumption DEF WsAssumption, Shapes, Requests
  <1>2. /\ requestId' = requestId + 1 /\ Len(up) \in Nat
        /\ DOMAIN up = 1..Len(up) /\ DOMAIN up' = DOMAIN up \cup {Len(up) + 1}
        /\ \A i \in DOMAIN up : up'[i] = up[i]
        /\ up'[Len(up) + 1] = [op |-> op, req |-> requestId + 1, sub |-> sub]
    BY SendFacts
  <1>3. \A i \in DOMAIN up : up[i].req \in Nat
    BY RequestTypes
  <1>4. \A i \in DOMAIN up' :
           /\ nextSub < FirstId + up'[i].req /\ up'[i].req <= requestId'
           /\ up'[i].op = "sub" => up'[i].req <= MaxRequests
    BY <1>1, <1>2, <1>3 DEF Requests
  <1>5. \A i, j \in DOMAIN up' : i < j => up'[i].req < up'[j].req
    BY <1>1, <1>2, <1>3 DEF Requests
  <1> QED
    BY <1>1, <1>2, <1>4, <1>5 DEF Requests

(* A request that is counted and not sent.                                 *)
LEMMA RequestsSkip ==
    ASSUME Shapes, Requests, requestId' \in {requestId, requestId + 1},
           UNCHANGED <<up, active, nextSub>>
    PROVE  Requests'
  <1>1. requestId \in Nat /\ FirstId \in Nat /\ nextSub \in Nat
    BY WsAssumption DEF WsAssumption, Shapes, Requests
  <1>2. \A i \in DOMAIN up : up[i].req \in Nat
    BY RequestTypes
  <1> QED
    BY <1>1, <1>2 DEF Requests

(* The numbers of requests and subscriptions.                              *)
LEMMA RequestsStep == IInv /\ [Next]_vars => Requests'
  <1> SUFFICES ASSUME IInv, [Next]_vars PROVE Requests'
    OBVIOUS
  <1> USE DEF server, client, history
  <1>1. Shapes /\ Requests
    BY DEF IInv
  <1>2. FirstId \in Nat /\ MaxRequests \in Nat /\ requestId \in Nat /\ nextSub \in Nat
    BY <1>1, WsAssumption DEF WsAssumption, Shapes, Requests
  <1>3. ASSUME NEW s \in subs, StartUnsubscribe(s), UNCHANGED <<active, nextSub>>
        PROVE  Requests'
    <2>1. s \in Nat
      BY <1>1 DEF Shapes
    <2>2. CASE alive
      <3>1. Send("unsub", s)
        BY <1>3, <2>2 DEF StartUnsubscribe
      <3> QED
        BY <1>1, <1>3, <2>1, <3>1, RequestsSend
    <2>3. CASE ~alive
      BY <1>1, <1>3, <2>3, RequestsSkip DEF StartUnsubscribe
    <2> QED
      BY <2>2, <2>3
  <1>4. CASE Subscribe
    <2>1. CASE Send("sub", FirstId)
      BY <1>1, <1>2, <1>4, <2>1, RequestsSend DEF Subscribe
    <2>2. CASE UNCHANGED up /\ requestId' = requestId + 1
      BY <1>1, <1>4, <2>2, RequestsSkip DEF Subscribe
    <2> QED
      BY <1>4, <2>1, <2>2 DEF Subscribe
  <1>5. CASE \E s \in subs : Unsubscribe(s)
    BY <1>3, <1>5 DEF Unsubscribe
  <1>6. CASE CloseNext
    <2>1. PICK s \in todo : StartUnsubscribe(s)
      BY <1>6 DEF CloseNext
    <2>2. s \in subs
      BY <1>1 DEF Shapes
    <2> QED
      BY <1>3, <1>6, <2>1, <2>2 DEF CloseNext
  <1>7. CASE Handle
    <2>1. /\ Tail(up) \in Seq(Requested) /\ Head(up) = up[1] /\ up[1] \in Requested
          /\ 1 \in DOMAIN up /\ Len(up) \in Nat /\ DOMAIN up = 1..Len(up)
          /\ DOMAIN Tail(up) = 1..(Len(up) - 1)
          /\ \A i \in DOMAIN Tail(up) : i + 1 \in DOMAIN up /\ Tail(up)[i] = up[i + 1]
      BY <1>1, <1>7, TailFacts DEF Handle, Shapes
    <2>2. \A i \in DOMAIN up : up[i].req \in Nat
      BY <1>1, RequestTypes
    <2>3. \A i \in DOMAIN Tail(up) : up[1].req < Tail(up)[i].req
      BY <1>1, <2>1, <2>2 DEF Requests
    <2>4. \A i, j \in DOMAIN Tail(up) : i < j => Tail(up)[i].req < Tail(up)[j].req
      BY <1>1, <2>1, <2>2 DEF Requests
    <2>5. \A i \in DOMAIN Tail(up) :
             /\ Tail(up)[i].req \in Nat /\ Tail(up)[i].req <= requestId
             /\ Tail(up)[i].op = "sub" => Tail(up)[i].req <= MaxRequests
      BY <1>1, <2>1, <2>2 DEF Requests
    <2>6. /\ nextSub < FirstId + up[1].req /\ up[1].req <= requestId
          /\ up[1].op = "sub" => up[1].req <= MaxRequests
      BY <1>1, <2>1 DEF Requests
    <2>7. CASE nextSub' = nextSub /\ active' \subseteq active
      BY <1>1, <1>2, <1>7, <2>1, <2>2, <2>3, <2>4, <2>5, <2>6, <2>7 DEF Handle, Requests
    <2>8. CASE up[1].op = "sub" /\ nextSub' = nextSub + 1 /\ active' = active \cup {nextSub}
      <3>1. /\ nextSub' \in Nat /\ nextSub' >= FirstId
            /\ nextSub' <= FirstId + requestId /\ nextSub' <= FirstId + MaxRequests
        BY <1>1, <1>2, <2>1, <2>2, <2>6, <2>8 DEF Requests
      <3>2. active' \subseteq FirstId .. nextSub' - 1
        <4>1. \A a \in active : a \in Int /\ FirstId <= a /\ a <= nextSub - 1
          BY <1>1, <1>2 DEF Requests
        <4>2. FirstId <= nextSub /\ nextSub' = nextSub + 1 /\ nextSub' - 1 = nextSub
          BY <1>1, <1>2, <2>8 DEF Requests
        <4>3. \A a \in active' : a \in FirstId .. nextSub
          BY <1>2, <2>8, <4>1, <4>2
        <4> QED
          BY <4>2, <4>3
      <3>3. \A i \in DOMAIN Tail(up) : nextSub' < FirstId + Tail(up)[i].req
        <4> TAKE i \in DOMAIN Tail(up)
        <4> DEFINE n == Tail(up)[i].req
        <4>1. n \in Nat /\ up[1].req \in Nat /\ up[1].req < n
          BY <2>1, <2>2, <2>3, <2>5
        <4>2. nextSub \in Nat /\ FirstId \in Nat /\ nextSub' = nextSub + 1
          BY <1>1, <2>8, WsAssumption DEF Requests, WsAssumption
        <4>3. nextSub < FirstId + up[1].req
          BY <2>6
        <4> HIDE DEF n
        <4>4. nextSub' < FirstId + n
          BY <4>1, <4>2, <4>3
        <4> QED
          BY <4>4 DEF n
      <3>4. up' = Tail(up) /\ requestId' = requestId
        BY <1>7 DEF Handle
      <3> QED
        BY <2>4, <2>5, <3>1, <3>2, <3>3, <3>4 DEF Requests
    <2> QED
      BY <1>7, <2>1, <2>7, <2>8 DEF Handle
  <1>8. CASE CloseEnd \/ Break
    <2>1. up' = <<>> /\ DOMAIN up' = {} /\ active' = {}
      BY <1>8, EmptyFacts DEF CloseEnd, Break
    <2> QED
      BY <1>1, <1>8, <2>1 DEF CloseEnd, Break, Requests
  <1>9. CASE UNCHANGED <<requestId, up, active, nextSub>>
    BY <1>1, <1>9, RequestsSkip
  <1> QED
    BY <1>4, <1>5, <1>6, <1>7, <1>8, <1>9
       DEF Next, Finished, vars, SubscribeReply, Receive, ReceiveMessage, ReceiveTimeout,
           ConnectionClosed, UnsubscribeReply, UnsubscribeTimeout, Close, Notify

(* The answers under way.                                                  *)
LEMMA CountingStep == IInv /\ [Next]_vars => Counting'
  <1> SUFFICES ASSUME IInv, [Next]_vars PROVE Counting'
    OBVIOUS
  <1> USE DEF server, client, history
  <1>1. Shapes /\ Control /\ Requests /\ Counting /\ Notes
    BY DEF IInv
  <1>2. /\ AnswerCount \in Nat /\ Len(up) \in Nat /\ stale \in Nat
        /\ Awaiting \in {0, 1} /\ alive \in BOOLEAN
    BY <1>1, AnswersFinite, LenProperties DEF Shapes, Counting, AnswerCount, Awaiting
  <1>3. Len(<<>>) = 0
    BY EmptyFacts
  <1>4. down' = down => AnswerCount' = AnswerCount
    BY DEF AnswerCount, AnswersIn
  <1>5. down' = Tail(down) /\ down # <<>> =>
          /\ AnswerCount' = AnswerCount - (IF down[1].type # "note" THEN 1 ELSE 0)
          /\ AnswerCount' \in Nat /\ Head(down) = down[1]
    BY <1>1, TakeFacts DEF AnswerCount
  <1>6. ASSUME NEW s \in subs, StartUnsubscribe(s), pc \in {"ready", "closing"},
               UNCHANGED <<down, alive, stale, closingUp>>
        PROVE  Counting'
    <2>1. s \in Nat
      BY <1>1 DEF Shapes
    <2>2. CASE alive
      <3>1. Send("unsub", s) /\ pc' = "unsubscribing"
        BY <1>6, <2>2 DEF StartUnsubscribe
      <3>2. Len(up') = Len(up) + 1
        BY <1>1, <2>1, <3>1, SendFacts
      <3> QED
        BY <1>1, <1>2, <1>4, <1>6, <2>2, <3>1, <3>2 DEF Counting, Awaiting
    <2>3. CASE ~alive
      <3>1. pc' \in {"ready", "closing"} /\ up' = up
        BY <1>6, <2>3 DEF StartUnsubscribe, GiveUp
      <3> QED
        BY <1>1, <1>2, <1>4, <1>6, <2>3, <3>1 DEF Counting, Awaiting
    <2> QED
      BY <1>2, <2>2, <2>3
  <1>7. CASE Subscribe
    <2>1. CASE alive
      <3>1. Send("sub", FirstId) /\ pc' = "subscribing" /\ FirstId \in Nat
        BY <1>7, <2>1, WsAssumption DEF Subscribe, WsAssumption
      <3>2. Len(up') = Len(up) + 1
        BY <1>1, <3>1, SendFacts
      <3> QED
        BY <1>1, <1>2, <1>4, <1>7, <2>1, <3>1, <3>2 DEF Subscribe, Counting, Awaiting
    <2>2. CASE ~alive
      BY <1>1, <1>2, <1>4, <1>7, <2>2 DEF Subscribe, Counting, Awaiting
    <2> QED
      BY <1>2, <2>1, <2>2
  <1>8. CASE SubscribeReply
    BY <1>1, <1>2, <1>5, <1>8 DEF SubscribeReply, Take, Desync, Counting, Awaiting
  <1>9. CASE ReceiveMessage
    <2>1. /\ Awaiting = 0 /\ down' = Tail(down) /\ down # <<>> /\ UNCHANGED <<up, alive>>
          /\ pc' \in {"ready", "receiving"}
          /\ stale' = stale - (IF down[1].type # "note" THEN 1 ELSE 0)
      BY <1>2, <1>5, <1>9 DEF ReceiveMessage, Take, Awaiting
    <2>2. Awaiting' = 0
      BY <2>1 DEF Awaiting
    <2>3. PICK k \in {0, 1} : AnswerCount' = AnswerCount - k /\ stale' = stale - k
      BY <1>5, <2>1
    <2>4. AnswerCount' \in Nat /\ Len(up') = Len(up)
      BY <1>5, <2>1
    <2>5. /\ Len(up) + AnswerCount <= stale
          /\ alive => Len(up) + AnswerCount = stale
          /\ ~alive => up = <<>>
      BY <1>1, <1>2, <2>1 DEF Counting
    <2>6. stale' \in Nat
      BY <1>2, <2>3, <2>4, <2>5
    <2>7. /\ Len(up') + AnswerCount' <= stale'
          /\ alive' => Len(up') + AnswerCount' = stale'
          /\ ~alive' => up' = <<>>
      BY <1>2, <2>1, <2>3, <2>4, <2>5
    <2> QED
      BY <2>2, <2>6, <2>7 DEF Counting
  <1>10. CASE ReceiveTimeout \/ Receive \/ Close
    BY <1>1, <1>2, <1>4, <1>10
       DEF ReceiveTimeout, AfterCancel, Receive, Close, Counting, Awaiting
  <1>11. CASE ConnectionClosed
    BY <1>1, <1>2, <1>3, <1>4, <1>11, EmptyFacts
       DEF ConnectionClosed, Broken, Counting, Awaiting, AnswerCount
  <1>12. CASE \E s \in subs : Unsubscribe(s)
    BY <1>6, <1>12 DEF Unsubscribe
  <1>13. CASE UnsubscribeReply
    BY <1>1, <1>2, <1>5, <1>13
       DEF UnsubscribeReply, GiveUp, Take, Desync, Counting, Awaiting
  <1>14. CASE UnsubscribeTimeout
    BY <1>1, <1>2, <1>4, <1>14 DEF UnsubscribeTimeout, GiveUp, Counting, Awaiting
  <1>15. CASE CloseNext
    <2>1. PICK s \in todo : StartUnsubscribe(s)
      BY <1>15 DEF CloseNext
    <2>2. s \in subs
      BY <1>1 DEF Shapes
    <2> QED
      BY <1>6, <1>15, <2>1, <2>2 DEF CloseNext
  <1>16. CASE CloseEnd
    BY <1>2, <1>3, <1>16, EmptyFacts DEF CloseEnd, Counting, Awaiting, AnswerCount
  <1>17. CASE Handle
    <2>1. /\ Len(Tail(up)) = Len(up) - 1 /\ Head(up) \in Requested
      BY <1>1, <1>17, HeadTailProperties DEF Handle, Shapes
    <2>2. Head(up).req \in Nat /\ nextSub \in Nat
      BY <1>1, <2>1 DEF Requested, Requests
    <2>3. PICK m \in Messages : m.type # "note" /\ Push(m)
      BY <1>17, <2>2, MessageType DEF Handle, Types
    <2>4. AnswerCount' = AnswerCount + 1
      BY <1>1, <2>3, PushFacts
    <2> QED
      BY <1>1, <1>2, <1>17, <2>1, <2>4 DEF Handle, Counting, Awaiting
  <1>18. CASE Notify
    <2>1. PICK s \in active : Push(Message("note", notes + 1, s))
      BY <1>18 DEF Notify
    <2>2. s \in Nat /\ notes + 1 \in Nat
      BY <1>1, ServerNumbers
    <2>3. AnswerCount' = AnswerCount
      <3>1. PICK n \in Messages : n.type = "note" /\ n.req = notes + 1 /\ Push(n)
        BY <2>1, <2>2, MessageType DEF Types
      <3> QED
        BY <1>1, <3>1, <1>2, PushFacts
    <2> QED
      BY <1>1, <1>2, <1>18, <2>3 DEF Notify, Counting, Awaiting
  <1>19. CASE Break
    BY <1>1, <1>2, <1>3, <1>4, <1>19 DEF Break, Counting, Awaiting
  <1>20. CASE UNCHANGED vars
    BY <1>1, <1>4, <1>20 DEF vars, Counting, Awaiting
  <1> QED
    BY <1>7, <1>8, <1>9, <1>10, <1>11, <1>12, <1>13, <1>14, <1>15, <1>16, <1>17, <1>18,
       <1>19, <1>20 DEF Next, Finished

(* A step that reads nothing, or an answer, and moves what was collected   *)
(* nowhere or to the missed notifications.                                 *)
LEMMA NotesKept ==
    ASSUME Notes, UNCHANGED <<delivered, notes>>,
           NotesIn(down)' = NotesIn(down), NotesIncreasing(down)',
           \/ got' = got /\ missed' = missed
           \/ got' = <<>> /\ missed' = missed \cup Range(got),
           pc = "closed" => pc' = "closed"
    PROVE  Notes'
  <1>1. CASE got' = got /\ missed' = missed
    BY <1>1 DEF Notes
  <1>2. CASE got' = <<>> /\ missed' = missed \cup Range(got)
    <2>1. Increasing(got)' /\ Range(got') = {}
      BY <1>2, EmptyFacts
    <2>2. Range(got) \cap NotesIn(down) = {} /\ Range(got) \cap Range(delivered) = {}
      BY DEF Notes, Below
    <2> QED
      BY <1>2, <2>1, <2>2 DEF Notes, Below
  <1> QED
    BY <1>1, <1>2

(* A notification that is read in the place of an answer.                  *)
LEMMA NotesMissed ==
    ASSUME Shapes, Notes, down # <<>>, UNCHANGED <<delivered, notes, got>>,
           Take, Miss(Head(down)), pc # "closed"
    PROVE  Notes'
  <1>1. /\ Head(down) = down[1] /\ NotesIncreasing(Tail(down))
        /\ down[1].type # "note" => NotesIn(Tail(down)) = NotesIn(down)
        /\ down[1].type = "note" =>
             /\ NotesIn(down) = {down[1].req} \cup NotesIn(Tail(down))
             /\ Below({down[1].req}, NotesIn(Tail(down)))
    BY TakeFacts
  <1>2. down' = Tail(down)
    BY DEF Take
  <1>3. CASE down[1].type # "note"
    <2>1. missed' = missed /\ NotesIn(down)' = NotesIn(down) /\ NotesIncreasing(down)'
      BY <1>1, <1>2, <1>3 DEF Miss
    <2> QED
      BY <2>1, NotesKept
  <1>4. CASE down[1].type = "note"
    <2> DEFINE n == down[1].req
               N == NotesIn(Tail(down))
    <2>1. NotesIn(down) = {n} \cup N /\ Below({n}, N) /\ missed' = missed \cup {n}
      BY <1>1, <1>4 DEF Miss
    <2>2. NotesIn(down)' = N /\ NotesIncreasing(down)'
      BY <1>1, <1>2
    <2> HIDE DEF n, N
    <2>3. n \notin N /\ n \notin Range(delivered) /\ n \notin Range(got)
      <3>1. NotesIn(down) \subseteq 1..notes
        BY DEF Notes
      <3>2. n \in Int
        BY <2>1, <3>1
      <3> QED
        BY <2>1, <3>2 DEF Notes, Below
    <2>4. Below(Range(delivered), N) /\ Below(Range(got), N)
      BY <2>1 DEF Notes, Below
    <2> QED
      BY <2>1, <2>2, <2>3, <2>4 DEF Notes
  <1> QED
    BY <1>3, <1>4

(* A notification that is read by recv_notification.                       *)
LEMMA NotesReceived ==
    ASSUME Shapes, Notes, ReceiveMessage, Head(down).type = "note"
    PROVE  Notes'
  <1> DEFINE n == down[1].req
             N == NotesIn(Tail(down))
  <1>1. /\ Head(down) = down[1] /\ down[1] \in Messages /\ NotesIncreasing(Tail(down))
        /\ NotesIn(down) = {n} \cup N /\ Below({n}, N)
    BY TakeFacts DEF ReceiveMessage
  <1>2. NotesIn(down)' = N /\ NotesIncreasing(down)'
    BY <1>1 DEF ReceiveMessage, Take
  <1>3. n \in Nat
    BY <1>1 DEF Messages
  <1> HIDE DEF N
  <1>4. Below(Range(got), {n}) /\ Below(Range(delivered), {n})
    BY <1>1 DEF Notes, Below
  <1>5. /\ Append(got, n) \in Seq(Nat) /\ Increasing(Append(got, n))
        /\ Range(Append(got, n)) = Range(got) \cup {n}
    BY <1>3, <1>4, IncreasingAppend DEF Notes, Shapes
  <1>6. Below(Range(delivered), N) /\ Below(Range(got), N)
    BY <1>1 DEF Notes, Below
  <1>7. missed' = missed /\ notes' = notes
    BY <1>1 DEF ReceiveMessage, server
  <1>8. CASE want = 1
    <2> DEFINE d == delivered \o Append(got, n)
    <2>1. delivered' = d /\ got' = <<>> /\ pc' = "ready"
      BY <1>1, <1>8 DEF ReceiveMessage
    <2>2. Below(Range(delivered), Range(Append(got, n)))
      BY <1>4, <1>5 DEF Notes, Below
    <2>3. Increasing(d) /\ Range(d) = Range(delivered) \cup Range(Append(got, n))
      BY <1>5, <2>2, IncreasingConcat DEF Notes, Shapes
    <2>4. Range(got)' = {} /\ Increasing(got)'
      BY <2>1, EmptyFacts
    <2>5. Range(delivered)' = Range(delivered) \cup Range(got) \cup {n} /\ Increasing(delivered)'
      BY <1>5, <2>1, <2>3
    <2>6. Below(Range(delivered)', N)
      BY <1>1, <1>6, <2>5 DEF Below
    <2> HIDE DEF n, d
    <2> QED
      BY <1>1, <1>2, <1>7, <2>1, <2>4, <2>5, <2>6 DEF Notes, Below, ReceiveMessage
  <1>9. CASE want # 1
    <2>1. got' = Append(got, n) /\ delivered' = delivered /\ pc' = pc /\ pc = "receiving"
      BY <1>1, <1>9 DEF ReceiveMessage
    <2>2. Range(got)' = Range(got) \cup {n} /\ Increasing(got)'
      BY <1>5, <2>1
    <2>3. Below(Range(got)', N) /\ Below(Range(delivered), Range(got)')
      BY <1>1, <1>4, <1>6, <2>2 DEF Below, Notes
    <2> HIDE DEF n
    <2> QED
      BY <1>1, <1>2, <1>6, <1>7, <2>1, <2>2, <2>3 DEF Notes
  <1> QED
    BY <1>8, <1>9

(* Where the notifications are.                                            *)
LEMMA NotesStep == IInv /\ [Next]_vars => Notes'
  <1> SUFFICES ASSUME IInv, [Next]_vars PROVE Notes'
    OBVIOUS
  <1> USE DEF server, client, history
  <1>1. Shapes /\ Control /\ Requests /\ Notes
    BY DEF IInv
  <1>2. down' = down => NotesIn(down)' = NotesIn(down) /\ NotesIncreasing(down)'
    BY <1>1 DEF Notes, NotesIn, NotesIncreasing, AnswersIn
  <1>3. CASE UNCHANGED <<down, delivered, notes>> /\ UNCHANGED <<got, missed>>
                /\ (pc = "closed" => pc' = "closed")
    BY <1>1, <1>2, <1>3, NotesKept
  <1>4. CASE ReceiveTimeout \/ ConnectionClosed
    <2>1. /\ UNCHANGED <<down, delivered, notes>> /\ pc # "closed"
          /\ got' = <<>> /\ missed' = missed \cup Range(got)
      BY <1>4 DEF ReceiveTimeout, AfterCancel, ConnectionClosed
    <2> QED
      BY <1>1, <1>2, <2>1, NotesKept
  <1>5. CASE SubscribeReply \/ UnsubscribeReply
    <2>1. /\ down # <<>> /\ pc # "closed" /\ Take /\ Miss(Head(down))
          /\ UNCHANGED <<delivered, notes, got>>
      BY <1>5 DEF SubscribeReply, UnsubscribeReply
    <2> QED
      BY <1>1, <2>1, NotesMissed
  <1>6. CASE ReceiveMessage
    <2>1. CASE Head(down).type = "note"
      BY <1>1, <1>6, <2>1, NotesReceived
    <2>2. CASE Head(down).type # "note"
      <3>1. /\ UNCHANGED <<delivered, notes>> /\ pc # "closed"
            /\ got' = <<>> /\ missed' = missed \cup Range(got) /\ down' = Tail(down)
        BY <1>6, <2>2 DEF ReceiveMessage, Take
      <3>2. NotesIn(down)' = NotesIn(down) /\ NotesIncreasing(down)'
        BY <1>1, <1>6, <2>2, <3>1, TakeFacts DEF ReceiveMessage
      <3> QED
        BY <1>1, <3>1, <3>2, NotesKept
    <2> QED
      BY <2>1, <2>2
  <1>7. CASE CloseEnd
    <2>1. /\ UNCHANGED <<delivered, notes, got, missed>> /\ pc' = "closed"
          /\ NotesIn(down)' = {} /\ NotesIncreasing(down)'
      BY <1>7, EmptyFacts DEF CloseEnd
    <2> QED
      BY <1>1, <2>1 DEF Notes, Below
  <1>8. CASE Handle
    <2>1. Head(up) \in Requested
      BY <1>1, <1>8, HeadTailProperties DEF Handle, Shapes
    <2>2. Head(up).req \in Nat /\ nextSub \in Nat
      BY <1>1, <2>1 DEF Requested, Requests
    <2>3. PICK m \in Messages : m.type # "note" /\ Push(m)
      BY <1>8, <2>2, MessageType DEF Handle, Types
    <2>4. NotesIn(down)' = NotesIn(down) /\ NotesIncreasing(down)'
      BY <1>1, <2>3, PushFacts
    <2> QED
      BY <1>1, <1>8, <2>4, NotesKept DEF Handle
  <1>9. CASE Notify
    <2>1. PICK s \in active : Push(Message("note", notes + 1, s))
      BY <1>9 DEF Notify
    <2>2. s \in Nat /\ notes \in Nat /\ notes + 1 \in Nat
      BY <1>1, ServerNumbers
    <2>3. NotesIn(down)' = NotesIn(down) \cup {notes + 1} /\ NotesIncreasing(down)'
      <3>1. PICK n \in Messages : n.type = "note" /\ n.req = notes + 1 /\ Push(n)
        BY <2>1, <2>2, MessageType DEF Types
      <3> QED
        BY <1>1, <3>1, PushFacts
    <2>4. /\ UNCHANGED <<pc, delivered, got, missed>> /\ notes' = notes + 1
      BY <1>9 DEF Notify
    <2>5. 1..(notes + 1) = 1..notes \cup {notes + 1}
      BY <2>2
    <2>6. notes + 1 \notin 1..notes /\ \A n \in 1..notes : n < notes + 1
      BY <2>2
    <2> QED
      BY <1>1, <2>2, <2>3, <2>4, <2>5, <2>6 DEF Notes, Below
  <1> QED
    BY <1>3, <1>4, <1>5, <1>6, <1>7, <1>8, <1>9
       DEF Next, Finished, vars, Subscribe, Receive, Unsubscribe, UnsubscribeTimeout,
           StartUnsubscribe, GiveUp, Close, CloseNext, Break

(* How many requests and answers are under way when none has been left     *)
(* behind: none between two calls, one during a call.                      *)
OneAtMost ==
    /\ pc \in {"ready", "receiving"} => DOMAIN up = {} /\ AnswersIn(down) = {}
    /\ DOMAIN up # {} => /\ pc \in {"subscribing", "unsubscribing"}
                         /\ DOMAIN up = {1} /\ DOMAIN Tail(up) = {}
                         /\ AnswersIn(down) = {}
    /\ AnswersIn(down) # {} => DOMAIN up = {}

(* It follows from the count.                                              *)
LEMMA SyncedFacts == Shapes /\ Counting /\ Synced => OneAtMost
  <1> SUFFICES ASSUME Shapes, Counting, Synced PROVE OneAtMost
    OBVIOUS
  <1>1. /\ Len(up) \in Nat /\ AnswerCount \in Nat /\ DOMAIN up = 1..Len(up)
        /\ AnswerCount = 0 <=> AnswersIn(down) = {}
    BY AnswersFinite, LenProperties DEF Shapes, AnswerCount
  <1>2. Len(up) + AnswerCount = Awaiting
    BY <1>1 DEF Synced, Counting, Awaiting
  <1>3. CASE pc \in {"ready", "receiving"}
    <2>1. Len(up) = 0 /\ AnswerCount = 0
      BY <1>1, <1>2, <1>3 DEF Awaiting
    <2> QED
      BY <1>1, <1>3, <2>1 DEF OneAtMost
  <1>4. CASE pc \in {"subscribing", "unsubscribing"} /\ Len(up) = 0
    BY <1>1, <1>4 DEF OneAtMost
  <1>5. CASE pc \in {"subscribing", "unsubscribing"} /\ Len(up) # 0
    <2>1. Len(up) = 1 /\ AnswerCount = 0
      BY <1>1, <1>2, <1>5 DEF Awaiting
    <2>2. up # <<>>
      BY <2>1, EmptyFacts
    <2>3. DOMAIN Tail(up) = 1..0
      BY <2>1, <2>2, TailFacts DEF Shapes
    <2> QED
      BY <1>1, <1>5, <2>1, <2>3 DEF OneAtMost
  <1> QED
    BY <1>3, <1>4, <1>5 DEF Synced

(* A step after which the client is between two calls, or in the middle of *)
(* recv_notifications, and knows the server's subscriptions.               *)
LEMMA AgreementIdle ==
    ASSUME Shapes', Counting', pc' \in {"ready", "receiving"}, Synced' => subs' = active',
           Synced' => \A r \in returned' :
              r[2] \in FirstId .. nextSub' - 1 /\ owner'[r[2]] = r[1]
    PROVE  Agreement'
  <1> SUFFICES ASSUME Synced' PROVE Agreement'
    BY DEF Agreement
  <1>1. DOMAIN up' = {} /\ AnswersIn(down)' = {}
    <2>1. OneAtMost'
      BY SyncedFacts, PTL
    <2> QED
      BY <2>1 DEF OneAtMost
  <1> QED
    BY <1>1 DEF Agreement

(* What client and server know of each other.                              *)
LEMMA AgreementStep == IInv /\ [Next]_vars => Agreement'
  <1> SUFFICES ASSUME IInv, [Next]_vars PROVE Agreement'
    OBVIOUS
  <1> USE DEF server, client, history
  <1>1. Shapes /\ Control /\ Requests /\ Counting /\ Notes /\ Agreement
    BY DEF IInv
  <1>2. Shapes' /\ Counting' /\ stale \in Nat /\ astray \in Nat /\ requestId \in Nat /\ FirstId \in Nat
    BY <1>1, ShapesStep, CountingStep, WsAssumption
       DEF WsAssumption, Counting, Shapes
  <1>3. Synced => OneAtMost
    BY <1>1, SyncedFacts
  <1>4. CASE Subscribe
    <2> SUFFICES ASSUME Synced' PROVE Agreement'
      BY DEF Agreement
    <2>1. /\ alive /\ Send("sub", FirstId) /\ pc' = "subscribing" /\ pc = "ready"
          /\ UNCHANGED <<subs, active, nextSub, owner, returned, down, stale, astray, closingUp>>
      BY <1>4 DEF Synced, Subscribe
    <2>2. Synced /\ DOMAIN up = {} /\ AnswersIn(down) = {} /\ subs = active
      BY <1>1, <1>3, <2>1 DEF Synced, OneAtMost, Agreement
    <2>3. /\ DOMAIN up' = {Len(up) + 1} /\ requestId' = requestId + 1
          /\ up'[Len(up) + 1] = [op |-> "sub", req |-> requestId + 1, sub |-> FirstId]
      BY <1>1, <1>2, <2>1, <2>2, SendFacts
    <2>4. \A i \in DOMAIN up' : RequestFits(up[i])'
      BY <2>1, <2>2, <2>3 DEF RequestFits
    <2>5. AnswersIn(down)' = {}
      BY <2>1, <2>2
    <2> QED
      BY <1>1, <2>1, <2>2, <2>4, <2>5 DEF Agreement
  <1>5. CASE SubscribeReply
    <2> SUFFICES ASSUME Synced' PROVE Agreement'
      BY DEF Agreement
    <2> DEFINE m == down[1]
    <2>1. /\ Head(down) = m /\ m \in Messages /\ 1 \in DOMAIN down
          /\ pc = "subscribing" /\ pc' = "ready" /\ m.type # "note" /\ stale' = stale
          /\ UNCHANGED <<active, nextSub, owner, alive, astray, closingUp>>
      <3>1. Head(down) = m /\ m \in Messages /\ 1 \in DOMAIN down
        BY <1>1, <1>5, TakeFacts DEF SubscribeReply
      <3>2. stale + 1 # 0 /\ stale' = 0
        BY <1>2 DEF Synced
      <3>3. m.type # "note" /\ stale' = stale
        BY <1>5, <3>1, <3>2 DEF SubscribeReply, Desync
      <3> HIDE DEF m
      <3> QED
        BY <1>5, <3>1, <3>3 DEF SubscribeReply
    <2>2. Synced /\ 1 \in AnswersIn(down)
      BY <2>1 DEF Synced, AnswersIn
    <2>3. AnswerFits(m)
      BY <1>1, <2>2 DEF Agreement
    <2>4. CASE m.type = "ack"
      <3>1. m.val \in FirstId .. nextSub - 1 /\ owner[m.val] = requestId
        BY <2>1, <2>3, <2>4 DEF AnswerFits
      <3>2. subs' = active' /\ returned' = returned \cup {<<requestId, m.val>>}
        BY <1>5, <2>1, <2>3, <2>4 DEF AnswerFits, SubscribeReply
      <3>3. \A r \in returned' : r[2] \in FirstId .. nextSub' - 1 /\ owner'[r[2]] = r[1]
        BY <1>1, <2>1, <2>2, <3>1, <3>2 DEF Agreement
      <3> QED
        BY <1>2, <2>1, <3>2, <3>3, AgreementIdle
    <2>5. CASE m.type = "error"
      <3>1. subs' = active' /\ returned' = returned
        BY <1>5, <2>1, <2>3, <2>5 DEF AnswerFits, SubscribeReply
      <3> QED
        BY <1>1, <1>2, <2>1, <2>2, <3>1, AgreementIdle DEF Agreement
    <2> QED
      BY <2>1, <2>3, <2>4, <2>5 DEF AnswerFits
  <1>6. CASE Receive \/ ReceiveMessage \/ ReceiveTimeout
    <2> SUFFICES ASSUME Synced' PROVE Agreement'
      BY DEF Agreement
    <2>1. /\ pc' \in {"ready", "receiving"} /\ pc \in {"ready", "receiving"}
          /\ stale' = stale
          /\ UNCHANGED <<subs, active, nextSub, owner, returned, alive, astray, closingUp>>
      <3>1. CASE Receive \/ ReceiveTimeout
        BY <1>6, <3>1 DEF Receive, ReceiveTimeout, Synced
      <3>2. CASE ReceiveMessage
        <4>1. astray + 1 # 0 /\ astray' = 0
          BY <1>2 DEF Synced
        <4> QED
          BY <3>2, <4>1 DEF ReceiveMessage
      <3> QED
        BY <1>6, <3>1, <3>2
    <2>2. Synced
      BY <2>1 DEF Synced
    <2>3. \A r \in returned' : r[2] \in FirstId .. nextSub' - 1 /\ owner'[r[2]] = r[1]
      BY <1>1, <2>1, <2>2 DEF Agreement
    <2> QED
      BY <1>1, <1>2, <2>1, <2>2, <2>3, AgreementIdle DEF Agreement
  <1>7. CASE \E s \in subs : Unsubscribe(s)
    <2> SUFFICES ASSUME Synced' PROVE Agreement'
      BY DEF Agreement
    <2>1. PICK s \in subs : Unsubscribe(s)
      BY <1>7
    <2>2. /\ alive /\ Send("unsub", s) /\ pc' = "unsubscribing" /\ pc = "ready" /\ target' = s
          /\ UNCHANGED <<subs, active, nextSub, owner, returned, down, stale, astray, closingUp>>
      BY <2>1 DEF Synced, Unsubscribe, StartUnsubscribe
    <2>3. Synced /\ DOMAIN up = {} /\ AnswersIn(down) = {} /\ subs = active
      BY <1>1, <1>3, <2>2 DEF Synced, OneAtMost, Agreement
    <2>4. s \in Nat
      BY <1>1 DEF Shapes
    <2>5. /\ DOMAIN up' = {Len(up) + 1}
          /\ up'[Len(up) + 1] = [op |-> "unsub", req |-> requestId + 1, sub |-> s]
      BY <1>1, <2>2, <2>3, <2>4, SendFacts
    <2>6. \A i \in DOMAIN up' : RequestFits(up[i])'
      BY <2>2, <2>3, <2>5 DEF RequestFits
    <2>7. AnswersIn(down)' = {}
      BY <2>2, <2>3
    <2> QED
      BY <1>1, <2>2, <2>3, <2>6, <2>7 DEF Agreement
  <1>8. CASE UnsubscribeReply
    <2> SUFFICES ASSUME Synced' PROVE Agreement'
      BY DEF Agreement
    <2> DEFINE m == down[1]
    <2>1. /\ Head(down) = m /\ m \in Messages /\ 1 \in DOMAIN down
          /\ pc = "unsubscribing" /\ pc' = "ready" /\ m.type # "note" /\ stale' = stale
          /\ subs' = subs \ {target}
          /\ UNCHANGED <<active, nextSub, owner, alive, astray, closingUp, returned>>
      <3>1. Head(down) = m /\ m \in Messages /\ 1 \in DOMAIN down
        BY <1>1, <1>8, TakeFacts DEF UnsubscribeReply
      <3>2. ~closingUp' /\ stale' = 0
        BY DEF Synced
      <3>3. m.type # "note" /\ stale' = stale
        BY <1>2, <1>8, <3>1, <3>2 DEF UnsubscribeReply, Desync
      <3> HIDE DEF m
      <3> QED
        BY <1>8, <3>1, <3>2, <3>3 DEF UnsubscribeReply, GiveUp, Forget
    <2>2. Synced /\ 1 \in AnswersIn(down)
      BY <2>1 DEF Synced, AnswersIn
    <2>3. active = subs \ {target}
      BY <1>1, <2>1, <2>2 DEF Agreement, AnswerFits
    <2> QED
      BY <1>1, <1>2, <2>1, <2>2, <2>3, AgreementIdle DEF Agreement
  <1>9. CASE UnsubscribeTimeout
    BY <1>2, <1>9 DEF UnsubscribeTimeout, Agreement, Synced
  <1>10. CASE ConnectionClosed \/ Close \/ CloseEnd \/ Break
    BY <1>10 DEF ConnectionClosed, Broken, Close, CloseEnd, Break, Agreement, Synced
  <1>11. CASE CloseNext
    BY <1>1, <1>11 DEF CloseNext, Control, Agreement, Synced
  <1>12. CASE Handle
    <2> SUFFICES ASSUME Synced' PROVE Agreement'
      BY DEF Agreement
    <2> DEFINE r == up[1]
    <2>1. /\ Head(up) = r /\ r \in Requested /\ 1 \in DOMAIN up /\ up' = Tail(up)
          /\ UNCHANGED <<pc, requestId, subs, target, alive, stale, astray, closingUp, returned>>
      BY <1>1, <1>12, TailFacts DEF Handle, Shapes
    <2>2. Synced /\ OneAtMost
      BY <1>3, <2>1 DEF Synced
    <2>3. DOMAIN up' = {} /\ AnswersIn(down) = {} /\ pc \in {"subscribing", "unsubscribing"}
      BY <2>1, <2>2 DEF OneAtMost
    <2>4. /\ active = subs
          /\ pc = "subscribing" => r.op = "sub" /\ r.req = requestId
          /\ pc = "unsubscribing" => r.op = "unsub" /\ r.sub = target
          /\ \A x \in returned : x[2] \in FirstId .. nextSub - 1 /\ owner[x[2]] = x[1]
      BY <1>1, <2>1, <2>2 DEF Agreement, RequestFits
    <2>5. /\ nextSub \in Nat /\ FirstId <= nextSub /\ r.req \in Nat
          /\ r.op = "sub" => nextSub \in SubIds
      BY <1>1, <1>2, <2>1, WsAssumption
         DEF Requests, Requested, SubIds, WsAssumption
    <2>6. ASSUME NEW n \in Messages, n.type # "note", Push(n), AnswerFits(n)',
                 \A x \in returned : x[2] \in FirstId .. nextSub' - 1 /\ owner'[x[2]] = x[1]
          PROVE  Agreement'
      <3>1. AnswersIn(down)' = {Len(down) + 1} /\ down'[Len(down) + 1] = n
        BY <1>1, <2>3, <2>6, PushFacts
      <3>2. \A i \in AnswersIn(down)' : AnswerFits(down[i])'
        BY <2>6, <3>1 DEF AnswerFits
      <3> QED
        BY <2>1, <2>3, <2>6, <3>2 DEF Agreement
    <2>7. CASE r.op = "sub" /\ active' = active \cup {nextSub} /\ nextSub' = nextSub + 1
               /\ owner' = [owner EXCEPT ![nextSub] = r.req]
               /\ Push(Message("ack", r.req, nextSub))
      <3>1. PICK n \in Messages : /\ n = Message("ack", r.req, nextSub)
                                  /\ n.type = "ack" /\ n.val = nextSub
        BY <2>5, MessageType DEF Types
      <3>2. nextSub \in FirstId .. nextSub' - 1 /\ owner'[nextSub] = r.req
        <4>1. nextSub \in DOMAIN owner
          BY <1>1, <2>5, <2>7 DEF Shapes
        <4>2. nextSub \in FirstId .. nextSub' - 1
          BY <2>5, <2>7, WsAssumption DEF WsAssumption
        <4> QED
          BY <2>7, <4>1, <4>2
      <3>3. AnswerFits(n)'
        BY <2>1, <2>3, <2>4, <2>7, <3>1, <3>2 DEF AnswerFits
      <3>4. \A i \in FirstId .. nextSub - 1 :
               i \in FirstId .. nextSub' - 1 /\ owner'[i] = owner[i]
        <4> TAKE i \in FirstId .. nextSub - 1
        <4>1. i # nextSub /\ i \in FirstId .. nextSub' - 1
          BY <1>2, <2>5, <2>7
        <4>2. \A j : j # nextSub /\ j \in DOMAIN owner => owner'[j] = owner[j]
          BY <2>7
        <4>3. i \in SubIds /\ DOMAIN owner = SubIds
          <5>1. nextSub \in SubIds
            BY <2>5, <2>7
          <5> QED
            BY <1>1, <1>2, <5>1, WsAssumption DEF Shapes, SubIds, WsAssumption
        <4> QED
          BY <4>1, <4>2, <4>3
      <3> QED
        BY <2>4, <2>6, <2>7, <3>1, <3>3, <3>4
    <2>8. CASE r.op = "sub" /\ Push(Message("error", r.req, 0))
               /\ UNCHANGED <<active, nextSub, owner>>
      <3>1. PICK n \in Messages : n = Message("error", r.req, 0) /\ n.type = "error"
        BY <2>5, MessageType DEF Types
      <3>2. AnswerFits(n)'
        BY <2>1, <2>3, <2>4, <2>8, <3>1 DEF AnswerFits
      <3> QED
        BY <2>4, <2>6, <2>8, <3>1, <3>2
    <2>9. CASE r.op = "unsub" /\ r.sub \in active /\ active' = active \ {r.sub}
               /\ Push(Message("unack", r.req, 1)) /\ UNCHANGED <<nextSub, owner>>
      <3>1. PICK n \in Messages : n = Message("unack", r.req, 1) /\ n.type = "unack"
        BY <2>5, MessageType DEF Types
      <3>2. AnswerFits(n)'
        BY <2>1, <2>3, <2>4, <2>9, <3>1 DEF AnswerFits
      <3> QED
        BY <2>4, <2>6, <2>9, <3>1, <3>2
    <2>10. CASE r.op = "unsub" /\ r.sub \notin active
      <3>1. target \in subs
        BY <1>1, <2>3, <2>4, <2>10 DEF Control
      <3> QED
        BY <2>3, <2>4, <2>10, <3>1
    <2> QED
      BY <1>12, <2>1, <2>7, <2>8, <2>9, <2>10 DEF Handle
  <1>13. CASE Notify
    <2> SUFFICES ASSUME Synced' PROVE Agreement'
      BY DEF Agreement
    <2>1. PICK s \in active : Push(Message("note", notes + 1, s))
      BY <1>13 DEF Notify
    <2>2. s \in Nat /\ notes + 1 \in Nat
      BY <1>1, ServerNumbers
    <2>3. /\ AnswersIn(down)' = AnswersIn(down)
          /\ \A i \in DOMAIN down : down'[i] = down[i]
      <3>1. PICK n \in Messages : n.type = "note" /\ n.req = notes + 1 /\ Push(n)
        BY <2>1, <2>2, MessageType DEF Types
      <3> QED
        BY <1>1, <3>1, PushFacts
    <2>4. UNCHANGED <<pc, requestId, subs, target, closingUp, up, alive, active, nextSub,
                      owner, stale, astray, returned>>
      BY <1>13 DEF Notify
    <2>5. Synced
      BY <2>4 DEF Synced
    <2>6. \A i \in AnswersIn(down)' : AnswerFits(down[i])'
      BY <1>1, <2>3, <2>4, <2>5 DEF Agreement, AnswerFits, AnswersIn
    <2>7. \A i \in DOMAIN up' : RequestFits(up[i])'
      BY <1>1, <2>4, <2>5 DEF Agreement, RequestFits
    <2> QED
      BY <1>1, <2>4, <2>5, <2>6, <2>7 DEF Agreement
  <1>14. CASE UNCHANGED vars
    BY <1>1, <1>14 DEF vars, Agreement, Synced, AnswerFits, RequestFits, AnswersIn
  <1> QED
    BY <1>4, <1>5, <1>6, <1>7, <1>8, <1>9, <1>10, <1>11, <1>12, <1>13, <1>14
       DEF Next, Finished

-----------------------------------------------------------------------------
(* The theorems.                                                           *)

(* The invariant is kept by every step.                                    *)
LEMMA NextInv == IInv /\ [Next]_vars => IInv'
  <1> SUFFICES ASSUME IInv, [Next]_vars PROVE IInv'
    OBVIOUS
  <1> QED
    BY ShapesStep, ControlStep, RequestsStep, CountingStep, NotesStep, AgreementStep
       DEF IInv

(* The invariant of the websocket client (ws.py), for any number of        *)
(* requests, notifications and any count given to recv_notifications.      *)
THEOREM Invariance == Spec => []IInv
  BY InitInv, NextInv, PTL DEF Spec

(* What the client and the server remember of the connection (ws.py) keeps *)
(* its type: close() forgets every subscription, and the server never runs *)
(* out of the ids the model gives it.                                      *)
THEOREM TypeCorrect == Spec => []TypeOK
  <1>1. IInv => TypeOK
    <2> SUFFICES ASSUME IInv PROVE TypeOK
      OBVIOUS
    <2>1. active \subseteq SubIds /\ nextSub \in Nat
      BY WsAssumption DEF WsAssumption, IInv, Requests, SubIds
    <2>2. \A i \in DOMAIN down : down[i].type \in Types
      <3>1. \A i \in DOMAIN down : down[i] \in Messages
        BY LenProperties DEF IInv, Shapes
      <3> QED
        BY <3>1 DEF Messages
    <2> QED
      BY <2>1, <2>2 DEF IInv, Shapes, Control, Counting, TypeOK
  <1> QED
    BY <1>1, Invariance, PTL

(* As many answers are under way as the client waits for or has walked     *)
(* away from (_send_request and _unsubscribe of ws.py read one message for *)
(* one request, whatever it is).                                           *)
THEOREM AnswersAreAccounted == Spec => []AnswersAccounted
  <1>1. IInv => AnswersAccounted
    BY DEF IInv, Counting, AnswerCount, AnswersAccounted
  <1> QED
    BY <1>1, Invariance, PTL

(* Until an answer has been left behind, the table of subscriptions of     *)
(* ws.py is the server's, and each subscribe returned its own id.          *)
THEOREM ClientInStep == Spec => []InStep
  <1>1. IInv => InStep
    <2> SUFFICES ASSUME IInv, alive, pc = "ready", stale = 0, astray = 0
                 PROVE  subs = active
                        /\ \A r \in returned : r[2] \in SubIds /\ owner[r[2]] = r[1]
      BY DEF InStep
    <2>1. Synced
      BY DEF Synced, IInv, Control, Shapes
    <2>2. FirstId .. nextSub - 1 \subseteq SubIds
      BY WsAssumption DEF WsAssumption, IInv, Requests, SubIds
    <2> QED
      BY <2>1, <2>2 DEF IInv, Agreement
  <1> QED
    BY <1>1, Invariance, PTL

(* recv_notification and recv_notifications of ws.py return notifications  *)
(* in the order sent, and each one that was sent is still under way, in    *)
(* the caller's hands, or among those read for something else.             *)
THEOREM NothingIsLostSilently == Spec => []NoSilentLoss
  <1>1. IInv => NoSilentLoss
    <2> SUFFICES ASSUME IInv PROVE NoSilentLoss
      OBVIOUS
    <2>1. Notes
      BY DEF IInv
    <2> QED
      BY <2>1 DEF Notes, Increasing, NoSilentLoss
  <1> QED
    BY <1>1, Invariance, PTL
-----------------------------------------------------------------------------
(* close() only goes on.                                                   *)

(* The steps close() may still take: two for each subscription left, the   *)
(* request and its answer or the 5 second limit, and the end.              *)
StepsLeft ==
    IF pc = "closed" THEN 0
    ELSE 2 * Cardinality(todo) + (IF pc = "unsubscribing" THEN 2 ELSE 1)

Advances == StepsLeft' < StepsLeft
Rests == pc' = pc /\ StepsLeft' = StepsLeft

(* Only an answer to subscribe adds to the table, and only one entry.      *)
LEMMA TableStep ==
    ASSUME Shapes, [Next]_vars
    PROVE  \/ subs' \subseteq subs
           \/ \E s : subs' = subs \cup {s}
  <1> USE DEF client, server, history
  <1>1. CASE SubscribeReply
    BY <1>1 DEF SubscribeReply
  <1>2. CASE UnsubscribeReply \/ UnsubscribeTimeout
    BY <1>2 DEF UnsubscribeReply, UnsubscribeTimeout, GiveUp, Forget
  <1>3. ASSUME NEW s, StartUnsubscribe(s) PROVE subs' \subseteq subs
    BY <1>3 DEF StartUnsubscribe, GiveUp, Forget
  <1>4. CASE \E s \in subs : Unsubscribe(s)
    BY <1>3, <1>4 DEF Unsubscribe
  <1>5. CASE CloseNext
    BY <1>3, <1>5 DEF CloseNext
  <1>6. CASE Subscribe \/ Receive \/ ReceiveMessage \/ ReceiveTimeout \/ ConnectionClosed
    BY <1>6 DEF Subscribe, Receive, ReceiveMessage, ReceiveTimeout, ConnectionClosed
  <1>7. CASE Close \/ CloseEnd \/ Handle \/ Notify \/ Break \/ UNCHANGED vars
    BY <1>7 DEF Close, CloseEnd, Handle, Notify, Break, vars
  <1> QED
    BY <1>1, <1>2, <1>4, <1>5, <1>6, <1>7 DEF Next, Finished

(* The table is finite, so that close() has an end to come to.             *)
THEOREM TableIsFinite == Spec => []IsFiniteSet(subs)
  <1>1. Init => IsFiniteSet(subs)
    BY FS_EmptySet DEF Init
  <1>2. IInv /\ IsFiniteSet(subs) /\ [Next]_vars => IsFiniteSet(subs)'
    BY TableStep, FS_Subset, FS_AddElement DEF IInv
  <1> QED
    BY <1>1, <1>2, Invariance, PTL DEF Spec

(* One step of close().                                                    *)
LEMMA CloseAdvances ==
    ASSUME IInv, IsFiniteSet(subs), closingUp,
           UnsubscribeReply \/ UnsubscribeTimeout \/ CloseNext \/ CloseEnd
    PROVE  closingUp' /\ Advances
  <1>0. /\ IsFiniteSet(todo) /\ Cardinality(todo) \in Nat
        /\ \A s \in todo : Cardinality(todo \ {s}) = Cardinality(todo) - 1
    BY FS_Subset, FS_CardinalityType, FS_RemoveElement DEF IInv, Shapes
  <1>1. CASE UnsubscribeReply \/ UnsubscribeTimeout
    <2>1. /\ pc = "unsubscribing" /\ pc' = "closing" /\ todo' = todo /\ closingUp' = closingUp
      BY <1>1 DEF UnsubscribeReply, UnsubscribeTimeout, GiveUp
    <2> QED
      BY <1>0, <2>1 DEF StepsLeft, Advances
  <1>2. CASE CloseNext
    <2>1. PICK s \in todo : StartUnsubscribe(s) /\ todo' = todo \ {s}
      BY <1>2 DEF CloseNext
    <2>2. pc = "closing" /\ closingUp' = closingUp /\ pc' \in {"unsubscribing", "closing"}
      BY <1>2, <2>1 DEF CloseNext, StartUnsubscribe, GiveUp
    <2>3. Cardinality(todo') = Cardinality(todo) - 1
      BY <1>0, <2>1
    <2> QED
      BY <1>0, <2>2, <2>3 DEF StepsLeft, Advances
  <1>3. CASE CloseEnd
    <2>1. pc = "closing" /\ pc' = "closed" /\ closingUp' = closingUp
      BY <1>3 DEF CloseEnd
    <2> QED
      BY <1>0, <2>1 DEF StepsLeft, Advances
  <1> QED
    BY <1>1, <1>2, <1>3

(* Once close() has begun no other step of the client is taken, and the    *)
(* server cannot move it.                                                  *)
LEMMA ClosingRests ==
    ASSUME IInv, closingUp, [Next]_vars,
           ~(UnsubscribeReply \/ UnsubscribeTimeout \/ CloseNext \/ CloseEnd)
    PROVE  closingUp' /\ Rests
  <1>1. pc \in {"closing", "closed", "unsubscribing"}
    BY DEF IInv, Control
  <1>2. CASE Handle \/ Notify \/ Break \/ UNCHANGED vars
    BY <1>2 DEF Handle, Notify, Break, vars, client, Rests, StepsLeft
  <1>3. ~(Subscribe \/ SubscribeReply \/ Receive \/ ReceiveMessage \/ ReceiveTimeout)
    BY <1>1 DEF Subscribe, SubscribeReply, Receive, ReceiveMessage, ReceiveTimeout
  <1>4. ~(ConnectionClosed \/ Close) /\ \A s \in subs : ~Unsubscribe(s)
    BY <1>1 DEF ConnectionClosed, Close, Unsubscribe
  <1> QED
    BY <1>2, <1>3, <1>4 DEF Next, Finished

(* The loop of close() (ws.py) begins with two steps for each subscription *)
(* and one more, and every step it takes uses one up; whatever the server  *)
(* sends, holds back or breaks gives none back, and close() is not left    *)
(* again.  What CloseEnds asks beyond this is that the client is resumed.  *)
THEOREM CloseOnlyAdvances ==
    Spec => [][/\ Close => StepsLeft' = 2 * Cardinality(subs) + 1
               /\ closingUp => StepsLeft \in Nat /\ closingUp' /\ (Rests \/ Advances)]_vars
  <1>1. IInv /\ IsFiniteSet(subs) /\ [Next]_vars
        => [/\ Close => StepsLeft' = 2 * Cardinality(subs) + 1
            /\ closingUp => StepsLeft \in Nat /\ closingUp' /\ (Rests \/ Advances)]_vars
    <2> SUFFICES ASSUME IInv, IsFiniteSet(subs), Next
                 PROVE  /\ Close => StepsLeft' = 2 * Cardinality(subs) + 1
                        /\ closingUp =>
                              StepsLeft \in Nat /\ closingUp' /\ (Rests \/ Advances)
      OBVIOUS
    <2>1. Cardinality(subs) \in Nat /\ Cardinality(todo) \in Nat
      BY FS_Subset, FS_CardinalityType DEF IInv, Shapes
    <2>2. Close => StepsLeft' = 2 * Cardinality(subs) + 1
      BY DEF Close, StepsLeft
    <2>3. StepsLeft \in Nat
      BY <2>1 DEF StepsLeft
    <2> QED
      BY <2>2, <2>3, CloseAdvances, ClosingRests
  <1> QED
    BY <1>1, TableIsFinite, Invariance, PTL DEF Spec
=============================================================================
