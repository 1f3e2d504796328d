------------------------- MODULE SessionLogProofs -------------------------
(***************************************************************************)
(* Theorems about SessionLog, for any calls, any queue and any bounds.     *)
(*                                                                         *)
(* Each part adds to what is known in every state:                         *)
(*   IInv          the types, and what is held while a message is recorded *)
(*   Waiting       the queue: records, then what the runner waits for      *)
(*   Follows       short of trouble, the log is the transcript             *)
(*   Memory        what the runner knows of the calls of its pass          *)
(*   Agreeing      no line or record tells another outcome than it does    *)
(*   Begins        after a fragment, the log begins the transcript         *)
(*   Shaped        no message lands on a question that is open             *)
(*   StartsAreTold every beginning of the log answers a start, or asks     *)
(*   ReceiptsAreSafe, SidecarsAreSafe                                      *)
(*                 every beginning a stop may leave answers what was kept, *)
(*                 or asks for it with the record beside it                *)
(* Where a theorem needs that some writes do not fail, it says so of       *)
(* Faults; TLC finds each of them violated without.                        *)
(***************************************************************************)
EXTENDS SessionLog, FiniteSetTheorems, TLAPS

(***************************************************************************)
(* Numbers and sequences.                                                  *)
(***************************************************************************)

LEMMA Least ==
    ASSUME NEW T \in SUBSET Nat, T # {}
    PROVE  \E x \in T : \A y \in T : x <= y
<1>1. PICK x \in T : \A y \in T : <<y, x>> \notin OpToRel(<, Nat)
  BY NatLessThanWellFounded, WFMin
<1>2. ASSUME NEW y \in T PROVE x <= y
  <2>1. ~ (y < x)
    BY <1>1 DEF OpToRel
  <2> QED  BY <2>1
<1> QED  BY <1>2

LEMMA Greatest ==
    ASSUME NEW n \in Nat, NEW T \in SUBSET (1..n), T # {}
    PROVE  \E x \in T : \A y \in T : y <= x
<1> DEFINE U == {n - i : i \in T}
<1>1. U \in SUBSET Nat /\ U # {}
  <2>1. \A i \in T : n - i \in Nat
    OBVIOUS
  <2> QED  BY <2>1
<1>2. PICK u \in U : \A v \in U : u <= v
  BY <1>1, Least
<1>3. PICK x \in T : u = n - x
  BY <1>2
<1>4. ASSUME NEW y \in T PROVE y <= x
  <2>1. n - y \in U
    OBVIOUS
  <2>2. u <= n - y
    BY <1>2, <2>1
  <2>3. x \in 1..n /\ y \in 1..n
    OBVIOUS
  <2> QED  BY <1>3, <2>2, <2>3
<1> QED  BY <1>4

LEMMA EmptySequence ==
    ASSUME NEW S
    PROVE  <<>> \in Seq(S) /\ Len(<<>>) = 0 /\ DOMAIN <<>> = {} /\ <<>> \in [{} -> S]
OBVIOUS

LEMMA Beginning ==
    ASSUME NEW S, NEW s \in Seq(S), NEW n \in 0..Len(s)
    PROVE  SubSeq(s, 1, n) \in Seq(S) /\ Len(SubSeq(s, 1, n)) = n
OBVIOUS

LEMMA Appended ==
    ASSUME NEW S, NEW s \in Seq(S), NEW e \in S
    PROVE  Append(s, e) \in Seq(S) /\ Len(Append(s, e)) = Len(s) + 1
OBVIOUS

LEMMA Taken ==
    ASSUME NEW S, NEW s \in Seq(S), s # <<>>
    PROVE  Tail(s) \in Seq(S) /\ Len(Tail(s)) = Len(s) - 1 /\ Head(s) \in S
OBVIOUS

(***************************************************************************)
(* Lines and messages.                                                     *)
(***************************************************************************)

LEMMA Lines ==
    /\ \A n \in 1..MaxTurns : User(n) \in Message
    /\ \A n \in 1..MaxPasses, asked \in SUBSET CallId : Agent(n, asked) \in Message
    /\ \A asked \in SUBSET CallId : \A a \in [asked -> Answer] : Results(a) \in Message
    /\ \A c \in CallId : Started(c) \in LineType
    /\ \A c \in CallId, a \in Answer : Finished(c, a) \in LineType
<1>1. \A n \in 1..MaxTurns : User(n) \in Message
  BY DEF User, Message, LineType, IsMessage
<1>2. \A n \in 1..MaxPasses, asked \in SUBSET CallId : Agent(n, asked) \in Message
  BY DEF Agent, Message, LineType, IsMessage
<1>3. ASSUME NEW asked \in SUBSET CallId, NEW a \in [asked -> Answer]
      PROVE  Results(a) \in Message
  <2>1. a \in UNION {[known -> Answer] : known \in SUBSET CallId}
    OBVIOUS
  <2> QED  BY <2>1 DEF Results, Message, LineType, IsMessage
<1>4. \A c \in CallId : Started(c) \in LineType
  BY DEF Started, LineType
<1>5. \A c \in CallId, a \in Answer : Finished(c, a) \in LineType
  BY DEF Finished, LineType
<1> QED  BY <1>1, <1>2, <1>3, <1>4, <1>5

LEMMA AgentCalls ==
    ASSUME NEW l \in LineType, l.kind = "agent"
    PROVE  l.calls \in SUBSET CallId
BY DEF LineType

\* Some place of P has n of P's places up to it, for every n up to how many
\* there are.
LEMMA NthPlace ==
    ASSUME NEW m \in Nat, NEW P \in SUBSET (1..m)
    PROVE  /\ IsFiniteSet(P) /\ Cardinality(P) \in Nat
           /\ \A n \in 1..Cardinality(P) :
                 \E i \in P : Cardinality({j \in P : j <= i}) = n
<1> DEFINE count == [k \in 0..m |-> Cardinality({j \in P : j <= k})]
<1>0. \A j \in P : j \in Int /\ 1 <= j /\ j <= m
  <2> SUFFICES ASSUME NEW j \in P PROVE j \in Int /\ 1 <= j /\ j <= m
    OBVIOUS
  <2>1. j \in 1..m
    OBVIOUS
  <2> QED  BY <2>1
<1>1. IsFiniteSet(P) /\ Cardinality(P) \in Nat
  <2>1. IsFiniteSet(1..m)
    BY FS_Interval
  <2>2. IsFiniteSet(P)
    BY <2>1, FS_Subset
  <2> QED  BY <2>2, FS_CardinalityType
<1>2. ASSUME NEW k \in 0..m
      PROVE  IsFiniteSet({j \in P : j <= k}) /\ count[k] \in Nat
             /\ count[k] = Cardinality({j \in P : j <= k})
  <2>1. {j \in P : j <= k} \in SUBSET P
    OBVIOUS
  <2>2. IsFiniteSet({j \in P : j <= k})
    BY <1>1, <2>1, FS_Subset
  <2>3. Cardinality({j \in P : j <= k}) \in Nat
    BY <2>2, FS_CardinalityType
  <2> QED  BY <2>2, <2>3
<1>3. count[m] = Cardinality(P)
  <2>1. {j \in P : j <= m} = P
    BY <1>0
  <2>2. m \in 0..m
    OBVIOUS
  <2>3. count[m] = Cardinality({j \in P : j <= m})
    BY <1>2, <2>2
  <2> QED  BY <2>1, <2>3
<1>4. count[0] = 0
  <2>1. {j \in P : j <= 0} = {}
    <3>1. \A j \in P : ~(j <= 0)
      BY <1>0
    <3> QED  BY <3>1
  <2>2. 0 \in 0..m
    OBVIOUS
  <2>3. count[0] = Cardinality({j \in P : j <= 0})
    BY <1>2, <2>2
  <2> QED  BY <2>1, <2>3, FS_EmptySet
<1>5. ASSUME NEW k \in 1..m
      PROVE  /\ k \in P => count[k] = count[k - 1] + 1
             /\ k \notin P => count[k] = count[k - 1]
  <2>1. k \in 0..m /\ k - 1 \in 0..m
    OBVIOUS
  <2>2. /\ count[k] = Cardinality({j \in P : j <= k})
        /\ count[k - 1] = Cardinality({j \in P : j <= k - 1})
        /\ IsFiniteSet({j \in P : j <= k - 1})
    BY <1>2, <2>1
  <2>3. CASE k \in P
    <3>1. {j \in P : j <= k} = {j \in P : j <= k - 1} \union {k}
      <4>1. \A j \in P : j <= k <=> j <= k - 1 \/ j = k
        BY <1>0
      <4>2. k <= k
        OBVIOUS
      <4> QED  BY <2>3, <4>1, <4>2
    <3>2. k \notin {j \in P : j <= k - 1}
      OBVIOUS
    <3>3. Cardinality({j \in P : j <= k - 1} \union {k})
             = Cardinality({j \in P : j <= k - 1}) + 1
      BY <2>2, <3>2, FS_AddElement
    <3> HIDE DEF count
    <3> QED  BY <2>2, <2>3, <3>1, <3>3
  <2>4. CASE k \notin P
    <3>1. {j \in P : j <= k} = {j \in P : j <= k - 1}
      <4>1. \A j \in P : j <= k <=> j <= k - 1
        <5>1. \A j \in P : j # k
          BY <2>4
        <5> QED  BY <1>0, <5>1
      <4> QED  BY <4>1
    <3> HIDE DEF count
    <3> QED  BY <2>2, <2>4, <3>1
  <2> QED  BY <2>3, <2>4
<1> HIDE DEF count
<1>6. ASSUME NEW n \in 1..Cardinality(P)
      PROVE  \E i \in P : count[i] = n
  <2> DEFINE enough == {k \in 0..m : n <= count[k]}
  <2>1. n \in Nat /\ 1 <= n /\ n <= count[m] /\ m \in 0..m
    BY <1>1, <1>3
  <2>2. enough \in SUBSET Nat /\ enough # {}
    BY <2>1
  <2>3. PICK x \in enough : \A y \in enough : x <= y
    BY <2>2, Least
  <2>4. x \in 0..m /\ n <= count[x]
    BY <2>3
  <2>5. x # 0
    BY <1>4, <2>1, <2>4
  <2>6. x \in 1..m /\ x - 1 \in 0..m
    BY <2>4, <2>5
  <2>7. count[x] \in Nat /\ count[x - 1] \in Nat
    BY <1>2, <2>4, <2>6
  <2>8. count[x - 1] < n
    <3> SUFFICES ASSUME n <= count[x - 1] PROVE FALSE
      BY <2>1, <2>7
    <3>1. x <= x - 1
      BY <2>3, <2>6
    <3> QED  BY <2>6, <3>1
  <2>9. count[x] # count[x - 1]
    BY <2>1, <2>4, <2>7, <2>8
  <2>10. x \in P
    BY <1>5, <2>6, <2>9
  <2>11. count[x] = count[x - 1] + 1
    BY <1>5, <2>6, <2>10
  <2> QED  BY <2>1, <2>4, <2>7, <2>8, <2>10, <2>11
<1>7. \A i \in P : count[i] = Cardinality({j \in P : j <= i})
  BY <1>2
<1> QED  BY <1>1, <1>6, <1>7

\* The messages of some lines are messages.
LEMMA MessagesType ==
    ASSUME NEW f \in Seq(LineType)
    PROVE  Messages(f) \in Seq(Message)
<1> DEFINE places == {i \in 1..Len(f) : IsMessage(f[i])}
           nth(n) == CHOOSE i \in places : Cardinality({j \in places : j <= i}) = n
           total == Cardinality(places)
<1>1. Len(f) \in Nat /\ \A i \in 1..Len(f) : f[i] \in LineType
  OBVIOUS
<1>2. places \in SUBSET (1..Len(f)) /\ \A i \in places : IsMessage(f[i])
  OBVIOUS
<1>3. Messages(f) = [n \in 1..total |-> f[nth(n)]]
  BY DEF Messages
<1> HIDE DEF places
<1>4. total \in Nat /\ \A n \in 1..total : nth(n) \in places
  BY <1>1, <1>2, NthPlace
<1> HIDE DEF nth, total
<1>5. \A n \in 1..total : f[nth(n)] \in Message
  BY <1>1, <1>2, <1>4 DEF Message
<1>6. [n \in 1..total |-> f[nth(n)]] \in [1..total -> Message]
  BY <1>5
<1>7. [n \in 1..total |-> f[nth(n)]] \in Seq(Message)
  BY <1>4, <1>6
<1> QED  BY <1>3, <1>7

LEMMA LastMessageType ==
    ASSUME NEW f \in Seq(LineType)
    PROVE  /\ LastMessage(f) \in 0..Len(f)
           /\ LastMessage(f) > 0 => IsMessage(f[LastMessage(f)])
<1>1. CASE ~ \E i \in 1..Len(f) : IsMessage(f[i])
  BY <1>1 DEF LastMessage
<1>2. CASE \E i \in 1..Len(f) : IsMessage(f[i])
  <2> DEFINE places == {i \in 1..Len(f) : IsMessage(f[i])}
  <2>1. Len(f) \in Nat /\ places \in SUBSET (1..Len(f)) /\ places # {}
    BY <1>2
  <2>2. PICK x \in places : \A y \in places : y <= x
    BY <2>1, Greatest
  <2>3. x \in 1..Len(f) /\ IsMessage(f[x]) /\ \A j \in (x + 1)..Len(f) : ~IsMessage(f[j])
    <3>1. ASSUME NEW j \in (x + 1)..Len(f) PROVE ~IsMessage(f[j])
      <4>1. j \in 1..Len(f) /\ ~(j <= x)
        BY <2>1
      <4> QED  BY <2>2, <4>1
    <3> QED  BY <3>1
  <2>4. LastMessage(f) \in 1..Len(f) /\ IsMessage(f[LastMessage(f)])
    BY <1>2, <2>3 DEF LastMessage
  <2> QED  BY <2>1, <2>4
<1> QED  BY <1>1, <1>2

LEMMA OutstandingType ==
    ASSUME NEW f \in Seq(LineType)
    PROVE  Outstanding(f) \in SUBSET CallId
<1>1. CASE LastMessage(f) > 0 /\ f[LastMessage(f)].kind = "agent"
  <2>1. LastMessage(f) \in 1..Len(f)
    BY <1>1, LastMessageType
  <2>2. f[LastMessage(f)] \in LineType
    BY <2>1
  <2> QED  BY <1>1, <2>2, AgentCalls DEF Outstanding
<1>2. CASE ~(LastMessage(f) > 0 /\ f[LastMessage(f)].kind = "agent")
  BY <1>2 DEF Outstanding
<1> QED  BY <1>1, <1>2

LEMMA RecoveredType ==
    ASSUME NEW f \in Seq(LineType), NEW s \in SUBSET Sidecar
    PROVE  Recovered(f, s) \in Message
<1>1. ASSUME NEW c PROVE RecoveredAnswer(f, s, c) \in Answer
  <2>1. CASE \E r \in Pending(f, s) : r.call = c
    <3>1. Pending(f, s) \subseteq Sidecar
      BY DEF Pending, Visible
    <3>2. \A r \in Sidecar : r.answer \in Answer
      BY DEF Sidecar
    <3> QED  BY <2>1, <3>1, <3>2 DEF RecoveredAnswer
  <2>2. CASE ~(\E r \in Pending(f, s) : r.call = c)
    BY <2>2 DEF RecoveredAnswer, Answer
  <2> QED  BY <2>1, <2>2
<1>2. [c \in Outstanding(f) |-> RecoveredAnswer(f, s, c)] \in [Outstanding(f) -> Answer]
  BY <1>1
<1> QED  BY <1>2, OutstandingType, Lines DEF Recovered

LEMMA SettledLinesType ==
    ASSUME NEW f \in Seq(LineType), NEW s
    PROVE  SettledLines(f, s) \in Seq(LineType) /\ Len(SettledLines(f, s)) <= Len(f)
<1>1. CASE Outstanding(f) # {} /\ ~Recovers(f, s)
  <2>1. LastMessage(f) - 1 \in 0..Len(f)
    <3>1. LastMessage(f) > 0
      BY <1>1 DEF Outstanding
    <3> QED  BY <3>1, LastMessageType
  <2> QED  BY <1>1, <2>1, Beginning DEF SettledLines
<1>2. CASE ~(Outstanding(f) # {} /\ ~Recovers(f, s))
  BY <1>2 DEF SettledLines
<1> QED  BY <1>1, <1>2

(***************************************************************************)
(* The type invariant.  It is not inductive as it stands: what `at` holds  *)
(* depends on where the process is, a receipt on the call having run, and  *)
(* a line owed its newline on there being one.                             *)
(***************************************************************************)
Held ==
    /\ pc = "recording" => at \in Message
    /\ pc \in {"putting", "storing"} =>
          \E c \in DOMAIN st : at = [kind |-> "call", call |-> c] /\ st[c] = "ran"

RanIsDone == \A c \in DOMAIN st : st[c] \in {"ran", "kept", "unkept"} => c \in effects

OwedHasALine == end = "unended" => log # <<>>

IInv == TypeOK /\ Held /\ RanIsDone /\ OwedHasALine

LEMMA TypeInit == Init => IInv
<1> SUFFICES ASSUME Init PROVE IInv
  OBVIOUS
<1>1. /\ <<>> \in Seq(LineType) /\ <<>> \in Seq(RequestType) /\ <<>> \in Seq(Message)
      /\ Len(<<>>) = 0 /\ DOMAIN <<>> = {}
      /\ <<>> \in [{} -> CallState] /\ <<>> \in [{} -> Answer]
  BY EmptySequence
<1>2. DiskType
  BY <1>1 DEF Init, DiskType
<1>3. WritingType
  <2>1. queue = <<>> /\ told = FALSE /\ trouble = FALSE
    BY DEF Init
  <2>2. Len(queue) <= QueueLen
    BY <1>1, <2>1, QueueLenAssumption
  <2> QED  BY <1>1, <2>1, <2>2 DEF WritingType
<1>4. RunningType
  BY <1>1 DEF Init, RunningType
<1>5. CountsType
  BY BoundsAssumption DEF Init, CountsType
<1>6. HistoryType
  BY DEF Init, HistoryType
<1>7. Held /\ RanIsDone /\ OwedHasALine
  BY <1>1 DEF Init, Held, RanIsDone, OwedHasALine
<1> QED  BY <1>2, <1>3, <1>4, <1>5, <1>6, <1>7 DEF IInv, TypeOK

(***************************************************************************)
(* Parts that steps share.                                                 *)
(***************************************************************************)

LEMMA DiskUnchanged == DiskType /\ OwedHasALine /\ UNCHANGED disk => DiskType' /\ OwedHasALine'
BY DEF DiskType, OwedHasALine, disk

LEMMA WritingUnchanged == WritingType /\ UNCHANGED writing => WritingType'
BY DEF WritingType, writing

LEMMA CountsUnchanged == CountsType /\ UNCHANGED counts => CountsType'
BY DEF CountsType, counts

LEMMA HistoryUnchanged == HistoryType /\ UNCHANGED history => HistoryType'
BY DEF HistoryType, history

\* A request that is offered keeps the queue within QUEUE.
LEMMA OfferType ==
    ASSUME WritingType, NEW request \in RequestType, Offer(request),
           UNCHANGED <<told, trouble>>
    PROVE  WritingType'
<1>1. queue \in Seq(RequestType) /\ Len(queue) < QueueLen /\ queue' = Append(queue, request)
  BY DEF Offer, Room, WritingType
<1>2. queue' \in Seq(RequestType) /\ Len(queue') = Len(queue) + 1
  BY <1>1, Appended
<1>3. Len(queue) \in Nat
  BY <1>1
<1> QED  BY <1>1, <1>2, <1>3, QueueLenAssumption DEF WritingType

LEMMA Requests ==
    /\ \A l \in LineType : Line(l) \in RequestType /\ Acknowledged(l) \in RequestType
    /\ Barrier \in RequestType
BY DEF Line, Acknowledged, RequestType

\* A message that is recorded.
LEMMA RecordType ==
    ASSUME IInv, NEW message \in Message, Record(message)
    PROVE  DiskType' /\ OwedHasALine' /\ WritingType' /\ HistoryType'
           /\ pc' = "recording" /\ at' = message /\ transcript' \in Seq(Message)
<1>1. Acknowledged(message) \in RequestType
  BY Requests DEF Message
<1> QED
  BY <1>1, OfferType, DiskUnchanged, HistoryUnchanged DEF Record, IInv, TypeOK, RunningType

(***************************************************************************)
(* The runner's steps.                                                     *)
(***************************************************************************)

LEMMA SayType == IInv /\ Say => IInv'
<1> SUFFICES ASSUME IInv, Say PROVE IInv'
  OBVIOUS
<1>1. turns' \in 0..MaxTurns /\ turns + 1 \in 1..MaxTurns
  BY BoundsAssumption DEF Say, IInv, TypeOK, CountsType
<1>2. User(turns + 1) \in Message
  BY <1>1, Lines
<1>3. Record(User(turns + 1))
  BY DEF Say
<1>4. /\ DiskType' /\ OwedHasALine' /\ WritingType' /\ HistoryType'
      /\ pc' = "recording" /\ at' \in Message /\ transcript' \in Seq(Message)
  BY <1>2, <1>3, RecordType
<1>5. UNCHANGED <<st, answers, passes, crashes, faults, effects>>
  BY <1>3 DEF Say, Record, history
<1>6. RunningType'
  BY <1>4, <1>5 DEF RunningType, IInv, TypeOK, Message
<1>7. CountsType'
  BY <1>1, <1>5 DEF CountsType, IInv, TypeOK
<1>8. Held' /\ RanIsDone'
  BY <1>4, <1>5 DEF Held, RanIsDone, IInv
<1> QED  BY <1>4, <1>6, <1>7, <1>8 DEF IInv, TypeOK

LEMMA ModelAnswersType ==
    ASSUME IInv, NEW asked \in SUBSET Calls, ModelAnswers(asked)
    PROVE  IInv'
<1> DEFINE called == {passes + 1} \X asked
<1>1. passes' \in 0..MaxPasses /\ passes + 1 \in 1..MaxPasses
  BY BoundsAssumption DEF ModelAnswers, IInv, TypeOK, CountsType
<1>2. called \in SUBSET CallId
  BY <1>1 DEF CallId
<1>3. Agent(passes + 1, called) \in Message
  BY <1>1, <1>2, Lines
<1>4. Record(Agent(passes + 1, called)) /\ st' = [c \in called |-> "asked"] /\ answers' = <<>>
  BY DEF ModelAnswers
<1> HIDE DEF called
<1>5. /\ DiskType' /\ OwedHasALine' /\ WritingType' /\ HistoryType'
      /\ pc' = "recording" /\ at' \in Message /\ transcript' \in Seq(Message)
  BY <1>3, <1>4, RecordType
<1>6. UNCHANGED <<turns, crashes, faults>>
  BY <1>4 DEF ModelAnswers, Record
<1>7. DOMAIN st' = called /\ \A c \in DOMAIN st' : st'[c] = "asked"
  BY <1>4
<1>8. st' \in [DOMAIN st' -> CallState] /\ DOMAIN st' \subseteq CallId
  BY <1>2, <1>4, <1>7 DEF CallState
<1>9. answers' \in [DOMAIN answers' -> Answer] /\ DOMAIN answers' \subseteq DOMAIN st'
  BY <1>4, EmptySequence
<1>10. RunningType'
  BY <1>5, <1>8, <1>9 DEF RunningType, Message
<1>11. CountsType'
  BY <1>1, <1>6 DEF CountsType, IInv, TypeOK
<1>12. Held' /\ RanIsDone'
  BY <1>5, <1>7 DEF Held, RanIsDone
<1> QED  BY <1>5, <1>10, <1>11, <1>12 DEF IInv, TypeOK

LEMMA RecordedType == IInv /\ Recorded => IInv'
<1> SUFFICES ASSUME IInv, Recorded PROVE IInv'
  OBVIOUS
<1>1. at \in Message /\ transcript \in Seq(Message)
  BY DEF Recorded, IInv, Held, TypeOK, RunningType
<1>2. transcript' \in Seq(Message)
  BY <1>1, Appended DEF Recorded
<1>3. pc' \in {"asking", "idle", "tools", "settle"}
  BY <1>1 DEF Recorded, Message, IsMessage
<1>4. RunningType'
  BY <1>2, <1>3 DEF RunningType, Recorded, IInv, TypeOK
<1>5. DiskType' /\ OwedHasALine' /\ CountsType' /\ HistoryType'
  BY DiskUnchanged, CountsUnchanged, HistoryUnchanged DEF Recorded, IInv, TypeOK
<1>6. WritingType'
  BY DEF Recorded, WritingType, IInv, TypeOK
<1>7. Held' /\ RanIsDone'
  BY <1>3 DEF Held, RanIsDone, Recorded, IInv, history
<1> QED  BY <1>4, <1>5, <1>6, <1>7 DEF IInv, TypeOK

LEMMA TurnEndsType == IInv /\ TurnEnds => IInv'
<1> SUFFICES ASSUME IInv, TurnEnds PROVE IInv'
  OBVIOUS
<1>1. RunningType'
  BY DEF TurnEnds, RunningType, IInv, TypeOK
<1>2. DiskType' /\ OwedHasALine' /\ WritingType' /\ CountsType' /\ HistoryType'
  BY DiskUnchanged, WritingUnchanged, CountsUnchanged, HistoryUnchanged
  DEF TurnEnds, IInv, TypeOK
<1>3. Held' /\ RanIsDone'
  BY DEF TurnEnds, Held, RanIsDone, IInv, history
<1> QED  BY <1>1, <1>2, <1>3 DEF IInv, TypeOK

\* A call that goes one step further.
LEMMA CallGoesOn ==
    ASSUME IInv, NEW c \in DOMAIN st, NEW state \in CallState, pc = "tools",
           st' = [st EXCEPT ![c] = state], UNCHANGED <<transcript, answers>>,
           pc' = "tools", at' = at
    PROVE  /\ RunningType' /\ Held' /\ DOMAIN st' = DOMAIN st
           /\ \A d \in DOMAIN st : st'[d] = IF d = c THEN state ELSE st[d]
<1>1. DOMAIN st' = DOMAIN st
      /\ \A d \in DOMAIN st : st'[d] = IF d = c THEN state ELSE st[d]
  BY DEF IInv, TypeOK, RunningType
<1>2. st' \in [DOMAIN st' -> CallState]
  BY <1>1 DEF IInv, TypeOK, RunningType
<1>3. RunningType'
  BY <1>1, <1>2 DEF RunningType, IInv, TypeOK
<1> QED  BY <1>1, <1>3 DEF Held

LEMMA StartType ==
    ASSUME IInv, NEW c \in DOMAIN st, Start(c)
    PROVE  IInv'
<1>1. Line(Started(c)) \in RequestType
  BY Lines, Requests DEF IInv, TypeOK, RunningType
<1>2. WritingType'
  BY <1>1, OfferType DEF Start, IInv, TypeOK
<1>3. /\ RunningType' /\ Held' /\ DOMAIN st' = DOMAIN st
      /\ \A d \in DOMAIN st : st'[d] = IF d = c THEN "started" ELSE st[d]
  <2>1. "started" \in CallState
    BY DEF CallState
  <2> QED  BY <2>1, CallGoesOn DEF Start
<1>4. DiskType' /\ OwedHasALine' /\ CountsType' /\ HistoryType'
  BY DiskUnchanged, CountsUnchanged, HistoryUnchanged DEF Start, IInv, TypeOK
<1>5. RanIsDone'
  BY <1>3 DEF RanIsDone, Start, IInv, history
<1> QED  BY <1>2, <1>3, <1>4, <1>5 DEF IInv, TypeOK

LEMMA RunType ==
    ASSUME IInv, NEW c \in DOMAIN st, Run(c)
    PROVE  IInv'
<1>1. /\ RunningType' /\ Held' /\ DOMAIN st' = DOMAIN st
      /\ \A d \in DOMAIN st : st'[d] = IF d = c THEN "ran" ELSE st[d]
  <2>1. "ran" \in CallState
    BY DEF CallState
  <2> QED  BY <2>1, CallGoesOn DEF Run
<1>2. DiskType' /\ OwedHasALine' /\ WritingType' /\ CountsType'
  BY DiskUnchanged, WritingUnchanged, CountsUnchanged DEF Run, IInv, TypeOK
<1>3. HistoryType'
  BY DEF Run, HistoryType, IInv, TypeOK, RunningType
<1>4. RanIsDone'
  BY <1>1 DEF RanIsDone, Run, IInv
<1> QED  BY <1>1, <1>2, <1>3, <1>4 DEF IInv, TypeOK

\* A call that ended, and what it is answered with.
LEMMA CallEnds ==
    ASSUME IInv, NEW c \in DOMAIN st, NEW a \in Answer,
           st' = [st EXCEPT ![c] = "ended"],
           answers' = [d \in DOMAIN answers \union {c} |-> IF d = c THEN a ELSE answers[d]],
           pc = "tools", UNCHANGED <<pc, at, transcript, history>>
    PROVE  RunningType' /\ Held' /\ RanIsDone' /\ HistoryType'
<1>1. DOMAIN st' = DOMAIN st
      /\ \A d \in DOMAIN st : st'[d] = IF d = c THEN "ended" ELSE st[d]
  BY DEF IInv, TypeOK, RunningType
<1>2. st' \in [DOMAIN st' -> CallState]
  BY <1>1 DEF IInv, TypeOK, RunningType, CallState
<1>3. answers' \in [DOMAIN answers' -> Answer] /\ DOMAIN answers' = DOMAIN answers \union {c}
  BY DEF IInv, TypeOK, RunningType
<1>4. RunningType'
  BY <1>1, <1>2, <1>3 DEF RunningType, IInv, TypeOK
<1>5. HistoryType'
  BY HistoryUnchanged DEF IInv, TypeOK
<1> QED  BY <1>1, <1>4, <1>5 DEF Held, RanIsDone, IInv, history

LEMMA FinishType ==
    ASSUME IInv, NEW c \in DOMAIN st, Finish(c)
    PROVE  IInv'
<1>1. AnswerOf(st[c]) \in Answer
  BY DEF Finish, AnswerOf, Answer
<1>2. Line(Finished(c, AnswerOf(st[c]))) \in RequestType
  BY <1>1, Lines, Requests DEF IInv, TypeOK, RunningType
<1>3. WritingType'
  BY <1>2, OfferType DEF Finish, IInv, TypeOK
<1>4. RunningType' /\ Held' /\ RanIsDone' /\ HistoryType'
  BY <1>1, CallEnds DEF Finish
<1>5. DiskType' /\ OwedHasALine' /\ CountsType'
  BY DiskUnchanged, CountsUnchanged DEF Finish, IInv, TypeOK
<1> QED  BY <1>3, <1>4, <1>5 DEF IInv, TypeOK

LEMMA RefuseType ==
    ASSUME IInv, NEW c \in DOMAIN st, Refuse(c)
    PROVE  IInv'
<1>1. "notrun" \in Answer
  BY DEF Answer
<1>2. RunningType' /\ Held' /\ RanIsDone' /\ HistoryType'
  BY <1>1, CallEnds DEF Refuse
<1>3. DiskType' /\ OwedHasALine' /\ WritingType' /\ CountsType'
  BY DiskUnchanged, WritingUnchanged, CountsUnchanged DEF Refuse, IInv, TypeOK
<1> QED  BY <1>2, <1>3 DEF IInv, TypeOK

LEMMA PutType ==
    ASSUME IInv, NEW c \in DOMAIN st, Put(c)
    PROVE  IInv'
<1>1. WritingType'
  BY Requests, OfferType DEF Put, IInv, TypeOK
<1>2. RunningType'
  BY DEF Put, RunningType, IInv, TypeOK
<1>3. DiskType' /\ OwedHasALine' /\ CountsType' /\ HistoryType'
  BY DiskUnchanged, CountsUnchanged, HistoryUnchanged DEF Put, IInv, TypeOK
<1>4. Held' /\ RanIsDone'
  BY DEF Put, Held, RanIsDone, IInv, history
<1> QED  BY <1>1, <1>2, <1>3, <1>4 DEF IInv, TypeOK

LEMMA SourceSyncedType == IInv /\ SourceSynced => IInv'
<1> SUFFICES ASSUME IInv, SourceSynced PROVE IInv'
  OBVIOUS
<1>1. PICK c \in DOMAIN st : at = [kind |-> "call", call |-> c] /\ st[c] = "ran"
  BY DEF SourceSynced, IInv, Held
<1>2. at.call = c /\ c \in CallId
  BY <1>1 DEF IInv, TypeOK, RunningType
<1>3. WritingType' /\ CountsType' /\ HistoryType'
  <2>1. CountsType' /\ HistoryType'
    BY CountsUnchanged, HistoryUnchanged DEF SourceSynced, IInv, TypeOK
  <2> QED  BY <2>1 DEF SourceSynced, WritingType, IInv, TypeOK
<1>4. CASE trouble
  <2>1. DOMAIN st' = DOMAIN st
        /\ \A d \in DOMAIN st : st'[d] = IF d = c THEN "unkept" ELSE st[d]
    <3>1. st' = [st EXCEPT ![c] = "unkept"]
      BY <1>2, <1>4 DEF SourceSynced
    <3>2. st \in [DOMAIN st -> CallState]
      BY DEF IInv, TypeOK, RunningType
    <3> QED  BY <3>1, <3>2
  <2>2. st' \in [DOMAIN st' -> CallState]
    <3>1. st' = [st EXCEPT ![c] = "unkept"]
      BY <1>2, <1>4 DEF SourceSynced
    <3>2. st \in [DOMAIN st -> CallState] /\ "unkept" \in CallState
      BY DEF IInv, TypeOK, RunningType, CallState
    <3> QED  BY <3>1, <3>2
  <2>3. RunningType'
    BY <1>4, <2>1, <2>2 DEF SourceSynced, RunningType, IInv, TypeOK
  <2>4. DiskType' /\ OwedHasALine'
    BY <1>4, DiskUnchanged DEF SourceSynced, IInv, TypeOK
  <2>5. Held'
    BY <1>4 DEF SourceSynced, Held
  <2>6. RanIsDone'
    BY <1>1, <2>1 DEF SourceSynced, RanIsDone, IInv, history
  <2> QED  BY <1>3, <2>3, <2>4, <2>5, <2>6 DEF IInv, TypeOK
<1>5. CASE ~trouble
  <2>1. [call |-> at.call, answer |-> "done", state |-> "partial"] \in Sidecar
    BY <1>2 DEF Sidecar, Answer
  <2>2. synced' \in 0..Len(log)
    BY <1>5 DEF SourceSynced, SyncAll, IInv, TypeOK, DiskType
  <2>3. DiskType' /\ OwedHasALine'
    BY <1>5, <2>1, <2>2 DEF SourceSynced, DiskType, OwedHasALine, IInv, TypeOK
  <2>4. RunningType'
    BY <1>5 DEF SourceSynced, RunningType, IInv, TypeOK
  <2>5. Held' /\ RanIsDone'
    BY <1>1, <1>5 DEF SourceSynced, Held, RanIsDone, IInv, history
  <2> QED  BY <1>3, <2>3, <2>4, <2>5 DEF IInv, TypeOK
<1> QED  BY <1>4, <1>5

\* A sidecar written to its end is one.
LEMMA WholeType ==
    ASSUME sidecars \subseteq Sidecar, NEW c
    PROVE  Whole(c) \subseteq Sidecar
<1>1. ASSUME NEW r \in sidecars PROVE [r EXCEPT !.state = "whole"] \in Sidecar
  BY DEF Sidecar
<1> QED  BY <1>1 DEF Whole

\* A call whose result was kept, or was not.
LEMMA KeptOrNot ==
    ASSUME IInv, pc = "storing", NEW state \in {"kept", "unkept"},
           st' = [st EXCEPT ![at.call] = state], pc' = "tools", at' = Nothing,
           UNCHANGED <<transcript, answers, effects>>
    PROVE  RunningType' /\ Held' /\ RanIsDone' /\ at.call \in effects
<1>1. PICK c \in DOMAIN st : at = [kind |-> "call", call |-> c] /\ st[c] = "ran"
  BY DEF IInv, Held
<1>2. at.call = c
  BY <1>1
<1>3. DOMAIN st' = DOMAIN st
      /\ \A d \in DOMAIN st : st'[d] = IF d = c THEN state ELSE st[d]
  BY <1>2 DEF IInv, TypeOK, RunningType
<1>4. st' \in [DOMAIN st' -> CallState]
  BY <1>3 DEF IInv, TypeOK, RunningType, CallState
<1>5. RunningType'
  BY <1>3, <1>4 DEF RunningType, IInv, TypeOK
<1>6. RanIsDone' /\ c \in effects
  BY <1>1, <1>3 DEF RanIsDone, IInv
<1> QED  BY <1>2, <1>5, <1>6 DEF Held

LEMMA StoredType == IInv /\ Stored => IInv'
<1> SUFFICES ASSUME IInv, Stored PROVE IInv'
  OBVIOUS
<1>1. RunningType' /\ Held' /\ RanIsDone' /\ at.call \in effects
  BY KeptOrNot DEF Stored
<1>2. WritingType' /\ CountsType'
  BY WritingUnchanged, CountsUnchanged DEF Stored, IInv, TypeOK
<1>3. DiskType' /\ OwedHasALine'
  BY WholeType DEF Stored, DiskType, OwedHasALine, IInv, TypeOK
<1>4. HistoryType'
  BY <1>1 DEF Stored, HistoryType, IInv, TypeOK
<1> QED  BY <1>1, <1>2, <1>3, <1>4 DEF IInv, TypeOK

\* One more failing write is within the bound.
LEMMA OneMoreFault ==
    ASSUME CountsType, faults < MaxFaults, faults' = faults + 1,
           UNCHANGED <<passes, turns, crashes>>
    PROVE  CountsType'
BY BoundsAssumption DEF CountsType

LEMMA StoringFailsType == IInv /\ StoringFails => IInv'
<1> SUFFICES ASSUME IInv, StoringFails PROVE IInv'
  OBVIOUS
<1>1. RunningType' /\ Held' /\ RanIsDone'
  BY KeptOrNot DEF StoringFails, history
<1>2. WritingType' /\ HistoryType'
  BY WritingUnchanged, HistoryUnchanged DEF StoringFails, IInv, TypeOK
<1>3. DiskType' /\ OwedHasALine'
  BY WholeType DEF StoringFails, DiskType, OwedHasALine, IInv, TypeOK
<1>4. CountsType'
  BY OneMoreFault DEF StoringFails, IInv, TypeOK
<1> QED  BY <1>1, <1>2, <1>3, <1>4 DEF IInv, TypeOK

LEMMA PassEndsType == IInv /\ PassEnds => IInv'
<1> SUFFICES ASSUME IInv, PassEnds PROVE IInv'
  OBVIOUS
<1>1. answers \in [DOMAIN answers -> Answer] /\ DOMAIN answers \in SUBSET CallId
  BY DEF IInv, TypeOK, RunningType
<1>2. Results(answers) \in Message
  BY <1>1, Lines
<1>3. /\ DiskType' /\ OwedHasALine' /\ WritingType' /\ HistoryType'
      /\ pc' = "recording" /\ at' \in Message /\ transcript' \in Seq(Message)
  BY <1>2, RecordType DEF PassEnds
<1>4. UNCHANGED <<st, answers, passes, turns, crashes, faults, effects>>
  BY DEF PassEnds, Record, history
<1>5. RunningType'
  BY <1>3, <1>4 DEF RunningType, IInv, TypeOK, Message
<1>6. CountsType'
  BY <1>4 DEF CountsType, IInv, TypeOK
<1>7. Held' /\ RanIsDone'
  BY <1>3, <1>4 DEF Held, RanIsDone, IInv
<1> QED  BY <1>3, <1>5, <1>6, <1>7 DEF IInv, TypeOK

\* A step that only moves the process to a place where nothing is held.
LEMMA Moved ==
    ASSUME IInv, UNCHANGED <<at, transcript, st, answers, effects>>,
           pc' \in {"idle", "asking", "tools", "settle", "settling", "removing", "off"}
                     \union Opening
    PROVE  RunningType' /\ Held' /\ RanIsDone'
BY DEF RunningType, Held, RanIsDone, IInv, TypeOK, Opening

LEMMA SettleLooksType == IInv /\ SettleLooks => IInv'
<1> SUFFICES ASSUME IInv, SettleLooks PROVE IInv'
  OBVIOUS
<1>1. RunningType' /\ Held' /\ RanIsDone'
  BY Moved DEF SettleLooks, history
<1>2. DiskType' /\ OwedHasALine' /\ CountsType' /\ HistoryType'
  BY DiskUnchanged, CountsUnchanged, HistoryUnchanged DEF SettleLooks, IInv, TypeOK
<1>3. WritingType'
  <2>1. CASE UNCHANGED queue
    BY <2>1 DEF SettleLooks, WritingType, IInv, TypeOK
  <2>2. CASE Offer(Barrier)
    BY <2>2, Requests, OfferType DEF SettleLooks, IInv, TypeOK
  <2> QED  BY <2>1, <2>2 DEF SettleLooks
<1> QED  BY <1>1, <1>2, <1>3 DEF IInv, TypeOK

LEMMA SettleSyncedType == IInv /\ SettleSynced => IInv'
<1> SUFFICES ASSUME IInv, SettleSynced PROVE IInv'
  OBVIOUS
<1>1. RunningType' /\ Held' /\ RanIsDone'
  BY Moved DEF SettleSynced, history
<1>2. CountsType' /\ HistoryType'
  BY CountsUnchanged, HistoryUnchanged DEF SettleSynced, IInv, TypeOK
<1>3. WritingType'
  BY DEF SettleSynced, WritingType, IInv, TypeOK
<1>4. synced' \in 0..Len(log)
  BY DEF SettleSynced, SyncAll, IInv, TypeOK, DiskType
<1>5. DiskType' /\ OwedHasALine'
  BY <1>4 DEF SettleSynced, DiskType, OwedHasALine, IInv, TypeOK
<1> QED  BY <1>1, <1>2, <1>3, <1>5 DEF IInv, TypeOK

LEMMA RemoveType ==
    ASSUME IInv, NEW r \in sidecars, Remove(r)
    PROVE  IInv'
<1>1. [r EXCEPT !.state = "removed"] \in Sidecar
  BY DEF IInv, TypeOK, DiskType, Sidecar
<1>2. DiskType' /\ OwedHasALine'
  BY <1>1 DEF Remove, DiskType, OwedHasALine, IInv, TypeOK
<1>3. WritingType' /\ CountsType' /\ HistoryType'
  BY WritingUnchanged, CountsUnchanged, HistoryUnchanged DEF Remove, IInv, TypeOK
<1>4. RunningType' /\ Held' /\ RanIsDone'
  BY DEF Remove, running, history, RunningType, Held, RanIsDone, IInv, TypeOK
<1> QED  BY <1>2, <1>3, <1>4 DEF IInv, TypeOK

LEMMA RemovalFailsType == IInv /\ RemovalFails => IInv'
<1> SUFFICES ASSUME IInv, RemovalFails PROVE IInv'
  OBVIOUS
<1>1. RunningType' /\ Held' /\ RanIsDone'
  BY Moved DEF RemovalFails, history
<1>2. DiskType' /\ OwedHasALine' /\ WritingType' /\ HistoryType'
  BY DiskUnchanged, WritingUnchanged, HistoryUnchanged DEF RemovalFails, IInv, TypeOK
<1>3. CountsType'
  BY OneMoreFault DEF RemovalFails, IInv, TypeOK
<1> QED  BY <1>1, <1>2, <1>3 DEF IInv, TypeOK

LEMMA SettleEndsType == IInv /\ SettleEnds => IInv'
<1> SUFFICES ASSUME IInv, SettleEnds PROVE IInv'
  OBVIOUS
<1>1. transcript' \in Seq(Message)
  BY MessagesType DEF SettleEnds, IInv, TypeOK, DiskType, RunningType
<1>2. pc' \in {"asking", "idle"}
  BY DEF SettleEnds
<1>3. RunningType' /\ Held' /\ RanIsDone'
  BY <1>1, <1>2 DEF SettleEnds, RunningType, Held, RanIsDone, IInv, TypeOK, history
<1>4. DiskType' /\ OwedHasALine'
  BY DEF SettleEnds, DiskType, OwedHasALine, IInv, TypeOK
<1>5. WritingType' /\ CountsType' /\ HistoryType'
  BY WritingUnchanged, CountsUnchanged, HistoryUnchanged DEF SettleEnds, IInv, TypeOK
<1> QED  BY <1>3, <1>4, <1>5 DEF IInv, TypeOK

(***************************************************************************)
(* The writer's steps and the end of the process.                          *)
(***************************************************************************)

\* Whatever a write leaves is lines, and no fewer than there were.
LEMMA LandingsType ==
    ASSUME DiskType, OwedHasALine, NEW l \in LineType, NEW left \in Landings(l)
    PROVE  /\ left.log \in Seq(LineType) /\ Len(left.log) >= Len(log)
           /\ left.end \in {"whole", "unended", "fragment"}
           /\ left.end = "unended" => left.log # <<>>
           /\ left.bad \in {TRUE, FALSE}
<1>1. log \in Seq(LineType) /\ Len(log) \in Nat
  BY DEF DiskType
<1>2. Append(log, l) \in Seq(LineType) /\ Len(Append(log, l)) = Len(log) + 1
      /\ Append(log, l) # <<>>
  BY <1>1
<1>3. \/ left.log = log /\ left.end = end
      \/ left.log = Append(log, l) /\ left.end \in {"whole", "unended"}
      \/ left.log = log /\ left.end = "unended" /\ end = "unended"
      \/ left.log = log /\ left.end \in {"whole", "fragment"}
  BY DEF Landings
<1>4. left.bad \in {TRUE, FALSE}
  <2>1. left.bad = TRUE \/ left.bad = FALSE
    BY DEF Landings
  <2> QED  BY <2>1
<1>5. /\ left.log \in Seq(LineType) /\ Len(left.log) >= Len(log)
      /\ left.end \in {"whole", "unended", "fragment"}
      /\ left.end = "unended" => left.log # <<>>
  <2>1. end \in {"whole", "unended", "fragment"} /\ (end = "unended" => log # <<>>)
    BY DEF DiskType, OwedHasALine
  <2> DEFINE more == Append(log, l)
  <2>2. /\ more \in Seq(LineType) /\ Len(more) = Len(log) + 1 /\ more # <<>>
        /\ left.log = more => left.end \in {"whole", "unended"}
    BY <1>2, <1>3
  <2> HIDE DEF more
  <2>3. CASE left.log = more
    BY <1>1, <2>2, <2>3
  <2>4. CASE left.log = log
    <3>1. Len(left.log) >= Len(log) /\ left.log \in Seq(LineType)
      BY <1>1, <2>4
    <3>2. left.log # more
      BY <1>1, <2>2, <2>4
    <3> QED  BY <1>3, <2>1, <2>4, <3>1, <3>2 DEF more
  <2> QED  BY <1>3, <2>3, <2>4 DEF more
<1> QED  BY <1>4, <1>5

LEMMA WriterTakesType == IInv /\ WriterTakes => IInv'
<1> SUFFICES ASSUME IInv, WriterTakes PROVE IInv'
  OBVIOUS
<1>1. queue \in Seq(RequestType) /\ queue # <<>> /\ queue' = Tail(queue)
  BY DEF WriterTakes, IInv, TypeOK, WritingType
<1>2. queue' \in Seq(RequestType) /\ Len(queue') = Len(queue) - 1
      /\ Head(queue) \in RequestType /\ Len(queue) \in Nat
  BY <1>1, Taken
<1>3. Len(queue') <= QueueLen
  BY <1>2, QueueLenAssumption DEF IInv, TypeOK, WritingType
<1>4. told' \in BOOLEAN
  <2>1. Head(queue).ack \in BOOLEAN
    <3>1. Barrier.ack = TRUE
      BY DEF Barrier
    <3>2. CASE Head(queue) = Barrier
      BY <3>1, <3>2
    <3>3. CASE Head(queue) # Barrier
      BY <1>2, <3>3 DEF RequestType
    <3> QED  BY <3>2, <3>3
  <2> QED  BY <2>1 DEF WriterTakes, IInv, TypeOK, WritingType
<1>5. RunningType' /\ Held' /\ RanIsDone' /\ HistoryType'
  BY HistoryUnchanged
  DEF WriterTakes, running, history, RunningType, Held, RanIsDone, IInv, TypeOK
<1>6. DiskType' /\ OwedHasALine' /\ CountsType' /\ trouble' \in BOOLEAN
  <2>1. CASE Head(queue) = Barrier
    BY <2>1
    DEF WriterTakes, DiskType, OwedHasALine, CountsType, WritingType, IInv, TypeOK
  <2>2. CASE Head(queue) # Barrier
    <3>1. Head(queue).line \in LineType
      BY <1>2, <2>2 DEF RequestType
    <3>2. PICK left \in Landings(Head(queue).line) :
              /\ left.bad => faults < MaxFaults
              /\ faults' = IF left.bad THEN faults + 1 ELSE faults
              /\ trouble' = (trouble \/ left.bad)
              /\ log' = left.log
              /\ end' = left.end
      BY <2>2 DEF WriterTakes, Land
    <3>3. /\ log' \in Seq(LineType) /\ Len(log') >= Len(log)
          /\ end' \in {"whole", "unended", "fragment"}
          /\ end' = "unended" => log' # <<>>
      BY <3>1, <3>2, LandingsType DEF IInv, TypeOK
    <3>4. DiskType' /\ OwedHasALine'
      <4>1. synced' = synced /\ sidecars' = sidecars
        BY DEF WriterTakes
      <4>2. synced \in 0..Len(log) /\ Len(log) \in Nat /\ Len(log') \in Nat
        BY <3>3 DEF IInv, TypeOK, DiskType
      <4>3. synced' \in 0..Len(log')
        BY <3>3, <4>1, <4>2
      <4> QED  BY <3>3, <4>1, <4>3 DEF DiskType, OwedHasALine, IInv, TypeOK
    <3>5. left.bad \in {TRUE, FALSE}
      BY <3>1, LandingsType DEF IInv, TypeOK
    <3>6. trouble' \in BOOLEAN
      BY <3>2, <3>5 DEF IInv, TypeOK, WritingType
    <3>7. faults' \in 0..MaxFaults
      BY <3>2, BoundsAssumption DEF IInv, TypeOK, CountsType
    <3>8. CountsType'
      BY <3>7 DEF WriterTakes, CountsType, IInv, TypeOK
    <3> QED  BY <3>4, <3>6, <3>8
  <2> QED  BY <2>1, <2>2
<1>7. WritingType'
  BY <1>2, <1>3, <1>4, <1>6 DEF WritingType
<1> QED  BY <1>5, <1>6, <1>7 DEF IInv, TypeOK

\* A process that is gone holds nothing.
LEMMA GoneType ==
    ASSUME Gone
    PROVE  WritingType' /\ RunningType' /\ Held' /\ RanIsDone'
<1>1. /\ <<>> \in Seq(RequestType) /\ <<>> \in Seq(Message)
      /\ Len(<<>>) = 0 /\ DOMAIN <<>> = {}
      /\ <<>> \in [{} -> CallState] /\ <<>> \in [{} -> Answer]
  BY EmptySequence
<1>2. WritingType'
  <2>1. Len(queue') <= QueueLen
    BY <1>1, QueueLenAssumption DEF Gone
  <2> QED  BY <1>1, <2>1 DEF Gone, WritingType
<1>3. RunningType'
  BY <1>1 DEF Gone, RunningType
<1>4. Held' /\ RanIsDone'
  BY <1>1 DEF Gone, Held, RanIsDone
<1> QED  BY <1>2, <1>3, <1>4

LEMMA LeaveType == IInv /\ Leave => IInv'
<1> SUFFICES ASSUME IInv, Leave PROVE IInv'
  OBVIOUS
<1>1. WritingType' /\ RunningType' /\ Held' /\ RanIsDone'
  BY GoneType DEF Leave
<1>2. DiskType' /\ OwedHasALine' /\ CountsType' /\ HistoryType'
  BY DiskUnchanged, CountsUnchanged, HistoryUnchanged DEF Leave, IInv, TypeOK
<1> QED  BY <1>1, <1>2 DEF IInv, TypeOK

\* One more crash is within the bound.
LEMMA OneMoreCrash ==
    ASSUME CountsType, crashes < MaxCrashes, crashes' = crashes + 1,
           UNCHANGED <<passes, turns, faults>>
    PROVE  CountsType'
BY BoundsAssumption DEF CountsType

LEMMA KillType == IInv /\ Kill => IInv'
<1> SUFFICES ASSUME IInv, Kill PROVE IInv'
  OBVIOUS
<1>1. WritingType' /\ RunningType' /\ Held' /\ RanIsDone'
  BY GoneType DEF Kill
<1>2. CountsType' /\ HistoryType'
  BY OneMoreCrash, HistoryUnchanged DEF Kill, IInv, TypeOK
<1>3. PICK left \in Interrupted : log' = left[1] /\ end' = left[2]
  BY DEF Kill
<1>4. log \in Seq(LineType) /\ Len(log) \in Nat /\ synced \in 0..Len(log)
  BY DEF IInv, TypeOK, DiskType
<1>5. CASE left = <<log, end>> \/ left = <<log, "fragment">>
  BY <1>1, <1>2, <1>3, <1>5 DEF Kill, DiskType, OwedHasALine, IInv, TypeOK
<1>6. CASE /\ queue # <<>> /\ Head(queue) # Barrier
           /\ left = <<Append(log, Head(queue).line), "unended">>
  <2>1. Head(queue) \in RequestType
    BY <1>6, Taken DEF IInv, TypeOK, WritingType
  <2>2. Head(queue).line \in LineType
    BY <1>6, <2>1 DEF RequestType
  <2>3. log' \in Seq(LineType) /\ Len(log') = Len(log) + 1 /\ log' # <<>>
    BY <1>3, <1>4, <1>6, <2>2
  <2>4. end' = "unended" /\ synced' \in 0..Len(log') /\ sidecars' = sidecars
    BY <1>3, <1>4, <1>6, <2>3 DEF Kill
  <2>5. DiskType' /\ OwedHasALine'
    BY <2>3, <2>4 DEF DiskType, OwedHasALine, IInv, TypeOK
  <2> QED  BY <1>1, <1>2, <2>5 DEF IInv, TypeOK
<1> QED  BY <1>3, <1>5, <1>6 DEF Interrupted

LEMMA MachineStopsType == IInv /\ MachineStops => IInv'
<1> SUFFICES ASSUME IInv, MachineStops PROVE IInv'
  OBVIOUS
<1>1. WritingType' /\ RunningType' /\ Held' /\ RanIsDone'
  BY GoneType DEF MachineStops
<1>2. CountsType' /\ HistoryType'
  BY OneMoreCrash, HistoryUnchanged DEF MachineStops, IInv, TypeOK
<1>3. PICK left \in Survivors : log' = left[1] /\ end' = left[2]
  BY DEF MachineStops
<1>4. log \in Seq(LineType) /\ Len(log) \in Nat /\ synced \in 0..Len(log)
  BY DEF IInv, TypeOK, DiskType
<1>5. PICK n \in synced..Len(log) :
          /\ left[1] = SubSeq(log, 1, n)
          /\ \/ left[2] \in {"whole", "fragment"}
             \/ left[2] = "unended" /\ n >= synced + 1
  BY <1>4 DEF Survivors
<1>6. SubSeq(log, 1, n) \in Seq(LineType) /\ Len(SubSeq(log, 1, n)) = n
  BY <1>4, <1>5, Beginning
<1>7. synced' \in 0..Len(log')
  BY <1>3, <1>4, <1>5, <1>6 DEF MachineStops
<1>8. end' = "unended" => log' # <<>>
  BY <1>3, <1>4, <1>5, <1>6
<1>9. sidecars' \subseteq Sidecar
  <2>1. \A r \in sidecars : r \in Sidecar /\ [r EXCEPT !.state = "whole"] \in Sidecar
    BY DEF IInv, TypeOK, DiskType, Sidecar
  <2> QED  BY <2>1 DEF MachineStops, SurvivingSidecars
<1>10. DiskType' /\ OwedHasALine'
  BY <1>3, <1>5, <1>6, <1>7, <1>8, <1>9 DEF DiskType, OwedHasALine
<1> QED  BY <1>1, <1>2, <1>10 DEF IInv, TypeOK

(***************************************************************************)
(* Continuing a session.                                                   *)
(***************************************************************************)

LEMMA ReadableType ==
    ASSUME DiskType, OwedHasALine
    PROVE  Readable(log, end) \in Seq(LineType) /\ Len(Readable(log, end)) <= Len(log)
<1>1. log \in Seq(LineType) /\ Len(log) \in Nat
  BY DEF DiskType
<1>2. CASE end = "unended"
  <2>1. Len(log) - 1 \in 0..Len(log)
    BY <1>1, <1>2 DEF OwedHasALine
  <2> QED  BY <1>1, <1>2, <2>1, Beginning DEF Readable
<1> QED  BY <1>1, <1>2 DEF Readable

LEMMA ContinueType == IInv /\ Continue => IInv'
<1> SUFFICES ASSUME IInv, Continue PROVE IInv'
  OBVIOUS
<1> DEFINE f == Readable(log, end)
<1>1. log' = SettledLines(f, sidecars) /\ end' = "whole"
      /\ synced' = IF synced <= Len(log') THEN synced ELSE Len(log')
  BY DEF Continue
<1>2. f \in Seq(LineType)
  BY ReadableType DEF IInv, TypeOK
<1> HIDE DEF f
<1>3. log' \in Seq(LineType) /\ Len(log') \in Nat
  BY <1>1, <1>2, SettledLinesType
<1>4. synced \in Nat
  BY DEF IInv, TypeOK, DiskType
<1>5. synced' \in 0..Len(log')
  BY <1>1, <1>3, <1>4
<1>6. DiskType' /\ OwedHasALine'
  BY <1>1, <1>3, <1>5 DEF Continue, DiskType, OwedHasALine, IInv, TypeOK
<1>7. pc' \in {"recovering", "resyncing", "idle"}
      /\ (UNCHANGED transcript \/ transcript' = Messages(log'))
  BY DEF Continue
<1>8. transcript' \in Seq(Message)
  BY <1>3, <1>7, MessagesType DEF IInv, TypeOK, RunningType
<1>9. WritingType' /\ CountsType' /\ HistoryType'
  BY WritingUnchanged, CountsUnchanged, HistoryUnchanged DEF Continue, IInv, TypeOK
<1>10. RunningType' /\ Held' /\ RanIsDone'
  BY <1>7, <1>8
  DEF Continue, RunningType, Held, RanIsDone, IInv, TypeOK, Opening, history
<1> QED  BY <1>6, <1>9, <1>10 DEF IInv, TypeOK

LEMMA RecoverType == IInv /\ Recover => IInv'
<1> SUFFICES ASSUME IInv, Recover PROVE IInv'
  OBVIOUS
<1>1. Recovered(log, sidecars) \in LineType
  BY RecoveredType DEF IInv, TypeOK, DiskType, Message
<1>2. log \in Seq(LineType) /\ Len(log) \in Nat /\ synced \in 0..Len(log)
  BY DEF IInv, TypeOK, DiskType
<1>3. log' \in Seq(LineType) /\ Len(log') = Len(log) + 1 /\ log' # <<>>
  BY <1>1, <1>2 DEF Recover
<1>4. synced' \in 0..Len(log')
  BY <1>2, <1>3 DEF Recover
<1>5. DiskType' /\ OwedHasALine'
  BY <1>3, <1>4 DEF Recover, DiskType, OwedHasALine, IInv, TypeOK
<1>6. WritingType' /\ CountsType' /\ HistoryType'
  BY WritingUnchanged, CountsUnchanged, HistoryUnchanged DEF Recover, IInv, TypeOK
<1>7. RunningType' /\ Held' /\ RanIsDone'
  BY Moved DEF Recover, history, Opening
<1> QED  BY <1>5, <1>6, <1>7 DEF IInv, TypeOK

LEMMA RecoverFailsType == IInv /\ RecoverFails => IInv'
<1> SUFFICES ASSUME IInv, RecoverFails PROVE IInv'
  OBVIOUS
<1>1. Recovered(log, sidecars) \in LineType
  BY RecoveredType DEF IInv, TypeOK, DiskType, Message
<1>2. PICK left \in Landings(Recovered(log, sidecars)) :
          log' = left.log /\ end' = left.end
  BY DEF RecoverFails
<1>3. /\ log' \in Seq(LineType) /\ Len(log') >= Len(log)
      /\ end' \in {"whole", "unended", "fragment"}
      /\ end' = "unended" => log' # <<>>
  BY <1>1, <1>2, LandingsType DEF IInv, TypeOK
<1>4. synced \in 0..Len(log) /\ Len(log) \in Nat /\ Len(log') \in Nat
  BY <1>3 DEF IInv, TypeOK, DiskType
<1>5. synced' \in 0..Len(log')
  BY <1>3, <1>4 DEF RecoverFails
<1>6. DiskType' /\ OwedHasALine'
  BY <1>3, <1>5 DEF RecoverFails, DiskType, OwedHasALine, IInv, TypeOK
<1>7. CountsType'
  BY OneMoreFault DEF RecoverFails, IInv, TypeOK
<1>8. WritingType' /\ HistoryType'
  BY WritingUnchanged, HistoryUnchanged DEF RecoverFails, IInv, TypeOK
<1>9. RunningType' /\ Held' /\ RanIsDone'
  BY Moved DEF RecoverFails, history, Opening
<1> QED  BY <1>6, <1>7, <1>8, <1>9 DEF IInv, TypeOK

LEMMA ResyncedType == IInv /\ Resynced => IInv'
<1> SUFFICES ASSUME IInv, Resynced PROVE IInv'
  OBVIOUS
<1>1. synced' \in 0..Len(log)
  BY DEF Resynced, SyncAll, IInv, TypeOK, DiskType
<1>2. DiskType' /\ OwedHasALine'
  BY <1>1 DEF Resynced, DiskType, OwedHasALine, IInv, TypeOK
<1>3. WritingType' /\ CountsType' /\ HistoryType'
  BY WritingUnchanged, CountsUnchanged, HistoryUnchanged DEF Resynced, IInv, TypeOK
<1>4. RunningType' /\ Held' /\ RanIsDone'
  BY Moved DEF Resynced, history, Opening
<1> QED  BY <1>2, <1>3, <1>4 DEF IInv, TypeOK

(***************************************************************************)
(* The theorem.                                                            *)
(***************************************************************************)

LEMMA TypeInductive == IInv /\ [Next]_vars => IInv'
<1> SUFFICES ASSUME IInv, [Next]_vars PROVE IInv'
  OBVIOUS
<1>1. CASE UNCHANGED vars
  <2>1. DiskType' /\ OwedHasALine' /\ WritingType' /\ CountsType' /\ HistoryType'
    BY <1>1, DiskUnchanged, WritingUnchanged, CountsUnchanged, HistoryUnchanged
    DEF vars, IInv, TypeOK
  <2>2. RunningType' /\ Held' /\ RanIsDone'
    BY <1>1 DEF vars, running, history, RunningType, Held, RanIsDone, IInv, TypeOK
  <2> QED  BY <2>1, <2>2 DEF IInv, TypeOK
<1>2. CASE Say \/ Recorded \/ TurnEnds \/ \E asked \in SUBSET Calls : ModelAnswers(asked)
  BY <1>2, SayType, RecordedType, TurnEndsType, ModelAnswersType
<1>3. CASE \E c \in DOMAIN st : Start(c) \/ Run(c) \/ Finish(c) \/ Refuse(c) \/ Put(c)
  BY <1>3, StartType, RunType, FinishType, RefuseType, PutType
<1>4. CASE SourceSynced \/ Stored \/ StoringFails \/ PassEnds
  BY <1>4, SourceSyncedType, StoredType, StoringFailsType, PassEndsType
<1>5. CASE SettleLooks \/ SettleSynced \/ (\E r \in sidecars : Remove(r))
           \/ RemovalFails \/ SettleEnds
  BY <1>5, SettleLooksType, SettleSyncedType, RemoveType, RemovalFailsType, SettleEndsType
<1>6. CASE WriterTakes \/ Leave \/ Kill \/ MachineStops
  BY <1>6, WriterTakesType, LeaveType, KillType, MachineStopsType
<1>7. CASE Continue \/ Recover \/ RecoverFails \/ Resynced
  BY <1>7, ContinueType, RecoverType, RecoverFailsType, ResyncedType
<1> QED  BY <1>1, <1>2, <1>3, <1>4, <1>5, <1>6, <1>7 DEF Next

\* Whatever fails, is killed or is lost, in whatever order: the files hold
\* lines, the queue stays within QUEUE, and a receipt is only ever given for a
\* call that ran.
THEOREM TypeCorrect == Spec => []TypeOK
<1>1. IInv => TypeOK
  BY DEF IInv
<1> QED  BY <1>1, TypeInit, TypeInductive, PTL DEF Spec

(***************************************************************************)
(* A line more, and the beginnings of some lines.                          *)
(***************************************************************************)

LEMMA LineMore ==
    ASSUME NEW S, NEW f \in Seq(S), NEW l \in S
    PROVE  /\ Append(f, l) \in Seq(S)
           /\ Len(Append(f, l)) = Len(f) + 1
           /\ Append(f, l)[Len(f) + 1] = l
           /\ \A i \in 1..Len(f) : Append(f, l)[i] = f[i]
OBVIOUS

LEMMA FirstLines ==
    ASSUME NEW S, NEW f \in Seq(S), NEW n \in 0..Len(f)
    PROVE  /\ SubSeq(f, 1, n) \in Seq(S)
           /\ Len(SubSeq(f, 1, n)) = n
           /\ \A i \in 1..n : SubSeq(f, 1, n)[i] = f[i]
OBVIOUS

\* Sequences as long as each other and alike at every place are the same.
LEMMA SameLines ==
    ASSUME NEW S, NEW f \in Seq(S), NEW g \in Seq(S), Len(f) = Len(g),
           \A i \in 1..Len(f) : f[i] = g[i]
    PROVE  f = g
OBVIOUS

LEMMA AllLines ==
    ASSUME NEW S, NEW f \in Seq(S)
    PROVE  SubSeq(f, 1, Len(f)) = f
<1>1. Len(f) \in 0..Len(f)
  OBVIOUS
<1> QED  BY <1>1, FirstLines, SameLines

LEMMA FirstOfMore ==
    ASSUME NEW S, NEW f \in Seq(S), NEW l \in S, NEW n \in 0..Len(f)
    PROVE  SubSeq(Append(f, l), 1, n) = SubSeq(f, 1, n)
<1> DEFINE g == Append(f, l)
<1>1. g \in Seq(S) /\ Len(g) = Len(f) + 1 /\ \A i \in 1..Len(f) : g[i] = f[i]
  BY LineMore
<1>2. n \in 0..Len(g) /\ \A i \in 1..n : i \in 1..Len(f)
  BY <1>1
<1> HIDE DEF g
<1>3. /\ SubSeq(g, 1, n) \in Seq(S) /\ Len(SubSeq(g, 1, n)) = n
      /\ \A i \in 1..n : SubSeq(g, 1, n)[i] = g[i]
  BY <1>1, <1>2, FirstLines
<1>4. /\ SubSeq(f, 1, n) \in Seq(S) /\ Len(SubSeq(f, 1, n)) = n
      /\ \A i \in 1..n : SubSeq(f, 1, n)[i] = f[i]
  BY FirstLines
<1>5. \A i \in 1..n : SubSeq(g, 1, n)[i] = SubSeq(f, 1, n)[i]
  BY <1>1, <1>2, <1>3, <1>4
<1>6. SubSeq(g, 1, n) = SubSeq(f, 1, n)
  BY <1>3, <1>4, <1>5, SameLines
<1> QED  BY <1>6 DEF g

LEMMA FirstOfFirst ==
    ASSUME NEW S, NEW f \in Seq(S), NEW m \in 0..Len(f), NEW n \in 0..m
    PROVE  SubSeq(SubSeq(f, 1, m), 1, n) = SubSeq(f, 1, n)
<1> DEFINE g == SubSeq(f, 1, m)
<1>1. g \in Seq(S) /\ Len(g) = m /\ \A i \in 1..m : g[i] = f[i]
  BY FirstLines
<1>2. n \in 0..Len(g) /\ n \in 0..Len(f) /\ \A i \in 1..n : i \in 1..m
  BY <1>1
<1> HIDE DEF g
<1>3. /\ SubSeq(g, 1, n) \in Seq(S) /\ Len(SubSeq(g, 1, n)) = n
      /\ \A i \in 1..n : SubSeq(g, 1, n)[i] = g[i]
  BY <1>1, <1>2, FirstLines
<1>4. /\ SubSeq(f, 1, n) \in Seq(S) /\ Len(SubSeq(f, 1, n)) = n
      /\ \A i \in 1..n : SubSeq(f, 1, n)[i] = f[i]
  BY <1>2, FirstLines
<1>5. \A i \in 1..n : SubSeq(g, 1, n)[i] = SubSeq(f, 1, n)[i]
  BY <1>1, <1>2, <1>3, <1>4
<1>6. SubSeq(g, 1, n) = SubSeq(f, 1, n)
  BY <1>3, <1>4, <1>5, SameLines
<1> QED  BY <1>6 DEF g

LEMMA OneMore ==
    ASSUME NEW S, NEW f \in Seq(S), NEW n \in 1..Len(f)
    PROVE  SubSeq(f, 1, n) = Append(SubSeq(f, 1, n - 1), f[n])
<1> DEFINE g == SubSeq(f, 1, n)
           h == SubSeq(f, 1, n - 1)
<1>0. n \in 0..Len(f) /\ n - 1 \in 0..Len(f) /\ f[n] \in S
  OBVIOUS
<1>1. g \in Seq(S) /\ Len(g) = n /\ \A i \in 1..n : g[i] = f[i]
  BY <1>0, FirstLines
<1>2. h \in Seq(S) /\ Len(h) = n - 1 /\ \A i \in 1..n - 1 : h[i] = f[i]
  BY <1>0, FirstLines
<1> HIDE DEF g, h
<1>3. /\ Append(h, f[n]) \in Seq(S) /\ Len(Append(h, f[n])) = n
      /\ Append(h, f[n])[n] = f[n]
      /\ \A i \in 1..n - 1 : Append(h, f[n])[i] = h[i]
  BY <1>0, <1>2, LineMore
<1>4. \A i \in 1..n : g[i] = Append(h, f[n])[i]
  BY <1>1, <1>2, <1>3
<1>5. g = Append(h, f[n])
  BY <1>1, <1>3, <1>4, SameLines
<1> QED  BY <1>5 DEF g, h

(***************************************************************************)
(* The last message, and what it asks for.                                 *)
(***************************************************************************)

LEMMA LastIs ==
    ASSUME NEW f \in Seq(LineType), NEW i \in 1..Len(f), IsMessage(f[i]),
           \A j \in (i + 1)..Len(f) : ~IsMessage(f[j])
    PROVE  LastMessage(f) = i
<1>1. \A k \in 1..Len(f) : IsMessage(f[k]) /\ (\A j \in (k + 1)..Len(f) : ~IsMessage(f[j])) => k = i
  <2> SUFFICES ASSUME NEW k \in 1..Len(f), IsMessage(f[k]), k # i,
                      \A j \in (k + 1)..Len(f) : ~IsMessage(f[j])
               PROVE  FALSE
    OBVIOUS
  <2>1. CASE k < i
    <3>1. i \in (k + 1)..Len(f)
      BY <2>1
    <3> QED  BY <3>1
  <2>2. CASE i < k
    <3>1. k \in (i + 1)..Len(f)
      BY <2>2
    <3> QED  BY <3>1
  <2> QED  BY <2>1, <2>2
<1> QED  BY <1>1 DEF LastMessage

LEMMA LastIsLast ==
    ASSUME NEW f \in Seq(LineType)
    PROVE  /\ LastMessage(f) \in 0..Len(f)
           /\ LastMessage(f) > 0 => IsMessage(f[LastMessage(f)])
           /\ \A j \in 1..Len(f) : IsMessage(f[j]) => j <= LastMessage(f)
<1>1. CASE ~ \E i \in 1..Len(f) : IsMessage(f[i])
  BY <1>1 DEF LastMessage
<1>2. CASE \E i \in 1..Len(f) : IsMessage(f[i])
  <2> DEFINE places == {i \in 1..Len(f) : IsMessage(f[i])}
  <2>1. Len(f) \in Nat /\ places \in SUBSET (1..Len(f)) /\ places # {}
    BY <1>2
  <2>2. PICK x \in places : \A y \in places : y <= x
    BY <2>1, Greatest
  <2>3. x \in 1..Len(f) /\ IsMessage(f[x])
    BY <2>2
  <2>4. \A j \in (x + 1)..Len(f) : ~IsMessage(f[j])
    <3> SUFFICES ASSUME NEW j \in (x + 1)..Len(f), IsMessage(f[j]) PROVE FALSE
      OBVIOUS
    <3>1. j \in places /\ ~(j <= x)
      BY <2>3
    <3> QED  BY <2>2, <3>1
  <2>5. LastMessage(f) = x
    BY <2>3, <2>4, LastIs
  <2>6. \A j \in 1..Len(f) : IsMessage(f[j]) => j <= x
    BY <2>2
  <2> QED  BY <2>3, <2>5, <2>6
<1> QED  BY <1>1, <1>2

LEMMA NoLast ==
    ASSUME NEW f \in Seq(LineType), \A i \in 1..Len(f) : ~IsMessage(f[i])
    PROVE  LastMessage(f) = 0
BY DEF LastMessage

LEMMA LastOfMore ==
    ASSUME NEW f \in Seq(LineType), NEW l \in LineType
    PROVE  LastMessage(Append(f, l)) = IF IsMessage(l) THEN Len(f) + 1 ELSE LastMessage(f)
<1> DEFINE g == Append(f, l)
<1>1. /\ g \in Seq(LineType) /\ Len(g) = Len(f) + 1 /\ g[Len(f) + 1] = l
      /\ \A i \in 1..Len(f) : g[i] = f[i]
  BY LineMore
<1>2. Len(f) \in Nat
  OBVIOUS
<1> HIDE DEF g
<1>3. CASE IsMessage(l)
  <2>1. Len(f) + 1 \in 1..Len(g) /\ IsMessage(g[Len(f) + 1])
    BY <1>1, <1>2, <1>3
  <2>2. \A j \in (Len(f) + 1 + 1)..Len(g) : ~IsMessage(g[j])
    BY <1>1, <1>2
  <2>3. LastMessage(g) = Len(f) + 1
    BY <1>1, <2>1, <2>2, LastIs
  <2> QED  BY <1>3, <2>3 DEF g
<1>4. CASE ~IsMessage(l) /\ LastMessage(f) > 0
  <2>1. /\ LastMessage(f) \in 1..Len(f) /\ IsMessage(f[LastMessage(f)])
        /\ \A j \in 1..Len(f) : IsMessage(f[j]) => j <= LastMessage(f)
    BY <1>4, LastIsLast
  <2>2. LastMessage(f) \in 1..Len(g) /\ IsMessage(g[LastMessage(f)])
    BY <1>1, <1>2, <2>1
  <2>3. \A j \in (LastMessage(f) + 1)..Len(g) : ~IsMessage(g[j])
    <3> SUFFICES ASSUME NEW j \in (LastMessage(f) + 1)..Len(g) PROVE ~IsMessage(g[j])
      OBVIOUS
    <3>1. CASE j = Len(f) + 1
      BY <1>1, <1>4, <3>1
    <3>2. CASE j # Len(f) + 1
      <4>1. j \in 1..Len(f) /\ ~(j <= LastMessage(f))
        BY <1>1, <1>2, <2>1, <3>2
      <4> QED  BY <1>1, <2>1, <4>1
    <3> QED  BY <3>1, <3>2
  <2>4. LastMessage(g) = LastMessage(f)
    BY <1>1, <2>2, <2>3, LastIs
  <2> QED  BY <1>4, <2>4 DEF g
<1>5. CASE ~IsMessage(l) /\ ~(LastMessage(f) > 0)
  <2>1. LastMessage(f) = 0 /\ \A j \in 1..Len(f) : IsMessage(f[j]) => j <= LastMessage(f)
    BY <1>5, LastIsLast
  <2>2. \A j \in 1..Len(f) : ~IsMessage(f[j])
    BY <2>1
  <2>3. \A j \in 1..Len(g) : ~IsMessage(g[j])
    <3> SUFFICES ASSUME NEW j \in 1..Len(g) PROVE ~IsMessage(g[j])
      OBVIOUS
    <3>1. j = Len(f) + 1 \/ j \in 1..Len(f)
      BY <1>1, <1>2
    <3> QED  BY <1>1, <1>5, <2>2, <3>1
  <2>4. LastMessage(g) = 0
    BY <1>1, <2>3, NoLast
  <2> QED  BY <1>5, <2>1, <2>4 DEF g
<1> QED  BY <1>3, <1>4, <1>5

LEMMA OutstandingOfMore ==
    ASSUME NEW f \in Seq(LineType), NEW l \in LineType
    PROVE  Outstanding(Append(f, l)) =
              IF IsMessage(l) THEN (IF l.kind = "agent" THEN l.calls ELSE {})
              ELSE Outstanding(f)
<1> DEFINE g == Append(f, l)
<1>1. /\ g \in Seq(LineType) /\ Len(g) = Len(f) + 1 /\ g[Len(f) + 1] = l
      /\ \A i \in 1..Len(f) : g[i] = f[i]
  BY LineMore
<1>2. Len(f) \in Nat /\ LastMessage(g) = IF IsMessage(l) THEN Len(f) + 1 ELSE LastMessage(f)
  BY LastOfMore
<1> HIDE DEF g
<1>3. LastMessage(f) > 0 => g[LastMessage(f)] = f[LastMessage(f)]
  <2>1. LastMessage(f) \in 0..Len(f)
    BY LastIsLast
  <2> QED  BY <1>1, <1>2, <2>1
<1>4. Outstanding(g) = IF IsMessage(l) THEN (IF l.kind = "agent" THEN l.calls ELSE {})
                       ELSE Outstanding(f)
  BY <1>1, <1>2, <1>3 DEF Outstanding
<1> QED  BY <1>4 DEF g

(***************************************************************************)
(* What some lines answer.                                                 *)
(***************************************************************************)

LEMMA Answers ==
    ASSUME NEW f, NEW c, NEW a
    PROVE  <<c, a>> \in AnsweredIn(f) <=>
              \E i \in 1..Len(f) : /\ f[i].kind = "results"
                                   /\ c \in DOMAIN f[i].answers
                                   /\ a = f[i].answers[c]
BY DEF AnsweredIn

LEMMA AnswersArePairs ==
    ASSUME NEW f, NEW p \in AnsweredIn(f)
    PROVE  p = <<p[1], p[2]>>
BY DEF AnsweredIn

LEMMA AnswersOfMore ==
    ASSUME NEW f \in Seq(LineType), NEW l \in LineType, NEW c, NEW a
    PROVE  <<c, a>> \in AnsweredIn(Append(f, l)) <=>
              \/ <<c, a>> \in AnsweredIn(f)
              \/ l.kind = "results" /\ c \in DOMAIN l.answers /\ a = l.answers[c]
<1> DEFINE g == Append(f, l)
<1>1. /\ Len(f) \in Nat /\ Len(g) = Len(f) + 1 /\ g[Len(f) + 1] = l
      /\ \A i \in 1..Len(f) : g[i] = f[i]
  BY LineMore
<1> HIDE DEF g
<1>2. \A i : i \in 1..Len(g) <=> i \in 1..Len(f) \/ i = Len(f) + 1
  BY <1>1
<1>3. <<c, a>> \in AnsweredIn(g) <=>
              \/ <<c, a>> \in AnsweredIn(f)
              \/ l.kind = "results" /\ c \in DOMAIN l.answers /\ a = l.answers[c]
  BY <1>1, <1>2, Answers
<1> QED  BY <1>3 DEF g

\* More lines answer no less.
LEMMA AnswersGrow ==
    ASSUME NEW f \in Seq(LineType), NEW m \in 0..Len(f), NEW n \in 0..m
    PROVE  AnsweredIn(SubSeq(f, 1, n)) \subseteq AnsweredIn(SubSeq(f, 1, m))
<1> DEFINE g == SubSeq(f, 1, n)
           h == SubSeq(f, 1, m)
<1>1. Len(h) = m /\ \A i \in 1..m : h[i] = f[i]
  BY FirstLines
<1>2. n \in 0..Len(f)
  OBVIOUS
<1>3. Len(g) = n /\ \A i \in 1..n : g[i] = f[i]
  BY <1>2, FirstLines
<1>4. \A i \in 1..n : i \in 1..m
  OBVIOUS
<1> HIDE DEF g, h
<1>5. ASSUME NEW p \in AnsweredIn(g) PROVE p \in AnsweredIn(h)
  <2>1. p = <<p[1], p[2]>>
    BY AnswersArePairs
  <2>2. PICK i \in 1..n : /\ f[i].kind = "results" /\ p[1] \in DOMAIN f[i].answers
                          /\ p[2] = f[i].answers[p[1]]
    BY <1>3, <2>1, Answers
  <2>3. <<p[1], p[2]>> \in AnsweredIn(h)
    BY <1>1, <1>4, <2>2, Answers
  <2> QED  BY <2>1, <2>3
<1> QED  BY <1>5 DEF g, h

LEMMA AnswersOfFirst ==
    ASSUME NEW f \in Seq(LineType), NEW n \in 0..Len(f)
    PROVE  AnsweredIn(SubSeq(f, 1, n)) \subseteq AnsweredIn(f)
<1>1. Len(f) \in 0..Len(f) /\ n \in 0..Len(f)
  OBVIOUS
<1> QED  BY <1>1, AnswersGrow, AllLines

\* What a replay cuts off answers nothing.
LEMMA AnswersKept ==
    ASSUME NEW f \in Seq(LineType), NEW s
    PROVE  AnsweredIn(SettledLines(f, s)) = AnsweredIn(f)
<1>1. CASE ~(Outstanding(f) # {} /\ ~Recovers(f, s))
  BY <1>1 DEF SettledLines
<1>2. CASE Outstanding(f) # {} /\ ~Recovers(f, s)
  <2> DEFINE last == LastMessage(f)
             g == SubSeq(f, 1, last - 1)
  <2>1. /\ last \in 1..Len(f) /\ f[last].kind = "agent"
        /\ \A j \in 1..Len(f) : IsMessage(f[j]) => j <= last
    <3>1. last > 0 /\ f[last].kind = "agent"
      BY <1>2 DEF Outstanding
    <3> QED  BY <3>1, LastIsLast
  <2> HIDE DEF last
  <2>2. last - 1 \in 0..Len(f)
    BY <2>1
  <2>3. Len(g) = last - 1 /\ \A i \in 1..last - 1 : g[i] = f[i]
    BY <2>2, FirstLines
  <2>4. AnsweredIn(g) \subseteq AnsweredIn(f)
    BY <2>2, AnswersOfFirst
  <2>5. ASSUME NEW p \in AnsweredIn(f) PROVE p \in AnsweredIn(g)
    <3>1. p = <<p[1], p[2]>>
      BY AnswersArePairs
    <3>2. PICK i \in 1..Len(f) : /\ f[i].kind = "results" /\ p[1] \in DOMAIN f[i].answers
                                 /\ p[2] = f[i].answers[p[1]]
      BY <3>1, Answers
    <3>3. i <= last /\ i # last
      BY <2>1, <3>2 DEF IsMessage
    <3>4. i \in 1..last - 1
      BY <2>1, <3>3
    <3>5. <<p[1], p[2]>> \in AnsweredIn(g)
      <4> HIDE DEF g
      <4> QED  BY <2>3, <3>2, <3>4, Answers
    <3> QED  BY <3>1, <3>5
  <2>6. SettledLines(f, s) = g
    BY <1>2 DEF SettledLines, last
  <2> QED  BY <2>4, <2>5, <2>6
<1> QED  BY <1>1, <1>2

(***************************************************************************)
(* The messages of some lines.                                             *)
(***************************************************************************)

\* Where the messages of some lines are, and which of them is the n-th.
Places(f) == {i \in 1..Len(f) : IsMessage(f[i])}
Nth(P, n) == CHOOSE i \in P : Cardinality({j \in P : j <= i}) = n

LEMMA MessagesAt ==
    ASSUME NEW f \in Seq(LineType)
    PROVE  /\ Messages(f) \in Seq(Message)
           /\ Places(f) \in SUBSET (1..Len(f)) /\ IsFiniteSet(Places(f))
           /\ Cardinality(Places(f)) \in Nat
           /\ Len(Messages(f)) = Cardinality(Places(f))
           /\ Messages(f) = [n \in 1..Cardinality(Places(f)) |-> f[Nth(Places(f), n)]]
           /\ \A n \in 1..Len(Messages(f)) :
                 /\ Nth(Places(f), n) \in Places(f)
                 /\ Cardinality({j \in Places(f) : j <= Nth(Places(f), n)}) = n
                 /\ Messages(f)[n] = f[Nth(Places(f), n)]
<1> DEFINE P == Places(f)
<1>1. Len(f) \in Nat /\ P \in SUBSET (1..Len(f))
  BY DEF Places
<1>2. Messages(f) = [n \in 1..Cardinality(P) |-> f[Nth(P, n)]]
  BY DEF Messages, Places, Nth
<1>3. Messages(f) \in Seq(Message)
  BY MessagesType
<1> HIDE DEF P
<1>4. /\ IsFiniteSet(P) /\ Cardinality(P) \in Nat
      /\ \A n \in 1..Cardinality(P) : \E i \in P : Cardinality({j \in P : j <= i}) = n
  BY <1>1, NthPlace
<1>5. \A n \in 1..Cardinality(P) : Nth(P, n) \in P /\ Cardinality({j \in P : j <= Nth(P, n)}) = n
  BY <1>4 DEF Nth
<1>6. DOMAIN Messages(f) = 1..Cardinality(P)
  BY <1>2
<1>7. Len(Messages(f)) = Cardinality(P)
  BY <1>3, <1>4, <1>6
<1> QED  BY <1>1, <1>2, <1>3, <1>4, <1>5, <1>7 DEF P

LEMMA MessagesAlike ==
    ASSUME NEW f \in Seq(LineType), NEW g \in Seq(LineType), Len(f) <= Len(g),
           \A i \in 1..Len(f) : g[i] = f[i],
           \A i \in (Len(f) + 1)..Len(g) : ~IsMessage(g[i])
    PROVE  Messages(g) = Messages(f)
<1>0. Len(f) \in Nat /\ Len(g) \in Nat
  OBVIOUS
<1>1. Places(g) = Places(f)
  <2>1. ASSUME NEW i \in Places(g) PROVE i \in Places(f)
    <3>1. i \in 1..Len(g) /\ IsMessage(g[i])
      BY DEF Places
    <3>2. i \notin (Len(f) + 1)..Len(g)
      BY <3>1
    <3>3. i \in 1..Len(f)
      BY <1>0, <3>1, <3>2
    <3> QED  BY <3>1, <3>3 DEF Places
  <2>2. ASSUME NEW i \in Places(f) PROVE i \in Places(g)
    <3>1. i \in 1..Len(f) /\ IsMessage(f[i])
      BY DEF Places
    <3>2. i \in 1..Len(g)
      BY <1>0, <3>1
    <3> QED  BY <3>1, <3>2 DEF Places
  <2> QED  BY <2>1, <2>2
<1> DEFINE P == Places(f)
           C == Cardinality(P)
<1>2. /\ Messages(f) = [n \in 1..C |-> f[Nth(P, n)]]
      /\ \A n \in 1..C : Nth(P, n) \in 1..Len(f)
  BY MessagesAt
<1>3. Messages(g) = [n \in 1..C |-> g[Nth(P, n)]]
  BY <1>1, MessagesAt
<1> HIDE DEF P, C
<1>4. \A n \in 1..C : g[Nth(P, n)] = f[Nth(P, n)]
  BY <1>2
<1> QED  BY <1>2, <1>3, <1>4

LEMMA MessagesOfMore ==
    ASSUME NEW f \in Seq(LineType), NEW l \in LineType
    PROVE  Messages(Append(f, l)) = IF IsMessage(l) THEN Append(Messages(f), l) ELSE Messages(f)
<1> DEFINE g == Append(f, l)
           last == Len(f) + 1
           P == Places(f)
           Q == Places(g)
           C == Cardinality(P)
<1>1. /\ Len(f) \in Nat /\ g \in Seq(LineType) /\ Len(g) = last /\ g[last] = l
      /\ \A i \in 1..Len(f) : g[i] = f[i]
  BY LineMore
<1> HIDE DEF g
<1>2. CASE ~IsMessage(l)
  <2>1. Len(f) <= Len(g) /\ \A i \in (Len(f) + 1)..Len(g) : ~IsMessage(g[i])
    BY <1>1, <1>2
  <2>2. Messages(g) = Messages(f)
    BY <1>1, <2>1, MessagesAlike
  <2> QED  BY <1>2, <2>2 DEF g
<1>3. CASE IsMessage(l)
  <2>1. Q = P \union {last}
    <3>1. \A i : i \in 1..Len(g) <=> i \in 1..Len(f) \/ i = last
      BY <1>1
    <3> QED  BY <1>1, <1>3, <3>1 DEF Places
  <2>2. /\ P \in SUBSET (1..Len(f)) /\ IsFiniteSet(P) /\ C \in Nat
        /\ Messages(f) \in Seq(Message) /\ Len(Messages(f)) = C
        /\ Messages(f) = [n \in 1..C |-> f[Nth(P, n)]]
        /\ \A n \in 1..C : Nth(P, n) \in P /\ Cardinality({j \in P : j <= Nth(P, n)}) = n
    BY MessagesAt
  <2>3. /\ Messages(g) \in Seq(Message) /\ Len(Messages(g)) = Cardinality(Q)
        /\ \A n \in 1..Cardinality(Q) :
              /\ Nth(Q, n) \in Q
              /\ Cardinality({j \in Q : j <= Nth(Q, n)}) = n
              /\ Messages(g)[n] = g[Nth(Q, n)]
    BY <1>1, MessagesAt
  <2> HIDE DEF P, Q
  <2>4. last \notin P /\ \A j \in P : j \in Nat /\ j <= Len(f)
    BY <1>1, <2>2
  <2> HIDE DEF last
  <2>5. Cardinality(Q) = C + 1
    BY <2>1, <2>2, <2>4, FS_AddElement
  <2>6. last = Len(f) + 1
    BY DEF last
  <2>7. \A i \in P : {j \in Q : j <= i} = {j \in P : j <= i}
    <3>1. \A i \in P : ~(last <= i)
      BY <1>1, <2>4, <2>6
    <3> QED  BY <2>1, <3>1
  <2>8. {j \in Q : j <= last} = Q
    BY <1>1, <2>1, <2>4, <2>6
  <2>9. ASSUME NEW i \in P
        PROVE  Cardinality({j \in P : j <= i}) \in Nat /\ Cardinality({j \in P : j <= i}) <= C
    <3>1. {j \in P : j <= i} \in SUBSET P
      OBVIOUS
    <3> QED  BY <2>2, <3>1, FS_Subset, FS_CardinalityType
  <2> DEFINE more == Append(Messages(f), l)
  <2>10. /\ more \in Seq(Message) /\ Len(more) = C + 1 /\ more[C + 1] = l
         /\ \A n \in 1..C : more[n] = Messages(f)[n]
    <3>1. l \in Message
      BY <1>3 DEF Message
    <3> QED  BY <2>2, <3>1, LineMore
  <2> HIDE DEF more, C
  <2>11. ASSUME NEW n \in 1..C + 1 PROVE Messages(g)[n] = more[n]
    <3>1. /\ Nth(Q, n) \in Q /\ Cardinality({j \in Q : j <= Nth(Q, n)}) = n
          /\ Messages(g)[n] = g[Nth(Q, n)]
      BY <2>3, <2>5
    <3>2. CASE n = C + 1
      <4>1. Nth(Q, n) \notin P
        <5> SUFFICES ASSUME Nth(Q, n) \in P PROVE FALSE
          OBVIOUS
        <5> DEFINE k == Nth(Q, n)
                   upto == Cardinality({j \in P : j <= k})
        <5> HIDE DEF k
        <5>1. k \in P
          BY DEF k
        <5>2. {j \in Q : j <= k} = {j \in P : j <= k}
          BY <2>7, <5>1
        <5>3. upto = n
          BY <3>1, <5>2 DEF k
        <5>4. upto \in Nat /\ upto <= C
          BY <2>9, <5>1
        <5> HIDE DEF upto
        <5> QED  BY <2>2, <3>2, <5>3, <5>4
      <4>2. Nth(Q, n) = last
        BY <2>1, <3>1, <4>1
      <4> QED  BY <1>1, <2>6, <2>10, <3>1, <3>2, <4>2
    <3>3. CASE n # C + 1
      <4>1. n \in 1..C
        BY <2>2, <3>3
      <4>2. \A i \in Q : Cardinality({j \in Q : j <= i}) = n
                           <=> i \in P /\ Cardinality({j \in P : j <= i}) = n
        <5> SUFFICES ASSUME NEW i \in Q
                     PROVE  Cardinality({j \in Q : j <= i}) = n
                              <=> i \in P /\ Cardinality({j \in P : j <= i}) = n
          OBVIOUS
        <5>1. CASE i \in P
          <6>1. {j \in Q : j <= i} = {j \in P : j <= i}
            BY <2>7, <5>1
          <6> QED  BY <5>1, <6>1
        <5>2. CASE i \notin P
          <6>1. i = last
            BY <2>1, <5>2
          <6>2. Cardinality({j \in Q : j <= i}) = C + 1
            BY <2>5, <2>8, <6>1
          <6> QED  BY <3>3, <5>2, <6>2
        <5> QED  BY <5>1, <5>2
      <4>3. (CHOOSE i \in Q : Cardinality({j \in Q : j <= i}) = n)
               = (CHOOSE i \in P : Cardinality({j \in P : j <= i}) = n)
        <5>1. \A i : i \in Q /\ Cardinality({j \in Q : j <= i}) = n
                       <=> i \in P /\ Cardinality({j \in P : j <= i}) = n
          BY <2>1, <4>2
        <5> QED  BY <5>1
      <4>4. Nth(Q, n) = Nth(P, n)
        BY <4>3 DEF Nth
      <4>5. Nth(P, n) \in 1..Len(f)
        BY <2>2, <4>1
      <4>6. Messages(f)[n] = f[Nth(P, n)]
        BY <2>2, <4>1
      <4> QED  BY <1>1, <2>10, <3>1, <4>1, <4>4, <4>5, <4>6
    <3> QED  BY <3>2, <3>3
  <2>12. Messages(g) = more
    BY <2>3, <2>5, <2>10, <2>11, SameLines
  <2> QED  BY <1>3, <2>12 DEF g, more
<1> QED  BY <1>2, <1>3

LEMMA NoMessages == Messages(<<>>) = <<>>
<1>1. <<>> \in Seq(LineType) /\ Len(<<>>) = 0
  BY EmptySequence
<1>2. Places(<<>>) = {}
  BY <1>1 DEF Places
<1>3. Messages(<<>>) \in Seq(Message) /\ Len(Messages(<<>>)) = 0
  BY <1>1, <1>2, MessagesAt, FS_EmptySet
<1> QED  BY <1>3

LEMMA PrefixSelf ==
    ASSUME NEW S, NEW s \in Seq(S)
    PROVE  IsPrefixOf(s, s)
BY AllLines DEF IsPrefixOf

LEMMA PrefixOfMore ==
    ASSUME NEW S, NEW s \in Seq(S), NEW t \in Seq(S), NEW e \in S, IsPrefixOf(s, t)
    PROVE  IsPrefixOf(s, Append(t, e))
<1>1. Len(s) \in 0..Len(t) /\ s = SubSeq(t, 1, Len(s))
  BY DEF IsPrefixOf
<1>2. Len(Append(t, e)) = Len(t) + 1 /\ SubSeq(Append(t, e), 1, Len(s)) = SubSeq(t, 1, Len(s))
  BY <1>1, FirstOfMore, LineMore
<1> HIDE DEF IsPrefixOf
<1>3. Len(s) <= Len(Append(t, e))
  BY <1>1, <1>2
<1> QED  BY <1>1, <1>2, <1>3 DEF IsPrefixOf

LEMMA PrefixTransitive ==
    ASSUME NEW S, NEW s \in Seq(S), NEW t \in Seq(S), NEW u \in Seq(S),
           IsPrefixOf(s, t), IsPrefixOf(t, u)
    PROVE  IsPrefixOf(s, u)
<1>1. Len(s) \in 0..Len(t) /\ s = SubSeq(t, 1, Len(s))
  BY DEF IsPrefixOf
<1>2. Len(t) \in 0..Len(u) /\ t = SubSeq(u, 1, Len(t))
  BY DEF IsPrefixOf
<1>3. SubSeq(SubSeq(u, 1, Len(t)), 1, Len(s)) = SubSeq(u, 1, Len(s))
  BY <1>1, <1>2, FirstOfFirst
<1>4. s = SubSeq(u, 1, Len(s))
  BY <1>1, <1>2, <1>3
<1>5. Len(s) <= Len(u)
  BY <1>1, <1>2
<1> QED  BY <1>4, <1>5 DEF IsPrefixOf

LEMMA PrefixShorter ==
    ASSUME NEW S, NEW s \in Seq(S), NEW n \in 0..Len(s)
    PROVE  IsPrefixOf(SubSeq(s, 1, n), s)
<1>1. Len(SubSeq(s, 1, n)) = n /\ n <= Len(s)
  BY FirstLines
<1> QED  BY <1>1 DEF IsPrefixOf

LEMMA PrefixOneLess ==
    ASSUME NEW S, NEW s \in Seq(S), NEW e \in S
    PROVE  IsPrefixOf(s, Append(s, e))
BY PrefixSelf, PrefixOfMore

\* The messages of a beginning are a beginning of the messages.
LEMMA MessagesOfFirst ==
    ASSUME NEW f \in Seq(LineType), NEW n \in 0..Len(f)
    PROVE  IsPrefixOf(Messages(SubSeq(f, 1, n)), Messages(f))
<1> DEFINE good(k) == IsPrefixOf(Messages(SubSeq(f, 1, k)), Messages(f))
           T == {k \in 1..Len(f) : ~good(k - 1)}
<1>0. Len(f) \in Nat /\ Messages(f) \in Seq(Message)
  BY MessagesType
<1>1. good(Len(f))
  BY <1>0, AllLines, PrefixSelf
<1>2. T = {}
  <2> SUFFICES ASSUME T # {} PROVE FALSE
    OBVIOUS
  <2>1. PICK x \in T : \A y \in T : y <= x
    <3>1. T \in SUBSET (1..Len(f))
      OBVIOUS
    <3> HIDE DEF T
    <3> QED  BY <1>0, <3>1, Greatest
  <2>2. x \in 1..Len(f) /\ ~good(x - 1)
    OBVIOUS
  <2>3. good(x)
    <3>1. CASE x = Len(f)
      BY <1>1, <3>1
    <3>2. CASE x # Len(f)
      <4>1. x + 1 \in 1..Len(f) /\ ~(x + 1 <= x) /\ x + 1 - 1 = x
        BY <1>0, <2>2, <3>2
      <4>2. x + 1 \notin T
        BY <2>1, <4>1
      <4> HIDE DEF good
      <4> QED  BY <4>1, <4>2
    <3> QED  BY <3>1, <3>2
  <2> DEFINE g == SubSeq(f, 1, x - 1)
  <2>4. f[x] \in LineType /\ x - 1 \in 0..Len(f) /\ SubSeq(f, 1, x) = Append(g, f[x])
    BY <1>0, <2>2, OneMore
  <2>5. g \in Seq(LineType)
    BY <2>4, FirstLines
  <2> HIDE DEF g
  <2>6. Messages(g) \in Seq(Message) /\ Messages(Append(g, f[x])) \in Seq(Message)
    BY <2>4, <2>5, MessagesType, LineMore
  <2>7. IsPrefixOf(Messages(g), Messages(Append(g, f[x])))
    <3>1. CASE IsMessage(f[x])
      <4>1. f[x] \in Message /\ Messages(Append(g, f[x])) = Append(Messages(g), f[x])
        BY <2>4, <2>5, <3>1, MessagesOfMore DEF Message
      <4> QED  BY <2>6, <4>1, PrefixOneLess
    <3>2. CASE ~IsMessage(f[x])
      <4>1. Messages(Append(g, f[x])) = Messages(g)
        BY <2>4, <2>5, <3>2, MessagesOfMore
      <4> QED  BY <2>6, <4>1, PrefixSelf
    <3> QED  BY <3>1, <3>2
  <2>8. IsPrefixOf(Messages(Append(g, f[x])), Messages(f))
    BY <2>3, <2>4
  <2>9. IsPrefixOf(Messages(g), Messages(f))
    BY <1>0, <2>6, <2>7, <2>8, PrefixTransitive
  <2> QED  BY <2>2, <2>9 DEF g
<1>3. CASE n = Len(f)
  BY <1>1, <1>3
<1>4. CASE n # Len(f)
  <2>1. n + 1 \in 1..Len(f) /\ n + 1 - 1 = n
    BY <1>0, <1>4
  <2>2. n + 1 \notin T
    BY <1>2
  <2> HIDE DEF good
  <2>3. good(n)
    BY <2>1, <2>2
  <2> QED  BY <2>3 DEF good
<1> QED  BY <1>3, <1>4

\* All of the messages are those up to the last, and it is the last of them.
LEMMA MessagesUpToLast ==
    ASSUME NEW f \in Seq(LineType), LastMessage(f) > 0
    PROVE  LET last == LastMessage(f)
           IN  /\ last \in 1..Len(f) /\ f[last] \in Message
               /\ Messages(SubSeq(f, 1, last - 1)) \in Seq(Message)
               /\ Messages(f) = Append(Messages(SubSeq(f, 1, last - 1)), f[last])
<1> DEFINE last == LastMessage(f)
           g == SubSeq(f, 1, last)
           h == SubSeq(f, 1, last - 1)
<1>1. /\ last \in 1..Len(f) /\ IsMessage(f[last])
      /\ \A j \in 1..Len(f) : IsMessage(f[j]) => j <= last
  BY LastIsLast
<1> HIDE DEF last
<1>2. last \in 0..Len(f) /\ last - 1 \in 0..Len(f) /\ f[last] \in LineType
  BY <1>1
<1>3. g \in Seq(LineType) /\ Len(g) = last /\ \A i \in 1..last : g[i] = f[i]
  BY <1>2, FirstLines
<1>4. h \in Seq(LineType) /\ g = Append(h, f[last])
  BY <1>1, <1>2, FirstLines, OneMore
<1> HIDE DEF g, h
<1>5. Messages(f) = Messages(g)
  <2>1. Len(g) <= Len(f) /\ \A i \in 1..Len(g) : f[i] = g[i]
    BY <1>2, <1>3
  <2>2. \A i \in (Len(g) + 1)..Len(f) : ~IsMessage(f[i])
    <3> SUFFICES ASSUME NEW i \in (Len(g) + 1)..Len(f) PROVE ~IsMessage(f[i])
      OBVIOUS
    <3>1. i \in 1..Len(f) /\ ~(i <= last)
      BY <1>2, <1>3
    <3> QED  BY <1>1, <3>1
  <2> QED  BY <1>3, <2>1, <2>2, MessagesAlike
<1>6. Messages(g) = Append(Messages(h), f[last]) /\ f[last] \in Message
  BY <1>1, <1>2, <1>4, MessagesOfMore DEF Message
<1>7. Messages(h) \in Seq(Message)
  BY <1>4, MessagesType
<1> QED  BY <1>1, <1>5, <1>6, <1>7 DEF last, g, h

\* Messages alone: the last of them is the last.
LEMMA AllMessages ==
    ASSUME NEW t \in Seq(Message)
    PROVE  /\ t \in Seq(LineType)
           /\ LastMessage(t) = Len(t)
           /\ Outstanding(t) = IF t # <<>> /\ t[Len(t)].kind = "agent" THEN t[Len(t)].calls ELSE {}
<1>1. t \in Seq(LineType) /\ Len(t) \in Nat /\ \A i \in 1..Len(t) : t[i] \in Message
  <2>1. Message \subseteq LineType
    BY DEF Message
  <2>2. Len(t) \in Nat /\ \A i \in 1..Len(t) : t[i] \in Message
    OBVIOUS
  <2>3. t \in [1..Len(t) -> LineType]
    BY <2>1, <2>2
  <2> QED  BY <2>2, <2>3
<1>2. CASE t = <<>>
  <2>1. Len(t) = 0
    BY <1>2
  <2>2. LastMessage(t) = 0
    <3>1. \A i \in 1..Len(t) : ~IsMessage(t[i])
      BY <2>1
    <3> HIDE <1>2
    <3> QED  BY <1>1, <3>1, NoLast
  <2> QED  BY <1>1, <1>2, <2>1, <2>2 DEF Outstanding
<1>3. CASE t # <<>>
  <2>1. Len(t) \in 1..Len(t)
    BY <1>1, <1>3
  <2>2. IsMessage(t[Len(t)]) /\ \A j \in (Len(t) + 1)..Len(t) : ~IsMessage(t[j])
    BY <1>1, <2>1 DEF Message
  <2>3. LastMessage(t) = Len(t)
    BY <1>1, <2>1, <2>2, LastIs
  <2> QED  BY <1>1, <1>3, <2>1, <2>3 DEF Outstanding
<1> QED  BY <1>2, <1>3

LEMMA SameOutstanding ==
    ASSUME NEW f \in Seq(LineType)
    PROVE  Outstanding(Messages(f)) = Outstanding(f)
<1>1. Messages(f) \in Seq(Message)
  BY MessagesType
<1>2. CASE LastMessage(f) > 0
  <2> DEFINE last == LastMessage(f)
             m == Messages(SubSeq(f, 1, last - 1))
  <2>1. f[last] \in Message /\ m \in Seq(Message) /\ Messages(f) = Append(m, f[last])
    BY <1>2, MessagesUpToLast
  <2> HIDE DEF m
  <2>2. Len(Messages(f)) = Len(m) + 1 /\ Messages(f)[Len(m) + 1] = f[last] /\ Len(m) \in Nat
    BY <2>1, LineMore
  <2>3. Messages(f) # <<>>
    BY <2>2
  <2> QED  BY <1>1, <1>2, <2>2, <2>3, AllMessages DEF Outstanding
<1>3. CASE ~(LastMessage(f) > 0)
  <2>1. LastMessage(f) = 0 /\ \A j \in 1..Len(f) : IsMessage(f[j]) => j <= LastMessage(f)
    BY <1>3, LastIsLast
  <2>2. Places(f) = {}
    BY <2>1 DEF Places
  <2>3. Len(Messages(f)) = 0
    BY <2>2, MessagesAt, FS_EmptySet
  <2>4. Messages(f) = <<>>
    BY <1>1, <2>3
  <2> QED  BY <1>1, <1>3, <2>4, AllMessages DEF Outstanding
<1> QED  BY <1>2, <1>3

LEMMA OutstandingOfMessages ==
    ASSUME NEW t \in Seq(Message), NEW m \in Message
    PROVE  Outstanding(Append(t, m)) = IF m.kind = "agent" THEN m.calls ELSE {}
<1>1. t \in Seq(LineType) /\ m \in LineType /\ IsMessage(m)
  BY AllMessages DEF Message
<1> QED  BY <1>1, OutstandingOfMore

(***************************************************************************)
(* What a reader finds.                                                    *)
(***************************************************************************)

LEMMA ReadableIs ==
    ASSUME NEW f \in Seq(LineType), NEW e, e = "unended" => f # <<>>
    PROVE  /\ e # "unended" => Readable(f, e) = f
           /\ e = "unended" => /\ Len(f) - 1 \in 0..Len(f)
                               /\ Readable(f, e) = SubSeq(f, 1, Len(f) - 1)
<1>1. CASE e = "unended"
  <2>1. Len(f) - 1 \in 0..Len(f)
    BY <1>1
  <2> QED  BY <1>1, <2>1 DEF Readable
<1> QED  BY <1>1 DEF Readable

\* A line that landed, but for its newline, is not read.
LEMMA ReadableUnended ==
    ASSUME NEW f \in Seq(LineType), NEW l \in LineType
    PROVE  Readable(Append(f, l), "unended") = f
<1>1. Append(f, l) \in Seq(LineType) /\ Len(Append(f, l)) - 1 = Len(f) /\ Len(f) \in 0..Len(f)
  <2>1. Len(f) \in Nat /\ Len(Append(f, l)) = Len(f) + 1
    BY LineMore
  <2> QED  BY <2>1, LineMore
<1>2. SubSeq(Append(f, l), 1, Len(f)) = f
  BY <1>1, FirstOfMore, AllLines
<1> QED  BY <1>1, <1>2 DEF Readable

LEMMA SettledIsFirst ==
    ASSUME NEW f \in Seq(LineType), NEW s
    PROVE  /\ SettledLines(f, s) \in Seq(LineType)
           /\ \E n \in 0..Len(f) : SettledLines(f, s) = SubSeq(f, 1, n)
<1>1. CASE Outstanding(f) # {} /\ ~Recovers(f, s)
  <2>1. LastMessage(f) - 1 \in 0..Len(f)
    <3>1. LastMessage(f) > 0
      BY <1>1 DEF Outstanding
    <3> QED  BY <3>1, LastMessageType
  <2>2. SettledLines(f, s) = SubSeq(f, 1, LastMessage(f) - 1)
    BY <1>1 DEF SettledLines
  <2> QED  BY <2>1, <2>2, FirstLines
<1>2. CASE ~(Outstanding(f) # {} /\ ~Recovers(f, s))
  <2>1. SettledLines(f, s) = f /\ Len(f) \in 0..Len(f)
    BY <1>2 DEF SettledLines
  <2> QED  BY <2>1, AllLines
<1> QED  BY <1>1, <1>2

(***************************************************************************)
(* Only the loss of the machine takes back an answer.                      *)
(***************************************************************************)

LEMMA LandingsAre ==
    ASSUME NEW l, NEW left \in Landings(l)
    PROVE  \/ left = [log |-> log, end |-> "fragment", bad |-> FALSE] /\ end = "fragment"
           \/ left = [log |-> Append(log, l), end |-> "whole", bad |-> FALSE] /\ end # "fragment"
           \/ /\ left = [log |-> Append(log, l), end |-> "unended", bad |-> TRUE]
              /\ end # "fragment" /\ "newline" \in Faults
           \/ /\ left = [log |-> log, end |-> "unended", bad |-> TRUE]
              /\ end = "unended" /\ "newline" \in Faults
           \/ /\ left = [log |-> log, end |-> "whole", bad |-> TRUE]
              /\ end # "fragment" /\ "nothing" \in Faults
           \/ /\ left = [log |-> log, end |-> "fragment", bad |-> TRUE]
              /\ end # "fragment" /\ "fragment" \in Faults
BY DEF Landings

LEMMA LandingAnswers ==
    ASSUME DiskType, OwedHasALine, NEW l \in LineType, NEW left \in Landings(l)
    PROVE  AnsweredIn(Readable(log, end)) \subseteq AnsweredIn(Readable(left.log, left.end))
<1>1. log \in Seq(LineType) /\ Append(log, l) \in Seq(LineType) /\ (end = "unended" => log # <<>>)
  BY LineMore DEF DiskType, OwedHasALine
<1>2. AnsweredIn(Readable(log, end)) \subseteq AnsweredIn(log)
  <2>1. CASE end = "unended"
    BY <1>1, <2>1, ReadableIs, AnswersOfFirst
  <2> QED  BY <1>1, <2>1, ReadableIs
<1>3. AnsweredIn(log) \subseteq AnsweredIn(Append(log, l))
  <2>1. Len(log) \in 0..Len(Append(log, l)) /\ SubSeq(Append(log, l), 1, Len(log)) = log
    <3>1. Len(log) \in 0..Len(log) /\ Len(Append(log, l)) = Len(log) + 1
      BY <1>1, LineMore
    <3>2. SubSeq(Append(log, l), 1, Len(log)) = SubSeq(log, 1, Len(log))
      BY <1>1, <3>1, FirstOfMore
    <3>3. SubSeq(log, 1, Len(log)) = log
      BY <1>1, AllLines
    <3> QED  BY <3>1, <3>2, <3>3
  <2>2. AnsweredIn(SubSeq(Append(log, l), 1, Len(log))) \subseteq AnsweredIn(Append(log, l))
    BY <1>1, <2>1, AnswersOfFirst
  <2> QED  BY <2>1, <2>2
<1>4. CASE left.log = log /\ left.end = end
  BY <1>4
<1>5. CASE left.log = log /\ left.end \in {"whole", "fragment"}
  <2>1. Readable(left.log, left.end) = log
    BY <1>1, <1>5, ReadableIs
  <2> QED  BY <1>2, <2>1
<1>6. CASE left.log = Append(log, l) /\ left.end = "whole"
  <2>1. Readable(left.log, left.end) = Append(log, l)
    BY <1>1, <1>6, ReadableIs
  <2> QED  BY <1>2, <1>3, <2>1
<1>7. CASE left.log = Append(log, l) /\ left.end = "unended"
  <2>1. Readable(left.log, left.end) = log
    BY <1>1, <1>7, ReadableUnended
  <2> QED  BY <1>2, <2>1
<1> QED  BY <1>4, <1>5, <1>6, <1>7, LandingsAre

\* Which steps write to the log.
LEMMA LogStays ==
    ASSUME [Next]_vars, ~WriterTakes, ~Kill, ~MachineStops, ~Continue, ~Recover, ~RecoverFails
    PROVE  UNCHANGED <<log, end>>
<1>1. CASE UNCHANGED vars
  BY <1>1 DEF vars, disk
<1>2. CASE Say \/ Recorded \/ TurnEnds \/ \E asked \in SUBSET Calls : ModelAnswers(asked)
  BY <1>2 DEF Say, Recorded, TurnEnds, ModelAnswers, Record, disk
<1>3. CASE \E c \in DOMAIN st : Start(c) \/ Run(c) \/ Finish(c) \/ Refuse(c) \/ Put(c)
  BY <1>3 DEF Start, Run, Finish, Refuse, Put, disk
<1>4. CASE SourceSynced \/ Stored \/ StoringFails \/ PassEnds
  BY <1>4 DEF SourceSynced, Stored, StoringFails, PassEnds, Record, disk
<1>5. CASE SettleLooks \/ SettleSynced \/ (\E r \in sidecars : Remove(r))
           \/ RemovalFails \/ SettleEnds
  BY <1>5 DEF SettleLooks, SettleSynced, Remove, RemovalFails, SettleEnds, disk
<1>6. CASE Leave \/ Resynced
  BY <1>6 DEF Leave, Resynced, disk
<1> QED  BY <1>1, <1>2, <1>3, <1>4, <1>5, <1>6 DEF Next

\* The head of a queue with something in it.
LEMMA HeadOfQueue ==
    ASSUME WritingType, queue # <<>>
    PROVE  /\ Head(queue) \in RequestType
           /\ Head(queue) # Barrier => Head(queue).line \in LineType
           /\ Len(queue) \in Nat /\ 1 \in 1..Len(queue) /\ Head(queue) = queue[1]
           /\ Tail(queue) \in Seq(RequestType) /\ Len(Tail(queue)) = Len(queue) - 1
           /\ \A i \in 1..Len(queue) - 1 : Tail(queue)[i] = queue[i + 1]
<1>1. queue \in Seq(RequestType) /\ queue # <<>>
  BY DEF WritingType
<1>2. Head(queue) \in RequestType
  BY <1>1, Taken
<1>3. Head(queue) # Barrier => Head(queue).line \in LineType
  BY <1>2 DEF RequestType
<1> QED  BY <1>1, <1>2, <1>3

LEMMA AnswersStep ==
    ASSUME IInv, [Next]_vars, ~MachineStops
    PROVE  AnsweredIn(Readable(log, end)) \subseteq AnsweredIn(Readable(log', end'))
<1>0. /\ log \in Seq(LineType) /\ (end = "unended" => log # <<>>)
      /\ DiskType /\ OwedHasALine /\ WritingType /\ sidecars \in SUBSET Sidecar
  BY DEF IInv, TypeOK, DiskType, OwedHasALine
<1>1. CASE WriterTakes
  <2>1. CASE Head(queue) = Barrier
    BY <1>1, <2>1 DEF WriterTakes
  <2>2. CASE Head(queue) # Barrier
    <3>1. Head(queue).line \in LineType
      BY <1>0, <1>1, <2>2, HeadOfQueue DEF WriterTakes
    <3>2. PICK left \in Landings(Head(queue).line) : log' = left.log /\ end' = left.end
      BY <1>1, <2>2 DEF WriterTakes, Land
    <3> QED  BY <1>0, <3>1, <3>2, LandingAnswers
  <2> QED  BY <2>1, <2>2
<1>2. CASE Kill
  <2>1. PICK left \in Interrupted : log' = left[1] /\ end' = left[2]
    BY <1>2 DEF Kill
  <2>2. CASE left = <<log, end>>
    BY <2>1, <2>2
  <2>3. CASE end = "whole" /\ left = <<log, "fragment">>
    <3>1. Readable(log, end) = log /\ Readable(log', end') = log
      BY <1>0, <2>1, <2>3, ReadableIs
    <3> QED  BY <3>1
  <2>4. CASE /\ end = "whole" /\ queue # <<>> /\ Head(queue) # Barrier
             /\ left = <<Append(log, Head(queue).line), "unended">>
    <3>1. Head(queue).line \in LineType
      BY <1>0, <2>4, HeadOfQueue
    <3>2. Readable(log, end) = log /\ Readable(log', end') = log
      BY <1>0, <2>1, <2>4, <3>1, ReadableIs, ReadableUnended
    <3> QED  BY <3>2
  <2> QED  BY <2>1, <2>2, <2>3, <2>4 DEF Interrupted
<1>3. CASE Continue
  <2>1. log' = SettledLines(Readable(log, end), sidecars) /\ end' = "whole"
    BY <1>3 DEF Continue
  <2>2. Readable(log, end) \in Seq(LineType)
    BY <1>0, ReadableType
  <2>3. log' \in Seq(LineType) /\ AnsweredIn(log') = AnsweredIn(Readable(log, end))
    BY <2>1, <2>2, AnswersKept, SettledIsFirst
  <2>4. Readable(log', end') = log'
    BY <2>1, <2>3, ReadableIs
  <2> QED  BY <2>3, <2>4
<1>4. CASE Recover
  <2> DEFINE l == Recovered(log, sidecars)
  <2>1. l \in LineType /\ log' = Append(log, l) /\ end' = end
    BY <1>0, <1>4, RecoveredType DEF Recover, Message
  <2> HIDE DEF l
  <2>2. CASE end = "unended"
    <3>1. Readable(log, end) = SubSeq(log, 1, Len(log) - 1) /\ Len(log) - 1 \in 0..Len(log)
      BY <1>0, <2>2, ReadableIs
    <3>2. Readable(log', end') = log
      BY <1>0, <2>1, <2>2, ReadableUnended
    <3> QED  BY <1>0, <3>1, <3>2, AnswersOfFirst
  <2>3. CASE end # "unended"
    <3> DEFINE g == Append(log, l)
    <3>1. /\ Readable(log, end) = log /\ g \in Seq(LineType)
          /\ Len(g) = Len(log) + 1 /\ Len(log) \in Nat
      BY <1>0, <2>1, <2>3, ReadableIs, LineMore
    <3>2. Readable(log', end') = g
      BY <2>1, <2>3, <3>1, ReadableIs
    <3>3. Len(log) \in 0..Len(log) /\ Len(log) \in 0..Len(g)
      BY <3>1
    <3>4. SubSeq(g, 1, Len(log)) = log
      BY <1>0, <2>1, <3>3, FirstOfMore, AllLines
    <3> HIDE DEF g
    <3>5. AnsweredIn(log) \subseteq AnsweredIn(g)
      <4>1. AnsweredIn(SubSeq(g, 1, Len(log))) \subseteq AnsweredIn(g)
        BY <3>1, <3>3, AnswersOfFirst
      <4> QED  BY <3>4, <4>1
    <3> QED  BY <3>1, <3>2, <3>5
  <2> QED  BY <2>2, <2>3
<1>5. CASE RecoverFails
  <2>1. Recovered(log, sidecars) \in LineType
    BY <1>0, RecoveredType DEF Message
  <2>2. PICK left \in Landings(Recovered(log, sidecars)) : log' = left.log /\ end' = left.end
    BY <1>5 DEF RecoverFails
  <2> QED  BY <1>0, <2>1, <2>2, LandingAnswers
<1>6. CASE ~WriterTakes /\ ~Kill /\ ~Continue /\ ~Recover /\ ~RecoverFails
  BY <1>6, LogStays
<1> QED  BY <1>1, <1>2, <1>3, <1>4, <1>5, <1>6

\* An answer whose line is whole stays: no failing write, no kill, no cut of a
\* continued log and no recovery that was interrupted takes it back, only the
\* loss of the machine may (log::write, replay, Session::continuing).
THEOREM AnswersAreKept == Spec => AnswersStay
<1>1. IInv /\ [Next]_vars
        => [ (\/ ~PowerLoss \/ pc' # "off" \/ pc = "off")
             => AnsweredIn(Readable(log, end)) \subseteq AnsweredIn(Readable(log', end')) ]_vars
  <2> SUFFICES ASSUME IInv, [Next]_vars, \/ ~PowerLoss \/ pc' # "off" \/ pc = "off"
               PROVE  AnsweredIn(Readable(log, end)) \subseteq AnsweredIn(Readable(log', end'))
    OBVIOUS
  <2>1. ~MachineStops
    BY DEF MachineStops, Gone
  <2> QED  BY <2>1, AnswersStep
<1> QED  BY <1>1, TypeInit, TypeInductive, PTL DEF Spec, AnswersStay

(***************************************************************************)
(* The two threads and the queue.  The runner waits for one request at a   *)
(* time, the last it offered; what is before it is records nobody waits    *)
(* for, and only while a pass is at work is anything queued unawaited.     *)
(***************************************************************************)
Waits == pc \in {"recording", "putting", "settling"}
Awaited == IF pc = "recording" THEN Acknowledged(at) ELSE Barrier
IsRecord(q) == ~q.ack /\ q.line.kind \in {"started", "finished"}

Queued ==
    /\ told => Waits /\ queue = <<>>
    /\ Waits /\ ~told => queue # <<>> /\ queue[Len(queue)] = Awaited
    /\ \A i \in 1..Len(queue) :
          IsRecord(queue[i]) \/ (Waits /\ i = Len(queue) /\ queue[i] = Awaited)
    /\ pc # "tools" /\ ~Waits => queue = <<>>

\* A process that is not up holds nothing of a conversation.
HoldsNothing ==
    pc \in Opening \union {"off"} =>
        /\ queue = <<>> /\ told = FALSE /\ trouble = FALSE
        /\ transcript = <<>> /\ st = <<>> /\ answers = <<>>

Waiting == Queued /\ HoldsNothing

LEMMA AwaitedIsAcknowledged == Awaited.ack = TRUE /\ ~IsRecord(Awaited)
BY DEF Awaited, IsRecord, Acknowledged, Barrier

LEMMA RecordsAreLines ==
    ASSUME NEW c, NEW a
    PROVE  IsRecord(Line(Started(c))) /\ IsRecord(Line(Finished(c, a)))
BY DEF IsRecord, Line, Started, Finished

\* A request behind those that were there.
LEMMA OneRequestMore ==
    ASSUME WritingType, NEW request \in RequestType, Offer(request)
    PROVE  /\ Len(queue) \in Nat /\ queue' # <<>>
           /\ Len(queue') = Len(queue) + 1 /\ queue'[Len(queue) + 1] = request
           /\ \A i \in 1..Len(queue) : queue'[i] = queue[i]
<1>1. queue \in Seq(RequestType) /\ queue' = Append(queue, request)
  BY DEF WritingType, Offer
<1>2. Len(queue) \in Nat
  BY <1>1
<1>3. queue' # <<>>
  BY <1>1
<1> QED  BY <1>1, <1>2, <1>3, LineMore

LEMMA OffersARecord ==
    ASSUME WritingType, Queued, NEW request \in RequestType, Offer(request),
           IsRecord(request), pc = "tools", pc' = "tools", told' = told
    PROVE  Queued'
<1>1. ~told /\ ~Waits /\ ~Waits' /\ ~told'
  BY DEF Queued, Waits
<1>2. /\ Len(queue) \in Nat
      /\ Len(queue') = Len(queue) + 1 /\ queue'[Len(queue) + 1] = request
      /\ \A i \in 1..Len(queue) : queue'[i] = queue[i]
  BY OneRequestMore
<1>3. \A i \in 1..Len(queue) : IsRecord(queue[i])
  BY <1>1 DEF Queued
<1>4. ASSUME NEW i \in 1..Len(queue') PROVE IsRecord(queue'[i])
  <2>1. i \in 1..Len(queue) \/ i = Len(queue) + 1
    BY <1>2
  <2> QED  BY <1>2, <1>3, <2>1
<1> QED  BY <1>1, <1>4 DEF Queued

LEMMA OffersAndWaits ==
    ASSUME WritingType, Queued, NEW request \in RequestType, Offer(request),
           ~Waits, Waits', Awaited' = request, told' = told
    PROVE  Queued'
<1>1. ~told /\ ~told'
  BY DEF Queued
<1>2. /\ Len(queue) \in Nat /\ queue' # <<>>
      /\ Len(queue') = Len(queue) + 1 /\ queue'[Len(queue) + 1] = request
      /\ \A i \in 1..Len(queue) : queue'[i] = queue[i]
  BY OneRequestMore
<1>3. \A i \in 1..Len(queue) : IsRecord(queue[i])
  BY DEF Queued
<1>4. ASSUME NEW i \in 1..Len(queue')
      PROVE  IsRecord(queue'[i]) \/ (i = Len(queue') /\ queue'[i] = Awaited')
  <2>1. i \in 1..Len(queue) \/ i = Len(queue) + 1
    BY <1>2
  <2> QED  BY <1>2, <1>3, <2>1
<1>5. queue'[Len(queue')] = Awaited'
  BY <1>2
<1>6. pc' = "tools" \/ Waits'
  OBVIOUS
<1> QED  BY <1>1, <1>2, <1>4, <1>5 DEF Queued

LEMMA NothingQueued ==
    ASSUME queue' = <<>>, ~told', ~Waits'
    PROVE  Queued'
BY DEF Queued

\* The answer is taken by the runner.
LEMMA AnswerTaken ==
    ASSUME Queued, told, queue' = queue, ~told', ~Waits'
    PROVE  Queued'
BY NothingQueued DEF Queued

LEMMA QueueEmptied ==
    ASSUME Queued, pc # "tools", ~Waits, queue' = queue, told' = told, ~Waits'
    PROVE  Queued'
BY NothingQueued DEF Queued

LEMMA WriterWaiting == IInv /\ Waiting /\ WriterTakes => Waiting'
<1> SUFFICES ASSUME IInv, Waiting, WriterTakes PROVE Waiting'
  OBVIOUS
<1> DEFINE head == Head(queue)
<1>0. WritingType
  BY DEF IInv, TypeOK
<1>1. /\ UNCHANGED <<pc, at, transcript, st, answers>>
      /\ queue # <<>> /\ queue' = Tail(queue) /\ told' = (told \/ head.ack)
  BY DEF WriterTakes, running
<1>2. /\ Len(queue) \in Nat /\ 1 \in 1..Len(queue) /\ head = queue[1]
      /\ Len(queue') = Len(queue) - 1
      /\ \A i \in 1..Len(queue) - 1 : queue'[i] = queue[i + 1]
      /\ queue' \in Seq(RequestType)
  BY <1>0, <1>1, HeadOfQueue
<1> HIDE DEF head
<1>3. ~told
  BY <1>1 DEF Waiting, Queued
<1>4. UNCHANGED <<Waits, Awaited>>
  BY <1>1 DEF Waits, Awaited
<1>5. HoldsNothing'
  BY <1>1 DEF HoldsNothing, Waiting
<1>6. CASE Waits /\ head = Awaited /\ Len(queue) = 1
  <2>1. queue' = <<>>
    <3>1. Len(queue') = 0
      BY <1>2, <1>6
    <3> QED  BY <1>2, <3>1
  <2>2. told'
    BY <1>1, <1>6, AwaitedIsAcknowledged
  <2>3. Queued'
    BY <1>4, <1>6, <2>1, <2>2 DEF Queued
  <2> QED  BY <1>5, <2>3 DEF Waiting
<1>7. CASE IsRecord(head)
  <2>1. ~told'
    BY <1>1, <1>3, <1>7 DEF IsRecord
  <2>2. ASSUME NEW i \in 1..Len(queue')
        PROVE  IsRecord(queue'[i]) \/ (Waits' /\ i = Len(queue') /\ queue'[i] = Awaited')
    <3>1. /\ i \in 1..Len(queue) - 1 /\ i + 1 \in 1..Len(queue)
          /\ (i + 1 = Len(queue) => i = Len(queue'))
      BY <1>2
    <3>2. queue'[i] = queue[i + 1]
      BY <1>2, <3>1
    <3> QED  BY <1>4, <3>1, <3>2 DEF Waiting, Queued
  <2>3. ASSUME Waits' PROVE queue' # <<>> /\ queue'[Len(queue')] = Awaited'
    <3>1. queue[Len(queue)] = Awaited
      BY <1>3, <1>4, <2>3 DEF Waiting, Queued
    <3>2. Len(queue) # 1
      BY <1>2, <1>7, <3>1, AwaitedIsAcknowledged
    <3>3. Len(queue') \in 1..Len(queue) - 1 /\ Len(queue') + 1 = Len(queue)
      BY <1>2, <3>2
    <3>4. queue'[Len(queue')] = queue[Len(queue)]
      BY <1>2, <3>3
    <3>5. queue' # <<>>
      BY <3>3
    <3> QED  BY <1>4, <3>1, <3>4, <3>5
  <2>4. pc' # "tools" /\ ~Waits' => queue' = <<>>
    BY <1>1, <1>4 DEF Waiting, Queued
  <2>5. Queued'
    BY <2>1, <2>2, <2>3, <2>4 DEF Queued
  <2> QED  BY <1>5, <2>5 DEF Waiting
<1>8. IsRecord(head) \/ (Waits /\ 1 = Len(queue) /\ head = Awaited)
  BY <1>2 DEF Waiting, Queued
<1> QED  BY <1>6, <1>7, <1>8

LEMMA RunnerWaiting ==
    ASSUME IInv, Waiting,
           Say \/ Recorded \/ TurnEnds \/ \E asked \in SUBSET Calls : ModelAnswers(asked)
    PROVE  Waiting'
<1>0. WritingType
  BY DEF IInv, TypeOK
<1>1. ASSUME NEW m \in Message, Record(m), pc \in {"idle", "asking", "tools"} PROVE Waiting'
  <2>1. ~Waits /\ Waits' /\ Awaited' = Acknowledged(m) /\ told' = told
        /\ Acknowledged(m) \in RequestType /\ Offer(Acknowledged(m)) /\ pc' = "recording"
    BY <1>1, Requests DEF Record, Waits, Awaited, Message
  <2>2. Queued'
    BY <1>0, <2>1, OffersAndWaits DEF Waiting
  <2>3. HoldsNothing'
    BY <2>1 DEF HoldsNothing, Opening
  <2> QED  BY <2>2, <2>3 DEF Waiting
<1>2. CASE Say
  <2>1. turns + 1 \in 1..MaxTurns
    BY <1>2, BoundsAssumption DEF Say, IInv, TypeOK, CountsType
  <2> QED  BY <1>1, <1>2, <2>1, Lines DEF Say
<1>3. ASSUME NEW asked \in SUBSET Calls, ModelAnswers(asked) PROVE Waiting'
  <2>1. passes + 1 \in 1..MaxPasses
    BY <1>3, BoundsAssumption DEF ModelAnswers, IInv, TypeOK, CountsType
  <2>2. ({passes + 1} \X asked) \in SUBSET CallId
    BY <2>1 DEF CallId
  <2>3. Agent(passes + 1, {passes + 1} \X asked) \in Message
    BY <2>1, <2>2, Lines
  <2> QED  BY <1>1, <1>3, <2>3 DEF ModelAnswers
<1>4. CASE Recorded
  <2>1. at \in Message
    BY <1>4 DEF Recorded, IInv, Held
  <2>2. pc' \in {"asking", "idle", "tools", "settle"}
    BY <1>4, <2>1 DEF Recorded, Message, IsMessage
  <2>3. told /\ ~told' /\ queue' = queue /\ ~Waits'
    BY <1>4, <2>2 DEF Recorded, Waits
  <2>4. Queued'
    BY <2>3, AnswerTaken DEF Waiting
  <2> QED  BY <2>2, <2>4 DEF Waiting, HoldsNothing, Opening
<1>5. CASE TurnEnds
  <2>1. pc = "asking" /\ pc' = "idle" /\ queue' = queue /\ told' = told
    BY <1>5 DEF TurnEnds, writing
  <2>2. Queued'
    BY <2>1, QueueEmptied DEF Waiting, Waits
  <2> QED  BY <2>1, <2>2 DEF Waiting, HoldsNothing, Opening
<1> QED  BY <1>2, <1>3, <1>4, <1>5

LEMMA CallWaiting ==
    ASSUME IInv, Waiting, NEW c \in DOMAIN st,
           Start(c) \/ Run(c) \/ Finish(c) \/ Refuse(c) \/ Put(c)
    PROVE  Waiting'
<1>0. WritingType /\ c \in CallId
  BY DEF IInv, TypeOK, RunningType
<1>1. pc = "tools" /\ pc' \in {"tools", "putting"} /\ told' = told
  BY DEF Start, Run, Finish, Refuse, Put, writing
<1>2. HoldsNothing'
  BY <1>1 DEF HoldsNothing, Opening
<1>3. CASE Start(c)
  <2>1. Line(Started(c)) \in RequestType /\ IsRecord(Line(Started(c)))
    BY <1>0, Lines, Requests, RecordsAreLines
  <2>2. Queued'
    BY <1>0, <1>1, <1>3, <2>1, OffersARecord DEF Waiting, Start
  <2> QED  BY <1>2, <2>2 DEF Waiting
<1>4. CASE Finish(c)
  <2> DEFINE q == Line(Finished(c, AnswerOf(st[c])))
  <2>1. AnswerOf(st[c]) \in Answer
    BY <1>4 DEF Finish, AnswerOf, Answer
  <2>2. q \in RequestType /\ IsRecord(q)
    BY <1>0, <2>1, Lines, Requests, RecordsAreLines
  <2>3. Offer(q) /\ pc' = "tools"
    BY <1>4 DEF Finish
  <2> HIDE DEF q
  <2>4. Queued'
    BY <1>0, <1>1, <2>2, <2>3, OffersARecord DEF Waiting
  <2> QED  BY <1>2, <2>4 DEF Waiting
<1>5. CASE Run(c) \/ Refuse(c)
  <2>1. UNCHANGED <<queue, told, pc, at>>
    BY <1>5 DEF Run, Refuse, writing
  <2>2. Queued'
    BY <2>1 DEF Waiting, Queued, Waits, Awaited
  <2> QED  BY <1>2, <2>2 DEF Waiting
<1>6. CASE Put(c)
  <2>1. Offer(Barrier) /\ Barrier \in RequestType /\ ~Waits /\ Waits' /\ Awaited' = Barrier
    BY <1>6, Requests DEF Put, Waits, Awaited
  <2>2. Queued'
    BY <1>0, <1>1, <2>1, OffersAndWaits DEF Waiting
  <2> QED  BY <1>2, <2>2 DEF Waiting
<1> QED  BY <1>3, <1>4, <1>5, <1>6

LEMMA PassWaiting ==
    ASSUME IInv, Waiting, SourceSynced \/ Stored \/ StoringFails \/ PassEnds
    PROVE  Waiting'
<1>0. WritingType
  BY DEF IInv, TypeOK
<1>1. CASE SourceSynced
  <2>1. told /\ ~told' /\ queue' = queue /\ pc' \in {"tools", "storing"}
    BY <1>1 DEF SourceSynced
  <2>2. Queued'
    BY <2>1, AnswerTaken DEF Waiting, Waits
  <2> QED  BY <2>1, <2>2 DEF Waiting, HoldsNothing, Opening
<1>2. CASE Stored \/ StoringFails
  <2>1. pc = "storing" /\ pc' = "tools" /\ queue' = queue /\ told' = told
    BY <1>2 DEF Stored, StoringFails, writing
  <2>2. Queued'
    BY <2>1, QueueEmptied DEF Waiting, Waits
  <2> QED  BY <2>1, <2>2 DEF Waiting, HoldsNothing, Opening
<1>3. CASE PassEnds
  <2>1. Offer(Acknowledged(Results(answers))) /\ pc = "tools" /\ pc' = "recording"
        /\ at' = Results(answers) /\ told' = told
    BY <1>3 DEF PassEnds, Record
  <2>2. answers \in UNION {[asked -> Answer] : asked \in SUBSET CallId}
    <3>1. answers \in [DOMAIN answers -> Answer] /\ DOMAIN answers \in SUBSET CallId
      BY DEF IInv, TypeOK, RunningType
    <3> QED  BY <3>1
  <2>3. Acknowledged(Results(answers)) \in RequestType
    BY <2>2, Lines, Requests DEF Message
  <2>4. ~Waits /\ Waits' /\ Awaited' = Acknowledged(Results(answers))
    BY <2>1 DEF Waits, Awaited
  <2>5. Queued'
    BY <1>0, <2>1, <2>3, <2>4, OffersAndWaits DEF Waiting
  <2> QED  BY <2>1, <2>5 DEF Waiting, HoldsNothing, Opening
<1> QED  BY <1>1, <1>2, <1>3

LEMMA SettleWaiting ==
    ASSUME IInv, Waiting,
           SettleLooks \/ SettleSynced \/ (\E r \in sidecars : Remove(r))
              \/ RemovalFails \/ SettleEnds
    PROVE  Waiting'
<1>0. WritingType
  BY DEF IInv, TypeOK
<1>1. CASE SettleLooks
  <2>1. pc = "settle" /\ told' = told
    BY <1>1 DEF SettleLooks
  <2>2. CASE pc' = "asking" /\ UNCHANGED queue
    BY <2>1, <2>2, QueueEmptied DEF Waiting, HoldsNothing, Opening, Waits
  <2>3. CASE pc' = "settling" /\ Offer(Barrier)
    <3>1. ~Waits /\ Waits' /\ Awaited' = Barrier /\ Barrier \in RequestType
      BY <2>1, <2>3, Requests DEF Waits, Awaited
    <3>2. Queued'
      BY <1>0, <2>1, <2>3, <3>1, OffersAndWaits DEF Waiting
    <3> QED  BY <2>3, <3>2 DEF Waiting, HoldsNothing, Opening
  <2> QED  BY <1>1, <2>2, <2>3 DEF SettleLooks
<1>2. CASE SettleSynced
  <2>1. told /\ ~told' /\ queue' = queue /\ pc' \in {"asking", "removing"}
    BY <1>2 DEF SettleSynced
  <2>2. Queued'
    BY <2>1, AnswerTaken DEF Waiting, Waits
  <2> QED  BY <2>1, <2>2 DEF Waiting, HoldsNothing, Opening
<1>3. CASE \E r \in sidecars : Remove(r)
  <2>1. UNCHANGED <<queue, told, trouble, pc, at, transcript, st, answers>>
    BY <1>3 DEF Remove, writing, running
  <2> QED  BY <2>1 DEF Waiting, Queued, HoldsNothing, Waits, Awaited
<1>4. CASE RemovalFails
  <2>1. /\ pc \in {"removing", "clearing"} /\ pc' \in {"asking", "off"}
        /\ pc' = "off" => pc = "clearing"
        /\ UNCHANGED <<queue, told, trouble, at, transcript, st, answers>>
    BY <1>4 DEF RemovalFails, writing
  <2>2. Queued'
    BY <2>1, QueueEmptied DEF Waiting, Waits
  <2> QED  BY <2>1, <2>2 DEF Waiting, HoldsNothing, Opening
<1>5. CASE SettleEnds
  <2>1. /\ pc \in {"removing", "clearing"} /\ pc' \in {"asking", "idle"}
        /\ UNCHANGED <<queue, told, trouble, at, st, answers>>
    BY <1>5 DEF SettleEnds, writing
  <2>2. Queued'
    BY <2>1, QueueEmptied DEF Waiting, Waits
  <2> QED  BY <2>1, <2>2 DEF Waiting, HoldsNothing, Opening
<1> QED  BY <1>1, <1>2, <1>3, <1>4, <1>5

LEMMA ProcessWaiting ==
    ASSUME IInv, Waiting,
           \/ Leave \/ Kill \/ MachineStops
           \/ Continue \/ Recover \/ RecoverFails \/ Resynced
    PROVE  Waiting'
<1>1. CASE Leave \/ Kill \/ MachineStops
  <2>1. Gone
    BY <1>1 DEF Leave, Kill, MachineStops
  <2>2. Queued'
    BY <2>1, NothingQueued DEF Gone, Waits
  <2> QED  BY <2>1, <2>2 DEF Gone, Waiting, HoldsNothing
<1>2. CASE Continue \/ Recover \/ RecoverFails \/ Resynced
  <2>1. /\ pc \in Opening \union {"off"}
        /\ pc' \in {"recovering", "resyncing", "clearing", "off", "idle"}
        /\ UNCHANGED <<queue, told, trouble, at, st, answers>>
        /\ pc' # "idle" => UNCHANGED transcript
    BY <1>2 DEF Continue, Recover, RecoverFails, Resynced, writing, Opening
  <2>2. Queued'
    BY <2>1, QueueEmptied DEF Waiting, Waits, Opening
  <2> QED  BY <2>1, <2>2 DEF Waiting, HoldsNothing, Opening
<1> QED  BY <1>1, <1>2

LEMMA WaitingInit == Init => Waiting
<1> SUFFICES ASSUME Init PROVE Waiting
  OBVIOUS
<1>1. /\ pc = "idle" /\ told = FALSE /\ queue = <<>>
  BY DEF Init
<1> QED  BY <1>1 DEF Waiting, Queued, HoldsNothing, Waits, Opening

LEMMA WaitingInductive == IInv /\ Waiting /\ [Next]_vars => Waiting'
<1> SUFFICES ASSUME IInv, Waiting, [Next]_vars PROVE Waiting'
  OBVIOUS
<1>1. CASE UNCHANGED vars
  BY <1>1 DEF vars, writing, running, Waiting, Queued, HoldsNothing, Waits, Awaited
<1>2. CASE Say \/ Recorded \/ TurnEnds \/ \E asked \in SUBSET Calls : ModelAnswers(asked)
  BY <1>2, RunnerWaiting
<1>3. CASE \E c \in DOMAIN st : Start(c) \/ Run(c) \/ Finish(c) \/ Refuse(c) \/ Put(c)
  BY <1>3, CallWaiting
<1>4. CASE SourceSynced \/ Stored \/ StoringFails \/ PassEnds
  BY <1>4, PassWaiting
<1>5. CASE SettleLooks \/ SettleSynced \/ (\E r \in sidecars : Remove(r))
           \/ RemovalFails \/ SettleEnds
  BY <1>5, SettleWaiting
<1>6. CASE \/ Leave \/ Kill \/ MachineStops
           \/ Continue \/ Recover \/ RecoverFails \/ Resynced
  BY <1>6, ProcessWaiting
<1> QED  BY <1>1, <1>2, <1>3, <1>4, <1>5, <1>6, WriterWaiting DEF Next

(***************************************************************************)
(* The log follows the conversation: short of trouble, every message the   *)
(* runner went on from is in the file, whole, and nothing else.            *)
(***************************************************************************)
Landed == IF pc = "recording" /\ told THEN Append(transcript, at) ELSE transcript

EndsWhole == pc # "off" /\ ~trouble => end = "whole"
OwedIsUnsynced == end = "unended" => synced < Len(log)
FollowsTranscript == Live /\ ~trouble => Messages(log) = Landed

Follows == EndsWhole /\ OwedIsUnsynced /\ FollowsTranscript

\* A step that neither writes, records nor opens.
LEMMA NothingSaid ==
    ASSUME Follows, UNCHANGED <<log, end, trouble, transcript>>,
           pc # "recording", pc' # "recording",
           pc' # "off" => pc # "off", pc' \in Opening \union {"off"} \/ Live,
           synced' = synced \/ (~trouble /\ pc # "off")
    PROVE  Follows'
<1>1. EndsWhole'
  BY DEF Follows, EndsWhole
<1>2. OwedIsUnsynced'
  BY DEF Follows, EndsWhole, OwedIsUnsynced
<1>3. FollowsTranscript'
  BY DEF Follows, FollowsTranscript, Live, Landed
<1> QED  BY <1>1, <1>2, <1>3 DEF Follows

LEMMA MessageOffered ==
    ASSUME Follows, Waiting, NEW m, Record(m), pc \in {"idle", "asking", "tools"}
    PROVE  Follows'
<1>1. /\ UNCHANGED <<log, end, synced, told, trouble, transcript>>
      /\ pc' = "recording" /\ ~told
  BY DEF Record, disk, Waiting, Queued, Waits
<1>2. EndsWhole' /\ OwedIsUnsynced'
  BY <1>1 DEF Follows, EndsWhole, OwedIsUnsynced
<1>3. Live /\ Landed = transcript /\ Landed' = transcript
  BY <1>1 DEF Live, Opening, Landed
<1>4. FollowsTranscript'
  BY <1>1, <1>3 DEF Follows, FollowsTranscript
<1> QED  BY <1>2, <1>4 DEF Follows

LEMMA WriterFollows == IInv /\ Waiting /\ Follows /\ WriterTakes => Follows'
<1> SUFFICES ASSUME IInv, Waiting, Follows, WriterTakes PROVE Follows'
  OBVIOUS
<1> DEFINE head == Head(queue)
<1>0. /\ log \in Seq(LineType) /\ Len(log) \in Nat /\ synced \in 0..Len(log)
      /\ WritingType /\ trouble \in BOOLEAN
  BY DEF IInv, TypeOK, DiskType, WritingType
<1>1. /\ UNCHANGED <<pc, at, transcript, synced>> /\ pc # "off" /\ queue # <<>>
      /\ told' = (told \/ head.ack)
      /\ IF head = Barrier THEN UNCHANGED <<log, end, trouble, faults>> ELSE Land(head.line)
  BY DEF WriterTakes, running
<1>2. /\ head = queue[1] /\ 1 \in 1..Len(queue)
      /\ head # Barrier => head.line \in LineType
  BY <1>0, <1>1, HeadOfQueue
<1> HIDE DEF head
<1>3. ~told /\ (IsRecord(head) \/ (Waits /\ head = Awaited))
  BY <1>1, <1>2 DEF Waiting, Queued
<1>4. CASE head = Barrier
  <2>1. pc # "recording"
    <3> SUFFICES ASSUME pc = "recording" PROVE FALSE
      OBVIOUS
    <3>1. ~IsRecord(head)
      BY <1>4 DEF IsRecord, Barrier
    <3>2. Acknowledged(at) = Barrier
      BY <1>3, <1>4, <3>1 DEF Awaited
    <3>3. at = Nothing
      BY <3>2 DEF Acknowledged, Barrier
    <3> QED  BY <3>3 DEF IInv, Held, Message, IsMessage, Nothing
  <2>2. UNCHANGED <<log, end, trouble>>
    BY <1>1, <1>4
  <2> QED
    BY <1>1, <2>1, <2>2
    DEF Follows, EndsWhole, OwedIsUnsynced, FollowsTranscript, Landed, Live, Opening
<1>5. CASE head # Barrier
  <2> DEFINE l == head.line
  <2>1. PICK left \in Landings(l) :
            /\ trouble' = (trouble \/ left.bad) /\ log' = left.log /\ end' = left.end
    BY <1>1, <1>5 DEF Land
  <2>2. l \in LineType
    BY <1>2, <1>5
  <2> HIDE DEF l
  <2>3. Len(Append(log, l)) = Len(log) + 1
    BY <1>0, <2>2, LineMore
  <2>4. OwedIsUnsynced'
    <3>1. CASE log' = log /\ (end' = end \/ end = "unended" \/ end' # "unended")
      BY <1>1, <3>1 DEF Follows, OwedIsUnsynced
    <3>2. CASE log' = Append(log, l)
      BY <1>0, <1>1, <2>3, <3>2 DEF OwedIsUnsynced
    <3> QED  BY <2>1, <3>1, <3>2, LandingsAre
  <2>5. ASSUME ~trouble'
        PROVE  ~trouble /\ end = "whole" /\ log' = Append(log, l) /\ end' = "whole"
    <3>1. ~trouble /\ ~left.bad
      BY <2>1, <2>5
    <3>2. end = "whole"
      BY <1>1, <3>1 DEF Follows, EndsWhole
    <3> QED  BY <2>1, <3>1, <3>2, LandingsAre
  <2>6. EndsWhole'
    BY <2>5 DEF EndsWhole
  <2>7. FollowsTranscript'
    <3> SUFFICES ASSUME Live', ~trouble' PROVE Messages(log') = Landed'
      BY DEF FollowsTranscript
    <3>1. Live /\ Messages(log) = transcript
      BY <1>1, <1>3, <2>5 DEF Follows, FollowsTranscript, Landed, Live, Opening
    <3>2. log' = Append(log, l)
      BY <2>5
    <3>3. CASE IsRecord(head)
      <4>1. ~IsMessage(l)
        BY <3>3 DEF IsRecord, IsMessage, l
      <4>2. Messages(log') = transcript
        BY <1>0, <2>2, <3>1, <3>2, <4>1, MessagesOfMore
      <4>3. Landed' = transcript
        BY <1>1, <1>3, <3>3 DEF Landed, IsRecord
      <4> QED  BY <4>2, <4>3
    <3>4. CASE ~IsRecord(head)
      <4>1. Waits /\ head = Awaited
        BY <1>3, <3>4
      <4>2. pc = "recording" /\ head = Acknowledged(at)
        BY <1>5, <4>1 DEF Awaited
      <4>3. l = at /\ head.ack = TRUE
        BY <4>2 DEF Acknowledged, l
      <4>4. IsMessage(l)
        BY <4>2, <4>3 DEF IInv, Held, Message
      <4>5. Messages(log') = Append(transcript, at)
        BY <1>0, <2>2, <3>1, <3>2, <4>3, <4>4, MessagesOfMore
      <4>6. Landed' = Append(transcript, at)
        BY <1>1, <4>2, <4>3 DEF Landed
      <4> QED  BY <4>5, <4>6
    <3> QED  BY <3>3, <3>4
  <2> QED  BY <2>4, <2>6, <2>7 DEF Follows
<1> QED  BY <1>4, <1>5

LEMMA RunnerFollows ==
    ASSUME IInv, Waiting, Follows,
           \/ Say \/ Recorded \/ TurnEnds \/ \E asked \in SUBSET Calls : ModelAnswers(asked)
           \/ \E c \in DOMAIN st : Start(c) \/ Run(c) \/ Finish(c) \/ Refuse(c) \/ Put(c)
           \/ SourceSynced \/ Stored \/ StoringFails \/ PassEnds
    PROVE  Follows'
<1>1. CASE Say
  BY <1>1, MessageOffered DEF Say
<1>2. ASSUME NEW asked \in SUBSET Calls, ModelAnswers(asked) PROVE Follows'
  BY <1>2, MessageOffered DEF ModelAnswers
<1>3. CASE PassEnds
  BY <1>3, MessageOffered DEF PassEnds
<1>4. CASE Recorded
  <2>1. at \in Message
    BY <1>4 DEF Recorded, IInv, Held
  <2>2. /\ pc = "recording" /\ told /\ pc' \in {"asking", "idle", "tools", "settle"}
        /\ transcript' = Append(transcript, at)
        /\ UNCHANGED <<log, end, synced, trouble>>
    BY <1>4, <2>1 DEF Recorded, Message, IsMessage, disk
  <2>3. Live /\ Landed = Append(transcript, at) /\ Landed' = Append(transcript, at)
    BY <2>2 DEF Live, Opening, Landed
  <2> QED
    BY <2>2, <2>3 DEF Follows, EndsWhole, OwedIsUnsynced, FollowsTranscript
<1>5. CASE TurnEnds
  <2>1. UNCHANGED <<log, end, synced, trouble, transcript>> /\ pc = "asking" /\ pc' = "idle"
    BY <1>5 DEF TurnEnds, disk, writing
  <2> QED  BY <2>1, NothingSaid DEF Live, Opening
<1>6. CASE \E c \in DOMAIN st : Start(c) \/ Run(c) \/ Finish(c) \/ Refuse(c) \/ Put(c)
  <2>1. /\ UNCHANGED <<log, end, synced, trouble, transcript>>
        /\ pc = "tools" /\ pc' \in {"tools", "putting"}
    BY <1>6 DEF Start, Run, Finish, Refuse, Put, disk, writing
  <2> QED  BY <2>1, NothingSaid DEF Live, Opening
<1>7. CASE SourceSynced
  <2>1. /\ UNCHANGED <<log, end, trouble, transcript>>
        /\ pc = "putting" /\ pc' \in {"tools", "storing"}
        /\ synced' = synced \/ ~trouble
    BY <1>7 DEF SourceSynced, disk
  <2> QED  BY <2>1, NothingSaid DEF Live, Opening
<1>8. CASE Stored \/ StoringFails
  <2>1. /\ UNCHANGED <<log, end, synced, trouble, transcript>>
        /\ pc = "storing" /\ pc' = "tools"
    BY <1>8 DEF Stored, StoringFails, writing
  <2> QED  BY <2>1, NothingSaid DEF Live, Opening
<1> QED  BY <1>1, <1>2, <1>3, <1>4, <1>5, <1>6, <1>7, <1>8

LEMMA SettleFollows ==
    ASSUME IInv, Waiting, Follows,
           SettleLooks \/ SettleSynced \/ (\E r \in sidecars : Remove(r))
              \/ RemovalFails \/ SettleEnds
    PROVE  Follows'
<1>1. CASE SettleLooks
  <2>1. /\ UNCHANGED <<log, end, synced, trouble, transcript>>
        /\ pc = "settle" /\ pc' \in {"asking", "settling"}
    BY <1>1 DEF SettleLooks, disk
  <2> QED  BY <2>1, NothingSaid DEF Live, Opening
<1>2. CASE SettleSynced
  <2>1. /\ UNCHANGED <<log, end, trouble, transcript>>
        /\ pc = "settling" /\ pc' \in {"asking", "removing"}
        /\ synced' = synced \/ ~trouble
    BY <1>2 DEF SettleSynced
  <2> QED  BY <2>1, NothingSaid DEF Live, Opening
<1>3. CASE \E r \in sidecars : Remove(r)
  <2>1. /\ UNCHANGED <<log, end, synced, trouble, transcript, pc>>
        /\ pc \in {"removing", "clearing"}
    BY <1>3 DEF Remove, writing, running
  <2> QED  BY <2>1, NothingSaid DEF Live, Opening
<1>4. CASE RemovalFails
  <2>1. /\ UNCHANGED <<log, end, synced, trouble, transcript>>
        /\ \/ pc = "removing" /\ pc' = "asking"
           \/ pc = "clearing" /\ pc' = "off"
    BY <1>4 DEF RemovalFails, disk, writing
  <2> QED  BY <2>1, NothingSaid DEF Live, Opening
<1>5. CASE SettleEnds /\ pc = "removing"
  <2>1. UNCHANGED <<log, end, synced, trouble, transcript>> /\ pc' = "asking"
    BY <1>5 DEF SettleEnds, writing
  <2> QED  BY <1>5, <2>1, NothingSaid DEF Live, Opening
<1>6. CASE SettleEnds /\ pc = "clearing"
  <2>1. /\ UNCHANGED <<log, end, synced, trouble>> /\ pc' = "idle"
        /\ transcript' = Messages(log)
    BY <1>6 DEF SettleEnds, writing
  <2> QED
    BY <1>6, <2>1 DEF Follows, EndsWhole, OwedIsUnsynced, FollowsTranscript, Landed
<1>7. SettleEnds => pc \in {"removing", "clearing"}
  BY DEF SettleEnds
<1> QED  BY <1>1, <1>2, <1>3, <1>4, <1>5, <1>6, <1>7

LEMMA EndsFollow ==
    ASSUME IInv, Waiting, Follows, Leave \/ Kill \/ MachineStops
    PROVE  Follows'
<1>0. /\ log \in Seq(LineType) /\ Len(log) \in Nat /\ synced \in 0..Len(log) /\ WritingType
  BY DEF IInv, TypeOK, DiskType
<1>1. pc' = "off"
  BY DEF Leave, Kill, MachineStops, Gone
<1>2. EndsWhole' /\ FollowsTranscript'
  BY <1>1 DEF EndsWhole, FollowsTranscript, Live
<1>3. CASE Leave
  <2>1. UNCHANGED <<log, end, synced>>
    BY <1>3 DEF Leave, disk
  <2> QED  BY <1>2, <2>1 DEF Follows, OwedIsUnsynced
<1>4. CASE Kill
  <2>1. PICK left \in Interrupted : log' = left[1] /\ end' = left[2]
    BY <1>4 DEF Kill
  <2>2. synced' = synced
    BY <1>4 DEF Kill
  <2>3. CASE left = <<log, end>> \/ left = <<log, "fragment">>
    BY <1>2, <2>1, <2>2, <2>3 DEF Follows, OwedIsUnsynced
  <2>4. CASE /\ queue # <<>> /\ Head(queue) # Barrier
             /\ left = <<Append(log, Head(queue).line), "unended">>
    <3>1. Head(queue).line \in LineType
      BY <1>0, <2>4, HeadOfQueue
    <3>2. Len(log') = Len(log) + 1
      BY <1>0, <2>1, <2>4, <3>1, LineMore
    <3>3. OwedIsUnsynced'
      BY <1>0, <2>2, <3>2 DEF OwedIsUnsynced
    <3> QED  BY <1>2, <3>3 DEF Follows
  <2> QED  BY <2>1, <2>3, <2>4 DEF Interrupted
<1>5. CASE MachineStops
  <2>1. PICK left \in Survivors : log' = left[1] /\ end' = left[2]
    BY <1>5 DEF MachineStops
  <2>2. synced' = synced
    BY <1>5 DEF MachineStops
  <2>3. end' = "unended" => \E n \in (synced + 1)..Len(log) : log' = SubSeq(log, 1, n)
    <3>1. CASE \E n \in synced..Len(log), e \in {"whole", "fragment"} :
                  left = <<SubSeq(log, 1, n), e>>
      BY <2>1, <3>1
    <3>2. CASE \E n \in (synced + 1)..Len(log) : left = <<SubSeq(log, 1, n), "unended">>
      BY <2>1, <3>2
    <3> QED  BY <3>1, <3>2 DEF Survivors
  <2>4. end' = "unended" => synced < Len(log')
    <3>1. \A n \in (synced + 1)..Len(log) : n \in 0..Len(log) /\ synced < n
      BY <1>0
    <3> QED  BY <1>0, <2>3, <3>1, FirstLines
  <2> QED  BY <1>2, <2>2, <2>4 DEF Follows, OwedIsUnsynced
<1> QED  BY <1>3, <1>4, <1>5

LEMMA ContinuingFollows ==
    ASSUME IInv, Waiting, Follows, Continue \/ Recover \/ RecoverFails \/ Resynced
    PROVE  Follows'
<1>0. /\ log \in Seq(LineType) /\ Len(log) \in Nat /\ synced \in 0..Len(log)
      /\ sidecars \in SUBSET Sidecar
  BY DEF IInv, TypeOK, DiskType
<1>1. CASE Continue
  <2>1. /\ end' = "whole" /\ pc' \in {"recovering", "resyncing", "idle"}
        /\ pc' = "idle" => transcript' = Messages(log')
    BY <1>1 DEF Continue
  <2> QED
    BY <2>1 DEF Follows, EndsWhole, OwedIsUnsynced, FollowsTranscript, Live, Opening, Landed
<1>2. CASE Recover
  <2>1. /\ log' = Append(log, Recovered(log, sidecars)) /\ end' = end /\ synced' = synced
        /\ pc = "recovering" /\ pc' = "resyncing" /\ trouble' = trouble
    BY <1>2 DEF Recover, writing
  <2>2. end = "whole"
    BY <2>1 DEF Follows, EndsWhole, Waiting, HoldsNothing, Opening
  <2> QED
    BY <2>1, <2>2 DEF Follows, EndsWhole, OwedIsUnsynced, FollowsTranscript, Live, Opening
<1>3. CASE RecoverFails
  <2> DEFINE l == Recovered(log, sidecars)
  <2>1. l \in LineType
    BY <1>0, RecoveredType DEF Message
  <2>2. PICK left \in Landings(l) : log' = left.log /\ end' = left.end
    BY <1>3 DEF RecoverFails
  <2>3. pc' = "off" /\ synced' = synced
    BY <1>3 DEF RecoverFails
  <2> HIDE DEF l
  <2>4. Len(Append(log, l)) = Len(log) + 1
    BY <1>0, <2>1, LineMore
  <2>5. OwedIsUnsynced'
    <3>1. CASE log' = log /\ (end' = end \/ end = "unended" \/ end' # "unended")
      BY <2>3, <3>1 DEF Follows, OwedIsUnsynced
    <3>2. CASE log' = Append(log, l)
      BY <1>0, <2>3, <2>4, <3>2 DEF OwedIsUnsynced
    <3> QED  BY <2>2, <3>1, <3>2, LandingsAre
  <2> QED  BY <2>3, <2>5 DEF Follows, EndsWhole, FollowsTranscript, Live
<1>4. CASE Resynced
  <2>1. /\ UNCHANGED <<log, end, trouble>> /\ pc = "resyncing" /\ pc' = "clearing"
    BY <1>4 DEF Resynced, writing
  <2>2. end = "whole"
    BY <2>1 DEF Follows, EndsWhole, Waiting, HoldsNothing, Opening
  <2> QED
    BY <2>1, <2>2 DEF Follows, EndsWhole, OwedIsUnsynced, FollowsTranscript, Live, Opening
<1> QED  BY <1>1, <1>2, <1>3, <1>4

LEMMA FollowsInit == Init => Follows
<1> SUFFICES ASSUME Init PROVE Follows
  OBVIOUS
<1>1. /\ log = <<>> /\ end = "whole" /\ transcript = <<>> /\ pc = "idle"
  BY DEF Init
<1>2. Messages(log) = <<>>
  BY <1>1, NoMessages
<1> QED  BY <1>1, <1>2 DEF Follows, EndsWhole, OwedIsUnsynced, FollowsTranscript, Landed

LEMMA FollowsInductive == IInv /\ Waiting /\ Follows /\ [Next]_vars => Follows'
<1> SUFFICES ASSUME IInv, Waiting, Follows, [Next]_vars PROVE Follows'
  OBVIOUS
<1>1. CASE UNCHANGED vars
  BY <1>1
  DEF vars, disk, writing, running, Follows, EndsWhole, OwedIsUnsynced, FollowsTranscript,
      Landed, Live
<1>2. CASE \/ Say \/ Recorded \/ TurnEnds \/ \E asked \in SUBSET Calls : ModelAnswers(asked)
           \/ \E c \in DOMAIN st : Start(c) \/ Run(c) \/ Finish(c) \/ Refuse(c) \/ Put(c)
           \/ SourceSynced \/ Stored \/ StoringFails \/ PassEnds
  BY <1>2, RunnerFollows
<1>3. CASE SettleLooks \/ SettleSynced \/ (\E r \in sidecars : Remove(r))
           \/ RemovalFails \/ SettleEnds
  BY <1>3, SettleFollows
<1>4. CASE Leave \/ Kill \/ MachineStops
  BY <1>4, EndsFollow
<1>5. CASE Continue \/ Recover \/ RecoverFails \/ Resynced
  BY <1>5, ContinuingFollows
<1> QED  BY <1>1, <1>2, <1>3, <1>4, <1>5, WriterFollows DEF Next

(***************************************************************************)
(* What a kill, and what a power loss, may leave to be read.               *)
(***************************************************************************)
LEMMA KilledIs ==
    ASSUME IInv, NEW d \in Killed
    PROVE  d.lines = Readable(log, end) /\ d.sidecars = sidecars
<1>0. log \in Seq(LineType) /\ WritingType
  BY DEF IInv, TypeOK, DiskType
<1>1. PICK left \in Interrupted :
          d = [lines |-> Readable(left[1], left[2]), sidecars |-> sidecars]
  BY DEF Killed
<1>2. CASE left = <<log, end>>
  BY <1>1, <1>2
<1>3. CASE end = "whole" /\ left = <<log, "fragment">>
  BY <1>0, <1>1, <1>3, ReadableIs
<1>4. CASE /\ end = "whole" /\ queue # <<>> /\ Head(queue) # Barrier
           /\ left = <<Append(log, Head(queue).line), "unended">>
  <2>1. Head(queue).line \in LineType
    BY <1>0, <1>4, HeadOfQueue
  <2> QED  BY <1>0, <1>1, <1>4, <2>1, ReadableIs, ReadableUnended
<1> QED  BY <1>1, <1>2, <1>3, <1>4 DEF Interrupted

LEMMA ReadableIsFirst ==
    ASSUME IInv, OwedIsUnsynced
    PROVE  \E n \in synced..Len(log) : Readable(log, end) = SubSeq(log, 1, n)
<1>0. /\ log \in Seq(LineType) /\ Len(log) \in Nat /\ synced \in 0..Len(log)
      /\ end = "unended" => log # <<>>
  BY DEF IInv, TypeOK, DiskType, OwedHasALine
<1>1. CASE end = "unended"
  <2>1. Len(log) - 1 \in synced..Len(log)
    BY <1>0, <1>1 DEF OwedIsUnsynced
  <2> QED  BY <1>0, <1>1, <2>1, ReadableIs
<1>2. CASE end # "unended"
  <2>1. Len(log) \in synced..Len(log) /\ Readable(log, end) = SubSeq(log, 1, Len(log))
    BY <1>0, <1>2, ReadableIs, AllLines
  <2> QED  BY <2>1
<1> QED  BY <1>1, <1>2

\* Whatever happens, a reader finds a beginning of the log, with all of it
\* that was synced.
LEMMA DiskLines ==
    ASSUME IInv, OwedIsUnsynced, NEW d \in Disks
    PROVE  /\ \E n \in synced..Len(log) : d.lines = SubSeq(log, 1, n)
           /\ d.sidecars = sidecars \/ (PowerLoss /\ d.sidecars \in SurvivingSidecars)
<1>0. log \in Seq(LineType) /\ Len(log) \in Nat /\ synced \in 0..Len(log)
  BY DEF IInv, TypeOK, DiskType
<1>1. CASE d \in Killed
  BY <1>1, KilledIs, ReadableIsFirst
<1>2. CASE PowerLoss /\ d \in Lost
  <2>1. PICK left \in Survivors, s \in SurvivingSidecars :
            d = [lines |-> Readable(left[1], left[2]), sidecars |-> s]
    BY <1>2 DEF Lost
  <2>2. CASE \E n \in synced..Len(log), e \in {"whole", "fragment"} :
                left = <<SubSeq(log, 1, n), e>>
    <3>1. PICK n \in synced..Len(log), e \in {"whole", "fragment"} :
              left = <<SubSeq(log, 1, n), e>>
      BY <2>2
    <3>2. n \in 0..Len(log)
      BY <1>0
    <3>3. SubSeq(log, 1, n) \in Seq(LineType)
      BY <1>0, <3>2, FirstLines
    <3>4. d.lines = SubSeq(log, 1, n)
      BY <2>1, <3>1, <3>3, ReadableIs
    <3> QED  BY <1>2, <2>1, <3>4
  <2>3. CASE \E n \in (synced + 1)..Len(log) : left = <<SubSeq(log, 1, n), "unended">>
    <3>1. PICK n \in (synced + 1)..Len(log) : left = <<SubSeq(log, 1, n), "unended">>
      BY <2>3
    <3>2. n \in 0..Len(log) /\ n - 1 \in 0..n /\ n - 1 \in synced..Len(log) /\ n > 0
      BY <1>0
    <3>3. SubSeq(log, 1, n) \in Seq(LineType) /\ Len(SubSeq(log, 1, n)) = n
      BY <1>0, <3>2, FirstLines
    <3>4. d.lines = SubSeq(SubSeq(log, 1, n), 1, n - 1)
      BY <2>1, <3>1, <3>3 DEF Readable
    <3>5. d.lines = SubSeq(log, 1, n - 1)
      BY <1>0, <3>2, <3>4, FirstOfFirst
    <3> QED  BY <1>2, <2>1, <3>2, <3>5
  <2> QED  BY <2>2, <2>3 DEF Survivors
<1> QED  BY <1>1, <1>2 DEF Disks

(***************************************************************************)
(* The theorems.                                                           *)
(***************************************************************************)

\* What is settled of a beginning of the log is a beginning of what landed.
LEMMA SettledMessages ==
    ASSUME NEW f \in Seq(LineType), NEW n \in 0..Len(f), NEW s
    PROVE  /\ Messages(SettledLines(SubSeq(f, 1, n), s)) \in Seq(Message)
           /\ IsPrefixOf(Messages(SettledLines(SubSeq(f, 1, n), s)), Messages(f))
<1> DEFINE g == SubSeq(f, 1, n)
           h == SettledLines(g, s)
<1>1. g \in Seq(LineType)
  BY FirstLines
<1>2. IsPrefixOf(Messages(g), Messages(f))
  BY MessagesOfFirst
<1> HIDE DEF g
<1>3. PICK k \in 0..Len(g) : h = SubSeq(g, 1, k)
  BY <1>1, SettledIsFirst
<1>4. IsPrefixOf(Messages(h), Messages(g))
  BY <1>1, <1>3, MessagesOfFirst
<1>5. h \in Seq(LineType)
  BY <1>1, SettledIsFirst
<1> HIDE DEF h
<1>6. Messages(f) \in Seq(Message) /\ Messages(g) \in Seq(Message) /\ Messages(h) \in Seq(Message)
  BY <1>1, <1>5, MessagesType
<1>7. IsPrefixOf(Messages(h), Messages(f))
  BY <1>2, <1>4, <1>6, PrefixTransitive
<1> QED  BY <1>6, <1>7 DEF g, h

LEMMA LossIsToldHolds == IInv /\ Follows => LossIsTold
<1> SUFFICES ASSUME IInv, Follows, ~trouble, Live, NEW d \in Disks
             PROVE  IsPrefixOf(Messages(SettledLines(d.lines, d.sidecars)),
                       IF pc = "recording" THEN Append(transcript, at) ELSE transcript)
  BY DEF LossIsTold, NeverAHole
<1>1. log \in Seq(LineType) /\ synced \in Nat /\ transcript \in Seq(Message)
  BY DEF IInv, TypeOK, DiskType, RunningType
<1>2. PICK n \in synced..Len(log) : d.lines = SubSeq(log, 1, n)
  BY DiskLines DEF Follows
<1>3. n \in 0..Len(log)
  BY <1>1
<1> DEFINE back == Messages(SettledLines(d.lines, d.sidecars))
<1>4. back \in Seq(Message) /\ IsPrefixOf(back, Messages(log))
  BY <1>1, <1>2, <1>3, SettledMessages
<1> HIDE DEF back
<1>5. Messages(log) = Landed
  BY DEF Follows, FollowsTranscript
<1>6. CASE pc = "recording" /\ ~told
  <2>1. at \in Message /\ Landed = transcript
    BY <1>6 DEF IInv, Held, Landed
  <2>2. IsPrefixOf(back, Append(transcript, at))
    BY <1>1, <1>4, <1>5, <2>1, PrefixOfMore
  <2> QED  BY <1>6, <2>2 DEF back
<1>7. CASE ~(pc = "recording" /\ ~told)
  <2>1. Landed = IF pc = "recording" THEN Append(transcript, at) ELSE transcript
    BY <1>7 DEF Landed
  <2> QED  BY <1>4, <1>5, <2>1 DEF back
<1> QED  BY <1>6, <1>7

\* A replay hands back all the messages of what it read, or all but a last
\* one whose calls are open.
LEMMA ReplayedIs ==
    ASSUME NEW f \in Seq(LineType), NEW s \in SUBSET Sidecar
    PROVE  /\ Replayed(f, s) \in Seq(Message)
           /\ \/ IsPrefixOf(Messages(f), Replayed(f, s))
              \/ /\ Outstanding(f) # {}
                 /\ \E m \in Message : Messages(f) = Append(Replayed(f, s), m)
<1>1. Messages(f) \in Seq(Message)
  BY MessagesType
<1>2. CASE Recovers(f, s)
  <2>1. SettledLines(f, s) = f
    BY <1>2 DEF SettledLines
  <2>2. Replayed(f, s) = Append(Messages(f), Recovered(f, s))
    BY <1>2, <2>1 DEF Replayed
  <2>3. Recovered(f, s) \in Message
    BY RecoveredType
  <2> QED  BY <1>1, <2>2, <2>3, LineMore, PrefixOneLess
<1>3. CASE ~Recovers(f, s) /\ Outstanding(f) = {}
  <2>1. Replayed(f, s) = Messages(f)
    BY <1>3 DEF Replayed, SettledLines
  <2> QED  BY <1>1, <2>1, PrefixSelf
<1>4. CASE ~Recovers(f, s) /\ Outstanding(f) # {}
  <2> DEFINE last == LastMessage(f)
  <2>1. last > 0
    BY <1>4 DEF Outstanding
  <2>2. Replayed(f, s) = Messages(SubSeq(f, 1, last - 1))
    BY <1>4 DEF Replayed, SettledLines
  <2>3. /\ f[last] \in Message /\ Messages(SubSeq(f, 1, last - 1)) \in Seq(Message)
        /\ Messages(f) = Append(Messages(SubSeq(f, 1, last - 1)), f[last])
    BY <2>1, MessagesUpToLast
  <2> HIDE DEF last
  <2> QED  BY <1>4, <2>2, <2>3
<1> QED  BY <1>2, <1>3, <1>4

LEMMA KillKeepsHolds == IInv /\ Follows => KillKeepsTheAcknowledged
<1> SUFFICES ASSUME IInv, Follows, Live, ~trouble, NEW d \in Killed
             PROVE  IsPrefixOf(IF Outstanding(transcript) = {} THEN transcript
                               ELSE SubSeq(transcript, 1, Len(transcript) - 1), Back(d))
  BY DEF KillKeepsTheAcknowledged
<1>1. /\ log \in Seq(LineType) /\ sidecars \in SUBSET Sidecar /\ transcript \in Seq(Message)
      /\ pc = "recording" => at \in Message
  BY DEF IInv, TypeOK, DiskType, RunningType, Held
<1>2. Messages(log) = Landed /\ end = "whole"
  BY DEF Follows, FollowsTranscript, EndsWhole, Live
<1>3. Back(d) = Replayed(log, sidecars)
  BY <1>1, <1>2, KilledIs, ReadableIs DEF Back
<1> DEFINE back == Replayed(log, sidecars)
           kept == IF Outstanding(transcript) = {} THEN transcript
                   ELSE SubSeq(transcript, 1, Len(transcript) - 1)
<1>4. /\ back \in Seq(Message)
      /\ \/ IsPrefixOf(Messages(log), back)
         \/ Outstanding(log) # {} /\ \E m \in Message : Messages(log) = Append(back, m)
  BY <1>1, ReplayedIs
<1> HIDE DEF back
<1>5. Outstanding(transcript) # {} => Len(transcript) - 1 \in 0..Len(transcript)
  <2>1. Outstanding(transcript) # {} => transcript # <<>>
    BY <1>1, AllMessages
  <2> QED  BY <1>1, <2>1
<1>6. kept \in Seq(Message) /\ IsPrefixOf(kept, transcript)
  BY <1>1, <1>5, FirstLines, PrefixShorter, PrefixSelf
<1>7. CASE IsPrefixOf(Messages(log), back)
  <2>1. IsPrefixOf(transcript, Messages(log))
    BY <1>1, <1>2, PrefixSelf, PrefixOneLess DEF Landed
  <2>2. Messages(log) \in Seq(Message)
    BY <1>1, MessagesType
  <2>3. IsPrefixOf(transcript, back)
    BY <1>1, <1>4, <1>7, <2>1, <2>2, PrefixTransitive
  <2> HIDE DEF kept
  <2>4. IsPrefixOf(kept, back)
    BY <1>1, <1>4, <1>6, <2>3, PrefixTransitive
  <2> QED  BY <1>3, <2>4 DEF kept, back
<1>8. CASE Outstanding(log) # {} /\ \E m \in Message : Messages(log) = Append(back, m)
  <2>1. PICK m \in Message : Messages(log) = Append(back, m)
    BY <1>8
  <2>2. CASE pc = "recording" /\ told
    <3>1. Append(transcript, at) = Append(back, m)
      BY <1>2, <2>1, <2>2 DEF Landed
    <3>2. transcript = back
      <4>1. /\ Len(Append(transcript, at)) = Len(transcript) + 1
            /\ Len(Append(back, m)) = Len(back) + 1
            /\ \A i \in 1..Len(transcript) : Append(transcript, at)[i] = transcript[i]
            /\ \A i \in 1..Len(back) : Append(back, m)[i] = back[i]
        BY <1>1, <1>4, <2>1, <2>2, LineMore
      <4>2. Len(transcript) = Len(back)
        BY <1>1, <1>4, <3>1, <4>1
      <4>3. \A i \in 1..Len(transcript) : transcript[i] = back[i]
        BY <3>1, <4>1, <4>2
      <4> QED  BY <1>1, <1>4, <4>2, <4>3, SameLines
    <3> QED  BY <1>3, <1>6, <3>2 DEF back
  <2>3. CASE ~(pc = "recording" /\ told)
    <3>1. transcript = Append(back, m) /\ Outstanding(transcript) # {}
      <4>1. Messages(log) = transcript
        BY <1>2, <2>3 DEF Landed
      <4>2. Outstanding(Messages(log)) = Outstanding(log)
        BY <1>1, SameOutstanding
      <4> QED  BY <1>8, <2>1, <4>1, <4>2
    <3>2. Len(back) \in Nat /\ Len(Append(back, m)) = Len(back) + 1 /\ Len(back) \in 0..Len(back)
      BY <1>4, <2>1, LineMore
    <3>3. Len(transcript) - 1 = Len(back)
      BY <3>1, <3>2
    <3>4. SubSeq(Append(back, m), 1, Len(back)) = back
      BY <1>4, <2>1, <3>2, FirstOfMore, AllLines
    <3>5. kept = back
      BY <3>1, <3>3, <3>4
    <3> HIDE DEF kept
    <3>6. IsPrefixOf(kept, back)
      BY <1>4, <3>5, PrefixSelf
    <3> QED  BY <1>3, <3>6 DEF kept, back
  <2> QED  BY <2>2, <2>3
<1> QED  BY <1>4, <1>7, <1>8

\* Whatever write fails, whenever the process is killed or the machine stops:
\* unless the session kept a failed write as its trouble, what a replay takes
\* from the log is a beginning of the conversation the runner held, with no
\* hole in it (log::write, Tail::append, Runner::record).
THEOREM LossIsAlwaysTold == Spec => []LossIsTold
<1>1. Init => IInv /\ Waiting /\ Follows
  BY TypeInit, WaitingInit, FollowsInit
<1>2. IInv /\ Waiting /\ Follows /\ [Next]_vars => (IInv /\ Waiting /\ Follows)'
  BY TypeInductive, WaitingInductive, FollowsInductive
<1>3. IInv /\ Follows => LossIsTold
  BY LossIsToldHolds
<1> QED  BY <1>1, <1>2, <1>3, PTL DEF Spec

\* A kill at any moment costs no message the runner went on from, short of a
\* write that failed: the replay hands all of them back, but for a last answer
\* whose calls nothing was recorded about (Runner::record, replay).
THEOREM KillKeeps == Spec => []KillKeepsTheAcknowledged
<1>1. Init => IInv /\ Waiting /\ Follows
  BY TypeInit, WaitingInit, FollowsInit
<1>2. IInv /\ Waiting /\ Follows /\ [Next]_vars => (IInv /\ Waiting /\ Follows)'
  BY TypeInductive, WaitingInductive, FollowsInductive
<1>3. IInv /\ Follows => KillKeepsTheAcknowledged
  BY KillKeepsHolds
<1> QED  BY <1>1, <1>2, <1>3, PTL DEF Spec

(***************************************************************************)
(* What the runner knows of the calls of its pass.                         *)
(***************************************************************************)
CallKnown(c) ==
    /\ c[1] = passes
    /\ c \in DOMAIN answers <=> st[c] = "ended"
    /\ st[c] \in {"asked", "started"} => c \notin effects
    /\ c \in DOMAIN answers /\ c \in effects => answers[c] \in {"done", "failed"}
    /\ c \in receipts => st[c] = "kept" \/ (c \in DOMAIN answers /\ answers[c] = "done")

EffectsArePast == \A c \in effects : c[1] <= passes

\* What is being recorded is about the calls of the pass.
AtIsKnown ==
    pc = "recording" =>
        \/ at = Results(answers) /\ DOMAIN answers = DOMAIN st
        \/ /\ at.kind = "agent" /\ at.calls = DOMAIN st
           /\ \A c \in DOMAIN st : st[c] = "asked"
        \/ at.kind = "user"

Memory == (\A c \in DOMAIN st : CallKnown(c)) /\ EffectsArePast /\ AtIsKnown

\* How the memory of a pass may change in a step: a line that agreed with it
\* goes on agreeing.
Grows ==
    /\ passes <= passes'
    /\ \A c \in DOMAIN st' : c[1] <= passes => c \in DOMAIN st
    /\ \A c \in DOMAIN answers : c \in DOMAIN st' =>
          c \in DOMAIN answers' /\ answers'[c] = answers[c]
    /\ \A c \in effects' : c \in effects \/ (c \in DOMAIN st /\ c \notin DOMAIN answers)

LEMMA NumbersType ==
    ASSUME IInv
    PROVE  /\ passes \in Nat /\ \A c \in CallId : c[1] \in Nat
           /\ DOMAIN st \subseteq CallId /\ effects \subseteq CallId
           /\ DOMAIN answers \subseteq DOMAIN st /\ receipts \subseteq effects
BY BoundsAssumption DEF IInv, TypeOK, CountsType, RunningType, HistoryType, CallId

LEMMA MemoryKept ==
    ASSUME IInv, Memory, UNCHANGED <<st, answers, passes, history>>,
           pc' = "recording" => pc = "recording" /\ at' = at
    PROVE  Memory' /\ Grows
<1>1. passes \in Nat
  BY NumbersType
<1>2. Memory'
  BY DEF Memory, CallKnown, EffectsArePast, AtIsKnown, history
<1>3. Grows
  BY <1>1 DEF Grows, history
<1> QED  BY <1>2, <1>3

LEMMA MemoryGone ==
    ASSUME IInv, Memory, st' = <<>>, answers' = <<>>, UNCHANGED <<passes, history>>, pc' = "off"
    PROVE  Memory' /\ Grows
<1>1. passes \in Nat /\ DOMAIN st' = {}
  BY NumbersType, EmptySequence
<1>2. Memory'
  BY <1>1 DEF Memory, EffectsArePast, AtIsKnown, history
<1>3. Grows
  BY <1>1 DEF Grows, history
<1> QED  BY <1>2, <1>3

\* One call of the pass goes a step further, and is known.
LEMMA OneCallOn ==
    ASSUME IInv, Memory, NEW c \in DOMAIN st, DOMAIN st' = DOMAIN st,
           \A d \in DOMAIN st : d # c => st'[d] = st[d],
           DOMAIN answers' \subseteq DOMAIN answers \union {c},
           \A d \in DOMAIN answers : d # c => d \in DOMAIN answers' /\ answers'[d] = answers[d],
           c \notin DOMAIN answers,
           effects' \subseteq effects \union {c}, effects \subseteq effects',
           receipts' \subseteq receipts \union {c},
           passes' = passes, pc' # "recording", CallKnown(c)'
    PROVE  Memory' /\ Grows
<1>1. passes \in Nat /\ DOMAIN answers \subseteq DOMAIN st
  BY NumbersType
<1>2. ASSUME NEW d \in DOMAIN st' PROVE CallKnown(d)'
  <2>1. CASE d = c
    BY <2>1
  <2>2. CASE d # c
    BY <2>2 DEF Memory, CallKnown
  <2> QED  BY <2>1, <2>2
<1>3. EffectsArePast'
  <2>1. c[1] <= passes
    BY <1>1 DEF Memory, CallKnown
  <2> QED  BY <2>1 DEF Memory, EffectsArePast
<1>4. AtIsKnown'
  BY DEF AtIsKnown
<1>5. Grows
  BY <1>1 DEF Grows
<1> QED  BY <1>2, <1>3, <1>4, <1>5 DEF Memory

LEMMA ModelAnswersMemory ==
    ASSUME IInv, Memory, NEW asked \in SUBSET Calls, ModelAnswers(asked)
    PROVE  Memory' /\ Grows
<1> DEFINE called == {passes + 1} \X asked
<1>1. /\ passes \in Nat /\ passes' = passes + 1 /\ passes + 1 \in 1..MaxPasses
      /\ called \in SUBSET CallId
      /\ \A c \in called : c[1] = passes + 1
  <2>1. passes' \in 0..MaxPasses /\ passes + 1 \in 1..MaxPasses /\ passes \in Nat
    BY BoundsAssumption DEF ModelAnswers, IInv, TypeOK, CountsType
  <2>2. called \in SUBSET CallId
    BY <2>1 DEF CallId
  <2> QED  BY <2>1, <2>2 DEF ModelAnswers
<1>2. /\ st' = [c \in called |-> "asked"] /\ answers' = <<>>
      /\ pc' = "recording" /\ at' = Agent(passes + 1, called)
      /\ UNCHANGED <<effects, receipts>>
  BY DEF ModelAnswers, Record, history
<1> HIDE DEF called
<1>3. /\ DOMAIN st' = called /\ DOMAIN answers' = {}
      /\ \A c \in called : st'[c] = "asked"
  BY <1>2, EmptySequence
<1>4. \A c \in effects : c \notin called
  <2>1. \A c \in effects : c[1] <= passes
    BY DEF Memory, EffectsArePast
  <2>2. \A c \in called : ~(c[1] <= passes)
    BY <1>1
  <2> QED  BY <2>1, <2>2
<1>5. ASSUME NEW c \in DOMAIN st' PROVE CallKnown(c)'
  <2>1. c[1] = passes' /\ st'[c] = "asked" /\ c \notin DOMAIN answers' /\ c \notin effects'
    BY <1>1, <1>2, <1>3, <1>4
  <2>2. c \notin receipts'
    BY <1>2, <2>1, NumbersType
  <2> QED  BY <2>1, <2>2 DEF CallKnown
<1>6. EffectsArePast'
  <2>1. \A c \in effects : c[1] <= passes /\ c[1] \in Nat
    BY NumbersType DEF Memory, EffectsArePast
  <2>2. \A c \in effects : c[1] <= passes + 1
    BY <1>1, <2>1
  <2> QED  BY <1>1, <1>2, <2>2 DEF EffectsArePast
<1>7. AtIsKnown'
  BY <1>2, <1>3 DEF AtIsKnown, Agent
<1>8. Grows
  <2>1. \A c \in called : ~(c[1] <= passes)
    BY <1>1
  <2>2. ASSUME NEW c \in DOMAIN answers, c \in called PROVE FALSE
    <3>1. c \in DOMAIN st
      BY NumbersType
    <3>2. c[1] = passes
      BY <3>1 DEF Memory, CallKnown
    <3> QED  BY <1>1, <2>1, <2>2, <3>2
  <2> QED  BY <1>1, <1>2, <1>3, <2>1, <2>2 DEF Grows
<1> QED  BY <1>5, <1>6, <1>7, <1>8 DEF Memory

LEMMA CallMemory ==
    ASSUME IInv, Memory, NEW c \in DOMAIN st,
           Start(c) \/ Run(c) \/ Finish(c) \/ Refuse(c) \/ Put(c)
    PROVE  Memory' /\ Grows
<1>0. /\ CallKnown(c) /\ c \in CallId /\ c \in DOMAIN st
      /\ receipts \subseteq effects /\ DOMAIN answers \subseteq DOMAIN st
      /\ st \in [DOMAIN st -> CallState] /\ answers \in [DOMAIN answers -> Answer]
  BY NumbersType DEF Memory, IInv, TypeOK, RunningType
<1>1. CASE Start(c)
  <2>1. /\ st[c] = "asked" /\ st' = [st EXCEPT ![c] = "started"] /\ pc' = "tools"
        /\ UNCHANGED <<answers, passes, effects, receipts>>
    BY <1>1 DEF Start, counts, history
  <2>2. CallKnown(c)'
    BY <1>0, <2>1 DEF CallKnown
  <2>3. c \notin DOMAIN answers
    BY <1>0, <2>1 DEF CallKnown
  <2> QED  BY <1>0, <2>1, <2>2, <2>3, OneCallOn
<1>2. CASE Run(c)
  <2>1. /\ st[c] = "started" /\ st' = [st EXCEPT ![c] = "ran"] /\ pc' = "tools"
        /\ effects' = effects \union {c}
        /\ UNCHANGED <<answers, passes, receipts>>
    BY <1>2 DEF Run, counts
  <2>2. c \notin DOMAIN answers /\ c \notin receipts
    BY <1>0, <2>1 DEF CallKnown
  <2>3. CallKnown(c)'
    BY <1>0, <2>1, <2>2 DEF CallKnown
  <2> QED  BY <1>0, <2>1, <2>2, <2>3, OneCallOn
<1>3. CASE Finish(c)
  <2> DEFINE a == AnswerOf(st[c])
  <2>1. /\ st[c] \in {"asked", "ran", "kept", "unkept"} /\ st' = [st EXCEPT ![c] = "ended"]
        /\ answers' = [d \in DOMAIN answers \union {c} |-> IF d = c THEN a ELSE answers[d]]
        /\ pc' = "tools" /\ UNCHANGED <<passes, effects, receipts>>
    BY <1>3 DEF Finish, counts, history
  <2>2. c \notin DOMAIN answers
    BY <1>0, <2>1 DEF CallKnown
  <2>3. c \in effects => a \in {"done", "failed"}
    BY <1>0, <2>1 DEF CallKnown, AnswerOf
  <2>4. c \in receipts => a = "done"
    BY <1>0, <2>1, <2>2 DEF CallKnown, AnswerOf
  <2> HIDE DEF a
  <2>5. /\ DOMAIN answers' = DOMAIN answers \union {c} /\ answers'[c] = a
        /\ DOMAIN st' = DOMAIN st /\ st'[c] = "ended"
        /\ \A d \in DOMAIN answers : d # c => d \in DOMAIN answers' /\ answers'[d] = answers[d]
        /\ \A d \in DOMAIN st : d # c => st'[d] = st[d]
    BY <1>0, <2>1
  <2>6. CallKnown(c)'
    BY <1>0, <2>1, <2>3, <2>4, <2>5 DEF CallKnown
  <2> QED  BY <2>1, <2>2, <2>5, <2>6, OneCallOn
<1>4. CASE Refuse(c)
  <2>1. /\ st[c] = "asked" /\ st' = [st EXCEPT ![c] = "ended"]
        /\ answers' = [d \in DOMAIN answers \union {c} |-> IF d = c THEN "notrun" ELSE answers[d]]
        /\ pc' = "tools" /\ UNCHANGED <<passes, effects, receipts>>
    BY <1>4 DEF Refuse, counts, history
  <2>2. c \notin DOMAIN answers /\ c \notin effects
    BY <1>0, <2>1 DEF CallKnown
  <2>3. /\ DOMAIN answers' = DOMAIN answers \union {c}
        /\ DOMAIN st' = DOMAIN st /\ st'[c] = "ended"
        /\ \A d \in DOMAIN answers : d # c => d \in DOMAIN answers' /\ answers'[d] = answers[d]
        /\ \A d \in DOMAIN st : d # c => st'[d] = st[d]
    BY <1>0, <2>1
  <2>4. CallKnown(c)'
    BY <1>0, <2>1, <2>2, <2>3 DEF CallKnown
  <2> QED  BY <2>1, <2>2, <2>3, <2>4, OneCallOn
<1>5. CASE Put(c)
  <2>1. UNCHANGED <<st, answers, passes, history>> /\ pc' = "putting"
    BY <1>5 DEF Put, counts
  <2> QED  BY <2>1, MemoryKept
<1> QED  BY <1>1, <1>2, <1>3, <1>4, <1>5

LEMMA KeepingMemory ==
    ASSUME IInv, Memory, SourceSynced \/ Stored \/ StoringFails
    PROVE  Memory' /\ Grows
<1>1. PICK c \in DOMAIN st : at = [kind |-> "call", call |-> c] /\ st[c] = "ran"
  BY DEF SourceSynced, Stored, StoringFails, IInv, Held
<1>2. at.call = c
  BY <1>1
<1>3. /\ CallKnown(c) /\ receipts \subseteq effects
      /\ st \in [DOMAIN st -> CallState]
  BY NumbersType DEF Memory, IInv, TypeOK, RunningType
<1>4. c \notin DOMAIN answers /\ c \notin receipts
  BY <1>1, <1>3 DEF CallKnown
<1>5. CASE SourceSynced /\ ~trouble
  <2>1. UNCHANGED <<st, answers, passes, history>> /\ pc' = "storing"
    BY <1>5 DEF SourceSynced, counts
  <2> QED  BY <2>1, MemoryKept
<1>6. CASE (SourceSynced /\ trouble) \/ StoringFails
  <2>1. /\ st' = [st EXCEPT ![c] = "unkept"] /\ pc' = "tools"
        /\ UNCHANGED <<answers, passes, effects, receipts>>
    BY <1>2, <1>6 DEF SourceSynced, StoringFails, counts, history
  <2>2. CallKnown(c)'
    BY <1>1, <1>3, <1>4, <2>1 DEF CallKnown
  <2> QED  BY <1>3, <1>4, <2>1, <2>2, OneCallOn
<1>7. CASE Stored
  <2>1. /\ st' = [st EXCEPT ![c] = "kept"] /\ pc' = "tools"
        /\ receipts' = receipts \union {c}
        /\ UNCHANGED <<answers, passes, effects>>
    BY <1>2, <1>7 DEF Stored, counts
  <2>2. CallKnown(c)'
    BY <1>1, <1>3, <1>4, <2>1 DEF CallKnown
  <2> QED  BY <1>3, <1>4, <2>1, <2>2, OneCallOn
<1> QED  BY <1>5, <1>6, <1>7

LEMMA MemoryStep == IInv /\ Waiting /\ Memory /\ [Next]_vars => Memory' /\ Grows
<1> SUFFICES ASSUME IInv, Waiting, Memory, [Next]_vars PROVE Memory' /\ Grows
  OBVIOUS
<1>1. CASE UNCHANGED vars
  <2>1. UNCHANGED <<st, answers, passes, history, pc, at>>
    BY <1>1 DEF vars, running, counts
  <2> QED  BY <2>1, MemoryKept
<1>2. CASE Say
  <2>1. UNCHANGED <<st, answers, passes, history>> /\ pc' = "recording" /\ at'.kind = "user"
    BY <1>2 DEF Say, Record, User
  <2>2. passes \in Nat
    BY NumbersType
  <2>3. Grows
    BY <2>1, <2>2 DEF Grows, history
  <2>4. Memory'
    BY <2>1 DEF Memory, CallKnown, EffectsArePast, AtIsKnown, history
  <2> QED  BY <2>3, <2>4
<1>3. CASE PassEnds
  <2>1. /\ UNCHANGED <<st, answers, passes, history>> /\ pc' = "recording"
        /\ at' = Results(answers) /\ \A c \in DOMAIN st : st[c] = "ended"
    BY <1>3 DEF PassEnds, Record
  <2>2. passes \in Nat /\ DOMAIN answers \subseteq DOMAIN st
    BY NumbersType
  <2>3. Grows
    BY <2>1, <2>2 DEF Grows, history
  <2>4. DOMAIN answers = DOMAIN st
    BY <2>1, <2>2 DEF Memory, CallKnown
  <2>5. Memory'
    BY <2>1, <2>4 DEF Memory, CallKnown, EffectsArePast, AtIsKnown, history
  <2> QED  BY <2>3, <2>5
<1>4. CASE \E asked \in SUBSET Calls : ModelAnswers(asked)
  BY <1>4, ModelAnswersMemory
<1>5. CASE \E c \in DOMAIN st : Start(c) \/ Run(c) \/ Finish(c) \/ Refuse(c) \/ Put(c)
  BY <1>5, CallMemory
<1>6. CASE SourceSynced \/ Stored \/ StoringFails
  BY <1>6, KeepingMemory
<1>7. CASE Recorded \/ TurnEnds
  <2>1. UNCHANGED <<st, answers, passes, history>>
    BY <1>7 DEF Recorded, TurnEnds, counts
  <2>2. pc' # "recording"
    <3>1. Recorded => at \in Message
      BY DEF Recorded, IInv, Held
    <3> QED  BY <1>7, <3>1 DEF Recorded, TurnEnds, Message, IsMessage
  <2> QED  BY <2>1, <2>2, MemoryKept
<1>8. CASE SettleLooks \/ SettleSynced \/ (\E r \in sidecars : Remove(r))
           \/ RemovalFails \/ SettleEnds
  <2>1. UNCHANGED <<st, answers, passes, history>> /\ pc' # "recording"
    BY <1>8 DEF SettleLooks, SettleSynced, Remove, RemovalFails, SettleEnds, counts, running
  <2> QED  BY <2>1, MemoryKept
<1>9. CASE WriterTakes
  <2>1. UNCHANGED <<st, answers, passes, history, pc, at>>
    BY <1>9 DEF WriterTakes, running, history
  <2> QED  BY <2>1, MemoryKept
<1>10. CASE Leave \/ Kill \/ MachineStops
  <2>1. st' = <<>> /\ answers' = <<>> /\ UNCHANGED <<passes, history>> /\ pc' = "off"
    BY <1>10 DEF Leave, Kill, MachineStops, Gone, counts
  <2> QED  BY <2>1, MemoryGone
<1>11. CASE Continue \/ Recover \/ RecoverFails \/ Resynced
  <2>1. UNCHANGED <<st, answers, passes, history>> /\ pc' # "recording"
    BY <1>11 DEF Continue, Recover, RecoverFails, Resynced, counts
  <2> QED  BY <2>1, MemoryKept
<1> QED  BY <1>1, <1>2, <1>3, <1>4, <1>5, <1>6, <1>7, <1>8, <1>9, <1>10, <1>11 DEF Next

LEMMA MemoryInit == Init => Memory
<1> SUFFICES ASSUME Init PROVE Memory
  OBVIOUS
<1>1. DOMAIN st = {} /\ effects = {} /\ pc = "idle"
  BY EmptySequence DEF Init
<1> QED  BY <1>1 DEF Memory, EffectsArePast, AtIsKnown

(***************************************************************************)
(* The lines and the sidecars agree with what the runner remembers.        *)
(***************************************************************************)

\* In every step the log stays, is cut, or is one line longer: the first of
\* the queue, or what was recovered.
LEMMA LogStep ==
    ASSUME IInv, Waiting, [Next]_vars
    PROVE  \/ log' = log
           \/ \E n \in 0..Len(log) : log' = SubSeq(log, 1, n)
           \/ /\ queue # <<>> /\ Head(queue).line \in LineType
              /\ log' = Append(log, Head(queue).line)
              /\ IsRecord(Head(queue)) \/ (pc = "recording" /\ Head(queue) = Acknowledged(at))
           \/ pc = "recovering" /\ log' = Append(log, Recovered(log, sidecars))
<1>0. /\ log \in Seq(LineType) /\ Len(log) \in Nat /\ synced \in 0..Len(log) /\ WritingType
      /\ end = "unended" => log # <<>>
  BY DEF IInv, TypeOK, DiskType, OwedHasALine
<1>1. ASSUME queue # <<>>, Head(queue) # Barrier
      PROVE  /\ Head(queue).line \in LineType
             /\ IsRecord(Head(queue)) \/ (pc = "recording" /\ Head(queue) = Acknowledged(at))
  <2>1. /\ Head(queue).line \in LineType
        /\ Head(queue) = queue[1] /\ 1 \in 1..Len(queue)
    BY <1>0, <1>1, HeadOfQueue
  <2>2. IsRecord(Head(queue)) \/ Head(queue) = Awaited
    BY <2>1 DEF Waiting, Queued
  <2> QED  BY <1>1, <2>1, <2>2 DEF Awaited
<1>2. CASE WriterTakes
  <2>1. queue # <<>>
    BY <1>2 DEF WriterTakes
  <2>2. CASE Head(queue) = Barrier
    BY <1>2, <2>2 DEF WriterTakes
  <2>3. CASE Head(queue) # Barrier
    <3>1. PICK left \in Landings(Head(queue).line) : log' = left.log
      BY <1>2, <2>3 DEF WriterTakes, Land
    <3>2. log' = log \/ log' = Append(log, Head(queue).line)
      BY <3>1, LandingsAre
    <3> QED  BY <1>1, <2>1, <2>3, <3>2
  <2> QED  BY <2>2, <2>3
<1>3. CASE Kill
  <2>1. PICK left \in Interrupted : log' = left[1]
    BY <1>3 DEF Kill
  <2>2. CASE left = <<log, end>> \/ left = <<log, "fragment">>
    BY <2>1, <2>2
  <2>3. CASE /\ queue # <<>> /\ Head(queue) # Barrier
             /\ left = <<Append(log, Head(queue).line), "unended">>
    BY <1>1, <2>1, <2>3
  <2> QED  BY <2>1, <2>2, <2>3 DEF Interrupted
<1>4. CASE MachineStops
  <2>1. PICK left \in Survivors : log' = left[1]
    BY <1>4 DEF MachineStops
  <2>2. CASE \E n \in synced..Len(log), e \in {"whole", "fragment"} :
                left = <<SubSeq(log, 1, n), e>>
    <3>1. PICK n \in synced..Len(log) : log' = SubSeq(log, 1, n)
      BY <2>1, <2>2
    <3>2. n \in 0..Len(log)
      BY <1>0
    <3> QED  BY <3>1, <3>2
  <2>3. CASE \E n \in (synced + 1)..Len(log) : left = <<SubSeq(log, 1, n), "unended">>
    <3>1. PICK n \in (synced + 1)..Len(log) : log' = SubSeq(log, 1, n)
      BY <2>1, <2>3
    <3>2. n \in 0..Len(log)
      BY <1>0
    <3> QED  BY <3>1, <3>2
  <2> QED  BY <2>2, <2>3 DEF Survivors
<1>5. CASE Continue
  <2> DEFINE f == Readable(log, end)
  <2>1. /\ f \in Seq(LineType) /\ log' = SettledLines(f, sidecars)
        /\ \E m \in 0..Len(log) : f = SubSeq(log, 1, m)
    <3>1. \E m \in 0..Len(log) : f = SubSeq(log, 1, m)
      <4>1. CASE end = "unended"
        BY <1>0, <4>1, ReadableIs
      <4>2. CASE end # "unended"
        <5>1. Len(log) \in 0..Len(log)
          BY <1>0
        <5> QED  BY <1>0, <4>2, <5>1, ReadableIs, AllLines
      <4> QED  BY <4>1, <4>2
    <3> QED  BY <1>0, <1>5, <3>1, FirstLines DEF Continue
  <2> HIDE DEF f
  <2>2. PICK m \in 0..Len(log) : f = SubSeq(log, 1, m)
    BY <2>1
  <2>3. PICK n \in 0..Len(f) : log' = SubSeq(f, 1, n)
    BY <2>1, SettledIsFirst
  <2>4. n \in 0..m /\ n \in 0..Len(log)
    <3>1. Len(f) = m
      BY <1>0, <2>2, FirstLines
    <3> QED  BY <1>0, <3>1
  <2>5. log' = SubSeq(log, 1, n)
    BY <1>0, <2>2, <2>3, <2>4, FirstOfFirst
  <2> QED  BY <2>4, <2>5
<1>6. CASE Recover
  BY <1>6 DEF Recover
<1>7. CASE RecoverFails
  <2>1. PICK left \in Landings(Recovered(log, sidecars)) : log' = left.log
    BY <1>7 DEF RecoverFails
  <2>2. log' = log \/ log' = Append(log, Recovered(log, sidecars))
    BY <2>1, LandingsAre
  <2> QED  BY <1>7, <2>2 DEF RecoverFails
<1>8. CASE ~WriterTakes /\ ~Kill /\ ~MachineStops /\ ~Continue /\ ~Recover /\ ~RecoverFails
  BY <1>8, LogStays
<1> QED  BY <1>2, <1>3, <1>4, <1>5, <1>6, <1>7, <1>8

\* So every line of it was there, or is that one.
LEMMA LogLines ==
    ASSUME IInv, Waiting, [Next]_vars, NEW i \in 1..Len(log')
    PROVE  \/ \E j \in 1..Len(log) : log'[i] = log[j]
           \/ /\ queue # <<>> /\ log'[i] = Head(queue).line /\ log'[i] \in LineType
              /\ IsRecord(Head(queue)) \/ (pc = "recording" /\ Head(queue) = Acknowledged(at))
           \/ pc = "recovering" /\ log'[i] = Recovered(log, sidecars)
<1>0. /\ log \in Seq(LineType) /\ Len(log) \in Nat /\ sidecars \in SUBSET Sidecar
  BY DEF IInv, TypeOK, DiskType
<1>1. ASSUME NEW l \in LineType, log' = Append(log, l)
      PROVE  (\E j \in 1..Len(log) : log'[i] = log[j]) \/ log'[i] = l
  BY <1>0, <1>1, LineMore
<1>2. ASSUME NEW n \in 0..Len(log), log' = SubSeq(log, 1, n)
      PROVE  \E j \in 1..Len(log) : log'[i] = log[j]
  BY <1>0, <1>2, FirstLines
<1>3. Recovered(log, sidecars) \in LineType
  BY <1>0, RecoveredType DEF Message
<1> QED  BY <1>1, <1>2, <1>3, LogStep

\* A sidecar is for the call one was for before, or for the one being kept.
LEMMA SidecarStep ==
    ASSUME IInv, [Next]_vars, NEW r \in sidecars'
    PROVE  \/ \E q \in sidecars : q.call = r.call /\ q.answer = r.answer
           \/ /\ SourceSynced /\ ~trouble
              /\ r = [call |-> at.call, answer |-> "done", state |-> "partial"]
<1>0. sidecars \in SUBSET Sidecar
  BY DEF IInv, TypeOK, DiskType
<1>1. ASSUME NEW q \in Sidecar, NEW s
      PROVE  [q EXCEPT !.state = s].call = q.call /\ [q EXCEPT !.state = s].answer = q.answer
  BY DEF Sidecar
<1>2. CASE SourceSynced
  BY <1>2 DEF SourceSynced, disk
<1>3. CASE Stored \/ StoringFails
  <2>1. CASE r \in sidecars
    BY <2>1
  <2>2. CASE r \in Whole(at.call)
    <3>1. PICK q \in sidecars :
              r = IF q.call = at.call THEN [q EXCEPT !.state = "whole"] ELSE q
      BY <2>2 DEF Whole
    <3>2. q \in Sidecar
      BY <1>0
    <3>3. r.call = q.call /\ r.answer = q.answer
      BY <1>1, <3>1, <3>2
    <3> QED  BY <3>3
  <2> QED  BY <1>3, <2>1, <2>2 DEF Stored, StoringFails
<1>4. CASE \E q \in sidecars : Remove(q)
  <2>1. PICK q \in sidecars : Remove(q)
    BY <1>4
  <2>2. r \in sidecars \/ r = [q EXCEPT !.state = "removed"]
    BY <2>1 DEF Remove
  <2>3. q \in Sidecar
    BY <1>0
  <2>4. CASE r = [q EXCEPT !.state = "removed"]
    <3>1. r.call = q.call /\ r.answer = q.answer
      BY <1>1, <2>3, <2>4
    <3> QED  BY <3>1
  <2> QED  BY <2>2, <2>4
<1>5. CASE SettleEnds
  BY <1>5 DEF SettleEnds
<1>6. CASE MachineStops
  <2>1. sidecars' \in SurvivingSidecars
    BY <1>6 DEF MachineStops
  <2>2. r \in sidecars \/ \E q \in sidecars : r = [q EXCEPT !.state = "whole"]
    BY <2>1 DEF SurvivingSidecars
  <2>3. ASSUME NEW q \in sidecars, r = [q EXCEPT !.state = "whole"]
        PROVE  q.call = r.call /\ q.answer = r.answer
    <3>1. q \in Sidecar
      BY <1>0
    <3> QED  BY <1>1, <2>3, <3>1
  <2> QED  BY <2>2, <2>3
<1>7. CASE \/ UNCHANGED vars \/ Say \/ (\E asked \in SUBSET Calls : ModelAnswers(asked))
           \/ Recorded \/ TurnEnds
           \/ (\E c \in DOMAIN st : Start(c) \/ Run(c) \/ Finish(c) \/ Refuse(c) \/ Put(c))
  <2>1. sidecars' = sidecars
    BY <1>7
    DEF Say, ModelAnswers, Record, Recorded, TurnEnds, Start, Run, Finish, Refuse, Put, disk, vars
  <2> QED  BY <2>1
<1>8. CASE \/ PassEnds \/ SettleLooks \/ SettleSynced \/ RemovalFails
           \/ WriterTakes \/ Leave \/ Kill \/ Continue \/ Recover \/ RecoverFails \/ Resynced
  <2>1. sidecars' = sidecars
    BY <1>8
    DEF PassEnds, Record, SettleLooks, SettleSynced, RemovalFails, WriterTakes, Leave, Kill,
        Continue, Recover, RecoverFails, Resynced, disk
  <2> QED  BY <2>1
<1> QED  BY <1>2, <1>3, <1>4, <1>5, <1>6, <1>7, <1>8 DEF Next

Agrees(l) ==
    /\ l.kind \in {"started", "finished"} => l.call[1] <= passes
    /\ l.kind = "finished" /\ l.call \in DOMAIN st =>
          l.call \in DOMAIN answers /\ answers[l.call] = l.answer
    /\ l.kind = "finished" /\ l.call \in effects => l.answer \in {"done", "failed"}
    /\ l.kind = "results" => \A c \in DOMAIN l.answers :
          /\ c[1] <= passes
          /\ c \in DOMAIN st => c \in DOMAIN answers /\ answers[c] = l.answers[c]
    /\ l.kind = "agent" => \A c \in l.calls : c[1] <= passes

LogAgrees == \A i \in 1..Len(log) : Agrees(log[i])
QueueAgrees == \A i \in 1..Len(queue) : IsRecord(queue[i]) => Agrees(queue[i].line)
SidecarsAgree ==
    \A r \in sidecars :
        /\ r.answer = "done"
        /\ r.call[1] <= passes
        /\ "sidecar" \notin Faults /\ r.call \in DOMAIN st =>
              \/ st[r.call] = "ran" /\ pc = "storing" /\ at = [kind |-> "call", call |-> r.call]
              \/ st[r.call] = "kept"
              \/ r.call \in DOMAIN answers /\ answers[r.call] = "done"

Agreeing == LogAgrees /\ QueueAgrees /\ SidecarsAgree

\* The calls a line is about.
CallsOf(l) ==
    CASE l.kind \in {"started", "finished"} -> {l.call}
      [] l.kind = "results" -> DOMAIN l.answers
      [] l.kind = "agent" -> l.calls
      [] OTHER -> {}

LEMMA LineCalls ==
    ASSUME NEW l \in LineType
    PROVE  CallsOf(l) \in SUBSET CallId
<1>1. CASE l \in [kind : {"results"},
                  answers : UNION {[asked -> Answer] : asked \in SUBSET CallId}]
  <2>1. l.kind = "results" /\ l.answers \in UNION {[asked -> Answer] : asked \in SUBSET CallId}
    BY <1>1
  <2>2. PICK asked \in SUBSET CallId : l.answers \in [asked -> Answer]
    BY <2>1
  <2>3. DOMAIN l.answers = asked
    BY <2>2
  <2> QED  BY <2>1, <2>3 DEF CallsOf
<1> QED  BY <1>1 DEF LineType, CallsOf

LEMMA AgreesGrow ==
    ASSUME IInv, IInv', Grows, NEW l \in LineType, Agrees(l)
    PROVE  Agrees(l)'
<1>1. /\ passes \in Nat /\ passes' \in Nat /\ passes <= passes'
      /\ \A c \in CallId : c[1] \in Nat
      /\ DOMAIN st \subseteq CallId /\ effects' \subseteq CallId
  BY NumbersType DEF Grows, IInv, TypeOK, CountsType, HistoryType
<1>2. \A c \in CallId : c[1] <= passes => c[1] <= passes'
  BY <1>1
<1>3. \A c \in CallsOf(l) : c \in CallId
  BY LineCalls
<1>4. CASE l.kind \in {"started", "finished"}
  <2>1. l.call \in CallId /\ l.call[1] <= passes
    BY <1>3, <1>4 DEF CallsOf, Agrees
  <2>2. l.call[1] <= passes'
    BY <1>2, <2>1
  <2>3. l.kind = "finished" /\ l.call \in DOMAIN st' =>
            l.call \in DOMAIN answers' /\ answers'[l.call] = l.answer
    BY <2>1 DEF Agrees, Grows
  <2>4. l.kind = "finished" /\ l.call \in effects' => l.answer \in {"done", "failed"}
    BY DEF Agrees, Grows
  <2> QED  BY <1>4, <2>2, <2>3, <2>4 DEF Agrees
<1>5. CASE l.kind = "results"
  <2>1. ASSUME NEW c \in DOMAIN l.answers
        PROVE  /\ c[1] <= passes'
               /\ c \in DOMAIN st' => c \in DOMAIN answers' /\ answers'[c] = l.answers[c]
    <3>1. /\ c \in CallId /\ c[1] <= passes
          /\ c \in DOMAIN st => c \in DOMAIN answers /\ answers[c] = l.answers[c]
      BY <1>3, <1>5 DEF CallsOf, Agrees
    <3> QED  BY <1>2, <3>1 DEF Grows
  <2> QED  BY <1>5, <2>1 DEF Agrees
<1>6. CASE l.kind = "agent"
  <2>1. ASSUME NEW c \in l.calls PROVE c[1] <= passes'
    BY <1>2, <1>3, <1>6, <2>1 DEF CallsOf, Agrees
  <2> QED  BY <1>6, <2>1 DEF Agrees
<1>7. CASE l.kind \notin {"started", "finished", "results", "agent"}
  BY <1>7 DEF Agrees
<1> QED  BY <1>4, <1>5, <1>6, <1>7

LEMMA QueueLines ==
    ASSUME IInv, NEW i \in 1..Len(queue), IsRecord(queue[i])
    PROVE  queue[i].line \in LineType
<1>1. queue[i] \in RequestType
  BY DEF IInv, TypeOK, WritingType
<1> QED  BY <1>1 DEF IsRecord, RequestType, Barrier, Nothing

LEMMA AtAgrees ==
    ASSUME IInv, Memory, pc = "recording"
    PROVE  Agrees(at)
<1>1. \A c \in DOMAIN st : c[1] <= passes
  <2>1. passes \in Nat
    BY NumbersType
  <2> QED  BY <2>1 DEF Memory, CallKnown
<1>2. CASE at = Results(answers)
  <2>1. at.kind = "results" /\ at.answers = answers
    BY <1>2 DEF Results
  <2>2. DOMAIN answers \subseteq DOMAIN st /\ \A c \in DOMAIN st : c \in DOMAIN answers <=> st[c] = "ended"
    BY NumbersType DEF Memory, CallKnown
  <2>3. DOMAIN answers = DOMAIN st
    <3>1. at.kind # "agent" /\ at.kind # "user"
      BY <2>1
    <3> QED  BY <3>1 DEF Memory, AtIsKnown
  <2> QED  BY <1>1, <2>1, <2>3 DEF Agrees
<1>3. CASE at.kind = "agent" /\ at.calls = DOMAIN st
  BY <1>1, <1>3 DEF Agrees
<1>4. CASE at.kind = "user"
  BY <1>4 DEF Agrees
<1> QED  BY <1>2, <1>3, <1>4 DEF Memory, AtIsKnown

LEMMA RecoveredAgrees ==
    ASSUME IInv, Waiting, LogAgrees, pc = "recovering"
    PROVE  Agrees(Recovered(log, sidecars))
<1>0. log \in Seq(LineType) /\ DOMAIN st = {}
  BY EmptySequence DEF IInv, TypeOK, DiskType, Waiting, HoldsNothing, Opening
<1>1. ASSUME NEW c \in Outstanding(log) PROVE c[1] <= passes
  <2>1. LastMessage(log) \in 1..Len(log) /\ log[LastMessage(log)].kind = "agent"
        /\ c \in log[LastMessage(log)].calls
    BY <1>0, LastIsLast DEF Outstanding
  <2> QED  BY <2>1 DEF LogAgrees, Agrees
<1> DEFINE l == Recovered(log, sidecars)
<1>2. l.kind = "results" /\ DOMAIN l.answers = Outstanding(log)
  BY DEF Recovered, Results
<1> HIDE DEF l
<1>3. Agrees(l)
  BY <1>0, <1>1, <1>2 DEF Agrees
<1> QED  BY <1>3 DEF l

LEMMA LogAgreesStep ==
    ASSUME IInv, IInv', Waiting, Memory, Grows, LogAgrees, QueueAgrees, [Next]_vars
    PROVE  LogAgrees'
<1>0. /\ log \in Seq(LineType) /\ Len(log) \in Nat /\ WritingType
      /\ sidecars \in SUBSET Sidecar
  BY DEF IInv, TypeOK, DiskType
<1>1. ASSUME NEW i \in 1..Len(log')
      PROVE  \E l \in LineType : l = log'[i] /\ Agrees(l)'
  <2>1. CASE \E j \in 1..Len(log) : log'[i] = log[j]
    <3>1. PICK j \in 1..Len(log) : log'[i] = log[j]
      BY <2>1
    <3>2. log[j] \in LineType /\ Agrees(log[j])
      BY <1>0 DEF LogAgrees
    <3>3. PICK l \in LineType : l = log[j]
      BY <3>2
    <3>4. Agrees(l)'
      BY <3>2, <3>3, AgreesGrow
    <3> QED  BY <3>1, <3>3, <3>4
  <2>2. CASE /\ queue # <<>> /\ log'[i] = Head(queue).line /\ log'[i] \in LineType
             /\ IsRecord(Head(queue)) \/ (pc = "recording" /\ Head(queue) = Acknowledged(at))
    <3>1. PICK l \in LineType : l = log'[i] /\ l = Head(queue).line
      BY <2>2
    <3>2. CASE IsRecord(Head(queue))
      <4>1. Head(queue) = queue[1] /\ 1 \in 1..Len(queue)
        BY <1>0, <2>2, HeadOfQueue
      <4>2. Agrees(l)
        BY <3>1, <3>2, <4>1 DEF QueueAgrees
      <4>3. Agrees(l)'
        BY <4>2, AgreesGrow
      <4> QED  BY <3>1, <4>3
    <3>3. CASE pc = "recording" /\ Head(queue) = Acknowledged(at)
      <4>1. l = at
        BY <3>1, <3>3 DEF Acknowledged
      <4>2. Agrees(l)
        BY <3>3, <4>1, AtAgrees
      <4>3. Agrees(l)'
        BY <4>2, AgreesGrow
      <4> QED  BY <3>1, <4>3
    <3> QED  BY <2>2, <3>2, <3>3
  <2>3. CASE pc = "recovering" /\ log'[i] = Recovered(log, sidecars)
    <3>1. PICK l \in LineType : l = Recovered(log, sidecars)
      BY <1>0, RecoveredType DEF Message
    <3>2. Agrees(l)
      BY <2>3, <3>1, RecoveredAgrees
    <3>3. Agrees(l)'
      BY <3>2, AgreesGrow
    <3> QED  BY <2>3, <3>1, <3>3
  <2> QED  BY <2>1, <2>2, <2>3, LogLines
<1>2. ASSUME NEW i \in 1..Len(log') PROVE Agrees(log[i])'
  <2>1. PICK l \in LineType : l = log'[i] /\ Agrees(l)'
    BY <1>1
  <2> QED  BY <2>1 DEF Agrees
<1> QED  BY <1>2 DEF LogAgrees

\* Every request in the queue was there, or was offered in this step; a
\* record that was offered is about a call of the pass.
LEMMA QueueStep ==
    ASSUME IInv, Waiting, [Next]_vars, NEW i \in 1..Len(queue')
    PROVE  \/ \E j \in 1..Len(queue) : queue'[i] = queue[j]
           \/ ~IsRecord(queue'[i])
           \/ \E c \in DOMAIN st : Start(c) /\ queue'[i] = Line(Started(c))
           \/ \E c \in DOMAIN st : Finish(c) /\ queue'[i] = Line(Finished(c, AnswerOf(st[c])))
<1>0. WritingType
  BY DEF IInv, TypeOK
<1>1. ASSUME NEW request \in RequestType, Offer(request)
      PROVE  (\E j \in 1..Len(queue) : queue'[i] = queue[j]) \/ queue'[i] = request
  BY <1>0, <1>1, OneRequestMore
<1>2. ASSUME NEW m \in Message, Record(m)
      PROVE  (\E j \in 1..Len(queue) : queue'[i] = queue[j]) \/ ~IsRecord(queue'[i])
  <2>1. Acknowledged(m) \in RequestType /\ ~IsRecord(Acknowledged(m))
    BY Requests DEF Message, IsRecord, Acknowledged
  <2> QED  BY <1>1, <1>2, <2>1 DEF Record
<1>3. ASSUME Offer(Barrier)
      PROVE  (\E j \in 1..Len(queue) : queue'[i] = queue[j]) \/ ~IsRecord(queue'[i])
  <2>1. ~IsRecord(Barrier)
    BY DEF IsRecord, Barrier
  <2> QED  BY <1>1, <1>3, <2>1, Requests
<1>4. CASE Say
  <2>1. turns + 1 \in 1..MaxTurns
    BY <1>4, BoundsAssumption DEF Say, IInv, TypeOK, CountsType
  <2> QED  BY <1>2, <1>4, <2>1, Lines DEF Say
<1>5. ASSUME NEW asked \in SUBSET Calls, ModelAnswers(asked)
      PROVE  (\E j \in 1..Len(queue) : queue'[i] = queue[j]) \/ ~IsRecord(queue'[i])
  <2>1. passes + 1 \in 1..MaxPasses
    BY <1>5, BoundsAssumption DEF ModelAnswers, IInv, TypeOK, CountsType
  <2>2. ({passes + 1} \X asked) \in SUBSET CallId
    BY <2>1 DEF CallId
  <2>3. Agent(passes + 1, {passes + 1} \X asked) \in Message
    BY <2>1, <2>2, Lines
  <2> QED  BY <1>2, <1>5, <2>3 DEF ModelAnswers
<1>6. ASSUME NEW c \in DOMAIN st, Start(c) \/ Finish(c) \/ Put(c)
      PROVE  \/ \E j \in 1..Len(queue) : queue'[i] = queue[j]
             \/ ~IsRecord(queue'[i])
             \/ Start(c) /\ queue'[i] = Line(Started(c))
             \/ Finish(c) /\ queue'[i] = Line(Finished(c, AnswerOf(st[c])))
  <2>1. c \in CallId
    BY NumbersType
  <2>2. CASE Start(c)
    <3>1. Line(Started(c)) \in RequestType
      BY <2>1, Lines, Requests
    <3> QED  BY <1>1, <2>2, <3>1 DEF Start
  <2>3. CASE Finish(c)
    <3>1. AnswerOf(st[c]) \in Answer
      BY <2>3 DEF Finish, AnswerOf, Answer
    <3>2. Line(Finished(c, AnswerOf(st[c]))) \in RequestType
      BY <2>1, <3>1, Lines, Requests
    <3> QED  BY <1>1, <2>3, <3>2 DEF Finish
  <2>4. CASE Put(c)
    BY <1>3, <2>4 DEF Put
  <2> QED  BY <1>6, <2>2, <2>3, <2>4
<1>7. CASE PassEnds
  <2>1. answers \in UNION {[asked -> Answer] : asked \in SUBSET CallId}
    <3>1. answers \in [DOMAIN answers -> Answer] /\ DOMAIN answers \in SUBSET CallId
      BY DEF IInv, TypeOK, RunningType
    <3> QED  BY <3>1
  <2> QED  BY <1>2, <1>7, <2>1, Lines DEF PassEnds
<1>8. CASE SettleLooks
  <2>1. UNCHANGED queue \/ Offer(Barrier)
    BY <1>8 DEF SettleLooks
  <2> QED  BY <1>3, <2>1
<1>9. CASE WriterTakes
  <2>1. queue # <<>> /\ queue' = Tail(queue)
    BY <1>9 DEF WriterTakes
  <2>2. /\ Len(queue) \in Nat /\ Len(queue') = Len(queue) - 1
        /\ \A j \in 1..Len(queue) - 1 : queue'[j] = queue[j + 1]
    BY <1>0, <2>1, HeadOfQueue
  <2>3. i \in 1..Len(queue) - 1 /\ i + 1 \in 1..Len(queue)
    BY <2>2
  <2> QED  BY <2>2, <2>3
<1>10. CASE Leave \/ Kill \/ MachineStops
  <2>1. queue' = <<>>
    BY <1>10 DEF Leave, Kill, MachineStops, Gone
  <2> QED  BY <2>1, EmptySequence
<1>11. CASE \/ UNCHANGED vars \/ Recorded \/ TurnEnds
            \/ (\E c \in DOMAIN st : Run(c) \/ Refuse(c))
            \/ SourceSynced \/ Stored \/ StoringFails \/ SettleSynced
  <2>1. queue' = queue
    BY <1>11
    DEF vars, writing, Recorded, TurnEnds, Run, Refuse, SourceSynced, Stored, StoringFails,
        SettleSynced
  <2> QED  BY <2>1
<1>12. CASE \/ (\E r \in sidecars : Remove(r)) \/ RemovalFails \/ SettleEnds
            \/ Continue \/ Recover \/ RecoverFails \/ Resynced
  <2>1. queue' = queue
    BY <1>12
    DEF writing, Remove, RemovalFails, SettleEnds, Continue, Recover, RecoverFails, Resynced
  <2> QED  BY <2>1
<1> QED
  BY <1>4, <1>5, <1>6, <1>7, <1>8, <1>9, <1>10, <1>11, <1>12 DEF Next

LEMMA QueueAgreesStep ==
    ASSUME IInv, IInv', Waiting, Memory, Memory', Grows, QueueAgrees, [Next]_vars
    PROVE  QueueAgrees'
<1>1. ASSUME NEW i \in 1..Len(queue'), IsRecord(queue'[i])
      PROVE  \E l \in LineType : l = queue'[i].line /\ Agrees(l)'
  <2>1. CASE \E j \in 1..Len(queue) : queue'[i] = queue[j]
    <3>1. PICK j \in 1..Len(queue) : queue'[i] = queue[j]
      BY <2>1
    <3>2. PICK l \in LineType : l = queue[j].line
      BY <1>1, <3>1, QueueLines
    <3>3. Agrees(l)
      BY <1>1, <3>1, <3>2 DEF QueueAgrees
    <3>4. Agrees(l)'
      BY <3>3, AgreesGrow
    <3> QED  BY <3>1, <3>2, <3>4
  <2>2. ASSUME NEW c \in DOMAIN st, Start(c), queue'[i] = Line(Started(c))
        PROVE  \E l \in LineType : l = queue'[i].line /\ Agrees(l)'
    <3>1. /\ c \in CallId /\ c \in DOMAIN st' /\ passes' \in Nat
      BY <2>2, NumbersType DEF Start, IInv, TypeOK, RunningType, CountsType
    <3>2. c[1] <= passes'
      BY <3>1 DEF Memory, CallKnown
    <3>3. PICK l \in LineType : l = Started(c)
      BY <3>1, Lines
    <3>4. Agrees(l)'
      BY <3>2, <3>3 DEF Agrees, Started
    <3> QED  BY <2>2, <3>3, <3>4 DEF Line
  <2>3. ASSUME NEW c \in DOMAIN st, Finish(c), queue'[i] = Line(Finished(c, AnswerOf(st[c])))
        PROVE  \E l \in LineType : l = queue'[i].line /\ Agrees(l)'
    <3> DEFINE a == AnswerOf(st[c])
    <3>1. a \in Answer
      BY <2>3 DEF Finish, AnswerOf, Answer
    <3>2. /\ c \in CallId /\ c \in DOMAIN st' /\ passes' \in Nat
      BY <2>3, NumbersType DEF Finish, IInv, TypeOK, RunningType, CountsType
    <3>3. c \in DOMAIN answers' /\ answers'[c] = a
      BY <2>3 DEF Finish
    <3>4. PICK b \in Answer : b = a
      BY <3>1
    <3> HIDE DEF a
    <3>5. PICK l \in LineType : l = Finished(c, b)
      BY <3>2, Lines
    <3>6. l.kind = "finished" /\ l.call = c /\ l.answer = b
      BY <3>5 DEF Finished
    <3>7. c[1] <= passes' /\ (c \in effects' => b \in {"done", "failed"})
      BY <3>2, <3>3, <3>4 DEF Memory, CallKnown
    <3>8. Agrees(l)'
      BY <3>3, <3>4, <3>6, <3>7 DEF Agrees
    <3>9. l = queue'[i].line
      BY <2>3, <3>4, <3>5 DEF Line, a
    <3> QED  BY <3>8, <3>9
  <2> QED  BY <1>1, <2>1, <2>2, <2>3, QueueStep
<1>2. ASSUME NEW i \in 1..Len(queue'), IsRecord(queue'[i]) PROVE Agrees(queue[i].line)'
  <2>1. PICK l \in LineType : l = queue'[i].line /\ Agrees(l)'
    BY <1>1, <1>2
  <2> QED  BY <2>1 DEF Agrees
<1> QED  BY <1>2 DEF QueueAgrees, IsRecord

\* A call whose result is kept stays kept until it is answered with it, and
\* one being kept is kept, as long as no sidecar fails.
LEMMA KeptStaysKept ==
    ASSUME IInv, Memory, [Next]_vars, "sidecar" \notin Faults,
           NEW c \in DOMAIN st, c \in DOMAIN st', c[1] <= passes,
           \/ st[c] = "ran" /\ pc = "storing" /\ at = [kind |-> "call", call |-> c]
           \/ st[c] = "kept"
    PROVE  \/ st'[c] = "ran" /\ pc' = "storing" /\ at' = [kind |-> "call", call |-> c]
           \/ st'[c] = "kept"
           \/ c \in DOMAIN answers' /\ answers'[c] = "done"
<1>0. passes \in Nat /\ st \in [DOMAIN st -> CallState]
  BY NumbersType DEF IInv, TypeOK, RunningType
<1>1. CASE \E asked \in SUBSET Calls : ModelAnswers(asked)
  <2>1. c[1] = passes + 1
    BY <1>1 DEF ModelAnswers
  <2> QED  BY <1>0, <2>1
<1>2. CASE \E d \in DOMAIN st : Start(d) \/ Run(d) \/ Finish(d) \/ Refuse(d) \/ Put(d)
  <2>1. PICK d \in DOMAIN st : Start(d) \/ Run(d) \/ Finish(d) \/ Refuse(d) \/ Put(d)
    BY <1>2
  <2>2. pc = "tools" /\ st[c] = "kept"
    BY <2>1 DEF Start, Run, Finish, Refuse, Put
  <2>3. CASE Start(d) \/ Run(d) \/ Refuse(d) \/ Put(d)
    <3>1. st'[c] = "kept"
      BY <1>0, <2>2, <2>3 DEF Start, Run, Refuse, Put
    <3> QED  BY <3>1
  <2>4. CASE Finish(d)
    <3>1. CASE d # c
      <4>1. st'[c] = "kept"
        BY <1>0, <2>2, <2>4, <3>1 DEF Finish
      <4> QED  BY <4>1
    <3>2. CASE d = c
      <4>1. AnswerOf(st[c]) = "done"
        BY <2>2 DEF AnswerOf
      <4>2. c \in DOMAIN answers' /\ answers'[c] = "done"
        BY <2>4, <3>2, <4>1 DEF Finish
      <4> QED  BY <4>2
    <3> QED  BY <3>1, <3>2
  <2> QED  BY <2>1, <2>3, <2>4
<1>3. CASE SourceSynced \/ Stored
  <2>1. PICK d \in DOMAIN st : at = [kind |-> "call", call |-> d] /\ st[d] = "ran"
    BY <1>3 DEF SourceSynced, Stored, IInv, Held
  <2>2. at.call = d
    BY <2>1
  <2>3. CASE st[c] = "kept"
    <3>1. c # d
      BY <2>1, <2>3
    <3>2. st'[c] = "kept"
      BY <1>0, <1>3, <2>2, <2>3, <3>1 DEF SourceSynced, Stored
    <3> QED  BY <3>2
  <2>4. CASE pc = "storing" /\ at = [kind |-> "call", call |-> c]
    <3>1. Stored /\ at.call = c
      BY <1>3, <2>4 DEF SourceSynced
    <3>2. st'[c] = "kept"
      BY <1>0, <3>1 DEF Stored
    <3> QED  BY <3>2
  <2> QED  BY <2>3, <2>4
<1>4. CASE Leave \/ Kill \/ MachineStops
  <2>1. DOMAIN st' = {}
    BY <1>4, EmptySequence DEF Leave, Kill, MachineStops, Gone
  <2> QED  BY <2>1
<1>5. CASE Say \/ Recorded \/ TurnEnds \/ PassEnds
  <2>1. pc # "storing" /\ st' = st
    BY <1>5 DEF Say, Recorded, TurnEnds, PassEnds
  <2> QED  BY <2>1
<1>6. CASE SettleLooks \/ SettleSynced \/ RemovalFails \/ SettleEnds
           \/ Continue \/ Recover \/ RecoverFails \/ Resynced
  <2>1. pc # "storing" /\ st' = st
    BY <1>6
    DEF SettleLooks, SettleSynced, RemovalFails, SettleEnds, Continue, Recover, RecoverFails,
        Resynced
  <2> QED  BY <2>1
<1>7. CASE UNCHANGED vars \/ WriterTakes \/ \E r \in sidecars : Remove(r)
  <2>1. UNCHANGED <<st, pc, at>>
    BY <1>7 DEF vars, running, WriterTakes, Remove
  <2> QED  BY <2>1
<1>8. ~StoringFails
  BY DEF StoringFails
<1> QED  BY <1>1, <1>2, <1>3, <1>4, <1>5, <1>6, <1>7, <1>8 DEF Next

LEMMA SidecarsAgreeStep ==
    ASSUME IInv, IInv', Memory, Grows, SidecarsAgree, [Next]_vars
    PROVE  SidecarsAgree'
<1>0. /\ passes \in Nat /\ passes' \in Nat /\ passes <= passes'
      /\ \A c \in CallId : c[1] \in Nat
      /\ \A r \in sidecars : r.call \in CallId
  BY NumbersType DEF Grows, IInv, TypeOK, CountsType, DiskType, Sidecar
<1>1. ASSUME NEW r \in sidecars'
      PROVE  /\ r.answer = "done"
             /\ r.call[1] <= passes'
             /\ "sidecar" \notin Faults /\ r.call \in DOMAIN st' =>
                   \/ /\ st'[r.call] = "ran" /\ pc' = "storing"
                      /\ at' = [kind |-> "call", call |-> r.call]
                   \/ st'[r.call] = "kept"
                   \/ r.call \in DOMAIN answers' /\ answers'[r.call] = "done"
  <2>1. CASE \E q \in sidecars : q.call = r.call /\ q.answer = r.answer
    <3>1. PICK q \in sidecars : q.call = r.call /\ q.answer = r.answer
      BY <2>1
    <3> DEFINE c == r.call
    <3>2. /\ c \in CallId /\ r.answer = "done" /\ c[1] <= passes
          /\ "sidecar" \notin Faults /\ c \in DOMAIN st =>
              \/ st[c] = "ran" /\ pc = "storing" /\ at = [kind |-> "call", call |-> c]
              \/ st[c] = "kept"
              \/ c \in DOMAIN answers /\ answers[c] = "done"
      BY <1>0, <3>1 DEF SidecarsAgree
    <3> HIDE DEF c
    <3>3. c[1] <= passes'
      BY <1>0, <3>2
    <3>4. ASSUME "sidecar" \notin Faults, c \in DOMAIN st'
          PROVE  \/ st'[c] = "ran" /\ pc' = "storing" /\ at' = [kind |-> "call", call |-> c]
                 \/ st'[c] = "kept"
                 \/ c \in DOMAIN answers' /\ answers'[c] = "done"
      <4>1. c \in DOMAIN st
        BY <3>2, <3>4 DEF Grows
      <4>2. CASE c \in DOMAIN answers /\ answers[c] = "done"
        <5>1. c \in DOMAIN answers' /\ answers'[c] = "done"
          BY <3>4, <4>2 DEF Grows
        <5> QED  BY <5>1
      <4>3. CASE \/ st[c] = "ran" /\ pc = "storing" /\ at = [kind |-> "call", call |-> c]
                 \/ st[c] = "kept"
        BY <3>2, <3>4, <4>1, <4>3, KeptStaysKept
      <4> QED  BY <3>2, <3>4, <4>1, <4>2, <4>3
    <3> QED  BY <3>2, <3>3, <3>4 DEF c
  <2>2. CASE /\ SourceSynced /\ ~trouble
             /\ r = [call |-> at.call, answer |-> "done", state |-> "partial"]
    <3>1. PICK d \in DOMAIN st : at = [kind |-> "call", call |-> d] /\ st[d] = "ran"
      BY <2>2 DEF SourceSynced, IInv, Held
    <3>2. r.call = d /\ r.answer = "done"
      BY <2>2, <3>1
    <3>3. /\ UNCHANGED <<st, at, passes>> /\ pc' = "storing"
      BY <2>2 DEF SourceSynced, counts
    <3>4. d[1] <= passes
      BY <1>0 DEF Memory, CallKnown
    <3> QED  BY <3>1, <3>2, <3>3, <3>4
  <2> QED  BY <2>1, <2>2, SidecarStep
<1> QED  BY <1>1 DEF SidecarsAgree

LEMMA AgreeingInit == Init => Agreeing
<1> SUFFICES ASSUME Init PROVE Agreeing
  OBVIOUS
<1>1. Len(log) = 0 /\ Len(queue) = 0 /\ sidecars = {}
  BY EmptySequence DEF Init
<1> QED  BY <1>1 DEF Agreeing, LogAgrees, QueueAgrees, SidecarsAgree

LEMMA AgreeingInductive ==
    IInv /\ Waiting /\ Memory /\ Agreeing /\ [Next]_vars => Agreeing'
BY TypeInductive, MemoryStep, LogAgreesStep, QueueAgreesStep, SidecarsAgreeStep DEF Agreeing

\* What may come back of the sidecars is what was there.
LEMMA DiskSidecars ==
    ASSUME IInv, OwedIsUnsynced, NEW d \in Disks, NEW r \in d.sidecars
    PROVE  \E q \in sidecars : q.call = r.call /\ q.answer = r.answer
<1>0. sidecars \in SUBSET Sidecar
  BY DEF IInv, TypeOK, DiskType
<1>1. CASE r \in sidecars
  BY <1>1
<1>2. CASE d.sidecars \in SurvivingSidecars
  <2>1. r \in sidecars \/ \E q \in sidecars : r = [q EXCEPT !.state = "whole"]
    BY <1>2 DEF SurvivingSidecars
  <2>2. ASSUME NEW q \in sidecars, r = [q EXCEPT !.state = "whole"]
        PROVE  q.call = r.call /\ q.answer = r.answer
    <3>1. q \in Sidecar
      BY <1>0
    <3> QED  BY <2>2, <3>1 DEF Sidecar
  <2> QED  BY <2>1, <2>2
<1> QED  BY <1>1, <1>2, DiskLines

LEMMA ReplayAgreesHolds ==
    ASSUME IInv, OwedIsUnsynced, Memory, Agreeing, "sidecar" \notin Faults
    PROVE  ReplayAgrees
<1> SUFFICES ASSUME NEW d \in Disks, NEW r \in AnsweredBack(d), r[1] \in DOMAIN answers
             PROVE  r[2] \in {answers[r[1]], "mayhaverun", "interrupted"}
  BY DEF ReplayAgrees
<1> DEFINE c == r[1]
           f == d.lines
           s == d.sidecars
<1>0. /\ log \in Seq(LineType) /\ Len(log) \in Nat /\ synced \in Nat
      /\ DOMAIN answers \subseteq DOMAIN st /\ sidecars \in SUBSET Sidecar
  BY NumbersType DEF IInv, TypeOK, DiskType
<1>1. PICK n \in synced..Len(log) : f = SubSeq(log, 1, n)
  BY DiskLines
<1>2. /\ n \in 0..Len(log) /\ f \in Seq(LineType) /\ Len(f) = n
      /\ \A i \in 1..n : f[i] = log[i]
  <2>1. n \in 0..Len(log)
    BY <1>0
  <2> QED  BY <1>0, <1>1, <2>1, FirstLines
<1>3. ASSUME NEW i \in 1..Len(f) PROVE Agrees(f[i])
  <2>1. i \in 1..Len(log) /\ f[i] = log[i]
    BY <1>0, <1>2
  <2>2. Agrees(log[i])
    BY <2>1 DEF Agreeing, LogAgrees
  <2> QED  BY <2>1, <2>2
<1>4. c \in DOMAIN answers /\ c \in DOMAIN st /\ st[c] = "ended"
  BY <1>0 DEF Memory, CallKnown
<1>5. \A q \in s : q.call = c => q.answer = "done" /\ answers[c] = "done"
  <2> SUFFICES ASSUME NEW q \in s, q.call = c PROVE q.answer = "done" /\ answers[c] = "done"
    OBVIOUS
  <2>1. PICK p \in sidecars : p.call = q.call /\ p.answer = q.answer
    BY DiskSidecars
  <2> HIDE DEF c
  <2> QED  BY <1>4, <2>1 DEF Agreeing, SidecarsAgree
<1> HIDE DEF c, f, s
<1>6. CASE r \in AnsweredIn(SettledLines(f, s))
  <2>1. r \in AnsweredIn(f) /\ r = <<c, r[2]>>
    BY <1>2, <1>6, AnswersKept, AnswersArePairs DEF c
  <2>2. PICK i \in 1..Len(f) : f[i].kind = "results" /\ c \in DOMAIN f[i].answers
                               /\ r[2] = f[i].answers[c]
    BY <2>1, Answers
  <2>3. answers[c] = f[i].answers[c]
    BY <1>3, <1>4, <2>2 DEF Agrees
  <2> QED  BY <2>2, <2>3 DEF c
<1>7. CASE Recovers(f, s) /\ r \in AnsweredIn(<<Recovered(f, s)>>)
  <2> DEFINE one == <<Recovered(f, s)>>
  <2>1. r \in AnsweredIn(one) /\ r = <<c, r[2]>> /\ Len(one) = 1 /\ one[1] = Recovered(f, s)
    BY <1>7, AnswersArePairs DEF c
  <2> HIDE DEF one
  <2>2. c \in DOMAIN Recovered(f, s).answers /\ r[2] = Recovered(f, s).answers[c]
    BY <2>1, Answers
  <2>3. c \in Outstanding(f) /\ r[2] = RecoveredAnswer(f, s, c)
    BY <2>2 DEF Recovered, Results
  <2>4. CASE \E q \in Pending(f, s) : q.call = c
    <3>1. Pending(f, s) \subseteq s
      BY DEF Pending, Visible
    <3>2. \E q \in s : q.call = c /\ RecoveredAnswer(f, s, c) = q.answer
      BY <2>4, <3>1 DEF RecoveredAnswer
    <3> QED  BY <1>5, <2>3, <3>2 DEF c
  <2>5. CASE ~(\E q \in Pending(f, s) : q.call = c) /\ FinishedWith(f, c) # {}
    <3>1. RecoveredAnswer(f, s, c) \in FinishedWith(f, c)
      BY <2>5 DEF RecoveredAnswer, FinishedWith
    <3>2. PICK i \in LastMessage(f)..Len(f) : f[i] = Finished(c, r[2])
      BY <2>3, <3>1 DEF FinishedWith
    <3>3. i \in 1..Len(f)
      <4>1. LastMessage(f) > 0
        BY <2>3 DEF Outstanding
      <4>2. LastMessage(f) \in 0..Len(f)
        BY <1>2, LastIsLast
      <4> QED  BY <1>2, <4>1, <4>2
    <3>4. f[i].kind = "finished" /\ f[i].call = c /\ f[i].answer = r[2]
      BY <3>2 DEF Finished
    <3>5. answers[c] = r[2]
      BY <1>3, <1>4, <3>3, <3>4 DEF Agrees
    <3> QED  BY <3>5 DEF c
  <2>6. CASE ~(\E q \in Pending(f, s) : q.call = c) /\ FinishedWith(f, c) = {}
    <3>1. RecoveredAnswer(f, s, c) \in {"mayhaverun", "interrupted"}
      BY <2>6 DEF RecoveredAnswer
    <3> QED  BY <2>3, <3>1
  <2> QED  BY <2>4, <2>5, <2>6
<1> QED  BY <1>6, <1>7 DEF AnsweredBack, f, s

\* As long as no sidecar fails, whatever else does and whenever the process or
\* the machine stops, a replay tells no call another outcome than the runner
\* told it: the records and the sidecars are made from what it remembers, and
\* only an unrecorded one comes back as unknown (recovered answers, replay).
THEOREM ReplayIsTrue ==
    ASSUME "sidecar" \notin Faults
    PROVE  Spec => []ReplayAgrees
<1>1. Init => IInv /\ Waiting /\ Follows /\ Memory /\ Agreeing
  BY TypeInit, WaitingInit, FollowsInit, MemoryInit, AgreeingInit
<1>2. IInv /\ Waiting /\ Follows /\ Memory /\ Agreeing /\ [Next]_vars
        => (IInv /\ Waiting /\ Follows /\ Memory /\ Agreeing)'
  BY TypeInductive, WaitingInductive, FollowsInductive, MemoryStep, AgreeingInductive
<1>3. IInv /\ Waiting /\ Follows /\ Memory /\ Agreeing => ReplayAgrees
  BY ReplayAgreesHolds DEF Follows
<1> QED  BY <1>1, <1>2, <1>3, PTL DEF Spec

(***************************************************************************)
(* Where a write fails in the middle of a line or not at all, and sidecars *)
(* as they like, the first failed write leaves its fragment and ends the   *)
(* log: what is in it stays a beginning of the conversation.               *)
(***************************************************************************)
CutFaults == Faults \subseteq {"fragment", "sidecar"}

Expected == IF pc = "recording" THEN Append(transcript, at) ELSE transcript

TroubleIsFragment == pc # "off" => end # "unended" /\ (trouble => end = "fragment")
Begins == Live => IsPrefixOf(Messages(log), Expected)

LEMMA NoOddFaults == CutFaults => "newline" \notin Faults /\ "nothing" \notin Faults
BY DEF CutFaults

LEMMA ExpectedType == IInv => Expected \in Seq(Message) /\ Messages(log) \in Seq(Message)
<1> SUFFICES ASSUME IInv PROVE Expected \in Seq(Message) /\ Messages(log) \in Seq(Message)
  OBVIOUS
<1>1. /\ transcript \in Seq(Message) /\ (pc = "recording" => at \in Message)
      /\ log \in Seq(LineType)
  BY DEF IInv, Held, TypeOK, RunningType, DiskType
<1>2. Messages(log) \in Seq(Message)
  BY <1>1, MessagesType
<1>3. CASE pc = "recording"
  <2>1. Append(transcript, at) \in Seq(Message)
    BY <1>1, <1>3
  <2> QED  BY <1>2, <1>3, <2>1 DEF Expected
<1>4. CASE pc # "recording"
  BY <1>1, <1>2, <1>4 DEF Expected
<1> QED  BY <1>3, <1>4

LEMMA LandsOrBreaks ==
    ASSUME CutFaults, NEW l, NEW left \in Landings(l), end # "unended"
    PROVE  \/ left = [log |-> log, end |-> "fragment", bad |-> FALSE] /\ end = "fragment"
           \/ left = [log |-> Append(log, l), end |-> "whole", bad |-> FALSE] /\ end # "fragment"
           \/ left = [log |-> log, end |-> "fragment", bad |-> TRUE] /\ end # "fragment"
BY NoOddFaults, LandingsAre

LEMMA WriterBreaks ==
    ASSUME CutFaults, IInv, Waiting, Follows, TroubleIsFragment, Begins, WriterTakes
    PROVE  TroubleIsFragment' /\ Begins'
<1>0. /\ log \in Seq(LineType) /\ transcript \in Seq(Message) /\ trouble \in BOOLEAN
      /\ end \in {"whole", "unended", "fragment"} /\ WritingType
      /\ (pc = "recording" => at \in Message)
  BY DEF IInv, Held, TypeOK, DiskType, RunningType, WritingType
<1>1. UNCHANGED <<pc, at, transcript>> /\ pc # "off" /\ Expected' = Expected /\ Live' = Live
  BY DEF WriterTakes, running, Expected, Live
<1>2. CASE Head(queue) = Barrier
  <2>1. UNCHANGED <<log, end, trouble>>
    BY <1>2 DEF WriterTakes
  <2> QED  BY <1>1, <2>1 DEF TroubleIsFragment, Begins
<1>3. CASE Head(queue) # Barrier
  <2> DEFINE l == Head(queue).line
  <2>1. PICK left \in Landings(l) :
            /\ trouble' = (trouble \/ left.bad) /\ log' = left.log /\ end' = left.end
    BY <1>3 DEF WriterTakes, Land
  <2> HIDE DEF l
  <2>2. end # "unended" /\ (trouble => end = "fragment")
    BY <1>1 DEF TroubleIsFragment
  <2>3. CASE left = [log |-> log, end |-> "fragment", bad |-> FALSE] /\ end = "fragment"
    BY <1>1, <2>1, <2>3 DEF TroubleIsFragment, Begins
  <2>4. CASE left = [log |-> log, end |-> "fragment", bad |-> TRUE]
    BY <1>1, <2>1, <2>4 DEF TroubleIsFragment, Begins
  <2>5. CASE left = [log |-> Append(log, l), end |-> "whole", bad |-> FALSE] /\ end # "fragment"
    <3>1. ~trouble' /\ end' = "whole"
      BY <1>0, <2>1, <2>2, <2>5
    <3>2. Follows'
      BY WriterFollows
    <3>3. Live => Messages(log') = Landed'
      BY <1>1, <3>1, <3>2 DEF Follows, FollowsTranscript
    <3>4. IsPrefixOf(Landed', Expected')
      <4>1. Landed' \in {transcript, Expected'}
        BY <1>1 DEF Landed, Expected
      <4>2. IsPrefixOf(transcript, transcript) /\ IsPrefixOf(transcript, Expected')
        BY <1>0, <1>1, PrefixSelf, PrefixOneLess DEF Expected
      <4>3. IsPrefixOf(Expected', Expected')
        BY <1>1, ExpectedType, PrefixSelf
      <4> QED  BY <4>1, <4>2, <4>3
    <3> QED  BY <1>1, <3>1, <3>3, <3>4 DEF TroubleIsFragment, Begins
  <2> QED  BY <1>0, <2>2, <2>3, <2>4, <2>5, LandsOrBreaks
<1> QED  BY <1>2, <1>3

\* The conversation only goes on from where it was.
LEMMA NothingLands ==
    ASSUME IInv, IInv', TroubleIsFragment, Begins, UNCHANGED <<log, end, trouble>>,
           pc # "off",
           Live' => Live /\ (Expected' = Expected \/ \E m \in Message : Expected' = Append(Expected, m))
    PROVE  TroubleIsFragment' /\ Begins'
<1>1. TroubleIsFragment'
  BY DEF TroubleIsFragment
<1>2. ASSUME Live' PROVE IsPrefixOf(Messages(log), Expected')
  <2>1. IsPrefixOf(Messages(log), Expected) /\ Live
    BY <1>2 DEF Begins
  <2>2. Expected \in Seq(Message) /\ Messages(log) \in Seq(Message)
    BY ExpectedType
  <2>3. CASE \E m \in Message : Expected' = Append(Expected, m)
    BY <2>1, <2>2, <2>3, PrefixOfMore
  <2> QED  BY <1>2, <2>1, <2>3
<1> QED  BY <1>1, <1>2 DEF Begins

LEMMA MessageExpected ==
    ASSUME IInv, IInv', TroubleIsFragment, Begins, NEW m, Record(m),
           pc \in {"idle", "asking", "tools"}
    PROVE  TroubleIsFragment' /\ Begins'
<1>1. /\ UNCHANGED <<log, end, trouble, transcript>> /\ pc' = "recording" /\ at' = m
  BY DEF Record, disk
<1>2. m \in Message
  BY <1>1 DEF IInv, Held
<1>3. Expected' = Append(Expected, m)
  BY <1>1 DEF Expected
<1> QED  BY <1>1, <1>2, <1>3, NothingLands DEF Live, Opening

LEMMA CutInductive ==
    ASSUME CutFaults
    PROVE  IInv /\ Waiting /\ Follows /\ TroubleIsFragment /\ Begins /\ [Next]_vars
              => TroubleIsFragment' /\ Begins'
<1> SUFFICES ASSUME IInv, Waiting, Follows, TroubleIsFragment, Begins, [Next]_vars
             PROVE  TroubleIsFragment' /\ Begins'
  OBVIOUS
<1>0. IInv'
  BY TypeInductive
<1>1. CASE UNCHANGED vars
  BY <1>1 DEF vars, disk, writing, running, TroubleIsFragment, Begins, Live, Expected
<1>2. CASE Say
  BY <1>0, <1>2, MessageExpected DEF Say
<1>3. ASSUME NEW asked \in SUBSET Calls, ModelAnswers(asked)
      PROVE  TroubleIsFragment' /\ Begins'
  BY <1>0, <1>3, MessageExpected DEF ModelAnswers
<1>4. CASE PassEnds
  BY <1>0, <1>4, MessageExpected DEF PassEnds
<1>5. CASE Recorded
  <2>1. at \in Message
    BY <1>5 DEF Recorded, IInv, Held
  <2>2. /\ pc = "recording" /\ pc' \in {"asking", "idle", "tools", "settle"}
        /\ transcript' = Append(transcript, at)
        /\ UNCHANGED <<log, end, trouble>>
    BY <1>5, <2>1 DEF Recorded, Message, IsMessage, disk
  <2>3. Expected' = Expected
    BY <2>2 DEF Expected
  <2> QED  BY <1>0, <2>2, <2>3, NothingLands DEF Live, Opening
<1>6. CASE TurnEnds \/ \E c \in DOMAIN st : Start(c) \/ Run(c) \/ Finish(c) \/ Refuse(c) \/ Put(c)
  <2>1. /\ UNCHANGED <<log, end, trouble, transcript>>
        /\ pc \in {"asking", "tools"} /\ pc' \in {"idle", "tools", "putting"}
    BY <1>6 DEF TurnEnds, Start, Run, Finish, Refuse, Put, disk, writing
  <2>2. Expected' = Expected
    BY <2>1 DEF Expected
  <2> QED  BY <1>0, <2>1, <2>2, NothingLands DEF Live, Opening
<1>7. CASE SourceSynced \/ Stored \/ StoringFails \/ SettleLooks \/ SettleSynced
  <2>1. /\ UNCHANGED <<log, end, trouble, transcript>>
        /\ pc \in {"putting", "storing", "settle", "settling"}
        /\ pc' \in {"tools", "storing", "asking", "settling", "removing"}
    BY <1>7 DEF SourceSynced, Stored, StoringFails, SettleLooks, SettleSynced, disk, writing
  <2>2. Expected' = Expected
    BY <2>1 DEF Expected
  <2> QED  BY <1>0, <2>1, <2>2, NothingLands DEF Live, Opening
<1>8. CASE (\E r \in sidecars : Remove(r)) \/ RemovalFails \/ (SettleEnds /\ pc = "removing")
  <2>1. /\ UNCHANGED <<log, end, trouble, transcript>>
        /\ pc \in {"removing", "clearing"} /\ pc' \in {pc, "asking", "off"}
        /\ pc = "clearing" => pc' \in {"clearing", "off"}
    BY <1>8 DEF Remove, RemovalFails, SettleEnds, disk, writing, running
  <2>2. Expected' = Expected
    BY <2>1 DEF Expected
  <2> QED  BY <1>0, <2>1, <2>2, NothingLands DEF Live, Opening
<1>9. CASE SettleEnds /\ pc = "clearing"
  <2>1. /\ UNCHANGED <<log, end, trouble>> /\ pc' = "idle" /\ transcript' = Messages(log)
    BY <1>9 DEF SettleEnds, writing
  <2>2. IsPrefixOf(Messages(log), Messages(log))
    BY ExpectedType, PrefixSelf
  <2> QED  BY <1>9, <2>1, <2>2 DEF TroubleIsFragment, Begins, Expected
<1>10. SettleEnds => pc \in {"removing", "clearing"}
  BY DEF SettleEnds
<1>11. CASE WriterTakes
  BY <1>11, WriterBreaks
<1>12. CASE Leave \/ Kill \/ MachineStops \/ RecoverFails
  <2>1. pc' = "off"
    BY <1>12 DEF Leave, Kill, MachineStops, RecoverFails, Gone
  <2> QED  BY <2>1 DEF TroubleIsFragment, Begins, Live
<1>13. CASE Continue
  <2>1. /\ end' = "whole" /\ trouble' = trouble /\ pc = "off"
        /\ pc' \in {"recovering", "resyncing", "idle"}
        /\ pc' = "idle" => transcript' = Messages(log')
    BY <1>13 DEF Continue, writing
  <2>2. ~trouble'
    BY <2>1 DEF Waiting, HoldsNothing
  <2>3. IsPrefixOf(Messages(log'), Messages(log'))
    <3>1. log' \in Seq(LineType)
      BY <1>0 DEF IInv, TypeOK, DiskType
    <3> QED  BY <3>1, MessagesType, PrefixSelf
  <2> QED  BY <2>1, <2>2, <2>3 DEF TroubleIsFragment, Begins, Live, Opening, Expected
<1>14. CASE Recover \/ Resynced
  <2>1. /\ UNCHANGED <<end, trouble>> /\ pc # "off" /\ pc' \in {"resyncing", "clearing"}
    BY <1>14 DEF Recover, Resynced, writing
  <2> QED  BY <2>1 DEF TroubleIsFragment, Begins, Live, Opening
<1> QED
  BY <1>1, <1>2, <1>3, <1>4, <1>5, <1>6, <1>7, <1>8, <1>9, <1>10, <1>11, <1>12, <1>13, <1>14
  DEF Next

LEMMA CutInit == Init => TroubleIsFragment /\ Begins
<1> SUFFICES ASSUME Init PROVE TroubleIsFragment /\ Begins
  OBVIOUS
<1>1. /\ log = <<>> /\ end = "whole" /\ transcript = <<>> /\ pc = "idle" /\ trouble = FALSE
  BY DEF Init
<1>2. Messages(log) \in Seq(Message) /\ Expected = Messages(log)
  BY <1>1, NoMessages, TypeInit, ExpectedType DEF Expected
<1> QED  BY <1>1, <1>2, PrefixSelf DEF TroubleIsFragment, Begins

LEMMA NeverAHoleHolds ==
    ASSUME IInv, OwedIsUnsynced, Begins
    PROVE  NeverAHole
<1> SUFFICES ASSUME Live, NEW d \in Disks
             PROVE  IsPrefixOf(Messages(SettledLines(d.lines, d.sidecars)), Expected)
  BY DEF NeverAHole, Expected
<1>1. log \in Seq(LineType) /\ synced \in Nat
  BY DEF IInv, TypeOK, DiskType
<1>2. PICK n \in synced..Len(log) : d.lines = SubSeq(log, 1, n)
  BY DiskLines
<1>3. n \in 0..Len(log)
  BY <1>1
<1> DEFINE back == Messages(SettledLines(d.lines, d.sidecars))
<1>4. back \in Seq(Message) /\ IsPrefixOf(back, Messages(log))
  BY <1>1, <1>2, <1>3, SettledMessages
<1> HIDE DEF back
<1>5. IsPrefixOf(Messages(log), Expected) /\ Expected \in Seq(Message)
      /\ Messages(log) \in Seq(Message)
  BY ExpectedType DEF Begins
<1>6. IsPrefixOf(back, Expected)
  BY <1>4, <1>5, PrefixTransitive
<1> QED  BY <1>6 DEF back

\* Where a failed write leaves its fragment, trouble or not, what comes back
\* is a beginning of the conversation: after the fragment nothing is written
\* (Tail::append, replay).
THEOREM NoHoleEver ==
    ASSUME CutFaults
    PROVE  Spec => []NeverAHole
<1>1. Init => IInv /\ Waiting /\ Follows /\ TroubleIsFragment /\ Begins
  BY TypeInit, WaitingInit, FollowsInit, CutInit
<1>2. IInv /\ Waiting /\ Follows /\ TroubleIsFragment /\ Begins /\ [Next]_vars
        => (IInv /\ Waiting /\ Follows /\ TroubleIsFragment /\ Begins)'
  BY TypeInductive, WaitingInductive, FollowsInductive, CutInductive
<1>3. IInv /\ Follows /\ Begins => NeverAHole
  BY NeverAHoleHolds DEF Follows
<1> QED  BY <1>1, <1>2, <1>3, PTL DEF Spec

(***************************************************************************)
(* The shape of the log under these faults: every line is about the last   *)
(* message, a prompt or an answer of the model comes only where nothing is *)
(* asked any more, and the results are for all that was asked.             *)
(***************************************************************************)
LogShape(f) ==
    \A i \in 1..Len(f) :
        f[i].kind \in {"user", "agent"} => Outstanding(SubSeq(f, 1, i - 1)) = {}

\* `l` may come next in the log.
Fits(l) ==
    \/ l.kind \in {"started", "finished"} /\ l.call \in Outstanding(log)
    \/ l.kind = "results" /\ DOMAIN l.answers = Outstanding(log)
    \/ l.kind \in {"user", "agent"} /\ Outstanding(log) = {}

\* What the transcript asks is what the pass is about.
Asked ==
    /\ pc \in {"tools", "putting", "storing"} => Outstanding(transcript) = DOMAIN st
    /\ pc = "recording" =>
          Outstanding(transcript) = IF at.kind = "results" THEN DOMAIN st ELSE {}
    /\ pc \in {"idle", "asking", "settle", "settling", "removing"} =>
          Outstanding(transcript) = {}

\* Where sidecars are made and removed, the disk has what they are for.
Settling ==
    /\ pc \in {"removing", "resyncing", "clearing"} => Outstanding(log) = {}
    /\ pc \in {"removing", "clearing"} => synced = Len(log)
    /\ pc = "storing" =>
          /\ synced = Len(log)
          /\ at.call \in Outstanding(log)
          /\ \E r \in sidecars : r.call = at.call

AtWork == pc \in {"tools", "putting"} \/ (pc = "recording" /\ at.kind = "results")
RecordsOfPass ==
    \A i \in 1..Len(queue) :
        IsRecord(queue[i]) => queue[i].line.call \in DOMAIN st /\ AtWork

Shaped == LogShape(log) /\ Asked /\ Settling /\ RecordsOfPass

LEMMA LiveOutstanding ==
    ASSUME IInv, Follows, Live, ~trouble, pc = "recording" => ~told
    PROVE  Outstanding(log) = Outstanding(transcript)
<1>1. log \in Seq(LineType) /\ Messages(log) = transcript
  BY DEF IInv, TypeOK, DiskType, Follows, FollowsTranscript, Landed
<1> QED  BY <1>1, SameOutstanding

LEMMA HeadFits ==
    ASSUME IInv, Waiting, Follows, Memory, Shaped, ~trouble, queue # <<>>, Head(queue) # Barrier
    PROVE  /\ Live /\ Head(queue).line \in LineType /\ Fits(Head(queue).line)
           /\ \/ IsRecord(Head(queue))
              \/ pc = "recording" /\ Head(queue) = Acknowledged(at) /\ Head(queue).line = at
<1> DEFINE head == Head(queue)
<1>1. /\ head.line \in LineType /\ head = queue[1] /\ 1 \in 1..Len(queue)
  BY HeadOfQueue DEF IInv, TypeOK
<1> HIDE DEF head
<1>2. ~told /\ Live
  BY DEF Waiting, Queued, HoldsNothing, Live
<1>3. Outstanding(log) = Outstanding(transcript)
  BY <1>2, LiveOutstanding
<1>4. CASE IsRecord(head)
  <2>1. head.line.call \in DOMAIN st /\ AtWork
    BY <1>1, <1>4 DEF Shaped, RecordsOfPass
  <2>2. Outstanding(transcript) = DOMAIN st
    BY <2>1 DEF AtWork, Shaped, Asked
  <2>3. Fits(head.line)
    BY <1>3, <1>4, <2>1, <2>2 DEF Fits, IsRecord
  <2> QED  BY <1>1, <1>2, <1>4, <2>3 DEF head
<1>5. CASE ~IsRecord(head)
  <2>1. Waits /\ head = Awaited
    BY <1>1, <1>5 DEF Waiting, Queued
  <2>2. pc = "recording" /\ head = Acknowledged(at)
    BY <2>1 DEF Awaited, head
  <2>3. head.line = at
    BY <2>2 DEF Acknowledged
  <2>4. Fits(at)
    <3>1. at \in Message
      BY <2>2 DEF IInv, Held
    <3>2. CASE at.kind = "results"
      <4>1. at = Results(answers) /\ DOMAIN answers = DOMAIN st
        BY <2>2, <3>2 DEF Memory, AtIsKnown
      <4>2. at.answers = answers
        BY <4>1 DEF Results
      <4> QED  BY <1>3, <2>2, <3>2, <4>1, <4>2 DEF Fits, Shaped, Asked
    <3>3. CASE at.kind # "results"
      <4>1. at.kind \in {"user", "agent"}
        BY <3>1, <3>3 DEF Message, IsMessage
      <4> QED  BY <1>3, <2>2, <3>3, <4>1 DEF Fits, Shaped, Asked
    <3> QED  BY <3>2, <3>3
  <2> QED  BY <1>1, <1>2, <2>2, <2>3, <2>4 DEF head
<1> QED  BY <1>4, <1>5

LEMMA RecoveredFits == Fits(Recovered(log, sidecars))
BY DEF Fits, Recovered, Results

LEMMA ShapeOfMore ==
    ASSUME NEW f \in Seq(LineType), NEW l \in LineType, LogShape(f),
           l.kind \in {"user", "agent"} => Outstanding(f) = {}
    PROVE  LogShape(Append(f, l))
<1> DEFINE g == Append(f, l)
<1>1. /\ Len(f) \in Nat /\ Len(g) = Len(f) + 1 /\ g[Len(f) + 1] = l
      /\ \A i \in 1..Len(f) : g[i] = f[i]
  BY LineMore
<1>2. \A n \in 0..Len(f) : SubSeq(g, 1, n) = SubSeq(f, 1, n)
  BY FirstOfMore
<1> HIDE DEF g
<1>3. ASSUME NEW i \in 1..Len(g), g[i].kind \in {"user", "agent"}
      PROVE  Outstanding(SubSeq(g, 1, i - 1)) = {}
  <2>1. i - 1 \in 0..Len(f)
    BY <1>1
  <2>2. SubSeq(g, 1, i - 1) = SubSeq(f, 1, i - 1)
    BY <1>2, <2>1
  <2>3. CASE i \in 1..Len(f)
    BY <1>1, <1>3, <2>2, <2>3 DEF LogShape
  <2>4. CASE i = Len(f) + 1
    <3>1. SubSeq(f, 1, i - 1) = f
      BY <1>1, <2>4, AllLines
    <3> QED  BY <1>1, <1>3, <2>2, <2>4, <3>1
  <2> QED  BY <1>1, <2>3, <2>4
<1> QED  BY <1>3 DEF LogShape, g

LEMMA ShapeOfFirst ==
    ASSUME NEW f \in Seq(LineType), NEW n \in 0..Len(f), LogShape(f)
    PROVE  LogShape(SubSeq(f, 1, n))
<1> DEFINE g == SubSeq(f, 1, n)
<1>1. Len(f) \in Nat /\ Len(g) = n /\ \A i \in 1..n : g[i] = f[i]
  BY FirstLines
<1>2. \A k \in 0..n : SubSeq(g, 1, k) = SubSeq(f, 1, k)
  BY FirstOfFirst
<1> HIDE DEF g
<1>3. ASSUME NEW i \in 1..Len(g), g[i].kind \in {"user", "agent"}
      PROVE  Outstanding(SubSeq(g, 1, i - 1)) = {}
  <2>1. i \in 1..n /\ i \in 1..Len(f) /\ i - 1 \in 0..n
    BY <1>1
  <2> QED  BY <1>1, <1>2, <1>3, <2>1 DEF LogShape
<1> QED  BY <1>3 DEF LogShape, g

\* What stays of a cut log asks nothing any more.
LEMMA CutAsksNothing ==
    ASSUME NEW f \in Seq(LineType), NEW s, LogShape(f), ~Recovers(f, s)
    PROVE  Outstanding(SettledLines(f, s)) = {}
<1>1. CASE Outstanding(f) = {}
  BY <1>1 DEF SettledLines
<1>2. CASE Outstanding(f) # {}
  <2>1. LastMessage(f) \in 1..Len(f) /\ f[LastMessage(f)].kind = "agent"
    BY <1>2, LastIsLast DEF Outstanding
  <2> QED  BY <1>2, <2>1 DEF SettledLines, LogShape
<1> QED  BY <1>1, <1>2

\* What `Continue` leaves, and what a machine that stops does.
LEMMA CutStep ==
    ASSUME IInv, OwedIsUnsynced, Continue
    PROVE  \E m \in synced..Len(log) :
              /\ Readable(log, end) = SubSeq(log, 1, m)
              /\ Readable(log, end) \in Seq(LineType)
              /\ log' = SettledLines(Readable(log, end), sidecars)
<1>0. log \in Seq(LineType) /\ Len(log) \in Nat /\ synced \in 0..Len(log)
  BY DEF IInv, TypeOK, DiskType
<1>1. PICK m \in synced..Len(log) : Readable(log, end) = SubSeq(log, 1, m)
  BY ReadableIsFirst
<1>2. m \in 0..Len(log)
  BY <1>0
<1>3. Readable(log, end) \in Seq(LineType)
  BY <1>0, <1>1, <1>2, FirstLines
<1> QED  BY <1>1, <1>3 DEF Continue

LEMMA StopStep ==
    ASSUME IInv, MachineStops
    PROVE  /\ \E n \in synced..Len(log) : log' = SubSeq(log, 1, n)
           /\ synced' = synced /\ sidecars' \in SurvivingSidecars
<1>0. Len(log) \in Nat /\ synced \in 0..Len(log)
  BY DEF IInv, TypeOK, DiskType
<1>1. PICK left \in Survivors : log' = left[1]
  BY DEF MachineStops
<1>2. CASE \E n \in synced..Len(log), e \in {"whole", "fragment"} :
              left = <<SubSeq(log, 1, n), e>>
  BY <1>1, <1>2 DEF MachineStops
<1>3. CASE \E n \in (synced + 1)..Len(log) : left = <<SubSeq(log, 1, n), "unended">>
  <2>1. PICK n \in (synced + 1)..Len(log) : log' = SubSeq(log, 1, n)
    BY <1>1, <1>3
  <2>2. n \in synced..Len(log)
    BY <1>0
  <2> QED  BY <2>1, <2>2 DEF MachineStops
<1> QED  BY <1>2, <1>3 DEF Survivors

\* How the log changes under these faults.
LandsNext(l) ==
    /\ l \in LineType /\ Fits(l)
    /\ log' = Append(log, l) /\ UNCHANGED <<synced, sidecars, history>>
    /\ \/ pc = "recovering" /\ l = Recovered(log, sidecars)
       \/ /\ queue # <<>> /\ l = Head(queue).line /\ Live
          /\ IsRecord(Head(queue)) \/ (pc = "recording" /\ l = at)

LEMMA CutLogStep ==
    ASSUME CutFaults, IInv, Waiting, Follows, Memory, TroubleIsFragment, Shaped, [Next]_vars
    PROVE  \/ log' = log
           \/ \E l \in LineType : LandsNext(l)
           \/ MachineStops
           \/ Continue
<1>0. /\ end \in {"whole", "unended", "fragment"} /\ log \in Seq(LineType)
      /\ sidecars \in SUBSET Sidecar
  BY DEF IInv, TypeOK, DiskType
<1>1. CASE WriterTakes
  <2>1. CASE Head(queue) = Barrier
    BY <1>1, <2>1 DEF WriterTakes
  <2>2. CASE Head(queue) # Barrier
    <3> DEFINE l == Head(queue).line
    <3>1. PICK left \in Landings(l) : log' = left.log
      BY <1>1, <2>2 DEF WriterTakes, Land
    <3>2. end # "unended" /\ (trouble => end = "fragment") /\ queue # <<>>
      BY <1>1 DEF WriterTakes, TroubleIsFragment
    <3>3. CASE log' # log
      <4>1. left.log # log /\ left.log = Append(log, l) /\ end # "fragment"
        <5> HIDE DEF l
        <5> QED  BY <3>1, <3>2, <3>3, LandsOrBreaks
      <4>2. ~trouble
        BY <3>2, <4>1
      <4>3. UNCHANGED <<synced, sidecars, history>>
        BY <1>1 DEF WriterTakes
      <4>4. LandsNext(l)
        BY <2>2, <3>1, <3>2, <4>1, <4>2, <4>3, HeadFits DEF LandsNext
      <4>5. l \in LineType
        BY <4>4 DEF LandsNext
      <4> QED  BY <4>4, <4>5
    <3> QED  BY <3>3
  <2> QED  BY <2>1, <2>2
<1>2. CASE Kill
  <2>1. PICK left \in Interrupted : log' = left[1]
    BY <1>2 DEF Kill
  <2>2. CASE left = <<log, end>> \/ left = <<log, "fragment">>
    BY <2>1, <2>2
  <2>3. CASE /\ queue # <<>> /\ Head(queue) # Barrier /\ end = "whole"
             /\ left = <<Append(log, Head(queue).line), "unended">>
    <3>1. ~trouble /\ UNCHANGED <<synced, sidecars, history>>
      BY <1>2, <2>3 DEF Kill, TroubleIsFragment
    <3>2. LandsNext(Head(queue).line)
      BY <2>1, <2>3, <3>1, HeadFits DEF LandsNext
    <3>3. Head(queue).line \in LineType
      BY <3>2 DEF LandsNext
    <3> QED  BY <3>2, <3>3
  <2> QED  BY <2>1, <2>2, <2>3 DEF Interrupted
<1>3. CASE Recover
  <2>1. Recovered(log, sidecars) \in LineType
    BY <1>0, RecoveredType DEF Message
  <2>2. LandsNext(Recovered(log, sidecars))
    BY <1>3, <2>1, RecoveredFits DEF LandsNext, Recover
  <2> QED  BY <2>1, <2>2
<1>4. CASE RecoverFails
  <2>1. PICK left \in Landings(Recovered(log, sidecars)) : left.bad /\ log' = left.log
    BY <1>4 DEF RecoverFails
  <2>2. end # "unended"
    BY <1>4 DEF TroubleIsFragment, RecoverFails
  <2> DEFINE l == Recovered(log, sidecars)
  <2> HIDE DEF l
  <2>3. log' = log
    BY <2>1, <2>2, LandsOrBreaks DEF l
  <2> QED  BY <2>3
<1>5. CASE ~WriterTakes /\ ~Kill /\ ~MachineStops /\ ~Continue /\ ~Recover /\ ~RecoverFails
  BY <1>5, LogStays
<1> QED  BY <1>1, <1>2, <1>3, <1>4, <1>5

LEMMA LogShapeStep ==
    ASSUME CutFaults, IInv, Waiting, Follows, Memory, TroubleIsFragment, Shaped, [Next]_vars
    PROVE  LogShape(log)'
<1>0. /\ log \in Seq(LineType) /\ Len(log) \in Nat /\ synced \in 0..Len(log) /\ LogShape(log)
  BY DEF IInv, TypeOK, DiskType, Shaped
<1>1. ASSUME NEW f, f = log', LogShape(f) PROVE LogShape(log)'
  BY <1>1 DEF LogShape
<1>2. CASE log' = log
  BY <1>0, <1>1, <1>2
<1>3. ASSUME NEW l \in LineType, LandsNext(l) PROVE LogShape(log)'
  <2>1. l.kind \in {"user", "agent"} => Outstanding(log) = {}
    BY <1>3 DEF LandsNext, Fits
  <2>2. LogShape(Append(log, l))
    BY <1>0, <2>1, ShapeOfMore
  <2>3. log' = Append(log, l)
    BY <1>3 DEF LandsNext
  <2> QED  BY <1>1, <2>2, <2>3
<1>4. ASSUME NEW n \in 0..Len(log), log' = SubSeq(log, 1, n) PROVE LogShape(log)'
  <2>1. LogShape(SubSeq(log, 1, n))
    BY <1>0, ShapeOfFirst
  <2> QED  BY <1>1, <1>4, <2>1
<1>5. CASE MachineStops
  <2>1. PICK n \in synced..Len(log) : log' = SubSeq(log, 1, n)
    BY <1>5, StopStep
  <2>2. n \in 0..Len(log)
    BY <1>0
  <2> QED  BY <1>4, <2>1, <2>2
<1>6. CASE Continue
  <2> DEFINE f == Readable(log, end)
  <2>1. PICK m \in synced..Len(log) :
            /\ f = SubSeq(log, 1, m) /\ f \in Seq(LineType)
            /\ log' = SettledLines(f, sidecars)
    BY <1>6, CutStep DEF Follows
  <2> HIDE DEF f
  <2>2. m \in 0..Len(log)
    BY <1>0
  <2>3. LogShape(f)
    BY <1>0, <2>1, <2>2, ShapeOfFirst
  <2>4. PICK n \in 0..Len(f) : log' = SubSeq(f, 1, n)
    BY <2>1, SettledIsFirst
  <2>5. LogShape(SubSeq(f, 1, n))
    BY <2>1, <2>3, ShapeOfFirst
  <2> QED  BY <1>1, <2>4, <2>5
<1> QED  BY <1>2, <1>3, <1>5, <1>6, CutLogStep

LEMMA AtOfPass ==
    ASSUME IInv, Memory, pc = "recording"
    PROVE  /\ at \in Message
           /\ at.kind = "agent" => at.calls = DOMAIN st
<1>1. at \in Message
  BY DEF IInv, Held
<1>2. at = Results(answers) => at.kind = "results"
  BY DEF Results
<1> QED  BY <1>1, <1>2 DEF Memory, AtIsKnown

LEMMA MessageAsked ==
    ASSUME IInv, Shaped, NEW m, Record(m),
           \/ pc \in {"idle", "asking"} /\ m.kind # "results"
           \/ pc = "tools" /\ m.kind = "results" /\ st' = st
    PROVE  Asked' /\ Settling'
<1>1. pc' = "recording" /\ at' = m /\ transcript' = transcript
  BY DEF Record
<1>2. Outstanding(transcript) = IF m.kind = "results" THEN DOMAIN st' ELSE {}
  BY DEF Shaped, Asked
<1> QED  BY <1>1, <1>2 DEF Asked, Settling

LEMMA RunnerAsked ==
    ASSUME IInv, Waiting, Follows, Memory, Shaped,
           \/ Say \/ Recorded \/ TurnEnds \/ \E asked \in SUBSET Calls : ModelAnswers(asked)
           \/ \E c \in DOMAIN st : Start(c) \/ Run(c) \/ Finish(c) \/ Refuse(c) \/ Put(c)
           \/ PassEnds
    PROVE  Asked' /\ Settling'
<1>1. CASE Say
  <2>1. User(turns + 1).kind # "results"
    BY DEF User
  <2> QED  BY <1>1, <2>1, MessageAsked DEF Say
<1>2. ASSUME NEW asked \in SUBSET Calls, ModelAnswers(asked) PROVE Asked' /\ Settling'
  <2>1. Agent(passes + 1, {passes + 1} \X asked).kind # "results"
    BY DEF Agent
  <2> QED  BY <1>2, <2>1, MessageAsked DEF ModelAnswers
<1>3. CASE PassEnds
  <2>1. Results(answers).kind = "results"
    BY DEF Results
  <2> QED  BY <1>3, <2>1, MessageAsked DEF PassEnds
<1>4. CASE Recorded
  <2>1. /\ pc = "recording" /\ at \in Message /\ transcript \in Seq(Message)
        /\ at.kind = "agent" => at.calls = DOMAIN st
    BY <1>4, AtOfPass DEF Recorded, IInv, TypeOK, RunningType
  <2>2. Outstanding(Append(transcript, at)) = IF at.kind = "agent" THEN at.calls ELSE {}
    BY <2>1, OutstandingOfMessages
  <2>3. /\ transcript' = Append(transcript, at) /\ st' = st
        /\ at.kind = "user" => pc' = "asking"
        /\ at.kind = "agent" => pc' = IF at.calls = {} THEN "idle" ELSE "tools"
        /\ at.kind = "results" => pc' = "settle"
    BY <1>4 DEF Recorded
  <2>4. at.kind \in {"user", "agent", "results"}
    BY <2>1 DEF Message, IsMessage
  <2>5. Asked'
    BY <2>1, <2>2, <2>3, <2>4 DEF Asked
  <2>6. Settling'
    BY <2>3, <2>4 DEF Settling
  <2> QED  BY <2>5, <2>6
<1>5. CASE TurnEnds
  BY <1>5 DEF TurnEnds, Asked, Settling, Shaped
<1>6. CASE \E c \in DOMAIN st : Start(c) \/ Run(c) \/ Finish(c) \/ Refuse(c) \/ Put(c)
  <2>1. /\ pc = "tools" /\ pc' \in {"tools", "putting"} /\ transcript' = transcript
        /\ DOMAIN st' = DOMAIN st
    BY <1>6 DEF Start, Run, Finish, Refuse, Put
  <2> QED  BY <2>1 DEF Asked, Settling, Shaped
<1> QED  BY <1>1, <1>2, <1>3, <1>4, <1>5, <1>6

LEMMA KeepingAsked ==
    ASSUME IInv, Waiting, Follows, Memory, Shaped, SourceSynced \/ Stored \/ StoringFails
    PROVE  Asked' /\ Settling'
<1>0. st \in [DOMAIN st -> CallState]
  BY DEF IInv, TypeOK, RunningType
<1>1. transcript' = transcript /\ DOMAIN st' = DOMAIN st
  BY <1>0 DEF SourceSynced, Stored, StoringFails
<1>2. pc \in {"putting", "storing"} /\ pc' \in {"tools", "storing"}
  BY DEF SourceSynced, Stored, StoringFails
<1>3. Asked'
  BY <1>1, <1>2 DEF Asked, Shaped
<1>4. CASE pc' = "tools"
  BY <1>3, <1>4 DEF Settling
<1>5. CASE SourceSynced /\ ~trouble
  <2>1. PICK c \in DOMAIN st : at = [kind |-> "call", call |-> c]
    BY <1>5 DEF SourceSynced, IInv, Held
  <2>2. at.call = c
    BY <2>1
  <2>3. pc = "putting" /\ Outstanding(log) = DOMAIN st
    <3>1. pc = "putting" /\ ~trouble
      BY <1>5 DEF SourceSynced
    <3>2. Outstanding(transcript) = DOMAIN st
      BY <3>1 DEF Shaped, Asked
    <3>3. Live
      BY <3>1 DEF Live, Opening
    <3> QED  BY <3>1, <3>2, <3>3, LiveOutstanding
  <2>4. /\ UNCHANGED <<log, at>> /\ pc' = "storing" /\ synced' = Len(log)
    BY <1>5 DEF SourceSynced, SyncAll
  <2>5. \E r \in sidecars' : r.call = at.call
    <3> DEFINE made == [call |-> at.call, answer |-> "done", state |-> "partial"]
    <3>1. made \in sidecars' /\ made.call = at.call
      BY <1>5 DEF SourceSynced
    <3> QED  BY <3>1
  <2> QED  BY <1>3, <2>2, <2>3, <2>4, <2>5 DEF Settling
<1>6. pc' = "tools" \/ (SourceSynced /\ ~trouble)
  BY DEF SourceSynced, Stored, StoringFails
<1> QED  BY <1>4, <1>5, <1>6

LEMMA SettleAsked ==
    ASSUME IInv, Waiting, Follows, Memory, Shaped,
           SettleLooks \/ SettleSynced \/ (\E r \in sidecars : Remove(r))
              \/ RemovalFails \/ SettleEnds
    PROVE  Asked' /\ Settling'
<1>1. CASE SettleLooks
  <2>1. pc = "settle" /\ pc' \in {"asking", "settling"} /\ transcript' = transcript
    BY <1>1 DEF SettleLooks
  <2> QED  BY <2>1 DEF Asked, Settling, Shaped
<1>2. CASE SettleSynced
  <2>1. pc = "settling" /\ pc' \in {"asking", "removing"} /\ UNCHANGED <<transcript, log>>
    BY <1>2 DEF SettleSynced
  <2>2. pc' = "removing" => ~trouble /\ synced' = Len(log)
    BY <1>2 DEF SettleSynced, SyncAll
  <2>3. pc' = "removing" => Outstanding(log) = {}
    BY <2>1, <2>2, LiveOutstanding DEF Shaped, Asked, Live, Opening
  <2> QED  BY <2>1, <2>2, <2>3 DEF Asked, Settling, Shaped
<1>3. CASE \E r \in sidecars : Remove(r)
  <2>1. UNCHANGED <<log, synced, pc, transcript, st, at>> /\ pc \in {"removing", "clearing"}
    BY <1>3 DEF Remove, running
  <2> QED  BY <2>1 DEF Asked, Settling, Shaped
<1>4. CASE RemovalFails
  <2>1. /\ \/ pc = "removing" /\ pc' = "asking"
           \/ pc = "clearing" /\ pc' = "off"
        /\ transcript' = transcript
    BY <1>4 DEF RemovalFails
  <2> QED  BY <2>1 DEF Asked, Settling, Shaped
<1>5. CASE SettleEnds /\ pc = "removing"
  <2>1. pc' = "asking" /\ transcript' = transcript
    BY <1>5 DEF SettleEnds
  <2> QED  BY <1>5, <2>1 DEF Asked, Settling, Shaped
<1>6. CASE SettleEnds /\ pc = "clearing"
  <2>1. pc' = "idle" /\ transcript' = Messages(log) /\ log \in Seq(LineType)
    BY <1>6 DEF SettleEnds, IInv, TypeOK, DiskType
  <2>2. Outstanding(transcript') = {}
    BY <1>6, <2>1, SameOutstanding DEF Shaped, Settling
  <2> QED  BY <2>1, <2>2 DEF Asked, Settling
<1>7. SettleEnds => pc \in {"removing", "clearing"}
  BY DEF SettleEnds
<1> QED  BY <1>1, <1>2, <1>3, <1>4, <1>5, <1>6, <1>7

LEMMA ProcessAsked ==
    ASSUME IInv, Waiting, Follows, Shaped,
           \/ WriterTakes \/ Leave \/ Kill \/ MachineStops
           \/ Continue \/ Recover \/ RecoverFails \/ Resynced
    PROVE  Asked' /\ Settling'
<1>0. /\ log \in Seq(LineType) /\ Len(log) \in Nat /\ synced \in 0..Len(log)
      /\ sidecars \in SUBSET Sidecar
  BY DEF IInv, TypeOK, DiskType
<1>1. CASE WriterTakes
  <2>1. UNCHANGED <<pc, at, transcript, st>> /\ queue # <<>>
    BY <1>1 DEF WriterTakes, running
  <2>2. pc = "tools" \/ Waits
    BY <2>1 DEF Waiting, Queued
  <2>3. pc' \notin {"removing", "resyncing", "clearing", "storing"}
    BY <2>1, <2>2 DEF Waits
  <2> QED  BY <2>1, <2>3 DEF Asked, Settling, Shaped
<1>2. CASE Leave \/ Kill \/ MachineStops \/ RecoverFails
  <2>1. pc' = "off"
    BY <1>2 DEF Leave, Kill, MachineStops, RecoverFails, Gone
  <2> QED  BY <2>1 DEF Asked, Settling
<1>3. CASE Continue
  <2> DEFINE f == Readable(log, end)
  <2>1. PICK m \in synced..Len(log) :
            /\ f = SubSeq(log, 1, m) /\ f \in Seq(LineType)
            /\ log' = SettledLines(f, sidecars)
    BY <1>3, CutStep DEF Follows
  <2>2. /\ pc' \in {"recovering", "resyncing", "idle"}
        /\ pc' # "recovering" => ~Recovers(f, sidecars)
        /\ pc' = "idle" => transcript' = Messages(log')
    BY <1>3 DEF Continue
  <2> HIDE DEF f
  <2>3. m \in 0..Len(log)
    BY <1>0
  <2>4. LogShape(f)
    BY <1>0, <2>1, <2>3, ShapeOfFirst DEF Shaped
  <2>5. pc' # "recovering" => Outstanding(log') = {}
    BY <2>1, <2>2, <2>4, CutAsksNothing
  <2>6. log' \in Seq(LineType)
    BY <2>1, SettledIsFirst
  <2>7. pc' = "idle" => Outstanding(transcript') = {}
    BY <2>2, <2>5, <2>6, SameOutstanding
  <2> QED  BY <2>2, <2>5, <2>7 DEF Asked, Settling
<1>4. CASE Recover
  <2>1. pc' = "resyncing" /\ log' = Append(log, Recovered(log, sidecars))
    BY <1>4 DEF Recover
  <2>2. Recovered(log, sidecars) \in LineType /\ IsMessage(Recovered(log, sidecars))
        /\ Recovered(log, sidecars).kind = "results"
    BY <1>0, RecoveredType DEF Message, Recovered, Results
  <2>3. Outstanding(log') = {}
    BY <1>0, <2>1, <2>2, OutstandingOfMore
  <2> QED  BY <2>1, <2>3 DEF Asked, Settling
<1>5. CASE Resynced
  <2>1. pc = "resyncing" /\ pc' = "clearing" /\ log' = log /\ synced' = Len(log)
    BY <1>5 DEF Resynced, SyncAll
  <2> QED  BY <2>1 DEF Asked, Settling, Shaped
<1> QED  BY <1>1, <1>2, <1>3, <1>4, <1>5

\* While records of the pass are queued, the pass goes on, or the queue is
\* gone with the process.
LEMMA PassGoesOn ==
    ASSUME [Next]_vars, AtWork, ~told
    PROVE  Len(queue') = 0 \/ (DOMAIN st' = DOMAIN st /\ AtWork')
<1>1. CASE \E c \in DOMAIN st : Start(c) \/ Run(c) \/ Finish(c) \/ Refuse(c) \/ Put(c)
  <2>1. pc' \in {"tools", "putting"} /\ DOMAIN st' = DOMAIN st
    BY <1>1 DEF Start, Run, Finish, Refuse, Put
  <2> QED  BY <2>1 DEF AtWork
<1>2. CASE PassEnds
  <2>1. pc' = "recording" /\ at' = Results(answers) /\ st' = st
    BY <1>2 DEF PassEnds, Record
  <2> QED  BY <2>1 DEF AtWork, Results
<1>3. CASE UNCHANGED vars \/ WriterTakes
  <2>1. UNCHANGED <<pc, at, st>>
    BY <1>3 DEF vars, running, WriterTakes
  <2> QED  BY <2>1 DEF AtWork
<1>4. CASE Leave \/ Kill \/ MachineStops
  <2>1. queue' = <<>>
    BY <1>4 DEF Leave, Kill, MachineStops, Gone
  <2> QED  BY <2>1, EmptySequence
<1>5. ~Say /\ ~TurnEnds /\ ~(\E asked \in SUBSET Calls : ModelAnswers(asked))
  BY DEF Say, TurnEnds, ModelAnswers, AtWork
<1>6. ~Recorded /\ ~SourceSynced /\ ~Stored /\ ~StoringFails
  BY DEF Recorded, SourceSynced, Stored, StoringFails, AtWork
<1>7. /\ ~SettleLooks /\ ~SettleSynced /\ ~(\E r \in sidecars : Remove(r))
      /\ ~RemovalFails /\ ~SettleEnds
  BY DEF SettleLooks, SettleSynced, Remove, RemovalFails, SettleEnds, AtWork
<1>8. ~Continue /\ ~Recover /\ ~RecoverFails /\ ~Resynced
  BY DEF Continue, Recover, RecoverFails, Resynced, AtWork
<1> QED  BY <1>1, <1>2, <1>3, <1>4, <1>5, <1>6, <1>7, <1>8 DEF Next

LEMMA RecordsStep ==
    ASSUME IInv, Waiting, RecordsOfPass, [Next]_vars
    PROVE  RecordsOfPass'
<1>1. ASSUME NEW i \in 1..Len(queue'), IsRecord(queue'[i])
      PROVE  queue'[i].line.call \in DOMAIN st' /\ AtWork'
  <2>1. CASE \E j \in 1..Len(queue) : queue'[i] = queue[j]
    <3>1. PICK j \in 1..Len(queue) : queue'[i] = queue[j]
      BY <2>1
    <3>2. queue[j].line.call \in DOMAIN st /\ AtWork
      BY <1>1, <3>1 DEF RecordsOfPass
    <3>3. ~told
      <4>1. queue # <<>>
        BY EmptySequence
      <4> QED  BY <4>1 DEF Waiting, Queued
    <3>4. Len(queue') # 0
      OBVIOUS
    <3> QED  BY <3>1, <3>2, <3>3, <3>4, PassGoesOn
  <2>2. ASSUME NEW c \in DOMAIN st, Start(c), queue'[i] = Line(Started(c))
        PROVE  queue'[i].line.call \in DOMAIN st' /\ AtWork'
    BY <2>2 DEF Start, Line, Started, AtWork
  <2>3. ASSUME NEW c \in DOMAIN st, Finish(c), queue'[i] = Line(Finished(c, AnswerOf(st[c])))
        PROVE  queue'[i].line.call \in DOMAIN st' /\ AtWork'
    BY <2>3 DEF Finish, Line, Finished, AtWork
  <2> QED  BY <1>1, <2>1, <2>2, <2>3, QueueStep
<1> QED  BY <1>1 DEF RecordsOfPass, IsRecord

LEMMA ShapedInductive ==
    ASSUME CutFaults
    PROVE  IInv /\ Waiting /\ Follows /\ Memory /\ TroubleIsFragment /\ Shaped /\ [Next]_vars
              => Shaped'
<1> SUFFICES ASSUME IInv, Waiting, Follows, Memory, TroubleIsFragment, Shaped, [Next]_vars
             PROVE  Shaped'
  OBVIOUS
<1>1. LogShape(log)'
  BY LogShapeStep
<1>2. RecordsOfPass'
  BY RecordsStep DEF Shaped
<1>3. Asked' /\ Settling'
  <2>1. CASE UNCHANGED vars
    BY <2>1 DEF vars, disk, writing, running, Shaped, Asked, Settling
  <2>2. CASE \/ Say \/ Recorded \/ TurnEnds \/ \E asked \in SUBSET Calls : ModelAnswers(asked)
             \/ \E c \in DOMAIN st : Start(c) \/ Run(c) \/ Finish(c) \/ Refuse(c) \/ Put(c)
             \/ PassEnds
    BY <2>2, RunnerAsked
  <2>3. CASE SourceSynced \/ Stored \/ StoringFails
    BY <2>3, KeepingAsked
  <2>4. CASE SettleLooks \/ SettleSynced \/ (\E r \in sidecars : Remove(r))
             \/ RemovalFails \/ SettleEnds
    BY <2>4, SettleAsked
  <2>5. CASE \/ WriterTakes \/ Leave \/ Kill \/ MachineStops
             \/ Continue \/ Recover \/ RecoverFails \/ Resynced
    BY <2>5, ProcessAsked
  <2> QED  BY <2>1, <2>2, <2>3, <2>4, <2>5 DEF Next
<1> QED  BY <1>1, <1>2, <1>3 DEF Shaped

LEMMA ShapedInit == Init => Shaped
<1> SUFFICES ASSUME Init PROVE Shaped
  OBVIOUS
<1>1. /\ log = <<>> /\ transcript = <<>> /\ queue = <<>> /\ pc = "idle"
      /\ Len(log) = 0 /\ Len(queue) = 0
  BY EmptySequence DEF Init
<1>2. Outstanding(transcript) = {}
  BY <1>1, EmptySequence, AllMessages
<1> QED  BY <1>1, <1>2 DEF Shaped, LogShape, Asked, Settling, RecordsOfPass

(***************************************************************************)
(* What was started is told.  In every beginning of the log, a call whose  *)
(* start is in it is still asked, or was answered, and with what says that *)
(* it ran where it did (E: the calls that did).                            *)
(***************************************************************************)
Ran == {"done", "failed", "mayhaverun"}

ToldOf(f, E) ==
    \A c \in CallId : \A i \in 1..Len(f) :
        f[i] = Started(c) =>
            \/ c \in Outstanding(f) /\ LastMessage(f) < i
            \/ \E a \in Answer : <<c, a>> \in AnsweredIn(f) /\ (c \in E => a \in Ran)

StartsAreTold == \A n \in 0..Len(log) : ToldOf(SubSeq(log, 1, n), effects)

LEMMA RecoveredEffect ==
    ASSUME NEW f \in Seq(LineType), NEW s, NEW c \in effects, NEW i \in 1..Len(f),
           \A k \in 1..Len(f) : Agrees(f[k]), \A r \in s : r.answer = "done",
           c \in Outstanding(f), LastMessage(f) <= i, f[i] = Started(c)
    PROVE  RecoveredAnswer(f, s, c) \in Ran
<1>0. LastMessage(f) \in 1..Len(f) /\ Len(f) \in Nat
  BY LastIsLast DEF Outstanding
<1>1. c \in StartedIn(f)
  <2>1. i \in LastMessage(f)..Len(f)
    BY <1>0
  <2> QED  BY <2>1 DEF StartedIn
<1>2. CASE \E r \in Pending(f, s) : r.call = c
  <2>1. Pending(f, s) \subseteq s
    BY DEF Pending, Visible
  <2>2. RecoveredAnswer(f, s, c) = "done"
    BY <1>2, <2>1 DEF RecoveredAnswer
  <2> QED  BY <2>2 DEF Ran
<1>3. CASE ~(\E r \in Pending(f, s) : r.call = c) /\ FinishedWith(f, c) # {}
  <2> DEFINE a == RecoveredAnswer(f, s, c)
  <2>1. a \in FinishedWith(f, c)
    BY <1>3 DEF RecoveredAnswer, FinishedWith
  <2> HIDE DEF a
  <2>2. PICK k \in LastMessage(f)..Len(f) : f[k] = Finished(c, a)
    BY <2>1 DEF FinishedWith
  <2>3. k \in 1..Len(f)
    BY <1>0
  <2>4. f[k].kind = "finished" /\ f[k].call = c /\ f[k].answer = a
    BY <2>2 DEF Finished
  <2>5. a \in {"done", "failed"}
    BY <2>3, <2>4 DEF Agrees
  <2> QED  BY <2>5 DEF Ran, a
<1>4. CASE ~(\E r \in Pending(f, s) : r.call = c) /\ FinishedWith(f, c) = {}
  <2>1. RecoveredAnswer(f, s, c) = "mayhaverun"
    BY <1>1, <1>4 DEF RecoveredAnswer
  <2> QED  BY <2>1 DEF Ran
<1> QED  BY <1>2, <1>3, <1>4

\* The results that land say what ran, to whom it is asked of.
LEMMA ResultsTell ==
    ASSUME IInv, Memory, Agreeing, NEW l \in LineType, LandsNext(l), l.kind = "results",
           NEW c \in Outstanding(log), NEW i \in 1..Len(log),
           log[i] = Started(c), LastMessage(log) < i
    PROVE  /\ c \in DOMAIN l.answers /\ l.answers[c] \in Answer
           /\ c \in effects => l.answers[c] \in Ran
<1>0. log \in Seq(LineType) /\ sidecars \in SUBSET Sidecar
  BY DEF IInv, TypeOK, DiskType
<1>1. DOMAIN l.answers = Outstanding(log)
  BY DEF LandsNext, Fits
<1>2. l.answers[c] \in Answer
  <2>1. l.answers \in UNION {[asked -> Answer] : asked \in SUBSET CallId}
    BY DEF LineType
  <2>2. PICK asked \in SUBSET CallId : l.answers \in [asked -> Answer]
    BY <2>1
  <2>3. DOMAIN l.answers = asked
    BY <2>2
  <2> QED  BY <1>1, <2>2, <2>3
<1>3. CASE pc = "recovering" /\ l = Recovered(log, sidecars)
  <2>1. l.answers[c] = RecoveredAnswer(log, sidecars, c)
    BY <1>3 DEF Recovered, Results
  <2>2. \A k \in 1..Len(log) : Agrees(log[k])
    BY DEF Agreeing, LogAgrees
  <2>3. \A r \in sidecars : r.answer = "done"
    BY DEF Agreeing, SidecarsAgree
  <2>4. LastMessage(log) <= i
    BY <1>0, LastIsLast
  <2>5. c \in effects => RecoveredAnswer(log, sidecars, c) \in Ran
    BY <1>0, <2>2, <2>3, <2>4, RecoveredEffect
  <2> QED  BY <1>1, <1>2, <2>1, <2>5
<1>4. CASE pc = "recording" /\ l = at
  <2>1. at = Results(answers) /\ DOMAIN answers = DOMAIN st
    BY <1>4 DEF Memory, AtIsKnown
  <2>2. l.answers = answers
    BY <1>4, <2>1 DEF Results
  <2>3. c \in DOMAIN answers /\ c \in DOMAIN st
    BY <1>1, <2>1, <2>2
  <2>4. c \in effects => answers[c] \in {"done", "failed"}
    BY <2>3 DEF Memory, CallKnown
  <2> QED  BY <1>1, <1>2, <2>2, <2>4 DEF Ran
<1>5. CASE IsRecord(Head(queue)) /\ l = Head(queue).line
  BY <1>5 DEF IsRecord
<1> QED  BY <1>3, <1>4, <1>5 DEF LandsNext

LEMMA ToldOfMore ==
    ASSUME IInv, Memory, Agreeing, NEW l \in LineType, LandsNext(l), ToldOf(log, effects)
    PROVE  ToldOf(Append(log, l), effects)
<1> DEFINE g == Append(log, l)
<1>0. log \in Seq(LineType) /\ Len(log) \in Nat /\ LastMessage(log) \in 0..Len(log)
  BY LastIsLast DEF IInv, TypeOK, DiskType
<1>1. /\ Len(g) = Len(log) + 1 /\ g[Len(log) + 1] = l
      /\ \A i \in 1..Len(log) : g[i] = log[i]
  BY <1>0, LineMore
<1>2. /\ ~IsMessage(l) => Outstanding(g) = Outstanding(log) /\ LastMessage(g) = LastMessage(log)
      /\ \A c, a : <<c, a>> \in AnsweredIn(g) <=>
            \/ <<c, a>> \in AnsweredIn(log)
            \/ l.kind = "results" /\ c \in DOMAIN l.answers /\ a = l.answers[c]
  BY <1>0, OutstandingOfMore, LastOfMore, AnswersOfMore
<1> HIDE DEF g
<1>3. ASSUME NEW c \in CallId, NEW i \in 1..Len(g), g[i] = Started(c)
      PROVE  \/ c \in Outstanding(g) /\ LastMessage(g) < i
             \/ \E a \in Answer : <<c, a>> \in AnsweredIn(g) /\ (c \in effects => a \in Ran)
  <2>1. CASE i \in 1..Len(log)
    <3>1. log[i] = Started(c)
      BY <1>1, <1>3, <2>1
    <3>2. CASE \E a \in Answer : <<c, a>> \in AnsweredIn(log) /\ (c \in effects => a \in Ran)
      BY <1>2, <3>2
    <3>3. CASE c \in Outstanding(log) /\ LastMessage(log) < i
      <4>1. CASE l.kind \in {"started", "finished"}
        <5>1. ~IsMessage(l)
          BY <4>1 DEF IsMessage
        <5> QED  BY <1>2, <3>3, <5>1
      <4>2. CASE l.kind = "results"
        BY <1>2, <2>1, <3>1, <3>3, <4>2, ResultsTell
      <4>3. CASE l.kind \in {"user", "agent"}
        BY <3>3, <4>3 DEF LandsNext, Fits
      <4> QED  BY <4>1, <4>2, <4>3 DEF LandsNext, Fits
    <3> QED  BY <2>1, <3>1, <3>2, <3>3 DEF ToldOf
  <2>2. CASE i = Len(log) + 1
    <3>1. l = Started(c)
      BY <1>1, <1>3, <2>2
    <3>2. l.kind = "started" /\ l.call = c /\ ~IsMessage(l)
      BY <3>1 DEF Started, IsMessage
    <3>3. c \in Outstanding(log)
      BY <3>2 DEF LandsNext, Fits
    <3>4. LastMessage(g) < i
      BY <1>0, <1>2, <2>2, <3>2
    <3> QED  BY <1>2, <3>2, <3>3, <3>4
  <2>3. i \in 1..Len(log) \/ i = Len(log) + 1
    BY <1>0, <1>1
  <2> QED  BY <2>1, <2>2, <2>3
<1> QED  BY <1>3 DEF ToldOf, g

\* A call that does in this step what it was asked is not answered yet.
LEMMA AnsweredIsPast ==
    ASSUME IInv, Agreeing, Grows, NEW n \in 0..Len(log), NEW c \in effects', NEW a,
           <<c, a>> \in AnsweredIn(SubSeq(log, 1, n))
    PROVE  c \in effects
<1>1. log \in Seq(LineType)
  BY DEF IInv, TypeOK, DiskType
<1>2. <<c, a>> \in AnsweredIn(log)
  BY <1>1, AnswersOfFirst
<1>3. PICK i \in 1..Len(log) : log[i].kind = "results" /\ c \in DOMAIN log[i].answers
  BY <1>2, Answers
<1>4. c \in DOMAIN st => c \in DOMAIN answers
  BY <1>3 DEF Agreeing, LogAgrees, Agrees
<1> QED  BY <1>4 DEF Grows

LEMMA ToldOfFirst ==
    ASSUME NEW f \in Seq(LineType), NEW E, \A n \in 0..Len(f) : ToldOf(SubSeq(f, 1, n), E),
           NEW m \in 0..Len(f)
    PROVE  \A n \in 0..Len(SubSeq(f, 1, m)) : ToldOf(SubSeq(SubSeq(f, 1, m), 1, n), E)
<1> SUFFICES ASSUME NEW n \in 0..Len(SubSeq(f, 1, m))
             PROVE  ToldOf(SubSeq(SubSeq(f, 1, m), 1, n), E)
  OBVIOUS
<1>1. n \in 0..m /\ n \in 0..Len(f)
  BY FirstLines
<1>2. SubSeq(SubSeq(f, 1, m), 1, n) = SubSeq(f, 1, n)
  BY <1>1, FirstOfFirst
<1> QED  BY <1>1, <1>2

LEMMA StartsStep ==
    ASSUME CutFaults, IInv, Waiting, Follows, Memory, Agreeing, Grows, TroubleIsFragment,
           Shaped, StartsAreTold, [Next]_vars
    PROVE  StartsAreTold'
<1>0. /\ log \in Seq(LineType) /\ Len(log) \in Nat /\ synced \in 0..Len(log)
  BY DEF IInv, TypeOK, DiskType
<1>1. CASE log' = log
  <2>1. ASSUME NEW n \in 0..Len(log), NEW f, f = SubSeq(log, 1, n)
        PROVE  ToldOf(f, effects')
    <3>1. ToldOf(f, effects)
      BY <2>1 DEF StartsAreTold
    <3>2. \A c \in CallId, a \in Answer :
              <<c, a>> \in AnsweredIn(f) /\ c \in effects' => c \in effects
      BY <2>1, AnsweredIsPast
    <3>3. \A c \in CallId, a \in Answer :
              /\ <<c, a>> \in AnsweredIn(f) /\ (c \in effects => a \in Ran)
              => (c \in effects' => a \in Ran)
      BY <3>2
    <3>4. \A c \in CallId :
              (\E a \in Answer : <<c, a>> \in AnsweredIn(f) /\ (c \in effects => a \in Ran))
              => \E a \in Answer : <<c, a>> \in AnsweredIn(f) /\ (c \in effects' => a \in Ran)
      BY <3>3
    <3> QED  BY <3>1, <3>4 DEF ToldOf
  <2> QED  BY <1>1, <2>1 DEF StartsAreTold
<1>2. ASSUME NEW l \in LineType, LandsNext(l) PROVE StartsAreTold'
  <2>1. log' = Append(log, l) /\ effects' = effects /\ Len(Append(log, l)) = Len(log) + 1
        /\ Append(log, l) \in Seq(LineType)
    BY <1>0, <1>2, LineMore DEF LandsNext, history
  <2>2. Len(log) \in 0..Len(log) /\ SubSeq(log, 1, Len(log)) = log
    BY <1>0, AllLines
  <2>3. ToldOf(log, effects)
    BY <2>2 DEF StartsAreTold
  <2>4. ToldOf(Append(log, l), effects)
    BY <1>2, <2>3, ToldOfMore
  <2>5. ASSUME NEW n \in 0..Len(log) + 1
        PROVE  ToldOf(SubSeq(Append(log, l), 1, n), effects)
    <3>1. CASE n \in 0..Len(log)
      <4>1. SubSeq(Append(log, l), 1, n) = SubSeq(log, 1, n)
        BY <1>0, <3>1, FirstOfMore
      <4> QED  BY <3>1, <4>1 DEF StartsAreTold
    <3>2. CASE n = Len(log) + 1
      <4>1. SubSeq(Append(log, l), 1, n) = Append(log, l)
        BY <2>1, <3>2, AllLines
      <4> QED  BY <2>4, <4>1
    <3> QED  BY <1>0, <3>1, <3>2
  <2> QED  BY <2>1, <2>5 DEF StartsAreTold
<1>3. ASSUME NEW m \in 0..Len(log), NEW f, f = SubSeq(log, 1, m)
      PROVE  \A n \in 0..Len(f) : ToldOf(SubSeq(f, 1, n), effects)
  BY <1>0, <1>3, ToldOfFirst DEF StartsAreTold
<1>4. CASE MachineStops
  <2>1. PICK n \in synced..Len(log) : log' = SubSeq(log, 1, n)
    BY <1>4, StopStep
  <2>2. n \in 0..Len(log) /\ effects' = effects
    BY <1>0, <1>4 DEF MachineStops, history
  <2> QED  BY <1>3, <2>1, <2>2 DEF StartsAreTold
<1>5. CASE Continue
  <2> DEFINE f == Readable(log, end)
  <2>1. PICK m \in synced..Len(log) :
            /\ f = SubSeq(log, 1, m) /\ f \in Seq(LineType)
            /\ log' = SettledLines(f, sidecars)
    BY <1>5, CutStep DEF Follows
  <2> HIDE DEF f
  <2>2. m \in 0..Len(log) /\ effects' = effects
    BY <1>0, <1>5 DEF Continue, history
  <2>3. PICK n \in 0..Len(f) : log' = SubSeq(f, 1, n)
    BY <2>1, SettledIsFirst
  <2>4. \A k \in 0..Len(f) : ToldOf(SubSeq(f, 1, k), effects)
    BY <1>3, <2>1, <2>2
  <2>5. \A k \in 0..Len(SubSeq(f, 1, n)) : ToldOf(SubSeq(SubSeq(f, 1, n), 1, k), effects)
    BY <2>1, <2>4, ToldOfFirst
  <2> QED  BY <2>2, <2>3, <2>5 DEF StartsAreTold
<1> QED  BY <1>1, <1>2, <1>4, <1>5, CutLogStep

LEMMA StartsInit == Init => StartsAreTold
<1> SUFFICES ASSUME Init PROVE StartsAreTold
  OBVIOUS
<1>1. log = <<>> /\ Len(log) = 0 /\ log \in Seq(LineType)
  BY EmptySequence DEF Init
<1>2. \A n \in 0..Len(log) : Len(SubSeq(log, 1, n)) = 0
  BY <1>1, FirstLines
<1> QED  BY <1>2 DEF StartsAreTold, ToldOf

LEMMA RecordedEffectHolds ==
    ASSUME IInv, Follows, Agreeing, StartsAreTold
    PROVE  RecordedEffectIsTold
<1> SUFFICES ASSUME NEW d \in Disks, NEW c \in effects, NEW i \in 1..Len(d.lines),
                    d.lines[i] = Started(c)
             PROVE  c \in ToldToHaveRun(d)
  BY DEF RecordedEffectIsTold
<1> DEFINE f == d.lines
           s == d.sidecars
<1>0. log \in Seq(LineType) /\ Len(log) \in Nat /\ synced \in Nat /\ c \in CallId
  BY NumbersType DEF IInv, TypeOK, DiskType
<1>1. PICK n \in synced..Len(log) : f = SubSeq(log, 1, n)
  BY DiskLines DEF Follows
<1>2. /\ n \in 0..Len(log) /\ f \in Seq(LineType) /\ Len(f) = n
      /\ \A k \in 1..n : f[k] = log[k]
  <2>1. n \in 0..Len(log)
    BY <1>0
  <2> QED  BY <1>0, <1>1, <2>1, FirstLines
<1>3. \A k \in 1..Len(f) : Agrees(f[k])
  <2> SUFFICES ASSUME NEW k \in 1..Len(f) PROVE Agrees(f[k])
    OBVIOUS
  <2>1. k \in 1..Len(log) /\ f[k] = log[k]
    BY <1>0, <1>2
  <2>2. Agrees(log[k])
    BY <2>1 DEF Agreeing, LogAgrees
  <2> QED  BY <2>1, <2>2
<1>4. \A r \in s : r.answer = "done"
  <2> SUFFICES ASSUME NEW r \in s PROVE r.answer = "done"
    OBVIOUS
  <2>1. PICK q \in sidecars : q.call = r.call /\ q.answer = r.answer
    BY DiskSidecars DEF Follows
  <2> QED  BY <2>1 DEF Agreeing, SidecarsAgree
<1>5. ToldOf(f, effects)
  BY <1>1, <1>2 DEF StartsAreTold
<1>6. f[i] = Started(c) /\ i \in 1..Len(f)
  OBVIOUS
<1>7. \A r \in AnsweredBack(d) : r[2] \in Ran => r[1] \in ToldToHaveRun(d)
  BY DEF ToldToHaveRun, Ran
<1>8. AnsweredBack(d) = AnsweredIn(SettledLines(f, s))
         \union (IF Recovers(f, s) THEN AnsweredIn(<<Recovered(f, s)>>) ELSE {})
  BY DEF AnsweredBack
<1> HIDE DEF f, s
<1>9. CASE \E a \in Answer : <<c, a>> \in AnsweredIn(f) /\ (c \in effects => a \in Ran)
  <2>1. PICK a \in Ran : <<c, a>> \in AnsweredIn(f)
    BY <1>9
  <2>2. <<c, a>> \in AnsweredBack(d)
    BY <1>2, <1>8, <2>1, AnswersKept
  <2>3. <<c, a>>[1] = c /\ <<c, a>>[2] = a
    OBVIOUS
  <2> QED  BY <1>7, <2>2, <2>3
<1>10. CASE c \in Outstanding(f) /\ LastMessage(f) < i
  <2>1. LastMessage(f) \in 0..Len(f) /\ Len(f) \in Nat
    BY <1>2, LastIsLast
  <2>2. i \in LastMessage(f)..Len(f) /\ LastMessage(f) <= i
    BY <1>6, <1>10, <2>1
  <2>3. f[i].kind = "started" /\ f[i].call = c
    BY <1>6 DEF Started
  <2>4. Recovers(f, s)
    BY <1>10, <2>2, <2>3 DEF Recovers
  <2> DEFINE a == RecoveredAnswer(f, s, c)
             one == <<Recovered(f, s)>>
  <2>5. a \in Ran
    BY <1>2, <1>3, <1>4, <1>6, <1>10, <2>2, RecoveredEffect
  <2>6. one[1].kind = "results" /\ c \in DOMAIN one[1].answers /\ one[1].answers[c] = a
    BY <1>10 DEF Recovered, Results
  <2>7. Len(one) = 1 /\ 1 \in 1..Len(one)
    OBVIOUS
  <2> HIDE DEF a, one
  <2>8. <<c, a>> \in AnsweredIn(one)
    BY <2>6, <2>7, Answers
  <2>9. <<c, a>> \in AnsweredBack(d)
    BY <1>8, <2>4, <2>8 DEF one
  <2>10. <<c, a>>[1] = c /\ <<c, a>>[2] = a
    OBVIOUS
  <2> QED  BY <1>7, <2>5, <2>9, <2>10
<1> QED  BY <1>0, <1>5, <1>6, <1>9, <1>10 DEF ToldOf

\* Where a failed write leaves its fragment and sidecars fail as they like, a
\* call that did what it was asked and whose start is in the log is told as
\* one that did or may have: its answer is there, or its line is not cut off
\* and the recovery answers it so (replay, recovered answers).
THEOREM EffectIsTold ==
    ASSUME CutFaults
    PROVE  Spec => []RecordedEffectIsTold
<1> DEFINE Inv == /\ IInv /\ Waiting /\ Follows /\ Memory /\ Agreeing
                  /\ TroubleIsFragment /\ Begins /\ Shaped /\ StartsAreTold
<1>1. Init => Inv
  BY TypeInit, WaitingInit, FollowsInit, MemoryInit, AgreeingInit, CutInit, ShapedInit, StartsInit
<1>2. Inv /\ [Next]_vars => Inv'
  BY TypeInductive, WaitingInductive, FollowsInductive, MemoryStep, AgreeingInductive,
     CutInductive, ShapedInductive, StartsStep
<1>3. Inv => RecordedEffectIsTold
  BY RecordedEffectHolds
<1> QED  BY <1>1, <1>2, <1>3, PTL DEF Spec

(***************************************************************************)
(* A durable result is safe: in every beginning of the log that a stop may *)
(* leave, its call is answered with it or still asked, and it lies beside  *)
(* the log until the lines that are synced answer with it.                 *)
(***************************************************************************)
Kept(c, f) == <<c, "done">> \in AnsweredIn(f) \/ c \in Outstanding(f)

Stays(c, f, k) == \A n \in k..Len(f) : Kept(c, SubSeq(f, 1, n))
Beside(c, f, k, S) == (\E r \in S : r.call = c) \/ <<c, "done">> \in AnsweredIn(SubSeq(f, 1, k))
Safe(c, f, k, S) == Stays(c, f, k) /\ Beside(c, f, k, S)

WholeOnes(s) == {r \in s : r.state = "whole"}

\* The results being recorded answer `c` as it was kept.
TellsKept(c) ==
    pc = "recording" /\ at.kind = "results" /\ c \in DOMAIN answers => answers[c] = "done"

\* All that was recorded is on the disk, and nothing is asked any more.
AllSettled == Outstanding(log) = {} /\ synced = Len(log)

LEMMA VisibleIsPending ==
    ASSUME NEW f, NEW s, NEW r \in Visible(s), r.answer = "done",
           <<r.call, "done">> \notin AnsweredIn(f)
    PROVE  r \in Pending(f, s)
BY DEF Pending

\* Where a whole record lies beside the log unanswered, a recovery answers
\* with it.
LEMMA RecoveredIsKept ==
    ASSUME NEW f, NEW s, NEW c, \A r \in s : r.answer = "done",
           \E r \in Visible(s) : r.call = c, <<c, "done">> \notin AnsweredIn(f)
    PROVE  /\ Pending(f, s) # {}
           /\ RecoveredAnswer(f, s, c) = "done"
<1>1. PICK r \in Visible(s) : r.call = c
  OBVIOUS
<1>2. r.answer = "done" /\ r \in Pending(f, s)
  BY <1>1, VisibleIsPending DEF Visible
<1>3. \A q \in Pending(f, s) : q.answer = "done"
  BY DEF Pending, Visible
<1>4. RecoveredAnswer(f, s, c) = "done"
  BY <1>1, <1>2, <1>3 DEF RecoveredAnswer
<1> QED  BY <1>2, <1>4

LEMMA AnsweredBefore ==
    ASSUME NEW f \in Seq(LineType), NEW n \in 0..Len(f), NEW c,
           <<c, "done">> \in AnsweredIn(SubSeq(f, 1, n))
    PROVE  <<c, "done">> \in AnsweredIn(f)
BY AnswersOfFirst

LEMMA KeptOfMore ==
    ASSUME IInv, Memory, Agreeing, NEW l \in LineType, LandsNext(l),
           NEW c, NEW S \in SUBSET Visible(sidecars), TellsKept(c),
           Kept(c, log), Beside(c, log, synced, S)
    PROVE  Kept(c, Append(log, l))
<1>0. /\ log \in Seq(LineType) /\ sidecars \in SUBSET Sidecar /\ synced \in 0..Len(log)
  BY DEF IInv, TypeOK, DiskType
<1> DEFINE g == Append(log, l)
<1>1. /\ ~IsMessage(l) => Outstanding(g) = Outstanding(log)
      /\ <<c, "done">> \in AnsweredIn(g) <=>
            \/ <<c, "done">> \in AnsweredIn(log)
            \/ l.kind = "results" /\ c \in DOMAIN l.answers /\ "done" = l.answers[c]
  BY <1>0, OutstandingOfMore, AnswersOfMore
<1> HIDE DEF g
<1>2. CASE <<c, "done">> \in AnsweredIn(log)
  BY <1>1, <1>2 DEF Kept, g
<1>3. CASE c \in Outstanding(log) /\ <<c, "done">> \notin AnsweredIn(log)
  <2>1. CASE l.kind \in {"started", "finished"}
    <3>1. ~IsMessage(l)
      BY <2>1 DEF IsMessage
    <3> QED  BY <1>1, <1>3, <3>1 DEF Kept, g
  <2>2. CASE l.kind \in {"user", "agent"}
    BY <1>3, <2>2 DEF LandsNext, Fits
  <2>3. CASE l.kind = "results"
    <3>1. DOMAIN l.answers = Outstanding(log)
      BY <2>3 DEF LandsNext, Fits
    <3>2. CASE pc = "recovering" /\ l = Recovered(log, sidecars)
      <4>1. \E r \in Visible(sidecars) : r.call = c
        BY <1>0, <1>3, AnsweredBefore DEF Beside
      <4>2. \A r \in sidecars : r.answer = "done"
        BY DEF Agreeing, SidecarsAgree
      <4>3. RecoveredAnswer(log, sidecars, c) = "done"
        BY <1>3, <4>1, <4>2, RecoveredIsKept
      <4>4. l.answers[c] = "done"
        BY <1>3, <3>2, <4>3 DEF Recovered, Results
      <4> QED  BY <1>1, <1>3, <2>3, <3>1, <4>4 DEF Kept, g
    <3>3. CASE pc = "recording" /\ l = at
      <4>1. at = Results(answers)
        BY <2>3, <3>3 DEF Memory, AtIsKnown
      <4>2. l.answers = answers
        BY <3>3, <4>1 DEF Results
      <4>3. answers[c] = "done"
        BY <1>3, <2>3, <3>1, <3>3, <4>2 DEF TellsKept
      <4> QED  BY <1>1, <1>3, <2>3, <3>1, <4>2, <4>3 DEF Kept, g
    <3>4. CASE IsRecord(Head(queue)) /\ l = Head(queue).line
      BY <2>3, <3>4 DEF IsRecord
    <3> QED  BY <3>2, <3>3, <3>4 DEF LandsNext
  <2> QED  BY <2>1, <2>2, <2>3 DEF LandsNext, Fits
<1> QED  BY <1>2, <1>3 DEF Kept

\* While the log stays, what is synced grows, up to all of it.
LEMMA SyncStep ==
    ASSUME IInv, [Next]_vars, log' = log
    PROVE  synced' = synced \/ synced' = Len(log)
<1>0. synced \in 0..Len(log) /\ Len(log) \in Nat
  BY DEF IInv, TypeOK, DiskType
<1>1. CASE Continue
  BY <1>0, <1>1 DEF Continue
<1>2. CASE SourceSynced \/ SettleSynced \/ Resynced
  BY <1>2 DEF SourceSynced, SettleSynced, Resynced, SyncAll, disk
<1>3. CASE \/ UNCHANGED vars \/ Say \/ (\E asked \in SUBSET Calls : ModelAnswers(asked))
           \/ Recorded \/ TurnEnds \/ PassEnds
           \/ (\E c \in DOMAIN st : Start(c) \/ Run(c) \/ Finish(c) \/ Refuse(c) \/ Put(c))
  BY <1>3
  DEF vars, disk, Say, ModelAnswers, Record, Recorded, TurnEnds, PassEnds, Start, Run, Finish,
      Refuse, Put
<1>4. CASE \/ Stored \/ StoringFails \/ SettleLooks \/ (\E r \in sidecars : Remove(r))
           \/ RemovalFails \/ SettleEnds \/ WriterTakes \/ Leave \/ Kill \/ MachineStops
           \/ Recover \/ RecoverFails
  BY <1>4
  DEF disk, Stored, StoringFails, SettleLooks, Remove, RemovalFails, SettleEnds, WriterTakes,
      Leave, Kill, MachineStops, Recover, RecoverFails
<1> QED  BY <1>1, <1>2, <1>3, <1>4 DEF Next

LEMMA SafeWhileSame ==
    ASSUME NEW f \in Seq(LineType), NEW k \in 0..Len(f), NEW m \in k..Len(f), NEW c,
           NEW S, NEW T, Safe(c, f, k, S),
           (\E r \in S : r.call = c) =>
               (\E r \in T : r.call = c) \/ (Outstanding(f) = {} /\ k = Len(f))
    PROVE  Safe(c, f, m, T)
<1>0. Len(f) \in Nat /\ m \in 0..Len(f) /\ k \in 0..m
  OBVIOUS
<1>1. Stays(c, f, m)
  BY <1>0 DEF Safe, Stays
<1>2. CASE <<c, "done">> \in AnsweredIn(SubSeq(f, 1, k))
  BY <1>0, <1>1, <1>2, AnswersGrow DEF Safe, Beside
<1>3. CASE Outstanding(f) = {} /\ k = Len(f)
  <2>1. SubSeq(f, 1, k) = f /\ m = k
    BY <1>0, <1>3, AllLines
  <2>2. Kept(c, SubSeq(f, 1, k))
    BY <1>0, <1>3 DEF Safe, Stays
  <2>3. <<c, "done">> \in AnsweredIn(SubSeq(f, 1, m))
    BY <1>3, <2>1, <2>2 DEF Kept
  <2> QED  BY <1>1, <2>3 DEF Safe, Beside
<1>4. CASE \E r \in T : r.call = c
  BY <1>1, <1>4 DEF Safe, Beside
<1> QED  BY <1>2, <1>3, <1>4 DEF Safe, Beside

\* The log is a line longer.
LEMMA SafeOfMore ==
    ASSUME NEW f \in Seq(LineType), NEW k \in 0..Len(f), NEW l \in LineType, NEW c,
           NEW S, NEW T, Safe(c, f, k, S), Kept(c, Append(f, l)),
           (\E r \in S : r.call = c) => (\E r \in T : r.call = c)
    PROVE  Safe(c, Append(f, l), k, T)
<1> DEFINE g == Append(f, l)
<1>1. /\ Len(f) \in Nat /\ g \in Seq(LineType) /\ Len(g) = Len(f) + 1
      /\ \A n \in 0..Len(f) : SubSeq(g, 1, n) = SubSeq(f, 1, n)
  BY LineMore, FirstOfMore
<1>2. SubSeq(g, 1, Len(g)) = g
  BY <1>1, AllLines
<1> HIDE DEF g
<1>3. ASSUME NEW n \in k..Len(g) PROVE Kept(c, SubSeq(g, 1, n))
  <2>1. CASE n = Len(g)
    BY <1>2, <2>1 DEF g
  <2>2. CASE n # Len(g)
    <3>1. n \in k..Len(f) /\ n \in 0..Len(f)
      BY <1>1, <2>2
    <3> QED  BY <1>1, <3>1 DEF Safe, Stays
  <2> QED  BY <2>1, <2>2
<1>4. Beside(c, g, k, T)
  <2>1. SubSeq(g, 1, k) = SubSeq(f, 1, k)
    BY <1>1
  <2> QED  BY <2>1 DEF Safe, Beside
<1> QED  BY <1>3, <1>4 DEF Safe, Stays, g

\* A machine that stopped left a beginning.
LEMMA SafeOfFirst ==
    ASSUME NEW f \in Seq(LineType), NEW k \in 0..Len(f), NEW m \in k..Len(f), NEW c,
           NEW S, NEW T, Safe(c, f, k, S),
           (\E r \in S : r.call = c) => (\E r \in T : r.call = c)
    PROVE  Safe(c, SubSeq(f, 1, m), k, T)
<1> DEFINE g == SubSeq(f, 1, m)
<1>0. Len(f) \in Nat /\ m \in 0..Len(f) /\ k \in 0..m
  OBVIOUS
<1>1. /\ g \in Seq(LineType) /\ Len(g) = m
      /\ \A n \in 0..m : SubSeq(g, 1, n) = SubSeq(f, 1, n)
  BY <1>0, FirstLines, FirstOfFirst
<1> HIDE DEF g
<1>2. ASSUME NEW n \in k..Len(g) PROVE Kept(c, SubSeq(g, 1, n))
  <2>1. n \in k..Len(f) /\ n \in 0..m
    BY <1>0, <1>1
  <2> QED  BY <1>1, <2>1 DEF Safe, Stays
<1>3. Beside(c, g, k, T)
  <2>1. SubSeq(g, 1, k) = SubSeq(f, 1, k)
    BY <1>0, <1>1
  <2> QED  BY <2>1 DEF Safe, Beside
<1> QED  BY <1>2, <1>3 DEF Safe, Stays, g

\* A log that is continued is cut only where nothing beside it is for what
\* is cut off.
LEMMA SafeOfSettled ==
    ASSUME NEW f \in Seq(LineType), NEW k \in 0..Len(f), NEW c, NEW s, \A r \in s : r.answer = "done",
           NEW S \in SUBSET Visible(s), Safe(c, f, k, S), NEW j,
           j = IF k <= Len(SettledLines(f, s)) THEN k ELSE Len(SettledLines(f, s))
    PROVE  Safe(c, SettledLines(f, s), j, S)
<1> DEFINE g == SettledLines(f, s)
<1>0. Len(f) \in Nat /\ Kept(c, f)
  <2>1. Len(f) \in Nat /\ Len(f) \in k..Len(f) /\ SubSeq(f, 1, Len(f)) = f
    BY AllLines
  <2> QED  BY <2>1 DEF Safe, Stays
<1>1. g = f \/ <<c, "done">> \in AnsweredIn(g)
  <2> SUFFICES ASSUME g # f PROVE <<c, "done">> \in AnsweredIn(g)
    OBVIOUS
  <2>1. Outstanding(f) # {} /\ ~Recovers(f, s)
    BY DEF SettledLines
  <2>2. <<c, "done">> \in AnsweredIn(f)
    <3> SUFFICES ASSUME <<c, "done">> \notin AnsweredIn(f) PROVE FALSE
      OBVIOUS
    <3>1. \E r \in Visible(s) : r.call = c
      BY AnsweredBefore DEF Safe, Beside
    <3>2. Pending(f, s) # {}
      BY <3>1, RecoveredIsKept
    <3> QED  BY <2>1, <3>2 DEF Recovers
  <2> QED  BY <2>2, AnswersKept
<1>2. PICK m \in 0..Len(f) : g = SubSeq(f, 1, m)
  BY SettledIsFirst
<1>3. /\ g \in Seq(LineType) /\ Len(g) = m /\ SubSeq(g, 1, m) = g
      /\ \A n \in 0..m : SubSeq(g, 1, n) = SubSeq(f, 1, n)
  BY <1>2, FirstLines, FirstOfFirst, AllLines
<1>4. AnsweredIn(g) = AnsweredIn(f)
  BY AnswersKept
<1> HIDE DEF g
<1>5. j = IF k <= m THEN k ELSE m
  BY <1>3 DEF g
<1>6. ASSUME NEW n \in j..Len(g) PROVE Kept(c, SubSeq(g, 1, n))
  <2>1. CASE n \in k..Len(f)
    <3>1. n \in 0..m
      BY <1>0, <1>3, <1>5
    <3> QED  BY <1>3, <2>1, <3>1 DEF Safe, Stays
  <2>2. CASE n \notin k..Len(f)
    <3>1. n = m /\ m < k
      BY <1>0, <1>3, <1>5, <2>2
    <3>2. g # f
      BY <1>0, <1>3, <3>1
    <3> QED  BY <1>1, <1>3, <3>1, <3>2 DEF Kept
  <2> QED  BY <2>1, <2>2
<1>7. Beside(c, g, j, S)
  <2>1. CASE \E r \in S : r.call = c
    BY <2>1 DEF Beside
  <2>2. CASE <<c, "done">> \in AnsweredIn(SubSeq(f, 1, k))
    <3>1. CASE k <= m
      <4>1. j = k /\ SubSeq(g, 1, k) = SubSeq(f, 1, k)
        BY <1>0, <1>3, <1>5, <3>1
      <4> QED  BY <2>2, <4>1 DEF Beside
    <3>2. CASE ~(k <= m)
      <4>1. j = m /\ SubSeq(g, 1, j) = g
        BY <1>3, <1>5, <3>2
      <4>2. <<c, "done">> \in AnsweredIn(g)
        BY <1>4, <2>2, AnsweredBefore
      <4> QED  BY <4>1, <4>2 DEF Beside
    <3> QED  BY <3>1, <3>2
  <2> QED  BY <2>1, <2>2 DEF Safe, Beside
<1> QED  BY <1>6, <1>7 DEF Safe, Stays, g

\* A result that is safe stays so in every step, as long as the answers that
\* are recorded are the ones that were kept.
LEMMA SafeStep ==
    ASSUME CutFaults, IInv, IInv', Waiting, Follows, Memory, Agreeing, TroubleIsFragment, Shaped,
           [Next]_vars, NEW c, NEW S \in SUBSET Visible(sidecars), NEW T,
           Safe(c, log, synced, S), TellsKept(c),
           (\E r \in S : r.call = c) =>
               (\E r \in T : r.call = c) \/ (AllSettled /\ log' = log)
    PROVE  Safe(c, log', synced', T)
<1>0. /\ log \in Seq(LineType) /\ Len(log) \in Nat /\ synced \in 0..Len(log)
      /\ \A r \in sidecars : r.answer = "done"
  BY DEF IInv, TypeOK, DiskType, Agreeing, SidecarsAgree
<1>1. CASE log' = log
  <2>1. synced' \in synced..Len(log)
    BY <1>0, <1>1, SyncStep
  <2>2. Safe(c, log, synced', T)
    BY <1>0, <2>1, SafeWhileSame DEF AllSettled
  <2> QED  BY <1>1, <2>2
<1>2. ASSUME NEW l \in LineType, LandsNext(l), log' # log PROVE Safe(c, log', synced', T)
  <2>1. log' = Append(log, l) /\ synced' = synced
    BY <1>2 DEF LandsNext
  <2>2. Kept(c, log)
    <3>1. Len(log) \in synced..Len(log) /\ SubSeq(log, 1, Len(log)) = log
      BY <1>0, AllLines
    <3> QED  BY <3>1 DEF Safe, Stays
  <2>3. Kept(c, Append(log, l))
    BY <1>2, <2>2, KeptOfMore DEF Safe
  <2>4. Safe(c, Append(log, l), synced, T)
    BY <1>0, <1>2, <2>3, SafeOfMore
  <2> QED  BY <2>1, <2>4
<1>3. CASE MachineStops /\ log' # log
  <2>1. PICK n \in synced..Len(log) : log' = SubSeq(log, 1, n)
    BY <1>3, StopStep
  <2>2. synced' = synced
    BY <1>3, StopStep
  <2>3. Safe(c, SubSeq(log, 1, n), synced, T)
    BY <1>0, <1>3, SafeOfFirst
  <2> QED  BY <2>1, <2>2, <2>3
<1>4. CASE Continue /\ log' # log
  <2> DEFINE f == Readable(log, end)
  <2>1. PICK m \in synced..Len(log) :
            /\ f = SubSeq(log, 1, m) /\ f \in Seq(LineType)
            /\ log' = SettledLines(f, sidecars)
    BY <1>4, CutStep DEF Follows
  <2>2. synced' = IF synced <= Len(log') THEN synced ELSE Len(log')
    BY <1>4 DEF Continue
  <2> HIDE DEF f
  <2>3. Len(f) = m /\ synced \in 0..Len(f)
    <3>1. m \in 0..Len(log)
      BY <1>0
    <3> QED  BY <1>0, <2>1, <3>1, FirstLines
  <2>4. Safe(c, f, synced, S)
    BY <1>0, <2>1, SafeOfFirst
  <2>5. Safe(c, SettledLines(f, sidecars), synced', S)
    BY <1>0, <2>1, <2>2, <2>3, <2>4, SafeOfSettled
  <2>6. Safe(c, log', synced', S)
    BY <2>1, <2>5
  <2> QED  BY <1>4, <2>6 DEF Safe, Beside
<1> QED  BY <1>1, <1>2, <1>3, <1>4, CutLogStep

(***************************************************************************)
(* What a receipt promises: the whole record lies beside the log.          *)
(***************************************************************************)
ReceiptsAreSafe == \A c \in receipts : Safe(c, log, synced, WholeOnes(sidecars))

LEMMA WholeAreVisible ==
    ASSUME NEW s
    PROVE  WholeOnes(s) \in SUBSET Visible(s)
BY DEF WholeOnes, Visible

LEMMA RemovingIsSettled ==
    ASSUME Shaped, pc \in {"removing", "clearing"}
    PROVE  AllSettled
BY DEF Shaped, Settling, AllSettled

\* A whole record goes only where everything it could answer is on the disk.
LEMMA WholeStep ==
    ASSUME IInv, Shaped, [Next]_vars, NEW r \in WholeOnes(sidecars)
    PROVE  (\E q \in WholeOnes(sidecars') : q.call = r.call) \/ (AllSettled /\ log' = log)
<1>0. r \in sidecars /\ r \in Sidecar /\ r.state = "whole"
  BY DEF IInv, TypeOK, DiskType, WholeOnes
<1>1. CASE r \in sidecars'
  BY <1>0, <1>1 DEF WholeOnes
<1>2. CASE Stored \/ StoringFails
  <2>1. sidecars' = sidecars \/ sidecars' = Whole(at.call)
    BY <1>2 DEF Stored, StoringFails
  <2>2. [r EXCEPT !.state = "whole"] = r
    BY <1>0 DEF Sidecar
  <2>3. (IF r.call = at.call THEN [r EXCEPT !.state = "whole"] ELSE r) \in Whole(at.call)
    BY <1>0 DEF Whole
  <2>4. r \in sidecars'
    BY <1>0, <2>1, <2>2, <2>3
  <2> QED  BY <1>1, <2>4
<1>3. CASE (\E q \in sidecars : Remove(q)) \/ SettleEnds
  <2>1. pc \in {"removing", "clearing"} /\ log' = log
    BY <1>3 DEF Remove, SettleEnds
  <2> QED  BY <2>1, RemovingIsSettled
<1>4. CASE MachineStops
  <2>1. sidecars' \in SurvivingSidecars
    BY <1>4 DEF MachineStops
  <2>2. r \in sidecars'
    BY <1>0, <2>1 DEF SurvivingSidecars
  <2> QED  BY <1>1, <2>2
<1>5. CASE SourceSynced
  <2>1. r \in sidecars'
    BY <1>0, <1>5 DEF SourceSynced, disk
  <2> QED  BY <1>1, <2>1
<1>6. CASE \/ UNCHANGED vars \/ Say \/ (\E asked \in SUBSET Calls : ModelAnswers(asked))
           \/ Recorded \/ TurnEnds
           \/ (\E c \in DOMAIN st : Start(c) \/ Run(c) \/ Finish(c) \/ Refuse(c) \/ Put(c))
  <2>1. sidecars' = sidecars
    BY <1>6
    DEF Say, ModelAnswers, Record, Recorded, TurnEnds, Start, Run, Finish, Refuse, Put, disk, vars
  <2> QED  BY <1>0, <1>1, <2>1
<1>7. CASE \/ PassEnds \/ SettleLooks \/ SettleSynced \/ RemovalFails
           \/ WriterTakes \/ Leave \/ Kill \/ Continue \/ Recover \/ RecoverFails \/ Resynced
  <2>1. sidecars' = sidecars
    BY <1>7
    DEF PassEnds, Record, SettleLooks, SettleSynced, RemovalFails, WriterTakes, Leave, Kill,
        Continue, Recover, RecoverFails, Resynced, disk
  <2> QED  BY <1>0, <1>1, <2>1
<1> QED  BY <1>2, <1>3, <1>4, <1>5, <1>6, <1>7 DEF Next

LEMMA ReceiptStep ==
    ASSUME [Next]_vars, NEW c \in receipts'
    PROVE  c \in receipts \/ (Stored /\ c = at.call)
<1>1. CASE Stored
  BY <1>1 DEF Stored
<1>2. CASE \/ UNCHANGED vars \/ Say \/ (\E asked \in SUBSET Calls : ModelAnswers(asked))
           \/ Recorded \/ TurnEnds
           \/ (\E d \in DOMAIN st : Start(d) \/ Run(d) \/ Finish(d) \/ Refuse(d) \/ Put(d))
  <2>1. receipts' = receipts
    BY <1>2
    DEF Say, ModelAnswers, Record, Recorded, TurnEnds, Start, Run, Finish, Refuse, Put, history, vars
  <2> QED  BY <2>1
<1>3. CASE \/ SourceSynced \/ StoringFails \/ PassEnds \/ SettleLooks \/ SettleSynced
           \/ (\E r \in sidecars : Remove(r)) \/ RemovalFails \/ SettleEnds
  <2>1. receipts' = receipts
    BY <1>3
    DEF SourceSynced, StoringFails, PassEnds, Record, SettleLooks, SettleSynced, Remove,
        RemovalFails, SettleEnds, history
  <2> QED  BY <2>1
<1>4. CASE \/ WriterTakes \/ Leave \/ Kill \/ MachineStops \/ Continue \/ Recover
           \/ RecoverFails \/ Resynced
  <2>1. receipts' = receipts
    BY <1>4
    DEF WriterTakes, Leave, Kill, MachineStops, Continue, Recover, RecoverFails, Resynced, history
  <2> QED  BY <2>1
<1> QED  BY <1>1, <1>2, <1>3, <1>4 DEF Next

\* A call with everything on the disk up to its answer or its question is
\* safe with a record beside the log.
LEMMA SafeAtOnce ==
    ASSUME NEW f \in Seq(LineType), NEW c \in Outstanding(f), NEW S, \E r \in S : r.call = c
    PROVE  Safe(c, f, Len(f), S)
<1>1. Len(f) \in Nat /\ SubSeq(f, 1, Len(f)) = f
  BY AllLines
<1>2. \A k \in Nat : \A n \in k..k : n = k
  OBVIOUS
<1>3. Stays(c, f, Len(f))
  BY <1>1, <1>2 DEF Stays, Kept
<1>4. Beside(c, f, Len(f), S)
  BY DEF Beside
<1> QED  BY <1>3, <1>4 DEF Safe

LEMMA NewReceiptIsSafe ==
    ASSUME IInv, Shaped, Stored
    PROVE  Safe(at.call, log', synced', WholeOnes(sidecars'))
<1>1. /\ log \in Seq(LineType) /\ log' = log /\ synced' = synced /\ sidecars' = Whole(at.call)
      /\ pc = "storing"
  BY DEF Stored, IInv, TypeOK, DiskType
<1>2. synced = Len(log) /\ at.call \in Outstanding(log)
  BY <1>1 DEF Shaped, Settling
<1>3. PICK r \in sidecars : r.call = at.call
  BY <1>1 DEF Shaped, Settling
<1> DEFINE w == [r EXCEPT !.state = "whole"]
<1>4. r \in Sidecar
  BY DEF IInv, TypeOK, DiskType
<1>5. w.call = at.call /\ w.state = "whole"
  BY <1>3, <1>4 DEF Sidecar
<1>6. (IF r.call = at.call THEN w ELSE r) \in Whole(at.call)
  BY DEF Whole
<1> HIDE DEF w
<1>7. w \in WholeOnes(sidecars')
  BY <1>1, <1>3, <1>5, <1>6 DEF WholeOnes
<1>8. Safe(at.call, log, Len(log), WholeOnes(sidecars'))
  BY <1>1, <1>2, <1>5, <1>7, SafeAtOnce
<1> QED  BY <1>1, <1>2, <1>8

LEMMA ReceiptTellsKept ==
    ASSUME IInv, Memory, NEW c \in receipts
    PROVE  TellsKept(c)
<1> SUFFICES ASSUME c \in DOMAIN answers, pc = "recording", at.kind = "results"
             PROVE  answers[c] = "done"
  BY DEF TellsKept
<1>1. c \in DOMAIN st
  BY NumbersType
<1>2. CallKnown(c)
  BY <1>1 DEF Memory
<1> QED  BY <1>1, <1>2 DEF CallKnown

LEMMA ReceiptsStep ==
    ASSUME CutFaults, IInv, IInv', Waiting, Follows, Memory, Agreeing, TroubleIsFragment, Shaped,
           ReceiptsAreSafe, [Next]_vars
    PROVE  ReceiptsAreSafe'
<1> SUFFICES ASSUME NEW c \in receipts'
             PROVE  Safe(c, log', synced', WholeOnes(sidecars'))
  BY DEF ReceiptsAreSafe
<1>1. CASE Stored /\ c = at.call
  BY <1>1, NewReceiptIsSafe
<1>2. CASE c \in receipts
  <2> DEFINE S == WholeOnes(sidecars)
             T == WholeOnes(sidecars')
  <2>1. S \in SUBSET Visible(sidecars)
    BY WholeAreVisible
  <2>2. Safe(c, log, synced, S)
    BY <1>2 DEF ReceiptsAreSafe
  <2>3. TellsKept(c)
    BY <1>2, ReceiptTellsKept
  <2>4. (\E r \in S : r.call = c) => (\E r \in T : r.call = c) \/ (AllSettled /\ log' = log)
    BY WholeStep
  <2> HIDE DEF S, T
  <2>5. Safe(c, log', synced', T)
    BY <2>1, <2>2, <2>3, <2>4, SafeStep
  <2> QED  BY <2>5 DEF T
<1> QED  BY <1>1, <1>2, ReceiptStep

\* What is safe is answered by whatever the next process reads.
LEMMA SafeComesBack ==
    ASSUME IInv, OwedIsUnsynced, SidecarsAgree, NEW d \in Disks, NEW c,
           Safe(c, log, synced, WholeOnes(sidecars))
    PROVE  <<c, "done">> \in AnsweredBack(d)
<1> DEFINE f == d.lines
           s == d.sidecars
<1>0. log \in Seq(LineType) /\ Len(log) \in Nat /\ synced \in 0..Len(log)
  BY DEF IInv, TypeOK, DiskType
<1>1. PICK n \in synced..Len(log) : f = SubSeq(log, 1, n)
  BY DiskLines
<1>2. n \in 0..Len(log) /\ synced \in 0..n /\ f \in Seq(LineType)
  BY <1>0, <1>1, FirstLines
<1>3. Kept(c, f)
  BY <1>1 DEF Safe, Stays
<1>4. AnsweredBack(d) = AnsweredIn(SettledLines(f, s))
         \union (IF Recovers(f, s) THEN AnsweredIn(<<Recovered(f, s)>>) ELSE {})
  BY DEF AnsweredBack
<1>5. \A r \in s : r.answer = "done"
  <2> SUFFICES ASSUME NEW r \in s PROVE r.answer = "done"
    OBVIOUS
  <2>1. PICK q \in sidecars : q.call = r.call /\ q.answer = r.answer
    BY DiskSidecars
  <2> QED  BY <2>1 DEF SidecarsAgree
<1>6. WholeOnes(sidecars) \subseteq s
  <2>1. s = sidecars \/ s \in SurvivingSidecars
    BY DiskLines
  <2> QED  BY <2>1 DEF WholeOnes, SurvivingSidecars
<1> HIDE DEF f, s
<1>7. CASE <<c, "done">> \in AnsweredIn(f)
  BY <1>2, <1>4, <1>7, AnswersKept
<1>8. CASE <<c, "done">> \notin AnsweredIn(f)
  <2>1. c \in Outstanding(f)
    BY <1>3, <1>8 DEF Kept
  <2>2. <<c, "done">> \notin AnsweredIn(SubSeq(log, 1, synced))
    BY <1>0, <1>1, <1>2, <1>8, AnswersGrow
  <2>3. PICK r \in WholeOnes(sidecars) : r.call = c
    BY <2>2 DEF Safe, Beside
  <2>4. r \in Visible(s)
    BY <1>6, <2>3 DEF WholeOnes, Visible
  <2>5. Pending(f, s) # {} /\ RecoveredAnswer(f, s, c) = "done"
    BY <1>5, <1>8, <2>3, <2>4, RecoveredIsKept
  <2>6. Recovers(f, s)
    BY <2>1, <2>5 DEF Recovers
  <2> DEFINE one == <<Recovered(f, s)>>
  <2>7. one[1].kind = "results" /\ c \in DOMAIN one[1].answers /\ one[1].answers[c] = "done"
    BY <2>1, <2>5 DEF Recovered, Results
  <2>8. Len(one) = 1 /\ 1 \in 1..Len(one)
    OBVIOUS
  <2> HIDE DEF one
  <2>9. <<c, "done">> \in AnsweredIn(one)
    BY <2>7, <2>8, Answers
  <2> QED  BY <1>4, <2>6, <2>9 DEF one
<1> QED  BY <1>7, <1>8

LEMMA AcceptedHolds ==
    ASSUME IInv, Follows, Agreeing, ReceiptsAreSafe
    PROVE  AcceptedResultIsReplayed
<1> SUFFICES ASSUME NEW d \in Disks, NEW p \in receipts \X {"done"}
             PROVE  p \in AnsweredBack(d)
  BY DEF AcceptedResultIsReplayed
<1>1. PICK c \in receipts : p = <<c, "done">>
  OBVIOUS
<1>2. <<c, "done">> \in AnsweredBack(d)
  BY SafeComesBack DEF ReceiptsAreSafe, Follows, Agreeing
<1> QED  BY <1>1, <1>2

LEMMA ReceiptsInit == Init => ReceiptsAreSafe
BY DEF Init, ReceiptsAreSafe

\* A result whose receipt was given is what every later replay answers its
\* call with, whatever is killed, lost or recovered in between, as long as
\* writes fail only by leaving a fragment and records only by being half
\* written or not removed (put_call_result, replay, results::settle).
THEOREM AcceptedIsReplayed ==
    ASSUME CutFaults
    PROVE  Spec => []AcceptedResultIsReplayed
<1> DEFINE Inv == /\ IInv /\ Waiting /\ Follows /\ Memory /\ Agreeing
                  /\ TroubleIsFragment /\ Begins /\ Shaped /\ ReceiptsAreSafe
<1>1. Init => Inv
  BY TypeInit, WaitingInit, FollowsInit, MemoryInit, AgreeingInit, CutInit, ShapedInit,
     ReceiptsInit
<1>2. Inv /\ [Next]_vars => Inv'
  BY TypeInductive, WaitingInductive, FollowsInductive, MemoryStep, AgreeingInductive,
     CutInductive, ShapedInductive, ReceiptsStep
<1>3. Inv => AcceptedResultIsReplayed
  BY AcceptedHolds
<1> QED  BY <1>1, <1>2, <1>3, PTL DEF Spec

(***************************************************************************)
(* Where no record fails, every record beside the log is safe, a           *)
(* half-written one too.                                                   *)
(***************************************************************************)
SidecarsAreSafe == \A r \in sidecars : Safe(r.call, log, synced, Visible(sidecars))

LEMMA SidecarTellsKept ==
    ASSUME "sidecar" \notin Faults, IInv, Memory, Agreeing, NEW r \in sidecars
    PROVE  TellsKept(r.call)
<1> SUFFICES ASSUME r.call \in DOMAIN answers, pc = "recording", at.kind = "results"
             PROVE  answers[r.call] = "done"
  BY DEF TellsKept
<1>1. r.call \in DOMAIN st
  BY NumbersType
<1>2. st[r.call] = "ended"
  BY <1>1 DEF Memory, CallKnown
<1> QED  BY <1>1, <1>2 DEF Agreeing, SidecarsAgree

LEMMA SurvivorIsVisible ==
    ASSUME IInv, MachineStops, NEW r \in sidecars'
    PROVE  r \in Visible(sidecars')
<1>1. sidecars' \in SurvivingSidecars
  BY DEF MachineStops
<1>2. \/ r \in sidecars /\ r.state \in {"whole", "partial"}
      \/ \E q \in sidecars : r = [q EXCEPT !.state = "whole"]
  BY <1>1 DEF SurvivingSidecars
<1>3. ASSUME NEW q \in sidecars, r = [q EXCEPT !.state = "whole"] PROVE r.state = "whole"
  <2>1. q \in Sidecar
    BY DEF IInv, TypeOK, DiskType
  <2> QED  BY <1>3, <2>1 DEF Sidecar
<1>4. r.state # "removed"
  BY <1>2, <1>3
<1> QED  BY <1>4 DEF Visible

\* A visible record is there for its call after every step, or was settled.
LEMMA VisibleStep ==
    ASSUME IInv, Shaped, [Next]_vars, NEW r \in Visible(sidecars)
    PROVE  (\E q \in Visible(sidecars') : q.call = r.call) \/ (AllSettled /\ log' = log)
           \/ MachineStops
<1>0. r \in sidecars /\ r \in Sidecar /\ r.state # "removed"
  BY DEF IInv, TypeOK, DiskType, Visible
<1>1. CASE r \in sidecars'
  BY <1>0, <1>1 DEF Visible
<1>2. CASE Stored \/ StoringFails
  <2> DEFINE w == IF r.call = at.call THEN [r EXCEPT !.state = "whole"] ELSE r
  <2>1. sidecars' = sidecars \/ sidecars' = Whole(at.call)
    BY <1>2 DEF Stored, StoringFails
  <2>2. w \in Whole(at.call)
    BY <1>0 DEF Whole
  <2>3. w.call = r.call /\ w.state # "removed"
    BY <1>0 DEF Sidecar
  <2> HIDE DEF w
  <2>4. CASE sidecars' = Whole(at.call)
    BY <2>2, <2>3, <2>4 DEF Visible
  <2> QED  BY <1>0, <1>1, <2>1, <2>4
<1>3. CASE (\E q \in sidecars : Remove(q)) \/ SettleEnds
  <2>1. pc \in {"removing", "clearing"} /\ log' = log
    BY <1>3 DEF Remove, SettleEnds
  <2> QED  BY <2>1, RemovingIsSettled
<1>4. CASE SourceSynced
  <2>1. r \in sidecars'
    BY <1>0, <1>4 DEF SourceSynced, disk
  <2> QED  BY <1>1, <2>1
<1>5. CASE \/ UNCHANGED vars \/ Say \/ (\E asked \in SUBSET Calls : ModelAnswers(asked))
           \/ Recorded \/ TurnEnds
           \/ (\E c \in DOMAIN st : Start(c) \/ Run(c) \/ Finish(c) \/ Refuse(c) \/ Put(c))
  <2>1. sidecars' = sidecars
    BY <1>5
    DEF Say, ModelAnswers, Record, Recorded, TurnEnds, Start, Run, Finish, Refuse, Put, disk, vars
  <2> QED  BY <1>0, <1>1, <2>1
<1>6. CASE \/ PassEnds \/ SettleLooks \/ SettleSynced \/ RemovalFails
           \/ WriterTakes \/ Leave \/ Kill \/ Continue \/ Recover \/ RecoverFails \/ Resynced
  <2>1. sidecars' = sidecars
    BY <1>6
    DEF PassEnds, Record, SettleLooks, SettleSynced, RemovalFails, WriterTakes, Leave, Kill,
        Continue, Recover, RecoverFails, Resynced, disk
  <2> QED  BY <1>0, <1>1, <2>1
<1> QED  BY <1>2, <1>3, <1>4, <1>5, <1>6 DEF Next

LEMMA NewSidecarIsSafe ==
    ASSUME IInv, Waiting, Follows, Shaped, SourceSynced, ~trouble
    PROVE  Safe(at.call, log', synced', Visible(sidecars'))
<1>1. PICK c \in DOMAIN st : at = [kind |-> "call", call |-> c]
  BY DEF SourceSynced, IInv, Held
<1>2. at.call = c
  BY <1>1
<1>3. pc = "putting" /\ Live /\ Outstanding(transcript) = DOMAIN st
  BY DEF SourceSynced, Live, Opening, Shaped, Asked
<1>4. Outstanding(log) = DOMAIN st
  BY <1>3, LiveOutstanding
<1>5. log \in Seq(LineType) /\ log' = log /\ synced' = Len(log)
  BY DEF SourceSynced, SyncAll, IInv, TypeOK, DiskType
<1> DEFINE made == [call |-> at.call, answer |-> "done", state |-> "partial"]
<1>6. made \in Visible(sidecars') /\ made.call = at.call
  BY DEF SourceSynced, Visible
<1> HIDE DEF made
<1>7. Safe(c, log, Len(log), Visible(sidecars'))
  BY <1>2, <1>4, <1>5, <1>6, SafeAtOnce
<1> QED  BY <1>2, <1>5, <1>7

LEMMA SidecarsSafeStep ==
    ASSUME CutFaults, "sidecar" \notin Faults, IInv, IInv', Waiting, Follows, Memory, Agreeing,
           TroubleIsFragment, Shaped, SidecarsAreSafe, [Next]_vars
    PROVE  SidecarsAreSafe'
<1> SUFFICES ASSUME NEW r \in sidecars'
             PROVE  Safe(r.call, log', synced', Visible(sidecars'))
  BY DEF SidecarsAreSafe
<1>1. CASE SourceSynced /\ ~trouble /\ r = [call |-> at.call, answer |-> "done", state |-> "partial"]
  <2>1. r.call = at.call
    BY <1>1
  <2> QED  BY <1>1, <2>1, NewSidecarIsSafe
<1>2. CASE \E q \in sidecars : q.call = r.call /\ q.answer = r.answer
  <2>1. PICK q \in sidecars : q.call = r.call
    BY <1>2
  <2> DEFINE c == r.call
             S == Visible(sidecars)
             T == Visible(sidecars')
  <2>2. Safe(c, log, synced, S)
    BY <2>1 DEF SidecarsAreSafe
  <2>3. TellsKept(c)
    BY <2>1, SidecarTellsKept
  <2>4. (\E p \in S : p.call = c) => (\E p \in T : p.call = c) \/ (AllSettled /\ log' = log)
    BY VisibleStep, SurvivorIsVisible
  <2> HIDE DEF c, S, T
  <2>5. S \in SUBSET Visible(sidecars)
    BY DEF S
  <2>6. Safe(c, log', synced', T)
    BY <2>2, <2>3, <2>4, <2>5, SafeStep
  <2> QED  BY <2>6 DEF c, T
<1> QED  BY <1>1, <1>2, SidecarStep

LEMMA NoOrphanHolds ==
    ASSUME IInv, Follows, Agreeing, SidecarsAreSafe
    PROVE  NoOrphanedResult
<1> SUFFICES ASSUME NEW d \in Disks, NEW r \in Pending(d.lines, d.sidecars),
                    r.call \notin Outstanding(d.lines)
             PROVE  FALSE
  BY DEF NoOrphanedResult, Orphaned
<1>1. r \in d.sidecars /\ <<r.call, r.answer>> \notin AnsweredIn(d.lines)
  BY DEF Pending, Visible
<1>2. PICK q \in sidecars : q.call = r.call /\ q.answer = r.answer
  BY <1>1, DiskSidecars DEF Follows
<1>3. r.answer = "done" /\ Stays(r.call, log, synced)
  BY <1>2 DEF Agreeing, SidecarsAgree, SidecarsAreSafe, Safe
<1>4. PICK n \in synced..Len(log) : d.lines = SubSeq(log, 1, n)
  BY DiskLines DEF Follows
<1>5. Kept(r.call, d.lines)
  BY <1>3, <1>4 DEF Stays
<1> QED  BY <1>1, <1>3, <1>5 DEF Kept

LEMMA SidecarsSafeInit == Init => SidecarsAreSafe
BY DEF Init, SidecarsAreSafe

\* Where writes fail only by leaving a fragment, and no record fails, no stop
\* of the process or the machine leaves a durable result that every later
\* replay refuses for having no call to answer: its call's line is on the disk
\* before the record is made, no later line or cut takes the question away
\* without the answer, and the record goes only after the answer is on the
\* disk (put_call_result, replay, settle_call_results, continuing).
THEOREM NoOrphanEver ==
    ASSUME Faults \subseteq {"fragment"}
    PROVE  Spec => []NoOrphanedResult
<1> DEFINE Inv == /\ IInv /\ Waiting /\ Follows /\ Memory /\ Agreeing
                  /\ TroubleIsFragment /\ Begins /\ Shaped /\ SidecarsAreSafe
<1>0. CutFaults /\ "sidecar" \notin Faults
  BY DEF CutFaults
<1>1. Init => Inv
  BY TypeInit, WaitingInit, FollowsInit, MemoryInit, AgreeingInit, CutInit, ShapedInit,
     SidecarsSafeInit
<1>2. Inv /\ [Next]_vars => Inv'
  BY <1>0, TypeInductive, WaitingInductive, FollowsInductive, MemoryStep, AgreeingInductive,
     CutInductive, ShapedInductive, SidecarsSafeStep
<1>3. Inv => NoOrphanedResult
  BY NoOrphanHolds
<1> QED  BY <1>1, <1>2, <1>3, PTL DEF Spec
==============================================================================
