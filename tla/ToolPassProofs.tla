--------------------------- MODULE ToolPassProofs ---------------------------
(***************************************************************************)
(* Theorems about ToolPass, for any number of calls, any ways their tools  *)
(* may run, any room for their answers and any number of pieces printed.   *)
(***************************************************************************)
EXTENDS ToolPass, FiniteSetTheorems, TLAPS

\* What an invocation, and a run's answer, are made of.
Words ==
    {"not run", "limit", "cut short", "denied", "rejected", "failed", "panicked", "own",
     "timed out"}
StandInWords == {"ran and stopped", "left out", "limit", "not stored", ""}
Invocations ==
    [said : Words, size : Nat, ran : BOOLEAN, stops : BOOLEAN, kept : BOOLEAN, from : Nat]
Came ==
    [how : {"output"}, of : Calls, size : Nat, kept : BOOLEAN, stopped : BOOLEAN]
        \union [how : {"failed"}, of : Calls, size : Nat, stopped : BOOLEAN, timedOut : BOOLEAN]
        \union [how : {"cancelled"}, of : Calls, stopped : BOOLEAN, timedOut : BOOLEAN]
        \union [how : {"apart", "unran"}, of : Calls]

\* Where the pass is at the calls of a wave, and at those of a batch.
InWave == {"preparing", "batching", "starting", "collecting", "settling"}
Collecting == {"starting", "collecting"}

\* A call that is being run.
Going(c) == task[c] \in {"running", "writing", "answered"}

\* How many of the pieces that wait to be reported are a call's.
Waiting(pieces, c) == Cardinality({i \in DOMAIN pieces : pieces[i] = c})

\* Two calls that may run beside each other.
Free(c, d) == mode[c] # "sequential" /\ (mode[c] # mode[d] \/ mode[c] = "parallel")

Types ==
    /\ pc \in InWave \union {"top", "finishing", "over", "gone"}
    /\ stop \in BOOLEAN
    /\ at \in 1..(N + 1) /\ end \in 1..(N + 1) /\ next \in Nat
    /\ inv \in [Calls -> Invocations \union {None}]
    /\ results \in Seq([call : Nat, said : Words \union StandInWords, from : Nat,
                        stops : BOOLEAN])
    /\ batch \in Seq(Calls) /\ Len(batch) <= ToolRuns
    /\ slot \in [Calls -> Nat]
    /\ answers \in Seq(Came \union {Unfilled})
    /\ written \in Seq(Calls) /\ parked \subseteq Calls
    /\ closed \in BOOLEAN /\ woken \in BOOLEAN
    /\ task \in [Calls -> {"no", "running", "writing", "answered", "returned"}]
    /\ printed \in [Calls -> Nat] /\ reported \in [Calls -> Nat]

\* The pass is at a wave, and has answered the calls before it.
Places ==
    /\ pc \in InWave => at < end
    /\ pc = "preparing" => next \in at..end
    /\ pc = "finishing" => at < end /\ next \in at..end
    /\ pc = "gone" => results = <<>>
    /\ pc # "gone" => Len(results) = (IF pc = "finishing" THEN next - 1 ELSE at - 1)
    /\ pc \in {"starting", "settling"} => next \in Nat \ {0}
    /\ pc \in Collecting \union {"settling"} => \A i \in DOMAIN batch : batch[i] \in Wave

\* The calls of a wave, and those of a batch, may run beside each other.
Apart ==
    /\ pc \in InWave => \A c, d \in Wave : c # d => Free(c, d)
    /\ \A i, j \in DOMAIN batch : batch[i] # batch[j] => Free(batch[i], batch[j])

\* A run belongs to the batch the pass waits for, or the turn is gone.
Runs ==
    /\ \A c \in Calls : Going(c) =>
          /\ pc \in Collecting \union {"gone"}
          /\ slot[c] # 0
          /\ \E i \in DOMAIN batch : batch[i] = c
    /\ pc = "gone" => closed

\* A run that waits for room is going, and what is written wakes the turn.
Wakes ==
    /\ written # <<>> => closed \/ woken
    /\ pc \notin Collecting \union {"gone"} => written = <<>>
    /\ ParkedIsToldOfRoom

\* What was printed was reported, or waits to be, and of a call of the batch.
Counted ==
    /\ \A c \in Calls : printed[c] = reported[c] + Waiting(written, c)
    /\ \A j \in DOMAIN written : \E i \in DOMAIN batch : batch[i] = written[j]

\* Each run of a batch has a slot of its answers, which are all there once the
\* batch is over.
Slots ==
    /\ \A c \in Calls : slot[c] <= Len(answers)
    /\ pc \notin Collecting \union {"settling", "gone"} => slot = [c \in Calls |-> 0]
    /\ pc = "settling" => AllAnswered

\* What the calls of the wave came to: nothing once they are answered, and never
\* a call denied beside one that ran under a stop, so that such a stop lasts.
Marks ==
    /\ went \in Outcomes
    /\ pc \in InWave => went = "on" /\ \A c \in Calls : inv[c] # None => c \in Wave
    /\ pc \in {"top", "over", "gone"} => \A c \in Calls : inv[c] = None
    /\ pc = "finishing" => \A c \in Calls : inv[c] = None <=> c \notin next..(end - 1)
    /\ pc = "preparing" =>
          \A c \in Calls : inv[c] # None => ~inv[c].stops /\ (ended \/ inv[c].said # "denied")
    /\ pc \in InWave \ {"preparing"} => \A c \in Calls : inv[c].said # "denied"
    /\ \A c, d \in Calls : inv[c].said = "denied" /\ inv[d] # None => ~inv[d].stops
    /\ (\E i \in DOMAIN results : results[i].stops) =>
          went = "stopped" /\ \A c \in Calls : inv[c].said # "denied"

IInv == Types /\ Places /\ Apart /\ Runs /\ Wakes /\ Counted /\ Slots /\ Marks
-----------------------------------------------------------------------------
\* An invocation is made of what it says and how long that is.
LEMMA Invoked ==
    ASSUME NEW said \in Words, NEW size \in Nat
    PROVE  /\ Invocation(said, size) \in Invocations
           /\ Invocation(said, size).said = said
           /\ Invocation(said, size).stops = FALSE
BY DEF Invocation, Invocations

\* An invocation is not the want of one.
LEMMA Invokes == ASSUME NEW i \in Invocations PROVE i # None
<1>1. DOMAIN i = {"said", "size", "ran", "stops", "kept", "from"}
  BY DEF Invocations
<1>2. DOMAIN None = {"said"}
  BY DEF None
<1> QED
  BY <1>1, <1>2

\* The invocations a call is given without a run.
LEMMA StandIns ==
    /\ NotRun \in Invocations /\ NotRun.said # "denied" /\ ~NotRun.stops
    /\ CutShort \in Invocations /\ CutShort.said # "denied" /\ ~CutShort.stops
    /\ Denied \in Invocations /\ ~Denied.stops
<1>1. "not run" \in Words /\ "cut short" \in Words /\ "denied" \in Words /\ 1 \in Nat
  BY DEF Words
<1>2. NotRun \in Invocations /\ NotRun.said = "not run" /\ ~NotRun.stops
  BY <1>1, Invoked DEF NotRun
<1>3. CutShort \in Invocations /\ CutShort.said = "cut short" /\ ~CutShort.stops
  BY <1>1, Invoked DEF CutShort
<1>4. Denied \in Invocations /\ ~Denied.stops
  BY <1>1, Invoked DEF Denied
<1> QED
  BY <1>2, <1>3, <1>4

\* What is marked on an invocation leaves its words.
LEMMA MarkedKeeps ==
    ASSUME NEW i \in Invocations, NEW ran \in BOOLEAN, NEW stops \in BOOLEAN,
           NEW kept \in BOOLEAN, NEW from \in Nat
    PROVE  /\ [i EXCEPT !.from = from] \in Invocations
           /\ [i EXCEPT !.from = from].said = i.said
           /\ [i EXCEPT !.kept = kept] \in Invocations
           /\ [i EXCEPT !.kept = kept].said = i.said
           /\ [i EXCEPT !.ran = ran, !.stops = stops] \in Invocations
           /\ [i EXCEPT !.ran = ran, !.stops = stops].said = i.said
           /\ [i EXCEPT !.ran = ran, !.stops = stops, !.from = from] \in Invocations
           /\ [i EXCEPT !.ran = ran, !.stops = stops, !.from = from].said = i.said
BY DEF Invocations

\* What a run came to is an invocation, and is never that the reader denied it.
LEMMA Settled ==
    ASSUME stop \in BOOLEAN, NEW came \in Came, NEW i \in Settlements(came)
    PROVE  i \in Invocations /\ i.said # "denied"
<1>1. /\ came.of \in Nat
      /\ came.how \in {"output", "failed", "cancelled", "apart", "unran"}
  BY DEF Came, Calls
<1>2. [Panicked EXCEPT !.from = came.of] \in Invocations
      /\ [Panicked EXCEPT !.from = came.of].said = "panicked"
  <2>1. Invocation("panicked", 1) \in Invocations /\ Invocation("panicked", 1).said = "panicked"
    BY Invoked DEF Words
  <2>2. Panicked \in Invocations /\ Panicked.said = "panicked"
    BY DEF Panicked, Invocation, Invocations, Words
  <2> HIDE DEF Panicked
  <2> QED
    BY <1>1, <2>2, MarkedKeeps
<1>3. [Invocation("failed", 1) EXCEPT !.from = came.of] \in Invocations
      /\ [Invocation("failed", 1) EXCEPT !.from = came.of].said = "failed"
  <2>1. Invocation("failed", 1) \in Invocations /\ Invocation("failed", 1).said = "failed"
    BY Invoked DEF Words
  <2> QED
    BY <1>1, <2>1, MarkedKeeps
<1>4. ASSUME came.how \in {"output", "failed", "cancelled"},
             NEW said \in Words, NEW size \in Nat
      PROVE  Ran(came, said, size) \in Invocations /\ Ran(came, said, size).said = said
  <2>1. came.stopped \in BOOLEAN
    BY <1>4 DEF Came
  <2>2. Invocation(said, size) \in Invocations /\ Invocation(said, size).said = said
    BY Invoked
  <2> QED
    BY <1>1, <2>1 DEF Ran, Invocation, Invocations, Words
<1>5. CASE came.how = "output"
  <2>1. came.size \in Nat /\ came.kept \in BOOLEAN
    BY <1>5 DEF Came
  <2>2. Ran(came, "own", came.size) \in Invocations /\ Ran(came, "own", came.size).said = "own"
    BY <1>4, <1>5, <2>1 DEF Words
  <2>3. [Ran(came, "own", came.size) EXCEPT !.kept = came.kept] \in Invocations
        /\ [Ran(came, "own", came.size) EXCEPT !.kept = came.kept].said = "own"
    BY <2>1, <2>2, MarkedKeeps
  <2>4. Ran(came, "failed", 1) \in Invocations /\ Ran(came, "failed", 1).said = "failed"
    BY <1>4, <1>5 DEF Words
  <2>5. i \in {[Panicked EXCEPT !.from = came.of], Ran(came, "failed", 1),
                [Ran(came, "own", came.size) EXCEPT !.kept = came.kept]}
    BY <1>5 DEF Settlements
  <2> QED
    BY <1>2, <2>3, <2>4, <2>5
<1>6. CASE came.how \in {"failed", "cancelled"}
  <2>1. came.how = "failed" => came.size \in Nat
    BY DEF Came
  <2>2. Ran(came, "failed", 1) \in Invocations /\ Ran(came, "failed", 1).said = "failed"
    BY <1>4, <1>6 DEF Words
  <2>3. Ran(came, "timed out", 1) \in Invocations
        /\ Ran(came, "timed out", 1).said = "timed out"
    BY <1>4, <1>6 DEF Words
  <2>4. Ran(came, "cut short", 1) \in Invocations
        /\ Ran(came, "cut short", 1).said = "cut short"
    BY <1>4, <1>6 DEF Words
  <2>5. came.how = "failed" => Ran(came, "failed", came.size) \in Invocations
                               /\ Ran(came, "failed", came.size).said = "failed"
    BY <1>4, <1>6, <2>1 DEF Words
  <2>6. \/ i \in {[Panicked EXCEPT !.from = came.of], Ran(came, "failed", 1),
                   Ran(came, "timed out", 1), Ran(came, "cut short", 1)}
        \/ came.how = "failed" /\ i = Ran(came, "failed", came.size)
    BY <1>6 DEF Settlements
  <2> QED
    BY <1>2, <2>2, <2>3, <2>4, <2>5, <2>6
<1>7. CASE came.how \in {"apart", "unran"}
  <2>1. i \in {[Panicked EXCEPT !.from = came.of],
               [Invocation("failed", 1) EXCEPT !.from = came.of]}
    BY <1>7 DEF Settlements
  <2> QED
    BY <1>2, <1>3, <2>1
<1> QED
  BY <1>1, <1>5, <1>6, <1>7

\* What a call is answered with is said in an invocation's words, or in one of
\* the stand-ins for them.
LEMMA Says ==
    ASSUME NEW i \in Invocations, NEW left, NEW s \in SaysOf(i, left)
    PROVE  s.said \in Words \union StandInWords
<1>1. \A said \in StandInWords : \A size : Fits(said, size, left).said \in StandInWords
  BY DEF Fits, StandInWords
<1>2. LeftOut(i, left).said \in StandInWords
  BY <1>1 DEF LeftOut, StandInWords
<1>3. i.said \in Words
  BY DEF Invocations
<1>4. CASE i.size > left
  BY <1>2, <1>4 DEF SaysOf
<1>5. CASE ~(i.size > left)
  <2>1. s = [said |-> i.said, size |-> i.size] \/ s = Fits("not stored", 1, left)
    <3>1. s \in {[said |-> i.said, size |-> i.size]}
                  \union (IF i.kept THEN {Fits("not stored", 1, left)} ELSE {})
      BY <1>5 DEF SaysOf
    <3> QED
      BY <3>1
  <2>2. CASE s = [said |-> i.said, size |-> i.size]
    BY <1>3, <2>2
  <2>3. CASE s = Fits("not stored", 1, left)
    BY <1>1, <2>3 DEF StandInWords
  <2> QED
    BY <2>1, <2>2, <2>3
<1> QED
  BY <1>4, <1>5

\* A sequence with one element changed is one as long.
LEMMA Changed ==
    ASSUME NEW S, NEW seq \in Seq(S), NEW k, NEW x \in S
    PROVE  /\ [seq EXCEPT ![k] = x] \in Seq(S)
           /\ Len([seq EXCEPT ![k] = x]) = Len(seq)
<1> DEFINE new == [seq EXCEPT ![k] = x]
<1>1. new \in [1..Len(seq) -> S] /\ Len(seq) \in Nat
  <2>1. seq \in [1..Len(seq) -> S] /\ Len(seq) \in Nat
    OBVIOUS
  <2> QED
    BY <2>1
<1>2. DOMAIN new = 1..Len(seq)
  BY <1>1
<1> HIDE DEF new
<1>3. new \in Seq(S) /\ Len(new) = Len(seq)
  BY <1>1, <1>2
<1> QED
  BY <1>3 DEF new

\* The calls of a wave that came to nothing yet are calls.
LEMMA LeftCalls ==
    ASSUME at \in 1..(N + 1), end \in 1..(N + 1)
    PROVE  Wave \subseteq Calls /\ Left \subseteq Wave
<1>1. Wave \subseteq Calls
  BY ToolPassAssumption DEF Wave, Calls
<1> QED
  BY <1>1 DEF Left

\* Every variable has its type at first.
LEMMA TypesInit == Init => Types
<1> SUFFICES ASSUME Init PROVE Types
  OBVIOUS
<1>1. at \in 1..(N + 1) /\ end \in 1..(N + 1) /\ next \in Nat
  BY ToolPassAssumption DEF Init
<1>2. batch = <<>> /\ answers = <<>> /\ written = <<>> /\ results = <<>>
  BY DEF Init
<1>3. /\ batch \in Seq(Calls) /\ Len(batch) <= ToolRuns
      /\ answers \in Seq(Came \union {Unfilled}) /\ written \in Seq(Calls)
      /\ results \in Seq([call : Nat, said : Words \union StandInWords, from : Nat,
                          stops : BOOLEAN])
  BY <1>2, ToolPassAssumption
<1> QED
  BY <1>1, <1>3 DEF Init, Types, InWave

\* A run's answer is one of those there are.
LEMMA Answering ==
    ASSUME Types, NEW c \in Calls, Answers(c) \/ Taken(c)
    PROVE  /\ \E came \in Came : answers' = [answers EXCEPT ![slot[c]] = came]
           /\ woken' = TRUE
           /\ UNCHANGED <<planVars, stop, passVars, written, parked, closed, reported, printed,
                          effects>>
<1>1. ASSUME NEW s \in Nat, NEW k \in BOOLEAN, NEW late \in BOOLEAN
      PROVE  /\ [how |-> "output", of |-> c, size |-> s, kept |-> k, stopped |-> stop] \in Came
             /\ [how |-> "failed", of |-> c, size |-> s, stopped |-> stop, timedOut |-> late]
                  \in Came
             /\ [how |-> "cancelled", of |-> c, stopped |-> stop, timedOut |-> late] \in Came
             /\ [how |-> "apart", of |-> c] \in Came
             /\ [how |-> "unran", of |-> c] \in Came
  BY DEF Came, Types
<1>2. Sizes \subseteq Nat /\ 0 \in Nat /\ TRUE \in BOOLEAN
  BY ToolPassAssumption
<1>3. CASE Answers(c)
  BY <1>1, <1>2, <1>3 DEF Answers, Fills
<1>4. CASE Taken(c)
  BY <1>1, <1>2, <1>4 DEF Taken, Fills
<1> QED
  BY <1>3, <1>4

\* A piece is left in the mailbox, or is not.
LEMMA Writing ==
    ASSUME Types, NEW c \in Calls, Wrote(c)
    PROVE  /\ \/ written' = Append(written, c) /\ printed' = [printed EXCEPT ![c] = printed[c] + 1]
                 /\ woken' = TRUE /\ ~closed /\ parked' = parked
              \/ UNCHANGED <<written, printed, woken>>
                 /\ (closed \/ written # <<>>)
                 /\ (parked' = parked \/ (~closed /\ parked' = parked \union {c}))
           /\ \/ task' = [task EXCEPT ![c] = "running"]
              \/ task' = [task EXCEPT ![c] = "writing"]
           /\ UNCHANGED <<planVars, stop, passVars, answers, closed, reported, effects>>
<1>1. Len(written) >= Written => written # <<>>
  <2>1. Len(<<>>) = 0 /\ Written > 0
    BY ToolPassAssumption
  <2> QED
    BY <2>1, ToolPassAssumption
<1> QED
  BY <1>1 DEF Wrote, Leaves


\* Every variable keeps its type.
LEMMA TypesNext == ASSUME Types, Places, Slots, Marks, [Next]_vars PROVE Types'
<1> USE ToolPassAssumption DEF Types, InWave, planVars, passVars, mailVars, runVars
<1>1. CASE Stop
  BY <1>1 DEF Stop
<1>2. CASE AfterTurn
  <2>1. inv' \in [Calls -> Invocations \union {None}]
    <3>1. \A said \in Words : Invocation(said, 1) \in Invocations
      BY Invoked
    <3> QED
      BY <1>2, <3>1, StandIns DEF AfterTurn, Words
  <2> QED
    BY <1>2, <2>1 DEF AfterTurn
<1>3. CASE Stopped
  BY <1>3 DEF Stopped
<1>4. CASE Admit
  BY <1>4 DEF Admit
<1>5. CASE Prepare
  <2>1. inv' \in [Calls -> Invocations \union {None}]
    <3>1. \A s \in Sizes : Invocation("rejected", s) \in Invocations
      BY Invoked DEF Words
    <3> QED
      BY <1>5, <3>1, StandIns DEF Prepare
  <2> QED
    BY <1>5, <2>1 DEF Prepare
<1>6. CASE Prepared
  <2>1. inv' \in [Calls -> Invocations \union {None}]
    BY <1>6, StandIns DEF Prepared, Left, Wave
  <2> QED
    BY <1>6, <2>1 DEF Prepared
<1>7. CASE Batch
  <2>1. inv' \in [Calls -> Invocations \union {None}]
    BY <1>7, StandIns DEF Batch, Left, Wave
  <2>2. batch' \in Seq(Calls) /\ Len(batch') <= ToolRuns
    <3>1. Left \subseteq Calls
      BY LeftCalls
    <3>2. ASSUME NEW n \in 1..ToolRuns, NEW s \in [1..n -> Left]
          PROVE  s \in Seq(Calls) /\ Len(s) <= ToolRuns
      BY <3>1
    <3> QED
      BY <1>7, <3>2 DEF Batch
  <2>3. answers' \in Seq(Came \union {Unfilled})
    <3>1. <<>> \in Seq(Came \union {Unfilled})
      OBVIOUS
    <3> QED
      BY <1>7, <3>1 DEF Batch
  <2>4. UNCHANGED <<stop, at, end, results, slot, written, parked, reported, task, printed>>
    BY <1>7 DEF Batch
  <2>5. pc' \in {"finishing", "starting"} /\ next' \in Nat
    BY <1>7 DEF Batch
  <2>6. closed' \in BOOLEAN
    BY <1>7 DEF Batch
  <2>7. woken' \in BOOLEAN
    BY <1>7 DEF Batch
  <2> QED
    BY <2>1, <2>2, <2>3, <2>4, <2>5, <2>6, <2>7
<1>8. CASE Start
  <2>1. inv' \in [Calls -> Invocations \union {None}]
    <3>1. Invocation("failed", 1) \in Invocations
      BY Invoked DEF Words
    <3> QED
      BY <1>8, <3>1 DEF Start
  <2>2. answers' \in Seq(Came \union {Unfilled})
    <3>1. answers \in Seq(Came \union {Unfilled})
      OBVIOUS
    <3>2. answers' = answers \/ answers' = Append(answers, Unfilled)
      BY <1>8 DEF Start
    <3> HIDE DEF Types
    <3> QED
      BY <3>1, <3>2
  <2>3. slot' \in [Calls -> Nat]
    <3>1. slot \in [Calls -> Nat] /\ Len(answers) + 1 \in Nat
      OBVIOUS
    <3>2. slot' = slot \/ slot' = [slot EXCEPT ![batch[next]] = Len(answers) + 1]
      BY <1>8 DEF Start
    <3> HIDE DEF Types
    <3> QED
      BY <3>1, <3>2
  <2>4. task' \in [Calls -> {"no", "running", "writing", "answered", "returned"}]
    BY <1>8 DEF Start
  <2>5. UNCHANGED <<pc, stop, at, end, results, batch, written, parked, closed, woken, printed,
                    reported>> /\ next' \in Nat
    BY <1>8 DEF Start
  <2> QED
    BY <2>1, <2>2, <2>3, <2>4, <2>5
<1>9. CASE AllStarted
  BY <1>9 DEF AllStarted
<1>10. CASE Poll
  <2>1. <<>> \in Seq(Calls)
    OBVIOUS
  <2>2. reported' \in [Calls -> Nat]
    <3>1. \A c \in Calls : Waiting(written, c) \in Nat
      <4> TAKE c \in Calls
      <4>1. IsFiniteSet(1..Len(written))
        BY FS_Interval
      <4>2. IsFiniteSet({i \in DOMAIN written : written[i] = c})
        BY <4>1, FS_Subset
      <4> QED
        BY <4>2, FS_CardinalityType DEF Waiting
    <3>2. reported' = [c \in Calls |-> reported[c] + Waiting(written, c)]
      BY <1>10 DEF Poll, Posts, Waiting
    <3> QED
      BY <3>1, <3>2
  <2>3. woken' \in BOOLEAN
    BY <1>10 DEF Poll
  <2>4. UNCHANGED <<stop, at, end, inv, results, batch, slot, answers, task, printed>>
        /\ written' = <<>> /\ parked' = {}
    BY <1>10 DEF Poll
  <2>5. pc' \in {"collecting", "settling"} /\ next' \in Nat
    BY <1>10 DEF Poll
  <2>6. closed' \in BOOLEAN
    BY <1>10 DEF Poll
  <2> QED
    BY <2>1, <2>2, <2>3, <2>4, <2>5, <2>6
<1>11. CASE Settle
  <2>1. inv' \in [Calls -> Invocations \union {None}]
    <3>1. \A k \in DOMAIN answers : answers[k] \in Came \union {Unfilled}
      OBVIOUS
    <3>2. batch[next] \in Calls
      BY <1>11 DEF Settle, Places
    <3>3. CASE slot[batch[next]] = 0
      BY <1>11, <3>3 DEF Settle
    <3>4. CASE slot[batch[next]] # 0
      <4>1. slot[batch[next]] \in DOMAIN answers /\ answers[slot[batch[next]]] # Unfilled
        BY <1>11, <3>2, <3>4 DEF Settle, Slots, AllAnswered
      <4>2. answers[slot[batch[next]]] \in Came
        BY <3>1, <4>1
      <4> QED
        BY <1>11, <3>2, <3>4, <4>2, Settled DEF Settle
    <3> QED
      BY <3>3, <3>4
  <2> QED
    BY <1>11, <2>1 DEF Settle
<1>12. CASE BatchEnds
  <2>1. <<>> \in Seq(Calls) /\ <<>> \in Seq(Came \union {Unfilled}) /\ Len(<<>>) = 0
    OBVIOUS
  <2>2. slot' \in [Calls -> Nat]
    BY <1>12 DEF BatchEnds
  <2> QED
    BY <1>12, <2>1, <2>2 DEF BatchEnds
<1>13. CASE Finish
  <2>1. inv[next] \in Invocations /\ next \in Calls
    BY <1>13 DEF Finish, Places, Marks, Calls
  <2>2. PICK s \in SaysOf(inv[next], RoomLeft(next)) :
          results' = Append(results, [call |-> next, said |-> s.said, from |-> inv[next].from,
                                      stops |-> inv[next].stops])
    BY <1>13 DEF Finish
  <2>3. s.said \in Words \union StandInWords
    BY <2>1, Says
  <2>4. inv[next].from \in Nat /\ inv[next].stops \in BOOLEAN
    BY <2>1 DEF Invocations
  <2>5. results' \in Seq([call : Nat, said : Words \union StandInWords, from : Nat,
                          stops : BOOLEAN])
    BY <2>1, <2>2, <2>3, <2>4
  <2>6. UNCHANGED <<pc, stop, at, end, batch, slot, mailVars, task, printed>>
        /\ next' \in Nat /\ inv' = [inv EXCEPT ![next] = None]
    BY <1>13 DEF Finish
  <2> QED
    BY <2>5, <2>6
<1>14. CASE Finished
  BY <1>14 DEF Finished
<1>15. CASE Drop
  <2>1. <<>> \in Seq([call : Nat, said : Words \union StandInWords, from : Nat,
                      stops : BOOLEAN])
    OBVIOUS
  <2> QED
    BY <1>15, <2>1 DEF Drop
<1>16. ASSUME NEW c \in Calls, Effect(c) PROVE Types'
  BY <1>16 DEF Effect
<1>17. ASSUME NEW c \in Calls, Prints(c) PROVE Types'
  <2>1. Wrote(c)
    BY <1>17 DEF Prints
  <2>2. written' \in Seq(Calls)
    <3>1. written' = written \/ written' = Append(written, c)
      BY <2>1, Writing
    <3>2. written \in Seq(Calls)
      OBVIOUS
    <3> HIDE DEF Types
    <3> QED
      BY <3>1, <3>2
  <2>3. printed' \in [Calls -> Nat]
    <3>1. printed' = printed \/ printed' = [printed EXCEPT ![c] = printed[c] + 1]
      BY <2>1, Writing
    <3>2. printed \in [Calls -> Nat] /\ printed[c] + 1 \in Nat
      OBVIOUS
    <3> HIDE DEF Types
    <3> QED
      BY <3>1, <3>2
  <2>4. parked' \subseteq Calls /\ woken' \in BOOLEAN
    BY <2>1, Writing
  <2>5. task' \in [Calls -> {"no", "running", "writing", "answered", "returned"}]
    BY <2>1, Writing
  <2>6. UNCHANGED <<stop, passVars, answers, closed, reported>>
    BY <2>1, Writing
  <2> QED
    BY <2>2, <2>3, <2>4, <2>5, <2>6
<1>18. ASSUME NEW c \in Calls, GoesOn(c) PROVE Types'
  <2>1. Wrote(c)
    BY <1>18 DEF GoesOn
  <2>2. written' \in Seq(Calls)
    <3>1. written' = written \/ written' = Append(written, c)
      BY <2>1, Writing
    <3>2. written \in Seq(Calls)
      OBVIOUS
    <3> HIDE DEF Types
    <3> QED
      BY <3>1, <3>2
  <2>3. printed' \in [Calls -> Nat]
    <3>1. printed' = printed \/ printed' = [printed EXCEPT ![c] = printed[c] + 1]
      BY <2>1, Writing
    <3>2. printed \in [Calls -> Nat] /\ printed[c] + 1 \in Nat
      OBVIOUS
    <3> HIDE DEF Types
    <3> QED
      BY <3>1, <3>2
  <2>4. parked' \subseteq Calls /\ woken' \in BOOLEAN
    BY <2>1, Writing
  <2>5. task' \in [Calls -> {"no", "running", "writing", "answered", "returned"}]
    BY <2>1, Writing
  <2>6. UNCHANGED <<stop, passVars, answers, closed, reported>>
    BY <2>1, Writing
  <2> QED
    BY <2>2, <2>3, <2>4, <2>5, <2>6
<1>19. ASSUME NEW c \in Calls, Answers(c) PROVE Types'
  <2>1. PICK came \in Came : answers' = [answers EXCEPT ![slot[c]] = came]
    BY <1>19, Answering
  <2>2. answers' \in Seq(Came \union {Unfilled})
    BY <2>1, Changed
  <2> QED
    BY <1>19, <2>2, Answering DEF Answers
<1>20. ASSUME NEW c \in Calls, Returns(c) PROVE Types'
  BY <1>20 DEF Returns
<1>21. ASSUME NEW c \in Calls, Taken(c) PROVE Types'
  <2>1. PICK came \in Came : answers' = [answers EXCEPT ![slot[c]] = came]
    BY <1>21, Answering
  <2>2. answers' \in Seq(Came \union {Unfilled})
    BY <2>1, Changed
  <2> QED
    BY <1>21, <2>2, Answering DEF Taken
<1>22. CASE UNCHANGED vars
  BY <1>22 DEF vars
<1> QED
  BY <1>1, <1>2, <1>3, <1>4, <1>5, <1>6, <1>7, <1>8, <1>9, <1>10, <1>11, <1>12, <1>13,
     <1>14, <1>15, <1>16, <1>17, <1>18, <1>19, <1>20, <1>21, <1>22 DEF Next, Turn

\* What the pass is at, and its batch and wave, when a run goes on.
LEMMA RunsLeaveThePass ==
    ASSUME NEW c \in Calls,
           Effect(c) \/ Prints(c) \/ GoesOn(c) \/ Answers(c) \/ Returns(c) \/ Taken(c)
    PROVE  UNCHANGED <<planVars, stop, passVars>>
<1> USE DEF planVars, passVars, mailVars, runVars
<1>1. CASE Effect(c)
  BY <1>1 DEF Effect
<1>2. CASE Prints(c) \/ GoesOn(c)
  BY <1>2 DEF Prints, GoesOn, Wrote
<1>3. CASE Answers(c)
  BY <1>3 DEF Answers, Fills
<1>4. CASE Returns(c)
  BY <1>4 DEF Returns
<1>5. CASE Taken(c)
  BY <1>5 DEF Taken, Fills
<1> QED
  BY <1>1, <1>2, <1>3, <1>4, <1>5

\* The pass stays at its wave, and answers the calls before it.
LEMMA PlacesNext == ASSUME Types, Places, [Next]_vars PROVE Places'
<1> USE ToolPassAssumption DEF InWave, Collecting, planVars, passVars, mailVars, runVars
<1>t. /\ at \in 1..(N + 1) /\ end \in 1..(N + 1) /\ next \in Nat
      /\ batch \in Seq(Calls) /\ Len(results) \in Nat
      /\ \A x : Len(Append(results, x)) = Len(results) + 1
  BY DEF Types
<1> USE DEF Places, Wave
<1>1. CASE Stop
  BY <1>t, <1>1 DEF Stop
<1>2. CASE AfterTurn
  BY <1>t, <1>2 DEF AfterTurn
<1>3. CASE Stopped
  BY <1>t, <1>3 DEF Stopped
<1>4. CASE Admit
  BY <1>t, <1>4 DEF Admit
<1>5. CASE Prepare
  BY <1>t, <1>5 DEF Prepare
<1>6. CASE Prepared
  BY <1>t, <1>6 DEF Prepared
<1>7. CASE Batch
  <2>1. batch' # batch => \A i \in DOMAIN batch' : batch'[i] \in Wave
    BY <1>7 DEF Batch, Left
  <2>2. pc' \in {"finishing", "starting"} /\ UNCHANGED <<at, end, results>>
        /\ (pc' = "finishing" => next' = at) /\ (pc' = "starting" => next' = 1)
    BY <1>7 DEF Batch
  <2>3. pc' = "starting" => \A i \in DOMAIN batch' : batch'[i] \in Wave
    BY <1>7 DEF Batch, Left
  <2> QED
    BY <1>t, <1>7, <2>2, <2>3 DEF Batch
<1>8. CASE Start
  BY <1>t, <1>8 DEF Start
<1>9. CASE AllStarted
  BY <1>t, <1>9 DEF AllStarted
<1>10. CASE Poll
  BY <1>t, <1>10 DEF Poll
<1>11. CASE Settle
  BY <1>t, <1>11 DEF Settle
<1>12. CASE BatchEnds
  BY <1>t, <1>12 DEF BatchEnds
<1>13. CASE Finish
  <2>1. Len(results') = Len(results) + 1
    BY <1>t, <1>13 DEF Finish
  <2>2. pc' = pc /\ next' = next + 1 /\ UNCHANGED <<at, end, batch>>
    BY <1>13 DEF Finish
  <2> QED
    BY <1>t, <1>13, <2>1, <2>2 DEF Finish
<1>14. CASE Finished
  BY <1>t, <1>14 DEF Finished
<1>15. CASE Drop
  BY <1>15 DEF Drop
<1>16. ASSUME NEW c \in Calls, Effect(c) PROVE Places'
  BY <1>t, <1>16 DEF Effect
<1>17. ASSUME NEW c \in Calls, Prints(c) PROVE Places'
  BY <1>t, <1>17 DEF Prints, Wrote, Leaves
<1>18. ASSUME NEW c \in Calls, GoesOn(c) PROVE Places'
  BY <1>t, <1>18 DEF GoesOn, Wrote, Leaves
<1>19. ASSUME NEW c \in Calls, Answers(c) PROVE Places'
  BY <1>t, <1>19 DEF Answers, Fills
<1>20. ASSUME NEW c \in Calls, Returns(c) PROVE Places'
  BY <1>t, <1>20 DEF Returns
<1>21. ASSUME NEW c \in Calls, Taken(c) PROVE Places'
  BY <1>t, <1>21 DEF Taken, Fills
<1>22. CASE UNCHANGED vars
  BY <1>t, <1>22 DEF vars
<1> QED
  BY <1>1, <1>2, <1>3, <1>4, <1>5, <1>6, <1>7, <1>8, <1>9, <1>10, <1>11, <1>12, <1>13,
     <1>14, <1>15, <1>16, <1>17, <1>18, <1>19, <1>20, <1>21, <1>22 DEF Next, Turn

\* What two numbers of an interval are to each other, and to its ends.
LEMMA Between ==
    ASSUME NEW a \in Nat, NEW e \in Nat, NEW c \in a..(e - 1), NEW d \in a..(e - 1), c < d
    PROVE  /\ d \in (a + 1)..(e - 1) /\ c \in a..(d - 1)
           /\ c = a \/ c \in (a + 1)..(e - 1)
           /\ e # a + 1
OBVIOUS

\* The calls of the wave, and of the batch, stay free to run beside each other.
LEMMA ApartNext == ASSUME Types, Places, Apart, [Next]_vars PROVE Apart'
<1> USE ToolPassAssumption DEF InWave, Collecting, planVars, passVars, mailVars, runVars
<1>t. /\ at \in 1..(N + 1) /\ end \in 1..(N + 1) /\ batch \in Seq(Calls)
  BY DEF Types
<1> USE DEF Apart, Wave, Free
<1>1. CASE Stop
  BY <1>t, <1>1 DEF Stop
<1>2. CASE AfterTurn
  BY <1>t, <1>2 DEF AfterTurn
<1>3. CASE Stopped
  BY <1>t, <1>3 DEF Stopped
<1>4. CASE Admit
  <2>1. CASE pc' = "top"
    BY <1>t, <1>4, <2>1 DEF Admit
  <2>2. CASE pc' # "top"
    <3>1. WaveEnd(end') /\ end' \in (at + 1)..(N + 1) /\ UNCHANGED <<at, batch, mode>>
      BY <1>4, <2>2 DEF Admit
    <3>2. at \in Nat /\ end' \in Nat /\ at' = at
      BY <1>t, <3>1
    <3>3. \A c, d \in at..(end' - 1) : c < d => Free(c, d) /\ Free(d, c)
      <4> SUFFICES ASSUME NEW c \in at..(end' - 1), NEW d \in at..(end' - 1), c < d
                   PROVE  Free(c, d) /\ Free(d, c)
        OBVIOUS
      <4>1. /\ d \in (at + 1)..(end' - 1) /\ c \in at..(d - 1)
            /\ c = at \/ c \in (at + 1)..(end' - 1)
            /\ end' # at + 1
        BY <3>2, Between
      <4>2. mode[at] # "sequential" /\ \A x \in (at + 1)..(end' - 1) : JoinsFree(x, at..(x - 1))
        BY <3>1, <4>1 DEF WaveEnd
      <4>3. mode[c] # "sequential" /\ mode[d] # "sequential"
        BY <4>1, <4>2 DEF JoinsFree
      <4>4. mode[d] = "parallel" \/ mode[c] # mode[d]
        BY <4>1, <4>2 DEF JoinsFree
      <4> QED
        BY <4>3, <4>4
    <3>4. \A c, d \in at..(end' - 1) : c # d => c < d \/ d < c
      BY <3>2
    <3> QED
      BY <3>1, <3>2, <3>3, <3>4
  <2> QED
    BY <2>1, <2>2
<1>5. CASE Prepare
  BY <1>t, <1>5 DEF Prepare
<1>6. CASE Prepared
  BY <1>t, <1>6 DEF Prepared
<1>7. CASE Batch
  <2>1. UNCHANGED <<at, end, mode>> /\ \A c, d \in Wave : c # d => Free(c, d)
    BY <1>7 DEF Batch
  <2>2. \/ batch' = batch
        \/ \A i \in DOMAIN batch' : batch'[i] \in Wave
    BY <1>7 DEF Batch, Left
  <2> QED
    BY <2>1, <2>2
<1>8. CASE Start
  BY <1>t, <1>8 DEF Start
<1>9. CASE AllStarted
  BY <1>t, <1>9 DEF AllStarted
<1>10. CASE Poll
  BY <1>t, <1>10 DEF Poll
<1>11. CASE Settle
  BY <1>t, <1>11 DEF Settle
<1>12. CASE BatchEnds
  BY <1>t, <1>12 DEF BatchEnds
<1>13. CASE Finish
  BY <1>t, <1>13 DEF Finish
<1>14. CASE Finished
  BY <1>t, <1>14 DEF Finished
<1>15. CASE Drop
  BY <1>t, <1>15 DEF Drop
<1>16. ASSUME NEW c \in Calls, Effect(c) PROVE Apart'
  BY <1>t, <1>16 DEF Effect
<1>17. ASSUME NEW c \in Calls, Prints(c) PROVE Apart'
  BY <1>t, <1>17 DEF Prints, Wrote, Leaves
<1>18. ASSUME NEW c \in Calls, GoesOn(c) PROVE Apart'
  BY <1>t, <1>18 DEF GoesOn, Wrote, Leaves
<1>19. ASSUME NEW c \in Calls, Answers(c) PROVE Apart'
  BY <1>t, <1>19 DEF Answers, Fills
<1>20. ASSUME NEW c \in Calls, Returns(c) PROVE Apart'
  BY <1>t, <1>20 DEF Returns
<1>21. ASSUME NEW c \in Calls, Taken(c) PROVE Apart'
  BY <1>t, <1>21 DEF Taken, Fills
<1>22. CASE UNCHANGED vars
  BY <1>t, <1>22 DEF vars
<1> QED
  BY <1>1, <1>2, <1>3, <1>4, <1>5, <1>6, <1>7, <1>8, <1>9, <1>10, <1>11, <1>12, <1>13,
     <1>14, <1>15, <1>16, <1>17, <1>18, <1>19, <1>20, <1>21, <1>22 DEF Next, Turn

\* A run stays one of the batch that is waited for, or the turn is gone.
LEMMA RunsNext == ASSUME Types, Places, Runs, Slots, [Next]_vars PROVE Runs'
<1> USE ToolPassAssumption DEF InWave, Collecting, planVars, passVars, mailVars, runVars
<1>t. /\ batch \in Seq(Calls) /\ slot \in [Calls -> Nat] /\ answers \in Seq(Came \union {Unfilled})
      /\ task \in [Calls -> {"no", "running", "writing", "answered", "returned"}]
  BY DEF Types
<1> USE DEF Runs, Going
<1>1. CASE Stop
  BY <1>t, <1>1 DEF Stop
<1>2. CASE AfterTurn
  BY <1>t, <1>2 DEF AfterTurn
<1>3. CASE Stopped
  BY <1>t, <1>3 DEF Stopped
<1>4. CASE Admit
  BY <1>t, <1>4 DEF Admit
<1>5. CASE Prepare
  BY <1>t, <1>5 DEF Prepare
<1>6. CASE Prepared
  BY <1>t, <1>6 DEF Prepared
<1>7. CASE Batch
  BY <1>t, <1>7 DEF Batch
<1>8. CASE Start
  <2>1. batch[next] \in Calls /\ next \in DOMAIN batch /\ Len(answers) + 1 # 0
    BY <1>t, <1>8 DEF Start, Places
  <2> DEFINE b == batch[next]
  <2>2. CASE task' = [task EXCEPT ![b] = "running"] /\ slot' = [slot EXCEPT ![b] = Len(answers) + 1]
    <3>1. slot'[b] # 0 /\ \A c \in Calls \ {b} : slot'[c] = slot[c] /\ task'[c] = task[c]
      BY <1>t, <2>1, <2>2
    <3>2. UNCHANGED <<pc, batch, closed>>
      BY <1>8 DEF Start
    <3> QED
      BY <1>t, <1>8, <2>1, <3>1, <3>2 DEF Start
  <2>3. CASE UNCHANGED <<task, slot>>
    BY <1>t, <1>8, <2>3 DEF Start
  <2> QED
    BY <1>8, <2>2, <2>3 DEF Start
<1>9. CASE AllStarted
  BY <1>t, <1>9 DEF AllStarted
<1>10. CASE Poll
  <2>1. pc' = "settling" => AllReturned
    BY <1>10 DEF Poll
  <2>2. AllReturned => \A c \in Calls : ~Going(c)
    BY <1>t DEF AllReturned, InBatch, Range
  <2> QED
    BY <1>t, <1>10, <2>1, <2>2 DEF Poll
<1>11. CASE Settle
  BY <1>t, <1>11 DEF Settle
<1>12. CASE BatchEnds
  BY <1>t, <1>12 DEF BatchEnds
<1>13. CASE Finish
  BY <1>t, <1>13 DEF Finish
<1>14. CASE Finished
  BY <1>t, <1>14 DEF Finished
<1>15. CASE Drop
  BY <1>t, <1>15 DEF Drop
<1>16. ASSUME NEW c \in Calls, Effect(c) PROVE Runs'
  BY <1>t, <1>16 DEF Effect
<1>17. ASSUME NEW c \in Calls, Prints(c) PROVE Runs'
  <2>1. Wrote(c) /\ Going(c)
    BY <1>17 DEF Prints
  <2> QED
    BY <1>t, <2>1, Writing
<1>18. ASSUME NEW c \in Calls, GoesOn(c) PROVE Runs'
  <2>1. Wrote(c) /\ Going(c)
    BY <1>18 DEF GoesOn
  <2> QED
    BY <1>t, <2>1, Writing
<1>19. ASSUME NEW c \in Calls, Answers(c) PROVE Runs'
  BY <1>t, <1>19 DEF Answers, Fills
<1>20. ASSUME NEW c \in Calls, Returns(c) PROVE Runs'
  BY <1>t, <1>20 DEF Returns
<1>21. ASSUME NEW c \in Calls, Taken(c) PROVE Runs'
  BY <1>t, <1>21 DEF Taken, Fills
<1>22. CASE UNCHANGED vars
  BY <1>t, <1>22 DEF vars
<1> QED
  BY <1>1, <1>2, <1>3, <1>4, <1>5, <1>6, <1>7, <1>8, <1>9, <1>10, <1>11, <1>12, <1>13,
     <1>14, <1>15, <1>16, <1>17, <1>18, <1>19, <1>20, <1>21, <1>22 DEF Next, Turn


\* A piece more is left after the others.
LEMMA LeavesOne ==
    ASSUME NEW pieces \in Seq(Calls), NEW c \in Calls, NEW more, more = Append(pieces, c)
    PROVE  /\ more # <<>>
           /\ \A i \in DOMAIN more : more[i] = c \/ (i \in DOMAIN pieces /\ more[i] = pieces[i])
<1>1. DOMAIN more = 1..(Len(pieces) + 1) /\ Len(pieces) \in Nat
      /\ DOMAIN pieces = 1..Len(pieces)
  OBVIOUS
<1>2. \A i \in 1..(Len(pieces) + 1) : more[i] = IF i = Len(pieces) + 1 THEN c ELSE pieces[i]
  OBVIOUS
<1>3. more # <<>>
  <2> SUFFICES ASSUME more = <<>> PROVE FALSE
    OBVIOUS
  <2>1. DOMAIN <<>> = {} /\ 1 \in 1..(Len(pieces) + 1)
    BY <1>1
  <2> QED
    BY <1>1, <2>1
<1>4. ASSUME NEW i \in DOMAIN more
      PROVE  more[i] = c \/ (i \in DOMAIN pieces /\ more[i] = pieces[i])
  BY <1>1, <1>2, <1>4
<1> QED
  BY <1>3, <1>4

\* A run that waits for room stays going, and the turn awake.
LEMMA WakesNext == ASSUME Types, Runs, Wakes, [Next]_vars PROVE Wakes'
<1> USE ToolPassAssumption DEF InWave, Collecting, planVars, passVars, mailVars, runVars
<1> USE DEF Wakes, ParkedIsToldOfRoom
<1>1. CASE Stop
  BY <1>1 DEF Stop
<1>2. CASE AfterTurn
  BY <1>2 DEF AfterTurn
<1>3. CASE Stopped
  BY <1>3 DEF Stopped
<1>4. CASE Admit
  BY <1>4 DEF Admit
<1>5. CASE Prepare
  BY <1>5 DEF Prepare
<1>6. CASE Prepared
  BY <1>6 DEF Prepared
<1>7. CASE Batch
  BY <1>7 DEF Batch
<1>8. CASE Start
  BY <1>8 DEF Start
<1>9. CASE AllStarted
  BY <1>9 DEF AllStarted
<1>10. CASE Poll
  BY <1>10 DEF Poll
<1>11. CASE Settle
  BY <1>11 DEF Settle
<1>12. CASE BatchEnds
  BY <1>12 DEF BatchEnds
<1>13. CASE Finish
  BY <1>13 DEF Finish
<1>14. CASE Finished
  BY <1>14 DEF Finished
<1>15. CASE Drop
  BY <1>15 DEF Drop
<1>16. ASSUME NEW c \in Calls, Effect(c) PROVE Wakes'
  BY <1>16 DEF Effect
<1>17. ASSUME NEW c \in Calls, Prints(c) PROVE Wakes'
  <2>1. Wrote(c) /\ Going(c)
    BY <1>17 DEF Prints, Going
  <2>2. Append(written, c) # <<>>
    BY LeavesOne DEF Types
  <2> QED
    BY <2>1, <2>2, Writing DEF Runs
<1>18. ASSUME NEW c \in Calls, GoesOn(c) PROVE Wakes'
  <2>1. Wrote(c) /\ Going(c)
    BY <1>18 DEF GoesOn, Going
  <2>2. Append(written, c) # <<>>
    BY LeavesOne DEF Types
  <2> QED
    BY <2>1, <2>2, Writing DEF Runs
<1>19. ASSUME NEW c \in Calls, Answers(c) PROVE Wakes'
  <2>1. woken' = TRUE /\ UNCHANGED <<pc, written, parked, closed>>
    BY <1>19, Answering
  <2>2. pc \in Collecting \union {"gone"}
    BY <1>19 DEF Answers, Runs, Going
  <2> QED
    BY <2>1, <2>2
<1>20. ASSUME NEW c \in Calls, Returns(c) PROVE Wakes'
  BY <1>20 DEF Returns
<1>21. ASSUME NEW c \in Calls, Taken(c) PROVE Wakes'
  BY <1>21 DEF Taken, Fills
<1>22. CASE UNCHANGED vars
  BY <1>22 DEF vars
<1> QED
  BY <1>1, <1>2, <1>3, <1>4, <1>5, <1>6, <1>7, <1>8, <1>9, <1>10, <1>11, <1>12, <1>13,
     <1>14, <1>15, <1>16, <1>17, <1>18, <1>19, <1>20, <1>21, <1>22 DEF Next, Turn

\* A run's slot stays one of the answers.
LEMMA SlotsNext == ASSUME Types, Places, Runs, Slots, [Next]_vars PROVE Slots'
<1> USE ToolPassAssumption DEF InWave, Collecting, planVars, passVars, mailVars, runVars
<1>t. /\ batch \in Seq(Calls) /\ slot \in [Calls -> Nat] /\ answers \in Seq(Came \union {Unfilled})
      /\ Len(answers) \in Nat
  BY DEF Types
<1> USE DEF Slots, AllAnswered
<1>1. CASE Stop
  BY <1>t, <1>1 DEF Stop
<1>2. CASE AfterTurn
  BY <1>t, <1>2 DEF AfterTurn
<1>3. CASE Stopped
  BY <1>t, <1>3 DEF Stopped
<1>4. CASE Admit
  BY <1>t, <1>4 DEF Admit
<1>5. CASE Prepare
  BY <1>t, <1>5 DEF Prepare
<1>6. CASE Prepared
  BY <1>t, <1>6 DEF Prepared
<1>7. CASE Batch
  <2>1. slot' = [c \in Calls |-> 0] /\ Len(answers') \in Nat /\ pc' \in {"finishing", "starting"}
    BY <1>t, <1>7 DEF Batch
  <2> QED
    BY <2>1
<1>8. CASE Start
  <2> DEFINE b == batch[next]
  <2>1. b \in Calls
    BY <1>t, <1>8 DEF Start, Places
  <2>2. UNCHANGED pc /\ pc = "starting"
    BY <1>8 DEF Start
  <2>3. CASE answers' = Append(answers, Unfilled) /\ slot' = [slot EXCEPT ![b] = Len(answers) + 1]
    <3>1. Len(answers') = Len(answers) + 1
      BY <1>t, <2>3
    <3>2. \A c \in Calls : slot'[c] <= Len(answers')
      BY <1>t, <2>1, <2>3, <3>1
    <3> QED
      BY <2>2, <3>2
  <2>4. CASE UNCHANGED <<answers, slot>>
    BY <2>2, <2>4
  <2> QED
    BY <1>8, <2>3, <2>4 DEF Start
<1>9. CASE AllStarted
  BY <1>t, <1>9 DEF AllStarted
<1>10. CASE Poll
  BY <1>t, <1>10 DEF Poll
<1>11. CASE Settle
  BY <1>t, <1>11 DEF Settle
<1>12. CASE BatchEnds
  <2>1. slot' = [c \in Calls |-> 0] /\ Len(answers') \in Nat /\ pc' = "batching"
    BY <1>t, <1>12 DEF BatchEnds
  <2> QED
    BY <2>1
<1>13. CASE Finish
  BY <1>t, <1>13 DEF Finish
<1>14. CASE Finished
  BY <1>t, <1>14 DEF Finished
<1>15. CASE Drop
  BY <1>t, <1>15 DEF Drop
<1>16. ASSUME NEW c \in Calls, Effect(c) PROVE Slots'
  BY <1>t, <1>16 DEF Effect
<1>17. ASSUME NEW c \in Calls, Prints(c) PROVE Slots'
  <2>1. Wrote(c) /\ Going(c)
    BY <1>17 DEF Prints, Going
  <2> QED
    BY <2>1, Writing
<1>18. ASSUME NEW c \in Calls, GoesOn(c) PROVE Slots'
  <2>1. Wrote(c) /\ Going(c)
    BY <1>18 DEF GoesOn, Going
  <2> QED
    BY <2>1, Writing
<1>19. ASSUME NEW c \in Calls, Answers(c) PROVE Slots'
  <2>1. PICK came \in Came : answers' = [answers EXCEPT ![slot[c]] = came]
    BY <1>19, Answering
  <2>2. Len(answers') = Len(answers)
    BY <1>t, <2>1, Changed
  <2>3. pc # "settling"
    BY <1>19 DEF Answers, Runs, Going
  <2>4. UNCHANGED <<pc, slot>>
    BY <1>19, Answering
  <2> QED
    BY <2>2, <2>3, <2>4
<1>20. ASSUME NEW c \in Calls, Returns(c) PROVE Slots'
  BY <1>t, <1>20 DEF Returns
<1>21. ASSUME NEW c \in Calls, Taken(c) PROVE Slots'
  <2>1. PICK came \in Came : answers' = [answers EXCEPT ![slot[c]] = came]
    BY <1>21, Answering
  <2>2. Len(answers') = Len(answers)
    BY <1>t, <2>1, Changed
  <2>3. pc # "settling"
    BY <1>21 DEF Taken
  <2>4. UNCHANGED <<pc, slot>>
    BY <1>21, Answering
  <2> QED
    BY <2>2, <2>3, <2>4
<1>22. CASE UNCHANGED vars
  BY <1>t, <1>22 DEF vars
<1> QED
  BY <1>1, <1>2, <1>3, <1>4, <1>5, <1>6, <1>7, <1>8, <1>9, <1>10, <1>11, <1>12, <1>13,
     <1>14, <1>15, <1>16, <1>17, <1>18, <1>19, <1>20, <1>21, <1>22 DEF Next, Turn

\* The pieces that wait to be reported are finitely many, and one more is left.
LEMMA WaitingIsCounted ==
    ASSUME NEW pieces \in Seq(Calls), NEW c \in Calls, NEW d \in Calls
    PROVE  /\ Waiting(pieces, d) \in Nat
           /\ Waiting(<<>>, d) = 0
           /\ Waiting(Append(pieces, c), d) = Waiting(pieces, d) + (IF c = d THEN 1 ELSE 0)
<1> DEFINE At(s) == {i \in DOMAIN s : s[i] = d}
<1>1. Len(pieces) \in Nat /\ DOMAIN pieces = 1..Len(pieces)
  OBVIOUS
<1>2. IsFiniteSet(At(pieces))
  <2>1. IsFiniteSet(1..Len(pieces))
    BY <1>1, FS_Interval
  <2> QED
    BY <1>1, <2>1, FS_Subset
<1>3. At(<<>>) = {}
  OBVIOUS
<1>4. Len(pieces) + 1 \notin At(pieces)
  BY <1>1
<1>5. At(Append(pieces, c)) =
        IF c = d THEN At(pieces) \union {Len(pieces) + 1} ELSE At(pieces)
  <2>1. DOMAIN Append(pieces, c) = 1..(Len(pieces) + 1)
        /\ \A i \in 1..(Len(pieces) + 1) :
              Append(pieces, c)[i] = IF i = Len(pieces) + 1 THEN c ELSE pieces[i]
    OBVIOUS
  <2> QED
    BY <1>1, <2>1
<1>6. \A s : Waiting(s, d) = Cardinality(At(s))
  BY DEF Waiting
<1> HIDE DEF At
<1>7. Cardinality(At(pieces)) \in Nat
  BY <1>2, FS_CardinalityType
<1>8. Cardinality(At(pieces) \union {Len(pieces) + 1}) = Cardinality(At(pieces)) + 1
  BY <1>2, <1>4, FS_AddElement
<1>9. Cardinality({}) = 0
  BY FS_EmptySet
<1>10. Waiting(pieces, d) \in Nat /\ Waiting(<<>>, d) = 0
  BY <1>3, <1>6, <1>7, <1>9
<1>11. CASE c = d
  BY <1>5, <1>6, <1>8, <1>10, <1>11
<1>12. CASE c # d
  <2>1. Waiting(Append(pieces, c), d) = Waiting(pieces, d)
    BY <1>5, <1>6, <1>12
  <2> QED
    BY <1>10, <1>12, <2>1
<1> QED
  BY <1>11, <1>12

\* What a run prints is counted.
LEMMA CountedWriting ==
    ASSUME Types, Runs, Counted, NEW c \in Calls, Wrote(c), Going(c)
    PROVE  Counted'
<1> USE DEF planVars, passVars, mailVars, runVars
<1>t. /\ written \in Seq(Calls) /\ printed \in [Calls -> Nat] /\ reported \in [Calls -> Nat]
      /\ batch \in Seq(Calls)
  BY DEF Types
<1>1. UNCHANGED <<batch, reported>>
  BY Writing
<1>2. CASE written' = Append(written, c) /\ printed' = [printed EXCEPT ![c] = printed[c] + 1]
  <2>1. ASSUME NEW d \in Calls
        PROVE  printed'[d] = reported'[d] + Waiting(written', d)
    <3>1. Waiting(written, d) \in Nat
          /\ Waiting(written', d) = Waiting(written, d) + (IF c = d THEN 1 ELSE 0)
      BY <1>t, <1>2, WaitingIsCounted
    <3>2. printed[d] = reported[d] + Waiting(written, d)
      BY DEF Counted
    <3>3. printed'[d] = printed[d] + (IF c = d THEN 1 ELSE 0)
      BY <1>t, <1>2
    <3>4. reported[d] \in Nat /\ reported' = reported
      BY <1>t, <1>1
    <3> QED
      BY <3>1, <3>2, <3>3, <3>4
  <2>2. \A j \in DOMAIN written' :
           written'[j] = c \/ (j \in DOMAIN written /\ written'[j] = written[j])
    <3> DEFINE more == written'
    <3>1. written \in Seq(Calls) /\ more = Append(written, c)
      BY <1>t, <1>2
    <3> HIDE DEF more
    <3>2. \A j \in DOMAIN more : more[j] = c \/ (j \in DOMAIN written /\ more[j] = written[j])
      BY <3>1, LeavesOne, Zenon
    <3> QED
      BY <3>2 DEF more
  <2> QED
    BY <1>1, <2>1, <2>2 DEF Counted, Runs
<1>3. CASE UNCHANGED <<written, printed>>
  BY <1>1, <1>3 DEF Counted
<1> QED
  BY <1>2, <1>3, Writing

\* What was printed stays reported, or waiting to be.
LEMMA CountedNext == ASSUME Types, Runs, Wakes, Counted, [Next]_vars PROVE Counted'
<1> USE ToolPassAssumption DEF InWave, Collecting, planVars, passVars, mailVars, runVars
<1>t. written \in Seq(Calls) /\ reported \in [Calls -> Nat] /\ printed \in [Calls -> Nat]
  BY DEF Types
<1> USE DEF Counted
<1>1. CASE Stop
  BY <1>t, <1>1 DEF Stop
<1>2. CASE AfterTurn
  BY <1>t, <1>2 DEF AfterTurn
<1>3. CASE Stopped
  BY <1>t, <1>3 DEF Stopped
<1>4. CASE Admit
  BY <1>t, <1>4 DEF Admit
<1>5. CASE Prepare
  BY <1>t, <1>5 DEF Prepare
<1>6. CASE Prepared
  BY <1>t, <1>6 DEF Prepared
<1>7. CASE Batch
  <2>1. written = <<>> /\ UNCHANGED <<written, printed, reported>>
    BY <1>7 DEF Batch, Wakes
  <2> QED
    BY <2>1
<1>8. CASE Start
  BY <1>t, <1>8 DEF Start
<1>9. CASE AllStarted
  BY <1>t, <1>9 DEF AllStarted
<1>10. CASE Poll
  <2>1. written' = <<>> /\ UNCHANGED <<printed, batch>>
        /\ reported' = [c \in Calls |-> reported[c] + Waiting(written, c)]
    BY <1>10 DEF Poll, Posts, Waiting
  <2>2. \A c \in Calls : Waiting(written, c) \in Nat /\ Waiting(<<>>, c) = 0
    BY <1>t, WaitingIsCounted
  <2> QED
    BY <1>t, <2>1, <2>2
<1>11. CASE Settle
  BY <1>t, <1>11 DEF Settle
<1>12. CASE BatchEnds
  <2>1. written = <<>> /\ UNCHANGED <<written, printed, reported>>
    BY <1>12 DEF BatchEnds, Wakes
  <2> QED
    BY <2>1
<1>13. CASE Finish
  BY <1>t, <1>13 DEF Finish
<1>14. CASE Finished
  BY <1>t, <1>14 DEF Finished
<1>15. CASE Drop
  BY <1>t, <1>15 DEF Drop
<1>16. ASSUME NEW c \in Calls, Effect(c) PROVE Counted'
  BY <1>t, <1>16 DEF Effect
<1>17. ASSUME NEW c \in Calls, Prints(c) PROVE Counted'
  <2>1. Wrote(c) /\ Going(c)
    BY <1>17 DEF Prints, Going
  <2> QED
    BY <2>1, CountedWriting
<1>18. ASSUME NEW c \in Calls, GoesOn(c) PROVE Counted'
  <2>1. Wrote(c) /\ Going(c)
    BY <1>18 DEF GoesOn, Going
  <2> QED
    BY <2>1, CountedWriting
<1>19. ASSUME NEW c \in Calls, Answers(c) PROVE Counted'
  <2> QED
    BY <1>19, Answering
<1>20. ASSUME NEW c \in Calls, Returns(c) PROVE Counted'
  BY <1>t, <1>20 DEF Returns
<1>21. ASSUME NEW c \in Calls, Taken(c) PROVE Counted'
  <2> QED
    BY <1>21, Answering
<1>22. CASE UNCHANGED vars
  BY <1>t, <1>22 DEF vars
<1> QED
  BY <1>1, <1>2, <1>3, <1>4, <1>5, <1>6, <1>7, <1>8, <1>9, <1>10, <1>11, <1>12, <1>13,
     <1>14, <1>15, <1>16, <1>17, <1>18, <1>19, <1>20, <1>21, <1>22 DEF Next, Turn


\* The wave's marks hold of one more invocation that the reader did not refuse.
LEMMA Ranked ==
    ASSUME Types, Marks, pc \in InWave \ {"preparing"},
           NEW c \in Wave, c \in Calls, NEW i \in Invocations, i.said # "denied",
           UNCHANGED <<pc, at, end, went, results>>, inv' = [inv EXCEPT ![c] = i]
    PROVE  Marks'
<1>1. \A d \in Calls : inv'[d] = IF d = c THEN i ELSE inv[d]
  BY DEF Types
<1>2. \A d \in Calls : inv'[d].said # "denied"
  BY <1>1 DEF Marks
<1>3. \A d \in Calls : inv'[d] # None => d \in Wave
  BY <1>1 DEF Marks, InWave
<1> QED
  BY <1>2, <1>3 DEF Marks, InWave, Wave

\* The marks stay: a stop under which a run answered lasts.
LEMMA MarksNext == ASSUME Types, Places, Slots, Marks, [Next]_vars PROVE Marks'
<1> USE ToolPassAssumption DEF InWave, Collecting, planVars, passVars, mailVars, runVars
<1>t. /\ at \in 1..(N + 1) /\ end \in 1..(N + 1) /\ next \in Nat /\ stop \in BOOLEAN
      /\ batch \in Seq(Calls) /\ slot \in [Calls -> Nat] /\ answers \in Seq(Came \union {Unfilled})
      /\ inv \in [Calls -> Invocations \union {None}]
      /\ results \in Seq([call : Nat, said : Words \union StandInWords, from : Nat,
                          stops : BOOLEAN])
  BY DEF Types
<1>n. None.said = "nothing"
  BY DEF None
<1> USE DEF Marks, Wave
<1>1. CASE Stop
  BY <1>t, <1>n, <1>1 DEF Stop
<1>2. CASE AfterTurn
  <2>1. PICK i \in Invocations : inv' = [inv EXCEPT ![at] = i] /\ i.said # "denied" /\ ~i.stops
    <3>1. \A said \in Words : /\ Invocation(said, 1) \in Invocations
                               /\ Invocation(said, 1).said = said
                               /\ Invocation(said, 1).stops = FALSE
      BY Invoked
    <3> QED
      BY <1>2, <3>1, StandIns DEF AfterTurn, Words
  <2>2. pc = "top" /\ pc' = "finishing" /\ end' = at + 1 /\ next' = at /\ at \in Calls
        /\ UNCHANGED <<went, results>>
    BY <1>t, <1>2 DEF AfterTurn, Calls
  <2>3. i # None
    BY Invokes
  <2>4. \A c \in Calls : inv'[c] = IF c = at THEN i ELSE None
    BY <1>t, <2>1, <2>2
  <2>5. \A c \in Calls : c \in next'..(end' - 1) <=> c = at
    BY <2>2 DEF Calls
  <2> QED
    BY <1>n, <2>1, <2>2, <2>3, <2>4, <2>5
<1>3. CASE Stopped
  <2>1. UNCHANGED <<pc, inv, results>> /\ pc = "top" /\ went = "on" /\ went' = "stopped"
    BY <1>3 DEF Stopped
  <2> QED
    BY <1>n, <2>1 DEF Outcomes
<1>4. CASE Admit
  <2>1. UNCHANGED <<inv, results, at>> /\ pc = "top" /\ went = "on"
        /\ (pc' = "top" \/ (pc' = "preparing" /\ went' = "on")) /\ went' \in {"on", "limit"}
    BY <1>4 DEF Admit
  <2> QED
    BY <1>n, <2>1 DEF Outcomes
<1>5. CASE Prepare
  <2>1. UNCHANGED <<pc, at, end, went, results>>
        /\ pc = "preparing" /\ next \in Wave /\ next \in Calls
    BY <1>t, <1>5 DEF Prepare, Calls, Places
  <2>2. \/ UNCHANGED <<inv, ended>>
        \/ /\ ended' \/ UNCHANGED ended
           /\ \E i \in Invocations : /\ inv' = [inv EXCEPT ![next] = i] /\ ~i.stops
                                     /\ ended' \/ i.said # "denied"
    <3>1. \A s \in Sizes : /\ Invocation("rejected", s) \in Invocations
                           /\ Invocation("rejected", s).said = "rejected"
                           /\ ~Invocation("rejected", s).stops
      BY Invoked DEF Words
    <3> QED
      BY <1>5, <3>1, StandIns DEF Prepare
  <2>3. CASE UNCHANGED <<inv, ended>>
    BY <2>1, <2>3
  <2>4. ASSUME NEW i \in Invocations, inv' = [inv EXCEPT ![next] = i], ~i.stops,
               ended' \/ i.said # "denied", ended' \/ UNCHANGED ended
        PROVE  Marks'
    <3>1. \A c \in Calls : inv'[c] = IF c = next THEN i ELSE inv[c]
      BY <1>t, <2>4
    <3>2. \A c \in Calls : inv'[c] # None => ~inv'[c].stops /\ (ended' \/ inv'[c].said # "denied")
      BY <2>1, <2>4, <3>1
    <3>3. \A c \in Calls : inv'[c] # None => c \in Wave
      BY <2>1, <3>1
    <3> QED
      BY <2>1, <3>2, <3>3
  <2> QED
    BY <2>2, <2>3, <2>4
<1>6. CASE Prepared
  <2>1. UNCHANGED <<at, end, went, results>> /\ pc = "preparing" /\ next' = at
    BY <1>6 DEF Prepared
  <2>2. CASE ended
    <3>1. pc' = "finishing" /\ inv' = [c \in Calls |-> IF c \in Left THEN NotRun ELSE inv[c]]
      BY <1>6, <2>2 DEF Prepared
    <3>2. \A c \in Calls : inv'[c] # None <=> c \in Wave
      BY <2>1, <3>1, StandIns, Invokes DEF Left
    <3>3. \A c \in Calls : inv'[c] # None => ~inv'[c].stops
      BY <2>1, <3>1, StandIns
    <3> QED
      BY <2>1, <3>1, <3>2, <3>3
  <2>3. CASE ~ended
    BY <1>n, <1>6, <2>1, <2>3 DEF Prepared
  <2> QED
    BY <2>2, <2>3
<1>7. CASE Batch
  <2>1. UNCHANGED <<at, end, went, results>> /\ pc = "batching"
    BY <1>7 DEF Batch
  <2>2. CASE inv' = [c \in Calls |-> IF c \in Left THEN CutShort ELSE inv[c]] /\ pc' = "finishing"
             /\ next' = at
    <3>1. \A c \in Calls : inv'[c] # None <=> c \in Wave
      BY <2>1, <2>2, StandIns, Invokes DEF Left
    <3>2. \A c \in Calls : inv'[c].said # "denied"
      BY <2>1, <2>2, StandIns
    <3> QED
      BY <2>1, <2>2, <3>1, <3>2
  <2>3. CASE UNCHANGED inv /\ pc' = "starting"
    BY <2>1, <2>3
  <2> QED
    BY <1>7, <2>2, <2>3 DEF Batch
<1>8. CASE Start
  <2>1. UNCHANGED <<pc, at, end, went, results>> /\ pc = "starting" /\ batch[next] \in Wave
        /\ batch[next] \in Calls
    BY <1>t, <1>8 DEF Start, Places
  <2>2. CASE UNCHANGED inv
    BY <2>1, <2>2
  <2>3. CASE inv' = [inv EXCEPT ![batch[next]] = Invocation("failed", 1)]
    <3>1. \A said \in Words : Invocation(said, 1) \in Invocations /\ Invocation(said, 1).said = said
      BY Invoked
    <3>2. Invocation("failed", 1) \in Invocations /\ Invocation("failed", 1).said # "denied"
      BY <3>1 DEF Words
    <3> QED
      BY <2>1, <2>3, <3>2, Ranked
  <2> QED
    BY <1>8, <2>2, <2>3 DEF Start
<1>9. CASE AllStarted
  BY <1>t, <1>n, <1>9 DEF AllStarted
<1>10. CASE Poll
  BY <1>t, <1>n, <1>10 DEF Poll
<1>11. CASE Settle
  <2>1. UNCHANGED <<pc, at, end, went, results>> /\ pc = "settling" /\ batch[next] \in Wave
        /\ batch[next] \in Calls
    BY <1>t, <1>11 DEF Settle, Places
  <2>2. CASE UNCHANGED inv
    BY <2>1, <2>2
  <2>3. CASE slot[batch[next]] # 0
    <3>1. answers[slot[batch[next]]] \in Came
      <4>1. slot[batch[next]] \in DOMAIN answers
        BY <1>t, <2>1, <2>3 DEF Slots
      <4> QED
        BY <1>t, <2>1, <4>1 DEF Slots, AllAnswered
    <3>2. PICK i \in Settlements(answers[slot[batch[next]]]) :
            inv' = [inv EXCEPT ![batch[next]] = i]
      BY <1>11, <2>3 DEF Settle
    <3>3. i \in Invocations /\ i.said # "denied"
      BY <1>t, <3>1, Settled
    <3> QED
      BY <1>t, <2>1, <3>2, <3>3, Ranked
  <2> QED
    BY <1>11, <2>2, <2>3 DEF Settle
<1>12. CASE BatchEnds
  BY <1>t, <1>n, <1>12 DEF BatchEnds
<1>13. CASE Finish
  <2> DEFINE i == inv[next]
             left == RoomLeft(next)
             marked == Marked(i)
  <2>1. UNCHANGED <<pc, at, end>> /\ pc = "finishing" /\ next \in Calls /\ next' = next + 1
        /\ inv' = [inv EXCEPT ![next] = None]
        /\ went' = (IF i.size > left /\ marked = "on" THEN "limit" ELSE marked)
    BY <1>t, <1>13 DEF Finish, Places, Calls
  <2>2. PICK s : results' = Append(results, [call |-> next, said |-> s.said, from |-> i.from,
                                             stops |-> i.stops])
    BY <1>13 DEF Finish
  <2>3. i # None
    BY <1>t, <2>1, <1>13 DEF Finish, Places
  <2>4. \A c \in Calls : inv'[c] = IF c = next THEN None ELSE inv[c]
    BY <1>t, <2>1
  <2>5. \A c \in Calls : inv'[c] = None <=> c \notin next'..(end' - 1)
    <3>1. \A c \in Calls : c \in next'..(end - 1) <=> c \in next..(end - 1) /\ c # next
      BY <1>t, <2>1 DEF Calls
    <3> QED
      BY <2>1, <2>3, <2>4, <3>1
  <2>6. marked \in Outcomes /\ (i.stops => marked = "stopped") /\ (went = "stopped" =>
          marked = "stopped" \/ i.said = "denied")
    <3>1. i.stops => i.said # "denied"
      BY <2>1, <2>3
    <3> QED
      BY <3>1 DEF Marked, Outcomes
  <2>7. \A k \in DOMAIN results' : \/ results'[k].stops = i.stops
                                   \/ k \in DOMAIN results /\ results'[k] = results[k]
    BY <1>t, <2>2
  <2>8. ASSUME NEW k \in DOMAIN results', results'[k].stops
        PROVE  went' = "stopped" /\ \A c \in Calls : inv'[c].said # "denied"
    <3>1. CASE i.stops
      <4>1. \A c \in Calls : inv[c].said # "denied"
        BY <2>1, <2>3, <3>1
      <4> QED
        BY <1>n, <2>1, <2>4, <2>6, <3>1, <4>1
    <3>2. CASE ~i.stops
      <4>1. \E j \in DOMAIN results : results[j].stops
        BY <2>7, <2>8, <3>2
      <4>2. went = "stopped" /\ \A c \in Calls : inv[c].said # "denied"
        BY <4>1
      <4> QED
        BY <1>n, <2>1, <2>4, <2>6, <4>2
    <3> QED
      BY <3>1, <3>2
  <2>9. went' \in Outcomes
    BY <2>1, <2>6 DEF Outcomes
  <2>10. \A c, d \in Calls : inv'[c].said = "denied" /\ inv'[d] # None => ~inv'[d].stops
    BY <1>n, <2>4
  <2> QED
    BY <2>1, <2>5, <2>8, <2>9, <2>10
<1>14. CASE Finished
  <2>1. UNCHANGED <<inv, went, results, end>> /\ pc = "finishing" /\ next = end /\ at' = end
        /\ pc' \in {"over", "top"}
    BY <1>14 DEF Finished
  <2>2. \A c \in Calls : inv[c] = None
    BY <1>t, <2>1
  <2> QED
    BY <1>n, <2>1, <2>2
<1>15. CASE Drop
  <2>1. inv' = [c \in Calls |-> None] /\ DOMAIN results' = {} /\ went' = "on" /\ pc' = "gone"
    BY <1>15 DEF Drop
  <2> QED
    BY <1>n, <2>1 DEF Outcomes
<1>16. ASSUME NEW c \in Calls, Effect(c) PROVE Marks'
  BY <1>16, RunsLeaveThePass
<1>17. ASSUME NEW c \in Calls, Prints(c) PROVE Marks'
  BY <1>17, RunsLeaveThePass
<1>18. ASSUME NEW c \in Calls, GoesOn(c) PROVE Marks'
  BY <1>18, RunsLeaveThePass
<1>19. ASSUME NEW c \in Calls, Answers(c) PROVE Marks'
  BY <1>19, RunsLeaveThePass
<1>20. ASSUME NEW c \in Calls, Returns(c) PROVE Marks'
  BY <1>20, RunsLeaveThePass
<1>21. ASSUME NEW c \in Calls, Taken(c) PROVE Marks'
  BY <1>21, RunsLeaveThePass
<1>22. CASE UNCHANGED vars
  BY <1>t, <1>n, <1>22 DEF vars
<1> QED
  BY <1>1, <1>2, <1>3, <1>4, <1>5, <1>6, <1>7, <1>8, <1>9, <1>10, <1>11, <1>12, <1>13,
     <1>14, <1>15, <1>16, <1>17, <1>18, <1>19, <1>20, <1>21, <1>22 DEF Next, Turn

\* The invariant holds at first, and every step keeps it.
LEMMA InvInit == Init => IInv
<1> SUFFICES ASSUME Init PROVE IInv
  OBVIOUS
<1>1. Types
  BY TypesInit
<1>2. Places
  BY ToolPassAssumption DEF Init, Places, InWave, Collecting
<1>3. Apart /\ Runs
  BY DEF Init, Apart, Runs, Going, InWave, Collecting
<1>4. Wakes
  BY DEF Init, Wakes, ParkedIsToldOfRoom
<1>5. Counted
  <2>1. written = <<>> /\ \A c \in Calls : printed[c] = 0 /\ reported[c] = 0
    BY DEF Init
  <2>2. <<>> \in Seq(Calls)
    OBVIOUS
  <2>3. \A c \in Calls : Waiting(<<>>, c) = 0
    BY <2>2, WaitingIsCounted
  <2> QED
    BY <2>1, <2>3 DEF Counted
<1>6. Slots
  BY DEF Init, Slots
<1>7. Marks
  BY DEF Init, Marks, Outcomes, None, InWave
<1> QED
  BY <1>1, <1>2, <1>3, <1>4, <1>5, <1>6, <1>7 DEF IInv

LEMMA Invariant == Spec => []IInv
<1>1. IInv /\ [Next]_vars => IInv'
  BY TypesNext, PlacesNext, ApartNext, RunsNext, WakesNext, CountedNext, SlotsNext,
     MarksNext
     DEF IInv
<1> QED
  BY <1>1, InvInit, PTL DEF Spec

\* For any number of calls, of the ways they may run and of the pieces they
\* print, a run that waits for room waits for a turn that will make some.
THEOREM RoomIsTold == Spec => []ParkedIsToldOfRoom
<1>1. IInv => ParkedIsToldOfRoom
  BY DEF IInv, Wakes
<1> QED
  BY <1>1, Invariant, PTL

\* Whatever its runs print and whenever, the turn reports it before it answers
\* the call.
THEOREM PrintsComeFirst == Spec => []PrintedBeforeAnswered
<1>1. ASSUME IInv PROVE PrintedBeforeAnswered
  <2> SUFFICES ASSUME NEW i \in DOMAIN results PROVE reported[i] = printed[i]
    BY DEF PrintedBeforeAnswered
  <2>1. Types /\ Places /\ Counted /\ Wakes
    BY <1>1 DEF IInv
  <2>2. Len(results) \in Nat /\ DOMAIN results = 1..Len(results) /\ at \in 1..(N + 1)
        /\ end \in 1..(N + 1) /\ next \in Nat /\ batch \in Seq(Calls) /\ reported \in [Calls -> Nat]
    BY <2>1 DEF Types
  <2>3. CASE pc = "gone"
    BY <2>1, <2>3 DEF Places
  <2>4. CASE pc # "gone"
    <3>1. i \in Calls /\ (pc \notin {"finishing", "gone"} => i < at)
      BY <2>1, <2>2, <2>4, ToolPassAssumption DEF Places, Calls
    <3>2. \A j \in DOMAIN written : written[j] # i
      <4>1. CASE pc \in Collecting
        <5>1. \A j \in DOMAIN batch : batch[j] \in at..(end - 1)
          BY <2>1, <4>1 DEF Places, Wave
        <5>2. i \notin at..(end - 1)
          BY <2>2, <3>1, <4>1 DEF Collecting
        <5> QED
          BY <2>1, <5>1, <5>2 DEF Counted
      <4>2. CASE pc \notin Collecting
        <5>1. written = <<>> /\ DOMAIN <<>> = {}
          BY <2>1, <2>4, <4>2 DEF Wakes
        <5> QED
          BY <5>1
      <4> QED
        BY <4>1, <4>2
    <3>3. Waiting(written, i) = 0
      <4>1. {j \in DOMAIN written : written[j] = i} = {}
        BY <3>2
      <4> QED
        BY <4>1, FS_EmptySet DEF Waiting
    <3> QED
      BY <2>1, <2>2, <3>1, <3>3 DEF Counted
  <2> QED
    BY <2>3, <2>4
<1> QED
  BY <1>1, Invariant, PTL

\* However many calls there are, those that conflict never run at once, nor
\* more than TOOL_RUNS, and a run's answer under a stop ends the pass stopped.
THEOREM ConflictsRunApart == Spec => []RunsApart
<1>1. ASSUME IInv PROVE RunsApart
  <2>1. Types /\ Apart /\ Runs /\ Marks
    BY <1>1 DEF IInv
  <2>2. batch \in Seq(Calls) /\ Len(batch) \in Nat /\ Len(batch) <= ToolRuns
        /\ DOMAIN batch = 1..Len(batch)
    BY <2>1 DEF Types
  <2>3. \A c \in Working : \E i \in DOMAIN batch : batch[i] = c
    BY <2>1 DEF Runs, Going, Working
  <2>4. Cardinality(Working) <= ToolRuns
    <3> DEFINE Filled == {i \in DOMAIN batch : batch[i] \in Working}
               run == [i \in Filled |-> batch[i]]
    <3>1. IsFiniteSet(Filled) /\ Cardinality(Filled) <= Cardinality(1..Len(batch))
      <4>1. IsFiniteSet(1..Len(batch)) /\ Filled \subseteq 1..Len(batch)
        BY <2>2, FS_Interval
      <4> QED
        BY <4>1, FS_Subset
    <3>2. run \in Surjection(Filled, Working)
      BY <2>3 DEF Surjection
    <3>3. IsFiniteSet(Working) /\ Cardinality(Working) <= Cardinality(Filled)
      <4> HIDE DEF run, Filled
      <4> QED
        BY <3>1, <3>2, FS_Surjection
    <3>4. Cardinality(1..Len(batch)) <= Len(batch) /\ Cardinality(1..Len(batch)) \in Nat
      <4>1. \A b \in Int : Cardinality(1..b) = IF 1 > b THEN 0 ELSE b - 1 + 1
        BY FS_Interval
      <4> QED
        BY <2>2, <4>1
    <3>5. Cardinality(Working) \in Nat /\ Cardinality(Filled) \in Nat
      <4> HIDE DEF Filled
      <4> QED
        BY <3>1, <3>3, FS_CardinalityType
    <3> HIDE DEF Filled
    <3> QED
      BY <2>2, <3>1, <3>3, <3>4, <3>5, ToolPassAssumption
  <2>5. ASSUME NEW c \in Working, NEW d \in Working, c # d
        PROVE  mode[c] # "sequential" /\ (mode[c] # mode[d] \/ mode[c] = "parallel")
    <3>1. PICK i \in DOMAIN batch, j \in DOMAIN batch : batch[i] = c /\ batch[j] = d
      BY <2>3
    <3> QED
      BY <2>1, <2>5, <3>1 DEF Apart, Free
  <2>6. pc = "over" /\ (\E i \in DOMAIN results : results[i].stops) => went = "stopped"
    BY <2>1 DEF Marks
  <2> QED
    BY <2>4, <2>5, <2>6 DEF RunsApart
<1> QED
  BY <1>1, Invariant, PTL

-----------------------------------------------------------------------------
(***************************************************************************)
(* What a call is answered with is true of it.  An answer is made from an  *)
(* invocation, that from what a run left in its slot, and the slot is of   *)
(* the batch: TrueInv follows a run's answer along that way, and keeps, as *)
(* it goes, the room that is left for the calls after it.                  *)
(***************************************************************************)

\* Where a batch is, and what a run's invocation may say.
BatchUp == {"starting", "collecting", "settling"}
RunWords == {"panicked", "failed", "own", "timed out", "cut short"}

\* What a run came to is said of that run, as words of a run.
LEMMA SettledTruly ==
    ASSUME stop \in BOOLEAN, NEW came \in Came, NEW i \in Settlements(came)
    PROVE  i.from = came.of /\ i.said \in RunWords /\ (i.ran \/ i.size = 1) /\ i # None
<1>1. came.how \in {"output", "failed", "cancelled", "apart", "unran"}
  BY DEF Came
<1> DEFINE panicked == [Panicked EXCEPT !.from = came.of]
           failed == [Invocation("failed", 1) EXCEPT !.from = came.of]
           own == [Ran(came, "own", came.size) EXCEPT !.kept = came.kept]
           Truly(x) == x.from = came.of /\ x.said \in RunWords /\ (x.ran \/ x.size = 1)
<1>2. Truly(panicked)
  BY DEF Panicked, Invocation, RunWords
<1>3. Truly(failed)
  BY DEF Invocation, RunWords
<1>4. ASSUME NEW said \in RunWords, NEW size
      PROVE  Truly(Ran(came, said, size))
  BY DEF Ran, Invocation
<1>5. Truly(own)
  BY DEF Ran, Invocation, RunWords
<1>6. i # None
  BY Settled, Invokes
<1>e. "failed" \in RunWords /\ "timed out" \in RunWords /\ "cut short" \in RunWords
  BY DEF RunWords
<1>7. CASE came.how = "output"
  <2>1. i = panicked \/ i = Ran(came, "failed", 1) \/ i = own
    BY <1>7 DEF Settlements
  <2> HIDE DEF panicked, failed, own, Truly
  <2>2. Truly(i)
    BY <1>2, <1>4, <1>5, <1>e, <2>1
  <2> QED
    BY <1>6, <2>2 DEF Truly
<1>8. CASE came.how \in {"failed", "cancelled"}
  <2>1. \/ i = panicked \/ i = Ran(came, "failed", 1) \/ i = Ran(came, "timed out", 1)
        \/ i = Ran(came, "cut short", 1) \/ i = Ran(came, "failed", came.size)
    BY <1>8 DEF Settlements
  <2> HIDE DEF panicked, failed, own, Truly
  <2>2. Truly(i)
    BY <1>2, <1>4, <1>e, <2>1
  <2> QED
    BY <1>6, <2>2 DEF Truly
<1>9. CASE came.how \in {"apart", "unran"}
  <2>1. i = panicked \/ i = failed
    BY <1>9 DEF Settlements
  <2> HIDE DEF panicked, failed, own, Truly
  <2>2. Truly(i)
    BY <1>2, <1>3, <2>1
  <2> QED
    BY <1>6, <2>2 DEF Truly
<1> QED
  BY <1>1, <1>7, <1>8, <1>9

\* What a call is answered with fits what is left.
LEMMA SaysFit ==
    ASSUME NEW i \in Invocations, NEW left \in Nat, NEW s \in SaysOf(i, left)
    PROVE  s.size \in Nat /\ s.size <= left
<1>1. \A said : \A size \in Nat :
         Fits(said, size, left).size \in Nat /\ Fits(said, size, left).size <= left
  BY DEF Fits
<1>2. Long \in Nat /\ 1 \in Nat
  BY ToolPassAssumption
<1>3. LeftOut(i, left).size \in Nat /\ LeftOut(i, left).size <= left
  BY <1>1, <1>2 DEF LeftOut
<1>4. i.size \in Nat
  BY DEF Invocations
<1>5. CASE i.size > left
  BY <1>3, <1>5 DEF SaysOf
<1>6. CASE ~(i.size > left)
  <2>1. s = [said |-> i.said, size |-> i.size] \/ s = Fits("not stored", 1, left)
    <3>1. s \in {[said |-> i.said, size |-> i.size]}
                  \union (IF i.kept THEN {Fits("not stored", 1, left)} ELSE {})
      BY <1>6 DEF SaysOf
    <3> QED
      BY <3>1
  <2>2. CASE s = [said |-> i.said, size |-> i.size]
    BY <1>4, <1>6, <2>2
  <2>3. CASE s = Fits("not stored", 1, left)
    BY <1>1, <1>2, <2>3
  <2> QED
    BY <2>1, <2>2, <2>3
<1> QED
  BY <1>5, <1>6

\* What a call is answered with is its invocation's own, or a stand-in for it,
\* which says that it ran where it did and there was room for the longest.
LEMMA SaysTruly ==
    ASSUME NEW i \in Invocations, NEW left \in Nat, NEW s \in SaysOf(i, left)
    PROVE  /\ s.said \in {"own", "timed out", "cut short"} => s.said = i.said
           /\ s.said = "left out" => i.ran
           /\ left >= Long /\ i.said \in RunWords /\ (i.ran \/ i.size = 1) =>
                 s.said \in RunWords \union {"ran and stopped", "left out", "not stored"}
<1>1. Long \in Nat /\ Long >= 1
  BY ToolPassAssumption
<1>2. i.said \in Words /\ i.size \in Nat
  BY DEF Invocations
<1>3. CASE i.size > left
  <2>1. s = LeftOut(i, left)
    BY <1>3 DEF SaysOf
  <2>2. CASE i.ran /\ i.kept
    <3>1. s.said = "ran and stopped" \/ (s.said = "" /\ ~(1 <= left))
      BY <2>1, <2>2 DEF LeftOut, Fits
    <3>2. left >= Long => 1 <= left
      BY <1>1
    <3> QED
      BY <3>1, <3>2
  <2>3. CASE i.ran /\ ~i.kept
    <3>1. s.said = "left out" \/ (s.said = "" /\ ~(Long <= left))
      BY <2>1, <2>3 DEF LeftOut, Fits
    <3> QED
      BY <1>1, <2>3, <3>1
  <2>4. CASE ~i.ran
    <3>1. s.said \in {"limit", ""}
      BY <2>1, <2>4 DEF LeftOut, Fits
    <3>2. ~(left >= Long /\ i.size = 1)
      BY <1>1, <1>3
    <3> QED
      BY <2>4, <3>1, <3>2
  <2> QED
    BY <2>2, <2>3, <2>4
<1>4. CASE ~(i.size > left)
  <2>1. s = [said |-> i.said, size |-> i.size] \/ s = Fits("not stored", 1, left)
    <3>1. s \in {[said |-> i.said, size |-> i.size]}
                  \union (IF i.kept THEN {Fits("not stored", 1, left)} ELSE {})
      BY <1>4 DEF SaysOf
    <3> QED
      BY <3>1
  <2>2. CASE s = [said |-> i.said, size |-> i.size]
    BY <1>2, <2>2 DEF Words
  <2>3. CASE s = Fits("not stored", 1, left)
    <3>1. s.said = "not stored" \/ (s.said = "" /\ ~(1 <= left))
      BY <2>3 DEF Fits
    <3>2. left >= Long => 1 <= left
      BY <1>1
    <3> QED
      BY <3>1, <3>2
  <2> QED
    BY <2>1, <2>2, <2>3
<1> QED
  BY <1>3, <1>4

\* The stand-ins that are kept room for, with those of one call fewer.
LEMMA RoomForOneFewer ==
    ASSUME NEW c \in Nat, c <= N
    PROVE  /\ (N - c) * Long \in Nat
           /\ (N + 1 - c) * Long = Long + (N - c) * Long
           /\ N + 1 - (c + 1) = N - c
<1>1. N \in Nat /\ Long \in Nat
  BY ToolPassAssumption
<1>2. \A k \in Nat, l \in Nat : k * l \in Nat /\ (k + 1) * l = l + k * l
  OBVIOUS
<1>3. N - c \in Nat /\ N + 1 - c = (N - c) + 1 /\ N + 1 - (c + 1) = N - c
  BY <1>1
<1> QED
  BY <1>1, <1>2, <1>3

\* A call is answered within what is left, and leaves the room that is kept for
\* those after it where there was room for it.
LEMMA RoomStays ==
    ASSUME NEW c \in Nat, c <= N, room \in Nat, produced \in Nat, produced <= room
    PROVE  /\ RoomLeft(c) \in Nat
           /\ produced + (N + 1 - c) * Long <= room => RoomLeft(c) >= Long
           /\ \A size \in Nat : size <= RoomLeft(c) =>
                 /\ produced + size \in Nat /\ produced + size <= room
                 /\ produced + (N + 1 - c) * Long <= room =>
                       produced + size + (N + 1 - (c + 1)) * Long <= room
<1> DEFINE kept == (N - c) * Long
<1>1. kept \in Nat /\ (N + 1 - c) * Long = Long + kept /\ N + 1 - (c + 1) = N - c
  BY RoomForOneFewer
<1>2. (N + 1 - (c + 1)) * Long = kept
  BY <1>1
<1>3. RoomLeft(c) = Less(Less(room, produced), kept) /\ Long \in Nat
  BY ToolPassAssumption DEF RoomLeft
<1> HIDE DEF kept
<1>4. \A a, b \in Nat : Less(a, b) \in Nat /\ Less(a, b) <= a /\ (a >= b => Less(a, b) = a - b)
  BY DEF Less
<1>5. Less(room, produced) = room - produced /\ Less(room, produced) \in Nat
  BY <1>4
<1>6. RoomLeft(c) \in Nat /\ RoomLeft(c) <= room - produced
      /\ (room - produced >= kept => RoomLeft(c) = room - produced - kept)
  BY <1>1, <1>3, <1>4, <1>5
<1> HIDE DEF RoomLeft
<1> QED
  BY <1>1, <1>2, <1>3, <1>6

\* What is answered fits, and the stand-ins of the calls that are left fit
\* beside it, unless none of the calls that are being answered did anything.
Budget ==
    /\ room \in Nat /\ produced \in Nat /\ produced <= room
    /\ pc \in InWave => produced + (N + 1 - at) * Long <= room
    /\ pc = "finishing" =>
          \/ produced + (N + 1 - next) * Long <= room
          \/ \A c \in next..(end - 1) : c \notin effects

\* A call that did something was run, and a call that was run is answered, or
\* has an invocation, or is one of the batch's.
Untouched ==
    /\ \A c \in Calls : task[c] = "no" => c \notin effects
    /\ pc # "gone" =>
          \A c \in Calls : task[c] # "no" =>
              \/ c <= Len(results)
              \/ inv[c] # None
              \/ slot[c] # 0 /\ \E j \in DOMAIN batch : batch[j] = c
    /\ pc = "preparing" => \A c \in Calls : c \in next..(end - 1) => inv[c] = None

\* An invocation is of the call's own run, which has returned, or of no run.
TruthOf(c, i) ==
    \/ i.from = c /\ task[c] = "returned" /\ i.said \in RunWords /\ (i.ran \/ i.size = 1)
    \/ i.from = 0 /\ task[c] = "no" /\ i.said \notin {"own", "timed out"} /\ ~i.ran
Truths == \A c \in Calls : inv[c] # None => TruthOf(c, inv[c])

\* Each call of a batch is in it once, and what is in its slot is its own.
Took ==
    /\ pc \notin BatchUp \union {"gone"} => batch = <<>>
    /\ \A i, j \in DOMAIN batch : batch[i] = batch[j] => i = j
    /\ \A c, d \in Calls : slot[c] # 0 /\ slot[c] = slot[d] => c = d
    /\ pc = "starting" => \A j \in DOMAIN batch :
          j >= next => slot[batch[j]] = 0 /\ task[batch[j]] = "no" /\ inv[batch[j]] = None
    /\ pc = "settling" => \A j \in DOMAIN batch :
          j < next /\ slot[batch[j]] # 0 => inv[batch[j]] # None
    /\ pc \in BatchUp => \A c \in Calls : slot[c] # 0 =>
          /\ task[c] # "no"
          /\ answers[slot[c]] = Unfilled \/ answers[slot[c]].of = c

\* Each answer is what EveryCallSaysWhatItDid says, of a call that is not going.
AnswerTrue(i, r) ==
    /\ r.call = i
    /\ r.from \in {0, i}
    /\ i \in effects => r.said \notin {"not run", "limit", "denied", "rejected", ""}
    /\ r.said \in {"own", "left out", "timed out"} => r.from = i /\ task[i] = "returned"
    /\ r.said = "cut short" /\ i \in effects => r.from = i
    /\ task[i] \in {"no", "returned"}
Answered ==
    /\ \A i \in DOMAIN results : AnswerTrue(i, results[i])
    /\ pc = "over" => at = N + 1

TrueInv == Budget /\ Untouched /\ Truths /\ Took /\ Answered

\* The steps of a run.
RunStep(c) == Effect(c) \/ Prints(c) \/ GoesOn(c) \/ Answers(c) \/ Returns(c) \/ Taken(c)

\* A run's step changes what that run did and answered, and nothing of another.
LEMMA RunsChangeTheirOwn ==
    ASSUME Types, NEW c \in Calls, RunStep(c)
    PROVE  /\ UNCHANGED <<planVars, stop, passVars>>
           /\ Going(c) /\ task'[c] # "no"
           /\ \A d \in Calls \ {c} : task'[d] = task[d]
           /\ effects' \subseteq effects \union {c}
           /\ \/ answers' = answers
              \/ \E came \in Came : came.of = c /\ answers' = [answers EXCEPT ![slot[c]] = came]
<1> USE DEF planVars, passVars, mailVars, runVars
<1>t. task \in [Calls -> {"no", "running", "writing", "answered", "returned"}]
  BY DEF Types
<1>p. UNCHANGED <<planVars, stop, passVars>>
  BY RunsLeaveThePass DEF RunStep
<1>1. CASE Effect(c)
  BY <1>t, <1>p, <1>1 DEF Effect, Going
<1>2. CASE Prints(c) \/ GoesOn(c)
  <2>1. Wrote(c) /\ Going(c)
    BY <1>2 DEF Prints, GoesOn, Going
  <2>2. task' = [task EXCEPT ![c] = "running"] \/ task' = [task EXCEPT ![c] = "writing"]
    BY <2>1, Writing
  <2>3. UNCHANGED <<answers, effects>>
    BY <2>1, Writing
  <2> QED
    BY <1>t, <1>p, <2>1, <2>2, <2>3
<1>3. CASE Answers(c) \/ Taken(c)
  <2>1. ASSUME NEW s \in Nat, NEW k \in BOOLEAN, NEW late \in BOOLEAN
        PROVE  /\ [how |-> "output", of |-> c, size |-> s, kept |-> k, stopped |-> stop] \in Came
               /\ [how |-> "failed", of |-> c, size |-> s, stopped |-> stop, timedOut |-> late]
                    \in Came
               /\ [how |-> "cancelled", of |-> c, stopped |-> stop, timedOut |-> late] \in Came
               /\ [how |-> "apart", of |-> c] \in Came
               /\ [how |-> "unran", of |-> c] \in Came
    BY DEF Came, Types
  <2>2. \E came \in Came : came.of = c /\ answers' = [answers EXCEPT ![slot[c]] = came]
    <3>1. CASE Taken(c)
      BY <2>1, <3>1 DEF Taken, Fills
    <3>2. CASE Answers(c)
      <4>1. CASE \E s \in Sizes, k \in BOOLEAN :
                    Fills(c, [how |-> "output", of |-> c, size |-> s, kept |-> k, stopped |-> stop])
        BY <2>1, <4>1, ToolPassAssumption DEF Fills
      <4>2. CASE \E s \in Sizes, late \in BOOLEAN :
                    Fills(c, [how |-> "failed", of |-> c, size |-> s, stopped |-> stop,
                              timedOut |-> late])
        BY <2>1, <4>2, ToolPassAssumption DEF Fills
      <4>3. CASE \E late \in BOOLEAN :
                    Fills(c, [how |-> "cancelled", of |-> c, stopped |-> stop, timedOut |-> late])
        BY <2>1, <4>3 DEF Fills
      <4>4. CASE Fills(c, [how |-> "apart", of |-> c])
        BY <2>1, <4>4 DEF Fills
      <4>5. CASE Fills(c, [how |-> "unran", of |-> c])
        BY <2>1, <4>5 DEF Fills
      <4> QED
        BY <3>2, <4>1, <4>2, <4>3, <4>4, <4>5 DEF Answers
    <3> QED
      BY <1>3, <3>1, <3>2
  <2>3. Going(c) /\ effects' = effects
    BY <1>3 DEF Answers, Taken, Fills, Going
  <2>4. task' = [task EXCEPT ![c] = "answered"] \/ task' = [task EXCEPT ![c] = "returned"]
    BY <1>3 DEF Answers, Taken
  <2> QED
    BY <1>t, <1>p, <2>2, <2>3, <2>4
<1>4. CASE Returns(c)
  BY <1>t, <1>p, <1>4 DEF Returns, Going
<1> QED
  BY <1>1, <1>2, <1>3, <1>4 DEF RunStep

\* A call of a wave that has come to nothing, while no batch is up, did not run.
LEMMA LeftDidNotRun ==
    ASSUME Types, Places, Untouched, Took, pc \in {"preparing", "batching"}, NEW c \in Calls,
           c \in Wave, inv[c] = None
    PROVE  task[c] = "no" /\ c \notin effects
<1>1. batch = <<>> /\ DOMAIN <<>> = {}
  BY DEF Took, BatchUp
<1>2. Len(results) = at - 1 /\ at \in Nat /\ end \in Nat
  BY DEF Places, Types
<1>3. ~(c <= Len(results))
  BY <1>2 DEF Wave, Calls
<1> QED
  BY <1>1, <1>3 DEF Untouched

\* The call that is answered without being run, once the turn is over, did not
\* run.
LEMMA NextDidNotRun ==
    ASSUME Types, Places, Marks, Untouched, Took, pc = "top", at <= N
    PROVE  at \in Calls /\ task[at] = "no" /\ at \notin effects
<1>1. batch = <<>> /\ DOMAIN <<>> = {}
  BY DEF Took, BatchUp
<1>2. Len(results) = at - 1 /\ at \in Calls /\ inv[at] = None
  BY DEF Places, Types, Calls, Marks
<1>3. ~(at <= Len(results))
  BY <1>2 DEF Calls
<1> QED
  BY <1>1, <1>2, <1>3 DEF Untouched

\* What fits stays within the room, with the stand-ins of the calls left.
LEMMA BudgetNext ==
    ASSUME Types, Places, Runs, Marks, Budget, Untouched, Took, [Next]_vars
    PROVE  Budget'
<1> USE DEF planVars, passVars, mailVars, runVars
<1>t. /\ at \in 1..(N + 1) /\ end \in 1..(N + 1) /\ next \in Nat /\ N \in Nat
      /\ inv \in [Calls -> Invocations \union {None}]
  BY ToolPassAssumption DEF Types
<1>1. CASE AfterTurn
  <2>1. at \notin effects
    BY <1>1, NextDidNotRun DEF AfterTurn
  <2>2. /\ pc' = "finishing" /\ end' = at + 1 /\ next' = at
        /\ UNCHANGED <<room, produced, effects>>
    BY <1>1 DEF AfterTurn
  <2>3. \A c \in at..(at + 1 - 1) : c = at
    BY <1>t
  <2> QED
    BY <1>t, <2>1, <2>2, <2>3 DEF Budget, InWave
<1>2. CASE Admit
  <2>1. UNCHANGED <<room, produced, effects, at>> /\ pc = "top"
        /\ \/ pc' = "top"
           \/ pc' = "preparing" /\ ~(produced + (N + 1 - at) * Long > room)
    BY <1>2 DEF Admit, Reserved
  <2>2. (N + 1 - at) * Long \in Nat
    BY <1>t, ToolPassAssumption
  <2> QED
    BY <2>1, <2>2 DEF Budget, InWave
<1>3. CASE Prepared \/ Batch
  <2>1. UNCHANGED <<room, produced, effects, at>> /\ pc \in InWave
        /\ (pc' \in InWave \/ (pc' = "finishing" /\ next' = at))
    BY <1>3 DEF Prepared, Batch, InWave
  <2> QED
    BY <2>1 DEF Budget, InWave
<1>4. CASE Prepare \/ Start \/ AllStarted \/ Poll \/ Settle \/ BatchEnds
  <2>1. UNCHANGED <<room, produced, effects, at>> /\ pc \in InWave /\ pc' \in InWave
    BY <1>4 DEF Prepare, Start, AllStarted, Poll, Settle, BatchEnds, InWave
  <2> QED
    BY <2>1 DEF Budget, InWave
<1>5. CASE Finish
  <2>1. /\ pc = "finishing" /\ pc' = pc /\ next \in Calls /\ next' = next + 1 /\ end' = end
        /\ UNCHANGED <<room, effects>>
        /\ \E s \in SaysOf(inv[next], RoomLeft(next)) : produced' = produced + s.size
    BY <1>t, <1>5 DEF Finish, Places, Calls
  <2>2. inv[next] \in Invocations
    BY <1>t, <1>5, <2>1 DEF Finish, Marks
  <2>3. PICK s \in SaysOf(inv[next], RoomLeft(next)) : produced' = produced + s.size
    BY <2>1
  <2>4. next \in Nat /\ next <= N /\ room \in Nat /\ produced \in Nat /\ produced <= room
    BY <1>t, <2>1 DEF Calls, Budget
  <2>5. RoomLeft(next) \in Nat
    BY <2>4, RoomStays
  <2>6. s.size \in Nat /\ s.size <= RoomLeft(next)
    BY <2>2, <2>5, SaysFit
  <2>7. /\ produced' \in Nat /\ produced' <= room
        /\ produced + (N + 1 - next) * Long <= room =>
              produced' + (N + 1 - next') * Long <= room
    <3>1. /\ produced + s.size \in Nat /\ produced + s.size <= room
          /\ produced + (N + 1 - next) * Long <= room =>
                produced + s.size + (N + 1 - (next + 1)) * Long <= room
      BY <2>4, <2>6, RoomStays
    <3> QED
      BY <2>1, <2>3, <3>1
  <2>8. (\A c \in next..(end - 1) : c \notin effects) =>
            \A c \in next'..(end' - 1) : c \notin effects'
    <3>1. next'..(end' - 1) \subseteq next..(end - 1)
      BY <1>t, <2>1
    <3> QED
      BY <2>1, <3>1
  <2>9. room' = room /\ pc' = "finishing"
    BY <2>1
  <2>10. \/ produced + (N + 1 - next) * Long <= room
         \/ \A c \in next..(end - 1) : c \notin effects
    BY <2>1 DEF Budget
  <2> QED
    BY <2>4, <2>7, <2>8, <2>9, <2>10 DEF Budget, InWave
<1>6. CASE Finished
  <2>1. UNCHANGED <<room, produced>> /\ pc' \in {"over", "top"}
    BY <1>6 DEF Finished
  <2> QED
    BY <2>1 DEF Budget, InWave
<1>7. CASE Drop
  <2>1. room' = room /\ produced' = 0 /\ pc' = "gone"
    BY <1>7 DEF Drop
  <2> QED
    BY <2>1 DEF Budget, InWave
<1>8. ASSUME NEW c \in Calls, RunStep(c) PROVE Budget'
  <2>1. UNCHANGED <<room, produced, pc, at, next, end>> /\ Going(c)
        /\ effects' \subseteq effects \union {c}
    BY <1>8, RunsChangeTheirOwn
  <2>2. pc # "finishing"
    BY <2>1 DEF Runs, Collecting
  <2> QED
    BY <2>1, <2>2 DEF Budget
<1>9. CASE Stop \/ Stopped \/ UNCHANGED vars
  <2>1. UNCHANGED <<room, produced, pc, at, next, end, effects>>
    BY <1>9 DEF Stop, Stopped, vars
  <2> QED
    BY <2>1 DEF Budget
<1> QED
  BY <1>1, <1>2, <1>3, <1>4, <1>5, <1>6, <1>7, <1>8, <1>9 DEF Next, Turn, RunStep

\* The first of the calls are each of them in the batch once.
LEMMA FirstOfOnce ==
    ASSUME NEW calls, calls \subseteq Calls, NEW n \in Nat, NEW s \in [1..n -> calls],
           FirstOf(calls, s)
    PROVE  \A i, j \in DOMAIN s : s[i] = s[j] => i = j
<1> SUFFICES ASSUME NEW i \in 1..n, NEW j \in 1..n, s[i] = s[j] PROVE i = j
  OBVIOUS
<1>1. s[i] \in Nat /\ s[j] \in Nat
  <2>1. s[i] \in calls /\ s[j] \in calls
    OBVIOUS
  <2>2. \A c \in Calls : c \in Nat
    BY ToolPassAssumption DEF Calls
  <2> QED
    BY <2>1, <2>2
<1>2. (i < j => s[i] < s[j]) /\ (j < i => s[j] < s[i])
  BY DEF FirstOf
<1> QED
  BY <1>1, <1>2

\* A call that was run stays in what was said of it, or in the batch.
LEMMA UntouchedNext ==
    ASSUME Types, Places, Runs, Slots, Marks, Untouched, Took, [Next]_vars
    PROVE  Untouched'
<1> USE DEF planVars, passVars, mailVars, runVars
<1>t. /\ at \in 1..(N + 1) /\ end \in 1..(N + 1) /\ next \in Nat /\ N \in Nat
      /\ inv \in [Calls -> Invocations \union {None}] /\ slot \in [Calls -> Nat]
      /\ task \in [Calls -> {"no", "running", "writing", "answered", "returned"}]
      /\ batch \in Seq(Calls) /\ Len(results) \in Nat /\ DOMAIN <<>> = {}
      /\ \A x : Len(Append(results, x)) = Len(results) + 1
  BY ToolPassAssumption DEF Types
<1>1. CASE AfterTurn
  <2>1. /\ pc = "top" /\ pc' = "finishing" /\ at \in Calls
        /\ UNCHANGED <<task, effects, results, slot, batch>>
    BY <1>t, <1>1 DEF AfterTurn, Calls
  <2>2. \A c \in Calls : inv[c] = None
    BY <2>1 DEF Marks
  <2>3. at \in Calls /\ task[at] = "no"
    BY <1>1, NextDidNotRun DEF AfterTurn
  <2>4. \A c \in Calls \ {at} : inv'[c] = inv[c]
    BY <1>t, <1>1 DEF AfterTurn
  <2> QED
    BY <2>1, <2>2, <2>3, <2>4 DEF Untouched
<1>2. CASE Admit
  <2>1. /\ pc = "top" /\ UNCHANGED <<task, effects, results, slot, batch, inv>>
        /\ pc' \in {"top", "preparing"}
    BY <1>2 DEF Admit
  <2>2. \A c \in Calls : inv[c] = None
    BY <2>1 DEF Marks
  <2> QED
    BY <2>1, <2>2 DEF Untouched
<1>3. CASE Prepare
  <2>1. /\ pc = "preparing" /\ pc' = pc /\ next' = next + 1 /\ end' = end
        /\ UNCHANGED <<task, effects, results, slot, batch>>
        /\ next \in Wave /\ next \in Calls
        /\ (inv' = inv \/ \E i \in Invocations : inv' = [inv EXCEPT ![next] = i])
    <3>1. \A s \in Sizes : Invocation("rejected", s) \in Invocations
      BY ToolPassAssumption, Invoked DEF Words
    <3>2. next \in Wave /\ next \in Calls
      BY <1>t, <1>3 DEF Prepare, Places, Wave, Calls
    <3> QED
      BY <1>3, <3>1, <3>2, StandIns DEF Prepare
  <2>2. \A c \in Calls : inv[c] # None => inv'[c] # None
    BY <1>t, <2>1, Invokes
  <2>3. \A c \in Calls \ {next} : inv'[c] = inv[c]
    BY <1>t, <2>1
  <2>4. \A c \in Calls : c \in next'..(end' - 1) => c \in next..(end - 1) /\ c # next
    BY <1>t, <2>1 DEF Calls
  <2> QED
    BY <2>1, <2>2, <2>3, <2>4 DEF Untouched
<1>4. CASE Prepared \/ Batch
  <2>1. /\ pc \in {"preparing", "batching"} /\ pc' \notin {"preparing", "gone"}
        /\ UNCHANGED <<task, effects, results, slot>>
        /\ \A c \in Calls : inv[c] # None => inv'[c] = inv[c]
    BY <1>4 DEF Prepared, Batch, Left
  <2>2. batch = <<>>
    BY <2>1 DEF Took, BatchUp
  <2> QED
    BY <1>t, <2>1, <2>2 DEF Untouched
<1>5. CASE Start
  <2>1. /\ pc = "starting" /\ pc' = pc /\ next \in DOMAIN batch /\ batch[next] \in Calls
        /\ UNCHANGED <<effects, results, batch>>
    BY <1>t, <1>5 DEF Start, Places
  <2>2. slot[batch[next]] = 0 /\ task[batch[next]] = "no"
    BY <1>t, <2>1 DEF Took
  <2>3. CASE inv' = [inv EXCEPT ![batch[next]] = Invocation("failed", 1)]
             /\ UNCHANGED <<task, slot>>
    <3>1. Invocation("failed", 1) # None
      BY Invoked, Invokes DEF Words
    <3>2. \A c \in Calls : inv[c] # None => inv'[c] # None
      BY <1>t, <2>3, <3>1
    <3> QED
      BY <2>1, <2>3, <3>2 DEF Untouched
  <2>4. CASE /\ slot' = [slot EXCEPT ![batch[next]] = Len(answers) + 1]
             /\ task' = [task EXCEPT ![batch[next]] = "running"]
             /\ inv' = inv
    <3>1. slot'[batch[next]] # 0
      BY <1>t, <2>1, <2>4 DEF Types
    <3>2. \A c \in Calls \ {batch[next]} : slot'[c] = slot[c] /\ task'[c] = task[c]
      BY <1>t, <2>4
    <3>3. task'[batch[next]] = "running"
      BY <1>t, <2>1, <2>4
    <3> QED
      BY <2>1, <2>4, <3>1, <3>2, <3>3 DEF Untouched
  <2> QED
    BY <1>5, <2>3, <2>4 DEF Start
<1>6. CASE AllStarted \/ Poll
  <2>1. /\ UNCHANGED <<task, effects, results, slot, batch, inv>>
        /\ pc \in {"starting", "collecting"} /\ pc' \notin {"preparing", "gone"}
    BY <1>6 DEF AllStarted, Poll
  <2> QED
    BY <2>1 DEF Untouched
<1>7. CASE Settle
  <2>1. /\ pc = "settling" /\ pc' = pc /\ batch[next] \in Calls
        /\ UNCHANGED <<task, effects, results, slot, batch>>
    BY <1>t, <1>7 DEF Settle, Places
  <2>2. \A c \in Calls : inv[c] # None => inv'[c] # None
    <3>1. CASE slot[batch[next]] = 0
      BY <1>7, <3>1 DEF Settle
    <3>2. CASE slot[batch[next]] # 0
      <4>1. answers[slot[batch[next]]] \in Came
        <5>1. slot[batch[next]] \in DOMAIN answers
          BY <1>t, <2>1, <3>2 DEF Slots, Types
        <5> QED
          BY <2>1, <5>1 DEF Slots, AllAnswered, Types
      <4>2. PICK i \in Settlements(answers[slot[batch[next]]]) :
               inv' = [inv EXCEPT ![batch[next]] = i]
        BY <1>7, <3>2 DEF Settle
      <4>3. i # None
        BY <4>1, SettledTruly DEF Types
      <4> QED
        BY <1>t, <2>1, <4>2, <4>3
    <3> QED
      BY <3>1, <3>2
  <2> QED
    BY <2>1, <2>2 DEF Untouched
<1>8. CASE BatchEnds
  <2>1. /\ pc = "settling" /\ pc' = "batching" /\ next > Len(batch)
        /\ UNCHANGED <<task, effects, results, inv>>
    BY <1>8 DEF BatchEnds
  <2>2. \A j \in DOMAIN batch : j < next
    BY <1>t, <2>1
  <2>3. \A c \in Calls : slot[c] # 0 /\ (\E j \in DOMAIN batch : batch[j] = c) => inv[c] # None
    BY <2>1, <2>2 DEF Took
  <2> QED
    BY <2>1, <2>3 DEF Untouched
<1>9. CASE Finish
  <2>1. /\ pc = "finishing" /\ pc' = pc /\ UNCHANGED <<task, effects, slot, batch>>
        /\ Len(results') = Len(results) + 1 /\ inv' = [inv EXCEPT ![next] = None]
    BY <1>t, <1>9 DEF Finish
  <2>2. Len(results) + 1 = next
    BY <1>t, <1>9 DEF Finish, Places
  <2>3. \A c \in Calls \ {next} : inv'[c] = inv[c]
    BY <1>t, <2>1
  <2>4. next <= Len(results') /\ \A c \in Calls : c <= Len(results) => c <= Len(results')
    BY <1>t, <2>1, <2>2 DEF Calls
  <2> QED
    BY <2>1, <2>3, <2>4 DEF Untouched
<1>10. CASE Finished
  <2>1. /\ UNCHANGED <<task, effects, results, slot, batch, inv>>
        /\ pc = "finishing" /\ pc' \notin {"preparing", "gone"}
    BY <1>10 DEF Finished
  <2> QED
    BY <2>1 DEF Untouched
<1>11. CASE Drop
  <2>1. pc' = "gone" /\ UNCHANGED <<task, effects>>
    BY <1>11 DEF Drop
  <2> QED
    BY <2>1 DEF Untouched
<1>12. ASSUME NEW c \in Calls, RunStep(c) PROVE Untouched'
  <2>1. /\ UNCHANGED <<pc, next, end, results, slot, batch, inv>>
        /\ Going(c) /\ task'[c] # "no" /\ effects' \subseteq effects \union {c}
        /\ \A d \in Calls \ {c} : task'[d] = task[d]
    BY <1>12, RunsChangeTheirOwn
  <2>2. task[c] # "no"
    BY <2>1 DEF Going
  <2>3. \A d \in Calls : task'[d] = "no" => task[d] = "no" /\ d # c
    BY <2>1
  <2>4. \A d \in Calls : task'[d] # "no" => task[d] # "no"
    BY <2>1, <2>2
  <2> QED
    BY <2>1, <2>3, <2>4 DEF Untouched
<1>13. CASE Stop \/ Stopped \/ UNCHANGED vars
  <2>1. UNCHANGED <<pc, next, end, results, slot, batch, inv, task, effects>>
    BY <1>13 DEF Stop, Stopped, vars
  <2> QED
    BY <2>1 DEF Untouched
<1> QED
  BY <1>1, <1>2, <1>3, <1>4, <1>5, <1>6, <1>7, <1>8, <1>9, <1>10, <1>11, <1>12, <1>13
     DEF Next, Turn, RunStep

\* A run that an invocation is of, or is wanting for, is not going.
LEMMA TruthIsNotGoing ==
    ASSUME Truths, NEW c \in Calls, inv[c] # None
    PROVE  ~Going(c)
BY DEF Truths, TruthOf, Going

\* The stand-ins of a call that was not run say so.
LEMMA StandInsTruly ==
    ASSUME NEW said \in {"not run", "limit", "cut short", "denied", "rejected", "failed"},
           NEW size
    PROVE  /\ Invocation(said, size).from = 0 /\ ~Invocation(said, size).ran
           /\ Invocation(said, size).said \notin {"own", "timed out"}
BY DEF Invocation

\* What a run of the batch came to is true of it, once the batch is over.
LEMMA SettlesTruly ==
    ASSUME Types, Places, Runs, Slots, Took, pc = "settling",
           NEW c \in Calls, slot[c] # 0, NEW i \in Settlements(answers[slot[c]])
    PROVE  /\ answers[slot[c]] \in Came
           /\ i # None /\ TruthOf(c, i)
<1>1. slot[c] \in DOMAIN answers
  BY DEF Slots, Types
<1>2. answers[slot[c]] # Unfilled /\ answers[slot[c]] \in Came
  BY <1>1 DEF Slots, AllAnswered, Types
<1>3. task[c] # "no" /\ answers[slot[c]].of = c
  BY <1>2 DEF Took, BatchUp
<1>4. ~Going(c)
  BY DEF Runs, Collecting
<1>5. task[c] = "returned"
  BY <1>3, <1>4 DEF Going, Types
<1>6. i.from = c /\ i.said \in RunWords /\ (i.ran \/ i.size = 1) /\ i # None
  BY <1>2, <1>3, SettledTruly DEF Types
<1> QED
  BY <1>2, <1>5, <1>6 DEF TruthOf

\* What is put in the place of an invocation is true of the call, as the others
\* stay.
LEMMA TruthsStay ==
    ASSUME Types, Truths, NEW b \in Calls, NEW i, TruthOf(b, i),
           inv' = [inv EXCEPT ![b] = i], UNCHANGED task
    PROVE  Truths'
<1>1. inv'[b] = i /\ \A c \in Calls \ {b} : inv'[c] = inv[c]
  BY DEF Types
<1>2. ASSUME NEW c \in Calls, inv'[c] # None PROVE TruthOf(c, inv'[c])
  BY <1>1, <1>2 DEF Truths
<1> QED
  BY <1>2 DEF Truths, TruthOf

\* An invocation stays of the call's own run, or of none.
LEMMA TruthsNext ==
    ASSUME Types, Places, Runs, Slots, Marks, Untouched, Truths, Took, [Next]_vars
    PROVE  Truths'
<1> USE DEF planVars, passVars, mailVars, runVars
<1>t. /\ at \in 1..(N + 1) /\ end \in 1..(N + 1) /\ next \in Nat /\ N \in Nat
      /\ inv \in [Calls -> Invocations \union {None}] /\ slot \in [Calls -> Nat]
      /\ task \in [Calls -> {"no", "running", "writing", "answered", "returned"}]
      /\ batch \in Seq(Calls) /\ Len(results) \in Nat
  BY ToolPassAssumption DEF Types
<1>s. ASSUME NEW c \in Calls, task[c] = "no", NEW size,
             NEW said \in {"not run", "limit", "cut short", "denied", "rejected", "failed"}
      PROVE  TruthOf(c, Invocation(said, size))
  BY <1>s, StandInsTruly DEF TruthOf
<1>1. CASE AfterTurn
  <2>1. UNCHANGED task /\ at \in Calls /\ task[at] = "no"
    BY <1>1, NextDidNotRun DEF AfterTurn
  <2>2. inv' = [inv EXCEPT ![at] = Invocation("limit", 1)]
        \/ inv' = [inv EXCEPT ![at] = Invocation("not run", 1)]
    BY <1>1 DEF AfterTurn, NotRun
  <2>3. TruthOf(at, Invocation("limit", 1)) /\ TruthOf(at, Invocation("not run", 1))
    BY <1>s, <2>1
  <2> QED
    BY <2>1, <2>2, <2>3, TruthsStay
<1>2. CASE Prepare
  <2>1. UNCHANGED task /\ next \in Calls /\ next \in Wave /\ pc = "preparing" /\ next < end
    BY <1>t, <1>2 DEF Prepare, Places, Wave, Calls
  <2>2. inv[next] = None
    BY <1>t, <2>1 DEF Untouched
  <2>3. task[next] = "no"
    BY <2>1, <2>2, LeftDidNotRun
  <2>4. \/ inv' = inv
        \/ \E said \in {"not run", "cut short", "denied", "rejected"}, size \in Sizes \union {1} :
              inv' = [inv EXCEPT ![next] = Invocation(said, size)]
    BY <1>2 DEF Prepare, NotRun, CutShort, Denied
  <2>5. ASSUME NEW said \in {"not run", "cut short", "denied", "rejected"},
               NEW size, inv' = [inv EXCEPT ![next] = Invocation(said, size)]
        PROVE  Truths'
    <3>1. TruthOf(next, Invocation(said, size))
      BY <1>s, <2>1, <2>3
    <3> QED
      BY <2>1, <2>5, <3>1, TruthsStay
  <2>6. CASE inv' = inv
    BY <2>1, <2>6 DEF Truths, TruthOf
  <2> QED
    BY <2>4, <2>5, <2>6
<1>3. CASE Prepared \/ Batch
  <2>1. UNCHANGED task /\ pc \in {"preparing", "batching"}
    BY <1>3 DEF Prepared, Batch
  <2>2. \A c \in Calls : inv'[c] = inv[c]
                          \/ (c \in Left /\ inv'[c] \in {Invocation("not run", 1),
                                                         Invocation("cut short", 1)})
    BY <1>3 DEF Prepared, Batch, NotRun, CutShort
  <2>3. \A c \in Calls : c \in Left => task[c] = "no"
    <3>1. \A c \in Calls : c \in Left => c \in Wave /\ inv[c] = None
      BY DEF Left
    <3> QED
      BY <2>1, <3>1, LeftDidNotRun
  <2>4. ASSUME NEW c \in Calls, inv'[c] # None PROVE TruthOf(c, inv'[c])
    <3>1. CASE inv'[c] = inv[c]
      BY <2>4, <3>1 DEF Truths
    <3>2. CASE c \in Left /\ inv'[c] \in {Invocation("not run", 1), Invocation("cut short", 1)}
      BY <1>s, <2>3, <3>2
    <3> QED
      BY <2>2, <3>1, <3>2
  <2> QED
    BY <2>1, <2>4 DEF Truths, TruthOf
<1>4. CASE Start
  <2>1. /\ pc = "starting" /\ next \in DOMAIN batch /\ batch[next] \in Calls
    BY <1>t, <1>4 DEF Start, Places
  <2>2. task[batch[next]] = "no" /\ inv[batch[next]] = None
    BY <1>t, <2>1 DEF Took
  <2>3. CASE inv' = [inv EXCEPT ![batch[next]] = Invocation("failed", 1)] /\ UNCHANGED task
    <3>1. TruthOf(batch[next], Invocation("failed", 1))
      BY <1>s, <2>1, <2>2
    <3> QED
      BY <2>1, <2>3, <3>1, TruthsStay
  <2>4. CASE task' = [task EXCEPT ![batch[next]] = "running"] /\ inv' = inv
    <3>1. \A c \in Calls : inv'[c] # None => c # batch[next]
      BY <2>2, <2>4
    <3>2. \A c \in Calls \ {batch[next]} : task'[c] = task[c]
      BY <1>t, <2>4
    <3> QED
      BY <2>4, <3>1, <3>2 DEF Truths, TruthOf
  <2> QED
    BY <1>4, <2>3, <2>4 DEF Start
<1>5. CASE Settle
  <2>1. pc = "settling" /\ batch[next] \in Calls /\ UNCHANGED task
    BY <1>t, <1>5 DEF Settle, Places
  <2>2. CASE inv' = inv
    BY <2>1, <2>2 DEF Truths, TruthOf
  <2>3. CASE slot[batch[next]] # 0
    <3>1. PICK i \in Settlements(answers[slot[batch[next]]]) :
             inv' = [inv EXCEPT ![batch[next]] = i]
      BY <1>5, <2>3 DEF Settle
    <3>2. TruthOf(batch[next], i)
      BY <2>1, <2>3, SettlesTruly
    <3> QED
      BY <2>1, <3>1, <3>2, TruthsStay
  <2> QED
    BY <1>5, <2>2, <2>3 DEF Settle
<1>6. CASE Finish
  <2>1. UNCHANGED task /\ inv' = [inv EXCEPT ![next] = None]
    BY <1>6 DEF Finish
  <2>2. \A c \in Calls : inv'[c] # None => inv'[c] = inv[c]
    BY <1>t, <2>1
  <2> QED
    BY <2>1, <2>2 DEF Truths, TruthOf
<1>7. CASE Drop
  BY <1>7 DEF Drop, Truths
<1>8. ASSUME NEW c \in Calls, RunStep(c) PROVE Truths'
  <2>1. UNCHANGED inv /\ Going(c) /\ \A d \in Calls \ {c} : task'[d] = task[d]
    BY <1>8, RunsChangeTheirOwn
  <2>2. inv[c] = None
    BY <2>1, TruthIsNotGoing
  <2> QED
    BY <2>1, <2>2 DEF Truths, TruthOf
<1>9. CASE Stop \/ Stopped \/ Admit \/ AllStarted \/ Poll \/ BatchEnds \/ Finished \/ UNCHANGED vars
  <2>1. UNCHANGED <<inv, task>>
    BY <1>9 DEF Stop, Stopped, Admit, AllStarted, Poll, BatchEnds, Finished, vars
  <2> QED
    BY <2>1 DEF Truths, TruthOf
<1> QED
  BY <1>1, <1>2, <1>3, <1>4, <1>5, <1>6, <1>7, <1>8, <1>9 DEF Next, Turn, RunStep

\* Each call of a batch stays in it once, with what is its own in its slot.
LEMMA TookNext ==
    ASSUME Types, Places, Runs, Slots, Untouched, Took, [Next]_vars
    PROVE  Took'
<1> USE DEF planVars, passVars, mailVars, runVars
<1>t. /\ next \in Nat /\ at \in 1..(N + 1) /\ end \in 1..(N + 1)
      /\ inv \in [Calls -> Invocations \union {None}] /\ slot \in [Calls -> Nat]
      /\ task \in [Calls -> {"no", "running", "writing", "answered", "returned"}]
      /\ batch \in Seq(Calls) /\ DOMAIN <<>> = {}
      /\ Len(answers) \in Nat /\ DOMAIN answers = 1..Len(answers)
  BY DEF Types
<1>1. CASE Prepare \/ Prepared \/ AfterTurn \/ Stopped \/ Admit \/ Finish \/ Finished
  <2>1. /\ pc \notin BatchUp \union {"gone"} /\ pc' \notin BatchUp \union {"gone"}
        /\ UNCHANGED <<batch, slot, answers, task>>
    BY <1>1 DEF Prepare, Prepared, AfterTurn, Stopped, Admit, Finish, Finished, BatchUp
  <2> QED
    BY <1>t, <2>1 DEF Took, BatchUp
<1>2. CASE Batch
  <2>1. pc = "batching" /\ UNCHANGED <<slot, task>> /\ batch = <<>>
    BY <1>2 DEF Batch, Took, BatchUp
  <2>2. \A c \in Calls : slot[c] = 0
    BY <2>1 DEF Slots, Collecting
  <2>3. CASE pc' = "finishing"
    <3>1. batch' = batch
      BY <1>2, <2>3 DEF Batch
    <3> QED
      BY <1>t, <2>1, <2>2, <2>3, <3>1 DEF Took, BatchUp
  <2>4. CASE pc' # "finishing"
    <3>1. pc' = "starting" /\ UNCHANGED inv
          /\ \E n \in 1..ToolRuns : \E s \in [1..n -> Left] : FirstOf(Left, s) /\ batch' = s
      BY <1>2, <2>4 DEF Batch
    <3>2. PICK n \in 1..ToolRuns : \E s \in [1..n -> Left] : FirstOf(Left, s) /\ batch' = s
      BY <3>1
    <3>p. PICK s \in [1..n -> Left] : FirstOf(Left, s) /\ batch' = s
      BY <3>2
    <3>3. Left \subseteq Calls
      BY <1>t, LeftCalls
    <3>4. n \in Nat
      BY ToolPassAssumption
    <3>5. \A i, j \in DOMAIN s : s[i] = s[j] => i = j
      BY <3>p, <3>3, <3>4, FirstOfOnce
    <3>6. \A j \in DOMAIN s : s[j] \in Left
      OBVIOUS
    <3>7. \A c \in Calls : c \in Left => task[c] = "no" /\ inv[c] = None
      <4>1. \A c \in Calls : c \in Left => c \in Wave /\ inv[c] = None
        BY DEF Left
      <4> QED
        BY <2>1, <4>1, LeftDidNotRun
    <3>8. \A j \in DOMAIN s : slot[s[j]] = 0 /\ task[s[j]] = "no" /\ inv[s[j]] = None
      BY <2>2, <3>3, <3>6, <3>7
    <3>9. slot' = slot /\ task' = task /\ inv' = inv /\ pc' = "starting"
      BY <2>1, <3>1
    <3>10. batch' = s
      BY <3>p
    <3>11. \A j \in DOMAIN batch' : slot'[batch'[j]] = 0 /\ task'[batch'[j]] = "no"
                                     /\ inv'[batch'[j]] = None
      BY <3>8, <3>9, <3>10
    <3>12. \A i, j \in DOMAIN batch' : batch'[i] = batch'[j] => i = j
      BY <3>5, <3>10
    <3>13. \A c \in Calls : slot'[c] = 0
      BY <2>2, <3>9
    <3> QED
      BY <3>9, <3>11, <3>12, <3>13 DEF Took, BatchUp
  <2> QED
    BY <2>3, <2>4
<1>3. CASE Start
  <2> DEFINE b == batch[next]
  <2>1. /\ pc = "starting" /\ pc' = pc /\ next \in DOMAIN batch /\ b \in Calls
        /\ batch' = batch /\ next' = next + 1
    BY <1>t, <1>3 DEF Start, Places
  <2>2. slot[b] = 0 /\ task[b] = "no" /\ inv[b] = None
    BY <1>t, <2>1 DEF Took
  <2>3. \A j \in DOMAIN batch : j >= next + 1 =>
           /\ batch[j] # b /\ batch[j] \in Calls
           /\ slot[batch[j]] = 0 /\ task[batch[j]] = "no" /\ inv[batch[j]] = None
    <3> SUFFICES ASSUME NEW j \in DOMAIN batch, j >= next + 1
                 PROVE  /\ batch[j] # b /\ batch[j] \in Calls
                        /\ slot[batch[j]] = 0 /\ task[batch[j]] = "no" /\ inv[batch[j]] = None
      OBVIOUS
    <3>1. j >= next /\ j # next
      BY <1>t
    <3>2. batch[j] # b
      BY <2>1, <3>1 DEF Took
    <3>3. batch[j] \in Calls
      BY <1>t
    <3> QED
      BY <2>1, <3>1, <3>2, <3>3 DEF Took
  <2>4. CASE inv' = [inv EXCEPT ![b] = Invocation("failed", 1)]
             /\ UNCHANGED <<answers, slot, task>>
    <3>1. \A c \in Calls \ {b} : inv'[c] = inv[c]
      BY <1>t, <2>4
    <3>2. \A j \in DOMAIN batch' : j >= next' =>
             slot'[batch'[j]] = 0 /\ task'[batch'[j]] = "no" /\ inv'[batch'[j]] = None
      BY <2>1, <2>3, <2>4, <3>1
    <3> QED
      BY <2>1, <2>4, <3>2 DEF Took, BatchUp
  <2>5. CASE /\ answers' = Append(answers, Unfilled)
             /\ slot' = [slot EXCEPT ![b] = Len(answers) + 1]
             /\ task' = [task EXCEPT ![b] = "running"]
             /\ inv' = inv
    <3>1. /\ slot'[b] = Len(answers) + 1 /\ task'[b] = "running"
          /\ \A c \in Calls \ {b} : slot'[c] = slot[c] /\ task'[c] = task[c]
      BY <1>t, <2>1, <2>5
    <3>2. \A c \in Calls : slot[c] \in Nat /\ slot[c] <= Len(answers)
      BY <1>t DEF Slots
    <3>3. \A c, d \in Calls : slot'[c] # 0 /\ slot'[c] = slot'[d] => c = d
      <4> SUFFICES ASSUME NEW c \in Calls, NEW d \in Calls, slot'[c] # 0, slot'[c] = slot'[d]
                   PROVE  c = d
        OBVIOUS
      <4> HIDE DEF b
      <4>1. CASE c # b /\ d # b
        BY <3>1, <4>1 DEF Took
      <4>2. \A x \in Calls \ {b} : slot'[x] # Len(answers) + 1
        BY <1>t, <3>1, <3>2
      <4> QED
        BY <3>1, <4>1, <4>2
    <3>4. answers'[Len(answers) + 1] = Unfilled
          /\ \A k \in 1..Len(answers) : answers'[k] = answers[k]
      <4>1. answers \in Seq(Came \union {Unfilled})
        BY DEF Types
      <4> QED
        BY <2>5, <4>1
    <3>5. \A c \in Calls : slot'[c] # 0 =>
             task'[c] # "no" /\ (answers'[slot'[c]] = Unfilled \/ answers'[slot'[c]].of = c)
      <4> SUFFICES ASSUME NEW c \in Calls, slot'[c] # 0
                   PROVE  /\ task'[c] # "no"
                          /\ answers'[slot'[c]] = Unfilled \/ answers'[slot'[c]].of = c
        OBVIOUS
      <4> HIDE DEF b
      <4>1. CASE c = b
        BY <3>1, <3>4, <4>1
      <4>2. CASE c # b
        <5>1. slot'[c] = slot[c] /\ task'[c] = task[c] /\ slot[c] \in 1..Len(answers)
          BY <1>t, <3>1, <3>2, <4>2
        <5>2. answers'[slot'[c]] = answers[slot[c]]
          BY <3>4, <5>1
        <5> QED
          BY <2>1, <5>1, <5>2 DEF Took, BatchUp
      <4> QED
        BY <4>1, <4>2
    <3>6. \A j \in DOMAIN batch' : j >= next' =>
             slot'[batch'[j]] = 0 /\ task'[batch'[j]] = "no" /\ inv'[batch'[j]] = None
      BY <2>1, <2>3, <2>5, <3>1
    <3>7. \A i, j \in DOMAIN batch' : batch'[i] = batch'[j] => i = j
      BY <2>1 DEF Took
    <3> QED
      BY <2>1, <3>3, <3>5, <3>6, <3>7 DEF Took, BatchUp
  <2> QED
    BY <1>3, <2>4, <2>5 DEF Start
<1>4. CASE AllStarted \/ Poll
  <2>1. /\ pc \in {"starting", "collecting"} /\ UNCHANGED <<batch, slot, answers, task>>
        /\ (pc' = "collecting" \/ (pc' = "settling" /\ next' = 1))
    BY <1>4 DEF AllStarted, Poll
  <2>2. \A j \in DOMAIN batch : ~(j < 1)
    BY <1>t
  <2> QED
    BY <2>1, <2>2 DEF Took, BatchUp
<1>5. CASE Settle
  <2>1. /\ pc = "settling" /\ pc' = pc /\ batch[next] \in Calls /\ next' = next + 1
        /\ UNCHANGED <<batch, slot, answers, task>>
    BY <1>t, <1>5 DEF Settle, Places
  <2>2. \A c \in Calls : inv[c] # None => inv'[c] # None
    <3>1. CASE inv' = inv
      BY <3>1
    <3>2. CASE slot[batch[next]] # 0
      <4>1. PICK i \in Settlements(answers[slot[batch[next]]]) :
               inv' = [inv EXCEPT ![batch[next]] = i]
        BY <1>5, <3>2 DEF Settle
      <4>2. i # None
        BY <2>1, <3>2, SettlesTruly
      <4> QED
        BY <1>t, <2>1, <4>1, <4>2
    <3> QED
      BY <1>5, <3>1, <3>2 DEF Settle
  <2>3. slot[batch[next]] # 0 => inv'[batch[next]] # None
    <3> SUFFICES ASSUME slot[batch[next]] # 0 PROVE inv'[batch[next]] # None
      OBVIOUS
    <3>1. PICK i \in Settlements(answers[slot[batch[next]]]) :
             inv' = [inv EXCEPT ![batch[next]] = i]
      BY <1>5 DEF Settle
    <3>2. i # None
      BY <2>1, SettlesTruly
    <3> QED
      BY <1>t, <2>1, <3>1, <3>2
  <2>4. \A j \in DOMAIN batch : batch[j] \in Calls /\ (j < next + 1 => j < next \/ j = next)
    BY <1>t
  <2>5. \A j \in DOMAIN batch' : j < next' /\ slot'[batch'[j]] # 0 => inv'[batch'[j]] # None
    BY <2>1, <2>2, <2>3, <2>4 DEF Took
  <2> QED
    BY <2>1, <2>5 DEF Took, BatchUp
<1>6. CASE BatchEnds
  <2>1. pc' = "batching" /\ batch' = <<>> /\ slot' = [c \in Calls |-> 0]
    BY <1>6 DEF BatchEnds
  <2> QED
    BY <1>t, <2>1 DEF Took, BatchUp
<1>7. CASE Drop
  <2>1. pc' = "gone" /\ UNCHANGED <<batch, slot>>
    BY <1>7 DEF Drop
  <2> QED
    BY <2>1 DEF Took, BatchUp
<1>8. ASSUME NEW c \in Calls, RunStep(c) PROVE Took'
  <2>1. /\ UNCHANGED <<pc, next, batch, slot, inv>>
        /\ Going(c) /\ task'[c] # "no"
        /\ \A d \in Calls \ {c} : task'[d] = task[d]
        /\ \/ answers' = answers
           \/ \E came \in Came : came.of = c /\ answers' = [answers EXCEPT ![slot[c]] = came]
    BY <1>8, RunsChangeTheirOwn
  <2>2. slot[c] # 0 /\ task[c] # "no"
    BY <2>1 DEF Runs, Going
  <2>3. \A d \in Calls : task'[d] = "no" <=> task[d] = "no"
    BY <2>1, <2>2
  <2>4. slot[c] \in DOMAIN answers
    BY <1>t, <2>2 DEF Slots
  <2>5. \A d \in Calls : slot[d] # 0 =>
           \/ answers'[slot[d]] = answers[slot[d]]
           \/ answers'[slot[d]].of = d
    <3> SUFFICES ASSUME NEW d \in Calls, slot[d] # 0
                 PROVE  \/ answers'[slot[d]] = answers[slot[d]]
                        \/ answers'[slot[d]].of = d
      OBVIOUS
    <3>1. CASE answers' = answers
      BY <3>1
    <3>2. CASE \E came \in Came : came.of = c /\ answers' = [answers EXCEPT ![slot[c]] = came]
      <4>1. PICK came \in Came : came.of = c /\ answers' = [answers EXCEPT ![slot[c]] = came]
        BY <3>2
      <4>2. CASE d = c
        BY <2>4, <4>1, <4>2
      <4>3. CASE d # c
        <5>1. slot[d] # slot[c]
          BY <4>3 DEF Took
        <5>2. slot[d] \in DOMAIN answers
          BY <1>t DEF Slots
        <5> QED
          BY <4>1, <5>1, <5>2
      <4> QED
        BY <4>2, <4>3
    <3> QED
      BY <2>1, <3>1, <3>2
  <2>6. pc' \in BatchUp => \A d \in Calls : slot'[d] # 0 =>
           task'[d] # "no" /\ (answers'[slot'[d]] = Unfilled \/ answers'[slot'[d]].of = d)
    BY <2>1, <2>3, <2>5 DEF Took
  <2>7. \A j \in DOMAIN batch : batch[j] \in Calls
    BY <1>t
  <2>8. pc' = "starting" => \A j \in DOMAIN batch' : j >= next' =>
           slot'[batch'[j]] = 0 /\ task'[batch'[j]] = "no" /\ inv'[batch'[j]] = None
    BY <2>1, <2>3, <2>7 DEF Took
  <2> QED
    BY <2>1, <2>6, <2>8 DEF Took
<1>9. CASE Stop \/ UNCHANGED vars
  <2>1. UNCHANGED <<pc, next, batch, slot, answers, task, inv>>
    BY <1>9 DEF Stop, vars
  <2> QED
    BY <2>1 DEF Took
<1> QED
  BY <1>1, <1>2, <1>3, <1>4, <1>5, <1>6, <1>7, <1>8, <1>9 DEF Next, Turn, RunStep

\* What an invocation is answered with is true of its call.
LEMMA AnswersTruly ==
    ASSUME Types, NEW c \in Calls, NEW left \in Nat, NEW i \in Invocations, TruthOf(c, i),
           NEW s \in SaysOf(i, left),
           task[c] = "no" => c \notin effects,
           left >= Long \/ c \notin effects
    PROVE  AnswerTrue(c, [call |-> c, said |-> s.said, from |-> i.from, stops |-> i.stops])
<1> DEFINE r == [call |-> c, said |-> s.said, from |-> i.from, stops |-> i.stops]
<1>1. r.call = c /\ r.said = s.said /\ r.from = i.from
  OBVIOUS
<1> HIDE DEF r
<1>2. /\ s.said \in {"own", "timed out", "cut short"} => s.said = i.said
      /\ s.said = "left out" => i.ran
      /\ left >= Long /\ i.said \in RunWords /\ (i.ran \/ i.size = 1) =>
            s.said \in RunWords \union {"ran and stopped", "left out", "not stored"}
  BY SaysTruly
<1>3. CASE /\ i.from = c /\ task[c] = "returned" /\ i.said \in RunWords
           /\ i.ran \/ i.size = 1
  <2>1. c \in effects => s.said \in RunWords \union {"ran and stopped", "left out", "not stored"}
    BY <1>2, <1>3
  <2>2. c \in effects => s.said \notin {"not run", "limit", "denied", "rejected", ""}
    BY <2>1 DEF RunWords
  <2>3. AnswerTrue(c, r)
    BY <1>1, <1>3, <2>2 DEF AnswerTrue
  <2> QED
    BY <2>3 DEF r
<1>4. CASE i.from = 0 /\ task[c] = "no" /\ i.said \notin {"own", "timed out"} /\ ~i.ran
  <2>1. s.said \notin {"own", "left out", "timed out"}
    BY <1>2, <1>4
  <2>2. AnswerTrue(c, r)
    BY <1>1, <1>4, <2>1 DEF AnswerTrue
  <2> QED
    BY <2>2 DEF r
<1> QED
  BY <1>3, <1>4 DEF TruthOf

\* Each answer stays true of its call.
LEMMA AnsweredNext ==
    ASSUME Types, Places, Runs, Marks, Budget, Untouched, Truths, Took, Answered, [Next]_vars
    PROVE  Answered'
<1> USE DEF planVars, passVars, mailVars, runVars
<1>t. /\ next \in Nat /\ at \in 1..(N + 1) /\ end \in 1..(N + 1) /\ N \in Nat
      /\ inv \in [Calls -> Invocations \union {None}] /\ Len(results) \in Nat
      /\ task \in [Calls -> {"no", "running", "writing", "answered", "returned"}]
      /\ DOMAIN results = 1..Len(results) /\ batch \in Seq(Calls)
  BY ToolPassAssumption DEF Types
<1>r. ASSUME UNCHANGED results,
             \A i \in DOMAIN results : task'[i] = task[i] /\ (i \in effects' => i \in effects),
             pc' = "over" => at' = N + 1
      PROVE  Answered'
  BY <1>r DEF Answered, AnswerTrue
<1>1. CASE Finish
  <2>1. /\ pc = "finishing" /\ pc' = pc /\ next \in Calls /\ next < end
        /\ UNCHANGED <<task, effects>>
    BY <1>t, <1>1 DEF Finish, Places, Calls
  <2>2. inv[next] \in Invocations /\ inv[next] # None
    BY <1>t, <2>1 DEF Marks
  <2>3. PICK s \in SaysOf(inv[next], RoomLeft(next)) :
          results' = Append(results, [call |-> next, said |-> s.said, from |-> inv[next].from,
                                      stops |-> inv[next].stops])
    BY <1>1 DEF Finish
  <2>4. RoomLeft(next) \in Nat
        /\ (produced + (N + 1 - next) * Long <= room => RoomLeft(next) >= Long)
    BY <1>t, <2>1, RoomStays DEF Calls, Budget
  <2>5. RoomLeft(next) >= Long \/ next \notin effects
    <3>1. next \in next..(end - 1)
      BY <1>t, <2>1
    <3>2. \/ produced + (N + 1 - next) * Long <= room
          \/ \A c \in next..(end - 1) : c \notin effects
      BY <2>1 DEF Budget
    <3> QED
      BY <2>4, <3>1, <3>2
  <2> DEFINE r == [call |-> next, said |-> s.said, from |-> inv[next].from,
                   stops |-> inv[next].stops]
  <2>6. AnswerTrue(next, r)
    <3>1. TruthOf(next, inv[next])
      BY <2>1, <2>2 DEF Truths
    <3>2. task[next] = "no" => next \notin effects
      BY <2>1 DEF Untouched
    <3> QED
      BY <2>1, <2>2, <2>4, <2>5, <3>1, <3>2, AnswersTruly
  <2>7. next = Len(results) + 1
    BY <1>t, <2>1 DEF Places
  <2>8. results' = Append(results, r)
    BY <2>3
  <2> HIDE DEF r
  <2>9. /\ DOMAIN results' = 1..(Len(results) + 1)
        /\ results'[next] = r
        /\ \A i \in 1..Len(results) : results'[i] = results[i]
    <3>1. results \in Seq([call : Nat, said : Words \union StandInWords, from : Nat,
                           stops : BOOLEAN])
      BY DEF Types
    <3> QED
      BY <2>7, <2>8, <3>1
  <2>10. ASSUME NEW i \in DOMAIN results' PROVE AnswerTrue(i, results'[i])
    <3>1. CASE i = next
      BY <2>6, <2>9, <3>1
    <3>2. CASE i # next
      <4>1. i \in DOMAIN results /\ results'[i] = results[i]
        BY <1>t, <2>7, <2>9, <3>2
      <4> QED
        BY <4>1 DEF Answered
    <3> QED
      BY <3>1, <3>2
  <2> QED
    BY <2>1, <2>10 DEF Answered, AnswerTrue
<1>2. CASE Finished
  <2>1. /\ UNCHANGED <<results, task, effects>> /\ at' = end
        /\ (pc' = "over" => end > N)
    BY <1>2 DEF Finished
  <2> QED
    BY <1>t, <1>r, <2>1
<1>3. CASE Start
  <2>1. pc = "starting" /\ pc' = pc /\ UNCHANGED <<results, effects>>
    BY <1>3 DEF Start
  <2>2. batch[next] \in Wave /\ batch[next] \in Calls
    BY <1>t, <1>3 DEF Start, Places, Collecting
  <2>3. Len(results) = at - 1
    BY <2>1 DEF Places
  <2>4. batch[next] \notin DOMAIN results
    BY <1>t, <2>2, <2>3 DEF Wave
  <2>5. \A c \in Calls \ {batch[next]} : task'[c] = task[c]
    BY <1>t, <1>3 DEF Start
  <2>6. \A i \in DOMAIN results : i \in Calls
    BY <1>t, <2>3 DEF Calls
  <2> QED
    BY <1>r, <2>1, <2>4, <2>5, <2>6
<1>4. CASE Drop
  <2>1. pc' = "gone" /\ DOMAIN results' = {}
    BY <1>4 DEF Drop
  <2> QED
    BY <2>1 DEF Answered
<1>5. ASSUME NEW c \in Calls, RunStep(c) PROVE Answered'
  <2>1. /\ UNCHANGED <<pc, at, results>>
        /\ Going(c) /\ effects' \subseteq effects \union {c}
        /\ \A d \in Calls \ {c} : task'[d] = task[d]
    BY <1>5, RunsChangeTheirOwn
  <2>2. c \notin DOMAIN results
    BY <2>1 DEF Answered, AnswerTrue, Going
  <2>3. \A i \in DOMAIN results : i \in Calls
    <3>1. CASE pc = "gone"
      <4>1. DOMAIN <<>> = {}
        OBVIOUS
      <4> QED
        BY <3>1, <4>1 DEF Places
    <3>2. CASE pc # "gone"
      <4>1. Len(results) <= N
        BY <1>t, <3>2 DEF Places
      <4> QED
        BY <1>t, <4>1 DEF Calls
    <3> QED
      BY <3>1, <3>2
  <2>4. pc' = "over" => at' = N + 1
    BY <2>1 DEF Answered
  <2> QED
    BY <1>r, <2>1, <2>2, <2>3, <2>4
<1>6. CASE \/ AfterTurn \/ Admit \/ Prepare \/ Prepared \/ Batch \/ AllStarted \/ Poll \/ Settle
           \/ BatchEnds
  <2>1. UNCHANGED <<results, task, effects>> /\ pc' # "over"
    BY <1>6 DEF AfterTurn, Admit, Prepare, Prepared, Batch, AllStarted, Poll, Settle, BatchEnds
  <2> QED
    BY <1>r, <2>1
<1>7. CASE Stop \/ Stopped \/ UNCHANGED vars
  <2>1. UNCHANGED <<pc, at, results, task, effects>>
    BY <1>7 DEF Stop, Stopped, vars
  <2>2. pc' = "over" => at' = N + 1
    BY <2>1 DEF Answered
  <2> QED
    BY <1>r, <2>1, <2>2
<1> QED
  BY <1>1, <1>2, <1>3, <1>4, <1>5, <1>6, <1>7 DEF Next, Turn, RunStep

LEMMA TrueInvariant == Spec => [](IInv /\ TrueInv)
<1>1. Init => TrueInv
  <2> SUFFICES ASSUME Init PROVE TrueInv
    OBVIOUS
  <2>1. /\ pc = "top" /\ room \in Nat /\ produced = 0 /\ effects = {}
        /\ DOMAIN batch = {} /\ batch = <<>> /\ DOMAIN results = {}
        /\ \A c \in Calls : task[c] = "no" /\ slot[c] = 0 /\ inv[c] = None
    BY ToolPassAssumption DEF Init
  <2>2. Budget
    BY <2>1 DEF Budget, InWave
  <2>3. Untouched /\ Truths /\ Answered
    BY <2>1 DEF Untouched, Truths, Answered
  <2>4. Took
    BY <2>1 DEF Took, BatchUp
  <2> QED
    BY <2>2, <2>3, <2>4 DEF TrueInv
<1>2. IInv /\ TrueInv /\ [Next]_vars => TrueInv'
  BY BudgetNext, UntouchedNext, TruthsNext, TookNext, AnsweredNext DEF IInv, TrueInv
<1> QED
  BY <1>1, <1>2, Invariant, PTL DEF Spec

\* However many calls there are, whatever their tools print and answer and
\* however little room there is, each is answered once and in order, with what
\* its own run came to, and all that is answered fits (work.rs:160, :202-208,
\* :581-626, :771-773).
THEOREM CallsAreTold == Spec => []EveryCallSaysWhatItDid
<1>1. ASSUME IInv, TrueInv PROVE EveryCallSaysWhatItDid
  <2>1. Types /\ Places /\ Budget /\ Answered
    BY <1>1 DEF IInv, TrueInv
  <2>2. at \in 1..(N + 1) /\ end \in 1..(N + 1) /\ next \in Nat /\ N \in Nat
    BY <2>1, ToolPassAssumption DEF Types
  <2>3. Len(results) <= N /\ (pc = "over" => Len(results) = N)
    <3>1. CASE pc = "gone"
      <4>1. Len(<<>>) = 0
        OBVIOUS
      <4> QED
        BY <2>1, <2>2, <3>1, <4>1 DEF Places
    <3>2. CASE pc # "gone"
      BY <2>1, <2>2, <3>2 DEF Places, Answered
    <3> QED
      BY <3>1, <3>2
  <2>4. produced <= room
    BY <2>1 DEF Budget
  <2>5. \A i \in DOMAIN results :
          LET r == results[i] IN
          /\ r.call = i
          /\ r.from \in {0, i}
          /\ i \in effects => r.said \notin {"not run", "limit", "denied", "rejected", ""}
          /\ r.said \in {"own", "left out", "timed out"} => r.from = i /\ task[i] = "returned"
          /\ r.said = "cut short" /\ i \in effects => r.from = i
    BY <2>1 DEF Answered, AnswerTrue
  <2> QED
    BY <2>3, <2>4, <2>5 DEF EveryCallSaysWhatItDid
<1> QED
  BY <1>1, TrueInvariant, PTL

=============================================================================
