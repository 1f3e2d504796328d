-------------------------- MODULE AgentRunProofs --------------------------
(***************************************************************************)
(* Theorems about AgentRun, for any number of starts, turns and questions  *)
(* and any limit of the table and the queue.                               *)
(*                                                                         *)
(* The place is never free while something may run because exactly one     *)
(* holds it at a time, a launch, a run or a sign-in, and each gives it     *)
(* back or spends it for good in the step it lets go of its process        *)
(* (Holders, Quiet).  What a turn is told follows from where a stop and a  *)
(* decision can wait between turns (Stops, Decisions).                     *)
(***************************************************************************)
EXTENDS AgentRun, FiniteSetTheorems, TLAPS

Launching == pc \in {"taken", "rested", "starting", "unspoken"}
Hosted == host # "none"
Held == step = "holding"

\* Where the run is, by where the slot and its holder are.
Stages ==
    /\ Hosted <=> slot \in {"idle", "away", "closing", "spent"} /\ pc \notin {"stopped", "left"}
    /\ slot \in {"away", "closing"} <=> ~Launching /\ pc \notin {"free", "looked"}
    /\ Launching \/ pc = "looked" => slot = "none"

\* One holder of the place, and none once it is taken for good.
Holders ==
    /\ Launching \/ Hosted \/ Held => running
    /\ Held => ~Launching /\ ~Hosted
    /\ unstopped => running /\ ~Launching /\ ~Hosted /\ ~Held

\* What may still run is what the holder started.
Quiet ==
    /\ alive \subseteq 1..starts /\ process <= starts
    /\ ~running \/ pc \in {"taken", "rested", "starting"} \/ host = "confirmed" => alive = {}
    /\ pc = "unspoken" \/ Hosted => alive \subseteq {process}
    /\ Held => alive \subseteq {child}
    /\ slot = "closed" \/ pc = "stopped" => process \notin alive
    /\ OneProcess

\* What a turn leaves of its run, and so what the next one finds.
Leaves ==
    /\ slot = "idle" => host = "live" /\ program = "between"
    /\ pc \in {"prompted", "emptying", "exchange", "ended", "resting"} => host = "live"
    /\ pc \in {"prompted", "emptying"} => program = "between"
    /\ pc \in {"ended", "resting", "returning"} =>
          /\ ending # "none"
          /\ ending = "ended" => program = "between" /\ host = "live"
    /\ pc = "resting" => ending # "dropped"
    /\ pc = "finishing" => ending \in {"unheeded", "lost"}
    /\ pc = "returning" /\ ending \in {"unheeded", "lost"} => HasEnded

\* A stop is kept by the run it was asked of until a launch or a return
\* forgets it.
Stops ==
    /\ slot = "idle" \/ pc \in {"rested", "starting"} => ~flag
    /\ flag /\ slot \in {"away", "closing", "spent"} => turn \in stops
    /\ StopStaysInItsTurn

\* Where a question, and the decision made on it, can be.
Decisions ==
    /\ pc \in {"prompted", "emptying", "exchange"} => turn # 0
    /\ pc \in {"emptying", "exchange"} => table = turn
    /\ table # 0 => table = turn /\ pc \in {"emptying", "exchange", "ended"}
    /\ \A q \in open : q.turn = table /\ q.number <= questions /\ q \notin settled
    /\ \A q \in settled : q.turn <= turn /\ q.number <= questions
    /\ pc \in {"prompted", "emptying"} => open = {} /\ \A q \in settled : q.turn < turn
    /\ \A i \in DOMAIN queue : queue[i] \in settled /\ (pc = "exchange" => queue[i].turn = turn)
    /\ \A i, j \in DOMAIN queue : queue[i] = queue[j] => i = j
    /\ \A j \in DOMAIN delivered :
          /\ delivered[j].question \in settled
          /\ \A i \in DOMAIN queue : queue[i] # delivered[j].question
    /\ DecisionsInTheirTurn
    /\ AcceptedIsOnItsWay

---------------------------------------------------------------------------
\* TypeOK by what the actions change together.
ControlTyped ==
    /\ running \in BOOLEAN /\ unstopped \in BOOLEAN
    /\ flag \in BOOLEAN /\ bell \in BOOLEAN /\ ringing \in BOOLEAN
    /\ cancelling \in BOOLEAN

PlaceTyped ==
    /\ slot \in {"none", "idle", "away", "closing", "spent", "closed", "unstopped"}
    /\ pc \in {"free", "looked", "taken", "rested", "starting", "unspoken", "prompted",
               "emptying", "exchange", "ended", "resting", "finishing", "returning",
               "stopping", "stopped", "left"}
    /\ ending \in {"none", "ended", "unheeded", "lost", "dropped"}
    /\ host \in {"none", "live", "stopping", "confirmed", "unreaped"}
    /\ step \in {"none", "looked", "holding"}
    /\ process \in 0..MaxStarts /\ child \in 0..MaxStarts /\ starts \in 0..MaxStarts
    /\ alive \subseteq 1..MaxStarts
    /\ program \in {"between", "working", "ended"}

AskedTyped ==
    /\ table \in 0..MaxTurns /\ turn \in 0..MaxTurns
    /\ open \subseteq Question /\ IsFiniteSet(open) /\ Cardinality(open) <= Limit
    /\ queue \in Seq(Question) /\ Len(queue) <= Limit
    /\ questions \in 0..MaxQuestions
    /\ stops \subseteq 0..MaxTurns
    /\ settled \subseteq Question
    /\ delivered \in Seq([question : Question, turn : 1..MaxTurns])

Typed == ControlTyped /\ PlaceTyped /\ AskedTyped

\* The parts together say what TypeOK does.
LEMMA TypedIsType == Typed => TypeOK
BY DEF Typed, TypeOK, ControlTyped, PlaceTyped, AskedTyped

\* What <<>>, Append and Tail leave.
LEMMA EmptySequence ==
    ASSUME NEW S
    PROVE  <<>> \in Seq(S) /\ Len(<<>>) = 0 /\ DOMAIN <<>> = {}
OBVIOUS

LEMMA AppendLeaves ==
    ASSUME NEW S, NEW s \in Seq(S), NEW e \in S
    PROVE  /\ Append(s, e) \in Seq(S)
           /\ Len(Append(s, e)) = Len(s) + 1
           /\ DOMAIN Append(s, e) = 1..(Len(s) + 1)
           /\ DOMAIN s = 1..Len(s)
           /\ \A i \in 1..Len(s) : Append(s, e)[i] = s[i]
           /\ Append(s, e)[Len(s) + 1] = e
OBVIOUS

LEMMA TailLeaves ==
    ASSUME NEW S, NEW s \in Seq(S), s # <<>>
    PROVE  /\ Tail(s) \in Seq(S) /\ Head(s) \in S /\ Head(s) = s[1]
           /\ Len(s) \in Nat \ {0} /\ Len(Tail(s)) = Len(s) - 1
           /\ DOMAIN s = 1..Len(s) /\ DOMAIN Tail(s) = 1..(Len(s) - 1)
           /\ \A i \in 1..(Len(s) - 1) : Tail(s)[i] = s[i + 1]
OBVIOUS

---------------------------------------------------------------------------
\* The first state.
LEMMA Starts ==
    Init => Typed /\ Stages /\ Holders /\ Quiet /\ Leaves /\ Stops /\ Decisions
<1> SUFFICES ASSUME Init
             PROVE  Typed /\ Stages /\ Holders /\ Quiet /\ Leaves /\ Stops /\ Decisions
  OBVIOUS
<1> USE LimitAssumption, BoundsAssumption DEF Init
<1>1. ControlTyped /\ PlaceTyped
  <2>1. 0 \in 0..MaxStarts
    OBVIOUS
  <2>2. ControlTyped
    BY DEF ControlTyped
  <2>3. PlaceTyped
    BY <2>1 DEF PlaceTyped
  <2> QED  BY <2>2, <2>3
<1>2. AskedTyped
  BY EmptySequence, FS_EmptySet DEF AskedTyped
<1>3. Stages /\ Holders
  BY DEF Stages, Holders, Launching, Hosted, Held
<1>4. Quiet
  BY DEF Quiet, OneProcess, Hosted, Held
<1>5. Leaves /\ Stops
  BY DEF Leaves, Stops, StopStaysInItsTurn
<1>6. DOMAIN queue = {} /\ DOMAIN delivered = {}
  BY EmptySequence
<1>7. Decisions
  BY <1>6 DEF Decisions, DecisionsInTheirTurn, AcceptedIsOnItsWay
<1> QED  BY <1>1, <1>2, <1>3, <1>4, <1>5, <1>7 DEF Typed

\* Each action leaves every variable of its type.
LEMMA ControlTypedInductive ==
    Typed /\ [Next]_vars => ControlTyped'
<1> SUFFICES ASSUME Typed, [Next]_vars PROVE ControlTyped'
  OBVIOUS
<1> USE LimitAssumption, BoundsAssumption DEF Typed, ControlTyped,
       place, bells, asked, holder, processes, history
<1>1. CASE LaunchLooks
  BY <1>1 DEF LaunchLooks
<1>2. CASE LaunchTakes
  BY <1>2 DEF LaunchTakes
<1>3. CASE LaunchRests
  BY <1>3 DEF LaunchRests
<1>4. CASE Relaunch
  BY <1>4 DEF Relaunch
<1>5. CASE LaunchEnds
  BY <1>5 DEF LaunchEnds, GiveBack
<1>6. CASE ProcessStarts
  BY <1>6 DEF ProcessStarts
<1>7. CASE UnspokenEnds
  BY <1>7 DEF UnspokenEnds, GiveBack
<1>8. CASE Prompt
  BY <1>8 DEF Prompt
<1>9. CASE Begin
  BY <1>9 DEF Begin
<1>10. CASE Empty
  BY <1>10 DEF Empty, Opens, Over
<1>11. CASE Answer
  BY <1>11 DEF Answer
<1>12. CASE EndTable
  BY <1>12 DEF EndTable
<1>13. CASE Rest
  BY <1>13 DEF Rest
<1>14. CASE FinishEnds
  BY <1>14 DEF FinishEnds, Finishes
<1>15. CASE Return
  BY <1>15 DEF Return, HasEnded
<1>16. CASE StopFinishes
  BY <1>16 DEF StopFinishes, Finishes
<1>17. CASE StopEnds
  BY <1>17 DEF StopEnds, HostGone
<1>18. CASE Closes
  BY <1>18 DEF Closes
<1>19. CASE Heed
  BY <1>19 DEF Heed
<1>20. CASE Unheeded
  BY <1>20 DEF Unheeded, Over
<1>21. CASE Ask
  BY <1>21 DEF Ask, Room
<1>22. CASE ProgramEnds
  BY <1>22 DEF ProgramEnds, Over
<1>23. CASE Lost
  BY <1>23 DEF Lost, Over
<1>24. CASE Abandon
  BY <1>24 DEF Abandon, Over
<1>25. CASE FinishAbandoned
  BY <1>25 DEF FinishAbandoned
<1>26. CASE PromptSpent
  BY <1>26 DEF PromptSpent, Stop
<1>27. CASE Close
  BY <1>27 DEF Close, Stop
<1>28. CASE Retire
  BY <1>28 DEF Retire
<1>29. CASE Interrupt
  BY <1>29 DEF Interrupt, SetFlag
<1>30. CASE CloseAway
  BY <1>30 DEF CloseAway, SetFlag
<1>31. CASE Ring
  BY <1>31 DEF Ring, bells
<1>32. ASSUME NEW q \in open, Decide(q) PROVE ControlTyped'
  BY <1>32 DEF Decide
<1>33. ASSUME NEW p \in alive, Exits(p) PROVE ControlTyped'
  BY <1>33 DEF Exits
<1>34. CASE HoldLooks
  BY <1>34 DEF HoldLooks
<1>35. CASE HoldTakes
  BY <1>35 DEF HoldTakes
<1>36. CASE HoldingEnds
  BY <1>36 DEF HoldingEnds
<1>37. CASE UNCHANGED vars
  BY <1>37 DEF vars
<1> QED
  BY <1>1, <1>2, <1>3, <1>4, <1>5, <1>6, <1>7, <1>8, <1>9, <1>10, <1>11, <1>12, <1>13,
     <1>14, <1>15, <1>16, <1>17, <1>18, <1>19, <1>20, <1>21, <1>22, <1>23, <1>24, <1>25,
     <1>26, <1>27, <1>28, <1>29, <1>30, <1>31, <1>32, <1>33, <1>34, <1>35, <1>36, <1>37
     DEF Next, Launch, Turn

LEMMA PlaceTypedInductive ==
    Typed /\ [Next]_vars => PlaceTyped'
<1> SUFFICES ASSUME Typed, [Next]_vars PROVE PlaceTyped'
  OBVIOUS
<1> USE LimitAssumption, BoundsAssumption DEF Typed, PlaceTyped,
       place, bells, asked, holder, processes, history
<1>1. CASE LaunchLooks
  BY <1>1 DEF LaunchLooks
<1>2. CASE LaunchTakes
  BY <1>2 DEF LaunchTakes
<1>3. CASE LaunchRests
  BY <1>3 DEF LaunchRests
<1>4. CASE Relaunch
  BY <1>4 DEF Relaunch
<1>5. CASE LaunchEnds
  BY <1>5 DEF LaunchEnds, GiveBack
<1>6. CASE ProcessStarts
  BY <1>6 DEF ProcessStarts
<1>7. CASE UnspokenEnds
  BY <1>7 DEF UnspokenEnds, GiveBack
<1>8. CASE Prompt
  BY <1>8 DEF Prompt
<1>9. CASE Begin
  BY <1>9 DEF Begin
<1>10. CASE Empty
  BY <1>10 DEF Empty, Opens, Over
<1>11. CASE Answer
  BY <1>11 DEF Answer
<1>12. CASE EndTable
  BY <1>12 DEF EndTable
<1>13. CASE Rest
  BY <1>13 DEF Rest
<1>14. CASE FinishEnds
  BY <1>14 DEF FinishEnds, Finishes
<1>15. CASE Return
  BY <1>15 DEF Return, HasEnded
<1>16. CASE StopFinishes
  BY <1>16 DEF StopFinishes, Finishes
<1>17. CASE StopEnds
  BY <1>17 DEF StopEnds, HostGone
<1>18. CASE Closes
  BY <1>18 DEF Closes
<1>19. CASE Heed
  BY <1>19 DEF Heed
<1>20. CASE Unheeded
  BY <1>20 DEF Unheeded, Over
<1>21. CASE Ask
  BY <1>21 DEF Ask, Room
<1>22. CASE ProgramEnds
  BY <1>22 DEF ProgramEnds, Over
<1>23. CASE Lost
  BY <1>23 DEF Lost, Over
<1>24. CASE Abandon
  BY <1>24 DEF Abandon, Over
<1>25. CASE FinishAbandoned
  BY <1>25 DEF FinishAbandoned
<1>26. CASE PromptSpent
  BY <1>26 DEF PromptSpent, Stop
<1>27. CASE Close
  BY <1>27 DEF Close, Stop
<1>28. CASE Retire
  BY <1>28 DEF Retire
<1>29. CASE Interrupt
  BY <1>29 DEF Interrupt, SetFlag
<1>30. CASE CloseAway
  BY <1>30 DEF CloseAway, SetFlag
<1>31. CASE Ring
  BY <1>31 DEF Ring
<1>32. ASSUME NEW q \in open, Decide(q) PROVE PlaceTyped'
  BY <1>32 DEF Decide
<1>33. ASSUME NEW p \in alive, Exits(p) PROVE PlaceTyped'
  BY <1>33 DEF Exits
<1>34. CASE HoldLooks
  BY <1>34 DEF HoldLooks
<1>35. CASE HoldTakes
  <2>1. /\ slot' = slot /\ pc' = pc /\ ending' = ending /\ host' = host
        /\ process' = process /\ program' = program
    BY <1>35 DEF HoldTakes
  <2>2. step' \in {"none", "holding"}
    BY <1>35 DEF HoldTakes
  <2>3. \/ child' = child /\ starts' = starts /\ alive' = alive
        \/ /\ starts < MaxStarts
           /\ child' = starts + 1 /\ starts' = starts + 1 /\ alive' = alive \union {starts + 1}
    BY <1>35 DEF HoldTakes
  <2>4. CASE child' = child /\ starts' = starts /\ alive' = alive
    BY <2>1, <2>2, <2>4
  <2>5. CASE /\ starts < MaxStarts
             /\ child' = starts + 1 /\ starts' = starts + 1
             /\ alive' = alive \union {starts + 1}
    <3>1. starts + 1 \in 1..MaxStarts
      BY <2>5
    <3>2. child' \in 0..MaxStarts /\ starts' \in 0..MaxStarts /\ alive' \subseteq 1..MaxStarts
      BY <2>5, <3>1
    <3> QED  BY <2>1, <2>2, <3>2
  <2> QED  BY <2>3, <2>4, <2>5
<1>36. CASE HoldingEnds
  <2>1. /\ slot' = slot /\ pc' = pc /\ ending' = ending /\ host' = host /\ step' = "none"
        /\ process' = process /\ child' = child /\ starts' = starts /\ program' = program
    BY <1>36 DEF HoldingEnds
  <2>2. alive' \subseteq alive
    BY <1>36 DEF HoldingEnds
  <2> QED  BY <2>1, <2>2
<1>37. CASE UNCHANGED vars
  BY <1>37 DEF vars
<1> QED
  BY <1>1, <1>2, <1>3, <1>4, <1>5, <1>6, <1>7, <1>8, <1>9, <1>10, <1>11, <1>12, <1>13,
     <1>14, <1>15, <1>16, <1>17, <1>18, <1>19, <1>20, <1>21, <1>22, <1>23, <1>24, <1>25,
     <1>26, <1>27, <1>28, <1>29, <1>30, <1>31, <1>32, <1>33, <1>34, <1>35, <1>36, <1>37
     DEF Next, Launch, Turn

LEMMA AskedTypedInductive ==
    Decisions /\ Typed /\ [Next]_vars => AskedTyped'
<1> SUFFICES ASSUME Typed, Decisions, [Next]_vars PROVE AskedTyped'
  OBVIOUS
<1> USE LimitAssumption, BoundsAssumption DEF Typed, AskedTyped,
       place, bells, asked, holder, processes, history
<1>1. CASE LaunchLooks
  BY <1>1 DEF LaunchLooks
<1>2. CASE LaunchTakes
  BY <1>2 DEF LaunchTakes
<1>3. CASE LaunchRests
  BY <1>3 DEF LaunchRests
<1>4. CASE Relaunch
  BY <1>4, FS_EmptySet DEF Relaunch
<1>5. CASE LaunchEnds
  BY <1>5 DEF LaunchEnds, GiveBack
<1>6. CASE ProcessStarts
  BY <1>6 DEF ProcessStarts
<1>7. CASE UnspokenEnds
  BY <1>7 DEF UnspokenEnds, GiveBack
<1>8. CASE Prompt
  BY <1>8 DEF Prompt
<1>9. CASE Begin
  BY <1>9, FS_EmptySet DEF Begin
<1>10. CASE Empty
  BY <1>10 DEF Empty, Opens, Over
<1>11. CASE Answer
  <2> DEFINE said == [question |-> Head(queue), turn |-> turn]
  <2>1. /\ Tail(queue) \in Seq(Question) /\ Head(queue) \in Question
        /\ Len(Tail(queue)) <= Limit
    BY <1>11, TailLeaves DEF Answer
  <2>2. turn \in 1..MaxTurns
    BY <1>11 DEF Answer, Decisions
  <2>3. Append(delivered, said) \in Seq([question : Question, turn : 1..MaxTurns])
    BY <2>1, <2>2, AppendLeaves
  <2> QED  BY <1>11, <2>1, <2>3 DEF Answer
<1>12. CASE EndTable
  BY <1>12, FS_EmptySet DEF EndTable
<1>13. CASE Rest
  BY <1>13 DEF Rest
<1>14. CASE FinishEnds
  BY <1>14 DEF FinishEnds, Finishes
<1>15. CASE Return
  BY <1>15 DEF Return, HasEnded
<1>16. CASE StopFinishes
  BY <1>16 DEF StopFinishes, Finishes
<1>17. CASE StopEnds
  BY <1>17 DEF StopEnds, HostGone
<1>18. CASE Closes
  BY <1>18 DEF Closes
<1>19. CASE Heed
  BY <1>19 DEF Heed
<1>20. CASE Unheeded
  BY <1>20 DEF Unheeded, Over
<1>21. CASE Ask
  <2> DEFINE q == [number |-> questions + 1, turn |-> table]
  <2>1. table \in 1..MaxTurns /\ questions + 1 \in 1..MaxQuestions
    BY <1>21 DEF Ask, Decisions
  <2>2. q \in Question
    BY <2>1 DEF Question
  <2>3. /\ IsFiniteSet(open \union {q})
        /\ Cardinality(open \union {q}) \in {Cardinality(open), Cardinality(open) + 1}
    BY FS_AddElement
  <2>4. Cardinality(open) \in Nat
    BY FS_CardinalityType
  <2>5. Cardinality(open \union {q}) <= Limit
    BY <1>21, <2>3, <2>4 DEF Ask, Room
  <2>6. open' = open \union {q} /\ questions' = questions + 1
    BY <1>21 DEF Ask
  <2>7. UNCHANGED <<table, turn, queue, stops, settled, delivered>>
    BY <1>21 DEF Ask
  <2> HIDE DEF q
  <2> QED  BY <2>1, <2>2, <2>3, <2>5, <2>6, <2>7
<1>22. CASE ProgramEnds
  BY <1>22 DEF ProgramEnds, Over
<1>23. CASE Lost
  BY <1>23 DEF Lost, Over
<1>24. CASE Abandon
  BY <1>24 DEF Abandon, Over
<1>25. CASE FinishAbandoned
  BY <1>25 DEF FinishAbandoned
<1>26. CASE PromptSpent
  BY <1>26 DEF PromptSpent, Stop
<1>27. CASE Close
  BY <1>27 DEF Close, Stop
<1>28. CASE Retire
  BY <1>28 DEF Retire
<1>29. CASE Interrupt
  BY <1>29 DEF Interrupt, SetFlag
<1>30. CASE CloseAway
  BY <1>30 DEF CloseAway, SetFlag
<1>31. CASE Ring
  BY <1>31 DEF Ring
<1>32. ASSUME NEW q \in open, Decide(q) PROVE AskedTyped'
  <2>1. /\ IsFiniteSet(open \ {q})
        /\ Cardinality(open \ {q}) = Cardinality(open) - 1
    BY FS_RemoveElement
  <2>2. Cardinality(open) \in Nat
    BY FS_CardinalityType
  <2>3. Append(queue, q) \in Seq(Question) /\ Len(Append(queue, q)) <= Limit
    BY <1>32, AppendLeaves DEF Decide
  <2> QED  BY <1>32, <2>1, <2>2, <2>3 DEF Decide
<1>33. ASSUME NEW p \in alive, Exits(p) PROVE AskedTyped'
  BY <1>33 DEF Exits
<1>34. CASE HoldLooks
  BY <1>34 DEF HoldLooks
<1>35. CASE HoldTakes
  BY <1>35 DEF HoldTakes
<1>36. CASE HoldingEnds
  BY <1>36 DEF HoldingEnds
<1>37. CASE UNCHANGED vars
  BY <1>37 DEF vars
<1> QED
  BY <1>1, <1>2, <1>3, <1>4, <1>5, <1>6, <1>7, <1>8, <1>9, <1>10, <1>11, <1>12, <1>13,
     <1>14, <1>15, <1>16, <1>17, <1>18, <1>19, <1>20, <1>21, <1>22, <1>23, <1>24, <1>25,
     <1>26, <1>27, <1>28, <1>29, <1>30, <1>31, <1>32, <1>33, <1>34, <1>35, <1>36, <1>37
     DEF Next, Launch, Turn

---------------------------------------------------------------------------
\* Each action leaves the stages as they are described.
LEMMA StagesInductive ==
    TypeOK /\ Stages /\ [Next]_vars => Stages'
<1> SUFFICES ASSUME TypeOK, Stages, [Next]_vars PROVE Stages'
  OBVIOUS
<1> USE DEF Stages, Hosted, Launching, place, bells, asked, holder, processes, history
<1>1. CASE LaunchLooks
  BY <1>1 DEF LaunchLooks
<1>2. CASE LaunchTakes
  BY <1>2 DEF LaunchTakes
<1>3. CASE LaunchRests
  BY <1>3 DEF LaunchRests
<1>4. CASE Relaunch
  BY <1>4 DEF Relaunch
<1>5. CASE LaunchEnds
  BY <1>5 DEF LaunchEnds, GiveBack
<1>6. CASE ProcessStarts
  BY <1>6 DEF ProcessStarts
<1>7. CASE UnspokenEnds
  BY <1>7 DEF UnspokenEnds, GiveBack
<1>8. CASE Prompt
  BY <1>8 DEF Prompt
<1>9. CASE Begin
  BY <1>9 DEF Begin
<1>10. CASE Empty
  BY <1>10 DEF Empty, Opens, Over
<1>11. CASE Answer
  BY <1>11 DEF Answer
<1>12. CASE EndTable
  BY <1>12 DEF EndTable
<1>13. CASE Rest
  BY <1>13 DEF Rest
<1>14. CASE FinishEnds
  BY <1>14 DEF FinishEnds, Finishes
<1>15. CASE Return
  BY <1>15 DEF Return, HasEnded
<1>16. CASE StopFinishes
  BY <1>16 DEF StopFinishes, Finishes
<1>17. CASE StopEnds
  BY <1>17 DEF StopEnds, HostGone
<1>18. CASE Closes
  BY <1>18 DEF Closes
<1>19. CASE Heed
  BY <1>19 DEF Heed
<1>20. CASE Unheeded
  BY <1>20 DEF Unheeded, Over
<1>21. CASE Ask
  BY <1>21 DEF Ask, Room
<1>22. CASE ProgramEnds
  BY <1>22 DEF ProgramEnds, Over
<1>23. CASE Lost
  BY <1>23 DEF Lost, Over
<1>24. CASE Abandon
  BY <1>24 DEF Abandon, Over
<1>25. CASE FinishAbandoned
  BY <1>25 DEF FinishAbandoned
<1>26. CASE PromptSpent
  BY <1>26 DEF PromptSpent, Stop
<1>27. CASE Close
  BY <1>27 DEF Close, Stop
<1>28. CASE Retire
  BY <1>28 DEF Retire
<1>29. CASE Interrupt
  BY <1>29 DEF Interrupt, SetFlag
<1>30. CASE CloseAway
  BY <1>30 DEF CloseAway, SetFlag
<1>31. CASE Ring
  BY <1>31 DEF Ring
<1>32. ASSUME NEW q \in open, Decide(q) PROVE Stages'
  BY <1>32 DEF Decide
<1>33. ASSUME NEW p \in alive, Exits(p) PROVE Stages'
  BY <1>33 DEF Exits
<1>34. CASE HoldLooks
  BY <1>34 DEF HoldLooks
<1>35. CASE HoldTakes
  BY <1>35 DEF HoldTakes
<1>36. CASE HoldingEnds
  BY <1>36 DEF HoldingEnds
<1>37. CASE UNCHANGED vars
  BY <1>37 DEF vars
<1> QED
  BY <1>1, <1>2, <1>3, <1>4, <1>5, <1>6, <1>7, <1>8, <1>9, <1>10, <1>11, <1>12, <1>13,
     <1>14, <1>15, <1>16, <1>17, <1>18, <1>19, <1>20, <1>21, <1>22, <1>23, <1>24, <1>25,
     <1>26, <1>27, <1>28, <1>29, <1>30, <1>31, <1>32, <1>33, <1>34, <1>35, <1>36, <1>37
     DEF Next, Launch, Turn

\* Each action leaves at most one holder of the place.
LEMMA HoldersInductive ==
    TypeOK /\ Stages /\ Holders /\ [Next]_vars => Holders'
<1> SUFFICES ASSUME TypeOK, Stages, Holders, [Next]_vars PROVE Holders'
  OBVIOUS
<1> USE DEF Stages, Holders, Held, Hosted, Launching, place, bells, asked, holder, processes, history
<1>1. CASE LaunchLooks
  BY <1>1 DEF LaunchLooks
<1>2. CASE LaunchTakes
  BY <1>2 DEF LaunchTakes
<1>3. CASE LaunchRests
  BY <1>3 DEF LaunchRests
<1>4. CASE Relaunch
  BY <1>4 DEF Relaunch
<1>5. CASE LaunchEnds
  BY <1>5 DEF LaunchEnds, GiveBack
<1>6. CASE ProcessStarts
  BY <1>6 DEF ProcessStarts
<1>7. CASE UnspokenEnds
  BY <1>7 DEF UnspokenEnds, GiveBack
<1>8. CASE Prompt
  BY <1>8 DEF Prompt
<1>9. CASE Begin
  BY <1>9 DEF Begin
<1>10. CASE Empty
  BY <1>10 DEF Empty, Opens, Over
<1>11. CASE Answer
  BY <1>11 DEF Answer
<1>12. CASE EndTable
  BY <1>12 DEF EndTable
<1>13. CASE Rest
  BY <1>13 DEF Rest
<1>14. CASE FinishEnds
  BY <1>14 DEF FinishEnds, Finishes
<1>15. CASE Return
  BY <1>15 DEF Return, HasEnded
<1>16. CASE StopFinishes
  BY <1>16 DEF StopFinishes, Finishes
<1>17. CASE StopEnds
  BY <1>17 DEF StopEnds, HostGone
<1>18. CASE Closes
  BY <1>18 DEF Closes
<1>19. CASE Heed
  BY <1>19 DEF Heed
<1>20. CASE Unheeded
  BY <1>20 DEF Unheeded, Over
<1>21. CASE Ask
  BY <1>21 DEF Ask, Room
<1>22. CASE ProgramEnds
  BY <1>22 DEF ProgramEnds, Over
<1>23. CASE Lost
  BY <1>23 DEF Lost, Over
<1>24. CASE Abandon
  BY <1>24 DEF Abandon, Over
<1>25. CASE FinishAbandoned
  BY <1>25 DEF FinishAbandoned
<1>26. CASE PromptSpent
  BY <1>26 DEF PromptSpent, Stop
<1>27. CASE Close
  BY <1>27 DEF Close, Stop
<1>28. CASE Retire
  BY <1>28 DEF Retire
<1>29. CASE Interrupt
  BY <1>29 DEF Interrupt, SetFlag
<1>30. CASE CloseAway
  BY <1>30 DEF CloseAway, SetFlag
<1>31. CASE Ring
  BY <1>31 DEF Ring
<1>32. ASSUME NEW q \in open, Decide(q) PROVE Holders'
  BY <1>32 DEF Decide
<1>33. ASSUME NEW p \in alive, Exits(p) PROVE Holders'
  BY <1>33 DEF Exits
<1>34. CASE HoldLooks
  BY <1>34 DEF HoldLooks
<1>35. CASE HoldTakes
  BY <1>35 DEF HoldTakes
<1>36. CASE HoldingEnds
  <2>1. running /\ ~unstopped /\ ~Launching /\ ~Hosted /\ step' # "holding"
    BY <1>36 DEF HoldingEnds
  <2>2. pc' = pc /\ host' = host /\ ~Launching' /\ ~Hosted' /\ ~Held'
    BY <2>1, <1>36 DEF HoldingEnds
  <2>3. (running' = FALSE /\ unstopped' = unstopped) \/ running' = running
    BY <1>36 DEF HoldingEnds
  <2>4. unstopped' => running'
    BY <2>1, <2>3, Zenon
  <2> QED  BY <2>2, <2>4
<1>37. CASE UNCHANGED vars
  BY <1>37 DEF vars
<1> QED
  BY <1>1, <1>2, <1>3, <1>4, <1>5, <1>6, <1>7, <1>8, <1>9, <1>10, <1>11, <1>12, <1>13,
     <1>14, <1>15, <1>16, <1>17, <1>18, <1>19, <1>20, <1>21, <1>22, <1>23, <1>24, <1>25,
     <1>26, <1>27, <1>28, <1>29, <1>30, <1>31, <1>32, <1>33, <1>34, <1>35, <1>36, <1>37
     DEF Next, Launch, Turn

\* Each action leaves a run that takes a turn between turns.
LEMMA LeavesInductive ==
    TypeOK /\ Stages /\ Leaves /\ [Next]_vars => Leaves'
<1> SUFFICES ASSUME TypeOK, Stages, Leaves, [Next]_vars PROVE Leaves'
  OBVIOUS
<1> USE DEF Stages, Leaves, HasEnded, Hosted, Launching, place, bells, asked, holder, processes, history
<1>1. CASE LaunchLooks
  BY <1>1 DEF LaunchLooks
<1>2. CASE LaunchTakes
  BY <1>2 DEF LaunchTakes
<1>3. CASE LaunchRests
  BY <1>3 DEF LaunchRests
<1>4. CASE Relaunch
  BY <1>4 DEF Relaunch
<1>5. CASE LaunchEnds
  BY <1>5 DEF LaunchEnds, GiveBack
<1>6. CASE ProcessStarts
  BY <1>6 DEF ProcessStarts
<1>7. CASE UnspokenEnds
  BY <1>7 DEF UnspokenEnds, GiveBack
<1>8. CASE Prompt
  BY <1>8 DEF Prompt
<1>9. CASE Begin
  BY <1>9 DEF Begin
<1>10. CASE Empty
  BY <1>10 DEF Empty, Opens, Over
<1>11. CASE Answer
  BY <1>11 DEF Answer
<1>12. CASE EndTable
  BY <1>12 DEF EndTable
<1>13. CASE Rest
  BY <1>13 DEF Rest, TypeOK
<1>14. CASE FinishEnds
  BY <1>14 DEF FinishEnds, Finishes
<1>15. CASE Return
  BY <1>15 DEF Return, TypeOK
<1>16. CASE StopFinishes
  BY <1>16 DEF StopFinishes, Finishes
<1>17. CASE StopEnds
  BY <1>17 DEF StopEnds, HostGone
<1>18. CASE Closes
  BY <1>18 DEF Closes
<1>19. CASE Heed
  BY <1>19 DEF Heed
<1>20. CASE Unheeded
  BY <1>20 DEF Unheeded, Over
<1>21. CASE Ask
  BY <1>21 DEF Ask, Room
<1>22. CASE ProgramEnds
  BY <1>22 DEF ProgramEnds, Over
<1>23. CASE Lost
  BY <1>23 DEF Lost, Over
<1>24. CASE Abandon
  BY <1>24 DEF Abandon, Over
<1>25. CASE FinishAbandoned
  BY <1>25 DEF FinishAbandoned
<1>26. CASE PromptSpent
  BY <1>26 DEF PromptSpent, Stop
<1>27. CASE Close
  BY <1>27 DEF Close, Stop
<1>28. CASE Retire
  BY <1>28 DEF Retire
<1>29. CASE Interrupt
  BY <1>29 DEF Interrupt, SetFlag
<1>30. CASE CloseAway
  BY <1>30 DEF CloseAway, SetFlag
<1>31. CASE Ring
  BY <1>31 DEF Ring
<1>32. ASSUME NEW q \in open, Decide(q) PROVE Leaves'
  BY <1>32 DEF Decide
<1>33. ASSUME NEW p \in alive, Exits(p) PROVE Leaves'
  BY <1>33 DEF Exits
<1>34. CASE HoldLooks
  BY <1>34 DEF HoldLooks
<1>35. CASE HoldTakes
  BY <1>35 DEF HoldTakes
<1>36. CASE HoldingEnds
  BY <1>36 DEF HoldingEnds
<1>37. CASE UNCHANGED vars
  BY <1>37 DEF vars
<1> QED
  BY <1>1, <1>2, <1>3, <1>4, <1>5, <1>6, <1>7, <1>8, <1>9, <1>10, <1>11, <1>12, <1>13,
     <1>14, <1>15, <1>16, <1>17, <1>18, <1>19, <1>20, <1>21, <1>22, <1>23, <1>24, <1>25,
     <1>26, <1>27, <1>28, <1>29, <1>30, <1>31, <1>32, <1>33, <1>34, <1>35, <1>36, <1>37
     DEF Next, Launch, Turn

\* Each action leaves a stop with the turn it was asked of.
LEMMA StopsInductive ==
    TypeOK /\ Stages /\ Stops /\ [Next]_vars => Stops'
<1> SUFFICES ASSUME TypeOK, Stages, Stops, [Next]_vars PROVE Stops'
  OBVIOUS
<1> USE DEF Stages, Stops, StopStaysInItsTurn, HasEnded, Hosted, Launching,
       place, bells, asked, holder, processes, history
<1>1. CASE LaunchLooks
  BY <1>1 DEF LaunchLooks
<1>2. CASE LaunchTakes
  BY <1>2 DEF LaunchTakes
<1>3. CASE LaunchRests
  BY <1>3 DEF LaunchRests
<1>4. CASE Relaunch
  BY <1>4 DEF Relaunch
<1>5. CASE LaunchEnds
  BY <1>5 DEF LaunchEnds, GiveBack
<1>6. CASE ProcessStarts
  BY <1>6 DEF ProcessStarts
<1>7. CASE UnspokenEnds
  BY <1>7 DEF UnspokenEnds, GiveBack
<1>8. CASE Prompt
  BY <1>8 DEF Prompt
<1>9. CASE Begin
  BY <1>9 DEF Begin
<1>10. CASE Empty
  BY <1>10 DEF Empty, Opens, Over
<1>11. CASE Answer
  BY <1>11 DEF Answer
<1>12. CASE EndTable
  BY <1>12 DEF EndTable
<1>13. CASE Rest
  BY <1>13 DEF Rest
<1>14. CASE FinishEnds
  BY <1>14 DEF FinishEnds, Finishes
<1>15. CASE Return
  BY <1>15 DEF Return, HasEnded
<1>16. CASE StopFinishes
  BY <1>16 DEF StopFinishes, Finishes
<1>17. CASE StopEnds
  BY <1>17 DEF StopEnds, HostGone
<1>18. CASE Closes
  BY <1>18 DEF Closes
<1>19. CASE Heed
  BY <1>19 DEF Heed
<1>20. CASE Unheeded
  BY <1>20 DEF Unheeded, Over
<1>21. CASE Ask
  BY <1>21 DEF Ask, Room
<1>22. CASE ProgramEnds
  BY <1>22 DEF ProgramEnds, Over
<1>23. CASE Lost
  BY <1>23 DEF Lost, Over
<1>24. CASE Abandon
  BY <1>24 DEF Abandon, Over
<1>25. CASE FinishAbandoned
  BY <1>25 DEF FinishAbandoned
<1>26. CASE PromptSpent
  BY <1>26 DEF PromptSpent, Stop
<1>27. CASE Close
  BY <1>27 DEF Close, Stop
<1>28. CASE Retire
  BY <1>28 DEF Retire
<1>29. CASE Interrupt
  BY <1>29 DEF Interrupt, SetFlag
<1>30. CASE CloseAway
  BY <1>30 DEF CloseAway, SetFlag
<1>31. CASE Ring
  BY <1>31 DEF Ring
<1>32. ASSUME NEW q \in open, Decide(q) PROVE Stops'
  BY <1>32 DEF Decide
<1>33. ASSUME NEW p \in alive, Exits(p) PROVE Stops'
  BY <1>33 DEF Exits
<1>34. CASE HoldLooks
  BY <1>34 DEF HoldLooks
<1>35. CASE HoldTakes
  BY <1>35 DEF HoldTakes
<1>36. CASE HoldingEnds
  BY <1>36 DEF HoldingEnds
<1>37. CASE UNCHANGED vars
  BY <1>37 DEF vars
<1> QED
  BY <1>1, <1>2, <1>3, <1>4, <1>5, <1>6, <1>7, <1>8, <1>9, <1>10, <1>11, <1>12, <1>13,
     <1>14, <1>15, <1>16, <1>17, <1>18, <1>19, <1>20, <1>21, <1>22, <1>23, <1>24, <1>25,
     <1>26, <1>27, <1>28, <1>29, <1>30, <1>31, <1>32, <1>33, <1>34, <1>35, <1>36, <1>37
     DEF Next, Launch, Turn

\* Each action leaves nothing running that nobody holds.
LEMMA QuietInductive ==
    TypeOK /\ Stages /\ Holders /\ Quiet /\ [Next]_vars => Quiet'
<1> SUFFICES ASSUME TypeOK, Stages, Holders, Quiet, [Next]_vars PROVE Quiet'
  OBVIOUS
<1> USE DEF Stages, Holders, Quiet, OneProcess, Held, Hosted, Launching,
       place, bells, asked, holder, processes, history
<1>1. CASE LaunchLooks
  BY <1>1 DEF LaunchLooks, TypeOK
<1>2. CASE LaunchTakes
  BY <1>2 DEF LaunchTakes, TypeOK
<1>3. CASE LaunchRests
  BY <1>3 DEF LaunchRests, TypeOK
<1>4. CASE Relaunch
  BY <1>4 DEF Relaunch, TypeOK
<1>5. CASE LaunchEnds
  BY <1>5 DEF LaunchEnds, GiveBack, TypeOK
<1>6. CASE ProcessStarts
  BY <1>6 DEF ProcessStarts, TypeOK
<1>7. CASE UnspokenEnds
  BY <1>7 DEF UnspokenEnds, GiveBack, TypeOK
<1>8. CASE Prompt
  BY <1>8 DEF Prompt, TypeOK
<1>9. CASE Begin
  BY <1>9 DEF Begin, TypeOK
<1>10. CASE Empty
  BY <1>10 DEF Empty, Opens, Over, TypeOK
<1>11. CASE Answer
  BY <1>11 DEF Answer, TypeOK
<1>12. CASE EndTable
  BY <1>12 DEF EndTable, TypeOK
<1>13. CASE Rest
  BY <1>13 DEF Rest, TypeOK
<1>14. CASE FinishEnds
  BY <1>14 DEF FinishEnds, Finishes, TypeOK
<1>15. CASE Return
  BY <1>15 DEF Return, HasEnded, TypeOK
<1>16. CASE StopFinishes
  BY <1>16 DEF StopFinishes, Finishes, TypeOK
<1>17. CASE StopEnds
  BY <1>17 DEF StopEnds, HostGone, TypeOK
<1>18. CASE Closes
  BY <1>18 DEF Closes, TypeOK
<1>19. CASE Heed
  BY <1>19 DEF Heed, TypeOK
<1>20. CASE Unheeded
  BY <1>20 DEF Unheeded, Over, TypeOK
<1>21. CASE Ask
  BY <1>21 DEF Ask, Room, TypeOK
<1>22. CASE ProgramEnds
  BY <1>22 DEF ProgramEnds, Over, TypeOK
<1>23. CASE Lost
  BY <1>23 DEF Lost, Over, TypeOK
<1>24. CASE Abandon
  BY <1>24 DEF Abandon, Over, TypeOK
<1>25. CASE FinishAbandoned
  BY <1>25 DEF FinishAbandoned, TypeOK
<1>26. CASE PromptSpent
  BY <1>26 DEF PromptSpent, Stop, TypeOK
<1>27. CASE Close
  BY <1>27 DEF Close, Stop, TypeOK
<1>28. CASE Retire
  BY <1>28 DEF Retire, TypeOK
<1>29. CASE Interrupt
  BY <1>29 DEF Interrupt, SetFlag, TypeOK
<1>30. CASE CloseAway
  BY <1>30 DEF CloseAway, SetFlag, TypeOK
<1>31. CASE Ring
  BY <1>31 DEF Ring, TypeOK
<1>32. ASSUME NEW q \in open, Decide(q) PROVE Quiet'
  BY <1>32 DEF Decide, TypeOK
<1>33. ASSUME NEW p \in alive, Exits(p) PROVE Quiet'
  BY <1>33 DEF Exits, TypeOK
<1>34. CASE HoldLooks
  BY <1>34 DEF HoldLooks, TypeOK
<1>35. CASE HoldTakes
  <2>1. CASE running
    BY <1>35, <2>1 DEF HoldTakes, TypeOK
  <2>2. CASE ~running
    <3>1. alive = {} /\ ~Launching /\ ~Hosted /\ process <= starts
      BY <2>2
    <3>2. /\ alive' = {starts + 1} /\ child' = starts + 1 /\ starts' = starts + 1
          /\ process' = process /\ running' = TRUE
          /\ pc' = pc /\ host' = host /\ slot' = slot
      BY <1>35, <2>2, <3>1 DEF HoldTakes
    <3>3. starts \in Nat /\ process \in Nat
      BY DEF TypeOK
    <3> QED  BY <3>1, <3>2, <3>3
  <2> QED  BY <2>1, <2>2
<1>36. CASE HoldingEnds
  BY <1>36 DEF HoldingEnds, TypeOK
<1>37. CASE UNCHANGED vars
  BY <1>37 DEF vars, TypeOK
<1> QED
  BY <1>1, <1>2, <1>3, <1>4, <1>5, <1>6, <1>7, <1>8, <1>9, <1>10, <1>11, <1>12, <1>13,
     <1>14, <1>15, <1>16, <1>17, <1>18, <1>19, <1>20, <1>21, <1>22, <1>23, <1>24, <1>25,
     <1>26, <1>27, <1>28, <1>29, <1>30, <1>31, <1>32, <1>33, <1>34, <1>35, <1>36, <1>37
     DEF Next, Launch, Turn

\* Each action leaves a decision settled once, and in the turn of its question.
LEMMA DecisionsInductive ==
    AskedTyped /\ Stages /\ Decisions /\ [Next]_vars => Decisions'
<1> SUFFICES ASSUME AskedTyped, Stages, Decisions, [Next]_vars PROVE Decisions'
  OBVIOUS
<1> USE DEF Stages, Decisions, DecisionsInTheirTurn, AcceptedIsOnItsWay, Launching,
       place, bells, asked, holder, processes, history
<1>1. CASE LaunchLooks
  BY <1>1 DEF LaunchLooks
<1>2. CASE LaunchTakes
  BY <1>2 DEF LaunchTakes
<1>3. CASE LaunchRests
  BY <1>3 DEF LaunchRests
<1>4. CASE Relaunch
  BY <1>4 DEF Relaunch
<1>5. CASE LaunchEnds
  BY <1>5 DEF LaunchEnds, GiveBack
<1>6. CASE ProcessStarts
  BY <1>6 DEF ProcessStarts
<1>7. CASE UnspokenEnds
  BY <1>7 DEF UnspokenEnds, GiveBack
<1>8. CASE Prompt
  <2>1. pc = "free" /\ table = 0
    BY <1>8 DEF Prompt
  <2>2. open = {}
    BY <2>1 DEF AskedTyped, Question
  <2>3. turn' = turn + 1 /\ pc' = "prompted"
        /\ UNCHANGED <<table, open, queue, questions, settled, delivered>>
    BY <1>8 DEF Prompt
  <2>4. \A q \in settled : q.turn < turn' /\ q.turn <= turn'
    <3>1. \A q \in settled : q.turn \in Nat
      BY DEF AskedTyped, Question
    <3>2. turn \in Nat
      BY DEF AskedTyped
    <3> QED  BY <2>3, <3>1, <3>2
  <2>5. turn' # 0
    BY <2>3 DEF AskedTyped
  <2> QED  BY <2>1, <2>2, <2>3, <2>4, <2>5
<1>9. CASE Begin
  BY <1>9 DEF Begin
<1>10. CASE Empty
  <2>1. DOMAIN queue' = {}
    BY <1>10, EmptySequence DEF Empty
  <2>2. /\ pc' \in {"exchange", "ended"}
        /\ UNCHANGED <<table, turn, open, questions, settled, delivered>>
    BY <1>10 DEF Empty, Opens, Over
  <2>3. pc = "emptying" /\ turn # 0 /\ table = turn /\ open = {}
        /\ \A q \in settled : q.turn < turn
    BY <1>10 DEF Empty
  <2>4. \A q \in settled : q.turn # turn
    <3>1. \A q \in settled : q.turn \in Nat
      BY DEF AskedTyped, Question
    <3> QED  BY <2>3, <3>1 DEF AskedTyped
  <2> QED  BY <2>1, <2>2, <2>3, <2>4
<1>11. CASE Answer
  <2> DEFINE said == [question |-> Head(queue), turn |-> turn]
  <2>1. /\ pc = "exchange" /\ queue # <<>>
        /\ queue' = Tail(queue) /\ delivered' = Append(delivered, said)
        /\ UNCHANGED <<pc, table, turn, open, questions, settled>>
    BY <1>11 DEF Answer
  <2>2. /\ Head(queue) = queue[1] /\ Len(queue) \in Nat \ {0} /\ Head(queue) \in Question
        /\ DOMAIN queue = 1..Len(queue) /\ DOMAIN queue' = 1..(Len(queue) - 1)
        /\ \A i \in 1..(Len(queue) - 1) : queue'[i] = queue[i + 1]
    BY <2>1, TailLeaves DEF AskedTyped
  <2>3. turn \in 1..MaxTurns /\ said \in [question : Question, turn : 1..MaxTurns]
    BY <2>1, <2>2 DEF AskedTyped
  <2>4. /\ DOMAIN delivered' = 1..(Len(delivered) + 1) /\ DOMAIN delivered = 1..Len(delivered)
        /\ \A j \in 1..Len(delivered) : delivered'[j] = delivered[j]
        /\ delivered'[Len(delivered) + 1] = said
        /\ Len(delivered) \in Nat
    BY <2>1, <2>3, AppendLeaves DEF AskedTyped
  <2>5. /\ said.question = queue[1] /\ said.turn = turn
        /\ queue[1] \in settled /\ queue[1].turn = turn
    BY <2>1, <2>2
  <2> HIDE DEF said
  <2>6. \A i \in DOMAIN queue' : /\ i + 1 \in DOMAIN queue /\ i \in DOMAIN queue
                                 /\ queue'[i] = queue[i + 1] /\ queue'[i] # queue[1]
    <3> TAKE i \in DOMAIN queue'
    <3>1. i \in Nat /\ i + 1 \in DOMAIN queue /\ i \in DOMAIN queue /\ 1 \in DOMAIN queue
          /\ queue'[i] = queue[i + 1] /\ i + 1 # 1
      BY <2>2
    <3>2. \A m, n \in DOMAIN queue : queue[m] = queue[n] => m = n
      OBVIOUS
    <3> QED  BY <3>1, <3>2
  <2>7. \A j \in DOMAIN delivered' :
           \/ j \in DOMAIN delivered /\ delivered'[j] = delivered[j]
           \/ j = Len(delivered) + 1 /\ delivered'[j] = said
    BY <2>4
  <2>8. \A i \in DOMAIN queue' : queue'[i] \in settled /\ queue'[i].turn = turn
    BY <2>1, <2>6
  <2>9. \A i, j \in DOMAIN queue' : queue'[i] = queue'[j] => i = j
    <3> TAKE i, j \in DOMAIN queue'
    <3> HAVE queue'[i] = queue'[j]
    <3>1. i + 1 = j + 1
      BY <2>6
    <3> QED  BY <2>2, <3>1
  <2>10. \A j \in DOMAIN delivered' :
            /\ delivered'[j].question \in settled
            /\ \A i \in DOMAIN queue' : queue'[i] # delivered'[j].question
    BY <2>5, <2>6, <2>7
  <2>11. \A j \in DOMAIN delivered' : delivered'[j].question.turn = delivered'[j].turn
    BY <2>5, <2>7
  <2>12. \A i, j \in DOMAIN delivered' :
            delivered'[i].question = delivered'[j].question => i = j
    <3>1. \A j \in DOMAIN delivered : delivered[j].question # queue[1]
      BY <2>2
    <3> QED  BY <2>5, <2>7, <3>1
  <2>13. \A q \in settled : q.turn = turn =>
            \/ \E i \in DOMAIN queue' : queue'[i] = q
            \/ \E j \in DOMAIN delivered' : delivered'[j].question = q
    <3> SUFFICES ASSUME NEW q \in settled, q.turn = turn
                 PROVE  \/ \E i \in DOMAIN queue' : queue'[i] = q
                        \/ \E j \in DOMAIN delivered' : delivered'[j].question = q
      OBVIOUS
    <3>1. CASE \E j \in DOMAIN delivered : delivered[j].question = q
      <4> PICK j \in DOMAIN delivered : delivered[j].question = q
        BY <3>1
      <4>1. j \in DOMAIN delivered' /\ delivered'[j] = delivered[j]
        BY <2>4
      <4> QED  BY <4>1
    <3>2. CASE \E i \in DOMAIN queue : queue[i] = q
      <4> PICK i \in DOMAIN queue : queue[i] = q
        BY <3>2
      <4>1. CASE i = 1
        BY <2>4, <2>5, <4>1
      <4>2. CASE i # 1
        <5>1. i - 1 \in DOMAIN queue' /\ i - 1 \in 1..(Len(queue) - 1) /\ (i - 1) + 1 = i
          BY <2>2, <4>2
        <5> QED  BY <2>2, <5>1
      <4> QED  BY <4>1, <4>2
    <3> QED  BY <2>1, <3>1, <3>2
  <2> QED  BY <2>1, <2>8, <2>9, <2>10, <2>11, <2>12, <2>13
<1>12. CASE EndTable
  BY <1>12 DEF EndTable
<1>13. CASE Rest
  BY <1>13 DEF Rest
<1>14. CASE FinishEnds
  BY <1>14 DEF FinishEnds, Finishes
<1>15. CASE Return
  BY <1>15 DEF Return, HasEnded
<1>16. CASE StopFinishes
  BY <1>16 DEF StopFinishes, Finishes
<1>17. CASE StopEnds
  BY <1>17 DEF StopEnds, HostGone
<1>18. CASE Closes
  BY <1>18 DEF Closes
<1>19. CASE Heed
  BY <1>19 DEF Heed
<1>20. CASE Unheeded
  BY <1>20 DEF Unheeded, Over
<1>21. CASE Ask
  <2> DEFINE q == [number |-> questions + 1, turn |-> table]
  <2>1. /\ pc = "exchange" /\ open' = open \union {q} /\ questions' = questions + 1
        /\ UNCHANGED <<pc, table, turn, queue, settled, delivered>>
    BY <1>21 DEF Ask
  <2>2. q.number = questions + 1 /\ q.turn = table /\ questions \in Nat
    BY DEF AskedTyped
  <2> HIDE DEF q
  <2>3. \A p \in settled \union open : p.number \in Nat /\ p.number <= questions
    BY DEF AskedTyped, Question
  <2>4. q \notin settled
    BY <2>2, <2>3
  <2>5. \A p \in settled \union open : p.number <= questions + 1
    BY <2>2, <2>3
  <2> QED  BY <2>1, <2>2, <2>4, <2>5
<1>22. CASE ProgramEnds
  BY <1>22 DEF ProgramEnds, Over
<1>23. CASE Lost
  BY <1>23 DEF Lost, Over
<1>24. CASE Abandon
  BY <1>24 DEF Abandon, Over
<1>25. CASE FinishAbandoned
  BY <1>25 DEF FinishAbandoned
<1>26. CASE PromptSpent
  BY <1>26 DEF PromptSpent, Stop
<1>27. CASE Close
  BY <1>27 DEF Close, Stop
<1>28. CASE Retire
  BY <1>28 DEF Retire
<1>29. CASE Interrupt
  BY <1>29 DEF Interrupt, SetFlag
<1>30. CASE CloseAway
  BY <1>30 DEF CloseAway, SetFlag
<1>31. CASE Ring
  BY <1>31 DEF Ring
<1>32. ASSUME NEW q \in open, Decide(q) PROVE Decisions'
  <2>1. /\ open' = open \ {q} /\ queue' = Append(queue, q) /\ settled' = settled \union {q}
        /\ UNCHANGED <<pc, table, turn, questions, delivered>>
    BY <1>32 DEF Decide
  <2>2. /\ DOMAIN queue' = 1..(Len(queue) + 1) /\ DOMAIN queue = 1..Len(queue)
        /\ \A i \in 1..Len(queue) : queue'[i] = queue[i]
        /\ queue'[Len(queue) + 1] = q
        /\ Len(queue) \in Nat
    BY <2>1, AppendLeaves DEF AskedTyped
  <2>3. /\ q.turn = table /\ q.number <= questions /\ q \notin settled
        /\ table # 0 /\ pc \notin {"prompted", "emptying"}
    BY DEF AskedTyped, Question
  <2>4. pc = "exchange" => table = turn
    OBVIOUS
  <2>5. pc \in {"exchange", "ended"}
    BY <2>3
  <2>6. \A i \in DOMAIN queue' :
           \/ i \in DOMAIN queue /\ queue'[i] = queue[i] /\ queue[i] \in settled
           \/ i = Len(queue) + 1 /\ queue'[i] = q
    BY <2>2
  <2>7. \A i \in DOMAIN queue : i \in DOMAIN queue' /\ queue'[i] = queue[i]
    BY <2>2
  <2>8. Len(queue) + 1 \in DOMAIN queue'
    BY <2>2
  <2>9. \A i, j \in DOMAIN queue' : queue'[i] = queue'[j] => i = j
    BY <2>3, <2>6
  <2>10. \A i \in DOMAIN queue' :
            queue'[i] \in settled' /\ (pc = "exchange" => queue'[i].turn = turn)
    BY <2>1, <2>3, <2>4, <2>6
  <2>11. \A j \in DOMAIN delivered :
            /\ delivered[j].question \in settled'
            /\ \A i \in DOMAIN queue' : queue'[i] # delivered[j].question
    BY <2>1, <2>3, <2>6
  <2>12. q.turn <= turn
    BY <2>3, <2>5 DEF AskedTyped
  <2>13. AcceptedIsOnItsWay'
    BY <2>1, <2>2, <2>7, <2>8
  <2> QED  BY <2>1, <2>3, <2>5, <2>9, <2>10, <2>11, <2>12, <2>13
<1>33. ASSUME NEW p \in alive, Exits(p) PROVE Decisions'
  BY <1>33 DEF Exits
<1>34. CASE HoldLooks
  BY <1>34 DEF HoldLooks
<1>35. CASE HoldTakes
  BY <1>35 DEF HoldTakes
<1>36. CASE HoldingEnds
  BY <1>36 DEF HoldingEnds
<1>37. CASE UNCHANGED vars
  BY <1>37 DEF vars
<1> QED
  BY <1>1, <1>2, <1>3, <1>4, <1>5, <1>6, <1>7, <1>8, <1>9, <1>10, <1>11, <1>12, <1>13,
     <1>14, <1>15, <1>16, <1>17, <1>18, <1>19, <1>20, <1>21, <1>22, <1>23, <1>24, <1>25,
     <1>26, <1>27, <1>28, <1>29, <1>30, <1>31, <1>32, <1>33, <1>34, <1>35, <1>36, <1>37
     DEF Next, Launch, Turn

---------------------------------------------------------------------------
IInv == Typed /\ Stages /\ Holders /\ Quiet /\ Leaves /\ Stops /\ Decisions

\* The invariant is inductive, and holds of every state.
LEMMA IInvHolds == Spec => []IInv
<1>1. Init => IInv
  BY Starts DEF IInv
<1>2. IInv /\ [Next]_vars => IInv'
  <2> SUFFICES ASSUME IInv, [Next]_vars PROVE IInv'
    OBVIOUS
  <2>1. TypeOK
    BY TypedIsType DEF IInv
  <2>2. Typed'
    BY ControlTypedInductive, PlaceTypedInductive, AskedTypedInductive DEF IInv, Typed
  <2>3. Stages' /\ Holders' /\ Quiet'
    BY <2>1, StagesInductive, HoldersInductive, QuietInductive DEF IInv
  <2>4. Leaves' /\ Stops'
    BY <2>1, LeavesInductive, StopsInductive DEF IInv
  <2>5. Decisions'
    BY DecisionsInductive DEF IInv, Typed
  <2> QED  BY <2>2, <2>3, <2>4, <2>5 DEF IInv
<1> QED  BY <1>1, <1>2, PTL DEF Spec

\* Every state is of its declared type: no more questions are open, and no more
\* decisions on their way, than PENDINGS (Pendings::raise, Control::decide).
THEOREM TypeCorrect == Spec => []TypeOK
<1>1. IInv => TypeOK
  BY TypedIsType DEF IInv
<1> QED  BY <1>1, IInvHolds, PTL

\* At most one process of the agent runs, through launches, stops and sign-ins
\* that fail, are refused or are abandoned (Control::running, Launching,
\* Unconfirmed, Holding, Host::drop).
THEOREM OneProcessAtATime == Spec => []OneProcess
<1>1. IInv => OneProcess
  BY DEF IInv, Quiet
<1> QED  BY <1>1, IInvHolds, PTL

\* Where the place is free nothing of the agent runs, and a run that is closed
\* has ended.
THEOREM FreeMeansQuiet == Spec => []FreePlaceIsQuiet
<1>1. IInv => FreePlaceIsQuiet
  BY DEF IInv, Quiet, FreePlaceIsQuiet
<1> QED  BY <1>1, IInvHolds, PTL

\* A decision reaches the program in the turn of its question, and once (the
\* order in which Host::turn begins the table and empties the queue).
THEOREM NoStaleDecision == Spec => []DecisionsInTheirTurn
<1>1. IInv => DecisionsInTheirTurn
  BY DEF IInv, Decisions
<1> QED  BY <1>1, IInvHolds, PTL

\* A decision that was accepted is not dropped while its turn goes on
\* (Control::decide has its place in the queue before it settles anything).
THEOREM NoLostDecision == Spec => []AcceptedIsOnItsWay
<1>1. IInv => AcceptedIsOnItsWay
  BY DEF IInv, Decisions
<1> QED  BY <1>1, IInvHolds, PTL

\* A stop stops the turn it was asked of and no later one (Control::interrupt,
\* rest, and the slot's lock held while it rings).
THEOREM StopsStay == Spec => []StopStaysInItsTurn
<1>1. IInv => StopStaysInItsTurn
  BY DEF IInv, Stops
<1> QED  BY <1>1, IInvHolds, PTL

\* A turn begins only on a run whose program is between turns (Away::drop).
THEOREM TurnsFollow == Spec => TurnsDoNotOverlap
<1>1. IInv /\ [Next]_vars => [turn' # turn => program = "between" /\ host = "live"]_vars
  <2> SUFFICES ASSUME IInv, [Next]_vars, turn' # turn
               PROVE  program = "between" /\ host = "live"
    OBVIOUS
  <2> USE DEF place, bells, asked, holder, processes, history
  <2>1. CASE Launch
    BY <2>1 DEF Launch, LaunchLooks, LaunchTakes, LaunchRests, Relaunch, LaunchEnds,
                ProcessStarts, UnspokenEnds
  <2>2. CASE Prompt
    BY <2>2 DEF Prompt, IInv, Leaves
  <2>3. CASE Turn
    BY <2>3 DEF Turn, Begin, Empty, Answer, EndTable, Rest, FinishEnds, Return, StopFinishes,
                StopEnds, Closes
  <2>4. CASE Heed \/ Unheeded \/ Ask \/ ProgramEnds \/ Lost \/ Abandon \/ FinishAbandoned
    BY <2>4 DEF Heed, Unheeded, Ask, ProgramEnds, Lost, Abandon, FinishAbandoned
  <2>5. CASE PromptSpent \/ Close \/ Retire
    BY <2>5 DEF PromptSpent, Close, Stop, Retire
  <2>6. CASE Interrupt \/ CloseAway \/ Ring
    BY <2>6 DEF Interrupt, CloseAway, Ring
  <2>7. ASSUME NEW q \in open, Decide(q) PROVE FALSE
    BY <2>7 DEF Decide
  <2>8. ASSUME NEW p \in alive, Exits(p) PROVE FALSE
    BY <2>8 DEF Exits
  <2>9. CASE HoldLooks \/ HoldTakes \/ HoldingEnds
    BY <2>9 DEF HoldLooks, HoldTakes, HoldingEnds
  <2>10. CASE UNCHANGED vars
    BY <2>10 DEF vars
  <2> QED
    BY <2>1, <2>2, <2>3, <2>4, <2>5, <2>6, <2>7, <2>8, <2>9, <2>10 DEF Next
<1> QED  BY <1>1, IInvHolds, PTL DEF Spec, TurnsDoNotOverlap
=============================================================================
