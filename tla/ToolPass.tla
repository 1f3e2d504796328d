------------------------------ MODULE ToolPass ------------------------------
(***************************************************************************)
(* One pass of the calls a model asked for: waves of calls that do not     *)
(* conflict, each asked about call by call, run in batches beside each     *)
(* other, settled, and answered in the order they were asked for.  A       *)
(* batch's runs leave what they print and what they came to in a mailbox,  *)
(* from which the turn reports it.  A stop may be asked for at any time,   *)
(* and the turn may be dropped where it waits.  Texts are their lengths:   *)
(* Long is that of RAN_LEFT_OUT, every other stand-in is one.  The tools   *)
(* are external: a run prints, has its effect and answers when it likes.   *)
(***************************************************************************)
EXTENDS Naturals, Sequences, FiniteSets, Functions

CONSTANTS
    N,          \* how many calls the model asked for
    Plans,      \* the ways their tools may run: "sequential", "parallel", or a key
    Ceiling,    \* Work.concurrency
    ToolRuns,   \* TOOL_RUNS
    Written,    \* WRITTEN
    Long,       \* how long RAN_LEFT_OUT is
    Sizes,      \* how long a tool's own words may be
    Rooms,      \* what the turn's output allowance may have left
    MaxPieces   \* bound: how many pieces a run prints

Calls == 1..N

ASSUME ToolPassAssumption ==
    /\ N \in Nat /\ Ceiling \in Nat /\ MaxPieces \in Nat
    /\ ToolRuns \in Nat \ {0} /\ Written \in Nat \ {0} /\ Long \in Nat \ {0}
    /\ Sizes \subseteq Nat /\ Rooms \subseteq Nat
    /\ Plans \subseteq [Calls -> STRING]

VARIABLES
    mode,       \* ToolDescriptor.execution of each call's tool
    room,       \* maximum - held
    stop,       \* Work.cancel is requested
    pc,         \* where the pass is
    at, end,    \* the wave: the calls from at up to end
    next,       \* the call, or place in the batch, it is at
    went,       \* Went: "on", "stopped", "refused", "limit"
    ended,      \* whether a decision ended the wave
    inv,        \* Invocation of each call, where there is one
    produced,   \* how much the pass has answered
    results,    \* the answers, in order
    batch,      \* the calls that run together
    slot,       \* Running.slot
    answers,    \* Held.answers
    written,    \* Held.written: whose piece it is
    parked,     \* the runs waiting on Shared.room
    closed,     \* Held.closed
    woken,      \* the turn is to be polled
    task,       \* each run: "no", "running", "writing", "answered", "returned"
    printed,    \* history: how many pieces each run left
    reported,   \* history: how many of them were posted
    effects     \* history: the calls whose run did something

planVars == <<mode, room>>
passVars == <<pc, at, end, next, went, ended, inv, produced, results, batch, slot>>
mailVars == <<answers, written, parked, closed, woken, reported>>
runVars == <<task, printed, effects>>
vars == <<planVars, stop, passVars, mailVars, runVars>>

None == [said |-> "nothing"]
Invocation(said, size) ==
    [said |-> said, size |-> size, ran |-> FALSE, stops |-> FALSE, kept |-> FALSE, from |-> 0]
NotRun == Invocation("not run", 1)
CutShort == Invocation("cut short", 1)
Denied == Invocation("denied", 1)
Unfilled == [how |-> "unfilled"]

Wave == at..(end - 1)
Left == {c \in Wave : inv[c] = None}

Init ==
    /\ mode \in Plans /\ room \in Rooms
    /\ stop = FALSE
    /\ pc = "top" /\ at = 1 /\ end = 1 /\ next = 1
    /\ went = "on" /\ ended = FALSE
    /\ inv = [c \in Calls |-> None]
    /\ produced = 0 /\ results = <<>>
    /\ batch = <<>> /\ slot = [c \in Calls |-> 0]
    /\ answers = <<>> /\ written = <<>> /\ parked = {} /\ closed = FALSE /\ woken = FALSE
    /\ task = [c \in Calls |-> "no"]
    /\ printed = [c \in Calls |-> 0] /\ reported = [c \in Calls |-> 0]
    /\ effects = {}

(***************************************************************************)
(* Waves, and the decisions of their calls.                                *)
(***************************************************************************)

Stop == ~stop /\ stop' = TRUE /\ UNCHANGED <<planVars, passVars, mailVars, runVars>>

\* after_turn: once the turn is over, the rest is answered without being run.
AfterTurn ==
    /\ pc = "top" /\ at <= N
    /\ went # "on"
    /\ inv' = [inv EXCEPT ![at] = IF went = "limit" THEN Invocation("limit", 1) ELSE NotRun]
    /\ end' = at + 1 /\ next' = at
    /\ pc' = "finishing"
    /\ UNCHANGED <<planVars, stop, at, went, ended, produced, results, batch, slot, mailVars, runVars>>

Stopped ==
    /\ pc = "top" /\ at <= N
    /\ went = "on" /\ stop
    /\ went' = "stopped"
    /\ UNCHANGED <<planVars, stop, pc, at, end, next, ended, inv, produced, results, batch, slot,
                   mailVars, runVars>>

\* wave_end: how far the calls from here on conflict with none before them.
JoinsFree(c, before) ==
    /\ mode[c] # "sequential"
    /\ mode[c] = "parallel" \/ \A b \in before : mode[b] # mode[c]
WaveEnd(e) ==
    IF Ceiling <= 1 \/ mode[at] = "sequential"
    THEN e = at + 1
    ELSE /\ e - at <= Ceiling
         /\ \A c \in (at + 1)..(e - 1) : JoinsFree(c, at..(c - 1))
         /\ e <= N => e - at = Ceiling \/ ~JoinsFree(e, at..(e - 1))

\* The longest stand-in is reserved for every call that is left.
Reserved == (N + 1 - at) * Long

Admit ==
    /\ pc = "top" /\ at <= N
    /\ went = "on" /\ ~stop
    /\ IF produced + Reserved > room
       THEN went' = "limit" /\ UNCHANGED <<pc, end, next, ended>>
       ELSE /\ \E e \in (at + 1)..(N + 1) : WaveEnd(e) /\ end' = e
            /\ pc' = "preparing" /\ next' = at /\ ended' = FALSE
            /\ UNCHANGED went
    /\ UNCHANGED <<planVars, stop, at, inv, produced, results, batch, slot, mailVars, runVars>>

\* prepare: a call is rejected, forbidden, refused or approved; nothing after
\* one that ends the wave is asked about.
Prepare ==
    /\ pc = "preparing" /\ next < end
    /\ \/ ended /\ inv' = [inv EXCEPT ![next] = NotRun] /\ UNCHANGED ended
       \/ ~ended /\ stop /\ inv' = [inv EXCEPT ![next] = CutShort] /\ ended' = TRUE
       \/ /\ ~ended /\ ~stop
          /\ \/ UNCHANGED <<inv, ended>>
             \/ inv' = [inv EXCEPT ![next] = Denied] /\ ended' = TRUE
             \/ /\ \E s \in Sizes : inv' = [inv EXCEPT ![next] = Invocation("rejected", s)]
                /\ UNCHANGED ended
    /\ next' = next + 1
    /\ UNCHANGED <<planVars, stop, pc, at, end, went, produced, results, batch, slot, mailVars, runVars>>

Prepared ==
    /\ pc = "preparing" /\ next = end
    /\ next' = at
    /\ IF ended
       THEN /\ pc' = "finishing"
            /\ inv' = [c \in Calls |-> IF c \in Left THEN NotRun ELSE inv[c]]
       ELSE pc' = "batching" /\ UNCHANGED inv
    /\ UNCHANGED <<planVars, stop, at, end, went, ended, produced, results, batch, slot, mailVars, runVars>>

(***************************************************************************)
(* execute_wave and run_batch.                                             *)
(***************************************************************************)

\* The first ToolRuns of the calls, in their order.
FirstOf(calls, s) ==
    /\ \A i, j \in DOMAIN s : i < j => s[i] < s[j]
    /\ \A c \in calls \ Range(s) : Len(s) = ToolRuns /\ \A i \in DOMAIN s : s[i] < c

\* A stop starts nothing more; otherwise the next of the approved calls run.
Batch ==
    /\ pc = "batching"
    /\ IF stop \/ Left = {}
       THEN /\ inv' = [c \in Calls |-> IF c \in Left THEN CutShort ELSE inv[c]]
            /\ pc' = "finishing" /\ next' = at
            /\ UNCHANGED <<batch, answers, closed, woken>>
       ELSE /\ \E n \in 1..ToolRuns : \E s \in [1..n -> Left] : FirstOf(Left, s) /\ batch' = s
            /\ answers' = <<>> /\ closed' = FALSE /\ woken' = TRUE
            /\ pc' = "starting" /\ next' = 1
            /\ UNCHANGED inv
    /\ UNCHANGED <<planVars, stop, at, end, went, ended, produced, results, slot, written, parked,
                   reported, runVars>>

\* A call of the batch has no collector, or is given a slot and spawned.
Start ==
    /\ pc = "starting" /\ next <= Len(batch)
    /\ LET c == batch[next] IN
       \/ /\ inv' = [inv EXCEPT ![c] = Invocation("failed", 1)]
          /\ UNCHANGED <<answers, slot, task>>
       \/ /\ answers' = Append(answers, Unfilled)
          /\ slot' = [slot EXCEPT ![c] = Len(answers) + 1]
          /\ task' = [task EXCEPT ![c] = "running"]
          /\ UNCHANGED inv
    /\ next' = next + 1
    /\ UNCHANGED <<planVars, stop, pc, at, end, went, ended, produced, results, batch, written,
                   parked, closed, woken, reported, printed, effects>>

AllStarted ==
    /\ pc = "starting" /\ next > Len(batch)
    /\ pc' = "collecting"
    /\ UNCHANGED <<planVars, stop, at, end, next, went, ended, inv, produced, results, batch, slot,
                   mailVars, runVars>>

InBatch == {c \in Calls : slot[c] # 0 /\ c \in Range(batch)}
AllAnswered == \A i \in DOMAIN answers : answers[i] # Unfilled
AllReturned == \A c \in InBatch : task[c] = "returned"

Posts(pieces) ==
    reported' = [c \in Calls |-> reported[c] + Cardinality({i \in DOMAIN pieces : pieces[i] = c})]

\* Mailbox.collected: what was written is taken and reported, and the runs
\* that wait for room are told; then the batch is over once every run has
\* answered and its task has returned.  The variation looks for answers first.
PollAnswersFirst ==
    /\ pc = "collecting" /\ woken
    /\ IF AllAnswered /\ AllReturned
       THEN pc' = "settling" /\ next' = 1 /\ closed' = TRUE /\ UNCHANGED <<written, reported>>
       ELSE written' = <<>> /\ Posts(written) /\ UNCHANGED <<pc, next, closed>>
    /\ woken' = (AllAnswered /\ ~AllReturned)
    /\ parked' = {}
    /\ UNCHANGED <<planVars, stop, at, end, went, ended, inv, produced, results, batch, slot, answers,
                   runVars>>
Poll ==
    /\ pc = "collecting" /\ woken
    /\ written' = <<>> /\ Posts(written)
    /\ IF AllAnswered /\ AllReturned
       THEN pc' = "settling" /\ next' = 1 /\ closed' = TRUE
       ELSE UNCHANGED <<pc, next, closed>>
    /\ woken' = (AllAnswered /\ ~AllReturned)
    /\ parked' = {}
    /\ UNCHANGED <<planVars, stop, at, end, went, ended, inv, produced, results, batch, slot, answers,
                   runVars>>

\* Started.settled and PanicFallback: what a run came to.
Panicked == [Invocation("panicked", 1) EXCEPT !.ran = TRUE, !.stops = stop]
Ran(came, said, size) ==
    [Invocation(said, size) EXCEPT !.ran = TRUE, !.stops = came.stopped, !.from = came.of]
Settlements(came) ==
    IF came.how = "apart" THEN {[Panicked EXCEPT !.from = came.of]}
    ELSE IF came.how = "unran"
    THEN {[Panicked EXCEPT !.from = came.of], [Invocation("failed", 1) EXCEPT !.from = came.of]}
    ELSE {[Panicked EXCEPT !.from = came.of], Ran(came, "failed", 1)} \union
         (IF came.how = "output" THEN {[Ran(came, "own", came.size) EXCEPT !.kept = came.kept]}
          ELSE IF came.timedOut /\ ~came.stopped THEN {Ran(came, "timed out", 1)}
          ELSE IF came.how = "cancelled" THEN {Ran(came, "cut short", 1)}
          ELSE {Ran(came, "failed", came.size)})

Settle ==
    /\ pc = "settling" /\ next <= Len(batch)
    /\ LET c == batch[next] IN
       IF slot[c] = 0
       THEN UNCHANGED inv
       ELSE \E i \in Settlements(answers[slot[c]]) : inv' = [inv EXCEPT ![c] = i]
    /\ next' = next + 1
    /\ UNCHANGED <<planVars, stop, pc, at, end, went, ended, produced, results, batch, slot, mailVars,
                   runVars>>

BatchEnds ==
    /\ pc = "settling" /\ next > Len(batch)
    /\ pc' = "batching" /\ batch' = <<>> /\ answers' = <<>> /\ slot' = [c \in Calls |-> 0]
    /\ UNCHANGED <<planVars, stop, at, end, next, went, ended, inv, produced, results, written,
                   parked, closed, woken, reported, runVars>>

(***************************************************************************)
(* The answers.                                                            *)
(***************************************************************************)

\* What an invocation makes of the turn.
Marked(i) ==
    IF i.said = "denied" THEN "refused"
    ELSE IF i.stops \/ i.said = "cut short" THEN "stopped" ELSE went

\* Work.finish: what a call is answered with where its words do not fit, and
\* where what it kept running cannot be stored.
Fits(said, size, left) == IF size <= left THEN [said |-> said, size |-> size] ELSE [said |-> "", size |-> 0]
LeftOut(i, left) ==
    IF i.ran /\ i.kept THEN Fits("ran and stopped", 1, left)
    ELSE IF i.ran THEN Fits("left out", Long, left)
    ELSE Fits("limit", 1, left)
SaysOf(i, left) ==
    IF i.size > left THEN {LeftOut(i, left)}
    ELSE {[said |-> i.said, size |-> i.size]} \union
         (IF i.kept THEN {Fits("not stored", 1, left)} ELSE {})
Less(a, b) == IF a > b THEN a - b ELSE 0

\* The variation keeps no room for the calls after it.
RoomLeftForOne(c) == Less(room, produced)
RoomLeft(c) == Less(Less(room, produced), (N - c) * Long)

Finish ==
    /\ pc = "finishing" /\ next < end
    /\ LET i == inv[next]
           left == RoomLeft(next)
           marked == Marked(i)
       IN  /\ went' = IF i.size > left /\ marked = "on" THEN "limit" ELSE marked
           /\ \E s \in SaysOf(i, left) :
                 /\ produced' = produced + s.size
                 /\ results' = Append(results, [call |-> next, said |-> s.said, from |-> i.from, stops |-> i.stops])
    /\ inv' = [inv EXCEPT ![next] = None]
    /\ next' = next + 1
    /\ UNCHANGED <<planVars, stop, pc, at, end, ended, batch, slot, mailVars, runVars>>

Finished ==
    /\ pc = "finishing" /\ next = end
    /\ at' = end
    /\ pc' = IF end > N THEN "over" ELSE "top"
    /\ UNCHANGED <<planVars, stop, end, next, went, ended, inv, produced, results, batch, slot, mailVars,
                   runVars>>

\* The turn is dropped where it waits: for an answer about a call, for its
\* runs, or for what a call left running to be taken on.  What it held goes
\* with it.  The variation does not tell the runs that wait for room.
DropUntold ==
    /\ pc \in {"preparing", "collecting", "finishing"}
    /\ pc' = "gone"
    /\ closed' = TRUE /\ UNCHANGED parked
    /\ inv' = [c \in Calls |-> None] /\ results' = <<>> /\ produced' = 0
    /\ at' = 1 /\ end' = 1 /\ next' = 1 /\ went' = "on" /\ ended' = FALSE
    /\ UNCHANGED <<planVars, stop, batch, slot, answers, written, woken, reported, runVars>>
Drop ==
    /\ pc \in {"preparing", "collecting", "finishing"}
    /\ pc' = "gone"
    /\ closed' = TRUE /\ parked' = {}
    /\ inv' = [c \in Calls |-> None] /\ results' = <<>> /\ produced' = 0
    /\ at' = 1 /\ end' = 1 /\ next' = 1 /\ went' = "on" /\ ended' = FALSE
    /\ UNCHANGED <<planVars, stop, batch, slot, answers, written, woken, reported, runVars>>

(***************************************************************************)
(* The runs.                                                               *)
(***************************************************************************)

Effect(c) ==
    /\ task[c] = "running" /\ c \notin effects
    /\ effects' = effects \union {c}
    /\ UNCHANGED <<planVars, stop, passVars, mailVars, task, printed>>

Leaves(c) ==
    /\ written' = Append(written, c)
    /\ printed' = [printed EXCEPT ![c] = @ + 1]
    /\ woken' = TRUE

\* Mailbox.wrote: a piece is left where there is room, or where the run is on
\* the thread that polled the turn last; without the turn it is dropped, and
\* otherwise the run waits.  The condition is looked at again when told.
Wrote(c) ==
    /\ IF closed
       THEN task' = [task EXCEPT ![c] = "running"] /\ UNCHANGED <<written, printed, woken, parked>>
       ELSE \/ task' = [task EXCEPT ![c] = "running"] /\ Leaves(c) /\ UNCHANGED parked
            \/ /\ Len(written) >= Written
               /\ task' = [task EXCEPT ![c] = "writing"] /\ parked' = parked \union {c}
               /\ UNCHANGED <<written, printed, woken>>
    /\ UNCHANGED <<planVars, stop, passVars, answers, closed, reported, effects>>

Prints(c) == task[c] = "running" /\ printed[c] < MaxPieces /\ Wrote(c)
GoesOn(c) == task[c] = "writing" /\ c \notin parked /\ Wrote(c)

Fills(c, came) ==
    /\ answers' = [answers EXCEPT ![slot[c]] = came]
    /\ woken' = TRUE
    /\ UNCHANGED <<planVars, stop, passVars, written, parked, closed, reported, printed, effects>>

\* A run's answer, the last thing its task does, or why it never began; a run
\* says it was cancelled only where its token is raised.
Answers(c) ==
    /\ task[c] = "running"
    /\ task' = [task EXCEPT ![c] = "answered"]
    /\ \/ \E s \in Sizes, k \in BOOLEAN :
             Fills(c, [how |-> "output", of |-> c, size |-> s, kept |-> k, stopped |-> stop])
       \/ \E s \in Sizes, late \in BOOLEAN :
             Fills(c, [how |-> "failed", of |-> c, size |-> s, stopped |-> stop, timedOut |-> late])
       \/ \E late \in BOOLEAN :
             /\ stop \/ late
             /\ Fills(c, [how |-> "cancelled", of |-> c, stopped |-> stop, timedOut |-> late])
       \/ Fills(c, [how |-> "apart", of |-> c])
       \/ c \notin effects /\ printed[c] = 0 /\ Fills(c, [how |-> "unran", of |-> c])

Returns(c) ==
    /\ task[c] = "answered"
    /\ task' = [task EXCEPT ![c] = "returned"]
    /\ UNCHANGED <<planVars, stop, passVars, mailVars, printed, effects>>

\* The group is dropped with the turn, and takes a run where it waits.
Taken(c) ==
    /\ pc = "gone" /\ task[c] = "running"
    /\ task' = [task EXCEPT ![c] = "returned"]
    /\ Fills(c, [how |-> "apart", of |-> c])

Turn ==
    \/ AfterTurn \/ Stopped \/ Admit \/ Prepare \/ Prepared \/ Batch \/ Start \/ AllStarted
    \/ Poll \/ Settle \/ BatchEnds \/ Finish \/ Finished

Next ==
    \/ Stop \/ Drop \/ Turn
    \/ \E c \in Calls : Effect(c) \/ Prints(c) \/ GoesOn(c) \/ Answers(c) \/ Returns(c) \/ Taken(c)

Spec == Init /\ [][Next]_vars

(***************************************************************************)
(* Properties.                                                             *)
(***************************************************************************)

Outcomes == {"on", "stopped", "refused", "limit"}

\* Every variable stays what it is declared to be.
TypeOK ==
    /\ mode \in Plans /\ room \in Rooms
    /\ stop \in BOOLEAN /\ ended \in BOOLEAN /\ closed \in BOOLEAN /\ woken \in BOOLEAN
    /\ pc \in {"top", "preparing", "batching", "starting", "collecting", "settling", "finishing",
               "over", "gone"}
    /\ at \in 1..(N + 1) /\ end \in 1..(N + 1) /\ next \in Nat
    /\ went \in Outcomes
    /\ produced \in Nat
    /\ batch \in Seq(Calls) /\ slot \in [Calls -> Nat]
    /\ written \in Seq(Calls) /\ parked \subseteq Calls
    /\ task \in [Calls -> {"no", "running", "writing", "answered", "returned"}]
    /\ printed \in [Calls -> Nat] /\ reported \in [Calls -> Nat]
    /\ effects \subseteq Calls

\* Every call is answered once, in the order the model asked, with what its
\* own run came to; a call whose run answered is told to have run, in its own
\* words or in a stand-in there was room for, unless it said itself that it
\* was cancelled; a call that never ran is not told to have; and what is
\* answered fits the allowance (work.rs:160, :202-208, :581-626, :771-773).
EveryCallSaysWhatItDid ==
    /\ produced <= room
    /\ Len(results) <= N /\ (pc = "over" => Len(results) = N)
    /\ \A i \in DOMAIN results :
          LET r == results[i] IN
          /\ r.call = i
          /\ r.from \in {0, i}
          /\ i \in effects => r.said \notin {"not run", "limit", "denied", "rejected", ""}
          /\ r.said \in {"own", "left out", "timed out"} => r.from = i /\ task[i] = "returned"
          /\ r.said = "cut short" /\ i \in effects => r.from = i

\* What a run left to be printed was reported before its call is answered
\* (work.rs:1073-1077).
PrintedBeforeAnswered ==
    \A i \in DOMAIN results : reported[i] = printed[i]

\* Two calls that conflict never run at once, nor more than TOOL_RUNS; and a
\* pass in which a run answered after the stop ends stopped, whatever its
\* calls answered and however little room there was (work.rs:259-262, :477-482,
\* :498-527).
Working == {c \in Calls : task[c] \in {"running", "writing"}}
RunsApart ==
    /\ Cardinality(Working) <= ToolRuns
    /\ \A c, d \in Working :
          c # d => mode[c] # "sequential" /\ (mode[c] # mode[d] \/ mode[c] = "parallel")
    /\ pc = "over" /\ (\E i \in DOMAIN results : results[i].stops) => went = "stopped"

\* A run that waits for room waits for a turn that will make some: one that is
\* to be polled, and tells it then or as it leaves (work.rs:1077-1079,
\* :1204-1213).
ParkedIsToldOfRoom ==
    parked # {} => ~closed /\ pc \in {"starting", "collecting"} /\ woken
=============================================================================
