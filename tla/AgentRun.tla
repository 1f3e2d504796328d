------------------------------ MODULE AgentRun ------------------------------
(***************************************************************************)
(* One installed agent: the one place for a process of it (Control), the   *)
(* run an External holds in its slot, the turn that takes the run away,    *)
(* and what reaches that turn from other threads: decisions through the    *)
(* table and the queue, a stop through a flag and a bell.  A sign-in step  *)
(* contends for the same place with a child of its own.                    *)
(*                                                                         *)
(* Pendings has the table in full, and the program's names; here a         *)
(* question is its number and the turn it was asked in.                    *)
(***************************************************************************)
EXTENDS Naturals, Sequences, FiniteSets

CONSTANTS
    Limit,         \* PENDINGS: questions open, and decisions on their way
    MaxStarts,     \* bound: processes started
    MaxTurns,      \* bound: turns
    MaxQuestions   \* bound: questions raised

ASSUME LimitAssumption == Limit \in Nat
ASSUME BoundsAssumption ==
    MaxStarts \in Nat /\ MaxTurns \in Nat /\ MaxQuestions \in Nat

VARIABLES
    running,     \* Shared.running: the place is taken
    unstopped,   \* Shared.unstopped: taken for good
    flag,        \* Shared.interrupted
    bell,        \* the permit Shared.bell keeps
    ringing,     \* an interrupt has set the flag and not rung, the slot locked
    table,       \* the turn whose questions the table takes, 0 for none
    open,        \* the questions open
    queue,       \* decisions on their way
    slot,        \* "none", "idle", "away", "closing", "spent", "closed", "unstopped"
    pc,          \* what holds or launches the run, "free" where nothing does
    ending,      \* how the exchange ended
    cancelling,  \* the turn was told to stop
    host,        \* "none", "live", "stopping" (begun, not done), "confirmed", "unreaped"
    step,        \* the sign-in: "none", "looked", "holding"
    process,     \* the process of the run or launch, by its number
    child,       \* the process of the sign-in
    alive,       \* processes that run
    program,     \* the run's program: "between" turns, "working" on one, "ended"
    starts,      \* processes started so far
    turn,        \* turns so far, and so the one under way
    questions,   \* questions raised so far
    stops,       \* history: turns a stop was asked during
    settled,     \* history: questions a decision was accepted for
    delivered    \* history: decisions said to the program, and in which turn

place == <<running, unstopped>>
bells == <<flag, bell, ringing>>
asked == <<table, open, queue, questions>>
holder == <<slot, pc, ending, cancelling, host, turn>>
processes == <<step, process, child, alive, program, starts>>
history == <<stops, settled, delivered>>
vars == <<place, bells, asked, holder, processes, history>>

Question == [number : 1..MaxQuestions, turn : 1..MaxTurns]

Init ==
    /\ running = FALSE /\ unstopped = FALSE
    /\ flag = FALSE /\ bell = FALSE /\ ringing = FALSE
    /\ table = 0 /\ open = {} /\ queue = <<>> /\ questions = 0
    /\ slot = "none" /\ pc = "free" /\ ending = "none" /\ cancelling = FALSE
    /\ host = "none" /\ turn = 0
    /\ step = "none" /\ process = 0 /\ child = 0 /\ alive = {}
    /\ program = "ended" /\ starts = 0
    /\ stops = {} /\ settled = {} /\ delivered = <<>>

\* External's slot is a mutex, held while an interrupt rings.
SlotFree == ~ringing

(***************************************************************************)
(* Host::launch, by the conversation that holds no run.                    *)
(***************************************************************************)
LaunchLooks ==
    /\ slot = "none" /\ pc = "free"
    /\ starts < MaxStarts
    /\ ~unstopped
    /\ pc' = "looked"
    /\ UNCHANGED <<place, bells, asked, slot, ending, cancelling, host, turn, processes,
                   history>>

\* The compare and exchange: taken, or refused as busy.  The variation takes
\* it after the look alone.
LaunchTakesAnyway ==
    /\ pc = "looked"
    /\ running' = TRUE
    /\ pc' = "taken"
    /\ UNCHANGED <<unstopped, bells, asked, slot, ending, cancelling, host, turn, processes,
                   history>>
LaunchTakes ==
    /\ pc = "looked"
    /\ running' = TRUE
    /\ pc' = IF running THEN "free" ELSE "taken"
    /\ UNCHANGED <<unstopped, bells, asked, slot, ending, cancelling, host, turn, processes,
                   history>>

\* A stop meant for the last run is forgotten, then its questions are.
LaunchRests ==
    /\ pc = "taken"
    /\ flag' = FALSE
    /\ pc' = "rested"
    /\ UNCHANGED <<place, bell, ringing, asked, slot, ending, cancelling, host, turn,
                   processes, history>>

Relaunch ==
    /\ pc = "rested"
    /\ table' = 0 /\ open' = {}
    /\ pc' = "starting"
    /\ UNCHANGED <<place, bells, queue, questions, slot, ending, cancelling, host, turn,
                   processes, history>>

\* Launching::drop: the place is given back unless a stop was not confirmed.
GiveBack == running' = (unstopped' /\ running)

\* Refused, or its future dropped, before a process was started.
LaunchEnds ==
    /\ pc = "starting"
    /\ unstopped' = unstopped
    /\ GiveBack
    /\ pc' = "free"
    /\ UNCHANGED <<bells, asked, slot, ending, cancelling, host, turn, processes, history>>

\* Started, and spoken to or not.
ProcessStarts ==
    /\ pc = "starting"
    /\ starts < MaxStarts
    /\ starts' = starts + 1
    /\ process' = starts + 1
    /\ alive' = alive \union {starts + 1}
    /\ \/ /\ host' = "live" /\ slot' = "idle" /\ pc' = "free"
          /\ program' = "between"
       \/ /\ pc' = "unspoken"
          /\ UNCHANGED <<host, slot, program>>
    /\ UNCHANGED <<place, bells, asked, ending, cancelling, turn, step, child, history>>

\* One that could not be spoken to is stopped; the stop is confirmed, or it
\* failed, did not answer or was abandoned.
UnspokenEnds ==
    /\ pc = "unspoken"
    /\ pc' = "free"
    /\ \/ alive' = alive \ {process} /\ unstopped' = unstopped
       \/ alive' = alive /\ unstopped' = TRUE
    /\ GiveBack
    /\ UNCHANGED <<bells, asked, slot, ending, cancelling, host, turn, step, process, child,
                   program, starts, history>>

(***************************************************************************)
(* External::prompt and Host::turn.                                        *)
(***************************************************************************)
Prompt ==
    /\ SlotFree
    /\ slot = "idle" /\ turn < MaxTurns
    /\ slot' = "away" /\ pc' = "prompted"
    /\ turn' = turn + 1
    /\ ending' = "none" /\ cancelling' = FALSE
    /\ UNCHANGED <<place, bells, asked, host, processes, history>>

\* The table is begun before the queue is emptied.
Begin ==
    /\ pc = "prompted"
    /\ table' = turn /\ open' = {}
    /\ pc' = "emptying"
    /\ UNCHANGED <<place, bells, queue, questions, slot, ending, cancelling, host, turn,
                   processes, history>>

\* The exchange ends, and how.
Over(how) == pc' = "ended" /\ ending' = how

\* The program is told of the turn, or its dialect has no words for it.
Opens ==
    \/ program' = "working" /\ pc' = "exchange" /\ UNCHANGED ending
    \/ Over("ended") /\ UNCHANGED program

\* What is left in the queue was sent for a turn that ended.  The variation
\* leaves it there.
KeepQueued ==
    /\ pc = "emptying"
    /\ Opens
    /\ UNCHANGED <<place, bells, asked, slot, cancelling, host, turn, step, process, child,
                   alive, starts, history>>
Empty ==
    /\ pc = "emptying"
    /\ queue' = <<>>
    /\ Opens
    /\ UNCHANGED <<place, bells, table, open, questions, slot, cancelling, host, turn, step,
                   process, child, alive, starts, history>>

\* A decision is said to the program; where it cannot be, the turn is Lost.
Answer ==
    /\ pc = "exchange"
    /\ queue # <<>>
    /\ queue' = Tail(queue)
    /\ delivered' = Append(delivered, [question |-> Head(queue), turn |-> turn])
    /\ UNCHANGED <<place, bells, table, open, questions, holder, processes, stops, settled>>

\* The bell: the flag is taken down, and the program told to stop, once.
Heed ==
    /\ pc = "exchange"
    /\ bell
    /\ bell' = FALSE /\ flag' = FALSE
    /\ cancelling' = (cancelling \/ flag)
    /\ UNCHANGED <<place, ringing, asked, slot, pc, ending, host, turn, processes, history>>

\* CANCEL_GRACE is over.
Unheeded ==
    /\ pc = "exchange"
    /\ cancelling
    /\ Over("unheeded")
    /\ UNCHANGED <<place, bells, asked, slot, cancelling, host, turn, processes, history>>

\* Pendings::raise refuses a question more than PENDINGS.
Room == Cardinality(open) < Limit

\* Host::ask.  A turn told to stop answers no there and raises nothing; a
\* question under an open one's name, or one too many, is Lost.
Ask ==
    /\ pc = "exchange"
    /\ ~cancelling
    /\ Room
    /\ questions < MaxQuestions
    /\ questions' = questions + 1
    /\ open' = open \union {[number |-> questions + 1, turn |-> table]}
    /\ UNCHANGED <<place, bells, table, queue, holder, processes, history>>

\* The program says that the turn ended, or failed.
ProgramEnds ==
    /\ pc = "exchange"
    /\ program' = "between"
    /\ Over("ended")
    /\ UNCHANGED <<place, bells, asked, slot, cancelling, host, turn, step, process, child,
                   alive, starts, history>>

\* The stream ended, said what cannot be read, or could not be written.
Lost ==
    /\ pc = "exchange"
    /\ Over("lost")
    /\ UNCHANGED <<place, bells, asked, slot, cancelling, host, turn, processes, history>>

\* Whoever waited for the turn waits no longer: its future is dropped.
Abandon ==
    /\ pc = "exchange"
    /\ Over("dropped")
    /\ UNCHANGED <<place, bells, asked, slot, cancelling, host, turn, processes, history>>

\* Asking::drop, however the turn ended.
EndTable ==
    /\ pc = "ended"
    /\ table' = 0 /\ open' = {}
    /\ pc' = IF ending = "dropped" THEN "returning" ELSE "resting"
    /\ UNCHANGED <<place, bells, queue, questions, slot, ending, cancelling, host, turn,
                   processes, history>>

\* Control::rest; a turn that was lost or did not heed its stop ends the run.
Rest ==
    /\ pc = "resting"
    /\ flag' = FALSE
    /\ IF ending = "ended"
       THEN pc' = "returning" /\ UNCHANGED host
       ELSE pc' = "finishing" /\ host' = "stopping"
    /\ UNCHANGED <<place, bell, ringing, asked, slot, ending, cancelling, turn, processes,
                   history>>

\* Host::finish: the process is known to have ended, or is not.
Finishes ==
    \/ host' = "confirmed" /\ alive' = alive \ {process}
    \/ host' = "unreaped" /\ alive' = alive

FinishEnds ==
    /\ pc = "finishing"
    /\ Finishes
    /\ pc' = "returning"
    /\ UNCHANGED <<place, bells, asked, slot, ending, cancelling, turn, step, process, child,
                   program, starts, history>>

FinishAbandoned ==
    /\ pc = "finishing"
    /\ ending' = "dropped"
    /\ pc' = "returning"
    /\ UNCHANGED <<place, bells, asked, slot, cancelling, host, turn, processes, history>>

\* Host::ended.
HasEnded == host \in {"confirmed", "unreaped"}

\* Away::drop with a run: a turn that returned on a run that has not ended
\* leaves it idle, its stop forgotten; every other leaves it spent.  The
\* variations do not forget, and do not ask how the turn ended.
ReturnUnrested ==
    /\ pc = "returning"
    /\ SlotFree
    /\ pc' = "free"
    /\ slot' = IF slot = "away" /\ ending # "dropped" /\ ~HasEnded THEN "idle" ELSE "spent"
    /\ UNCHANGED <<place, bells, asked, ending, cancelling, host, turn, processes, history>>
ReturnIdle ==
    /\ pc = "returning"
    /\ SlotFree
    /\ pc' = "free"
    /\ IF slot = "away" /\ ~HasEnded
       THEN slot' = "idle" /\ flag' = FALSE
       ELSE slot' = "spent" /\ UNCHANGED flag
    /\ UNCHANGED <<place, bell, ringing, asked, ending, cancelling, host, turn, processes,
                   history>>
Return ==
    /\ pc = "returning"
    /\ SlotFree
    /\ pc' = "free"
    /\ IF slot = "away" /\ ending # "dropped" /\ ~HasEnded
       THEN slot' = "idle" /\ flag' = FALSE
       ELSE slot' = "spent" /\ UNCHANGED flag
    /\ UNCHANGED <<place, bell, ringing, asked, ending, cancelling, host, turn, processes,
                   history>>

(***************************************************************************)
(* Stopping a run: close, or the prompt that finds it spent.               *)
(***************************************************************************)

\* finish looks at a run that has ended already and begins nothing.
Stop(as) ==
    /\ slot' = as
    /\ pc' = "stopping"
    /\ host' = IF host = "live" THEN "stopping" ELSE host

PromptSpent ==
    /\ SlotFree
    /\ slot = "spent"
    /\ Stop("away")
    /\ UNCHANGED <<place, bells, asked, ending, cancelling, turn, processes, history>>

Close ==
    /\ SlotFree
    /\ slot \in {"idle", "spent"}
    /\ Stop("closing")
    /\ UNCHANGED <<place, bells, asked, ending, cancelling, turn, processes, history>>

\* Host::stop waits for the end where it is not known yet.
StopFinishes ==
    /\ pc = "stopping"
    /\ host = "stopping"
    /\ Finishes
    /\ UNCHANGED <<place, bells, asked, slot, pc, ending, cancelling, turn, step, process,
                   child, program, starts, history>>

\* Host::drop: a run whose end was not confirmed keeps the place for good.
\* The variation gives it back once a stop was begun.
HostGoneUnconfirmed ==
    /\ host' = "none"
    /\ program' = "ended"
    /\ IF host \in {"confirmed", "stopping"}
       THEN running' = FALSE /\ UNCHANGED unstopped
       ELSE unstopped' = TRUE /\ UNCHANGED running
HostGone ==
    /\ host' = "none"
    /\ program' = "ended"
    /\ IF host = "confirmed"
       THEN running' = FALSE /\ UNCHANGED unstopped
       ELSE unstopped' = TRUE /\ UNCHANGED running

\* The stop answered, or whoever waited for it waits no longer.
StopEnds ==
    /\ pc = "stopping"
    /\ HostGone
    /\ pc' = IF host = "confirmed" THEN "stopped" ELSE "left"
    /\ UNCHANGED <<bells, asked, slot, ending, cancelling, turn, step, process, child, alive,
                   starts, history>>

\* Away::drop without a run.
Closes ==
    /\ pc \in {"stopped", "left"}
    /\ SlotFree
    /\ slot' = IF pc = "stopped" THEN "closed" ELSE "unstopped"
    /\ pc' = "free"
    /\ UNCHANGED <<place, bells, asked, ending, cancelling, host, turn, processes, history>>

\* The conversation lets go of a backend it closed, as far as it could.
Retire ==
    /\ slot \in {"closed", "unstopped"}
    /\ slot' = "none"
    /\ UNCHANGED <<place, bells, asked, pc, ending, cancelling, host, turn, processes,
                   history>>

(***************************************************************************)
(* Other threads.                                                          *)
(***************************************************************************)

\* Control::interrupt, under the slot's lock: the flag, then the bell.
SetFlag ==
    /\ flag' = TRUE
    /\ ringing' = TRUE
    /\ stops' = stops \union {turn}

Interrupt ==
    /\ SlotFree
    /\ slot \in {"away", "closing"}
    /\ SetFlag
    /\ UNCHANGED <<place, bell, asked, holder, processes, settled, delivered>>

\* A close that finds a turn under way has it stopped, and waits.
CloseAway ==
    /\ SlotFree
    /\ slot = "away"
    /\ slot' = "closing"
    /\ SetFlag
    /\ UNCHANGED <<place, bell, asked, pc, ending, cancelling, host, turn, processes, settled,
                   delivered>>

\* notify_one keeps a permit where nobody waits; the variation,
\* notify_waiters, keeps none.
RingWaiting ==
    /\ ringing
    /\ ringing' = FALSE
    /\ bell' = (pc = "exchange")
    /\ UNCHANGED <<place, flag, asked, holder, processes, history>>
Ring ==
    /\ ringing
    /\ ringing' = FALSE
    /\ bell' = TRUE
    /\ UNCHANGED <<place, flag, asked, holder, processes, history>>

\* Control::decide: a place in the queue first, then settled and sent under
\* the table's lock.  The variation reserves no place.
DecideUnreserved(q) ==
    /\ q \in open
    /\ open' = open \ {q}
    /\ queue' = IF Len(queue) < Limit THEN Append(queue, q) ELSE queue
    /\ settled' = settled \union {q}
    /\ UNCHANGED <<place, bells, table, questions, holder, processes, stops, delivered>>
Decide(q) ==
    /\ Len(queue) < Limit
    /\ q \in open
    /\ open' = open \ {q}
    /\ queue' = Append(queue, q)
    /\ settled' = settled \union {q}
    /\ UNCHANGED <<place, bells, table, questions, holder, processes, stops, delivered>>

\* A program may end whenever it likes.
Exits(p) ==
    /\ alive' = alive \ {p}
    /\ UNCHANGED <<place, bells, asked, holder, step, process, child, program, starts, history>>

(***************************************************************************)
(* A sign-in step: Control::hold around a child of its own.                *)
(***************************************************************************)
HoldLooks ==
    /\ step = "none"
    /\ starts < MaxStarts
    /\ ~unstopped
    /\ step' = "looked"
    /\ UNCHANGED <<place, bells, asked, holder, process, child, alive, program, starts,
                   history>>

\* Refused as busy, or the place is taken and the child started.
HoldTakes ==
    /\ step = "looked"
    /\ running' = TRUE
    /\ IF running
       THEN step' = "none" /\ UNCHANGED <<child, alive, starts>>
       ELSE /\ step' = "holding"
            /\ starts < MaxStarts
            /\ starts' = starts + 1
            /\ child' = starts + 1
            /\ alive' = alive \union {starts + 1}
    /\ UNCHANGED <<unstopped, bells, asked, holder, process, program, history>>

\* Holding::drop: given back where the child is known to have ended, with all
\* that it started.
HoldingEnds ==
    /\ step = "holding"
    /\ step' = "none"
    /\ \/ alive' = alive \ {child} /\ running' = FALSE /\ UNCHANGED unstopped
       \/ unstopped' = TRUE /\ UNCHANGED <<alive, running>>
    /\ UNCHANGED <<bells, asked, holder, process, child, program, starts, history>>

Launch ==
    LaunchLooks \/ LaunchTakes \/ LaunchRests \/ Relaunch \/ LaunchEnds \/ ProcessStarts
    \/ UnspokenEnds

Turn ==
    Begin \/ Empty \/ Answer \/ EndTable \/ Rest \/ FinishEnds \/ Return \/ StopFinishes
    \/ StopEnds \/ Closes

Next ==
    \/ Launch
    \/ Prompt
    \/ Turn
    \/ Heed \/ Unheeded
    \/ Ask \/ ProgramEnds \/ Lost
    \/ Abandon \/ FinishAbandoned
    \/ PromptSpent
    \/ Close
    \/ Retire
    \/ Interrupt
    \/ CloseAway
    \/ Ring
    \/ \E q \in open : Decide(q)
    \/ \E p \in alive : Exits(p)
    \/ HoldLooks \/ HoldTakes \/ HoldingEnds

\* The turn's task is polled, and looks at its bell before a frame; the grace
\* it gives a stop runs out; an interrupt that set the flag rings.  The slot's
\* lock is had in the end, however often the reader interrupts.
Fairness ==
    /\ WF_vars(Turn) /\ WF_vars(Heed) /\ WF_vars(Unheeded) /\ WF_vars(Ring)
    /\ SF_vars(Return) /\ SF_vars(Closes)

Spec == Init /\ [][Next]_vars /\ Fairness

(***************************************************************************)
(* Properties.                                                             *)
(***************************************************************************)

\* Every variable stays what it is declared to be, what is open and what is
\* on its way within PENDINGS.
TypeOK ==
    /\ running \in BOOLEAN /\ unstopped \in BOOLEAN
    /\ flag \in BOOLEAN /\ bell \in BOOLEAN /\ ringing \in BOOLEAN
    /\ table \in 0..MaxTurns /\ turn \in 0..MaxTurns
    /\ open \subseteq Question /\ Cardinality(open) <= Limit
    /\ queue \in Seq(Question) /\ Len(queue) <= Limit
    /\ slot \in {"none", "idle", "away", "closing", "spent", "closed", "unstopped"}
    /\ pc \in {"free", "looked", "taken", "rested", "starting", "unspoken", "prompted",
               "emptying", "exchange", "ended", "resting", "finishing", "returning",
               "stopping", "stopped", "left"}
    /\ ending \in {"none", "ended", "unheeded", "lost", "dropped"}
    /\ cancelling \in BOOLEAN
    /\ host \in {"none", "live", "stopping", "confirmed", "unreaped"}
    /\ step \in {"none", "looked", "holding"}
    /\ process \in 0..MaxStarts /\ child \in 0..MaxStarts /\ starts \in 0..MaxStarts
    /\ alive \subseteq 1..MaxStarts
    /\ program \in {"between", "working", "ended"}
    /\ questions \in 0..MaxQuestions
    /\ stops \subseteq 0..MaxTurns
    /\ settled \subseteq Question
    /\ delivered \in Seq([question : Question, turn : 1..MaxTurns])

\* No process of an agent is started while another may still be running: the
\* place is held for as long as one is not known to have ended, through a
\* launch that failed, a stop that was abandoned or refused to answer, and a
\* sign-in beside it (host.rs:33-36).
OneProcess == \A p, q \in alive : p = q

\* A place given back is a process known to have ended, so that a run closed
\* without an error has left nothing running (external.rs:25-28).
FreePlaceIsQuiet == (~running => alive = {}) /\ (slot = "closed" => process \notin alive)

\* A decision is said to the program only in the turn whose question it
\* answers, and once.
DecisionsInTheirTurn ==
    /\ \A i \in DOMAIN delivered : delivered[i].question.turn = delivered[i].turn
    /\ \A i, j \in DOMAIN delivered :
          delivered[i].question = delivered[j].question => i = j

\* A decision that was accepted is said to the program or on its way to it, for
\* as long as its turn takes any (host.rs:404-407).
AcceptedIsOnItsWay ==
    pc = "exchange" =>
        \A q \in settled : q.turn = turn =>
            \/ \E i \in DOMAIN queue : queue[i] = q
            \/ \E i \in DOMAIN delivered : delivered[i].question = q

\* A turn is told to stop only where a stop was asked for while it was under
\* way: one asked for as the turn before it ended stops nothing.
StopStaysInItsTurn == cancelling => turn \in stops

\* A turn begins only on a program that ended its last one: never on one left
\* in the middle of an answer, or stopped.
TurnsDoNotOverlap == [][turn' # turn => program = "between" /\ host = "live"]_vars

\* A turn that is asked to stop gives the run back, whatever the program does.
StopEndsTheTurn == (flag /\ slot \in {"away", "closing"}) ~> slot \notin {"away", "closing"}
=============================================================================
