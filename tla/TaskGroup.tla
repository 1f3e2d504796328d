----------------------------- MODULE TaskGroup -----------------------------
(***************************************************************************)
(* A group of tasks, each of which races its work against the group's     *)
(* token, in a turn that a key may stop.  The loop that reads the keyboard *)
(* resets the session's token before a turn, raises it at a press, and     *)
(* does nothing else in between; the group's owner spawns, reaps, and      *)
(* shuts the group down: it asks, waits, aborts, waits, and gives up.      *)
(* tokio's JoinSet is external: a task that ended stays in it until it is  *)
(* joined, and an abort takes a task where it waits.                       *)
(***************************************************************************)
EXTENDS Cancel, FiniteSets

CONSTANTS
    Session,    \* the session's token
    Own,        \* the group's, a child of it
    Limit,      \* Group.limit
    Stuck,      \* the racers whose polls may never come back
    MaxTurns,   \* bound: turns
    MaxPresses  \* bound: presses of the key

ASSUME TaskGroupAssumption ==
    /\ Session \in Tokens /\ Own \in Tokens /\ Session # Own
    /\ Stuck \subseteq Racers
    /\ Limit \in Nat /\ MaxTurns \in Nat /\ MaxPresses \in Nat

VARIABLES
    turns,      \* how many turns the keyboard loop has started
    presses,    \* how often its key was pressed
    owner,      \* where whoever owns the group is
    spawned,    \* history: the tasks that were admitted
    held,       \* those in the JoinSet
    aborted,    \* those told to abort
    unwound,    \* the ended ones that came apart
    ended,      \* the ends collected, of each task
    inTime      \* history: the tasks that had ended at the last deadline

groupVars == <<turns, presses, owner, spawned, held, aborted, unwound, ended, inTime>>
vars == <<cancelVars, groupVars>>

Shutting == {"asked", "grace", "taken", "collecting", "abandoning"}
Finished == {r \in Racers : pc[r] \in Over}
Polled == Racers \ Stuck

Init ==
    /\ CancelInit
    /\ turns = 0 /\ presses = 0
    /\ owner = "none"
    /\ spawned = {} /\ held = {} /\ aborted = {} /\ unwound = {} /\ inTime = {}
    /\ ended = [r \in Racers |-> {}]

(***************************************************************************)
(* The keyboard.                                                           *)
(***************************************************************************)

\* The token is reset before the thread of the turn exists.
StartTurn ==
    /\ turns < MaxTurns
    /\ owner \in {"none", "closed", "gone"}
    /\ Session \notin ringing
    /\ Reset(Session)
    /\ turns' = turns + 1
    /\ owner' = IF owner = "none" THEN "open" ELSE owner
    /\ UNCHANGED <<presses, spawned, held, aborted, unwound, ended, inTime>>

Press ==
    /\ turns > 0
    /\ presses < MaxPresses
    /\ Session \notin ringing
    /\ presses' = presses + 1
    /\ Request(Session)
    /\ UNCHANGED <<turns, owner, spawned, held, aborted, unwound, ended, inTime>>

PressRings == Ring(Session) /\ UNCHANGED groupVars

(***************************************************************************)
(* The group's owner.                                                      *)
(***************************************************************************)

\* ended: a join's answer, in the group's words.
End(r) == IF r \in unwound THEN "panicked"
          ELSE IF pc[r] = "dropped" THEN "stopped" ELSE "done"

Collecting(tasks) ==
    ended' = [r \in Racers |-> IF r \in tasks THEN ended[r] \union {End(r)} ELSE ended[r]]
Joins(tasks) == held' = held \ tasks /\ Collecting(tasks)

\* Group::spawn: what has finished is collected, and then the limit read.
\* The variation has the turn reset the token as its work begins.
Admits(r) ==
    /\ owner = "open"
    /\ r \notin spawned
    /\ Collecting(held \cap Finished)
    /\ LET left == held \ Finished
           admitted == IF Cardinality(left) < Limit THEN {r} ELSE {}
       IN  held' = left \union admitted /\ spawned' = spawned \union admitted
    /\ UNCHANGED <<turns, presses, owner, aborted, unwound, inTime>>
SpawnResetting(r) == Admits(r) /\ Reset(Session)
Spawn(r) == Admits(r) /\ UNCHANGED cancelVars

\* Group::shutdown asks, and rings.
Asks ==
    /\ owner = "open"
    /\ owner' = "asked"
    /\ Request(Own)
    /\ UNCHANGED <<turns, presses, spawned, held, aborted, unwound, ended, inTime>>

Rings ==
    /\ owner = "asked"
    /\ Ring(Own)
    /\ owner' = "grace"
    /\ UNCHANGED <<turns, presses, spawned, held, aborted, unwound, ended, inTime>>

\* reap_until: a task that has ended is joined.
Reap(r) ==
    /\ owner \in {"grace", "taken"}
    /\ r \in held \cap Finished
    /\ Joins({r})
    /\ UNCHANGED <<cancelVars, turns, presses, owner, spawned, aborted, unwound, inTime>>

Reaped ==
    /\ owner \in {"grace", "taken"}
    /\ held = {}
    /\ owner' = "closed"
    /\ UNCHANGED <<cancelVars, turns, presses, spawned, held, aborted, unwound, ended, inTime>>

\* The first grace is over: what is left is aborted.
Aborts ==
    /\ owner = "grace"
    /\ held # {}
    /\ owner' = "taken"
    /\ aborted' = aborted \union held
    /\ UNCHANGED <<cancelVars, turns, presses, spawned, held, unwound, ended, inTime>>

\* The second grace is over.  The variation waits for every task instead.
GraceEndsReaped ==
    /\ owner = "taken"
    /\ held # {} /\ held \subseteq Finished
    /\ owner' = "collecting"
    /\ inTime' = held \cap Finished
    /\ UNCHANGED <<cancelVars, turns, presses, spawned, held, aborted, unwound, ended>>
GraceEnds ==
    /\ owner = "taken"
    /\ held # {}
    /\ owner' = "collecting"
    /\ inTime' = held \cap Finished
    /\ UNCHANGED <<cancelVars, turns, presses, spawned, held, aborted, unwound, ended>>

\* What ended meanwhile is collected.  The variation leaves that out.
CollectNothing ==
    /\ owner = "collecting"
    /\ owner' = "abandoning"
    /\ UNCHANGED <<cancelVars, turns, presses, spawned, held, ended, aborted, unwound, inTime>>
Collect ==
    /\ owner = "collecting"
    /\ Joins(held \cap Finished)
    /\ owner' = "abandoning"
    /\ UNCHANGED <<cancelVars, turns, presses, spawned, aborted, unwound, inTime>>

\* The rest is told abandoned, and detached.
Abandon ==
    /\ owner = "abandoning"
    /\ ended' = [r \in Racers |-> IF r \in held THEN ended[r] \union {"abandoned"} ELSE ended[r]]
    /\ held' = {}
    /\ owner' = "closed"
    /\ UNCHANGED <<cancelVars, turns, presses, spawned, aborted, unwound, inTime>>

\* The group is dropped, or its shutdown is: what it holds is aborted.
Leave ==
    /\ owner \in {"open", "grace", "taken"}
    /\ owner' = "gone"
    /\ aborted' = aborted \union held
    /\ held' = {}
    /\ UNCHANGED <<cancelVars, turns, presses, spawned, unwound, ended, inTime>>

(***************************************************************************)
(* The tasks.                                                              *)
(***************************************************************************)

Starts(r) == r \in spawned /\ Begin(r) /\ UNCHANGED groupVars
Polls(r) == Poll(r) /\ UNCHANGED groupVars
WorkIsReady(r) == Readies(r) /\ UNCHANGED groupVars

\* An abort takes a task that is not being polled; its cleanup may unwind.
Taken(r) ==
    /\ r \in aborted
    /\ pc[r] \in {"idle", "waiting"}
    /\ Dropped(r)
    /\ unwound' \in {unwound, unwound \union {r}}
    /\ UNCHANGED <<turns, presses, owner, spawned, held, aborted, ended, inTime>>

\* A task comes apart while it is polled.
Unwinds(r) ==
    /\ pc[r] = "asking"
    /\ Dropped(r)
    /\ unwound' = unwound \union {r}
    /\ UNCHANGED <<turns, presses, owner, spawned, held, aborted, ended, inTime>>

TimePasses == Tick /\ UNCHANGED groupVars

Next ==
    \/ StartTurn \/ Press \/ PressRings \/ TimePasses
    \/ Asks \/ Rings \/ Reaped \/ Aborts \/ GraceEnds \/ Collect \/ Abandon \/ Leave
    \/ \E r \in Racers :
          Spawn(r) \/ Reap(r) \/ Starts(r) \/ Polls(r) \/ WorkIsReady(r) \/ Taken(r) \/ Unwinds(r)

\* Whoever raised a flag rings; the owner goes on with a shutdown, whose
\* graces end; the runtime polls what is awake, and drops what was aborted.
\* The owner is a task as well, and goes on only where a worker is free to poll
\* it when a task holds one in a poll that does not end (group.rs:225-229).  The
\* runtime this is run on has four, and its work never holds the last two
\* (crucible-app, runtime.rs:68-84); on one with none free the graces would not
\* end either.
Fairness ==
    /\ WF_vars(PressRings)
    /\ WF_vars(Rings \/ Reaped \/ Aborts \/ GraceEnds \/ Collect \/ Abandon)
    /\ \A r \in Racers \ Stuck : WF_vars(Starts(r) \/ Polls(r) \/ Taken(r))

Spec == Init /\ [][Next]_vars /\ Fairness

(***************************************************************************)
(* Properties.                                                             *)
(***************************************************************************)

\* Every variable stays what it is declared to be, and the group never holds
\* more than its limit.
TypeOK ==
    /\ CancelTypeOK
    /\ turns \in 0..MaxTurns /\ presses \in 0..MaxPresses
    /\ owner \in Shutting \union {"none", "open", "closed", "gone"}
    /\ spawned \subseteq Racers /\ aborted \subseteq spawned /\ inTime \subseteq spawned
    /\ unwound \subseteq Racers
    /\ held \subseteq spawned /\ Cardinality(held) <= Limit
    /\ ended \in [Racers -> SUBSET {"done", "panicked", "stopped", "abandoned"}]

\* A group that was shut down has told exactly one end of every task it
\* admitted, and a task that had ended when the last deadline passed is not
\* said to be abandoned (group.rs:3-8, :246-248).
EveryTaskIsAccountedFor ==
    owner = "closed" =>
        \A r \in Racers :
            /\ Cardinality(ended[r]) = (IF r \in spawned THEN 1 ELSE 0)
            /\ r \in inTime => ended[r] = {End(r)}

\* What a race came to, in the words of Stop.
Outcome == [r \in Racers |-> IF Racing(r) THEN "racing" ELSE pc[r]]
Races == INSTANCE Stop WITH outcome <- Outcome

\* The listeners, flags and timers of Cancel::race keep its promise: an answer
\* is handed back, a stop ends the race, work that answered at first is never
\* refused, and no race goes on for ever beside either (cancel.rs:154-168).
RacesStop == Races!Spec

\* A press in a turn ends every task of it that is polled: no reset takes the
\* press back before it is seen (cancel.rs:137-149).
PressStopsTheTurn ==
    \A r \in Polled :
        owner = "open" /\ flag[Session] /\ r \in spawned ~> pc[r] \in Over

\* A group that is shut down, or let go of, ends, whatever its tasks do, as long
\* as they leave its owner a worker, and with it each of its tasks that can be
\* taken (group.rs:14-17, :225-229).
GroupEnds ==
    /\ owner \in Shutting ~> owner \in {"closed", "gone"}
    /\ \A r \in Polled : r \in spawned /\ owner \in Shutting \union {"gone"} ~> pc[r] \in Over
=============================================================================
