------------------------------- MODULE Stop -------------------------------
(***************************************************************************)
(* What waiting under a cancellation token promises, whatever wakes it: a  *)
(* race ends with its work's answer once there is one, or stopped once a   *)
(* stop is asked for, and never goes on for ever beside either.  Cancel is *)
(* the code that keeps it.                                                 *)
(***************************************************************************)
EXTENDS Naturals

CONSTANTS
    Racers,   \* the races
    Polled,   \* those of them that whoever owns them goes on asking
    Tokens,   \* cancellation tokens
    Above,    \* Above[r]: the token a race waits under, and its ancestors
    Due       \* Due[t]: the instants at which a token's deadline passes, at most one

VARIABLES
    flag,     \* which tokens have been requested
    now,      \* the clock
    ready,    \* the races whose work has its answer
    atOnce,   \* the races whose work had it when they were first asked
    outcome   \* what each race came to

vars == <<flag, now, ready, atOnce, outcome>>

Past(t) == \E d \in Due[t] : now >= d
Asked(r) == \E t \in Above[r] : flag[t] \/ Past(t)

Init ==
    /\ flag = [t \in Tokens |-> FALSE]
    /\ now = 0
    /\ ready \in SUBSET Racers
    /\ atOnce = {}
    /\ outcome = [r \in Racers |-> "idle"]

Request(t) == flag' = [flag EXCEPT ![t] = TRUE] /\ UNCHANGED <<now, ready, atOnce, outcome>>
Reset(t) == flag' = [flag EXCEPT ![t] = FALSE] /\ UNCHANGED <<now, ready, atOnce, outcome>>
Tick == now' = now + 1 /\ UNCHANGED <<flag, ready, atOnce, outcome>>
Readies(r) == ready' = ready \union {r} /\ UNCHANGED <<flag, now, atOnce, outcome>>

Ends(r, how) == outcome' = [outcome EXCEPT ![r] = how]

Begin(r) ==
    /\ outcome[r] = "idle"
    /\ Ends(r, "racing")
    /\ atOnce' = IF r \in ready THEN atOnce \union {r} ELSE atOnce
    /\ UNCHANGED <<flag, now, ready>>

\* The work's answer is handed back, whether or not a stop was asked for.
Answer(r) ==
    /\ outcome[r] = "racing"
    /\ r \in ready
    /\ Ends(r, "answered")
    /\ UNCHANGED <<flag, now, ready, atOnce>>

\* The stop wins, but never against work that answered when first asked.
GiveUp(r) ==
    /\ outcome[r] = "racing"
    /\ Asked(r)
    /\ r \notin atOnce
    /\ Ends(r, "stopped")
    /\ UNCHANGED <<flag, now, ready, atOnce>>

\* Whoever owns the race drops it, or it unwinds.
Drop(r) ==
    /\ outcome[r] \in {"idle", "racing"}
    /\ Ends(r, "dropped")
    /\ UNCHANGED <<flag, now, ready, atOnce>>

Next ==
    \/ \E t \in Tokens : Request(t) \/ Reset(t)
    \/ Tick
    \/ \E r \in Racers : Readies(r) \/ Begin(r) \/ Answer(r) \/ GiveUp(r) \/ Drop(r)

\* No race goes on beside an answer that is there or a stop that stays asked
\* for, so long as somebody asks it.
Overdue(r) == outcome[r] = "racing" /\ (r \in ready \/ Asked(r))
Heeded == \A r \in Polled : []<>~Overdue(r)

Spec == Init /\ [][Next]_vars /\ Heeded
=============================================================================
