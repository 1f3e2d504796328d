------------------------------ MODULE Cancel ------------------------------
(***************************************************************************)
(* Cancellation tokens and the races that wait under them.  A request      *)
(* raises a flag and then rings whoever listens: two steps, on any thread. *)
(* A race listens to its token and to every ancestor before it first looks *)
(* at a flag, then asks its work, looks at the flags one by one, hears its *)
(* listeners one by one, sets a timer, and sleeps until something wakes    *)
(* it.  tokio's Notify and its tasks are external: a ring reaches every    *)
(* listener enabled before it, and wakes those that were polled.           *)
(***************************************************************************)
EXTENDS Naturals, Sequences

CONSTANTS
    Tokens,    \* cancellation tokens
    Lineage,   \* Lineage[t]: the token, its parent, and so on up
    Due,       \* Due[t]: the instants at which its deadline passes, at most one
    Racers,    \* the races
    TokenOf,   \* TokenOf[r]: the token a race waits under
    MaxNow     \* bound: how far the clock goes, for TLC

ASSUME LineageAssumption ==
    /\ Lineage \in [Tokens -> Seq(Tokens)]
    /\ \A t \in Tokens : Len(Lineage[t]) > 0 /\ Lineage[t][1] = t
    /\ \A t \in Tokens : \A i, j \in DOMAIN Lineage[t] :
          Lineage[t][i] = Lineage[t][j] => i = j
ASSUME RacersAssumption == TokenOf \in [Racers -> Tokens]
ASSUME DueAssumption == Due \in [Tokens -> SUBSET Nat] /\ MaxNow \in Nat

VARIABLES
    flag,      \* State.requested of each token
    ringing,   \* the tokens a request has raised and not yet rung
    now,       \* the clock
    ready,     \* the races whose work would answer if asked
    atOnce,    \* history: the races whose work had its answer from the first
    pc,        \* where each race is
    at,        \* which of its lineage it is at
    heard,     \* its listeners: "off", "enabled", "polled", "rung"
    stirred,   \* the race's `woken`: a listener answered in this round
    woken,     \* the race's task is to be polled again
    timer      \* the instant its timer is set for, in a set

raceVars == <<atOnce, pc, at, heard, stirred, timer>>
cancelVars == <<flag, ringing, now, ready, raceVars, woken>>

Up(r) == Lineage[TokenOf[r]]
Above == [r \in Racers |-> {Up(r)[i] : i \in DOMAIN Up(r)}]
Past(t) == \E d \in Due[t] : now >= d
Deadlines(r) == UNION {Due[t] : t \in Above[r]}
Earliest(r) == CHOOSE d \in Deadlines(r) : \A e \in Deadlines(r) : d <= e

Awake == {"listening", "asking", "looking", "hearing", "timing"}
Over == {"answered", "stopped", "dropped"}
Racing(r) == pc[r] \in Awake \union {"waiting"}
Silent == [t \in Tokens |-> "off"]

CancelInit ==
    /\ flag = [t \in Tokens |-> FALSE]
    /\ ringing = {}
    /\ now = 0
    /\ ready \in SUBSET Racers
    /\ atOnce = {}
    /\ pc = [r \in Racers |-> "idle"]
    /\ at = [r \in Racers |-> 1]
    /\ heard = [r \in Racers |-> Silent]
    /\ stirred = [r \in Racers |-> FALSE]
    /\ woken = [r \in Racers |-> FALSE]
    /\ timer = [r \in Racers |-> {}]

(***************************************************************************)
(* Whoever asks for a stop, and the clock.                                 *)
(***************************************************************************)

\* Cancel::request, first half.
Request(t) ==
    /\ flag' = [flag EXCEPT ![t] = TRUE]
    /\ ringing' = ringing \union {t}
    /\ UNCHANGED <<now, ready, raceVars, woken>>

\* notify_waiters: every listener hears it, and the polled ones wake.
Ring(t) ==
    /\ t \in ringing
    /\ ringing' = ringing \ {t}
    /\ heard' = [r \in Racers |-> IF heard[r][t] \in {"enabled", "polled"}
                                  THEN [heard[r] EXCEPT ![t] = "rung"] ELSE heard[r]]
    /\ woken' = [r \in Racers |-> woken[r] \/ heard[r][t] = "polled"]
    /\ UNCHANGED <<flag, now, ready, atOnce, pc, at, stirred, timer>>

\* Cancel::reset.
Reset(t) ==
    /\ flag' = [flag EXCEPT ![t] = FALSE]
    /\ UNCHANGED <<ringing, now, ready, raceVars, woken>>

\* Time passes, and wakes the races whose timers it reaches.
Tick ==
    /\ now < MaxNow
    /\ now' = now + 1
    /\ woken' = [r \in Racers |-> woken[r] \/ now + 1 \in timer[r]]
    /\ UNCHANGED <<flag, ringing, ready, raceVars>>

\* A race's work has its answer, and wakes the race.
Readies(r) ==
    /\ r \notin ready
    /\ ready' = ready \union {r}
    /\ woken' = [woken EXCEPT ![r] = TRUE]
    /\ UNCHANGED <<flag, ringing, now, raceVars>>

(***************************************************************************)
(* Cancel::race.                                                           *)
(***************************************************************************)

Goes(r, to) == pc' = [pc EXCEPT ![r] = to] /\ at' = [at EXCEPT ![r] = 1]
Further(r) == pc' = pc /\ at' = [at EXCEPT ![r] = @ + 1]
Last(r) == at[r] = Len(Up(r))
Token(r) == Up(r)[at[r]]

\* A race that ends drops its listeners and its timer.
Ends(r, how) ==
    /\ Goes(r, how)
    /\ heard' = [heard EXCEPT ![r] = Silent]
    /\ stirred' = [stirred EXCEPT ![r] = FALSE]
    /\ timer' = [timer EXCEPT ![r] = {}]

\* The race is polled for the first time.
Begin(r) ==
    /\ pc[r] = "idle"
    /\ Goes(r, "listening")
    /\ atOnce' = IF r \in ready THEN atOnce \union {r} ELSE atOnce
    /\ UNCHANGED <<flag, ringing, now, ready, heard, stirred, woken, timer>>

\* heard: a listener for one token of the lineage, enabled.
Listen(r) ==
    /\ pc[r] = "listening"
    /\ heard' = [heard EXCEPT ![r][Token(r)] = "enabled"]
    /\ IF Last(r) THEN Goes(r, "asking") ELSE Further(r)
    /\ UNCHANGED <<flag, ringing, now, ready, atOnce, stirred, woken, timer>>

\* The work is asked first.
Ask(r) ==
    /\ pc[r] = "asking"
    /\ IF r \in ready
       THEN Ends(r, "answered")
       ELSE Goes(r, "looking") /\ UNCHANGED <<heard, stirred, timer>>
    /\ UNCHANGED <<flag, ringing, now, ready, atOnce, woken>>

\* requested: this token's flag and deadline, then its parent's.  The
\* variation looks at the token's own only.
LookAtOwn(r) ==
    /\ pc[r] = "looking"
    /\ IF flag[Token(r)] \/ Past(Token(r))
       THEN Ends(r, "stopped")
       ELSE Goes(r, "hearing") /\ UNCHANGED <<heard, stirred, timer>>
    /\ UNCHANGED <<flag, ringing, now, ready, atOnce, woken>>
Look(r) ==
    /\ pc[r] = "looking"
    /\ IF flag[Token(r)] \/ Past(Token(r))
       THEN Ends(r, "stopped")
       ELSE /\ IF Last(r) THEN Goes(r, "hearing") ELSE Further(r)
            /\ UNCHANGED <<heard, stirred, timer>>
    /\ UNCHANGED <<flag, ringing, now, ready, atOnce, woken>>

\* A listener that was rung is made again and the race goes round once more;
\* another is polled, so that a ring wakes the race.
Hear(r) ==
    LET stir == stirred[r] \/ heard[r][Token(r)] = "rung" IN
    /\ pc[r] = "hearing"
    /\ heard' = [heard EXCEPT ![r][Token(r)] = IF @ = "rung" THEN "enabled" ELSE "polled"]
    /\ IF Last(r)
       THEN Goes(r, IF stir THEN "asking" ELSE "timing") /\ stirred' = [stirred EXCEPT ![r] = FALSE]
       ELSE Further(r) /\ stirred' = [stirred EXCEPT ![r] = stir]
    /\ UNCHANGED <<flag, ringing, now, ready, atOnce, woken, timer>>

\* The timer for the earliest deadline above, where there is one: it sleeps
\* until then, and where it is past, the race goes round once more.
SetTimer(r) ==
    /\ pc[r] = "timing"
    /\ IF Deadlines(r) = {}
       THEN Goes(r, "waiting") /\ UNCHANGED timer
       ELSE IF now >= Earliest(r)
            THEN Goes(r, "asking") /\ timer' = [timer EXCEPT ![r] = {}]
            ELSE Goes(r, "waiting") /\ timer' = [timer EXCEPT ![r] = {Earliest(r)}]
    /\ UNCHANGED <<flag, ringing, now, ready, atOnce, heard, stirred, woken>>

\* The sleeping race was woken, and is polled again.
Wake(r) ==
    /\ pc[r] = "waiting"
    /\ woken[r]
    /\ woken' = [woken EXCEPT ![r] = FALSE]
    /\ Goes(r, "asking")
    /\ UNCHANGED <<flag, ringing, now, ready, atOnce, heard, stirred, timer>>

\* The race is dropped before it ended.
Dropped(r) ==
    /\ Racing(r) \/ pc[r] = "idle"
    /\ Ends(r, "dropped")
    /\ UNCHANGED <<flag, ringing, now, ready, atOnce, woken>>

\* What one poll of a race does.
Poll(r) == Listen(r) \/ Ask(r) \/ Look(r) \/ Hear(r) \/ SetTimer(r) \/ Wake(r)

(***************************************************************************)
(* Properties.                                                             *)
(***************************************************************************)

\* Every variable stays what it is declared to be.
CancelTypeOK ==
    /\ flag \in [Tokens -> BOOLEAN]
    /\ ringing \in SUBSET Tokens
    /\ now \in 0..MaxNow
    /\ ready \in SUBSET Racers /\ atOnce \in SUBSET Racers
    /\ pc \in [Racers -> Awake \union Over \union {"idle", "waiting"}]
    /\ at \in [Racers -> Nat]
    /\ \A r \in Racers : at[r] \in DOMAIN Up(r)
    /\ heard \in [Racers -> [Tokens -> {"off", "enabled", "polled", "rung"}]]
    /\ stirred \in [Racers -> BOOLEAN]
    /\ woken \in [Racers -> BOOLEAN]
    /\ timer \in [Racers -> SUBSET Nat]

\* A race that sleeps with nothing about to wake it sleeps over no stop: no
\* token above it is requested but one whose ring is still to come, its work
\* has no answer, and its timer is set for every deadline that is to come
\* (cancel.rs:181-183, :244: a request made between the look at the flag and
\* the wait still wakes it).
NoLostWake ==
    \A r \in Racers : pc[r] = "waiting" /\ ~woken[r] =>
        /\ r \notin ready
        /\ \A t \in Above[r] : flag[t] => t \in ringing
        /\ \A d \in Deadlines(r) : now < d
=============================================================================
