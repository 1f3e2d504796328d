--------------------------- MODULE TaskGroupProofs ---------------------------
(***************************************************************************)
(* Theorems about Cancel and TaskGroup, for any tokens, deadlines and      *)
(* races, and groups of any limit: no wake-up is lost, each step is one    *)
(* that Stop allows, and a group that was shut down accounts for its tasks.*)
(***************************************************************************)
EXTENDS TaskGroup, FiniteSetTheorems, WellFoundedInduction, TLAPS

\* What may happen to tokens and races, whoever does it.
CancelNext ==
    \/ \E t \in Tokens : Request(t) \/ Ring(t) \/ Reset(t)
    \/ Tick
    \/ \E q \in Racers : Begin(q) \/ Poll(q) \/ Readies(q) \/ Dropped(q)

\* A stop that was asked for is still to ring, or the race's listener heard it,
\* or the race is to be polled again.
Told(r, t) == flag[t] => t \in ringing \/ heard[r][t] = "rung" \/ woken[r]

\* A listener that was polled hears the ring that is still to come.
Kept(r, t) == heard[r][t] = "polled" /\ (flag[t] => t \in ringing)

\* Before it looks at a flag a race listens; each token it has looked at it was
\* told of, and each it has heard it keeps, unless it is to go round again.
Listens(r) ==
    /\ pc[r] \in {"asking", "looking", "hearing", "timing", "waiting"} =>
          \A i \in DOMAIN Up(r) : heard[r][Up(r)[i]] # "off"
    /\ pc[r] = "listening" =>
          \A i \in DOMAIN Up(r) : i < at[r] => heard[r][Up(r)[i]] # "off"
Looks(r) ==
    /\ pc[r] = "looking" => \A i \in DOMAIN Up(r) : i < at[r] => Told(r, Up(r)[i])
    /\ pc[r] = "hearing" => \A i \in DOMAIN Up(r) :
          IF i < at[r] THEN stirred[r] \/ woken[r] \/ Kept(r, Up(r)[i]) ELSE Told(r, Up(r)[i])
    /\ pc[r] \in {"timing", "waiting"} =>
          woken[r] \/ \A i \in DOMAIN Up(r) : Kept(r, Up(r)[i])

\* The work was asked, and an answer since then wakes the race.
Works(r) ==
    /\ pc[r] \in {"looking", "hearing", "timing", "waiting"} =>
          r \notin atOnce /\ (r \in ready => woken[r])
    /\ r \in atOnce => r \in ready

\* The timer is set for the first of the deadlines above.
Timed(r) ==
    pc[r] = "waiting" =>
        \/ woken[r]
        \/ Deadlines(r) = {}
        \/ timer[r] = {Earliest(r)} /\ now < Earliest(r)

CancelInv ==
    /\ CancelTypeOK
    /\ \A r \in Racers : Listens(r) /\ Looks(r) /\ Works(r) /\ Timed(r)
-----------------------------------------------------------------------------
\* The lineage of a race's token.
LEMMA Lines ==
    ASSUME NEW r \in Racers
    PROVE  /\ Up(r) \in Seq(Tokens) /\ Len(Up(r)) \in Nat /\ Len(Up(r)) > 0
           /\ DOMAIN Up(r) = 1..Len(Up(r)) /\ 1 \in DOMAIN Up(r)
           /\ \A i \in DOMAIN Up(r) : Up(r)[i] \in Tokens
           /\ \A i, j \in DOMAIN Up(r) : Up(r)[i] = Up(r)[j] => i = j
<1>1. Lineage[TokenOf[r]] \in Seq(Tokens) /\ Len(Lineage[TokenOf[r]]) > 0
  BY LineageAssumption, RacersAssumption
<1>2. \A i, j \in DOMAIN Up(r) : Up(r)[i] = Up(r)[j] => i = j
  BY LineageAssumption, RacersAssumption DEF Up
<1> QED
  BY <1>1, <1>2 DEF Up

\* The type of everything about a race.
LEMMA RaceTypes ==
    ASSUME CancelTypeOK, NEW r \in Racers
    PROVE  /\ Token(r) \in Tokens /\ at[r] \in 1..Len(Up(r))
           /\ Token(r) = Up(r)[at[r]]
           /\ heard[r] \in [Tokens -> {"off", "enabled", "polled", "rung"}]
<1>1. at[r] \in DOMAIN Up(r)
  BY DEF CancelTypeOK
<1> QED
  BY <1>1, Lines DEF CancelTypeOK, Token

\* A number that a set of numbers has no smaller one than.
LEMMA Least ==
    ASSUME NEW S \in SUBSET Nat, S # {}
    PROVE  \E m \in S : \A n \in S : m <= n
<1> DEFINE R == {ss \in Nat \X Nat : ss[1] < ss[2]}
<1>1. OpToRel(<, Nat) = R
  BY DEF OpToRel
<1>2. IsWellFoundedOn(R, Nat)
  BY <1>1, NatLessThanWellFounded
<1> HIDE DEF R
<1>3. PICK m \in S : \A n \in S : ~(<<n, m>> \in R)
  BY <1>2, WFMin
<1>4. \A n \in S : m <= n
  <2> TAKE n \in S
  <2>1. n \in Nat /\ m \in Nat
    OBVIOUS
  <2>2. n < m => <<n, m>> \in R
    BY <2>1 DEF R
  <2> QED
    BY <1>3, <2>1, <2>2
<1> QED
  BY <1>4

\* The earliest deadline is one, where there is one.
LEMMA EarliestIs ==
    ASSUME NEW r \in Racers, Deadlines(r) # {}
    PROVE  /\ Earliest(r) \in Deadlines(r) /\ Earliest(r) \in Nat
           /\ \A d \in Deadlines(r) : Earliest(r) <= d
<1>1. Deadlines(r) \subseteq Nat
  BY DueAssumption, Lines DEF Deadlines, Above
<1>2. \E m \in Deadlines(r) : \A n \in Deadlines(r) : m <= n
  BY <1>1, Least
<1> QED
  BY <1>1, <1>2 DEF Earliest

\* A race that ends keeps its types.
LEMMA EndsTypes ==
    ASSUME CancelTypeOK, NEW q \in Racers, NEW how \in Over, Ends(q, how)
    PROVE  /\ pc' = [pc EXCEPT ![q] = how]
           /\ pc' \in [Racers -> Awake \union Over \union {"idle", "waiting"}]
           /\ at' \in [Racers -> Nat] /\ \A r \in Racers : at'[r] \in DOMAIN Up(r)
           /\ heard' \in [Racers -> [Tokens -> {"off", "enabled", "polled", "rung"}]]
           /\ stirred' \in [Racers -> BOOLEAN]
           /\ timer' \in [Racers -> SUBSET Nat]
<1>1. Silent \in [Tokens -> {"off", "enabled", "polled", "rung"}]
  BY DEF Silent
<1>2. 1 \in DOMAIN Up(q)
  BY Lines
<1> QED
  BY <1>1, <1>2 DEF Ends, Goes, CancelTypeOK

\* So does one that goes elsewhere.
LEMMA GoesTypes ==
    ASSUME CancelTypeOK, NEW q \in Racers,
           NEW to \in Awake \union Over \union {"idle", "waiting"}, Goes(q, to)
    PROVE  /\ pc' \in [Racers -> Awake \union Over \union {"idle", "waiting"}]
           /\ at' \in [Racers -> Nat] /\ \A r \in Racers : at'[r] \in DOMAIN Up(r)
           /\ pc'[q] = to /\ at'[q] = 1
           /\ \A r \in Racers : r # q => pc'[r] = pc[r] /\ at'[r] = at[r]
BY Lines DEF Goes, CancelTypeOK

\* And one that goes on to the next of its lineage.
LEMMA FurtherTypes ==
    ASSUME CancelTypeOK, NEW q \in Racers, Further(q), ~Last(q)
    PROVE  /\ pc' \in [Racers -> Awake \union Over \union {"idle", "waiting"}]
           /\ at' \in [Racers -> Nat] /\ \A r \in Racers : at'[r] \in DOMAIN Up(r)
           /\ pc'[q] = pc[q] /\ at'[q] = at[q] + 1
           /\ \A r \in Racers : r # q => pc'[r] = pc[r] /\ at'[r] = at[r]
<1>1. at[q] + 1 \in DOMAIN Up(q) /\ at[q] + 1 \in Nat
  BY Lines, RaceTypes DEF Last
<1> QED
  BY <1>1 DEF Further, CancelTypeOK

\* Every step of tokens and races keeps their types.
LEMMA CancelTypes == ASSUME CancelTypeOK, [CancelNext]_cancelVars PROVE CancelTypeOK'
<1> USE DEF raceVars
<1>1. ASSUME NEW t \in Tokens, Request(t) PROVE CancelTypeOK'
  BY <1>1 DEF Request, CancelTypeOK
<1>2. ASSUME NEW t \in Tokens, Ring(t) PROVE CancelTypeOK'
  BY <1>2 DEF Ring, CancelTypeOK
<1>3. ASSUME NEW t \in Tokens, Reset(t) PROVE CancelTypeOK'
  BY <1>3 DEF Reset, CancelTypeOK
<1>4. CASE Tick
  <2>1. woken' \in [Racers -> BOOLEAN]
    BY <1>4 DEF Tick, CancelTypeOK
  <2>2. now' \in 0..MaxNow
    BY <1>4, DueAssumption DEF Tick, CancelTypeOK
  <2> QED
    BY <1>4, <2>1, <2>2 DEF Tick, CancelTypeOK
<1>5. ASSUME NEW q \in Racers, Begin(q) PROVE CancelTypeOK'
  <2>1. pc' \in [Racers -> Awake \union Over \union {"idle", "waiting"}]
        /\ at' \in [Racers -> Nat] /\ \A r \in Racers : at'[r] \in DOMAIN Up(r)
    BY <1>5, GoesTypes DEF Begin, Awake
  <2> QED
    BY <1>5, <2>1 DEF Begin, CancelTypeOK
<1>6. ASSUME NEW q \in Racers, Listen(q) PROVE CancelTypeOK'
  <2>1. pc' \in [Racers -> Awake \union Over \union {"idle", "waiting"}]
        /\ at' \in [Racers -> Nat] /\ \A r \in Racers : at'[r] \in DOMAIN Up(r)
    BY <1>6, GoesTypes, FurtherTypes DEF Listen, Awake
  <2> QED
    BY <1>6, <2>1 DEF Listen, CancelTypeOK
<1>7. ASSUME NEW q \in Racers, Ask(q) PROVE CancelTypeOK'
  <2>1. CASE q \in ready
    BY <1>7, <2>1, EndsTypes DEF Ask, CancelTypeOK, Over
  <2>2. CASE q \notin ready
    <3>1. Goes(q, "looking") /\ UNCHANGED <<heard, stirred, timer>>
      BY <1>7, <2>2 DEF Ask
    <3> QED
      BY <1>7, <3>1, GoesTypes DEF Ask, CancelTypeOK, Awake
  <2> QED
    BY <2>1, <2>2
<1>8. ASSUME NEW q \in Racers, Look(q) PROVE CancelTypeOK'
  <2>1. CASE Ends(q, "stopped")
    BY <1>8, <2>1, EndsTypes DEF Look, CancelTypeOK, Over
  <2>2. CASE (IF Last(q) THEN Goes(q, "hearing") ELSE Further(q))
             /\ UNCHANGED <<heard, stirred, timer>>
    <3>1. pc' \in [Racers -> Awake \union Over \union {"idle", "waiting"}]
          /\ at' \in [Racers -> Nat] /\ \A r \in Racers : at'[r] \in DOMAIN Up(r)
      BY <2>2, GoesTypes, FurtherTypes DEF Awake
    <3> QED
      BY <1>8, <2>2, <3>1 DEF Look, CancelTypeOK
  <2> QED
    BY <1>8, <2>1, <2>2 DEF Look
<1>9. ASSUME NEW q \in Racers, Hear(q) PROVE CancelTypeOK'
  <2> DEFINE stir == stirred[q] \/ heard[q][Token(q)] = "rung"
  <2>1. pc' \in [Racers -> Awake \union Over \union {"idle", "waiting"}]
        /\ at' \in [Racers -> Nat] /\ \A r \in Racers : at'[r] \in DOMAIN Up(r)
    <3>1. CASE Last(q)
      <4>1. Goes(q, "asking") \/ Goes(q, "timing")
        BY <1>9, <3>1 DEF Hear
      <4> QED
        BY <4>1, GoesTypes DEF Awake
    <3>2. CASE ~Last(q)
      BY <1>9, <3>2, FurtherTypes DEF Hear
    <3> QED
      BY <3>1, <3>2
  <2>2. stirred' = [stirred EXCEPT ![q] = FALSE] \/ stirred' = [stirred EXCEPT ![q] = stir]
    BY <1>9 DEF Hear
  <2>3. stirred' \in [Racers -> BOOLEAN]
    BY <2>2 DEF CancelTypeOK
  <2>4. heard' \in [Racers -> [Tokens -> {"off", "enabled", "polled", "rung"}]]
    BY <1>9 DEF Hear, CancelTypeOK
  <2> QED
    BY <1>9, <2>1, <2>3, <2>4 DEF Hear, CancelTypeOK
<1>10. ASSUME NEW q \in Racers, SetTimer(q) PROVE CancelTypeOK'
  <2>1. pc' \in [Racers -> Awake \union Over \union {"idle", "waiting"}]
        /\ at' \in [Racers -> Nat] /\ \A r \in Racers : at'[r] \in DOMAIN Up(r)
    <3>1. Goes(q, "asking") \/ Goes(q, "waiting")
      BY <1>10 DEF SetTimer
    <3> QED
      BY <3>1, GoesTypes DEF Awake
  <2>2. timer' \in [Racers -> SUBSET Nat]
    BY <1>10, EarliestIs DEF SetTimer, CancelTypeOK
  <2> QED
    BY <1>10, <2>1, <2>2 DEF SetTimer, CancelTypeOK
<1>11. ASSUME NEW q \in Racers, Wake(q) PROVE CancelTypeOK'
  <2>1. pc' \in [Racers -> Awake \union Over \union {"idle", "waiting"}]
        /\ at' \in [Racers -> Nat] /\ \A r \in Racers : at'[r] \in DOMAIN Up(r)
    BY <1>11, GoesTypes DEF Wake, Awake
  <2> QED
    BY <1>11, <2>1 DEF Wake, CancelTypeOK
<1>12. ASSUME NEW q \in Racers, Readies(q) PROVE CancelTypeOK'
  BY <1>12 DEF Readies, CancelTypeOK
<1>13. ASSUME NEW q \in Racers, Dropped(q) PROVE CancelTypeOK'
  BY <1>13, EndsTypes DEF Dropped, CancelTypeOK, Over
<1>14. CASE UNCHANGED cancelVars
  BY <1>14 DEF cancelVars, CancelTypeOK
<1> QED
  BY <1>1, <1>2, <1>3, <1>4, <1>5, <1>6, <1>7, <1>8, <1>9, <1>10, <1>11, <1>12, <1>13,
     <1>14 DEF CancelNext, Poll

\* Whoever asks for a stop, the clock, the work of any race and the steps of
\* another leave a race what it holds.
LEMMA LeftAlone ==
    ASSUME CancelInv, NEW r \in Racers,
           \/ \E t \in Tokens : Request(t) \/ Ring(t) \/ Reset(t)
           \/ Tick
           \/ \E q \in Racers : Readies(q)
           \/ \E q \in Racers : q # r /\ (Begin(q) \/ Poll(q) \/ Dropped(q))
           \/ UNCHANGED cancelVars
    PROVE  Listens(r)' /\ Looks(r)' /\ Works(r)' /\ Timed(r)'
<1> USE DEF raceVars
<1>i. Listens(r) /\ Looks(r) /\ Works(r) /\ Timed(r) /\ CancelTypeOK
  BY DEF CancelInv
<1>t. /\ heard[r] \in [Tokens -> {"off", "enabled", "polled", "rung"}]
      /\ \A i \in DOMAIN Up(r) : Up(r)[i] \in Tokens
      /\ flag \in [Tokens -> BOOLEAN] /\ woken \in [Racers -> BOOLEAN] /\ now \in Nat
      /\ heard \in [Racers -> [Tokens -> {"off", "enabled", "polled", "rung"}]]
  BY <1>i, RaceTypes, Lines, DueAssumption DEF CancelTypeOK
<1>k. ASSUME pc'[r] = pc[r], at'[r] = at[r], stirred'[r] = stirred[r], woken[r] => woken'[r],
             \A u \in Tokens : (Told(r, u) => Told(r, u)') /\ (Kept(r, u) => Kept(r, u)')
      PROVE  Looks(r)'
  <2>1. CASE pc[r] = "looking"
    BY <1>i, <1>t, <1>k, <2>1 DEF Looks
  <2>2. CASE pc[r] = "hearing"
    <3>1. \A i \in DOMAIN Up(r) :
             IF i < at[r] THEN stirred[r] \/ woken[r] \/ Kept(r, Up(r)[i]) ELSE Told(r, Up(r)[i])
      BY <1>i, <1>t, <1>k, <2>2 DEF Looks
    <3>2. \A i \in DOMAIN Up(r) :
             IF i < at'[r] THEN stirred'[r] \/ woken'[r] \/ Kept(r, Up(r)[i])'
             ELSE Told(r, Up(r)[i])'
      BY <1>t, <1>k, <3>1
    <3> QED
      BY <1>k, <2>2, <3>2 DEF Looks
  <2>3. CASE pc[r] \in {"timing", "waiting"}
    <3>1. woken'[r] \/ \A i \in DOMAIN Up(r) : Kept(r, Up(r)[i])'
      BY <1>i, <1>t, <1>k, <2>3 DEF Looks
    <3> QED
      BY <1>k, <2>3, <3>1 DEF Looks
  <2>4. CASE pc[r] \notin {"looking", "hearing", "timing", "waiting"}
    BY <1>i, <1>t, <1>k, <2>4 DEF Looks
  <2> QED
    BY <2>1, <2>2, <2>3, <2>4
<1>1. ASSUME NEW t \in Tokens, Request(t)
      PROVE  Listens(r)' /\ Looks(r)' /\ Works(r)' /\ Timed(r)'
  <2>1. UNCHANGED <<pc, at, heard, stirred, woken, timer, ready, atOnce, now>>
        /\ \A u \in Tokens : flag'[u] => flag[u] \/ u \in ringing'
    BY <1>t, <1>1 DEF Request
  <2>2. ringing \subseteq ringing'
    BY <1>1 DEF Request
  <2>3. \A u \in Tokens : (Told(r, u) => Told(r, u)') /\ (Kept(r, u) => Kept(r, u)')
    BY <1>t, <2>1, <2>2 DEF Told, Kept
  <2>4. Listens(r)' /\ Works(r)' /\ Timed(r)'
    BY <1>i, <2>1 DEF Listens, Works, Timed
  <2> QED
    BY <1>k, <2>1, <2>3, <2>4
<1>2. ASSUME NEW t \in Tokens, Reset(t)
      PROVE  Listens(r)' /\ Looks(r)' /\ Works(r)' /\ Timed(r)'
  <2>1. UNCHANGED <<pc, at, heard, stirred, woken, timer, ready, atOnce, now, ringing>>
        /\ \A u \in Tokens : flag'[u] => flag[u]
    BY <1>t, <1>2 DEF Reset
  <2>3. \A u \in Tokens : (Told(r, u) => Told(r, u)') /\ (Kept(r, u) => Kept(r, u)')
    BY <1>t, <2>1 DEF Told, Kept
  <2>4. Listens(r)' /\ Works(r)' /\ Timed(r)'
    BY <1>i, <2>1 DEF Listens, Works, Timed
  <2> QED
    BY <1>k, <2>1, <2>3, <2>4
<1>3. ASSUME NEW t \in Tokens, Ring(t)
      PROVE  Listens(r)' /\ Looks(r)' /\ Works(r)' /\ Timed(r)'
  <2>1. UNCHANGED <<pc, at, stirred, timer, ready, atOnce, now, flag>> /\ ringing' = ringing \ {t}
    BY <1>3 DEF Ring
  <2>2. heard'[r] = IF heard[r][t] \in {"enabled", "polled"} THEN [heard[r] EXCEPT ![t] = "rung"]
                    ELSE heard[r]
    BY <1>3 DEF Ring
  <2>3. woken'[r] = (woken[r] \/ heard[r][t] = "polled")
    BY <1>3 DEF Ring
  <2>4. \A u \in Tokens : u # t => heard'[r][u] = heard[r][u]
    BY <1>t, <2>2
  <2>5. heard[r][t] # "off" => heard'[r][t] = "rung"
    BY <1>t, <2>2
  <2>6. \A u \in Tokens : heard[r][u] # "off" => heard'[r][u] # "off"
    BY <2>4, <2>5
  <2>7. \A i \in DOMAIN Up(r) :
           heard[r][Up(r)[i]] # "off" /\ Told(r, Up(r)[i]) => Told(r, Up(r)[i])'
    BY <1>t, <2>1, <2>3, <2>4, <2>5 DEF Told
  <2>8. \A i \in DOMAIN Up(r) : Kept(r, Up(r)[i]) => woken'[r] \/ Kept(r, Up(r)[i])'
    BY <1>t, <2>1, <2>3, <2>4 DEF Kept
  <2>9. Listens(r)' /\ Works(r)' /\ Timed(r)'
    BY <1>i, <1>t, <2>1, <2>3, <2>6 DEF Listens, Works, Timed
  <2>10. Looks(r)'
    <3>1. CASE pc[r] = "looking"
      BY <1>i, <2>1, <2>7, <3>1 DEF Looks, Listens
    <3>2. CASE pc[r] = "hearing"
      BY <1>i, <2>1, <2>3, <2>7, <2>8, <3>2 DEF Looks, Listens
    <3>3. CASE pc[r] \in {"timing", "waiting"}
      BY <1>i, <2>1, <2>3, <2>8, <3>3 DEF Looks
    <3>4. CASE pc[r] \notin {"looking", "hearing", "timing", "waiting"}
      BY <2>1, <3>4 DEF Looks
    <3> QED
      BY <3>1, <3>2, <3>3, <3>4
  <2> QED
    BY <2>9, <2>10
<1>4. CASE Tick
  <2>1. UNCHANGED <<pc, at, heard, stirred, timer, ready, atOnce, flag, ringing>> /\ now' = now + 1
        /\ woken'[r] = (woken[r] \/ now + 1 \in timer[r])
    BY <1>4 DEF Tick
  <2>2. \A u \in Tokens : (Told(r, u) => Told(r, u)') /\ (Kept(r, u) => Kept(r, u)')
    BY <2>1 DEF Told, Kept
  <2>3. Listens(r)' /\ Works(r)'
    BY <1>i, <2>1 DEF Listens, Works
  <2>4. Looks(r)'
    BY <1>k, <2>1, <2>2
  <2>5. Timed(r)'
    <3>1. CASE timer[r] = {Earliest(r)} /\ now < Earliest(r) /\ Deadlines(r) # {}
      <4>1. Earliest(r) \in Nat
        BY <3>1, EarliestIs
      <4>2. now + 1 = Earliest(r) \/ now + 1 < Earliest(r)
        BY <1>t, <3>1, <4>1
      <4> QED
        BY <2>1, <3>1, <4>2 DEF Timed
    <3>2. CASE ~(timer[r] = {Earliest(r)} /\ now < Earliest(r)) \/ Deadlines(r) = {}
      BY <1>i, <2>1, <3>2 DEF Timed
    <3> QED
      BY <3>1, <3>2
  <2> QED
    BY <2>3, <2>4, <2>5
<1>5. ASSUME NEW q \in Racers, Readies(q)
      PROVE  Listens(r)' /\ Looks(r)' /\ Works(r)' /\ Timed(r)'
  <2>1. UNCHANGED <<pc, at, heard, stirred, timer, atOnce, flag, ringing, now>>
        /\ ready \subseteq ready' /\ (r \in ready' => r \in ready \/ woken'[r])
        /\ (woken[r] => woken'[r])
    BY <1>t, <1>5 DEF Readies
  <2>2. \A u \in Tokens : (Told(r, u) => Told(r, u)') /\ (Kept(r, u) => Kept(r, u)')
    BY <2>1 DEF Told, Kept
  <2>3. Listens(r)' /\ Works(r)' /\ Timed(r)'
    BY <1>i, <2>1 DEF Listens, Works, Timed
  <2> QED
    BY <1>k, <2>1, <2>2, <2>3
<1>6. CASE UNCHANGED cancelVars
  BY <1>i, <1>6 DEF cancelVars, Listens, Looks, Works, Timed, Told, Kept
<1>7. ASSUME NEW q \in Racers, q # r, Begin(q) \/ Poll(q) \/ Dropped(q)
      PROVE  Listens(r)' /\ Looks(r)' /\ Works(r)' /\ Timed(r)'
  <2>1. /\ pc'[r] = pc[r] /\ at'[r] = at[r] /\ heard'[r] = heard[r] /\ stirred'[r] = stirred[r]
        /\ woken'[r] = woken[r] /\ timer'[r] = timer[r] /\ (r \in atOnce' <=> r \in atOnce)
        /\ UNCHANGED <<flag, ringing, now, ready>>
    <3> USE <1>i, <1>7 DEF CancelTypeOK, Goes, Further, Ends
    <3>1. CASE Begin(q) \/ Dropped(q)
      BY <1>7, <3>1 DEF Begin, Dropped
    <3>2. CASE Listen(q)
      BY <1>7, <3>2 DEF Listen
    <3>3. CASE Ask(q)
      BY <1>7, <3>3 DEF Ask
    <3>4. CASE Look(q)
      BY <1>7, <3>4 DEF Look
    <3>5. CASE Hear(q)
      BY <1>7, <3>5 DEF Hear
    <3>6. CASE SetTimer(q) \/ Wake(q)
      BY <1>7, <3>6 DEF SetTimer, Wake
    <3> QED
      BY <1>7, <3>1, <3>2, <3>3, <3>4, <3>5, <3>6 DEF Poll
  <2>2. \A u \in Tokens : (Told(r, u) => Told(r, u)') /\ (Kept(r, u) => Kept(r, u)')
    BY <2>1 DEF Told, Kept
  <2>3. Looks(r)'
    BY <1>k, <2>1, <2>2
  <2> QED
    BY <1>i, <2>1, <2>3 DEF Listens, Works, Timed
<1> QED
  BY <1>1, <1>2, <1>3, <1>4, <1>5, <1>6, <1>7

\* A race's own step.
LEMMA OwnStep ==
    ASSUME CancelInv, NEW r \in Racers, Begin(r) \/ Poll(r) \/ Dropped(r)
    PROVE  Listens(r)' /\ Looks(r)' /\ Works(r)' /\ Timed(r)'
<1> USE DEF raceVars
<1>i. Listens(r) /\ Looks(r) /\ Works(r) /\ Timed(r) /\ CancelTypeOK
  BY DEF CancelInv
<1>t. /\ heard[r] \in [Tokens -> {"off", "enabled", "polled", "rung"}]
      /\ DOMAIN Up(r) = 1..Len(Up(r)) /\ Len(Up(r)) \in Nat /\ at[r] \in DOMAIN Up(r)
      /\ Token(r) = Up(r)[at[r]] /\ Token(r) \in Tokens
      /\ \A i \in DOMAIN Up(r) : Up(r)[i] \in Tokens
      /\ \A i, j \in DOMAIN Up(r) : Up(r)[i] = Up(r)[j] => i = j
      /\ flag \in [Tokens -> BOOLEAN] /\ woken \in [Racers -> BOOLEAN] /\ now \in Nat
      /\ heard \in [Racers -> [Tokens -> {"off", "enabled", "polled", "rung"}]]
  BY <1>i, RaceTypes, Lines, DueAssumption DEF CancelTypeOK
<1>o. \A how \in Over : Ends(r, how) => pc'[r] = how
  BY <1>i DEF Ends, Goes, CancelTypeOK
<1>g. \A to : Goes(r, to) => pc'[r] = to /\ at'[r] = 1
  BY <1>i DEF Goes, CancelTypeOK
<1>f. Further(r) => pc' = pc /\ at'[r] = at[r] + 1
  BY <1>i DEF Further, CancelTypeOK
<1>over. ASSUME pc'[r] \in Over, r \in atOnce => r \in ready, UNCHANGED <<atOnce, ready>>
         PROVE  Listens(r)' /\ Looks(r)' /\ Works(r)' /\ Timed(r)'
  BY <1>over DEF Listens, Looks, Works, Timed, Over
<1>1. CASE Begin(r)
  <2>1. pc'[r] = "listening" /\ at'[r] = 1 /\ (r \in atOnce' => r \in ready')
    BY <1>i, <1>1, <1>g DEF Begin, Works
  <2>2. \A i \in DOMAIN Up(r) : ~(i < 1)
    BY <1>t
  <2> QED
    BY <2>1, <2>2 DEF Listens, Looks, Works, Timed
<1>2. CASE Listen(r)
  <2>1. /\ UNCHANGED <<flag, ringing, now, ready, atOnce, stirred, woken, timer>>
        /\ pc[r] = "listening"
        /\ \A i \in DOMAIN Up(r) :
              heard'[r][Up(r)[i]] = IF i = at[r] THEN "enabled" ELSE heard[r][Up(r)[i]]
    BY <1>t, <1>2 DEF Listen
  <2>2. \A i \in DOMAIN Up(r) : i < at[r] + 1 => heard'[r][Up(r)[i]] # "off"
    BY <1>i, <1>t, <2>1 DEF Listens
  <2>3. CASE Last(r)
    <3>1. pc'[r] = "asking"
      BY <1>2, <1>g, <2>3 DEF Listen
    <3>2. \A i \in DOMAIN Up(r) : i < at[r] + 1
      BY <1>t, <2>3 DEF Last
    <3> QED
      BY <1>i, <2>1, <2>2, <3>1, <3>2 DEF Listens, Looks, Works, Timed
  <2>4. CASE ~Last(r)
    <3>1. pc'[r] = "listening" /\ at'[r] = at[r] + 1
      BY <1>2, <1>f, <2>1, <2>4 DEF Listen
    <3> QED
      BY <1>i, <2>1, <2>2, <3>1 DEF Listens, Looks, Works, Timed
  <2> QED
    BY <2>3, <2>4
<1>3. CASE Ask(r)
  <2>1. pc[r] = "asking" /\ UNCHANGED <<flag, ringing, now, ready, atOnce, woken>>
    BY <1>3 DEF Ask
  <2>2. CASE r \in ready
    BY <1>i, <1>o, <1>over, <1>3, <2>1, <2>2 DEF Ask, Over, Works
  <2>3. CASE r \notin ready
    <3>1. pc'[r] = "looking" /\ at'[r] = 1 /\ UNCHANGED <<heard, stirred, timer>>
      BY <1>3, <1>g, <2>3 DEF Ask
    <3>2. \A i \in DOMAIN Up(r) : ~(i < 1)
      BY <1>t
    <3> QED
      BY <1>i, <2>1, <2>3, <3>1, <3>2 DEF Listens, Looks, Works, Timed
  <2> QED
    BY <2>2, <2>3
<1>4. CASE Look(r)
  <2>1. pc[r] = "looking" /\ UNCHANGED <<flag, ringing, now, ready, atOnce, woken>>
    BY <1>4 DEF Look
  <2>2. CASE Ends(r, "stopped")
    BY <1>i, <1>o, <1>over, <2>1, <2>2 DEF Over, Works
  <2>3. CASE ~flag[Token(r)] /\ (IF Last(r) THEN Goes(r, "hearing") ELSE Further(r))
             /\ UNCHANGED <<heard, stirred, timer>>
    <3>1. \A i \in DOMAIN Up(r) : i < at[r] + 1 => Told(r, Up(r)[i])'
      BY <1>i, <1>t, <2>1, <2>3 DEF Looks, Told
    <3>2. CASE Last(r)
      <4>1. pc'[r] = "hearing" /\ at'[r] = 1
        BY <1>g, <2>3, <3>2
      <4>2. \A i \in DOMAIN Up(r) : i < at[r] + 1 /\ ~(i < 1)
        BY <1>t, <3>2 DEF Last
      <4> QED
        BY <1>i, <2>1, <2>3, <3>1, <4>1, <4>2 DEF Listens, Looks, Works, Timed
    <3>3. CASE ~Last(r)
      <4>1. pc'[r] = "looking" /\ at'[r] = at[r] + 1
        BY <1>f, <2>1, <2>3, <3>3
      <4> QED
        BY <1>i, <2>1, <2>3, <3>1, <4>1 DEF Listens, Looks, Works, Timed
    <3> QED
      BY <3>2, <3>3
  <2> QED
    BY <1>4, <2>2, <2>3 DEF Look
<1>5. CASE Hear(r)
  <2> DEFINE stir == stirred[r] \/ heard[r][Token(r)] = "rung"
  <2>1. /\ UNCHANGED <<flag, ringing, now, ready, atOnce, woken, timer>>
        /\ pc[r] = "hearing"
    BY <1>5 DEF Hear
  <2>2. \A i \in DOMAIN Up(r) :
           heard'[r][Up(r)[i]] = IF i # at[r] THEN heard[r][Up(r)[i]]
                                 ELSE IF heard[r][Up(r)[i]] = "rung" THEN "enabled" ELSE "polled"
    BY <1>t, <1>5 DEF Hear
  <2>3. \A i \in DOMAIN Up(r) : heard'[r][Up(r)[i]] # "off"
    BY <1>i, <2>1, <2>2 DEF Listens
  <2>4. \A i \in DOMAIN Up(r) : i < at[r] + 1 => stir \/ woken[r] \/ Kept(r, Up(r)[i])'
    <3> TAKE i \in DOMAIN Up(r)
    <3>1. CASE i < at[r]
      BY <1>i, <2>1, <2>2, <3>1 DEF Looks, Kept
    <3>2. CASE i = at[r]
      <4>1. Told(r, Up(r)[i])
        BY <1>i, <1>t, <2>1, <3>2 DEF Looks
      <4>2. ~stir => heard[r][Up(r)[i]] # "rung" /\ heard'[r][Up(r)[i]] = "polled"
        BY <1>t, <2>2, <3>2
      <4> QED
        BY <2>1, <4>1, <4>2 DEF Told, Kept
    <3> QED
      BY <1>t, <3>1, <3>2
  <2>5. CASE Last(r)
    <3>1. \A i \in DOMAIN Up(r) : i < at[r] + 1
      BY <1>t, <2>5 DEF Last
    <3>2. CASE stir
      <4>1. pc'[r] = "asking"
        BY <1>5, <1>g, <2>5, <3>2 DEF Hear
      <4> QED
        BY <1>i, <2>1, <2>3, <4>1 DEF Listens, Looks, Works, Timed
    <3>3. CASE ~stir
      <4>1. pc'[r] = "timing"
        BY <1>5, <1>g, <2>5, <3>3 DEF Hear
      <4>2. \A i \in DOMAIN Up(r) : woken[r] \/ Kept(r, Up(r)[i])'
        BY <2>4, <3>1, <3>3
      <4> QED
        BY <1>i, <2>1, <2>3, <4>1, <4>2 DEF Listens, Looks, Works, Timed
    <3> QED
      BY <3>2, <3>3
  <2>6. CASE ~Last(r)
    <3>1. pc'[r] = "hearing" /\ at'[r] = at[r] + 1
      BY <1>5, <1>f, <2>1, <2>6 DEF Hear
    <3>2. stirred'[r] = stir
      BY <1>i, <1>5, <2>6 DEF Hear, CancelTypeOK
    <3>3. \A i \in DOMAIN Up(r) : ~(i < at[r] + 1) => Told(r, Up(r)[i])'
      BY <1>i, <1>t, <2>1, <2>2 DEF Looks, Told
    <3>4. \A i \in DOMAIN Up(r) : i < at'[r] => stirred'[r] \/ woken'[r] \/ Kept(r, Up(r)[i])'
      BY <2>1, <2>4, <3>1, <3>2
    <3>5. Looks(r)'
      BY <3>1, <3>3, <3>4 DEF Looks
    <3> QED
      BY <1>i, <2>1, <2>3, <3>1, <3>5 DEF Listens, Works, Timed
  <2> QED
    BY <2>5, <2>6
<1>6. CASE SetTimer(r)
  <2>1. pc[r] = "timing" /\ UNCHANGED <<flag, ringing, now, ready, atOnce, heard, stirred, woken>>
    BY <1>6 DEF SetTimer
  <2>2. pc'[r] = "asking" \/ (pc'[r] = "waiting" /\ (Deadlines(r) = {}
                                  \/ (timer'[r] = {Earliest(r)} /\ now < Earliest(r))))
    <3>1. CASE Deadlines(r) = {}
      BY <1>6, <1>g, <3>1 DEF SetTimer
    <3>2. CASE Deadlines(r) # {} /\ now >= Earliest(r)
      BY <1>6, <1>g, <3>2 DEF SetTimer
    <3>3. CASE Deadlines(r) # {} /\ ~(now >= Earliest(r))
      <4>1. Goes(r, "waiting") /\ timer' = [timer EXCEPT ![r] = {Earliest(r)}]
        BY <1>6, <3>3 DEF SetTimer
      <4>2. timer'[r] = {Earliest(r)}
        BY <1>i, <4>1 DEF CancelTypeOK
      <4>3. now < Earliest(r)
        BY <1>t, <3>3, EarliestIs
      <4> QED
        BY <1>g, <4>1, <4>2, <4>3
    <3> QED
      BY <3>1, <3>2, <3>3
  <2> QED
    BY <1>i, <2>1, <2>2 DEF Listens, Looks, Works, Timed, Kept
<1>7. CASE Wake(r)
  <2>1. pc[r] = "waiting" /\ pc'[r] = "asking" /\ UNCHANGED <<heard, ready, atOnce>>
    BY <1>7, <1>g DEF Wake
  <2> QED
    BY <1>i, <2>1 DEF Listens, Looks, Works, Timed
<1>8. CASE Dropped(r)
  BY <1>i, <1>o, <1>over, <1>8 DEF Dropped, Over, Works
<1> QED
  BY <1>1, <1>2, <1>3, <1>4, <1>5, <1>6, <1>7, <1>8 DEF Poll

\* Every step of tokens and races keeps their invariant.
LEMMA CancelKeeps == ASSUME CancelInv, [CancelNext]_cancelVars PROVE CancelInv'
<1>1. CancelTypeOK'
  BY CancelTypes DEF CancelInv
<1>2. ASSUME NEW r \in Racers PROVE Listens(r)' /\ Looks(r)' /\ Works(r)' /\ Timed(r)'
  <2>1. ASSUME NEW q \in Racers, Begin(q) \/ Poll(q) \/ Dropped(q)
        PROVE  Listens(r)' /\ Looks(r)' /\ Works(r)' /\ Timed(r)'
    BY <2>1, LeftAlone, OwnStep
  <2> QED
    BY <2>1, LeftAlone DEF CancelNext
<1> QED
  BY <1>1, <1>2 DEF CancelInv

\* It holds at first.
LEMMA CancelStarts == CancelInit => CancelInv
<1> SUFFICES ASSUME CancelInit PROVE CancelInv
  OBVIOUS
<1>1. CancelTypeOK
  BY Lines, DueAssumption DEF CancelInit, CancelTypeOK, Silent
<1>2. \A r \in Racers : pc[r] = "idle" /\ r \notin atOnce
  BY DEF CancelInit
<1> QED
  BY <1>1, <1>2 DEF CancelInv, Listens, Looks, Works, Timed

\* It says that no wake-up is lost.
LEMMA NothingIsLost == CancelInv => NoLostWake
<1> SUFFICES ASSUME CancelInv, NEW r \in Racers, pc[r] = "waiting", ~woken[r]
             PROVE  /\ r \notin ready
                    /\ \A t \in Above[r] : flag[t] => t \in ringing
                    /\ \A d \in Deadlines(r) : now < d
  BY DEF NoLostWake
<1>1. Looks(r) /\ Works(r) /\ Timed(r) /\ now \in Nat
  BY DueAssumption DEF CancelInv, CancelTypeOK
<1>2. \A t \in Above[r] : flag[t] => t \in ringing
  BY <1>1 DEF Looks, Kept, Above
<1>3. \A d \in Deadlines(r) : now < d
  <2> TAKE d \in Deadlines(r)
  <2>1. d \in Nat
    BY DueAssumption, Lines DEF Deadlines, Above
  <2>2. now < Earliest(r)
    BY <1>1 DEF Timed
  <2> QED
    BY <1>1, <2>1, <2>2, EarliestIs
<1> QED
  BY <1>1, <1>2, <1>3 DEF Works

\* What a group's steps do to tokens and races.
LEMMA CancelSteps == ASSUME [Next]_vars PROVE [CancelNext]_cancelVars
<1> USE TaskGroupAssumption DEF CancelNext
<1>1. CASE StartTurn
  BY <1>1 DEF StartTurn
<1>2. CASE Press
  BY <1>2 DEF Press
<1>3. CASE PressRings
  BY <1>3 DEF PressRings
<1>4. CASE TimePasses
  BY <1>4 DEF TimePasses
<1>5. CASE Asks
  BY <1>5 DEF Asks
<1>6. CASE Rings
  BY <1>6 DEF Rings
<1>7. CASE Reaped
  BY <1>7 DEF Reaped, cancelVars, raceVars
<1>8. CASE Aborts
  BY <1>8 DEF Aborts, cancelVars, raceVars
<1>9. CASE GraceEnds
  BY <1>9 DEF GraceEnds, cancelVars, raceVars
<1>10. CASE Collect
  BY <1>10 DEF Collect, cancelVars, raceVars
<1>11. CASE Abandon
  BY <1>11 DEF Abandon, cancelVars, raceVars
<1>12. CASE Leave
  BY <1>12 DEF Leave, cancelVars, raceVars
<1>13. ASSUME NEW q \in Racers, Spawn(q) PROVE [CancelNext]_cancelVars
  BY <1>13 DEF Spawn, Admits, Collecting
<1>14. ASSUME NEW q \in Racers, Reap(q) PROVE [CancelNext]_cancelVars
  BY <1>14 DEF Reap, cancelVars, raceVars
<1>15. ASSUME NEW q \in Racers, Starts(q) PROVE [CancelNext]_cancelVars
  BY <1>15 DEF Starts
<1>16. ASSUME NEW q \in Racers, Polls(q) PROVE [CancelNext]_cancelVars
  BY <1>16 DEF Polls
<1>17. ASSUME NEW q \in Racers, WorkIsReady(q) PROVE [CancelNext]_cancelVars
  BY <1>17 DEF WorkIsReady
<1>18. ASSUME NEW q \in Racers, Taken(q) PROVE [CancelNext]_cancelVars
  BY <1>18 DEF Taken
<1>19. ASSUME NEW q \in Racers, Unwinds(q) PROVE [CancelNext]_cancelVars
  BY <1>19 DEF Unwinds
<1>20. CASE UNCHANGED vars
  BY <1>20 DEF vars
<1> QED
  BY <1>1, <1>2, <1>3, <1>4, <1>5, <1>6, <1>7, <1>8, <1>9, <1>10, <1>11, <1>12, <1>13,
     <1>14, <1>15, <1>16, <1>17, <1>18, <1>19, <1>20 DEF Next

\* For any tokens, deadlines and races, and any group over them, no wake-up is
\* lost: a race that sleeps sleeps over no stop.
THEOREM NoWakeIsLost == Spec => []NoLostWake
<1>1. Init => CancelInv
  BY CancelStarts DEF Init
<1>2. CancelInv /\ [Next]_vars => CancelInv'
  BY CancelKeeps, CancelSteps
<1> QED
  BY <1>1, <1>2, NothingIsLost, PTL DEF Spec
-----------------------------------------------------------------------------
\* How a race that goes elsewhere looks in the words of Stop.
LEMMA OutcomeGoes ==
    ASSUME CancelTypeOK, NEW q \in Racers, \A r \in Racers : r # q => pc'[r] = pc[r],
           pc' \in [Racers -> Awake \union Over \union {"idle", "waiting"}]
    PROVE  /\ pc'[q] \in Awake \union {"waiting"} => Outcome' = [Outcome EXCEPT ![q] = "racing"]
           /\ pc'[q] \in Over => Outcome' = [Outcome EXCEPT ![q] = pc'[q]]
           /\ pc[q] \in Awake \union {"waiting"} => Outcome[q] = "racing"
           /\ pc[q] \notin Awake \union {"waiting"} => Outcome[q] = pc[q]
BY DEF Outcome, Racing, CancelTypeOK, Awake, Over

\* A race that goes round stays in the race.
LEMMA OutcomeStays ==
    ASSUME CancelTypeOK, NEW q \in Racers, \A r \in Racers : r # q => pc'[r] = pc[r],
           pc' \in [Racers -> Awake \union Over \union {"idle", "waiting"}],
           pc[q] \in Awake \union {"waiting"}, pc'[q] \in Awake \union {"waiting"}
    PROVE  UNCHANGED Outcome
BY DEF Outcome, Racing, CancelTypeOK, Awake, Over

\* Every step of tokens and races is one of Stop's, or changes nothing there.
LEMMA StepsAreAllowed ==
    ASSUME CancelInv, [CancelNext]_cancelVars
    PROVE  [Races!Next]_Races!vars
<1> USE DEF raceVars, Races!vars
<1>i. CancelTypeOK /\ \A r \in Racers : Works(r)
  BY DEF CancelInv
<1>u. UNCHANGED pc => UNCHANGED Outcome
  BY DEF Outcome, Racing
<1>1. ASSUME NEW t \in Tokens, Request(t) PROVE Races!Next
  BY <1>1, <1>u DEF Request, Races!Next, Races!Request
<1>2. ASSUME NEW t \in Tokens, Reset(t) PROVE Races!Next
  BY <1>2, <1>u DEF Reset, Races!Next, Races!Reset
<1>3. ASSUME NEW t \in Tokens, Ring(t) PROVE UNCHANGED Races!vars
  BY <1>3, <1>u DEF Ring
<1>4. CASE Tick
  BY <1>4, <1>u DEF Tick, Races!Next, Races!Tick
<1>5. ASSUME NEW q \in Racers, Readies(q) PROVE Races!Next
  BY <1>5, <1>u DEF Readies, Races!Next, Races!Readies
<1>p. \A q \in Racers : \A to \in Awake \union Over \union {"waiting"} :
        Goes(q, to) => /\ pc' \in [Racers -> Awake \union Over \union {"idle", "waiting"}]
                       /\ pc'[q] = to
                       /\ \A r \in Racers : r # q => pc'[r] = pc[r]
  BY <1>i DEF Goes, CancelTypeOK
<1>6. ASSUME NEW q \in Racers, Begin(q) PROVE Races!Next
  <2>1. Goes(q, "listening") /\ pc[q] = "idle" /\ UNCHANGED <<flag, now, ready>>
        /\ atOnce' = IF q \in ready THEN atOnce \union {q} ELSE atOnce
    BY <1>6 DEF Begin
  <2>2. Outcome' = [Outcome EXCEPT ![q] = "racing"] /\ Outcome[q] = "idle"
    BY <1>i, <1>p, <2>1, OutcomeGoes DEF Awake
  <2> QED
    BY <2>1, <2>2 DEF Races!Next, Races!Begin, Races!Ends
<1>e. ASSUME NEW q \in Racers, NEW how \in Over, Ends(q, how)
      PROVE  Outcome' = [Outcome EXCEPT ![q] = how]
  BY <1>i, <1>p, <1>e, OutcomeGoes DEF Ends
<1>7. ASSUME NEW q \in Racers, Dropped(q) PROVE Races!Next
  <2>1. Outcome' = [Outcome EXCEPT ![q] = "dropped"]
    BY <1>e, <1>7 DEF Dropped, Over
  <2>2. Outcome[q] \in {"idle", "racing"}
    BY <1>i, <1>7 DEF Dropped, Outcome, Racing, CancelTypeOK
  <2> QED
    BY <1>7, <2>1, <2>2 DEF Dropped, Races!Next, Races!Drop, Races!Ends
<1>s. ASSUME NEW q \in Racers, pc[q] \in Awake \union {"waiting"},
             UNCHANGED pc \/ \E to \in Awake \union {"waiting"} : Goes(q, to),
             UNCHANGED <<flag, now, ready, atOnce>>
      PROVE  UNCHANGED Races!vars
  BY <1>i, <1>p, <1>u, <1>s, OutcomeStays
<1>8. ASSUME NEW q \in Racers, Listen(q) PROVE UNCHANGED Races!vars
  BY <1>s, <1>8 DEF Listen, Further, Awake
<1>9. ASSUME NEW q \in Racers, Ask(q) PROVE Races!Next \/ UNCHANGED Races!vars
  <2>1. CASE q \in ready
    <3>1. Outcome' = [Outcome EXCEPT ![q] = "answered"] /\ UNCHANGED <<flag, now, ready, atOnce>>
      BY <1>e, <1>9, <2>1 DEF Ask, Over
    <3>2. Outcome[q] = "racing"
      BY <1>9 DEF Ask, Outcome, Racing, Awake
    <3> QED
      BY <2>1, <3>1, <3>2 DEF Races!Next, Races!Answer, Races!Ends
  <2>2. CASE q \notin ready
    BY <1>s, <1>9, <2>2 DEF Ask, Awake
  <2> QED
    BY <2>1, <2>2
<1>10. ASSUME NEW q \in Racers, Look(q) PROVE Races!Next \/ UNCHANGED Races!vars
  <2>1. CASE flag[Token(q)] \/ Past(Token(q))
    <3>1. Outcome' = [Outcome EXCEPT ![q] = "stopped"] /\ UNCHANGED <<flag, now, ready, atOnce>>
      BY <1>e, <1>10, <2>1 DEF Look, Over
    <3>2. Outcome[q] = "racing" /\ q \notin atOnce
      BY <1>i, <1>10 DEF Look, Outcome, Racing, Awake, Works
    <3>3. Token(q) \in Above[q]
      BY <1>i, RaceTypes, Lines DEF Above
    <3>4. Races!Asked(q)
      BY <2>1, <3>3 DEF Races!Asked, Races!Past, Past
    <3> QED
      BY <3>1, <3>2, <3>4 DEF Races!Next, Races!GiveUp, Races!Ends
  <2>2. CASE ~(flag[Token(q)] \/ Past(Token(q)))
    BY <1>s, <1>10, <2>2 DEF Look, Further, Awake
  <2> QED
    BY <2>1, <2>2
<1>11. ASSUME NEW q \in Racers, Hear(q) PROVE UNCHANGED Races!vars
  <2>1. UNCHANGED pc \/ Goes(q, "asking") \/ Goes(q, "timing")
    BY <1>11 DEF Hear, Further
  <2> QED
    BY <1>s, <1>11, <2>1 DEF Hear, Awake
<1>12. ASSUME NEW q \in Racers, SetTimer(q) PROVE UNCHANGED Races!vars
  <2>1. Goes(q, "asking") \/ Goes(q, "waiting")
    BY <1>12 DEF SetTimer
  <2> QED
    BY <1>s, <1>12, <2>1 DEF SetTimer, Awake
<1>13. ASSUME NEW q \in Racers, Wake(q) PROVE UNCHANGED Races!vars
  BY <1>s, <1>13 DEF Wake, Awake
<1>14. CASE UNCHANGED cancelVars
  BY <1>14, <1>u DEF cancelVars
<1> QED
  BY <1>1, <1>2, <1>3, <1>4, <1>5, <1>6, <1>7, <1>8, <1>9, <1>10, <1>11, <1>12, <1>13, <1>14
     DEF CancelNext, Poll

\* For any tokens, deadlines and races, the listeners, flags and timers of
\* Cancel::race take no step that Stop does not allow: a race that answered
\* had its answer, and one that stopped was asked to and had none at first.
THEOREM RacesTakeStopsSteps == Spec => Races!Init /\ [][Races!Next]_Races!vars
<1>1. Init => CancelInv
  BY CancelStarts DEF Init
<1>2. CancelInv /\ [Next]_vars => CancelInv'
  BY CancelKeeps, CancelSteps
<1>3. Init => Races!Init
  BY DEF Init, CancelInit, Races!Init, Outcome, Racing, Awake
<1>4. CancelInv /\ [Next]_vars => [Races!Next]_Races!vars
  BY StepsAreAllowed, CancelSteps
<1> QED
  BY <1>1, <1>2, <1>3, <1>4, PTL DEF Spec

-----------------------------------------------------------------------------
\* What the group holds of its tasks, and has told of them.
AnEnd == {"done", "panicked", "stopped", "abandoned"}
Holds ==
    /\ turns \in 0..MaxTurns /\ presses \in 0..MaxPresses
    /\ owner \in Shutting \union {"none", "open", "closed", "gone"}
    /\ spawned \subseteq Racers /\ aborted \subseteq spawned /\ inTime \subseteq spawned
    /\ unwound \subseteq Racers
    /\ held \subseteq spawned /\ IsFiniteSet(held) /\ Cardinality(held) <= Limit
    /\ ended \in [Racers -> SUBSET AnEnd]

\* A task is told of once, when it is joined or at the end abandoned, and what
\* it is told of stays true; one that had ended in time is joined by then.
Accounts ==
    /\ \A r \in Racers : r \notin spawned \/ r \in held => ended[r] = {}
    /\ owner # "gone" => \A r \in spawned \ held :
          \/ ended[r] = {End(r)} /\ pc[r] \in Over
          \/ owner = "closed" /\ ended[r] = {"abandoned"} /\ r \notin inTime
    /\ owner \in {"none", "open", "asked", "grace", "taken"} => inTime = {}
    /\ owner = "collecting" => inTime \subseteq Finished
    /\ owner = "abandoning" => inTime \cap held = {}
    /\ owner = "closed" => held = {}

\* What can be told of a task is one of four ends.
LEMMA EndIs == \A r \in Racers : End(r) \in AnEnd
BY DEF End, AnEnd

\* A race that is over stays as it ended, and so does what its task came to.
LEMMA OverStays ==
    ASSUME CancelTypeOK, [Next]_vars, NEW r \in Racers, pc[r] \in Over
    PROVE  pc'[r] = pc[r] /\ (r \in unwound' <=> r \in unwound) /\ End(r)' = End(r)
<1> USE DEF cancelVars, groupVars, raceVars
<1>g. \A q \in Racers : \A to : q # r /\ Goes(q, to) => pc'[r] = pc[r]
  BY DEF Goes, CancelTypeOK
<1>t. pc[r] \notin {"idle", "listening", "asking", "looking", "hearing", "timing", "waiting"}
  BY DEF Over
<1>p. [CancelNext]_cancelVars
  BY CancelSteps
<1>1. pc'[r] = pc[r]
  <2>1. ASSUME NEW q \in Racers, Begin(q) \/ Poll(q) \/ Dropped(q) PROVE pc'[r] = pc[r]
    <3>1. q # r
      BY <1>t, <2>1
         DEF Begin, Poll, Dropped, Listen, Ask, Look, Hear, SetTimer, Wake, Racing, Awake
    <3>2. UNCHANGED pc \/ \E to : Goes(q, to)
      <4>1. CASE Begin(q) \/ Dropped(q)
        BY <4>1 DEF Begin, Dropped, Ends
      <4>2. CASE Listen(q) \/ Wake(q)
        BY <4>2 DEF Listen, Wake, Further
      <4>3. CASE Ask(q)
        BY <4>3 DEF Ask, Ends
      <4>4. CASE Look(q)
        BY <4>4 DEF Look, Ends, Further
      <4>5. CASE Hear(q)
        BY <4>5 DEF Hear, Further
      <4>6. CASE SetTimer(q)
        BY <4>6 DEF SetTimer
      <4> QED
        BY <2>1, <4>1, <4>2, <4>3, <4>4, <4>5, <4>6 DEF Poll
    <3> QED
      BY <1>g, <3>1, <3>2
  <2>2. ASSUME \/ \E t \in Tokens : Request(t) \/ Ring(t) \/ Reset(t)
               \/ Tick \/ (\E q \in Racers : Readies(q)) \/ UNCHANGED cancelVars
        PROVE  pc'[r] = pc[r]
    BY <2>2 DEF Request, Ring, Reset, Tick, Readies
  <2> QED
    BY <1>p, <2>1, <2>2 DEF CancelNext
<1>2. r \in unwound' <=> r \in unwound
  <2>1. ASSUME NEW q \in Racers, Taken(q) \/ Unwinds(q) PROVE r \in unwound' <=> r \in unwound
    <3>1. q # r
      BY <1>t, <2>1 DEF Taken, Unwinds
    <3> QED
      BY <2>1, <3>1 DEF Taken, Unwinds
  <2>2. ASSUME NEW q \in Racers,
               Spawn(q) \/ Reap(q) \/ Starts(q) \/ Polls(q) \/ WorkIsReady(q)
        PROVE  UNCHANGED unwound
    BY <2>2 DEF Spawn, Admits, Reap, Starts, Polls, WorkIsReady
  <2>3. ASSUME \/ StartTurn \/ Press \/ PressRings \/ TimePasses
               \/ Asks \/ Rings \/ Reaped \/ Aborts \/ GraceEnds \/ Collect \/ Abandon \/ Leave
               \/ UNCHANGED vars
        PROVE  UNCHANGED unwound
    BY <2>3 DEF StartTurn, Press, PressRings, TimePasses, Asks, Rings, Reaped, Aborts,
       GraceEnds,
                Collect, Abandon, Leave, vars
  <2> QED
    BY <2>1, <2>2, <2>3 DEF Next
<1> QED
  BY <1>1, <1>2 DEF End

\* The group's part keeps its types, and stays within its limit.
LEMMA HoldsNext == ASSUME CancelTypeOK, Holds, Accounts, [Next]_vars PROVE Holds'
<1> USE TaskGroupAssumption DEF Holds, Shutting, groupVars
<1>f. ASSUME held' \subseteq held PROVE IsFiniteSet(held') /\ Cardinality(held') <= Limit
  <2>1. IsFiniteSet(held') /\ Cardinality(held') <= Cardinality(held)
    BY <1>f, FS_Subset
  <2>2. Cardinality(held') \in Nat /\ Cardinality(held) \in Nat
    BY <2>1, FS_CardinalityType
  <2> QED
    BY <2>1, <2>2
<1>c. \A tasks : Collecting(tasks) => ended' \in [Racers -> SUBSET AnEnd]
  BY EndIs DEF Collecting
<1>1. CASE StartTurn
  BY <1>1 DEF StartTurn
<1>2. CASE Press
  BY <1>2 DEF Press
<1>3. CASE PressRings
  BY <1>3 DEF PressRings
<1>4. CASE TimePasses
  BY <1>4 DEF TimePasses
<1>5. CASE Asks
  BY <1>5 DEF Asks
<1>6. CASE Rings
  BY <1>6 DEF Rings
<1>7. CASE Reaped
  BY <1>7 DEF Reaped
<1>8. CASE Aborts
  BY <1>8 DEF Aborts
<1>9. CASE GraceEnds
  BY <1>9 DEF GraceEnds
<1>10. CASE Collect
  BY <1>c, <1>f, <1>10 DEF Collect, Joins
<1>11. CASE Abandon
  <2>1. ended' \in [Racers -> SUBSET AnEnd]
    BY <1>11 DEF Abandon, AnEnd
  <2> QED
    BY <1>f, <1>11, <2>1 DEF Abandon
<1>12. CASE Leave
  BY <1>f, <1>12 DEF Leave
<1>13. ASSUME NEW q \in Racers, Spawn(q) PROVE Holds'
  <2> DEFINE left == held \ Finished
  <2>1. ended' \in [Racers -> SUBSET AnEnd]
    BY <1>c, <1>13 DEF Spawn, Admits
  <2>2. UNCHANGED <<turns, presses, owner, aborted, unwound, inTime>>
    BY <1>13 DEF Spawn, Admits
  <2>3. CASE Cardinality(left) < Limit
    <3>1. held' = left \union {q} /\ spawned' = spawned \union {q} /\ q \notin left
      BY <1>13, <2>3 DEF Spawn, Admits
    <3>2. IsFiniteSet(left)
      BY FS_Subset
    <3>3. Cardinality(left) \in Nat
      BY <3>2, FS_CardinalityType
    <3>4. IsFiniteSet(held') /\ Cardinality(held') = Cardinality(left) + 1
      BY <3>1, <3>2, FS_AddElement
    <3> QED
      BY <2>1, <2>2, <2>3, <3>1, <3>3, <3>4
  <2>4. CASE ~(Cardinality(left) < Limit)
    <3>1. held' = left /\ spawned' = spawned
      BY <1>13, <2>4 DEF Spawn, Admits
    <3> QED
      BY <1>f, <2>1, <2>2, <3>1
  <2> QED
    BY <2>3, <2>4
<1>14. ASSUME NEW q \in Racers, Reap(q) PROVE Holds'
  BY <1>c, <1>f, <1>14 DEF Reap, Joins
<1>15. ASSUME NEW q \in Racers, Starts(q) PROVE Holds'
  BY <1>15 DEF Starts
<1>16. ASSUME NEW q \in Racers, Polls(q) PROVE Holds'
  BY <1>16 DEF Polls
<1>17. ASSUME NEW q \in Racers, WorkIsReady(q) PROVE Holds'
  BY <1>17 DEF WorkIsReady
<1>18. ASSUME NEW q \in Racers, Taken(q) PROVE Holds'
  BY <1>18 DEF Taken
<1>19. ASSUME NEW q \in Racers, Unwinds(q) PROVE Holds'
  BY <1>19 DEF Unwinds
<1>20. CASE UNCHANGED vars
  BY <1>20 DEF vars
<1> QED
  BY <1>1, <1>2, <1>3, <1>4, <1>5, <1>6, <1>7, <1>8, <1>9, <1>10, <1>11, <1>12, <1>13,
     <1>14, <1>15, <1>16, <1>17, <1>18, <1>19, <1>20 DEF Next

\* The group goes on to tell of each of its tasks once.
LEMMA AccountsNext == ASSUME CancelTypeOK, Holds, Accounts, [Next]_vars PROVE Accounts'
<1> USE DEF groupVars
<1>o. \A r \in Racers : pc[r] \in Over => pc'[r] = pc[r] /\ End(r)' = End(r)
  BY OverStays
<1>u. Finished \subseteq Finished'
  BY <1>o DEF Finished
<1>t. spawned \subseteq Racers /\ held \subseteq spawned /\ inTime \subseteq spawned
      /\ ended \in [Racers -> SUBSET AnEnd]
      /\ owner \in Shutting \union {"none", "open", "closed", "gone"}
  BY DEF Holds
\* A step that changes neither what is held nor what is told.
<1>k. ASSUME UNCHANGED <<spawned, held, ended, inTime>>,
             \/ owner' = "gone" \/ UNCHANGED owner
             \/ /\ owner \in {"none", "open", "asked", "grace", "taken"}
                /\ owner' \in {"open", "asked", "grace", "taken"}
             \/ owner \in {"grace", "taken"} /\ owner' = "closed" /\ held = {}
      PROVE  Accounts'
  <2>1. \A r \in Racers : r \notin spawned' \/ r \in held' => ended'[r] = {}
    BY <1>k DEF Accounts
  <2>2. owner' # "gone" => \A r \in spawned' \ held' :
          \/ ended'[r] = {End(r)'} /\ pc'[r] \in Over
          \/ owner' = "closed" /\ ended'[r] = {"abandoned"} /\ r \notin inTime'
    <3> SUFFICES ASSUME owner' # "gone", NEW r \in spawned \ held
                 PROVE  \/ ended[r] = {End(r)'} /\ pc'[r] \in Over
                        \/ owner' = "closed" /\ ended[r] = {"abandoned"} /\ r \notin inTime
      BY <1>k
    <3>1. \/ ended[r] = {End(r)} /\ pc[r] \in Over
          \/ owner = "closed" /\ ended[r] = {"abandoned"} /\ r \notin inTime
      <4>1. owner # "gone"
        BY <1>k
      <4> QED
        BY <4>1 DEF Accounts
    <3> QED
      BY <1>k, <1>o, <1>t, <3>1
  <2>3. /\ owner' \in {"none", "open", "asked", "grace", "taken"} => inTime' = {}
        /\ owner' = "collecting" => inTime' \subseteq Finished'
        /\ owner' = "abandoning" => inTime' \cap held' = {}
        /\ owner' = "closed" => held' = {}
    BY <1>k, <1>u DEF Accounts
  <2> QED
    BY <2>1, <2>2, <2>3 DEF Accounts
\* A step that joins tasks that have ended.
<1>j. ASSUME NEW tasks, tasks \subseteq held \cap Finished, held' = held \ tasks,
             \A r \in Racers :
                ended'[r] = IF r \in tasks THEN ended[r] \union {End(r)} ELSE ended[r],
             UNCHANGED <<spawned, inTime>>, owner \in {"grace", "taken", "collecting"},
             \/ owner' = owner /\ owner # "collecting"
             \/ owner = "collecting" /\ owner' = "abandoning" /\ tasks = held \cap Finished
      PROVE  Accounts'
  <2>1. \A r \in Racers : ended'[r] = IF r \in tasks THEN ended[r] \union {End(r)} ELSE ended[r]
    BY <1>j
  <2>2. held' = held \ tasks
    BY <1>j
  <2>3. \A r \in Racers : r \notin spawned' \/ r \in held' => ended'[r] = {}
    BY <1>j, <1>t, <2>1, <2>2 DEF Accounts
  <2>4. \A r \in spawned' \ held' : ended'[r] = {End(r)'} /\ pc'[r] \in Over
    <3> SUFFICES ASSUME NEW r \in spawned, r \notin held \/ r \in tasks
                 PROVE  ended'[r] = {End(r)'} /\ pc'[r] \in Over
      BY <1>j, <2>2
    <3>1. CASE r \in tasks
      <4>1. pc[r] \in Over /\ ended[r] = {}
        BY <1>j, <1>t, <3>1 DEF Accounts, Finished
      <4> QED
        BY <1>o, <1>t, <2>1, <3>1, <4>1
    <3>2. CASE r \notin tasks
      <4>1. ended[r] = {End(r)} /\ pc[r] \in Over
        BY <1>j, <3>2 DEF Accounts
      <4> QED
        BY <1>o, <1>t, <2>1, <3>2, <4>1
    <3> QED
      BY <3>1, <3>2
  <2>5. owner' = "abandoning" => inTime' \cap held' = {}
    BY <1>j, <2>2 DEF Accounts
  <2>6. owner' \in {"grace", "taken"} => inTime' = {}
    BY <1>j DEF Accounts
  <2> QED
    BY <1>j, <2>3, <2>4, <2>5, <2>6 DEF Accounts
<1>1. CASE StartTurn
  BY <1>k, <1>1 DEF StartTurn
<1>2. CASE Press
  BY <1>k, <1>2 DEF Press
<1>3. CASE PressRings
  BY <1>k, <1>3 DEF PressRings
<1>4. CASE TimePasses
  BY <1>k, <1>4 DEF TimePasses
<1>5. CASE Asks
  BY <1>k, <1>5 DEF Asks
<1>6. CASE Rings
  BY <1>k, <1>6 DEF Rings
<1>7. CASE Reaped
  BY <1>k, <1>7 DEF Reaped
<1>8. CASE Aborts
  BY <1>k, <1>8 DEF Aborts
<1>9. CASE GraceEnds
  <2>1. UNCHANGED <<spawned, held, ended>> /\ inTime' = held \cap Finished
        /\ owner = "taken" /\ owner' = "collecting"
    BY <1>9 DEF GraceEnds
  <2>2. \A r \in spawned \ held : ended[r] = {End(r)} /\ pc[r] \in Over
    BY <2>1 DEF Accounts
  <2>3. \A r \in spawned \ held : ended[r] = {End(r)'} /\ pc'[r] \in Over
    BY <1>o, <1>t, <2>2
  <2> QED
    BY <1>u, <2>1, <2>3 DEF Accounts
<1>10. CASE Collect
  BY <1>j, <1>10 DEF Collect, Joins, Collecting
<1>11. CASE Abandon
  <2>1. owner = "abandoning" /\ owner' = "closed" /\ held' = {} /\ UNCHANGED <<spawned, inTime>>
        /\ \A r \in Racers :
              ended'[r] = IF r \in held THEN ended[r] \union {"abandoned"} ELSE ended[r]
    BY <1>11 DEF Abandon
  <2>2. ASSUME NEW r \in spawned
        PROVE  \/ ended'[r] = {End(r)'} /\ pc'[r] \in Over
               \/ ended'[r] = {"abandoned"} /\ r \notin inTime
    <3>1. CASE r \in held
      <4>1. ended[r] = {} /\ r \notin inTime
        BY <1>t, <2>1, <3>1 DEF Accounts
      <4> QED
        BY <1>t, <2>1, <3>1, <4>1
    <3>2. CASE r \notin held
      <4>1. ended[r] = {End(r)} /\ pc[r] \in Over
        BY <2>1, <3>2 DEF Accounts
      <4> QED
        BY <1>o, <1>t, <2>1, <3>2, <4>1
    <3> QED
      BY <3>1, <3>2
  <2>3. \A r \in Racers : r \notin spawned => ended'[r] = {}
    BY <1>t, <2>1 DEF Accounts
  <2> QED
    BY <1>t, <2>1, <2>2, <2>3 DEF Accounts
<1>12. CASE Leave
  <2>1. owner \in {"open", "grace", "taken"} /\ owner' = "gone" /\ held' = {}
        /\ UNCHANGED <<spawned, ended, inTime>>
    BY <1>12 DEF Leave
  <2> QED
    BY <2>1 DEF Accounts
<1>13. ASSUME NEW q \in Racers, Spawn(q) PROVE Accounts'
  <2> DEFINE tasks == held \cap Finished
  <2>1. /\ owner = "open" /\ UNCHANGED <<owner, inTime>> /\ q \notin spawned
        /\ \A r \in Racers : ended'[r] = IF r \in tasks THEN ended[r] \union {End(r)} ELSE ended[r]
    BY <1>13 DEF Spawn, Admits, Collecting
  <2>2. \/ held' = (held \ Finished) \union {q} /\ spawned' = spawned \union {q}
        \/ held' = held \ Finished /\ spawned' = spawned
    BY <1>13 DEF Spawn, Admits
  <2>3. \A r \in Racers : r \notin spawned' \/ r \in held' => ended'[r] = {}
    BY <1>t, <2>1, <2>2 DEF Accounts
  <2>4. \A r \in spawned' \ held' : ended'[r] = {End(r)'} /\ pc'[r] \in Over
    <3> SUFFICES ASSUME NEW r \in spawned, r \notin held \/ r \in tasks
                 PROVE  ended'[r] = {End(r)'} /\ pc'[r] \in Over
      BY <2>2
    <3>1. CASE r \in tasks
      <4>1. pc[r] \in Over /\ ended[r] = {}
        BY <1>t, <3>1 DEF Accounts, Finished
      <4> QED
        BY <1>o, <1>t, <2>1, <3>1, <4>1
    <3>2. CASE r \notin tasks
      <4>1. ended[r] = {End(r)} /\ pc[r] \in Over
        BY <2>1, <3>2 DEF Accounts
      <4> QED
        BY <1>o, <1>t, <2>1, <3>2, <4>1
    <3> QED
      BY <3>1, <3>2
  <2> QED
    BY <2>1, <2>3, <2>4 DEF Accounts
<1>14. ASSUME NEW q \in Racers, Reap(q) PROVE Accounts'
  <2>1. /\ {q} \subseteq held \cap Finished /\ held' = held \ {q}
        /\ UNCHANGED <<spawned, inTime, owner>> /\ owner \in {"grace", "taken"}
        /\ \A r \in Racers : ended'[r] = IF r \in {q} THEN ended[r] \union {End(r)} ELSE ended[r]
    BY <1>14 DEF Reap, Joins, Collecting
  <2> QED
    BY <1>j, <2>1
<1>15. ASSUME NEW q \in Racers, Starts(q) PROVE Accounts'
  BY <1>k, <1>15 DEF Starts
<1>16. ASSUME NEW q \in Racers, Polls(q) PROVE Accounts'
  BY <1>k, <1>16 DEF Polls
<1>17. ASSUME NEW q \in Racers, WorkIsReady(q) PROVE Accounts'
  BY <1>k, <1>17 DEF WorkIsReady
<1>18. ASSUME NEW q \in Racers, Taken(q) PROVE Accounts'
  BY <1>k, <1>18 DEF Taken
<1>19. ASSUME NEW q \in Racers, Unwinds(q) PROVE Accounts'
  BY <1>k, <1>19 DEF Unwinds
<1>20. CASE UNCHANGED vars
  BY <1>k, <1>20 DEF vars
<1> QED
  BY <1>1, <1>2, <1>3, <1>4, <1>5, <1>6, <1>7, <1>8, <1>9, <1>10, <1>11, <1>12, <1>13,
     <1>14, <1>15, <1>16, <1>17, <1>18, <1>19, <1>20 DEF Next

GroupInv == CancelTypeOK /\ Holds /\ Accounts

LEMMA GroupInvariant == Spec => []GroupInv
<1>1. Init => GroupInv
  <2> SUFFICES ASSUME Init PROVE GroupInv
    OBVIOUS
  <2>1. CancelTypeOK
    BY CancelStarts DEF Init, CancelInv
  <2>2. Holds
    BY FS_EmptySet, TaskGroupAssumption DEF Init, Holds
  <2>3. Accounts
    BY DEF Init, Accounts
  <2> QED
    BY <2>1, <2>2, <2>3 DEF GroupInv
<1>2. GroupInv /\ [Next]_vars => GroupInv'
  BY CancelTypes, CancelSteps, HoldsNext, AccountsNext DEF GroupInv
<1> QED
  BY <1>1, <1>2, PTL DEF Spec

\* For any tokens, races and bounds, a group holds no more tasks than its limit.
THEOREM TypeCorrect == Spec => []TypeOK
<1>1. GroupInv => TypeOK
  BY DEF GroupInv, TypeOK, Holds, AnEnd
<1> QED
  BY <1>1, GroupInvariant, PTL

\* However many tasks it admitted, and whatever they do while it is shut down,
\* a group that was shut down has told one end of each of them.
THEOREM GroupAccounts == Spec => []EveryTaskIsAccountedFor
<1>1. ASSUME GroupInv PROVE EveryTaskIsAccountedFor
  <2> SUFFICES ASSUME owner = "closed", NEW r \in Racers
               PROVE  /\ Cardinality(ended[r]) = (IF r \in spawned THEN 1 ELSE 0)
                      /\ r \in inTime => ended[r] = {End(r)}
    BY DEF EveryTaskIsAccountedFor
  <2>1. held = {} /\ inTime \subseteq spawned
    BY <1>1 DEF GroupInv, Accounts, Holds
  <2>2. CASE r \in spawned
    <3>1. ended[r] = {End(r)} \/ (ended[r] = {"abandoned"} /\ r \notin inTime)
      BY <1>1, <2>1, <2>2 DEF GroupInv, Accounts
    <3>2. \A x : Cardinality({x}) = 1
      BY FS_Singleton
    <3> QED
      BY <2>2, <3>1, <3>2
  <2>3. CASE r \notin spawned
    <3>1. ended[r] = {}
      BY <1>1, <2>3 DEF GroupInv, Accounts
    <3> QED
      BY <2>1, <2>3, <3>1, FS_EmptySet
  <2> QED
    BY <2>2, <2>3
<1> QED
  BY <1>1, GroupInvariant, PTL
=============================================================================
