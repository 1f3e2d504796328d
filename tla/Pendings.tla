----------------------------- MODULE Pendings -----------------------------
(***************************************************************************)
(* The tables of questions that agents have put to the user: Pendings, the *)
(* contract's table, and Asked, which keeps the agent's own name for each  *)
(* question beside it.  Every table of the process numbers its instances   *)
(* and generations from one counter.  Callers hold a table's lock for each *)
(* operation, so an operation is a step; making a table takes two numbers, *)
(* and another table may take one in between.                              *)
(***************************************************************************)
EXTENDS Naturals, Sequences

CONSTANTS
    Tables,      \* the tables of the process
    Sessions,    \* what sessions are named by
    Turns,       \* what turns are numbered by
    Names,       \* the agents' own names for questions
    Limit,       \* PENDINGS: how many questions a table holds open
    MaxNumber,   \* u64::MAX, for the counter of instances and generations
    MaxRequest,  \* u64::MAX, for the request numbers of a generation
    MaxPeriods   \* bound: turns and relaunches of a table, for TLC

ASSUME LimitAssumption == Limit \in Nat
ASSUME NumbersAssumption == MaxNumber \in Nat /\ MaxRequest \in Nat /\ MaxPeriods \in Nat

VARIABLES
    numbers,  \* NUMBERS: the next instance or generation
    made,     \* each table: "unmade", "half", "live", "spent"
    inst,     \* Pendings.instance
    gen,      \* Pendings.generation
    running,  \* Pendings.turn: the session and turn running, in a set
    next,     \* Pendings.next
    open,     \* Pendings.open: references, in their order
    native,   \* Asked.native: references and names, in their order
    period,   \* history: how often a table was begun, ended or relaunched
    raised,   \* history: references handed out, and the period of each
    settled   \* history: references settled, and the period of each

vars == <<numbers, made, inst, gen, running, next, open, native, period, raised, settled>>

Kinds == {"permission", "question"}
Decisions == {"allow", "deny", "answer"}

Reference == [instance : Nat, session : Sessions, turn : Turns, generation : Nat,
              request : Nat]
Open == [reference : Reference, pending : Kinds]
Named == [reference : Reference, name : Names]
Dated == [reference : Reference, table : Tables, period : Nat]

References(list) == {list[i].reference : i \in DOMAIN list}

Init ==
    /\ numbers = 0
    /\ made = [t \in Tables |-> "unmade"]
    /\ inst = [t \in Tables |-> 0]
    /\ gen = [t \in Tables |-> 0]
    /\ running = [t \in Tables |-> {}]
    /\ next = [t \in Tables |-> 0]
    /\ open = [t \in Tables |-> <<>>]
    /\ native = [t \in Tables |-> <<>>]
    /\ period = [t \in Tables |-> 0]
    /\ raised = <<>>
    /\ settled = <<>>

\* fresh(): one is handed out where one is left.
Fresh == numbers < MaxNumber /\ numbers' = numbers + 1

\* Pendings::new takes the instance's number, then the generation's.  A table
\* that finds none left is not made, and the number it took is not given back.
NewInstance(t) ==
    /\ made[t] = "unmade"
    /\ Fresh
    /\ inst' = [inst EXCEPT ![t] = numbers]
    /\ made' = [made EXCEPT ![t] = "half"]
    /\ UNCHANGED <<gen, running, next, open, native, period, raised, settled>>

NewGeneration(t) ==
    /\ made[t] = "half"
    /\ Fresh
    /\ gen' = [gen EXCEPT ![t] = numbers]
    /\ made' = [made EXCEPT ![t] = "live"]
    /\ UNCHANGED <<inst, running, next, open, native, period, raised, settled>>

\* Whatever was open is dropped.
Cleared(t) ==
    /\ open' = [open EXCEPT ![t] = <<>>]
    /\ native' = [native EXCEPT ![t] = <<>>]
    /\ period[t] < MaxPeriods
    /\ period' = [period EXCEPT ![t] = @ + 1]

\* A turn of a session has begun.  The variations keep what was open, and
\* number the turn's questions from the start.
BeginKeepingOpen(t, s, n) ==
    /\ made[t] = "live"
    /\ period[t] < MaxPeriods
    /\ period' = [period EXCEPT ![t] = @ + 1]
    /\ running' = [running EXCEPT ![t] = {<<s, n>>}]
    /\ UNCHANGED <<numbers, made, inst, gen, next, open, native, raised, settled>>
BeginNumberingAnew(t, s, n) ==
    /\ made[t] = "live"
    /\ Cleared(t)
    /\ running' = [running EXCEPT ![t] = {<<s, n>>}]
    /\ next' = [next EXCEPT ![t] = 0]
    /\ UNCHANGED <<numbers, made, inst, gen, raised, settled>>
Begin(t, s, n) ==
    /\ made[t] = "live"
    /\ Cleared(t)
    /\ running' = [running EXCEPT ![t] = {<<s, n>>}]
    /\ UNCHANGED <<numbers, made, inst, gen, next, raised, settled>>

End(t) ==
    /\ made[t] = "live"
    /\ running[t] # {}
    /\ Cleared(t)
    /\ running' = [running EXCEPT ![t] = {}]
    /\ UNCHANGED <<numbers, made, inst, gen, next, raised, settled>>

\* The program was started again; where no number is left the table is spent
\* and Host::start launches nothing, so that it is not begun again.
Relaunch(t) ==
    /\ made[t] = "live"
    /\ Cleared(t)
    /\ running' = [running EXCEPT ![t] = {}]
    /\ next' = [next EXCEPT ![t] = 0]
    /\ IF numbers < MaxNumber
       THEN Fresh /\ gen' = [gen EXCEPT ![t] = numbers] /\ UNCHANGED made
       ELSE made' = [made EXCEPT ![t] = "spent"] /\ UNCHANGED <<numbers, gen>>
    /\ UNCHANGED <<inst, raised, settled>>

\* Asked::holds: a question the agent named so is open.  The variation never
\* finds one.
HoldsNone(t, name) == FALSE
Holds(t, name) == \E i \in DOMAIN native[t] : native[t][i].name = name

\* Pendings::raise opens no more than PENDINGS.
Room(t) == Len(open[t]) < Limit

\* Host::ask and Asked::raise; a question that is cut, asked of no turn, or one
\* too many is refused and changes nothing.
Raise(t, name, kind) ==
    /\ made[t] = "live"
    /\ ~Holds(t, name)
    /\ Room(t)
    /\ next[t] < MaxRequest
    /\ next' = [next EXCEPT ![t] = @ + 1]
    /\ \E r \in running[t] :
          LET reference == [instance |-> inst[t], session |-> r[1], turn |-> r[2],
                            generation |-> gen[t], request |-> next[t]]
          IN  /\ open' = [open EXCEPT ![t] =
                    Append(@, [reference |-> reference, pending |-> kind])]
              /\ native' = [native EXCEPT ![t] =
                    Append(@, [reference |-> reference, name |-> name])]
              /\ raised' = Append(raised, [reference |-> reference, table |-> t,
                                           period |-> period[t]])
    /\ UNCHANGED <<numbers, made, inst, gen, running, period, settled>>

Fits(kind, decision) ==
    \/ decision = "deny"
    \/ kind = "permission" /\ decision = "allow"
    \/ kind = "question" /\ decision = "answer"

\* Vec::swap_remove: the last takes the removed one's place.
SwapRemove(s, i) ==
    [j \in 1..(Len(s) - 1) |-> IF j = i THEN s[Len(s)] ELSE s[j]]

\* Pendings::settle in the order it looks, up to the entry of the table.
Verdict(t, ref, decision) ==
    IF ref.instance # inst[t] THEN "instance"
    ELSE IF ref.generation # gen[t] THEN "generation"
    ELSE IF running[t] = {} THEN "turn"
    ELSE IF \A r \in running[t] : ref.session # r[1] THEN "session"
    ELSE IF \A r \in running[t] : ref.turn # r[2] THEN "turn"
    ELSE IF \A i \in DOMAIN open[t] : open[t][i].reference # ref THEN "settled"
    ELSE IF \E i \in DOMAIN open[t] :
               open[t][i].reference = ref /\ Fits(open[t][i].pending, decision)
         THEN "fits"
         ELSE "kind"

\* Asked::settle of a reference some table handed out, at whatever table it is
\* brought to; every refusal changes nothing.
Settle(t, ref, decision) ==
    /\ made[t] \in {"live", "spent"}
    /\ Verdict(t, ref, decision) = "fits"
    /\ \E i \in DOMAIN open[t] :
          /\ open[t][i].reference = ref
          /\ open' = [open EXCEPT ![t] = SwapRemove(@, i)]
    /\ \E i \in DOMAIN native[t] :
          /\ native[t][i].reference = ref
          /\ native' = [native EXCEPT ![t] = SwapRemove(@, i)]
    /\ settled' = Append(settled, [reference |-> ref, table |-> t, period |-> period[t]])
    /\ UNCHANGED <<numbers, made, inst, gen, running, next, period, raised>>

Next ==
    \E t \in Tables :
        \/ NewInstance(t)
        \/ NewGeneration(t)
        \/ \E s \in Sessions, n \in Turns : Begin(t, s, n)
        \/ End(t)
        \/ Relaunch(t)
        \/ \E name \in Names, kind \in Kinds : Raise(t, name, kind)
        \/ \E i \in DOMAIN raised, decision \in Decisions :
              Settle(t, raised[i].reference, decision)

Spec == Init /\ [][Next]_vars

(***************************************************************************)
(* Properties.                                                             *)
(***************************************************************************)

\* Every variable stays what it is declared to be, the questions within
\* PENDINGS and the counters within their words.
TypeOK ==
    /\ numbers \in 0..MaxNumber
    /\ made \in [Tables -> {"unmade", "half", "live", "spent"}]
    /\ inst \in [Tables -> Nat] /\ gen \in [Tables -> Nat]
    /\ running \in [Tables -> SUBSET (Sessions \X Turns)]
    /\ next \in [Tables -> 0..MaxRequest]
    /\ open \in [Tables -> Seq(Open)]
    /\ native \in [Tables -> Seq(Named)]
    /\ period \in [Tables -> Nat]
    /\ raised \in Seq(Dated) /\ settled \in Seq(Dated)
    /\ \A t \in Tables : Len(open[t]) <= Limit

\* No reference is handed out twice, by whichever table, in whichever run of
\* whichever program: a stale decision cannot name a newer question
\* (pending.rs:8).
ReferencesAreUnique ==
    \A i, j \in DOMAIN raised : raised[i].reference = raised[j].reference => i = j

\* A question is settled once, by the table that raised it, in the very period
\* of that table in which it was raised: a decision for a turn that ended or a
\* program that was started again settles nothing, even where the session, the
\* turn and the request number are those of a question now open
\* (pending.rs:3-11).
SettledOnceInItsPeriod ==
    /\ \A i, j \in DOMAIN settled : settled[i].reference = settled[j].reference => i = j
    /\ \A i \in DOMAIN settled : \E j \in DOMAIN raised : settled[i] = raised[j]

\* The two lists of Asked agree: a question is in both or in neither, and no
\* two open questions of an agent go by one name (external pending.rs:3-10).
TablesAgree ==
    \A t \in Tables :
        /\ References(open[t]) = References(native[t])
        /\ \A i, j \in DOMAIN native[t] :
              i # j => /\ native[t][i].name # native[t][j].name
                       /\ native[t][i].reference # native[t][j].reference
=============================================================================
