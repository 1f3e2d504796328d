---------------------------- MODULE SessionLog ----------------------------
(***************************************************************************)
(* One session's log and the result records (sidecars) beside it: what the *)
(* runner records, what the writer thread lands in the file, what a kill   *)
(* or a power loss leaves, and what the next process reads back.           *)
(*                                                                         *)
(* Two threads share the bounded queue: the runner offers lines, the       *)
(* writer appends them and counts what landed.  The disk is `log` (the     *)
(* lines whose bytes are all in the file), `end` (what a failed or         *)
(* interrupted write left after them) and `sidecars`.                      *)
(*                                                                         *)
(* Left out: lines a replay reads past or that only rewrite the            *)
(* transcript (context patches, window readings, compactions, clearings,   *)
(* run-item metadata), and where results were placed for the screen.       *)
(***************************************************************************)
EXTENDS Naturals, Sequences, FiniteSets

CONSTANTS
    Calls,       \* the tool calls one pass may make
    QueueLen,    \* QUEUE: how many requests the writer's queue holds
    Faults,      \* which writes may fail in this instance, see FaultKinds
    PowerLoss,   \* whether the machine may lose what was not synced
    MaxPasses,   \* bound: answers the model gives, over all processes
    MaxTurns,    \* bound: prompts the reader sends
    MaxCrashes,  \* bound: kills and power losses
    MaxFaults    \* bound: failing writes

\* "nothing":  a write that landed no byte;  "newline": a line whose newline
\* failed;  "fragment": a line cut in the middle;  "sidecar": a sidecar
\* half written, or one that could not be removed.
FaultKinds == {"nothing", "newline", "fragment", "sidecar"}

ASSUME QueueLenAssumption == QueueLen \in Nat \ {0}
ASSUME FaultsAssumption == Faults \subseteq FaultKinds
ASSUME PowerLossAssumption == PowerLoss \in BOOLEAN
ASSUME BoundsAssumption ==
    /\ MaxPasses \in Nat
    /\ MaxTurns \in Nat
    /\ MaxCrashes \in Nat
    /\ MaxFaults \in Nat

VARIABLES
    log,         \* the lines whose bytes are all in the file
    end,         \* "whole", "unended" (last line owed its newline), "fragment"
    synced,      \* how many lines are known to be on the disk itself
    sidecars,    \* durable call results beside the log
    queue,       \* requests the writer has not taken
    told,        \* the writer has answered the request the runner waits on
    trouble,     \* the first failed write was kept
    pc,          \* where the process is, "off" where there is none
    at,          \* the message being recorded, or the call being kept
    transcript,  \* the conversation the runner holds
    st,          \* how far each call of the pass has come
    answers,     \* what the ended calls of the pass are answered with
    passes,      \* answers the model gave so far
    turns,       \* prompts sent so far
    crashes,     \* kills and power losses so far
    faults,      \* failed writes so far
    effects,     \* history: calls that did what they were asked
    receipts     \* history: calls whose result was accepted as durable

disk == <<log, end, synced, sidecars>>
writing == <<queue, told, trouble>>
running == <<pc, at, transcript, st, answers>>
counts == <<passes, turns, crashes, faults>>
history == <<effects, receipts>>
vars == <<disk, writing, running, counts, history>>

(***************************************************************************)
(* Lines, requests, sidecars.                                              *)
(***************************************************************************)
CallId == (1..MaxPasses) \X Calls
Answer == {"done", "failed", "notrun", "mayhaverun", "interrupted"}

\* Each answer of the model and each prompt has its own number: no two
\* messages of a session are equal.
User(n) == [kind |-> "user", number |-> n]
Agent(n, asked) == [kind |-> "agent", number |-> n, calls |-> asked]
Results(answered) == [kind |-> "results", answers |-> answered]
Started(c) == [kind |-> "started", call |-> c]
Finished(c, a) == [kind |-> "finished", call |-> c, answer |-> a]

Nothing == [kind |-> "nothing"]
Line(l) == [line |-> l, ack |-> FALSE]
Acknowledged(l) == [line |-> l, ack |-> TRUE]
BarrierUnanswered == [line |-> Nothing, ack |-> FALSE]
Barrier == [line |-> Nothing, ack |-> TRUE]

IsMessage(l) == l.kind \in {"user", "agent", "results"}

(***************************************************************************)
(* What a replay makes of the lines `f` and the sidecars `s`.              *)
(***************************************************************************)

\* The messages of `f`, in their order.  Not SelectSeq, of whose recursion
\* nothing could be proved: the n-th is the one n messages reach up to.
Messages(f) ==
    LET places == {i \in 1..Len(f) : IsMessage(f[i])}
    IN  [n \in 1..Cardinality(places) |->
            f[CHOOSE i \in places : Cardinality({j \in places : j <= i}) = n]]

\* Where the last message of `f` is, 0 where there is none.
LastMessage(f) ==
    IF \E i \in 1..Len(f) : IsMessage(f[i])
    THEN CHOOSE i \in 1..Len(f) :
            IsMessage(f[i]) /\ \A j \in (i + 1)..Len(f) : ~IsMessage(f[j])
    ELSE 0

\* The calls the last message asks for, none where it is not an answer.
Outstanding(f) ==
    LET last == LastMessage(f)
    IN  IF last > 0 /\ f[last].kind = "agent" THEN f[last].calls ELSE {}

\* `Ended`: what the calls of the last message recorded.
StartsUnread(f) == {}
StartedIn(f) ==
    {c \in Outstanding(f) : \E i \in LastMessage(f)..Len(f) : f[i] = Started(c)}
FinishedWith(f, c) ==
    {a \in Answer : \E i \in LastMessage(f)..Len(f) : f[i] = Finished(c, a)}

\* What a message of results in `f` answers.
AnsweredIn(f) ==
    UNION {{<<c, f[i].answers[c]>> : c \in DOMAIN f[i].answers} :
              i \in {j \in 1..Len(f) : f[j].kind = "results"}}

\* A removed sidecar is gone for a reader, and is back after a power loss
\* until its directory is synced.
Visible(s) == {r \in s : r.state # "removed"}

\* The sidecars no results line of `f` holds.
Pending(f, s) ==
    LET answered == AnsweredIn(f)
    IN  {r \in Visible(s) : <<r.call, r.answer>> \notin answered}

\* results::load refuses a record that is not whole.
Unreadable(s) == \E r \in Visible(s) : r.state = "partial"

\* A durable result with no call of the last message to answer.
Orphaned(f, s) == \E r \in Pending(f, s) : r.call \notin Outstanding(f)

Refused(f, s) == Unreadable(s) \/ Orphaned(f, s)

Recovers(f, s) ==
    LET asked == Outstanding(f)
    IN  /\ asked # {}
        /\ \/ Pending(f, s) # {}
           \/ \E c \in asked, i \in LastMessage(f)..Len(f) :
                 f[i].kind \in {"started", "finished"} /\ f[i].call = c

\* The variation answers every call with whatever was stored.
AnyStoredAnswer(f, s, c) ==
    IF Pending(f, s) # {}
    THEN (CHOOSE r \in Pending(f, s) : TRUE).answer
    ELSE IF FinishedWith(f, c) # {}
         THEN CHOOSE a \in Answer : a \in FinishedWith(f, c)
         ELSE IF c \in StartedIn(f) THEN "mayhaverun" ELSE "interrupted"

\* The sidecar first, then the finished record, then the start alone.
RecoveredAnswer(f, s, c) ==
    LET beside == {r \in Pending(f, s) : r.call = c}
        finished == FinishedWith(f, c)
    IN  IF beside # {} THEN (CHOOSE r \in beside : TRUE).answer
        ELSE IF finished # {} THEN CHOOSE a \in Answer : a \in finished
        ELSE IF c \in StartedIn(f) THEN "mayhaverun" ELSE "interrupted"

Recovered(f, s) == Results([c \in Outstanding(f) |-> RecoveredAnswer(f, s, c)])

\* The lines that stay: an unanswered last message nothing was recorded
\* about is cut off, with every line after it.
CutWhenUnanswered(f, s) ==
    IF Outstanding(f) # {} THEN SubSeq(f, 1, LastMessage(f) - 1) ELSE f
CutOneMore(f, s) ==
    IF Outstanding(f) # {} /\ ~Recovers(f, s)
    THEN SubSeq(f, 1, LastMessage(f) - 2)
    ELSE f
SettledLines(f, s) ==
    IF Outstanding(f) # {} /\ ~Recovers(f, s)
    THEN SubSeq(f, 1, LastMessage(f) - 1)
    ELSE f

\* The lines a reader sees: one with no newline after it is not one.
Readable(f, e) == IF e = "unended" THEN SubSeq(f, 1, Len(f) - 1) ELSE f

\* The whole conversation a replay hands back.
Replayed(f, s) ==
    LET kept == Messages(SettledLines(f, s))
    IN  IF Recovers(f, s) THEN Append(kept, Recovered(f, s)) ELSE kept

(***************************************************************************)
(* The state before the first prompt: the header is written, nothing else. *)
(***************************************************************************)
Init ==
    /\ log = <<>> /\ end = "whole" /\ synced = 0 /\ sidecars = {}
    /\ queue = <<>> /\ told = FALSE /\ trouble = FALSE
    /\ pc = "idle" /\ at = Nothing /\ transcript = <<>>
    /\ st = <<>> /\ answers = <<>>
    /\ passes = 0 /\ turns = 0 /\ crashes = 0 /\ faults = 0
    /\ effects = {} /\ receipts = {}

\* sync_all: every line in the file is on the disk itself.
SyncLeftOut == synced
SyncAll == Len(log)

(***************************************************************************)
(* The runner.                                                             *)
(***************************************************************************)
Room == Len(queue) < QueueLen
Offer(request) == Room /\ queue' = Append(queue, request)

\* Runner::record up to the wait: the line is offered with an answer asked for.
Record(message) ==
    /\ Offer(Acknowledged(message))
    /\ pc' = "recording"
    /\ at' = message
    /\ UNCHANGED <<disk, told, trouble, transcript, crashes, faults, history>>

\* A prompt, the turn's first or one interjected between two passes.
Say ==
    /\ pc \in {"idle", "asking"}
    /\ turns < MaxTurns
    /\ turns' = turns + 1
    /\ Record(User(turns + 1))
    /\ UNCHANGED <<st, answers, passes>>

\* The model's answer is recorded before any call of it is run.
ModelAnswers(asked) ==
    /\ pc = "asking"
    /\ passes < MaxPasses
    /\ passes' = passes + 1
    /\ Record(Agent(passes + 1, {passes + 1} \X asked))
    /\ st' = [c \in {passes + 1} \X asked |-> "asked"]
    /\ answers' = <<>>
    /\ UNCHANGED turns

\* The message joins the transcript once its line was taken; the variation
\* does not wait.
RecordedUnwaited ==
    /\ pc = "recording"
    /\ told' = FALSE
    /\ transcript' = Append(transcript, at)
    /\ at' = Nothing
    /\ pc' = CASE at.kind = "user" -> "asking"
               [] at.kind = "agent" -> IF at.calls = {} THEN "idle" ELSE "tools"
               [] at.kind = "results" -> "settle"
    /\ UNCHANGED <<disk, queue, trouble, st, answers, counts, history>>

Recorded ==
    /\ pc = "recording"
    /\ told
    /\ told' = FALSE
    /\ transcript' = Append(transcript, at)
    /\ at' = Nothing
    /\ pc' = CASE at.kind = "user" -> "asking"
               [] at.kind = "agent" -> IF at.calls = {} THEN "idle" ELSE "tools"
               [] at.kind = "results" -> "settle"
    /\ UNCHANGED <<disk, queue, trouble, st, answers, counts, history>>

\* A stop, a refusal or a provider error: the turn is over.
TurnEnds ==
    /\ pc = "asking"
    /\ pc' = "idle"
    /\ UNCHANGED <<disk, writing, at, transcript, st, answers, counts, history>>

\* The started record is offered immediately before the call is run, and not
\* waited for.
Start(c) ==
    /\ pc = "tools"
    /\ st[c] = "asked"
    /\ Offer(Line(Started(c)))
    /\ st' = [st EXCEPT ![c] = "started"]
    /\ UNCHANGED <<disk, told, trouble, pc, at, transcript, answers, counts, history>>

\* The call does what it was asked.
Run(c) ==
    /\ pc = "tools"
    /\ st[c] = "started"
    /\ st' = [st EXCEPT ![c] = "ran"]
    /\ effects' = effects \union {c}
    /\ UNCHANGED <<disk, writing, pc, at, transcript, answers, counts, receipts>>

\* A batch is answered before any call of it is finished, one call at a time.
Settled(c) == \A d \in DOMAIN st : st[d] # "started" /\ (d # c => st[d] \notin {"kept", "unkept"})

\* "done" is whatever the run answered, a failure of its own included.
AnswerOf(state) ==
    CASE state = "asked" -> "notrun"
      [] state \in {"ran", "kept"} -> "done"
      [] state = "unkept" -> "failed"

\* Work::finish of an approved call: its finished record is offered.
Finish(c) ==
    /\ pc = "tools"
    /\ Settled(c)
    /\ st[c] \in {"asked", "ran", "kept", "unkept"}
    /\ Offer(Line(Finished(c, AnswerOf(st[c]))))
    /\ answers' = [d \in DOMAIN answers \union {c} |->
                      IF d = c THEN AnswerOf(st[c]) ELSE answers[d]]
    /\ st' = [st EXCEPT ![c] = "ended"]
    /\ UNCHANGED <<disk, told, trouble, pc, at, transcript, counts, history>>

\* Work::finish of a call that was refused before it was approved.
Refuse(c) ==
    /\ pc = "tools"
    /\ Settled(c)
    /\ st[c] = "asked"
    /\ answers' = [d \in DOMAIN answers \union {c} |->
                      IF d = c THEN "notrun" ELSE answers[d]]
    /\ st' = [st EXCEPT ![c] = "ended"]
    /\ UNCHANGED <<disk, writing, pc, at, transcript, counts, history>>

(***************************************************************************)
(* put_call_result: a call left running in the background keeps its result *)
(* beside the log before it is accepted.                                   *)
(***************************************************************************)

\* sync_pending_result_source sends a barrier through the queue.
Put(c) ==
    /\ pc = "tools"
    /\ Settled(c)
    /\ st[c] = "ran"
    /\ Offer(Barrier)
    /\ pc' = "putting"
    /\ at' = [kind |-> "call", call |-> c]
    /\ UNCHANGED <<disk, told, trouble, transcript, st, answers, counts, history>>

\* Everything queued before the barrier is in the file: unless a write
\* failed, it is synced and the sidecar is made.
SourceSynced ==
    /\ pc = "putting"
    /\ told
    /\ told' = FALSE
    /\ IF trouble
       THEN /\ pc' = "tools"
            /\ at' = Nothing
            /\ st' = [st EXCEPT ![at.call] = "unkept"]
            /\ UNCHANGED <<disk, answers>>
       ELSE /\ pc' = "storing"
            /\ synced' = SyncAll
            /\ sidecars' = sidecars \union
                  {[call |-> at.call, answer |-> "done", state |-> "partial"]}
            /\ UNCHANGED <<log, end, at, st, answers>>
    /\ UNCHANGED <<queue, trouble, transcript, counts, history>>

\* The sidecars once the record of `c` is written to its end.
Whole(c) == {IF r.call = c THEN [r EXCEPT !.state = "whole"] ELSE r : r \in sidecars}

\* The record is written and synced, the receipt given, the call accepted.
Stored ==
    /\ pc = "storing"
    /\ sidecars' = Whole(at.call)
    /\ receipts' = receipts \union {at.call}
    /\ st' = [st EXCEPT ![at.call] = "kept"]
    /\ pc' = "tools"
    /\ at' = Nothing
    /\ UNCHANGED <<log, end, synced, writing, transcript, answers, counts, effects>>

\* The record could not be written or synced: what landed of it stays.
StoringFails ==
    /\ pc = "storing"
    /\ "sidecar" \in Faults
    /\ faults < MaxFaults
    /\ faults' = faults + 1
    /\ sidecars' \in {sidecars, Whole(at.call)}
    /\ st' = [st EXCEPT ![at.call] = "unkept"]
    /\ pc' = "tools"
    /\ at' = Nothing
    /\ UNCHANGED <<log, end, synced, writing, transcript, answers, passes, turns, crashes,
                   history>>

(***************************************************************************)
(* The end of a pass: the results line, then settle_call_results.          *)
(***************************************************************************)
PassEnds ==
    /\ pc = "tools"
    /\ \A c \in DOMAIN st : st[c] = "ended"
    /\ Record(Results(answers))
    /\ UNCHANGED <<st, answers, passes, turns>>

\* Nothing to settle, or records that do not load, end it there.
SettleLooks ==
    /\ pc = "settle"
    /\ IF Visible(sidecars) = {} \/ Unreadable(sidecars)
       THEN pc' = "asking" /\ UNCHANGED queue
       ELSE pc' = "settling" /\ Offer(Barrier)
    /\ UNCHANGED <<disk, told, trouble, at, transcript, st, answers, counts, history>>

SettleSynced ==
    /\ pc = "settling"
    /\ told
    /\ told' = FALSE
    /\ IF trouble
       THEN pc' = "asking" /\ UNCHANGED synced
       ELSE pc' = "removing" /\ synced' = SyncAll
    /\ UNCHANGED <<log, end, sidecars, queue, trouble, at, transcript, st, answers,
                   counts, history>>

\* results::settle, file by file; in a live session ("removing") and in one
\* being continued ("clearing").
Remove(r) ==
    /\ pc \in {"removing", "clearing"}
    /\ r \in Visible(sidecars)
    /\ sidecars' = (sidecars \ {r}) \union {[r EXCEPT !.state = "removed"]}
    /\ UNCHANGED <<log, end, synced, writing, running, counts, history>>

\* A record that cannot be removed ends it: a live session goes on, a
\* continued one is not opened.
RemovalFails ==
    /\ pc \in {"removing", "clearing"}
    /\ "sidecar" \in Faults
    /\ faults < MaxFaults
    /\ Visible(sidecars) # {}
    /\ faults' = faults + 1
    /\ pc' = IF pc = "removing" THEN "asking" ELSE "off"
    /\ UNCHANGED <<disk, writing, at, transcript, st, answers, passes, turns, crashes,
                   history>>

\* All removed: the directory is synced, and a continued session is open.
SettleEnds ==
    /\ pc \in {"removing", "clearing"}
    /\ Visible(sidecars) = {}
    /\ sidecars' = {}
    /\ IF pc = "removing"
       THEN pc' = "asking" /\ UNCHANGED transcript
       ELSE pc' = "idle" /\ transcript' = Messages(log)
    /\ UNCHANGED <<log, end, synced, writing, at, st, answers, counts, history>>

(***************************************************************************)
(* The writer thread.                                                      *)
(***************************************************************************)

\* The variation writes on after a fragment.
LandingsAfterFragment(l) ==
    {[log |-> Append(log, l), end |-> "whole", bad |-> FALSE]}
    \union {[log |-> log, end |-> "fragment", bad |-> TRUE] :
               k \in Faults \intersect {"fragment"}}

\* This variation keeps no trouble for a write that landed nothing.
LandingsUntold(l) ==
    {[log |-> Append(log, l), end |-> "whole", bad |-> FALSE]}
    \union {[log |-> log, end |-> "whole", bad |-> FALSE] :
               k \in Faults \intersect {"nothing"}}

\* Tail::append: what one line may leave behind it. `bad` where the failure
\* is kept as trouble.
Landings(l) ==
    IF end = "fragment" THEN {[log |-> log, end |-> end, bad |-> FALSE]}
    ELSE {[log |-> Append(log, l), end |-> "whole", bad |-> FALSE]}
         \union {[log |-> Append(log, l), end |-> "unended", bad |-> TRUE] :
                    k \in Faults \intersect {"newline"}}
         \union {[log |-> log, end |-> "unended", bad |-> TRUE] :
                    k \in IF end = "unended" THEN Faults \intersect {"newline"} ELSE {}}
         \union {[log |-> log, end |-> "whole", bad |-> TRUE] :
                    k \in Faults \intersect {"nothing"}}
         \union {[log |-> log, end |-> "fragment", bad |-> TRUE] :
                    k \in Faults \intersect {"fragment"}}

Land(l) ==
    \E left \in Landings(l) :
        /\ left.bad => faults < MaxFaults
        /\ faults' = IF left.bad THEN faults + 1 ELSE faults
        /\ trouble' = (trouble \/ left.bad)
        /\ log' = left.log
        /\ end' = left.end

\* One turn of log::write: append, flush, and say so where somebody waits.
WriterTakes ==
    /\ pc # "off"
    /\ queue # <<>>
    /\ queue' = Tail(queue)
    /\ told' = (told \/ Head(queue).ack)
    /\ IF Head(queue) = Barrier
       THEN UNCHANGED <<log, end, trouble, faults>>
       ELSE Land(Head(queue).line)
    /\ UNCHANGED <<synced, sidecars, running, passes, turns, crashes, history>>

(***************************************************************************)
(* The process ends.                                                       *)
(***************************************************************************)

\* What the process held in memory is gone.
Gone ==
    /\ pc' = "off" /\ at' = Nothing /\ transcript' = <<>>
    /\ st' = <<>> /\ answers' = <<>>
    /\ queue' = <<>> /\ told' = FALSE /\ trouble' = FALSE

\* Session::drop: the queue is drained and the writer joined first.
Leave ==
    /\ pc = "idle"
    /\ queue = <<>>
    /\ Gone
    /\ UNCHANGED <<disk, counts, history>>

\* What a kill may leave of the line the writer had begun.
Interrupted ==
    {<<log, end>>} \union
    IF queue # <<>> /\ Head(queue) # Barrier /\ end = "whole"
    THEN {<<log, "fragment">>, <<Append(log, Head(queue).line), "unended">>}
    ELSE {}

\* The process is killed: what it wrote stays, what was queued is lost.
Kill ==
    /\ pc # "off"
    /\ crashes < MaxCrashes
    /\ crashes' = crashes + 1
    /\ \E left \in Interrupted : log' = left[1] /\ end' = left[2]
    /\ Gone
    /\ UNCHANGED <<synced, sidecars, passes, turns, faults, history>>

\* What a machine that stops may keep: the synced lines, and of the rest a
\* beginning, which may end in the middle of a line.
Survivors ==
    {<<SubSeq(log, 1, n), e>> : n \in synced..Len(log), e \in {"whole", "fragment"}}
    \union {<<SubSeq(log, 1, n), "unended">> : n \in (synced + 1)..Len(log)}

\* The whole records stay, a half-written one may, and a removed one may be
\* back.
SurvivingSidecars ==
    LET whole == {r \in sidecars : r.state = "whole"}
        half == {r \in sidecars : r.state = "partial"}
        back == {[r EXCEPT !.state = "whole"] : r \in {q \in sidecars : q.state = "removed"}}
    IN  {s \in SUBSET (whole \union half \union back) : whole \subseteq s}

MachineStops ==
    /\ PowerLoss
    /\ pc # "off"
    /\ crashes < MaxCrashes
    /\ crashes' = crashes + 1
    /\ \E left \in Survivors : log' = left[1] /\ end' = left[2]
    /\ sidecars' \in SurvivingSidecars
    /\ Gone
    /\ UNCHANGED <<synced, passes, turns, faults, history>>

(***************************************************************************)
(* Session::continuing: replay, cut, write what was recovered, sync, settle*)
(***************************************************************************)

\* The log is read and cut to what was settled.
Continue ==
    /\ pc = "off"
    /\ LET f == Readable(log, end) IN
       /\ ~Refused(f, sidecars)
       /\ log' = SettledLines(f, sidecars)
       /\ synced' = IF synced <= Len(log') THEN synced ELSE Len(log')
       /\ IF Recovers(f, sidecars)
          THEN pc' = "recovering" /\ UNCHANGED transcript
          ELSE IF Visible(sidecars) # {}
               THEN pc' = "resyncing" /\ UNCHANGED transcript
               ELSE pc' = "idle" /\ transcript' = Messages(log')
    /\ end' = "whole"
    /\ UNCHANGED <<sidecars, writing, at, st, answers, counts, history>>

\* The recovered results line, on a log that was just cut.
Recover ==
    /\ pc = "recovering"
    /\ log' = Append(log, Recovered(log, sidecars))
    /\ pc' = "resyncing"
    /\ UNCHANGED <<end, synced, sidecars, writing, at, transcript, st, answers, counts,
                   history>>

\* The recovered line could not be written: the session is not opened.
RecoverFails ==
    /\ pc = "recovering"
    /\ faults < MaxFaults
    /\ faults' = faults + 1
    /\ \E left \in Landings(Recovered(log, sidecars)) :
          left.bad /\ log' = left.log /\ end' = left.end
    /\ pc' = "off"
    /\ UNCHANGED <<synced, sidecars, writing, at, transcript, st, answers, passes, turns,
                   crashes, history>>

Resynced ==
    /\ pc = "resyncing"
    /\ synced' = SyncAll
    /\ pc' = "clearing"
    /\ UNCHANGED <<log, end, sidecars, writing, at, transcript, st, answers, counts,
                   history>>

Next ==
    \/ Say
    \/ \E asked \in SUBSET Calls : ModelAnswers(asked)
    \/ Recorded
    \/ TurnEnds
    \/ \E c \in DOMAIN st :
          Start(c) \/ Run(c) \/ Finish(c) \/ Refuse(c) \/ Put(c)
    \/ SourceSynced
    \/ Stored
    \/ StoringFails
    \/ PassEnds
    \/ SettleLooks
    \/ SettleSynced
    \/ \E r \in sidecars : Remove(r)
    \/ RemovalFails
    \/ SettleEnds
    \/ WriterTakes
    \/ Leave
    \/ Kill
    \/ MachineStops
    \/ Continue
    \/ Recover
    \/ RecoverFails
    \/ Resynced

\* The writer thread and the runner's task are scheduled; what the model, the
\* tools and the reader do, and what fails, is not promised.
Fairness ==
    /\ WF_vars(WriterTakes)
    /\ WF_vars(Recorded \/ SourceSynced \/ Stored \/ SettleLooks \/ SettleSynced
                \/ SettleEnds \/ \E r \in sidecars : Remove(r))
    /\ WF_vars(Recover \/ Resynced)

Spec == Init /\ [][Next]_vars
FairSpec == Spec /\ Fairness

(***************************************************************************)
(* Properties.                                                             *)
(***************************************************************************)

Opening == {"recovering", "resyncing", "clearing"}
Live == pc \notin Opening \union {"off"}

\* What the next process would find, were this one killed now, and were the
\* machine to stop now.
Killed == {[lines |-> Readable(left[1], left[2]), sidecars |-> sidecars] :
              left \in Interrupted}
Lost == {[lines |-> Readable(left[1], left[2]), sidecars |-> s] :
            left \in Survivors, s \in SurvivingSidecars}
Disks == Killed \union (IF PowerLoss THEN Lost ELSE {})

Back(d) == Replayed(d.lines, d.sidecars)

\* What the conversation that comes back answers, and with what.
AnsweredBack(d) ==
    AnsweredIn(SettledLines(d.lines, d.sidecars))
    \union (IF Recovers(d.lines, d.sidecars)
            THEN AnsweredIn(<<Recovered(d.lines, d.sidecars)>>) ELSE {})

\* The calls it says did, or may have done, what they were asked.
ToldToHaveRun(d) ==
    {r[1] : r \in {q \in AnsweredBack(d) : q[2] \in {"done", "failed", "mayhaverun"}}}

IsPrefixOf(s, t) == Len(s) <= Len(t) /\ s = SubSeq(t, 1, Len(s))

LineType ==
    [kind : {"user"}, number : 1..MaxTurns]
    \union [kind : {"agent"}, number : 1..MaxPasses, calls : SUBSET CallId]
    \union [kind : {"results"}, answers : UNION {[asked -> Answer] : asked \in SUBSET CallId}]
    \union [kind : {"started"}, call : CallId]
    \union [kind : {"finished"}, call : CallId, answer : Answer]

Message == {l \in LineType : IsMessage(l)}
RequestType == [line : LineType, ack : BOOLEAN] \union {Barrier}
CallState == {"asked", "started", "ran", "kept", "unkept", "ended"}
Sidecar == [call : CallId, answer : Answer, state : {"partial", "whole", "removed"}]

DiskType ==
    /\ log \in Seq(LineType)
    /\ end \in {"whole", "unended", "fragment"}
    /\ synced \in 0..Len(log)
    /\ sidecars \subseteq Sidecar

WritingType ==
    /\ queue \in Seq(RequestType) /\ Len(queue) <= QueueLen
    /\ told \in BOOLEAN /\ trouble \in BOOLEAN

RunningType ==
    /\ pc \in {"idle", "asking", "recording", "tools", "putting", "storing", "settle",
               "settling", "removing", "off"} \union Opening
    /\ at \in {Nothing} \union LineType \union [kind : {"call"}, call : CallId]
    /\ transcript \in Seq(Message)
    /\ st \in [DOMAIN st -> CallState] /\ DOMAIN st \subseteq CallId
    /\ answers \in [DOMAIN answers -> Answer] /\ DOMAIN answers \subseteq DOMAIN st

CountsType ==
    /\ passes \in 0..MaxPasses /\ turns \in 0..MaxTurns
    /\ crashes \in 0..MaxCrashes /\ faults \in 0..MaxFaults

HistoryType == effects \subseteq CallId /\ receipts \subseteq effects

\* Every variable stays what it is declared to be, the queue within QUEUE, the
\* synced part within the file, and a receipt is for a call that ran.
TypeOK == DiskType /\ WritingType /\ RunningType /\ CountsType /\ HistoryType

\* Whenever the process or the machine stops, no durable result is left with
\* no call to answer, which every later replay would refuse: the call's line
\* is on the disk before the sidecar is, and the sidecar goes only after the
\* results line is there (put_call_result, settle_call_results, continuing).
NoOrphanedResult == \A d \in Disks : ~Orphaned(d.lines, d.sidecars)

\* A result whose receipt was given, so that the background call was
\* accepted, is what every later replay answers that call with, through any
\* number of kills, power losses and unfinished recoveries.
AcceptedResultIsReplayed ==
    receipts # {} =>
        \A d \in Disks :
            Unreadable(d.sidecars) \/ receipts \X {"done"} \subseteq AnsweredBack(d)

\* What comes back is the start of the conversation the runner held, never one
\* with a hole in it; only a recovered results line may follow it
\* (docs/sessions/sessions.md:180).
NeverAHole ==
    Live => \A d \in Disks :
        IsPrefixOf(Messages(SettledLines(d.lines, d.sidecars)),
                   IF pc = "recording" THEN Append(transcript, at) ELSE transcript)

\* The same under every failing write: what comes back has a hole in it only
\* where this session kept a failed write as its trouble.
LossIsTold == ~trouble => NeverAHole

\* A kill costs no message the runner went on from: short of trouble, all of
\* the transcript comes back but for a last answer whose calls are open.
KillKeepsTheAcknowledged ==
    Live /\ ~trouble => \A d \in Killed :
        IsPrefixOf(IF Outstanding(transcript) = {} THEN transcript
                   ELSE SubSeq(transcript, 1, Len(transcript) - 1), Back(d))

\* A call that did what it was asked, and whose start is in the log, is never
\* cut off and never told as a call that did not run.
RecordedEffectIsTold ==
    effects # {} =>
        \A d \in Disks :
            \/ Unreadable(d.sidecars)
            \/ {c \in effects : \E i \in 1..Len(d.lines) : d.lines[i] = Started(c)}
                  \subseteq ToldToHaveRun(d)

\* The turns before the line a kill interrupted are still a transcript, and
\* continuing hands them back (docs/sessions/sessions.md:173).
KilledSessionContinues == \A d \in Killed : ~Refused(d.lines, d.sidecars)

\* A replay never tells the model another outcome of a call than the one the
\* runner told it: at most it no longer knows one.
ReplayAgrees ==
    Live /\ answers # <<>> =>
        \A d \in Disks : \A r \in AnsweredBack(d) :
            r[1] \in DOMAIN answers => r[2] \in {answers[r[1]], "mayhaverun", "interrupted"}

\* No step but the loss of the machine takes back an answer whose line is
\* whole: not the cut of a continued log, not a recovery that was killed.
AnswersStay ==
    [][ (\/ ~PowerLoss \/ pc' # "off" \/ pc = "off")
          => AnsweredIn(Readable(log, end)) \subseteq AnsweredIn(Readable(log', end')) ]_vars

\* Whoever waits for a line or a barrier is answered, or the process is gone.
WaitsEnd ==
    /\ (pc = "recording") ~> (pc # "recording")
    /\ (pc = "putting") ~> (pc # "putting")
    /\ (pc = "settling") ~> (pc # "settling")
=============================================================================
