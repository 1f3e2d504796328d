# Crucible Code, verified

TLA+ models of the parts of Crucible Code that several threads, several
processes or a crash can put into an order nobody wrote a test for, the TLC
instances that check them, and TLAPS proofs of what holds for every value of
their constants. The reference is the Rust source under `src/`; a definition
here translates code, and where a document says something else the two are
compared (see *Where the documents and the code part*).

Crucible Code is a coding agent for the terminal. A reader's prompt starts a
*turn*; a turn is a loop of *passes*, in each of which the model is asked, its
answer recorded, and the tools it calls are run and their results recorded. A
session's log is the only durable copy of that conversation, and a session can
be continued by a later process, after a clean end, a kill or a power loss.
Instead of its own loop a session can drive another agent's program (an
*external harness*), whose questions to the reader are decided through the same
contract.

## The system

Every part the source names, the state it keeps, what it does, and what must be
true of it. The status of each is in `PROJECT.json`.

| Part (crate, files) | State | Operations | Talks to | Hard because | Must hold |
|---|---|---|---|---|---|
| Session log (`crucible-session`: `session.rs`, `session/{log,replay,results,recent,wire}.rs`) | log file and its end, sidecars, queue of 256, writer thread, first trouble | record, write, barrier, put / settle a call's result, continue (replay, cut, recover, resync, settle), drop | runner calls it; a writer thread shares the queue; the next process reads the files | kill between any two file operations, partial writes, bounded queue shared by waiting and blocking senders | what comes back is a prefix of what was said; no result lost, orphaned or contradicted; whoever waits is answered |
| Runner (`crucible-runner`: `runner.rs`, `runner/{passes,work,record,load,compaction,clearing}.rs`) | transcript, the calls of the pass, two runs of tools at once, mailbox of results | turn, pass, approve, run, finish, record, stop | session, provider, tools, journal | calls run together, stop while they run, failure of the log | every call asked for is answered once and in the log before the next request |
| Pending questions (`crucible-execution/src/pending.rs`, `crucible-external-harnesses/src/pending.rs`) | open questions, generation, turn, request number; one process-wide counter | new, begin, end, relaunch, raise, settle, holds | agent's frames raise, the interface's thread settles | decisions arrive late, from an older turn, program or table | a decision settles only the question it was made for, once |
| External agent run (`crucible-external-harnesses/src/{host,lib,journal}.rs`, `store/`) | process, control (table, stop flag, queue of decisions), the one place for an agent | launch, prompt, turn, decide, interrupt, finish, drop | sandbox, interface, journal | stop, decision and answer race the turn's end; a process that will not die | a decision reaches only its own turn; a stop stops the turn it was meant for; one process at a time |
| Native turn surface (`crucible-app/src/native.rs`) | runner slot, table, waiting answers | prompt, decide, interrupt | runner, interface | interrupt races a question being raised | no question stays open past a stop for good |
| Session claim (`session/claim.rs`, `session.rs`: start, continue, rename) | lock file, names, index entry | claim, start, continue, delete | other processes | two processes, file systems without locks | one process appends to a log |
| Index, listings, display (`session/{index,beside,places,display,prompts}.rs`) | index and the mark that vouches for it, display records | put in order, record, tally, retitle, list | other processes, older builds | two files replaced one after the other | no session is left out of an index nobody scans for again |
| Checkpoints, prompt cache (`checkpoint.rs`, `prompt_cache.rs`) | one file each | save, load, remove | runner, sandbox | replacement across a kill | the old or the new, never neither |
| Groups, cancellation (`crucible-runtime`: `cancel.rs`, `group.rs`) | tasks, flags, listeners, deadlines | spawn, reap, shutdown; request, race, reset | everything that waits | notice against flag, tasks that never yield | a request is heard; every task is accounted for |
| Tools and permissions (`crucible-tools`, `crucible-builtins`) | rules, sessions' grants, running commands | decide, run, read, write, edit, background | runner, sandbox | grants change while calls wait; atomic writes | what is denied does not run |
| Sandbox, journal, stores (`crucible-sandbox*`, `crucible-storage`) | prepared policy, overlay, journal, interruptions | prepare, publish, roll back, resume | runner, kernel | publication of many files across a kill | all of a transaction or none |
| MCP and transports (`crucible-mcp`, `crucible-transport`) | connections, restart budget | start, call, restart, close | servers | restart while calls wait | a call is answered by the connection it was sent on |
| Accounts (`crucible-auth`: `oauth/{renewal,openai}.rs`, `store.rs`) | the store's document and its lock, the one place per owner, the rotation of each account, a credential's copy | authorize, renew, join, store, sign in and out, abort | other processes, the provider | two processes and one refresh token, waiters of a rotation that is aborted | a refresh token is spent once; nobody's write undoes another's |
| Update (`crucible-update`: `install/{activate,stage,layout}.rs`, `command/apply.rs`) | releases, `current` link, receipt, lock link | lock, recover, stage, activate, roll back | other processes | kill or power loss between renames, syncs that fail | `current` names a whole release; what is answered is so |
| Providers, models, HTTP, config, context, registry, credentials, privacy | no shared state | conversions, merging | runner | wire formats | (unit tests are the better tool) |
| Terminal interface, app, client protocol, CLI | screen and one thread's state | keys, drawing, wiring | all of the above | layout | (unit tests are the better tool) |

## What is modelled

| Module | Code | What it is |
|---|---|---|
| `SessionLog` | `session.rs`, `session/{log,replay,results}.rs`, `runner.rs`, `runner/{work,record}.rs` | the runner's writes, the writer thread's landings, kill, power loss, replay and recovery |
| `LogQueue` | `session.rs` (`sent`, `landed_async`, `append_journal`), `session/log.rs` | how one request gets through the bounded queue, and what happens when the writer comes apart |
| `Pendings` | `crucible-execution/src/pending.rs`, `crucible-external-harnesses/src/pending.rs` | every table of a process, over the one counter |
| `NativeTurn` | `crucible-app/src/native.rs` | the runner behind the table: prompts, questions, decisions and interrupts; extends `Pendings`, whose actions are part of its own |
| `AgentRun` | `crucible-external-harnesses/src/host.rs`, `crucible-app/src/{external,outside,launching}.rs` | the one place for an agent's process: launch, turns, decisions, stops, closing, and a sign-in beside them |
| `Stop` | `crucible-runtime/src/cancel.rs` (what it promises) | the abstract specification: a race ends with its answer or with a stop, and never goes on beside either |
| `Cancel` | `crucible-runtime/src/cancel.rs` | tokens, flags, listeners, timers: how a race finds out |
| `TaskGroup` | `crucible-runtime/src/group.rs`, the turn of `cli/converse.rs` | `Cancel` composed with a group's owner, its tasks and the keyboard; shown to implement `Stop` |
| `ToolPass` | `runner/work.rs` | the pass that runs the calls of one answer: waves, batches, mailbox, stop, dropped turn |
| `Activation` | `crucible-update`: `install/{activate,stage,layout}.rs`, `command/apply.rs` | updates on a disk that loses what was not synced |
| `Renewal` | `crucible-auth`: `oauth/{renewal,openai}.rs`, `store.rs` | rotations of an account's tokens, and sign-ins beside them |
| `SessionClaims` | `session/{claim,index,glimpse}.rs`, `session.rs` (`naming`, `taking`, `continuing`, `drop`) | who has a session, how one is named and come by, and the index every process replaces |
| `MC*` | | instances for TLC: names for model values, sets, symmetry (`AgentRun` needs none: its constants are numbers) |
| `*Proofs` | | the theorems of eight of them |

How they fit together: `SessionLog` takes the queue as an atomic bounded channel
whose room is waited for; `LogQueue` is that channel in detail (notice of room,
refused offer, answer, closing), so that `SessionLog` need not interleave it
with crashes. `SessionLog` also takes for granted that a pass answers each call
once and in order, which is what `ToolPass` shows of the code that does it, with
the stop that `Cancel` delivers as one flag, and that one process at a time has
the log, which is `OpenLogIsItsOwn` of `SessionClaims`. `NativeTurn` and `AgentRun` are two
backends behind one contract: the first extends `Pendings`, the second keeps the
number of a question and its turn, and leaves to `Pendings` what makes a
reference stale.

### SessionLog

The disk is `log`, the lines whose bytes are all in the file; `end`, what an
interrupted or failed write left after them (nothing, a line owed its newline, a
fragment); `synced`, how many lines survive a power loss; and `sidecars`, the
results of calls left running in the background, which live in files of their
own until a results line holds them. The writer's side is `queue`, `told` (the
acknowledgement the runner waits on; there is one runner, which waits for one
thing at a time) and `trouble` (the first failure, kept for the reader). The
process is `pc` with `at`, the runner's `transcript`, and how far each call of
the pass has come (`st`, `answers`). `effects` and `receipts` are history.

A line is what replay tells apart: a prompt, an answer with the calls it asks
for, a results line, the started and the finished record of a call. Texts are
gone; a message is told from another by its number. A kill (`Kill`) keeps what
was written, may leave the head of the queue cut in the middle or without its
newline, and loses the queue and the memory. A power loss (`MachineStops`) keeps
the synced lines and any beginning of the others, and may bring back a sidecar
whose removal was not yet synced in its directory.

`Continue` is `Session::continuing` up to where it writes: read whole lines,
refuse a sidecar that is not whole or has no call to answer, cut the log to what
is settled. `Recover`, `Resynced`, `Remove`, `SettleEnds` follow in the code's
order, each a step that a kill may come after.

### LogQueue

`Session::sent` listens for room *before* it offers, because
`Notify::notify_waiters` keeps nothing for a listener that comes later. Each
await and each channel operation is a step. The writer's `Take`, `TellRoom`,
`Answer` are the loop of `log::write`; `Die`, `Close`, `TellClosed` are an
unwinding sink and `Closing::drop`. Blocking senders (`append_journal`,
`append_prompt`) are `Send`: the channel holds the thread until there is room,
so that the step is enabled only then.

### Pendings

Every operation is done under its table's lock, so it is one step; only making a
table takes two numbers from the shared counter, with other tables in between.
`Settle` takes any reference any table ever handed out to any table, in any
period, which is what a decision made late or brought to the wrong agent is.

### NativeTurn

The prompt's future is `at`: it takes the runner (`held`), resets the stop,
learns its turn's number from the runner and begins the table, prepares a call,
raises its question (table and `waiting` under both locks: one step), posts it,
waits, goes on; and at its end ends the table, posts the outcome and puts the
runner back. `DropPrompt` is that future dropped wherever it awaits, which puts
the runner back and tells the table nothing. The clients are threads: `Decide`
settles under the locks and takes the sender, `Send` sends after both are let
go; `Interrupt` sets the flag, `Drain` settles whatever is open as denied. A
question is posted before it can be named, and a client may name any it was ever
told of. What a turn that runs on after a stop still asks is part of the model:
`PrepareCall` looks at the flag once, as `ask` does, and what is raised after
the drain waits (see *Met and not a run*).

### AgentRun

One agent, and everything that contends for it. `running` and `unstopped` are
`Shared`'s two flags: the place is taken, and taken for good. A launch looks,
takes the place by compare and exchange, forgets the last run's stop and
questions, and starts a process; each of its ways out gives the place back or
spends it. A run is then held by `External`'s slot (`idle`, `away` with a turn,
`closing`, `spent`, `closed`, `unstopped`), and `pc` says what the one future
that holds or launches it is at: `Host::turn` from the begun table through the
exchange to `Away::drop`, or `Host::stop` of a run that is closed or spent. A
future may be dropped wherever it waits (`LaunchEnds`, `UnspokenEnds`,
`Abandon`, `FinishAbandoned`, `StopEnds` of a run whose end is not known).

Beside it: an interrupt, which sets the flag and then rings under the slot's lock
(`ringing`, during which no step that needs the lock is enabled); decisions,
which settle in the table and go to the queue in one step under the table's
lock; a close that finds a turn under way; the program, which may end, be silent
or ask at any time; and a sign-in that takes the same place around a child of
its own. `alive`, the processes that run, and what the program is in the middle
of are outside the code: the properties compare them with what it believes.

### Stop, Cancel and TaskGroup

`Cancel` is `Cancellation` and `race`. A request stores the flag and then rings
(`Request`, `Ring`: two steps of any thread). A race enables a listener on its
token and on every ancestor (`Listen`), asks its work (`Ask`), looks at each flag
(`Look`), polls each listener (`Hear`), sets its timer for the earliest deadline
(`SetTimer`) and sleeps; `Wake` is the task polled again. tokio's `Notify` is
external: a ring reaches the listeners enabled before it and wakes those that
were polled. `Reset` lowers the flag.

`TaskGroup` composes it with those who use it. The loop at the keyboard resets
the session's token *before* the turn exists (`StartTurn`), and raises it at a
press; the group's owner spawns under its limit, reaps what ended, and shuts down: asks,
rings, waits one grace, aborts, waits another, collects what ended meanwhile and
tells the rest abandoned. Tasks answer, are stopped, come apart while polled
(`Unwinds`), are taken by an abort where they wait (`Taken`, whose cleanup may
unwind too), or never come back from a poll (`Stuck`). The runner's `run_batch`
spawns into a group, reaps it and may drop it (`Leave`); `Group::shutdown` is
called by its tests alone so far, and is modelled as they and its documentation
have it.

`Stop` is what waiting under a token promises, with none of that: three
variables of the world, and `outcome`. `Races == INSTANCE Stop WITH outcome <-
Outcome` maps a race that listens, looks, hears or sleeps to one that is racing;
the run `stop` checks `Races!Spec`, its liveness included.

### ToolPass

`pc` is where `Work`'s loop over the calls is: `top` (the next wave, or the rest
answered without being run), `preparing` (decisions, one call at a time),
`batching`, `starting` and `collecting` (up to `TOOL_RUNS` runs beside each
other), `settling`, `finishing`. A batch's runs are tasks that print, do their
work and answer when they like; the mailbox (`answers`, `written`, `parked`,
`closed`) is `Shared` with its `Held`, and `woken` is the turn's waker. A run
that finds the mailbox full parks until it is told of room; the poll of the
turn takes what was printed *before* it looks at the answers. A dropped turn
closes the mailbox and tells whoever is parked (`Drop`); a run that unwinds
answers that it panicked.

What a call is answered with is `Marked`, `Fits`, `LeftOut`, `SaysOf`, `Settle`:
its own words where there is room for them, a stand-in that says how it ended
where there is not, and never more than the turn's allowance `room`, for which
the longest stand-in is set aside for each call to come. A text is its length.

### Activation

`prefix` and `shelf` are the two directories as every process sees them,
`prefixes` and `shelves` the states a loss of power may leave of each: a change
adds one, a sync leaves only the last. What is inside a release is `part`,
`written` or `whole` (synced). An update asks for the newest release, takes the
lock by making a link that must not be there, reads the layout again under it,
removes what an interrupted install left, stages, seals, places or reuses,
links, switches by a rename, tries the new executable, rolls back, unlocks; each
file-system call is a step, each may fail, and each may be followed by a kill or a
loss of power. A lock left behind is removed by a person, no update running.
`Seal` syncs the parent directory, which makes an earlier placement that could
not be synced durable as well.

### Renewal

A rotation `k` is of a process and a name: it waits for the owner's one place,
for the store's lock, reads the document under the lock, presents the token,
and writes the whole document as it read it, with the new token in it. `last` is what the
last rotation of the account came to, which is what credentials that share it
look at first; `waiting` are those that joined it. The lock is the operating
system's and is free when its process dies; a write, once begun, is not
cancelled by an abort (`orphan`). The service takes a token once; a presentation
*came to nothing* when its answer was lost, refused, of another account, or could
not be written. A process is signed in to the account it started with (`First`).
A provider's account may be stored under several names (`ProviderOf`): a sign-in
under one of them takes what the others hold out in the same write, and a
sign-out, or a key that is kept, all of it (`Siblings`, `Document::clear`,
`Store::forgotten`); a name the store was told no provider of stands alone.

### SessionClaims

A run is one session of some process, from how it is come by to its drop; a
process that moves on takes the next session before it lets go of its own, which
is two runs. `claim` is who has locked the mark beside each log, `log` the log
under each name (made, with a whole header, torn, and its lines, each told by
the run that wrote it), `index` the newest sessions, `ordered` the text its mark
vouches for, `lock` the index's. A start mints a name (any: clocks go back),
claims it, makes the log if there is none, records it, writes the header:
`Settling::Now` in that order after the index was put in order,
`Settling::Deferred` on the session's writer. `Refused` is what each undoes. A
continue claims, replays, cuts, opens. A change of the index locks it, reads it
and puts the new text together (`Drafts`), renames it over the old one
(`Replace`), and leaves the mark (`LeaveMark`), which may stay what it was or
end up torn. `Kill` frees every lock of the run and may leave a line or the mark
in part. A glimpse holds the claim for as long as it asks about it.

What the index says of a session, its count and its title, is left out; that a
text which says something else is not the one the mark was left for is not
(`Replace` of an amendment). `OlderBuild` is outside the code: a build that
knows no mark records a session under the same lock, in the order of names, and
lets go of any other. Its session's name is none that the index or the mark
already holds. `index.rs:17-20` has it that what an older build wrote no longer
matches the mark. A record of this build may turn it back: once a session that
the older build's text names has taken another's place, a retitle or a record
that writes the very text the mark was left for is vouched for again, with the
older build's session out of it. The history `older` is "wrote" from the
older build's record to this build's next scan, and "came back" once that
happens; `VouchedIsComplete` excepts that case and nothing else. Two names and a
third are enough for the text to come back, and the run reaches that; a session is
missing from it only where there are four. What a log's lines say is
`SessionLog`'s.

## Runs

`PROJECT.json` names the properties of each run; each property has a variation
of the code (a definition beside the one it varies, such as `ListenLater` beside
`Listen`) under which the same run finds it violated.

| Run | Asks | Instance, and why it is enough |
|---|---|---|
| `crash` | what comes back after a kill or a power loss at any point, recovery included | two calls, so that a pass holds one finished and one kept or open; two passes, so that a pass follows a settled one; queue of 2, so that it fills; a fragment write. One crash is enough: the invariants range over `Disks`, everything a *further* kill or power loss would leave in the state at hand, so each recovery is itself interrupted everywhere |
| `faults` | whether every loss is told, and whoever waits is answered, when writes fail | every kind of failing write, two of them, so that a second meets the end the first left; two prompts and two passes, so that writes follow a failed one. Fair |
| `queue` | whether a sender can be forgotten, answered wrongly, or its lines reordered | a queue of 2 and two senders with three lines each, waiting or blocking, and a writer that may come apart at any line. Fair |
| `pending` | whether a late or misdirected decision can settle anything, and whether a table's two lists agree | two tables over one counter that runs out while one of them is started again, so that equal session, turn and request numbers meet; a table's bound of 2 questions reached; request numbers that run out; two names |
| `native` | whether a question can be waited on that nobody can answer, and whether what is decided reaches its call | two turns, so that what one leaves meets the next; two clients, so that a decision and a drain, or two decisions, overlap; three questions, prompts dropped at every await |
| `agent` | whether two processes run, a free place hides one, or a stop or a decision reaches a turn it was not meant for; whether a stop ends its turn | two processes, so that one follows another that was closed, failed or was left, or contends with a sign-in; two turns, so that what is left by one meets the next; two questions with room for one, so that one is answered while another's answer is on its way. Fair |
| `stop` | whether a stop can be slept over or taken back before it is seen, whether races keep what `Stop` promises, and whether a group's end accounts for its tasks | a lineage of three (session, group, call with a deadline), so that a request reaches a grandchild; a task that may never come back beside one that does; a limit of one, so that a spawn is refused and one follows a reap; two turns and presses. Fair |
| `toolpass` | whether a call can be answered twice, out of order, falsely, or before what it printed; whether conflicting calls overlap; whether a parked run is forgotten | three calls, either free of each other or two on one key and one by itself, so that a wave has several batches, and several waves follow; two at a time, so that a slot is used again; a mailbox of one piece; room for every answer in full, or for stand-ins only |
| `activation` | whether any kill, loss of power or failed sync leaves no whole release active, makes it older, or makes an answer untrue | two updates at once over three versions of two builds each, so that one finds the other's release, the same version of another build, or a newer one; two losses of power, so that a recovery is interrupted too |
| `renewal` | whether a token is presented twice, a write undone, or a waiter forgotten | two credentials of one account in one process and one in another, so that rotations are joined and contended; a second name of the same provider, so that a sign-in takes the renewed one out, and one of another provider, so that a write could undo a neighbour's; three tokens, so that one follows a renewed one; two accounts |
| `claims` | whether a session can have two owners, a start come to a log that is not its own, or a session be left out of an index that asks for no scan | two runs, so that every start or continue meets another at any step; three sessions and an index of two, so that the window is full and a session may be older, newer or between, and an older build's text may be turned back; logs and lines bounded together, so that there are three logs, or one that is written to |
| `kill` | whether the code does what a document says | the smallest instance that shows that it does not |

Every bound is a constant: `MaxPasses`, `MaxTurns`, `MaxLines`, `MaxPeriods`,
`MaxStarts`, `MaxQuestions`, `MaxNumber`, `MaxRequest`, `MaxPresses`, `MaxNow`,
`MaxPieces`, `MaxTokens`, `MaxDisk` end the behaviour; `MaxCrashes`, `MaxFaults` and
`Losses` what goes wrong. `claims` checks for deadlock: a run can always begin.
`CHECK_DEADLOCK FALSE` is said elsewhere because a session that
nobody prompts, a table nobody uses, a pass that is through and a behaviour at
its bounds do stop; that nobody who waits is left waiting is stated as
`WaitsEnd`, `EveryWriteIsAnswered`, `ParkedIsToldOfRoom`, `NobodyIsForgotten`
and the properties of `stop` instead. Symmetry is over calls, names, tables,
clients, processes or credentials, and only in runs without liveness.

### Fairness

Weak fairness is assumed of the writer thread (a thread the system schedules,
which blocks only on its queue), of the runner's continuation once what it
awaits is there (tokio polls a woken task), and of the steps that open a
continued session (they run to their end in one function). In
`AgentRun` the turn's future is polled, its look at the bell is never starved
(the `select!` is biased: decisions, which are bounded, then the bell), its
writes, its grace and its stops all end (each waits under a timeout), and
whoever set the flag rings. The slot's lock is had in the end (strong fairness
of `Return` and `Closes`): a mutex held for a few instructions at a time, which
a reader who interrupts again and again does not hold for good.

In `TaskGroup` whoever raised the session's flag rings (`PressRings`: two lines
of one function); the owner goes on with a shutdown it has begun, whose two
graces are timeouts and end (the owner is a task itself and needs a worker to be
polled on, which `group.rs:225-229` says it lacks where a task holds the last one
in synchronous work; the runtime the program builds has four and lets its
tool runs hold at most two of them, `crucible-app/src/runtime.rs:68-85`); and the runtime polls a task that is awake and
drops one that was aborted, except those that are `Stuck` in a poll. Time is not
fair: nothing needs a deadline to pass. What is *not* assumed shows in the
properties: `GroupEnds` holds with a task that never yields, and
`PressStopsTheTurn` speaks of tasks that are polled.

Nothing is assumed of
the model, a tool, the reader, or of failures: `ModelAnswers`, `Run`, `Say`,
`TurnEnds`, `Kill`, `WorkIsReady`, `Press` and every fault may never happen.
`ToolPass`, `NativeTurn`, `Activation`, `Renewal` and `SessionClaims` state safety
only.

## Proofs

TLAPS checks each theorem for every value of the constants; the only assumptions
are the named `ASSUME`s of the modules (a queue of at least one, bounds that are
naturals, switches that are Booleans, a token that is first of its own lineage,
which names none twice, a `None` that is no run and no name), which TLC
evaluates in every run. Where a theorem assumes more, its statement says so: of
`SessionLog` some hold only where certain writes do not fail.

`SessionLogProofs`, `TypeCorrect`: `Spec => []TypeOK`. What is not obvious is
that the disk stays typed: `synced <= Len(log)` across cuts, kills and
recoveries; that a recovered results line answers exactly the outstanding calls
with answers; that what the runner offers fits the queue; and that a receipt is
for a call that ran. `TypeOK` is not inductive: `Recorded` reads `at`, `Stored`
and `SourceSynced` read `at.call`, and `AnswerOf` is undefined for a call that
has only started. `IInv` adds

 * `Held`: `at` is a message exactly while one is recorded and a call of the
   pass exactly while one is kept,
 * `RanIsDone`: a call that ran, or was kept, is in `effects`,
 * `OwedHasALine`: an end that is owed its newline has a line to owe it, so that
   dropping that line leaves a log.

The helpers `Messages` and `LastMessage` avoid recursion, so that their typing is
provable (lemmas of their own) instead of an induction.

Every safety property of `SessionLog` that a run checks is proved there, for any
number of calls, passes, lines, faults and crashes. To `IInv` each adds what it
needs of the following, each inductive beside those before it:

 * `Waiting`: which request the runner waits for is the last in the queue, and a
   session that is off, opening or has just been opened remembers nothing;
 * `Follows`: without trouble the last line is whole and the messages in the log
   are the transcript, but for the one being recorded; a line whose newline is
   owed is not synced. `LossIsAlwaysTold` and `KillKeeps` follow, whatever fails;
 * `Memory`: what the runner knows of each call of its pass (which were
   answered, which did something, which have a receipt) and that earlier passes
   are over; `Agreeing`: what the log, the queue and the sidecars say of a call
   is what the runner knows. `ReplayIsTrue` follows;
 * `TroubleIsFragment`, `Begins`: trouble leaves a fragment, behind which
   nothing is written, so that the log is a beginning of the conversation
   (`NoHoleEver`);
 * `Shaped`: the shape of the log. A message comes only where no call is
   outstanding, a started or finished record is of a call that is, a results
   line answers exactly those that are; where sidecars are made, the line that
   asks is synced, and where they are removed the one that answers is;
 * `StartsAreTold`: in every beginning of the log, a start has a question before
   it and is outstanding, or answered with a word that does not deny what the
   call did (`EffectIsTold`);
 * `ReceiptsAreSafe`: for each receipt, whatever of the unsynced end is lost, a
   whole record and its question are there, or an answer of that record is
   (`AcceptedIsReplayed`); `SidecarsAreSafe`: the same of every sidecar
   (`NoOrphanEver`).

`AnswersAreKept` is an action property, of `IInv` and what a replay reads alone.
What the theorems assume of `Faults` is what the code does not survive: with any
one of the faults it leaves out, TLC finds the property violated on the instance of
`crash` (a newline has to fail twice: two faults, two turns):

| Theorem | Faults it allows | The others |
|---|---|---|
| `LossIsAlwaysTold`, `KillKeeps`, `AnswersAreKept` | all | |
| `ReplayIsTrue` | all but a record that fails | a call told as failed whose record is whole comes back as done (`results.rs:66`) |
| `NoHoleEver`, `EffectIsTold`, `AcceptedIsReplayed` | fragments, and records that fail | a write that lands nothing (`log.rs:221`), or a newline that is owed and fails again (`log.rs:203`), loses its line and later ones still land |
| `NoOrphanEver` | fragments | a record that fails may stay behind its call's answer |

The `crash` run, with its loss of power, is an instance of the strictest.

`QueueAndClaimsProofs`, of the two modules that guard a log, from threads and
from processes. Of `LogQueue`: `TypeCorrect`, and `NoLostNotice`, `Spec =>
[]ParkedIsOwedANotice`, the heart of `Session::sent`: no interleaving of a
refused offer, a wait, a taken line and a closing leaves a sender nobody will
tell. It needs `Listened` (who is offering, refused or parked has a live
listener, which is what listening *before* offering buys) and `OpenUntilClosed`
(the queue is closed exactly in the writer's last two states). `NoSilentLoss`
proves `ReturnedIsLandedOrTrouble` from: what is answered has landed. `InOrder`
proves `SenderOrder`: the log, what the writer holds and the queue are each in a
sender's order and one before the other, and a sender that has not offered its
line yet is past all of them (`Ordered`, `Begun`).

Of `SessionClaims`, for any number of runs and any finite set of names:
`OpenIsItsOwn` and `NobodyElseStartsIt`. Neither property is inductive.
`ClaimsInv` says place by place what a run has of its session (`Own`: its claim
from the making of the log to the drop, an empty log from its making to its
header, a log whose lines are those it saw once it is open), and that no two
runs start one log (`StartsApart`), since the claim is lost only with the run and
a log is made only where there is none. `VouchedHasThemAll` needs an invariant of
the index (`IndexInv`): the index, every draft and everything the mark vouches for
hold at most `ENTRIES` names; a draft is its run's while it has the lock; an
index without an older build's hand that was ever marked covers every session that
has a header or is about to have one, and so does a draft that is about to be
vouched for. *Covers* is that the session is named, or that the index is full
and all but one of its names are newer: the one below is what a clock that went
back may have put there. That inserting and dropping keep a set covering is
counting over finite sets of numbers, done once (`Ranks`: the number of elements
above an element runs through 0 .. n - 1, each once; `EnsuredCovers`,
`RecordedCovers`).

`PendingsProofs`: `TypeCorrect`, `NoReferenceTwice`, `SettledOnce` and
`ListsAgree`, for any number of tables, turns and relaunches. The invariant says
that live instances and generations are below the shared counter and pairwise
different, that a generation's handed-out request numbers are below its next,
that what is open in a table was raised in its present period, and that its two
lists hold one set of references under pairwise different names, whatever
`swap_remove` does to their orders.

The same module proves what `NativeTurn` makes of one of these tables, for any
number of clients. `NativeIsPendings`: every step of a turn is a step of the
tables or leaves them alone (`NativeSpec => Spec`), so that the theorems above
hold of it. `WaitsAreAnswerable`: the turn waits on at most one question, the only
one open, and only its settling closes it (`OneQuestion`, `OneOpen`).
`DecisionsAreHeard`: what a client took from the table is on its way, heard or
sent by nobody else, and no question has two answers (`DecisionsApart`,
`Decided`).

`AgentRunProofs` proves every safety property of `AgentRun`, for any number of
launches, turns and questions. Its invariant is a conjunction of

 * `Stages`: the slot, the future and the host agree on where the run is,
 * `Holders`: a launch, a run or a sign-in holds the place, never two of them,
   and none once it is taken for good,
 * `Quiet`: what may still run is what the holder started (`OneProcessAtATime`,
   `FreeMeansQuiet`),
 * `Leaves`: how a turn ended says how it left the program (`TurnsFollow`, an
   action property),
 * `Stops`: a stop that is set was asked of the turn under way, and none is set
   on an idle run (`StopsStay`),
 * `Decisions`: a question is open, settled and queued, or settled and said, and
   all that is queued during an exchange is of its turn (`NoStaleDecision`,
   `NoLostDecision`).

None of the properties is inductive alone: that a launch finds nothing running
needs `Quiet` of every other holder, and that no stale stop is heeded needs the
flag to be down on an idle run.

`TaskGroupProofs`, for any tokens, lineages, deadlines and tasks. `CancelInv` says of
each race, wherever it is in its round, that every listener it has passed is
enabled (`Listens`), that a flag it has looked past was down or has been rung
since it listened (`Looks`), that its work was asked (`Works`), and that its
timer is set for the earliest deadline (`Timed`). From it, `NoWakeIsLost`: a race that
sleeps with nobody about to wake it has no answer, no stop and no deadline
behind it; and `RacesTakeStopsSteps`: from the initial states on, each step is a
step of `Stop` or a stutter, which is the refinement without its fairness. The
earliest deadline of a set of naturals is where the library's well-founded
induction comes in. `GroupInv` adds to the types that the group holds exactly
the admitted tasks whose end it has not told (`GroupAccounts`).

`ToolPassProofs` proves `ParkedIsToldOfRoom`, `PrintedBeforeAnswered` and
`RunsApart` for any number of calls, plans and sizes. `IInv` says which calls a
batch may hold (those of the wave with no answer yet, in order), that a batch's
calls do not conflict and share no slot (`Apart`, `Slots`), that a run belongs to
the batch that is waited for (`Runs`), that whatever asks for a poll has woken
the turn (`Wakes`), that pieces written and reported add up to what was printed
(`Counted`), and that a stop under which a run answered lasts (`Marks`).
`CallsAreTold` proves `EveryCallSaysWhatItDid`. Beside `IInv` it needs `TrueInv`:
there is room for a stand-in for each call to come (`Budget`), so that a call
that did something is never left without its word; a call that did something
was run, and a call that was run has an answer, an invocation or a place in the
batch (`Untouched`); an invocation is of the call's own run, which has returned,
or of none (`Truths`); and what is in a slot is its own call's (`Took`).

`ActivationProofs` proves every property of `Activation`, for any number of
processes, versions, builds and losses of power. Its invariant: the lock has one
holder (`Owned`); a unit in a place, before or after a loss of power, is whole
and of that version (`Written`); the release a process found active and the one
it links to keep their places whatever is lost (`Placed`); whatever a loss
leaves of the prefix names such a release (`Whole`); and where between the old
and the new release each switch is (`Aimed`). `NeverAnOlderOne` and
`AnswersHold` are action properties that follow from it, action by action.

`RenewalProofs`, for any processes, names, credentials, accounts and number of
tokens. The invariant: whoever is past the lock has it and has read what the
store still holds (`Locked`); what a rotation was answered with is in nobody's
hands yet (`Renewing`); tokens are numbered as they are issued and the store
holds none twice (`Issued`); and what was presented and has not come to nothing
is what the one rotation past the lock renews, or is in the store no more
(`Gone`). `TokensPresentedOnce` follows from the last, `WritesKeepOthers` from
the first, and says that a sign-in changes one provider's names only, a rotation
one name, and that no provider comes to have a second account; `NoneForgotten` from `Waited`: who waits does so in a process that
goes on, for a rotation that runs, and a rotation that runs has not told what it
came to. They assume that no work is called `None`.

Three invariants are proved and no run repeats them: `ReturnedIsLandedOrTrouble`
of `LogQueue`, `NoLostWake` of `Cancel`, which is what `RacesStop` needs of a
race, and `RunsApart` of `ToolPass`.

Only model-checked:

 * the liveness properties (`WaitsEnd`, `EveryWriteIsAnswered`,
   `StopEndsTheTurn`, `PressStopsTheTurn`, `GroupEnds`, the fairness of
   `RacesStop`): TLAPS does not prove `ENABLED` and fairness;
 * that `SessionLog`'s properties fail under the faults their theorems leave
   out, and `KilledSessionContinues`, which is false.

Every safety property that a run checks, each invariant and each action
property, is stated by a theorem.

What a recursive definition computes cannot be proved here at all (no prover
instantiates the induction theorems), which is why no module has one.

## Where the documents and the code part

One is a run that TLC finds violated.

 * `kill` (`KilledSessionContinues`): `docs/sessions/sessions.md:173` has a
   session continue after a kill. A kill between creating a sidecar and writing
   it (`results.rs:60`) leaves one that every replay refuses.

Met and not a run:

 * A credential's scope names the account it was made for, and a test is called
   `a_refresh_cannot_move_a_live_credential_scope_to_another_account`
   (`oauth/tests.rs:911`). A renewal of its own is checked for that; a token that
   another process's sign-in put under the same name meanwhile is taken as it is
   (`renewal.rs:466`).
 * `docs/getting-started/troubleshooting.md:387` and `session.rs:205` say of a
   session that is refused as open that it "is still being written by another
   crucible". A glimpse takes the claim to find out whether anybody has it
   (`glimpse.rs:96`), and a continue that tries it in that instant is refused so.
 * `docs/sessions/sessions.md:180` and `:611` promise "always the start of a
   transcript, never one with a hole in it". A write that lands *no* byte does
   not stop the log (`log.rs:221`): the line is missing, the next lands, and the
   conversation that comes back has a hole. `LossIsTold` shows that the session
   always says so; `NeverAHole` is checked where no such fault is.
 * `docs/sessions/sessions.md:606` has a later write that succeeds still land.
   After a fragment nothing is appended (`log.rs:198`).
 * `replay.rs:551` takes a pass without a started record for one that did
   nothing. The record is queued and not waited for (`session.rs:1682-1691`), so
   that a kill can leave the effect without it. `RecordedEffectIsTold` is what
   holds.
 * `external-harnesses/src/pending.rs:103` and `host.rs:472` list what is open
   oldest first; `swap_remove` (`pending.rs:92`) puts the newest where the
   settled one was.
 * `native.rs:269` has an interrupt answer whatever is open, since a question
   "would hold the turn short of the boundary it stops at". The flag is looked at
   when a call is prepared and not again once it asks, so that a question raised
   after the drain does hold the turn, until somebody decides it or interrupts
   again. `AnswerableWhileWaited` is what holds: it can be answered.
 * `work.rs:771-772` says of a call whose run answered that it "is never said
   not to have run". One that did something and then answers that it was cancelled
   is answered `NOT_RUN` all the same (`work.rs:1357-1365`): the word is the
   tool's own. `EveryCallSaysWhatItDid` excepts just this, under `cut short`.
 * Where a renewal's answer is of another account the rotation is dropped
   without being written, so that the next one presents the token that was
   spent; `PresentedOnce` counts it as a presentation that came to nothing.
 * When the directory of a whole sidecar cannot be synced (`results.rs:66`) the
   call is told as failed while the record stays; once the results line says
   failed, no replay finds a call for it. The faults of the `crash` run leave
   sidecars out for this reason, and `faults` does not check `NoOrphanedResult`.

## What is not modelled

In `SessionLog`: lines a replay reads past or that only rewrite the transcript
(context patches, window readings, compactions, clearings, run-item metadata),
where results were put for the screen, and the bytes of a record. A second
process on the same session is `SessionClaims`'. Results put aside
because of their size (the turn's output limit) are answers like any other.

In `AgentRun`: runs of a host for an account step (they have no turn; one dropped
in the middle gives the place back in `Host::drop` before its process is
dropped), the program's own names for questions (`Pendings` has them; that a
second question under the name of one that is settled and not yet said is
accepted, `host.rs:1052`, is not shown), silence (`Lost`), and the journal a turn
posts to. A backend is let go of only once it was closed, as `Outside` does.

In `NativeTurn`: what it translates for its sink, which changes no state, and
the calls of a wave that ask beside each other: `work.rs` prepares them one at a
time.

In `ToolPass`: what a decision is made from, and the wait for a place of the
session's journal between two runs: the store answers at its first poll
(`session.rs:1680-1691`). A journal that really waited there would leave parked
runs untold while it did, because the guard that tells them is made only in
`collected` (`work.rs:1173`). What is posted to the screen is only counted.

In `Renewal`: the conversation with the browser, the keys and installation
identities the store holds beside accounts, and what is asked of others before a
credential is let go of (`letting_go`, `moving`); a rotation that an aborted one's thread still takes the lock for;
and work that starts in a process whose owner has aborted, which the code
refuses. That every waiter is told *in the end* is not checked; that it waits
for something that will tell it is (`NobodyIsForgotten`).

In `Activation`: the download, the inspection of an archive, `install.sh`, and
installs other package managers made.

In `SessionClaims`: filesystems with no locks, where the making of the log is
the only guard of a name; losses of power; display records and prompt history,
which have files of their own; and a log that a person deletes or renames.

Not at all: the parts marked so in `PROJECT.json`; the plan says which come.
Provider adapters, configuration and the terminal interface are left out for
good: they convert or lay out and keep no state that two steps could disagree
about.

## Plan

Done: `SessionLog`, `LogQueue`, `Pendings`, `AgentRun`, `NativeTurn`, `Stop`,
`Cancel`, `TaskGroup`, `ToolPass`, `Activation`, `Renewal`, `SessionClaims`, and
the proofs above.
Next, in this order:

1. `Conversation`: what a session promises (messages appended, a prefix after a
   crash), implemented by `SessionLog` under a refinement mapping.
2. `Replaced`: checkpoint and interruption files across a kill
   (`checkpoint.rs:115`), over the disk of `Activation`.
3. The directory of a sidecar that cannot be synced (`results.rs:66`) as a fault
   of `SessionLog`; the program's names beside the queue of decisions
   (`host.rs:1052`) in `AgentRun`.
4. Sandbox publication; restarts of model-context servers.
