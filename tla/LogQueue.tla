----------------------------- MODULE LogQueue -----------------------------
(***************************************************************************)
(* How a line gets from whoever writes it to the session's writer thread:  *)
(* the bounded queue, the notice of room, the answer, and the writer that  *)
(* may come apart.  Senders that wait (Session::sent) listen for room      *)
(* before they offer; senders that do not (append_journal and the other    *)
(* blocking sends) are held by the channel itself.                         *)
(***************************************************************************)
EXTENDS Naturals, Sequences, FiniteSets

CONSTANTS
    Senders,     \* the tasks and threads that write
    QueueLen,    \* QUEUE: how many requests the queue holds
    MayDie,      \* whether the writer may come apart
    MaxLines     \* bound: lines each sender writes

ASSUME QueueLenAssumption == QueueLen \in Nat \ {0}
ASSUME MayDieAssumption == MayDie \in BOOLEAN
ASSUME MaxLinesAssumption == MaxLines \in Nat

VARIABLES
    queue,      \* requests not taken, oldest first: <<sender, its line's number>>
    open,       \* the writer still holds the receiving end
    writer,     \* "taking", "taken", "telling", "dying", "closed" or "gone"
    inhand,     \* the request the writer holds, in a sequence of one
    at,         \* where each sender is
    heard,      \* each sender's notice of room: "unborn", "listening", "notified"
    count,      \* how many lines each sender has begun
    answered,   \* requests whose sender was told the line is taken
    returned,   \* history: requests a waiting sender came back from
    landed,     \* requests appended, in order
    trouble     \* the session's trouble is set

wvars == <<writer, inhand>>
svars == <<at, heard, count>>
vars == <<queue, open, wvars, svars, answered, returned, landed, trouble>>

Request(s) == <<s, count[s]>>
Elements(seq) == {seq[i] : i \in DOMAIN seq}
Full == Len(queue) >= QueueLen

\* Notify::notify_waiters wakes who listens now and stores nothing for later.
Notified == [s \in Senders |-> IF heard[s] = "listening" THEN "notified" ELSE heard[s]]

Init ==
    /\ queue = <<>>
    /\ open = TRUE
    /\ writer = "taking"
    /\ inhand = <<>>
    /\ at = [s \in Senders |-> "idle"]
    /\ heard = [s \in Senders |-> "unborn"]
    /\ count = [s \in Senders |-> 0]
    /\ answered = {}
    /\ returned = {}
    /\ landed = <<>>
    /\ trouble = FALSE

(***************************************************************************)
(* A sender that waits.                                                    *)
(***************************************************************************)
Begin(s) ==
    /\ at[s] = "idle"
    /\ count[s] < MaxLines
    /\ count' = [count EXCEPT ![s] = @ + 1]
    /\ at' = [at EXCEPT ![s] = "listening"]
    /\ UNCHANGED <<queue, open, wvars, heard, answered, returned, landed, trouble>>

\* Listening before offering; the variation first listens once it waits.
ListenLater(s) ==
    /\ at[s] = "listening"
    /\ heard' = [heard EXCEPT ![s] = "unborn"]
    /\ at' = [at EXCEPT ![s] = "offering"]
    /\ UNCHANGED <<queue, open, wvars, count, answered, returned, landed, trouble>>
Listen(s) ==
    /\ at[s] = "listening"
    /\ heard' = [heard EXCEPT ![s] = "listening"]
    /\ at' = [at EXCEPT ![s] = "offering"]
    /\ UNCHANGED <<queue, open, wvars, count, answered, returned, landed, trouble>>

\* try_send: taken, refused for want of room, or refused for good.  The
\* variation does not leave the loop once the line is taken.
OfferedAgain(s) ==
    /\ at[s] = "offering"
    /\ open /\ ~Full
    /\ queue' = Append(queue, Request(s))
    /\ at' = [at EXCEPT ![s] = "parked"]
    /\ UNCHANGED <<open, wvars, heard, count, answered, returned, landed, trouble>>
Offered(s) ==
    /\ at[s] = "offering"
    /\ open /\ ~Full
    /\ queue' = Append(queue, Request(s))
    /\ at' = [at EXCEPT ![s] = "waiting"]
    /\ UNCHANGED <<open, wvars, heard, count, answered, returned, landed, trouble>>

NoRoom(s) ==
    /\ at[s] = "offering"
    /\ open /\ Full
    /\ at' = [at EXCEPT ![s] = "refused"]
    /\ UNCHANGED <<queue, open, wvars, heard, count, answered, returned, landed, trouble>>

\* Waiting listens as well, where nobody listened yet.
Park(s) ==
    /\ at[s] = "refused"
    /\ at' = [at EXCEPT ![s] = "parked"]
    /\ heard' = [heard EXCEPT ![s] = IF @ = "unborn" THEN "listening" ELSE @]
    /\ UNCHANGED <<queue, open, wvars, count, answered, returned, landed, trouble>>

Disconnected(s) ==
    /\ at[s] = "offering"
    /\ ~open
    /\ trouble' = TRUE
    /\ at' = [at EXCEPT ![s] = "idle"]
    /\ returned' = returned \union {Request(s)}
    /\ UNCHANGED <<queue, open, wvars, heard, count, answered, landed>>

\* Woken, it listens anew and offers again.
Woken(s) ==
    /\ at[s] = "parked"
    /\ heard[s] = "notified"
    /\ at' = [at EXCEPT ![s] = "listening"]
    /\ UNCHANGED <<queue, open, wvars, heard, count, answered, returned, landed, trouble>>

Told(s) ==
    /\ at[s] = "waiting"
    /\ Request(s) \in answered
    /\ at' = [at EXCEPT ![s] = "idle"]
    /\ returned' = returned \union {Request(s)}
    /\ UNCHANGED <<queue, open, wvars, heard, count, answered, landed, trouble>>

\* The request went away with nobody having answered it: the answer's other
\* half was dropped.
Unacknowledged(s) ==
    /\ at[s] = "waiting"
    /\ Request(s) \notin answered \union Elements(queue) \union Elements(inhand)
    /\ trouble' = TRUE
    /\ at' = [at EXCEPT ![s] = "idle"]
    /\ returned' = returned \union {Request(s)}
    /\ UNCHANGED <<queue, open, wvars, heard, count, answered, landed>>

(***************************************************************************)
(* A sender that does not: the channel holds its thread until there is     *)
(* room, and a queue that is gone drops the line.                          *)
(***************************************************************************)
Send(s) ==
    /\ at[s] = "idle"
    /\ count[s] < MaxLines
    /\ ~open \/ ~Full
    /\ count' = [count EXCEPT ![s] = @ + 1]
    /\ queue' = IF open THEN Append(queue, <<s, count'[s]>>) ELSE queue
    /\ UNCHANGED <<open, wvars, at, heard, answered, returned, landed, trouble>>

(***************************************************************************)
(* The writer: one request off the queue, the notice of room, the append,  *)
(* the answer.                                                             *)
(***************************************************************************)
Take ==
    /\ writer = "taking"
    /\ queue # <<>>
    /\ inhand' = <<Head(queue)>>
    /\ queue' = Tail(queue)
    /\ writer' = "taken"
    /\ UNCHANGED <<open, svars, answered, returned, landed, trouble>>

TellRoom ==
    /\ writer = "taken"
    /\ heard' = Notified
    /\ writer' = "telling"
    /\ UNCHANGED <<queue, open, inhand, at, count, answered, returned, landed, trouble>>

\* The line is appended and its sender told, where one waits; told is
\* harmless where none does.
Answer ==
    /\ writer = "telling"
    /\ landed' = landed \o inhand
    /\ answered' = answered \union Elements(inhand)
    /\ inhand' = <<>>
    /\ writer' = "taking"
    /\ UNCHANGED <<queue, open, svars, returned, trouble>>

\* The sink comes apart under the line it was given, which may have landed.
Die ==
    /\ MayDie
    /\ writer = "telling"
    /\ writer' = "dying"
    /\ inhand' = <<>>
    /\ landed' \in {landed, landed \o inhand}
    /\ UNCHANGED <<queue, open, svars, answered, returned, trouble>>

\* Closing::drop: the queue is closed and what it held dropped, and then
\* everyone listening is told.  The variation tells nobody.
CloseUntold ==
    /\ writer = "dying"
    /\ open' = FALSE
    /\ queue' = <<>>
    /\ writer' = "gone"
    /\ UNCHANGED <<inhand, svars, answered, returned, landed, trouble>>
Close ==
    /\ writer = "dying"
    /\ open' = FALSE
    /\ queue' = <<>>
    /\ writer' = "closed"
    /\ UNCHANGED <<inhand, svars, answered, returned, landed, trouble>>

TellClosed ==
    /\ writer = "closed"
    /\ heard' = Notified
    /\ writer' = "gone"
    /\ UNCHANGED <<queue, open, inhand, at, count, answered, returned, landed, trouble>>

Sender(s) ==
    \/ Listen(s) \/ Offered(s) \/ NoRoom(s) \/ Park(s) \/ Disconnected(s)
    \/ Woken(s) \/ Told(s) \/ Unacknowledged(s)

Writer == Take \/ TellRoom \/ Answer \/ Close \/ TellClosed

Next ==
    \/ \E s \in Senders : Begin(s) \/ Send(s) \/ Sender(s)
    \/ Writer
    \/ Die

\* A task that can go on is polled and the writer's thread is scheduled.
\* Nobody promises that anyone starts a write, or that the sink comes apart.
Fairness == WF_vars(Writer) /\ \A s \in Senders : WF_vars(Sender(s))

Spec == Init /\ [][Next]_vars /\ Fairness

(***************************************************************************)
(* Properties.                                                             *)
(***************************************************************************)
Places == {"idle", "listening", "offering", "refused", "parked", "waiting"}

\* Every variable stays what it is declared to be, the queue within QUEUE.
TypeOK ==
    /\ queue \in Seq(Senders \X Nat) /\ Len(queue) <= QueueLen
    /\ open \in BOOLEAN
    /\ writer \in {"taking", "taken", "telling", "dying", "closed", "gone"}
    /\ inhand \in Seq(Senders \X Nat) /\ Len(inhand) <= 1
    /\ at \in [Senders -> Places]
    /\ heard \in [Senders -> {"unborn", "listening", "notified"}]
    /\ count \in [Senders -> 0..MaxLines]
    /\ returned \subseteq Senders \X Nat
    /\ answered \subseteq Senders \X Nat
    /\ landed \in Seq(Senders \X Nat)
    /\ trouble \in BOOLEAN

\* A sender refused for want of room that nobody has told yet is owed a notice: the
\* queue it waits on is open with something to take, or the writer is on its
\* way to telling (session.rs:1102, log.rs:168).
ParkedIsOwedANotice ==
    \A s \in Senders :
        at[s] \in {"refused", "parked"} /\ heard[s] # "notified" =>
            \/ open /\ Full /\ writer # "gone"
            \/ writer \in {"taken", "dying", "closed"}

\* A sender that waited and came back either has its line in the log or has
\* left the session's trouble set (session.rs:1087).
ReturnedIsLandedOrTrouble ==
    trouble \/ returned \subseteq Elements(landed)

\* Two lines of one sender are in the log in the order it wrote them, and no
\* line is there twice, whichever way each was offered.
SenderOrder ==
    \A i, j \in DOMAIN landed :
        i < j /\ landed[i][1] = landed[j][1] => landed[i][2] < landed[j][2]

\* A write that waits is answered in the end, the writer coming apart or not.
EveryWriteIsAnswered == \A s \in Senders : (at[s] # "idle") ~> (at[s] = "idle")
=============================================================================
