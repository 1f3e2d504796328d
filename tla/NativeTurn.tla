----------------------------- MODULE NativeTurn -----------------------------
(***************************************************************************)
(* The runner behind the contract every backend answers (native.rs): a     *)
(* prompt takes the runner for one turn, the questions its calls ask are   *)
(* raised in the table of Pendings and wait there one at a time, and other *)
(* threads decide them or interrupt the turn.                              *)
(*                                                                         *)
(* The table is Mine, one of those of Pendings, of which what the others   *)
(* do changes nothing.  `waiting` is locked only while the table is, so    *)
(* what is done to both is a step; a decision is sent under neither lock,  *)
(* which is a step of its own.                                             *)
(***************************************************************************)
EXTENDS Pendings, FiniteSets

CONSTANTS
    Mine,      \* the table of this backend
    Session,   \* the session its runner records into
    Clients    \* the threads that decide and interrupt

ASSUME MineAssumption == Mine \in Tables /\ Session \in Sessions

VARIABLES
    at,        \* where the prompt is, "idle" where none runs
    held,      \* Native.runner is taken
    turn,      \* the runner's number of its last turn
    cancel,    \* Native.cancel is requested
    question,  \* the reference the turn waits on, in a set
    waiting,   \* Native.waiting: the references whose decision has a sender
    posted,    \* the references clients were told of
    sent,      \* decisions handed to the turn's channel, and not yet taken
    doing,     \* what each client is in the middle of
    took,      \* history: the decisions a client was told were taken
    heard,     \* history: what each call went on with
    lost       \* history: decisions that were in the channel of a prompt dropped

turnVars == <<at, held, turn, cancel, question, waiting, posted, sent, doing, took, heard,
              lost>>
allVars == <<vars, turnVars>>

Begun == {"working", "asking", "raised", "waiting"}
Idle == [does |-> "nothing"]

NativeInit ==
    /\ Init
    /\ at = "idle" /\ held = FALSE /\ turn = 0
    /\ cancel = FALSE
    /\ question = {} /\ waiting = {} /\ posted = {} /\ sent = {}
    /\ doing = [c \in Clients |-> Idle]
    /\ took = {} /\ heard = {} /\ lost = {}

-----------------------------------------------------------------------------
(* The prompt. *)

\* Held::take: the runner is out for one turn at a time.
Prompt ==
    /\ made[Mine] = "live"
    /\ at = "idle" /\ ~held
    /\ held' = TRUE
    /\ at' = "taken"
    /\ UNCHANGED <<vars, turn, cancel, question, waiting, posted, sent, doing, took,
                   heard, lost>>

\* A stop from before the turn asked nothing of it.
ResetStop ==
    /\ at = "taken"
    /\ cancel' = FALSE
    /\ at' = "starting"
    /\ UNCHANGED <<vars, held, turn, question, waiting, posted, sent, doing, took, heard, lost>>

\* The runner reports the turn it started, and the table begins with it.
TurnStarted ==
    /\ at = "starting"
    /\ turn + 1 \in Turns
    /\ turn' = turn + 1
    /\ Begin(Mine, Session, turn')
    /\ at' = "working"
    /\ UNCHANGED <<held, cancel, question, waiting, posted, sent, doing, took, heard, lost>>

\* A call is prepared: it is not even asked about once a stop was asked for.
PrepareCall ==
    /\ at = "working"
    /\ at' = IF cancel THEN "ending" ELSE "asking"
    /\ UNCHANGED <<vars, held, turn, cancel, question, waiting, posted, sent, doing,
                   took, heard, lost>>

\* The turn is through, having started or not.
TurnReturns ==
    /\ at \in {"starting", "working"}
    /\ at' = "ending"
    /\ UNCHANGED <<vars, held, turn, cancel, question, waiting, posted, sent, doing,
                   took, heard, lost>>

\* raise: the question is in the table and in `waiting`, under both locks.
AskRaises(name) ==
    /\ at = "asking"
    /\ Raise(Mine, name, "permission")
    /\ LET reference == raised'[Len(raised')].reference IN
         /\ waiting' = waiting \cup {reference}
         /\ question' = {reference}
    /\ at' = "raised"
    /\ UNCHANGED <<held, turn, cancel, posted, sent, doing, took, heard, lost>>

\* The table refuses it, and the call is denied.
AskRefused ==
    /\ at = "asking"
    /\ ~Room(Mine) \/ next[Mine] = MaxRequest
    /\ at' = "working"
    /\ UNCHANGED <<vars, held, turn, cancel, question, waiting, posted, sent, doing,
                   took, heard, lost>>

\* Event::Pending is posted, and clients can name the question.
PostPending ==
    /\ at = "raised"
    /\ posted' = posted \cup question
    /\ at' = "waiting"
    /\ UNCHANGED <<vars, held, turn, cancel, question, waiting, sent, doing, took,
                   heard, lost>>

\* The call goes on with what was decided.
Hear(answer) ==
    /\ at = "waiting"
    /\ answer \in sent /\ answer[1] \in question
    /\ heard' = heard \cup {answer}
    /\ sent' = sent \ {answer}
    /\ question' = {}
    /\ at' = "working"
    /\ UNCHANGED <<vars, held, turn, cancel, waiting, posted, doing, took, lost>>

\* ended(): nothing the turn raised is open any more.
Ended ==
    /\ at = "ending"
    /\ IF running[Mine] # {} THEN End(Mine) ELSE UNCHANGED vars
    /\ waiting' = {}
    /\ at' = "posting"
    /\ UNCHANGED <<held, turn, cancel, question, posted, sent, doing, took, heard, lost>>

\* Finished or Failed is posted, and the runner put back.
Finish ==
    /\ at = "posting"
    /\ at' = "idle" /\ held' = FALSE
    /\ UNCHANGED <<vars, turn, cancel, question, waiting, posted, sent, doing, took,
                   heard, lost>>

\* The prompt's future is dropped where it awaits: the runner is put back and
\* the channel closed, but nobody tells the table.
DropPrompt ==
    /\ at \in {"starting", "working", "waiting"}
    /\ at' = "idle" /\ held' = FALSE
    /\ lost' = lost \cup sent
    /\ question' = {} /\ sent' = {}
    /\ UNCHANGED <<vars, turn, cancel, waiting, posted, doing, took, heard>>

-----------------------------------------------------------------------------
(* The clients. *)

\* decide: under the locks the table settles the question and the sender is
\* taken.  A reference that is stale changes nothing.
Decide(c, ref, decision) ==
    /\ doing[c] = Idle
    /\ Settle(Mine, ref, decision)
    /\ waiting' = waiting \ {ref}
    /\ doing' = IF ref \in waiting
                THEN [doing EXCEPT ![c] = [does |-> "sends", ref |-> ref, decision |-> decision]]
                ELSE doing
    /\ UNCHANGED <<at, held, turn, cancel, question, posted, sent, took, heard, lost>>

\* Then it is sent, and was taken where somebody still waits for it.  The
\* variation says so of every decision the table settled.
SendUnheard(c) ==
    LET answer == <<doing[c].ref, doing[c].decision>> IN
    /\ doing[c].does = "sends"
    /\ sent' = IF answer[1] \in question THEN sent \cup {answer} ELSE sent
    /\ took' = took \cup {answer}
    /\ doing' = [doing EXCEPT ![c] = Idle]
    /\ UNCHANGED <<vars, at, held, turn, cancel, question, waiting, posted, heard, lost>>
Send(c) ==
    LET answer == <<doing[c].ref, doing[c].decision>> IN
    /\ doing[c].does = "sends"
    /\ IF answer[1] \in question
       THEN sent' = sent \cup {answer} /\ took' = took \cup {answer}
       ELSE UNCHANGED <<sent, took>>
    /\ doing' = [doing EXCEPT ![c] = Idle]
    /\ UNCHANGED <<vars, at, held, turn, cancel, question, waiting, posted, heard, lost>>

\* interrupt: the stop is asked for,
Interrupt(c) ==
    /\ made[Mine] = "live"
    /\ doing[c] = Idle
    /\ cancel' = TRUE
    /\ doing' = [doing EXCEPT ![c] = [does |-> "drains"]]
    /\ UNCHANGED <<vars, at, held, turn, question, waiting, posted, sent, took, heard, lost>>

\* and whatever is open is settled as denied, and told so.  The variation ends
\* the table's turn and tells nobody.
DrainTable(c) ==
    /\ doing[c].does = "drains"
    /\ IF running[Mine] # {} THEN End(Mine) ELSE UNCHANGED vars
    /\ waiting' = {}
    /\ doing' = [doing EXCEPT ![c] = Idle]
    /\ UNCHANGED <<at, held, turn, cancel, question, posted, sent, took, heard, lost>>
Drain(c) ==
    /\ doing[c].does = "drains"
    /\ LET opened == waiting \cap References(open[Mine]) IN
         IF opened = {} THEN UNCHANGED vars
         ELSE \E ref \in opened : Settle(Mine, ref, "deny")
    /\ sent' = sent \cup {<<ref, "deny">> : ref \in waiting \cap question}
    /\ waiting' = {}
    /\ doing' = [doing EXCEPT ![c] = Idle]
    /\ UNCHANGED <<at, held, turn, cancel, question, posted, took, heard, lost>>

-----------------------------------------------------------------------------
\* Native::new makes the table, with the two numbers it takes.
New ==
    /\ NewInstance(Mine) \/ NewGeneration(Mine)
    /\ UNCHANGED turnVars

NativeNext ==
    \/ Prompt \/ ResetStop \/ TurnStarted \/ PrepareCall \/ TurnReturns
    \/ \E name \in Names : AskRaises(name)
    \/ AskRefused \/ PostPending
    \/ \E answer \in sent : Hear(answer)
    \/ Ended \/ Finish \/ DropPrompt
    \/ \E c \in Clients :
          \/ \E ref \in posted, decision \in Decisions : Decide(c, ref, decision)
          \/ Send(c) \/ Interrupt(c) \/ Drain(c)
    \/ New

NativeSpec == NativeInit /\ [][NativeNext]_allVars
-----------------------------------------------------------------------------
(* What the surface promises. *)

\* A turn never waits on a question nobody can answer: until it is told, the
\* question is open in the table with its sender beside it, or a client that
\* settled it is about to send what was decided (native.rs:246-262).
AnswerableWhileWaited ==
    \A ref \in question :
        \/ \E answer \in sent : answer[1] = ref
        \/ ref \in waiting /\ ref \in References(open[Mine])
        \/ \E c \in Clients : doing[c].does = "sends" /\ doing[c].ref = ref

\* A call goes on with what was decided about it and nothing else: with one
\* answer, which the table settled.  And what a client was told was taken is
\* what its call goes on with, unless the prompt was dropped holding it
\* (native.rs:244-261).
DecisionsReachTheirCall ==
    /\ \A one, other \in heard \cup sent : one[1] = other[1] => one = other
    /\ \A answer \in heard \cup sent :
          \E i \in DOMAIN settled : settled[i].reference = answer[1]
    /\ took \subseteq heard \cup sent \cup lost
=============================================================================
