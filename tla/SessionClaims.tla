--------------------------- MODULE SessionClaims ---------------------------
(***************************************************************************)
(* Whose a session is: the claim on its log (claim.rs), the two ways to    *)
(* come by a session (Session::naming, Session::continuing), and the index *)
(* of the newest ones that every process replaces (index.rs).              *)
(*                                                                         *)
(* A run is one session of some process, from how it is come by to its     *)
(* drop.  A process that moves to another session takes that one before it *)
(* lets go of its own, and the operating system tells two handles of one   *)
(* process apart: they are two runs.                                       *)
(*                                                                         *)
(* A name is the time it was minted at.  A clock may go back, and a name   *)
(* may be minted twice.  A line is told by the run that wrote it.          *)
(***************************************************************************)
EXTENDS Naturals, Sequences, FiniteSets

CONSTANTS
    Runs,       \* the sessions of the processes
    Ids,        \* the names there are
    None,
    ENTRIES,    \* the sessions the index holds
    NAMES,      \* the names a start tries
    MaxDisk     \* bound: the logs there are, and their lines, which count twice

ASSUME IdsAssumption == Ids \subseteq Nat /\ IsFiniteSet(Ids)
ASSUME NoneAssumption == None \notin Runs \cup Ids
ASSUME BoundsAssumption ==
    ENTRIES \in Nat \ {0} /\ NAMES \in Nat \ {0} /\ MaxDisk \in Nat

(* What the bound is on. *)
Used(logs) ==
    Cardinality({i \in Ids : logs[i].made})
      + 2 * Cardinality({at \in Ids \X (1 .. MaxDisk) : at[2] <= Len(logs[at[1]].lines)})

Lines == UNION {[1 .. n -> Runs] : n \in 0 .. MaxDisk}
Logs == [made : BOOLEAN, header : BOOLEAN, torn : BOOLEAN, lines : Lines]
NoLog == [made |-> FALSE, header |-> FALSE, torn |-> FALSE, lines |-> <<>>]
EmptyLog == [NoLog EXCEPT !.made = TRUE]

(* The index: the sessions it names, and whether its text is in this build's
   order, by when they were started, or an older one's.  What it says of each,
   a count and a title, is told apart only where a mark is left to stand for it. *)
Texts == [order : {"started", "name", "absent"}, held : SUBSET Ids]
NoText == [order |-> "absent", held |-> {}]
Started(held) == [order |-> "started", held |-> held]

Indexing == {"ensuring", "recording", "amending"}

VARIABLES
    log,        \* the log under each name
    claim,      \* who has the mark beside it locked
    index,      \* recent.sessions
    ordered,    \* the text the mark beside the index vouches for
    lock,       \* who has the index locked
    pc,         \* where each run is
    goal,       \* what it is for
    name,       \* the name it has come to
    tries,      \* how many names it tried
    seen,       \* the lines of the session, as it read and wrote them
    draft,      \* what it is about to replace the index with
    older       \* history: what an older build made of a marked index since its last scan

claimsVars == <<log, claim, index, ordered, lock, pc, goal, name, tries, seen, draft, older>>

table == <<index, ordered, lock, draft, older>>

NoDraft == [text |-> NoText, vouch |-> FALSE, placed |-> FALSE]

ClaimsTypeOK ==
    /\ log \in [Ids -> Logs]
    /\ claim \in [Ids -> Runs \cup {None}]
    /\ index \in Texts /\ ordered \in Texts
    /\ lock \in Runs \cup {None}
    /\ pc \in [Runs -> {"idle", "naming", "making", "heading", "removing", "picking", "claiming",
                        "replaying", "cutting", "open", "unbegun", "glimpsing"} \cup Indexing]
    /\ goal \in [Runs -> {"start", "deferred", "newest", "other"}]
    /\ name \in [Runs -> Ids \cup {None}]
    /\ tries \in [Runs -> 0 .. NAMES]
    /\ seen \in [Runs -> Lines]
    /\ draft \in [Runs -> [text : Texts, vouch : BOOLEAN, placed : BOOLEAN]]
    /\ older \in {"no", "wrote", "came back"}

(* Whatever sessions an older build left, under an index of its own or none. *)
ClaimsInit ==
    /\ \E old \in SUBSET Ids :
         /\ log = [i \in Ids |-> IF i \in old THEN [EmptyLog EXCEPT !.header = TRUE] ELSE NoLog]
         /\ index \in {NoText} \cup {[order |-> "name", held |-> S] :
                                       S \in {T \in SUBSET old : Cardinality(T) <= ENTRIES}}
    /\ claim = [i \in Ids |-> None]
    /\ ordered = NoText
    /\ lock = None
    /\ pc = [r \in Runs |-> "idle"]
    /\ goal = [r \in Runs |-> "other"]
    /\ name = [r \in Runs |-> None]
    /\ tries = [r \in Runs |-> 0]
    /\ seen = [r \in Runs |-> <<>>]
    /\ draft = [r \in Runs |-> NoDraft]
    /\ older = "no"

-----------------------------------------------------------------------------
Goes(r, to) == pc' = [pc EXCEPT ![r] = to]

(* Nothing is left of the run; what it had claimed, it lets go of. *)
Ends(r) ==
    /\ Goes(r, "idle")
    /\ goal' = [goal EXCEPT ![r] = "other"]
    /\ name' = [name EXCEPT ![r] = None]
    /\ tries' = [tries EXCEPT ![r] = 0]
    /\ seen' = [seen EXCEPT ![r] = <<>>]
    /\ claim' = [i \in Ids |-> IF claim[i] = r THEN None ELSE claim[i]]

(* It has its session. *)
Has(r, to) ==
    /\ Goes(r, to)
    /\ goal' = [goal EXCEPT ![r] = "other"]
    /\ tries' = [tries EXCEPT ![r] = 0]
    /\ UNCHANGED <<name, seen, claim>>

(* It goes on to `to` with what it has. *)
Keeps(r, to) == Goes(r, to) /\ UNCHANGED <<goal, name, tries, seen, claim>>

-----------------------------------------------------------------------------
(* The index. *)

(* The ENTRIES newest of some names. *)
Newest(S) == {i \in S : Cardinality({j \in S : j > i}) < ENTRIES}

Smaller(a, b) == IF a < b THEN a ELSE b

Oldest(S) == CHOOSE i \in S : \A j \in S : i <= j

Vouched == index.order # "absent" /\ ordered = index

(* `ensure`: what it holds, and the newest logs there are. *)
Ensured == Newest(index.held \cup Newest({i \in Ids : log[i].made}))

(* `record`: past the window, the oldest that is not this one goes. *)
Recorded(i) ==
    LET all == index.held \cup {i} IN
    IF Cardinality(all) > ENTRIES THEN all \ {Oldest(all \ {i})} ELSE all

Unlocks(r) ==
    /\ lock' = IF lock = r THEN None ELSE lock
    /\ draft' = [draft EXCEPT ![r] = NoDraft]

(* What a run goes on to once its change of the index is made. *)
Done(r) ==
    \/ pc[r] = "ensuring" /\ goal[r] = "start" /\ Keeps(r, "naming")
    \/ pc[r] = "ensuring" /\ goal[r] = "deferred" /\ Keeps(r, "recording")
    \/ pc[r] = "ensuring" /\ goal[r] = "newest" /\ Keeps(r, "picking")
    \/ pc[r] = "recording" /\ Keeps(r, "heading")
    \/ pc[r] = "amending" /\ Ends(r)

Removes(i) == log' = [log EXCEPT ![i] = NoLog]

(* And once it is refused.  A session that was started for the first frame
   removes its log while it holds it, and records nothing from then on; any
   other lets go of its claim and removes it after. *)
Refused(r) ==
    \/ pc[r] = "ensuring" /\ goal[r] # "deferred" /\ Ends(r) /\ UNCHANGED log
    \/ pc[r] \in {"ensuring", "recording"} /\ goal[r] = "deferred"
         /\ Removes(name[r]) /\ Has(r, "unbegun")
    \/ /\ pc[r] = "recording" /\ goal[r] = "start"
       /\ Goes(r, "removing")
       /\ claim' = [claim EXCEPT ![name[r]] = IF @ = r THEN None ELSE @]
       /\ UNCHANGED <<log, goal, name, tries, seen>>
    \/ pc[r] = "amending" /\ Ends(r) /\ UNCHANGED log

(* Under its lock the index is read, and what replaces it is put together. *)
Wants(r) == pc[r] \in Indexing /\ draft[r] = NoDraft /\ lock = None

Drafts(r, held, vouch) ==
    /\ lock' = r
    /\ draft' = [draft EXCEPT ![r] = [text |-> Started(held), vouch |-> vouch, placed |-> FALSE]]
    /\ UNCHANGED <<log, claim, index, ordered, pc, goal, name, tries, seen, older>>

(* The mark says that this build wrote it last, or the entry to amend is not
   there any more. *)
NothingToDo(r) ==
    /\ Wants(r)
    /\ \/ pc[r] = "ensuring" /\ Vouched
       \/ pc[r] = "amending" /\ name[r] \notin index.held
    /\ Done(r)
    /\ UNCHANGED <<log, table>>

Ensure(r) ==
    /\ Wants(r) /\ pc[r] = "ensuring"
    /\ ~Vouched
    /\ Drafts(r, Ensured, TRUE)

(* The new index is vouched for, whoever wrote the old one. *)
RecordAndVouch(r) ==
    /\ Wants(r) /\ pc[r] = "recording"
    /\ Drafts(r, Recorded(name[r]), TRUE)

Record(r) ==
    /\ Wants(r) /\ pc[r] = "recording"
    /\ Drafts(r, Recorded(name[r]), Vouched)

Amend(r) ==
    /\ Wants(r) /\ pc[r] = "amending"
    /\ name[r] \in index.held
    /\ Drafts(r, index.held, Vouched)

(* It cannot be locked, read or written beside. *)
IndexFails(r) ==
    /\ pc[r] \in Indexing /\ ~draft[r].placed
    /\ Refused(r)
    /\ Unlocks(r)
    /\ UNCHANGED <<index, ordered, older>>

(* The new index is renamed over the old one, or is and is told as refused.
   One that says something else of a session is none the mark was left for. *)
Replace(r) ==
    /\ draft[r] # NoDraft /\ ~draft[r].placed
    /\ index' = draft[r].text
    /\ \/ draft[r].vouch
            /\ draft' = [draft EXCEPT ![r].placed = TRUE]
            /\ UNCHANGED <<log, claim, lock, pc, goal, name, tries, seen>>
       \/ ~draft[r].vouch /\ Done(r) /\ Unlocks(r) /\ UNCHANGED log
       \/ Refused(r) /\ Unlocks(r)
    /\ ordered' \in IF pc[r] = "amending" THEN {ordered, NoText} ELSE {ordered}
    /\ older' = IF pc[r] = "ensuring" THEN "no"
                ELSE IF older = "wrote" /\ draft[r].text = ordered THEN "came back" ELSE older

(* The mark is emptied and then written, and may be left at any of it. *)
LeaveMark(r) ==
    /\ draft[r].placed
    /\ ordered' \in {draft[r].text, ordered, NoText}
    /\ Done(r)
    /\ Unlocks(r)
    /\ UNCHANGED <<log, index, older>>

IndexStep(r) ==
    NothingToDo(r) \/ Ensure(r) \/ Record(r) \/ Amend(r) \/ IndexFails(r) \/ Replace(r) \/ LeaveMark(r)

-----------------------------------------------------------------------------
(* Starting a session. *)

(* `start` puts the index in order first; the start the first frame waits on
   leaves that to its session's writer. *)
Start(r) ==
    /\ pc[r] = "idle"
    /\ goal' = [goal EXCEPT ![r] = "start"]
    /\ Goes(r, "ensuring")
    /\ UNCHANGED <<log, claim, name, tries, seen, table>>

StartDeferred(r) ==
    /\ pc[r] = "idle"
    /\ goal' = [goal EXCEPT ![r] = "deferred"]
    /\ Goes(r, "naming")
    /\ UNCHANGED <<log, claim, name, tries, seen, table>>

(* A name is minted, and claimed unless another holds it. *)
Mint(r, i) ==
    /\ pc[r] = "naming" /\ tries[r] < NAMES
    /\ tries' = [tries EXCEPT ![r] = @ + 1]
    /\ IF claim[i] # None
         THEN UNCHANGED <<pc, name, claim>>
         ELSE /\ name' = [name EXCEPT ![r] = i]
              /\ claim' = [claim EXCEPT ![i] = r]
              /\ Goes(r, "making")
    /\ UNCHANGED <<log, goal, seen, table>>

(* Every name it tried was taken, or it cannot mark one or make its log. *)
NamingFails(r) ==
    /\ pc[r] \in {"naming", "making"}
    /\ Ends(r)
    /\ UNCHANGED <<log, table>>

(* The log is made, or the one that is there is opened. *)
MakeOrOpen(r) ==
    LET i == name[r] IN
    /\ pc[r] = "making"
    /\ log' = [log EXCEPT ![i].made = TRUE]
    /\ Goes(r, IF goal[r] = "deferred" THEN "ensuring" ELSE "recording")
    /\ UNCHANGED <<claim, goal, name, tries, seen, table>>

(* The log is made, if there is none. *)
Make(r) ==
    LET i == name[r] IN
    /\ pc[r] = "making" /\ Used(log) < MaxDisk
    /\ IF log[i].made
         THEN /\ Goes(r, "naming")
              /\ name' = [name EXCEPT ![r] = None]
              /\ claim' = [claim EXCEPT ![i] = IF @ = r THEN None ELSE @]
              /\ UNCHANGED log
         ELSE /\ log' = [log EXCEPT ![i] = EmptyLog]
              /\ Goes(r, IF goal[r] = "deferred" THEN "ensuring" ELSE "recording")
              /\ UNCHANGED <<name, claim>>
    /\ UNCHANGED <<goal, tries, seen, table>>

(* The log is begun once the index names it. *)
WriteHeader(r) ==
    /\ pc[r] = "heading"
    /\ log' = [log EXCEPT ![name[r]].header = TRUE]
    /\ Has(r, "open")
    /\ UNCHANGED table

HeaderFails(r) ==
    /\ pc[r] = "heading"
    /\ IF goal[r] = "deferred"
         THEN Removes(name[r]) /\ Has(r, "unbegun")
         ELSE log' = [log EXCEPT ![name[r]].torn = TRUE] /\ Ends(r)
    /\ UNCHANGED table

RemoveLog(r) ==
    /\ pc[r] = "removing"
    /\ Removes(name[r])
    /\ Ends(r)
    /\ UNCHANGED table

-----------------------------------------------------------------------------
(* Continuing one. *)

Belongs(i) == log[i].header

Resume(r) ==
    /\ pc[r] = "idle"
    /\ goal' = [goal EXCEPT ![r] = "newest"]
    /\ Goes(r, "ensuring")
    /\ UNCHANGED <<log, claim, name, tries, seen, table>>

(* The newest log with a header, by a look at the directory. *)
Pick(r) ==
    /\ pc[r] = "picking"
    /\ IF \E i \in Ids : Belongs(i)
         THEN /\ name' = [name EXCEPT ![r] = CHOOSE i \in Ids :
                                             Belongs(i) /\ \A j \in Ids : Belongs(j) => j <= i]
              /\ goal' = [goal EXCEPT ![r] = "other"]
              /\ Goes(r, "claiming")
              /\ UNCHANGED <<tries, seen, claim>>
         ELSE Ends(r)
    /\ UNCHANGED <<log, table>>

Reopen(r, i) ==
    /\ pc[r] = "idle" /\ Belongs(i)
    /\ name' = [name EXCEPT ![r] = i]
    /\ Goes(r, "claiming")
    /\ UNCHANGED <<log, claim, goal, tries, seen, table>>

(* A log that is busy is gone on with. *)
ClaimLogAnyway(r) ==
    LET i == name[r] IN
    /\ pc[r] = "claiming"
    /\ claim' = IF claim[i] = None THEN [claim EXCEPT ![i] = r] ELSE claim
    /\ Goes(r, "replaying")
    /\ UNCHANGED <<log, goal, name, tries, seen, table>>

(* It is claimed before it is read. *)
ClaimLog(r) ==
    LET i == name[r] IN
    /\ pc[r] = "claiming"
    /\ IF claim[i] # None
         THEN Ends(r)
         ELSE /\ claim' = [claim EXCEPT ![i] = r]
              /\ Goes(r, "replaying")
              /\ UNCHANGED <<goal, name, tries, seen>>
    /\ UNCHANGED <<log, table>>

Replay(r) ==
    /\ pc[r] = "replaying"
    /\ seen' = [seen EXCEPT ![r] = log[name[r]].lines]
    /\ Goes(r, "cutting")
    /\ UNCHANGED <<log, claim, goal, name, tries, table>>

(* The log is cut to what was read of it, and opened to append.  One that is
   shorter by now is filled with nothing. *)
Shorten(r) ==
    LET i == name[r]
        missing == Len(log[i].lines) < Len(seen[r])
    IN
    /\ pc[r] = "cutting"
    /\ log' = [log EXCEPT ![i].torn = missing,
                          ![i].lines = IF missing THEN @ ELSE SubSeq(@, 1, Len(seen[r]))]
    /\ Has(r, "open")
    /\ UNCHANGED table

(* It cannot be marked, read, cut or opened. *)
ContinueFails(r) ==
    /\ pc[r] \in {"claiming", "replaying", "cutting"}
    /\ pc[r] = "claiming" => claim[name[r]] = None
    /\ Ends(r)
    /\ UNCHANGED <<log, table>>

-----------------------------------------------------------------------------
(* The session. *)

AppendLine(r) ==
    LET i == name[r] IN
    /\ pc[r] = "open" /\ log[i].made
    /\ Used(log) + 1 < MaxDisk
    /\ log' = [log EXCEPT ![i].lines = Append(@, r)]
    /\ seen' = [seen EXCEPT ![r] = Append(@, r)]
    /\ UNCHANGED <<claim, pc, goal, name, tries, table>>

(* It is dropped: once its lines are on the disk the index is told how many,
   which amends its entry, and then the claim is let go of. *)
Drop(r) ==
    /\ pc[r] \in {"open", "unbegun"}
    /\ Keeps(r, "amending")
    /\ UNCHANGED <<log, table>>

(* A listing is given a title for a session, by anybody. *)
Retitle(r, i) ==
    /\ pc[r] = "idle" /\ Belongs(i)
    /\ name' = [name EXCEPT ![r] = i]
    /\ Goes(r, "amending")
    /\ UNCHANGED <<log, claim, goal, tries, seen, table>>

(* A glimpse of a session takes its claim to see whether anybody has it, and
   gives it back. *)
Glimpse(r, i) ==
    /\ pc[r] = "idle" /\ Belongs(i)
    /\ claim[i] = None
    /\ claim' = [claim EXCEPT ![i] = r]
    /\ name' = [name EXCEPT ![r] = i]
    /\ Goes(r, "glimpsing")
    /\ UNCHANGED <<log, goal, tries, seen, table>>

Glimpsed(r) ==
    /\ pc[r] = "glimpsing"
    /\ Ends(r)
    /\ UNCHANGED <<log, table>>

-----------------------------------------------------------------------------
(* The process of the run dies, and every lock it had is free.  What it was
   writing may be there in part. *)
Kill(r) ==
    LET i == name[r] IN
    /\ pc[r] # "idle"
    /\ Ends(r)
    /\ Unlocks(r)
    /\ IF pc[r] \in {"open", "heading"} /\ log[i].made
         THEN \E torn \in {log[i].torn, TRUE} : log' = [log EXCEPT ![i].torn = torn]
         ELSE UNCHANGED log
    /\ IF draft[r].placed THEN ordered' \in {ordered, NoText} ELSE UNCHANGED ordered
    /\ UNCHANGED <<index, older>>

(* A build that knows no mark records a session of its own, under its lock and
   in its own order; whichever was last in that makes room.  Its name is none
   that was minted for a session that never began. *)
OlderBuild(i) ==
    /\ lock = None /\ index.order # "absent"
    /\ ~log[i].made /\ claim[i] = None /\ i \notin index.held \cup ordered.held
    /\ Used(log) < MaxDisk
    /\ log' = [log EXCEPT ![i] = [EmptyLog EXCEPT !.header = TRUE]]
    /\ \E S \in SUBSET (index.held \cup {i}) :
         /\ i \in S
         /\ Cardinality(S) = Smaller(ENTRIES, Cardinality(index.held \cup {i}))
         /\ index' = [order |-> "name", held |-> S]
    /\ older' = IF older = "no" /\ ordered # NoText THEN "wrote" ELSE older
    /\ UNCHANGED <<claim, ordered, lock, pc, goal, name, tries, seen, draft>>

Starts(r) ==
    \/ Start(r) \/ StartDeferred(r) \/ NamingFails(r) \/ Make(r)
    \/ WriteHeader(r) \/ HeaderFails(r) \/ RemoveLog(r)
    \/ \E i \in Ids : Mint(r, i)

Continues(r) ==
    \/ Resume(r) \/ Pick(r) \/ ClaimLog(r) \/ Replay(r) \/ Shorten(r) \/ ContinueFails(r)
    \/ \E i \in Ids : Reopen(r, i)

ClaimsNext ==
    \/ \E r \in Runs : IndexStep(r) \/ Starts(r) \/ Continues(r)
                       \/ AppendLine(r) \/ Drop(r) \/ Glimpsed(r) \/ Kill(r)
    \/ \E r \in Runs, i \in Ids : Retitle(r, i) \/ Glimpse(r, i)
    \/ \E i \in Ids : OlderBuild(i)

ClaimsSpec == ClaimsInit /\ [][ClaimsNext]_claimsVars
-----------------------------------------------------------------------------
(* What claiming and naming promise. *)

(* While a session is open its log is what it read and what it wrote since, in
   that order: nobody cuts it, appends to it, or removes it beside its owner
   (claim.rs:3-9). *)
OpenLogIsItsOwn ==
    \A r \in Runs : pc[r] = "open" =>
        log[name[r]] = [made |-> TRUE, header |-> TRUE, torn |-> FALSE, lines |-> seen[r]]

(* A session that starts has a name of its own: until its header is written its
   log is there and empty, nobody else has come to it, and what a refused start
   removes is what it made (session.rs:1516-1536). *)
StartsAlone ==
    \A r \in Runs :
        pc[r] \in {"recording", "heading", "removing"}
          \/ (pc[r] = "ensuring" /\ goal[r] = "deferred") =>
            /\ log[name[r]] = EmptyLog
            /\ \A s \in Runs \ {r} : name[s] = name[r] => pc[s] \in {"making", "amending", "unbegun"}

(* An index its mark vouches for is one no scan is needed for: a session that
   can be continued is missing only from a full window, of which all but the
   session last recorded are newer.  So no kill, refused write or clock leaves a
   session out of it for good, and no older build either, unless what it wrote
   is changed back to the very text that the mark was left for
   (index.rs:9-27). *)
VouchedIsComplete ==
    Vouched /\ older # "came back" =>
        \A i \in Ids : Belongs(i) /\ i \notin index.held =>
            /\ Cardinality(index.held) = ENTRIES
            /\ Cardinality({j \in index.held : j > i}) >= ENTRIES - 1
=============================================================================
