----------------------------- MODULE Activation -----------------------------
(***************************************************************************)
(* How `crucible update` puts a newer release in place of the running one: *)
(* apply.rs decides, stage.rs fills a directory beside the active release, *)
(* and activate.rs moves it into place and switches `current`, all under   *)
(* the link `<prefix>/lock`.                                               *)
(*                                                                         *)
(* The disk is two directories, the prefix and its `releases`, and what    *)
(* was written into each release.  A directory changes in memory, and is   *)
(* sure to outlive the machine only once it is synced: until then a loss   *)
(* of power leaves any state it has been in since its last sync, the one   *)
(* directory whatever became of the other.  A process may be killed        *)
(* between any two steps, and then everything it made stays.               *)
(*                                                                         *)
(* A release unit is named by the process that staged it, for its contents *)
(* are written once; First is the release the machine starts with.         *)
(***************************************************************************)
EXTENDS Naturals, FiniteSets

CONSTANTS
    Pids,       \* the processes that update, each of them once
    None,       \* no process
    First,      \* who made the release that is active at first
    Versions,   \* the versions there are, numbers a later one of which is more
    Builds,     \* the builds a version may have
    Losses      \* how often the machine may lose its power

ASSUME NamesAssumption == None \notin Pids \cup {First} /\ First \notin Pids
ASSUME VersionsAssumption == Versions \subseteq Nat /\ 1 \in Versions /\ 0 \notin Versions
ASSUME BuildsAssumption == 1 \in Builds
ASSUME LossesAssumption == Losses \in Nat

Makers == Pids \cup {First}
Release == [version : Versions, build : Builds]

(* What the prefix names: the lock, the release made active, and the links
   made to be renamed over `current`. *)
Prefixes == [lock : Pids \cup {None}, current : Versions, links : SUBSET Pids]

(* What `releases` names: the directories being staged, and the unit under
   each version. *)
Shelves == [incoming : SUBSET Pids, unit : [Versions -> Makers \cup {None}]]

VARIABLES
    prefix,     \* the prefix as every process sees it
    shelf,      \* `releases` as every process sees it
    prefixes,   \* what a loss of power may leave of the prefix
    shelves,    \* what a loss of power may leave of `releases`
    content,    \* what of each unit is written, and whether it is synced
    want,       \* the release each process is to install
    seen,       \* the release each process takes to be the active one
    aim,        \* the version each process is to make active
    pc,         \* where each process is
    unsynced,   \* whose switch to the new release could not be synced
    answer,     \* what each process answers
    losses      \* how often power was lost

disk == <<prefix, shelf, prefixes, shelves>>
vars == <<disk, content, want, seen, aim, pc, unsynced, answer, losses>>

Places ==
    {"off", "asked", "locked", "held", "recover", "recoverShelf", "recoverPrefix",
     "stage", "fill", "seal", "sealed", "activate", "placed", "link", "switch",
     "switched", "says", "back", "leaving", "unlocked", "done", "dead"}

Answers ==
    {"none", "current", "refused", "failed", "updated", "unsynced", "rolledBack",
     "rollBackFailed"}

Running == {p \in Pids : pc[p] \notin {"off", "done", "dead"}}

TypeOK ==
    /\ prefix \in prefixes /\ prefixes \subseteq Prefixes
    /\ shelf \in shelves /\ shelves \subseteq Shelves
    /\ content \in [Makers -> {"part", "written", "whole"}]
    /\ want \in [Makers -> Release]
    /\ seen \in [Pids -> Makers]
    /\ aim \in [Pids -> Versions]
    /\ pc \in [Pids -> Places]
    /\ unsynced \in SUBSET Pids
    /\ answer \in [Pids -> Answers]
    /\ losses \in 0 .. Losses

Init ==
    /\ prefix = [lock |-> None, current |-> 1, links |-> {}]
    /\ shelf = [incoming |-> {}, unit |-> [v \in Versions |-> IF v = 1 THEN First ELSE None]]
    /\ prefixes = {prefix}
    /\ shelves = {shelf}
    /\ content = [m \in Makers |-> IF m = First THEN "whole" ELSE "part"]
    /\ want = [m \in Makers |-> [version |-> 1, build |-> 1]]
    /\ seen = [p \in Pids |-> First]
    /\ aim = [p \in Pids |-> 1]
    /\ pc = [p \in Pids |-> "off"]
    /\ unsynced = {}
    /\ answer = [p \in Pids |-> "none"]
    /\ losses = 0

-----------------------------------------------------------------------------
(* The disk. *)

(* A change to the prefix, or to `releases`, that every process sees and a
   loss of power may undo. *)
PrefixBecomes(to) == prefix' = to /\ prefixes' = prefixes \cup {to}
ShelfBecomes(to) == shelf' = to /\ shelves' = shelves \cup {to}

(* The directory synced: what it names now is what it will name. *)
SyncsPrefix == prefixes' = {prefix} /\ UNCHANGED <<prefix, shelf, shelves>>
SyncsShelf == shelves' = {shelf} /\ UNCHANGED <<shelf, prefix, prefixes>>

(* The unit `m` made reads as its receipt says: every file of it is there. *)
ReadsWhole(m) == m # None /\ content[m] # "part"

(* The one who made the unit `current` names. *)
Active == shelf.unit[prefix.current]

-----------------------------------------------------------------------------
(* One update. *)

Goes(p, to) == pc' = [pc EXCEPT ![p] = to]

(* `p` gives up, or is through, and says so: what it holds goes with it. *)
Says(p, what) ==
    /\ answer' = [answer EXCEPT ![p] = what]
    /\ Goes(p, "leaving")

(* What a failure is told as: of the roll back, or of the update. *)
Failure(p) == IF aim[p] = want[p].version THEN "failed" ELSE "rollBackFailed"

(* The newest release there is `r`, and the layout is as it is: there is
   something to update, or there is not. *)
Ask(p, r) ==
    /\ pc[p] = "off"
    /\ ReadsWhole(Active)
    /\ seen' = [seen EXCEPT ![p] = Active]
    /\ want' = [want EXCEPT ![p] = r]
    /\ aim' = [aim EXCEPT ![p] = r.version]
    /\ IF r.version > want[Active].version
         THEN Goes(p, "asked") /\ UNCHANGED answer
         ELSE Goes(p, "done") /\ answer' = [answer EXCEPT ![p] = "current"]
    /\ UNCHANGED <<disk, content, unsynced, losses>>

(* The lock is made where it is not, in the one call. *)
Take(p) ==
    /\ pc[p] = "asked"
    /\ prefix.lock = None
    /\ PrefixBecomes([prefix EXCEPT !.lock = p])
    /\ Goes(p, "locked")
    /\ UNCHANGED <<shelf, shelves, content, want, seen, aim, unsynced, answer, losses>>

(* Held, or left by a process that no longer runs: refused either way. *)
Refused(p) ==
    /\ pc[p] = "asked"
    /\ prefix.lock # None
    /\ Goes(p, "done")
    /\ answer' = [answer EXCEPT ![p] = "refused"]
    /\ UNCHANGED <<disk, content, want, seen, aim, unsynced, losses>>

SyncLock(p) ==
    /\ pc[p] = "locked"
    /\ SyncsPrefix
    /\ Goes(p, "held")
    /\ UNCHANGED <<content, want, seen, aim, unsynced, answer, losses>>

(* What was read before the lock was taken is what the update goes by. *)
RereadNothing(p) ==
    /\ pc[p] = "held"
    /\ Goes(p, "recover")
    /\ UNCHANGED <<disk, content, want, seen, aim, unsynced, answer, losses>>

(* The layout is read again under the lock, and must have the receipt it had
   and still be older than the newest release. *)
Reread(p) ==
    /\ pc[p] = "held"
    /\ IF ReadsWhole(Active) /\ want[Active] = want[seen[p]]
         THEN /\ want[p].version > want[Active].version
              /\ seen' = [seen EXCEPT ![p] = Active]
              /\ Goes(p, "recover")
              /\ UNCHANGED answer
         ELSE Says(p, "failed") /\ UNCHANGED seen
    /\ UNCHANGED <<disk, content, want, aim, unsynced, losses>>

(* A directory an interrupted install was staging is removed, whose it was
   said by nothing. *)
RecoverShelf(p, left) ==
    /\ pc[p] = "recover"
    /\ left \in shelf.incoming
    /\ ShelfBecomes([shelf EXCEPT !.incoming = @ \ {left}])
    /\ Goes(p, "recoverShelf")
    /\ UNCHANGED <<prefix, prefixes, content, want, seen, aim, unsynced, answer, losses>>

(* Then a link an interrupted install was about to rename over `current`. *)
RecoverPrefix(p, left) ==
    /\ pc[p] = "recover"
    /\ shelf.incoming = {}
    /\ left \in prefix.links
    /\ PrefixBecomes([prefix EXCEPT !.links = @ \ {left}])
    /\ Goes(p, "recoverPrefix")
    /\ UNCHANGED <<shelf, shelves, content, want, seen, aim, unsynced, answer, losses>>

SyncRecovery(p) ==
    /\ \/ pc[p] = "recoverShelf" /\ SyncsShelf
       \/ pc[p] = "recoverPrefix" /\ SyncsPrefix
    /\ Goes(p, "recover")
    /\ UNCHANGED <<content, want, seen, aim, unsynced, answer, losses>>

Recovered(p) ==
    /\ pc[p] = "recover"
    /\ shelf.incoming = {} /\ prefix.links = {}
    /\ Goes(p, "stage")
    /\ UNCHANGED <<disk, content, want, seen, aim, unsynced, answer, losses>>

(* The release is downloaded, and a directory made for it. *)
Make(p) ==
    /\ pc[p] = "stage"
    /\ ShelfBecomes([shelf EXCEPT !.incoming = @ \cup {p}])
    /\ Goes(p, "fill")
    /\ UNCHANGED <<prefix, prefixes, content, want, seen, aim, unsynced, answer, losses>>

(* Its executables and its receipt are written into it. *)
Fill(p) ==
    /\ pc[p] = "fill"
    /\ content' = [content EXCEPT ![p] = "written"]
    /\ Goes(p, "seal")
    /\ UNCHANGED <<disk, want, seen, aim, unsynced, answer, losses>>

(* Only what is in the new directory is synced. *)
SealNoName(p) ==
    /\ pc[p] = "sealed"
    /\ Goes(p, "activate")
    /\ UNCHANGED <<disk, content, want, seen, aim, unsynced, answer, losses>>

(* The directory is synced, and then the one that holds it: which makes
   whatever else is not yet synced in `releases` last as well. *)
Seal(p) ==
    /\ pc[p] = "seal"
    /\ content' = [content EXCEPT ![p] = "whole"]
    /\ Goes(p, "sealed")
    /\ UNCHANGED <<disk, want, seen, aim, unsynced, answer, losses>>

SealName(p) ==
    /\ pc[p] = "sealed"
    /\ SyncsShelf
    /\ Goes(p, "activate")
    /\ UNCHANGED <<content, want, seen, aim, unsynced, answer, losses>>

(* The staged unit is moved into its version's place, which nothing has. *)
Place(p) ==
    /\ pc[p] = "activate"
    /\ ReadsWhole(p)
    /\ shelf.unit[want[p].version] = None
    /\ ShelfBecomes([incoming |-> shelf.incoming \ {p},
                     unit |-> [shelf.unit EXCEPT ![want[p].version] = p]])
    /\ Goes(p, "placed")
    /\ UNCHANGED <<prefix, prefixes, content, want, seen, aim, unsynced, answer, losses>>

SyncPlace(p) ==
    /\ pc[p] = "placed"
    /\ SyncsShelf
    /\ Goes(p, "link")
    /\ UNCHANGED <<content, want, seen, aim, unsynced, answer, losses>>

(* A unit is there already.  It is used where it is whole and the same build,
   and left alone where it is not; the staged one is removed. *)
Reuse(p) ==
    LET there == shelf.unit[want[p].version] IN
    /\ pc[p] = "activate"
    /\ ReadsWhole(p)
    /\ there # None
    /\ ShelfBecomes([shelf EXCEPT !.incoming = @ \ {p}])
    /\ IF ReadsWhole(there) /\ want[there] = want[p]
         THEN Goes(p, "link") /\ UNCHANGED answer
         ELSE Says(p, "failed")
    /\ UNCHANGED <<prefix, prefixes, content, want, seen, aim, unsynced, losses>>

(* A link to the release to make active, beside `current`. *)
Link(p) ==
    /\ pc[p] = "link"
    /\ p \notin prefix.links
    /\ PrefixBecomes([prefix EXCEPT !.links = @ \cup {p}])
    /\ Goes(p, "switch")
    /\ UNCHANGED <<shelf, shelves, content, want, seen, aim, unsynced, answer, losses>>

(* Renamed over `current`: the one change that makes a release active. *)
Switch(p) ==
    /\ pc[p] = "switch"
    /\ PrefixBecomes([prefix EXCEPT !.links = @ \ {p}, !.current = aim[p]])
    /\ Goes(p, "switched")
    /\ UNCHANGED <<shelf, shelves, content, want, seen, aim, unsynced, answer, losses>>

(* It cannot be renamed, and is removed again. *)
SwitchFails(p) ==
    /\ pc[p] = "switch"
    /\ PrefixBecomes([prefix EXCEPT !.links = @ \ {p}])
    /\ Says(p, Failure(p))
    /\ UNCHANGED <<shelf, shelves, content, want, seen, aim, unsynced, losses>>

(* The switch is synced: the new release is to be tried, or the old one is
   back. *)
SyncSwitch(p) ==
    /\ pc[p] = "switched"
    /\ SyncsPrefix
    /\ IF aim[p] = want[p].version
         THEN Goes(p, "says") /\ UNCHANGED answer
         ELSE Says(p, "rolledBack")
    /\ UNCHANGED <<content, want, seen, aim, unsynced, losses>>

(* A switch that cannot be synced is told as one that was. *)
SwitchTold(p) ==
    /\ pc[p] = "switched"
    /\ IF aim[p] = want[p].version
         THEN Goes(p, "says") /\ UNCHANGED answer
         ELSE Says(p, "rolledBack")
    /\ UNCHANGED <<disk, content, want, seen, aim, unsynced, losses>>

(* It cannot be synced: the release is active all the same. *)
SwitchUnsynced(p) ==
    /\ pc[p] = "switched"
    /\ IF aim[p] = want[p].version
         THEN /\ unsynced' = unsynced \cup {p}
              /\ Goes(p, "says")
              /\ UNCHANGED answer
         ELSE Says(p, "rollBackFailed") /\ UNCHANGED unsynced
    /\ UNCHANGED <<disk, content, want, seen, aim, losses>>

(* The new `crucible` says it is the version it should be. *)
SaysSo(p) ==
    /\ pc[p] = "says"
    /\ Says(p, IF p \in unsynced THEN "unsynced" ELSE "updated")
    /\ UNCHANGED <<disk, content, want, seen, aim, unsynced, losses>>

(* It does not: the release before, once it is found whole and the build it
   was, is to be made active again. *)
RollBack(p) ==
    /\ pc[p] = "says"
    /\ LET was == shelf.unit[want[seen[p]].version] IN
         IF ReadsWhole(was) /\ want[was] = want[seen[p]]
           THEN /\ aim' = [aim EXCEPT ![p] = want[seen[p]].version]
                /\ Goes(p, "link")
                /\ UNCHANGED answer
           ELSE Says(p, "rollBackFailed") /\ UNCHANGED aim
    /\ UNCHANGED <<disk, content, want, seen, unsynced, losses>>

(* A step that makes no change of its own before it fails: a sync, a read, a
   download, a link.  What was being staged is removed with its value. *)
Fails(p) ==
    /\ pc[p] \in {"locked", "held", "recover", "recoverShelf", "recoverPrefix", "stage",
                  "fill", "seal", "sealed", "activate", "placed", "link"}
    /\ Says(p, Failure(p))
    /\ IF p \in shelf.incoming
         THEN ShelfBecomes([shelf EXCEPT !.incoming = @ \ {p}])
         ELSE UNCHANGED <<shelf, shelves>>
    /\ UNCHANGED <<prefix, prefixes, content, want, seen, aim, unsynced, losses>>

(* The lock is removed by the one who holds it, and by nobody else. *)
Unlock(p) ==
    /\ pc[p] = "leaving"
    /\ prefix.lock = p
    /\ PrefixBecomes([prefix EXCEPT !.lock = None])
    /\ Goes(p, "unlocked")
    /\ UNCHANGED <<shelf, shelves, content, want, seen, aim, unsynced, answer, losses>>

(* Its removal is synced where that can be done. *)
SyncUnlock(p) ==
    /\ pc[p] = "unlocked"
    /\ SyncsPrefix \/ UNCHANGED disk
    /\ Goes(p, "done")
    /\ UNCHANGED <<content, want, seen, aim, unsynced, answer, losses>>

-----------------------------------------------------------------------------
(* The world. *)

Killed(p) ==
    /\ p \in Running
    /\ Goes(p, "dead")
    /\ UNCHANGED <<disk, content, want, seen, aim, unsynced, answer, losses>>

(* The machine stops: of each directory, and of what was written and not yet
   synced, there is what there happens to be. *)
PowerLost ==
    /\ losses < Losses
    /\ losses' = losses + 1
    /\ pc' = [p \in Pids |-> IF p \in Running THEN "dead" ELSE pc[p]]
    /\ prefix' \in prefixes /\ prefixes' = {prefix'}
    /\ shelf' \in shelves /\ shelves' = {shelf'}
    /\ \E kept \in SUBSET {m \in Makers : content[m] = "written"} :
         content' = [m \in Makers |->
           IF content[m] # "written" THEN content[m]
           ELSE IF m \in kept THEN "whole" ELSE "part"]
    /\ UNCHANGED <<want, seen, aim, unsynced, answer>>

(* A person removes the lock that was left behind, no install running. *)
RemovedByHand ==
    /\ prefix.lock # None
    /\ Running = {}
    /\ PrefixBecomes([prefix EXCEPT !.lock = None])
    /\ UNCHANGED <<shelf, shelves, content, want, seen, aim, pc, unsynced, answer, losses>>

Step(p) ==
    \/ \E r \in Release : Ask(p, r)
    \/ Take(p) \/ Refused(p) \/ SyncLock(p) \/ Reread(p)
    \/ \E left \in Pids : RecoverShelf(p, left) \/ RecoverPrefix(p, left)
    \/ SyncRecovery(p) \/ Recovered(p)
    \/ Make(p) \/ Fill(p) \/ Seal(p) \/ SealName(p)
    \/ Place(p) \/ SyncPlace(p) \/ Reuse(p)
    \/ Link(p) \/ Switch(p) \/ SwitchFails(p) \/ SyncSwitch(p) \/ SwitchUnsynced(p)
    \/ SaysSo(p) \/ RollBack(p)
    \/ Fails(p) \/ Unlock(p) \/ SyncUnlock(p)
    \/ Killed(p)

Next == (\E p \in Pids : Step(p)) \/ PowerLost \/ RemovedByHand

Spec == Init /\ [][Next]_vars
-----------------------------------------------------------------------------
(* What the update promises. *)

(* "Every moment leaves one whole release active": whatever was killed, could
   not be synced or was lost with the power, `current` names a unit that is in
   its place with all its contents on the disk. *)
OneWholeRelease == Active # None /\ content[Active] = "whole"

(* The active release is made older only by a roll back of the process that
   made it active, under the lock that process has held throughout, or by a
   loss of power that undoes a switch nobody could sync: a second update that
   decided before the first one finished changes nothing. *)
NeverOlder ==
    [][prefix'.current < prefix.current =>
         \/ losses' # losses
         \/ \E p \in Pids :
              /\ prefix.lock = p
              /\ prefix.current = want[p].version
              /\ prefix'.current = want[seen[p]].version]_vars

(* What a person is told is so at the moment it is decided: an update told as
   done is what every loss of power would leave, so is a roll back, an update
   told as not durable is active, and one that failed made nothing active: the
   release it found under the lock still is, or the one that was when it could
   not even look for it. *)
AnswersAreTrue ==
    [][\A p \in Pids : answer'[p] # answer[p] =>
         /\ answer'[p] = "updated" =>
              \A left \in prefixes' : left.current = want[p].version
         /\ answer'[p] = "rolledBack" =>
              \A left \in prefixes' : left.current = want[seen[p]].version
         /\ answer'[p] = "unsynced" => prefix'.current = want[p].version
         /\ answer'[p] = "failed" =>
              /\ prefix'.current = prefix.current /\ p \notin unsynced
              /\ pc[p] \notin {"locked", "held"} =>
                   prefix'.current = want[seen[p]].version]_vars
=============================================================================
