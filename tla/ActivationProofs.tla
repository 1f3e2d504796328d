-------------------------- MODULE ActivationProofs --------------------------
(***************************************************************************)
(* Theorems about Activation, for any number of processes that update, any *)
(* versions and builds, and any number of kills and losses of power.       *)
(***************************************************************************)
EXTENDS Activation, TLAPS

(* Where a process has the lock. *)
Holding == Places \ {"off", "asked", "unlocked", "done", "dead"}

(* Where it has written nothing yet. *)
Early ==
    {"off", "asked", "locked", "held", "recover", "recoverShelf", "recoverPrefix", "stage",
     "fill"}

(* Where it is about to make its new release active. *)
Before ==
    {"recover", "recoverShelf", "recoverPrefix", "stage", "fill", "seal", "sealed",
     "activate", "placed"}

(* Whatever a loss of power leaves of `releases`, there is a unit in the
   version's place. *)
Kept(v) == \A left \in shelves : left.unit[v] # None

(* The lock is held by one process at a time. *)
Owned == \A p \in Pids : pc[p] \in Holding => prefix.lock = p

(* A release is written once, and before it gets a place; every unit in a
   place, before or after a loss of power, is whole and of that version. *)
Written ==
    /\ \A p \in Pids : pc[p] \in Early => content[p] = "part"
    /\ \A p \in Pids : pc[p] \in {"sealed", "activate"} => content[p] = "whole"
    /\ \A left \in shelves : \A v \in Versions :
         left.unit[v] # None =>
           content[left.unit[v]] = "whole" /\ want[left.unit[v]].version = v

(* What a process goes by: the release it found active keeps its place, and so
   does the one it is to make active by the time it links to it. *)
Placed ==
    /\ \A p \in Pids : content[seen[p]] = "whole" /\ Kept(want[seen[p]].version)
    /\ \A p \in Pids : pc[p] = "activate" => shelves = {shelf}
    /\ \A p \in Pids : pc[p] = "placed" => shelf.unit[want[p].version] = p
    /\ \A p \in Pids : pc[p] \in {"link", "switch"} => Kept(aim[p])

(* Whatever a loss of power leaves of the prefix names a release that keeps its
   place. *)
Whole == \A left \in prefixes : Kept(left.current)

(* Where the switch of a process is: the old release active and the new one
   aimed at, or the new one active and the old one aimed at. *)
Forth(p) ==
  /\ prefix.current = want[seen[p]].version
  /\ aim[p] = want[p].version
  /\ p \notin unsynced
Back(p) == prefix.current = want[p].version /\ aim[p] = want[seen[p]].version

AimedOf(p) ==
  /\ pc[p] = "off" => p \notin unsynced
  /\ pc[p] \in {"asked", "locked", "held"} => aim[p] = want[p].version /\ p \notin unsynced
  /\ pc[p] \in Before \cup {"link", "switch", "switched", "says"} =>
       want[seen[p]].version < want[p].version
  /\ pc[p] \in Before => Forth(p)
  /\ pc[p] \in {"link", "switch"} => Forth(p) \/ Back(p)
  /\ pc[p] = "switched" =>
       /\ prefix.current = aim[p]
       /\ \/ aim[p] = want[p].version /\ p \notin unsynced
          \/ aim[p] = want[seen[p]].version
  /\ pc[p] = "says" =>
       /\ prefix.current = want[p].version /\ aim[p] = want[p].version
       /\ p \notin unsynced => \A left \in prefixes : left.current = want[p].version

Aimed == \A p \in Pids : AimedOf(p)

IInv == TypeOK /\ Owned /\ Written /\ Placed /\ Whole /\ Aimed
-----------------------------------------------------------------------------
(* Every variable has its type at first. *)
LEMMA TypeInit == Init => TypeOK
BY VersionsAssumption, BuildsAssumption, LossesAssumption, NamesAssumption
  DEF Init, TypeOK, Prefixes, Shelves, Makers, Release, Places, Answers

(* What `current` names is nothing, or was made by somebody. *)
LEMMA ActiveType == TypeOK => Active \in Makers \cup {None}
BY DEF TypeOK, Prefixes, Shelves, Active

(* Every variable keeps its type. *)
LEMMA TypeNext == TypeOK /\ [Next]_vars => TypeOK'
<1> SUFFICES ASSUME TypeOK, [Next]_vars PROVE TypeOK'
  OBVIOUS
<1> USE NamesAssumption DEF TypeOK, Prefixes, Shelves, Makers, Places, Answers
<1>1. ASSUME NEW p \in Pids, NEW r \in Release, Ask(p, r) PROVE TypeOK'
  <2>1. Active \in Makers
    BY <1>1, ActiveType DEF Ask, ReadsWhole
  <2>2. r.version \in Versions
    BY DEF Release
  <2>3. pc' \in [Pids -> Places] /\ answer' \in [Pids -> Answers]
    BY <1>1 DEF Ask, Goes
  <2> QED
    BY <1>1, <2>1, <2>2, <2>3 DEF Ask, disk
<1>2. ASSUME NEW p \in Pids, Take(p) PROVE TypeOK'
  BY <1>2 DEF Take, PrefixBecomes, Goes
<1>3. ASSUME NEW p \in Pids, Refused(p) PROVE TypeOK'
  BY <1>3 DEF Refused, disk, Goes
<1>4. ASSUME NEW p \in Pids, SyncLock(p) PROVE TypeOK'
  BY <1>4 DEF SyncLock, SyncsPrefix, Goes
<1>5. ASSUME NEW p \in Pids, Reread(p) PROVE TypeOK'
  BY <1>5 DEF Reread, disk, Goes, Says, Active, ReadsWhole, Active
<1>6. ASSUME NEW p \in Pids, NEW l \in Pids, RecoverShelf(p, l) PROVE TypeOK'
  BY <1>6 DEF RecoverShelf, ShelfBecomes, Goes
<1>7. ASSUME NEW p \in Pids, NEW l \in Pids, RecoverPrefix(p, l) PROVE TypeOK'
  BY <1>7 DEF RecoverPrefix, PrefixBecomes, Goes
<1>8. ASSUME NEW p \in Pids, SyncRecovery(p) PROVE TypeOK'
  BY <1>8 DEF SyncRecovery, SyncsShelf, SyncsPrefix, Goes
<1>9. ASSUME NEW p \in Pids, Recovered(p) PROVE TypeOK'
  BY <1>9 DEF Recovered, disk, Goes
<1>10. ASSUME NEW p \in Pids, Make(p) PROVE TypeOK'
  BY <1>10 DEF Make, ShelfBecomes, Goes
<1>11. ASSUME NEW p \in Pids, Fill(p) PROVE TypeOK'
  BY <1>11 DEF Fill, disk, Goes
<1>12. ASSUME NEW p \in Pids, Seal(p) PROVE TypeOK'
  BY <1>12 DEF Seal, disk, Goes
<1>13. ASSUME NEW p \in Pids, SealName(p) PROVE TypeOK'
  BY <1>13 DEF SealName, SyncsShelf, Goes
<1>14. ASSUME NEW p \in Pids, Place(p) PROVE TypeOK'
  BY <1>14 DEF Place, ShelfBecomes, Goes, ReadsWhole
<1>15. ASSUME NEW p \in Pids, SyncPlace(p) PROVE TypeOK'
  BY <1>15 DEF SyncPlace, SyncsShelf, Goes
<1>16. ASSUME NEW p \in Pids, Reuse(p) PROVE TypeOK'
  BY <1>16 DEF Reuse, ShelfBecomes, Goes, Says, ReadsWhole
<1>17. ASSUME NEW p \in Pids, Link(p) PROVE TypeOK'
  BY <1>17 DEF Link, PrefixBecomes, Goes
<1>18. ASSUME NEW p \in Pids, Switch(p) PROVE TypeOK'
  <2>1. aim[p] \in Versions
    OBVIOUS
  <2>2. prefix' \in Prefixes
    BY <1>18, <2>1 DEF Switch, PrefixBecomes
  <2> QED
    BY <1>18, <2>2 DEF Switch, PrefixBecomes, Goes
<1>19. ASSUME NEW p \in Pids, SwitchFails(p) PROVE TypeOK'
  BY <1>19 DEF SwitchFails, PrefixBecomes, Says, Goes, Failure
<1>20. ASSUME NEW p \in Pids, SyncSwitch(p) PROVE TypeOK'
  BY <1>20 DEF SyncSwitch, SyncsPrefix, Says, Goes
<1>21. ASSUME NEW p \in Pids, SwitchUnsynced(p) PROVE TypeOK'
  BY <1>21 DEF SwitchUnsynced, disk, Says, Goes
<1>22. ASSUME NEW p \in Pids, SaysSo(p) PROVE TypeOK'
  BY <1>22 DEF SaysSo, disk, Says, Goes
<1>23. ASSUME NEW p \in Pids, RollBack(p) PROVE TypeOK'
  <2>1. want[seen[p]].version \in Versions
    BY DEF Release
  <2> QED
    BY <1>23, <2>1 DEF RollBack, disk, Says, Goes
<1>24. ASSUME NEW p \in Pids, Fails(p) PROVE TypeOK'
  BY <1>24 DEF Fails, ShelfBecomes, Says, Goes, Failure
<1>25. ASSUME NEW p \in Pids, Unlock(p) PROVE TypeOK'
  BY <1>25 DEF Unlock, PrefixBecomes, Goes
<1>26. ASSUME NEW p \in Pids, SyncUnlock(p) PROVE TypeOK'
  BY <1>26 DEF SyncUnlock, SyncsPrefix, disk, Goes
<1>27. ASSUME NEW p \in Pids, Killed(p) PROVE TypeOK'
  BY <1>27 DEF Killed, disk, Goes, Running
<1>28. CASE PowerLost
  <2>1. content' \in [Makers -> {"part", "written", "whole"}]
    BY <1>28 DEF PowerLost
  <2>2. pc' \in [Pids -> Places]
    BY <1>28 DEF PowerLost
  <2>3. losses' \in 0 .. Losses
    BY <1>28, LossesAssumption DEF PowerLost
  <2>4. prefix' \in prefixes' /\ prefixes' \subseteq Prefixes
    BY <1>28 DEF PowerLost
  <2>5. shelf' \in shelves' /\ shelves' \subseteq Shelves
    BY <1>28 DEF PowerLost
  <2> QED
    BY <1>28, <2>1, <2>2, <2>3, <2>4, <2>5 DEF PowerLost
<1>29. CASE RemovedByHand
  BY <1>29 DEF RemovedByHand, PrefixBecomes, Running
<1>30. CASE UNCHANGED vars
  BY <1>30 DEF vars, disk
<1> QED
  BY <1>1, <1>2, <1>3, <1>4, <1>5, <1>6, <1>7, <1>8, <1>9, <1>10, <1>11, <1>12, <1>13,
     <1>14, <1>15, <1>16, <1>17, <1>18, <1>19, <1>20, <1>21, <1>22, <1>23, <1>24, <1>25,
     <1>26, <1>27, <1>28, <1>29, <1>30 DEF Next, Step

(* Every variable keeps its type, in every run of any number of updates. *)
THEOREM TypeCorrect == Spec => []TypeOK
<1> QED  BY TypeInit, TypeNext, PTL DEF Spec
-----------------------------------------------------------------------------
(* A release that is whole is written no more, and wanted as it was. *)
LEMMA WholeStays ==
  ASSUME TypeOK, Written, [Next]_vars, NEW m \in Makers, content[m] = "whole"
  PROVE  content'[m] = "whole" /\ want'[m] = want[m]
<1> DEFINE Stays == content'[m] = "whole" /\ want'[m] = want[m]
<1> USE NamesAssumption DEF TypeOK, Makers, Written, Early
<1>1. ASSUME NEW p \in Pids, NEW r \in Release, Ask(p, r) PROVE Stays
  BY <1>1 DEF Ask, Goes, disk
<1>2. ASSUME NEW p \in Pids, Take(p) PROVE Stays
  BY <1>2 DEF Take, PrefixBecomes, Goes
<1>3. ASSUME NEW p \in Pids, Refused(p) PROVE Stays
  BY <1>3 DEF Refused, disk, Goes
<1>4. ASSUME NEW p \in Pids, SyncLock(p) PROVE Stays
  BY <1>4 DEF SyncLock, SyncsPrefix, Goes
<1>5. ASSUME NEW p \in Pids, Reread(p) PROVE Stays
  BY <1>5 DEF Reread, disk, Goes, Says, Active, ReadsWhole
<1>6. ASSUME NEW p \in Pids, NEW l \in Pids, RecoverShelf(p, l) PROVE Stays
  BY <1>6 DEF RecoverShelf, ShelfBecomes, Goes
<1>7. ASSUME NEW p \in Pids, NEW l \in Pids, RecoverPrefix(p, l) PROVE Stays
  BY <1>7 DEF RecoverPrefix, PrefixBecomes, Goes
<1>8. ASSUME NEW p \in Pids, SyncRecovery(p) PROVE Stays
  BY <1>8 DEF SyncRecovery, SyncsShelf, SyncsPrefix, Goes
<1>9. ASSUME NEW p \in Pids, Recovered(p) PROVE Stays
  BY <1>9 DEF Recovered, disk, Goes
<1>10. ASSUME NEW p \in Pids, Make(p) PROVE Stays
  BY <1>10 DEF Make, ShelfBecomes, Goes
<1>11. ASSUME NEW p \in Pids, Fill(p) PROVE Stays
  BY <1>11 DEF Fill, disk, Goes
<1>12. ASSUME NEW p \in Pids, Seal(p) PROVE Stays
  BY <1>12 DEF Seal, disk, Goes
<1>13. ASSUME NEW p \in Pids, SealName(p) PROVE Stays
  BY <1>13 DEF SealName, SyncsShelf, Goes
<1>14. ASSUME NEW p \in Pids, Place(p) PROVE Stays
  BY <1>14 DEF Place, ShelfBecomes, Goes, ReadsWhole
<1>15. ASSUME NEW p \in Pids, SyncPlace(p) PROVE Stays
  BY <1>15 DEF SyncPlace, SyncsShelf, Goes
<1>16. ASSUME NEW p \in Pids, Reuse(p) PROVE Stays
  BY <1>16 DEF Reuse, ShelfBecomes, Goes, Says, ReadsWhole
<1>17. ASSUME NEW p \in Pids, Link(p) PROVE Stays
  BY <1>17 DEF Link, PrefixBecomes, Goes
<1>18. ASSUME NEW p \in Pids, Switch(p) PROVE Stays
  BY <1>18 DEF Switch, PrefixBecomes, Goes
<1>19. ASSUME NEW p \in Pids, SwitchFails(p) PROVE Stays
  BY <1>19 DEF SwitchFails, PrefixBecomes, Says, Goes
<1>20. ASSUME NEW p \in Pids, SyncSwitch(p) PROVE Stays
  BY <1>20 DEF SyncSwitch, SyncsPrefix, Says, Goes
<1>21. ASSUME NEW p \in Pids, SwitchUnsynced(p) PROVE Stays
  BY <1>21 DEF SwitchUnsynced, disk, Says, Goes
<1>22. ASSUME NEW p \in Pids, SaysSo(p) PROVE Stays
  BY <1>22 DEF SaysSo, disk, Says, Goes
<1>23. ASSUME NEW p \in Pids, RollBack(p) PROVE Stays
  BY <1>23 DEF RollBack, disk, Says, Goes, ReadsWhole
<1>24. ASSUME NEW p \in Pids, Fails(p) PROVE Stays
  BY <1>24 DEF Fails, ShelfBecomes, Says, Goes
<1>25. ASSUME NEW p \in Pids, Unlock(p) PROVE Stays
  BY <1>25 DEF Unlock, PrefixBecomes, Goes
<1>26. ASSUME NEW p \in Pids, SyncUnlock(p) PROVE Stays
  BY <1>26 DEF SyncUnlock, SyncsPrefix, disk, Goes
<1>27. ASSUME NEW p \in Pids, Killed(p) PROVE Stays
  BY <1>27 DEF Killed, disk, Goes, Running
<1>28. CASE PowerLost
  BY <1>28 DEF PowerLost, Running
<1>29. CASE RemovedByHand
  BY <1>29 DEF RemovedByHand, PrefixBecomes, Running
<1>30. CASE UNCHANGED vars
  BY <1>30 DEF vars, disk
<1> QED
  BY <1>1, <1>2, <1>3, <1>4, <1>5, <1>6, <1>7, <1>8, <1>9, <1>10, <1>11, <1>12, <1>13,
     <1>14, <1>15, <1>16, <1>17, <1>18, <1>19, <1>20, <1>21, <1>22, <1>23, <1>24, <1>25,
     <1>26, <1>27, <1>28, <1>29, <1>30 DEF Next, Step

(* What may become of `releases`: what it could be already, the units that are
   there, or one more in a place that was free. *)
LEMMA ShelvesGrow ==
  ASSUME TypeOK, [Next]_vars, NEW left \in shelves'
  PROVE  \/ left \in shelves
         \/ left.unit = shelf.unit
         \/ \E p \in Pids :
              /\ pc[p] = "activate"
              /\ shelf.unit[want[p].version] = None
              /\ want' = want
              /\ left.unit = [shelf.unit EXCEPT ![want[p].version] = p]
<1> DEFINE Grows ==
      \/ left \in shelves
      \/ left.unit = shelf.unit
      \/ \E p \in Pids :
           /\ pc[p] = "activate"
           /\ shelf.unit[want[p].version] = None
           /\ want' = want
           /\ left.unit = [shelf.unit EXCEPT ![want[p].version] = p]
<1> USE DEF TypeOK, Shelves
<1>1. ASSUME NEW p \in Pids, NEW r \in Release, Ask(p, r) PROVE Grows
  BY <1>1 DEF Ask, Goes, disk
<1>2. ASSUME NEW p \in Pids, Take(p) PROVE Grows
  BY <1>2 DEF Take, PrefixBecomes, Goes
<1>3. ASSUME NEW p \in Pids, Refused(p) PROVE Grows
  BY <1>3 DEF Refused, disk, Goes
<1>4. ASSUME NEW p \in Pids, SyncLock(p) PROVE Grows
  BY <1>4 DEF SyncLock, SyncsPrefix, Goes
<1>5. ASSUME NEW p \in Pids, Reread(p) PROVE Grows
  BY <1>5 DEF Reread, disk, Goes, Says, Active, ReadsWhole
<1>6. ASSUME NEW p \in Pids, NEW l \in Pids, RecoverShelf(p, l) PROVE Grows
  BY <1>6 DEF RecoverShelf, ShelfBecomes, Goes
<1>7. ASSUME NEW p \in Pids, NEW l \in Pids, RecoverPrefix(p, l) PROVE Grows
  BY <1>7 DEF RecoverPrefix, PrefixBecomes, Goes
<1>8. ASSUME NEW p \in Pids, SyncRecovery(p) PROVE Grows
  BY <1>8 DEF SyncRecovery, SyncsShelf, SyncsPrefix, Goes
<1>9. ASSUME NEW p \in Pids, Recovered(p) PROVE Grows
  BY <1>9 DEF Recovered, disk, Goes
<1>10. ASSUME NEW p \in Pids, Make(p) PROVE Grows
  BY <1>10 DEF Make, ShelfBecomes, Goes
<1>11. ASSUME NEW p \in Pids, Fill(p) PROVE Grows
  BY <1>11 DEF Fill, disk, Goes
<1>12. ASSUME NEW p \in Pids, Seal(p) PROVE Grows
  BY <1>12 DEF Seal, disk, Goes
<1>13. ASSUME NEW p \in Pids, SealName(p) PROVE Grows
  BY <1>13 DEF SealName, SyncsShelf, Goes
<1>14. ASSUME NEW p \in Pids, Place(p) PROVE Grows
  <2>1. CASE left \in shelves
    BY <2>1
  <2>2. CASE left = [incoming |-> shelf.incoming \ {p},
                     unit |-> [shelf.unit EXCEPT ![want[p].version] = p]]
    <3>1. left.unit = [shelf.unit EXCEPT ![want[p].version] = p]
      BY <2>2
    <3> QED
      BY <1>14, <3>1 DEF Place
  <2> QED
    BY <1>14, <2>1, <2>2 DEF Place, ShelfBecomes
<1>15. ASSUME NEW p \in Pids, SyncPlace(p) PROVE Grows
  BY <1>15 DEF SyncPlace, SyncsShelf, Goes
<1>16. ASSUME NEW p \in Pids, Reuse(p) PROVE Grows
  BY <1>16 DEF Reuse, ShelfBecomes, Goes, Says, ReadsWhole
<1>17. ASSUME NEW p \in Pids, Link(p) PROVE Grows
  BY <1>17 DEF Link, PrefixBecomes, Goes
<1>18. ASSUME NEW p \in Pids, Switch(p) PROVE Grows
  BY <1>18 DEF Switch, PrefixBecomes, Goes
<1>19. ASSUME NEW p \in Pids, SwitchFails(p) PROVE Grows
  BY <1>19 DEF SwitchFails, PrefixBecomes, Says, Goes
<1>20. ASSUME NEW p \in Pids, SyncSwitch(p) PROVE Grows
  BY <1>20 DEF SyncSwitch, SyncsPrefix, Says, Goes
<1>21. ASSUME NEW p \in Pids, SwitchUnsynced(p) PROVE Grows
  BY <1>21 DEF SwitchUnsynced, disk, Says, Goes
<1>22. ASSUME NEW p \in Pids, SaysSo(p) PROVE Grows
  BY <1>22 DEF SaysSo, disk, Says, Goes
<1>23. ASSUME NEW p \in Pids, RollBack(p) PROVE Grows
  BY <1>23 DEF RollBack, disk, Says, Goes, ReadsWhole
<1>24. ASSUME NEW p \in Pids, Fails(p) PROVE Grows
  BY <1>24 DEF Fails, ShelfBecomes, Says, Goes
<1>25. ASSUME NEW p \in Pids, Unlock(p) PROVE Grows
  BY <1>25 DEF Unlock, PrefixBecomes, Goes
<1>26. ASSUME NEW p \in Pids, SyncUnlock(p) PROVE Grows
  BY <1>26 DEF SyncUnlock, SyncsPrefix, disk, Goes
<1>27. ASSUME NEW p \in Pids, Killed(p) PROVE Grows
  BY <1>27 DEF Killed, disk, Goes, Running
<1>28. CASE PowerLost
  BY <1>28 DEF PowerLost, Running
<1>29. CASE RemovedByHand
  BY <1>29 DEF RemovedByHand, PrefixBecomes, Running
<1>30. CASE UNCHANGED vars
  BY <1>30 DEF vars, disk
<1> QED
  BY <1>1, <1>2, <1>3, <1>4, <1>5, <1>6, <1>7, <1>8, <1>9, <1>10, <1>11, <1>12, <1>13,
     <1>14, <1>15, <1>16, <1>17, <1>18, <1>19, <1>20, <1>21, <1>22, <1>23, <1>24, <1>25,
     <1>26, <1>27, <1>28, <1>29, <1>30 DEF Next, Step

(* What may become of the prefix: `current` names what it could already, or
   what a switch was aimed at. *)
LEMMA PrefixesGrow ==
  ASSUME TypeOK, [Next]_vars, NEW left \in prefixes'
  PROVE  \/ left \in prefixes
         \/ left.current = prefix.current
         \/ \E p \in Pids : pc[p] = "switch" /\ left.current = aim[p]
<1> DEFINE Grows ==
      \/ left \in prefixes
      \/ left.current = prefix.current
      \/ \E p \in Pids : pc[p] = "switch" /\ left.current = aim[p]
<1> USE DEF TypeOK, Prefixes
<1>1. ASSUME NEW p \in Pids, NEW r \in Release, Ask(p, r) PROVE Grows
  BY <1>1 DEF Ask, Goes, disk
<1>2. ASSUME NEW p \in Pids, Take(p) PROVE Grows
  BY <1>2 DEF Take, PrefixBecomes, Goes
<1>3. ASSUME NEW p \in Pids, Refused(p) PROVE Grows
  BY <1>3 DEF Refused, disk, Goes
<1>4. ASSUME NEW p \in Pids, SyncLock(p) PROVE Grows
  BY <1>4 DEF SyncLock, SyncsPrefix, Goes
<1>5. ASSUME NEW p \in Pids, Reread(p) PROVE Grows
  BY <1>5 DEF Reread, disk, Goes, Says, Active, ReadsWhole
<1>6. ASSUME NEW p \in Pids, NEW l \in Pids, RecoverShelf(p, l) PROVE Grows
  BY <1>6 DEF RecoverShelf, ShelfBecomes, Goes
<1>7. ASSUME NEW p \in Pids, NEW l \in Pids, RecoverPrefix(p, l) PROVE Grows
  BY <1>7 DEF RecoverPrefix, PrefixBecomes, Goes
<1>8. ASSUME NEW p \in Pids, SyncRecovery(p) PROVE Grows
  BY <1>8 DEF SyncRecovery, SyncsShelf, SyncsPrefix, Goes
<1>9. ASSUME NEW p \in Pids, Recovered(p) PROVE Grows
  BY <1>9 DEF Recovered, disk, Goes
<1>10. ASSUME NEW p \in Pids, Make(p) PROVE Grows
  BY <1>10 DEF Make, ShelfBecomes, Goes
<1>11. ASSUME NEW p \in Pids, Fill(p) PROVE Grows
  BY <1>11 DEF Fill, disk, Goes
<1>12. ASSUME NEW p \in Pids, Seal(p) PROVE Grows
  BY <1>12 DEF Seal, disk, Goes
<1>13. ASSUME NEW p \in Pids, SealName(p) PROVE Grows
  BY <1>13 DEF SealName, SyncsShelf, Goes
<1>14. ASSUME NEW p \in Pids, Place(p) PROVE Grows
  BY <1>14 DEF Place, ShelfBecomes, Goes, ReadsWhole
<1>15. ASSUME NEW p \in Pids, SyncPlace(p) PROVE Grows
  BY <1>15 DEF SyncPlace, SyncsShelf, Goes
<1>16. ASSUME NEW p \in Pids, Reuse(p) PROVE Grows
  BY <1>16 DEF Reuse, ShelfBecomes, Goes, Says, ReadsWhole
<1>17. ASSUME NEW p \in Pids, Link(p) PROVE Grows
  BY <1>17 DEF Link, PrefixBecomes, Goes
<1>18. ASSUME NEW p \in Pids, Switch(p) PROVE Grows
  BY <1>18 DEF Switch, PrefixBecomes, Goes
<1>19. ASSUME NEW p \in Pids, SwitchFails(p) PROVE Grows
  BY <1>19 DEF SwitchFails, PrefixBecomes, Says, Goes
<1>20. ASSUME NEW p \in Pids, SyncSwitch(p) PROVE Grows
  BY <1>20 DEF SyncSwitch, SyncsPrefix, Says, Goes
<1>21. ASSUME NEW p \in Pids, SwitchUnsynced(p) PROVE Grows
  BY <1>21 DEF SwitchUnsynced, disk, Says, Goes
<1>22. ASSUME NEW p \in Pids, SaysSo(p) PROVE Grows
  BY <1>22 DEF SaysSo, disk, Says, Goes
<1>23. ASSUME NEW p \in Pids, RollBack(p) PROVE Grows
  BY <1>23 DEF RollBack, disk, Says, Goes, ReadsWhole
<1>24. ASSUME NEW p \in Pids, Fails(p) PROVE Grows
  BY <1>24 DEF Fails, ShelfBecomes, Says, Goes
<1>25. ASSUME NEW p \in Pids, Unlock(p) PROVE Grows
  BY <1>25 DEF Unlock, PrefixBecomes, Goes
<1>26. ASSUME NEW p \in Pids, SyncUnlock(p) PROVE Grows
  BY <1>26 DEF SyncUnlock, SyncsPrefix, disk, Goes
<1>27. ASSUME NEW p \in Pids, Killed(p) PROVE Grows
  BY <1>27 DEF Killed, disk, Goes, Running
<1>28. CASE PowerLost
  BY <1>28 DEF PowerLost, Running
<1>29. CASE RemovedByHand
  BY <1>29 DEF RemovedByHand, PrefixBecomes, Running
<1>30. CASE UNCHANGED vars
  BY <1>30 DEF vars, disk
<1> QED
  BY <1>1, <1>2, <1>3, <1>4, <1>5, <1>6, <1>7, <1>8, <1>9, <1>10, <1>11, <1>12, <1>13,
     <1>14, <1>15, <1>16, <1>17, <1>18, <1>19, <1>20, <1>21, <1>22, <1>23, <1>24, <1>25,
     <1>26, <1>27, <1>28, <1>29, <1>30 DEF Next, Step

(* A version that keeps its place goes on keeping it. *)
LEMMA KeptStays ==
  ASSUME TypeOK, [Next]_vars, NEW v \in Versions, Kept(v)
  PROVE  \A left \in shelves' : left.unit[v] # None
<1> SUFFICES ASSUME NEW left \in shelves' PROVE left.unit[v] # None
  OBVIOUS
<1>1. shelf \in shelves /\ shelf.unit[v] # None /\ shelf.unit \in [Versions -> Makers \cup {None}]
  BY DEF TypeOK, Shelves, Kept
<1> QED
  BY <1>1, ShelvesGrow DEF Kept

(* The active release is whole, of the version `current` names, and keeps its
   place. *)
LEMMA ActiveWhole ==
  ASSUME TypeOK, Written, Whole
  PROVE  /\ Active \in Makers
         /\ content[Active] = "whole"
         /\ want[Active].version = prefix.current
         /\ prefix.current \in Versions /\ Kept(prefix.current)
<1>1. prefix.current \in Versions /\ Kept(prefix.current)
  BY DEF TypeOK, Prefixes, Whole
<1>2. Active # None
  BY <1>1 DEF TypeOK, Kept, Active
<1> QED
  BY <1>1, <1>2, ActiveType DEF TypeOK, Written, Active

(* A process goes by the release it found active, or by the active one. *)
LEMMA SeenStep ==
  ASSUME TypeOK, [Next]_vars, NEW q \in Pids
  PROVE  seen'[q] \in {seen[q], Active}
<1> DEFINE Goal == seen'[q] \in {seen[q], Active}
<1> USE DEF TypeOK
<1>1. ASSUME NEW p \in Pids, NEW r \in Release, Ask(p, r) PROVE Goal
  BY <1>1 DEF Ask, Goes, disk
<1>2. ASSUME NEW p \in Pids, Take(p) PROVE Goal
  BY <1>2 DEF Take, PrefixBecomes, Goes
<1>3. ASSUME NEW p \in Pids, Refused(p) PROVE Goal
  BY <1>3 DEF Refused, disk, Goes
<1>4. ASSUME NEW p \in Pids, SyncLock(p) PROVE Goal
  BY <1>4 DEF SyncLock, SyncsPrefix, Goes
<1>5. ASSUME NEW p \in Pids, Reread(p) PROVE Goal
  BY <1>5 DEF Reread, disk, Goes, Says, Active, ReadsWhole
<1>6. ASSUME NEW p \in Pids, NEW l \in Pids, RecoverShelf(p, l) PROVE Goal
  BY <1>6 DEF RecoverShelf, ShelfBecomes, Goes
<1>7. ASSUME NEW p \in Pids, NEW l \in Pids, RecoverPrefix(p, l) PROVE Goal
  BY <1>7 DEF RecoverPrefix, PrefixBecomes, Goes
<1>8. ASSUME NEW p \in Pids, SyncRecovery(p) PROVE Goal
  BY <1>8 DEF SyncRecovery, SyncsShelf, SyncsPrefix, Goes
<1>9. ASSUME NEW p \in Pids, Recovered(p) PROVE Goal
  BY <1>9 DEF Recovered, disk, Goes
<1>10. ASSUME NEW p \in Pids, Make(p) PROVE Goal
  BY <1>10 DEF Make, ShelfBecomes, Goes
<1>11. ASSUME NEW p \in Pids, Fill(p) PROVE Goal
  BY <1>11 DEF Fill, disk, Goes
<1>12. ASSUME NEW p \in Pids, Seal(p) PROVE Goal
  BY <1>12 DEF Seal, disk, Goes
<1>13. ASSUME NEW p \in Pids, SealName(p) PROVE Goal
  BY <1>13 DEF SealName, SyncsShelf, Goes
<1>14. ASSUME NEW p \in Pids, Place(p) PROVE Goal
  BY <1>14 DEF Place, ShelfBecomes, Goes, ReadsWhole
<1>15. ASSUME NEW p \in Pids, SyncPlace(p) PROVE Goal
  BY <1>15 DEF SyncPlace, SyncsShelf, Goes
<1>16. ASSUME NEW p \in Pids, Reuse(p) PROVE Goal
  BY <1>16 DEF Reuse, ShelfBecomes, Goes, Says, ReadsWhole
<1>17. ASSUME NEW p \in Pids, Link(p) PROVE Goal
  BY <1>17 DEF Link, PrefixBecomes, Goes
<1>18. ASSUME NEW p \in Pids, Switch(p) PROVE Goal
  BY <1>18 DEF Switch, PrefixBecomes, Goes
<1>19. ASSUME NEW p \in Pids, SwitchFails(p) PROVE Goal
  BY <1>19 DEF SwitchFails, PrefixBecomes, Says, Goes
<1>20. ASSUME NEW p \in Pids, SyncSwitch(p) PROVE Goal
  BY <1>20 DEF SyncSwitch, SyncsPrefix, Says, Goes
<1>21. ASSUME NEW p \in Pids, SwitchUnsynced(p) PROVE Goal
  BY <1>21 DEF SwitchUnsynced, disk, Says, Goes
<1>22. ASSUME NEW p \in Pids, SaysSo(p) PROVE Goal
  BY <1>22 DEF SaysSo, disk, Says, Goes
<1>23. ASSUME NEW p \in Pids, RollBack(p) PROVE Goal
  BY <1>23 DEF RollBack, disk, Says, Goes, ReadsWhole
<1>24. ASSUME NEW p \in Pids, Fails(p) PROVE Goal
  BY <1>24 DEF Fails, ShelfBecomes, Says, Goes
<1>25. ASSUME NEW p \in Pids, Unlock(p) PROVE Goal
  BY <1>25 DEF Unlock, PrefixBecomes, Goes
<1>26. ASSUME NEW p \in Pids, SyncUnlock(p) PROVE Goal
  BY <1>26 DEF SyncUnlock, SyncsPrefix, disk, Goes
<1>27. ASSUME NEW p \in Pids, Killed(p) PROVE Goal
  BY <1>27 DEF Killed, disk, Goes, Running
<1>28. CASE PowerLost
  BY <1>28 DEF PowerLost, Running
<1>29. CASE RemovedByHand
  BY <1>29 DEF RemovedByHand, PrefixBecomes, Running
<1>30. CASE UNCHANGED vars
  BY <1>30 DEF vars, disk
<1> QED
  BY <1>1, <1>2, <1>3, <1>4, <1>5, <1>6, <1>7, <1>8, <1>9, <1>10, <1>11, <1>12, <1>13,
     <1>14, <1>15, <1>16, <1>17, <1>18, <1>19, <1>20, <1>21, <1>22, <1>23, <1>24, <1>25,
     <1>26, <1>27, <1>28, <1>29, <1>30 DEF Next, Step
-----------------------------------------------------------------------------
(* The invariant holds at first. *)
LEMMA InvInit == Init => IInv
<1> SUFFICES ASSUME Init PROVE IInv
  OBVIOUS
<1>1. TypeOK
  BY TypeInit
<1>2. Owned /\ Aimed
  BY DEF Init, Owned, Aimed, AimedOf, Holding, Before, Places
<1>3. Written
  BY NamesAssumption DEF Init, Written, Makers, Early
<1>4. shelf.unit[1] # None /\ shelves = {shelf} /\ Kept(1)
  BY NamesAssumption, VersionsAssumption DEF Init, Kept
<1>5. Placed
  <2>1. \A p \in Pids : seen[p] = First /\ want[First].version = 1 /\ content[First] = "whole"
    BY DEF Init, Makers
  <2> QED
    BY <1>4, <2>1 DEF Init, Placed
<1>6. Whole
  BY <1>4 DEF Init, Whole
<1> QED
  BY <1>1, <1>2, <1>3, <1>5, <1>6 DEF IInv

(* The lock stays with the process at work. *)
LEMMA OwnedNext == ASSUME TypeOK, Owned, [Next]_vars PROVE Owned'
<1> USE NamesAssumption DEF TypeOK, Prefixes, Owned, Holding, Places
<1>1. ASSUME NEW p \in Pids, NEW r \in Release, Ask(p, r) PROVE Owned'
  BY <1>1 DEF Ask, Goes, disk
<1>2. ASSUME NEW p \in Pids, Take(p) PROVE Owned'
  BY <1>2 DEF Take, PrefixBecomes, Goes
<1>3. ASSUME NEW p \in Pids, Refused(p) PROVE Owned'
  BY <1>3 DEF Refused, disk, Goes
<1>4. ASSUME NEW p \in Pids, SyncLock(p) PROVE Owned'
  BY <1>4 DEF SyncLock, SyncsPrefix, Goes
<1>5. ASSUME NEW p \in Pids, Reread(p) PROVE Owned'
  BY <1>5 DEF Reread, disk, Goes, Says, Active, ReadsWhole
<1>6. ASSUME NEW p \in Pids, NEW l \in Pids, RecoverShelf(p, l) PROVE Owned'
  BY <1>6 DEF RecoverShelf, ShelfBecomes, Goes
<1>7. ASSUME NEW p \in Pids, NEW l \in Pids, RecoverPrefix(p, l) PROVE Owned'
  BY <1>7 DEF RecoverPrefix, PrefixBecomes, Goes
<1>8. ASSUME NEW p \in Pids, SyncRecovery(p) PROVE Owned'
  BY <1>8 DEF SyncRecovery, SyncsShelf, SyncsPrefix, Goes
<1>9. ASSUME NEW p \in Pids, Recovered(p) PROVE Owned'
  BY <1>9 DEF Recovered, disk, Goes
<1>10. ASSUME NEW p \in Pids, Make(p) PROVE Owned'
  BY <1>10 DEF Make, ShelfBecomes, Goes
<1>11. ASSUME NEW p \in Pids, Fill(p) PROVE Owned'
  BY <1>11 DEF Fill, disk, Goes
<1>12. ASSUME NEW p \in Pids, Seal(p) PROVE Owned'
  BY <1>12 DEF Seal, disk, Goes
<1>13. ASSUME NEW p \in Pids, SealName(p) PROVE Owned'
  BY <1>13 DEF SealName, SyncsShelf, Goes
<1>14. ASSUME NEW p \in Pids, Place(p) PROVE Owned'
  BY <1>14 DEF Place, ShelfBecomes, Goes, ReadsWhole
<1>15. ASSUME NEW p \in Pids, SyncPlace(p) PROVE Owned'
  BY <1>15 DEF SyncPlace, SyncsShelf, Goes
<1>16. ASSUME NEW p \in Pids, Reuse(p) PROVE Owned'
  BY <1>16 DEF Reuse, ShelfBecomes, Goes, Says, ReadsWhole
<1>17. ASSUME NEW p \in Pids, Link(p) PROVE Owned'
  BY <1>17 DEF Link, PrefixBecomes, Goes
<1>18. ASSUME NEW p \in Pids, Switch(p) PROVE Owned'
  BY <1>18 DEF Switch, PrefixBecomes, Goes
<1>19. ASSUME NEW p \in Pids, SwitchFails(p) PROVE Owned'
  BY <1>19 DEF SwitchFails, PrefixBecomes, Says, Goes
<1>20. ASSUME NEW p \in Pids, SyncSwitch(p) PROVE Owned'
  BY <1>20 DEF SyncSwitch, SyncsPrefix, Says, Goes
<1>21. ASSUME NEW p \in Pids, SwitchUnsynced(p) PROVE Owned'
  BY <1>21 DEF SwitchUnsynced, disk, Says, Goes
<1>22. ASSUME NEW p \in Pids, SaysSo(p) PROVE Owned'
  BY <1>22 DEF SaysSo, disk, Says, Goes
<1>23. ASSUME NEW p \in Pids, RollBack(p) PROVE Owned'
  BY <1>23 DEF RollBack, disk, Says, Goes, ReadsWhole
<1>24. ASSUME NEW p \in Pids, Fails(p) PROVE Owned'
  BY <1>24 DEF Fails, ShelfBecomes, Says, Goes
<1>25. ASSUME NEW p \in Pids, Unlock(p) PROVE Owned'
  BY <1>25 DEF Unlock, PrefixBecomes, Goes
<1>26. ASSUME NEW p \in Pids, SyncUnlock(p) PROVE Owned'
  BY <1>26 DEF SyncUnlock, SyncsPrefix, disk, Goes
<1>27. ASSUME NEW p \in Pids, Killed(p) PROVE Owned'
  BY <1>27 DEF Killed, disk, Goes, Running
<1>28. CASE PowerLost
  BY <1>28 DEF PowerLost, Running
<1>29. CASE RemovedByHand
  BY <1>29 DEF RemovedByHand, PrefixBecomes, Running
<1>30. CASE UNCHANGED vars
  BY <1>30 DEF vars, disk
<1> QED
  BY <1>1, <1>2, <1>3, <1>4, <1>5, <1>6, <1>7, <1>8, <1>9, <1>10, <1>11, <1>12, <1>13,
     <1>14, <1>15, <1>16, <1>17, <1>18, <1>19, <1>20, <1>21, <1>22, <1>23, <1>24, <1>25,
     <1>26, <1>27, <1>28, <1>29, <1>30 DEF Next, Step

(* Units stay whole, and in the place of their version. *)
LEMMA WrittenNext == ASSUME TypeOK, Written, [Next]_vars PROVE Written'
<1>1. \A q \in Pids : pc'[q] \in Early => content'[q] = "part"
  <2> SUFFICES ASSUME NEW q \in Pids PROVE pc'[q] \in Early => content'[q] = "part"
    OBVIOUS
  <2> DEFINE Goal == pc'[q] \in Early => content'[q] = "part"
  <2> USE NamesAssumption DEF TypeOK, Makers, Written, Early
  <2>1. ASSUME NEW p \in Pids, NEW r \in Release, Ask(p, r) PROVE Goal
    BY <2>1 DEF Ask, Goes, disk
  <2>2. ASSUME NEW p \in Pids, Take(p) PROVE Goal
    BY <2>2 DEF Take, PrefixBecomes, Goes
  <2>3. ASSUME NEW p \in Pids, Refused(p) PROVE Goal
    BY <2>3 DEF Refused, disk, Goes
  <2>4. ASSUME NEW p \in Pids, SyncLock(p) PROVE Goal
    BY <2>4 DEF SyncLock, SyncsPrefix, Goes
  <2>5. ASSUME NEW p \in Pids, Reread(p) PROVE Goal
    BY <2>5 DEF Reread, disk, Goes, Says, Active, ReadsWhole
  <2>6. ASSUME NEW p \in Pids, NEW l \in Pids, RecoverShelf(p, l) PROVE Goal
    BY <2>6 DEF RecoverShelf, ShelfBecomes, Goes
  <2>7. ASSUME NEW p \in Pids, NEW l \in Pids, RecoverPrefix(p, l) PROVE Goal
    BY <2>7 DEF RecoverPrefix, PrefixBecomes, Goes
  <2>8. ASSUME NEW p \in Pids, SyncRecovery(p) PROVE Goal
    BY <2>8 DEF SyncRecovery, SyncsShelf, SyncsPrefix, Goes
  <2>9. ASSUME NEW p \in Pids, Recovered(p) PROVE Goal
    BY <2>9 DEF Recovered, disk, Goes
  <2>10. ASSUME NEW p \in Pids, Make(p) PROVE Goal
    BY <2>10 DEF Make, ShelfBecomes, Goes
  <2>11. ASSUME NEW p \in Pids, Fill(p) PROVE Goal
    BY <2>11 DEF Fill, disk, Goes
  <2>12. ASSUME NEW p \in Pids, Seal(p) PROVE Goal
    BY <2>12 DEF Seal, disk, Goes
  <2>13. ASSUME NEW p \in Pids, SealName(p) PROVE Goal
    BY <2>13 DEF SealName, SyncsShelf, Goes
  <2>14. ASSUME NEW p \in Pids, Place(p) PROVE Goal
    BY <2>14 DEF Place, ShelfBecomes, Goes, ReadsWhole
  <2>15. ASSUME NEW p \in Pids, SyncPlace(p) PROVE Goal
    BY <2>15 DEF SyncPlace, SyncsShelf, Goes
  <2>16. ASSUME NEW p \in Pids, Reuse(p) PROVE Goal
    BY <2>16 DEF Reuse, ShelfBecomes, Goes, Says, ReadsWhole
  <2>17. ASSUME NEW p \in Pids, Link(p) PROVE Goal
    BY <2>17 DEF Link, PrefixBecomes, Goes
  <2>18. ASSUME NEW p \in Pids, Switch(p) PROVE Goal
    BY <2>18 DEF Switch, PrefixBecomes, Goes
  <2>19. ASSUME NEW p \in Pids, SwitchFails(p) PROVE Goal
    BY <2>19 DEF SwitchFails, PrefixBecomes, Says, Goes
  <2>20. ASSUME NEW p \in Pids, SyncSwitch(p) PROVE Goal
    BY <2>20 DEF SyncSwitch, SyncsPrefix, Says, Goes
  <2>21. ASSUME NEW p \in Pids, SwitchUnsynced(p) PROVE Goal
    BY <2>21 DEF SwitchUnsynced, disk, Says, Goes
  <2>22. ASSUME NEW p \in Pids, SaysSo(p) PROVE Goal
    BY <2>22 DEF SaysSo, disk, Says, Goes
  <2>23. ASSUME NEW p \in Pids, RollBack(p) PROVE Goal
    BY <2>23 DEF RollBack, disk, Says, Goes, ReadsWhole
  <2>24. ASSUME NEW p \in Pids, Fails(p) PROVE Goal
    BY <2>24 DEF Fails, ShelfBecomes, Says, Goes
  <2>25. ASSUME NEW p \in Pids, Unlock(p) PROVE Goal
    BY <2>25 DEF Unlock, PrefixBecomes, Goes
  <2>26. ASSUME NEW p \in Pids, SyncUnlock(p) PROVE Goal
    BY <2>26 DEF SyncUnlock, SyncsPrefix, disk, Goes
  <2>27. ASSUME NEW p \in Pids, Killed(p) PROVE Goal
    BY <2>27 DEF Killed, disk, Goes, Running
  <2>28. CASE PowerLost
    BY <2>28 DEF PowerLost, Running
  <2>29. CASE RemovedByHand
    BY <2>29 DEF RemovedByHand, PrefixBecomes, Running
  <2>30. CASE UNCHANGED vars
    BY <2>30 DEF vars, disk
  <2> QED
    BY <2>1, <2>2, <2>3, <2>4, <2>5, <2>6, <2>7, <2>8, <2>9, <2>10, <2>11, <2>12, <2>13,
       <2>14, <2>15, <2>16, <2>17, <2>18, <2>19, <2>20, <2>21, <2>22, <2>23, <2>24,
       <2>25, <2>26, <2>27, <2>28, <2>29, <2>30 DEF Next, Step
<1>2. \A q \in Pids : pc'[q] \in {"sealed", "activate"} => content'[q] = "whole"
  <2> SUFFICES ASSUME NEW q \in Pids
               PROVE  pc'[q] \in {"sealed", "activate"} => content'[q] = "whole"
    OBVIOUS
  <2> DEFINE Goal == pc'[q] \in {"sealed", "activate"} => content'[q] = "whole"
  <2> USE NamesAssumption DEF TypeOK, Makers, Written, Early
  <2>1. ASSUME NEW p \in Pids, NEW r \in Release, Ask(p, r) PROVE Goal
    BY <2>1 DEF Ask, Goes, disk
  <2>2. ASSUME NEW p \in Pids, Take(p) PROVE Goal
    BY <2>2 DEF Take, PrefixBecomes, Goes
  <2>3. ASSUME NEW p \in Pids, Refused(p) PROVE Goal
    BY <2>3 DEF Refused, disk, Goes
  <2>4. ASSUME NEW p \in Pids, SyncLock(p) PROVE Goal
    BY <2>4 DEF SyncLock, SyncsPrefix, Goes
  <2>5. ASSUME NEW p \in Pids, Reread(p) PROVE Goal
    BY <2>5 DEF Reread, disk, Goes, Says, Active, ReadsWhole
  <2>6. ASSUME NEW p \in Pids, NEW l \in Pids, RecoverShelf(p, l) PROVE Goal
    BY <2>6 DEF RecoverShelf, ShelfBecomes, Goes
  <2>7. ASSUME NEW p \in Pids, NEW l \in Pids, RecoverPrefix(p, l) PROVE Goal
    BY <2>7 DEF RecoverPrefix, PrefixBecomes, Goes
  <2>8. ASSUME NEW p \in Pids, SyncRecovery(p) PROVE Goal
    BY <2>8 DEF SyncRecovery, SyncsShelf, SyncsPrefix, Goes
  <2>9. ASSUME NEW p \in Pids, Recovered(p) PROVE Goal
    BY <2>9 DEF Recovered, disk, Goes
  <2>10. ASSUME NEW p \in Pids, Make(p) PROVE Goal
    BY <2>10 DEF Make, ShelfBecomes, Goes
  <2>11. ASSUME NEW p \in Pids, Fill(p) PROVE Goal
    BY <2>11 DEF Fill, disk, Goes
  <2>12. ASSUME NEW p \in Pids, Seal(p) PROVE Goal
    BY <2>12 DEF Seal, disk, Goes
  <2>13. ASSUME NEW p \in Pids, SealName(p) PROVE Goal
    BY <2>13 DEF SealName, SyncsShelf, Goes
  <2>14. ASSUME NEW p \in Pids, Place(p) PROVE Goal
    BY <2>14 DEF Place, ShelfBecomes, Goes, ReadsWhole
  <2>15. ASSUME NEW p \in Pids, SyncPlace(p) PROVE Goal
    BY <2>15 DEF SyncPlace, SyncsShelf, Goes
  <2>16. ASSUME NEW p \in Pids, Reuse(p) PROVE Goal
    BY <2>16 DEF Reuse, ShelfBecomes, Goes, Says, ReadsWhole
  <2>17. ASSUME NEW p \in Pids, Link(p) PROVE Goal
    BY <2>17 DEF Link, PrefixBecomes, Goes
  <2>18. ASSUME NEW p \in Pids, Switch(p) PROVE Goal
    BY <2>18 DEF Switch, PrefixBecomes, Goes
  <2>19. ASSUME NEW p \in Pids, SwitchFails(p) PROVE Goal
    BY <2>19 DEF SwitchFails, PrefixBecomes, Says, Goes
  <2>20. ASSUME NEW p \in Pids, SyncSwitch(p) PROVE Goal
    BY <2>20 DEF SyncSwitch, SyncsPrefix, Says, Goes
  <2>21. ASSUME NEW p \in Pids, SwitchUnsynced(p) PROVE Goal
    BY <2>21 DEF SwitchUnsynced, disk, Says, Goes
  <2>22. ASSUME NEW p \in Pids, SaysSo(p) PROVE Goal
    BY <2>22 DEF SaysSo, disk, Says, Goes
  <2>23. ASSUME NEW p \in Pids, RollBack(p) PROVE Goal
    BY <2>23 DEF RollBack, disk, Says, Goes, ReadsWhole
  <2>24. ASSUME NEW p \in Pids, Fails(p) PROVE Goal
    BY <2>24 DEF Fails, ShelfBecomes, Says, Goes
  <2>25. ASSUME NEW p \in Pids, Unlock(p) PROVE Goal
    BY <2>25 DEF Unlock, PrefixBecomes, Goes
  <2>26. ASSUME NEW p \in Pids, SyncUnlock(p) PROVE Goal
    BY <2>26 DEF SyncUnlock, SyncsPrefix, disk, Goes
  <2>27. ASSUME NEW p \in Pids, Killed(p) PROVE Goal
    BY <2>27 DEF Killed, disk, Goes, Running
  <2>28. CASE PowerLost
    BY <2>28 DEF PowerLost, Running
  <2>29. CASE RemovedByHand
    BY <2>29 DEF RemovedByHand, PrefixBecomes, Running
  <2>30. CASE UNCHANGED vars
    BY <2>30 DEF vars, disk
  <2> QED
    BY <2>1, <2>2, <2>3, <2>4, <2>5, <2>6, <2>7, <2>8, <2>9, <2>10, <2>11, <2>12, <2>13,
       <2>14, <2>15, <2>16, <2>17, <2>18, <2>19, <2>20, <2>21, <2>22, <2>23, <2>24,
       <2>25, <2>26, <2>27, <2>28, <2>29, <2>30 DEF Next, Step
<1>3. ASSUME NEW left \in shelves', NEW v \in Versions, left.unit[v] # None
      PROVE  content'[left.unit[v]] = "whole" /\ want'[left.unit[v]].version = v
  <2>1. \A m \in Makers :
          content[m] = "whole" => content'[m] = "whole" /\ want'[m] = want[m]
    BY WholeStays
  <2>2. shelf \in shelves /\ shelf.unit \in [Versions -> Makers \cup {None}]
    BY DEF TypeOK, Shelves
  <2>3. CASE left \in shelves
    <3>1. left.unit[v] \in Makers
      BY <1>3, <2>3 DEF TypeOK, Shelves
    <3> QED
      BY <1>3, <2>1, <2>3, <3>1 DEF Written
  <2>4. CASE left.unit = shelf.unit
    <3>1. left.unit[v] \in Makers
      BY <1>3, <2>2, <2>4
    <3> QED
      BY <1>3, <2>1, <2>2, <2>4, <3>1 DEF Written
  <2>5. ASSUME NEW p \in Pids, pc[p] = "activate",
               left.unit = [shelf.unit EXCEPT ![want[p].version] = p]
        PROVE  content'[left.unit[v]] = "whole" /\ want'[left.unit[v]].version = v
    <3>1. p \in Makers /\ content[p] = "whole"
      BY <2>5 DEF Makers, Written
    <3>2. CASE v = want[p].version
      BY <2>1, <2>2, <2>5, <3>1, <3>2
    <3>3. CASE v # want[p].version
      <4>1. left.unit[v] = shelf.unit[v] /\ left.unit[v] \in Makers
        BY <1>3, <2>2, <2>5, <3>3
      <4> QED
        BY <1>3, <2>1, <2>2, <4>1 DEF Written
    <3> QED
      BY <3>2, <3>3
  <2> QED
    BY <2>3, <2>4, <2>5, ShelvesGrow
<1> QED
  BY <1>1, <1>2, <1>3 DEF Written

(* What a process goes by keeps its place. *)
LEMMA PlacedNext ==
  ASSUME TypeOK, Owned, Written, Placed, Whole, Aimed, [Next]_vars
  PROVE  Placed'
<1>1. ASSUME NEW q \in Pids
      PROVE  content'[seen'[q]] = "whole" /\ Kept(want[seen[q]].version)'
  <2>1. Active \in Makers /\ content[Active] = "whole" /\ Kept(want[Active].version)
    BY ActiveWhole
  <2>2. seen[q] \in Makers /\ content[seen[q]] = "whole" /\ Kept(want[seen[q]].version)
    BY DEF Placed, TypeOK
  <2>3. PICK m \in Makers : seen'[q] = m /\ content[m] = "whole" /\ Kept(want[m].version)
    BY <2>1, <2>2, SeenStep
  <2>4. content'[m] = "whole" /\ want'[m] = want[m]
    BY <2>3, WholeStays
  <2>5. want[m].version \in Versions
    BY DEF TypeOK, Release
  <2>6. \A left \in shelves' : left.unit[want[m].version] # None
    BY <2>3, <2>5, KeptStays
  <2> QED
    BY <2>3, <2>4, <2>6 DEF Kept
<1>2. ASSUME NEW q \in Pids, pc'[q] = "activate" PROVE shelves' = {shelf'}
  <2> DEFINE Goal == shelves' = {shelf'}
  <2> USE <1>2 DEF TypeOK, Prefixes, Owned, Placed, Holding, Places
  <2>1. ASSUME NEW p \in Pids, NEW r \in Release, Ask(p, r) PROVE Goal
    BY <2>1 DEF Ask, Goes, disk
  <2>2. ASSUME NEW p \in Pids, Take(p) PROVE Goal
    BY <2>2 DEF Take, PrefixBecomes, Goes
  <2>3. ASSUME NEW p \in Pids, Refused(p) PROVE Goal
    BY <2>3 DEF Refused, disk, Goes
  <2>4. ASSUME NEW p \in Pids, SyncLock(p) PROVE Goal
    BY <2>4 DEF SyncLock, SyncsPrefix, Goes
  <2>5. ASSUME NEW p \in Pids, Reread(p) PROVE Goal
    BY <2>5 DEF Reread, disk, Goes, Says, Active, ReadsWhole
  <2>6. ASSUME NEW p \in Pids, NEW l \in Pids, RecoverShelf(p, l) PROVE Goal
    BY <2>6 DEF RecoverShelf, ShelfBecomes, Goes
  <2>7. ASSUME NEW p \in Pids, NEW l \in Pids, RecoverPrefix(p, l) PROVE Goal
    BY <2>7 DEF RecoverPrefix, PrefixBecomes, Goes
  <2>8. ASSUME NEW p \in Pids, SyncRecovery(p) PROVE Goal
    BY <2>8 DEF SyncRecovery, SyncsShelf, SyncsPrefix, Goes
  <2>9. ASSUME NEW p \in Pids, Recovered(p) PROVE Goal
    BY <2>9 DEF Recovered, disk, Goes
  <2>10. ASSUME NEW p \in Pids, Make(p) PROVE Goal
    BY <2>10 DEF Make, ShelfBecomes, Goes
  <2>11. ASSUME NEW p \in Pids, Fill(p) PROVE Goal
    BY <2>11 DEF Fill, disk, Goes
  <2>12. ASSUME NEW p \in Pids, Seal(p) PROVE Goal
    BY <2>12 DEF Seal, disk, Goes
  <2>13. ASSUME NEW p \in Pids, SealName(p) PROVE Goal
    BY <2>13 DEF SealName, SyncsShelf, Goes
  <2>14. ASSUME NEW p \in Pids, Place(p) PROVE Goal
    BY <2>14 DEF Place, ShelfBecomes, Goes, ReadsWhole
  <2>15. ASSUME NEW p \in Pids, SyncPlace(p) PROVE Goal
    BY <2>15 DEF SyncPlace, SyncsShelf, Goes
  <2>16. ASSUME NEW p \in Pids, Reuse(p) PROVE Goal
    BY <2>16 DEF Reuse, ShelfBecomes, Goes, Says, ReadsWhole
  <2>17. ASSUME NEW p \in Pids, Link(p) PROVE Goal
    BY <2>17 DEF Link, PrefixBecomes, Goes
  <2>18. ASSUME NEW p \in Pids, Switch(p) PROVE Goal
    BY <2>18 DEF Switch, PrefixBecomes, Goes
  <2>19. ASSUME NEW p \in Pids, SwitchFails(p) PROVE Goal
    BY <2>19 DEF SwitchFails, PrefixBecomes, Says, Goes
  <2>20. ASSUME NEW p \in Pids, SyncSwitch(p) PROVE Goal
    BY <2>20 DEF SyncSwitch, SyncsPrefix, Says, Goes
  <2>21. ASSUME NEW p \in Pids, SwitchUnsynced(p) PROVE Goal
    BY <2>21 DEF SwitchUnsynced, disk, Says, Goes
  <2>22. ASSUME NEW p \in Pids, SaysSo(p) PROVE Goal
    BY <2>22 DEF SaysSo, disk, Says, Goes
  <2>23. ASSUME NEW p \in Pids, RollBack(p) PROVE Goal
    BY <2>23 DEF RollBack, disk, Says, Goes, ReadsWhole
  <2>24. ASSUME NEW p \in Pids, Fails(p) PROVE Goal
    BY <2>24 DEF Fails, ShelfBecomes, Says, Goes
  <2>25. ASSUME NEW p \in Pids, Unlock(p) PROVE Goal
    BY <2>25 DEF Unlock, PrefixBecomes, Goes
  <2>26. ASSUME NEW p \in Pids, SyncUnlock(p) PROVE Goal
    BY <2>26 DEF SyncUnlock, SyncsPrefix, disk, Goes
  <2>27. ASSUME NEW p \in Pids, Killed(p) PROVE Goal
    BY <2>27 DEF Killed, disk, Goes, Running
  <2>28. CASE PowerLost
    BY <2>28 DEF PowerLost, Running
  <2>29. CASE RemovedByHand
    BY <2>29 DEF RemovedByHand, PrefixBecomes, Running
  <2>30. CASE UNCHANGED vars
    BY <2>30 DEF vars, disk
  <2> QED
    BY <2>1, <2>2, <2>3, <2>4, <2>5, <2>6, <2>7, <2>8, <2>9, <2>10, <2>11, <2>12, <2>13,
       <2>14, <2>15, <2>16, <2>17, <2>18, <2>19, <2>20, <2>21, <2>22, <2>23, <2>24,
       <2>25, <2>26, <2>27, <2>28, <2>29, <2>30 DEF Next, Step
<1>3. ASSUME NEW q \in Pids, pc'[q] = "placed" PROVE shelf'.unit[want'[q].version] = q
  <2> DEFINE Goal == shelf'.unit[want'[q].version] = q
  <2> USE <1>3, NamesAssumption DEF TypeOK, Shelves, Placed, Makers, Release
  <2>1. ASSUME NEW p \in Pids, NEW r \in Release, Ask(p, r) PROVE Goal
    BY <2>1 DEF Ask, Goes, disk
  <2>2. ASSUME NEW p \in Pids, Take(p) PROVE Goal
    BY <2>2 DEF Take, PrefixBecomes, Goes
  <2>3. ASSUME NEW p \in Pids, Refused(p) PROVE Goal
    BY <2>3 DEF Refused, disk, Goes
  <2>4. ASSUME NEW p \in Pids, SyncLock(p) PROVE Goal
    BY <2>4 DEF SyncLock, SyncsPrefix, Goes
  <2>5. ASSUME NEW p \in Pids, Reread(p) PROVE Goal
    BY <2>5 DEF Reread, disk, Goes, Says, Active, ReadsWhole
  <2>6. ASSUME NEW p \in Pids, NEW l \in Pids, RecoverShelf(p, l) PROVE Goal
    BY <2>6 DEF RecoverShelf, ShelfBecomes, Goes
  <2>7. ASSUME NEW p \in Pids, NEW l \in Pids, RecoverPrefix(p, l) PROVE Goal
    BY <2>7 DEF RecoverPrefix, PrefixBecomes, Goes
  <2>8. ASSUME NEW p \in Pids, SyncRecovery(p) PROVE Goal
    BY <2>8 DEF SyncRecovery, SyncsShelf, SyncsPrefix, Goes
  <2>9. ASSUME NEW p \in Pids, Recovered(p) PROVE Goal
    BY <2>9 DEF Recovered, disk, Goes
  <2>10. ASSUME NEW p \in Pids, Make(p) PROVE Goal
    BY <2>10 DEF Make, ShelfBecomes, Goes
  <2>11. ASSUME NEW p \in Pids, Fill(p) PROVE Goal
    BY <2>11 DEF Fill, disk, Goes
  <2>12. ASSUME NEW p \in Pids, Seal(p) PROVE Goal
    BY <2>12 DEF Seal, disk, Goes
  <2>13. ASSUME NEW p \in Pids, SealName(p) PROVE Goal
    BY <2>13 DEF SealName, SyncsShelf, Goes
  <2>14. ASSUME NEW p \in Pids, Place(p) PROVE Goal
    <3>1. want[q].version \in Versions /\ want[p].version \in Versions
      OBVIOUS
    <3>2. shelf'.unit = [shelf.unit EXCEPT ![want[p].version] = p] /\ want' = want
      BY <2>14 DEF Place, ShelfBecomes
    <3>3. shelf.unit[want[p].version] = None
      BY <2>14 DEF Place
    <3>4. CASE q = p
      BY <3>1, <3>2, <3>4
    <3>5. CASE q # p
      <4>1. shelf.unit[want[q].version] = q
        BY <2>14, <3>5 DEF Place, Goes
      <4> QED
        BY <3>1, <3>2, <3>3, <4>1
    <3> QED
      BY <3>4, <3>5
  <2>15. ASSUME NEW p \in Pids, SyncPlace(p) PROVE Goal
    BY <2>15 DEF SyncPlace, SyncsShelf, Goes
  <2>16. ASSUME NEW p \in Pids, Reuse(p) PROVE Goal
    BY <2>16 DEF Reuse, ShelfBecomes, Goes, Says, ReadsWhole
  <2>17. ASSUME NEW p \in Pids, Link(p) PROVE Goal
    BY <2>17 DEF Link, PrefixBecomes, Goes
  <2>18. ASSUME NEW p \in Pids, Switch(p) PROVE Goal
    BY <2>18 DEF Switch, PrefixBecomes, Goes
  <2>19. ASSUME NEW p \in Pids, SwitchFails(p) PROVE Goal
    BY <2>19 DEF SwitchFails, PrefixBecomes, Says, Goes
  <2>20. ASSUME NEW p \in Pids, SyncSwitch(p) PROVE Goal
    BY <2>20 DEF SyncSwitch, SyncsPrefix, Says, Goes
  <2>21. ASSUME NEW p \in Pids, SwitchUnsynced(p) PROVE Goal
    BY <2>21 DEF SwitchUnsynced, disk, Says, Goes
  <2>22. ASSUME NEW p \in Pids, SaysSo(p) PROVE Goal
    BY <2>22 DEF SaysSo, disk, Says, Goes
  <2>23. ASSUME NEW p \in Pids, RollBack(p) PROVE Goal
    BY <2>23 DEF RollBack, disk, Says, Goes, ReadsWhole
  <2>24. ASSUME NEW p \in Pids, Fails(p) PROVE Goal
    BY <2>24 DEF Fails, ShelfBecomes, Says, Goes
  <2>25. ASSUME NEW p \in Pids, Unlock(p) PROVE Goal
    BY <2>25 DEF Unlock, PrefixBecomes, Goes
  <2>26. ASSUME NEW p \in Pids, SyncUnlock(p) PROVE Goal
    BY <2>26 DEF SyncUnlock, SyncsPrefix, disk, Goes
  <2>27. ASSUME NEW p \in Pids, Killed(p) PROVE Goal
    BY <2>27 DEF Killed, disk, Goes, Running
  <2>28. CASE PowerLost
    BY <2>28 DEF PowerLost, Running
  <2>29. CASE RemovedByHand
    BY <2>29 DEF RemovedByHand, PrefixBecomes, Running
  <2>30. CASE UNCHANGED vars
    BY <2>30 DEF vars, disk
  <2> QED
    BY <2>1, <2>2, <2>3, <2>4, <2>5, <2>6, <2>7, <2>8, <2>9, <2>10, <2>11, <2>12, <2>13,
       <2>14, <2>15, <2>16, <2>17, <2>18, <2>19, <2>20, <2>21, <2>22, <2>23, <2>24,
       <2>25, <2>26, <2>27, <2>28, <2>29, <2>30 DEF Next, Step
<1>4. ASSUME NEW q \in Pids, pc'[q] \in {"link", "switch"} PROVE Kept(aim[q])'
  <2>1. aim[q] \in Versions /\ want[seen[q]].version \in Versions
    BY DEF TypeOK, Release
  <2>2. Kept(aim[q]) => \A left \in shelves' : left.unit[aim[q]] # None
    BY <2>1, KeptStays
  <2>3. \A left \in shelves' : left.unit[want[seen[q]].version] # None
    BY <2>1, KeptStays DEF Placed
  <2> DEFINE Goal == \A left \in shelves' : left.unit[aim'[q]] # None
  <2> HIDE DEF Kept
  <2> SUFFICES Goal
    BY DEF Kept
  <2> USE <1>4, <2>2, NamesAssumption DEF TypeOK, Placed
  <2>4. ASSUME NEW p \in Pids, NEW r \in Release, Ask(p, r) PROVE Goal
    BY <2>4 DEF Ask, Goes, disk
  <2>5. ASSUME NEW p \in Pids, Take(p) PROVE Goal
    BY <2>5 DEF Take, PrefixBecomes, Goes
  <2>6. ASSUME NEW p \in Pids, Refused(p) PROVE Goal
    BY <2>6 DEF Refused, disk, Goes
  <2>7. ASSUME NEW p \in Pids, SyncLock(p) PROVE Goal
    BY <2>7 DEF SyncLock, SyncsPrefix, Goes
  <2>8. ASSUME NEW p \in Pids, Reread(p) PROVE Goal
    BY <2>8 DEF Reread, disk, Goes, Says, Active, ReadsWhole
  <2>9. ASSUME NEW p \in Pids, NEW l \in Pids, RecoverShelf(p, l) PROVE Goal
    BY <2>9 DEF RecoverShelf, ShelfBecomes, Goes
  <2>10. ASSUME NEW p \in Pids, NEW l \in Pids, RecoverPrefix(p, l) PROVE Goal
    BY <2>10 DEF RecoverPrefix, PrefixBecomes, Goes
  <2>11. ASSUME NEW p \in Pids, SyncRecovery(p) PROVE Goal
    BY <2>11 DEF SyncRecovery, SyncsShelf, SyncsPrefix, Goes
  <2>12. ASSUME NEW p \in Pids, Recovered(p) PROVE Goal
    BY <2>12 DEF Recovered, disk, Goes
  <2>13. ASSUME NEW p \in Pids, Make(p) PROVE Goal
    BY <2>13 DEF Make, ShelfBecomes, Goes
  <2>14. ASSUME NEW p \in Pids, Fill(p) PROVE Goal
    BY <2>14 DEF Fill, disk, Goes
  <2>15. ASSUME NEW p \in Pids, Seal(p) PROVE Goal
    BY <2>15 DEF Seal, disk, Goes
  <2>16. ASSUME NEW p \in Pids, SealName(p) PROVE Goal
    BY <2>16 DEF SealName, SyncsShelf, Goes
  <2>17. ASSUME NEW p \in Pids, Place(p) PROVE Goal
    BY <2>17 DEF Place, ShelfBecomes, Goes, ReadsWhole
  <2>18. ASSUME NEW p \in Pids, SyncPlace(p) PROVE Goal
    <3>1. CASE q = p
      <4>1. shelves' = {shelf} /\ shelf.unit[want[p].version] = p /\ aim' = aim
        BY <2>18 DEF SyncPlace, SyncsShelf
      <4>2. aim[p] = want[p].version
        BY <2>18 DEF SyncPlace, Aimed, AimedOf, Before, Forth
      <4> QED
        BY <3>1, <4>1, <4>2
    <3>2. CASE q # p
      BY <2>18, <3>2 DEF SyncPlace, Goes
    <3> QED
      BY <3>1, <3>2
  <2>19. ASSUME NEW p \in Pids, Reuse(p) PROVE Goal
    <3>1. CASE q = p
      <4>1. shelves = {shelf} /\ aim' = aim /\ shelf.unit[want[p].version] # None
        BY <2>19 DEF Reuse
      <4>2. aim[p] = want[p].version
        BY <2>19 DEF Reuse, Aimed, AimedOf, Before, Forth
      <4>3. Kept(aim[p])
        BY <4>1, <4>2 DEF Kept
      <4> QED
        BY <3>1, <4>1, <4>3
    <3>2. CASE q # p
      BY <2>19, <3>2 DEF Reuse, Goes, Says
    <3> QED
      BY <3>1, <3>2
  <2>20. ASSUME NEW p \in Pids, Link(p) PROVE Goal
    BY <2>20 DEF Link, PrefixBecomes, Goes
  <2>21. ASSUME NEW p \in Pids, Switch(p) PROVE Goal
    BY <2>21 DEF Switch, PrefixBecomes, Goes
  <2>22. ASSUME NEW p \in Pids, SwitchFails(p) PROVE Goal
    BY <2>22 DEF SwitchFails, PrefixBecomes, Says, Goes
  <2>23. ASSUME NEW p \in Pids, SyncSwitch(p) PROVE Goal
    BY <2>23 DEF SyncSwitch, SyncsPrefix, Says, Goes
  <2>24. ASSUME NEW p \in Pids, SwitchUnsynced(p) PROVE Goal
    BY <2>24 DEF SwitchUnsynced, disk, Says, Goes
  <2>25. ASSUME NEW p \in Pids, SaysSo(p) PROVE Goal
    BY <2>25 DEF SaysSo, disk, Says, Goes
  <2>26. ASSUME NEW p \in Pids, RollBack(p) PROVE Goal
    <3>1. CASE q = p
      BY <2>26, <2>3, <3>1 DEF RollBack, Goes, Says
    <3>2. CASE q # p
      BY <2>26, <3>2 DEF RollBack, Goes, Says
    <3> QED
      BY <3>1, <3>2
  <2>27. ASSUME NEW p \in Pids, Fails(p) PROVE Goal
    BY <2>27 DEF Fails, ShelfBecomes, Says, Goes
  <2>28. ASSUME NEW p \in Pids, Unlock(p) PROVE Goal
    BY <2>28 DEF Unlock, PrefixBecomes, Goes
  <2>29. ASSUME NEW p \in Pids, SyncUnlock(p) PROVE Goal
    BY <2>29 DEF SyncUnlock, SyncsPrefix, disk, Goes
  <2>30. ASSUME NEW p \in Pids, Killed(p) PROVE Goal
    BY <2>30 DEF Killed, disk, Goes, Running
  <2>31. CASE PowerLost
    BY <2>31 DEF PowerLost, Running
  <2>32. CASE RemovedByHand
    BY <2>32 DEF RemovedByHand, PrefixBecomes, Running
  <2>33. CASE UNCHANGED vars
    BY <2>33 DEF vars, disk
  <2> QED
    BY <2>4, <2>5, <2>6, <2>7, <2>8, <2>9, <2>10, <2>11, <2>12, <2>13, <2>14, <2>15,
       <2>16, <2>17, <2>18, <2>19, <2>20, <2>21, <2>22, <2>23, <2>24, <2>25, <2>26,
       <2>27, <2>28, <2>29, <2>30, <2>31, <2>32, <2>33 DEF Next, Step

<1> QED
  BY <1>1, <1>2, <1>3, <1>4 DEF Placed

(* Whatever may become of the prefix names a release that keeps its place. *)
LEMMA WholeNext == ASSUME TypeOK, Placed, Whole, [Next]_vars PROVE Whole'
<1> SUFFICES ASSUME NEW left \in prefixes' PROVE Kept(left.current)'
  BY DEF Whole
<1>1. PICK v \in Versions : left.current = v /\ Kept(v)
  <2>1. prefix \in prefixes /\ \A was \in prefixes : was.current \in Versions
    BY DEF TypeOK, Prefixes
  <2>2. \A p \in Pids : pc[p] = "switch" => aim[p] \in Versions /\ Kept(aim[p])
    BY DEF TypeOK, Placed
  <2> QED
    BY <2>1, <2>2, PrefixesGrow DEF Whole
<1>2. \A kept \in shelves' : kept.unit[v] # None
  BY <1>1, KeptStays
<1> QED
  BY <1>1, <1>2 DEF Kept

(* Where a process is in its switch. *)
LEMMA AimedNext ==
  ASSUME TypeOK, Owned, Written, Placed, Whole, Aimed, [Next]_vars
  PROVE  Aimed'
<1> SUFFICES ASSUME NEW q \in Pids PROVE AimedOf(q)'
  BY DEF Aimed
<1>1. seen[q] \in Makers /\ want'[seen[q]] = want[seen[q]]
  BY WholeStays DEF TypeOK, Placed
<1>2. want[Active].version = prefix.current
  BY ActiveWhole
<1>3. want[q].version \in Nat /\ want[seen[q]].version \in Nat /\ prefix.current \in Nat
  BY VersionsAssumption DEF TypeOK, Release, Prefixes, Makers
<1>4. pc[q] \in Places /\ aim[q] \in Versions /\ prefix \in prefixes
  BY DEF TypeOK
<1>5. AimedOf(q)
  BY DEF Aimed
<1> USE <1>1, <1>2, <1>3, <1>4, <1>5, NamesAssumption
      DEF TypeOK, Owned, Holding, Places, Before, AimedOf, Forth, Back, Makers, Prefixes
<1>6. ASSUME NEW p \in Pids, NEW r \in Release, Ask(p, r) PROVE AimedOf(q)'
  BY <1>6 DEF Ask, Goes, disk
<1>7. ASSUME NEW p \in Pids, Take(p) PROVE AimedOf(q)'
  BY <1>7 DEF Take, PrefixBecomes, Goes
<1>8. ASSUME NEW p \in Pids, Refused(p) PROVE AimedOf(q)'
  BY <1>8 DEF Refused, disk, Goes
<1>9. ASSUME NEW p \in Pids, SyncLock(p) PROVE AimedOf(q)'
  BY <1>9 DEF SyncLock, SyncsPrefix, Goes
<1>10. ASSUME NEW p \in Pids, Reread(p) PROVE AimedOf(q)'
  BY <1>10 DEF Reread, disk, Goes, Says, Active, ReadsWhole
<1>11. ASSUME NEW p \in Pids, NEW l \in Pids, RecoverShelf(p, l) PROVE AimedOf(q)'
  BY <1>11 DEF RecoverShelf, ShelfBecomes, Goes
<1>12. ASSUME NEW p \in Pids, NEW l \in Pids, RecoverPrefix(p, l) PROVE AimedOf(q)'
  BY <1>12 DEF RecoverPrefix, PrefixBecomes, Goes
<1>13. ASSUME NEW p \in Pids, SyncRecovery(p) PROVE AimedOf(q)'
  BY <1>13 DEF SyncRecovery, SyncsShelf, SyncsPrefix, Goes
<1>14. ASSUME NEW p \in Pids, Recovered(p) PROVE AimedOf(q)'
  BY <1>14 DEF Recovered, disk, Goes
<1>15. ASSUME NEW p \in Pids, Make(p) PROVE AimedOf(q)'
  BY <1>15 DEF Make, ShelfBecomes, Goes
<1>16. ASSUME NEW p \in Pids, Fill(p) PROVE AimedOf(q)'
  BY <1>16 DEF Fill, disk, Goes
<1>17. ASSUME NEW p \in Pids, Seal(p) PROVE AimedOf(q)'
  BY <1>17 DEF Seal, disk, Goes
<1>18. ASSUME NEW p \in Pids, SealName(p) PROVE AimedOf(q)'
  BY <1>18 DEF SealName, SyncsShelf, Goes
<1>19. ASSUME NEW p \in Pids, Place(p) PROVE AimedOf(q)'
  BY <1>19 DEF Place, ShelfBecomes, Goes, ReadsWhole
<1>20. ASSUME NEW p \in Pids, SyncPlace(p) PROVE AimedOf(q)'
  BY <1>20 DEF SyncPlace, SyncsShelf, Goes
<1>21. ASSUME NEW p \in Pids, Reuse(p) PROVE AimedOf(q)'
  BY <1>21 DEF Reuse, ShelfBecomes, Goes, Says, ReadsWhole
<1>22. ASSUME NEW p \in Pids, Link(p) PROVE AimedOf(q)'
  BY <1>22 DEF Link, PrefixBecomes, Goes
<1>23. ASSUME NEW p \in Pids, Switch(p) PROVE AimedOf(q)'
  BY <1>23 DEF Switch, PrefixBecomes, Goes
<1>24. ASSUME NEW p \in Pids, SwitchFails(p) PROVE AimedOf(q)'
  BY <1>24 DEF SwitchFails, PrefixBecomes, Says, Goes
<1>25. ASSUME NEW p \in Pids, SyncSwitch(p) PROVE AimedOf(q)'
  BY <1>25 DEF SyncSwitch, SyncsPrefix, Says, Goes
<1>26. ASSUME NEW p \in Pids, SwitchUnsynced(p) PROVE AimedOf(q)'
  BY <1>26 DEF SwitchUnsynced, disk, Says, Goes
<1>27. ASSUME NEW p \in Pids, SaysSo(p) PROVE AimedOf(q)'
  BY <1>27 DEF SaysSo, disk, Says, Goes
<1>28. ASSUME NEW p \in Pids, RollBack(p) PROVE AimedOf(q)'
  BY <1>28 DEF RollBack, disk, Says, Goes, ReadsWhole
<1>29. ASSUME NEW p \in Pids, Fails(p) PROVE AimedOf(q)'
  BY <1>29 DEF Fails, ShelfBecomes, Says, Goes
<1>30. ASSUME NEW p \in Pids, Unlock(p) PROVE AimedOf(q)'
  BY <1>30 DEF Unlock, PrefixBecomes, Goes
<1>31. ASSUME NEW p \in Pids, SyncUnlock(p) PROVE AimedOf(q)'
  BY <1>31 DEF SyncUnlock, SyncsPrefix, disk, Goes
<1>32. ASSUME NEW p \in Pids, Killed(p) PROVE AimedOf(q)'
  BY <1>32 DEF Killed, disk, Goes, Running
<1>33. CASE PowerLost
  BY <1>33 DEF PowerLost, Running
<1>34. CASE RemovedByHand
  BY <1>34 DEF RemovedByHand, PrefixBecomes, Running
<1>35. CASE UNCHANGED vars
  BY <1>35 DEF vars, disk
<1> QED
  BY <1>6, <1>7, <1>8, <1>9, <1>10, <1>11, <1>12, <1>13, <1>14, <1>15, <1>16, <1>17,
     <1>18, <1>19, <1>20, <1>21, <1>22, <1>23, <1>24, <1>25, <1>26, <1>27, <1>28, <1>29,
     <1>30, <1>31, <1>32, <1>33, <1>34, <1>35 DEF Next, Step

(* The invariant, in every run. *)
LEMMA Invariant == Spec => []IInv
<1>1. IInv /\ [Next]_vars => IInv'
  BY TypeNext, OwnedNext, WrittenNext, PlacedNext, WholeNext, AimedNext DEF IInv
<1> QED
  BY <1>1, InvInit, PTL DEF Spec
-----------------------------------------------------------------------------
(* "Every moment leaves one whole release active", for any number of updates,
   killed or without power at any step: what `current` names is in its place,
   and all of it is on the disk (activate.rs). *)
THEOREM AlwaysWhole == Spec => []OneWholeRelease
<1>1. IInv => OneWholeRelease
  BY ActiveWhole, NamesAssumption DEF IInv, OneWholeRelease, Makers
<1> QED
  BY <1>1, Invariant, PTL

(* What a step does to the active release and to what was answered, from the
   invariant. *)
Older ==
  prefix'.current < prefix.current =>
    \/ losses' # losses
    \/ \E p \in Pids :
         /\ prefix.lock = p
         /\ prefix.current = want[p].version
         /\ prefix'.current = want[seen[p]].version

(* No step makes the active release an older one, but a roll back under the
   lock of the process that made it active, or a loss of power (apply.rs:74). *)
THEOREM NeverAnOlderOne == Spec => NeverOlder
<1>1. IInv /\ [Next]_vars => [Older]_vars
  <2> SUFFICES ASSUME IInv, [Next]_vars PROVE Older
    OBVIOUS
  <2>a. prefix.current \in Nat /\ prefix \in prefixes /\ prefixes \subseteq Prefixes
    BY VersionsAssumption DEF IInv, TypeOK, Prefixes
  <2> USE <2>a, LossesAssumption DEF Older, Prefixes
  <2>1. ASSUME NEW p \in Pids, NEW r \in Release, Ask(p, r) PROVE Older
    BY <2>1 DEF Ask, Goes, disk
  <2>2. ASSUME NEW p \in Pids, Take(p) PROVE Older
    BY <2>2 DEF Take, PrefixBecomes, Goes
  <2>3. ASSUME NEW p \in Pids, Refused(p) PROVE Older
    BY <2>3 DEF Refused, disk, Goes
  <2>4. ASSUME NEW p \in Pids, SyncLock(p) PROVE Older
    BY <2>4 DEF SyncLock, SyncsPrefix, Goes
  <2>5. ASSUME NEW p \in Pids, Reread(p) PROVE Older
    BY <2>5 DEF Reread, disk, Goes, Says, Active, ReadsWhole
  <2>6. ASSUME NEW p \in Pids, NEW l \in Pids, RecoverShelf(p, l) PROVE Older
    BY <2>6 DEF RecoverShelf, ShelfBecomes, Goes
  <2>7. ASSUME NEW p \in Pids, NEW l \in Pids, RecoverPrefix(p, l) PROVE Older
    BY <2>7 DEF RecoverPrefix, PrefixBecomes, Goes
  <2>8. ASSUME NEW p \in Pids, SyncRecovery(p) PROVE Older
    BY <2>8 DEF SyncRecovery, SyncsShelf, SyncsPrefix, Goes
  <2>9. ASSUME NEW p \in Pids, Recovered(p) PROVE Older
    BY <2>9 DEF Recovered, disk, Goes
  <2>10. ASSUME NEW p \in Pids, Make(p) PROVE Older
    BY <2>10 DEF Make, ShelfBecomes, Goes
  <2>11. ASSUME NEW p \in Pids, Fill(p) PROVE Older
    BY <2>11 DEF Fill, disk, Goes
  <2>12. ASSUME NEW p \in Pids, Seal(p) PROVE Older
    BY <2>12 DEF Seal, disk, Goes
  <2>13. ASSUME NEW p \in Pids, SealName(p) PROVE Older
    BY <2>13 DEF SealName, SyncsShelf, Goes
  <2>14. ASSUME NEW p \in Pids, Place(p) PROVE Older
    BY <2>14 DEF Place, ShelfBecomes, Goes, ReadsWhole
  <2>15. ASSUME NEW p \in Pids, SyncPlace(p) PROVE Older
    BY <2>15 DEF SyncPlace, SyncsShelf, Goes
  <2>16. ASSUME NEW p \in Pids, Reuse(p) PROVE Older
    BY <2>16 DEF Reuse, ShelfBecomes, Goes, Says, ReadsWhole
  <2>17. ASSUME NEW p \in Pids, Link(p) PROVE Older
    BY <2>17 DEF Link, PrefixBecomes, Goes
  <2>18. ASSUME NEW p \in Pids, Switch(p) PROVE Older
    <3>1. prefix'.current = aim[p]
      BY <2>18 DEF Switch, PrefixBecomes
    <3>2. prefix.lock = p
      BY <2>18 DEF Switch, IInv, Owned, Holding, Places
    <3>3. want[seen[p]].version < want[p].version /\ (Forth(p) \/ Back(p))
      BY <2>18 DEF Switch, IInv, Aimed, AimedOf
    <3>4. want[seen[p]].version \in Nat /\ want[p].version \in Nat
      BY VersionsAssumption DEF IInv, TypeOK, Release, Makers
    <3>5. prefix'.current < prefix.current => Back(p)
      BY <3>1, <3>3, <3>4 DEF Forth
    <3> QED
      BY <3>1, <3>2, <3>5 DEF Back
  <2>19. ASSUME NEW p \in Pids, SwitchFails(p) PROVE Older
    BY <2>19 DEF SwitchFails, PrefixBecomes, Says, Goes
  <2>20. ASSUME NEW p \in Pids, SyncSwitch(p) PROVE Older
    BY <2>20 DEF SyncSwitch, SyncsPrefix, Says, Goes
  <2>21. ASSUME NEW p \in Pids, SwitchUnsynced(p) PROVE Older
    BY <2>21 DEF SwitchUnsynced, disk, Says, Goes
  <2>22. ASSUME NEW p \in Pids, SaysSo(p) PROVE Older
    BY <2>22 DEF SaysSo, disk, Says, Goes
  <2>23. ASSUME NEW p \in Pids, RollBack(p) PROVE Older
    BY <2>23 DEF RollBack, disk, Says, Goes, ReadsWhole
  <2>24. ASSUME NEW p \in Pids, Fails(p) PROVE Older
    BY <2>24 DEF Fails, ShelfBecomes, Says, Goes
  <2>25. ASSUME NEW p \in Pids, Unlock(p) PROVE Older
    BY <2>25 DEF Unlock, PrefixBecomes, Goes
  <2>26. ASSUME NEW p \in Pids, SyncUnlock(p) PROVE Older
    BY <2>26 DEF SyncUnlock, SyncsPrefix, disk, Goes
  <2>27. ASSUME NEW p \in Pids, Killed(p) PROVE Older
    BY <2>27 DEF Killed, disk, Goes, Running
  <2>28. CASE PowerLost
    <3>1. losses' # losses
      BY <2>28 DEF PowerLost, IInv, TypeOK
    <3> QED
      BY <3>1
  <2>29. CASE RemovedByHand
    BY <2>29 DEF RemovedByHand, PrefixBecomes, Running
  <2>30. CASE UNCHANGED vars
    BY <2>30 DEF vars, disk
  <2> QED
    BY <2>1, <2>2, <2>3, <2>4, <2>5, <2>6, <2>7, <2>8, <2>9, <2>10, <2>11, <2>12, <2>13,
       <2>14, <2>15, <2>16, <2>17, <2>18, <2>19, <2>20, <2>21, <2>22, <2>23, <2>24,
       <2>25, <2>26, <2>27, <2>28, <2>29, <2>30 DEF Next, Step
<1> QED
  BY <1>1, Invariant, PTL DEF Spec, NeverOlder, Older

Answered ==
  \A p \in Pids : answer'[p] # answer[p] =>
    /\ answer'[p] = "updated" =>
         \A left \in prefixes' : left.current = want[p].version
    /\ answer'[p] = "rolledBack" =>
         \A left \in prefixes' : left.current = want[seen[p]].version
    /\ answer'[p] = "unsynced" => prefix'.current = want[p].version
    /\ answer'[p] = "failed" =>
         /\ prefix'.current = prefix.current /\ p \notin unsynced
         /\ pc[p] \notin {"locked", "held"} => prefix'.current = want[seen[p]].version

(* What an update answers is so when it is decided, whatever power is lost
   afterwards (apply.rs:97-117). *)
THEOREM AnswersHold == Spec => AnswersAreTrue
<1>1. IInv /\ [Next]_vars => [Answered]_vars
  <2> DEFINE IsSo(q) ==
        /\ answer'[q] = "updated" =>
             \A left \in prefixes' : left.current = want[q].version
        /\ answer'[q] = "rolledBack" =>
             \A left \in prefixes' : left.current = want[seen[q]].version
        /\ answer'[q] = "unsynced" => prefix'.current = want[q].version
        /\ answer'[q] = "failed" =>
             /\ prefix'.current = prefix.current /\ q \notin unsynced
             /\ pc[q] \notin {"locked", "held"} => prefix'.current = want[seen[q]].version
  <2> SUFFICES ASSUME IInv, [Next]_vars, NEW q \in Pids, answer'[q] # answer[q] PROVE IsSo(q)
    BY DEF Answered
  <2>a. AimedOf(q) /\ answer \in [Pids -> Answers] /\ aim[q] \in Versions /\ prefix \in prefixes
    BY DEF IInv, Aimed, TypeOK
  <2>b. want[seen[q]].version < want[q].version => want[seen[q]].version # want[q].version
    <3>1. want[seen[q]].version \in Nat /\ want[q].version \in Nat
      BY VersionsAssumption DEF IInv, TypeOK, Release, Makers
    <3> QED
      BY <3>1
  <2> USE <2>a, <2>b DEF AimedOf, Before, Forth, Back, Answers
  <2>1. ASSUME NEW p \in Pids, NEW r \in Release, Ask(p, r) PROVE IsSo(q)
    BY <2>1 DEF Ask, Goes, disk
  <2>2. ASSUME NEW p \in Pids, Take(p) PROVE IsSo(q)
    BY <2>2 DEF Take, PrefixBecomes, Goes
  <2>3. ASSUME NEW p \in Pids, Refused(p) PROVE IsSo(q)
    BY <2>3 DEF Refused, disk, Goes
  <2>4. ASSUME NEW p \in Pids, SyncLock(p) PROVE IsSo(q)
    BY <2>4 DEF SyncLock, SyncsPrefix, Goes
  <2>5. ASSUME NEW p \in Pids, Reread(p) PROVE IsSo(q)
    BY <2>5 DEF Reread, disk, Goes, Says, Active, ReadsWhole
  <2>6. ASSUME NEW p \in Pids, NEW l \in Pids, RecoverShelf(p, l) PROVE IsSo(q)
    BY <2>6 DEF RecoverShelf, ShelfBecomes, Goes
  <2>7. ASSUME NEW p \in Pids, NEW l \in Pids, RecoverPrefix(p, l) PROVE IsSo(q)
    BY <2>7 DEF RecoverPrefix, PrefixBecomes, Goes
  <2>8. ASSUME NEW p \in Pids, SyncRecovery(p) PROVE IsSo(q)
    BY <2>8 DEF SyncRecovery, SyncsShelf, SyncsPrefix, Goes
  <2>9. ASSUME NEW p \in Pids, Recovered(p) PROVE IsSo(q)
    BY <2>9 DEF Recovered, disk, Goes
  <2>10. ASSUME NEW p \in Pids, Make(p) PROVE IsSo(q)
    BY <2>10 DEF Make, ShelfBecomes, Goes
  <2>11. ASSUME NEW p \in Pids, Fill(p) PROVE IsSo(q)
    BY <2>11 DEF Fill, disk, Goes
  <2>12. ASSUME NEW p \in Pids, Seal(p) PROVE IsSo(q)
    BY <2>12 DEF Seal, disk, Goes
  <2>13. ASSUME NEW p \in Pids, SealName(p) PROVE IsSo(q)
    BY <2>13 DEF SealName, SyncsShelf, Goes
  <2>14. ASSUME NEW p \in Pids, Place(p) PROVE IsSo(q)
    BY <2>14 DEF Place, ShelfBecomes, Goes, ReadsWhole
  <2>15. ASSUME NEW p \in Pids, SyncPlace(p) PROVE IsSo(q)
    BY <2>15 DEF SyncPlace, SyncsShelf, Goes
  <2>16. ASSUME NEW p \in Pids, Reuse(p) PROVE IsSo(q)
    BY <2>16 DEF Reuse, ShelfBecomes, Goes, Says, ReadsWhole
  <2>17. ASSUME NEW p \in Pids, Link(p) PROVE IsSo(q)
    BY <2>17 DEF Link, PrefixBecomes, Goes
  <2>18. ASSUME NEW p \in Pids, Switch(p) PROVE IsSo(q)
    BY <2>18 DEF Switch, PrefixBecomes, Goes
  <2>19. ASSUME NEW p \in Pids, SwitchFails(p) PROVE IsSo(q)
    BY <2>19 DEF SwitchFails, PrefixBecomes, Says, Goes, Failure
  <2>20. ASSUME NEW p \in Pids, SyncSwitch(p) PROVE IsSo(q)
    BY <2>20 DEF SyncSwitch, SyncsPrefix, Says, Goes
  <2>21. ASSUME NEW p \in Pids, SwitchUnsynced(p) PROVE IsSo(q)
    BY <2>21 DEF SwitchUnsynced, disk, Says, Goes
  <2>22. ASSUME NEW p \in Pids, SaysSo(p) PROVE IsSo(q)
    BY <2>22 DEF SaysSo, disk, Says, Goes
  <2>23. ASSUME NEW p \in Pids, RollBack(p) PROVE IsSo(q)
    BY <2>23 DEF RollBack, disk, Says, Goes, ReadsWhole
  <2>24. ASSUME NEW p \in Pids, Fails(p) PROVE IsSo(q)
    BY <2>24 DEF Fails, ShelfBecomes, Says, Goes, Failure
  <2>25. ASSUME NEW p \in Pids, Unlock(p) PROVE IsSo(q)
    BY <2>25 DEF Unlock, PrefixBecomes, Goes
  <2>26. ASSUME NEW p \in Pids, SyncUnlock(p) PROVE IsSo(q)
    BY <2>26 DEF SyncUnlock, SyncsPrefix, disk, Goes
  <2>27. ASSUME NEW p \in Pids, Killed(p) PROVE IsSo(q)
    BY <2>27 DEF Killed, disk, Goes, Running
  <2>28. CASE PowerLost
    BY <2>28 DEF PowerLost, Running
  <2>29. CASE RemovedByHand
    BY <2>29 DEF RemovedByHand, PrefixBecomes, Running
  <2>30. CASE UNCHANGED vars
    BY <2>30 DEF vars, disk
  <2> QED
    BY <2>1, <2>2, <2>3, <2>4, <2>5, <2>6, <2>7, <2>8, <2>9, <2>10, <2>11, <2>12, <2>13,
       <2>14, <2>15, <2>16, <2>17, <2>18, <2>19, <2>20, <2>21, <2>22, <2>23, <2>24,
       <2>25, <2>26, <2>27, <2>28, <2>29, <2>30 DEF Next, Step
<1> QED
  BY <1>1, Invariant, PTL DEF Spec, AnswersAreTrue, Answered

=============================================================================
