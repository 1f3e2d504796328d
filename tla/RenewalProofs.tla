--------------------------- MODULE RenewalProofs ---------------------------
(***************************************************************************)
(* Theorems about Renewal, for any processes, names, credentials and       *)
(* accounts, and any number of tokens.                                     *)
(***************************************************************************)
EXTENDS Renewal, FiniteSetTheorems, TLAPS

(* Where a piece of work has the lock, and where a rotation has presented its
   token. *)
Holding == {"held", "asked", "served", "writing", "orphan"}
Presented == Holding \ {"held"}

(* Who is past the lock has it, and has read what the store still holds. *)
Locked == \A k \in Work : pc[k] \in Holding => lock = k /\ read[k] = doc

(* A sign-in presents nothing. *)
Signing == \A p \in Procs : pc[<<p, Login>>] \in {"idle", "locking", "writing"}

(* A rotation past the lock renews a token; what it was answered with is in
   nobody's hands yet. *)
Renewing ==
    /\ \A k \in Keys : pc[k] \in Holding => Current(k) # NoToken
    /\ \A k \in Keys : pc[k] \in {"served", "writing", "orphan"} =>
         /\ fresh[k] \in 1 .. issued
         /\ fresh[k] \notin out
         /\ \A n \in Names : doc[n] # fresh[k]

(* Tokens are numbered as they are issued, and the store holds none twice. *)
Issued ==
    /\ \A n \in Names : doc[n] <= issued
    /\ \A t \in out : t <= issued
    /\ \A n, m \in Names : doc[n] = doc[m] /\ doc[n] # NoToken => n = m

(* What is presented is either what the one rotation past the lock renews, or
   is not in the store any more. *)
Gone ==
    \A t \in out :
        \/ \E k \in Keys : pc[k] \in Presented /\ Current(k) = t
        \/ \A n \in Names : doc[n] # t

StoreInv == Locked /\ Signing /\ Renewing /\ Issued /\ Gone

(* Who waits does so in a process that goes on, for a rotation that runs; a
   rotation that runs has not told what it came to. *)
Waited ==
    /\ \A w \in waiting : Home[w][1] \notin over /\ pc[Home[w]] \notin {"idle", "orphan"}
    /\ \A k \in Keys : pc[k] = "orphan" => k[1] \in over
    /\ \A k \in Keys : pc[k] \notin {"idle", "orphan"} => last[k] = NoToken

IInv == TypeOK /\ StoreInv /\ Waited
-----------------------------------------------------------------------------
(* A rotation is no sign-in. *)
LEMMA Kinds ==
    /\ Keys \subseteq Work
    /\ \A k \in Keys : k[1] \in Procs /\ k[2] \in Names /\ k[2] # Login
    /\ \A p \in Procs : <<p, Login>> \in Work /\ <<p, Login>> \notin Keys
    /\ \A k \in Work \ Keys : k[2] = Login /\ k[1] \in Procs /\ k = <<k[1], Login>>
    /\ None \notin Work
    /\ \A w \in Waiters : Home[w] \in Keys
<1>1. Renewed \subseteq Names /\ \A w \in Waiters : Home[w][2] \in Renewed
  BY HomeAssumption DEF Renewed
<1> QED  BY <1>1, NamesAssumption, HomeAssumption DEF Keys, Work

LEMMA Numbers ==
    /\ MaxTokens \in Nat /\ NoToken = 0 /\ NoToken \notin Tokens
    /\ \A t \in Tokens : t \in Nat /\ t # 0
    /\ 1 .. MaxTokens = Tokens
BY TokensAssumption DEF Tokens, NoToken

(* The store holds as many tokens at first as there are names renewed, hence
   none twice. *)
LEMMA StartsApart ==
    ASSUME Init
    PROVE  /\ Cardinality(Renewed) \in 0 .. MaxTokens
           /\ \A n \in Names : doc[n] <= Cardinality(Renewed)
           /\ \A n \in Renewed : doc[n] \in Tokens
           /\ \A n, m \in Names : doc[n] = doc[m] /\ doc[n] # NoToken => n = m
<1> DEFINE C == Cardinality(Renewed)
           Held == 1 .. C
           f == [n \in Renewed |-> doc[n]]
<1>1. C \in Nat /\ C <= MaxTokens /\ IsFiniteSet(Renewed) /\ MaxTokens \in Nat
  BY TokensAssumption, FS_CardinalityType
<1>2. Renewed \subseteq Names
  BY HomeAssumption DEF Renewed
<1>3. {doc[n] : n \in Renewed} = Held /\ \A n \in Names \ Renewed : doc[n] = NoToken
  BY DEF Init
<1>4. f \in Surjection(Renewed, Held)
  <2>1. f \in [Renewed -> Held]
    BY <1>3
  <2>2. \A t \in Held : \E n \in Renewed : f[n] = t
    BY <1>3
  <2> QED  BY <2>1, <2>2 DEF Surjection
<1>5. Cardinality(Held) = C
  BY <1>1, FS_Interval
<1> HIDE DEF f, Held, C
<1>6. f \in Injection(Renewed, Held)
  BY <1>1, <1>4, <1>5, FS_SurjSameCardinalityImpliesInj DEF C
<1>7. \A n, m \in Renewed : doc[n] = doc[m] => n = m
  BY <1>6 DEF f, Injection, IsInjective
<1>8. \A n \in Renewed : doc[n] \in 1 .. C
  BY <1>3 DEF Held
<1>9. \A n, m \in Names : doc[n] = doc[m] /\ doc[n] # NoToken => n = m
  BY <1>3, <1>7
<1>10. \A n \in Names : doc[n] <= C
  BY <1>1, <1>3, <1>8 DEF NoToken
<1>11. \A n \in Renewed : doc[n] \in Tokens
  BY <1>1, <1>8 DEF Tokens
<1> QED  BY <1>1, <1>9, <1>10, <1>11 DEF C

LEMMA TypeInit == Init => TypeOK
<1> SUFFICES ASSUME Init PROVE TypeOK
  OBVIOUS
<1>1. Cardinality(Renewed) \in 0 .. MaxTokens /\ \A n \in Renewed : doc[n] \in Tokens
  BY StartsApart
<1>2. \A w \in Waiters : Home[w][2] \in Renewed
  BY DEF Renewed
<1>3. own \in [Waiters -> Tokens]
  BY <1>1, <1>2 DEF Init
<1>4. Nothing \in Documents
  BY DEF Nothing, Documents
<1>5. First \in Accounts
  BY FirstAssumption
<1> QED  BY <1>1, <1>3, <1>4, <1>5 DEF Init, TypeOK

LEMMA StoreInit == Init => StoreInv
<1> SUFFICES ASSUME Init PROVE StoreInv
  OBVIOUS
<1>1. \A k \in Work : pc[k] = "idle"
  BY DEF Init
<1>2. Locked /\ Signing /\ Renewing
  BY <1>1, Kinds DEF Locked, Signing, Renewing, Holding
<1>3. Issued
  BY StartsApart DEF Init, Issued
<1>4. Gone
  BY DEF Init, Gone
<1> QED  BY <1>2, <1>3, <1>4 DEF StoreInv

LEMMA WaitedInit == Init => Waited
BY Kinds DEF Init, Waited
-----------------------------------------------------------------------------
(* How a rotation ends, place by place. *)
LEMMA Ending ==
    ASSUME TypeOK, NEW k \in Keys, NEW came \in Tokens \cup {NoToken}, Ends(k, came)
    PROVE  /\ pc'[k] = "idle" /\ \A j \in Work \ {k} : pc'[j] = pc[j]
           /\ pc' \in [Work -> {"idle", "waiting", "locking", "held", "asked", "served",
                                "writing", "orphan"}]
           /\ lock' = IF lock = k THEN None ELSE lock
           /\ read' \in [Work -> Documents] /\ \A j \in Work \ {k} : read'[j] = read[j]
           /\ fresh' \in [Keys -> Tokens \cup {NoToken}]
           /\ \A j \in Keys \ {k} : fresh'[j] = fresh[j]
           /\ last' \in [Keys -> Tokens \cup {NoToken}]
           /\ \A j \in Keys \ {k} : last'[j] = last[j]
           /\ waiting' = waiting \ Waits(k)
           /\ own' \in [Waiters -> Tokens]
           /\ place' \in [Procs -> Names \cup {Login, None}]
<1>1. Nothing \in Documents
  BY DEF Nothing, Documents
<1>2. /\ pc' = [pc EXCEPT ![k] = "idle"]
      /\ lock' = IF lock = k THEN None ELSE lock
      /\ read' = [read EXCEPT ![k] = Nothing]
      /\ fresh' = [fresh EXCEPT ![k] = NoToken]
      /\ last' = [last EXCEPT ![k] = came]
      /\ waiting' = waiting \ Waits(k)
  BY DEF Ends, LetsGo, Goes
<1>3. own' \in [Waiters -> Tokens]
  BY DEF Ends, TypeOK
<1>4. place' \in [Procs -> Names \cup {Login, None}]
  BY Kinds DEF Ends, LetsGo, TypeOK
<1> QED  BY <1>1, <1>2, <1>3, <1>4, Kinds DEF TypeOK

LEMMA TypeInductive == TypeOK /\ StoreInv /\ [Next]_vars => TypeOK'
<1> SUFFICES ASSUME TypeOK, StoreInv, [Next]_vars PROVE TypeOK'
  OBVIOUS
<1> USE Kinds DEF TypeOK, service
<1>0. ASSUME NEW k \in Keys, pc[k] \in Holding PROVE Current(k) \in Tokens
  BY <1>0 DEF StoreInv, Renewing, Current, Documents
<1>1. ASSUME NEW w \in Waiters, TakeLatest(w) PROVE TypeOK'
  <2>1. last[Home[w]] \in Tokens
    BY <1>1 DEF TakeLatest
  <2> QED  BY <1>1, <2>1 DEF TakeLatest
<1>2. ASSUME NEW w \in Waiters, Renew(w) PROVE TypeOK'
  BY <1>2 DEF Renew, Goes
<1>3. ASSUME NEW w \in Waiters, GiveUp(w) PROVE TypeOK'
  BY <1>3 DEF GiveUp
<1>4. ASSUME NEW k \in Keys, TakePlace(k) PROVE TypeOK'
  BY <1>4 DEF TakePlace, Goes
<1>5. ASSUME NEW k \in Keys, TakeRotation(k) PROVE TypeOK'
  <2>1. CASE Fails(k)
    BY <1>5, <2>1, Ending DEF TakeRotation, Fails
  <2>2. CASE doc[k[2]] \in Tokens \ due /\ Ends(k, doc[k[2]])
    BY <1>5, <2>2, Ending DEF TakeRotation
  <2>3. CASE /\ lock' = k /\ read' = [read EXCEPT ![k] = doc] /\ Goes(k, "held")
             /\ UNCHANGED <<place, fresh, last, own, waiting>>
    BY <1>5, <2>3 DEF TakeRotation, Goes
  <2> QED  BY <1>5, <2>1, <2>2, <2>3 DEF TakeRotation
<1>6. ASSUME NEW k \in Keys, Busy(k) PROVE TypeOK'
  <2>1. Fails(k)
    BY <1>6 DEF Busy
  <2> QED  BY <1>6, <2>1, Ending DEF Busy, Fails
<1>7. ASSUME NEW k \in Keys, Present(k) PROVE TypeOK'
  <2>1. Current(k) \in Tokens
    BY <1>7, <1>0 DEF Present, Holding
  <2> QED  BY <1>7, <2>1 DEF Present, Goes
<1>8. ASSUME NEW k \in Keys, Serve(k) PROVE TypeOK'
  <2>1. Current(k) \in Tokens
    BY <1>8, <1>0 DEF Serve, Holding
  <2>2. issued + 1 \in Tokens /\ issued + 1 \in 0 .. MaxTokens
    BY <1>8, Numbers DEF Serve, Tokens
  <2> QED  BY <1>8, <2>1, <2>2 DEF Serve, Goes
<1>9. ASSUME NEW k \in Keys, NotAnswered(k) PROVE TypeOK'
  <2>1. out' \in SUBSET Tokens
    BY <1>9 DEF NotAnswered, CameToNothing
  <2> QED  BY <1>9, <2>1, Ending DEF NotAnswered, Fails
<1>10. ASSUME NEW k \in Keys, Answered(k) PROVE TypeOK'
  <2>1. CASE Goes(k, "writing") /\ UNCHANGED <<lock, place, read, fresh, last, own, waiting, out>>
    BY <1>10, <2>1 DEF Answered, Goes
  <2>2. CASE Fails(k) /\ CameToNothing(k)
    BY <1>10, <2>2, Ending DEF Answered, Fails, CameToNothing
  <2> QED  BY <1>10, <2>1, <2>2 DEF Answered
<1>11. ASSUME NEW v \in Tokens \cup {NoToken}, NEW n \in Names,
              NEW j \in Work, doc' = [read[j] EXCEPT ![n] = v]
       PROVE  doc' \in Documents
  BY <1>11 DEF Documents
<1>12. ASSUME NEW k \in Keys, Persist(k) PROVE TypeOK'
  <2>1. fresh[k] \in Tokens \cup {NoToken} /\ doc' \in Documents
    BY <1>12, <1>11 DEF Persist
  <2> QED  BY <1>12, <2>1, Ending DEF Persist
<1>13. ASSUME NEW k \in Keys, PersistFails(k) PROVE TypeOK'
  <2>1. doc' \in Documents
    BY <1>13, <1>11 DEF PersistFails
  <2> QED  BY <1>13, <2>1, Ending DEF PersistFails, Fails, CameToNothing
<1>14. Nothing \in Documents
  BY DEF Nothing, Documents
<1>15. ASSUME NEW k \in Work, LetsGo(k)
       PROVE  /\ lock' \in Work \cup {None} /\ read' \in [Work -> Documents]
              /\ place' \in [Procs -> Names \cup {Login, None}]
  BY <1>14, <1>15 DEF LetsGo, Work
<1>16. ASSUME NEW k \in Keys, PersistAlone(k) PROVE TypeOK'
  <2>1. doc' \in Documents
    BY <1>16, <1>11 DEF PersistAlone
  <2> QED  BY <1>16, <2>1, <1>15 DEF PersistAlone, Goes
<1>17. ASSUME NEW p \in Procs, BeginLogin(p) PROVE TypeOK'
  BY <1>17 DEF BeginLogin, Goes
<1>18. ASSUME NEW p \in Procs, LockLogin(p) PROVE TypeOK'
  BY <1>18 DEF LockLogin, Goes
<1>19. ASSUME NEW p \in Procs, Busy(<<p, Login>>) PROVE TypeOK'
  BY <1>19, <1>15 DEF Busy, Goes
<1>20. ASSUME NEW p \in Procs, NEW n \in Names, NEW a \in Accounts, SignIn(p, n, a) PROVE TypeOK'
  <2>1. issued + 1 \in Tokens /\ issued + 1 \in 0 .. MaxTokens
    BY <1>20, Numbers DEF SignIn, Tokens
  <2>2. read[<<p, Login>>] \in Documents
    OBVIOUS
  <2>3. doc' \in Documents
    BY <1>20, <2>1, <2>2 DEF SignIn, Documents
  <2> QED  BY <1>20, <2>1, <2>3, <1>15 DEF SignIn, Goes
<1>21. ASSUME NEW p \in Procs, NEW n \in Names, SignOut(p, n) PROVE TypeOK'
  <2>1. read[<<p, Login>>] \in Documents
    OBVIOUS
  <2>2. doc' \in Documents
    BY <1>21, <2>1 DEF SignOut, Documents
  <2> QED  BY <1>21, <2>2, <1>15 DEF SignOut, Goes
<1>22. ASSUME NEW ended, Drops(ended)
       PROVE  /\ lock' \in Work \cup {None} /\ read' \in [Work -> Documents]
              /\ fresh' \in [Keys -> Tokens \cup {NoToken}] /\ out' \in SUBSET Tokens
  BY <1>14, <1>22 DEF Drops, Dropped
<1>23. ASSUME NEW p \in Procs, Closes(p)
       PROVE  over' \in SUBSET Procs /\ waiting' \in SUBSET Waiters
  BY <1>23 DEF Closes
<1>24. ASSUME NEW p \in Procs, Abort(p) PROVE TypeOK'
  <2>1. pc' \in [Work -> {"idle", "waiting", "locking", "held", "asked", "served", "writing",
                        "orphan"}]
    BY <1>24 DEF Abort
  <2>2. place' \in [Procs -> Names \cup {Login, None}]
    BY <1>24 DEF Abort
  <2> QED  BY <1>22, <1>23, <1>24, <2>1, <2>2 DEF Abort
<1>25. ASSUME NEW p \in Procs, Die(p) PROVE TypeOK'
  <2>1. pc' \in [Work -> {"idle", "waiting", "locking", "held", "asked", "served", "writing",
                        "orphan"}]
    BY <1>25 DEF Die
  <2>2. place' \in [Procs -> Names \cup {Login, None}]
    BY <1>25 DEF Die
  <2> QED  BY <1>22, <1>23, <1>25, <2>1, <2>2 DEF Die
<1>26. ASSUME NEW t \in Tokens, Lapse(t) PROVE TypeOK'
  BY <1>26 DEF Lapse
<1>27. CASE UNCHANGED vars
  BY <1>27 DEF vars
<1> QED
  BY <1>1, <1>2, <1>3, <1>4, <1>5, <1>6, <1>7, <1>8, <1>9, <1>10, <1>12, <1>13, <1>16, <1>17,
     <1>18, <1>19, <1>20, <1>21, <1>24, <1>25, <1>26, <1>27
  DEF Next, Rotates, LogsIn
-----------------------------------------------------------------------------
(* Two pieces of work are never past the lock together. *)
LEMMA Alone ==
    ASSUME StoreInv, NEW k \in Work, pc[k] \in Holding \/ lock = None,
           NEW j \in Work, j # k
    PROVE  pc[j] \notin Holding
BY Kinds DEF StoreInv, Locked

(* A step of work that is before the lock and stays there touches nothing. *)
LEMMA Before ==
    ASSUME StoreInv, UNCHANGED <<doc, lock, read, fresh, issued, out>>,
           NEW k \in Work, pc[k] \notin Holding, pc'[k] \notin Holding,
           k \notin Keys => pc'[k] \in {"idle", "locking", "writing"},
           \A j \in Work \ {k} : pc'[j] = pc[j]
    PROVE  StoreInv'
<1> USE Kinds
<1>1. \A j \in Work : pc'[j] \in Holding => pc[j] \in Holding /\ pc'[j] = pc[j]
  OBVIOUS
<1>2. Locked'
  BY <1>1 DEF StoreInv, Locked
<1>3. Signing'
  BY DEF StoreInv, Signing
<1>4. Renewing'
  BY <1>1 DEF StoreInv, Renewing, Current, Holding
<1>5. Issued'
  BY DEF StoreInv, Issued
<1>6. Gone'
  <2> SUFFICES ASSUME NEW t \in out
               PROVE  \/ \E j \in Keys : pc'[j] \in Presented /\ Current(j)' = t
                      \/ \A n \in Names : doc'[n] # t
    BY DEF Gone
  <2>1. CASE \E j \in Keys : pc[j] \in Presented /\ Current(j) = t
    <3>1. PICK j \in Keys : pc[j] \in Presented /\ Current(j) = t
      BY <2>1
    <3>2. j # k
      BY <3>1 DEF Presented
    <3> QED  BY <3>1, <3>2 DEF Current
  <2> QED  BY <2>1 DEF StoreInv, Gone
<1> QED  BY <1>2, <1>3, <1>4, <1>5, <1>6 DEF StoreInv

(* Work ends and leaves the store as it is: what it presented, if it did, has
   come to nothing. *)
LEMMA Leaves ==
    ASSUME StoreInv, UNCHANGED <<doc, issued>>, out' \subseteq out,
           NEW k \in Work, pc'[k] = "idle",
           \A j \in Work \ {k} : pc'[j] = pc[j] /\ read'[j] = read[j],
           \A j \in Keys \ {k} : fresh'[j] = fresh[j],
           lock' = IF lock = k THEN None ELSE lock,
           k \in Keys /\ pc[k] \in Presented => Current(k) \notin out'
    PROVE  StoreInv'
<1> USE Kinds
<1>1. \A j \in Work : pc'[j] \in Holding => j # k /\ pc[j] \in Holding /\ pc'[j] = pc[j]
  BY DEF Holding
<1>2. Locked'
  BY <1>1 DEF StoreInv, Locked
<1>3. Signing'
  BY DEF StoreInv, Signing
<1>4. Renewing'
  BY <1>1 DEF StoreInv, Renewing, Current, Holding
<1>5. Issued'
  BY DEF StoreInv, Issued
<1>6. Gone'
  <2> SUFFICES ASSUME NEW t \in out'
               PROVE  \/ \E j \in Keys : pc'[j] \in Presented /\ Current(j)' = t
                      \/ \A n \in Names : doc'[n] # t
    BY DEF Gone
  <2>1. CASE \E j \in Keys : pc[j] \in Presented /\ Current(j) = t
    <3>1. PICK j \in Keys : pc[j] \in Presented /\ Current(j) = t
      BY <2>1
    <3>2. j # k
      BY <3>1
    <3> QED  BY <3>1, <3>2 DEF Current
  <2> QED  BY <2>1 DEF StoreInv, Gone
<1> QED  BY <1>2, <1>3, <1>4, <1>5, <1>6 DEF StoreInv

(* Whoever has the lock writes the document it read and ends: one name to
   nothing or to a token nobody has, and of the others some to nothing. *)
LEMMA Writes ==
    ASSUME TypeOK, StoreInv, out' \subseteq out, issued' \in Nat, issued <= issued',
           NEW k \in Work, pc[k] \in Holding, pc'[k] = "idle",
           \A j \in Work \ {k} : pc'[j] = pc[j],
           NEW n \in Names, NEW v,
           doc'[n] = v, \A m \in Names \ {n} : doc'[m] \in {read[k][m], NoToken},
           v = NoToken \/ (v \in 1 .. issued' /\ v \notin out' /\ \A m \in Names : doc[m] # v),
           k \in Keys /\ pc[k] \in Presented => n = k[2] \/ Current(k) \notin out'
    PROVE  StoreInv'
<1> USE Kinds
<1>1. \A j \in Work : pc'[j] \notin Holding
  BY Alone DEF Holding
<1>2. Locked' /\ Renewing'
  <2>1. \A j \in Keys : pc'[j] \notin {"served", "writing", "orphan"}
    BY <1>1 DEF Holding
  <2> QED  BY <1>1, <2>1 DEF Locked, Renewing
<1>3. Signing'
  BY DEF StoreInv, Signing
<1>4. read[k] = doc
  BY DEF StoreInv, Locked
<1>5. doc'[n] = v /\ \A m \in Names \ {n} : doc'[m] \in {doc[m], NoToken}
  BY <1>4
<1>6. \A m \in Names : doc[m] \in Nat /\ issued \in Nat
  BY Numbers DEF TypeOK, Documents
<1>7. out \subseteq Nat
  BY Numbers DEF TypeOK
<1>8. Issued'
  <2>1. \A m \in Names : doc'[m] <= issued'
    BY <1>5, <1>6, Numbers DEF StoreInv, Issued
  <2>2. \A t \in out' : t <= issued'
    BY <1>6, <1>7 DEF StoreInv, Issued
  <2>3. \A m, l \in Names : doc'[m] = doc'[l] /\ doc'[m] # NoToken => m = l
    BY <1>5 DEF StoreInv, Issued
  <2> QED  BY <2>1, <2>2, <2>3 DEF Issued
<1>9. Gone'
  <2> SUFFICES ASSUME NEW t \in out', NEW m \in Names PROVE doc'[m] # t
    BY DEF Gone
  <2>1. t # NoToken
    BY Numbers DEF TypeOK
  <2>2. CASE m = n
    BY <1>5, <2>1, <2>2
  <2>3. CASE m # n /\ \A l \in Names : doc[l] # t
    BY <1>5, <2>1, <2>3
  <2>4. CASE m # n /\ \E j \in Keys : pc[j] \in Presented /\ Current(j) = t
    <3>1. PICK j \in Keys : pc[j] \in Presented /\ Current(j) = t
      BY <2>4
    <3>2. j = k
      BY <3>1, Alone DEF Presented
    <3>3. n = k[2] /\ doc[k[2]] = t
      BY <1>4, <3>1, <3>2 DEF Current
    <3> QED  BY <1>5, <2>1, <2>4, <3>3 DEF StoreInv, Issued
  <2> QED  BY <2>2, <2>3, <2>4 DEF StoreInv, Gone
<1> QED  BY <1>2, <1>3, <1>8, <1>9 DEF StoreInv

(* The lock is free: the work `k` takes it and reads the store. *)
LEMMA Takes ==
    ASSUME TypeOK, StoreInv, UNCHANGED <<doc, fresh, issued, out>>,
           NEW k \in Work, lock = None, lock' = k, read' = [read EXCEPT ![k] = doc],
           pc' = [pc EXCEPT ![k] = IF k \in Keys THEN "held" ELSE "writing"],
           k \in Keys => doc[k[2]] # NoToken
    PROVE  StoreInv'
<1> USE Kinds
<1>1. /\ \A j \in Work : pc[j] \notin Holding
      /\ \A j \in Work \ {k} : pc'[j] \notin Holding
  BY DEF StoreInv, Locked, TypeOK
<1>2. read'[k] = doc
  BY DEF TypeOK
<1>3. Locked'
  BY <1>1, <1>2 DEF Locked
<1>4. Signing'
  BY DEF StoreInv, Signing, TypeOK
<1>5. Renewing'
  <2>1. \A j \in Keys : pc'[j] \in Holding => Current(j)' # NoToken
    BY <1>1, <1>2 DEF Current
  <2>2. \A j \in Keys : pc'[j] \notin {"served", "writing", "orphan"}
    BY <1>1 DEF Holding, TypeOK
  <2> QED  BY <2>1, <2>2 DEF Renewing
<1>6. Issued'
  BY DEF StoreInv, Issued
<1>7. Gone'
  BY <1>1 DEF StoreInv, Gone, Presented
<1> QED  BY <1>3, <1>4, <1>5, <1>6, <1>7 DEF StoreInv

(* A process ends, with work of any kind: what is past the lock and goes on
   keeps what it has. *)
LEMMA Ended ==
    ASSUME TypeOK, StoreInv, NEW p \in Procs, Abort(p) \/ Die(p)
    PROVE  StoreInv'
<1> USE Kinds
<1>1. PICK ended \in SUBSET Work :
        /\ Drops(ended)
        /\ \A j \in ended : pc'[j] = "idle"
        /\ \A j \in Work \ ended :
             \/ pc'[j] = pc[j]
             \/ j \in Keys /\ pc[j] = "writing" /\ pc'[j] = "orphan"
  <2>1. CASE Abort(p)
    <3> DEFINE writing == {k \in Keys : k[1] = p /\ pc[k] = "writing"}
               ended == (Of(p) \cap Keys) \ writing
    <3>1. /\ Drops(ended)
          /\ pc' = [k \in Work |-> IF k \in ended THEN "idle"
                                   ELSE IF k \in writing THEN "orphan" ELSE pc[k]]
      BY <2>1 DEF Abort
    <3>2. ended \in SUBSET Work
      OBVIOUS
    <3> QED  BY <3>1, <3>2
  <2>2. CASE Die(p)
    <3>1. Drops(Of(p)) /\ pc' = [k \in Work |-> IF k \in Of(p) THEN "idle" ELSE pc[k]]
      BY <2>2 DEF Die
    <3>2. Of(p) \in SUBSET Work
      BY DEF Of
    <3> QED  BY <3>1, <3>2
  <2> QED  BY <2>1, <2>2
<1>2. /\ lock' = IF lock \in ended THEN None ELSE lock
      /\ \A j \in Work \ ended : read'[j] = read[j]
      /\ \A j \in Keys \ ended : fresh'[j] = fresh[j]
      /\ out' = out \ {Current(k) : k \in {e \in ended \cap Keys :
                                     pc[e] \notin {"idle", "waiting", "locking", "held"}}}
      /\ UNCHANGED <<doc, issued>>
  BY <1>1 DEF Abort, Die, Drops, Dropped, service
<1>3. \A j \in Work : pc'[j] \in Holding => j \notin ended /\ pc[j] \in Holding
  BY <1>1 DEF Holding
<1>4. Locked'
  BY <1>2, <1>3 DEF StoreInv, Locked
<1>5. Signing'
  BY <1>1 DEF StoreInv, Signing
<1>6. Renewing'
  <2>1. \A j \in Keys : pc'[j] \in {"served", "writing", "orphan"} =>
          j \notin ended /\ pc[j] \in {"served", "writing", "orphan"}
    BY <1>1
  <2>2. out' \subseteq out
    BY <1>2
  <2> QED  BY <1>2, <1>3, <2>1, <2>2 DEF StoreInv, Renewing, Current
<1>7. Issued'
  BY <1>2 DEF StoreInv, Issued
<1>8. Gone'
  <2> SUFFICES ASSUME NEW t \in out'
               PROVE  \/ \E j \in Keys : pc'[j] \in Presented /\ Current(j)' = t
                      \/ \A n \in Names : doc'[n] # t
    BY DEF Gone
  <2>1. CASE \E j \in Keys : pc[j] \in Presented /\ Current(j) = t
    <3>1. PICK j \in Keys : pc[j] \in Presented /\ Current(j) = t
      BY <2>1
    <3>2. j \notin ended
      BY <1>2, <3>1 DEF Presented, Holding
    <3>3. pc'[j] \in Presented
      BY <1>1, <3>1, <3>2 DEF Presented, Holding
    <3> QED  BY <1>2, <3>1, <3>2, <3>3 DEF Current
  <2> QED  BY <1>2, <2>1 DEF StoreInv, Gone
<1> QED  BY <1>4, <1>5, <1>6, <1>7, <1>8 DEF StoreInv
-----------------------------------------------------------------------------
LEMMA StoreInductive == TypeOK /\ StoreInv /\ [Next]_vars => StoreInv'
<1> SUFFICES ASSUME TypeOK, StoreInv, [Next]_vars PROVE StoreInv'
  OBVIOUS
<1> USE Kinds DEF service
<1>0. ASSUME NEW k \in Keys, Fails(k), UNCHANGED <<doc, issued>>, out' \subseteq out,
             pc[k] \in Presented => Current(k) \notin out'
      PROVE  StoreInv'
  <2>1. NoToken \in Tokens \cup {NoToken} /\ Ends(k, NoToken)
    BY <1>0 DEF Fails
  <2> QED  BY <1>0, <2>1, Ending, Leaves
<1>1. ASSUME NEW w \in Waiters, TakeLatest(w) \/ GiveUp(w) PROVE StoreInv'
  <2>1. PICK k \in Work : k = Home[w]
    OBVIOUS
  <2> QED
    BY <1>1 DEF TakeLatest, GiveUp, StoreInv, Locked, Signing, Renewing, Issued, Gone, Current
<1>2. ASSUME NEW w \in Waiters, Renew(w) PROVE StoreInv'
  <2>1. CASE pc[Home[w]] = "idle"
    <3>1. pc' = [pc EXCEPT ![Home[w]] = "waiting"]
      BY <1>2, <2>1 DEF Renew, Goes
    <3>2. pc'[Home[w]] = "waiting" /\ \A j \in Work \ {Home[w]} : pc'[j] = pc[j]
      BY <3>1 DEF TypeOK
    <3>3. Home[w] \in Work /\ UNCHANGED <<doc, lock, read, fresh, issued, out>>
      BY <1>2 DEF Renew
    <3>4. pc[Home[w]] \notin Holding /\ pc'[Home[w]] \notin Holding
      BY <2>1, <3>2 DEF Holding
    <3> QED  BY <3>2, <3>3, <3>4, Before
  <2>2. CASE pc[Home[w]] # "idle"
    BY <1>2, <2>2 DEF Renew, StoreInv, Locked, Signing, Renewing, Issued, Gone, Current
  <2> QED  BY <2>1, <2>2
<1>3. ASSUME NEW k \in Keys, TakePlace(k) PROVE StoreInv'
  <2>1. pc'[k] = "locking" /\ \A j \in Work \ {k} : pc'[j] = pc[j]
    BY <1>3 DEF TakePlace, Goes, TypeOK
  <2>2. pc[k] \notin Holding /\ pc'[k] \notin Holding
    BY <1>3, <2>1 DEF TakePlace, Holding
  <2>3. UNCHANGED <<doc, lock, read, fresh, issued, out>>
    BY <1>3 DEF TakePlace
  <2> QED  BY <2>1, <2>2, <2>3, Before
<1>4. ASSUME NEW k \in Keys, TakeRotation(k) PROVE StoreInv'
  <2>1. pc[k] \notin Presented
    BY <1>4 DEF TakeRotation, Presented, Holding
  <2>2. CASE Fails(k)
    BY <1>0, <1>4, <2>1, <2>2 DEF TakeRotation
  <2>3. CASE doc[k[2]] \in Tokens \ due /\ Ends(k, doc[k[2]])
    <3>1. UNCHANGED <<doc, issued, out>>
      BY <1>4 DEF TakeRotation
    <3> QED  BY <2>1, <2>3, <3>1, Ending, Leaves
  <2>4. CASE /\ doc[k[2]] \in due /\ lock' = k /\ read' = [read EXCEPT ![k] = doc]
             /\ Goes(k, "held") /\ UNCHANGED <<place, fresh, last, own, waiting>>
    <3>1. lock = None /\ UNCHANGED <<doc, fresh, issued, out>> /\ doc[k[2]] # NoToken
      BY <1>4, <2>4, Numbers DEF TakeRotation, TypeOK
    <3>2. pc' = [pc EXCEPT ![k] = IF k \in Keys THEN "held" ELSE "writing"]
      BY <2>4 DEF Goes
    <3> QED  BY <2>4, <3>1, <3>2, Takes
  <2> QED  BY <1>4, <2>2, <2>3, <2>4 DEF TakeRotation
<1>5. ASSUME NEW k \in Keys, Busy(k) PROVE StoreInv'
  BY <1>0, <1>5 DEF Busy, Presented, Holding
<1>6. ASSUME NEW k \in Keys, Present(k) PROVE StoreInv'
  <2>1. /\ pc[k] = "held" /\ pc'[k] = "asked" /\ \A j \in Work \ {k} : pc'[j] = pc[j]
        /\ UNCHANGED <<doc, lock, read, fresh, issued>> /\ out' = out \cup {Current(k)}
    BY <1>6 DEF Present, Goes, TypeOK
  <2>2. pc[k] \in Holding /\ lock = k /\ read[k] = doc
    BY <2>1 DEF StoreInv, Locked, Holding
  <2>3. \A j \in Work \ {k} : pc[j] \notin Holding
    BY <2>2, Alone
  <2>4. Locked'
    BY <2>1, <2>2 DEF StoreInv, Locked
  <2>5. Signing'
    BY <2>1 DEF StoreInv, Signing
  <2>6. Renewing'
    <3>1. \A j \in Keys : pc'[j] \in Holding => pc[j] \in Holding /\ Current(j)' = Current(j)
      BY <2>1, <2>2 DEF Current
    <3>2. \A j \in Keys : pc'[j] \notin {"served", "writing", "orphan"}
      BY <2>1, <2>3 DEF Holding
    <3> QED  BY <3>1, <3>2 DEF StoreInv, Renewing
  <2>7. Issued'
    <3>1. Current(k) <= issued
      BY <2>2 DEF StoreInv, Issued, Current
    <3> QED  BY <2>1, <3>1 DEF StoreInv, Issued
  <2>8. Gone'
    <3> SUFFICES ASSUME NEW t \in out'
                 PROVE  \/ \E j \in Keys : pc'[j] \in Presented /\ Current(j)' = t
                        \/ \A n \in Names : doc'[n] # t
      BY DEF Gone
    <3>1. CASE t = Current(k)
      BY <2>1, <3>1 DEF Presented, Holding, Current
    <3>2. CASE t \in out
      <4>1. \A j \in Keys : pc[j] \notin Presented
        BY <2>1, <2>3 DEF Presented
      <4> QED  BY <2>1, <3>2, <4>1 DEF StoreInv, Gone
    <3> QED  BY <2>1, <3>1, <3>2
  <2> QED  BY <2>4, <2>5, <2>6, <2>7, <2>8 DEF StoreInv
<1>7. ASSUME NEW k \in Keys, Serve(k) PROVE StoreInv'
  <2>1. /\ pc[k] = "asked" /\ pc'[k] = "served" /\ \A j \in Work \ {k} : pc'[j] = pc[j]
        /\ UNCHANGED <<doc, lock, read, out>>
        /\ fresh'[k] = issued + 1 /\ issued' = issued + 1
    BY <1>7 DEF Serve, Goes, TypeOK
  <2>2. pc[k] \in Holding /\ pc'[k] \in Holding
    BY <2>1 DEF Holding
  <2>3. \A j \in Work \ {k} : pc[j] \notin Holding
    BY <2>2, Alone
  <2>4. issued \in Nat /\ out \subseteq Nat /\ \A n \in Names : doc[n] \in Nat
    BY Numbers DEF TypeOK, Documents
  <2>5. Locked'
    BY <2>1, <2>2 DEF StoreInv, Locked
  <2>6. Signing'
    BY <2>1 DEF StoreInv, Signing
  <2>7. Renewing'
    <3>1. \A j \in Keys : pc'[j] \in Holding => j = k
      BY <2>1, <2>3
    <3>2. Current(k)' # NoToken
      BY <2>1, <2>2 DEF StoreInv, Renewing, Current
    <3>3. fresh'[k] \in 1 .. issued' /\ fresh'[k] \notin out' /\ \A n \in Names : doc'[n] # fresh'[k]
      BY <2>1, <2>4 DEF StoreInv, Issued
    <3> QED  BY <3>1, <3>2, <3>3 DEF Renewing, Holding
  <2>8. Issued'
    BY <2>1, <2>4 DEF StoreInv, Issued
  <2>9. Gone'
    BY <2>1 DEF StoreInv, Gone, Presented, Holding, Current
  <2> QED  BY <2>5, <2>6, <2>7, <2>8, <2>9 DEF StoreInv
<1>8. ASSUME NEW k \in Keys, CameToNothing(k)
      PROVE  out' \subseteq out /\ Current(k) \notin out'
  BY <1>8 DEF CameToNothing
<1>9. ASSUME NEW k \in Keys, NotAnswered(k) PROVE StoreInv'
  <2>1. CASE pc[k] = "held"
    BY <1>0, <1>9, <2>1 DEF NotAnswered, Presented
  <2>2. CASE pc[k] # "held"
    BY <1>0, <1>8, <1>9, <2>2 DEF NotAnswered
  <2> QED  BY <2>1, <2>2
<1>10. ASSUME NEW k \in Keys, Answered(k) PROVE StoreInv'
  <2>1. CASE Fails(k) /\ CameToNothing(k)
    BY <1>0, <1>8, <1>10, <2>1 DEF Answered
  <2>2. CASE Goes(k, "writing") /\ UNCHANGED <<lock, place, read, fresh, last, own, waiting, out>>
    <3>1. /\ pc[k] = "served" /\ pc'[k] = "writing" /\ \A j \in Work \ {k} : pc'[j] = pc[j]
          /\ UNCHANGED <<doc, lock, read, out, issued, fresh>>
      BY <1>10, <2>2 DEF Answered, Goes, TypeOK
    <3>2. Locked' /\ Renewing' /\ Issued' /\ Gone'
      BY <3>1 DEF StoreInv, Locked, Renewing, Issued, Gone, Current, Holding, Presented
    <3>3. Signing'
      BY <3>1 DEF StoreInv, Signing
    <3> QED  BY <3>2, <3>3 DEF StoreInv
  <2> QED  BY <1>10, <2>1, <2>2 DEF Answered
<1>11. ASSUME NEW k \in Keys, pc[k] \in {"served", "writing", "orphan"}
       PROVE  fresh[k] \in 1 .. issued /\ fresh[k] \notin out /\ \A m \in Names : doc[m] # fresh[k]
  BY <1>11 DEF StoreInv, Renewing
<1>12. issued \in Nat
  BY Numbers DEF TypeOK
<1>13. ASSUME NEW k \in Keys, pc[k] \in {"writing", "orphan"}, UNCHANGED issued, out' \subseteq out,
              pc'[k] = "idle", \A j \in Work \ {k} : pc'[j] = pc[j],
              doc' = [read[k] EXCEPT ![k[2]] = fresh[k]]
       PROVE  StoreInv'
  <2>1. pc[k] \in Holding /\ issued' \in Nat /\ issued <= issued' /\ k[2] \in Names
    BY <1>12, <1>13 DEF Holding
  <2>2. fresh[k] \in 1 .. issued' /\ fresh[k] \notin out' /\ \A m \in Names : doc[m] # fresh[k]
    BY <1>11, <1>13
  <2>3. doc'[k[2]] = fresh[k] /\ \A m \in Names \ {k[2]} : doc'[m] = read[k][m]
    BY <1>13, <2>1 DEF TypeOK, Documents
  <2> QED  BY <1>13, <2>1, <2>2, <2>3, Writes
<1>14. ASSUME NEW k \in Keys, Persist(k) PROVE StoreInv'
  <2>1. pc'[k] = "idle" /\ \A j \in Work \ {k} : pc'[j] = pc[j]
    BY <1>14 DEF Persist, Ends, Goes, TypeOK
  <2> QED  BY <1>13, <1>14, <2>1 DEF Persist
<1>15. ASSUME NEW k \in Keys, PersistFails(k) PROVE StoreInv'
  <2>1. pc'[k] = "idle" /\ \A j \in Work \ {k} : pc'[j] = pc[j]
    BY <1>15 DEF PersistFails, Fails, Ends, Goes, TypeOK
  <2>2. CASE UNCHANGED doc
    BY <1>0, <1>8, <1>15, <2>2 DEF PersistFails
  <2>3. CASE doc' = [read[k] EXCEPT ![k[2]] = fresh[k]]
    BY <1>8, <1>13, <1>15, <2>1, <2>3 DEF PersistFails
  <2> QED  BY <1>15, <2>2, <2>3 DEF PersistFails
<1>16. ASSUME NEW k \in Keys, PersistAlone(k) PROVE StoreInv'
  <2>1. pc'[k] = "idle" /\ \A j \in Work \ {k} : pc'[j] = pc[j]
    BY <1>16 DEF PersistAlone, Goes, TypeOK
  <2> QED  BY <1>13, <1>16, <2>1 DEF PersistAlone
<1>17. ASSUME NEW p \in Procs, BeginLogin(p) PROVE StoreInv'
  <2>1. PICK k \in Work : k = <<p, Login>> /\ k \notin Keys
    OBVIOUS
  <2>2. pc'[k] = "locking" /\ \A j \in Work \ {k} : pc'[j] = pc[j]
    BY <1>17, <2>1 DEF BeginLogin, Goes, TypeOK
  <2>3. pc[k] \notin Holding /\ pc'[k] \notin Holding
    BY <1>17, <2>1, <2>2 DEF BeginLogin, Holding
  <2>4. UNCHANGED <<doc, lock, read, fresh, issued, out>>
    BY <1>17 DEF BeginLogin
  <2> QED  BY <2>1, <2>2, <2>3, <2>4, Before
<1>18. ASSUME NEW p \in Procs, LockLogin(p) PROVE StoreInv'
  <2>1. PICK k \in Work : k = <<p, Login>> /\ k \notin Keys
    OBVIOUS
  <2>2. /\ lock = None /\ lock' = k /\ read' = [read EXCEPT ![k] = doc]
        /\ pc' = [pc EXCEPT ![k] = IF k \in Keys THEN "held" ELSE "writing"]
        /\ UNCHANGED <<doc, fresh, issued, out>>
    BY <1>18, <2>1 DEF LockLogin, Goes
  <2> QED  BY <2>1, <2>2, Takes
<1>19. ASSUME NEW p \in Procs, NEW k, k = <<p, Login>>, Goes(k, "idle"), LetsGo(k)
       PROVE  /\ pc'[k] = "idle" /\ lock' = IF lock = k THEN None ELSE lock
              /\ \A j \in Work \ {k} : pc'[j] = pc[j] /\ read'[j] = read[j]
  BY <1>19 DEF Goes, LetsGo, TypeOK
<1>20. ASSUME NEW p \in Procs, Busy(<<p, Login>>) PROVE StoreInv'
  <2>1. PICK k \in Work : k = <<p, Login>> /\ k \notin Keys
    OBVIOUS
  <2>2. Goes(k, "idle") /\ LetsGo(k) /\ UNCHANGED <<doc, fresh, issued, out>>
    BY <1>20, <2>1 DEF Busy
  <2> QED  BY <1>19, <2>1, <2>2, Leaves
<1>21. ASSUME NEW p \in Procs, NEW n \in Names, NEW a \in Accounts, SignIn(p, n, a) PROVE StoreInv'
  <2>1. PICK k \in Work : k = <<p, Login>> /\ k \notin Keys
    OBVIOUS
  <2>2. /\ Goes(k, "idle") /\ LetsGo(k) /\ pc[k] = "writing"
        /\ issued' = issued + 1 /\ UNCHANGED out
        /\ doc'[n] = issued + 1 /\ \A m \in Names \ {n} : doc'[m] \in {read[k][m], NoToken}
    BY <1>21, <2>1 DEF SignIn
  <2>3. pc[k] \in Holding /\ issued' \in Nat /\ issued <= issued'
    BY <1>12, <2>2 DEF Holding
  <2>4. issued + 1 \in 1 .. issued' /\ issued + 1 \notin out' /\ \A m \in Names : doc[m] # issued + 1
    BY <1>12, <2>2, Numbers DEF StoreInv, Issued, TypeOK, Documents
  <2>5. pc'[k] = "idle" /\ \A j \in Work \ {k} : pc'[j] = pc[j]
    BY <1>19, <2>1, <2>2
  <2> QED  BY <2>1, <2>2, <2>3, <2>4, <2>5, Writes
<1>22. ASSUME NEW p \in Procs, NEW n \in Names, SignOut(p, n) PROVE StoreInv'
  <2>1. PICK k \in Work : k = <<p, Login>> /\ k \notin Keys
    OBVIOUS
  <2>2. Goes(k, "idle") /\ LetsGo(k) /\ pc[k] = "writing" /\ UNCHANGED <<fresh, issued, out>>
    BY <1>22, <2>1 DEF SignOut
  <2>3. pc[k] \in Holding /\ issued' \in Nat /\ issued <= issued'
    BY <1>12, <2>2 DEF Holding
  <2>4. CASE UNCHANGED doc
    BY <1>19, <2>1, <2>2, <2>4, Leaves
  <2>5. CASE doc' = [m \in Names |-> IF m \in Siblings[n] THEN NoToken ELSE read[k][m]]
    <3>1. pc'[k] = "idle" /\ \A j \in Work \ {k} : pc'[j] = pc[j]
      BY <1>19, <2>1, <2>2
    <3>2. doc'[n] = NoToken /\ \A m \in Names \ {n} : doc'[m] \in {read[k][m], NoToken}
      BY <2>5 DEF Siblings
    <3> QED  BY <2>1, <2>2, <2>3, <3>1, <3>2, Writes
  <2> QED  BY <1>22, <2>1, <2>4, <2>5 DEF SignOut
<1>23. ASSUME NEW p \in Procs, Abort(p) \/ Die(p) PROVE StoreInv'
  BY <1>23, Ended
<1>24. ASSUME NEW t \in Tokens, Lapse(t) PROVE StoreInv'
  BY <1>24 DEF Lapse, StoreInv, Locked, Signing, Renewing, Issued, Gone, Current
<1>25. CASE UNCHANGED vars
  BY <1>25 DEF vars, StoreInv, Locked, Signing, Renewing, Issued, Gone, Current
<1> QED
  BY <1>1, <1>2, <1>3, <1>4, <1>5, <1>6, <1>7, <1>9, <1>10, <1>14, <1>15, <1>16, <1>17, <1>18,
     <1>20, <1>21, <1>22, <1>23, <1>24, <1>25
  DEF Next, Rotates, LogsIn
-----------------------------------------------------------------------------
LEMMA WaitedInductive == TypeOK /\ Waited /\ [Next]_vars => Waited'
<1> SUFFICES ASSUME TypeOK, Waited, [Next]_vars PROVE Waited'
  OBVIOUS
<1> USE Kinds DEF service
<1>0. ASSUME NEW k \in Keys, NEW came \in Tokens \cup {NoToken}, Ends(k, came), UNCHANGED over
      PROVE  Waited'
  <2>1. /\ pc'[k] = "idle" /\ \A j \in Work \ {k} : pc'[j] = pc[j]
        /\ \A j \in Keys \ {k} : last'[j] = last[j]
        /\ waiting' = waiting \ Waits(k)
    BY <1>0, Ending
  <2> QED  BY <1>0, <2>1 DEF Waited, Waits, TypeOK
<1>1. ASSUME NEW k \in Keys, Fails(k), UNCHANGED over PROVE Waited'
  BY <1>0, <1>1 DEF Fails
<1>2. ASSUME NEW k \in Work, pc'[k] = pc[k] \/ k \notin Keys \/ (pc[k] \notin {"idle", "orphan"}
               /\ pc'[k] \notin {"idle", "orphan"}),
             \A j \in Work \ {k} : pc'[j] = pc[j],
             waiting' \subseteq waiting, UNCHANGED <<last, over>>
      PROVE  Waited'
  BY <1>2 DEF Waited, TypeOK
<1>3. ASSUME NEW k \in Work, NEW to, Goes(k, to)
      PROVE  pc'[k] = to /\ \A j \in Work \ {k} : pc'[j] = pc[j]
  BY <1>3 DEF Goes, TypeOK
<1>4. ASSUME NEW w \in Waiters, TakeLatest(w) \/ GiveUp(w) PROVE Waited'
  BY <1>4 DEF TakeLatest, GiveUp, Waited
<1>5. ASSUME NEW w \in Waiters, Renew(w) PROVE Waited'
  <2>1. CASE pc[Home[w]] = "idle"
    <3>1. /\ pc'[Home[w]] = "waiting" /\ \A j \in Work \ {Home[w]} : pc'[j] = pc[j]
          /\ last'[Home[w]] = NoToken /\ \A j \in Keys \ {Home[w]} : last'[j] = last[j]
      BY <1>5, <2>1 DEF Renew, Goes, TypeOK
    <3> QED  BY <1>5, <3>1 DEF Renew, Waited, TypeOK
  <2>2. CASE pc[Home[w]] # "idle"
    <3>1. pc[Home[w]] # "orphan"
      BY <1>5 DEF Renew, Waited
    <3> QED  BY <1>5, <2>2, <3>1 DEF Renew, Waited
  <2> QED  BY <2>1, <2>2
<1>6. ASSUME NEW k \in Keys, TakePlace(k) PROVE Waited'
  BY <1>2, <1>3, <1>6 DEF TakePlace
<1>7. ASSUME NEW k \in Keys, TakeRotation(k) PROVE Waited'
  <2>1. CASE Fails(k)
    BY <1>1, <1>7, <2>1 DEF TakeRotation
  <2>2. CASE doc[k[2]] \in Tokens \ due /\ Ends(k, doc[k[2]])
    BY <1>0, <1>7, <2>2 DEF TakeRotation
  <2>3. CASE Goes(k, "held") /\ UNCHANGED <<place, fresh, last, own, waiting>>
    BY <1>2, <1>3, <1>7, <2>3 DEF TakeRotation
  <2> QED  BY <1>7, <2>1, <2>2, <2>3 DEF TakeRotation
<1>8. ASSUME NEW k \in Keys, Busy(k) PROVE Waited'
  BY <1>1, <1>8 DEF Busy
<1>9. ASSUME NEW k \in Keys, Present(k) PROVE Waited'
  BY <1>2, <1>3, <1>9 DEF Present
<1>10. ASSUME NEW k \in Keys, Serve(k) PROVE Waited'
  BY <1>2, <1>3, <1>10 DEF Serve
<1>11. ASSUME NEW k \in Keys, NotAnswered(k) PROVE Waited'
  BY <1>1, <1>11 DEF NotAnswered
<1>12. ASSUME NEW k \in Keys, Answered(k) PROVE Waited'
  BY <1>1, <1>2, <1>3, <1>12 DEF Answered
<1>13. ASSUME NEW k \in Keys, Persist(k) PROVE Waited'
  BY <1>0, <1>13 DEF Persist, TypeOK
<1>14. ASSUME NEW k \in Keys, PersistFails(k) PROVE Waited'
  BY <1>1, <1>14 DEF PersistFails
<1>15. ASSUME NEW k \in Keys, PersistAlone(k) PROVE Waited'
  <2>1. /\ pc[k] = "orphan" /\ pc'[k] = "idle" /\ \A j \in Work \ {k} : pc'[j] = pc[j]
        /\ UNCHANGED <<last, waiting, over>>
    BY <1>3, <1>15 DEF PersistAlone
  <2> QED  BY <2>1 DEF Waited, TypeOK
<1>16. ASSUME NEW p \in Procs, NEW k, k = <<p, Login>>, NEW to, Goes(k, to),
              UNCHANGED <<last, over, waiting>>
       PROVE  Waited'
  BY <1>2, <1>3, <1>16
<1>17. ASSUME NEW p \in Procs, BeginLogin(p) PROVE Waited'
  BY <1>16, <1>17 DEF BeginLogin
<1>18. ASSUME NEW p \in Procs, LockLogin(p) PROVE Waited'
  BY <1>16, <1>18 DEF LockLogin
<1>19. ASSUME NEW p \in Procs, Busy(<<p, Login>>) PROVE Waited'
  BY <1>16, <1>19 DEF Busy
<1>20. ASSUME NEW p \in Procs, NEW n \in Names, NEW a \in Accounts, SignIn(p, n, a) PROVE Waited'
  BY <1>16, <1>20 DEF SignIn
<1>21. ASSUME NEW p \in Procs, NEW n \in Names, SignOut(p, n) PROVE Waited'
  BY <1>16, <1>21 DEF SignOut
<1>22. ASSUME NEW p \in Procs, Abort(p) PROVE Waited'
  <2>1. \A j \in Keys : \/ pc'[j] = pc[j]
                        \/ j[1] = p /\ pc'[j] \in {"idle", "orphan"}
    BY <1>22 DEF Abort, Of
  <2>2. UNCHANGED last /\ Closes(p)
    BY <1>22 DEF Abort
  <2> QED  BY <2>1, <2>2 DEF Waited, Closes, TypeOK
<1>23. ASSUME NEW p \in Procs, Die(p) PROVE Waited'
  <2>1. \A j \in Keys : pc'[j] = pc[j] \/ (j[1] = p /\ pc'[j] = "idle")
    BY <1>23 DEF Die, Of
  <2>2. UNCHANGED last /\ Closes(p)
    BY <1>23 DEF Die
  <2> QED  BY <2>1, <2>2 DEF Waited, Closes, TypeOK
<1>24. ASSUME NEW t \in Tokens, Lapse(t) PROVE Waited'
  BY <1>24 DEF Lapse, Waited
<1>25. CASE UNCHANGED vars
  BY <1>25 DEF vars, Waited
<1> QED
  BY <1>4, <1>5, <1>6, <1>7, <1>8, <1>9, <1>10, <1>11, <1>12, <1>13, <1>14, <1>15, <1>17, <1>18,
     <1>19, <1>20, <1>21, <1>22, <1>23, <1>24, <1>25
  DEF Next, Rotates, LogsIn

(* Whatever is reached, the three parts of the invariant hold of it. *)
THEOREM Reached == Spec => []IInv
<1>1. Init => IInv
  BY TypeInit, StoreInit, WaitedInit DEF IInv
<1>2. IInv /\ [Next]_vars => IInv'
  BY TypeInductive, StoreInductive, WaitedInductive DEF IInv
<1> QED  BY <1>1, <1>2, PTL DEF Spec

(* The store, the lock and what each credential keeps are always of their
   types: no rotation writes but what it was answered with. *)
THEOREM TypeCorrect == Spec => []TypeOK
<1>1. IInv => TypeOK
  BY DEF IInv
<1> QED  BY <1>1, Reached, PTL

(* A token is presented by one request at a time, and never again once the
   store has what replaced it: what is presented and has not come to nothing is
   what the one rotation past the lock renews, or is not in the store. *)
THEOREM TokensPresentedOnce == Spec => PresentedOnce
<1>1. IInv /\ [Next]_vars =>
        [\A k \in Keys : pc[k] = "held" /\ pc'[k] = "asked" => Current(k) \notin out]_vars
  <2> SUFFICES ASSUME IInv, NEW k \in Keys, pc[k] = "held"
               PROVE  Current(k) \notin out
    OBVIOUS
  <2>1. k \in Work /\ pc[k] \in Holding
    BY Kinds DEF Holding
  <2>2. read[k] = doc /\ \A j \in Keys : pc[j] \notin Presented
    BY <2>1, Alone, Kinds DEF IInv, StoreInv, Locked, Presented
  <2>3. Current(k) = doc[k[2]] /\ k[2] \in Names
    BY <2>2, Kinds DEF Current
  <2> QED  BY <2>2, <2>3 DEF IInv, StoreInv, Gone
<1> QED  BY <1>1, Reached, PTL DEF Spec, PresentedOnce

(* Whoever writes changes what the store holds of one provider, and a rotation
   only the one name it renews, while it is what was presented; nor does a
   provider that had one account come to have two. *)
THEOREM WritesKeepOthers == Spec => ChangesItsOwn
<1> DEFINE Own == \A n, m \in Names :
               /\ doc'[n] # doc[n] =>
                    /\ m \notin Siblings[n] => doc'[m] = doc[m]
                    /\ \A k \in Keys : lock = k =>
                         n = k[2] /\ doc[n] = Current(k) /\ (m # n => doc'[m] = doc[m])
               /\ m \in Siblings[n] \ {n} /\ NoToken \notin {doc'[n], doc'[m]} =>
                    NoToken \notin {doc[n], doc[m]}
<1>1. ASSUME NEW n \in Names PROVE n \in Siblings[n] /\ Siblings[n] \subseteq Names
  BY <1>1 DEF Siblings
<1>2. ASSUME NEW n \in Names, NEW m \in Siblings[n]
      PROVE  \A l \in Names : l \in Siblings[m] <=> l \in Siblings[n]
  BY <1>2 DEF Siblings
\* A rotation writes the one name it renews.
<1>3. ASSUME IInv, NEW k \in Keys, pc[k] \in Holding, doc' = [read[k] EXCEPT ![k[2]] = fresh[k]]
      PROVE  Own
  <2>1. lock = k /\ read[k] = doc /\ k[2] \in Names /\ Current(k) # NoToken
    BY <1>3, Kinds DEF IInv, StoreInv, Locked, Renewing
  <2>2. \A m \in Names \ {k[2]} : doc'[m] = doc[m]
    BY <1>3, <2>1 DEF IInv, TypeOK, Documents
  <2>3. doc[k[2]] = Current(k)
    BY <2>1 DEF Current
  <2> QED  BY <1>1, <2>1, <2>2, <2>3
\* A sign-in or a sign-out leaves the provider of the name `n` nothing but what
\* it puts under that name, and the others what they have.
<1>4. ASSUME IInv, NEW k \in Work \ Keys, pc[k] \in Holding, NEW n \in Names,
             \A m \in Names \ Siblings[n] : doc'[m] = read[k][m],
             \A m \in Siblings[n] \ {n} : doc'[m] = NoToken
      PROVE  Own
  <2>1. lock = k /\ read[k] = doc
    BY <1>4 DEF IInv, StoreInv, Locked
  <2>2. \A m \in Names : doc'[m] # doc[m] => m \in Siblings[n]
    BY <1>4, <2>1
  <2>3. ASSUME NEW m \in Names, NEW l \in Names, doc'[m] # doc[m], l \notin Siblings[m]
        PROVE  doc'[l] = doc[l]
    BY <1>2, <2>2, <2>3
  <2>4. ASSUME NEW m \in Names, NEW l \in Siblings[m] \ {m}, NoToken \notin {doc'[m], doc'[l]}
        PROVE  NoToken \notin {doc[m], doc[l]}
    <3>1. l \in Names /\ m \in Siblings[l]
      BY <1>1, <1>2, <2>4
    <3>2. m \notin Siblings[n]
      BY <1>1, <1>2, <1>4, <2>4, <3>1
    <3>3. l \notin Siblings[n]
      BY <1>1, <1>2, <3>1, <3>2
    <3> QED  BY <2>2, <2>4, <3>1, <3>2, <3>3
  <2> QED  BY <2>1, <2>3, <2>4
<1>5. IInv /\ [Next]_vars => [Own]_doc
  <2> SUFFICES ASSUME IInv, [Next]_vars PROVE doc' = doc \/ Own
    OBVIOUS
  <2> USE Kinds DEF Holding
  <2> HIDE DEF Own
  <2>1. ASSUME NEW k \in Keys, Rotates(k) PROVE doc' = doc \/ Own
    <3>1. CASE Persist(k) \/ PersistFails(k) \/ PersistAlone(k)
      BY <1>3, <3>1 DEF Persist, PersistFails, PersistAlone
    <3>2. CASE TakePlace(k) \/ TakeRotation(k) \/ Busy(k) \/ Present(k)
               \/ Serve(k) \/ NotAnswered(k) \/ Answered(k)
      BY <3>2 DEF TakePlace, TakeRotation, Busy, Present, Serve, NotAnswered, Answered
    <3> QED  BY <2>1, <3>1, <3>2 DEF Rotates
  <2>2. ASSUME NEW p \in Procs, LogsIn(p) PROVE doc' = doc \/ Own
    <3>1. PICK k \in Work \ Keys : k = <<p, Login>>
      OBVIOUS
    <3>2. ASSUME NEW n \in Names, (\E a \in Accounts : SignIn(p, n, a)) \/ SignOut(p, n)
          PROVE  doc' = doc \/ Own
      <4>1. pc[k] \in Holding
        BY <3>1, <3>2 DEF SignIn, SignOut
      <4>2. \/ doc' = doc
            \/ /\ \A m \in Names \ Siblings[n] : doc'[m] = read[k][m]
               /\ \A m \in Siblings[n] \ {n} : doc'[m] = NoToken
        BY <1>1, <3>1, <3>2 DEF SignIn, SignOut
      <4> QED  BY <1>4, <4>1, <4>2
    <3>3. CASE LockLogin(p) \/ Busy(<<p, Login>>)
      BY <3>3 DEF LockLogin, Busy
    <3> QED  BY <2>2, <3>2, <3>3 DEF LogsIn
  <2>3. ASSUME NEW w \in Waiters, TakeLatest(w) \/ Renew(w) \/ GiveUp(w) PROVE doc' = doc
    BY <2>3 DEF TakeLatest, Renew, GiveUp
  <2>4. ASSUME NEW p \in Procs, BeginLogin(p) \/ Abort(p) \/ Die(p) PROVE doc' = doc
    BY <2>4 DEF BeginLogin, Abort, Die
  <2>5. ASSUME NEW t \in Tokens, Lapse(t) PROVE doc' = doc
    BY <2>5 DEF Lapse
  <2>6. CASE UNCHANGED vars
    BY <2>6 DEF vars
  <2> QED  BY <2>1, <2>2, <2>3, <2>4, <2>5, <2>6 DEF Next
<1> QED  BY <1>5, Reached, PTL DEF Spec, ChangesItsOwn

(* Nobody is left waiting for a rotation that is no more. *)
THEOREM NoneForgotten == Spec => []NobodyIsForgotten
<1>1. IInv => NobodyIsForgotten
  BY Kinds DEF IInv, TypeOK, Waited, NobodyIsForgotten
<1> QED  BY <1>1, Reached, PTL
=============================================================================
