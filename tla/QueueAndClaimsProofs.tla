------------------------ MODULE QueueAndClaimsProofs ------------------------
(***************************************************************************)
(* Theorems about LogQueue, for any number of senders, any queue length    *)
(* and any number of lines, with a writer that may come apart; and about   *)
(* SessionClaims, for any runs, names and size of the index.  The two have *)
(* nothing of each other's: one is how a line gets to a session's writer,  *)
(* the other whose the session is.                                         *)
(***************************************************************************)
EXTENDS LogQueue, SessionClaims, FiniteSetTheorems, TLAPS


\* What concatenation and Append do to the elements of a sequence.
LEMMA ElementsConcat ==
    ASSUME NEW T, NEW a \in Seq(T), NEW b \in Seq(T)
    PROVE  Elements(a \o b) = Elements(a) \union Elements(b)
<1>1. Elements(a \o b) \subseteq Elements(a) \union Elements(b)
  <2> SUFFICES ASSUME NEW i \in DOMAIN (a \o b)
               PROVE  (a \o b)[i] \in Elements(a) \union Elements(b)
    BY DEF Elements
  <2>1. CASE i <= Len(a)
    BY <2>1 DEF Elements
  <2>2. CASE i > Len(a)
    <3>1. i - Len(a) \in DOMAIN b /\ (a \o b)[i] = b[i - Len(a)]
      BY <2>2
    <3> QED  BY <3>1 DEF Elements
  <2> QED  BY <2>1, <2>2
<1>2. ASSUME NEW i \in DOMAIN a PROVE a[i] \in Elements(a \o b)
  <2>1. i \in DOMAIN (a \o b) /\ (a \o b)[i] = a[i]
    OBVIOUS
  <2> QED  BY <2>1 DEF Elements
<1>3. ASSUME NEW i \in DOMAIN b PROVE b[i] \in Elements(a \o b)
  <2>1. i + Len(a) \in DOMAIN (a \o b) /\ (a \o b)[i + Len(a)] = b[i]
    OBVIOUS
  <2> QED  BY <2>1 DEF Elements
<1> QED  BY <1>1, <1>2, <1>3 DEF Elements

---------------------------------------------------------------------------
\* The type invariant holds at the start.
LEMMA TypeInit == Init => TypeOK
<1> SUFFICES ASSUME Init PROVE TypeOK
  OBVIOUS
<1>1. at \in [Senders -> Places] /\ count \in [Senders -> 0..MaxLines]
      /\ heard \in [Senders -> {"unborn", "listening", "notified"}]
  BY MaxLinesAssumption DEF Init, Places
<1>2. <<>> \in Seq(Senders \X Nat) /\ Len(<<>>) = 0
  OBVIOUS
<1>3. /\ queue \in Seq(Senders \X Nat) /\ Len(queue) <= QueueLen
      /\ inhand \in Seq(Senders \X Nat) /\ Len(inhand) <= 1
      /\ landed \in Seq(Senders \X Nat)
  BY <1>2, QueueLenAssumption DEF Init
<1> QED  BY <1>1, <1>3 DEF Init, TypeOK

\* The type invariant, action by action.
LEMMA TypeInductive == TypeOK /\ [Next]_vars => TypeOK'
<1> SUFFICES ASSUME TypeOK, [Next]_vars PROVE TypeOK'
  OBVIOUS
<1> USE DEF TypeOK, Places
<1>1. ASSUME NEW s \in Senders, Begin(s) PROVE TypeOK'
  BY <1>1, MaxLinesAssumption DEF Begin, wvars
<1>2. ASSUME NEW s \in Senders, Send(s) PROVE TypeOK'
  <2>1. count' \in [Senders -> 0..MaxLines] /\ <<s, count'[s]>> \in Senders \X Nat
    BY <1>2, MaxLinesAssumption DEF Send
  <2>2. queue' \in Seq(Senders \X Nat) /\ Len(queue') <= QueueLen
    BY <1>2, <2>1, QueueLenAssumption DEF Send, Full
  <2> QED  BY <1>2, <2>1, <2>2 DEF Send, wvars
<1>3. ASSUME NEW s \in Senders PROVE Request(s) \in Senders \X Nat
  BY MaxLinesAssumption DEF Request
<1>4. ASSUME NEW s \in Senders, Sender(s) PROVE TypeOK'
  <2>1. CASE Listen(s)
    BY <2>1 DEF Listen, wvars
  <2>2. CASE Offered(s)
    <3>1. queue' \in Seq(Senders \X Nat) /\ Len(queue') <= QueueLen
      BY <2>2, <1>3, QueueLenAssumption DEF Offered, Full
    <3> QED  BY <2>2, <3>1 DEF Offered, wvars
  <2>3. CASE NoRoom(s) \/ Park(s)
    BY <2>3 DEF NoRoom, Park, wvars
  <2>4. CASE Disconnected(s)
    BY <2>4, <1>3 DEF Disconnected, wvars
  <2>5. CASE Woken(s)
    BY <2>5 DEF Woken, wvars
  <2>6. CASE Told(s)
    BY <2>6, <1>3 DEF Told, wvars
  <2>7. CASE Unacknowledged(s)
    BY <2>7, <1>3 DEF Unacknowledged, wvars
  <2> QED  BY <1>4, <2>1, <2>2, <2>3, <2>4, <2>5, <2>6, <2>7 DEF Sender
<1>5. CASE Writer
  <2>1. CASE Take
    <3>1. Head(queue) \in Senders \X Nat /\ Tail(queue) \in Seq(Senders \X Nat)
          /\ Len(Tail(queue)) <= QueueLen
      BY <2>1, QueueLenAssumption DEF Take
    <3> QED  BY <2>1, <3>1 DEF Take, svars
  <2>2. CASE TellRoom
    BY <2>2 DEF TellRoom, Notified
  <2>3. CASE Answer
    <3>1. Elements(inhand) \subseteq Senders \X Nat
      BY DEF Elements
    <3>2. landed \o inhand \in Seq(Senders \X Nat)
      OBVIOUS
    <3>3. inhand' \in Seq(Senders \X Nat) /\ Len(inhand') <= 1
      BY <2>3 DEF Answer
    <3> QED  BY <2>3, <3>1, <3>2, <3>3 DEF Answer, svars
  <2>4. CASE Close
    <3>1. queue' \in Seq(Senders \X Nat) /\ Len(queue') <= QueueLen
      BY <2>4, QueueLenAssumption, <<>> \in Seq(Senders \X Nat), Len(<<>>) = 0 DEF Close
    <3> QED  BY <2>4, <3>1 DEF Close, svars
  <2>5. CASE TellClosed
    BY <2>5 DEF TellClosed, Notified
  <2> QED  BY <1>5, <2>1, <2>2, <2>3, <2>4, <2>5 DEF Writer
<1>6. CASE Die
  <2>0. landed \o inhand \in Seq(Senders \X Nat)
    OBVIOUS
  <2>1. landed' \in Seq(Senders \X Nat)
    BY <1>6, <2>0 DEF Die
  <2>2. inhand' \in Seq(Senders \X Nat) /\ Len(inhand') <= 1
    BY <1>6, <<>> \in Seq(Senders \X Nat), Len(<<>>) = 0 DEF Die
  <2> QED  BY <1>6, <2>1, <2>2 DEF Die, svars
<1>7. CASE UNCHANGED vars
  BY <1>7 DEF vars, wvars, svars
<1> QED  BY <1>1, <1>2, <1>4, <1>5, <1>6, <1>7 DEF Next

\* Type correctness: every variable stays what it is declared to be, and the
\* queue never holds more than QUEUE requests.
THEOREM TypeCorrect == Spec => []TypeOK
BY TypeInit, TypeInductive, PTL DEF Spec

---------------------------------------------------------------------------
(***************************************************************************)
(* No lost notice of room.  That a parked sender is owed one is inductive  *)
(* once it is known that it has been listening since before its offer and  *)
(* that the queue is open exactly until the writer closes it.              *)
(***************************************************************************)
Listened == \A s \in Senders : at[s] \in {"offering", "refused", "parked"} => heard[s] # "unborn"
OpenUntilClosed == open <=> writer \notin {"closed", "gone"}
NoticeInv == TypeOK /\ Listened /\ OpenUntilClosed /\ ParkedIsOwedANotice

LEMMA NoticeInductive == NoticeInv /\ [Next]_vars => NoticeInv'
<1> SUFFICES ASSUME NoticeInv, [Next]_vars PROVE NoticeInv'
  OBVIOUS
<1>0. TypeOK /\ TypeOK'
  BY TypeInductive DEF NoticeInv
<1> USE DEF NoticeInv, Listened, OpenUntilClosed, ParkedIsOwedANotice
<1>1. ASSUME NEW s \in Senders, Begin(s) PROVE NoticeInv'
  BY <1>0, <1>1 DEF Begin, wvars, TypeOK, Full
<1>2. ASSUME NEW s \in Senders, Send(s) PROVE NoticeInv'
  <2>1. Full => Full'
    BY <1>0, <1>2, QueueLenAssumption DEF Send, Full, TypeOK
  <2> QED  BY <1>0, <1>2, <2>1 DEF Send, wvars
<1>3. ASSUME NEW s \in Senders, Sender(s) PROVE NoticeInv'
  <2>1. CASE Listen(s)
    BY <1>0, <2>1 DEF Listen, wvars, TypeOK, Full
  <2>2. CASE Offered(s)
    <3>1. ~Full
      BY <2>2 DEF Offered
    <3>2. /\ \A r \in Senders : at'[r] = "parked" => at[r] = "parked"
          /\ \A r \in Senders : at'[r] = "refused" => at[r] = "refused"
          /\ \A r \in Senders : at'[r] = "offering" => at[r] = "offering"
      BY <1>0, <2>2 DEF Offered, TypeOK
    <3>3. writer' = writer /\ open' = open /\ heard' = heard
      BY <2>2 DEF Offered, wvars
    <3>4. Listened' /\ OpenUntilClosed'
      BY <3>2, <3>3
    <3>5. ParkedIsOwedANotice'
      BY <3>1, <3>2, <3>3
    <3> QED  BY <1>0, <3>4, <3>5
  <2>3. CASE NoRoom(s)
    BY <1>0, <2>3 DEF NoRoom, wvars, TypeOK, Full
  <2>8. CASE Park(s)
    BY <1>0, <2>8 DEF Park, wvars, TypeOK, Full
  <2>4. CASE Disconnected(s)
    BY <1>0, <2>4 DEF Disconnected, wvars, TypeOK, Full
  <2>5. CASE Woken(s)
    BY <1>0, <2>5 DEF Woken, wvars, TypeOK, Full
  <2>6. CASE Told(s)
    BY <1>0, <2>6 DEF Told, wvars, TypeOK, Full
  <2>7. CASE Unacknowledged(s)
    BY <1>0, <2>7 DEF Unacknowledged, wvars, TypeOK, Full
  <2> QED  BY <1>3, <2>1, <2>2, <2>3, <2>4, <2>5, <2>6, <2>7, <2>8 DEF Sender
<1>4. CASE Writer
  <2>1. CASE Take
    BY <1>0, <2>1 DEF Take, svars
  <2>2. CASE TellRoom
    BY <1>0, <2>2 DEF TellRoom, Notified, TypeOK, Full
  <2>3. CASE Answer
    BY <1>0, <2>3 DEF Answer, svars, Full
  <2>4. CASE Close
    BY <1>0, <2>4 DEF Close, svars
  <2>5. CASE TellClosed
    BY <1>0, <2>5 DEF TellClosed, Notified, TypeOK, Full
  <2> QED  BY <1>4, <2>1, <2>2, <2>3, <2>4, <2>5 DEF Writer
<1>5. CASE Die
  BY <1>0, <1>5 DEF Die, svars
<1>6. CASE UNCHANGED vars
  BY <1>0, <1>6 DEF vars, wvars, svars, Full
<1> QED  BY <1>1, <1>2, <1>3, <1>4, <1>5, <1>6 DEF Next

\* A sender parked for room is always owed a notice, so none waits for a
\* line nobody will take (session.rs:1102, log.rs:66).
THEOREM NoLostNotice == Spec => []ParkedIsOwedANotice
<1>1. Init => TypeOK
  BY TypeInit
<1>2. Init => NoticeInv
  BY <1>1 DEF Init, NoticeInv, Listened, OpenUntilClosed, ParkedIsOwedANotice
<1>3. NoticeInv => ParkedIsOwedANotice
  BY DEF NoticeInv
<1> QED  BY <1>2, <1>3, NoticeInductive, PTL DEF Spec

---------------------------------------------------------------------------
(***************************************************************************)
(* An answer is only given for a line that landed, so a sender that comes  *)
(* back without one has left the trouble set.                              *)
(***************************************************************************)
AnsweredLanded == answered \subseteq Elements(landed)
AnswerInv == TypeOK /\ AnsweredLanded /\ ReturnedIsLandedOrTrouble

LEMMA AnswerInductive == AnswerInv /\ [Next]_vars => AnswerInv'
<1> SUFFICES ASSUME AnswerInv, [Next]_vars PROVE AnswerInv'
  OBVIOUS
<1>0. TypeOK /\ TypeOK'
  BY TypeInductive DEF AnswerInv
<1> USE DEF AnswerInv, AnsweredLanded, ReturnedIsLandedOrTrouble
<1>1. ASSUME UNCHANGED <<answered, returned, landed, trouble>> PROVE AnswerInv'
  BY <1>0, <1>1 DEF Elements
<1>2. Elements(landed \o inhand) = Elements(landed) \union Elements(inhand)
  BY <1>0, ElementsConcat DEF TypeOK
<1>3. ASSUME NEW s \in Senders, Sender(s) PROVE AnswerInv'
  <2>1. CASE Disconnected(s)
    BY <1>0, <2>1 DEF Disconnected, Elements
  <2>2. CASE Told(s)
    BY <1>0, <2>2 DEF Told, Elements
  <2>3. CASE Unacknowledged(s)
    BY <1>0, <2>3 DEF Unacknowledged, Elements
  <2> QED  BY <1>1, <1>3, <2>1, <2>2, <2>3 DEF Sender, Listen, Offered, NoRoom, Park, Woken
<1>4. CASE Answer
  BY <1>0, <1>2, <1>4 DEF Answer
<1>5. CASE Die
  BY <1>0, <1>2, <1>5 DEF Die
<1>6. CASE UNCHANGED vars
  BY <1>1, <1>6 DEF vars
<1> QED
  BY <1>1, <1>3, <1>4, <1>5, <1>6
  DEF Next, Begin, Send, Writer, Take, TellRoom, Close, TellClosed

\* Whoever waited for a line and came back has it in the log, or the session
\* has kept a trouble (session.rs:1083).
THEOREM NoSilentLoss == Spec => []ReturnedIsLandedOrTrouble
<1>1. Init => AnswerInv
  BY TypeInit DEF Init, AnswerInv, AnsweredLanded, ReturnedIsLandedOrTrouble
<1>2. AnswerInv => ReturnedIsLandedOrTrouble
  BY DEF AnswerInv
<1> QED  BY <1>1, <1>2, AnswerInductive, PTL DEF Spec

---------------------------------------------------------------------------
(***************************************************************************)
(* The lines of one sender stay in their order: what landed, what the      *)
(* writer holds and what is queued come after one another, and a line that *)
(* is not queued yet is later than all of them.                            *)
(***************************************************************************)
Sorted(list) ==
    \A i, j \in DOMAIN list :
        i < j /\ list[i][1] = list[j][1] => list[i][2] < list[j][2]
Before(A, B) == \A a \in A, b \in B : a[1] = b[1] => a[2] < b[2]

Begun ==
    \A e \in Elements(landed) \union Elements(inhand) \union Elements(queue) :
        /\ e[2] <= count[e[1]]
        /\ at[e[1]] \in {"listening", "offering", "refused", "parked"} => e[2] < count[e[1]]
Ordered ==
    /\ Sorted(landed) /\ Sorted(inhand) /\ Sorted(queue)
    /\ Before(Elements(landed), Elements(inhand))
    /\ Before(Elements(landed), Elements(queue))
    /\ Before(Elements(inhand), Elements(queue))
OrderInv == Begun /\ Ordered

LEMMA SortedConcat ==
    ASSUME NEW T, NEW a \in Seq(T), NEW b \in Seq(T), Sorted(a), Sorted(b),
           Before(Elements(a), Elements(b))
    PROVE  Sorted(a \o b)
<1> SUFFICES ASSUME NEW i \in DOMAIN (a \o b), NEW j \in DOMAIN (a \o b), i < j,
                    (a \o b)[i][1] = (a \o b)[j][1]
             PROVE  (a \o b)[i][2] < (a \o b)[j][2]
  BY DEF Sorted
<1>1. /\ \A k \in DOMAIN (a \o b) : k <= Len(a) => k \in DOMAIN a /\ (a \o b)[k] = a[k]
      /\ \A k \in DOMAIN (a \o b) :
            k > Len(a) => k - Len(a) \in DOMAIN b /\ (a \o b)[k] = b[k - Len(a)]
  OBVIOUS
<1>2. i \in Nat /\ j \in Nat /\ Len(a) \in Nat
  OBVIOUS
<1>3. CASE j <= Len(a)
  <2>1. i <= Len(a)
    BY <1>2, <1>3
  <2> QED  BY <1>1, <1>3, <2>1 DEF Sorted
<1>4. CASE i <= Len(a) /\ j > Len(a)
  <2>1. (a \o b)[i] \in Elements(a) /\ (a \o b)[j] \in Elements(b)
    BY <1>1, <1>4 DEF Elements
  <2> QED  BY <2>1 DEF Before
<1>5. CASE i > Len(a)
  <2>1. j > Len(a) /\ i - Len(a) < j - Len(a)
    BY <1>2, <1>5
  <2> QED  BY <1>1, <1>5, <2>1 DEF Sorted
<1> QED  BY <1>2, <1>3, <1>4, <1>5

LEMMA SingleElement ==
    ASSUME NEW T, NEW e \in T
    PROVE  <<e>> \in Seq(T) /\ Elements(<<e>>) = {e} /\ Sorted(<<e>>)
<1>1. <<e>> \in Seq(T) /\ DOMAIN <<e>> = {1} /\ <<e>>[1] = e
  OBVIOUS
<1>2. Elements(<<e>>) = {e}
  BY <1>1 DEF Elements
<1>3. Sorted(<<e>>)
  BY <1>1 DEF Sorted
<1> QED  BY <1>1, <1>2, <1>3

LEMMA NoElement == Elements(<<>>) = {} /\ Sorted(<<>>)
<1>1. DOMAIN <<>> = {}
  OBVIOUS
<1> QED  BY <1>1 DEF Elements, Sorted

LEMMA AppendElements ==
    ASSUME NEW T, NEW s \in Seq(T), NEW e \in T
    PROVE  /\ Elements(Append(s, e)) = Elements(s) \union {e}
           /\ Sorted(s) /\ Before(Elements(s), {e}) => Sorted(Append(s, e))
<1> DEFINE one == <<e>>
<1>1. Append(s, e) = s \o one
  OBVIOUS
<1>2. one \in Seq(T) /\ Elements(one) = {e} /\ Sorted(one)
  BY SingleElement
<1> HIDE DEF one
<1>3. Elements(s \o one) = Elements(s) \union {e}
  BY <1>2, ElementsConcat
<1>4. Sorted(s) /\ Before(Elements(s), {e}) => Sorted(s \o one)
  BY <1>2, SortedConcat
<1> QED  BY <1>1, <1>3, <1>4

LEMMA TakenElements ==
    ASSUME NEW T, NEW s \in Seq(T), s # <<>>, Sorted(s)
    PROVE  /\ Head(s) \in Elements(s) /\ Elements(Tail(s)) \subseteq Elements(s)
           /\ Sorted(Tail(s)) /\ Before({Head(s)}, Elements(Tail(s)))
<1>1. /\ 1 \in DOMAIN s /\ Head(s) = s[1]
      /\ \A i \in DOMAIN Tail(s) :
            i \in Nat /\ i + 1 \in DOMAIN s /\ 1 < i + 1 /\ Tail(s)[i] = s[i + 1]
  OBVIOUS
<1>2. Head(s) \in Elements(s) /\ Elements(Tail(s)) \subseteq Elements(s)
  BY <1>1 DEF Elements
<1>3. Sorted(Tail(s))
  <2> SUFFICES ASSUME NEW i \in DOMAIN Tail(s), NEW j \in DOMAIN Tail(s), i < j,
                      Tail(s)[i][1] = Tail(s)[j][1]
               PROVE  Tail(s)[i][2] < Tail(s)[j][2]
    BY DEF Sorted
  <2>1. i + 1 < j + 1
    BY <1>1
  <2> QED  BY <1>1, <2>1 DEF Sorted
<1>4. Before({Head(s)}, Elements(Tail(s)))
  <2> SUFFICES ASSUME NEW j \in DOMAIN Tail(s), s[1][1] = Tail(s)[j][1]
               PROVE  s[1][2] < Tail(s)[j][2]
    BY <1>1 DEF Before, Elements
  <2> QED  BY <1>1 DEF Sorted
<1> QED  BY <1>2, <1>3, <1>4

\* A line that joins the queue is later than all its sender has written.
LEMMA JoinsInOrder ==
    ASSUME TypeOK, OrderInv, NEW s \in Senders, NEW n \in Nat,
           \A e \in Elements(landed) \union Elements(inhand) \union Elements(queue) :
               e[1] = s => e[2] < n,
           queue' = Append(queue, <<s, n>>), UNCHANGED <<landed, inhand>>
    PROVE  Ordered' /\ Elements(queue') = Elements(queue) \union {<<s, n>>}
<1> DEFINE line == <<s, n>>
<1>1. line \in Senders \X Nat /\ queue \in Seq(Senders \X Nat)
  BY DEF TypeOK
<1>0. line[1] = s /\ line[2] = n /\ queue' = Append(queue, line)
  OBVIOUS
<1> HIDE DEF line
<1>2. /\ Before(Elements(landed), {line}) /\ Before(Elements(inhand), {line})
      /\ Before(Elements(queue), {line})
  BY <1>0 DEF Before
<1>3. /\ Elements(Append(queue, line)) = Elements(queue) \union {line}
      /\ Sorted(Append(queue, line))
  <2> DEFINE Requests == Senders \X Nat
  <2>1. line \in Requests /\ queue \in Seq(Requests) /\ Sorted(queue)
    BY <1>1 DEF OrderInv, Ordered
  <2> HIDE DEF Requests
  <2> QED  BY <1>2, <2>1, AppendElements
<1>4. /\ Before(Elements(landed), Elements(queue) \union {line})
      /\ Before(Elements(inhand), Elements(queue) \union {line})
  BY <1>2 DEF OrderInv, Ordered, Before
<1>5. Ordered'
  BY <1>0, <1>3, <1>4 DEF OrderInv, Ordered
<1> QED  BY <1>0, <1>3, <1>5 DEF line

LEMMA OrderInductive == TypeOK /\ OrderInv /\ [Next]_vars => OrderInv'
<1> SUFFICES ASSUME TypeOK, OrderInv, [Next]_vars PROVE OrderInv'
  OBVIOUS
<1> DEFINE written == Elements(landed) \union Elements(inhand) \union Elements(queue)
           Unsent == {"listening", "offering", "refused", "parked"}
<1>1. /\ queue \in Seq(Senders \X Nat) /\ inhand \in Seq(Senders \X Nat)
      /\ landed \in Seq(Senders \X Nat)
      /\ at \in [Senders -> Places] /\ count \in [Senders -> Nat]
  BY MaxLinesAssumption DEF TypeOK
<1>2. \A e \in written : e[1] \in Senders /\ e[2] \in Nat
  BY <1>1 DEF Elements
<1>3. \A e \in written : e[2] <= count[e[1]] /\ (at[e[1]] \in Unsent => e[2] < count[e[1]])
  BY DEF OrderInv, Begun
<1>4. ASSUME UNCHANGED <<queue, inhand, landed, count>>,
             \A s \in Senders : at'[s] \in Unsent => at[s] \in Unsent
      PROVE  OrderInv'
  <2>1. Ordered'
    BY <1>4 DEF OrderInv, Ordered
  <2>2. Begun'
    BY <1>2, <1>3, <1>4 DEF Begun
  <2> QED  BY <2>1, <2>2 DEF OrderInv
<1>5. ASSUME NEW s \in Senders, Begin(s) PROVE OrderInv'
  <2>1. /\ UNCHANGED <<queue, inhand, landed>> /\ count'[s] = count[s] + 1
        /\ \A r \in Senders \ {s} : count'[r] = count[r] /\ at'[r] = at[r]
    BY <1>1, <1>5 DEF Begin, wvars
  <2>2. Ordered'
    BY <2>1 DEF OrderInv, Ordered
  <2>3. ASSUME NEW e \in written
        PROVE  e[2] <= count'[e[1]] /\ (at'[e[1]] \in Unsent => e[2] < count'[e[1]])
    <3>1. CASE e[1] = s
      BY <1>1, <1>2, <1>3, <2>1, <3>1
    <3>2. CASE e[1] # s
      BY <1>2, <1>3, <2>1, <3>2
    <3> QED  BY <3>1, <3>2
  <2>4. Begun'
    BY <2>1, <2>3 DEF Begun
  <2> QED  BY <2>2, <2>4 DEF OrderInv
<1>6. ASSUME NEW s \in Senders, Send(s) PROVE OrderInv'
  <2>1. /\ UNCHANGED <<inhand, landed, at>> /\ count'[s] = count[s] + 1 /\ at[s] = "idle"
        /\ \A r \in Senders \ {s} : count'[r] = count[r]
        /\ queue' = IF open THEN Append(queue, <<s, count'[s]>>) ELSE queue
    BY <1>1, <1>6 DEF Send, wvars
  <2>2. count'[s] \in Nat /\ \A e \in written : e[1] = s => e[2] < count'[s]
    BY <1>1, <1>2, <1>3, <2>1
  <2>3. Ordered' /\ Elements(queue') \subseteq Elements(queue) \union {<<s, count'[s]>>}
    <3>1. CASE open
      BY <2>1, <2>2, <3>1, JoinsInOrder
    <3>2. CASE ~open
      BY <2>1, <3>2 DEF OrderInv, Ordered
    <3> QED  BY <3>1, <3>2
  <2>4. ASSUME NEW e \in written
        PROVE  e[2] <= count'[e[1]] /\ (at[e[1]] \in Unsent => e[2] < count'[e[1]])
    <3>1. CASE e[1] = s
      BY <1>1, <1>2, <1>3, <2>1, <3>1
    <3>2. CASE e[1] # s
      BY <1>2, <1>3, <2>1, <3>2
    <3> QED  BY <3>1, <3>2
  <2>5. /\ <<s, count'[s]>>[2] <= count'[<<s, count'[s]>>[1]]
        /\ at[<<s, count'[s]>>[1]] \notin Unsent
    BY <2>1, <2>2
  <2>6. Begun'
    BY <2>1, <2>3, <2>4, <2>5 DEF Begun
  <2> QED  BY <2>3, <2>6 DEF OrderInv
<1>7. ASSUME NEW s \in Senders, Offered(s) PROVE OrderInv'
  <2>1. /\ UNCHANGED <<inhand, landed, count>> /\ at[s] = "offering" /\ at'[s] = "waiting"
        /\ \A r \in Senders \ {s} : at'[r] = at[r]
        /\ queue' = Append(queue, <<s, count[s]>>)
    BY <1>1, <1>7 DEF Offered, wvars, Request
  <2>2. count[s] \in Nat /\ \A e \in written : e[1] = s => e[2] < count[s]
    BY <1>1, <1>3, <2>1
  <2>3. Ordered' /\ Elements(queue') = Elements(queue) \union {<<s, count[s]>>}
    BY <2>1, <2>2, JoinsInOrder
  <2>4. ASSUME NEW e \in written
        PROVE  e[2] <= count[e[1]] /\ (at'[e[1]] \in Unsent => e[2] < count[e[1]])
    BY <1>2, <1>3, <2>1
  <2>5. /\ <<s, count[s]>>[2] <= count[<<s, count[s]>>[1]]
        /\ at'[<<s, count[s]>>[1]] \notin Unsent
    BY <2>1, <2>2
  <2>6. Begun'
    BY <2>1, <2>3, <2>4, <2>5 DEF Begun
  <2> QED  BY <2>3, <2>6 DEF OrderInv
<1>8. ASSUME NEW s \in Senders, Sender(s), ~Offered(s) PROVE OrderInv'
  <2>1. UNCHANGED <<queue, inhand, landed, count>>
    BY <1>8
    DEF Sender, Listen, NoRoom, Park, Disconnected, Woken, Told, Unacknowledged, wvars
  <2>2. ASSUME NEW r \in Senders, at'[r] \in Unsent PROVE at[r] \in Unsent
    BY <1>1, <1>8, <2>2
    DEF Sender, Listen, NoRoom, Park, Disconnected, Woken, Told, Unacknowledged
  <2> QED  BY <1>4, <2>1, <2>2
<1>9. CASE Take
  <2>1. /\ queue # <<>> /\ inhand' = <<Head(queue)>> /\ queue' = Tail(queue)
        /\ UNCHANGED <<landed, at, count>>
    BY <1>9 DEF Take, svars
  <2>2. /\ Head(queue) \in Elements(queue) /\ Elements(queue') \subseteq Elements(queue)
        /\ Sorted(queue') /\ Before({Head(queue)}, Elements(queue'))
    BY <1>1, <2>1, TakenElements DEF OrderInv, Ordered
  <2>3. Elements(inhand') = {Head(queue)} /\ Sorted(inhand')
    <3>1. Head(queue) \in Senders \X Nat
      BY <1>1, <2>1
    <3> QED  BY <2>1, <3>1, SingleElement
  <2>4. Ordered'
    BY <2>1, <2>2, <2>3 DEF OrderInv, Ordered, Before
  <2>5. Begun'
    BY <1>3, <2>1, <2>2, <2>3 DEF Begun
  <2> QED  BY <2>4, <2>5 DEF OrderInv
<1>10. /\ Elements(landed \o inhand) = Elements(landed) \union Elements(inhand)
       /\ Sorted(landed \o inhand)
  BY <1>1, ElementsConcat, SortedConcat DEF OrderInv, Ordered
<1>11. CASE Answer \/ Die
  <2>1. /\ inhand' = <<>> /\ UNCHANGED <<queue, at, count>>
        /\ landed' \in {landed, landed \o inhand}
    BY <1>11 DEF Answer, Die, svars
  <2>2. Elements(landed') \subseteq Elements(landed) \union Elements(inhand) /\ Sorted(landed')
    BY <1>10, <2>1 DEF OrderInv, Ordered
  <2>3. Ordered'
    BY <2>1, <2>2, NoElement DEF OrderInv, Ordered, Before
  <2>4. Begun'
    BY <1>3, <2>1, <2>2, NoElement DEF Begun
  <2> QED  BY <2>3, <2>4 DEF OrderInv
<1>12. CASE Close
  <2>1. queue' = <<>> /\ UNCHANGED <<landed, inhand, at, count>>
    BY <1>12 DEF Close, svars
  <2>2. Ordered'
    BY <2>1, NoElement DEF OrderInv, Ordered, Before
  <2>3. Begun'
    BY <1>3, <2>1, NoElement DEF Begun
  <2> QED  BY <2>2, <2>3 DEF OrderInv
<1>13. CASE TellRoom \/ TellClosed
  BY <1>4, <1>13 DEF TellRoom, TellClosed
<1>14. CASE UNCHANGED vars
  BY <1>4, <1>14 DEF vars, wvars, svars
<1> QED
  BY <1>5, <1>6, <1>7, <1>8, <1>9, <1>11, <1>12, <1>13, <1>14 DEF Next, Writer

\* The log holds a sender's lines in the order it wrote them, none twice,
\* whether it waited for room or was held by the channel (log.rs:168).
THEOREM InOrder == Spec => []SenderOrder
<1>1. Init => OrderInv
  BY NoElement DEF Init, OrderInv, Ordered, Begun, Before
<1>2. OrderInv => SenderOrder
  BY DEF OrderInv, Ordered, Sorted, SenderOrder
<1> QED  BY <1>1, <1>2, OrderInductive, TypeCorrect, PTL DEF Spec

-----------------------------------------------------------------------------
(***************************************************************************)
(* SessionClaims.  First the names: numbers, finitely many of them.        *)
(***************************************************************************)
Above(S, i) == {j \in S : j > i}

\* Names are numbers.
LEMMA NamesAreNumbers ==
    ASSUME NEW S \in SUBSET Ids, NEW j \in S PROVE j \in Nat
BY IdsAssumption

\* Names are finitely many, so a set of them is finite, and its part too.
LEMMA NamesAreFinite ==
    ASSUME NEW S \in SUBSET Ids
    PROVE  /\ IsFiniteSet(S) /\ Cardinality(S) \in Nat
           /\ \A T \in SUBSET S : /\ IsFiniteSet(T) /\ Cardinality(T) \in Nat
                                  /\ Cardinality(T) <= Cardinality(S)
                                  /\ Cardinality(S) = Cardinality(T) => S = T
<1>1. IsFiniteSet(S)
  BY IdsAssumption, FS_Subset
<1> QED  BY <1>1, FS_Subset, FS_CardinalityType

\* How many of a set are above each of it tells them apart, and is each number once.
LEMMA Ranks ==
    ASSUME NEW S \in SUBSET Ids
    PROVE  /\ \A j \in S : Cardinality(Above(S, j)) \in 0 .. (Cardinality(S) - 1)
           /\ \A j, k \in S : Cardinality(Above(S, j)) = Cardinality(Above(S, k)) => j = k
           /\ \A n \in 0 .. (Cardinality(S) - 1) : \E j \in S : Cardinality(Above(S, j)) = n
<1> DEFINE n == Cardinality(S)
           f == [j \in S |-> Cardinality(Above(S, j))]
<1>1. IsFiniteSet(S) /\ n \in Nat
  BY NamesAreFinite
<1>2. ASSUME NEW j \in S
      PROVE  Cardinality(Above(S, j)) \in Nat /\ Cardinality(Above(S, j)) < n
  <2>1. Above(S, j) \in SUBSET S /\ j \notin Above(S, j)
    BY IdsAssumption DEF Above
  <2>2. /\ Cardinality(Above(S, j)) \in Nat /\ Cardinality(Above(S, j)) <= n
        /\ Cardinality(S) = Cardinality(Above(S, j)) => S = Above(S, j)
    BY <2>1, NamesAreFinite
  <2> QED  BY <1>1, <2>1, <2>2
<1>3. ASSUME NEW j \in S, NEW k \in S, j < k
      PROVE  Cardinality(Above(S, k)) < Cardinality(Above(S, j))
  <2>0. j \in Nat /\ k \in Nat /\ \A l \in S : l \in Nat
    BY NamesAreNumbers
  <2>1. /\ Above(S, j) \in SUBSET Ids /\ Above(S, k) \in SUBSET Above(S, j)
        /\ k \in Above(S, j) /\ k \notin Above(S, k)
    <3>1. \A l \in S : l > k => l > j
      BY <1>3, <2>0
    <3>2. k > j /\ ~(k > k)
      BY <1>3, <2>0
    <3> QED  BY <3>1, <3>2 DEF Above
  <2>2. /\ Cardinality(Above(S, k)) \in Nat /\ Cardinality(Above(S, j)) \in Nat
        /\ Cardinality(Above(S, k)) <= Cardinality(Above(S, j))
        /\ Cardinality(Above(S, j)) = Cardinality(Above(S, k)) => Above(S, j) = Above(S, k)
    BY <2>1, NamesAreFinite
  <2> QED  BY <2>1, <2>2
<1>4. ASSUME NEW j \in S, NEW k \in S, Cardinality(Above(S, j)) = Cardinality(Above(S, k))
      PROVE  j = k
  <2>1. j \in Nat /\ k \in Nat
    BY IdsAssumption
  <2>2. j < k \/ k < j \/ j = k
    BY <2>1
  <2> QED  BY <1>2, <1>3, <1>4, <2>2
<1>5. IsFiniteSet(0 .. (n - 1)) /\ Cardinality(0 .. (n - 1)) = n
  BY <1>1, FS_Interval
<1>6. f \in Injection(S, 0 .. (n - 1))
  <2>1. \A j \in S : f[j] \in 0 .. (n - 1)
    BY <1>1, <1>2
  <2>2. \A j, k \in S : f[j] = f[k] => j = k
    BY <1>4
  <2>3. f \in [S -> 0 .. (n - 1)]
    BY <2>1
  <2> HIDE DEF f, n
  <2> QED  BY <2>2, <2>3 DEF Injection, IsInjective
<1>7. f \in Surjection(S, 0 .. (n - 1))
  BY <1>5, <1>6, FS_Injection
<1>8. ASSUME NEW m \in 0 .. (n - 1) PROVE \E j \in S : Cardinality(Above(S, j)) = m
  <2>1. \E j \in S : f[j] = m
    BY <1>7 DEF Surjection
  <2> QED  BY <2>1
<1> QED  BY <1>1, <1>2, <1>4, <1>8

\* So a set of names has a greatest and a least.
LEMMA Extremes ==
    ASSUME NEW S \in SUBSET Ids, S # {}
    PROVE  /\ \E m \in S : \A j \in S : j <= m
           /\ \E m \in S : \A j \in S : m <= j
<1>1. Cardinality(S) \in Nat /\ IsFiniteSet(S) /\ Cardinality(S) >= 1
  <2>1. Cardinality(S) \in Nat /\ IsFiniteSet(S)
    BY NamesAreFinite
  <2>2. Cardinality(S) # 0
    BY <2>1, FS_EmptySet
  <2> QED  BY <2>1, <2>2
<1>2. \E m \in S : \A j \in S : j <= m
  <2>1. PICK m \in S : Cardinality(Above(S, m)) = 0
    BY <1>1, Ranks
  <2>2. Above(S, m) \in SUBSET S
    BY DEF Above
  <2>3. Above(S, m) = {}
    BY <2>1, <2>2, NamesAreFinite, FS_EmptySet
  <2>4. \A j \in S : j <= m
    BY <2>3, IdsAssumption DEF Above
  <2> QED  BY <2>4
<1>3. \E m \in S : \A j \in S : m <= j
  <2>1. PICK m \in S : Cardinality(Above(S, m)) = Cardinality(S) - 1
    BY <1>1, Ranks
  <2>2. Above(S, m) \in SUBSET S /\ m \notin Above(S, m)
    BY IdsAssumption DEF Above
  <2>3. IsFiniteSet(Above(S, m))
    BY <2>2, NamesAreFinite
  <2>4. Cardinality(Above(S, m) \cup {m}) = Cardinality(S) /\ Above(S, m) \cup {m} \in SUBSET S
    <3>1. Cardinality(Above(S, m) \cup {m}) = Cardinality(Above(S, m)) + 1
      BY <2>2, <2>3, FS_AddElement
    <3>2. Above(S, m) \cup {m} \in SUBSET S
      BY <2>2
    <3> QED  BY <1>1, <2>1, <3>1, <3>2
  <2>5. S = Above(S, m) \cup {m}
    BY <2>4, NamesAreFinite
  <2>6. \A j \in S : m <= j
    BY <2>5, IdsAssumption DEF Above
  <2> QED  BY <2>6
<1> QED  BY <1>2, <1>3

-----------------------------------------------------------------------------
\* The newest of some names are no more than the index holds.
LEMMA NewestFit ==
    ASSUME NEW S \in SUBSET Ids
    PROVE  Newest(S) \in SUBSET S /\ Cardinality(Newest(S)) <= ENTRIES
<1> DEFINE f == [j \in Newest(S) |-> Cardinality(Above(S, j))]
<1>1. Newest(S) \in SUBSET S
  BY DEF Newest
<1>2. \A j \in Newest(S) : Cardinality(Above(S, j)) \in 0 .. (ENTRIES - 1)
  BY <1>1, Ranks, NamesAreFinite, BoundsAssumption DEF Newest, Above
<1>3. f \in Injection(Newest(S), 0 .. (ENTRIES - 1))
  <2>1. f \in [Newest(S) -> 0 .. (ENTRIES - 1)]
    BY <1>2
  <2>2. \A j, k \in Newest(S) : f[j] = f[k] => j = k
    BY <1>1, Ranks
  <2> HIDE DEF f
  <2> QED  BY <2>1, <2>2 DEF Injection, IsInjective
<1>4. IsFiniteSet(0 .. (ENTRIES - 1)) /\ Cardinality(0 .. (ENTRIES - 1)) = ENTRIES
  BY BoundsAssumption, FS_Interval
<1> QED  BY <1>1, <1>3, <1>4, FS_Injection

\* A name that as many are above as the index holds: the newest are as many,
\* and all above it.
LEMMA NewestAreAbove ==
    ASSUME NEW S \in SUBSET Ids, NEW i \in Ids, Cardinality(Above(S, i)) >= ENTRIES
    PROVE  /\ Cardinality(Newest(S)) = ENTRIES
           /\ Above(Newest(S), i) = Newest(S)
<1> DEFINE f == [j \in Newest(S) |-> Cardinality(Above(S, j))]
<1>1. Newest(S) \in SUBSET S
  BY DEF Newest
<1>2. \A j \in Newest(S) : Cardinality(Above(S, j)) \in 0 .. (ENTRIES - 1)
  BY <1>1, Ranks, NamesAreFinite, BoundsAssumption DEF Newest, Above
<1>3. Above(S, i) \in SUBSET S /\ Cardinality(S) >= ENTRIES /\ Cardinality(S) \in Nat
  <2>1. Above(S, i) \in SUBSET S
    BY DEF Above
  <2> QED  BY <2>1, NamesAreFinite, BoundsAssumption
<1>4. f \in Surjection(Newest(S), 0 .. (ENTRIES - 1))
  <2>1. f \in [Newest(S) -> 0 .. (ENTRIES - 1)]
    BY <1>2
  <2>2. ASSUME NEW n \in 0 .. (ENTRIES - 1) PROVE \E j \in Newest(S) : f[j] = n
    <3>1. n \in 0 .. (Cardinality(S) - 1)
      BY <1>3, BoundsAssumption
    <3>2. PICK j \in S : Cardinality(Above(S, j)) = n
      BY <3>1, Ranks
    <3>3. j \in Newest(S)
      BY <3>2, BoundsAssumption DEF Newest, Above
    <3> QED  BY <3>2, <3>3
  <2> QED  BY <2>1, <2>2 DEF Surjection
<1>5. IsFiniteSet(0 .. (ENTRIES - 1)) /\ Cardinality(0 .. (ENTRIES - 1)) = ENTRIES
  BY BoundsAssumption, FS_Interval
<1>6. IsFiniteSet(Newest(S)) /\ Cardinality(Newest(S)) \in Nat /\ Cardinality(Newest(S)) <= ENTRIES
  BY <1>1, NewestFit, NamesAreFinite
<1>7. Cardinality(0 .. (ENTRIES - 1)) <= Cardinality(Newest(S))
  BY <1>4, <1>6, FS_Surjection
<1>8. ASSUME NEW j \in Newest(S) PROVE j > i
  <2>0. i \in Nat /\ j \in Nat /\ \A l \in S : l \in Nat
    BY <1>1, NamesAreNumbers
  <2> SUFFICES ASSUME j <= i PROVE FALSE
    BY <2>0
  <2>1. Above(S, i) \in SUBSET Above(S, j) /\ Above(S, j) \in SUBSET Ids
    <3>1. \A l \in S : l > i => l > j
      BY <2>0
    <3> QED  BY <3>1 DEF Above
  <2>2. /\ Cardinality(Above(S, i)) <= Cardinality(Above(S, j))
        /\ Cardinality(Above(S, i)) \in Nat /\ Cardinality(Above(S, j)) \in Nat
    BY <2>1, NamesAreFinite
  <2> QED  BY <1>2, <2>2, BoundsAssumption
<1> QED  BY <1>5, <1>6, <1>7, <1>8, BoundsAssumption DEF Above
-----------------------------------------------------------------------------
OneLog == [made : BOOLEAN, header : BOOLEAN, torn : BOOLEAN, lines : Seq(Runs)]
ClaimPlaces == {"idle", "naming", "making", "heading", "removing", "picking", "claiming", "replaying",
           "cutting", "open", "unbegun", "glimpsing", "ensuring", "recording", "amending"}
ClaimsTyped ==
    /\ log \in [Ids -> OneLog]
    /\ claim \in [Ids -> Runs \cup {None}]
    /\ pc \in [Runs -> ClaimPlaces]
    /\ goal \in [Runs -> {"start", "deferred", "newest", "other"}]
    /\ name \in [Runs -> Ids \cup {None}]
    /\ seen \in [Runs -> Seq(Runs)]

(* Where a run has a session that is not begun, where it has a claim, where it
   is on a session that was begun, and where it has come to none. *)
Starting(r) ==
    pc[r] \in {"recording", "heading", "removing"} \/ (pc[r] = "ensuring" /\ goal[r] = "deferred")
Holding(r) ==
    \/ pc[r] \in {"making", "recording", "heading", "replaying", "cutting", "open", "unbegun",
                  "glimpsing"}
    \/ pc[r] = "ensuring" /\ goal[r] = "deferred"
Continuing(r) == pc[r] \in {"claiming", "replaying", "cutting", "glimpsing", "open"}
Nameless(r) == pc[r] \in {"idle", "naming", "picking"} \/ (pc[r] = "ensuring" /\ goal[r] # "deferred")

OpenLog(lines) == [made |-> TRUE, header |-> TRUE, torn |-> FALSE, lines |-> lines]

(* What a run has of its session, place by place. *)
Own(r) ==
    /\ Nameless(r) => name[r] = None
    /\ ~Nameless(r) => name[r] \in Ids
    /\ Holding(r) => claim[name[r]] = r
    /\ pc[r] \notin {"cutting", "open", "amending", "unbegun"} => seen[r] = <<>>
    /\ Starting(r) => log[name[r]] = EmptyLog
    /\ Continuing(r) => log[name[r]].header
    /\ pc[r] = "cutting" => log[name[r]].lines = seen[r]
    /\ pc[r] = "open" => log[name[r]] = OpenLog(seen[r])

StartsApart ==
    \A r, s \in Runs : Starting(r) /\ Starting(s) /\ name[r] = name[s] => r = s
HeadedIsMade == \A i \in Ids : log[i].header => log[i].made

ClaimsInv ==
    /\ ClaimsTyped
    /\ \A r \in Runs : Own(r)
    /\ StartsApart
    /\ HeadedIsMade

(* A step of one run: what it does not touch of another, of its claim, and of
   its log. *)
Alone(r) ==
    \A s \in Runs \ {r} :
        pc'[s] = pc[s] /\ goal'[s] = goal[s] /\ name'[s] = name[s] /\ seen'[s] = seen[s]
Gentle(r) == \A i \in Ids : \A s \in Runs \ {r} : claim[i] = s => claim'[i] = s
LogKept(s) ==
    Starting(s) \/ Continuing(s) =>
        log'[name[s]] = log[name[s]] \/ (pc[s] = "claiming" /\ log'[name[s]].header)
-----------------------------------------------------------------------------
\* A session that starts is nobody else's.
LEMMA StartsAloneHolds ==
    ASSUME ClaimsInv PROVE StartsAlone
<1> SUFFICES ASSUME NEW r \in Runs, Starting(r)
             PROVE  /\ log[name[r]] = EmptyLog
                    /\ \A s \in Runs \ {r} : name[s] = name[r] =>
                         pc[s] \in {"making", "amending", "unbegun"}
  BY DEF StartsAlone, Starting
<1>1. Own(r) /\ ~Nameless(r)
  BY DEF ClaimsInv, Starting, Nameless
<1>2. log[name[r]] = EmptyLog /\ name[r] \in Ids /\ name[r] # None
  BY <1>1, NoneAssumption DEF Own
<1>3. ASSUME NEW s \in Runs \ {r}, name[s] = name[r]
      PROVE  pc[s] \in {"making", "amending", "unbegun"}
  <2>1. Own(s)
    BY DEF ClaimsInv
  <2>2. ~Nameless(s)
    BY <1>2, <1>3, <2>1 DEF Own
  <2>3. ~Continuing(s)
    <3>1. ~log[name[s]].header
      BY <1>2, <1>3 DEF EmptyLog, NoLog
    <3> QED  BY <2>1, <3>1 DEF Own
  <2>4. ~Starting(s)
    BY <1>3 DEF ClaimsInv, StartsApart
  <2>5. Starting(s) \/ Continuing(s) \/ Nameless(s) \/ pc[s] \in {"making", "amending", "unbegun"}
    BY DEF ClaimsInv, ClaimsTyped, ClaimPlaces, Starting, Continuing, Nameless
  <2> QED  BY <2>2, <2>3, <2>4, <2>5
<1> QED  BY <1>2, <1>3

\* What a step of another leaves alone of a run is still its own.
LEMMA OthersKeep ==
    ASSUME NEW s \in Runs, Own(s),
           pc'[s] = pc[s], goal'[s] = goal[s], name'[s] = name[s], seen'[s] = seen[s],
           claim[name[s]] = s /\ name[s] \in Ids => claim'[name[s]] = s,
           LogKept(s)
    PROVE  Own(s)'
<1>1. /\ Starting(s)' = Starting(s) /\ Holding(s)' = Holding(s)
      /\ Continuing(s)' = Continuing(s) /\ Nameless(s)' = Nameless(s)
  BY DEF Starting, Holding, Continuing, Nameless
<1>2. Holding(s) => ~Nameless(s)
  BY DEF Holding, Nameless
<1>3. Holding(s)' => claim'[name'[s]] = s
  BY <1>1, <1>2 DEF Own
<1>4. Starting(s)' => log'[name'[s]] = EmptyLog
  <2>1. Starting(s) => pc[s] # "claiming"
    BY DEF Starting
  <2> QED  BY <1>1, <2>1 DEF Own, LogKept
<1>5. Continuing(s)' => log'[name'[s]].header
  BY <1>1 DEF Own, LogKept
<1>6. pc'[s] \in {"cutting", "open"} => log'[name'[s]] = log[name[s]]
  BY DEF LogKept, Continuing
<1>7. /\ pc'[s] = "cutting" => log'[name'[s]].lines = seen'[s]
      /\ pc'[s] = "open" => log'[name'[s]] = OpenLog(seen'[s])
  BY <1>6 DEF Own, OpenLog
<1>8. /\ Nameless(s)' => name'[s] = None
      /\ ~Nameless(s)' => name'[s] \in Ids
      /\ pc'[s] \notin {"cutting", "open", "amending", "unbegun"} => seen'[s] = <<>>
  BY <1>1 DEF Own
<1> QED  BY <1>3, <1>4, <1>5, <1>7, <1>8 DEF Own

\* One log changes: one that was not there, or one whose run has it to itself.
LEMMA ChangedAt ==
    ASSUME ClaimsInv, NEW i \in Ids, NEW s \in Runs,
           \A j \in Ids \ {i} : log'[j] = log[j],
           \/ ~log[i].made
           \/ \E r \in Runs \ {s} :
                /\ name[r] = i
                /\ \/ Starting(r)
                   \/ pc[r] \in {"open", "cutting"} /\ log'[i].header
    PROVE  LogKept(s)
<1> SUFFICES ASSUME Starting(s) \/ Continuing(s), name[s] = i
             PROVE  pc[s] = "claiming" /\ log'[i].header
  <2>1. Own(s) /\ ~(Nameless(s) /\ (Starting(s) \/ Continuing(s)))
    BY DEF ClaimsInv, Nameless, Starting, Continuing
  <2>2. Starting(s) \/ Continuing(s) => name[s] \in Ids
    BY <2>1 DEF Own
  <2> QED  BY <2>2 DEF LogKept
<1>1. Own(s)
  BY DEF ClaimsInv
<1>2. log[i].made
  <2>1. Continuing(s) => log[i].made
    BY <1>1 DEF ClaimsInv, HeadedIsMade, Own
  <2>2. Starting(s) => log[i].made
    BY <1>1 DEF Own, EmptyLog, NoLog
  <2> QED  BY <2>1, <2>2
<1>3. PICK r \in Runs \ {s} : /\ name[r] = i
                              /\ \/ Starting(r)
                                 \/ pc[r] \in {"open", "cutting"} /\ log'[i].header
  BY <1>2
<1>4. ~Starting(r)
  <2> SUFFICES ASSUME Starting(r) PROVE FALSE
    OBVIOUS
  <2>1. pc[s] \in {"making", "amending", "unbegun"}
    BY <1>3, StartsAloneHolds DEF StartsAlone, Starting
  <2> QED  BY <2>1 DEF Starting, Continuing
<1>5. Own(r) /\ Continuing(r) /\ Holding(r) /\ log'[i].header
  BY <1>3, <1>4 DEF ClaimsInv, Continuing, Holding
<1>6. claim[i] = r /\ log[i].header
  BY <1>3, <1>5 DEF Own
<1>7. ~Starting(s)
  BY <1>1, <1>6 DEF Own, EmptyLog, NoLog
<1>8. ~Holding(s)
  BY <1>1, <1>3, <1>6 DEF Own
<1> QED  BY <1>5, <1>7, <1>8 DEF Continuing, Holding

\* A step of one run keeps the invariant: what is left to show of it.
LEMMA StepKeeps ==
    ASSUME ClaimsInv, ClaimsTyped', NEW r \in Runs, Alone(r), Gentle(r), Own(r)',
           \A s \in Runs \ {r} : LogKept(s),
           HeadedIsMade',
           Starting(r)' => (Starting(r) /\ name'[r] = name[r]) \/ ~log[name'[r]].made
    PROVE  ClaimsInv'
<1>1. ASSUME NEW s \in Runs PROVE Own(s)'
  <2>1. CASE s = r
    BY <2>1
  <2>2. CASE s # r
    <3>1. Own(s) /\ LogKept(s) /\ s \in Runs \ {r}
      BY <2>2 DEF ClaimsInv
    <3>2. pc'[s] = pc[s] /\ goal'[s] = goal[s] /\ name'[s] = name[s] /\ seen'[s] = seen[s]
      BY <3>1 DEF Alone
    <3>3. claim[name[s]] = s /\ name[s] \in Ids => claim'[name[s]] = s
      BY <3>1 DEF Gentle
    <3> QED  BY <3>1, <3>2, <3>3, OthersKeep
  <2> QED  BY <2>1, <2>2
<1>2. ASSUME NEW s \in Runs, NEW t \in Runs, Starting(s)', Starting(t)', name'[s] = name'[t], s # t
      PROVE  FALSE
  <2>1. ASSUME NEW u \in Runs \ {r}, Starting(u)'
        PROVE  Starting(u) /\ name'[u] = name[u] /\ log[name[u]].made
    <3>1. Starting(u) /\ name'[u] = name[u] /\ Own(u)
      BY <2>1 DEF Alone, Starting, ClaimsInv
    <3> QED  BY <3>1 DEF Own, EmptyLog, NoLog
  <2>2. CASE s # r /\ t # r
    BY <1>2, <2>1, <2>2 DEF ClaimsInv, StartsApart
  <2>3. ASSUME NEW u \in Runs \ {r}, Starting(u)', Starting(r)', name'[u] = name'[r]
        PROVE  FALSE
    BY <2>1, <2>3 DEF ClaimsInv, StartsApart
  <2>4. CASE s = r
    BY <1>2, <2>3, <2>4
  <2>5. CASE t = r
    BY <1>2, <2>3, <2>5
  <2> QED  BY <2>2, <2>4, <2>5
<1>3. StartsApart'
  BY <1>2 DEF StartsApart
<1> QED  BY <1>1, <1>3 DEF ClaimsInv

LEMMA QuietStep ==
    ASSUME ClaimsInv, ClaimsTyped', NEW r \in Runs, Alone(r), Gentle(r), Own(r)', log' = log,
           Starting(r)' => Starting(r) /\ name'[r] = name[r]
    PROVE  ClaimsInv'
<1>1. HeadedIsMade' /\ \A s \in Runs \ {r} : LogKept(s)
  BY DEF ClaimsInv, HeadedIsMade, LogKept
<1> QED  BY <1>1, StepKeeps

\* A run that ends has nothing.
LEMMA EndsHere ==
    ASSUME ClaimsInv, NEW r \in Runs, Ends(r), log' \in [Ids -> OneLog]
    PROVE  ClaimsTyped' /\ Alone(r) /\ Gentle(r) /\ Own(r)' /\ ~Starting(r)'
<1>1. ClaimsTyped'
  BY DEF ClaimsInv, ClaimsTyped, Ends, Goes, ClaimPlaces
<1>2. Alone(r) /\ Gentle(r)
  BY NoneAssumption DEF ClaimsInv, ClaimsTyped, Ends, Goes, Alone, Gentle
<1>3. pc'[r] = "idle" /\ name'[r] = None /\ seen'[r] = <<>>
  BY DEF ClaimsInv, ClaimsTyped, Ends, Goes
<1> QED  BY <1>1, <1>2, <1>3 DEF Own, Starting, Holding, Continuing, Nameless

LEMMA EndsQuietly ==
    ASSUME ClaimsInv, NEW r \in Runs, Ends(r), log' = log PROVE ClaimsInv'
<1>1. log' \in [Ids -> OneLog]
  BY DEF ClaimsInv, ClaimsTyped
<1> QED  BY <1>1, EndsHere, QuietStep

\* Going on to another place: what is the same after it.
LEMMA GoesHere ==
    ASSUME ClaimsTyped, NEW r \in Runs, NEW to \in ClaimPlaces, Goes(r, to),
           UNCHANGED <<name, seen, claim>>, log' \in [Ids -> OneLog],
           NEW g \in {"start", "deferred", "newest", "other"}, goal' = [goal EXCEPT ![r] = g]
    PROVE  ClaimsTyped' /\ Alone(r) /\ Gentle(r) /\ pc'[r] = to /\ goal'[r] = g
<1>1. ClaimsTyped'
  BY DEF ClaimsTyped, Goes
<1>2. Alone(r) /\ Gentle(r) /\ pc'[r] = to /\ goal'[r] = g
  BY DEF ClaimsTyped, Goes, Alone, Gentle
<1> QED  BY <1>1, <1>2

LEMMA HasHere ==
    ASSUME ClaimsTyped, NEW r \in Runs, NEW to \in ClaimPlaces, Has(r, to), log' \in [Ids -> OneLog]
    PROVE  /\ ClaimsTyped' /\ Alone(r) /\ Gentle(r) /\ pc'[r] = to
           /\ name' = name /\ seen' = seen /\ claim' = claim
<1>1. Goes(r, to) /\ UNCHANGED <<name, seen, claim>> /\ goal' = [goal EXCEPT ![r] = "other"]
  BY DEF Has
<1>2. ClaimsTyped' /\ Alone(r) /\ Gentle(r) /\ pc'[r] = to
  BY <1>1, GoesHere
<1> QED  BY <1>1, <1>2

LEMMA KeepsHere ==
    ASSUME ClaimsTyped, NEW r \in Runs, NEW to \in ClaimPlaces, Keeps(r, to), log' \in [Ids -> OneLog]
    PROVE  /\ ClaimsTyped' /\ Alone(r) /\ Gentle(r) /\ pc'[r] = to
           /\ name' = name /\ seen' = seen /\ claim' = claim /\ goal' = goal
<1>1. Goes(r, to) /\ UNCHANGED <<goal, name, seen, claim>>
  BY DEF Keeps
<1>2. goal[r] \in {"start", "deferred", "newest", "other"} /\ goal' = [goal EXCEPT ![r] = goal[r]]
  BY <1>1 DEF ClaimsTyped
<1>3. ClaimsTyped' /\ Alone(r) /\ Gentle(r) /\ pc'[r] = to
  BY <1>1, <1>2, GoesHere
<1> QED  BY <1>1, <1>3
-----------------------------------------------------------------------------
\* A change of the index that is made, or refused.
LEMMA DoneKeeps ==
    ASSUME ClaimsInv, NEW r \in Runs, Done(r), log' = log PROVE ClaimsInv'
<1>1. Own(r) /\ ClaimsTyped /\ log' \in [Ids -> OneLog]
  BY DEF ClaimsInv, ClaimsTyped
<1>2. CASE pc[r] = "ensuring" /\ goal[r] = "start" /\ Keeps(r, "naming")
  <2>1. /\ ClaimsTyped' /\ Alone(r) /\ Gentle(r) /\ pc'[r] = "naming"
        /\ name' = name /\ seen' = seen /\ claim' = claim /\ goal' = goal
    BY <1>1, <1>2, KeepsHere DEF ClaimPlaces
  <2>2. Own(r)' /\ ~Starting(r)'
    BY <1>1, <1>2, <2>1 DEF Own, Starting, Holding, Continuing, Nameless
  <2> QED  BY <2>1, <2>2, QuietStep
<1>3. CASE pc[r] = "ensuring" /\ goal[r] = "newest" /\ Keeps(r, "picking")
  <2>1. /\ ClaimsTyped' /\ Alone(r) /\ Gentle(r) /\ pc'[r] = "picking"
        /\ name' = name /\ seen' = seen /\ claim' = claim /\ goal' = goal
    BY <1>1, <1>3, KeepsHere DEF ClaimPlaces
  <2>2. Own(r)' /\ ~Starting(r)'
    BY <1>1, <1>3, <2>1 DEF Own, Starting, Holding, Continuing, Nameless
  <2> QED  BY <2>1, <2>2, QuietStep
<1>4. CASE \/ pc[r] = "ensuring" /\ goal[r] = "deferred" /\ Keeps(r, "recording")
           \/ pc[r] = "recording" /\ Keeps(r, "heading")
  <2>1. PICK to \in {"recording", "heading"} :
          /\ Keeps(r, to)
          /\ pc[r] = "recording" \/ (pc[r] = "ensuring" /\ goal[r] = "deferred")
    BY <1>4
  <2>2. /\ ClaimsTyped' /\ Alone(r) /\ Gentle(r) /\ pc'[r] = to
        /\ name' = name /\ seen' = seen /\ claim' = claim /\ goal' = goal
    BY <1>1, <2>1, KeepsHere DEF ClaimPlaces
  <2>3. Own(r)' /\ Starting(r)
    BY <1>1, <2>1, <2>2 DEF Own, Starting, Holding, Continuing, Nameless
  <2> QED  BY <2>2, <2>3, QuietStep
<1>5. CASE pc[r] = "amending" /\ Ends(r)
  BY <1>5, EndsQuietly
<1> QED  BY <1>2, <1>3, <1>4, <1>5 DEF Done

\* A log that one run has to itself is removed.
LEMMA RemovedLog ==
    ASSUME ClaimsInv, NEW r \in Runs, Starting(r), Removes(name[r])
    PROVE  /\ log' \in [Ids -> OneLog]
           /\ \A s \in Runs \ {r} : LogKept(s)
           /\ HeadedIsMade'
<1>1. name[r] \in Ids
  BY DEF ClaimsInv, Own, Starting, Nameless
<1>2. NoLog \in OneLog /\ ~NoLog.header
  BY DEF NoLog, OneLog
<1>3. log' = [log EXCEPT ![name[r]] = NoLog] /\ log \in [Ids -> OneLog]
  BY DEF Removes, ClaimsInv, ClaimsTyped
<1>4. log' \in [Ids -> OneLog] /\ HeadedIsMade'
  BY <1>1, <1>2, <1>3 DEF ClaimsInv, HeadedIsMade
<1>5. \A j \in Ids \ {name[r]} : log'[j] = log[j]
  BY <1>3
<1> QED  BY <1>1, <1>4, <1>5, ChangedAt

LEMMA RefusedKeeps ==
    ASSUME ClaimsInv, NEW r \in Runs, Refused(r) PROVE ClaimsInv'
<1>1. Own(r) /\ ClaimsTyped /\ log \in [Ids -> OneLog]
  BY DEF ClaimsInv, ClaimsTyped
<1>2. CASE Ends(r) /\ UNCHANGED log
  BY <1>2, EndsQuietly
<1>3. CASE pc[r] \in {"ensuring", "recording"} /\ goal[r] = "deferred"
           /\ Removes(name[r]) /\ Has(r, "unbegun")
  <2>1. Starting(r)
    BY <1>3 DEF Starting
  <2>2. log' \in [Ids -> OneLog] /\ HeadedIsMade' /\ \A s \in Runs \ {r} : LogKept(s)
    BY <1>3, <2>1, RemovedLog
  <2>3. /\ ClaimsTyped' /\ Alone(r) /\ Gentle(r) /\ pc'[r] = "unbegun"
        /\ name' = name /\ seen' = seen /\ claim' = claim
    BY <1>1, <1>3, <2>2, HasHere DEF ClaimPlaces
  <2>4. Own(r)' /\ ~Starting(r)'
    BY <1>1, <1>3, <2>3 DEF Own, Starting, Holding, Continuing, Nameless
  <2> QED  BY <2>2, <2>3, <2>4, StepKeeps
<1>4. CASE /\ pc[r] = "recording" /\ goal[r] = "start"
           /\ Goes(r, "removing")
           /\ claim' = [claim EXCEPT ![name[r]] = IF @ = r THEN None ELSE @]
           /\ UNCHANGED <<log, goal, name, tries, seen>>
  <2>1. ClaimsTyped' /\ Alone(r) /\ Gentle(r) /\ pc'[r] = "removing"
    BY <1>1, <1>4 DEF ClaimsTyped, Goes, ClaimPlaces, Alone, Gentle
  <2>2. Own(r)' /\ Starting(r)
    BY <1>1, <1>4, <2>1 DEF Own, Starting, Holding, Continuing, Nameless
  <2> QED  BY <1>4, <2>1, <2>2, QuietStep
<1> QED  BY <1>2, <1>3, <1>4 DEF Refused

\* What a step on the index is to the session.
LEMMA IndexKeeps ==
    ASSUME ClaimsInv, NEW r \in Runs, IndexStep(r) PROVE ClaimsInv'
<1>1. \/ Done(r) /\ log' = log
      \/ Refused(r)
      \/ UNCHANGED <<log, claim, pc, goal, name, seen>>
  BY DEF IndexStep, NothingToDo, Ensure, Record, Amend, IndexFails, Replace, LeaveMark, Drafts
<1>2. CASE UNCHANGED <<log, claim, pc, goal, name, seen>>
  BY <1>2 DEF ClaimsInv, ClaimsTyped, Own, StartsApart, HeadedIsMade, Starting, Holding,
              Continuing, Nameless
<1> QED  BY <1>1, <1>2, DoneKeeps, RefusedKeeps
-----------------------------------------------------------------------------
\* Starting a session.
LEMMA StartsKeep ==
    ASSUME ClaimsInv, NEW r \in Runs, Starts(r) PROVE ClaimsInv'
<1>1. Own(r) /\ ClaimsTyped /\ log \in [Ids -> OneLog]
  BY DEF ClaimsInv, ClaimsTyped
<1>2. CASE Start(r) \/ StartDeferred(r)
  <2>1. PICK g \in {"start", "deferred"}, to \in {"ensuring", "naming"} :
          /\ pc[r] = "idle" /\ goal' = [goal EXCEPT ![r] = g] /\ Goes(r, to)
          /\ to = "ensuring" => g = "start"
          /\ UNCHANGED <<log, claim, name, seen>>
    BY <1>2 DEF Start, StartDeferred
  <2>2. ClaimsTyped' /\ Alone(r) /\ Gentle(r) /\ pc'[r] = to /\ goal'[r] = g
    BY <1>1, <2>1, GoesHere DEF ClaimPlaces
  <2>3. Own(r)' /\ ~Starting(r)'
    BY <1>1, <2>1, <2>2 DEF Own, Starting, Holding, Continuing, Nameless
  <2> QED  BY <2>1, <2>2, <2>3, QuietStep
<1>3. ASSUME NEW i \in Ids, Mint(r, i) PROVE ClaimsInv'
  <2>1. CASE UNCHANGED <<pc, name, claim>>
    BY <1>3, <2>1 DEF Mint, ClaimsInv, ClaimsTyped, Own, StartsApart, HeadedIsMade, Starting,
                     Holding, Continuing, Nameless
  <2>2. CASE /\ claim[i] = None /\ name' = [name EXCEPT ![r] = i]
             /\ claim' = [claim EXCEPT ![i] = r] /\ Goes(r, "making")
    <3>1. UNCHANGED <<log, goal, seen>> /\ pc[r] = "naming"
      BY <1>3 DEF Mint
    <3>2. ClaimsTyped' /\ Alone(r) /\ Gentle(r)
      BY <1>1, <2>2, <3>1, NoneAssumption DEF ClaimsTyped, Goes, ClaimPlaces, Alone, Gentle
    <3>3. pc'[r] = "making" /\ name'[r] = i /\ claim'[i] = r
      BY <1>1, <2>2 DEF ClaimsTyped, Goes
    <3>4. Own(r)' /\ ~Starting(r)'
      BY <1>1, <3>1, <3>3 DEF Own, Starting, Holding, Continuing, Nameless
    <3> QED  BY <3>1, <3>2, <3>4, QuietStep
  <2> QED  BY <1>3, <2>1, <2>2 DEF Mint
<1>4. CASE NamingFails(r)
  BY <1>4, EndsQuietly DEF NamingFails
<1>5. CASE Make(r)
  <2> DEFINE i == name[r]
  <2>1. pc[r] = "making" /\ i \in Ids /\ claim[i] = r /\ seen[r] = <<>>
    BY <1>1, <1>5 DEF Make, Own, Holding, Nameless
  <2>2. CASE log[i].made
    <3>1. /\ Goes(r, "naming") /\ name' = [name EXCEPT ![r] = None]
          /\ claim' = [claim EXCEPT ![i] = IF @ = r THEN None ELSE @]
          /\ UNCHANGED <<log, goal, seen>>
      BY <1>5, <2>2 DEF Make
    <3>2. ClaimsTyped' /\ Alone(r) /\ Gentle(r)
      BY <1>1, <2>1, <3>1 DEF ClaimsTyped, Goes, ClaimPlaces, Alone, Gentle
    <3>3. pc'[r] = "naming" /\ name'[r] = None /\ seen'[r] = <<>>
      BY <1>1, <2>1, <3>1 DEF ClaimsTyped, Goes
    <3>4. Own(r)' /\ ~Starting(r)'
      BY <3>3 DEF Own, Starting, Holding, Continuing, Nameless
    <3> QED  BY <3>1, <3>2, <3>4, QuietStep
  <2>3. CASE ~log[i].made
    <3>1. PICK to \in {"ensuring", "recording"} :
            /\ log' = [log EXCEPT ![i] = EmptyLog] /\ Goes(r, to)
            /\ to = "ensuring" => goal[r] = "deferred"
            /\ UNCHANGED <<name, claim, goal, seen>>
      BY <1>5, <2>3 DEF Make
    <3>2. log' \in [Ids -> OneLog] /\ HeadedIsMade'
      <4>1. NoLog \in OneLog
        BY DEF NoLog, OneLog
      <4>2. EmptyLog \in OneLog /\ EmptyLog.made
        BY <4>1 DEF EmptyLog, NoLog, OneLog
      <4> QED  BY <1>1, <2>1, <3>1, <4>2 DEF ClaimsInv, HeadedIsMade
    <3>3. ClaimsTyped' /\ Alone(r) /\ Gentle(r) /\ pc'[r] = to
      <4>1. goal[r] \in {"start", "deferred", "newest", "other"} /\ goal' = [goal EXCEPT ![r] = goal[r]]
        BY <1>1, <3>1 DEF ClaimsTyped
      <4> QED  BY <1>1, <3>1, <3>2, <4>1, GoesHere DEF ClaimPlaces
    <3>4. Own(r)' /\ Starting(r)'
      <4>1. log'[i] = EmptyLog /\ name'[r] = i /\ seen'[r] = <<>> /\ claim'[i] = r
        BY <1>1, <2>1, <3>1
      <4> QED  BY <2>1, <3>1, <3>3, <4>1 DEF Own, Starting, Holding, Continuing, Nameless
    <3>5. \A s \in Runs \ {r} : LogKept(s)
      <4>1. \A j \in Ids \ {i} : log'[j] = log[j]
        BY <3>1, <1>1
      <4> QED  BY <2>1, <2>3, <4>1, ChangedAt
    <3>6. ~log[name'[r]].made
      BY <2>3, <3>1
    <3> QED  BY <3>2, <3>3, <3>4, <3>5, <3>6, StepKeeps
  <2> QED  BY <2>2, <2>3
<1>6. ASSUME pc[r] = "heading"
      PROVE  /\ Starting(r) /\ name[r] \in Ids /\ claim[name[r]] = r /\ seen[r] = <<>>
             /\ log[name[r]] = EmptyLog
  BY <1>1, <1>6 DEF Own, Starting, Holding, Nameless
<1>7. CASE WriteHeader(r)
  <2> DEFINE i == name[r]
  <2>1. pc[r] = "heading" /\ log' = [log EXCEPT ![i].header = TRUE] /\ Has(r, "open")
    BY <1>7 DEF WriteHeader
  <2>2. log'[i] = OpenLog(<<>>) /\ \A j \in Ids \ {i} : log'[j] = log[j]
    BY <1>1, <1>6, <2>1 DEF OpenLog, EmptyLog, NoLog
  <2>3. log' \in [Ids -> OneLog] /\ HeadedIsMade'
    <3>1. log' \in [Ids -> OneLog]
      BY <1>1, <1>6, <2>1 DEF OneLog
    <3>2. HeadedIsMade'
      BY <2>2 DEF ClaimsInv, HeadedIsMade, OpenLog
    <3> QED  BY <3>1, <3>2
  <2>4. /\ ClaimsTyped' /\ Alone(r) /\ Gentle(r) /\ pc'[r] = "open"
        /\ name' = name /\ seen' = seen /\ claim' = claim
    BY <1>1, <2>1, <2>3, HasHere DEF ClaimPlaces
  <2>5. Own(r)' /\ ~Starting(r)'
    <3>0. name'[r] = i /\ seen'[r] = <<>>
      BY <1>6, <2>1, <2>4
    <3>1. log'[name'[r]] = OpenLog(seen'[r]) /\ log'[name'[r]].header
      BY <2>2, <3>0 DEF OpenLog
    <3> QED  BY <1>6, <2>1, <2>4, <3>1 DEF Own, Starting, Holding, Continuing, Nameless
  <2>6. \A s \in Runs \ {r} : LogKept(s)
    BY <1>6, <2>1, <2>2, ChangedAt
  <2> QED  BY <2>3, <2>4, <2>5, <2>6, StepKeeps
<1>8. CASE HeaderFails(r)
  <2> DEFINE i == name[r]
  <2>1. pc[r] = "heading"
    BY <1>8 DEF HeaderFails
  <2>2. CASE Removes(i) /\ Has(r, "unbegun")
    <3>1. log' \in [Ids -> OneLog] /\ HeadedIsMade' /\ \A s \in Runs \ {r} : LogKept(s)
      BY <1>6, <2>1, <2>2, RemovedLog
    <3>2. /\ ClaimsTyped' /\ Alone(r) /\ Gentle(r) /\ pc'[r] = "unbegun"
          /\ name' = name /\ seen' = seen /\ claim' = claim
      BY <1>1, <2>2, <3>1, HasHere DEF ClaimPlaces
    <3>3. Own(r)' /\ ~Starting(r)'
      BY <1>1, <1>6, <2>1, <3>2 DEF Own, Starting, Holding, Continuing, Nameless
    <3> QED  BY <3>1, <3>2, <3>3, StepKeeps
  <2>3. CASE log' = [log EXCEPT ![i].torn = TRUE] /\ Ends(r)
    <3>1. log' \in [Ids -> OneLog]
      BY <1>1, <1>6, <2>1, <2>3 DEF OneLog
    <3>2. HeadedIsMade' /\ \A j \in Ids \ {i} : log'[j] = log[j]
      BY <1>1, <1>6, <2>1, <2>3 DEF ClaimsInv, HeadedIsMade
    <3>3. \A s \in Runs \ {r} : LogKept(s)
      BY <1>6, <2>1, <3>2, ChangedAt
    <3> QED  BY <2>3, <3>1, <3>2, <3>3, EndsHere, StepKeeps
  <2> QED  BY <1>8, <2>2, <2>3 DEF HeaderFails
<1>9. CASE RemoveLog(r)
  <2>1. Starting(r) /\ Removes(name[r]) /\ Ends(r)
    BY <1>9 DEF RemoveLog, Starting
  <2>2. log' \in [Ids -> OneLog] /\ HeadedIsMade' /\ \A s \in Runs \ {r} : LogKept(s)
    BY <2>1, RemovedLog
  <2> QED  BY <2>1, <2>2, EndsHere, StepKeeps
<1> QED  BY <1>2, <1>3, <1>4, <1>5, <1>7, <1>8, <1>9 DEF Starts
-----------------------------------------------------------------------------
\* A run that holds a begun session writes to its log, and it stays one.
LEMMA OwnLogWritten ==
    ASSUME ClaimsInv, NEW r \in Runs, pc[r] \in {"open", "cutting"}, NEW l \in OneLog,
           l.header, l.made, log' = [log EXCEPT ![name[r]] = l]
    PROVE  /\ log' \in [Ids -> OneLog] /\ log'[name[r]] = l
           /\ \A s \in Runs \ {r} : LogKept(s)
           /\ HeadedIsMade'
<1>1. name[r] \in Ids /\ log \in [Ids -> OneLog]
  BY DEF ClaimsInv, ClaimsTyped, Own, Nameless
<1>2. /\ log' \in [Ids -> OneLog] /\ log'[name[r]] = l
      /\ \A j \in Ids \ {name[r]} : log'[j] = log[j]
  BY <1>1
<1>3. HeadedIsMade'
  BY <1>1, <1>2 DEF ClaimsInv, HeadedIsMade
<1> QED  BY <1>1, <1>2, <1>3, ChangedAt

\* A log is what is said of it.
LEMMA IsOpenLog ==
    ASSUME NEW lines, NEW a \in OneLog, a.made, a.header, ~a.torn, a.lines = lines
    PROVE  a = OpenLog(lines)
BY DEF OneLog, OpenLog

LEMMA OpenLogIsOne ==
    ASSUME NEW lines \in Seq(Runs)
    PROVE  /\ OpenLog(lines) \in OneLog
           /\ OpenLog(lines).made /\ OpenLog(lines).header
           /\ ~OpenLog(lines).torn /\ OpenLog(lines).lines = lines
BY DEF OpenLog, OneLog

\* Continuing one.
LEMMA ContinuesKeep ==
    ASSUME ClaimsInv, NEW r \in Runs, Continues(r) PROVE ClaimsInv'
<1>1. Own(r) /\ ClaimsTyped /\ log \in [Ids -> OneLog]
  BY DEF ClaimsInv, ClaimsTyped
<1>2. CASE Resume(r)
  <2>1. /\ pc[r] = "idle" /\ goal' = [goal EXCEPT ![r] = "newest"] /\ Goes(r, "ensuring")
        /\ UNCHANGED <<log, claim, name, seen>>
    BY <1>2 DEF Resume
  <2>2. ClaimsTyped' /\ Alone(r) /\ Gentle(r) /\ pc'[r] = "ensuring" /\ goal'[r] = "newest"
    BY <1>1, <2>1, GoesHere DEF ClaimPlaces
  <2>3. Own(r)' /\ ~Starting(r)'
    BY <1>1, <2>1, <2>2 DEF Own, Starting, Holding, Continuing, Nameless
  <2> QED  BY <2>1, <2>2, <2>3, QuietStep
<1>3. ASSUME NEW i \in Ids, Belongs(i), pc[r] \in {"idle", "picking"},
             name' = [name EXCEPT ![r] = i], Goes(r, "claiming"), UNCHANGED <<log, claim, seen>>,
             goal' = goal \/ goal' = [goal EXCEPT ![r] = "other"]
      PROVE  ClaimsInv'
  <2>1. ClaimsTyped' /\ Alone(r) /\ Gentle(r) /\ pc'[r] = "claiming" /\ name'[r] = i
    BY <1>1, <1>3 DEF ClaimsTyped, Goes, ClaimPlaces, Alone, Gentle
  <2>2. Own(r)' /\ ~Starting(r)'
    BY <1>1, <1>3, <2>1 DEF Own, Starting, Holding, Continuing, Nameless, Belongs
  <2> QED  BY <1>3, <2>1, <2>2, QuietStep
<1>4. CASE Pick(r)
  <2>1. CASE \E i \in Ids : Belongs(i)
    <3> DEFINE newest == CHOOSE i \in Ids : Belongs(i) /\ \A j \in Ids : Belongs(j) => j <= i
    <3>1. newest \in Ids /\ Belongs(newest)
      <4> DEFINE B == {i \in Ids : Belongs(i)}
      <4>1. B \in SUBSET Ids /\ B # {}
        BY <2>1
      <4>2. \E i \in B : \A j \in B : j <= i
        BY <4>1, Extremes
      <4>3. \E i \in Ids : Belongs(i) /\ \A j \in Ids : Belongs(j) => j <= i
        BY <4>2
      <4> QED  BY <4>3
    <3>2. /\ pc[r] = "picking" /\ name' = [name EXCEPT ![r] = newest]
          /\ goal' = [goal EXCEPT ![r] = "other"] /\ Goes(r, "claiming")
          /\ UNCHANGED <<log, claim, seen>>
      BY <1>4, <2>1 DEF Pick
    <3> HIDE DEF newest
    <3> QED  BY <1>3, <3>1, <3>2
  <2>2. CASE Ends(r)
    BY <1>4, <2>2, EndsQuietly DEF Pick
  <2> QED  BY <1>4, <2>1, <2>2 DEF Pick
<1>5. ASSUME NEW i \in Ids, Reopen(r, i) PROVE ClaimsInv'
  <2>1. /\ pc[r] = "idle" /\ Belongs(i) /\ name' = [name EXCEPT ![r] = i]
        /\ Goes(r, "claiming") /\ UNCHANGED <<log, claim, seen, goal>>
    BY <1>5 DEF Reopen
  <2> QED  BY <1>3, <2>1
<1>6. CASE ClaimLog(r)
  <2> DEFINE i == name[r]
  <2>1. pc[r] = "claiming" /\ i \in Ids /\ seen[r] = <<>> /\ log[i].header
    BY <1>1, <1>6 DEF ClaimLog, Own, Nameless, Continuing
  <2>2. CASE Ends(r)
    BY <1>6, <2>2, EndsQuietly DEF ClaimLog
  <2>3. CASE /\ claim[i] = None /\ claim' = [claim EXCEPT ![i] = r] /\ Goes(r, "replaying")
             /\ UNCHANGED <<goal, name, seen>>
    <3>1. ClaimsTyped' /\ Alone(r) /\ Gentle(r) /\ pc'[r] = "replaying" /\ claim'[i] = r /\ log' = log
      BY <1>1, <1>6, <2>1, <2>3, NoneAssumption DEF ClaimLog, ClaimsTyped, Goes, ClaimPlaces, Alone, Gentle
    <3>2. Own(r)' /\ ~Starting(r)'
      BY <1>1, <2>1, <2>3, <3>1 DEF Own, Starting, Holding, Continuing, Nameless
    <3> QED  BY <3>1, <3>2, QuietStep
  <2> QED  BY <1>6, <2>2, <2>3 DEF ClaimLog
<1>7. CASE Replay(r)
  <2>1. /\ pc[r] = "replaying" /\ seen' = [seen EXCEPT ![r] = log[name[r]].lines]
        /\ Goes(r, "cutting") /\ UNCHANGED <<log, claim, goal, name>>
    BY <1>7 DEF Replay
  <2>2. name[r] \in Ids /\ claim[name[r]] = r /\ log[name[r]].header /\ log[name[r]].lines \in Seq(Runs)
    BY <1>1, <2>1 DEF Own, Nameless, Holding, Continuing, OneLog
  <2>3. /\ ClaimsTyped' /\ Alone(r) /\ Gentle(r) /\ pc'[r] = "cutting"
        /\ seen'[r] = log[name[r]].lines
    BY <1>1, <2>1, <2>2 DEF ClaimsTyped, Goes, ClaimPlaces, Alone, Gentle
  <2>4. Own(r)' /\ ~Starting(r)'
    BY <1>1, <2>1, <2>2, <2>3 DEF Own, Starting, Holding, Continuing, Nameless
  <2> QED  BY <2>1, <2>3, <2>4, QuietStep
<1>8. CASE Shorten(r)
  <2> DEFINE i == name[r]
  <2>1. /\ pc[r] = "cutting" /\ Has(r, "open")
        /\ log' = [log EXCEPT ![i].torn = Len(log[i].lines) < Len(seen[r]),
                              ![i].lines = IF Len(log[i].lines) < Len(seen[r]) THEN @
                                           ELSE SubSeq(@, 1, Len(seen[r]))]
    BY <1>8 DEF Shorten
  <2>2. /\ i \in Ids /\ claim[i] = r /\ log[i].header /\ log[i].made /\ log[i].lines = seen[r]
        /\ log[i] \in OneLog /\ seen[r] \in Seq(Runs)
    BY <1>1, <2>1 DEF Own, Nameless, Holding, Continuing, ClaimsInv, ClaimsTyped, HeadedIsMade
  <2>3. log' = [log EXCEPT ![i] = OpenLog(seen[r])]
    <3>1. SubSeq(seen[r], 1, Len(seen[r])) = seen[r] /\ ~(Len(seen[r]) < Len(seen[r]))
      BY <2>2
    <3> DEFINE missing == Len(log[i].lines) < Len(seen[r])
               kept == SubSeq(log[i].lines, 1, Len(seen[r]))
    <3>4. ~missing /\ missing \in BOOLEAN /\ kept = seen[r]
      BY <2>2, <3>1
    <3>5. log' = [log EXCEPT ![i].torn = missing,
                             ![i].lines = IF missing THEN @ ELSE SubSeq(@, 1, Len(seen[r]))]
      BY <2>1
    <3> HIDE DEF missing
    <3>6. /\ log' \in [Ids -> OneLog] /\ log'[i].made /\ log'[i].header
          /\ log'[i].torn = missing /\ log'[i].lines = kept
      BY <1>1, <2>2, <3>4, <3>5 DEF OneLog
    <3>2. /\ log' \in [Ids -> OneLog] /\ log'[i].made /\ log'[i].header
          /\ ~log'[i].torn /\ log'[i].lines = seen[r]
          /\ \A j \in Ids \ {i} : log'[j] = log[j]
      BY <1>1, <3>4, <3>5, <3>6
    <3>3. log'[i] = OpenLog(seen[r])
      BY <2>2, <3>2, OpenLogIsOne, IsOpenLog
    <3> QED  BY <1>1, <2>2, <3>2, <3>3
  <2>4. OpenLog(seen[r]) \in OneLog /\ OpenLog(seen[r]).header /\ OpenLog(seen[r]).made
    BY <2>2, OpenLogIsOne
  <2>5. /\ log' \in [Ids -> OneLog] /\ log'[i] = OpenLog(seen[r])
        /\ \A s \in Runs \ {r} : LogKept(s)
        /\ HeadedIsMade'
    BY <2>1, <2>3, <2>4, OwnLogWritten
  <2>6. /\ ClaimsTyped' /\ Alone(r) /\ Gentle(r) /\ pc'[r] = "open"
        /\ name' = name /\ seen' = seen /\ claim' = claim
    BY <1>1, <2>1, <2>5, HasHere DEF ClaimPlaces
  <2>7. Own(r)' /\ ~Starting(r)'
    BY <2>2, <2>4, <2>5, <2>6 DEF Own, Starting, Holding, Continuing, Nameless
  <2> QED  BY <2>5, <2>6, <2>7, StepKeeps
<1>9. CASE ContinueFails(r)
  BY <1>9, EndsQuietly DEF ContinueFails
<1> QED  BY <1>2, <1>4, <1>5, <1>6, <1>7, <1>8, <1>9 DEF Continues

\* The session, and looking at one.
LEMMA SessionKeeps ==
    ASSUME ClaimsInv, NEW r \in Runs,
           \/ AppendLine(r) \/ Drop(r) \/ Glimpsed(r)
           \/ \E i \in Ids : Retitle(r, i) \/ Glimpse(r, i)
    PROVE  ClaimsInv'
<1>1. Own(r) /\ ClaimsTyped /\ log \in [Ids -> OneLog]
  BY DEF ClaimsInv, ClaimsTyped
<1>2. CASE AppendLine(r)
  <2> DEFINE i == name[r]
             lines == Append(seen[r], r)
  <2>1. /\ pc[r] = "open" /\ log' = [log EXCEPT ![i].lines = Append(@, r)]
        /\ seen' = [seen EXCEPT ![r] = lines]
        /\ UNCHANGED <<claim, pc, goal, name>>
    BY <1>2 DEF AppendLine
  <2>2. i \in Ids /\ claim[i] = r /\ log[i] = OpenLog(seen[r]) /\ seen[r] \in Seq(Runs)
    BY <1>1, <2>1 DEF Own, Nameless, Holding, ClaimsTyped
  <2>3. lines \in Seq(Runs)
    BY <2>2
  <2>4. log' = [log EXCEPT ![i] = OpenLog(lines)]
    <3> DEFINE l == [log[i] EXCEPT !.lines = Append(@, r)]
    <3>1. l \in OneLog /\ l.made /\ l.header /\ ~l.torn /\ l.lines = lines
      <4>1. /\ log[i] \in OneLog /\ log[i].made /\ log[i].header
            /\ ~log[i].torn /\ log[i].lines = seen[r]
        BY <2>2, OpenLogIsOne
      <4> QED  BY <2>3, <4>1 DEF OneLog
    <3>2. l = OpenLog(lines)
      <4> HIDE DEF l
      <4> QED  BY <2>3, <3>1, OpenLogIsOne, IsOpenLog
    <3> QED  BY <1>1, <2>1, <2>2, <3>2
  <2>5. OpenLog(lines) \in OneLog /\ OpenLog(lines).header /\ OpenLog(lines).made
    BY <2>3 DEF OpenLog, OneLog
  <2> HIDE DEF lines
  <2>6. /\ log' \in [Ids -> OneLog] /\ log'[i] = OpenLog(lines)
        /\ \A s \in Runs \ {r} : LogKept(s)
        /\ HeadedIsMade'
    BY <2>1, <2>4, <2>5, OwnLogWritten
  <2>7. ClaimsTyped' /\ Alone(r) /\ Gentle(r) /\ seen'[r] = lines
    BY <1>1, <2>1, <2>3, <2>6 DEF ClaimsTyped, Alone, Gentle
  <2>8. Own(r)' /\ ~Starting(r)'
    BY <2>1, <2>2, <2>5, <2>6, <2>7 DEF Own, Starting, Holding, Continuing, Nameless
  <2> QED  BY <2>6, <2>7, <2>8, StepKeeps
<1>3. CASE Drop(r)
  <2>1. pc[r] \in {"open", "unbegun"} /\ Keeps(r, "amending") /\ log' = log
    BY <1>3 DEF Drop
  <2>2. /\ ClaimsTyped' /\ Alone(r) /\ Gentle(r) /\ pc'[r] = "amending"
        /\ name' = name /\ seen' = seen /\ claim' = claim /\ goal' = goal
    BY <1>1, <2>1, KeepsHere DEF ClaimPlaces
  <2>3. Own(r)' /\ ~Starting(r)'
    BY <1>1, <2>1, <2>2 DEF Own, Starting, Holding, Continuing, Nameless
  <2> QED  BY <2>1, <2>2, <2>3, QuietStep
<1>4. CASE Glimpsed(r)
  BY <1>4, EndsQuietly DEF Glimpsed
<1>5. ASSUME NEW i \in Ids, Retitle(r, i) PROVE ClaimsInv'
  <2>1. /\ pc[r] = "idle" /\ name' = [name EXCEPT ![r] = i] /\ Goes(r, "amending")
        /\ UNCHANGED <<log, claim, goal, seen>>
    BY <1>5 DEF Retitle
  <2>2. ClaimsTyped' /\ Alone(r) /\ Gentle(r) /\ pc'[r] = "amending" /\ name'[r] = i
    BY <1>1, <2>1 DEF ClaimsTyped, Goes, ClaimPlaces, Alone, Gentle
  <2>3. Own(r)' /\ ~Starting(r)'
    BY <1>1, <2>1, <2>2 DEF Own, Starting, Holding, Continuing, Nameless
  <2> QED  BY <2>1, <2>2, <2>3, QuietStep
<1>6. ASSUME NEW i \in Ids, Glimpse(r, i) PROVE ClaimsInv'
  <2>1. /\ pc[r] = "idle" /\ Belongs(i) /\ claim[i] = None
        /\ claim' = [claim EXCEPT ![i] = r] /\ name' = [name EXCEPT ![r] = i]
        /\ Goes(r, "glimpsing") /\ UNCHANGED <<log, goal, seen>>
    BY <1>6 DEF Glimpse
  <2>2. /\ ClaimsTyped' /\ Alone(r) /\ Gentle(r)
        /\ pc'[r] = "glimpsing" /\ name'[r] = i /\ claim'[i] = r
    BY <1>1, <2>1, NoneAssumption DEF ClaimsTyped, Goes, ClaimPlaces, Alone, Gentle
  <2>3. Own(r)' /\ ~Starting(r)'
    BY <1>1, <2>1, <2>2 DEF Own, Starting, Holding, Continuing, Nameless, Belongs
  <2> QED  BY <2>1, <2>2, <2>3, QuietStep
<1> QED  BY <1>2, <1>3, <1>4, <1>5, <1>6

\* The process of a run dies.
LEMMA KillKeepsClaims ==
    ASSUME ClaimsInv, NEW r \in Runs, Kill(r) PROVE ClaimsInv'
<1> DEFINE i == name[r]
<1>1. Own(r) /\ ClaimsTyped /\ log \in [Ids -> OneLog] /\ Ends(r)
  BY DEF ClaimsInv, ClaimsTyped, Kill
<1>2. CASE log' = log
  BY <1>1, <1>2, EndsQuietly
<1>3. ASSUME pc[r] \in {"open", "heading"}, log[i].made, NEW torn \in {log[i].torn, TRUE},
             log' = [log EXCEPT ![i].torn = torn]
      PROVE  ClaimsInv'
  <2>1. i \in Ids
    BY <1>1, <1>3 DEF Own, Nameless
  <2>2. log' \in [Ids -> OneLog]
    BY <1>1, <1>3, <2>1 DEF OneLog
  <2>3. \A j \in Ids : log'[j].header = log[j].header /\ log'[j].made = log[j].made
    BY <1>1, <1>3, <2>1 DEF OneLog
  <2>4. \A j \in Ids \ {i} : log'[j] = log[j]
    BY <1>1, <1>3, <2>1
  <2>5. HeadedIsMade'
    BY <2>3 DEF ClaimsInv, HeadedIsMade
  <2>6. Starting(r) \/ (pc[r] \in {"open", "cutting"} /\ log'[i].header)
    <3>1. CASE pc[r] = "heading"
      BY <3>1 DEF Starting
    <3>2. CASE pc[r] = "open"
      BY <1>1, <2>1, <2>3, <3>2 DEF Own, Continuing
    <3> QED  BY <1>3, <3>1, <3>2
  <2>7. \A s \in Runs \ {r} : LogKept(s)
    BY <2>1, <2>4, <2>6, ChangedAt
  <2> QED  BY <1>1, <2>2, <2>5, <2>7, EndsHere, StepKeeps
<1> QED  BY <1>2, <1>3 DEF Kill

\* An older build begins a session of its own.
LEMMA OlderBuildKeeps ==
    ASSUME ClaimsInv, NEW i \in Ids, OlderBuild(i) PROVE ClaimsInv'
<1>1. /\ ClaimsTyped /\ log \in [Ids -> OneLog] /\ ~log[i].made
      /\ log' = [log EXCEPT ![i] = [EmptyLog EXCEPT !.header = TRUE]]
      /\ UNCHANGED <<claim, pc, goal, name, seen>>
  BY DEF ClaimsInv, ClaimsTyped, OlderBuild
<1>2. [EmptyLog EXCEPT !.header = TRUE] = OpenLog(<<>>) /\ OpenLog(<<>>) \in OneLog
  <2> DEFINE l == [EmptyLog EXCEPT !.header = TRUE]
  <2>1. NoLog \in OneLog
    BY DEF NoLog, OneLog
  <2>2. EmptyLog \in OneLog
    BY <2>1 DEF EmptyLog, OneLog
  <2>3. l \in OneLog /\ l.made /\ l.header /\ ~l.torn /\ l.lines = <<>>
    BY <2>2 DEF OneLog, EmptyLog, NoLog
  <2>4. <<>> \in Seq(Runs)
    OBVIOUS
  <2> HIDE DEF l
  <2>5. l = OpenLog(<<>>) /\ OpenLog(<<>>) \in OneLog
    BY <2>3, <2>4, OpenLogIsOne, IsOpenLog
  <2> QED  BY <2>5 DEF l
<1>3. log' \in [Ids -> OneLog] /\ log'[i] = OpenLog(<<>>) /\ \A j \in Ids \ {i} : log'[j] = log[j]
  BY <1>1, <1>2
<1>4. ClaimsTyped' /\ HeadedIsMade'
  <2>1. ClaimsTyped'
    BY <1>1, <1>3 DEF ClaimsTyped
  <2>2. HeadedIsMade'
    BY <1>3 DEF ClaimsInv, HeadedIsMade, OpenLog
  <2> QED  BY <2>1, <2>2
<1>5. ASSUME NEW s \in Runs PROVE Own(s)'
  <2>1. Own(s) /\ LogKept(s)
    BY <1>1, <1>3, ChangedAt DEF ClaimsInv
  <2> QED  BY <1>1, <2>1, OthersKeep
<1>6. StartsApart'
  BY <1>1 DEF ClaimsInv, StartsApart, Starting
<1> QED  BY <1>4, <1>5, <1>6 DEF ClaimsInv

LEMMA ClaimsInvInit == ClaimsInit => ClaimsInv
<1> SUFFICES ASSUME ClaimsInit PROVE ClaimsInv
  OBVIOUS
<1>1. NoLog \in OneLog /\ ~NoLog.header
  BY DEF NoLog, OneLog
<1>2. EmptyLog \in OneLog /\ EmptyLog.made
  BY <1>1 DEF EmptyLog, OneLog
<1> DEFINE begun == [EmptyLog EXCEPT !.header = TRUE]
<1>3. begun \in OneLog /\ begun.made
  BY <1>2 DEF OneLog
<1>4. log \in [Ids -> OneLog] /\ HeadedIsMade
  <2>1. PICK old \in SUBSET Ids : log = [i \in Ids |-> IF i \in old THEN begun ELSE NoLog]
    BY Zenon DEF ClaimsInit
  <2> HIDE DEF begun
  <2>2. log \in [Ids -> OneLog]
    BY <1>1, <1>3, <2>1
  <2>3. \A i \in Ids : log[i] = begun \/ log[i] = NoLog
    BY <2>1
  <2> QED  BY <1>1, <1>3, <2>2, <2>3 DEF HeadedIsMade
<1>5. ClaimsTyped
  <2>1. /\ claim = [i \in Ids |-> None] /\ pc = [r \in Runs |-> "idle"]
        /\ goal = [r \in Runs |-> "other"] /\ name = [r \in Runs |-> None]
        /\ seen = [r \in Runs |-> <<>>]
    BY Zenon DEF ClaimsInit
  <2> QED  BY <1>4, <2>1 DEF ClaimsTyped, ClaimPlaces
<1>6. \A r \in Runs : Own(r)
  BY DEF ClaimsInit, Own, Starting, Holding, Continuing, Nameless
<1>7. StartsApart
  BY DEF ClaimsInit, StartsApart, Starting
<1> QED  BY <1>4, <1>5, <1>6, <1>7 DEF ClaimsInv

LEMMA ClaimsInvInductive == ClaimsInv /\ [ClaimsNext]_claimsVars => ClaimsInv'
<1> SUFFICES ASSUME ClaimsInv, [ClaimsNext]_claimsVars PROVE ClaimsInv'
  OBVIOUS
<1>1. CASE UNCHANGED claimsVars
  BY <1>1 DEF claimsVars, ClaimsInv, ClaimsTyped, Own, StartsApart, HeadedIsMade, Starting, Holding,
              Continuing, Nameless
<1>2. ASSUME NEW r \in Runs, IndexStep(r) \/ Starts(r) \/ Continues(r) \/ Kill(r)
      PROVE  ClaimsInv'
  BY <1>2, IndexKeeps, StartsKeep, ContinuesKeep, KillKeepsClaims
<1>3. ASSUME NEW r \in Runs,
             \/ AppendLine(r) \/ Drop(r) \/ Glimpsed(r)
             \/ \E i \in Ids : Retitle(r, i) \/ Glimpse(r, i)
      PROVE  ClaimsInv'
  BY <1>3, SessionKeeps
<1>4. ASSUME NEW i \in Ids, OlderBuild(i) PROVE ClaimsInv'
  BY <1>4, OlderBuildKeeps
<1> QED  BY <1>1, <1>2, <1>3, <1>4 DEF ClaimsNext

LEMMA ClaimsAreHeld == ClaimsSpec => []ClaimsInv
BY ClaimsInvInit, ClaimsInvInductive, PTL DEF ClaimsSpec

(* An open session's log is what its run read and wrote of it: whoever else
   names, starts, continues, drops, is refused or dies, nobody cuts it, appends
   to it or removes it (claim.rs, session.rs). *)
THEOREM OpenIsItsOwn == ClaimsSpec => []OpenLogIsItsOwn
<1>1. ClaimsInv => OpenLogIsItsOwn
  BY DEF ClaimsInv, Own, OpenLogIsItsOwn, OpenLog
<1> QED  BY <1>1, ClaimsAreHeld, PTL

(* Until its header is written a new session's log is empty and nobody else is
   at it, so that a refused start removes nothing but what it made
   (session.rs:1516-1536). *)
THEOREM NobodyElseStartsIt == ClaimsSpec => []StartsAlone
BY StartsAloneHolds, ClaimsAreHeld, PTL
-----------------------------------------------------------------------------
(* A session that can be continued, or is about to be: the index names it, or
   is full of what may stand for it. *)
Due(i) == log[i].header \/ \E r \in Runs : pc[r] = "heading" /\ name[r] = i
Covers(S, i) ==
    \/ i \in S
    \/ Cardinality(S) = ENTRIES /\ Cardinality(Above(S, i)) >= ENTRIES - 1
Complete(S) == \A i \in Ids : Due(i) => Covers(S, i)
CompleteNext(S) == \A i \in Ids : Due(i)' => Covers(S, i)
Fits(S) == S \in SUBSET Ids /\ Cardinality(S) <= ENTRIES

IndexTyped ==
    /\ index \in Texts /\ ordered \in Texts
    /\ draft \in [Runs -> [text : Texts, vouch : BOOLEAN, placed : BOOLEAN]]
    /\ older \in {"no", "wrote", "came back"}

(* What is about to replace the index, under its lock. *)
DraftInv(r) ==
    draft[r] # NoDraft =>
        /\ pc[r] \in Indexing /\ lock = r
        /\ draft[r].text.order = "started"
        /\ Fits(draft[r].text.held)
        /\ draft[r].placed => draft[r].vouch /\ index = draft[r].text
        /\ draft[r].vouch /\ (pc[r] # "ensuring" \/ draft[r].placed) => older # "wrote"
        /\ pc[r] = "recording" => name[r] \in draft[r].text.held
        /\ (\/ pc[r] = "ensuring"
            \/ draft[r].vouch /\ older # "came back"
            \/ older = "no" /\ ordered # NoText) => Complete(draft[r].text.held)

IndexInv ==
    /\ IndexTyped
    /\ Fits(index.held)
    /\ ordered = NoText \/ ordered.order = "started"
    /\ Vouched => older # "wrote"
    /\ Vouched /\ older # "came back" => Complete(index.held)
    /\ older = "no" /\ ordered # NoText => Complete(index.held)
    /\ \A r \in Runs : DraftInv(r)

\* What `ensure` puts together covers every session there is.
LEMMA EnsuredCovers ==
    ASSUME ClaimsInv, Fits(index.held)
    PROVE  Fits(Ensured) /\ Complete(Ensured)
<1> DEFINE M == {i \in Ids : log[i].made}
           Y == index.held \cup Newest(M)
<1>1. M \in SUBSET Ids /\ Newest(M) \in SUBSET M /\ Cardinality(Newest(M)) <= ENTRIES
  <2>1. M \in SUBSET Ids
    OBVIOUS
  <2> HIDE DEF M
  <2> QED  BY <2>1, NewestFit
<1>2. Y \in SUBSET Ids
  BY <1>1 DEF Fits
<1>3. Ensured = Newest(Y)
  BY DEF Ensured
<1>4. Fits(Ensured)
  <2> HIDE DEF Y
  <2> QED  BY <1>2, <1>3, NewestFit DEF Fits
<1>5. ASSUME NEW i \in Ids, Due(i) PROVE Covers(Ensured, i)
  <2>1. i \in M
    <3>1. ASSUME NEW r \in Runs, pc[r] = "heading", name[r] = i PROVE log[i].made
      BY <3>1 DEF ClaimsInv, Own, Starting, EmptyLog, NoLog
    <3> QED  BY <1>5, <3>1 DEF Due, ClaimsInv, HeadedIsMade
  <2> HIDE DEF M
  <2>2. ASSUME Cardinality(Above(Y, i)) >= ENTRIES PROVE Covers(Ensured, i)
    <3> HIDE DEF Y
    <3>1. Cardinality(Newest(Y)) = ENTRIES /\ Above(Newest(Y), i) = Newest(Y)
      BY <1>2, <2>2, NewestAreAbove
    <3> QED  BY <1>3, <3>1, BoundsAssumption DEF Covers
  <2>3. CASE i \in Newest(M)
    <3>1. i \in Y
      BY <2>3
    <3> HIDE DEF Y
    <3>2. Above(Y, i) \in SUBSET Ids
      BY <1>2 DEF Above
    <3>3. Cardinality(Above(Y, i)) \in Nat
      BY <3>2, NamesAreFinite
    <3>4. i \in Newest(Y) \/ Cardinality(Above(Y, i)) >= ENTRIES
      BY <3>1, <3>3, BoundsAssumption DEF Newest, Above
    <3> QED  BY <1>3, <2>2, <3>4 DEF Covers
  <2>4. CASE i \notin Newest(M)
    <3>1. Cardinality(Above(M, i)) >= ENTRIES
      <4>1. Above(M, i) \in SUBSET Ids
        BY <1>1 DEF Above
      <4>2. Cardinality(Above(M, i)) \in Nat
        BY <4>1, NamesAreFinite
      <4> QED  BY <2>1, <2>4, <4>2, BoundsAssumption DEF Newest, Above
    <3>2. Cardinality(Newest(M)) = ENTRIES /\ Above(Newest(M), i) = Newest(M)
      BY <1>1, <3>1, NewestAreAbove
    <3>3. Newest(M) \in SUBSET Above(Y, i) /\ Above(Y, i) \in SUBSET Ids
      BY <1>2, <3>2 DEF Above
    <3>4. Cardinality(Newest(M)) <= Cardinality(Above(Y, i))
      BY <3>3, NamesAreFinite
    <3> QED  BY <2>2, <3>2, <3>4
  <2> QED  BY <2>3, <2>4
<1> QED  BY <1>4, <1>5 DEF Complete

\* Recording a session keeps what the index covers.
LEMMA RecordedCovers ==
    ASSUME NEW k \in Ids, Fits(index.held)
    PROVE  /\ Fits(Recorded(k)) /\ k \in Recorded(k)
           /\ \A i \in Ids : Covers(index.held, i) => Covers(Recorded(k), i)
<1> DEFINE S == index.held
           all == S \cup {k}
<1>1. /\ S \in SUBSET Ids /\ all \in SUBSET Ids /\ IsFiniteSet(S) /\ IsFiniteSet(all)
      /\ Cardinality(S) \in Nat /\ Cardinality(all) \in Nat /\ Cardinality(S) <= ENTRIES
      /\ Cardinality(all) = IF k \in S THEN Cardinality(S) ELSE Cardinality(S) + 1
  <2>1. S \in SUBSET Ids /\ all \in SUBSET Ids /\ Cardinality(S) <= ENTRIES
    BY DEF Fits
  <2>2. IsFiniteSet(S) /\ IsFiniteSet(all) /\ Cardinality(S) \in Nat /\ Cardinality(all) \in Nat
    BY <2>1, NamesAreFinite
  <2> QED  BY <2>1, <2>2, FS_AddElement
<1>2. CASE Cardinality(all) <= ENTRIES
  <2>1. Recorded(k) = all
    BY <1>1, <1>2, BoundsAssumption DEF Recorded
  <2>2. ASSUME NEW i \in Ids, Covers(S, i) PROVE Covers(all, i)
    <3>1. CASE i \in S
      BY <3>1 DEF Covers
    <3>2. CASE i \notin S
      <4>1. Cardinality(S) = ENTRIES
        BY <2>2, <3>2 DEF Covers
      <4>2. all = S
        BY <1>1, <1>2, <4>1, BoundsAssumption
      <4> QED  BY <2>2, <4>2
    <3> QED  BY <3>1, <3>2
  <2> QED  BY <1>1, <1>2, <2>1, <2>2 DEF Fits
<1>3. CASE Cardinality(all) > ENTRIES
  <2> DEFINE o == Oldest(S)
             R == (S \ {o}) \cup {k}
  <2>1. k \notin S /\ Cardinality(S) = ENTRIES /\ all \ {k} = S /\ S # {}
    <3>1. k \notin S /\ Cardinality(S) = ENTRIES /\ all \ {k} = S
      BY <1>1, <1>3, BoundsAssumption
    <3>2. S # {}
      BY <3>1, FS_EmptySet, BoundsAssumption
    <3> QED  BY <3>1, <3>2
  <2>2. Recorded(k) = all \ {o}
    BY <1>1, <1>3, <2>1, BoundsAssumption DEF Recorded
  <2>3. o \in S /\ \A j \in S : o <= j
    <3>1. \E m \in S : \A j \in S : m <= j
      BY <1>1, <2>1, Extremes
    <3> QED  BY <3>1 DEF Oldest
  <2>4. Recorded(k) = R
    BY <2>1, <2>2, <2>3
  <2>5. /\ IsFiniteSet(S \ {o}) /\ Cardinality(S \ {o}) = ENTRIES - 1
        /\ IsFiniteSet(R) /\ Cardinality(R) = ENTRIES /\ R \in SUBSET Ids
    <3>1. IsFiniteSet(S \ {o}) /\ Cardinality(S \ {o}) = ENTRIES - 1
      BY <1>1, <2>1, <2>3, FS_RemoveElement
    <3>2. IsFiniteSet(R) /\ Cardinality(R) = ENTRIES - 1 + 1
      BY <2>1, <3>1, FS_AddElement
    <3> QED  BY <1>1, <3>1, <3>2, BoundsAssumption
  <2>6. ASSUME NEW i \in Ids, Covers(S, i) PROVE Covers(R, i)
    <3>1. CASE i \in R
      BY <3>1 DEF Covers
    <3>2. CASE i \notin R
      <4>1. i # k /\ (i = o \/ i \notin S)
        BY <3>2
      <4>2. i \in Nat /\ o \in Nat /\ \A j \in S : j \in Nat
        BY <1>1, <2>3, NamesAreNumbers
      <4>3. Above(R, i) \in SUBSET Ids
        BY <2>5 DEF Above
      <4>4. CASE i < o \/ i = o
        <5>1. S \ {o} \in SUBSET Above(R, i)
          <6>1. \A j \in S \ {o} : j > i
            BY <2>3, <4>2, <4>4
          <6> QED  BY <6>1 DEF Above
        <5>2. Cardinality(S \ {o}) <= Cardinality(Above(R, i))
          BY <4>3, <5>1, NamesAreFinite
        <5> QED  BY <2>5, <5>2 DEF Covers
      <4>5. CASE o < i
        <5>1. i \notin S
          BY <4>1, <4>2, <4>5
        <5>2. Cardinality(Above(S, i)) >= ENTRIES - 1
          BY <2>6, <5>1 DEF Covers
        <5>3. Above(S, i) \in SUBSET Above(R, i)
          <6>1. ~(o > i)
            BY <4>2, <4>5
          <6> QED  BY <6>1 DEF Above
        <5>4. /\ Cardinality(Above(S, i)) <= Cardinality(Above(R, i))
              /\ Cardinality(Above(S, i)) \in Nat /\ Cardinality(Above(R, i)) \in Nat
          BY <4>3, <5>3, NamesAreFinite
        <5> QED  BY <2>5, <5>2, <5>4, BoundsAssumption DEF Covers
      <4> QED  BY <4>2, <4>4, <4>5
    <3> QED  BY <3>1, <3>2
  <2>7. k \in R
    OBVIOUS
  <2> HIDE DEF R
  <2> QED  BY <2>4, <2>5, <2>6, <2>7, BoundsAssumption DEF Fits
<1> QED  BY <1>1, <1>2, <1>3, BoundsAssumption
-----------------------------------------------------------------------------
\* Under the lock of one run, or of none, no other is about to replace the index.
LEMMA OneDraft ==
    ASSUME IndexInv, NEW r \in Runs, NEW s \in Runs, lock = None \/ (lock = r /\ s # r)
    PROVE  draft[s] = NoDraft
BY NoneAssumption DEF IndexInv, DraftInv

\* What is due after a step was due before it, or is what the step is of.
LEMMA StillDue ==
    ASSUME \A i \in Ids : log'[i].header => Due(i),
           \A s \in Runs : pc'[s] = "heading" => pc[s] = "heading" /\ name'[s] = name[s],
           NEW S, Complete(S)
    PROVE  CompleteNext(S)
BY DEF Due, Complete, CompleteNext

\* A step that leaves the index alone.
LEMMA TableKept ==
    ASSUME IndexInv, UNCHANGED <<index, ordered, lock, draft, older>>,
           \A s \in Runs : draft[s] # NoDraft => pc'[s] = pc[s] /\ name'[s] = name[s],
           \A i \in Ids : log'[i].header => Due(i),
           \A s \in Runs : pc'[s] = "heading" => pc[s] = "heading" /\ name'[s] = name[s]
    PROVE  IndexInv'
<1>1. ASSUME NEW S, Complete(S) PROVE CompleteNext(S)
  BY <1>1, StillDue
<1>2. ASSUME Complete(index.held) PROVE Complete(index.held)'
  <2>1. CompleteNext(index.held)
    BY <1>1, <1>2
  <2> QED  BY <2>1 DEF CompleteNext, Complete
<1>3. ASSUME NEW s \in Runs PROVE DraftInv(s)'
  <2> SUFFICES ASSUME draft[s] # NoDraft PROVE DraftInv(s)'
    BY DEF DraftInv
  <2>1. DraftInv(s) /\ pc'[s] = pc[s] /\ name'[s] = name[s]
    BY DEF IndexInv
  <2>2. Complete(draft[s].text.held) => Complete(draft[s].text.held)'
    <3>1. Complete(draft[s].text.held) => CompleteNext(draft[s].text.held)
      BY <1>1
    <3> QED  BY <3>1 DEF CompleteNext, Complete
  <2> QED  BY <2>1, <2>2 DEF DraftInv
<1>4. IndexTyped' /\ Fits(index.held)' /\ (ordered = NoText \/ ordered.order = "started")'
  BY DEF IndexInv, IndexTyped, Fits
<1>5. Vouched' = Vouched
  BY DEF Vouched
<1> QED  BY <1>2, <1>3, <1>4, <1>5 DEF IndexInv

\* Steps that have nothing to do with the index.
LEMMA StartsLeaveIndex ==
    ASSUME ClaimsInv, IndexInv, NEW r \in Runs, Starts(r) PROVE IndexInv'
<1>1. UNCHANGED <<index, ordered, lock, draft, older>>
  BY DEF Starts, Start, StartDeferred, NamingFails, Make, WriteHeader, HeaderFails, RemoveLog, Mint, table
<1>2. /\ \A s \in Runs \ {r} : pc'[s] = pc[s] /\ name'[s] = name[s]
      /\ pc[r] \notin Indexing /\ pc'[r] # "heading"
  BY DEF ClaimsInv, ClaimsTyped, Starts, Start, StartDeferred, NamingFails, Make, WriteHeader, HeaderFails,
         RemoveLog, Mint, Goes, Ends, Has, Indexing
<1>3. ASSUME NEW i \in Ids, log'[i].header PROVE Due(i)
  <2>1. log \in [Ids -> OneLog]
    BY DEF ClaimsInv, ClaimsTyped
  <2>2. ~EmptyLog.header /\ ~NoLog.header
    BY DEF EmptyLog, NoLog
  <2>3. pc[r] # "idle" => name[r] \in Ids \/ pc[r] = "naming"
    BY <1>2 DEF ClaimsInv, Own, Nameless, Starts, Start, StartDeferred, NamingFails, Make, WriteHeader,
                HeaderFails, RemoveLog, Mint
  <2>4. CASE log' = log \/ log' = [log EXCEPT ![name[r]] = EmptyLog] \/ Removes(name[r])
             \/ log' = [log EXCEPT ![name[r]].torn = TRUE]
    BY <1>3, <2>1, <2>2, <2>4 DEF Due, Removes, OneLog
  <2>5. CASE WriteHeader(r)
    BY <1>3, <2>1, <2>5 DEF Due, WriteHeader
  <2>6. CASE UNCHANGED log
    BY <2>4, <2>6
  <2> QED  BY <2>4, <2>5, <2>6 DEF Starts, Start, StartDeferred, NamingFails, Make, HeaderFails, RemoveLog, Mint
<1>4. \A s \in Runs : draft[s] # NoDraft => pc'[s] = pc[s] /\ name'[s] = name[s]
  BY <1>2 DEF IndexInv, DraftInv
<1>5. \A s \in Runs : pc'[s] = "heading" => pc[s] = "heading" /\ name'[s] = name[s]
  BY <1>2
<1> QED  BY <1>1, <1>3, <1>4, <1>5, TableKept

LEMMA OthersLeaveIndex ==
    ASSUME ClaimsInv, IndexInv, NEW r \in Runs,
           \/ Continues(r)
           \/ AppendLine(r) \/ Drop(r) \/ Glimpsed(r)
           \/ \E i \in Ids : Retitle(r, i) \/ Glimpse(r, i)
    PROVE  IndexInv'
<1>1. UNCHANGED <<index, ordered, lock, draft, older>>
  BY DEF Continues, Resume, Pick, ClaimLog, Replay, Shorten, ContinueFails, Reopen, AppendLine, Drop,
         Glimpsed, Retitle, Glimpse, table
<1>2. /\ \A s \in Runs \ {r} : pc'[s] = pc[s] /\ name'[s] = name[s]
      /\ pc[r] \notin Indexing /\ pc'[r] # "heading"
  <2>1. CASE Continues(r)
    BY <2>1 DEF ClaimsInv, ClaimsTyped, Continues, Resume, Pick, ClaimLog, Replay, Shorten, ContinueFails,
             Reopen, Goes, Ends, Has, Indexing
  <2>2. CASE AppendLine(r) \/ Drop(r) \/ Glimpsed(r)
    BY <2>2 DEF ClaimsInv, ClaimsTyped, AppendLine, Drop, Glimpsed, Goes, Keeps, Ends, Indexing
  <2>3. CASE \E i \in Ids : Retitle(r, i) \/ Glimpse(r, i)
    BY <2>3 DEF ClaimsInv, ClaimsTyped, Retitle, Glimpse, Goes, Indexing
  <2> QED  BY <2>1, <2>2, <2>3
<1>3. ASSUME NEW i \in Ids, log'[i].header PROVE Due(i)
  <2>1. log \in [Ids -> OneLog]
    BY DEF ClaimsInv, ClaimsTyped
  <2>2. CASE UNCHANGED log
    BY <1>3, <2>2 DEF Due
  <2>3. CASE Shorten(r) \/ AppendLine(r)
    <3>1. name[r] \in Ids /\ log[name[r]].header
      BY <2>3 DEF ClaimsInv, Own, Nameless, Continuing, Shorten, AppendLine
    <3>2. \A j \in Ids \ {name[r]} : log'[j] = log[j]
      BY <2>1, <2>3 DEF Shorten, AppendLine
    <3> QED  BY <1>3, <3>1, <3>2 DEF Due
  <2> QED  BY <2>2, <2>3 DEF Continues, Resume, Pick, ClaimLog, Replay, ContinueFails, Reopen, Drop,
                             Glimpsed, Retitle, Glimpse
<1>4. \A s \in Runs : draft[s] # NoDraft => pc'[s] = pc[s] /\ name'[s] = name[s]
  BY <1>2 DEF IndexInv, DraftInv
<1>5. \A s \in Runs : pc'[s] = "heading" => pc[s] = "heading" /\ name'[s] = name[s]
  BY <1>2
<1> QED  BY <1>1, <1>3, <1>4, <1>5, TableKept
-----------------------------------------------------------------------------
\* What going on after a change of the index adds to what is due.
LEMMA DoneDue ==
    ASSUME ClaimsInv, NEW r \in Runs, Done(r), log' = log,
           NEW S, Complete(S), pc[r] = "recording" => name[r] \in S
    PROVE  CompleteNext(S)
<1> SUFFICES ASSUME NEW i \in Ids, Due(i)' PROVE Covers(S, i)
  BY DEF CompleteNext
<1>1. \A s \in Runs \ {r} : pc'[s] = pc[s] /\ name'[s] = name[s]
  BY DEF ClaimsInv, ClaimsTyped, Done, Keeps, Ends, Goes
<1>2. pc'[r] = "heading" => pc[r] = "recording" /\ name'[r] = name[r]
  BY DEF ClaimsInv, ClaimsTyped, Done, Keeps, Ends, Goes
<1>3. Due(i) \/ (pc[r] = "recording" /\ name[r] = i)
  BY <1>1, <1>2 DEF Due
<1> QED  BY <1>3 DEF Complete, Covers

\* And what a refusal adds: nothing.
LEMMA RefusedDue ==
    ASSUME ClaimsInv, NEW r \in Runs, Refused(r), NEW S, Complete(S)
    PROVE  CompleteNext(S)
<1>1. \A s \in Runs \ {r} : pc'[s] = pc[s] /\ name'[s] = name[s]
  BY DEF ClaimsInv, ClaimsTyped, Refused, Has, Ends, Goes
<1>2. pc'[r] # "heading"
  BY DEF ClaimsInv, ClaimsTyped, Refused, Has, Ends, Goes
<1>3. \A i \in Ids : log'[i].header => log[i].header
  <2>1. ~NoLog.header /\ log \in [Ids -> OneLog]
    BY DEF NoLog, ClaimsInv, ClaimsTyped
  <2>2. log' = log \/ Removes(name[r])
    BY DEF Refused
  <2> QED  BY <2>1, <2>2 DEF Removes
<1> QED  BY <1>1, <1>2, <1>3, StillDue DEF Due

\* There is nothing to do.
LEMMA NothingToDoKeeps ==
    ASSUME ClaimsInv, IndexInv, NEW r \in Runs, NothingToDo(r) PROVE IndexInv'
<1>1. UNCHANGED <<index, ordered, lock, draft, older>> /\ log' = log /\ Done(r) /\ lock = None
      /\ pc[r] \in {"ensuring", "amending"}
  BY DEF NothingToDo, Wants, table
<1>2. \A s \in Runs : draft[s] = NoDraft
  BY <1>1, OneDraft
<1>3. \A s \in Runs : pc'[s] = "heading" => pc[s] = "heading" /\ name'[s] = name[s]
  BY <1>1 DEF ClaimsInv, ClaimsTyped, Done, Keeps, Ends, Goes
<1> QED  BY <1>1, <1>2, <1>3, TableKept DEF Due

\* What is to replace the index is put together.
LEMMA DraftsKeep ==
    ASSUME ClaimsInv, IndexInv, NEW r \in Runs, NEW held, NEW vouch \in BOOLEAN,
           Wants(r), Drafts(r, held, vouch),
           Fits(held),
           vouch => pc[r] = "ensuring" \/ Vouched,
           pc[r] = "recording" => name[r] \in held,
           pc[r] = "ensuring" \/ (Complete(index.held) => Complete(held)),
           pc[r] = "ensuring" => Complete(held)
    PROVE  IndexInv'
<1> DEFINE text == Started(held)
           new == [text |-> text, vouch |-> vouch, placed |-> FALSE]
<1>1. /\ lock' = r /\ draft' = [draft EXCEPT ![r] = new] /\ pc[r] \in Indexing /\ lock = None
      /\ UNCHANGED <<log, claim, index, ordered, pc, goal, name, older>>
  BY DEF Drafts, Wants
<1>2. text \in Texts /\ text.held = held /\ text.order = "started"
  BY DEF Started, Texts, Fits
<1>3. new \in [text : Texts, vouch : BOOLEAN, placed : BOOLEAN]
      /\ new.text = text /\ (new.vouch <=> vouch) /\ ~new.placed
  BY <1>2
<1> HIDE DEF new, text
<1>4. draft'[r] = new /\ \A s \in Runs \ {r} : draft'[s] = NoDraft
  <2>1. draft'[r] = new /\ \A s \in Runs \ {r} : draft'[s] = draft[s]
    BY <1>1 DEF IndexInv, IndexTyped
  <2> QED  BY <1>1, <2>1, OneDraft
<1>5. \A S : Complete(S)' <=> Complete(S)
  BY <1>1 DEF Complete, Due
<1>6. IndexTyped' /\ Fits(index.held)' /\ (ordered = NoText \/ ordered.order = "started")'
  BY <1>1, <1>3 DEF IndexInv, IndexTyped, Fits
<1>7. Vouched' = Vouched
  BY <1>1 DEF Vouched
<1>8. /\ (Vouched => older # "wrote")'
      /\ (Vouched /\ older # "came back" => Complete(index.held))'
      /\ (older = "no" /\ ordered # NoText => Complete(index.held))'
  BY <1>1, <1>7 DEF IndexInv, Complete, Due
<1>9. Complete(held) => Complete(draft[r].text.held)'
  BY <1>1, <1>2, <1>3, <1>4 DEF Complete, Due
<1>10. DraftInv(r)'
  <2>1. pc'[r] \in Indexing /\ lock' = r /\ draft'[r].text.order = "started" /\ Fits(draft'[r].text.held)
    BY <1>1, <1>2, <1>3, <1>4
  <2>2. ~draft'[r].placed /\ (pc'[r] = "recording" => name'[r] \in draft'[r].text.held)
    BY <1>1, <1>2, <1>3, <1>4
  <2>3. draft'[r].vouch /\ pc'[r] # "ensuring" => older' # "wrote"
    BY <1>1, <1>3, <1>4 DEF IndexInv
  <2>4. (\/ pc'[r] = "ensuring"
         \/ draft'[r].vouch /\ older' # "came back"
         \/ older' = "no" /\ ordered' # NoText) => Complete(draft[r].text.held)'
    BY <1>1, <1>3, <1>4, <1>9 DEF IndexInv
  <2> QED  BY <2>1, <2>2, <2>3, <2>4 DEF DraftInv
<1>11. \A s \in Runs : DraftInv(s)'
  BY <1>4, <1>10 DEF DraftInv
<1> QED  BY <1>6, <1>8, <1>11 DEF IndexInv

LEMMA IsDraftedKeeps ==
    ASSUME ClaimsInv, IndexInv, NEW r \in Runs, Ensure(r) \/ Record(r) \/ Amend(r)
    PROVE  IndexInv'
<1>1. Fits(index.held) /\ Vouched \in BOOLEAN
  BY DEF IndexInv, Vouched
<1>2. CASE Ensure(r)
  <2>1. Wants(r) /\ pc[r] = "ensuring" /\ Drafts(r, Ensured, TRUE) /\ Fits(Ensured) /\ Complete(Ensured)
    BY <1>1, <1>2, EnsuredCovers DEF Ensure
  <2> QED  BY <2>1, DraftsKeep
<1>3. CASE Record(r)
  <2>1. Wants(r) /\ pc[r] = "recording" /\ Drafts(r, Recorded(name[r]), Vouched)
    BY <1>3 DEF Record
  <2>2. name[r] \in Ids
    BY <2>1 DEF ClaimsInv, Own, Nameless
  <2>3. Fits(Recorded(name[r])) /\ name[r] \in Recorded(name[r])
        /\ (Complete(index.held) => Complete(Recorded(name[r])))
    BY <1>1, <2>2, RecordedCovers DEF Complete
  <2> QED  BY <1>1, <2>1, <2>3, DraftsKeep
<1>4. CASE Amend(r)
  <2>1. Wants(r) /\ pc[r] = "amending" /\ Drafts(r, index.held, Vouched)
    BY <1>4 DEF Amend
  <2> QED  BY <1>1, <2>1, DraftsKeep
<1> QED  BY <1>2, <1>3, <1>4

\* No text, and no draft, is none.
LEMMA NoneOfIt ==
    /\ NoText \in Texts /\ NoText.order = "absent"
    /\ NoDraft \in [text : Texts, vouch : BOOLEAN, placed : BOOLEAN] /\ ~NoDraft.placed
<1>1. NoText \in Texts /\ NoText.order = "absent"
  BY DEF NoText, Texts
<1> QED  BY <1>1 DEF NoDraft

\* What is about to be is what is: the lock is of the one run that does it.
LEMMA Unlocked ==
    ASSUME IndexInv, NEW r \in Runs, Unlocks(r)
    PROVE  /\ draft' \in [Runs -> [text : Texts, vouch : BOOLEAN, placed : BOOLEAN]]
           /\ draft'[r] = NoDraft
           /\ \A s \in Runs \ {r} : draft'[s] = draft[s] /\ (draft[s] # NoDraft => lock' = s)
           /\ lock = r => \A s \in Runs : draft'[s] = NoDraft
<1>1. NoDraft \in [text : Texts, vouch : BOOLEAN, placed : BOOLEAN]
  BY NoneOfIt
<1>2. draft' = [draft EXCEPT ![r] = NoDraft] /\ draft \in [Runs -> [text : Texts, vouch : BOOLEAN, placed : BOOLEAN]]
  BY DEF Unlocks, IndexInv, IndexTyped
<1>3. /\ draft' \in [Runs -> [text : Texts, vouch : BOOLEAN, placed : BOOLEAN]]
      /\ draft'[r] = NoDraft
      /\ \A s \in Runs \ {r} : draft'[s] = draft[s]
  BY <1>1, <1>2
<1>4. \A s \in Runs \ {r} : draft[s] # NoDraft => lock' = s
  BY DEF Unlocks, IndexInv, DraftInv
<1>5. lock = r => \A s \in Runs : draft'[s] = NoDraft
  BY <1>3, OneDraft
<1> QED  BY <1>3, <1>4, <1>5

\* The new index is there, with or without what comes after it.
LEMMA ReplaceKeeps ==
    ASSUME ClaimsInv, IndexInv, NEW r \in Runs, Replace(r) PROVE IndexInv'
<1> DEFINE text == draft[r].text
           vouch == draft[r].vouch
<1>1. /\ DraftInv(r) /\ draft[r] # NoDraft /\ ~draft[r].placed /\ index' = text
      /\ text \in Texts /\ vouch \in BOOLEAN
  BY DEF IndexInv, IndexTyped, Replace
<1>2. /\ lock = r /\ pc[r] \in Indexing /\ text.order = "started" /\ Fits(text.held)
      /\ vouch /\ pc[r] # "ensuring" => older # "wrote"
      /\ pc[r] = "recording" => name[r] \in text.held
  BY <1>1 DEF DraftInv
<1>3. text # NoText /\ (ordered' = ordered \/ ordered' = NoText)
  <2>1. text # NoText
    BY <1>2, NoneOfIt
  <2>2. ordered' \in IF pc[r] = "amending" THEN {ordered, NoText} ELSE {ordered}
    BY Zenon DEF Replace
  <2> QED  BY <2>1, <2>2
<1>5. /\ older' \in {"no", "wrote", "came back"}
      /\ pc[r] = "ensuring" => older' = "no"
      /\ pc[r] # "ensuring" => older' = IF older = "wrote" /\ text = ordered THEN "came back" ELSE older
  <2>1. older' = IF pc[r] = "ensuring" THEN "no"
                ELSE IF older = "wrote" /\ draft[r].text = ordered THEN "came back" ELSE older
    BY Zenon DEF Replace
  <2>2. older \in {"no", "wrote", "came back"}
    BY DEF IndexInv, IndexTyped
  <2> QED  BY <2>1, <2>2
<1>6. /\ pc[r] = "ensuring" => Complete(text.held)
      /\ vouch /\ older # "came back" => Complete(text.held)
      /\ older = "no" /\ ordered # NoText => Complete(text.held)
  BY <1>1 DEF DraftInv
<1>7. \/ /\ vouch /\ draft' = [draft EXCEPT ![r].placed = TRUE]
         /\ UNCHANGED <<log, lock, pc, name>>
      \/ ~vouch /\ Done(r) /\ Unlocks(r) /\ log' = log
      \/ Refused(r) /\ Unlocks(r)
  BY DEF Replace
<1> HIDE DEF text, vouch
<1>8. Complete(text.held) => CompleteNext(text.held)
  <2>1. CASE UNCHANGED <<log, pc, name>>
    BY <2>1 DEF Complete, CompleteNext, Due
  <2> QED  BY <1>2, <1>7, <2>1, DoneDue, RefusedDue
<1>9. Fits(index.held)' /\ (ordered = NoText \/ ordered.order = "started")'
  BY <1>1, <1>2, <1>3 DEF IndexInv, Fits
<1>10. Vouched' => ordered' = text /\ ordered = text /\ ordered # NoText
  BY <1>1, <1>3 DEF Vouched
<1>11. (Vouched => older # "wrote")'
  BY <1>5, <1>10
<1>12. Vouched' /\ older' # "came back" => CompleteNext(text.held)
  <2>1. Vouched' /\ older' # "came back" => pc[r] = "ensuring" \/ older = "no"
    BY <1>5, <1>10 DEF IndexInv, IndexTyped
  <2> QED  BY <1>6, <1>8, <1>10, <2>1
<1>13. older' = "no" /\ ordered' # NoText => CompleteNext(text.held)
  <2>1. older' = "no" /\ ordered' # NoText => pc[r] = "ensuring" \/ (older = "no" /\ ordered # NoText)
    BY <1>3, <1>5
  <2> QED  BY <1>6, <1>8, <2>1
<1>14. /\ (Vouched /\ older # "came back" => Complete(index.held))'
       /\ (older = "no" /\ ordered # NoText => Complete(index.held))'
  BY <1>1, <1>12, <1>13 DEF Complete, CompleteNext
<1>15. \A s \in Runs \ {r} : draft[s] = NoDraft
  BY <1>2, OneDraft
<1>16. CASE Unlocks(r)
  <2>1. IndexTyped'
    BY <1>1, <1>3, <1>5, <1>16, Unlocked, NoneOfIt DEF IndexInv, IndexTyped
  <2>2. \A s \in Runs : DraftInv(s)'
    BY <1>2, <1>16, Unlocked DEF DraftInv
  <2> QED  BY <1>9, <1>11, <1>14, <2>1, <2>2 DEF IndexInv
<1>17. CASE /\ vouch /\ draft' = [draft EXCEPT ![r].placed = TRUE]
            /\ UNCHANGED <<log, lock, pc, name>>
  <2>1. /\ draft' \in [Runs -> [text : Texts, vouch : BOOLEAN, placed : BOOLEAN]]
        /\ draft'[r].text = text /\ draft'[r].vouch = vouch /\ draft'[r].placed
        /\ \A s \in Runs \ {r} : draft'[s] = NoDraft
    BY <1>15, <1>17 DEF IndexInv, IndexTyped, text, vouch
  <2>2. IndexTyped'
    BY <1>1, <1>3, <1>5, <2>1, NoneOfIt DEF IndexInv, IndexTyped
  <2>3. older' # "wrote"
    BY <1>2, <1>5, <1>17
  <2>4. Complete(text.held) => Complete(draft[r].text.held)'
    BY <1>8, <2>1 DEF Complete, CompleteNext
  <2>5. (\/ pc'[r] = "ensuring"
         \/ draft'[r].vouch /\ older' # "came back"
         \/ older' = "no" /\ ordered' # NoText) => Complete(text.held)
    BY <1>3, <1>5, <1>6, <1>17
  <2>6. /\ pc'[r] \in Indexing /\ lock' = r /\ draft'[r].text.order = "started"
        /\ Fits(draft'[r].text.held) /\ draft'[r].vouch /\ index' = draft'[r].text
        /\ pc'[r] = "recording" => name'[r] \in draft'[r].text.held
    BY <1>1, <1>2, <1>17, <2>1
  <2>7. DraftInv(r)'
    BY <2>3, <2>4, <2>5, <2>6 DEF DraftInv
  <2>8. \A s \in Runs : DraftInv(s)'
    BY <2>1, <2>7 DEF DraftInv
  <2> QED  BY <1>9, <1>11, <1>14, <2>2, <2>8 DEF IndexInv
<1> QED  BY <1>7, <1>16, <1>17

\* The mark is left, or not, or in part.
LEMMA LeaveMarkKeeps ==
    ASSUME ClaimsInv, IndexInv, NEW r \in Runs, LeaveMark(r) PROVE IndexInv'
<1>1. draft[r].placed /\ draft[r] # NoDraft /\ DraftInv(r)
  BY NoneOfIt DEF LeaveMark, IndexInv
<1>2. /\ lock = r /\ index.order = "started" /\ index = draft[r].text /\ older # "wrote"
      /\ pc[r] = "recording" => name[r] \in index.held
      /\ older # "came back" => Complete(index.held)
  BY <1>1 DEF DraftInv
<1>3. /\ ordered' \in {index, ordered, NoText} /\ Done(r) /\ Unlocks(r) /\ log' = log
      /\ index' = index /\ older' = older
  BY <1>2 DEF LeaveMark
<1>4. Complete(index.held) => CompleteNext(index.held)
  BY <1>2, <1>3, DoneDue
<1>5. /\ IndexTyped' /\ Fits(index.held)' /\ (ordered = NoText \/ ordered.order = "started")'
  BY <1>2, <1>3, Unlocked, NoneOfIt DEF IndexInv, IndexTyped, Fits
<1>6. Vouched' => ordered' # NoText
  BY <1>2, <1>3, NoneOfIt DEF Vouched
<1>7. /\ (Vouched => older # "wrote")'
      /\ Vouched' /\ older' # "came back" => CompleteNext(index'.held)
      /\ older' = "no" /\ ordered' # NoText => CompleteNext(index'.held)
  BY <1>2, <1>3, <1>4, <1>6
<1>8. \A s \in Runs : DraftInv(s)'
  BY <1>2, <1>3, Unlocked DEF DraftInv
<1>9. /\ (Vouched /\ older # "came back" => Complete(index.held))'
      /\ (older = "no" /\ ordered # NoText => Complete(index.held))'
  BY <1>7 DEF Complete, CompleteNext
<1> QED  BY <1>5, <1>7, <1>8, <1>9 DEF IndexInv

\* A run lets go of the index, with nothing of it changed but perhaps the mark lost.
LEMMA LetsGoKeeps ==
    ASSUME IndexInv, NEW r \in Runs, Unlocks(r), index' = index,
           \/ ordered' = ordered
           \/ ordered' = NoText /\ lock = r /\ index.order = "started",
           older' = older,
           \A s \in Runs \ {r} : pc'[s] = pc[s] /\ name'[s] = name[s],
           \A S : Complete(S) => CompleteNext(S)
    PROVE  IndexInv'
<1>1. /\ IndexTyped' /\ Fits(index.held)' /\ (ordered = NoText \/ ordered.order = "started")'
  BY Unlocked, NoneOfIt DEF IndexInv, IndexTyped, Fits
<1>2. Vouched' => Vouched
  BY NoneOfIt DEF Vouched, IndexInv
<1>3. /\ (Vouched => older # "wrote")'
      /\ Vouched' /\ older' # "came back" => CompleteNext(index'.held)
      /\ older' = "no" /\ ordered' # NoText => CompleteNext(index'.held)
  BY <1>2 DEF IndexInv
<1>4. ASSUME NEW s \in Runs PROVE DraftInv(s)'
  <2>1. CASE draft'[s] = NoDraft
    BY <2>1 DEF DraftInv
  <2>2. CASE draft'[s] # NoDraft
    <3>1. s # r /\ draft'[s] = draft[s] /\ lock' = s /\ lock # r /\ DraftInv(s)
      BY <2>2, Unlocked DEF IndexInv
    <3>2. ordered' = ordered /\ pc'[s] = pc[s] /\ name'[s] = name[s]
      BY <3>1
    <3>3. Complete(draft[s].text.held) => Complete(draft[s].text.held)'
      <4>1. Complete(draft[s].text.held) => CompleteNext(draft[s].text.held)
        OBVIOUS
      <4>2. CompleteNext(draft[s].text.held) <=> CompleteNext(draft'[s].text.held)
        BY <3>1
      <4> QED  BY <4>1, <4>2 DEF Complete, CompleteNext
    <3>4. draft[s].placed => index' = draft'[s].text
      BY <3>1, <2>2 DEF DraftInv
    <3> QED  BY <2>2, <3>1, <3>2, <3>3, <3>4 DEF DraftInv
  <2> QED  BY <2>1, <2>2
<1>5. /\ (Vouched /\ older # "came back" => Complete(index.held))'
      /\ (older = "no" /\ ordered # NoText => Complete(index.held))'
  BY <1>3 DEF Complete, CompleteNext
<1> QED  BY <1>1, <1>3, <1>4, <1>5 DEF IndexInv

LEMMA IndexFailsKeeps ==
    ASSUME ClaimsInv, IndexInv, NEW r \in Runs, IndexFails(r) PROVE IndexInv'
<1>1. Refused(r) /\ Unlocks(r) /\ UNCHANGED <<index, ordered, older>>
  BY DEF IndexFails
<1>2. \A s \in Runs \ {r} : pc'[s] = pc[s] /\ name'[s] = name[s]
  BY <1>1 DEF ClaimsInv, ClaimsTyped, Refused, Has, Ends, Goes
<1>3. \A S : Complete(S) => CompleteNext(S)
  BY <1>1, RefusedDue
<1> QED  BY <1>1, <1>2, <1>3, LetsGoKeeps

LEMMA KillLeavesIndex ==
    ASSUME ClaimsInv, IndexInv, NEW r \in Runs, Kill(r) PROVE IndexInv'
<1>1. Unlocks(r) /\ UNCHANGED <<index, older>> /\ Ends(r)
  BY DEF Kill
<1>2. pc'[r] = "idle" /\ \A s \in Runs \ {r} : pc'[s] = pc[s] /\ name'[s] = name[s]
  BY <1>1 DEF ClaimsInv, ClaimsTyped, Ends, Goes
<1>3. \/ ordered' = ordered
      \/ ordered' = NoText /\ lock = r /\ index.order = "started"
  <2>1. CASE draft[r].placed
    <3>1. DraftInv(r) /\ draft[r] # NoDraft
      BY <2>1, NoneOfIt DEF IndexInv
    <3>2. lock = r /\ index.order = "started"
      BY <2>1, <3>1 DEF DraftInv
    <3>3. ordered' \in {ordered, NoText}
      BY <2>1 DEF Kill
    <3> QED  BY <3>2, <3>3
  <2>2. CASE ~draft[r].placed
    BY <2>2 DEF Kill
  <2> QED  BY <2>1, <2>2
<1>4. \A i \in Ids : log'[i].header => Due(i)
  <2>1. log \in [Ids -> OneLog]
    BY DEF ClaimsInv, ClaimsTyped
  <2>2. log' = log \/ \E torn \in {log[name[r]].torn, TRUE} : log' = [log EXCEPT ![name[r]].torn = torn]
    BY Zenon DEF Kill
  <2>3. ASSUME NEW torn, log' = [log EXCEPT ![name[r]].torn = torn], NEW i \in Ids, log'[i].header
        PROVE  log[i].header
    <3>1. CASE i = name[r]
      <4>1. log'[i] = [log[i] EXCEPT !.torn = torn]
        BY <2>1, <2>3, <3>1
      <4> QED  BY <2>1, <2>3, <4>1 DEF OneLog
    <3>2. CASE i # name[r]
      BY <2>1, <2>3, <3>2
    <3> QED  BY <3>1, <3>2
  <2> QED  BY <2>2, <2>3 DEF Due
<1>5. \A s \in Runs : pc'[s] = "heading" => pc[s] = "heading" /\ name'[s] = name[s]
  BY <1>2
<1>6. \A S : Complete(S) => CompleteNext(S)
  BY <1>4, <1>5, StillDue
<1> QED  BY <1>1, <1>2, <1>3, <1>6, LetsGoKeeps

\* What an older build writes is in no order a mark was left for.
LEMMA OlderBuildLeavesIndex ==
    ASSUME ClaimsInv, IndexInv, NEW i \in Ids, OlderBuild(i) PROVE IndexInv'
<1>1. /\ lock = None
      /\ older' = IF older = "no" /\ ordered # NoText THEN "wrote" ELSE older
      /\ UNCHANGED <<ordered, lock, pc, name, draft>>
  BY DEF OlderBuild
<1>2. PICK S \in SUBSET (index.held \cup {i}) :
        /\ Cardinality(S) = Smaller(ENTRIES, Cardinality(index.held \cup {i}))
        /\ index' = [order |-> "name", held |-> S]
  BY Zenon DEF OlderBuild
<1>3. S \in SUBSET Ids /\ Cardinality(S) <= ENTRIES
  <2>1. index.held \cup {i} \in SUBSET Ids
    BY DEF IndexInv, Fits
  <2>2. Cardinality(index.held \cup {i}) \in Nat
    BY <2>1, NamesAreFinite
  <2> QED  BY <1>2, <2>1, <2>2, BoundsAssumption DEF Smaller
<1>4. index' \in Texts /\ index'.order = "name" /\ Fits(index'.held)
  BY <1>2, <1>3 DEF Texts, Fits
<1>5. ~Vouched'
  BY <1>1, <1>4, NoneOfIt DEF Vouched, IndexInv
<1>6. IndexTyped' /\ Fits(index.held)' /\ (ordered = NoText \/ ordered.order = "started")'
  BY <1>1, <1>4 DEF IndexInv, IndexTyped, Fits
<1>7. ~(older' = "no" /\ ordered' # NoText)
  BY <1>1
<1>8. \A s \in Runs : DraftInv(s)'
  BY <1>1, OneDraft DEF DraftInv
<1> QED  BY <1>5, <1>6, <1>7, <1>8 DEF IndexInv

LEMMA IndexInvInit == ClaimsInit => IndexInv
<1> SUFFICES ASSUME ClaimsInit PROVE IndexInv
  OBVIOUS
<1>1. ordered = NoText /\ draft = [r \in Runs |-> NoDraft] /\ older = "no"
  BY Zenon DEF ClaimsInit
<1>2. index \in Texts /\ Fits(index.held)
  <2>1. PICK old \in SUBSET Ids :
          index \in {NoText} \cup {[order |-> "name", held |-> S] :
                                     S \in {T \in SUBSET old : Cardinality(T) <= ENTRIES}}
    BY Zenon DEF ClaimsInit
  <2>2. CASE index = NoText
    BY <2>2, NoneOfIt, FS_EmptySet, BoundsAssumption DEF NoText, Fits
  <2>3. CASE index # NoText
    <3>1. PICK S \in {T \in SUBSET old : Cardinality(T) <= ENTRIES} :
            index = [order |-> "name", held |-> S]
      BY <2>1, <2>3
    <3> QED  BY <3>1 DEF Texts, Fits
  <2> QED  BY <2>2, <2>3
<1>3. IndexTyped
  BY <1>1, <1>2, NoneOfIt DEF IndexTyped
<1>4. ~Vouched
  BY <1>1, NoneOfIt DEF Vouched
<1>5. \A r \in Runs : DraftInv(r)
  BY <1>1 DEF DraftInv
<1> QED  BY <1>1, <1>2, <1>3, <1>4, <1>5 DEF IndexInv

LEMMA IndexInvInductive == ClaimsInv /\ IndexInv /\ [ClaimsNext]_claimsVars => IndexInv'
<1> SUFFICES ASSUME ClaimsInv, IndexInv, [ClaimsNext]_claimsVars PROVE IndexInv'
  OBVIOUS
<1>1. CASE UNCHANGED claimsVars
  <2>1. UNCHANGED <<index, ordered, lock, draft, older, log, pc, name>>
    BY <1>1 DEF claimsVars
  <2> QED  BY <2>1, TableKept DEF Due
<1>2. ASSUME NEW r \in Runs, IndexStep(r) PROVE IndexInv'
  BY <1>2, NothingToDoKeeps, IsDraftedKeeps, IndexFailsKeeps, ReplaceKeeps, LeaveMarkKeeps DEF IndexStep
<1>3. ASSUME NEW r \in Runs, Starts(r) \/ Kill(r) PROVE IndexInv'
  BY <1>3, StartsLeaveIndex, KillLeavesIndex
<1>4. ASSUME NEW r \in Runs,
             \/ Continues(r)
             \/ AppendLine(r) \/ Drop(r) \/ Glimpsed(r)
             \/ \E i \in Ids : Retitle(r, i) \/ Glimpse(r, i)
      PROVE  IndexInv'
  BY <1>4, OthersLeaveIndex
<1>5. ASSUME NEW i \in Ids, OlderBuild(i) PROVE IndexInv'
  BY <1>5, OlderBuildLeavesIndex
<1> QED  BY <1>1, <1>2, <1>3, <1>4, <1>5 DEF ClaimsNext

(* An index that its mark vouches for, and that no scan will put in order, has
   every session that can be continued but those a full window has newer ones
   for: no kill, refused write, torn mark or clock that goes back leaves one
   out, nor an older build whose index was not turned back to the very text of
   the mark (index.rs:9-27). *)
THEOREM VouchedHasThemAll == ClaimsSpec => []VouchedIsComplete
<1>1. ClaimsInv /\ IndexInv => VouchedIsComplete
  BY DEF IndexInv, VouchedIsComplete, Complete, Covers, Due, Belongs, Above
<1>2. ClaimsInit => ClaimsInv /\ IndexInv
  BY ClaimsInvInit, IndexInvInit
<1>3. (ClaimsInv /\ IndexInv) /\ [ClaimsNext]_claimsVars => (ClaimsInv /\ IndexInv)'
  BY ClaimsInvInductive, IndexInvInductive
<1> QED  BY <1>1, <1>2, <1>3, PTL DEF ClaimsSpec
=============================================================================
