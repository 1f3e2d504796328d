-------------------------- MODULE PendingsProofs --------------------------
(***************************************************************************)
(* Theorems about Pendings, for any number of tables, sessions, turns and  *)
(* names, and for counters of any width; and about NativeTurn, the turns   *)
(* of a runner over one of these tables, for any number of clients.        *)
(***************************************************************************)
EXTENDS NativeTurn, TLAPS

\* What swap_remove leaves: each of the others once, and not the removed one.
LEMMA SwapRemoveLeaves ==
    ASSUME NEW S, NEW s \in Seq(S), NEW i \in 1..Len(s)
    PROVE  /\ SwapRemove(s, i) \in Seq(S)
           /\ Len(SwapRemove(s, i)) = Len(s) - 1
           /\ \A j \in 1..(Len(s) - 1) :
                 SwapRemove(s, i)[j] = s[IF j = i THEN Len(s) ELSE j]
<1> DEFINE n == Len(s) - 1
           left == [j \in 1..n |-> IF j = i THEN s[Len(s)] ELSE s[j]]
<1>1. n \in Nat /\ Len(s) \in 1..Len(s)
  OBVIOUS
<1>2. \A j \in 1..n : left[j] \in S
  <2> TAKE j \in 1..n
  <2>1. j \in 1..Len(s)
    BY <1>1
  <2> QED  BY <1>1, <2>1
<1>3. left \in [1..n -> S]
  BY <1>2
<1>4. left \in Seq(S) /\ Len(left) = n
  BY <1>1, <1>3
<1>5. SwapRemove(s, i) = left
  BY DEF SwapRemove
<1> QED  BY <1>4, <1>5

\* What Append leaves.
LEMMA AppendLeaves ==
    ASSUME NEW S, NEW s \in Seq(S), NEW e \in S
    PROVE  /\ Append(s, e) \in Seq(S)
           /\ Len(Append(s, e)) = Len(s) + 1
           /\ DOMAIN Append(s, e) = 1..(Len(s) + 1)
           /\ \A i \in 1..Len(s) : Append(s, e)[i] = s[i]
           /\ Append(s, e)[Len(s) + 1] = e
OBVIOUS

LEMMA EmptySequence ==
    ASSUME NEW S
    PROVE  <<>> \in Seq(S) /\ Len(<<>>) = 0 /\ DOMAIN <<>> = {}
OBVIOUS

---------------------------------------------------------------------------
LEMMA TypeInit == Init => TypeOK
<1> SUFFICES ASSUME Init PROVE TypeOK
  OBVIOUS
<1>1. /\ <<>> \in Seq(Open) /\ <<>> \in Seq(Named) /\ <<>> \in Seq(Dated)
      /\ Len(<<>>) = 0
  BY EmptySequence
<1>2. 0 \in 0..MaxNumber /\ 0 \in 0..MaxRequest
  BY NumbersAssumption
<1>3. open \in [Tables -> Seq(Open)] /\ native \in [Tables -> Seq(Named)]
  BY <1>1 DEF Init
<1>4. \A t \in Tables : Len(open[t]) <= Limit
  <2>1. \A t \in Tables : open[t] = <<>>
    BY DEF Init
  <2>2. Len(<<>>) <= Limit
    BY LimitAssumption
  <2> QED  BY <2>1, <2>2
<1>5. running \in [Tables -> SUBSET (Sessions \X Turns)]
  BY DEF Init
<1> QED  BY <1>1, <1>2, <1>3, <1>4, <1>5 DEF Init, TypeOK

\* A table that is cleared stays of its type.
LEMMA ClearedType ==
    ASSUME TypeOK, NEW t \in Tables, Cleared(t)
    PROVE  /\ open' \in [Tables -> Seq(Open)]
           /\ native' \in [Tables -> Seq(Named)]
           /\ period' \in [Tables -> Nat]
           /\ \A u \in Tables : Len(open'[u]) <= Limit
           /\ \A u \in Tables \ {t} :
                 open'[u] = open[u] /\ native'[u] = native[u] /\ period'[u] = period[u]
           /\ open'[t] = <<>> /\ native'[t] = <<>> /\ period'[t] = period[t] + 1
<1>1. <<>> \in Seq(Open) /\ <<>> \in Seq(Named) /\ Len(<<>>) = 0
  BY EmptySequence
<1>2. open' = [open EXCEPT ![t] = <<>>] /\ native' = [native EXCEPT ![t] = <<>>]
      /\ period' = [period EXCEPT ![t] = period[t] + 1]
  BY DEF Cleared
<1>3. /\ open \in [Tables -> Seq(Open)] /\ native \in [Tables -> Seq(Named)]
      /\ period \in [Tables -> Nat] /\ \A u \in Tables : Len(open[u]) <= Limit
  BY DEF TypeOK
<1> QED  BY <1>1, <1>2, <1>3, LimitAssumption

\* The reference a table hands out.
NewReference(t, r) ==
    [instance |-> inst[t], session |-> r[1], turn |-> r[2],
     generation |-> gen[t], request |-> next[t]]

\* What a raise does, with the reference named.
LEMMA RaiseSteps ==
    ASSUME TypeOK, NEW t \in Tables, NEW name \in Names, NEW kind \in Kinds,
           Raise(t, name, kind)
    PROVE  \E r \in running[t] :
             /\ NewReference(t, r) \in Reference
             /\ open' = [open EXCEPT ![t] =
                    Append(open[t], [reference |-> NewReference(t, r), pending |-> kind])]
             /\ native' = [native EXCEPT ![t] =
                    Append(native[t], [reference |-> NewReference(t, r), name |-> name])]
             /\ raised' = Append(raised, [reference |-> NewReference(t, r), table |-> t,
                                          period |-> period[t]])
             /\ [reference |-> NewReference(t, r), pending |-> kind] \in Open
             /\ [reference |-> NewReference(t, r), name |-> name] \in Named
             /\ [reference |-> NewReference(t, r), table |-> t, period |-> period[t]]
                   \in Dated
<1>1. PICK r \in running[t] :
             /\ open' = [open EXCEPT ![t] =
                    Append(open[t], [reference |-> NewReference(t, r), pending |-> kind])]
             /\ native' = [native EXCEPT ![t] =
                    Append(native[t], [reference |-> NewReference(t, r), name |-> name])]
             /\ raised' = Append(raised, [reference |-> NewReference(t, r), table |-> t,
                                          period |-> period[t]])
  BY DEF Raise, NewReference
<1>2. r \in Sessions \X Turns
  BY DEF TypeOK
<1>3. inst[t] \in Nat /\ gen[t] \in Nat /\ next[t] \in Nat /\ period[t] \in Nat
  BY NumbersAssumption DEF TypeOK
<1>4. NewReference(t, r) \in Reference
  BY <1>2, <1>3 DEF NewReference, Reference
<1> QED  BY <1>1, <1>3, <1>4 DEF Open, Named, Dated

\* What a settle does, with the places named.
LEMMA SettleSteps ==
    ASSUME TypeOK, NEW t \in Tables, NEW k \in DOMAIN raised, NEW decision \in Decisions,
           Settle(t, raised[k].reference, decision)
    PROVE  \E i \in 1..Len(open[t]), j \in 1..Len(native[t]) :
             /\ open[t][i].reference = raised[k].reference
             /\ open' = [open EXCEPT ![t] = SwapRemove(open[t], i)]
             /\ native[t][j].reference = raised[k].reference
             /\ native' = [native EXCEPT ![t] = SwapRemove(native[t], j)]
             /\ settled' = Append(settled, [reference |-> raised[k].reference, table |-> t,
                                            period |-> period[t]])
             /\ [reference |-> raised[k].reference, table |-> t, period |-> period[t]]
                   \in Dated
<1>1. open[t] \in Seq(Open) /\ native[t] \in Seq(Named) /\ period[t] \in Nat
      /\ raised[k] \in Dated
  BY DEF TypeOK
<1>2. DOMAIN open[t] = 1..Len(open[t]) /\ DOMAIN native[t] = 1..Len(native[t])
  BY <1>1
<1>3. PICK i \in 1..Len(open[t]) :
         /\ open[t][i].reference = raised[k].reference
         /\ open' = [open EXCEPT ![t] = SwapRemove(open[t], i)]
  BY <1>2 DEF Settle
<1>4. PICK j \in 1..Len(native[t]) :
         /\ native[t][j].reference = raised[k].reference
         /\ native' = [native EXCEPT ![t] = SwapRemove(native[t], j)]
  BY <1>2 DEF Settle
<1>5. settled' = Append(settled, [reference |-> raised[k].reference, table |-> t,
                                  period |-> period[t]])
  BY DEF Settle
<1>6. [reference |-> raised[k].reference, table |-> t, period |-> period[t]] \in Dated
  BY <1>1 DEF Dated
<1> QED  BY <1>3, <1>4, <1>5, <1>6

---------------------------------------------------------------------------
\* The type invariant, operation by operation.
LEMMA TypeInductive == TypeOK /\ [Next]_vars => TypeOK'
<1> SUFFICES ASSUME TypeOK, [Next]_vars PROVE TypeOK'
  OBVIOUS
<1>1. CASE UNCHANGED vars
  BY <1>1 DEF TypeOK, vars
<1>2. ASSUME NEW t \in Tables, NewInstance(t) PROVE TypeOK'
  BY <1>2, NumbersAssumption DEF TypeOK, NewInstance, Fresh
<1>3. ASSUME NEW t \in Tables, NewGeneration(t) PROVE TypeOK'
  BY <1>3, NumbersAssumption DEF TypeOK, NewGeneration, Fresh
<1>4. ASSUME NEW t \in Tables, NEW s \in Sessions, NEW n \in Turns, Begin(t, s, n)
      PROVE TypeOK'
  <2>1. Cleared(t)
    BY <1>4 DEF Begin
  <2>2. running' \in [Tables -> SUBSET (Sessions \X Turns)]
    BY <1>4 DEF TypeOK, Begin
  <2> QED  BY <1>4, <2>1, <2>2, ClearedType DEF TypeOK, Begin
<1>5. ASSUME NEW t \in Tables, End(t) PROVE TypeOK'
  <2>1. Cleared(t)
    BY <1>5 DEF End
  <2>2. running' \in [Tables -> SUBSET (Sessions \X Turns)]
    BY <1>5 DEF TypeOK, End
  <2> QED  BY <1>5, <2>1, <2>2, ClearedType DEF TypeOK, End
<1>6. ASSUME NEW t \in Tables, Relaunch(t) PROVE TypeOK'
  <2>1. Cleared(t)
    BY <1>6 DEF Relaunch
  <2>2. running' \in [Tables -> SUBSET (Sessions \X Turns)]
        /\ next' \in [Tables -> 0..MaxRequest]
    BY <1>6, NumbersAssumption DEF TypeOK, Relaunch
  <2>3. numbers' \in 0..MaxNumber /\ gen' \in [Tables -> Nat]
        /\ made' \in [Tables -> {"unmade", "half", "live", "spent"}]
    <3>1. numbers \in 0..MaxNumber /\ gen \in [Tables -> Nat]
          /\ made \in [Tables -> {"unmade", "half", "live", "spent"}]
      BY DEF TypeOK
    <3>2. CASE numbers < MaxNumber
      BY <1>6, <3>1, <3>2, NumbersAssumption DEF Relaunch, Fresh
    <3>3. CASE ~(numbers < MaxNumber)
      BY <1>6, <3>1, <3>3, NumbersAssumption DEF Relaunch
    <3> QED  BY <3>2, <3>3
  <2> QED  BY <1>6, <2>1, <2>2, <2>3, ClearedType DEF TypeOK, Relaunch
<1>7. ASSUME NEW t \in Tables, NEW name \in Names, NEW kind \in Kinds, Raise(t, name, kind)
      PROVE TypeOK'
  <2>1. PICK r \in running[t] :
             /\ open' = [open EXCEPT ![t] =
                    Append(open[t], [reference |-> NewReference(t, r), pending |-> kind])]
             /\ native' = [native EXCEPT ![t] =
                    Append(native[t], [reference |-> NewReference(t, r), name |-> name])]
             /\ raised' = Append(raised, [reference |-> NewReference(t, r), table |-> t,
                                          period |-> period[t]])
             /\ [reference |-> NewReference(t, r), pending |-> kind] \in Open
             /\ [reference |-> NewReference(t, r), name |-> name] \in Named
             /\ [reference |-> NewReference(t, r), table |-> t, period |-> period[t]]
                   \in Dated
    BY <1>7, RaiseSteps
  <2>2. open[t] \in Seq(Open) /\ native[t] \in Seq(Named) /\ raised \in Seq(Dated)
        /\ Len(open[t]) <= Limit /\ Len(open[t]) < Limit /\ Len(open[t]) \in Nat
    BY <1>7 DEF TypeOK, Raise, Room
  <2>3. /\ Append(open[t], [reference |-> NewReference(t, r), pending |-> kind]) \in Seq(Open)
        /\ Len(Append(open[t], [reference |-> NewReference(t, r), pending |-> kind]))
              = Len(open[t]) + 1
    BY <2>1, <2>2, AppendLeaves
  <2>4. Append(native[t], [reference |-> NewReference(t, r), name |-> name]) \in Seq(Named)
    BY <2>1, <2>2, AppendLeaves
  <2>5. raised' \in Seq(Dated)
    BY <2>1, <2>2, AppendLeaves
  <2>6. open' \in [Tables -> Seq(Open)] /\ \A u \in Tables : Len(open'[u]) <= Limit
    <3> DEFINE more == Append(open[t], [reference |-> NewReference(t, r), pending |-> kind])
    <3>1. more \in Seq(Open) /\ Len(more) <= Limit
      BY <2>2, <2>3, LimitAssumption
    <3>2. open' = [open EXCEPT ![t] = more]
      BY <2>1
    <3> HIDE DEF more
    <3> QED  BY <3>1, <3>2 DEF TypeOK
  <2>7. native' \in [Tables -> Seq(Named)]
    <3> DEFINE more == Append(native[t], [reference |-> NewReference(t, r), name |-> name])
    <3>1. native' = [native EXCEPT ![t] = more] /\ more \in Seq(Named)
      BY <2>1, <2>4
    <3> HIDE DEF more
    <3> QED  BY <3>1 DEF TypeOK
  <2>8. next' \in [Tables -> 0..MaxRequest]
    BY <1>7, NumbersAssumption DEF TypeOK, Raise
  <2> QED  BY <1>7, <2>5, <2>6, <2>7, <2>8 DEF TypeOK, Raise
<1>8. ASSUME NEW t \in Tables, NEW k \in DOMAIN raised, NEW decision \in Decisions,
             Settle(t, raised[k].reference, decision)
      PROVE TypeOK'
  <2>1. PICK i \in 1..Len(open[t]), j \in 1..Len(native[t]) :
             /\ open[t][i].reference = raised[k].reference
             /\ open' = [open EXCEPT ![t] = SwapRemove(open[t], i)]
             /\ native[t][j].reference = raised[k].reference
             /\ native' = [native EXCEPT ![t] = SwapRemove(native[t], j)]
             /\ settled' = Append(settled, [reference |-> raised[k].reference, table |-> t,
                                            period |-> period[t]])
             /\ [reference |-> raised[k].reference, table |-> t, period |-> period[t]]
                   \in Dated
    BY <1>8, SettleSteps
  <2>2. open[t] \in Seq(Open) /\ native[t] \in Seq(Named) /\ settled \in Seq(Dated)
        /\ Len(open[t]) <= Limit /\ Len(open[t]) \in Nat
    BY DEF TypeOK
  <2>3. SwapRemove(open[t], i) \in Seq(Open) /\ Len(SwapRemove(open[t], i)) = Len(open[t]) - 1
    BY <2>2, SwapRemoveLeaves
  <2>4. SwapRemove(native[t], j) \in Seq(Named)
    BY <2>2, SwapRemoveLeaves
  <2>5. settled' \in Seq(Dated)
    BY <2>1, <2>2, AppendLeaves
  <2>6. open' \in [Tables -> Seq(Open)] /\ \A u \in Tables : Len(open'[u]) <= Limit
    <3> DEFINE rest == SwapRemove(open[t], i)
    <3>1. rest \in Seq(Open) /\ Len(rest) <= Limit
      BY <2>2, <2>3, LimitAssumption
    <3>2. open' = [open EXCEPT ![t] = rest]
      BY <2>1
    <3> HIDE DEF rest
    <3> QED  BY <3>1, <3>2 DEF TypeOK
  <2>7. native' \in [Tables -> Seq(Named)]
    <3> DEFINE rest == SwapRemove(native[t], j)
    <3>1. native' = [native EXCEPT ![t] = rest] /\ rest \in Seq(Named)
      BY <2>1, <2>4
    <3> HIDE DEF rest
    <3> QED  BY <3>1 DEF TypeOK
  <2> QED  BY <1>8, <2>5, <2>6, <2>7 DEF TypeOK, Settle
<1> QED  BY <1>1, <1>2, <1>3, <1>4, <1>5, <1>6, <1>7, <1>8 DEF Next

\* The counters, the request numbers and the questions within PENDINGS stay in
\* their ranges, for any number of tables.
THEOREM TypeCorrect == Spec => []TypeOK
<1> QED  BY TypeInit, TypeInductive, PTL DEF Spec

---------------------------------------------------------------------------
(***************************************************************************)
(* References are unique.  Two tables never have one instance; what a      *)
(* table handed out in its live generation is numbered below its next      *)
(* request, and no generation still to be handed out was used.             *)
(***************************************************************************)
Numbered ==
    /\ \A t \in Tables : made[t] # "unmade" => inst[t] < numbers
    /\ \A t \in Tables : made[t] \in {"live", "spent"} => gen[t] < numbers
    /\ \A t, u \in Tables :
          made[t] # "unmade" /\ made[u] # "unmade" /\ inst[t] = inst[u] => t = u

HandedOut ==
    \A i \in DOMAIN raised :
        LET was == raised[i] IN
        /\ made[was.table] \in {"live", "spent"}
        /\ was.reference.instance = inst[was.table]
        /\ was.reference.generation < numbers
        /\ made[was.table] = "live" /\ was.reference.generation = gen[was.table]
              => was.reference.request < next[was.table]

UniqueInv == Numbered /\ HandedOut /\ ReferencesAreUnique

LEMMA UniqueInit == Init => UniqueInv
<1> SUFFICES ASSUME Init PROVE UniqueInv
  OBVIOUS
<1>1. DOMAIN raised = {}
  BY EmptySequence DEF Init
<1> QED  BY <1>1 DEF Init, UniqueInv, Numbered, HandedOut, ReferencesAreUnique

\* The reference a raise would hand out was never handed out.
LEMMA FreshReference ==
    ASSUME TypeOK, UniqueInv, NEW t \in Tables, made[t] = "live", NEW r,
           NEW i \in DOMAIN raised
    PROVE  raised[i].reference # NewReference(t, r)
<1> SUFFICES ASSUME raised[i].reference = NewReference(t, r) PROVE FALSE
  OBVIOUS
<1>1. raised[i] \in Dated
  BY DEF TypeOK
<1>2. raised[i].table \in Tables /\ raised[i].reference.request \in Nat
  BY <1>1 DEF Dated, Reference
<1>3. /\ raised[i].reference.instance = inst[t]
      /\ raised[i].reference.generation = gen[t]
      /\ raised[i].reference.request = next[t]
  BY DEF NewReference
<1>4. inst[raised[i].table] = inst[t] /\ made[raised[i].table] \in {"live", "spent"}
  BY <1>3 DEF UniqueInv, HandedOut
<1>5. raised[i].table = t
  BY <1>2, <1>4 DEF UniqueInv, Numbered
<1>6. raised[i].reference.request < next[t]
  BY <1>3, <1>5 DEF UniqueInv, HandedOut
<1>7. next[t] \in Nat
  BY NumbersAssumption DEF TypeOK
<1> QED  BY <1>2, <1>3, <1>6, <1>7

LEMMA UniqueInductive == TypeOK /\ UniqueInv /\ [Next]_vars => UniqueInv'
<1> SUFFICES ASSUME TypeOK, UniqueInv, [Next]_vars PROVE UniqueInv'
  OBVIOUS
<1> USE DEF UniqueInv
<1>t. \A i \in DOMAIN raised : raised[i] \in Dated
  BY DEF TypeOK
<1>n. numbers \in Nat /\ \A t \in Tables : inst[t] \in Nat /\ gen[t] \in Nat /\ next[t] \in Nat
  BY NumbersAssumption DEF TypeOK
<1>f. /\ made \in [Tables -> {"unmade", "half", "live", "spent"}]
      /\ inst \in [Tables -> Nat] /\ gen \in [Tables -> Nat]
      /\ next \in [Tables -> 0..MaxRequest]
  BY DEF TypeOK
<1>d. \A i \in DOMAIN raised :
         /\ raised[i].table \in Tables
         /\ raised[i].reference.generation \in Nat
         /\ raised[i].reference.request \in Nat
  BY <1>t DEF Dated, Reference
<1>1. CASE UNCHANGED vars
  BY <1>1 DEF vars, Numbered, HandedOut, ReferencesAreUnique
<1>2. ASSUME NEW t \in Tables, NewInstance(t) PROVE UniqueInv'
  <2>1. /\ numbers' = numbers + 1 /\ made[t] = "unmade"
        /\ inst' = [inst EXCEPT ![t] = numbers] /\ made' = [made EXCEPT ![t] = "half"]
        /\ UNCHANGED <<gen, next, raised>>
    BY <1>2 DEF NewInstance, Fresh
  <2>2. Numbered'
    BY <2>1, <1>n, <1>f DEF Numbered
  <2>3. HandedOut'
    BY <2>1, <1>n, <1>f, <1>d DEF HandedOut
  <2> QED  BY <2>1, <2>2, <2>3 DEF ReferencesAreUnique
<1>3. ASSUME NEW t \in Tables, NewGeneration(t) PROVE UniqueInv'
  <2>1. /\ numbers' = numbers + 1 /\ made[t] = "half"
        /\ gen' = [gen EXCEPT ![t] = numbers] /\ made' = [made EXCEPT ![t] = "live"]
        /\ UNCHANGED <<inst, next, raised>>
    BY <1>3 DEF NewGeneration, Fresh
  <2>2. Numbered'
    BY <2>1, <1>n, <1>f DEF Numbered
  <2>3. HandedOut'
    BY <2>1, <1>n, <1>f, <1>d DEF HandedOut
  <2> QED  BY <2>1, <2>2, <2>3 DEF ReferencesAreUnique
<1>4. ASSUME NEW t \in Tables, NEW s \in Sessions, NEW n \in Turns, Begin(t, s, n)
      PROVE UniqueInv'
  BY <1>4 DEF Begin, Numbered, HandedOut, ReferencesAreUnique
<1>5. ASSUME NEW t \in Tables, End(t) PROVE UniqueInv'
  BY <1>5 DEF End, Numbered, HandedOut, ReferencesAreUnique
<1>6. ASSUME NEW t \in Tables, Relaunch(t) PROVE UniqueInv'
  <2>1. /\ made[t] = "live" /\ next' = [next EXCEPT ![t] = 0] /\ UNCHANGED <<inst, raised>>
    BY <1>6 DEF Relaunch
  <2>2. CASE numbers < MaxNumber
    <3>1. numbers' = numbers + 1 /\ gen' = [gen EXCEPT ![t] = numbers] /\ made' = made
      BY <1>6, <2>2 DEF Relaunch, Fresh
    <3>2. Numbered'
      BY <2>1, <3>1, <1>n, <1>f DEF Numbered
    <3>3. HandedOut'
      BY <2>1, <3>1, <1>n, <1>f, <1>d DEF HandedOut, Numbered
    <3> QED  BY <2>1, <3>2, <3>3 DEF ReferencesAreUnique
  <2>3. CASE ~(numbers < MaxNumber)
    <3>1. made' = [made EXCEPT ![t] = "spent"] /\ UNCHANGED <<numbers, gen>>
      BY <1>6, <2>3 DEF Relaunch
    <3>2. Numbered'
      BY <2>1, <3>1, <1>n, <1>f DEF Numbered
    <3>3. HandedOut'
      BY <2>1, <3>1, <1>n, <1>f, <1>d DEF HandedOut, Numbered
    <3> QED  BY <2>1, <3>2, <3>3 DEF ReferencesAreUnique
  <2> QED  BY <2>2, <2>3
<1>7. ASSUME NEW t \in Tables, NEW name \in Names, NEW kind \in Kinds, Raise(t, name, kind)
      PROVE UniqueInv'
  <2>m. made[t] = "live"
    BY <1>7 DEF Raise
  <2>1. PICK r \in running[t] :
             /\ raised' = Append(raised, [reference |-> NewReference(t, r), table |-> t,
                                          period |-> period[t]])
             /\ [reference |-> NewReference(t, r), table |-> t, period |-> period[t]]
                   \in Dated
    BY <1>7, RaiseSteps
  <2>2. /\ made[t] = "live" /\ next' = [next EXCEPT ![t] = next[t] + 1]
        /\ UNCHANGED <<numbers, made, inst, gen>>
    BY <1>7 DEF Raise
  <2> DEFINE new == [reference |-> NewReference(t, r), table |-> t, period |-> period[t]]
             n == Len(raised)
  <2>3. /\ n \in Nat /\ DOMAIN raised = 1..n /\ DOMAIN raised' = 1..(n + 1)
        /\ \A i \in 1..n : raised'[i] = raised[i]
        /\ raised'[n + 1] = new
    <3>1. raised \in Seq(Dated)
      BY DEF TypeOK
    <3> QED  BY <2>1, <3>1, AppendLeaves
  <2>4. /\ new.table = t /\ new.reference.instance = inst[t]
        /\ new.reference.generation = gen[t] /\ new.reference.request = next[t]
    BY DEF NewReference
  <2>5. Numbered'
    BY <2>2 DEF Numbered
  <2>6. HandedOut'
    <3>1. ASSUME NEW i \in 1..n
          PROVE  /\ made'[raised'[i].table] \in {"live", "spent"}
                 /\ raised'[i].reference.instance = inst'[raised'[i].table]
                 /\ raised'[i].reference.generation < numbers'
                 /\ made'[raised'[i].table] = "live"
                       /\ raised'[i].reference.generation = gen'[raised'[i].table]
                       => raised'[i].reference.request < next'[raised'[i].table]
      <4>1. raised'[i] = raised[i] /\ raised[i] \in Dated
        BY <2>3, <1>t
      <4>2. raised[i].table \in Tables /\ raised[i].reference.request \in Nat
        BY <4>1 DEF Dated, Reference
      <4>3. next \in [Tables -> 0..MaxRequest]
        BY DEF TypeOK
      <4> QED  BY <4>1, <4>2, <4>3, <2>2, <2>3, <1>n DEF HandedOut
    <3>2. /\ made'[new.table] \in {"live", "spent"}
          /\ new.reference.instance = inst'[new.table]
          /\ new.reference.generation < numbers'
          /\ new.reference.request < next'[new.table]
      <4>1. next \in [Tables -> 0..MaxRequest]
        BY DEF TypeOK
      <4> QED  BY <4>1, <2>2, <2>4, <1>n DEF Numbered
    <3> HIDE DEF new
    <3> QED  BY <3>1, <3>2, <2>3 DEF HandedOut
  <2>7. \A i \in 1..n : raised[i].reference # new.reference
    BY <2>m, <2>3, FreshReference
  <2>8. ReferencesAreUnique'
    <3> SUFFICES ASSUME NEW i \in 1..(n + 1), NEW j \in 1..(n + 1),
                        raised'[i].reference = raised'[j].reference
                 PROVE  i = j
      BY <2>3 DEF ReferencesAreUnique
    <3>1. CASE i \in 1..n /\ j \in 1..n
      BY <3>1, <2>3 DEF ReferencesAreUnique
    <3>2. CASE i = n + 1 /\ j = n + 1
      BY <3>2
    <3>3. CASE i = n + 1 /\ j \in 1..n
      BY <3>3, <2>3, <2>7
    <3>4. CASE i \in 1..n /\ j = n + 1
      BY <3>4, <2>3, <2>7
    <3> QED  BY <2>3, <3>1, <3>2, <3>3, <3>4
  <2> QED  BY <2>5, <2>6, <2>8
<1>8. ASSUME NEW t \in Tables, NEW k \in DOMAIN raised, NEW decision \in Decisions,
             Settle(t, raised[k].reference, decision)
      PROVE UniqueInv'
  BY <1>8 DEF Settle, Numbered, HandedOut, ReferencesAreUnique
<1> QED  BY <1>1, <1>2, <1>3, <1>4, <1>5, <1>6, <1>7, <1>8 DEF Next

\* No reference is handed out twice in the life of the process, by whichever
\* table and however often its program is started again: a stale decision
\* cannot name a newer question.
THEOREM NoReferenceTwice == Spec => []ReferencesAreUnique
<1>1. Spec => []UniqueInv
  BY UniqueInit, UniqueInductive, TypeCorrect, PTL DEF Spec
<1>2. UniqueInv => ReferencesAreUnique
  BY DEF UniqueInv
<1> QED  BY <1>1, <1>2, PTL

---------------------------------------------------------------------------
(***************************************************************************)
(* What is open was handed out in the period that still runs and was not   *)
(* settled; both lists of a table hold each question once.                 *)
(***************************************************************************)
Distinct(list) ==
    \A i, j \in DOMAIN list : list[i].reference = list[j].reference => i = j

LEMMA AppendReferences ==
    ASSUME NEW S, NEW s \in Seq(S), NEW e \in S
    PROVE  /\ References(Append(s, e)) = References(s) \union {e.reference}
           /\ Distinct(s) /\ e.reference \notin References(s) => Distinct(Append(s, e))
<1>1. /\ DOMAIN s = 1..Len(s) /\ Len(s) \in Nat
      /\ DOMAIN Append(s, e) = 1..(Len(s) + 1)
      /\ \A i \in 1..Len(s) : Append(s, e)[i] = s[i]
      /\ Append(s, e)[Len(s) + 1] = e
  BY AppendLeaves
<1> DEFINE more == Append(s, e)
<1> HIDE DEF more
<1>2. \A i \in DOMAIN more : i \in DOMAIN s \/ i = Len(s) + 1
  BY <1>1 DEF more
<1>3. References(more) = References(s) \union {e.reference}
  <2>1. ASSUME NEW i \in DOMAIN more
        PROVE  more[i].reference \in References(s) \union {e.reference}
    BY <1>1, <1>2 DEF more, References
  <2>2. ASSUME NEW i \in DOMAIN s PROVE s[i].reference \in References(more)
    <3>1. i \in DOMAIN more /\ more[i] = s[i]
      BY <1>1 DEF more
    <3> QED  BY <3>1 DEF References
  <2>3. e.reference \in References(more)
    <3>1. Len(s) + 1 \in DOMAIN more /\ more[Len(s) + 1] = e
      BY <1>1 DEF more
    <3> QED  BY <3>1 DEF References
  <2> QED  BY <2>1, <2>2, <2>3 DEF References
<1>4. ASSUME Distinct(s), e.reference \notin References(s),
             NEW i \in DOMAIN more, NEW j \in DOMAIN more,
             more[i].reference = more[j].reference
      PROVE  i = j
  <2>1. CASE i \in DOMAIN s /\ j \in DOMAIN s
    BY <1>1, <1>4, <2>1 DEF more, Distinct
  <2>2. CASE i \in DOMAIN s /\ j = Len(s) + 1
    BY <1>1, <1>4, <2>2 DEF more, References
  <2>3. CASE i = Len(s) + 1 /\ j \in DOMAIN s
    BY <1>1, <1>4, <2>3 DEF more, References
  <2> QED  BY <1>2, <2>1, <2>2, <2>3
<1> QED  BY <1>3, <1>4 DEF more, Distinct

LEMMA BelowTheLast ==
    ASSUME NEW n \in Nat, NEW k \in 1..n, k # n
    PROVE  k \in 1..(n - 1)
OBVIOUS

LEMMA SwapRemoveReferences ==
    ASSUME NEW S, NEW s \in Seq(S), NEW i \in 1..Len(s), Distinct(s)
    PROVE  /\ References(SwapRemove(s, i)) = References(s) \ {s[i].reference}
           /\ Distinct(SwapRemove(s, i))
<1> DEFINE rest == SwapRemove(s, i)
           From(j) == IF j = i THEN Len(s) ELSE j
<1>1. /\ rest \in Seq(S) /\ Len(rest) = Len(s) - 1
      /\ \A j \in 1..(Len(s) - 1) : rest[j] = s[From(j)]
  BY SwapRemoveLeaves
<1>2. Len(s) \in Nat /\ DOMAIN s = 1..Len(s) /\ DOMAIN rest = 1..(Len(s) - 1)
  BY <1>1
<1> HIDE DEF rest
<1>3. \A j \in DOMAIN rest : From(j) \in DOMAIN s /\ From(j) # i
  <2> SUFFICES ASSUME NEW j \in DOMAIN rest PROVE From(j) \in DOMAIN s /\ From(j) # i
    OBVIOUS
  <2>1. j \in 1..(Len(s) - 1) /\ i \in 1..Len(s)
    BY <1>2
  <2>2. CASE j = i
    BY <1>2, <2>1, <2>2
  <2>3. CASE j # i
    BY <1>2, <2>1, <2>3
  <2> QED  BY <2>2, <2>3
<1>4. \A j, k \in DOMAIN rest : From(j) = From(k) => j = k
  BY <1>2
<1>5. \A m \in DOMAIN s : m # i => \E j \in DOMAIN rest : From(j) = m
  <2> SUFFICES ASSUME NEW m \in DOMAIN s, m # i PROVE \E j \in DOMAIN rest : From(j) = m
    OBVIOUS
  <2>1. CASE m = Len(s)
    <3>1. i # Len(s) /\ i \in 1..Len(s)
      BY <2>1
    <3>2. i \in 1..(Len(s) - 1)
      BY <1>2, <3>1, BelowTheLast
    <3>3. i \in DOMAIN rest
      BY <1>2, <3>2
    <3>4. From(i) = Len(s)
      OBVIOUS
    <3> QED  BY <2>1, <3>3, <3>4
  <2>2. CASE m # Len(s)
    <3>1. m \in DOMAIN rest
      <4>1. m \in 1..Len(s)
        BY <1>2
      <4> QED  BY <1>2, <2>2, <4>1
    <3>2. m # i
      OBVIOUS
    <3>3. From(m) = m
      BY <3>2
    <3> QED  BY <3>1, <3>3
  <2> QED  BY <2>1, <2>2
<1>6. \A j \in DOMAIN rest : rest[j] = s[From(j)]
  BY <1>1, <1>2
<1> HIDE DEF From
<1>7. References(rest) = References(s) \ {s[i].reference}
  <2>1. ASSUME NEW j \in DOMAIN rest
        PROVE  rest[j].reference \in References(s) \ {s[i].reference}
    BY <1>2, <1>3, <1>6 DEF References, Distinct
  <2>2. ASSUME NEW m \in DOMAIN s, s[m].reference # s[i].reference
        PROVE  s[m].reference \in References(rest)
    <3>1. PICK j \in DOMAIN rest : From(j) = m
      BY <1>5, <2>2
    <3> QED  BY <1>6, <3>1 DEF References
  <2> QED  BY <2>1, <2>2 DEF References
<1>8. Distinct(rest)
  <2> SUFFICES ASSUME NEW j \in DOMAIN rest, NEW k \in DOMAIN rest,
                      rest[j].reference = rest[k].reference
               PROVE  j = k
    BY DEF Distinct
  <2>1. s[From(j)].reference = s[From(k)].reference
    BY <1>6
  <2>2. From(j) = From(k)
    BY <1>3, <2>1 DEF Distinct
  <2> QED  BY <1>4, <2>2
<1> QED  BY <1>7, <1>8 DEF rest

\* Both lists of a table.
Lists ==
    \A t \in Tables :
        /\ Distinct(open[t]) /\ Distinct(native[t])
        /\ References(open[t]) = References(native[t])

\* What is open is the table's, of the period that runs, and not settled.
Unsettled ==
    \A t \in Tables : \A ref \in References(open[t]) :
        /\ \E j \in DOMAIN raised :
              raised[j] = [reference |-> ref, table |-> t, period |-> period[t]]
        /\ \A k \in DOMAIN settled : settled[k].reference # ref

SettledInv == Lists /\ Unsettled /\ SettledOnceInItsPeriod

LEMMA SettledInit == Init => SettledInv
<1> SUFFICES ASSUME Init PROVE SettledInv
  OBVIOUS
<1>1. DOMAIN <<>> = {} /\ References(<<>>) = {} /\ Distinct(<<>>)
  BY EmptySequence DEF References, Distinct
<1> QED  BY <1>1 DEF Init, SettledInv, Lists, Unsettled, SettledOnceInItsPeriod

\* A table that is cleared holds nothing.
LEMMA ClearedSettled ==
    ASSUME TypeOK, SettledInv, NEW t \in Tables, Cleared(t), UNCHANGED <<raised, settled>>
    PROVE  SettledInv'
<1>1. References(<<>>) = {} /\ Distinct(<<>>)
  BY EmptySequence DEF References, Distinct
<1>2. /\ \A u \in Tables \ {t} :
            open'[u] = open[u] /\ native'[u] = native[u] /\ period'[u] = period[u]
      /\ open'[t] = <<>> /\ native'[t] = <<>>
  BY ClearedType
<1>3. Lists'
  BY <1>1, <1>2 DEF SettledInv, Lists
<1>4. Unsettled'
  BY <1>1, <1>2 DEF SettledInv, Unsettled
<1> QED  BY <1>3, <1>4 DEF SettledInv, SettledOnceInItsPeriod

LEMMA RaiseSettled ==
    ASSUME TypeOK, UniqueInv, SettledInv, NEW t \in Tables, NEW name \in Names,
           NEW kind \in Kinds, Raise(t, name, kind)
    PROVE  SettledInv'
<1>1. PICK r \in running[t] :
             /\ NewReference(t, r) \in Reference
             /\ open' = [open EXCEPT ![t] =
                    Append(open[t], [reference |-> NewReference(t, r), pending |-> kind])]
             /\ native' = [native EXCEPT ![t] =
                    Append(native[t], [reference |-> NewReference(t, r), name |-> name])]
             /\ raised' = Append(raised, [reference |-> NewReference(t, r), table |-> t,
                                          period |-> period[t]])
             /\ [reference |-> NewReference(t, r), pending |-> kind] \in Open
             /\ [reference |-> NewReference(t, r), name |-> name] \in Named
             /\ [reference |-> NewReference(t, r), table |-> t, period |-> period[t]]
                   \in Dated
  BY RaiseSteps
<1> DEFINE ref == NewReference(t, r)
           asked == [reference |-> ref, pending |-> kind]
           named == [reference |-> ref, name |-> name]
           dated == [reference |-> ref, table |-> t, period |-> period[t]]
<1>2. /\ open \in [Tables -> Seq(Open)] /\ native \in [Tables -> Seq(Named)]
      /\ raised \in Seq(Dated) /\ made[t] = "live" /\ UNCHANGED <<period, settled>>
  BY DEF TypeOK, Raise
<1>3. /\ DOMAIN raised = 1..Len(raised) /\ Len(raised) \in Nat
      /\ DOMAIN raised' = 1..(Len(raised) + 1)
      /\ \A i \in 1..Len(raised) : raised'[i] = raised[i]
      /\ raised'[Len(raised) + 1] = dated
  BY <1>1, <1>2, AppendLeaves
<1>4. \A i \in DOMAIN raised : raised[i].reference # ref
  BY <1>2, FreshReference
<1>5. asked.reference = ref /\ named.reference = ref /\ dated.reference = ref
  OBVIOUS
<1> HIDE DEF ref
<1>6. ref \notin References(open[t])
  BY <1>4 DEF SettledInv, Unsettled
<1>7. ref \notin References(native[t])
  BY <1>6 DEF SettledInv, Lists
<1> HIDE DEF asked, named
<1>8. /\ References(Append(open[t], asked)) = References(open[t]) \union {ref}
      /\ Distinct(Append(open[t], asked))
  BY <1>1, <1>2, <1>5, <1>6, AppendReferences DEF SettledInv, Lists, asked, ref
<1>9. /\ References(Append(native[t], named)) = References(native[t]) \union {ref}
      /\ Distinct(Append(native[t], named))
  BY <1>1, <1>2, <1>5, <1>7, AppendReferences DEF SettledInv, Lists, named, ref
<1>10. /\ open' = [open EXCEPT ![t] = Append(open[t], asked)]
       /\ native' = [native EXCEPT ![t] = Append(native[t], named)]
  BY <1>1 DEF asked, named, ref
<1>11. /\ \A u \in Tables \ {t} : open'[u] = open[u] /\ native'[u] = native[u]
       /\ open'[t] = Append(open[t], asked) /\ native'[t] = Append(native[t], named)
  BY <1>2, <1>10
<1>12. Lists'
  BY <1>8, <1>9, <1>11 DEF SettledInv, Lists
<1>13. SettledOnceInItsPeriod'
  <2>1. \A i \in DOMAIN settled : \E j \in DOMAIN raised' : settled[i] = raised'[j]
    BY <1>3 DEF SettledInv, SettledOnceInItsPeriod
  <2> QED  BY <1>2, <2>1 DEF SettledInv, SettledOnceInItsPeriod
<1>14. \A k \in DOMAIN settled : settled[k].reference # ref
  BY <1>4 DEF SettledInv, SettledOnceInItsPeriod
<1>15. Unsettled'
  <2> SUFFICES ASSUME NEW u \in Tables, NEW x \in References(open'[u])
               PROVE  /\ \E j \in DOMAIN raised' :
                            raised'[j] = [reference |-> x, table |-> u, period |-> period[u]]
                      /\ \A k \in DOMAIN settled : settled[k].reference # x
    BY <1>2 DEF Unsettled
  <2>1. CASE x \in References(open[u])
    <3>1. PICK j \in DOMAIN raised :
              raised[j] = [reference |-> x, table |-> u, period |-> period[u]]
      BY <2>1 DEF SettledInv, Unsettled
    <3>2. j \in DOMAIN raised' /\ raised'[j] = raised[j]
      BY <1>3
    <3>3. \A k \in DOMAIN settled : settled[k].reference # x
      BY <2>1 DEF SettledInv, Unsettled
    <3> QED  BY <3>1, <3>2, <3>3
  <2>2. CASE x \notin References(open[u])
    <3>1. u = t /\ x = ref
      BY <1>8, <1>11, <2>2
    <3>2. Len(raised) + 1 \in DOMAIN raised'
      BY <1>3
    <3>3. dated = [reference |-> x, table |-> u, period |-> period[u]]
      BY <3>1
    <3> QED  BY <1>3, <1>14, <3>1, <3>2, <3>3
  <2> QED  BY <2>1, <2>2
<1> QED  BY <1>12, <1>13, <1>15 DEF SettledInv

LEMMA SettleSettled ==
    ASSUME TypeOK, UniqueInv, SettledInv, NEW t \in Tables, NEW k \in DOMAIN raised,
           NEW decision \in Decisions, Settle(t, raised[k].reference, decision)
    PROVE  SettledInv'
<1> DEFINE ref == raised[k].reference
           dated == [reference |-> ref, table |-> t, period |-> period[t]]
<1>1. PICK i \in 1..Len(open[t]), j \in 1..Len(native[t]) :
             /\ open[t][i].reference = ref
             /\ open' = [open EXCEPT ![t] = SwapRemove(open[t], i)]
             /\ native[t][j].reference = ref
             /\ native' = [native EXCEPT ![t] = SwapRemove(native[t], j)]
             /\ settled' = Append(settled, dated)
             /\ dated \in Dated
  BY SettleSteps
<1>2. /\ open \in [Tables -> Seq(Open)] /\ native \in [Tables -> Seq(Named)]
      /\ settled \in Seq(Dated) /\ UNCHANGED <<period, raised>>
  BY DEF TypeOK, Settle
<1>3. /\ DOMAIN settled = 1..Len(settled) /\ Len(settled) \in Nat
      /\ DOMAIN settled' = 1..(Len(settled) + 1)
      /\ \A m \in 1..Len(settled) : settled'[m] = settled[m]
      /\ settled'[Len(settled) + 1] = dated
  BY <1>1, <1>2, AppendLeaves
<1>4. dated.reference = ref
  OBVIOUS
<1> HIDE DEF ref
<1>5. /\ References(SwapRemove(open[t], i)) = References(open[t]) \ {ref}
      /\ Distinct(SwapRemove(open[t], i))
  BY <1>1, <1>2, SwapRemoveReferences DEF SettledInv, Lists
<1>6. /\ References(SwapRemove(native[t], j)) = References(native[t]) \ {ref}
      /\ Distinct(SwapRemove(native[t], j))
  BY <1>1, <1>2, SwapRemoveReferences DEF SettledInv, Lists
<1>7. ref \in References(open[t])
  <2>1. i \in DOMAIN open[t]
    BY <1>2
  <2> QED  BY <1>1, <2>1 DEF References
<1>8. /\ \A u \in Tables \ {t} : open'[u] = open[u] /\ native'[u] = native[u]
      /\ open'[t] = SwapRemove(open[t], i) /\ native'[t] = SwapRemove(native[t], j)
  BY <1>1, <1>2
<1>9. Lists'
  BY <1>5, <1>6, <1>8 DEF SettledInv, Lists
<1>10. PICK m \in DOMAIN raised : raised[m] = dated
  BY <1>7 DEF SettledInv, Unsettled
<1>11. \A n \in DOMAIN settled : settled[n].reference # ref
  BY <1>7 DEF SettledInv, Unsettled
<1>12. SettledOnceInItsPeriod'
  <2>1. ASSUME NEW a \in DOMAIN settled', NEW b \in DOMAIN settled',
               settled'[a].reference = settled'[b].reference
        PROVE  a = b
    <3>1. CASE a \in DOMAIN settled /\ b \in DOMAIN settled
      BY <1>3, <2>1, <3>1 DEF SettledInv, SettledOnceInItsPeriod
    <3>2. CASE a = Len(settled) + 1 /\ b \in DOMAIN settled
      BY <1>3, <1>4, <1>11, <2>1, <3>2
    <3>3. CASE a \in DOMAIN settled /\ b = Len(settled) + 1
      BY <1>3, <1>4, <1>11, <2>1, <3>3
    <3> QED  BY <1>3, <3>1, <3>2, <3>3
  <2>2. ASSUME NEW a \in DOMAIN settled'
        PROVE  \E b \in DOMAIN raised' : settled'[a] = raised'[b]
    <3>1. CASE a \in DOMAIN settled
      BY <1>2, <1>3, <3>1 DEF SettledInv, SettledOnceInItsPeriod
    <3>2. CASE a = Len(settled) + 1
      BY <1>2, <1>3, <1>10, <3>2
    <3> QED  BY <1>3, <3>1, <3>2
  <2> QED  BY <2>1, <2>2 DEF SettledOnceInItsPeriod
<1>13. Unsettled'
  <2> SUFFICES ASSUME NEW u \in Tables, NEW x \in References(open'[u])
               PROVE  /\ \E n \in DOMAIN raised :
                            raised[n] = [reference |-> x, table |-> u, period |-> period[u]]
                      /\ \A n \in DOMAIN settled' : settled'[n].reference # x
    BY <1>2 DEF Unsettled
  <2>1. x \in References(open[u])
    BY <1>5, <1>8
  <2>2. \E n \in DOMAIN raised :
            raised[n] = [reference |-> x, table |-> u, period |-> period[u]]
    BY <2>1 DEF SettledInv, Unsettled
  <2>3. \A n \in DOMAIN settled : settled[n].reference # x
    BY <2>1 DEF SettledInv, Unsettled
  <2>4. ref # x
    <3>1. CASE u = t
      BY <1>5, <1>8, <3>1
    <3>2. CASE u # t
      <4> SUFFICES ASSUME ref = x PROVE FALSE
        OBVIOUS
      <4>1. PICK n \in DOMAIN raised :
                raised[n] = [reference |-> x, table |-> u, period |-> period[u]]
        BY <2>2
      <4>2. raised[n].table = u /\ raised[m].table = t
            /\ raised[n].reference = x /\ raised[m].reference = ref
        BY <1>10, <1>4, <4>1
      <4>3. n = m
        BY <4>2 DEF UniqueInv, ReferencesAreUnique
      <4> QED  BY <3>2, <4>2, <4>3
    <3> QED  BY <3>1, <3>2
  <2> QED  BY <1>3, <1>4, <2>2, <2>3, <2>4
<1> QED  BY <1>9, <1>12, <1>13 DEF SettledInv

LEMMA SettledInductive == TypeOK /\ UniqueInv /\ SettledInv /\ [Next]_vars => SettledInv'
<1> SUFFICES ASSUME TypeOK, UniqueInv, SettledInv, [Next]_vars PROVE SettledInv'
  OBVIOUS
<1>1. ASSUME UNCHANGED <<open, native, period, raised, settled>> PROVE SettledInv'
  BY <1>1 DEF SettledInv, Lists, Unsettled, SettledOnceInItsPeriod
<1>2. CASE UNCHANGED vars
  BY <1>1, <1>2 DEF vars
<1>3. ASSUME NEW t \in Tables, NewInstance(t) \/ NewGeneration(t) PROVE SettledInv'
  BY <1>1, <1>3 DEF NewInstance, NewGeneration
<1>4. ASSUME NEW t \in Tables, NEW s \in Sessions, NEW n \in Turns, Begin(t, s, n)
      PROVE SettledInv'
  BY <1>4, ClearedSettled DEF Begin
<1>5. ASSUME NEW t \in Tables, End(t) \/ Relaunch(t) PROVE SettledInv'
  BY <1>5, ClearedSettled DEF End, Relaunch
<1>6. ASSUME NEW t \in Tables, NEW name \in Names, NEW kind \in Kinds, Raise(t, name, kind)
      PROVE SettledInv'
  BY <1>6, RaiseSettled
<1>7. ASSUME NEW t \in Tables, NEW k \in DOMAIN raised, NEW decision \in Decisions,
             Settle(t, raised[k].reference, decision)
      PROVE SettledInv'
  BY <1>7, SettleSettled
<1> QED  BY <1>2, <1>3, <1>4, <1>5, <1>6, <1>7 DEF Next

LEMMA InvariantHolds == Spec => [](TypeOK /\ UniqueInv /\ SettledInv)
<1>1. Init => TypeOK /\ UniqueInv /\ SettledInv
  BY TypeInit, UniqueInit, SettledInit
<1>2. TypeOK /\ UniqueInv /\ SettledInv /\ [Next]_vars
         => (TypeOK /\ UniqueInv /\ SettledInv)'
  BY TypeInductive, UniqueInductive, SettledInductive
<1> QED  BY <1>1, <1>2, PTL DEF Spec

\* A question is settled once, and by the table and in the period it was raised
\* in: no decision outlives its turn or its program's run.
THEOREM SettledOnce == Spec => []SettledOnceInItsPeriod
<1>1. SettledInv => SettledOnceInItsPeriod
  BY DEF SettledInv
<1> QED  BY <1>1, InvariantHolds, PTL

---------------------------------------------------------------------------
(***************************************************************************)
(* The names of what is open.  A name that is held is refused, and neither *)
(* a removal nor a clearing gives one to two questions.                    *)
(***************************************************************************)
NamedApart(list) == \A i, j \in DOMAIN list : list[i].name = list[j].name => i = j

NamesInv == \A t \in Tables : NamedApart(native[t])

LEMMA AppendNamed ==
    ASSUME NEW S, NEW s \in Seq(S), NEW e \in S, NamedApart(s),
           \A i \in DOMAIN s : s[i].name # e.name
    PROVE  NamedApart(Append(s, e))
<1> DEFINE more == Append(s, e)
<1>1. /\ DOMAIN s = 1..Len(s) /\ Len(s) \in Nat
      /\ DOMAIN more = 1..(Len(s) + 1)
      /\ \A i \in 1..Len(s) : more[i] = s[i]
      /\ more[Len(s) + 1] = e
  BY AppendLeaves
<1> HIDE DEF more
<1>2. \A i \in DOMAIN more : i \in DOMAIN s \/ i = Len(s) + 1
  BY <1>1
<1> SUFFICES ASSUME NEW i \in DOMAIN more, NEW j \in DOMAIN more,
                    more[i].name = more[j].name
             PROVE  i = j
  BY DEF NamedApart, more
<1>3. CASE i \in DOMAIN s /\ j \in DOMAIN s
  BY <1>1, <1>3 DEF NamedApart
<1>4. CASE i \in DOMAIN s /\ j = Len(s) + 1
  BY <1>1, <1>4
<1>5. CASE i = Len(s) + 1 /\ j \in DOMAIN s
  BY <1>1, <1>5
<1> QED  BY <1>2, <1>3, <1>4, <1>5

LEMMA SwapRemoveNamed ==
    ASSUME NEW S, NEW s \in Seq(S), NEW i \in 1..Len(s), NamedApart(s)
    PROVE  NamedApart(SwapRemove(s, i))
<1> DEFINE rest == SwapRemove(s, i)
           From(j) == IF j = i THEN Len(s) ELSE j
<1>1. /\ rest \in Seq(S) /\ Len(rest) = Len(s) - 1
      /\ \A j \in 1..(Len(s) - 1) : rest[j] = s[From(j)]
  BY SwapRemoveLeaves
<1>2. Len(s) \in Nat /\ DOMAIN s = 1..Len(s) /\ DOMAIN rest = 1..(Len(s) - 1)
  BY <1>1
<1> HIDE DEF rest
<1>3. \A j \in DOMAIN rest : From(j) \in DOMAIN s
  BY <1>2
<1>4. \A j, k \in DOMAIN rest : From(j) = From(k) => j = k
  BY <1>2
<1> SUFFICES ASSUME NEW j \in DOMAIN rest, NEW k \in DOMAIN rest,
                    rest[j].name = rest[k].name
             PROVE  j = k
  BY DEF NamedApart, rest
<1>5. s[From(j)].name = s[From(k)].name
  BY <1>1, <1>2
<1>6. From(j) = From(k)
  BY <1>3, <1>5 DEF NamedApart
<1> QED  BY <1>4, <1>6

LEMMA NamesInductive == TypeOK /\ NamesInv /\ [Next]_vars => NamesInv'
<1> SUFFICES ASSUME TypeOK, NamesInv, [Next]_vars PROVE NamesInv'
  OBVIOUS
<1>1. ASSUME UNCHANGED native PROVE NamesInv'
  BY <1>1 DEF NamesInv
<1>2. ASSUME NEW t \in Tables, Cleared(t) PROVE NamesInv'
  <2>1. NamedApart(<<>>)
    BY EmptySequence DEF NamedApart
  <2> QED  BY <1>2, <2>1, ClearedType DEF NamesInv
<1>3. ASSUME NEW t \in Tables, NEW name \in Names, NEW kind \in Kinds, Raise(t, name, kind)
      PROVE NamesInv'
  <2>1. PICK named \in Named :
            /\ named.name = name
            /\ native' = [native EXCEPT ![t] = Append(native[t], named)]
    <3>1. PICK r \in running[t] :
             /\ native' = [native EXCEPT ![t] =
                    Append(native[t], [reference |-> NewReference(t, r), name |-> name])]
             /\ [reference |-> NewReference(t, r), name |-> name] \in Named
      BY <1>3, RaiseSteps
    <3> QED  BY <3>1
  <2>2. native \in [Tables -> Seq(Named)]
    BY DEF TypeOK
  <2>3. \A i \in DOMAIN native[t] : native[t][i].name # named.name
    BY <1>3, <2>1 DEF Raise, Holds
  <2>4. NamedApart(native[t]) /\ native[t] \in Seq(Named)
    BY <2>2 DEF NamesInv
  <2>5. NamedApart(Append(native[t], named))
    BY <2>3, <2>4, AppendNamed
  <2> QED  BY <2>1, <2>2, <2>5 DEF NamesInv
<1>4. ASSUME NEW t \in Tables, NEW k \in DOMAIN raised, NEW decision \in Decisions,
             Settle(t, raised[k].reference, decision)
      PROVE NamesInv'
  <2>1. PICK j \in 1..Len(native[t]) :
            native' = [native EXCEPT ![t] = SwapRemove(native[t], j)]
    BY <1>4, SettleSteps
  <2>2. native \in [Tables -> Seq(Named)]
    BY DEF TypeOK
  <2>3. NamedApart(SwapRemove(native[t], j))
    BY <2>1, <2>2, SwapRemoveNamed DEF NamesInv
  <2> QED  BY <2>1, <2>2, <2>3 DEF NamesInv
<1>5. CASE UNCHANGED vars
  BY <1>1, <1>5 DEF vars
<1> QED
  BY <1>1, <1>2, <1>3, <1>4, <1>5
  DEF Next, NewInstance, NewGeneration, Begin, End, Relaunch

\* The two lists hold the same questions, each once, and no two of them go by
\* one name (external pending.rs:3-10).
THEOREM ListsAgree == Spec => []TablesAgree
<1>1. Init => NamesInv
  BY EmptySequence DEF Init, NamesInv, NamedApart
<1>2. SettledInv /\ NamesInv => TablesAgree
  BY DEF SettledInv, Lists, Distinct, NamesInv, NamedApart, TablesAgree
<1>3. Spec => []NamesInv
  BY <1>1, NamesInductive, TypeCorrect, PTL DEF Spec
<1> QED  BY <1>2, <1>3, InvariantHolds, PTL

(***************************************************************************)
(* NativeTurn: one of the tables under the turns of a runner.              *)
(***************************************************************************)
Opened == References(open[Mine])
Handed == References(raised)
Done == References(settled)

Sends(c) == doing[c].does = "sends"
Doing == [does : {"nothing", "drains"}]
            \cup [does : {"sends"}, ref : Handed, decision : Decisions]

\* A prompt waits on one question at a time, which was handed out.
OneQuestion ==
    /\ \A one, other \in question : one = other
    /\ question # {} => at \in {"raised", "waiting"}
    /\ posted \cup question \subseteq Handed

\* At most one question is open, and in a turn that has begun it is the one
\* that is waited on; where its sender is still there, nobody has settled it.
OneOpen ==
    /\ \A one, other \in Opened : one = other
    /\ at \in Begun => Opened \subseteq question
    /\ waiting \cap question \subseteq Opened

\* A decision on its way is of a question that is settled, and the only one.
DecisionsApart ==
    /\ doing \in [Clients -> Doing]
    /\ \A c \in Clients : Sends(c) =>
          /\ doing[c].ref \in Done
          /\ \A answer \in heard \cup sent : answer[1] # doing[c].ref
          /\ \A d \in Clients \ {c} : Sends(d) => doing[d].ref # doing[c].ref
    /\ \A answer \in heard \cup sent : answer[1] \in Done

TableInv == TypeOK /\ UniqueInv /\ SettledInv
TurnInv == OneQuestion /\ OneOpen /\ DecisionsApart

LEMMA DoneIsSettled ==
    ASSUME NEW ref
    PROVE  ref \in Done <=> \E i \in DOMAIN settled : settled[i].reference = ref
BY DEF Done, References

\* What is open was handed out and is not settled.
LEMMA OpenIsUnsettled ==
    ASSUME TableInv, NEW ref \in Opened
    PROVE  ref \in Handed /\ ref \notin Done
<1>1. Mine \in Tables
  BY MineAssumption
<1>2. /\ \E j \in DOMAIN raised :
            raised[j] = [reference |-> ref, table |-> Mine, period |-> period[Mine]]
      /\ \A k \in DOMAIN settled : settled[k].reference # ref
  BY <1>1 DEF TableInv, SettledInv, Unsettled, Opened
<1>3. PICK j \in DOMAIN raised :
            raised[j] = [reference |-> ref, table |-> Mine, period |-> period[Mine]]
  BY <1>2
<1>4. raised[j].reference = ref
  BY <1>3
<1> QED  BY <1>2, <1>4 DEF Handed, Done, References

LEMMA TableStands ==
    ASSUME UNCHANGED vars
    PROVE  Opened' = Opened /\ Handed' = Handed /\ Done' = Done
BY DEF vars, Opened, Handed, Done, References

LEMMA TableCleared ==
    ASSUME TableInv, Cleared(Mine), UNCHANGED <<raised, settled>>
    PROVE  Opened' = {} /\ Handed' = Handed /\ Done' = Done
<1>1. open'[Mine] = <<>>
  BY MineAssumption, ClearedType DEF TableInv
<1>2. DOMAIN <<>> = {}
  OBVIOUS
<1> QED  BY <1>1, <1>2 DEF Opened, Handed, Done, References

LEMMA TableRaises ==
    ASSUME TableInv, NEW name \in Names, Raise(Mine, name, "permission")
    PROVE  LET reference == raised'[Len(raised')].reference
           IN  /\ Opened' = Opened \cup {reference}
               /\ Handed' = Handed \cup {reference}
               /\ Done' = Done
<1>0. /\ TypeOK /\ Mine \in Tables /\ "permission" \in Kinds /\ raised \in Seq(Dated)
      /\ open \in [Tables -> Seq(Open)]
  BY MineAssumption DEF TableInv, TypeOK, Kinds
<1>1. PICK r \in running[Mine] :
        LET reference == NewReference(Mine, r)
            opened == [reference |-> reference, pending |-> "permission"]
            dated == [reference |-> reference, table |-> Mine, period |-> period[Mine]]
        IN  /\ open' = [open EXCEPT ![Mine] = Append(open[Mine], opened)]
            /\ raised' = Append(raised, dated)
            /\ opened \in Open /\ dated \in Dated
  BY <1>0, RaiseSteps
<1> DEFINE reference == NewReference(Mine, r)
           opened == [reference |-> reference, pending |-> "permission"]
           dated == [reference |-> reference, table |-> Mine, period |-> period[Mine]]
<1>2. opened.reference = reference /\ dated.reference = reference
  OBVIOUS
<1> HIDE DEF opened, dated, reference
<1>3. /\ open' = [open EXCEPT ![Mine] = Append(open[Mine], opened)]
      /\ raised' = Append(raised, dated) /\ opened \in Open /\ dated \in Dated
  BY <1>1 DEF opened, dated, reference
<1>4. open[Mine] \in Seq(Open) /\ open'[Mine] = Append(open[Mine], opened)
  BY <1>0, <1>3
<1>5. Opened' = Opened \cup {reference}
  BY <1>2, <1>3, <1>4, AppendReferences DEF Opened
<1>6. Handed' = Handed \cup {reference}
  BY <1>0, <1>2, <1>3, AppendReferences DEF Handed
<1>7. raised'[Len(raised')] = dated
  BY <1>0, <1>3, AppendLeaves
<1>8. settled' = settled
  BY DEF Raise
<1> QED  BY <1>2, <1>5, <1>6, <1>7, <1>8 DEF Done

\* A decision is about a question that is open, which it settles.
LEMMA TableSettles ==
    ASSUME TableInv, NEW ref \in Handed, NEW decision \in Decisions, Settle(Mine, ref, decision)
    PROVE  /\ ref \in Opened /\ Opened' = Opened \ {ref}
           /\ Handed' = Handed /\ Done' = Done \cup {ref}
<1>0. /\ TypeOK /\ Mine \in Tables /\ open \in [Tables -> Seq(Open)] /\ settled \in Seq(Dated)
      /\ Distinct(open[Mine])
  BY MineAssumption DEF TableInv, TypeOK, SettledInv, Lists
<1>1. PICK k \in DOMAIN raised : raised[k].reference = ref
  BY DEF Handed, References
<1> DEFINE dated == [reference |-> ref, table |-> Mine, period |-> period[Mine]]
<1>2. PICK i \in 1..Len(open[Mine]) :
        /\ open[Mine][i].reference = ref
        /\ open' = [open EXCEPT ![Mine] = SwapRemove(open[Mine], i)]
        /\ settled' = Append(settled, dated) /\ dated \in Dated
  BY <1>0, <1>1, SettleSteps
<1>3. dated.reference = ref
  OBVIOUS
<1> HIDE DEF dated
<1>4. open[Mine] \in Seq(Open) /\ open'[Mine] = SwapRemove(open[Mine], i)
  BY <1>0, <1>2
<1>5. ref \in Opened
  BY <1>2, <1>4 DEF Opened, References
<1>6. Opened' = Opened \ {ref}
  BY <1>0, <1>2, <1>4, SwapRemoveReferences DEF Opened
<1>7. Done' = Done \cup {ref}
  BY <1>0, <1>2, <1>3, AppendReferences DEF Done
<1>8. raised' = raised
  BY DEF Settle
<1> QED  BY <1>5, <1>6, <1>7, <1>8 DEF Handed

\* Every step of the surface is one of its table, or leaves it.
LEMMA NativeStep ==
    ASSUME TableInv, TurnInv, [NativeNext]_allVars
    PROVE  [Next]_vars
<1>0. Mine \in Tables /\ Session \in Sessions
  BY MineAssumption
<1>1. CASE TurnStarted
  <2>1. turn' \in Turns /\ Begin(Mine, Session, turn')
    BY <1>1 DEF TurnStarted
  <2> QED  BY <1>0, <2>1 DEF Next
<1>2. ASSUME NEW name \in Names, AskRaises(name) PROVE [Next]_vars
  <2>1. Raise(Mine, name, "permission") /\ "permission" \in Kinds
    BY <1>2 DEF AskRaises, Kinds
  <2> QED  BY <1>0, <2>1 DEF Next
<1>3. CASE Ended
  <2>1. End(Mine) \/ UNCHANGED vars
    BY <1>3 DEF Ended
  <2> QED  BY <1>0, <2>1 DEF Next
<1>4. ASSUME NEW ref \in Handed, NEW decision \in Decisions, Settle(Mine, ref, decision)
      PROVE  Next
  <2>1. PICK k \in DOMAIN raised : raised[k].reference = ref
    BY DEF Handed, References
  <2> QED  BY <1>0, <1>4, <2>1 DEF Next
<1>5. ASSUME NEW c \in Clients, NEW ref \in posted, NEW decision \in Decisions,
             Decide(c, ref, decision)
      PROVE  Next
  <2>1. ref \in Handed /\ Settle(Mine, ref, decision)
    BY <1>5 DEF TurnInv, OneQuestion, Decide
  <2> QED  BY <1>4, <2>1
<1>6. ASSUME NEW c \in Clients, Drain(c) PROVE [Next]_vars
  <2>1. UNCHANGED vars \/ \E ref \in Opened : Settle(Mine, ref, "deny")
    BY <1>6 DEF Drain, Opened
  <2>2. "deny" \in Decisions
    BY DEF Decisions
  <2> QED  BY <1>4, <2>1, <2>2, OpenIsUnsettled
<1>7. CASE New
  BY <1>0, <1>7 DEF New, Next
<1>8. CASE \/ UNCHANGED allVars \/ Prompt \/ ResetStop \/ PrepareCall \/ TurnReturns \/ AskRefused
           \/ PostPending \/ (\E answer \in sent : Hear(answer)) \/ Finish \/ DropPrompt
           \/ \E c \in Clients : Send(c) \/ Interrupt(c)
  BY <1>8
  DEF allVars, Prompt, ResetStop, PrepareCall, TurnReturns, AskRefused, PostPending, Hear, Finish,
      DropPrompt, Send, Interrupt
<1> QED  BY <1>1, <1>2, <1>3, <1>5, <1>6, <1>7, <1>8 DEF NativeNext

\* Where the table stays, and nothing is sent.
LEMMA TurnStands ==
    ASSUME TurnInv, UNCHANGED vars, UNCHANGED <<question, waiting, posted, sent, doing, heard>>,
           question # {} => at' \in {"raised", "waiting"},
           at' \in Begun => at \in Begun
    PROVE  TurnInv'
<1>1. Opened' = Opened /\ Handed' = Handed /\ Done' = Done
  BY TableStands
<1>2. OneQuestion' /\ OneOpen'
  BY <1>1 DEF TurnInv, OneQuestion, OneOpen
<1>3. Doing' = Doing
  BY <1>1 DEF Doing
<1>4. DecisionsApart'
  BY <1>1, <1>3 DEF TurnInv, DecisionsApart, Sends
<1> QED  BY <1>2, <1>4 DEF TurnInv

LEMMA PromptTurns ==
    ASSUME TurnInv,
           \/ UNCHANGED allVars \/ Prompt \/ ResetStop \/ PrepareCall \/ TurnReturns
           \/ AskRefused \/ Finish
    PROVE  TurnInv'
<1>1. question # {} => at \in {"raised", "waiting"}
  BY DEF TurnInv, OneQuestion
<1>2. /\ UNCHANGED vars /\ UNCHANGED <<question, waiting, posted, sent, doing, heard>>
      /\ question # {} => at' \in {"raised", "waiting"}
      /\ at' \in Begun => at \in Begun
  BY <1>1
  DEF Prompt, ResetStop, PrepareCall, TurnReturns, AskRefused, Finish, allVars, turnVars, Begun
<1> QED  BY <1>2, TurnStands

LEMMA PostPendingTurns == TurnInv /\ PostPending => TurnInv'
<1> SUFFICES ASSUME TurnInv, PostPending PROVE TurnInv'
  OBVIOUS
<1>1. Opened' = Opened /\ Handed' = Handed /\ Done' = Done
  BY TableStands DEF PostPending
<1>2. OneQuestion' /\ OneOpen'
  BY <1>1 DEF TurnInv, OneQuestion, OneOpen, PostPending, Begun
<1>3. Doing' = Doing
  BY <1>1 DEF Doing
<1>4. DecisionsApart'
  BY <1>1, <1>3 DEF TurnInv, DecisionsApart, Sends, PostPending
<1> QED  BY <1>2, <1>4 DEF TurnInv

\* A turn begins, or ends, with nothing open.
LEMMA ClearedTurns ==
    ASSUME TableInv, TurnInv, TurnStarted \/ Ended
    PROVE  TurnInv'
<1>1. /\ question = {} /\ question' = {} /\ UNCHANGED <<posted, sent, doing, heard>>
      /\ waiting' \subseteq waiting
  BY DEF TurnStarted, Ended, TurnInv, OneQuestion
<1>2. \/ UNCHANGED vars /\ at' \notin Begun
      \/ Cleared(Mine) /\ UNCHANGED <<raised, settled>>
  BY DEF TurnStarted, Ended, Begin, End, Begun
<1>3. /\ Handed' = Handed /\ Done' = Done
      /\ Opened' = {} \/ (Opened' = Opened /\ at' \notin Begun)
  BY <1>2, TableStands, TableCleared
<1>4. OneQuestion' /\ OneOpen'
  BY <1>1, <1>3 DEF TurnInv, OneQuestion, OneOpen
<1>5. Doing' = Doing
  BY <1>3 DEF Doing
<1>6. DecisionsApart'
  BY <1>1, <1>3, <1>5 DEF TurnInv, DecisionsApart, Sends
<1> QED  BY <1>4, <1>6 DEF TurnInv

LEMMA AskRaisesTurns ==
    ASSUME TableInv, TurnInv, NEW name \in Names, AskRaises(name)
    PROVE  TurnInv'
<1> DEFINE reference == raised'[Len(raised')].reference
<1>1. /\ Opened' = Opened \cup {reference} /\ Handed' = Handed \cup {reference}
      /\ Done' = Done
  BY TableRaises DEF AskRaises
<1>2. /\ at = "asking" /\ at' = "raised" /\ question' = {reference}
      /\ waiting' = waiting \cup {reference} /\ UNCHANGED <<posted, sent, doing, heard>>
  BY DEF AskRaises
<1> HIDE DEF reference
<1>3. Opened = {}
  BY <1>2 DEF TurnInv, OneQuestion, OneOpen, Begun
<1>4. OneQuestion' /\ OneOpen'
  BY <1>1, <1>2, <1>3 DEF TurnInv, OneQuestion, OneOpen
<1>5. Doing \subseteq Doing'
  BY <1>1 DEF Doing
<1>6. DecisionsApart'
  BY <1>1, <1>2, <1>5 DEF TurnInv, DecisionsApart, Sends
<1> QED  BY <1>4, <1>6 DEF TurnInv

\* What is heard was settled, so that nothing is open.
LEMMA HearTurns ==
    ASSUME TableInv, TurnInv, NEW answer \in sent, Hear(answer)
    PROVE  TurnInv'
<1>1. Opened' = Opened /\ Handed' = Handed /\ Done' = Done
  BY TableStands DEF Hear
<1>2. /\ answer[1] \in question /\ answer[1] \in Done /\ at = "waiting" /\ question' = {}
      /\ heard' \cup sent' = heard \cup sent
      /\ UNCHANGED <<posted, waiting, doing>>
  BY DEF Hear, TurnInv, DecisionsApart
<1>3. Opened = {}
  <2>1. Opened \subseteq {answer[1]}
    BY <1>2 DEF TurnInv, OneQuestion, OneOpen, Begun
  <2> QED  BY <1>2, <2>1, OpenIsUnsettled
<1>4. OneQuestion' /\ OneOpen'
  BY <1>1, <1>2, <1>3 DEF TurnInv, OneQuestion, OneOpen
<1>5. Doing' = Doing
  BY <1>1 DEF Doing
<1>6. DecisionsApart'
  BY <1>1, <1>2, <1>5 DEF TurnInv, DecisionsApart, Sends
<1> QED  BY <1>4, <1>6 DEF TurnInv

LEMMA DropPromptTurns == TurnInv /\ DropPrompt => TurnInv'
<1> SUFFICES ASSUME TurnInv, DropPrompt PROVE TurnInv'
  OBVIOUS
<1>1. Opened' = Opened /\ Handed' = Handed /\ Done' = Done
  BY TableStands DEF DropPrompt
<1>2. OneQuestion' /\ OneOpen'
  BY <1>1 DEF TurnInv, OneQuestion, OneOpen, DropPrompt, Begun
<1>3. Doing' = Doing
  BY <1>1 DEF Doing
<1>4. DecisionsApart'
  BY <1>1, <1>3 DEF TurnInv, DecisionsApart, Sends, DropPrompt
<1> QED  BY <1>2, <1>4 DEF TurnInv

\* Nobody has settled a question that is open, and nobody else will.
LEMMA OpenIsUndecided ==
    ASSUME TableInv, TurnInv, NEW ref \in Opened
    PROVE  /\ \A answer \in heard \cup sent : answer[1] # ref
           /\ \A c \in Clients : Sends(c) => doing[c].ref # ref
BY OpenIsUnsettled DEF TurnInv, DecisionsApart

LEMMA DecideTurns ==
    ASSUME TableInv, TurnInv, NEW c \in Clients, NEW ref \in posted,
           NEW decision \in Decisions, Decide(c, ref, decision)
    PROVE  TurnInv'
<1>1. ref \in Handed /\ Settle(Mine, ref, decision)
  BY DEF TurnInv, OneQuestion, Decide
<1>2. /\ ref \in Opened /\ Opened' = Opened \ {ref}
      /\ Handed' = Handed /\ Done' = Done \cup {ref}
  BY <1>1, TableSettles
<1>3. /\ \A answer \in heard \cup sent : answer[1] # ref
      /\ \A d \in Clients : Sends(d) => doing[d].ref # ref
  BY <1>2, OpenIsUndecided
<1>4. /\ waiting' = waiting \ {ref} /\ UNCHANGED <<at, question, posted, sent, heard>>
      /\ doing[c] = Idle
      /\ \/ doing' = doing
         \/ doing' = [doing EXCEPT ![c] = [does |-> "sends", ref |-> ref, decision |-> decision]]
  BY DEF Decide
<1>5. OneQuestion' /\ OneOpen'
  BY <1>2, <1>4 DEF TurnInv, OneQuestion, OneOpen
<1>6. doing \in [Clients -> Doing] /\ Doing' = Doing
  <2>1. Doing' = Doing
    BY <1>2 DEF Doing
  <2> QED  BY <2>1 DEF TurnInv, DecisionsApart
<1>7. CASE doing' = doing
  <2>1. \A d \in Clients : Sends(d)' = Sends(d)
    BY <1>7 DEF Sends
  <2>2. DecisionsApart'
    BY <1>2, <1>4, <1>6, <1>7, <2>1 DEF TurnInv, DecisionsApart
  <2> QED  BY <1>5, <2>2 DEF TurnInv
<1>8. CASE doing' = [doing EXCEPT ![c] = [does |-> "sends", ref |-> ref, decision |-> decision]]
  <2> DEFINE sending == [does |-> "sends", ref |-> ref, decision |-> decision]
  <2>1. sending \in Doing /\ sending.does = "sends" /\ sending.ref = ref
    BY <1>1 DEF Doing
  <2> HIDE DEF sending
  <2>2. doing' = [doing EXCEPT ![c] = sending]
    BY <1>8 DEF sending
  <2>3. /\ doing'[c] = sending /\ \A d \in Clients \ {c} : doing'[d] = doing[d]
        /\ doing' \in [Clients -> Doing']
    BY <1>6, <2>1, <2>2
  <2>4. \A d \in Clients \ {c} : Sends(d)' => Sends(d) /\ doing'[d].ref = doing[d].ref
    BY <2>3 DEF Sends
  <2>5. \A d \in Clients : Sends(d)' =>
            /\ doing'[d].ref \in Done'
            /\ \A answer \in heard \cup sent : answer[1] # doing'[d].ref
            /\ \A e \in Clients \ {d} : Sends(e)' => doing'[e].ref # doing'[d].ref
    <3> TAKE d \in Clients
    <3>1. CASE d = c
      BY <1>2, <1>3, <2>1, <2>3, <2>4, <3>1
    <3>2. CASE d # c
      <4> SUFFICES ASSUME Sends(d)' PROVE
            /\ doing'[d].ref \in Done'
            /\ \A answer \in heard \cup sent : answer[1] # doing'[d].ref
            /\ \A e \in Clients \ {d} : Sends(e)' => doing'[e].ref # doing'[d].ref
        OBVIOUS
      <4>1. Sends(d) /\ doing'[d].ref = doing[d].ref /\ doing[d].ref # ref
        BY <1>3, <2>4, <3>2
      <4>2. /\ doing[d].ref \in Done
            /\ \A answer \in heard \cup sent : answer[1] # doing[d].ref
            /\ \A e \in Clients \ {d} : Sends(e) => doing[e].ref # doing[d].ref
        BY <4>1 DEF TurnInv, DecisionsApart
      <4>3. ASSUME NEW e \in Clients \ {d}, Sends(e)' PROVE doing'[e].ref # doing'[d].ref
        <5>1. CASE e = c
          BY <2>1, <2>3, <4>1, <5>1
        <5>2. CASE e # c
          BY <2>4, <4>1, <4>2, <4>3, <5>2
        <5> QED  BY <5>1, <5>2
      <4> QED  BY <1>2, <4>1, <4>2, <4>3
    <3> QED  BY <3>1, <3>2
  <2>6. \A answer \in heard \cup sent : answer[1] \in Done'
    BY <1>2 DEF TurnInv, DecisionsApart
  <2>7. DecisionsApart'
    BY <1>4, <2>3, <2>5, <2>6 DEF DecisionsApart
  <2> QED  BY <1>5, <2>7 DEF TurnInv
<1> QED  BY <1>4, <1>5, <1>7, <1>8 DEF TurnInv

\* A client that is through, or drains, sends nothing.
LEMMA OneSendsNot ==
    ASSUME DecisionsApart, NEW c \in Clients, NEW to, to.does # "sends",
           doing' = [doing EXCEPT ![c] = to]
    PROVE  /\ ~Sends(c)' /\ doing'[c] = to
           /\ \A d \in Clients \ {c} : doing'[d] = doing[d] /\ (Sends(d)' <=> Sends(d))
BY DEF DecisionsApart, Sends

LEMMA IdleSendsNot == Idle.does # "sends" /\ Idle.does \in {"nothing", "drains"}
BY DEF Idle

LEMMA IdleIsDoing == Idle \in Doing /\ [does |-> "drains"] \in Doing
BY DEF Idle, Doing

LEMMA SendTurns ==
    ASSUME TableInv, TurnInv, NEW c \in Clients, Send(c)
    PROVE  TurnInv'
<1> DEFINE answer == <<doing[c].ref, doing[c].decision>>
<1>1. Opened' = Opened /\ Handed' = Handed /\ Done' = Done
  BY TableStands DEF Send
<1>2. /\ Sends(c) /\ doing' = [doing EXCEPT ![c] = Idle]
      /\ UNCHANGED <<at, question, waiting, posted, heard>>
      /\ sent' \subseteq sent \cup {answer} /\ answer[1] = doing[c].ref
  BY DEF Send, Sends
<1> HIDE DEF answer
<1>3. DecisionsApart
  BY DEF TurnInv
<1>4. /\ ~Sends(c)' /\ \A d \in Clients \ {c} : doing'[d] = doing[d] /\ (Sends(d)' <=> Sends(d))
  BY <1>2, <1>3, IdleSendsNot, OneSendsNot
<1>5. OneQuestion' /\ OneOpen'
  BY <1>1, <1>2 DEF TurnInv, OneQuestion, OneOpen
<1>6. doing' \in [Clients -> Doing']
  <2>1. Doing' = Doing
    BY <1>1 DEF Doing
  <2> QED  BY <1>2, <1>3, <2>1, IdleIsDoing DEF DecisionsApart
<1>7. \A d \in Clients : Sends(d)' =>
          /\ doing'[d].ref \in Done'
          /\ \A a \in heard' \cup sent' : a[1] # doing'[d].ref
          /\ \A e \in Clients \ {d} : Sends(e)' => doing'[e].ref # doing'[d].ref
  <2> SUFFICES ASSUME NEW d \in Clients, Sends(d)'
               PROVE  /\ doing'[d].ref \in Done'
                      /\ \A a \in heard' \cup sent' : a[1] # doing'[d].ref
                      /\ \A e \in Clients \ {d} : Sends(e)' => doing'[e].ref # doing'[d].ref
    OBVIOUS
  <2>1. d # c /\ Sends(d) /\ doing'[d] = doing[d]
    BY <1>4
  <2>2. /\ doing[d].ref \in Done
        /\ \A a \in heard \cup sent : a[1] # doing[d].ref
        /\ \A e \in Clients \ {d} : Sends(e) => doing[e].ref # doing[d].ref
    BY <1>3, <2>1 DEF DecisionsApart
  <2>3. answer[1] # doing[d].ref
    BY <1>2, <2>1, <2>2
  <2> QED  BY <1>1, <1>2, <1>4, <2>1, <2>2, <2>3
<1>8. \A a \in heard' \cup sent' : a[1] \in Done'
  BY <1>1, <1>2, <1>3 DEF DecisionsApart
<1>9. DecisionsApart'
  BY <1>6, <1>7, <1>8 DEF DecisionsApart
<1> QED  BY <1>5, <1>9 DEF TurnInv

LEMMA InterruptTurns ==
    ASSUME TurnInv, NEW c \in Clients, Interrupt(c)
    PROVE  TurnInv'
<1>1. Opened' = Opened /\ Handed' = Handed /\ Done' = Done
  BY TableStands DEF Interrupt
<1>2. /\ doing' = [doing EXCEPT ![c] = [does |-> "drains"]] /\ DecisionsApart
      /\ UNCHANGED <<at, question, waiting, posted, heard, sent>>
  BY DEF Interrupt, TurnInv
<1>3. /\ ~Sends(c)' /\ \A d \in Clients \ {c} : doing'[d] = doing[d] /\ (Sends(d)' <=> Sends(d))
  BY <1>2, OneSendsNot
<1>4. OneQuestion' /\ OneOpen'
  BY <1>1, <1>2 DEF TurnInv, OneQuestion, OneOpen
<1>5. doing' \in [Clients -> Doing']
  <2>1. Doing' = Doing
    BY <1>1 DEF Doing
  <2> QED  BY <1>2, <2>1, IdleIsDoing DEF DecisionsApart
<1>6. DecisionsApart'
  BY <1>1, <1>2, <1>3, <1>5 DEF DecisionsApart
<1> QED  BY <1>4, <1>6 DEF TurnInv

\* What an interrupt settles is all that is open, and what it answers is
\* settled.
LEMMA DrainSettles ==
    ASSUME TableInv, TurnInv, NEW c \in Clients, Drain(c)
    PROVE  /\ Handed' = Handed
           /\ \/ Opened' = Opened /\ Done' = Done /\ waiting \cap question = {}
              \/ \E ref \in Opened : /\ Opened' = {} /\ Done' = Done \cup {ref}
                                     /\ waiting \cap question \subseteq {ref}
<1>1. waiting \cap question \subseteq Opened /\ \A one, other \in Opened : one = other
  BY DEF TurnInv, OneOpen
<1>2. CASE waiting \cap Opened = {}
  <2>1. UNCHANGED vars
    BY <1>2 DEF Drain, Opened
  <2> QED  BY <1>1, <1>2, <2>1, TableStands
<1>3. CASE waiting \cap Opened # {}
  <2>1. PICK ref \in Opened : Settle(Mine, ref, "deny")
    BY <1>3 DEF Drain, Opened
  <2>2. ref \in Handed /\ "deny" \in Decisions
    BY <2>1, OpenIsUnsettled DEF Decisions
  <2>3. Opened' = Opened \ {ref} /\ Handed' = Handed /\ Done' = Done \cup {ref}
    BY <2>1, <2>2, TableSettles
  <2> QED  BY <1>1, <2>3
<1> QED  BY <1>2, <1>3

LEMMA DrainTurns ==
    ASSUME TableInv, TurnInv, NEW c \in Clients, Drain(c)
    PROVE  TurnInv'
<1> DEFINE told == {<<ref, "deny">> : ref \in waiting \cap question}
<1>1. /\ doing' = [doing EXCEPT ![c] = Idle] /\ DecisionsApart
      /\ UNCHANGED <<at, question, posted, heard>>
      /\ waiting' = {} /\ sent' = sent \cup told
  BY DEF Drain, TurnInv
<1>2. /\ ~Sends(c)' /\ \A d \in Clients \ {c} : doing'[d] = doing[d] /\ (Sends(d)' <=> Sends(d))
  BY <1>1, IdleSendsNot, OneSendsNot
<1>3. \A a \in told : a[1] \in waiting \cap question
  OBVIOUS
<1> HIDE DEF told
<1>4. /\ Handed' = Handed /\ Done \subseteq Done' /\ Opened' \subseteq Opened
      /\ waiting \cap question \subseteq Opened /\ waiting \cap question \subseteq Done'
  BY DrainSettles DEF TurnInv, OneOpen
<1>5. OneQuestion' /\ OneOpen'
  BY <1>1, <1>4 DEF TurnInv, OneQuestion, OneOpen
<1>6. doing' \in [Clients -> Doing']
  <2>1. Doing' = Doing
    BY <1>4 DEF Doing
  <2> QED  BY <1>1, <2>1, IdleIsDoing DEF DecisionsApart
<1>7. \A d \in Clients : Sends(d) => \A a \in told : a[1] # doing[d].ref
  BY <1>3, <1>4, OpenIsUndecided
<1>8. \A d \in Clients : Sends(d)' =>
          /\ doing'[d].ref \in Done'
          /\ \A a \in heard' \cup sent' : a[1] # doing'[d].ref
          /\ \A e \in Clients \ {d} : Sends(e)' => doing'[e].ref # doing'[d].ref
  <2> SUFFICES ASSUME NEW d \in Clients, Sends(d)'
               PROVE  /\ doing'[d].ref \in Done'
                      /\ \A a \in heard' \cup sent' : a[1] # doing'[d].ref
                      /\ \A e \in Clients \ {d} : Sends(e)' => doing'[e].ref # doing'[d].ref
    OBVIOUS
  <2>1. d # c /\ Sends(d) /\ doing'[d] = doing[d]
    BY <1>2
  <2>2. /\ doing[d].ref \in Done
        /\ \A a \in heard \cup sent : a[1] # doing[d].ref
        /\ \A e \in Clients \ {d} : Sends(e) => doing[e].ref # doing[d].ref
    BY <1>1, <2>1 DEF DecisionsApart
  <2> QED  BY <1>1, <1>2, <1>4, <1>7, <2>1, <2>2
<1>9. \A a \in heard' \cup sent' : a[1] \in Done'
  BY <1>1, <1>3, <1>4 DEF DecisionsApart
<1>10. DecisionsApart'
  BY <1>6, <1>8, <1>9 DEF DecisionsApart
<1> QED  BY <1>5, <1>10 DEF TurnInv

LEMMA NewTurns == TurnInv /\ New => TurnInv'
<1> SUFFICES ASSUME TurnInv, New PROVE TurnInv'
  OBVIOUS
<1>1. UNCHANGED <<open, raised, settled>> /\ UNCHANGED turnVars
  BY DEF New, NewInstance, NewGeneration
<1>2. Opened' = Opened /\ Handed' = Handed /\ Done' = Done
  BY <1>1 DEF Opened, Handed, Done, References
<1>3. Doing' = Doing
  BY <1>2 DEF Doing
<1>4. OneQuestion' /\ OneOpen' /\ DecisionsApart'
  BY <1>1, <1>2, <1>3 DEF turnVars, TurnInv, OneQuestion, OneOpen, DecisionsApart, Sends
<1> QED  BY <1>4 DEF TurnInv

LEMMA TurnInit == NativeInit => TableInv /\ TurnInv
<1> SUFFICES ASSUME NativeInit PROVE TableInv /\ TurnInv
  OBVIOUS
<1>1. Init /\ Mine \in Tables
  BY MineAssumption DEF NativeInit
<1>2. TableInv
  BY <1>1, TypeInit, UniqueInit, SettledInit DEF TableInv
<1>3. DOMAIN <<>> = {}
  OBVIOUS
<1>4. Opened = {}
  BY <1>1, <1>3 DEF Init, Opened, References
<1>5. OneQuestion /\ OneOpen
  BY <1>4 DEF NativeInit, OneQuestion, OneOpen
<1>6. \A c \in Clients : doing[c] = Idle
  BY DEF NativeInit
<1>7. doing \in [Clients -> Doing]
  BY IdleIsDoing DEF NativeInit
<1>8. DecisionsApart
  BY <1>6, <1>7, IdleSendsNot DEF NativeInit, DecisionsApart, Sends
<1> QED  BY <1>2, <1>5, <1>8 DEF TurnInv

LEMMA TurnInductive == TableInv /\ TurnInv /\ [NativeNext]_allVars => TableInv' /\ TurnInv'
<1> SUFFICES ASSUME TableInv, TurnInv, [NativeNext]_allVars PROVE TableInv' /\ TurnInv'
  OBVIOUS
<1>1. TableInv'
  BY NativeStep, TypeInductive, UniqueInductive, SettledInductive DEF TableInv
<1>2. TurnInv'
  BY PromptTurns, PostPendingTurns, ClearedTurns, AskRaisesTurns, HearTurns, DropPromptTurns,
     DecideTurns, SendTurns, InterruptTurns, DrainTurns, NewTurns
  DEF NativeNext
<1> QED  BY <1>1, <1>2

\* Whoever is waited for is open, being sent, or was sent.
LEMMA AnswerableStep ==
    ASSUME TableInv, TurnInv, AnswerableWhileWaited, [NativeNext]_allVars
    PROVE  AnswerableWhileWaited'
<1> SUFFICES ASSUME NEW ref \in question'
             PROVE  \/ \E answer \in sent' : answer[1] = ref
                    \/ ref \in waiting' /\ ref \in Opened'
                    \/ \E c \in Clients : doing'[c].does = "sends" /\ doing'[c].ref = ref
  BY DEF AnswerableWhileWaited, Opened
<1>0. /\ ref \in question => \/ \E answer \in sent : answer[1] = ref
                             \/ ref \in waiting /\ ref \in Opened
                             \/ \E c \in Clients : Sends(c) /\ doing[c].ref = ref
      /\ doing \in [Clients -> Doing]
      /\ question # {} => at \in {"raised", "waiting"}
  BY DEF AnswerableWhileWaited, Opened, Sends, TurnInv, DecisionsApart, OneQuestion
<1>1. CASE \/ UNCHANGED allVars \/ Prompt \/ ResetStop \/ PrepareCall \/ TurnReturns
           \/ AskRefused \/ PostPending \/ Finish
  <2>1. UNCHANGED vars /\ UNCHANGED <<question, sent, waiting, doing>>
    BY <1>1
    DEF allVars, turnVars, Prompt, ResetStop, PrepareCall, TurnReturns, AskRefused, PostPending,
        Finish
  <2> QED  BY <1>0, <2>1, TableStands DEF Sends
<1>2. CASE \/ TurnStarted \/ Ended \/ DropPrompt \/ \E answer \in sent : Hear(answer)
  BY <1>0, <1>2 DEF TurnStarted, Ended, DropPrompt, Hear
<1>3. ASSUME NEW name \in Names, AskRaises(name)
      PROVE  ref \in waiting' /\ ref \in Opened'
  BY <1>3, TableRaises DEF AskRaises
<1>4. ASSUME NEW c \in Clients, NEW r \in posted, NEW decision \in Decisions,
             Decide(c, r, decision)
      PROVE  \/ \E answer \in sent' : answer[1] = ref
             \/ ref \in waiting' /\ ref \in Opened'
             \/ \E d \in Clients : doing'[d].does = "sends" /\ doing'[d].ref = ref
  <2>1. r \in Handed /\ Settle(Mine, r, decision)
    BY <1>4 DEF TurnInv, OneQuestion, Decide
  <2>2. Opened' = Opened \ {r}
    BY <2>1, TableSettles
  <2>3. /\ UNCHANGED <<question, sent>> /\ waiting' = waiting \ {r} /\ doing[c] = Idle
        /\ doing' = IF r \in waiting
                    THEN [doing EXCEPT ![c] = [does |-> "sends", ref |-> r, decision |-> decision]]
                    ELSE doing
    BY <1>4 DEF Decide
  <2>4. ASSUME NEW d \in Clients, Sends(d) PROVE doing'[d] = doing[d]
    BY <1>0, <2>3, <2>4, IdleSendsNot DEF Sends
  <2>5. CASE ref \in waiting /\ ref \in Opened /\ ref = r
    <3>1. doing'[c].does = "sends" /\ doing'[c].ref = ref
      BY <1>0, <2>3, <2>5
    <3> QED  BY <3>1
  <2>6. CASE ref \in waiting /\ ref \in Opened /\ ref # r
    BY <2>2, <2>3, <2>6
  <2>7. CASE \E d \in Clients : Sends(d) /\ doing[d].ref = ref
    BY <2>4, <2>7 DEF Sends
  <2>8. CASE \E answer \in sent : answer[1] = ref
    BY <2>3, <2>8
  <2> QED  BY <1>0, <2>3, <2>5, <2>6, <2>7, <2>8
<1>5. ASSUME NEW c \in Clients, Send(c)
      PROVE  \/ \E answer \in sent' : answer[1] = ref
             \/ ref \in waiting' /\ ref \in Opened'
             \/ \E d \in Clients : doing'[d].does = "sends" /\ doing'[d].ref = ref
  <2> DEFINE answer == <<doing[c].ref, doing[c].decision>>
  <2>1. /\ UNCHANGED vars /\ UNCHANGED <<question, waiting>> /\ sent \subseteq sent'
        /\ doing' = [doing EXCEPT ![c] = Idle]
        /\ doing[c].ref \in question => answer \in sent'
        /\ answer[1] = doing[c].ref
    BY <1>5 DEF Send
  <2> HIDE DEF answer
  <2>2. CASE ref = doing[c].ref
    BY <2>1, <2>2
  <2>3. CASE ref # doing[c].ref
    <3>1. \A d \in Clients \ {c} : doing'[d] = doing[d]
      BY <1>0, <2>1
    <3> QED  BY <1>0, <2>1, <2>3, <3>1, TableStands DEF Sends
  <2> QED  BY <2>2, <2>3
<1>6. ASSUME NEW c \in Clients, Interrupt(c)
      PROVE  \/ \E answer \in sent' : answer[1] = ref
             \/ ref \in waiting' /\ ref \in Opened'
             \/ \E d \in Clients : doing'[d].does = "sends" /\ doing'[d].ref = ref
  <2>1. /\ UNCHANGED vars /\ UNCHANGED <<question, waiting, sent>> /\ doing[c] = Idle
        /\ doing' = [doing EXCEPT ![c] = [does |-> "drains"]]
    BY <1>6 DEF Interrupt
  <2>2. ASSUME NEW d \in Clients, Sends(d) PROVE doing'[d] = doing[d]
    BY <1>0, <2>1, <2>2, IdleSendsNot DEF Sends
  <2> QED  BY <1>0, <2>1, <2>2, TableStands DEF Sends
<1>7. ASSUME NEW c \in Clients, Drain(c)
      PROVE  \/ \E answer \in sent' : answer[1] = ref
             \/ \E d \in Clients : doing'[d].does = "sends" /\ doing'[d].ref = ref
  <2>1. /\ question' = question /\ doing[c].does = "drains"
        /\ doing' = [doing EXCEPT ![c] = Idle]
        /\ sent' = sent \cup {<<r, "deny">> : r \in waiting \cap question}
    BY <1>7 DEF Drain
  <2>2. ASSUME NEW d \in Clients, Sends(d) PROVE doing'[d] = doing[d]
    BY <1>0, <2>1, <2>2 DEF Sends
  <2>3. ASSUME ref \in waiting PROVE \E answer \in sent' : answer[1] = ref
    <3>1. <<ref, "deny">> \in sent' /\ <<ref, "deny">>[1] = ref
      BY <2>1, <2>3
    <3> QED  BY <3>1
  <2> QED  BY <1>0, <2>1, <2>2, <2>3 DEF Sends
<1>8. CASE New
  <2>1. UNCHANGED <<open, raised, settled>> /\ UNCHANGED turnVars
    BY <1>8 DEF New, NewInstance, NewGeneration
  <2>2. Opened' = Opened
    BY <2>1 DEF Opened, References
  <2> QED  BY <1>0, <2>1, <2>2 DEF turnVars, Sends
<1> QED  BY <1>1, <1>2, <1>3, <1>4, <1>5, <1>6, <1>7, <1>8 DEF NativeNext

\* The answers of a question are one.
Decided ==
    /\ \A one, other \in heard \cup sent : one[1] = other[1] => one = other
    /\ took \subseteq heard \cup sent \cup lost

LEMMA DecidedStep ==
    ASSUME TableInv, TurnInv, Decided, [NativeNext]_allVars
    PROVE  Decided'
<1>1. CASE \/ UNCHANGED allVars \/ Prompt \/ ResetStop \/ TurnStarted \/ PrepareCall \/ TurnReturns
           \/ (\E name \in Names : AskRaises(name)) \/ AskRefused \/ PostPending \/ Ended \/ Finish
           \/ New \/ \E c \in Clients : Interrupt(c)
  <2>1. UNCHANGED <<heard, sent, took, lost>>
    BY <1>1
    DEF allVars, turnVars, Prompt, ResetStop, TurnStarted, PrepareCall, TurnReturns, AskRaises,
        AskRefused, PostPending, Ended, Finish, New, Interrupt
  <2> QED  BY <2>1 DEF Decided
<1>2. CASE \E c \in Clients : \E ref \in posted, decision \in Decisions : Decide(c, ref, decision)
  <2>1. UNCHANGED <<heard, sent, took, lost>>
    BY <1>2 DEF Decide
  <2> QED  BY <2>1 DEF Decided
<1>3. ASSUME NEW answer \in sent, Hear(answer) PROVE Decided'
  <2>1. heard' \cup sent' = heard \cup sent /\ UNCHANGED <<took, lost>>
    BY <1>3 DEF Hear
  <2> QED  BY <2>1 DEF Decided
<1>4. CASE DropPrompt
  BY <1>4 DEF DropPrompt, Decided
<1>5. ASSUME NEW c \in Clients, Send(c) PROVE Decided'
  <2> DEFINE answer == <<doing[c].ref, doing[c].decision>>
  <2>1. /\ Sends(c) /\ UNCHANGED <<heard, lost>> /\ answer[1] = doing[c].ref
        /\ \/ UNCHANGED <<sent, took>>
           \/ sent' = sent \cup {answer} /\ took' = took \cup {answer}
    BY <1>5 DEF Send, Sends
  <2> HIDE DEF answer
  <2>2. \A a \in heard \cup sent : a[1] # answer[1]
    BY <2>1 DEF TurnInv, DecisionsApart
  <2> QED  BY <2>1, <2>2 DEF Decided
<1>6. ASSUME NEW c \in Clients, Drain(c) PROVE Decided'
  <2> DEFINE told == {<<ref, "deny">> : ref \in waiting \cap question}
  <2>1. sent' = sent \cup told /\ UNCHANGED <<heard, took, lost>>
    BY <1>6 DEF Drain
  <2>2. \A a \in told : a[1] \in Opened /\ a = <<a[1], "deny">>
    BY DEF TurnInv, OneOpen
  <2> HIDE DEF told
  <2>3. \A a \in told : \A b \in heard \cup sent : b[1] # a[1]
    BY <2>2, OpenIsUndecided
  <2>4. \A a, b \in told : a[1] = b[1] => a = b
    BY <2>2
  <2> QED  BY <2>1, <2>3, <2>4 DEF Decided
<1> QED  BY <1>1, <1>2, <1>3, <1>4, <1>5, <1>6 DEF NativeNext

LEMMA NativeInvariant ==
    NativeSpec => [](TableInv /\ TurnInv /\ AnswerableWhileWaited /\ Decided)
<1>1. NativeInit => TableInv /\ TurnInv /\ AnswerableWhileWaited /\ Decided
  BY TurnInit DEF NativeInit, AnswerableWhileWaited, Decided
<1>2. TableInv /\ TurnInv /\ AnswerableWhileWaited /\ Decided /\ [NativeNext]_allVars
         => TableInv' /\ TurnInv' /\ AnswerableWhileWaited' /\ Decided'
  BY TurnInductive, AnswerableStep, DecidedStep
<1> QED  BY <1>1, <1>2, PTL DEF NativeSpec

\* The table of a backend is one of the tables of Pendings: what the runner's
\* turn and the clients do to it is what Pendings allows (native.rs:59).
THEOREM NativeIsPendings == NativeSpec => Spec
<1>1. NativeInit => Init
  BY DEF NativeInit
<1>2. TableInv /\ TurnInv /\ [NativeNext]_allVars => [Next]_vars
  BY NativeStep
<1> QED  BY <1>1, <1>2, NativeInvariant, PTL DEF NativeSpec, Spec

\* Whatever the clients decide, send or interrupt, and wherever the prompt is
\* dropped, a turn never waits on a question nobody can answer
\* (native.rs:246-262).
THEOREM WaitsAreAnswerable == NativeSpec => []AnswerableWhileWaited
BY NativeInvariant, PTL

\* A call goes on with the one answer the table settled, and what a client was
\* told was taken is heard, on its way, or went with a dropped prompt
\* (native.rs:244-261).
THEOREM DecisionsAreHeard == NativeSpec => []DecisionsReachTheirCall
<1>1. TurnInv /\ Decided => DecisionsReachTheirCall
  BY DEF TurnInv, DecisionsApart, Done, References, Decided, DecisionsReachTheirCall
<1> QED  BY <1>1, NativeInvariant, PTL
=============================================================================
