------------------------------ MODULE Renewal ------------------------------
(***************************************************************************)
(* Renewing an account's tokens: the one rotation in flight for each       *)
(* account of a process (renewal.rs), the store's lock it is done under    *)
(* and the document it is written into (store.rs), the credentials that    *)
(* wait for it (openai.rs), and the sign-ins that change the same store.   *)
(*                                                                         *)
(* A token stands for everything the store holds under one name: what is   *)
(* presented to the service to have it renewed, and the account it is of.  *)
(* The service takes each one once.  A token that is due stays due.        *)
(*                                                                         *)
(* A process is signed in to the account the store held when it started,   *)
(* and asks for a renewal of each name under that account alone.           *)
(***************************************************************************)
EXTENDS Naturals, FiniteSets

CONSTANTS
    Procs,      \* the processes
    Names,      \* the names the store holds accounts under
    ProviderOf, \* whose account a name holds, of those this build writes
    Login,      \* a process's sign-in, beside the names it renews
    Waiters,    \* who authorizes a request with a credential
    Home,       \* whose credential, and of what name
    None,
    Accounts,   \* the accounts a person may sign in to
    First,      \* the one signed in to when everything starts
    MaxTokens   \* bound: the tokens there are

ASSUME NamesAssumption ==
    Login \notin Names /\ Names # {} /\ None \notin Procs \X (Names \cup {Login})
ASSUME ProvidersAssumption == DOMAIN ProviderOf = Names
ASSUME HomeAssumption == Home \in [Waiters -> Procs \X Names]
ASSUME FirstAssumption == First \in Accounts

(* The names there are credentials of; each starts with a token of its own. *)
Renewed == {Home[w][2] : w \in Waiters}

Tokens == 1 .. MaxTokens
NoToken == 0
ASSUME TokensAssumption ==
    IsFiniteSet(Renewed) /\ MaxTokens \in Nat /\ Cardinality(Renewed) <= MaxTokens

(* The names of one provider, of which it is to hold one account.  A name this
   build was told no provider of has none beside it. *)
Siblings == [n \in Names |-> {m \in Names : ProviderOf[m] = ProviderOf[n]}]

(* The rotations there may be, and they and the sign-ins. *)
Keys == Procs \X Renewed
Work == Procs \X (Renewed \cup {Login})
Documents == [Names -> Tokens \cup {NoToken}]
Nothing == [n \in Names |-> NoToken]

VARIABLES
    doc,        \* the store: what it holds under each name
    lock,       \* `auth.lock`: whose work holds it
    place,      \* the one place of each process's owner: whose work has it
    pc,         \* where each rotation and each sign-in is
    read,       \* the document each has read under the lock
    fresh,      \* what the service answered a rotation with
    last,       \* what the last rotation of each account came to, if that is written
    own,        \* the copy of its tokens each credential keeps
    waiting,    \* who awaits the rotation of its account
    over,       \* the processes that have aborted what was running, or died
    issued,     \* how many tokens there are
    account,    \* whose each token is
    due,        \* the tokens that are to be renewed
    spent,      \* the tokens the service has taken
    out         \* those presented to it, unless that came to nothing

vars == <<doc, lock, place, pc, read, fresh, last, own, waiting, over, issued, account, due,
          spent, out>>

service == <<issued, account, spent>>

TypeOK ==
    /\ doc \in Documents
    /\ lock \in Work \cup {None}
    /\ place \in [Procs -> Names \cup {Login, None}]
    /\ pc \in [Work -> {"idle", "waiting", "locking", "held", "asked", "served", "writing",
                        "orphan"}]
    /\ read \in [Work -> Documents]
    /\ fresh \in [Keys -> Tokens \cup {NoToken}]
    /\ last \in [Keys -> Tokens \cup {NoToken}]
    /\ own \in [Waiters -> Tokens]
    /\ waiting \in SUBSET Waiters
    /\ over \in SUBSET Procs
    /\ issued \in 0 .. MaxTokens
    /\ account \in [Tokens -> Accounts]
    /\ due \in SUBSET Tokens /\ spent \in SUBSET Tokens
    /\ out \in SUBSET Tokens

Init ==
    /\ doc \in Documents
    /\ {doc[n] : n \in Renewed} = 1 .. Cardinality(Renewed)
    /\ \A n \in Names \ Renewed : doc[n] = NoToken
    /\ lock = None
    /\ place = [p \in Procs |-> None]
    /\ pc = [k \in Work |-> "idle"]
    /\ read = [k \in Work |-> Nothing]
    /\ fresh = [k \in Keys |-> NoToken]
    /\ last = [k \in Keys |-> NoToken]
    /\ own = [w \in Waiters |-> doc[Home[w][2]]]
    /\ waiting = {}
    /\ over = {}
    /\ issued = Cardinality(Renewed)
    /\ account = [t \in Tokens |-> First]
    /\ due = {}
    /\ spent = {}
    /\ out = {}

-----------------------------------------------------------------------------
Goes(k, to) == pc' = [pc EXCEPT ![k] = to]

(* What the rotation `k` renews: the token it read under the lock. *)
Current(k) == read[k][k[2]]

Waits(k) == {w \in waiting : Home[w] = k}

(* Whatever was kept is let go of: the lock, if it is held, and the place. *)
LetsGo(k) ==
    /\ lock' = IF lock = k THEN None ELSE lock
    /\ place' = [place EXCEPT ![k[1]] = IF @ = k[2] THEN None ELSE @]
    /\ read' = [read EXCEPT ![k] = Nothing]

(* The rotation ends with `came`, or with nothing, and every waiter is handed
   that: `Running` is lowered and the watch is told. *)
Ends(k, came) ==
    /\ Goes(k, "idle")
    /\ LetsGo(k)
    /\ fresh' = [fresh EXCEPT ![k] = NoToken]
    /\ last' = [last EXCEPT ![k] = came]
    /\ waiting' = waiting \ Waits(k)
    /\ own' = [w \in Waiters |->
                 IF w \in Waits(k) /\ came # NoToken THEN came ELSE own[w]]

(* The presentation of what the rotation renews came to nothing. *)
CameToNothing(k) == out' = out \ {Current(k)}

Fails(k) == Ends(k, NoToken)

-----------------------------------------------------------------------------
(* The credential, authorizing a request. *)

(* Its copy is due, and what the last rotation came to is not. *)
TakeLatest(w) ==
    LET latest == last[Home[w]] IN
    /\ w \notin waiting /\ Home[w][1] \notin over
    /\ own[w] \in due
    /\ latest # NoToken /\ latest \notin due
    /\ own' = [own EXCEPT ![w] = latest]
    /\ UNCHANGED <<doc, lock, place, pc, read, fresh, last, waiting, over, service, due, out>>

(* It joins whatever rotation its account had last, ended or not. *)
RenewEnded(w) ==
    LET k == Home[w] IN
    /\ w \notin waiting /\ k[1] \notin over
    /\ own[w] \in due
    /\ last[k] = NoToken \/ last[k] \in due
    /\ waiting' = waiting \cup {w}
    /\ IF pc[k] = "idle" /\ last[k] = NoToken THEN Goes(k, "waiting") ELSE UNCHANGED pc
    /\ UNCHANGED <<doc, lock, place, read, fresh, last, own, over, service, due, out>>

(* Its copy is due and there is no later one: it joins the rotation running
   for its account, or starts one. *)
Renew(w) ==
    LET k == Home[w] IN
    /\ w \notin waiting /\ k[1] \notin over
    /\ own[w] \in due
    /\ last[k] = NoToken \/ last[k] \in due
    /\ waiting' = waiting \cup {w}
    /\ IF pc[k] = "idle"
         THEN Goes(k, "waiting") /\ last' = [last EXCEPT ![k] = NoToken]
         ELSE UNCHANGED <<pc, last>>
    /\ UNCHANGED <<doc, lock, place, read, fresh, own, over, service, due, out>>

(* The future is dropped: only the wait is. *)
GiveUp(w) ==
    /\ w \in waiting
    /\ waiting' = waiting \ {w}
    /\ UNCHANGED <<doc, lock, place, pc, read, fresh, last, own, over, service, due, out>>

-----------------------------------------------------------------------------
(* The rotation. *)

TakePlace(k) ==
    /\ pc[k] = "waiting"
    /\ place[k[1]] = None
    /\ place' = [place EXCEPT ![k[1]] = k[2]]
    /\ Goes(k, "locking")
    /\ UNCHANGED <<doc, lock, read, fresh, last, own, waiting, over, service, due, out>>

(* The lock is let go of again once the store is read. *)
TakeRotationBriefly(k) ==
    /\ pc[k] = "locking" /\ k[2] # Login
    /\ lock = None
    /\ \/ /\ doc[k[2]] \in Tokens \ due
          /\ Ends(k, doc[k[2]])
       \/ /\ doc[k[2]] \in due
          /\ read' = [read EXCEPT ![k] = doc]
          /\ Goes(k, "held")
          /\ UNCHANGED <<lock, place, fresh, last, own, waiting>>
    /\ UNCHANGED <<doc, over, service, due, out>>

(* The lock is free and is taken, and the store is read inside it.  There may
   be no account any more; its token may have been renewed by another process,
   and is then used, the lock let go; or it is still due. *)
TakeRotation(k) ==
    /\ pc[k] = "locking" /\ k[2] # Login
    /\ lock = None
    /\ \/ /\ doc[k[2]] = NoToken
          /\ Fails(k)
       \/ /\ doc[k[2]] \in Tokens \ due
          /\ Ends(k, doc[k[2]])
       \/ /\ doc[k[2]] \in due
          /\ lock' = k
          /\ read' = [read EXCEPT ![k] = doc]
          /\ Goes(k, "held")
          /\ UNCHANGED <<place, fresh, last, own, waiting>>
    /\ UNCHANGED <<doc, over, service, due, out>>

(* Another holds it for longer than is waited. *)
Busy(k) ==
    /\ pc[k] = "locking"
    /\ lock # None
    /\ IF k[2] = Login
         THEN Goes(k, "idle") /\ LetsGo(k) /\ UNCHANGED <<fresh, last, own, waiting>>
         ELSE Fails(k)
    /\ UNCHANGED <<doc, over, service, due, out>>

(* The token is sent to be renewed. *)
Present(k) ==
    /\ pc[k] = "held"
    /\ out' = out \cup {Current(k)}
    /\ Goes(k, "asked")
    /\ UNCHANGED <<doc, lock, place, read, fresh, last, own, waiting, over, service, due>>

(* The service renews a token it has not taken yet, for whose it is. *)
Serve(k) ==
    /\ pc[k] = "asked"
    /\ Current(k) \notin spent
    /\ issued < MaxTokens
    /\ issued' = issued + 1
    /\ account' = [account EXCEPT ![issued + 1] = account[Current(k)]]
    /\ spent' = spent \cup {Current(k)}
    /\ fresh' = [fresh EXCEPT ![k] = issued + 1]
    /\ Goes(k, "served")
    /\ UNCHANGED <<doc, lock, place, read, last, own, waiting, over, due, out>>

(* It refuses the token, its answer is not in time, or the request is never
   sent. *)
NotAnswered(k) ==
    /\ pc[k] \in {"held", "asked", "served"}
    /\ Fails(k)
    /\ IF pc[k] = "held" THEN UNCHANGED out ELSE CameToNothing(k)
    /\ UNCHANGED <<doc, over, service, due>>

(* The answer arrives, and must be of the account the credential is of. *)
Answered(k) ==
    /\ pc[k] = "served"
    /\ IF account[fresh[k]] = First
         THEN /\ Goes(k, "writing")
              /\ UNCHANGED <<lock, place, read, fresh, last, own, waiting, out>>
         ELSE Fails(k) /\ CameToNothing(k)
    /\ UNCHANGED <<doc, over, service, due>>

(* The whole document is written as it was read, with the new token in its
   place; then the lock is let go of and everybody is told. *)
Persist(k) ==
    /\ pc[k] = "writing"
    /\ doc' = [read[k] EXCEPT ![k[2]] = fresh[k]]
    /\ Ends(k, fresh[k])
    /\ UNCHANGED <<over, service, due, out>>

(* It cannot be written; or it is, and its directory cannot be synced. *)
PersistFails(k) ==
    /\ pc[k] = "writing"
    /\ \/ UNCHANGED doc
       \/ doc' = [read[k] EXCEPT ![k[2]] = fresh[k]]
    /\ Fails(k)
    /\ CameToNothing(k)
    /\ UNCHANGED <<over, service, due>>

(* The write of a rotation that was aborted, which nothing stops. *)
PersistAlone(k) ==
    /\ pc[k] = "orphan"
    /\ doc' = [read[k] EXCEPT ![k[2]] = fresh[k]]
    /\ Goes(k, "idle")
    /\ LetsGo(k)
    /\ fresh' = [fresh EXCEPT ![k] = NoToken]
    /\ UNCHANGED <<last, own, waiting, over, service, due, out>>

-----------------------------------------------------------------------------
(* A sign-in, or a sign-out, of a process: one change of the store, for which
   it takes the same place and the same lock. *)
BeginLogin(p) ==
    /\ p \notin over
    /\ pc[<<p, Login>>] = "idle"
    /\ place[p] = None
    /\ place' = [place EXCEPT ![p] = Login]
    /\ Goes(<<p, Login>>, "locking")
    /\ UNCHANGED <<doc, lock, read, fresh, last, own, waiting, over, service, due, out>>

(* The store is read and written without the lock. *)
LockLoginNot(p) ==
    LET k == <<p, Login>> IN
    /\ pc[k] = "locking"
    /\ read' = [read EXCEPT ![k] = doc]
    /\ Goes(k, "writing")
    /\ UNCHANGED <<doc, lock, place, fresh, last, own, waiting, over, service, due, out>>

LockLogin(p) ==
    LET k == <<p, Login>> IN
    /\ pc[k] = "locking"
    /\ lock = None
    /\ lock' = k
    /\ read' = [read EXCEPT ![k] = doc]
    /\ Goes(k, "writing")
    /\ UNCHANGED <<doc, place, fresh, last, own, waiting, over, service, due, out>>

(* The new sign-in is written, of whichever account it is, and every other
   account of the provider goes in the same write. *)
SignIn(p, n, a) ==
    LET k == <<p, Login>> IN
    /\ pc[k] = "writing"
    /\ issued < MaxTokens
    /\ issued' = issued + 1
    /\ account' = [account EXCEPT ![issued + 1] = a]
    /\ doc' = [m \in Names |-> IF m = n THEN issued + 1
                               ELSE IF m \in Siblings[n] THEN NoToken ELSE read[k][m]]
    /\ Goes(k, "idle")
    /\ LetsGo(k)
    /\ UNCHANGED <<fresh, last, own, waiting, over, due, spent, out>>

(* Every account of the provider is forgotten, or a key is kept in their place;
   or nothing is written. *)
SignOut(p, n) ==
    LET k == <<p, Login>> IN
    /\ pc[k] = "writing"
    /\ \/ doc' = [m \in Names |-> IF m \in Siblings[n] THEN NoToken ELSE read[k][m]]
       \/ UNCHANGED doc
    /\ Goes(k, "idle")
    /\ LetsGo(k)
    /\ UNCHANGED <<fresh, last, own, waiting, over, service, due, out>>

-----------------------------------------------------------------------------
(* The end of a process. *)

Of(p) == {k \in Work : k[1] = p}

(* What was presented by the rotations `ended`, which are no more, came to
   nothing. *)
Dropped(ended) ==
    out' = out \ {Current(k) : k \in {e \in ended : pc[e] \notin {"idle", "waiting", "locking",
                                                               "held"}}}

(* The work `ended` is no more, and holds nothing any longer. *)
Drops(ended) ==
    /\ lock' = IF lock \in ended THEN None ELSE lock
    /\ read' = [k \in Work |-> IF k \in ended THEN Nothing ELSE read[k]]
    /\ fresh' = [k \in Keys |-> IF k \in ended THEN NoToken ELSE fresh[k]]
    /\ Dropped(ended \cap Keys)

(* Nobody of the process waits any more, and nobody will. *)
Closes(p) ==
    /\ over' = over \cup {p}
    /\ waiting' = {w \in waiting : Home[w][1] # p}

(* The run is over: the rotations still running after the bound are aborted.
   A request is dropped, and the lock with it; a write goes on to its end. *)
Abort(p) ==
    LET writing == {k \in Keys : k[1] = p /\ pc[k] = "writing"}
        ended == (Of(p) \cap Keys) \ writing
    IN
    /\ p \notin over
    /\ Closes(p)
    /\ Drops(ended)
    /\ pc' = [k \in Work |-> IF k \in ended THEN "idle"
                             ELSE IF k \in writing THEN "orphan" ELSE pc[k]]
    /\ place' = [place EXCEPT ![p] = IF @ = Login THEN Login ELSE None]
    /\ UNCHANGED <<doc, last, own, service, due>>

(* The process dies, wherever it is, and the lock is free with it. *)
Die(p) ==
    /\ p \notin over \/ \E k \in Of(p) : pc[k] # "idle"
    /\ Closes(p)
    /\ Drops(Of(p))
    /\ pc' = [k \in Work |-> IF k \in Of(p) THEN "idle" ELSE pc[k]]
    /\ place' = [place EXCEPT ![p] = None]
    /\ UNCHANGED <<doc, last, own, service, due>>

(* Time passes, and a token is to be renewed. *)
Lapse(t) ==
    /\ t <= issued /\ t \notin due
    /\ due' = due \cup {t}
    /\ UNCHANGED <<doc, lock, place, pc, read, fresh, last, own, waiting, over, service, out>>

Rotates(k) ==
    \/ TakePlace(k) \/ TakeRotation(k) \/ Busy(k)
    \/ Present(k) \/ Serve(k) \/ NotAnswered(k) \/ Answered(k)
    \/ Persist(k) \/ PersistFails(k) \/ PersistAlone(k)

LogsIn(p) ==
    \/ LockLogin(p) \/ Busy(<<p, Login>>)
    \/ \E n \in Names : (\E a \in Accounts : SignIn(p, n, a)) \/ SignOut(p, n)

Next ==
    \/ \E w \in Waiters : TakeLatest(w) \/ Renew(w) \/ GiveUp(w)
    \/ \E k \in Keys : Rotates(k)
    \/ \E p \in Procs : BeginLogin(p) \/ LogsIn(p) \/ Abort(p) \/ Die(p)
    \/ \E t \in Tokens : Lapse(t)

Spec == Init /\ [][Next]_vars
-----------------------------------------------------------------------------
(* What renewing promises. *)

(* One token is presented by one request at a time, and never again once the
   store has what replaced it: however many credentials, in however many
   processes, find it due at once, it is presented once more only when an
   earlier presentation came to nothing (its answer was lost, refused, of
   another account, or could not be written, or its process ended). *)
PresentedOnce ==
    [][\A k \in Keys : pc[k] = "held" /\ pc'[k] = "asked" => Current(k) \notin out]_vars

(* Whoever writes the store writes the whole of it as it was read, and changes
   what it holds under the names of one provider only; a renewal, under the one
   name it renews, and only while that is what it presented.  So no sign-in,
   sign-out or rotation, of whatever process, is undone by one that read the
   store before it; and no rotation is written back beside the account that has
   taken its place, for no write gives a provider a second one. *)
ChangesItsOwn ==
    [][\A n, m \in Names :
         /\ doc'[n] # doc[n] =>
              /\ m \notin Siblings[n] => doc'[m] = doc[m]
              /\ \A k \in Keys : lock = k =>
                   n = k[2] /\ doc[n] = Current(k) /\ (m # n => doc'[m] = doc[m])
         /\ m \in Siblings[n] \ {n} /\ NoToken \notin {doc'[n], doc'[m]} =>
              NoToken \notin {doc[n], doc[m]}]_doc

(* Whoever waits does so for a rotation that is running and will tell it:
   whatever ended, was aborted or died in between, nobody is left waiting for
   one that is no more, or joins one that has told what it came to. *)
NobodyIsForgotten ==
    \A w \in waiting : pc[Home[w]] \notin {"idle", "orphan"} /\ last[Home[w]] = NoToken
=============================================================================
