-------------------------- MODULE Usernames_proofs --------------------------
(***************************************************************************)
(* A name belongs to one user, who is found by it: proofs about Usernames, *)
(* for any number of users and names.                                      *)
(***************************************************************************)
EXTENDS Usernames, TLAPS

USE UsernamesAssumption

LEMMA NotIdle == \A r \in Request : r # Idle
<1> SUFFICES ASSUME NEW r \in Request, r = Idle PROVE FALSE
  OBVIOUS
<1>1. r.step \in Steps /\ r.step = "idle"
  BY DEF Request, Idle
<1> QED
  BY <1>1 DEF Steps
-----------------------------------------------------------------------------
(***************************************************************************)
(* Control.                                                                *)
(***************************************************************************)
Typed ==
  /\ user \in [Users -> UserDoc]
  /\ slug \in [Names -> Users \cup {Nobody}]
  /\ req \in [Handlers -> {Idle} \cup Request]
  /\ loose \subseteq Names

OthersStay(h) ==
  /\ req' \in [Handlers -> {Idle} \cup Request]
  /\ \A g \in Handlers \ {h} : req'[g] = req[g]

\* The request of h goes on to a step, with a name it read or was given.
Moves(h, step, old) ==
  /\ req'[h] \in Request /\ req'[h] # Idle /\ OthersStay(h)
  /\ req'[h].op = req[h].op /\ req'[h].uid = req[h].uid /\ req'[h].new = req[h].new
  /\ req'[h].step = step /\ req'[h].old = old

Ends(h) == req'[h] = Idle /\ OthersStay(h)

LEMMA Moving ==
  ASSUME Typed, NEW h \in Handlers, req[h] # Idle, NEW step \in Steps,
         NEW old \in Names \cup {NoName}
  PROVE  /\ req' = [req EXCEPT ![h].old = old, ![h].step = step] => Moves(h, step, old)
         /\ req[h].old = old /\ Goto(h, step) => Moves(h, step, old)
<1>1. req[h] \in Request
  BY DEF Typed
<1> DEFINE r == [req[h] EXCEPT !.old = old, !.step = step]
<1>2. r \in Request
  BY <1>1 DEF Request
<1>3. /\ r.op = req[h].op /\ r.uid = req[h].uid /\ r.new = req[h].new
      /\ r.step = step /\ r.old = old
  BY <1>1 DEF Request
<1>4. req[h].old = old => [req[h] EXCEPT !.step = step] = r
  BY <1>1 DEF Request
<1>5. req' = [req EXCEPT ![h].old = old, ![h].step = step] => req' = [req EXCEPT ![h] = r]
  BY <1>1 DEF Typed, Request
<1>6. req[h].old = old /\ Goto(h, step) => req' = [req EXCEPT ![h] = r]
  BY <1>1, <1>4 DEF Typed, Goto
<1> HIDE DEF r
<1>7. req' = [req EXCEPT ![h] = r] => Moves(h, step, old)
  BY <1>2, <1>3, NotIdle DEF Moves, OthersStay, Typed
<1> QED
  BY <1>5, <1>6, <1>7

LEMMA Ending ==
  ASSUME Typed, NEW h \in Handlers, End(h)
  PROVE  Ends(h)
BY DEF End, Ends, OthersStay, Typed

LEMMA Beginning ==
  ASSUME Typed, NEW h \in Handlers, Begin(h)
  PROVE  /\ req[h] = Idle /\ req'[h] \in Request /\ OthersStay(h)
         /\ req'[h].step = "signIn" /\ req'[h].old = NoName
         /\ req'[h].op = "update_username" => req'[h].new \in Names
<1>1. PICK op \in EnabledOps, u \in Users, n \in Names \cup {NoName} :
        /\ (n # NoName) <=> (op = "update_username")
        /\ req' = [req EXCEPT ![h] = [op |-> op, uid |-> u, step |-> "signIn",
                                      new |-> n, old |-> NoName]]
  BY DEF Begin
<1> DEFINE r == [op |-> op, uid |-> u, step |-> "signIn", new |-> n, old |-> NoName]
<1>2. r \in Request
  BY <1>1 DEF Request, Steps
<1>3. req'[h] = r /\ OthersStay(h)
  BY <1>1, <1>2 DEF OthersStay, Typed
<1> QED
  BY <1>1, <1>2, <1>3 DEF Begin

\* How each step goes on, or ends.
LEMMA ProceedSteps ==
  ASSUME Typed, NEW h \in Handlers, Proceed(h)
  PROVE  LET r == req[h]
             name == user[r.uid].name
         IN /\ r \in Request /\ r # Idle /\ name \in Names \cup {NoName}
            /\ Authenticated(h) =>
                 Ends(h) \/ (Moves(h, "readUser", r.old) /\ r.op # "sign_in")
            /\ SignIn(h) =>
                 \/ Ends(h)
                 \/ Moves(h, "readUser", r.old) /\ r.op # "sign_in" /\ name # NoName
                 \/ Moves(h, "pick", r.old) /\ name = NoName
            /\ Pick(h) =>
                 Ends(h) \/ \E n \in Names : slug[n] = Nobody /\ Moves(h, "reserveFirst", n)
            /\ ReserveFirst(h) => Moves(h, "nameUser", r.old)
            /\ NameUser(h) => Ends(h) \/ (Moves(h, "readUser", r.old) /\ r.op # "sign_in")
            /\ ReadUser(h) =>
                 \/ Ends(h)
                 \/ Moves(h, "readName", name) /\ r.op = "update_username"
                 \/ Moves(h, "markDeleted", name) /\ r.op # "update_username"
            /\ ReadName(h) => Ends(h) \/ (Moves(h, "reserve", r.old) /\ Available(r))
            /\ Reserve(h) =>
                 \/ Moves(h, "release", r.old) /\ Releases(r)
                 \/ Moves(h, "rename", r.old) /\ ~Releases(r)
            /\ Release(h) => Moves(h, "rename", r.old)
            /\ MarkDeleted(h) => Moves(h, "releaseDeleted", r.old)
            /\ Rename(h) \/ ReleaseDeleted(h) => Ends(h)
<1> DEFINE r == req[h]
           name == user[r.uid].name
<1> USE DEF Steps
<1>1. r # Idle
  BY DEF Proceed, SignIn, Pick, ReserveFirst, NameUser, ReadUser, ReadName, Reserve,
         Release, Rename, MarkDeleted, ReleaseDeleted, At
<1>2. r \in Request /\ r.old \in Names \cup {NoName} /\ r.uid \in Users
  BY <1>1 DEF Typed, Request
<1>3. name \in Names \cup {NoName}
  BY <1>2 DEF Typed, UserDoc
<1>4. Authenticated(h) => Ends(h) \/ (Moves(h, "readUser", r.old) /\ r.op # "sign_in")
  BY <1>1, <1>2, Moving, Ending DEF Authenticated
<1>5. SignIn(h) =>
        \/ Ends(h)
        \/ Moves(h, "readUser", r.old) /\ r.op # "sign_in" /\ name # NoName
        \/ Moves(h, "pick", r.old) /\ name = NoName
  <2> SUFFICES ASSUME SignIn(h), name = NoName PROVE Moves(h, "pick", r.old)
    BY <1>4 DEF SignIn
  <2>1. Goto(h, "pick")
    BY DEF SignIn, Goto
  <2> QED
    BY <1>1, <1>2, <2>1, Moving
<1>6. Pick(h) =>
        Ends(h) \/ \E n \in Names : slug[n] = Nobody /\ Moves(h, "reserveFirst", n)
  BY <1>1, Moving, Ending DEF Pick
<1>7. ReserveFirst(h) => Moves(h, "nameUser", r.old)
  BY <1>1, <1>2, Moving DEF ReserveFirst
<1>8. NameUser(h) => Ends(h) \/ (Moves(h, "readUser", r.old) /\ r.op # "sign_in")
  BY <1>4 DEF NameUser
<1>9. ReadUser(h) =>
        \/ Ends(h)
        \/ Moves(h, "readName", name) /\ r.op = "update_username"
        \/ Moves(h, "markDeleted", name) /\ r.op # "update_username"
  <2> SUFFICES ASSUME ReadUser(h), ~End(h)
               PROVE  \/ Moves(h, "readName", name) /\ r.op = "update_username"
                      \/ Moves(h, "markDeleted", name) /\ r.op # "update_username"
    BY Ending
  <2> HIDE DEF name
  <2>1. r.op = "update_username" =>
          req' = [req EXCEPT ![h].old = name, ![h].step = "readName"]
    BY DEF ReadUser, name
  <2>2. r.op # "update_username" =>
          req' = [req EXCEPT ![h].old = name, ![h].step = "markDeleted"]
    BY DEF ReadUser, name
  <2> QED
    BY <1>1, <1>3, <2>1, <2>2, Moving
<1>10. ReadName(h) => Ends(h) \/ (Moves(h, "reserve", r.old) /\ Available(r))
  BY <1>1, <1>2, Moving, Ending DEF ReadName
<1>11. Reserve(h) =>
         \/ Moves(h, "release", r.old) /\ Releases(r)
         \/ Moves(h, "rename", r.old) /\ ~Releases(r)
  BY <1>1, <1>2, Moving DEF Reserve
<1>12. /\ Release(h) => Moves(h, "rename", r.old)
       /\ MarkDeleted(h) => Moves(h, "releaseDeleted", r.old)
       /\ Rename(h) \/ ReleaseDeleted(h) => Ends(h)
  BY <1>1, <1>2, Moving, Ending DEF Release, MarkDeleted, Rename, ReleaseDeleted
<1> QED
  BY <1>1, <1>2, <1>3, <1>4, <1>5, <1>6, <1>7, <1>8, <1>9, <1>10, <1>11, <1>12
-----------------------------------------------------------------------------
(***************************************************************************)
(* Types: any number of requests in flight.                                *)
(***************************************************************************)
RenameSteps == {"readName", "reserve", "release", "rename"}

\* A request that goes by a name has one, and so has a user who is signed in.
Known(r) ==
  /\ r.step = "readUser" => user[r.uid].name \in Names
  /\ r.step \in NamedSteps \cup {"readName"} => r.old \in Names
  /\ r.op = "update_username" => r.new \in Names
  /\ r.step \in RenameSteps => r.op = "update_username"

TypeInv == Typed /\ \A h \in Handlers : req[h] # Idle => Known(req[h])

LEMMA InvTypes == TypeInv => TypeOK
BY DEF TypeInv, Typed, TypeOK, Known

\* Who has a name goes on having one.
LEMMA NamesStay ==
  ASSUME TypeInv, NEW h \in Handlers, Proceed(h), NEW u \in Users
  PROVE  /\ user' \in [Users -> UserDoc]
         /\ user[u].name \in Names => user'[u].name \in Names
<1> DEFINE r == req[h]
<1>1. r \in Request /\ r # Idle /\ user \in [Users -> UserDoc] /\ Known(r)
  BY ProceedSteps DEF TypeInv, Typed
<1>2. CASE NameUser(h)
  <2>1. r.old \in Names /\ r.uid \in Users
    BY <1>1, <1>2 DEF NameUser, At, Known, NamedSteps, Request
  <2>2. user' = [user EXCEPT ![r.uid] = [user[r.uid] EXCEPT !.name = r.old,
                                                            !.cooling = FALSE]]
    BY <1>1, <1>2, <2>1 DEF NameUser, UserDoc
  <2> HIDE DEF r
  <2> QED
    BY <1>1, <2>1, <2>2 DEF UserDoc
<1>3. CASE Rename(h)
  <2>1. r.new \in Names /\ r.uid \in Users
    BY <1>1, <1>3 DEF Rename, At, Known, RenameSteps, Request
  <2>2. user' = [user EXCEPT ![r.uid] = [user[r.uid] EXCEPT !.name = r.new,
                                                            !.cooling = TRUE]]
    BY <1>1, <1>3, <2>1 DEF Rename, UserDoc
  <2> HIDE DEF r
  <2> QED
    BY <1>1, <2>1, <2>2 DEF UserDoc
<1>4. CASE MarkDeleted(h)
  BY <1>1, <1>4 DEF MarkDeleted, UserDoc
<1>5. CASE ~NameUser(h) /\ ~Rename(h) /\ ~MarkDeleted(h)
  BY <1>1, <1>5 DEF Proceed, SignIn, Pick, ReserveFirst, ReadUser, ReadName, Reserve,
                    Release, ReleaseDeleted
<1> QED
  BY <1>2, <1>3, <1>4, <1>5

\* The other requests stay known.
LEMMA OthersKnown ==
  ASSUME TypeInv, NEW h \in Handlers, OthersStay(h),
         \A u \in Users : user[u].name \in Names => user'[u].name \in Names,
         req'[h] # Idle => Known(req[h])'
  PROVE  \A g \in Handlers : req'[g] # Idle => Known(req[g])'
<1> SUFFICES ASSUME NEW g \in Handlers, g # h, req[g] # Idle PROVE Known(req[g])'
  BY DEF OthersStay
<1>1. req'[g] = req[g] /\ req[g] \in Request /\ Known(req[g])
  BY DEF OthersStay, TypeInv, Typed
<1> QED
  BY <1>1 DEF Known, Request

LEMMA ProceedTypes ==
  ASSUME TypeInv, NEW h \in Handlers, Proceed(h)
  PROVE  TypeInv'
<1> DEFINE r == req[h]
<1>1. r \in Request /\ r # Idle /\ Typed /\ Known(r) /\ r.uid \in Users
  BY ProceedSteps DEF TypeInv, Typed, Request
<1>2. user' \in [Users -> UserDoc]
      /\ \A u \in Users : user[u].name \in Names => user'[u].name \in Names
  <2>1. \A u \in Users : /\ user' \in [Users -> UserDoc]
                         /\ user[u].name \in Names => user'[u].name \in Names
    BY NamesStay
  <2> QED
    BY <1>1, <2>1
<1>3. OthersStay(h)
  BY <1>1, ProceedSteps DEF Proceed, Ends, Moves
<1>4. slug' \in [Names -> Users \cup {Nobody}]
  BY <1>1 DEF Proceed, SignIn, Pick, ReserveFirst, NameUser, ReadUser, ReadName, Reserve,
     Release, Rename, MarkDeleted, ReleaseDeleted, At, Known, NamedSteps, RenameSteps,
     Typed
<1>5. loose' \subseteq Names
  BY <1>1 DEF Proceed, SignIn, Pick, ReserveFirst, NameUser, ReadUser, ReadName, Reserve,
     Release, Rename, MarkDeleted, ReleaseDeleted, At, Known, NamedSteps, Typed
<1>6. req'[h] # Idle => Known(req[h])'
  <2> USE DEF NamedSteps, RenameSteps
  <2> SUFFICES ASSUME ~Ends(h) PROVE Known(req[h])'
    BY <1>3 DEF Ends
  <2>1. CASE SignIn(h)
    BY <1>1, <1>2, <2>1, ProceedSteps DEF Known, Moves, SignIn
  <2>2. CASE NameUser(h)
    <3>1. user'[r.uid].name = r.old /\ r.old \in Names
      BY <1>1, <2>2 DEF NameUser, At, Known, Typed, UserDoc
    <3> QED
      BY <1>1, <2>2, <3>1, ProceedSteps DEF Known, Moves
  <2>3. CASE ReadUser(h)
    <3>1. user[r.uid].name \in Names
      BY <1>1, <2>3 DEF ReadUser, At, Known
    <3> QED
      BY <1>1, <2>3, <3>1, ProceedSteps DEF Known, Moves
  <2>4. CASE Pick(h)
    BY <1>1, <2>4, ProceedSteps DEF Known, Moves
  <2>5. CASE ReserveFirst(h) \/ MarkDeleted(h)
    BY <1>1, <2>5, ProceedSteps DEF Known, Moves, ReserveFirst, MarkDeleted, At
  <2>6. CASE ReadName(h) \/ Reserve(h) \/ Release(h)
    BY <1>1, <2>6, ProceedSteps DEF Known, Moves, ReadName, Reserve, Release, At
  <2>7. CASE Rename(h) \/ ReleaseDeleted(h)
    BY <1>1, <2>7, ProceedSteps
  <2> QED
    BY <2>1, <2>2, <2>3, <2>4, <2>5, <2>6, <2>7 DEF Proceed
<1> QED
  BY <1>2, <1>3, <1>4, <1>5, <1>6, OthersKnown DEF TypeInv, Typed, OthersStay

LEMMA BeginTypes ==
  ASSUME TypeInv, NEW h \in Handlers, Begin(h)
  PROVE  TypeInv'
<1>1. UNCHANGED <<user, slug, loose>>
  BY DEF Begin
<1>2. Known(req[h])' /\ OthersStay(h)
  BY Beginning DEF TypeInv, Known, NamedSteps, RenameSteps
<1>3. \A g \in Handlers : req'[g] # Idle => Known(req[g])'
  BY <1>1, <1>2, OthersKnown
<1> QED
  BY <1>1, <1>2, <1>3 DEF TypeInv, Typed, OthersStay

LEMMA FailTypes ==
  ASSUME TypeInv, NEW h \in Handlers, Fail(h)
  PROVE  TypeInv'
<1>1. UNCHANGED <<user, slug>> /\ Ends(h)
  BY Ending DEF Fail, TypeInv
<1>2. req[h] \in Request
  BY DEF Fail, TypeInv, Typed
<1>3. loose' \subseteq Names
  BY <1>2 DEF Fail, TypeInv, Typed, Request
<1>4. \A g \in Handlers : req'[g] # Idle => Known(req[g])'
  BY <1>1, OthersKnown DEF Ends
<1> QED
  BY <1>1, <1>3, <1>4 DEF TypeInv, Typed, Ends, OthersStay

LEMMA CoolDownTypes ==
  ASSUME TypeInv, NEW u \in Users, CoolDown(u)
  PROVE  TypeInv' /\ \A v \in Users : user'[v].name = user[v].name
                                      /\ user'[v].deleted = user[v].deleted
<1>1. /\ user' \in [Users -> UserDoc]
      /\ \A v \in Users : user'[v].name = user[v].name /\ user'[v].deleted = user[v].deleted
  BY DEF CoolDown, TypeInv, Typed, UserDoc
<1>2. UNCHANGED <<slug, req, loose>>
  BY DEF CoolDown
<1>3. \A h \in Handlers : req[h] # Idle => Known(req[h])'
  BY <1>1, <1>2 DEF TypeInv, Typed, Known, Request
<1> QED
  BY <1>1, <1>2, <1>3 DEF TypeInv, Typed

LEMMA InitTypes == Init => TypeInv
BY DEF Init, TypeInv, Typed, UserDoc

LEMMA NextTypes == TypeInv /\ [Next]_vars => TypeInv'
<1> SUFFICES ASSUME TypeInv, [Next]_vars PROVE TypeInv'
  OBVIOUS
<1>1. CASE UNCHANGED vars
  BY <1>1 DEF vars, TypeInv, Typed, Known
<1>2. CASE Next
  BY <1>2, BeginTypes, ProceedTypes, FailTypes, CoolDownTypes DEF Next
<1> QED
  BY <1>1, <1>2

\* Every variable keeps its type, and who is signed in has a name.
THEOREM TypeCorrect == Spec => []TypeOK
BY InitTypes, NextTypes, InvTypes, PTL DEF Spec
-----------------------------------------------------------------------------
(***************************************************************************)
(* One request at a time, each of which may fail at any step.              *)
(***************************************************************************)
OneAtATime == \A g, h \in Handlers : g = h

\* What a request has found, or written, when it comes to a step.
Stage(r) ==
  /\ r.step \in {"pick", "reserveFirst", "nameUser"} => user[r.uid].name = NoName
  /\ r.step = "reserveFirst" => slug[r.old] = Nobody
  /\ r.step = "nameUser" => slug[r.old] = r.uid
  /\ r.step \in RenameSteps \cup {"markDeleted"} => r.old = user[r.uid].name
  /\ r.step = "reserve" => slug[r.new] \in {Nobody, r.uid}
  /\ r.step \in {"release", "rename"} => slug[r.new] = r.uid
  /\ r.step = "release" => r.old # r.new
  /\ r.step = "rename" /\ r.old # r.new => slug[r.old] = Nobody
  /\ r.step = "releaseDeleted" => r.old \in loose

Staged == \A h \in Handlers : req[h] # Idle => Stage(req[h])

\* h is about to give its user the name n, or to take the name n away.
Giving(h, u, n) ==
  /\ req[h] # Idle /\ req[h].uid = u
  /\ \/ req[h].step = "nameUser" /\ req[h].old = n
     \/ req[h].step \in {"release", "rename"} /\ req[h].new = n

Taking(h, u, n) ==
  req[h] # Idle /\ req[h].uid = u /\ req[h].step = "rename" /\ req[h].old = n

NamesHeld ==
  \A u \in Users, n \in Names \ loose :
    user[u].name = n => slug[n] = u \/ \E h \in Handlers : Taking(h, u, n)

HoldersNamed ==
  \A u \in Users, n \in Names \ loose :
    slug[n] = u => user[u].name = n \/ \E h \in Handlers : Giving(h, u, n)

SerialInv == Staged /\ NamesHeld /\ HoldersNamed

LEMMA InitSerial == Init => SerialInv
<1> SUFFICES ASSUME Init PROVE SerialInv
  OBVIOUS
<1>1. /\ \A u \in Users : user[u].name = NoName
      /\ \A n \in Names : slug[n] = Nobody
      /\ \A h \in Handlers : req[h] = Idle
  BY DEF Init
<1> QED
  BY <1>1 DEF SerialInv, Staged, NamesHeld, HoldersNamed

LEMMA StagedStep ==
  ASSUME OneAtATime, NEW h \in Handlers, Ends(h) \/ Stage(req[h])'
  PROVE  Staged'
BY DEF OneAtATime, Staged, Ends

\* Steps that write no name.
LEMMA QuietSerial ==
  ASSUME OneAtATime, SerialInv, NEW h \in Handlers, slug' = slug, loose \subseteq loose',
         \A u \in Users : user'[u].name = user[u].name,
         \A u \in Users, n \in Names \ loose' : /\ Taking(h, u, n) => Taking(h, u, n)'
                                                /\ Giving(h, u, n) => Giving(h, u, n)'
  PROVE  NamesHeld' /\ HoldersNamed'
BY DEF SerialInv, NamesHeld, HoldersNamed, OneAtATime

LEMMA ReadingSerial ==
  ASSUME TypeInv, OneAtATime, SerialInv, NEW h \in Handlers,
         \/ SignIn(h) \/ Pick(h) \/ ReadUser(h) \/ ReadName(h) \/ MarkDeleted(h)
         \/ Begin(h) \/ Fail(h)
  PROVE  SerialInv'
<1>1. slug' = slug /\ \A u \in Users : user'[u].name = user[u].name
  BY DEF SignIn, Pick, ReadUser, ReadName, MarkDeleted, Begin, Fail, TypeInv, Typed, UserDoc
<1>2. loose \subseteq loose'
  BY DEF SignIn, Pick, ReadUser, ReadName, MarkDeleted, Begin, Fail
<1>3. \A u \in Users, n \in Names \ loose' : ~Taking(h, u, n) /\ ~Giving(h, u, n)
  BY DEF SignIn, Pick, ReadUser, ReadName, MarkDeleted, Begin, Fail, At, Taking, Giving
<1>4. NamesHeld' /\ HoldersNamed'
  BY <1>1, <1>2, <1>3, QuietSerial
<1>5. Ends(h) \/ Stage(req[h])'
  <2>0. Typed /\ (req[h] # Idle => Stage(req[h]) /\ req[h].uid \in Users)
    BY DEF TypeInv, Typed, SerialInv, Staged, Request
  <2>1. CASE Begin(h)
    BY <2>0, <2>1, Beginning DEF Stage, RenameSteps
  <2>2. CASE Fail(h)
    BY <2>0, <2>2, Ending DEF Fail
  <2>3. CASE SignIn(h)
    BY <1>1, <2>0, <2>3, ProceedSteps DEF Proceed, Stage, RenameSteps, Moves
  <2>4. CASE Pick(h)
    BY <1>1, <2>0, <2>4, ProceedSteps DEF Proceed, Stage, RenameSteps, Moves, Pick, At
  <2>5. CASE ReadUser(h)
    BY <1>1, <2>0, <2>5, ProceedSteps DEF Proceed, Stage, RenameSteps, Moves
  <2>6. CASE ReadName(h)
    BY <1>1, <2>0, <2>6, ProceedSteps
       DEF Proceed, Stage, RenameSteps, Moves, ReadName, At, Available
  <2>7. CASE MarkDeleted(h)
    <3>1. req[h].old \in loose'
      BY <2>7 DEF MarkDeleted
    <3> QED
      BY <1>1, <2>0, <2>7, <3>1, ProceedSteps DEF Proceed, Stage, RenameSteps, Moves
  <2> QED
    BY <2>1, <2>2, <2>3, <2>4, <2>5, <2>6, <2>7
<1> QED
  BY <1>4, <1>5, StagedStep DEF SerialInv

LEMMA ReserveFirstSerial ==
  ASSUME TypeInv, OneAtATime, SerialInv, NEW h \in Handlers, ReserveFirst(h)
  PROVE  SerialInv'
<1> PICK r \in Request : r = req[h]
  BY ProceedSteps DEF Proceed, TypeInv
<1>1. /\ Typed /\ Stage(r) /\ r.step = "reserveFirst" /\ r.old \in Names /\ r.uid \in Users
      /\ r # Idle
  BY DEF ReserveFirst, At, TypeInv, Known, NamedSteps, SerialInv, Staged, Request
<1>2. /\ user' = user /\ loose' = loose
      /\ \A n \in Names : slug'[n] = IF n = r.old THEN r.uid ELSE slug[n]
  BY <1>1 DEF ReserveFirst, Typed
<1>3. Moves(h, "nameUser", r.old)
  BY <1>1, ProceedSteps DEF Proceed
<1>4. Stage(req[h])'
  BY <1>1, <1>2, <1>3 DEF Stage, Moves, RenameSteps
<1>5. \A u, n : ~Taking(h, u, n) /\ ~Giving(h, u, n)
  BY <1>1 DEF Taking, Giving
<1>6. Giving(h, r.uid, r.old)'
  BY <1>3 DEF Moves, Giving
<1>7. NamesHeld'
  BY <1>1, <1>2, <1>5 DEF SerialInv, NamesHeld, OneAtATime, Stage
<1>8. HoldersNamed'
  BY <1>1, <1>2, <1>5, <1>6 DEF SerialInv, HoldersNamed, OneAtATime
<1> QED
  BY <1>4, <1>7, <1>8, StagedStep DEF SerialInv

LEMMA NameUserSerial ==
  ASSUME TypeInv, OneAtATime, SerialInv, NEW h \in Handlers, NameUser(h)
  PROVE  SerialInv'
<1> PICK r \in Request : r = req[h]
  BY ProceedSteps DEF Proceed, TypeInv
<1>1. /\ Typed /\ Stage(r) /\ r.step = "nameUser" /\ r.old \in Names /\ r.uid \in Users
      /\ r # Idle
  BY DEF NameUser, At, TypeInv, Known, NamedSteps, SerialInv, Staged, Request
<1>2. /\ slug' = slug /\ loose' = loose
      /\ \A u \in Users : user'[u].name = IF u = r.uid THEN r.old ELSE user[u].name
  BY <1>1 DEF NameUser, Typed, UserDoc
<1>3. Ends(h) \/ Stage(req[h])'
  BY <1>1, ProceedSteps DEF Proceed, Stage, Moves, RenameSteps
<1>4. \A u, n : ~Taking(h, u, n) /\ (Giving(h, u, n) => u = r.uid /\ n = r.old)
  BY <1>1 DEF Taking, Giving
<1>5. NamesHeld'
  BY <1>1, <1>2, <1>4 DEF SerialInv, NamesHeld, OneAtATime, Stage
<1>6. HoldersNamed'
  BY <1>1, <1>2, <1>4 DEF SerialInv, HoldersNamed, OneAtATime, Stage
<1> QED
  BY <1>3, <1>5, <1>6, StagedStep DEF SerialInv

LEMMA ReserveSerial ==
  ASSUME TypeInv, OneAtATime, SerialInv, NEW h \in Handlers, Reserve(h)
  PROVE  SerialInv'
<1> PICK r \in Request : r = req[h]
  BY ProceedSteps DEF Proceed, TypeInv
<1>1. /\ Typed /\ Stage(r) /\ r.step = "reserve" /\ r.new \in Names /\ r.uid \in Users
      /\ r # Idle /\ r.old \in Names
  BY DEF Reserve, At, TypeInv, Known, NamedSteps, RenameSteps, SerialInv, Staged, Request
<1>2. /\ user' = user /\ loose' = loose
      /\ \A n \in Names : slug'[n] = IF n = r.new THEN r.uid ELSE slug[n]
  BY <1>1 DEF Reserve, Typed
<1>3. \/ Moves(h, "release", r.old) /\ r.old # r.new
      \/ Moves(h, "rename", r.old) /\ r.old = r.new
  BY <1>1, ProceedSteps DEF Proceed, Releases
<1>4. Stage(req[h])'
  BY <1>1, <1>2, <1>3 DEF Stage, Moves, RenameSteps
<1>5. \A u, n : ~Taking(h, u, n) /\ ~Giving(h, u, n)
  BY <1>1 DEF Taking, Giving
<1>6. Giving(h, r.uid, r.new)'
  BY <1>3 DEF Moves, Giving
<1>7. NamesHeld'
  BY <1>1, <1>2, <1>5 DEF SerialInv, NamesHeld, OneAtATime, Stage
<1>8. HoldersNamed'
  BY <1>1, <1>2, <1>5, <1>6 DEF SerialInv, HoldersNamed, OneAtATime
<1> QED
  BY <1>4, <1>7, <1>8, StagedStep DEF SerialInv

LEMMA ReleaseSerial ==
  ASSUME TypeInv, OneAtATime, SerialInv, NEW h \in Handlers, Release(h)
  PROVE  SerialInv'
<1> PICK r \in Request : r = req[h]
  BY ProceedSteps DEF Proceed, TypeInv
<1>1. /\ Typed /\ Stage(r) /\ r.step = "release" /\ r.old \in Names /\ r.uid \in Users
      /\ r # Idle /\ r.new \in Names
  BY DEF Release, At, TypeInv, Known, NamedSteps, RenameSteps, SerialInv, Staged, Request
<1>2. /\ user' = user /\ loose' = loose
      /\ \A n \in Names : slug'[n] = IF n = r.old THEN Nobody ELSE slug[n]
  BY <1>1 DEF Release, Typed
<1>3. Moves(h, "rename", r.old)
  BY <1>1, ProceedSteps DEF Proceed
<1>4. Stage(req[h])'
  BY <1>1, <1>2, <1>3 DEF Stage, Moves, RenameSteps
<1>5. \A u, n : /\ ~Taking(h, u, n)
                /\ Giving(h, u, n) => Giving(h, u, n)'
  BY <1>1, <1>3 DEF Taking, Giving, Moves
<1>6. Taking(h, r.uid, r.old)' /\ (r.old \notin loose => slug[r.old] = r.uid)
  BY <1>1, <1>3, <1>5 DEF Moves, Taking, SerialInv, NamesHeld, OneAtATime, Stage, RenameSteps
<1>7. NamesHeld'
  BY <1>1, <1>2, <1>5, <1>6 DEF SerialInv, NamesHeld, OneAtATime
<1>8. HoldersNamed'
  BY <1>1, <1>2, <1>5 DEF SerialInv, HoldersNamed, OneAtATime
<1> QED
  BY <1>4, <1>7, <1>8, StagedStep DEF SerialInv

LEMMA RenameSerial ==
  ASSUME TypeInv, OneAtATime, SerialInv, NEW h \in Handlers, Rename(h)
  PROVE  SerialInv'
<1> PICK r \in Request : r = req[h]
  BY ProceedSteps DEF Proceed, TypeInv
<1>1. /\ Typed /\ Stage(r) /\ r.step = "rename" /\ r.old \in Names /\ r.uid \in Users
      /\ r # Idle /\ r.new \in Names
  BY DEF Rename, At, TypeInv, Known, NamedSteps, RenameSteps, SerialInv, Staged, Request
<1>2. /\ slug' = slug /\ loose' = loose /\ Ends(h)
      /\ \A u \in Users : user'[u].name = IF u = r.uid THEN r.new ELSE user[u].name
  BY <1>1, ProceedSteps DEF Rename, Proceed, Typed, UserDoc
<1>3. \A u, n : /\ Taking(h, u, n) => u = r.uid /\ n = r.old
                /\ Giving(h, u, n) => u = r.uid /\ n = r.new
  BY <1>1 DEF Taking, Giving
<1>4. slug[r.new] = r.uid /\ (r.old # r.new => slug[r.old] = Nobody)
      /\ r.old = user[r.uid].name
  BY <1>1 DEF Stage, RenameSteps
<1>5. NamesHeld'
  BY <1>1, <1>2, <1>3, <1>4 DEF SerialInv, NamesHeld, OneAtATime
<1>6. HoldersNamed'
  BY <1>1, <1>2, <1>3, <1>4 DEF SerialInv, HoldersNamed, OneAtATime
<1> QED
  BY <1>2, <1>5, <1>6, StagedStep DEF SerialInv

LEMMA ReleaseDeletedSerial ==
  ASSUME TypeInv, OneAtATime, SerialInv, NEW h \in Handlers, ReleaseDeleted(h)
  PROVE  SerialInv'
<1> PICK r \in Request : r = req[h]
  BY ProceedSteps DEF Proceed, TypeInv
<1>1. /\ Typed /\ Stage(r) /\ r.step = "releaseDeleted" /\ r.old \in Names /\ r # Idle
  BY DEF ReleaseDeleted, At, TypeInv, Known, NamedSteps, SerialInv, Staged
<1>2. /\ user' = user /\ loose' = loose /\ Ends(h) /\ r.old \in loose
      /\ \A n \in Names : slug'[n] = IF n = r.old THEN Nobody ELSE slug[n]
  BY <1>1, ProceedSteps DEF ReleaseDeleted, Proceed, Typed, Stage
<1>3. \A u, n : ~Taking(h, u, n) /\ ~Giving(h, u, n)
  BY <1>1 DEF Taking, Giving
<1>4. NamesHeld' /\ HoldersNamed'
  BY <1>1, <1>2, <1>3 DEF SerialInv, NamesHeld, HoldersNamed, OneAtATime
<1> QED
  BY <1>2, <1>4, StagedStep DEF SerialInv

LEMMA CoolDownSerial ==
  ASSUME TypeInv, SerialInv, NEW u \in Users, CoolDown(u)
  PROVE  SerialInv'
<1>1. UNCHANGED <<slug, req, loose>> /\ \A v \in Users : user'[v].name = user[v].name
  BY CoolDownTypes DEF CoolDown
<1>2. \A h \in Handlers : req[h] # Idle => req[h].uid \in Users
  BY DEF TypeInv, Typed, Request
<1>3. Staged'
  BY <1>1, <1>2 DEF SerialInv, Staged, Stage
<1>4. NamesHeld' /\ HoldersNamed'
  BY <1>1 DEF SerialInv, NamesHeld, HoldersNamed, Taking, Giving
<1> QED
  BY <1>3, <1>4 DEF SerialInv

LEMMA NextSerial ==
  ASSUME TypeInv, OneAtATime, SerialInv, [Next]_vars
  PROVE  SerialInv'
<1>1. CASE UNCHANGED vars
  BY <1>1 DEF vars, SerialInv, Staged, Stage, NamesHeld, HoldersNamed, Taking, Giving
<1>2. CASE Next
  BY <1>2, ReadingSerial, ReserveFirstSerial, NameUserSerial, ReserveSerial, ReleaseSerial,
     RenameSerial, ReleaseDeletedSerial, CoolDownSerial DEF Next, Proceed
<1> QED
  BY <1>1, <1>2

\* One request at a time, failing anywhere: no two users have one name.
THEOREM Unique ==
  ASSUME OneAtATime
  PROVE  Spec => []NamesUnique
<1>1. Init => SerialInv
  BY InitSerial
<1>2. TypeInv /\ SerialInv /\ [Next]_vars => SerialInv'
  BY NextSerial
<1>3. TypeInv /\ SerialInv => NamesUnique
  <2> SUFFICES ASSUME TypeInv, SerialInv, NEW u \in Users, NEW v \in Users,
                      NEW n \in Names \ loose, user[u].name = n, user[v].name = n
               PROVE  u = v
    BY DEF NamesUnique, HasName
  <2>1. \A h \in Handlers, w \in Users : Taking(h, w, n) =>
          slug[n] = Nobody \/ slug[n] = w
    BY DEF SerialInv, Staged, Stage, Taking
  <2>2. \A w \in {u, v} : slug[n] = w \/ \E h \in Handlers : Taking(h, w, n)
    BY DEF SerialInv, NamesHeld
  <2> QED
    BY <2>1, <2>2 DEF OneAtATime, Taking
<1> QED
  BY <1>1, <1>2, <1>3, InitTypes, NextTypes, PTL DEF Spec

\* ... every user is found by the name, ...
THEOREM Resolve ==
  ASSUME OneAtATime
  PROVE  Spec => []NamesResolve
<1>1. Init => SerialInv
  BY InitSerial
<1>2. TypeInv /\ SerialInv /\ [Next]_vars => SerialInv'
  BY NextSerial
<1>3. SerialInv => NamesResolve
  BY DEF SerialInv, NamesHeld, NamesResolve, HasName, Busy, Taking
<1> QED
  BY <1>1, <1>2, <1>3, InitTypes, NextTypes, PTL DEF Spec

\* ... and no name is held for a user who has another one.
THEOREM NoneAstray ==
  ASSUME OneAtATime
  PROVE  Spec => []NoStrayName
<1>1. Init => SerialInv
  BY InitSerial
<1>2. TypeInv /\ SerialInv /\ [Next]_vars => SerialInv'
  BY NextSerial
<1>3. TypeInv /\ SerialInv => NoStrayName
  <2> SUFFICES ASSUME TypeInv, SerialInv, Busy = {}, NEW n \in Names \ loose,
                      slug[n] # Nobody
               PROVE  user[slug[n]].name = n
    BY DEF NoStrayName
  <2> PICK u \in Users : u = slug[n]
    BY DEF TypeInv, Typed
  <2>1. \A h \in Handlers : ~Giving(h, u, n)
    BY DEF Busy, Giving
  <2> QED
    BY <2>1 DEF SerialInv, HoldersNamed
<1> QED
  BY <1>1, <1>2, <1>3, InitTypes, NextTypes, PTL DEF Spec
=============================================================================
