------------------------------ MODULE Usernames ------------------------------
(***************************************************************************)
(* The registry of user names (repos/user_repo.py): each user document     *)
(* holds the user's name, and a document usernames/{name} says whose it    *)
(* is.  The two are read and written one at a time, in no transaction, by  *)
(* the sign-in that precedes every request, by a change of name and by the *)
(* deletion of the account.                                                *)
(*                                                                         *)
(* Names stand for their lower-case form.  Left out: the rest of the       *)
(* profile, and the syntax of names.                                       *)
(***************************************************************************)
EXTENDS FiniteSets

CONSTANTS
  Users, Names, NoName, Nobody,
  Handlers,    \* requests in flight at the same time
  EnabledOps,  \* the requests clients send
  MayFail      \* whether a request may end at any step: an error or a crash

Ops == {"sign_in", "update_username", "delete_account"}

ASSUME UsernamesAssumption ==
  /\ NoName \notin Names /\ Nobody \notin Users
  /\ EnabledOps \subseteq Ops
  /\ MayFail \in BOOLEAN

VARIABLES
  user,  \* the user documents
  slug,  \* usernames/{name}: whose it is, or Nobody if there is none
  req,   \* the request of each handler
  loose  \* history: names that a deletion, or a request that stopped, was about

vars == <<user, slug, req, loose>>
-----------------------------------------------------------------------------
UserDoc == [name : Names \cup {NoName},
            deleted : BOOLEAN,
            cooling : BOOLEAN]    \* changed within USERNAME_COOLDOWN_DAYS

Idle == [step |-> "idle"]

Steps == {"signIn", "pick", "reserveFirst", "nameUser", "readUser", "readName",
          "reserve", "release", "rename", "markDeleted", "releaseDeleted"}

NamedSteps == {"reserveFirst", "nameUser", "reserve", "release", "rename",
               "markDeleted", "releaseDeleted"}

\* A request: whose, the name it wants or was given, and the one it read.
Request == [op : Ops, uid : Users, step : Steps,
            new : Names \cup {NoName}, old : Names \cup {NoName}]

TypeOK ==
  /\ user \in [Users -> UserDoc]
  /\ slug \in [Names -> Users \cup {Nobody}]
  /\ req \in [Handlers -> {Idle} \cup Request]
  /\ loose \subseteq Names
  /\ \A h \in Handlers :
       req[h] # Idle /\ req[h].step \in NamedSteps => req[h].old # NoName

\* A document that does not exist reads like one without a name: signing in
\* is the only request that meets it.
Init ==
  /\ user = [u \in Users |-> [name |-> NoName, deleted |-> FALSE, cooling |-> FALSE]]
  /\ slug = [n \in Names |-> Nobody]
  /\ req = [h \in Handlers |-> Idle]
  /\ loose = {}

Busy == {h \in Handlers : req[h] # Idle}
-----------------------------------------------------------------------------
At(h, step) == req[h] # Idle /\ req[h].step = step
Goto(h, step) == req' = [req EXCEPT ![h].step = step]
End(h) == req' = [req EXCEPT ![h] = Idle]

Begin(h) ==
  /\ req[h] = Idle
  /\ \E op \in EnabledOps, u \in Users, n \in Names \cup {NoName} :
       /\ (n # NoName) <=> (op = "update_username")
       /\ req' = [req EXCEPT ![h] = [op |-> op, uid |-> u, step |-> "signIn",
                                     new |-> n, old |-> NoName]]
  /\ UNCHANGED <<user, slug, loose>>

\* What a request does once its user is signed in.
Authenticated(h) == IF req[h].op = "sign_in" THEN End(h) ELSE Goto(h, "readUser")

\* A user who has a name keeps it, a deleted one too.
SignIn(h) ==
  /\ At(h, "signIn")
  /\ IF user[req[h].uid].name # NoName
     THEN Authenticated(h)
     ELSE req' = [req EXCEPT ![h].step = "pick"]
  /\ UNCHANGED <<user, slug, loose>>

\* A generated name is tried until one is free; after ten attempts the
\* request fails.
Pick(h) ==
  /\ At(h, "pick")
  /\ \/ \E n \in Names :
          /\ slug[n] = Nobody
          /\ req' = [req EXCEPT ![h].old = n, ![h].step = "reserveFirst"]
     \/ (\E n \in Names : slug[n] # Nobody) /\ End(h)
  /\ UNCHANGED <<user, slug, loose>>

ReserveFirst(h) ==
  /\ At(h, "reserveFirst")
  /\ slug' = [slug EXCEPT ![req[h].old] = req[h].uid]
  /\ Goto(h, "nameUser")
  /\ UNCHANGED <<user, loose>>

NameUser(h) ==
  /\ At(h, "nameUser")
  /\ user' = [user EXCEPT ![req[h].uid].name = req[h].old,
                          ![req[h].uid].cooling = FALSE]
  /\ Authenticated(h)
  /\ UNCHANGED <<slug, loose>>

\* The reading a change of name and a deletion start from.
ReadUser(h) ==
  LET r == req[h]
  IN /\ At(h, "readUser")
     /\ IF r.op = "update_username" /\ user[r.uid].cooling
        THEN End(h)
        ELSE req' = [req EXCEPT
               ![h].old = user[r.uid].name,
               ![h].step = IF r.op = "update_username" THEN "readName"
                                                       ELSE "markDeleted"]
     /\ UNCHANGED <<user, slug, loose>>

\* Mutant: any name will do.
AnyName(r) == r.new \in Names

\* A name is free, or already that of its user.
Available(r) == slug[r.new] \in {Nobody, r.uid}

ReadName(h) ==
  /\ At(h, "readName")
  /\ IF Available(req[h]) THEN Goto(h, "reserve") ELSE End(h)
  /\ UNCHANGED <<user, slug, loose>>

\* Mutant: the old name is released even if it is the new one.
ReleasesAny(r) == r.old # NoName

\* The old name is released unless it is the new one.
Releases(r) == r.old # NoName /\ r.old # r.new

\* Set without a condition: whoever reserves last has the name.
Reserve(h) ==
  LET r == req[h]
  IN /\ At(h, "reserve")
     /\ slug' = [slug EXCEPT ![r.new] = r.uid]
     /\ Goto(h, IF Releases(r) THEN "release" ELSE "rename")
     /\ UNCHANGED <<user, loose>>

\* Mutant: the old name stays reserved.
KeepOld(h) ==
  /\ At(h, "release")
  /\ Goto(h, "rename")
  /\ UNCHANGED <<user, slug, loose>>

\* Whose name it is by now is not tested.
Release(h) ==
  /\ At(h, "release")
  /\ slug' = [slug EXCEPT ![req[h].old] = Nobody]
  /\ Goto(h, "rename")
  /\ UNCHANGED <<user, loose>>

Rename(h) ==
  LET r == req[h]
  IN /\ At(h, "rename")
     /\ user' = [user EXCEPT ![r.uid].name = r.new, ![r.uid].cooling = TRUE]
     /\ End(h)
     /\ UNCHANGED <<slug, loose>>

\* The account is marked; its name stays in the document.
MarkDeleted(h) ==
  /\ At(h, "markDeleted")
  /\ user' = [user EXCEPT ![req[h].uid].deleted = TRUE]
  /\ loose' = loose \cup {req[h].old}
  /\ Goto(h, "releaseDeleted")
  /\ UNCHANGED slug

ReleaseDeleted(h) ==
  /\ At(h, "releaseDeleted")
  /\ slug' = [slug EXCEPT ![req[h].old] = Nobody]
  /\ End(h)
  /\ UNCHANGED <<user, loose>>

\* The cooldown of a user is over.
CoolDown(u) ==
  /\ user[u].cooling
  /\ user' = [user EXCEPT ![u].cooling = FALSE]
  /\ UNCHANGED <<slug, req, loose>>

Fail(h) == /\ MayFail /\ req[h] # Idle
           /\ End(h)
           /\ loose' = loose \cup ({req[h].old, req[h].new} \ {NoName})
           /\ UNCHANGED <<user, slug>>

Proceed(h) ==
  \/ SignIn(h) \/ Pick(h) \/ ReserveFirst(h) \/ NameUser(h) \/ ReadUser(h)
  \/ ReadName(h) \/ Reserve(h) \/ Release(h) \/ Rename(h) \/ MarkDeleted(h)
  \/ ReleaseDeleted(h)

Next == \/ \E h \in Handlers : Begin(h) \/ Proceed(h) \/ Fail(h)
        \/ \E u \in Users : CoolDown(u)

Spec == Init /\ [][Next]_vars
-----------------------------------------------------------------------------
(***************************************************************************)
(* Properties.                                                             *)
(***************************************************************************)
HasName(u, n) == ~user[u].deleted /\ user[u].name = n

\* One request at a time never gives two users the same name, but for the
\* names of a deleted account or of a request that stopped half way.
\* (user_repo.py 57-59, 124-130)
NamesUnique ==
  \A u, v \in Users, n \in Names \ loose :
    HasName(u, n) /\ HasName(v, n) => u = v

\* Between requests, a user can be looked up by name: the name's document
\* says whose it is.  A failure or a deletion spoils this for the names it was
\* about, and for no other user.  (get_by_username, user_repo.py 84-90)
NamesResolve ==
  Busy = {} => \A u \in Users, n \in Names \ loose : HasName(u, n) => slug[n] = u

\* Between requests, no name is held for a user who has another one ("Releases
\* old username slug; reserves new one", user_repo.py:95), with the same
\* exception.
NoStrayName ==
  Busy = {} => \A n \in Names \ loose : slug[n] # Nobody => user[slug[n]].name = n
=============================================================================
