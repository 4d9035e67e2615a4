----------------------------- MODULE LiveUpdates -----------------------------
(***************************************************************************)
(* What the owner of a sale is told while it is open in a browser: the     *)
(* status of the sale over one WebSocket stream, new notifications over    *)
(* another, and the notification records behind them.                      *)
(*                                                                         *)
(* Each Cloud Run instance keeps its connections in memory                 *)
(* (services/notifier.py); a broadcast copies the set of its own instance, *)
(* awaits one send after the other, and drops the connections whose send   *)
(* raised when it is done.  A connection of the status stream is sent the  *)
(* status that was read before it was registered (routers/sales.py 314).   *)
(*                                                                         *)
(* The run of the pipelines is here the transitions it makes and what it   *)
(* tells of them; the rest of it is CapturePipeline.  Left out: the texts, *)
(* pings, push messages (their errors are swallowed), and events that tell *)
(* of other changes than the status.                                       *)
(***************************************************************************)
EXTENDS SaleStatus, Naturals

CONSTANTS
  Connections,  \* WebSocket connections, each opened once
  Instances,    \* Cloud Run instances
  Handlers,     \* requests and background runs in flight at the same time
  EnabledOps,   \* the requests that arrive
  Ids,          \* bound: the notification records there may be
  MaxTasks,     \* bound: requests and runs that arrive
  MayFail       \* whether a Firestore call may raise, or an instance die

Channels == {"sale", "user"}
RunOps == {"finalize", "retry_finalize"}
StatusOps == {"archive_sale", "republish_sale", "publish_sale", "unpublish_sale"}
InboxOps == {"send_message", "mark_read", "mark_all_read"}
Ops == RunOps \cup StatusOps \cup InboxOps

Nothing == "nothing"

ASSUME LiveUpdatesAssumption ==
  /\ Ids \cap (SaleStatuses \cup {Nothing}) = {}
  /\ EnabledOps \subseteq Ops
  /\ MaxTasks \in Nat
  /\ MayFail \in BOOLEAN

VARIABLES
  status,    \* of the sale document
  notifs,    \* users/{uid}/notifications: the owner's records
  socket,    \* each connection, as its handler and its client see it
  registry,  \* active_connections and user_connections of each instance
  task,      \* the request or run of each handler
  heard,     \* the status a client was last sent
  told,      \* the notifications some client was told of
  begun,     \* how many requests and runs have arrived
  due        \* history: connections that must hear the present status

vars == <<status, notifs, socket, registry, task, heard, told, begun, due>>
-----------------------------------------------------------------------------
\* An event: the sale's status, the record it names, or a new message.
News == SaleStatuses \cup Ids \cup {Nothing}

\* The status each of these steps writes.
Written ==
  [processing |-> "processing", refined |-> "ready_for_review",
   pricing |-> "pricing_in_progress", priced |-> "ready_for_review",
   failedPricing |-> "failed", failed |-> "failed",
   archive |-> "archived", republish |-> "live",
   publish |-> "live", unpublish |-> "ready_for_review"]

\* Transitions that are not broadcast.
Silent == {"processing", "pricing", "publish", "unpublish"}

Idle == [step |-> "idle"]

Steps == DOMAIN Written \cup
         {"copy", "send", "record", "readOne", "listUnread", "mark", "end"}

\* A request or run: the instance it runs on; the broadcast it is at, with the
\* connections yet to be sent to and those whose send raised; the step after
\* it; the records it has yet to mark, and (history) those that were unread
\* when it came.
Task ==
  [op : Ops, at : Instances, step : Steps, next : {"pricing", "record", "end"},
   channel : Channels, news : News,
   todo : SUBSET Connections, dead : SUBSET Connections,
   ids : SUBSET Ids, asked : SUBSET Ids]

\* A connection: how far its handler is, whether its client is still there, and
\* the status it is going to be greeted with.
Socket ==
  [state : {"new", "read", "registered", "open", "over"},
   channel : Channels, at : Instances, alive : BOOLEAN,
   seen : SaleStatuses \cup {Nothing}]

TypeOK ==
  /\ status \in SaleStatuses
  /\ notifs \in [Ids -> {"absent", "unread", "read"}]
  /\ socket \in [Connections -> Socket]
  /\ registry \in [Instances -> [Channels -> SUBSET Connections]]
  /\ task \in [Handlers -> {Idle} \cup Task]
  /\ heard \in [Connections -> SaleStatuses \cup {Nothing}]
  /\ told \subseteq Ids /\ begun \in 0..MaxTasks /\ due \subseteq Connections

\* A sale to be captured; earlier notifications may be there.
Init ==
  /\ status = "pending_upload"
  /\ notifs \in [Ids -> {"absent", "unread"}]
  /\ socket \in [Connections ->
       [state : {"new"}, channel : Channels, at : Instances, alive : {TRUE},
        seen : {Nothing}]]
  /\ registry = [i \in Instances |-> [ch \in Channels |-> {}]]
  /\ task = [h \in Handlers |-> Idle]
  /\ heard = [c \in Connections |-> Nothing]
  /\ told = {} /\ begun = 0 /\ due = {}

Unread == {n \in Ids : notifs[n] = "unread"}

At(h, step) == task[h] # Idle /\ task[h].step = step

\* h has written a status and not yet told everyone.
Announcing(h) ==
  /\ task[h] # Idle
  /\ task[h].step \in {"copy", "send"} /\ task[h].news \in SaleStatuses
-----------------------------------------------------------------------------
(***************************************************************************)
(* Connections.                                                            *)
(***************************************************************************)

\* The registry once c has joined, or left, the set of its sale or its user.
Connected(c) ==
  [registry EXCEPT ![socket[c].at][socket[c].channel] = @ \cup {c}]

Disconnected(c) ==
  [registry EXCEPT ![socket[c].at][socket[c].channel] = @ \ {c}]

\* Ownership of the sale is checked on the document whose status is sent
\* later; the other stream authenticates only.
Open(c) ==
  /\ socket[c].state = "new"
  /\ socket' = [socket EXCEPT
       ![c].state = "read",
       ![c].seen = IF socket[c].channel = "sale" THEN status ELSE Nothing]
  /\ UNCHANGED <<status, notifs, registry, task, heard, told, begun, due>>

\* accept() raises if the client has gone, or does not know of it yet.
Register(c) ==
  LET s == socket[c]
  IN /\ s.state = "read"
     /\ \/ /\ socket' = [socket EXCEPT ![c].state =
                           IF s.channel = "sale" THEN "registered" ELSE "open"]
           /\ registry' = Connected(c)
        \/ /\ ~s.alive
           /\ socket' = [socket EXCEPT ![c].state = "over"]
           /\ UNCHANGED registry
     /\ UNCHANGED <<status, notifs, task, heard, told, begun, due>>

\* The first message of the status stream.
Greet(c) ==
  /\ socket[c].state = "registered" /\ socket[c].alive
  /\ heard' = [heard EXCEPT ![c] = socket[c].seen]
  /\ socket' = [socket EXCEPT ![c].state = "open", ![c].seen = Nothing]
  /\ UNCHANGED <<status, notifs, registry, task, told, begun, due>>

\* The client goes away, or its network does; what it heard, or was going to
\* be greeted with, no longer matters.
Close(c) ==
  /\ socket[c].alive /\ socket[c].state \notin {"new", "over"}
  /\ socket' = [socket EXCEPT ![c].alive = FALSE, ![c].seen = Nothing]
  /\ heard' = [heard EXCEPT ![c] = Nothing]
  /\ due' = due \ {c}
  /\ UNCHANGED <<status, notifs, registry, task, told, begun>>

\* Mutant: the handler ends without disconnecting.
LeaveQuietly(c) ==
  /\ socket[c].state \in {"registered", "open"} /\ ~socket[c].alive
  /\ socket' = [socket EXCEPT ![c].state = "over"]
  /\ UNCHANGED <<status, notifs, registry, task, heard, told, begun, due>>

\* The handler finds out: its receive, its ping or its greeting raises.
Leave(c) ==
  /\ socket[c].state \in {"registered", "open"} /\ ~socket[c].alive
  /\ socket' = [socket EXCEPT ![c].state = "over"]
  /\ registry' = Disconnected(c)
  /\ UNCHANGED <<status, notifs, task, heard, told, begun, due>>
-----------------------------------------------------------------------------
(***************************************************************************)
(* Requests and runs.                                                      *)
(***************************************************************************)
Permits(op) ==
  CASE op \in {"finalize", "publish_sale"} -> SaleStatuses
    [] op = "retry_finalize" -> {"failed"}
    [] op = "archive_sale"   -> SaleStatuses \ PipelineStatuses
    [] op = "republish_sale" -> {"ready_for_review"}
    [] op = "unpublish_sale" -> ActiveStatuses
    [] op \in InboxOps       -> SaleStatuses

FirstStep(op) ==
  CASE op \in RunOps -> "processing"
    [] op = "archive_sale" -> "archive"
    [] op = "republish_sale" -> "republish"
    [] op = "publish_sale" -> "publish"
    [] op = "unpublish_sale" -> "unpublish"
    [] op = "send_message" -> "copy"
    [] op = "mark_read" -> "readOne"
    [] op = "mark_all_read" -> "listUnread"

\* A message of another user is first told as such, then recorded.
Begin(h) ==
  /\ task[h] = Idle /\ begun < MaxTasks
  /\ begun' = begun + 1
  /\ \E op \in EnabledOps, i \in Instances, n \in Ids \cup {Nothing} :
       /\ status \in Permits(op)
       /\ op = "mark_read" <=> n # Nothing
       /\ op = "send_message" => \E m \in Ids : notifs[m] = "absent"
       /\ task' = [task EXCEPT ![h] =
            [op |-> op, at |-> i, step |-> FirstStep(op), next |-> "record",
             channel |-> "user", news |-> Nothing, todo |-> {}, dead |-> {},
             ids |-> {n} \ {Nothing}, asked |-> Unread]]
  /\ UNCHANGED <<status, notifs, socket, registry, heard, told, due>>

\* h goes on with a step; there is none after the last.
Next1(r, step) == IF step = "end" THEN Idle ELSE [r EXCEPT !.step = step]

AfterTelling(step) ==
  CASE step = "refined" -> {"pricing"}
    [] step = "priced"  -> {"record", "end"}    \* none if nothing was priced
    [] OTHER            -> {"end"}

AfterWrite(r) ==
  CASE r.step = "processing" -> {[r EXCEPT !.step = "refined"]}
    [] r.step = "pricing"    -> {[r EXCEPT !.step = "priced"]}
    [] r.step \in {"publish", "unpublish"} -> {Idle}
    [] OTHER -> {[r EXCEPT !.step = "copy", !.channel = "sale",
                           !.news = Written[r.step], !.next = n] :
                   n \in AfterTelling(r.step)}

\* Connections of instance i whose stream was under way when the status
\* changed.
Listening(i) == {c \in Connections : /\ socket[c].channel = "sale" /\ socket[c].at = i
                                     /\ socket[c].state = "open" /\ socket[c].alive}

WriteStatus(h) ==
  LET r == task[h]
  IN /\ r # Idle /\ r.step \in DOMAIN Written
     /\ status' = Written[r.step]
     /\ \E n \in AfterWrite(r) : task' = [task EXCEPT ![h] = n]
     /\ due' = IF r.step \in Silent \/ \E g \in Handlers \ {h} : Announcing(g)
               THEN {} ELSE Listening(r.at)
     /\ UNCHANGED <<notifs, socket, registry, heard, told, begun>>
-----------------------------------------------------------------------------
(***************************************************************************)
(* A broadcast.                                                            *)
(***************************************************************************)
Copy(h) ==
  LET r == task[h]
      connections == registry[r.at][r.channel]
  IN /\ At(h, "copy")
     /\ task' = [task EXCEPT ![h] =
          IF connections = {} THEN Next1(r, r.next)
          ELSE [r EXCEPT !.step = "send", !.todo = connections, !.dead = {}]]
     /\ UNCHANGED <<status, notifs, socket, registry, heard, told, begun, due>>

\* Mutant: the loop ends with the first send that raises.
RestUnlessDead(r, c, ok) == IF ok THEN r.todo \ {c} ELSE {}

\* The connections left after the send to c, whatever became of it.
Rest(r, c, ok) == r.todo \ {c}

\* Mutant: one dead connection, and the whole set is dropped.
SurvivorsNone(connections, dead) == IF dead = {} THEN connections ELSE {}

\* What a broadcast leaves in the set, which others may have joined or left.
Survivors(connections, dead) == connections \ dead

\* A send to a client that has gone raises, or is lost.
Send(h) ==
  LET r == task[h]
  IN /\ At(h, "send")
     /\ \E c \in r.todo, ok \in BOOLEAN :
          LET arrives == ok /\ socket[c].alive
              dead == IF ok THEN r.dead ELSE r.dead \cup {c}
              rest == Rest(r, c, ok)
          IN /\ ok \/ ~socket[c].alive
             /\ heard' = IF arrives /\ r.news \in SaleStatuses
                         THEN [heard EXCEPT ![c] = r.news] ELSE heard
             /\ told' = IF arrives /\ r.news \in Ids THEN told \cup {r.news} ELSE told
             /\ IF rest = {}
                THEN /\ registry' = [registry EXCEPT ![r.at][r.channel] =
                                       Survivors(@, dead)]
                     /\ task' = [task EXCEPT ![h] =
                          Next1([r EXCEPT !.todo = {}, !.dead = {}], r.next)]
                ELSE /\ task' = [task EXCEPT ![h].todo = rest, ![h].dead = dead]
                     /\ UNCHANGED registry
     /\ UNCHANGED <<status, notifs, socket, begun, due>>
-----------------------------------------------------------------------------
(***************************************************************************)
(* Notification records.                                                   *)
(***************************************************************************)

\* Mutant: the client is told of the record before it is there.
RecordLater(h) ==
  LET r == task[h]
  IN /\ At(h, "record")
     /\ \E n \in Ids :
          /\ notifs[n] = "absent"
          /\ task' = [task EXCEPT ![h] = [r EXCEPT
               !.step = "copy", !.channel = "user", !.news = n, !.next = "end"]]
     /\ UNCHANGED <<status, notifs, socket, registry, heard, told, begun, due>>

\* A record is created, then told of; past the bound, the run ends here.
Record(h) ==
  LET r == task[h]
      free == {n \in Ids : notifs[n] = "absent"}
  IN /\ At(h, "record")
     /\ \/ /\ free = {}
           /\ task' = [task EXCEPT ![h] = Idle]
           /\ UNCHANGED notifs
        \/ \E n \in free :
             /\ notifs' = [notifs EXCEPT ![n] = "unread"]
             /\ task' = [task EXCEPT ![h] = [r EXCEPT
                  !.step = "copy", !.channel = "user", !.news = n, !.next = "end"]]
     /\ UNCHANGED <<status, socket, registry, heard, told, begun, due>>

\* Marking one reads it first; marking all queries the unread ones.
ReadOne(h) ==
  /\ At(h, "readOne")
  /\ task' = [task EXCEPT ![h] =
       Next1(@, IF task[h].ids \subseteq Unread THEN "mark" ELSE "end")]
  /\ UNCHANGED <<status, notifs, socket, registry, heard, told, begun, due>>

ListUnread(h) ==
  /\ At(h, "listUnread")
  /\ task' = [task EXCEPT ![h] =
       Next1([@ EXCEPT !.ids = Unread], IF Unread = {} THEN "end" ELSE "mark")]
  /\ UNCHANGED <<status, notifs, socket, registry, heard, told, begun, due>>

\* Mutant: the first of them is marked, and no other.
MarkedFirst(r, n) == {}

\* Those still to be marked after n.
Unmarked(r, n) == r.ids \ {n}

Mark(h) ==
  LET r == task[h]
  IN /\ At(h, "mark")
     /\ \E n \in r.ids :
          /\ notifs' = [notifs EXCEPT ![n] = "read"]
          /\ task' = [task EXCEPT ![h] =
               Next1([r EXCEPT !.ids = Unmarked(r, n)],
                     IF Unmarked(r, n) = {} THEN "end" ELSE "mark")]
     /\ UNCHANGED <<status, socket, registry, heard, told, begun, due>>
-----------------------------------------------------------------------------
(***************************************************************************)
(* Failures.                                                               *)
(***************************************************************************)

\* The handler's next step after a call of its raised.  The pricing of a run
\* has an except clause of its own, inside that of the run; a run that could
\* not be recorded ends as if it had been.
Caught(r) ==
  CASE r.step \in {"processing", "refined", "pricing", "failedPricing"} -> "failed"
    [] r.step = "priced" -> "failedPricing"
    [] r.step = "copy" /\ r.channel = "sale" /\ r.next = "pricing" -> "failed"
    [] r.step = "copy" /\ r.channel = "sale" /\ r.next = "record" -> "failedPricing"
    [] OTHER -> "end"

\* A call of h raises.  A broadcast never does; the update of the metadata
\* that comes before the run's broadcasts may.
Raise(h) ==
  LET r == task[h]
  IN /\ r # Idle /\ r.step # "send"
     /\ r.step = "copy" => Caught(r) # "end"
     /\ task' = [task EXCEPT ![h] = Next1(r, Caught(r))]
     /\ due' = IF Announcing(h) THEN {} ELSE due
     /\ UNCHANGED <<status, notifs, socket, registry, heard, begun, told>>

\* An instance dies, and with it its connections, requests and runs.
Crash(i) ==
  LET here == {h \in Handlers : task[h] # Idle /\ task[h].at = i}
      lost == {c \in Connections : socket[c].state # "new" /\ socket[c].at = i}
  IN /\ here # {} \/ \E c \in lost : socket[c].state # "over"
     /\ task' = [h \in Handlers |-> IF h \in here THEN Idle ELSE task[h]]
     /\ socket' = [c \in Connections |->
          IF c \in lost
          THEN [socket[c] EXCEPT !.state = "over", !.alive = FALSE, !.seen = Nothing]
          ELSE socket[c]]
     /\ registry' = [registry EXCEPT ![i] = [ch \in Channels |-> {}]]
     /\ heard' = [c \in Connections |-> IF c \in lost THEN Nothing ELSE heard[c]]
     /\ due' = due \ lost
     /\ UNCHANGED <<status, notifs, begun, told>>

Fail == MayFail /\ (\/ \E h \in Handlers : Raise(h)
                    \/ \E i \in Instances : Crash(i))
-----------------------------------------------------------------------------
Proceed(h) == \/ WriteStatus(h) \/ Copy(h) \/ Send(h) \/ Record(h)
              \/ ReadOne(h) \/ ListUnread(h) \/ Mark(h)

Attend(c) == Register(c) \/ Greet(c) \/ Leave(c)

Next == \/ \E h \in Handlers : Begin(h) \/ Proceed(h)
        \/ \E c \in Connections : Open(c) \/ Attend(c) \/ Close(c)
        \/ Fail

Spec == Init /\ [][Next]_vars

-----------------------------------------------------------------------------
(***************************************************************************)
(* Properties.                                                             *)
(***************************************************************************)

\* "The client connects here to be notified when the pipeline finishes"
\* (sales.py:321): a client whose stream was under way on the instance that
\* wrote the present status has heard it last, once it is announced; however
\* many connections die, come or go during the broadcast.  Excepted are
\* transitions nothing is told of, and a change announced while another was.
\* (notifier.py 31-59)
ListenersHear ==
  (\A h \in Handlers : ~Announcing(h)) =>
    \A c \in due : heard[c] = status

\* A connection that is open stays registered: no clean-up of a broadcast,
\* late as it comes, drops another connection than those whose send raised.
\* (notifier.py 56-59, 90-93)
OpenIsRegistered ==
  \A c \in Connections :
    socket[c].alive /\ socket[c].state \in {"registered", "open"} =>
      c \in registry[socket[c].at][socket[c].channel]

\* A connection whose client has gone does not stay in memory: whatever is
\* registered has a handler that is still to find out.
\* (sales.py 339-343, messages.py 450-454)
RegisteredIsAttended ==
  \A i \in Instances, ch \in Channels : \A c \in registry[i][ch] :
    /\ socket[c].channel = ch /\ socket[c].at = i
    /\ socket[c].state \in {"registered", "open"}

\* A client told of a notification can fetch it.  (messaging.py 44-57,
\* pipelines.py 362-375)
ToldIsStored == \A n \in told : notifs[n] # "absent"

\* A request that marks all as read leaves nothing unread of what was unread
\* when it came, whatever is marked or created meanwhile.
\* (notification_repo.py 68-72)
AllMarked ==
  [][\A h \in Handlers :
       (/\ task[h] # Idle /\ task[h].op = "mark_all_read"
        /\ task'[h] = Idle /\ ~Fail)
         => \A n \in task[h].asked : notifs'[n] = "read"]_vars
=============================================================================
