------------------------- MODULE LiveUpdates_proofs -------------------------
(***************************************************************************)
(* Broadcasts reach whom they must, drop nobody else and leave nobody      *)
(* behind, for any number of connections, instances, requests and records: *)
(* proofs about LiveUpdates.                                               *)
(***************************************************************************)
EXTENDS LiveUpdates, TLAPS

USE LiveUpdatesAssumption

\* What is written is a status, whatever the step.
LEMMA WrittenStatus ==
  /\ DOMAIN Written = {"processing", "refined", "pricing", "priced",
       "failedPricing", "failed", "archive", "republish", "publish", "unpublish"}
  /\ \A step \in DOMAIN Written : Written[step] \in SaleStatuses
BY DEF Written, SaleStatuses

LEMMA TaskNotIdle == \A t \in Task : t # Idle
<1> SUFFICES ASSUME NEW t \in Task, t = Idle PROVE FALSE
  OBVIOUS
<1>1. t.step \in Steps /\ t.step = "idle"
  BY DEF Task, Idle
<1> QED
  BY <1>1, WrittenStatus DEF Steps

\* The task of a handler that is busy.
LEMMA BusyTask ==
  ASSUME TypeOK, NEW h \in Handlers, task[h] # Idle
  PROVE  task[h] \in Task
BY DEF TypeOK

LEMMA Next1Type ==
  ASSUME NEW r \in Task, NEW step \in Steps
  PROVE  Next1(r, step) \in {Idle} \cup Task
BY DEF Next1, Task

LEMMA CaughtStep ==
  ASSUME NEW r
  PROVE  Caught(r) \in {"failed", "failedPricing", "end"}
BY DEF Caught

LEMMA StepNames ==
  {"copy", "send", "record", "readOne", "listUnread", "mark", "end",
   "processing", "refined", "pricing", "priced", "failedPricing", "failed",
   "archive", "republish", "publish", "unpublish"} = Steps
BY WrittenStatus DEF Steps

LEMMA AfterWriteType ==
  ASSUME NEW r \in Task, r.step \in DOMAIN Written, NEW n \in AfterWrite(r)
  PROVE  n \in {Idle} \cup Task
<1>1. CASE r.step = "processing"
  BY <1>1, StepNames DEF AfterWrite, Task
<1>2. CASE r.step = "pricing"
  BY <1>2, StepNames DEF AfterWrite, Task
<1>3. CASE r.step \in {"publish", "unpublish"}
  BY <1>3 DEF AfterWrite
<1>4. CASE r.step \notin {"processing", "pricing", "publish", "unpublish"}
  <2>1. PICK m \in AfterTelling(r.step) :
          n = [r EXCEPT !.step = "copy", !.channel = "sale",
                        !.news = Written[r.step], !.next = m]
    BY <1>4 DEF AfterWrite
  <2>2. m \in {"pricing", "record", "end"}
    BY DEF AfterTelling
  <2>3. Written[r.step] \in News /\ "copy" \in Steps /\ "sale" \in Channels
    BY WrittenStatus, StepNames DEF News, Channels
  <2> QED
    BY <2>1, <2>2, <2>3 DEF Task
<1> QED
  BY <1>1, <1>2, <1>3, <1>4
-----------------------------------------------------------------------------
(***************************************************************************)
(* Types.                                                                  *)
(***************************************************************************)

LEMMA InitType == Init => TypeOK
<1> SUFFICES ASSUME Init PROVE TypeOK
  OBVIOUS
<1>1. status \in SaleStatuses /\ begun \in 0..MaxTasks
  BY DEF Init, SaleStatuses
<1>2. notifs \in [Ids -> {"absent", "unread", "read"}]
  BY DEF Init
<1>3. socket \in [Connections -> Socket]
  <2>1. {Nothing} \subseteq SaleStatuses \cup {Nothing}
    OBVIOUS
  <2> QED
    BY <2>1 DEF Init, Socket
<1>4. /\ registry \in [Instances -> [Channels -> SUBSET Connections]]
      /\ task \in [Handlers -> {Idle} \cup Task]
      /\ heard \in [Connections -> SaleStatuses \cup {Nothing}]
      /\ told \subseteq Ids /\ due \subseteq Connections
  BY DEF Init
<1> QED
  BY <1>1, <1>2, <1>3, <1>4 DEF TypeOK

\* What a connection may become.
LEMMA SocketTypes ==
  ASSUME TypeOK, NEW c \in Connections,
         \/ Open(c) \/ Register(c) \/ Greet(c) \/ Close(c) \/ Leave(c)
  PROVE  TypeOK'
<1> USE DEF Socket
<1>1. socket \in [Connections -> Socket] /\ socket[c] \in Socket
  BY DEF TypeOK
<1>2. Connected(c) \in [Instances -> [Channels -> SUBSET Connections]]
  BY <1>1 DEF Connected, TypeOK
<1>3. Disconnected(c) \in [Instances -> [Channels -> SUBSET Connections]]
  BY <1>1 DEF Disconnected, TypeOK
<1>4. CASE Open(c)
  <2>1. socket' \in [Connections -> Socket]
    BY <1>1, <1>4 DEF Open, TypeOK
  <2> QED
    BY <1>4, <2>1 DEF Open, TypeOK
<1>5. CASE Register(c)
  <2>1. socket' \in [Connections -> Socket]
    BY <1>1, <1>5 DEF Register
  <2>2. registry' \in [Instances -> [Channels -> SUBSET Connections]]
    BY <1>2, <1>5 DEF Register, TypeOK
  <2> QED
    BY <1>5, <2>1, <2>2 DEF Register, TypeOK
<1>6. CASE Greet(c)
  <2>1. socket' \in [Connections -> Socket]
    BY <1>1, <1>6 DEF Greet
  <2>2. heard' \in [Connections -> SaleStatuses \cup {Nothing}]
    BY <1>1, <1>6 DEF Greet, TypeOK
  <2> QED
    BY <1>6, <2>1, <2>2 DEF Greet, TypeOK
<1>7. CASE Close(c)
  <2>1. socket' \in [Connections -> Socket]
    BY <1>1, <1>7 DEF Close
  <2>2. heard' \in [Connections -> SaleStatuses \cup {Nothing}] /\ due' \subseteq Connections
    BY <1>7 DEF Close, TypeOK
  <2> QED
    BY <1>7, <2>1, <2>2 DEF Close, TypeOK
<1>8. CASE Leave(c)
  <2>1. socket' \in [Connections -> Socket]
    BY <1>1, <1>8 DEF Leave
  <2> QED
    BY <1>3, <1>8, <2>1 DEF Leave, TypeOK
<1> QED
  BY <1>4, <1>5, <1>6, <1>7, <1>8

LEMMA BeginTypes ==
  ASSUME TypeOK, NEW h \in Handlers, Begin(h)
  PROVE  TypeOK'
<1>1. PICK op \in EnabledOps, i \in Instances, n \in Ids \cup {Nothing} :
        task' = [task EXCEPT ![h] =
            [op |-> op, at |-> i, step |-> FirstStep(op), next |-> "record",
             channel |-> "user", news |-> Nothing, todo |-> {}, dead |-> {},
             ids |-> {n} \ {Nothing}, asked |-> Unread]]
  BY DEF Begin
<1>2. FirstStep(op) \in Steps
  BY StepNames DEF FirstStep, Ops, RunOps, StatusOps, InboxOps
<1>3. Unread \subseteq Ids /\ "record" \in Steps /\ op \in Ops
  BY StepNames DEF Unread
<1>4. [op |-> op, at |-> i, step |-> FirstStep(op), next |-> "record",
       channel |-> "user", news |-> Nothing, todo |-> {}, dead |-> {},
       ids |-> {n} \ {Nothing}, asked |-> Unread] \in Task
  BY <1>2, <1>3 DEF Task, Channels, News
<1>5. task' \in [Handlers -> {Idle} \cup Task]
  BY <1>1, <1>4 DEF TypeOK
<1>6. begun' \in 0..MaxTasks
  BY DEF Begin, TypeOK
<1> QED
  BY <1>5, <1>6 DEF Begin, TypeOK

\* A step of a request that only moves it on.
LEMMA MovesOn ==
  ASSUME TypeOK, NEW h \in Handlers, NEW t \in {Idle} \cup Task,
         task' = [task EXCEPT ![h] = t]
  PROVE  task' \in [Handlers -> {Idle} \cup Task]
BY DEF TypeOK

LEMMA WriteTypes ==
  ASSUME TypeOK, NEW h \in Handlers, WriteStatus(h)
  PROVE  TypeOK'
<1> DEFINE r == task[h]
<1>1. r \in Task /\ r.step \in DOMAIN Written
  BY BusyTask DEF WriteStatus
<1>2. status' \in SaleStatuses
  BY <1>1, WrittenStatus DEF WriteStatus
<1>3. PICK n \in AfterWrite(r) : task' = [task EXCEPT ![h] = n]
  BY DEF WriteStatus
<1>4. n \in {Idle} \cup Task
  BY <1>1, <1>3, AfterWriteType
<1>5. task' \in [Handlers -> {Idle} \cup Task]
  BY <1>3, <1>4, MovesOn
<1>6. due' \subseteq Connections
  BY DEF WriteStatus, Listening
<1> QED
  BY <1>2, <1>5, <1>6 DEF WriteStatus, TypeOK

LEMMA CopyTypes ==
  ASSUME TypeOK, NEW h \in Handlers, Copy(h)
  PROVE  TypeOK'
<1> DEFINE r == task[h]
<1>1. r \in Task
  BY BusyTask DEF Copy, At
<1>2. Next1(r, r.next) \in {Idle} \cup Task
  BY <1>1, Next1Type, StepNames DEF Task
<1>3. registry[r.at][r.channel] \subseteq Connections
  BY <1>1 DEF TypeOK, Task
<1>4. [r EXCEPT !.step = "send", !.todo = registry[r.at][r.channel], !.dead = {}] \in Task
  BY <1>1, <1>3, StepNames DEF Task
<1>5. task' \in [Handlers -> {Idle} \cup Task]
  BY <1>2, <1>4, MovesOn DEF Copy
<1> QED
  BY <1>5 DEF Copy, TypeOK

LEMMA SendTypes ==
  ASSUME TypeOK, NEW h \in Handlers, Send(h)
  PROVE  TypeOK'
<1> DEFINE r == task[h]
<1>1. r \in Task
  BY BusyTask DEF Send, At
<1>2. PICK c \in r.todo, ok \in BOOLEAN :
        LET arrives == ok /\ socket[c].alive
            dead == IF ok THEN r.dead ELSE r.dead \cup {c}
            rest == Rest(r, c, ok)
        IN /\ ok \/ ~socket[c].alive
           /\ heard' = IF arrives /\ r.news \in SaleStatuses
                       THEN [heard EXCEPT ![c] = r.news] ELSE heard
           /\ told' = IF arrives /\ r.news \in Ids THEN told \cup {r.news} ELSE told
           /\ IF rest = {}
              THEN /\ registry' = [registry EXCEPT ![r.at][r.channel] =
                                     Survivors(@, dead)]
                   /\ task' = [task EXCEPT ![h] =
                        Next1([r EXCEPT !.todo = {}, !.dead = {}], r.next)]
              ELSE /\ task' = [task EXCEPT ![h].todo = rest, ![h].dead = dead]
                   /\ UNCHANGED registry
  BY DEF Send
<1> DEFINE dead == IF ok THEN r.dead ELSE r.dead \cup {c}
<1>3. c \in Connections /\ dead \subseteq Connections /\ Rest(r, c, ok) \subseteq Connections
  BY <1>1 DEF Task, Rest
<1>4. heard' \in [Connections -> SaleStatuses \cup {Nothing}]
  BY <1>2, <1>3 DEF TypeOK
<1>5. told' \subseteq Ids
  BY <1>2 DEF TypeOK
<1>6. registry' \in [Instances -> [Channels -> SUBSET Connections]]
  <2> DEFINE left == Survivors(registry[r.at][r.channel], dead)
  <2>1. r.at \in Instances /\ r.channel \in Channels
    BY <1>1 DEF Task
  <2>2. left \in SUBSET Connections
    BY <2>1 DEF Survivors, TypeOK
  <2>3. \/ registry' = registry
        \/ registry' = [registry EXCEPT ![r.at][r.channel] = left]
    BY <1>2
  <2> HIDE DEF left
  <2>4. [registry[r.at] EXCEPT ![r.channel] = left] \in [Channels -> SUBSET Connections]
    BY <2>1, <2>2 DEF TypeOK
  <2> QED
    BY <2>1, <2>3, <2>4 DEF TypeOK
<1>7. Next1([r EXCEPT !.todo = {}, !.dead = {}], r.next) \in {Idle} \cup Task
  <2>1. [r EXCEPT !.todo = {}, !.dead = {}] \in Task /\ r.next \in Steps
    BY <1>1, StepNames DEF Task
  <2> QED
    BY <2>1, Next1Type
<1>8. task' \in [Handlers -> {Idle} \cup Task]
  <2>1. CASE Rest(r, c, ok) = {}
    BY <1>2, <1>7, <2>1, MovesOn
  <2>2. CASE Rest(r, c, ok) # {}
    <3>1. task' = [task EXCEPT ![h] = [r EXCEPT !.todo = Rest(r, c, ok), !.dead = dead]]
      BY <1>1, <1>2, <2>2 DEF TypeOK
    <3>2. [r EXCEPT !.todo = Rest(r, c, ok), !.dead = dead] \in Task
      BY <1>1, <1>3 DEF Task
    <3> QED
      BY <3>1, <3>2, MovesOn
  <2> QED
    BY <2>1, <2>2
<1> QED
  BY <1>4, <1>5, <1>6, <1>8 DEF Send, TypeOK

LEMMA RecordTypes ==
  ASSUME TypeOK, NEW h \in Handlers, Record(h)
  PROVE  TypeOK'
<1> DEFINE r == task[h]
<1>1. r \in Task
  BY BusyTask DEF Record, At
<1>2. CASE task' = [task EXCEPT ![h] = Idle] /\ UNCHANGED notifs
  BY <1>2, MovesOn DEF Record, TypeOK
<1>3. ASSUME NEW n \in Ids,
             notifs' = [notifs EXCEPT ![n] = "unread"],
             task' = [task EXCEPT ![h] = [r EXCEPT
               !.step = "copy", !.channel = "user", !.news = n, !.next = "end"]]
      PROVE  TypeOK'
  <2>1. [r EXCEPT !.step = "copy", !.channel = "user", !.news = n, !.next = "end"] \in Task
    BY <1>1, StepNames DEF Task, Channels, News
  <2>2. task' \in [Handlers -> {Idle} \cup Task]
    BY <1>3, <2>1, MovesOn
  <2> QED
    BY <1>3, <2>2 DEF Record, TypeOK
<1> QED
  BY <1>2, <1>3 DEF Record

LEMMA InboxTypes ==
  ASSUME TypeOK, NEW h \in Handlers, ReadOne(h) \/ ListUnread(h) \/ Mark(h)
  PROVE  TypeOK'
<1> DEFINE r == task[h]
<1>1. r \in Task
  BY BusyTask DEF ReadOne, ListUnread, Mark, At
<1>2. CASE ReadOne(h)
  <2>1. Next1(r, IF r.ids \subseteq Unread THEN "mark" ELSE "end") \in {Idle} \cup Task
    BY <1>1, Next1Type, StepNames
  <2>2. task' \in [Handlers -> {Idle} \cup Task]
    BY <1>2, <2>1, MovesOn DEF ReadOne, TypeOK
  <2> QED
    BY <1>2, <2>2 DEF ReadOne, TypeOK
<1>3. CASE ListUnread(h)
  <2>1. [r EXCEPT !.ids = Unread] \in Task
    BY <1>1 DEF Task, Unread
  <2>2. Next1([r EXCEPT !.ids = Unread], IF Unread = {} THEN "end" ELSE "mark")
          \in {Idle} \cup Task
    BY <2>1, Next1Type, StepNames
  <2>3. task' \in [Handlers -> {Idle} \cup Task]
    BY <1>3, <2>2, MovesOn DEF ListUnread, TypeOK
  <2> QED
    BY <1>3, <2>3 DEF ListUnread, TypeOK
<1>4. CASE Mark(h)
  <2>1. PICK n \in r.ids :
          /\ notifs' = [notifs EXCEPT ![n] = "read"]
          /\ task' = [task EXCEPT ![h] =
               Next1([r EXCEPT !.ids = Unmarked(r, n)],
                     IF Unmarked(r, n) = {} THEN "end" ELSE "mark")]
    BY <1>4 DEF Mark
  <2>2. [r EXCEPT !.ids = Unmarked(r, n)] \in Task
    BY <1>1 DEF Task, Unmarked
  <2>3. Next1([r EXCEPT !.ids = Unmarked(r, n)],
              IF Unmarked(r, n) = {} THEN "end" ELSE "mark") \in {Idle} \cup Task
    BY <2>2, Next1Type, StepNames
  <2>4. task' \in [Handlers -> {Idle} \cup Task]
    BY <2>1, <2>3, MovesOn
  <2> QED
    BY <1>4, <2>1, <2>4 DEF Mark, TypeOK
<1> QED
  BY <1>2, <1>3, <1>4

LEMMA FailTypes ==
  ASSUME TypeOK, Fail
  PROVE  TypeOK'
<1>1. ASSUME NEW h \in Handlers, Raise(h) PROVE TypeOK'
  <2>1. task[h] \in Task
    BY <1>1, BusyTask DEF Raise
  <2>2. Next1(task[h], Caught(task[h])) \in {Idle} \cup Task
    BY <2>1, CaughtStep, Next1Type, StepNames
  <2>3. task' \in [Handlers -> {Idle} \cup Task]
    BY <1>1, <2>2, MovesOn DEF Raise
  <2> QED
    BY <1>1, <2>3 DEF Raise, TypeOK
<1>2. ASSUME NEW i \in Instances, Crash(i) PROVE TypeOK'
  <2> DEFINE lost == {c \in Connections : socket[c].state # "new" /\ socket[c].at = i}
  <2>1. task' \in [Handlers -> {Idle} \cup Task]
    BY <1>2 DEF Crash, TypeOK
  <2>2. socket' \in [Connections -> Socket]
    <3>1. ASSUME NEW c \in Connections
          PROVE  /\ socket[c] \in Socket
                 /\ [socket[c] EXCEPT !.state = "over", !.alive = FALSE,
                                      !.seen = Nothing] \in Socket
      BY DEF TypeOK, Socket
    <3> QED
      BY <1>2, <3>1 DEF Crash
  <2>3. registry' \in [Instances -> [Channels -> SUBSET Connections]]
    BY <1>2 DEF Crash, TypeOK
  <2>4. heard' \in [Connections -> SaleStatuses \cup {Nothing}] /\ due' \subseteq Connections
    BY <1>2 DEF Crash, TypeOK
  <2> QED
    BY <1>2, <2>1, <2>2, <2>3, <2>4 DEF Crash, TypeOK
<1> QED
  BY <1>1, <1>2 DEF Fail

LEMMA NextType == TypeOK /\ [Next]_vars => TypeOK'
<1> SUFFICES ASSUME TypeOK, [Next]_vars PROVE TypeOK'
  OBVIOUS
<1>1. CASE UNCHANGED vars
  BY <1>1 DEF vars, TypeOK
<1>2. ASSUME NEW h \in Handlers, Begin(h) \/ Proceed(h) PROVE TypeOK'
  BY <1>2, BeginTypes, WriteTypes, CopyTypes, SendTypes, RecordTypes, InboxTypes
     DEF Proceed
<1>3. ASSUME NEW c \in Connections, Open(c) \/ Attend(c) \/ Close(c) PROVE TypeOK'
  BY <1>3, SocketTypes DEF Attend
<1> QED
  BY <1>1, <1>2, <1>3, FailTypes DEF Next

\* Every variable keeps its type.
THEOREM TypeCorrect == Spec => []TypeOK
BY InitType, NextType, PTL DEF Spec
-----------------------------------------------------------------------------
(***************************************************************************)
(* The registries: who is open is registered, who is registered is         *)
(* attended.                                                               *)
(***************************************************************************)

\* Broadcasts take out of a registry only connections that have gone.
DeadAreGone ==
  \A h \in Handlers : task[h] # Idle => \A c \in task[h].dead : ~socket[c].alive

RegistryInv == DeadAreGone /\ OpenIsRegistered /\ RegisteredIsAttended

LEMMA InitRegistry == Init => RegistryInv
<1> SUFFICES ASSUME Init PROVE RegistryInv
  OBVIOUS
<1>1. \A c \in Connections : socket[c].state = "new"
  BY DEF Init
<1>2. \A i \in Instances, ch \in Channels : registry[i][ch] = {}
  BY DEF Init
<1>3. \A h \in Handlers : task[h] = Idle
  BY DEF Init
<1> QED
  BY <1>1, <1>2, <1>3 DEF RegistryInv, DeadAreGone, OpenIsRegistered,
                          RegisteredIsAttended

\* Who is registered once c has joined or left.
LEMMA ConnectedAt ==
  ASSUME TypeOK, NEW c \in Connections, NEW i \in Instances, NEW ch \in Channels, NEW e
  PROVE  /\ e \in Connected(c)[i][ch] <=>
              \/ e \in registry[i][ch]
              \/ e = c /\ socket[c].at = i /\ socket[c].channel = ch
         /\ e \in Disconnected(c)[i][ch] <=>
              /\ e \in registry[i][ch]
              /\ ~(e = c /\ socket[c].at = i /\ socket[c].channel = ch)
<1>1. socket[c].at \in Instances /\ socket[c].channel \in Channels
  BY DEF TypeOK, Socket
<1>2. registry \in [Instances -> [Channels -> SUBSET Connections]]
  BY DEF TypeOK
<1> QED
  BY <1>1, <1>2 DEF Connected, Disconnected

\* A step of a connection concerns no other, and brings nobody back.
LEMMA SocketSteps ==
  ASSUME TypeOK, NEW d \in Connections,
         \/ Open(d) \/ Register(d) \/ Greet(d) \/ Close(d) \/ Leave(d)
  PROVE  /\ task' = task
         /\ \A c \in Connections \ {d} : socket'[c] = socket[c]
         /\ socket'[d].at = socket[d].at /\ socket'[d].channel = socket[d].channel
         /\ socket'[d].alive => socket[d].alive
<1>1. socket \in [Connections -> Socket] /\ socket[d] \in Socket
  BY DEF TypeOK
<1>2. CASE Open(d)
  BY <1>1, <1>2 DEF Open, Socket
<1>3. CASE Register(d)
  BY <1>1, <1>3 DEF Register, Socket
<1>4. CASE Greet(d)
  BY <1>1, <1>4 DEF Greet, Socket
<1>5. CASE Close(d)
  BY <1>1, <1>5 DEF Close, Socket
<1>6. CASE Leave(d)
  BY <1>1, <1>6 DEF Leave, Socket
<1> QED
  BY <1>2, <1>3, <1>4, <1>5, <1>6

\* What happens to connections keeps the registries right.
LEMMA SocketRegistry ==
  ASSUME TypeOK, RegistryInv, NEW d \in Connections,
         \/ Open(d) \/ Register(d) \/ Greet(d) \/ Close(d) \/ Leave(d)
  PROVE  RegistryInv'
<1> USE DEF Socket
<1>1. /\ task' = task
      /\ \A c \in Connections :
           /\ c # d => socket'[c] = socket[c]
           /\ socket'[c].at = socket[c].at /\ socket'[c].channel = socket[c].channel
           /\ socket'[c].alive => socket[c].alive
  BY SocketSteps
<1>2. DeadAreGone'
  <2> SUFFICES ASSUME NEW h \in Handlers, task'[h] # Idle, NEW c \in task'[h].dead
               PROVE  ~socket'[c].alive
    BY DEF DeadAreGone
  <2>1. c \in Connections
    BY <1>1 DEF TypeOK, Task
  <2> QED
    BY <1>1, <2>1 DEF RegistryInv, DeadAreGone
<1>3. \A c \in Connections : socket[c].at \in Instances /\ socket[c].channel \in Channels
  BY DEF TypeOK
<1> DEFINE Attended(state) == state \in {"registered", "open"}
<1>4. CASE Attended(socket'[d].state) /\ registry' = Connected(d)
  <2>1. ASSUME NEW c \in Connections, socket'[c].alive, Attended(socket'[c].state)
        PROVE  c \in registry'[socket'[c].at][socket'[c].channel]
    <3>1. c # d => c \in registry[socket[c].at][socket[c].channel]
      BY <1>1, <2>1 DEF RegistryInv, OpenIsRegistered
    <3>2. c \in Connected(d)[socket[c].at][socket[c].channel]
      BY <1>3, <3>1, ConnectedAt
    <3> QED
      BY <1>1, <1>4, <3>2
  <2>2. ASSUME NEW i \in Instances, NEW ch \in Channels, NEW c \in registry'[i][ch]
        PROVE  socket'[c].channel = ch /\ socket'[c].at = i /\ Attended(socket'[c].state)
    <3>1. c \in registry[i][ch] \/ (c = d /\ socket[d].at = i /\ socket[d].channel = ch)
      BY <1>4, <2>2, ConnectedAt
    <3>2. c \in Connections
      BY <3>1 DEF TypeOK
    <3> QED
      BY <1>1, <1>4, <3>1, <3>2 DEF RegistryInv, RegisteredIsAttended
  <2> QED
    BY <1>2, <2>1, <2>2 DEF RegistryInv, OpenIsRegistered, RegisteredIsAttended
<1>5. CASE Leave(d)
  <2>1. socket'[d].state = "over" /\ registry' = Disconnected(d)
    BY <1>5 DEF Leave, TypeOK
  <2>2. ASSUME NEW c \in Connections, socket'[c].alive, Attended(socket'[c].state)
        PROVE  c \in registry'[socket'[c].at][socket'[c].channel]
    <3>1. c # d /\ c \in registry[socket[c].at][socket[c].channel]
      BY <1>1, <2>1, <2>2 DEF RegistryInv, OpenIsRegistered
    <3>2. c \in Disconnected(d)[socket[c].at][socket[c].channel]
      BY <1>3, <3>1, ConnectedAt
    <3> QED
      BY <1>1, <2>1, <3>2
  <2>3. ASSUME NEW i \in Instances, NEW ch \in Channels, NEW c \in registry'[i][ch]
        PROVE  socket'[c].channel = ch /\ socket'[c].at = i /\ Attended(socket'[c].state)
    <3>1. c \in registry[i][ch] /\ ~(c = d /\ socket[d].at = i /\ socket[d].channel = ch)
      BY <2>1, <2>3, ConnectedAt
    <3>2. c \in Connections /\ c # d
      BY <3>1 DEF TypeOK, RegistryInv, RegisteredIsAttended
    <3> QED
      BY <1>1, <3>1, <3>2 DEF RegistryInv, RegisteredIsAttended
  <2> QED
    BY <1>2, <2>2, <2>3 DEF RegistryInv, OpenIsRegistered, RegisteredIsAttended
<1>6. CASE registry' = registry /\ (Attended(socket'[d].state) <=> Attended(socket[d].state))
  <2>1. OpenIsRegistered'
    BY <1>1, <1>6 DEF RegistryInv, OpenIsRegistered
  <2>2. RegisteredIsAttended'
    BY <1>1, <1>6 DEF RegistryInv, RegisteredIsAttended, TypeOK
  <2> QED
    BY <1>2, <2>1, <2>2 DEF RegistryInv
<1>7. CASE Open(d) \/ Greet(d) \/ Close(d)
  <2>1. registry' = registry /\ (Attended(socket'[d].state) <=> Attended(socket[d].state))
    BY <1>7 DEF Open, Greet, Close, TypeOK
  <2> QED
    BY <1>6, <2>1
<1>8. CASE Register(d)
  <2>1. \/ Attended(socket'[d].state) /\ registry' = Connected(d)
        \/ registry' = registry /\ ~Attended(socket'[d].state) /\ ~Attended(socket[d].state)
    BY <1>8 DEF Register, TypeOK
  <2> QED
    BY <1>4, <1>6, <2>1
<1> QED
  BY <1>5, <1>7, <1>8

\* What a send changes.
LEMMA SendSteps ==
  ASSUME TypeOK, NEW h \in Handlers, Send(h)
  PROVE  LET r == task[h]
         IN \E c \in r.todo, ok \in BOOLEAN :
              LET dead == IF ok THEN r.dead ELSE r.dead \cup {c}
                  rest == Rest(r, c, ok)
              IN /\ ok \/ ~socket[c].alive
                 /\ heard' = IF ok /\ socket[c].alive /\ r.news \in SaleStatuses
                             THEN [heard EXCEPT ![c] = r.news] ELSE heard
                 /\ told' = IF ok /\ socket[c].alive /\ r.news \in Ids
                            THEN told \cup {r.news} ELSE told
                 /\ \/ /\ rest = {}
                       /\ registry' = [registry EXCEPT ![r.at][r.channel] =
                                          Survivors(@, dead)]
                       /\ task' = [task EXCEPT ![h] =
                            Next1([r EXCEPT !.todo = {}, !.dead = {}], r.next)]
                    \/ /\ rest # {}
                       /\ registry' = registry
                       /\ task' = [task EXCEPT ![h] =
                            [r EXCEPT !.todo = rest, !.dead = dead]]
<1>1. task[h] \in Task
  BY BusyTask DEF Send, At
<1> DEFINE r == task[h]
<1>2. PICK c \in r.todo, ok \in BOOLEAN :
        LET arrives == ok /\ socket[c].alive
            dead == IF ok THEN r.dead ELSE r.dead \cup {c}
            rest == Rest(r, c, ok)
        IN /\ ok \/ ~socket[c].alive
           /\ heard' = IF arrives /\ r.news \in SaleStatuses
                       THEN [heard EXCEPT ![c] = r.news] ELSE heard
           /\ told' = IF arrives /\ r.news \in Ids THEN told \cup {r.news} ELSE told
           /\ IF rest = {}
              THEN /\ registry' = [registry EXCEPT ![r.at][r.channel] =
                                     Survivors(@, dead)]
                   /\ task' = [task EXCEPT ![h] =
                        Next1([r EXCEPT !.todo = {}, !.dead = {}], r.next)]
              ELSE /\ task' = [task EXCEPT ![h].todo = rest, ![h].dead = dead]
                   /\ UNCHANGED registry
  BY DEF Send
<1> DEFINE dead == IF ok THEN r.dead ELSE r.dead \cup {c}
           rest == Rest(r, c, ok)
<1>3. [task EXCEPT ![h].todo = rest, ![h].dead = dead]
        = [task EXCEPT ![h] = [r EXCEPT !.todo = rest, !.dead = dead]]
  <2> HIDE DEF rest, dead
  <2> QED
    BY <1>1 DEF TypeOK, Task
<1>4. /\ ok \/ ~socket[c].alive
      /\ heard' = IF ok /\ socket[c].alive /\ r.news \in SaleStatuses
                  THEN [heard EXCEPT ![c] = r.news] ELSE heard
      /\ told' = IF ok /\ socket[c].alive /\ r.news \in Ids
                 THEN told \cup {r.news} ELSE told
  BY <1>2
<1>5. \/ /\ rest = {}
         /\ registry' = [registry EXCEPT ![r.at][r.channel] = Survivors(@, dead)]
         /\ task' = [task EXCEPT ![h] =
              Next1([r EXCEPT !.todo = {}, !.dead = {}], r.next)]
      \/ /\ rest # {} /\ registry' = registry
         /\ task' = [task EXCEPT ![h] = [r EXCEPT !.todo = rest, !.dead = dead]]
  BY <1>2, <1>3
<1> QED
  BY <1>4, <1>5

\* What busy handlers do keeps the registries right.
LEMMA TaskRegistry ==
  ASSUME TypeOK, RegistryInv, NEW h \in Handlers, Begin(h) \/ Proceed(h) \/ Raise(h)
  PROVE  RegistryInv'
<1>1. socket' = socket
  BY DEF Begin, Proceed, Raise, WriteStatus, Copy, Send, Record, ReadOne, ListUnread, Mark
<1>2. ASSUME ~Send(h) PROVE registry' = registry
  BY <1>2 DEF Begin, Proceed, Raise, WriteStatus, Copy, Record, ReadOne, ListUnread, Mark
<1>3. ASSUME ~Send(h)
      PROVE  task' = [task EXCEPT ![h] = task'[h]] /\
             (task'[h] # Idle =>
                \/ task'[h].dead = {}
                \/ task[h] # Idle /\ task'[h].dead = task[h].dead)
  <2>1. CASE Begin(h)
    BY <2>1 DEF Begin, TypeOK
  <2>2. CASE ~Begin(h)
    <3>1. task[h] \in Task
      BY <2>2, BusyTask DEF Proceed, Raise, WriteStatus, Copy, Send, Record, ReadOne,
                            ListUnread, Mark, At
    <3>2. CASE WriteStatus(h)
      <4>1. PICK n \in AfterWrite(task[h]) : task' = [task EXCEPT ![h] = n]
        BY <3>2 DEF WriteStatus
      <4>2. n # Idle => n.dead = task[h].dead
        BY <3>1, <4>1 DEF AfterWrite, Task
      <4> QED
        BY <3>1, <4>1, <4>2, TaskNotIdle DEF TypeOK
    <3>3. CASE Copy(h)
      BY <3>1, <3>3, TaskNotIdle DEF Copy, Next1, Task, TypeOK
    <3>4. CASE Record(h)
      <4>1. CASE task' = [task EXCEPT ![h] = Idle]
        BY <4>1 DEF TypeOK
      <4>2. ASSUME NEW n \in Ids, task' = [task EXCEPT ![h] = [task[h] EXCEPT
                     !.step = "copy", !.channel = "user", !.news = n, !.next = "end"]]
            PROVE  task' = [task EXCEPT ![h] = task'[h]] /\ task'[h].dead = task[h].dead
        BY <3>1, <4>2 DEF Task, TypeOK
      <4> QED
        BY <3>1, <3>4, <4>1, <4>2, TaskNotIdle DEF Record
    <3>5. CASE ReadOne(h)
      BY <3>1, <3>5, TaskNotIdle DEF ReadOne, Next1, Task, TypeOK
    <3>6. CASE ListUnread(h)
      BY <3>1, <3>6, TaskNotIdle DEF ListUnread, Next1, Task, TypeOK
    <3>7. CASE Mark(h)
      BY <3>1, <3>7, TaskNotIdle DEF Mark, Next1, Task, TypeOK
    <3>8. CASE Raise(h)
      BY <3>1, <3>8, TaskNotIdle DEF Raise, Next1, Task, TypeOK
    <3> QED
      BY <1>3, <2>2, <3>2, <3>3, <3>4, <3>5, <3>6, <3>7, <3>8 DEF Proceed
  <2> QED
    BY <2>1, <2>2
<1>4. CASE ~Send(h)
  <2>1. DeadAreGone'
    <3> SUFFICES ASSUME NEW g \in Handlers, task'[g] # Idle, NEW c \in task'[g].dead
                 PROVE  ~socket'[c].alive
      BY DEF DeadAreGone
    <3>1. task[g] # Idle /\ c \in task[g].dead
      BY <1>3, <1>4 DEF TypeOK
    <3> QED
      BY <1>1, <3>1 DEF RegistryInv, DeadAreGone
  <2> QED
    BY <1>1, <1>2, <1>4, <2>1 DEF RegistryInv, OpenIsRegistered, RegisteredIsAttended
<1>5. CASE Send(h)
  <2> DEFINE r == task[h]
  <2>1. r \in Task /\ r # Idle
    BY <1>5, BusyTask DEF Send, At
  <2>2. PICK c \in r.todo, ok \in BOOLEAN :
          LET dead == IF ok THEN r.dead ELSE r.dead \cup {c}
              rest == Rest(r, c, ok)
          IN /\ ok \/ ~socket[c].alive
             /\ \/ /\ registry' = [registry EXCEPT ![r.at][r.channel] =
                                      Survivors(@, dead)]
                   /\ task' = [task EXCEPT ![h] =
                        Next1([r EXCEPT !.todo = {}, !.dead = {}], r.next)]
                \/ /\ registry' = registry
                   /\ task' = [task EXCEPT ![h] =
                        [r EXCEPT !.todo = rest, !.dead = dead]]
    BY <1>5, SendSteps
  <2> DEFINE dead == IF ok THEN r.dead ELSE r.dead \cup {c}
  <2>3. \A d \in dead : ~socket[d].alive
    BY <2>1, <2>2 DEF RegistryInv, DeadAreGone
  <2>4. r.at \in Instances /\ r.channel \in Channels
    BY <2>1 DEF Task
  <2>5. \A i \in Instances, ch \in Channels :
          /\ registry'[i][ch] \subseteq registry[i][ch]
          /\ registry[i][ch] \subseteq registry'[i][ch] \cup dead
    <3>1. registry \in [Instances -> [Channels -> SUBSET Connections]]
      BY DEF TypeOK
    <3> QED
      BY <2>2, <2>4, <3>1 DEF Survivors
  <2>6. DeadAreGone'
    <3> SUFFICES ASSUME NEW g \in Handlers, task'[g] # Idle, NEW d \in task'[g].dead
                 PROVE  ~socket[d].alive
      BY <1>1 DEF DeadAreGone
    <3>1. g # h => task'[g] = task[g]
      BY <2>2 DEF TypeOK
    <3>2. CASE task' = [task EXCEPT ![h] =
                  Next1([r EXCEPT !.todo = {}, !.dead = {}], r.next)]
      BY <2>1, <3>2 DEF Next1, Task, TypeOK, RegistryInv, DeadAreGone
    <3>3. CASE task' = [task EXCEPT ![h] =
                  [r EXCEPT !.todo = Rest(r, c, ok), !.dead = dead]]
      <4>1. g = h => d \in dead
        <5> HIDE DEF dead
        <5> QED
          BY <2>1, <3>3 DEF Task, TypeOK
      <4> QED
        BY <2>3, <3>1, <4>1 DEF RegistryInv, DeadAreGone
    <3> QED
      BY <2>2, <3>2, <3>3
  <2>7. OpenIsRegistered'
    <3> SUFFICES ASSUME NEW d \in Connections, socket[d].alive,
                        socket[d].state \in {"registered", "open"}
                 PROVE  d \in registry'[socket[d].at][socket[d].channel]
      BY <1>1 DEF OpenIsRegistered
    <3>1. d \in registry[socket[d].at][socket[d].channel]
      BY DEF RegistryInv, OpenIsRegistered
    <3>2. socket[d].at \in Instances /\ socket[d].channel \in Channels
      BY DEF TypeOK, Socket
    <3> QED
      BY <2>3, <2>5, <3>1, <3>2
  <2>8. RegisteredIsAttended'
    BY <1>1, <2>5 DEF RegistryInv, RegisteredIsAttended
  <2> QED
    BY <2>6, <2>7, <2>8 DEF RegistryInv
<1> QED
  BY <1>4, <1>5

LEMMA CrashRegistry ==
  ASSUME TypeOK, RegistryInv, NEW i \in Instances, Crash(i)
  PROVE  RegistryInv'
<1> DEFINE lost == {c \in Connections : socket[c].state # "new" /\ socket[c].at = i}
<1>1. \A c \in Connections :
        /\ socket'[c].at = socket[c].at /\ socket'[c].channel = socket[c].channel
        /\ socket'[c].alive => socket[c].alive
        /\ c \in lost => ~socket'[c].alive /\ socket'[c].state = "over"
        /\ c \notin lost => socket'[c] = socket[c]
  BY DEF Crash, TypeOK, Socket
<1>2. \A h \in Handlers : task'[h] # Idle => task'[h] = task[h]
  BY DEF Crash, TypeOK
<1>3. \A j \in Instances, ch \in Channels :
        registry'[j][ch] = IF j = i THEN {} ELSE registry[j][ch]
  BY DEF Crash, TypeOK
<1>4. DeadAreGone'
  <2> SUFFICES ASSUME NEW h \in Handlers, task'[h] # Idle, NEW c \in task'[h].dead
               PROVE  ~socket'[c].alive
    BY DEF DeadAreGone
  <2>1. task[h] # Idle /\ c \in task[h].dead
    BY <1>2
  <2>2. c \in Connections
    BY <2>1 DEF TypeOK, Task
  <2> QED
    BY <1>1, <2>1, <2>2 DEF RegistryInv, DeadAreGone
<1>5. OpenIsRegistered'
  <2> SUFFICES ASSUME NEW c \in Connections, socket'[c].alive,
                      socket'[c].state \in {"registered", "open"}
               PROVE  c \in registry'[socket'[c].at][socket'[c].channel]
    BY DEF OpenIsRegistered
  <2>1. c \notin lost /\ socket'[c] = socket[c]
    BY <1>1
  <2>2. c \in registry[socket[c].at][socket[c].channel] /\ socket[c].at # i
    BY <2>1 DEF RegistryInv, OpenIsRegistered
  <2>3. socket[c].at \in Instances /\ socket[c].channel \in Channels
    BY DEF TypeOK, Socket
  <2> QED
    BY <1>3, <2>1, <2>2, <2>3
<1>6. RegisteredIsAttended'
  <2> SUFFICES ASSUME NEW j \in Instances, NEW ch \in Channels, NEW c \in registry'[j][ch]
               PROVE  /\ socket'[c].channel = ch /\ socket'[c].at = j
                      /\ socket'[c].state \in {"registered", "open"}
    BY DEF RegisteredIsAttended
  <2>1. j # i /\ c \in registry[j][ch]
    BY <1>3
  <2>2. c \in Connections
    BY <2>1 DEF TypeOK
  <2>3. /\ socket[c].channel = ch /\ socket[c].at = j
        /\ socket[c].state \in {"registered", "open"}
    BY <2>1 DEF RegistryInv, RegisteredIsAttended
  <2> QED
    BY <1>1, <2>1, <2>2, <2>3
<1> QED
  BY <1>4, <1>5, <1>6 DEF RegistryInv

LEMMA NextRegistry == TypeOK /\ RegistryInv /\ [Next]_vars => RegistryInv'
<1> SUFFICES ASSUME TypeOK, RegistryInv, [Next]_vars PROVE RegistryInv'
  OBVIOUS
<1>1. CASE UNCHANGED vars
  BY <1>1 DEF vars, RegistryInv, DeadAreGone, OpenIsRegistered, RegisteredIsAttended
<1>2. CASE \E h \in Handlers : Begin(h) \/ Proceed(h) \/ Raise(h)
  BY <1>2, TaskRegistry
<1>3. CASE \E c \in Connections : Open(c) \/ Attend(c) \/ Close(c)
  BY <1>3, SocketRegistry DEF Attend
<1>4. CASE \E i \in Instances : Crash(i)
  BY <1>4, CrashRegistry
<1> QED
  BY <1>1, <1>2, <1>3, <1>4 DEF Next, Fail

\* No broadcast, however late, drops a connection that is open.
THEOREM NobodyDropped == Spec => []OpenIsRegistered
<1>1. RegistryInv => OpenIsRegistered
  BY DEF RegistryInv
<1> QED
  BY <1>1, InitType, NextType, InitRegistry, NextRegistry, PTL DEF Spec

\* No connection whose handler has ended stays registered.
THEOREM NobodyLeftBehind == Spec => []RegisteredIsAttended
<1>1. RegistryInv => RegisteredIsAttended
  BY DEF RegistryInv
<1> QED
  BY <1>1, InitType, NextType, InitRegistry, NextRegistry, PTL DEF Spec
-----------------------------------------------------------------------------
(***************************************************************************)
(* Steps, by what they do to the request that takes them.                  *)
(***************************************************************************)

\* A request changes no other.
LEMMA OthersStay ==
  ASSUME TypeOK, NEW h \in Handlers, Begin(h) \/ Proceed(h) \/ Raise(h)
  PROVE  \A g \in Handlers \ {h} : task'[g] = task[g]
<1>1. CASE Begin(h) \/ Copy(h) \/ Record(h) \/ Raise(h)
  BY <1>1 DEF Begin, Copy, Record, Raise, TypeOK
<1>2. CASE ReadOne(h) \/ ListUnread(h) \/ Mark(h)
  BY <1>2 DEF ReadOne, ListUnread, Mark, TypeOK
<1>3. CASE WriteStatus(h)
  BY <1>3 DEF WriteStatus, TypeOK
<1>4. CASE Send(h)
  BY <1>4, SendSteps DEF TypeOK
<1> QED
  BY <1>1, <1>2, <1>3, <1>4 DEF Proceed

LEMMA RecordSteps ==
  ASSUME TypeOK, NEW h \in Handlers, Record(h)
  PROVE  \/ task'[h] = Idle /\ notifs' = notifs
         \/ \E n \in Ids :
              /\ notifs' = [notifs EXCEPT ![n] = "unread"]
              /\ task'[h] # Idle /\ task'[h].step = "copy" /\ task'[h].news = n
              /\ task'[h].op = task[h].op
<1>1. task[h] \in Task
  BY BusyTask DEF Record, At
<1>2. ASSUME NEW n \in Ids, task' = [task EXCEPT ![h] = [task[h] EXCEPT
               !.step = "copy", !.channel = "user", !.news = n, !.next = "end"]]
      PROVE  /\ task'[h] # Idle /\ task'[h].step = "copy" /\ task'[h].news = n
             /\ task'[h].op = task[h].op
  BY <1>1, <1>2 DEF Task, TypeOK, Idle
<1> QED
  BY <1>2 DEF Record, TypeOK

LEMMA Next1Fields ==
  ASSUME NEW r \in Task, NEW step
  PROVE  \/ step = "end" /\ Next1(r, step) = Idle
         \/ /\ step # "end" /\ Next1(r, step).step = step
            /\ Next1(r, step).op = r.op /\ Next1(r, step).at = r.at
            /\ Next1(r, step).news = r.news /\ Next1(r, step).ids = r.ids
            /\ Next1(r, step).asked = r.asked
BY DEF Next1, Task

LEMMA WriteSteps ==
  ASSUME TypeOK, NEW h \in Handlers, WriteStatus(h), task'[h] # Idle
  PROVE  /\ task'[h].op = task[h].op /\ task'[h].at = task[h].at
         /\ \/ task[h].step \in Silent /\ task'[h].news = task[h].news
                /\ task'[h].step \in {"refined", "priced"}
            \/ /\ task'[h].step = "copy" /\ task'[h].channel = "sale"
               /\ task'[h].news = status' /\ status' \in SaleStatuses
<1> DEFINE r == task[h]
<1>1. r \in Task /\ r.step \in DOMAIN Written /\ status' = Written[r.step]
  BY BusyTask DEF WriteStatus
<1>2. PICK n \in AfterWrite(r) : task' = [task EXCEPT ![h] = n]
  BY DEF WriteStatus
<1>3. task'[h] = n
  BY <1>2 DEF TypeOK
<1>4. CASE r.step = "processing"
  BY <1>1, <1>2, <1>3, <1>4 DEF AfterWrite, Task, Silent
<1>5. CASE r.step = "pricing"
  BY <1>1, <1>2, <1>3, <1>5 DEF AfterWrite, Task, Silent
<1>6. CASE r.step \in {"publish", "unpublish"}
  BY <1>2, <1>3, <1>6 DEF AfterWrite
<1>7. CASE r.step \notin {"processing", "pricing", "publish", "unpublish"}
  <2>1. PICK m \in AfterTelling(r.step) :
          n = [r EXCEPT !.step = "copy", !.channel = "sale",
                        !.news = Written[r.step], !.next = m]
    BY <1>2, <1>7 DEF AfterWrite
  <2> QED
    BY <1>1, <1>3, <2>1, WrittenStatus DEF Task
<1> QED
  BY <1>4, <1>5, <1>6, <1>7

LEMMA CopySteps ==
  ASSUME TypeOK, NEW h \in Handlers, Copy(h), task'[h] # Idle
  PROVE  /\ task'[h].op = task[h].op /\ task'[h].at = task[h].at
         /\ task'[h].news = task[h].news
         /\ task[h].step = "copy"
         /\ \/ task'[h].step = task[h].next
               /\ registry[task[h].at][task[h].channel] = {}
            \/ task'[h].step = "send" /\ task'[h].channel = task[h].channel
               /\ task'[h].todo = registry[task[h].at][task[h].channel]
<1>1. task[h] \in Task
  BY BusyTask DEF Copy, At
<1> QED
  BY <1>1 DEF Copy, At, Next1, Task, TypeOK

LEMMA SendTask ==
  ASSUME TypeOK, NEW h \in Handlers, Send(h), task'[h] # Idle
  PROVE  /\ task'[h].op = task[h].op /\ task'[h].at = task[h].at
         /\ task'[h].news = task[h].news
<1>1. task[h] \in Task
  BY BusyTask DEF Send, At
<1>2. [task[h] EXCEPT !.todo = {}, !.dead = {}] \in Task
  BY <1>1 DEF Task
<1> DEFINE next == Next1([task[h] EXCEPT !.todo = {}, !.dead = {}], task[h].next)
<1>3. \/ next = Idle
      \/ next.op = task[h].op /\ next.at = task[h].at /\ next.news = task[h].news
  BY <1>1 DEF Next1, Task
<1>4. ASSUME NEW rest, NEW dead, task' = [task EXCEPT ![h] =
                      [task[h] EXCEPT !.todo = rest, !.dead = dead]]
      PROVE  /\ task'[h].op = task[h].op /\ task'[h].at = task[h].at
             /\ task'[h].news = task[h].news
  BY <1>1, <1>4 DEF Task, TypeOK
<1>5. task' = [task EXCEPT ![h] = next] => task'[h] = next
  BY DEF TypeOK
<1> HIDE DEF next
<1>6. \/ task' = [task EXCEPT ![h] = next]
      \/ \E rest, dead : task' = [task EXCEPT ![h] =
                      [task[h] EXCEPT !.todo = rest, !.dead = dead]]
  BY SendSteps DEF next
<1> QED
  BY <1>3, <1>4, <1>5, <1>6

LEMMA RaiseSteps ==
  ASSUME TypeOK, NEW h \in Handlers, Raise(h), task'[h] # Idle
  PROVE  /\ task[h] # Idle /\ task'[h].step \in {"failed", "failedPricing"}
         /\ task'[h].op = task[h].op /\ task'[h].news = task[h].news
<1>1. task[h] \in Task /\ task'[h] = Next1(task[h], Caught(task[h]))
  BY BusyTask DEF Raise, TypeOK
<1> QED
  BY <1>1, CaughtStep, Next1Fields, TaskNotIdle DEF Raise
-----------------------------------------------------------------------------
(***************************************************************************)
(* Notification records: nobody is told of one that is not there, and who  *)
(* marks all of them as read leaves none of them unread.                   *)
(***************************************************************************)

NewsIsStored ==
  \A h \in Handlers :
    task[h] # Idle /\ task[h].news \in Ids => notifs[task[h].news] # "absent"

StoredInv == NewsIsStored /\ ToldIsStored

\* A record stays once it is there, and the news of h is there.
LEMMA NewsSteps ==
  ASSUME TypeOK, NewsIsStored,
         NEW h \in Handlers, Begin(h) \/ Proceed(h) \/ Raise(h)
  PROVE  /\ \A n \in Ids : notifs[n] # "absent" => notifs'[n] # "absent"
         /\ task'[h] # Idle /\ task'[h].news \in Ids => notifs'[task'[h].news] # "absent"
<1>1. ASSUME task[h] # Idle, task'[h] # Idle, notifs' = notifs, task'[h].news = task[h].news
      PROVE  notifs'[task'[h].news] # "absent" \/ task'[h].news \notin Ids
  BY <1>1 DEF NewsIsStored
<1>2. CASE Begin(h)
  <2>1. task'[h].news = Nothing /\ notifs' = notifs
    BY <1>2 DEF Begin, TypeOK
  <2> QED
    BY <2>1
<1>3. CASE WriteStatus(h)
  <2>1. notifs' = notifs /\ task[h] # Idle
    BY <1>3 DEF WriteStatus
  <2> QED
    BY <1>1, <1>3, <2>1, WriteSteps
<1>4. CASE Copy(h)
  BY <1>1, <1>4, CopySteps DEF Copy, At
<1>5. CASE Send(h)
  BY <1>1, <1>5, SendTask DEF Send, At
<1>6. CASE Record(h)
  BY <1>6, RecordSteps DEF TypeOK
<1>7. CASE ReadOne(h) \/ ListUnread(h)
  <2>1. task[h] \in Task /\ notifs' = notifs
    BY <1>7, BusyTask DEF ReadOne, ListUnread, At
  <2>2. task'[h] # Idle => task'[h].news = task[h].news
    <3>1. CASE ReadOne(h)
      BY <2>1, <3>1 DEF ReadOne, Next1, Task, TypeOK
    <3>2. CASE ListUnread(h)
      BY <2>1, <3>2 DEF ListUnread, Next1, Task, TypeOK
    <3> QED
      BY <1>7, <3>1, <3>2
  <2> QED
    BY <1>1, <2>1, <2>2, TaskNotIdle
<1>8. CASE Mark(h)
  <2>1. task[h] \in Task
    BY <1>8, BusyTask DEF Mark, At
  <2>2. task'[h] # Idle => task'[h].news = task[h].news
    BY <1>8, <2>1 DEF Mark, Next1, Task, TypeOK
  <2>3. \A n \in Ids : notifs[n] # "absent" => notifs'[n] # "absent"
    BY <1>8 DEF Mark, TypeOK
  <2> QED
    BY <2>1, <2>2, <2>3, TaskNotIdle DEF NewsIsStored
<1>9. CASE Raise(h)
  BY <1>1, <1>9, RaiseSteps DEF Raise
<1> QED
  BY <1>2, <1>3, <1>4, <1>5, <1>6, <1>7, <1>8, <1>9 DEF Proceed

LEMMA InitStored == Init => StoredInv
BY DEF Init, StoredInv, NewsIsStored, ToldIsStored

LEMMA NextStored == TypeOK /\ StoredInv /\ [Next]_vars => StoredInv'
<1> SUFFICES ASSUME TypeOK, StoredInv, [Next]_vars PROVE StoredInv'
  OBVIOUS
<1>1. CASE UNCHANGED vars
  BY <1>1 DEF vars, StoredInv, NewsIsStored, ToldIsStored
<1>2. ASSUME NEW h \in Handlers, Begin(h) \/ Proceed(h) \/ Raise(h) PROVE StoredInv'
  <2>1. NewsIsStored'
    BY <1>2, OthersStay, NewsSteps DEF StoredInv, NewsIsStored, TypeOK
  <2>2. told' \subseteq told \cup (IF task[h] = Idle THEN {} ELSE {task[h].news} \cap Ids)
    <3>1. CASE Send(h)
      BY <3>1, SendSteps DEF Send, At
    <3>2. CASE ~Send(h)
      BY <1>2, <3>2 DEF Begin, Proceed, Raise, WriteStatus, Copy, Record, ReadOne,
                        ListUnread, Mark
    <3> QED
      BY <3>1, <3>2
  <2>3. ToldIsStored'
    BY <1>2, <2>2, NewsSteps DEF StoredInv, NewsIsStored, ToldIsStored, TypeOK
  <2> QED
    BY <2>1, <2>3 DEF StoredInv
<1>3. CASE \E c \in Connections : Open(c) \/ Attend(c) \/ Close(c)
  <2>1. UNCHANGED <<notifs, told, task>>
    BY <1>3 DEF Open, Attend, Register, Greet, Close, Leave
  <2> QED
    BY <2>1 DEF StoredInv, NewsIsStored, ToldIsStored
<1>4. CASE \E i \in Instances : Crash(i)
  <2>1. UNCHANGED <<notifs, told>> /\ \A h \in Handlers : task'[h] # Idle => task'[h] = task[h]
    BY <1>4 DEF Crash
  <2> QED
    BY <2>1 DEF StoredInv, NewsIsStored, ToldIsStored
<1> QED
  BY <1>1, <1>2, <1>3, <1>4 DEF Next, Fail

\* A client told of a notification finds it when it asks for the list.
THEOREM NoEmptyAlarm == Spec => []ToldIsStored
<1>1. StoredInv => ToldIsStored
  BY DEF StoredInv
<1> QED
  BY <1>1, InitType, NextType, InitStored, NextStored, PTL DEF Spec

\* A request that marks all: what was unread when it came is read, or still
\* to be marked.
MarkingAll ==
  \A h \in Handlers :
    task[h] # Idle /\ task[h].op = "mark_all_read" =>
      /\ task[h].step \in {"listUnread", "mark"}
      /\ \A n \in task[h].asked :
           /\ notifs[n] # "absent"
           /\ \/ task[h].step = "listUnread" \/ notifs[n] = "read"
              \/ n \in task[h].ids

\* Whatever a request does, what is read stays read.
LEMMA ReadStays ==
  ASSUME TypeOK, NEW h \in Handlers, Begin(h) \/ Proceed(h) \/ Raise(h), NEW n \in Ids
  PROVE  /\ notifs[n] = "read" => notifs'[n] = "read"
         /\ notifs[n] # "absent" => notifs'[n] # "absent"
<1>1. CASE Record(h)
  BY <1>1 DEF Record, TypeOK
<1>2. CASE Mark(h)
  BY <1>2 DEF Mark, TypeOK
<1>3. CASE ~Record(h) /\ ~Mark(h)
  BY <1>3 DEF Begin, Proceed, Raise, WriteStatus, Copy, Send, ReadOne, ListUnread
<1> QED
  BY <1>1, <1>2, <1>3

LEMMA BeginSteps ==
  ASSUME TypeOK, NEW h \in Handlers, Begin(h)
  PROVE  \E op \in EnabledOps, i \in Instances, n \in Ids \cup {Nothing} :
           task'[h] = [op |-> op, at |-> i, step |-> FirstStep(op), next |-> "record",
             channel |-> "user", news |-> Nothing, todo |-> {}, dead |-> {},
             ids |-> {n} \ {Nothing}, asked |-> Unread]
BY DEF Begin, TypeOK

\* The step of a request that marks all.
LEMMA MarkingSteps ==
  ASSUME TypeOK, MarkingAll, NEW h \in Handlers, task[h] # Idle,
         task[h].op = "mark_all_read", Proceed(h)
  PROVE  LET r == task[h]
             s == task'[h]
         IN \/ ListUnread(h) /\ notifs' = notifs
               /\ \/ s = Idle /\ Unread = {}
                  \/ s.step = "mark" /\ s.ids = Unread /\ s.asked = r.asked
            \/ /\ Mark(h)
               /\ \E n \in r.ids :
                    /\ notifs' = [notifs EXCEPT ![n] = "read"]
                    /\ \/ s = Idle /\ r.ids \ {n} = {}
                       \/ s.step = "mark" /\ s.ids = r.ids \ {n} /\ s.asked = r.asked
<1>1. task[h] \in Task /\ task[h].step \in {"listUnread", "mark"}
  BY BusyTask DEF MarkingAll
<1>2. CASE ListUnread(h)
  <2> DEFINE r == [task[h] EXCEPT !.ids = Unread]
  <2>1. r \in Task
    BY <1>1 DEF Task, Unread
  <2>2. r.ids = Unread /\ r.asked = task[h].asked
    BY <1>1 DEF Task
  <2>3. task'[h] = Next1(r, IF Unread = {} THEN "end" ELSE "mark") /\ notifs' = notifs
    BY <1>2 DEF ListUnread, TypeOK
  <2> HIDE DEF r
  <2> QED
    BY <1>2, <2>1, <2>2, <2>3, Next1Fields
<1>3. CASE Mark(h)
  <2>1. PICK n \in task[h].ids :
          /\ notifs' = [notifs EXCEPT ![n] = "read"]
          /\ task' = [task EXCEPT ![h] =
               Next1([task[h] EXCEPT !.ids = Unmarked(task[h], n)],
                     IF Unmarked(task[h], n) = {} THEN "end" ELSE "mark")]
    BY <1>3 DEF Mark
  <2>2. task'[h] = Next1([task[h] EXCEPT !.ids = Unmarked(task[h], n)],
                     IF Unmarked(task[h], n) = {} THEN "end" ELSE "mark")
    BY <2>1 DEF TypeOK
  <2>3. \/ task'[h] = Idle /\ task[h].ids \ {n} = {}
        \/ /\ task'[h].step = "mark" /\ task'[h].ids = task[h].ids \ {n}
           /\ task'[h].asked = task[h].asked
    BY <1>1, <2>2 DEF Unmarked, Next1, Task
  <2> QED
    BY <1>3, <2>1, <2>3
<1>4. ~WriteStatus(h) /\ ~Copy(h) /\ ~Send(h) /\ ~Record(h) /\ ~ReadOne(h)
  BY <1>1, WrittenStatus DEF WriteStatus, Copy, Send, Record, ReadOne, At
<1> QED
  BY <1>2, <1>3, <1>4 DEF Proceed

\* A request that marks all and fails, ends.
LEMMA MarkingFails ==
  ASSUME TypeOK, MarkingAll, NEW h \in Handlers, task[h] # Idle,
         task[h].op = "mark_all_read", Raise(h)
  PROVE  task'[h] = Idle
<1>1. task[h].step \in {"listUnread", "mark"}
  BY DEF MarkingAll
<1>2. Caught(task[h]) = "end"
  BY <1>1 DEF Caught
<1> QED
  BY <1>2 DEF Raise, Next1, TypeOK

\* Only a request that marks all has that name.
LEMMA MarkingStays ==
  ASSUME TypeOK, NEW h \in Handlers, task[h] # Idle, task'[h] # Idle,
         Proceed(h) \/ Raise(h)
  PROVE  task'[h].op = task[h].op
<1>1. task[h] \in Task
  BY BusyTask
<1>2. CASE ReadOne(h)
  BY <1>1, <1>2 DEF ReadOne, Next1, Task, TypeOK
<1>3. CASE ListUnread(h)
  BY <1>1, <1>3 DEF ListUnread, Next1, Task, TypeOK
<1>4. CASE Mark(h)
  BY <1>1, <1>4 DEF Mark, Next1, Task, TypeOK
<1>5. CASE Record(h)
  BY <1>5, RecordSteps
<1> QED
  BY <1>2, <1>3, <1>4, <1>5, WriteSteps, CopySteps, SendTask, RaiseSteps DEF Proceed

LEMMA NextMarking == TypeOK /\ MarkingAll /\ [Next]_vars => MarkingAll'
<1> SUFFICES ASSUME TypeOK, MarkingAll, [Next]_vars PROVE MarkingAll'
  OBVIOUS
<1>1. CASE UNCHANGED vars
  BY <1>1 DEF vars, MarkingAll
<1>2. ASSUME NEW h \in Handlers, Begin(h) \/ Proceed(h) \/ Raise(h) PROVE MarkingAll'
  <2> SUFFICES ASSUME NEW g \in Handlers, task'[g] # Idle, task'[g].op = "mark_all_read"
               PROVE  /\ task'[g].step \in {"listUnread", "mark"}
                      /\ \A n \in task'[g].asked :
                           /\ notifs'[n] # "absent"
                           /\ \/ task'[g].step = "listUnread" \/ notifs'[n] = "read"
                              \/ n \in task'[g].ids
    BY DEF MarkingAll
  <2>1. CASE g # h
    <3>1. task'[g] = task[g] /\ task[g] \in Task
      BY <1>2, <2>1, OthersStay, BusyTask
    <3> QED
      BY <1>2, <3>1, ReadStays DEF MarkingAll, Task
  <2>2. CASE g = h /\ Begin(h)
    BY <2>2, BeginSteps DEF Begin, FirstStep, Unread, RunOps
  <2>3. CASE g = h /\ ~Begin(h)
    <3>1. task[h] # Idle
      BY <1>2, <2>3 DEF Proceed, Raise, WriteStatus, Copy, Send, Record, ReadOne,
                        ListUnread, Mark, At
    <3>2. task[h].op = "mark_all_read" /\ task[h] \in Task
      BY <1>2, <2>3, <3>1, MarkingStays, BusyTask
    <3>3. task[h].ids \subseteq Ids /\ task[h].asked \subseteq Ids
      BY <3>2 DEF Task
    <3>4. Proceed(h)
      BY <1>2, <2>3, <3>1, <3>2, MarkingFails
    <3>5. CASE /\ notifs' = notifs
               /\ task'[h].step = "mark" /\ task'[h].ids = Unread
               /\ task'[h].asked = task[h].asked
      BY <2>3, <3>1, <3>2, <3>3, <3>5 DEF MarkingAll, Unread, TypeOK
    <3>6. ASSUME NEW n \in task[h].ids,
                 /\ notifs' = [notifs EXCEPT ![n] = "read"]
                 /\ task'[h].step = "mark" /\ task'[h].ids = task[h].ids \ {n}
                 /\ task'[h].asked = task[h].asked,
                 task[h].step = "mark"
          PROVE  /\ task'[h].step = "mark"
                 /\ \A m \in task'[h].asked : /\ notifs'[m] # "absent"
                                              /\ notifs'[m] = "read" \/ m \in task'[h].ids
      BY <3>1, <3>2, <3>3, <3>6 DEF MarkingAll, TypeOK
    <3> QED
      BY <2>3, <3>1, <3>2, <3>4, <3>5, <3>6, MarkingSteps DEF Mark, At
  <2> QED
    BY <2>1, <2>2, <2>3
<1>3. CASE \E c \in Connections : Open(c) \/ Attend(c) \/ Close(c)
  <2>1. UNCHANGED <<notifs, task>>
    BY <1>3 DEF Open, Attend, Register, Greet, Close, Leave
  <2> QED
    BY <2>1 DEF MarkingAll
<1>4. CASE \E i \in Instances : Crash(i)
  <2>1. UNCHANGED notifs /\ \A h \in Handlers : task'[h] # Idle => task'[h] = task[h]
    BY <1>4 DEF Crash
  <2> QED
    BY <2>1 DEF MarkingAll
<1> QED
  BY <1>1, <1>2, <1>3, <1>4 DEF Next, Fail

\* A request that marks all leaves none unread that was unread when it came.
THEOREM NoneLeftUnread == Spec => AllMarked
<1>1. Init => MarkingAll
  BY DEF Init, MarkingAll
<1> DEFINE Step ==
      \A h \in Handlers :
       (/\ task[h] # Idle /\ task[h].op = "mark_all_read"
        /\ task'[h] = Idle /\ ~Fail)
         => \A n \in task[h].asked : notifs'[n] = "read"
<1>2. TypeOK /\ MarkingAll /\ [Next]_vars => [Step]_vars
  <2> SUFFICES ASSUME TypeOK, MarkingAll, Next, NEW h \in Handlers,
                      task[h] # Idle, task[h].op = "mark_all_read",
                      task'[h] = Idle, ~Fail
               PROVE  \A n \in task[h].asked : notifs'[n] = "read"
    OBVIOUS
  <2>1. PICK g \in Handlers : Begin(g) \/ Proceed(g)
    <3>1. ASSUME NEW c \in Connections, Open(c) \/ Attend(c) \/ Close(c) PROVE FALSE
      BY <3>1 DEF Open, Attend, Register, Greet, Close, Leave
    <3> QED
      BY <3>1 DEF Next
  <2>2. g = h /\ Proceed(h)
    BY <2>1, OthersStay DEF Begin
  <2>3. task[h].asked \subseteq Ids /\ task[h].ids \subseteq Ids
    BY BusyTask DEF Task
  <2>4. CASE notifs' = notifs /\ Unread = {}
    BY <2>3, <2>4 DEF MarkingAll, Unread, TypeOK
  <2>5. ASSUME NEW n \in task[h].ids, notifs' = [notifs EXCEPT ![n] = "read"],
               task[h].ids \ {n} = {}, task[h].step = "mark"
        PROVE  \A m \in task[h].asked : notifs'[m] = "read"
    BY <2>3, <2>5 DEF MarkingAll, TypeOK
  <2>6. "mark" # "idle"
    OBVIOUS
  <2> QED
    BY <2>2, <2>4, <2>5, <2>6, MarkingSteps DEF Mark, At, Idle
<1> QED
  BY <1>1, <1>2, InitType, NextType, NextMarking, PTL DEF Spec, AllMarked
-----------------------------------------------------------------------------
(***************************************************************************)
(* The status stream: whoever was there when the status changed hears it.  *)
(***************************************************************************)

\* Statuses go to the streams of the sale, and while some connection is due,
\* nothing but the present one is announced.
NewsOfTheSale ==
  \A h \in Handlers : Announcing(h) =>
    /\ task[h].channel = "sale"
    /\ due # {} => task[h].news = status

DueAreOpen ==
  \A c \in due : /\ socket[c].channel = "sale" /\ socket[c].alive
                 /\ socket[c].state = "open"

\* h is still to send the status to c.
Reaches(h, c) ==
  /\ Announcing(h) /\ task[h].at = socket[c].at
  /\ task[h].step = "copy" \/ c \in task[h].todo

DueWillHear ==
  \A c \in due : heard[c] = status \/ \E h \in Handlers : Reaches(h, c)

HearInv == NewsOfTheSale /\ DueAreOpen /\ DueWillHear

LEMMA InitHear == Init => HearInv
BY DEF Init, HearInv, NewsOfTheSale, DueAreOpen, DueWillHear, Announcing

\* A step of h with which it neither announces nor did announce anything.
LEMMA QuietHear ==
  ASSUME TypeOK, HearInv, NEW h \in Handlers, Begin(h) \/ Proceed(h) \/ Raise(h),
         ~Announcing(h)', due' \subseteq due, due' # {} => ~Announcing(h),
         UNCHANGED <<status, socket, heard>>
  PROVE  HearInv'
<1>1. \A g \in Handlers \ {h} : task'[g] = task[g]
  BY OthersStay
<1>2. NewsOfTheSale'
  BY <1>1 DEF HearInv, NewsOfTheSale, Announcing
<1>3. DueAreOpen'
  BY DEF HearInv, DueAreOpen
<1>4. DueWillHear'
  <2> SUFFICES ASSUME NEW c \in due', heard[c] # status
               PROVE  \E g \in Handlers : Reaches(g, c)'
    BY DEF DueWillHear
  <2>1. PICK g \in Handlers : Reaches(g, c)
    BY DEF HearInv, DueWillHear
  <2>2. g # h /\ task'[g] = task[g]
    BY <1>1, <2>1 DEF Reaches
  <2> QED
    BY <2>1, <2>2 DEF Reaches, Announcing
<1> QED
  BY <1>2, <1>3, <1>4 DEF HearInv

\* Which steps are such.
LEMMA QuietSteps ==
  ASSUME TypeOK, NEW h \in Handlers,
         \/ Begin(h) \/ Record(h) \/ ReadOne(h) \/ ListUnread(h) \/ Mark(h) \/ Raise(h)
  PROVE  /\ ~Announcing(h)' /\ due' \subseteq due
         /\ due' # {} => ~Announcing(h)
         /\ UNCHANGED <<status, socket, heard>>
<1>1. CASE Begin(h)
  <2>1. task'[h].news = Nothing
    BY <1>1 DEF Begin, TypeOK
  <2> QED
    BY <1>1, <2>1 DEF Begin, Announcing, SaleStatuses, Nothing
<1>2. CASE Record(h)
  BY <1>2, RecordSteps DEF Record, At, Announcing
<1>3. CASE ReadOne(h)
  <2>1. task[h] \in Task
    BY <1>3, BusyTask DEF ReadOne, At
  <2>2. task'[h] = Idle \/ task'[h].step = "mark"
    BY <1>3, <2>1, Next1Fields DEF ReadOne, TypeOK
  <2> QED
    BY <1>3, <2>2 DEF ReadOne, At, Announcing
<1>4. CASE ListUnread(h)
  <2>1. [task[h] EXCEPT !.ids = Unread] \in Task
    BY <1>4, BusyTask DEF ListUnread, At, Task, Unread
  <2>2. task'[h] = Idle \/ task'[h].step = "mark"
    BY <1>4, <2>1, Next1Fields DEF ListUnread, TypeOK
  <2> QED
    BY <1>4, <2>2 DEF ListUnread, At, Announcing
<1>5. CASE Mark(h)
  <2>1. task[h] \in Task
    BY <1>5, BusyTask DEF Mark, At
  <2>2. task'[h] = Idle \/ task'[h].step = "mark"
    <3>1. PICK n \in task[h].ids :
            task' = [task EXCEPT ![h] =
               Next1([task[h] EXCEPT !.ids = Unmarked(task[h], n)],
                     IF Unmarked(task[h], n) = {} THEN "end" ELSE "mark")]
      BY <1>5 DEF Mark
    <3>2. [task[h] EXCEPT !.ids = Unmarked(task[h], n)] \in Task
      BY <2>1 DEF Unmarked, Task
    <3> QED
      BY <3>1, <3>2, Next1Fields DEF TypeOK
  <2> QED
    BY <1>5, <2>2 DEF Mark, At, Announcing
<1>6. CASE Raise(h)
  BY <1>6, RaiseSteps DEF Raise, Announcing
<1> QED
  BY <1>1, <1>2, <1>3, <1>4, <1>5, <1>6

LEMMA WriteHear ==
  ASSUME TypeOK, HearInv, NEW h \in Handlers, WriteStatus(h)
  PROVE  HearInv'
<1> DEFINE r == task[h]
<1>1. /\ r \in Task /\ r # Idle /\ r.step \in DOMAIN Written
      /\ UNCHANGED <<socket, heard>>
  BY BusyTask DEF WriteStatus
<1>2. \A g \in Handlers \ {h} : task'[g] = task[g]
  BY OthersStay DEF Proceed
<1>3. \/ due' = {}
      \/ /\ r.step \notin Silent /\ \A g \in Handlers \ {h} : ~Announcing(g)
         /\ due' = Listening(r.at)
  BY DEF WriteStatus
<1>4. Announcing(h)' => task'[h].channel = "sale" /\ task'[h].news = status'
  BY WriteSteps DEF Announcing
<1>5. NewsOfTheSale'
  BY <1>2, <1>3, <1>4 DEF HearInv, NewsOfTheSale, Announcing
<1>6. DueAreOpen'
  BY <1>1, <1>3 DEF DueAreOpen, Listening
<1>7. DueWillHear'
  <2> SUFFICES ASSUME NEW c \in due' PROVE Reaches(h, c)'
    BY DEF DueWillHear
  <2>1. r.step \notin Silent /\ c \in Listening(r.at)
    BY <1>3
  <2>2. task'[h] # Idle
    <3>1. PICK n \in AfterWrite(r) : task' = [task EXCEPT ![h] = n]
      BY DEF WriteStatus
    <3>2. PICK m \in AfterTelling(r.step) :
            n = [r EXCEPT !.step = "copy", !.channel = "sale",
                          !.news = Written[r.step], !.next = m]
      BY <2>1, <3>1 DEF AfterWrite, Silent
    <3>3. n.step = "copy"
      BY <1>1, <3>2 DEF Task
    <3> QED
      BY <3>1, <3>3 DEF Idle, TypeOK
  <2> QED
    BY <1>1, <2>1, <2>2, WriteSteps DEF Reaches, Announcing, Listening
<1> QED
  BY <1>5, <1>6, <1>7 DEF HearInv

LEMMA CopyHear ==
  ASSUME TypeOK, OpenIsRegistered, HearInv, NEW h \in Handlers, Copy(h)
  PROVE  HearInv'
<1>1. /\ task[h] \in Task /\ task[h] # Idle /\ task[h].step = "copy"
      /\ UNCHANGED <<status, socket, heard, due>>
  BY BusyTask DEF Copy, At
<1>2. \A g \in Handlers \ {h} : task'[g] = task[g]
  BY OthersStay DEF Proceed
<1>3. task[h].next \in {"pricing", "record", "end"}
  BY <1>1 DEF Task
<1>4. NewsOfTheSale'
  BY <1>1, <1>2, <1>3, CopySteps DEF HearInv, NewsOfTheSale, Announcing
<1>5. DueAreOpen'
  BY <1>1 DEF HearInv, DueAreOpen
<1>6. DueWillHear'
  <2> SUFFICES ASSUME NEW c \in due, heard[c] # status
               PROVE  \E g \in Handlers : Reaches(g, c)'
    BY <1>1 DEF DueWillHear
  <2>1. PICK g \in Handlers : Reaches(g, c)
    BY DEF HearInv, DueWillHear
  <2>2. CASE g # h
    BY <1>1, <1>2, <2>1, <2>2 DEF Reaches, Announcing
  <2>3. CASE g = h
    <3> DEFINE connections == registry[task[h].at][task[h].channel]
    <3>1. c \in connections
      BY <2>1, <2>3 DEF Reaches, HearInv, NewsOfTheSale, DueAreOpen, OpenIsRegistered,
                        TypeOK
    <3>2. task'[h] = [task[h] EXCEPT !.step = "send", !.todo = connections, !.dead = {}]
      BY <3>1 DEF Copy, TypeOK
    <3>3. /\ task'[h] # Idle /\ task'[h].step = "send" /\ task'[h].todo = connections
          /\ task'[h].news = task[h].news /\ task'[h].at = task[h].at
      BY <1>1, <3>2 DEF Task, Idle
    <3> QED
      BY <1>1, <2>1, <2>3, <3>1, <3>3 DEF Reaches, Announcing
  <2> QED
    BY <2>2, <2>3
<1> QED
  BY <1>4, <1>5, <1>6 DEF HearInv

\* A send ends the broadcast, or leaves the others to be sent to.
LEMMA SendLeaves ==
  ASSUME TypeOK, NEW h \in Handlers, Send(h)
  PROVE  /\ task[h] # Idle /\ task[h].step = "send"
         /\ UNCHANGED <<status, socket, due>>
         /\ \E c \in task[h].todo :
              /\ \/ ~socket[c].alive /\ heard' = heard
                 \/ /\ task[h].news \in SaleStatuses
                    /\ heard' = [heard EXCEPT ![c] = task[h].news]
                 \/ task[h].news \notin SaleStatuses /\ heard' = heard
              /\ \/ /\ task[h].todo \ {c} = {}
                    /\ task'[h] = Idle \/ task'[h].step \in {"pricing", "record"}
                 \/ /\ task'[h] # Idle /\ task'[h].step = "send"
                    /\ task'[h].todo = task[h].todo \ {c}
                    /\ task'[h].news = task[h].news /\ task'[h].at = task[h].at
                    /\ task'[h].channel = task[h].channel
<1>1. task[h] \in Task /\ task[h] # Idle /\ task[h].step = "send"
      /\ UNCHANGED <<status, socket, due>>
  BY BusyTask DEF Send, At
<1> DEFINE r == task[h]
<1>2. PICK c \in r.todo, ok \in BOOLEAN :
        LET dead == IF ok THEN r.dead ELSE r.dead \cup {c}
            rest == Rest(r, c, ok)
        IN /\ ok \/ ~socket[c].alive
           /\ heard' = IF ok /\ socket[c].alive /\ r.news \in SaleStatuses
                       THEN [heard EXCEPT ![c] = r.news] ELSE heard
           /\ \/ /\ rest = {}
                 /\ task' = [task EXCEPT ![h] =
                      Next1([r EXCEPT !.todo = {}, !.dead = {}], r.next)]
              \/ /\ rest # {}
                 /\ task' = [task EXCEPT ![h] =
                      [r EXCEPT !.todo = rest, !.dead = dead]]
  BY SendSteps
<1>3. \/ ~socket[c].alive /\ heard' = heard
      \/ /\ r.news \in SaleStatuses
         /\ heard' = [heard EXCEPT ![c] = r.news]
      \/ r.news \notin SaleStatuses /\ heard' = heard
  BY <1>2
<1>4. CASE task' = [task EXCEPT ![h] = Next1([r EXCEPT !.todo = {}, !.dead = {}], r.next)]
           /\ Rest(r, c, ok) = {}
  <2>1. [r EXCEPT !.todo = {}, !.dead = {}] \in Task /\ r.next \in {"pricing", "record", "end"}
    BY <1>1 DEF Task
  <2>2. task'[h] = Idle \/ task'[h].step \in {"pricing", "record"}
    BY <1>4, <2>1, Next1Fields DEF TypeOK
  <2> QED
    BY <1>1, <1>3, <1>4, <2>2 DEF Rest
<1>5. ASSUME NEW dead,
             task' = [task EXCEPT ![h] = [r EXCEPT !.todo = r.todo \ {c}, !.dead = dead]]
      PROVE  /\ task'[h].step = "send" /\ task'[h].todo = r.todo \ {c}
             /\ task'[h].news = r.news /\ task'[h].at = r.at
             /\ task'[h].channel = r.channel /\ task'[h] # Idle
  BY <1>1, <1>5 DEF Task, TypeOK, Idle
<1> QED
  BY <1>1, <1>2, <1>3, <1>4, <1>5 DEF Rest

LEMMA SendHear ==
  ASSUME TypeOK, HearInv, NEW h \in Handlers, Send(h)
  PROVE  HearInv'
<1>1. \A g \in Handlers \ {h} : task'[g] = task[g]
  BY OthersStay DEF Proceed
<1>2. /\ task[h] # Idle /\ task[h].step = "send"
      /\ UNCHANGED <<status, socket, due>>
  BY SendLeaves
<1>3. PICK d \in task[h].todo :
        /\ \/ ~socket[d].alive /\ heard' = heard
           \/ /\ task[h].news \in SaleStatuses
              /\ heard' = [heard EXCEPT ![d] = task[h].news]
           \/ task[h].news \notin SaleStatuses /\ heard' = heard
        /\ \/ /\ task[h].todo \ {d} = {}
              /\ task'[h] = Idle \/ task'[h].step \in {"pricing", "record"}
           \/ /\ task'[h] # Idle /\ task'[h].step = "send"
              /\ task'[h].todo = task[h].todo \ {d}
              /\ task'[h].news = task[h].news /\ task'[h].at = task[h].at
              /\ task'[h].channel = task[h].channel
  BY SendLeaves
<1>4. NewsOfTheSale'
  BY <1>1, <1>2, <1>3 DEF HearInv, NewsOfTheSale, Announcing
<1>5. DueAreOpen'
  BY <1>2 DEF HearInv, DueAreOpen
<1>6. DueWillHear'
  <2> SUFFICES ASSUME NEW c \in due
               PROVE  heard'[c] = status \/ \E g \in Handlers : Reaches(g, c)'
    BY <1>2 DEF DueWillHear
  <2>1. c \in Connections /\ socket[c].alive
    BY DEF HearInv, DueAreOpen, TypeOK
  <2>2. Announcing(h) => task[h].news = status
    BY DEF HearInv, NewsOfTheSale
  <2>3. CASE heard[c] = status
    BY <1>2, <1>3, <2>1, <2>2, <2>3 DEF Announcing, TypeOK
  <2>4. CASE \E g \in Handlers : Reaches(g, c)
    <3>1. PICK g \in Handlers : Reaches(g, c)
      BY <2>4
    <3>2. CASE g # h
      BY <1>1, <1>2, <3>1, <3>2 DEF Reaches, Announcing
    <3>3. CASE g = h /\ c = d
      BY <1>2, <1>3, <2>1, <2>2, <3>1, <3>3 DEF Reaches, Announcing, TypeOK
    <3>4. CASE g = h /\ c # d
      <4>1. c \in task[h].todo \ {d}
        BY <1>2, <3>1, <3>4 DEF Reaches
      <4>2. /\ task'[h] # Idle /\ task'[h].step = "send" /\ c \in task'[h].todo
            /\ task'[h].news = task[h].news /\ task'[h].at = task[h].at
        BY <1>3, <4>1
      <4> QED
        BY <1>2, <3>1, <3>4, <4>2 DEF Reaches, Announcing
    <3> QED
      BY <3>2, <3>3, <3>4
  <2> QED
    BY <2>3, <2>4 DEF HearInv, DueWillHear
<1> QED
  BY <1>4, <1>5, <1>6 DEF HearInv

LEMMA SocketHear ==
  ASSUME TypeOK, HearInv, NEW d \in Connections,
         \/ Open(d) \/ Register(d) \/ Greet(d) \/ Close(d) \/ Leave(d)
  PROVE  HearInv'
<1>1. /\ UNCHANGED <<status, task>>
      /\ due' \subseteq due /\ d \notin due'
      /\ \A c \in Connections \ {d} : heard'[c] = heard[c]
  <2>1. socket[d].state \in {"new", "read", "registered"} \/ ~socket[d].alive => d \notin due
    BY DEF HearInv, DueAreOpen
  <2> QED
    BY <2>1 DEF Open, Register, Greet, Close, Leave, TypeOK
<1>2. \A c \in Connections \ {d} : socket'[c] = socket[c]
  BY SocketSteps
<1>3. \A c \in due' : c \in due /\ c # d /\ socket'[c] = socket[c] /\ heard'[c] = heard[c]
  BY <1>1, <1>2 DEF TypeOK
<1>4. NewsOfTheSale'
  BY <1>1 DEF HearInv, NewsOfTheSale, Announcing
<1>5. DueAreOpen'
  BY <1>3 DEF HearInv, DueAreOpen
<1>6. DueWillHear'
  BY <1>1, <1>3 DEF HearInv, DueWillHear, Reaches, Announcing
<1> QED
  BY <1>4, <1>5, <1>6 DEF HearInv

LEMMA CrashHear ==
  ASSUME TypeOK, HearInv, NEW i \in Instances, Crash(i)
  PROVE  HearInv'
<1>1. \A c \in due' : /\ c \in due /\ socket[c].at # i
                      /\ socket'[c] = socket[c] /\ heard'[c] = heard[c]
  BY DEF Crash, HearInv, DueAreOpen, TypeOK
<1>2. \A h \in Handlers : /\ task'[h] # Idle => task'[h] = task[h]
                          /\ task[h] # Idle /\ task[h].at # i => task'[h] = task[h]
  BY DEF Crash, TypeOK
<1>3. status' = status
  BY DEF Crash
<1>4. NewsOfTheSale'
  <2> SUFFICES ASSUME NEW h \in Handlers, Announcing(h)'
               PROVE  task[h].channel = "sale" /\ (due' # {} => task[h].news = status)
    BY <1>2, <1>3 DEF NewsOfTheSale, Announcing
  <2>1. task'[h] # Idle /\ task'[h] = task[h]
    BY <1>2 DEF Announcing
  <2>2. Announcing(h)
    BY <2>1 DEF Announcing
  <2>3. due' # {} => due # {}
    BY <1>1
  <2> QED
    BY <2>2, <2>3 DEF HearInv, NewsOfTheSale
<1>5. DueAreOpen'
  BY <1>1 DEF HearInv, DueAreOpen
<1>6. DueWillHear'
  <2> SUFFICES ASSUME NEW c \in due', heard[c] # status
               PROVE  \E g \in Handlers : Reaches(g, c)'
    BY <1>1, <1>3 DEF DueWillHear
  <2>1. PICK g \in Handlers : Reaches(g, c)
    BY <1>1 DEF HearInv, DueWillHear
  <2>2. task'[g] = task[g] /\ socket'[c] = socket[c]
    BY <1>1, <1>2, <2>1 DEF Reaches, Announcing
  <2> QED
    BY <2>1, <2>2 DEF Reaches, Announcing
<1> QED
  BY <1>4, <1>5, <1>6 DEF HearInv

LEMMA NextHear == TypeOK /\ RegistryInv /\ HearInv /\ [Next]_vars => HearInv'
<1> SUFFICES ASSUME TypeOK, RegistryInv, HearInv, [Next]_vars PROVE HearInv'
  OBVIOUS
<1>1. CASE UNCHANGED vars
  BY <1>1 DEF vars, HearInv, NewsOfTheSale, DueAreOpen, DueWillHear, Reaches, Announcing
<1>2. ASSUME NEW h \in Handlers, Begin(h) \/ Proceed(h) \/ Raise(h) PROVE HearInv'
  <2>1. CASE WriteStatus(h) \/ Copy(h) \/ Send(h)
    BY <2>1, WriteHear, CopyHear, SendHear DEF RegistryInv
  <2>2. CASE \/ Begin(h) \/ Record(h) \/ ReadOne(h) \/ ListUnread(h) \/ Mark(h)
             \/ Raise(h)
    <3>1. /\ ~Announcing(h)' /\ due' \subseteq due
          /\ due' # {} => ~Announcing(h)
          /\ UNCHANGED <<status, socket, heard>>
      BY <2>2, QuietSteps DEF Announcing
    <3> QED
      BY <1>2, <3>1, QuietHear DEF Announcing
  <2> QED
    BY <1>2, <2>1, <2>2 DEF Proceed
<1>3. CASE \E c \in Connections : Open(c) \/ Attend(c) \/ Close(c)
  BY <1>3, SocketHear DEF Attend
<1>4. CASE \E i \in Instances : Crash(i)
  BY <1>4, CrashHear
<1> QED
  BY <1>1, <1>2, <1>3, <1>4 DEF Next, Fail

\* Whoever was listening on the instance that changed the status has heard it
\* once the broadcast is over, whatever died, came or went meanwhile.
THEOREM EveryListenerHears == Spec => []ListenersHear
<1>1. TypeOK /\ HearInv => ListenersHear
  BY DEF HearInv, DueWillHear, Reaches, ListenersHear
<1> QED
  BY <1>1, InitType, NextType, InitRegistry, NextRegistry, InitHear, NextHear, PTL DEF Spec
=============================================================================
