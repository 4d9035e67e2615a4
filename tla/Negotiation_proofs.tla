------------------------- MODULE Negotiation_proofs -------------------------
(***************************************************************************)
(* What is agreed is what was accepted, and what is posted is counted:     *)
(* proofs about Negotiation, for any number of offers, texts and requests. *)
(***************************************************************************)
EXTENDS Negotiation, TLAPS

USE NegotiationAssumption

LEMMA OtherUser ==
  ASSUME NEW u \in Users
  PROVE  Other(u) \in Users /\ Other(u) # u /\ \A v \in Users : v = u \/ v = Other(u)
<1>1. PICK v, w \in Users : v # w /\ Users = {v, w}
  OBVIOUS
<1>2. \E x : x \in Users /\ x # u
  BY <1>1
<1>3. Other(u) \in Users /\ Other(u) # u
  BY <1>2 DEF Other
<1> QED
  BY <1>1, <1>3

LEMMA NotIdle == \A r \in Request : r # Idle
<1> SUFFICES ASSUME NEW r \in Request, r = Idle PROVE FALSE
  OBVIOUS
<1>1. r.step \in Steps /\ r.step = "idle"
  BY DEF Request, Idle
<1> QED
  BY <1>1 DEF Steps

LEMMA BusyRequest ==
  ASSUME TypeOK, NEW h \in Handlers, req[h] # Idle
  PROVE  req[h] \in Request
BY DEF TypeOK
-----------------------------------------------------------------------------
(***************************************************************************)
(* Control: how a request moves on, and how it ends.                       *)
(***************************************************************************)
OthersStay(h) ==
  /\ req' \in [Handlers -> {Idle} \cup Request]
  /\ \A g \in Handlers \ {h} : req'[g] = req[g]

Moves(h, step) ==
  /\ req'[h] \in Request /\ req'[h] # Idle /\ req'[h].step = step
  /\ req'[h].op = req[h].op /\ req'[h].user = req[h].user
  /\ req'[h].offer = req[h].offer /\ req'[h].new = req[h].new
  /\ OthersStay(h)

Keeps(h) == req'[h].active = req[h].active /\ req'[h].found = req[h].found

Ends(h) == req'[h] = Idle /\ OthersStay(h)

LEMMA Moving ==
  ASSUME TypeOK, NEW h \in Handlers, req[h] # Idle, NEW step \in Steps, Goto(h, step)
  PROVE  Moves(h, step) /\ Keeps(h)
<1>1. req[h] \in Request
  BY BusyRequest
<1>2. req' = [req EXCEPT ![h] = [req[h] EXCEPT !.step = step]]
  BY <1>1 DEF Goto, TypeOK
<1>3. [req[h] EXCEPT !.step = step] \in Request
  BY <1>1 DEF Request
<1>4. req'[h] = [req[h] EXCEPT !.step = step] /\ OthersStay(h)
  BY <1>2, <1>3 DEF OthersStay, TypeOK
<1> QED
  BY <1>1, <1>3, <1>4, NotIdle DEF Moves, Keeps, Request

LEMMA Ending ==
  ASSUME TypeOK, NEW h \in Handlers, End(h)
  PROVE  Ends(h)
BY DEF End, Ends, OthersStay, TypeOK

\* The two steps that also note what they read.
LEMMA ReadActive ==
  ASSUME TypeOK, NEW h \in Handlers, req[h] # Idle,
         req' = [req EXCEPT ![h].active = conv.active, ![h].step = "readOffer"]
  PROVE  /\ Moves(h, "readOffer")
         /\ req'[h].active = conv.active /\ req'[h].found = req[h].found
<1>1. req[h] \in Request /\ conv.active \in 0..MaxOffers /\ "readOffer" \in Steps
  BY BusyRequest DEF TypeOK, Conversation, Steps
<1> DEFINE active == conv.active
<1>2. req' = [req EXCEPT ![h] = [req[h] EXCEPT !.active = active, !.step = "readOffer"]]
  <2> HIDE DEF active
  <2>1. req' = [req EXCEPT ![h].active = active, ![h].step = "readOffer"]
    BY DEF active
  <2> QED
    BY <1>1, <2>1 DEF TypeOK, Request
<1> HIDE DEF active
<1>3. [req[h] EXCEPT !.active = active, !.step = "readOffer"] \in Request
  BY <1>1 DEF Request, active
<1>4. req'[h] = [req[h] EXCEPT !.active = active, !.step = "readOffer"] /\ OthersStay(h)
  BY <1>2, <1>3 DEF OthersStay, TypeOK
<1>5. /\ req'[h].active = active /\ req'[h].step = "readOffer"
      /\ req'[h].op = req[h].op /\ req'[h].user = req[h].user
      /\ req'[h].offer = req[h].offer /\ req'[h].new = req[h].new
      /\ req'[h].found = req[h].found
  BY <1>1, <1>4 DEF Request
<1> QED
  BY <1>3, <1>4, <1>5, NotIdle DEF Moves, active

LEMMA NoteFound ==
  ASSUME TypeOK, NEW h \in Handlers, ReadParent(h)
  PROVE  /\ Moves(h, "counterParent")
         /\ req'[h].found = (offers[req[h].offer].status # Absent)
         /\ req'[h].active = req[h].active
<1>1. req[h] \in Request /\ "counterParent" \in Steps
  BY BusyRequest DEF ReadParent, At, Steps
<1> DEFINE found == offers[req[h].offer].status # Absent
<1>2. found \in BOOLEAN
  OBVIOUS
<1>3. req' = [req EXCEPT ![h].found = found, ![h].step = "counterParent"]
  BY DEF ReadParent
<1> HIDE DEF found
<1>4. req' = [req EXCEPT ![h] = [req[h] EXCEPT !.found = found, !.step = "counterParent"]]
  BY <1>1, <1>3 DEF TypeOK, Request
<1>5. [req[h] EXCEPT !.found = found, !.step = "counterParent"] \in Request
  BY <1>1, <1>2 DEF Request
<1>6. req'[h] = [req[h] EXCEPT !.found = found, !.step = "counterParent"] /\ OthersStay(h)
  BY <1>4, <1>5 DEF OthersStay, TypeOK
<1>7. /\ req'[h].found = found /\ req'[h].step = "counterParent"
      /\ req'[h].op = req[h].op /\ req'[h].user = req[h].user
      /\ req'[h].offer = req[h].offer /\ req'[h].new = req[h].new
      /\ req'[h].active = req[h].active
  BY <1>1, <1>6 DEF Request
<1> QED
  BY <1>5, <1>6, <1>7, NotIdle DEF Moves, found

LEMMA Beginning ==
  ASSUME TypeOK, NEW h \in Handlers, Begin(h)
  PROVE  /\ req[h] = Idle /\ req'[h] \in Request /\ OthersStay(h)
         /\ req'[h].op \in EnabledOps /\ req'[h].step = FirstStep(req'[h].op)
         /\ req'[h].offer \in 0..used.offers
         /\ (req'[h].offer = None)
              <=> req'[h].op \notin SettleOps \cup {"reply_offer", "counter_offer"}
         /\ req'[h].op \in OfferOps => used.offers < MaxOffers /\ req'[h].new = used.offers + 1
         /\ req'[h].op \notin OfferOps => req'[h].new = None
         /\ used'.offers = IF req'[h].op \in OfferOps THEN used.offers + 1 ELSE used.offers
         /\ req'[h].op # "start_conversation" => conv.exists
<1>1. PICK op \in EnabledOps, u \in Users, o \in 0..used.offers :
        LET new == IF op \in OfferOps THEN used.offers + 1 ELSE None
        IN /\ (o = None) <=> (op \notin SettleOps \cup {"reply_offer", "counter_offer"})
           /\ op \in OfferOps => used.offers < MaxOffers
           /\ op = "send_message" => used.texts < MaxTexts
           /\ op # "start_conversation" => conv.exists
           /\ used' = [offers |-> IF op \in OfferOps THEN new ELSE used.offers,
                       texts |-> IF op = "send_message" THEN used.texts + 1
                                                        ELSE used.texts]
           /\ req' = [req EXCEPT ![h] =
                [op |-> op, user |-> u, step |-> FirstStep(op), offer |-> o,
                 new |-> new, active |-> None, found |-> FALSE]]
  BY DEF Begin
<1> DEFINE new == IF op \in OfferOps THEN used.offers + 1 ELSE None
<1>2. used.offers \in 0..MaxOffers /\ new \in 0..MaxOffers /\ op \in Ops
  BY <1>1 DEF TypeOK, None
<1>3. FirstStep(op) \in Steps
  BY <1>2 DEF FirstStep, Steps, Ops, OfferOps, SettleOps
<1> DEFINE r == [op |-> op, user |-> u, step |-> FirstStep(op), offer |-> o,
                 new |-> new, active |-> None, found |-> FALSE]
<1>4. r \in Request
  BY <1>2, <1>3 DEF Request, None, TypeOK
<1>5. req'[h] = r /\ OthersStay(h)
  BY <1>1, <1>4 DEF OthersStay, TypeOK
<1>6. used'.offers = IF op \in OfferOps THEN used.offers + 1 ELSE used.offers
  BY <1>1
<1>7. req[h] = Idle
  BY DEF Begin
<1> QED
  BY <1>1, <1>4, <1>5, <1>6, <1>7
\* Only a request that is there goes on.
LEMMA ProceedBusy ==
  ASSUME TypeOK, NEW h \in Handlers, Proceed(h)
  PROVE  req[h] \in Request /\ req[h] # Idle
BY BusyRequest DEF Proceed, ReadConv, Create, PostText, Count, MarkRead, Block, Unblock,
   Share, ReadPhone, PostCard, StoreOffer, ReadParent, CounterParent, CounterCard,
   ReadOffer, Settle, PostNotice, MarkCard, UpdateConv, At
-----------------------------------------------------------------------------
(***************************************************************************)
(* Types.                                                                  *)
(***************************************************************************)

\* What counting a message for u changes.
LEMMA Counting ==
  ASSUME NEW c \in Conversation, NEW u \in Users
  PROVE  LET d == CountFor(u, c)
         IN /\ d \in Conversation
            /\ d.exists = c.exists /\ d.blockedBy = c.blockedBy /\ d.active = c.active
            /\ d.deal = c.deal /\ d.agreed = c.agreed /\ d.shared = c.shared
            /\ d.unread[u] > 0
            /\ \A v \in Users \ {u} : d.unread[v] = c.unread[v]
<1> DEFINE unread == [c.unread EXCEPT ![u] = @ + 1]
<1>1. CountFor(u, c) = [c EXCEPT !.unread = unread]
  BY DEF CountFor, Conversation
<1>2. /\ unread \in [Users -> Nat] /\ unread[u] > 0
      /\ \A v \in Users \ {u} : unread[v] = c.unread[v]
  BY DEF Conversation
<1> HIDE DEF unread
<1> QED
  BY <1>1, <1>2 DEF Conversation

\* The conversation after a request's last write: what is agreed and active,
\* and that only an offer or an acceptance counts.
LEMMA Updating ==
  ASSUME TypeOK, NEW r \in Request
  PROVE  LET c == Updated(r)
         IN /\ c \in Conversation
            /\ c.exists = conv.exists /\ c.shared = conv.shared
            /\ r.op \in OfferOps =>
                 c.active = r.new /\ c.deal = "negotiating" /\ c.agreed = conv.agreed
            /\ r.op = "accept_offer" =>
                 c.active = None /\ c.deal = "agreed" /\ c.agreed = r.offer
            /\ r.op \notin OfferOps \cup {"accept_offer"} =>
                 /\ c.active = IF r.active = r.offer THEN None ELSE conv.active
                 /\ c.deal = conv.deal /\ c.agreed = conv.agreed
                 /\ c.unread = conv.unread
            /\ r.op \in OfferOps \cup {"accept_offer"} => c.unread[Other(r.user)] > 0
            /\ \A v \in Users \ {Other(r.user)} : c.unread[v] = conv.unread[v]
<1>1. conv \in Conversation /\ r.user \in Users /\ Other(r.user) \in Users
  BY OtherUser DEF TypeOK, Request
<1>2. CASE r.op \in OfferOps
  <2> DEFINE c == [conv EXCEPT !.active = r.new, !.deal = "negotiating"]
  <2>1. /\ c \in Conversation /\ c.exists = conv.exists /\ c.shared = conv.shared
        /\ c.active = r.new /\ c.deal = "negotiating" /\ c.agreed = conv.agreed
        /\ c.unread = conv.unread
    BY <1>1 DEF Conversation, Request
  <2>2. Updated(r) = CountFor(Other(r.user), c) /\ r.op # "accept_offer"
    BY <1>2 DEF Updated, OfferOps
  <2> HIDE DEF c
  <2> QED
    BY <1>1, <1>2, <2>1, <2>2, Counting
<1>3. CASE r.op = "accept_offer"
  <2> DEFINE c == [conv EXCEPT !.active = None, !.deal = "agreed", !.agreed = r.offer]
  <2>1. /\ c.exists = conv.exists /\ c.shared = conv.shared
        /\ c.active = None /\ c.deal = "agreed" /\ c.agreed = r.offer
        /\ c.unread = conv.unread /\ c \in Conversation
    <3>1. /\ None \in 0..MaxOffers /\ r.offer \in 0..MaxOffers
          /\ "agreed" \in {"none", "negotiating", "agreed"}
      BY DEF Request, None
    <3> QED
      BY <1>1, <3>1 DEF Conversation
  <2>2. Updated(r) = CountFor(Other(r.user), c) /\ r.op \notin OfferOps
    BY <1>3 DEF Updated, OfferOps
  <2> HIDE DEF c
  <2> QED
    BY <1>1, <1>3, <2>1, <2>2, Counting
<1>4. CASE r.op \notin OfferOps \cup {"accept_offer"}
  BY <1>1, <1>4 DEF Updated, Conversation, None
<1> QED
  BY <1>2, <1>3, <1>4

LEMMA FreshType ==
  /\ Fresh \in Conversation /\ Fresh.exists /\ Fresh.active = None /\ Fresh.deal = "none"
  /\ [Fresh EXCEPT !.exists = Started] \in Conversation
BY DEF Fresh, Conversation, None

LEMMA InitType == Init => TypeOK
<1> SUFFICES ASSUME Init PROVE TypeOK
  OBVIOUS
<1>1. conv \in Conversation
  BY FreshType DEF Init
<1>2. offers \in [OfferIds -> [sender : Users \cup {Nobody}, status : OfferStatuses]]
  BY DEF Init, OfferStatuses
<1>3. used \in [offers : 0..MaxOffers, texts : 0..MaxTexts]
  BY DEF Init
<1> QED
  BY <1>1, <1>2, <1>3 DEF Init, TypeOK, OfferStatuses


\* A conversation after the writes of one field.
LEMMA SmallWrites ==
  ASSUME TypeOK, NEW u \in Users, NEW w \in Users \cup {Nobody}
  PROVE  /\ [conv EXCEPT !.blockedBy = w] \in Conversation
         /\ [conv EXCEPT !.shared = @ \cup {u}] \in Conversation
         /\ [conv EXCEPT !.unread[u] = 0] \in Conversation
<1>1. conv \in Conversation
  BY DEF TypeOK
<1>2. [conv.unread EXCEPT ![u] = 0] \in [Users -> Nat]
  BY <1>1 DEF Conversation
<1> DEFINE unread == [conv.unread EXCEPT ![u] = 0]
<1>3. [conv EXCEPT !.unread[u] = 0] = [conv EXCEPT !.unread = unread]
  BY <1>1 DEF Conversation
<1> HIDE DEF unread
<1>4. [conv EXCEPT !.unread = unread] \in Conversation
  BY <1>1, <1>2 DEF Conversation, unread
<1> QED
  BY <1>1, <1>3, <1>4 DEF Conversation

\* The requests that come to a step.
OpsAt(step) ==
  CASE step = "readConv" -> OfferOps \cup {"start_conversation", "send_message",
                              "withdraw_offer", "unblock", "share_phone", "get_phone"}
    [] step = "create" -> {"start_conversation"}
    [] step \in {"postText", "count"} -> {"send_message"}
    [] step \in {"postCard", "storeOffer"} -> OfferOps
    [] step \in {"readParent", "counterParent", "counterCard"} ->
         {"reply_offer", "counter_offer"}
    [] step = "readOffer" -> SettleOps \cup {"counter_offer"}
    [] step \in {"settle", "postNotice"} -> SettleOps
    [] step = "markCard" -> {"accept_offer"}
    [] step = "updateConv" -> OfferOps \cup SettleOps
    [] step = "markRead" -> {"mark_read"}
    [] step = "block" -> {"block"}
    [] step = "unblock" -> {"unblock"}
    [] step = "share" -> {"share_phone"}
    [] step = "readPhone" -> {"get_phone"}

\* A request comes only to its own steps, and names an offer if it is about
\* one; a new one has a number of its own.
WellFormed(r) ==
  /\ r.op \in OpsAt(r.step)
  /\ r.op \in EnabledOps
  /\ (r.offer = None) <=> r.op \notin SettleOps \cup {"reply_offer", "counter_offer"}
  /\ r.op \in OfferOps => r.new # None
  /\ r.op \notin OfferOps => r.new = None

Known == \A h \in Handlers : req[h] # Idle => WellFormed(req[h])

LEMMA BeginKnown ==
  ASSUME TypeOK, Known, NEW h \in Handlers, Begin(h)
  PROVE  Known'
<1>1. req'[h].op \in Ops
  BY Beginning
<1>2. req'[h].op \in OpsAt(FirstStep(req'[h].op))
  BY <1>1 DEF OpsAt, FirstStep, Ops, OfferOps, SettleOps
<1>3. WellFormed(req'[h])
  BY <1>2, Beginning DEF WellFormed, None, TypeOK
<1> QED
  BY <1>3, Beginning DEF Known, OthersStay

\* What comes of reading the conversation.
LEMMA ReadConvSteps ==
  ASSUME TypeOK, Known, NEW h \in Handlers, ReadConv(h)
  PROVE  LET op == req[h].op
         IN \/ Ends(h)
            \/ Moves(h, "create") /\ op = "start_conversation" /\ ~conv.exists
            \/ Moves(h, "postText") /\ op = "send_message"
            \/ Moves(h, "postCard") /\ op \in OfferOps /\ Keeps(h)
            \/ /\ Moves(h, "readOffer") /\ op = "withdraw_offer"
               /\ req'[h].active = conv.active
            \/ Moves(h, "unblock") /\ op = "unblock"
            \/ Moves(h, "share") /\ op = "share_phone"
            \/ Moves(h, "readPhone") /\ op = "get_phone" /\ PhoneIsOpen(req[h].user)
<1>1. req[h] \in Request /\ req[h] # Idle /\ req[h].step = "readConv"
  BY BusyRequest DEF ReadConv, At
<1>2. req[h].op \in OfferOps \cup {"start_conversation", "send_message",
                              "withdraw_offer", "unblock", "share_phone", "get_phone"}
  BY <1>1 DEF Known, WellFormed, OpsAt
<1>3. {"create", "postText", "postCard", "unblock", "share", "readPhone"} \subseteq Steps
  BY DEF Steps
<1>4. CASE req[h].op = "start_conversation"
  BY <1>1, <1>3, <1>4, Moving, Ending DEF ReadConv
<1>5. CASE req[h].op = "send_message"
  BY <1>1, <1>3, <1>5, Moving, Ending DEF ReadConv
<1>6. CASE req[h].op \in OfferOps
  <2>1. req[h].op \notin {"start_conversation", "send_message", "withdraw_offer",
                         "unblock", "share_phone", "get_phone"}
    BY <1>6 DEF OfferOps
  <2>2. End(h) \/ Goto(h, "postCard")
    BY <1>6, <2>1 DEF ReadConv
  <2> QED
    BY <1>1, <1>3, <1>6, <2>2, Moving, Ending
<1>7. CASE req[h].op = "withdraw_offer"
  <2>1. req' = [req EXCEPT ![h].active = conv.active, ![h].step = "readOffer"]
    BY <1>7 DEF ReadConv, OfferOps
  <2> QED
    BY <1>1, <1>7, <2>1, ReadActive
<1>8. CASE req[h].op = "unblock"
  <2>1. End(h) \/ Goto(h, "unblock")
    BY <1>8 DEF ReadConv, OfferOps
  <2> QED
    BY <1>1, <1>3, <1>8, <2>1, Moving, Ending
<1>9. CASE req[h].op = "share_phone"
  <2>1. Goto(h, "share")
    BY <1>9 DEF ReadConv, OfferOps
  <2> QED
    BY <1>1, <1>3, <1>9, <2>1, Moving
<1>10. CASE req[h].op = "get_phone"
  <2>1. End(h) \/ (Goto(h, "readPhone") /\ PhoneIsOpen(req[h].user))
    BY <1>10 DEF ReadConv, OfferOps
  <2> QED
    BY <1>1, <1>3, <1>10, <2>1, Moving, Ending
<1> QED
  BY <1>2, <1>4, <1>5, <1>6, <1>7, <1>8, <1>9, <1>10

\* The control of every other step.
LEMMA ProceedSteps ==
  ASSUME TypeOK, Known, NEW h \in Handlers
  PROVE  LET op == req[h].op
         IN /\ PostText(h) => Moves(h, "count")
            /\ Create(h) \/ Count(h) \/ MarkRead(h) \/ Block(h) \/ Unblock(h) \/ Share(h)
                 \/ ReadPhone(h) \/ UpdateConv(h) => Ends(h)
            /\ PostCard(h) => Moves(h, "storeOffer") /\ Keeps(h)
            /\ StoreOffer(h) => /\ Moves(h, IF op = "send_offer" THEN "updateConv"
                                            ELSE "readParent")
                                /\ Keeps(h)
            /\ ReadParent(h) => Moves(h, "counterParent")
            /\ CounterParent(h) =>
                 \/ Ends(h) /\ offers[req[h].offer].status = Absent
                 \/ Moves(h, "counterCard") /\ req[h].found
                 \/ Moves(h, "updateConv") /\ ~req[h].found
            /\ CounterCard(h) => Moves(h, "updateConv")
            /\ ReadOffer(h) =>
                 \/ Ends(h)
                 \/ /\ Moves(h, IF op = "counter_offer" THEN "readConv" ELSE "settle")
                    /\ MayAnswer(req[h], offers[req[h].offer]) /\ Keeps(h)
            /\ Settle(h) => Moves(h, "postNotice") /\ Keeps(h)
            /\ PostNotice(h) => /\ Moves(h, IF op = "accept_offer" THEN "markCard"
                                            ELSE "updateConv")
                                /\ Keeps(h)
            /\ MarkCard(h) => Moves(h, "updateConv")
<1> USE DEF Steps
<1>1. \A step : At(h, step) => req[h] # Idle /\ req[h].step = step /\ req[h] \in Request
  BY BusyRequest DEF At
<1>2. PostText(h) => Moves(h, "count")
  BY <1>1, Moving DEF PostText
<1>3. Create(h) \/ Count(h) \/ MarkRead(h) \/ Block(h) \/ Unblock(h) \/ Share(h)
        \/ ReadPhone(h) \/ UpdateConv(h) => Ends(h)
  BY Ending DEF Create, Count, MarkRead, Block, Unblock, Share, ReadPhone, UpdateConv
<1>4. PostCard(h) => Moves(h, "storeOffer") /\ Keeps(h)
  BY <1>1, Moving DEF PostCard
<1>5. StoreOffer(h) => /\ Moves(h, IF req[h].op = "send_offer" THEN "updateConv"
                                   ELSE "readParent")
                       /\ Keeps(h)
  <2> SUFFICES ASSUME StoreOffer(h)
               PROVE  /\ Moves(h, IF req[h].op = "send_offer" THEN "updateConv"
                                  ELSE "readParent")
                      /\ Keeps(h)
    OBVIOUS
  <2>1. req[h] # Idle /\ req[h].step = "storeOffer"
    BY <1>1 DEF StoreOffer
  <2>2. req[h].offer = None <=> req[h].op = "send_offer"
    BY <2>1 DEF Known, WellFormed, OpsAt, OfferOps, SettleOps
  <2>3. Goto(h, IF req[h].op = "send_offer" THEN "updateConv" ELSE "readParent")
    BY <2>2 DEF StoreOffer
  <2> QED
    BY <2>1, <2>3, Moving
<1>6. ReadParent(h) => Moves(h, "counterParent")
  BY NoteFound
<1>7. CounterParent(h) =>
        \/ Ends(h) /\ offers[req[h].offer].status = Absent
        \/ Moves(h, "counterCard") /\ req[h].found
        \/ Moves(h, "updateConv") /\ ~req[h].found
  BY <1>1, Moving, Ending DEF CounterParent
<1>8. CounterCard(h) => Moves(h, "updateConv")
  BY <1>1, Moving DEF CounterCard
<1>9. ReadOffer(h) =>
        \/ Ends(h)
        \/ /\ Moves(h, IF req[h].op = "counter_offer" THEN "readConv" ELSE "settle")
           /\ MayAnswer(req[h], offers[req[h].offer]) /\ Keeps(h)
  BY <1>1, Moving, Ending DEF ReadOffer
<1>10. Settle(h) => Moves(h, "postNotice") /\ Keeps(h)
  BY <1>1, Moving DEF Settle
<1>11. PostNotice(h) => /\ Moves(h, IF req[h].op = "accept_offer" THEN "markCard"
                                    ELSE "updateConv")
                        /\ Keeps(h)
  BY <1>1, Moving DEF PostNotice, AfterNotice
<1>12. MarkCard(h) => Moves(h, "updateConv")
  BY <1>1, Moving DEF MarkCard
<1> QED
  BY <1>2, <1>3, <1>4, <1>5, <1>6, <1>7, <1>8, <1>9, <1>10, <1>11, <1>12

\* A request changes no other.
LEMMA OnlyItself ==
  ASSUME TypeOK, Known, NEW h \in Handlers, Begin(h) \/ Proceed(h) \/ Fail(h)
  PROVE  OthersStay(h)
<1>1. Ends(h) => OthersStay(h)
  BY DEF Ends
<1>2. \A step : Moves(h, step) => OthersStay(h)
  BY DEF Moves
<1>3. Begin(h) \/ Fail(h) => OthersStay(h)
  BY <1>1, Beginning, Ending DEF Fail
<1>4. ReadConv(h) => OthersStay(h)
  BY <1>1, <1>2, ReadConvSteps
<1> QED
  BY <1>1, <1>2, <1>3, <1>4, ProceedSteps DEF Proceed

LEMMA ProceedKnown ==
  ASSUME TypeOK, Known, NEW h \in Handlers, Proceed(h)
  PROVE  Known'
<1> DEFINE r == req[h]
<1>1. /\ r \in Request /\ r # Idle /\ WellFormed(r)
  BY ProceedBusy DEF Known
<1>2. ASSUME Ends(h) PROVE Known'
  BY <1>2 DEF Known, Ends, OthersStay
<1>3. ASSUME NEW step \in Steps, Moves(h, step), r.op \in OpsAt(step) PROVE Known'
  <2>1. WellFormed(req'[h])
    BY <1>1, <1>3 DEF WellFormed, Moves
  <2> QED
    BY <1>3, <2>1 DEF Known, Moves, OthersStay
<1>4. /\ r.op \in OpsAt(r.step) /\ \A step : At(h, step) => r.step = step
  BY <1>1 DEF WellFormed, At
<1> HIDE DEF r
<1> USE DEF Steps
<1>5. CASE ReadConv(h)
  BY <1>2, <1>3, <1>5, ReadConvSteps DEF OpsAt, SettleOps, r
<1>6. CASE Create(h) \/ Count(h) \/ MarkRead(h) \/ Block(h) \/ Unblock(h) \/ Share(h)
           \/ ReadPhone(h) \/ UpdateConv(h)
  BY <1>2, <1>6, ProceedSteps
<1>7. CASE PostText(h)
  <2>1. r.op \in OpsAt("count")
    BY <1>4, <1>7 DEF PostText, OpsAt
  <2> QED
    BY <1>3, <1>7, <2>1, ProceedSteps
<1>8. CASE PostCard(h)
  <2>1. r.op \in OpsAt("storeOffer")
    BY <1>4, <1>8 DEF PostCard, OpsAt
  <2> QED
    BY <1>3, <1>8, <2>1, ProceedSteps
<1>9. CASE StoreOffer(h)
  <2>1. r.op \in OfferOps
    BY <1>4, <1>9 DEF StoreOffer, OpsAt
  <2>2. r.op \in OpsAt(IF r.op = "send_offer" THEN "updateConv" ELSE "readParent")
    BY <2>1 DEF OpsAt, OfferOps
  <2> QED
    BY <1>3, <1>9, <2>2, ProceedSteps DEF r
<1>10. CASE ReadParent(h) \/ CounterParent(h) \/ CounterCard(h)
  <2>1. r.op \in {"reply_offer", "counter_offer"}
    BY <1>4, <1>10 DEF ReadParent, CounterParent, CounterCard, OpsAt
  <2>2. r.op \in OpsAt("counterParent") /\ r.op \in OpsAt("counterCard")
        /\ r.op \in OpsAt("updateConv")
    BY <2>1 DEF OpsAt, OfferOps
  <2> QED
    BY <1>2, <1>3, <1>10, <2>2, ProceedSteps
<1>11. CASE ReadOffer(h)
  <2>1. r.op \in SettleOps \cup {"counter_offer"}
    BY <1>4, <1>11 DEF ReadOffer, OpsAt
  <2>2. r.op \in OpsAt(IF r.op = "counter_offer" THEN "readConv" ELSE "settle")
    BY <2>1 DEF OpsAt, OfferOps
  <2> QED
    BY <1>2, <1>3, <1>11, <2>2, ProceedSteps DEF r
<1>12. CASE Settle(h) \/ PostNotice(h)
  <2>1. r.op \in SettleOps
    BY <1>4, <1>12 DEF Settle, PostNotice, OpsAt
  <2>2. r.op \in OpsAt("postNotice")
        /\ r.op \in OpsAt(IF r.op = "accept_offer" THEN "markCard" ELSE "updateConv")
    BY <2>1 DEF OpsAt
  <2> QED
    BY <1>3, <1>12, <2>2, ProceedSteps DEF r
<1>13. CASE MarkCard(h)
  <2>1. r.op \in OpsAt("updateConv")
    BY <1>4, <1>13 DEF MarkCard, OpsAt, SettleOps
  <2> QED
    BY <1>3, <1>13, <2>1, ProceedSteps
<1> QED
  BY <1>5, <1>6, <1>7, <1>8, <1>9, <1>10, <1>11, <1>12, <1>13 DEF Proceed

LEMMA ProceedTypes ==
  ASSUME TypeOK, Known, NEW h \in Handlers, Proceed(h)
  PROVE  TypeOK'
<1> DEFINE Req == req' \in [Handlers -> {Idle} \cup Request]
<1>1. req[h] \in Request /\ req[h] # Idle
  BY ProceedBusy
<1>2. req[h].user \in Users /\ Other(req[h].user) \in Users
  BY <1>1, OtherUser DEF Request
<1>3. Req
  <2>1. Ends(h) => Req
    BY DEF Ends, OthersStay
  <2>2. \A step : Moves(h, step) => Req
    BY DEF Moves, OthersStay
  <2>3. CASE ReadConv(h)
    BY <2>1, <2>2, <2>3, ReadConvSteps
  <2> QED
    BY <2>1, <2>2, <2>3, ProceedSteps DEF Proceed
<1>4. CASE Create(h) \/ Count(h) \/ MarkRead(h) \/ Block(h) \/ Unblock(h) \/ Share(h)
           \/ UpdateConv(h)
  <2>1. conv \in Conversation
    BY DEF TypeOK
  <2>2. conv' \in Conversation
    <3>1. CASE Create(h) \/ Count(h) \/ UpdateConv(h)
      BY <1>1, <1>2, <2>1, <3>1, FreshType, Counting, Updating DEF Create, Count, UpdateConv
    <3>2. CASE MarkRead(h) \/ Block(h) \/ Unblock(h) \/ Share(h)
      BY <1>2, <3>2, SmallWrites DEF MarkRead, Block, Unblock, Share
    <3> QED
      BY <1>4, <3>1, <3>2
  <2>3. news' \subseteq Users
    BY <1>4 DEF Create, Count, MarkRead, Block, Unblock, Share, UpdateConv, TypeOK
  <2> QED
    BY <1>3, <1>4, <2>2, <2>3
       DEF Create, Count, MarkRead, Block, Unblock, Share, UpdateConv, TypeOK
<1>5. CASE ReadConv(h) \/ ReadParent(h) \/ ReadOffer(h)
  BY <1>3, <1>5 DEF ReadConv, ReadParent, ReadOffer, TypeOK
<1>6. CASE PostText(h) \/ PostNotice(h)
  BY <1>2, <1>3, <1>6 DEF PostText, PostNotice, Tell, TypeOK
<1>7. CASE ReadPhone(h)
  BY <1>2, <1>3, <1>7 DEF ReadPhone, TypeOK
<1>8. CASE PostCard(h) \/ CounterCard(h) \/ MarkCard(h)
  <2>1. cards' \in [OfferIds -> OfferStatuses]
    BY <1>8 DEF PostCard, CounterCard, MarkCard, TypeOK, OfferStatuses, Settled
  <2> QED
    BY <1>2, <1>3, <1>8, <2>1 DEF PostCard, CounterCard, MarkCard, Tell, TypeOK
<1>9. CASE StoreOffer(h) \/ CounterParent(h) \/ Settle(h)
  <2>1. offers' \in [OfferIds -> [sender : Users \cup {Nobody}, status : OfferStatuses]]
    BY <1>2, <1>9 DEF StoreOffer, CounterParent, Settle, TypeOK, OfferStatuses, Settled
  <2> QED
    BY <1>3, <1>9, <2>1 DEF StoreOffer, CounterParent, Settle, TypeOK
<1> QED
  BY <1>4, <1>5, <1>6, <1>7, <1>8, <1>9 DEF Proceed

LEMMA BeginTypes ==
  ASSUME TypeOK, NEW h \in Handlers, Begin(h)
  PROVE  TypeOK'
<1>1. req' \in [Handlers -> {Idle} \cup Request]
  BY Beginning DEF OthersStay
<1>2. used' \in [offers : 0..MaxOffers, texts : 0..MaxTexts]
  BY DEF Begin, TypeOK, None
<1> QED
  BY <1>1, <1>2 DEF Begin, TypeOK

LEMMA FailTypes ==
  ASSUME TypeOK, Known, NEW h \in Handlers, Fail(h)
  PROVE  TypeOK' /\ Known'
<1>1. Ends(h)
  BY Ending DEF Fail
<1>2. torn' \subseteq OfferIds
  <2>1. req[h].offer \in 0..MaxOffers /\ req[h].new \in 0..MaxOffers
    BY BusyRequest DEF Fail, Request
  <2>2. {req[h].offer, req[h].new} \ {None} \subseteq OfferIds
    BY <2>1 DEF OfferIds, None
  <2> QED
    BY <2>2 DEF Fail, TypeOK
<1>3. TypeOK'
  BY <1>1, <1>2 DEF Fail, TypeOK, Ends, OthersStay
<1>4. Known'
  BY <1>1 DEF Known, Ends, OthersStay
<1> QED
  BY <1>3, <1>4

LEMMA NextType == TypeOK /\ Known /\ [Next]_vars => TypeOK' /\ Known'
<1> SUFFICES ASSUME TypeOK, Known, [Next]_vars PROVE TypeOK' /\ Known'
  OBVIOUS
<1>1. CASE UNCHANGED vars
  BY <1>1 DEF vars, TypeOK, Known
<1>2. CASE Next
  BY <1>2, BeginTypes, BeginKnown, ProceedTypes, ProceedKnown, FailTypes DEF Next
<1> QED
  BY <1>1, <1>2

LEMMA InitKnown == Init => Known
BY DEF Init, Known

\* Every variable keeps its type.
THEOREM TypeCorrect == Spec => []TypeOK
BY InitType, InitKnown, NextType, PTL DEF Spec
-----------------------------------------------------------------------------
(***************************************************************************)
(* News is counted: any number of requests in flight.  A request that ends *)
(* half way, or replies to an offer nobody has stored, posts a message it  *)
(* never counts; a second start sets the counters back.                    *)
(***************************************************************************)
Undisturbed == ~MayFail /\ Started /\ "reply_offer" \notin EnabledOps

StaysStarted == conv.exists /\ \A h \in Handlers : ~At(h, "create")

\* Who counters an offer has seen it.
ParentsExist ==
  \A h \in Handlers :
    req[h] # Idle /\ req[h].op = "counter_offer" /\ req[h].step # "readOffer" =>
      offers[req[h].offer].status # Absent

CountInv == StaysStarted /\ ParentsExist /\ NewsIsCounted

\* An offer that is there stays there.
LEMMA OffersStay ==
  ASSUME TypeOK, NEW h \in Handlers, Begin(h) \/ Proceed(h) \/ Fail(h), NEW o \in OfferIds
  PROVE  offers[o].status # Absent => offers'[o].status # Absent
<1>1. CASE StoreOffer(h)
  BY <1>1 DEF StoreOffer, TypeOK, Absent
<1>2. CASE CounterParent(h)
  BY <1>2 DEF CounterParent, TypeOK, Absent
<1>3. CASE Settle(h)
  BY <1>3 DEF Settle, TypeOK, Absent
<1>4. CASE ~StoreOffer(h) /\ ~CounterParent(h) /\ ~Settle(h)
  BY <1>4 DEF Begin, Proceed, Fail, ReadConv, Create, PostText, Count, MarkRead, Block,
       Unblock, Share, ReadPhone, PostCard, ReadParent, CounterCard, ReadOffer,
       PostNotice, MarkCard, UpdateConv
<1> QED
  BY <1>1, <1>2, <1>3, <1>4

\* The parent of a counter-offer has a number of an offer.
LEMMA ParentNumber ==
  ASSUME TypeOK, Known, NEW h \in Handlers, req[h] # Idle, req[h].op = "counter_offer"
  PROVE  req[h].offer \in OfferIds
<1>1. req[h].offer \in 0..MaxOffers /\ req[h].offer # None
  BY BusyRequest DEF Known, WellFormed, Request
<1> QED
  BY <1>1 DEF OfferIds, None

LEMMA ParentsStay ==
  ASSUME TypeOK, Known, ParentsExist, NEW h \in Handlers,
         Begin(h) \/ Proceed(h) \/ Fail(h)
  PROVE  ParentsExist'
<1> SUFFICES ASSUME NEW g \in Handlers, req'[g] # Idle, req'[g].op = "counter_offer",
                    req'[g].step # "readOffer"
             PROVE  offers'[req'[g].offer].status # Absent
  BY DEF ParentsExist
<1>1. ASSUME req[g] # Idle, req[g].op = "counter_offer", req'[g].offer = req[g].offer,
             offers[req[g].offer].status # Absent
      PROVE  offers'[req'[g].offer].status # Absent
  BY <1>1, ParentNumber, OffersStay
<1>2. CASE g # h
  <2>1. req'[g] = req[g]
    BY <1>2, OnlyItself DEF OthersStay
  <2> QED
    BY <1>1, <2>1 DEF ParentsExist
<1>3. CASE g = h
  <2>1. ~Begin(h)
    BY <1>3, Beginning DEF FirstStep, OfferOps
  <2>2. ~Fail(h)
    BY <1>3, Ending DEF Fail, Ends
  <2>3. PICK step : Moves(h, step)
    BY <1>3, <2>1, <2>2, ReadConvSteps, ProceedSteps DEF Proceed, Ends
  <2>4. req[h] # Idle /\ req[h].op = "counter_offer" /\ req'[h].offer = req[h].offer
    BY <1>3, <2>1, <2>2, <2>3, ProceedBusy DEF Moves
  <2>5. CASE req[h].step = "readOffer"
    <3>1. ReadOffer(h)
      BY <2>1, <2>2, <2>5 DEF Proceed, ReadConv, Create, PostText, Count, MarkRead, Block,
         Unblock, Share, ReadPhone, PostCard, StoreOffer, ReadParent, CounterParent,
         CounterCard, Settle, PostNotice, MarkCard, UpdateConv, At
    <3>2. offers[req[h].offer].status # Absent
      BY <1>3, <3>1, ProceedSteps DEF Ends, MayAnswer, Absent
    <3> QED
      BY <1>1, <1>3, <2>4, <3>2
  <2>6. CASE req[h].step # "readOffer"
    BY <1>1, <1>3, <2>4, <2>6 DEF ParentsExist
  <2> QED
    BY <2>5, <2>6
<1> QED
  BY <1>2, <1>3

\* The four kinds of steps: those that change nothing of it, ...
LEMMA QuietCounted ==
  ASSUME NewsIsCounted, NEW h \in Handlers, OthersStay(h),
         news' = news, conv'.unread = conv.unread,
         \A u \in Users : Telling(h, u) => Telling(h, u)'
  PROVE  TypeOK => NewsIsCounted'
<1> SUFFICES ASSUME TypeOK, NEW u \in news
             PROVE  conv.unread[u] > 0 \/ \E g \in Handlers : Telling(g, u)'
  BY DEF NewsIsCounted
<1>1. u \in Users
  BY DEF TypeOK
<1>2. CASE conv.unread[u] > 0
  BY <1>2
<1>3. ASSUME NEW g \in Handlers, Telling(g, u) PROVE Telling(g, u)'
  <2>1. CASE g = h
    BY <1>1, <1>3, <2>1 DEF Telling
  <2>2. CASE g # h
    BY <1>3, <2>2 DEF Telling, OthersStay
  <2> QED
    BY <2>1, <2>2
<1> QED
  BY <1>2, <1>3 DEF NewsIsCounted

\* ... those that post a message and are to count it, ...
LEMMA PostCounted ==
  ASSUME TypeOK, NewsIsCounted, NEW h \in Handlers, OthersStay(h), req[h] \in Request,
         NEW w \in Users, w = Other(req[h].user), Telling(h, w)',
         news' = news \cup {w}, conv' = conv
  PROVE  NewsIsCounted'
<1> SUFFICES ASSUME NEW u \in news, u # w
             PROVE  conv.unread[u] > 0 \/ \E g \in Handlers : Telling(g, u)'
  BY DEF NewsIsCounted
<1>1. ASSUME NEW g \in Handlers, Telling(g, u) PROVE Telling(g, u)'
  <2>1. g # h
    BY <1>1 DEF Telling
  <2> QED
    BY <1>1, <2>1 DEF Telling, OthersStay
<1> QED
  BY <1>1 DEF NewsIsCounted

\* ... those that count it, ...
LEMMA CountCounted ==
  ASSUME TypeOK, NewsIsCounted, NEW h \in Handlers, OthersStay(h), req[h] \in Request,
         news' = news, conv'.unread[Other(req[h].user)] > 0,
         \A v \in Users \ {Other(req[h].user)} : conv'.unread[v] = conv.unread[v]
  PROVE  NewsIsCounted'
<1> SUFFICES ASSUME NEW u \in news, u # Other(req[h].user)
             PROVE  conv'.unread[u] > 0 \/ \E g \in Handlers : Telling(g, u)'
  BY DEF NewsIsCounted
<1>1. conv'.unread[u] = conv.unread[u]
  BY DEF TypeOK
<1>2. ASSUME NEW g \in Handlers, Telling(g, u) PROVE Telling(g, u)'
  <2>1. g # h
    BY <1>2 DEF Telling
  <2> QED
    BY <1>2, <2>1 DEF Telling, OthersStay
<1> QED
  BY <1>1, <1>2 DEF NewsIsCounted

\* ... and reading.
LEMMA ReadCounted ==
  ASSUME TypeOK, Known, NewsIsCounted, NEW h \in Handlers, MarkRead(h)
  PROVE  NewsIsCounted'
<1>1. req[h] \in Request /\ req[h].step = "markRead" /\ OthersStay(h)
  BY BusyRequest, ProceedSteps DEF MarkRead, At, Ends
<1>2. req[h].op = "mark_read"
  BY <1>1, NotIdle DEF Known, WellFormed, OpsAt
<1> SUFFICES ASSUME NEW u \in news, u # req[h].user
             PROVE  conv'.unread[u] > 0 \/ \E g \in Handlers : Telling(g, u)'
  BY DEF NewsIsCounted, MarkRead
<1>3. conv'.unread[u] = conv.unread[u]
  BY <1>1 DEF MarkRead, TypeOK, Conversation
<1>4. ASSUME NEW g \in Handlers, Telling(g, u) PROVE Telling(g, u)'
  <2>1. g # h
    BY <1>1, <1>4 DEF Telling
  <2> QED
    BY <1>1, <1>4, <2>1 DEF Telling, OthersStay
<1> QED
  BY <1>3, <1>4 DEF NewsIsCounted

LEMMA ProceedCounted ==
  ASSUME Undisturbed, TypeOK, Known, CountInv, NEW h \in Handlers, Proceed(h)
  PROVE  NewsIsCounted'
<1> DEFINE r == req[h]
<1>0. r \in Request /\ r.user \in Users /\ Other(r.user) \in Users
  BY ProceedBusy, OtherUser DEF Request
<1> PICK u \in Users : u = Other(r.user)
  BY <1>0
<1>1. /\ r \in Request /\ r # Idle /\ OthersStay(h) /\ r.op \in OpsAt(r.step)
      /\ r.user \in Users /\ NewsIsCounted
  BY <1>0, ProceedBusy, OnlyItself DEF Known, WellFormed, Request, CountInv
<1>2. \A step : At(h, step) => r.step = step
  BY DEF At
<1>3. \A v : Telling(h, v) => v = u
  BY DEF Telling
<1> HIDE DEF r
<1>4. CASE PostText(h) \/ PostCard(h) \/ (PostNotice(h) /\ r.op = "accept_offer")
  <2>1. news' = news \cup {u} /\ conv' = conv
    BY <1>4 DEF PostText, PostCard, PostNotice, Tell, r
  <2>2. Telling(h, u)'
    BY <1>1, <1>4, ProceedSteps DEF Moves, Telling, r
  <2> QED
    BY <1>1, <2>1, <2>2, PostCounted DEF r
<1>5. CASE Count(h)
  BY <1>1, <1>5, CountCounted, Counting DEF Count, TypeOK, r
<1>6. CASE UpdateConv(h) /\ r.op \in OfferOps \cup {"accept_offer"}
  BY <1>1, <1>6, CountCounted, Updating DEF UpdateConv, r
<1>7. CASE MarkRead(h)
  BY <1>1, <1>7, ReadCounted
<1>8. CASE Block(h) \/ Unblock(h) \/ Share(h)
  <2>1. news' = news /\ conv'.unread = conv.unread
    BY <1>8 DEF Block, Unblock, Share, TypeOK, Conversation
  <2>2. \A v : ~Telling(h, v)
    BY <1>1, <1>2, <1>8 DEF Block, Unblock, Share, Telling, r
  <2> QED
    BY <1>1, <2>1, <2>2, QuietCounted
<1>9. CASE ReadConv(h) \/ ReadOffer(h) \/ Settle(h) \/ ReadPhone(h)
           \/ (PostNotice(h) /\ r.op # "accept_offer")
  <2>1. news' = news /\ conv' = conv
    BY <1>9 DEF ReadConv, ReadOffer, Settle, ReadPhone, PostNotice, r
  <2>2. \A v : ~Telling(h, v)
    BY <1>1, <1>2, <1>9 DEF ReadConv, ReadOffer, Settle, ReadPhone, PostNotice, Telling, r
  <2> QED
    BY <1>1, <2>1, <2>2, QuietCounted
<1>10. CASE UpdateConv(h) /\ r.op \notin OfferOps \cup {"accept_offer"}
  <2>1. news' = news /\ conv'.unread = conv.unread
    BY <1>1, <1>10, Updating DEF UpdateConv, r
  <2>2. \A v : ~Telling(h, v)
    <3>1. r.step = "updateConv"
      BY <1>2, <1>10 DEF UpdateConv
    <3>2. r.op = "withdraw_offer"
      BY <1>1, <1>10, <3>1 DEF OpsAt, SettleOps
    <3> QED
      BY <3>1, <3>2 DEF Telling, r
  <2> QED
    BY <1>1, <2>1, <2>2, QuietCounted
<1>11. CASE StoreOffer(h) \/ ReadParent(h) \/ CounterParent(h) \/ CounterCard(h)
            \/ MarkCard(h)
  <2>1. news' = news /\ conv' = conv
    BY <1>11 DEF StoreOffer, ReadParent, CounterParent, CounterCard, MarkCard
  <2>2. r.op # "withdraw_offer"
    BY <1>1, <1>2, <1>11 DEF StoreOffer, ReadParent, CounterParent, CounterCard, MarkCard,
                             OpsAt, OfferOps
  <2>3. ~Ends(h)
    <3>1. CASE CounterParent(h)
      <4>1. r.op = "counter_offer" /\ r.step = "counterParent"
        BY <1>1, <1>2, <3>1 DEF CounterParent, OpsAt, Known, WellFormed, Undisturbed, r
      <4> QED
        BY <1>1, <3>1, <4>1, ProceedSteps DEF CountInv, ParentsExist, Ends, Moves, r
    <3> QED
      BY <1>11, <3>1, ProceedSteps DEF Moves, Ends
  <2>4. Telling(h, u)'
    BY <1>1, <1>11, <2>2, <2>3, ProceedSteps DEF Moves, Telling, r
  <2> QED
    BY <1>1, <1>3, <2>1, <2>4, QuietCounted
<1>12. ~Create(h)
  BY DEF Create, CountInv, StaysStarted
<1> QED
  BY <1>4, <1>5, <1>6, <1>7, <1>8, <1>9, <1>10, <1>11, <1>12 DEF Proceed

LEMMA InitCounted == Undisturbed /\ Init => CountInv
<1> SUFFICES ASSUME Undisturbed, Init PROVE CountInv
  OBVIOUS
<1>1. conv.exists
  BY DEF Init, Fresh, Undisturbed
<1> QED
  BY <1>1 DEF Init, CountInv, StaysStarted, ParentsExist, NewsIsCounted, At

LEMMA StartedStays ==
  ASSUME TypeOK, Known, StaysStarted, NEW h \in Handlers, Begin(h) \/ Proceed(h)
  PROVE  StaysStarted'
<1>1. conv'.exists
  <2>1. CASE Count(h) \/ UpdateConv(h)
    <3>1. /\ req[h] \in Request /\ Other(req[h].user) \in Users
          /\ conv \in Conversation /\ conv.exists
      BY <2>1, ProceedBusy, OtherUser DEF Proceed, StaysStarted, TypeOK, Request
    <3>2. Updated(req[h]).exists = conv.exists
      BY <3>1, Updating
    <3>3. CountFor(Other(req[h].user), conv).exists = conv.exists
      BY <3>1, Counting
    <3> QED
      BY <2>1, <3>1, <3>2, <3>3 DEF Count, UpdateConv
  <2>2. CASE MarkRead(h) \/ Block(h) \/ Unblock(h) \/ Share(h)
    BY <2>2 DEF MarkRead, Block, Unblock, Share, StaysStarted, TypeOK, Conversation
  <2>3. CASE Create(h)
    BY <2>3 DEF Create, StaysStarted
  <2>4. CASE ~(Count(h) \/ UpdateConv(h) \/ MarkRead(h) \/ Block(h) \/ Unblock(h)
               \/ Share(h) \/ Create(h))
    BY <2>4 DEF Begin, Proceed, ReadConv, PostText, ReadPhone, PostCard, StoreOffer,
       ReadParent, CounterParent, CounterCard, ReadOffer, Settle, PostNotice, MarkCard,
       StaysStarted
  <2> QED
    BY <2>1, <2>2, <2>3, <2>4
<1>2. ASSUME NEW g \in Handlers PROVE req'[g] = Idle \/ req'[g].step # "create"
  <2>1. CASE g # h
    BY <2>1, OnlyItself DEF OthersStay, StaysStarted, At
  <2>2. CASE g = h /\ Begin(h)
    BY <2>2, Beginning DEF FirstStep, Ops, OfferOps, SettleOps
  <2>3. CASE g = h /\ Proceed(h)
    BY <2>3, ReadConvSteps, ProceedSteps DEF Proceed, Ends, Moves, StaysStarted
  <2> QED
    BY <2>1, <2>2, <2>3
<1> QED
  BY <1>1, <1>2 DEF StaysStarted, At

LEMMA NextCounted ==
  Undisturbed /\ TypeOK /\ Known /\ CountInv /\ [Next]_vars => CountInv'
<1> SUFFICES ASSUME Undisturbed, TypeOK, Known, CountInv, [Next]_vars PROVE CountInv'
  OBVIOUS
<1>1. CASE UNCHANGED vars
  BY <1>1 DEF vars, CountInv, StaysStarted, ParentsExist, NewsIsCounted, At, Telling
<1>2. ASSUME NEW h \in Handlers, Begin(h) \/ Proceed(h) PROVE CountInv'
  <2>1. NewsIsCounted'
    <3>1. CASE Begin(h)
      <4>1. news' = news /\ conv' = conv /\ \A u : ~Telling(h, u)
        BY <3>1 DEF Begin, Telling
      <4> QED
        BY <3>1, <4>1, OnlyItself, QuietCounted DEF CountInv
    <3>2. CASE Proceed(h)
      BY <3>2, ProceedCounted
    <3> QED
      BY <1>2, <3>1, <3>2
  <2> QED
    BY <1>2, <2>1, StartedStays, ParentsStay DEF CountInv
<1>3. \A h \in Handlers : ~Fail(h)
  BY DEF Fail, Undisturbed
<1> QED
  BY <1>1, <1>2, <1>3 DEF Next

\* Whoever has not read a message sees a count, or is about to, however many
\* messages are posted, offered, accepted and read at the same time.
THEOREM EveryMessageCounts ==
  ASSUME Undisturbed
  PROVE  Spec => []NewsIsCounted
<1>1. CountInv => NewsIsCounted
  BY DEF CountInv
<1>2. Init => CountInv
  BY InitCounted
<1>3. TypeOK /\ Known /\ CountInv /\ [Next]_vars => CountInv'
  BY NextCounted
<1> QED
  BY <1>1, <1>2, <1>3, InitType, InitKnown, NextType, PTL DEF Spec
-----------------------------------------------------------------------------
(***************************************************************************)
(* One request at a time, each of which may fail at any step: what is      *)
(* answered stays answered, unless an offer names it as its parent, and    *)
(* conversation, offers and cards agree.                                   *)
(***************************************************************************)
OneAtATime == \A g, h \in Handlers : g = h

Numbered ==
  /\ used.offers \in 0..MaxOffers
  /\ \A o \in OfferIds : o > used.offers => offers[o].status = Absent

\* What a request has done, and found, when it comes to a step.
Stage(r) ==
  /\ r.op \in OfferOps =>
       /\ r.new \in OfferIds /\ r.new <= used.offers /\ r.offer < r.new
       /\ r.step \in {"readOffer", "readConv", "postCard", "storeOffer"} =>
            offers[r.new].status = Absent
       /\ r.step \in {"readParent", "counterParent", "counterCard", "updateConv"} =>
            offers[r.new].status = "pending"
  /\ r.op \in {"reply_offer", "counter_offer"} =>
       /\ r.offer \in OfferIds
       /\ r.step = "counterParent" => (r.found <=> offers[r.offer].status # Absent)
       /\ r.step \in {"counterCard", "updateConv"} => offers[r.offer].status = "countered"
  /\ /\ r.op = "counter_offer"
     /\ r.step \in {"readConv", "postCard", "storeOffer", "readParent", "counterParent"}
     => offers[r.offer].status = "pending"
  /\ r.op \in SettleOps =>
       /\ r.offer \in OfferIds
       /\ r.step = "settle" => offers[r.offer].status = "pending"
       /\ r.step \in {"postNotice", "markCard", "updateConv"} =>
            offers[r.offer].status = IF r.op = "accept_offer" THEN "accepted"
                                                              ELSE "withdrawn"
       /\ r.op = "withdraw_offer" /\ r.step # "readConv" => r.active = conv.active
  /\ r.op # "start_conversation" => conv.exists
  /\ r.step = "create" => ~conv.exists
  /\ r.step = "readPhone" => PhoneIsOpen(r.user)

Staged == \A h \in Handlers : req[h] # Idle => Stage(req[h])

\* h has answered or withdrawn o, and has yet to write the conversation; or to
\* mark its card.
Answering(h, o) ==
  /\ req[h] # Idle /\ req[h].offer = o
  /\ req[h].step \in {"postNotice", "markCard", "counterCard", "updateConv"}

Marking(h, o) ==
  /\ req[h] # Idle /\ req[h].offer = o
  /\ \/ req[h].op = "accept_offer" /\ req[h].step \in {"postNotice", "markCard"}
     \/ req[h].step = "counterCard"

ActiveInv ==
  conv.active \notin torn \cup {None} =>
    offers[conv.active].status = "pending" \/ \E h \in Handlers : Answering(h, conv.active)

\* Countered, the offer of the deal is one a reply is at work on, or was.
DealInv ==
  conv.deal = "agreed" =>
    /\ conv.agreed \in OfferIds
    /\ \/ offers[conv.agreed].status = "accepted"
       \/ /\ offers[conv.agreed].status = "countered"
          /\ conv.agreed \in torn \/ \E h \in Handlers : Answering(h, conv.agreed)

CardsInv ==
  \A o \in OfferIds \ torn : offers[o].status \in {"accepted", "countered"} =>
    cards[o] = offers[o].status \/ \E h \in Handlers : Marking(h, o)

SerialInv == Numbered /\ Staged /\ ActiveInv /\ DealInv /\ CardsInv

LEMMA InitSerial == Init => SerialInv
<1> SUFFICES ASSUME Init PROVE SerialInv
  OBVIOUS
<1>1. conv.active = None /\ conv.deal = "none"
  BY DEF Init, Fresh
<1>2. \A o \in OfferIds : offers[o].status = Absent
  BY DEF Init
<1>3. used.offers = 0 /\ \A h \in Handlers : req[h] = Idle
  BY DEF Init
<1> QED
  BY <1>1, <1>2, <1>3 DEF SerialInv, Numbered, Staged, ActiveInv, DealInv, CardsInv,
                          Absent

\* An answered offer is not touched again, but by a reply that counters it.
Stays(o) ==
  \/ offers'[o].status = offers[o].status
  \/ /\ offers'[o].status = "countered"
     /\ \E h \in Handlers :
          At(h, "counterParent") /\ req[h].op = "reply_offer" /\ req[h].offer = o

LEMMA AnsweredStays ==
  ASSUME TypeOK, Known, OneAtATime, SerialInv, NEW h \in Handlers,
         Begin(h) \/ Proceed(h) \/ Fail(h), NEW o \in OfferIds, offers[o].status \in Settled
  PROVE  Stays(o)
<1>1. CASE StoreOffer(h)
  <2>1. offers[req[h].new].status = Absent
    BY <1>1 DEF StoreOffer, At, Known, WellFormed, OpsAt, SerialInv, Staged, Stage
  <2> QED
    BY <1>1, <2>1 DEF StoreOffer, Settled, Absent, TypeOK, Stays
<1>2. CASE CounterParent(h)
  <2>1. /\ At(h, "counterParent") /\ req[h].op \in {"reply_offer", "counter_offer"}
        /\ req[h].op = "counter_offer" => offers[req[h].offer].status = "pending"
    BY <1>2 DEF CounterParent, At, Known, WellFormed, OpsAt, SerialInv, Staged, Stage
  <2>2. \/ offers'[o].status = offers[o].status
        \/ o = req[h].offer /\ offers'[o].status = "countered"
    BY <1>2 DEF CounterParent, TypeOK
  <2> QED
    BY <2>1, <2>2 DEF Settled, Stays
<1>3. CASE Settle(h)
  <2>1. offers[req[h].offer].status = "pending"
    BY <1>3 DEF Settle, At, Known, WellFormed, OpsAt, SerialInv, Staged, Stage
  <2> QED
    BY <1>3, <2>1 DEF Settle, Settled, TypeOK, Stays
<1>4. CASE ~StoreOffer(h) /\ ~CounterParent(h) /\ ~Settle(h)
  <2>1. UNCHANGED offers
    BY <1>4 DEF Begin, Proceed, Fail, ReadConv, Create, PostText, Count, MarkRead, Block,
         Unblock, Share, ReadPhone, PostCard, ReadParent, CounterCard, ReadOffer,
         PostNotice, MarkCard, UpdateConv
  <2> QED
    BY <2>1 DEF Stays
<1> QED
  BY <1>1, <1>2, <1>3, <1>4

\* A step that leaves the documents to themselves, or only writes to fields of
\* the conversation that nothing here depends on.
LEMMA QuietSerial ==
  ASSUME TypeOK, OneAtATime, SerialInv, NEW h \in Handlers,
         UNCHANGED <<offers, cards>>, torn \subseteq torn',
         used'.offers \in used.offers..MaxOffers,
         conv'.active = conv.active, conv'.deal = conv.deal, conv'.agreed = conv.agreed,
         \A o \in OfferIds \ torn' : /\ Answering(h, o) => Answering(h, o)'
                                     /\ Marking(h, o) => Marking(h, o)'
  PROVE  Numbered' /\ ActiveInv' /\ DealInv' /\ CardsInv'
<1>1. Numbered'
  BY DEF SerialInv, Numbered, OfferIds
<1>2. ActiveInv'
  <2>1. conv.active \in OfferIds \/ conv.active = None
    BY DEF TypeOK, Conversation, OfferIds, None
  <2> DEFINE a == conv.active
  <2>2. PICK b : b = conv.active
    OBVIOUS
  <2>3. b \notin torn' \cup {None} =>
          offers[b].status = "pending" \/ \E g \in Handlers : Answering(g, b)
    BY <2>2 DEF SerialInv, ActiveInv
  <2>4. b \notin torn' \cup {None} =>
          offers[b].status = "pending" \/ Answering(h, b)'
    BY <2>1, <2>2, <2>3 DEF OneAtATime
  <2> QED
    BY <2>2, <2>4 DEF ActiveInv, Answering
<1>3. DealInv'
  <2> PICK a : a = conv.agreed
    OBVIOUS
  <2>1. conv.deal = "agreed" =>
          /\ a \in OfferIds
          /\ \/ offers[a].status = "accepted"
             \/ offers[a].status = "countered" /\ (a \in torn' \/ Answering(h, a)')
    BY DEF SerialInv, DealInv, OneAtATime
  <2> QED
    BY <2>1 DEF DealInv, Answering
<1>4. CardsInv'
  BY DEF SerialInv, CardsInv, OneAtATime
<1> QED
  BY <1>1, <1>2, <1>3, <1>4

LEMMA StagedStep ==
  ASSUME OneAtATime, NEW h \in Handlers, Ends(h) \/ Stage(req[h])'
  PROVE  Staged'
BY DEF OneAtATime, Staged, Ends

LEMMA BeginSerial ==
  ASSUME TypeOK, OneAtATime, SerialInv, NEW h \in Handlers, Begin(h)
  PROVE  SerialInv'
<1>1. /\ UNCHANGED <<conv, offers, cards, torn, revealed>> /\ req[h] = Idle
      /\ req'[h] \in Request /\ req'[h].op \in EnabledOps
  BY Beginning DEF Begin
<1>2. /\ used.offers \in 0..MaxOffers /\ used'.offers \in used.offers..MaxOffers
      /\ req'[h].op \in OfferOps => req'[h].new = used.offers + 1 /\ req'[h].new = used'.offers
  BY <1>1, Beginning DEF TypeOK
<1>3. req'[h].offer \in 0..used.offers
      /\ (req'[h].op \in SettleOps \cup {"reply_offer", "counter_offer"}
            => req'[h].offer \in OfferIds)
  BY <1>1, <1>2, Beginning DEF OfferIds, None
<1>4. req'[h].step = FirstStep(req'[h].op) /\ req'[h].op \in Ops
  BY <1>1, Beginning DEF Request
<1>5. /\ req'[h].op \in OfferOps => req'[h].step \in {"readConv", "readOffer"}
      /\ req'[h].op = "counter_offer" => req'[h].step = "readOffer"
      /\ req'[h].op \in SettleOps => req'[h].step \in {"readConv", "readOffer"}
      /\ req'[h].op = "withdraw_offer" => req'[h].step = "readConv"
      /\ req'[h].step \notin {"create", "readPhone"}
  BY <1>4 DEF FirstStep, Ops, OfferOps, SettleOps
<1>6. req'[h].op \in OfferOps =>
        /\ req'[h].new \in OfferIds /\ req'[h].new <= used'.offers
        /\ req'[h].offer < req'[h].new /\ offers[req'[h].new].status = Absent
  BY <1>2, <1>3 DEF OfferIds, SerialInv, Numbered
<1>7. req'[h].op # "start_conversation" => conv.exists
  BY Beginning
<1>8. Stage(req[h])'
  BY <1>1, <1>3, <1>5, <1>6, <1>7 DEF Stage, OfferOps, SettleOps
<1>9. \A o : ~Answering(h, o) /\ ~Marking(h, o)
  BY <1>1 DEF Answering, Marking
<1> QED
  BY <1>1, <1>2, <1>8, <1>9, StagedStep, QuietSerial DEF SerialInv

LEMMA FailSerial ==
  ASSUME TypeOK, Known, OneAtATime, SerialInv, NEW h \in Handlers, Fail(h)
  PROVE  SerialInv'
<1>1. /\ UNCHANGED <<conv, offers, cards, used, revealed>> /\ Ends(h)
      /\ torn' = torn \cup ({req[h].offer, req[h].new} \ {None})
  BY Ending DEF Fail
<1>2. \A o \in OfferIds \ torn' : ~Answering(h, o) /\ ~Marking(h, o)
  BY <1>1 DEF Answering, Marking, OfferIds, None
<1>3. used.offers \in used.offers..MaxOffers
  BY DEF TypeOK
<1> QED
  BY <1>1, <1>2, <1>3, StagedStep, QuietSerial DEF SerialInv

\* Steps that read, or write what no other step tests.
LEMMA ReadingSerial ==
  ASSUME TypeOK, Known, OneAtATime, SerialInv, NEW h \in Handlers,
         ReadConv(h) \/ ReadOffer(h) \/ ReadParent(h)
  PROVE  SerialInv'
<1>1. req[h] \in Request /\ req[h] # Idle /\ WellFormed(req[h]) /\ Stage(req[h])
  BY ProceedBusy DEF Proceed, Known, SerialInv, Staged
<1>2. UNCHANGED <<conv, offers, cards, used, torn, revealed>>
  BY DEF ReadConv, ReadOffer, ReadParent
<1>3. \A o : ~Answering(h, o) /\ ~Marking(h, o)
  BY DEF ReadConv, ReadOffer, ReadParent, At, Answering, Marking
<1>4. used.offers \in used.offers..MaxOffers
  BY DEF TypeOK
<1>5. CASE Ends(h)
  BY <1>2, <1>3, <1>4, <1>5, StagedStep, QuietSerial DEF SerialInv
<1>6. CASE ReadConv(h) /\ ~Ends(h)
  <2>1. req[h].step = "readConv"
    BY <1>6 DEF ReadConv, At
  <2>2. Stage(req[h])'
    BY <1>1, <1>2, <1>6, <2>1, ReadConvSteps
       DEF Stage, Moves, Keeps, OfferOps, SettleOps, PhoneIsOpen
  <2> QED
    BY <1>2, <1>3, <1>4, <2>2, StagedStep, QuietSerial DEF SerialInv
<1>7. CASE ReadOffer(h) /\ ~Ends(h)
  <2>1. req[h].step = "readOffer" /\ req[h].op \in SettleOps \cup {"counter_offer"}
    BY <1>1, <1>7 DEF ReadOffer, At, WellFormed, OpsAt
  <2>2. Stage(req[h])'
    BY <1>1, <1>2, <1>7, <2>1, ProceedSteps
       DEF Stage, Moves, Keeps, OfferOps, SettleOps, MayAnswer
  <2> QED
    BY <1>2, <1>3, <1>4, <2>2, StagedStep, QuietSerial DEF SerialInv
<1>8. CASE ReadParent(h)
  <2>1. req[h].step = "readParent" /\ req[h].op \in {"reply_offer", "counter_offer"}
    BY <1>1, <1>8 DEF ReadParent, At, WellFormed, OpsAt
  <2>2. Stage(req[h])'
    BY <1>1, <1>2, <1>8, <2>1, NoteFound
       DEF Stage, Moves, OfferOps, SettleOps, Absent
  <2> QED
    BY <1>2, <1>3, <1>4, <2>2, StagedStep, QuietSerial DEF SerialInv
<1> QED
  BY <1>5, <1>6, <1>7, <1>8

LEMMA MessageSerial ==
  ASSUME TypeOK, Known, OneAtATime, SerialInv, NEW h \in Handlers,
         PostText(h) \/ PostNotice(h)
  PROVE  SerialInv'
<1>1. /\ req[h] \in Request /\ req[h] # Idle /\ WellFormed(req[h]) /\ Stage(req[h])
  BY ProceedBusy DEF Proceed, Known, SerialInv, Staged
<1>2. UNCHANGED <<conv, offers, cards, used, torn, revealed>>
  BY DEF PostText, PostNotice
<1>3. used.offers \in used.offers..MaxOffers
  BY DEF TypeOK
<1>4. CASE PostText(h)
  <2>1. req[h].op = "send_message" /\ req[h].step = "postText"
    BY <1>1, <1>4 DEF PostText, At, WellFormed, OpsAt
  <2>2. Stage(req[h])'
    BY <1>1, <1>2, <1>4, <2>1, ProceedSteps DEF Stage, Moves, OfferOps, SettleOps
  <2>3. \A o : ~Answering(h, o) /\ ~Marking(h, o)
    BY <2>1 DEF Answering, Marking
  <2> QED
    BY <1>2, <1>3, <2>2, <2>3, StagedStep, QuietSerial DEF SerialInv
<1>5. CASE PostNotice(h)
  <2>1. req[h].op \in SettleOps /\ req[h].step = "postNotice"
    BY <1>1, <1>5 DEF PostNotice, At, WellFormed, OpsAt
  <2>2. Stage(req[h])'
    BY <1>1, <1>2, <1>5, <2>1, ProceedSteps DEF Stage, Moves, Keeps, OfferOps, SettleOps
  <2>3. \A o : /\ Answering(h, o) => Answering(h, o)'
               /\ Marking(h, o) => Marking(h, o)'
    BY <1>5, <2>1, ProceedSteps DEF Answering, Marking, Moves
  <2> QED
    BY <1>2, <1>3, <2>2, <2>3, StagedStep, QuietSerial DEF SerialInv
<1> QED
  BY <1>4, <1>5

LEMMA FieldSerial ==
  ASSUME TypeOK, Known, OneAtATime, SerialInv, NEW h \in Handlers,
         Count(h) \/ MarkRead(h) \/ Block(h) \/ Unblock(h) \/ Share(h)
  PROVE  SerialInv'
<1>1. req[h] \in Request /\ Other(req[h].user) \in Users /\ conv \in Conversation
  BY ProceedBusy, OtherUser DEF Proceed, Request, TypeOK
<1>2. UNCHANGED <<offers, cards, used, torn, revealed>> /\ Ends(h)
  BY ProceedSteps DEF Count, MarkRead, Block, Unblock, Share
<1>3. \A o : ~Answering(h, o) /\ ~Marking(h, o)
  BY DEF Count, MarkRead, Block, Unblock, Share, At, Answering, Marking
<1>4. conv'.active = conv.active /\ conv'.deal = conv.deal /\ conv'.agreed = conv.agreed
  <2>1. CASE Count(h)
    BY <1>1, <2>1, Counting DEF Count
  <2>2. CASE MarkRead(h) \/ Block(h) \/ Unblock(h) \/ Share(h)
    BY <1>1, <2>2 DEF MarkRead, Block, Unblock, Share, Conversation
  <2> QED
    BY <2>1, <2>2
<1>5. used.offers \in used.offers..MaxOffers
  BY DEF TypeOK
<1> QED
  BY <1>2, <1>3, <1>4, <1>5, StagedStep, QuietSerial DEF SerialInv

LEMMA CreateSerial ==
  ASSUME TypeOK, Known, OneAtATime, SerialInv, NEW h \in Handlers, Create(h)
  PROVE  SerialInv'
<1>1. Ends(h) /\ conv' = Fresh /\ UNCHANGED <<offers, cards, used, torn, revealed>>
  BY ProceedSteps DEF Create
<1>2. \A o : ~Marking(h, o)
  BY DEF Create, At, Marking
<1>3. Numbered' /\ CardsInv'
  BY <1>1, <1>2 DEF SerialInv, Numbered, CardsInv, OneAtATime
<1>4. ActiveInv' /\ DealInv'
  BY <1>1, FreshType DEF ActiveInv, DealInv
<1> QED
  BY <1>1, <1>3, <1>4, StagedStep DEF SerialInv

LEMMA PhoneSerial ==
  ASSUME TypeOK, Known, OneAtATime, SerialInv, NEW h \in Handlers, ReadPhone(h)
  PROVE  SerialInv'
<1>1. Ends(h) /\ UNCHANGED <<conv, offers, cards, used, torn>>
  BY ProceedSteps DEF ReadPhone
<1>2. \A o : ~Answering(h, o) /\ ~Marking(h, o)
  BY DEF ReadPhone, At, Answering, Marking
<1>3. used.offers \in used.offers..MaxOffers
  BY DEF TypeOK
<1> QED
  BY <1>1, <1>2, <1>3, StagedStep, QuietSerial DEF SerialInv

LEMMA PostCardSerial ==
  ASSUME TypeOK, Known, OneAtATime, SerialInv, NEW h \in Handlers, PostCard(h)
  PROVE  SerialInv'
<1>1. /\ req[h] \in Request /\ req[h] # Idle /\ WellFormed(req[h]) /\ Stage(req[h])
      /\ req[h].step = "postCard" /\ req[h].op \in OfferOps
  BY ProceedBusy DEF Proceed, PostCard, At, Known, SerialInv, Staged, WellFormed, OpsAt
<1>2. /\ UNCHANGED <<conv, offers, used, torn, revealed>>
      /\ cards' = [cards EXCEPT ![req[h].new] = "pending"]
  BY DEF PostCard
<1>3. \A o : ~Answering(h, o) /\ ~Marking(h, o)
  BY <1>1 DEF Answering, Marking
<1>4. Stage(req[h])'
  BY <1>1, <1>2, ProceedSteps DEF Stage, Moves, OfferOps, SettleOps
<1>5. CardsInv'
  <2>1. offers[req[h].new].status = Absent
    BY <1>1 DEF Stage
  <2> QED
    BY <1>2, <1>3, <2>1 DEF SerialInv, CardsInv, OneAtATime, Absent, TypeOK
<1>6. Numbered' /\ ActiveInv' /\ DealInv'
  BY <1>2, <1>3 DEF SerialInv, Numbered, ActiveInv, DealInv, OneAtATime
<1> QED
  BY <1>4, <1>5, <1>6, StagedStep DEF SerialInv

LEMMA StoreOfferSerial ==
  ASSUME TypeOK, Known, OneAtATime, SerialInv, NEW h \in Handlers, StoreOffer(h)
  PROVE  SerialInv'
<1>1. /\ req[h] \in Request /\ req[h] # Idle /\ WellFormed(req[h]) /\ Stage(req[h])
      /\ req[h].step = "storeOffer" /\ req[h].op \in OfferOps
  BY ProceedBusy DEF Proceed, StoreOffer, At, Known, SerialInv, Staged, WellFormed, OpsAt
<1>2. UNCHANGED <<conv, cards, used, torn, revealed>>
  BY DEF StoreOffer
<1> PICK p \in OfferIds : p = req[h].new
  BY <1>1 DEF Stage, OfferOps
<1>3. /\ offers[p].status = Absent /\ p <= used.offers
      /\ \A o \in OfferIds :
           offers'[o].status = IF o = p THEN "pending" ELSE offers[o].status
  BY <1>1 DEF StoreOffer, Stage, OfferOps, TypeOK
<1>4. \A o : ~Answering(h, o) /\ ~Marking(h, o)
  BY <1>1 DEF Answering, Marking
<1>5. Stage(req[h])'
  <2>1. req[h].offer < p
    BY <1>1 DEF Stage, OfferOps
  <2>2. /\ req[h].op \in {"reply_offer", "counter_offer"} => req[h].offer \in OfferIds
        /\ req[h].op = "counter_offer" => offers'[req[h].offer].status = "pending"
    BY <1>1, <1>3, <2>1 DEF Stage, OfferIds
  <2>3. Moves(h, IF req[h].op = "send_offer" THEN "updateConv" ELSE "readParent")
    BY ProceedSteps
  <2>4. conv'.exists
    BY <1>1, <1>2 DEF Stage, OfferOps
  <2> QED
    BY <1>1, <1>2, <1>3, <2>1, <2>2, <2>3, <2>4 DEF Stage, Moves, OfferOps, SettleOps
<1>6. Numbered'
  BY <1>2, <1>3 DEF SerialInv, Numbered, OfferIds
<1>7. ActiveInv'
  <2> PICK b : b = conv.active
    OBVIOUS
  <2>1. b \in OfferIds \/ b = None
    BY DEF TypeOK, Conversation, OfferIds, None
  <2>2. b \notin torn \cup {None} => offers[b].status = "pending"
    BY <1>4 DEF SerialInv, ActiveInv, OneAtATime
  <2>3. b \notin torn' \cup {None} => offers'[b].status = "pending"
    BY <1>2, <1>3, <2>1, <2>2
  <2> QED
    BY <1>2, <2>3 DEF ActiveInv
<1>8. DealInv'
  BY <1>2, <1>3, <1>4 DEF SerialInv, DealInv, OneAtATime, Absent
<1>9. CardsInv'
  BY <1>2, <1>3, <1>4 DEF SerialInv, CardsInv, OneAtATime, Absent
<1> QED
  BY <1>5, <1>6, <1>7, <1>8, <1>9, StagedStep DEF SerialInv

\* An open offer is accepted or withdrawn, or any offer countered.
LEMMA AnswerSerial ==
  ASSUME TypeOK, Known, OneAtATime, SerialInv, NEW h \in Handlers, NEW p \in OfferIds,
         req[h] # Idle, req[h].offer = p, offers[p].status # Absent,
         NEW status \in Settled, offers[p].status = "pending" \/ status = "countered",
         \A o \in OfferIds :
           offers'[o].status = IF o = p THEN status ELSE offers[o].status,
         UNCHANGED <<conv, cards, used, torn, revealed>>,
         \A o : ~Answering(h, o) /\ ~Marking(h, o),
         Answering(h, p)', status # "withdrawn" => Marking(h, p)'
  PROVE  Numbered' /\ ActiveInv' /\ DealInv' /\ CardsInv'
<1>1. Numbered'
  BY DEF SerialInv, Numbered, OfferIds, Absent
<1>2. ActiveInv'
  <2> PICK b : b = conv.active
    OBVIOUS
  <2>1. b \in OfferIds \/ b = None
    BY DEF TypeOK, Conversation, OfferIds, None
  <2>2. b \notin torn \cup {None} => offers[b].status = "pending"
    BY DEF SerialInv, ActiveInv, OneAtATime
  <2>3. b \notin torn' \cup {None} => offers'[b].status = "pending" \/ Answering(h, b)'
    BY <2>1, <2>2
  <2> QED
    BY <2>3 DEF ActiveInv, Answering
<1>3. DealInv'
  <2> SUFFICES ASSUME conv.deal = "agreed" PROVE DealInv'
    BY DEF DealInv
  <2> PICK a \in OfferIds : a = conv.agreed
    BY DEF SerialInv, DealInv
  <2>1. \/ offers[a].status = "accepted"
        \/ offers[a].status = "countered" /\ a \in torn
    BY DEF SerialInv, DealInv, OneAtATime
  <2>2. a = p => status = "countered"
    BY <2>1
  <2> QED
    BY <2>1, <2>2 DEF DealInv, Answering
<1>4. CardsInv'
  <2> SUFFICES ASSUME NEW o \in OfferIds \ torn,
                      offers'[o].status \in {"accepted", "countered"}
               PROVE  cards[o] = offers'[o].status \/ \E g \in Handlers : Marking(g, o)'
    BY DEF CardsInv, Marking
  <2>1. CASE o = p
    BY <2>1 DEF Settled
  <2>2. CASE o # p
    BY <2>2 DEF SerialInv, CardsInv, OneAtATime
  <2> QED
    BY <2>1, <2>2
<1> QED
  BY <1>1, <1>2, <1>3, <1>4

LEMMA CounterParentSerial ==
  ASSUME TypeOK, Known, OneAtATime, SerialInv, NEW h \in Handlers, CounterParent(h)
  PROVE  SerialInv'
<1>1. /\ req[h] \in Request /\ req[h] # Idle /\ WellFormed(req[h]) /\ Stage(req[h])
      /\ req[h].step = "counterParent" /\ req[h].op \in {"reply_offer", "counter_offer"}
      /\ req[h].op \in EnabledOps
  BY ProceedBusy DEF Proceed, CounterParent, At, Known, SerialInv, Staged, WellFormed, OpsAt
<1> PICK p \in OfferIds : p = req[h].offer
  BY <1>1 DEF Stage
<1>2. /\ req[h].found <=> offers[p].status # Absent
      /\ req[h].op = "counter_offer" => offers[p].status = "pending"
  BY <1>1 DEF Stage
<1>3. UNCHANGED <<conv, cards, used, torn, revealed>>
  BY DEF CounterParent
<1>4. \A o : ~Answering(h, o) /\ ~Marking(h, o)
  BY <1>1 DEF Answering, Marking
<1>5. CASE offers[p].status = Absent
  <2>1. UNCHANGED offers /\ Ends(h)
    BY <1>5, Ending DEF CounterParent
  <2>2. used.offers \in used.offers..MaxOffers
    BY DEF TypeOK
  <2> QED
    BY <1>3, <1>4, <2>1, <2>2, StagedStep, QuietSerial DEF SerialInv
<1>6. CASE offers[p].status # Absent
  <2>1. \A o \in OfferIds :
          offers'[o].status = IF o = p THEN "countered" ELSE offers[o].status
    BY <1>6 DEF CounterParent, TypeOK
  <2>2. Moves(h, "counterCard")
    BY <1>2, <1>6, ProceedSteps DEF CounterParent
  <2>3. Answering(h, p)' /\ Marking(h, p)'
    BY <2>2 DEF Moves, Answering, Marking
  <2>4. Stage(req[h])'
    <3>1. /\ req[h].new \in OfferIds /\ req[h].new <= used.offers /\ p < req[h].new
          /\ offers[req[h].new].status = "pending" /\ conv.exists
      BY <1>1 DEF Stage, OfferOps
    <3>2. offers'[req[h].new].status = "pending"
      BY <2>1, <3>1 DEF OfferIds
    <3> QED
      BY <1>1, <1>3, <2>1, <2>2, <3>1, <3>2 DEF Stage, Moves, OfferOps, SettleOps
  <2>5. Numbered' /\ ActiveInv' /\ DealInv' /\ CardsInv'
    BY <1>1, <1>3, <1>4, <1>6, <2>1, <2>3, AnswerSerial DEF Settled
  <2> QED
    BY <2>4, <2>5, StagedStep DEF SerialInv
<1> QED
  BY <1>5, <1>6

LEMMA SettleSerial ==
  ASSUME TypeOK, Known, OneAtATime, SerialInv, NEW h \in Handlers, Settle(h)
  PROVE  SerialInv'
<1>1. /\ req[h] \in Request /\ req[h] # Idle /\ WellFormed(req[h]) /\ Stage(req[h])
      /\ req[h].step = "settle" /\ req[h].op \in SettleOps
  BY ProceedBusy DEF Proceed, Settle, At, Known, SerialInv, Staged, WellFormed, OpsAt
<1> PICK p \in OfferIds : p = req[h].offer
  BY <1>1 DEF Stage
<1> PICK status \in Settled :
      status = IF req[h].op = "accept_offer" THEN "accepted" ELSE "withdrawn"
  BY DEF Settled
<1>2. offers[p].status = "pending"
  BY <1>1 DEF Stage
<1>3. /\ UNCHANGED <<conv, cards, used, torn, revealed>>
      /\ \A o \in OfferIds :
           offers'[o].status = IF o = p THEN status ELSE offers[o].status
  BY DEF Settle, TypeOK
<1>4. \A o : ~Answering(h, o) /\ ~Marking(h, o)
  BY <1>1 DEF Answering, Marking, SettleOps
<1>5. Moves(h, "postNotice") /\ Keeps(h)
  BY ProceedSteps
<1>6. Answering(h, p)' /\ (status # "withdrawn" => Marking(h, p)')
  BY <1>1, <1>5 DEF Moves, Answering, Marking
<1>7. Stage(req[h])'
  BY <1>1, <1>3, <1>5 DEF Stage, Moves, Keeps, OfferOps, SettleOps
<1>8. Numbered' /\ ActiveInv' /\ DealInv' /\ CardsInv'
  BY <1>1, <1>2, <1>3, <1>4, <1>6, AnswerSerial DEF Absent
<1> QED
  BY <1>7, <1>8, StagedStep DEF SerialInv

\* The card of the answered offer is marked.
LEMMA CardSerial ==
  ASSUME TypeOK, Known, OneAtATime, SerialInv, NEW h \in Handlers,
         CounterCard(h) \/ MarkCard(h)
  PROVE  SerialInv'
<1>1. /\ req[h] \in Request /\ req[h] # Idle /\ WellFormed(req[h]) /\ Stage(req[h])
      /\ \/ /\ CounterCard(h) /\ req[h].step = "counterCard"
            /\ req[h].op \in {"reply_offer", "counter_offer"}
         \/ MarkCard(h) /\ req[h].step = "markCard" /\ req[h].op = "accept_offer"
  BY ProceedBusy DEF Proceed, CounterCard, MarkCard, At, Known, SerialInv, Staged,
                     WellFormed, OpsAt
<1> PICK p \in OfferIds : p = req[h].offer
  BY <1>1 DEF Stage, SettleOps
<1>2. /\ UNCHANGED <<conv, offers, used, torn, revealed>>
      /\ \A o \in OfferIds : cards'[o] = IF o = p THEN offers[p].status ELSE cards[o]
  BY <1>1 DEF CounterCard, MarkCard, Stage, SettleOps, TypeOK
<1>3. Moves(h, "updateConv")
  BY ProceedSteps
<1>4. Stage(req[h])'
  <2>1. CASE req[h].op \in {"reply_offer", "counter_offer"}
    BY <1>1, <1>2, <1>3, <2>1 DEF Stage, Moves, OfferOps, SettleOps
  <2>2. CASE req[h].op = "accept_offer"
    BY <1>1, <1>2, <1>3, <2>2 DEF Stage, Moves, OfferOps, SettleOps
  <2> QED
    BY <1>1, <2>1, <2>2
<1>5. Numbered'
  BY <1>2 DEF SerialInv, Numbered
<1>6. ActiveInv' /\ DealInv'
  <2>1. \A o : Answering(h, o) => Answering(h, o)'
    BY <1>3 DEF Moves, Answering
  <2> PICK b : b = conv.active
    OBVIOUS
  <2>2. b \notin torn \cup {None} => offers[b].status = "pending" \/ Answering(h, b)
    BY DEF SerialInv, ActiveInv, OneAtATime
  <2>3. b \notin torn' \cup {None} => offers'[b].status = "pending" \/ Answering(h, b)'
    BY <1>2, <2>1, <2>2
  <2>4. ActiveInv'
    BY <1>2, <2>3 DEF ActiveInv, Answering
  <2> PICK a : a = conv.agreed
    OBVIOUS
  <2>5. conv.deal = "agreed" =>
          /\ a \in OfferIds
          /\ \/ offers[a].status = "accepted"
             \/ offers[a].status = "countered" /\ (a \in torn \/ Answering(h, a)')
    BY <2>1 DEF SerialInv, DealInv, OneAtATime
  <2>6. DealInv'
    BY <1>2, <2>5 DEF DealInv, Answering
  <2> QED
    BY <2>4, <2>6
<1>7. CardsInv'
  <2>1. \A o : Marking(h, o) => o = p
    BY DEF Marking
  <2> QED
    BY <1>2, <2>1 DEF SerialInv, CardsInv, OneAtATime
<1> QED
  BY <1>4, <1>5, <1>6, <1>7, StagedStep DEF SerialInv

\* The last write of an offer, an acceptance or a withdrawal.
LEMMA UpdateConvSerial ==
  ASSUME TypeOK, Known, OneAtATime, SerialInv, NEW h \in Handlers, UpdateConv(h)
  PROVE  SerialInv'
<1> PICK r \in Request : r = req[h]
  BY ProceedBusy DEF Proceed
<1>1. /\ r # Idle /\ Stage(r) /\ r.step = "updateConv" /\ WellFormed(r)
      /\ r.op \in OfferOps \cup SettleOps
  BY DEF UpdateConv, At, Known, SerialInv, Staged, WellFormed, OpsAt
<1>2. /\ UNCHANGED <<offers, cards, used, torn, revealed>> /\ conv' = Updated(r) /\ Ends(h)
  BY ProceedSteps DEF UpdateConv
<1>3. \A o : /\ ~Marking(h, o)
             /\ Answering(h, o) => o = r.offer
  BY <1>1 DEF Answering, Marking
<1>4. Numbered' /\ CardsInv'
  BY <1>2, <1>3 DEF SerialInv, Numbered, CardsInv, OneAtATime
<1>5. CASE r.op \in OfferOps
  <2>1. conv'.active = r.new /\ conv'.deal = "negotiating"
    BY <1>2, <1>5, Updating
  <2>2. offers[r.new].status = "pending"
    BY <1>1, <1>5 DEF Stage
  <2>3. ActiveInv' /\ DealInv'
    BY <1>2, <2>1, <2>2 DEF ActiveInv, DealInv
  <2> QED
    BY <1>2, <1>4, <2>3, StagedStep DEF SerialInv
<1>6. CASE r.op = "accept_offer"
  <2>1. conv'.active = None /\ conv'.agreed = r.offer
    BY <1>2, <1>6, Updating
  <2>2. r.offer \in OfferIds /\ offers[r.offer].status = "accepted"
    BY <1>1, <1>6 DEF Stage, SettleOps
  <2>3. ActiveInv' /\ DealInv'
    BY <1>2, <2>1, <2>2 DEF ActiveInv, DealInv
  <2> QED
    BY <1>2, <1>4, <2>3, StagedStep DEF SerialInv
<1>7. CASE r.op = "withdraw_offer"
  <2>1. /\ conv'.active = IF r.active = r.offer THEN None ELSE conv.active
        /\ conv'.deal = conv.deal /\ conv'.agreed = conv.agreed
    BY <1>2, <1>7, Updating DEF OfferOps
  <2>2. r.active = conv.active
    BY <1>1, <1>7 DEF Stage, SettleOps
  <2>3. DealInv'
    <3>1. \A o \in OfferIds : offers[o].status = "countered" => ~Answering(h, o)
      BY <1>1, <1>3, <1>7 DEF Stage, SettleOps
    <3> QED
      BY <1>2, <2>1, <3>1 DEF SerialInv, DealInv, OneAtATime
  <2>4. ActiveInv'
    BY <1>2, <1>3, <2>1, <2>2 DEF SerialInv, ActiveInv, OneAtATime
  <2> QED
    BY <1>2, <1>4, <2>3, <2>4, StagedStep DEF SerialInv
<1> QED
  BY <1>1, <1>5, <1>6, <1>7 DEF OfferOps, SettleOps

LEMMA NextSerial ==
  ASSUME TypeOK, Known, OneAtATime, SerialInv, [Next]_vars
  PROVE  /\ SerialInv'
         /\ \A o \in OfferIds : offers[o].status \in Settled => Stays(o)
<1>1. CASE UNCHANGED vars
  <2>1. Numbered' /\ ActiveInv' /\ DealInv' /\ CardsInv'
    BY <1>1 DEF vars, SerialInv, Numbered, ActiveInv, DealInv, CardsInv, Answering, Marking
  <2>2. Staged'
    BY <1>1 DEF vars, SerialInv, Staged, Stage, PhoneIsOpen
  <2>3. \A o \in OfferIds : Stays(o)
    BY <1>1 DEF vars, Stays
  <2> QED
    BY <2>1, <2>2, <2>3 DEF SerialInv
<1>2. ASSUME NEW h \in Handlers, Begin(h) \/ Proceed(h) \/ Fail(h)
      PROVE  SerialInv'
  BY <1>2, BeginSerial, FailSerial, ReadingSerial, MessageSerial, FieldSerial,
     CreateSerial, PhoneSerial, PostCardSerial, StoreOfferSerial, CounterParentSerial,
     SettleSerial, CardSerial, UpdateConvSerial DEF Proceed
<1> QED
  BY <1>1, <1>2, AnsweredStays DEF Next

\* With nobody at work, nothing is being answered or marked.
LEMMA AtRest ==
  ASSUME Busy = {}
  PROVE  \A h \in Handlers : \A o : ~Answering(h, o) /\ ~Marking(h, o)
BY DEF Busy, Answering, Marking

\* One request at a time, failing anywhere: between requests, the active offer
\* is open unless a request about it stopped half way.
THEOREM ActiveOffer ==
  ASSUME OneAtATime
  PROVE  Spec => []ActiveIsPending
<1>1. Init => SerialInv
  BY InitSerial
<1>2. TypeOK /\ Known /\ SerialInv /\ [Next]_vars => SerialInv'
  BY NextSerial
<1>3. SerialInv => ActiveIsPending
  BY AtRest DEF SerialInv, ActiveInv, ActiveIsPending
<1> QED
  BY <1>1, <1>2, <1>3, InitType, InitKnown, NextType, PTL DEF Spec

\* ... an agreed deal is at the price of an offer that was accepted, and that
\* only a reply which names it and stopped half way has un-settled, ...
THEOREM Deal ==
  ASSUME OneAtATime
  PROVE  Spec => []DealIsAccepted
<1>1. Init => SerialInv
  BY InitSerial
<1>2. TypeOK /\ Known /\ SerialInv /\ [Next]_vars => SerialInv'
  BY NextSerial
<1>3. SerialInv => DealIsAccepted
  BY AtRest DEF SerialInv, DealInv, DealIsAccepted, AtAccepted
<1> QED
  BY <1>1, <1>2, <1>3, InitType, InitKnown, NextType, PTL DEF Spec

\* ... and the cards of countered and accepted offers say so, unless a request
\* about that offer stopped half way.
THEOREM Cards ==
  ASSUME OneAtATime
  PROVE  Spec => []CardsFollowAnswers
<1>1. Init => SerialInv
  BY InitSerial
<1>2. TypeOK /\ Known /\ SerialInv /\ [Next]_vars => SerialInv'
  BY NextSerial
<1>3. SerialInv => CardsFollowAnswers
  BY AtRest DEF SerialInv, CardsInv, CardsFollowAnswers
<1> QED
  BY <1>1, <1>2, <1>3, InitType, InitKnown, NextType, PTL DEF Spec

\* Only the request that reads a number shows it to the other user, and it has
\* found the deal and the leave.
LEMMA PhoneStep ==
  ASSUME TypeOK, OneAtATime, SerialInv, NEW h \in Handlers,
         Begin(h) \/ Proceed(h) \/ Fail(h), NEW u \in revealed' \ revealed
  PROVE  u \in conv.shared /\ conv.deal = "agreed" /\ AtAccepted
<1>1. ReadPhone(h) /\ u = Other(req[h].user)
  BY DEF Begin, Proceed, Fail, ReadConv, Create, PostText, Count, MarkRead, Block, Unblock,
         Share, ReadPhone, PostCard, StoreOffer, ReadParent, CounterParent, CounterCard,
         ReadOffer, Settle, PostNotice, MarkCard, UpdateConv
<1>2. PhoneIsOpen(req[h].user)
  BY <1>1 DEF ReadPhone, At, SerialInv, Staged, Stage
<1>3. \A g \in Handlers : \A o : ~Answering(g, o)
  BY <1>1 DEF ReadPhone, At, Answering, OneAtATime
<1> QED
  BY <1>1, <1>2, <1>3 DEF PhoneIsOpen, SerialInv, DealInv, AtAccepted

\* Likewise, a phone number is given only by its owner's leave and while there
\* is a deal at an offer that was accepted.
THEOREM PhoneIsEarned ==
  ASSUME OneAtATime
  PROVE  Spec => PhoneNeedsDeal
<1> DEFINE Earned == \A u \in revealed' \ revealed :
                       u \in conv.shared /\ conv.deal = "agreed" /\ AtAccepted
<1>1. Init => SerialInv
  BY InitSerial
<1>2. TypeOK /\ Known /\ SerialInv /\ [Next]_vars => SerialInv'
  BY NextSerial
<1>3. TypeOK /\ Known /\ SerialInv /\ [Next]_vars => [Earned]_revealed
  BY PhoneStep DEF Next, vars
<1>4. (Spec => [][Earned]_revealed) => (Spec => PhoneNeedsDeal)
  BY DEF PhoneNeedsDeal
<1> QED
  BY <1>1, <1>2, <1>3, <1>4, InitType, InitKnown, NextType, PTL DEF Spec

\* One request at a time, failing anywhere: an accepted, countered or withdrawn
\* offer stays so, but for an offer that names it as its parent, which marks it
\* countered.  (conversation_repo.py 317-328, 370, 463, 493)
THEOREM AnswersAreFinal ==
  ASSUME OneAtATime
  PROVE  Spec => SettledOnce
<1> DEFINE Final == \A o \in OfferIds : offers[o].status \in Settled => Stays(o)
<1>1. Init => SerialInv
  BY InitSerial
<1>2. TypeOK /\ Known /\ SerialInv /\ [Next]_vars => SerialInv'
  BY NextSerial
<1>3. TypeOK /\ Known /\ SerialInv /\ [Next]_vars => [Final]_offers
  BY NextSerial
<1>4. (Spec => [][Final]_offers) => (Spec => SettledOnce)
  BY DEF SettledOnce, Stays
<1> QED
  BY <1>1, <1>2, <1>3, <1>4, InitType, InitKnown, NextType, PTL DEF Spec
=============================================================================
