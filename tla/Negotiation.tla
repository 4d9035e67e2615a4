----------------------------- MODULE Negotiation -----------------------------
(***************************************************************************)
(* One conversation of two users: messages and their unread counters,      *)
(* price offers with counter-offers, acceptance and withdrawal, blocking,  *)
(* and the phone numbers they share.  Each request runs the handler of     *)
(* routers/messages.py through services/messaging.py and                   *)
(* repos/conversation_repo.py; every Firestore read or write is a step of  *)
(* its own and none is in a transaction.                                   *)
(*                                                                         *)
(* An offer has two documents, written apart: the offer and the message    *)
(* that shows it (its card).  Left out: texts, amounts (an agreed price is *)
(* that of its offer), pins, rate limits, notifications and the reads of   *)
(* the conversation that only test who takes part.                         *)
(***************************************************************************)
EXTENDS Naturals, FiniteSets

CONSTANTS
  Users,       \* the two participants
  Nobody,
  Handlers,    \* requests in flight at the same time
  EnabledOps,  \* the requests clients send
  MaxOffers,   \* bound: requests that make an offer
  MaxTexts,    \* bound: text messages
  Started,     \* whether the conversation exists at first
  MayFail      \* whether a request may end at any step: an error or a crash

OfferOps  == {"send_offer", "reply_offer", "counter_offer"}
SettleOps == {"accept_offer", "withdraw_offer"}
Ops == OfferOps \cup SettleOps \cup
       {"start_conversation", "send_message", "mark_read", "block", "unblock",
        "share_phone", "get_phone"}

ASSUME NegotiationAssumption ==
  /\ \E u, v \in Users : u # v /\ Users = {u, v}
  /\ Nobody \notin Users
  /\ EnabledOps \subseteq Ops
  /\ MaxOffers \in Nat /\ MaxTexts \in Nat
  /\ Started \in BOOLEAN /\ MayFail \in BOOLEAN

VARIABLES
  conv,      \* the conversation document
  offers,    \* the offer documents
  cards,     \* the status shown by the message of each offer
  req,       \* the request of each handler
  used,      \* offer ids and texts used so far
  news,      \* history: users with a counted message since their last read
  torn,      \* history: offers of requests that stopped before their end
  revealed   \* history: users whose phone number was given to the other

vars == <<conv, offers, cards, req, used, news, torn, revealed>>
-----------------------------------------------------------------------------
OfferIds == 1..MaxOffers
None     == 0              \* no offer
Absent   == "absent"       \* a document that does not exist
Settled  == {"accepted", "countered", "withdrawn"}
OfferStatuses == {Absent, "pending"} \cup Settled

Other(u) == CHOOSE v \in Users : v # u

Idle == [step |-> "idle"]

Steps == {"readConv", "create", "postText", "count", "readOffer", "postCard",
          "storeOffer", "readParent", "counterParent", "counterCard", "settle",
          "postNotice", "markCard", "updateConv", "markRead", "block", "unblock",
          "share", "readPhone"}

\* A request of a user: the offer it is about (None: none), the id its own
\* offer gets, what it read of the conversation (active) and whether it found
\* the offer document it reads.
Request ==
  [op : Ops, user : Users, step : Steps, offer : 0..MaxOffers,
   new : 0..MaxOffers, active : 0..MaxOffers, found : BOOLEAN]

Conversation ==
  [exists : BOOLEAN, blockedBy : Users \cup {Nobody}, active : 0..MaxOffers,
   deal : {"none", "negotiating", "agreed"}, agreed : 0..MaxOffers,
   unread : [Users -> Nat], shared : SUBSET Users]

TypeOK ==
  /\ conv \in Conversation
  /\ offers \in [OfferIds -> [sender : Users \cup {Nobody}, status : OfferStatuses]]
  /\ cards \in [OfferIds -> OfferStatuses]
  /\ req \in [Handlers -> {Idle} \cup Request]
  /\ used \in [offers : 0..MaxOffers, texts : 0..MaxTexts]
  /\ news \subseteq Users /\ torn \subseteq OfferIds /\ revealed \subseteq Users

Fresh == [exists |-> TRUE, blockedBy |-> Nobody, active |-> None, deal |-> "none",
          agreed |-> None, unread |-> [u \in Users |-> 0], shared |-> {}]

Init ==
  /\ conv = [Fresh EXCEPT !.exists = Started]
  /\ offers = [o \in OfferIds |-> [sender |-> Nobody, status |-> Absent]]
  /\ cards = [o \in OfferIds |-> Absent]
  /\ req = [h \in Handlers |-> Idle]
  /\ used = [offers |-> 0, texts |-> 0]
  /\ news = {} /\ torn = {} /\ revealed = {}

Busy == {h \in Handlers : req[h] # Idle}
-----------------------------------------------------------------------------
At(h, step) == req[h] # Idle /\ req[h].step = step
Goto(h, step) == req' = [req EXCEPT ![h].step = step]
End(h) == req' = [req EXCEPT ![h] = Idle]

\* The new message of h counts as news for the other user; the counter itself
\* is incremented when the conversation document is updated.
Tell(h) == news' = news \cup {Other(req[h].user)}
CountFor(u, c) == [c EXCEPT !.unread[u] = @ + 1]

FirstStep(op) ==
  CASE op \in {"start_conversation", "send_message", "send_offer", "reply_offer",
               "withdraw_offer", "unblock", "share_phone", "get_phone"} -> "readConv"
    [] op \in {"counter_offer", "accept_offer"} -> "readOffer"
    [] op = "mark_read" -> "markRead"
    [] op = "block" -> "block"

\* A request arrives.  Whoever replies to, settles or counters an offer names
\* one; a reply may name any, a counter-offer is tested in ReadOffer.
Begin(h) ==
  /\ req[h] = Idle
  /\ \E op \in EnabledOps, u \in Users, o \in 0..used.offers :
       LET new == IF op \in OfferOps THEN used.offers + 1 ELSE None
       IN /\ (o = None) <=> (op \notin SettleOps \cup {"reply_offer", "counter_offer"})
          /\ op \in OfferOps => used.offers < MaxOffers
          /\ op = "send_message" => used.texts < MaxTexts
          /\ op # "start_conversation" => conv.exists
          /\ used' = [offers |-> IF op \in OfferOps THEN new ELSE used.offers,
                      texts |-> IF op = "send_message" THEN used.texts + 1
                                                       ELSE used.texts]
          /\ req' = [req EXCEPT ![h] =
               [op |-> op, user |-> u, step |-> FirstStep(op), offer |-> o,
                new |-> new, active |-> None, found |-> FALSE]]
  /\ UNCHANGED <<conv, offers, cards, news, torn, revealed>>

\* Mutant: opting in is enough.
PhoneIsShared(u) == Other(u) \in conv.shared

\* Whether u may see the number of the other user.
PhoneIsOpen(u) == conv.deal = "agreed" /\ Other(u) \in conv.shared

\* What each request does with the conversation it read.
ReadConv(h) ==
  LET r == req[h]
      blocked == conv.blockedBy \notin {Nobody, r.user}
  IN /\ At(h, "readConv")
     /\ CASE r.op = "start_conversation" ->
               IF conv.exists THEN End(h) ELSE Goto(h, "create")
          [] r.op = "send_message" -> IF blocked THEN End(h) ELSE Goto(h, "postText")
          [] r.op \in OfferOps     -> IF blocked THEN End(h) ELSE Goto(h, "postCard")
          [] r.op = "withdraw_offer" ->
               req' = [req EXCEPT ![h].active = conv.active, ![h].step = "readOffer"]
          [] r.op = "unblock" ->
               IF conv.blockedBy = r.user THEN Goto(h, "unblock") ELSE End(h)
          [] r.op = "share_phone" -> Goto(h, "share")
          [] r.op = "get_phone" ->
               IF PhoneIsOpen(r.user) THEN Goto(h, "readPhone") ELSE End(h)
     /\ UNCHANGED <<conv, offers, cards, used, news, torn, revealed>>

\* The conversation is set, whatever is there by now.
Create(h) ==
  /\ At(h, "create")
  /\ conv' = Fresh
  /\ End(h)
  /\ UNCHANGED <<offers, cards, used, news, torn, revealed>>
-----------------------------------------------------------------------------
(***************************************************************************)
(* Messages and blocking.                                                  *)
(***************************************************************************)
PostText(h) ==
  /\ At(h, "postText")
  /\ Tell(h)
  /\ Goto(h, "count")
  /\ UNCHANGED <<conv, offers, cards, used, torn, revealed>>

Count(h) ==
  /\ At(h, "count")
  /\ conv' = CountFor(Other(req[h].user), conv)
  /\ End(h)
  /\ UNCHANGED <<offers, cards, used, news, torn, revealed>>

\* Mutant: reading a message takes one off the counter.
ReadNext(h) ==
  /\ At(h, "markRead")
  /\ conv' = [conv EXCEPT !.unread[req[h].user] = @ - 1]
  /\ news' = news \ {req[h].user}
  /\ End(h)
  /\ UNCHANGED <<offers, cards, used, torn, revealed>>

\* Mutant: the counters of both users are reset.
MarkAllRead(h) ==
  /\ At(h, "markRead")
  /\ conv' = [conv EXCEPT !.unread = [u \in Users |-> 0]]
  /\ news' = news \ {req[h].user}
  /\ End(h)
  /\ UNCHANGED <<offers, cards, used, torn, revealed>>

MarkRead(h) ==
  /\ At(h, "markRead")
  /\ conv' = [conv EXCEPT !.unread[req[h].user] = 0]
  /\ news' = news \ {req[h].user}
  /\ End(h)
  /\ UNCHANGED <<offers, cards, used, torn, revealed>>

\* Blocking tests nothing: it takes over a block of the other user.
Block(h) ==
  /\ At(h, "block")
  /\ conv' = [conv EXCEPT !.blockedBy = req[h].user]
  /\ End(h)
  /\ UNCHANGED <<offers, cards, used, news, torn, revealed>>

Unblock(h) ==
  /\ At(h, "unblock")
  /\ conv' = [conv EXCEPT !.blockedBy = Nobody]
  /\ End(h)
  /\ UNCHANGED <<offers, cards, used, news, torn, revealed>>

Share(h) ==
  /\ At(h, "share")
  /\ conv' = [conv EXCEPT !.shared = @ \cup {req[h].user}]
  /\ End(h)
  /\ UNCHANGED <<offers, cards, used, news, torn, revealed>>

\* There may be no number on file.
ReadPhone(h) ==
  /\ At(h, "readPhone")
  /\ revealed' \in {revealed, revealed \cup {Other(req[h].user)}}
  /\ End(h)
  /\ UNCHANGED <<conv, offers, cards, used, news, torn>>
-----------------------------------------------------------------------------
(***************************************************************************)
(* Making an offer, on its own or in place of another one.                 *)
(***************************************************************************)
PostCard(h) ==
  /\ At(h, "postCard")
  /\ cards' = [cards EXCEPT ![req[h].new] = "pending"]
  /\ Tell(h)
  /\ Goto(h, "storeOffer")
  /\ UNCHANGED <<conv, offers, used, torn, revealed>>

StoreOffer(h) ==
  LET r == req[h]
  IN /\ At(h, "storeOffer")
     /\ offers' = [offers EXCEPT ![r.new] = [sender |-> r.user, status |-> "pending"]]
     /\ Goto(h, IF r.offer = None THEN "updateConv" ELSE "readParent")
     /\ UNCHANGED <<conv, cards, used, news, torn, revealed>>

\* The parent is read for its card alone; its status is not tested.
ReadParent(h) ==
  /\ At(h, "readParent")
  /\ req' = [req EXCEPT ![h].found = offers[req[h].offer].status # Absent,
                        ![h].step = "counterParent"]
  /\ UNCHANGED <<conv, offers, cards, used, news, torn, revealed>>

CounterParent(h) ==
  LET o == req[h].offer
  IN /\ At(h, "counterParent")
     /\ IF offers[o].status = Absent
        THEN End(h) /\ UNCHANGED offers
        ELSE /\ offers' = [offers EXCEPT ![o].status = "countered"]
             /\ Goto(h, IF req[h].found THEN "counterCard" ELSE "updateConv")
     /\ UNCHANGED <<conv, cards, used, news, torn, revealed>>

CounterCard(h) ==
  /\ At(h, "counterCard")
  /\ cards' = [cards EXCEPT ![req[h].offer] = "countered"]
  /\ Goto(h, "updateConv")
  /\ UNCHANGED <<conv, offers, used, news, torn, revealed>>
-----------------------------------------------------------------------------
(***************************************************************************)
(* Accepting and withdrawing.                                              *)
(***************************************************************************)

\* Mutant: whose turn it is, without whether the offer is still open.
MayAnswerAny(r, offer) ==
  offer.status # Absent /\ ((offer.sender = r.user) <=> (r.op = "withdraw_offer"))

\* Only a pending offer is answered, by the one it was made to, or withdrawn,
\* by the one who made it.
MayAnswer(r, offer) ==
  offer.status = "pending" /\ ((offer.sender = r.user) <=> (r.op = "withdraw_offer"))

ReadOffer(h) ==
  LET r == req[h]
  IN /\ At(h, "readOffer")
     /\ IF ~MayAnswer(r, offers[r.offer]) THEN End(h)
        ELSE Goto(h, IF r.op = "counter_offer" THEN "readConv" ELSE "settle")
     /\ UNCHANGED <<conv, offers, cards, used, news, torn, revealed>>

Settle(h) ==
  LET r == req[h]
  IN /\ At(h, "settle")
     /\ offers' = [offers EXCEPT ![r.offer].status =
                     IF r.op = "accept_offer" THEN "accepted" ELSE "withdrawn"]
     /\ Goto(h, "postNotice")
     /\ UNCHANGED <<conv, cards, used, news, torn, revealed>>

\* Mutant: the card of an accepted offer is left as it is.
SkipCard(op) == "updateConv"

\* A withdrawal leaves the offer's card as it is.
AfterNotice(op) == IF op = "accept_offer" THEN "markCard" ELSE "updateConv"

\* The messages that tell of it; only those of an acceptance are counted.
PostNotice(h) ==
  /\ At(h, "postNotice")
  /\ IF req[h].op = "accept_offer" THEN Tell(h) ELSE UNCHANGED news
  /\ Goto(h, AfterNotice(req[h].op))
  /\ UNCHANGED <<conv, offers, cards, used, torn, revealed>>

MarkCard(h) ==
  /\ At(h, "markCard")
  /\ cards' = [cards EXCEPT ![req[h].offer] = "accepted"]
  /\ Goto(h, "updateConv")
  /\ UNCHANGED <<conv, offers, used, news, torn, revealed>>

\* Mutant: an acceptance does not make the deal.
UpdatedNoDeal(r) ==
  CASE r.op \in OfferOps ->
         CountFor(Other(r.user), [conv EXCEPT !.active = r.new, !.deal = "negotiating"])
    [] r.op = "accept_offer" -> CountFor(Other(r.user), [conv EXCEPT !.active = None])
    [] OTHER -> IF r.active = r.offer THEN [conv EXCEPT !.active = None] ELSE conv

\* Mutant: a withdrawal takes a message off the counter, not the active offer.
UpdatedTakeBack(r) ==
  CASE r.op \in OfferOps ->
         CountFor(Other(r.user), [conv EXCEPT !.active = r.new, !.deal = "negotiating"])
    [] r.op = "accept_offer" ->
         CountFor(Other(r.user), [conv EXCEPT !.active = None, !.deal = "agreed",
                                              !.agreed = r.offer])
    [] OTHER -> [conv EXCEPT !.unread[Other(r.user)] = @ - 1]

\* The conversation after the last write of each operation on an offer.  A
\* withdrawal compares with the active offer it read at first.
Updated(r) ==
  CASE r.op \in OfferOps ->
         CountFor(Other(r.user), [conv EXCEPT !.active = r.new, !.deal = "negotiating"])
    [] r.op = "accept_offer" ->
         CountFor(Other(r.user), [conv EXCEPT !.active = None, !.deal = "agreed",
                                              !.agreed = r.offer])
    [] OTHER -> IF r.active = r.offer THEN [conv EXCEPT !.active = None] ELSE conv

UpdateConv(h) ==
  /\ At(h, "updateConv")
  /\ conv' = Updated(req[h])
  /\ End(h)
  /\ UNCHANGED <<offers, cards, used, news, torn, revealed>>
-----------------------------------------------------------------------------
Fail(h) == /\ MayFail /\ req[h] # Idle
           /\ End(h)
           /\ torn' = torn \cup ({req[h].offer, req[h].new} \ {None})
           /\ UNCHANGED <<conv, offers, cards, used, news, revealed>>

Proceed(h) ==
  \/ ReadConv(h) \/ Create(h) \/ PostText(h) \/ Count(h) \/ MarkRead(h)
  \/ Block(h) \/ Unblock(h) \/ Share(h) \/ ReadPhone(h) \/ PostCard(h)
  \/ StoreOffer(h) \/ ReadParent(h) \/ CounterParent(h) \/ CounterCard(h)
  \/ ReadOffer(h) \/ Settle(h)
  \/ PostNotice(h) \/ MarkCard(h) \/ UpdateConv(h)

Next == \E h \in Handlers : Begin(h) \/ Proceed(h) \/ Fail(h)

Spec == Init /\ [][Next]_vars

\* Every call of a handler returns or raises.
FairSpec == Spec /\ \A h \in Handlers : WF_vars(Proceed(h))
-----------------------------------------------------------------------------
(***************************************************************************)
(* Properties.                                                             *)
(***************************************************************************)

\* Between requests, the offer the conversation shows as active is open, unless
\* a request about that very offer stopped half way.
\* (conversation_repo.py 338-347, 427-437, 520-525)
ActiveIsPending ==
  Busy = {} /\ conv.active \notin torn \cup {None}
    => offers[conv.active].status = "pending"

\* The offer of the deal is accepted; or a request that names it as its parent
\* made it countered and stopped there.
AtAccepted ==
  \/ offers[conv.agreed].status = "accepted"
  \/ conv.agreed \in torn /\ offers[conv.agreed].status = "countered"

\* Between requests, an agreed deal is at the price of an offer that was
\* accepted, even after requests that stopped half way: nothing un-settles that
\* offer but a reply that names it as its parent, and once such a request is
\* done there is no deal.  (conversation_repo.py 317-351, 375-384, 427-430)
DealIsAccepted == Busy = {} /\ conv.deal = "agreed" => AtAccepted

\* Between requests, the card of a countered or accepted offer says so, unless
\* a request about that offer stopped half way.
\* (conversation_repo.py 330-335, 419-424)
CardsFollowAnswers ==
  Busy = {} => \A o \in OfferIds \ torn :
    offers[o].status \in {"accepted", "countered"} => cards[o] = offers[o].status

\* What was accepted, countered or withdrawn stays so ("Offer is ..., cannot
\* withdraw", conversation_repo.py:493; likewise 370 and 463), but for an offer
\* that names it as its parent: that one counts as countered from then on,
\* whatever became of it (317-328).  No failure lets another answer through.
SettledOnce ==
  [][\A o \in OfferIds : offers[o].status \in Settled =>
       \/ offers'[o].status = offers[o].status
       \/ /\ offers'[o].status = "countered"
          /\ \E h \in Handlers : At(h, "counterParent") /\ req[h].op = "reply_offer"
                                                         /\ req[h].offer = o]_offers

\* "Post-deal phone reveal" (README.md:58): a number is given only after its
\* owner has opted in, and while there is a deal at an offer that was accepted.
\* (conversation_repo.py 546-571)
PhoneNeedsDeal ==
  [][\A u \in revealed' \ revealed :
       u \in conv.shared /\ conv.deal = "agreed" /\ AtAccepted]_revealed

\* The request of h has told the other user of a message and has yet to count it.
Telling(h, u) ==
  /\ req[h] # Idle /\ Other(req[h].user) = u
  /\ \/ req[h].step \in {"count", "storeOffer", "readParent", "counterParent",
                         "counterCard", "markCard"}
     \/ req[h].step = "updateConv" /\ req[h].op # "withdraw_offer"

\* A user who has not read a message sees a count, or is about to, whatever
\* else is posted or read meanwhile.  (conversation_repo.py 152-159, 201-212)
NewsIsCounted ==
  \A u \in news : conv.unread[u] > 0 \/ \E h \in Handlers : Telling(h, u)

\* An acceptance that has been written makes the deal, at that offer's price,
\* even if others are accepted, countered or made meanwhile.
\* (conversation_repo.py 353-443)
AcceptReachesDeal ==
  \A o \in OfferIds :
    (\E h \in Handlers : At(h, "postNotice") /\ req[h].op = "accept_offer"
                                             /\ req[h].offer = o)
      ~> conv.deal = "agreed" /\ conv.agreed = o
=============================================================================
