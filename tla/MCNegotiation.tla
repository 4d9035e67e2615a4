---------------------------- MODULE MCNegotiation ----------------------------
(***************************************************************************)
(* Instances of Negotiation for TLC.                                       *)
(***************************************************************************)
EXTENDS Negotiation, TLC

Symmetric == Permutations(Users)

\* Haggling over a price, from before the conversation exists: every way to
\* make, answer and withdraw an offer, also one that names another as its parent.
HaggleOps == OfferOps \cup SettleOps \cup
             {"start_conversation", "block", "unblock", "share_phone", "get_phone"}

\* Messages, offers and reading in parallel.
TalkOps == {"send_message", "mark_read", "send_offer", "counter_offer",
            "accept_offer"}
\* The counters of unread messages, and what is news, decide no step of a request.
ButTheCounters ==
  <<[conv EXCEPT !.unread = None], offers, cards, req, used, torn, revealed>>
==============================================================================
