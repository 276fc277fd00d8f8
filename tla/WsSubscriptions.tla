-------------------------- MODULE WsSubscriptions --------------------------
(***************************************************************************)
(* HyperliquidWebSocketWorker: services subscribe and unsubscribe feeds on *)
(* one lazy socket, whose loop connects while somebody wants a feed, and   *)
(* subscribes again after a lost connection.  Everything runs in one event *)
(* loop.  The sections under _lock never wait inside, so each is a piece   *)
(* of one action; a send is two, the frame and the return of the call.     *)
(***************************************************************************)
EXTENDS Naturals, FiniteSets

CONSTANTS
  Clients,     \* services with a callback: tracking, autonomy, HIP-4
  FeedOf,      \* the feed (identifier of the SubscriptionSpec) of each
  Static,      \* the feeds of static_subscriptions
  MaxCalls,    \* bound: calls of subscribe and unsubscribe
  MaxDrops     \* bound: connections lost or refused

ASSUME ClientsAssumption == DOMAIN FeedOf = Clients
ASSUME BoundsAssumption == MaxCalls \in Nat /\ MaxDrops \in Nat

Feeds == Static \cup {FeedOf[c] : c \in Clients}

VARIABLES
  registered,   \* the clients with an entry in _callbacks
  leaked,       \* feeds of entries whose subscription id nobody was told
  client,       \* where each client stands in subscribe or unsubscribe
  cut,          \* clients whose connection went while they were sending
  ws,           \* _ws: none, an open socket, or a dead one
  served,       \* what the exchange sends over the open socket
  sent,         \* _subscribed_identifiers
  loop,         \* the task of start, with the feeds it still has to send
  stopping,     \* _stop
  raced,        \* history: feeds subscribed while they were unsubscribed,
                \* or unsubscribed while the loop was sending them
  calls, drops

tables == <<registered, leaked>>
socket == <<ws, served, sent>>
bounds == <<calls, drops>>
vars == <<tables, client, cut, socket, loop, stopping, raced, bounds>>

Outside == [pc |-> "out", close |-> FALSE]
Inside == [pc |-> "in", close |-> FALSE]

(* _desired_specs_unlocked.                                                *)
DesiredBy(clients) == Static \cup leaked \cup {FeedOf[c] : c \in clients}
Desired == DesiredBy(registered)

Init ==
  /\ registered = {} /\ leaked = {}
  /\ client = [c \in Clients |-> Outside] /\ cut = {}
  /\ ws = "none" /\ served = {} /\ sent = {}
  /\ loop = [pc |-> "waiting", todo |-> {}, current |-> {}]
  /\ stopping = FALSE /\ raced = {}
  /\ calls = 0 /\ drops = 0

ClientGoes(c, next) == client' = [client EXCEPT ![c] = next]
Call == calls < MaxCalls /\ calls' = calls + 1 /\ UNCHANGED drops

(* Feeds somebody is just unsubscribing.                                   *)
FeedsAt(pcs) == {FeedOf[c] : c \in {d \in Clients : client[d].pc \in pcs}}
Leaving == FeedsAt({"unsubscribing", "unsubscribed"})

(* Clients other than the one that returns that have a frame on the socket *)
(* which closes: their sends may raise.                                    *)
Cut(returned) ==
  cut' = (cut \cup {c \in Clients : client[c].pc \in {"subscribed", "unsubscribed"}})
           \ returned

(* The socket closes, for whatever reason; _ws stays.                      *)
Dies(returned) ==
  /\ ws' = IF ws = "open" THEN "dead" ELSE ws
  /\ served' = {}
  /\ Cut(returned)

-----------------------------------------------------------------------------
(* subscribe.                                                              *)

(* The feed left to the next connection.                                   *)
SubscribeLazily(c) ==
  /\ client[c] = Outside /\ c \notin registered /\ Call
  /\ registered' = registered \cup {c}
  /\ ClientGoes(c, Inside)
  /\ raced' = raced \cup ({FeedOf[c]} \cap Leaving)
  /\ UNCHANGED <<leaked, cut, socket, loop, stopping>>

(* The entry and the decision to send, under the lock.                     *)
Subscribe(c) ==
  /\ client[c] = Outside /\ Call
  /\ registered' = registered \cup {c}
  /\ ClientGoes(c, IF ws # "none" /\ FeedOf[c] \notin sent
                   THEN [Inside EXCEPT !.pc = "subscribing"] ELSE Inside)
  /\ raced' = raced \cup ({FeedOf[c]} \cap Leaving)
  /\ UNCHANGED <<leaked, cut, socket, loop, stopping>>

(* The client noted in place of its feed.                                  *)
LeaksClient(c) ==
  /\ registered' = registered \ {c} /\ leaked' = leaked \cup {c}
  /\ ClientGoes(c, Outside) /\ cut' = cut \ {c}

(* The call raises: the caller has no id, and the entry stays.             *)
Leaks(c) ==
  /\ registered' = registered \ {c} /\ leaked' = leaked \cup {FeedOf[c]}
  /\ ClientGoes(c, Outside) /\ cut' = cut \ {c}

(* _send_subscribe: the frame, on the socket there is by now ...           *)
SubscribeFrame(c) ==
  /\ client[c].pc = "subscribing"
  /\ \/ /\ ws = "none" /\ ClientGoes(c, Inside)
        /\ UNCHANGED <<tables, cut, served>>
     \/ /\ ws = "open" /\ served' = served \cup {FeedOf[c]}
        /\ ClientGoes(c, [Inside EXCEPT !.pc = "subscribed"])
        /\ UNCHANGED <<tables, cut>>
     \/ ws = "dead" /\ Leaks(c) /\ UNCHANGED served
  /\ UNCHANGED <<ws, sent, loop, stopping, raced, bounds>>

(* ... and its return, or the exception of a socket that closed meanwhile. *)
SubscribeReturns(c) ==
  /\ client[c].pc = "subscribed"
  /\ \/ /\ sent' = sent \cup {FeedOf[c]} /\ ClientGoes(c, Inside)
        /\ cut' = cut \ {c} /\ UNCHANGED tables
     \/ c \in cut /\ Leaks(c) /\ UNCHANGED sent
  /\ UNCHANGED <<ws, served, loop, stopping, raced, bounds>>

-----------------------------------------------------------------------------
(* unsubscribe.                                                            *)

(* The entry and both decisions under the lock: to send, if nobody wants   *)
(* the feed any more, and to close, if nobody wants anything.              *)
Unsubscribe(c) ==
  LET still == DesiredBy(registered \ {c})
  IN  /\ client[c] = Inside /\ Call
      /\ registered' = registered \ {c}
      /\ ClientGoes(c, IF ws # "none" /\ FeedOf[c] \notin still
                       THEN [pc |-> "unsubscribing", close |-> still = {}]
                       ELSE Outside)
      /\ raced' = raced \cup ({FeedOf[c]} \cap (loop.todo \cup loop.current))
      /\ UNCHANGED <<leaked, cut, socket, loop, stopping>>

(* _send_unsubscribe; on a dead socket it raises, and nothing is closed.   *)
UnsubscribeFrame(c) ==
  /\ client[c].pc = "unsubscribing"
  /\ \/ ws # "open" /\ ClientGoes(c, Outside) /\ UNCHANGED served
     \/ /\ ws = "open" /\ served' = served \ {FeedOf[c]}
        /\ ClientGoes(c, [client[c] EXCEPT !.pc = "unsubscribed"])
  /\ UNCHANGED <<tables, cut, ws, sent, loop, stopping, raced, bounds>>

(* The close, if it was decided, is of the socket there is by now.         *)
UnsubscribeReturns(c) ==
  /\ client[c].pc = "unsubscribed"
  /\ sent' = sent \ {FeedOf[c]}
  /\ ClientGoes(c, Outside)
  /\ IF client[c].close THEN Dies({c}) ELSE cut' = cut \ {c} /\ UNCHANGED <<ws, served>>
  /\ UNCHANGED <<tables, loop, stopping, raced, bounds>>

UnsubscribeRaises(c) ==
  /\ client[c].pc = "unsubscribed" /\ c \in cut
  /\ ClientGoes(c, Outside) /\ cut' = cut \ {c}
  /\ UNCHANGED <<tables, socket, loop, stopping, raced, bounds>>

ClientStep(c) ==
  \/ SubscribeFrame(c) \/ SubscribeReturns(c)
  \/ UnsubscribeFrame(c) \/ UnsubscribeReturns(c)

-----------------------------------------------------------------------------
(* start and _run_once.                                                    *)

LoopAt(pc) == [pc |-> pc, todo |-> {}, current |-> {}]
Sending(todo) ==
  IF todo = {} THEN LoopAt("receiving")
  ELSE [pc |-> "sending", todo |-> todo, current |-> {}]

(* _wait_for_desired_subscriptions.                                        *)
Wanted ==
  /\ loop.pc = "waiting" /\ Desired # {} /\ ~stopping
  /\ loop' = LoopAt("connecting")
  /\ UNCHANGED <<tables, client, cut, socket, stopping, raced, bounds>>

(* Without the reset of _subscribed_identifiers.                           *)
ConnectKeeps ==
  /\ loop.pc = "connecting"
  /\ ws' = "open" /\ served' = {}
  /\ loop' = Sending(Desired)
  /\ raced' = raced \cap FeedsAt({"unsubscribing"})
  /\ UNCHANGED <<tables, client, cut, sent, stopping, bounds>>

Connect ==
  /\ loop.pc = "connecting"
  /\ ws' = "open" /\ served' = {} /\ sent' = {}
  /\ loop' = Sending(Desired)
  /\ raced' = raced \cap FeedsAt({"unsubscribing"})
  /\ UNCHANGED <<tables, client, cut, stopping, bounds>>

Drop == drops < MaxDrops /\ drops' = drops + 1 /\ UNCHANGED calls

(* The loop pauses for five seconds; _ws is what it was.                   *)
ConnectFails ==
  /\ loop.pc = "connecting" /\ Drop
  /\ loop' = LoopAt("pausing")
  /\ UNCHANGED <<tables, client, cut, socket, stopping, raced>>

(* One spec after the other; a send that raises here is outside of the     *)
(* try, whose finally resets _ws.                                          *)
LoopFrame(f) ==
  /\ loop.pc = "sending" /\ f \in loop.todo
  /\ \/ /\ ws = "open" /\ served' = served \cup {f}
        /\ loop' = [loop EXCEPT !.pc = "sent", !.todo = @ \ {f}, !.current = {f}]
     \/ ws # "open" /\ loop' = LoopAt("pausing") /\ UNCHANGED served
  /\ UNCHANGED <<tables, client, cut, ws, sent, stopping, raced, bounds>>

LoopSent ==
  /\ loop.pc = "sent"
  /\ sent' = sent \cup loop.current
  /\ loop' = Sending(loop.todo)
  /\ UNCHANGED <<tables, client, cut, ws, served, stopping, raced, bounds>>

LoopSendRaises ==
  /\ loop.pc = "sent" /\ ws = "dead"
  /\ loop' = LoopAt("pausing")
  /\ UNCHANGED <<tables, client, cut, socket, stopping, raced, bounds>>

(* The finally of _run_once.                                               *)
Finally ==
  /\ ws' = "none" /\ served' = {} /\ sent' = {}
  /\ Cut({})

(* Between two messages the loop sees that nobody wants a feed or that it  *)
(* is to stop, and leaves; a receive on a closed socket raises.            *)
LoopLeaves ==
  /\ loop.pc = "receiving" /\ (Desired = {} \/ stopping)
  /\ Finally
  /\ loop' = LoopAt("waiting")
  /\ UNCHANGED <<tables, client, stopping, raced, bounds>>

LoopLost ==
  /\ loop.pc = "receiving" /\ ws = "dead"
  /\ Finally
  /\ loop' = LoopAt("pausing")
  /\ UNCHANGED <<tables, client, stopping, raced, bounds>>

LoopResumes ==
  /\ loop.pc = "pausing" /\ ~stopping
  /\ loop' = LoopAt("waiting")
  /\ UNCHANGED <<tables, client, cut, socket, stopping, raced, bounds>>

LoopEnds ==
  /\ loop.pc \in {"waiting", "pausing"} /\ stopping
  /\ loop' = LoopAt("done")
  /\ UNCHANGED <<tables, client, cut, socket, stopping, raced, bounds>>

LoopStep ==
  \/ Wanted \/ Connect \/ (\E f \in Feeds : LoopFrame(f)) \/ LoopSent
  \/ LoopLeaves \/ LoopLost \/ LoopResumes \/ LoopEnds

-----------------------------------------------------------------------------
(* stop, at the end of the process.                                        *)
Stop ==
  /\ ~stopping /\ stopping' = TRUE
  /\ Dies({})
  /\ UNCHANGED <<tables, client, sent, loop, raced, bounds>>

(* The connection is lost.                                                 *)
ConnectionLost ==
  /\ ws = "open" /\ Drop
  /\ Dies({})
  /\ UNCHANGED <<tables, client, sent, loop, stopping, raced>>

Next ==
  \/ \E c \in Clients :
       \/ Subscribe(c) \/ Unsubscribe(c) \/ ClientStep(c) \/ UnsubscribeRaises(c)
  \/ LoopStep \/ ConnectFails \/ LoopSendRaises
  \/ Stop \/ ConnectionLost

Spec == Init /\ [][Next]_vars

(* The loop is a task that is scheduled, a send returns, and the exchange  *)
(* refuses only finitely many connections.                                 *)
FairSpec == Spec /\ WF_vars(LoopStep) /\ \A c \in Clients : WF_vars(ClientStep(c))

-----------------------------------------------------------------------------
(* Types of the callbacks, the socket and the tasks.                       *)
TypeOK ==
  /\ registered \subseteq Clients /\ leaked \subseteq Feeds
  /\ client \in [Clients -> [pc : {"out", "subscribing", "subscribed", "in",
                                   "unsubscribing", "unsubscribed"},
                             close : BOOLEAN]]
  /\ cut \subseteq Clients
  /\ ws \in {"none", "open", "dead"} /\ served \subseteq Feeds /\ sent \subseteq Feeds
  /\ loop \in [pc : {"waiting", "connecting", "sending", "sent", "receiving",
                     "pausing", "done"},
               todo : SUBSET Feeds, current : SUBSET Feeds]
  /\ stopping \in BOOLEAN /\ raced \subseteq Feeds
  /\ calls \in 0 .. MaxCalls /\ drops \in 0 .. MaxDrops

(* While the socket receives and no call is under way, the exchange sends  *)
(* exactly the feeds somebody wants, however subscriptions, reconnects and *)
(* lost connections were interleaved; the exceptions are the two races     *)
(* that no lock prevents: a feed subscribed while another client was still *)
(* unsubscribing it, and one unsubscribed while the loop was sending it.   *)
AtRest == /\ loop.pc = "receiving" /\ ws = "open"
          /\ \A c \in Clients : client[c].pc \in {"in", "out"}
ServedAsWanted ==
  AtRest => served \ raced = Desired \ raced

(* A feed that stays wanted is served in the end, also when the connection *)
(* is lost while it is being subscribed; and when nobody wants anything    *)
(* the socket is closed, as the class promises.                            *)
SocketFollowsWishes ==
  []~stopping =>
    /\ \A f \in Feeds : <>[](f \in Desired) => <>[](f \in served \cup raced)
    /\ <>[](Desired = {}) => <>[](ws # "open")
=============================================================================
