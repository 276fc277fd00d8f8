----------------------- MODULE WsSubscriptionsProofs ------------------------
(***************************************************************************)
(* Proofs about WsSubscriptions, for any services, feeds and number of     *)
(* calls and lost connections: the types, and that the exchange serves     *)
(* what is wanted.                                                         *)
(***************************************************************************)
EXTENDS WsSubscriptions, TLAPS

ClientState == [pc : {"out", "subscribing", "subscribed", "in",
                      "unsubscribing", "unsubscribed"}, close : BOOLEAN]
LoopState == [pc : {"waiting", "connecting", "sending", "sent", "receiving",
                    "pausing", "done"},
              todo : SUBSET Feeds, current : SUBSET Feeds]

Subscribing == FeedsAt({"subscribing"})
Unsubscribing == FeedsAt({"unsubscribing"})
Undone == {FeedOf[c] : c \in {d \in Clients \ cut : client[d].pc = "unsubscribed"}}

(* A client has an entry from its call of subscribe to that of unsubscribe,*)
(* and only a frame on the socket can be cut.                              *)
Holding == {"in", "subscribing", "subscribed"}
ClientInv ==
  /\ registered = {c \in Clients : client[c].pc \in Holding}
  /\ \A c \in cut : client[c].pc \in {"subscribed", "unsubscribed"}

(* The socket is open only while the loop uses it.                         *)
LoopInv ==
  /\ loop.pc \in {"waiting", "connecting", "pausing", "done"} => ws # "open"
  /\ loop.pc = "receiving" => loop.todo = {}

(* Nobody wants what is being unsubscribed, and what the loop has to send  *)
(* is wanted, unless the two raced.                                        *)
WishInv ==
  /\ Unsubscribing \cap Desired \subseteq raced
  /\ loop.todo \cup loop.current \subseteq Desired \cup raced

(* While the socket is open: what is wanted is served, or will be by the   *)
(* loop or by the client that wants it; what is served is wanted, or will  *)
(* be unsubscribed; and what was sent is served, or was just unsubscribed. *)
ServedInv ==
  ws = "open" =>
    /\ Desired \subseteq served \cup loop.todo \cup Subscribing \cup raced
    /\ served \subseteq Desired \cup Unsubscribing \cup raced
    /\ loop.current \subseteq served \cup raced
    /\ sent \subseteq served \cup loop.todo \cup Subscribing \cup Undone \cup raced

SafeInv == TypeOK /\ ClientInv /\ LoopInv /\ WishInv /\ ServedInv

-----------------------------------------------------------------------------
(* The sets of feeds, as a client moves.                                   *)

LEMMA StatesTyped ==
  /\ Outside \in ClientState /\ Outside.pc = "out" /\ Inside \in ClientState /\ Inside.pc = "in"
  /\ \A pc \in {"waiting", "connecting", "receiving", "pausing", "done"} :
       LoopAt(pc) \in LoopState /\ LoopAt(pc).pc = pc
  /\ \A pc : LoopAt(pc).todo = {} /\ LoopAt(pc).current = {}
  /\ \A c \in Clients : FeedOf[c] \in Feeds
  BY DEF Outside, Inside, ClientState, LoopAt, LoopState, Feeds

LEMMA ClientsMove ==
  ASSUME TypeOK, NEW c \in Clients, NEW next \in ClientState, ClientGoes(c, next)
  PROVE  /\ client' \in [Clients -> ClientState]
         /\ client'[c] = next /\ \A d \in Clients \ {c} : client'[d] = client[d]
  BY DEF ClientGoes, TypeOK, ClientState

LEMMA FeedsMove ==
  ASSUME TypeOK, NEW c \in Clients, NEW next \in ClientState, ClientGoes(c, next), NEW pcs
  PROVE  /\ next.pc \in pcs => FeedsAt(pcs)' = FeedsAt(pcs) \cup {FeedOf[c]}
         /\ next.pc \notin pcs => /\ FeedsAt(pcs)' \subseteq FeedsAt(pcs)
                                  /\ FeedsAt(pcs) \subseteq FeedsAt(pcs)' \cup {FeedOf[c]}
         /\ client[c].pc \notin pcs /\ next.pc \notin pcs => FeedsAt(pcs)' = FeedsAt(pcs)
         /\ client[c].pc \in pcs => FeedOf[c] \in FeedsAt(pcs)
  BY ClientsMove DEF FeedsAt

LEMMA UndoneMoves ==
  ASSUME TypeOK, NEW c \in Clients, NEW next \in ClientState, ClientGoes(c, next),
         cut' = cut \/ cut' = cut \ {c}
  PROVE  /\ client[c].pc # "unsubscribed" \/ c \in cut => Undone \subseteq Undone'
         /\ Undone \subseteq Undone' \cup {FeedOf[c]}
         /\ next.pc = "unsubscribed" /\ c \notin cut' => FeedOf[c] \in Undone'
  BY ClientsMove DEF Undone

LEMMA DesiredIs ==
  /\ \A c \in registered : FeedOf[c] \in Desired
  /\ leaked \subseteq Desired
  /\ \A clients : DesiredBy(clients) = Static \cup leaked \cup {FeedOf[c] : c \in clients}
  BY DEF Desired, DesiredBy

-----------------------------------------------------------------------------
(* Type correctness.                                                       *)

LEMMA TypeParts ==
  TypeOK <=> /\ registered \subseteq Clients /\ leaked \subseteq Feeds
             /\ client \in [Clients -> ClientState] /\ cut \subseteq Clients
             /\ ws \in {"none", "open", "dead"} /\ served \subseteq Feeds /\ sent \subseteq Feeds
             /\ loop \in LoopState /\ stopping \in BOOLEAN /\ raced \subseteq Feeds
             /\ calls \in 0 .. MaxCalls /\ drops \in 0 .. MaxDrops
  BY DEF TypeOK, ClientState, LoopState

LEMMA FeedsTyped ==
  ASSUME TypeOK
  PROVE  /\ Desired \subseteq Feeds
         /\ \A c \in Clients : FeedOf[c] \in Feeds
  BY DEF TypeOK, Desired, DesiredBy, Feeds

LEMMA InitType == Init => TypeOK
  <1> SUFFICES ASSUME Init PROVE TypeOK
    OBVIOUS
  <1>1. client \in [Clients -> ClientState]
    BY StatesTyped DEF Init
  <1>2. loop \in LoopState
    BY DEF Init, LoopState
  <1>3. calls \in 0 .. MaxCalls /\ drops \in 0 .. MaxDrops
    BY BoundsAssumption DEF Init
  <1>4. /\ registered = {} /\ leaked = {} /\ cut = {} /\ served = {} /\ sent = {} /\ raced = {}
        /\ ws = "none" /\ stopping = FALSE
    BY DEF Init
  <1>5. stopping \in BOOLEAN
    BY <1>4
  <1> QED BY <1>1, <1>2, <1>3, <1>4, <1>5, TypeParts

LEMMA BoundsTyped ==
  ASSUME TypeOK, [Next]_vars
  PROVE  calls' \in 0 .. MaxCalls /\ drops' \in 0 .. MaxDrops
  <1>1. Call \/ Drop \/ UNCHANGED bounds
    BY DEF Next, Subscribe, Unsubscribe, ClientStep, SubscribeFrame, SubscribeReturns,
           UnsubscribeFrame, UnsubscribeReturns, UnsubscribeRaises, LoopStep, Wanted, Connect,
           LoopFrame, LoopSent, LoopLeaves, LoopLost, LoopResumes, LoopEnds, ConnectFails,
           LoopSendRaises, Stop, ConnectionLost, vars
  <1> QED BY <1>1, BoundsAssumption DEF Call, Drop, bounds, TypeOK

LEMMA ClientsTyped ==
  ASSUME TypeOK, ClientInv, NEW c \in Clients,
         Subscribe(c) \/ Unsubscribe(c) \/ ClientStep(c) \/ UnsubscribeRaises(c)
  PROVE  \E next \in ClientState : ClientGoes(c, next)
  <1>1. Subscribe(c) => \E next \in ClientState : ClientGoes(c, next)
    <2> DEFINE next == IF ws # "none" /\ FeedOf[c] \notin sent
                       THEN [Inside EXCEPT !.pc = "subscribing"] ELSE Inside
    <2>1. next \in ClientState
      BY StatesTyped DEF ClientState
    <2> QED BY <2>1 DEF Subscribe
  <1>2. Unsubscribe(c) => \E next \in ClientState : ClientGoes(c, next)
    <2> DEFINE still == DesiredBy(registered \ {c})
               close == still = {}
               next == IF ws # "none" /\ FeedOf[c] \notin still
                       THEN [pc |-> "unsubscribing", close |-> close] ELSE Outside
    <2>1. close \in BOOLEAN
      OBVIOUS
    <2>2. Unsubscribe(c) => ClientGoes(c, next)
      BY DEF Unsubscribe
    <2> HIDE DEF close
    <2>3. next \in ClientState
      BY <2>1, StatesTyped DEF ClientState
    <2> QED BY <2>2, <2>3
  <1>3. [Inside EXCEPT !.pc = "subscribed"] \in ClientState
    BY StatesTyped DEF ClientState
  <1>4. [client[c] EXCEPT !.pc = "unsubscribed"] \in ClientState
    BY TypeParts DEF ClientState
  <1>5. ClientStep(c) \/ UnsubscribeRaises(c) => \E next \in ClientState : ClientGoes(c, next)
    BY <1>3, <1>4, StatesTyped
       DEF ClientStep, UnsubscribeRaises, SubscribeFrame, SubscribeReturns, UnsubscribeFrame,
           UnsubscribeReturns, Leaks
  <1> QED BY <1>1, <1>2, <1>5

LEMMA ClientStepTyped ==
  ASSUME TypeOK, ClientInv, NEW c \in Clients,
         Subscribe(c) \/ Unsubscribe(c) \/ ClientStep(c) \/ UnsubscribeRaises(c)
  PROVE  TypeOK'
  <1>1. client' \in [Clients -> ClientState]
    BY ClientsTyped, ClientsMove
  <1>2. /\ registered' \subseteq Clients /\ leaked' \subseteq Feeds /\ cut' \subseteq Clients
        /\ ws' \in {"none", "open", "dead"} /\ served' \subseteq Feeds /\ sent' \subseteq Feeds
        /\ raced' \subseteq Feeds
    BY FeedsTyped
       DEF TypeOK, Subscribe, Unsubscribe, ClientStep, SubscribeFrame, SubscribeReturns,
           UnsubscribeFrame, UnsubscribeReturns, UnsubscribeRaises, Leaks, Dies, Cut,
           tables, socket
  <1>3. UNCHANGED <<loop, stopping>>
    BY DEF Subscribe, Unsubscribe, ClientStep, SubscribeFrame, SubscribeReturns,
           UnsubscribeFrame, UnsubscribeReturns, UnsubscribeRaises
  <1>4. calls' \in 0 .. MaxCalls /\ drops' \in 0 .. MaxDrops
    BY BoundsTyped DEF Next
  <1> QED BY <1>1, <1>2, <1>3, <1>4 DEF TypeOK, ClientState

LEMMA LoopStepTyped ==
  ASSUME TypeOK, LoopStep \/ ConnectFails \/ LoopSendRaises \/ Stop \/ ConnectionLost
  PROVE  TypeOK'
  <1>0. loop \in LoopState
    BY TypeParts
  <1>1. \A todo \in SUBSET Feeds : Sending(todo) \in LoopState
    BY StatesTyped DEF Sending, LoopState
  <1>2. ASSUME NEW f \in Feeds, LoopFrame(f) PROVE loop' \in LoopState
    <2>1. [loop EXCEPT !.pc = "sent", !.todo = @ \ {f}, !.current = {f}] \in LoopState
      BY <1>0 DEF LoopState
    <2> QED BY <1>2, <2>1, StatesTyped DEF LoopFrame
  <1>3. loop' \in LoopState
    <2>1. Connect => loop' \in LoopState
      BY <1>1, FeedsTyped DEF Connect
    <2>2. LoopSent => loop' \in LoopState
      BY <1>0, <1>1 DEF LoopSent, LoopState
    <2>3. Stop \/ ConnectionLost => UNCHANGED loop
      BY DEF Stop, ConnectionLost
    <2> QED BY <1>0, <1>2, <2>1, <2>2, <2>3, StatesTyped
            DEF LoopStep, Wanted, LoopLeaves, LoopLost, LoopResumes, LoopEnds, ConnectFails,
                LoopSendRaises
  <1>4. stopping' \in BOOLEAN
    BY DEF LoopStep, Wanted, Connect, LoopFrame, LoopSent, LoopLeaves, LoopLost, LoopResumes,
           LoopEnds, ConnectFails, LoopSendRaises, Stop, ConnectionLost, TypeOK
  <1>5. /\ ws' \in {"none", "open", "dead"} /\ served' \subseteq Feeds /\ sent' \subseteq Feeds
        /\ cut' \subseteq Clients /\ raced' \subseteq Feeds
    BY <1>0 DEF LoopStep, Wanted, Connect, LoopFrame, LoopSent, LoopLeaves, LoopLost, LoopResumes,
           LoopEnds, ConnectFails, LoopSendRaises, Stop, ConnectionLost, TypeOK, Dies, Cut,
           Finally, socket, LoopState
  <1>6. UNCHANGED <<registered, leaked, client>>
    BY DEF LoopStep, Wanted, Connect, LoopFrame, LoopSent, LoopLeaves, LoopLost, LoopResumes,
           LoopEnds, ConnectFails, LoopSendRaises, Stop, ConnectionLost, tables
  <1>7. calls' \in 0 .. MaxCalls /\ drops' \in 0 .. MaxDrops
    BY BoundsTyped DEF Next
  <1> QED BY <1>3, <1>4, <1>5, <1>6, <1>7 DEF TypeOK, LoopState

-----------------------------------------------------------------------------
(* The clients' entries and the loop's socket.                             *)

LEMMA ClientInvStep == TypeOK /\ ClientInv /\ [Next]_vars => ClientInv'
  <1> SUFFICES ASSUME TypeOK, ClientInv, [Next]_vars PROVE ClientInv'
    OBVIOUS
  <1>1. ASSUME NEW c \in Clients, NEW next \in ClientState, ClientGoes(c, next),
               registered' = (registered \ {c}) \cup (IF next.pc \in Holding THEN {c} ELSE {}),
               cut' \subseteq cut, c \in cut' => next.pc \in {"subscribed", "unsubscribed"}
        PROVE  ClientInv'
    BY <1>1, ClientsMove DEF ClientInv, TypeOK
  <1>2. ASSUME UNCHANGED <<registered, client>>,
               cut' \subseteq cut \cup {c \in Clients : client[c].pc \in {"subscribed", "unsubscribed"}}
        PROVE  ClientInv'
    BY <1>2 DEF ClientInv
  <1>3. ASSUME NEW c \in Clients, Subscribe(c) PROVE ClientInv'
    <2> DEFINE next == IF ws # "none" /\ FeedOf[c] \notin sent
                       THEN [Inside EXCEPT !.pc = "subscribing"] ELSE Inside
    <2>1. next \in ClientState /\ next.pc \in Holding
      BY StatesTyped DEF ClientState, Holding
    <2>2. ClientGoes(c, next) /\ registered' = registered \cup {c} /\ UNCHANGED cut /\ client[c] = Outside
      BY <1>3 DEF Subscribe
    <2>3. c \notin cut
      BY <2>2, StatesTyped DEF ClientInv
    <2> HIDE DEF next
    <2> QED BY <1>1, <2>1, <2>2, <2>3
  <1>4. ASSUME NEW c \in Clients, Unsubscribe(c) PROVE ClientInv'
    <2> DEFINE still == DesiredBy(registered \ {c})
               close == still = {}
               next == IF ws # "none" /\ FeedOf[c] \notin still
                       THEN [pc |-> "unsubscribing", close |-> close] ELSE Outside
    <2>1. close \in BOOLEAN
      OBVIOUS
    <2>2. ClientGoes(c, next) /\ registered' = registered \ {c} /\ UNCHANGED cut /\ client[c] = Inside
      BY <1>4 DEF Unsubscribe
    <2> HIDE DEF close
    <2>3. next \in ClientState /\ next.pc \notin Holding
      BY <2>1, StatesTyped DEF ClientState, Holding
    <2>4. c \notin cut
      BY <2>2, StatesTyped DEF ClientInv
    <2> HIDE DEF next
    <2> QED BY <1>1, <2>2, <2>3, <2>4
  <1>5. ASSUME NEW c \in Clients, Leaks(c) PROVE ClientInv'
    BY <1>1, <1>5, StatesTyped DEF Leaks, Holding
  <1>6. ASSUME NEW c \in Clients, ClientGoes(c, Inside), UNCHANGED registered, client[c].pc \in Holding,
               cut' = cut \ {c}
        PROVE  ClientInv'
    BY <1>1, <1>6, StatesTyped DEF ClientInv, Holding
  <1>7. ASSUME NEW c \in Clients, ClientGoes(c, Outside), UNCHANGED registered, client[c].pc \notin Holding,
               cut' = cut \ {c}
        PROVE  ClientInv'
    BY <1>1, <1>7, StatesTyped DEF ClientInv, Holding
  <1>8. ASSUME NEW c \in Clients, ClientStep(c) \/ UnsubscribeRaises(c) PROVE ClientInv'
    <2>1. CASE SubscribeFrame(c)
      <3>0. client[c].pc = "subscribing" /\ c \notin cut
        BY <2>1 DEF SubscribeFrame, ClientInv
      <3>1. CASE ClientGoes(c, Inside) /\ UNCHANGED <<tables, cut>>
        BY <1>6, <3>0, <3>1 DEF tables, Holding
      <3>2. CASE ClientGoes(c, [Inside EXCEPT !.pc = "subscribed"]) /\ UNCHANGED <<tables, cut>>
        <4>1. /\ [Inside EXCEPT !.pc = "subscribed"] \in ClientState
              /\ [Inside EXCEPT !.pc = "subscribed"].pc = "subscribed"
          BY StatesTyped DEF ClientState
        <4>2. c \in registered
          BY <3>0 DEF ClientInv, Holding
        <4> QED BY <1>1, <3>2, <4>1, <4>2 DEF tables, Holding
      <3> QED BY <1>5, <2>1, <3>1, <3>2 DEF SubscribeFrame
    <2>2. CASE SubscribeReturns(c)
      BY <1>5, <1>6, <2>2 DEF SubscribeReturns, tables, Holding
    <2>3. CASE UnsubscribeFrame(c)
      <3>0. client[c].pc = "unsubscribing" /\ c \notin cut /\ UNCHANGED <<registered, cut>>
        BY <2>3 DEF UnsubscribeFrame, ClientInv, tables
      <3>1. CASE ClientGoes(c, Outside)
        BY <1>7, <3>0, <3>1 DEF Holding
      <3>2. CASE ClientGoes(c, [client[c] EXCEPT !.pc = "unsubscribed"])
        <4>1. /\ [client[c] EXCEPT !.pc = "unsubscribed"] \in ClientState
              /\ [client[c] EXCEPT !.pc = "unsubscribed"].pc = "unsubscribed"
          BY TypeParts DEF ClientState
        <4>2. c \notin registered
          BY <3>0 DEF ClientInv, Holding
        <4> QED BY <1>1, <3>0, <3>2, <4>1, <4>2 DEF Holding
      <3> QED BY <2>3, <3>1, <3>2 DEF UnsubscribeFrame
    <2>4. CASE UnsubscribeReturns(c)
      <3>1. /\ client[c].pc = "unsubscribed" /\ ClientGoes(c, Outside) /\ UNCHANGED registered
            /\ \/ cut' = cut \ {c}
               \/ cut' = (cut \cup {d \in Clients : client[d].pc \in {"subscribed", "unsubscribed"}}) \ {c}
        BY <2>4 DEF UnsubscribeReturns, Dies, Cut, tables
      <3>2. \A d \in cut' : d # c /\ client[d].pc \in {"subscribed", "unsubscribed"}
        BY <3>1 DEF ClientInv
      <3>3. registered' = {d \in Clients : client'[d].pc \in Holding}
        BY <3>1, ClientsMove, StatesTyped DEF ClientInv, Holding
      <3>4. \A d \in cut' : client'[d].pc \in {"subscribed", "unsubscribed"}
        <4>1. cut' \subseteq Clients
          BY <3>1 DEF TypeOK
        <4> QED BY <3>1, <3>2, <4>1, ClientsMove, StatesTyped
      <3> QED BY <3>3, <3>4 DEF ClientInv
    <2>5. CASE UnsubscribeRaises(c)
      BY <1>7, <2>5 DEF UnsubscribeRaises, tables, Holding
    <2> QED BY <1>8, <2>1, <2>2, <2>3, <2>4, <2>5 DEF ClientStep
  <1>9. CASE LoopStep \/ ConnectFails \/ LoopSendRaises \/ Stop \/ ConnectionLost
    BY <1>2, <1>9
       DEF LoopStep, Wanted, Connect, LoopFrame, LoopSent, LoopLeaves, LoopLost, LoopResumes,
           LoopEnds, ConnectFails, LoopSendRaises, Stop, ConnectionLost, Dies, Cut, Finally, tables
  <1>10. CASE UNCHANGED vars
    BY <1>2, <1>10 DEF vars, tables
  <1> QED BY <1>3, <1>4, <1>8, <1>9, <1>10 DEF Next

LEMMA LoopInvStep == TypeOK /\ LoopInv /\ [Next]_vars => LoopInv'
  <1> SUFFICES ASSUME TypeOK, LoopInv, [Next]_vars PROVE LoopInv'
    OBVIOUS
  <1>0. loop \in LoopState
    BY TypeParts
  <1>1. ASSUME NEW c \in Clients,
               Subscribe(c) \/ Unsubscribe(c) \/ ClientStep(c) \/ UnsubscribeRaises(c)
        PROVE  UNCHANGED loop /\ (ws' = "open" => ws = "open")
    BY <1>1 DEF Subscribe, Unsubscribe, ClientStep, SubscribeFrame, SubscribeReturns,
                UnsubscribeFrame, UnsubscribeReturns, UnsubscribeRaises, Dies, socket
  <1>2. Stop \/ ConnectionLost \/ UNCHANGED vars => UNCHANGED loop /\ (ws' = "open" => ws = "open")
    BY DEF Stop, ConnectionLost, Dies, vars, socket
  <1>3. UNCHANGED loop /\ (ws' = "open" => ws = "open") => LoopInv'
    BY DEF LoopInv
  <1>4. ASSUME NEW todo, loop' = Sending(todo) PROVE LoopInv'
    BY <1>4, StatesTyped DEF LoopInv, Sending
  <1>5. ASSUME NEW f \in Feeds, LoopFrame(f) PROVE LoopInv'
    <2>1. [loop EXCEPT !.pc = "sent", !.todo = @ \ {f}, !.current = {f}].pc = "sent"
      BY <1>0 DEF LoopState
    <2> QED BY <1>5, <2>1, StatesTyped DEF LoopFrame, LoopInv
  <1>6. Connect \/ LoopSent => LoopInv'
    BY <1>4 DEF Connect, LoopSent
  <1>7. CASE Wanted \/ LoopLeaves \/ LoopLost \/ LoopResumes \/ LoopEnds \/ ConnectFails \/ LoopSendRaises
    BY <1>7, StatesTyped
       DEF Wanted, LoopLeaves, LoopLost, LoopResumes, LoopEnds, ConnectFails, LoopSendRaises,
           LoopInv, Finally, socket
  <1> QED BY <1>1, <1>2, <1>3, <1>5, <1>6, <1>7 DEF Next, LoopStep

-----------------------------------------------------------------------------
(* What is wanted and what is served, as the clients move.                 *)

LEMMA ClientFacts ==
  ASSUME SafeInv, NEW c \in Clients
  PROVE  /\ client[c].pc \in Holding <=> c \in registered
         /\ c \in registered => FeedOf[c] \in Desired
         /\ client[c].pc = "unsubscribing" => FeedOf[c] \in Unsubscribing /\ c \notin cut
         /\ FeedOf[c] \in Feeds
  BY StatesTyped DEF SafeInv, ClientInv, TypeOK, Desired, DesiredBy, Unsubscribing, FeedsAt, Holding

LEMMA LeavingSets == Unsubscribing \subseteq Leaving /\ Undone \subseteq Leaving
  BY DEF Unsubscribing, Undone, Leaving, FeedsAt

LEMMA SubscribeKeeps ==
  ASSUME SafeInv, NEW c \in Clients, Subscribe(c)
  PROVE  WishInv' /\ ServedInv'
  <1> DEFINE f == FeedOf[c]
             sends == ws # "none" /\ f \notin sent
             next == IF sends THEN [Inside EXCEPT !.pc = "subscribing"] ELSE Inside
  <1>1. /\ ClientGoes(c, next) /\ registered' = registered \cup {c} /\ client[c] = Outside
        /\ raced' = raced \cup ({f} \cap Leaving) /\ UNCHANGED <<leaked, cut, socket, loop>>
    BY DEF Subscribe
  <1>2. /\ next \in ClientState /\ next.pc = (IF sends THEN "subscribing" ELSE "in")
        /\ client[c].pc = "out"
    BY <1>1, StatesTyped DEF ClientState
  <1> HIDE DEF next
  <1>3. Desired' = Desired \cup {f}
    BY <1>1 DEF Desired, DesiredBy
  <1>4. Unsubscribing' = Unsubscribing /\ Undone \subseteq Undone'
    BY <1>1, <1>2, FeedsMove, UndoneMoves DEF SafeInv, Unsubscribing
  <1>5. Subscribing \subseteq Subscribing' /\ (sends => f \in Subscribing')
    BY <1>1, <1>2, FeedsMove DEF SafeInv, Subscribing
  <1>6. WishInv'
    BY <1>1, <1>3, <1>4, LeavingSets DEF SafeInv, WishInv
  <1>7. ServedInv'
    BY <1>1, <1>3, <1>4, <1>5, LeavingSets DEF SafeInv, ServedInv, socket
  <1> QED BY <1>6, <1>7

LEMMA UnsubscribeKeeps ==
  ASSUME SafeInv, NEW c \in Clients, Unsubscribe(c)
  PROVE  WishInv' /\ ServedInv'
  <1> DEFINE f == FeedOf[c]
             still == DesiredBy(registered \ {c})
             close == still = {}
             sends == ws # "none" /\ f \notin still
             next == IF sends THEN [pc |-> "unsubscribing", close |-> close] ELSE Outside
  <1>1. /\ ClientGoes(c, next) /\ registered' = registered \ {c} /\ client[c] = Inside
        /\ raced' = raced \cup ({f} \cap (loop.todo \cup loop.current))
        /\ UNCHANGED <<leaked, cut, socket, loop>>
    BY DEF Unsubscribe
  <1>0. close \in BOOLEAN
    OBVIOUS
  <1>3. Desired' = still /\ Desired \subseteq still \cup {f} /\ still \subseteq Desired
    BY <1>1 DEF Desired, DesiredBy
  <1> HIDE DEF close, still
  <1>2. /\ next \in ClientState /\ next.pc = (IF sends THEN "unsubscribing" ELSE "out")
        /\ client[c].pc = "in"
    BY <1>0, <1>1, StatesTyped DEF ClientState
  <1> HIDE DEF next
  <1>4. /\ sends => Unsubscribing' = Unsubscribing \cup {f}
        /\ ~sends => Unsubscribing' = Unsubscribing
        /\ Undone \subseteq Undone' /\ Subscribing' = Subscribing
    BY <1>1, <1>2, FeedsMove, UndoneMoves DEF SafeInv, Unsubscribing, Subscribing
  <1>6. WishInv'
    BY <1>1, <1>3, <1>4 DEF SafeInv, WishInv
  <1>7. ServedInv'
    BY <1>1, <1>3, <1>4 DEF SafeInv, ServedInv, socket
  <1> QED BY <1>6, <1>7

LEMMA LeaksKeeps ==
  ASSUME SafeInv, NEW c \in Clients, Leaks(c), client[c].pc \in {"subscribing", "subscribed"},
         client[c].pc = "subscribing" => ws = "dead",
         UNCHANGED <<ws, served, sent, loop, raced>>
  PROVE  WishInv' /\ ServedInv'
  <1>1. c \in registered /\ ClientGoes(c, Outside) /\ cut' = cut \ {c}
    BY ClientFacts DEF Leaks, Holding
  <1>2. Desired' = Desired
    BY <1>1 DEF Leaks, Desired, DesiredBy
  <1>3. Unsubscribing' = Unsubscribing /\ Undone \subseteq Undone'
    BY <1>1, FeedsMove, UndoneMoves, StatesTyped DEF SafeInv, Unsubscribing
  <1>4. ws = "open" => Subscribing' = Subscribing
    BY <1>1, FeedsMove, StatesTyped DEF SafeInv, Subscribing
  <1> QED BY <1>2, <1>3, <1>4 DEF SafeInv, WishInv, ServedInv

LEMMA SubscribeFrameKeeps ==
  ASSUME SafeInv, NEW c \in Clients, SubscribeFrame(c)
  PROVE  WishInv' /\ ServedInv'
  <1>0. /\ client[c].pc = "subscribing" /\ UNCHANGED <<ws, sent, loop, raced>>
        /\ c \in registered /\ FeedOf[c] \in Desired
    BY ClientFacts DEF SubscribeFrame, Holding
  <1>1. CASE ws = "none" /\ ClientGoes(c, Inside) /\ UNCHANGED <<tables, cut, served>>
    <2>1. Unsubscribing' = Unsubscribing
      BY <1>0, <1>1, FeedsMove, StatesTyped DEF SafeInv, Unsubscribing
    <2>2. Desired' = Desired /\ ws' = "none"
      BY <1>0, <1>1 DEF Desired, DesiredBy, tables
    <2> QED BY <1>0, <2>1, <2>2 DEF SafeInv, WishInv, ServedInv
  <1>2. CASE /\ ws = "open" /\ served' = served \cup {FeedOf[c]} /\ UNCHANGED <<tables, cut>>
             /\ ClientGoes(c, [Inside EXCEPT !.pc = "subscribed"])
    <2> DEFINE next == [Inside EXCEPT !.pc = "subscribed"]
    <2>1. next \in ClientState /\ next.pc = "subscribed" /\ ClientGoes(c, next)
      BY <1>2, StatesTyped DEF ClientState
    <2> HIDE DEF next
    <2>2. /\ Unsubscribing' = Unsubscribing /\ Undone \subseteq Undone'
          /\ Subscribing \subseteq Subscribing' \cup {FeedOf[c]}
      BY <1>0, <1>2, <2>1, FeedsMove, UndoneMoves DEF SafeInv, Unsubscribing, Subscribing
    <2>3. Desired' = Desired
      BY <1>2 DEF Desired, DesiredBy, tables
    <2> QED BY <1>0, <1>2, <2>2, <2>3 DEF SafeInv, WishInv, ServedInv
  <1>3. CASE ws = "dead" /\ Leaks(c) /\ UNCHANGED served
    BY <1>0, <1>3, LeaksKeeps
  <1> QED BY <1>1, <1>2, <1>3 DEF SubscribeFrame

LEMMA SubscribeReturnsKeeps ==
  ASSUME SafeInv, NEW c \in Clients, SubscribeReturns(c)
  PROVE  WishInv' /\ ServedInv'
  <1>0. /\ client[c].pc = "subscribed" /\ UNCHANGED <<ws, served, loop, raced>>
        /\ c \in registered /\ FeedOf[c] \in Desired
    BY ClientFacts DEF SubscribeReturns, Holding
  <1>1. CASE /\ sent' = sent \cup {FeedOf[c]} /\ ClientGoes(c, Inside) /\ cut' = cut \ {c}
             /\ UNCHANGED tables
    <2>1. Unsubscribing' = Unsubscribing /\ Undone \subseteq Undone' /\ Subscribing' = Subscribing
      BY <1>0, <1>1, FeedsMove, UndoneMoves, StatesTyped DEF SafeInv, Unsubscribing, Subscribing
    <2>2. Desired' = Desired
      BY <1>1 DEF Desired, DesiredBy, tables
    <2> QED BY <1>0, <1>1, <2>1, <2>2 DEF SafeInv, WishInv, ServedInv
  <1>2. CASE Leaks(c) /\ UNCHANGED sent
    BY <1>0, <1>2, LeaksKeeps
  <1> QED BY <1>1, <1>2 DEF SubscribeReturns

LEMMA UnsubscribeFrameKeeps ==
  ASSUME SafeInv, NEW c \in Clients, UnsubscribeFrame(c)
  PROVE  WishInv' /\ ServedInv'
  <1>0. /\ client[c].pc = "unsubscribing" /\ UNCHANGED <<cut, ws, sent, loop, raced>>
        /\ FeedOf[c] \in Unsubscribing /\ c \notin cut
    BY ClientFacts DEF UnsubscribeFrame
  <1>1. Desired' = Desired
    BY DEF UnsubscribeFrame, Desired, DesiredBy, tables
  <1>2. CASE ws # "open" /\ ClientGoes(c, Outside)
    <2>1. Unsubscribing' \subseteq Unsubscribing
      BY <1>2, FeedsMove, StatesTyped DEF SafeInv, Unsubscribing
    <2> QED BY <1>0, <1>1, <1>2, <2>1 DEF SafeInv, WishInv, ServedInv
  <1>3. CASE /\ ws = "open" /\ served' = served \ {FeedOf[c]}
             /\ ClientGoes(c, [client[c] EXCEPT !.pc = "unsubscribed"])
    <2> DEFINE next == [client[c] EXCEPT !.pc = "unsubscribed"]
    <2>1. next \in ClientState /\ next.pc = "unsubscribed" /\ ClientGoes(c, next)
      BY <1>3, TypeParts DEF ClientState, SafeInv
    <2> HIDE DEF next
    <2>2. /\ Unsubscribing' \subseteq Unsubscribing /\ Unsubscribing \subseteq Unsubscribing' \cup {FeedOf[c]}
          /\ Subscribing' = Subscribing
      BY <1>0, <2>1, FeedsMove DEF SafeInv, Unsubscribing, Subscribing
    <2>3. Undone \subseteq Undone' /\ FeedOf[c] \in Undone'
      BY <1>0, <2>1, UndoneMoves DEF SafeInv
    <2> QED BY <1>0, <1>1, <1>3, <2>2, <2>3 DEF SafeInv, WishInv, ServedInv
  <1> QED BY <1>2, <1>3 DEF UnsubscribeFrame

LEMMA UnsubscribeReturnsKeeps ==
  ASSUME SafeInv, NEW c \in Clients, UnsubscribeReturns(c)
  PROVE  WishInv' /\ ServedInv'
  <1>0. /\ client[c].pc = "unsubscribed" /\ UNCHANGED <<loop, raced>> /\ ClientGoes(c, Outside)
        /\ sent' = sent \ {FeedOf[c]}
    BY DEF UnsubscribeReturns
  <1>1. Desired' = Desired
    BY DEF UnsubscribeReturns, Desired, DesiredBy, tables
  <1>2. Unsubscribing' = Unsubscribing /\ Subscribing' = Subscribing
    BY <1>0, FeedsMove, StatesTyped DEF SafeInv, Unsubscribing, Subscribing
  <1>3. CASE Dies({c})
    <2>1. ws' # "open"
      BY <1>3 DEF Dies
    <2> QED BY <1>0, <1>1, <1>2, <2>1 DEF SafeInv, WishInv, ServedInv
  <1>4. CASE cut' = cut \ {c} /\ UNCHANGED <<ws, served>>
    <2>1. Undone \subseteq Undone' \cup {FeedOf[c]}
      BY <1>0, <1>4, UndoneMoves, StatesTyped DEF SafeInv
    <2> QED BY <1>0, <1>1, <1>2, <1>4, <2>1 DEF SafeInv, WishInv, ServedInv
  <1> QED BY <1>3, <1>4 DEF UnsubscribeReturns

LEMMA UnsubscribeRaisesKeeps ==
  ASSUME SafeInv, NEW c \in Clients, UnsubscribeRaises(c)
  PROVE  WishInv' /\ ServedInv'
  <1>0. /\ client[c].pc = "unsubscribed" /\ UNCHANGED <<ws, served, sent, loop, raced>>
        /\ ClientGoes(c, Outside) /\ cut' = cut \ {c} /\ c \in cut
    BY DEF UnsubscribeRaises, socket
  <1>1. Desired' = Desired
    BY DEF UnsubscribeRaises, Desired, DesiredBy, tables
  <1>2. Unsubscribing' = Unsubscribing /\ Subscribing' = Subscribing /\ Undone \subseteq Undone'
    BY <1>0, FeedsMove, UndoneMoves, StatesTyped DEF SafeInv, Unsubscribing, Subscribing
  <1> QED BY <1>0, <1>1, <1>2 DEF SafeInv, WishInv, ServedInv

-----------------------------------------------------------------------------
(* ... and as the loop connects, sends and leaves.                         *)

LEMMA ClientsStay ==
  ASSUME UNCHANGED <<tables, client>>
  PROVE  /\ Desired' = Desired /\ Unsubscribing' = Unsubscribing /\ Subscribing' = Subscribing
         /\ UNCHANGED cut => Undone' = Undone
  BY DEF tables, Desired, DesiredBy, Unsubscribing, Subscribing, FeedsAt, Undone

LEMMA SendingIs ==
  ASSUME NEW todo PROVE Sending(todo).todo = todo /\ Sending(todo).current = {}
  BY StatesTyped DEF Sending

LEMMA ConnectKeepsWishes ==
  ASSUME SafeInv, Connect
  PROVE  WishInv' /\ ServedInv'
  <1>1. Desired' = Desired /\ Unsubscribing' = Unsubscribing
    BY ClientsStay DEF Connect
  <1>2. /\ loop'.todo = Desired /\ loop'.current = {} /\ served' = {} /\ sent' = {}
        /\ raced' = raced \cap Unsubscribing
    BY SendingIs DEF Connect, Unsubscribing
  <1> QED BY <1>1, <1>2 DEF SafeInv, WishInv, ServedInv

LEMMA LoopFrameKeeps ==
  ASSUME SafeInv, NEW f \in Feeds, LoopFrame(f)
  PROVE  WishInv' /\ ServedInv'
  <1>1. /\ Desired' = Desired /\ Unsubscribing' = Unsubscribing /\ Subscribing' = Subscribing
        /\ Undone' = Undone /\ UNCHANGED <<ws, sent, raced>> /\ f \in loop.todo
    BY ClientsStay DEF LoopFrame
  <1>2. CASE ws = "open" /\ served' = served \cup {f}
             /\ loop' = [loop EXCEPT !.pc = "sent", !.todo = @ \ {f}, !.current = {f}]
    <2>1. loop'.todo = loop.todo \ {f} /\ loop'.current = {f}
      BY <1>2, TypeParts DEF SafeInv, LoopState
    <2> QED BY <1>1, <1>2, <2>1 DEF SafeInv, WishInv, ServedInv
  <1>3. CASE ws # "open" /\ loop' = LoopAt("pausing")
    BY <1>1, <1>3, StatesTyped DEF SafeInv, WishInv, ServedInv
  <1> QED BY <1>2, <1>3 DEF LoopFrame

LEMMA LoopSentKeeps ==
  ASSUME SafeInv, LoopSent
  PROVE  WishInv' /\ ServedInv'
  <1>1. /\ Desired' = Desired /\ Unsubscribing' = Unsubscribing /\ Subscribing' = Subscribing
        /\ Undone' = Undone /\ UNCHANGED <<ws, served, raced>>
    BY ClientsStay DEF LoopSent
  <1>2. loop'.todo = loop.todo /\ loop'.current = {} /\ sent' = sent \cup loop.current
    BY SendingIs DEF LoopSent
  <1> QED BY <1>1, <1>2 DEF SafeInv, WishInv, ServedInv

LEMMA ClosedKeeps ==
  ASSUME SafeInv, UNCHANGED <<tables, client, raced>>, ws' # "open",
         UNCHANGED loop \/ \E pc : loop' = LoopAt(pc)
  PROVE  WishInv' /\ ServedInv'
  <1>1. loop'.todo \cup loop'.current \subseteq loop.todo \cup loop.current
    BY StatesTyped
  <1> QED BY <1>1, ClientsStay DEF SafeInv, WishInv, ServedInv

LEMMA LoopKeeps ==
  ASSUME SafeInv, LoopStep \/ ConnectFails \/ LoopSendRaises \/ Stop \/ ConnectionLost
  PROVE  WishInv' /\ ServedInv'
  <1>1. CASE Wanted \/ LoopResumes \/ LoopEnds \/ ConnectFails \/ LoopSendRaises
    <2>1. UNCHANGED <<tables, client, raced>> /\ ws' # "open" /\ \E pc : loop' = LoopAt(pc)
      BY <1>1 DEF Wanted, LoopResumes, LoopEnds, ConnectFails, LoopSendRaises, SafeInv, LoopInv,
                  socket
    <2> QED BY <2>1, ClosedKeeps
  <1>2. CASE LoopLeaves \/ LoopLost
    <2>1. UNCHANGED <<tables, client, raced>> /\ ws' # "open" /\ \E pc : loop' = LoopAt(pc)
      BY <1>2 DEF LoopLeaves, LoopLost, Finally
    <2> QED BY <2>1, ClosedKeeps
  <1>3. CASE Stop \/ ConnectionLost
    BY <1>3, ClosedKeeps DEF Stop, ConnectionLost, Dies
  <1> QED BY <1>1, <1>2, <1>3, ConnectKeepsWishes, LoopFrameKeeps, LoopSentKeeps DEF LoopStep

-----------------------------------------------------------------------------
(* The invariant, and the theorems.                                        *)

LEMMA InitSafe == Init => SafeInv
  <1> SUFFICES ASSUME Init PROVE SafeInv
    OBVIOUS
  <1>1. ClientInv
    BY StatesTyped DEF Init, ClientInv, Holding
  <1>2. LoopInv /\ ServedInv
    BY DEF Init, LoopInv, ServedInv
  <1>3. WishInv
    BY StatesTyped DEF Init, WishInv, Unsubscribing, FeedsAt
  <1> QED BY <1>1, <1>2, <1>3, InitType DEF SafeInv

LEMMA NextSafe == SafeInv /\ [Next]_vars => SafeInv'
  <1> SUFFICES ASSUME SafeInv, [Next]_vars PROVE SafeInv'
    OBVIOUS
  <1>1. ClientInv' /\ LoopInv'
    BY ClientInvStep, LoopInvStep DEF SafeInv
  <1>2. ASSUME NEW c \in Clients,
               Subscribe(c) \/ Unsubscribe(c) \/ ClientStep(c) \/ UnsubscribeRaises(c)
        PROVE  TypeOK' /\ WishInv' /\ ServedInv'
    BY <1>2, ClientStepTyped, SubscribeKeeps, UnsubscribeKeeps, SubscribeFrameKeeps,
       SubscribeReturnsKeeps, UnsubscribeFrameKeeps, UnsubscribeReturnsKeeps,
       UnsubscribeRaisesKeeps DEF ClientStep, SafeInv
  <1>3. CASE LoopStep \/ ConnectFails \/ LoopSendRaises \/ Stop \/ ConnectionLost
    BY <1>1, <1>3, LoopStepTyped, LoopKeeps DEF SafeInv
  <1>4. CASE UNCHANGED vars
    <2>1. UNCHANGED <<tables, client, cut, ws, served, sent, loop, raced, stopping, bounds>>
      BY <1>4 DEF vars, socket
    <2>2. TypeOK'
      BY <2>1 DEF SafeInv, TypeOK, tables, bounds
    <2>3. WishInv' /\ ServedInv'
      BY <2>1, ClientsStay DEF SafeInv, WishInv, ServedInv
    <2> QED BY <1>1, <2>2, <2>3 DEF SafeInv
  <1> QED BY <1>1, <1>2, <1>3, <1>4 DEF Next, SafeInv

LEMMA AlwaysSafe == Spec => []SafeInv
  BY InitSafe, NextSafe, PTL DEF Spec

(* The callbacks, the socket and the tasks keep their types in every       *)
(* execution.                                                              *)
THEOREM TypeCorrect == Spec => []TypeOK
  <1>1. SafeInv => TypeOK
    BY DEF SafeInv
  <1> QED BY <1>1, AlwaysSafe, PTL

(* However subscriptions, unsubscriptions, lost connections and reconnects *)
(* interleave: while the socket receives and no call is under way, the     *)
(* exchange sends exactly what somebody wants, but for the feeds of the    *)
(* two races.                                                              *)
THEOREM WishesServed == Spec => []ServedAsWanted
  <1>1. SafeInv => ServedAsWanted
    <2> SUFFICES ASSUME SafeInv, AtRest PROVE served \ raced = Desired \ raced
      BY DEF ServedAsWanted
    <2>1. Subscribing = {} /\ Unsubscribing = {}
      BY DEF AtRest, Subscribing, Unsubscribing, FeedsAt
    <2>2. ws = "open" /\ loop.todo = {}
      BY DEF AtRest, SafeInv, LoopInv
    <2> QED BY <2>1, <2>2 DEF SafeInv, ServedInv
  <1> QED BY <1>1, AlwaysSafe, PTL
=============================================================================
