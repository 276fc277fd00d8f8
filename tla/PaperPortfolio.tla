--------------------------- MODULE PaperPortfolio ---------------------------
(***************************************************************************)
(* PaperPortfolioService: the orders, fills, positions and cash of the     *)
(* paper portfolio, kept in the memory of one trader process and in the    *)
(* database.  Two asyncio tasks of the process share the service: the      *)
(* command loop (draft, confirm, cancel, close) and the autonomy loop      *)
(* (mark_to_market).  A task changes memory up to its next await; every    *)
(* database call reads in one step and commits in a later one, and none    *)
(* of them locks.  All orders here are of one symbol.                      *)
(***************************************************************************)
EXTENDS Naturals, FiniteSets

CONSTANTS
  Orders,       \* ids that drafts may get
  Longs,        \* those of them that are long; the others are short
  NoOrder,      \* no order
  MaxTrades,    \* bound: orders ever filled
  MaxCrashes,   \* bound: process restarts, with the command loop alone
  MaxLoopCrashes,   \* bound: process restarts, with both tasks
  MaxFailures   \* bound: database calls that raise

ASSUME OrdersAssumption == Longs \subseteq Orders /\ NoOrder \notin Orders
ASSUME BoundsAssumption == /\ MaxTrades \in Nat
                           /\ MaxCrashes \in Nat /\ MaxLoopCrashes \in Nat
                           /\ MaxFailures \in Nat

(* confirm_draft makes a fill and a position with ids of their own; the    *)
(* two are one trade here.                                                 *)
Trades == 1 .. MaxTrades

Tasks == {"command", "loop"}

OrderStatus == {"none", "new", "filled", "cancelled"}
PositionStatus == {"none", "open", "closed"}

(* The portfolio's cash as what was booked into it, and how many times.    *)
Entries == {"fee", "pnl"} \X Trades

VARIABLES
  memOrder, memPosition,    \* self.orders and self.positions
  ready,                    \* self.portfolio is set
  hydrated,                 \* self._hydrated
  dbOrder, dbFill, dbPosition, dbCash,    \* the paper_* tables
  orderOf,                  \* the order that a trade fills
  task,                     \* where each task stands
  looping,                  \* the settings start the autonomy loop, too
  crashes, failures

memory == <<memOrder, memPosition>>
started == <<ready, hydrated>>
database == <<dbOrder, dbFill, dbPosition, dbCash>>
environment == <<looping, crashes, failures>>
vars == <<memory, started, database, orderOf, task, environment>>

TaskState ==
  [pc : {"idle", "creating", "listOrders", "takeOrders", "listPositions",
         "takePositions", "saving", "sizing", "closing", "closed",
         "filling", "filled", "marking", "marked"},
   order : Orders \cup {NoOrder},      \* being drafted, cancelled or confirmed
   trade : Trades \cup {0},            \* being filled, closed or marked
   dump : OrderStatus \cup PositionStatus,   \* the status passed to the call
   seen : PositionStatus,              \* the status the session loaded
   cash : [Entries -> Nat],            \* the cash the session loaded
   listed : [Orders -> OrderStatus] \cup [Trades -> PositionStatus]]

Empty == [e \in Entries |-> 0]
NoPositions == [n \in Trades |-> "none"]
NoOrders == [o \in Orders |-> "none"]
Idle == [pc |-> "idle", order |-> NoOrder, trade |-> 0, dump |-> "none",
         seen |-> "none", cash |-> Empty, listed |-> NoPositions]

Fresh ==
  /\ memOrder = NoOrders /\ memPosition = NoPositions
  /\ dbOrder = NoOrders /\ dbFill = {} /\ dbPosition = NoPositions
  /\ dbCash = Empty
  /\ orderOf = [n \in Trades |-> NoOrder]
  /\ task = [t \in Tasks |-> Idle]
  /\ crashes = 0 /\ failures = 0

(* The command loop alone from its start, or both tasks once a first        *)
(* caller of initialize has come back: what the two do to each other       *)
(* after start-up.                                                         *)
Starting == Fresh /\ ~looping /\ ~ready /\ ~hydrated
Steady == Fresh /\ looping /\ ready /\ hydrated

Init == /\ looping \in BOOLEAN /\ ready = looping /\ hydrated = looping
        /\ Starting \/ Steady

At(t, pc) == task[t].pc = pc
Continue(t, next) == task' = [task EXCEPT ![t] = next]
IsLong(o) == o \in Longs

-----------------------------------------------------------------------------
(* initialize: the caller that finds no portfolio loads it, and sets       *)
(* self.portfolio before it has loaded the rest.                           *)

Initialize(t) ==
  /\ At(t, "idle") /\ ~ready
  /\ t = "loop" => looping
  /\ Continue(t, [Idle EXCEPT !.pc = "creating"])
  /\ UNCHANGED <<memory, started, database, orderOf, environment>>

Create(t) ==
  /\ At(t, "creating")
  /\ ready' = TRUE
  /\ Continue(t, IF hydrated THEN Idle ELSE [Idle EXCEPT !.pc = "listOrders"])
  /\ UNCHANGED <<memory, hydrated, database, orderOf, environment>>

ListOrders(t) ==
  /\ At(t, "listOrders")
  /\ Continue(t, [Idle EXCEPT !.pc = "takeOrders", !.listed = dbOrder])
  /\ UNCHANGED <<memory, started, database, orderOf, environment>>

(* The listed rows replace whatever memory holds under their ids.          *)
Hydrate(mem, listed) ==
  [x \in DOMAIN mem |-> IF listed[x] = "none" THEN mem[x] ELSE listed[x]]

TakeOrders(t) ==
  /\ At(t, "takeOrders")
  /\ memOrder' = Hydrate(memOrder, task[t].listed)
  /\ Continue(t, [Idle EXCEPT !.pc = "listPositions"])
  /\ UNCHANGED <<memPosition, started, database, orderOf, environment>>

ListPositions(t) ==
  /\ At(t, "listPositions")
  /\ Continue(t, [Idle EXCEPT !.pc = "takePositions", !.listed = dbPosition])
  /\ UNCHANGED <<memory, started, database, orderOf, environment>>

TakePositions(t) ==
  /\ At(t, "takePositions")
  /\ memPosition' = Hydrate(memPosition, task[t].listed)
  /\ hydrated' = TRUE
  /\ Continue(t, Idle)
  /\ UNCHANGED <<memOrder, ready, database, orderOf, environment>>

-----------------------------------------------------------------------------
(* Orders.  They are written by the command loop alone, so the get and the *)
(* commit of create_paper_order are one step.                              *)

SaveOf(o, n, status) ==
  [Idle EXCEPT !.pc = "saving", !.order = o, !.trade = n, !.dump = status]

(* A wrong status literal.                                                 *)
DraftMisspelt(o) ==
  /\ At("command", "idle") /\ ready
  /\ memOrder[o] = "none" /\ dbOrder[o] = "none"
  /\ memOrder' = [memOrder EXCEPT ![o] = "drafted"]
  /\ Continue("command", SaveOf(o, 0, "drafted"))
  /\ UNCHANGED <<memPosition, started, database, orderOf, environment>>

Draft(o) ==
  /\ At("command", "idle") /\ ready
  /\ memOrder[o] = "none" /\ dbOrder[o] = "none"      \* a fresh uuid
  /\ memOrder' = [memOrder EXCEPT ![o] = "new"]
  /\ Continue("command", SaveOf(o, 0, "new"))
  /\ UNCHANGED <<memPosition, started, database, orderOf, environment>>

CancelDraft(o) ==
  /\ At("command", "idle") /\ ready
  /\ memOrder[o] = "new"
  /\ memOrder' = [memOrder EXCEPT ![o] = "cancelled"]
  /\ Continue("command", SaveOf(o, 0, "cancelled"))
  /\ UNCHANGED <<memPosition, started, database, orderOf, environment>>

SaveOrder(t) ==
  /\ At(t, "saving")
  /\ dbOrder' = [dbOrder EXCEPT ![task[t].order] = task[t].dump]
  /\ Continue(t, IF task[t].trade = 0 THEN Idle
                 ELSE [task[t] EXCEPT !.pc = "filling"])
  /\ UNCHANGED <<memory, started, dbFill, dbPosition, dbCash, orderOf>>
  /\ UNCHANGED environment

(* The synchronous part of confirm_draft that fills the order.             *)
Fill(o) ==
  \E n \in Trades :
    /\ orderOf[n] = NoOrder /\ \A m \in 1 .. n - 1 : orderOf[m] # NoOrder
    /\ orderOf' = [orderOf EXCEPT ![n] = o]
    /\ memOrder' = [memOrder EXCEPT ![o] = "filled"]
    /\ memPosition' = [memPosition EXCEPT ![n] = "open"]
    /\ Continue("command", SaveOf(o, n, "filled"))
    /\ UNCHANGED <<started, database, environment>>

(* Without the early return for a closed position.                         *)
CloseAgain(t, n, o) ==
  /\ memPosition[n] # "none"
  /\ memPosition' = [memPosition EXCEPT ![n] = "closed"]
  /\ Continue(t, [Idle EXCEPT !.pc = "closing", !.order = o, !.trade = n])
  /\ UNCHANGED <<memOrder, started, database, orderOf, environment>>

(* close_position up to its first await.                                   *)
Close(t, n, o) ==
  /\ memPosition[n] = "open"
  /\ memPosition' = [memPosition EXCEPT ![n] = "closed"]
  /\ Continue(t, [Idle EXCEPT !.pc = "closing", !.order = o, !.trade = n])
  /\ UNCHANGED <<memOrder, started, database, orderOf, environment>>

Opposing(o) == {n \in Trades : /\ memPosition[n] = "open"
                               /\ IsLong(orderOf[n]) # IsLong(o)}

(* An opposing position rejects the order, which changes nothing, or with  *)
(* close_opposite is closed first: one of them, if there are several.      *)
Confirm(o) ==
  /\ At("command", "idle") /\ ready
  /\ memOrder[o] = "new"
  /\ \/ Opposing(o) = {} /\ Fill(o)
     \/ \E n \in Opposing(o) : Close("command", n, o)

(* The order is sized anew after the flip, or rejected by the caps.        *)
Resize ==
  /\ At("command", "sizing")
  /\ \/ Fill(task["command"].order)
     \/ /\ Continue("command", Idle)
        /\ UNCHANGED <<memory, started, database, orderOf, environment>>

ClosePosition(n) ==
  At("command", "idle") /\ ready /\ Close("command", n, NoOrder)

-----------------------------------------------------------------------------
(* The database calls: record_paper_fill, upsert_paper_position and        *)
(* close_paper_position.  Cash is loaded, changed and written back.        *)

FillRead(t) ==
  /\ At(t, "filling")
  /\ Continue(t, [task[t] EXCEPT !.pc = "filled", !.cash = dbCash])
  /\ UNCHANGED <<memory, started, database, orderOf, environment>>

(* The commit, after which the position is dumped for its own upsert.      *)
FillWrite(t) ==
  LET n == task[t].trade IN
  /\ At(t, "filled")
  /\ dbFill' = dbFill \cup {n}
  /\ dbCash' = [task[t].cash EXCEPT ![<<"fee", n>>] = @ + 1]
  /\ Continue(t, [Idle EXCEPT !.pc = "marking", !.trade = n,
                              !.dump = memPosition[n]])
  /\ UNCHANGED <<memory, started, dbOrder, dbPosition, orderOf, environment>>

UpsertRead(t) ==
  /\ At(t, "marking")
  /\ Continue(t, [task[t] EXCEPT !.pc = "marked",
                                 !.seen = dbPosition[task[t].trade]])
  /\ UNCHANGED <<memory, started, database, orderOf, environment>>

(* An insert that finds the row there raises: see Fails.  An update writes *)
(* the status only if it differs from the one loaded.                      *)
UpsertWrite(t) ==
  LET k == task[t] IN
  /\ At(t, "marked")
  /\ k.seen = "none" => dbPosition[k.trade] = "none"
  /\ dbPosition' = IF k.dump = k.seen THEN dbPosition
                   ELSE [dbPosition EXCEPT ![k.trade] = k.dump]
  /\ Continue(t, Idle)
  /\ UNCHANGED <<memory, started, dbOrder, dbFill, dbCash, orderOf>>
  /\ UNCHANGED environment

(* What follows close_paper_position: the rest of a flip, or nothing.      *)
AfterClose(t) ==
  IF task[t].order = NoOrder THEN Idle
  ELSE [Idle EXCEPT !.pc = "sizing", !.order = task[t].order]

(* Without the early return for a missing row.                             *)
CloseReadUnchecked(t) ==
  /\ At(t, "closing")
  /\ Continue(t, [task[t] EXCEPT !.pc = "closed", !.cash = dbCash,
                                 !.seen = dbPosition[task[t].trade]])
  /\ UNCHANGED <<memory, started, database, orderOf, environment>>

CloseRead(t) ==
  LET n == task[t].trade IN
  /\ At(t, "closing")
  /\ Continue(t, IF dbPosition[n] = "none" THEN AfterClose(t)
                 ELSE [task[t] EXCEPT !.pc = "closed", !.cash = dbCash,
                                      !.seen = dbPosition[n]])
  /\ UNCHANGED <<memory, started, database, orderOf, environment>>

CloseWrite(t) ==
  LET n == task[t].trade IN
  /\ At(t, "closed")
  /\ dbPosition' = IF task[t].seen = "closed" THEN dbPosition
                   ELSE [dbPosition EXCEPT ![n] = "closed"]
  /\ dbCash' = [task[t].cash EXCEPT ![<<"pnl", n>>] = @ + 1]
  /\ Continue(t, AfterClose(t))
  /\ UNCHANGED <<memory, started, dbOrder, dbFill, orderOf, environment>>

-----------------------------------------------------------------------------
(* mark_to_market: a hit stop or take-profit closes the position, any      *)
(* other mark saves it.                                                    *)
Mark(n) ==
  /\ looping /\ At("loop", "idle") /\ ready
  /\ memPosition[n] = "open"
  /\ \/ Close("loop", n, NoOrder)
     \/ /\ Continue("loop", [Idle EXCEPT !.pc = "marking", !.trade = n,
                                         !.dump = "open"])
        /\ UNCHANGED <<memory, started, database, orderOf, environment>>

(* A database call raises and ends the operation; memory stays as it is.   *)
(* A hydration that raised is not tried again.                             *)
Hydrating(t) == task[t].pc \in {"listOrders", "takeOrders",
                                "listPositions", "takePositions"}
Fails(t) ==
  /\ task[t].pc # "idle"
  /\ \/ failures < MaxFailures /\ failures' = failures + 1
     \/ /\ At(t, "marked") /\ task[t].seen = "none"     \* the insert is late
        /\ dbPosition[task[t].trade] # "none"
        /\ UNCHANGED failures
  /\ hydrated' = (hydrated \/ Hydrating(t))
  /\ Continue(t, Idle)
  /\ UNCHANGED <<memory, ready, database, orderOf, looping, crashes>>

Crash ==
  /\ crashes < IF looping THEN MaxLoopCrashes ELSE MaxCrashes
  /\ crashes' = crashes + 1
  /\ memOrder' = NoOrders /\ memPosition' = NoPositions
  /\ ready' = FALSE /\ hydrated' = FALSE
  /\ task' = [t \in Tasks |-> Idle]
  /\ UNCHANGED <<database, orderOf, looping, failures>>

Operation ==
  \/ \E o \in Orders : Draft(o) \/ CancelDraft(o) \/ Confirm(o)
  \/ Resize
  \/ \E n \in Trades : ClosePosition(n) \/ Mark(n)

Step(t) ==
  \/ Initialize(t) \/ Create(t)
  \/ ListOrders(t) \/ TakeOrders(t) \/ ListPositions(t) \/ TakePositions(t)
  \/ SaveOrder(t) \/ FillRead(t) \/ FillWrite(t)
  \/ UpsertRead(t) \/ UpsertWrite(t) \/ CloseRead(t) \/ CloseWrite(t)
  \/ Fails(t)

Next == Operation \/ (\E t \in Tasks : Step(t)) \/ Crash

Spec == Init /\ [][Next]_vars

-----------------------------------------------------------------------------
(* Memory, tables and tasks have the shape of the service and its records. *)
TypeOK ==
  /\ memOrder \in [Orders -> OrderStatus]
  /\ memPosition \in [Trades -> PositionStatus]
  /\ ready \in BOOLEAN /\ hydrated \in BOOLEAN
  /\ dbOrder \in [Orders -> OrderStatus]
  /\ dbFill \subseteq Trades
  /\ dbPosition \in [Trades -> PositionStatus]
  /\ dbCash \in [Entries -> Nat]
  /\ orderOf \in [Trades -> Orders \cup {NoOrder}]
  /\ task \in [Tasks -> TaskState]
  /\ looping \in BOOLEAN
  /\ crashes \in Nat /\ failures \in 0 .. MaxFailures

(* The cash in the database is what its fills and closed positions add up  *)
(* to.                                                                     *)
LedgerBalanced ==
  dbCash = [e \in Entries |->
              IF e[1] = "fee" THEN IF e[2] \in dbFill THEN 1 ELSE 0
              ELSE IF dbPosition[e[2]] = "closed" THEN 1 ELSE 0]

(* Between two commands, and as long as nothing failed, memory and         *)
(* database hold the same orders and positions.                            *)
MemoryPersisted ==
  hydrated /\ failures = 0 /\ (\A t \in Tasks : At(t, "idle")) =>
    memOrder = dbOrder /\ memPosition = dbPosition

(* When the command loop runs alone, whatever fails or crashes between any *)
(* two commits: no booking is lost, none is made twice, every position is  *)
(* backed by its fill, and memory and tables agree between two commands.   *)
OneTaskInStep ==
  ~looping => /\ LedgerBalanced
              /\ \A n \in Trades : dbPosition[n] # "none" => n \in dbFill
              /\ MemoryPersisted

(* No order is ever filled twice in the database.                          *)
OneFillPerOrder == \A m, n \in dbFill : orderOf[m] = orderOf[n] => m = n

(* No booking is made twice, and no fee of a fill that is not recorded.    *)
BookedAtMostOnce ==
  /\ \A e \in Entries : dbCash[e] <= 1
  /\ \A n \in Trades : dbCash[<<"fee", n>>] = 1 => n \in dbFill

(* A position that is closed in the database is not open in memory: it can *)
(* not be closed, and its profit booked, again.                            *)
ClosedStaysClosed ==
  \A n \in Trades : dbPosition[n] = "closed" => memPosition[n] # "open"

(* Two tasks that close, mark and fill positions at the same time may lose *)
(* a booking, but they fill, close and book nothing twice, until a restart,*)
(* whose two hydrations may take a filled order back to new; one task does *)
(* so over restarts, too.                                                  *)
NothingTwice ==
  (looping => crashes = 0) => OneFillPerOrder /\ BookedAtMostOnce /\ ClosedStaysClosed
=============================================================================
