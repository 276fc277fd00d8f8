------------------------ MODULE PaperPortfolioProofs ------------------------
(***************************************************************************)
(* Proofs about PaperPortfolio, for any orders, number of trades, restarts *)
(* and failed calls: the types, what two tasks never do twice, and that    *)
(* one task keeps memory, tables and cash in step.                         *)
(***************************************************************************)
EXTENDS PaperPortfolio, TLAPS

-----------------------------------------------------------------------------
(* What a task is at work on where it stands.                              *)
OnTrade == {"filling", "filled", "closing", "closed", "marking", "marked"}
Proper(k) ==
  /\ k.pc \in {"saving", "sizing"} => k.order \in Orders
  /\ k.pc = "saving" => k.dump \in OrderStatus
  /\ k.pc \in OnTrade => k.trade \in Trades
  /\ k.pc \in {"marking", "marked"} => k.dump \in PositionStatus
  /\ k.pc = "takeOrders" => k.listed \in [Orders -> OrderStatus]
  /\ k.pc = "takePositions" => k.listed \in [Trades -> PositionStatus]

AtInv == \A t \in Tasks : Proper(task[t])

LEMMA IdleTyped ==
  /\ Idle \in TaskState /\ Proper(Idle)
  /\ Idle.pc = "idle" /\ Idle.order = NoOrder /\ Idle.trade = 0
  /\ NoPositions \in [Trades -> PositionStatus] /\ NoOrders \in [Orders -> OrderStatus]
  /\ Empty \in [Entries -> Nat]
  <1>1. /\ NoPositions \in [Trades -> PositionStatus] /\ NoOrders \in [Orders -> OrderStatus]
        /\ Empty \in [Entries -> Nat]
    BY DEF NoPositions, NoOrders, Empty, PositionStatus, OrderStatus
  <1>2. Idle \in TaskState
    BY <1>1 DEF Idle, TaskState, OrderStatus, PositionStatus
  <1>3. Proper(Idle)
    BY DEF Idle, Proper, OnTrade
  <1> QED BY <1>1, <1>2, <1>3 DEF Idle

(* A task that moves on, and the other one, that stays.                    *)
LEMMA Moves ==
  ASSUME task \in [Tasks -> TaskState], AtInv, NEW t \in Tasks, NEW next \in TaskState, Proper(next),
         Continue(t, next)
  PROVE  /\ task' \in [Tasks -> TaskState] /\ AtInv'
         /\ task'[t] = next /\ \A u \in Tasks \ {t} : task'[u] = task[u]
  <1>1. /\ task' \in [Tasks -> TaskState]
        /\ task'[t] = next /\ \A u \in Tasks \ {t} : task'[u] = task[u]
    BY DEF Continue
  <1>2. \A u \in Tasks : Proper(task'[u])
    BY <1>1 DEF AtInv
  <1> QED BY <1>1, <1>2 DEF AtInv

LEMMA Saves ==
  ASSUME NEW o \in Orders, NEW n \in Trades \cup {0}, NEW status \in OrderStatus
  PROVE  /\ SaveOf(o, n, status) \in TaskState /\ Proper(SaveOf(o, n, status))
         /\ SaveOf(o, n, status).pc = "saving" /\ SaveOf(o, n, status).order = o
         /\ SaveOf(o, n, status).trade = n /\ SaveOf(o, n, status).dump = status
  <1> DEFINE k == SaveOf(o, n, status)
  <1>1. k.pc = "saving" /\ k.order = o /\ k.trade = n /\ k.dump = status
    BY DEF SaveOf, Idle
  <1>2. k \in TaskState
    BY IdleTyped DEF SaveOf, TaskState
  <1> QED BY <1>1, <1>2 DEF Proper, OnTrade

(* The record of a task that turns to a close.                             *)
ClosingOf(n, o) == [Idle EXCEPT !.pc = "closing", !.order = o, !.trade = n]
LEMMA Closes ==
  ASSUME NEW o \in Orders \cup {NoOrder}, NEW n \in Trades
  PROVE  /\ ClosingOf(n, o) \in TaskState /\ Proper(ClosingOf(n, o))
         /\ ClosingOf(n, o).pc = "closing" /\ ClosingOf(n, o).order = o /\ ClosingOf(n, o).trade = n
  <1> DEFINE k == ClosingOf(n, o)
  <1>1. k.pc = "closing" /\ k.order = o /\ k.trade = n
    BY DEF ClosingOf, Idle
  <1>2. k \in TaskState
    BY IdleTyped DEF ClosingOf, TaskState
  <1> QED BY <1>1, <1>2 DEF Proper, OnTrade

MarkingOf(n, status) == [Idle EXCEPT !.pc = "marking", !.trade = n, !.dump = status]
LEMMA Marks ==
  ASSUME NEW n \in Trades, NEW status \in PositionStatus
  PROVE  /\ MarkingOf(n, status) \in TaskState /\ Proper(MarkingOf(n, status))
         /\ MarkingOf(n, status).pc = "marking" /\ MarkingOf(n, status).order = NoOrder
         /\ MarkingOf(n, status).trade = n /\ MarkingOf(n, status).dump = status
  <1> DEFINE k == MarkingOf(n, status)
  <1>1. k.pc = "marking" /\ k.order = NoOrder /\ k.trade = n /\ k.dump = status
    BY DEF MarkingOf, Idle
  <1>2. k \in TaskState
    BY IdleTyped DEF MarkingOf, TaskState
  <1> QED BY <1>1, <1>2 DEF Proper, OnTrade

LEMMA Afters ==
  ASSUME NEW t \in Tasks, task \in [Tasks -> TaskState]
  PROVE  /\ AfterClose(t) \in TaskState /\ Proper(AfterClose(t)) /\ AfterClose(t).trade = 0
         /\ AfterClose(t).order = task[t].order
         /\ AfterClose(t).pc = IF task[t].order = NoOrder THEN "idle" ELSE "sizing"
  <1> DEFINE k == AfterClose(t)
  <1>1. CASE task[t].order = NoOrder
    BY <1>1, IdleTyped DEF AfterClose
  <1>2. CASE task[t].order # NoOrder
    <2>1. task[t].order \in Orders
      BY <1>2 DEF TaskState
    <2>2. k = [Idle EXCEPT !.pc = "sizing", !.order = task[t].order]
      BY <1>2 DEF AfterClose
    <2>3. k.pc = "sizing" /\ k.order = task[t].order /\ k.trade = 0
      BY <2>2 DEF Idle
    <2>4. k \in TaskState
      BY <2>1, <2>2, IdleTyped DEF TaskState
    <2> QED BY <1>2, <2>1, <2>3, <2>4 DEF Proper, OnTrade
  <1> QED BY <1>1, <1>2

-----------------------------------------------------------------------------
(* What each step does to the fields of its task; the other task stays.    *)

Typed == TypeOK /\ AtInv
Stays(t) == \A u \in Tasks \ {t} : task'[u] = task[u]
TasksTyped == task' \in [Tasks -> TaskState] /\ AtInv'

Starts == {"creating", "listOrders", "takeOrders", "listPositions", "takePositions"}
Start(t) == \/ Initialize(t) \/ Create(t)
            \/ ListOrders(t) \/ TakeOrders(t) \/ ListPositions(t) \/ TakePositions(t)

LEMMA InitializeDoes ==
  ASSUME Typed, NEW t \in Tasks, Initialize(t)
  PROVE  /\ TasksTyped /\ Stays(t) /\ task[t].pc = "idle" /\ ~ready
         /\ t = "loop" => looping
         /\ task'[t].pc = "creating" /\ task'[t].order = NoOrder /\ task'[t].trade = 0
         /\ UNCHANGED <<memOrder, memPosition, ready, hydrated, database, orderOf, environment>>
  <1> DEFINE next == [Idle EXCEPT !.pc = "creating"]
  <1>1. next \in TaskState /\ Proper(next)
    BY IdleTyped DEF TaskState, Proper, OnTrade
  <1>2. next.pc = "creating" /\ next.order = NoOrder /\ next.trade = 0
    BY DEF Idle
  <1>3. Continue(t, next)
    BY DEF Initialize
  <1> HIDE DEF next
  <1>4. TasksTyped /\ task'[t] = next /\ Stays(t)
    BY <1>1, <1>3, Moves DEF Typed, TypeOK, TasksTyped, Stays
  <1> QED BY <1>2, <1>4 DEF Initialize, At, memory, started

LEMMA CreateDoes ==
  ASSUME Typed, NEW t \in Tasks, Create(t)
  PROVE  /\ TasksTyped /\ Stays(t) /\ task[t].pc = "creating" /\ ready'
         /\ task'[t].pc = IF hydrated THEN "idle" ELSE "listOrders"
         /\ task'[t].order = NoOrder /\ task'[t].trade = 0
         /\ UNCHANGED <<memOrder, memPosition, hydrated, database, orderOf, environment>>
  <1> DEFINE next == IF hydrated THEN Idle ELSE [Idle EXCEPT !.pc = "listOrders"]
             on == [Idle EXCEPT !.pc = "listOrders"]
  <1>1. on \in TaskState /\ Proper(on) /\ on.pc = "listOrders" /\ on.order = NoOrder /\ on.trade = 0
    BY IdleTyped DEF TaskState, Proper, OnTrade
  <1> HIDE DEF on
  <1>2. /\ next \in TaskState /\ Proper(next) /\ next.order = NoOrder /\ next.trade = 0
        /\ next.pc = IF hydrated THEN "idle" ELSE "listOrders"
    <2>1. CASE hydrated
      BY <2>1, IdleTyped
    <2>2. CASE ~hydrated
      BY <1>1, <2>2 DEF on
    <2> QED BY <2>1, <2>2
  <1>3. Continue(t, next)
    BY DEF Create
  <1> HIDE DEF next
  <1>4. TasksTyped /\ task'[t] = next /\ Stays(t)
    BY <1>2, <1>3, Moves DEF Typed, TypeOK, TasksTyped, Stays
  <1> QED BY <1>2, <1>4 DEF Create, At, memory

LEMMA ListOrdersDoes ==
  ASSUME Typed, NEW t \in Tasks, ListOrders(t)
  PROVE  /\ TasksTyped /\ Stays(t) /\ task[t].pc = "listOrders"
         /\ task'[t].pc = "takeOrders" /\ task'[t].listed = dbOrder
         /\ task'[t].order = NoOrder /\ task'[t].trade = 0
         /\ UNCHANGED <<memOrder, memPosition, ready, hydrated, database, orderOf, environment>>
  <1> DEFINE next == [Idle EXCEPT !.pc = "takeOrders", !.listed = dbOrder]
  <1>1. next.pc = "takeOrders" /\ next.order = NoOrder /\ next.trade = 0 /\ next.listed = dbOrder
    BY DEF Idle
  <1>2. next \in TaskState /\ Proper(next)
    <2>1. dbOrder \in [Orders -> OrderStatus]
      BY DEF Typed, TypeOK
    <2>2. next \in TaskState
      BY <2>1, IdleTyped DEF TaskState
    <2> QED BY <1>1, <2>1, <2>2 DEF Proper, OnTrade
  <1>3. Continue(t, next)
    BY DEF ListOrders
  <1> HIDE DEF next
  <1>4. TasksTyped /\ task'[t] = next /\ Stays(t)
    BY <1>2, <1>3, Moves DEF Typed, TypeOK, TasksTyped, Stays
  <1> QED BY <1>1, <1>4 DEF ListOrders, At, memory, started

LEMMA ListPositionsDoes ==
  ASSUME Typed, NEW t \in Tasks, ListPositions(t)
  PROVE  /\ TasksTyped /\ Stays(t) /\ task[t].pc = "listPositions"
         /\ task'[t].pc = "takePositions" /\ task'[t].listed = dbPosition
         /\ task'[t].order = NoOrder /\ task'[t].trade = 0
         /\ UNCHANGED <<memOrder, memPosition, ready, hydrated, database, orderOf, environment>>
  <1> DEFINE next == [Idle EXCEPT !.pc = "takePositions", !.listed = dbPosition]
  <1>1. next.pc = "takePositions" /\ next.order = NoOrder /\ next.trade = 0 /\ next.listed = dbPosition
    BY DEF Idle
  <1>2. next \in TaskState /\ Proper(next)
    <2>1. dbPosition \in [Trades -> PositionStatus]
      BY DEF Typed, TypeOK
    <2>2. next \in TaskState
      BY <2>1, IdleTyped DEF TaskState
    <2> QED BY <1>1, <2>1, <2>2 DEF Proper, OnTrade
  <1>3. Continue(t, next)
    BY DEF ListPositions
  <1> HIDE DEF next
  <1>4. TasksTyped /\ task'[t] = next /\ Stays(t)
    BY <1>2, <1>3, Moves DEF Typed, TypeOK, TasksTyped, Stays
  <1> QED BY <1>1, <1>4 DEF ListPositions, At, memory, started

LEMMA TakeOrdersDoes ==
  ASSUME Typed, NEW t \in Tasks, TakeOrders(t)
  PROVE  /\ TasksTyped /\ Stays(t) /\ task[t].pc = "takeOrders"
         /\ memOrder' \in [Orders -> OrderStatus]
         /\ \A o \in Orders : memOrder'[o] = IF task[t].listed[o] = "none" THEN memOrder[o]
                                             ELSE task[t].listed[o]
         /\ task'[t].pc = "listPositions" /\ task'[t].order = NoOrder /\ task'[t].trade = 0
         /\ UNCHANGED <<memPosition, ready, hydrated, database, orderOf, environment>>
  <1> DEFINE next == [Idle EXCEPT !.pc = "listPositions"]
  <1>1. next \in TaskState /\ Proper(next)
    BY IdleTyped DEF TaskState, Proper, OnTrade
  <1>2. next.pc = "listPositions" /\ next.order = NoOrder /\ next.trade = 0
    BY DEF Idle
  <1>3. Continue(t, next)
    BY DEF TakeOrders
  <1> HIDE DEF next
  <1>4. TasksTyped /\ task'[t] = next /\ Stays(t)
    BY <1>1, <1>3, Moves DEF Typed, TypeOK, TasksTyped, Stays
  <1>5. task[t].pc = "takeOrders" /\ memOrder \in [Orders -> OrderStatus]
    BY DEF TakeOrders, At, Typed, TypeOK
  <1>6. task[t].listed \in [Orders -> OrderStatus]
    BY <1>5 DEF Typed, AtInv, Proper
  <1>7. memOrder' = [o \in Orders |-> IF task[t].listed[o] = "none" THEN memOrder[o]
                                      ELSE task[t].listed[o]]
    BY <1>5 DEF TakeOrders, Hydrate
  <1>8. memOrder' \in [Orders -> OrderStatus]
    BY <1>5, <1>6, <1>7
  <1> QED BY <1>2, <1>4, <1>5, <1>7, <1>8 DEF TakeOrders, started

LEMMA TakePositionsDoes ==
  ASSUME Typed, NEW t \in Tasks, TakePositions(t)
  PROVE  /\ TasksTyped /\ Stays(t) /\ task[t].pc = "takePositions"
         /\ memPosition' \in [Trades -> PositionStatus]
         /\ \A n \in Trades : memPosition'[n] = IF task[t].listed[n] = "none" THEN memPosition[n]
                                                ELSE task[t].listed[n]
         /\ hydrated' /\ task'[t].pc = "idle" /\ task'[t].order = NoOrder /\ task'[t].trade = 0
         /\ UNCHANGED <<memOrder, ready, database, orderOf, environment>>
  <1>1. Continue(t, Idle)
    BY DEF TakePositions
  <1>2. TasksTyped /\ task'[t] = Idle /\ Stays(t)
    BY <1>1, IdleTyped, Moves DEF Typed, TypeOK, TasksTyped, Stays
  <1>3. task[t].pc = "takePositions" /\ memPosition \in [Trades -> PositionStatus]
    BY DEF TakePositions, At, Typed, TypeOK
  <1>4. task[t].listed \in [Trades -> PositionStatus]
    BY <1>3 DEF Typed, AtInv, Proper
  <1>5. memPosition' = [n \in Trades |-> IF task[t].listed[n] = "none" THEN memPosition[n]
                                         ELSE task[t].listed[n]]
    BY <1>3 DEF TakePositions, Hydrate
  <1>6. memPosition' \in [Trades -> PositionStatus]
    BY <1>3, <1>4, <1>5
  <1> QED BY <1>2, <1>3, <1>5, <1>6, IdleTyped DEF TakePositions

LEMMA OrderDoes ==
  ASSUME Typed, NEW o \in Orders, Draft(o) \/ CancelDraft(o)
  PROVE  \E status \in {"new", "cancelled"} :
           /\ TasksTyped /\ Stays("command") /\ task["command"].pc = "idle" /\ ready
           /\ status = "new" => memOrder[o] = "none" /\ dbOrder[o] = "none"
           /\ status = "cancelled" => memOrder[o] = "new"
           /\ memOrder' = [memOrder EXCEPT ![o] = status] /\ memOrder' \in [Orders -> OrderStatus]
           /\ task'["command"].pc = "saving" /\ task'["command"].order = o
           /\ task'["command"].trade = 0 /\ task'["command"].dump = status
           /\ UNCHANGED <<memPosition, ready, hydrated, database, orderOf, environment>>
  <1>1. PICK status \in {"new", "cancelled"} :
          /\ Continue("command", SaveOf(o, 0, status)) /\ memOrder' = [memOrder EXCEPT ![o] = status]
          /\ status = "new" => memOrder[o] = "none" /\ dbOrder[o] = "none"
          /\ status = "cancelled" => memOrder[o] = "new"
    BY DEF Draft, CancelDraft
  <1>2. status \in OrderStatus /\ "command" \in Tasks /\ 0 \in Trades \cup {0}
    BY DEF OrderStatus, Tasks
  <1>3. memOrder' \in [Orders -> OrderStatus]
    BY <1>1, <1>2 DEF Typed, TypeOK
  <1> DEFINE next == SaveOf(o, 0, status)
  <1>4. /\ next \in TaskState /\ Proper(next)
        /\ next.pc = "saving" /\ next.order = o /\ next.trade = 0 /\ next.dump = status
    BY <1>2, Saves
  <1> HIDE DEF next
  <1>5. TasksTyped /\ task'["command"] = next /\ Stays("command")
    BY <1>1, <1>2, <1>4, Moves DEF Typed, TypeOK, TasksTyped, Stays, next
  <1>6. /\ task["command"].pc = "idle" /\ ready
        /\ UNCHANGED <<memPosition, ready, hydrated, database, orderOf, environment>>
    BY DEF Draft, CancelDraft, At, started
  <1> QED BY <1>1, <1>3, <1>4, <1>5, <1>6

LEMMA FillDoes ==
  ASSUME Typed, NEW o \in Orders, Fill(o)
  PROVE  \E n \in Trades :
           /\ TasksTyped /\ Stays("command") /\ orderOf[n] = NoOrder
           /\ orderOf' = [orderOf EXCEPT ![n] = o] /\ orderOf' \in [Trades -> Orders \cup {NoOrder}]
           /\ memOrder' = [memOrder EXCEPT ![o] = "filled"] /\ memOrder' \in [Orders -> OrderStatus]
           /\ memPosition' = [memPosition EXCEPT ![n] = "open"]
           /\ memPosition' \in [Trades -> PositionStatus]
           /\ task'["command"].pc = "saving" /\ task'["command"].order = o
           /\ task'["command"].trade = n /\ task'["command"].dump = "filled"
           /\ UNCHANGED <<ready, hydrated, database, environment>>
  <1>1. PICK n \in Trades :
          /\ orderOf[n] = NoOrder /\ orderOf' = [orderOf EXCEPT ![n] = o]
          /\ memOrder' = [memOrder EXCEPT ![o] = "filled"]
          /\ memPosition' = [memPosition EXCEPT ![n] = "open"]
          /\ Continue("command", SaveOf(o, n, "filled"))
          /\ UNCHANGED <<started, database, environment>>
    BY DEF Fill
  <1>2. "filled" \in OrderStatus /\ "open" \in PositionStatus /\ "command" \in Tasks
    BY DEF OrderStatus, PositionStatus, Tasks
  <1>3. /\ memOrder' \in [Orders -> OrderStatus] /\ memPosition' \in [Trades -> PositionStatus]
        /\ orderOf' \in [Trades -> Orders \cup {NoOrder}]
    BY <1>1, <1>2 DEF Typed, TypeOK
  <1>4. TasksTyped /\ task'["command"] = SaveOf(o, n, "filled") /\ Stays("command")
    BY <1>1, <1>2, Saves, Moves DEF Typed, TypeOK, TasksTyped, Stays
  <1>5. SaveOf(o, n, "filled").pc = "saving" /\ SaveOf(o, n, "filled").order = o
        /\ SaveOf(o, n, "filled").trade = n /\ SaveOf(o, n, "filled").dump = "filled"
    BY <1>2, Saves
  <1> QED BY <1>1, <1>3, <1>4, <1>5 DEF started

LEMMA CloseDoes ==
  ASSUME Typed, NEW t \in Tasks, NEW n \in Trades, NEW o \in Orders \cup {NoOrder}, Close(t, n, o)
  PROVE  /\ TasksTyped /\ Stays(t) /\ memPosition[n] = "open"
         /\ memPosition' = [memPosition EXCEPT ![n] = "closed"]
         /\ memPosition' \in [Trades -> PositionStatus]
         /\ task'[t].pc = "closing" /\ task'[t].order = o /\ task'[t].trade = n
         /\ UNCHANGED <<memOrder, ready, hydrated, database, orderOf, environment>>
  <1>1. memPosition' \in [Trades -> PositionStatus]
    BY DEF Close, Typed, TypeOK, PositionStatus
  <1>2. Continue(t, ClosingOf(n, o))
    BY DEF Close, ClosingOf
  <1>3. TasksTyped /\ task'[t] = ClosingOf(n, o) /\ Stays(t)
    BY <1>2, Closes, Moves DEF Typed, TypeOK, TasksTyped, Stays
  <1> QED BY <1>1, <1>3, Closes DEF Close, started

(* A task that has nothing more to do.                                     *)
LEMMA RestDoes ==
  ASSUME Typed, NEW t \in Tasks, Continue(t, Idle)
  PROVE  /\ TasksTyped /\ Stays(t)
         /\ task'[t].pc = "idle" /\ task'[t].order = NoOrder /\ task'[t].trade = 0 /\ task'[t] = Idle
  <1>1. TasksTyped /\ task'[t] = Idle /\ Stays(t)
    BY IdleTyped, Moves DEF Typed, TypeOK, TasksTyped, Stays
  <1> QED BY <1>1, IdleTyped

(* A task that saves a mark.                                               *)
LEMMA MarkDoes ==
  ASSUME Typed, NEW t \in Tasks, NEW n \in Trades, NEW status \in PositionStatus,
         Continue(t, MarkingOf(n, status))
  PROVE  /\ TasksTyped /\ Stays(t)
         /\ task'[t].pc = "marking" /\ task'[t].order = NoOrder /\ task'[t].trade = n
         /\ task'[t].dump = status
  <1>1. TasksTyped /\ task'[t] = MarkingOf(n, status) /\ Stays(t)
    BY Marks, Moves DEF Typed, TypeOK, TasksTyped, Stays
  <1> QED BY <1>1, Marks

LEMMA SaveOrderDoes ==
  ASSUME Typed, NEW t \in Tasks, SaveOrder(t)
  PROVE  /\ TasksTyped /\ Stays(t) /\ task[t].pc = "saving" /\ task[t].order \in Orders
         /\ dbOrder' = [dbOrder EXCEPT ![task[t].order] = task[t].dump]
         /\ dbOrder' \in [Orders -> OrderStatus]
         /\ task[t].trade = 0 => /\ task'[t].pc = "idle" /\ task'[t].order = NoOrder
                                 /\ task'[t].trade = 0
         /\ task[t].trade # 0 => /\ task'[t].pc = "filling" /\ task'[t].order = task[t].order
                                 /\ task'[t].trade = task[t].trade /\ task'[t].dump = task[t].dump
         /\ UNCHANGED <<memOrder, memPosition, ready, hydrated, dbFill, dbPosition, dbCash, orderOf,
                        environment>>
  <1> DEFINE j == task[t]
             next == [j EXCEPT !.pc = "filling"]
  <1>1. j \in TaskState /\ Proper(j) /\ j.pc = "saving" /\ j.order \in Orders /\ j.dump \in OrderStatus
    BY DEF SaveOrder, At, Typed, TypeOK, AtInv, Proper
  <1>2. dbOrder' = [dbOrder EXCEPT ![j.order] = j.dump]
    BY DEF SaveOrder
  <1>3. dbOrder' \in [Orders -> OrderStatus]
    BY <1>1, <1>2 DEF Typed, TypeOK
  <1>4. UNCHANGED <<memOrder, memPosition, ready, hydrated, dbFill, dbPosition, dbCash, orderOf,
                    environment>>
    BY DEF SaveOrder, memory, started
  <1>5. CASE j.trade = 0
    <2>1. Continue(t, Idle)
      BY <1>5 DEF SaveOrder
    <2> QED BY <1>1, <1>2, <1>3, <1>4, <1>5, <2>1, RestDoes
  <1>6. CASE j.trade # 0
    <2> HIDE DEF j
    <2>1. next.pc = "filling" /\ next.order = j.order /\ next.trade = j.trade /\ next.dump = j.dump
          /\ next \in TaskState
      BY <1>1 DEF TaskState
    <2>2. j.trade \in Trades
      BY <1>1, <1>6 DEF TaskState
    <2>3. Proper(next)
      BY <2>1, <2>2 DEF Proper, OnTrade
    <2>4. Continue(t, next)
      BY <1>6 DEF SaveOrder, j
    <2> HIDE DEF next
    <2>5. TasksTyped /\ task'[t] = next /\ Stays(t)
      BY <2>1, <2>3, <2>4, Moves DEF Typed, TypeOK, TasksTyped, Stays
    <2> QED BY <1>1, <1>2, <1>3, <1>4, <1>6, <2>1, <2>5 DEF j
  <1> QED BY <1>5, <1>6

LEMMA FillReadDoes ==
  ASSUME Typed, NEW t \in Tasks, FillRead(t)
  PROVE  /\ TasksTyped /\ Stays(t) /\ task[t].pc = "filling" /\ task[t].trade \in Trades
         /\ task'[t].pc = "filled" /\ task'[t].cash = dbCash /\ task'[t].order = task[t].order
         /\ task'[t].trade = task[t].trade /\ task'[t].dump = task[t].dump
         /\ UNCHANGED <<memOrder, memPosition, ready, hydrated, database, orderOf, environment>>
  <1> DEFINE j == task[t]
             next == [j EXCEPT !.pc = "filled", !.cash = dbCash]
  <1>1. j \in TaskState /\ j.pc = "filling" /\ j.trade \in Trades /\ dbCash \in [Entries -> Nat]
    BY DEF FillRead, At, Typed, TypeOK, AtInv, Proper, OnTrade
  <1>2. Continue(t, next)
    BY DEF FillRead
  <1> HIDE DEF j
  <1>3. next.pc = "filled" /\ next.order = j.order /\ next.trade = j.trade /\ next.dump = j.dump
        /\ next.cash = dbCash /\ next \in TaskState
    BY <1>1 DEF TaskState
  <1>4. Proper(next)
    BY <1>1, <1>3 DEF Proper, OnTrade
  <1> HIDE DEF next
  <1>5. TasksTyped /\ task'[t] = next /\ Stays(t)
    BY <1>2, <1>3, <1>4, Moves DEF Typed, TypeOK, TasksTyped, Stays
  <1> QED BY <1>1, <1>3, <1>5 DEF FillRead, memory, started, j

LEMMA UpsertReadDoes ==
  ASSUME Typed, NEW t \in Tasks, UpsertRead(t)
  PROVE  /\ TasksTyped /\ Stays(t) /\ task[t].pc = "marking" /\ task[t].trade \in Trades
         /\ task'[t].pc = "marked" /\ task'[t].seen = dbPosition[task[t].trade]
         /\ task'[t].order = task[t].order
         /\ task'[t].trade = task[t].trade /\ task'[t].dump = task[t].dump
         /\ UNCHANGED <<memOrder, memPosition, ready, hydrated, database, orderOf, environment>>
  <1> DEFINE j == task[t]
             s == dbPosition[j.trade]
             next == [j EXCEPT !.pc = "marked", !.seen = s]
  <1>1. j \in TaskState /\ j.pc = "marking" /\ j.trade \in Trades /\ j.dump \in PositionStatus
    BY DEF UpsertRead, At, Typed, TypeOK, AtInv, Proper, OnTrade
  <1>2. s \in PositionStatus
    BY <1>1 DEF Typed, TypeOK
  <1>3. Continue(t, next)
    BY DEF UpsertRead
  <1> HIDE DEF j, s
  <1>4. next.pc = "marked" /\ next.order = j.order /\ next.trade = j.trade /\ next.dump = j.dump
        /\ next.seen = s /\ next \in TaskState
    BY <1>1, <1>2 DEF TaskState
  <1>5. Proper(next)
    BY <1>1, <1>4 DEF Proper, OnTrade
  <1> HIDE DEF next
  <1>6. TasksTyped /\ task'[t] = next /\ Stays(t)
    BY <1>3, <1>4, <1>5, Moves DEF Typed, TypeOK, TasksTyped, Stays
  <1> QED BY <1>1, <1>4, <1>6 DEF UpsertRead, memory, started, j, s

(* The cash that is written is the cash that was loaded, and one booking.  *)
LEMMA Books ==
  ASSUME NEW cash \in [Entries -> Nat], NEW e \in Entries, dbCash' = [cash EXCEPT ![e] = @ + 1]
  PROVE  /\ dbCash' \in [Entries -> Nat]
         /\ \A x \in Entries : dbCash'[x] = IF x = e THEN cash[x] + 1 ELSE cash[x]
  <1> DEFINE c == [cash EXCEPT ![e] = @ + 1]
  <1>1. \A x \in Entries : c[x] = IF x = e THEN cash[x] + 1 ELSE cash[x]
    OBVIOUS
  <1>2. c = [x \in Entries |-> c[x]] /\ dbCash' = c
    OBVIOUS
  <1> HIDE DEF c
  <1>3. \A x \in Entries : c[x] \in Nat
    BY <1>1
  <1> QED BY <1>1, <1>2, <1>3

LEMMA FillWriteDoes ==
  ASSUME Typed, NEW t \in Tasks, FillWrite(t)
  PROVE  /\ TasksTyped /\ Stays(t) /\ task[t].pc = "filled" /\ task[t].trade \in Trades
         /\ dbFill' = dbFill \cup {task[t].trade} /\ dbCash' \in [Entries -> Nat]
         /\ \A x \in Entries : dbCash'[x] = IF x = <<"fee", task[t].trade>> THEN task[t].cash[x] + 1
                                            ELSE task[t].cash[x]
         /\ task'[t].pc = "marking" /\ task'[t].order = NoOrder /\ task'[t].trade = task[t].trade
         /\ task'[t].dump = memPosition[task[t].trade]
         /\ UNCHANGED <<memOrder, memPosition, ready, hydrated, dbOrder, dbPosition, orderOf,
                        environment>>
  <1> DEFINE n == task[t].trade
             cash == task[t].cash
             e == <<"fee", n>>
  <1>1. task[t].pc = "filled" /\ n \in Trades /\ cash \in [Entries -> Nat]
    BY DEF FillWrite, At, Typed, TypeOK, AtInv, Proper, OnTrade, TaskState
  <1>2. memPosition[n] \in PositionStatus /\ e \in Entries
    BY <1>1 DEF Typed, TypeOK, Entries
  <1>3. Continue(t, MarkingOf(n, memPosition[n])) /\ dbCash' = [cash EXCEPT ![e] = @ + 1]
    BY DEF FillWrite, MarkingOf
  <1> HIDE DEF n, cash, e
  <1>4. /\ TasksTyped /\ Stays(t)
        /\ task'[t].pc = "marking" /\ task'[t].order = NoOrder /\ task'[t].trade = n
        /\ task'[t].dump = memPosition[n]
    BY <1>1, <1>2, <1>3, MarkDoes
  <1>5. /\ dbCash' \in [Entries -> Nat]
        /\ \A x \in Entries : dbCash'[x] = IF x = e THEN cash[x] + 1 ELSE cash[x]
    BY <1>1, <1>2, <1>3, Books
  <1>6. /\ dbFill' = dbFill \cup {n}
        /\ UNCHANGED <<memOrder, memPosition, ready, hydrated, dbOrder, dbPosition, orderOf, environment>>
    BY DEF FillWrite, memory, started, n
  <1> QED BY <1>1, <1>4, <1>5, <1>6 DEF n, cash, e

LEMMA UpsertWriteDoes ==
  ASSUME Typed, NEW t \in Tasks, UpsertWrite(t)
  PROVE  /\ TasksTyped /\ Stays(t) /\ task[t].pc = "marked" /\ task[t].trade \in Trades
         /\ task[t].dump \in PositionStatus
         /\ task[t].seen = "none" => dbPosition[task[t].trade] = "none"
         /\ dbPosition' = IF task[t].dump = task[t].seen THEN dbPosition
                          ELSE [dbPosition EXCEPT ![task[t].trade] = task[t].dump]
         /\ dbPosition' \in [Trades -> PositionStatus]
         /\ task'[t].pc = "idle" /\ task'[t].order = NoOrder /\ task'[t].trade = 0
         /\ UNCHANGED <<memOrder, memPosition, ready, hydrated, dbOrder, dbFill, dbCash, orderOf,
                        environment>>
  <1>1. task[t].pc = "marked" /\ task[t].trade \in Trades /\ task[t].dump \in PositionStatus
    BY DEF UpsertWrite, At, Typed, TypeOK, AtInv, Proper, OnTrade
  <1>2. /\ task[t].seen = "none" => dbPosition[task[t].trade] = "none"
        /\ dbPosition' = IF task[t].dump = task[t].seen THEN dbPosition
                         ELSE [dbPosition EXCEPT ![task[t].trade] = task[t].dump]
        /\ Continue(t, Idle)
        /\ UNCHANGED <<memOrder, memPosition, ready, hydrated, dbOrder, dbFill, dbCash, orderOf,
                       environment>>
    BY DEF UpsertWrite, memory, started
  <1>3. dbPosition' \in [Trades -> PositionStatus]
    BY <1>1, <1>2 DEF Typed, TypeOK
  <1> QED BY <1>1, <1>2, <1>3, RestDoes

LEMMA AfterDoes ==
  ASSUME Typed, NEW t \in Tasks, Continue(t, AfterClose(t))
  PROVE  /\ TasksTyped /\ Stays(t) /\ task'[t].trade = 0 /\ task'[t].order = task[t].order
         /\ task'[t].pc = IF task[t].order = NoOrder THEN "idle" ELSE "sizing"
  <1> DEFINE next == AfterClose(t)
  <1>1. /\ next \in TaskState /\ Proper(next) /\ next.trade = 0 /\ next.order = task[t].order
        /\ next.pc = IF task[t].order = NoOrder THEN "idle" ELSE "sizing"
    BY Afters DEF Typed, TypeOK
  <1> HIDE DEF next
  <1>2. TasksTyped /\ task'[t] = next /\ Stays(t)
    BY <1>1, Moves DEF Typed, TypeOK, TasksTyped, Stays, next
  <1> QED BY <1>1, <1>2

LEMMA CloseReadDoes ==
  ASSUME Typed, NEW t \in Tasks, CloseRead(t)
  PROVE  /\ TasksTyped /\ Stays(t) /\ task[t].pc = "closing" /\ task[t].trade \in Trades
         /\ task'[t].order = task[t].order
         /\ \/ /\ dbPosition[task[t].trade] = "none" /\ task'[t].trade = 0
               /\ task'[t].pc = IF task[t].order = NoOrder THEN "idle" ELSE "sizing"
            \/ /\ dbPosition[task[t].trade] # "none" /\ task'[t].trade = task[t].trade
               /\ task'[t].pc = "closed" /\ task'[t].cash = dbCash
               /\ task'[t].seen = dbPosition[task[t].trade]
         /\ UNCHANGED <<memOrder, memPosition, ready, hydrated, database, orderOf, environment>>
  <1> DEFINE j == task[t]
             s == dbPosition[j.trade]
             next == [j EXCEPT !.pc = "closed", !.cash = dbCash, !.seen = s]
  <1>1. j \in TaskState /\ j.pc = "closing" /\ j.trade \in Trades /\ dbCash \in [Entries -> Nat]
    BY DEF CloseRead, At, Typed, TypeOK, AtInv, Proper, OnTrade
  <1>2. s \in PositionStatus
    BY <1>1 DEF Typed, TypeOK
  <1>3. UNCHANGED <<memOrder, memPosition, ready, hydrated, database, orderOf, environment>>
    BY DEF CloseRead, memory, started
  <1>4. CASE s = "none"
    <2>1. Continue(t, AfterClose(t))
      BY <1>4 DEF CloseRead
    <2> QED BY <1>1, <1>3, <1>4, <2>1, AfterDoes
  <1>5. CASE s # "none"
    <2>1. Continue(t, next)
      BY <1>5 DEF CloseRead
    <2> HIDE DEF j, s
    <2>2. next.pc = "closed" /\ next.order = j.order /\ next.trade = j.trade
          /\ next.seen = s /\ next.cash = dbCash /\ next \in TaskState
      BY <1>1, <1>2 DEF TaskState
    <2>3. Proper(next)
      BY <1>1, <2>2 DEF Proper, OnTrade
    <2> HIDE DEF next
    <2>4. TasksTyped /\ task'[t] = next /\ Stays(t)
      BY <2>1, <2>2, <2>3, Moves DEF Typed, TypeOK, TasksTyped, Stays
    <2> QED BY <1>1, <1>3, <1>5, <2>2, <2>4 DEF j, s
  <1> QED BY <1>4, <1>5

LEMMA CloseWriteDoes ==
  ASSUME Typed, NEW t \in Tasks, CloseWrite(t)
  PROVE  /\ TasksTyped /\ Stays(t) /\ task[t].pc = "closed" /\ task[t].trade \in Trades
         /\ task'[t].order = task[t].order /\ task'[t].trade = 0
         /\ task'[t].pc = IF task[t].order = NoOrder THEN "idle" ELSE "sizing"
         /\ dbPosition' = IF task[t].seen = "closed" THEN dbPosition
                          ELSE [dbPosition EXCEPT ![task[t].trade] = "closed"]
         /\ dbPosition' \in [Trades -> PositionStatus] /\ dbCash' \in [Entries -> Nat]
         /\ \A x \in Entries : dbCash'[x] = IF x = <<"pnl", task[t].trade>> THEN task[t].cash[x] + 1
                                            ELSE task[t].cash[x]
         /\ UNCHANGED <<memOrder, memPosition, ready, hydrated, dbOrder, dbFill, orderOf, environment>>
  <1> DEFINE n == task[t].trade
             cash == task[t].cash
             e == <<"pnl", n>>
  <1>1. task[t].pc = "closed" /\ n \in Trades /\ cash \in [Entries -> Nat]
    BY DEF CloseWrite, At, Typed, TypeOK, AtInv, Proper, OnTrade, TaskState
  <1>2. e \in Entries
    BY <1>1 DEF Entries
  <1>3. /\ Continue(t, AfterClose(t)) /\ dbCash' = [cash EXCEPT ![e] = @ + 1]
        /\ dbPosition' = IF task[t].seen = "closed" THEN dbPosition
                         ELSE [dbPosition EXCEPT ![n] = "closed"]
        /\ UNCHANGED <<memOrder, memPosition, ready, hydrated, dbOrder, dbFill, orderOf, environment>>
    BY DEF CloseWrite, memory, started
  <1>4. dbPosition' \in [Trades -> PositionStatus]
    BY <1>1, <1>3 DEF Typed, TypeOK, PositionStatus
  <1> HIDE DEF n, cash, e
  <1>5. /\ dbCash' \in [Entries -> Nat]
        /\ \A x \in Entries : dbCash'[x] = IF x = e THEN cash[x] + 1 ELSE cash[x]
    BY <1>1, <1>2, <1>3, Books
  <1> QED BY <1>1, <1>3, <1>4, <1>5, AfterDoes DEF n, cash, e

LEMMA FailsDoes ==
  ASSUME Typed, NEW t \in Tasks, Fails(t)
  PROVE  /\ TasksTyped /\ Stays(t) /\ task[t].pc # "idle"
         /\ \/ failures < MaxFailures /\ failures' = failures + 1
            \/ /\ task[t].pc = "marked" /\ task[t].seen = "none" /\ dbPosition[task[t].trade] # "none"
               /\ UNCHANGED failures
         /\ hydrated' = (hydrated \/ Hydrating(t))
         /\ task'[t].pc = "idle" /\ task'[t].order = NoOrder /\ task'[t].trade = 0 /\ task'[t] = Idle
         /\ UNCHANGED <<memOrder, memPosition, ready, database, orderOf, looping, crashes>>
  <1>1. /\ Continue(t, Idle) /\ task[t].pc # "idle" /\ hydrated' = (hydrated \/ Hydrating(t))
        /\ UNCHANGED <<memOrder, memPosition, ready, database, orderOf, looping, crashes>>
    BY DEF Fails, memory
  <1>2. \/ failures < MaxFailures /\ failures' = failures + 1
        \/ /\ task[t].pc = "marked" /\ task[t].seen = "none" /\ dbPosition[task[t].trade] # "none"
           /\ UNCHANGED failures
    BY DEF Fails, At
  <1> QED BY <1>1, <1>2, RestDoes

LEMMA CrashDoes ==
  ASSUME Typed, Crash
  PROVE  /\ TasksTyped /\ \A t \in Tasks : task'[t] = Idle
         /\ memOrder' = NoOrders /\ memPosition' = NoPositions
         /\ ready' = FALSE /\ hydrated' = FALSE
         /\ crashes' = crashes + 1 /\ UNCHANGED <<database, orderOf, looping, failures>>
  <1>1. task' \in [Tasks -> TaskState] /\ \A t \in Tasks : task'[t] = Idle
    BY IdleTyped DEF Crash
  <1>2. AtInv'
    BY <1>1, IdleTyped DEF AtInv
  <1> QED BY <1>1, <1>2 DEF Crash, TasksTyped

-----------------------------------------------------------------------------
(* The operations, by what they come to: an order is filled, confirmed     *)
(* just now or after its flip; a position is ended, by a flip, a close or  *)
(* a mark; an order is rejected after its flip; a mark is saved.           *)
Fills(o) ==
  /\ Fill(o)
  /\ \/ task["command"].pc = "idle" /\ ready /\ memOrder[o] = "new"
     \/ task["command"].pc = "sizing" /\ task["command"].order = o
Ends(t, n, o) ==
  /\ Close(t, n, o) /\ task[t].pc = "idle" /\ ready
  /\ t = "loop" => looping /\ o = NoOrder
  /\ o # NoOrder => memOrder[o] = "new"
Rejects ==
  /\ task["command"].pc = "sizing" /\ Continue("command", Idle)
  /\ UNCHANGED <<memOrder, memPosition, ready, hydrated, database, orderOf, environment>>
Remarks(n) ==
  /\ looping /\ task["loop"].pc = "idle" /\ ready /\ memPosition[n] = "open"
  /\ Continue("loop", MarkingOf(n, "open"))
  /\ UNCHANGED <<memOrder, memPosition, ready, hydrated, database, orderOf, environment>>
Calls(t) == \/ SaveOrder(t) \/ FillRead(t) \/ FillWrite(t)
            \/ UpsertRead(t) \/ UpsertWrite(t) \/ CloseRead(t) \/ CloseWrite(t)

LEMMA OperationCases ==
  ASSUME Typed, Operation
  PROVE  \/ \E o \in Orders : Draft(o) \/ CancelDraft(o)
         \/ \E o \in Orders : Fills(o)
         \/ \E t \in Tasks, n \in Trades, o \in Orders \cup {NoOrder} : Ends(t, n, o)
         \/ Rejects
         \/ \E n \in Trades : Remarks(n)
  <1>1. ASSUME NEW o \in Orders, Confirm(o)
        PROVE  Fills(o) \/ \E t \in Tasks, n \in Trades : Ends(t, n, o)
    <2>1. task["command"].pc = "idle" /\ ready /\ memOrder[o] = "new"
      BY <1>1 DEF Confirm, At
    <2>2. Fill(o) \/ \E n \in Trades : Close("command", n, o)
      BY <1>1 DEF Confirm, Opposing
    <2>3. "command" \in Tasks /\ "command" # "loop"
      BY DEF Tasks
    <2> QED BY <2>1, <2>2, <2>3 DEF Fills, Ends
  <1>2. CASE Resize
    <2>1. task["command"].pc = "sizing" /\ task["command"].order \in Orders
      BY <1>2 DEF Resize, At, Typed, TypeOK, AtInv, Proper, Tasks
    <2>2. Fill(task["command"].order) \/ Rejects
      BY <1>2, <2>1 DEF Resize, Rejects, memory, started
    <2> QED BY <2>1, <2>2 DEF Fills
  <1>3. ASSUME NEW n \in Trades, ClosePosition(n)
        PROVE  \E t \in Tasks : Ends(t, n, NoOrder)
    <2>1. "command" \in Tasks /\ Ends("command", n, NoOrder)
      BY <1>3 DEF ClosePosition, Ends, At, Tasks
    <2> QED BY <2>1
  <1>4. ASSUME NEW n \in Trades, Mark(n)
        PROVE  Remarks(n) \/ \E t \in Tasks : Ends(t, n, NoOrder)
    <2>1. looping /\ task["loop"].pc = "idle" /\ ready /\ memPosition[n] = "open" /\ "loop" \in Tasks
      BY <1>4 DEF Mark, At, Tasks
    <2>2. Close("loop", n, NoOrder) => Ends("loop", n, NoOrder)
      BY <2>1 DEF Ends
    <2>3. ~Close("loop", n, NoOrder) => Remarks(n)
      BY <1>4, <2>1 DEF Mark, Remarks, MarkingOf, memory, started
    <2> QED BY <2>1, <2>2, <2>3
  <1> QED BY <1>1, <1>2, <1>3, <1>4 DEF Operation

LEMMA NextCases ==
  ASSUME Typed, [Next]_vars
  PROVE  \/ \E o \in Orders : Draft(o) \/ CancelDraft(o)
         \/ \E o \in Orders : Fills(o)
         \/ \E t \in Tasks, n \in Trades, o \in Orders \cup {NoOrder} : Ends(t, n, o)
         \/ Rejects
         \/ \E n \in Trades : Remarks(n)
         \/ \E t \in Tasks : Start(t) \/ Calls(t) \/ Fails(t)
         \/ Crash
         \/ UNCHANGED vars
  <1>1. CASE Operation
    BY <1>1, OperationCases
  <1>2. ASSUME NEW t \in Tasks, Step(t) PROVE Start(t) \/ Calls(t) \/ Fails(t)
    BY <1>2 DEF Step, Start, Calls
  <1> QED BY <1>1, <1>2 DEF Next

LEMMA NextTyped == Typed /\ [Next]_vars => Typed'
  <1> SUFFICES ASSUME Typed, [Next]_vars PROVE TypeOK' /\ AtInv'
    BY DEF Typed
  <1> USE DEF TasksTyped
  <1>0. TypeOK /\ "command" \in Tasks /\ "loop" \in Tasks /\ MaxFailures \in Nat
    BY BoundsAssumption DEF Typed, Tasks
  <1>1. ASSUME NEW o \in Orders, Draft(o) \/ CancelDraft(o) PROVE TypeOK' /\ AtInv'
    BY <1>0, <1>1, OrderDoes DEF TypeOK, database, environment
  <1>2. ASSUME NEW o \in Orders, Fill(o) PROVE TypeOK' /\ AtInv'
    BY <1>0, <1>2, FillDoes DEF TypeOK, database, environment
  <1>3. ASSUME NEW t \in Tasks, NEW n \in Trades, NEW o \in Orders \cup {NoOrder}, Close(t, n, o)
        PROVE  TypeOK' /\ AtInv'
    BY <1>0, <1>3, CloseDoes DEF TypeOK, database, environment
  <1>4. CASE Rejects
    BY <1>0, <1>4, RestDoes DEF Rejects, TypeOK, database, environment
  <1>5. ASSUME NEW n \in Trades, Remarks(n) PROVE TypeOK' /\ AtInv'
    <2>1. "open" \in PositionStatus
      BY DEF PositionStatus
    <2> QED BY <1>0, <1>5, <2>1, MarkDoes DEF Remarks, TypeOK, database, environment
  <1>6. ASSUME NEW t \in Tasks, Start(t) PROVE TypeOK' /\ AtInv'
    <2>1. CASE Initialize(t)
      BY <1>0, <2>1, InitializeDoes DEF TypeOK, database, environment
    <2>2. CASE Create(t)
      BY <1>0, <2>2, CreateDoes DEF TypeOK, database, environment
    <2>3. CASE ListOrders(t)
      BY <1>0, <2>3, ListOrdersDoes DEF TypeOK, database, environment
    <2>4. CASE TakeOrders(t)
      BY <1>0, <2>4, TakeOrdersDoes DEF TypeOK, database, environment
    <2>5. CASE ListPositions(t)
      BY <1>0, <2>5, ListPositionsDoes DEF TypeOK, database, environment
    <2>6. CASE TakePositions(t)
      BY <1>0, <2>6, TakePositionsDoes DEF TypeOK, database, environment
    <2> QED BY <1>6, <2>1, <2>2, <2>3, <2>4, <2>5, <2>6 DEF Start
  <1>7. ASSUME NEW t \in Tasks, Calls(t) PROVE TypeOK' /\ AtInv'
    <2>1. CASE SaveOrder(t)
      BY <1>0, <2>1, SaveOrderDoes DEF TypeOK, environment
    <2>2. CASE FillRead(t)
      BY <1>0, <2>2, FillReadDoes DEF TypeOK, database, environment
    <2>3. CASE FillWrite(t)
      BY <1>0, <2>3, FillWriteDoes DEF TypeOK, environment
    <2>4. CASE UpsertRead(t)
      BY <1>0, <2>4, UpsertReadDoes DEF TypeOK, database, environment
    <2>5. CASE UpsertWrite(t)
      BY <1>0, <2>5, UpsertWriteDoes DEF TypeOK, environment
    <2>6. CASE CloseRead(t)
      BY <1>0, <2>6, CloseReadDoes DEF TypeOK, database, environment
    <2>7. CASE CloseWrite(t)
      BY <1>0, <2>7, CloseWriteDoes DEF TypeOK, environment
    <2> QED BY <1>7, <2>1, <2>2, <2>3, <2>4, <2>5, <2>6, <2>7 DEF Calls
  <1>8. ASSUME NEW t \in Tasks, Fails(t) PROVE TypeOK' /\ AtInv'
    <2>1. hydrated' \in BOOLEAN
      BY <1>0, <1>8 DEF Fails, TypeOK, Hydrating
    <2>2. failures' \in 0 .. MaxFailures
      BY <1>0, <1>8 DEF Fails, TypeOK
    <2> QED BY <1>0, <1>8, <2>1, <2>2, FailsDoes DEF TypeOK, database
  <1>9. CASE Crash
    BY <1>0, <1>9, CrashDoes, IdleTyped DEF TypeOK, database
  <1>10. CASE UNCHANGED vars
    <2>1. UNCHANGED <<memOrder, memPosition, ready, hydrated, dbOrder, dbFill, dbPosition, dbCash,
                      orderOf, task, looping, crashes, failures>>
      BY <1>10 DEF vars, memory, started, database, environment
    <2> QED BY <1>0, <2>1 DEF TypeOK, AtInv, Typed
  <1> QED BY <1>1, <1>2, <1>3, <1>4, <1>5, <1>6, <1>7, <1>8, <1>9, <1>10, NextCases DEF Fills, Ends

LEMMA InitTyped == Init => Typed
  <1> SUFFICES ASSUME Init PROVE TypeOK /\ AtInv
    BY DEF Typed
  <1>1. TypeOK
    BY IdleTyped, BoundsAssumption DEF Init, Starting, Steady, Fresh, TypeOK
  <1>2. AtInv
    BY IdleTyped DEF Init, Starting, Steady, Fresh, AtInv
  <1> QED BY <1>1, <1>2

LEMMA AlwaysTyped == Spec => []Typed
  BY InitTyped, NextTyped, PTL DEF Spec

(* Memory, tables and tasks keep the shape of the service and its records  *)
(* in every execution, two tasks, restarts and failed calls included.      *)
THEOREM TypeCorrect == Spec => []TypeOK
  <1>1. Typed => TypeOK
    BY DEF Typed
  <1> QED BY <1>1, AlwaysTyped, PTL

-----------------------------------------------------------------------------
(* Starting.  With both tasks, and until the first restart, nobody does;   *)
(* the loop closes and marks, and has no order.  With the command loop     *)
(* alone, memory is empty until it has been filled from the tables, and    *)
(* nothing else runs before it has, or has been given up.                  *)
Together == looping /\ crashes = 0
Calm == looping => crashes = 0

TogetherInv == Together =>
  /\ ready /\ hydrated /\ task["command"].pc \notin Starts
  /\ task["loop"].order = NoOrder
  /\ task["loop"].pc \in {"idle", "closing", "closed", "marking", "marked"}

AloneInv == ~looping =>
  /\ task["loop"] = Idle
  /\ ~ready => task["command"].pc \in {"idle", "creating"} /\ ~hydrated
  /\ ready => task["command"].pc # "creating"
  /\ ready /\ ~hydrated => task["command"].pc \in Starts
  /\ hydrated => task["command"].pc \notin Starts
  /\ ~hydrated => memPosition = NoPositions
  /\ task["command"].pc \in {"listPositions", "takePositions"} => memOrder = dbOrder
  /\ ~hydrated => \/ task["command"].pc \in {"listPositions", "takePositions"}
                  \/ memOrder = NoOrders
  /\ task["command"].pc = "takeOrders" => task["command"].listed = dbOrder
  /\ task["command"].pc = "takePositions" => task["command"].listed = dbPosition

StartInv == TogetherInv /\ AloneInv

LEMMA InitStart == Init => StartInv
  <1> SUFFICES ASSUME Init PROVE StartInv
    OBVIOUS
  <1>1. /\ task["command"] = Idle /\ task["loop"] = Idle
        /\ memOrder = NoOrders /\ memPosition = NoPositions
        /\ ~looping => ~ready /\ ~hydrated
        /\ looping => ready /\ hydrated
    BY DEF Init, Starting, Steady, Fresh, Tasks
  <1>2. TogetherInv
    BY <1>1, IdleTyped DEF TogetherInv, Together, Starts
  <1>3. AloneInv
    BY <1>1, IdleTyped DEF AloneInv, Starts
  <1> QED BY <1>2, <1>3 DEF StartInv

(* Alone, the loop is idle: whatever runs is the command's.                *)
LEMMA OnlyCommand ==
  ASSUME Typed, AloneInv, ~looping, NEW t \in Tasks, Start(t) \/ Calls(t) \/ Fails(t)
  PROVE  t = "command"
  <1>1. ASSUME t = "loop" PROVE FALSE
    <2>1. task[t].pc = "idle"
      BY <1>1, IdleTyped DEF AloneInv
    <2> QED BY <1>1, <2>1 DEF Start, Calls, Fails, Initialize, Create, ListOrders, TakeOrders,
               ListPositions, TakePositions, SaveOrder, FillRead, FillWrite, UpsertRead, UpsertWrite,
               CloseRead, CloseWrite, At
  <1> QED BY <1>1 DEF Tasks

(* With both at work nobody starts.                                        *)
LEMMA NoStarts ==
  ASSUME StartInv, Together, NEW t \in Tasks, Start(t)
  PROVE  FALSE
  BY DEF StartInv, TogetherInv, Start, Initialize, Create, ListOrders, TakeOrders, ListPositions,
         TakePositions, At, Starts, Tasks

(* A call that was begun finds a service that has started.                 *)
LEMMA CallsStarted ==
  ASSUME Typed, StartInv, Calm, NEW t \in Tasks, Calls(t)
  PROVE  ready /\ hydrated /\ task[t].pc \in OnTrade \cup {"saving"}
  <1>1. task[t].pc \in OnTrade \cup {"saving"}
    BY DEF Calls, SaveOrder, FillRead, FillWrite, UpsertRead, UpsertWrite, CloseRead, CloseWrite, At,
           OnTrade
  <1>2. CASE Together
    BY <1>1, <1>2 DEF StartInv, TogetherInv
  <1>3. CASE ~looping
    BY <1>1, <1>3, OnlyCommand DEF StartInv, AloneInv, Starts, OnTrade
  <1> QED BY <1>1, <1>2, <1>3 DEF Calm, Together

(* A step of a service that has started.                                   *)
LEMMA WorkKeepsStart ==
  ASSUME StartInv, ready, hydrated, UNCHANGED <<ready, hydrated, looping, crashes>>,
         task'["command"].pc \notin Starts,
         ~looping => task'["loop"] = task["loop"],
         Together => /\ task'["loop"].order = NoOrder
                     /\ task'["loop"].pc \in {"idle", "closing", "closed", "marking", "marked"}
  PROVE  StartInv'
  BY DEF StartInv, TogetherInv, AloneInv, Together, Starts

LEMMA StartKeepsStart ==
  ASSUME Typed, StartInv, ~looping, NEW t \in Tasks, Start(t)
  PROVE  StartInv'
  <1>1. t = "command" /\ AloneInv
    BY OnlyCommand DEF StartInv
  <1>2. looping' = looping /\ task'["loop"] = task["loop"]
    <2>1. Stays("command") /\ UNCHANGED environment
      BY <1>1, InitializeDoes, CreateDoes, ListOrdersDoes, TakeOrdersDoes, ListPositionsDoes,
         TakePositionsDoes DEF Start
    <2> QED BY <2>1 DEF Stays, Tasks, environment
  <1>3. TogetherInv'
    BY <1>2 DEF TogetherInv, Together
  <1>4. CASE Initialize(t)
    BY <1>1, <1>2, <1>3, <1>4, InitializeDoes DEF StartInv, AloneInv, Starts, database
  <1>5. CASE Create(t)
    BY <1>1, <1>2, <1>3, <1>5, CreateDoes DEF StartInv, AloneInv, Starts, database
  <1>6. CASE ListOrders(t)
    BY <1>1, <1>2, <1>3, <1>6, ListOrdersDoes DEF StartInv, AloneInv, Starts, database
  <1>7. CASE TakeOrders(t)
    <2>1. task["command"].listed = dbOrder /\ memOrder = NoOrders /\ ~hydrated /\ ready
      BY <1>1, <1>7, TakeOrdersDoes DEF AloneInv, Starts
    <2>2. \A o \in Orders : memOrder'[o] = dbOrder[o]
      BY <1>1, <1>7, <2>1, TakeOrdersDoes DEF NoOrders
    <2>3. memOrder' = dbOrder
      <3>1. memOrder' \in [Orders -> OrderStatus] /\ dbOrder \in [Orders -> OrderStatus]
        BY <1>7, TakeOrdersDoes DEF Typed, TypeOK
      <3> QED BY <2>2, <3>1
    <2> QED BY <1>1, <1>2, <1>3, <1>7, <2>1, <2>3, TakeOrdersDoes DEF AloneInv, Starts, database, StartInv
  <1>8. CASE ListPositions(t)
    BY <1>1, <1>2, <1>3, <1>8, ListPositionsDoes DEF StartInv, AloneInv, Starts, database
  <1>9. CASE TakePositions(t)
    BY <1>1, <1>2, <1>3, <1>9, TakePositionsDoes DEF StartInv, AloneInv, Starts, database
  <1> QED BY <1>3, <1>4, <1>5, <1>6, <1>7, <1>8, <1>9 DEF Start, StartInv

LEMMA StartDoes ==
  ASSUME Typed, NEW t \in Tasks, Start(t)
  PROVE  /\ TasksTyped /\ Stays(t) /\ task[t].pc \in Starts \cup {"idle"}
         /\ task'[t].pc \in Starts \cup {"idle"} /\ task'[t].order = NoOrder /\ task'[t].trade = 0
         /\ UNCHANGED <<database, orderOf, environment>>
         /\ memOrder' = memOrder \/ TakeOrders(t)
         /\ memPosition' = memPosition \/ TakePositions(t)
  <1>1. CASE Initialize(t)
    BY <1>1, InitializeDoes DEF Starts
  <1>2. CASE Create(t)
    BY <1>2, CreateDoes DEF Starts
  <1>3. CASE ListOrders(t)
    BY <1>3, ListOrdersDoes DEF Starts
  <1>4. CASE TakeOrders(t)
    BY <1>4, TakeOrdersDoes DEF Starts
  <1>5. CASE ListPositions(t)
    BY <1>5, ListPositionsDoes DEF Starts
  <1>6. CASE TakePositions(t)
    BY <1>6, TakePositionsDoes DEF Starts
  <1> QED BY <1>1, <1>2, <1>3, <1>4, <1>5, <1>6 DEF Start

LEMMA CallDoes ==
  ASSUME Typed, NEW t \in Tasks, Calls(t)
  PROVE  /\ TasksTyped /\ Stays(t)
         /\ task'[t].pc \in OnTrade \cup {"idle", "sizing"}
         /\ task'[t].order \in {NoOrder, task[t].order}
         /\ task[t].pc = "closing" => task'[t].pc \in {"closed", "idle", "sizing"}
         /\ task[t].pc = "closed" => task'[t].pc \in {"idle", "sizing"}
         /\ task[t].pc \in {"closing", "closed"} /\ task[t].order = NoOrder => task'[t].pc # "sizing"
         /\ task[t].pc = "marking" => task'[t].pc = "marked"
         /\ task[t].pc = "marked" => task'[t].pc = "idle"
         /\ UNCHANGED <<memOrder, memPosition, ready, hydrated, orderOf, environment>>
  <1>1. CASE SaveOrder(t)
    BY <1>1, SaveOrderDoes DEF OnTrade
  <1>2. CASE FillRead(t)
    BY <1>2, FillReadDoes DEF OnTrade
  <1>3. CASE FillWrite(t)
    BY <1>3, FillWriteDoes DEF OnTrade
  <1>4. CASE UpsertRead(t)
    BY <1>4, UpsertReadDoes DEF OnTrade
  <1>5. CASE UpsertWrite(t)
    BY <1>5, UpsertWriteDoes DEF OnTrade
  <1>6. CASE CloseRead(t)
    BY <1>6, CloseReadDoes DEF OnTrade
  <1>7. CASE CloseWrite(t)
    BY <1>7, CloseWriteDoes DEF OnTrade
  <1> QED BY <1>1, <1>2, <1>3, <1>4, <1>5, <1>6, <1>7 DEF Calls

LEMMA EnvironmentMoves ==
  ASSUME Typed, [Next]_vars
  PROVE  /\ looping' = looping
         /\ crashes' = crashes \/ (crashes' = crashes + 1 /\ Crash)
         /\ crashes \in Nat /\ crashes' \in Nat
  <1>1. looping' = looping /\ (crashes' = crashes \/ (crashes' = crashes + 1 /\ Crash))
    <2>1. ASSUME NEW o \in Orders, Draft(o) \/ CancelDraft(o) \/ Fill(o) PROVE UNCHANGED environment
      BY <2>1 DEF Draft, CancelDraft, Fill
    <2>2. ASSUME NEW t, NEW n, NEW o, Close(t, n, o) PROVE UNCHANGED environment
      BY <2>2 DEF Close
    <2>3. ASSUME NEW t \in Tasks, Start(t) \/ Calls(t) PROVE UNCHANGED environment
      BY <2>3, StartDoes, CallDoes
    <2>4. ASSUME NEW t \in Tasks, Fails(t) PROVE UNCHANGED <<looping, crashes>>
      BY <2>4, FailsDoes
    <2>5. CASE Crash
      BY <2>5, CrashDoes
    <2>6. (Rejects \/ \E n \in Trades : Remarks(n)) \/ UNCHANGED vars => UNCHANGED environment
      BY DEF Rejects, Remarks, vars
    <2> QED BY <2>1, <2>2, <2>3, <2>4, <2>5, <2>6, NextCases DEF Fills, Ends, environment
  <1> QED BY <1>1 DEF Typed, TypeOK

LEMMA CalmMoves ==
  ASSUME Typed, [Next]_vars, Calm'
  PROVE  Calm /\ (looping => ~Crash)
  <1>1. looping' = looping /\ crashes \in Nat /\ (looping' => crashes' = 0)
    BY EnvironmentMoves DEF Calm
  <1>2. crashes' = 0 => crashes = 0
    BY <1>1, EnvironmentMoves
  <1>3. Crash => crashes' # 0
    BY <1>1, CrashDoes
  <1> QED BY <1>1, <1>2, <1>3 DEF Calm

LEMMA NextStart == Typed /\ StartInv /\ [Next]_vars => StartInv'
  <1> SUFFICES ASSUME Typed, StartInv, [Next]_vars PROVE StartInv'
    OBVIOUS
  <1>0. "command" \in Tasks /\ "loop" \in Tasks /\ "command" # "loop"
    BY DEF Tasks
  <1>1. CASE ~Calm'
    BY <1>1 DEF Calm, StartInv, TogetherInv, AloneInv, Together
  <1> SUFFICES ASSUME Calm' PROVE StartInv'
    BY <1>1
  <1>2. Calm /\ (looping => ~Crash)
    BY CalmMoves
  \* Who is not starting, and not idle in a service that is not ready.
  <1>3. ready => \/ hydrated \/ task["command"].pc \in Starts
    BY <1>2 DEF StartInv, TogetherInv, AloneInv, Calm, Together
  <1>4. ASSUME NEW o \in Orders, Draft(o) \/ CancelDraft(o) PROVE StartInv'
    <2>1. /\ Stays("command") /\ task["command"].pc = "idle" /\ ready /\ task'["command"].pc = "saving"
          /\ UNCHANGED <<ready, hydrated, looping, crashes>>
      BY <1>4, OrderDoes DEF environment
    <2>2. task'["loop"] = task["loop"] /\ hydrated
      BY <1>0, <1>3, <2>1 DEF Stays, Starts
    <2> QED BY <2>1, <2>2, WorkKeepsStart DEF Starts, StartInv, TogetherInv
  <1>5. ASSUME NEW o \in Orders, Fills(o) PROVE StartInv'
    <2>1. /\ Stays("command") /\ task'["command"].pc = "saving"
          /\ UNCHANGED <<ready, hydrated, looping, crashes>>
      BY <1>5, FillDoes DEF environment, Fills
    <2>2. task["command"].pc \in {"idle", "sizing"} /\ ready
      BY <1>2, <1>5 DEF Fills, StartInv, TogetherInv, AloneInv, Calm, Together
    <2>3. task'["loop"] = task["loop"] /\ hydrated
      BY <1>0, <1>3, <2>1, <2>2 DEF Stays, Starts
    <2> QED BY <2>1, <2>2, <2>3, WorkKeepsStart DEF Starts, StartInv, TogetherInv
  <1>6. ASSUME NEW t \in Tasks, NEW n \in Trades, NEW o \in Orders \cup {NoOrder}, Ends(t, n, o)
        PROVE  StartInv'
    <2>0. Close(t, n, o) /\ task[t].pc = "idle" /\ ready /\ (t = "loop" => looping /\ o = NoOrder)
      BY <1>6 DEF Ends
    <2>1. /\ Stays(t) /\ task'[t].pc = "closing" /\ task'[t].order = o
          /\ UNCHANGED <<ready, hydrated, looping, crashes>>
      BY <2>0, CloseDoes DEF environment
    <2>2. hydrated /\ task["command"].pc \notin Starts
      BY <1>2, <1>3, <2>0 DEF Starts, StartInv, TogetherInv, AloneInv, Calm, Together, Tasks
    <2>3. CASE t = "loop"
      BY <1>0, <2>0, <2>1, <2>2, <2>3, WorkKeepsStart DEF Stays, Starts, Tasks
    <2>4. CASE t = "command"
      BY <1>0, <2>0, <2>1, <2>2, <2>4, WorkKeepsStart DEF Stays, Starts, StartInv, TogetherInv
    <2> QED BY <2>3, <2>4 DEF Tasks
  <1>7. CASE Rejects
    <2>1. /\ Stays("command") /\ task'["command"].pc = "idle" /\ task["command"].pc = "sizing"
          /\ UNCHANGED <<ready, hydrated, looping, crashes>>
      BY <1>0, <1>7, RestDoes DEF Rejects, environment
    <2>2. ready
      BY <1>2, <2>1 DEF StartInv, TogetherInv, AloneInv, Calm, Together
    <2>3. task'["loop"] = task["loop"] /\ hydrated
      BY <1>0, <1>3, <2>1, <2>2 DEF Stays, Starts
    <2> QED BY <2>1, <2>2, <2>3, WorkKeepsStart DEF Starts, StartInv, TogetherInv
  <1>8. ASSUME NEW n \in Trades, Remarks(n) PROVE StartInv'
    <2>1. "open" \in PositionStatus
      BY DEF PositionStatus
    <2>2. /\ Stays("loop") /\ task'["loop"].pc = "marking" /\ task'["loop"].order = NoOrder
          /\ UNCHANGED <<ready, hydrated, looping, crashes>> /\ looping
      BY <1>0, <1>8, <2>1, MarkDoes DEF Remarks, environment
    <2>3. task'["command"] = task["command"]
      BY <1>0, <2>2 DEF Stays
    <2>4. ready /\ hydrated /\ task["command"].pc \notin Starts
      BY <1>2, <2>2 DEF StartInv, TogetherInv, Calm, Together
    <2> QED BY <2>2, <2>3, <2>4, WorkKeepsStart
  <1>9. ASSUME NEW t \in Tasks, Start(t) PROVE StartInv'
    <2>1. ~looping
      BY <1>2, <1>9, NoStarts DEF Calm, Together
    <2> QED BY <1>9, <2>1, StartKeepsStart
  <1>10. ASSUME NEW t \in Tasks, Calls(t) PROVE StartInv'
    <2>1. ready /\ hydrated /\ task[t].pc \in OnTrade \cup {"saving"}
      BY <1>2, <1>10, CallsStarted
    <2>2. /\ Stays(t) /\ task'[t].pc \notin Starts /\ task'[t].order \in {NoOrder, task[t].order}
          /\ UNCHANGED <<ready, hydrated, looping, crashes>>
      BY <1>10, CallDoes DEF environment, Starts, OnTrade
    <2>3. task["command"].pc \notin Starts
      BY <1>2, <2>1 DEF StartInv, TogetherInv, AloneInv, Calm, Together
    <2>4. CASE t = "command"
      BY <1>0, <2>1, <2>2, <2>4, WorkKeepsStart DEF Stays, StartInv, TogetherInv
    <2>5. CASE t = "loop"
      <3>1. looping
        BY <1>10, <2>5, OnlyCommand DEF StartInv
      <3>2. Together
        BY <1>2, <3>1 DEF Calm, Together
      <3>3. /\ task[t].order = NoOrder
            /\ task[t].pc \in {"closing", "closed", "marking", "marked"}
        BY <2>1, <2>5, <3>2 DEF StartInv, TogetherInv, OnTrade
      <3>4. task'[t].pc \in {"idle", "closing", "closed", "marking", "marked"}
        BY <1>10, <3>3, CallDoes
      <3> QED BY <1>0, <2>1, <2>2, <2>3, <2>5, <3>1, <3>3, <3>4, WorkKeepsStart DEF Stays
    <2> QED BY <2>4, <2>5 DEF Tasks
  <1>11. ASSUME NEW t \in Tasks, Fails(t) PROVE StartInv'
    <2>1. /\ Stays(t) /\ task[t].pc # "idle" /\ task'[t].pc = "idle" /\ task'[t].order = NoOrder
          /\ hydrated' = (hydrated \/ Hydrating(t))
          /\ UNCHANGED <<memOrder, memPosition, ready, dbOrder, dbPosition, looping, crashes>>
      BY <1>11, FailsDoes DEF database
    <2>2. CASE Together
      <3>1. ready /\ hydrated /\ hydrated' = hydrated
        BY <2>1, <2>2 DEF StartInv, TogetherInv
      <3>2. task'["command"].pc \notin Starts
        BY <1>0, <2>1, <2>2 DEF StartInv, TogetherInv, Stays, Starts, Tasks
      <3>3. /\ task'["loop"].order = NoOrder
            /\ task'["loop"].pc \in {"idle", "closing", "closed", "marking", "marked"}
        BY <1>0, <2>1, <2>2 DEF StartInv, TogetherInv, Stays, Tasks
      <3> QED BY <2>1, <2>2, <3>1, <3>2, <3>3, WorkKeepsStart DEF Together
    <2>3. CASE ~looping
      <3>1. t = "command"
        BY <1>11, <2>3, OnlyCommand DEF StartInv
      <3>2. task'["loop"] = task["loop"]
        BY <1>0, <2>1, <3>1 DEF Stays
      <3>3. hydrated' <=> hydrated \/ Hydrating(t)
        BY <2>1
      <3>4. Hydrating(t) <=> task["command"].pc \in Starts \ {"creating"}
        BY <3>1 DEF Hydrating, Starts
      <3>5. AloneInv'
        BY <2>1, <2>3, <3>1, <3>2, <3>3, <3>4 DEF StartInv, AloneInv, Starts
      <3> QED BY <2>1, <2>3, <3>5 DEF StartInv, TogetherInv, Together
    <2> QED BY <1>2, <2>2, <2>3 DEF Calm, Together
  <1>12. CASE Crash
    <2>1. ~looping /\ looping' = looping
      BY <1>2, <1>12, CrashDoes
    <2>2. AloneInv'
      BY <1>0, <1>12, <2>1, CrashDoes, IdleTyped DEF AloneInv, Starts
    <2> QED BY <2>1, <2>2 DEF StartInv, TogetherInv, Together
  <1>13. CASE UNCHANGED vars
    BY <1>13 DEF vars, memory, started, database, environment, StartInv, TogetherInv, AloneInv, Together
  <1> QED BY <1>4, <1>5, <1>6, <1>7, <1>8, <1>9, <1>10, <1>11, <1>12, <1>13, NextCases

-----------------------------------------------------------------------------
(* Trades that anything is known of have their order.                      *)
Used(n) == \/ memPosition[n] # "none" \/ dbPosition[n] # "none" \/ n \in dbFill
           \/ \E t \in Tasks : task[t].trade = n
UsedInv == Calm => \A n \in Trades : Used(n) => orderOf[n] # NoOrder

LEMMA InitUsed == Init => UsedInv
  <1> SUFFICES ASSUME Init, NEW n \in Trades PROVE ~Used(n)
    BY DEF UsedInv
  <1>1. /\ \A t \in Tasks : task[t].trade = 0
        /\ memPosition[n] = "none" /\ dbPosition[n] = "none" /\ dbFill = {}
    BY IdleTyped DEF Init, Starting, Steady, Fresh, NoPositions
  <1>2. n # 0
    BY BoundsAssumption DEF Trades
  <1> QED BY <1>1, <1>2 DEF Used

(* A step after which nothing more is in use, but for a trade with order.  *)
LEMMA UsedKeeps ==
  ASSUME Calm, UsedInv, NEW x,
         \A n \in Trades : orderOf'[n] = orderOf[n] \/ (n = x /\ orderOf'[n] # NoOrder),
         \A n \in Trades \ {x} : Used(n)' => Used(n),
         x \in Trades => (orderOf'[x] # NoOrder \/ (Used(x)' => Used(x)))
  PROVE  UsedInv'
  BY DEF UsedInv

LEMMA NextUsed == Typed /\ StartInv /\ UsedInv /\ [Next]_vars => UsedInv'
  <1> SUFFICES ASSUME Typed, StartInv, UsedInv, [Next]_vars, Calm' PROVE UsedInv'
    BY DEF UsedInv
  <1>0. "command" \in Tasks /\ "loop" \in Tasks /\ 0 \notin Trades /\ Calm
    BY CalmMoves, BoundsAssumption DEF Tasks, Trades
  <1>1. ASSUME UNCHANGED orderOf, \A n \in Trades : Used(n)' => Used(n) PROVE UsedInv'
    BY <1>0, <1>1 DEF UsedInv
  <1>2. ASSUME NEW o \in Orders, Draft(o) \/ CancelDraft(o) PROVE UsedInv'
    <2>1. /\ Stays("command") /\ task'["command"].trade = 0
          /\ UNCHANGED <<memPosition, dbPosition, dbFill, orderOf>>
      BY <1>2, OrderDoes DEF database
    <2>2. \A n \in Trades : Used(n)' => Used(n)
      BY <1>0, <2>1 DEF Used, Stays
    <2> QED BY <1>1, <2>1, <2>2
  <1>3. ASSUME NEW o \in Orders, Fills(o) PROVE UsedInv'
    <2>1. PICK x \in Trades :
            /\ Stays("command") /\ task'["command"].trade = x
            /\ orderOf' = [orderOf EXCEPT ![x] = o] /\ memPosition' = [memPosition EXCEPT ![x] = "open"]
            /\ UNCHANGED <<dbPosition, dbFill>>
      BY <1>3, FillDoes DEF Fills, database
    <2>2. \A n \in Trades \ {x} : Used(n)' => Used(n)
      BY <1>0, <2>1 DEF Used, Stays, Typed, TypeOK
    <2>3. \A n \in Trades : orderOf'[n] = IF n = x THEN o ELSE orderOf[n]
      BY <2>1 DEF Typed, TypeOK
    <2>4. o # NoOrder
      BY OrdersAssumption
    <2> QED BY <1>0, <2>2, <2>3, <2>4, UsedKeeps
  <1>4. ASSUME NEW t \in Tasks, NEW x \in Trades, NEW o \in Orders \cup {NoOrder}, Ends(t, x, o)
        PROVE  UsedInv'
    <2>0. Close(t, x, o)
      BY <1>4 DEF Ends
    <2>1. /\ Stays(t) /\ task'[t].trade = x /\ memPosition[x] = "open"
          /\ memPosition' = [memPosition EXCEPT ![x] = "closed"]
          /\ UNCHANGED <<dbPosition, dbFill, orderOf>>
      BY <2>0, CloseDoes DEF database
    <2>2. \A n \in Trades : Used(n)' => Used(n)
      BY <2>1 DEF Used, Stays, Typed, TypeOK
    <2> QED BY <1>1, <2>1, <2>2
  <1>5. CASE Rejects
    <2>1. /\ Stays("command") /\ task'["command"].trade = 0
          /\ UNCHANGED <<memPosition, dbPosition, dbFill, orderOf>>
      BY <1>0, <1>5, RestDoes DEF Rejects, database
    <2>2. \A n \in Trades : Used(n)' => Used(n)
      BY <1>0, <2>1 DEF Used, Stays
    <2> QED BY <1>1, <2>1, <2>2
  <1>6. ASSUME NEW x \in Trades, Remarks(x) PROVE UsedInv'
    <2>0. "open" \in PositionStatus
      BY DEF PositionStatus
    <2>1. /\ Stays("loop") /\ task'["loop"].trade = x /\ memPosition[x] = "open"
          /\ UNCHANGED <<memPosition, dbPosition, dbFill, orderOf>>
      BY <1>0, <1>6, <2>0, MarkDoes DEF Remarks, database
    <2>2. \A n \in Trades : Used(n)' => Used(n)
      BY <2>1 DEF Used, Stays
    <2> QED BY <1>1, <2>1, <2>2
  <1>7. ASSUME NEW t \in Tasks, Start(t) PROVE UsedInv'
    <2>1. /\ Stays(t) /\ task'[t].trade = 0 /\ UNCHANGED <<dbPosition, dbFill, orderOf>>
          /\ memPosition' = memPosition \/ TakePositions(t)
      BY <1>7, StartDoes DEF database
    <2>2. \A n \in Trades : memPosition'[n] # "none" => memPosition[n] # "none" \/ dbPosition[n] # "none"
      <3>1. CASE TakePositions(t)
        <4>1. ~looping /\ t = "command"
          BY <1>0, <1>7, NoStarts, OnlyCommand DEF Calm, Together, StartInv
        <4>2. task[t].listed = dbPosition
          BY <3>1, <4>1, TakePositionsDoes DEF StartInv, AloneInv
        <4> QED BY <3>1, <4>2, TakePositionsDoes
      <3> QED BY <2>1, <3>1
    <2>3. \A n \in Trades : Used(n)' => Used(n)
      BY <1>0, <2>1, <2>2 DEF Used, Stays
    <2> QED BY <1>1, <2>1, <2>3
  <1>8. ASSUME NEW t \in Tasks, Calls(t) PROVE UsedInv'
    <2>1. Stays(t) /\ UNCHANGED <<memPosition, orderOf>>
      BY <1>8, CallDoes
    <2>2. /\ task'[t].trade \in {0, task[t].trade}
          /\ dbFill' \subseteq dbFill \cup {task[t].trade}
          /\ \A n \in Trades : n # task[t].trade => dbPosition'[n] = dbPosition[n]
      <3>1. CASE SaveOrder(t)
        BY <3>1, SaveOrderDoes
      <3>2. CASE FillRead(t)
        BY <3>2, FillReadDoes DEF database
      <3>3. CASE FillWrite(t)
        BY <3>3, FillWriteDoes
      <3>4. CASE UpsertRead(t)
        BY <3>4, UpsertReadDoes DEF database
      <3>5. CASE UpsertWrite(t)
        BY <3>5, UpsertWriteDoes DEF Typed, TypeOK
      <3>6. CASE CloseRead(t)
        BY <3>6, CloseReadDoes DEF database
      <3>7. CASE CloseWrite(t)
        BY <3>7, CloseWriteDoes DEF Typed, TypeOK
      <3> QED BY <1>8, <3>1, <3>2, <3>3, <3>4, <3>5, <3>6, <3>7 DEF Calls
    <2>3. \A n \in Trades : Used(n)' => Used(n)
      BY <1>0, <2>1, <2>2 DEF Used, Stays
    <2> QED BY <1>1, <2>1, <2>3
  <1>9. ASSUME NEW t \in Tasks, Fails(t) PROVE UsedInv'
    <2>1. Stays(t) /\ task'[t].trade = 0 /\ UNCHANGED <<memPosition, dbPosition, dbFill, orderOf>>
      BY <1>9, FailsDoes DEF database
    <2>2. \A n \in Trades : Used(n)' => Used(n)
      BY <1>0, <2>1 DEF Used, Stays
    <2> QED BY <1>1, <2>1, <2>2
  <1>10. CASE Crash
    <2>1. /\ \A t \in Tasks : task'[t].trade = 0
          /\ UNCHANGED <<dbPosition, dbFill, orderOf>> /\ \A n \in Trades : memPosition'[n] = "none"
      BY <1>10, CrashDoes, IdleTyped DEF database, NoPositions
    <2>2. \A n \in Trades : Used(n)' => Used(n)
      BY <1>0, <2>1 DEF Used
    <2> QED BY <1>1, <2>1, <2>2
  <1>11. CASE UNCHANGED vars
    BY <1>1, <1>11 DEF vars, memory, database, Used
  <1> QED BY <1>2, <1>3, <1>4, <1>5, <1>6, <1>7, <1>8, <1>9, <1>10, <1>11, NextCases

-----------------------------------------------------------------------------
(* Orders.  One that is filled in the table is never new in memory, so it  *)
(* is not confirmed again; the one that is being filled has no fill yet.   *)
Filling == \/ task["command"].pc = "saving" /\ task["command"].trade # 0
           \/ task["command"].pc \in {"filling", "filled"}
Flipping == task["command"].pc \in {"closing", "closed", "sizing"} /\ task["command"].order # NoOrder

OrderInv == Calm =>
  /\ \A n \in dbFill : orderOf[n] \in Orders /\ dbOrder[orderOf[n]] = "filled"
  /\ \A o \in Orders : dbOrder[o] = "filled" => memOrder[o] \in {"none", "filled"}
  /\ OneFillPerOrder
  /\ task["command"].pc = "saving" => memOrder[task["command"].order] = task["command"].dump
  /\ task["command"].pc = "saving" /\ task["command"].trade = 0 =>
       task["command"].dump \in {"new", "cancelled"}
  /\ Filling => /\ task["command"].dump = "filled" /\ task["command"].order \in Orders
                /\ orderOf[task["command"].trade] = task["command"].order
                /\ \A m \in dbFill : orderOf[m] # task["command"].order
  /\ task["command"].pc \in {"filling", "filled"} => dbOrder[task["command"].order] = "filled"
  /\ Flipping => memOrder[task["command"].order] = "new"

LEMMA InitOrder == Init => OrderInv
  <1> SUFFICES ASSUME Init PROVE OrderInv
    OBVIOUS
  <1>1. task["command"] = Idle /\ dbFill = {} /\ memOrder = NoOrders /\ dbOrder = NoOrders
    BY DEF Init, Starting, Steady, Fresh, Tasks
  <1> QED BY <1>1, IdleTyped DEF OrderInv, Filling, Flipping, OneFillPerOrder, NoOrders

(* A step that leaves the orders alone, of the loop or of a command that   *)
(* comes to rest.                                                          *)
LEMMA OrdersStay ==
  ASSUME Calm, OrderInv, UNCHANGED <<memOrder, dbOrder, dbFill, orderOf>>,
         \/ task'["command"] = task["command"]
         \/ task'["command"].pc \in {"idle", "marking", "marked"} \cup Starts
         \/ /\ task'["command"].pc \in {"closing", "closed", "sizing"}
            /\ task'["command"].order # NoOrder => memOrder[task'["command"].order] = "new"
  PROVE  OrderInv'
  <1>1. CASE task'["command"] = task["command"]
    BY <1>1 DEF OrderInv, Filling, Flipping, OneFillPerOrder
  <1>2. CASE task'["command"].pc \in {"idle", "marking", "marked"} \cup Starts
    BY <1>2 DEF OrderInv, Filling, Flipping, OneFillPerOrder, Starts
  <1>3. CASE /\ task'["command"].pc \in {"closing", "closed", "sizing"}
             /\ task'["command"].order # NoOrder => memOrder[task'["command"].order] = "new"
    BY <1>3 DEF OrderInv, Filling, Flipping, OneFillPerOrder
  <1> QED BY <1>1, <1>2, <1>3

(* A call of the command loop.                                             *)
LEMMA CallKeepsOrders ==
  ASSUME Typed, Calm, UsedInv, OrderInv, Calls("command")
  PROVE  OrderInv'
  <1> DEFINE j == task["command"]
             k == task'["command"]
  <1>0. "command" \in Tasks
    BY DEF Tasks
  <1>1. CASE SaveOrder("command")
    <2>1. /\ j.pc = "saving" /\ j.order \in Orders
          /\ dbOrder' = [dbOrder EXCEPT ![j.order] = j.dump]
          /\ j.trade = 0 => k.pc = "idle"
          /\ j.trade # 0 => k.pc = "filling" /\ k.order = j.order /\ k.trade = j.trade /\ k.dump = j.dump
          /\ UNCHANGED <<memOrder, dbFill, orderOf>>
      BY <1>0, <1>1, SaveOrderDoes
    <2>2. \A o \in Orders : dbOrder'[o] = IF o = j.order THEN j.dump ELSE dbOrder[o]
      BY <2>1 DEF Typed, TypeOK
    <2>3. /\ memOrder[j.order] = j.dump /\ (j.trade = 0 => j.dump \in {"new", "cancelled"})
          /\ j.trade # 0 => /\ j.dump = "filled" /\ orderOf[j.trade] = j.order
                            /\ \A m \in dbFill : orderOf[m] # j.order
      BY <2>1 DEF OrderInv, Filling
    <2>4. \A m \in dbFill : orderOf[m] \in Orders /\ dbOrder[orderOf[m]] = "filled" /\ orderOf[m] # j.order
      BY <2>1, <2>3 DEF OrderInv
    <2>5. \A m \in dbFill : orderOf[m] \in Orders /\ dbOrder'[orderOf[m]] = "filled"
      BY <2>2, <2>4
    <2>6. \A o \in Orders : dbOrder'[o] = "filled" => memOrder[o] \in {"none", "filled"}
      BY <2>2, <2>3 DEF OrderInv
    <2> HIDE DEF j
    <2>7. CASE j.trade = 0
      BY <2>1, <2>5, <2>6, <2>7 DEF OrderInv, Filling, Flipping, OneFillPerOrder
    <2>8. CASE j.trade # 0
      BY <2>1, <2>2, <2>3, <2>5, <2>6, <2>8 DEF OrderInv, Filling, Flipping, OneFillPerOrder
    <2> QED BY <2>7, <2>8
  <1>2. CASE FillRead("command")
    <2>1. /\ j.pc = "filling" /\ k.pc = "filled" /\ k.order = j.order /\ k.trade = j.trade
          /\ k.dump = j.dump /\ UNCHANGED <<memOrder, dbOrder, dbFill, orderOf>>
      BY <1>0, <1>2, FillReadDoes DEF database
    <2> QED BY <2>1 DEF OrderInv, Filling, Flipping, OneFillPerOrder
  <1>3. CASE FillWrite("command")
    <2>1. /\ j.pc = "filled" /\ k.pc = "marking" /\ dbFill' = dbFill \cup {j.trade}
          /\ UNCHANGED <<memOrder, dbOrder, orderOf>>
      BY <1>0, <1>3, FillWriteDoes
    <2>2. /\ orderOf[j.trade] = j.order /\ j.order \in Orders /\ dbOrder[j.order] = "filled"
          /\ \A m \in dbFill : orderOf[m] # j.order
      BY <2>1 DEF OrderInv, Filling
    <2>3. \A m \in dbFill : \A n \in dbFill : orderOf[m] = orderOf[n] => m = n
      BY DEF OrderInv, OneFillPerOrder
    <2> HIDE DEF j
    <2>4. \A m \in dbFill' : \A n \in dbFill' : orderOf[m] = orderOf[n] => m = n
      BY <2>1, <2>2, <2>3
    <2> QED BY <2>1, <2>2, <2>4 DEF OrderInv, Filling, Flipping, OneFillPerOrder
  <1>4. CASE UpsertRead("command")
    BY <1>0, <1>4, UpsertReadDoes, OrdersStay DEF database
  <1>5. CASE UpsertWrite("command")
    BY <1>0, <1>5, UpsertWriteDoes, OrdersStay
  <1>6. CASE CloseRead("command")
    <2>1. /\ j.pc = "closing" /\ k.order = j.order /\ k.pc \in {"closed", "idle", "sizing"}
          /\ UNCHANGED <<memOrder, dbOrder, dbFill, orderOf>>
      BY <1>0, <1>6, CloseReadDoes DEF database
    <2>2. k.order # NoOrder => memOrder[k.order] = "new"
      BY <2>1 DEF OrderInv, Flipping
    <2> QED BY <2>1, <2>2, OrdersStay
  <1>7. CASE CloseWrite("command")
    <2>1. /\ j.pc = "closed" /\ k.order = j.order /\ k.pc \in {"idle", "sizing"}
          /\ UNCHANGED <<memOrder, dbOrder, dbFill, orderOf>>
      BY <1>0, <1>7, CloseWriteDoes
    <2>2. k.order # NoOrder => memOrder[k.order] = "new"
      BY <2>1 DEF OrderInv, Flipping
    <2> QED BY <2>1, <2>2, OrdersStay
  <1> QED BY <1>1, <1>2, <1>3, <1>4, <1>5, <1>6, <1>7 DEF Calls

LEMMA NextOrder == Typed /\ StartInv /\ UsedInv /\ OrderInv /\ [Next]_vars => OrderInv'
  <1> SUFFICES ASSUME Typed, StartInv, UsedInv, OrderInv, [Next]_vars, Calm' PROVE OrderInv'
    BY DEF OrderInv
  <1> DEFINE k == task'["command"]
  <1>0. "command" \in Tasks /\ "loop" \in Tasks /\ Calm /\ (looping => ~Crash) /\ "command" # "loop"
    BY CalmMoves DEF Tasks
  <1>1. ASSUME NEW o \in Orders, Draft(o) \/ CancelDraft(o) PROVE OrderInv'
    <2>1. PICK status \in {"new", "cancelled"} :
            /\ status = "new" => memOrder[o] = "none" /\ dbOrder[o] = "none"
            /\ status = "cancelled" => memOrder[o] = "new"
            /\ memOrder' = [memOrder EXCEPT ![o] = status]
            /\ k.pc = "saving" /\ k.order = o /\ k.trade = 0 /\ k.dump = status
            /\ UNCHANGED <<dbOrder, dbFill, orderOf>>
      BY <1>1, OrderDoes DEF database
    <2>2. dbOrder[o] # "filled"
      BY <1>0, <2>1 DEF OrderInv
    <2>3. \A x \in Orders : memOrder'[x] = IF x = o THEN status ELSE memOrder[x]
      BY <2>1 DEF Typed, TypeOK
    <2> HIDE DEF k
    <2>4. \A x \in Orders : dbOrder[x] = "filled" => memOrder'[x] \in {"none", "filled"}
      BY <1>0, <2>2, <2>3 DEF OrderInv
    <2>5. k.pc = "saving" => memOrder'[k.order] = k.dump
      BY <2>1, <2>3
    <2> QED BY <1>0, <2>1, <2>4, <2>5 DEF OrderInv, Filling, Flipping, OneFillPerOrder, k
  <1>2. ASSUME NEW o \in Orders, Fills(o) PROVE OrderInv'
    <2>1. PICK n \in Trades :
            /\ orderOf[n] = NoOrder /\ orderOf' = [orderOf EXCEPT ![n] = o]
            /\ memOrder' = [memOrder EXCEPT ![o] = "filled"]
            /\ k.pc = "saving" /\ k.order = o /\ k.trade = n /\ k.dump = "filled"
            /\ UNCHANGED <<dbOrder, dbFill>>
      BY <1>2, FillDoes DEF Fills, database
    <2>2. memOrder[o] = "new"
      BY <1>0, <1>2, OrdersAssumption DEF Fills, OrderInv, Flipping
    <2>3. dbOrder[o] # "filled" /\ \A m \in dbFill : orderOf[m] # o /\ m # n
      BY <1>0, <2>1, <2>2, OrdersAssumption DEF OrderInv
    <2>4. \A x \in Orders : memOrder'[x] = IF x = o THEN "filled" ELSE memOrder[x]
      BY <2>1 DEF Typed, TypeOK
    <2>5. \A m \in Trades : orderOf'[m] = IF m = n THEN o ELSE orderOf[m]
      BY <2>1 DEF Typed, TypeOK
    <2>6. \A m \in dbFill : orderOf'[m] = orderOf[m]
      BY <2>3, <2>5 DEF Typed, TypeOK
    <2>7. n # 0
      BY BoundsAssumption DEF Trades
    <2> HIDE DEF k
    <2>8. OneFillPerOrder'
      BY <1>0, <2>1, <2>6 DEF OrderInv, OneFillPerOrder
    <2>9. \A x \in Orders : dbOrder[x] = "filled" => memOrder'[x] \in {"none", "filled"}
      BY <1>0, <2>4 DEF OrderInv
    <2>10. memOrder'[k.order] = k.dump /\ orderOf'[k.trade] = k.order
      BY <2>1, <2>4, <2>5
    <2> QED BY <1>0, <2>1, <2>3, <2>6, <2>7, <2>8, <2>9, <2>10 DEF OrderInv, Filling, Flipping, k
  <1>3. ASSUME NEW t \in Tasks, NEW n \in Trades, NEW o \in Orders \cup {NoOrder}, Ends(t, n, o)
        PROVE  OrderInv'
    <2>0. Close(t, n, o)
      BY <1>3 DEF Ends
    <2>1. /\ Stays(t) /\ task'[t].pc = "closing" /\ task'[t].order = o
          /\ UNCHANGED <<memOrder, dbOrder, dbFill, orderOf>>
      BY <2>0, CloseDoes DEF database
    <2>2. o # NoOrder => memOrder[o] = "new"
      BY <1>3 DEF Ends
    <2>3. CASE t = "command"
      BY <1>0, <2>1, <2>2, <2>3, OrdersStay
    <2>4. CASE t = "loop"
      BY <1>0, <2>1, <2>4, OrdersStay DEF Stays
    <2> QED BY <2>3, <2>4 DEF Tasks
  <1>4. CASE Rejects
    <2>1. k.pc = "idle" /\ UNCHANGED <<memOrder, dbOrder, dbFill, orderOf>>
      BY <1>0, <1>4, RestDoes DEF Rejects, database
    <2> QED BY <1>0, <2>1, OrdersStay
  <1>5. ASSUME NEW n \in Trades, Remarks(n) PROVE OrderInv'
    <2>0. "open" \in PositionStatus
      BY DEF PositionStatus
    <2>1. Stays("loop") /\ UNCHANGED <<memOrder, dbOrder, dbFill, orderOf>>
      BY <1>0, <1>5, <2>0, MarkDoes DEF Remarks, database
    <2> QED BY <1>0, <2>1, OrdersStay DEF Stays
  <1>6. ASSUME NEW t \in Tasks, Start(t) PROVE OrderInv'
    <2>1. ~looping /\ t = "command"
      BY <1>0, <1>6, NoStarts, OnlyCommand DEF Calm, Together, StartInv
    <2>2. /\ k.pc \in Starts \cup {"idle"} /\ UNCHANGED <<dbOrder, dbFill, orderOf>>
          /\ memOrder' = memOrder \/ TakeOrders(t)
      BY <1>6, <2>1, StartDoes DEF database
    <2>3. CASE memOrder' = memOrder
      BY <1>0, <2>2, <2>3, OrdersStay DEF Starts
    <2>4. CASE TakeOrders(t)
      <3>1. task[t].listed = dbOrder
        BY <2>1, <2>4, TakeOrdersDoes DEF StartInv, AloneInv
      <3>2. \A o \in Orders : dbOrder[o] = "filled" => memOrder'[o] \in {"none", "filled"}
        BY <2>4, <3>1, TakeOrdersDoes
      <3> QED BY <1>0, <2>2, <3>2 DEF OrderInv, Filling, Flipping, OneFillPerOrder, Starts
    <2> QED BY <2>2, <2>3, <2>4
  <1>7. ASSUME NEW t \in Tasks, Calls(t) PROVE OrderInv'
    <2>1. CASE t = "command"
      BY <1>0, <1>7, <2>1, CallKeepsOrders
    <2>2. CASE t = "loop"
      <3>1. Together
        BY <1>0, <1>7, <2>2, OnlyCommand DEF Calm, Together, StartInv
      <3>2. task["loop"].pc \in {"closing", "closed", "marking", "marked"}
        BY <1>0, <1>7, <2>2, <3>1, CallsStarted DEF StartInv, TogetherInv, OnTrade
      <3>3. UpsertRead(t) \/ UpsertWrite(t) \/ CloseRead(t) \/ CloseWrite(t)
        BY <1>7, <2>2, <3>2 DEF Calls, SaveOrder, FillRead, FillWrite, At
      <3>4. Stays(t) /\ UNCHANGED <<memOrder, dbOrder, dbFill, orderOf>>
        BY <1>7, <3>3, UpsertReadDoes, UpsertWriteDoes, CloseReadDoes, CloseWriteDoes DEF database
      <3> QED BY <1>0, <2>2, <3>4, OrdersStay DEF Stays
    <2> QED BY <2>1, <2>2 DEF Tasks
  <1>8. ASSUME NEW t \in Tasks, Fails(t) PROVE OrderInv'
    <2>1. Stays(t) /\ task'[t].pc = "idle" /\ UNCHANGED <<memOrder, dbOrder, dbFill, orderOf>>
      BY <1>8, FailsDoes DEF database
    <2>2. task'["command"] = task["command"] \/ task'["command"].pc = "idle"
      BY <1>0, <2>1 DEF Stays
    <2> QED BY <1>0, <2>1, <2>2, OrdersStay
  <1>9. CASE Crash
    <2>1. k = Idle /\ memOrder' = NoOrders /\ UNCHANGED <<dbOrder, dbFill, orderOf>>
      BY <1>0, <1>9, CrashDoes DEF database
    <2> QED BY <1>0, <2>1, IdleTyped DEF OrderInv, Filling, Flipping, OneFillPerOrder, NoOrders
  <1>10. CASE UNCHANGED vars
    BY <1>0, <1>10, OrdersStay DEF vars, memory, database
  <1> QED BY <1>1, <1>2, <1>3, <1>4, <1>5, <1>6, <1>7, <1>8, <1>9, <1>10, NextCases

-----------------------------------------------------------------------------
(* Bookings.  A task that has loaded the cash carries it until it writes.  *)
Loaded(t) == task[t].pc \in {"filled", "closed"}
Closing(t, n) == task[t].pc \in {"closing", "closed"} /\ task[t].trade = n
Fair(c) == /\ \A e \in Entries : c[e] \in {0, 1}
           /\ \A n \in Trades \ dbFill : c[<<"fee", n>>] = 0
Paid(n) == \/ dbCash[<<"pnl", n>>] # 0
           \/ \E t \in Tasks : Loaded(t) /\ task[t].cash[<<"pnl", n>>] # 0

(* What was paid, in the table or in the hands of a task, is neither open  *)
(* nor about to be paid; a position is being closed by one task, and is    *)
(* closed in memory before it is in the table.                             *)
BookInv == Calm =>
  /\ Fair(dbCash) /\ \A t \in Tasks : Loaded(t) => Fair(task[t].cash)
  /\ \A n \in Trades : Paid(n) => /\ memPosition[n] # "open" /\ orderOf[n] # NoOrder
                                  /\ \A t \in Tasks : ~Closing(t, n)
  /\ \A n \in Trades : \A t \in Tasks : Closing(t, n) => memPosition[n] = "closed"
  /\ \A n \in Trades : ~(Closing("command", n) /\ Closing("loop", n))
  /\ ClosedStaysClosed
  /\ \A t \in Tasks : task[t].pc \in {"marking", "marked"} /\ task[t].dump = "closed" =>
       memPosition[task[t].trade] # "open"

(* Alone, a command has what it loaded as it is in the tables, and the     *)
(* tables add up at each of its steps.                                     *)
LedgerInv == ~looping =>
  /\ Loaded("command") => task["command"].cash = dbCash
  /\ task["command"].pc \in {"closed", "marked"} =>
       task["command"].seen = dbPosition[task["command"].trade]
  /\ task["command"].pc = "closed" => task["command"].seen # "none"
  /\ LedgerBalanced
  /\ \A n \in Trades : dbPosition[n] # "none" => n \in dbFill
  /\ Filling \/ task["command"].pc \in {"marking", "marked"} =>
       /\ dbPosition[task["command"].trade] = "none"
       /\ memPosition[task["command"].trade] = "open"
  /\ task["command"].pc \in {"marking", "marked"} =>
       task["command"].dump = "open" /\ task["command"].trade \in dbFill
  /\ task["command"].pc \in {"closing", "closed"} => dbPosition[task["command"].trade] # "closed"

(* The cash by its entries: a fee per fill, a profit per closed position.  *)
LedgerOf(f, p) == [e \in Entries |-> IF e[1] = "fee" THEN IF e[2] \in f THEN 1 ELSE 0
                                     ELSE IF p[e[2]] = "closed" THEN 1 ELSE 0]
LEMMA Ledgers ==
  ASSUME NEW c \in [Entries -> Nat], NEW f, NEW p
  PROVE  c = LedgerOf(f, p) <=>
           \A n \in Trades : /\ c[<<"fee", n>>] = (IF n \in f THEN 1 ELSE 0)
                             /\ c[<<"pnl", n>>] = (IF p[n] = "closed" THEN 1 ELSE 0)
  <1> DEFINE L == LedgerOf(f, p)
  <1>1. \A n \in Trades : /\ L[<<"fee", n>>] = (IF n \in f THEN 1 ELSE 0)
                          /\ L[<<"pnl", n>>] = (IF p[n] = "closed" THEN 1 ELSE 0)
    BY DEF Entries, LedgerOf
  <1>2. ASSUME \A n \in Trades : c[<<"fee", n>>] = L[<<"fee", n>>] /\ c[<<"pnl", n>>] = L[<<"pnl", n>>]
        PROVE  c = L
    <2>1. \A e \in Entries : \E n \in Trades : e = <<"fee", n>> \/ e = <<"pnl", n>>
      BY DEF Entries
    <2>2. \A e \in Entries : c[e] = L[e]
      BY <1>2, <2>1
    <2>3. L = [e \in Entries |-> L[e]]
      BY DEF LedgerOf
    <2> HIDE DEF L
    <2> QED BY <2>2, <2>3
  <1> HIDE DEF L
  <1>3. c = L <=> \A n \in Trades : /\ c[<<"fee", n>>] = (IF n \in f THEN 1 ELSE 0)
                                    /\ c[<<"pnl", n>>] = (IF p[n] = "closed" THEN 1 ELSE 0)
    BY <1>1, <1>2
  <1> QED BY <1>3 DEF L

LEMMA LedgerIs ==
  ASSUME dbCash \in [Entries -> Nat]
  PROVE  LedgerBalanced <=>
           \A n \in Trades : /\ dbCash[<<"fee", n>>] = (IF n \in dbFill THEN 1 ELSE 0)
                             /\ dbCash[<<"pnl", n>>] = (IF dbPosition[n] = "closed" THEN 1 ELSE 0)
  <1>1. LedgerBalanced <=> dbCash = LedgerOf(dbFill, dbPosition)
    BY DEF LedgerBalanced, LedgerOf
  <1> QED BY <1>1, Ledgers

LEMMA LedgerBecomes ==
  ASSUME dbCash' \in [Entries -> Nat],
         \A n \in Trades : /\ dbCash'[<<"fee", n>>] = (IF n \in dbFill' THEN 1 ELSE 0)
                           /\ dbCash'[<<"pnl", n>>] = (IF dbPosition'[n] = "closed" THEN 1 ELSE 0)
  PROVE  LedgerBalanced'
  <1>1. LedgerBalanced' <=> dbCash' = LedgerOf(dbFill', dbPosition')
    BY DEF LedgerBalanced, LedgerOf
  <1> QED BY <1>1, Ledgers

LEMMA InitBooks == Init => BookInv /\ LedgerInv
  <1> SUFFICES ASSUME Init PROVE BookInv /\ LedgerInv
    OBVIOUS
  <1>1. /\ \A t \in Tasks : task[t] = Idle
        /\ dbCash = Empty /\ dbFill = {} /\ dbPosition = NoPositions /\ memPosition = NoPositions
        /\ "command" \in Tasks /\ "loop" \in Tasks
    BY DEF Init, Starting, Steady, Fresh, Tasks
  <1>2. /\ \A e \in Entries : dbCash[e] = 0
        /\ \A n \in Trades : <<"fee", n>> \in Entries /\ <<"pnl", n>> \in Entries
        /\ \A n \in Trades : dbPosition[n] = "none" /\ memPosition[n] = "none"
        /\ dbCash \in [Entries -> Nat]
    BY <1>1 DEF Empty, Entries, NoPositions
  <1>3. \A t \in Tasks : ~Loaded(t) /\ task[t].pc = "idle"
    BY <1>1, IdleTyped DEF Loaded
  <1>4. BookInv
    BY <1>1, <1>2, <1>3 DEF BookInv, Fair, Paid, Closing, ClosedStaysClosed
  <1>5. LedgerBalanced
    BY <1>1, <1>2, LedgerIs
  <1>6. LedgerInv
    BY <1>1, <1>2, <1>3, <1>5 DEF LedgerInv, Filling
  <1> QED BY <1>4, <1>6

(* A step that books nothing, loads no cash and turns to no close.         *)
LEMMA QuietBooks ==
  ASSUME Calm, BookInv, NEW t \in Tasks, Stays(t),
         UNCHANGED <<dbCash, dbFill, dbPosition, memPosition, orderOf>>,
         task'[t].pc \notin {"filled", "closing", "closed"},
         task'[t].pc \in {"marking", "marked"} =>
           \/ task'[t].dump # "closed" \/ memPosition[task'[t].trade] # "open"
  PROVE  BookInv'
  <1>1. \A u \in Tasks : /\ Loaded(u)' => Loaded(u) /\ task'[u].cash = task[u].cash
                         /\ \A n \in Trades : Closing(u, n)' => Closing(u, n)
    BY DEF Stays, Loaded, Closing
  <1>2. \A n \in Trades : Paid(n)' => Paid(n)
    BY <1>1 DEF Paid
  <1>3. \A u \in Tasks : task'[u].pc \in {"marking", "marked"} /\ task'[u].dump = "closed" =>
                           memPosition[task'[u].trade] # "open"
    BY DEF BookInv, Stays
  <1>4. "command" \in Tasks /\ "loop" \in Tasks
    BY DEF Tasks
  <1>5. Fair(dbCash)'
    BY DEF BookInv, Fair
  <1>6. \A u \in Tasks : Loaded(u)' => (Fair(task[u].cash))'
    BY <1>1 DEF BookInv, Fair
  <1>7. \A n \in Trades : Paid(n)' => /\ memPosition'[n] # "open" /\ orderOf'[n] # NoOrder
                                      /\ \A u \in Tasks : ~Closing(u, n)'
    BY <1>1, <1>2 DEF BookInv
  <1>8. /\ \A n \in Trades : \A u \in Tasks : Closing(u, n)' => memPosition'[n] = "closed"
        /\ \A n \in Trades : ~(Closing("command", n)' /\ Closing("loop", n)')
    BY <1>1, <1>4 DEF BookInv
  <1>9. ClosedStaysClosed'
    BY DEF BookInv, ClosedStaysClosed
  <1> QED BY <1>3, <1>5, <1>6, <1>7, <1>8, <1>9 DEF BookInv

(* A new trade is in nobody's hands, and nothing was paid for it.          *)
LEMMA FillsBook ==
  ASSUME Typed, Calm, UsedInv, BookInv, NEW o \in Orders, Fills(o)
  PROVE  BookInv'
  <1>1. PICK x \in Trades :
          /\ Stays("command") /\ orderOf[x] = NoOrder /\ orderOf' = [orderOf EXCEPT ![x] = o]
          /\ memPosition' = [memPosition EXCEPT ![x] = "open"]
          /\ task'["command"].pc = "saving" /\ UNCHANGED <<dbFill, dbPosition, dbCash>>
    BY FillDoes DEF Fills, database
  <1>2. /\ memPosition[x] = "none" /\ dbPosition[x] = "none" /\ \A u \in Tasks : task[u].trade # x
        /\ ~Paid(x)
    BY <1>1 DEF UsedInv, Used, BookInv
  <1>3. \A n \in Trades : /\ memPosition'[n] = IF n = x THEN "open" ELSE memPosition[n]
                          /\ orderOf'[n] = IF n = x THEN o ELSE orderOf[n]
    BY <1>1 DEF Typed, TypeOK
  <1>4. \A u \in Tasks : /\ Loaded(u)' => Loaded(u) /\ task'[u].cash = task[u].cash
                         /\ \A n \in Trades : Closing(u, n)' => Closing(u, n) /\ n # x
    BY <1>1, <1>2 DEF Stays, Loaded, Closing
  <1>5. \A n \in Trades : Paid(n)' => Paid(n) /\ n # x
    BY <1>1, <1>2, <1>4 DEF Paid
  <1>6. Fair(dbCash)' /\ \A u \in Tasks : Loaded(u)' => (Fair(task[u].cash))'
    BY <1>1, <1>4 DEF BookInv, Fair
  <1>7. \A n \in Trades : Paid(n)' => /\ memPosition'[n] # "open" /\ orderOf'[n] # NoOrder
                                      /\ \A u \in Tasks : ~Closing(u, n)'
    BY <1>3, <1>4, <1>5 DEF BookInv
  <1>8. "command" \in Tasks /\ "loop" \in Tasks
    BY DEF Tasks
  <1>9. /\ \A n \in Trades : \A u \in Tasks : Closing(u, n)' => memPosition'[n] = "closed"
        /\ \A n \in Trades : ~(Closing("command", n)' /\ Closing("loop", n)')
    BY <1>3, <1>4, <1>8 DEF BookInv
  <1>10. ClosedStaysClosed'
    BY <1>1, <1>2, <1>3 DEF BookInv, ClosedStaysClosed
  <1>11. \A u \in Tasks : task'[u].pc \in {"marking", "marked"} /\ task'[u].dump = "closed" =>
                            memPosition'[task'[u].trade] # "open"
    <2>1. SUFFICES ASSUME NEW u \in Tasks, task'[u].pc \in {"marking", "marked"}, task'[u].dump = "closed"
                   PROVE  memPosition'[task'[u].trade] # "open"
      OBVIOUS
    <2>2. task'[u] = task[u]
      BY <1>1, <2>1 DEF Stays
    <2>3. task[u].trade \in Trades
      BY <2>1, <2>2 DEF Typed, AtInv, Proper, OnTrade
    <2>4. memPosition[task[u].trade] # "open" /\ task[u].trade # x
      BY <1>2, <2>1, <2>2 DEF BookInv
    <2> QED BY <1>3, <2>2, <2>3, <2>4
  <1> QED BY <1>6, <1>7, <1>9, <1>10, <1>11 DEF BookInv

(* A position that is open was not paid, and nobody is closing it.         *)
LEMMA EndsBook ==
  ASSUME Typed, Calm, BookInv, NEW t \in Tasks, NEW x \in Trades, NEW o \in Orders \cup {NoOrder},
         Ends(t, x, o), orderOf[x] # NoOrder
  PROVE  BookInv'
  <1>0. Close(t, x, o)
    BY DEF Ends
  <1>1. /\ Stays(t) /\ memPosition[x] = "open" /\ memPosition' = [memPosition EXCEPT ![x] = "closed"]
        /\ task'[t].pc = "closing" /\ task'[t].trade = x
        /\ UNCHANGED <<dbFill, dbPosition, dbCash, orderOf>>
    BY <1>0, CloseDoes DEF database
  <1>2. ~Paid(x) /\ \A u \in Tasks : ~Closing(u, x)
    BY <1>1 DEF BookInv
  <1>3. \A n \in Trades : memPosition'[n] = IF n = x THEN "closed" ELSE memPosition[n]
    BY <1>1 DEF Typed, TypeOK
  <1>4. \A u \in Tasks : /\ Loaded(u)' => Loaded(u) /\ task'[u].cash = task[u].cash
                         /\ \A n \in Trades : Closing(u, n)' => Closing(u, n) \/ (n = x /\ u = t)
    BY <1>1 DEF Stays, Loaded, Closing
  <1>5. \A n \in Trades : Paid(n)' => Paid(n) /\ n # x
    BY <1>1, <1>2, <1>4 DEF Paid
  <1>6. Fair(dbCash)' /\ \A u \in Tasks : Loaded(u)' => (Fair(task[u].cash))'
    BY <1>1, <1>4 DEF BookInv, Fair
  <1>7. \A n \in Trades : Paid(n)' => /\ memPosition'[n] # "open" /\ orderOf'[n] # NoOrder
                                      /\ \A u \in Tasks : ~Closing(u, n)'
    BY <1>1, <1>3, <1>4, <1>5 DEF BookInv
  <1>8. "command" \in Tasks /\ "loop" \in Tasks /\ "command" # "loop"
    BY DEF Tasks
  <1>9. /\ \A n \in Trades : \A u \in Tasks : Closing(u, n)' => memPosition'[n] = "closed"
        /\ \A n \in Trades : ~(Closing("command", n)' /\ Closing("loop", n)')
    BY <1>2, <1>3, <1>4, <1>8 DEF BookInv
  <1>10. ClosedStaysClosed'
    BY <1>1, <1>3 DEF BookInv, ClosedStaysClosed
  <1>11. \A u \in Tasks : task'[u].pc \in {"marking", "marked"} /\ task'[u].dump = "closed" =>
                            memPosition'[task'[u].trade] # "open"
    <2>1. SUFFICES ASSUME NEW u \in Tasks, task'[u].pc \in {"marking", "marked"}, task'[u].dump = "closed"
                   PROVE  memPosition'[task'[u].trade] # "open"
      OBVIOUS
    <2>2. task'[u] = task[u]
      BY <1>1, <2>1 DEF Stays
    <2>3. task[u].trade \in Trades
      BY <2>1, <2>2 DEF Typed, AtInv, Proper, OnTrade
    <2>4. memPosition[task[u].trade] # "open"
      BY <2>1, <2>2 DEF BookInv
    <2> QED BY <1>3, <2>2, <2>3, <2>4
  <1> QED BY <1>6, <1>7, <1>9, <1>10, <1>11 DEF BookInv

(* Alone, and before anything is in memory: it becomes what the table has. *)
LEMMA TakesAll ==
  ASSUME Typed, StartInv, ~looping, NEW t \in Tasks, TakePositions(t)
  PROVE  /\ t = "command" /\ task["loop"] = Idle /\ memPosition' = dbPosition
         /\ memOrder = dbOrder /\ ready /\ ~hydrated
  <1>1. t = "command" /\ AloneInv /\ task[t].pc = "takePositions"
    BY OnlyCommand, TakePositionsDoes DEF StartInv, Start
  <1>2. /\ ~hydrated /\ ready /\ memPosition = NoPositions /\ task[t].listed = dbPosition
        /\ task["loop"] = Idle /\ memOrder = dbOrder
    BY <1>1 DEF AloneInv, Starts
  <1>3. \A n \in Trades : memPosition'[n] = dbPosition[n]
    BY <1>2, TakePositionsDoes DEF NoPositions
  <1>4. memPosition' \in [Trades -> PositionStatus] /\ dbPosition \in [Trades -> PositionStatus]
    BY TakePositionsDoes DEF Typed, TypeOK
  <1> QED BY <1>1, <1>2, <1>3, <1>4

LEMMA TakesBook ==
  ASSUME Typed, Calm, StartInv, BookInv, LedgerInv, ~looping, NEW t \in Tasks, TakePositions(t)
  PROVE  BookInv'
  <1>1. /\ t = "command" /\ task["loop"] = Idle /\ memPosition' = dbPosition
        /\ Stays(t) /\ task'[t].pc = "idle" /\ UNCHANGED <<dbFill, dbPosition, dbCash, orderOf>>
    BY TakesAll, TakePositionsDoes DEF database
  <1>2. \A u \in Tasks : task'[u].pc = "idle"
    BY <1>1, IdleTyped DEF Stays, Tasks
  <1>3. \A u \in Tasks : ~Loaded(u)' /\ \A n \in Trades : ~Closing(u, n)'
    BY <1>2 DEF Loaded, Closing
  <1>4. \A n \in Trades : Paid(n)' => Paid(n) /\ dbPosition[n] = "closed"
    <2>1. SUFFICES ASSUME NEW n \in Trades, Paid(n)' PROVE Paid(n) /\ dbPosition[n] = "closed"
      OBVIOUS
    <2>2. dbCash[<<"pnl", n>>] # 0
      BY <1>1, <1>3, <2>1 DEF Paid
    <2>3. dbCash \in [Entries -> Nat] /\ LedgerBalanced
      BY DEF Typed, TypeOK, LedgerInv
    <2> QED BY <2>2, <2>3, LedgerIs DEF Paid
  <1>5. \A n \in Trades : Paid(n)' => /\ memPosition'[n] # "open" /\ orderOf'[n] # NoOrder
                                      /\ \A u \in Tasks : ~Closing(u, n)'
    BY <1>1, <1>3, <1>4 DEF BookInv
  <1>6. Fair(dbCash)'
    BY <1>1 DEF BookInv, Fair
  <1>7. ClosedStaysClosed'
    BY <1>1 DEF ClosedStaysClosed
  <1>8. "command" \in Tasks
    BY DEF Tasks
  <1> QED BY <1>2, <1>3, <1>5, <1>6, <1>7, <1>8 DEF BookInv

LEMMA CrashBook ==
  ASSUME Typed, Calm, BookInv, Crash
  PROVE  BookInv'
  <1>1. /\ \A u \in Tasks : task'[u].pc = "idle"
        /\ memPosition' = NoPositions /\ UNCHANGED <<dbFill, dbPosition, dbCash, orderOf>>
    BY CrashDoes, IdleTyped DEF database
  <1>2. \A u \in Tasks : ~Loaded(u)' /\ \A n \in Trades : ~Closing(u, n)'
    BY <1>1 DEF Loaded, Closing
  <1>3. \A n \in Trades : (Paid(n)' => Paid(n)) /\ memPosition'[n] = "none"
    BY <1>1, <1>2 DEF Paid, NoPositions
  <1>4. Fair(dbCash)' /\ ClosedStaysClosed'
    BY <1>1, <1>3 DEF BookInv, Fair, ClosedStaysClosed
  <1>5. "command" \in Tasks
    BY DEF Tasks
  <1> QED BY <1>1, <1>2, <1>3, <1>4, <1>5 DEF BookInv

(* A trade whose fill is being written has none, and no fee was booked.    *)
LEMMA FillWriteBook ==
  ASSUME Typed, Calm, StartInv, OrderInv, BookInv, NEW t \in Tasks, FillWrite(t)
  PROVE  BookInv'
  <1> DEFINE x == task[t].trade
             cash == task[t].cash
  <1>1. /\ Stays(t) /\ task[t].pc = "filled" /\ x \in Trades /\ dbFill' = dbFill \cup {x}
        /\ \A e \in Entries : dbCash'[e] = IF e = <<"fee", x>> THEN cash[e] + 1 ELSE cash[e]
        /\ task'[t].pc = "marking" /\ task'[t].trade = x /\ task'[t].dump = memPosition[x]
        /\ UNCHANGED <<memPosition, dbPosition, orderOf>>
    BY FillWriteDoes
  <1>2. t = "command"
    <2>1. t = "loop" => Together
      BY OnlyCommand DEF Calm, Together, StartInv, Calls
    <2> QED BY <1>1, <2>1 DEF StartInv, TogetherInv, Tasks
  <1>3. x \notin dbFill /\ Fair(cash) /\ Loaded(t)
    BY <1>1, <1>2 DEF OrderInv, Filling, BookInv, Loaded
  <1> HIDE DEF x, cash
  <1>4. \A n \in Trades : <<"fee", n>> \in Entries /\ <<"pnl", n>> \in Entries /\ <<"pnl", n>> # <<"fee", x>>
    BY DEF Entries
  <1>5. Fair(dbCash)'
    <2>1. cash[<<"fee", x>>] = 0
      BY <1>1, <1>3 DEF Fair
    <2>2. \A e \in Entries : dbCash'[e] \in {0, 1}
      BY <1>1, <1>3, <2>1 DEF Fair
    <2>3. \A n \in Trades \ dbFill' : dbCash'[<<"fee", n>>] = 0
      BY <1>1, <1>3, <1>4 DEF Fair
    <2> QED BY <2>2, <2>3 DEF Fair
  <1>6. \A u \in Tasks : /\ Loaded(u)' => Loaded(u) /\ task'[u].cash = task[u].cash
                         /\ \A n \in Trades : Closing(u, n)' => Closing(u, n)
    BY <1>1 DEF Stays, Loaded, Closing
  <1>7. \A u \in Tasks : Loaded(u)' => (Fair(task[u].cash))'
    BY <1>1, <1>6 DEF BookInv, Fair
  <1>8. \A n \in Trades : Paid(n)' => Paid(n)
    <2>1. \A n \in Trades : dbCash'[<<"pnl", n>>] = cash[<<"pnl", n>>]
      BY <1>1, <1>4
    <2> QED BY <1>3, <1>6, <2>1 DEF Paid, cash
  <1>9. \A n \in Trades : Paid(n)' => /\ memPosition'[n] # "open" /\ orderOf'[n] # NoOrder
                                      /\ \A u \in Tasks : ~Closing(u, n)'
    BY <1>1, <1>6, <1>8 DEF BookInv
  <1>10. "command" \in Tasks /\ "loop" \in Tasks
    BY DEF Tasks
  <1>11. /\ \A n \in Trades : \A u \in Tasks : Closing(u, n)' => memPosition'[n] = "closed"
         /\ \A n \in Trades : ~(Closing("command", n)' /\ Closing("loop", n)')
    BY <1>1, <1>6, <1>10 DEF BookInv
  <1>12. ClosedStaysClosed'
    BY <1>1 DEF BookInv, ClosedStaysClosed
  <1>13. \A u \in Tasks : task'[u].pc \in {"marking", "marked"} /\ task'[u].dump = "closed" =>
                            memPosition'[task'[u].trade] # "open"
    BY <1>1 DEF BookInv, Stays
  <1> QED BY <1>5, <1>7, <1>9, <1>11, <1>12, <1>13 DEF BookInv

(* A close that is being written was not paid by anyone else.              *)
LEMMA CloseWriteBook ==
  ASSUME Typed, Calm, UsedInv, BookInv, NEW t \in Tasks, CloseWrite(t)
  PROVE  BookInv'
  <1> DEFINE cash == task[t].cash
  <1>0. task[t].trade \in Trades
    BY CloseWriteDoes
  <1>1. PICK x \in Trades :
        /\ x = task[t].trade /\ Stays(t) /\ task[t].pc = "closed"
        /\ \A e \in Entries : dbCash'[e] = IF e = <<"pnl", x>> THEN cash[e] + 1 ELSE cash[e]
        /\ dbPosition' = IF task[t].seen = "closed" THEN dbPosition
                         ELSE [dbPosition EXCEPT ![x] = "closed"]
        /\ task'[t].pc \in {"idle", "sizing"} /\ UNCHANGED <<memPosition, dbFill, orderOf>>
    BY <1>0, CloseWriteDoes
  <1>2. \A n \in Trades : dbPosition'[n] \in {dbPosition[n], "closed"} /\
                          (n # x => dbPosition'[n] = dbPosition[n])
    BY <1>1 DEF Typed, TypeOK
  <1>3. Fair(cash) /\ Loaded(t) /\ Closing(t, x) /\ Used(x)
    BY <1>1 DEF BookInv, Loaded, Closing, Used
  <1>4. memPosition[x] = "closed" /\ orderOf[x] # NoOrder /\ ~Paid(x)
    BY <1>1, <1>3 DEF BookInv, UsedInv
  <1>5. cash[<<"pnl", x>>] = 0
    BY <1>3, <1>4 DEF Paid
  <1> HIDE DEF cash
  <1>6. \A n \in Trades : /\ <<"fee", n>> \in Entries /\ <<"pnl", n>> \in Entries
                          /\ <<"fee", n>> # <<"pnl", x>> /\ (n # x => <<"pnl", n>> # <<"pnl", x>>)
    BY DEF Entries
  <1>7. Fair(dbCash)'
    <2>1. \A e \in Entries : dbCash'[e] \in {0, 1}
      BY <1>1, <1>3, <1>5 DEF Fair
    <2>2. \A n \in Trades \ dbFill' : dbCash'[<<"fee", n>>] = 0
      BY <1>1, <1>3, <1>6 DEF Fair
    <2> QED BY <2>1, <2>2 DEF Fair
  <1>8. \A u \in Tasks : /\ Loaded(u)' => u # t /\ Loaded(u) /\ task'[u] = task[u]
                         /\ \A n \in Trades : Closing(u, n)' => u # t /\ Closing(u, n)
    BY <1>1 DEF Stays, Loaded, Closing
  <1>9. \A u \in Tasks : Loaded(u)' => (Fair(task[u].cash))'
    BY <1>1, <1>8 DEF BookInv, Fair
  <1>10. \A n \in Trades \ {x} : Paid(n)' => Paid(n)
    <2>1. \A n \in Trades \ {x} : dbCash'[<<"pnl", n>>] = cash[<<"pnl", n>>]
      BY <1>1, <1>6
    <2> QED BY <1>3, <1>8, <2>1 DEF Paid, cash
  <1>11. "command" \in Tasks /\ "loop" \in Tasks /\ t \in {"command", "loop"}
    BY DEF Tasks
  <1>12. \A u \in Tasks : ~Closing(u, x)'
    <2>1. SUFFICES ASSUME NEW u \in Tasks, Closing(u, x)' PROVE FALSE
      OBVIOUS
    <2>2. u # t /\ Closing(u, x)
      BY <1>1, <1>8, <2>1
    <2>3. ~(Closing("command", x) /\ Closing("loop", x))
      BY <1>1 DEF BookInv
    <2>4. (u = "command" /\ t = "loop") \/ (u = "loop" /\ t = "command")
      BY <2>2 DEF Tasks
    <2> QED BY <1>3, <2>2, <2>3, <2>4
  <1>13. ASSUME NEW n \in Trades, Paid(n)'
         PROVE  /\ memPosition'[n] # "open" /\ orderOf'[n] # NoOrder
                /\ \A u \in Tasks : ~Closing(u, n)'
    <2>1. CASE n = x
      BY <1>1, <1>4, <1>12, <2>1
    <2>2. CASE n # x
      BY <1>1, <1>8, <1>10, <1>13, <2>2 DEF BookInv
    <2> QED BY <2>1, <2>2
  <1>14. /\ \A n \in Trades : \A u \in Tasks : Closing(u, n)' => memPosition'[n] = "closed"
         /\ \A n \in Trades : ~(Closing("command", n)' /\ Closing("loop", n)')
    BY <1>1, <1>8, <1>11 DEF BookInv
  <1>15. ClosedStaysClosed'
    BY <1>1, <1>2, <1>4 DEF BookInv, ClosedStaysClosed
  <1>16. \A u \in Tasks : task'[u].pc \in {"marking", "marked"} /\ task'[u].dump = "closed" =>
                            memPosition'[task'[u].trade] # "open"
    BY <1>1 DEF BookInv, Stays
  <1> QED BY <1>7, <1>9, <1>13, <1>14, <1>15, <1>16 DEF BookInv

(* A mark that says closed is of a position that is closed in memory.      *)
LEMMA UpsertWriteBook ==
  ASSUME Typed, Calm, BookInv, NEW t \in Tasks, UpsertWrite(t)
  PROVE  BookInv'
  <1> DEFINE x == task[t].trade
  <1>1. /\ Stays(t) /\ task[t].pc = "marked" /\ x \in Trades /\ task'[t].pc = "idle"
        /\ dbPosition' = IF task[t].dump = task[t].seen THEN dbPosition
                         ELSE [dbPosition EXCEPT ![x] = task[t].dump]
        /\ UNCHANGED <<memPosition, dbFill, dbCash, orderOf>>
    BY UpsertWriteDoes
  <1>2. \A n \in Trades : dbPosition'[n] = dbPosition[n] \/ (n = x /\ dbPosition'[n] = task[t].dump)
    BY <1>1 DEF Typed, TypeOK
  <1>3. task[t].dump = "closed" => memPosition[x] # "open"
    BY <1>1 DEF BookInv
  <1> HIDE DEF x
  <1>4. ClosedStaysClosed'
    BY <1>1, <1>2, <1>3 DEF BookInv, ClosedStaysClosed
  <1>5. \A u \in Tasks : /\ Loaded(u)' => Loaded(u) /\ task'[u].cash = task[u].cash
                         /\ \A n \in Trades : Closing(u, n)' => Closing(u, n)
    BY <1>1 DEF Stays, Loaded, Closing
  <1>6. \A n \in Trades : Paid(n)' => Paid(n)
    BY <1>1, <1>5 DEF Paid
  <1>7. Fair(dbCash)' /\ \A u \in Tasks : Loaded(u)' => (Fair(task[u].cash))'
    BY <1>1, <1>5 DEF BookInv, Fair
  <1>8. \A n \in Trades : Paid(n)' => /\ memPosition'[n] # "open" /\ orderOf'[n] # NoOrder
                                      /\ \A u \in Tasks : ~Closing(u, n)'
    BY <1>1, <1>5, <1>6 DEF BookInv
  <1>9. "command" \in Tasks /\ "loop" \in Tasks
    BY DEF Tasks
  <1>10. /\ \A n \in Trades : \A u \in Tasks : Closing(u, n)' => memPosition'[n] = "closed"
         /\ \A n \in Trades : ~(Closing("command", n)' /\ Closing("loop", n)')
    BY <1>1, <1>5, <1>9 DEF BookInv
  <1>11. \A u \in Tasks : task'[u].pc \in {"marking", "marked"} /\ task'[u].dump = "closed" =>
                            memPosition'[task'[u].trade] # "open"
    BY <1>1 DEF BookInv, Stays
  <1> QED BY <1>4, <1>7, <1>8, <1>10, <1>11 DEF BookInv

(* What is loaded is what the table has.                                   *)
LEMMA LoadBook ==
  ASSUME Typed, Calm, BookInv, NEW t \in Tasks, FillRead(t) \/ CloseRead(t)
  PROVE  BookInv'
  <1> DEFINE k == task'[t]
  <1>1. /\ Stays(t) /\ UNCHANGED <<memPosition, dbFill, dbPosition, dbCash, orderOf>>
        /\ k.pc \in {"filled", "closed", "idle", "sizing"}
        /\ k.pc \in {"filled", "closed"} => k.cash = dbCash
        /\ k.pc = "closed" => task[t].pc = "closing" /\ k.trade = task[t].trade
    BY FillReadDoes, CloseReadDoes DEF database
  <1> HIDE DEF k
  <1>2. \A u \in Tasks : /\ Loaded(u)' => (Loaded(u) /\ task'[u].cash = task[u].cash) \/ task'[u].cash = dbCash
                         /\ \A n \in Trades : Closing(u, n)' => Closing(u, n)
    BY <1>1 DEF Stays, Loaded, Closing, k
  <1>3. \A n \in Trades : Paid(n)' => Paid(n)
    BY <1>1, <1>2 DEF Paid
  <1>4. Fair(dbCash)' /\ \A u \in Tasks : Loaded(u)' => (Fair(task[u].cash))'
    BY <1>1, <1>2 DEF BookInv, Fair
  <1>5. \A n \in Trades : Paid(n)' => /\ memPosition'[n] # "open" /\ orderOf'[n] # NoOrder
                                      /\ \A u \in Tasks : ~Closing(u, n)'
    BY <1>1, <1>2, <1>3 DEF BookInv
  <1>6. "command" \in Tasks /\ "loop" \in Tasks
    BY DEF Tasks
  <1>7. /\ \A n \in Trades : \A u \in Tasks : Closing(u, n)' => memPosition'[n] = "closed"
        /\ \A n \in Trades : ~(Closing("command", n)' /\ Closing("loop", n)')
    BY <1>1, <1>2, <1>6 DEF BookInv
  <1>8. ClosedStaysClosed'
    BY <1>1 DEF BookInv, ClosedStaysClosed
  <1>9. \A u \in Tasks : task'[u].pc \in {"marking", "marked"} /\ task'[u].dump = "closed" =>
                           memPosition'[task'[u].trade] # "open"
    BY <1>1 DEF BookInv, Stays, k
  <1> QED BY <1>4, <1>5, <1>7, <1>8, <1>9 DEF BookInv

LEMMA NextBook ==
  Typed /\ StartInv /\ UsedInv /\ OrderInv /\ BookInv /\ LedgerInv /\ [Next]_vars => BookInv'
  <1> SUFFICES ASSUME Typed, StartInv, UsedInv, OrderInv, BookInv, LedgerInv, [Next]_vars, Calm'
               PROVE  BookInv'
    BY DEF BookInv
  <1>0. "command" \in Tasks /\ "loop" \in Tasks /\ Calm
    BY CalmMoves DEF Tasks
  <1>1. ASSUME NEW o \in Orders, Draft(o) \/ CancelDraft(o) PROVE BookInv'
    <2>1. /\ Stays("command") /\ task'["command"].pc = "saving"
          /\ UNCHANGED <<dbCash, dbFill, dbPosition, memPosition, orderOf>>
      BY <1>1, OrderDoes DEF database
    <2> QED BY <1>0, <2>1, QuietBooks
  <1>2. ASSUME NEW o \in Orders, Fills(o) PROVE BookInv'
    BY <1>0, <1>2, FillsBook
  <1>3. ASSUME NEW t \in Tasks, NEW n \in Trades, NEW o \in Orders \cup {NoOrder}, Ends(t, n, o)
        PROVE  BookInv'
    <2>1. orderOf[n] # NoOrder
      BY <1>0, <1>3 DEF Ends, Close, UsedInv, Used
    <2> QED BY <1>0, <1>3, <2>1, EndsBook
  <1>4. CASE Rejects
    <2>1. /\ Stays("command") /\ task'["command"].pc = "idle"
          /\ UNCHANGED <<dbCash, dbFill, dbPosition, memPosition, orderOf>>
      BY <1>0, <1>4, RestDoes DEF Rejects, database
    <2> QED BY <1>0, <2>1, QuietBooks
  <1>5. ASSUME NEW n \in Trades, Remarks(n) PROVE BookInv'
    <2>0. "open" \in PositionStatus
      BY DEF PositionStatus
    <2>1. /\ Stays("loop") /\ task'["loop"].pc = "marking" /\ task'["loop"].dump = "open"
          /\ UNCHANGED <<dbCash, dbFill, dbPosition, memPosition, orderOf>>
      BY <1>0, <1>5, <2>0, MarkDoes DEF Remarks, database
    <2> QED BY <1>0, <2>1, QuietBooks
  <1>6. ASSUME NEW t \in Tasks, Start(t) PROVE BookInv'
    <2>1. ~looping
      BY <1>0, <1>6, NoStarts DEF Calm, Together
    <2>2. CASE TakePositions(t)
      BY <1>0, <2>1, <2>2, TakesBook
    <2>3. CASE ~TakePositions(t)
      <3>1. /\ Stays(t) /\ task'[t].pc \in Starts \cup {"idle"}
            /\ UNCHANGED <<dbCash, dbFill, dbPosition, memPosition, orderOf>>
        BY <1>6, <2>3, StartDoes DEF database
      <3> QED BY <1>0, <3>1, QuietBooks DEF Starts
    <2> QED BY <2>2, <2>3
  <1>7. ASSUME NEW t \in Tasks, Calls(t) PROVE BookInv'
    <2>1. CASE SaveOrder(t)
      <3>1. /\ Stays(t) /\ task'[t].pc \in {"idle", "filling"}
            /\ UNCHANGED <<dbCash, dbFill, dbPosition, memPosition, orderOf>>
        BY <2>1, SaveOrderDoes
      <3> QED BY <1>0, <3>1, QuietBooks
    <2>2. CASE FillRead(t) \/ CloseRead(t)
      BY <1>0, <2>2, LoadBook
    <2>3. CASE FillWrite(t)
      BY <1>0, <2>3, FillWriteBook
    <2>4. CASE UpsertRead(t)
      <3>1. /\ Stays(t) /\ task[t].pc = "marking" /\ task'[t].pc = "marked"
            /\ task'[t].trade = task[t].trade /\ task'[t].dump = task[t].dump
            /\ UNCHANGED <<dbCash, dbFill, dbPosition, memPosition, orderOf>>
        BY <2>4, UpsertReadDoes DEF database
      <3>2. task'[t].dump # "closed" \/ memPosition[task'[t].trade] # "open"
        BY <1>0, <3>1 DEF BookInv
      <3> QED BY <1>0, <3>1, <3>2, QuietBooks
    <2>5. CASE UpsertWrite(t)
      BY <1>0, <2>5, UpsertWriteBook
    <2>6. CASE CloseWrite(t)
      BY <1>0, <2>6, CloseWriteBook
    <2> QED BY <1>7, <2>1, <2>2, <2>3, <2>4, <2>5, <2>6 DEF Calls
  <1>8. ASSUME NEW t \in Tasks, Fails(t) PROVE BookInv'
    <2>1. /\ Stays(t) /\ task'[t].pc = "idle"
          /\ UNCHANGED <<dbCash, dbFill, dbPosition, memPosition, orderOf>>
      BY <1>8, FailsDoes DEF database
    <2> QED BY <1>0, <2>1, QuietBooks
  <1>9. CASE Crash
    BY <1>0, <1>9, CrashBook
  <1>10. CASE UNCHANGED vars
    <2>1. /\ Stays("command") /\ task' = task
          /\ UNCHANGED <<dbCash, dbFill, dbPosition, memPosition, orderOf>>
      BY <1>10 DEF vars, memory, database, Stays
    <2>2. BookInv' <=> BookInv
      BY <2>1, <1>10 DEF BookInv, Fair, Loaded, Closing, Paid, ClosedStaysClosed, Calm, vars, environment
    <2> QED BY <2>2
  <1> QED BY <1>1, <1>2, <1>3, <1>4, <1>5, <1>6, <1>7, <1>8, <1>9, <1>10, NextCases

-----------------------------------------------------------------------------
(* Alone, step by step.  A step that books nothing and comes to rest.      *)
LEMMA QuietLedger ==
  ASSUME LedgerInv, ~looping, UNCHANGED <<dbCash, dbFill, dbPosition>>,
         \/ task'["command"].pc \in {"idle", "sizing"} \cup Starts
         \/ task'["command"].pc = "saving" /\ task'["command"].trade = 0
  PROVE  LedgerInv'
  <1>1. LedgerBalanced'
    BY DEF LedgerInv, LedgerBalanced
  <1> QED BY <1>1 DEF LedgerInv, Loaded, Filling, Starts

LEMMA CallLedger ==
  ASSUME Typed, ~looping, StartInv, OrderInv, LedgerInv, Calls("command"), looping' = looping
  PROVE  LedgerInv'
  <1>0. "command" \in Tasks /\ 0 \notin Trades
    BY BoundsAssumption DEF Tasks, Trades
  <1>1. CASE SaveOrder("command")
    <2>1. UNCHANGED <<memPosition, dbCash, dbFill, dbPosition>>
      BY <1>0, <1>1, SaveOrderDoes
    <2>2. CASE task["command"].trade = 0
      BY <1>0, <1>1, <2>1, <2>2, SaveOrderDoes, QuietLedger
    <2>3. CASE task["command"].trade # 0
      <3>1. /\ task'["command"].pc = "filling" /\ task'["command"].trade = task["command"].trade
            /\ Filling
        BY <1>0, <1>1, <2>3, SaveOrderDoes DEF Filling
      <3>2. LedgerBalanced'
        BY <2>1 DEF LedgerInv, LedgerBalanced
      <3> QED BY <2>1, <3>1, <3>2 DEF LedgerInv, Loaded
    <2> QED BY <2>2, <2>3
  <1>2. CASE FillRead("command")
    <2>1. /\ UNCHANGED <<memPosition, dbCash, dbFill, dbPosition>>
          /\ task'["command"].pc = "filled" /\ task'["command"].trade = task["command"].trade
          /\ task'["command"].cash = dbCash /\ Filling
      BY <1>0, <1>2, FillReadDoes DEF Filling, database
    <2>2. LedgerBalanced'
      BY <2>1 DEF LedgerInv, LedgerBalanced
    <2> QED BY <2>1, <2>2 DEF LedgerInv
  <1>3. CASE FillWrite("command")
    <2>0. task["command"].trade \in Trades
      BY <1>0, <1>3, FillWriteDoes
    <2>1. PICK x \in Trades :
            /\ x = task["command"].trade /\ task["command"].pc = "filled"
            /\ dbFill' = dbFill \cup {x} /\ dbCash' \in [Entries -> Nat]
            /\ \A e \in Entries : dbCash'[e] = IF e = <<"fee", x>> THEN task["command"].cash[e] + 1
                                               ELSE task["command"].cash[e]
            /\ task'["command"].pc = "marking" /\ task'["command"].trade = x
            /\ task'["command"].dump = memPosition[x] /\ UNCHANGED <<memPosition, dbPosition>>
      BY <1>0, <1>3, <2>0, FillWriteDoes
    <2>2. /\ task["command"].cash = dbCash /\ LedgerBalanced
          /\ dbPosition[x] = "none" /\ memPosition[x] = "open"
      BY <2>1 DEF LedgerInv, Loaded, Filling
    <2>3. x \notin dbFill
      BY <2>1 DEF OrderInv, Calm, Filling
    <2>4. \A n \in Trades : /\ <<"fee", n>> \in Entries /\ <<"pnl", n>> \in Entries
                            /\ <<"pnl", n>> # <<"fee", x>> /\ (n # x => <<"fee", n>> # <<"fee", x>>)
      BY DEF Entries
    <2>5. \A n \in Trades : /\ dbCash[<<"fee", n>>] = (IF n \in dbFill THEN 1 ELSE 0)
                            /\ dbCash[<<"pnl", n>>] = (IF dbPosition[n] = "closed" THEN 1 ELSE 0)
      BY <2>2, LedgerIs DEF Typed, TypeOK
    <2>6. \A n \in Trades : /\ dbCash'[<<"fee", n>>] = (IF n \in dbFill' THEN 1 ELSE 0)
                            /\ dbCash'[<<"pnl", n>>] = (IF dbPosition'[n] = "closed" THEN 1 ELSE 0)
      <3>1. SUFFICES ASSUME NEW n \in Trades
                     PROVE  /\ dbCash'[<<"fee", n>>] = (IF n \in dbFill' THEN 1 ELSE 0)
                            /\ dbCash'[<<"pnl", n>>] = (IF dbPosition'[n] = "closed" THEN 1 ELSE 0)
        OBVIOUS
      <3>2. dbCash'[<<"pnl", n>>] = dbCash[<<"pnl", n>>]
        BY <2>1, <2>2, <2>4
      <3>3. CASE n = x
        <4>1. dbCash'[<<"fee", n>>] = dbCash[<<"fee", n>>] + 1 /\ dbCash[<<"fee", n>>] = 0
          BY <2>1, <2>2, <2>3, <2>4, <2>5, <3>3
        <4> QED BY <2>1, <2>5, <3>2, <3>3, <4>1
      <3>4. CASE n # x
        <4>1. dbCash'[<<"fee", n>>] = dbCash[<<"fee", n>>]
          BY <2>1, <2>2, <2>4, <3>4
        <4> QED BY <2>1, <2>5, <3>2, <3>4, <4>1
      <3> QED BY <3>3, <3>4
    <2>7. LedgerBalanced'
      BY <2>1, <2>6, LedgerBecomes
    <2> QED BY <2>1, <2>2, <2>7 DEF LedgerInv, Loaded, Filling
  <1>4. CASE UpsertRead("command")
    <2>1. /\ UNCHANGED <<memPosition, dbCash, dbFill, dbPosition>> /\ task["command"].pc = "marking"
          /\ task'["command"].pc = "marked" /\ task'["command"].trade = task["command"].trade
          /\ task'["command"].seen = dbPosition[task["command"].trade]
          /\ task'["command"].dump = task["command"].dump
      BY <1>0, <1>4, UpsertReadDoes DEF database
    <2>2. LedgerBalanced'
      BY <2>1 DEF LedgerInv, LedgerBalanced
    <2> QED BY <2>1, <2>2 DEF LedgerInv, Loaded, Filling
  <1>5. CASE UpsertWrite("command")
    <2>0. task["command"].trade \in Trades
      BY <1>0, <1>5, UpsertWriteDoes
    <2>1. PICK x \in Trades :
            /\ x = task["command"].trade /\ task["command"].pc = "marked"
            /\ dbPosition' = IF task["command"].dump = task["command"].seen THEN dbPosition
                             ELSE [dbPosition EXCEPT ![x] = task["command"].dump]
            /\ task'["command"].pc = "idle" /\ UNCHANGED <<dbCash, dbFill>>
      BY <1>0, <1>5, <2>0, UpsertWriteDoes
    <2>2. /\ task["command"].dump = "open" /\ dbPosition[x] = "none" /\ x \in dbFill
          /\ task["command"].seen = "none" /\ LedgerBalanced
      BY <2>1 DEF LedgerInv
    <2>3. \A n \in Trades : dbPosition'[n] = IF n = x THEN "open" ELSE dbPosition[n]
      BY <2>1, <2>2 DEF Typed, TypeOK
    <2>4. \A n \in Trades : /\ dbCash[<<"fee", n>>] = (IF n \in dbFill THEN 1 ELSE 0)
                            /\ dbCash[<<"pnl", n>>] = (IF dbPosition[n] = "closed" THEN 1 ELSE 0)
      BY <2>2, LedgerIs DEF Typed, TypeOK
    <2>5. \A n \in Trades : /\ dbCash'[<<"fee", n>>] = (IF n \in dbFill' THEN 1 ELSE 0)
                            /\ dbCash'[<<"pnl", n>>] = (IF dbPosition'[n] = "closed" THEN 1 ELSE 0)
      <3>1. \A n \in Trades : dbPosition'[n] = "closed" <=> dbPosition[n] = "closed"
        BY <2>2, <2>3
      <3>2. dbCash' = dbCash /\ dbFill' = dbFill
        BY <2>1
      <3> QED BY <2>4, <3>1, <3>2
    <2>6. LedgerBalanced'
      BY <2>1, <2>5, LedgerBecomes DEF Typed, TypeOK
    <2> QED BY <2>1, <2>2, <2>3, <2>6 DEF LedgerInv, Loaded, Filling
  <1>6. CASE CloseRead("command")
    <2>1. UNCHANGED <<dbCash, dbFill, dbPosition>> /\ task["command"].pc = "closing"
      BY <1>0, <1>6, CloseReadDoes DEF database
    <2>2. CASE task'["command"].pc \in {"idle", "sizing"}
      BY <2>1, <2>2, QuietLedger
    <2>3. CASE task'["command"].pc \notin {"idle", "sizing"}
      <3>1. /\ task'["command"].pc = "closed" /\ task'["command"].cash = dbCash
            /\ task'["command"].trade = task["command"].trade
            /\ task'["command"].seen = dbPosition[task["command"].trade]
            /\ dbPosition[task["command"].trade] # "none"
        BY <1>0, <1>6, <2>3, CloseReadDoes
      <3>2. LedgerBalanced'
        BY <2>1 DEF LedgerInv, LedgerBalanced
      <3> QED BY <2>1, <3>1, <3>2 DEF LedgerInv, Filling
    <2> QED BY <2>2, <2>3
  <1>7. CASE CloseWrite("command")
    <2>0. task["command"].trade \in Trades
      BY <1>0, <1>7, CloseWriteDoes
    <2>1. PICK x \in Trades :
            /\ x = task["command"].trade /\ task["command"].pc = "closed"
            /\ dbPosition' = IF task["command"].seen = "closed" THEN dbPosition
                             ELSE [dbPosition EXCEPT ![x] = "closed"]
            /\ dbCash' \in [Entries -> Nat]
            /\ \A e \in Entries : dbCash'[e] = IF e = <<"pnl", x>> THEN task["command"].cash[e] + 1
                                               ELSE task["command"].cash[e]
            /\ task'["command"].pc \in {"idle", "sizing"} /\ UNCHANGED dbFill
      BY <1>0, <1>7, <2>0, CloseWriteDoes
    <2>2. /\ task["command"].cash = dbCash /\ LedgerBalanced
          /\ dbPosition[x] # "closed" /\ dbPosition[x] # "none" /\ x \in dbFill
          /\ task["command"].seen = dbPosition[x]
      BY <2>1 DEF LedgerInv, Loaded
    <2>3. \A n \in Trades : dbPosition'[n] = IF n = x THEN "closed" ELSE dbPosition[n]
      BY <2>1, <2>2 DEF Typed, TypeOK
    <2>4. \A n \in Trades : /\ <<"fee", n>> \in Entries /\ <<"pnl", n>> \in Entries
                            /\ <<"fee", n>> # <<"pnl", x>> /\ (n # x => <<"pnl", n>> # <<"pnl", x>>)
      BY DEF Entries
    <2>5. \A n \in Trades : /\ dbCash[<<"fee", n>>] = (IF n \in dbFill THEN 1 ELSE 0)
                            /\ dbCash[<<"pnl", n>>] = (IF dbPosition[n] = "closed" THEN 1 ELSE 0)
      BY <2>2, LedgerIs DEF Typed, TypeOK
    <2>6. \A n \in Trades : /\ dbCash'[<<"fee", n>>] = (IF n \in dbFill' THEN 1 ELSE 0)
                            /\ dbCash'[<<"pnl", n>>] = (IF dbPosition'[n] = "closed" THEN 1 ELSE 0)
      <3>1. SUFFICES ASSUME NEW n \in Trades
                     PROVE  /\ dbCash'[<<"fee", n>>] = (IF n \in dbFill' THEN 1 ELSE 0)
                            /\ dbCash'[<<"pnl", n>>] = (IF dbPosition'[n] = "closed" THEN 1 ELSE 0)
        OBVIOUS
      <3>2. dbCash'[<<"fee", n>>] = dbCash[<<"fee", n>>]
        BY <2>1, <2>2, <2>4
      <3>3. CASE n = x
        <4>1. dbCash'[<<"pnl", n>>] = dbCash[<<"pnl", n>>] + 1 /\ dbCash[<<"pnl", n>>] = 0
          BY <2>1, <2>2, <2>4, <2>5, <3>3
        <4> QED BY <2>1, <2>3, <2>5, <3>2, <3>3, <4>1
      <3>4. CASE n # x
        <4>1. dbCash'[<<"pnl", n>>] = dbCash[<<"pnl", n>>]
          BY <2>1, <2>2, <2>4, <3>4
        <4> QED BY <2>1, <2>3, <2>5, <3>2, <3>4, <4>1
      <3> QED BY <3>3, <3>4
    <2>7. LedgerBalanced'
      BY <2>1, <2>6, LedgerBecomes
    <2> QED BY <2>1, <2>2, <2>3, <2>7 DEF LedgerInv, Loaded, Filling
  <1> QED BY <1>1, <1>2, <1>3, <1>4, <1>5, <1>6, <1>7 DEF Calls

LEMMA NextLedger ==
  Typed /\ StartInv /\ UsedInv /\ OrderInv /\ BookInv /\ LedgerInv /\ [Next]_vars => LedgerInv'
  <1> SUFFICES ASSUME Typed, StartInv, UsedInv, OrderInv, BookInv, LedgerInv, [Next]_vars, ~looping'
               PROVE  LedgerInv'
    BY DEF LedgerInv
  <1>0. "command" \in Tasks /\ "loop" \in Tasks /\ ~looping /\ looping' = looping /\ Calm
    BY EnvironmentMoves DEF Tasks, Calm
  <1>1. ASSUME NEW o \in Orders, Draft(o) \/ CancelDraft(o) PROVE LedgerInv'
    <2>1. /\ task'["command"].pc = "saving" /\ task'["command"].trade = 0
          /\ UNCHANGED <<dbCash, dbFill, dbPosition>>
      BY <1>1, OrderDoes DEF database
    <2> QED BY <1>0, <2>1, QuietLedger
  <1>2. ASSUME NEW o \in Orders, Fills(o) PROVE LedgerInv'
    <2>1. PICK x \in Trades :
            /\ orderOf[x] = NoOrder /\ memPosition' = [memPosition EXCEPT ![x] = "open"]
            /\ task'["command"].pc = "saving" /\ task'["command"].trade = x
            /\ UNCHANGED <<dbFill, dbPosition, dbCash>>
      BY <1>2, FillDoes DEF Fills, database
    <2>2. dbPosition[x] = "none" /\ memPosition'[x] = "open"
      BY <1>0, <2>1 DEF UsedInv, Used, Typed, TypeOK
    <2>3. LedgerBalanced'
      BY <1>0, <2>1 DEF LedgerInv, LedgerBalanced
    <2> QED BY <1>0, <2>1, <2>2, <2>3 DEF LedgerInv, Loaded
  <1>3. ASSUME NEW t \in Tasks, NEW n \in Trades, NEW o \in Orders \cup {NoOrder}, Ends(t, n, o)
        PROVE  LedgerInv'
    <2>0. Close(t, n, o) /\ t = "command"
      BY <1>0, <1>3 DEF Ends, Tasks
    <2>1. /\ memPosition[n] = "open" /\ task'["command"].pc = "closing" /\ task'["command"].trade = n
          /\ UNCHANGED <<dbFill, dbPosition, dbCash>>
      BY <2>0, CloseDoes DEF database
    <2>2. dbPosition[n] # "closed"
      BY <1>0, <2>1 DEF BookInv, ClosedStaysClosed
    <2>3. LedgerBalanced'
      BY <1>0, <2>1 DEF LedgerInv, LedgerBalanced
    <2> QED BY <1>0, <2>1, <2>2, <2>3 DEF LedgerInv, Loaded, Filling
  <1>4. CASE Rejects
    <2>1. task'["command"].pc = "idle" /\ UNCHANGED <<dbFill, dbPosition, dbCash>>
      BY <1>0, <1>4, RestDoes DEF Rejects, database
    <2> QED BY <1>0, <2>1, QuietLedger
  <1>5. ASSUME NEW n \in Trades, Remarks(n) PROVE LedgerInv'
    BY <1>0, <1>5 DEF Remarks
  <1>6. ASSUME NEW t \in Tasks, Start(t) PROVE LedgerInv'
    <2>1. t = "command"
      BY <1>0, <1>6, OnlyCommand DEF StartInv
    <2>2. task'["command"].pc \in Starts \cup {"idle"} /\ UNCHANGED <<dbFill, dbPosition, dbCash>>
      BY <1>6, <2>1, StartDoes DEF database
    <2> QED BY <1>0, <2>2, QuietLedger
  <1>7. ASSUME NEW t \in Tasks, Calls(t) PROVE LedgerInv'
    <2>1. t = "command"
      BY <1>0, <1>7, OnlyCommand DEF StartInv
    <2> QED BY <1>0, <1>7, <2>1, CallLedger
  <1>8. ASSUME NEW t \in Tasks, Fails(t) PROVE LedgerInv'
    <2>1. t = "command"
      BY <1>0, <1>8, OnlyCommand DEF StartInv
    <2>2. task'["command"].pc = "idle" /\ UNCHANGED <<dbFill, dbPosition, dbCash>>
      BY <1>8, <2>1, FailsDoes DEF database
    <2> QED BY <1>0, <2>2, QuietLedger
  <1>9. CASE Crash
    <2>1. task'["command"].pc = "idle" /\ UNCHANGED <<dbFill, dbPosition, dbCash>>
      BY <1>0, <1>9, CrashDoes, IdleTyped DEF database
    <2> QED BY <1>0, <2>1, QuietLedger
  <1>10. CASE UNCHANGED vars
    BY <1>10 DEF vars, memory, database, environment, LedgerInv, Loaded, Filling, LedgerBalanced
  <1> QED BY <1>1, <1>2, <1>3, <1>4, <1>5, <1>6, <1>7, <1>8, <1>9, <1>10, NextCases

-----------------------------------------------------------------------------
(* Alone, and as long as nothing failed, memory and tables differ only in  *)
(* the order and the position that the command is at work on.              *)
AgreeInv == ~looping =>
  /\ task["command"].pc \in {"idle", "sizing"} => task["command"].trade = 0
  /\ hydrated /\ failures = 0 =>
       /\ \A o \in Orders : \/ task["command"].pc = "saving" /\ task["command"].order = o
                            \/ memOrder[o] = dbOrder[o]
       /\ \A n \in Trades : task["command"].trade = n \/ memPosition[n] = dbPosition[n]
       /\ task["command"].pc \in {"closing", "closed"} => dbPosition[task["command"].trade] = "open"

LEMMA InitAgree == Init => AgreeInv
  <1> SUFFICES ASSUME Init, ~looping PROVE AgreeInv
    BY DEF AgreeInv
  <1>1. task["command"] = Idle /\ ~hydrated
    BY DEF Init, Starting, Steady, Fresh, Tasks
  <1> QED BY <1>1, IdleTyped DEF AgreeInv

LEMMA CallAgree ==
  ASSUME Typed, ~looping, OrderInv, BookInv, LedgerInv, AgreeInv, Calls("command"),
         UNCHANGED <<hydrated, failures, looping>>
  PROVE  AgreeInv'
  <1>0. "command" \in Tasks /\ 0 \notin Trades /\ Calm
    BY BoundsAssumption DEF Tasks, Trades, Calm
  <1>1. CASE SaveOrder("command")
    <2>1. /\ task["command"].pc = "saving" /\ task["command"].order \in Orders
          /\ dbOrder' = [dbOrder EXCEPT ![task["command"].order] = task["command"].dump]
          /\ task'["command"].trade = task["command"].trade
          /\ task'["command"].pc \in {"idle", "filling"}
          /\ task'["command"].pc = "idle" => task'["command"].trade = 0
          /\ UNCHANGED <<memOrder, memPosition, dbPosition>>
      BY <1>0, <1>1, SaveOrderDoes
    <2>2. \A o \in Orders : dbOrder'[o] = IF o = task["command"].order THEN task["command"].dump
                                          ELSE dbOrder[o]
      BY <2>1 DEF Typed, TypeOK
    <2>3. memOrder[task["command"].order] = task["command"].dump
      BY <1>0, <2>1 DEF OrderInv
    <2>4. hydrated /\ failures = 0 => \A o \in Orders : memOrder'[o] = dbOrder'[o]
      BY <2>1, <2>2, <2>3 DEF AgreeInv
    <2> QED BY <2>1, <2>4 DEF AgreeInv
  <1>2. CASE FillRead("command") \/ UpsertRead("command")
    <2>1. /\ task["command"].pc \in {"filling", "marking"} /\ task'["command"].pc \in {"filled", "marked"}
          /\ task'["command"].trade = task["command"].trade
          /\ UNCHANGED <<memOrder, dbOrder, memPosition, dbPosition>>
      BY <1>0, <1>2, FillReadDoes, UpsertReadDoes DEF database
    <2> QED BY <2>1 DEF AgreeInv
  <1>3. CASE FillWrite("command")
    <2>1. /\ task["command"].pc = "filled" /\ task'["command"].pc = "marking"
          /\ task'["command"].trade = task["command"].trade
          /\ UNCHANGED <<memOrder, dbOrder, memPosition, dbPosition>>
      BY <1>0, <1>3, FillWriteDoes
    <2> QED BY <2>1 DEF AgreeInv
  <1>4. CASE UpsertWrite("command")
    <2>1. /\ task["command"].pc = "marked" /\ task["command"].trade \in Trades
          /\ dbPosition' = IF task["command"].dump = task["command"].seen THEN dbPosition
                           ELSE [dbPosition EXCEPT ![task["command"].trade] = task["command"].dump]
          /\ task'["command"].pc = "idle" /\ task'["command"].trade = 0
          /\ UNCHANGED <<memOrder, dbOrder, memPosition>>
      BY <1>0, <1>4, UpsertWriteDoes
    <2>2. /\ task["command"].dump = "open" /\ memPosition[task["command"].trade] = "open"
          /\ task["command"].seen = "none"
      BY <2>1 DEF LedgerInv
    <2>3. \A n \in Trades : dbPosition'[n] = IF n = task["command"].trade THEN "open" ELSE dbPosition[n]
      BY <2>1, <2>2 DEF Typed, TypeOK
    <2>4. hydrated /\ failures = 0 => \A n \in Trades : memPosition'[n] = dbPosition'[n]
      BY <2>1, <2>2, <2>3 DEF AgreeInv
    <2> QED BY <2>1, <2>4 DEF AgreeInv
  <1>5. CASE CloseRead("command")
    <2>1. /\ task["command"].pc = "closing" /\ UNCHANGED <<memOrder, dbOrder, memPosition, dbPosition>>
      BY <1>0, <1>5, CloseReadDoes DEF database
    <2>2. \/ /\ dbPosition[task["command"].trade] = "none" /\ task'["command"].trade = 0
             /\ task'["command"].pc \in {"idle", "sizing"}
          \/ task'["command"].trade = task["command"].trade /\ task'["command"].pc = "closed"
      BY <1>0, <1>5, CloseReadDoes
    <2> QED BY <2>1, <2>2 DEF AgreeInv
  <1>6. CASE CloseWrite("command")
    <2>1. /\ task["command"].pc = "closed" /\ task["command"].trade \in Trades
          /\ dbPosition' = IF task["command"].seen = "closed" THEN dbPosition
                           ELSE [dbPosition EXCEPT ![task["command"].trade] = "closed"]
          /\ task'["command"].pc \in {"idle", "sizing"} /\ task'["command"].trade = 0
          /\ UNCHANGED <<memOrder, dbOrder, memPosition>>
      BY <1>0, <1>6, CloseWriteDoes
    <2>2. memPosition[task["command"].trade] = "closed" /\ task["command"].seen # "closed"
      BY <1>0, <2>1 DEF BookInv, Closing, LedgerInv
    <2>3. \A n \in Trades : dbPosition'[n] = IF n = task["command"].trade THEN "closed" ELSE dbPosition[n]
      BY <2>1, <2>2 DEF Typed, TypeOK
    <2>4. hydrated /\ failures = 0 => \A n \in Trades : memPosition'[n] = dbPosition'[n]
      BY <2>1, <2>2, <2>3 DEF AgreeInv
    <2> QED BY <2>1, <2>4 DEF AgreeInv
  <1> QED BY <1>1, <1>2, <1>3, <1>4, <1>5, <1>6 DEF Calls

LEMMA NextAgree ==
  Typed /\ StartInv /\ OrderInv /\ BookInv /\ LedgerInv /\ AgreeInv /\ [Next]_vars => AgreeInv'
  <1> SUFFICES ASSUME Typed, StartInv, OrderInv, BookInv, LedgerInv, AgreeInv, [Next]_vars, ~looping'
               PROVE  AgreeInv'
    BY DEF AgreeInv
  <1>0. "command" \in Tasks /\ "loop" \in Tasks /\ ~looping /\ looping' = looping /\ AloneInv
        /\ 0 \notin Trades
    BY EnvironmentMoves, BoundsAssumption DEF Tasks, StartInv, Trades
  <1>1. ASSUME NEW o \in Orders, Draft(o) \/ CancelDraft(o) PROVE AgreeInv'
    <2>1. PICK status \in {"new", "cancelled"} :
            /\ task["command"].pc = "idle" /\ memOrder' = [memOrder EXCEPT ![o] = status]
            /\ task'["command"].pc = "saving" /\ task'["command"].order = o
            /\ task'["command"].trade = 0
            /\ UNCHANGED <<memPosition, hydrated, dbOrder, dbPosition, failures>>
      BY <1>1, OrderDoes DEF database, environment
    <2>2. \A x \in Orders : x = o \/ memOrder'[x] = memOrder[x]
      BY <2>1 DEF Typed, TypeOK
    <2> QED BY <1>0, <2>1, <2>2 DEF AgreeInv
  <1>2. ASSUME NEW o \in Orders, Fills(o) PROVE AgreeInv'
    <2>1. PICK x \in Trades :
            /\ memOrder' = [memOrder EXCEPT ![o] = "filled"]
            /\ memPosition' = [memPosition EXCEPT ![x] = "open"]
            /\ task'["command"].pc = "saving" /\ task'["command"].order = o
            /\ task'["command"].trade = x /\ task["command"].pc \in {"idle", "sizing"}
            /\ UNCHANGED <<hydrated, dbOrder, dbPosition, failures>>
      BY <1>2, FillDoes DEF Fills, database, environment
    <2>2. /\ \A y \in Orders : y = o \/ memOrder'[y] = memOrder[y]
          /\ \A n \in Trades : n = x \/ memPosition'[n] = memPosition[n]
      BY <2>1 DEF Typed, TypeOK
    <2> QED BY <1>0, <2>1, <2>2 DEF AgreeInv
  <1>3. ASSUME NEW t \in Tasks, NEW x \in Trades, NEW o \in Orders \cup {NoOrder}, Ends(t, x, o)
        PROVE  AgreeInv'
    <2>0. Close(t, x, o) /\ t = "command" /\ task["command"].pc = "idle"
      BY <1>0, <1>3 DEF Ends, Tasks
    <2>1. /\ memPosition[x] = "open" /\ memPosition' = [memPosition EXCEPT ![x] = "closed"]
          /\ task'["command"].pc = "closing" /\ task'["command"].trade = x
          /\ UNCHANGED <<memOrder, hydrated, dbOrder, dbPosition, failures>>
      BY <2>0, CloseDoes DEF database, environment
    <2>2. \A n \in Trades : n = x \/ memPosition'[n] = memPosition[n]
      BY <2>1 DEF Typed, TypeOK
    <2> QED BY <1>0, <2>0, <2>1, <2>2 DEF AgreeInv
  <1>4. CASE Rejects
    <2>1. /\ task["command"].pc = "sizing" /\ task'["command"].pc = "idle" /\ task'["command"].trade = 0
          /\ UNCHANGED <<memOrder, memPosition, hydrated, dbOrder, dbPosition, failures>>
      BY <1>0, <1>4, RestDoes DEF Rejects, database, environment
    <2> QED BY <1>0, <2>1 DEF AgreeInv
  <1>5. ASSUME NEW n \in Trades, Remarks(n) PROVE AgreeInv'
    BY <1>0, <1>5 DEF Remarks
  <1>6. ASSUME NEW t \in Tasks, Start(t) PROVE AgreeInv'
    <2>1. t = "command" /\ task["command"].pc \in Starts \cup {"idle"}
      BY <1>0, <1>6, OnlyCommand, StartDoes
    <2>2. task'["command"].pc \in Starts \cup {"idle"} /\ task'["command"].trade = 0
      BY <1>6, <2>1, StartDoes
    <2>3. CASE TakePositions(t)
      <3>1. /\ memPosition' = dbPosition /\ memOrder = dbOrder
            /\ UNCHANGED <<memOrder, dbOrder, dbPosition>>
        BY <1>0, <2>3, TakesAll, TakePositionsDoes DEF database
      <3> QED BY <2>2, <3>1 DEF AgreeInv, Starts
    <2>4. CASE ~TakePositions(t)
      <3>1. hydrated' = hydrated
        BY <1>6, <2>4 DEF Start, Initialize, Create, ListOrders, TakeOrders, ListPositions, started
      <3>2. ~hydrated
        <4>1. CASE task["command"].pc \in Starts
          BY <1>0, <4>1 DEF AloneInv
        <4>2. CASE task["command"].pc = "idle"
          <5>1. Initialize(t)
            BY <1>6, <2>1, <4>2 DEF Start, Create, ListOrders, TakeOrders, ListPositions, TakePositions, At
          <5> QED BY <1>0, <5>1 DEF Initialize, AloneInv
        <4> QED BY <2>1, <4>1, <4>2
      <3> QED BY <2>2, <3>1, <3>2 DEF AgreeInv, Starts
    <2> QED BY <2>3, <2>4
  <1>7. ASSUME NEW t \in Tasks, Calls(t) PROVE AgreeInv'
    <2>1. t = "command" /\ UNCHANGED <<hydrated, failures, looping>>
      BY <1>0, <1>7, OnlyCommand, CallDoes DEF environment
    <2> QED BY <1>0, <1>7, <2>1, CallAgree
  <1>8. ASSUME NEW t \in Tasks, Fails(t) PROVE AgreeInv'
    <2>1. t = "command"
      BY <1>0, <1>8, OnlyCommand
    <2>2. failures' # 0
      <3>1. failures \in Nat
        BY BoundsAssumption DEF Typed, TypeOK
      <3>2. \/ failures' = failures + 1
            \/ /\ task[t].pc = "marked" /\ task[t].seen = "none"
               /\ dbPosition[task[t].trade] # "none"
        BY <1>8, FailsDoes
      <3> QED BY <1>0, <2>1, <3>1, <3>2 DEF LedgerInv
    <2>3. task'["command"].pc = "idle" /\ task'["command"].trade = 0
      BY <1>8, <2>1, FailsDoes
    <2> QED BY <2>2, <2>3 DEF AgreeInv
  <1>9. CASE Crash
    <2>1. task'["command"] = Idle /\ ~hydrated'
      BY <1>0, <1>9, CrashDoes
    <2> QED BY <2>1, IdleTyped DEF AgreeInv
  <1>10. CASE UNCHANGED vars
    BY <1>10 DEF vars, memory, database, started, environment, AgreeInv
  <1> QED BY <1>1, <1>2, <1>3, <1>4, <1>5, <1>6, <1>7, <1>8, <1>9, <1>10, NextCases

-----------------------------------------------------------------------------
BooksInv == Typed /\ StartInv /\ UsedInv /\ OrderInv /\ BookInv /\ LedgerInv /\ AgreeInv

LEMMA AlwaysBooks == Spec => []BooksInv
  <1>1. Init => BooksInv
    BY InitTyped, InitStart, InitUsed, InitOrder, InitBooks, InitAgree DEF BooksInv
  <1>2. BooksInv /\ [Next]_vars => BooksInv'
    BY NextTyped, NextStart, NextUsed, NextOrder, NextBook, NextLedger, NextAgree DEF BooksInv
  <1> QED BY <1>1, <1>2, PTL DEF Spec

(* Whatever two tasks do in between each other's database calls, and       *)
(* whatever fails, no order is filled twice, no fee or profit is booked    *)
(* twice, and what the table has as closed is not open in memory, until a  *)
(* restart of both; with the command loop alone, over restarts, too.       *)
THEOREM NothingHappensTwice == Spec => []NothingTwice
  <1>1. BooksInv => NothingTwice
    <2> SUFFICES ASSUME BooksInv, Calm
                 PROVE  OneFillPerOrder /\ BookedAtMostOnce /\ ClosedStaysClosed
      BY DEF NothingTwice, Calm
    <2>1. OneFillPerOrder /\ ClosedStaysClosed /\ Fair(dbCash)
      BY DEF BooksInv, OrderInv, BookInv
    <2>2. \A e \in Entries : dbCash[e] <= 1
      BY <2>1 DEF Fair
    <2>3. \A n \in Trades : dbCash[<<"fee", n>>] = 1 => n \in dbFill
      BY <2>1 DEF Fair
    <2> QED BY <2>1, <2>2, <2>3 DEF BookedAtMostOnce
  <1> QED BY <1>1, AlwaysBooks, PTL

(* The command loop alone loses no booking and makes none twice, has a     *)
(* fill for every position, and memory and tables agree between any two    *)
(* commands, whatever crashed or failed between any two commits.           *)
THEOREM OneTaskKeepsStep == Spec => []OneTaskInStep
  <1>1. BooksInv => OneTaskInStep
    <2> SUFFICES ASSUME BooksInv, ~looping
                 PROVE  /\ LedgerBalanced
                        /\ \A n \in Trades : dbPosition[n] # "none" => n \in dbFill
                        /\ MemoryPersisted
      BY DEF OneTaskInStep
    <2>1. LedgerBalanced /\ \A n \in Trades : dbPosition[n] # "none" => n \in dbFill
      BY DEF BooksInv, LedgerInv
    <2>2. ASSUME hydrated, failures = 0, \A t \in Tasks : At(t, "idle")
          PROVE  memOrder = dbOrder /\ memPosition = dbPosition
      <3>1. task["command"].pc = "idle" /\ 0 \notin Trades
        BY <2>2, BoundsAssumption DEF At, Tasks, Trades
      <3>2. /\ \A o \in Orders : memOrder[o] = dbOrder[o]
            /\ \A n \in Trades : memPosition[n] = dbPosition[n]
        BY <2>2, <3>1 DEF BooksInv, AgreeInv
      <3>3. /\ memOrder \in [Orders -> OrderStatus] /\ dbOrder \in [Orders -> OrderStatus]
            /\ memPosition \in [Trades -> PositionStatus] /\ dbPosition \in [Trades -> PositionStatus]
        BY DEF BooksInv, Typed, TypeOK
      <3> QED BY <3>2, <3>3
    <2> QED BY <2>1, <2>2 DEF MemoryPersisted
  <1> QED BY <1>1, AlwaysBooks, PTL
=============================================================================
