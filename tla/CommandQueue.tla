---------------------------- MODULE CommandQueue ----------------------------
(***************************************************************************)
(* What the worker_commands queue promises to the roles behind it, without *)
(* leases, cancellation or races: a command is submitted once, started     *)
(* again and again only until it is closed, and every start lets its       *)
(* handler take effect at most once.                                       *)
(***************************************************************************)
EXTENDS Naturals

CONSTANT Commands

VARIABLES phase,    \* where each command stands
          starts,   \* how many times it was handed to a worker
          effects   \* <<command, start>> of every effect of a handler

vars == <<phase, starts, effects>>

Init ==
  /\ phase = [c \in Commands |-> "absent"]
  /\ starts = [c \in Commands |-> 0]
  /\ effects = {}

Submit(c) ==
  /\ phase[c] = "absent"
  /\ phase' = [phase EXCEPT ![c] = "waiting"]
  /\ UNCHANGED <<starts, effects>>

Start(c) ==
  /\ phase[c] \in {"waiting", "active"}
  /\ phase' = [phase EXCEPT ![c] = "active"]
  /\ starts' = [starts EXCEPT ![c] = @ + 1]
  /\ UNCHANGED effects

(* The handler of an earlier start may still be running, and may take      *)
(* effect after the command was started again or closed.                   *)
TakeEffect(c, n) ==
  /\ n \in 1 .. starts[c]
  /\ <<c, n>> \notin effects
  /\ effects' = effects \cup {<<c, n>>}
  /\ UNCHANGED <<phase, starts>>

Close(c) ==
  /\ phase[c] \in {"waiting", "active"}
  /\ phase' = [phase EXCEPT ![c] = "closed"]
  /\ UNCHANGED <<starts, effects>>

Next == \E c \in Commands : \/ Submit(c) \/ Start(c) \/ Close(c)
                            \/ \E n \in 1 .. starts[c] : TakeEffect(c, n)

Spec == Init /\ [][Next]_vars
=============================================================================
