------------------------------ MODULE EventQueue ------------------------------
(***************************************************************************)
(* What docs/AGENT.md promises of the agent's buffer: events come out in    *)
(* the order they went in, none is left out, some may come out more than    *)
(* once, until something breaks the queue.                                  *)
(***************************************************************************)
EXTENDS Naturals, Sequences

CONSTANT Events

VARIABLES
  log,      \* the events recorded, oldest first
  received, \* the events the server has
  broken    \* the queue promises nothing any more

vars == <<log, received, broken>>

FirstOf(k, l) == {l[i] : i \in 1 .. k}

Init == log = <<>> /\ received = {} /\ broken = FALSE

Record ==
  /\ ~broken
  /\ \E e \in Events \ FirstOf(Len(log), log) : log' = Append(log, e)
  /\ UNCHANGED <<received, broken>>

\* Receiving an event again changes nothing and is a stutter.
Receive ==
  /\ ~broken
  /\ \E k \in 1 .. Len(log) :
       /\ received = FirstOf(k - 1, log)
       /\ received' = FirstOf(k, log)
  /\ UNCHANGED <<log, broken>>

Break ==
  /\ broken'
  /\ log' \in Seq(Events) /\ received' \subseteq Events

Next == Record \/ Receive \/ Break

Spec == Init /\ [][Next]_vars
================================================================================
