----------------------------- MODULE StartBarrier -----------------------------
(***************************************************************************)
(* What `start' promises, without Link, threads or notifications: code in  *)
(* a start block runs only in a session somebody started.                  *)
(*                                                                         *)
(* `log' is the history of the session: TRUE where it was started, FALSE   *)
(* where it was stopped.  Any part of that history may have come to an     *)
(* instance when it enters; it begins when the session has been started    *)
(* since, unless the condition variable it waits on wakes it for no reason. *)
(***************************************************************************)
EXTENDS Naturals, Sequences

CONSTANTS
  Instances,
  Impatient      \* instances whose start() may return for no reason

VARIABLES
  log,      \* the history of the session
  phase,    \* phase[i]: "out" of any start block, "in" start(), or "begun"
  knows     \* knows[i]: how much of the history had come to i when it entered

vars == <<log, phase, knows>>

Init ==
  /\ log = <<>>
  /\ phase = [i \in Instances |-> "out"]
  /\ knows = [i \in Instances |-> 0]

Started(from) == \E t \in from + 1 .. Len(log) : log[t]

Moves(i, from, to) == phase[i] = from /\ phase' = [phase EXCEPT ![i] = to]

\* The session is started: only on behalf of somebody who asked for it.
StartSession(i) ==
  /\ phase[i] = "in" \/ Started(0) \/ i \in Impatient
  /\ log' = Append(log, TRUE)
  /\ UNCHANGED <<phase, knows>>

\* Leave the start block, or stop the session without having started it.
StopSession(i) ==
  /\ \/ Moves(i, "begun", "out")
     \/ phase[i] = "out" /\ UNCHANGED phase
  /\ log' = Append(log, FALSE)
  /\ UNCHANGED knows

Enter(i) ==
  /\ Moves(i, "out", "in")
  /\ \E t \in 0 .. Len(log) : knows' = [knows EXCEPT ![i] = t]
  /\ UNCHANGED log

Begin(i) ==
  /\ Moves(i, "in", "begun")
  /\ Started(knows[i]) \/ i \in Impatient
  /\ knows' = [knows EXCEPT ![i] = 0]
  /\ UNCHANGED log

\* The session plays already.
Join(i) ==
  /\ Moves(i, "out", "begun")
  /\ Started(0)
  /\ UNCHANGED <<log, knows>>

Next == \E i \in Instances :
  StartSession(i) \/ StopSession(i) \/ Enter(i) \/ Begin(i) \/ Join(i)

Spec == Init /\ [][Next]_vars
=============================================================================
