------------------------------ MODULE Interrupt ------------------------------
(***************************************************************************)
(* The Ctrl-C protocol of the interpreter: a static atomic flag            *)
(* `interrupted', a condition variable `condvar' and its mutex.            *)
(*                                                                         *)
(* sigint_handler calls issue_interrupt, which sets the flag and THEN      *)
(* notifies, without taking the mutex.  The interpreter's thread consumes  *)
(* the flag in two places: handle_potential_interrupt, called at the start *)
(* of every eval() and play(), and the end of sleep(), which waits on the  *)
(* condition variable with a time limit and no predicate.                  *)
(*                                                                         *)
(* This module holds the protocol's state and its steps; Playback composes *)
(* the steps of the main thread with what the main thread is doing.        *)
(***************************************************************************)
EXTENDS Naturals

CONSTANTS
  SeparateHandler,   \* may main thread and handler overlap? (handler on its
                     \* own thread, as on Windows, or on one of Link's threads)
  MaxHandlers,       \* bound: handlers in flight at once
  SpuriousWakeups    \* may a wait end although nobody notified it?

ASSUME InterruptAssumption ==
  /\ SeparateHandler \in BOOLEAN
  /\ MaxHandlers \in Nat \ {0}
  /\ SpuriousWakeups \in BOOLEAN

VARIABLES
  interrupted,       \* the atomic flag
  notifying,         \* handlers that set the flag and did not notify yet
  waiting            \* main thread: "no", "asleep" in wait_for, or "woken"

interruptVars == <<interrupted, notifying, waiting>>

InterruptTypeOK ==
  /\ interrupted \in BOOLEAN
  /\ notifying \in 0 .. MaxHandlers
  /\ waiting \in {"no", "asleep", "woken"}

InterruptInit ==
  /\ interrupted = FALSE
  /\ notifying = 0
  /\ waiting = "no"

-----------------------------------------------------------------------------
(* The signal handler.                                                     *)

\* A signal is blocked while its own handler runs on the same thread.
HandlersAllowed == IF SeparateHandler THEN MaxHandlers ELSE 1

SetFlag_Forgotten ==
  /\ notifying < HandlersAllowed
  /\ notifying' = notifying + 1
  /\ UNCHANGED <<interrupted, waiting>>
SetFlag ==
  /\ notifying < HandlersAllowed
  /\ interrupted' = TRUE
  /\ notifying' = notifying + 1
  /\ UNCHANGED waiting

\* notify_all reaches the main thread only if it is already in wait_for.
NotifyAll ==
  /\ notifying > 0
  /\ notifying' = notifying - 1
  /\ waiting' = IF waiting = "asleep" THEN "woken" ELSE waiting
  /\ UNCHANGED interrupted

\* What std::condition_variable allows of itself.
SpuriousWakeup ==
  /\ SpuriousWakeups
  /\ waiting = "asleep"
  /\ waiting' = "woken"
  /\ UNCHANGED <<interrupted, notifying>>

-----------------------------------------------------------------------------
(* The main thread.  Each step is completed by the module that composes it *)
(* with what happens next (the throw, the abort, the next message).        *)

\* On the main thread itself the handler runs to its end before main goes on.
MainRuns == SeparateHandler \/ notifying = 0

CheckPasses_Always == UNCHANGED interruptVars
CheckPasses == ~interrupted /\ UNCHANGED interruptVars

\* handle_potential_interrupt resets the flag and throws KeyboardInterrupt.
CheckThrows ==
  /\ interrupted
  /\ interrupted' = FALSE
  /\ UNCHANGED <<notifying, waiting>>

StartWait ==
  /\ waiting = "no"
  /\ waiting' = "asleep"
  /\ UNCHANGED <<interrupted, notifying>>

\* wait_for reports a time-out whenever its deadline has passed, even when a
\* notification ended the wait.
WaitTimesOut ==
  /\ waiting # "no"
  /\ waiting' = "no"
  /\ UNCHANGED <<interrupted, notifying>>

\* no_timeout, and the assertion that follows it holds: reset and throw.
WaitInterrupted ==
  /\ waiting = "woken"
  /\ interrupted
  /\ waiting' = "no"
  /\ interrupted' = FALSE
  /\ UNCHANGED notifying

\* no_timeout, and the assertion that follows it fails: exit(42).
WaitAsserts ==
  /\ waiting = "woken"
  /\ ~interrupted
  /\ waiting' = "no"
  /\ UNCHANGED <<interrupted, notifying>>
=============================================================================
