-------------------------------- MODULE Starter --------------------------------
(***************************************************************************)
(* Starter::start and Starter::stop: musique instances on one network that *)
(* begin to play together.                                                 *)
(*                                                                         *)
(* start() returns at once if the session plays.  Otherwise it makes a     *)
(* State, registers a callback with Link, spawns a detached thread that    *)
(* starts the session when it has seen the phase of a bar be zero twice,   *)
(* and waits, without a predicate, for a notification through its State:   *)
(* from the thread, or from the callback when somebody else started the    *)
(* session.  stop() stops the session; Runner::run also calls it after a   *)
(* Ctrl-C, whether start() was called or not.                              *)
(*                                                                         *)
(* The k-th State of an instance is number k; the thread and the callback  *)
(* of an earlier call may outlive the call, and a call of the callback that *)
(* Link decided on before start() registered its own reaches the new one.  *)
(***************************************************************************)
EXTENDS Link, FiniteSetsExt

CONSTANTS
  MaxStarts,         \* bound: calls of start() that wait, of all instances
  MaxCommits,        \* bound: commits before which a session that plays is joined
                     \* and a Ctrl-C elsewhere stops it
  Impatient          \* instances whose wait may end although nobody notified it

ASSUME StarterAssumption ==
  /\ MaxStarts \in Nat /\ MaxCommits \in Nat
  /\ Impatient \subseteq Instances

VARIABLES
  main,       \* main[i]: where the main thread of i is
  states,     \* states[i]: how many States were made
  callback,   \* callback[i]: State the registered callback holds, 0 for none
  thread,     \* thread[i][k]: where the start thread of State k is
  stopped,    \* stopped[i][k]: State::stop
  seen,       \* history: reported[i] when start() looked at the session
  looked      \* history: client[i], the state start() looked at

callVars == <<seen, looked>>
starterVars == <<main, states, callback, thread, stopped, callVars>>
vars == <<linkVars, starterVars>>

Calls == 1 .. MaxStarts

StarterTypeOK ==
  /\ main \in [Instances -> {"idle", "register", "spawn", "lock", "waiting", "woken", "playing"}]
  /\ states \in [Instances -> 0 .. MaxStarts]
  /\ callback \in [Instances -> 0 .. MaxStarts]
  /\ thread \in [Instances -> [Calls -> {"none", "loop", "commit", "notify", "stop", "done"}]]
  /\ stopped \in [Instances -> [Calls -> BOOLEAN]]
  /\ seen \in [Instances -> 0 .. Len(log)]
  /\ looked \in [Instances -> 0 .. Len(log)]

Init ==
  /\ LinkInit
  /\ main = [i \in Instances |-> "idle"]
  /\ states = [i \in Instances |-> 0]
  /\ callback = [i \in Instances |-> 0]
  /\ thread = [i \in Instances |-> [k \in Calls |-> "none"]]
  /\ stopped = [i \in Instances |-> [k \in Calls |-> FALSE]]
  /\ seen = [i \in Instances |-> 0]
  /\ looked = [i \in Instances |-> 0]

\* notify_all on the condition variable of State k: it reaches the main thread
\* only if that already waits on the same State.
Notified_AnyState(i, k) == IF main[i] = "waiting" THEN "woken" ELSE main[i]
Notified(i, k) == IF main[i] = "waiting" /\ states[i] = k THEN "woken" ELSE main[i]

Notify(i, k) == main' = [main EXCEPT ![i] = Notified(i, k)]

MainGoes(i, from, to) == main[i] = from /\ main' = [main EXCEPT ![i] = to]

-----------------------------------------------------------------------------
(* The main thread.                                                        *)

\* start(): the session plays already.
StartContinues(i) ==
  /\ IsPlaying(i)
  /\ Len(log) <= MaxCommits
  /\ MainGoes(i, "idle", "playing")
  /\ UNCHANGED <<linkVars, states, callback, thread, stopped, callVars>>

\* start(): it does not; make a State.
StartWaits(i) ==
  /\ ~IsPlaying(i)
  /\ states[i] < MaxStarts
  /\ MapThenSumSet(LAMBDA j : states[j], Instances) < MaxStarts
  /\ MainGoes(i, "idle", "register")
  /\ states' = [states EXCEPT ![i] = @ + 1]
  /\ seen' = [seen EXCEPT ![i] = reported[i]]
  /\ looked' = [looked EXCEPT ![i] = client[i]]
  /\ UNCHANGED <<linkVars, callback, thread, stopped>>

\* setStartStopCallback waits for a callback that runs, but not for one that is
\* about to be called.
Register(i) ==
  /\ link[i] # "stop"
  /\ MainGoes(i, "register", "spawn")
  /\ callback' = [callback EXCEPT ![i] = states[i]]
  /\ UNCHANGED <<linkVars, states, thread, stopped, callVars>>

Spawn(i) ==
  /\ MainGoes(i, "spawn", "lock")
  /\ thread' = [thread EXCEPT ![i][states[i]] = "loop"]
  /\ UNCHANGED <<linkVars, states, callback, stopped, callVars>>

\* Lock the mutex of the State, which only the main thread takes, and wait.
Wait(i) ==
  /\ MainGoes(i, "lock", "waiting")
  /\ UNCHANGED <<linkVars, states, callback, thread, stopped, callVars>>

SpuriousWakeup(i) ==
  /\ i \in Impatient
  /\ MainGoes(i, "waiting", "woken")
  /\ UNCHANGED <<linkVars, states, callback, thread, stopped, callVars>>

StartReturns(i) ==
  /\ MainGoes(i, "woken", "playing")
  /\ seen' = [seen EXCEPT ![i] = 0] /\ looked' = [looked EXCEPT ![i] = 0]
  /\ UNCHANGED <<linkVars, states, callback, thread, stopped>>

\* The end of builtin_start, whatever its code returned, and the end of a line
\* that a Ctrl-C interrupted in it.
Stop(i) ==
  /\ MainGoes(i, "playing", "idle")
  /\ Commit(i, FALSE)
  /\ UNCHANGED <<states, callback, thread, stopped, callVars>>

\* A Ctrl-C interrupted a line that had nothing to do with start().
StopOther(i) ==
  /\ main[i] = "idle"
  /\ Len(log) < MaxCommits
  /\ Commit(i, FALSE)
  /\ UNCHANGED starterVars

-----------------------------------------------------------------------------
(* The start thread of State k.                                            *)

ThreadGoes(i, k, from, to) ==
  thread[i][k] = from /\ thread' = [thread EXCEPT ![i][k] = to]

\* The loop's condition, and its body up to the commit: how often and when the
\* thread sees phase zero is left open.
ThreadEnds(i, k) ==
  /\ stopped[i][k]
  /\ ThreadGoes(i, k, "loop", "done")
  /\ UNCHANGED <<linkVars, main, states, callback, stopped, callVars>>

ThreadDecides(i, k) ==
  /\ ~stopped[i][k]
  /\ ThreadGoes(i, k, "loop", "commit")
  /\ UNCHANGED <<linkVars, main, states, callback, stopped, callVars>>

ThreadCommits(i, k) ==
  /\ ThreadGoes(i, k, "commit", "notify")
  /\ Commit(i, TRUE)
  /\ UNCHANGED <<main, states, callback, stopped, callVars>>

ThreadNotifies_Nobody(i, k) ==
  /\ ThreadGoes(i, k, "notify", "stop")
  /\ UNCHANGED <<linkVars, main, states, callback, stopped, callVars>>
ThreadNotifies(i, k) ==
  /\ ThreadGoes(i, k, "notify", "stop")
  /\ Notify(i, k)
  /\ UNCHANGED <<linkVars, states, callback, stopped, callVars>>

ThreadStops(i, k) ==
  /\ ThreadGoes(i, k, "stop", "done")
  /\ stopped' = [stopped EXCEPT ![i][k] = TRUE]
  /\ UNCHANGED <<linkVars, main, states, callback, callVars>>

-----------------------------------------------------------------------------
(* The Link thread: it calls the callback when the state changed.          *)

LinkHandles(i) == HandleCommit(i) /\ UNCHANGED starterVars

LinkHears(i) == Hear(i) /\ UNCHANGED starterVars

LinkDecides(i) == Decide(i) /\ UNCHANGED starterVars

\* The callback that is registered by now is called.  It does nothing when the
\* session was stopped; else it notifies first and sets `stop' afterwards.
Callback_Always(i) ==
  /\ link[i] = "call"
  /\ IF callback[i] # 0
     THEN /\ Notify(i, callback[i])
          /\ LinkGoes(i, "call", "stop") /\ UNCHANGED reported
     ELSE Finish(i) /\ UNCHANGED main
  /\ UNCHANGED <<log, client, session, jobs, sent, told>>
  /\ UNCHANGED <<states, callback, thread, stopped, callVars>>
Callback(i) ==
  /\ link[i] = "call"
  /\ IF told[i] /\ callback[i] # 0
     THEN /\ Notify(i, callback[i])
          /\ LinkGoes(i, "call", "stop") /\ UNCHANGED reported
     ELSE Finish(i) /\ UNCHANGED main
  /\ UNCHANGED <<log, client, session, jobs, sent, told>>
  /\ UNCHANGED <<states, callback, thread, stopped, callVars>>

CallbackStops_Forgotten(i) ==
  /\ link[i] = "stop"
  /\ Finish(i)
  /\ UNCHANGED <<log, client, session, jobs, sent, told, starterVars>>
CallbackStops(i) ==
  /\ link[i] = "stop"
  /\ stopped' = [stopped EXCEPT ![i][callback[i]] = TRUE]
  /\ Finish(i)
  /\ UNCHANGED <<log, client, session, jobs, sent, told>>
  /\ UNCHANGED <<main, states, callback, thread, callVars>>

-----------------------------------------------------------------------------
MainStep(i) ==
  \/ StartContinues(i) \/ StartWaits(i) \/ Register(i) \/ Spawn(i) \/ Wait(i)
  \/ StartReturns(i) \/ Stop(i)

ThreadStep(i, k) ==
  \/ ThreadEnds(i, k) \/ ThreadDecides(i, k)
  \/ ThreadCommits(i, k) \/ ThreadNotifies(i, k) \/ ThreadStops(i, k)

LinkStep(i) ==
  LinkHandles(i) \/ LinkHears(i) \/ LinkDecides(i) \/ Callback(i) \/ CallbackStops(i)

Next == \E i \in Instances :
  \/ MainStep(i) \/ SpuriousWakeup(i) \/ StopOther(i) \/ LinkStep(i)
  \/ \E k \in Calls : ThreadStep(i, k)

Spec == Init /\ [][Next]_vars

\* Threads are scheduled and a thread that keeps looking sees the phase be zero.
\* A call that started goes on; nobody has to call start(), and a message of a
\* peer may never arrive.
FairSpec ==
  /\ Spec
  /\ \A i \in Instances :
       /\ WF_vars(Register(i) \/ Spawn(i) \/ Wait(i) \/ StartReturns(i) \/ Stop(i))
       /\ WF_vars(LinkHandles(i) \/ LinkDecides(i) \/ Callback(i) \/ CallbackStops(i))
       /\ \A k \in Calls : WF_vars(ThreadStep(i, k))
-----------------------------------------------------------------------------
(* Properties.                                                             *)

\* Every variable has its type.
TypeOK == LinkTypeOK /\ StarterTypeOK

\* start() returns only because somebody started the session after the last state
\* that Link's thread was through with when start() looked: a stop, a start it was
\* told of before, or the notification of an earlier call's thread never wakes it.
\* What Link's thread is through with is what start() looks at, unless that thread
\* is at work or has commits of this instance to handle (LinkIsThrough).
Patient == Instances \ Impatient
StartedSince(n) == \E t \in n + 1 .. Len(log) : log[t]
WokenByStart == \A i \in Patient : main[i] = "woken" => StartedSince(seen[i])

\* A start thread that may still start the session belongs to the call that
\* waits: when start() has returned, its thread has been told to stop, or is
\* being told.
Counting(i, k) == thread[i][k] = "loop" /\ ~stopped[i][k]
CountsForTheCaller == \A i \in Patient, k \in Calls :
  Counting(i, k) =>
    \/ k = states[i] /\ main[i] \in {"lock", "waiting"}
    \/ callback[i] = k /\ link[i] = "stop"

\* Starter implements StartBarrier: seen from outside, start() is one step that
\* is taken only in a session that was started since, unless its wait ended for no
\* reason; whoever that happens to, it does not end the wait of another instance.
Phase(i) ==
  CASE main[i] = "idle" -> "out"
    [] main[i] = "playing" -> "begun"
    [] OTHER -> "in"

Barrier == INSTANCE StartBarrier WITH
  phase <- [i \in Instances |-> Phase(i)],
  knows <- seen

ImplementsBarrier == Barrier!Spec

\* What start() looks at, the client state, is the session state, or the last commit that
\* Link's thread has yet to handle; so once that thread is idle with nothing to handle, it
\* is what the thread was through with last.
ClientIsKnown == \A i \in Instances :
  \/ client[i] = session[i]
  \/ jobs[i] # <<>> /\ client[i] = jobs[i][Len(jobs[i])] /\ client[i] > session[i]
LinkIsThrough == \A i \in Instances :
  link[i] = "idle" /\ jobs[i] = <<>> => reported[i] = client[i]

\* The inductive invariant behind these.  What Link's thread is through with is not newer
\* than the session state, and the callback was told of it, so that a call of the callback
\* with TRUE is about a later start; what it was through with when start() looked is not
\* newer than what it is through with now.  A State has no thread before its call spawns
\* one, and that thread notifies when it has started the session; whoever has decided to
\* start it, or was told that it plays, was asked to, or comes after a start.
ReportedInOrder == \A i \in Instances :
  /\ reported[i] <= session[i]
  /\ link[i] = "idle" => reported[i] = session[i]

ToldOfReported == \A i \in Instances :
  /\ client[i] = reported[i] => told[i] = Plays(reported[i])
  /\ link[i] \in {"call", "stop"} /\ client[i] = session[i] => told[i] = Plays(session[i])
  /\ link[i] = "call" /\ told[i] => StartedSince(reported[i])

LinkInv == LinkTypeOK /\ ClientIsKnown /\ ReportedInOrder /\ ToldOfReported

SeenIsOld == \A i \in Instances : seen[i] <= reported[i]

Spawned(i, k) ==
  k < states[i] \/ (k = states[i] /\ main[i] \notin {"register", "spawn"})
ThreadsAreSpawned == \A i \in Instances, k \in Calls :
  thread[i][k] # "none" => Spawned(i, k)

NotifiesOfStart == \A i \in Instances, k \in Calls :
  k = states[i] /\ thread[i][k] = "notify" => StartedSince(seen[i])

StartsAreAskedFor ==
  /\ \A i \in Patient, k \in Calls :
       thread[i][k] = "commit" => Phase(i) = "in" \/ StartedSince(0)
  /\ \A i \in Instances : link[i] = "stop" => StartedSince(0)

IInv ==
  /\ LinkInv
  /\ StarterTypeOK /\ SeenIsOld /\ ThreadsAreSpawned /\ NotifiesOfStart /\ StartsAreAskedFor
  /\ WokenByStart /\ CountsForTheCaller

\* A main thread that waits while its start thread still counts is going to be
\* woken, by the thread or by the callback; unless the callback came first, and is
\* just about to stop the thread.
CountedWaitEnds == \A i \in Instances :
  main[i] = "waiting" /\ Counting(i, states[i]) /\ link[i] # "stop"
    ~> main[i] # "waiting"

\* Refuted (README, section 6).  start() returns only because the session was started
\* after the state it looked at.  A start that was committed before a stop, but is
\* handled by Link's thread after it, or a call of the callback that was decided on
\* before, wakes it too: the second of two start blocks in a row.
StartedSinceItLooked == \A i \in Patient : main[i] = "woken" => StartedSince(looked[i])

\* Refuted (README, section 6).  The fragment of code is begun together with the
\* connected instances (builtin_functions.cc:1631): start() returns in each of them.
StartReturnsAtLast == \A i \in Instances :
  main[i] = "register" ~> main[i] = "playing"
=============================================================================
