------------------------------- MODULE Playback -------------------------------
(***************************************************************************)
(* The interpreter's thread as far as sound is concerned: evaluation of a  *)
(* line, the builtins play, par, sim, port, note_on and note_off, the      *)
(* routine Interpreter::play with its sleeps, and the way a Ctrl-C unwinds *)
(* all of it in Runner::run.                                               *)
(*                                                                         *)
(* A program is any sequence of such calls: evaluation chooses the next    *)
(* one.  The native stack of builtin_play and builtin_par activations is   *)
(* `stack'; a KeyboardInterrupt drops it without running what the          *)
(* activations do on return.  Of a note only its MIDI number matters, of a *)
(* context only its port, and of a length only that there is a sleep.      *)
(* `manual', `hung' and `stale' are history variables: they record why a   *)
(* sounding note, or an entry of active_notes, has nobody who will remove  *)
(* it.                                                                     *)
(***************************************************************************)
EXTENDS Interrupt, Sequences, SequencesExt

CONSTANTS
  Notes,       \* MIDI note numbers, all on channel 0
  Ports,       \* MIDI output connections
  NoPort,      \* a context that was never connected: port == nullptr
  Chords,      \* chords with at least one pitched note: note -> occurrences
  MaxDepth,    \* bound: activations of play and par on the stack
  MaxBackwards \* bound: notes at once that sims of such lengths may leave

ASSUME PlaybackAssumption ==
  /\ NoPort \notin Ports
  /\ Chords \subseteq [Notes -> Nat]
  /\ MaxDepth \in Nat
  /\ MaxBackwards \in Nat

VARIABLES
  pc,          \* where the main thread is
  stack,       \* activations of builtin_play and builtin_par
  action,      \* default_action: "none" or "play"
  port,        \* current_context->port
  leaf,        \* what is playing: "none", a "rest", a "play" or a "sim"
  ons, offs,   \* messages it has yet to send: note -> occurrences
  backwards,   \* notes of the schedule with a length that is not positive
  active,      \* active_notes, a multiset: note -> occurrences
  stale,       \* notes a schedule inserted there after its last erase
  sounding,    \* the MIDI devices: what was turned on and not off
  manual,      \* sounding because of note_on
  hung         \* sounding since an interrupt did not turn it off, or a
               \* schedule sent its note-offs before the note-on

leafVars == <<leaf, ons, offs, backwards>>
noteVars == <<active, stale, sounding, manual, hung>>
vars == <<interruptVars, pc, stack, action, port, leafVars, noteVars>>

-----------------------------------------------------------------------------
(* Data.                                                                   *)

Silence == [n \in Notes |-> 0]
Support(c) == {n \in Notes : c[n] > 0}
Plus(c, d) == [n \in Notes |-> c[n] + d[n]]
Less(c, n) == [c EXCEPT ![n] = @ - 1]

PlayFrame == [op : {"play"}, port : Ports, action : {"none", "play"}]
ParFrame == [op : {"par"}, port : Ports, held : SUBSET Notes]

On(p, S) == {p} \X S

\* send_note_on and send_note_off for the notes S of the current port.
SendOn(S) ==
  /\ sounding' = sounding \cup On(port, S)
  /\ UNCHANGED <<manual, hung>>

SendOff(S) ==
  /\ sounding' = sounding \ On(port, S)
  /\ manual' = manual \ On(port, S)
  /\ hung' = hung \ On(port, S)

\* active_notes as a multiset: insert or emplace every note of a chord, erase
\* the one occurrence an iterator points to, erase a value.
Insert_Set(c) == active' = [n \in Notes |-> IF c[n] > 0 THEN 1 ELSE active[n]]
Insert_Nothing(c) == UNCHANGED active
Insert(c) == active' = Plus(active, c)

EraseOne(n) == active' = Less(active, n)

EraseAll_One(S) ==
  /\ active' = [n \in Notes |-> IF n \in S THEN active[n] - 1 ELSE active[n]]
  /\ stale' = stale \ S
EraseAll(S) ==
  /\ active' = [n \in Notes |-> IF n \in S THEN 0 ELSE active[n]]
  /\ stale' = stale \ S

\* ensure_midi_connection_available; otherwise the call is an error (NodeDone).
Connected == port # NoPort

InPlay == stack # <<>> /\ Last(stack).op = "play"
InPar == stack # <<>> /\ Last(stack).op = "par"

Init ==
  /\ InterruptInit
  /\ pc = "prompt"
  /\ stack = <<>>
  /\ action = "none"
  /\ port \in Ports \cup {NoPort}
  /\ leaf = "none" /\ ons = Silence /\ offs = Silence /\ backwards = {}
  /\ active = Silence /\ stale = {}
  /\ sounding = {} /\ manual = {} /\ hung = {}

-----------------------------------------------------------------------------
(* Evaluation.                                                             *)

Goto(from, to) == pc = from /\ MainRuns /\ pc' = to

\* A line was read and parsed: Runner::run starts to evaluate it.
ReadLine ==
  /\ Goto("prompt", "run")
  /\ UNCHANGED <<interruptVars, stack, action, port, leafVars, noteVars>>

\* eval() of one more node: its first statement looks at the flag.
EvalNode ==
  /\ Goto("run", "apply")
  /\ ~InPar
  /\ CheckPasses
  /\ UNCHANGED <<stack, action, port, leafVars, noteVars>>

\* The node was a value, an operator, or a call that failed or plays nothing.
NodeDone ==
  /\ Goto("apply", "run")
  /\ UNCHANGED <<interruptVars, stack, action, port, leafVars, noteVars>>

\* The exception leaves every activation; only Runner::run catches it.
Unwind ==
  /\ pc' = "caught"
  /\ stack' = <<>>
  /\ leaf' = "none" /\ ons' = Silence /\ offs' = Silence /\ backwards' = {}
  /\ UNCHANGED <<action, port, noteVars>>

EvalThrows ==
  /\ pc = "run" /\ MainRuns /\ ~InPar
  /\ CheckThrows
  /\ Unwind

\* Runner::run: turn_off_all_active_notes sends the note-offs to the port of
\* whatever context is current, or returns early when there is none.
CatchInterrupt ==
  /\ Goto("caught", "prompt")
  /\ IF port = NoPort
     THEN UNCHANGED <<noteVars>>
     ELSE LET off == On(port, Support(active)) IN
          /\ active' = Silence /\ stale' = {}
          /\ sounding' = sounding \ off
          /\ manual' = manual \ off
          /\ hung' = sounding \ (off \cup manual)
  /\ UNCHANGED <<interruptVars, stack, action, port, leafVars>>

\* The whole line was evaluated, to a value or to an error.
FinishLine ==
  /\ Goto("run", "prompt")
  /\ stack = <<>>
  /\ UNCHANGED <<interruptVars, stack, action, port, leafVars, noteVars>>

-----------------------------------------------------------------------------
(* Builtins that change the context or talk to the device directly.        *)

CallPort(p) ==
  /\ Goto("apply", "run")
  /\ port' = p
  /\ UNCHANGED <<interruptVars, stack, action, leafVars, noteVars>>

\* note_on and note_off do not ask for a connection and do not touch
\* active_notes.
CallNoteOn(n) ==
  /\ port # NoPort
  /\ Goto("apply", "run")
  /\ sounding' = sounding \cup On(port, {n})
  /\ manual' = manual \cup On(port, {n})
  /\ hung' = hung \ On(port, {n})
  /\ UNCHANGED <<interruptVars, stack, action, port, leafVars, active, stale>>

CallNoteOff(n) ==
  /\ port # NoPort
  /\ Goto("apply", "run")
  /\ SendOff({n})
  /\ UNCHANGED <<interruptVars, stack, action, port, leafVars, active, stale>>

\* Without one they, and sim, dereference a null pointer.
NullPort ==
  /\ port = NoPort
  /\ Goto("apply", "crashed")
  /\ UNCHANGED <<interruptVars, stack, action, port, leafVars, noteVars>>

-----------------------------------------------------------------------------
(* builtin_play and builtin_par.                                           *)

Opened_TooLate == [op |-> "play", port |-> port, action |-> "play"]
Opened == [op |-> "play", port |-> port, action |-> action]

\* The `finally' of builtin_play.
Restore_NoContext(frame) == action' = frame.action /\ UNCHANGED port
Restore(frame) == action' = frame.action /\ port' = frame.port

\* Exchange default_action, continue in a copy of the current context.
CallPlay ==
  /\ Connected
  /\ Len(stack) < MaxDepth
  /\ Goto("apply", "run")
  /\ stack' = Append(stack, Opened)
  /\ action' = "play"
  /\ UNCHANGED <<interruptVars, port, leafVars, noteVars>>

\* builtin_play returns, a value or an error.  If builtin_par called it, par goes on.
ReturnPlay ==
  /\ InPlay
  /\ Goto("run", "run")
  /\ stack' = Front(stack)
  /\ Restore(Last(stack))
  /\ UNCHANGED <<interruptVars, leafVars, noteVars>>

\* Turn the first argument on, then builtin_play on the others.
CallPar(c) ==
  /\ Connected
  /\ Len(stack) + 1 < MaxDepth
  /\ Goto("apply", "run")
  /\ SendOn(Support(c))
  /\ Insert(c)
  /\ stack' = Append(Append(stack, [op |-> "par", port |-> port, held |-> Support(c)]),
                     Opened)
  /\ action' = "play"
  /\ UNCHANGED <<interruptVars, port, leafVars, stale>>

\* The rest of builtin_par: erase(value) removes every occurrence.
ReturnPar ==
  /\ InPar
  /\ Goto("run", "run")
  /\ LET held == Last(stack).held IN
     /\ SendOff(held)
     /\ EraseAll(held)
  /\ stack' = Front(stack)
  /\ UNCHANGED <<interruptVars, action, port, leafVars>>

-----------------------------------------------------------------------------
(* Interpreter::play and the last part of builtin_sim.                     *)

\* Who calls Interpreter::play: par with a single argument, sequential_play,
\* or the default action of a sequence.
PlayMusic ==
  /\ Connected
  /\ \/ pc = "apply"
     \/ pc = "run" /\ InPlay
     \/ pc = "run" /\ ~InPar /\ action = "play"
  /\ MainRuns
  /\ pc' = "enter"
  /\ UNCHANGED <<interruptVars, stack, action, port, leafVars, noteVars>>

EnterThrows ==
  /\ pc = "enter" /\ MainRuns
  /\ CheckThrows
  /\ Unwind

\* A chord without pitched notes is a sleep.
EnterRest ==
  /\ Goto("enter", "leaf")
  /\ CheckPasses
  /\ leaf' = "rest"
  /\ UNCHANGED <<stack, action, port, ons, offs, backwards, noteVars>>

\* All notes go on at once; the note-offs follow, one by one.
EnterChord(c) ==
  /\ Goto("enter", "leaf")
  /\ CheckPasses
  /\ leaf' = "play" /\ offs' = c
  /\ SendOn(Support(c))
  /\ Insert(c)
  /\ UNCHANGED <<stack, action, port, ons, backwards, stale>>

\* builtin_sim looks neither at the connection nor at the flag before it plays
\* its schedule, nor at the sign of a length: the notes `b' have one that is
\* negative or zero.
CallSim(c, b) ==
  /\ port # NoPort
  /\ Cardinality(stale \cup b) <= MaxBackwards
  /\ Goto("apply", "leaf")
  /\ leaf' = "sim" /\ ons' = c /\ offs' = c /\ backwards' = b
  /\ UNCHANGED <<interruptVars, stack, action, port, noteVars>>

Pending == Support(ons) \cup Support(offs)

LeafSleep ==
  /\ Goto("leaf", "wait")
  /\ leaf = "rest" \/ Pending # {}
  /\ StartWait
  /\ UNCHANGED <<stack, action, port, leafVars, noteVars>>

LeafAwakes ==
  /\ Goto("wait", "awake")
  /\ WaitTimesOut
  /\ UNCHANGED <<stack, action, port, leafVars, noteVars>>

LeafThrows ==
  /\ pc = "wait" /\ MainRuns
  /\ WaitInterrupted
  /\ Unwind

LeafAsserts ==
  /\ Goto("wait", "aborted")
  /\ WaitAsserts
  /\ UNCHANGED <<stack, action, port, leafVars, noteVars>>

Awake == pc \in {"leaf", "awake"} /\ MainRuns /\ pc' = "leaf"

\* A note-on whose note-offs have all been sent has nobody to take it back.
SimOn(n) ==
  /\ leaf = "sim" /\ Awake
  /\ ons[n] > 0
  /\ ons' = Less(ons, n)
  /\ sounding' = sounding \cup On(port, {n})
  /\ Insert([m \in Notes |-> IF m = n THEN 1 ELSE 0])
  /\ LET left == IF offs[n] = 0 THEN {n} ELSE {} IN
     /\ hung' = hung \cup On(port, left)
     /\ stale' = stale \cup left
  /\ UNCHANGED <<interruptVars, stack, action, port, leaf, offs, backwards, manual>>

\* The schedule is sorted by time alone, and a note-off is placed at the end of
\* its note, which is not after its start when the length is not positive.
SimOff(n) ==
  /\ leaf = "sim" /\ Awake
  /\ offs[n] > (IF n \in backwards THEN 0 ELSE ons[n])
  /\ SendOff({n})
  /\ offs' = Less(offs, n)
  /\ EraseAll({n})
  /\ UNCHANGED <<interruptVars, stack, action, port, leaf, ons, backwards>>

\* play() erases the one occurrence lower_bound finds.
PlayOff(n) ==
  /\ leaf = "play" /\ Awake
  /\ offs[n] > 0
  /\ SendOff({n})
  /\ offs' = Less(offs, n)
  /\ EraseOne(n)
  /\ UNCHANGED <<interruptVars, stack, action, port, leaf, ons, backwards, stale>>

LeafDone ==
  /\ pc \in {"leaf", "awake"} /\ MainRuns
  /\ leaf = "rest" => pc = "awake"
  /\ Pending = {}
  /\ pc' = "run"
  /\ leaf' = "none" /\ backwards' = {}
  /\ UNCHANGED <<interruptVars, stack, action, port, ons, offs, noteVars>>

-----------------------------------------------------------------------------
Handler ==
  /\ pc \notin {"aborted", "crashed"}
  /\ SetFlag \/ NotifyAll \/ SpuriousWakeup
  /\ UNCHANGED <<pc, stack, action, port, leafVars, noteVars>>

\* What the main thread does of itself, once it was given a line.
Evaluate ==
  \/ EvalNode \/ NodeDone \/ EvalThrows \/ CatchInterrupt \/ FinishLine
  \/ \E p \in Ports : CallPort(p)
  \/ \E n \in Notes : CallNoteOn(n) \/ CallNoteOff(n)
  \/ NullPort
  \/ CallPlay \/ ReturnPlay \/ ReturnPar
  \/ \E c \in Chords : CallPar(c) \/ EnterChord(c)
  \/ \E c \in Chords : \E b \in SUBSET Support(c) : CallSim(c, b)
  \/ PlayMusic \/ EnterThrows \/ EnterRest
  \/ LeafSleep \/ LeafAwakes \/ LeafThrows \/ LeafAsserts \/ LeafDone
  \/ \E n \in Notes : SimOn(n) \/ SimOff(n) \/ PlayOff(n)

\* exit(42) of a failed assertion, or the end of a crashed process.
Dead == pc \in {"aborted", "crashed"} /\ UNCHANGED vars

Next == ReadLine \/ Evaluate \/ Handler \/ Dead

Spec == Init /\ [][Next]_vars

\* Sleeps end, evaluation goes on, a handler that started finishes.  Nobody
\* has to type a line or to press Ctrl-C.
FairSpec ==
  /\ Spec
  /\ WF_vars(Evaluate)
  /\ WF_vars(NotifyAll /\ UNCHANGED <<pc, stack, action, port, leafVars, noteVars>>)
-----------------------------------------------------------------------------
(* Properties.                                                             *)

Frame == PlayFrame \cup ParFrame

\* Every variable has its type, a part of IInv: among other things no counter of active_notes
\* or of pending messages goes below zero.
TypeOK ==
  /\ InterruptTypeOK
  /\ pc \in {"prompt", "run", "apply", "enter", "leaf", "wait", "awake",
             "caught", "aborted", "crashed"}
  /\ stack \in Seq(Frame)
  /\ action \in {"none", "play"}
  /\ port \in Ports \cup {NoPort}
  /\ leaf \in {"none", "rest", "play", "sim"}
  /\ ons \in [Notes -> Nat] /\ offs \in [Notes -> Nat]
  /\ backwards \subseteq Notes
  /\ active \in [Notes -> Nat] /\ stale \subseteq Notes
  /\ sounding \subseteq Ports \X Notes
  /\ manual \subseteq sounding /\ hung \subseteq sounding

\* A par whose remaining arguments play will turn note n of port p off.
HeldBy(p, n) == \E i \in 1 .. Len(stack) :
  stack[i].op = "par" /\ stack[i].port = p /\ n \in stack[i].held

\* No note is left on: whatever sounds will be turned off, on the port it was
\* turned on, by a par that is still on the stack or by the chord or schedule
\* that plays, unless note_on asked for it, a Ctrl-C threw its par away, or a
\* sim with a length that is not positive turned it off before it turned it on.
\* So at the prompt, after errors as after values, nothing else sounds.
SoundIsOwned ==
  pc # "caught" => \A p \in Ports, n \in Notes :
    <<p, n>> \in sounding =>
      \/ HeldBy(p, n)
      \/ p = port /\ offs[n] > 0
      \/ <<p, n>> \in manual \cup hung

\* An entry of active_notes belongs to a par, chord or schedule that will erase
\* it, so at the prompt the multiset is empty, but for what a sim inserted after
\* it had erased it (a length that is not positive).
ActiveIsOwned ==
  pc # "caught" => \A n \in Notes :
    active[n] > 0 => offs[n] > 0 \/ n \in stale \/ \E p \in Ports : HeldBy(p, n)

\* The iterator play() erases is never end(): par's and sim's erase(value), which
\* remove all occurrences, never take away one play() still counts on.
EraseFindsNote ==
  leaf = "play" => \A n \in Notes : active[n] >= offs[n]

\* A part of IInv.  turn_off_all_active_notes never takes its early return with
\* notes to turn off: while a note is active or sounds the current context is
\* connected.
TurnOffIsConnected == Support(active) # {} \/ sounding # {} => port # NoPort

\* The invariant sequential_play's comment states: inside play the default action
\* is to play, however par and play nest and return.  It follows from IInv.
DefaultActionIsPlay == InPlay => action = "play"

\* What the control state says of the rest, and how activations nest: par is on
\* top of the stack only between the return of its play and its own, it calls
\* play on the port it turned its notes on, and inside play the default action
\* is play at every level.
Control ==
  /\ waiting # "no" => pc = "wait"
  /\ leaf # "none" => pc \in {"leaf", "wait", "awake", "aborted"}
  /\ pc \in {"leaf", "wait", "awake"} => leaf # "none"
  /\ leaf # "sim" => ons = Silence /\ backwards = {}
  /\ leaf \in {"none", "rest"} => offs = Silence
  /\ \A n \in Notes \ backwards : ons[n] <= offs[n]
  /\ stack # <<>> \/ leaf # "none" \/ pc = "enter" => port # NoPort
  /\ pc \in {"prompt", "caught"} => stack = <<>>
  /\ InPar => pc = "run"

Nesting ==
  /\ \A i \in 1 .. Len(stack) : stack[i].op = "par" =>
       IF i = Len(stack) THEN stack[i].port = port
       ELSE stack[i + 1].op = "play" /\ stack[i + 1].port = stack[i].port
  /\ \A i \in 1 .. Len(stack) : stack[i].op = "play" =>
       /\ action = "play"
       /\ \A j \in i + 1 .. Len(stack) : stack[j].op = "play" => stack[j].action = "play"

\* What play() leaves in active_notes once its chord is over belongs to a par,
\* or was left by a sim.
SurplusIsHeld ==
  leaf = "play" => \A n \in Notes :
    active[n] > offs[n] => n \in stale \/ \E p \in Ports : HeldBy(p, n)

\* The inductive invariant behind the properties of this module.
IInv ==
  /\ TypeOK /\ Control /\ Nesting
  /\ SoundIsOwned /\ ActiveIsOwned /\ SurplusIsHeld
  /\ EraseFindsNote /\ TurnOffIsConnected

\* The port and default action of the outermost level: the ones the outermost
\* play saved.  Below it there can only be the par that called it.
TopLevel ==
  CASE stack = <<>> \/ (Len(stack) = 1 /\ InPar) -> <<port, action>>
    [] stack # <<>> /\ stack[1].op = "play" -> <<stack[1].port, stack[1].action>>
    [] OTHER -> <<stack[2].port, stack[2].action>>

\* play and par leave the outermost context and default action as they found
\* them, whatever port the played code selects: they change by a call of port at
\* the outermost level, or when a Ctrl-C skips the `finally' of builtin_play.
TopLevelIsRestored ==
  [][ TopLevel' # TopLevel =>
        \/ pc' = "caught"
        \/ stack = <<>> /\ stack' = <<>> /\ action' = action ]_vars

\* Once Runner::run has caught a Ctrl-C, only what note_on started still sounds:
\* neither the par, chord or schedule it broke off nor anything a sim of an
\* earlier line left.  With two ports this is refuted (README, section 6).
InterruptSilences ==
  [][ pc = "caught" /\ pc' = "prompt" => sounding' \subseteq manual' ]_vars

\* Refuted (README, section 6).  A line that was not interrupted leaves nothing
\* sounding, and nothing in active_notes, but what note_on asked for.
LineEndsInSilence ==
  [][ pc = "run" /\ pc' = "prompt" =>
        sounding' \subseteq manual' /\ Support(active') = {} ]_vars

\* sleep() asserts that only an interrupt ends its wait before the time is over.
OnlyInterruptsEndSleep == pc # "aborted"

\* Refuted (README, section 6).  sleep() lasts for the given time or until an
\* interrupt: a main thread that is asleep was not interrupted.
SleepsUntilInterrupt == waiting = "asleep" /\ interrupted => notifying > 0

\* Refuted (README, section 6).  The first argument of par sounds for as long as the
\* others play: no note they play turns it off.
ParSustains ==
  [][ leaf # "none" => \A i \in DOMAIN stack : stack[i].op = "par" =>
        On(stack[i].port, stack[i].held) \cap sounding \subseteq sounding' ]_vars

\* A Ctrl-C during a line brings the prompt back, whatever loop or sleep the line
\* is in (or ends the process).
InterruptReturnsToPrompt ==
  interrupted /\ pc # "prompt" ~> pc \in {"prompt", "aborted", "crashed"}
=============================================================================
