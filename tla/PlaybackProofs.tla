---------------------------- MODULE PlaybackProofs ----------------------------
(***************************************************************************)
(* Proofs about Playback, for every set of notes, ports and chords and     *)
(* every nesting depth.                                                    *)
(***************************************************************************)
EXTENDS Playback, SequenceTheorems, TLAPS

-----------------------------------------------------------------------------
(* The stack of activations.                                               *)

LEMMA PushIsAppend ==
  ASSUME NEW S, NEW s \in Seq(S), NEW x \in S
  PROVE  /\ Append(s, x) \in Seq(S)
         /\ Len(Append(s, x)) = Len(s) + 1
         /\ \A i \in 1 .. Len(s) : Append(s, x)[i] = s[i]
         /\ Append(s, x)[Len(s) + 1] = x
         /\ Append(s, x) # <<>>
  BY AppendProperties

LEMMA PopIsFront ==
  ASSUME NEW S, NEW s \in Seq(S), s # <<>>
  PROVE  /\ Len(s) \in Nat \ {0}
         /\ Last(s) = s[Len(s)] /\ Last(s) \in S
         /\ Front(s) \in Seq(S)
         /\ Len(Front(s)) = Len(s) - 1
         /\ \A i \in 1 .. Len(s) - 1 : Front(s)[i] = s[i]
<1>1. Len(s) \in Nat \ {0}
  BY EmptySeq, LenProperties
<1>2. Last(s) = s[Len(s)] /\ Last(s) \in S
  BY <1>1, ElementOfSeq DEF Last
<1> DEFINE n == Len(s) - 1
<1>3. 1 \in Int /\ n \in Int /\ \A i \in 1 .. n : s[i] \in S
  BY <1>1, ElementOfSeq
<1>4. /\ SubSeq(s, 1, n) \in Seq(S)
      /\ Len(SubSeq(s, 1, n)) = IF 1 <= n THEN n - 1 + 1 ELSE 0
      /\ \A i \in 1 .. n - 1 + 1 : SubSeq(s, 1, n)[i] = s[1 + i - 1]
  <2>1. ASSUME NEW m \in Int, NEW k \in Int, \A i \in m .. k : s[i] \in S
        PROVE  /\ SubSeq(s, m, k) \in Seq(S)
               /\ Len(SubSeq(s, m, k)) = IF m <= k THEN k - m + 1 ELSE 0
               /\ \A i \in 1 .. k - m + 1 : SubSeq(s, m, k)[i] = s[m + i - 1]
    BY <2>1, SubSeqProperties
  <2> HIDE DEF n
  <2> QED  BY <1>3, <2>1
<1>5. /\ Len(SubSeq(s, 1, n)) = n
      /\ \A i \in 1 .. n : SubSeq(s, 1, n)[i] = s[i]
  <2> n \in Nat  BY <1>1
  <2> HIDE DEF n
  <2> QED  BY <1>4
<1> QED
  BY <1>1, <1>2, <1>4, <1>5 DEF Front

-----------------------------------------------------------------------------
(* Steps that change no sound, no activation and no context.               *)

Quiet == UNCHANGED <<stack, action, port, leafVars, noteVars>>

\* Where such a step leads, the control state still agrees with the rest.
LEMMA QuietStep ==
  ASSUME IInv, Quiet, InterruptTypeOK',
         pc' \in {"prompt", "run", "apply", "enter", "leaf", "wait", "awake",
                  "caught", "aborted", "crashed"},
         Control', pc = "caught" => pc' = "caught"
  PROVE  IInv'
<1>1. TypeOK'
  BY DEF IInv, TypeOK, Quiet, leafVars, noteVars
<1>2. Nesting'
  BY DEF IInv, Nesting, Quiet
<1>3. SoundIsOwned' /\ ActiveIsOwned'
  BY DEF IInv, SoundIsOwned, ActiveIsOwned, HeldBy, Quiet, leafVars, noteVars
<1>4. EraseFindsNote' /\ SurplusIsHeld' /\ TurnOffIsConnected'
  BY DEF IInv, EraseFindsNote, SurplusIsHeld, HeldBy, TurnOffIsConnected, Support,
         Quiet, leafVars, noteVars
<1> QED
  BY <1>1, <1>2, <1>3, <1>4 DEF IInv

LEMMA QuietActions ==
  ASSUME IInv,
         \/ ReadLine \/ EvalNode \/ NodeDone \/ FinishLine \/ NullPort
         \/ PlayMusic \/ LeafSleep \/ LeafAwakes \/ LeafAsserts \/ Handler \/ Dead
  PROVE  IInv'
<1> USE InterruptAssumption
<1> USE DEF IInv, TypeOK, InterruptTypeOK, Control, InPar, Quiet, Goto
<1>1. CASE ReadLine
  BY <1>1, QuietStep DEF ReadLine, interruptVars, leafVars
<1>2. CASE EvalNode
  BY <1>2, QuietStep DEF EvalNode, CheckPasses, interruptVars, leafVars
<1>3. CASE NodeDone
  BY <1>3, QuietStep DEF NodeDone, interruptVars, leafVars
<1>4. CASE FinishLine
  BY <1>4, QuietStep DEF FinishLine, interruptVars, leafVars
<1>5. CASE NullPort
  BY <1>5, QuietStep DEF NullPort, interruptVars, leafVars
<1>6. CASE PlayMusic
  BY <1>6, QuietStep DEF PlayMusic, Connected, InPlay, interruptVars, leafVars
<1>7. CASE LeafSleep
  BY <1>7, QuietStep DEF LeafSleep, StartWait, leafVars
<1>8. CASE LeafAwakes
  BY <1>8, QuietStep DEF LeafAwakes, WaitTimesOut, leafVars
<1>9. CASE LeafAsserts
  BY <1>9, QuietStep DEF LeafAsserts, WaitAsserts, leafVars
<1>10. CASE Handler
  <2>1. Quiet /\ pc' = pc
    BY <1>10 DEF Handler
  <2>2. InterruptTypeOK' /\ (waiting' = "no" <=> waiting = "no")
    <3>1. CASE SetFlag
      BY <3>1 DEF SetFlag, HandlersAllowed
    <3>2. CASE NotifyAll
      BY <3>2 DEF NotifyAll
    <3>3. CASE SpuriousWakeup
      BY <3>3 DEF SpuriousWakeup
    <3> QED
      BY <1>10, <3>1, <3>2, <3>3 DEF Handler
  <2>3. Control'
    BY <2>1, <2>2 DEF leafVars
  <2> QED
    BY <2>1, <2>2, <2>3, QuietStep
<1>11. CASE Dead
  <2>1. Quiet /\ UNCHANGED interruptVars /\ pc' = pc /\ pc \in {"aborted", "crashed"}
    BY <1>11 DEF Dead, vars
  <2>2. Control'
    BY <2>1 DEF leafVars, interruptVars
  <2> QED
    BY <2>1, <2>2, QuietStep DEF interruptVars
<1> QED
  BY <1>1, <1>2, <1>3, <1>4, <1>5, <1>6, <1>7, <1>8, <1>9, <1>10, <1>11

-----------------------------------------------------------------------------
(* A Ctrl-C: every activation is dropped, then the active notes are turned *)
(* off.                                                                    *)

LEMMA SilenceIsEmpty ==
  /\ Silence \in [Notes -> Nat]
  /\ \A n \in Notes : Silence[n] = 0
  /\ \A c \in [Notes -> Nat] : Support(c) = {} => c = Silence
  BY DEF Silence, Support

LEMMA UnwindStep ==
  ASSUME IInv, Unwind, InterruptTypeOK', waiting' = "no"
  PROVE  IInv'
<1> USE DEF IInv, Unwind, leafVars, noteVars
<1>1. TypeOK'
  BY SilenceIsEmpty, EmptySeq DEF TypeOK
<1>2. Control'
  BY SilenceIsEmpty DEF Control, InPar
<1>3. Nesting'
  BY EmptySeq DEF Nesting
<1>4. SoundIsOwned' /\ ActiveIsOwned' /\ EraseFindsNote' /\ SurplusIsHeld'
  BY DEF SoundIsOwned, ActiveIsOwned, EraseFindsNote, SurplusIsHeld
<1>5. TurnOffIsConnected'
  BY DEF TurnOffIsConnected, Support
<1> QED
  BY <1>1, <1>2, <1>3, <1>4, <1>5

LEMMA ThrowActions ==
  ASSUME IInv, EvalThrows \/ EnterThrows \/ LeafThrows
  PROVE  IInv'
<1> USE DEF IInv, TypeOK, InterruptTypeOK, Control
<1>1. CASE EvalThrows
  BY <1>1, UnwindStep DEF EvalThrows, CheckThrows
<1>2. CASE EnterThrows
  BY <1>2, UnwindStep DEF EnterThrows, CheckThrows
<1>3. CASE LeafThrows
  BY <1>3, UnwindStep DEF LeafThrows, WaitInterrupted
<1> QED
  BY <1>1, <1>2, <1>3

LEMMA CatchAction ==
  ASSUME IInv, CatchInterrupt
  PROVE  IInv'
<1> USE DEF CatchInterrupt, Goto, leafVars, noteVars, interruptVars
<1>1. stack = <<>> /\ leaf = "none" /\ offs = Silence
  BY DEF IInv, Control
<1>2. TypeOK'
  BY SilenceIsEmpty DEF IInv, TypeOK, InterruptTypeOK, On
<1>3. Control' /\ Nesting'
  BY <1>1 DEF IInv, Control, Nesting, InPar
<1>4. \A n \in Notes : active'[n] = 0
  BY SilenceIsEmpty DEF IInv, TurnOffIsConnected, Support, TypeOK
<1>5. ActiveIsOwned' /\ TurnOffIsConnected'
  BY <1>4 DEF ActiveIsOwned, IInv, TurnOffIsConnected, Support
<1>6. EraseFindsNote' /\ SurplusIsHeld'
  BY <1>1 DEF EraseFindsNote, SurplusIsHeld
<1>7. SoundIsOwned'
  <2>1. sounding' \subseteq manual' \cup hung'
    BY DEF IInv, TurnOffIsConnected
  <2> QED
    BY <2>1 DEF SoundIsOwned
<1> QED
  BY <1>2, <1>3, <1>5, <1>6, <1>7 DEF IInv

-----------------------------------------------------------------------------
(* Calls and returns of play and par: what a push and a pop preserve.      *)

LEMMA PushHolds ==
  ASSUME TypeOK, NEW x \in Frame, stack' = Append(stack, x)
  PROVE  /\ stack' \in Seq(Frame) /\ stack' # <<>> /\ Last(stack') = x
         /\ \A p \in Ports, n \in Notes : HeldBy(p, n) => HeldBy(p, n)'
<1>1. /\ stack' \in Seq(Frame) /\ Len(stack') = Len(stack) + 1
      /\ \A i \in 1 .. Len(stack) : stack'[i] = stack[i]
      /\ stack'[Len(stack')] = x /\ stack' # <<>>
  BY PushIsAppend DEF TypeOK
<1>2. Len(stack) \in Nat
  BY LenProperties DEF TypeOK
<1> QED
  BY <1>1, <1>2 DEF HeldBy, Last

LEMMA PopHolds ==
  ASSUME TypeOK, stack # <<>>, stack' = Front(stack)
  PROVE  /\ stack' \in Seq(Frame)
         /\ Last(stack) \in Frame
         /\ \A p \in Ports, n \in Notes : HeldBy(p, n) =>
              \/ HeldBy(p, n)'
              \/ InPar /\ Last(stack).port = p /\ n \in Last(stack).held
<1>1. stack \in Seq(Frame)
  BY DEF TypeOK
<1>2. /\ Len(stack) \in Nat \ {0}
      /\ Last(stack) = stack[Len(stack)] /\ Last(stack) \in Frame
      /\ stack' \in Seq(Frame) /\ Len(stack') = Len(stack) - 1
      /\ \A i \in 1 .. Len(stack) - 1 : stack'[i] = stack[i]
  BY <1>1, PopIsFront
<1> QED
  BY <1>2 DEF HeldBy, InPar

\* A par can be called from anywhere but directly from a par: at the call, the
\* top of the stack is not one.
LEMMA CallerIsNotPar ==
  ASSUME IInv, pc # "run"
  PROVE  \A i \in 1 .. Len(stack) : stack[i].op = "par" =>
           /\ i < Len(stack)
           /\ stack[i + 1].op = "play" /\ stack[i + 1].port = stack[i].port
<1>1. stack \in Seq(Frame) /\ Len(stack) \in Nat
  BY LenProperties DEF IInv, TypeOK
<1>2. stack # <<>> => Last(stack) = stack[Len(stack)]
  BY <1>1, PopIsFront
<1>3. stack # <<>> <=> Len(stack) # 0
  BY <1>1, EmptySeq
<1> QED
  BY <1>1, <1>2, <1>3 DEF IInv, Nesting, Control, InPar

LEMMA FramesAreFrames ==
  /\ \A x \in Frame : x.op \in {"play", "par"} /\ x.port \in Ports
  /\ \A x \in Frame : x.op = "play" => x.action \in {"none", "play"}
  /\ \A x \in Frame : x.op = "par" => x.held \in SUBSET Notes
  BY DEF Frame, PlayFrame, ParFrame

LEMMA PlayNests ==
  ASSUME IInv, CallPlay
  PROVE  IInv'
<1> USE DEF CallPlay, Goto, leafVars, noteVars, interruptVars
<1>1. TypeOK /\ port # NoPort /\ pc = "apply" /\ leaf = "none" /\ Len(stack) \in Nat
  BY LenProperties DEF IInv, TypeOK, Connected, Control
<1>2. Opened \in Frame
  BY <1>1 DEF TypeOK, Opened, Frame, PlayFrame
<1>3. /\ Len(stack') = Len(stack) + 1 /\ stack'[Len(stack) + 1] = Opened
      /\ \A i \in 1 .. Len(stack) : stack'[i] = stack[i]
  BY <1>1, <1>2, PushIsAppend DEF TypeOK
<1>4. TypeOK'
  BY <1>1, <1>2, PushHolds DEF TypeOK, InterruptTypeOK
<1>5. Control'
  BY <1>1, <1>2, PushHolds DEF IInv, Control, InPar
<1>6. Nesting'
  <2>1. \A i \in 1 .. Len(stack) : stack[i].op = "par" =>
          /\ i < Len(stack)
          /\ stack[i + 1].op = "play" /\ stack[i + 1].port = stack[i].port
    BY <1>1, CallerIsNotPar
  <2>2. Opened.op = "play" /\ Opened.action = action
    BY DEF Opened
  <2>3. \A i \in 1 .. Len(stack') : stack'[i].op = "par" =>
          /\ i # Len(stack')
          /\ stack'[i + 1].op = "play" /\ stack'[i + 1].port = stack'[i].port
    BY <1>1, <1>3, <2>1, <2>2
  <2>4. ASSUME NEW i \in 1 .. Len(stack'), stack'[i].op = "play",
               NEW j \in i + 1 .. Len(stack'), stack'[j].op = "play"
        PROVE  stack'[j].action = "play"
    BY <1>1, <1>3, <2>2, <2>4 DEF IInv, Nesting
  <2> QED
    BY <2>3, <2>4 DEF Nesting
<1>7. SoundIsOwned'
  BY <1>1, <1>2, PushHolds DEF IInv, SoundIsOwned
<1>8. ActiveIsOwned'
  BY <1>1, <1>2, PushHolds DEF IInv, ActiveIsOwned
<1>9. EraseFindsNote' /\ SurplusIsHeld' /\ TurnOffIsConnected'
  BY <1>1 DEF IInv, EraseFindsNote, SurplusIsHeld, TurnOffIsConnected, Support
<1> QED
  BY <1>4, <1>5, <1>6, <1>7, <1>8, <1>9 DEF IInv

LEMMA PlayReturns ==
  ASSUME IInv, ReturnPlay
  PROVE  IInv'
<1> USE DEF ReturnPlay, Goto, Restore, InPlay, leafVars, noteVars, interruptVars
<1>1. TypeOK /\ stack # <<>> /\ leaf = "none" /\ ~InPar
  BY DEF IInv, Control, InPar
<1>2. /\ Len(stack) \in Nat \ {0} /\ Last(stack) = stack[Len(stack)]
      /\ Len(stack') = Len(stack) - 1
      /\ \A i \in 1 .. Len(stack) - 1 : stack'[i] = stack[i]
  BY <1>1, PopIsFront DEF TypeOK
<1>3. /\ stack' \in Seq(Frame)
      /\ Last(stack).port \in Ports /\ Last(stack).action \in {"none", "play"}
      /\ \A p \in Ports, n \in Notes : HeldBy(p, n) => HeldBy(p, n)'
  BY <1>1, PopHolds, FramesAreFrames
<1>4. TypeOK'
  BY <1>1, <1>3 DEF TypeOK, InterruptTypeOK
<1>5. Control'
  BY <1>1, <1>3, PlaybackAssumption DEF IInv, Control, InPar
<1>6. Nesting'
  <2>1. Nesting /\ action' = Last(stack).action /\ port' = Last(stack).port
    BY DEF IInv
  <2> HIDE DEF ReturnPlay, Goto, Restore, InPlay, leafVars, noteVars, interruptVars
  <2>2. ASSUME NEW i \in 1 .. Len(stack'), stack'[i].op = "par"
        PROVE  IF i = Len(stack') THEN stack'[i].port = port'
               ELSE stack'[i + 1].op = "play" /\ stack'[i + 1].port = stack'[i].port
    <3>1. i # Len(stack) /\ stack[i].op = "par"
      BY <1>2, <2>2
    <3>2. stack[i + 1].op = "play" /\ stack[i + 1].port = stack[i].port
      BY <1>2, <2>1, <2>2, <3>1 DEF Nesting
    <3> QED
      BY <1>2, <2>1, <2>2, <3>2
  <2>3. ASSUME NEW i \in 1 .. Len(stack'), stack'[i].op = "play"
        PROVE  \A j \in i + 1 .. Len(stack) : stack[j].op = "play" => stack[j].action = "play"
    BY <1>2, <2>1, <2>3 DEF Nesting
  <2>4. ASSUME NEW i \in 1 .. Len(stack'), stack'[i].op = "play"
        PROVE  action' = "play"
    <3>1. Last(stack).op = "play"
      BY DEF ReturnPlay, InPlay
    <3> QED
      BY <1>2, <2>1, <2>3, <2>4, <3>1
  <2>5. ASSUME NEW i \in 1 .. Len(stack'), stack'[i].op = "play",
               NEW j \in i + 1 .. Len(stack'), stack'[j].op = "play"
        PROVE  stack'[j].action = "play"
    <3>1. j \in i + 1 .. Len(stack) /\ stack'[j] = stack[j]
      BY <1>2
    <3> QED
      BY <2>3, <2>5, <3>1
  <2> QED
    BY <2>2, <2>4, <2>5 DEF Nesting
<1>7. SoundIsOwned'
  BY <1>1, <1>3, SilenceIsEmpty DEF IInv, SoundIsOwned, Control
<1>8. ActiveIsOwned'
  BY <1>1, <1>3 DEF IInv, ActiveIsOwned
<1>9. EraseFindsNote' /\ SurplusIsHeld' /\ TurnOffIsConnected'
  BY <1>1, <1>3, PlaybackAssumption DEF IInv, EraseFindsNote, SurplusIsHeld, TurnOffIsConnected, Support
<1> QED
  BY <1>4, <1>5, <1>6, <1>7, <1>8, <1>9 DEF IInv

LEMMA ParReturns ==
  ASSUME IInv, ReturnPar
  PROVE  IInv'
<1> USE DEF ReturnPar, Goto, SendOff, EraseAll, On, leafVars, noteVars, interruptVars
<1>1. TypeOK /\ stack # <<>> /\ leaf = "none" /\ port \in Ports
  BY DEF IInv, TypeOK, Control, InPar
<1>2. /\ Len(stack) \in Nat \ {0} /\ Last(stack) = stack[Len(stack)]
      /\ Len(stack') = Len(stack) - 1
      /\ \A i \in 1 .. Len(stack) - 1 : stack'[i] = stack[i]
  BY <1>1, PopIsFront DEF TypeOK
<1>3. Last(stack).op = "par" /\ Last(stack).port = port /\ Last(stack).held \subseteq Notes
  BY <1>1, <1>2, PopHolds, FramesAreFrames DEF IInv, Nesting, InPar
<1>4. /\ stack' \in Seq(Frame)
      /\ \A p \in Ports, n \in Notes : HeldBy(p, n) =>
           HeldBy(p, n)' \/ (p = port /\ n \in Last(stack).held)
  BY <1>1, <1>3, PopHolds
<1>5. TypeOK'
  BY <1>1, <1>3, <1>4 DEF TypeOK, InterruptTypeOK
<1>6. ~InPar'
  <2>1. stack' # <<>> => Last(stack') = stack'[Len(stack')] /\ Len(stack') \in Nat \ {0}
    BY <1>4, PopIsFront
  <2> QED
    BY <1>2, <1>3, <2>1 DEF IInv, Nesting, InPar
<1>7. Control'
  BY <1>1, <1>6 DEF IInv, Control
<1>8. Nesting'
  <2>1. Nesting /\ action' = action
    BY DEF IInv
  <2> HIDE DEF ReturnPar, Goto, SendOff, EraseAll, On, leafVars, noteVars, interruptVars
  <2>2. ASSUME NEW i \in 1 .. Len(stack'), stack'[i].op = "par"
        PROVE  /\ i # Len(stack')
               /\ stack'[i + 1].op = "play" /\ stack'[i + 1].port = stack'[i].port
    <3>1. i # Len(stack) /\ stack[i].op = "par"
      BY <1>2, <2>2
    <3>2. stack[i + 1].op = "play" /\ stack[i + 1].port = stack[i].port
      BY <1>2, <2>1, <2>2, <3>1 DEF Nesting
    <3> QED
      BY <1>2, <1>3, <2>2, <3>2
  <2>3. ASSUME NEW i \in 1 .. Len(stack'), stack'[i].op = "play"
        PROVE  /\ action' = "play"
               /\ \A j \in i + 1 .. Len(stack) :
                    stack[j].op = "play" => stack[j].action = "play"
    BY <1>2, <2>1, <2>3 DEF Nesting
  <2>4. ASSUME NEW i \in 1 .. Len(stack'), stack'[i].op = "play",
               NEW j \in i + 1 .. Len(stack'), stack'[j].op = "play"
        PROVE  stack'[j].action = "play"
    <3>1. j \in i + 1 .. Len(stack) /\ stack'[j] = stack[j]
      BY <1>2
    <3> QED
      BY <2>3, <2>4, <3>1
  <2> QED
    BY <2>2, <2>3, <2>4 DEF Nesting
<1>9. SoundIsOwned'
  BY <1>1, <1>4, SilenceIsEmpty DEF IInv, SoundIsOwned, Control
<1>10. ActiveIsOwned'
  <2>1. \A n \in Notes : active'[n] > 0 => active[n] > 0 /\ n \notin Last(stack).held
    OBVIOUS
  <2> QED
    BY <1>1, <1>4, <2>1, SilenceIsEmpty DEF IInv, ActiveIsOwned, Control
<1>11. EraseFindsNote' /\ SurplusIsHeld' /\ TurnOffIsConnected'
  BY <1>1, PlaybackAssumption DEF EraseFindsNote, SurplusIsHeld, TurnOffIsConnected
<1> QED
  BY <1>5, <1>7, <1>8, <1>9, <1>10, <1>11 DEF IInv

LEMMA ParCalls ==
  ASSUME IInv, NEW c \in Chords, CallPar(c)
  PROVE  IInv'
<1> DEFINE P == [op |-> "par", port |-> port, held |-> Support(c)]
           k == Len(stack)
<1> USE DEF CallPar, Goto, SendOn, Insert, On, leafVars, noteVars, interruptVars
<1>1. TypeOK /\ port \in Ports /\ pc = "apply" /\ leaf = "none" /\ k \in Nat
  BY LenProperties DEF IInv, TypeOK, Connected, Control
<1>2. c \in [Notes -> Nat] /\ Support(c) \subseteq Notes
  BY PlaybackAssumption DEF Support
<1>3. /\ P \in Frame /\ Opened \in Frame
      /\ P.op = "par" /\ P.port = port /\ P.held = Support(c)
      /\ Opened.op = "play" /\ Opened.port = port /\ Opened.action = action
  BY <1>1, <1>2 DEF TypeOK, Opened, Frame, PlayFrame, ParFrame
<1>4. /\ Append(stack, P) \in Seq(Frame) /\ Len(Append(stack, P)) = k + 1
      /\ \A i \in 1 .. k : Append(stack, P)[i] = stack[i]
      /\ Append(stack, P)[k + 1] = P
  BY <1>1, <1>3, PushIsAppend DEF TypeOK
<1>5. /\ stack' \in Seq(Frame) /\ Len(stack') = k + 2 /\ stack' # <<>>
      /\ \A i \in 1 .. k : stack'[i] = stack[i]
      /\ stack'[k + 1] = P /\ stack'[k + 2] = Opened
      /\ Last(stack') = Opened
  <2> stack' = Append(Append(stack, P), Opened)
    OBVIOUS
  <2> HIDE DEF P
  <2>1. /\ stack' \in Seq(Frame) /\ Len(stack') = k + 1 + 1 /\ stack' # <<>>
        /\ \A i \in 1 .. k + 1 : stack'[i] = Append(stack, P)[i]
        /\ stack'[k + 1 + 1] = Opened
    BY <1>3, <1>4, PushIsAppend
  <2> QED
    BY <1>1, <1>4, <2>1 DEF Last
<1> HIDE DEF P, k
<1>6. \A p \in Ports, n \in Notes :
        /\ HeldBy(p, n) => HeldBy(p, n)'
        /\ p = port /\ n \in Support(c) => HeldBy(p, n)'
  BY <1>1, <1>3, <1>5 DEF HeldBy, k
<1>7. TypeOK'
  BY <1>1, <1>2, <1>5 DEF TypeOK, InterruptTypeOK, Plus
<1>8. Control'
  BY <1>1, <1>3, <1>5, PlaybackAssumption DEF IInv, Control, InPar
<1>9. Nesting'
  <2>1. \A i \in 1 .. k : stack[i].op = "par" =>
          /\ i < k
          /\ stack[i + 1].op = "play" /\ stack[i + 1].port = stack[i].port
    BY <1>1, CallerIsNotPar DEF k
  <2>2. \A i \in 1 .. Len(stack') : stack'[i].op = "par" =>
          /\ i # Len(stack')
          /\ stack'[i + 1].op = "play" /\ stack'[i + 1].port = stack'[i].port
    BY <1>1, <1>3, <1>5, <2>1
  <2>3. ASSUME NEW i \in 1 .. Len(stack'), stack'[i].op = "play",
               NEW j \in i + 1 .. Len(stack'), stack'[j].op = "play"
        PROVE  stack'[j].action = "play"
    <3>1. Nesting /\ i \in 1 .. k + 2 /\ j \in 1 .. k + 2 /\ i < j /\ i # k + 1 /\ j # k + 1
      BY <1>1, <1>3, <1>5, <2>3 DEF IInv
    <3>2. i \in 1 .. k /\ stack[i].op = "play"
      BY <1>1, <1>5, <2>3, <3>1
    <3>3. CASE j = k + 2
      BY <1>3, <1>5, <3>1, <3>2, <3>3 DEF Nesting, k
    <3>4. CASE j \in 1 .. k
      BY <1>1, <1>5, <2>3, <3>1, <3>2, <3>4 DEF Nesting, k
    <3>5. j = k + 2 \/ j \in 1 .. k
      <4> HIDE DEF CallPar, Goto, SendOn, Insert, On, leafVars, noteVars, interruptVars
      <4> QED  BY <1>1, <3>1
    <3> QED
      BY <3>3, <3>4, <3>5
  <2> QED
    BY <2>2, <2>3 DEF Nesting
<1>10. SoundIsOwned'
  BY <1>1, <1>6 DEF IInv, SoundIsOwned
<1>11. ActiveIsOwned'
  <2>1. \A n \in Notes : active'[n] > 0 => active[n] > 0 \/ n \in Support(c)
    BY <1>1, <1>2 DEF TypeOK, Plus, Support
  <2> QED
    BY <1>1, <1>6, <2>1 DEF IInv, ActiveIsOwned
<1>12. EraseFindsNote' /\ SurplusIsHeld' /\ TurnOffIsConnected'
  BY <1>1, PlaybackAssumption DEF EraseFindsNote, SurplusIsHeld, TurnOffIsConnected
<1> QED
  BY <1>7, <1>8, <1>9, <1>10, <1>11, <1>12 DEF IInv

-----------------------------------------------------------------------------
(* Calls that change the context or talk to the device.                    *)

LEMMA DirectCalls ==
  ASSUME IInv,
         \/ \E p \in Ports : CallPort(p)
         \/ \E n \in Notes : CallNoteOn(n) \/ CallNoteOff(n)
  PROVE  IInv'
<1>1. TypeOK /\ pc = "apply" /\ leaf = "none" /\ offs = Silence /\ offs \in [Notes -> Nat]
  BY DEF IInv, TypeOK, Control, CallPort, CallNoteOn, CallNoteOff, Goto
<1>2. /\ UNCHANGED <<stack, action, leafVars, active, stale, interruptVars>>
      /\ pc' = "run"
  BY DEF CallPort, CallNoteOn, CallNoteOff, Goto, noteVars
<1>3. /\ port' \in Ports \cup {NoPort}
      /\ port # NoPort => port' \in Ports
      /\ port' = NoPort => UNCHANGED <<sounding, port>>
  BY <1>1, PlaybackAssumption
     DEF TypeOK, CallPort, CallNoteOn, CallNoteOff, leafVars, noteVars
<1> DEFINE NothingLeftOn ==
             /\ sounding' \subseteq Ports \X Notes
             /\ manual' \subseteq sounding' /\ hung' \subseteq sounding'
             /\ sounding' \ (manual' \cup hung') \subseteq sounding \ (manual \cup hung)
<1>4. NothingLeftOn
  <2>1. CASE \E p \in Ports : CallPort(p)
    BY <1>1, <2>1 DEF TypeOK, CallPort, noteVars
  <2>2. ASSUME NEW n \in Notes, CallNoteOn(n)
        PROVE  NothingLeftOn
    BY <1>1, <2>2 DEF TypeOK, CallNoteOn, On
  <2>3. ASSUME NEW n \in Notes, CallNoteOff(n)
        PROVE  NothingLeftOn
    BY <1>1, <2>3 DEF TypeOK, CallNoteOff, SendOff, On
  <2> QED
    BY <2>1, <2>2, <2>3
<1>5. TypeOK'
  BY <1>1, <1>2, <1>3, <1>4 DEF TypeOK, InterruptTypeOK, leafVars, interruptVars
<1>6. Control'
  BY <1>1, <1>2, <1>3, PlaybackAssumption
     DEF IInv, Control, InPar, leafVars, interruptVars
<1>7. Nesting'
  <2>1. \A i \in 1 .. Len(stack) : stack[i].op = "par" =>
          /\ i < Len(stack)
          /\ stack[i + 1].op = "play" /\ stack[i + 1].port = stack[i].port
    BY <1>1, CallerIsNotPar
  <2> QED
    BY <1>2, <2>1 DEF IInv, Nesting
<1>8. SoundIsOwned'
  <2>1. \A p \in Ports, n \in Notes : HeldBy(p, n)' <=> HeldBy(p, n)
    BY <1>2 DEF HeldBy
  <2> QED
    BY <1>1, <1>4, <2>1, SilenceIsEmpty DEF IInv, SoundIsOwned
<1>9. ActiveIsOwned' /\ EraseFindsNote' /\ SurplusIsHeld'
  BY <1>1, <1>2 DEF IInv, ActiveIsOwned, EraseFindsNote, SurplusIsHeld, HeldBy, leafVars
<1>10. TurnOffIsConnected'
  BY <1>2, <1>3, PlaybackAssumption DEF IInv, TurnOffIsConnected, Support
<1> QED
  BY <1>5, <1>6, <1>7, <1>8, <1>9, <1>10 DEF IInv

-----------------------------------------------------------------------------
(* A chord, a rest or a schedule plays: the stack, the context and the     *)
(* default action are left alone.                                          *)

LEMMA LeafStep ==
  ASSUME IInv, UNCHANGED <<stack, action, port>>,
         TypeOK', Control', EraseFindsNote', port # NoPort, pc # "caught",
         \A n \in Notes : <<port, n>> \in sounding' /\ <<port, n>> \notin sounding
                            => offs'[n] > 0 \/ <<port, n>> \in hung',
         \A n \in Notes : <<port, n>> \in sounding' => offs'[n] >= offs[n],
         \A p \in Ports, n \in Notes : <<p, n>> \in sounding' /\ p # port
                            => <<p, n>> \in sounding,
         \A p \in Ports, n \in Notes :
           <<p, n>> \in (manual \cup hung) /\ <<p, n>> \in sounding'
                            => <<p, n>> \in manual' \cup hung',
         \A n \in Notes : active'[n] > 0 =>
           \/ offs'[n] > 0 \/ n \in stale'
           \/ \E p \in Ports : HeldBy(p, n),
         leaf' = "play" => \A n \in Notes :
           active'[n] > offs'[n] => n \in stale' \/ \E p \in Ports : HeldBy(p, n)
  PROVE  IInv'
<1>1. \A p \in Ports, n \in Notes : HeldBy(p, n)' <=> HeldBy(p, n)
  BY DEF HeldBy
<1>2. Nesting'
  BY DEF IInv, Nesting
<1>3. offs \in [Notes -> Nat] /\ offs' \in [Notes -> Nat]
  BY DEF IInv, TypeOK
<1>4. SoundIsOwned'
  BY <1>1, <1>3 DEF IInv, SoundIsOwned
<1>5. ActiveIsOwned' /\ SurplusIsHeld'
  BY <1>1 DEF ActiveIsOwned, SurplusIsHeld
<1> QED
  BY <1>2, <1>4, <1>5 DEF IInv, TurnOffIsConnected

LEMMA LeafStarts ==
  ASSUME IInv,
         \/ EnterRest
         \/ \E c \in Chords : EnterChord(c) \/ \E b \in SUBSET Support(c) : CallSim(c, b)
  PROVE  IInv'
<1> USE DEF IInv, Goto, leafVars, noteVars, interruptVars
<1>1. CASE EnterRest
  <2> USE <1>1 DEF EnterRest, CheckPasses
  <2>1. TypeOK' /\ Control'
    BY DEF TypeOK, InterruptTypeOK, Control, InPar
  <2>2. EraseFindsNote' /\ port # NoPort
    BY DEF EraseFindsNote, Control
  <2> QED
    BY <2>1, <2>2, LeafStep DEF ActiveIsOwned, TypeOK
<1>2. ASSUME NEW c \in Chords, EnterChord(c)
      PROVE  IInv'
  <2> USE <1>2 DEF EnterChord, CheckPasses, SendOn, Insert
  <2>1. c \in [Notes -> Nat] /\ leaf = "none" /\ offs = Silence /\ port \in Ports
    BY PlaybackAssumption DEF Control, TypeOK
  <2>2. active \in [Notes -> Nat] /\ \A n \in Notes : active'[n] = active[n] + c[n]
    BY DEF TypeOK, Plus
  <2>3. TypeOK'
    BY <2>1 DEF TypeOK, InterruptTypeOK, Plus, On, Support
  <2>4. Control'
    BY <2>1, SilenceIsEmpty DEF TypeOK, Control, InPar
  <2>5. EraseFindsNote'
    BY <2>1, <2>2 DEF EraseFindsNote
  <2>6. /\ \A n \in Notes : active[n] > 0 => n \in stale \/ \E p \in Ports : HeldBy(p, n)
        /\ \A n \in Notes : offs[n] = 0
    BY <2>1, SilenceIsEmpty DEF ActiveIsOwned
  <2>7. \A n \in Notes : active'[n] > offs'[n] =>
          n \in stale' \/ \E p \in Ports : HeldBy(p, n)
    BY <2>1, <2>2, <2>6
  <2>8. \A n \in Notes : active'[n] > 0 =>
          offs'[n] > 0 \/ n \in stale' \/ \E p \in Ports : HeldBy(p, n)
    BY <2>1, <2>2, <2>6
  <2>9. /\ \A n \in Notes : <<port, n>> \in sounding' /\ <<port, n>> \notin sounding
                              => offs'[n] > 0
        /\ \A n \in Notes : offs'[n] >= offs[n]
        /\ \A p \in Ports, n \in Notes : <<p, n>> \in sounding' /\ p # port
                              => <<p, n>> \in sounding
    BY <2>1, <2>6 DEF On, Support
  <2> QED
    BY <2>1, <2>3, <2>4, <2>5, <2>7, <2>8, <2>9, LeafStep, PlaybackAssumption
<1>3. ASSUME NEW c \in Chords, NEW b \in SUBSET Support(c), CallSim(c, b)
      PROVE  IInv'
  <2> USE <1>3 DEF CallSim
  <2>1. c \in [Notes -> Nat] /\ b \subseteq Notes /\ leaf = "none" /\ offs = Silence
    BY PlaybackAssumption DEF Control, Support
  <2>2. TypeOK' /\ Control'
    BY <2>1 DEF TypeOK, InterruptTypeOK, Control, InPar
  <2>3. \A n \in Notes : offs[n] = 0 /\ offs'[n] >= offs[n]
    BY <2>1, SilenceIsEmpty
  <2>4. EraseFindsNote'
    BY DEF EraseFindsNote
  <2> QED
    BY <2>2, <2>3, <2>4, LeafStep DEF ActiveIsOwned, TypeOK
<1> QED
  BY <1>1, <1>2, <1>3

LEMMA LeafMessages ==
  ASSUME IInv, NEW k \in Notes, SimOn(k) \/ SimOff(k) \/ PlayOff(k)
  PROVE  IInv'
<1> USE DEF IInv, Awake, leafVars, noteVars, interruptVars
<1>1. /\ ons \in [Notes -> Nat] /\ offs \in [Notes -> Nat] /\ active \in [Notes -> Nat]
      /\ \A n \in Notes \ backwards : ons[n] <= offs[n]
      /\ backwards \subseteq Notes /\ stale \subseteq Notes
  BY DEF TypeOK, Control
<1>2. port \in Ports /\ pc # "caught" /\ waiting = "no"
  BY DEF TypeOK, Control, SimOn, SimOff, PlayOff
<1>3. CASE SimOn(k)
  <2> USE <1>3 DEF SimOn, Insert, Less, Plus, On
  <2>1. TypeOK'
    BY <1>1, <1>2 DEF TypeOK, InterruptTypeOK
  <2>2. Control'
    BY <1>1, <1>2 DEF Control, InPar
  <2>3. \A n \in Notes : active'[n] > 0 => active[n] > 0 \/ offs'[n] > 0 \/ n \in stale'
    BY <1>1
  <2>4. \A n \in Notes : <<port, n>> \in sounding' /\ <<port, n>> \notin sounding
                              => offs'[n] > 0 \/ <<port, n>> \in hung'
    BY <1>1
  <2>5. stale \subseteq stale' /\ manual' = manual /\ hung \subseteq hung'
    OBVIOUS
  <2> QED
    BY <1>1, <1>2, <2>1, <2>2, <2>3, <2>4, <2>5, LeafStep, PlaybackAssumption
       DEF ActiveIsOwned, EraseFindsNote
<1>4. CASE SimOff(k)
  <2> USE <1>4 DEF SimOff, SendOff, EraseAll, Less, On
  <2>1. TypeOK'
    BY <1>1, <1>2 DEF TypeOK, InterruptTypeOK
  <2>2. Control'
    BY <1>1, <1>2 DEF Control, InPar
  <2>3. \A n \in Notes : active'[n] > 0 =>
          active[n] > 0 /\ offs'[n] = offs[n] /\ (n \in stale => n \in stale')
    BY <1>1
  <2>4. \A n \in Notes : <<port, n>> \in sounding' => offs'[n] = offs[n]
    BY <1>1
  <2> QED
    BY <1>1, <1>2, <2>1, <2>2, <2>3, <2>4, LeafStep, PlaybackAssumption
       DEF ActiveIsOwned, EraseFindsNote
<1>5. CASE PlayOff(k)
  <2> USE <1>5 DEF PlayOff, SendOff, EraseOne, Less, On
  <2>1. active[k] >= offs[k]
    BY DEF EraseFindsNote
  <2>2. TypeOK'
    BY <1>1, <1>2, <2>1 DEF TypeOK, InterruptTypeOK
  <2>3. Control'
    BY <1>1, <1>2, SilenceIsEmpty DEF Control, InPar
  <2>4. EraseFindsNote'
    BY <1>1 DEF EraseFindsNote
  <2>5. \A n \in Notes : active'[n] > offs'[n] =>
          n \in stale' \/ \E p \in Ports : HeldBy(p, n)
    BY <1>1 DEF SurplusIsHeld
  <2>6. \A n \in Notes : active'[n] > 0 =>
          offs'[n] > 0 \/ n \in stale' \/ \E p \in Ports : HeldBy(p, n)
    BY <1>1, <2>2, <2>5 DEF TypeOK
  <2>7. \A n \in Notes : <<port, n>> \in sounding' => offs'[n] = offs[n]
    BY <1>1
  <2> QED
    BY <1>1, <1>2, <2>2, <2>3, <2>4, <2>5, <2>6, <2>7, LeafStep, PlaybackAssumption
<1> QED
  BY <1>3, <1>4, <1>5

LEMMA LeafEnds ==
  ASSUME IInv, LeafDone
  PROVE  IInv'
<1> USE DEF IInv, LeafDone, leafVars, noteVars, interruptVars
<1>1. port # NoPort /\ ons = Silence /\ offs = Silence
  BY SilenceIsEmpty DEF Control, Pending, TypeOK
<1>2. TypeOK' /\ Control'
  BY <1>1 DEF TypeOK, InterruptTypeOK, Control
<1>3. EraseFindsNote'
  BY DEF EraseFindsNote
<1> QED
  BY <1>1, <1>2, <1>3, LeafStep DEF ActiveIsOwned, TypeOK

-----------------------------------------------------------------------------
(* The invariant.                                                          *)

LEMMA InitEstablishes == Init => IInv
<1> SUFFICES ASSUME Init PROVE IInv
  OBVIOUS
<1> USE DEF Init, InterruptInit
<1>1. stack \in Seq(Frame) /\ Len(stack) = 0
  BY EmptySeq
<1>2. TypeOK
  <2>1. InterruptTypeOK
    <3>1. interrupted \in BOOLEAN /\ waiting \in {"no", "asleep", "woken"}
      OBVIOUS
    <3>2. notifying \in 0 .. MaxHandlers
      BY InterruptAssumption
    <3> QED
      BY <3>1, <3>2 DEF InterruptTypeOK
  <2>2. /\ stack \in Seq(Frame) /\ port \in Ports \cup {NoPort}
        /\ ons \in [Notes -> Nat] /\ offs \in [Notes -> Nat] /\ active \in [Notes -> Nat]
    BY <1>1, SilenceIsEmpty
  <2> QED
    BY <2>1, <2>2 DEF TypeOK
<1>3. Control
  BY SilenceIsEmpty DEF Control, InPar
<1>4. Nesting
  BY <1>1 DEF Nesting
<1>5. SoundIsOwned /\ ActiveIsOwned /\ SurplusIsHeld
  BY SilenceIsEmpty DEF SoundIsOwned, ActiveIsOwned, SurplusIsHeld
<1>6. EraseFindsNote /\ TurnOffIsConnected
  BY SilenceIsEmpty DEF EraseFindsNote, TurnOffIsConnected, Support
<1> QED
  BY <1>2, <1>3, <1>4, <1>5, <1>6 DEF IInv

\* IInv is inductive: no step of the interpreter's thread or of a signal handler
\* leads out of it.
THEOREM Inductive == IInv /\ [Next]_vars => IInv'
<1> SUFFICES ASSUME IInv, [Next]_vars PROVE IInv'
  OBVIOUS
<1>1. CASE UNCHANGED vars
  <2>1. Quiet /\ UNCHANGED interruptVars /\ UNCHANGED pc
    BY <1>1 DEF vars, Quiet
  <2>2. Control' /\ InterruptTypeOK'
    BY <2>1 DEF IInv, TypeOK, InterruptTypeOK, Control, InPar, Quiet, leafVars, interruptVars
  <2> QED
    BY <2>1, <2>2, QuietStep DEF IInv, TypeOK
<1>2. CASE ReadLine \/ Handler \/ Dead
  BY <1>2, QuietActions
<1>3. CASE Evaluate
  <2>1. CASE \/ EvalNode \/ NodeDone \/ FinishLine \/ NullPort
             \/ PlayMusic \/ LeafSleep \/ LeafAwakes \/ LeafAsserts
    BY <2>1, QuietActions
  <2>2. CASE EvalThrows \/ EnterThrows \/ LeafThrows
    BY <2>2, ThrowActions
  <2>3. CASE CatchInterrupt
    BY <2>3, CatchAction
  <2>4. CASE \/ \E p \in Ports : CallPort(p)
             \/ \E n \in Notes : CallNoteOn(n) \/ CallNoteOff(n)
    BY <2>4, DirectCalls
  <2>5. CASE CallPlay
    BY <2>5, PlayNests
  <2>6. CASE ReturnPlay
    BY <2>6, PlayReturns
  <2>7. CASE ReturnPar
    BY <2>7, ParReturns
  <2>8. CASE \E c \in Chords : CallPar(c)
    BY <2>8, ParCalls
  <2>9. CASE \/ EnterRest
             \/ \E c \in Chords :
                  EnterChord(c) \/ \E b \in SUBSET Support(c) : CallSim(c, b)
    BY <2>9, LeafStarts
  <2>10. CASE \E n \in Notes : SimOn(n) \/ SimOff(n) \/ PlayOff(n)
    BY <2>10, LeafMessages
  <2>11. CASE LeafDone
    BY <2>11, LeafEnds
  <2> QED
    BY <1>3, <2>1, <2>2, <2>3, <2>4, <2>5, <2>6, <2>7, <2>8, <2>9, <2>10, <2>11
       DEF Evaluate
<1> QED
  BY <1>1, <1>2, <1>3 DEF Next

THEOREM Invariance == Spec => []IInv
<1>1. Init => IInv
  BY InitEstablishes
<1>2. IInv /\ [Next]_vars => IInv'
  BY Inductive
<1> QED
  BY <1>1, <1>2, PTL DEF Spec

\* Every variable keeps its type: no step erases from active_notes an entry that
\* is not there, nor sends a message twice.
THEOREM TypeCorrect == Spec => []TypeOK
<1>1. IInv => TypeOK
  BY DEF IInv
<1> QED
  BY <1>1, Invariance, PTL

\* A note that sounds has somebody who will turn it off.
THEOREM NoNoteIsLeftOn == Spec => []SoundIsOwned
<1>1. IInv => SoundIsOwned
  BY DEF IInv
<1> QED
  BY <1>1, Invariance, PTL

\* An entry of active_notes has somebody who will erase it.
THEOREM NoEntryIsStale == Spec => []ActiveIsOwned
<1>1. IInv => ActiveIsOwned
  BY DEF IInv
<1> QED
  BY <1>1, Invariance, PTL

\* play() never erases the end iterator of active_notes.
THEOREM EraseIsDefined == Spec => []EraseFindsNote
<1>1. IInv => EraseFindsNote
  BY DEF IInv
<1> QED
  BY <1>1, Invariance, PTL

\* turn_off_all_active_notes has a connection whenever it has notes.
THEOREM TurnOffHasPort == Spec => []TurnOffIsConnected
<1>1. IInv => TurnOffIsConnected
  BY DEF IInv
<1> QED
  BY <1>1, Invariance, PTL

\* Inside play the default action is to play.
THEOREM PlayPlaysByDefault == Spec => []DefaultActionIsPlay
<1>1. IInv => DefaultActionIsPlay
  <2> SUFFICES ASSUME IInv, InPlay PROVE action = "play"
    BY DEF DefaultActionIsPlay
  <2>1. stack \in Seq(Frame) /\ stack # <<>>
    BY DEF IInv, TypeOK, InPlay
  <2>2. Len(stack) \in Nat \ {0} /\ Last(stack) = stack[Len(stack)]
    BY <2>1, PopIsFront
  <2> QED
    BY <2>2 DEF IInv, Nesting, InPlay
<1> QED
  BY <1>1, Invariance, PTL

-----------------------------------------------------------------------------
(* What play and par restore.                                              *)

\* TopLevel of a stack s, with the context's port and the default action.
Level(s, p, a) ==
  CASE Len(s) = 0 \/ (Len(s) = 1 /\ s[1].op = "par") -> <<p, a>>
    [] Len(s) > 0 /\ s[1].op = "play" -> <<s[1].port, s[1].action>>
    [] OTHER -> <<s[2].port, s[2].action>>

LEMMA StackShape ==
  ASSUME NEW s \in Seq(Frame)
  PROVE  /\ Len(s) \in Nat
         /\ s = <<>> <=> Len(s) = 0
         /\ s # <<>> => Last(s) = s[Len(s)]
         /\ \/ Len(s) = 0
            \/ Len(s) = 1 /\ s[1].op = "par"
            \/ Len(s) > 0 /\ s[1].op = "play"
            \/ Len(s) > 1 /\ s[1].op = "par"
<1>1. Len(s) \in Nat /\ (s = <<>> <=> Len(s) = 0)
  BY LenProperties, EmptySeq
<1>2. s # <<>> => Last(s) = s[Len(s)]
  BY PopIsFront
<1>3. Len(s) > 0 => s[1] \in Frame
  BY <1>1, ElementOfSeq
<1>4. Len(s) > 0 => s[1].op \in {"play", "par"}
  BY <1>3, FramesAreFrames
<1>5. \/ Len(s) = 0
      \/ Len(s) = 1 /\ s[1].op = "par"
      \/ Len(s) > 0 /\ s[1].op = "play"
      \/ Len(s) > 1 /\ s[1].op = "par"
  <2> DEFINE k == Len(s)
             op == s[1].op
  <2>1. k \in Nat /\ (k > 0 => op \in {"play", "par"})
    BY <1>1, <1>4
  <2> HIDE DEF k, op
  <2>2. \/ k = 0
        \/ k = 1 /\ op = "par"
        \/ k > 0 /\ op = "play"
        \/ k > 1 /\ op = "par"
    BY <2>1
  <2> QED
    BY <2>2 DEF k, op
<1> QED
  BY <1>1, <1>2, <1>5

LEMMA OutermostLevel ==
  ASSUME TypeOK, TypeOK'
  PROVE  TopLevel = Level(stack, port, action) /\ TopLevel' = Level(stack', port', action')
<1>1. stack \in Seq(Frame) /\ stack' \in Seq(Frame)
  BY DEF TypeOK
<1>2. TopLevel = Level(stack, port, action)
  <2>1. /\ stack = <<>> <=> Len(stack) = 0
        /\ stack # <<>> => Last(stack) = stack[Len(stack)]
    BY <1>1, StackShape
  <2>2. Len(stack) = 1 => (InPar <=> stack[1].op = "par")
    BY <2>1 DEF InPar
  <2>3. CASE Len(stack) = 0 \/ (Len(stack) = 1 /\ stack[1].op = "par")
    BY <2>1, <2>2, <2>3 DEF TopLevel, Level
  <2>4. CASE Len(stack) > 0 /\ stack[1].op = "play"
    BY <2>1, <2>2, <2>4 DEF TopLevel, Level
  <2>5. CASE Len(stack) > 1 /\ stack[1].op = "par"
    BY <2>1, <2>2, <2>5 DEF TopLevel, Level
  <2> QED
    BY <1>1, <2>3, <2>4, <2>5, StackShape
<1>3. TopLevel' = Level(stack', port', action')
  <2>1. /\ stack' = <<>> <=> Len(stack') = 0
        /\ stack' # <<>> => Last(stack') = stack'[Len(stack')]
    BY <1>1, StackShape
  <2>2. Len(stack') = 1 => (InPar' <=> stack'[1].op = "par")
    BY <2>1 DEF InPar
  <2>3. CASE Len(stack') = 0 \/ (Len(stack') = 1 /\ stack'[1].op = "par")
    BY <2>1, <2>2, <2>3 DEF TopLevel, Level
  <2>4. CASE Len(stack') > 0 /\ stack'[1].op = "play"
    BY <2>1, <2>2, <2>4 DEF TopLevel, Level
  <2>5. CASE Len(stack') > 1 /\ stack'[1].op = "par"
    BY <2>1, <2>2, <2>5 DEF TopLevel, Level
  <2> QED
    BY <1>1, <2>3, <2>4, <2>5, StackShape
<1> QED
  BY <1>2, <1>3

Restores ==
  TopLevel' # TopLevel => \/ pc' = "caught"
                          \/ stack = <<>> /\ stack' = <<>> /\ action' = action

LEMMA TopLevelStep ==
  ASSUME IInv, IInv', [Next]_vars
  PROVE  Restores
<1>1. TypeOK /\ TypeOK'
  BY DEF IInv
<1>2. /\ Len(stack) \in Nat /\ (stack = <<>> <=> Len(stack) = 0)
      /\ Len(stack) > 0 => stack[1].op \in {"play", "par"}
  BY <1>1, StackShape DEF TypeOK
<1>3. CASE UNCHANGED <<stack, action, port>>
  BY <1>3 DEF TopLevel, InPar, Restores
<1>4. CASE EvalThrows \/ EnterThrows \/ LeafThrows
  BY <1>4 DEF EvalThrows, EnterThrows, LeafThrows, Unwind, Restores
<1>5. CASE \E p \in Ports : CallPort(p)
  <2>1. UNCHANGED <<stack, action>> /\ ~InPar
    BY <1>5 DEF CallPort, Goto, IInv, Control
  <2> QED
    BY <2>1 DEF TopLevel, InPar, Restores
<1>6. CASE CallPlay
  <2>1. stack' = Append(stack, Opened) /\ Opened \in Frame /\ pc = "apply"
    BY <1>1, <1>6 DEF CallPlay, Goto, Connected, TypeOK, Opened, Frame, PlayFrame
  <2>2. /\ Len(stack') = Len(stack) + 1 /\ stack'[Len(stack) + 1] = Opened
        /\ \A i \in 1 .. Len(stack) : stack'[i] = stack[i]
    BY <1>1, <2>1, PushIsAppend DEF TypeOK
  <2>3. Opened.op = "play" /\ Opened.port = port /\ Opened.action = action
    BY DEF Opened
  <2>4. Len(stack) > 0 /\ stack[1].op = "par" => Len(stack) > 1
    BY <1>1, <2>1, <1>2, CallerIsNotPar
  <2> QED
    BY <1>1, <2>2, <2>3, <2>4, <1>2, OutermostLevel DEF Level, Restores
<1>7. CASE ReturnPlay
  <2>1. /\ Len(stack) \in Nat \ {0} /\ Last(stack) = stack[Len(stack)]
        /\ Len(stack') = Len(stack) - 1
        /\ \A i \in 1 .. Len(stack) - 1 : stack'[i] = stack[i]
    BY <1>1, <1>7, PopIsFront DEF TypeOK, ReturnPlay, InPlay
  <2>2. /\ stack[Len(stack)].op = "play"
        /\ port' = stack[Len(stack)].port /\ action' = stack[Len(stack)].action
    BY <1>7, <2>1 DEF ReturnPlay, InPlay, Restore
  <2>3. Len(stack) = 1 => TopLevel = <<port', action'>> /\ Len(stack') = 0
    BY <1>1, <2>1, <2>2, <1>2, OutermostLevel DEF Level, Restores
  <2>4. Len(stack) = 2 /\ stack[1].op = "par" => TopLevel = <<port', action'>>
    BY <1>1, <2>1, <2>2, <1>2, OutermostLevel DEF Level, Restores
  <2> QED
    BY <1>1, <2>1, <2>3, <2>4, <1>2, OutermostLevel DEF Level, Restores
<1>8. CASE ReturnPar
  <2>1. /\ Len(stack) \in Nat \ {0} /\ Last(stack) = stack[Len(stack)]
        /\ Len(stack') = Len(stack) - 1
        /\ \A i \in 1 .. Len(stack) - 1 : stack'[i] = stack[i]
    BY <1>1, <1>8, PopIsFront DEF TypeOK, ReturnPar, InPar
  <2>2. stack[Len(stack)].op = "par" /\ port' = port /\ action' = action
    BY <1>8, <2>1 DEF ReturnPar, InPar
  <2>3. Len(stack) > 1 /\ stack[1].op = "par" => stack[2].op = "play" /\ Len(stack) > 2
    BY <2>1, <2>2 DEF IInv, Nesting
  <2> QED
    BY <1>1, <2>1, <2>2, <2>3, <1>2, OutermostLevel DEF Level, Restores
<1>9. ASSUME NEW c \in Chords, CallPar(c)
      PROVE  Restores
  <2> DEFINE P == [op |-> "par", port |-> port, held |-> Support(c)]
  <2>1. /\ stack' = Append(Append(stack, P), Opened) /\ pc = "apply"
        /\ P \in Frame /\ Opened \in Frame
    BY <1>1, <1>9 DEF CallPar, Goto, Connected, TypeOK, Opened, Frame, PlayFrame, ParFrame,
                      Support
  <2>2. /\ P.op = "par"
        /\ Opened.op = "play" /\ Opened.port = port /\ Opened.action = action
    BY DEF Opened
  <2> HIDE DEF P
  <2>3. /\ Append(stack, P) \in Seq(Frame) /\ Len(Append(stack, P)) = Len(stack) + 1
        /\ \A i \in 1 .. Len(stack) : Append(stack, P)[i] = stack[i]
        /\ Append(stack, P)[Len(stack) + 1] = P
    BY <1>1, <2>1, PushIsAppend DEF TypeOK
  <2>4. /\ Len(stack') = Len(stack) + 1 + 1 /\ stack'[Len(stack) + 1 + 1] = Opened
        /\ \A i \in 1 .. Len(stack) + 1 : stack'[i] = Append(stack, P)[i]
    BY <2>1, <2>3, PushIsAppend
  <2>5. Len(stack) > 0 /\ stack[1].op = "par" => Len(stack) > 1
    BY <1>1, <2>1, <1>2, CallerIsNotPar
  <2>6. CASE stack = <<>>
    BY <1>1, <2>2, <2>3, <2>4, <2>6, <1>2, OutermostLevel DEF Level, Restores
  <2>7. CASE stack # <<>>
    <3>1. /\ Len(stack) > 0 /\ stack'[1] = stack[1]
          /\ Len(stack) > 1 => stack'[2] = stack[2]
      BY <1>1, <2>3, <2>4, <2>7, <1>2, OutermostLevel DEF Level, Restores
    <3> QED
      BY <1>1, <2>4, <2>5, <3>1, <1>2, OutermostLevel DEF Level, Restores
  <2> QED
    BY <2>6, <2>7
<1>10. CASE \/ ReadLine \/ Handler \/ Dead \/ UNCHANGED vars
            \/ EvalNode \/ NodeDone \/ CatchInterrupt \/ FinishLine \/ NullPort
            \/ PlayMusic \/ EnterRest \/ LeafSleep \/ LeafAwakes \/ LeafAsserts \/ LeafDone
  BY <1>3, <1>10
     DEF ReadLine, Handler, Dead, vars, EvalNode, NodeDone, CatchInterrupt, FinishLine,
         NullPort, PlayMusic, EnterRest, LeafSleep, LeafAwakes, LeafAsserts, LeafDone
<1>11. ASSUME NEW c \in Chords, EnterChord(c) \/ \E b \in SUBSET Support(c) : CallSim(c, b)
       PROVE  Restores
  BY <1>3, <1>11 DEF EnterChord, CallSim
<1>12. ASSUME NEW n \in Notes, \/ CallNoteOn(n) \/ CallNoteOff(n)
                               \/ SimOn(n) \/ SimOff(n) \/ PlayOff(n)
       PROVE  Restores
  BY <1>3, <1>12 DEF CallNoteOn, CallNoteOff, SimOn, SimOff, PlayOff
<1> QED
  BY <1>4, <1>5, <1>6, <1>7, <1>8, <1>9, <1>10, <1>11, <1>12 DEF Next, Evaluate

\* play and par leave the outermost context and default action as they found them: every
\* step that changes these is a call of port outside of all activations, or a Ctrl-C.
THEOREM PlayAndParRestore == Spec => TopLevelIsRestored
<1>1. IInv /\ IInv' /\ [Next]_vars => [Restores]_vars
  BY TopLevelStep
<1> QED
  BY <1>1, Invariance, PTL DEF Spec, TopLevelIsRestored, Restores

-----------------------------------------------------------------------------
(* With a single MIDI connection the notes a Ctrl-C has to turn off are    *)
(* the ones active_notes lists.                                            *)

SinglePort == \A p, q \in Ports : p = q

ActiveCoversSound ==
  \A p \in Ports, n \in Notes : <<p, n>> \in sounding \ manual => active[n] > 0

LEMMA ActiveKeepsCovering ==
  ASSUME SinglePort, IInv, ActiveCoversSound, [Next]_vars
  PROVE  ActiveCoversSound'
<1> USE DEF ActiveCoversSound, noteVars
<1>1. TypeOK /\ active \in [Notes -> Nat] /\ (sounding # {} => port \in Ports)
  BY DEF IInv, TypeOK, TurnOffIsConnected
<1>2. CASE UNCHANGED <<noteVars>>
  BY <1>2
<1>3. CASE CatchInterrupt
  <2>1. CASE port = NoPort
    BY <1>2, <1>3, <2>1 DEF CatchInterrupt
  <2>2. CASE port # NoPort
    BY <1>1, <1>3, <2>2 DEF CatchInterrupt, On, Support, SinglePort
  <2> QED
    BY <2>1, <2>2
<1>4. ASSUME NEW n \in Notes, CallNoteOn(n)
      PROVE  ActiveCoversSound'
  BY <1>4 DEF CallNoteOn
<1>5. ASSUME NEW n \in Notes, CallNoteOff(n)
      PROVE  ActiveCoversSound'
  BY <1>5 DEF CallNoteOff, SendOff
<1>6. ASSUME NEW c \in Chords, CallPar(c) \/ EnterChord(c)
      PROVE  ActiveCoversSound'
  <2>1. c \in [Notes -> Nat] /\ SendOn(Support(c)) /\ Insert(c)
    BY <1>6, PlaybackAssumption DEF CallPar, EnterChord
  <2> QED
    BY <1>1, <2>1 DEF SendOn, Insert, Plus, On, Support
<1>7. CASE ReturnPar
  <2>1. PICK held : SendOff(held) /\ EraseAll(held)
    BY <1>7 DEF ReturnPar
  <2> QED
    BY <1>1, <2>1 DEF SendOff, EraseAll, On, SinglePort
<1>8. ASSUME NEW n \in Notes, SimOn(n)
      PROVE  ActiveCoversSound'
  BY <1>1, <1>8 DEF SimOn, Insert, Plus, On
<1>9. ASSUME NEW n \in Notes, SimOff(n)
      PROVE  ActiveCoversSound'
  BY <1>1, <1>9 DEF SimOff, SendOff, EraseAll, On, SinglePort
<1>10. ASSUME NEW n \in Notes, PlayOff(n)
       PROVE  ActiveCoversSound'
  BY <1>1, <1>10 DEF PlayOff, SendOff, EraseOne, Less, On, SinglePort
<1>11. CASE \/ ReadLine \/ Handler \/ Dead \/ UNCHANGED vars
            \/ EvalNode \/ NodeDone \/ EvalThrows \/ FinishLine \/ NullPort
            \/ CallPlay \/ ReturnPlay \/ PlayMusic \/ EnterThrows \/ EnterRest
            \/ LeafSleep \/ LeafAwakes \/ LeafThrows \/ LeafAsserts \/ LeafDone
            \/ \E p \in Ports : CallPort(p)
            \/ \E c \in Chords : \E b \in SUBSET Support(c) : CallSim(c, b)
  BY <1>2, <1>11
     DEF ReadLine, Handler, Dead, vars, EvalNode, NodeDone, EvalThrows, FinishLine,
         NullPort, CallPlay, ReturnPlay, PlayMusic, EnterThrows, EnterRest, LeafSleep,
         LeafAwakes, LeafThrows, LeafAsserts, LeafDone, CallPort, CallSim, Unwind
<1> QED
  BY <1>3, <1>4, <1>5, <1>6, <1>7, <1>8, <1>9, <1>10, <1>11 DEF Next, Evaluate

SilencedByCatch == pc = "caught" /\ pc' = "prompt" => sounding' \subseteq manual'

\* Once a Ctrl-C was caught only notes that note_on asked for sound, provided that
\* all MIDI goes to one connection: whatever par, chord or schedule it broke off,
\* and whatever a sim of an earlier line left on.
THEOREM OnePortIsSilenced ==
  ASSUME SinglePort
  PROVE  Spec => InterruptSilences
<1>1. Init => ActiveCoversSound
  BY DEF Init, ActiveCoversSound
<1>2. IInv /\ ActiveCoversSound /\ [Next]_vars => ActiveCoversSound'
  BY ActiveKeepsCovering
<1>3. IInv /\ ActiveCoversSound /\ [Next]_vars => [SilencedByCatch]_vars
  <2> SUFFICES ASSUME IInv, ActiveCoversSound, Next, pc = "caught", pc' = "prompt"
               PROVE  sounding' \subseteq manual'
    BY DEF SilencedByCatch
  <2>1. CatchInterrupt
    <3> USE DEF Goto, Unwind, Awake
    <3>1. ~(ReadLine \/ Handler \/ Dead)
      BY DEF ReadLine, Handler, Dead, vars
    <3>2. ~(\/ EvalNode \/ NodeDone \/ EvalThrows \/ FinishLine \/ NullPort
            \/ PlayMusic \/ EnterThrows \/ EnterRest
            \/ LeafSleep \/ LeafAwakes \/ LeafThrows \/ LeafAsserts \/ LeafDone)
      BY DEF EvalNode, NodeDone, EvalThrows, FinishLine, NullPort, PlayMusic, EnterThrows,
             EnterRest, LeafSleep, LeafAwakes, LeafThrows, LeafAsserts, LeafDone
    <3>3. ~(\/ CallPlay \/ ReturnPlay \/ ReturnPar
            \/ \E p \in Ports : CallPort(p)
            \/ \E n \in Notes : CallNoteOn(n) \/ CallNoteOff(n)
            \/ \E c \in Chords : CallPar(c) \/ EnterChord(c)
            \/ \E c \in Chords : \E b \in SUBSET Support(c) : CallSim(c, b)
            \/ \E n \in Notes : SimOn(n) \/ SimOff(n) \/ PlayOff(n))
      BY DEF CallPlay, ReturnPlay, ReturnPar, CallPort, CallNoteOn, CallNoteOff, CallPar,
             EnterChord, CallSim, SimOn, SimOff, PlayOff
    <3> QED
      BY <3>1, <3>2, <3>3 DEF Next, Evaluate
  <2>2. CASE port = NoPort
    BY <2>1, <2>2, PlaybackAssumption
       DEF CatchInterrupt, IInv, TurnOffIsConnected, noteVars
  <2>3. CASE port # NoPort
    <3>1. /\ sounding' = sounding \ On(port, Support(active))
          /\ manual' = manual \ On(port, Support(active))
          /\ port \in Ports /\ sounding \subseteq Ports \X Notes
      BY <2>1, <2>3 DEF CatchInterrupt, IInv, TypeOK
    <3>2. ASSUME NEW x \in sounding, x \notin manual
          PROVE  x \in On(port, Support(active))
      <4>1. PICK p \in Ports, n \in Notes : x = <<p, n>>
        BY <3>1
      <4> QED
        BY <3>1, <3>2, <4>1 DEF ActiveCoversSound, On, Support, SinglePort
    <3> QED
      BY <3>1, <3>2
  <2> QED
    BY <2>2, <2>3
<1> QED
  BY <1>1, <1>2, <1>3, Invariance, PTL DEF Spec, InterruptSilences, SilencedByCatch

-----------------------------------------------------------------------------
(* With the handler on the main thread, and no spurious wake-ups, a wait   *)
(* that was woken has been interrupted.                                    *)

WokenIsInterrupted ==
  /\ notifying > 0 \/ waiting = "woken" => interrupted
  /\ pc # "aborted"

LEMMA WokenStaysInterrupted ==
  ASSUME ~SeparateHandler, ~SpuriousWakeups, IInv, WokenIsInterrupted, [Next]_vars
  PROVE  WokenIsInterrupted'
<1> USE DEF WokenIsInterrupted
<1>1. /\ notifying \in Nat
      /\ waiting # "no" => pc = "wait"
      /\ pc \in {"prompt", "run", "apply", "enter", "leaf", "wait", "awake",
                 "caught", "aborted", "crashed"}
  BY DEF IInv, TypeOK, InterruptTypeOK, Control
<1>2. CASE UNCHANGED interruptVars /\ pc' # "aborted"
  BY <1>2 DEF interruptVars
<1>3. CASE EvalThrows \/ EnterThrows
  BY <1>1, <1>3 DEF EvalThrows, EnterThrows, CheckThrows, Unwind, MainRuns
<1>4. CASE LeafSleep \/ LeafAwakes \/ LeafThrows \/ LeafAsserts
  BY <1>1, <1>4 DEF LeafSleep, LeafAwakes, LeafThrows, LeafAsserts, Goto, StartWait,
                    WaitTimesOut, WaitInterrupted, WaitAsserts, Unwind, MainRuns
<1>5. CASE Handler
  BY <1>1, <1>5 DEF Handler, SetFlag, NotifyAll, SpuriousWakeup
<1>6. CASE Dead \/ UNCHANGED vars
  BY <1>1, <1>6 DEF Dead, vars, interruptVars
<1>7. CASE \/ ReadLine \/ EvalNode \/ NodeDone \/ CatchInterrupt \/ FinishLine \/ NullPort
           \/ PlayMusic \/ EnterRest \/ CallPlay \/ ReturnPlay \/ ReturnPar \/ LeafDone
  BY <1>2, <1>7
     DEF ReadLine, EvalNode, NodeDone, CatchInterrupt, FinishLine, NullPort, PlayMusic,
         EnterRest, CallPlay, ReturnPlay, ReturnPar, LeafDone, Goto, CheckPasses
<1>8. CASE \/ \E p \in Ports : CallPort(p)
           \/ \E n \in Notes : CallNoteOn(n) \/ CallNoteOff(n)
           \/ \E n \in Notes : SimOn(n) \/ SimOff(n) \/ PlayOff(n)
           \/ \E c \in Chords : CallPar(c) \/ EnterChord(c)
           \/ \E c \in Chords : \E b \in SUBSET Support(c) : CallSim(c, b)
  BY <1>2, <1>8
     DEF CallPort, CallNoteOn, CallNoteOff, SimOn, SimOff, PlayOff, CallPar, EnterChord,
         CallSim, Goto, Awake, CheckPasses
<1> QED
  BY <1>3, <1>4, <1>5, <1>6, <1>7, <1>8 DEF Next, Evaluate

\* sleep()'s assertion holds when signals are handled on the main thread.
THEOREM MainThreadSleeps ==
  ASSUME ~SeparateHandler, ~SpuriousWakeups
  PROVE  Spec => []OnlyInterruptsEndSleep
<1>1. Init => WokenIsInterrupted
  BY DEF Init, InterruptInit, WokenIsInterrupted
<1>2. IInv /\ WokenIsInterrupted /\ [Next]_vars => WokenIsInterrupted'
  BY WokenStaysInterrupted
<1>3. WokenIsInterrupted => OnlyInterruptsEndSleep
  BY DEF WokenIsInterrupted, OnlyInterruptsEndSleep
<1> QED
  BY <1>1, <1>2, <1>3, Invariance, PTL DEF Spec
=============================================================================
