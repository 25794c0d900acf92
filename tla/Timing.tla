-------------------------------- MODULE Timing ---------------------------------
(***************************************************************************)
(* When notes are turned on and off: the waits of Interpreter::play        *)
(* (interpreter.cc) for a chord whose notes have lengths, and the schedule *)
(* that sim (builtin_functions.cc) makes of several tracks.                *)
(*                                                                         *)
(* A behaviour performs one line, by play, one chord after the other, or   *)
(* by sim.  Time is that of the clock; lengths are whole multiples of some *)
(* fraction of a whole note, and may be negative, as in c (-1).  Playback  *)
(* has what Ctrl-C, errors and enclosing calls do in between.              *)
(***************************************************************************)
EXTENDS Integers, Sequences, FiniteSetsExt, Functions

CONSTANTS
  Pitches,        \* what MIDI messages name
  Pause,          \* the pitch of a pause: Note::base is not set
  Unset,          \* the length of a note that is written without one
  Never,          \* the time of what did not happen
  DefaultLength,  \* Context::length
  Unit,           \* the time that a note of length 1 takes
  Delays,         \* by how much a sleep may be late
  PlayLines,      \* what is played: a track is a sequence of chords,
  SimLines        \* a line a sequence of tracks

ASSUME TimingAssumption ==
  /\ Pause \notin Pitches
  /\ Unset \notin Int /\ Never \notin Int
  /\ DefaultLength \in Int
  /\ Unit \in Nat
  /\ Delays \subseteq Nat
  /\ \A line \in PlayLines \cup SimLines :
       /\ line \in Seq(Seq(Seq([pitch : Pitches \cup {Pause}, length : Int \cup {Unset}])))

VARIABLES
  mode,        \* "play" and "played", or "schedule", "sim" and "performed"
  tracks,      \* the line
  track, chord,  \* the chord that is next, or under way
  todo,        \* of play: voices to turn off; of sim: instructions
  rest,        \* max_time of play
  passed,      \* passed_time of sim: where the chord begins
  start_time,  \* of sim: the time up to which it has slept
  clock,       \* the time, from the beginning of the line
  began, ended,  \* when each voice was turned on and off
  sounding,    \* the pitches that are heard
  punctual     \* no sleep was late

cursor == <<track, chord>>
vars == <<mode, tracks, cursor, todo, rest, passed, start_time, clock, began, ended,
          sounding, punctual>>

---------------------------------------------------------------------------
(* Voices: notes and pauses of the line.                                   *)

Chord(t, c) == tracks[t][c]
VoicesOf(t, c) == {<<t, c, n>> : n \in DOMAIN Chord(t, c)}
Voices == UNION {UNION {VoicesOf(t, c) : c \in DOMAIN tracks[t]} : t \in DOMAIN tracks}

Written(v) == Chord(v[1], v[2])[v[3]]
Pitch(v) == Written(v).pitch

(* Context::fill *)
Length(v) == IF Written(v).length = Unset THEN DefaultLength ELSE Written(v).length

(* The pitches that notes of these voices sound: a pause sounds none. *)
Sound(voices) == {Pitch(v) : v \in voices} \cap Pitches

LengthToDuration(length) == Unit * length

(* sleep() returns at once from a time that is not positive. *)
Sleep(time) ==
  \E delay \in Delays :
    /\ clock' = clock + (IF time > 0 THEN time ELSE 0) + delay
    /\ punctual' = (punctual /\ delay = 0)

---------------------------------------------------------------------------
(* The line and its tracks.                                                *)

Init ==
  /\ \/ mode = "play" /\ tracks \in PlayLines
     \/ mode = "schedule" /\ tracks \in SimLines
  /\ track = 1 /\ chord = 1
  /\ todo = {}
  /\ rest = 0 /\ passed = 0 /\ start_time = 0 /\ clock = 0
  /\ began = [v \in Voices |-> Never] /\ ended = [v \in Voices |-> Never]
  /\ sounding = {}
  /\ punctual = TRUE

HasChord == track \in DOMAIN tracks /\ chord \in DOMAIN tracks[track]

Next_Track ==
  /\ mode = "schedule" \/ (mode = "play" /\ todo = {})
  /\ track \in DOMAIN tracks /\ chord \notin DOMAIN tracks[track]
  /\ track' = track + 1 /\ chord' = 1
  /\ passed' = 0
  /\ UNCHANGED <<mode, tracks, todo, rest, start_time, clock, began, ended, sounding, punctual>>

---------------------------------------------------------------------------
(* Interpreter::play                                                       *)

(* A chord without notes is a pause of the context's length. *)
Play_Nothing ==
  /\ mode = "play" /\ todo = {} /\ HasChord
  /\ VoicesOf(track, chord) = {}
  /\ Sleep(LengthToDuration(DefaultLength))
  /\ chord' = chord + 1
  /\ UNCHANGED <<mode, tracks, track, todo, rest, passed, start_time, began, ended, sounding>>

(* The notes are sorted by length: the last is one of the longest. *)
IsLongest_First(v, voices) == \A w \in voices : Length(w) >= Length(v)
IsLongest(v, voices) == \A w \in voices : Length(w) <= Length(v)

Turn_On ==
  /\ mode = "play" /\ todo = {} /\ HasChord
  /\ \E v \in VoicesOf(track, chord) :
       IsLongest(v, VoicesOf(track, chord)) /\ rest' = Length(v)
  /\ todo' = VoicesOf(track, chord)
  /\ began' = [v \in Voices |-> IF v \in VoicesOf(track, chord) THEN clock ELSE began[v]]
  /\ sounding' = sounding \cup Sound(VoicesOf(track, chord))
  /\ UNCHANGED <<mode, tracks, cursor, passed, start_time, clock, ended, punctual>>

(* The wait before a note is turned off. *)
Wait_Always(v) ==
  /\ rest' = rest - Length(v)
  /\ Sleep(LengthToDuration(Length(v)))
Wait(v) ==
  IF rest # 0
  THEN /\ rest' = rest - Length(v)
       /\ Sleep(LengthToDuration(Length(v)))
  ELSE UNCHANGED <<rest, clock, punctual>>

(* Of notes of one length any is next. *)
Turn_Off ==
  /\ mode = "play"
  /\ \E v \in todo :
       /\ \A w \in todo : Length(v) <= Length(w)
       /\ Wait(v)
       /\ ended' = [ended EXCEPT ![v] = clock']
       /\ sounding' = sounding \ {Pitch(v)}
       /\ todo' = todo \ {v}
       /\ chord' = IF todo = {v} THEN chord + 1 ELSE chord
  /\ UNCHANGED <<mode, tracks, track, passed, start_time, began>>

Played ==
  /\ mode = "play" /\ todo = {} /\ track \notin DOMAIN tracks
  /\ mode' = "played"
  /\ UNCHANGED <<tracks, cursor, todo, rest, passed, start_time, clock, began, ended,
                 sounding, punctual>>

---------------------------------------------------------------------------
(* sim                                                                     *)

Instruction(when, action, v) == [when |-> when, action |-> action, voice |-> v]

(* The instructions for a note that begins at a time; none for a pause. *)
Instructions_AtOnce(v, at) ==
  IF Pitch(v) = Pause THEN {}
  ELSE {Instruction(at, "On", v), Instruction(at, "Off", v)}
Instructions(v, at) ==
  IF Pitch(v) = Pause THEN {}
  ELSE {Instruction(at, "On", v), Instruction(at + Length(v), "Off", v)}

(* chord_length: that of the longest note or pause, or 0. *)
IsChordLength(length, voices) ==
  /\ length >= 0 /\ \A v \in voices : Length(v) <= length
  /\ length = 0 \/ \E v \in voices : Length(v) = length

Schedule ==
  /\ mode = "schedule" /\ HasChord
  /\ todo' = todo \cup UNION {Instructions(v, passed) : v \in VoicesOf(track, chord)}
  /\ \E length \in {0} \cup {Length(v) : v \in VoicesOf(track, chord)} :
       IsChordLength(length, VoicesOf(track, chord)) /\ passed' = passed + length
  /\ chord' = chord + 1
  /\ UNCHANGED <<mode, tracks, track, rest, start_time, clock, began, ended, sounding, punctual>>

Scheduled ==
  /\ mode = "schedule" /\ track \notin DOMAIN tracks
  /\ mode' = "sim"
  /\ UNCHANGED <<tracks, cursor, todo, rest, passed, start_time, clock, began, ended,
                 sounding, punctual>>

(* std::sort is not stable for more than sixteen instructions: of those for  *)
(* one time any is next.                                                   *)
IsNext(i) == \A j \in todo : i.when <= j.when

(* The wait before an instruction. *)
Catch_Up(time) ==
  IF start_time < time
  THEN Sleep(time - start_time) /\ start_time' = time
  ELSE UNCHANGED <<start_time, clock, punctual>>

Perform ==
  /\ mode = "sim"
  /\ \E i \in todo :
       /\ IsNext(i)
       /\ Catch_Up(LengthToDuration(i.when))
       /\ \/ /\ i.action = "On"
             /\ began' = [began EXCEPT ![i.voice] = clock']
             /\ sounding' = sounding \cup {Pitch(i.voice)}
             /\ UNCHANGED ended
          \/ /\ i.action = "Off"
             /\ ended' = [ended EXCEPT ![i.voice] = clock']
             /\ sounding' = sounding \ {Pitch(i.voice)}
             /\ UNCHANGED began
       /\ todo' = todo \ {i}
  /\ UNCHANGED <<mode, tracks, cursor, rest, passed>>

Performed ==
  /\ mode = "sim" /\ todo = {}
  /\ mode' = "performed"
  /\ UNCHANGED <<tracks, cursor, todo, rest, passed, start_time, clock, began, ended,
                 sounding, punctual>>

Next ==
  \/ Next_Track
  \/ Play_Nothing \/ Turn_On \/ Turn_Off \/ Played
  \/ Schedule \/ Scheduled \/ Perform \/ Performed

Spec == Init /\ [][Next]_vars

---------------------------------------------------------------------------
(* Properties.                                                             *)

Times == Int \cup {Never}

TypeOK ==
  /\ mode \in {"play", "played", "schedule", "sim", "performed"}
  /\ track \in Nat /\ chord \in Nat
  /\ IF mode \in {"play", "played"} THEN todo \subseteq Voices
     ELSE todo \subseteq [when : Int, action : {"On", "Off"}, voice : Voices]
  /\ rest \in Int /\ passed \in Nat /\ start_time \in Nat /\ clock \in Nat
  /\ began \in [Voices -> Times] /\ ended \in [Voices -> Times]
  /\ sounding \subseteq Pitches
  /\ punctual \in BOOLEAN

(* "Turn off each note at right time" (interpreter.cc:300): the waits of a    *)
(* chord add up, one for each note, until their sum is the longest, and     *)
(* those of sim are between messages; no note is turned off before its      *)
(* length is over, whatever the lengths of the others and late sleeps.      *)
NoNoteEndsEarly ==
  \A v \in Voices :
    began[v] # Never /\ ended[v] # Never /\ Length(v) > 0 =>
      ended[v] - began[v] >= LengthToDuration(Length(v))

(* The line as it is written: how long a chord is, and where it begins. *)
IsPlayed == mode \in {"play", "played"}
Longest(S) == IF S = {} THEN 0 ELSE Max(S)
Lasts(t, c) ==
  IF VoicesOf(t, c) = {} /\ IsPlayed THEN Longest({0, DefaultLength})
  ELSE Longest({0} \cup {Length(v) : v \in VoicesOf(t, c)})
Chords == UNION {{<<t, c>> : c \in DOMAIN tracks[t]} : t \in DOMAIN tracks}
Before(v) ==
  {w \in Chords : (w[1] = v[1] /\ w[2] < v[2]) \/ (IsPlayed /\ w[1] < v[1])}
Start(v) == SumFunctionOnSet([w \in Chords |-> Lasts(w[1], w[2])], Before(v))

(* Chords of which every note has the same length. *)
Even(t, c) == \A v, w \in VoicesOf(t, c) : Length(v) = Length(w)
EvenUpTo(v) == Even(v[1], v[2]) /\ \A w \in Before(v) : Even(w[1], w[2])

(* If no sleep is late, every note begins and ends when the line says so:     *)
(* with sim, whatever the lengths in its chords and the other tracks; with  *)
(* play, as long as the notes of each chord have one length.                *)
OnTime ==
  \A v \in Voices :
    punctual /\ Length(v) >= 0 /\ (IsPlayed => EvenUpTo(v)) =>
      /\ began[v] # Never => began[v] = LengthToDuration(Start(v))
      /\ ended[v] # Never => ended[v] = LengthToDuration(Start(v) + Length(v))

(* Behind a line nothing sounds: messages for one time are in any order, and  *)
(* a note off may come before the note on of the same pitch, but the last   *)
(* message of a pitch is a note off, for notes that take any time.          *)
SilentAtEnd ==
  /\ mode \in {"played", "performed"}
  /\ \A v \in Voices : Length(v) > 0
  => sounding = {}

(* Refuted (README, section 6).  "Turn off each note at right time"           *)
(* (interpreter.cc:300): of notes with lengths 1 and 2 the second ends at 3. *)
EachNoteOnTime ==
  \A v \in Voices :
    punctual /\ IsPlayed /\ ended[v] # Never /\ Len(tracks) = 1 /\ Len(tracks[1]) = 1
      /\ (\A w \in Voices : Length(w) > 0) =>
      ended[v] = LengthToDuration(Length(v))

(* Refuted (README, section 6).  "Plays each argument simultaneously"         *)
(* (builtin_functions.cc:459): a note that begins when the same one ends in *)
(* another track may be turned off at once.                                 *)
NotesSound ==
  \A v \in Voices :
    mode = "sim" /\ began[v] # Never /\ ended[v] = Never => Pitch(v) \in sounding

(* Refuted (README, section 6).  Pauses at the end of a line take their time: *)
(* those of sim do not.                                                    *)
LinesLast ==
  \A v \in Voices :
    /\ mode = "performed" /\ punctual
    /\ \A w \in Voices : Length(w) > 0
    => clock >= LengthToDuration(Start(v) + Length(v))
=============================================================================
