-------------------------------- MODULE MCLines --------------------------------
(***************************************************************************)
(* Instances of Collections and of Timing for TLC.  What a line computes   *)
(* and when the notes of a line sound have no state in common, so that a   *)
(* behaviour is either one of Collections, in which nothing is played, or  *)
(* one of Timing, in which nothing is computed.                            *)
(***************************************************************************)
EXTENDS Collections, Timing

LinesInit ==
  \/ /\ CollectionsInit
     /\ mode = "performed" /\ tracks = <<>> /\ track = 1 /\ chord = 1 /\ todo = {}
     /\ rest = 0 /\ passed = 0 /\ start_time = 0 /\ clock = 0
     /\ began = <<>> /\ ended = <<>> /\ sounding = {} /\ punctual = TRUE
  \/ /\ Init
     /\ value = Nil /\ call = NoCall

LinesNext ==
  \/ tracks = <<>> /\ CollectionsNext /\ UNCHANGED vars
  \/ Next /\ UNCHANGED collectionsVars

LinesSpec == LinesInit /\ [][LinesNext]_<<vars, collectionsVars>>

---------------------------------------------------------------------------
(* 1, true, (), (2), (0, 1), (1, (0, 2)) *)
MCOperands ==
  {Num(1), Bool(TRUE), Array(<<>>), Block(<<Num(2)>>), Array(<<Num(0), Num(1)>>),
   Block(<<Num(1), Array(<<Num(0), Num(2)>>)>>)}

(* The bounds that the code computes for 2 to 6 primes. *)
MCSieveSize == [n \in 2 .. 6 |-> CASE n < 4 -> 10 [] n = 4 -> 9 [] n = 5 -> 13 [] n = 6 -> 17]

---------------------------------------------------------------------------
UpTo(S, n) == UNION {[1 .. m -> S] : m \in 0 .. n}
Note(pitch, length) == [pitch |-> pitch, length |-> length]
C == CHOOSE p \in Pitches : TRUE

(* A chord of up to three notes or pauses, of any lengths; or two chords. *)
Lengths == {-1, 0, 1, 2, 3, Unset}
AnyNote == {Note(p, l) : p \in {C, Pause}, l \in Lengths}
SomeNote == {Note(p, 1) : p \in Pitches} \cup {Note(C, 2), Note(Pause, Unset)}
MCPlayLines ==
  {<<<<c>>>> : c \in UpTo(AnyNote, 3)}
  \cup {<<<<c, d>>>> : c, d \in UpTo(SomeNote, 2)}
  \cup {<<<<c>>, <<d>>>> : c, d \in UpTo(SomeNote, 1)}

(* Two tracks of two chords, of which some are pauses or have two notes. *)
SomeChord ==
  {<<n>> : n \in SomeNote}
  \cup {<<Note(C, 1), Note(p, 2)>> : p \in Pitches} \cup {<<>>, <<Note(C, 0)>>, <<Note(C, -1)>>}
MCSimLines ==
  {<<s, t>> : s \in UpTo(SomeChord, 2), t \in UpTo(SomeChord, 2)}
=============================================================================
