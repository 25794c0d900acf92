------------------------------ MODULE MCPlayback ------------------------------
(***************************************************************************)
(* Instances of Playback for TLC.                                          *)
(***************************************************************************)
EXTENDS Playback

\* Chords of at most MaxVoices notes; a chord may hold a note twice.
ChordsOf(MaxVoices) ==
  {c \in [Notes -> 0 .. MaxVoices] : SumFunction(c) \in 1 .. MaxVoices}

OneVoice == ChordsOf(1)
TwoVoices == ChordsOf(2)

Symmetry == Permutations(Notes) \cup Permutations(Ports)
PortSymmetry == Permutations(Ports)
=============================================================================
