-------------------------------- MODULE Sources --------------------------------
(***************************************************************************)
(* Where source texts live, and the registry of lines that errors are      *)
(* shown with: Main, the commands of the REPL, Runner and Lines.           *)
(*                                                                         *)
(* Tokens, and the values made of them, are views into the text they were  *)
(* read from.  A text is an argument of the process, a file that was read  *)
(* into a string of `eternal_sources', or a line in replxx's buffer.  A    *)
(* string of the vector keeps short texts in itself, so that they move     *)
(* when the vector grows; replxx's buffer is overwritten by the next line, *)
(* and with it the name of a file that :load was told to load.             *)
(*                                                                         *)
(* A text knows the name of its location and the number its first line was *)
(* given.  Programs run, define functions that are kept, and fail; what an *)
(* error shows is the line of the registry at the name and the number of   *)
(* its location, read through views that may point to something else by    *)
(* then.                                                                   *)
(***************************************************************************)
EXTENDS Naturals, FiniteSets, Sequences

CONSTANTS
  Files,         \* names of files
  MaxTexts,      \* bound: texts read
  MaxRows        \* bound: lines of a text

ASSUME SourcesAssumption ==
  /\ MaxTexts \in Nat /\ MaxRows \in Nat \ {0}
  /\ {"<arguments>", "<repl>"} \cap Files = {}

VARIABLES
  phase,      \* "arguments", "repl" or "ended"
  texts,      \* the texts read so far
  running,    \* the text that is run, 0 for none
  kept,       \* texts that values of the session are views into
  dangling,   \* texts that are no longer where the views into them point
  misnamed,   \* texts whose name is no longer where the views of it point
  lines,      \* Lines::the: name -> lines
  number      \* repl_line_number

vars == <<phase, texts, running, kept, dangling, misnamed, lines, number>>
views == <<kept, dangling, misnamed>>

Names == Files \cup {"<arguments>", "<repl>"}
Rows == 1 .. MaxRows

Text == [kind : {"argument", "short", "long", "input"}, name : Names, loaded : BOOLEAN,
         start : Nat, rows : Rows]

\* A registered line is a view of a row of a text; it is overlong when its size is npos.
Line == [text : 0 .. MaxTexts, row : 0 .. MaxRows, overlong : BOOLEAN]
NoLine == [text |-> 0, row |-> 0, overlong |-> FALSE]
View(t, row) == [text |-> t, row |-> row, overlong |-> FALSE]

New == Len(texts) + 1
OfKind(kinds) == {t \in DOMAIN texts : texts[t].kind \in kinds}

Init ==
  /\ phase = "arguments"
  /\ texts = <<>>
  /\ running = 0
  /\ kept = {} /\ dangling = {} /\ misnamed = {}
  /\ lines = [n \in Names |-> <<>>]
  /\ number = 1

-----------------------------------------------------------------------------
(* Lines.                                                                  *)

\* add_line: text t is line k of name; the registry is filled up as needed.
Padded(registered, k) == registered \o [i \in 1 .. k - Len(registered) |-> NoLine]
AddLine(name, t, k) ==
  lines' = [lines EXCEPT ![name] =
              [Padded(@, k) EXCEPT ![k] = View(t, 1)]]

\* add_file: the lines of text t follow the ones the name already has; the size of
\* the last one is npos when it does not end in a newline.
RowsOf(t, rows, newline) ==
  [r \in 1 .. rows |-> [View(t, r) EXCEPT !.overlong = r = rows /\ ~newline]]
AddFile_Replaces(name, t, rows, newline) ==
  lines' = [lines EXCEPT ![name] = RowsOf(t, rows, newline)]
AddFile(name, t, rows, newline) ==
  lines' = [lines EXCEPT ![name] = @ \o RowsOf(t, rows, newline)]

\* The parser numbers the lines of every text from repl_line_number.
Read(kind, name, loaded, rows) ==
  /\ Len(texts) < MaxTexts
  /\ texts' = Append(texts, [kind |-> kind, name |-> name, loaded |-> loaded,
                             start |-> number, rows |-> rows])

\* eternal_sources.emplace_back: it may have to grow, and then the short ones move.
Moved == {{}, OfKind({"short"})}

\* Replxx::input: the buffer with all lines before is overwritten.
Overwritten == OfKind({"input"})
Loaded == {t \in DOMAIN texts : texts[t].loaded}

-----------------------------------------------------------------------------
(* Main.                                                                   *)

Ready(p) == phase = p /\ running = 0

RunArgument(rows) ==
  /\ Ready("arguments")
  /\ Read("argument", "<arguments>", FALSE, rows)
  /\ AddLine("<arguments>", New, number)
  /\ running' = New
  /\ UNCHANGED <<phase, views, number>>

ReadFile(f, kind, rows, newline) ==
  /\ Ready("arguments")
  /\ Read(kind, f, FALSE, rows)
  /\ \E moved \in Moved : dangling' = dangling \cup moved
  /\ AddFile(f, New, rows, newline)
  /\ UNCHANGED <<misnamed, number>>

RunFile(f, kind, rows, newline) ==
  /\ ReadFile(f, kind, rows, newline)
  /\ running' = New
  /\ UNCHANGED <<phase, kept>>

\* deffered_file: the file becomes a function, unless it cannot be parsed.
DefferFile(f, kind, rows, newline) ==
  /\ ReadFile(f, kind, rows, newline)
  /\ \/ kept' = kept \cup {New} /\ UNCHANGED phase
     \/ phase' = "ended" /\ UNCHANGED kept
  /\ UNCHANGED running

StartRepl ==
  /\ phase = "arguments" /\ phase' = "repl"
  /\ running = 0
  /\ number' = 1
  /\ UNCHANGED <<texts, running, views, lines>>

Input(moved) ==
  /\ Ready("repl")
  /\ dangling' = dangling \cup Overwritten \cup moved
  /\ misnamed' = misnamed \cup Loaded
  /\ UNCHANGED <<phase, kept, number>>

\* A line of the REPL that is not a command.
ReplLine ==
  /\ Input({})
  /\ Read("input", "<repl>", FALSE, 1)
  /\ AddLine("<repl>", New, number)
  /\ running' = New

\* An empty line, or a command that runs nothing.
IdleLine ==
  /\ Input({})
  /\ UNCHANGED <<texts, running, lines>>

\* A line that is the command :load; the command itself leaves no views of the line,
\* except of the name in it.
Load(f, kind, rows, newline) ==
  /\ \E moved \in Moved : Input(moved)
  /\ Read(kind, f, TRUE, rows)
  /\ AddFile(f, New, rows, newline)
  /\ running' = New

-----------------------------------------------------------------------------
(* Runner::run.                                                            *)

\* A function, block or symbol of the running text is stored in a variable.
Keep ==
  /\ running # 0
  /\ kept' = kept \cup {running}
  /\ UNCHANGED <<phase, texts, running, dangling, misnamed, lines, number>>

Counts == running # 0 /\ texts[running].kind \in {"argument", "input"}

Succeed ==
  /\ running # 0
  /\ running' = 0
  /\ number' = IF Counts THEN number + 1 ELSE number
  /\ UNCHANGED <<phase, texts, views, lines>>

\* An error is shown, and ends the program unless it came from a line of the REPL:
\* errors of arguments, of files, and of a file that :load runs, end it.
Fail_SameNumber ==
  /\ running # 0
  /\ running' = 0
  /\ IF texts[running].kind = "input"
     THEN UNCHANGED <<phase, number>>
     ELSE phase' = "ended" /\ UNCHANGED number
  /\ UNCHANGED <<texts, views, lines>>
Fail ==
  /\ running # 0
  /\ running' = 0
  /\ IF texts[running].kind = "input"
     THEN number' = number + 1 /\ UNCHANGED phase
     ELSE phase' = "ended" /\ UNCHANGED number
  /\ UNCHANGED <<texts, views, lines>>

Next ==
  \/ \E rows \in Rows : RunArgument(rows)
  \/ \E f \in Files, kind \in {"short", "long"}, rows \in Rows, newline \in BOOLEAN :
       \/ RunFile(f, kind, rows, newline)
       \/ DefferFile(f, kind, rows, newline)
       \/ Load(f, kind, rows, newline)
  \/ StartRepl \/ ReplLine \/ IdleLine
  \/ Keep \/ Succeed \/ Fail

Spec == Init /\ [][Next]_vars
-----------------------------------------------------------------------------
(* Properties.                                                             *)

\* Every variable has its type.
TypeOK ==
  /\ phase \in {"arguments", "repl", "ended"}
  /\ texts \in Seq(Text)
  /\ running \in 0 .. Len(texts)
  /\ kept \subseteq DOMAIN texts /\ dangling \subseteq DOMAIN texts
  /\ misnamed \subseteq Loaded
  /\ lines \in [Names -> Seq(Line)]
  /\ number \in Nat \ {0}

\* An error in a row of a text shows that row of that text.
RegisteredAt(t, row) ==
  LET k == texts[t].start + row - 1
  IN  IF k \in DOMAIN lines[texts[t].name] THEN lines[texts[t].name][k] ELSE NoLine
IsThere(t) == t \notin dangling /\ t \notin misnamed
ShowsRow(t, row) == IsThere(t) /\ RegisteredAt(t, row) = View(t, row)

\* The first row of an argument or of a line of the REPL keeps its number in the
\* registry to the end of the session: after lines that failed, files that were loaded
\* and commands, no later line is given the number of an earlier one.
SessionLinesKeepTheirNumber ==
  \A t \in OfKind({"argument", "input"}) : RegisteredAt(t, 1) = View(t, 1)

\* Errors in a file show their lines if its lines were numbered from 1 and it was
\* the first file of its name, whatever is read and loaded later, for as long as the
\* text and its name are there; the last line only if the file ends in a newline.
FirstOfItsName(t) == \A s \in 1 .. t - 1 : texts[s].name # texts[t].name
FileErrorsShowTheirLine ==
  \A t \in OfKind({"short", "long"}) :
    texts[t].start = 1 /\ FirstOfItsName(t) /\ IsThere(t) =>
      \A row \in 1 .. texts[t].rows : ShowsRow(t, row) \/ RegisteredAt(t, row).overlong

\* The inductive invariant behind these.  Texts of the command line and of the REPL have
\* names of their own, and lines of the REPL come after the last argument; while they are
\* read, every number below the current one was given, and the current one only to the
\* text that runs; a file's name has lines only if a text has the name, and the
\* first text of a name has the first of them.
NamesFit == \A t \in DOMAIN texts :
  /\ texts[t].kind = "argument" => texts[t].name = "<arguments>"
  /\ texts[t].kind = "input" => texts[t].name = "<repl>" /\ phase # "arguments"
  /\ texts[t].kind \in {"short", "long"} => texts[t].name \in Files

OfThisPhase == IF phase = "arguments" THEN OfKind({"argument"}) ELSE OfKind({"input"})
NumbersGrow == phase # "ended" =>
  \A t \in OfThisPhase : texts[t].start < number \/ (texts[t].start = number /\ running = t)

FirstFileFirst == \A t \in OfKind({"short", "long"}) :
  FirstOfItsName(t) =>
    \A row \in 1 .. texts[t].rows :
      /\ row \in DOMAIN lines[texts[t].name]
      /\ \E overlong \in BOOLEAN :
           lines[texts[t].name][row] = [View(t, row) EXCEPT !.overlong = overlong]

NamesAreOfTexts == \A f \in Files :
  lines[f] # <<>> => \E t \in DOMAIN texts : texts[t].name = f

IInv ==
  /\ TypeOK
  /\ NamesFit /\ NumbersGrow /\ FirstFileFirst /\ NamesAreOfTexts
  /\ SessionLinesKeepTheirNumber

\* Refuted (README, section 6).  A location's line is the line of its text that an error
\* shows while it is run.
ErrorsShowTheirLine ==
  running # 0 => \A row \in 1 .. texts[running].rows :
                   RegisteredAt(running, row) \in {View(running, row),
                                                  [View(running, row) EXCEPT !.overlong = TRUE]}

\* Refuted (README, section 6).  A line that an error shows is a line: its view ends.
LinesEnd == \A n \in Names : \A k \in DOMAIN lines[n] : ~lines[n][k].overlong

\* Refuted (README, section 6).  File sources stay where they are through the life of
\* the program.
SourcesAreEternal == OfKind({"short", "long"}) \cap kept \cap dangling = {}

\* Refuted (README, section 6).  Input lines stay, since there could be values that
\* still rely on them.
InputIsNotFreed == OfKind({"input"}) \cap kept \cap dangling = {}

\* Refuted (README, section 6).  The file name of a location is that of its file.
LocationsNameTheirFile == kept \cap misnamed = {}
=============================================================================
