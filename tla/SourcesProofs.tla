----------------------------- MODULE SourcesProofs -----------------------------
(***************************************************************************)
(* Sources, for any files and bounds: the registry keeps the lines of the  *)
(* session and the lines of the first file of a name.                      *)
(*                                                                         *)
(* The argument: arguments and lines of the REPL are registered at the     *)
(* current number, which is above all numbers given before (NumbersGrow)   *)
(* under a name that no file has (NamesFit); the lines of a file come after *)
(* those its name has.                                                     *)
(***************************************************************************)
EXTENDS Sources, SequenceTheorems, TLAPS

USE SourcesAssumption

-----------------------------------------------------------------------------
(* The registry.                                                           *)

LEMMA ViewIsLine ==
  ASSUME NEW t \in 1 .. MaxTexts, NEW row \in Rows
  PROVE  /\ View(t, row) \in Line /\ View(t, row) # NoLine /\ NoLine \in Line
         /\ \A overlong \in BOOLEAN :
              [View(t, row) EXCEPT !.overlong = overlong] \in Line
BY DEF View, Line, NoLine, Rows

\* A sequence with another one behind it.
Joined(s, a, b) ==
  /\ s \in Seq(Line)
  /\ Len(s) = Len(a) + Len(b)
  /\ \A i \in 1 .. Len(a) + Len(b) : s[i] = IF i <= Len(a) THEN a[i] ELSE b[i - Len(a)]

LEMMA JoinStep ==
  ASSUME NEW a \in Seq(Line), NEW b \in Seq(Line)
  PROVE  Joined(a \o b, a, b)
BY ConcatProperties DEF Joined

\* add_line changes the one line it is told to, and makes it if need be.
LEMMA AddLineStep ==
  ASSUME lines \in [Names -> Seq(Line)], NEW name \in Names, NEW t \in 1 .. MaxTexts,
         NEW k \in Nat \ {0}, AddLine(name, t, k)
  PROVE  /\ lines' \in [Names -> Seq(Line)]
         /\ k \in DOMAIN lines'[name] /\ lines'[name][k] = View(t, 1)
         /\ \A m \in DOMAIN lines[name] : m # k =>
              m \in DOMAIN lines'[name] /\ lines'[name][m] = lines[name][m]
         /\ \A n \in Names : n # name => lines'[n] = lines[n]
<1> DEFINE old == lines[name]
           n == Len(old)
           fill == [i \in 1 .. k - n |-> NoLine]
           padded == old \o fill
<1>1. old \in Seq(Line) /\ n \in Nat /\ DOMAIN old = 1 .. n
  BY LenProperties
<1>2. View(t, 1) \in Line /\ NoLine \in Line
  <2>1. 1 \in Rows
    BY DEF Rows
  <2> QED
    BY <2>1, ViewIsLine
<1>3. fill \in Seq(Line) /\ Len(fill) = IF k <= n THEN 0 ELSE k - n
  <2>1. CASE k <= n
    <3>1. fill = <<>>
      BY <1>1, <2>1
    <3> QED
      BY <2>1, <3>1, EmptySeq
  <2>2. CASE ~(k <= n)
    <3> DEFINE d == k - n
    <3>1. d \in Nat
      BY <1>1, <2>2
    <3>2. fill = [i \in 1 .. d |-> NoLine]
      OBVIOUS
    <3> HIDE DEF d, fill
    <3>3. fill \in [1 .. d -> Line]
      BY <1>2, <3>2
    <3>4. fill \in Seq(Line) /\ Len(fill) = d
      BY <3>1, <3>3
    <3> QED
      BY <2>2, <3>4 DEF d
  <2> QED
    BY <2>1, <2>2
<1>4. /\ padded \in Seq(Line)
      /\ Len(padded) = n + Len(fill)
      /\ \A i \in 1 .. n + Len(fill) : padded[i] = IF i <= n THEN old[i] ELSE fill[i - n]
  <2>1. Joined(padded, old, fill)
    BY <1>1, <1>3, JoinStep, Zenon
  <2> QED
    BY <1>1, <1>3, <2>1 DEF Joined
<1> HIDE DEF fill, padded
<1>5. k \in 1 .. Len(padded) /\ DOMAIN padded = 1 .. Len(padded)
  <2>1. Len(padded) = IF k <= n THEN n ELSE k
    BY <1>1, <1>3, <1>4
  <2>2. DOMAIN padded = 1 .. Len(padded)
    BY <1>4, LenProperties
  <2> QED
    BY <1>1, <2>1, <2>2
<1> DEFINE new == [padded EXCEPT ![k] = View(t, 1)]
<1>6. /\ new \in Seq(Line) /\ DOMAIN new = 1 .. Len(padded)
      /\ \A i \in 1 .. Len(padded) : new[i] = IF i = k THEN View(t, 1) ELSE padded[i]
  BY <1>2, <1>4, <1>5, ExceptSeq
<1>7. lines' = [lines EXCEPT ![name] = new]
  BY DEF AddLine, Padded, padded, fill
<1> HIDE DEF new
<1>8. \A m \in 1 .. n : m # k => m \in DOMAIN new /\ new[m] = old[m]
  BY <1>1, <1>3, <1>4, <1>6
<1> QED
  BY <1>1, <1>5, <1>6, <1>7, <1>8

\* add_file puts the rows of the text behind the lines of the name.
AddFileDone(name, t, rows) ==
  /\ lines' \in [Names -> Seq(Line)]
  /\ \A m \in DOMAIN lines[name] :
       m \in DOMAIN lines'[name] /\ lines'[name][m] = lines[name][m]
  /\ lines[name] = <<>> =>
       \A row \in 1 .. rows :
         /\ row \in DOMAIN lines'[name]
         /\ \E overlong \in BOOLEAN :
              lines'[name][row] = [View(t, row) EXCEPT !.overlong = overlong]
  /\ \A n \in Names : n # name => lines'[n] = lines[n]

LEMMA AddFileStep ==
  ASSUME lines \in [Names -> Seq(Line)], NEW name \in Names, NEW t \in 1 .. MaxTexts,
         NEW rows \in Rows, NEW newline \in BOOLEAN, AddFile(name, t, rows, newline)
  PROVE  AddFileDone(name, t, rows)
<1> DEFINE old == lines[name]
           n == Len(old)
           added == RowsOf(t, rows, newline)
<1>1. old \in Seq(Line) /\ n \in Nat /\ DOMAIN old = 1 .. n
  BY LenProperties
<1>2. \A r \in 1 .. rows : \E overlong \in BOOLEAN :
        added[r] = [View(t, r) EXCEPT !.overlong = overlong]
  BY DEF RowsOf
<1>3. added \in Seq(Line) /\ Len(added) = rows
  <2>1. \A r \in 1 .. rows : r \in Rows
    BY DEF Rows
  <2>2. \A r \in 1 .. rows : added[r] \in Line
    <3> TAKE r \in 1 .. rows
    <3>1. PICK overlong \in BOOLEAN : added[r] = [View(t, r) EXCEPT !.overlong = overlong]
      BY <1>2
    <3> HIDE DEF added
    <3> QED
      BY <2>1, <3>1, ViewIsLine
  <2>3. rows \in Nat /\ DOMAIN added = 1 .. rows /\ added = [r \in 1 .. rows |-> added[r]]
    BY DEF Rows, RowsOf
  <2>4. added \in [1 .. rows -> Line]
    BY <2>2, <2>3
  <2> QED
    BY <2>3, <2>4
<1> HIDE DEF added
<1>4. /\ old \o added \in Seq(Line)
      /\ Len(old \o added) = n + rows
      /\ \A i \in 1 .. n + rows : (old \o added)[i] = IF i <= n THEN old[i] ELSE added[i - n]
  <2>1. Joined(old \o added, old, added)
    BY <1>1, <1>3, JoinStep, Zenon
  <2> QED
    BY <1>1, <1>3, <2>1 DEF Joined
<1>5. lines' = [lines EXCEPT ![name] = old \o added]
  BY DEF AddFile, added
<1>6. lines'[name] = old \o added /\ DOMAIN lines'[name] = 1 .. n + rows /\ rows \in Nat
  BY <1>4, <1>5, LenProperties DEF Rows
<1>7. \A m \in 1 .. n : m \in DOMAIN lines'[name] /\ lines'[name][m] = old[m]
  BY <1>1, <1>4, <1>6
<1>8. old = <<>> => \A r \in 1 .. rows : r \in DOMAIN lines'[name] /\ lines'[name][r] = added[r]
  BY <1>1, <1>4, <1>6
<1> QED
  BY <1>1, <1>2, <1>4, <1>5, <1>7, <1>8 DEF AddFileDone

-----------------------------------------------------------------------------
(* Texts.                                                                  *)

\* The text is the last one, with the current number.
ReadDone(kind, name, loaded, rows) ==
  /\ New \in 1 .. MaxTexts /\ New \notin DOMAIN texts
  /\ texts' \in Seq(Text) /\ DOMAIN texts' = DOMAIN texts \cup {New}
  /\ DOMAIN texts = 1 .. New - 1 /\ Len(texts') = New
  /\ \A t \in DOMAIN texts : texts'[t] = texts[t]
  /\ texts'[New] = [kind |-> kind, name |-> name, loaded |-> loaded,
                    start |-> number, rows |-> rows]

LEMMA ReadStep ==
  ASSUME TypeOK, NEW kind \in {"argument", "short", "long", "input"}, NEW name \in Names,
         NEW loaded \in BOOLEAN, NEW rows \in Rows, Read(kind, name, loaded, rows)
  PROVE  ReadDone(kind, name, loaded, rows)
<1> DEFINE n == Len(texts)
           text == [kind |-> kind, name |-> name, loaded |-> loaded,
                    start |-> number, rows |-> rows]
<1>1. n \in Nat /\ n + 1 <= MaxTexts /\ DOMAIN texts = 1 .. n
  BY LenProperties DEF TypeOK, Read
<1>2. text \in Text
  BY DEF TypeOK, Text
<1>3. texts' = Append(texts, text)
  BY DEF Read
<1> HIDE DEF text
<1>4. /\ texts' \in Seq(Text) /\ Len(texts') = n + 1
      /\ texts'[n + 1] = text /\ \A t \in 1 .. n : texts'[t] = texts[t]
  BY <1>1, <1>2, <1>3 DEF TypeOK
<1>5. DOMAIN texts' = 1 .. n + 1
  BY <1>4, LenProperties
<1> QED
  BY <1>1, <1>4, <1>5 DEF ReadDone, New, text

\* An argument or a line of the REPL: it is registered where no line is.
SessionText(kind, name, rows) ==
  /\ running = 0
  /\ Read(kind, name, FALSE, rows)
  /\ AddLine(name, New, number)
  /\ running' = New
  /\ dangling \subseteq dangling' /\ dangling' \subseteq DOMAIN texts
  /\ misnamed \subseteq misnamed' /\ misnamed' \subseteq Loaded
  /\ UNCHANGED <<phase, kept, number>>

LEMMA SessionTextStep ==
  ASSUME IInv, NEW kind, NEW name, NEW rows \in Rows, SessionText(kind, name, rows),
         \/ kind = "argument" /\ name = "<arguments>" /\ phase = "arguments"
         \/ kind = "input" /\ name = "<repl>" /\ phase = "repl"
  PROVE  IInv'
<1>1. /\ kind \in {"argument", "short", "long", "input"} /\ name \in Names
      /\ name \notin Files /\ FALSE \in BOOLEAN
  BY DEF Names
<1>2. Read(kind, name, FALSE, rows) /\ AddLine(name, New, number)
  BY DEF SessionText
<1>3. TypeOK
  BY DEF IInv
<1>4. /\ New \in 1 .. MaxTexts /\ New \notin DOMAIN texts
      /\ texts' \in Seq(Text) /\ DOMAIN texts' = DOMAIN texts \cup {New}
      /\ DOMAIN texts = 1 .. New - 1 /\ Len(texts') = New
      /\ \A t \in DOMAIN texts : texts'[t] = texts[t]
      /\ texts'[New] = [kind |-> kind, name |-> name, loaded |-> FALSE,
                        start |-> number, rows |-> rows]
  <2>1. ReadDone(kind, name, FALSE, rows)
    BY <1>1, <1>2, <1>3, ReadStep, Zenon
  <2> QED
    BY <2>1 DEF ReadDone
<1>5. /\ lines' \in [Names -> Seq(Line)]
      /\ number \in DOMAIN lines'[name] /\ lines'[name][number] = View(New, 1)
      /\ \A m \in DOMAIN lines[name] : m # number =>
           m \in DOMAIN lines'[name] /\ lines'[name][m] = lines[name][m]
      /\ \A n \in Names : n # name => lines'[n] = lines[n]
  BY <1>1, <1>2, <1>3, <1>4, AddLineStep DEF TypeOK
<1>6. TypeOK'
  BY <1>3, <1>4, <1>5 DEF TypeOK, SessionText, Loaded
<1>7. NamesFit'
  BY <1>4 DEF IInv, NamesFit, SessionText
<1>8. NumbersGrow'
  BY <1>4 DEF IInv, NumbersGrow, OfThisPhase, OfKind, SessionText
<1>9. FirstFileFirst'
  <2> SUFFICES ASSUME NEW t \in OfKind({"short", "long"})', FirstOfItsName(t)',
                      NEW row \in 1 .. texts'[t].rows
               PROVE  /\ row \in DOMAIN lines'[texts'[t].name]
                      /\ \E overlong \in BOOLEAN :
                           lines'[texts'[t].name][row] = [View(t, row) EXCEPT !.overlong = overlong]
    BY DEF FirstFileFirst, View
  <2>1. t \in DOMAIN texts /\ texts'[t] = texts[t] /\ t \in OfKind({"short", "long"})
    BY <1>4 DEF OfKind
  <2>2. FirstOfItsName(t)
    BY <1>4, <2>1 DEF FirstOfItsName
  <2>3. texts[t].name \in Files /\ lines'[texts[t].name] = lines[texts[t].name]
    BY <1>1, <1>5, <2>1 DEF IInv, NamesFit, OfKind, Names
  <2> QED
    BY <2>1, <2>2, <2>3 DEF IInv, FirstFileFirst
<1>10. NamesAreOfTexts'
  <2>1. \A f \in Files : lines'[f] = lines[f]
    BY <1>1, <1>5 DEF Names
  <2> QED
    BY <1>4, <2>1 DEF IInv, NamesAreOfTexts
<1>11. SessionLinesKeepTheirNumber'
  <2> SUFFICES ASSUME NEW t \in OfKind({"argument", "input"})'
               PROVE  RegisteredAt(t, 1)' = View(t, 1)
    BY DEF SessionLinesKeepTheirNumber, View
  <2>1. CASE t = New
    BY <1>3, <1>4, <1>5, <2>1 DEF RegisteredAt, TypeOK
  <2>2. CASE t # New
    <3>1. t \in DOMAIN texts /\ texts'[t] = texts[t] /\ t \in OfKind({"argument", "input"})
      BY <1>4, <2>2 DEF OfKind
    <3>2. texts[t] \in Text /\ t \in 1 .. MaxTexts
      BY <1>3, <1>4, <3>1, ElementOfSeq, LenProperties DEF TypeOK
    <3>3. PICK k \in Nat : k = texts[t].start + 1 - 1
      BY <3>2 DEF Text
    <3>4. k \in DOMAIN lines[texts[t].name] /\ lines[texts[t].name][k] = View(t, 1)
      <4>1. RegisteredAt(t, 1) = View(t, 1)
        BY <3>1 DEF IInv, SessionLinesKeepTheirNumber
      <4>2. View(t, 1) # NoLine
        BY <3>2 DEF View, NoLine
      <4> QED
        BY <3>3, <4>1, <4>2 DEF RegisteredAt
    <3>5. texts[t].name = name => k # number
      <4>1. texts[t].name = name => t \in OfThisPhase /\ phase # "ended"
        BY <3>1 DEF IInv, NamesFit, OfKind, OfThisPhase
      <4>2. running # t
        BY <3>2 DEF SessionText
      <4> QED
        BY <1>3, <3>2, <3>3, <4>1, <4>2 DEF IInv, NumbersGrow, TypeOK, Text
    <3>6. k \in DOMAIN lines'[texts[t].name] /\ lines'[texts[t].name][k] = View(t, 1)
      BY <1>5, <3>2, <3>4, <3>5 DEF Text
    <3> QED
      BY <3>1, <3>3, <3>6 DEF RegisteredAt
  <2> QED
    BY <2>1, <2>2
<1> QED
  BY <1>6, <1>7, <1>8, <1>9, <1>10, <1>11 DEF IInv

\* A file: its lines come behind those of its name.
FileText(kind, name, loaded, rows, newline) ==
  /\ running = 0
  /\ Read(kind, name, loaded, rows)
  /\ AddFile(name, New, rows, newline)
  /\ running' \in {running, New}
  /\ dangling \subseteq dangling' /\ dangling' \subseteq DOMAIN texts
  /\ misnamed \subseteq misnamed' /\ misnamed' \subseteq Loaded
  /\ kept' \in {kept, kept \cup {New}}
  /\ phase' \in {phase, "ended"}
  /\ UNCHANGED number

LEMMA FileTextStep ==
  ASSUME IInv, NEW kind \in {"short", "long"}, NEW name \in Files, NEW loaded \in BOOLEAN,
         NEW rows \in Rows, NEW newline \in BOOLEAN,
         FileText(kind, name, loaded, rows, newline)
  PROVE  IInv'
<1>1. kind \in {"argument", "short", "long", "input"} /\ name \in Names
  BY DEF Names
<1>2. Read(kind, name, loaded, rows) /\ AddFile(name, New, rows, newline)
  BY DEF FileText
<1>3. TypeOK
  BY DEF IInv
<1>4. /\ New \in 1 .. MaxTexts /\ New \notin DOMAIN texts
      /\ texts' \in Seq(Text) /\ DOMAIN texts' = DOMAIN texts \cup {New}
      /\ DOMAIN texts = 1 .. New - 1 /\ Len(texts') = New
      /\ \A t \in DOMAIN texts : texts'[t] = texts[t]
      /\ texts'[New] = [kind |-> kind, name |-> name, loaded |-> loaded,
                        start |-> number, rows |-> rows]
  <2>1. ReadDone(kind, name, loaded, rows)
    BY <1>1, <1>2, <1>3, ReadStep, Zenon
  <2> QED
    BY <2>1 DEF ReadDone
<1>5. /\ lines' \in [Names -> Seq(Line)]
      /\ \A m \in DOMAIN lines[name] :
           m \in DOMAIN lines'[name] /\ lines'[name][m] = lines[name][m]
      /\ lines[name] = <<>> =>
           \A row \in 1 .. rows :
             /\ row \in DOMAIN lines'[name]
             /\ \E overlong \in BOOLEAN :
                  lines'[name][row] = [View(New, row) EXCEPT !.overlong = overlong]
      /\ \A n \in Names : n # name => lines'[n] = lines[n]
  <2>1. PICK t : t = New
    OBVIOUS
  <2>2. lines \in [Names -> Seq(Line)] /\ t \in 1 .. MaxTexts /\ AddFile(name, t, rows, newline)
    BY <1>2, <1>3, <1>4, <2>1 DEF TypeOK
  <2>3. AddFileDone(name, t, rows)
    BY <1>1, <2>2, AddFileStep, Zenon
  <2> QED
    BY <2>1, <2>3 DEF AddFileDone
<1>6. TypeOK'
  BY <1>3, <1>4, <1>5 DEF TypeOK, FileText, Loaded
<1>7. NamesFit'
  BY <1>4 DEF IInv, NamesFit, FileText
<1>8. NumbersGrow'
  BY <1>4 DEF IInv, NumbersGrow, OfThisPhase, OfKind, FileText
<1>9. FirstFileFirst'
  <2> SUFFICES ASSUME NEW t \in OfKind({"short", "long"})', FirstOfItsName(t)',
                      NEW row \in 1 .. texts'[t].rows
               PROVE  /\ row \in DOMAIN lines'[texts'[t].name]
                      /\ \E overlong \in BOOLEAN :
                           lines'[texts'[t].name][row] = [View(t, row) EXCEPT !.overlong = overlong]
    BY DEF FirstFileFirst, View
  <2>1. CASE t = New
    <3>1. \A s \in DOMAIN texts : texts[s].name # name
      BY <1>4, <2>1 DEF FirstOfItsName
    <3>2. lines[name] = <<>>
      BY <3>1 DEF IInv, NamesAreOfTexts
    <3>3. texts'[t].name = name /\ texts'[t].rows = rows
      BY <1>4, <2>1
    <3> QED
      BY <1>5, <2>1, <3>2, <3>3
  <2>2. CASE t # New
    <3>1. t \in DOMAIN texts /\ texts'[t] = texts[t] /\ t \in OfKind({"short", "long"})
      BY <1>4, <2>2 DEF OfKind
    <3>2. FirstOfItsName(t)
      BY <1>4, <3>1 DEF FirstOfItsName
    <3>3. texts[t].name \in Names
      BY <3>1 DEF IInv, NamesFit, OfKind, Names
    <3> QED
      <4>1. /\ row \in DOMAIN lines[texts[t].name]
            /\ \E overlong \in BOOLEAN :
                 lines[texts[t].name][row] = [View(t, row) EXCEPT !.overlong = overlong]
        BY <3>1, <3>2 DEF IInv, FirstFileFirst
      <4>2. /\ row \in DOMAIN lines'[texts[t].name]
            /\ lines'[texts[t].name][row] = lines[texts[t].name][row]
        BY <1>5, <3>3, <4>1
      <4> QED
        BY <3>1, <4>1, <4>2
  <2> QED
    BY <2>1, <2>2
<1>10. NamesAreOfTexts'
  <2>1. \A f \in Files : f # name => lines'[f] = lines[f]
    BY <1>5 DEF Names
  <2>2. texts'[New].name = name /\ New \in DOMAIN texts' /\ \A t \in DOMAIN texts : t \in DOMAIN texts'
    BY <1>4
  <2> QED
    BY <1>4, <2>1, <2>2 DEF IInv, NamesAreOfTexts
<1>11. SessionLinesKeepTheirNumber'
  <2> SUFFICES ASSUME NEW t \in OfKind({"argument", "input"})'
               PROVE  RegisteredAt(t, 1)' = View(t, 1)
    BY DEF SessionLinesKeepTheirNumber, View
  <2>1. t \in DOMAIN texts /\ texts'[t] = texts[t] /\ t \in OfKind({"argument", "input"})
    BY <1>4 DEF OfKind
  <2>2. texts[t].name \in Names /\ texts[t].name # name
    BY <2>1 DEF IInv, NamesFit, OfKind, Names
  <2>3. RegisteredAt(t, 1) = View(t, 1)
    BY <2>1 DEF IInv, SessionLinesKeepTheirNumber
  <2> QED
    BY <1>5, <2>1, <2>2, <2>3 DEF RegisteredAt
<1> QED
  BY <1>6, <1>7, <1>8, <1>9, <1>10, <1>11 DEF IInv

-----------------------------------------------------------------------------
(* The invariant.                                                          *)

LEMMA Initially == Init => IInv
<1> SUFFICES ASSUME Init PROVE IInv
  OBVIOUS
<1>1. texts = <<>> /\ texts \in Seq(Text) /\ Len(texts) = 0 /\ DOMAIN texts = {}
  BY EmptySeq DEF Init
<1>2. \A n \in Names : lines[n] = <<>> /\ <<>> \in Seq(Line)
  BY EmptySeq DEF Init
<1>3. TypeOK
  BY <1>1, <1>2 DEF Init, TypeOK, Loaded
<1>4. NamesFit /\ NumbersGrow /\ FirstFileFirst /\ SessionLinesKeepTheirNumber
  BY <1>1 DEF NamesFit, NumbersGrow, OfThisPhase, FirstFileFirst, SessionLinesKeepTheirNumber, OfKind
<1>5. NamesAreOfTexts
  BY <1>2 DEF NamesAreOfTexts, Names
<1> QED
  BY <1>3, <1>4, <1>5 DEF IInv

LEMMA ArgumentStep ==
  ASSUME IInv, NEW rows \in Rows, RunArgument(rows)
  PROVE  IInv'
<1>1. SessionText("argument", "<arguments>", rows)
  BY DEF RunArgument, Ready, SessionText, views, IInv, TypeOK
<1>2. phase = "arguments"
  BY DEF RunArgument, Ready
<1> QED
  BY <1>1, <1>2, SessionTextStep

LEMMA ReplLineStep ==
  ASSUME IInv, ReplLine
  PROVE  IInv'
<1>1. dangling' \subseteq DOMAIN texts /\ dangling \subseteq dangling'
  BY DEF ReplLine, Input, Overwritten, OfKind, IInv, TypeOK
<1>2. misnamed' \subseteq Loaded /\ misnamed \subseteq misnamed'
  BY DEF ReplLine, Input, IInv, TypeOK
<1>3. SessionText("input", "<repl>", 1)
  BY <1>1, <1>2 DEF ReplLine, Input, Ready, SessionText
<1>4. phase = "repl" /\ 1 \in Rows
  BY DEF ReplLine, Input, Ready, Rows
<1> QED
  BY <1>3, <1>4, SessionTextStep

LEMMA FileSteps ==
  ASSUME IInv, NEW f \in Files, NEW kind \in {"short", "long"}, NEW rows \in Rows,
         NEW newline \in BOOLEAN,
         RunFile(f, kind, rows, newline) \/ DefferFile(f, kind, rows, newline)
           \/ Load(f, kind, rows, newline)
  PROVE  IInv'
<1>1. \A moved \in Moved : moved \subseteq DOMAIN texts
  BY DEF Moved, OfKind
<1>2. CASE RunFile(f, kind, rows, newline) \/ DefferFile(f, kind, rows, newline)
  <2>1. ReadFile(f, kind, rows, newline)
    BY <1>2 DEF RunFile, DefferFile
  <2>2. dangling' \subseteq DOMAIN texts /\ dangling \subseteq dangling'
    BY <1>1, <2>1 DEF ReadFile, IInv, TypeOK
  <2>3. FileText(kind, f, FALSE, rows, newline)
    BY <1>2, <2>1, <2>2 DEF RunFile, DefferFile, ReadFile, Ready, FileText, IInv, TypeOK
  <2> QED
    BY <2>3, FileTextStep
<1>3. CASE Load(f, kind, rows, newline)
  <2>1. PICK moved \in Moved : Input(moved)
    BY <1>3 DEF Load
  <2>2. dangling' \subseteq DOMAIN texts /\ dangling \subseteq dangling'
    BY <1>1, <2>1 DEF Input, Overwritten, OfKind, IInv, TypeOK
  <2>3. misnamed' \subseteq Loaded /\ misnamed \subseteq misnamed'
    BY <2>1 DEF Input, IInv, TypeOK
  <2>4. FileText(kind, f, TRUE, rows, newline)
    BY <1>3, <2>1, <2>2, <2>3 DEF Load, Input, Ready, FileText
  <2> QED
    BY <2>4, FileTextStep
<1> QED
  BY <1>2, <1>3

\* What reads no text: the numbers of the texts and the registry stay.
LEMMA OtherSteps ==
  ASSUME IInv, StartRepl \/ IdleLine \/ Keep \/ Succeed \/ Fail \/ UNCHANGED vars
  PROVE  IInv'
<1>1. UNCHANGED <<texts, lines>>
  BY DEF StartRepl, IdleLine, Keep, Succeed, Fail, vars
<1>2. TypeOK'
  BY <1>1
  DEF IInv, TypeOK, StartRepl, IdleLine, Input, Overwritten, OfKind, Loaded, Keep, Succeed, Fail, vars, views
<1>3. NamesFit'
  BY <1>1
  DEF IInv, NamesFit, StartRepl, IdleLine, Input, Ready, Keep, Succeed, Fail, vars
<1>4. NumbersGrow'
  <2>1. CASE StartRepl
    BY <1>1, <2>1 DEF IInv, NamesFit, NumbersGrow, OfThisPhase, OfKind, StartRepl
  <2>2. CASE IdleLine \/ Keep \/ UNCHANGED vars
    BY <1>1, <2>2
    DEF IInv, TypeOK, NumbersGrow, OfThisPhase, OfKind, IdleLine, Input, Ready, Keep, vars
  <2>3. \A t \in OfThisPhase : texts[t].start \in Nat /\ number \in Nat
    <3>1. \A t \in DOMAIN texts : texts[t] \in Text
      BY ElementOfSeq, LenProperties DEF IInv, TypeOK
    <3> QED
      BY <3>1 DEF IInv, TypeOK, OfThisPhase, OfKind, Text
  <2>4. CASE Succeed
    <3>1. number' = IF Counts THEN number + 1 ELSE number
      BY <2>4 DEF Succeed
    <3>2. \A t \in OfThisPhase : running = t => Counts
      BY <2>4 DEF Succeed, Counts, OfThisPhase, OfKind
    <3> QED
      BY <1>1, <2>3, <2>4, <3>1, <3>2 DEF IInv, NumbersGrow, OfThisPhase, OfKind, Succeed
  <2>5. CASE Fail
    BY <1>1, <2>3, <2>5 DEF IInv, NumbersGrow, OfThisPhase, OfKind, Fail
  <2> QED
    BY <2>1, <2>2, <2>4, <2>5
<1>5. FirstFileFirst' /\ NamesAreOfTexts' /\ SessionLinesKeepTheirNumber'
  BY <1>1
  DEF IInv, FirstFileFirst, FirstOfItsName, View, NamesAreOfTexts, SessionLinesKeepTheirNumber,
      RegisteredAt, OfKind
<1> QED
  BY <1>2, <1>3, <1>4, <1>5 DEF IInv

LEMMA Inductive == IInv /\ [Next]_vars => IInv'
BY ArgumentStep, ReplLineStep, FileSteps, OtherSteps DEF Next

THEOREM Invariance == Spec => []IInv
BY Initially, Inductive, PTL DEF Spec

\* The first row of an argument or of a line of the REPL is found at its number for the
\* rest of the session: Lines::add_line never overwrites one.
THEOREM LinesKeepTheirNumber == Spec => []SessionLinesKeepTheirNumber
<1>1. IInv => SessionLinesKeepTheirNumber
  BY DEF IInv
<1> QED
  BY <1>1, Invariance, PTL

\* The rows of the first file of a name that was numbered from 1 are found at their
\* numbers whatever Lines::add_file appends behind them, while text and name are there.
THEOREM FilesShowTheirLines == Spec => []FileErrorsShowTheirLine
<1>1. IInv => FileErrorsShowTheirLine
  <2> SUFFICES ASSUME IInv, NEW t \in OfKind({"short", "long"}),
                      texts[t].start = 1, FirstOfItsName(t), IsThere(t),
                      NEW row \in 1 .. texts[t].rows
               PROVE  ShowsRow(t, row) \/ RegisteredAt(t, row).overlong
    BY DEF FileErrorsShowTheirLine
  <2>1. PICK overlong \in BOOLEAN :
          /\ row \in DOMAIN lines[texts[t].name]
          /\ lines[texts[t].name][row] = [View(t, row) EXCEPT !.overlong = overlong]
    BY DEF IInv, FirstFileFirst
  <2>2. RegisteredAt(t, row) = [View(t, row) EXCEPT !.overlong = overlong]
    BY <2>1 DEF RegisteredAt
  <2>3. CASE overlong
    BY <2>2, <2>3 DEF View
  <2>4. CASE ~overlong
    BY <2>2, <2>4 DEF View, ShowsRow
  <2> QED
    BY <2>3, <2>4
<1> QED
  BY <1>1, Invariance, PTL
=============================================================================
