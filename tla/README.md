# Verification of the Musique interpreter

Musique is an interpreter of a small language for live music: a line is read,
parsed, evaluated, and its notes go out as MIDI messages. This directory holds
TLA+ models of the interpreter under `musique/`, TLC configurations that check
them on small instances, and TLAPS proofs of what holds for every instance.

## 1. Inventory

| Component | State | Operations | Hard behaviours |
|---|---|---|---|
| Ctrl-C protocol (`interpreter.cc` 474-500, `main.cc` 205-211) | flag `interrupted`, `condvar`, `mu` | `issue_interrupt`, `handle_potential_interrupt`, `sleep` | flag and notification are two steps; a wait without predicate; handler on another thread |
| Playback (`interpreter.cc` 272-343, `builtin_functions.cc` `play`, `par`, `sim`, `port`, `note_on`, `note_off`) | `current_context`, `default_action`, `active_notes`, what sounds on the devices | the builtins, `Interpreter::play`, `turn_off_all_active_notes` | exceptions that skip the `finally`, nested activations, notes of several ports in one multiset |
| Runner and REPL (`runner.cc`, `main.cc`) | source texts, `Lines::the`, `repl_line_number`, `default_options` | `run`, `deffered_file`, `:load`, `:time`, `-f`, `-c`, `--repl` | values that keep views into a source text; what an error ends |
| Starter (`starter.cc`, Ableton Link) | `stop` flag, condition variable, session state shared with peers | `start`, `stop`, the start thread, the start-stop callback | lost wake-ups, a thread that outlives the call, peers |
| Connections (`context.cc`, `rt_midi.cc`) | `established_connections`, `Context::port` | `connect`, `port` | one physical port opened twice, a key for another port |
| Scopes (`env.cc`, `block.cc`, `interpreter.cc`) | `Interpreter::env`, frames and their parents | definition, assignment, block call | early return and exceptions that leave a scope entered |
| Evaluator and operators (`interpreter.cc`, `builtin_operators.cc`) | - | `eval`, operators | evaluation order of assignments |
| Lexer, lines, errors (`lexer/`, `errors.cc`) | cursor, token, `Lines::the` | `next_token`, `add_line`, `add_file`, `print` | end of input inside a token, line numbers that do not start at 1 |
| Parser (`parser.cc`) | token index | `parse_*` | precedence, dropped errors |
| Numbers (`number.cc`) | numerator, denominator | arithmetic, rounding, powers | overflow of `int`, signs, zero denominators |
| Values (`note.cc`, `chord.cc`, `array.cc`, `value.cc`) | - | indexing, calls and arithmetic of notes and chords | negative remainders, bounds, which argument is a length of which chord |
| Timing (`interpreter.cc` 272-313, `sim`) | what is to be turned off, the time slept for | waits of a chord, schedule of several tracks | waits that add up, messages for one time, late sleeps |
| Collection builtins (`builtin_functions.cc`) | - | `up`, `down`, `range`, `rotate`, `mix`, `update`, ... | zero and one-off bounds |
| Program arguments (`program_arguments.cc`) | the remaining arguments | `accept_commandline_argument` | how many arguments a parameter takes |
| Not part of the core: formatting (`format.cc`, `pretty.cc`), Unicode tables, `user_directory.cc`, `random.cc`, documentation scripts, `lib/` | | | |

How the parts interact: `Main` reads texts and hands each to `Runner::run`,
which parses it and calls `Interpreter::eval`. `eval` changes scopes, calls
builtins, and through `default_action` calls `play`. `play`, `par` and `sim` send
note messages through the port of `current_context`, sleep on the interpreter's
condition variable, and keep `active_notes` for the Ctrl-C path. A Ctrl-C is
handled on another thread or in the middle of the main one; it is an exception
that only `Runner::run` catches. `start` waits on a condition variable of its own
for a thread it made, or for a callback of Link's thread, and `Runner::run` stops
the session after every Ctrl-C.

What makes each part correct:

- Ctrl-C: a line that was interrupted ends; nothing but an interrupt ends a sleep early.
- Playback: no note is left sounding except by a Ctrl-C, by `note_on`, or by a `sim`
  whose lengths are not positive; the multiset of active notes is what will be turned
  off; every builtin restores the context and the default action it found.
- Starter: `start()` returns only in a session somebody started since, and does
  return; no thread that was left behind starts the session later.
- Connections: the table of connections is right about each entry, `port` without
  arguments answers, and the virtual port stays.
- Scopes: code runs in the scope of its block and of its own call, in whatever
  way the calls it makes end.
- Sources: values may refer to the text they came from for as long as they live,
  and an error shows the line it happened in.
- Lexer: tokens and blanks make up the source, tokens are where their location says,
  and a source whose comments are closed comes to an end.
- Timing: no note ends before its length is over; what is written is when it is heard.
- Parser: what has a meaning is read as that and nothing of it is lost; operators
  group by precedence; brackets that close nothing are reported.
- Numbers: arithmetic is that of fractions, results are in lowest terms with a
  positive denominator, comparison agrees with it, rounding takes a nearest integer.
- Music: it moves by semitones, lengths go to the chords before them, and `duration`
  says what `play` takes.
- Collections: every element goes to its place, whatever the sizes and signs; loops
  end; what is selected is what the comparison says.

## 2. Modules

| Module | What it models | Code |
|---|---|---|
| `Interrupt` | the flag, the condition variable and the signal handlers, the main thread being awake or asleep | `interpreter.cc` 474-500, `main.cc` 205-211 |
| `Playback` (extends `Interrupt`) | the main thread: evaluation, activations of `play` and `par`, `Interpreter::play`, `sim`, `port`, `note_on`, `note_off`, errors, the catch of a Ctrl-C | `interpreter.cc` 272-343, `builtin_functions.cc`, `runner.cc` 52-84 |
| `PlaybackProofs` | the inductive invariant `IInv` and what follows from it | |
| `Link` | of Ableton Link: each instance's belief whether the session plays, commits, messages of peers in any order and of any age, and Link's thread: it adopts a state, decides whether the callback is due, and calls it | external library, from `starter.cc`'s use of it and its vendored source |
| `Starter` (extends `Link`) | `Starter::start`, `stop`, the start thread, the callback | `starter.cc` 16-87 |
| `StarterProofs` | the inductive invariant of `Starter`, and that it implements `StartBarrier` | |
| `StartBarrier` | what `start` promises: the abstract specification `Starter` refines | `builtin_functions.cc` 1631-1648 |
| `Connections` | `Context::connect`, the table of connections, `port`, devices that come and go | `context.cc`, `rt_midi.cc`, `builtin_functions.cc` 1725-1756 |
| `ConnectionsProofs` | its inductive invariant and the safety theorems | |
| `Scopes` | `Env`, `Interpreter::env`, calls, definitions, assignments, blocks, `try`, errors, Ctrl-C | `env.cc`, `block.cc`, `interpreter.cc` 78-259 |
| `ScopesProofs` | its inductive invariant and the safety theorems | |
| `Sources` | texts, the registry of lines, `Main`, `:load`, deferred files | `main.cc`, `runner.cc`, `lines.cc` |
| `SourcesProofs` | its inductive invariant and the safety theorems | |
| `Parser` | `Parser::parse` and every function below it, over token classes | `parser.cc`, `parser.hh` |
| `Lexer` | the cursor of the lexer with its locations and rewinds, comments, and each kind of token, over classes of runes | `lexer.cc`, `location.cc`, `unicode.cc` 96-129 |
| `LexerProofs` | the inductive invariant of the lexer, by which no text is lost, tokens are where they say and are whole | |
| `Timing` | the waits of `Interpreter::play` for a chord with any lengths; the schedule of `sim` and how it is performed | `interpreter.cc` 272-313, `builtin_functions.cc` 478-569 |
| `TimingProofs` | the inductive invariants by which no note ends early, every note is turned off, and nothing but lengths and delays moves a note | |
| `Numbers` | `Number`: literals, arithmetic, powers, remainders, rounding | `number.cc`, `builtin_functions.cc` (`round`, `pow`, ...), `builtin_operators.cc` |
| `Music` (extends `Numbers`) | notes and chords: literals, octaves, the operators and functions that take them, the call of a chord | `note.cc`, `chord.cc`, `builtin_operators.cc` 61-110, 181-205, 280-302, `builtin_functions.cc` (`chord`, `set_len`, `set_oct`, `duration`) |
| `MusicProofs` | types of every operation, and the theorems on arithmetic, order, rounding, remainders, moves, calls of a chord and `duration` | |
| `Collections` | the operators on arrays, blocks, booleans and nil, and the functions on collections | `builtin_operators.cc`, `builtin_functions.cc`, `array.cc`, `value.cc`, `algo.hh` |
| `MCPlayback`, `MCStarter`, `MCConnections`, `MCScopes`, `MCSources`, `MCLexer`, `MCParser`, `MCMusic` (with `Numbers`), `MCLines` (`Collections` and `Timing`) | instances for TLC | |

How state corresponds to code:

- `Playback`: `stack` is the native stack of `builtin_play` and `builtin_par`
  activations with what their `finally` will restore; `action` is
  `default_action`; `port` is `current_context->port`; `leaf`, `ons` and `offs` are
  the routine that is playing and what it has still to send; `active` is the
  multiset `active_notes`; `sounding` is what the devices were told. `manual` and
  `hung` are history variables: why a sounding note has no activation that will
  turn it off, and `stale` why an entry of `active` has none that will erase it: a
  note of `sim` with a length that is not positive is among `backwards`, and its
  messages may be sent in either order, as `builtin_sim` sorts them by time only.
  Each wait of `play` and `sim` is an action, so that a Ctrl-C comes
  between any two messages. Programs are not modelled: evaluation may do any of the
  calls next, which covers every program.
- `Starter`: the k-th `State` object of an instance is the number k; `thread[i][k]`
  and `stopped[i][k]` outlive the call that made it, as the `shared_ptr`s do.
  `link[i]` is where Link's thread is: it adopts a state, decides under the lock of the
  client state whether the callback is due, and calls what is registered by then after
  that lock is released (`Controller.hpp` 341-355), so that `Register` may come between
  the decision and the call. `start()` looks at the client state; `looked` and `seen`
  are history variables, that state and the last one Link's thread was through with by
  then. The two are the same when that thread is idle and has no commit of the
  instance to handle (`LinkIsThrough`).
- `Connections`: `conns` are the connections that were ever opened, with what they
  lead to; the table maps keys to them; `contexts` are nested by `play`.
- `Scopes`: scopes are numbered as they are made; `alive` follows the reference
  counts, `stack` holds the evaluations under way with the C++ locals that matter
  afterwards: `old_scope` of a call, the raw pointer that an assignment will store
  through, and the place of every `try`. `left` is a history variable.
- `Sources`: `dangling` and `misnamed` hold the texts whose views do not point to
  them any more; `lines` is `Lines::the`; `number` is `repl_line_number`.
- `Parser`: `tokens` grows one by one, so that a behaviour writes a source and ends it
  with a parse. A parse function takes the parser (tokens and position) and gives
  the tree or the error together with the parser afterwards: `parse_many` goes on
  after an error from where it happened. `Exited` is the end of the program by an
  assertion, and what is read behind the last token is a choice.
- `Lexer`: `cursor` is the remaining `source` with `location`, `prev_location` and
  `last_rune_length`; a rune is a name, one for all that the lexer does not tell apart,
  and two for code points whose last eight bits are those of an operator, since
  `find()` takes a `char`. The loops of `skip_whitespace_and_comments` are actions,
  the search for the end of a comment one action for each rune, as it may not end; a
  token is read in one. `tokens` keeps for each its place and location.
- `Timing`: a line is tracks of chords of notes and pauses with lengths; `rest` is
  `max_time`, `todo` what `play` has to turn off or `sim` to send, in any order among
  equals, as `std::sort` leaves it. `began` and `ended` are history variables, the
  times at which each note was turned on and off on a `clock` that every sleep moves
  by its time and some delay.
- `Numbers`: `value` is the number of a variable as `Value` stores it, that is,
  simplified. A literal has at most 18 digits behind its point, as `pow10` has them (`Readable`). Most functions leave results unsimplified: the properties apply every
  operation to every value that is reached, and every operand, and look at the result
  before it is stored. Integers are unbounded but for the `int` in which common
  denominators are computed.
- `Music`: the variable of `Numbers` may hold music: one chord, or an array of chords.
  A note is its `base`, `octave` and `length`, each of which may be `Unset`. Operations
  are those of `Numbers` and the ones that take or give music, so that bases and octaves
  are those that chains of operations lead to; the arguments of a call of a chord are
  folded one after the other, as the loop of `Chord::operator()` does.
- `Collections`: `value` is a variable and `call` the call whose result it will get;
  the other operands come from a small set. `Undefined` is a read or write outside of
  an array, `Crashed` the end of the program, `Endless` a loop that does not end. A
  block stands for what its elements evaluate to. `unsigned` positions and 64-bit
  offsets keep a width.

Definitions with a suffix (`Restore_NoContext`, `Fail_SameNumber`, ...) are the
definition after which they are named with a plausible bug in it. They are used by
nothing: replacing the definition by its variant makes TLC find the property that
guards it violated.

## 3. Runs

| Run | Question | Bounds, and why they are enough |
|---|---|---|
| `playback` | Is every sounding note owned by somebody who will turn it off, is `active_notes` consistent, do `play` and `par` restore what they found, is `IInv` an invariant? | one note, 2 ports, chords of up to two voices (the note twice), nesting 4 (`par` in `play` in `par` in `play`), two handlers at once on their own threads, spurious wake-ups, one note at a time that a `sim` left on. Two ports are what the confusions need: same note, other port; of the activations one is an outer one, one fails and one is what is restored. Two different notes are in `playback_one_port`. |
| `playback_one_port` | With one MIDI port: does a Ctrl-C silence everything but `note_on`'s notes, and does it end the line? Is `IInv` an invariant with two notes? | one port, two notes, chords of two of them, nesting 2 (`play` in `par`), a handler on its own thread; fairness `FairSpec` |
| `playback_late_notify` (violation) | Does only an interrupt end a sleep? | one note, no spurious wake-ups |
| `starter` | Does `start()` return only in a session started since; does a thread that counts belong to the call that waits; does `Starter` implement `StartBarrier`? | two instances, one of which has spurious wake-ups, two waiting calls, one commit from elsewhere before them; two calls are what a late callback, or one decided before, needs to meet the wrong one |
| `starter_waits` | Is a waiting main thread with a counting start thread woken? | two instances without spurious wake-ups, two waiting calls; fairness `FairSpec` |
| `connections` | Is the table right about the key of each connection, does the virtual port stay? | two devices, four connections opened, nesting 3: a device unplugged and another one under its number, with an outer context that still holds the first |
| `scopes` | Does code run in its own scope, do stores go to scopes that exist? | one name (which shadows itself), blocks with one parameter, three scopes, nesting 3: a call in a `try` in a call, an assignment around a call |
| `sources` | Do lines keep their numbers in the registry, and files that are run first show theirs? | three texts of up to two lines, two files: a file, a second one, and a line or a `:load` |
| `parser` | Does a tree follow its source, is a well-formed source read as what it means, do chains group by precedence? | every source over four alphabets: brackets (9 tokens, length 6), operators (4 tokens, length 9), other words (7, length 5), parameters (6, length 7). A block with two parameters and a body, and a chain with each relation of three adjacent operators, fit |
| `lexer` | Do tokens and blanks make up the source, are tokens located where they stand, does none end where it could go on, does a source whose comments are closed come to an end? | every source over seven alphabets: comments (3 runes, length 8: an opened and a closed comment with something in between; and 6 runes, length 5), numbers and operators (6, length 5), bars (6, length 4), chords and symbols (6, length 5), keywords (7, length 4), what is no rune (5, length 5) |
| `numbers` | Are results exact, ordered as they should be, rounded to a nearest integer; does `%` of a fraction solve its congruence? Does music move by semitones, does a length go to the chord before it, does `duration` agree with `play`? | 11 literals from -2 to 3 with halves and a quarter, chains of operations on numbers with parts up to 16, an `int` of 30 values, which holds the tenths of a literal and not its hundredths, so that common denominators overflow it at once or after a few operations; three notes (a flat c, one without octave, a pause), moved and lengthened by 8 and -8.5, in chords and arrays of two, octaves -8, 8 and 9, where they are clamped; calls with every two of four arguments, and lengths behind each of two notes |
| `lines` | Where do `rotate` and `mix` put elements, what does a mask select, which digits has a fraction? Is no note turned off before its length is over, do chords of one length and `sim` keep time, is a line silent behind its end? | `Collections` and `Timing` have no variable in common; a behaviour is one of either. Arrays of up to 3 elements from 0 to 3 and booleans, nested once; six operands; `unsigned` of 8 values and words of 32, so that positions and offsets wrap. All chords of up to three notes and pauses with lengths -1 to 3, two chords in a row or in two tracks, and two tracks of two chords for `sim`; sleeps late by nothing or by half the shortest length. Three notes are what the sum of waits needs to pass the longest length |

The inductive invariants of the proof modules (`IInv` of `StarterProofs`, `ConnectionsProofs`,
`ScopesProofs`, `SourcesProofs`, `LexerProofs` and `TimingProofs`, `Quiet` and `InTime` of `TimingProofs`) hold
in the instances of their runs; they were checked there before they were proved. The two runs
of `Playback` list its own.

The type invariants of all modules (section 5 says which are proved), `NormalForm` of `Numbers`, `UnopenedParenIsReported`
of `Parser`, `TurnOffIsConnected` and `DefaultActionIsPlay` of `Playback` hold in the same
instances when they are put in the place of their properties, and `LinkIsThrough` in that of
`starter`; they are shallow, or parts of what the runs list, and no run lists them.

`connections`, `scopes`, `sources`, `starter`, `starter_waits`, `parser`, `lexer`, `numbers`
and `lines` switch the check for deadlock off: their bounds on what is created or computed
stop them, and a program that crashed, or whose source was lexed, parsed or played, has ended; `playback` has no such bound and
its runs check it.

## 4. Fairness

`FairSpec` of `Playback` assumes that evaluation of a line goes on, that a sleep
ends when its time is over and that a handler that set the flag gets to notify:
the thread of the interpreter is scheduled, `wait_for` has a timeout, and nothing
between the two statements of `issue_interrupt` blocks. It does not assume that a
line ends: a line may loop for ever, and `InterruptReturnsToPrompt` is about it.
Nothing is assumed of the user: nobody has to press Ctrl-C. That evaluation goes on
leaves out what does not pass `eval` or `play` for ever: the wait in `builtin_start`,
which no Ctrl-C ends (`Starter` is about it), and loops inside of one builtin.

`FairSpec` of `Starter` assumes that the start thread and Link's thread are
scheduled, that a call that was begun proceeds up to the wait, and that the code
after `start` ends. A message of a peer may never arrive and nobody has to call
`start`. The wait itself has no fairness: it ends when it is notified. The thread's loop
compares a phase with zero, in each round anew; that it is fair assumes that the phase is
seen to be zero at last.

`FairSpec` of `Lexer` assumes that the lexer is called until it gives the end or an
error, which is what `Parser::parse` does. The loop that looks for the end of a comment
is among the steps that are fair: a source that is never through goes round in it.

## 5. What is proved

For every value of the constants (any notes, ports, chords, nesting, devices, instances, scopes, texts, sources, lines
of music, literals, calls):

- `PlaybackProofs`: `IInv` is inductive. The properties of sound are not inductive by
  themselves: to know that an erase finds its entry one must know that what is active is
  exactly what the leaf routine and the `par` activations will turn off, that activations
  are stacked with the contexts they found, and that the wait and the flag agree with where
  the main thread is. What a `sim` with lengths that are not positive leaves behind is
  outside of this: `hung` and `stale` say which notes and entries those are. `IInv` says all
  this; the proof has one lemma per group of actions. From it follow `TypeCorrect`,
  `NoNoteIsLeftOn`, `NoEntryIsStale`, `EraseIsDefined` (no undefined behaviour in `play`),
  `TurnOffHasPort` and `PlayPlaysByDefault`. `PlayAndParRestore` is an action property: the
  outermost context and default action are at the bottom of the stack, or are the current
  ones when it is empty, and every step is looked at for what it does to that bottom.
  `OnePortIsSilenced`, which covers the notes that such a `sim` left sounding, needs one
  assumption, that there is a single port; without it TLC refutes it with
  `playback_hung_note.cfg`. `MainThreadSleeps` assumes that handlers run on the main thread
  and that there are no spurious wake-ups: under both, the assertion in `sleep` holds;
  `playback_late_notify` shows that the first cannot be dropped.
- `StarterProofs`: that `start()` returns only in a session started since depends on every
  `State` an instance ever made and on where Link's thread is: which threads may still
  commit, whose `stop` is set, which notification belongs to which call, and whether a call
  of the callback that was decided on is still to be made. The invariant relates the place
  of the main thread to its states, says that a thread of an earlier call is stopped or will
  be by the callback, that the callback was told of whatever Link's thread is through with,
  and that a call decided on before the registration is of a start that thread was not
  through with when `start()` looked. From it `StartWakesTheCall`,
  `ThreadsCountForTheCaller`, `IdleLinkIsThrough`, `TypeCorrect`; and
  `StarterImplementsBarrier`: the initial states map to those of `StartBarrier`, and each
  action to one of its steps or a stutter, for any instances, calls and stale messages of
  peers. "Since" is counted from what Link's thread was through with, not from what
  `start()` saw: for the latter TLC finds the counterexample `StartedSinceItLooked` of
  section 6.
- `ConnectionsProofs`: the invariant that ties the table, the contexts and the
  connections together is inductive; from it `TableNeverLies` and `VirtualPortIsKept`.
- `ScopesProofs`: a scope lies around another one if it is in every set that holds the
  inner one and is closed under `parent`; the scopes that are alive are closed under
  what refers to them, so that what lies around a living scope lives. The invariant
  stacks the evaluations under way: each runs in the scope it made or found, each call
  returns to the scope of its caller, each store goes to a scope around the one that
  runs. From it `RunsInOwnScope`, `TargetsLive` (no store through
  a dangling pointer) and `TypeCorrect`.
- `SourcesProofs`: numbers of lines only grow and are registered without gaps that a later
  line could fall into; the first file of a name owns the rows of its numbers, and what
  `add_file` appends comes behind them; the views of names are of texts that were read.
  From it `LinesKeepTheirNumber` and `FilesShowTheirLines`.
- `TimingProofs`: that no note ends early is not inductive, since it says nothing of the
  notes that are on. The invariant does: for `play`, that what is left of `max_time`
  reaches from now to the end of each note that is still on, which holds however the
  lengths before it added up; for `sim`, that the instructions of a note are its length
  apart, and that the clock is not behind what has been slept for. From it follows
  `NotesLast`, for every line, any lengths, negative ones too, and any delays.
  `LinesEndInSilence` adds that each note that is on is still to be turned off
  (`Quiet`), with the order of messages for one time that `sort` may leave.
  `NotesAreOnTime` is about sleeps that are not late: the time at which a chord begins
  is the sum of the lengths of the chords before it, and `InTime` says how far the
  clock is from that sum while the chord is played.
- `LexerProofs`: that tokens and blanks make up the source says nothing of a lexer in the
  middle of a comment. The invariant does: the cursor is where its location says, tokens
  so far follow each other, each made of the runes its type allows and as far as they
  go, what lies between the last token and the cursor is blank, or blank up to where the
  comment was opened that is being read, with the dashes counted since. Whether a text is
  blank and how far a loop of the lexer consumes are recursive functions of the text;
  that they have a solution is proved first (`LoopIsDefined`), then what each consumes
  (`WhileIs`), then one lemma for each way of making a token. From it
  `LexerCoversText`, `LexerLocatesTokens` (a location is found by counting lines and
  columns up to the place, rewinds over the end of a line included), `LexerMakesWholeTokens`
  and the type of the lexer, for every source of any length.
- `MusicProofs`: the type invariant `TypeOK` is inductive. It says that denominators are
  positive, without which comparison would be wrong, and that numbers are in lowest terms:
  what `Value` stores is simplified, and nothing but 1 divides both parts of what is
  simplified (`SimplifiedIsLowest`). That music stays
  music takes one lemma for each operation, and for those that fold over notes, chords or
  arguments that every step of the fold stays in its type (`Folded`, `FoldStays`). From the
  type follow, for numbers of any size, `ComparesWorth`, `Computes` (exact as long as the
  common denominator fits an `int`), `RoundsRight`, `RemaindersSolve` and `MovesSemitones`.
  Below them are the facts of arithmetic: division that rounds to zero (`QuotRem`), `GCD`
  as the greatest of the common divisors, which are multiples (`GCDIs`), and the loop of
  `modular_inverse`, whose invariant `Steady` says that the pairs of locals keep the common
  divisors, that `t` and `newt` are inverses of `r` and `newr` up to multiples of `n`,
  with opposite signs, and are bounded by `n` (`EuclidFinds`): this bound is why adding
  `n` once makes the inverse not negative.
  `LengthsGoToChords` is about the fold over the arguments of a call, with an invariant for
  the items read so far (`Reading`): which of them is the last chord, which lengths came
  behind it, and that the result holds what comes of the chords before it, in order. Each
  item keeps it (`ReadMore`), and at the end it says where every length went (`CallFollows`).
  `DurationAgreesWithPlay` counts lengths in parts of a common denominator (`Worth`): no sum
  of them overflows, since the least common multiple of two denominators divides any common
  one (`LCMDivides`, `AddsParts`), and comparison is that of the counts. That there is an order in
  which lengths ascend is proved by insertion (`Sortable`). While `play` waits for the notes
  of a chord, what it has waited and what is left of the longest length make up at least
  that length, until nothing is left (`WaitedIs`); if all lengths are equal nothing
  is left after the first wait. The rest is the sum over chords.
- Induction, in all of these, is by smallest counterexample, since the induction theorems of
  the library take an operator. A recursive function, and the sums and folds of the community
  modules, are reached in the same way: the recursion has a solution on sets up to any
  size, and adding an element adds its value in whatever order the others were added.
  `Recursion` and `Descent` say the same of any function that calls itself with something
  that has come down: it has a solution, and what holds of it where it stops, and is
  inherited from each call, holds everywhere. Powers, Euclid's loop, the loops of the lexer,
  the flattening of sequences and folds are such functions. These lemmas stand in the proof
  modules that use them.

`DurationIsPlayed` is about music whose lengths have a common denominator that fits an
`int` (`LengthsFit`). Beyond it a sum of lengths may end the program, and then there is no time to
speak of. In the instance of `numbers` the condition holds in every state with music.

The assumptions on the constants (`PlaybackAssumption`, `StarterAssumption`,
`ConnectionsAssumption`, `ScopesAssumption`, `SourcesAssumption`, `TimingAssumption`,
`NumbersAssumption`, `MusicAssumption`, `LexerAssumption`, and those of the modules without proofs) say that the value for "no port", "no name" or a
pause is none of the ports, names or pitches, that chords count notes, that lines are made
of tracks of chords, that sources are made of runes, that literals and arguments are what the lexer and the calls allow,
that an `int` has an even number of values, and that bounds are numbers. The bounds are any numbers: nothing is
proved for one size only.

Only model-checked: the properties of `Parser` and `Collections`: these modules are written
with recursive operators over trees and nested arrays, as their code is recursive functions, and
the provers cannot open those; the statements of section 6; and all liveness
(`InterruptReturnsToPrompt`, `CountedWaitEnds`, `ClosedSourcesEnd`), which rests on fairness and is
out of the prover's reach, like `ENABLED`.

## 6. Where the repository says otherwise

One statement of the repository that the code does not keep has a run of its own,
`playback_late_notify`; PROJECT.json quotes it. The modules state more of them; each is refuted when it is put in place of the properties of the configuration in the
third column, or is what that configuration checks.

| Statement | Definition | Configuration |
|---|---|---|
| `sleep`: "Sleep for at least given time or until interrupt" (`interpreter.hh:78`). A Ctrl-C between the look at the flag and the wait is noticed only when the time is over. | `SleepsUntilInterrupt` (`Playback`) | `playback_late_notify.cfg` |
| `par`: "Create chord that should sustain during playing of all other notes" (`builtin_functions.cc:424`). A played note with the same number ends it. | `ParSustains` (`Playback`, a PROPERTY) | `playback_hung_note.cfg` |
| `sim`: "Plays each argument simultaneously" (`builtin_functions.cc:459`). A note with a length that is not positive may be turned off before it is turned on: it sounds after the line, and its entry stays in `active_notes`. | `LineEndsInSilence` (`Playback`, a PROPERTY) | `playback_one_port.cfg` |
| "symbol 'virtual creates a virtual MIDI port" (`builtin_functions.cc:1711`, in Polish). With a device present port 0 is opened. | `VirtualIsVirtual` (`Connections`) | `connections_call_port.cfg` |
| Ports are listed by `:ports` and selected by `port` (`CHANGELOG.md:66-67`). The first counts from 1, the second from 0. | `ListedNumberSelects` (`Connections`, a PROPERTY) | `connections_call_port.cfg` |
| `port` sets "the MIDI output in the given context to the given port" (`builtin_functions.cc:1701`, in Polish). A connection that is in the table under the number is used again, whatever device has that number by now. | `NumberSelectsDevice` (`Connections`, a PROPERTY) | `connections_call_port.cfg` |
| "Context from which block was created. Used for closures" (`block.hh:28`). A block that is played or indexed is evaluated in the scope of whoever does it. | `BodySeesItsScope` (`Scopes`) | `scopes_prompt.cfg` |
| "All source code through life of the program should stay allocated" (`main.cc:73`). Short texts move when the vector of texts grows. | `SourcesAreEternal` (`Sources`) | `sources_input.cfg` |
| "File that location is pointing to" (`location.hh:19`). The name of a file that `:load` read is a view into a line of the prompt. | `LocationsNameTheirFile` (`Sources`) | `sources_input.cfg` |
| "Line number (1 based) that location is pointing to" (`location.hh:20`). Files that are not the first source, and arguments of several lines, are numbered otherwise than they are registered. | `ErrorsShowTheirLine` (`Sources`) | `sources_input.cfg` |
| "Region of lines in files" (`lines.hh:12`). A last line without newline is registered with the size `npos`. | `LinesEnd` (`Sources`) | `sources_input.cfg` |
| "CTRL-C handler that turns notes that are playing off" (`CHANGELOG.md:55`). Notes of another port than the current one keep sounding. | `InterruptSilences` (`Playback`, a PROPERTY) | `playback_hung_note.cfg` |
| `port` without arguments "returns the currently selected port" (`builtin_functions.cc:1713`, in Polish). When the entry of the current connection was replaced in the table, no key leads to it and the program ends. | `CallPortReturns` (`Connections`) | `connections_call_port.cfg` |
| "Variables can only be references in scope (block) where they been created or from parent blocks to variable block" (`errors.cc:203-204`). After a call with too few arguments the prompt is in a scope of the block. | `PromptIsGlobal` (`Scopes`) | `scopes_prompt.cfg` |
| "We don't free input line since there could be values that still relay on it" (`main.cc:319`). The next line of the prompt is read into the same buffer. | `InputIsNotFreed` (`Sources`) | `sources_input.cfg` |
| "Order of operations" (`regression-tests/interpreter/arithmetic_operators.mq:29`). Operators of one precedence group to the right behind one that binds tighter. | `OrderOfOperations` (`Parser`) | `parser_leftover.cfg` |
| `Closing_Token_Without_Opening` has a kind for `]` (`errors.hh:140`). A `]` that closes nothing ends the program. | `UnopenedIndexIsReported` (`Parser`) | `parser_leftover.cfg` |
| Errors "considered internal and should not be printed to the end user" (`errors.hh:155`) are. | `InternalErrorsStayInside` (`Parser`) | `parser_leftover.cfg` |
| Parameters "that cannot be parameters (like chord literals)" are reported (`parser.cc:316`), but not behind other tokens of a line. | `ChordParameterIsReported` (`Parser`) | `parser_leftover.cfg` |
| `+=` is among the operators that a message lists (`errors.cc:378`); with an operator to its right it is an undefined one. | `CompoundAssignmentIsKnown` (`Parser`) | `parser_leftover.cfg` |
| "Parses source contained by token into a Number instance" (`number.hh:53`). -0.5 is read as 0.5. | `LiteralsSayTheirWorth` (`Numbers`) | `numbers.cfg` |
| `round` takes of two nearest integers the even one (`builtin_functions.cc:233`, in Polish). It takes the greater one. | `TiesGoToEven` (`Numbers`) | `numbers.cfg` |
| `ceil (4.3)` is 4 and `floor (4.3)` is 5 (`builtin_functions.cc:219-220` and `228-229`). The examples are exchanged: the prose beside them, the regression tests and the code agree that `ceil` gives 5 and `floor` 4. | `ExamplesOfCeilAndFloor` (`Numbers`) | `numbers.cfg` |
| A sum of numbers is a number; a common denominator that overflows `int` ends the program. | `SumsDoNotCrash` (`Numbers`) | `numbers.cfg` |
| "Equavilent of std::lexicographical_compare_three_way" (`algo.hh:39`). An array that begins another one is not less than it. | `OrderIsLexicographic` (`Collections`) | `lines.cfg` |
| "When user tries to get element from collection with index higher then collection size" (`errors.hh:127`). An index that equals the size, and any index of `update`, is not compared. | `PositionsAreChecked` (`Collections`) | `lines.cfg` |
| `try (nprimes -1) (say 0)` says 0 (`builtin_functions.cc:861`). The bound of the sieve is not a number and the program ends. So it does when an empty array is rotated or mixed. | `FailuresAreErrors` (`Collections`) | `lines.cfg` |
| A comparison means the same as its mirror image; with a collection on the right it compares with the operands swapped. | `ComparisonsMirror` (`Collections`) | `lines.cfg` |
| "the fragment of code is begun together with the connected instances" (`builtin_functions.cc:1631`, in Polish). `start()` may miss the notification and wait for ever. | `StartReturnsAtLast` (`Starter`, a PROPERTY) | `starter_missed_peer.cfg` |
| The same sentence. The second of two start blocks in a row may be woken by the start of the first: Link's thread handles it late, or decided to call the callback before the second registered its own. | `StartedSinceItLooked` (`Starter`) | `starter_missed_peer.cfg` |
| "Parses whole source code producing Ast or Error" (`parser.hh:18`). What an attempt of `parse_many` consumed before it failed is in no tree, and nothing is reported. | `WholeSource` (`Parser`) | `parser_leftover.cfg` |
| "Turn off each note at right time" (`interpreter.cc:300`). In a chord with lengths 1 and 2 the second note ends at 3. | `EachNoteOnTime` (`Timing`) | `lines.cfg` |
| `sim`: "Plays each argument simultaneously" (`builtin_functions.cc:459`). A note that begins when the same one ends in another track may be turned off at once. | `NotesSound` (`Timing`) | `lines.cfg` |
| Pauses take their time in `play`; those at the end of a line of `sim` do not. | `LinesLast` (`Timing`) | `lines.cfg` |
| Numbers "may have following forms: 0, 0.1" (`lexer.cc:107`). `\|-1` is one, too. | `NumbersAreNumeric` (`Lexer`) | `lexer.cfg` |
| "Lexer takes source code and turns it into list of tokens" (`lexer.hh:12`). What follows an invalid character, or a NUL, is left out without notice. | `WholeTextIsRead` (`Lexer`) | `lexer.cfg` |
| "If next char is operator, then this character is part of operator sequence" (`lexer.cc:99`). A letter whose last eight bits are those of an operator makes a symbol with the bar. | `SymbolsHaveNoBars` (`Lexer`) | `lexer.cfg` |
| "Try to tokenize next token" (`lexer.hh:44`). With a comment of three dashes that is not closed this never returns. | `SourcesEnd` (`Lexer`, a PROPERTY) | `lexer.cfg` |
| "+ goes up, - goes down" (`builtin_operators.cc:64`). `c4 - 1` is b4, as the regression tests have it. | `MinusGoesDown` (`Music`) | `numbers.cfg` |
| "Octave in MIDI acceptable range" (`note.hh:15`). Neither is every octave, nor is every note of octave 9 one of the 128. | `NotesAreMidi` (`Music`) | `numbers.cfg` |
| "At least *this should be in this array" (`chord.cc:109`). `c4 ()` ends before, in a division by zero. | `CallsReturn` (`Music`) | `numbers.cfg` |
| A note is printed as it is played: the flat of c4 is printed as b4 and played as b3. | `PrintedIsPlayed` (`Music`) | `numbers.cfg` |

The documentation of `duration` also says 3/4 of a chord of three notes
(`builtin_functions.cc:1077`); the code and `DurationIsPlayed` say 1/4.

## 7. Plan

Done: 1. `Interrupt`, `Playback`. 2. `Link`, `Starter`, `StartBarrier`. 3. `Connections`.
4. `Scopes`. 5. `Sources`. 6. `Parser`. 7. `Numbers`. 8. `Collections`. 9. `Timing`.
10. `Lexer`. 11. `Music`. Of 1 to 5, 7 and 9 to 11 every safety property and action property
that a run checks is proved, and the refinement of 2.

Next: `Arguments`, how a parameter of the command line takes its arguments.

Theorems to come: `RotateMovesPlaces`, `MixTakesInTurn`, `MaskSelects` and `DigitsExpand` of
`Collections`, and `TreeFollowsSource` of `Parser`, once equality, order, rounds, digits and
the functions of the parser are recursive functions over sets of values and of places, as
the loops of `Lexer` are.

## 8. Not modelled

- Of Link: tempo, quantum and beats; the start thread's loop sees phase zero at any
  time. Of MIDI: bytes, channels other than 0, velocities.
- Data: decoding of UTF-8 and the tables of its letters, formatting, random numbers,
  the order and hashes of notes; PROJECT.json has the reason for each part left out.
- What parameters of the command line take and which are offered when none matches.
- The history file, `:snap`, `:time`, completion: they only read or write files.
- Memory exhaustion, and exceptions of the standard library.
