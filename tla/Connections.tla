------------------------------ MODULE Connections ------------------------------
(***************************************************************************)
(* MIDI outputs: Context::connect, the table established_connections, the  *)
(* builtin `port', and the contexts a connection is selected in.           *)
(*                                                                         *)
(* The system numbers its output ports from 0, and renumbers them when a   *)
(* device is unplugged.  A connection is opened to a numbered port or is a *)
(* virtual port of musique's own; `conns' remembers every connection that  *)
(* was ever opened, under which key and to what.  Connection 0 is the null *)
(* pointer.                                                                *)
(***************************************************************************)
EXTENDS Naturals, FiniteSets, Sequences, SequencesExt, Functions

CONSTANTS
  Devices,          \* MIDI output devices
  Virtual,          \* the key, and the target, of a virtual port
  MaxPort,          \* bound: port numbers that a program passes
  MaxConns,         \* bound: connections opened
  MaxDepth          \* bound: contexts, one for each play

ASSUME ConnectionsAssumption ==
  /\ Virtual \notin Devices /\ Virtual \notin Nat
  /\ MaxPort \in Nat /\ MaxConns \in Nat /\ MaxDepth \in Nat \ {0}

VARIABLES
  plugged,    \* the system's output ports, in the order of their numbers
  conns,      \* connections: the `key' each was opened as, and what it leads `to'
  table,      \* established_connections: key -> connection, 0 if there is none
  contexts,   \* the connection of each context; the last one is current
  state,      \* "starting", "running", "exited" or "unreachable"
  asked       \* history: the key the current context was last connected with

vars == <<plugged, conns, table, contexts, state, asked>>

Numbers == 0 .. MaxPort
Keys == Numbers \cup {Virtual}
Connection == [key : Keys, to : Devices \cup {Virtual}]

Unasked == MaxPort + 1

Current == Last(contexts)

\* The ports are numbered by position, from 0.
Exists(k) == k < Len(plugged)
Device(k) == plugged[k + 1]

\* How `:ports' numbers them.
ListedAs(k) == k + 1

Init ==
  /\ plugged \in {s \in SeqOf(Devices, Cardinality(Devices)) : IsInjective(s)}
  /\ conns = <<>>
  /\ table = [k \in Keys |-> 0]
  /\ contexts = <<0>>
  /\ state = "starting"
  /\ asked = Unasked

-----------------------------------------------------------------------------
(* Context::connect.                                                       *)

Select(c) == contexts' = [contexts EXCEPT ![Len(contexts)] = c]

Reuse(key) ==
  /\ table[key] # 0
  /\ Select(table[key])
  /\ UNCHANGED <<conns, table>>

Open_UnderZero(key, to) ==
  /\ Len(conns) < MaxConns
  /\ conns' = Append(conns, [key |-> key, to |-> to])
  /\ table' = [table EXCEPT ![0] = Len(conns) + 1]
  /\ Select(Len(conns) + 1)
Open(key, to) ==
  /\ Len(conns) < MaxConns
  /\ conns' = Append(conns, [key |-> key, to |-> to])
  /\ table' = [table EXCEPT ![key] = Len(conns) + 1]
  /\ Select(Len(conns) + 1)

\* connect(k)
ConnectNumber(k) ==
  \/ Reuse(k)
  \/ table[k] = 0 /\ Exists(k) /\ Open(k, Device(k))

\* connect(nullopt): the virtual port if there is one; otherwise port 0, opened
\* again and recorded as port 0; a new virtual port only if there are no others.
ConnectVirtual_NoLookup ==
  IF Exists(0) THEN Open(0, Device(0)) ELSE Open(Virtual, Virtual)
ConnectVirtual ==
  \/ Reuse(Virtual)
  \/ /\ table[Virtual] = 0
     /\ IF Exists(0) THEN Open(0, Device(0)) ELSE Open(Virtual, Virtual)

-----------------------------------------------------------------------------
\* Runner::Runner, with and without --dont-automatically-connect.
Start ==
  /\ state = "starting" /\ state' = "running"
  /\ ConnectVirtual \/ UNCHANGED <<conns, table, contexts>>
  /\ UNCHANGED <<plugged, asked>>

Running == state = "running" /\ UNCHANGED <<state, plugged>>

PortNumber(k) == Running /\ ConnectNumber(k) /\ asked' = k

PortVirtual == Running /\ ConnectVirtual /\ asked' = Virtual

\* openPort throws for a port that is not there: exit(33).
PortMissing(k) ==
  /\ state = "running" /\ table[k] = 0 /\ ~Exists(k)
  /\ state' = "exited"
  /\ UNCHANGED <<plugged, conns, table, contexts, asked>>

\* `call port' returns any key that leads to the connection of the current context,
\* and does not expect that there is none.
Names(c) == {k \in Keys : c # 0 /\ table[k] = c}

PortUnreachable ==
  /\ state = "running" /\ Names(Current) = {}
  /\ state' = "unreachable"
  /\ UNCHANGED <<plugged, conns, table, contexts, asked>>

\* builtin_play copies the current context if that is connected, and drops the
\* copy on return; a Ctrl-C in it leaves the copy current.
EnterPlay ==
  /\ Running /\ Len(contexts) < MaxDepth
  /\ Current # 0
  /\ contexts' = Append(contexts, Current)
  /\ UNCHANGED <<conns, table, asked>>

LeavePlay ==
  /\ Running /\ Len(contexts) > 1
  /\ contexts' = Front(contexts)
  /\ asked' = Unasked
  /\ UNCHANGED <<conns, table>>

Interrupt ==
  /\ Running /\ Len(contexts) > 1
  /\ contexts' = <<Current>>
  /\ UNCHANGED <<conns, table, asked>>

\* The world: a new device gets the next number, an unplugged one leaves its
\* number to the next.
Plug(d) ==
  /\ state = "running" /\ d \notin Range(plugged)
  /\ plugged' = Append(plugged, d)
  /\ UNCHANGED <<conns, table, contexts, state, asked>>

Unplug(k) ==
  /\ state = "running" /\ Exists(k)
  /\ plugged' = RemoveAt(plugged, k + 1)
  /\ UNCHANGED <<conns, table, contexts, state, asked>>

Next ==
  \/ Start \/ PortVirtual \/ PortUnreachable
  \/ \E k \in Numbers : PortNumber(k) \/ PortMissing(k)
  \/ EnterPlay \/ LeavePlay \/ Interrupt
  \/ \E d \in Devices : Plug(d)
  \/ \E k \in 0 .. Len(plugged) - 1 : Unplug(k)

Spec == Init /\ [][Next]_vars
-----------------------------------------------------------------------------
(* Properties.                                                             *)

\* Every variable has its type, a part of IInv.
TypeOK ==
  /\ plugged \in Seq(Devices)
  /\ conns \in Seq(Connection)
  /\ table \in [Keys -> 0 .. Len(conns)]
  /\ contexts \in Seq(0 .. Len(conns)) /\ contexts # <<>>
  /\ state \in {"starting", "running", "exited", "unreachable"}
  /\ asked \in Keys \cup {Unasked}

\* A connection somebody holds, a context or the table; others are closed.
Held == {c \in DOMAIN conns : c \in Range(contexts) \/ c \in Range(table)}

\* `call port' never lies: a connection is recorded as what it was opened as, so
\* that whichever key is found first is right, and after `port k' it is k.
TableIsHonest ==
  /\ \A k \in Keys : table[k] # 0 => conns[table[k]].key = k
  /\ asked \in Numbers => Names(Current) = {asked}

\* musique's own port, once other programs can see it, neither disappears nor gets
\* a twin: not when devices come and go, nor when no context uses it.
VirtualPortStays == \A c \in DOMAIN conns :
  conns[c].to = Virtual => c \in Held /\ table[Virtual] = c

\* The inductive invariant behind these: a connection is virtual exactly if it was
\* opened as that, and before the start nothing was asked for.
IInv ==
  /\ TypeOK /\ TableIsHonest /\ VirtualPortStays
  /\ \A c \in DOMAIN conns : conns[c].to = Virtual <=> conns[c].key = Virtual
  /\ state = "starting" => asked = Unasked /\ Len(contexts) = 1

\* Refuted (README, section 6).  port without an argument returns the selected port
\* of a connected context.
CallPortReturns == Current # 0 => state # "unreachable"

\* Refuted (README, section 6).  port 'virtual selects a virtual port.
VirtualIsVirtual == asked = Virtual => conns[Current].to = Virtual

\* Refuted (README, section 6).  port with a number selects the device that has the
\* number, not the one that had it when the number was selected first.
NumberSelectsDevice ==
  [][\A k \in Numbers : PortNumber(k) =>
       Exists(k) /\ conns'[Last(contexts')].to = Device(k)]_vars

\* Refuted (README, section 6).  port with a number selects the device that :ports
\* lists with that number.
ListedNumberSelects ==
  [][ asked' \in Numbers /\ conns' # conns =>
        \E k \in 0 .. Len(plugged) - 1 :
          ListedAs(k) = asked' /\ Last(conns').to = Device(k) ]_vars
=============================================================================
