--------------------------- MODULE ConnectionsProofs ---------------------------
(***************************************************************************)
(* Connections, for any devices, port numbers and bounds: the table of     *)
(* connections is honest and a virtual port stays.                         *)
(*                                                                         *)
(* The argument: a connection enters the table under the key it was opened *)
(* as, and only if that key was free or is replaced by it; so at most one  *)
(* key leads to it.  A virtual port is opened only while its key is free,  *)
(* and nothing else is ever recorded under that key.                       *)
(***************************************************************************)
EXTENDS Connections, TLAPS

USE ConnectionsAssumption

\* The parts of the invariant the steps are checked against, conns and contexts
\* apart: what the table and the connections say of each other.
Honest ==
  /\ \A k \in Keys : table[k] # 0 => conns[table[k]].key = k
  /\ \A c \in DOMAIN conns : conns[c].to = Virtual => table[Virtual] = c
  /\ \A c \in DOMAIN conns : conns[c].to = Virtual <=> conns[c].key = Virtual

Types ==
  /\ conns \in Seq(Connection)
  /\ table \in [Keys -> 0 .. Len(conns)]
  /\ contexts \in Seq(0 .. Len(conns)) /\ contexts # <<>>

LEMMA VirtualIsKey == Virtual \in Keys /\ Numbers \subseteq Keys /\ Virtual \notin Numbers
BY DEF Keys, Numbers

\* A connection in the table under Virtual is held.
LEMMA Assemble ==
  ASSUME Types', Honest',
         plugged' \in Seq(Devices),
         state' \in {"starting", "running", "exited", "unreachable"},
         asked' \in Keys \cup {Unasked},
         asked' \in Numbers => table'[asked'] # 0 /\ Current' = table'[asked'],
         state' = "starting" => asked' = Unasked /\ Len(contexts') = 1
  PROVE  IInv'
<1>1. TypeOK'
  BY DEF TypeOK, Types
<1>2. TableIsHonest'
  <2>1. (asked \in Numbers => Names(Current) = {asked})'
    BY VirtualIsKey DEF Names, Honest, Types
  <2> QED
    BY <2>1 DEF TableIsHonest, Honest
<1>3. VirtualPortStays'
  BY VirtualIsKey DEF VirtualPortStays, Held, Range, Honest, Types
<1> QED
  BY <1>1, <1>2, <1>3 DEF IInv, Honest

LEMMA Disassemble ==
  ASSUME IInv
  PROVE  /\ Types /\ Honest
         /\ plugged \in Seq(Devices)
         /\ state \in {"starting", "running", "exited", "unreachable"}
         /\ asked \in Keys \cup {Unasked}
         /\ asked \in Numbers => table[asked] # 0 /\ Current = table[asked]
         /\ state = "starting" => asked = Unasked /\ Len(contexts) = 1
<1>1. Types
  BY DEF IInv, TypeOK, Types
<1>2. Honest
  BY DEF IInv, TableIsHonest, VirtualPortStays, Honest
<1>3. ASSUME asked \in Numbers
      PROVE  table[asked] # 0 /\ Current = table[asked]
  <2>1. asked \in Names(Current)
    BY <1>3 DEF IInv, TableIsHonest
  <2> QED
    BY <2>1 DEF Names
<1> QED
  BY <1>1, <1>2, <1>3 DEF IInv, TypeOK

\* connect: it selects a connection, and the table stays honest.
Connects ==
  /\ Types' /\ Honest' /\ Len(contexts') = Len(contexts)

LEMMA SelectStep ==
  ASSUME Types, NEW c \in Nat \ {0}, Select(c), Len(conns') \in Nat,
         c <= Len(conns'), Len(conns) <= Len(conns')
  PROVE  /\ contexts' \in Seq(0 .. Len(conns')) /\ contexts' # <<>>
         /\ Len(contexts') = Len(contexts)
         /\ Current' = c
<1> DEFINE n == Len(contexts)
<1>1. n \in Nat \ {0} /\ Len(conns) \in Nat /\ DOMAIN contexts = 1 .. n
  BY DEF Types
<1>2. contexts' \in Seq(0 .. Len(conns')) /\ Len(contexts') = n
  BY <1>1 DEF Types, Select
<1>3. contexts' # <<>> /\ contexts'[n] = c
  BY <1>1, <1>2 DEF Types, Select
<1> QED
  BY <1>1, <1>2, <1>3 DEF Current, Last

LEMMA ReuseStep ==
  ASSUME Types, Honest, NEW key \in Keys, Reuse(key)
  PROVE  Connects /\ table'[key] # 0 /\ Current' = table'[key]
<1>1. table[key] \in Nat \ {0} /\ table[key] <= Len(conns) /\ Len(conns) \in Nat
  BY DEF Types, Reuse
<1>2. conns' = conns /\ table' = table /\ Select(table[key])
  BY DEF Reuse
<1>3. /\ contexts' \in Seq(0 .. Len(conns')) /\ contexts' # <<>>
      /\ Len(contexts') = Len(contexts)
      /\ Current' = table[key]
  BY <1>1, <1>2, SelectStep
<1>4. Types' /\ Honest'
  BY <1>2, <1>3 DEF Types, Honest
<1> QED
  BY <1>1, <1>2, <1>3, <1>4 DEF Connects

LEMMA OpenStep ==
  ASSUME Types, Honest, NEW key \in Keys, NEW to \in Devices \cup {Virtual},
         Open(key, to), to = Virtual <=> key = Virtual,
         key = Virtual => table[Virtual] = 0
  PROVE  Connects /\ table'[key] # 0 /\ Current' = table'[key]
<1> DEFINE c == Len(conns) + 1
           conn == [key |-> key, to |-> to]
<1>1. Len(conns) \in Nat /\ c \in Nat \ {0} /\ DOMAIN conns = 1 .. Len(conns)
  BY DEF Types
<1>2. conn \in Connection
  BY DEF Connection
<1>3. /\ conns' = Append(conns, conn) /\ Len(conns') = c
      /\ conns' \in Seq(Connection)
      /\ DOMAIN conns' = 1 .. c
      /\ conns'[c] = conn
      /\ \A d \in 1 .. Len(conns) : conns'[d] = conns[d]
  BY <1>1, <1>2 DEF Open, Types
<1>4. /\ table' \in [Keys -> 0 .. Len(conns')]
      /\ table'[key] = c
      /\ \A k \in Keys : k # key => table'[k] = table[k]
  BY <1>1, <1>3 DEF Open, Types
<1>5. Select(c)
  BY DEF Open
<1>6. /\ contexts' \in Seq(0 .. Len(conns')) /\ contexts' # <<>>
      /\ Len(contexts') = Len(contexts)
      /\ Current' = c
  BY <1>1, <1>3, <1>5, SelectStep
<1>7. Types'
  BY <1>3, <1>4, <1>6 DEF Types
<1>8. \A k \in Keys : table'[k] # 0 => conns'[table'[k]].key = k
  <2> SUFFICES ASSUME NEW k \in Keys, table'[k] # 0
               PROVE  conns'[table'[k]].key = k
    OBVIOUS
  <2>1. CASE k = key
    BY <2>1, <1>3, <1>4
  <2>2. CASE k # key
    <3>1. table'[k] = table[k] /\ table[k] # 0
      BY <2>2, <1>4
    <3>2. table[k] \in 1 .. Len(conns)
      BY <3>1, <1>1 DEF Types
    <3>3. conns[table[k]].key = k
      BY <3>1 DEF Honest
    <3> QED
      BY <3>1, <3>2, <3>3, <1>3
  <2> QED
    BY <2>1, <2>2
<1>9. \A d \in DOMAIN conns' : conns'[d].to = Virtual <=> conns'[d].key = Virtual
  BY <1>1, <1>3 DEF Honest
<1>10. \A d \in DOMAIN conns' : conns'[d].to = Virtual => table'[Virtual] = d
  <2> SUFFICES ASSUME NEW d \in 1 .. c, conns'[d].to = Virtual
               PROVE  table'[Virtual] = d
    BY <1>3
  <2>1. CASE d = c
    BY <2>1, <1>3, <1>4
  <2>2. CASE d # c
    <3>1. d \in DOMAIN conns /\ conns[d].to = Virtual
      BY <2>2, <1>1, <1>3
    <3>2. table[Virtual] = d
      BY <3>1 DEF Honest
    <3>3. Virtual # key
      BY <3>1, <3>2, <1>1
    <3> QED
      BY <3>2, <3>3, <1>4, VirtualIsKey
  <2> QED
    BY <2>1, <2>2
<1>11. Honest'
  BY <1>8, <1>9, <1>10 DEF Honest
<1> QED
  BY <1>1, <1>4, <1>6, <1>7, <1>11 DEF Connects

\* connect(k) and connect(nullopt).
LEMMA DeviceIsDevice ==
  ASSUME plugged \in Seq(Devices), NEW k \in Nat, Exists(k)
  PROVE  Device(k) \in Devices /\ Device(k) # Virtual
BY DEF Exists, Device

LEMMA ConnectNumberStep ==
  ASSUME Types, Honest, plugged \in Seq(Devices), NEW k \in Numbers, ConnectNumber(k)
  PROVE  Connects /\ table'[k] # 0 /\ Current' = table'[k]
<1>1. k \in Keys /\ k \in Nat /\ k # Virtual
  BY VirtualIsKey DEF Numbers
<1>2. CASE Reuse(k)
  BY <1>1, <1>2, ReuseStep
<1>3. CASE Exists(k) /\ Open(k, Device(k))
  BY <1>1, <1>3, OpenStep, DeviceIsDevice
<1> QED
  BY <1>2, <1>3 DEF ConnectNumber

LEMMA ConnectVirtualStep ==
  ASSUME Types, Honest, plugged \in Seq(Devices), ConnectVirtual
  PROVE  Connects
<1>1. Virtual \in Keys /\ 0 \in Keys /\ 0 # Virtual /\ 0 \in Nat
  BY DEF Keys, Numbers
<1>2. CASE Reuse(Virtual)
  BY <1>1, <1>2, ReuseStep
<1>3. CASE Exists(0) /\ Open(0, Device(0))
  BY <1>1, <1>3, OpenStep, DeviceIsDevice
<1>4. CASE table[Virtual] = 0 /\ Open(Virtual, Virtual)
  BY <1>1, <1>4, OpenStep
<1> QED
  BY <1>2, <1>3, <1>4 DEF ConnectVirtual

-----------------------------------------------------------------------------
LEMMA Initial == Init => IInv
<1> SUFFICES ASSUME Init PROVE IInv
  OBVIOUS
<1>1. plugged \in Seq(Devices)
  BY DEF Init, SeqOf
<1>2. Unasked \notin Numbers
  BY DEF Unasked, Numbers
<1>3. TypeOK /\ TableIsHonest
  BY <1>1, <1>2 DEF Init, TypeOK, TableIsHonest
<1>4. VirtualPortStays
  BY DEF Init, VirtualPortStays
<1> QED
  BY <1>3, <1>4 DEF IInv, Init

\* A step that leaves the connections and the contexts alone.
LEMMA QuietStep ==
  ASSUME IInv, UNCHANGED <<conns, table, contexts, asked>>,
         plugged' \in Seq(Devices), state' = state \/ state' \in {"exited", "unreachable"}
  PROVE  IInv'
<1>1. Types' /\ Honest'
  BY Disassemble DEF Types, Honest
<1> QED
  BY <1>1, Disassemble, Assemble DEF Current

LEMMA StartStep == IInv /\ Start => IInv'
<1> SUFFICES ASSUME IInv, Start PROVE IInv'
  OBVIOUS
<1>1. asked' = Unasked /\ Unasked \notin Numbers /\ plugged' = plugged /\ state' = "running"
  BY DEF IInv, Start, Unasked, Numbers
<1>2. Types' /\ Honest'
  <2>1. CASE ConnectVirtual
    BY <2>1, Disassemble, ConnectVirtualStep DEF Connects
  <2>2. CASE UNCHANGED <<conns, table, contexts>>
    BY <2>2, Disassemble DEF Types, Honest
  <2> QED
    BY <2>1, <2>2 DEF Start
<1> QED
  BY <1>1, <1>2, Disassemble, Assemble

LEMMA PortStep == IInv /\ (PortVirtual \/ \E k \in Numbers : PortNumber(k)) => IInv'
<1>1. ASSUME IInv, PortVirtual PROVE IInv'
  BY <1>1, Disassemble, ConnectVirtualStep, Assemble, VirtualIsKey
  DEF PortVirtual, Running, Connects
<1>2. ASSUME IInv, NEW k \in Numbers, PortNumber(k) PROVE IInv'
  BY <1>2, Disassemble, ConnectNumberStep, Assemble, VirtualIsKey
  DEF PortNumber, Running, Connects
<1> QED
  BY <1>1, <1>2

LEMMA PlayStep == IInv /\ (EnterPlay \/ LeavePlay \/ Interrupt) => IInv'
<1> SUFFICES ASSUME IInv, EnterPlay \/ LeavePlay \/ Interrupt PROVE IInv'
  OBVIOUS
<1> DEFINE n == Len(contexts)
<1>1. /\ Types /\ Honest
      /\ n \in Nat \ {0} /\ DOMAIN contexts = 1 .. n
      /\ Current \in 0 .. Len(conns) /\ Current = contexts[n]
  BY Disassemble DEF Types, Current, Last
<1>2. /\ UNCHANGED <<conns, table, plugged, state>>
      /\ state = "running"
  BY DEF EnterPlay, LeavePlay, Interrupt, Running
<1>3. Honest'
  BY <1>1, <1>2 DEF Honest
<1>4. CASE EnterPlay
  <2>1. /\ contexts' \in Seq(0 .. Len(conns)) /\ Len(contexts') = n + 1
        /\ contexts'[n + 1] = Current
        /\ \A i \in 1 .. n : contexts'[i] = contexts[i]
        /\ asked' = asked
    BY <1>1, <1>4 DEF EnterPlay, Types
  <2>2. Types' /\ Current' = Current
    BY <1>1, <1>2, <2>1 DEF Types, Current, Last
  <2> QED
    BY <1>2, <1>3, <2>1, <2>2, Disassemble, Assemble
<1>5. CASE LeavePlay
  <2>1. /\ n > 1 /\ asked' = Unasked
        /\ contexts' \in Seq(0 .. Len(conns)) /\ Len(contexts') = n - 1
        /\ \A i \in 1 .. n - 1 : contexts'[i] = contexts[i]
    BY <1>1, <1>5 DEF LeavePlay, Types, Front
  <2>2. Types'
    BY <1>1, <1>2, <2>1 DEF Types
  <2>3. Unasked \notin Numbers
    BY DEF Unasked, Numbers
  <2> QED
    BY <1>2, <1>3, <2>1, <2>2, <2>3, Disassemble, Assemble
<1>6. CASE Interrupt
  <2>1. contexts' = <<Current>> /\ asked' = asked
    BY <1>6 DEF Interrupt
  <2>2. Types' /\ Current' = Current
    BY <1>1, <1>2, <2>1 DEF Types, Current, Last
  <2> QED
    BY <1>2, <1>3, <2>1, <2>2, Disassemble, Assemble
<1> QED
  BY <1>4, <1>5, <1>6

LEMMA QuietActions ==
  IInv /\ (\/ PortUnreachable \/ UNCHANGED vars
           \/ \E k \in Numbers : PortMissing(k)
           \/ \E d \in Devices : Plug(d)
           \/ \E k \in 0 .. Len(plugged) - 1 : Unplug(k)) => IInv'
<1>1. ASSUME IInv, PortUnreachable PROVE IInv'
  BY <1>1, QuietStep, Disassemble DEF PortUnreachable
<1>2. ASSUME IInv, UNCHANGED vars PROVE IInv'
  BY <1>2, QuietStep, Disassemble DEF vars
<1>3. ASSUME IInv, NEW k \in Numbers, PortMissing(k) PROVE IInv'
  BY <1>3, QuietStep, Disassemble DEF PortMissing
<1>4. ASSUME IInv, NEW d \in Devices, Plug(d) PROVE IInv'
  BY <1>4, QuietStep, Disassemble DEF Plug
<1>5. ASSUME IInv, NEW k \in 0 .. Len(plugged) - 1, Unplug(k) PROVE IInv'
  <2>1. plugged' \in Seq(Devices)
    BY <1>5, Disassemble DEF Unplug, RemoveAt, Exists
  <2> QED
    BY <1>5, <2>1, QuietStep DEF Unplug
<1> QED
  BY <1>1, <1>2, <1>3, <1>4, <1>5

\* The invariant holds of every state of every instance.
THEOREM Invariance == Spec => []IInv
<1>1. IInv /\ [Next]_vars => IInv'
  BY StartStep, PortStep, PlayStep, QuietActions DEF Next
<1> QED
  BY Initial, <1>1, PTL DEF Spec

\* `call port' never lies, whatever is opened, reused, plugged and unplugged.
THEOREM TableNeverLies == Spec => []TableIsHonest
<1>1. IInv => TableIsHonest
  BY DEF IInv
<1> QED
  BY Invariance, <1>1, PTL

\* musique's virtual port neither disappears nor gets a twin.
THEOREM VirtualPortIsKept == Spec => []VirtualPortStays
<1>1. IInv => VirtualPortStays
  BY DEF IInv
<1> QED
  BY Invariance, <1>1, PTL
=============================================================================
