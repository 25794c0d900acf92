--------------------------------- MODULE Link ---------------------------------
(***************************************************************************)
(* Ableton Link's start-stop synchronisation, as far as musique relies on  *)
(* it.  Link is a library: this module is external to musique.             *)
(*                                                                         *)
(* A start-stop state is a Boolean and the time it was committed at; all   *)
(* instances measure the time of one session, so a state is represented by *)
(* its position in `log', the states committed so far, and 0 is the state  *)
(* of a session nobody has started.  A later position wins.                *)
(*                                                                         *)
(* An instance has a client state, which its own commits change at once,   *)
(* and a session state, which its Link thread changes: when it handles a   *)
(* commit of its own, in order, and when it hears a state from a peer.     *)
(* Messages of peers may be lost, repeated, delayed and reordered.  Then   *)
(* the Link thread decides, under the lock of the client state, whether    *)
(* that state is still the one the callback was told last; if it is not,   *)
(* it calls the callback after it has released that lock, and by then      *)
(* another one may be registered.  The call itself is the user's, under a  *)
(* lock that setStartStopCallback takes too.  The session's tempo and      *)
(* clock are taken to be constant while it is used.                        *)
(***************************************************************************)
EXTENDS Naturals, Sequences

CONSTANTS Instances

VARIABLES
  log,        \* committed states: does the session play?
  client,     \* client[i]: position of i's client state
  session,    \* session[i]: position of i's session state
  jobs,       \* jobs[i]: commits that i's Link thread has yet to handle
  sent,       \* states that were broadcast and that some instance would adopt
  told,       \* told[i]: what the callback of i is told next, or was told last
  link,       \* link[i]: where the Link thread of i is: "idle", about to
              \* "decide" or to "call", or about to set "stop" in the callback
  reported    \* history: session[i] when that thread was last idle

linkVars == <<log, client, session, jobs, sent, told, link, reported>>

LinkTypeOK ==
  /\ log \in Seq(BOOLEAN)
  /\ client \in [Instances -> 0 .. Len(log)]
  /\ session \in [Instances -> 0 .. Len(log)]
  /\ jobs \in [Instances -> Seq(1 .. Len(log))]
  /\ sent \subseteq 1 .. Len(log)
  /\ told \in [Instances -> BOOLEAN]
  /\ link \in [Instances -> {"idle", "decide", "call", "stop"}]
  /\ reported \in [Instances -> 0 .. Len(log)]

LinkInit ==
  /\ log = <<>>
  /\ client = [i \in Instances |-> 0]
  /\ session = [i \in Instances |-> 0]
  /\ jobs = [i \in Instances |-> <<>>]
  /\ sent = {}
  /\ told = [i \in Instances |-> FALSE]
  /\ link = [i \in Instances |-> "idle"]
  /\ reported = [i \in Instances |-> 0]

Plays(t) == t > 0 /\ log[t]

\* captureAppSessionState().isPlaying()
IsPlaying(i) == Plays(client[i])

\* commitAppSessionState: the client state changes, the session state will.
Commit(i, playing) ==
  LET t == Len(log) + 1 IN
  /\ log' = Append(log, playing)
  /\ client' = [client EXCEPT ![i] = t]
  /\ jobs' = [jobs EXCEPT ![i] = Append(@, t)]
  /\ UNCHANGED <<session, sent, told, link, reported>>

\* The Link thread adopts a state that is newer than its session state.
Adopt(i, t) ==
  IF t > session[i]
  THEN /\ session' = [session EXCEPT ![i] = t]
       /\ client' = [client EXCEPT ![i] = t]
       /\ sent' = {s \in sent \cup {t} : \E j \in Instances : s > session'[j]}
  ELSE UNCHANGED <<session, client, sent>>

LinkGoes(i, from, to) == link[i] = from /\ link' = [link EXCEPT ![i] = to]

\* The Link thread is through with what it handled.
Finish(i) ==
  /\ link' = [link EXCEPT ![i] = "idle"]
  /\ reported' = [reported EXCEPT ![i] = session[i]]

\* The Link thread of i handles the oldest of its commits.
HandleCommit(i) ==
  /\ jobs[i] # <<>>
  /\ LinkGoes(i, "idle", "decide")
  /\ Adopt(i, Head(jobs[i]))
  /\ jobs' = [jobs EXCEPT ![i] = Tail(@)]
  /\ UNCHANGED <<log, told, reported>>

\* The Link thread of i hears a state that a peer broadcast at some time.
Hear(i) ==
  /\ LinkGoes(i, "idle", "decide")
  /\ \E t \in sent : t > session[i] /\ Adopt(i, t)
  /\ UNCHANGED <<log, jobs, told, reported>>

\* It looks whether the callback is due, and with which argument.
Decide(i) ==
  /\ link[i] = "decide"
  /\ told' = [told EXCEPT ![i] = IsPlaying(i)]
  /\ IF told'[i] = told[i] THEN Finish(i)
     ELSE LinkGoes(i, "decide", "call") /\ UNCHANGED reported
  /\ UNCHANGED <<log, client, session, jobs, sent>>
=============================================================================
