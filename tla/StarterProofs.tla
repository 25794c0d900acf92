----------------------------- MODULE StarterProofs -----------------------------
(***************************************************************************)
(* Starter, for any instances and bounds: start() returns only in a        *)
(* session that was started since, a thread that counts does it for the    *)
(* caller that waits, and Starter implements StartBarrier.                 *)
(*                                                                         *)
(* The argument: what Link's thread was through with when start() looked   *)
(* only gets older, and a call of the callback that reaches the State is   *)
(* about a start after it (LinkInv, SeenIsOld); the thread of the call     *)
(* notifies of its own start (NotifiesOfStart); and what a start thread    *)
(* decided to do was asked for by a call that waits, or comes after a      *)
(* start (StartsAreAskedFor).                                              *)
(***************************************************************************)
EXTENDS Starter, SequenceTheorems, TLAPS

USE StarterAssumption DEF callVars

-----------------------------------------------------------------------------
(* The log.                                                                *)

\* What was started since a later state was started since an earlier one.
LEMMA SinceEarlier ==
  ASSUME LinkTypeOK, NEW m \in Nat, NEW n \in Nat, n <= m, StartedSince(m)
  PROVE  StartedSince(n)
<1>1. Len(log) \in Nat
  BY DEF LinkTypeOK
<1> QED
  BY <1>1 DEF StartedSince

\* A state that plays and is newer than n is a start since n.
LEMMA PlaysSince ==
  ASSUME LinkTypeOK, NEW n \in Nat, NEW t \in 0 .. Len(log), Plays(t), n < t
  PROVE  StartedSince(n)
<1>1. Len(log) \in Nat
  BY DEF LinkTypeOK
<1> QED
  BY <1>1 DEF StartedSince, Plays

\* Commit: the log grows by one state, which is the client state of the instance.
LEMMA CommitStep ==
  ASSUME LinkTypeOK, NEW i \in Instances, NEW playing \in BOOLEAN,
         Commit(i, playing)
  PROVE  /\ LinkTypeOK'
         /\ Len(log) \in Nat /\ Len(log') = Len(log) + 1
         /\ \A n \in Nat : StartedSince(n) => StartedSince(n)'
         /\ playing => \A n \in 0 .. Len(log) : StartedSince(n)'
         /\ client' = [client EXCEPT ![i] = Len(log) + 1]
         /\ session' = session /\ told' = told
         /\ \A j \in Instances : j # i => (IsPlaying(j)' <=> IsPlaying(j))
<1> DEFINE n == Len(log)
<1>1. n \in Nat /\ log' \in Seq(BOOLEAN) /\ Len(log') = n + 1
  BY DEF LinkTypeOK, Commit
<1>2. (\A t \in 1 .. n : log'[t] = log[t]) /\ log'[n + 1] = playing
  BY DEF LinkTypeOK, Commit
<1>3. client' = [client EXCEPT ![i] = n + 1] /\ client' \in [Instances -> 0 .. n + 1]
  BY <1>1 DEF LinkTypeOK, Commit
<1>4. jobs' \in [Instances -> Seq(1 .. n + 1)]
  <2>1. \A j \in Instances : jobs[j] \in Seq(1 .. n + 1)
    BY <1>1, SeqMonotonic DEF LinkTypeOK
  <2>2. Append(jobs[i], n + 1) \in Seq(1 .. n + 1)
    BY <1>1, <2>1
  <2>3. jobs' = [jobs EXCEPT ![i] = Append(@, n + 1)]
    BY DEF Commit
  <2> QED
    BY <2>1, <2>2, <2>3 DEF LinkTypeOK
<1>5. session' = session /\ told' = told /\ sent' = sent
  BY DEF Commit
<1>6. LinkTypeOK'
  <2>1. session' \in [Instances -> 0 .. n + 1] /\ sent' \subseteq 1 .. n + 1
    BY <1>1, <1>5 DEF LinkTypeOK
  <2>2. told' \in [Instances -> BOOLEAN]
    BY <1>5 DEF LinkTypeOK
  <2>3. /\ link' \in [Instances -> {"idle", "decide", "call", "stop"}]
        /\ reported' \in [Instances -> 0 .. n + 1]
    BY <1>1 DEF LinkTypeOK, Commit
  <2> QED
    BY <1>1, <1>3, <1>4, <2>1, <2>2, <2>3 DEF LinkTypeOK
<1>7. \A m \in Nat : StartedSince(m) => StartedSince(m)'
  BY <1>1, <1>2 DEF StartedSince
<1>8. ASSUME playing, NEW m \in 0 .. n
      PROVE  StartedSince(m)'
  <2>1. n + 1 \in m + 1 .. Len(log') /\ log'[n + 1]
    BY <1>1, <1>2, <1>8
  <2> QED
    BY <2>1 DEF StartedSince
<1>9. \A j \in Instances : j # i => (IsPlaying(j)' <=> IsPlaying(j))
  BY <1>1, <1>2, <1>3 DEF IsPlaying, Plays, LinkTypeOK
<1> QED
  BY <1>1, <1>3, <1>5, <1>6, <1>7, <1>8, <1>9

-----------------------------------------------------------------------------
(* Link by itself: what its thread is through with, and what it tells.     *)

LEMMA LinkRests == LinkInv /\ UNCHANGED linkVars => LinkInv'
BY DEF LinkInv, LinkTypeOK, linkVars, ClientIsKnown, ReportedInOrder, ToldOfReported, Plays, StartedSince

\* What a step of Link makes sure of: nothing is forgotten.
Onward ==
  /\ LinkInv'
  /\ Len(log) \in Nat /\ Len(log) <= Len(log')
  /\ \A n \in Nat : StartedSince(n) => StartedSince(n)'
  /\ \A j \in Instances : reported[j] <= reported'[j]

LEMMA CommitKeeps ==
  ASSUME LinkInv, NEW i \in Instances, NEW playing \in BOOLEAN, Commit(i, playing)
  PROVE  Onward
<1> DEFINE t == Len(log) + 1
<1>1. /\ LinkTypeOK' /\ Len(log) \in Nat /\ Len(log') = t
      /\ \A n \in Nat : StartedSince(n) => StartedSince(n)'
      /\ client' = [client EXCEPT ![i] = t]
  BY CommitStep DEF LinkInv
<1>2. UNCHANGED <<session, told, link, reported>> /\ jobs' = [jobs EXCEPT ![i] = Append(@, t)]
  BY DEF Commit
<1>3. \A j \in Instances :
        /\ client[j] \in 0 .. Len(log) /\ session[j] \in 0 .. Len(log) /\ reported[j] \in 0 .. Len(log)
        /\ jobs[j] \in Seq(1 .. Len(log))
  BY DEF LinkInv, LinkTypeOK
<1>4. \A j \in Instances : client'[j] = IF j = i THEN t ELSE client[j]
  BY <1>1 DEF LinkInv, LinkTypeOK
<1>5. ClientIsKnown'
  <2>1. jobs'[i] = Append(jobs[i], t) /\ \A j \in Instances : j # i => jobs'[j] = jobs[j]
    BY <1>2 DEF LinkInv, LinkTypeOK
  <2>2. jobs'[i] # <<>> /\ jobs'[i][Len(jobs'[i])] = t
    BY <1>3, <2>1, AppendProperties
  <2> QED
    BY <1>1, <1>2, <1>3, <1>4, <2>1, <2>2 DEF LinkInv, ClientIsKnown
<1>6. ReportedInOrder'
  BY <1>2 DEF LinkInv, ReportedInOrder
<1>7. ToldOfReported'
  <2>1. \A n \in 0 .. Len(log) : Plays(n)' <=> Plays(n)
    BY <1>1 DEF LinkInv, LinkTypeOK, Commit, Plays
  <2> SUFFICES ASSUME NEW j \in Instances
               PROVE  /\ client'[j] = reported[j] => told[j] = Plays(reported[j])'
                      /\ link[j] \in {"call", "stop"} /\ client'[j] = session[j] => told[j] = Plays(session[j])'
                      /\ link[j] = "call" /\ told[j] => StartedSince(reported[j])'
    BY <1>2 DEF ToldOfReported
  <2>2. Plays(reported[j])' = Plays(reported[j]) /\ Plays(session[j])' = Plays(session[j])
    BY <1>2, <1>3, <2>1 DEF Plays
  <2>3. StartedSince(reported[j]) => StartedSince(reported[j])'
    <3>1. reported[j] \in Nat /\ reported'[j] = reported[j]
      BY <1>1, <1>2, <1>3
    <3> QED
      BY <1>1, <3>1
  <2>4. client'[j] = client[j] \/ (client'[j] # reported[j] /\ client'[j] # session[j])
    BY <1>1, <1>3, <1>4
  <2> QED
    BY <2>2, <2>3, <2>4 DEF LinkInv, ToldOfReported
<1> QED
  BY <1>1, <1>2, <1>3, <1>5, <1>6, <1>7 DEF Onward, LinkInv

\* Link's thread adopts a newer state or keeps its own, and will then decide.
LEMMA AdoptKeeps ==
  ASSUME LinkInv, NEW i \in Instances, HandleCommit(i) \/ Hear(i)
  PROVE  Onward
<1>1. UNCHANGED <<log, told, reported>> /\ Len(log) \in Nat
  BY DEF LinkInv, LinkTypeOK, HandleCommit, Hear
<1>2. link[i] = "idle" /\ link' = [link EXCEPT ![i] = "decide"]
  BY DEF HandleCommit, Hear, LinkGoes
<1>3. PICK t \in 1 .. Len(log) :
        /\ Adopt(i, t)
        /\ \/ t > session[i] /\ jobs' = jobs
           \/ jobs[i] # <<>> /\ t = Head(jobs[i]) /\ jobs' = [jobs EXCEPT ![i] = Tail(@)]
  <2>1. CASE HandleCommit(i)
    BY <2>1, HeadTailProperties DEF LinkInv, LinkTypeOK, HandleCommit
  <2>2. CASE Hear(i)
    BY <2>2 DEF LinkInv, LinkTypeOK, Hear
  <2> QED
    BY <2>1, <2>2
<1>4. jobs' \in [Instances -> Seq(1 .. Len(log))]
  <2>1. jobs \in [Instances -> Seq(1 .. Len(log))]
    BY DEF LinkInv, LinkTypeOK
  <2>2. jobs[i] # <<>> => Tail(jobs[i]) \in Seq(1 .. Len(log))
    BY <2>1, HeadTailProperties
  <2> QED
    BY <1>3, <2>1, <2>2
<1>5. \A j \in Instances :
        /\ client[j] \in 0 .. Len(log) /\ session[j] \in 0 .. Len(log) /\ reported[j] \in 0 .. Len(log)
        /\ jobs[j] \in Seq(1 .. Len(log))
  BY DEF LinkInv, LinkTypeOK
<1>6. CASE t > session[i]
  <2>1. session' = [session EXCEPT ![i] = t] /\ client' = [client EXCEPT ![i] = t] /\ sent' \subseteq sent \cup {t}
    BY <1>3, <1>6 DEF Adopt
  <2>2. LinkTypeOK'
    BY <1>1, <1>2, <1>4, <2>1 DEF LinkInv, LinkTypeOK
  <2>3. /\ session'[i] = t /\ client'[i] = t
        /\ \A j \in Instances : j # i => /\ session'[j] = session[j] /\ client'[j] = client[j]
                                          /\ jobs'[j] = jobs[j] /\ link'[j] = link[j]
    BY <1>2, <1>3, <2>1 DEF LinkInv, LinkTypeOK
  <2>4. link'[i] = "decide" /\ reported'[i] = session[i]
    BY <1>1, <1>2 DEF LinkInv, LinkTypeOK, ReportedInOrder
  <2>5. ClientIsKnown'
    BY <2>3 DEF LinkInv, ClientIsKnown
  <2>6. ReportedInOrder'
    <3>1. reported'[i] <= session'[i] /\ link'[i] # "idle"
      BY <1>1, <1>5, <1>6, <2>3, <2>4
    <3>2. \A j \in Instances : j # i =>
            session'[j] = session[j] /\ link'[j] = link[j] /\ reported'[j] = reported[j]
      BY <1>1, <2>3
    <3> QED
      BY <3>1, <3>2 DEF LinkInv, ReportedInOrder
  <2>7. ToldOfReported'
    <3>1. \A n \in Nat : (Plays(n)' <=> Plays(n)) /\ (StartedSince(n)' <=> StartedSince(n))
      BY <1>1 DEF Plays, StartedSince
    <3>2. client'[i] # reported'[i]
      BY <1>5, <1>6, <2>3, <2>4
    <3>3. ASSUME NEW j \in Instances, j # i
          PROVE  /\ client'[j] = reported'[j] => told'[j] = Plays(reported[j])'
                 /\ link'[j] \in {"call", "stop"} /\ client'[j] = session'[j] => told'[j] = Plays(session[j])'
                 /\ link'[j] = "call" /\ told'[j] => StartedSince(reported[j])'
      <4>1. /\ client'[j] = client[j] /\ session'[j] = session[j] /\ reported'[j] = reported[j]
            /\ told'[j] = told[j] /\ link'[j] = link[j]
        BY <1>1, <2>3, <3>3
      <4> QED
        BY <1>1, <4>1 DEF LinkInv, ToldOfReported, Plays, StartedSince
    <3> QED
      BY <2>4, <3>2, <3>3 DEF ToldOfReported
  <2> QED
    BY <1>1, <1>5, <2>2, <2>5, <2>6, <2>7 DEF Onward, LinkInv, StartedSince
<1>7. CASE ~(t > session[i])
  <2>1. UNCHANGED <<session, client, sent>>
    BY <1>3, <1>7 DEF Adopt
  <2>2. LinkTypeOK'
    BY <1>1, <1>2, <1>4, <2>1 DEF LinkInv, LinkTypeOK
  <2>3. \A j \in Instances : j # i => jobs'[j] = jobs[j] /\ link'[j] = link[j]
    BY <1>2, <1>3 DEF LinkInv, LinkTypeOK
  <2>4. link'[i] = "decide"
    BY <1>2 DEF LinkInv, LinkTypeOK
  <2>5. ClientIsKnown'
    <3>1. jobs[i] # <<>> /\ t = Head(jobs[i]) /\ jobs'[i] = Tail(jobs[i])
      BY <1>3, <1>7 DEF LinkInv, LinkTypeOK
    <3>2. CASE client[i] = session[i]
      BY <2>1, <2>3, <3>2 DEF LinkInv, ClientIsKnown
    <3>3. CASE client[i] = jobs[i][Len(jobs[i])] /\ client[i] > session[i]
      <4> DEFINE s == jobs[i]
      <4>1. s \in Seq(1 .. Len(log)) /\ s # <<>> /\ Len(s) \in Nat /\ s[1] = t
        BY <1>5, <3>1
      <4>2. Len(s) # 1 /\ Len(s) # 0
        BY <1>1, <1>5, <1>7, <3>3, <4>1
      <4>3. Len(Tail(s)) = Len(s) - 1 /\ Tail(s)[Len(s) - 1] = s[Len(s)]
        <5> HIDE DEF s
        <5>1. /\ Tail(s) \in Seq(1 .. Len(log)) /\ Len(Tail(s)) = Len(s) - 1
              /\ \A k \in 1 .. Len(Tail(s)) : Tail(s)[k] = s[k + 1]
          BY <4>1, HeadTailProperties
        <5>2. Len(s) - 1 \in 1 .. Len(Tail(s)) /\ (Len(s) - 1) + 1 = Len(s)
          BY <4>1, <4>2, <5>1
        <5> QED
          BY <5>1, <5>2
      <4>4. jobs'[i] # <<>> /\ jobs'[i][Len(jobs'[i])] = jobs[i][Len(jobs[i])]
        <5>1. jobs'[i] = Tail(s) /\ Len(Tail(s)) # 0
          BY <3>1, <4>1, <4>2, <4>3
        <5>2. Tail(s) # <<>>
          BY <5>1, EmptySeq, Zenon
        <5> QED
          BY <4>3, <5>1, <5>2
      <4> QED
        BY <2>1, <2>3, <3>3, <4>4 DEF LinkInv, ClientIsKnown
    <3> QED
      BY <3>2, <3>3 DEF LinkInv, ClientIsKnown
  <2>6. ReportedInOrder'
    BY <1>1, <2>1, <2>3, <2>4 DEF LinkInv, ReportedInOrder
  <2>7. ToldOfReported'
    BY <1>1, <2>1, <2>3, <2>4 DEF LinkInv, ToldOfReported, Plays, StartedSince
  <2> QED
    BY <1>1, <1>5, <2>2, <2>5, <2>6, <2>7 DEF Onward, LinkInv, StartedSince
<1> QED
  BY <1>6, <1>7

\* It tells the callback only of a state that differs from the one it told it last; when
\* that one plays, it was started since the thread was idle.
LEMMA DecideKeeps ==
  ASSUME LinkInv, NEW i \in Instances, Decide(i)
  PROVE  Onward
<1>1. UNCHANGED <<log, client, session, jobs, sent>> /\ Len(log) \in Nat
  BY DEF LinkInv, LinkTypeOK, Decide
<1>2. /\ link[i] = "decide" /\ told' = [told EXCEPT ![i] = Plays(client[i])]
      /\ IF told'[i] = told[i] THEN Finish(i) ELSE LinkGoes(i, "decide", "call") /\ reported' = reported
  BY DEF Decide, IsPlaying
<1>3. \A j \in Instances :
        client[j] \in 0 .. Len(log) /\ session[j] \in 0 .. Len(log) /\ reported[j] \in 0 .. Len(log)
  BY DEF LinkInv, LinkTypeOK
<1>4. \A n \in Nat : (Plays(n)' <=> Plays(n)) /\ (StartedSince(n)' <=> StartedSince(n))
  BY <1>1 DEF Plays, StartedSince
<1>5. Plays(client[i]) \in BOOLEAN
  BY <1>1, <1>3, ElementOfSeq DEF LinkInv, LinkTypeOK, Plays
<1>6. /\ told'[i] = Plays(client[i])
      /\ \A j \in Instances : j # i => told'[j] = told[j] /\ link'[j] = link[j] /\ reported'[j] = reported[j]
  BY <1>2 DEF LinkInv, LinkTypeOK, Finish, LinkGoes
<1>7. ClientIsKnown'
  BY <1>1 DEF LinkInv, ClientIsKnown
<1>8. reported[i] <= session[i] /\ session[i] <= client[i]
  BY <1>1, <1>3 DEF LinkInv, ReportedInOrder, ClientIsKnown
<1>9. CASE told'[i] = told[i]
  <2>1. link' = [link EXCEPT ![i] = "idle"] /\ reported' = [reported EXCEPT ![i] = session[i]]
    BY <1>2, <1>9 DEF Finish
  <2>2. link'[i] = "idle" /\ reported'[i] = session[i]
    BY <2>1 DEF LinkInv, LinkTypeOK
  <2>3. LinkTypeOK'
    BY <1>1, <1>2, <1>5, <2>1 DEF LinkInv, LinkTypeOK
  <2>4. ReportedInOrder'
    BY <1>1, <1>3, <1>6, <2>2 DEF LinkInv, ReportedInOrder
  <2>5. ToldOfReported'
    BY <1>1, <1>3, <1>4, <1>6, <2>2 DEF LinkInv, ToldOfReported, Plays, StartedSince
  <2> QED
    BY <1>1, <1>3, <1>4, <1>6, <1>7, <1>8, <2>2, <2>3, <2>4, <2>5 DEF Onward, LinkInv
<1>10. CASE told'[i] # told[i]
  <2>1. link' = [link EXCEPT ![i] = "call"] /\ reported' = reported
    BY <1>2, <1>10 DEF LinkGoes
  <2>2. link'[i] = "call"
    BY <2>1 DEF LinkInv, LinkTypeOK
  <2>3. LinkTypeOK'
    BY <1>1, <1>2, <1>5, <2>1 DEF LinkInv, LinkTypeOK
  <2>4. ReportedInOrder'
    BY <1>1, <1>2, <1>6, <2>1, <2>2 DEF LinkInv, ReportedInOrder
  <2>5. told'[i] => StartedSince(reported[i])
    <3>1. client[i] # reported[i]
      BY <1>6, <1>10 DEF LinkInv, ToldOfReported
    <3>2. reported[i] \in Nat /\ client[i] \in 0 .. Len(log) /\ reported[i] < client[i]
      BY <1>1, <1>3, <1>8, <3>1
    <3>3. Plays(client[i]) => StartedSince(reported[i])
      BY <3>2, PlaysSince DEF LinkInv
    <3> QED
      BY <1>6, <3>3
  <2>6. ToldOfReported'
    BY <1>1, <1>3, <1>4, <1>6, <2>1, <2>2, <2>5 DEF LinkInv, ToldOfReported, Plays, StartedSince
  <2> QED
    BY <1>1, <1>3, <1>4, <1>7, <2>1, <2>3, <2>4, <2>6 DEF Onward, LinkInv
<1> QED
  BY <1>9, <1>10

\* Behind a call of the callback it is through.
LEMMA CallKeeps ==
  ASSUME LinkInv, NEW i \in Instances, link[i] \in {"call", "stop"},
         UNCHANGED <<log, client, session, jobs, sent, told>>,
         Finish(i) \/ (LinkGoes(i, "call", "stop") /\ UNCHANGED reported)
  PROVE  Onward
<1>1. \A j \in Instances : session[j] \in 0 .. Len(log) /\ reported[j] \in 0 .. Len(log)
  BY DEF LinkInv, LinkTypeOK
<1>2. \/ link' = [link EXCEPT ![i] = "idle"] /\ reported' = [reported EXCEPT ![i] = session[i]]
      \/ link' = [link EXCEPT ![i] = "stop"] /\ reported' = reported
  BY DEF Finish, LinkGoes
<1>3. LinkTypeOK' /\ Len(log) \in Nat
  <2>1. link' \in [Instances -> {"idle", "decide", "call", "stop"}] /\ reported' \in [Instances -> 0 .. Len(log)]
    BY <1>1, <1>2 DEF LinkInv, LinkTypeOK
  <2> QED
    BY <2>1 DEF LinkInv, LinkTypeOK
<1>4. /\ \/ link'[i] = "idle" /\ reported'[i] = session[i]
         \/ link'[i] = "stop" /\ reported'[i] = reported[i]
      /\ \A j \in Instances : j # i => link'[j] = link[j] /\ reported'[j] = reported[j]
  BY <1>2 DEF LinkInv, LinkTypeOK
<1>5. ClientIsKnown'
  BY DEF LinkInv, ClientIsKnown
<1>6. ReportedInOrder'
  BY <1>1, <1>3, <1>4 DEF LinkInv, ReportedInOrder
<1>7. ToldOfReported'
  BY <1>4 DEF LinkInv, ToldOfReported, Plays, StartedSince
<1>8. \A j \in Instances : reported[j] <= reported'[j]
  BY <1>1, <1>3, <1>4 DEF LinkInv, ReportedInOrder
<1> QED
  BY <1>3, <1>5, <1>6, <1>7, <1>8 DEF Onward, LinkInv, StartedSince

-----------------------------------------------------------------------------
(* The steps of the main thread that leave Link alone.                     *)

LEMMA MainSteps ==
  ASSUME IInv, NEW i \in Instances, UNCHANGED linkVars,
         \/ StartContinues(i) \/ StartWaits(i) \/ Register(i) \/ Spawn(i) \/ Wait(i)
         \/ SpuriousWakeup(i) \/ StartReturns(i)
  PROVE  IInv'
<1>1. LinkInv'
  BY LinkRests DEF IInv
<1>2. CASE StartContinues(i)
  <2>1. StarterTypeOK'
    BY <1>2 DEF IInv, LinkInv, LinkTypeOK, StarterTypeOK, linkVars, StartContinues, MainGoes
  <2>2. ThreadsAreSpawned'
    BY <1>2 DEF IInv, StarterTypeOK, ThreadsAreSpawned, Spawned, Calls, StartContinues, MainGoes
  <2>3. SeenIsOld'
    BY <1>2 DEF IInv, LinkInv, LinkTypeOK, StarterTypeOK, linkVars, SeenIsOld, StartContinues, MainGoes
  <2>4. NotifiesOfStart'
    BY <1>2 DEF IInv, StarterTypeOK, NotifiesOfStart, StartedSince, linkVars, StartContinues, MainGoes
  <2>5. StartsAreAskedFor'
    BY <1>2 DEF IInv, StarterTypeOK, StartsAreAskedFor, Phase, StartedSince, linkVars, Patient, StartContinues, MainGoes
  <2>6. WokenByStart'
    BY <1>2 DEF IInv, StarterTypeOK, WokenByStart, StartedSince, linkVars, Patient, StartContinues, MainGoes
  <2>7. CountsForTheCaller'
    BY <1>2 DEF IInv, StarterTypeOK, CountsForTheCaller, Counting, Patient, linkVars, StartContinues, MainGoes
  <2> QED
    BY <1>1, <2>1, <2>2, <2>3, <2>4, <2>5, <2>6, <2>7 DEF IInv
<1>3. CASE StartWaits(i)
  <2>1. StarterTypeOK'
    BY <1>3 DEF IInv, LinkInv, LinkTypeOK, StarterTypeOK, linkVars, StartWaits, MainGoes
  <2>2. ThreadsAreSpawned'
    <3>1. states'[i] = states[i] + 1 /\ thread' = thread
      BY <1>3 DEF IInv, StarterTypeOK, StartWaits
    <3>2. \A j \in Instances : j # i => states'[j] = states[j] /\ main'[j] = main[j]
      BY <1>3 DEF IInv, StarterTypeOK, StartWaits, MainGoes
    <3>3. \A k \in Calls : Spawned(i, k) => k < states'[i]
      BY <3>1 DEF IInv, StarterTypeOK, Spawned, Calls
    <3> QED
      BY <3>1, <3>2, <3>3 DEF IInv, ThreadsAreSpawned, Spawned
  <2>3. SeenIsOld'
    <3>1. seen' = [seen EXCEPT ![i] = reported[i]] /\ reported' = reported
      BY <1>3 DEF StartWaits, linkVars
    <3>2. \A j \in Instances : seen'[j] = IF j = i THEN reported[j] ELSE seen[j]
      BY <3>1 DEF IInv, StarterTypeOK
    <3>3. \A j \in Instances : reported[j] <= reported[j]
      BY DEF IInv, LinkInv, LinkTypeOK
    <3> QED
      BY <3>1, <3>2, <3>3 DEF IInv, SeenIsOld
  <2>4. NotifiesOfStart'
    <3>1. \A k \in Calls : k = states'[i] => thread'[i][k] # "notify"
      <4>1. states'[i] = states[i] + 1 /\ states[i] \in Nat /\ thread' = thread
        BY <1>3 DEF IInv, StarterTypeOK, StartWaits
      <4> QED
        BY <4>1 DEF IInv, ThreadsAreSpawned, Spawned
    <3>2. \A j \in Instances : j # i => states'[j] = states[j] /\ seen'[j] = seen[j]
      BY <1>3 DEF IInv, StarterTypeOK, StartWaits
    <3>3. thread' = thread /\ log' = log
      BY <1>3 DEF StartWaits, linkVars
    <3> QED
      BY <3>1, <3>2, <3>3 DEF IInv, NotifiesOfStart, StartedSince
  <2>5. StartsAreAskedFor'
    BY <1>3 DEF IInv, StarterTypeOK, StartsAreAskedFor, Phase, StartedSince, linkVars, Patient, StartWaits, MainGoes
  <2>6. WokenByStart'
    BY <1>3 DEF IInv, StarterTypeOK, WokenByStart, StartedSince, linkVars, Patient, StartWaits, MainGoes
  <2>7. CountsForTheCaller'
    BY <1>3 DEF IInv, StarterTypeOK, CountsForTheCaller, Counting, Patient, linkVars, StartWaits, MainGoes
  <2> QED
    BY <1>1, <2>1, <2>2, <2>3, <2>4, <2>5, <2>6, <2>7 DEF IInv
<1>4. CASE Register(i)
  <2>1. StarterTypeOK'
    BY <1>4 DEF IInv, LinkInv, LinkTypeOK, StarterTypeOK, linkVars, Register, MainGoes
  <2>2. ThreadsAreSpawned'
    BY <1>4 DEF IInv, StarterTypeOK, ThreadsAreSpawned, Spawned, Calls, Register, MainGoes
  <2>3. SeenIsOld'
    BY <1>4 DEF IInv, LinkInv, LinkTypeOK, StarterTypeOK, linkVars, SeenIsOld, Register, MainGoes
  <2>4. NotifiesOfStart'
    BY <1>4 DEF IInv, StarterTypeOK, NotifiesOfStart, StartedSince, linkVars, Register, MainGoes
  <2>5. StartsAreAskedFor'
    BY <1>4 DEF IInv, StarterTypeOK, StartsAreAskedFor, Phase, StartedSince, linkVars, Patient, Register, MainGoes
  <2>6. WokenByStart'
    BY <1>4 DEF IInv, StarterTypeOK, WokenByStart, StartedSince, linkVars, Patient, Register, MainGoes
  <2>7. CountsForTheCaller'
    BY <1>4 DEF IInv, StarterTypeOK, CountsForTheCaller, Counting, Patient, linkVars, Register, MainGoes
  <2> QED
    BY <1>1, <2>1, <2>2, <2>3, <2>4, <2>5, <2>6, <2>7 DEF IInv
<1>5. CASE Spawn(i)
  <2>1. StarterTypeOK'
    BY <1>5 DEF IInv, LinkInv, LinkTypeOK, StarterTypeOK, linkVars, Spawn, MainGoes
  <2>2. ThreadsAreSpawned'
    BY <1>5 DEF IInv, StarterTypeOK, ThreadsAreSpawned, Spawned, Calls, Spawn, MainGoes
  <2>3. SeenIsOld'
    BY <1>5 DEF IInv, LinkInv, LinkTypeOK, StarterTypeOK, linkVars, SeenIsOld, Spawn, MainGoes
  <2>4. NotifiesOfStart'
    BY <1>5 DEF IInv, StarterTypeOK, NotifiesOfStart, StartedSince, linkVars, Spawn, MainGoes
  <2>5. StartsAreAskedFor'
    BY <1>5 DEF IInv, StarterTypeOK, StartsAreAskedFor, Phase, StartedSince, linkVars, Patient, Spawn, MainGoes
  <2>6. WokenByStart'
    BY <1>5 DEF IInv, StarterTypeOK, WokenByStart, StartedSince, linkVars, Patient, Spawn, MainGoes
  <2>7. CountsForTheCaller'
    BY <1>5 DEF IInv, StarterTypeOK, CountsForTheCaller, Counting, Patient, linkVars, Spawn, MainGoes
  <2> QED
    BY <1>1, <2>1, <2>2, <2>3, <2>4, <2>5, <2>6, <2>7 DEF IInv
<1>6. CASE Wait(i)
  <2>1. StarterTypeOK'
    BY <1>6 DEF IInv, LinkInv, LinkTypeOK, StarterTypeOK, linkVars, Wait, MainGoes
  <2>2. ThreadsAreSpawned'
    BY <1>6 DEF IInv, StarterTypeOK, ThreadsAreSpawned, Spawned, Calls, Wait, MainGoes
  <2>3. SeenIsOld'
    BY <1>6 DEF IInv, LinkInv, LinkTypeOK, StarterTypeOK, linkVars, SeenIsOld, Wait, MainGoes
  <2>4. NotifiesOfStart'
    BY <1>6 DEF IInv, StarterTypeOK, NotifiesOfStart, StartedSince, linkVars, Wait, MainGoes
  <2>5. StartsAreAskedFor'
    BY <1>6 DEF IInv, StarterTypeOK, StartsAreAskedFor, Phase, StartedSince, linkVars, Patient, Wait, MainGoes
  <2>6. WokenByStart'
    BY <1>6 DEF IInv, StarterTypeOK, WokenByStart, StartedSince, linkVars, Patient, Wait, MainGoes
  <2>7. CountsForTheCaller'
    BY <1>6 DEF IInv, StarterTypeOK, CountsForTheCaller, Counting, Patient, linkVars, Wait, MainGoes
  <2> QED
    BY <1>1, <2>1, <2>2, <2>3, <2>4, <2>5, <2>6, <2>7 DEF IInv
<1>7. CASE SpuriousWakeup(i)
  <2>1. StarterTypeOK'
    BY <1>7 DEF IInv, LinkInv, LinkTypeOK, StarterTypeOK, linkVars, SpuriousWakeup, MainGoes
  <2>2. ThreadsAreSpawned'
    BY <1>7 DEF IInv, StarterTypeOK, ThreadsAreSpawned, Spawned, Calls, SpuriousWakeup, MainGoes
  <2>3. SeenIsOld'
    BY <1>7 DEF IInv, LinkInv, LinkTypeOK, StarterTypeOK, linkVars, SeenIsOld, SpuriousWakeup, MainGoes
  <2>4. NotifiesOfStart'
    BY <1>7 DEF IInv, StarterTypeOK, NotifiesOfStart, StartedSince, linkVars, SpuriousWakeup, MainGoes
  <2>5. StartsAreAskedFor'
    BY <1>7 DEF IInv, StarterTypeOK, StartsAreAskedFor, Phase, StartedSince, linkVars, Patient, SpuriousWakeup, MainGoes
  <2>6. WokenByStart'
    BY <1>7 DEF IInv, StarterTypeOK, WokenByStart, StartedSince, linkVars, Patient, SpuriousWakeup, MainGoes
  <2>7. CountsForTheCaller'
    BY <1>7 DEF IInv, StarterTypeOK, CountsForTheCaller, Counting, Patient, linkVars, SpuriousWakeup, MainGoes
  <2> QED
    BY <1>1, <2>1, <2>2, <2>3, <2>4, <2>5, <2>6, <2>7 DEF IInv
<1>8. CASE StartReturns(i)
  <2>1. StarterTypeOK'
    BY <1>8 DEF IInv, LinkInv, LinkTypeOK, StarterTypeOK, linkVars, StartReturns, MainGoes
  <2>2. ThreadsAreSpawned'
    BY <1>8 DEF IInv, StarterTypeOK, ThreadsAreSpawned, Spawned, Calls, StartReturns, MainGoes
  <2>3. SeenIsOld'
    BY <1>8 DEF IInv, LinkInv, LinkTypeOK, StarterTypeOK, linkVars, SeenIsOld, StartReturns, MainGoes
  <2>4. NotifiesOfStart'
    BY <1>8 DEF IInv, StarterTypeOK, NotifiesOfStart, StartedSince, linkVars, StartReturns, MainGoes
  <2>5. StartsAreAskedFor'
    <3>1. i \in Patient => StartedSince(0)
      BY <1>8, SinceEarlier DEF IInv, LinkInv, StarterTypeOK, LinkTypeOK, WokenByStart, StartReturns, MainGoes
    <3>2. \A n \in Nat : StartedSince(n)' <=> StartedSince(n)
      BY DEF StartedSince, linkVars
    <3>3. \A j \in Instances : j # i => Phase(j)' = Phase(j)
      BY <1>8 DEF IInv, StarterTypeOK, Phase, StartReturns, MainGoes
    <3> QED
      BY <1>8, <3>1, <3>2, <3>3 DEF IInv, StartsAreAskedFor, Patient, linkVars, StartReturns
  <2>6. WokenByStart'
    BY <1>8 DEF IInv, StarterTypeOK, WokenByStart, StartedSince, linkVars, Patient, StartReturns, MainGoes
  <2>7. CountsForTheCaller'
    BY <1>8 DEF IInv, StarterTypeOK, CountsForTheCaller, Counting, Patient, linkVars, StartReturns, MainGoes
  <2> QED
    BY <1>1, <2>1, <2>2, <2>3, <2>4, <2>5, <2>6, <2>7 DEF IInv
<1> QED
  BY <1>2, <1>3, <1>4, <1>5, <1>6, <1>7, <1>8

LEMMA ThreadSteps ==
  ASSUME IInv, NEW i \in Instances, NEW k \in Calls, UNCHANGED linkVars,
         \/ ThreadEnds(i, k) \/ ThreadDecides(i, k)
         \/ ThreadNotifies(i, k) \/ ThreadStops(i, k)
  PROVE  IInv'
<1>1. LinkInv'
  BY LinkRests DEF IInv
<1>2. CASE ThreadEnds(i, k)
  <2>1. StarterTypeOK'
    BY <1>2 DEF IInv, LinkInv, LinkTypeOK, StarterTypeOK, linkVars, ThreadEnds, ThreadGoes
  <2>2. ThreadsAreSpawned'
    BY <1>2 DEF IInv, StarterTypeOK, ThreadsAreSpawned, Spawned, Calls, ThreadEnds, ThreadGoes
  <2>3. SeenIsOld'
    BY <1>2 DEF IInv, LinkInv, LinkTypeOK, StarterTypeOK, linkVars, SeenIsOld, ThreadEnds, ThreadGoes
  <2>4. NotifiesOfStart'
    BY <1>2 DEF IInv, StarterTypeOK, NotifiesOfStart, StartedSince, linkVars, ThreadEnds, ThreadGoes
  <2>5. StartsAreAskedFor'
    BY <1>2 DEF IInv, StarterTypeOK, StartsAreAskedFor, Phase, StartedSince, linkVars, Patient, ThreadEnds, ThreadGoes
  <2>6. WokenByStart'
    BY <1>2 DEF IInv, StarterTypeOK, WokenByStart, StartedSince, linkVars, Patient, ThreadEnds, ThreadGoes
  <2>7. CountsForTheCaller'
    BY <1>2 DEF IInv, StarterTypeOK, CountsForTheCaller, Counting, Patient, linkVars, ThreadEnds, ThreadGoes
  <2> QED
    BY <1>1, <2>1, <2>2, <2>3, <2>4, <2>5, <2>6, <2>7 DEF IInv
<1>3. CASE ThreadDecides(i, k)
  <2>1. StarterTypeOK'
    BY <1>3 DEF IInv, LinkInv, LinkTypeOK, StarterTypeOK, linkVars, ThreadDecides, ThreadGoes
  <2>2. ThreadsAreSpawned'
    BY <1>3 DEF IInv, StarterTypeOK, ThreadsAreSpawned, Spawned, Calls, ThreadDecides, ThreadGoes
  <2>3. SeenIsOld'
    BY <1>3 DEF IInv, LinkInv, LinkTypeOK, StarterTypeOK, linkVars, SeenIsOld, ThreadDecides, ThreadGoes
  <2>4. NotifiesOfStart'
    BY <1>3 DEF IInv, StarterTypeOK, NotifiesOfStart, StartedSince, linkVars, ThreadDecides, ThreadGoes
  <2>5. StartsAreAskedFor'
    <3>1. i \in Patient => Phase(i) = "in" \/ StartedSince(0)
      BY <1>3 DEF IInv, StartsAreAskedFor, CountsForTheCaller, Counting, Phase, Patient, ThreadDecides, ThreadGoes
    <3>2. \A j \in Instances, m \in Calls :
            thread'[j][m] = "commit" => thread[j][m] = "commit" \/ j = i
      BY <1>3 DEF IInv, StarterTypeOK, ThreadDecides, ThreadGoes
    <3> QED
      BY <1>3, <3>1, <3>2 DEF IInv, StartsAreAskedFor, StartedSince, Phase, Patient, linkVars, ThreadDecides
  <2>6. WokenByStart'
    BY <1>3 DEF IInv, StarterTypeOK, WokenByStart, StartedSince, linkVars, Patient, ThreadDecides, ThreadGoes
  <2>7. CountsForTheCaller'
    BY <1>3 DEF IInv, StarterTypeOK, CountsForTheCaller, Counting, Patient, linkVars, ThreadDecides, ThreadGoes
  <2> QED
    BY <1>1, <2>1, <2>2, <2>3, <2>4, <2>5, <2>6, <2>7 DEF IInv
<1>4. CASE ThreadNotifies(i, k)
  <2>1. StarterTypeOK'
    BY <1>4 DEF IInv, LinkInv, LinkTypeOK, StarterTypeOK, linkVars, ThreadNotifies, ThreadGoes, Notify, Notified
  <2>2. ThreadsAreSpawned'
    BY <1>4 DEF IInv, StarterTypeOK, ThreadsAreSpawned, Spawned, Calls, ThreadNotifies, ThreadGoes, Notify, Notified
  <2>3. SeenIsOld'
    BY <1>4 DEF IInv, LinkInv, LinkTypeOK, StarterTypeOK, linkVars, SeenIsOld, ThreadNotifies, ThreadGoes, Notify, Notified
  <2>4. NotifiesOfStart'
    BY <1>4 DEF IInv, StarterTypeOK, NotifiesOfStart, StartedSince, linkVars, ThreadNotifies, ThreadGoes, Notify, Notified
  <2>5. StartsAreAskedFor'
    BY <1>4 DEF IInv, StarterTypeOK, StartsAreAskedFor, Phase, StartedSince, linkVars, Patient, ThreadNotifies, ThreadGoes, Notify, Notified
  <2>6. WokenByStart'
    BY <1>4 DEF IInv, StarterTypeOK, WokenByStart, NotifiesOfStart, StartedSince, linkVars, Patient, ThreadNotifies, ThreadGoes, Notify, Notified
  <2>7. CountsForTheCaller'
    BY <1>4 DEF IInv, StarterTypeOK, CountsForTheCaller, Counting, Patient, linkVars, ThreadNotifies, ThreadGoes, Notify, Notified
  <2> QED
    BY <1>1, <2>1, <2>2, <2>3, <2>4, <2>5, <2>6, <2>7 DEF IInv
<1>5. CASE ThreadStops(i, k)
  <2>1. StarterTypeOK'
    BY <1>5 DEF IInv, LinkInv, LinkTypeOK, StarterTypeOK, linkVars, ThreadStops, ThreadGoes
  <2>2. ThreadsAreSpawned'
    BY <1>5 DEF IInv, StarterTypeOK, ThreadsAreSpawned, Spawned, Calls, ThreadStops, ThreadGoes
  <2>3. SeenIsOld'
    BY <1>5 DEF IInv, LinkInv, LinkTypeOK, StarterTypeOK, linkVars, SeenIsOld, ThreadStops, ThreadGoes
  <2>4. NotifiesOfStart'
    BY <1>5 DEF IInv, StarterTypeOK, NotifiesOfStart, StartedSince, linkVars, ThreadStops, ThreadGoes
  <2>5. StartsAreAskedFor'
    BY <1>5 DEF IInv, StarterTypeOK, StartsAreAskedFor, Phase, StartedSince, linkVars, Patient, ThreadStops, ThreadGoes
  <2>6. WokenByStart'
    BY <1>5 DEF IInv, StarterTypeOK, WokenByStart, StartedSince, linkVars, Patient, ThreadStops, ThreadGoes
  <2>7. CountsForTheCaller'
    BY <1>5 DEF IInv, StarterTypeOK, CountsForTheCaller, Counting, Patient, linkVars, ThreadStops, ThreadGoes
  <2> QED
    BY <1>1, <2>1, <2>2, <2>3, <2>4, <2>5, <2>6, <2>7 DEF IInv
<1> QED
  BY <1>2, <1>3, <1>4, <1>5

-----------------------------------------------------------------------------
(* The steps of Link: commits, what its thread does, and the callback.     *)

LEMMA Commits ==
  ASSUME IInv, NEW i \in Instances,
         Stop(i) \/ StopOther(i) \/ \E k \in Calls : ThreadCommits(i, k)
  PROVE  IInv'
<1>1. PICK playing \in BOOLEAN : Commit(i, playing)
  BY DEF Stop, StopOther, ThreadCommits
<1>2. Onward /\ link' = link /\ reported' = reported
  BY <1>1, CommitKeeps DEF IInv, Commit
<1>3. /\ Len(log) \in Nat /\ Len(log') = Len(log) + 1
      /\ \A n \in Nat : StartedSince(n) => StartedSince(n)'
  BY <1>1, CommitStep DEF IInv, LinkInv
<1>4. /\ \A j \in Instances : seen[j] \in 0 .. Len(log)
      /\ seen \in [Instances -> 0 .. Len(log')] /\ looked \in [Instances -> 0 .. Len(log')]
  BY <1>3 DEF IInv, StarterTypeOK
<1>5. UNCHANGED seen => SeenIsOld'
  BY <1>2 DEF IInv, SeenIsOld
<1>6. CASE Stop(i) \/ StopOther(i)
  <2>1. /\ UNCHANGED <<states, callback, thread, stopped, seen, looked>>
        /\ main' \in [Instances -> {"idle", "register", "spawn", "lock", "waiting", "woken", "playing"}]
        /\ \A j \in Instances :
             main'[j] = main[j] \/ (main[j] = "playing" /\ main'[j] = "idle")
    <3>1. UNCHANGED <<states, callback, thread, stopped, seen, looked>>
      BY <1>6 DEF Stop, StopOther, starterVars
    <3>2. main' = main \/ (main[i] = "playing" /\ main' = [main EXCEPT ![i] = "idle"])
      BY <1>6 DEF Stop, StopOther, MainGoes, starterVars
    <3> QED
      BY <3>1, <3>2 DEF IInv, StarterTypeOK
  <2>2. StarterTypeOK'
    BY <1>4, <2>1 DEF IInv, StarterTypeOK
  <2>3. ThreadsAreSpawned'
    BY <2>1 DEF IInv, ThreadsAreSpawned, Spawned
  <2>4. CountsForTheCaller'
    BY <1>2, <2>1 DEF IInv, CountsForTheCaller, Counting, Patient
  <2>5. \A j \in Instances : StartedSince(seen[j]) => StartedSince(seen[j])'
    <3> TAKE j \in Instances
    <3>1. seen[j] \in Nat /\ seen'[j] = seen[j]
      BY <1>3, <1>4, <2>1
    <3> QED
      BY <1>3, <3>1
  <2>6. NotifiesOfStart'
    BY <2>1, <2>5 DEF IInv, NotifiesOfStart
  <2>7. StartsAreAskedFor'
    BY <1>2, <1>3, <2>1 DEF IInv, StartsAreAskedFor, Phase, Patient
  <2>8. WokenByStart'
    BY <2>1, <2>5 DEF IInv, WokenByStart, Patient
  <2> QED
    BY <1>2, <1>5, <2>1, <2>2, <2>3, <2>4, <2>6, <2>7, <2>8 DEF IInv, Onward
<1>7. ASSUME NEW k \in Calls, ThreadCommits(i, k)
      PROVE  IInv'
  <2>1. \A n \in 0 .. Len(log) : StartedSince(n)'
    BY <1>7, CommitStep DEF IInv, LinkInv, ThreadCommits
  <2>2. StarterTypeOK'
    BY <1>4, <1>7 DEF IInv, StarterTypeOK, ThreadCommits, ThreadGoes
  <2>3. ThreadsAreSpawned'
    BY <1>7 DEF IInv, StarterTypeOK, ThreadsAreSpawned, Spawned, ThreadCommits, ThreadGoes
  <2>4. CountsForTheCaller'
    BY <1>2, <1>7 DEF IInv, StarterTypeOK, CountsForTheCaller, Counting, Patient, ThreadCommits, ThreadGoes
  <2>5. NotifiesOfStart' /\ StartsAreAskedFor' /\ WokenByStart'
    BY <1>3, <1>4, <1>7, <2>1 DEF NotifiesOfStart, StartsAreAskedFor, WokenByStart, Patient, ThreadCommits
  <2> QED
    BY <1>2, <1>5, <1>7, <2>2, <2>3, <2>4, <2>5 DEF IInv, Onward, ThreadCommits
<1> QED
  BY <1>6, <1>7

\* A step of Link's thread that leaves the main thread alone, and nothing half stopped.
LEMMA LinkStarterKeeps ==
  ASSUME IInv, Onward, UNCHANGED <<main, states, callback, thread, stopped, seen, looked>>,
         \A j \in Instances : link'[j] = "stop" <=> link[j] = "stop"
  PROVE  IInv'
<1>1. \A j \in Instances : seen[j] \in 0 .. Len(log) /\ reported[j] \in Nat /\ reported'[j] \in Nat
  BY DEF IInv, Onward, LinkInv, LinkTypeOK, StarterTypeOK
<1>2. \A j \in Instances : StartedSince(seen[j]) => StartedSince(seen[j])'
  <2> TAKE j \in Instances
  <2>1. seen[j] \in Nat /\ seen'[j] = seen[j]
    BY <1>1 DEF IInv, LinkInv, LinkTypeOK
  <2>2. StartedSince(seen[j]) => StartedSince(seen[j])'
    BY <2>1 DEF Onward
  <2> QED
    BY <2>2
<1>3. StartedSince(0) => StartedSince(0)'
  BY DEF Onward
<1>4. StarterTypeOK'
  <2>1. Len(log') \in Nat
    BY DEF Onward, LinkInv, LinkTypeOK
  <2> QED
    BY <2>1 DEF IInv, Onward, StarterTypeOK
<1>5. SeenIsOld'
  BY <1>1 DEF IInv, Onward, SeenIsOld
<1>6. ThreadsAreSpawned' /\ CountsForTheCaller'
  BY DEF IInv, ThreadsAreSpawned, Spawned, CountsForTheCaller, Counting, Patient
<1>7. NotifiesOfStart' /\ WokenByStart'
  BY <1>2 DEF IInv, NotifiesOfStart, WokenByStart, Patient
<1>8. StartsAreAskedFor'
  BY <1>3 DEF IInv, StartsAreAskedFor, Phase
<1> QED
  BY <1>4, <1>5, <1>6, <1>7, <1>8 DEF IInv, Onward

LEMMA LinkSteps ==
  ASSUME IInv, NEW i \in Instances, LinkHandles(i) \/ LinkHears(i) \/ LinkDecides(i)
  PROVE  IInv'
<1>1. Onward
  BY AdoptKeeps, DecideKeeps DEF IInv, LinkHandles, LinkHears, LinkDecides
<1>2. \A j \in Instances : link'[j] = "stop" <=> link[j] = "stop"
  BY DEF IInv, LinkInv, LinkTypeOK, LinkHandles, LinkHears, LinkDecides, HandleCommit, Hear, Decide, LinkGoes, Finish
<1>3. UNCHANGED <<main, states, callback, thread, stopped, seen, looked>>
  BY DEF LinkHandles, LinkHears, LinkDecides, starterVars
<1> QED
  BY <1>1, <1>2, <1>3, LinkStarterKeeps

\* A call of the callback with TRUE wakes a wait only after a start that Link's thread was
\* not through with when the call that waits looked, whoever decided on it and when.
LEMMA CallbackStep ==
  ASSUME IInv, NEW i \in Instances, Callback(i)
  PROVE  IInv'
<1>1. /\ link[i] = "call" /\ UNCHANGED <<log, client, session, jobs, sent, told>>
      /\ UNCHANGED <<states, callback, thread, stopped, seen, looked>>
  BY DEF Callback
<1>2. Onward
  BY <1>1, CallKeeps DEF IInv, Callback
<1>3. CASE ~(told[i] /\ callback[i] # 0)
  <2>1. Finish(i) /\ main' = main
    BY <1>3 DEF Callback
  <2>2. \A j \in Instances : link'[j] = "stop" <=> link[j] = "stop"
    BY <1>1, <2>1 DEF IInv, LinkInv, LinkTypeOK, Finish
  <2> QED
    BY <1>1, <1>2, <2>1, <2>2, LinkStarterKeeps
<1>4. CASE told[i] /\ callback[i] # 0
  <2>1. Notify(i, callback[i]) /\ link' = [link EXCEPT ![i] = "stop"] /\ reported' = reported
    BY <1>4 DEF Callback, LinkGoes
  <2>2. StartedSince(seen[i]) /\ StartedSince(0)
    <3>1. StartedSince(reported[i])
      BY <1>1, <1>4 DEF IInv, LinkInv, ToldOfReported
    <3>2. seen[i] \in Nat /\ reported[i] \in Nat /\ seen[i] <= reported[i]
      BY DEF IInv, SeenIsOld, LinkInv, LinkTypeOK, StarterTypeOK
    <3> QED
      BY <3>1, <3>2, SinceEarlier DEF IInv, LinkInv
  <2>3. StarterTypeOK'
    BY <1>1, <2>1 DEF IInv, StarterTypeOK, Notify, Notified
  <2>4. SeenIsOld'
    BY <1>1, <2>1 DEF IInv, SeenIsOld
  <2>5. ThreadsAreSpawned'
    BY <1>1, <2>1 DEF IInv, StarterTypeOK, ThreadsAreSpawned, Spawned, Notify, Notified
  <2>6. NotifiesOfStart'
    BY <1>1 DEF IInv, NotifiesOfStart, StartedSince
  <2>7. StartsAreAskedFor'
    BY <1>1, <2>1, <2>2 DEF IInv, StarterTypeOK, LinkInv, LinkTypeOK, StartsAreAskedFor, StartedSince, Phase, Notify, Notified
  <2>8. WokenByStart'
    BY <1>1, <2>1, <2>2 DEF IInv, StarterTypeOK, WokenByStart, StartedSince, Notify, Notified
  <2>9. CountsForTheCaller'
    BY <1>1, <2>1 DEF IInv, StarterTypeOK, LinkInv, LinkTypeOK, CountsForTheCaller, Counting, Patient, Notify, Notified
  <2> QED
    BY <1>2, <2>3, <2>4, <2>5, <2>6, <2>7, <2>8, <2>9 DEF IInv, Onward
<1> QED
  BY <1>3, <1>4

LEMMA CallbackStopsStep ==
  ASSUME IInv, NEW i \in Instances, CallbackStops(i)
  PROVE  IInv'
<1>1. /\ link[i] = "stop" /\ UNCHANGED <<log, client, session, jobs, sent, told>>
      /\ UNCHANGED <<main, states, callback, thread, seen, looked>>
      /\ stopped' = [stopped EXCEPT ![i][callback[i]] = TRUE]
      /\ Finish(i)
  BY DEF CallbackStops
<1>2. Onward
  BY <1>1, CallKeeps DEF IInv
<1>3. link' = [link EXCEPT ![i] = "idle"]
  BY <1>1 DEF Finish
<1>4. StarterTypeOK'
  BY <1>1 DEF IInv, StarterTypeOK
<1>5. SeenIsOld'
  <2>1. \A j \in Instances : seen[j] \in Nat /\ reported[j] \in Nat /\ reported'[j] \in Nat
    BY <1>2 DEF IInv, Onward, LinkInv, LinkTypeOK, StarterTypeOK
  <2>2. \A j \in Instances : seen[j] <= reported[j] /\ reported[j] <= reported'[j] /\ seen'[j] = seen[j]
    BY <1>1, <1>2 DEF IInv, Onward, SeenIsOld
  <2> QED
    BY <2>1, <2>2 DEF SeenIsOld
<1>6. ThreadsAreSpawned'
  BY <1>1 DEF IInv, ThreadsAreSpawned, Spawned
<1>7. NotifiesOfStart' /\ WokenByStart'
  BY <1>1 DEF IInv, NotifiesOfStart, WokenByStart, StartedSince
<1>8. StartsAreAskedFor'
  BY <1>1, <1>3 DEF IInv, LinkInv, LinkTypeOK, StartsAreAskedFor, StartedSince, Phase
<1>9. CountsForTheCaller'
  BY <1>1, <1>3 DEF IInv, StarterTypeOK, CountsForTheCaller, Counting, Patient
<1> QED
  BY <1>2, <1>4, <1>5, <1>6, <1>7, <1>8, <1>9 DEF IInv, Onward

-----------------------------------------------------------------------------
(* The invariant.                                                          *)

LEMMA Initially == Init => IInv
<1> SUFFICES ASSUME Init PROVE IInv
  OBVIOUS
<1>1. LinkTypeOK /\ Len(log) = 0
  BY EmptySeq DEF Init, LinkInit, LinkTypeOK
<1>2. StarterTypeOK
  BY <1>1 DEF Init, StarterTypeOK
<1>3. \A i \in Instances :
        /\ client[i] = 0 /\ session[i] = 0 /\ reported[i] = 0 /\ seen[i] = 0
        /\ told[i] = FALSE /\ link[i] = "idle"
  BY DEF Init, LinkInit
<1>4. ClientIsKnown /\ ReportedInOrder /\ SeenIsOld
  BY <1>3 DEF ClientIsKnown, ReportedInOrder, SeenIsOld
<1>5. ToldOfReported
  <2>1. Plays(0) = FALSE
    BY DEF Plays
  <2> QED
    BY <1>3, <2>1, Zenon DEF ToldOfReported
<1>6. ThreadsAreSpawned /\ NotifiesOfStart /\ StartsAreAskedFor
  BY <1>3 DEF Init, ThreadsAreSpawned, NotifiesOfStart, StartsAreAskedFor, Patient
<1>7. WokenByStart /\ CountsForTheCaller
  BY DEF Init, WokenByStart, CountsForTheCaller, Counting, Patient
<1> QED
  BY <1>1, <1>2, <1>4, <1>5, <1>6, <1>7 DEF IInv, LinkInv

LEMMA Inductive == IInv /\ [Next]_vars => IInv'
<1> SUFFICES ASSUME IInv, [Next]_vars PROVE IInv'
  OBVIOUS
<1>1. CASE UNCHANGED vars
  <2>1. LinkInv'
    BY <1>1, LinkRests DEF vars, IInv
  <2> QED
    BY <1>1, <2>1
    DEF vars, linkVars, starterVars, IInv, StarterTypeOK, SeenIsOld, ThreadsAreSpawned, Spawned,
        NotifiesOfStart, StartsAreAskedFor, Phase, StartedSince, WokenByStart, CountsForTheCaller, Counting
<1>2. ASSUME NEW i \in Instances, MainStep(i) \/ SpuriousWakeup(i)
      PROVE  IInv'
  <2>1. CASE Stop(i)
    BY <2>1, Commits
  <2> QED
    BY <1>2, <2>1, MainSteps
    DEF MainStep, StartContinues, StartWaits, Register, Spawn, Wait, SpuriousWakeup, StartReturns
<1>3. ASSUME NEW i \in Instances, StopOther(i)
      PROVE  IInv'
  BY <1>3, Commits
<1>4. ASSUME NEW i \in Instances, LinkStep(i)
      PROVE  IInv'
  BY <1>4, LinkSteps, CallbackStep, CallbackStopsStep DEF LinkStep
<1>5. ASSUME NEW i \in Instances, NEW k \in Calls, ThreadStep(i, k)
      PROVE  IInv'
  <2>1. CASE ThreadCommits(i, k)
    BY <2>1, Commits
  <2> QED
    BY <1>5, <2>1, ThreadSteps
    DEF ThreadStep, ThreadEnds, ThreadDecides, ThreadNotifies, ThreadStops
<1> QED
  BY <1>1, <1>2, <1>3, <1>4, <1>5 DEF Next

\* Everything below follows from it.
THEOREM Invariance == Spec => []IInv
BY Initially, Inductive, PTL DEF Spec

\* start() returns only because the session was started after the last state that Link's
\* thread was through with when the call looked: neither a stop, nor a start before that
\* state, nor a notification meant for an earlier call wakes it; also when the callback
\* that wakes it is called late, on a decision older than its registration.
THEOREM StartWakesTheCall == Spec => []WokenByStart
<1>1. IInv => WokenByStart
  BY DEF IInv
<1> QED
  BY <1>1, Invariance, PTL

\* The only start thread of an instance that may still start the session belongs to the
\* call that waits, unless the callback is about to stop it.
THEOREM ThreadsCountForTheCaller == Spec => []CountsForTheCaller
<1>1. IInv => CountsForTheCaller
  BY DEF IInv
<1> QED
  BY <1>1, Invariance, PTL

\* What Link's thread was through with is what start() looks at, whenever that thread is
\* idle and has none of the instance's own commits to handle.
THEOREM IdleLinkIsThrough == Spec => []LinkIsThrough
<1>1. IInv => LinkIsThrough
  BY DEF IInv, LinkInv, ClientIsKnown, ReportedInOrder, LinkIsThrough
<1> QED
  BY <1>1, Invariance, PTL

\* Every variable has its type.
THEOREM TypeCorrect == Spec => []TypeOK
<1>1. IInv => TypeOK
  BY DEF IInv, LinkInv, TypeOK
<1> QED
  BY <1>1, Invariance, PTL

-----------------------------------------------------------------------------
(* Starter implements StartBarrier, step by step.                          *)

Phases == [i \in Instances |-> Phase(i)]

LEMMA Stutters ==
  ASSUME UNCHANGED <<log, seen>>, \A j \in Instances : Phase(j)' = Phase(j)
  PROVE  UNCHANGED Barrier!vars
BY DEF Barrier!vars

\* Two of the phases of an instance, and what becomes of them when only its main
\* thread moves.
LEMMA PhaseMoves ==
  ASSUME main \in [Instances -> {"idle", "register", "spawn", "lock", "waiting", "woken", "playing"}],
         NEW i \in Instances, NEW to, main' = [main EXCEPT ![i] = to],
         NEW phase, phase = (CASE to = "idle" -> "out" [] to = "playing" -> "begun" [] OTHER -> "in")
  PROVE  Phases' = [Phases EXCEPT ![i] = phase]
<1>1. Phase(i)' = phase
  BY DEF Phase
<1>2. \A j \in Instances : j # i => Phase(j)' = Phase(j)
  BY DEF Phase
<1> QED
  BY <1>1, <1>2 DEF Phases

LEMMA MainRefines ==
  ASSUME IInv, NEW i \in Instances,
         \/ StartContinues(i) \/ StartWaits(i) \/ StartReturns(i)
  PROVE  Barrier!Next
<1>1. CASE StartContinues(i)
  <2>1. StartedSince(0)
    BY <1>1, PlaysSince DEF IInv, LinkInv, LinkTypeOK, IsPlaying, Plays, StartContinues
  <2>2. Phases[i] = "out" /\ Phases' = [Phases EXCEPT ![i] = "begun"]
    BY <1>1, PhaseMoves DEF IInv, StarterTypeOK, Phases, Phase, StartContinues, MainGoes
  <2>3. Barrier!Join(i)
    BY <1>1, <2>1, <2>2
    DEF Phases, StartedSince, StartContinues, linkVars, Barrier!Join, Barrier!Moves, Barrier!Started
  <2> QED
    BY <2>3 DEF Barrier!Next
<1>2. CASE StartWaits(i)
  <2>1. reported[i] \in 0 .. Len(log)
    BY DEF IInv, LinkInv, LinkTypeOK
  <2>2. Phases[i] = "out" /\ Phases' = [Phases EXCEPT ![i] = "in"]
    BY <1>2, PhaseMoves DEF IInv, StarterTypeOK, Phases, Phase, StartWaits, MainGoes
  <2>3. Barrier!Enter(i)
    BY <1>2, <2>1, <2>2 DEF Phases, StartWaits, linkVars, Barrier!Enter, Barrier!Moves
  <2> QED
    BY <2>3 DEF Barrier!Next
<1>3. CASE StartReturns(i)
  <2>1. StartedSince(seen[i]) \/ i \in Impatient
    BY <1>3 DEF IInv, WokenByStart, Patient, StartReturns, MainGoes
  <2>2. Phases[i] = "in" /\ Phases' = [Phases EXCEPT ![i] = "begun"]
    BY <1>3, PhaseMoves DEF IInv, StarterTypeOK, Phases, Phase, StartReturns, MainGoes
  <2>3. Barrier!Begin(i)
    BY <1>3, <2>1, <2>2
    DEF Phases, StartedSince, StartReturns, linkVars, Barrier!Begin, Barrier!Moves, Barrier!Started
  <2> QED
    BY <2>3 DEF Barrier!Next
<1> QED
  BY <1>1, <1>2, <1>3

LEMMA CommitRefines ==
  ASSUME IInv, NEW i \in Instances,
         Stop(i) \/ StopOther(i) \/ \E k \in Calls : ThreadCommits(i, k)
  PROVE  Barrier!Next
<1>1. CASE Stop(i)
  <2>1. Phases[i] = "begun" /\ Phases' = [Phases EXCEPT ![i] = "out"]
    BY <1>1, PhaseMoves DEF IInv, StarterTypeOK, Phases, Phase, Stop, MainGoes
  <2>2. Barrier!StopSession(i)
    BY <1>1, <2>1 DEF Phases, Stop, Commit, Barrier!StopSession, Barrier!Moves
  <2> QED
    BY <2>2 DEF Barrier!Next
<1>2. CASE StopOther(i)
  <2>1. Phases[i] = "out" /\ Phases' = Phases
    BY <1>2 DEF Phases, Phase, StopOther, starterVars
  <2>2. Barrier!StopSession(i)
    BY <1>2, <2>1 DEF Phases, StopOther, starterVars, Commit, Barrier!StopSession
  <2> QED
    BY <2>2 DEF Barrier!Next
<1>3. ASSUME NEW k \in Calls, ThreadCommits(i, k)
      PROVE  Barrier!Next
  <2>1. Phases[i] = "in" \/ StartedSince(0) \/ i \in Impatient
    BY <1>3 DEF IInv, StartsAreAskedFor, Patient, Phases, ThreadCommits, ThreadGoes
  <2>2. Phases' = Phases
    BY <1>3 DEF Phases, Phase, ThreadCommits
  <2>3. Barrier!StartSession(i)
    BY <1>3, <2>1, <2>2
    DEF Phases, StartedSince, ThreadCommits, Commit, Barrier!StartSession, Barrier!Started
  <2> QED
    BY <2>3 DEF Barrier!Next
<1> QED
  BY <1>1, <1>2, <1>3

LEMMA OthersStutter ==
  ASSUME IInv, NEW i \in Instances,
         \/ Register(i) \/ Spawn(i) \/ Wait(i) \/ SpuriousWakeup(i) \/ LinkStep(i)
         \/ \E k \in Calls :
              ThreadEnds(i, k) \/ ThreadDecides(i, k) \/ ThreadNotifies(i, k) \/ ThreadStops(i, k)
  PROVE  UNCHANGED Barrier!vars
<1>1. UNCHANGED <<log, seen>>
  BY DEF Register, Spawn, Wait, SpuriousWakeup, LinkStep, LinkHandles, LinkHears, LinkDecides, Callback,
         CallbackStops, HandleCommit, Hear, Decide, starterVars, ThreadEnds, ThreadDecides, ThreadNotifies, ThreadStops, linkVars
<1>2. \A j \in Instances : Phase(j)' = Phase(j)
  <2>1. CASE Register(i) \/ Spawn(i) \/ Wait(i) \/ SpuriousWakeup(i)
    BY <2>1 DEF IInv, StarterTypeOK, Phase, Register, Spawn, Wait, SpuriousWakeup, MainGoes
  <2>2. CASE LinkStep(i)
    BY <2>2
    DEF IInv, StarterTypeOK, Phase, LinkStep, LinkHandles, LinkHears, LinkDecides, CallbackStops, Callback,
        starterVars, Notify, Notified
  <2>3. ASSUME NEW k \in Calls,
               ThreadEnds(i, k) \/ ThreadDecides(i, k) \/ ThreadNotifies(i, k) \/ ThreadStops(i, k)
        PROVE  \A j \in Instances : Phase(j)' = Phase(j)
    BY <2>3
    DEF IInv, StarterTypeOK, Phase, ThreadEnds, ThreadDecides, ThreadNotifies, ThreadStops,
        Notify, Notified
  <2> QED
    BY <2>1, <2>2, <2>3
<1> QED
  BY <1>1, <1>2, Stutters

\* Seen from outside, start() is one step, which is taken only in a session that was
\* started since what Link's thread was through with when the call looked, and a start
\* thread starts the session only for a call that waits, or after somebody else did.
THEOREM StarterImplementsBarrier == Spec => ImplementsBarrier
<1>1. Init => Barrier!Init
  BY DEF Init, LinkInit, Phase, Barrier!Init
<1>2. IInv /\ [Next]_vars => [Barrier!Next]_(Barrier!vars)
  <2> SUFFICES ASSUME IInv, [Next]_vars
               PROVE  Barrier!Next \/ UNCHANGED Barrier!vars
    OBVIOUS
  <2>1. CASE UNCHANGED vars
    BY <2>1, Stutters DEF vars, linkVars, starterVars, Phase
  <2>2. ASSUME NEW i \in Instances,
               MainStep(i) \/ SpuriousWakeup(i) \/ StopOther(i) \/ LinkStep(i)
        PROVE  Barrier!Next \/ UNCHANGED Barrier!vars
    BY <2>2, MainRefines, CommitRefines, OthersStutter DEF MainStep
  <2>3. ASSUME NEW i \in Instances, NEW k \in Calls, ThreadStep(i, k)
        PROVE  Barrier!Next \/ UNCHANGED Barrier!vars
    BY <2>3, CommitRefines, OthersStutter DEF ThreadStep
  <2> QED
    BY <2>1, <2>2, <2>3 DEF Next
<1> QED
  BY <1>1, <1>2, Invariance, PTL DEF Spec, ImplementsBarrier, Barrier!Spec
=============================================================================
