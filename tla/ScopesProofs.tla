----------------------------- MODULE ScopesProofs -----------------------------
(***************************************************************************)
(* Scopes, for any names and bounds: code runs in the scope of its own     *)
(* call, and values are stored into scopes that exist.                     *)
(***************************************************************************)
EXTENDS Scopes, Integers, FiniteSetTheorems, SequenceTheorems, WellFoundedInduction, TLAPS

---------------------------------------------------------------------------
(* The least and the greatest number of a set.                             *)

\* A set of natural numbers that is not empty has a least element.
LEMMA Smallest ==
  ASSUME NEW S \in SUBSET Nat, S # {}
  PROVE  \E m \in S : \A n \in S : m <= n
<1> DEFINE R == OpToRel(<, Nat)
<1>1. IsWellFoundedOn(R, Nat)
  BY NatLessThanWellFounded
<1>2. \A x, y \in Nat : <<y, x>> \in R <=> y < x
  BY DEF OpToRel
<1> HIDE DEF R
<1>3. PICK m \in S : \A n \in S : ~(<<n, m>> \in R)
  BY <1>1, WFMin
<1>4. \A n \in S : m \in Nat /\ n \in Nat /\ ~(n < m)
  BY <1>2, <1>3
<1> QED
  BY <1>4

\* One that is bounded has a greatest element.
LEMMA Largest ==
  ASSUME NEW bound \in Nat, NEW S \in SUBSET (0 .. bound), S # {}
  PROVE  \E m \in S : \A n \in S : m >= n
<1> DEFINE T == {bound - n : n \in S}
<1>1. T \in SUBSET Nat /\ T # {}
  <2>1. \A n \in S : bound - n \in Nat
    OBVIOUS
  <2> QED
    BY <2>1
<1>2. PICK t \in T : \A u \in T : t <= u
  BY <1>1, Smallest
<1>3. PICK m \in S : t = bound - m
  BY <1>2
<1>4. \A n \in S : bound - m <= bound - n
  BY <1>2, <1>3
<1> QED
  BY <1>3, <1>4

\* Min and Max of the community modules are these elements.
LEMMA MinIsLeast ==
  ASSUME NEW S \in SUBSET Nat, S # {}
  PROVE  Min(S) \in S /\ \A n \in S : Min(S) <= n
BY Smallest DEF Min

LEMMA MaxIsGreatest ==
  ASSUME NEW bound \in Nat, NEW S \in SUBSET (0 .. bound), S # {}
  PROVE  Max(S) \in S /\ \A n \in S : Max(S) >= n
BY Largest DEF Max

LEMMA MaxIs ==
  ASSUME NEW bound \in Nat, NEW S \in SUBSET (0 .. bound),
         NEW m \in S, \A n \in S : m >= n
  PROVE  Max(S) = m
<1>1. Max(S) \in S /\ Max(S) >= m
  BY MaxIsGreatest
<1>2. m \in 0 .. bound /\ Max(S) \in 0 .. bound /\ m >= Max(S)
  <2>1. \A n \in S : n \in 0 .. bound
    OBVIOUS
  <2> QED
    BY <1>1, <2>1
<1> QED
  BY <1>1, <1>2

LEMMA MinIs ==
  ASSUME NEW S \in SUBSET Nat, NEW m \in S, \A n \in S : m <= n
  PROVE  Min(S) = m
<1>1. Min(S) \in S /\ Min(S) <= m
  BY MinIsLeast
<1>2. m \in Nat /\ Min(S) \in Nat /\ m <= Min(S)
  BY <1>1
<1> QED
  BY <1>1, <1>2

---------------------------------------------------------------------------

USE ScopesAssumption

-----------------------------------------------------------------------------
(* Env::find: the scopes it walks are the least set of scopes with the     *)
(* first one that has the parent of each but the global one.               *)

Chain(par, e) ==
  LET chain[d \in 0 .. e] == IF d = 0 THEN {} ELSE {d} \cup chain[par[d]]
  IN  chain[e]

HasParents(S, par) == \A d \in S : par[d] = 0 \/ par[d] \in S

Older(par, n) == par \in [1 .. n -> Nat] /\ \A d \in 1 .. n : par[d] < d

Walks(chain, par, e) ==
  chain = [d \in 0 .. e |-> IF d = 0 THEN {} ELSE {d} \cup chain[par[d]]]

\* The walk ends, as scopes are newer than their parents: the recursion has a solution.
LEMMA ChainIsDefined ==
  ASSUME NEW n \in Nat, NEW par, Older(par, n), NEW e \in 0 .. n
  PROVE  \E chain : Walks(chain, par, e) /\ Chain(par, e) = chain[e]
<1> DEFINE Solves(f, m) == f = [d \in 0 .. m |-> IF d = 0 THEN {} ELSE {d} \cup f[par[d]]]
           Unsolved == {m \in 0 .. n : ~\E f : Solves(f, m)}
<1>1. ASSUME Unsolved # {}
      PROVE  FALSE
  <2>0. Unsolved \in SUBSET Nat
    OBVIOUS
  <2>1. PICK m \in Unsolved : \A k \in Unsolved : m <= k
    <3> HIDE DEF Unsolved
    <3> QED
      BY <1>1, <2>0, Smallest
  <2>2. CASE m = 0
    <3> DEFINE f == [d \in 0 .. 0 |-> {}]
    <3>1. f = [d \in 0 .. m |-> IF d = 0 THEN {} ELSE {d} \cup f[par[d]]]
      BY <2>2
    <3> QED
      BY <2>1, <3>1
  <2>3. CASE m # 0
    <3>1. m - 1 \in 0 .. n /\ m - 1 \notin Unsolved
      <4>1. m \in 0 .. n
        BY <2>1
      <4>2. m - 1 \in 0 .. n /\ ~(m <= m - 1)
        BY <2>3, <4>1
      <4> HIDE DEF Unsolved
      <4> QED
        BY <2>1, <4>2
    <3>2. PICK f : Solves(f, m - 1)
      BY <3>1
    <3> DEFINE g == [d \in 0 .. m |-> IF d = m THEN {m} \cup f[par[m]] ELSE f[d]]
    <3>3. ASSUME NEW d \in 0 .. m
          PROVE  g[d] = IF d = 0 THEN {} ELSE {d} \cup g[par[d]]
      <4>1. m \in 1 .. n
        BY <2>1, <2>3
      <4>2. d # 0 => par[d] \in 0 .. m - 1
        BY <4>1 DEF Older
      <4>3. d # 0 => g[par[d]] = f[par[d]]
        BY <4>1, <4>2
      <4>4. d # m => f[d] = IF d = 0 THEN {} ELSE {d} \cup f[par[d]]
        <5>1. f = [c \in 0 .. m - 1 |-> IF c = 0 THEN {} ELSE {c} \cup f[par[c]]]
          BY <3>2
        <5>2. d # m => d \in 0 .. m - 1
          BY <4>1
        <5> QED
          BY <5>1, <5>2, Zenon
      <4> HIDE DEF g
      <4>5. CASE d = m
        <5>1. g[d] = {d} \cup f[par[d]]
          BY <4>5 DEF g
        <5> QED
          BY <4>1, <4>3, <4>5, <5>1
      <4>6. CASE d # m
        <5>1. g[d] = f[d]
          BY <4>6 DEF g
        <5> QED
          BY <4>3, <4>4, <4>6, <5>1, Zenon
      <4> QED
        BY <4>5, <4>6
    <3>4. Solves(g, m)
      BY <3>3
    <3> QED
      BY <2>1, <3>4
  <2> QED
    BY <2>2, <2>3
<1>2. PICK f : Solves(f, e)
  BY <1>1
<1> DEFINE chain[d \in 0 .. e] == IF d = 0 THEN {} ELSE {d} \cup chain[par[d]]
<1>3. chain = [d \in 0 .. e |-> IF d = 0 THEN {} ELSE {d} \cup chain[par[d]]]
  BY <1>2, Zenon
<1>4. Chain(par, e) = chain[e]
  BY Zenon DEF Chain
<1> QED
  BY <1>3, <1>4, Zenon DEF Walks

LEMMA ChainIsLeast ==
  ASSUME NEW n \in Nat, NEW par, Older(par, n), NEW e \in 1 .. n
  PROVE  /\ e \in Chain(par, e) /\ Chain(par, e) \subseteq 1 .. e
         /\ HasParents(Chain(par, e), par)
         /\ \A S : e \in S /\ HasParents(S, par) => Chain(par, e) \subseteq S
<1>1. PICK chain : Walks(chain, par, e) /\ Chain(par, e) = chain[e]
  <2>1. e \in 0 .. n
    OBVIOUS
  <2> QED
    BY <2>1, ChainIsDefined, Zenon
<1> DEFINE Least(d) == /\ d \in chain[d] /\ chain[d] \subseteq 1 .. d
                       /\ HasParents(chain[d], par)
                       /\ \A S : d \in S /\ HasParents(S, par) => chain[d] \subseteq S
           Wrong == {d \in 1 .. e : ~Least(d)}
<1>2. ASSUME Wrong # {}
      PROVE  FALSE
  <2>0. Wrong \in SUBSET Nat
    OBVIOUS
  <2>1. PICK d \in Wrong : \A c \in Wrong : d <= c
    <3> HIDE DEF Wrong
    <3> QED
      BY <1>2, <2>0, Smallest
  <2>2. par[d] \in 0 .. d - 1 /\ d \in 1 .. e
    BY <2>1 DEF Older
  <2>3. chain[d] = {d} \cup chain[par[d]]
    BY <1>1, <2>2 DEF Walks
  <2>4. CASE par[d] = 0
    <3>1. chain[d] = {d}
      BY <1>1, <2>3, <2>4 DEF Walks
    <3>2. Least(d)
      BY <2>2, <2>4, <3>1 DEF HasParents
    <3> QED
      BY <2>1, <3>2
  <2>5. CASE par[d] # 0
    <3>1. Least(par[d])
      BY <2>1, <2>2, <2>5
    <3>2. d \in chain[d] /\ chain[d] \subseteq 1 .. d
      BY <2>2, <2>3, <3>1
    <3>3. HasParents(chain[d], par)
      BY <2>3, <3>1 DEF HasParents
    <3>4. ASSUME NEW S, d \in S, HasParents(S, par)
          PROVE  chain[d] \subseteq S
      <4>1. par[d] \in S
        BY <2>5, <3>4 DEF HasParents
      <4> QED
        BY <2>3, <3>1, <3>4, <4>1
    <3> QED
      BY <2>1, <3>2, <3>3, <3>4
  <2> QED
    BY <2>4, <2>5
<1>3. Least(e)
  BY <1>2
<1> QED
  BY <1>1, <1>3

-----------------------------------------------------------------------------
(* Values and variables.                                                   *)

Homes == 0 .. MaxEnvs
Definitions == UNION {[S -> Value] : S \in SUBSET Names}

LEMMA PlainIsValue == Plain \in Value /\ NoVariables \in Definitions /\ DOMAIN NoVariables = {}
<1>1. Plain \in Value
  BY DEF Plain, Value
<1>2. NoVariables \in [{} -> Value] /\ DOMAIN NoVariables = {}
  BY <1>1 DEF NoVariables
<1> QED
  BY <1>1, <1>2 DEF Definitions

\* force_define defines or redefines one name.
LEMMA DefineStep ==
  ASSUME NEW d \in Definitions, NEW name \in Names, NEW v \in Value
  PROVE  /\ ForceDefine(d, name, v) \in Definitions
         /\ DOMAIN ForceDefine(d, name, v) = DOMAIN d \cup {name}
         /\ ForceDefine(d, name, v)[name] = v
         /\ \A n \in DOMAIN d : n # name => ForceDefine(d, name, v)[n] = d[n]
<1>1. PICK S \in SUBSET Names : d \in [S -> Value]
  BY DEF Definitions
<1>2. ForceDefine(d, name, v) \in [S \cup {name} -> Value]
  BY <1>1 DEF ForceDefine
<1>3. S \cup {name} \in SUBSET Names
  OBVIOUS
<1> QED
  BY <1>1, <1>2, <1>3 DEF Definitions, ForceDefine

-----------------------------------------------------------------------------
(* Reference counts: what lives after a step is what is referred to.       *)

Held(st) ==
  UNION {IF f.op = "call" THEN {f.saved, f.home}
         ELSE IF f.op = "inline" THEN {f.home} ELSE {} : f \in Range(st)}

LEMMA HeldIn ==
  ASSUME NEW st, NEW X
  PROVE  Held(st) \subseteq X <=>
           \A i \in DOMAIN st :
             /\ st[i].op = "call" => st[i].saved \in X /\ st[i].home \in X
             /\ st[i].op = "inline" => st[i].home \in X
<1> DEFINE H(f) == IF f.op = "call" THEN {f.saved, f.home}
                   ELSE IF f.op = "inline" THEN {f.home} ELSE {}
<1>1. Held(st) \subseteq X <=> \A i \in DOMAIN st : H(st[i]) \subseteq X
  BY DEF Held, Range
<1>2. \A i \in DOMAIN st : H(st[i]) \subseteq X <=>
        /\ st[i].op = "call" => st[i].saved \in X /\ st[i].home \in X
        /\ st[i].op = "inline" => st[i].home \in X
  OBVIOUS
<1> QED
  BY <1>1, <1>2

\* The scopes that may live after a step to parents p: those that do and those that are new.
Base(p) == alive \cup (DOMAIN p \ DOMAIN parent)

LEMMA LivingStep ==
  ASSUME NEW p, NEW v, Scopes(p, v)
  PROVE  /\ parent' = p /\ alive' \subseteq Base(p)
         /\ \A e \in Base(p) :
              (\/ e \in Roots'
               \/ \E d \in alive' : p[d] = e
               \/ \E d \in alive' : \E n \in DOMAIN v[d] : v[d][n].home = e) => e \in alive'
<1> DEFINE KeptSets == {S \in SUBSET Base(p) : Kept(S, p, v)}
<1>1. parent' = p /\ alive' = UNION KeptSets
  BY DEF Scopes, Base
<1>2. alive' \subseteq Base(p)
  BY <1>1
<1>3. ASSUME NEW e \in Base(p),
             \/ e \in Roots'
             \/ \E d \in alive' : p[d] = e
             \/ \E d \in alive' : \E n \in DOMAIN v[d] : v[d][n].home = e
      PROVE  e \in alive'
  <2> DEFINE T == alive' \cup {e}
  <2>1. \A x \in T :
          x \in Roots' \/ \E d \in T : p[d] = x \/ \E n \in DOMAIN v[d] : v[d][n].home = x
    <3> SUFFICES ASSUME NEW x \in alive'
                 PROVE  x \in Roots' \/ \E d \in T : p[d] = x \/ \E n \in DOMAIN v[d] : v[d][n].home = x
      BY <1>3
    <3>1. PICK S \in KeptSets : x \in S
      BY <1>1
    <3>2. S \subseteq alive'
      BY <1>1
    <3> QED
      BY <3>1, <3>2 DEF Kept
  <2>2. T \in SUBSET Base(p)
    BY <1>2
  <2>3. T \in KeptSets
    BY <2>1, <2>2 DEF Kept
  <2> QED
    BY <1>1, <2>3
<1> QED
  BY <1>1, <1>2, <1>3

\* What a step leaves of the scopes there were.
Extends ==
  /\ parent' \in Seq(0 .. MaxEnvs) /\ variables' \in Seq(Definitions)
  /\ Len(variables') = Len(parent') /\ alive' \subseteq Made'
  /\ ParentsAreOlder' /\ ReferencesLive'
  /\ Len(parent) <= Len(parent') /\ \A e \in Made : parent'[e] = parent[e]

LEMMA ExtendsStep ==
  ASSUME IInv, NEW p \in Seq(0 .. MaxEnvs), NEW v \in Seq(Definitions), Scopes(p, v),
         Len(v) = Len(p), Len(p) \in 1 .. MaxEnvs, Len(parent) <= Len(p),
         \A e \in 1 .. Len(p) : p[e] < e /\ (e \in Base(p) => p[e] \in Base(p) \cup {0}),
         \A e \in Made : p[e] = parent[e],
         \A e \in Base(p) : \A n \in DOMAIN v[e] : v[e][n].home \in Base(p) \cup {0},
         Roots' \subseteq Base(p) \cup {0}
  PROVE  Extends
<1>1. /\ parent' = p /\ alive' \subseteq Base(p)
      /\ \A e \in Base(p) :
           (\/ e \in Roots'
            \/ \E d \in alive' : p[d] = e
            \/ \E d \in alive' : \E n \in DOMAIN v[d] : v[d][n].home = e) => e \in alive'
  BY LivingStep
<1>2. DOMAIN p = 1 .. Len(p) /\ DOMAIN parent = 1 .. Len(parent) /\ Len(parent) \in Nat
  BY LenProperties DEF IInv, TypeOK
<1>3. Base(p) \subseteq 1 .. Len(p)
  <2>1. alive \subseteq 1 .. Len(parent)
    BY DEF IInv, TypeOK, Made
  <2>2. Base(p) = alive \cup (1 .. Len(p) \ 1 .. Len(parent))
    BY <1>2, Zenon DEF Base
  <2>3. 1 .. Len(parent) \subseteq 1 .. Len(p)
    BY <1>2
  <2> QED
    BY <2>1, <2>2, <2>3
<1>4. variables' = [e \in DOMAIN p |-> IF e \in alive' THEN v[e] ELSE NoVariables]
  BY DEF Scopes
<1>5. variables' \in Seq(Definitions) /\ Len(variables') = Len(p)
  <2>1. \A e \in 1 .. Len(p) : v[e] \in Definitions
    BY ElementOfSeq
  <2>2. variables' \in [1 .. Len(p) -> Definitions]
    BY <1>2, <1>4, <2>1, PlainIsValue
  <2> QED
    BY <2>2
<1>6. ReferencesLive'
  <2>1. Roots' \subseteq alive' \cup {0}
    BY <1>1
  <2>2. \A e \in alive' : variables'[e] = v[e]
    BY <1>1, <1>2, <1>3, <1>4
  <2>3. \A e \in alive' : p[e] \in alive' \cup {0}
    BY <1>1, <1>3
  <2>4. \A e \in alive' : \A n \in DOMAIN v[e] : v[e][n].home \in alive' \cup {0}
    BY <1>1
  <2> QED
    BY <1>1, <2>1, <2>2, <2>3, <2>4 DEF ReferencesLive
<1>7. ParentsAreOlder'
  BY <1>1 DEF ParentsAreOlder, Made
<1> QED
  BY <1>1, <1>3, <1>5, <1>6, <1>7 DEF Extends, Made

LEMMA ScopesNow ==
  ASSUME IInv
  PROVE  /\ parent \in Seq(0 .. MaxEnvs) /\ Len(parent) \in 1 .. MaxEnvs
         /\ variables \in Seq(Definitions) /\ Len(variables) = Len(parent)
         /\ Made = 1 .. Len(parent) /\ DOMAIN parent = Made /\ DOMAIN variables = Made
         /\ alive \subseteq Made
<1>1. DOMAIN parent = 1 .. Len(parent) /\ DOMAIN variables = 1 .. Len(variables)
  BY LenProperties DEF IInv, TypeOK
<1> QED
  BY <1>1 DEF IInv, TypeOK, ParentsAreOlder, Made, Definitions

\* A step that leaves the scopes alone.
LEMMA SameScopesStep ==
  ASSUME IInv, SameScopes, Roots' \subseteq alive \cup {0}
  PROVE  Extends
<1>1. Scopes(parent, variables) /\ Base(parent) = alive
  BY ScopesNow DEF SameScopes, Base
<1>2. \A e \in 1 .. Len(parent) : parent[e] < e /\ (e \in alive => parent[e] \in alive \cup {0})
  BY DEF IInv, ParentsAreOlder, ReferencesLive, Made
<1>3. \A e \in alive : \A n \in DOMAIN variables[e] : variables[e][n].home \in alive \cup {0}
  BY DEF IInv, ReferencesLive
<1> QED
  BY <1>1, <1>2, <1>3, ScopesNow, ExtendsStep

\* A step that defines a name in a scope that lives.
LEMMA StoreScopesStep ==
  ASSUME IInv, NEW t \in alive, NEW name \in Names,
         Scopes(parent, [variables EXCEPT ![t] = ForceDefine(@, name, value)]),
         Roots' \subseteq alive \cup {0}
  PROVE  Extends
<1> DEFINE d == ForceDefine(variables[t], name, value)
           v == [variables EXCEPT ![t] = d]
<1>1. Base(parent) = alive /\ t \in Made /\ variables[t] \in Definitions
  BY ScopesNow, ElementOfSeq DEF Base
<1>2. value \in Value /\ value.home \in alive \cup {0}
  BY DEF IInv, TypeOK, ReferencesLive, Roots
<1>3. /\ d \in Definitions
      /\ \A n \in DOMAIN d : d[n] = value \/ (n \in DOMAIN variables[t] /\ d[n] = variables[t][n])
  <2>1. /\ d \in Definitions /\ DOMAIN d = DOMAIN variables[t] \cup {name} /\ d[name] = value
        /\ \A n \in DOMAIN variables[t] : n # name => d[n] = variables[t][n]
    <3>1. variables[t] \in Definitions
      BY <1>1
    <3>2. name \in Names
      OBVIOUS
    <3>3. value \in Value
      BY <1>2
    <3>4. PICK old \in Definitions : old = variables[t]
      BY <3>1
    <3>5. PICK new \in Value : new = value
      BY <3>3
    <3>6. /\ ForceDefine(old, name, new) \in Definitions
          /\ DOMAIN ForceDefine(old, name, new) = DOMAIN old \cup {name}
          /\ ForceDefine(old, name, new)[name] = new
          /\ \A n \in DOMAIN old : n # name => ForceDefine(old, name, new)[n] = old[n]
      BY <3>2, DefineStep, Zenon
    <3> HIDE DEF v
    <3> QED
      BY <3>4, <3>5, <3>6
  <2> HIDE DEF d, v
  <2> QED
    BY <2>1
<1>4. Scopes(parent, v)
  OBVIOUS
<1> HIDE DEF d
<1>5. v \in Seq(Definitions) /\ Len(v) = Len(parent)
  BY <1>1, <1>3, ScopesNow, ExceptSeq
<1>6. \A e \in 1 .. Len(parent) : parent[e] < e /\ (e \in alive => parent[e] \in alive \cup {0})
  BY DEF IInv, ParentsAreOlder, ReferencesLive, Made
<1>7. \A e \in alive : \A n \in DOMAIN v[e] : v[e][n].home \in alive \cup {0}
  <2>1. \A e \in alive : \A n \in DOMAIN variables[e] : variables[e][n].home \in alive \cup {0}
    BY DEF IInv, ReferencesLive
  <2>2. \A e \in alive : v[e] = IF e = t THEN d ELSE variables[e]
    BY <1>1, ScopesNow
  <2> QED
    BY <1>2, <1>3, <2>1, <2>2
<1> HIDE DEF v
<1> QED
  BY <1>1, <1>4, <1>5, <1>6, <1>7, ScopesNow, ExtendsStep

\* A step that makes a scope inside one that lives.
LEMMA EnterStep ==
  ASSUME IInv, NEW e \in alive, NEW d \in Definitions, Enter(e, d),
         \A n \in DOMAIN d : d[n].home \in alive \cup {0},
         Roots' \subseteq alive \cup {NewScope, 0}
  PROVE  Extends /\ Len(parent') = NewScope /\ parent'[NewScope] = e
<1> DEFINE p == Append(parent, e)
           v == Append(variables, d)
<1>1. NewScope = Len(parent) + 1 /\ NewScope \in 1 .. MaxEnvs /\ e \in Made /\ e < NewScope
      /\ Len(parent) \in Nat
  BY ScopesNow DEF Enter, NewScope
<1>2. Scopes(p, v) /\ parent' = p
  BY DEF Enter, Scopes
<1>3. p \in Seq(0 .. MaxEnvs) /\ Len(p) = NewScope /\ p[NewScope] = e /\ \A x \in Made : p[x] = parent[x]
  BY <1>1, ScopesNow, AppendProperties
<1>4. v \in Seq(Definitions) /\ Len(v) = NewScope /\ v[NewScope] = d /\ \A x \in Made : v[x] = variables[x]
  BY <1>1, ScopesNow, AppendProperties
<1>5. 1 .. NewScope = Made \cup {NewScope} /\ NewScope \notin Made
  BY <1>1, ScopesNow
<1>6. DOMAIN p = 1 .. NewScope
  BY <1>3, LenProperties
<1> HIDE DEF p, v
<1>7. Base(p) = alive \cup {NewScope}
  BY <1>5, <1>6, ScopesNow DEF Base
<1>8. \A x \in 1 .. Len(p) : p[x] < x /\ (x \in Base(p) => p[x] \in Base(p) \cup {0})
  <2>1. \A x \in Made : parent[x] < x /\ (x \in alive => parent[x] \in alive \cup {0})
    BY DEF IInv, ParentsAreOlder, ReferencesLive
  <2> QED
    BY <1>1, <1>3, <1>5, <1>7, <2>1
<1>9. \A x \in Base(p) : \A n \in DOMAIN v[x] : v[x][n].home \in Base(p) \cup {0}
  <2>1. \A x \in alive : \A n \in DOMAIN variables[x] : variables[x][n].home \in alive \cup {0}
    BY DEF IInv, ReferencesLive
  <2> QED
    BY <1>4, <1>5, <1>7, <2>1, ScopesNow
<1>10. Extends
  <2>1. Roots' \subseteq Base(p) \cup {0}
    BY <1>7
  <2>2. Len(p) \in 1 .. MaxEnvs /\ Len(parent) <= Len(p) /\ Len(v) = Len(p)
    BY <1>1, <1>3, <1>4
  <2> QED
    BY <1>2, <1>3, <1>4, <1>8, <1>9, <2>1, <2>2, ExtendsStep
<1> QED
  BY <1>2, <1>3, <1>10

\* The walk from a scope stays as it is.
LEMMA OlderParents ==
  ASSUME NEW p \in Seq(0 .. MaxEnvs), \A e \in 1 .. Len(p) : p[e] < e
  PROVE  Older(p, Len(p))
<1>1. p \in [1 .. Len(p) -> 0 .. MaxEnvs]
  BY LenProperties, SeqDef
<1> QED
  BY <1>1 DEF Older

LEMMA AroundStays ==
  ASSUME IInv, Extends, NEW e \in Made
  PROVE  Around(e)' = Around(e)
<1>1. Older(parent, Len(parent)) /\ Older(parent', Len(parent'))
  BY OlderParents DEF IInv, TypeOK, Extends, ParentsAreOlder, Made
<1>2. e \in 1 .. Len(parent) /\ e \in 1 .. Len(parent') /\ 1 .. e \subseteq 1 .. Len(parent)
      /\ Len(parent) \in Nat /\ Len(parent') \in Nat
  BY ScopesNow, LenProperties DEF Extends
<1>3. /\ Around(e) = Chain(parent, e) /\ Around(e)' = Chain(parent', e)
  BY Zenon DEF Around, Chain
<1>4. \A S : S \subseteq 1 .. e => (HasParents(S, parent) <=> HasParents(S, parent'))
  BY <1>2, ScopesNow DEF HasParents, Extends
<1>5. /\ e \in Chain(parent, e) /\ Chain(parent, e) \subseteq 1 .. e
      /\ HasParents(Chain(parent, e), parent)
      /\ \A S : e \in S /\ HasParents(S, parent) => Chain(parent, e) \subseteq S
  BY <1>1, <1>2, ChainIsLeast, Zenon
<1>6. /\ e \in Chain(parent', e) /\ Chain(parent', e) \subseteq 1 .. e
      /\ HasParents(Chain(parent', e), parent')
      /\ \A S : e \in S /\ HasParents(S, parent') => Chain(parent', e) \subseteq S
  BY <1>1, <1>2, ChainIsLeast, Zenon
<1> QED
  BY <1>3, <1>4, <1>5, <1>6

-----------------------------------------------------------------------------
(* The scope that each evaluation on the stack runs in.                    *)

CallsTo(st, i) == {j \in 1 .. i : st[j].op = "call"}
ScopeIn(st, i) == IF CallsTo(st, i) = {} THEN Global ELSE st[Max(CallsTo(st, i))].scope

CallsOver(st, i) == {j \in DOMAIN st : j > i /\ st[j].op = "call"}
RunsFrom(st, e, i) == IF CallsOver(st, i) = {} THEN e ELSE st[Min(CallsOver(st, i))].saved
LeftFrom(st, l, i) == IF CallsOver(st, i) = {} THEN l ELSE st[Min(CallsOver(st, i))].left

LEMMA Reads ==
  ASSUME NEW i
  PROVE  /\ ScopeAt(i) = ScopeIn(stack, i) /\ ScopeAt(i)' = ScopeIn(stack', i)
         /\ RunsIn(i) = RunsFrom(stack, env, i) /\ RunsIn(i)' = RunsFrom(stack', env', i)
         /\ LeftAt(i) = LeftFrom(stack, left, i) /\ LeftAt(i)' = LeftFrom(stack', left', i)
<1>1. ScopeAt(i) = ScopeIn(stack, i) /\ ScopeAt(i)' = ScopeIn(stack', i)
  BY Zenon DEF ScopeAt, ScopeIn, CallsTo
<1>2. RunsIn(i) = RunsFrom(stack, env, i) /\ RunsIn(i)' = RunsFrom(stack', env', i)
  BY Zenon DEF RunsIn, RunsFrom, CallsAbove, CallsOver
<1>3. LeftAt(i) = LeftFrom(stack, left, i) /\ LeftAt(i)' = LeftFrom(stack', left', i)
  BY Zenon DEF LeftAt, LeftFrom, CallsAbove, CallsOver
<1> QED
  BY <1>1, <1>2, <1>3

LEMMA ScopeOfPrefix ==
  ASSUME NEW s, NEW t, NEW i \in Nat, \A j \in 1 .. i : s[j] = t[j]
  PROVE  ScopeIn(s, i) = ScopeIn(t, i)
<1>1. CallsTo(s, i) = CallsTo(t, i) /\ CallsTo(t, i) \in SUBSET (0 .. i)
  BY DEF CallsTo
<1>2. CASE CallsTo(t, i) = {}
  BY <1>1, <1>2 DEF ScopeIn
<1>3. CASE CallsTo(t, i) # {}
  <2>1. Max(CallsTo(t, i)) \in CallsTo(t, i)
    BY <1>1, <1>3, MaxIsGreatest
  <2>2. Max(CallsTo(t, i)) \in 1 .. i
    BY <2>1 DEF CallsTo
  <2> QED
    BY <1>1, <1>3, <2>2 DEF ScopeIn
<1> QED
  BY <1>2, <1>3

LEMMA ScopeBelow ==
  ASSUME NEW s, NEW i \in Nat, NEW m \in Nat, i <= m, \A j \in i + 1 .. m : s[j].op # "call"
  PROVE  ScopeIn(s, m) = ScopeIn(s, i)
<1>1. CallsTo(s, m) = CallsTo(s, i)
  BY DEF CallsTo
<1> QED
  BY <1>1 DEF ScopeIn

\* The first call over i is the first one below or at k, if there is one.
LEMMA CallsOverPrefix ==
  ASSUME NEW t \in Seq(Frame), NEW s \in Seq(Frame), Len(s) <= Len(t),
         \A j \in 1 .. Len(s) : s[j] = t[j], NEW i \in 0 .. Len(s)
  PROVE  /\ CallsOver(t, i) \in SUBSET Nat /\ CallsOver(s, i) \subseteq 1 .. Len(s)
         /\ CallsOver(s, i) = {} => CallsOver(t, i) = CallsOver(t, Len(s))
         /\ CallsOver(s, i) # {} =>
              /\ CallsOver(t, i) # {} /\ Min(CallsOver(t, i)) = Min(CallsOver(s, i))
              /\ Min(CallsOver(s, i)) \in 1 .. Len(s)
<1>1. /\ Len(s) \in Nat /\ Len(t) \in Nat /\ DOMAIN s = 1 .. Len(s) /\ DOMAIN t = 1 .. Len(t)
  BY LenProperties
<1> DEFINE n == Len(s)
<1> HIDE DEF n
<1>2. /\ n \in Nat /\ Len(t) \in Nat /\ DOMAIN s = 1 .. n /\ DOMAIN t = 1 .. Len(t) /\ i \in 0 .. n
      /\ n <= Len(t) /\ \A j \in 1 .. n : s[j] = t[j]
  BY <1>1 DEF n
<1>3. CallsOver(t, i) \in SUBSET Nat /\ CallsOver(s, i) \in SUBSET (1 .. n)
  BY <1>2 DEF CallsOver
<1>4. CallsOver(s, i) = {j \in CallsOver(t, i) : j <= n}
  BY <1>2 DEF CallsOver
<1>5. CallsOver(t, n) = {j \in CallsOver(t, i) : j > n}
  BY <1>2 DEF CallsOver
<1>6. ASSUME CallsOver(s, i) # {}
      PROVE  /\ CallsOver(t, i) # {} /\ Min(CallsOver(t, i)) = Min(CallsOver(s, i))
             /\ Min(CallsOver(s, i)) \in 1 .. n
  <2> DEFINE m == Min(CallsOver(s, i))
  <2>1. CallsOver(s, i) \in SUBSET Nat
    BY <1>3
  <2>2. m \in CallsOver(s, i) /\ \A j \in CallsOver(s, i) : m <= j
    BY <1>6, <2>1, MinIsLeast
  <2> HIDE DEF m
  <2>3. m \in CallsOver(t, i) /\ m \in 1 .. n /\ \A j \in CallsOver(t, i) : m <= j
    BY <1>2, <1>3, <1>4, <2>2
  <2>4. Min(CallsOver(t, i)) = m
    BY <1>3, <2>3, MinIs
  <2> QED
    BY <2>3, <2>4 DEF m
<1>7. CallsOver(s, i) = {} => CallsOver(t, i) = CallsOver(t, n)
  BY <1>2, <1>3, <1>4, <1>5
<1> QED
  BY <1>3, <1>6, <1>7 DEF n

\* What runs at a height of a stack is found from below, from what runs over it.
LEMMA RunsThrough ==
  ASSUME NEW t \in Seq(Frame), NEW s \in Seq(Frame), Len(s) <= Len(t),
         \A j \in 1 .. Len(s) : s[j] = t[j], NEW i \in 0 .. Len(s), NEW e, NEW l
  PROVE  /\ RunsFrom(t, e, i) = RunsFrom(s, RunsFrom(t, e, Len(s)), i)
         /\ LeftFrom(t, l, i) = LeftFrom(s, LeftFrom(t, l, Len(s)), i)
<1>1. CASE CallsOver(s, i) = {}
  BY <1>1, CallsOverPrefix DEF RunsFrom, LeftFrom
<1>2. CASE CallsOver(s, i) # {}
  <2>1. /\ CallsOver(t, i) # {} /\ Min(CallsOver(t, i)) = Min(CallsOver(s, i))
        /\ Min(CallsOver(s, i)) \in 1 .. Len(s)
    BY <1>2, CallsOverPrefix
  <2> QED
    BY <1>2, <2>1 DEF RunsFrom, LeftFrom
<1> QED
  BY <1>1, <1>2

\* The code under a call that was not left runs in its own scope.
LEMMA RunsInItsScope ==
  ASSUME IInv, NEW k \in 0 .. Len(stack)
  PROVE  RunsIn(k) \in Made /\ (~LeftAt(k) => RunsIn(k) = ScopeAt(k))
<1>1. Len(stack) \in Nat /\ DOMAIN stack = 1 .. Len(stack)
  BY LenProperties DEF IInv, TypeOK
<1>2. CASE CallsAbove(k) = {}
  <2>1. \A j \in k + 1 .. Len(stack) : stack[j].op # "call"
    BY <1>1, <1>2 DEF CallsAbove
  <2>2. ScopeIn(stack, Len(stack)) = ScopeIn(stack, k)
    BY <1>1, <2>1, ScopeBelow
  <2>3. ~left => env = ScopeAt(Len(stack))
    BY DEF IInv, LexicalScope
  <2> QED
    BY <1>2, <2>2, <2>3, Reads DEF RunsIn, LeftAt, IInv, TypeOK
<1>3. CASE CallsAbove(k) # {}
  <2> DEFINE m == Min(CallsAbove(k))
  <2>1. CallsAbove(k) \in SUBSET Nat
    BY <1>1 DEF CallsAbove
  <2>2. m \in CallsAbove(k) /\ \A j \in CallsAbove(k) : m <= j
    BY <1>3, <2>1, MinIsLeast
  <2> HIDE DEF m
  <2>3. m \in DOMAIN stack /\ m > k /\ stack[m].op = "call"
    BY <2>2 DEF CallsAbove
  <2>4. \A j \in k + 1 .. m - 1 : stack[j].op # "call"
    BY <1>1, <2>2, <2>3 DEF CallsAbove
  <2>5. m - 1 \in Nat /\ k <= m - 1 /\ k \in Nat
    BY <1>1, <2>3
  <2>6. ScopeIn(stack, m - 1) = ScopeIn(stack, k)
    BY <2>4, <2>5, ScopeBelow
  <2>7. stack[m].saved \in Made /\ (~stack[m].left => stack[m].saved = ScopeAt(m - 1))
    BY <2>3 DEF IInv, CallsReturnToCaller
  <2>8. RunsIn(k) = stack[m].saved /\ LeftAt(k) = stack[m].left
    BY <1>3 DEF RunsIn, LeftAt, m
  <2> QED
    BY <2>6, <2>7, <2>8, Reads
<1> QED
  BY <1>2, <1>3

StackInv == LexicalScope /\ CallsReturnToCaller /\ StoresGoAround

\* Evaluations below k stay as they were, whatever ends those over them.
LEMMA FramesStay ==
  ASSUME IInv, Extends, NEW i \in DOMAIN stack, stack' \in Seq(Frame),
         i \in DOMAIN stack', \A j \in 1 .. i : stack'[j] = stack[j]
  PROVE  /\ stack'[i].op = "call" =>
              /\ stack'[i].scope \in Made' /\ stack'[i].saved \in Made'
              /\ ~stack'[i].left => stack'[i].saved = ScopeAt(i - 1)'
         /\ RunsIn(i)' = RunsIn(i) /\ LeftAt(i)' = LeftAt(i) =>
              (stack'[i].op \in {"define", "assign"} /\ ~LeftAt(i)' =>
                 stack'[i].target \in Around(RunsIn(i))')
<1>1. Len(stack) \in Nat /\ i \in 1 .. Len(stack) /\ stack'[i] = stack[i]
  BY LenProperties DEF IInv, TypeOK
<1>2. Made \subseteq Made'
  BY ScopesNow, LenProperties DEF Extends, Made
<1>3. ScopeAt(i - 1)' = ScopeAt(i - 1)
  <2>1. i - 1 \in Nat /\ \A j \in 1 .. i - 1 : stack'[j] = stack[j]
    BY <1>1
  <2>2. ScopeIn(stack', i - 1) = ScopeIn(stack, i - 1)
    BY <2>1, ScopeOfPrefix
  <2> QED
    BY <2>2, Reads
<1>4. ASSUME stack[i].op = "call"
      PROVE  /\ stack[i].scope \in Made /\ stack[i].saved \in Made
             /\ ~stack[i].left => stack[i].saved = ScopeAt(i - 1)
  BY <1>4 DEF IInv, CallsReturnToCaller
<1>5. ASSUME stack[i].op \in {"define", "assign"}, ~LeftAt(i)
      PROVE  stack[i].target \in Around(RunsIn(i))
  BY <1>5 DEF IInv, StoresGoAround
<1>6. ASSUME RunsIn(i)' = RunsIn(i)
      PROVE  Around(RunsIn(i))' = Around(RunsIn(i))
  <2>1. RunsIn(i) \in Made
    BY <1>1, RunsInItsScope
  <2>2. \A e \in Made : Around(e)' = Around(e)
    BY AroundStays
  <2>3. Around(RunsIn(i))' = Chain(parent', RunsIn(i)')
    BY Zenon DEF Around, Chain
  <2>4. Around(RunsIn(i)) = Chain(parent, RunsIn(i))
    BY Zenon DEF Around, Chain
  <2>5. \A e : Chain(parent', e) = Around(e)' /\ Chain(parent, e) = Around(e)
    BY Zenon DEF Around, Chain
  <2> QED
    BY <1>6, <2>1, <2>2, <2>3, <2>4, <2>5
<1> QED
  BY <1>1, <1>2, <1>3, <1>4, <1>5, <1>6

\* Evaluations over k end, and the code under k goes on in its scope or has left it.
LEMMA StackShrinks ==
  ASSUME IInv, Extends, NEW k \in 0 .. Len(stack),
         stack' \in Seq(Frame), Len(stack') = k, \A i \in 1 .. k : stack'[i] = stack[i],
         left' = TRUE \/ (env' = RunsIn(k) /\ left' = LeftAt(k))
  PROVE  StackInv'
<1>1. stack \in Seq(Frame) /\ Len(stack) \in Nat /\ DOMAIN stack = 1 .. Len(stack)
      /\ DOMAIN stack' = 1 .. k /\ k \in Nat
  BY LenProperties DEF IInv, TypeOK
<1>2. LexicalScope'
  <2>1. ~left' => env' = RunsIn(k) /\ ~LeftAt(k)
    OBVIOUS
  <2>2. ScopeIn(stack', k) = ScopeIn(stack, k)
    BY <1>1, ScopeOfPrefix
  <2>3. ~left' => env' = ScopeAt(k)
    BY <2>1, RunsInItsScope
  <2>4. ScopeAt(Len(stack))' = ScopeIn(stack', k)
    BY Zenon DEF ScopeAt, ScopeIn, CallsTo
  <2>5. ScopeAt(k) = ScopeIn(stack, k)
    BY Reads
  <2> QED
    BY <2>2, <2>3, <2>4, <2>5 DEF LexicalScope
<1>3. ASSUME NEW i \in DOMAIN stack', ~left' \/ CallsOver(stack', i) # {}
      PROVE  RunsIn(i)' = RunsIn(i) /\ LeftAt(i)' = LeftAt(i)
  <2>1. i \in 0 .. Len(stack') /\ Len(stack') <= Len(stack)
    BY <1>1
  <2>2. /\ RunsFrom(stack, env, i) = RunsFrom(stack', RunsFrom(stack, env, k), i)
        /\ LeftFrom(stack, left, i) = LeftFrom(stack', LeftFrom(stack, left, k), i)
    <3>1. \A j \in 1 .. Len(stack') : stack'[j] = stack[j]
      BY <1>1
    <3>2. \A e, l :
            /\ RunsFrom(stack, e, i) = RunsFrom(stack', RunsFrom(stack, e, Len(stack')), i)
            /\ LeftFrom(stack, l, i) = LeftFrom(stack', LeftFrom(stack, l, Len(stack')), i)
      BY <1>1, <2>1, <3>1, RunsThrough
    <3> QED
      BY <3>2, Zenon
  <2>3. ~left' => env' = RunsFrom(stack, env, k) /\ left' = LeftFrom(stack, left, k)
    BY Reads
  <2>4. CallsOver(stack', i) # {} =>
          /\ RunsFrom(stack', RunsFrom(stack, env, k), i) = RunsFrom(stack', env', i)
          /\ LeftFrom(stack', LeftFrom(stack, left, k), i) = LeftFrom(stack', left', i)
    BY DEF RunsFrom, LeftFrom
  <2> QED
    BY <1>3, <2>2, <2>3, <2>4, Reads
<1>4. ASSUME NEW i \in DOMAIN stack', left', CallsOver(stack', i) = {}
      PROVE  LeftAt(i)' = TRUE
  BY <1>4, Reads DEF LeftFrom
<1>5. ASSUME NEW i \in DOMAIN stack'
      PROVE  stack'[i] = stack[i] /\ i \in DOMAIN stack /\ \A j \in 1 .. i : stack'[j] = stack[j]
  BY <1>1
<1>6. CallsReturnToCaller'
  <2>1. ASSUME NEW i \in DOMAIN stack', stack'[i].op = "call"
        PROVE  /\ stack'[i].scope \in Made' /\ stack'[i].saved \in Made'
               /\ ~stack'[i].left => stack'[i].saved = ScopeAt(i - 1)'
    BY <1>5, <2>1, FramesStay
  <2> QED
    BY <2>1 DEF CallsReturnToCaller
<1>7. StoresGoAround'
  <2>1. ASSUME NEW i \in DOMAIN stack', stack'[i].op \in {"define", "assign"}, ~LeftAt(i)'
        PROVE  stack'[i].target \in Around(RunsIn(i))'
    <3>1. ~left' \/ CallsOver(stack', i) # {}
      BY <1>4, <2>1
    <3>2. RunsIn(i)' = RunsIn(i) /\ LeftAt(i)' = LeftAt(i)
      BY <1>3, <3>1
    <3> QED
      BY <1>5, <2>1, <3>2, FramesStay
  <2> QED
    BY <2>1 DEF StoresGoAround
<1> QED
  BY <1>2, <1>6, <1>7 DEF StackInv

\* An evaluation begins, in the scope of the code that runs, or as a call in a new one.
LEMMA StackGrows ==
  ASSUME IInv, Extends, NEW f \in Frame, stack' = Append(stack, f),
         f.op = "call" => /\ f.saved = env /\ f.left = left /\ left' = FALSE
                          /\ f.scope = env' /\ env' \in Made',
         f.op # "call" => env' = env /\ left' = left,
         f.op \in {"define", "assign"} /\ ~left => f.target \in Around(env)
  PROVE  StackInv'
<1>0. PICK m : m = Len(stack)
  OBVIOUS
<1> DEFINE n == m + 1
<1>1. stack \in Seq(Frame) /\ m \in Nat /\ DOMAIN stack = 1 .. m
  BY <1>0, LenProperties DEF IInv, TypeOK
<1>2. /\ stack' \in Seq(Frame) /\ Len(stack') = n /\ stack'[n] = f
      /\ \A j \in 1 .. m : stack'[j] = stack[j]
  BY <1>0, <1>1, AppendProperties
<1>3. DOMAIN stack' = 1 .. n
  BY <1>2, LenProperties
<1>4. 1 .. n = (1 .. m) \cup {n} /\ n \in Nat
  BY <1>1
<1>5. RunsFrom(stack', env', m) = env /\ LeftFrom(stack', left', m) = left
  <2>1. CallsOver(stack', m) = IF f.op = "call" THEN {n} ELSE {}
    BY <1>1, <1>2, <1>3, <1>4 DEF CallsOver
  <2>2. Min({n}) = n
    BY <1>4, MinIs
  <2> QED
    BY <1>2, <2>1, <2>2 DEF RunsFrom, LeftFrom
<1>6. ASSUME NEW i \in 1 .. m
      PROVE  RunsIn(i)' = RunsIn(i) /\ LeftAt(i)' = LeftAt(i)
  <2>1. /\ i \in 0 .. Len(stack) /\ Len(stack) <= Len(stack') /\ Len(stack) = m
        /\ \A j \in 1 .. Len(stack) : stack[j] = stack'[j]
    BY <1>0, <1>1, <1>2
  <2>2. /\ RunsFrom(stack', env', i) = RunsFrom(stack, RunsFrom(stack', env', m), i)
        /\ LeftFrom(stack', left', i) = LeftFrom(stack, LeftFrom(stack', left', m), i)
    <3>1. \A e, l :
            /\ RunsFrom(stack', e, i) = RunsFrom(stack, RunsFrom(stack', e, Len(stack)), i)
            /\ LeftFrom(stack', l, i) = LeftFrom(stack, LeftFrom(stack', l, Len(stack)), i)
      BY <1>1, <1>2, <2>1, RunsThrough
    <3> QED
      BY <2>1, <3>1, Zenon
  <2> QED
    BY <1>5, <2>2, Reads
<1>7. RunsIn(n)' = env' /\ LeftAt(n)' = left'
  <2>1. CallsOver(stack', n) = {}
    BY <1>3, <1>4 DEF CallsOver
  <2> QED
    BY <2>1, Reads DEF RunsFrom, LeftFrom
<1>8. ScopeAt(m)' = ScopeAt(m) /\ (~left => env = ScopeAt(m))
  <2>1. ScopeIn(stack', m) = ScopeIn(stack, m)
    BY <1>1, <1>2, ScopeOfPrefix
  <2> QED
    BY <1>0, <2>1, Reads DEF IInv, LexicalScope
<1>9. LexicalScope'
  <2>1. ScopeAt(Len(stack))' = ScopeIn(stack', n)
    BY <1>2, Zenon DEF ScopeAt, ScopeIn, CallsTo
  <2>2. CASE f.op = "call"
    <3>1. n \in CallsTo(stack', n) /\ CallsTo(stack', n) \in SUBSET (0 .. n)
          /\ \A j \in CallsTo(stack', n) : n >= j
      BY <1>1, <1>2, <2>2 DEF CallsTo
    <3>2. Max(CallsTo(stack', n)) = n
      BY <1>4, <3>1, MaxIs
    <3>3. ScopeIn(stack', n) = f.scope
      BY <1>2, <3>1, <3>2 DEF ScopeIn
    <3> QED
      BY <2>1, <2>2, <3>3 DEF LexicalScope
  <2>3. CASE f.op # "call"
    <3>1. m <= n /\ \A j \in m + 1 .. n : stack'[j].op # "call"
      BY <1>1, <1>2, <2>3
    <3>2. ScopeIn(stack', n) = ScopeIn(stack', m)
      BY <1>1, <1>4, <3>1, ScopeBelow
    <3> QED
      BY <1>8, <2>1, <2>3, <3>2, Reads DEF LexicalScope
  <2> QED
    BY <2>2, <2>3
<1>10. ASSUME NEW i \in 1 .. m
       PROVE  i \in DOMAIN stack /\ i \in DOMAIN stack' /\ \A j \in 1 .. i : stack'[j] = stack[j]
  BY <1>1, <1>2, <1>3
<1>11. CallsReturnToCaller'
  <2>1. ASSUME NEW i \in DOMAIN stack', stack'[i].op = "call"
        PROVE  /\ stack'[i].scope \in Made' /\ stack'[i].saved \in Made'
               /\ ~stack'[i].left => stack'[i].saved = ScopeAt(i - 1)'
    <3>1. CASE i \in 1 .. m
      BY <1>2, <1>10, <2>1, <3>1, FramesStay
    <3>2. CASE i = n
      <4>1. env \in Made /\ Made \subseteq Made'
        BY ScopesNow, LenProperties DEF IInv, TypeOK, Extends, Made
      <4>2. ScopeAt(i - 1)' = ScopeAt(m)'
        <5>1. i - 1 = m
          BY <1>1, <3>2
        <5>2. ScopeIn(stack', i - 1) = ScopeIn(stack', m)
          BY <5>1
        <5> QED
          BY <5>2, Reads
      <4> QED
        BY <1>2, <1>8, <2>1, <3>2, <4>1, <4>2
    <3> QED
      BY <1>3, <1>4, <3>1, <3>2
  <2> QED
    BY <2>1 DEF CallsReturnToCaller
<1>12. StoresGoAround'
  <2>1. ASSUME NEW i \in DOMAIN stack', stack'[i].op \in {"define", "assign"}, ~LeftAt(i)'
        PROVE  stack'[i].target \in Around(RunsIn(i))'
    <3>1. CASE i \in 1 .. m
      BY <1>2, <1>6, <1>10, <2>1, <3>1, FramesStay
    <3>2. CASE i = n
      <4>1. f.op \in {"define", "assign"} /\ f.op # "call"
        BY <1>2, <2>1, <3>2
      <4>2. RunsFrom(stack', env', i) = env /\ LeftFrom(stack', left', i) = left
        BY <1>7, <3>2, <4>1, Reads
      <4>3. f.target \in Around(env)
        BY <2>1, <4>1, <4>2, Reads
      <4>4. Around(RunsIn(i))' = Chain(parent', RunsFrom(stack', env', i))
        BY Reads, Zenon DEF Around, Chain
      <4>5. env \in Made
        BY DEF IInv, TypeOK
      <4>6. Chain(parent', env) = Around(env)
        <5>1. \A e \in Made : Around(e)' = Around(e)
          BY AroundStays
        <5>2. \A e : Around(e)' = Chain(parent', e)
          BY Zenon DEF Around, Chain
        <5> QED
          BY <4>5, <5>1, <5>2
      <4> QED
        BY <1>2, <3>2, <4>2, <4>3, <4>4, <4>6
    <3> QED
      BY <1>3, <1>4, <3>1, <3>2
  <2> QED
    BY <2>1 DEF StoresGoAround
<1> QED
  BY <1>9, <1>11, <1>12 DEF StackInv

-----------------------------------------------------------------------------
(* What lives, and what a step may refer to.                               *)

LEMMA RootsAre ==
  /\ Roots = {Global, env, value.home} \cup Held(stack)
  /\ Roots' = {Global, env', value'.home} \cup Held(stack')
<1>1. Roots = {Global, env, value.home} \cup Held(stack)
  BY Zenon DEF Roots, Held
<1>2. Roots' = {Global, env', value'.home} \cup Held(stack')
  BY Zenon DEF Roots, Held, Global
<1> QED
  BY <1>1, <1>2

LEMMA LivingNow ==
  ASSUME IInv
  PROVE  /\ Global \in alive /\ env \in alive
         /\ value \in Value /\ value.home \in alive \cup {0} /\ (IsBlock(value) => value.home \in alive)
         /\ \A i \in DOMAIN stack :
              /\ stack[i].op = "call" => stack[i].saved \in alive /\ stack[i].home \in alive
              /\ stack[i].op = "inline" => stack[i].home \in alive
<1>1. Roots \subseteq alive \cup {0} /\ value \in Value /\ env \in Made /\ stack \in Seq(Frame)
  BY DEF IInv, TypeOK, ReferencesLive
<1>2. ASSUME NEW i \in DOMAIN stack
      PROVE  /\ stack[i].op = "call" => stack[i].saved # 0 /\ stack[i].home # 0
             /\ stack[i].op = "inline" => stack[i].home # 0
  <2>1. stack[i] \in Frame
    BY <1>1, LenProperties
  <2> QED
    BY <2>1 DEF Frame, CallFrame, StoreFrame, InlineFrame, TryFrame, Envs
<1>3. Held(stack) \subseteq alive \cup {0} /\ {Global, env, value.home} \subseteq alive \cup {0}
  BY <1>1, RootsAre
<1>4. \A i \in DOMAIN stack :
        /\ stack[i].op = "call" => stack[i].saved \in alive \cup {0} /\ stack[i].home \in alive \cup {0}
        /\ stack[i].op = "inline" => stack[i].home \in alive \cup {0}
  BY <1>3, HeldIn
<1>5. env # 0
  BY <1>1 DEF Made
<1> QED
  BY <1>1, <1>2, <1>3, <1>4, <1>5 DEF Global, IsBlock

LEMMA AroundLives ==
  ASSUME IInv, NEW e \in alive
  PROVE  /\ e \in Around(e) /\ Around(e) \subseteq alive /\ Around(e) \subseteq 1 .. e
<1>1. Older(parent, Len(parent)) /\ Len(parent) \in Nat /\ e \in 1 .. Len(parent)
  BY OlderParents, ScopesNow DEF IInv, ParentsAreOlder
<1>2. Around(e) = Chain(parent, e)
  BY Zenon DEF Around, Chain
<1>3. HasParents(alive, parent)
  BY DEF HasParents, IInv, ReferencesLive
<1>4. /\ e \in Chain(parent, e) /\ Chain(parent, e) \subseteq 1 .. e
      /\ \A S : e \in S /\ HasParents(S, parent) => Chain(parent, e) \subseteq S
  BY <1>1, ChainIsLeast, Zenon
<1> QED
  BY <1>2, <1>3, <1>4

\* Env::find yields a scope that lives, from which the name can be read.
LEMMA HolderIs ==
  ASSUME IInv, NEW e \in alive, NEW n, Holder(e, n) # 0
  PROVE  /\ Holder(e, n) \in Around(e) /\ Holder(e, n) \in alive
         /\ n \in DOMAIN variables[Holder(e, n)]
         /\ variables[Holder(e, n)][n] \in Value
         /\ variables[Holder(e, n)][n].home \in alive \cup {0}
<1> DEFINE S == {0} \cup {d \in Around(e) : n \in DOMAIN variables[d]}
<1>1. e \in Nat /\ S \in SUBSET (0 .. e) /\ S # {}
  BY AroundLives, ScopesNow
<1>2. Holder(e, n) = Max(S)
  BY DEF Holder
<1>3. Max(S) \in S
  <2> HIDE DEF S
  <2> QED
    BY <1>1, MaxIsGreatest
<1> DEFINE h == Holder(e, n)
<1>4. h \in Around(e) /\ n \in DOMAIN variables[h]
  BY <1>2, <1>3
<1> HIDE DEF h
<1>5. h \in alive /\ h \in Made
  BY <1>4, AroundLives, ScopesNow
<1>6. variables[h] \in Definitions
  BY <1>5, ScopesNow, ElementOfSeq
<1>7. variables[h][n] \in Value
  BY <1>4, <1>6 DEF Definitions
<1>8. variables[h][n].home \in alive \cup {0}
  BY <1>4, <1>5 DEF IInv, ReferencesLive
<1> QED
  BY <1>4, <1>5, <1>7, <1>8 DEF h

-----------------------------------------------------------------------------
(* Steps.                                                                  *)

PCs == {"prompt", "run", "crashed"}

LEMMA InvariantHolds ==
  ASSUME Extends, StackInv', pc' \in PCs, env' \in Made', stack' \in Seq(Frame),
         value' \in Value, left' \in BOOLEAN
  PROVE  IInv'
BY DEF Extends, StackInv, IInv, TypeOK, PCs, Definitions

\* What is left of the stack refers to what it referred to.
LEMMA ShrinkRoots ==
  ASSUME IInv, NEW k \in 0 .. Len(stack),
         stack' \in Seq(Frame), Len(stack') = k, \A i \in 1 .. k : stack'[i] = stack[i],
         env' \in alive, value'.home \in alive \cup {0}
  PROVE  Roots' \subseteq alive \cup {0}
<1>1. DOMAIN stack = 1 .. Len(stack) /\ DOMAIN stack' = 1 .. k /\ Len(stack) \in Nat
  BY LenProperties DEF IInv, TypeOK
<1>2. \A i \in DOMAIN stack' : i \in DOMAIN stack /\ stack'[i] = stack[i]
  BY <1>1
<1>3. Held(stack') \subseteq alive
  BY <1>2, LivingNow, HeldIn
<1> QED
  BY <1>3, LivingNow, RootsAre

LEMMA ShrinkStep ==
  ASSUME IInv, Extends, NEW k \in 0 .. Len(stack),
         stack' \in Seq(Frame), Len(stack') = k, \A i \in 1 .. k : stack'[i] = stack[i],
         left' = TRUE \/ (env' = RunsIn(k) /\ left' = LeftAt(k)),
         pc' \in PCs, env' \in Made', value' \in Value, left' \in BOOLEAN
  PROVE  IInv'
<1>1. StackInv'
  BY StackShrinks
<1> QED
  BY <1>1, InvariantHolds

LEMMA MadeStays ==
  ASSUME IInv, Extends
  PROVE  alive \subseteq Made'
BY ScopesNow, LenProperties DEF Extends, Made

\* A step that leaves the scopes alone and pushes nothing.
LEMMA QuietStep ==
  ASSUME IInv, SameScopes, NEW k \in 0 .. Len(stack),
         stack' \in Seq(Frame), Len(stack') = k, \A i \in 1 .. k : stack'[i] = stack[i],
         left' = TRUE \/ (env' = RunsIn(k) /\ left' = LeftAt(k)),
         pc' \in PCs, env' \in alive, value' \in Value, value'.home \in alive \cup {0},
         left' \in BOOLEAN
  PROVE  IInv'
<1>1. Roots' \subseteq alive \cup {0}
  BY ShrinkRoots
<1>2. Extends
  BY <1>1, SameScopesStep
<1>3. env' \in Made'
  BY <1>2, MadeStays
<1> QED
  BY <1>2, <1>3, ShrinkStep

\* A step that leaves the scopes and the stack alone.
LEMMA YieldStep ==
  ASSUME IInv, SameScopes, pc' \in PCs, UNCHANGED <<env, stack, left>>,
         value' \in Value, value'.home \in alive \cup {0}
  PROVE  IInv'
<1>0. PICK k : k = Len(stack)
  OBVIOUS
<1>1. stack \in Seq(Frame) /\ Len(stack) \in Nat /\ DOMAIN stack = 1 .. Len(stack) /\ left \in BOOLEAN
  BY LenProperties DEF IInv, TypeOK
<1>2. CallsAbove(k) = {}
  BY <1>0, <1>1 DEF CallsAbove
<1>3. RunsIn(k) = env /\ LeftAt(k) = left
  BY <1>2 DEF RunsIn, LeftAt
<1>4. env' \in alive
  BY LivingNow
<1>5. k \in 0 .. Len(stack) /\ stack' \in Seq(Frame) /\ Len(stack') = k
      /\ (\A i \in 1 .. k : stack'[i] = stack[i]) /\ left' \in BOOLEAN
  BY <1>0, <1>1
<1>6. env' = RunsIn(k) /\ left' = LeftAt(k)
  BY <1>3
<1> QED
  BY <1>4, <1>5, <1>6, QuietStep

\* The top of the stack, and what is below it.
LEMMA TopOfStack ==
  ASSUME IInv, stack # <<>>, Pop
  PROVE  \E k \in 0 .. Len(stack) :
           /\ k + 1 = Len(stack) /\ Last(stack) = stack[k + 1] /\ Last(stack) \in Frame
           /\ k + 1 \in DOMAIN stack
           /\ stack' \in Seq(Frame) /\ Len(stack') = k /\ \A i \in 1 .. k : stack'[i] = stack[i]
           /\ CallsAbove(k) = IF Last(stack).op = "call" THEN {k + 1} ELSE {}
           /\ RunsIn(k) = IF Last(stack).op = "call" THEN Last(stack).saved ELSE env
           /\ LeftAt(k) = IF Last(stack).op = "call" THEN Last(stack).left ELSE left
<1>1. stack \in Seq(Frame) /\ Len(stack) \in Nat /\ DOMAIN stack = 1 .. Len(stack)
  BY LenProperties DEF IInv, TypeOK
<1>2. Len(stack) # 0
  BY <1>1, EmptySeq
<1>3. PICK k : k = Len(stack) - 1
  OBVIOUS
<1>4. k \in 0 .. Len(stack) /\ k + 1 = Len(stack) /\ k + 1 \in DOMAIN stack /\ k \in Nat
  BY <1>1, <1>2, <1>3
<1>5. Last(stack) = stack[k + 1]
  BY <1>4 DEF Last
<1>6. stack[k + 1] \in Frame
  BY <1>1, <1>4, ElementOfSeq
<1>7. stack' = SubSeq(stack, 1, k)
  BY <1>3 DEF Pop, Front
<1>8. stack' \in Seq(Frame) /\ Len(stack') = k /\ \A i \in 1 .. k : stack'[i] = stack[i]
  BY <1>1, <1>4, <1>7, SubSeqProperties
<1>9. CallsAbove(k) = IF stack[k + 1].op = "call" THEN {k + 1} ELSE {}
  BY <1>1, <1>4 DEF CallsAbove
<1>10. Min({k + 1}) = k + 1
  BY <1>4, MinIs
<1>11. RunsIn(k) = IF stack[k + 1].op = "call" THEN stack[k + 1].saved ELSE env
  BY <1>9, <1>10 DEF RunsIn
<1>12. LeftAt(k) = IF stack[k + 1].op = "call" THEN stack[k + 1].left ELSE left
  BY <1>9, <1>10 DEF LeftAt
<1> QED
  BY <1>4, <1>5, <1>6, <1>8, <1>9, <1>11, <1>12, Zenon

LEMMA ReadLineStep ==
  ASSUME IInv, ReadLine
  PROVE  IInv'
BY LivingNow, YieldStep DEF ReadLine, PCs

LEMMA FinishLineStep ==
  ASSUME IInv, FinishLine
  PROVE  IInv'
BY PlainIsValue, YieldStep DEF FinishLine, PCs, Plain

LEMMA YieldsStep ==
  ASSUME IInv, NEW v \in Value, Yields(v), v.home \in alive \cup {0}
  PROVE  IInv'
BY YieldStep DEF Yields, Run, PCs

LEMMA LiteralStep ==
  ASSUME IInv, Literal
  PROVE  IInv'
BY PlainIsValue, YieldsStep DEF Literal, Plain

LEMMA MakeBlockStep ==
  ASSUME IInv, NEW param \in Parameters, MakeBlock(param)
  PROVE  IInv'
<1>0. PICK v : v = [home |-> env, param |-> param]
  OBVIOUS
<1>1. env \in 1 .. MaxEnvs
  BY ScopesNow DEF IInv, TypeOK
<1>2. v \in Value /\ v.home = env
  BY <1>0, <1>1 DEF Value
<1> QED
  BY <1>0, <1>2, LivingNow, YieldsStep DEF MakeBlock

LEMMA VariableStep ==
  ASSUME IInv, NEW n \in Names, Variable(n)
  PROVE  IInv'
<1>0. PICK v : v = variables[Holder(env, n)][n]
  OBVIOUS
<1>1. v \in Value /\ v.home \in alive \cup {0}
  BY <1>0, LivingNow, HolderIs DEF Variable
<1> QED
  BY <1>0, <1>1, YieldsStep DEF Variable

LEMMA StoreIntoNothingStep ==
  ASSUME IInv, StoreIntoNothing
  PROVE  IInv'
BY LivingNow, YieldStep DEF StoreIntoNothing, PCs

LEMMA StoreStep ==
  ASSUME IInv, Store
  PROVE  IInv'
<1>0. Run /\ Pop /\ UNCHANGED <<env, left>>
  BY DEF Store
<1>1. stack # <<>> /\ Last(stack).op \in {"define", "assign"} /\ Last(stack).target \in alive
  BY DEF Store, On
<1>2. PICK k \in 0 .. Len(stack) :
        /\ Last(stack) \in Frame
        /\ stack' \in Seq(Frame) /\ Len(stack') = k /\ \A i \in 1 .. k : stack'[i] = stack[i]
        /\ RunsIn(k) = IF Last(stack).op = "call" THEN Last(stack).saved ELSE env
        /\ LeftAt(k) = IF Last(stack).op = "call" THEN Last(stack).left ELSE left
  BY <1>0, <1>1, TopOfStack
<1>3. PICK t, name : t = Last(stack).target /\ name = Last(stack).name
  OBVIOUS
<1>4. t \in alive /\ name \in Names
  BY <1>1, <1>2, <1>3 DEF Frame, CallFrame, StoreFrame, InlineFrame, TryFrame
<1>5. Scopes(parent, [variables EXCEPT ![t] = ForceDefine(@, name, value)])
  BY <1>3 DEF Store
<1>6. value' \in Value /\ value'.home \in alive \cup {0}
  BY LivingNow, PlainIsValue DEF Store, Plain
<1>7. env' \in alive
  BY <1>0, LivingNow
<1>8. Roots' \subseteq alive \cup {0}
  BY <1>2, <1>6, <1>7, ShrinkRoots
<1>9. Extends
  BY <1>4, <1>5, <1>8, StoreScopesStep
<1>10. env' = RunsIn(k) /\ left' = LeftAt(k)
  BY <1>0, <1>1, <1>2
<1>11. pc' \in PCs /\ left' \in BOOLEAN /\ env' \in Made'
  BY <1>0, <1>7, <1>9, MadeStays DEF IInv, TypeOK, Run, PCs
<1> QED
  BY <1>2, <1>6, <1>9, <1>10, <1>11, ShrinkStep

LEMMA ReturnStep ==
  ASSUME IInv, Return
  PROVE  IInv'
<1>0. Run /\ Pop /\ SameScopes /\ env' = Last(stack).saved /\ left' = Last(stack).left /\ value' = value
  BY DEF Return
<1>1. stack # <<>> /\ Last(stack).op = "call"
  BY DEF Return, On
<1>2. PICK k \in 0 .. Len(stack) :
        /\ Last(stack) = stack[k + 1] /\ Last(stack) \in Frame /\ k + 1 \in DOMAIN stack
        /\ stack' \in Seq(Frame) /\ Len(stack') = k /\ \A i \in 1 .. k : stack'[i] = stack[i]
        /\ RunsIn(k) = IF Last(stack).op = "call" THEN Last(stack).saved ELSE env
        /\ LeftAt(k) = IF Last(stack).op = "call" THEN Last(stack).left ELSE left
  BY <1>0, <1>1, TopOfStack
<1>3. left' \in BOOLEAN
  BY <1>0, <1>1, <1>2 DEF Frame, CallFrame, StoreFrame, InlineFrame, TryFrame
<1>4. env' \in alive
  BY <1>0, <1>1, <1>2, LivingNow
<1>5. env' = RunsIn(k) /\ left' = LeftAt(k)
  BY <1>0, <1>1, <1>2
<1>6. pc' \in PCs /\ value' \in Value /\ value'.home \in alive \cup {0}
  BY <1>0, LivingNow DEF Run, PCs
<1> QED
  BY <1>0, <1>2, <1>3, <1>4, <1>5, <1>6, QuietStep

LEMMA FinishStep ==
  ASSUME IInv, Finish
  PROVE  IInv'
<1>0. Run /\ Pop /\ SameScopes /\ UNCHANGED <<env, value, left>>
  BY DEF Finish
<1>1. stack # <<>> /\ Last(stack).op \in {"inline", "try"}
  BY DEF Finish, On
<1>2. PICK k \in 0 .. Len(stack) :
        /\ stack' \in Seq(Frame) /\ Len(stack') = k /\ \A i \in 1 .. k : stack'[i] = stack[i]
        /\ RunsIn(k) = IF Last(stack).op = "call" THEN Last(stack).saved ELSE env
        /\ LeftAt(k) = IF Last(stack).op = "call" THEN Last(stack).left ELSE left
  BY <1>0, <1>1, TopOfStack
<1>3. left' \in BOOLEAN /\ env' \in alive
  BY <1>0, LivingNow DEF IInv, TypeOK
<1>4. env' = RunsIn(k) /\ left' = LeftAt(k)
  BY <1>0, <1>1, <1>2
<1>5. pc' \in PCs /\ value' \in Value /\ value'.home \in alive \cup {0}
  BY <1>0, LivingNow DEF Run, PCs
<1> QED
  BY <1>0, <1>2, <1>3, <1>4, <1>5, QuietStep

\* Errors: what a try, or the prompt, finds is what was there under it.
LEMMA UnwindStep ==
  ASSUME IInv, Unwind
  PROVE  \E k \in 0 .. Len(stack) :
           /\ stack' \in Seq(Frame) /\ Len(stack') = k /\ \A i \in 1 .. k : stack'[i] = stack[i]
           /\ Unwound = CallsAbove(k)
           /\ Unwound # {} => Min(Unwound) \in DOMAIN stack /\ stack[Min(Unwound)].op = "call"
           /\ pc' \in PCs /\ value' \in Value /\ value'.home \in alive \cup {0}
<1>1. stack \in Seq(Frame) /\ Len(stack) \in Nat /\ DOMAIN stack = 1 .. Len(stack)
  BY LenProperties DEF IInv, TypeOK
<1>2. Catcher \in 0 .. Len(stack) /\ (Catcher # 0 => stack[Catcher].op = "try")
  <2> DEFINE S == {0} \cup Tries
  <2>1. S \in SUBSET (0 .. Len(stack)) /\ S # {}
    BY <1>1 DEF Tries
  <2>2. Max(S) \in S
    <3> HIDE DEF S
    <3> QED
      BY <1>1, <2>1, MaxIsGreatest
  <2> QED
    BY <1>1, <2>2 DEF Catcher, Tries
<1>3. PICK k : k = IF Catcher = 0 THEN 0 ELSE Catcher - 1
  OBVIOUS
<1>4. k \in 0 .. Len(stack) /\ k \in Nat
  BY <1>1, <1>2, <1>3
<1>5. Max({0, Catcher - 1}) = k
  <2>1. CASE Catcher = 0
    <3>1. Max({0, -1}) = 0
      BY DEF Max
    <3> QED
      BY <1>3, <2>1, <3>1
  <2>2. CASE Catcher # 0
    <3>1. {0, k} \in SUBSET (0 .. k) /\ k \in {0, k} /\ \A n \in {0, k} : k >= n
      BY <1>4
    <3>2. Max({0, k}) = k
      BY <1>4, <3>1, MaxIs
    <3> QED
      BY <1>3, <2>2, <3>2
  <2> QED
    BY <2>1, <2>2
<1>6. stack' = SubSeq(stack, 1, k)
  BY <1>5 DEF Unwind
<1>7. stack' \in Seq(Frame) /\ Len(stack') = k /\ \A i \in 1 .. k : stack'[i] = stack[i]
  BY <1>1, <1>4, <1>6, SubSeqProperties
<1>8. Unwound = CallsAbove(k)
  BY <1>1, <1>2, <1>3, <1>4 DEF Unwound, CallsAbove
<1>9. ASSUME Unwound # {}
      PROVE  Min(Unwound) \in DOMAIN stack /\ stack[Min(Unwound)].op = "call"
  <2>1. Unwound \in SUBSET Nat
    BY <1>1 DEF Unwound
  <2>2. Min(Unwound) \in Unwound
    BY <1>9, <2>1, MinIsLeast
  <2> QED
    BY <2>2 DEF Unwound
<1>10. pc' \in PCs /\ value' \in Value /\ value'.home \in alive \cup {0}
  BY PlainIsValue DEF Unwind, PCs, Plain
<1> QED
  BY <1>4, <1>7, <1>8, <1>9, <1>10, Zenon

\* The calls return from the innermost to the outermost, whose scope is the one left.
LEMMA ReturnsStep ==
  ASSUME IInv, NEW k \in 0 .. Len(stack), Unwound = CallsAbove(k), Unwound # {},
         Min(Unwound) \in DOMAIN stack, stack[Min(Unwound)].op = "call",
         env' = stack[Min(Unwound)].saved, left' = stack[Min(Unwound)].left
  PROVE  /\ env' = RunsIn(k) /\ left' = LeftAt(k)
         /\ env' \in alive /\ left' \in BOOLEAN
<1>1. env' = RunsIn(k) /\ left' = LeftAt(k)
  BY DEF RunsIn, LeftAt
<1>2. env' \in alive
  BY LivingNow
<1>3. stack[Min(Unwound)] \in Frame
  BY LenProperties DEF IInv, TypeOK
<1>4. left' \in BOOLEAN
  BY <1>3 DEF Frame, CallFrame, StoreFrame, InlineFrame, TryFrame
<1> QED
  BY <1>1, <1>2, <1>4

LEMMA ErrorStep ==
  ASSUME IInv, Error
  PROVE  IInv'
<1>0. Unwind /\ SameScopes
  BY DEF Error
<1>1. PICK k \in 0 .. Len(stack) :
        /\ stack' \in Seq(Frame) /\ Len(stack') = k /\ \A i \in 1 .. k : stack'[i] = stack[i]
        /\ Unwound = CallsAbove(k)
        /\ Unwound # {} => Min(Unwound) \in DOMAIN stack /\ stack[Min(Unwound)].op = "call"
        /\ pc' \in PCs /\ value' \in Value /\ value'.home \in alive \cup {0}
  BY <1>0, UnwindStep
<1>2. CASE Unwound = {}
  <2>1. UNCHANGED <<env, left>>
    BY <1>2 DEF Error
  <2>2. env' = RunsIn(k) /\ left' = LeftAt(k)
    BY <1>1, <1>2, <2>1 DEF RunsIn, LeftAt
  <2>3. env' \in alive /\ left' \in BOOLEAN
    BY <2>1, LivingNow DEF IInv, TypeOK
  <2> QED
    BY <1>0, <1>1, <2>2, <2>3, QuietStep
<1>3. CASE Unwound # {}
  <2>1. env' = stack[Min(Unwound)].saved /\ left' = stack[Min(Unwound)].left
    BY <1>3 DEF Error
  <2>2. /\ env' = RunsIn(k) /\ left' = LeftAt(k)
        /\ env' \in alive /\ left' \in BOOLEAN
    BY <1>1, <1>3, <2>1, ReturnsStep
  <2> QED
    BY <1>0, <1>1, <2>2, QuietStep
<1> QED
  BY <1>2, <1>3

LEMMA WrongArityStep ==
  ASSUME IInv, WrongArity
  PROVE  IInv'
<1>0. Unwind /\ IsBlock(value)
  BY DEF WrongArity
<1>1. PICK k \in 0 .. Len(stack) :
        /\ stack' \in Seq(Frame) /\ Len(stack') = k /\ \A i \in 1 .. k : stack'[i] = stack[i]
        /\ Unwound = CallsAbove(k)
        /\ Unwound # {} => Min(Unwound) \in DOMAIN stack /\ stack[Min(Unwound)].op = "call"
        /\ pc' \in PCs /\ value' \in Value /\ value'.home \in alive \cup {0}
  BY <1>0, UnwindStep
<1>2. CASE Unwound = {}
  <2>1. env' = NewScope /\ left' = TRUE /\ Enter(value.home, NoVariables)
    BY <1>2 DEF WrongArity
  <2>2. PICK e : e = value.home
    OBVIOUS
  <2>3. e \in alive /\ Global \in alive
    BY <1>0, <2>2, LivingNow
  <2>4. DOMAIN stack = 1 .. Len(stack) /\ DOMAIN stack' = 1 .. k /\ Len(stack) \in Nat
    BY <1>1, LenProperties DEF IInv, TypeOK
  <2>5. Held(stack') \subseteq alive
    <3>1. \A i \in DOMAIN stack' : i \in DOMAIN stack /\ stack'[i] = stack[i]
      BY <1>1, <2>4
    <3> QED
      BY <3>1, LivingNow, HeldIn
  <2>6. Roots' \subseteq alive \cup {NewScope, 0}
    BY <1>1, <2>1, <2>3, <2>5, RootsAre
  <2>7. Extends /\ Len(parent') = NewScope
    BY <2>1, <2>2, <2>3, <2>6, PlainIsValue, EnterStep
  <2>8. env' \in Made' /\ left' \in BOOLEAN
    BY <2>1, <2>7, ScopesNow DEF Made, NewScope
  <2> QED
    BY <1>1, <2>1, <2>7, <2>8, ShrinkStep
<1>3. CASE Unwound # {}
  <2>1. env' = stack[Min(Unwound)].saved /\ left' = stack[Min(Unwound)].left /\ SameScopes
    BY <1>3 DEF WrongArity
  <2>2. /\ env' = RunsIn(k) /\ left' = LeftAt(k)
        /\ env' \in alive /\ left' \in BOOLEAN
    BY <1>1, <1>3, <2>1, ReturnsStep
  <2> QED
    BY <1>1, <2>1, <2>2, QuietStep
<1> QED
  BY <1>2, <1>3

LEMMA InterruptStep ==
  ASSUME IInv, Interrupt
  PROVE  IInv'
<1>0. pc' = "prompt" /\ stack' = <<>> /\ value' = Plain /\ SameScopes /\ env' = env
      /\ left' = (left \/ \E i \in DOMAIN stack : stack[i].op = "call")
  BY DEF Interrupt
<1>1. /\ stack' \in Seq(Frame) /\ Len(stack') = 0 /\ 0 \in 0 .. Len(stack)
      /\ DOMAIN stack = 1 .. Len(stack)
  BY <1>0, LenProperties DEF IInv, TypeOK
<1>2. left' = TRUE \/ (env' = RunsIn(0) /\ left' = LeftAt(0))
  <2>1. CASE \E i \in DOMAIN stack : stack[i].op = "call"
    BY <1>0, <2>1
  <2>2. CASE ~\E i \in DOMAIN stack : stack[i].op = "call"
    <3>1. CallsAbove(0) = {}
      BY <2>2 DEF CallsAbove
    <3>2. RunsIn(0) = env /\ LeftAt(0) = left
      BY <3>1 DEF RunsIn, LeftAt
    <3>3. left \in BOOLEAN
      BY DEF IInv, TypeOK
    <3>4. left' = left
      BY <1>0, <2>2, <3>3
    <3> QED
      BY <1>0, <3>2, <3>4
  <2> QED
    BY <2>1, <2>2
<1>3. left' \in BOOLEAN
  BY <1>0
<1>4. pc' \in PCs /\ env' \in alive /\ value' \in Value /\ value'.home \in alive \cup {0}
  BY <1>0, LivingNow, PlainIsValue DEF PCs, Plain
<1>5. \A i \in 1 .. 0 : stack'[i] = stack[i]
  OBVIOUS
<1> QED
  BY <1>0, <1>1, <1>2, <1>3, <1>4, <1>5, QuietStep

\* What a step that pushes f refers to.
LEMMA GrowRoots ==
  ASSUME IInv, NEW f \in Frame, stack' = Append(stack, f),
         f.op = "call" => f.saved \in alive /\ f.home \in alive,
         f.op = "inline" => f.home \in alive,
         NEW X, alive \subseteq X, env' \in X, value'.home \in X \cup {0}
  PROVE  Roots' \subseteq X \cup {0}
<1>0. PICK m : m = Len(stack)
  OBVIOUS
<1>1. stack \in Seq(Frame) /\ m \in Nat /\ DOMAIN stack = 1 .. m
  BY <1>0, LenProperties DEF IInv, TypeOK
<1>2. /\ stack' \in Seq(Frame) /\ Len(stack') = m + 1 /\ stack'[m + 1] = f
      /\ \A j \in 1 .. m : stack'[j] = stack[j]
  BY <1>0, <1>1, AppendProperties
<1>3. DOMAIN stack' = 1 .. m + 1
  BY <1>2, LenProperties
<1>4. \A i \in DOMAIN stack' : i = m + 1 \/ (i \in DOMAIN stack /\ stack'[i] = stack[i])
  BY <1>1, <1>2, <1>3
<1>5. \A i \in DOMAIN stack' :
        /\ stack'[i].op = "call" => stack'[i].saved \in X /\ stack'[i].home \in X
        /\ stack'[i].op = "inline" => stack'[i].home \in X
  BY <1>2, <1>4, LivingNow
<1>6. Held(stack') \subseteq X
  BY <1>5, HeldIn
<1>7. Global \in X
  BY LivingNow
<1> QED
  BY <1>6, <1>7, RootsAre

\* An evaluation other than a call begins.
LEMMA PushStep ==
  ASSUME IInv, SameScopes, Run, NEW f \in Frame, Push(f), f.op # "call",
         value' = Plain, UNCHANGED <<env, left>>,
         f.op = "inline" => f.home \in alive,
         f.op \in {"define", "assign"} /\ ~left => f.target \in Around(env)
  PROVE  IInv'
<1>1. stack' = Append(stack, f) /\ stack \in Seq(Frame) /\ env' \in alive /\ left' \in BOOLEAN
  BY LivingNow DEF Push, IInv, TypeOK
<1>2. value' \in Value /\ value'.home = 0 /\ pc' \in PCs
  BY PlainIsValue DEF Plain, Run, PCs
<1>3. Roots' \subseteq alive \cup {0}
  BY <1>1, <1>2, GrowRoots
<1>4. Extends
  BY <1>3, SameScopesStep
<1>5. StackInv'
  BY <1>1, <1>4, StackGrows
<1>6. env' \in Made' /\ stack' \in Seq(Frame)
  BY <1>1, <1>4, MadeStays, AppendProperties
<1> QED
  BY <1>1, <1>2, <1>4, <1>5, <1>6, InvariantHolds

LEMMA StartDefineStep ==
  ASSUME IInv, NEW n \in Names, StartDefine(n)
  PROVE  IInv'
<1>0. PICK f : f = [op |-> "define", target |-> env, name |-> n]
  OBVIOUS
<1>1. env \in Envs
  BY ScopesNow DEF IInv, TypeOK, Envs
<1>2. f \in Frame /\ f.op = "define" /\ f.target = env
  BY <1>0, <1>1 DEF Frame, StoreFrame
<1>3. f.target \in Around(env)
  BY <1>2, LivingNow, AroundLives
<1> QED
  BY <1>0, <1>2, <1>3, PushStep DEF StartDefine

LEMMA StartAssignStep ==
  ASSUME IInv, NEW n \in Names, StartAssign(n)
  PROVE  IInv'
<1>0. PICK f : f = [op |-> "assign", target |-> Holder(env, n), name |-> n]
  OBVIOUS
<1>1. Holder(env, n) \in Around(env) /\ Holder(env, n) \in alive
  BY LivingNow, HolderIs DEF StartAssign
<1>2. Holder(env, n) \in Envs
  BY <1>1, ScopesNow DEF Envs
<1>3. f \in Frame /\ f.op = "assign" /\ f.target \in Around(env)
  BY <1>0, <1>1, <1>2 DEF Frame, StoreFrame
<1> QED
  BY <1>0, <1>3, PushStep DEF StartAssign

LEMMA InlineStep ==
  ASSUME IInv, Inline
  PROVE  IInv'
<1>0. PICK f : f = [op |-> "inline", home |-> value.home]
  OBVIOUS
<1>1. value.home \in alive
  BY LivingNow DEF Inline
<1>2. value.home \in Envs
  BY <1>1, ScopesNow DEF Envs
<1>3. f \in Frame /\ f.op = "inline" /\ f.home \in alive
  BY <1>0, <1>1, <1>2 DEF Frame, InlineFrame
<1> QED
  BY <1>0, <1>3, PushStep DEF Inline

LEMMA StartTryStep ==
  ASSUME IInv, StartTry
  PROVE  IInv'
<1>0. PICK f : f = [op |-> "try"]
  OBVIOUS
<1>1. f \in Frame /\ f.op = "try"
  BY <1>0 DEF Frame, TryFrame
<1> QED
  BY <1>0, <1>1, PushStep DEF StartTry

LEMMA CallStep ==
  ASSUME IInv, NEW arg \in Arguments, Call(arg)
  PROVE  IInv'
<1>0. /\ Run /\ IsBlock(value) /\ env' = NewScope /\ value' = Plain /\ left' = FALSE
      /\ Push([op |-> "call", saved |-> env, scope |-> env', home |-> value.home, left |-> left])
  BY DEF Call
<1>1. PICK e, d : /\ e = value.home
                  /\ d = IF value.param = NoName THEN NoVariables
                         ELSE ForceDefine(NoVariables, value.param, arg)
  OBVIOUS
<1>2. Enter(e, d)
  BY <1>1 DEF Call
<1>3. e \in alive /\ env \in alive /\ value \in Value /\ Global \in alive
  BY <1>0, <1>1, LivingNow
<1>4. arg \in Value /\ arg.home \in alive \cup {0}
  BY <1>3, PlainIsValue, ScopesNow DEF Arguments, Plain, Value
<1>5. d \in Definitions /\ \A n \in DOMAIN d : d[n].home \in alive \cup {0}
  <2>1. CASE value.param = NoName
    BY <1>1, <2>1, PlainIsValue
  <2>2. CASE value.param # NoName
    <3>1. value.param \in Names
      BY <1>3, <2>2 DEF Value
    <3>2. PICK name : name = value.param
      OBVIOUS
    <3>3. d = ForceDefine(NoVariables, name, arg) /\ name \in Names
      BY <1>1, <2>2, <3>1, <3>2
    <3>4. /\ d \in Definitions /\ DOMAIN d = DOMAIN NoVariables \cup {name} /\ d[name] = arg
      <4>1. NoVariables \in Definitions /\ arg \in Value /\ name \in Names
        BY <1>4, <3>3, PlainIsValue
      <4>2. ForceDefine(NoVariables, name, arg) = d
        BY <3>3
      <4>3. /\ ForceDefine(NoVariables, name, arg) \in Definitions
            /\ DOMAIN ForceDefine(NoVariables, name, arg) = DOMAIN NoVariables \cup {name}
            /\ ForceDefine(NoVariables, name, arg)[name] = arg
        BY <4>1, DefineStep
      <4> QED
        BY <4>2, <4>3
    <3> QED
      BY <1>4, <3>4, PlainIsValue
  <2> QED
    BY <2>1, <2>2
<1>6. PICK f : f = [op |-> "call", saved |-> env, scope |-> env', home |-> value.home, left |-> left]
  OBVIOUS
<1>7. /\ f.op = "call" /\ f.saved = env /\ f.scope = env' /\ f.home = e /\ f.left = left
  BY <1>1, <1>6
<1>8. f \in Frame
  <2>1. e \in Envs /\ env \in Envs
    BY <1>3, ScopesNow DEF Envs
  <2>2. env' \in Envs
    BY <1>0, <1>2, ScopesNow DEF Enter, NewScope, Envs
  <2>3. left \in BOOLEAN
    BY DEF IInv, TypeOK
  <2> QED
    BY <1>1, <1>6, <2>1, <2>2, <2>3 DEF Frame, CallFrame
<1>9. stack' = Append(stack, f) /\ stack \in Seq(Frame)
  BY <1>0, <1>6 DEF Push, IInv, TypeOK
<1>10. value' \in Value /\ value'.home = 0 /\ pc' \in PCs /\ left' \in BOOLEAN
  BY <1>0, PlainIsValue DEF Plain, Run, PCs
<1>11. Roots' \subseteq alive \cup {NewScope, 0}
  <2>1. PICK X : X = alive \cup {NewScope}
    OBVIOUS
  <2>2. Roots' \subseteq X \cup {0}
    BY <1>0, <1>3, <1>7, <1>8, <1>9, <1>10, <2>1, GrowRoots
  <2> QED
    BY <2>1, <2>2
<1>12. Extends /\ Len(parent') = NewScope /\ parent'[NewScope] = e
  BY <1>2, <1>3, <1>5, <1>11, EnterStep
<1>13. env' \in Made'
  BY <1>0, <1>12, ScopesNow DEF Made, NewScope
<1>14. StackInv'
  BY <1>0, <1>7, <1>8, <1>9, <1>12, <1>13, StackGrows
<1>15. stack' \in Seq(Frame)
  BY <1>8, <1>9, AppendProperties
<1> QED
  BY <1>10, <1>12, <1>13, <1>14, <1>15, InvariantHolds

-----------------------------------------------------------------------------
(* The invariant.                                                          *)

LEMMA Starts == Init => IInv
<1> SUFFICES ASSUME Init
             PROVE  IInv
  OBVIOUS
<1>1. TypeOK
  <2>1. parent = <<0>> /\ parent \in Seq(0 .. MaxEnvs) /\ Len(parent) = 1 /\ Made = {1}
    BY DEF Init, Made
  <2>2. variables \in Seq(Definitions) /\ Len(variables) = 1
    BY PlainIsValue DEF Init
  <2>3. stack \in Seq(Frame) /\ value \in Value
    BY PlainIsValue DEF Init
  <2> QED
    BY <2>1, <2>2, <2>3 DEF Init, TypeOK, Definitions, Global
<1>2. ParentsAreOlder
  BY DEF Init, ParentsAreOlder, Made
<1>3. Held(stack) = {}
  BY DEF Init, Held, Range
<1>4. ReferencesLive
  <2>1. alive = {1} /\ parent[1] = 0 /\ variables[1] = NoVariables /\ env = 1 /\ value.home = 0
    BY DEF Init, Global, Plain
  <2>2. Roots = {0, 1}
    BY <1>3, <2>1, RootsAre DEF Global
  <2> QED
    BY <2>1, <2>2, PlainIsValue DEF ReferencesLive
<1>5. LexicalScope
  BY DEF Init, LexicalScope, ScopeAt
<1>6. CallsReturnToCaller /\ StoresGoAround
  <2>1. DOMAIN stack = {}
    BY DEF Init
  <2> QED
    BY <2>1 DEF CallsReturnToCaller, StoresGoAround
<1> QED
  BY <1>1, <1>2, <1>4, <1>5, <1>6 DEF IInv

LEMMA Stutters ==
  ASSUME IInv, UNCHANGED vars
  PROVE  IInv'
<1> USE DEF vars, IInv
<1>1. TypeOK' /\ ParentsAreOlder'
  BY DEF TypeOK, ParentsAreOlder, Made
<1>2. \A i : ScopeAt(i)' = ScopeAt(i) /\ RunsIn(i)' = RunsIn(i) /\ LeftAt(i)' = LeftAt(i)
  BY Reads
<1>3. CallsReturnToCaller'
  BY <1>2 DEF CallsReturnToCaller, Made
<1>4. ReferencesLive'
  BY RootsAre DEF ReferencesLive
<1>5. StoresGoAround'
  <2>1. \A i : Around(RunsIn(i))' = Around(RunsIn(i))
    <3>1. \A i : Around(RunsIn(i))' = Chain(parent', RunsFrom(stack', env', i))
      BY Reads, Zenon DEF Around, Chain
    <3>2. \A i : Around(RunsIn(i)) = Chain(parent, RunsFrom(stack, env, i))
      BY Reads, Zenon DEF Around, Chain
    <3> QED
      BY <3>1, <3>2
  <2> QED
    BY <1>2, <2>1 DEF StoresGoAround
<1>6. LexicalScope'
  <2>1. ScopeAt(Len(stack))' = ScopeAt(Len(stack))
    BY Zenon DEF ScopeAt
  <2> QED
    BY <2>1 DEF LexicalScope
<1> QED
  BY <1>1, <1>3, <1>4, <1>5, <1>6

LEMMA Inductive ==
  ASSUME IInv, [Next]_vars
  PROVE  IInv'
<1>1. ASSUME NEW param \in Parameters, MakeBlock(param)
      PROVE  IInv'
  BY <1>1, MakeBlockStep
<1>2. ASSUME NEW n \in Names, Variable(n) \/ StartDefine(n) \/ StartAssign(n)
      PROVE  IInv'
  BY <1>2, VariableStep, StartDefineStep, StartAssignStep
<1>3. ASSUME NEW arg \in Arguments, Call(arg)
      PROVE  IInv'
  BY <1>3, CallStep
<1>4. CASE UNCHANGED vars
  BY <1>4, Stutters
<1>5. ASSUME \/ ReadLine \/ FinishLine \/ Literal \/ Store \/ StoreIntoNothing \/ Return
             \/ Inline \/ StartTry \/ Finish \/ Error \/ WrongArity \/ Interrupt
      PROVE  IInv'
  BY <1>5, ReadLineStep, FinishLineStep, LiteralStep, StoreStep, StoreIntoNothingStep, ReturnStep,
     InlineStep, StartTryStep, FinishStep, ErrorStep, WrongArityStep, InterruptStep
<1> QED
  BY <1>1, <1>2, <1>3, <1>4, <1>5 DEF Next

\* The inductive invariant of Scopes.
THEOREM Invariance == Spec => []IInv
BY Starts, Inductive, PTL DEF Spec

\* Code runs in the scope of its own call, however the calls it made ended, unless an
\* error of arity of its own or a Ctrl-C left another one.
THEOREM RunsInOwnScope == Spec => []LexicalScope
<1>1. IInv => LexicalScope
  BY DEF IInv
<1> QED
  BY <1>1, Invariance, PTL

\* The scope to store a value into was not destroyed while the value was computed: it is
\* one around the scope that the code that stores runs in, which reference counts keep.
THEOREM TargetsLive == Spec => []StoresIntoScope
<1>1. IInv => StoresIntoScope
  <2> SUFFICES ASSUME IInv, NEW i \in DOMAIN stack,
                      stack[i].op \in {"define", "assign"} /\ ~LeftAt(i)
               PROVE  stack[i].target \in alive
    BY DEF StoresIntoScope
  <2>1. stack[i].target \in Around(RunsIn(i))
    BY DEF IInv, StoresGoAround
  <2>2. RunsIn(i) \in alive
    <3>1. CASE CallsAbove(i) = {}
      BY <3>1, LivingNow DEF RunsIn
    <3>2. CASE CallsAbove(i) # {}
      <4>1. CallsAbove(i) \in SUBSET Nat
        BY LenProperties DEF IInv, TypeOK, CallsAbove
      <4>2. Min(CallsAbove(i)) \in CallsAbove(i)
        BY <3>2, <4>1, MinIsLeast
      <4>3. Min(CallsAbove(i)) \in DOMAIN stack /\ stack[Min(CallsAbove(i))].op = "call"
        BY <4>2 DEF CallsAbove
      <4> QED
        BY <3>2, <4>3, LivingNow DEF RunsIn
    <3> QED
      BY <3>1, <3>2
  <2>3. PICK e \in alive : e = RunsIn(i)
    BY <2>2
  <2> QED
    BY <2>1, <2>3, AroundLives
<1> QED
  BY <1>1, Invariance, PTL

\* Every variable of Scopes has its type.
THEOREM TypeCorrect == Spec => []TypeOK
<1>1. IInv => TypeOK
  BY DEF IInv
<1> QED
  BY <1>1, Invariance, PTL
=============================================================================
