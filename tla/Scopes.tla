-------------------------------- MODULE Scopes --------------------------------
(***************************************************************************)
(* Scopes: Env, Interpreter::env, and what definition, assignment, calls   *)
(* of blocks, played blocks, try and errors do to them.                    *)
(*                                                                         *)
(* Scopes are numbered as they are made, and a scope is newer than its     *)
(* parent; number 1 is the global one.  A scope lives as long as something *)
(* refers to it: the interpreter, a block in a variable, a block that is   *)
(* being evaluated, a call that will return to it, or a scope inside it.   *)
(*                                                                         *)
(* A program is any sequence of steps of evaluation; `value' is the value  *)
(* the last one yielded.  Of a value only matters whether it is a block,   *)
(* which has the scope it was made in and at most one parameter.           *)
(***************************************************************************)
EXTENDS Naturals, FiniteSetsExt, Sequences, SequencesExt, Functions

CONSTANTS
  Names,         \* names of variables and parameters
  NoName,        \* a block without parameter
  Parameters,    \* the parameters that blocks are written with
  MaxEnvs,       \* bound: scopes made
  MaxDepth       \* bound: nested evaluations

ASSUME ScopesAssumption ==
  /\ NoName \notin Names /\ Parameters \subseteq Names \cup {NoName}
  /\ MaxEnvs \in Nat \ {0} /\ MaxDepth \in Nat

VARIABLES
  pc,            \* "prompt", "run", or "crashed"
  parent,        \* parent[e]: the scope around scope e, 0 for the global one
  variables,     \* variables[e]: what scope e itself defines
  alive,         \* the scopes that were not destroyed
  env,           \* Interpreter::env
  stack,         \* evaluations that are under way
  value,         \* the last value
  left           \* history: env is not the scope of the code that runs, as
                 \* an error or a Ctrl-C left a call without returning from it

vars == <<pc, parent, variables, alive, env, stack, value, left>>

Global == 1
Envs == 1 .. MaxEnvs
Made == 1 .. Len(parent)

\* Values: home 0 stands for everything that is not a block.
Value == [home : 0 .. MaxEnvs, param : Names \cup {NoName}]
Plain == [home |-> 0, param |-> NoName]
IsBlock(v) == v.home # 0

\* Evaluations: a call will return to scope `saved'; a definition or assignment
\* will store into `target'; the body of a block is evaluated inline; try.
CallFrame == [op : {"call"}, saved : Envs, scope : Envs, home : Envs, left : BOOLEAN]
StoreFrame == [op : {"define", "assign"}, target : Envs, name : Names]
InlineFrame == [op : {"inline"}, home : Envs]
TryFrame == [op : {"try"}]
Frame == CallFrame \cup StoreFrame \cup InlineFrame \cup TryFrame

On(ops) == stack # <<>> /\ Last(stack).op \in ops

NoVariables == [n \in {} |-> Plain]

Init ==
  /\ pc = "prompt"
  /\ parent = <<0>>
  /\ variables = <<NoVariables>>
  /\ alive = {Global}
  /\ env = Global
  /\ stack = <<>>
  /\ value = Plain
  /\ left = FALSE

-----------------------------------------------------------------------------
(* Env.                                                                    *)

\* The scopes Env::find walks from scope e.
Around(e) ==
  LET chain[d \in 0 .. e] == IF d = 0 THEN {} ELSE {d} \cup chain[parent[d]]
  IN  chain[e]

\* Env::find: the innermost scope that defines n, 0 if none does.
Holder(e, n) == Max({0} \cup {d \in Around(e) : n \in DOMAIN variables[d]})

\* Env::force_define
ForceDefine(d, name, v) ==
  [n \in DOMAIN d \cup {name} |-> IF n = name THEN v ELSE d[n]]

\* Scopes that a shared_ptr outside of scopes refers to: raw pointers, as the
\* targets of stores are, do not count.
Roots_NoSaved ==
  {Global, env, value.home}
    \cup UNION {IF f.op \in {"call", "inline"} THEN {f.home} ELSE {} : f \in Range(stack)}
Roots ==
  {Global, env, value.home}
    \cup UNION {IF f.op = "call" THEN {f.saved, f.home}
                ELSE IF f.op = "inline" THEN {f.home} ELSE {} : f \in Range(stack)}

\* Reference counts: after a step to parents p and variables v a scope is destroyed,
\* with its variables, when nothing that exists refers to it.
Kept(S, p, v) == \A e \in S :
  e \in Roots' \/ \E d \in S : p[d] = e \/ \E n \in DOMAIN v[d] : v[d][n].home = e

Scopes(p, v) ==
  /\ parent' = p
  /\ alive' = UNION {S \in SUBSET (alive \cup (DOMAIN p \ DOMAIN parent)) : Kept(S, p, v)}
  /\ variables' = [e \in DOMAIN p |-> IF e \in alive' THEN v[e] ELSE NoVariables]

SameScopes == Scopes(parent, variables)

\* Env::enter: a new scope inside scope e, which defines what d defines.
NewScope == Len(parent) + 1
Enter(e, d) ==
  /\ NewScope <= MaxEnvs
  /\ Scopes(Append(parent, e), Append(variables, d))

-----------------------------------------------------------------------------
(* Evaluation.                                                             *)

Run == pc = "run" /\ UNCHANGED pc
Push(f) == Len(stack) < MaxDepth /\ stack' = Append(stack, f)
Pop == stack' = Front(stack)

ReadLine ==
  /\ pc = "prompt" /\ pc' = "run"
  /\ UNCHANGED <<env, stack, value, left>>
  /\ SameScopes

FinishLine ==
  /\ pc = "run" /\ pc' = "prompt"
  /\ stack = <<>>
  /\ value' = Plain
  /\ UNCHANGED <<env, stack, left>>
  /\ SameScopes

Yields(v) ==
  /\ Run
  /\ value' = v
  /\ UNCHANGED <<env, stack, left>>
  /\ SameScopes

\* A literal, or a builtin's result.
Literal == Yields(Plain)

\* A block or lambda keeps the current scope.
MakeBlock(param) == Yields([home |-> env, param |-> param])

Variable(n) == Holder(env, n) # 0 /\ Yields(variables[Holder(env, n)][n])

\* name := ..., and name = ...: where to store is decided before the right side
\* is evaluated, and not counted as a reference.
StartDefine(n) ==
  /\ Run
  /\ Push([op |-> "define", target |-> env, name |-> n])
  /\ value' = Plain
  /\ UNCHANGED <<env, left>>
  /\ SameScopes

StartAssign(n) ==
  /\ Run
  /\ Holder(env, n) # 0
  /\ Push([op |-> "assign", target |-> Holder(env, n), name |-> n])
  /\ value' = Plain
  /\ UNCHANGED <<env, left>>
  /\ SameScopes

Store ==
  /\ Run
  /\ On({"define", "assign"})
  /\ Last(stack).target \in alive
  /\ value' = IF On({"define"}) THEN Plain ELSE value
  /\ Pop
  /\ UNCHANGED <<env, left>>
  /\ LET f == Last(stack) IN
     Scopes(parent, [variables EXCEPT ![f.target] = ForceDefine(@, f.name, value)])

\* A store into a scope that was destroyed.
StoreIntoNothing ==
  /\ pc = "run" /\ pc' = "crashed"
  /\ On({"define", "assign"})
  /\ Last(stack).target \notin alive
  /\ UNCHANGED <<env, stack, value, left>>
  /\ SameScopes

\* Block::operator() with an argument for its parameter.
Arguments == {Plain, [home |-> env, param |-> NoName]}

Call(arg) ==
  /\ Run
  /\ IsBlock(value)
  /\ env' = NewScope
  /\ Push([op |-> "call", saved |-> env, scope |-> env', home |-> value.home, left |-> left])
  /\ value' = Plain
  /\ left' = FALSE
  /\ Enter(value.home, IF value.param = NoName THEN NoVariables
                       ELSE ForceDefine(NoVariables, value.param, arg))

Return ==
  /\ Run
  /\ On({"call"})
  /\ env' = Last(stack).saved
  /\ left' = Last(stack).left
  /\ Pop
  /\ UNCHANGED <<value>>
  /\ SameScopes

\* Played or indexed blocks: the body is evaluated in the current scope.
Inline ==
  /\ Run
  /\ IsBlock(value)
  /\ Push([op |-> "inline", home |-> value.home])
  /\ value' = Plain
  /\ UNCHANGED <<env, left>>
  /\ SameScopes

StartTry ==
  /\ Run
  /\ Push([op |-> "try"])
  /\ value' = Plain
  /\ UNCHANGED <<env, left>>
  /\ SameScopes

Finish ==
  /\ Run
  /\ On({"inline", "try"})
  /\ Pop
  /\ UNCHANGED <<env, value, left>>
  /\ SameScopes

-----------------------------------------------------------------------------
(* Errors: every call on the way to the try returns, and restores its env. *)

Tries == {i \in DOMAIN stack : stack[i].op = "try"}
Catcher == Max({0} \cup Tries)
Unwound == {i \in DOMAIN stack : i > Catcher /\ stack[i].op = "call"}

Unwind ==
  /\ pc' = IF Tries = {} THEN "prompt" ELSE "run"
  /\ stack' = SubSeq(stack, 1, Max({0, Catcher - 1}))
  /\ value' = Plain

\* A missing variable, an error of a builtin.
Error_ForgetsScope ==
  /\ pc = "run"
  /\ Unwind
  /\ UNCHANGED <<env, left>>
  /\ SameScopes
Error ==
  /\ pc = "run"
  /\ Unwind
  /\ IF Unwound = {} THEN UNCHANGED <<env, left>>
     ELSE LET outermost == stack[Min(Unwound)] IN
          env' = outermost.saved /\ left' = outermost.left
  /\ SameScopes

\* Block::operator() without an argument for its parameter enters the scope and
\* returns the error from it; no call was pushed that would leave the scope.
WrongArity ==
  /\ pc = "run"
  /\ IsBlock(value) /\ value.param # NoName
  /\ Unwind
  /\ IF Unwound = {} THEN env' = NewScope /\ left' = TRUE /\ Enter(value.home, NoVariables)
     ELSE LET outermost == stack[Min(Unwound)] IN
          /\ env' = outermost.saved /\ left' = outermost.left
          /\ SameScopes

\* KeyboardInterrupt: no call returns, none restores its env.
Interrupt ==
  /\ pc = "run" /\ pc' = "prompt"
  /\ stack' = <<>>
  /\ value' = Plain
  /\ left' = (left \/ \E i \in DOMAIN stack : stack[i].op = "call")
  /\ UNCHANGED <<env>>
  /\ SameScopes

-----------------------------------------------------------------------------
Next ==
  \/ ReadLine \/ FinishLine
  \/ Literal
  \/ \E param \in Parameters : MakeBlock(param)
  \/ \E n \in Names : Variable(n) \/ StartDefine(n) \/ StartAssign(n)
  \/ Store \/ StoreIntoNothing
  \/ \E arg \in Arguments : Call(arg)
  \/ Return \/ Inline \/ StartTry \/ Finish
  \/ Error \/ WrongArity \/ Interrupt

Spec == Init /\ [][Next]_vars
-----------------------------------------------------------------------------
(* Properties.                                                             *)

\* Every variable has its type.
TypeOK ==
  /\ pc \in {"prompt", "run", "crashed"}
  /\ parent \in Seq(0 .. MaxEnvs)
  /\ variables \in Seq(UNION {[S -> Value] : S \in SUBSET Names})
  /\ Len(variables) = Len(parent)
  /\ alive \subseteq Made /\ env \in Made
  /\ stack \in Seq(Frame)
  /\ value \in Value
  /\ left \in BOOLEAN

\* The scope of the code that runs: the one its call made, or the global one.
ScopeAt(i) ==
  LET calls == {j \in 1 .. i : stack[j].op = "call"}
  IN  IF calls = {} THEN Global ELSE stack[Max(calls)].scope

\* Code runs in the scope of its own call, in whatever way the calls it made came
\* to their end: values, errors that a try caught anywhere, wrong arities below.
\* Only an error of arity of its own, or a Ctrl-C, may have left another scope, and
\* that ends when the call returns.
LexicalScope == ~left => env = ScopeAt(Len(stack))

\* When a right side is evaluated, the scope to store the value into still exists,
\* unless the code that stores has been left in another scope.
CallsAbove(i) == {j \in DOMAIN stack : j > i /\ stack[j].op = "call"}
LeftAt(i) == IF CallsAbove(i) = {} THEN left ELSE stack[Min(CallsAbove(i))].left
StoresIntoScope == \A i \in DOMAIN stack :
  stack[i].op \in {"define", "assign"} /\ ~LeftAt(i) => stack[i].target \in alive

\* The inductive invariant behind these.  Scopes are newer than their parents; a call
\* will return to the scope of the code that called, and runs in a scope of its own;
\* whatever a scope that lives, the interpreter or an evaluation refers to lives; and a
\* value is stored into a scope around the one the code that stores runs in.
ParentsAreOlder ==
  /\ Len(parent) \in 1 .. MaxEnvs
  /\ \A e \in Made : parent[e] < e

CallsReturnToCaller == \A i \in DOMAIN stack :
  stack[i].op = "call" =>
    /\ stack[i].scope \in Made /\ stack[i].saved \in Made
    /\ ~stack[i].left => stack[i].saved = ScopeAt(i - 1)

ReferencesLive ==
  /\ Roots \subseteq alive \cup {0}
  /\ \A e \in alive :
       /\ parent[e] \in alive \cup {0}
       /\ \A n \in DOMAIN variables[e] : variables[e][n].home \in alive \cup {0}

RunsIn(i) == IF CallsAbove(i) = {} THEN env ELSE stack[Min(CallsAbove(i))].saved
StoresGoAround == \A i \in DOMAIN stack :
  stack[i].op \in {"define", "assign"} /\ ~LeftAt(i) => stack[i].target \in Around(RunsIn(i))

IInv ==
  /\ TypeOK
  /\ ParentsAreOlder /\ CallsReturnToCaller /\ ReferencesLive /\ StoresGoAround
  /\ LexicalScope

\* Refuted (README, section 6).  A line is read in the global scope.
PromptIsGlobal == pc = "prompt" => env = Global

\* Refuted (README, section 6).  The body of a block that is played or indexed sees the
\* variables of the scope the block was made in.
BodySeesItsScope ==
  On({"inline"}) => \A n \in Names : Holder(env, n) = Holder(Last(stack).home, n)
=============================================================================
