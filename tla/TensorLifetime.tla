--------------------------- MODULE TensorLifetime ---------------------------
(***************************************************************************)
(* The life of a tensor in the Python runtime of the language.  The        *)
(* evaluator (src/frontend/integrated_computation_runtime.py) runs a       *)
(* program of calculations, function calls and for loops, and after every  *)
(* statement TensorRuntime.collect (src/frontend/tensor/runtime.py)        *)
(* releases each tensor that no root names.  The roots are the variables   *)
(* of the running frame, those of the callers that `protect` registered,   *)
(* and what the autograd tape refers to.                                   *)
(*                                                                         *)
(* A tensor is its id: shapes, element types and numbers are left out, and *)
(* every tensor is a scalar of a floating type.  The evaluator is          *)
(* sequential, so a statement is one step, except that a call in the       *)
(* middle of an expression and a for loop run other statements inside it.  *)
(***************************************************************************)
EXTENDS Integers, Sequences, SequencesExt, FiniteSets, Functions

CONSTANTS Vars,     \* the variable names a program uses
          Param,    \* the name of the one parameter of every function
          Results,  \* the names of the calculations
          MaxIds,   \* bound of the model: tensors ever allocated
          MaxLive,  \* TensorPolicy.max_live_tensors
          MaxNodes, \* TensorPolicy.max_autograd_nodes
          MaxDepth  \* max_call_depth

ASSUME Bounds == /\ Param \in Vars /\ Results \subseteq Vars
                 /\ {MaxIds, MaxLive, MaxNodes, MaxDepth} \subseteq Nat \ {0}

None == 0              \* no tensor: an unbound name, or a value without one
Dead == -1             \* a reference to a released tensor: ids are not used
                       \* again, so nothing tells two of them apart
Ids == 1 .. MaxIds

VARIABLES
  rt,           \* the TensorRuntime, see Runtime below
  frames,       \* evaluator frames, the outermost first: the variables env,
                \* the operand pending while a call runs, the loop's next value
  protected,    \* _protected_roots: the frames whose env is registered
  calculations, \* results of the finished calculations, by name
  error         \* the code of the error that ended the program, or "none"

vars == <<rt, frames, protected, calculations, error>>

\* _refs with the backend's values, _next_id, _grad_nodes (from a node's output
\* to the tensors it refers to), _autograd_roots, _requires_grad, _parameters;
\* and two histories: the parameters each tensor is computed from since the
\* tape was last cut, and whether a gradient ever was zeros for one of them.
Fresh == [refs |-> {}, next |-> 1, nodes |-> <<>>, roots |-> {}, tracked |-> {},
          params |-> {}, flow |-> [t \in Ids |-> {}], silentZero |-> FALSE]

Depth == Len(frames)
Top == frames[Depth]
Frame(env) == [env |-> env, pending |-> None, loop |-> None]
Unbound == [v \in Vars |-> None]

Init ==
  /\ rt = Fresh
  /\ frames = <<Frame(Unbound)>>
  /\ protected = <<>>
  /\ calculations = Unbound
  /\ error = "none"

-----------------------------------------------------------------------------
(***************************************************************************)
(* The runtime's operations: an outcome is the runtime they leave, the     *)
(* value they return and the error they raise.                             *)
(***************************************************************************)

Ok(r, t) == [rt |-> r, value |-> t, error |-> "none"]
Err(code) == [rt |-> Fresh, value |-> None, error |-> code]

\* A slip of New: the limit is tested after it is passed.
SlipNew(r) ==
  IF Cardinality(r.refs) > MaxLive THEN Err("TSF-013")
  ELSE Ok([r EXCEPT !.refs = @ \cup {r.next}, !.next = @ + 1], r.next)

\* _new refuses to go over the limit of live tensors.
New(r) ==
  IF Cardinality(r.refs) >= MaxLive THEN Err("TSF-013")
  ELSE Ok([r EXCEPT !.refs = @ \cup {r.next}, !.next = @ + 1], r.next)

\* A slip of Record: the output is not marked as tracked.
SlipRecord(r, output, inputs) ==
  IF inputs \cap r.tracked = {} THEN Ok(r, output)
  ELSE IF Cardinality(DOMAIN r.nodes) >= MaxNodes THEN Err("AD-005")
  ELSE Ok([r EXCEPT !.nodes = [t \in DOMAIN @ \cup {output} |->
                                 IF t = output THEN inputs ELSE @[t]],
                    !.roots = @ \cup inputs \cup {output}], output)

\* _record_autograd: an operation with a tracked input goes on the tape.
Record(r, output, inputs) ==
  IF inputs \cap r.tracked = {} THEN Ok(r, output)
  ELSE IF Cardinality(DOMAIN r.nodes) >= MaxNodes THEN Err("AD-005")
  ELSE Ok([r EXCEPT !.nodes = [t \in DOMAIN @ \cup {output} |->
                                 IF t = output THEN inputs ELSE @[t]],
                    !.roots = @ \cup inputs \cup {output},
                    !.tracked = @ \cup {output}], output)

\* A differentiable operation, dispatched by call: _tensor refuses a released
\* input, then the result is allocated and recorded.
Apply(r, inputs) ==
  LET new == New(r) IN
  IF ~(inputs \subseteq r.refs) THEN Err("TSF-018")
  ELSE IF new.error # "none" THEN new
  ELSE Record([new.rt EXCEPT !.flow[new.value] = UNION {r.flow[t] : t \in inputs}],
              new.value, inputs)

\* The tensors the tape reaches from t, t included.
Below(r, t) ==
  LET down[s \in Ids] ==
        {s} \cup (IF s \in DOMAIN r.nodes THEN UNION {down[q] : q \in r.nodes[s]} ELSE {})
  IN  down[t]

TapeRoots(nodes) == DOMAIN nodes \cup UNION {nodes[s] : s \in DOMAIN nodes}

\* A slip of DropGraph: the roots of the dropped nodes stay.
SlipDropGraph(r, t) ==
  LET kept == [s \in DOMAIN r.nodes \ Below(r, t) |-> r.nodes[s]]
  IN  [r EXCEPT !.nodes = kept, !.tracked = r.params \cup DOMAIN kept]

\* _drop_graph: every node below t goes, whoever else refers to it.
DropGraph(r, t) ==
  LET kept == [s \in DOMAIN r.nodes \ Below(r, t) |-> r.nodes[s]]
  IN  [r EXCEPT !.nodes = kept, !.roots = TapeRoots(kept),
                !.tracked = r.params \cup DOMAIN kept]

\* What a cut leaves of the history: a parameter is computed from itself.
CutFlow(ps) == [t \in Ids |-> {t} \cap ps]

\* tensor.detach and tensor.parameter: cut the graph of the argument and copy
\* its values into a new tensor, which parameter tracks.
Copy(r, t, asParameter) ==
  LET new == New(DropGraph(r, t))
      as == IF asParameter THEN {new.value} ELSE {}
  IN  IF t \notin r.refs THEN Err("TSF-018")
      ELSE IF new.error # "none" THEN new
      ELSE Ok([new.rt EXCEPT !.tracked = @ \cup as, !.params = @ \cup as,
                             !.flow = CutFlow(r.params \cup as)], new.value)

\* tensor.grad(loss, [p]): walk the tape down from the loss, give the
\* parameters the walk does not meet zeros, and clear the tape.
Grad(r, loss, p) ==
  LET walked == Below(r, loss) \cap DOMAIN r.nodes
      loaded == walked \cup UNION {r.nodes[s] : s \in walked}
      new == New(r)
  IN  IF ~({loss, p} \subseteq r.refs) THEN Err("TSF-018")
      ELSE IF p \notin r.tracked THEN Err("AD-003")
      ELSE IF ~(loaded \subseteq r.refs) THEN Err("TSF-018")
      ELSE IF new.error # "none" THEN new
      ELSE Ok([new.rt EXCEPT
                 !.nodes = <<>>, !.roots = {},
                 !.params = @ \cap new.rt.refs, !.tracked = r.params \cap new.rt.refs,
                 !.flow = CutFlow(r.params),
                 !.silentZero = @ \/ (p \in r.flow[loss] \ Below(r, loss))],
              new.value)

\* The tensors a statement of the running frame can name, and the inputs it can
\* give to an operation.
Operands == {Top.env[v] : v \in Vars} \ {None}
Inputs == {{t, u} : t, u \in Operands}

\* The outcomes of the expressions a statement evaluates in one go: a
\* constructor, an operation, detach or parameter, and grad.
Outcomes ==
  {New(rt)} \cup {Apply(rt, inputs) : inputs \in Inputs}
            \cup {Copy(rt, t, FALSE) : t \in Operands}
            \cup {Copy(rt, t, TRUE) : t \in Operands}
            \cup {Grad(rt, pair[1], pair[2]) : pair \in Operands \X Operands}

-----------------------------------------------------------------------------
(***************************************************************************)
(* The garbage collector and the ends of statements.                       *)
(***************************************************************************)

BoundIn(env) == {env[v] : v \in Vars} \cap Ids

\* A slip of Reachable: only the nearest caller is protected.
SlipReachable(r, env, fs, prot) ==
  BoundIn(env) \cup (IF prot = <<>> THEN {} ELSE BoundIn(fs[Last(prot)].env)) \cup r.roots

\* What collect reaches: the environment it is called with, the protected
\* ones, and the tape.
Reachable(r, env, fs, prot) ==
  BoundIn(env) \cup r.roots \cup UNION {BoundIn(fs[prot[i]].env) : i \in DOMAIN prot}

\* collect, at the end of a statement that leaves the frames fs: unreachable
\* tensors are released, and what refers to them dangles.
Collect(r, env, fs, prot) ==
  LET kept == r.refs \cap Reachable(r, env, fs, prot)
      Now(t) == IF t \in r.refs \ kept THEN Dead ELSE t
  IN  /\ rt' = [r EXCEPT !.refs = kept, !.tracked = @ \cap kept, !.params = @ \cap kept,
                         !.flow = [t \in Ids |-> IF t \in kept THEN @[t] ELSE {}]]
      /\ frames' = [i \in DOMAIN fs |->
                      [env |-> [v \in Vars |-> Now(fs[i].env[v])],
                       pending |-> Now(fs[i].pending), loop |-> Now(fs[i].loop)]]
      /\ protected' = prot

\* A TensorError leaves the evaluator and ends the program: execute_program
\* raises, and the runtime and everything else of the program goes with it.
Fail(code) ==
  /\ error' = code
  /\ rt' = [Fresh EXCEPT !.silentZero = rt.silentZero]
  /\ frames' = <<>> /\ protected' = <<>> /\ calculations' = Unbound

Discard == "_"    \* the target of an expression statement, which binds nothing

\* The end of the statement `target = expression` in the frame on top of fs.
EndStatement(outcome, fs, prot, target) ==
  LET top == Len(fs)
      env == [v \in Vars |-> IF v = target THEN outcome.value ELSE fs[top].env[v]]
  IN  IF outcome.error # "none" THEN Fail(outcome.error)
      ELSE /\ Collect(outcome.rt, env, [fs EXCEPT ![top].env = env], prot)
           /\ UNCHANGED <<calculations, error>>

Running == error = "none" /\ rt.next \in Ids

\* A let, an assignment or an expression statement without a call.
Statement(target) ==
  /\ Running
  /\ \E outcome \in Outcomes : EndStatement(outcome, frames, protected, target)

\* A statement whose expression is a call, or an operation on a temporary and
\* a call: the temporary is evaluated first and waits in a local of the
\* evaluator while the body runs, with the caller's variables protected.
Call(v, withTemporary) ==
  /\ Running /\ Top.env[v] # None
  /\ LET new == IF withTemporary THEN New(rt) ELSE Ok(rt, None) IN
     IF new.error # "none" THEN Fail(new.error)
     ELSE IF Depth > MaxDepth THEN Fail("RT-CALL-003")
     ELSE /\ rt' = new.rt
          /\ frames' = Append([frames EXCEPT ![Depth].pending = new.value],
                              Frame([Unbound EXCEPT ![Param] = Top.env[v]]))
          /\ protected' = Append(protected, Depth)
          /\ UNCHANGED <<calculations, error>>

\* return leaves the body without a collect, protect's exit unregisters the
\* caller, and the caller's statement goes on to its end.
Return(v, target) ==
  /\ error = "none" /\ Depth > 1 /\ Top.env[v] # None
  /\ LET pending == frames[Depth - 1].pending
         outcome == IF pending = None THEN Ok(rt, Top.env[v])
                    ELSE Apply(rt, {pending, Top.env[v]})
     IN  /\ pending # None => rt.next \in Ids
         /\ EndStatement(outcome, [Front(frames) EXCEPT ![Depth - 1].pending = None],
                         Front(protected), target)

\* for v in [w, temporary]: the evaluated list is a local of the evaluator,
\* and the body's statements run between its two elements.  Bound of the
\* model: only a calculation's own body has a loop, not a function's.
ForStart(v, w) ==
  /\ Running /\ Depth = 1 /\ Top.loop = None /\ Top.env[w] # None
  /\ LET new == New(rt) IN
     IF new.error # "none" THEN Fail(new.error)
     ELSE /\ rt' = new.rt
          /\ frames' = [frames EXCEPT ![Depth].env[v] = Top.env[w],
                                      ![Depth].loop = new.value]
          /\ UNCHANGED <<protected, calculations, error>>

ForNext(v) ==
  /\ error = "none" /\ Top.loop # None
  /\ frames' = [frames EXCEPT ![Depth].env[v] = Top.loop, ![Depth].loop = None]
  /\ UNCHANGED <<rt, protected, calculations, error>>

\* result: the calculation's value is kept under its name, the rest is
\* collected, and the next calculation starts with the results as variables.
\* Bound of the model: the calculations of a program have distinct names.
Result(name, v) ==
  /\ error = "none" /\ Depth = 1 /\ Top.env[v] # None
  /\ calculations[name] = None
  /\ calculations' = [calculations EXCEPT ![name] = Top.env[v]]
  /\ Collect(rt, calculations', <<Frame(calculations')>>, protected)
  /\ UNCHANGED error

\* A calculation without a result statement ends after its last one.
NoResult ==
  /\ error = "none" /\ Depth = 1 /\ Top.loop = None
  /\ Collect(rt, calculations, <<Frame(calculations)>>, protected)
  /\ UNCHANGED <<calculations, error>>

Next ==
  \/ \E target \in Vars \cup {Discard} : Statement(target)
  \/ \E v \in Vars, b \in BOOLEAN : Call(v, b)
  \/ \E v \in Vars, target \in Vars \cup {Discard} : Return(v, target)
  \/ \E v, w \in Vars : ForStart(v, w)
  \/ \E v \in Vars : ForNext(v)
  \/ \E name \in Results, v \in Vars : Result(name, v)
  \/ NoResult

Spec == Init /\ [][Next]_vars

-----------------------------------------------------------------------------
(***************************************************************************)
(* Properties.                                                             *)
(***************************************************************************)

Values == Ids \cup {None, Dead}

\* The state of the runtime and of the evaluator is well formed, and the limit
\* of live tensors is kept.
TypeOK ==
  /\ rt.next \in 1 .. MaxIds + 1 /\ rt.refs \subseteq 1 .. rt.next - 1
  /\ Cardinality(rt.refs) <= MaxLive /\ Cardinality(DOMAIN rt.nodes) <= MaxNodes
  /\ \A t \in DOMAIN rt.nodes : t \in Ids /\ rt.nodes[t] \subseteq 1 .. t - 1
  /\ rt.silentZero \in BOOLEAN /\ \A t \in Ids : rt.flow[t] \subseteq 1 .. t
  /\ \A i \in DOMAIN frames : /\ frames[i].env \in [Vars -> Values]
                              /\ {frames[i].pending, frames[i].loop} \subseteq Values
  /\ Len(frames) <= MaxDepth + 1
  /\ protected = [i \in 1 .. Len(frames) - 1 |-> i]
  /\ calculations \in [Vars -> Values]
  /\ error \in {"none", "TSF-013", "TSF-018", "AD-003", "AD-005", "RT-CALL-003"}

\* The tape never refers to a released tensor, its roots are exactly what its
\* nodes refer to, and what is tracked is a live parameter or a tape node:
\* statement ends, calls, cuts and gradients in any order keep collect, which
\* knows only the roots, from releasing an input that the walk of a later grad
\* loads.
TapeIsLive ==
  /\ rt.roots = TapeRoots(rt.nodes)
  /\ rt.roots \subseteq rt.refs
  /\ rt.tracked = rt.params \cup DOMAIN rt.nodes
  /\ rt.params \subseteq rt.refs

\* No caller loses a variable to its callees: the tensors bound in a frame
\* that stays suspended stay live, however deep the calls are and however many
\* statements and returns collect and unregister roots meanwhile.
BoundValuesStayAlive ==
  [][\A i \in DOMAIN frames \cap DOMAIN frames' : i < Len(frames) /\ i < Len(frames') =>
        \A v \in Vars : frames[i].env[v] \in Ids => frames'[i].env[v] = frames[i].env[v]]_vars

\* Within one training step -- no detach, parameter or grad between the first
\* operation the loss is computed from and the grad -- a parameter the loss
\* depends on is never silently answered with zeros.
FreshGradientsAreComplete == ~rt.silentZero

\* What the docstring of protect says: caller-owned values stay alive while a
\* nested scope is evaluated.  A caller owns its variables and the operand of
\* the expression that the call is part of.
CallerOwnedValuesStayAlive ==
  \A i \in 1 .. Len(frames) - 1 : frames[i].pending # Dead
=============================================================================
