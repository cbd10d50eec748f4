------------------------------ MODULE StateTrace ------------------------------
(***************************************************************************)
(* The delta trace of the computation VM (computation-ir: state_trace.rs,  *)
(* and the calls vm.rs makes to it).                                       *)
(*                                                                         *)
(* Every frame of a function that has a loop carries a copy of its         *)
(* variables in JSON.  The copy is never recomputed: an assignment         *)
(* replaces one root of it, and a write into an array or a struct is sent  *)
(* to every frame, which replaces the places where its alias index says    *)
(* that container can be reached.  A loop boundary emits the changes since *)
(* the last one with a hash before and a hash after.  A reader of the      *)
(* journal rebuilds the states from the first event's checkpoint.          *)
(*                                                                         *)
(* Data are cut down to what tells these apart: an integer, a struct with  *)
(* one mutable integer field (a row) and an array of rows (a table).  The  *)
(* identity of a container is its address, so a container that no frame    *)
(* holds any more is freed and its address may be used again.              *)
(***************************************************************************)
EXTENDS Integers, Sequences, FiniteSets, SequencesExt

CONSTANTS
    Names,       \* variables of a function, visible in its trace
    Results,     \* those that are results of earlier calculations
    Params,      \* those that are parameters of a function that is called
    Rows,        \* addresses at which a struct can live
    Tables,      \* addresses at which an array can live
    Ints,        \* the integers a field holds
    Scalars,     \* the integers a variable holds
    MaxLength,   \* longest array
    MaxFrames,   \* deepest call
    MaxNest,     \* deepest nest of traced loops
    MaxChanges,  \* changes between two events of a frame
    MaxSteps     \* longest program

ASSUME SizesAssumption ==
    /\ IsFiniteSet(Names) /\ Rows \cap Tables = {}
    /\ Results \subseteq Names
    /\ Params \subseteq Names
    /\ Scalars \subseteq Ints
    /\ Ints \subseteq Nat
    /\ {MaxLength, MaxFrames, MaxNest, MaxChanges, MaxSteps} \subseteq Nat \ {0}

VARIABLES
    heap,     \* contents of the live containers, by address
    frames,   \* the active frames, the running one last
    event,    \* the event the last step emitted, if it did
    steps     \* how many steps the program has taken

vars == <<heap, frames, event, steps>>

-----------------------------------------------------------------------------
(* Values and their JSON.                                                  *)

Num(n) == <<"int", n>>
Row(r) == <<"row", r>>
Unset == <<"unset", 0>>
IsContainer(v) == v[1] \in {"row", "table"}
Values ==
    {Num(n) : n \in Scalars} \cup {Row(r) : r \in Rows} \cup {<<"table", t>> : t \in Tables}

\* An object stands for the struct with its one field; NoField is the object
\* a reader has added, or is about to remove, without its field.
NoField == -1
ObjectOf(h, r) == <<"object", h[r]>>

ToJson(h, v) ==
    CASE v[1] = "int" -> v
      [] v[1] = "row" -> ObjectOf(h, v[2])
      [] v[1] = "table" ->
            <<"array", [i \in 1 .. Len(h[v[2]]) |-> ObjectOf(h, h[v[2]][i])]>>

\* A path is a variable, the index of an item where the variable is a table,
\* and whether it goes on to the field: pointer_mut and pointer of a JSON value.
\* A suffix has no variable.
Whole == -1
Root(x) == [root |-> x, index |-> Whole, field |-> FALSE]
ToItem(i) == [index |-> i - 1, field |-> FALSE]
ToField == [index |-> Whole, field |-> TRUE]
Extended(p, suffix) ==
    [root |-> p.root, field |-> suffix.field,
     index |-> IF suffix.index = Whole THEN p.index ELSE suffix.index]
Item(p, i) == Extended(p, ToItem(i))
Field(p) == Extended(p, ToField)

Node(s, p) == IF p.index = Whole THEN s[p.root] ELSE s[p.root][2][p.index + 1]
At(s, p) == IF p.field THEN Num(Node(s, p)[2]) ELSE Node(s, p)

SetRoot(s, x, j) == [y \in DOMAIN s \cup {x} |-> IF y = x THEN j ELSE s[y]]
PutNode(s, p, j) ==
    IF p.index = Whole THEN SetRoot(s, p.root, j)
    ELSE [s EXCEPT ![p.root][2][p.index + 1] = j]
Put(s, p, j) == PutNode(s, p, IF p.field THEN <<"object", j[2]>> ELSE j)

-----------------------------------------------------------------------------
(* The hash of a state: the exclusive or of its leaves' hashes is the      *)
(* symmetric difference of the sets of leaves.                             *)

Xor(a, b) == (a \ b) \cup (b \ a)

HashObject(p, j) ==
    {<<p, <<"object", 0>>>>} \cup
    (IF j[2] = NoField THEN {} ELSE {<<Field(p), Num(j[2])>>})

HashTree(p, j) ==
    CASE j[1] = "int" -> {<<p, j>>}
      [] j[1] = "object" -> HashObject(p, j)
      [] j[1] = "array" ->
            {<<p, <<"array", Len(j[2])>>>>} \cup
            UNION {HashObject(Item(p, i), j[2][i]) : i \in 1 .. Len(j[2])}
      [] j[1] = "unset" -> {}

HashState(s) == UNION {HashTree(Root(x), s[x]) : x \in DOMAIN s}

-----------------------------------------------------------------------------
(* diff: the changes that turn one value into another, in the order a      *)
(* reader applies them.  Containers come and go empty.                     *)

Change(op, p, old, new) == [op |-> op, path |-> p, old |-> old, new |-> new]

AddObject(p, j) ==
    << Change("add", p, Unset, <<"object", NoField>>),
       Change("add", Field(p), Unset, Num(j[2])) >>
RemoveObject(p, j) ==
    << Change("remove", Field(p), Num(j[2]), Unset),
       Change("remove", p, <<"object", NoField>>, Unset) >>
ReplaceInt(p, m, n) ==
    IF m = n THEN <<>> ELSE << Change("replace", p, Num(m), Num(n)) >>

\* The items of a table: those after the first n come, the last first go, and
\* the first n change.
AddItems(p, items, n) ==
    FlattenSeq([i \in 1 .. Len(items) - n |-> AddObject(Item(p, n + i), items[n + i])])
RemoveItems(p, items, n) ==
    FlattenSeq([i \in 1 .. Len(items) - n |->
                  RemoveObject(Item(p, Len(items) - i + 1), items[Len(items) - i + 1])])
ReplaceItems(p, a, b, n) ==
    FlattenSeq([i \in 1 .. n |-> ReplaceInt(Field(Item(p, i)), a[i][2], b[i][2])])

AddTree(p, j) ==
    CASE j[1] = "unset" -> <<>>
      [] j[1] = "int" -> << Change("add", p, Unset, j) >>
      [] j[1] = "object" -> AddObject(p, j)
      [] j[1] = "array" ->
            << Change("add", p, Unset, <<"array", <<>>>>) >> \o AddItems(p, j[2], 0)

RemoveTree(p, j) ==
    CASE j[1] = "unset" -> <<>>
      [] j[1] = "int" -> << Change("remove", p, j, Unset) >>
      [] j[1] = "object" -> RemoveObject(p, j)
      [] j[1] = "array" ->
            RemoveItems(p, j[2], 0) \o << Change("remove", p, <<"array", <<>>>>, Unset) >>

DiffArrays(p, a, b) ==
    LET both == IF Len(a) < Len(b) THEN Len(a) ELSE Len(b)
    IN  ReplaceItems(p, a, b, both) \o RemoveItems(p, a, both) \o AddItems(p, b, both)

Diff(p, old, new) ==
    IF old[1] # new[1] THEN RemoveTree(p, old) \o AddTree(p, new)
    ELSE CASE old[1] = "int" -> ReplaceInt(p, old[2], new[2])
           [] old[1] = "object" -> ReplaceInt(Field(p), old[2], new[2])
           [] old[1] = "array" -> DiffArrays(p, old[2], new[2])

-----------------------------------------------------------------------------
(* The reader of a journal: what the test-suite's verify_trace does with   *)
(* the events of a frame.                                                  *)

Broken == [x \in {"broken"} |-> Unset]

Exists(s, p) ==
    /\ p.root \in DOMAIN s
    /\ p.index # Whole => s[p.root][1] = "array" /\ p.index < Len(s[p.root][2])

Drop(s, p) ==
    CASE p.field -> PutNode(s, p, <<"object", NoField>>)
      [] ~p.field /\ p.index # Whole -> [s EXCEPT ![p.root][2] = RemoveAt(@, p.index + 1)]
      [] OTHER -> [y \in DOMAIN s \ {p.root} |-> s[y]]

Insert(s, p, j) ==
    IF p.field \/ p.index = Whole THEN Put(s, p, j)
    ELSE [s EXCEPT ![p.root][2] = InsertAt(@, p.index + 1, j)]

Apply(s, c) ==
    CASE s = Broken -> Broken
      [] c.op = "add" -> Insert(s, c.path, c.new)
      [] c.op # "add" /\ (~Exists(s, c.path) \/ At(s, c.path) # c.old) -> Broken
      [] OTHER -> IF c.op = "remove" THEN Drop(s, c.path) ELSE Put(s, c.path, c.new)

Replay(s, changes) ==
    LET read[n \in 0 .. Len(changes)] ==
            IF n = 0 THEN s ELSE Apply(read[n - 1], changes[n])
    IN  read[Len(changes)]

-----------------------------------------------------------------------------
(* TraceState.  "on" is whether the frame has one, "begun" whether         *)
(* previous_hash is set, "seen" whether previous_event_id is; "reader" is  *)
(* the state a reader of the journal has rebuilt for this frame.           *)

NoTrace == [on |-> FALSE, state |-> << >>, digest |-> {}, aliases |-> {},
            loops |-> 0, begun |-> FALSE, previous |-> {}, changes |-> << >>,
            seen |-> FALSE, reader |-> << >>]

\* The containers inside a value at a path, each with its own path.
Inside(h, v, p) ==
    IF v[1] # "table" THEN {}
    ELSE {<<h[v[2]][i], Item(p, i)>> : i \in 1 .. Len(h[v[2]])}

Register(aliases, h, v, p) ==
    IF ~IsContainer(v) \/ <<v[2], p>> \in aliases THEN aliases
    ELSE aliases \cup {<<v[2], p>>} \cup Inside(h, v, p)

Unregister(aliases, h, v, p) ==
    IF ~IsContainer(v) \/ <<v[2], p>> \notin aliases THEN aliases
    ELSE aliases \ ({<<v[2], p>>} \cup Inside(h, v, p))

\* Slip: changes are kept only inside a loop, not between two loops.
SlipReplace(ts, p, j) ==
    LET old == IF p = Root(p.root) /\ p.root \notin DOMAIN ts.state THEN Unset ELSE At(ts.state, p)
    IN  IF old = j THEN ts
        ELSE [ts EXCEPT
                !.state = Put(@, p, j),
                !.digest = Xor(@, Xor(HashTree(p, old), HashTree(p, j))),
                !.changes = IF ts.loops > 0 THEN @ \o Diff(p, old, j) ELSE @]

Replace(ts, p, j) ==
    LET old == IF p = Root(p.root) /\ p.root \notin DOMAIN ts.state THEN Unset ELSE At(ts.state, p)
    IN  IF old = j THEN ts
        ELSE [ts EXCEPT
                !.state = Put(@, p, j),
                !.digest = Xor(@, Xor(HashTree(p, old), HashTree(p, j))),
                !.changes = IF ts.begun THEN @ \o Diff(p, old, j) ELSE @]

\* Slip: the value that leaves the place keeps its paths.
SlipRewrite(ts, h, p, old, v) ==
    LET put == Replace(ts, p, ToJson(h, v))
    IN  [put EXCEPT !.aliases = Register(@, h, v, p)]

\* What assign and one path of mutation have in common: the place p held old
\* and now holds v.
Rewrite(ts, h, p, old, v) ==
    LET cut == [ts EXCEPT !.aliases = Unregister(@, h, old, p)]
        put == Replace(cut, p, ToJson(h, v))
    IN  [put EXCEPT !.aliases = Register(@, h, v, p)]

TraceAssign(ts, h, x, old, v) == IF ts.on THEN Rewrite(ts, h, Root(x), old, v) ELSE ts

PathsOf(ts, c) == {a[2] : a \in {b \in ts.aliases : b[1] = c}}

\* The values at some paths change from old to new, one after the other.
RewriteAll(ts, h, old, new) ==
    LET paths == SetToSeq(DOMAIN new)
        after[n \in 0 .. Len(paths)] ==
            IF n = 0 THEN ts
            ELSE Rewrite(after[n - 1], h, paths[n], old[paths[n]], new[paths[n]])
    IN  after[Len(paths)]

Mutation(ts, h, c, suffix, old, v) ==
    LET paths == {Extended(p, suffix) : p \in PathsOf(ts, c)}
    IN  RewriteAll(ts, h, [p \in paths |-> old], [p \in paths |-> v])

\* TraceState::new.
NewTrace(h, env) ==
    LET paths == {Root(x) : x \in DOMAIN env}
    IN  RewriteAll([NoTrace EXCEPT !.on = TRUE], h,
                   [p \in paths |-> Unset], [p \in paths |-> env[p.root]])

Begin(ts) == [ts EXCEPT !.begun = TRUE, !.loops = @ + 1,
                        !.previous = IF ts.begun THEN @ ELSE ts.digest]

\* flush, and the reader's side of it.
Flush(ts) == [ts EXCEPT !.previous = ts.digest, !.changes = << >>, !.seen = TRUE,
                        !.reader = IF ts.seen THEN Replay(@, ts.changes) ELSE ts.state]
End(ts) == [Flush(ts) EXCEPT !.loops = @ - 1]

-----------------------------------------------------------------------------
(* Frames.  "arm" is the binding of a match arm whose guard is still being *)
(* evaluated, with the value it covers: it is in the frame and not yet in  *)
(* the trace.                                                              *)

NoEvent == [kind |-> "none", first |-> FALSE, checkpoint |-> FALSE]
Frame(env, ts) == [env |-> env, arm |-> << >>, trace |-> ts]

Top == frames[Len(frames)]
Running == frames # << >>
Between == Running /\ Top.arm = << >>     \* an instruction of the frame can run

\* Values an expression of a frame can denote: integers, the variables and
\* the elements of the arrays they hold.
Elements(h, v) == IF v[1] = "table" THEN {Row(r) : r \in Range(h[v[2]])} ELSE {}
Bound(f) == Range(f.env)
Operands(f) ==
    {Num(n) : n \in Scalars} \cup Bound(f) \cup UNION {Elements(heap, v) : v \in Bound(f)}
RowsAtHand(f) == {r \in Rows : Row(r) \in Operands(f)}

\* Rc: what no frame reaches is freed.
SlipHeldBy(f) == Range(f.env)   \* Slip: the value an arm covers is dropped.
HeldBy(f) == Range(f.env) \cup (IF f.arm = << >> THEN {} ELSE {f.arm[2]})
Live(h, fs) ==
    LET held == {v[2] : v \in {w \in UNION {HeldBy(fs[i]) : i \in DOMAIN fs} : IsContainer(w)}}
    IN  held \cup UNION {Range(h[t]) : t \in held \cap Tables}
Free(S) == S \ DOMAIN heap

Goto(h, fs, e) ==
    /\ \A i \in DOMAIN fs : Len(fs[i].trace.changes) <= MaxChanges
    /\ heap' = [c \in Live(h, fs) |-> h[c]]
    /\ frames' = fs
    /\ event' = e
    /\ steps < MaxSteps
    /\ steps' = steps + 1

With(h, c, contents) == [d \in DOMAIN h \cup {c} |-> IF d = c THEN contents ELSE h[d]]
Old(f, x) == IF x \in DOMAIN f.env THEN f.env[x] ELSE Unset

\* Assign: the trace first, with the value the variable still holds.
Assigned(f, h, x, v) ==
    [f EXCEPT !.trace = TraceAssign(@, h, x, Old(f, x), v), !.env = SetRoot(@, x, v)]

SetTop(f) == [frames EXCEPT ![Len(frames)] = f]

\* A calculation that has a loop, with the results of the earlier ones.
Init ==
    /\ event = NoEvent
    /\ steps = 0
    /\ \E field \in [Rows -> Ints],
          items \in [Tables -> BoundedSeq(Rows, MaxLength) \ {<< >>}] :
         \E env \in [Results -> Values] :
            LET all == [c \in Rows \cup Tables |-> IF c \in Rows THEN field[c] ELSE items[c]]
                h == [c \in Live(all, <<Frame(env, NoTrace)>>) |-> all[c]]
            IN  /\ heap = h
                /\ frames = << Frame(env, NewTrace(h, env)) >>

Assign(x) ==
    /\ Between
    /\ \E v \in Operands(Top) : Goto(heap, SetTop(Assigned(Top, heap, x, v)), NoEvent)

AssignNewRow(x) ==
    /\ Between
    /\ \E r \in Free(Rows), n \in Ints :
         LET h == With(heap, r, n) IN Goto(h, SetTop(Assigned(Top, h, x, Row(r))), NoEvent)

AssignNewTable(x) ==
    /\ Between
    /\ \E t \in Free(Tables), k \in 1 .. MaxLength :
         \E items \in [1 .. k -> RowsAtHand(Top)] :
            LET h == With(heap, t, items)
            IN  Goto(h, SetTop(Assigned(Top, h, x, <<"table", t>>)), NoEvent)

\* Slip: like an assignment, a write is sent to the running frame only.
SlipMutated(c, suffix, old, v) ==
    SetTop([Top EXCEPT !.trace = Mutation(@, heap, c, suffix, old, v)])

\* trace_mutation: every frame that has a trace, before the write itself.
Mutated(c, suffix, old, v) ==
    [i \in DOMAIN frames |->
        [frames[i] EXCEPT !.trace = Mutation(@, heap, c, suffix, old, v)]]

IndexAssign ==
    /\ Between
    /\ \E v \in Bound(Top), r \in RowsAtHand(Top) :
         /\ v[1] = "table"
         /\ \E i \in DOMAIN heap[v[2]] :
              Goto([heap EXCEPT ![v[2]][i] = r],
                   Mutated(v[2], ToItem(i), Row(heap[v[2]][i]), Row(r)), NoEvent)

FieldAssign ==
    /\ Between
    /\ \E r \in RowsAtHand(Top), n \in Ints :
         Goto([heap EXCEPT ![r] = n], Mutated(r, ToField, Num(heap[r]), Num(n)), NoEvent)

\* TraceLoopStart and TraceLoopEnd only occur in functions that are traced.
TraceLoopStart ==
    /\ Between
    /\ Top.trace.on
    /\ Top.trace.loops < MaxNest
    /\ Goto(heap, SetTop([Top EXCEPT !.trace = Begin(@)]), NoEvent)

\* The first event of a frame carries a checkpoint.  (A checkpoint interval of
\* 0: no periodic ones, which change nothing a reader rebuilds.)
TraceLoopEnd ==
    /\ Between
    /\ Top.trace.loops > 0
    /\ Goto(heap, SetTop([Top EXCEPT !.trace = End(@)]),
            [kind |-> "loop", first |-> ~Top.trace.seen, checkpoint |-> ~Top.trace.seen])

\* A call is an expression: of an instruction, or of the guard of a match arm.
Call(traceable) ==
    /\ Running
    /\ Len(frames) < MaxFrames
    /\ \E env \in [Params -> Operands(Top)] :
         Goto(heap,
              Append(frames, Frame(env, IF traceable THEN NewTrace(heap, env) ELSE NoTrace)),
              NoEvent)

\* finish_trace: an event for the writes after the last boundary.
Finish(ts) ==
    IF ts.begun /\ ts.changes # << >>
    THEN [kind |-> "final", first |-> ~ts.seen, checkpoint |-> FALSE]
    ELSE NoEvent

\* Return ends the frame, also from inside a loop.  The caller drops the value,
\* or it is the right-hand side of an assignment.
Return ==
    /\ Between
    /\ Goto(heap, Front(frames), Finish(Top.trace))

ReturnInto(x) ==
    /\ Between
    /\ Len(frames) > 1
    /\ frames[Len(frames) - 1].arm = << >>
    /\ \E v \in Operands(Top) :
         LET caller == frames[Len(frames) - 1]
         IN  Goto(heap,
                  [i \in 1 .. Len(frames) - 1 |->
                     IF i < Len(frames) - 1 THEN frames[i] ELSE Assigned(caller, heap, x, v)],
                  Finish(Top.trace))

\* Terminator::Match: the arm's variable is bound before its guard runs, traced
\* once the guard holds and put back when it does not.
BindArm(x) ==
    /\ Between
    /\ \E v \in Operands(Top) :
         Goto(heap,
              SetTop([Top EXCEPT !.env = SetRoot(@, x, v), !.arm = <<x, Old(Top, x)>>]),
              NoEvent)

GuardHolds ==
    /\ Running
    /\ Top.arm # << >>
    /\ LET x == Top.arm[1]
       IN  Goto(heap,
                SetTop([Top EXCEPT !.arm = << >>,
                          !.trace = TraceAssign(@, heap, x, Top.arm[2], Top.env[x])]),
                NoEvent)

Uncovered(f) ==
    IF f.arm = << >> THEN f.env
    ELSE IF f.arm[2] = Unset
         THEN [y \in DOMAIN f.env \ {f.arm[1]} |-> f.env[y]]
         ELSE [f.env EXCEPT ![f.arm[1]] = f.arm[2]]

GuardFails ==
    /\ Running
    /\ Top.arm # << >>
    /\ Goto(heap, SetTop([Top EXCEPT !.arm = << >>, !.env = Uncovered(Top)]), NoEvent)

Done == (~Running \/ steps = MaxSteps) /\ UNCHANGED vars

Next ==
    \/ \E x \in Names : Assign(x) \/ AssignNewRow(x) \/ AssignNewTable(x)
    \/ IndexAssign
    \/ FieldAssign
    \/ TraceLoopStart
    \/ TraceLoopEnd
    \/ \E traceable \in BOOLEAN : Call(traceable)
    \/ Return
    \/ \E x \in Names : ReturnInto(x) \/ BindArm(x)
    \/ GuardHolds
    \/ GuardFails
    \/ Done

Spec == Init /\ [][Next]_vars

-----------------------------------------------------------------------------
(* Properties.                                                             *)

Traced == {i \in DOMAIN frames : frames[i].trace.on}

\* The heap holds exactly what the frames reach, and every variable and every
\* binding a match arm covers is a value whose container is live.
TypeOK ==
    /\ DOMAIN heap = Live(heap, frames)
    /\ \A c \in DOMAIN heap :
         IF c \in Rows THEN heap[c] \in Ints
         ELSE c \in Tables /\ heap[c] \in BoundedSeq(Rows \cap DOMAIN heap, MaxLength)
    /\ Len(frames) <= MaxFrames
    /\ \A i \in DOMAIN frames :
         /\ DOMAIN frames[i].env \subseteq Names
         /\ Range(frames[i].env) \subseteq Values
         /\ frames[i].arm # << >> =>
              /\ frames[i].arm[1] \in Names
              /\ frames[i].arm[2] \in Values \cup {Unset}
              /\ IsContainer(frames[i].arm[2]) => frames[i].arm[2][2] \in DOMAIN heap
         /\ frames[i].trace.loops \in 0 .. MaxNest

\* The traced copy of a frame is the JSON of its variables after every step,
\* whoever wrote: an alias in the same frame, a callee while the frame is
\* suspended, a guard of a match.  A binding whose guard is undecided is not in
\* it yet.  (The documentation of checkpoints: the resulting visible state.)
TraceMirrorsTheFrames ==
    \A i \in Traced :
        LET env == Uncovered(frames[i])
        IN  frames[i].trace.state = [x \in DOMAIN env |-> ToJson(heap, env[x])]

\* The alias index holds an address exactly at the paths where the container
\* that lives there now can be reached: no path is missed by a later write, and
\* none is left of a container that was freed and whose address is used again.
AliasesAreExact ==
    \A i \in Traced :
        LET env == Uncovered(frames[i])
            C == {x \in DOMAIN env : IsContainer(env[x])}
        IN  frames[i].trace.aliases =
                {<<env[x][2], Root(x)>> : x \in C} \cup
                UNION {Inside(heap, env[x], Root(x)) : x \in C}

\* A reader who starts from the first event's checkpoint and applies the
\* changes, each of which names what it replaces, has the traced state, and the
\* hashes before and after are the hashes of the states they stand for (the
\* assertions of verify_trace).
JournalReplays ==
    \A i \in Traced :
        LET ts == frames[i].trace
        IN  /\ ts.digest = HashState(ts.state)
            /\ ts.seen => /\ Replay(ts.reader, ts.changes) = ts.state
                          /\ ts.previous = HashState(ts.reader)

\* docs/reference/cli.md: the first event in each function frame includes a
\* checkpoint.  A function that returns from the first turn of its first loop
\* emits its only event in finish_trace, which has none.
FirstEventHasCheckpoint == event.first => event.checkpoint
=============================================================================
