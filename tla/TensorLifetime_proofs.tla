------------------------ MODULE TensorLifetime_proofs ------------------------
(***************************************************************************)
(* Proofs about TensorLifetime, for any names and any limits on tensors,   *)
(* tape nodes and the depth of calls.                                      *)
(*                                                                         *)
(* TapeIsLive is inductive once a runtime is known to be a record and its  *)
(* tape a function: RuntimeSound says so of any runtime, so that it can be *)
(* followed through the operations, whose outcomes are runtimes.           *)
(***************************************************************************)
EXTENDS TensorLifetime, FiniteSetTheorems, TLAPS

Tapes == UNION {[S -> SUBSET Int] : S \in SUBSET Int}

Runtimes == [refs : SUBSET Int, next : Int, nodes : Tapes, roots : SUBSET Int,
             tracked : SUBSET Int, params : SUBSET Int,
             flow : [Ids -> SUBSET Int], silentZero : BOOLEAN]

TapeSound(r) ==
  /\ r.roots = TapeRoots(r.nodes)
  /\ r.roots \subseteq r.refs
  /\ r.tracked = r.params \cup DOMAIN r.nodes
  /\ r.params \subseteq r.refs
  /\ r.refs \subseteq 1 .. r.next - 1

RuntimeSound(r) == r \in Runtimes /\ TapeSound(r)

OutcomeSound(o) == o.error = "none" => RuntimeSound(o.rt) /\ o.value \in Values

-----------------------------------------------------------------------------
(* The operations of the runtime.                                            *)

LEMMA FreshSound == RuntimeSound(Fresh)
<1>1. <<>> \in [{} -> SUBSET Int]
  OBVIOUS
<1>2. <<>> \in Tapes /\ DOMAIN <<>> = {}
  BY <1>1 DEF Tapes
<1>3. Fresh \in Runtimes
  BY <1>2 DEF Fresh, Runtimes
<1>4. TapeSound(Fresh)
  BY <1>2 DEF Fresh, TapeSound, TapeRoots
<1> QED
  BY <1>3, <1>4 DEF RuntimeSound

\* One runtime with the tape of another is as sound, if it has its tensors.
LEMMA SameTape ==
  ASSUME NEW r, TapeSound(r), NEW q, q.nodes = r.nodes, q.roots = r.roots,
         q.tracked = r.tracked, q.params = r.params, r.refs \subseteq q.refs,
         q.refs \subseteq 1 .. q.next - 1
  PROVE  TapeSound(q)
  BY DEF TapeSound

LEMMA NewSound ==
  ASSUME NEW r, RuntimeSound(r), r.next \in Ids
  PROVE  /\ OutcomeSound(New(r))
         /\ New(r).error = "none" =>
              /\ New(r).rt = [r EXCEPT !.refs = @ \cup {r.next}, !.next = @ + 1]
              /\ New(r).value = r.next
<1> DEFINE n == [r EXCEPT !.refs = @ \cup {r.next}, !.next = @ + 1]
<1>1. r.next \in Int /\ r.next >= 1
  BY DEF Ids
<1>2. n \in Runtimes
  <2>1. r.refs \cup {r.next} \in SUBSET Int /\ r.next + 1 \in Int
    BY <1>1 DEF RuntimeSound, Runtimes
  <2>2. r \in Runtimes
    BY DEF RuntimeSound
  <2> QED
    BY <2>1, <2>2 DEF Runtimes
<1>3. /\ n.nodes = r.nodes /\ n.roots = r.roots /\ n.tracked = r.tracked
      /\ n.params = r.params /\ n.refs = r.refs \cup {r.next} /\ n.next = r.next + 1
  BY DEF RuntimeSound, Runtimes
<1>4. n.refs \subseteq 1 .. n.next - 1
  BY <1>1, <1>3 DEF RuntimeSound, TapeSound
<1>5. TapeSound(n)
  BY <1>3, <1>4, SameTape DEF RuntimeSound
<1> HIDE DEF n
<1>6. CASE Cardinality(r.refs) >= MaxLive
  BY <1>6 DEF New, Err, OutcomeSound
<1>7. CASE ~(Cardinality(r.refs) >= MaxLive)
  <2>1. New(r) = Ok(n, r.next)
    BY <1>7 DEF New, n
  <2> QED
    BY <1>2, <1>5, <2>1 DEF Ok, OutcomeSound, RuntimeSound, Values, n
<1> QED
  BY <1>6, <1>7

\* A new node refers to what it is computed from, and nothing else changes.
LEMMA AddNode ==
  ASSUME NEW nodes \in Tapes, NEW output \in Int, output \notin DOMAIN nodes,
         NEW inputs \in SUBSET Int,
         NEW more, more = [t \in DOMAIN nodes \cup {output} |->
                             IF t = output THEN inputs ELSE nodes[t]]
  PROVE  /\ more \in Tapes /\ DOMAIN more = DOMAIN nodes \cup {output}
         /\ TapeRoots(more) = TapeRoots(nodes) \cup inputs \cup {output}
<1>1. /\ DOMAIN nodes \in SUBSET Int
      /\ \A t \in DOMAIN nodes : nodes[t] \in SUBSET Int
  <2>1. PICK S \in SUBSET Int : nodes \in [S -> SUBSET Int]
    BY DEF Tapes
  <2> QED
    BY <2>1
<1>2. more \in [DOMAIN nodes \cup {output} -> SUBSET Int]
  BY <1>1
<1>3. more \in Tapes
  <2>1. DOMAIN nodes \cup {output} \in SUBSET Int
    BY <1>1
  <2> QED
    BY <1>2, <2>1 DEF Tapes
<1>4. UNION {more[t] : t \in DOMAIN more} = inputs \cup UNION {nodes[t] : t \in DOMAIN nodes}
  OBVIOUS
<1> QED
  BY <1>3, <1>4 DEF TapeRoots

LEMMA RecordSound ==
  ASSUME NEW r, RuntimeSound(r), NEW output \in r.refs, output \in Ids,
         output \notin DOMAIN r.nodes, NEW inputs \in SUBSET r.refs
  PROVE  OutcomeSound(Record(r, output, inputs))
<1> DEFINE more == [t \in DOMAIN r.nodes \cup {output} |->
                      IF t = output THEN inputs ELSE r.nodes[t]]
           n == [r EXCEPT !.nodes = more, !.roots = @ \cup inputs \cup {output},
                          !.tracked = @ \cup {output}]
<1>1. r \in Runtimes /\ TapeSound(r)
  BY DEF RuntimeSound
<1>2. /\ r.nodes \in Tapes /\ inputs \in SUBSET Int /\ output \in Int
  BY <1>1 DEF Runtimes
<1>3. /\ more \in Tapes /\ DOMAIN more = DOMAIN r.nodes \cup {output}
      /\ TapeRoots(more) = TapeRoots(r.nodes) \cup inputs \cup {output}
  BY <1>2, AddNode
<1> HIDE DEF more
<1>4. n \in Runtimes
  BY <1>1, <1>2, <1>3 DEF Runtimes
<1>5. /\ n.nodes = more /\ n.roots = r.roots \cup inputs \cup {output}
      /\ n.tracked = r.tracked \cup {output} /\ n.params = r.params
      /\ n.refs = r.refs /\ n.next = r.next
  BY <1>1 DEF Runtimes
<1>6. TapeSound(n)
  BY <1>1, <1>3, <1>5 DEF TapeSound
<1>7. RuntimeSound(n) /\ output \in Values
  BY <1>4, <1>6 DEF RuntimeSound, Values
<1> HIDE DEF n
<1>8. CASE inputs \cap r.tracked = {}
  BY <1>8 DEF Record, Ok, OutcomeSound, Values
<1>9. CASE inputs \cap r.tracked # {} /\ Cardinality(DOMAIN r.nodes) >= MaxNodes
  BY <1>9 DEF Record, Err, OutcomeSound
<1>10. CASE inputs \cap r.tracked # {} /\ ~(Cardinality(DOMAIN r.nodes) >= MaxNodes)
  <2>1. Record(r, output, inputs) = Ok(n, output)
    BY <1>10 DEF Record, n, more
  <2> QED
    BY <1>7, <2>1 DEF Ok, OutcomeSound
<1> QED
  BY <1>8, <1>9, <1>10

LEMMA ApplySound ==
  ASSUME NEW r, RuntimeSound(r), r.next \in Ids, NEW inputs
  PROVE  OutcomeSound(Apply(r, inputs))
<1> DEFINE new == New(r)
           f == UNION {r.flow[t] : t \in inputs}
           n == [new.rt EXCEPT !.flow[new.value] = f]
<1>1. CASE ~(inputs \subseteq r.refs)
  BY <1>1 DEF Apply, Err, OutcomeSound
<1>2. CASE inputs \subseteq r.refs /\ new.error # "none"
  BY <1>2 DEF Apply, OutcomeSound
<1>3. CASE inputs \subseteq r.refs /\ new.error = "none"
  <2>1. /\ RuntimeSound(new.rt) /\ new.value = r.next
        /\ new.rt = [r EXCEPT !.refs = @ \cup {r.next}, !.next = @ + 1]
    BY <1>3, NewSound DEF OutcomeSound
  <2>2. /\ new.rt.refs = r.refs \cup {r.next} /\ new.rt.nodes = r.nodes
        /\ r \in Runtimes /\ TapeSound(r)
    BY <2>1 DEF RuntimeSound, Runtimes
  <2>3. f \in SUBSET Int
    <3>1. \A t \in inputs : t \in Ids
      BY <1>3, <2>2, Bounds DEF TapeSound, Ids, Runtimes
    <3> QED
      BY <2>2, <3>1 DEF Runtimes
  <2>4. new.rt \in Runtimes /\ TapeSound(new.rt)
    BY <2>1 DEF RuntimeSound
  <2> HIDE DEF new, f
  <2>5. n \in Runtimes
    BY <2>1, <2>3, <2>4 DEF Runtimes
  <2>6. /\ n.nodes = new.rt.nodes /\ n.roots = new.rt.roots /\ n.tracked = new.rt.tracked
        /\ n.params = new.rt.params /\ n.refs = new.rt.refs /\ n.next = new.rt.next
    BY <2>4 DEF Runtimes
  <2>7. RuntimeSound(n)
    BY <2>4, <2>5, <2>6, SameTape DEF RuntimeSound, TapeSound
  <2>8. r.next \notin DOMAIN n.nodes
    <3>1. DOMAIN r.nodes \subseteq 1 .. r.next - 1
      BY <2>2 DEF TapeSound, TapeRoots
    <3> QED
      BY <2>2, <2>6, <3>1 DEF Ids
  <2>9. r.next \in n.refs /\ inputs \in SUBSET n.refs
    BY <1>3, <2>2, <2>6
  <2>10. OutcomeSound(Record(n, r.next, inputs))
    <3> HIDE DEF n
    <3> QED
      BY <2>7, <2>8, <2>9, RecordSound
  <2>11. Apply(r, inputs) = Record(n, r.next, inputs)
    BY <1>3, <2>1 DEF Apply, new, f
  <2> QED
    BY <2>10, <2>11
<1> QED
  BY <1>1, <1>2, <1>3

LEMMA DropGraphSound ==
  ASSUME NEW r, RuntimeSound(r), NEW t
  PROVE  /\ RuntimeSound(DropGraph(r, t))
         /\ DropGraph(r, t).refs = r.refs /\ DropGraph(r, t).next = r.next
         /\ DropGraph(r, t).params = r.params
<1> DEFINE below == Below(r, t)
           kept == [s \in DOMAIN r.nodes \ below |-> r.nodes[s]]
           n == [r EXCEPT !.nodes = kept, !.roots = TapeRoots(kept),
                          !.tracked = r.params \cup DOMAIN kept]
<1> HIDE DEF below
<1>1. r \in Runtimes /\ TapeSound(r)
  BY DEF RuntimeSound
<1>2. PICK S \in SUBSET Int : r.nodes \in [S -> SUBSET Int]
  BY <1>1 DEF Runtimes, Tapes
<1>3. kept \in [S \ below -> SUBSET Int] /\ S \ below \in SUBSET Int
  BY <1>2
<1>4. kept \in Tapes /\ DOMAIN kept \subseteq DOMAIN r.nodes
  BY <1>3 DEF Tapes
<1>5. TapeRoots(kept) \subseteq TapeRoots(r.nodes)
  BY DEF TapeRoots
<1>6. TapeRoots(kept) \in SUBSET Int /\ r.params \cup DOMAIN kept \in SUBSET Int
  BY <1>1, <1>3, <1>5 DEF TapeSound, Runtimes
<1> HIDE DEF kept
<1>7. n \in Runtimes
  BY <1>1, <1>4, <1>6 DEF Runtimes
<1>8. /\ n.nodes = kept /\ n.roots = TapeRoots(kept) /\ n.tracked = r.params \cup DOMAIN kept
      /\ n.params = r.params /\ n.refs = r.refs /\ n.next = r.next
  BY <1>1 DEF Runtimes
<1>9. TapeSound(n)
  BY <1>1, <1>5, <1>8 DEF TapeSound
<1>10. DropGraph(r, t) = n
  BY DEF DropGraph, kept, below
<1> HIDE DEF n
<1> QED
  BY <1>7, <1>8, <1>9, <1>10 DEF RuntimeSound

LEMMA CutFlowType ==
  ASSUME NEW ps \in SUBSET Int
  PROVE  CutFlow(ps) \in [Ids -> SUBSET Int]
  BY DEF CutFlow

LEMMA CopySound ==
  ASSUME NEW r, RuntimeSound(r), r.next \in Ids, NEW t, NEW b \in BOOLEAN
  PROVE  OutcomeSound(Copy(r, t, b))
<1> DEFINE d == DropGraph(r, t)
           new == New(d)
           as == IF b THEN {new.value} ELSE {}
           flow == CutFlow(r.params \cup as)
           n == [new.rt EXCEPT !.tracked = @ \cup as, !.params = @ \cup as, !.flow = flow]
<1>1. RuntimeSound(d) /\ d.next = r.next
  BY DropGraphSound
<1> HIDE DEF d
<1>2. CASE t \notin r.refs
  BY <1>2 DEF Copy, Err, OutcomeSound
<1>3. CASE t \in r.refs /\ new.error # "none"
  BY <1>3 DEF Copy, OutcomeSound, d
<1>4. CASE t \in r.refs /\ new.error = "none"
  <2>1. /\ new.rt \in Runtimes /\ TapeSound(new.rt) /\ new.value = d.next
        /\ new.rt.refs = d.refs \cup {d.next}
    <3>1. /\ RuntimeSound(new.rt) /\ new.value = d.next /\ d \in Runtimes
          /\ new.rt = [d EXCEPT !.refs = @ \cup {d.next}, !.next = @ + 1]
      BY <1>1, <1>4, NewSound DEF OutcomeSound, RuntimeSound
    <3> QED
      BY <3>1 DEF RuntimeSound, Runtimes
  <2>2. as \in SUBSET Int /\ as \subseteq new.rt.refs /\ r.params \in SUBSET Int
    BY <1>1, <2>1, Bounds DEF RuntimeSound, Runtimes, Ids
  <2>3. flow \in [Ids -> SUBSET Int]
    BY <2>2, CutFlowType
  <2>4. new.value \in Values
    BY <1>1, <2>1 DEF Values
  <2> HIDE DEF new, as, flow
  <2>5. n \in Runtimes
    <3>1. new.rt.tracked \cup as \in SUBSET Int /\ new.rt.params \cup as \in SUBSET Int
      BY <2>1, <2>2 DEF Runtimes
    <3> QED
      BY <2>1, <2>3, <3>1 DEF Runtimes
  <2>6. /\ n.nodes = new.rt.nodes /\ n.roots = new.rt.roots
        /\ n.tracked = new.rt.tracked \cup as /\ n.params = new.rt.params \cup as
        /\ n.refs = new.rt.refs /\ n.next = new.rt.next
    BY <2>1 DEF Runtimes
  <2>7. TapeSound(n)
    BY <2>1, <2>2, <2>6 DEF TapeSound
  <2>8. Copy(r, t, b) = Ok(n, new.value)
    BY <1>4 DEF Copy, new, as, flow, d
  <2> HIDE DEF n
  <2> QED
    BY <2>4, <2>5, <2>7, <2>8 DEF Ok, OutcomeSound, RuntimeSound
<1> QED
  BY <1>2, <1>3, <1>4

LEMMA GradSound ==
  ASSUME NEW r, RuntimeSound(r), r.next \in Ids, NEW loss, NEW p
  PROVE  OutcomeSound(Grad(r, loss, p))
<1> DEFINE new == New(r)
           flow == CutFlow(r.params)
           zero == new.rt.silentZero \/ (p \in r.flow[loss] \ Below(r, loss))
           n == [new.rt EXCEPT !.nodes = <<>>, !.roots = {},
                   !.params = @ \cap new.rt.refs, !.tracked = r.params \cap new.rt.refs,
                   !.flow = flow, !.silentZero = zero]
<1>1. CASE Grad(r, loss, p).error # "none"
  BY <1>1 DEF OutcomeSound
<1>2. CASE Grad(r, loss, p).error = "none"
  <2>1. Grad(r, loss, p) = Ok(n, new.value) /\ new.error = "none"
    BY <1>2 DEF Grad, Err
  <2>2. /\ new.rt \in Runtimes /\ TapeSound(new.rt) /\ new.value \in Values
        /\ new.rt.params = r.params
    <3>1. /\ RuntimeSound(new.rt) /\ new.value \in Values /\ r \in Runtimes
          /\ new.rt = [r EXCEPT !.refs = @ \cup {r.next}, !.next = @ + 1]
      BY <2>1, NewSound DEF OutcomeSound, RuntimeSound
    <3> QED
      BY <3>1 DEF RuntimeSound, Runtimes
  <2>3. flow \in [Ids -> SUBSET Int]
    BY CutFlowType DEF RuntimeSound, Runtimes
  <2>4. zero \in BOOLEAN
    OBVIOUS
  <2>5. <<>> \in Tapes /\ DOMAIN <<>> = {} /\ TapeRoots(<<>>) = {}
    BY FreshSound DEF RuntimeSound, Runtimes, Fresh, TapeSound
  <2> HIDE DEF new, flow, zero
  <2>6. n \in Runtimes
    <3>1. /\ new.rt.params \cap new.rt.refs \in SUBSET Int
          /\ r.params \cap new.rt.refs \in SUBSET Int
      BY <2>2 DEF Runtimes
    <3> QED
      BY <2>2, <2>3, <2>4, <2>5, <3>1 DEF Runtimes
  <2>7. /\ n.nodes = <<>> /\ n.roots = {} /\ n.params = new.rt.params \cap new.rt.refs
        /\ n.tracked = r.params \cap new.rt.refs
        /\ n.refs = new.rt.refs /\ n.next = new.rt.next
    BY <2>2 DEF Runtimes
  <2>8. TapeSound(n)
    BY <2>2, <2>5, <2>7 DEF TapeSound
  <2> HIDE DEF n
  <2> QED
    BY <2>1, <2>2, <2>6, <2>8 DEF Ok, OutcomeSound, RuntimeSound
<1> QED
  BY <1>1, <1>2

-----------------------------------------------------------------------------
(* The collector and the ends of statements.                                 *)

\* The tape keeps what it refers to: a collect releases no root of it.
LEMMA CollectSound ==
  ASSUME NEW r, RuntimeSound(r), NEW env, NEW fs, NEW prot, Collect(r, env, fs, prot)
  PROVE  RuntimeSound(rt')
<1> DEFINE reached == Reachable(r, env, fs, prot)
           kept == r.refs \cap reached
           flow == [t \in Ids |-> IF t \in kept THEN r.flow[t] ELSE {}]
           n == [r EXCEPT !.refs = kept, !.tracked = @ \cap kept,
                          !.params = @ \cap kept, !.flow = flow]
<1>1. r \in Runtimes /\ TapeSound(r)
  BY DEF RuntimeSound
<1>2. r.roots \subseteq kept
  BY <1>1 DEF Reachable, TapeSound
<1>3. kept \in SUBSET Int /\ kept \subseteq r.refs
  BY <1>1 DEF Runtimes
<1>4. rt' = n
  BY <1>1 DEF Collect, Runtimes
<1> HIDE DEF kept
<1>5. flow \in [Ids -> SUBSET Int]
  BY <1>1 DEF Runtimes
<1> HIDE DEF flow
<1>6. n \in Runtimes
  <2>1. r.tracked \cap kept \in SUBSET Int /\ r.params \cap kept \in SUBSET Int
    BY <1>1 DEF Runtimes
  <2> QED
    BY <1>1, <1>3, <1>5, <2>1 DEF Runtimes
<1>7. /\ n.nodes = r.nodes /\ n.roots = r.roots /\ n.tracked = r.tracked \cap kept
      /\ n.params = r.params \cap kept /\ n.refs = kept /\ n.next = r.next
  BY <1>1 DEF Runtimes
<1> HIDE DEF n
<1>8. DOMAIN r.nodes \subseteq kept
  BY <1>1, <1>2 DEF TapeSound, TapeRoots
<1>9. TapeSound(n)
  BY <1>1, <1>2, <1>3, <1>7, <1>8 DEF TapeSound
<1> QED
  BY <1>4, <1>6, <1>9 DEF RuntimeSound

LEMMA FailSound ==
  ASSUME RuntimeSound(rt), NEW code, Fail(code)
  PROVE  RuntimeSound(rt')
<1> DEFINE n == [Fresh EXCEPT !.silentZero = rt.silentZero]
<1>1. Fresh \in Runtimes /\ TapeSound(Fresh) /\ rt.silentZero \in BOOLEAN
  BY FreshSound DEF RuntimeSound, Runtimes
<1>2. n \in Runtimes
  BY <1>1 DEF Runtimes
<1>3. /\ n.nodes = Fresh.nodes /\ n.roots = Fresh.roots /\ n.tracked = Fresh.tracked
      /\ n.params = Fresh.params /\ n.refs = Fresh.refs /\ n.next = Fresh.next
  BY <1>1 DEF Runtimes
<1>4. TapeSound(n)
  BY <1>1, <1>3 DEF TapeSound
<1> QED
  BY <1>2, <1>4 DEF Fail, RuntimeSound

LEMMA EndStatementSound ==
  ASSUME RuntimeSound(rt), NEW o, o.error = "none" => RuntimeSound(o.rt),
         NEW fs, NEW prot, NEW target, EndStatement(o, fs, prot, target)
  PROVE  RuntimeSound(rt')
<1>1. CASE o.error # "none"
  BY <1>1, FailSound DEF EndStatement
<1>2. CASE o.error = "none"
  <2>1. PICK env, gs : Collect(o.rt, env, gs, prot)
    BY <1>2 DEF EndStatement
  <2> QED
    BY <1>2, <2>1, CollectSound
<1> QED
  BY <1>1, <1>2

LEMMA OutcomesSound ==
  ASSUME RuntimeSound(rt), rt.next \in Ids, NEW o \in Outcomes
  PROVE  OutcomeSound(o)
<1>1. \/ o = New(rt)
      \/ \E inputs : o = Apply(rt, inputs)
      \/ \E t : \E b \in BOOLEAN : o = Copy(rt, t, b)
      \/ \E loss, p : o = Grad(rt, loss, p)
  BY DEF Outcomes
<1> QED
  BY <1>1, NewSound, ApplySound, CopySound, GradSound

-----------------------------------------------------------------------------
(* The actions.                                                              *)

LEMMA StepKeepsRuntime ==
  ASSUME RuntimeSound(rt), [Next]_vars
  PROVE  RuntimeSound(rt')
<1>1. ASSUME NEW target, Statement(target)
      PROVE  RuntimeSound(rt')
  BY <1>1, OutcomesSound, EndStatementSound DEF Statement, Running, OutcomeSound
<1>2. ASSUME NEW v, NEW b \in BOOLEAN, Call(v, b)
      PROVE  RuntimeSound(rt')
  <2> DEFINE new == IF b THEN New(rt) ELSE Ok(rt, None)
  <2>1. new.error = "none" => RuntimeSound(new.rt)
    BY <1>2, NewSound DEF Call, Running, OutcomeSound, Ok
  <2>2. \/ \E code : Fail(code)
        \/ new.error = "none" /\ rt' = new.rt
    BY <1>2 DEF Call
  <2> HIDE DEF new
  <2> QED
    BY <2>1, <2>2, FailSound
<1>3. ASSUME NEW v, NEW target, Return(v, target)
      PROVE  RuntimeSound(rt')
  <2> DEFINE pending == frames[Depth - 1].pending
             o == IF pending = None THEN Ok(rt, Top.env[v])
                  ELSE Apply(rt, {pending, Top.env[v]})
  <2>1. o.error = "none" => RuntimeSound(o.rt)
    BY <1>3, ApplySound DEF Return, OutcomeSound, Ok
  <2>2. EndStatement(o, [Front(frames) EXCEPT ![Depth - 1].pending = None],
                     Front(protected), target)
    BY <1>3 DEF Return
  <2> HIDE DEF o
  <2> QED
    BY <2>1, <2>2, EndStatementSound
<1>4. ASSUME NEW v, NEW w, ForStart(v, w)
      PROVE  RuntimeSound(rt')
  <2>1. New(rt).error = "none" => RuntimeSound(New(rt).rt)
    BY <1>4, NewSound DEF ForStart, Running, OutcomeSound
  <2>2. \/ \E code : Fail(code)
        \/ New(rt).error = "none" /\ rt' = New(rt).rt
    BY <1>4 DEF ForStart
  <2> QED
    BY <2>1, <2>2, FailSound
<1>5. ASSUME NEW v, ForNext(v)
      PROVE  RuntimeSound(rt')
  BY <1>5 DEF ForNext
<1>6. ASSUME NEW name, NEW v, Result(name, v)
      PROVE  RuntimeSound(rt')
  BY <1>6, CollectSound DEF Result
<1>7. CASE NoResult
  BY <1>7, CollectSound DEF NoResult
<1>8. CASE UNCHANGED vars
  BY <1>8 DEF vars
<1> QED
  BY <1>1, <1>2, <1>3, <1>4, <1>5, <1>6, <1>7, <1>8 DEF Next

\* Whatever a program does and however it ends, the tensor runtime is
\* well formed: a tape over older tensors whose roots are live.
THEOREM RuntimeStaysSound == Spec => []RuntimeSound(rt)
<1>1. Init => RuntimeSound(rt)
  BY FreshSound DEF Init
<1>2. RuntimeSound(rt) /\ [Next]_vars => RuntimeSound(rt)'
  BY StepKeepsRuntime
<1> QED
  BY <1>1, <1>2, PTL DEF Spec

\* TapeIsLive, for any program and any limits: the roots of the autograd tape
\* are exactly the tensors that its nodes name, all of them are live, and
\* what is tracked is a parameter or on the tape, after every allocation,
\* recording, cut, gradient and collection of TensorRuntime.
THEOREM TapeStaysLive == Spec => []TapeIsLive
<1>1. RuntimeSound(rt) => TapeIsLive
  BY DEF RuntimeSound, TapeSound, TapeIsLive
<1> QED
  BY <1>1, RuntimeStaysSound, PTL

-----------------------------------------------------------------------------
(***************************************************************************)
(* BoundValuesStayAlive.  A collect spares what a protected frame binds,   *)
(* so it needs that exactly the suspended frames are protected.            *)
(***************************************************************************)

Frames == [env : [Vars -> Values], pending : Values, loop : Values]

StackSound(fs, prot) ==
  fs \in Seq(Frames) /\ prot = [i \in 1 .. Len(fs) - 1 |-> i]

FramesSound ==
  /\ StackSound(frames, protected)
  /\ calculations \in [Vars -> Values]
  /\ error = "none" => Len(frames) >= 1

\* What fs binds in suspended frames is bound there in gs.
Spares(fs, gs) ==
  \A i \in DOMAIN fs \cap DOMAIN gs : i < Len(fs) /\ i < Len(gs) =>
     \A v \in Vars : fs[i].env[v] \in Ids => gs[i].env[v] = fs[i].env[v]

LEMMA CollectSpares ==
  ASSUME NEW r, NEW env, NEW fs, NEW prot, StackSound(fs, prot),
         Collect(r, env, fs, prot)
  PROVE  /\ StackSound(frames', protected') /\ Len(frames') = Len(fs)
         /\ Spares(fs, frames')
<1> DEFINE kept == r.refs \cap Reachable(r, env, fs, prot)
           Now(t) == IF t \in r.refs \ kept THEN Dead ELSE t
           After(f) == [env |-> [v \in Vars |-> Now(f.env[v])],
                        pending |-> Now(f.pending), loop |-> Now(f.loop)]
<1>1. frames' = [i \in DOMAIN fs |-> After(fs[i])] /\ protected' = prot
  BY DEF Collect
<1>2. fs \in Seq(Frames) /\ DOMAIN fs = 1 .. Len(fs) /\ Len(fs) \in Nat
  BY DEF StackSound
<1>3. \A f \in Frames : After(f) \in Frames
  <2>1. \A t \in Values : Now(t) \in Values
    BY DEF Values
  <2> HIDE DEF Now
  <2> QED
    BY <2>1 DEF Frames
<1>4. \A i \in 1 .. Len(fs) : i < Len(fs) =>
         \A v \in Vars : fs[i].env[v] \in Ids => After(fs[i]).env[v] = fs[i].env[v]
  <2> SUFFICES ASSUME NEW i \in 1 .. Len(fs), i < Len(fs),
                      NEW v \in Vars, fs[i].env[v] \in Ids
               PROVE  Now(fs[i].env[v]) = fs[i].env[v]
    OBVIOUS
  <2>1. i \in DOMAIN prot /\ prot[i] = i
    BY <1>2 DEF StackSound
  <2>2. fs[i].env[v] \in BoundIn(fs[i].env)
    BY DEF BoundIn
  <2>3. fs[i].env[v] \in Reachable(r, env, fs, prot)
    BY <2>1, <2>2 DEF Reachable
  <2> QED
    BY <2>3
<1> HIDE DEF After
<1>5. frames' \in Seq(Frames) /\ Len(frames') = Len(fs)
  BY <1>1, <1>2, <1>3
<1>6. Spares(fs, frames')
  BY <1>1, <1>2, <1>4 DEF Spares
<1> QED
  BY <1>1, <1>5, <1>6 DEF StackSound

\* An element of a sequence replaced.
LEMMA Replaced ==
  ASSUME NEW S, NEW s \in Seq(S), NEW k \in 1 .. Len(s), NEW x \in S
  PROVE  LET q == [s EXCEPT ![k] = x]
         IN  /\ q \in Seq(S) /\ Len(q) = Len(s) /\ DOMAIN q = 1 .. Len(s)
             /\ q[k] = x /\ \A i \in 1 .. Len(s) : i # k => q[i] = s[i]
  OBVIOUS

LEMMA Appended ==
  ASSUME NEW S, NEW s \in Seq(S), NEW x \in S
  PROVE  LET q == Append(s, x)
         IN  /\ q \in Seq(S) /\ Len(q) = Len(s) + 1 /\ q[Len(s) + 1] = x
             /\ \A i \in 1 .. Len(s) : q[i] = s[i]
  OBVIOUS

\* What Call does to the stack, and what Return does.
LEMMA Pushed ==
  ASSUME NEW fs, NEW prot, StackSound(fs, prot), Len(fs) >= 1,
         NEW x \in Values, NEW callee \in Frames
  PROVE  LET gs == Append([fs EXCEPT ![Len(fs)].pending = x], callee)
         IN  /\ StackSound(gs, Append(prot, Len(fs))) /\ Len(gs) >= 1
             /\ Spares(fs, gs)
<1> DEFINE n == Len(fs)
           caller == [fs[n] EXCEPT !.pending = x]
           cs == [fs EXCEPT ![n] = caller]
           gs == Append(cs, callee)
           qs == Append(prot, n)
<1>1. /\ fs \in Seq(Frames) /\ n \in Nat /\ n \in 1 .. n /\ DOMAIN fs = 1 .. n
      /\ prot = [i \in 1 .. n - 1 |-> i]
  BY DEF StackSound
<1>2. fs[n] \in Frames
  BY <1>1
<1>3. caller \in Frames /\ caller.env = fs[n].env
  BY <1>2 DEF Frames
<1>4. [fs EXCEPT ![n].pending = x] = cs
  BY <1>1
<1> HIDE DEF caller
<1>5. /\ cs \in Seq(Frames) /\ Len(cs) = n /\ DOMAIN cs = 1 .. n
      /\ cs[n] = caller /\ \A i \in 1 .. n : i # n => cs[i] = fs[i]
  BY <1>1, <1>3, Replaced
<1>6. \A i \in 1 .. n : cs[i].env = fs[i].env
  BY <1>3, <1>5
<1> HIDE DEF cs
<1>8. prot \in Seq(Nat) /\ Len(prot) = n - 1
  BY <1>1
<1> HIDE DEF n
<1>7. /\ gs \in Seq(Frames) /\ Len(gs) = n + 1
      /\ \A i \in 1 .. n : gs[i] = cs[i]
  BY <1>5, Appended
<1>9. /\ qs \in Seq(Nat) /\ Len(qs) = n /\ DOMAIN qs = 1 .. n
      /\ \A i \in 1 .. n : qs[i] = i
  BY <1>1, <1>8
<1> HIDE DEF gs, qs
<1>10. qs = [i \in 1 .. n |-> i]
  BY <1>9
<1>11. StackSound(gs, qs)
  BY <1>1, <1>7, <1>10 DEF StackSound
<1>12. Spares(fs, gs)
  BY <1>1, <1>6, <1>7 DEF Spares
<1>13. Len(gs) >= 1
  BY <1>1, <1>7
<1>14. gs = Append([fs EXCEPT ![Len(fs)].pending = x], callee)
  BY <1>4 DEF gs, n
<1> QED
  BY <1>11, <1>12, <1>13, <1>14 DEF qs, n

LEMMA Popped ==
  ASSUME NEW fs, NEW prot, StackSound(fs, prot), Len(fs) > 1
  PROVE  LET gs == [Front(fs) EXCEPT ![Len(fs) - 1].pending = None]
         IN  /\ StackSound(gs, Front(prot)) /\ Len(gs) = Len(fs) - 1
             /\ \A i \in 1 .. Len(fs) - 1 : gs[i].env = fs[i].env
<1> DEFINE n == Len(fs) - 1
           front == Front(fs)
           caller == [front[n] EXCEPT !.pending = None]
           gs == [front EXCEPT ![n] = caller]
           qs == Front(prot)
<1>1. /\ fs \in Seq(Frames) /\ n \in Nat /\ n \in 1 .. n
      /\ prot = [i \in 1 .. n |-> i]
  BY DEF StackSound
<1>2. /\ front \in Seq(Frames) /\ Len(front) = n
      /\ \A i \in 1 .. n : front[i] = fs[i]
  BY <1>1 DEF Front
<1> HIDE DEF front
<1>3. front[n] \in Frames /\ None \in Values
  BY <1>1, <1>2 DEF Values
<1>4. caller \in Frames /\ caller.env = front[n].env
  BY <1>3 DEF Frames
<1>5. [front EXCEPT ![n].pending = None] = gs
  BY <1>1, <1>2
<1> HIDE DEF caller
<1>6. /\ gs \in Seq(Frames) /\ Len(gs) = n /\ gs[n] = caller
      /\ \A i \in 1 .. n : i # n => gs[i] = front[i]
  BY <1>1, <1>2, <1>4, Replaced
<1> HIDE DEF gs
<1>7. \A i \in 1 .. n : gs[i].env = fs[i].env
  BY <1>2, <1>4, <1>6
<1>8. prot \in Seq(Nat) /\ Len(prot) = n
  BY <1>1
<1> HIDE DEF n
<1>9. /\ qs \in Seq(Nat) /\ Len(qs) = n - 1 /\ DOMAIN qs = 1 .. n - 1
      /\ \A i \in 1 .. n - 1 : qs[i] = i
  BY <1>1, <1>8 DEF Front
<1> HIDE DEF qs
<1>10. qs = [i \in 1 .. n - 1 |-> i]
  BY <1>9
<1>11. StackSound(gs, qs)
  BY <1>1, <1>6, <1>10 DEF StackSound
<1> QED
  BY <1>1, <1>5, <1>6, <1>7, <1>11 DEF gs, qs, n, front

LEMMA FailSpares ==
  ASSUME NEW code, code # "none", Fail(code)
  PROVE  FramesSound' /\ Spares(frames, frames')
<1>1. frames' = <<>> /\ protected' = <<>> /\ calculations' = Unbound /\ error' # "none"
  BY DEF Fail
<1>2. <<>> \in Seq(Frames) /\ Len(<<>>) = 0 /\ <<>> = [i \in 1 .. Len(<<>>) - 1 |-> i]
  OBVIOUS
<1>3. Unbound \in [Vars -> Values]
  BY DEF Unbound, Values
<1>4. Spares(frames, <<>>)
  BY <1>2 DEF Spares
<1> QED
  BY <1>1, <1>2, <1>3, <1>4 DEF FramesSound, StackSound

LEMMA EndStatementSpares ==
  ASSUME FramesSound, NEW o, o.error = "none" => o.value \in Values,
         NEW fs, NEW prot, StackSound(fs, prot), Len(fs) >= 1,
         NEW target, EndStatement(o, fs, prot, target), error = "none"
  PROVE  /\ FramesSound'
         /\ \/ frames' = <<>>
            \/ Spares(fs, frames') /\ Len(frames') = Len(fs)
<1> DEFINE top == Len(fs)
           env == [v \in Vars |-> IF v = target THEN o.value ELSE fs[top].env[v]]
           gs == [fs EXCEPT ![top].env = env]
<1>1. CASE o.error # "none"
  <2>1. Fail(o.error)
    BY <1>1 DEF EndStatement
  <2> QED
    BY <1>1, <2>1, FailSpares DEF Fail
<1>2. CASE o.error = "none"
  <2>1. /\ fs \in Seq(Frames) /\ top \in Nat /\ DOMAIN fs = 1 .. top /\ top \in DOMAIN fs
        /\ fs[top] \in Frames
    BY DEF StackSound
  <2>2. env \in [Vars -> Values]
    BY <1>2, <2>1 DEF Frames
  <2>3. Collect(o.rt, env, gs, prot) /\ UNCHANGED <<calculations, error>>
    BY <1>2 DEF EndStatement
  <2> HIDE DEF env
  <2>4. [fs[top] EXCEPT !.env = env] \in Frames
    BY <2>1, <2>2 DEF Frames
  <2>5. /\ gs \in Seq(Frames) /\ Len(gs) = top
        /\ \A i \in 1 .. top : i < top => gs[i] = fs[i]
    BY <2>1, <2>4
  <2> HIDE DEF gs
  <2>6. StackSound(gs, prot)
    BY <2>5 DEF StackSound
  <2>7. /\ StackSound(frames', protected') /\ Len(frames') = Len(gs)
        /\ Spares(gs, frames')
    BY <2>3, <2>6, CollectSpares
  <2>8. DOMAIN gs = 1 .. top
    BY <2>5
  <2>9. Spares(fs, frames')
    BY <2>1, <2>5, <2>7, <2>8 DEF Spares
  <2> QED
    BY <2>3, <2>5, <2>7, <2>9 DEF FramesSound
<1> QED
  BY <1>1, <1>2

\* An operation that fails has a code, and one that does not has a value.
LEMMA NewValue ==
  ASSUME RuntimeSound(rt), rt.next \in Ids
  PROVE  New(rt).error = "none" => New(rt).value \in Values
  BY NewSound DEF OutcomeSound

LEMMA StepSpares ==
  ASSUME RuntimeSound(rt), FramesSound, [Next]_vars
  PROVE  FramesSound' /\ Spares(frames, frames')
<1>0. /\ frames \in Seq(Frames) /\ Len(frames) \in Nat /\ DOMAIN frames = 1 .. Len(frames)
      /\ calculations \in [Vars -> Values]
  BY DEF FramesSound, StackSound
<1>t. error = "none" => /\ Top \in Frames /\ Top = frames[Len(frames)]
                        /\ Len(frames) \in 1 .. Len(frames)
  BY <1>0 DEF FramesSound, Top, Depth
<1>s. Spares(frames, <<>>)
  BY DEF Spares
<1>u. Unbound \in [Vars -> Values]
  BY DEF Unbound, Values
<1>f. \A env \in [Vars -> Values] : Frame(env) \in Frames
  BY DEF Frame, Frames, Values
<1>1. ASSUME NEW target, Statement(target)
      PROVE  FramesSound' /\ Spares(frames, frames')
  <2>1. PICK o \in Outcomes : EndStatement(o, frames, protected, target)
    BY <1>1 DEF Statement
  <2>2. o.error = "none" => o.value \in Values
    BY <1>1, OutcomesSound DEF Statement, Running, OutcomeSound
  <2> QED
    BY <1>1, <1>s, <2>1, <2>2, EndStatementSpares DEF Statement, Running, FramesSound
<1>2. ASSUME NEW v \in Vars, NEW b \in BOOLEAN, Call(v, b)
      PROVE  FramesSound' /\ Spares(frames, frames')
  <2> DEFINE new == IF b THEN New(rt) ELSE Ok(rt, None)
             callee == Frame([Unbound EXCEPT ![Param] = Top.env[v]])
  <2>1. new.error = "none" => new.value \in Values
    BY <1>2, NewValue DEF Call, Running, Ok, Values
  <2>2. \/ \E code : code # "none" /\ Fail(code)
        \/ /\ new.error = "none" /\ UNCHANGED <<calculations, error>>
           /\ frames' = Append([frames EXCEPT ![Len(frames)].pending = new.value], callee)
           /\ protected' = Append(protected, Len(frames))
    BY <1>2 DEF Call, Depth
  <2>3. callee \in Frames
    BY <1>2, <1>t, <1>u, <1>f, Bounds DEF Call, Running, Frames
  <2>4. error = "none" /\ Len(frames) >= 1 /\ StackSound(frames, protected)
    BY <1>2 DEF Call, Running, FramesSound
  <2> HIDE DEF new, callee
  <2> QED
    BY <1>0, <2>1, <2>2, <2>3, <2>4, Pushed, FailSpares DEF FramesSound
<1>3. ASSUME NEW v \in Vars, NEW target, Return(v, target)
      PROVE  FramesSound' /\ Spares(frames, frames')
  <2> DEFINE pending == frames[Depth - 1].pending
             o == IF pending = None THEN Ok(rt, Top.env[v])
                  ELSE Apply(rt, {pending, Top.env[v]})
             fs == [Front(frames) EXCEPT ![Len(frames) - 1].pending = None]
  <2>1. o.error = "none" => o.value \in Values
    BY <1>3, <1>t, ApplySound DEF Return, OutcomeSound, Ok, Frames
  <2>2. EndStatement(o, fs, Front(protected), target) /\ error = "none" /\ Len(frames) > 1
    BY <1>3 DEF Return, Depth
  <2> HIDE DEF o
  <2>3. /\ StackSound(fs, Front(protected)) /\ Len(fs) = Len(frames) - 1
        /\ \A i \in 1 .. Len(frames) - 1 : fs[i].env = frames[i].env
    BY <2>2, Popped DEF FramesSound
  <2> HIDE DEF fs
  <2>4. Len(fs) >= 1
    BY <1>0, <2>2, <2>3
  <2>5. /\ FramesSound'
        /\ \/ frames' = <<>>
           \/ Spares(fs, frames') /\ Len(frames') = Len(fs)
    BY <2>1, <2>2, <2>3, <2>4, EndStatementSpares
  <2>6. DOMAIN fs = 1 .. Len(fs)
    BY <2>3 DEF StackSound
  <2>7. CASE Spares(fs, frames') /\ Len(frames') = Len(fs)
    <3>1. Spares(frames, frames')
      BY <1>0, <2>2, <2>3, <2>6, <2>7 DEF Spares
    <3> QED
      BY <2>5, <3>1
  <2> QED
    BY <1>s, <2>5, <2>7
<1>4. ASSUME NEW v \in Vars, NEW w \in Vars, ForStart(v, w)
      PROVE  FramesSound' /\ Spares(frames, frames')
  <2>1. \/ \E code : code # "none" /\ Fail(code)
        \/ /\ New(rt).error = "none" /\ UNCHANGED <<protected, calculations, error>>
           /\ frames' = [frames EXCEPT ![Depth].env[v] = Top.env[w],
                                       ![Depth].loop = New(rt).value]
    BY <1>4 DEF ForStart
  <2>2. CASE /\ New(rt).error = "none" /\ UNCHANGED <<protected, calculations, error>>
             /\ frames' = [frames EXCEPT ![Depth].env[v] = Top.env[w],
                                         ![Depth].loop = New(rt).value]
    <3> DEFINE top == [Top EXCEPT !.env[v] = Top.env[w], !.loop = New(rt).value]
    <3>1. /\ New(rt).value \in Values /\ Top \in Frames /\ error = "none"
          /\ Len(frames) = 1
      BY <1>4, <1>t, <2>2, NewValue DEF ForStart, Running, Depth
    <3>2. top \in Frames
      BY <3>1 DEF Frames
    <3>3. frames' = [frames EXCEPT ![Len(frames)] = top]
      BY <1>0, <1>t, <2>2, <3>1 DEF Depth
    <3> HIDE DEF top
    <3>4. frames' \in Seq(Frames) /\ Len(frames') = 1
      <4>1. Len(frames) \in 1 .. Len(frames)
        BY <3>1
      <4>2. frames' \in Seq(Frames) /\ Len(frames') = Len(frames)
        BY <1>0, <3>2, <3>3, <4>1, Replaced
      <4> QED
        BY <3>1, <4>2
    <3>5. StackSound(frames', protected') /\ Spares(frames, frames')
      BY <1>0, <2>2, <3>1, <3>4 DEF FramesSound, StackSound, Spares
    <3> QED
      BY <1>0, <2>2, <3>4, <3>5 DEF FramesSound
  <2> QED
    BY <2>1, <2>2, FailSpares
<1>5. ASSUME NEW v \in Vars, ForNext(v)
      PROVE  FramesSound' /\ Spares(frames, frames')
  <2> DEFINE top == [Top EXCEPT !.env[v] = Top.loop, !.loop = None]
  <2>1. /\ Top \in Frames /\ Top = frames[Len(frames)]
        /\ Len(frames) \in 1 .. Len(frames) /\ error = "none"
    BY <1>5, <1>t DEF ForNext
  <2>2. top \in Frames
    BY <2>1 DEF Frames, Values
  <2>a. frames' = [frames EXCEPT ![Len(frames)] = top]
    BY <1>0, <1>5, <2>1 DEF ForNext, Depth
  <2> HIDE DEF top
  <2>3. /\ frames' \in Seq(Frames) /\ Len(frames') = Len(frames)
        /\ \A i \in 1 .. Len(frames) : i < Len(frames) => frames'[i] = frames[i]
    BY <1>0, <2>1, <2>2, <2>a, Replaced
  <2>4. Spares(frames, frames')
    BY <1>0, <2>3 DEF Spares
  <2> QED
    BY <1>5, <2>3, <2>4 DEF FramesSound, StackSound, ForNext
<1>6. ASSUME NEW env \in [Vars -> Values], calculations' = env,
             Collect(rt, env, <<Frame(env)>>, protected),
             Len(frames) = 1, UNCHANGED error
      PROVE  FramesSound' /\ Spares(frames, frames')
  <2>1. <<Frame(env)>> \in Seq(Frames) /\ Len(<<Frame(env)>>) = 1
    BY <1>6, <1>f
  <2>2. StackSound(<<Frame(env)>>, protected)
    BY <1>6, <2>1 DEF FramesSound, StackSound
  <2>3. StackSound(frames', protected') /\ Len(frames') = 1
    BY <1>6, <2>1, <2>2, CollectSpares
  <2>4. Spares(frames, frames')
    BY <1>0, <2>3 DEF Spares
  <2> QED
    BY <1>6, <2>3, <2>4 DEF FramesSound
<1>7. ASSUME NEW name \in Results, NEW v \in Vars, Result(name, v)
      PROVE  FramesSound' /\ Spares(frames, frames')
  <2>1. calculations' \in [Vars -> Values]
    BY <1>0, <1>7, <1>t, Bounds DEF Result, Frames
  <2> QED
    BY <1>6, <1>7, <2>1 DEF Result, Depth
<1>8. CASE NoResult
  BY <1>0, <1>6, <1>8 DEF NoResult, Depth
<1>9. CASE UNCHANGED vars
  BY <1>9 DEF vars, FramesSound, StackSound, Spares
<1> QED
  BY <1>1, <1>2, <1>3, <1>4, <1>5, <1>7, <1>8, <1>9 DEF Next

LEMMA FramesStartSound == Init => FramesSound
<1>1. Unbound \in [Vars -> Values]
  BY DEF Unbound, Values
<1>2. <<Frame(Unbound)>> \in Seq(Frames) /\ Len(<<Frame(Unbound)>>) = 1
  BY <1>1 DEF Frame, Frames, Values
<1>3. <<>> = [i \in 1 .. 0 |-> i]
  OBVIOUS
<1> QED
  BY <1>1, <1>2, <1>3 DEF Init, FramesSound, StackSound

\* BoundValuesStayAlive, for any depth of calls and any limits: whatever the
\* callees allocate, collect, cut or return, what a suspended frame binds is
\* still the same live tensor after every step.
THEOREM CallersKeepTheirVariables == Spec => BoundValuesStayAlive
<1>1. Init => FramesSound
  BY FramesStartSound
<1>2. RuntimeSound(rt) /\ FramesSound /\ [Next]_vars => FramesSound'
  BY StepSpares
<1>3. RuntimeSound(rt) /\ FramesSound /\ [Next]_vars =>
        [\A i \in DOMAIN frames \cap DOMAIN frames' :
           i < Len(frames) /\ i < Len(frames') =>
             \A v \in Vars : frames[i].env[v] \in Ids =>
                frames'[i].env[v] = frames[i].env[v]]_vars
  BY StepSpares DEF Spares
<1> QED
  BY <1>1, <1>2, <1>3, RuntimeStaysSound, PTL DEF Spec, BoundValuesStayAlive
-----------------------------------------------------------------------------
(***************************************************************************)
(* TypeOK and FreshGradientsAreComplete.  What a tensor was computed from  *)
(* is on the tape below it: FlowSound says so one node at a time, so that  *)
(* the steps need not follow the walk, and BelowHasTheFlow adds the nodes  *)
(* up along the walk of grad.                                              *)
(***************************************************************************)

Tidy(r) ==
  /\ r.next \in 1 .. MaxIds + 1
  /\ Cardinality(r.refs) <= MaxLive
  /\ Cardinality(DOMAIN r.nodes) <= MaxNodes
  /\ \A t \in DOMAIN r.nodes : r.nodes[t] \subseteq 1 .. t - 1
  /\ \A t \in Ids : r.flow[t] \subseteq 1 .. t

\* What flows into t through its node.
Inflow(r, t) == IF t \in DOMAIN r.nodes THEN UNION {r.flow[q] : q \in r.nodes[t]} ELSE {}

FlowSound(r) ==
  /\ \A t \in Ids : r.flow[t] # {} => t \in r.tracked
  /\ \A t \in Ids : r.flow[t] \subseteq {t} \cup Inflow(r, t)
  /\ ~r.silentZero

Accounted(r) == Tidy(r) /\ FlowSound(r)

-----------------------------------------------------------------------------
(* The walk of the tape.                                                     *)

\* Intervals from 0 are ordered by inclusion, which is well founded.
LEMMA LeastElement ==
  ASSUME NEW T \in SUBSET Nat, T # {}
  PROVE  \E k \in T : \A j \in T : k <= j
<1> DEFINE Intervals == {0 .. k : k \in T}
<1>1. Intervals \subseteq FiniteSubsetsOf(Nat)
  <2>1. \A k \in T : IsFiniteSet(0 .. k)
    BY FS_Interval
  <2> QED
    BY <2>1 DEF FiniteSubsetsOf
<1>2. Intervals # {}
  OBVIOUS
<1> HIDE DEF Intervals
<1>3. PICK B \in Intervals :
        \A C \in Intervals : ~ (<<C, B>> \in StrictSubsetOrdering(Nat))
  BY <1>1, <1>2, WFMin, FS_StrictSubsetOrderingWellFounded
<1>4. PICK k \in T : B = 0 .. k
  BY DEF Intervals
<1>5. ASSUME NEW j \in T, j < k
      PROVE  FALSE
  <2>1. 0 .. j \in SUBSET Nat /\ 0 .. k \in SUBSET Nat
        /\ 0 .. j \subseteq 0 .. k /\ 0 .. j # 0 .. k
    BY <1>5
  <2>2. <<0 .. j, 0 .. k>> \in StrictSubsetOrdering(Nat)
    BY <2>1 DEF StrictSubsetOrdering
  <2>3. 0 .. j \in Intervals
    BY DEF Intervals
  <2> QED
    BY <1>3, <1>4, <2>2, <2>3
<1> QED
  BY <1>5

\* The equation that the walk down from s solves.
Walk(nodes, f, s) == {s} \cup (IF s \in DOMAIN nodes THEN UNION {f[q] : q \in nodes[s]} ELSE {})

\* Each node refers to tensors older than itself.
Grown(nodes) == \A s \in DOMAIN nodes : nodes[s] \subseteq 1 .. s - 1

LEMMA WalkIsLocal ==
  ASSUME NEW nodes, Grown(nodes), NEW s \in Ids, NEW f, NEW g,
         \A q \in 1 .. s - 1 : g[q] = f[q]
  PROVE  Walk(nodes, g, s) = Walk(nodes, f, s)
<1>1. CASE s \in DOMAIN nodes
  <2>1. \A q \in nodes[s] : g[q] = f[q]
    BY <1>1 DEF Grown
  <2>2. {g[q] : q \in nodes[s]} = {f[q] : q \in nodes[s]}
    BY <2>1
  <2> QED
    BY <2>2 DEF Walk
<1>2. CASE s \notin DOMAIN nodes
  BY <1>2 DEF Walk
<1> QED
  BY <1>1, <1>2

LEMMA WalksExist ==
  ASSUME NEW nodes, Grown(nodes)
  PROVE  \E f : f = [s \in Ids |-> Walk(nodes, f, s)]
<1> DEFINE Solves(f, n) == \A s \in 1 .. n : f[s] = Walk(nodes, f, s)
           Unsolved == {n \in 0 .. MaxIds : \A f : ~ Solves(f, n)}
<1>1. MaxIds \in Nat
  BY Bounds
<1>2. ASSUME NEW k \in Unsolved, \A j \in Unsolved : k <= j
      PROVE  FALSE
  <2>1. k \in 0 .. MaxIds
    OBVIOUS
  <2>2. k # 0
    <3>1. \A f : Solves(f, 0)
      OBVIOUS
    <3> QED
      BY <3>1
  <2>3. k - 1 \in 0 .. MaxIds /\ k - 1 \notin Unsolved
    BY <1>1, <1>2, <2>1, <2>2
  <2>4. PICK f : Solves(f, k - 1)
    BY <2>3
  <2> DEFINE g == [s \in 1 .. k |-> IF s < k THEN f[s] ELSE Walk(nodes, f, k)]
  <2>5. g[k] = Walk(nodes, f, k) /\ \A s \in 1 .. k - 1 : g[s] = f[s]
    BY <1>1, <2>1, <2>2
  <2> HIDE DEF g
  <2>6. ASSUME NEW s \in 1 .. k
        PROVE  g[s] = Walk(nodes, g, s)
    <3>1. s \in Ids
      BY <1>1, <2>1 DEF Ids
    <3>2. \A q \in 1 .. s - 1 : q \in 1 .. k - 1
      BY <1>1, <2>1
    <3>3. Walk(nodes, g, s) = Walk(nodes, f, s)
      BY <2>5, <3>1, <3>2, WalkIsLocal
    <3>4. CASE s = k
      BY <2>5, <3>3, <3>4
    <3>5. CASE s \in 1 .. k - 1
      BY <2>4, <2>5, <3>3, <3>5
    <3> QED
      BY <1>1, <2>1, <3>4, <3>5
  <2>7. Solves(g, k)
    BY <2>6
  <2> QED
    BY <2>7
<1>3. Unsolved = {}
  <2>1. Unsolved \in SUBSET Nat
    BY <1>1
  <2>2. Unsolved # {} => \E k \in Unsolved : \A j \in Unsolved : k <= j
    <3> HIDE DEF Unsolved
    <3> QED
      BY <2>1, LeastElement
  <2> QED
    BY <1>2, <2>2
<1>4. PICK f : Solves(f, MaxIds)
  BY <1>1, <1>3
<1> DEFINE h == [s \in Ids |-> f[s]]
<1>5. \A s \in Ids : h[s] = f[s]
  OBVIOUS
<1>6. ASSUME NEW s \in Ids
      PROVE  h[s] = Walk(nodes, h, s)
  <2>1. \A q \in 1 .. s - 1 : q \in Ids
    BY <1>1 DEF Ids
  <2>2. Walk(nodes, h, s) = Walk(nodes, f, s)
    <3> HIDE DEF h
    <3> QED
      BY <1>5, <2>1, WalkIsLocal
  <2> QED
    BY <1>4, <1>5, <2>2 DEF Ids
<1>7. h = [s \in Ids |-> h[s]]
  OBVIOUS
<1> HIDE DEF h
<1>8. h = [s \in Ids |-> Walk(nodes, h, s)]
  BY <1>6, <1>7
<1> QED
  BY <1>8

\* The walk down from t is t and the walks down from what its node refers to.
LEMMA BelowSteps ==
  ASSUME NEW r, Grown(r.nodes), NEW t \in Ids
  PROVE  /\ t \in Below(r, t)
         /\ t \in DOMAIN r.nodes => \A q \in r.nodes[t] : Below(r, q) \subseteq Below(r, t)
<1> DEFINE down == CHOOSE f : f = [s \in Ids |-> Walk(r.nodes, f, s)]
<1>1. \A s : Below(r, s) = down[s]
  BY DEF Below, Walk
<1>2. down = [s \in Ids |-> Walk(r.nodes, down, s)]
  <2>1. \E f : f = [s \in Ids |-> Walk(r.nodes, f, s)]
    BY WalksExist
  <2> QED
    BY <2>1
<1> HIDE DEF down
<1>3. down[t] = Walk(r.nodes, down, t)
  <2> DEFINE h == [s \in Ids |-> Walk(r.nodes, down, s)]
  <2>1. h[t] = Walk(r.nodes, down, t)
    OBVIOUS
  <2> QED
    BY <1>2, <2>1
<1>4. t \in down[t]
  BY <1>3 DEF Walk
<1>5. ASSUME t \in DOMAIN r.nodes, NEW q \in r.nodes[t]
      PROVE  down[q] \subseteq down[t]
  BY <1>3, <1>5 DEF Walk
<1> QED
  BY <1>1, <1>4, <1>5

\* What t was computed from is met by the walk down from t.
LEMMA BelowHasTheFlow ==
  ASSUME NEW r, Tidy(r), FlowSound(r)
  PROVE  \A t \in Ids : r.flow[t] \subseteq Below(r, t)
<1> DEFINE Missed == {t \in Ids : ~ (r.flow[t] \subseteq Below(r, t))}
<1>1. Grown(r.nodes)
  BY DEF Grown, Tidy
<1>2. ASSUME NEW k \in Missed, \A j \in Missed : k <= j
      PROVE  FALSE
  <2>1. k \in Ids /\ k \in Nat
    BY Bounds DEF Ids
  <2>2. k \in Below(r, k)
    BY <1>1, <2>1, BelowSteps
  <2>3. PICK p \in r.flow[k] : p \notin Below(r, k)
    OBVIOUS
  <2>4. r.flow[k] \subseteq {k} \cup Inflow(r, k)
    BY <2>1 DEF FlowSound
  <2>5. k \in DOMAIN r.nodes /\ \E q \in r.nodes[k] : p \in r.flow[q]
    BY <2>2, <2>3, <2>4 DEF Inflow
  <2>6. PICK q \in r.nodes[k] : p \in r.flow[q]
    BY <2>5
  <2>7. q \in 1 .. k - 1
    BY <1>1, <2>5 DEF Grown
  <2>8. q \in Ids /\ ~ (k <= q)
    BY <2>1, <2>7, Bounds DEF Ids
  <2>9. q \notin Missed
    BY <1>2, <2>8
  <2>10. p \in Below(r, q)
    BY <2>6, <2>8, <2>9
  <2> QED
    BY <1>1, <2>1, <2>3, <2>5, <2>10, BelowSteps
<1>3. Missed = {}
  <2>1. Missed \in SUBSET Nat
    BY Bounds DEF Ids
  <2>2. Missed # {} => \E k \in Missed : \A j \in Missed : k <= j
    <3> HIDE DEF Missed
    <3> QED
      BY <2>1, LeastElement
  <2> QED
    BY <1>2, <2>2
<1> QED
  BY <1>3
-----------------------------------------------------------------------------
(* The operations keep the limits and the flow.                              *)

LEMMA CountsAreFinite ==
  ASSUME NEW r, RuntimeSound(r)
  PROVE  /\ IsFiniteSet(r.refs) /\ Cardinality(r.refs) \in Nat
         /\ IsFiniteSet(DOMAIN r.nodes) /\ Cardinality(DOMAIN r.nodes) \in Nat
         /\ DOMAIN r.nodes \subseteq r.refs
         /\ \A t \in DOMAIN r.nodes : r.nodes[t] \subseteq r.refs
         /\ r.refs \subseteq 1 .. r.next - 1 /\ r.next \in Int
<1>1. r.next \in Int /\ r.refs \subseteq 1 .. r.next - 1
  BY DEF RuntimeSound, Runtimes, TapeSound
<1>2. IsFiniteSet(1 .. r.next - 1)
  <2>1. 1 \in Int /\ r.next - 1 \in Int
    BY <1>1
  <2> QED
    BY <2>1, FS_Interval
<1>3. IsFiniteSet(r.refs)
  BY <1>1, <1>2, FS_Subset
<1>4. /\ DOMAIN r.nodes \subseteq r.refs
      /\ \A t \in DOMAIN r.nodes : r.nodes[t] \subseteq r.refs
  BY DEF RuntimeSound, TapeSound, TapeRoots
<1>5. IsFiniteSet(DOMAIN r.nodes)
  BY <1>3, <1>4, FS_Subset
<1> QED
  BY <1>1, <1>3, <1>4, <1>5, FS_CardinalityType

\* Only what is tracked has a flow, and only what is live is tracked.
LEMMA OnlyLiveFlows ==
  ASSUME NEW r, RuntimeSound(r), FlowSound(r), NEW t \in Ids, t \notin r.refs
  PROVE  r.flow[t] = {}
<1>1. r.tracked \subseteq r.refs
  BY CountsAreFinite DEF RuntimeSound, TapeSound
<1> QED
  BY <1>1 DEF FlowSound

LEMMA NewTidy ==
  ASSUME NEW r, RuntimeSound(r), Tidy(r), r.next \in Ids
  PROVE  /\ New(r).error \in {"none", "TSF-013"}
         /\ New(r).error = "none" =>
              /\ Tidy(New(r).rt) /\ New(r).value = r.next
              /\ New(r).rt.nodes = r.nodes /\ New(r).rt.flow = r.flow
              /\ New(r).rt.tracked = r.tracked /\ New(r).rt.params = r.params
              /\ New(r).rt.refs = r.refs \cup {r.next} /\ New(r).rt.next = r.next + 1
              /\ New(r).rt.silentZero = r.silentZero
<1>1. CASE Cardinality(r.refs) >= MaxLive
  BY <1>1 DEF New, Err
<1>2. CASE ~(Cardinality(r.refs) >= MaxLive)
  <2> DEFINE n == [r EXCEPT !.refs = @ \cup {r.next}, !.next = @ + 1]
  <2>1. New(r) = Ok(n, r.next)
    BY <1>2 DEF New
  <2>2. /\ n.nodes = r.nodes /\ n.flow = r.flow /\ n.tracked = r.tracked
        /\ n.params = r.params /\ n.refs = r.refs \cup {r.next} /\ n.next = r.next + 1
        /\ n.silentZero = r.silentZero
    BY DEF RuntimeSound, Runtimes
  <2> HIDE DEF n
  <2>3. Cardinality(r.refs \cup {r.next}) <= MaxLive
    <3>1. /\ IsFiniteSet(r.refs) /\ Cardinality(r.refs) \in Nat /\ MaxLive \in Nat
          /\ r.refs \subseteq 1 .. r.next - 1
      BY CountsAreFinite, Bounds
    <3>2. r.next \notin r.refs
      BY <3>1 DEF Ids
    <3>3. Cardinality(r.refs \cup {r.next}) = Cardinality(r.refs) + 1
      BY <3>1, <3>2, FS_AddElement
    <3> QED
      BY <1>2, <3>1, <3>3
  <2>4. r.next + 1 \in 1 .. MaxIds + 1
    BY Bounds DEF Ids
  <2>5. Tidy(n)
    BY <2>2, <2>3, <2>4 DEF Tidy
  <2> QED
    BY <2>1, <2>2, <2>5 DEF Ok
<1> QED
  BY <1>1, <1>2

LEMMA NewAccounts ==
  ASSUME NEW r, RuntimeSound(r), Accounted(r), r.next \in Ids
  PROVE  /\ New(r).error \in {"none", "TSF-013"}
         /\ New(r).error = "none" => Accounted(New(r).rt)
<1> DEFINE o == New(r)
<1>1. Tidy(r) /\ FlowSound(r)
  BY DEF Accounted
<1>2. o.error \in {"none", "TSF-013"}
  BY <1>1, NewTidy
<1>3. ASSUME o.error = "none"
      PROVE  Accounted(o.rt)
  <2>1. /\ Tidy(o.rt) /\ o.rt.nodes = r.nodes /\ o.rt.flow = r.flow
        /\ o.rt.tracked = r.tracked /\ o.rt.silentZero = r.silentZero
    BY <1>1, <1>3, NewTidy
  <2>2. \A t \in Ids : Inflow(o.rt, t) = Inflow(r, t)
    BY <2>1 DEF Inflow
  <2> QED
    BY <1>1, <2>1, <2>2 DEF FlowSound, Accounted
<1> QED
  BY <1>2, <1>3

\* After a cut every parameter has itself for a flow, and is tracked.
LEMMA CutFlowSound ==
  ASSUME NEW q, NEW ps, q.flow = CutFlow(ps), ps \subseteq q.tracked, ~q.silentZero
  PROVE  FlowSound(q) /\ \A t \in Ids : q.flow[t] \subseteq 1 .. t
<1>1. \A t \in Ids : q.flow[t] = {t} \cap ps
  BY DEF CutFlow
<1>2. \A t \in Ids : t \in 1 .. t
  BY Bounds DEF Ids
<1> QED
  BY <1>1, <1>2 DEF FlowSound

LEMMA ApplyAccounts ==
  ASSUME NEW r, RuntimeSound(r), Accounted(r), r.next \in Ids, NEW inputs
  PROVE  /\ Apply(r, inputs).error \in {"none", "TSF-013", "TSF-018", "AD-005"}
         /\ Apply(r, inputs).error = "none" => Accounted(Apply(r, inputs).rt)
<1> DEFINE new == New(r)
           f == UNION {r.flow[t] : t \in inputs}
           n == [new.rt EXCEPT !.flow[new.value] = f]
<1>0. Tidy(r) /\ FlowSound(r)
  BY DEF Accounted
<1>1. CASE ~(inputs \subseteq r.refs)
  BY <1>1 DEF Apply, Err
<1>2. CASE inputs \subseteq r.refs /\ new.error # "none"
  BY <1>0, <1>2, NewTidy DEF Apply
<1>3. CASE inputs \subseteq r.refs /\ new.error = "none"
  <2>1. /\ Tidy(new.rt) /\ new.value = r.next
        /\ new.rt.nodes = r.nodes /\ new.rt.flow = r.flow /\ new.rt.tracked = r.tracked
        /\ new.rt.refs = r.refs \cup {r.next} /\ new.rt.silentZero = r.silentZero
    BY <1>0, <1>3, NewTidy
  <2>2. new.rt \in Runtimes
    BY <1>3, NewSound DEF OutcomeSound, RuntimeSound
  <2>3. Apply(r, inputs) = Record(n, r.next, inputs)
    BY <1>3, <2>1 DEF Apply
  <2> HIDE DEF new
  <2>4. /\ n.nodes = r.nodes /\ n.tracked = r.tracked /\ n.refs = new.rt.refs
        /\ n.next = new.rt.next /\ n.silentZero = r.silentZero
        /\ n.flow = [r.flow EXCEPT ![r.next] = f]
    BY <2>1, <2>2 DEF Runtimes
  <2>5. n.flow[r.next] = f /\ \A t \in Ids : t # r.next => n.flow[t] = r.flow[t]
    BY <2>4 DEF RuntimeSound, Runtimes
  <2>6. /\ r.refs \subseteq 1 .. r.next - 1 /\ r.next \in Int
        /\ \A t \in r.refs : t \in Ids /\ t # r.next
        /\ inputs \subseteq 1 .. r.next - 1
    <3>1. r.refs \subseteq 1 .. r.next - 1 /\ r.next \in Int
      BY CountsAreFinite
    <3> QED
      BY <1>3, <3>1, Bounds DEF Ids
  <2>7. f \subseteq 1 .. r.next
    <3>1. ASSUME NEW t \in inputs
          PROVE  r.flow[t] \subseteq 1 .. r.next
      <4>1. r.flow[t] \subseteq 1 .. t
        BY <1>0, <1>3, <2>6 DEF Tidy
      <4> QED
        BY <2>6, <4>1
    <3> QED
      BY <3>1
  <2>8. /\ n.next \in 1 .. MaxIds + 1 /\ Cardinality(n.refs) <= MaxLive
        /\ \A t \in Ids : n.flow[t] \subseteq 1 .. t
    BY <1>0, <2>1, <2>4, <2>5, <2>7 DEF Tidy
  <2> HIDE DEF n
  <2>9. CASE inputs \cap n.tracked = {}
    <3>1. f = {}
      BY <1>0, <1>3, <2>4, <2>6, <2>9 DEF FlowSound
    <3>2. \A t \in Ids : n.flow[t] = r.flow[t]
      BY <1>0, <2>5, <2>6, <3>1, OnlyLiveFlows
    <3>3. \A t \in Ids : Inflow(n, t) = Inflow(r, t)
      <4> SUFFICES ASSUME NEW t \in Ids
                   PROVE  Inflow(n, t) = Inflow(r, t)
        OBVIOUS
      <4>1. CASE t \in DOMAIN r.nodes
        <5>1. \A q \in r.nodes[t] : n.flow[q] = r.flow[q]
          BY <2>6, <3>2, <4>1, CountsAreFinite
        <5>2. {n.flow[q] : q \in r.nodes[t]} = {r.flow[q] : q \in r.nodes[t]}
          BY <5>1
        <5> QED
          BY <2>4, <5>2 DEF Inflow
      <4>2. CASE t \notin DOMAIN r.nodes
        BY <2>4, <4>2 DEF Inflow
      <4> QED
        BY <4>1, <4>2
    <3>4. FlowSound(n)
      BY <1>0, <2>4, <3>2, <3>3 DEF FlowSound
    <3>5. Tidy(n)
      BY <1>0, <2>4, <2>8 DEF Tidy
    <3> QED
      BY <2>3, <2>9, <3>4, <3>5 DEF Record, Ok, Accounted
  <2>10. CASE inputs \cap n.tracked # {} /\ Cardinality(DOMAIN n.nodes) >= MaxNodes
    BY <2>3, <2>10 DEF Record, Err
  <2>11. CASE inputs \cap n.tracked # {} /\ ~(Cardinality(DOMAIN n.nodes) >= MaxNodes)
    <3> DEFINE more == [t \in DOMAIN n.nodes \cup {r.next} |->
                          IF t = r.next THEN inputs ELSE n.nodes[t]]
               m == [n EXCEPT !.nodes = more, !.roots = @ \cup inputs \cup {r.next},
                              !.tracked = @ \cup {r.next}]
    <3>1. Record(n, r.next, inputs) = Ok(m, r.next)
      BY <2>11 DEF Record
    <3>2. n \in Runtimes
      <4>1. f \in SUBSET Int
        BY <2>6, <2>7
      <4> QED
        BY <2>1, <2>2, <4>1 DEF Runtimes, n
    <3>3. /\ m.nodes = more /\ m.tracked = r.tracked \cup {r.next} /\ m.refs = n.refs
          /\ m.next = n.next /\ m.flow = n.flow /\ m.silentZero = r.silentZero
      BY <2>4, <3>2 DEF Runtimes
    <3>4. /\ DOMAIN more = DOMAIN r.nodes \cup {r.next} /\ more[r.next] = inputs
          /\ \A t \in DOMAIN r.nodes : t # r.next => more[t] = r.nodes[t]
      BY <2>4
    <3> HIDE DEF more, m
    <3>5. r.next \notin DOMAIN r.nodes
      BY <2>6, CountsAreFinite
    <3>6. Cardinality(DOMAIN m.nodes) <= MaxNodes
      <4>1. /\ IsFiniteSet(DOMAIN r.nodes) /\ Cardinality(DOMAIN r.nodes) \in Nat
            /\ MaxNodes \in Nat
        BY CountsAreFinite, Bounds
      <4>2. Cardinality(DOMAIN r.nodes \cup {r.next}) = Cardinality(DOMAIN r.nodes) + 1
        BY <3>5, <4>1, FS_AddElement
      <4> QED
        BY <2>4, <2>11, <3>3, <3>4, <4>1, <4>2
    <3>7. \A t \in DOMAIN m.nodes : m.nodes[t] \subseteq 1 .. t - 1
      BY <1>0, <2>6, <3>3, <3>4, <3>5 DEF Tidy
    <3>8. Tidy(m)
      BY <2>8, <3>3, <3>6, <3>7 DEF Tidy
    <3>9. ASSUME NEW t \in Ids
          PROVE  m.flow[t] \subseteq {t} \cup Inflow(m, t)
      <4>1. CASE t = r.next
        <5>1. \A q \in inputs : m.flow[q] = r.flow[q]
          BY <1>3, <2>5, <2>6, <3>3
        <5>2. {m.flow[q] : q \in inputs} = {r.flow[q] : q \in inputs}
          BY <5>1
        <5>3. Inflow(m, t) = f
          BY <3>3, <3>4, <4>1, <5>2 DEF Inflow
        <5> QED
          BY <2>5, <3>3, <4>1, <5>3
      <4>2. CASE t # r.next /\ t \in DOMAIN r.nodes
        <5>1. \A q \in r.nodes[t] : m.flow[q] = r.flow[q]
          BY <2>5, <2>6, <3>3, <4>2, CountsAreFinite
        <5>2. {m.flow[q] : q \in r.nodes[t]} = {r.flow[q] : q \in r.nodes[t]}
          BY <5>1
        <5>3. Inflow(m, t) = Inflow(r, t)
          BY <3>3, <3>4, <4>2, <5>2 DEF Inflow
        <5> QED
          BY <1>0, <2>5, <3>3, <4>2, <5>3 DEF FlowSound
      <4>3. CASE t # r.next /\ t \notin DOMAIN r.nodes
        <5>1. Inflow(m, t) = {} /\ Inflow(r, t) = {}
          BY <3>3, <3>4, <4>3 DEF Inflow
        <5> QED
          BY <1>0, <2>5, <3>3, <4>3, <5>1 DEF FlowSound
      <4> QED
        BY <4>1, <4>2, <4>3
    <3>10. FlowSound(m)
      BY <1>0, <2>5, <3>3, <3>9 DEF FlowSound
    <3> QED
      BY <2>3, <3>1, <3>8, <3>10 DEF Ok, Accounted
  <2> QED
    BY <2>9, <2>10, <2>11
<1> QED
  BY <1>1, <1>2, <1>3

\* Dropping nodes keeps the limits.
LEMMA DropTidy ==
  ASSUME NEW r, RuntimeSound(r), Tidy(r), NEW t
  PROVE  /\ Tidy(DropGraph(r, t))
         /\ DropGraph(r, t).silentZero = r.silentZero
         /\ r.params \subseteq DropGraph(r, t).tracked
<1> DEFINE below == Below(r, t)
           kept == [s \in DOMAIN r.nodes \ below |-> r.nodes[s]]
           n == [r EXCEPT !.nodes = kept, !.roots = TapeRoots(kept),
                          !.tracked = r.params \cup DOMAIN kept]
<1> HIDE DEF below
<1>1. /\ DOMAIN kept = DOMAIN r.nodes \ below
      /\ \A s \in DOMAIN kept : kept[s] = r.nodes[s]
  OBVIOUS
<1> HIDE DEF kept
<1>2. /\ n.nodes = kept /\ n.tracked = r.params \cup DOMAIN kept /\ n.flow = r.flow
      /\ n.refs = r.refs /\ n.next = r.next /\ n.silentZero = r.silentZero
  BY DEF RuntimeSound, Runtimes
<1>3. DropGraph(r, t) = n
  BY DEF DropGraph, kept, below
<1> HIDE DEF n
<1>4. Cardinality(DOMAIN n.nodes) <= MaxNodes
  <2>1. /\ IsFiniteSet(DOMAIN r.nodes) /\ Cardinality(DOMAIN r.nodes) \in Nat
        /\ MaxNodes \in Nat
    BY CountsAreFinite, Bounds
  <2>2. DOMAIN kept \subseteq DOMAIN r.nodes
    BY <1>1
  <2>3. /\ IsFiniteSet(DOMAIN kept)
        /\ Cardinality(DOMAIN kept) <= Cardinality(DOMAIN r.nodes)
    BY <2>1, <2>2, FS_Subset
  <2>4. Cardinality(DOMAIN kept) \in Nat
    BY <2>3, FS_CardinalityType
  <2> QED
    BY <1>2, <2>1, <2>3, <2>4 DEF Tidy
<1>5. Tidy(n)
  BY <1>1, <1>2, <1>4 DEF Tidy
<1> QED
  BY <1>2, <1>3, <1>5

LEMMA CopyAccounts ==
  ASSUME NEW r, RuntimeSound(r), Accounted(r), r.next \in Ids, NEW t, NEW b \in BOOLEAN
  PROVE  /\ Copy(r, t, b).error \in {"none", "TSF-013", "TSF-018"}
         /\ Copy(r, t, b).error = "none" => Accounted(Copy(r, t, b).rt)
<1> DEFINE d == DropGraph(r, t)
           new == New(d)
           as == IF b THEN {new.value} ELSE {}
           flow == CutFlow(r.params \cup as)
           n == [new.rt EXCEPT !.tracked = @ \cup as, !.params = @ \cup as, !.flow = flow]
<1>0. Tidy(r) /\ ~r.silentZero
  BY DEF Accounted, FlowSound
<1>1. /\ RuntimeSound(d) /\ d.next = r.next
      /\ Tidy(d) /\ d.silentZero = r.silentZero /\ r.params \subseteq d.tracked
  BY <1>0, DropGraphSound, DropTidy
<1> HIDE DEF d
<1>2. CASE t \notin r.refs
  BY <1>2 DEF Copy, Err
<1>3. CASE t \in r.refs /\ new.error # "none"
  <2>1. new.error = "TSF-013"
    BY <1>1, <1>3, NewTidy
  <2> QED
    BY <1>3, <2>1 DEF Copy, d
<1>4. CASE t \in r.refs /\ new.error = "none"
  <2>1. /\ Tidy(new.rt) /\ new.rt.nodes = d.nodes /\ new.rt.tracked = d.tracked
        /\ new.rt.silentZero = d.silentZero
    BY <1>1, <1>4, NewTidy
  <2>2. new.rt \in Runtimes
    BY <1>1, <1>4, NewSound DEF OutcomeSound, RuntimeSound
  <2>3. Copy(r, t, b) = Ok(n, new.value)
    BY <1>4 DEF Copy, d
  <2> HIDE DEF new, as
  <2>4. /\ n.nodes = new.rt.nodes /\ n.tracked = new.rt.tracked \cup as
        /\ n.refs = new.rt.refs /\ n.next = new.rt.next /\ n.flow = flow
        /\ n.silentZero = new.rt.silentZero
    BY <2>2 DEF Runtimes
  <2> HIDE DEF n
  <2>5. FlowSound(n) /\ \A s \in Ids : n.flow[s] \subseteq 1 .. s
    <3>1. PICK ps : ps = r.params \cup as
      OBVIOUS
    <3>2. n.flow = CutFlow(ps) /\ ps \subseteq n.tracked /\ ~n.silentZero
      BY <1>0, <1>1, <2>1, <2>4, <3>1
    <3> QED
      BY <3>2, CutFlowSound
  <2>6. Tidy(n)
    BY <2>1, <2>4, <2>5 DEF Tidy
  <2> QED
    BY <2>3, <2>5, <2>6 DEF Ok, Accounted
<1> QED
  BY <1>2, <1>3, <1>4

\* The gradient of a live loss meets every parameter the loss comes from.
LEMMA GradAccounts ==
  ASSUME NEW r, RuntimeSound(r), Accounted(r), r.next \in Ids, NEW loss, NEW p
  PROVE  /\ Grad(r, loss, p).error \in {"none", "TSF-013", "TSF-018", "AD-003"}
         /\ Grad(r, loss, p).error = "none" => Accounted(Grad(r, loss, p).rt)
<1> DEFINE new == New(r)
           flow == CutFlow(r.params)
           zero == new.rt.silentZero \/ (p \in r.flow[loss] \ Below(r, loss))
           n == [new.rt EXCEPT !.nodes = <<>>, !.roots = {},
                   !.params = @ \cap new.rt.refs, !.tracked = r.params \cap new.rt.refs,
                   !.flow = flow, !.silentZero = zero]
<1>0. Tidy(r) /\ FlowSound(r)
  BY DEF Accounted
<1>1. new.error \in {"none", "TSF-013"}
  BY <1>0, NewTidy
<1>2. Grad(r, loss, p).error \in {"none", "TSF-013", "TSF-018", "AD-003"}
  <2> HIDE DEF new
  <2>1. \/ Grad(r, loss, p).error \in {"TSF-018", "AD-003"}
        \/ Grad(r, loss, p) = new
        \/ Grad(r, loss, p).error = "none"
    BY DEF Grad, Err, Ok, new
  <2> QED
    BY <1>1, <2>1
<1>3. CASE Grad(r, loss, p).error = "none"
  <2>1. Grad(r, loss, p) = Ok(n, new.value) /\ new.error = "none" /\ loss \in r.refs
    BY <1>3 DEF Grad, Err
  <2>2. /\ Tidy(new.rt) /\ new.rt.params = r.params /\ new.rt.silentZero = r.silentZero
        /\ new.rt.refs = r.refs \cup {r.next}
    BY <1>0, <2>1, NewTidy
  <2>3. new.rt \in Runtimes
    BY <2>1, NewSound DEF OutcomeSound, RuntimeSound
  <2>4. loss \in Ids
    BY <2>1, CountsAreFinite, Bounds DEF Ids
  <2>5. ~zero
    BY <1>0, <2>2, <2>4, BelowHasTheFlow DEF FlowSound
  <2>6. r.params \subseteq r.refs
    BY DEF RuntimeSound, TapeSound
  <2> HIDE DEF new, zero, flow
  <2>7. /\ n.nodes = <<>> /\ n.tracked = r.params \cap new.rt.refs
        /\ n.refs = new.rt.refs /\ n.next = new.rt.next /\ n.flow = flow
        /\ n.silentZero = zero
    BY <2>3 DEF Runtimes
  <2> HIDE DEF n
  <2>8. DOMAIN n.nodes = {} /\ Cardinality(DOMAIN n.nodes) <= MaxNodes
    <3>1. DOMAIN <<>> = {}
      OBVIOUS
    <3> QED
      BY <2>7, <3>1, FS_EmptySet, Bounds
  <2>9. FlowSound(n) /\ \A s \in Ids : n.flow[s] \subseteq 1 .. s
    <3>1. n.flow = CutFlow(r.params)
      BY <2>7 DEF flow
    <3>2. r.params \subseteq n.tracked /\ ~n.silentZero
      BY <2>2, <2>5, <2>6, <2>7
    <3> QED
      BY <3>1, <3>2, CutFlowSound
  <2>10. Tidy(n)
    BY <2>2, <2>7, <2>8, <2>9 DEF Tidy
  <2> QED
    BY <2>1, <2>9, <2>10 DEF Ok, Accounted
<1> QED
  BY <1>2, <1>3

LEMMA OutcomesAccount ==
  ASSUME RuntimeSound(rt), Accounted(rt), rt.next \in Ids, NEW o \in Outcomes
  PROVE  /\ o.error \in {"none", "TSF-013", "TSF-018", "AD-003", "AD-005"}
         /\ o.error = "none" => Accounted(o.rt)
<1>1. \/ o = New(rt)
      \/ \E inputs : o = Apply(rt, inputs)
      \/ \E t : \E b \in BOOLEAN : o = Copy(rt, t, b)
      \/ \E loss, p : o = Grad(rt, loss, p)
  BY DEF Outcomes
<1>2. CASE o = New(rt)
  BY <1>2, NewAccounts
<1>3. CASE \E inputs : o = Apply(rt, inputs)
  BY <1>3, ApplyAccounts
<1>4. CASE \E t : \E b \in BOOLEAN : o = Copy(rt, t, b)
  BY <1>4, CopyAccounts
<1>5. CASE \E loss, p : o = Grad(rt, loss, p)
  BY <1>5, GradAccounts
<1> QED
  BY <1>1, <1>2, <1>3, <1>4, <1>5

-----------------------------------------------------------------------------
(* The steps keep the limits and the flow.                                   *)

\* A collect keeps the inputs of the nodes it keeps, with what they came from.
LEMMA CollectAccounts ==
  ASSUME NEW r, RuntimeSound(r), Accounted(r), NEW env, NEW fs, NEW prot,
         Collect(r, env, fs, prot)
  PROVE  Accounted(rt')
<1> DEFINE kept == r.refs \cap Reachable(r, env, fs, prot)
           flow == [t \in Ids |-> IF t \in kept THEN r.flow[t] ELSE {}]
           n == [r EXCEPT !.refs = kept, !.tracked = @ \cap kept,
                          !.params = @ \cap kept, !.flow = flow]
<1>0. Tidy(r) /\ FlowSound(r) /\ r \in Runtimes /\ TapeSound(r)
  BY DEF Accounted, RuntimeSound
<1>1. r.roots \subseteq kept /\ kept \subseteq r.refs
  BY <1>0 DEF Reachable, TapeSound
<1>2. rt' = n
  BY <1>0 DEF Collect, Runtimes
<1> HIDE DEF kept
<1>3. \A t \in Ids : flow[t] = IF t \in kept THEN r.flow[t] ELSE {}
  OBVIOUS
<1> HIDE DEF flow
<1>4. /\ n.nodes = r.nodes /\ n.refs = kept /\ n.next = r.next /\ n.flow = flow
      /\ n.tracked = r.tracked \cap kept /\ n.silentZero = r.silentZero
  BY <1>0 DEF Runtimes
<1> HIDE DEF n
<1>5. Cardinality(n.refs) <= MaxLive
  <2>1. /\ IsFiniteSet(r.refs) /\ Cardinality(r.refs) \in Nat /\ MaxLive \in Nat
    BY CountsAreFinite, Bounds
  <2>2. IsFiniteSet(kept) /\ Cardinality(kept) <= Cardinality(r.refs)
    BY <1>1, <2>1, FS_Subset
  <2>3. Cardinality(kept) \in Nat
    BY <2>2, FS_CardinalityType
  <2> QED
    BY <1>0, <1>4, <2>1, <2>2, <2>3 DEF Tidy
<1>6. \A t \in Ids : n.flow[t] \subseteq r.flow[t]
  BY <1>3, <1>4
<1>7. Tidy(n)
  BY <1>0, <1>4, <1>5, <1>6 DEF Tidy
<1>8. ASSUME NEW t \in Ids, t \in DOMAIN r.nodes
      PROVE  Inflow(n, t) = Inflow(r, t)
  <2>1. \A q \in r.nodes[t] : q \in kept /\ q \in r.refs
    BY <1>0, <1>1, <1>8 DEF TapeSound, TapeRoots
  <2>2. \A q \in r.refs : q \in Ids
    BY <1>0, CountsAreFinite, Bounds DEF Tidy, Ids
  <2>3. \A q \in r.nodes[t] : n.flow[q] = r.flow[q]
    BY <1>3, <1>4, <2>1, <2>2
  <2>4. {n.flow[q] : q \in r.nodes[t]} = {r.flow[q] : q \in r.nodes[t]}
    BY <2>3
  <2> QED
    BY <1>4, <1>8, <2>4 DEF Inflow
<1>9. ASSUME NEW t \in Ids
      PROVE  n.flow[t] \subseteq {t} \cup Inflow(n, t)
  <2>1. CASE t \in DOMAIN r.nodes
    BY <1>0, <1>6, <1>8, <2>1 DEF FlowSound
  <2>2. CASE t \notin DOMAIN r.nodes
    BY <1>0, <1>6, <2>2 DEF FlowSound, Inflow
  <2> QED
    BY <2>1, <2>2
<1>10. \A t \in Ids : n.flow[t] # {} => t \in n.tracked
  BY <1>0, <1>3, <1>4 DEF FlowSound
<1>11. FlowSound(n)
  BY <1>0, <1>4, <1>9, <1>10 DEF FlowSound
<1> QED
  BY <1>2, <1>7, <1>11 DEF Accounted

LEMMA FreshAccounts ==
  ASSUME NEW r, r.refs = {}, r.next = 1, r.nodes = <<>>, r.tracked = {},
         r.flow = [t \in Ids |-> {}], ~r.silentZero
  PROVE  Accounted(r)
<1>1. Cardinality({}) = 0 /\ DOMAIN <<>> = {}
  BY FS_EmptySet
<1>2. Tidy(r)
  BY <1>1, Bounds DEF Tidy
<1>3. FlowSound(r)
  BY DEF FlowSound
<1> QED
  BY <1>2, <1>3 DEF Accounted

LEMMA FailAccounts ==
  ASSUME FlowSound(rt), NEW code, Fail(code)
  PROVE  Accounted(rt')
<1> DEFINE n == [Fresh EXCEPT !.silentZero = rt.silentZero]
<1>1. /\ n.refs = {} /\ n.next = 1 /\ n.nodes = <<>> /\ n.tracked = {}
      /\ n.flow = [t \in Ids |-> {}] /\ n.silentZero = rt.silentZero
  BY DEF Fresh
<1> HIDE DEF n
<1>2. Accounted(n)
  BY <1>1, FreshAccounts DEF FlowSound
<1> QED
  BY <1>2 DEF Fail, n

Codes == {"TSF-013", "TSF-018", "AD-003", "AD-005", "RT-CALL-003"}

\* Calls are as deep as the evaluator lets them be, and errors have a code.
CallsBounded == Len(frames) <= MaxDepth + 1 /\ error \in Codes \cup {"none"}

LEMMA FailBounds ==
  ASSUME NEW code \in Codes, Fail(code)
  PROVE  CallsBounded'
<1>1. frames' = <<>> /\ error' = code
  BY DEF Fail
<1>2. Len(<<>>) = 0 /\ 0 <= MaxDepth + 1
  BY Bounds
<1> QED
  BY <1>1, <1>2 DEF CallsBounded

LEMMA EndStatementAccounts ==
  ASSUME FlowSound(rt), NEW o, o.error \in Codes \cup {"none"},
         o.error = "none" => RuntimeSound(o.rt) /\ Accounted(o.rt),
         NEW fs, NEW prot, StackSound(fs, prot), Len(fs) >= 1, Len(fs) <= MaxDepth + 1,
         NEW target, EndStatement(o, fs, prot, target), error = "none",
         o.error = "none" => o.value \in Values
  PROVE  Accounted(rt') /\ CallsBounded'
<1>1. CASE o.error # "none"
  BY <1>1, FailAccounts, FailBounds DEF EndStatement
<1>2. CASE o.error = "none"
  <2> DEFINE top == Len(fs)
             env == [v \in Vars |-> IF v = target THEN o.value ELSE fs[top].env[v]]
             gs == [fs EXCEPT ![top].env = env]
  <2>1. Collect(o.rt, env, gs, prot) /\ UNCHANGED <<calculations, error>>
    BY <1>2 DEF EndStatement
  <2>2. /\ fs \in Seq(Frames) /\ top \in Nat /\ top \in 1 .. top /\ fs[top] \in Frames
    BY DEF StackSound
  <2>3. env \in [Vars -> Values]
    BY <1>2, <2>2 DEF Frames
  <2> HIDE DEF env
  <2>4. [fs[top] EXCEPT !.env = env] \in Frames
    BY <2>2, <2>3 DEF Frames
  <2>5. gs \in Seq(Frames) /\ Len(gs) = top
    BY <2>2, <2>4
  <2> HIDE DEF gs
  <2>6. StackSound(gs, prot)
    BY <2>5 DEF StackSound
  <2>7. Len(frames') = Len(fs)
    BY <2>1, <2>5, <2>6, CollectSpares
  <2>8. Accounted(rt')
    BY <1>2, <2>1, CollectAccounts
  <2>9. CallsBounded'
    BY <2>1, <2>7 DEF CallsBounded
  <2> QED
    BY <2>8, <2>9
<1> QED
  BY <1>1, <1>2

LEMMA AppendedLength ==
  ASSUME NEW S, NEW s \in Seq(S), NEW k \in 1 .. Len(s), NEW x, NEW y
  PROVE  Len(Append([s EXCEPT ![k] = x], y)) = Len(s) + 1
<1> DEFINE q == [s EXCEPT ![k] = x]
<1>1. q \in Seq(S \cup {x}) /\ Len(q) = Len(s)
  <2>1. s \in Seq(S \cup {x}) /\ x \in S \cup {x}
    OBVIOUS
  <2> QED
    BY <2>1, Replaced
<1> HIDE DEF q
<1>2. Len(Append(q, y)) = Len(q) + 1
  <2>1. q \in Seq(S \cup {x, y})
    BY <1>1
  <2> QED
    BY <2>1
<1> QED
  BY <1>1, <1>2 DEF q

LEMMA StepAccounts ==
  ASSUME RuntimeSound(rt), FramesSound, Accounted(rt), CallsBounded, [Next]_vars
  PROVE  Accounted(rt') /\ CallsBounded'
<1>0. /\ Len(frames) \in Nat /\ Len(frames) <= MaxDepth + 1 /\ MaxDepth \in Nat
      /\ frames \in Seq(Frames) /\ StackSound(frames, protected) /\ FlowSound(rt)
  BY Bounds DEF FramesSound, StackSound, CallsBounded, Accounted
<1>t. error = "none" => Top \in Frames /\ Len(frames) >= 1
  BY <1>0 DEF FramesSound, Top, Depth
<1>1. ASSUME NEW target, Statement(target)
      PROVE  Accounted(rt') /\ CallsBounded'
  <2>1. PICK o \in Outcomes : EndStatement(o, frames, protected, target)
    BY <1>1 DEF Statement
  <2>2. rt.next \in Ids /\ error = "none"
    BY <1>1 DEF Statement, Running
  <2>3. o.error = "none" => RuntimeSound(o.rt) /\ o.value \in Values
    BY <2>2, OutcomesSound DEF OutcomeSound
  <2>4. o.error \in Codes \cup {"none"} /\ (o.error = "none" => Accounted(o.rt))
    BY <2>2, OutcomesAccount DEF Codes
  <2> QED
    BY <1>0, <1>t, <2>1, <2>2, <2>3, <2>4, EndStatementAccounts
<1>2. ASSUME NEW v \in Vars, NEW b \in BOOLEAN, Call(v, b)
      PROVE  Accounted(rt') /\ CallsBounded'
  <2> DEFINE new == IF b THEN New(rt) ELSE Ok(rt, None)
             gs == Append([frames EXCEPT ![Depth].pending = new.value],
                          Frame([Unbound EXCEPT ![Param] = Top.env[v]]))
  <2>1. rt.next \in Ids /\ error = "none"
    BY <1>2 DEF Call, Running
  <2>2. new.error \in Codes \cup {"none"} /\ (new.error = "none" => Accounted(new.rt))
    <3>1. New(rt).error \in {"none", "TSF-013"}
      BY <2>1, NewAccounts
    <3>2. New(rt).error = "none" => Accounted(New(rt).rt)
      BY <2>1, NewAccounts
    <3> QED
      BY <3>1, <3>2 DEF Ok, Codes
  <2>3. \/ \E code \in Codes : Fail(code)
        \/ /\ new.error = "none" /\ rt' = new.rt /\ ~(Len(frames) > MaxDepth)
           /\ frames' = gs /\ UNCHANGED error
    BY <1>2, <2>2 DEF Call, Depth, Codes
  <2>4. Len(gs) = Len(frames) + 1
    <3>1. PICK x : x = [frames[Depth] EXCEPT !.pending = new.value]
      OBVIOUS
    <3>2. PICK y : y = Frame([Unbound EXCEPT ![Param] = Top.env[v]])
      OBVIOUS
    <3>3. gs = Append([frames EXCEPT ![Depth] = x], y)
      <4> HIDE DEF new
      <4> QED
        BY <3>1, <3>2
    <3>4. Depth \in 1 .. Len(frames)
      BY <1>0, <1>t, <2>1 DEF Depth
    <3> HIDE DEF gs, new
    <3> QED
      BY <1>0, <3>3, <3>4, AppendedLength
  <2> HIDE DEF new, gs
  <2>5. CASE \E code \in Codes : Fail(code)
    BY <1>0, <2>5, FailAccounts, FailBounds
  <2>6. CASE /\ new.error = "none" /\ rt' = new.rt /\ ~(Len(frames) > MaxDepth)
             /\ frames' = gs /\ UNCHANGED error
    <3>1. Accounted(rt')
      BY <2>2, <2>6
    <3>2. CallsBounded'
      BY <1>0, <2>1, <2>4, <2>6 DEF CallsBounded
    <3> QED
      BY <3>1, <3>2
  <2> QED
    BY <2>3, <2>5, <2>6
<1>3. ASSUME NEW v \in Vars, NEW target, Return(v, target)
      PROVE  Accounted(rt') /\ CallsBounded'
  <2> DEFINE pending == frames[Depth - 1].pending
             o == IF pending = None THEN Ok(rt, Top.env[v])
                  ELSE Apply(rt, {pending, Top.env[v]})
             fs == [Front(frames) EXCEPT ![Len(frames) - 1].pending = None]
  <2>1. error = "none" /\ Len(frames) > 1 /\ (pending # None => rt.next \in Ids)
    BY <1>3 DEF Return, Depth
  <2>2. o.error = "none" => RuntimeSound(o.rt) /\ o.value \in Values
    BY <1>t, <2>1, ApplySound DEF OutcomeSound, Ok, Frames
  <2>3. o.error \in Codes \cup {"none"} /\ (o.error = "none" => Accounted(o.rt))
    <3>1. CASE pending = None
      BY <3>1 DEF Ok
    <3>2. CASE pending # None
      BY <2>1, <3>2, ApplyAccounts DEF Codes
    <3> QED
      BY <3>1, <3>2
  <2>4. EndStatement(o, fs, Front(protected), target)
    BY <1>3 DEF Return, Depth
  <2> HIDE DEF o
  <2>5. StackSound(fs, Front(protected)) /\ Len(fs) = Len(frames) - 1
    BY <1>0, <2>1, Popped
  <2> HIDE DEF fs
  <2>6. Len(fs) >= 1 /\ Len(fs) <= MaxDepth + 1
    BY <1>0, <2>1, <2>5
  <2> QED
    BY <1>0, <2>1, <2>2, <2>3, <2>4, <2>5, <2>6, EndStatementAccounts
<1>4. ASSUME NEW v \in Vars, NEW w \in Vars, ForStart(v, w)
      PROVE  Accounted(rt') /\ CallsBounded'
  <2>1. rt.next \in Ids /\ error = "none"
    BY <1>4 DEF ForStart, Running
  <2>2. New(rt).error \in {"none", "TSF-013"}
    BY <2>1, NewAccounts
  <2>3. New(rt).error = "none" => Accounted(New(rt).rt)
    BY <2>1, NewAccounts
  <2>4. \/ \E code \in Codes : Fail(code)
        \/ New(rt).error = "none" /\ rt' = New(rt).rt /\ UNCHANGED error
           /\ frames' = [frames EXCEPT ![Depth].env[v] = Top.env[w],
                                       ![Depth].loop = New(rt).value]
    BY <1>4, <2>2 DEF ForStart, Codes
  <2>5. CASE \E code \in Codes : Fail(code)
    BY <1>0, <2>5, FailAccounts, FailBounds
  <2>6. frames' = [frames EXCEPT ![Depth].env[v] = Top.env[w],
                                 ![Depth].loop = New(rt).value]
        => Len(frames') = Len(frames)
    BY <1>0
  <2> QED
    BY <2>3, <2>4, <2>5, <2>6 DEF CallsBounded
<1>5. ASSUME NEW v, ForNext(v)
      PROVE  Accounted(rt') /\ CallsBounded'
  <2>1. Len(frames') = Len(frames)
    BY <1>0, <1>5 DEF ForNext
  <2> QED
    BY <1>5, <2>1 DEF ForNext, CallsBounded
<1>6. ASSUME NEW env \in [Vars -> Values], Collect(rt, env, <<Frame(env)>>, protected),
             Len(frames) = 1, UNCHANGED error
      PROVE  Accounted(rt') /\ CallsBounded'
  <2>1. Frame(env) \in Frames
    BY DEF Frame, Frames, Values
  <2>2. StackSound(<<Frame(env)>>, protected) /\ Len(<<Frame(env)>>) = 1
    BY <1>0, <1>6, <2>1 DEF StackSound
  <2>3. Len(frames') = 1
    BY <1>6, <2>2, CollectSpares
  <2> QED
    BY <1>0, <1>6, <2>3, CollectAccounts DEF CallsBounded
<1>7. ASSUME NEW name \in Results, NEW v \in Vars, Result(name, v)
      PROVE  Accounted(rt') /\ CallsBounded'
  <2>1. calculations' \in [Vars -> Values]
    BY <1>7, <1>t, Bounds DEF Result, Frames, FramesSound
  <2> QED
    BY <1>6, <1>7, <2>1 DEF Result, Depth
<1>8. CASE NoResult
  BY <1>6, <1>8 DEF NoResult, Depth, FramesSound
<1>9. CASE UNCHANGED vars
  BY <1>9 DEF vars, CallsBounded
<1> QED
  BY <1>1, <1>2, <1>3, <1>4, <1>5, <1>7, <1>8, <1>9 DEF Next

\* The runtime and the evaluator stay within the limits of the policy, and
\* what a tensor was computed from stays on the tape below it, through
\* statements, calls, loops, cuts, gradients and collections in any order.
THEOREM RuntimeIsAccounted ==
  Spec => [](RuntimeSound(rt) /\ FramesSound /\ Accounted(rt) /\ CallsBounded)
<1> DEFINE IInv == RuntimeSound(rt) /\ FramesSound /\ Accounted(rt) /\ CallsBounded
<1>1. Init => IInv
  <2> SUFFICES ASSUME Init
               PROVE  IInv
    OBVIOUS
  <2>1. RuntimeSound(rt) /\ FramesSound
    BY FreshSound, FramesStartSound DEF Init
  <2>2. Accounted(rt)
    BY FreshAccounts DEF Init, Fresh
  <2>3. CallsBounded
    BY Bounds DEF Init, CallsBounded
  <2> QED
    BY <2>1, <2>2, <2>3
<1>2. IInv /\ [Next]_vars => IInv'
  <2> SUFFICES ASSUME IInv, [Next]_vars
               PROVE  IInv'
    OBVIOUS
  <2>1. RuntimeSound(rt)' /\ FramesSound'
    BY StepKeepsRuntime, StepSpares
  <2>2. Accounted(rt)' /\ CallsBounded'
    BY StepAccounts
  <2> QED
    BY <2>1, <2>2
<1> QED
  BY <1>1, <1>2, PTL DEF Spec

\* TypeOK, for any names and any limits: no more tensors live and no more
\* nodes on the tape than TensorPolicy allows, calls no deeper than
\* max_call_depth, exactly the suspended frames protected, and a tape whose
\* nodes refer to older tensors only.
THEOREM LimitsHold == Spec => []TypeOK
<1>1. RuntimeSound(rt) /\ FramesSound /\ Accounted(rt) /\ CallsBounded => TypeOK
  <2> SUFFICES ASSUME RuntimeSound(rt), FramesSound, Accounted(rt), CallsBounded
               PROVE  TypeOK
    OBVIOUS
  <2>1. /\ rt.next \in 1 .. MaxIds + 1 /\ rt.refs \subseteq 1 .. rt.next - 1
        /\ Cardinality(rt.refs) <= MaxLive /\ Cardinality(DOMAIN rt.nodes) <= MaxNodes
        /\ \A t \in Ids : rt.flow[t] \subseteq 1 .. t
        /\ \A t \in DOMAIN rt.nodes : rt.nodes[t] \subseteq 1 .. t - 1
    BY CountsAreFinite DEF Accounted, Tidy
  <2>2. \A t \in DOMAIN rt.nodes : t \in Ids
    <3>1. DOMAIN rt.nodes \subseteq rt.refs
      BY CountsAreFinite
    <3> QED
      BY <2>1, <3>1, Bounds DEF Ids
  <2>3. rt.silentZero \in BOOLEAN
    BY DEF RuntimeSound, Runtimes
  <2>4. \A i \in DOMAIN frames : /\ frames[i].env \in [Vars -> Values]
                                 /\ {frames[i].pending, frames[i].loop} \subseteq Values
    <3>1. \A i \in DOMAIN frames : frames[i] \in Frames
      BY DEF FramesSound, StackSound
    <3> QED
      BY <3>1 DEF Frames
  <2>5. /\ Len(frames) <= MaxDepth + 1
        /\ error \in {"none", "TSF-013", "TSF-018", "AD-003", "AD-005", "RT-CALL-003"}
    BY DEF CallsBounded, Codes
  <2>6. /\ protected = [i \in 1 .. Len(frames) - 1 |-> i]
        /\ calculations \in [Vars -> Values]
    BY DEF FramesSound, StackSound
  <2> QED
    BY <2>1, <2>2, <2>3, <2>4, <2>5, <2>6 DEF TypeOK
<1> QED
  BY <1>1, RuntimeIsAccounted, PTL

\* FreshGradientsAreComplete, for any program and any limits: a gradient is
\* never silently zeros for a parameter that the loss was computed from since
\* the tape was last cut, however many statements and calls collected between.
THEOREM GradientsAreComplete == Spec => []FreshGradientsAreComplete
<1>1. Accounted(rt) => FreshGradientsAreComplete
  BY DEF Accounted, FlowSound, FreshGradientsAreComplete
<1> QED
  BY <1>1, RuntimeIsAccounted, PTL
=============================================================================
