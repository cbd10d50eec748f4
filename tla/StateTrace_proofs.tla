-------------------------- MODULE StateTrace_proofs --------------------------
(***************************************************************************)
(* Proofs about StateTrace, for any variables, addresses and integers and  *)
(* any lengths.                                                            *)
(*                                                                         *)
(* The traced copy and the alias index are only correct together: a write  *)
(* finds the places to replace in the index, and the index is kept by      *)
(* where the copy says the old value was.  FrameOK(h, f) says both of one  *)
(* frame and one heap; WellFormed(h, fs) says it of every frame of a heap  *)
(* that holds what it should, and is followed from the heap and the frames *)
(* a step builds to what is left when the unreachable containers are freed.*)
(***************************************************************************)
EXTENDS StateTrace, FiniteSetTheorems, TLAPS

TraceFields == {"on", "state", "digest", "aliases", "loops", "begun", "previous",
                "changes", "seen", "reader"}

Contents(h, c) ==
    IF c \in Rows THEN h[c] \in Ints
    ELSE c \in Tables /\ h[c] \in BoundedSeq(Rows \cap DOMAIN h, MaxLength)

HeapSound(h) ==
  /\ h = [c \in DOMAIN h |-> h[c]]
  /\ \A c \in DOMAIN h : Contents(h, c)

\* v is a value, and the container it refers to, if any, is there.
Denotes(h, v) == v \in Values /\ (IsContainer(v) => v[2] \in DOMAIN h)

EnvSound(h, env) ==
  /\ DOMAIN env \subseteq Names
  /\ env = [x \in DOMAIN env |-> env[x]]
  /\ \A x \in DOMAIN env : Denotes(h, env[x])

\* The entries of the index for a value at a path.
Entries(h, v, p) == IF IsContainer(v) THEN {<<v[2], p>>} \cup Inside(h, v, p) ELSE {}
AllEntries(h, env) == UNION {Entries(h, env[x], Root(x)) : x \in DOMAIN env}

Copy(h, env) == [x \in DOMAIN env |-> ToJson(h, env[x])]

Exact(ts, h, env) ==
  /\ DOMAIN ts = TraceFields
  /\ ts.on = TRUE
  /\ ts.state = Copy(h, env)
  /\ ts.aliases = AllEntries(h, env)

-----------------------------------------------------------------------------
(* Values and paths.                                                         *)

LEMMA ValueKinds ==
  ASSUME NEW v \in Values
  PROVE  \/ \E n \in Scalars : v = Num(n)
         \/ \E r \in Rows : v = Row(r)
         \/ \E t \in Tables : v = <<"table", t>>
BY DEF Values

LEMMA NumJson ==
  ASSUME NEW h, NEW n
  PROVE  ToJson(h, Num(n)) = Num(n) /\ ~IsContainer(Num(n))
BY DEF ToJson, Num, IsContainer

LEMMA RowJson ==
  ASSUME NEW h, NEW r
  PROVE  ToJson(h, Row(r)) = ObjectOf(h, r) /\ IsContainer(Row(r)) /\ Row(r)[2] = r
BY DEF ToJson, Row, IsContainer

Objects(h, t) == [m \in 1 .. Len(h[t]) |-> ObjectOf(h, h[t][m])]

LEMMA TableJson ==
  ASSUME NEW h, NEW t
  PROVE  ToJson(h, <<"table", t>>) = <<"array", Objects(h, t)>> /\ IsContainer(<<"table", t>>)
BY DEF ToJson, IsContainer, Objects

LEMMA JsonIsSet ==
  ASSUME NEW h, NEW v \in Values
  PROVE  ToJson(h, v) # Unset
<1>1. Unset[1] = "unset"
  BY DEF Unset
<1>2. CASE \E n \in Scalars : v = Num(n)
  <2>1. ToJson(h, v)[1] = "int"
    BY <1>2, NumJson DEF Num
  <2> QED
    BY <1>1, <2>1
<1>3. CASE \E r \in Rows : v = Row(r)
  <2>1. ToJson(h, v)[1] = "object"
    BY <1>3, RowJson DEF ObjectOf
  <2> QED
    BY <1>1, <2>1
<1>4. CASE \E t \in Tables : v = <<"table", t>>
  <2>1. \A t : ToJson(h, <<"table", t>>)[1] = "array"
    BY DEF ToJson
  <2>2. ToJson(h, v)[1] = "array"
    BY <1>4, <2>1
  <2> QED
    BY <1>1, <2>2
<1> QED
  BY <1>2, <1>3, <1>4, ValueKinds

LEMMA ItemsAre ==
  ASSUME NEW x
  PROVE  /\ Root(x).root = x /\ Root(x).index = Whole /\ Root(x).field = FALSE
         /\ \A i : Item(Root(x), i) = [root |-> x, index |-> i - 1, field |-> FALSE] \/ i - 1 = Whole
         /\ \A i : Field(Item(Root(x), i)) = [root |-> x, index |-> Item(Root(x), i).index, field |-> TRUE]
BY DEF Root, Item, Extended, ToItem, Field, ToField

LEMMA TablesAre ==
  ASSUME NEW h, HeapSound(h), NEW t \in Tables, t \in DOMAIN h
  PROVE  /\ h[t] \in Seq(Rows \cap DOMAIN h)
         /\ Len(h[t]) \in 0 .. MaxLength
         /\ DOMAIN h[t] = 1 .. Len(h[t])
         /\ \A i \in 1 .. Len(h[t]) : h[t][i] \in Rows \cap DOMAIN h
<1>1. t \notin Rows
  BY SizesAssumption
<1>2. h[t] \in BoundedSeq(Rows \cap DOMAIN h, MaxLength)
  BY <1>1 DEF HeapSound, Contents
<1>3. PICK m \in 0 .. MaxLength : h[t] \in [1 .. m -> Rows \cap DOMAIN h]
  BY <1>2 DEF BoundedSeq, SeqOf
<1>4. m \in Nat /\ Len(h[t]) = m
  BY <1>3, SizesAssumption
<1> QED
  BY <1>3, <1>4

LEMMA NoEntries ==
  ASSUME NEW h, NEW p, NEW n
  PROVE  Entries(h, Num(n), p) = {} /\ Entries(h, Unset, p) = {}
BY DEF Entries, IsContainer, Num, Unset

LEMMA RowEntries ==
  ASSUME NEW h, NEW p, NEW r
  PROVE  Entries(h, Row(r), p) = {<<r, p>>}
BY DEF Entries, Inside, IsContainer, Row

LEMMA TableEntries ==
  ASSUME NEW h, NEW p, NEW t
  PROVE  Entries(h, <<"table", t>>, p) =
            {<<t, p>>} \cup {<<h[t][i], Item(p, i)>> : i \in 1 .. Len(h[t])}
BY DEF Entries, Inside, IsContainer

LEMMA EntriesStay ==
  ASSUME NEW h, NEW v \in Values \cup {Unset}, NEW x
  PROVE  \A a \in Entries(h, v, Root(x)) : a[2].root = x
<1>1. \A i : Item(Root(x), i).root = x
  BY DEF Item, Extended, Root
<1>2. Root(x).root = x
  BY DEF Root
<1>3. CASE v = Unset \/ \E n \in Scalars : v = Num(n)
  BY <1>3, NoEntries
<1>4. CASE \E r \in Rows : v = Row(r)
  BY <1>2, <1>4, RowEntries
<1>5. CASE \E t \in Tables : v = <<"table", t>>
  BY <1>1, <1>2, <1>5, TableEntries
<1> QED
  BY <1>3, <1>4, <1>5, ValueKinds

-----------------------------------------------------------------------------
(* Rewriting one place after the other.                                      *)

\* Intervals from 0 are ordered by inclusion, which is well founded.
LEMMA LeastElement ==
  ASSUME NEW T \in SUBSET Nat, T # {}
  PROVE  \E k \in T : \A j \in T : k <= j
<1> DEFINE Intervals == {0 .. k : k \in T}
<1>1. Intervals \subseteq FiniteSubsetsOf(Nat)
  <2>1. \A k \in T : IsFiniteSet(0 .. k)
    BY FS_Interval
  <2> QED
    BY <2>1 DEF FiniteSubsetsOf
<1>2. Intervals # {}
  OBVIOUS
<1> HIDE DEF Intervals
<1>3. PICK B \in Intervals :
        \A C \in Intervals : ~ (<<C, B>> \in StrictSubsetOrdering(Nat))
  BY <1>1, <1>2, WFMin, FS_StrictSubsetOrderingWellFounded
<1>4. PICK k \in T : B = 0 .. k
  BY DEF Intervals
<1>5. ASSUME NEW j \in T, j < k
      PROVE  FALSE
  <2>1. 0 .. j \in SUBSET Nat /\ 0 .. k \in SUBSET Nat
        /\ 0 .. j \subseteq 0 .. k /\ 0 .. j # 0 .. k
    BY <1>5
  <2>2. <<0 .. j, 0 .. k>> \in StrictSubsetOrdering(Nat)
    BY <2>1 DEF StrictSubsetOrdering
  <2>3. 0 .. j \in Intervals
    BY DEF Intervals
  <2> QED
    BY <1>3, <1>4, <2>2, <2>3
<1> QED
  BY <1>5

\* What holds at 0, and from each number to the next, holds at n.
LEMMA Counting ==
  ASSUME NEW n \in Nat, NEW S, 0 \in S, \A k \in 1 .. n : k - 1 \in S => k \in S
  PROVE  n \in S
<1> DEFINE T == {k \in 0 .. n : k \notin S}
<1>1. ASSUME NEW k \in T, \A j \in T : k <= j
      PROVE  FALSE
  <2>1. k \in 1 .. n /\ k - 1 \in 0 .. n /\ ~ (k <= k - 1)
    OBVIOUS
  <2>2. k - 1 \in S
    BY <1>1, <2>1
  <2> QED
    BY <2>1, <2>2
<1>2. T = {}
  <2>1. T \in SUBSET Nat
    OBVIOUS
  <2>2. T # {} => \E k \in T : \A j \in T : k <= j
    <3> HIDE DEF T
    <3> QED
      BY <2>1, LeastElement
  <2> QED
    BY <1>1, <2>2
<1> QED
  BY <1>2

\* s lists the members of S, each once.
Lists(s, S) ==
  /\ s \in Seq(S)
  /\ Len(s) \in Nat
  /\ \A j, k \in 1 .. Len(s) : s[j] = s[k] => j = k
  /\ \A p \in S : \E k \in 1 .. Len(s) : s[k] = p

LEMMA Listing ==
  ASSUME NEW S, IsFiniteSet(S)
  PROVE  Lists(SetToSeq(S), S)
<1> DEFINE n == Cardinality(S)
<1>1. n \in Nat /\ ExistsBijection(1 .. n, S)
  BY FS_CardinalityType
<1>2. PICK b \in Bijection(1 .. n, S) : TRUE
  BY <1>1 DEF ExistsBijection
<1>3. b \in [1 .. n -> S] /\ IsInjective(b)
  BY <1>2 DEF Bijection, Injection, IsInjective
<1> DEFINE s == SetToSeq(S)
<1>4. s \in [1 .. n -> S] /\ IsInjective(s)
  BY <1>3 DEF SetToSeq
<1> HIDE DEF s
<1>5. s \in Injection(1 .. n, S)
  BY <1>4 DEF Injection, IsInjective
<1>6. IsFiniteSet(1 .. n) /\ Cardinality(1 .. n) = n
  <2>1. 1 \in Int /\ n \in Int /\ n \in Nat
    BY <1>1
  <2> HIDE DEF n
  <2> QED
    BY <2>1, FS_Interval
<1>7. s \in Surjection(1 .. n, S)
  BY <1>5, <1>6, FS_Injection
<1>8. \A p \in S : \E k \in 1 .. n : s[k] = p
  BY <1>7 DEF Surjection
<1>9. s \in Seq(S) /\ Len(s) = n
  BY <1>1, <1>4
<1>10. \A j, k \in 1 .. n : s[j] = s[k] => j = k
  BY <1>4 DEF IsInjective
<1>11. Lists(s, S)
  BY <1>1, <1>8, <1>9, <1>10 DEF Lists
<1> QED
  BY <1>11 DEF s

Stage(ts, h, old, new, paths, after, n) ==
    IF n = 0 THEN ts
    ELSE Rewrite(after[n - 1], h, paths[n], old[paths[n]], new[paths[n]])

Solves(f, ts, h, old, new, paths, N) ==
    f = [n \in 0 .. N |-> Stage(ts, h, old, new, paths, f, n)]

LEMMA StagesExist ==
  ASSUME NEW ts, NEW h, NEW old, NEW new, NEW paths, NEW N \in Nat
  PROVE  \E f : Solves(f, ts, h, old, new, paths, N)
<1> DEFINE St(f, n) == Stage(ts, h, old, new, paths, f, n)
           S == {k \in 0 .. N : \E f : f = [n \in 0 .. k |-> St(f, n)]}
<1>1. \A f : St(f, 0) = ts
  BY DEF Stage
<1>2. \A f, g, n : n # 0 /\ f[n - 1] = g[n - 1] => St(f, n) = St(g, n)
  BY DEF Stage
<1> HIDE DEF St
<1>3. 0 \in S
  <2> DEFINE f == [n \in 0 .. 0 |-> ts]
  <2>1. f = [n \in 0 .. 0 |-> St(f, n)]
    BY <1>1
  <2> QED
    BY <2>1
<1>4. ASSUME NEW k \in 1 .. N, k - 1 \in S
      PROVE  k \in S
  <2>1. PICK f : f = [n \in 0 .. k - 1 |-> St(f, n)]
    BY <1>4
  <2> DEFINE g == [n \in 0 .. k |-> IF n < k THEN f[n] ELSE St(f, k)]
  <2>2. \A n \in 0 .. k - 1 : g[n] = f[n]
    OBVIOUS
  <2>3. g[k] = St(f, k)
    OBVIOUS
  <2> HIDE DEF g
  <2>4. ASSUME NEW n \in 0 .. k
        PROVE  g[n] = St(g, n)
    <3>1. CASE n = 0
      BY <1>1, <2>1, <2>2, <3>1
    <3>2. CASE n \in 1 .. k - 1
      <4>1. n - 1 \in 0 .. k - 1 /\ n \in 0 .. k - 1 /\ n # 0
        BY <3>2
      <4>2. g[n] = St(f, n)
        BY <2>1, <2>2, <4>1
      <4> QED
        BY <1>2, <2>2, <4>1, <4>2
    <3>3. CASE n = k
      <4>1. k - 1 \in 0 .. k - 1 /\ k # 0
        OBVIOUS
      <4> QED
        BY <1>2, <2>2, <2>3, <3>3, <4>1
    <3> QED
      BY <3>1, <3>2, <3>3
  <2>5. g = [n \in 0 .. k |-> g[n]]
    BY DEF g
  <2>6. g = [n \in 0 .. k |-> St(g, n)]
    BY <2>4, <2>5
  <2> QED
    BY <2>6
<1>5. N \in S
  <2> HIDE DEF S
  <2> QED
    BY <1>3, <1>4, Counting
<1>6. \E f : f = [n \in 0 .. N |-> St(f, n)]
  BY <1>5
<1> QED
  BY <1>6 DEF St, Solves

\* RewriteAll goes from ts to its result in as many stages as there are paths.
Stages(ts, h, old, new, after) ==
    LET paths == SetToSeq(DOMAIN new)
    IN  /\ after[0] = ts
        /\ \A n \in 1 .. Len(paths) :
             after[n] = Rewrite(after[n - 1], h, paths[n], old[paths[n]], new[paths[n]])
        /\ RewriteAll(ts, h, old, new) = after[Len(paths)]

LEMMA RewriteAllStages ==
  ASSUME NEW ts, NEW h, NEW old, NEW new, IsFiniteSet(DOMAIN new)
  PROVE  \E after : Stages(ts, h, old, new, after)
<1> DEFINE paths == SetToSeq(DOMAIN new)
           N == Len(paths)
           f == CHOOSE f : Solves(f, ts, h, old, new, paths, N)
<1>1. N \in Nat
  BY Listing DEF Lists
<1>2. RewriteAll(ts, h, old, new) = f[N]
  BY DEF RewriteAll, Solves, Stage
<1> HIDE DEF paths, N
<1>3. Solves(f, ts, h, old, new, paths, N)
  BY <1>1, StagesExist
<1> HIDE DEF f
<1>4. \A n \in 0 .. N : f[n] = Stage(ts, h, old, new, paths, f, n)
  <2> DEFINE g == [n \in 0 .. N |-> Stage(ts, h, old, new, paths, f, n)]
  <2>1. \A n \in 0 .. N : g[n] = Stage(ts, h, old, new, paths, f, n)
    OBVIOUS
  <2>2. f = g
    BY <1>3 DEF Solves
  <2> QED
    BY <2>1, <2>2
<1>5. f[0] = ts
  BY <1>1, <1>4 DEF Stage
<1>6. ASSUME NEW n \in 1 .. N
      PROVE  f[n] = Rewrite(f[n - 1], h, paths[n], old[paths[n]], new[paths[n]])
  <2>1. n \in 0 .. N /\ n # 0
    BY <1>1
  <2> QED
    BY <1>4, <2>1 DEF Stage
<1>7. Stages(ts, h, old, new, f)
  BY <1>2, <1>5, <1>6 DEF Stages, N, paths
<1> QED
  BY <1>7

\* What Replace finds at a path, and the state it leaves.
Was(s, p) == IF p = Root(p.root) /\ p.root \notin DOMAIN s THEN Unset ELSE At(s, p)
Written(s, p, j) == IF Was(s, p) = j THEN s ELSE Put(s, p, j)

LEMMA RewriteIs ==
  ASSUME NEW ts, DOMAIN ts = TraceFields, NEW h, NEW p, NEW old, NEW v
  PROVE  /\ DOMAIN Rewrite(ts, h, p, old, v) = TraceFields
         /\ Rewrite(ts, h, p, old, v).on = ts.on
         /\ Rewrite(ts, h, p, old, v).loops = ts.loops
         /\ Rewrite(ts, h, p, old, v).aliases =
              Register(Unregister(ts.aliases, h, old, p), h, v, p)
         /\ Rewrite(ts, h, p, old, v).state = Written(ts.state, p, ToJson(h, v))
<1> DEFINE cut == [ts EXCEPT !.aliases = Unregister(@, h, old, p)]
           j == ToJson(h, v)
           put == Replace(cut, p, j)
<1>1. /\ DOMAIN cut = TraceFields /\ cut.state = ts.state
      /\ cut.on = ts.on /\ cut.loops = ts.loops
      /\ cut.aliases = Unregister(ts.aliases, h, old, p)
  BY DEF TraceFields
<1> HIDE DEF cut
<1>2. /\ DOMAIN put = TraceFields /\ put.state = Written(cut.state, p, j)
      /\ put.on = cut.on /\ put.loops = cut.loops /\ put.aliases = cut.aliases
  <2> HIDE DEF j
  <2>1. CASE Was(cut.state, p) = j
    BY <1>1, <2>1 DEF Replace, Was, Written
  <2>2. CASE Was(cut.state, p) # j
    BY <1>1, <2>2 DEF Replace, Was, Written, TraceFields
  <2> QED
    BY <2>1, <2>2
<1>3. Rewrite(ts, h, p, old, v) = [put EXCEPT !.aliases = Register(@, h, v, p)]
  BY DEF Rewrite, cut
<1> HIDE DEF put
<1> QED
  BY <1>1, <1>2, <1>3 DEF TraceFields

-----------------------------------------------------------------------------
(* A variable changes.                                                       *)

OldIn(env, x) == IF x \in DOMAIN env THEN env[x] ELSE Unset

LEMMA RegisterIs ==
  ASSUME NEW A, NEW h, NEW v, NEW p, IsContainer(v) => <<v[2], p>> \notin A
  PROVE  Register(A, h, v, p) = A \cup Entries(h, v, p)
BY DEF Register, Entries

LEMMA UnregisterIs ==
  ASSUME NEW A, NEW h, NEW v, NEW p, IsContainer(v) => <<v[2], p>> \in A
  PROVE  Unregister(A, h, v, p) = A \ Entries(h, v, p)
BY DEF Unregister, Entries

LEMMA WrittenRoot ==
  ASSUME NEW s, s = [y \in DOMAIN s |-> s[y]], NEW x, NEW j, j # Unset
  PROVE  Written(s, Root(x), j) = SetRoot(s, x, j)
<1>1. Root(x).root = x /\ Root(x).index = Whole /\ Root(x).field = FALSE
  BY DEF Root
<1>2. Put(s, Root(x), j) = SetRoot(s, x, j)
  BY <1>1 DEF Put, PutNode
<1>3. Was(s, Root(x)) = IF x \in DOMAIN s THEN s[x] ELSE Unset
  BY <1>1 DEF Was, At, Node
<1>4. CASE Was(s, Root(x)) = j
  <2>1. x \in DOMAIN s /\ s[x] = j
    BY <1>3, <1>4
  <2>2. SetRoot(s, x, j) = [y \in DOMAIN s |-> s[y]]
    BY <2>1 DEF SetRoot
  <2> QED
    BY <1>4, <2>2 DEF Written
<1>5. CASE Was(s, Root(x)) # j
  BY <1>2, <1>5 DEF Written
<1> QED
  BY <1>4, <1>5

LEMMA EntriesAfter ==
  ASSUME NEW h, NEW env, EnvSound(h, env), NEW x, NEW v \in Values
  PROVE  AllEntries(h, SetRoot(env, x, v)) =
            (AllEntries(h, env) \ Entries(h, OldIn(env, x), Root(x))) \cup Entries(h, v, Root(x))
<1> DEFINE new == SetRoot(env, x, v)
           E(y) == Entries(h, env[y], Root(y))
           O == Entries(h, OldIn(env, x), Root(x))
           V == Entries(h, v, Root(x))
<1>1. DOMAIN new = DOMAIN env \cup {x} /\ new[x] = v /\ \A y \in DOMAIN env : y # x => new[y] = env[y]
  BY DEF SetRoot
<1> HIDE DEF new
<1>2. AllEntries(h, new) = (UNION {E(y) : y \in DOMAIN env \ {x}}) \cup V
  <2>1. AllEntries(h, new) = UNION {Entries(h, new[y], Root(y)) : y \in DOMAIN new}
    BY DEF AllEntries
  <2>2. \A y \in DOMAIN env \ {x} : Entries(h, new[y], Root(y)) = E(y)
    BY <1>1
  <2>3. Entries(h, new[x], Root(x)) = V
    BY <1>1
  <2> HIDE DEF E, V
  <2> QED
    BY <1>1, <2>1, <2>2, <2>3
<1>3. \A y \in DOMAIN env : env[y] \in Values
  BY DEF EnvSound, Denotes
<1>4. \A y \in DOMAIN env : \A a \in E(y) : a[2].root = y
  BY <1>3, EntriesStay
<1>5. OldIn(env, x) \in Values \cup {Unset}
  BY <1>3 DEF OldIn
<1>6. \A a \in O : a[2].root = x
  BY <1>5, EntriesStay
<1>7. x \in DOMAIN env => E(x) = O
  BY DEF OldIn
<1>8. AllEntries(h, env) = UNION {E(y) : y \in DOMAIN env}
  BY DEF AllEntries
<1> HIDE DEF E, O, V
<1>9. (UNION {E(y) : y \in DOMAIN env}) \ O = UNION {E(y) : y \in DOMAIN env \ {x}}
  BY <1>4, <1>6, <1>7
<1> QED
  BY <1>2, <1>8, <1>9 DEF O, V, new

LEMMA AssignExact ==
  ASSUME NEW h, NEW env, EnvSound(h, env), NEW x, NEW v \in Values,
         NEW ts, Exact(ts, h, env)
  PROVE  Exact(Rewrite(ts, h, Root(x), OldIn(env, x), v), h, SetRoot(env, x, v))
<1> DEFINE j == ToJson(h, v)
           o == OldIn(env, x)
           A == AllEntries(h, env)
           r == Rewrite(ts, h, Root(x), o, v)
<1>1. DOMAIN ts = TraceFields /\ ts.on = TRUE /\ ts.state = Copy(h, env) /\ ts.aliases = A
  BY DEF Exact
<1>2. /\ DOMAIN r = TraceFields /\ r.on = ts.on /\ r.state = Written(ts.state, Root(x), j)
      /\ r.aliases = Register(Unregister(A, h, o, Root(x)), h, v, Root(x))
  BY <1>1, RewriteIs
<1> HIDE DEF r
<1>3. r.state = Copy(h, SetRoot(env, x, v))
  <2>1. Copy(h, env) = [y \in DOMAIN Copy(h, env) |-> Copy(h, env)[y]]
    BY DEF Copy
  <2>2. r.state = SetRoot(Copy(h, env), x, j)
    BY <1>1, <1>2, <2>1, JsonIsSet, WrittenRoot
  <2>3. SetRoot(Copy(h, env), x, j) = Copy(h, SetRoot(env, x, v))
    BY DEF SetRoot, Copy
  <2> QED
    BY <2>2, <2>3
<1>4. r.aliases = AllEntries(h, SetRoot(env, x, v))
  <2>1. IsContainer(o) => <<o[2], Root(x)>> \in A
    <3>1. ~IsContainer(Unset)
      BY DEF IsContainer, Unset
    <3> SUFFICES ASSUME IsContainer(o) PROVE <<o[2], Root(x)>> \in A
      OBVIOUS
    <3>2. x \in DOMAIN env /\ o = env[x]
      BY <3>1 DEF OldIn
    <3>3. <<o[2], Root(x)>> \in Entries(h, env[x], Root(x))
      BY <3>2 DEF Entries
    <3> QED
      BY <3>2, <3>3 DEF AllEntries
  <2>2. Unregister(A, h, o, Root(x)) = A \ Entries(h, o, Root(x))
    BY <2>1, UnregisterIs
  <2>3. IsContainer(v) => <<v[2], Root(x)>> \notin A \ Entries(h, o, Root(x))
    <3>1. \A y \in DOMAIN env : \A a \in Entries(h, env[y], Root(y)) : a[2].root = y
      BY EntriesStay DEF EnvSound, Denotes
    <3>2. <<v[2], Root(x)>>[2].root = x
      BY DEF Root
    <3>3. <<v[2], Root(x)>> \in A => x \in DOMAIN env /\ <<v[2], Root(x)>> \in Entries(h, env[x], Root(x))
      BY <3>1, <3>2 DEF AllEntries
    <3> QED
      BY <3>3 DEF OldIn
  <2>4. r.aliases = (A \ Entries(h, o, Root(x))) \cup Entries(h, v, Root(x))
    BY <1>2, <2>2, <2>3, RegisterIs
  <2> QED
    BY <2>4, EntriesAfter
<1>5. r.on = TRUE
  BY <1>1, <1>2
<1>6. Exact(r, h, SetRoot(env, x, v))
  BY <1>2, <1>3, <1>4, <1>5 DEF Exact
<1> QED
  BY <1>6 DEF r

-----------------------------------------------------------------------------
(* A new trace.                                                              *)

PathsOver(b) == {[root |-> q[1], index |-> q[2], field |-> b] : q \in Names \X (Whole .. MaxLength)}

LEMMA PathsAreFinite ==
  ASSUME NEW b, NEW S \in SUBSET PathsOver(b)
  PROVE  IsFiniteSet(S)
<1>1. IsFiniteSet(Names) /\ MaxLength \in Nat
  BY SizesAssumption
<1>2. IsFiniteSet(Whole .. MaxLength)
  <2>1. Whole \in Int /\ MaxLength \in Int
    BY <1>1 DEF Whole
  <2> QED
    BY <2>1, FS_Interval
<1> DEFINE Q == Names \X (Whole .. MaxLength)
           f == [q \in Q |-> [root |-> q[1], index |-> q[2], field |-> b]]
<1>3. IsFiniteSet(Q)
  BY <1>1, <1>2, FS_Product
<1>4. f \in Surjection(Q, PathsOver(b))
  <2>1. f \in [Q -> PathsOver(b)]
    BY DEF PathsOver
  <2>2. \A p \in PathsOver(b) : \E q \in Q : f[q] = p
    BY DEF PathsOver
  <2> QED
    BY <2>1, <2>2 DEF Surjection
<1>5. IsFiniteSet(PathsOver(b))
  <2> HIDE DEF Q, f
  <2> QED
    BY <1>3, <1>4, FS_Surjection
<1> QED
  BY <1>5, FS_Subset

\* The variables whose roots are among the first k of a list of paths.
Listed(s, env, k) == {y \in DOMAIN env : \E m \in 1 .. k : s[m] = Root(y)}
Begun(s, env, k) == [y \in Listed(s, env, k) |-> env[y]]

LEMMA NewTraceExact ==
  ASSUME NEW h, NEW env, EnvSound(h, env)
  PROVE  Exact(NewTrace(h, env), h, env) /\ NewTrace(h, env).loops = 0
<1> DEFINE paths == {Root(x) : x \in DOMAIN env}
           new == [p \in paths |-> env[p.root]]
           old == [p \in paths |-> Unset]
           start == [NoTrace EXCEPT !.on = TRUE]
           s == SetToSeq(paths)
           N == Len(s)
<1>1. \A x : Root(x).root = x
  BY DEF Root
<1>2. IsFiniteSet(paths)
  <2>1. \A x \in DOMAIN env : Root(x) \in PathsOver(FALSE)
    <3>1. Whole \in Whole .. MaxLength
      BY SizesAssumption DEF Whole
    <3>2. ASSUME NEW x \in DOMAIN env
          PROVE  Root(x) \in PathsOver(FALSE)
      <4>1. <<x, Whole>> \in Names \X (Whole .. MaxLength)
        BY <3>1 DEF EnvSound
      <4> DEFINE q == <<x, Whole>>
      <4>2. [root |-> q[1], index |-> q[2], field |-> FALSE] \in PathsOver(FALSE)
        BY <4>1 DEF PathsOver
      <4> QED
        BY <4>2 DEF Root
    <3> QED
      BY <3>2
  <2>2. paths \in SUBSET PathsOver(FALSE)
    BY <2>1
  <2> QED
    BY <2>2, PathsAreFinite
<1>3. NewTrace(h, env) = RewriteAll(start, h, old, new)
  BY DEF NewTrace
<1>4. DOMAIN new = paths
  OBVIOUS
<1>5. Lists(s, paths)
  BY <1>2, Listing
<1> HIDE DEF new, old
<1>6. PICK after : Stages(start, h, old, new, after)
  BY <1>2, <1>4, RewriteAllStages
<1>7. /\ after[0] = start
      /\ \A n \in 1 .. N :
           after[n] = Rewrite(after[n - 1], h, s[n], old[s[n]], new[s[n]])
      /\ RewriteAll(start, h, old, new) = after[N]
  BY <1>4, <1>6 DEF Stages
<1> DEFINE Good(k) == Exact(after[k], h, Begun(s, env, k)) /\ after[k].loops = 0
           S == {k \in 0 .. N : Good(k)}
<1>8. N \in Nat /\ \A n \in 1 .. N : s[n] \in paths
  <2> HIDE DEF s, paths
  <2> QED
    BY <1>5 DEF Lists
<1>9. Good(0)
  <2>1. Begun(s, env, 0) = << >> /\ DOMAIN << >> = {}
    <3>1. Listed(s, env, 0) = {}
      BY DEF Listed
    <3> QED
      BY <3>1 DEF Begun
  <2>2. /\ DOMAIN start = TraceFields /\ start.on = TRUE /\ start.state = << >>
        /\ start.aliases = {} /\ start.loops = 0
    BY DEF NoTrace, TraceFields
  <2>3. Copy(h, << >>) = << >> /\ AllEntries(h, << >>) = {}
    BY <2>1 DEF Copy, AllEntries
  <2> HIDE DEF start
  <2> QED
    BY <1>7, <2>1, <2>2, <2>3 DEF Exact
<1> HIDE DEF start
<1>10. ASSUME NEW k \in 1 .. N, Good(k - 1)
       PROVE  Good(k)
  <2> DEFINE e == Begun(s, env, k - 1)
  <2>1. PICK x \in DOMAIN env : s[k] = Root(x)
    BY <1>8
  <2>2. new[s[k]] = env[x] /\ old[s[k]] = Unset
    BY <1>1, <2>1 DEF new, old
  <2>3. after[k] = Rewrite(after[k - 1], h, Root(x), Unset, env[x])
    BY <1>7, <2>1, <2>2
  <2>4. x \notin DOMAIN e
    <3>1. \A m \in 1 .. k - 1 : s[m] # s[k]
      BY <1>5, <1>8 DEF Lists
    <3> QED
      BY <2>1, <3>1 DEF Begun, Listed
  <2>5. EnvSound(h, e)
    BY DEF EnvSound, Begun, Listed
  <2>6. env[x] \in Values
    BY DEF EnvSound, Denotes
  <2>7. SetRoot(e, x, env[x]) = Begun(s, env, k)
    <3>1. Listed(s, env, k) = Listed(s, env, k - 1) \cup {x}
      <4>1. \A m : m \in 1 .. k <=> m \in 1 .. k - 1 \/ m = k
        BY <1>8
      <4>2. \A y : Root(y) = Root(x) => y = x
        BY <1>1
      <4> QED
        <5>1. x \in Listed(s, env, k)
          BY <2>1, <4>1 DEF Listed
        <5>2. \A y \in DOMAIN env : s[k] = Root(y) => y = x
          BY <2>1, <4>2
        <5> HIDE DEF s, N
        <5>3. \A y : y \in Listed(s, env, k) => y \in Listed(s, env, k - 1) \cup {x}
          BY <4>1, <5>2 DEF Listed
        <5>4. \A y : y \in Listed(s, env, k - 1) => y \in Listed(s, env, k)
          BY <4>1 DEF Listed
        <5> QED
          BY <5>1, <5>3, <5>4
    <3> QED
      BY <3>1 DEF Begun, SetRoot
  <2>8. OldIn(e, x) = Unset
    BY <2>4 DEF OldIn
  <2>9. DOMAIN after[k - 1] = TraceFields
    BY <1>10 DEF Exact
  <2>10. after[k].loops = 0
    BY <1>10, <2>3, <2>9, RewriteIs
  <2> HIDE DEF e
  <2>11. Exact(after[k - 1], h, e)
    BY <1>10 DEF e
  <2>12. Exact(after[k], h, SetRoot(e, x, env[x]))
    BY <2>3, <2>5, <2>6, <2>8, <2>11, AssignExact
  <2> QED
    BY <2>7, <2>10, <2>12
<1>11. N \in S
  <2>1. 0 \in S
    BY <1>8, <1>9
  <2>2. \A k \in 1 .. N : k - 1 \in S => k \in S
    BY <1>8, <1>10
  <2> HIDE DEF S
  <2> QED
    BY <1>8, <2>1, <2>2, Counting
<1>12. Begun(s, env, N) = env
  <2>1. Listed(s, env, N) = DOMAIN env
    BY <1>5 DEF Listed, Lists
  <2> QED
    BY <2>1 DEF Begun, EnvSound
<1>13. Good(N)
  BY <1>11
<1> HIDE DEF N
<1> QED
  BY <1>3, <1>7, <1>12, <1>13

-----------------------------------------------------------------------------
(* A container changes.                                                      *)

\* The state s with j as item i of the array a that x holds.
ItemSet(s, x, a, i, j) ==
    [y \in DOMAIN s |-> IF y = x THEN <<"array", [a EXCEPT ![i] = j]>> ELSE s[y]]

IsFcn(s) == s = [y \in DOMAIN s |-> s[y]]

\* In the state s, x holds the array a.
HasArray(s, x, a) == IsFcn(s) /\ IsFcn(a) /\ x \in DOMAIN s /\ s[x] = <<"array", a>>

\* p is the path of item i of x, or of its field.
Leads(p, x, i, field) ==
    i \in Nat \ {0} /\ p.root = x /\ p.index = i - 1 /\ p.field = field

LEMMA PairSet ==
  ASSUME NEW a, NEW b, NEW c
  PROVE  [<<a, b>> EXCEPT ![2] = c] = <<a, c>>
OBVIOUS

LEMMA PutItemIs ==
  ASSUME NEW s, NEW x, NEW a, HasArray(s, x, a), NEW i, NEW j,
         NEW p, NEW b, Leads(p, x, i, b)
  PROVE  PutNode(s, p, j) = ItemSet(s, x, a, i, j)
<1>1. p.root = x /\ p.index # Whole /\ p.index + 1 = i
  BY DEF Whole, Leads
<1>2. PutNode(s, p, j) = [s EXCEPT ![x][2][i] = j]
  BY <1>1 DEF PutNode
<1>3. [s EXCEPT ![x][2][i] = j] = [s EXCEPT ![x] = [s[x] EXCEPT ![2] = [s[x][2] EXCEPT ![i] = j]]]
  OBVIOUS
<1>4. s[x] = <<"array", a>> /\ s[x][2] = a
  BY DEF HasArray
<1>5. [s[x] EXCEPT ![2] = [a EXCEPT ![i] = j]] = <<"array", [a EXCEPT ![i] = j]>>
  BY <1>4, PairSet
<1>6. PutNode(s, p, j) = [s EXCEPT ![x] = <<"array", [a EXCEPT ![i] = j]>>]
  BY <1>2, <1>3, <1>4, <1>5
<1> QED
  BY <1>6 DEF ItemSet, HasArray, IsFcn

LEMMA SameItem ==
  ASSUME NEW s, NEW x, NEW a, HasArray(s, x, a), NEW i
  PROVE  ItemSet(s, x, a, i, a[i]) = s
<1>1. [a EXCEPT ![i] = a[i]] = a
  BY DEF HasArray, IsFcn
<1> QED
  BY <1>1 DEF ItemSet, HasArray, IsFcn

LEMMA WrittenItem ==
  ASSUME NEW s, NEW x, NEW a, HasArray(s, x, a), NEW i, NEW j,
         NEW p, Leads(p, x, i, FALSE)
  PROVE  Written(s, p, j) = ItemSet(s, x, a, i, j)
<1>1. p.root = x /\ p.index # Whole /\ p.index + 1 = i
  BY DEF Whole, Leads
<1>2. p # Root(p.root)
  BY <1>1 DEF Root
<1>3. Was(s, p) = a[i]
  BY <1>1, <1>2 DEF Was, At, Node, Leads, HasArray
<1>4. Put(s, p, j) = ItemSet(s, x, a, i, j)
  BY PutItemIs DEF Put, Leads
<1> QED
  BY <1>3, <1>4, SameItem DEF Written

LEMMA WrittenItemField ==
  ASSUME NEW s, NEW x, NEW a, HasArray(s, x, a), NEW i,
         NEW m, a[i] = <<"object", m>>, NEW n,
         NEW p, Leads(p, x, i, TRUE)
  PROVE  Written(s, p, Num(n)) = ItemSet(s, x, a, i, <<"object", n>>)
<1>1. p.root = x /\ p.index # Whole /\ p.index + 1 = i
  BY DEF Whole, Leads
<1>2. p # Root(p.root)
  BY <1>1 DEF Root
<1>3. Was(s, p) = Num(m)
  BY <1>1, <1>2 DEF Was, At, Node, Leads, HasArray
<1>4. Num(n)[2] = n /\ Num(m)[2] = m
  BY DEF Num
<1>5. Put(s, p, Num(n)) = ItemSet(s, x, a, i, <<"object", n>>)
  BY <1>4, PutItemIs DEF Put, Leads
<1>6. CASE Num(m) = Num(n)
  <2>1. a[i] = <<"object", n>>
    BY <1>4, <1>6
  <2>2. ItemSet(s, x, a, i, <<"object", n>>) = s
    BY <2>1, SameItem
  <2> QED
    BY <1>3, <1>6, <2>2 DEF Written
<1>7. CASE Num(m) # Num(n)
  BY <1>3, <1>5, <1>7 DEF Written
<1> QED
  BY <1>6, <1>7

\* p is the path of the field of x itself.
LeadsToField(p, x) == p.root = x /\ p.index = Whole /\ p.field = TRUE

LEMMA WrittenRootField ==
  ASSUME NEW s, IsFcn(s), NEW x \in DOMAIN s, NEW m, s[x] = <<"object", m>>, NEW n,
         NEW p, LeadsToField(p, x)
  PROVE  Written(s, p, Num(n)) = SetRoot(s, x, <<"object", n>>)
<1>1. p # Root(p.root)
  BY DEF Root, LeadsToField
<1>2. Was(s, p) = Num(m)
  BY <1>1 DEF Was, At, Node, LeadsToField
<1>3. Num(n)[2] = n /\ Num(m)[2] = m
  BY DEF Num
<1>4. Put(s, p, Num(n)) = SetRoot(s, x, <<"object", n>>)
  BY <1>3 DEF Put, PutNode, LeadsToField
<1>5. CASE Num(m) = Num(n)
  <2>1. s[x] = <<"object", n>>
    BY <1>3, <1>5
  <2>2. SetRoot(s, x, <<"object", n>>) = [y \in DOMAIN s |-> s[y]]
    BY <2>1 DEF SetRoot
  <2> QED
    BY <1>2, <1>5, <2>2 DEF Written, IsFcn
<1>6. CASE Num(m) # Num(n)
  BY <1>2, <1>4, <1>6 DEF Written
<1> QED
  BY <1>5, <1>6

\* A mutation goes from one frame's trace to the next in as many stages as
\* there are places where the container is.
MutationStages(ts, h, c, suffix, o, v, s, after) ==
    /\ Lists(s, {Extended(p, suffix) : p \in PathsOf(ts, c)})
    /\ after[0] = ts
    /\ \A n \in 1 .. Len(s) : after[n] = Rewrite(after[n - 1], h, s[n], o, v)
    /\ Mutation(ts, h, c, suffix, o, v) = after[Len(s)]

LEMMA Mutations ==
  ASSUME NEW ts, NEW h, NEW c, NEW suffix, NEW o, NEW v,
         IsFiniteSet({Extended(p, suffix) : p \in PathsOf(ts, c)})
  PROVE  \E s, after : MutationStages(ts, h, c, suffix, o, v, s, after)
<1> DEFINE paths == {Extended(p, suffix) : p \in PathsOf(ts, c)}
           old == [p \in paths |-> o]
           new == [p \in paths |-> v]
           s == SetToSeq(paths)
<1>1. Mutation(ts, h, c, suffix, o, v) = RewriteAll(ts, h, old, new)
  BY DEF Mutation
<1>2. Lists(s, paths)
  BY Listing
<1>3. DOMAIN new = paths /\ IsFiniteSet(DOMAIN new)
  OBVIOUS
<1>4. \A p \in paths : old[p] = o /\ new[p] = v
  OBVIOUS
<1> HIDE DEF old, new
<1>5. PICK after : Stages(ts, h, old, new, after)
  BY <1>3, RewriteAllStages
<1>6. /\ after[0] = ts
      /\ \A n \in 1 .. Len(s) : after[n] = Rewrite(after[n - 1], h, s[n], old[s[n]], new[s[n]])
      /\ RewriteAll(ts, h, old, new) = after[Len(s)]
  BY <1>3, <1>5 DEF Stages
<1>7. \A n \in 1 .. Len(s) : s[n] \in paths
  <2> HIDE DEF s, paths
  <2> QED
    BY <1>2 DEF Lists
<1> HIDE DEF s
<1>8. MutationStages(ts, h, c, suffix, o, v, s, after)
  BY <1>1, <1>2, <1>4, <1>6, <1>7 DEF MutationStages
<1> QED
  BY <1>8

LEMMA EntriesArePairs ==
  ASSUME NEW h, NEW v, NEW p
  PROVE  \A a \in Entries(h, v, p) : a = <<a[1], a[2]>>
BY DEF Entries, Inside

LEMMA PathsAre ==
  ASSUME NEW ts, NEW h, NEW env, Exact(ts, h, env), NEW c, NEW p
  PROVE  p \in PathsOf(ts, c) <=>
            \E x \in DOMAIN env : <<c, p>> \in Entries(h, env[x], Root(x))
<1>1. ts.aliases = UNION {Entries(h, env[x], Root(x)) : x \in DOMAIN env}
  BY DEF Exact, AllEntries
<1>2. \A a \in ts.aliases : a = <<a[1], a[2]>>
  BY <1>1, EntriesArePairs
<1>3. p \in PathsOf(ts, c) <=> <<c, p>> \in ts.aliases
  BY <1>2 DEF PathsOf
<1> QED
  BY <1>1, <1>3

Holders(env, t) == {x \in DOMAIN env : env[x] = <<"table", t>>}

LEMMA TablePaths ==
  ASSUME NEW ts, NEW h, NEW env, HeapSound(h), EnvSound(h, env), Exact(ts, h, env),
         NEW t \in Tables
  PROVE  PathsOf(ts, t) = {Root(x) : x \in Holders(env, t)}
<1>1. ASSUME NEW x \in DOMAIN env, NEW p
      PROVE  <<t, p>> \in Entries(h, env[x], Root(x)) <=> x \in Holders(env, t) /\ p = Root(x)
  <2>1. env[x] \in Values /\ (IsContainer(env[x]) => env[x][2] \in DOMAIN h)
    BY DEF EnvSound, Denotes
  <2>2. CASE \E n \in Scalars : env[x] = Num(n)
    <3>1. Entries(h, env[x], Root(x)) = {}
      BY <2>2, NoEntries
    <3>2. env[x] # <<"table", t>>
      BY <2>2 DEF Num
    <3> QED
      BY <3>1, <3>2 DEF Holders
  <2>3. CASE \E r \in Rows : env[x] = Row(r)
    <3>1. PICK r \in Rows : env[x] = Row(r)
      BY <2>3
    <3>2. Entries(h, env[x], Root(x)) = {<<r, Root(x)>>} /\ r # t
      BY <3>1, RowEntries, SizesAssumption
    <3>3. env[x] # <<"table", t>>
      BY <3>1 DEF Row
    <3> QED
      BY <3>2, <3>3 DEF Holders
  <2>4. CASE \E u \in Tables : env[x] = <<"table", u>>
    <3>1. PICK u \in Tables : env[x] = <<"table", u>>
      BY <2>4
    <3>2. u \in DOMAIN h
      <4>1. IsContainer(env[x]) /\ env[x][2] = u
        BY <3>1 DEF IsContainer
      <4> QED
        BY <2>1, <4>1
    <3>3. \A i \in 1 .. Len(h[u]) : h[u][i] # t
      <4>1. \A i \in 1 .. Len(h[u]) : h[u][i] \in Rows
        BY <3>2, TablesAre
      <4>2. t \notin Rows
        BY SizesAssumption
      <4> QED
        BY <4>1, <4>2
    <3>4. Entries(h, env[x], Root(x)) =
            {<<u, Root(x)>>} \cup {<<h[u][i], Item(Root(x), i)>> : i \in 1 .. Len(h[u])}
      BY <3>1, TableEntries
    <3>5. <<t, p>> \in Entries(h, env[x], Root(x)) <=> u = t /\ p = Root(x)
      BY <3>3, <3>4
    <3>6. env[x] = <<"table", t>> <=> u = t
      BY <3>1
    <3> QED
      BY <3>5, <3>6 DEF Holders
  <2> QED
    BY <2>1, <2>2, <2>3, <2>4, ValueKinds
<1>2. ASSUME NEW p
      PROVE  p \in PathsOf(ts, t) <=> \E x \in DOMAIN env : x \in Holders(env, t) /\ p = Root(x)
  <2>1. p \in PathsOf(ts, t) <=> \E x \in DOMAIN env : <<t, p>> \in Entries(h, env[x], Root(x))
    BY PathsAre
  <2> QED
    BY <1>1, <2>1
<1> QED
  BY <1>2 DEF Holders

\* The places of a struct: a variable, or an item of the table of a variable.
RowAt(h, env, r, x, p) ==
    \/ env[x] = Row(r) /\ p = Root(x)
    \/ \E t \in Tables : /\ env[x] = <<"table", t>>
                         /\ \E i \in 1 .. Len(h[t]) : h[t][i] = r /\ p = Item(Root(x), i)

LEMMA RowPaths ==
  ASSUME NEW ts, NEW h, NEW env, HeapSound(h), EnvSound(h, env), Exact(ts, h, env),
         NEW r \in Rows, NEW p
  PROVE  p \in PathsOf(ts, r) <=> \E x \in DOMAIN env : RowAt(h, env, r, x, p)
<1>1. ASSUME NEW x \in DOMAIN env
      PROVE  <<r, p>> \in Entries(h, env[x], Root(x)) <=> RowAt(h, env, r, x, p)
  <2>1. env[x] \in Values
    BY DEF EnvSound, Denotes
  <2>2. CASE \E n \in Scalars : env[x] = Num(n)
    <3>1. Entries(h, env[x], Root(x)) = {}
      BY <2>2, NoEntries
    <3>2. env[x] # Row(r) /\ \A t : env[x] # <<"table", t>>
      BY <2>2 DEF Num, Row
    <3> QED
      BY <3>1, <3>2 DEF RowAt
  <2>3. CASE \E q \in Rows : env[x] = Row(q)
    <3>1. PICK q \in Rows : env[x] = Row(q)
      BY <2>3
    <3>2. Entries(h, env[x], Root(x)) = {<<q, Root(x)>>}
      BY <3>1, RowEntries
    <3>3. (env[x] = Row(r) <=> q = r) /\ \A t : env[x] # <<"table", t>>
      BY <3>1 DEF Row
    <3> QED
      BY <3>2, <3>3 DEF RowAt
  <2>4. CASE \E u \in Tables : env[x] = <<"table", u>>
    <3>1. PICK u \in Tables : env[x] = <<"table", u>>
      BY <2>4
    <3>2. Entries(h, env[x], Root(x)) =
            {<<u, Root(x)>>} \cup {<<h[u][i], Item(Root(x), i)>> : i \in 1 .. Len(h[u])}
      BY <3>1, TableEntries
    <3>3. u # r
      BY SizesAssumption
    <3>4. <<r, p>> \in Entries(h, env[x], Root(x)) <=>
             \E i \in 1 .. Len(h[u]) : h[u][i] = r /\ p = Item(Root(x), i)
      BY <3>2, <3>3
    <3>5. env[x] # Row(r)
      BY <3>1 DEF Row
    <3>6. ASSUME NEW t
          PROVE  env[x] = <<"table", t>> <=> t = u
      BY <3>1
    <3>7. RowAt(h, env, r, x, p) <=> \E i \in 1 .. Len(h[u]) : h[u][i] = r /\ p = Item(Root(x), i)
      BY <3>5, <3>6 DEF RowAt
    <3> QED
      BY <3>4, <3>7
  <2> QED
    BY <2>1, <2>2, <2>3, <2>4, ValueKinds
<1>2. p \in PathsOf(ts, r) <=> \E x \in DOMAIN env : <<r, p>> \in Entries(h, env[x], Root(x))
  BY PathsAre
<1> QED
  BY <1>1, <1>2

\* Two heaps that agree about what v refers to give it the same JSON and entries.
Agree(h, g, v) ==
  /\ \A q \in Rows : v = Row(q) => g[q] = h[q]
  /\ \A u \in Tables : v = <<"table", u>> =>
        g[u] = h[u] /\ \A m \in 1 .. Len(h[u]) : g[h[u][m]] = h[h[u][m]]

SameReading(h, g, v, p) == ToJson(g, v) = ToJson(h, v) /\ Entries(g, v, p) = Entries(h, v, p)

LEMMA Reading ==
  ASSUME NEW h, NEW g, NEW v \in Values, Agree(h, g, v), NEW p
  PROVE  SameReading(h, g, v, p)
<1>1. CASE \E n \in Scalars : v = Num(n)
  <2>1. ToJson(g, v) = v /\ ToJson(h, v) = v
    BY <1>1, NumJson
  <2>2. Entries(g, v, p) = {} /\ Entries(h, v, p) = {}
    BY <1>1, NoEntries
  <2> QED
    BY <2>1, <2>2 DEF SameReading
<1>2. CASE \E q \in Rows : v = Row(q)
  <2>1. PICK q \in Rows : v = Row(q)
    BY <1>2
  <2>2. g[q] = h[q]
    BY <2>1 DEF Agree
  <2>3. ToJson(g, v) = ObjectOf(g, q) /\ ToJson(h, v) = ObjectOf(h, q)
    BY <2>1, RowJson
  <2>4. ObjectOf(g, q) = ObjectOf(h, q)
    BY <2>2 DEF ObjectOf
  <2>5. Entries(g, v, p) = Entries(h, v, p)
    BY <2>1, RowEntries
  <2> QED
    BY <2>3, <2>4, <2>5 DEF SameReading
<1>3. CASE \E u \in Tables : v = <<"table", u>>
  <2>1. PICK u \in Tables : v = <<"table", u>>
    BY <1>3
  <2>2. g[u] = h[u] /\ \A m \in 1 .. Len(h[u]) : g[h[u][m]] = h[h[u][m]]
    BY <2>1 DEF Agree
  <2>3. Objects(g, u) = Objects(h, u)
    BY <2>2 DEF Objects, ObjectOf
  <2>4. ToJson(g, v) = ToJson(h, v)
    BY <2>1, <2>3, TableJson
  <2>5. Entries(g, v, p) = Entries(h, v, p)
    BY <2>1, <2>2 DEF Entries, Inside
  <2> QED
    BY <2>4, <2>5 DEF SameReading
<1> QED
  BY <1>1, <1>2, <1>3, ValueKinds

-----------------------------------------------------------------------------
(* An item of a table is replaced.                                           *)

\* t's item i is r in g and something else perhaps in h.
Replaces(h, g, t, i, r) ==
  /\ t \in Tables /\ t \in DOMAIN h
  /\ i \in 1 .. Len(h[t])
  /\ r \in Rows /\ r \in DOMAIN h
  /\ g = [h EXCEPT ![t][i] = r]

SameShape(h, g, t, i, r) ==
  /\ DOMAIN g = DOMAIN h
  /\ g[t] = [h[t] EXCEPT ![i] = r]
  /\ DOMAIN h[t] = 1 .. Len(h[t])
  /\ Len(h[t]) \in 0 .. MaxLength
  /\ g[t] \in [1 .. Len(h[t]) -> Rows \cap DOMAIN h]
  /\ Len(g[t]) = Len(h[t])
  /\ i \in Nat \ {0}

LEMMA ReplacesItem ==
  ASSUME NEW h, NEW g, NEW t, NEW i, NEW r, HeapSound(h), Replaces(h, g, t, i, r)
  PROVE  SameShape(h, g, t, i, r)
<1>1. t \in Tables /\ t \in DOMAIN h /\ i \in 1 .. Len(h[t]) /\ r \in Rows /\ r \in DOMAIN h
      /\ g = [h EXCEPT ![t][i] = r]
  BY DEF Replaces
<1>2. /\ h[t] \in Seq(Rows \cap DOMAIN h) /\ Len(h[t]) \in 0 .. MaxLength
      /\ DOMAIN h[t] = 1 .. Len(h[t])
  BY <1>1, TablesAre
<1>3. DOMAIN g = DOMAIN h /\ g[t] = [h[t] EXCEPT ![i] = r]
  BY <1>1
<1>4. PICK n \in 0 .. MaxLength : n = Len(h[t])
  BY <1>2
<1>5. n \in Nat
  BY SizesAssumption
<1>6. h[t] \in [1 .. n -> Rows \cap DOMAIN h]
  BY <1>2, <1>4
<1>7. g[t] \in [1 .. n -> Rows \cap DOMAIN h]
  BY <1>1, <1>3, <1>6
<1>8. Len(g[t]) = n
  BY <1>5, <1>7
<1> QED
  BY <1>1, <1>2, <1>3, <1>4, <1>5, <1>7, <1>8 DEF SameShape

LEMMA ReplacesElsewhere ==
  ASSUME NEW h, NEW g, NEW t, NEW i, NEW r, Replaces(h, g, t, i, r),
         NEW c \in DOMAIN h, c # t
  PROVE  g[c] = h[c]
BY DEF Replaces

LEMMA ReplacedObjects ==
  ASSUME NEW h, NEW g, NEW t, NEW i, NEW r, HeapSound(h), Replaces(h, g, t, i, r)
  PROVE  Objects(g, t) = [Objects(h, t) EXCEPT ![i] = ObjectOf(h, r)]
<1>1. t \notin Rows /\ r \in Rows /\ r \in DOMAIN h /\ i \in 1 .. Len(h[t])
  BY SizesAssumption DEF Replaces
<1>2. ASSUME NEW q \in Rows \cap DOMAIN h
      PROVE  ObjectOf(g, q) = ObjectOf(h, q)
  <2>1. g[q] = h[q]
    BY <1>1, ReplacesElsewhere
  <2> QED
    BY <2>1 DEF ObjectOf
<1>3. /\ g[t] = [h[t] EXCEPT ![i] = r] /\ DOMAIN h[t] = 1 .. Len(h[t]) /\ Len(g[t]) = Len(h[t])
      /\ g[t] \in [1 .. Len(h[t]) -> Rows \cap DOMAIN h]
  <2>1. SameShape(h, g, t, i, r)
    BY ReplacesItem
  <2> QED
    BY <2>1 DEF SameShape
<1>4. ASSUME NEW m \in 1 .. Len(h[t])
      PROVE  Objects(g, t)[m] = [Objects(h, t) EXCEPT ![i] = ObjectOf(h, r)][m]
  <2>1. Objects(g, t)[m] = ObjectOf(h, g[t][m])
    BY <1>2, <1>3 DEF Objects
  <2>2. CASE m = i
    BY <1>1, <1>3, <2>1, <2>2 DEF Objects
  <2>3. CASE m # i
    BY <1>3, <2>1, <2>3 DEF Objects
  <2> QED
    BY <2>2, <2>3
<1> DEFINE A == Objects(g, t)
           B == [Objects(h, t) EXCEPT ![i] = ObjectOf(h, r)]
<1>5. /\ A = [m \in 1 .. Len(h[t]) |-> A[m]]
      /\ B = [m \in 1 .. Len(h[t]) |-> B[m]]
  BY <1>3 DEF Objects
<1> HIDE DEF A, B
<1>6. A = B
  BY <1>4, <1>5 DEF A, B
<1> QED
  BY <1>6 DEF A, B

\* The trace of env after the places of the variables in D are rewritten.
Halfway(ts, h, g, env, D) ==
  /\ DOMAIN ts = TraceFields
  /\ ts.on = TRUE
  /\ ts.state = [x \in DOMAIN env |-> ToJson(IF x \in D THEN g ELSE h, env[x])]
  /\ ts.aliases = UNION {Entries(IF x \in D THEN g ELSE h, env[x], Root(x)) : x \in DOMAIN env}

LEMMA IndexStepState ==
  ASSUME NEW h, NEW g, NEW t, NEW i, NEW r, HeapSound(h), Replaces(h, g, t, i, r),
         NEW env, NEW D, NEW ts, Halfway(ts, h, g, env, D),
         NEW x \in Holders(env, t), x \notin D
  PROVE  Written(ts.state, Item(Root(x), i), ToJson(h, Row(r))) =
            [y \in DOMAIN env |-> ToJson(IF y \in D \cup {x} THEN g ELSE h, env[y])]
<1> DEFINE s == ts.state
           a == Objects(h, t)
           p == Item(Root(x), i)
           b == Objects(g, t)
<1>1. s = [y \in DOMAIN env |-> ToJson(IF y \in D THEN g ELSE h, env[y])]
  BY DEF Halfway
<1>2. x \in DOMAIN env /\ env[x] = <<"table", t>>
  BY DEF Holders
<1>3. HasArray(s, x, a)
  <2>1. s[x] = <<"array", a>>
    <3>1. s[x] = ToJson(h, <<"table", t>>)
      BY <1>1, <1>2
    <3> QED
      BY <3>1, TableJson
  <2>2. IsFcn(s) /\ x \in DOMAIN s
    BY <1>1, <1>2 DEF IsFcn
  <2>3. IsFcn(a)
    BY DEF IsFcn, Objects
  <2> QED
    BY <2>1, <2>2, <2>3 DEF HasArray
<1>4. i \in Nat \ {0}
  <2>1. SameShape(h, g, t, i, r)
    BY ReplacesItem
  <2> QED
    BY <2>1 DEF SameShape
<1>5. Leads(p, x, i, FALSE)
  BY <1>4 DEF Item, Extended, ToItem, Root, Whole, Leads
<1>7. ToJson(h, Row(r)) = ObjectOf(h, r)
  BY RowJson
<1>8. b = [a EXCEPT ![i] = ObjectOf(h, r)]
  BY ReplacedObjects
<1>9. ToJson(g, env[x]) = <<"array", b>>
  BY <1>2, TableJson
<1> HIDE DEF s, a, p, b
<1>10. Written(s, p, ObjectOf(h, r)) = ItemSet(s, x, a, i, ObjectOf(h, r))
  BY <1>3, <1>5, WrittenItem
<1>11. ItemSet(s, x, a, i, ObjectOf(h, r)) = [y \in DOMAIN env |-> IF y = x THEN <<"array", b>> ELSE s[y]]
  BY <1>1, <1>8 DEF ItemSet
<1>12. ASSUME NEW y \in DOMAIN env
       PROVE  (IF y = x THEN <<"array", b>> ELSE s[y]) = ToJson(IF y \in D \cup {x} THEN g ELSE h, env[y])
  BY <1>1, <1>9
<1> QED
  BY <1>7, <1>10, <1>11, <1>12 DEF s, p

LEMMA IndexStepEntries ==
  ASSUME NEW h, NEW g, NEW t, NEW i, NEW r, HeapSound(h), Replaces(h, g, t, i, r),
         NEW env, EnvSound(h, env), NEW D, D \subseteq Holders(env, t),
         NEW ts, Halfway(ts, h, g, env, D),
         NEW x \in Holders(env, t), x \notin D
  PROVE  Register(Unregister(ts.aliases, h, Row(h[t][i]), Item(Root(x), i)), h, Row(r), Item(Root(x), i)) =
            UNION {Entries(IF y \in D \cup {x} THEN g ELSE h, env[y], Root(y)) : y \in DOMAIN env}
<1> DEFINE p == Item(Root(x), i)
           o == h[t][i]
           E(y) == Entries(IF y \in D THEN g ELSE h, env[y], Root(y))
           F(y) == Entries(IF y \in D \cup {x} THEN g ELSE h, env[y], Root(y))
           A == ts.aliases
<1>1. A = UNION {E(y) : y \in DOMAIN env}
  BY DEF Halfway
<1>2. x \in DOMAIN env /\ env[x] = <<"table", t>>
  BY DEF Holders
<1>3. /\ g[t] = [h[t] EXCEPT ![i] = r] /\ DOMAIN h[t] = 1 .. Len(h[t]) /\ Len(g[t]) = Len(h[t])
      /\ i \in Nat \ {0} /\ Len(h[t]) \in 0 .. MaxLength
  <2>1. SameShape(h, g, t, i, r)
    BY ReplacesItem
  <2> QED
    BY <2>1 DEF SameShape
<1>4. i \in 1 .. Len(h[t])
  BY DEF Replaces
<1>5. E(x) = {<<t, Root(x)>>} \cup {<<h[t][m], Item(Root(x), m)>> : m \in 1 .. Len(h[t])}
  BY <1>2, TableEntries
<1>6. F(x) = {<<t, Root(x)>>} \cup {<<g[t][m], Item(Root(x), m)>> : m \in 1 .. Len(h[t])}
  BY <1>2, <1>3, TableEntries
<1>7. ASSUME NEW m \in 1 .. Len(h[t])
      PROVE  (Item(Root(x), m) = p <=> m = i) /\ Root(x) # p
  <2>1. m \in Int /\ i \in Int /\ m # 0
    BY <1>3
  <2>2. Item(Root(x), m).index = m - 1 /\ p.index = i - 1 /\ Root(x).index = Whole
    BY <1>3, <2>1 DEF Item, Extended, ToItem, Root, Whole
  <2> QED
    BY <1>3, <2>1, <2>2 DEF Whole
<1>8. ASSUME NEW y \in DOMAIN env, y # x
      PROVE  F(y) = E(y) /\ \A e \in E(y) : e[2] # p
  <2>1. F(y) = E(y)
    BY <1>8
  <2>2. env[y] \in Values
    BY DEF EnvSound, Denotes
  <2>3. \A e \in E(y) : e[2].root = y
    BY <2>2, EntriesStay
  <2>4. p.root = x
    BY DEF Item, Extended, Root
  <2> QED
    BY <1>8, <2>1, <2>3, <2>4
<1>9. <<o, p>> \in E(x)
  BY <1>4, <1>5
<1>10. \A c : <<c, p>> \in A => <<c, p>> \in E(x)
  BY <1>1, <1>8
<1>11. ASSUME NEW c, <<c, p>> \in E(x)
       PROVE  c = o
  <2>1. <<c, p>> # <<t, Root(x)>>
    BY <1>4, <1>7
  <2>2. PICK m \in 1 .. Len(h[t]) : <<c, p>> = <<h[t][m], Item(Root(x), m)>>
    BY <1>5, <1>11, <2>1
  <2>3. c = h[t][m] /\ p = Item(Root(x), m)
    BY <2>2
  <2> QED
    BY <1>7, <2>3
<1>12. <<o, p>> \in A
  BY <1>1, <1>2, <1>9
<1>13. Unregister(A, h, Row(o), p) = A \ {<<o, p>>}
  <2>1. Row(o)[2] = o
    BY DEF Row
  <2>2. Unregister(A, h, Row(o), p) = A \ Entries(h, Row(o), p)
    BY <1>12, <2>1, UnregisterIs
  <2> QED
    BY <2>2, RowEntries
<1>14. Register(A \ {<<o, p>>}, h, Row(r), p) = (A \ {<<o, p>>}) \cup {<<r, p>>}
  <2>1. Row(r)[2] = r
    BY DEF Row
  <2>2. <<r, p>> \notin A \ {<<o, p>>}
    BY <1>10, <1>11
  <2>3. Register(A \ {<<o, p>>}, h, Row(r), p) = (A \ {<<o, p>>}) \cup Entries(h, Row(r), p)
    BY <2>1, <2>2, RegisterIs
  <2> QED
    BY <2>3, RowEntries
<1>15. F(x) = (E(x) \ {<<o, p>>}) \cup {<<r, p>>}
  <2>1. ASSUME NEW m \in 1 .. Len(h[t])
        PROVE  g[t][m] = IF m = i THEN r ELSE h[t][m]
    BY <1>3
  <2>2. ASSUME NEW e \in F(x)
        PROVE  e \in (E(x) \ {<<o, p>>}) \cup {<<r, p>>}
    <3>1. CASE e = <<t, Root(x)>>
      <4>1. Root(x) # p
        BY <1>4, <1>7
      <4> QED
        BY <1>5, <3>1, <4>1
    <3>2. CASE \E m \in 1 .. Len(h[t]) : e = <<g[t][m], Item(Root(x), m)>>
      <4>1. PICK m \in 1 .. Len(h[t]) : e = <<g[t][m], Item(Root(x), m)>>
        BY <3>2
      <4>2. CASE m = i
        BY <2>1, <4>1, <4>2
      <4>3. CASE m # i
        <5>1. e = <<h[t][m], Item(Root(x), m)>> /\ Item(Root(x), m) # p
          BY <1>7, <2>1, <4>1, <4>3
        <5> QED
          BY <1>5, <5>1
      <4> QED
        BY <4>2, <4>3
    <3> QED
      BY <1>6, <3>1, <3>2
  <2>3. ASSUME NEW e \in E(x), e # <<o, p>>
        PROVE  e \in F(x)
    <3>1. CASE e = <<t, Root(x)>>
      BY <1>6, <3>1
    <3>2. CASE \E m \in 1 .. Len(h[t]) : e = <<h[t][m], Item(Root(x), m)>>
      <4>1. PICK m \in 1 .. Len(h[t]) : e = <<h[t][m], Item(Root(x), m)>>
        BY <3>2
      <4>2. m # i
        BY <2>3, <4>1
      <4>3. e = <<g[t][m], Item(Root(x), m)>>
        BY <2>1, <4>1, <4>2
      <4> QED
        BY <1>6, <4>3
    <3> QED
      BY <1>5, <3>1, <3>2
  <2>4. <<r, p>> \in F(x)
    BY <1>4, <1>6, <2>1
  <2> HIDE DEF E, F, p, o
  <2> QED
    BY <2>2, <2>3, <2>4
<1> HIDE DEF E, F, A, p, o
<1>16. (A \ {<<o, p>>}) \cup {<<r, p>>} = UNION {F(y) : y \in DOMAIN env}
  <2> DEFINE op == <<o, p>>
             rp == <<r, p>>
  <2>1. \A y \in DOMAIN env : y # x => op \notin E(y)
    BY <1>8
  <2> HIDE DEF op, rp
  <2> QED
    BY <1>1, <1>2, <1>8, <1>15, <2>1 DEF op, rp
<1> QED
  BY <1>13, <1>14, <1>16 DEF A, p, o, F

LEMMA IndexStep ==
  ASSUME NEW h, NEW g, NEW t, NEW i, NEW r, HeapSound(h), Replaces(h, g, t, i, r),
         NEW env, EnvSound(h, env), NEW D, D \subseteq Holders(env, t),
         NEW ts, Halfway(ts, h, g, env, D),
         NEW x \in Holders(env, t), x \notin D
  PROVE  Halfway(Rewrite(ts, h, Item(Root(x), i), Row(h[t][i]), Row(r)), h, g, env, D \cup {x})
<1> DEFINE p == Item(Root(x), i)
           next == Rewrite(ts, h, p, Row(h[t][i]), Row(r))
<1>1. DOMAIN ts = TraceFields /\ ts.on = TRUE
  BY DEF Halfway
<1>2. /\ DOMAIN next = TraceFields /\ next.on = TRUE
      /\ next.state = Written(ts.state, p, ToJson(h, Row(r)))
      /\ next.aliases = Register(Unregister(ts.aliases, h, Row(h[t][i]), p), h, Row(r), p)
  BY <1>1, RewriteIs
<1> HIDE DEF next
<1>3. next.state = [y \in DOMAIN env |-> ToJson(IF y \in D \cup {x} THEN g ELSE h, env[y])]
  BY <1>2, IndexStepState
<1>4. next.aliases =
        UNION {Entries(IF y \in D \cup {x} THEN g ELSE h, env[y], Root(y)) : y \in DOMAIN env}
  BY <1>2, IndexStepEntries
<1>5. Halfway(next, h, g, env, D \cup {x})
  BY <1>2, <1>3, <1>4 DEF Halfway
<1> QED
  BY <1>5 DEF next

LEMMA ReplacedElsewhere ==
  ASSUME NEW h, NEW g, NEW t, NEW i, NEW r, HeapSound(h), Replaces(h, g, t, i, r),
         NEW v, Denotes(h, v), v # <<"table", t>>
  PROVE  Agree(h, g, v)
<1>1. t \notin Rows
  BY SizesAssumption DEF Replaces
<1>2. ASSUME NEW q \in Rows, v = Row(q)
      PROVE  g[q] = h[q]
  <2>1. q \in DOMAIN h
    BY <1>2, RowJson DEF Denotes
  <2> QED
    BY <1>1, <2>1, ReplacesElsewhere
<1>3. ASSUME NEW u \in Tables, v = <<"table", u>>
      PROVE  g[u] = h[u] /\ \A m \in 1 .. Len(h[u]) : g[h[u][m]] = h[h[u][m]]
  <2>1. u \in DOMAIN h /\ u # t
    <3>1. IsContainer(v) /\ v[2] = u
      BY <1>3, TableJson
    <3> QED
      BY <1>3, <3>1 DEF Denotes
  <2>2. \A m \in 1 .. Len(h[u]) : h[u][m] \in Rows \cap DOMAIN h
    BY <2>1, TablesAre
  <2> QED
    BY <1>1, <2>1, <2>2, ReplacesElsewhere
<1> QED
  BY <1>2, <1>3 DEF Agree

LEMMA IndexExact ==
  ASSUME NEW h, NEW g, NEW t, NEW i, NEW r, HeapSound(h), Replaces(h, g, t, i, r),
         NEW env, EnvSound(h, env), NEW ts, Exact(ts, h, env)
  PROVE  /\ Exact(Mutation(ts, h, t, ToItem(i), Row(h[t][i]), Row(r)), g, env)
         /\ Mutation(ts, h, t, ToItem(i), Row(h[t][i]), Row(r)).loops = ts.loops
<1> DEFINE o == Row(h[t][i])
           v == Row(r)
           paths == {Extended(p, ToItem(i)) : p \in PathsOf(ts, t)}
           H == Holders(env, t)
<1>1. t \in Tables /\ H \subseteq DOMAIN env /\ DOMAIN env \subseteq Names
  BY DEF Replaces, Holders, EnvSound
<1>2. paths = {Item(Root(x), i) : x \in H}
  <2>1. PathsOf(ts, t) = {Root(x) : x \in H}
    BY <1>1, TablePaths
  <2> QED
    BY <2>1 DEF Item
<1>3. i \in Nat \ {0} /\ i \in 1 .. Len(h[t]) /\ Len(h[t]) \in 0 .. MaxLength
  <2>1. SameShape(h, g, t, i, r)
    BY ReplacesItem
  <2> QED
    BY <2>1 DEF SameShape, Replaces
<1>4. IsFiniteSet(paths)
  <2>1. ASSUME NEW x \in H
        PROVE  Item(Root(x), i) \in PathsOver(FALSE)
    <3>1. i - 1 \in Whole .. MaxLength
      <4>1. PICK n \in 0 .. MaxLength : n = Len(h[t])
        BY <1>3
      <4> QED
        BY <1>3, <4>1, SizesAssumption DEF Whole
    <3> DEFINE q == <<x, i - 1>>
    <3>2. q \in Names \X (Whole .. MaxLength)
      BY <1>1, <3>1
    <3>3. [root |-> q[1], index |-> q[2], field |-> FALSE] \in PathsOver(FALSE)
      BY <3>2 DEF PathsOver
    <3>4. Item(Root(x), i) = [root |-> x, index |-> i - 1, field |-> FALSE]
      BY <1>3 DEF Item, Extended, ToItem, Root, Whole
    <3> QED
      BY <3>3, <3>4
  <2>2. paths \in SUBSET PathsOver(FALSE)
    BY <1>2, <2>1
  <2> HIDE DEF paths
  <2> QED
    BY <2>2, PathsAreFinite
<1>5. PICK s, after : MutationStages(ts, h, t, ToItem(i), o, v, s, after)
  BY <1>4, Mutations
<1> DEFINE N == Len(s)
<1>6. /\ Lists(s, paths) /\ after[0] = ts
      /\ \A n \in 1 .. N : after[n] = Rewrite(after[n - 1], h, s[n], o, v)
      /\ Mutation(ts, h, t, ToItem(i), o, v) = after[N]
  BY <1>5 DEF MutationStages
<1> HIDE DEF paths
<1>7. N \in Nat /\ \A n \in 1 .. N : s[n] \in paths
  BY <1>6 DEF Lists
<1> DEFINE D(k) == {x \in H : \E m \in 1 .. k : s[m] = Item(Root(x), i)}
           Good(k) == Halfway(after[k], h, g, env, D(k)) /\ after[k].loops = ts.loops
           S == {k \in 0 .. N : Good(k)}
<1>8. Good(0)
  <2>1. D(0) = {}
    OBVIOUS
  <2>2. ts.state = [x \in DOMAIN env |-> ToJson(IF x \in {} THEN g ELSE h, env[x])]
    BY DEF Exact, Copy
  <2>3. ts.aliases = UNION {Entries(IF x \in {} THEN g ELSE h, env[x], Root(x)) : x \in DOMAIN env}
    BY DEF Exact, AllEntries
  <2>4. Halfway(ts, h, g, env, {})
    BY <2>2, <2>3 DEF Halfway, Exact
  <2> QED
    BY <1>6, <2>1, <2>4
<1>9. ASSUME NEW k \in 1 .. N, Good(k - 1)
      PROVE  Good(k)
  <2>1. PICK x \in H : s[k] = Item(Root(x), i)
    BY <1>2, <1>7
  <2>2. ASSUME NEW y \in H, s[k] = Item(Root(y), i)
        PROVE  y = x
    <3>1. Item(Root(y), i).root = y /\ Item(Root(x), i).root = x
      BY DEF Item, Extended, Root
    <3>2. Item(Root(y), i) = Item(Root(x), i)
      BY <2>1, <2>2
    <3> QED
      BY <3>1, <3>2
  <2>3. \A m \in 1 .. k - 1 : s[m] # s[k]
    BY <1>6, <1>7 DEF Lists
  <2>4. x \notin D(k - 1)
    BY <2>1, <2>3
  <2>5. D(k) = D(k - 1) \cup {x}
    <3>1. \A m : m \in 1 .. k <=> m \in 1 .. k - 1 \/ m = k
      BY <1>7
    <3> HIDE DEF H, N
    <3> QED
      BY <2>1, <2>2, <3>1
  <2>6. after[k] = Rewrite(after[k - 1], h, Item(Root(x), i), o, v)
    BY <1>6, <2>1
  <2>7. D(k - 1) \subseteq H
    OBVIOUS
  <2> DEFINE B == D(k - 1)
  <2> HIDE DEF D
  <2>8. Halfway(after[k - 1], h, g, env, B)
    BY <1>9
  <2> HIDE DEF B
  <2>9. B \subseteq H /\ x \notin B
    BY <2>4, <2>7 DEF B
  <2>10. Halfway(after[k], h, g, env, B \cup {x})
    <3>1. Halfway(Rewrite(after[k - 1], h, Item(Root(x), i), Row(h[t][i]), Row(r)), h, g, env, B \cup {x})
      BY <2>8, <2>9, IndexStep
    <3> QED
      BY <2>6, <3>1
  <2>11. after[k].loops = after[k - 1].loops
    BY <2>6, <2>8, RewriteIs DEF Halfway
  <2> QED
    BY <1>9, <2>5, <2>10, <2>11 DEF B
<1>10. Good(N)
  <2> HIDE DEF Good, N
  <2>1. 0 \in S
    BY <1>7, <1>8
  <2>2. \A k \in 1 .. N : k - 1 \in S => k \in S
    BY <1>7, <1>9
  <2>3. N \in S
    <3> HIDE DEF S
    <3> QED
      BY <1>7, <2>1, <2>2, Counting
  <2> QED
    BY <2>3
<1>11. D(N) = H
  BY <1>2, <1>6 DEF Lists
<1> HIDE DEF D, N
<1>12. Halfway(after[N], h, g, env, H) /\ after[N].loops = ts.loops
  BY <1>10, <1>11
<1>13. ASSUME NEW x \in DOMAIN env
       PROVE  SameReading(IF x \in H THEN g ELSE h, g, env[x], Root(x))
  <2>1. CASE x \in H
    BY <2>1 DEF SameReading
  <2>2. CASE x \notin H
    <3>1. Denotes(h, env[x]) /\ env[x] \in Values
      BY DEF EnvSound, Denotes
    <3>2. env[x] # <<"table", t>>
      BY <2>2 DEF Holders
    <3>3. Agree(h, g, env[x])
      BY <3>1, <3>2, ReplacedElsewhere
    <3> QED
      BY <2>2, <3>1, <3>3, Reading
  <2> QED
    BY <2>1, <2>2
<1> HIDE DEF H
<1>14. Exact(after[N], g, env)
  <2>1. after[N].state = Copy(g, env)
    BY <1>12, <1>13 DEF Halfway, Copy, SameReading
  <2>2. after[N].aliases = AllEntries(g, env)
    BY <1>12, <1>13 DEF Halfway, AllEntries, SameReading
  <2> QED
    BY <1>12, <2>1, <2>2 DEF Halfway, Exact
<1> QED
  BY <1>6, <1>12, <1>14

-----------------------------------------------------------------------------
(* The field of a struct is set.                                             *)

\* The JSON of the values at x when of the places of r those in F hold n.
MidObject(h, r, n, F, q, p) == <<"object", IF q = r /\ Field(p) \in F THEN n ELSE h[q]>>
MidObjects(h, r, n, F, u, x) ==
    [m \in 1 .. Len(h[u]) |-> MidObject(h, r, n, F, h[u][m], Item(Root(x), m))]
MidJson(h, r, n, F, v, x) ==
    CASE v[1] = "int" -> v
      [] v[1] = "row" -> MidObject(h, r, n, F, v[2], Root(x))
      [] v[1] = "table" -> <<"array", MidObjects(h, r, n, F, v[2], x)>>

LEMMA NumMid ==
  ASSUME NEW h, NEW r, NEW n, NEW F, NEW k, NEW x
  PROVE  MidJson(h, r, n, F, Num(k), x) = Num(k)
BY DEF MidJson, Num

LEMMA RowMid ==
  ASSUME NEW h, NEW r, NEW n, NEW F, NEW q, NEW x
  PROVE  MidJson(h, r, n, F, Row(q), x) = MidObject(h, r, n, F, q, Root(x))
BY DEF MidJson, Row

LEMMA TableMid ==
  ASSUME NEW h, NEW r, NEW n, NEW F, NEW u, NEW x
  PROVE  MidJson(h, r, n, F, <<"table", u>>, x) = <<"array", MidObjects(h, r, n, F, u, x)>>
BY DEF MidJson

LEMMA FieldPaths ==
  ASSUME NEW x
  PROVE  LeadsToField(Field(Root(x)), x)
BY DEF Field, Extended, ToField, Root, LeadsToField

LEMMA ItemFieldLeads ==
  ASSUME NEW x, NEW i \in Nat \ {0}
  PROVE  Leads(Field(Item(Root(x), i)), x, i, TRUE)
BY DEF Field, Extended, ToField, Item, ToItem, Root, Leads, Whole

\* Places are told apart by their variable, and by their index.
LEMMA PlacesDiffer ==
  ASSUME NEW x, NEW y, NEW i \in Nat \ {0}, NEW m \in Nat \ {0}
  PROVE  /\ Field(Item(Root(x), i)) = Field(Item(Root(y), m)) => x = y /\ i = m
         /\ Field(Item(Root(x), i)) # Field(Root(y))
<1>1. Leads(Field(Item(Root(x), i)), x, i, TRUE) /\ Leads(Field(Item(Root(y), m)), y, m, TRUE)
  BY ItemFieldLeads
<1>2. Field(Item(Root(x), i)) = Field(Item(Root(y), m)) => x = y /\ i = m
  BY <1>1 DEF Leads
<1>3. Field(Item(Root(x), i)) # Field(Root(y))
  <2>1. i - 1 # Whole
    BY DEF Whole
  <2>2. Field(Root(y)).index = Whole
    BY FieldPaths DEF LeadsToField
  <2>3. Field(Item(Root(x), i)).index = i - 1
    BY <1>1 DEF Leads
  <2> QED
    BY <2>1, <2>2, <2>3
<1> QED
  BY <1>2, <1>3

\* The trace of env after the places in F are rewritten.
HalfSet(ts, h, r, n, env, F) ==
  /\ DOMAIN ts = TraceFields
  /\ ts.on = TRUE
  /\ ts.state = [x \in DOMAIN env |-> MidJson(h, r, n, F, env[x], x)]
  /\ ts.aliases = AllEntries(h, env)

LEMMA OtherMids ==
  ASSUME NEW h, HeapSound(h), NEW env, EnvSound(h, env), NEW r \in Rows, NEW n, NEW F,
         NEW x \in DOMAIN env, NEW p, RowAt(h, env, r, x, p),
         NEW y \in DOMAIN env, y # x
  PROVE  MidJson(h, r, n, F \cup {Field(p)}, env[y], y) = MidJson(h, r, n, F, env[y], y)
<1>1. Field(p).root = x
  BY DEF RowAt, Field, Extended, Item, Root
<1>2. ASSUME NEW q, q.root = y
      PROVE  Field(q) \in F \cup {Field(p)} <=> Field(q) \in F
  <2>1. Field(q).root = y
    BY <1>2 DEF Field, Extended
  <2> QED
    BY <1>1, <2>1
<1>3. Root(y).root = y /\ \A m : Item(Root(y), m).root = y
  BY DEF Root, Item, Extended
<1>4. env[y] \in Values
  BY DEF EnvSound, Denotes
<1>5. CASE \E k \in Scalars : env[y] = Num(k)
  BY <1>5, NumMid
<1>6. CASE \E q \in Rows : env[y] = Row(q)
  <2>1. PICK q \in Rows : env[y] = Row(q)
    BY <1>6
  <2>2. MidObject(h, r, n, F \cup {Field(p)}, q, Root(y)) = MidObject(h, r, n, F, q, Root(y))
    BY <1>2, <1>3 DEF MidObject
  <2> QED
    BY <2>1, <2>2, RowMid
<1>7. CASE \E u \in Tables : env[y] = <<"table", u>>
  <2>1. PICK u \in Tables : env[y] = <<"table", u>>
    BY <1>7
  <2>2. \A m : MidObject(h, r, n, F \cup {Field(p)}, h[u][m], Item(Root(y), m)) =
               MidObject(h, r, n, F, h[u][m], Item(Root(y), m))
    BY <1>2, <1>3 DEF MidObject
  <2>3. MidObjects(h, r, n, F \cup {Field(p)}, u, y) = MidObjects(h, r, n, F, u, y)
    BY <2>2 DEF MidObjects
  <2> QED
    BY <2>1, <2>3, TableMid
<1> QED
  BY <1>4, <1>5, <1>6, <1>7, ValueKinds

LEMMA FieldStepState ==
  ASSUME NEW h, HeapSound(h), NEW env, EnvSound(h, env), NEW r \in Rows, NEW n, NEW F,
         NEW s, s = [y \in DOMAIN env |-> MidJson(h, r, n, F, env[y], y)],
         NEW x \in DOMAIN env, NEW p, RowAt(h, env, r, x, p), Field(p) \notin F
  PROVE  Written(s, Field(p), Num(n)) =
            [y \in DOMAIN env |-> MidJson(h, r, n, F \cup {Field(p)}, env[y], y)]
<1> DEFINE G == F \cup {Field(p)}
           result == [y \in DOMAIN env |-> MidJson(h, r, n, G, env[y], y)]
<1>1. \A y \in DOMAIN env : y # x => MidJson(h, r, n, G, env[y], y) = s[y]
  BY OtherMids
<1>2. IsFcn(s) /\ DOMAIN s = DOMAIN env
  BY DEF IsFcn
<1>3. CASE env[x] = Row(r) /\ p = Root(x)
  <2>1. s[x] = <<"object", h[r]>>
    <3>1. s[x] = MidObject(h, r, n, F, r, Root(x))
      BY <1>3, RowMid
    <3> QED
      BY <1>3, <3>1 DEF MidObject
  <2>2. MidJson(h, r, n, G, env[x], x) = <<"object", n>>
    <3>1. MidJson(h, r, n, G, env[x], x) = MidObject(h, r, n, G, r, Root(x))
      BY <1>3, RowMid
    <3> QED
      BY <1>3, <3>1 DEF MidObject
  <2>3. Written(s, Field(p), Num(n)) = SetRoot(s, x, <<"object", n>>)
    <3>1. LeadsToField(Field(p), x)
      BY <1>3, FieldPaths
    <3> QED
      BY <1>2, <2>1, <3>1, WrittenRootField
  <2>4. SetRoot(s, x, <<"object", n>>) = result
    BY <1>1, <1>2, <2>2 DEF SetRoot
  <2> QED
    BY <2>3, <2>4
<1>4. CASE \E t \in Tables : /\ env[x] = <<"table", t>>
                             /\ \E i \in 1 .. Len(h[t]) : h[t][i] = r /\ p = Item(Root(x), i)
  <2> PICK t \in Tables : /\ env[x] = <<"table", t>>
                          /\ \E i \in 1 .. Len(h[t]) : h[t][i] = r /\ p = Item(Root(x), i)
    BY <1>4
  <2>1. PICK i \in 1 .. Len(h[t]) : env[x] = <<"table", t>> /\ h[t][i] = r /\ p = Item(Root(x), i)
    OBVIOUS
  <2> DEFINE a == MidObjects(h, r, n, F, t, x)
             b == MidObjects(h, r, n, G, t, x)
  <2>2. s[x] = <<"array", a>>
    <3>1. s[x] = MidJson(h, r, n, F, <<"table", t>>, x)
      BY <2>1
    <3> QED
      BY <3>1, TableMid
  <2>3. MidJson(h, r, n, G, env[x], x) = <<"array", b>>
    BY <2>1, TableMid
  <2>4. t \in DOMAIN h
    <3>1. IsContainer(env[x]) /\ env[x][2] = t
      BY <2>1 DEF IsContainer
    <3> QED
      BY <3>1 DEF EnvSound, Denotes
  <2>5. Len(h[t]) \in Nat /\ i \in Nat \ {0}
    <3>1. PICK k \in 0 .. MaxLength : k = Len(h[t])
      BY <2>4, TablesAre
    <3> QED
      BY <3>1, SizesAssumption
  <2>6. a[i] = <<"object", h[r]>>
    BY <2>1 DEF MidObjects, MidObject
  <2>7. b = [a EXCEPT ![i] = <<"object", n>>]
    <3>1. b[i] = <<"object", n>>
      BY <2>1 DEF MidObjects, MidObject
    <3>2. ASSUME NEW m \in 1 .. Len(h[t]), m # i
          PROVE  b[m] = a[m]
      <4>1. m \in Nat \ {0}
        BY <2>5
      <4>2. Field(Item(Root(x), m)) # Field(p)
        BY <2>1, <2>5, <3>2, <4>1, PlacesDiffer
      <4> QED
        BY <4>2 DEF MidObjects, MidObject
    <3>3. a = [m \in 1 .. Len(h[t]) |-> a[m]] /\ b = [m \in 1 .. Len(h[t]) |-> b[m]]
      BY DEF MidObjects
    <3> HIDE DEF a, b
    <3> QED
      BY <2>1, <3>1, <3>2, <3>3
  <2>8. IsFcn(a)
    BY DEF MidObjects, IsFcn
  <2> HIDE DEF a, b
  <2>9. HasArray(s, x, a)
    BY <1>2, <2>2, <2>8 DEF HasArray
  <2>10. Leads(Field(p), x, i, TRUE)
    BY <2>1, <2>5, ItemFieldLeads
  <2>11. Written(s, Field(p), Num(n)) = ItemSet(s, x, a, i, <<"object", n>>)
    BY <2>6, <2>9, <2>10, WrittenItemField
  <2>12. ItemSet(s, x, a, i, <<"object", n>>) = [y \in DOMAIN env |-> IF y = x THEN <<"array", b>> ELSE s[y]]
    BY <1>2, <2>7 DEF ItemSet
  <2>13. result = [y \in DOMAIN env |-> IF y = x THEN <<"array", b>> ELSE s[y]]
    BY <1>1, <2>3
  <2> QED
    BY <2>11, <2>12, <2>13
<1> QED
  BY <1>3, <1>4 DEF RowAt

LEMMA FieldStep ==
  ASSUME NEW h, HeapSound(h), NEW env, EnvSound(h, env), NEW r \in Rows, NEW n, NEW F,
         NEW ts, HalfSet(ts, h, r, n, env, F), NEW o,
         NEW x \in DOMAIN env, NEW p, RowAt(h, env, r, x, p), Field(p) \notin F
  PROVE  HalfSet(Rewrite(ts, h, Field(p), Num(o), Num(n)), h, r, n, env, F \cup {Field(p)})
<1> DEFINE next == Rewrite(ts, h, Field(p), Num(o), Num(n))
           A == ts.aliases
<1>1. /\ DOMAIN ts = TraceFields /\ ts.on = TRUE
      /\ ts.state = [y \in DOMAIN env |-> MidJson(h, r, n, F, env[y], y)]
  BY DEF HalfSet
<1>2. /\ DOMAIN next = TraceFields /\ next.on = TRUE
      /\ next.state = Written(ts.state, Field(p), ToJson(h, Num(n)))
      /\ next.aliases = Register(Unregister(A, h, Num(o), Field(p)), h, Num(n), Field(p))
  BY <1>1, RewriteIs
<1> HIDE DEF next
<1>3. ~IsContainer(Num(o)) /\ ~IsContainer(Num(n))
  BY DEF IsContainer, Num
<1>4. next.aliases = A
  BY <1>2, <1>3 DEF Register, Unregister
<1>5. next.state = [y \in DOMAIN env |-> MidJson(h, r, n, F \cup {Field(p)}, env[y], y)]
  <2>1. ToJson(h, Num(n)) = Num(n)
    BY NumJson
  <2> DEFINE s == ts.state
  <2>2. s = [y \in DOMAIN env |-> MidJson(h, r, n, F, env[y], y)]
    BY <1>1
  <2> HIDE DEF s
  <2>3. Written(s, Field(p), Num(n)) =
          [y \in DOMAIN env |-> MidJson(h, r, n, F \cup {Field(p)}, env[y], y)]
    BY <2>2, FieldStepState
  <2> QED
    BY <1>2, <2>1, <2>3 DEF s
<1>6. HalfSet(next, h, r, n, env, F \cup {Field(p)})
  BY <1>2, <1>4, <1>5 DEF HalfSet
<1> QED
  BY <1>6 DEF next

\* Nothing is rewritten, and everything is.
LEMMA FieldStart ==
  ASSUME NEW h, NEW env, EnvSound(h, env), NEW r, NEW n, NEW ts, Exact(ts, h, env)
  PROVE  HalfSet(ts, h, r, n, env, {})
<1>1. ASSUME NEW x \in DOMAIN env
      PROVE  ToJson(h, env[x]) = MidJson(h, r, n, {}, env[x], x)
  <2>1. env[x] \in Values
    BY DEF EnvSound, Denotes
  <2>2. \A q, p : MidObject(h, r, n, {}, q, p) = ObjectOf(h, q)
    BY DEF MidObject, ObjectOf
  <2>3. CASE \E k \in Scalars : env[x] = Num(k)
    BY <2>3, NumJson, NumMid
  <2>4. CASE \E q \in Rows : env[x] = Row(q)
    BY <2>2, <2>4, RowJson, RowMid
  <2>5. CASE \E u \in Tables : env[x] = <<"table", u>>
    <3>1. PICK u \in Tables : env[x] = <<"table", u>>
      BY <2>5
    <3>2. MidObjects(h, r, n, {}, u, x) = Objects(h, u)
      BY <2>2 DEF MidObjects, Objects
    <3> QED
      BY <3>1, <3>2, TableJson, TableMid
  <2> QED
    BY <2>1, <2>3, <2>4, <2>5, ValueKinds
<1>2. ts.state = [x \in DOMAIN env |-> MidJson(h, r, n, {}, env[x], x)]
  BY <1>1 DEF Exact, Copy
<1> QED
  BY <1>2 DEF HalfSet, Exact

Sets(h, g, r, n) == r \in Rows /\ r \in DOMAIN h /\ g = [h EXCEPT ![r] = n]

LEMMA PlacesAreOver ==
  ASSUME NEW h, HeapSound(h), NEW env, EnvSound(h, env), NEW r, NEW x \in DOMAIN env,
         NEW p, RowAt(h, env, r, x, p)
  PROVE  p \in PathsOver(FALSE) /\ Field(p) \in PathsOver(TRUE)
<1>1. x \in Names
  BY DEF EnvSound
<1>2. \E k \in Whole .. MaxLength : p = [root |-> x, index |-> k, field |-> FALSE]
  <2>1. CASE p = Root(x)
    <3>1. Whole \in Whole .. MaxLength
      BY SizesAssumption DEF Whole
    <3> QED
      BY <2>1, <3>1 DEF Root
  <2>2. CASE \E t \in Tables : /\ env[x] = <<"table", t>>
                               /\ \E i \in 1 .. Len(h[t]) : h[t][i] = r /\ p = Item(Root(x), i)
    <3>1. PICK t \in Tables : /\ env[x] = <<"table", t>>
                              /\ \E i \in 1 .. Len(h[t]) : h[t][i] = r /\ p = Item(Root(x), i)
      BY <2>2
    <3>2. PICK i \in 1 .. Len(h[t]) : p = Item(Root(x), i)
      BY <3>1
    <3>3. t \in DOMAIN h
      <4>1. IsContainer(env[x]) /\ env[x][2] = t
        BY <3>1 DEF IsContainer
      <4> QED
        BY <4>1 DEF EnvSound, Denotes
    <3>4. PICK k \in 0 .. MaxLength : k = Len(h[t])
      BY <3>3, TablesAre
    <3>5. i - 1 \in Whole .. MaxLength /\ i \in Nat \ {0}
      BY <3>4, SizesAssumption DEF Whole
    <3>6. p = [root |-> x, index |-> i - 1, field |-> FALSE]
      BY <3>2, <3>5 DEF Item, Extended, ToItem, Root, Whole
    <3> QED
      BY <3>5, <3>6
  <2> QED
    BY <2>1, <2>2 DEF RowAt
<1>3. PICK k \in Whole .. MaxLength : p = [root |-> x, index |-> k, field |-> FALSE]
  BY <1>2
<1>4. Field(p) = [root |-> x, index |-> k, field |-> TRUE]
  BY <1>3 DEF Field, Extended, ToField
<1> DEFINE q == <<x, k>>
<1>5. q \in Names \X (Whole .. MaxLength)
  BY <1>1, <1>3
<1>6. [root |-> q[1], index |-> q[2], field |-> FALSE] \in PathsOver(FALSE)
  BY <1>5 DEF PathsOver
<1>7. [root |-> q[1], index |-> q[2], field |-> TRUE] \in PathsOver(TRUE)
  BY <1>5 DEF PathsOver
<1> QED
  BY <1>3, <1>4, <1>6, <1>7

LEMMA FieldEnd ==
  ASSUME NEW h, HeapSound(h), NEW env, EnvSound(h, env), NEW g, NEW r, NEW n, Sets(h, g, r, n),
         NEW F, \A x \in DOMAIN env : \A p : RowAt(h, env, r, x, p) => Field(p) \in F,
         NEW ts, HalfSet(ts, h, r, n, env, F)
  PROVE  Exact(ts, g, env)
<1>1. r \in Rows /\ r \in DOMAIN h /\ r \notin Tables /\ g[r] = n
      /\ \A c \in DOMAIN h : c # r => g[c] = h[c]
  BY SizesAssumption DEF Sets
<1>2. ASSUME NEW q \in DOMAIN h, NEW p, q = r => Field(p) \in F
      PROVE  MidObject(h, r, n, F, q, p) = ObjectOf(g, q)
  BY <1>1, <1>2 DEF MidObject, ObjectOf
<1>3. ASSUME NEW x \in DOMAIN env
      PROVE  /\ MidJson(h, r, n, F, env[x], x) = ToJson(g, env[x])
             /\ Entries(h, env[x], Root(x)) = Entries(g, env[x], Root(x))
  <2>1. env[x] \in Values /\ (IsContainer(env[x]) => env[x][2] \in DOMAIN h)
    BY DEF EnvSound, Denotes
  <2>2. CASE \E k \in Scalars : env[x] = Num(k)
    BY <2>2, NumJson, NumMid, NoEntries
  <2>3. CASE \E q \in Rows : env[x] = Row(q)
    <3>1. PICK q \in Rows : env[x] = Row(q)
      BY <2>3
    <3>2. q \in DOMAIN h
      BY <2>1, <3>1, RowJson
    <3>3. q = r => Field(Root(x)) \in F
      BY <3>1 DEF RowAt
    <3>4. MidObject(h, r, n, F, q, Root(x)) = ObjectOf(g, q)
      BY <1>2, <3>2, <3>3
    <3> QED
      BY <3>1, <3>4, RowJson, RowMid, RowEntries
  <2>4. CASE \E u \in Tables : env[x] = <<"table", u>>
    <3>1. PICK u \in Tables : env[x] = <<"table", u>>
      BY <2>4
    <3>2. u \in DOMAIN h
      <4>1. IsContainer(env[x]) /\ env[x][2] = u
        BY <3>1 DEF IsContainer
      <4> QED
        BY <2>1, <4>1
    <3>3. g[u] = h[u]
      BY <1>1, <3>2
    <3>4. ASSUME NEW m \in 1 .. Len(h[u])
          PROVE  MidObject(h, r, n, F, h[u][m], Item(Root(x), m)) = ObjectOf(g, g[u][m])
      <4>1. h[u][m] \in DOMAIN h
        BY <3>2, TablesAre
      <4>2. h[u][m] = r => Field(Item(Root(x), m)) \in F
        BY <3>1 DEF RowAt
      <4> QED
        BY <1>2, <3>3, <4>1, <4>2
    <3>5. MidObjects(h, r, n, F, u, x) = Objects(g, u)
      BY <3>3, <3>4 DEF MidObjects, Objects
    <3>6. Entries(h, env[x], Root(x)) = Entries(g, env[x], Root(x))
      <4> DEFINE v == env[x]
      <4>1. v[2] = u
        BY <3>1
      <4> HIDE DEF v
      <4>2. Entries(h, v, Root(x)) = Entries(g, v, Root(x))
        BY <3>3, <4>1 DEF Entries, Inside
      <4> QED
        BY <4>2 DEF v
    <3> QED
      BY <3>1, <3>5, <3>6, TableJson, TableMid
  <2> QED
    BY <2>1, <2>2, <2>3, <2>4, ValueKinds
<1>4. ts.state = Copy(g, env)
  BY <1>3 DEF HalfSet, Copy
<1>5. ts.aliases = AllEntries(g, env)
  BY <1>3 DEF HalfSet, AllEntries
<1> QED
  BY <1>4, <1>5 DEF HalfSet, Exact

LEMMA FieldExact ==
  ASSUME NEW h, HeapSound(h), NEW env, EnvSound(h, env), NEW g, NEW r, NEW n, Sets(h, g, r, n),
         NEW ts, Exact(ts, h, env), NEW o
  PROVE  /\ Exact(Mutation(ts, h, r, ToField, Num(o), Num(n)), g, env)
         /\ Mutation(ts, h, r, ToField, Num(o), Num(n)).loops = ts.loops
<1> DEFINE paths == {Extended(p, ToField) : p \in PathsOf(ts, r)}
<1>1. r \in Rows
  BY DEF Sets
<1>2. \A p : p \in PathsOf(ts, r) <=> \E x \in DOMAIN env : RowAt(h, env, r, x, p)
  BY <1>1, RowPaths
<1>3. paths = {Field(p) : p \in PathsOf(ts, r)}
  BY DEF Field
<1>4. IsFiniteSet(paths)
  <2>1. \A p \in PathsOf(ts, r) : Field(p) \in PathsOver(TRUE)
    BY <1>2, PlacesAreOver
  <2>2. paths \in SUBSET PathsOver(TRUE)
    BY <1>3, <2>1
  <2> HIDE DEF paths
  <2> QED
    BY <2>2, PathsAreFinite
<1>5. PICK s, after : MutationStages(ts, h, r, ToField, Num(o), Num(n), s, after)
  BY <1>4, Mutations
<1> DEFINE N == Len(s)
<1>6. /\ Lists(s, paths) /\ after[0] = ts
      /\ \A k \in 1 .. N : after[k] = Rewrite(after[k - 1], h, s[k], Num(o), Num(n))
      /\ Mutation(ts, h, r, ToField, Num(o), Num(n)) = after[N]
  BY <1>5 DEF MutationStages
<1> HIDE DEF paths
<1>7. N \in Nat /\ \A k \in 1 .. N : s[k] \in paths
  BY <1>6 DEF Lists
<1> DEFINE F(k) == {s[m] : m \in 1 .. k}
           Good(k) == HalfSet(after[k], h, r, n, env, F(k)) /\ after[k].loops = ts.loops
           S == {k \in 0 .. N : Good(k)}
<1>8. Good(0)
  <2>1. F(0) = {}
    OBVIOUS
  <2>2. HalfSet(ts, h, r, n, env, {})
    BY FieldStart
  <2> QED
    BY <1>6, <2>1, <2>2
<1>9. ASSUME NEW k \in 1 .. N, Good(k - 1)
      PROVE  Good(k)
  <2>1. PICK p \in PathsOf(ts, r) : s[k] = Field(p)
    BY <1>3, <1>7
  <2>2. PICK x \in DOMAIN env : RowAt(h, env, r, x, p)
    BY <1>2
  <2>3. \A m \in 1 .. k - 1 : s[m] # s[k]
    BY <1>6, <1>7 DEF Lists
  <2>4. F(k) = F(k - 1) \cup {s[k]}
    <3>1. \A m : m \in 1 .. k <=> m \in 1 .. k - 1 \/ m = k
      BY <1>7
    <3> HIDE DEF N
    <3> QED
      BY <3>1
  <2> DEFINE B == F(k - 1)
  <2>5. Field(p) \notin B
    BY <2>1, <2>3
  <2>6. HalfSet(after[k - 1], h, r, n, env, B)
    BY <1>9
  <2>7. after[k] = Rewrite(after[k - 1], h, Field(p), Num(o), Num(n))
    BY <1>6, <2>1
  <2> HIDE DEF F, B
  <2>8. HalfSet(after[k], h, r, n, env, B \cup {Field(p)})
    <3>1. HalfSet(Rewrite(after[k - 1], h, Field(p), Num(o), Num(n)), h, r, n, env, B \cup {Field(p)})
      BY <1>1, <2>2, <2>5, <2>6, FieldStep
    <3> QED
      BY <2>7, <3>1
  <2>9. after[k].loops = after[k - 1].loops
    BY <2>6, <2>7, RewriteIs DEF HalfSet
  <2> QED
    BY <1>9, <2>1, <2>4, <2>8, <2>9 DEF B
<1>10. Good(N)
  <2> HIDE DEF Good, N
  <2>1. 0 \in S
    BY <1>7, <1>8
  <2>2. \A k \in 1 .. N : k - 1 \in S => k \in S
    BY <1>7, <1>9
  <2>3. N \in S
    <3> HIDE DEF S
    <3> QED
      BY <1>7, <2>1, <2>2, Counting
  <2> QED
    BY <2>3
<1>11. \A x \in DOMAIN env : \A p : RowAt(h, env, r, x, p) => Field(p) \in F(N)
  <2>1. \A p \in PathsOf(ts, r) : Field(p) \in F(N)
    BY <1>3, <1>6 DEF Lists
  <2> HIDE DEF F, N
  <2> QED
    BY <1>2, <2>1
<1>12. HalfSet(after[N], h, r, n, env, F(N)) /\ after[N].loops = ts.loops
  BY <1>10
<1> HIDE DEF F, N
<1>13. Exact(after[N], g, env)
  BY <1>11, <1>12, FieldEnd
<1> QED
  BY <1>6, <1>12, <1>13

-----------------------------------------------------------------------------
(* Frames and the heap they hold.                                            *)

ArmSound(h, f) ==
  \/ f.arm = << >>
  \/ \E x \in DOMAIN f.env, w \in Values \cup {Unset} :
        f.arm = <<x, w>> /\ (IsContainer(w) => w[2] \in DOMAIN h)

FrameOK(h, f) ==
  /\ DOMAIN f = {"env", "arm", "trace"}
  /\ EnvSound(h, f.env)
  /\ ArmSound(h, f)
  /\ f.trace.loops \in 0 .. MaxNest
  /\ f.trace = NoTrace \/ Exact(f.trace, h, Uncovered(f))

IsSeq(s) == Len(s) \in Nat /\ DOMAIN s = 1 .. Len(s) /\ IsFcn(s)

WellFormed(h, fs) ==
  /\ HeapSound(h)
  /\ IsSeq(fs)
  /\ Len(fs) <= MaxFrames
  /\ \A i \in DOMAIN fs : FrameOK(h, fs[i])

Inv == WellFormed(heap, frames) /\ DOMAIN heap = Live(heap, frames)

LEMMA LengthIs ==
  ASSUME NEW s, IsFcn(s), NEW n \in Nat, DOMAIN s = 1 .. n
  PROVE  Len(s) = n /\ IsSeq(s)
<1> DEFINE S == {s[i] : i \in 1 .. n}
<1>1. s \in [1 .. n -> S]
  BY DEF IsFcn
<1>2. s \in Seq(S) /\ Len(s) = n
  BY <1>1
<1> QED
  BY <1>2 DEF IsSeq

\* What a frame's environment is without the binding of an open arm.
UncoveredIs(h, f) ==
  /\ EnvSound(h, Uncovered(f))
  /\ \A x \in DOMAIN Uncovered(f) : Uncovered(f)[x] \in HeldBy(f)

LEMMA UncoveredSound ==
  ASSUME NEW h, NEW f, EnvSound(h, f.env), ArmSound(h, f)
  PROVE  UncoveredIs(h, f)
<1>1. /\ DOMAIN f.env \subseteq Names /\ f.env = [x \in DOMAIN f.env |-> f.env[x]]
      /\ \A x \in DOMAIN f.env : Denotes(h, f.env[x])
  BY DEF EnvSound
<1>2. \A x \in DOMAIN f.env : f.env[x] \in HeldBy(f)
  BY DEF HeldBy, Range
<1>3. CASE f.arm = << >>
  <2>1. Uncovered(f) = f.env
    BY <1>3 DEF Uncovered
  <2> QED
    BY <1>2, <2>1 DEF UncoveredIs
<1>4. CASE f.arm # << >>
  <2>1. PICK x \in DOMAIN f.env, w \in Values \cup {Unset} :
              f.arm = <<x, w>> /\ (IsContainer(w) => w[2] \in DOMAIN h)
    BY <1>4 DEF ArmSound
  <2>2. f.arm[1] = x /\ f.arm[2] = w
    BY <2>1
  <2>3. w \in HeldBy(f)
    BY <1>4, <2>2 DEF HeldBy
  <2>4. CASE w = Unset
    <3>1. Uncovered(f) = [y \in DOMAIN f.env \ {x} |-> f.env[y]]
      BY <1>4, <2>2, <2>4 DEF Uncovered
    <3> QED
      BY <1>1, <1>2, <3>1 DEF UncoveredIs, EnvSound
  <2>5. CASE w # Unset
    <3>1. Uncovered(f) = [f.env EXCEPT ![x] = w]
      BY <1>4, <2>2, <2>5 DEF Uncovered
    <3>2. Denotes(h, w)
      BY <2>1, <2>5 DEF Denotes
    <3> QED
      BY <1>1, <1>2, <2>3, <3>1, <3>2 DEF UncoveredIs, EnvSound
  <2> QED
    BY <2>4, <2>5
<1> QED
  BY <1>3, <1>4

\* An exact trace is exact for another heap that its environment reads alike.
LEMMA Carried ==
  ASSUME NEW ts, NEW h, NEW g, NEW env, Exact(ts, h, env),
         \A x \in DOMAIN env : env[x] \in Values /\ Agree(h, g, env[x])
  PROVE  Exact(ts, g, env)
<1>1. \A x \in DOMAIN env : SameReading(h, g, env[x], Root(x))
  BY Reading
<1>2. ts.state = Copy(g, env)
  BY <1>1 DEF Exact, Copy, SameReading
<1>3. ts.aliases = AllEntries(g, env)
  BY <1>1 DEF Exact, AllEntries, SameReading
<1> QED
  BY <1>2, <1>3 DEF Exact

\* A frame is as it was in a heap where the containers it holds are as they were.
LEMMA FrameCarried ==
  ASSUME NEW h, NEW g, NEW f, FrameOK(h, f),
         \A v \in HeldBy(f) : IsContainer(v) => v[2] \in DOMAIN g,
         \A v \in HeldBy(f) : v \in Values => Agree(h, g, v)
  PROVE  FrameOK(g, f)
<1>1. DOMAIN f = {"env", "arm", "trace"} /\ EnvSound(h, f.env) /\ ArmSound(h, f)
      /\ f.trace.loops \in 0 .. MaxNest
  BY DEF FrameOK
<1>2. EnvSound(g, f.env)
  <2>1. \A x \in DOMAIN f.env : f.env[x] \in HeldBy(f)
    BY DEF HeldBy, Range
  <2> QED
    BY <1>1, <2>1 DEF EnvSound, Denotes
<1>3. ArmSound(g, f)
  <2>1. CASE f.arm # << >>
    <3>1. PICK x \in DOMAIN f.env, w \in Values \cup {Unset} :
                f.arm = <<x, w>> /\ (IsContainer(w) => w[2] \in DOMAIN h)
      BY <1>1, <2>1 DEF ArmSound
    <3>2. w \in HeldBy(f)
      BY <2>1, <3>1 DEF HeldBy
    <3> QED
      BY <3>1, <3>2 DEF ArmSound
  <2> QED
    BY <2>1 DEF ArmSound
<1>4. CASE f.trace = NoTrace
  BY <1>1, <1>2, <1>3, <1>4 DEF FrameOK
<1>5. CASE Exact(f.trace, h, Uncovered(f))
  <2>1. UncoveredIs(h, f)
    BY <1>1, UncoveredSound
  <2>2. \A x \in DOMAIN Uncovered(f) : Uncovered(f)[x] \in Values /\ Agree(h, g, Uncovered(f)[x])
    BY <2>1 DEF UncoveredIs, EnvSound, Denotes
  <2>3. Exact(f.trace, g, Uncovered(f))
    BY <1>5, <2>2, Carried
  <2> QED
    BY <1>1, <1>2, <1>3, <2>3 DEF FrameOK
<1> QED
  BY <1>4, <1>5 DEF FrameOK

\* What a sound frame holds denotes something, or is unset.
LEMMA HeldDenotes ==
  ASSUME NEW h, NEW f, FrameOK(h, f), NEW v \in HeldBy(f)
  PROVE  v = Unset \/ Denotes(h, v)
<1>1. EnvSound(h, f.env) /\ ArmSound(h, f)
  BY DEF FrameOK
<1>2. CASE v \in Range(f.env)
  BY <1>1, <1>2 DEF EnvSound, Range
<1>3. CASE f.arm # << >> /\ v = f.arm[2]
  <2>1. PICK x \in DOMAIN f.env, w \in Values \cup {Unset} :
              f.arm = <<x, w>> /\ (IsContainer(w) => w[2] \in DOMAIN h)
    BY <1>1, <1>3 DEF ArmSound
  <2> QED
    BY <1>3, <2>1 DEF Denotes
<1> QED
  BY <1>2, <1>3 DEF HeldBy

HeldIn(fs) == {v[2] : v \in {w \in UNION {HeldBy(fs[i]) : i \in DOMAIN fs} : IsContainer(w)}}

LEMMA DenotesContainer ==
  ASSUME NEW h, NEW v, Denotes(h, v), IsContainer(v)
  PROVE  v[2] \in DOMAIN h /\ v[2] \in Rows \cup Tables /\ (v = Row(v[2]) \/ v = <<"table", v[2]>>)
<1>1. v \in Values /\ v[2] \in DOMAIN h
  BY DEF Denotes
<1>2. CASE \E n \in Scalars : v = Num(n)
  BY <1>2, NumJson
<1>3. CASE \E q \in Rows : v = Row(q)
  BY <1>1, <1>3, RowJson
<1>4. CASE \E u \in Tables : v = <<"table", u>>
  <2>1. PICK u \in Tables : v = <<"table", u>>
    BY <1>4
  <2>2. v[2] = u
    BY <2>1
  <2> QED
    BY <1>1, <2>1, <2>2
<1> QED
  BY <1>1, <1>2, <1>3, <1>4, ValueKinds

LEMMA HeldSound ==
  ASSUME NEW h, NEW fs, \A i \in DOMAIN fs : FrameOK(h, fs[i])
  PROVE  HeldIn(fs) \subseteq DOMAIN h \cap (Rows \cup Tables)
<1>1. ASSUME NEW c \in HeldIn(fs)
      PROVE  c \in DOMAIN h \cap (Rows \cup Tables)
  <2>1. PICK i \in DOMAIN fs : \E w \in HeldBy(fs[i]) : IsContainer(w) /\ w[2] = c
    BY DEF HeldIn
  <2>2. PICK w \in HeldBy(fs[i]) : IsContainer(w) /\ w[2] = c
    BY <2>1
  <2>3. Denotes(h, w)
    <3>1. w # Unset
      BY <2>2 DEF IsContainer, Unset
    <3> QED
      BY <2>1, <2>2, <3>1, HeldDenotes
  <2> QED
    BY <2>2, <2>3, DenotesContainer
<1> QED
  BY <1>1

LiveSound(h, fs) ==
  /\ Live(h, fs) \subseteq DOMAIN h
  /\ HeldIn(fs) \subseteq Live(h, fs)
  /\ \A t \in Tables \cap Live(h, fs) : t \in HeldIn(fs)
  /\ \A t \in Tables \cap Live(h, fs) : Range(h[t]) \subseteq Rows \cap Live(h, fs)

LEMMA LiveIsSound ==
  ASSUME NEW h, NEW fs, WellFormed(h, fs)
  PROVE  LiveSound(h, fs)
<1> DEFINE H == HeldIn(fs)
           L == Live(h, fs)
<1>1. H \subseteq DOMAIN h \cap (Rows \cup Tables)
  BY HeldSound DEF WellFormed
<1>2. L = H \cup UNION {Range(h[t]) : t \in H \cap Tables}
  BY DEF Live, HeldIn
<1> HIDE DEF H, L
<1>3. ASSUME NEW t \in H \cap Tables
      PROVE  Range(h[t]) \subseteq Rows \cap DOMAIN h
  <2>1. HeapSound(h) /\ t \in Tables /\ t \in DOMAIN h
    BY <1>1 DEF WellFormed
  <2>2. DOMAIN h[t] = 1 .. Len(h[t]) /\ \A i \in 1 .. Len(h[t]) : h[t][i] \in Rows \cap DOMAIN h
    BY <2>1, TablesAre
  <2> QED
    BY <2>2 DEF Range
<1>4. L \subseteq DOMAIN h /\ H \subseteq L
  BY <1>1, <1>2, <1>3
<1>5. \A t \in Tables \cap L : t \in H
  <2>1. \A c \in L : c \in H \/ c \in Rows
    BY <1>2, <1>3
  <2> QED
    BY <2>1, SizesAssumption
<1>6. \A t \in Tables \cap L : Range(h[t]) \subseteq Rows \cap L
  BY <1>2, <1>3, <1>5
<1> QED
  BY <1>4, <1>5, <1>6 DEF LiveSound, H, L

\* What is left when the containers that no frame reaches are freed.
Kept(h, fs) == [c \in Live(h, fs) |-> h[c]]

LEMMA KeptHeap ==
  ASSUME NEW h, NEW fs, WellFormed(h, fs)
  PROVE  HeapSound(Kept(h, fs)) /\ DOMAIN Kept(h, fs) = Live(Kept(h, fs), fs)
<1> DEFINE L == Live(h, fs)
           g == Kept(h, fs)
           H == HeldIn(fs)
<1>1. LiveSound(h, fs)
  BY LiveIsSound
<1>2. DOMAIN g = L /\ g = [c \in DOMAIN g |-> g[c]] /\ \A c \in L : g[c] = h[c]
  BY DEF Kept
<1>3. Live(h, fs) = H \cup UNION {Range(h[t]) : t \in H \cap Tables}
  BY DEF Live, HeldIn
<1>4. Live(g, fs) = H \cup UNION {Range(g[t]) : t \in H \cap Tables}
  BY DEF Live, HeldIn
<1> HIDE DEF g, H
<1>5. \A t \in H \cap Tables : g[t] = h[t]
  BY <1>1, <1>2 DEF LiveSound, H
<1>6. Live(g, fs) = L
  BY <1>3, <1>4, <1>5
<1>7. ASSUME NEW c \in L
      PROVE  Contents(g, c)
  <2>1. c \in DOMAIN h /\ Contents(h, c) /\ g[c] = h[c]
    BY <1>1, <1>2 DEF LiveSound, WellFormed, HeapSound
  <2>2. CASE c \in Rows
    BY <2>1, <2>2 DEF Contents
  <2>3. CASE c \notin Rows
    <3>1. c \in Tables /\ h[c] \in BoundedSeq(Rows \cap DOMAIN h, MaxLength)
      BY <2>1, <2>3 DEF Contents
    <3>2. PICK m \in 0 .. MaxLength : h[c] \in [1 .. m -> Rows \cap DOMAIN h]
      BY <3>1 DEF BoundedSeq, SeqOf
    <3>3. \A i \in 1 .. m : h[c][i] \in Rows \cap L
      <4>1. Range(h[c]) \subseteq Rows \cap L
        BY <1>1, <3>1 DEF LiveSound
      <4>2. \A i \in 1 .. m : h[c][i] \in Range(h[c])
        BY <3>2 DEF Range
      <4> QED
        BY <4>1, <4>2
    <3>4. g[c] \in [1 .. m -> Rows \cap DOMAIN g]
      BY <1>2, <2>1, <3>2, <3>3
    <3>5. g[c] \in BoundedSeq(Rows \cap DOMAIN g, MaxLength)
      BY <3>2, <3>4 DEF BoundedSeq, SeqOf
    <3> QED
      BY <2>3, <3>1, <3>5 DEF Contents
  <2> QED
    BY <2>2, <2>3
<1>8. HeapSound(g)
  BY <1>2, <1>7 DEF HeapSound
<1> QED
  BY <1>2, <1>6, <1>8 DEF g

LEMMA KeptSound ==
  ASSUME NEW h, NEW fs, WellFormed(h, fs)
  PROVE  WellFormed(Kept(h, fs), fs)
<1> DEFINE g == Kept(h, fs)
<1>1. LiveSound(h, fs)
  BY LiveIsSound
<1>2. DOMAIN g = Live(h, fs) /\ \A c \in Live(h, fs) : g[c] = h[c]
  BY DEF Kept
<1>3. HeapSound(g)
  BY KeptHeap
<1> HIDE DEF g
<1>4. ASSUME NEW i \in DOMAIN fs
      PROVE  FrameOK(g, fs[i])
  <2>1. FrameOK(h, fs[i])
    BY DEF WellFormed
  <2>2. ASSUME NEW v \in HeldBy(fs[i]), IsContainer(v)
        PROVE  v[2] \in HeldIn(fs)
    BY <2>2 DEF HeldIn
  <2>3. \A v \in HeldBy(fs[i]) : IsContainer(v) => v[2] \in DOMAIN g
    BY <1>1, <1>2, <2>2 DEF LiveSound
  <2>4. ASSUME NEW v \in HeldBy(fs[i]), v \in Values
        PROVE  Agree(h, g, v)
    <3>1. ASSUME NEW q \in Rows, v = Row(q)
          PROVE  g[q] = h[q]
      <4>1. q \in DOMAIN g
        BY <2>3, <3>1, RowJson
      <4> QED
        BY <1>2, <4>1
    <3>2. ASSUME NEW u \in Tables, v = <<"table", u>>
          PROVE  g[u] = h[u] /\ \A m \in 1 .. Len(h[u]) : g[h[u][m]] = h[h[u][m]]
      <4>1. v[2] = u /\ IsContainer(v)
        BY <3>2, TableJson
      <4>2. u \in Live(h, fs)
        BY <1>2, <2>3, <4>1
      <4>3. Range(h[u]) \subseteq Live(h, fs) /\ u \in DOMAIN h
        BY <1>1, <4>2 DEF LiveSound
      <4>4. DOMAIN h[u] = 1 .. Len(h[u])
        BY <4>3, TablesAre DEF WellFormed
      <4>5. \A m \in 1 .. Len(h[u]) : h[u][m] \in Live(h, fs)
        BY <4>3, <4>4 DEF Range
      <4> QED
        BY <1>2, <4>2, <4>5
    <3> QED
      BY <3>1, <3>2 DEF Agree
  <2> QED
    BY <2>1, <2>3, <2>4, FrameCarried
<1>5. WellFormed(g, fs)
  BY <1>3, <1>4 DEF WellFormed
<1> QED
  BY <1>5 DEF g

LEMMA GotoSound ==
  ASSUME NEW h, NEW fs, WellFormed(h, fs), NEW e, Goto(h, fs, e)
  PROVE  Inv'
<1>1. heap' = Kept(h, fs) /\ frames' = fs
  BY DEF Goto, Kept
<1>2. WellFormed(heap', frames')
  BY <1>1, KeptSound
<1>3. DOMAIN heap' = Live(heap', frames')
  BY <1>1, KeptHeap
<1> QED
  BY <1>2, <1>3 DEF Inv

-----------------------------------------------------------------------------
(* What the steps build.                                                     *)

\* A container is added at a free address.
LEMMA WithSound ==
  ASSUME NEW h, NEW fs, WellFormed(h, fs), NEW c, c \notin DOMAIN h, NEW k,
         Contents(With(h, c, k), c)
  PROVE  WellFormed(With(h, c, k), fs)
<1> DEFINE g == With(h, c, k)
<1>1. DOMAIN g = DOMAIN h \cup {c} /\ g = [d \in DOMAIN g |-> g[d]] /\ \A d \in DOMAIN h : g[d] = h[d]
  BY DEF With
<1>2. Contents(g, c)
  OBVIOUS
<1>3. HeapSound(h)
  BY DEF WellFormed
<1> HIDE DEF g
<1>4. ASSUME NEW d \in DOMAIN h
      PROVE  Contents(g, d)
  <2>1. Contents(h, d) /\ g[d] = h[d]
    BY <1>1, <1>3 DEF HeapSound
  <2>2. CASE d \in Rows
    BY <2>1, <2>2 DEF Contents
  <2>3. CASE d \notin Rows
    <3>1. d \in Tables /\ h[d] \in BoundedSeq(Rows \cap DOMAIN h, MaxLength)
      BY <2>1, <2>3 DEF Contents
    <3>2. PICK m \in 0 .. MaxLength : h[d] \in [1 .. m -> Rows \cap DOMAIN h]
      BY <3>1 DEF BoundedSeq, SeqOf
    <3>3. g[d] \in [1 .. m -> Rows \cap DOMAIN g]
      BY <1>1, <2>1, <3>2
    <3>4. g[d] \in BoundedSeq(Rows \cap DOMAIN g, MaxLength)
      BY <3>2, <3>3 DEF BoundedSeq, SeqOf
    <3> QED
      BY <2>3, <3>1, <3>4 DEF Contents
  <2> QED
    BY <2>2, <2>3
<1>5. HeapSound(g)
  BY <1>1, <1>2, <1>4 DEF HeapSound
<1>6. ASSUME NEW i \in DOMAIN fs
      PROVE  FrameOK(g, fs[i])
  <2>1. FrameOK(h, fs[i])
    BY DEF WellFormed
  <2>2. ASSUME NEW v \in HeldBy(fs[i]), IsContainer(v)
        PROVE  Denotes(h, v)
    <3>1. v # Unset
      BY <2>2 DEF IsContainer, Unset
    <3> QED
      BY <2>1, <3>1, HeldDenotes
  <2>3. \A v \in HeldBy(fs[i]) : IsContainer(v) => v[2] \in DOMAIN g
    BY <1>1, <2>2 DEF Denotes
  <2>4. ASSUME NEW v \in HeldBy(fs[i]), v \in Values
        PROVE  Agree(h, g, v)
    <3>1. ASSUME NEW q \in Rows, v = Row(q)
          PROVE  g[q] = h[q]
      <4>1. q \in DOMAIN h
        BY <2>2, <3>1, RowJson DEF Denotes
      <4> QED
        BY <1>1, <4>1
    <3>2. ASSUME NEW u \in Tables, v = <<"table", u>>
          PROVE  g[u] = h[u] /\ \A m \in 1 .. Len(h[u]) : g[h[u][m]] = h[h[u][m]]
      <4>1. v[2] = u /\ IsContainer(v)
        BY <3>2, TableJson
      <4>2. u \in DOMAIN h
        BY <2>2, <4>1 DEF Denotes
      <4>3. \A m \in 1 .. Len(h[u]) : h[u][m] \in DOMAIN h
        BY <1>3, <4>2, TablesAre
      <4> QED
        BY <1>1, <4>2, <4>3
    <3> QED
      BY <3>1, <3>2 DEF Agree
  <2> QED
    BY <2>1, <2>3, <2>4, FrameCarried
<1>7. WellFormed(g, fs)
  BY <1>5, <1>6 DEF WellFormed
<1> QED
  BY <1>7 DEF g

LEMMA SetTopSound ==
  ASSUME NEW h, WellFormed(h, frames), frames # << >>, NEW f, FrameOK(h, f)
  PROVE  WellFormed(h, SetTop(f))
<1>1. IsSeq(frames) /\ Len(frames) <= MaxFrames /\ HeapSound(h)
      /\ \A i \in DOMAIN frames : FrameOK(h, frames[i])
  BY DEF WellFormed
<1>2. PICK n \in Nat : n = Len(frames)
  BY <1>1 DEF IsSeq
<1>3. DOMAIN SetTop(f) = 1 .. n /\ IsFcn(SetTop(f))
  BY <1>1, <1>2 DEF SetTop, IsSeq, IsFcn
<1>4. Len(SetTop(f)) = n /\ IsSeq(SetTop(f))
  BY <1>3, LengthIs
<1>5. \A i \in DOMAIN SetTop(f) : FrameOK(h, SetTop(f)[i])
  BY <1>1, <1>2, <1>3 DEF SetTop, IsSeq
<1> QED
  BY <1>1, <1>2, <1>4, <1>5 DEF WellFormed

LEMMA TopSound ==
  ASSUME NEW h, WellFormed(h, frames), frames # << >>
  PROVE  Len(frames) \in DOMAIN frames /\ Len(frames) \in Nat \ {0} /\ FrameOK(h, Top)
<1>1. IsSeq(frames) /\ \A i \in DOMAIN frames : FrameOK(h, frames[i])
  BY DEF WellFormed
<1>2. PICK n \in Nat : n = Len(frames)
  BY <1>1 DEF IsSeq
<1>3. n # 0
  <2>1. CASE n = 0
    <3>1. DOMAIN frames = {}
      BY <1>1, <1>2, <2>1 DEF IsSeq
    <3>2. frames = << >>
      BY <1>1, <3>1 DEF IsSeq, IsFcn
    <3> QED
      BY <3>2
  <2> QED
    BY <2>1
<1>4. n \in DOMAIN frames
  BY <1>1, <1>2, <1>3 DEF IsSeq
<1> QED
  BY <1>1, <1>2, <1>3, <1>4 DEF Top

\* Only the trace that is on is written to.
LEMMA TracedIsExact ==
  ASSUME NEW h, NEW f, FrameOK(h, f)
  PROVE  \/ f.trace = NoTrace /\ f.trace.on = FALSE /\ f.trace.loops = 0
         \/ f.trace.on = TRUE /\ Exact(f.trace, h, Uncovered(f)) /\ DOMAIN f.trace = TraceFields
BY DEF FrameOK, Exact, NoTrace

LEMMA SetRootSound ==
  ASSUME NEW h, NEW env, EnvSound(h, env), NEW x \in Names, NEW v, Denotes(h, v)
  PROVE  EnvSound(h, SetRoot(env, x, v)) /\ x \in DOMAIN SetRoot(env, x, v)
BY DEF EnvSound, SetRoot

LEMMA AssignedSound ==
  ASSUME NEW h, NEW f, FrameOK(h, f), f.arm = << >>, NEW x \in Names, NEW v, Denotes(h, v)
  PROVE  FrameOK(h, Assigned(f, h, x, v))
<1> DEFINE g == Assigned(f, h, x, v)
           o == Old(f, x)
<1>1. DOMAIN f = {"env", "arm", "trace"} /\ EnvSound(h, f.env) /\ f.trace.loops \in 0 .. MaxNest
  BY DEF FrameOK
<1>2. /\ DOMAIN g = {"env", "arm", "trace"} /\ g.env = SetRoot(f.env, x, v) /\ g.arm = << >>
      /\ g.trace = TraceAssign(f.trace, h, x, o, v)
  BY <1>1 DEF Assigned
<1> HIDE DEF g
<1>3. EnvSound(h, g.env)
  BY <1>1, <1>2, SetRootSound
<1>4. ArmSound(h, g)
  BY <1>2 DEF ArmSound
<1>5. Uncovered(g) = SetRoot(f.env, x, v) /\ Uncovered(f) = f.env
  BY <1>2 DEF Uncovered
<1>6. ASSUME f.trace = NoTrace /\ f.trace.on = FALSE
      PROVE  FrameOK(h, g)
  <2>1. g.trace = NoTrace
    BY <1>2, <1>6 DEF TraceAssign
  <2>2. g.trace.loops \in 0 .. MaxNest
    BY <1>1, <1>6, <2>1
  <2> QED
    BY <1>2, <1>3, <1>4, <2>1, <2>2 DEF FrameOK
<1>7. ASSUME f.trace.on = TRUE /\ Exact(f.trace, h, Uncovered(f)) /\ DOMAIN f.trace = TraceFields
      PROVE  FrameOK(h, g)
  <2>1. g.trace = Rewrite(f.trace, h, Root(x), o, v)
    BY <1>2, <1>7 DEF TraceAssign
  <2>2. o = OldIn(f.env, x)
    BY DEF Old, OldIn
  <2>3. v \in Values
    BY DEF Denotes
  <2>4. Exact(g.trace, h, SetRoot(f.env, x, v))
    BY <1>1, <1>5, <1>7, <2>1, <2>2, <2>3, AssignExact
  <2>5. g.trace.loops = f.trace.loops
    BY <1>7, <2>1, RewriteIs
  <2>6. g.trace.loops \in 0 .. MaxNest
    BY <1>1, <2>5
  <2>7. Exact(g.trace, h, Uncovered(g))
    BY <1>5, <2>4
  <2> QED
    BY <1>2, <1>3, <1>4, <2>6, <2>7 DEF FrameOK
<1>8. FrameOK(h, g)
  <2>1. \/ f.trace = NoTrace /\ f.trace.on = FALSE
        \/ f.trace.on = TRUE /\ Exact(f.trace, h, Uncovered(f)) /\ DOMAIN f.trace = TraceFields
    BY TracedIsExact
  <2> QED
    BY <1>6, <1>7, <2>1
<1> QED
  BY <1>8 DEF g

LEMMA OperandsDenote ==
  ASSUME HeapSound(heap), NEW f, FrameOK(heap, f), NEW v \in Operands(f)
  PROVE  Denotes(heap, v)
<1>1. \A w \in Bound(f) : Denotes(heap, w)
  BY DEF FrameOK, EnvSound, Bound, Range
<1>2. ASSUME NEW n \in Scalars, v = Num(n)
      PROVE  Denotes(heap, v)
  BY <1>2, NumJson DEF Denotes, Values
<1>3. ASSUME NEW w \in Bound(f), v \in Elements(heap, w)
      PROVE  Denotes(heap, v)
  <2>1. w[1] = "table" /\ \E r \in Range(heap[w[2]]) : v = Row(r)
    BY <1>3 DEF Elements
  <2>2. IsContainer(w) /\ w # Row(w[2])
    BY <2>1 DEF IsContainer, Row
  <2>3. w[2] \in DOMAIN heap /\ w = <<"table", w[2]>>
    BY <1>1, <2>2, DenotesContainer
  <2>4. w[2] \in Tables
    <3>1. w \in Values
      BY <1>1 DEF Denotes
    <3>2. \A n : w # Num(n)
      BY <2>1 DEF Num
    <3>3. \A r : w # Row(r)
      BY <2>1 DEF Row
    <3>4. PICK t \in Tables : w = <<"table", t>>
      BY <3>1, <3>2, <3>3, ValueKinds
    <3>5. w[2] = t
      BY <3>4
    <3> QED
      BY <3>5
  <2>5. DOMAIN heap[w[2]] = 1 .. Len(heap[w[2]])
        /\ \A i \in 1 .. Len(heap[w[2]]) : heap[w[2]][i] \in Rows \cap DOMAIN heap
    BY <2>3, <2>4, TablesAre
  <2>6. PICK r \in Rows \cap DOMAIN heap : v = Row(r)
    BY <2>1, <2>5 DEF Range
  <2> QED
    BY <2>6, RowJson DEF Denotes, Values
<1>4. v \in {Num(n) : n \in Scalars} \/ v \in Bound(f) \/ \E w \in Bound(f) : v \in Elements(heap, w)
  BY DEF Operands
<1> QED
  BY <1>1, <1>2, <1>3, <1>4

LEMMA RowsAtHandAreLive ==
  ASSUME HeapSound(heap), NEW f, FrameOK(heap, f), NEW r \in RowsAtHand(f)
  PROVE  r \in Rows /\ r \in DOMAIN heap
<1>1. r \in Rows /\ Row(r) \in Operands(f)
  BY DEF RowsAtHand
<1>2. Denotes(heap, Row(r))
  BY <1>1, OperandsDenote
<1> QED
  BY <1>1, <1>2, RowJson DEF Denotes

LEMMA MutatedOff ==
  ASSUME NEW h, NEW c, NEW suffix, NEW o, NEW v
  PROVE  Mutation(NoTrace, h, c, suffix, o, v) = NoTrace
<1> DEFINE paths == {Extended(p, suffix) : p \in PathsOf(NoTrace, c)}
<1>1. paths = {}
  BY DEF PathsOf, NoTrace
<1>2. IsFiniteSet(paths)
  BY <1>1, FS_EmptySet
<1>3. PICK s, after : MutationStages(NoTrace, h, c, suffix, o, v, s, after)
  BY <1>2, Mutations
<1>4. Lists(s, {}) /\ after[0] = NoTrace /\ Mutation(NoTrace, h, c, suffix, o, v) = after[Len(s)]
  BY <1>1, <1>3 DEF MutationStages
<1>5. Len(s) = 0
  BY <1>4 DEF Lists
<1> QED
  BY <1>4, <1>5

LEMMA SameAddresses ==
  ASSUME NEW h, NEW g, DOMAIN g = DOMAIN h, NEW f, FrameOK(h, f), NEW ts,
         ts.loops = f.trace.loops,
         ts = NoTrace \/ Exact(ts, g, Uncovered(f))
  PROVE  FrameOK(g, [f EXCEPT !.trace = ts])
<1> DEFINE k == [f EXCEPT !.trace = ts]
<1>1. DOMAIN f = {"env", "arm", "trace"} /\ EnvSound(h, f.env) /\ ArmSound(h, f)
      /\ f.trace.loops \in 0 .. MaxNest
  BY DEF FrameOK
<1>2. DOMAIN k = {"env", "arm", "trace"} /\ k.env = f.env /\ k.arm = f.arm /\ k.trace = ts
  BY <1>1
<1> HIDE DEF k
<1>3. Uncovered(k) = Uncovered(f)
  BY <1>2 DEF Uncovered
<1>4. EnvSound(g, k.env)
  BY <1>1, <1>2 DEF EnvSound, Denotes
<1>5. ArmSound(g, k)
  BY <1>1, <1>2 DEF ArmSound
<1>6. FrameOK(g, k)
  BY <1>1, <1>2, <1>3, <1>4, <1>5 DEF FrameOK
<1> QED
  BY <1>6 DEF k

LEMMA InvParts ==
  ASSUME Inv
  PROVE  /\ WellFormed(heap, frames) /\ HeapSound(heap) /\ IsSeq(frames) /\ Len(frames) <= MaxFrames
         /\ \A i \in DOMAIN frames : FrameOK(heap, frames[i])
         /\ frames # << >> => FrameOK(heap, Top)
BY TopSound DEF Inv, WellFormed

LEMMA AssignStep ==
  ASSUME Inv, NEW x \in Names, Assign(x)
  PROVE  Inv'
<1>1. frames # << >> /\ Top.arm = << >>
  BY DEF Assign, Between, Running
<1>2. WellFormed(heap, frames) /\ HeapSound(heap) /\ FrameOK(heap, Top)
  BY <1>1, InvParts
<1>3. PICK v \in Operands(Top) : Goto(heap, SetTop(Assigned(Top, heap, x, v)), NoEvent)
  BY DEF Assign
<1>4. FrameOK(heap, Assigned(Top, heap, x, v))
  BY <1>1, <1>2, OperandsDenote, AssignedSound
<1>5. WellFormed(heap, SetTop(Assigned(Top, heap, x, v)))
  BY <1>1, <1>2, <1>4, SetTopSound
<1> QED
  BY <1>3, <1>5, GotoSound

\* A variable of the running frame is given a container that has just been added.
LEMMA AssignNewStep ==
  ASSUME Inv, frames # << >>, Top.arm = << >>, NEW x \in Names,
         NEW c, c \notin DOMAIN heap, NEW k, Contents(With(heap, c, k), c),
         NEW v \in Values, v[2] = c,
         Goto(With(heap, c, k), SetTop(Assigned(Top, With(heap, c, k), x, v)), NoEvent)
  PROVE  Inv'
<1> DEFINE h == With(heap, c, k)
<1>1. WellFormed(heap, frames)
  BY InvParts
<1>2. WellFormed(h, frames)
  BY <1>1, WithSound
<1>3. c \in DOMAIN h
  BY DEF With
<1> HIDE DEF h
<1>4. Denotes(h, v)
  BY <1>3 DEF Denotes
<1>5. FrameOK(h, Top)
  BY <1>2, TopSound
<1>6. FrameOK(h, Assigned(Top, h, x, v))
  BY <1>4, <1>5, AssignedSound
<1>7. WellFormed(h, SetTop(Assigned(Top, h, x, v)))
  BY <1>2, <1>6, SetTopSound
<1>8. Goto(h, SetTop(Assigned(Top, h, x, v)), NoEvent)
  BY DEF h
<1> QED
  BY <1>7, <1>8, GotoSound

LEMMA AssignNewRowStep ==
  ASSUME Inv, NEW x \in Names, AssignNewRow(x)
  PROVE  Inv'
<1>1. frames # << >> /\ Top.arm = << >>
  BY DEF AssignNewRow, Between, Running
<1>2. PICK r \in Free(Rows), n \in Ints :
        Goto(With(heap, r, n), SetTop(Assigned(Top, With(heap, r, n), x, Row(r))), NoEvent)
  BY DEF AssignNewRow
<1>3. r \in Rows /\ r \notin DOMAIN heap
  BY DEF Free
<1>4. Contents(With(heap, r, n), r)
  BY <1>3 DEF Contents, With
<1>5. Row(r) \in Values /\ Row(r)[2] = r
  BY <1>3, RowJson DEF Values
<1> QED
  BY <1>1, <1>2, <1>3, <1>4, <1>5, AssignNewStep

\* An array that is made of rows at hand, and an array at hand.
LEMMA NewTableContents ==
  ASSUME Inv, frames # << >>, NEW t \in Tables, NEW k \in 1 .. MaxLength,
         NEW items \in [1 .. k -> RowsAtHand(Top)]
  PROVE  Contents(With(heap, t, items), t)
<1> DEFINE h == With(heap, t, items)
<1>1. h[t] = items /\ DOMAIN heap \subseteq DOMAIN h
  BY DEF With
<1>2. RowsAtHand(Top) \subseteq Rows \cap DOMAIN heap
  BY InvParts, RowsAtHandAreLive
<1> HIDE DEF h
<1>3. h[t] \in [1 .. k -> Rows \cap DOMAIN h]
  BY <1>1, <1>2
<1>4. k \in 0 .. MaxLength
  BY SizesAssumption
<1>5. h[t] \in BoundedSeq(Rows \cap DOMAIN h, MaxLength)
  BY <1>3, <1>4 DEF BoundedSeq, SeqOf
<1>6. Contents(h, t)
  BY <1>5, SizesAssumption DEF Contents
<1> QED
  BY <1>6 DEF h

LEMMA TableAtHand ==
  ASSUME HeapSound(heap), FrameOK(heap, Top), NEW v \in Bound(Top), v[1] = "table"
  PROVE  v[2] \in Tables /\ v[2] \in DOMAIN heap
<1>1. Denotes(heap, v)
  BY DEF FrameOK, EnvSound, Bound, Range
<1>2. PICK u \in Tables : v = <<"table", u>>
  <2>1. v \in Values
    BY <1>1 DEF Denotes
  <2>2. (\A n : v # Num(n)) /\ (\A q : v # Row(q))
    BY DEF Num, Row
  <2> QED
    BY <2>1, <2>2, ValueKinds
<1>3. IsContainer(v) /\ v[2] = u
  BY <1>2 DEF IsContainer
<1> QED
  BY <1>1, <1>3 DEF Denotes

LEMMA AssignNewTableStep ==
  ASSUME Inv, NEW x \in Names, AssignNewTable(x)
  PROVE  Inv'
<1>1. frames # << >> /\ Top.arm = << >>
  BY DEF AssignNewTable, Between, Running
<1>2. PICK t \in Free(Tables), k \in 1 .. MaxLength :
        \E items \in [1 .. k -> RowsAtHand(Top)] :
          Goto(With(heap, t, items), SetTop(Assigned(Top, With(heap, t, items), x, <<"table", t>>)), NoEvent)
  BY DEF AssignNewTable
<1>3. PICK items \in [1 .. k -> RowsAtHand(Top)] :
          Goto(With(heap, t, items), SetTop(Assigned(Top, With(heap, t, items), x, <<"table", t>>)), NoEvent)
  BY <1>2
<1>4. t \in Tables /\ t \notin DOMAIN heap
  BY DEF Free
<1>5. Contents(With(heap, t, items), t)
  BY <1>1, <1>4, NewTableContents
<1>6. <<"table", t>> \in Values /\ <<"table", t>>[2] = t
  BY <1>4 DEF Values
<1> QED
  BY <1>1, <1>3, <1>4, <1>5, <1>6, AssignNewStep

\* Every frame is told of a mutation and stays as good as it was.
LEMMA AllFrames ==
  ASSUME Inv, NEW h, HeapSound(h), NEW fs, IsFcn(fs), DOMAIN fs = DOMAIN frames,
         \A i \in DOMAIN frames : FrameOK(h, fs[i])
  PROVE  WellFormed(h, fs)
<1>1. IsSeq(frames) /\ Len(frames) <= MaxFrames
  BY InvParts
<1>2. PICK n \in Nat : n = Len(frames) /\ DOMAIN frames = 1 .. n
  BY <1>1 DEF IsSeq
<1>3. Len(fs) = n /\ IsSeq(fs)
  BY <1>2, LengthIs
<1> QED
  BY <1>1, <1>2, <1>3 DEF WellFormed

LEMMA IndexAssignStep ==
  ASSUME Inv, IndexAssign
  PROVE  Inv'
<1>1. frames # << >>
  BY DEF IndexAssign, Between, Running
<1>2. HeapSound(heap) /\ FrameOK(heap, Top) /\ \A k \in DOMAIN frames : FrameOK(heap, frames[k])
  BY <1>1, InvParts
<1>3. PICK v \in Bound(Top), r \in RowsAtHand(Top) :
        /\ v[1] = "table"
        /\ \E i \in DOMAIN heap[v[2]] :
              Goto([heap EXCEPT ![v[2]][i] = r],
                   Mutated(v[2], ToItem(i), Row(heap[v[2]][i]), Row(r)), NoEvent)
  BY DEF IndexAssign
<1>4. PICK i \in DOMAIN heap[v[2]] :
              Goto([heap EXCEPT ![v[2]][i] = r],
                   Mutated(v[2], ToItem(i), Row(heap[v[2]][i]), Row(r)), NoEvent)
  BY <1>3
<1> DEFINE t == v[2]
           h == [heap EXCEPT ![t][i] = r]
           o == Row(heap[t][i])
           fs == Mutated(t, ToItem(i), o, Row(r))
<1>5. t \in Tables /\ t \in DOMAIN heap
  BY <1>2, <1>3, TableAtHand
<1>6. Replaces(heap, h, t, i, r)
  <2>1. i \in 1 .. Len(heap[t])
    BY <1>2, <1>5, TablesAre
  <2>2. r \in Rows /\ r \in DOMAIN heap
    BY <1>2, RowsAtHandAreLive
  <2> QED
    BY <1>5, <2>1, <2>2 DEF Replaces
<1>7. Goto(h, fs, NoEvent)
  BY <1>4
<1>8. /\ IsFcn(fs) /\ DOMAIN fs = DOMAIN frames
      /\ \A k \in DOMAIN frames :
           fs[k] = [frames[k] EXCEPT !.trace = Mutation(@, heap, t, ToItem(i), o, Row(r))]
  BY DEF Mutated, IsFcn
<1> HIDE DEF h, fs, t
<1>9. SameShape(heap, h, t, i, r)
  BY <1>2, <1>6, ReplacesItem
<1>10. HeapSound(h)
  <2>1. h = [c \in DOMAIN h |-> h[c]]
    BY <1>2 DEF h, HeapSound
  <2>2. DOMAIN h = DOMAIN heap /\ h[t] \in [1 .. Len(heap[t]) -> Rows \cap DOMAIN heap]
        /\ Len(heap[t]) \in 0 .. MaxLength
    BY <1>9 DEF SameShape
  <2>3. Contents(h, t)
    <3>1. h[t] \in BoundedSeq(Rows \cap DOMAIN h, MaxLength)
      BY <2>2 DEF BoundedSeq, SeqOf
    <3> QED
      BY <1>5, <3>1, SizesAssumption DEF Contents
  <2>4. ASSUME NEW c \in DOMAIN heap, c # t
        PROVE  Contents(h, c)
    <3>1. h[c] = heap[c] /\ Contents(heap, c)
      BY <1>2, <1>6, <2>4, ReplacesElsewhere DEF HeapSound
    <3> QED
      BY <2>2, <3>1 DEF Contents
  <2> QED
    BY <2>1, <2>2, <2>3, <2>4 DEF HeapSound
<1>11. ASSUME NEW k \in DOMAIN frames
       PROVE  FrameOK(h, fs[k])
  <2> DEFINE f == frames[k]
             ts == Mutation(f.trace, heap, t, ToItem(i), o, Row(r))
  <2>1. FrameOK(heap, f) /\ DOMAIN f = {"env", "arm", "trace"}
    BY <1>2 DEF FrameOK
  <2>2. fs[k] = [f EXCEPT !.trace = ts]
    BY <1>8
  <2> HIDE DEF f
  <2>3. DOMAIN h = DOMAIN heap
    BY <1>9 DEF SameShape
  <2>4. ts.loops = f.trace.loops /\ (ts = NoTrace \/ Exact(ts, h, Uncovered(f)))
    <3>1. CASE f.trace = NoTrace
      BY <3>1, MutatedOff
    <3>2. CASE Exact(f.trace, heap, Uncovered(f))
      <4>1. UncoveredIs(heap, f)
        BY <2>1, UncoveredSound DEF FrameOK
      <4>2. EnvSound(heap, Uncovered(f))
        BY <4>1 DEF UncoveredIs
      <4> QED
        BY <1>2, <1>6, <3>2, <4>2, IndexExact
    <3> QED
      BY <2>1, <3>1, <3>2 DEF FrameOK
  <2> HIDE DEF ts
  <2> QED
    BY <2>1, <2>2, <2>3, <2>4, SameAddresses
<1>12. WellFormed(h, fs)
  BY <1>8, <1>10, <1>11, AllFrames
<1> QED
  BY <1>7, <1>12, GotoSound

LEMMA FieldAssignStep ==
  ASSUME Inv, FieldAssign
  PROVE  Inv'
<1>1. frames # << >>
  BY DEF FieldAssign, Between, Running
<1>2. HeapSound(heap) /\ FrameOK(heap, Top) /\ \A k \in DOMAIN frames : FrameOK(heap, frames[k])
  BY <1>1, InvParts
<1>3. PICK r \in RowsAtHand(Top), n \in Ints :
        Goto([heap EXCEPT ![r] = n], Mutated(r, ToField, Num(heap[r]), Num(n)), NoEvent)
  BY DEF FieldAssign
<1> DEFINE h == [heap EXCEPT ![r] = n]
           fs == Mutated(r, ToField, Num(heap[r]), Num(n))
<1>4. r \in Rows /\ r \in DOMAIN heap
  BY <1>2, RowsAtHandAreLive
<1>5. Sets(heap, h, r, n) /\ DOMAIN h = DOMAIN heap
  BY <1>4 DEF Sets
<1>6. HeapSound(h)
  <2>1. h = [c \in DOMAIN h |-> h[c]] /\ h[r] = n /\ \A c \in DOMAIN heap : c # r => h[c] = heap[c]
    BY <1>2, <1>4 DEF HeapSound
  <2> HIDE DEF h
  <2>2. ASSUME NEW c \in DOMAIN h
        PROVE  Contents(h, c)
    <3>1. Contents(heap, c)
      BY <1>2, <1>5 DEF HeapSound
    <3> QED
      BY <1>4, <1>5, <2>1, <3>1 DEF Contents
  <2> QED
    BY <2>1, <2>2 DEF HeapSound
<1>7. /\ IsFcn(fs) /\ DOMAIN fs = DOMAIN frames
      /\ \A k \in DOMAIN frames :
           fs[k] = [frames[k] EXCEPT !.trace = Mutation(@, heap, r, ToField, Num(heap[r]), Num(n))]
  BY DEF Mutated, IsFcn
<1>8. Goto(h, fs, NoEvent)
  BY <1>3
<1> HIDE DEF h, fs
<1>9. ASSUME NEW k \in DOMAIN frames
      PROVE  FrameOK(h, fs[k])
  <2> DEFINE f == frames[k]
             ts == Mutation(f.trace, heap, r, ToField, Num(heap[r]), Num(n))
  <2>1. FrameOK(heap, f) /\ DOMAIN f = {"env", "arm", "trace"}
    BY <1>2 DEF FrameOK
  <2>2. fs[k] = [f EXCEPT !.trace = ts]
    BY <1>7
  <2> HIDE DEF f
  <2>3. ts.loops = f.trace.loops /\ (ts = NoTrace \/ Exact(ts, h, Uncovered(f)))
    <3>1. CASE f.trace = NoTrace
      BY <3>1, MutatedOff
    <3>2. CASE Exact(f.trace, heap, Uncovered(f))
      <4>1. UncoveredIs(heap, f)
        BY <2>1, UncoveredSound DEF FrameOK
      <4>2. EnvSound(heap, Uncovered(f))
        BY <4>1 DEF UncoveredIs
      <4> QED
        BY <1>2, <1>5, <3>2, <4>2, FieldExact
    <3> QED
      BY <2>1, <3>1, <3>2 DEF FrameOK
  <2> HIDE DEF ts
  <2> QED
    BY <1>5, <2>1, <2>2, <2>3, SameAddresses
<1>10. WellFormed(h, fs)
  BY <1>6, <1>7, <1>9, AllFrames
<1> QED
  BY <1>8, <1>10, GotoSound

\* A trace that keeps its state and its index is as exact as it was.
LEMMA SameTrace ==
  ASSUME NEW h, NEW f, FrameOK(h, f), f.trace.on = TRUE, NEW ts,
         DOMAIN ts = TraceFields, ts.on = f.trace.on, ts.state = f.trace.state,
         ts.aliases = f.trace.aliases, ts.loops \in 0 .. MaxNest
  PROVE  FrameOK(h, [f EXCEPT !.trace = ts])
<1> DEFINE g == [f EXCEPT !.trace = ts]
<1>1. DOMAIN f = {"env", "arm", "trace"} /\ EnvSound(h, f.env) /\ ArmSound(h, f)
  BY DEF FrameOK
<1>2. DOMAIN g = {"env", "arm", "trace"} /\ g.env = f.env /\ g.arm = f.arm /\ g.trace = ts
  BY <1>1
<1> HIDE DEF g
<1>3. Uncovered(g) = Uncovered(f)
  BY <1>2 DEF Uncovered
<1>4. Exact(f.trace, h, Uncovered(f))
  BY TracedIsExact
<1>5. Exact(ts, h, Uncovered(f))
  BY <1>4 DEF Exact
<1>6. ArmSound(h, g)
  BY <1>1, <1>2 DEF ArmSound
<1>7. FrameOK(h, g)
  BY <1>1, <1>2, <1>3, <1>5, <1>6 DEF FrameOK
<1> QED
  BY <1>7 DEF g

LEMMA LoopStartStep ==
  ASSUME Inv, TraceLoopStart
  PROVE  Inv'
<1>1. frames # << >> /\ Top.trace.on /\ Top.trace.loops < MaxNest
      /\ Goto(heap, SetTop([Top EXCEPT !.trace = Begin(@)]), NoEvent)
  BY DEF TraceLoopStart, Between, Running
<1>2. WellFormed(heap, frames) /\ FrameOK(heap, Top)
  BY <1>1, InvParts
<1> DEFINE ts == Begin(Top.trace)
<1>3. Top.trace.on = TRUE /\ DOMAIN Top.trace = TraceFields
  BY <1>1, <1>2, TracedIsExact
<1>4. Top.trace.loops \in 0 .. MaxNest
  BY <1>2 DEF FrameOK
<1>5. /\ DOMAIN ts = TraceFields /\ ts.on = Top.trace.on /\ ts.state = Top.trace.state
      /\ ts.aliases = Top.trace.aliases /\ ts.loops = Top.trace.loops + 1
  BY <1>3 DEF Begin, TraceFields
<1>6. Top.trace.loops + 1 \in 0 .. MaxNest
  BY <1>1, <1>4, SizesAssumption
<1>7. DOMAIN Top = {"env", "arm", "trace"}
  BY <1>2 DEF FrameOK
<1>8. [Top EXCEPT !.trace = Begin(@)] = [Top EXCEPT !.trace = ts]
  BY <1>7
<1> HIDE DEF ts
<1>9. FrameOK(heap, [Top EXCEPT !.trace = ts])
  BY <1>2, <1>3, <1>5, <1>6, SameTrace
<1>10. WellFormed(heap, SetTop([Top EXCEPT !.trace = ts]))
  BY <1>1, <1>2, <1>9, SetTopSound
<1> QED
  BY <1>1, <1>8, <1>10, GotoSound

LEMMA LoopEndStep ==
  ASSUME Inv, TraceLoopEnd
  PROVE  Inv'
<1>1. frames # << >> /\ Top.trace.loops > 0
      /\ \E e : Goto(heap, SetTop([Top EXCEPT !.trace = End(@)]), e)
  BY DEF TraceLoopEnd, Between, Running
<1>2. WellFormed(heap, frames) /\ FrameOK(heap, Top)
  BY <1>1, InvParts
<1> DEFINE ts == End(Top.trace)
<1>3. Top.trace.on = TRUE /\ DOMAIN Top.trace = TraceFields
  <2>1. Top.trace.loops # 0
    BY <1>1
  <2> QED
    BY <1>2, <2>1, TracedIsExact
<1>4. Top.trace.loops \in 0 .. MaxNest
  BY <1>2 DEF FrameOK
<1>5. /\ DOMAIN ts = TraceFields /\ ts.on = Top.trace.on /\ ts.state = Top.trace.state
      /\ ts.aliases = Top.trace.aliases /\ ts.loops = Top.trace.loops - 1
  BY <1>3 DEF End, Flush, TraceFields
<1>6. Top.trace.loops - 1 \in 0 .. MaxNest
  BY <1>1, <1>4, SizesAssumption
<1>7. DOMAIN Top = {"env", "arm", "trace"}
  BY <1>2 DEF FrameOK
<1>8. [Top EXCEPT !.trace = End(@)] = [Top EXCEPT !.trace = ts]
  BY <1>7
<1> HIDE DEF ts
<1>9. FrameOK(heap, [Top EXCEPT !.trace = ts])
  BY <1>2, <1>3, <1>5, <1>6, SameTrace
<1>10. WellFormed(heap, SetTop([Top EXCEPT !.trace = ts]))
  BY <1>1, <1>2, <1>9, SetTopSound
<1> QED
  BY <1>1, <1>8, <1>10, GotoSound

\* A frame that starts, with a trace or without.
LEMMA FrameStarts ==
  ASSUME NEW h, NEW env, EnvSound(h, env), NEW ts,
         ts = NoTrace \/ ts = NewTrace(h, env)
  PROVE  FrameOK(h, Frame(env, ts))
<1> DEFINE f == Frame(env, ts)
<1>1. DOMAIN f = {"env", "arm", "trace"} /\ f.env = env /\ f.arm = << >> /\ f.trace = ts
  BY DEF Frame
<1> HIDE DEF f
<1>2. Uncovered(f) = env
  BY <1>1 DEF Uncovered
<1>3. NoTrace.loops = 0 /\ 0 \in 0 .. MaxNest
  BY SizesAssumption DEF NoTrace
<1>4. Exact(NewTrace(h, env), h, env) /\ NewTrace(h, env).loops = 0
  BY NewTraceExact
<1>5. FrameOK(h, f)
  BY <1>1, <1>2, <1>3, <1>4 DEF FrameOK, ArmSound
<1> QED
  BY <1>5 DEF f

LEMMA AppendIs ==
  ASSUME NEW s, IsSeq(s), NEW e
  PROVE  /\ IsSeq(Append(s, e)) /\ Len(Append(s, e)) = Len(s) + 1
         /\ \A i \in DOMAIN Append(s, e) : Append(s, e)[i] = e \/ (i \in DOMAIN s /\ Append(s, e)[i] = s[i])
<1>1. PICK n \in Nat : n = Len(s) /\ DOMAIN s = 1 .. n
  BY DEF IsSeq
<1> DEFINE S == {s[i] : i \in 1 .. n} \cup {e}
           t == Append(s, e)
<1>2. s \in [1 .. n -> S]
  BY <1>1 DEF IsSeq, IsFcn
<1>3. s \in Seq(S) /\ e \in S
  BY <1>1, <1>2
<1>4. t \in Seq(S) /\ Len(t) = n + 1 /\ DOMAIN t = 1 .. n + 1 /\ t[n + 1] = e
      /\ \A i \in 1 .. n : t[i] = s[i]
  BY <1>1, <1>3
<1> HIDE DEF t, S
<1>5. IsFcn(t)
  <2>1. t \in [1 .. n + 1 -> S]
    BY <1>4
  <2> QED
    BY <2>1 DEF IsFcn
<1>6. IsSeq(t)
  BY <1>4, <1>5, LengthIs
<1>7. \A i \in DOMAIN t : t[i] = e \/ (i \in DOMAIN s /\ t[i] = s[i])
  <2>1. ASSUME NEW i \in DOMAIN t
        PROVE  t[i] = e \/ (i \in DOMAIN s /\ t[i] = s[i])
    <3>1. i = n + 1 \/ i \in 1 .. n
      BY <1>4
    <3>2. CASE i = n + 1
      BY <1>4, <3>2
    <3>3. CASE i \in 1 .. n
      <4>1. t[i] = s[i]
        BY <1>4, <3>3
      <4>2. i \in DOMAIN s
        BY <1>1, <3>3
      <4> QED
        BY <4>1, <4>2
    <3> QED
      BY <3>1, <3>2, <3>3
  <2> QED
    BY <2>1
<1> QED
  BY <1>1, <1>4, <1>6, <1>7 DEF t

LEMMA CallStep ==
  ASSUME Inv, NEW traceable \in BOOLEAN, Call(traceable)
  PROVE  Inv'
<1>1. frames # << >> /\ Len(frames) < MaxFrames
  BY DEF Call, Running
<1>2. WellFormed(heap, frames) /\ HeapSound(heap) /\ FrameOK(heap, Top) /\ IsSeq(frames)
      /\ \A i \in DOMAIN frames : FrameOK(heap, frames[i])
  BY <1>1, InvParts
<1>3. PICK env \in [Params -> Operands(Top)] :
         Goto(heap, Append(frames, Frame(env, IF traceable THEN NewTrace(heap, env) ELSE NoTrace)), NoEvent)
  BY DEF Call
<1> DEFINE f == Frame(env, IF traceable THEN NewTrace(heap, env) ELSE NoTrace)
           fs == Append(frames, f)
<1>4. EnvSound(heap, env)
  <2>1. \A x \in DOMAIN env : Denotes(heap, env[x])
    BY <1>2, OperandsDenote
  <2> QED
    BY <2>1, SizesAssumption DEF EnvSound
<1>5. FrameOK(heap, f)
  BY <1>4, FrameStarts
<1> HIDE DEF f
<1>6. /\ IsSeq(fs) /\ Len(fs) = Len(frames) + 1
      /\ \A i \in DOMAIN fs : fs[i] = f \/ (i \in DOMAIN frames /\ fs[i] = frames[i])
  BY <1>2, AppendIs
<1>7. Len(fs) <= MaxFrames
  <2>1. PICK n \in Nat : n = Len(frames)
    BY <1>2 DEF IsSeq
  <2> QED
    BY <1>1, <1>6, <2>1, SizesAssumption
<1>8. Goto(heap, fs, NoEvent)
  BY <1>3 DEF f
<1> HIDE DEF fs
<1>9. WellFormed(heap, fs)
  BY <1>2, <1>5, <1>6, <1>7 DEF WellFormed
<1> QED
  BY <1>8, <1>9, GotoSound

\* The frames under the running one.
LEMMA FrontIs ==
  ASSUME NEW s, IsSeq(s), s # << >>
  PROVE  /\ IsSeq(Front(s)) /\ Len(Front(s)) = Len(s) - 1 /\ Len(s) \in Nat \ {0}
         /\ \A i \in DOMAIN Front(s) : i \in DOMAIN s /\ Front(s)[i] = s[i]
<1>1. PICK n \in Nat : n = Len(s) /\ DOMAIN s = 1 .. n
  BY DEF IsSeq
<1> DEFINE S == {s[i] : i \in 1 .. n}
           t == Front(s)
<1>2. s \in [1 .. n -> S]
  BY <1>1 DEF IsSeq, IsFcn
<1>3. s \in Seq(S)
  BY <1>1, <1>2
<1>4. n # 0
  <2>1. CASE n = 0
    <3>1. s = << >>
      BY <1>1, <2>1 DEF IsSeq, IsFcn
    <3> QED
      BY <3>1
  <2> QED
    BY <2>1
<1>5. t = SubSeq(s, 1, n - 1)
  BY <1>1 DEF Front
<1>6. t \in Seq(S) /\ Len(t) = n - 1 /\ DOMAIN t = 1 .. n - 1 /\ \A i \in 1 .. n - 1 : t[i] = s[i]
  BY <1>1, <1>3, <1>4, <1>5
<1>7. IsFcn(t)
  BY <1>6 DEF IsFcn
<1> HIDE DEF t
<1>8. IsSeq(t)
  BY <1>4, <1>6, <1>7, LengthIs
<1> QED
  BY <1>1, <1>4, <1>6, <1>8 DEF t

LEMMA ReturnStep ==
  ASSUME Inv, Return
  PROVE  Inv'
<1>1. frames # << >> /\ \E e : Goto(heap, Front(frames), e)
  BY DEF Return, Between, Running
<1>2. HeapSound(heap) /\ IsSeq(frames) /\ Len(frames) <= MaxFrames
      /\ \A i \in DOMAIN frames : FrameOK(heap, frames[i])
  BY InvParts
<1>3. /\ IsSeq(Front(frames)) /\ Len(Front(frames)) = Len(frames) - 1 /\ Len(frames) \in Nat \ {0}
      /\ \A i \in DOMAIN Front(frames) : i \in DOMAIN frames /\ Front(frames)[i] = frames[i]
  BY <1>1, <1>2, FrontIs
<1>4. Len(Front(frames)) <= MaxFrames
  <2>1. PICK n \in Nat : n = Len(frames)
    BY <1>3
  <2> QED
    BY <1>2, <1>3, <2>1, SizesAssumption
<1>5. WellFormed(heap, Front(frames))
  BY <1>2, <1>3, <1>4 DEF WellFormed
<1> QED
  BY <1>1, <1>5, GotoSound

LEMMA ReturnIntoStep ==
  ASSUME Inv, NEW x \in Names, ReturnInto(x)
  PROVE  Inv'
<1> DEFINE caller == frames[Len(frames) - 1]
           back(v) == [i \in 1 .. Len(frames) - 1 |->
                         IF i < Len(frames) - 1 THEN frames[i] ELSE Assigned(caller, heap, x, v)]
<1>1. frames # << >> /\ Len(frames) > 1 /\ caller.arm = << >>
  BY DEF ReturnInto, Between, Running
<1>2. PICK v \in Operands(Top) : \E e : Goto(heap, back(v), e)
  BY DEF ReturnInto
<1>3. HeapSound(heap) /\ FrameOK(heap, Top) /\ IsSeq(frames) /\ Len(frames) <= MaxFrames
      /\ \A i \in DOMAIN frames : FrameOK(heap, frames[i])
  BY <1>1, InvParts
<1>4. PICK n \in Nat : n = Len(frames) /\ DOMAIN frames = 1 .. n
  BY <1>3 DEF IsSeq
<1>5. n - 1 \in Nat /\ n - 1 \in DOMAIN frames
  BY <1>1, <1>4
<1>6. FrameOK(heap, caller)
  BY <1>3, <1>4, <1>5
<1>7. Denotes(heap, v)
  BY <1>3, OperandsDenote
<1> DEFINE fs == back(v)
           a == Assigned(caller, heap, x, v)
<1>8. FrameOK(heap, a)
  <2> HIDE DEF caller
  <2> QED
    BY <1>1, <1>6, <1>7, AssignedSound
<1>9. DOMAIN fs = 1 .. n - 1 /\ IsFcn(fs) /\ \A i \in 1 .. n - 1 : fs[i] = IF i < n - 1 THEN frames[i] ELSE a
  <2> HIDE DEF a
  <2> QED
    BY <1>4 DEF IsFcn, a
<1>10. Goto(heap, fs, CHOOSE e : Goto(heap, fs, e))
  BY <1>2
<1> HIDE DEF fs, a
<1>11. Len(fs) = n - 1 /\ IsSeq(fs)
  BY <1>5, <1>9, LengthIs
<1>12. \A i \in DOMAIN fs : FrameOK(heap, fs[i])
  BY <1>3, <1>4, <1>8, <1>9
<1>13. Len(fs) <= MaxFrames
  BY <1>3, <1>4, <1>11, SizesAssumption
<1>14. WellFormed(heap, fs)
  BY <1>3, <1>11, <1>12, <1>13 DEF WellFormed
<1> QED
  BY <1>10, <1>14, GotoSound

LEMMA ValueIsSet ==
  ASSUME NEW v \in Values
  PROVE  v # Unset
<1>1. v[1] = "int" \/ v[1] = "row" \/ v[1] = "table"
  BY DEF Values, Num, Row
<1>2. Unset[1] = "unset"
  BY DEF Unset
<1> QED
  BY <1>1, <1>2

\* A frame that binds the variable of an arm: what its trace copies is unmoved.
LEMMA BoundSound ==
  ASSUME NEW h, NEW f, FrameOK(h, f), f.arm = << >>, NEW x \in Names, NEW v, Denotes(h, v)
  PROVE  FrameOK(h, [f EXCEPT !.env = SetRoot(@, x, v), !.arm = <<x, Old(f, x)>>])
<1> DEFINE o == Old(f, x)
           e == SetRoot(f.env, x, v)
           g == [f EXCEPT !.env = SetRoot(@, x, v), !.arm = <<x, o>>]
<1>1. DOMAIN f = {"env", "arm", "trace"} /\ EnvSound(h, f.env) /\ f.trace.loops \in 0 .. MaxNest
  BY DEF FrameOK
<1>2. DOMAIN g = {"env", "arm", "trace"} /\ g.env = e /\ g.arm = <<x, o>> /\ g.trace = f.trace
  BY <1>1
<1>3. EnvSound(h, e) /\ x \in DOMAIN e
  BY <1>1, SetRootSound
<1>4. DOMAIN e = DOMAIN f.env \cup {x} /\ \A y \in DOMAIN f.env \ {x} : e[y] = f.env[y]
  BY DEF SetRoot
<1>5. f.env = [y \in DOMAIN f.env |-> f.env[y]] /\ \A y \in DOMAIN f.env : Denotes(h, f.env[y])
  BY <1>1 DEF EnvSound
<1>6. o \in Values \cup {Unset} /\ (IsContainer(o) => o[2] \in DOMAIN h)
  BY <1>5 DEF Old, Denotes, IsContainer, Unset
<1>7. g.arm # << >> /\ g.arm[1] = x /\ g.arm[2] = o
  BY <1>2
<1> HIDE DEF g, e
<1>8. ArmSound(h, g)
  BY <1>2, <1>3, <1>6 DEF ArmSound
<1>9. Uncovered(g) = f.env
  <2>1. CASE x \in DOMAIN f.env
    <3>1. o = f.env[x] /\ o # Unset
      BY <1>5, <2>1, ValueIsSet DEF Old, Denotes
    <3>2. Uncovered(g) = [e EXCEPT ![x] = o]
      BY <1>2, <1>7, <3>1 DEF Uncovered
    <3>3. e = [y \in DOMAIN e |-> e[y]]
      BY <1>3 DEF EnvSound
    <3>4. DOMAIN e = DOMAIN f.env
      BY <1>4, <2>1
    <3>5. DOMAIN Uncovered(g) = DOMAIN f.env
          /\ Uncovered(g) = [y \in DOMAIN f.env |-> Uncovered(g)[y]]
      BY <3>2, <3>3, <3>4
    <3>6. \A y \in DOMAIN f.env : Uncovered(g)[y] = f.env[y]
      BY <1>4, <3>1, <3>2, <3>4
    <3> HIDE DEF o
    <3> QED
      BY <1>5, <3>5, <3>6
  <2>2. CASE x \notin DOMAIN f.env
    <3>1. o = Unset
      BY <2>2 DEF Old
    <3>2. Uncovered(g) = [y \in DOMAIN e \ {x} |-> e[y]]
      BY <1>2, <1>7, <3>1 DEF Uncovered
    <3> QED
      BY <1>4, <1>5, <2>2, <3>2
  <2> QED
    BY <2>1, <2>2
<1>10. Uncovered(f) = f.env
  BY DEF Uncovered
<1>11. FrameOK(h, g)
  <2>1. f.trace = NoTrace \/ Exact(f.trace, h, f.env)
    BY <1>10 DEF FrameOK
  <2> QED
    BY <1>1, <1>2, <1>3, <1>8, <1>9, <2>1 DEF FrameOK
<1> QED
  BY <1>11 DEF g

LEMMA BindArmStep ==
  ASSUME Inv, NEW x \in Names, BindArm(x)
  PROVE  Inv'
<1>1. frames # << >> /\ Top.arm = << >>
  BY DEF BindArm, Between, Running
<1>2. WellFormed(heap, frames) /\ HeapSound(heap) /\ FrameOK(heap, Top)
  BY <1>1, InvParts
<1>3. PICK v \in Operands(Top) :
         Goto(heap, SetTop([Top EXCEPT !.env = SetRoot(@, x, v), !.arm = <<x, Old(Top, x)>>]), NoEvent)
  BY DEF BindArm
<1> DEFINE g == [Top EXCEPT !.env = SetRoot(@, x, v), !.arm = <<x, Old(Top, x)>>]
<1>4. FrameOK(heap, g)
  <2>1. Denotes(heap, v)
    BY <1>2, OperandsDenote
  <2> QED
    BY <1>1, <1>2, <2>1, BoundSound
<1>5. Goto(heap, SetTop(g), NoEvent)
  BY <1>3
<1> HIDE DEF g
<1>6. WellFormed(heap, SetTop(g))
  BY <1>1, <1>2, <1>4, SetTopSound
<1> QED
  BY <1>5, <1>6, GotoSound

\* The binding of an arm, and the variables it covers.
LEMMA ArmIs ==
  ASSUME NEW h, NEW f, FrameOK(h, f), f.arm # << >>
  PROVE  /\ f.arm[1] \in DOMAIN f.env /\ f.arm[2] = OldIn(Uncovered(f), f.arm[1])
         /\ SetRoot(Uncovered(f), f.arm[1], f.env[f.arm[1]]) = f.env
<1>1. EnvSound(h, f.env) /\ ArmSound(h, f)
  BY DEF FrameOK
<1>2. PICK x \in DOMAIN f.env, w \in Values \cup {Unset} : f.arm = <<x, w>>
  BY <1>1 DEF ArmSound
<1>3. f.arm[1] = x /\ f.arm[2] = w
  BY <1>2
<1>4. f.env = [y \in DOMAIN f.env |-> f.env[y]]
  BY <1>1 DEF EnvSound
<1> DEFINE u == Uncovered(f)
<1>5. OldIn(u, x) = w /\ SetRoot(u, x, f.env[x]) = f.env
  <2>1. CASE w = Unset
    <3>1. u = [y \in DOMAIN f.env \ {x} |-> f.env[y]]
      BY <1>3, <2>1 DEF Uncovered
    <3> HIDE DEF u
    <3>2. OldIn(u, x) = w
      BY <2>1, <3>1 DEF OldIn
    <3>3. SetRoot(u, x, f.env[x]) = f.env
      BY <1>4, <3>1 DEF SetRoot
    <3> QED
      BY <3>2, <3>3
  <2>2. CASE w # Unset
    <3>1. u = [f.env EXCEPT ![x] = w]
      BY <1>3, <2>2 DEF Uncovered
    <3> HIDE DEF u
    <3>2. OldIn(u, x) = w
      BY <3>1 DEF OldIn
    <3>3. SetRoot(u, x, f.env[x]) = f.env
      BY <1>4, <3>1 DEF SetRoot
    <3> QED
      BY <3>2, <3>3
  <2> QED
    BY <2>1, <2>2
<1> QED
  BY <1>3, <1>5

LEMMA GuardHoldsStep ==
  ASSUME Inv, GuardHolds
  PROVE  Inv'
<1> DEFINE x == Top.arm[1]
           ts == TraceAssign(Top.trace, heap, x, Top.arm[2], Top.env[x])
           g == [Top EXCEPT !.arm = << >>, !.trace = ts]
<1>1. frames # << >> /\ Top.arm # << >>
      /\ Goto(heap, SetTop([Top EXCEPT !.arm = << >>,
                              !.trace = TraceAssign(@, heap, x, Top.arm[2], Top.env[x])]), NoEvent)
  BY DEF GuardHolds, Running
<1>2. WellFormed(heap, frames) /\ FrameOK(heap, Top)
  BY <1>1, InvParts
<1>3. DOMAIN Top = {"env", "arm", "trace"} /\ EnvSound(heap, Top.env) /\ Top.trace.loops \in 0 .. MaxNest
  BY <1>2 DEF FrameOK
<1>4. Goto(heap, SetTop(g), NoEvent)
  <2>1. g = [Top EXCEPT !.arm = << >>, !.trace = TraceAssign(@, heap, x, Top.arm[2], Top.env[x])]
    BY <1>3
  <2> QED
    BY <1>1, <2>1
<1>5. DOMAIN g = {"env", "arm", "trace"} /\ g.env = Top.env /\ g.arm = << >> /\ g.trace = ts
  BY <1>3
<1>6. x \in DOMAIN Top.env /\ Top.arm[2] = OldIn(Uncovered(Top), x)
      /\ SetRoot(Uncovered(Top), x, Top.env[x]) = Top.env
  BY <1>1, <1>2, ArmIs
<1>7. Top.env[x] \in Values
  BY <1>3, <1>6 DEF EnvSound, Denotes
<1>8. EnvSound(heap, Uncovered(Top))
  BY <1>2, UncoveredSound DEF FrameOK, UncoveredIs
<1> HIDE DEF g, x
<1>9. ts.loops \in 0 .. MaxNest /\ (ts = NoTrace \/ Exact(ts, heap, Top.env))
  <2>1. CASE Top.trace = NoTrace /\ Top.trace.on = FALSE
    <3>1. ts = NoTrace
      BY <2>1 DEF TraceAssign
    <3> QED
      BY <1>3, <2>1, <3>1
  <2>2. CASE Top.trace.on = TRUE /\ Exact(Top.trace, heap, Uncovered(Top)) /\ DOMAIN Top.trace = TraceFields
    <3>1. ts = Rewrite(Top.trace, heap, Root(x), OldIn(Uncovered(Top), x), Top.env[x])
      BY <1>6, <2>2 DEF TraceAssign
    <3>2. ts.loops = Top.trace.loops
      BY <2>2, <3>1, RewriteIs
    <3>3. Exact(ts, heap, SetRoot(Uncovered(Top), x, Top.env[x]))
      BY <1>7, <1>8, <2>2, <3>1, AssignExact
    <3> QED
      BY <1>3, <1>6, <3>2, <3>3
  <2> QED
    BY <1>2, <2>1, <2>2, TracedIsExact
<1> HIDE DEF ts
<1>10. Uncovered(g) = Top.env /\ ArmSound(heap, g)
  BY <1>5 DEF Uncovered, ArmSound
<1>11. FrameOK(heap, g)
  BY <1>3, <1>5, <1>9, <1>10 DEF FrameOK
<1>12. WellFormed(heap, SetTop(g))
  BY <1>1, <1>2, <1>11, SetTopSound
<1> QED
  BY <1>4, <1>12, GotoSound

LEMMA GuardFailsStep ==
  ASSUME Inv, GuardFails
  PROVE  Inv'
<1> DEFINE u == Uncovered(Top)
           g == [Top EXCEPT !.arm = << >>, !.env = u]
<1>1. frames # << >> /\ Goto(heap, SetTop(g), NoEvent)
  BY DEF GuardFails, Running
<1>2. WellFormed(heap, frames) /\ FrameOK(heap, Top)
  BY <1>1, InvParts
<1>3. DOMAIN Top = {"env", "arm", "trace"} /\ Top.trace.loops \in 0 .. MaxNest
      /\ (Top.trace = NoTrace \/ Exact(Top.trace, heap, u))
  BY <1>2 DEF FrameOK
<1>4. EnvSound(heap, u)
  BY <1>2, UncoveredSound DEF FrameOK, UncoveredIs
<1> HIDE DEF u
<1>5. DOMAIN g = {"env", "arm", "trace"} /\ g.env = u /\ g.arm = << >> /\ g.trace = Top.trace
  BY <1>3
<1> HIDE DEF g
<1>6. Uncovered(g) = u /\ ArmSound(heap, g)
  BY <1>5 DEF Uncovered, ArmSound
<1>7. FrameOK(heap, g)
  BY <1>3, <1>4, <1>5, <1>6 DEF FrameOK
<1>8. WellFormed(heap, SetTop(g))
  BY <1>1, <1>2, <1>7, SetTopSound
<1> QED
  BY <1>1, <1>8, GotoSound

\* One frame is a stack of frames.
LEMMA OneFrame ==
  ASSUME NEW h, HeapSound(h), NEW f, FrameOK(h, f)
  PROVE  WellFormed(h, << f >>)
<1> DEFINE s == << f >>
<1>1. DOMAIN s = 1 .. 1 /\ s[1] = f /\ Len(s) = 1 /\ s = [i \in 1 .. 1 |-> s[i]]
  OBVIOUS
<1> HIDE DEF s
<1>2. IsSeq(s)
  BY <1>1 DEF IsSeq, IsFcn
<1>3. \A i \in DOMAIN s : s[i] = f
  BY <1>1
<1>4. WellFormed(h, s)
  BY <1>1, <1>2, <1>3, SizesAssumption DEF WellFormed
<1> QED
  BY <1>4 DEF s

\* A frame keeps what its variables hold, traced or not.
LEMMA LiveAtStart ==
  ASSUME NEW h, NEW env, NEW ts
  PROVE  Live(h, << Frame(env, ts) >>) = Live(h, << Frame(env, NoTrace) >>)
<1> DEFINE f == Frame(env, ts)
           g == Frame(env, NoTrace)
<1>1. HeldBy(f) = HeldBy(g)
  BY DEF HeldBy, Frame
<1> HIDE DEF f, g
<1>2. DOMAIN << f >> = {1} /\ DOMAIN << g >> = {1} /\ << f >>[1] = f /\ << g >>[1] = g
  OBVIOUS
<1>3. {HeldBy(<< f >>[i]) : i \in DOMAIN << f >>} = {HeldBy(<< g >>[i]) : i \in DOMAIN << g >>}
  BY <1>1, <1>2
<1>4. Live(h, << f >>) = Live(h, << g >>)
  BY <1>3 DEF Live
<1> QED
  BY <1>4 DEF f, g

LEMMA InitSound ==
  ASSUME Init
  PROVE  Inv
<1>1. PICK field \in [Rows -> Ints], items \in [Tables -> BoundedSeq(Rows, MaxLength) \ {<< >>}] :
         \E env \in [Results -> Values] :
            LET all == [c \in Rows \cup Tables |-> IF c \in Rows THEN field[c] ELSE items[c]]
                h == [c \in Live(all, <<Frame(env, NoTrace)>>) |-> all[c]]
            IN  /\ heap = h
                /\ frames = << Frame(env, NewTrace(h, env)) >>
  BY DEF Init
<1> DEFINE all == [c \in Rows \cup Tables |-> IF c \in Rows THEN field[c] ELSE items[c]]
<1>2. PICK env \in [Results -> Values] :
            /\ heap = [c \in Live(all, <<Frame(env, NoTrace)>>) |-> all[c]]
            /\ frames = << Frame(env, NewTrace(heap, env)) >>
  BY <1>1
<1> DEFINE f == Frame(env, NoTrace)
           g == Frame(env, NewTrace(heap, env))
<1>3. heap = Kept(all, << f >>)
  BY <1>2 DEF Kept
<1>4. /\ DOMAIN all = Rows \cup Tables /\ all = [c \in DOMAIN all |-> all[c]]
      /\ \A c \in Rows : all[c] = field[c]
      /\ \A c \in Tables : all[c] = items[c]
  BY SizesAssumption
<1> HIDE DEF all
<1>5. HeapSound(all)
  <2>1. ASSUME NEW c \in DOMAIN all
        PROVE  Contents(all, c)
    <3>1. Rows \cap DOMAIN all = Rows
      BY <1>4
    <3>2. c \in Tables /\ c \notin Rows => all[c] \in BoundedSeq(Rows, MaxLength)
      BY <1>4
    <3>3. c \in Rows => all[c] \in Ints
      BY <1>4
    <3> QED
      BY <1>4, <3>1, <3>2, <3>3 DEF Contents
  <2> QED
    BY <1>4, <2>1 DEF HeapSound
<1>6. EnvSound(all, env)
  <2>1. ASSUME NEW x \in DOMAIN env
        PROVE  Denotes(all, env[x])
    <3>1. env[x] \in Values
      BY <1>2
    <3>2. CASE \E n \in Scalars : env[x] = Num(n)
      BY <3>1, <3>2, NumJson DEF Denotes
    <3>3. CASE \E q \in Rows : env[x] = Row(q)
      BY <1>4, <3>1, <3>3, RowJson DEF Denotes
    <3>4. CASE \E u \in Tables : env[x] = <<"table", u>>
      BY <1>4, <3>1, <3>4, TableJson DEF Denotes
    <3> QED
      BY <3>1, <3>2, <3>3, <3>4, ValueKinds
  <2> QED
    BY <1>2, <2>1, SizesAssumption DEF EnvSound
<1>7. FrameOK(all, f)
  BY <1>6, FrameStarts
<1>8. f.env = env
  BY DEF Frame
<1> HIDE DEF f
<1>9. WellFormed(all, << f >>)
  BY <1>5, <1>7, OneFrame
<1>10. WellFormed(heap, << f >>) /\ DOMAIN heap = Live(heap, << f >>)
  BY <1>3, <1>9, KeptSound, KeptHeap
<1>11. HeapSound(heap) /\ FrameOK(heap, f)
  <2>1. 1 \in DOMAIN << f >> /\ << f >>[1] = f
    OBVIOUS
  <2> QED
    BY <1>10, <2>1 DEF WellFormed
<1>12. EnvSound(heap, env)
  BY <1>8, <1>11 DEF FrameOK
<1>13. FrameOK(heap, g)
  BY <1>12, FrameStarts
<1>14. WellFormed(heap, << g >>)
  BY <1>11, <1>13, OneFrame
<1>15. Live(heap, << g >>) = Live(heap, << f >>)
  BY LiveAtStart DEF f
<1> HIDE DEF g
<1>16. frames = << g >>
  BY <1>2 DEF g
<1> QED
  BY <1>10, <1>14, <1>15, <1>16 DEF Inv

LEMMA NextSound ==
  ASSUME Inv, [Next]_vars
  PROVE  Inv'
<1>1. ASSUME NEW x \in Names, Assign(x)
      PROVE  Inv'
  BY <1>1, AssignStep
<1>2. ASSUME NEW x \in Names, AssignNewRow(x)
      PROVE  Inv'
  BY <1>2, AssignNewRowStep
<1>3. ASSUME NEW x \in Names, AssignNewTable(x)
      PROVE  Inv'
  BY <1>3, AssignNewTableStep
<1>4. CASE IndexAssign
  BY <1>4, IndexAssignStep
<1>5. CASE FieldAssign
  BY <1>5, FieldAssignStep
<1>6. CASE TraceLoopStart
  BY <1>6, LoopStartStep
<1>7. CASE TraceLoopEnd
  BY <1>7, LoopEndStep
<1>8. ASSUME NEW traceable \in BOOLEAN, Call(traceable)
      PROVE  Inv'
  BY <1>8, CallStep
<1>9. CASE Return
  BY <1>9, ReturnStep
<1>10. ASSUME NEW x \in Names, ReturnInto(x)
       PROVE  Inv'
  BY <1>10, ReturnIntoStep
<1>11. ASSUME NEW x \in Names, BindArm(x)
       PROVE  Inv'
  BY <1>11, BindArmStep
<1>12. CASE GuardHolds
  BY <1>12, GuardHoldsStep
<1>13. CASE GuardFails
  BY <1>13, GuardFailsStep
<1>14. CASE UNCHANGED vars
  <2>1. heap' = heap /\ frames' = frames
    BY <1>14 DEF vars
  <2>2. WellFormed(heap', frames')
    BY <2>1 DEF Inv
  <2>3. DOMAIN heap' = Live(heap', frames')
    BY <2>1 DEF Inv
  <2> QED
    BY <2>2, <2>3 DEF Inv
<1> QED
  BY <1>1, <1>2, <1>3, <1>4, <1>5, <1>6, <1>7, <1>8, <1>9, <1>10, <1>11, <1>12, <1>13, <1>14
     DEF Next, Done

-----------------------------------------------------------------------------
(* The theorems.                                                           *)

\* After every step of a program the frames hold only live containers, and the
\* state and the alias index of every traced frame are those of its variables.
THEOREM FramesStayFaithful == Spec => []Inv
<1>1. Init => Inv
  BY InitSound
<1>2. Inv /\ [Next]_vars => Inv'
  BY NextSound
<1> QED
  BY <1>1, <1>2, PTL DEF Spec

LEMMA InvTypes ==
  ASSUME Inv
  PROVE  TypeOK
<1>1. DOMAIN heap = Live(heap, frames) /\ Len(frames) <= MaxFrames /\ HeapSound(heap)
  BY InvParts DEF Inv
<1>2. \A i \in DOMAIN frames : FrameOK(heap, frames[i])
  BY InvParts
<1>3. ASSUME NEW c \in DOMAIN heap
      PROVE  IF c \in Rows THEN heap[c] \in Ints
             ELSE c \in Tables /\ heap[c] \in BoundedSeq(Rows \cap DOMAIN heap, MaxLength)
  BY <1>1 DEF HeapSound, Contents
<1>4. ASSUME NEW i \in DOMAIN frames
      PROVE  /\ DOMAIN frames[i].env \subseteq Names
             /\ Range(frames[i].env) \subseteq Values
             /\ frames[i].arm # << >> =>
                  /\ frames[i].arm[1] \in Names
                  /\ frames[i].arm[2] \in Values \cup {Unset}
                  /\ IsContainer(frames[i].arm[2]) => frames[i].arm[2][2] \in DOMAIN heap
             /\ frames[i].trace.loops \in 0 .. MaxNest
  <2> DEFINE f == frames[i]
  <2>1. EnvSound(heap, f.env) /\ ArmSound(heap, f) /\ f.trace.loops \in 0 .. MaxNest
    BY <1>2 DEF FrameOK
  <2>2. DOMAIN f.env \subseteq Names /\ Range(f.env) \subseteq Values
    BY <2>1 DEF EnvSound, Denotes, Range
  <2>3. ASSUME f.arm # << >>
        PROVE  /\ f.arm[1] \in Names /\ f.arm[2] \in Values \cup {Unset}
               /\ IsContainer(f.arm[2]) => f.arm[2][2] \in DOMAIN heap
    <3>1. PICK x \in DOMAIN f.env, w \in Values \cup {Unset} :
                f.arm = <<x, w>> /\ (IsContainer(w) => w[2] \in DOMAIN heap)
      BY <2>1, <2>3 DEF ArmSound
    <3>2. f.arm[1] = x /\ f.arm[2] = w
      BY <3>1
    <3> QED
      BY <2>2, <3>1, <3>2
  <2> QED
    BY <2>1, <2>2, <2>3
<1> QED
  BY <1>1, <1>3, <1>4 DEF TypeOK

\* The heap holds what the frames reach, neither less nor more, and the frames
\* hold values of the right kind at addresses that are live.
THEOREM NothingDangles == Spec => []TypeOK
<1>1. Inv => TypeOK
  BY InvTypes
<1> QED
  BY <1>1, FramesStayFaithful, PTL

LEMMA InvMirrors ==
  ASSUME Inv
  PROVE  TraceMirrorsTheFrames
<1>1. ASSUME NEW i \in Traced
      PROVE  frames[i].trace.state = Copy(heap, Uncovered(frames[i]))
  <2>1. i \in DOMAIN frames /\ frames[i].trace.on
    BY DEF Traced
  <2>2. FrameOK(heap, frames[i])
    BY <2>1, InvParts
  <2> QED
    BY <2>1, <2>2, TracedIsExact DEF Exact
<1> QED
  BY <1>1 DEF TraceMirrorsTheFrames, Copy

\* The copy of its variables that a traced frame carries is never out of date,
\* however the write reached the container.
THEOREM CopiesStayCurrent == Spec => []TraceMirrorsTheFrames
<1>1. Inv => TraceMirrorsTheFrames
  BY InvMirrors
<1> QED
  BY <1>1, FramesStayFaithful, PTL

LEMMA InvAliases ==
  ASSUME Inv
  PROVE  AliasesAreExact
<1>1. ASSUME NEW env
      PROVE  LET C == {x \in DOMAIN env : IsContainer(env[x])}
             IN  AllEntries(heap, env) =
                   {<<env[x][2], Root(x)>> : x \in C} \cup
                   UNION {Inside(heap, env[x], Root(x)) : x \in C}
  BY DEF AllEntries, Entries
<1>2. ASSUME NEW i \in Traced
      PROVE  frames[i].trace.aliases = AllEntries(heap, Uncovered(frames[i]))
  <2>1. i \in DOMAIN frames /\ frames[i].trace.on
    BY DEF Traced
  <2>2. FrameOK(heap, frames[i])
    BY <2>1, InvParts
  <2> QED
    BY <2>1, <2>2, TracedIsExact DEF Exact
<1> QED
  BY <1>1, <1>2 DEF AliasesAreExact

\* The alias index of a traced frame has an address at a path exactly when the
\* container at that address can be reached there now.
THEOREM IndexFindsEveryPath == Spec => []AliasesAreExact
<1>1. Inv => AliasesAreExact
  BY InvAliases
<1> QED
  BY <1>1, FramesStayFaithful, PTL

=============================================================================
