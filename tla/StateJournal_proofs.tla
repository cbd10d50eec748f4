------------------------- MODULE StateJournal_proofs -------------------------
(***************************************************************************)
(* Proofs about the journal of StateTrace, for any variables, addresses    *)
(* and integers and any lengths.                                           *)
(*                                                                         *)
(* Two computations have to agree.  The changes that Diff lists for two    *)
(* values of a place take a reader from the one to the other, each finding *)
(* the old value it names; and the digest, from which a write takes the    *)
(* leaves of the old value and to which it adds those of the new, stays    *)
(* the hash of the state.  Accounted(s, p, j) says both of one place of    *)
(* one state, and is shown for every place a write can reach: a variable,  *)
(* an item of an array, a field of either.  Ledger(ts) is what a trace     *)
(* then keeps through any number of writes and boundaries.                 *)
(***************************************************************************)
EXTENDS StateTrace_proofs

-----------------------------------------------------------------------------
(* Reading a journal.                                                        *)

\* The states a reader goes through.
Reads(after, s, c) ==
    /\ after[0] = s
    /\ \A n \in 1 .. Len(c) : after[n] = Apply(after[n - 1], c[n])

LEMMA ReplayReads ==
  ASSUME NEW s, NEW c, IsSeq(c)
  PROVE  \E after : Reads(after, s, c) /\ Replay(s, c) = after[Len(c)]
<1> DEFINE N == Len(c)
           St(f, n) == IF n = 0 THEN s ELSE Apply(f[n - 1], c[n])
           S == {k \in 0 .. N : \E f : f = [n \in 0 .. k |-> St(f, n)]}
           g == CHOOSE f : f = [n \in 0 .. N |-> St(f, n)]
<1>1. \A f : St(f, 0) = s
  OBVIOUS
<1>2. \A f, n : n # 0 => St(f, n) = Apply(f[n - 1], c[n])
  OBVIOUS
<1>3. N \in Nat
  BY DEF IsSeq
<1>4. Replay(s, c) = g[N]
  BY DEF Replay
<1> HIDE DEF St, N
<1>5. 0 \in S
  <2> DEFINE f == [n \in 0 .. 0 |-> s]
  <2>1. f = [n \in 0 .. 0 |-> St(f, n)]
    BY <1>1
  <2> QED
    BY <1>3, <2>1
<1>6. ASSUME NEW k \in 1 .. N, k - 1 \in S
      PROVE  k \in S
  <2>1. PICK f : f = [n \in 0 .. k - 1 |-> St(f, n)]
    BY <1>6
  <2> DEFINE e == [n \in 0 .. k |-> IF n < k THEN f[n] ELSE St(f, k)]
  <2>2. \A n \in 0 .. k - 1 : e[n] = f[n]
    BY <1>3
  <2>3. e[k] = St(f, k)
    BY <1>3
  <2>4. e = [n \in 0 .. k |-> e[n]]
    OBVIOUS
  <2> HIDE DEF e
  <2>5. ASSUME NEW n \in 0 .. k
        PROVE  e[n] = St(e, n)
    <3>1. CASE n = 0
      BY <1>1, <1>3, <2>1, <2>2, <3>1
    <3>2. CASE n \in 1 .. k - 1
      <4>1. n - 1 \in 0 .. k - 1 /\ n \in 0 .. k - 1 /\ n # 0
        BY <1>3, <3>2
      <4>2. e[n] = St(f, n)
        BY <2>1, <2>2, <4>1
      <4> QED
        BY <1>2, <2>2, <4>1, <4>2
    <3>3. CASE n = k
      <4>1. k - 1 \in 0 .. k - 1 /\ k # 0
        BY <1>3
      <4> QED
        BY <1>2, <2>2, <2>3, <3>3, <4>1
    <3> QED
      BY <1>3, <3>1, <3>2, <3>3
  <2>6. e = [n \in 0 .. k |-> St(e, n)]
    BY <2>4, <2>5
  <2> QED
    BY <1>3, <2>6
<1>7. N \in S
  <2> HIDE DEF S
  <2> QED
    BY <1>3, <1>5, <1>6, Counting
<1>8. g = [n \in 0 .. N |-> St(g, n)]
  BY <1>7
<1> HIDE DEF g, S
<1>9. \A n \in 0 .. N : g[n] = St(g, n)
  <2> DEFINE e == [n \in 0 .. N |-> St(g, n)]
  <2>1. \A n \in 0 .. N : e[n] = St(g, n)
    OBVIOUS
  <2> HIDE DEF e
  <2>2. g = e
    BY <1>8 DEF e
  <2> QED
    BY <2>1, <2>2
<1>10. Reads(g, s, c)
  <2>1. g[0] = s
    BY <1>1, <1>3, <1>9
  <2>2. ASSUME NEW n \in 1 .. N
        PROVE  g[n] = Apply(g[n - 1], c[n])
    <3>1. n \in 0 .. N /\ n # 0
      BY <1>3
    <3> QED
      BY <1>2, <1>9, <3>1
  <2> QED
    BY <2>1, <2>2 DEF Reads, N
<1> QED
  BY <1>4, <1>10 DEF N

\* There is only one way to read.
LEMMA ReplayIs ==
  ASSUME NEW s, NEW c, IsSeq(c), NEW g, Reads(g, s, c)
  PROVE  Replay(s, c) = g[Len(c)]
<1>1. PICK f : Reads(f, s, c) /\ Replay(s, c) = f[Len(c)]
  BY ReplayReads
<1>2. PICK N \in Nat : N = Len(c)
  BY DEF IsSeq
<1>3. /\ f[0] = s /\ \A n \in 1 .. N : f[n] = Apply(f[n - 1], c[n])
      /\ g[0] = s /\ \A n \in 1 .. N : g[n] = Apply(g[n - 1], c[n])
  BY <1>1, <1>2 DEF Reads
<1> DEFINE S == {n \in 0 .. N : f[n] = g[n]}
<1>4. 0 \in S
  BY <1>3
<1>5. ASSUME NEW k \in 1 .. N, k - 1 \in S
      PROVE  k \in S
  <2>1. f[k - 1] = g[k - 1]
    BY <1>5
  <2>2. f[k] = g[k]
    BY <1>3, <2>1
  <2> QED
    BY <2>2
<1>6. N \in S
  <2> HIDE DEF S
  <2> QED
    BY <1>4, <1>5, Counting
<1> QED
  BY <1>1, <1>2, <1>6

LEMMA ReplayNone ==
  ASSUME NEW s, NEW c, IsSeq(c), Len(c) = 0
  PROVE  Replay(s, c) = s
<1> DEFINE g == [n \in {0} |-> s]
<1>1. Reads(g, s, c)
  BY DEF Reads
<1>2. Replay(s, c) = g[0]
  <2> HIDE DEF g
  <2> QED
    BY <1>1, ReplayIs
<1> QED
  BY <1>2

LEMMA OneIs ==
  ASSUME NEW c
  PROVE  IsSeq(<< c >>) /\ Len(<< c >>) = 1 /\ << c >>[1] = c
<1> DEFINE s == << c >>
<1>1. s \in [1 .. 1 -> {c}] /\ s[1] = c
  OBVIOUS
<1> HIDE DEF s
<1>2. IsFcn(s) /\ DOMAIN s = 1 .. 1
  BY <1>1 DEF IsFcn
<1>3. Len(s) = 1 /\ IsSeq(s)
  BY <1>2, LengthIs
<1> QED
  BY <1>1, <1>3 DEF s

LEMMA TwoIs ==
  ASSUME NEW c, NEW d
  PROVE  IsSeq(<< c, d >>) /\ Len(<< c, d >>) = 2 /\ << c, d >>[1] = c /\ << c, d >>[2] = d
<1> DEFINE s == << c, d >>
<1>1. s \in [1 .. 2 -> {c, d}] /\ s[1] = c /\ s[2] = d
  OBVIOUS
<1> HIDE DEF s
<1>2. IsFcn(s) /\ DOMAIN s = 1 .. 2
  BY <1>1 DEF IsFcn
<1>3. Len(s) = 2 /\ IsSeq(s)
  BY <1>2, LengthIs
<1> QED
  BY <1>1, <1>3 DEF s

LEMMA ReplayOne ==
  ASSUME NEW s, NEW c
  PROVE  Replay(s, << c >>) = Apply(s, c)
<1> DEFINE g == [n \in 0 .. 1 |-> IF n = 0 THEN s ELSE Apply(s, c)]
           q == << c >>
<1>1. g[0] = s /\ g[1] = Apply(s, c)
  OBVIOUS
<1>2. IsSeq(q) /\ Len(q) = 1 /\ q[1] = c
  BY OneIs
<1> HIDE DEF g, q
<1>3. \A n \in 1 .. 1 : n = 1 /\ n - 1 = 0
  OBVIOUS
<1>4. Reads(g, s, q)
  BY <1>1, <1>2, <1>3 DEF Reads
<1>5. Replay(s, q) = Apply(s, c)
  BY <1>1, <1>2, <1>4, ReplayIs
<1> QED
  BY <1>5 DEF q

LEMMA ReplayTwo ==
  ASSUME NEW s, NEW c, NEW d
  PROVE  Replay(s, << c, d >>) = Apply(Apply(s, c), d)
<1> DEFINE a == Apply(s, c)
           b == Apply(a, d)
           g == [n \in 0 .. 2 |-> IF n = 0 THEN s ELSE IF n = 1 THEN a ELSE b]
           q == << c, d >>
<1>1. g[0] = s /\ g[1] = a /\ g[2] = b
  OBVIOUS
<1>2. IsSeq(q) /\ Len(q) = 2 /\ q[1] = c /\ q[2] = d
  BY TwoIs
<1> HIDE DEF g, q
<1>3. \A n \in 1 .. 2 : (n = 1 /\ n - 1 = 0) \/ (n = 2 /\ n - 1 = 1)
  OBVIOUS
<1>4. Reads(g, s, q)
  BY <1>1, <1>2, <1>3 DEF Reads
<1>5. Replay(s, q) = b
  BY <1>1, <1>2, <1>4, ReplayIs
<1> QED
  BY <1>5 DEF q

LEMMA JoinedIs ==
  ASSUME NEW a, IsSeq(a), NEW b, IsSeq(b)
  PROVE  /\ IsSeq(a \o b) /\ Len(a \o b) = Len(a) + Len(b)
         /\ \A i \in 1 .. Len(a) : (a \o b)[i] = a[i]
         /\ \A i \in 1 .. Len(b) : (a \o b)[Len(a) + i] = b[i]
<1>1. PICK m \in Nat : m = Len(a) /\ DOMAIN a = 1 .. m
  BY DEF IsSeq
<1>2. PICK n \in Nat : n = Len(b) /\ DOMAIN b = 1 .. n
  BY DEF IsSeq
<1> DEFINE S == {a[i] : i \in 1 .. m} \cup {b[i] : i \in 1 .. n}
           t == a \o b
<1>3. a \in [1 .. m -> S] /\ b \in [1 .. n -> S]
  BY <1>1, <1>2 DEF IsSeq, IsFcn
<1> HIDE DEF S
<1>4. a \in Seq(S) /\ b \in Seq(S)
  BY <1>3
<1>5. t \in Seq(S) /\ Len(t) = m + n /\ t \in [1 .. m + n -> S]
      /\ (\A i \in 1 .. m : t[i] = a[i]) /\ (\A i \in 1 .. n : t[m + i] = b[i])
  <2>1. t \in Seq(S) /\ Len(t) = m + n
    BY <1>1, <1>2, <1>4
  <2>2. t \in [1 .. m + n -> S]
    <3> HIDE DEF t
    <3>1. t \in [1 .. Len(t) -> S]
      BY <2>1
    <3> QED
      BY <2>1, <3>1
  <2>3. \A i \in 1 .. m : t[i] = a[i]
    BY <1>1, <1>2, <1>4
  <2>4. ASSUME NEW i \in 1 .. n
        PROVE  t[m + i] = b[i]
    <3>1. m + i \in 1 .. m + n /\ ~ (m + i <= m) /\ (m + i) - m = i
      OBVIOUS
    <3> QED
      BY <1>1, <1>2, <1>4, <3>1
  <2> QED
    BY <2>1, <2>2, <2>3, <2>4
<1> HIDE DEF t
<1>6. IsFcn(t) /\ DOMAIN t = 1 .. m + n
  BY <1>5 DEF IsFcn
<1>7. IsSeq(t)
  BY <1>6, LengthIs
<1> QED
  BY <1>1, <1>2, <1>5, <1>7 DEF t

LEMMA ReplayOn ==
  ASSUME NEW s, NEW a, IsSeq(a), NEW b, IsSeq(b)
  PROVE  Replay(s, a \o b) = Replay(Replay(s, a), b)
<1>1. PICK f : Reads(f, s, a) /\ Replay(s, a) = f[Len(a)]
  BY ReplayReads
<1>2. PICK e : Reads(e, Replay(s, a), b) /\ Replay(Replay(s, a), b) = e[Len(b)]
  BY ReplayReads
<1>3. PICK m \in Nat : m = Len(a)
  BY DEF IsSeq
<1>4. PICK n \in Nat : n = Len(b)
  BY DEF IsSeq
<1> DEFINE c == a \o b
           g == [k \in 0 .. m + n |-> IF k <= m THEN f[k] ELSE e[k - m]]
<1>5. IsSeq(c) /\ Len(c) = m + n /\ (\A i \in 1 .. m : c[i] = a[i]) /\ (\A i \in 1 .. n : c[m + i] = b[i])
  BY <1>3, <1>4, JoinedIs
<1>6. (\A k \in 0 .. m : g[k] = f[k]) /\ (\A k \in 1 .. n : g[m + k] = e[k])
  <2>1. \A k \in 0 .. m : k \in 0 .. m + n /\ k <= m
    OBVIOUS
  <2>2. \A k \in 1 .. n : m + k \in 0 .. m + n /\ ~ (m + k <= m) /\ (m + k) - m = k
    OBVIOUS
  <2> QED
    BY <2>1, <2>2
<1> HIDE DEF c, g
<1>7. /\ f[0] = s /\ \A k \in 1 .. m : f[k] = Apply(f[k - 1], a[k])
      /\ e[0] = f[m] /\ \A k \in 1 .. n : e[k] = Apply(e[k - 1], b[k])
  BY <1>1, <1>2, <1>3, <1>4 DEF Reads
<1>8. \A k \in 0 .. n : g[m + k] = e[k]
  <2>1. \A k \in 0 .. n : k = 0 \/ k \in 1 .. n
    OBVIOUS
  <2>2. g[m + 0] = e[0]
    BY <1>6, <1>7
  <2> QED
    BY <1>6, <2>1, <2>2
<1>9. ASSUME NEW k \in 1 .. m + n
      PROVE  g[k] = Apply(g[k - 1], c[k])
  <2>1. CASE k \in 1 .. m
    <3>1. k \in 0 .. m /\ k - 1 \in 0 .. m
      BY <2>1
    <3> QED
      BY <1>5, <1>6, <1>7, <2>1, <3>1
  <2>2. CASE k \notin 1 .. m
    <3>1. PICK i \in 1 .. n : k = m + i
      <4>1. k - m \in 1 .. n /\ k = m + (k - m)
        BY <2>2
      <4> QED
        BY <4>1
    <3>2. i - 1 \in 0 .. n /\ k - 1 = m + (i - 1) /\ i \in 0 .. n
      BY <3>1
    <3>3. g[k] = e[i] /\ g[k - 1] = e[i - 1]
      BY <1>8, <3>1, <3>2
    <3>4. c[k] = b[i]
      BY <1>5, <3>1
    <3>5. e[i] = Apply(e[i - 1], b[i])
      BY <1>7
    <3> QED
      BY <3>3, <3>4, <3>5
  <2> QED
    BY <2>1, <2>2
<1>10. Reads(g, s, c)
  <2>1. g[0] = s
    BY <1>6, <1>7
  <2> QED
    BY <1>5, <1>9, <2>1 DEF Reads
<1>11. Replay(s, c) = g[m + n]
  BY <1>5, <1>10, ReplayIs
<1>12. g[m + n] = e[n]
  BY <1>8
<1> QED
  BY <1>2, <1>4, <1>11, <1>12 DEF c

LEMMA FlatStages ==
  ASSUME NEW seqs, NEW N \in Nat \ {0}, Len(seqs) = N
  PROVE  \E f : /\ f[1] = seqs[1] /\ FlattenSeq(seqs) = f[N]
                /\ \A n \in 2 .. N : f[n] = f[n - 1] \o seqs[n]
<1> DEFINE St(f, n) == IF n = 1 THEN seqs[n] ELSE f[n - 1] \o seqs[n]
           S == {k \in 0 .. N : k = 0 \/ \E f : f = [n \in 1 .. k |-> St(f, n)]}
           g == CHOOSE f : f = [n \in 1 .. N |-> St(f, n)]
<1>1. \A f : St(f, 1) = seqs[1]
  OBVIOUS
<1>2. \A f, n : n # 1 => St(f, n) = f[n - 1] \o seqs[n]
  OBVIOUS
<1>3. FlattenSeq(seqs) = g[N]
  BY DEF FlattenSeq
<1> HIDE DEF St
<1>4. 0 \in S
  OBVIOUS
<1>5. ASSUME NEW k \in 1 .. N, k - 1 \in S
      PROVE  k \in S
  <2>1. CASE k = 1
    <3> DEFINE f == [n \in 1 .. 1 |-> seqs[1]]
    <3>1. f = [n \in 1 .. 1 |-> St(f, n)]
      BY <1>1
    <3> QED
      BY <2>1, <3>1
  <2>2. CASE k # 1
    <3>1. k - 1 # 0 /\ k - 1 \in 1 .. N
      BY <2>2
    <3>2. PICK f : f = [n \in 1 .. k - 1 |-> St(f, n)]
      BY <1>5, <3>1
    <3> DEFINE e == [n \in 1 .. k |-> IF n < k THEN f[n] ELSE St(f, k)]
    <3>3. \A n \in 1 .. k - 1 : e[n] = f[n]
      OBVIOUS
    <3>4. e[k] = St(f, k)
      OBVIOUS
    <3>5. e = [n \in 1 .. k |-> e[n]]
      OBVIOUS
    <3> HIDE DEF e
    <3>6. ASSUME NEW n \in 1 .. k
          PROVE  e[n] = St(e, n)
      <4>1. CASE n = 1
        <5>1. 1 \in 1 .. k - 1
          BY <2>2
        <5> QED
          BY <1>1, <3>2, <3>3, <4>1, <5>1
      <4>2. CASE n \in 2 .. k - 1
        <5>1. n - 1 \in 1 .. k - 1 /\ n \in 1 .. k - 1 /\ n # 1
          BY <4>2
        <5>2. e[n] = St(f, n)
          BY <3>2, <3>3, <5>1
        <5> QED
          BY <1>2, <3>3, <5>1, <5>2
      <4>3. CASE n = k
        <5>1. k - 1 \in 1 .. k - 1
          BY <2>2
        <5> QED
          BY <1>2, <2>2, <3>3, <3>4, <4>3, <5>1
      <4> QED
        BY <4>1, <4>2, <4>3
    <3>7. e = [n \in 1 .. k |-> St(e, n)]
      BY <3>5, <3>6
    <3> QED
      BY <3>7
  <2> QED
    BY <2>1, <2>2
<1>6. N \in S
  <2> HIDE DEF S
  <2> QED
    BY <1>4, <1>5, Counting
<1>7. g = [n \in 1 .. N |-> St(g, n)]
  BY <1>6
<1> HIDE DEF g, S
<1>8. \A n \in 1 .. N : g[n] = St(g, n)
  <2> DEFINE e == [n \in 1 .. N |-> St(g, n)]
  <2>1. \A n \in 1 .. N : e[n] = St(g, n)
    OBVIOUS
  <2> HIDE DEF e
  <2>2. g = e
    BY <1>7 DEF e
  <2> QED
    BY <2>1, <2>2
<1>9. g[1] = seqs[1]
  BY <1>1, <1>8
<1>10. \A n \in 2 .. N : g[n] = g[n - 1] \o seqs[n]
  <2>1. \A n \in 2 .. N : n \in 1 .. N /\ n # 1
    OBVIOUS
  <2> QED
    BY <1>2, <1>8, <2>1
<1> QED
  BY <1>3, <1>9, <1>10

\* A reader that goes from after[i - 1] to after[i] by the i-th of some lists of
\* changes goes from the first to the last by all of them.
LEMMA ReplayFlat ==
  ASSUME NEW seqs, IsSeq(seqs), NEW N \in Nat, Len(seqs) = N, NEW after,
         \A i \in 1 .. N : IsSeq(seqs[i]) /\ Replay(after[i - 1], seqs[i]) = after[i]
  PROVE  IsSeq(FlattenSeq(seqs)) /\ Replay(after[0], FlattenSeq(seqs)) = after[N]
<1>1. CASE N = 0
  <2>1. FlattenSeq(seqs) = seqs
    BY <1>1 DEF FlattenSeq
  <2>2. Replay(after[0], seqs) = after[0]
    BY <1>1, ReplayNone
  <2> QED
    BY <1>1, <2>1, <2>2
<1>2. CASE N # 0
  <2>1. PICK f : /\ f[1] = seqs[1] /\ FlattenSeq(seqs) = f[N]
                 /\ \A n \in 2 .. N : f[n] = f[n - 1] \o seqs[n]
    <3>1. N \in Nat \ {0}
      BY <1>2
    <3> HIDE DEF FlattenSeq
    <3> QED
      BY <3>1, FlatStages
  <2> DEFINE Good(k) == IsSeq(f[k]) /\ Replay(after[0], f[k]) = after[k]
             S == {k \in 0 .. N : k = 0 \/ Good(k)}
  <2>2. ASSUME NEW k \in 1 .. N, k - 1 \in S
        PROVE  k \in S
    <3>1. CASE k = 1
      <4>1. k - 1 = 0
        BY <3>1
      <4> QED
        BY <2>1, <3>1, <4>1
    <3>2. CASE k # 1
      <4>1. k \in 2 .. N /\ k - 1 # 0
        BY <3>2
      <4>2. Good(k - 1)
        BY <2>2, <4>1
      <4>3. f[k] = f[k - 1] \o seqs[k]
        BY <2>1, <4>1
      <4>4. IsSeq(f[k])
        BY <4>2, <4>3, JoinedIs
      <4>5. Replay(after[0], f[k]) = Replay(Replay(after[0], f[k - 1]), seqs[k])
        BY <4>2, <4>3, ReplayOn
      <4> QED
        BY <4>2, <4>4, <4>5
    <3> QED
      BY <3>1, <3>2
  <2>3. 0 \in S
    OBVIOUS
  <2>4. N \in S
    <3> HIDE DEF S
    <3> QED
      BY <2>2, <2>3, Counting
  <2> QED
    BY <1>2, <2>1, <2>4
<1> QED
  BY <1>1, <1>2

-----------------------------------------------------------------------------
(* One change.                                                               *)

\* A state in which every variable has a value.
Filled(s) == IsFcn(s) /\ \A x \in DOMAIN s : s[x][1] # "unset"

LEMMA NotBroken ==
  ASSUME NEW s, Filled(s)
  PROVE  s # Broken
<1>1. "broken" \in DOMAIN Broken /\ Broken["broken"][1] = "unset"
  BY DEF Broken, Unset
<1> QED
  BY <1>1 DEF Filled

LEMMA ApplyAdd ==
  ASSUME NEW s, Filled(s), NEW p, NEW o, NEW j
  PROVE  Apply(s, Change("add", p, o, j)) = Insert(s, p, j)
<1> DEFINE c == Change("add", p, o, j)
<1>1. c.op = "add" /\ c.path = p /\ c.new = j
  BY DEF Change
<1> HIDE DEF c
<1>2. s # Broken
  BY NotBroken
<1>3. Apply(s, c) = Insert(s, p, j)
  BY <1>1, <1>2 DEF Apply
<1> QED
  BY <1>3 DEF c

LEMMA ApplyReplace ==
  ASSUME NEW s, Filled(s), NEW p, Exists(s, p), NEW o, At(s, p) = o, NEW j
  PROVE  Apply(s, Change("replace", p, o, j)) = Put(s, p, j)
<1> DEFINE c == Change("replace", p, o, j)
<1>1. c.op = "replace" /\ c.path = p /\ c.old = o /\ c.new = j
  BY DEF Change
<1> HIDE DEF c
<1>2. s # Broken
  BY NotBroken
<1>3. Apply(s, c) = Put(s, p, j)
  BY <1>1, <1>2 DEF Apply
<1> QED
  BY <1>3 DEF c

LEMMA ApplyRemove ==
  ASSUME NEW s, Filled(s), NEW p, Exists(s, p), NEW o, At(s, p) = o, NEW j
  PROVE  Apply(s, Change("remove", p, o, j)) = Drop(s, p)
<1> DEFINE c == Change("remove", p, o, j)
<1>1. c.op = "remove" /\ c.path = p /\ c.old = o /\ c.new = j
  BY DEF Change
<1> HIDE DEF c
<1>2. s # Broken
  BY NotBroken
<1>3. Apply(s, c) = Drop(s, p)
  BY <1>1, <1>2 DEF Apply
<1> QED
  BY <1>3 DEF c

\* A state without one of its variables.
Without(s, x) == [y \in DOMAIN s \ {x} |-> s[y]]

LEMMA SetRootIs ==
  ASSUME NEW s, Filled(s), NEW x, NEW j, j[1] # "unset"
  PROVE  /\ Filled(SetRoot(s, x, j)) /\ x \in DOMAIN SetRoot(s, x, j) /\ SetRoot(s, x, j)[x] = j
         /\ Filled(Without(s, x))
BY DEF Filled, IsFcn, SetRoot, Without

LEMMA SetTwice ==
  ASSUME NEW s, NEW x, NEW j, NEW k
  PROVE  /\ SetRoot(SetRoot(s, x, j), x, k) = SetRoot(s, x, k)
         /\ SetRoot(Without(s, x), x, k) = SetRoot(s, x, k)
         /\ Without(SetRoot(s, x, j), x) = Without(s, x)
<1>1. SetRoot(SetRoot(s, x, j), x, k) = SetRoot(s, x, k)
  BY DEF SetRoot
<1>2. SetRoot(Without(s, x), x, k) = SetRoot(s, x, k)
  BY DEF SetRoot, Without
<1>3. Without(SetRoot(s, x, j), x) = Without(s, x)
  BY DEF SetRoot, Without
<1> QED
  BY <1>1, <1>2, <1>3

LEMMA SetSame ==
  ASSUME NEW s, Filled(s), NEW x
  PROVE  /\ x \in DOMAIN s => SetRoot(s, x, s[x]) = s
         /\ x \notin DOMAIN s => Without(s, x) = s
BY DEF Filled, IsFcn, SetRoot, Without

LEMMA RootIs ==
  ASSUME NEW x
  PROVE  Root(x).root = x /\ Root(x).index = Whole /\ Root(x).field = FALSE
         /\ LeadsToField(Field(Root(x)), x)
BY DEF Root, Field, Extended, ToField, LeadsToField

LEMMA ItemIs ==
  ASSUME NEW x, NEW i \in Nat \ {0}
  PROVE  Leads(Item(Root(x), i), x, i, FALSE) /\ Leads(Field(Item(Root(x), i)), x, i, TRUE)
<1>1. i - 1 # Whole
  BY DEF Whole
<1> QED
  BY <1>1 DEF Leads, Root, Item, Extended, ToItem, Field, ToField

LEMMA AddRoot ==
  ASSUME NEW s, Filled(s), NEW x, NEW j
  PROVE  Apply(s, Change("add", Root(x), Unset, j)) = SetRoot(s, x, j)
<1>1. Insert(s, Root(x), j) = SetRoot(s, x, j)
  <2> DEFINE p == Root(x)
  <2>1. p.root = x /\ p.index = Whole /\ p.field = FALSE
    BY RootIs
  <2> HIDE DEF p
  <2>2. Insert(s, p, j) = Put(s, p, j)
    BY <2>1 DEF Insert
  <2>3. Put(s, p, j) = PutNode(s, p, j)
    BY <2>1 DEF Put
  <2>4. PutNode(s, p, j) = SetRoot(s, x, j)
    BY <2>1 DEF PutNode
  <2> QED
    BY <2>2, <2>3, <2>4 DEF p
<1> QED
  BY <1>1, ApplyAdd

LEMMA PutRootField ==
  ASSUME NEW s, NEW x, NEW n
  PROVE  Put(s, Field(Root(x)), Num(n)) = SetRoot(s, x, <<"object", n>>)
<1> DEFINE p == Field(Root(x))
<1>1. p.root = x /\ p.index = Whole /\ p.field
  BY RootIs DEF LeadsToField
<1>2. Num(n)[2] = n
  BY DEF Num
<1> HIDE DEF p
<1>3. Put(s, p, Num(n)) = PutNode(s, p, <<"object", n>>)
  BY <1>1, <1>2 DEF Put
<1>4. PutNode(s, p, <<"object", n>>) = SetRoot(s, x, <<"object", n>>)
  BY <1>1 DEF PutNode
<1> QED
  BY <1>3, <1>4 DEF p

LEMMA AddRootField ==
  ASSUME NEW s, Filled(s), NEW x, NEW n
  PROVE  Apply(s, Change("add", Field(Root(x)), Unset, Num(n))) = SetRoot(s, x, <<"object", n>>)
<1>1. Insert(s, Field(Root(x)), Num(n)) = Put(s, Field(Root(x)), Num(n))
  BY RootIs DEF Insert, LeadsToField
<1> QED
  BY <1>1, PutRootField, ApplyAdd

LEMMA RemoveRoot ==
  ASSUME NEW s, Filled(s), NEW x \in DOMAIN s
  PROVE  Apply(s, Change("remove", Root(x), s[x], Unset)) = Without(s, x)
<1>1. Exists(s, Root(x)) /\ At(s, Root(x)) = s[x]
  BY RootIs DEF Exists, At, Node
<1>2. Drop(s, Root(x)) = Without(s, x)
  BY RootIs DEF Drop, Without
<1> QED
  BY <1>1, <1>2, ApplyRemove

LEMMA RootFieldAt ==
  ASSUME NEW s, NEW x \in DOMAIN s, NEW n, s[x] = <<"object", n>>
  PROVE  Exists(s, Field(Root(x))) /\ At(s, Field(Root(x))) = Num(n)
<1> DEFINE p == Field(Root(x))
<1>1. p.root = x /\ p.index = Whole /\ p.field
  BY RootIs DEF LeadsToField
<1>2. s[x][2] = n
  OBVIOUS
<1> HIDE DEF p
<1>3. Exists(s, p)
  BY <1>1 DEF Exists
<1>4. Node(s, p) = s[x]
  BY <1>1 DEF Node
<1>5. At(s, p) = Num(n)
  BY <1>1, <1>2, <1>4 DEF At
<1> QED
  BY <1>3, <1>5 DEF p

LEMMA RemoveRootField ==
  ASSUME NEW s, Filled(s), NEW x \in DOMAIN s, NEW n, s[x] = <<"object", n>>
  PROVE  Apply(s, Change("remove", Field(Root(x)), Num(n), Unset)) = SetRoot(s, x, <<"object", NoField>>)
<1>1. Drop(s, Field(Root(x))) = SetRoot(s, x, <<"object", NoField>>)
  BY RootIs DEF Drop, PutNode, LeadsToField
<1> QED
  BY <1>1, RootFieldAt, ApplyRemove

LEMMA ReplaceRoot ==
  ASSUME NEW s, Filled(s), NEW x \in DOMAIN s, NEW j
  PROVE  Apply(s, Change("replace", Root(x), s[x], j)) = SetRoot(s, x, j)
<1>1. Exists(s, Root(x)) /\ At(s, Root(x)) = s[x]
  BY RootIs DEF Exists, At, Node
<1>2. Put(s, Root(x), j) = SetRoot(s, x, j)
  BY RootIs DEF Put, PutNode
<1> QED
  BY <1>1, <1>2, ApplyReplace

LEMMA ReplaceRootField ==
  ASSUME NEW s, Filled(s), NEW x \in DOMAIN s, NEW m, s[x] = <<"object", m>>, NEW n
  PROVE  Apply(s, Change("replace", Field(Root(x)), Num(m), Num(n))) = SetRoot(s, x, <<"object", n>>)
<1> QED
  BY PutRootField, RootFieldAt, ApplyReplace

\* An object comes, and goes.
LEMMA AddRootObject ==
  ASSUME NEW s, Filled(s), NEW x, NEW n
  PROVE  Replay(s, AddObject(Root(x), <<"object", n>>)) = SetRoot(s, x, <<"object", n>>)
<1> DEFINE a == <<"object", NoField>>
           c == Change("add", Root(x), Unset, a)
           d == Change("add", Field(Root(x)), Unset, Num(n))
           t == SetRoot(s, x, a)
<1>1. AddObject(Root(x), <<"object", n>>) = <<c, d>>
  BY DEF AddObject
<1>2. a[1] # "unset"
  OBVIOUS
<1> HIDE DEF a
<1>3. Apply(s, c) = t /\ Filled(t)
  BY <1>2, AddRoot, SetRootIs
<1>4. Apply(t, d) = SetRoot(s, x, <<"object", n>>)
  <2>1. Apply(t, d) = SetRoot(t, x, <<"object", n>>)
    <3> HIDE DEF t
    <3> QED
      BY <1>3, AddRootField
  <2> QED
    BY <2>1, SetTwice
<1> HIDE DEF c, d, t
<1> QED
  BY <1>1, <1>3, <1>4, ReplayTwo

LEMMA RemoveRootObject ==
  ASSUME NEW s, Filled(s), NEW x \in DOMAIN s, NEW n, s[x] = <<"object", n>>
  PROVE  Replay(s, RemoveObject(Root(x), <<"object", n>>)) = Without(s, x)
<1> DEFINE a == <<"object", NoField>>
           c == Change("remove", Field(Root(x)), Num(n), Unset)
           d == Change("remove", Root(x), a, Unset)
           t == SetRoot(s, x, a)
<1>1. RemoveObject(Root(x), <<"object", n>>) = <<c, d>>
  BY DEF RemoveObject
<1>2. Apply(s, c) = t
  BY RemoveRootField
<1>3. a[1] # "unset"
  OBVIOUS
<1> HIDE DEF a
<1>4. Filled(t) /\ x \in DOMAIN t /\ t[x] = a
  BY <1>3, SetRootIs
<1>5. Apply(t, d) = Without(s, x)
  <2>1. Apply(t, d) = Without(t, x)
    <3> HIDE DEF t
    <3> QED
      BY <1>4, RemoveRoot
  <2> QED
    BY <2>1, SetTwice
<1> HIDE DEF c, d, t
<1> QED
  BY <1>1, <1>2, <1>5, ReplayTwo

-----------------------------------------------------------------------------
(* The items of an array.                                                    *)

Arr(s, x, b) == SetRoot(s, x, <<"array", b>>)
Prefix(a, k) == [i \in 1 .. k |-> a[i]]

LEMMA ArrIs ==
  ASSUME NEW s, Filled(s), NEW x, NEW b, IsFcn(b)
  PROVE  HasArray(Arr(s, x, b), x, b) /\ Filled(Arr(s, x, b))
<1>1. <<"array", b>>[1] # "unset"
  OBVIOUS
<1> QED
  BY <1>1, SetRootIs DEF Arr, HasArray, Filled

LEMMA ArrSet ==
  ASSUME NEW s, NEW x, NEW b, NEW i, NEW j
  PROVE  ItemSet(Arr(s, x, b), x, b, i, j) = Arr(s, x, [b EXCEPT ![i] = j])
BY DEF ItemSet, Arr, SetRoot

\* b has k items.
IsList(b, k) == IsSeq(b) /\ Len(b) = k

LEMMA PrefixIs ==
  ASSUME NEW a, NEW k \in Nat
  PROVE  IsSeq(Prefix(a, k)) /\ Len(Prefix(a, k)) = k /\ IsFcn(Prefix(a, k))
         /\ DOMAIN Prefix(a, k) = 1 .. k
<1>1. DOMAIN Prefix(a, k) = 1 .. k /\ IsFcn(Prefix(a, k))
  BY DEF Prefix, IsFcn
<1> QED
  BY <1>1, LengthIs

LEMMA WholePrefix ==
  ASSUME NEW a, IsSeq(a)
  PROVE  Prefix(a, Len(a)) = a
BY DEF IsSeq, IsFcn, Prefix

LEMMA InsertLast ==
  ASSUME NEW b, IsSeq(b), NEW k \in Nat, Len(b) = k, NEW e
  PROVE  InsertAt(b, k + 1, e) = [i \in 1 .. k + 1 |-> IF i = k + 1 THEN e ELSE b[i]]
<1>1. DOMAIN b = 1 .. k /\ IsFcn(b)
  BY DEF IsSeq
<1> DEFINE S == {b[i] : i \in 1 .. k} \cup {e}
           t == SubSeq(b, 1, k) \o <<e>>
           u == InsertAt(b, k + 1, e)
<1>2. b \in [1 .. k -> S] /\ e \in S
  BY <1>1 DEF IsFcn
<1> HIDE DEF S
<1>3. b \in Seq(S)
  BY <1>2
<1>4. SubSeq(b, 1, k) = b
  BY <1>2, <1>3
<1>5. SubSeq(b, k + 1, k) = << >>
  BY <1>3
<1>6. u = (b \o <<e>>) \o << >>
  <2>1. (k + 1) - 1 = k
    OBVIOUS
  <2> QED
    BY <1>4, <1>5, <2>1 DEF InsertAt
<1>7. (b \o <<e>>) \in Seq(S) /\ (b \o <<e>>) \o << >> = b \o <<e>>
  BY <1>2, <1>3
<1> DEFINE w == b \o <<e>>
<1>8. w \in Seq(S) /\ Len(w) = k + 1 /\ w[k + 1] = e /\ \A i \in 1 .. k : w[i] = b[i]
  BY <1>2, <1>3
<1> HIDE DEF w
<1>9. w = [i \in 1 .. k + 1 |-> w[i]]
  BY <1>8
<1>10. \A i \in 1 .. k + 1 : w[i] = IF i = k + 1 THEN e ELSE b[i]
  BY <1>8
<1> QED
  BY <1>6, <1>7, <1>9, <1>10 DEF w

LEMMA RemoveLast ==
  ASSUME NEW b, IsSeq(b), NEW k \in Nat \ {0}, Len(b) = k
  PROVE  RemoveAt(b, k) = Prefix(b, k - 1)
<1>1. DOMAIN b = 1 .. k /\ IsFcn(b)
  BY DEF IsSeq
<1> DEFINE S == {b[i] : i \in 1 .. k}
           w == SubSeq(b, 1, k - 1)
<1>2. b \in [1 .. k -> S]
  BY <1>1 DEF IsFcn
<1> HIDE DEF S
<1>3. b \in Seq(S)
  BY <1>2
<1>4. SubSeq(b, k + 1, k) = << >>
  BY <1>3
<1>5. w \in Seq(S) /\ Len(w) = k - 1 /\ \A i \in 1 .. k - 1 : w[i] = b[i]
  BY <1>3
<1>6. RemoveAt(b, k) = w \o << >>
  BY <1>4 DEF RemoveAt
<1> HIDE DEF w
<1>7. w \o << >> = w
  BY <1>5
<1>8. w = [i \in 1 .. k - 1 |-> w[i]]
  BY <1>5
<1> QED
  BY <1>5, <1>6, <1>7, <1>8 DEF Prefix

LEMMA ArrUpdate ==
  ASSUME NEW t, NEW x, NEW b, HasArray(t, x, b), NEW c
  PROVE  [t EXCEPT ![x] = [t[x] EXCEPT ![2] = c]] = SetRoot(t, x, <<"array", c>>)
<1>1. t[x] = <<"array", b>> /\ x \in DOMAIN t /\ IsFcn(t)
  BY DEF HasArray
<1>2. [t[x] EXCEPT ![2] = c] = <<"array", c>>
  BY <1>1, PairSet
<1>3. [t EXCEPT ![x] = <<"array", c>>] = SetRoot(t, x, <<"array", c>>)
  BY <1>1 DEF SetRoot, IsFcn
<1> QED
  BY <1>2, <1>3

LEMMA InsertItem ==
  ASSUME NEW t, NEW x, NEW b, NEW i, NEW e, NEW p, HasArray(t, x, b) /\ Leads(p, x, i, FALSE)
  PROVE  Insert(t, p, e) = SetRoot(t, x, <<"array", InsertAt(b, i, e)>>)
<1>1. p.root = x /\ p.index # Whole /\ p.index + 1 = i /\ p.field = FALSE
  BY DEF Whole, Leads
<1>2. Insert(t, p, e) = [t EXCEPT ![x][2] = InsertAt(@, i, e)]
  BY <1>1 DEF Insert
<1>3. [t EXCEPT ![x][2] = InsertAt(@, i, e)] = [t EXCEPT ![x] = [t[x] EXCEPT ![2] = InsertAt(t[x][2], i, e)]]
  OBVIOUS
<1>4. t[x][2] = b
  BY DEF HasArray
<1> QED
  BY <1>2, <1>3, <1>4, ArrUpdate

LEMMA DropItem ==
  ASSUME NEW t, NEW x, NEW b, HasArray(t, x, b), NEW i,
         NEW p, Leads(p, x, i, FALSE)
  PROVE  Drop(t, p) = SetRoot(t, x, <<"array", RemoveAt(b, i)>>)
<1>1. p.root = x /\ p.index # Whole /\ p.index + 1 = i /\ p.field = FALSE
  BY DEF Whole, Leads
<1>2. Drop(t, p) = [t EXCEPT ![x][2] = RemoveAt(@, i)]
  BY <1>1 DEF Drop
<1>3. [t EXCEPT ![x][2] = RemoveAt(@, i)] = [t EXCEPT ![x] = [t[x] EXCEPT ![2] = RemoveAt(t[x][2], i)]]
  OBVIOUS
<1>4. t[x][2] = b
  BY DEF HasArray
<1> QED
  BY <1>2, <1>3, <1>4, ArrUpdate

\* What a reader finds at an item of an array, or at its field.
LEMMA ItemAt ==
  ASSUME NEW t, NEW x, NEW b, NEW i, NEW p,
         HasArray(t, x, b) /\ IsSeq(b) /\ i \in 1 .. Len(b) /\ Leads(p, x, i, FALSE)
  PROVE  Exists(t, p) /\ At(t, p) = b[i]
<1>1. p.root = x /\ p.index # Whole /\ p.index + 1 = i /\ p.field = FALSE /\ p.index = i - 1
  BY DEF Whole, Leads
<1>2. x \in DOMAIN t /\ t[x][1] = "array" /\ t[x][2] = b
  BY DEF HasArray
<1>3. PICK n \in Nat : n = Len(b)
  BY DEF IsSeq
<1>4. i - 1 < n
  BY <1>3
<1>5. Exists(t, p)
  BY <1>1, <1>2, <1>3, <1>4 DEF Exists
<1>6. Node(t, p) = b[i]
  BY <1>1, <1>2 DEF Node
<1> QED
  BY <1>1, <1>5, <1>6 DEF At

LEMMA ItemFieldAt ==
  ASSUME NEW t, NEW x, NEW b, NEW i, NEW n, NEW p,
         HasArray(t, x, b) /\ IsSeq(b) /\ i \in 1 .. Len(b) /\ Leads(p, x, i, TRUE),
         b[i] = <<"object", n>>
  PROVE  Exists(t, p) /\ At(t, p) = Num(n)
<1>1. p.root = x /\ p.index # Whole /\ p.index + 1 = i /\ p.field = TRUE /\ p.index = i - 1
  BY DEF Whole, Leads
<1>2. x \in DOMAIN t /\ t[x][1] = "array" /\ t[x][2] = b
  BY DEF HasArray
<1>3. PICK m \in Nat : m = Len(b)
  BY DEF IsSeq
<1>4. i - 1 < m
  BY <1>3
<1>5. Exists(t, p)
  BY <1>1, <1>2, <1>3, <1>4 DEF Exists
<1>6. Node(t, p) = b[i] /\ b[i][2] = n
  BY <1>1, <1>2 DEF Node
<1> QED
  BY <1>1, <1>5, <1>6 DEF At

LEMMA PutItemField ==
  ASSUME NEW t, NEW x, NEW b, HasArray(t, x, b), NEW i, NEW n,
         NEW p, Leads(p, x, i, TRUE)
  PROVE  Put(t, p, Num(n)) = ItemSet(t, x, b, i, <<"object", n>>)
<1>1. Num(n)[2] = n /\ p.field = TRUE
  BY DEF Num, Leads
<1>2. Put(t, p, Num(n)) = PutNode(t, p, <<"object", n>>)
  BY <1>1 DEF Put
<1> QED
  BY <1>2, PutItemIs

\* One item more.
LEMMA AddItem ==
  ASSUME NEW s, Filled(s), NEW x, NEW b, IsSeq(b), NEW k \in Nat, Len(b) = k, NEW n
  PROVE  Replay(Arr(s, x, b), AddObject(Item(Root(x), k + 1), <<"object", n>>)) =
            Arr(s, x, [i \in 1 .. k + 1 |-> IF i = k + 1 THEN <<"object", n>> ELSE b[i]])
<1> DEFINE p == Item(Root(x), k + 1)
           o == <<"object", NoField>>
           e == <<"object", n>>
           c == Change("add", p, Unset, o)
           d == Change("add", Field(p), Unset, Num(n))
           t == Arr(s, x, b)
           B(j) == [i \in 1 .. k + 1 |-> IF i = k + 1 THEN j ELSE b[i]]
           u == Arr(s, x, B(o))
<1>1. AddObject(p, e) = <<c, d>>
  BY DEF AddObject
<1>2. IsFcn(b) /\ \A j : IsFcn(B(j))
  BY DEF IsSeq, IsFcn
<1>3. HasArray(t, x, b) /\ Filled(t) /\ HasArray(u, x, B(o)) /\ Filled(u)
  <2> HIDE DEF B, o
  <2> QED
    BY <1>2, ArrIs
<1>4. Leads(p, x, k + 1, FALSE) /\ Leads(Field(p), x, k + 1, TRUE)
  <2>1. k + 1 \in Nat \ {0}
    OBVIOUS
  <2> QED
    BY <2>1, ItemIs
<1>5. Apply(t, c) = u
  <2> HIDE DEF p, o, t
  <2>1. Apply(t, c) = Insert(t, p, o)
    <3>1. Filled(t)
      BY <1>3
    <3> QED
      BY <3>1, ApplyAdd
  <2>2. Insert(t, p, o) = SetRoot(t, x, <<"array", InsertAt(b, k + 1, o)>>)
    <3>1. HasArray(t, x, b)
      BY <1>3
    <3>2. Leads(p, x, k + 1, FALSE)
      BY <1>4
    <3> QED
      BY <3>1, <3>2, InsertItem
  <2>3. InsertAt(b, k + 1, o) = B(o)
    BY InsertLast
  <2> HIDE DEF B
  <2>4. SetRoot(t, x, <<"array", B(o)>>) = u
    BY SetTwice DEF t, Arr
  <2> QED
    BY <2>1, <2>2, <2>3, <2>4
<1>6. Apply(u, d) = Arr(s, x, B(e))
  <2> DEFINE q == Field(p)
  <2> HIDE DEF p, o, u, e, q
  <2>1. Apply(u, d) = Insert(u, q, Num(n))
    BY <1>3, ApplyAdd DEF q
  <2>2. Insert(u, q, Num(n)) = Put(u, q, Num(n))
    BY <1>4 DEF Insert, Leads, q
  <2>3. Put(u, q, Num(n)) = ItemSet(u, x, B(o), k + 1, e)
    <3> HIDE DEF B
    <3> QED
      BY <1>3, <1>4, PutItemField DEF q, e
  <2>4. ItemSet(u, x, B(o), k + 1, e) = Arr(s, x, [B(o) EXCEPT ![k + 1] = e])
    <3> HIDE DEF B
    <3> QED
      BY <1>2, ArrSet DEF u
  <2>5. [B(o) EXCEPT ![k + 1] = e] = B(e)
    OBVIOUS
  <2> QED
    BY <2>1, <2>2, <2>3, <2>4, <2>5
<1> HIDE DEF c, d, t, u
<1> QED
  BY <1>1, <1>5, <1>6, ReplayTwo DEF t

LEMMA AddItemPrefix ==
  ASSUME NEW s, Filled(s), NEW x, NEW a, NEW k \in Nat, NEW n, a[k + 1] = <<"object", n>>
  PROVE  Replay(Arr(s, x, Prefix(a, k)), AddObject(Item(Root(x), k + 1), a[k + 1])) =
            Arr(s, x, Prefix(a, k + 1))
<1> DEFINE b == Prefix(a, k)
           e == <<"object", n>>
<1>1. IsSeq(b) /\ Len(b) = k
  BY PrefixIs
<1>2. [i \in 1 .. k + 1 |-> IF i = k + 1 THEN e ELSE b[i]] = Prefix(a, k + 1)
  <2>1. \A i \in 1 .. k + 1 : i = k + 1 \/ i \in 1 .. k
    OBVIOUS
  <2>2. \A i \in 1 .. k : b[i] = a[i]
    BY DEF Prefix
  <2> HIDE DEF b, e
  <2>3. \A i \in 1 .. k + 1 : (IF i = k + 1 THEN e ELSE b[i]) = a[i]
    BY <2>1, <2>2 DEF e
  <2> QED
    BY <2>3 DEF Prefix
<1> HIDE DEF b
<1>3. Replay(Arr(s, x, b), AddObject(Item(Root(x), k + 1), e)) =
         Arr(s, x, [i \in 1 .. k + 1 |-> IF i = k + 1 THEN e ELSE b[i]])
  BY <1>1, AddItem
<1> QED
  BY <1>2, <1>3 DEF b

AreObjects(a, m, n) == \A i \in m .. n : \E k \in Ints : a[i] = <<"object", k>>

LEMMA AddsAllItems ==
  ASSUME NEW s, Filled(s), NEW x, NEW a, NEW N \in Nat, Len(a) = N, NEW m \in 0 .. N,
         AreObjects(a, m + 1, N)
  PROVE  IsSeq(AddItems(Root(x), a, m))
         /\ Replay(Arr(s, x, Prefix(a, m)), AddItems(Root(x), a, m)) = Arr(s, x, Prefix(a, N))
<1> DEFINE M == N - m
           seqs == [i \in 1 .. M |-> AddObject(Item(Root(x), m + i), a[m + i])]
           after == [i \in 0 .. M |-> Arr(s, x, Prefix(a, m + i))]
<1>1. M \in Nat /\ IsFcn(seqs) /\ DOMAIN seqs = 1 .. M
  BY DEF IsFcn
<1>2. AddItems(Root(x), a, m) = FlattenSeq(seqs)
  BY DEF AddItems
<1>3. \A i \in 1 .. M : seqs[i] = AddObject(Item(Root(x), m + i), a[m + i])
  OBVIOUS
<1>4. \A i \in 0 .. M : after[i] = Arr(s, x, Prefix(a, m + i))
  OBVIOUS
<1>5. m + M = N /\ m + 0 = m /\ 0 \in 0 .. M /\ M \in 0 .. M
  OBVIOUS
<1> HIDE DEF seqs, after, M
<1>6. Len(seqs) = M /\ IsSeq(seqs)
  BY <1>1, LengthIs
<1>7. ASSUME NEW i \in 1 .. M
      PROVE  IsSeq(seqs[i]) /\ Replay(after[i - 1], seqs[i]) = after[i]
  <2> DEFINE k == m + (i - 1)
  <2>1. k \in Nat /\ k + 1 = m + i /\ m + i \in m + 1 .. N /\ i - 1 \in 0 .. M /\ i \in 0 .. M
    BY <1>1, <1>5
  <2>2. PICK n \in Ints : a[m + i] = <<"object", n>>
    BY <2>1 DEF AreObjects
  <2>3. seqs[i] = AddObject(Item(Root(x), m + i), a[m + i])
    BY <1>3
  <2>4. after[i - 1] = Arr(s, x, Prefix(a, k)) /\ after[i] = Arr(s, x, Prefix(a, m + i))
    BY <1>4, <2>1
  <2>5. IsSeq(seqs[i])
    BY <2>3, TwoIs DEF AddObject
  <2> HIDE DEF k
  <2>6. Replay(Arr(s, x, Prefix(a, k)), AddObject(Item(Root(x), k + 1), a[k + 1])) =
            Arr(s, x, Prefix(a, k + 1))
    BY <2>1, <2>2, AddItemPrefix
  <2> QED
    BY <2>1, <2>3, <2>4, <2>5, <2>6
<1>8. IsSeq(FlattenSeq(seqs)) /\ Replay(after[0], FlattenSeq(seqs)) = after[M]
  BY <1>1, <1>6, <1>7, ReplayFlat
<1>9. after[0] = Arr(s, x, Prefix(a, m)) /\ after[M] = Arr(s, x, Prefix(a, N))
  BY <1>4, <1>5
<1> QED
  BY <1>2, <1>8, <1>9

\* One item less.
LEMMA RemoveItem ==
  ASSUME NEW s, Filled(s), NEW x, NEW b, NEW k \in Nat \ {0}, IsList(b, k),
         NEW n, b[k] = <<"object", n>>
  PROVE  Replay(Arr(s, x, b), RemoveObject(Item(Root(x), k), <<"object", n>>)) =
            Arr(s, x, Prefix(b, k - 1))
<1> DEFINE p == Item(Root(x), k)
           q == Field(p)
           o == <<"object", NoField>>
           c == Change("remove", q, Num(n), Unset)
           d == Change("remove", p, o, Unset)
           t == Arr(s, x, b)
           B == [b EXCEPT ![k] = o]
           u == Arr(s, x, B)
<1>1. RemoveObject(p, <<"object", n>>) = <<c, d>>
  BY DEF RemoveObject
<1>2. DOMAIN b = 1 .. k /\ IsFcn(b) /\ k \in 1 .. k
  BY DEF IsSeq, IsList
<1>3. DOMAIN B = 1 .. k /\ IsFcn(B) /\ B[k] = o /\ \A i \in 1 .. k : i # k => B[i] = b[i]
  BY <1>2 DEF IsFcn
<1> HIDE DEF B, o
<1>4. IsSeq(B) /\ Len(B) = k
  BY <1>3, LengthIs
<1>5. HasArray(t, x, b) /\ Filled(t)
  BY <1>2, ArrIs
<1>6. HasArray(u, x, B) /\ Filled(u)
  BY <1>3, ArrIs
<1>7. Leads(p, x, k, FALSE) /\ Leads(q, x, k, TRUE)
  BY ItemIs
<1> HIDE DEF p, q
<1>8. Apply(t, c) = u
  <2> HIDE DEF t
  <2>1. Exists(t, q) /\ At(t, q) = Num(n)
    <3>1. IsSeq(b) /\ k \in 1 .. Len(b)
      BY <1>2 DEF IsList
    <3> QED
      BY <1>5, <1>7, <3>1, ItemFieldAt
  <2>2. Apply(t, c) = Drop(t, q)
    BY <1>5, <2>1, ApplyRemove
  <2>3. Drop(t, q) = PutNode(t, q, o)
    BY <1>7 DEF Drop, Leads, o
  <2>4. PutNode(t, q, o) = ItemSet(t, x, b, k, o)
    BY <1>5, <1>7, PutItemIs
  <2>5. ItemSet(t, x, b, k, o) = Arr(s, x, B)
    <3>1. ItemSet(Arr(s, x, b), x, b, k, o) = Arr(s, x, [b EXCEPT ![k] = o])
      BY ArrSet
    <3> QED
      BY <3>1 DEF t, B
  <2> QED
    BY <2>2, <2>3, <2>4, <2>5
<1>9. Apply(u, d) = Arr(s, x, Prefix(b, k - 1))
  <2> HIDE DEF u
  <2>1. Exists(u, p) /\ At(u, p) = o
    <3>1. k \in 1 .. Len(B) /\ HasArray(u, x, B)
      BY <1>2, <1>4, <1>6
    <3>2. Exists(u, p) /\ At(u, p) = B[k]
      BY <1>4, <1>7, <3>1, ItemAt
    <3> QED
      BY <1>3, <3>2
  <2>2. Apply(u, d) = Drop(u, p)
    BY <1>6, <2>1, ApplyRemove
  <2>3. Drop(u, p) = SetRoot(u, x, <<"array", RemoveAt(B, k)>>)
    BY <1>6, <1>7, DropItem
  <2>4. RemoveAt(B, k) = Prefix(B, k - 1)
    BY <1>4, RemoveLast
  <2>5. Prefix(B, k - 1) = Prefix(b, k - 1)
    BY <1>3 DEF Prefix
  <2>6. SetRoot(u, x, <<"array", Prefix(b, k - 1)>>) = Arr(s, x, Prefix(b, k - 1))
    BY SetTwice DEF u, Arr
  <2> QED
    BY <2>2, <2>3, <2>4, <2>5, <2>6
<1> HIDE DEF c, d, t, u
<1> QED
  BY <1>1, <1>8, <1>9, ReplayTwo DEF t, p

\* The reader's array c may differ from a in the first m items.
SameAfter(a, c, m, n) == \A i \in m + 1 .. n : c[i] = a[i]

LEMMA RemovesAllItems ==
  ASSUME NEW s, Filled(s), NEW x, NEW a, NEW N \in Nat, Len(a) = N, NEW m \in 0 .. N,
         AreObjects(a, m + 1, N), NEW c, IsList(c, N), SameAfter(a, c, m, N)
  PROVE  IsSeq(RemoveItems(Root(x), a, m))
         /\ Replay(Arr(s, x, c), RemoveItems(Root(x), a, m)) = Arr(s, x, Prefix(c, m))
<1> DEFINE M == N - m
           seqs == [i \in 1 .. M |-> RemoveObject(Item(Root(x), N - i + 1), a[N - i + 1])]
           after == [i \in 0 .. M |-> Arr(s, x, Prefix(c, N - i))]
<1>1. M \in Nat /\ IsFcn(seqs) /\ DOMAIN seqs = 1 .. M
  BY DEF IsFcn
<1>2. RemoveItems(Root(x), a, m) = FlattenSeq(seqs)
  BY DEF RemoveItems
<1>3. \A i \in 1 .. M : seqs[i] = RemoveObject(Item(Root(x), N - i + 1), a[N - i + 1])
  OBVIOUS
<1>4. \A i \in 0 .. M : after[i] = Arr(s, x, Prefix(c, N - i))
  OBVIOUS
<1>5. N - M = m /\ N - 0 = N /\ 0 \in 0 .. M /\ M \in 0 .. M
  OBVIOUS
<1> HIDE DEF seqs, after
<1>6. Len(seqs) = M /\ IsSeq(seqs)
  BY <1>1, LengthIs
<1>7. ASSUME NEW i \in 1 .. M
      PROVE  IsSeq(seqs[i]) /\ Replay(after[i - 1], seqs[i]) = after[i]
  <2>1. PICK k \in m + 1 .. N : k = N - i + 1
    <3>1. N - i + 1 \in m + 1 .. N
      OBVIOUS
    <3> QED
      BY <3>1
  <2>2. /\ k \in Nat \ {0} /\ k \in 1 .. k /\ N - (i - 1) = k /\ N - i = k - 1
        /\ i - 1 \in 0 .. M /\ i \in 0 .. M
    BY <2>1
  <2>3. PICK n \in Ints : a[k] = <<"object", n>>
    BY DEF AreObjects
  <2>4. seqs[i] = RemoveObject(Item(Root(x), k), <<"object", n>>)
    BY <1>3, <2>1, <2>3
  <2>5. after[i - 1] = Arr(s, x, Prefix(c, k)) /\ after[i] = Arr(s, x, Prefix(c, k - 1))
    BY <1>4, <2>2
  <2>6. IsSeq(seqs[i])
    BY <2>4, TwoIs DEF RemoveObject
  <2> DEFINE b == Prefix(c, k)
  <2>7. IsList(b, k)
    BY <2>2, PrefixIs DEF IsList
  <2>8. b[k] = <<"object", n>>
    BY <2>2, <2>3 DEF Prefix, SameAfter
  <2>9. Prefix(b, k - 1) = Prefix(c, k - 1)
    <3>1. \A l \in 1 .. k - 1 : l \in 1 .. k
      OBVIOUS
    <3> QED
      BY <3>1 DEF Prefix
  <2> HIDE DEF b
  <2>10. Replay(Arr(s, x, b), RemoveObject(Item(Root(x), k), <<"object", n>>)) = Arr(s, x, Prefix(b, k - 1))
    BY <2>2, <2>7, <2>8, RemoveItem
  <2> QED
    BY <2>4, <2>5, <2>6, <2>9, <2>10 DEF b
<1> HIDE DEF M
<1>8. IsSeq(FlattenSeq(seqs)) /\ Replay(after[0], FlattenSeq(seqs)) = after[M]
  BY <1>1, <1>6, <1>7, ReplayFlat
<1>9. after[0] = Arr(s, x, Prefix(c, N)) /\ after[M] = Arr(s, x, Prefix(c, m))
  BY <1>4, <1>5
<1>10. Prefix(c, N) = c
  BY WholePrefix DEF IsList
<1> QED
  BY <1>2, <1>8, <1>9, <1>10

\* The field of an item changes, or does not.
FieldReplays(s, x, b, i, m, n) ==
    LET q == ReplaceInt(Field(Item(Root(x), i)), m, n)
    IN  IsSeq(q) /\ Replay(Arr(s, x, b), q) = Arr(s, x, [b EXCEPT ![i] = <<"object", n>>])

LEMMA ReplaceItemField ==
  ASSUME NEW s, Filled(s), NEW x, NEW b, NEW k \in Nat, IsList(b, k), NEW i \in 1 .. k,
         NEW m, b[i] = <<"object", m>>, NEW n
  PROVE  FieldReplays(s, x, b, i, m, n)
<1> DEFINE p == Field(Item(Root(x), i))
           t == Arr(s, x, b)
           c == Change("replace", p, Num(m), Num(n))
           q == ReplaceInt(p, m, n)
<1>1. IsSeq(b) /\ i \in 1 .. Len(b) /\ IsFcn(b)
  BY DEF IsList, IsSeq
<1>2. HasArray(t, x, b) /\ Filled(t)
  BY <1>1, ArrIs
<1>3. Leads(p, x, i, TRUE)
  <2>1. i \in Nat \ {0}
    OBVIOUS
  <2> QED
    BY <2>1, ItemIs
<1> HIDE DEF p
<1>4. CASE m = n
  <2>1. q = << >>
    BY <1>4 DEF ReplaceInt
  <2>2. IsSeq(<< >>) /\ Len(<< >>) = 0
    <3>1. DOMAIN << >> = 1 .. 0 /\ IsFcn(<< >>)
      BY DEF IsFcn
    <3> QED
      BY <3>1, LengthIs
  <2>3. Replay(t, << >>) = t
    BY <2>2, ReplayNone
  <2>4. [b EXCEPT ![i] = <<"object", n>>] = b
    BY <1>1, <1>4 DEF IsFcn
  <2> HIDE DEF q, t
  <2> QED
    BY <2>1, <2>2, <2>3, <2>4 DEF q, p, t, FieldReplays
<1>5. CASE m # n
  <2>1. q = << c >>
    BY <1>5 DEF ReplaceInt
  <2>2. IsSeq(<< c >>) /\ Replay(t, << c >>) = Apply(t, c)
    BY OneIs, ReplayOne
  <2>3. Apply(t, c) = Put(t, p, Num(n))
    <3> HIDE DEF t
    <3>1. Exists(t, p) /\ At(t, p) = Num(m)
      BY <1>1, <1>2, <1>3, ItemFieldAt
    <3> QED
      BY <1>2, <3>1, ApplyReplace
  <2>4. Put(t, p, Num(n)) = ItemSet(t, x, b, i, <<"object", n>>)
    <3> HIDE DEF t
    <3> QED
      BY <1>2, <1>3, PutItemField
  <2>5. ItemSet(t, x, b, i, <<"object", n>>) = Arr(s, x, [b EXCEPT ![i] = <<"object", n>>])
    BY ArrSet
  <2> HIDE DEF q, t, c
  <2> QED
    BY <2>1, <2>2, <2>3, <2>4, <2>5 DEF q, p, t, FieldReplays
<1> QED
  BY <1>4, <1>5

\* The first k items of b, and then those of a, which has n.
Mixed(a, b, k, n) == [i \in 1 .. n |-> IF i <= k THEN b[i] ELSE a[i]]

LEMMA MixedIs ==
  ASSUME NEW a, NEW b, NEW k \in Nat, NEW n \in Nat
  PROVE  IsList(Mixed(a, b, k, n), n)
<1>1. DOMAIN Mixed(a, b, k, n) = 1 .. n /\ IsFcn(Mixed(a, b, k, n))
  BY DEF Mixed, IsFcn
<1>2. Len(Mixed(a, b, k, n)) = n /\ IsSeq(Mixed(a, b, k, n))
  BY <1>1, LengthIs
<1> QED
  BY <1>2 DEF IsList

LEMMA MixedItem ==
  ASSUME NEW a, NEW b, NEW k \in Nat, NEW n \in Nat, NEW i \in 1 .. n
  PROVE  Mixed(a, b, k, n)[i] = IF i <= k THEN b[i] ELSE a[i]
BY DEF Mixed

LEMMA ReplacesAllItems ==
  ASSUME NEW s, Filled(s), NEW x, NEW N \in Nat, NEW a, IsList(a, N), NEW b, NEW m \in 0 .. N,
         AreObjects(a, 1, m), AreObjects(b, 1, m)
  PROVE  IsSeq(ReplaceItems(Root(x), a, b, m))
         /\ Replay(Arr(s, x, a), ReplaceItems(Root(x), a, b, m)) = Arr(s, x, Mixed(a, b, m, N))
<1> DEFINE seqs == [i \in 1 .. m |-> ReplaceInt(Field(Item(Root(x), i)), a[i][2], b[i][2])]
           after == [i \in 0 .. m |-> Arr(s, x, Mixed(a, b, i, N))]
<1>1. m \in Nat /\ IsFcn(seqs) /\ DOMAIN seqs = 1 .. m
  BY DEF IsFcn
<1>2. ReplaceItems(Root(x), a, b, m) = FlattenSeq(seqs)
  BY DEF ReplaceItems
<1>3. \A i \in 1 .. m : seqs[i] = ReplaceInt(Field(Item(Root(x), i)), a[i][2], b[i][2])
  OBVIOUS
<1>4. \A i \in 0 .. m : after[i] = Arr(s, x, Mixed(a, b, i, N))
  OBVIOUS
<1> HIDE DEF seqs, after
<1>5. Len(seqs) = m /\ IsSeq(seqs)
  BY <1>1, LengthIs
<1>6. ASSUME NEW i \in 1 .. m
      PROVE  IsSeq(seqs[i]) /\ Replay(after[i - 1], seqs[i]) = after[i]
  <2>1. i \in 1 .. N /\ i - 1 \in 0 .. m /\ i \in 0 .. m /\ i - 1 \in Nat /\ ~ (i <= i - 1)
    BY <1>1
  <2>2. PICK u \in Ints : a[i] = <<"object", u>>
    BY DEF AreObjects
  <2>3. PICK v \in Ints : b[i] = <<"object", v>>
    BY DEF AreObjects
  <2>4. seqs[i] = ReplaceInt(Field(Item(Root(x), i)), u, v)
    <3>1. a[i][2] = u /\ b[i][2] = v
      BY <2>2, <2>3
    <3> QED
      BY <1>3, <3>1
  <2> DEFINE c == Mixed(a, b, i - 1, N)
  <2>5. IsList(c, N) /\ c[i] = <<"object", u>>
    BY <2>1, <2>2, MixedIs, MixedItem
  <2>6. [c EXCEPT ![i] = <<"object", v>>] = Mixed(a, b, i, N)
    <3> DEFINE d == [c EXCEPT ![i] = <<"object", v>>]
    <3>1. DOMAIN c = 1 .. N /\ IsFcn(c)
      BY DEF Mixed, IsFcn
    <3>2. d = [l \in 1 .. N |-> d[l]]
      BY <3>1 DEF IsFcn
    <3>3. \A l \in 1 .. N : d[l] = IF l <= i THEN b[l] ELSE a[l]
      <4>1. ASSUME NEW l \in 1 .. N
            PROVE  d[l] = IF l <= i THEN b[l] ELSE a[l]
        <5>1. CASE l = i
          BY <2>1, <2>3, <3>1, <5>1
        <5>2. CASE l # i
          <6>1. l <= i - 1 <=> l <= i
            BY <2>1, <5>2
          <6>2. d[l] = c[l]
            BY <3>1, <5>2
          <6>3. c[l] = IF l <= i - 1 THEN b[l] ELSE a[l]
            BY <2>1, MixedItem
          <6> QED
            BY <6>1, <6>2, <6>3
        <5> QED
          BY <5>1, <5>2
      <4> QED
        BY <4>1
    <3> DEFINE e == Mixed(a, b, i, N)
    <3>4. e = [l \in 1 .. N |-> e[l]]
      BY DEF Mixed
    <3>5. \A l \in 1 .. N : e[l] = IF l <= i THEN b[l] ELSE a[l]
      BY DEF Mixed
    <3> HIDE DEF d, e
    <3>6. \A l \in 1 .. N : d[l] = e[l]
      BY <3>3, <3>5
    <3>7. d = e
      BY <3>2, <3>4, <3>6
    <3> QED
      BY <3>7 DEF d, e
  <2>7. after[i - 1] = Arr(s, x, c) /\ after[i] = Arr(s, x, Mixed(a, b, i, N))
    BY <1>4, <2>1
  <2> HIDE DEF c
  <2>8. /\ IsSeq(ReplaceInt(Field(Item(Root(x), i)), u, v))
        /\ Replay(Arr(s, x, c), ReplaceInt(Field(Item(Root(x), i)), u, v)) =
              Arr(s, x, [c EXCEPT ![i] = <<"object", v>>])
    <3>1. IsList(c, N) /\ i \in 1 .. N
      BY <2>1, <2>5
    <3>2. c[i] = <<"object", u>>
      BY <2>5
    <3>3. FieldReplays(s, x, c, i, u, v)
      BY <3>1, <3>2, ReplaceItemField
    <3> QED
      BY <3>3 DEF FieldReplays
  <2> QED
    BY <2>4, <2>6, <2>7, <2>8
<1>7. IsSeq(FlattenSeq(seqs)) /\ Replay(after[0], FlattenSeq(seqs)) = after[m]
  BY <1>1, <1>5, <1>6, ReplayFlat
<1>8. Mixed(a, b, 0, N) = a
  <2>1. DOMAIN a = 1 .. N /\ IsFcn(a)
    BY DEF IsList, IsSeq
  <2>2. \A i \in 1 .. N : ~ (i <= 0)
    OBVIOUS
  <2> QED
    BY <2>1, <2>2 DEF Mixed, IsFcn
<1>9. after[0] = Arr(s, x, a) /\ after[m] = Arr(s, x, Mixed(a, b, m, N))
  BY <1>1, <1>4, <1>8
<1> QED
  BY <1>2, <1>7, <1>9

LEMMA DiffsArrays ==
  ASSUME NEW s, Filled(s), NEW x, NEW M \in Nat, NEW a, IsList(a, M), AreObjects(a, 1, M),
         NEW N \in Nat, NEW b, IsList(b, N), AreObjects(b, 1, N)
  PROVE  IsSeq(DiffArrays(Root(x), a, b))
         /\ Replay(Arr(s, x, a), DiffArrays(Root(x), a, b)) = Arr(s, x, b)
<1>1. PICK m \in Nat : /\ m = IF M < N THEN M ELSE N
                       /\ m \in 0 .. M /\ m \in 0 .. N
  OBVIOUS
<1> DEFINE P == ReplaceItems(Root(x), a, b, m)
           Q == RemoveItems(Root(x), a, m)
           R == AddItems(Root(x), b, m)
           c == Mixed(a, b, m, M)
<1>2. DiffArrays(Root(x), a, b) = (P \o Q) \o R
  <2>1. Len(a) = M /\ Len(b) = N
    BY DEF IsList
  <2> QED
    BY <1>1, <2>1 DEF DiffArrays
<1>3. /\ AreObjects(a, 1, m) /\ AreObjects(b, 1, m)
      /\ AreObjects(a, m + 1, M) /\ AreObjects(b, m + 1, N)
  BY <1>1 DEF AreObjects
<1>4. IsList(c, M) /\ SameAfter(a, c, m, M) /\ Prefix(c, m) = Prefix(b, m)
  <2>1. IsList(c, M) /\ \A i \in 1 .. M : c[i] = IF i <= m THEN b[i] ELSE a[i]
    <3>1. IsList(c, M)
      BY MixedIs
    <3>2. \A i \in 1 .. M : c[i] = IF i <= m THEN b[i] ELSE a[i]
      BY DEF Mixed
    <3> QED
      BY <3>1, <3>2
  <2> HIDE DEF c
  <2>2. SameAfter(a, c, m, M)
    <3>1. \A i \in m + 1 .. M : i \in 1 .. M /\ ~ (i <= m)
      BY <1>1
    <3> QED
      BY <2>1, <3>1 DEF SameAfter
  <2>3. Prefix(c, m) = Prefix(b, m)
    <3>1. \A i \in 1 .. m : i \in 1 .. M /\ i <= m
      BY <1>1
    <3>2. \A i \in 1 .. m : c[i] = b[i]
      BY <2>1, <3>1
    <3> QED
      BY <3>2 DEF Prefix
  <2> QED
    BY <2>1, <2>2, <2>3
<1>5. IsSeq(P) /\ Replay(Arr(s, x, a), P) = Arr(s, x, c)
  BY <1>1, <1>3, ReplacesAllItems
<1> HIDE DEF P, c
<1>6. IsSeq(Q) /\ Replay(Arr(s, x, c), Q) = Arr(s, x, Prefix(b, m))
  <2>1. Len(a) = M
    BY DEF IsList
  <2>2. IsSeq(Q) /\ Replay(Arr(s, x, c), Q) = Arr(s, x, Prefix(c, m))
    BY <1>1, <1>3, <1>4, <2>1, RemovesAllItems
  <2> QED
    BY <1>4, <2>2
<1>7. IsSeq(R) /\ Replay(Arr(s, x, Prefix(b, m)), R) = Arr(s, x, b)
  <2>1. Len(b) = N /\ IsSeq(b)
    BY DEF IsList
  <2>2. IsSeq(R) /\ Replay(Arr(s, x, Prefix(b, m)), R) = Arr(s, x, Prefix(b, N))
    BY <1>1, <1>3, <2>1, AddsAllItems
  <2> QED
    BY <2>1, <2>2, WholePrefix
<1> HIDE DEF Q, R
<1>8. IsSeq(P \o Q) /\ Replay(Arr(s, x, a), P \o Q) = Arr(s, x, Prefix(b, m))
  BY <1>5, <1>6, JoinedIs, ReplayOn
<1> DEFINE PQ == P \o Q
<1> HIDE DEF PQ
<1>9. IsSeq(PQ) /\ Replay(Arr(s, x, a), PQ) = Arr(s, x, Prefix(b, m))
  BY <1>8 DEF PQ
<1>10. IsSeq(PQ \o R) /\ Replay(Arr(s, x, a), PQ \o R) = Arr(s, x, b)
  BY <1>7, <1>9, JoinedIs, ReplayOn
<1> QED
  BY <1>2, <1>10 DEF PQ

-----------------------------------------------------------------------------
(* The difference of two values.                                             *)

IsInt(j) == \E n \in Ints : j = Num(n)
IsObject(j) == \E n \in Ints : j = <<"object", n>>
IsArray(j) ==
    /\ j = <<"array", j[2]>> /\ IsSeq(j[2])
    /\ AreObjects(j[2], 1, Len(j[2]))
IsJson(j) == IsInt(j) \/ IsObject(j) \/ IsArray(j)

LEMMA JsonKinds ==
  ASSUME NEW j, IsJson(j)
  PROVE  /\ j[1] # "unset"
         /\ IsInt(j) <=> j[1] = "int"
         /\ IsObject(j) <=> j[1] = "object"
         /\ IsArray(j) <=> j[1] = "array"
<1>1. IsInt(j) => j[1] = "int"
  BY DEF IsInt, Num
<1>2. IsObject(j) => j[1] = "object"
  BY DEF IsObject
<1>3. IsArray(j) => j[1] = "array"
  <2>1. \A a : <<"array", a>>[1] = "array"
    OBVIOUS
  <2> QED
    BY <2>1 DEF IsArray
<1> QED
  BY <1>1, <1>2, <1>3 DEF IsJson

LEMMA EmptyIs ==
  IsSeq(<< >>) /\ Len(<< >>) = 0 /\ IsList(<< >>, 0)
<1>1. DOMAIN << >> = 1 .. 0 /\ IsFcn(<< >>)
  BY DEF IsFcn
<1>2. IsSeq(<< >>) /\ Len(<< >>) = 0
  BY <1>1, LengthIs
<1> QED
  BY <1>2 DEF IsList

\* A list of changes that a reader in state s reads as the state t.
Reaches(s, c, t) == IsSeq(c) /\ Replay(s, c) = t

LEMMA ReachesOn ==
  ASSUME NEW s, NEW c, NEW t, NEW d, NEW u, Reaches(s, c, t), Reaches(t, d, u)
  PROVE  Reaches(s, c \o d, u)
BY JoinedIs, ReplayOn DEF Reaches

LEMMA AddsTree ==
  ASSUME NEW s, Filled(s), NEW x, NEW j, IsJson(j)
  PROVE  Reaches(s, AddTree(Root(x), j), SetRoot(s, x, j))
<1>1. CASE IsInt(j)
  <2>1. AddTree(Root(x), j) = << Change("add", Root(x), Unset, j) >>
    BY <1>1, JsonKinds DEF AddTree
  <2>2. Replay(s, << Change("add", Root(x), Unset, j) >>) = SetRoot(s, x, j)
    BY AddRoot, ReplayOne
  <2> QED
    BY <2>1, <2>2, OneIs DEF Reaches
<1>2. CASE IsObject(j)
  <2>1. PICK n \in Ints : j = <<"object", n>>
    BY <1>2 DEF IsObject
  <2>2. AddTree(Root(x), j) = AddObject(Root(x), j)
    BY <1>2, JsonKinds DEF AddTree
  <2>3. IsSeq(AddObject(Root(x), j))
    BY TwoIs DEF AddObject
  <2>4. Replay(s, AddObject(Root(x), j)) = SetRoot(s, x, j)
    BY <2>1, AddRootObject
  <2> QED
    BY <2>2, <2>3, <2>4 DEF Reaches
<1>3. CASE IsArray(j)
  <2> DEFINE a == j[2]
             c == << Change("add", Root(x), Unset, <<"array", <<>>>>) >>
             d == AddItems(Root(x), a, 0)
  <2>1. j = <<"array", a>> /\ IsSeq(a) /\ AreObjects(a, 1, Len(a))
    BY <1>3 DEF IsArray
  <2>2. AddTree(Root(x), j) = c \o d
    BY <1>3, JsonKinds DEF AddTree
  <2>3. Reaches(s, c, Arr(s, x, << >>))
    <3>1. Replay(s, c) = SetRoot(s, x, <<"array", <<>>>>)
      BY AddRoot, ReplayOne
    <3> QED
      BY <3>1, OneIs DEF Reaches, Arr
  <2>4. PICK N \in Nat : N = Len(a)
    BY <2>1 DEF IsSeq
  <2>5. Prefix(a, 0) = << >>
    BY DEF Prefix
  <2>6. 0 \in 0 .. N /\ 0 + 1 = 1
    OBVIOUS
  <2> HIDE DEF a, c
  <2>7. IsSeq(d) /\ Replay(Arr(s, x, Prefix(a, 0)), d) = Arr(s, x, Prefix(a, N))
    BY <2>1, <2>4, <2>6, AddsAllItems
  <2>8. Prefix(a, N) = a
    BY <2>1, <2>4, WholePrefix
  <2> HIDE DEF d
  <2>9. Reaches(Arr(s, x, << >>), d, SetRoot(s, x, j))
    BY <2>1, <2>5, <2>7, <2>8 DEF Reaches, Arr
  <2> QED
    BY <2>2, <2>3, <2>9, ReachesOn
<1> QED
  BY <1>1, <1>2, <1>3 DEF IsJson

LEMMA RemovesTree ==
  ASSUME NEW s, Filled(s), NEW x \in DOMAIN s, IsJson(s[x])
  PROVE  Reaches(s, RemoveTree(Root(x), s[x]), Without(s, x))
<1> DEFINE j == s[x]
<1>0. IsJson(j) /\ SetRoot(s, x, j) = s
  BY SetSame
<1>1. CASE IsInt(j)
  <2>1. RemoveTree(Root(x), j) = << Change("remove", Root(x), j, Unset) >>
    BY <1>1, JsonKinds DEF RemoveTree
  <2>2. Replay(s, << Change("remove", Root(x), j, Unset) >>) = Without(s, x)
    BY RemoveRoot, ReplayOne
  <2> QED
    BY <2>1, <2>2, OneIs DEF Reaches
<1>2. CASE IsObject(j)
  <2>1. PICK n \in Ints : j = <<"object", n>>
    BY <1>2 DEF IsObject
  <2>2. RemoveTree(Root(x), j) = RemoveObject(Root(x), j)
    BY <1>2, JsonKinds DEF RemoveTree
  <2>3. IsSeq(RemoveObject(Root(x), j))
    BY TwoIs DEF RemoveObject
  <2>4. Replay(s, RemoveObject(Root(x), j)) = Without(s, x)
    BY <2>1, RemoveRootObject
  <2> QED
    BY <2>2, <2>3, <2>4 DEF Reaches
<1>3. CASE IsArray(j)
  <2> DEFINE a == j[2]
             e == <<"array", <<>>>>
             c == << Change("remove", Root(x), e, Unset) >>
             d == RemoveItems(Root(x), a, 0)
             t == Arr(s, x, << >>)
  <2>1. j = <<"array", a>> /\ IsSeq(a) /\ AreObjects(a, 1, Len(a))
    BY <1>3 DEF IsArray
  <2>2. RemoveTree(Root(x), j) = d \o c
    BY <1>3, <1>0, JsonKinds DEF RemoveTree
  <2>3. PICK N \in Nat : N = Len(a)
    BY <2>1 DEF IsSeq
  <2>4. Prefix(a, 0) = << >>
    BY DEF Prefix
  <2>5. 0 \in 0 .. N /\ 0 + 1 = 1 /\ IsList(a, N) /\ SameAfter(a, a, 0, N)
    BY <2>1, <2>3 DEF IsList, SameAfter
  <2>6. s = Arr(s, x, a)
    BY <1>0, <2>1 DEF Arr
  <2>7. Reaches(s, d, t)
    <3> HIDE DEF a
    <3>1. IsSeq(d) /\ Replay(Arr(s, x, a), d) = Arr(s, x, Prefix(a, 0))
      BY <2>1, <2>3, <2>5, RemovesAllItems
    <3> HIDE DEF d
    <3> QED
      BY <2>4, <2>6, <3>1 DEF Reaches
  <2>8. Reaches(t, c, Without(s, x))
    <3>1. Filled(t) /\ x \in DOMAIN t /\ t[x] = e
      <4>1. e[1] # "unset"
        OBVIOUS
      <4> HIDE DEF e
      <4> QED
        BY <4>1, SetRootIs DEF Arr, e
    <3>2. Apply(t, Change("remove", Root(x), e, Unset)) = Without(t, x)
      <4> HIDE DEF t, e
      <4> QED
        BY <3>1, RemoveRoot
    <3>3. Without(t, x) = Without(s, x)
      BY SetTwice DEF Arr
    <3>4. Replay(t, c) = Without(s, x)
      <4> HIDE DEF t, e
      <4> QED
        BY <3>2, <3>3, ReplayOne
    <3> HIDE DEF t, e
    <3> QED
      BY <3>4, OneIs DEF Reaches
  <2> HIDE DEF a, c, d, t, e
  <2> QED
    BY <2>2, <2>7, <2>8, ReachesOn
<1> QED
  BY <1>0, <1>1, <1>2, <1>3 DEF IsJson

LEMMA RootFieldReplays ==
  ASSUME NEW s, Filled(s), NEW x \in DOMAIN s, NEW m, s[x] = <<"object", m>>, NEW n
  PROVE  Reaches(s, ReplaceInt(Field(Root(x)), m, n), SetRoot(s, x, <<"object", n>>))
<1>1. CASE m = n
  <2>1. ReplaceInt(Field(Root(x)), m, n) = << >>
    BY <1>1 DEF ReplaceInt
  <2>2. SetRoot(s, x, <<"object", n>>) = s
    BY <1>1, SetSame
  <2>3. Replay(s, << >>) = s
    BY EmptyIs, ReplayNone
  <2> QED
    BY <2>1, <2>2, <2>3, EmptyIs DEF Reaches
<1>2. CASE m # n
  <2> DEFINE c == Change("replace", Field(Root(x)), Num(m), Num(n))
  <2>1. ReplaceInt(Field(Root(x)), m, n) = << c >>
    BY <1>2 DEF ReplaceInt
  <2>2. Apply(s, c) = SetRoot(s, x, <<"object", n>>)
    BY ReplaceRootField
  <2> HIDE DEF c
  <2>3. Replay(s, << c >>) = SetRoot(s, x, <<"object", n>>)
    BY <2>2, ReplayOne
  <2> QED
    BY <2>1, <2>3, OneIs DEF Reaches
<1> QED
  BY <1>1, <1>2

LEMMA DiffsRoot ==
  ASSUME NEW s, Filled(s), NEW x, x \in DOMAIN s => IsJson(s[x]), NEW j, IsJson(j)
  PROVE  Reaches(s, Diff(Root(x), OldIn(s, x), j), SetRoot(s, x, j))
<1>1. Reaches(s, AddTree(Root(x), j), SetRoot(s, x, j))
  BY AddsTree
<1>2. CASE x \notin DOMAIN s
  <2>1. OldIn(s, x) = Unset /\ Unset[1] = "unset"
    BY <1>2 DEF OldIn, Unset
  <2>2. Diff(Root(x), Unset, j) = RemoveTree(Root(x), Unset) \o AddTree(Root(x), j)
    BY <2>1, JsonKinds DEF Diff
  <2>3. RemoveTree(Root(x), Unset) = << >>
    BY <2>1 DEF RemoveTree
  <2>4. Reaches(s, << >>, s)
    BY EmptyIs, ReplayNone DEF Reaches
  <2> QED
    BY <1>1, <2>1, <2>2, <2>3, <2>4, ReachesOn
<1>3. CASE x \in DOMAIN s
  <2> DEFINE o == s[x]
  <2>1. OldIn(s, x) = o /\ IsJson(o)
    BY <1>3 DEF OldIn
  <2>2. CASE o[1] # j[1]
    <3>1. Diff(Root(x), o, j) = RemoveTree(Root(x), o) \o AddTree(Root(x), j)
      BY <2>2 DEF Diff
    <3>2. Reaches(s, RemoveTree(Root(x), o), Without(s, x))
      BY <1>3, <2>1, RemovesTree
    <3>3. Filled(Without(s, x))
      BY SetRootIs, JsonKinds
    <3>4. Reaches(Without(s, x), AddTree(Root(x), j), SetRoot(Without(s, x), x, j))
      BY <3>3, AddsTree
    <3>5. SetRoot(Without(s, x), x, j) = SetRoot(s, x, j)
      BY SetTwice
    <3> HIDE DEF o
    <3> QED
      BY <2>1, <3>1, <3>2, <3>4, <3>5, ReachesOn
  <2>3. CASE o[1] = j[1] /\ IsInt(j)
    <3>1. PICK n \in Ints : j = Num(n)
      BY <2>3 DEF IsInt
    <3>2. IsInt(o)
      BY <2>1, <2>3, JsonKinds
    <3>3. PICK m \in Ints : o = Num(m)
      BY <3>2 DEF IsInt
    <3>4. o[1] = "int" /\ o[2] = m /\ j[2] = n /\ j[1] = "int"
      BY <3>1, <3>3 DEF Num
    <3>5. Diff(Root(x), o, j) = ReplaceInt(Root(x), m, n)
      BY <3>4 DEF Diff
    <3>6. CASE m = n
      <4>1. ReplaceInt(Root(x), m, n) = << >>
        BY <3>6 DEF ReplaceInt
      <4>2. SetRoot(s, x, j) = s
        BY <1>3, <3>1, <3>3, <3>6, SetSame
      <4>3. Replay(s, << >>) = s
        BY EmptyIs, ReplayNone
      <4> QED
        BY <2>1, <3>5, <4>1, <4>2, <4>3, EmptyIs DEF Reaches
    <3>7. CASE m # n
      <4> DEFINE c == Change("replace", Root(x), o, j)
      <4>1. ReplaceInt(Root(x), m, n) = << c >>
        BY <3>1, <3>3, <3>7 DEF ReplaceInt
      <4>2. Apply(s, c) = SetRoot(s, x, j)
        BY <1>3, ReplaceRoot
      <4> HIDE DEF c
      <4>3. Replay(s, << c >>) = SetRoot(s, x, j)
        BY <4>2, ReplayOne
      <4> QED
        BY <2>1, <3>5, <4>1, <4>3, OneIs DEF Reaches
    <3> QED
      BY <3>6, <3>7
  <2>4. CASE o[1] = j[1] /\ IsObject(j)
    <3>1. PICK n \in Ints : j = <<"object", n>>
      BY <2>4 DEF IsObject
    <3>2. IsObject(o)
      BY <2>1, <2>4, JsonKinds
    <3>3. PICK m \in Ints : o = <<"object", m>>
      BY <3>2 DEF IsObject
    <3>4. o[1] = "object" /\ o[2] = m /\ j[2] = n /\ j[1] = "object"
      BY <3>1, <3>3
    <3>5. Diff(Root(x), o, j) = ReplaceInt(Field(Root(x)), m, n)
      BY <3>4 DEF Diff
    <3>6. Reaches(s, ReplaceInt(Field(Root(x)), m, n), SetRoot(s, x, <<"object", n>>))
      BY <1>3, <3>3, RootFieldReplays
    <3> QED
      BY <2>1, <3>1, <3>5, <3>6
  <2>5. CASE o[1] = j[1] /\ IsArray(j)
    <3>1. IsArray(o)
      BY <2>1, <2>5, JsonKinds
    <3> DEFINE a == o[2]
               b == j[2]
    <3>2. o = <<"array", a>> /\ IsSeq(a) /\ AreObjects(a, 1, Len(a))
      BY <3>1 DEF IsArray
    <3>3. j = <<"array", b>> /\ IsSeq(b) /\ AreObjects(b, 1, Len(b))
      BY <2>5 DEF IsArray
    <3>4. Diff(Root(x), o, j) = DiffArrays(Root(x), a, b)
      BY <2>1, <2>5, JsonKinds DEF Diff
    <3>5. PICK M \in Nat : M = Len(a)
      BY <3>2 DEF IsSeq
    <3>6. PICK N \in Nat : N = Len(b)
      BY <3>3 DEF IsSeq
    <3>7. IsList(a, M) /\ IsList(b, N)
      BY <3>2, <3>3, <3>5, <3>6 DEF IsList
    <3>8. AreObjects(a, 1, M) /\ AreObjects(b, 1, N)
      BY <3>2, <3>3, <3>5, <3>6
    <3> HIDE DEF a, b
    <3>9. IsSeq(DiffArrays(Root(x), a, b)) /\ Replay(Arr(s, x, a), DiffArrays(Root(x), a, b)) = Arr(s, x, b)
      BY <3>7, <3>8, DiffsArrays
    <3>10. Arr(s, x, a) = s
      BY <1>3, <3>2, SetSame DEF Arr
    <3>11. Arr(s, x, b) = SetRoot(s, x, j)
      BY <3>3 DEF Arr
    <3> QED
      BY <2>1, <3>4, <3>9, <3>10, <3>11 DEF Reaches
  <2> QED
    BY <2>2, <2>3, <2>4, <2>5 DEF IsJson
<1> QED
  BY <1>2, <1>3

-----------------------------------------------------------------------------
(* The hash of a state.                                                      *)

Leaves(x, j) == HashTree(Root(x), j)

LEMMA LeavesStay ==
  ASSUME NEW x, NEW j, IsJson(j) \/ j = Unset
  PROVE  \A l \in Leaves(x, j) : l[1].root = x
<1>1. \A i : Item(Root(x), i).root = x /\ Field(Item(Root(x), i)).root = x
  BY DEF Item, Extended, Root, Field
<1>2. Root(x).root = x /\ Field(Root(x)).root = x
  BY DEF Root, Field, Extended
<1>3. \A p, k : \A l \in HashObject(p, k) : l[1] = p \/ l[1] = Field(p)
  BY DEF HashObject
<1>4. CASE j[1] = "int"
  <2>1. Leaves(x, j) = {<<Root(x), j>>}
    BY <1>4 DEF Leaves, HashTree
  <2> QED
    BY <1>2, <2>1
<1>5. CASE j[1] = "object"
  <2>1. Leaves(x, j) = HashObject(Root(x), j)
    BY <1>5 DEF Leaves, HashTree
  <2> QED
    BY <1>2, <1>3, <2>1
<1>6. CASE j[1] = "array"
  <2>1. Leaves(x, j) = {<<Root(x), <<"array", Len(j[2])>>>>} \cup
            UNION {HashObject(Item(Root(x), i), j[2][i]) : i \in 1 .. Len(j[2])}
    BY <1>6 DEF Leaves, HashTree
  <2>2. ASSUME NEW l \in Leaves(x, j)
        PROVE  l[1].root = x
    <3>1. CASE l = <<Root(x), <<"array", Len(j[2])>>>>
      BY <1>2, <3>1
    <3>2. CASE \E i \in 1 .. Len(j[2]) : l \in HashObject(Item(Root(x), i), j[2][i])
      BY <1>1, <1>3, <3>2
    <3> QED
      BY <2>1, <3>1, <3>2
  <2> QED
    BY <2>2
<1>7. CASE j = Unset
  <2>1. j[1] = "unset"
    BY <1>7 DEF Unset
  <2>2. Leaves(x, j) = {}
    BY <2>1 DEF Leaves, HashTree
  <2> QED
    BY <2>2
<1>8. IsJson(j) => j[1] = "int" \/ j[1] = "object" \/ j[1] = "array"
  BY JsonKinds DEF IsJson
<1> QED
  BY <1>4, <1>5, <1>6, <1>7, <1>8

LEMMA XorApart ==
  ASSUME NEW A, NEW B, NEW C, A \cap B = {}, A \cap C = {}
  PROVE  Xor(A \cup B, Xor(B, C)) = A \cup C
BY DEF Xor

JState(s) == IsFcn(s) /\ \A x \in DOMAIN s : IsJson(s[x])

LEMMA HashesRoot ==
  ASSUME NEW s, JState(s), NEW x, NEW j, IsJson(j)
  PROVE  HashState(SetRoot(s, x, j)) = Xor(HashState(s), Xor(Leaves(x, OldIn(s, x)), Leaves(x, j)))
<1> DEFINE t == SetRoot(s, x, j)
           E(y) == Leaves(y, s[y])
           A == UNION {E(y) : y \in DOMAIN s \ {x}}
           B == Leaves(x, OldIn(s, x))
           C == Leaves(x, j)
<1>1. DOMAIN t = DOMAIN s \cup {x} /\ t[x] = j /\ \A y \in DOMAIN s : y # x => t[y] = s[y]
  BY DEF SetRoot
<1> HIDE DEF t
<1>2. HashState(t) = A \cup C
  <2>1. HashState(t) = UNION {Leaves(y, t[y]) : y \in DOMAIN t}
    BY DEF HashState, Leaves
  <2>2. \A y \in DOMAIN s \ {x} : Leaves(y, t[y]) = E(y)
    BY <1>1
  <2>3. Leaves(x, t[x]) = C
    BY <1>1
  <2> HIDE DEF E, C
  <2> QED
    BY <1>1, <2>1, <2>2, <2>3
<1>3. HashState(s) = A \cup B
  <2>1. HashState(s) = UNION {E(y) : y \in DOMAIN s}
    BY DEF HashState, Leaves
  <2>2. CASE x \in DOMAIN s
    <3>1. B = E(x)
      BY <2>2 DEF OldIn
    <3> HIDE DEF E, B
    <3> QED
      BY <2>1, <2>2, <3>1
  <2>3. CASE x \notin DOMAIN s
    <3>1. B = {}
      <4>1. OldIn(s, x) = Unset /\ Unset[1] = "unset"
        BY <2>3 DEF OldIn, Unset
      <4> QED
        BY <4>1 DEF Leaves, HashTree
    <3> HIDE DEF E, B
    <3> QED
      BY <2>1, <2>3, <3>1
  <2> QED
    BY <2>2, <2>3
<1>4. A \cap B = {} /\ A \cap C = {}
  <2>1. \A y \in DOMAIN s : \A l \in E(y) : l[1].root = y
    BY LeavesStay DEF JState
  <2>2. \A l \in B : l[1].root = x
    BY LeavesStay DEF JState, OldIn
  <2>3. \A l \in C : l[1].root = x
    BY LeavesStay
  <2> HIDE DEF B, C, E
  <2> QED
    BY <2>1, <2>2, <2>3
<1> HIDE DEF A, B, C
<1>5. HashState(t) = Xor(HashState(s), Xor(B, C))
  BY <1>2, <1>3, <1>4, XorApart
<1> QED
  BY <1>5 DEF t, B, C

\* Only the field of an object changes.
LEMMA HashesObject ==
  ASSUME NEW p, NEW m \in Ints, NEW n \in Ints
  PROVE  Xor(HashObject(p, <<"object", m>>), HashObject(p, <<"object", n>>)) =
            Xor(HashTree(Field(p), Num(m)), HashTree(Field(p), Num(n)))
<1> DEFINE a == <<p, <<"object", 0>>>>
           b(k) == <<Field(p), Num(k)>>
<1>1. \A k \in Ints : k # NoField
  BY SizesAssumption DEF NoField
<1>2. \A k \in Ints : HashObject(p, <<"object", k>>) = {a} \cup {b(k)}
  BY <1>1 DEF HashObject
<1>3. \A k : HashTree(Field(p), Num(k)) = {b(k)}
  BY DEF HashTree, Num
<1>4. \A k : a # b(k)
  BY DEF Num
<1> HIDE DEF a, b
<1>5. HashObject(p, <<"object", m>>) = {a} \cup {b(m)} /\ HashObject(p, <<"object", n>>) = {a} \cup {b(n)}
  BY <1>2
<1>6. HashTree(Field(p), Num(m)) = {b(m)} /\ HashTree(Field(p), Num(n)) = {b(n)}
  BY <1>3
<1>7. a # b(m) /\ a # b(n)
  BY <1>4
<1> QED
  BY <1>5, <1>6, <1>7 DEF Xor

LEMMA XorShared ==
  ASSUME NEW A, NEW B, NEW C, A \cap B = {}, A \cap C = {}
  PROVE  Xor(A \cup B, A \cup C) = Xor(B, C)
BY DEF Xor

LEMMA ArrayLeaves ==
  ASSUME NEW x, NEW a, NEW n \in Nat, IsList(a, n)
  PROVE  Leaves(x, <<"array", a>>) = {<<Root(x), <<"array", n>>>>} \cup
            UNION {HashObject(Item(Root(x), k), a[k]) : k \in 1 .. n}
<1> DEFINE j == <<"array", a>>
<1>1. j[1] = "array" /\ j[2] = a
  OBVIOUS
<1>2. Len(a) = n
  BY DEF IsList
<1> HIDE DEF j
<1>3. Leaves(x, j) = {<<Root(x), <<"array", Len(j[2])>>>>} \cup
            UNION {HashObject(Item(Root(x), k), j[2][k]) : k \in 1 .. Len(j[2])}
  BY <1>1 DEF Leaves, HashTree
<1> QED
  BY <1>1, <1>2, <1>3 DEF j

\* Only one item of an array changes.
LEMMA HashesItem ==
  ASSUME NEW x, NEW a, NEW n \in Nat, IsList(a, n), NEW i \in 1 .. n, NEW e,
         NEW b, IsList(b, n), b[i] = e, \A k \in 1 .. n : k # i => b[k] = a[k]
  PROVE  Xor(Leaves(x, <<"array", a>>), Leaves(x, <<"array", b>>)) =
            Xor(HashObject(Item(Root(x), i), a[i]), HashObject(Item(Root(x), i), e))
<1> DEFINE F(k, j) == HashObject(Item(Root(x), k), j)
           R == {<<Root(x), <<"array", n>>>>} \cup UNION {F(k, a[k]) : k \in (1 .. n) \ {i}}
<1>1. Leaves(x, <<"array", a>>) = {<<Root(x), <<"array", n>>>>} \cup UNION {F(k, a[k]) : k \in 1 .. n}
  BY ArrayLeaves
<1>2. Leaves(x, <<"array", b>>) = {<<Root(x), <<"array", n>>>>} \cup UNION {F(k, b[k]) : k \in 1 .. n}
  BY ArrayLeaves
<1>3. \A j : \A k \in Nat \ {0} : \A l \in F(k, j) : l[1].index = k - 1
  <2>1. ASSUME NEW k \in Nat \ {0}, NEW j, NEW l \in F(k, j)
        PROVE  l[1].index = k - 1
    <3>1. l[1] = Item(Root(x), k) \/ l[1] = Field(Item(Root(x), k))
      BY DEF HashObject
    <3>2. Item(Root(x), k).index = k - 1 /\ Field(Item(Root(x), k)).index = k - 1
      BY ItemIs DEF Leads
    <3> QED
      BY <3>1, <3>2
  <2> QED
    BY <2>1
<1>4. Root(x).index # i - 1
  BY DEF Root, Whole
<1> HIDE DEF F
<1>5. Leaves(x, <<"array", a>>) = R \cup F(i, a[i])
  BY <1>1
<1>6. Leaves(x, <<"array", b>>) = R \cup F(i, e)
  BY <1>2
<1>7. ASSUME NEW j
      PROVE  R \cap F(i, j) = {}
  <2>1. i \in Nat \ {0} /\ \A k \in (1 .. n) \ {i} : k \in Nat \ {0} /\ k - 1 # i - 1
    OBVIOUS
  <2>2. \A l \in F(i, j) : l[1].index = i - 1
    BY <1>3, <2>1
  <2>3. \A k \in (1 .. n) \ {i} : \A l \in F(k, a[k]) : l[1].index # i - 1
    BY <1>3, <2>1
  <2>4. <<Root(x), <<"array", n>>>>[1].index # i - 1
    BY <1>4
  <2> QED
    BY <2>2, <2>3, <2>4
<1> HIDE DEF R
<1>8. Xor(Leaves(x, <<"array", a>>), Leaves(x, <<"array", b>>)) = Xor(F(i, a[i]), F(i, e))
  <2>1. R \cap F(i, a[i]) = {} /\ R \cap F(i, e) = {}
    BY <1>7
  <2>2. Xor(R \cup F(i, a[i]), R \cup F(i, e)) = Xor(F(i, a[i]), F(i, e))
    BY <2>1 DEF Xor
  <2> QED
    BY <1>5, <1>6, <2>2
<1> QED
  BY <1>8 DEF F

-----------------------------------------------------------------------------
(* A place changes.                                                          *)

HasItem(s, x, i) == x \in DOMAIN s /\ IsArray(s[x]) /\ i \in 1 .. Len(s[x][2])

\* The change of the value at a path is accounted for.
Accounted(s, p, j) ==
    /\ JState(Put(s, p, j))
    /\ Reaches(s, Diff(p, Was(s, p), j), Put(s, p, j))
    /\ HashState(Put(s, p, j)) = Xor(HashState(s), Xor(HashTree(p, Was(s, p)), HashTree(p, j)))

SameKinds(s, t) ==
    \A x \in DOMAIN s :
      /\ x \in DOMAIN t
      /\ IsObject(s[x]) => IsObject(t[x])
      /\ IsArray(s[x]) => IsArray(t[x]) /\ Len(t[x][2]) = Len(s[x][2])

LEMMA JStateFilled ==
  ASSUME NEW s, JState(s)
  PROVE  Filled(s)
BY JsonKinds DEF JState, Filled

LEMMA JStateSet ==
  ASSUME NEW s, JState(s), NEW x, NEW j, IsJson(j)
  PROVE  JState(SetRoot(s, x, j))
BY DEF JState, SetRoot, IsFcn

LEMMA RootAccounted ==
  ASSUME NEW s, JState(s), NEW x, NEW j, IsJson(j)
  PROVE  Accounted(s, Root(x), j)
<1> DEFINE p == Root(x)
<1>1. p.root = x /\ p.index = Whole /\ p.field = FALSE
  BY RootIs
<1>2. Put(s, p, j) = SetRoot(s, x, j)
  <2> HIDE DEF p
  <2> QED
    BY <1>1 DEF Put, PutNode
<1>3. Was(s, p) = OldIn(s, x)
  <2>1. p = Root(p.root)
    BY <1>1
  <2> HIDE DEF p
  <2> QED
    BY <1>1, <2>1 DEF Was, At, Node, OldIn
<1>4. JState(SetRoot(s, x, j))
  BY JStateSet
<1>5. Reaches(s, Diff(p, OldIn(s, x), j), SetRoot(s, x, j))
  <2>1. Filled(s) /\ (x \in DOMAIN s => IsJson(s[x]))
    BY JStateFilled DEF JState
  <2> QED
    BY <2>1, DiffsRoot
<1>6. HashState(SetRoot(s, x, j)) = Xor(HashState(s), Xor(HashTree(p, OldIn(s, x)), HashTree(p, j)))
  BY HashesRoot DEF Leaves
<1> HIDE DEF p
<1>7. Accounted(s, p, j)
  BY <1>2, <1>3, <1>4, <1>5, <1>6 DEF Accounted
<1> QED
  BY <1>7 DEF p

LEMMA RootFieldAccounted ==
  ASSUME NEW s, JState(s), NEW x \in DOMAIN s, IsObject(s[x]), NEW n \in Ints
  PROVE  Accounted(s, Field(Root(x)), Num(n)) /\ SameKinds(s, Put(s, Field(Root(x)), Num(n)))
<1> DEFINE p == Field(Root(x))
           j == <<"object", n>>
<1>1. PICK m \in Ints : s[x] = <<"object", m>>
  BY DEF IsObject
<1>2. Put(s, p, Num(n)) = SetRoot(s, x, j)
  BY PutRootField
<1>3. Was(s, p) = Num(m)
  <2>1. At(s, p) = Num(m)
    BY <1>1, RootFieldAt
  <2>2. p # Root(p.root)
    BY RootIs DEF LeadsToField
  <2> QED
    BY <2>1, <2>2 DEF Was
<1>4. IsObject(j) /\ IsJson(j)
  BY DEF IsObject, IsJson
<1> HIDE DEF j
<1>5. JState(SetRoot(s, x, j))
  BY <1>4, JStateSet
<1>6. Reaches(s, Diff(p, Num(m), Num(n)), SetRoot(s, x, j))
  <2>1. Diff(p, Num(m), Num(n)) = ReplaceInt(p, m, n)
    BY DEF Diff, Num
  <2>2. Reaches(s, ReplaceInt(p, m, n), SetRoot(s, x, j))
    BY <1>1, JStateFilled, RootFieldReplays DEF j
  <2> QED
    BY <2>1, <2>2
<1>7. HashState(SetRoot(s, x, j)) = Xor(HashState(s), Xor(HashTree(p, Num(m)), HashTree(p, Num(n))))
  <2>1. HashState(SetRoot(s, x, j)) = Xor(HashState(s), Xor(Leaves(x, s[x]), Leaves(x, j)))
    BY <1>4, HashesRoot DEF OldIn
  <2>2. \A k : Leaves(x, <<"object", k>>) = HashObject(Root(x), <<"object", k>>)
    BY DEF Leaves, HashTree
  <2>3. Xor(Leaves(x, s[x]), Leaves(x, j)) = Xor(HashTree(p, Num(m)), HashTree(p, Num(n)))
    BY <1>1, <2>2, HashesObject DEF j
  <2> QED
    BY <2>1, <2>3
<1>8. SameKinds(s, SetRoot(s, x, j))
  <2>1. ~ IsArray(s[x])
    <3>1. IsJson(s[x])
      BY DEF IsJson
    <3>2. s[x][1] = "object"
      BY <3>1, JsonKinds
    <3> QED
      BY <3>1, <3>2, JsonKinds
  <2> QED
    BY <1>4, <2>1 DEF SameKinds, SetRoot
<1> HIDE DEF p
<1>9. Accounted(s, p, Num(n)) /\ SameKinds(s, Put(s, p, Num(n)))
  BY <1>2, <1>3, <1>5, <1>6, <1>7, <1>8 DEF Accounted
<1> QED
  BY <1>9 DEF p

\* What follows when an item of an array, with m in its field, gets n in it.
ItemGets(s, x, a, i, m, n, b) ==
    /\ s[x] = <<"array", a>> /\ a[i] = <<"object", m>>
    /\ HasArray(s, x, a) /\ IsSeq(a) /\ i \in 1 .. Len(a) /\ i \in Nat \ {0}
    /\ ItemSet(s, x, a, i, <<"object", n>>) = Arr(s, x, b)
    /\ Reaches(s, ReplaceInt(Field(Item(Root(x), i)), m, n), Arr(s, x, b))
    /\ JState(Arr(s, x, b)) /\ SameKinds(s, Arr(s, x, b))
    /\ HashState(Arr(s, x, b)) =
          Xor(HashState(s), Xor(HashObject(Item(Root(x), i), <<"object", m>>),
                                HashObject(Item(Root(x), i), <<"object", n>>)))

LEMMA ItemChanges ==
  ASSUME NEW s, JState(s), NEW x, NEW i, HasItem(s, x, i), NEW n \in Ints
  PROVE  \E a, b : \E m \in Ints : ItemGets(s, x, a, i, m, n, b)
<1> DEFINE a == s[x][2]
           e == <<"object", n>>
           b == [a EXCEPT ![i] = e]
<1>1. x \in DOMAIN s /\ s[x] = <<"array", a>> /\ IsSeq(a) /\ AreObjects(a, 1, Len(a))
      /\ i \in 1 .. Len(a)
  BY DEF HasItem, IsArray
<1> HIDE DEF a
<1>2. PICK N \in Nat : N = Len(a)
  BY <1>1 DEF IsSeq
<1>3. IsList(a, N) /\ i \in 1 .. N /\ i \in Nat \ {0} /\ AreObjects(a, 1, N)
  BY <1>1, <1>2 DEF IsList
<1>4. PICK m \in Ints : a[i] = <<"object", m>>
  BY <1>3 DEF AreObjects
<1>5. DOMAIN a = 1 .. N /\ IsFcn(a)
  BY <1>1, <1>2 DEF IsSeq
<1>6. DOMAIN b = 1 .. N /\ IsFcn(b) /\ b[i] = e /\ \A k \in 1 .. N : k # i => b[k] = a[k]
  BY <1>3, <1>5 DEF IsFcn
<1>7. ItemSet(s, x, a, i, e) = Arr(s, x, b)
  BY <1>1 DEF ItemSet, Arr, SetRoot
<1> HIDE DEF b
<1>8. IsSeq(b) /\ Len(b) = N
  BY <1>6, LengthIs
<1>9. IsList(b, N)
  BY <1>8 DEF IsList
<1>10. AreObjects(b, 1, N)
  <2>1. ASSUME NEW k \in 1 .. N
        PROVE  \E l \in Ints : b[k] = <<"object", l>>
    BY <1>3, <1>6 DEF AreObjects
  <2> QED
    BY <2>1 DEF AreObjects
<1> DEFINE j == <<"array", b>>
<1>11. j[1] = "array" /\ j[2] = b
  OBVIOUS
<1>12. IsArray(j) /\ IsJson(j)
  <2> HIDE DEF j
  <2>1. j = <<"array", j[2]>>
    BY <1>11 DEF j
  <2> QED
    BY <1>8, <1>10, <1>11, <2>1 DEF IsArray, IsJson
<1>13. Arr(s, x, b) = SetRoot(s, x, j)
  BY DEF Arr
<1>14. HasArray(s, x, a)
  BY <1>1, <1>5 DEF HasArray, JState
<1> HIDE DEF j
<1>15. JState(Arr(s, x, b))
  BY <1>12, <1>13, JStateSet
<1>16. SameKinds(s, Arr(s, x, b))
  <2>1. ~ IsObject(s[x])
    <3>1. IsJson(s[x])
      BY <1>1 DEF JState
    <3>2. s[x][1] = "array"
      BY <1>1
    <3> QED
      BY <3>1, <3>2, JsonKinds
  <2>2. Len(j[2]) = Len(s[x][2])
    BY <1>2, <1>8, <1>11 DEF a
  <2> QED
    BY <1>12, <1>13, <2>1, <2>2 DEF SameKinds, SetRoot
<1>17. Arr(s, x, a) = s
  BY <1>1, JStateFilled, SetSame DEF Arr
<1>18. Reaches(s, ReplaceInt(Field(Item(Root(x), i)), m, n), Arr(s, x, b))
  <2>1. FieldReplays(s, x, a, i, m, n)
    BY <1>3, <1>4, JStateFilled, ReplaceItemField
  <2>2. [a EXCEPT ![i] = <<"object", n>>] = b
    BY DEF b
  <2> QED
    BY <1>17, <2>1, <2>2 DEF FieldReplays, Reaches
<1>19. HashState(Arr(s, x, b)) =
          Xor(HashState(s), Xor(HashObject(Item(Root(x), i), a[i]), HashObject(Item(Root(x), i), e)))
  <2>1. HashState(SetRoot(s, x, j)) = Xor(HashState(s), Xor(Leaves(x, OldIn(s, x)), Leaves(x, j)))
    BY <1>12, HashesRoot
  <2>2. OldIn(s, x) = <<"array", a>>
    BY <1>1 DEF OldIn
  <2> HIDE DEF e
  <2>3. Xor(Leaves(x, <<"array", a>>), Leaves(x, <<"array", b>>)) =
            Xor(HashObject(Item(Root(x), i), a[i]), HashObject(Item(Root(x), i), e))
    BY <1>3, <1>6, <1>9, HashesItem
  <2> QED
    BY <1>13, <2>1, <2>2, <2>3 DEF j
<1>20. ItemGets(s, x, a, i, m, n, b)
  BY <1>1, <1>3, <1>4, <1>7, <1>14, <1>15, <1>16, <1>18, <1>19 DEF ItemGets
<1> QED
  BY <1>20

LEMMA ItemAccounted ==
  ASSUME NEW s, JState(s), NEW x, NEW i, HasItem(s, x, i), NEW e, IsObject(e)
  PROVE  Accounted(s, Item(Root(x), i), e) /\ SameKinds(s, Put(s, Item(Root(x), i), e))
<1> DEFINE p == Item(Root(x), i)
<1>1. PICK n \in Ints : e = <<"object", n>>
  BY DEF IsObject
<1>2. PICK a, b : \E m \in Ints : ItemGets(s, x, a, i, m, n, b)
  BY ItemChanges
<1>3. PICK m \in Ints : ItemGets(s, x, a, i, m, n, b)
  BY <1>2
<1>4. /\ a[i] = <<"object", m>> /\ HasArray(s, x, a) /\ IsSeq(a) /\ i \in 1 .. Len(a) /\ i \in Nat \ {0}
      /\ ItemSet(s, x, a, i, e) = Arr(s, x, b)
      /\ Reaches(s, ReplaceInt(Field(p), m, n), Arr(s, x, b))
      /\ JState(Arr(s, x, b)) /\ SameKinds(s, Arr(s, x, b))
      /\ HashState(Arr(s, x, b)) = Xor(HashState(s), Xor(HashObject(p, a[i]), HashObject(p, e)))
  BY <1>1, <1>3 DEF ItemGets
<1>5. Leads(p, x, i, FALSE)
  BY <1>4, ItemIs
<1> HIDE DEF p
<1>6. Put(s, p, e) = Arr(s, x, b)
  <2>1. Put(s, p, e) = PutNode(s, p, e)
    BY <1>5 DEF Put, Leads
  <2>2. PutNode(s, p, e) = ItemSet(s, x, a, i, e)
    BY <1>4, <1>5, PutItemIs
  <2> QED
    BY <1>4, <2>1, <2>2
<1>7. Was(s, p) = a[i]
  <2>1. At(s, p) = a[i]
    BY <1>4, <1>5, ItemAt
  <2>2. p # Root(p.root)
    BY <1>5 DEF Leads, Root, Whole
  <2> QED
    BY <2>1, <2>2 DEF Was
<1>8. Diff(p, a[i], e) = ReplaceInt(Field(p), m, n)
  <2>1. a[i][1] = "object" /\ e[1] = "object" /\ a[i][2] = m /\ e[2] = n
    BY <1>1, <1>4
  <2> QED
    BY <2>1 DEF Diff
<1>9. HashTree(p, a[i]) = HashObject(p, a[i]) /\ HashTree(p, e) = HashObject(p, e)
  <2>1. a[i][1] = "object" /\ e[1] = "object"
    BY <1>1, <1>4
  <2> QED
    BY <2>1 DEF HashTree
<1>10. Accounted(s, p, e) /\ SameKinds(s, Put(s, p, e))
  BY <1>4, <1>6, <1>7, <1>8, <1>9 DEF Accounted
<1> QED
  BY <1>10 DEF p

LEMMA ItemFieldAccounted ==
  ASSUME NEW s, JState(s), NEW x, NEW i, HasItem(s, x, i), NEW n \in Ints
  PROVE  Accounted(s, Field(Item(Root(x), i)), Num(n))
         /\ SameKinds(s, Put(s, Field(Item(Root(x), i)), Num(n)))
<1> DEFINE q == Item(Root(x), i)
           p == Field(q)
           e == <<"object", n>>
<1>1. PICK a, b : \E m \in Ints : ItemGets(s, x, a, i, m, n, b)
  BY ItemChanges
<1>2. PICK m \in Ints : ItemGets(s, x, a, i, m, n, b)
  BY <1>1
<1>3. /\ a[i] = <<"object", m>> /\ HasArray(s, x, a) /\ IsSeq(a) /\ i \in 1 .. Len(a) /\ i \in Nat \ {0}
      /\ ItemSet(s, x, a, i, e) = Arr(s, x, b)
      /\ Reaches(s, ReplaceInt(p, m, n), Arr(s, x, b))
      /\ JState(Arr(s, x, b)) /\ SameKinds(s, Arr(s, x, b))
      /\ HashState(Arr(s, x, b)) = Xor(HashState(s), Xor(HashObject(q, <<"object", m>>), HashObject(q, e)))
  BY <1>2 DEF ItemGets
<1>4. Leads(p, x, i, TRUE)
  BY <1>3, ItemIs
<1>5. Xor(HashObject(q, <<"object", m>>), HashObject(q, e)) = Xor(HashTree(p, Num(m)), HashTree(p, Num(n)))
  BY HashesObject
<1> HIDE DEF p, q, e
<1>6. Put(s, p, Num(n)) = Arr(s, x, b)
  <2>1. Put(s, p, Num(n)) = ItemSet(s, x, a, i, e)
    BY <1>3, <1>4, PutItemField DEF e
  <2> QED
    BY <1>3, <2>1
<1>7. Was(s, p) = Num(m)
  <2>1. At(s, p) = Num(m)
    BY <1>3, <1>4, ItemFieldAt
  <2>2. p # Root(p.root)
    BY <1>4 DEF Leads, Root
  <2> QED
    BY <2>1, <2>2 DEF Was
<1>8. Diff(p, Num(m), Num(n)) = ReplaceInt(p, m, n)
  BY DEF Diff, Num
<1>9. Accounted(s, p, Num(n)) /\ SameKinds(s, Put(s, p, Num(n)))
  BY <1>3, <1>5, <1>6, <1>7, <1>8 DEF Accounted
<1> QED
  BY <1>9 DEF p, q

-----------------------------------------------------------------------------
(* The journal of a frame.                                                   *)

\* The digest is the hash of the state, and a reader of the events so far, once
\* there is one, gets to the state by the changes since.
Ledger(ts) ==
    /\ DOMAIN ts = TraceFields
    /\ JState(ts.state) /\ ts.digest = HashState(ts.state)
    /\ ts.loops \in Nat /\ (ts.loops > 0 => ts.begun = TRUE)
    /\ IsSeq(ts.changes)
    /\ ts.seen = TRUE => /\ ts.begun = TRUE
                         /\ Reaches(ts.reader, ts.changes, ts.state)
                         /\ ts.previous = HashState(ts.reader)

LEMMA ReplaceLedger ==
  ASSUME NEW ts, Ledger(ts), NEW p, NEW j, Accounted(ts.state, p, j)
  PROVE  Ledger(Replace(ts, p, j)) /\ Replace(ts, p, j).state = Written(ts.state, p, j)
<1> DEFINE r == Replace(ts, p, j)
           o == Was(ts.state, p)
           d == Diff(p, o, j)
           t == Put(ts.state, p, j)
<1>1. CASE o = j
  <2>1. r = ts
    BY <1>1 DEF Replace, Was
  <2> QED
    BY <1>1, <2>1 DEF Written
<1>2. CASE o # j
  <2>1. /\ DOMAIN ts = TraceFields /\ JState(ts.state) /\ ts.digest = HashState(ts.state)
        /\ ts.loops \in Nat /\ (ts.loops > 0 => ts.begun = TRUE) /\ IsSeq(ts.changes)
        /\ ts.seen = TRUE => /\ ts.begun = TRUE
                             /\ Reaches(ts.reader, ts.changes, ts.state)
                             /\ ts.previous = HashState(ts.reader)
    BY DEF Ledger
  <2>2. /\ JState(t) /\ Reaches(ts.state, d, t)
        /\ HashState(t) = Xor(HashState(ts.state), Xor(HashTree(p, o), HashTree(p, j)))
    BY DEF Accounted
  <2>3. r = [ts EXCEPT !.state = Put(@, p, j),
                       !.digest = Xor(@, Xor(HashTree(p, o), HashTree(p, j))),
                       !.changes = IF ts.begun THEN @ \o Diff(p, o, j) ELSE @]
    BY <1>2 DEF Replace, Was
  <2>4. /\ DOMAIN r = TraceFields /\ r.state = t
        /\ r.digest = Xor(ts.digest, Xor(HashTree(p, o), HashTree(p, j)))
        /\ r.changes = (IF ts.begun THEN ts.changes \o d ELSE ts.changes)
        /\ r.loops = ts.loops /\ r.begun = ts.begun /\ r.seen = ts.seen
        /\ r.reader = ts.reader /\ r.previous = ts.previous
    <3> HIDE DEF o, d, t, r
    <3> QED
      BY <2>1, <2>3 DEF TraceFields, d, t
  <2>5. r.state = Written(ts.state, p, j)
    BY <1>2, <2>4 DEF Written
  <2> HIDE DEF o, d, t, r
  <2>6. IsSeq(r.changes)
    BY <2>1, <2>2, <2>4, JoinedIs DEF Reaches
  <2>7. ASSUME r.seen = TRUE
        PROVE  r.begun = TRUE /\ Reaches(r.reader, r.changes, r.state) /\ r.previous = HashState(r.reader)
    <3>1. ts.begun = TRUE /\ Reaches(ts.reader, ts.changes, ts.state) /\ ts.previous = HashState(ts.reader)
      BY <2>1, <2>4, <2>7
    <3>2. r.changes = ts.changes \o d
      BY <2>4, <3>1
    <3>3. Reaches(ts.reader, ts.changes \o d, t)
      BY <2>2, <3>1, ReachesOn
    <3> QED
      BY <2>4, <3>1, <3>2, <3>3
  <2>8. Ledger(r)
    BY <2>1, <2>2, <2>4, <2>6, <2>7 DEF Ledger
  <2> QED
    BY <2>5, <2>8 DEF r
<1> QED
  BY <1>1, <1>2

LEMMA RewriteLedger ==
  ASSUME NEW ts, Ledger(ts), NEW h, NEW p, NEW old, NEW v, Accounted(ts.state, p, ToJson(h, v))
  PROVE  Ledger(Rewrite(ts, h, p, old, v))
         /\ Rewrite(ts, h, p, old, v).state = Written(ts.state, p, ToJson(h, v))
<1> DEFINE cut == [ts EXCEPT !.aliases = Unregister(@, h, old, p)]
           j == ToJson(h, v)
           put == Replace(cut, p, j)
           r == [put EXCEPT !.aliases = Register(@, h, v, p)]
<1>1. Ledger(cut) /\ cut.state = ts.state
  <2>1. DOMAIN ts = TraceFields
    BY DEF Ledger
  <2>2. /\ DOMAIN cut = TraceFields /\ cut.state = ts.state /\ cut.digest = ts.digest
        /\ cut.loops = ts.loops /\ cut.begun = ts.begun /\ cut.changes = ts.changes
        /\ cut.seen = ts.seen /\ cut.reader = ts.reader /\ cut.previous = ts.previous
    BY <2>1 DEF TraceFields
  <2> HIDE DEF cut
  <2> QED
    BY <2>2 DEF Ledger
<1> HIDE DEF cut
<1>2. Ledger(put) /\ put.state = Written(ts.state, p, j)
  <2> HIDE DEF j
  <2> QED
    BY <1>1, ReplaceLedger DEF j
<1> HIDE DEF put, j
<1>3. Ledger(r) /\ r.state = put.state
  <2>1. DOMAIN put = TraceFields
    BY <1>2 DEF Ledger
  <2>2. /\ DOMAIN r = TraceFields /\ r.state = put.state /\ r.digest = put.digest
        /\ r.loops = put.loops /\ r.begun = put.begun /\ r.changes = put.changes
        /\ r.seen = put.seen /\ r.reader = put.reader /\ r.previous = put.previous
    BY <2>1 DEF TraceFields
  <2> HIDE DEF r
  <2> QED
    BY <1>2, <2>2 DEF Ledger
<1>4. Rewrite(ts, h, p, old, v) = r
  BY DEF Rewrite, cut, put, j
<1> QED
  BY <1>2, <1>3, <1>4 DEF j

\* A place inside a value, and what it can hold.
PlaceFits(s, p, j) ==
    \E x \in DOMAIN s :
      \/ \E i \in 1 .. Len(s[x][2]) : p = Item(Root(x), i) /\ HasItem(s, x, i) /\ IsObject(j)
      \/ \E i \in 1 .. Len(s[x][2]) : p = Field(Item(Root(x), i)) /\ HasItem(s, x, i) /\ IsInt(j)
      \/ p = Field(Root(x)) /\ IsObject(s[x]) /\ IsInt(j)

LEMMA PlaceAccounted ==
  ASSUME NEW s, JState(s), NEW p, NEW j, PlaceFits(s, p, j)
  PROVE  Accounted(s, p, j) /\ SameKinds(s, Put(s, p, j))
<1>1. PICK x \in DOMAIN s :
      \/ \E i \in 1 .. Len(s[x][2]) : p = Item(Root(x), i) /\ HasItem(s, x, i) /\ IsObject(j)
      \/ \E i \in 1 .. Len(s[x][2]) : p = Field(Item(Root(x), i)) /\ HasItem(s, x, i) /\ IsInt(j)
      \/ p = Field(Root(x)) /\ IsObject(s[x]) /\ IsInt(j)
  BY DEF PlaceFits
<1>2. CASE \E i \in 1 .. Len(s[x][2]) : p = Item(Root(x), i) /\ HasItem(s, x, i) /\ IsObject(j)
  BY <1>2, ItemAccounted
<1>3. CASE \E i \in 1 .. Len(s[x][2]) : p = Field(Item(Root(x), i)) /\ HasItem(s, x, i) /\ IsInt(j)
  BY <1>3, ItemFieldAccounted DEF IsInt
<1>4. CASE p = Field(Root(x)) /\ IsObject(s[x]) /\ IsInt(j)
  BY <1>4, RootFieldAccounted DEF IsInt
<1> QED
  BY <1>1, <1>2, <1>3, <1>4

LEMMA PlaceStays ==
  ASSUME NEW s, NEW t, SameKinds(s, t), NEW p, NEW j, PlaceFits(s, p, j)
  PROVE  PlaceFits(t, p, j)
BY DEF SameKinds, PlaceFits, HasItem

LEMMA KindsOn ==
  ASSUME NEW s, NEW t, NEW u, SameKinds(s, t), SameKinds(t, u)
  PROVE  SameKinds(s, s) /\ SameKinds(s, u)
BY DEF SameKinds

LEMMA PlaceRewritten ==
  ASSUME NEW ts, Ledger(ts), NEW h, NEW p, NEW old, NEW v, PlaceFits(ts.state, p, ToJson(h, v))
  PROVE  Ledger(Rewrite(ts, h, p, old, v)) /\ SameKinds(ts.state, Rewrite(ts, h, p, old, v).state)
<1> DEFINE j == ToJson(h, v)
           r == Rewrite(ts, h, p, old, v)
<1>1. Accounted(ts.state, p, j) /\ SameKinds(ts.state, Put(ts.state, p, j))
  <2>1. JState(ts.state)
    BY DEF Ledger
  <2> QED
    BY <2>1, PlaceAccounted
<1>2. Ledger(r) /\ r.state = Written(ts.state, p, j)
  BY <1>1, RewriteLedger
<1>3. SameKinds(ts.state, ts.state)
  BY DEF SameKinds
<1> QED
  BY <1>1, <1>2, <1>3 DEF Written

LEMMA MutationLedger ==
  ASSUME NEW ts, Ledger(ts), NEW h, NEW c, NEW suffix, NEW o, NEW v,
         IsFiniteSet({Extended(p, suffix) : p \in PathsOf(ts, c)}),
         \A p \in PathsOf(ts, c) : PlaceFits(ts.state, Extended(p, suffix), ToJson(h, v))
  PROVE  Ledger(Mutation(ts, h, c, suffix, o, v))
<1>1. PICK s, after : MutationStages(ts, h, c, suffix, o, v, s, after)
  BY Mutations
<1> DEFINE places == {Extended(p, suffix) : p \in PathsOf(ts, c)}
<1>2. /\ Lists(s, places) /\ after[0] = ts
      /\ \A n \in 1 .. Len(s) : after[n] = Rewrite(after[n - 1], h, s[n], o, v)
      /\ Mutation(ts, h, c, suffix, o, v) = after[Len(s)]
  BY <1>1 DEF MutationStages
<1>3. \A p \in places : PlaceFits(ts.state, p, ToJson(h, v))
  OBVIOUS
<1> HIDE DEF places
<1>4. PICK N \in Nat : N = Len(s)
  BY <1>2 DEF Lists
<1>5. \A n \in 1 .. N : s[n] \in places
  BY <1>2, <1>4 DEF Lists
<1> DEFINE S == {n \in 0 .. N : Ledger(after[n]) /\ SameKinds(ts.state, after[n].state)}
<1>6. 0 \in S
  <2>1. SameKinds(ts.state, ts.state)
    BY DEF SameKinds
  <2> QED
    BY <1>2, <2>1
<1>7. ASSUME NEW n \in 1 .. N, n - 1 \in S
      PROVE  n \in S
  <2> DEFINE u == after[n - 1]
             p == s[n]
  <2>1. Ledger(u) /\ SameKinds(ts.state, u.state)
    BY <1>7
  <2>2. after[n] = Rewrite(u, h, p, o, v)
    BY <1>2, <1>4
  <2>3. PlaceFits(ts.state, p, ToJson(h, v))
    BY <1>3, <1>5
  <2> HIDE DEF u, p
  <2>4. PlaceFits(u.state, p, ToJson(h, v))
    BY <2>1, <2>3, PlaceStays
  <2>5. Ledger(after[n]) /\ SameKinds(u.state, after[n].state)
    BY <2>1, <2>2, <2>4, PlaceRewritten
  <2>6. SameKinds(ts.state, after[n].state)
    BY <2>1, <2>5, KindsOn
  <2> QED
    BY <2>5, <2>6
<1>8. N \in S
  <2> HIDE DEF S
  <2> QED
    BY <1>6, <1>7, Counting
<1> QED
  BY <1>2, <1>4, <1>8

LEMMA RowIsObject ==
  ASSUME NEW h, HeapSound(h), NEW r \in Rows, r \in DOMAIN h
  PROVE  ToJson(h, Row(r)) = ObjectOf(h, r) /\ IsObject(ObjectOf(h, r)) /\ h[r] \in Ints
<1>1. h[r] \in Ints
  BY DEF HeapSound, Contents
<1> QED
  BY <1>1, RowJson DEF IsObject, ObjectOf

LEMMA TableIsArray ==
  ASSUME NEW h, HeapSound(h), NEW t \in Tables, t \in DOMAIN h
  PROVE  /\ ToJson(h, <<"table", t>>) = <<"array", Objects(h, t)>>
         /\ IsArray(<<"array", Objects(h, t)>>)
         /\ Len(Objects(h, t)) = Len(h[t])
<1> DEFINE a == Objects(h, t)
<1>1. PICK n \in Nat : n = Len(h[t])
  <2>1. Len(h[t]) \in 0 .. MaxLength
    BY TablesAre
  <2> QED
    BY <2>1, SizesAssumption
<1>2. \A i \in 1 .. n : h[t][i] \in Rows \cap DOMAIN h
  BY <1>1, TablesAre
<1>3. DOMAIN a = 1 .. n /\ IsFcn(a) /\ \A i \in 1 .. n : a[i] = ObjectOf(h, h[t][i])
  BY <1>1 DEF Objects, IsFcn
<1> HIDE DEF a
<1>4. Len(a) = n /\ IsSeq(a)
  BY <1>3, LengthIs
<1>5. AreObjects(a, 1, n)
  <2>1. \A i \in 1 .. n : IsObject(a[i])
    BY <1>2, <1>3, RowIsObject
  <2> QED
    BY <2>1 DEF AreObjects, IsObject
<1>6. IsArray(<<"array", a>>)
  <2> DEFINE j == <<"array", a>>
  <2>1. j[2] = a /\ j = <<"array", a>>
    OBVIOUS
  <2> HIDE DEF j
  <2>2. IsArray(j)
    BY <1>4, <1>5, <2>1 DEF IsArray
  <2> QED
    BY <2>2 DEF j
<1> QED
  BY <1>1, <1>4, <1>6, TableJson DEF a

LEMMA DenotedJson ==
  ASSUME NEW h, HeapSound(h), NEW v, Denotes(h, v)
  PROVE  IsJson(ToJson(h, v))
<1>1. v \in Values
  BY DEF Denotes
<1>2. CASE \E n \in Scalars : v = Num(n)
  BY <1>2, NumJson, SizesAssumption DEF IsJson, IsInt
<1>3. CASE \E r \in Rows : v = Row(r)
  <2>1. PICK r \in Rows : v = Row(r)
    BY <1>3
  <2>2. r \in DOMAIN h
    BY <2>1, RowJson DEF Denotes
  <2> QED
    BY <2>1, <2>2, RowIsObject DEF IsJson
<1>4. CASE \E t \in Tables : v = <<"table", t>>
  <2>1. PICK t \in Tables : v = <<"table", t>>
    BY <1>4
  <2>2. t \in DOMAIN h
    <3>1. IsContainer(v) /\ v[2] = t
      BY <2>1 DEF IsContainer
    <3> QED
      BY <3>1 DEF Denotes
  <2> QED
    BY <2>1, <2>2, TableIsArray DEF IsJson
<1> QED
  BY <1>1, <1>2, <1>3, <1>4, ValueKinds

LEMMA NewTraceLedger ==
  ASSUME NEW h, HeapSound(h), NEW env, EnvSound(h, env)
  PROVE  Ledger(NewTrace(h, env))
<1> DEFINE paths == {Root(x) : x \in DOMAIN env}
           new == [p \in paths |-> env[p.root]]
           old == [p \in paths |-> Unset]
           start == [NoTrace EXCEPT !.on = TRUE]
<1>1. NewTrace(h, env) = RewriteAll(start, h, old, new)
  BY DEF NewTrace
<1>2. DOMAIN new = paths /\ \A x \in DOMAIN env : Root(x) \in paths /\ new[Root(x)] = env[x]
  BY DEF Root
<1>3. \A p \in paths : \E x \in DOMAIN env : p = Root(x)
  OBVIOUS
<1>4. IsFiniteSet(paths)
  <2>1. ASSUME NEW x \in DOMAIN env
        PROVE  Root(x) \in PathsOver(FALSE)
    <3>1. Whole \in Whole .. MaxLength
      BY SizesAssumption DEF Whole
    <3> DEFINE q == <<x, Whole>>
    <3>2. q \in Names \X (Whole .. MaxLength)
      BY <3>1 DEF EnvSound
    <3>3. [root |-> q[1], index |-> q[2], field |-> FALSE] \in PathsOver(FALSE)
      BY <3>2 DEF PathsOver
    <3> QED
      BY <3>3 DEF Root
  <2>2. paths \in SUBSET PathsOver(FALSE)
    BY <2>1
  <2> QED
    BY <2>2, PathsAreFinite
<1>5. Ledger(start)
  <2>1. /\ DOMAIN start = TraceFields /\ start.state = << >> /\ start.digest = {}
        /\ start.loops = 0 /\ start.changes = << >> /\ start.seen = FALSE
    BY DEF NoTrace, TraceFields
  <2>2. JState(<< >>) /\ HashState(<< >>) = {}
    <3>1. DOMAIN << >> = {}
      OBVIOUS
    <3> QED
      BY <3>1, EmptyIs DEF JState, HashState, IsSeq
  <2> HIDE DEF start
  <2> QED
    BY <2>1, <2>2, EmptyIs DEF Ledger
<1> HIDE DEF new, old, start
<1>6. PICK after : Stages(start, h, old, new, after)
  BY <1>2, <1>4, RewriteAllStages
<1> DEFINE s == SetToSeq(paths)
<1>7. /\ after[0] = start
      /\ \A n \in 1 .. Len(s) : after[n] = Rewrite(after[n - 1], h, s[n], old[s[n]], new[s[n]])
      /\ RewriteAll(start, h, old, new) = after[Len(s)]
  BY <1>2, <1>6 DEF Stages
<1>8. Lists(s, paths)
  <2> HIDE DEF paths
  <2> QED
    BY <1>4, Listing
<1> HIDE DEF s, paths
<1>9. PICK N \in Nat : N = Len(s)
  BY <1>8 DEF Lists
<1>10. \A n \in 1 .. N : s[n] \in paths
  BY <1>8, <1>9 DEF Lists
<1> DEFINE S == {n \in 0 .. N : Ledger(after[n])}
<1>11. 0 \in S
  BY <1>5, <1>7
<1>12. ASSUME NEW n \in 1 .. N, n - 1 \in S
       PROVE  n \in S
  <2> DEFINE u == after[n - 1]
  <2>1. Ledger(u)
    BY <1>12
  <2>2. PICK x \in DOMAIN env : s[n] = Root(x)
    BY <1>3, <1>10
  <2>3. after[n] = Rewrite(u, h, Root(x), old[s[n]], env[x])
    BY <1>2, <1>7, <1>9, <2>2
  <2>4. IsJson(ToJson(h, env[x]))
    BY DenotedJson DEF EnvSound
  <2> HIDE DEF u
  <2>5. Accounted(u.state, Root(x), ToJson(h, env[x]))
    BY <2>1, <2>4, RootAccounted DEF Ledger
  <2>6. Ledger(after[n])
    BY <2>1, <2>3, <2>5, RewriteLedger
  <2> QED
    BY <2>6
<1>13. N \in S
  <2> HIDE DEF S
  <2> QED
    BY <1>11, <1>12, Counting
<1> QED
  BY <1>1, <1>7, <1>9, <1>13

\* What a frame that has a trace owes its reader.
Sealed(f) == f.trace.on = TRUE => Ledger(f.trace)

LEMMA TraceAssignLedger ==
  ASSUME NEW h, HeapSound(h), NEW ts, ts.on = TRUE => Ledger(ts), NEW x, NEW o, NEW v, Denotes(h, v),
         TraceAssign(ts, h, x, o, v).on = TRUE
  PROVE  Ledger(TraceAssign(ts, h, x, o, v))
<1>1. CASE ts.on = TRUE
  <2>1. TraceAssign(ts, h, x, o, v) = Rewrite(ts, h, Root(x), o, v)
    BY <1>1 DEF TraceAssign
  <2>2. Ledger(ts)
    BY <1>1
  <2>3. IsJson(ToJson(h, v))
    BY DenotedJson
  <2>4. Accounted(ts.state, Root(x), ToJson(h, v))
    BY <2>2, <2>3, RootAccounted DEF Ledger
  <2> QED
    BY <2>1, <2>2, <2>4, RewriteLedger
<1>2. CASE ts.on # TRUE
  BY <1>2 DEF TraceAssign
<1> QED
  BY <1>1, <1>2

LEMMA AssignedLedger ==
  ASSUME NEW h, HeapSound(h), NEW f, FrameOK(h, f), Sealed(f), NEW x, NEW v, Denotes(h, v)
  PROVE  Sealed(Assigned(f, h, x, v))
<1> DEFINE g == Assigned(f, h, x, v)
<1>1. g.trace = TraceAssign(f.trace, h, x, Old(f, x), v)
  BY DEF Assigned, FrameOK
<1> HIDE DEF g
<1>2. Sealed(g)
  BY <1>1, TraceAssignLedger DEF Sealed
<1> QED
  BY <1>2 DEF g

LEMMA BeginLedger ==
  ASSUME NEW ts, Ledger(ts)
  PROVE  Ledger(Begin(ts))
<1> DEFINE b == Begin(ts)
<1>1. DOMAIN ts = TraceFields /\ ts.loops \in Nat
  BY DEF Ledger
<1>2. /\ DOMAIN b = TraceFields /\ b.state = ts.state /\ b.digest = ts.digest
      /\ b.loops = ts.loops + 1 /\ b.begun = TRUE /\ b.changes = ts.changes
      /\ b.seen = ts.seen /\ b.reader = ts.reader
      /\ (ts.begun = TRUE => b.previous = ts.previous)
  BY <1>1 DEF Begin, TraceFields
<1> HIDE DEF b
<1>3. Ledger(b)
  BY <1>1, <1>2 DEF Ledger
<1> QED
  BY <1>3 DEF b

LEMMA EndLedger ==
  ASSUME NEW ts, Ledger(ts), ts.loops > 0
  PROVE  Ledger(End(ts))
<1> DEFINE b == End(ts)
<1>1. DOMAIN ts = TraceFields /\ ts.loops \in Nat /\ ts.begun = TRUE
  BY DEF Ledger
<1>2. /\ DOMAIN b = TraceFields /\ b.state = ts.state /\ b.digest = ts.digest
      /\ b.loops = ts.loops - 1 /\ b.begun = ts.begun /\ b.changes = << >>
      /\ b.seen = TRUE /\ b.previous = ts.digest
      /\ b.reader = (IF ts.seen THEN Replay(ts.reader, ts.changes) ELSE ts.state)
  BY <1>1 DEF End, Flush, TraceFields
<1>3. b.reader = ts.state
  BY <1>2 DEF Ledger, Reaches
<1> HIDE DEF b
<1>4. Reaches(ts.state, << >>, ts.state)
  BY EmptyIs, ReplayNone DEF Reaches
<1>5. b.loops \in Nat
  BY <1>1, <1>2
<1>6. Ledger(b)
  BY <1>1, <1>2, <1>3, <1>4, <1>5 DEF Ledger, Reaches
<1> QED
  BY <1>6 DEF b

\* A write into an array or a struct is accounted for in every frame's journal.
LEMMA IndexLedger ==
  ASSUME NEW h, HeapSound(h), NEW env, EnvSound(h, env), NEW ts, Exact(ts, h, env), Ledger(ts),
         NEW t \in Tables, t \in DOMAIN h, NEW i \in 1 .. Len(h[t]), NEW r \in Rows, r \in DOMAIN h, NEW o
  PROVE  Ledger(Mutation(ts, h, t, ToItem(i), o, Row(r)))
<1> DEFINE places == {Extended(p, ToItem(i)) : p \in PathsOf(ts, t)}
           H == Holders(env, t)
           j == ToJson(h, Row(r))
           objects == Objects(h, t)
<1>1. PathsOf(ts, t) = {Root(x) : x \in H}
  BY TablePaths
<1>2. PICK n \in Nat : n = Len(h[t]) /\ n <= MaxLength
  <2>1. Len(h[t]) \in 0 .. MaxLength
    BY TablesAre
  <2> QED
    BY <2>1, SizesAssumption
<1>3. i \in Nat \ {0} /\ i - 1 \in Whole .. MaxLength
  BY <1>2, SizesAssumption DEF Whole
<1>4. IsFiniteSet(places)
  <2>1. ASSUME NEW x \in H
        PROVE  Extended(Root(x), ToItem(i)) \in PathsOver(FALSE)
    <3> DEFINE q == <<x, i - 1>>
    <3>1. q \in Names \X (Whole .. MaxLength)
      BY <1>3 DEF Holders, EnvSound
    <3>2. [root |-> q[1], index |-> q[2], field |-> FALSE] \in PathsOver(FALSE)
      BY <3>1 DEF PathsOver
    <3>3. Extended(Root(x), ToItem(i)) = [root |-> x, index |-> i - 1, field |-> FALSE]
      BY <1>3 DEF Extended, ToItem, Root, Whole
    <3> QED
      BY <3>2, <3>3
  <2>2. places \in SUBSET PathsOver(FALSE)
    BY <1>1, <2>1
  <2> HIDE DEF places
  <2> QED
    BY <2>2, PathsAreFinite
<1>5. IsObject(j)
  BY RowIsObject
<1>6. /\ ToJson(h, <<"table", t>>) = <<"array", objects>> /\ IsArray(<<"array", objects>>)
      /\ Len(objects) = Len(h[t])
  BY TableIsArray
<1>7. ASSUME NEW x \in H
      PROVE  PlaceFits(ts.state, Extended(Root(x), ToItem(i)), j)
  <2>1. x \in DOMAIN env /\ env[x] = <<"table", t>>
    BY DEF Holders
  <2>2. x \in DOMAIN ts.state /\ ts.state[x] = ToJson(h, env[x])
    BY <2>1 DEF Exact, Copy
  <2> DEFINE s == ts.state
  <2> HIDE DEF objects, j
  <2>3. s[x] = <<"array", objects>>
    BY <1>6, <2>1, <2>2
  <2>4. s[x][2] = objects
    BY <2>3
  <2>5. HasItem(s, x, i)
    BY <1>6, <2>2, <2>3, <2>4 DEF HasItem
  <2>6. i \in 1 .. Len(s[x][2])
    BY <1>6, <2>4
  <2>7. Extended(Root(x), ToItem(i)) = Item(Root(x), i)
    BY DEF Item
  <2> HIDE DEF s
  <2>8. PlaceFits(s, Extended(Root(x), ToItem(i)), j)
    BY <1>5, <2>2, <2>5, <2>6, <2>7 DEF PlaceFits, s
  <2> QED
    BY <2>8 DEF s
<1>8. \A p \in PathsOf(ts, t) : PlaceFits(ts.state, Extended(p, ToItem(i)), j)
  BY <1>1, <1>7
<1> QED
  BY <1>4, <1>8, MutationLedger

LEMMA FieldLedger ==
  ASSUME NEW h, HeapSound(h), NEW env, EnvSound(h, env), NEW ts, Exact(ts, h, env), Ledger(ts),
         NEW r \in Rows, r \in DOMAIN h, NEW n \in Ints, NEW o
  PROVE  Ledger(Mutation(ts, h, r, ToField, o, Num(n)))
<1> DEFINE places == {Extended(p, ToField) : p \in PathsOf(ts, r)}
           j == ToJson(h, Num(n))
           s == ts.state
<1>1. \A p : p \in PathsOf(ts, r) <=> \E x \in DOMAIN env : RowAt(h, env, r, x, p)
  BY RowPaths
<1>2. IsFiniteSet(places)
  <2>1. \A p \in PathsOf(ts, r) : Field(p) \in PathsOver(TRUE)
    BY <1>1, PlacesAreOver
  <2>2. places \in SUBSET PathsOver(TRUE)
    BY <2>1 DEF Field
  <2> HIDE DEF places
  <2> QED
    BY <2>2, PathsAreFinite
<1>3. IsInt(j)
  BY NumJson DEF IsInt
<1>4. DOMAIN s = DOMAIN env /\ \A x \in DOMAIN env : s[x] = ToJson(h, env[x])
  BY DEF Exact, Copy
<1> HIDE DEF j, s
<1>5. ASSUME NEW p \in PathsOf(ts, r)
      PROVE  PlaceFits(s, Extended(p, ToField), j)
  <2>1. PICK x \in DOMAIN env : RowAt(h, env, r, x, p)
    BY <1>1
  <2>2. Extended(p, ToField) = Field(p)
    BY DEF Field
  <2>3. CASE env[x] = Row(r) /\ p = Root(x)
    <3>1. IsObject(s[x])
      BY <1>4, <2>3, RowIsObject
    <3> QED
      BY <1>3, <1>4, <2>2, <2>3, <3>1 DEF PlaceFits
  <2>4. CASE \E t \in Tables : /\ env[x] = <<"table", t>>
                               /\ \E i \in 1 .. Len(h[t]) : h[t][i] = r /\ p = Item(Root(x), i)
    <3>1. PICK t \in Tables : /\ env[x] = <<"table", t>>
                              /\ \E i \in 1 .. Len(h[t]) : h[t][i] = r /\ p = Item(Root(x), i)
      BY <2>4
    <3>2. PICK i \in 1 .. Len(h[t]) : p = Item(Root(x), i)
      BY <3>1
    <3>3. t \in DOMAIN h
      <4>1. IsContainer(env[x]) /\ env[x][2] = t
        BY <3>1 DEF IsContainer
      <4> QED
        BY <4>1 DEF EnvSound, Denotes
    <3> DEFINE objects == Objects(h, t)
    <3>4. /\ ToJson(h, <<"table", t>>) = <<"array", objects>> /\ IsArray(<<"array", objects>>)
          /\ Len(objects) = Len(h[t])
      BY <3>3, TableIsArray
    <3> HIDE DEF objects
    <3>5. s[x] = <<"array", objects>>
      BY <1>4, <3>1, <3>4
    <3>6. s[x][2] = objects
      BY <3>5
    <3>7. i \in 1 .. Len(s[x][2])
      BY <3>4, <3>6
    <3>8. HasItem(s, x, i)
      BY <1>4, <3>4, <3>5, <3>7 DEF HasItem
    <3> QED
      BY <1>3, <1>4, <2>2, <3>2, <3>7, <3>8 DEF PlaceFits
  <2> QED
    BY <2>1, <2>3, <2>4 DEF RowAt
<1> QED
  BY <1>2, <1>5, MutationLedger DEF s, j

-----------------------------------------------------------------------------
(* The journals of the frames.                                               *)

Ledgers(fs) == \A i \in DOMAIN fs : Sealed(fs[i])

JInv == Inv /\ Ledgers(frames)

LEMMA GotoLedgers ==
  ASSUME NEW h, NEW fs, Ledgers(fs), NEW e, Goto(h, fs, e)
  PROVE  Ledgers(frames)'
<1>1. frames' = fs
  BY DEF Goto
<1> QED
  BY <1>1

LEMMA SetTopLedgers ==
  ASSUME Ledgers(frames), NEW f, Sealed(f)
  PROVE  Ledgers(SetTop(f))
<1> DEFINE fs == SetTop(f)
<1>1. DOMAIN fs = DOMAIN frames /\ \A i \in DOMAIN frames : fs[i] = f \/ fs[i] = frames[i]
  BY DEF SetTop
<1> HIDE DEF fs
<1>2. Ledgers(fs)
  BY <1>1 DEF Ledgers
<1> QED
  BY <1>2 DEF fs

LEMMA JInvParts ==
  ASSUME JInv
  PROVE  /\ Inv /\ Ledgers(frames)
         /\ WellFormed(heap, frames) /\ HeapSound(heap) /\ IsSeq(frames)
         /\ \A i \in DOMAIN frames : FrameOK(heap, frames[i]) /\ Sealed(frames[i])
         /\ frames # << >> => FrameOK(heap, Top) /\ Sealed(Top)
<1>1. Inv /\ Ledgers(frames)
  BY DEF JInv
<1>2. frames # << >> => Sealed(Top)
  BY <1>1, InvParts, TopSound DEF Ledgers, Top
<1> QED
  BY <1>1, <1>2, InvParts DEF Ledgers

\* The running frame gives a variable a value that is there in the heap h.
LEMMA AssignLedgers ==
  ASSUME JInv, frames # << >>, NEW h, HeapSound(h), FrameOK(h, Top), NEW x, NEW v, Denotes(h, v),
         NEW e, Goto(h, SetTop(Assigned(Top, h, x, v)), e)
  PROVE  Ledgers(frames)'
<1>1. Sealed(Assigned(Top, h, x, v))
  BY JInvParts, AssignedLedger
<1>2. Ledgers(SetTop(Assigned(Top, h, x, v)))
  BY <1>1, SetTopLedgers DEF JInv
<1> QED
  BY <1>2, GotoLedgers

LEMMA AssignJournal ==
  ASSUME JInv, NEW x \in Names, Assign(x)
  PROVE  Ledgers(frames)'
<1>1. frames # << >>
  BY DEF Assign, Between, Running
<1>2. HeapSound(heap) /\ FrameOK(heap, Top)
  BY <1>1, JInvParts
<1>3. PICK v \in Operands(Top) : Goto(heap, SetTop(Assigned(Top, heap, x, v)), NoEvent)
  BY DEF Assign
<1>4. Denotes(heap, v)
  BY <1>2, OperandsDenote
<1> QED
  BY <1>1, <1>2, <1>3, <1>4, AssignLedgers

LEMMA AssignNewJournal ==
  ASSUME JInv, frames # << >>, NEW x \in Names,
         NEW c, c \notin DOMAIN heap, NEW k, Contents(With(heap, c, k), c),
         NEW v \in Values, v[2] = c,
         Goto(With(heap, c, k), SetTop(Assigned(Top, With(heap, c, k), x, v)), NoEvent)
  PROVE  Ledgers(frames)'
<1> DEFINE h == With(heap, c, k)
<1>1. WellFormed(heap, frames)
  BY JInvParts
<1>2. WellFormed(h, frames)
  BY <1>1, WithSound
<1>3. c \in DOMAIN h
  BY DEF With
<1>4. Goto(h, SetTop(Assigned(Top, h, x, v)), NoEvent)
  OBVIOUS
<1> HIDE DEF h
<1>5. Denotes(h, v)
  BY <1>3 DEF Denotes
<1>6. HeapSound(h) /\ FrameOK(h, Top)
  BY <1>2, TopSound DEF WellFormed
<1> QED
  BY <1>4, <1>5, <1>6, AssignLedgers

LEMMA AssignNewRowJournal ==
  ASSUME JInv, NEW x \in Names, AssignNewRow(x)
  PROVE  Ledgers(frames)'
<1>1. frames # << >>
  BY DEF AssignNewRow, Between, Running
<1>2. PICK r \in Free(Rows), n \in Ints :
        Goto(With(heap, r, n), SetTop(Assigned(Top, With(heap, r, n), x, Row(r))), NoEvent)
  BY DEF AssignNewRow
<1>3. r \in Rows /\ r \notin DOMAIN heap
  BY DEF Free
<1>4. Contents(With(heap, r, n), r)
  BY <1>3 DEF Contents, With
<1>5. Row(r) \in Values /\ Row(r)[2] = r
  BY <1>3, RowJson DEF Values
<1> QED
  BY <1>1, <1>2, <1>3, <1>4, <1>5, AssignNewJournal

LEMMA AssignNewTableJournal ==
  ASSUME JInv, NEW x \in Names, AssignNewTable(x)
  PROVE  Ledgers(frames)'
<1>1. frames # << >>
  BY DEF AssignNewTable, Between, Running
<1>2. PICK t \in Free(Tables), k \in 1 .. MaxLength :
        \E items \in [1 .. k -> RowsAtHand(Top)] :
          Goto(With(heap, t, items), SetTop(Assigned(Top, With(heap, t, items), x, <<"table", t>>)), NoEvent)
  BY DEF AssignNewTable
<1>3. PICK items \in [1 .. k -> RowsAtHand(Top)] :
          Goto(With(heap, t, items), SetTop(Assigned(Top, With(heap, t, items), x, <<"table", t>>)), NoEvent)
  BY <1>2
<1>4. t \in Tables /\ t \notin DOMAIN heap
  BY DEF Free
<1>5. Contents(With(heap, t, items), t)
  BY <1>1, <1>4, NewTableContents, JInvParts
<1>6. <<"table", t>> \in Values /\ <<"table", t>>[2] = t
  BY <1>4 DEF Values
<1> QED
  BY <1>1, <1>3, <1>4, <1>5, <1>6, AssignNewJournal

\* A write is sent to every frame that has a trace.
LEMMA MutatedLedgers ==
  ASSUME JInv, NEW c, NEW suffix, NEW o, NEW v,
         \A ts, env : /\ EnvSound(heap, env) /\ Exact(ts, heap, env) /\ Ledger(ts)
                      => Ledger(Mutation(ts, heap, c, suffix, o, v))
  PROVE  Ledgers(Mutated(c, suffix, o, v))
<1> DEFINE fs == Mutated(c, suffix, o, v)
<1>1. DOMAIN fs = DOMAIN frames
  BY DEF Mutated
<1>2. ASSUME NEW i \in DOMAIN frames
      PROVE  Sealed(fs[i])
  <2> DEFINE f == frames[i]
             m == Mutation(f.trace, heap, c, suffix, o, v)
  <2>1. FrameOK(heap, f) /\ Sealed(f)
    BY JInvParts
  <2>2. fs[i].trace = m
    BY <2>1 DEF Mutated, FrameOK
  <2> HIDE DEF fs
  <2>3. CASE f.trace = NoTrace
    <3>1. m = NoTrace
      BY <2>3, MutatedOff
    <3>2. fs[i].trace.on # TRUE
      BY <2>2, <3>1 DEF NoTrace
    <3> QED
      BY <3>2 DEF Sealed
  <2>4. CASE Exact(f.trace, heap, Uncovered(f))
    <3>1. EnvSound(heap, Uncovered(f))
      BY <2>1, UncoveredSound DEF FrameOK, UncoveredIs
    <3>2. Ledger(f.trace)
      BY <2>1, <2>4 DEF Sealed, Exact
    <3>3. Ledger(m)
      BY <2>4, <3>1, <3>2
    <3> QED
      BY <2>2, <3>3 DEF Sealed
  <2> QED
    BY <2>1, <2>3, <2>4 DEF FrameOK
<1> QED
  BY <1>1, <1>2 DEF Ledgers

LEMMA IndexAssignJournal ==
  ASSUME JInv, IndexAssign
  PROVE  Ledgers(frames)'
<1>1. frames # << >>
  BY DEF IndexAssign, Between, Running
<1>2. HeapSound(heap) /\ FrameOK(heap, Top)
  BY <1>1, JInvParts
<1>3. PICK v \in Bound(Top), r \in RowsAtHand(Top) :
        /\ v[1] = "table"
        /\ \E i \in DOMAIN heap[v[2]] :
              Goto([heap EXCEPT ![v[2]][i] = r],
                   Mutated(v[2], ToItem(i), Row(heap[v[2]][i]), Row(r)), NoEvent)
  BY DEF IndexAssign
<1> DEFINE t == v[2]
<1>4. PICK i \in DOMAIN heap[t] :
              Goto([heap EXCEPT ![v[2]][i] = r], Mutated(t, ToItem(i), Row(heap[t][i]), Row(r)), NoEvent)
  BY <1>3
<1>5. t \in Tables /\ t \in DOMAIN heap
  BY <1>2, <1>3, TableAtHand
<1>6. i \in 1 .. Len(heap[t])
  BY <1>2, <1>5, TablesAre
<1>7. r \in Rows /\ r \in DOMAIN heap
  BY <1>2, RowsAtHandAreLive
<1> HIDE DEF t
<1>8. \A ts, env : /\ EnvSound(heap, env) /\ Exact(ts, heap, env) /\ Ledger(ts)
                   => Ledger(Mutation(ts, heap, t, ToItem(i), Row(heap[t][i]), Row(r)))
  BY <1>2, <1>5, <1>6, <1>7, IndexLedger
<1>9. Ledgers(Mutated(t, ToItem(i), Row(heap[t][i]), Row(r)))
  BY <1>8, MutatedLedgers
<1> QED
  BY <1>4, <1>9, GotoLedgers

LEMMA FieldAssignJournal ==
  ASSUME JInv, FieldAssign
  PROVE  Ledgers(frames)'
<1>1. frames # << >>
  BY DEF FieldAssign, Between, Running
<1>2. HeapSound(heap) /\ FrameOK(heap, Top)
  BY <1>1, JInvParts
<1>3. PICK r \in RowsAtHand(Top), n \in Ints :
        Goto([heap EXCEPT ![r] = n], Mutated(r, ToField, Num(heap[r]), Num(n)), NoEvent)
  BY DEF FieldAssign
<1>4. r \in Rows /\ r \in DOMAIN heap
  BY <1>2, RowsAtHandAreLive
<1>5. \A ts, env : /\ EnvSound(heap, env) /\ Exact(ts, heap, env) /\ Ledger(ts)
                   => Ledger(Mutation(ts, heap, r, ToField, Num(heap[r]), Num(n)))
  BY <1>2, <1>4, FieldLedger
<1>6. Ledgers(Mutated(r, ToField, Num(heap[r]), Num(n)))
  BY <1>5, MutatedLedgers
<1> QED
  BY <1>3, <1>6, GotoLedgers

LEMMA LoopStartJournal ==
  ASSUME JInv, TraceLoopStart
  PROVE  Ledgers(frames)'
<1>1. frames # << >> /\ Top.trace.on /\ Goto(heap, SetTop([Top EXCEPT !.trace = Begin(@)]), NoEvent)
  BY DEF TraceLoopStart, Between, Running
<1>2. FrameOK(heap, Top) /\ Sealed(Top)
  BY <1>1, JInvParts
<1> DEFINE f == [Top EXCEPT !.trace = Begin(@)]
<1>3. f.trace = Begin(Top.trace)
  BY <1>2 DEF FrameOK
<1>4. Ledger(Top.trace)
  BY <1>1, <1>2 DEF Sealed
<1>5. Goto(heap, SetTop(f), NoEvent)
  BY <1>1
<1> HIDE DEF f
<1>6. Sealed(f)
  BY <1>3, <1>4, BeginLedger DEF Sealed
<1>7. Ledgers(SetTop(f))
  BY <1>6, SetTopLedgers DEF JInv
<1> QED
  BY <1>5, <1>7, GotoLedgers

LEMMA LoopEndJournal ==
  ASSUME JInv, TraceLoopEnd
  PROVE  Ledgers(frames)'
<1>1. frames # << >> /\ Top.trace.loops > 0
  BY DEF TraceLoopEnd, Between, Running
<1>2. PICK e : Goto(heap, SetTop([Top EXCEPT !.trace = End(@)]), e)
  BY DEF TraceLoopEnd
<1>3. FrameOK(heap, Top) /\ Sealed(Top)
  BY <1>1, JInvParts
<1> DEFINE f == [Top EXCEPT !.trace = End(@)]
<1>4. f.trace = End(Top.trace)
  BY <1>3 DEF FrameOK
<1>5. Ledger(Top.trace)
  <2>1. Top.trace.loops # 0
    BY <1>1
  <2> QED
    BY <1>3, <2>1, TracedIsExact DEF Sealed
<1>6. Goto(heap, SetTop(f), e)
  BY <1>2
<1> HIDE DEF f
<1>7. Sealed(f)
  BY <1>1, <1>4, <1>5, EndLedger DEF Sealed
<1>8. Ledgers(SetTop(f))
  BY <1>7, SetTopLedgers DEF JInv
<1> QED
  BY <1>6, <1>8, GotoLedgers

\* A frame that starts has an empty journal.
LEMMA StartLedger ==
  ASSUME NEW h, HeapSound(h), NEW env, EnvSound(h, env), NEW ts,
         ts = NoTrace \/ ts = NewTrace(h, env)
  PROVE  Sealed(Frame(env, ts))
<1>1. Frame(env, ts).trace = ts
  BY DEF Frame
<1>2. NoTrace.on # TRUE
  BY DEF NoTrace
<1>3. Ledger(NewTrace(h, env))
  BY NewTraceLedger
<1> QED
  BY <1>1, <1>2, <1>3 DEF Sealed

LEMMA CallJournal ==
  ASSUME JInv, NEW traceable \in BOOLEAN, Call(traceable)
  PROVE  Ledgers(frames)'
<1>1. frames # << >>
  BY DEF Call, Running
<1>2. HeapSound(heap) /\ FrameOK(heap, Top) /\ IsSeq(frames) /\ Ledgers(frames)
  BY <1>1, JInvParts
<1>3. PICK env \in [Params -> Operands(Top)] :
         Goto(heap, Append(frames, Frame(env, IF traceable THEN NewTrace(heap, env) ELSE NoTrace)), NoEvent)
  BY DEF Call
<1> DEFINE f == Frame(env, IF traceable THEN NewTrace(heap, env) ELSE NoTrace)
           fs == Append(frames, f)
<1>4. EnvSound(heap, env)
  <2>1. \A x \in DOMAIN env : Denotes(heap, env[x])
    BY <1>2, OperandsDenote
  <2> QED
    BY <2>1, SizesAssumption DEF EnvSound
<1>5. Sealed(f)
  BY <1>2, <1>4, StartLedger
<1> HIDE DEF f
<1>6. \A i \in DOMAIN fs : fs[i] = f \/ (i \in DOMAIN frames /\ fs[i] = frames[i])
  BY <1>2, AppendIs
<1>7. Goto(heap, fs, NoEvent)
  BY <1>3 DEF f
<1> HIDE DEF fs
<1>8. Ledgers(fs)
  BY <1>2, <1>5, <1>6 DEF Ledgers
<1> QED
  BY <1>7, <1>8, GotoLedgers

LEMMA ReturnJournal ==
  ASSUME JInv, Return
  PROVE  Ledgers(frames)'
<1>1. frames # << >>
  BY DEF Return, Between, Running
<1>2. PICK e : Goto(heap, Front(frames), e)
  BY DEF Return
<1>3. IsSeq(frames) /\ Ledgers(frames)
  BY JInvParts
<1>4. \A i \in DOMAIN Front(frames) : i \in DOMAIN frames /\ Front(frames)[i] = frames[i]
  BY <1>1, <1>3, FrontIs
<1>5. Ledgers(Front(frames))
  BY <1>3, <1>4 DEF Ledgers
<1> QED
  BY <1>2, <1>5, GotoLedgers

LEMMA ReturnIntoJournal ==
  ASSUME JInv, NEW x \in Names, ReturnInto(x)
  PROVE  Ledgers(frames)'
<1> DEFINE caller == frames[Len(frames) - 1]
           back(v) == [i \in 1 .. Len(frames) - 1 |->
                         IF i < Len(frames) - 1 THEN frames[i] ELSE Assigned(caller, heap, x, v)]
<1>1. frames # << >> /\ Len(frames) > 1
  BY DEF ReturnInto, Between, Running
<1>2. PICK v \in Operands(Top) : \E e : Goto(heap, back(v), e)
  BY DEF ReturnInto
<1>3. PICK e : Goto(heap, back(v), e)
  BY <1>2
<1>4. HeapSound(heap) /\ FrameOK(heap, Top) /\ IsSeq(frames)
      /\ \A i \in DOMAIN frames : FrameOK(heap, frames[i]) /\ Sealed(frames[i])
  BY <1>1, JInvParts
<1>5. PICK n \in Nat : n = Len(frames) /\ DOMAIN frames = 1 .. n
  BY <1>4 DEF IsSeq
<1>6. n - 1 \in DOMAIN frames
  BY <1>1, <1>5
<1>7. FrameOK(heap, caller) /\ Sealed(caller)
  BY <1>4, <1>5, <1>6
<1>8. Denotes(heap, v)
  BY <1>4, OperandsDenote
<1> DEFINE fs == back(v)
           a == Assigned(caller, heap, x, v)
<1>9. Sealed(a)
  <2> HIDE DEF caller
  <2> QED
    BY <1>4, <1>7, <1>8, AssignedLedger
<1>10. DOMAIN fs = 1 .. n - 1 /\ \A i \in 1 .. n - 1 : fs[i] = frames[i] \/ fs[i] = a
  <2> HIDE DEF a
  <2> QED
    BY <1>5 DEF a
<1> HIDE DEF fs, a
<1>11. \A i \in 1 .. n - 1 : i \in DOMAIN frames
  BY <1>5
<1>12. Ledgers(fs)
  BY <1>4, <1>9, <1>10, <1>11 DEF Ledgers
<1>13. Goto(heap, fs, e)
  BY <1>3 DEF fs
<1> QED
  BY <1>12, <1>13, GotoLedgers

LEMMA BindArmJournal ==
  ASSUME JInv, NEW x \in Names, BindArm(x)
  PROVE  Ledgers(frames)'
<1>1. frames # << >>
  BY DEF BindArm, Between, Running
<1>2. FrameOK(heap, Top) /\ Sealed(Top)
  BY <1>1, JInvParts
<1>3. PICK v \in Operands(Top) :
         Goto(heap, SetTop([Top EXCEPT !.env = SetRoot(@, x, v), !.arm = <<x, Old(Top, x)>>]), NoEvent)
  BY DEF BindArm
<1> DEFINE g == [Top EXCEPT !.env = SetRoot(@, x, v), !.arm = <<x, Old(Top, x)>>]
<1>4. g.trace = Top.trace
  BY <1>2 DEF FrameOK
<1>5. Goto(heap, SetTop(g), NoEvent)
  BY <1>3
<1> HIDE DEF g
<1>6. Sealed(g)
  BY <1>2, <1>4 DEF Sealed
<1>7. Ledgers(SetTop(g))
  BY <1>6, SetTopLedgers DEF JInv
<1> QED
  BY <1>5, <1>7, GotoLedgers

LEMMA GuardHoldsJournal ==
  ASSUME JInv, GuardHolds
  PROVE  Ledgers(frames)'
<1> DEFINE x == Top.arm[1]
           ts == TraceAssign(Top.trace, heap, x, Top.arm[2], Top.env[x])
           g == [Top EXCEPT !.arm = << >>,
                   !.trace = TraceAssign(@, heap, x, Top.arm[2], Top.env[x])]
<1>1. frames # << >> /\ Top.arm # << >> /\ Goto(heap, SetTop(g), NoEvent)
  BY DEF GuardHolds, Running
<1>2. HeapSound(heap) /\ FrameOK(heap, Top) /\ Sealed(Top)
  BY <1>1, JInvParts
<1>3. Denotes(heap, Top.env[x])
  <2>1. x \in DOMAIN Top.env
    BY <1>1, <1>2, ArmIs
  <2> QED
    BY <1>2, <2>1 DEF FrameOK, EnvSound
<1>4. g.trace = ts
  BY <1>2 DEF FrameOK
<1> HIDE DEF g, x
<1>5. Sealed(g)
  BY <1>2, <1>3, <1>4, TraceAssignLedger DEF Sealed
<1>6. Ledgers(SetTop(g))
  BY <1>5, SetTopLedgers DEF JInv
<1> QED
  BY <1>1, <1>6, GotoLedgers

LEMMA GuardFailsJournal ==
  ASSUME JInv, GuardFails
  PROVE  Ledgers(frames)'
<1> DEFINE g == [Top EXCEPT !.arm = << >>, !.env = Uncovered(Top)]
<1>1. frames # << >> /\ Goto(heap, SetTop(g), NoEvent)
  BY DEF GuardFails, Running
<1>2. FrameOK(heap, Top) /\ Sealed(Top)
  BY <1>1, JInvParts
<1>3. g.trace = Top.trace
  BY <1>2 DEF FrameOK
<1> HIDE DEF g
<1>4. Sealed(g)
  BY <1>2, <1>3 DEF Sealed
<1>5. Ledgers(SetTop(g))
  BY <1>4, SetTopLedgers DEF JInv
<1> QED
  BY <1>1, <1>5, GotoLedgers

LEMMA JInitSound ==
  ASSUME Init
  PROVE  JInv
<1>1. Inv
  BY InitSound
<1>2. PICK field \in [Rows -> Ints], items \in [Tables -> BoundedSeq(Rows, MaxLength) \ {<< >>}] :
         \E env \in [Results -> Values] :
            LET all == [c \in Rows \cup Tables |-> IF c \in Rows THEN field[c] ELSE items[c]]
                h == [c \in Live(all, <<Frame(env, NoTrace)>>) |-> all[c]]
            IN  /\ heap = h
                /\ frames = << Frame(env, NewTrace(h, env)) >>
  BY DEF Init
<1>3. PICK env \in [Results -> Values] : frames = << Frame(env, NewTrace(heap, env)) >>
  BY <1>2
<1> DEFINE f == Frame(env, NewTrace(heap, env))
<1>4. frames = << f >> /\ f.env = env
  BY <1>3 DEF Frame
<1> HIDE DEF f
<1>5. DOMAIN frames = {1} /\ frames[1] = f
  BY <1>4
<1>6. HeapSound(heap) /\ FrameOK(heap, f)
  BY <1>1, <1>5, InvParts
<1>7. EnvSound(heap, env)
  BY <1>4, <1>6 DEF FrameOK
<1>8. Sealed(f)
  BY <1>6, <1>7, StartLedger DEF f
<1>9. Ledgers(frames)
  BY <1>5, <1>8 DEF Ledgers
<1> QED
  BY <1>1, <1>9 DEF JInv

LEMMA JNextSound ==
  ASSUME JInv, [Next]_vars
  PROVE  JInv'
<1>1. Inv'
  BY NextSound DEF JInv
<1>2. Ledgers(frames)'
  <2>1. ASSUME NEW x \in Names, Assign(x)
        PROVE  Ledgers(frames)'
    BY <2>1, AssignJournal
  <2>2. ASSUME NEW x \in Names, AssignNewRow(x)
        PROVE  Ledgers(frames)'
    BY <2>2, AssignNewRowJournal
  <2>3. ASSUME NEW x \in Names, AssignNewTable(x)
        PROVE  Ledgers(frames)'
    BY <2>3, AssignNewTableJournal
  <2>4. CASE IndexAssign
    BY <2>4, IndexAssignJournal
  <2>5. CASE FieldAssign
    BY <2>5, FieldAssignJournal
  <2>6. CASE TraceLoopStart
    BY <2>6, LoopStartJournal
  <2>7. CASE TraceLoopEnd
    BY <2>7, LoopEndJournal
  <2>8. ASSUME NEW traceable \in BOOLEAN, Call(traceable)
        PROVE  Ledgers(frames)'
    BY <2>8, CallJournal
  <2>9. CASE Return
    BY <2>9, ReturnJournal
  <2>10. ASSUME NEW x \in Names, ReturnInto(x)
         PROVE  Ledgers(frames)'
    BY <2>10, ReturnIntoJournal
  <2>11. ASSUME NEW x \in Names, BindArm(x)
         PROVE  Ledgers(frames)'
    BY <2>11, BindArmJournal
  <2>12. CASE GuardHolds
    BY <2>12, GuardHoldsJournal
  <2>13. CASE GuardFails
    BY <2>13, GuardFailsJournal
  <2>14. CASE UNCHANGED vars
    <3>1. frames' = frames /\ Ledgers(frames)
      BY <2>14 DEF vars, JInv
    <3> QED
      BY <3>1
  <2> QED
    BY <2>1, <2>2, <2>3, <2>4, <2>5, <2>6, <2>7, <2>8, <2>9, <2>10, <2>11, <2>12, <2>13, <2>14
       DEF Next, Done
<1> QED
  BY <1>1, <1>2 DEF JInv

\* The journal of every traced frame is balanced: its digest is the hash of its
\* state, and its changes take the reader's state to its own.
THEOREM JournalsBalance == Spec => []JInv
<1>1. Init => JInv
  BY JInitSound
<1>2. JInv /\ [Next]_vars => JInv'
  BY JNextSound
<1> QED
  BY <1>1, <1>2, PTL DEF Spec

LEMMA JInvReplays ==
  ASSUME JInv
  PROVE  JournalReplays
<1>1. ASSUME NEW i \in Traced
      PROVE  LET ts == frames[i].trace
             IN  /\ ts.digest = HashState(ts.state)
                 /\ ts.seen => /\ Replay(ts.reader, ts.changes) = ts.state
                               /\ ts.previous = HashState(ts.reader)
  <2> DEFINE ts == frames[i].trace
  <2>1. i \in DOMAIN frames /\ ts.on
    BY DEF Traced
  <2>2. Sealed(frames[i])
    BY <2>1, JInvParts
  <2>3. Ledger(ts)
    BY <2>1, <2>2 DEF Sealed
  <2> HIDE DEF ts
  <2>4. ts.digest = HashState(ts.state)
    BY <2>3 DEF Ledger
  <2>5. ts.seen => Replay(ts.reader, ts.changes) = ts.state /\ ts.previous = HashState(ts.reader)
    BY <2>3 DEF Ledger, Reaches
  <2> QED
    BY <2>4, <2>5 DEF ts
<1> QED
  BY <1>1 DEF JournalReplays

\* A reader who starts from the checkpoint of a frame's first event and applies
\* the changes of the events since, each of which names what it replaces, has
\* the traced state, and the hashes are those of the states they stand for.
THEOREM ReadersCatchUp == Spec => []JournalReplays
<1>1. JInv => JournalReplays
  BY JInvReplays
<1> QED
  BY <1>1, JournalsBalance, PTL

=============================================================================
