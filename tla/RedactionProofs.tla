--------------------------- MODULE RedactionProofs ---------------------------
(***************************************************************************)
(* What the passes over a string keep and what they remove, for any values *)
(* and any string.                                                         *)
(***************************************************************************)
EXTENDS Redaction, Induction

\* Strings, and those that a definition names: the provers do not know these for strings.
Char == STRING \union Marks \union {"\\", Hole}
Sym  == [char : Char, at : Nat]

-----------------------------------------------------------------------------
\* Going over a sequence.

Scannable(s, chunk, next) ==
    /\ Len(s) \in Nat
    /\ \A i \in 1..Len(s) : next[i] \in (i + 1)..(Len(s) + 1)

\* Q[i] holds of what becomes of the sequence from i on.
Carried(Q, s, chunk, next) ==
    /\ <<>> \in Q[Len(s) + 1]
    /\ \A i \in 1..Len(s) : \A t \in Q[next[i]] : chunk[i] \o t \in Q[i]

LEMMA RewrittenIn ==
    ASSUME NEW s, NEW chunk, NEW next, NEW Q,
           Scannable(s, chunk, next), Carried(Q, s, chunk, next)
    PROVE  Rewritten(s, chunk, next) \in Q[1]
<1> DEFINE n == Len(s)
           At(f, i) == IF i > n THEN <<>> ELSE chunk[i] \o f[next[i]]
           Is(f) == f = [i \in 1..(n + 1) |-> At(f, i)]
           From(f, j) == \A i \in j..(n + 1) : f[i] = At(f, i)
           S == {j \in 1..(n + 1) : \E f : From(f, j)}
<1>1. n \in Nat /\ \A i \in 1..n : next[i] \in (i + 1)..(n + 1)
  BY DEF Scannable
<1>2. ASSUME NEW j \in 1..(n + 1), \A k \in (j + 1)..(n + 1) : k \in S PROVE j \in S
  <2>1. CASE j = n + 1
    <3> DEFINE f == [i \in 1..(n + 1) |-> <<>>]
    <3>1. \A i \in j..(n + 1) : i \in 1..(n + 1) /\ i > n
      BY <1>1, <2>1
    <3>2. From(f, j)
      <4> HIDE DEF n
      <4> QED
        BY <3>1
    <3> HIDE DEF f
    <3> QED
      BY <3>2
  <2>2. CASE j # n + 1
    <3>1. j + 1 \in (j + 1)..(n + 1)
      BY <1>1, <2>2
    <3>2. j + 1 \in S
      BY ONLY <1>2, <3>1
    <3>3. PICK g : From(g, j + 1)
      BY <3>2
    <3> DEFINE f == [i \in 1..(n + 1) |-> IF i = j THEN chunk[j] \o g[next[j]] ELSE g[i]]
    <3>4. \A i \in j..(n + 1) : i <= n => next[i] \in 1..(n + 1) /\ next[i] # j
      BY <1>1
    <3>5. From(f, j)
      <4>1. ASSUME NEW i \in j..(n + 1) PROVE f[i] = At(f, i)
        <5>1. i \in 1..(n + 1)
          BY <1>1
        <5>2. CASE i = j
          <6>1. f[i] = chunk[j] \o g[next[j]] /\ ~(i > n)
            <7>1. ~(i > n)
              BY <1>1, <2>2, <5>1, <5>2
            <7> HIDE DEF n
            <7> QED
              BY <7>1, <5>1, <5>2
          <6>2. f[next[i]] = g[next[j]]
            BY <3>4, <6>1, <5>2
          <6> QED
            BY <6>1, <6>2, <5>2
        <5>3. CASE i # j
          <6>1. i \in (j + 1)..(n + 1)
            BY <1>1, <5>3
          <6>2. f[i] = At(g, i)
            BY <3>3, <5>1, <5>3, <6>1
          <6>3. i <= n => f[next[i]] = g[next[i]]
            BY <3>4
          <6>4. i > n \/ i <= n
            BY <1>1
          <6> HIDE DEF f
          <6> QED
            BY <6>2, <6>3, <6>4
        <5> QED
          BY <5>2, <5>3
      <4> QED
        BY <4>1
    <3> HIDE DEF f
    <3> QED
      BY <3>5
  <2> QED
    BY <2>1, <2>2
<1>3. 1..(n + 1) \subseteq S
  <2>1. 1 \in Nat /\ n + 1 \in Nat
    BY <1>1
  <2> HIDE DEF n, S
  <2> QED
    BY <1>2, <2>1, Downwards
<1>4. PICK f : From(f, 1)
  <2>1. 1 \in S
    BY <1>1, <1>3, SMTT(60)
  <2> QED
    BY <2>1
<1>5. \E g : Is(g)
  <2> DEFINE g == [i \in 1..(n + 1) |-> f[i]]
  <2>1. ASSUME NEW i \in 1..(n + 1) PROVE f[i] = At(g, i)
    <3>1. i <= n => next[i] \in 1..(n + 1)
      BY <1>1
    <3>2. i <= n => g[next[i]] = f[next[i]]
      BY <3>1
    <3>3. i > n \/ i <= n
      BY <1>1
    <3>4. f[i] = At(f, i)
      BY <1>4
    <3> HIDE DEF g
    <3> QED
      BY <3>2, <3>3, <3>4
  <2>2. Is(g)
    BY <2>1
  <2> HIDE DEF g
  <2> QED
    BY <2>2
<1> DEFINE r == CHOOSE g : Is(g)
<1>6. Is(r)
  <2> HIDE DEF Is
  <2> QED
    BY <1>5
<1>7. Rewritten(s, chunk, next) = r[1]
  BY DEF Rewritten
<1> HIDE DEF r
<1> DEFINE T == {j \in 1..(n + 1) : r[j] \in Q[j]}
<1>8. ASSUME NEW j \in 1..(n + 1), \A k \in (j + 1)..(n + 1) : k \in T PROVE j \in T
  <2>1. r[j] = At(r, j)
    BY <1>6
  <2>2. CASE j = n + 1
    BY <1>1, <2>1, <2>2 DEF Carried
  <2>3. CASE j # n + 1
    <3>1. j \in 1..n /\ next[j] \in (j + 1)..(n + 1) /\ ~(j > n)
      BY <1>1, <2>3
    <3>2. r[next[j]] \in Q[next[j]]
      BY <3>1, <1>8
    <3>3. r[j] = chunk[j] \o r[next[j]]
      BY <2>1, <3>1
    <3>4. chunk[j] \o r[next[j]] \in Q[j]
      BY <3>1, <3>2 DEF Carried
    <3> QED
      BY <3>3, <3>4
  <2> QED
    BY <2>2, <2>3
<1>9. 1..(n + 1) \subseteq T
  <2>1. 1 \in Nat /\ n + 1 \in Nat
    BY <1>1
  <2> HIDE DEF n, T
  <2> QED
    BY <1>8, <2>1, Downwards
<1>10. 1 \in 1..(n + 1)
  BY <1>1
<1>11. 1 \in T
  BY ONLY <1>9, <1>10
<1> QED
  BY <1>7, <1>11

-----------------------------------------------------------------------------
\* Putting pieces one after another: off[i] elements are in the first i pieces.

Pieces(A, s, chunk) == Len(s) \in Nat /\ DOMAIN s = 1..Len(s) /\ \A i \in 1..Len(s) : chunk[i] \in Seq(A)

Offsets(off, s, chunk) ==
    /\ off \in [0..Len(s) -> Nat]
    /\ off[0] = 0
    /\ \A i \in 1..Len(s) : off[i] = off[i - 1] + Len(chunk[i])

Assembled(r, A, off, s, chunk) ==
    /\ r \in Seq(A)
    /\ Len(r) = off[Len(s)]
    /\ \A i \in 1..Len(s) : \A k \in 1..Len(chunk[i]) : r[off[i - 1] + k] = chunk[i][k]

LEMMA OffsetsExist ==
    ASSUME NEW A, NEW s, NEW chunk, Pieces(A, s, chunk)
    PROVE  \E off : Offsets(off, s, chunk)
<1> DEFINE n == Len(s)
           step == [k \in 1..n |-> [d \in Nat |-> d + Len(chunk[k])]]
<1>1. n \in Nat /\ \A k \in 1..n : Len(chunk[k]) \in Nat
  BY DEF Pieces
<1>2. Iterable(Nat, n, 0, step)
  BY <1>1 DEF Iterable
<1>3. PICK off : Iterates(off, Nat, n, 0, step)
  <2> HIDE DEF n, step
  <2> QED
    BY ONLY <1>2, Iteration
<1>4. off \in [0..n -> Nat] /\ off[0] = 0 /\ \A k \in 1..n : off[k] = step[k][off[k - 1]]
  <2> HIDE DEF n, step
  <2> QED
    BY <1>3 DEF Iterates
<1>5. ASSUME NEW k \in 1..n PROVE off[k] = off[k - 1] + Len(chunk[k])
  <2>1. k - 1 \in 0..n
    BY <1>1
  <2>2. off[k - 1] \in Nat
    BY <2>1, <1>4
  <2>3. step[k] = [d \in Nat |-> d + Len(chunk[k])]
    OBVIOUS
  <2> HIDE DEF n, step
  <2> QED
    BY <1>4, <2>2, <2>3
<1> QED
  BY <1>4, <1>5 DEF Offsets

LEMMA OffsetsGrow ==
    ASSUME NEW A, NEW s, NEW chunk, Pieces(A, s, chunk), NEW off, Offsets(off, s, chunk),
           NEW i \in 0..Len(s), NEW j \in i..Len(s)
    PROVE  off[i] <= off[j]
<1> DEFINE n == Len(s)
           S == {m \in i..n : off[i] <= off[m]}
<1>0. n \in Nat /\ i \in Nat /\ j \in Nat
  BY DEF Pieces
<1>1. ASSUME NEW m \in i..n, \A k \in i..(m - 1) : k \in S PROVE m \in S
  <2>1. CASE m = i
    BY <1>0, <2>1 DEF Offsets
  <2>2. CASE m # i
    <3>1. m \in 1..n /\ m - 1 \in i..(m - 1) /\ m - 1 \in 0..n /\ m \in 0..n /\ i \in 0..n
      BY <1>0, <2>2
    <3>2. m - 1 \in S
      BY ONLY <1>1, <3>1
    <3>3. off[m] = off[m - 1] + Len(chunk[m]) /\ Len(chunk[m]) \in Nat
      BY <3>1 DEF Offsets, Pieces
    <3>4. off[i] \in Nat /\ off[m - 1] \in Nat
      BY <3>1 DEF Offsets
    <3> QED
      BY <3>2, <3>3, <3>4
  <2> QED
    BY <2>1, <2>2
<1>2. i..n \subseteq S
  <2> HIDE DEF n, S
  <2> QED
    BY <1>0, <1>1, Upwards
<1> QED
  BY <1>2

LEMMA FlatIs ==
    ASSUME NEW A, NEW s, NEW chunk, Pieces(A, s, chunk), NEW off, Offsets(off, s, chunk)
    PROVE  Assembled(Flat(s, chunk), A, off, s, chunk)
<1> DEFINE n == Len(s)
           next == [i \in DOMAIN s |-> i + 1]
           Is(i, t) == /\ Len(t) = off[n] - off[i - 1]
                       /\ \A m \in i..n : \A k \in 1..Len(chunk[m]) :
                              t[off[m - 1] - off[i - 1] + k] = chunk[m][k]
           Q == [i \in 1..(n + 1) |-> {t \in Seq(A) : Is(i, t)}]
<1>1. n \in Nat /\ DOMAIN s = 1..n /\ \A k \in 1..n : chunk[k] \in Seq(A) /\ Len(chunk[k]) \in Nat
  BY DEF Pieces
<1>2. \A k \in 0..n : off[k] \in Nat
  BY DEF Offsets
<1>3. Scannable(s, chunk, next)
  BY <1>1 DEF Scannable
<1>4. <<>> \in Q[n + 1]
  <2>1. n + 1 \in 1..(n + 1) /\ n \in 0..n /\ n + 1 - 1 = n /\ (n + 1)..n = {}
    BY <1>1
  <2>2. Is(n + 1, <<>>)
    <3>1. off[n] - off[n + 1 - 1] = 0
      BY <1>2, <2>1
    <3> QED
      BY <2>1, <3>1
  <2>3. <<>> \in Seq(A)
    OBVIOUS
  <2> HIDE DEF Is, n
  <2> QED
    BY <2>1, <2>2, <2>3
<1>5. ASSUME NEW i \in 1..n, NEW t \in Q[i + 1] PROVE chunk[i] \o t \in Q[i]
  <2> DEFINE c == chunk[i]
             u == c \o t
  <2>1. i + 1 \in 1..(n + 1) /\ i \in 1..(n + 1) /\ i - 1 \in 0..n /\ i \in 0..n /\ i + 1 - 1 = i
    BY <1>1
  <2>2. t \in Seq(A) /\ Is(i + 1, t)
    <3> HIDE DEF Is, n
    <3> QED
      BY <2>1
  <2>3. c \in Seq(A) /\ Len(c) \in Nat
    BY <1>1
  <2>4. off[i] = off[i - 1] + Len(c) /\ off[i] \in Nat /\ off[i - 1] \in Nat /\ off[n] \in Nat
    <3>1. n \in 0..n
      BY <1>1
    <3> QED
      BY <1>2, <2>1, <3>1 DEF Offsets
  <2>5. /\ u \in Seq(A) /\ Len(u) = Len(c) + Len(t)
        /\ \A k \in 1..Len(c) : u[k] = c[k]
        /\ \A k \in 1..Len(t) : u[Len(c) + k] = t[k]
    <3> HIDE DEF c
    <3>1. /\ c \o t \in Seq(A) /\ Len(c \o t) = Len(c) + Len(t)
          /\ \A k \in 1..(Len(c) + Len(t)) :
                 (c \o t)[k] = IF k <= Len(c) THEN c[k] ELSE t[k - Len(c)]
      BY ONLY <2>2, <2>3, ConcatProperties
    <3>2. Len(t) \in Nat
      BY <2>2
    <3> QED
      BY <2>3, <3>1, <3>2
  <2>6. Len(t) = off[n] - off[i]
    BY <2>1, <2>2
  <2>7. Len(u) = off[n] - off[i - 1]
    BY <2>4, <2>5, <2>6, SMTT(60)
  <2>8. ASSUME NEW m \in i..n, NEW k \in 1..Len(chunk[m])
        PROVE  u[off[m - 1] - off[i - 1] + k] = chunk[m][k]
    <3>1. CASE m = i
      <4>1. off[m - 1] - off[i - 1] + k = k
        BY <2>3, <2>4, <3>1
      <4> QED
        BY <2>5, <3>1, <4>1
    <3>2. CASE m # i
      <4>1. m \in (i + 1)..n /\ m \in 1..n /\ m - 1 \in i..n /\ m \in i..n /\ m - 1 \in 0..n
        BY <1>1, <3>2
      <4>2. off[i] <= off[m - 1] /\ off[m] <= off[n]
        <5>1. off[i] <= off[m - 1]
          BY <2>1, <4>1, OffsetsGrow
        <5>2. m \in 0..Len(s) /\ n \in m..Len(s)
          BY <1>1, <4>1
        <5> QED
          BY <5>1, <5>2, OffsetsGrow
      <4>3. off[m] = off[m - 1] + Len(chunk[m]) /\ off[m - 1] \in Nat /\ Len(chunk[m]) \in Nat
        BY <4>1, <1>1, <1>2 DEF Offsets
      <4>0. k \in Nat /\ k <= Len(chunk[m]) /\ k >= 1
        BY <4>3
      <4> HIDE DEF c, u, n, Is, Q, next
      <4> DEFINE h == off[m - 1] - off[i] + k
      <4>4. h \in 1..Len(t) /\ t[h] = chunk[m][k]
        <5>1. t[h] = chunk[m][k]
          BY <2>1, <2>2, <4>1 DEF Is
        <5> QED
          <6>1. \A a, b, d, e, l, y \in Nat :
                   a <= b /\ b + l <= d /\ y >= 1 /\ y <= l /\ e = d - a => b - a + y \in 1..e
            BY SMTT(60)
          <6>2. Len(t) \in Nat
            BY <2>2
          <6>3. h \in 1..Len(t)
            BY ONLY <6>1, <6>2, <4>0, <4>2, <4>3, <2>4, <2>6
          <6> QED
            BY ONLY <6>3, <5>1
      <4>5. off[m - 1] - off[i - 1] + k = Len(c) + h
        <5>1. \A a, b, d, x, y \in Nat : d = b + x => a - b + y = x + (a - d + y)
          OBVIOUS
        <5> QED
          BY ONLY <5>1, <4>0, <2>3, <2>4, <4>3, SMTT(60)
      <4> HIDE DEF h, c, u
      <4> QED
        BY <2>5, <4>4, <4>5
    <3> QED
      BY <3>1, <3>2
  <2>9. Is(i, u)
    <3> HIDE DEF u
    <3> QED
      BY <2>7, <2>8
  <2> HIDE DEF Is, n
  <2> QED
    BY <2>1, <2>5, <2>9
<1>6. Carried(Q, s, chunk, next)
  <2>1. \A i \in 1..n : next[i] = i + 1
    BY <1>1
  <2> HIDE DEF Q, next
  <2> QED
    BY <1>4, <1>5, <2>1 DEF Carried
<1>7. Flat(s, chunk) \in Q[1]
  <2>1. Flat(s, chunk) = Rewritten(s, chunk, next)
    BY DEF Flat
  <2> HIDE DEF Q, next
  <2> QED
    BY <1>3, <1>6, <2>1, RewrittenIn
<1>8. Flat(s, chunk) \in Seq(A) /\ Is(1, Flat(s, chunk))
  <2>1. 1 \in 1..(n + 1)
    BY <1>1
  <2> HIDE DEF Is, n
  <2> QED
    BY <1>7, <2>1
<1> QED
  <2> DEFINE r == Flat(s, chunk)
  <2>1. off[0] = 0 /\ 1 - 1 = 0
    BY DEF Offsets
  <2>2. Len(r) = off[n]
    BY <1>1, <1>2, <1>8, <2>1
  <2>3. ASSUME NEW i \in 1..n, NEW k \in 1..Len(chunk[i]) PROVE r[off[i - 1] + k] = chunk[i][k]
    <3>1. i - 1 \in 0..n
      BY <1>1
    <3>2. off[i - 1] - off[0] + k = off[i - 1] + k
      BY <1>2, <2>1, <3>1
    <3> QED
      BY <1>8, <2>1, <3>2
  <2> QED
    BY <1>8, <2>2, <2>3 DEF Assembled

\* Every element of the whole is in one of the pieces.
LEMMA InAPiece ==
    ASSUME NEW A, NEW s, NEW chunk, Pieces(A, s, chunk), NEW off, Offsets(off, s, chunk),
           NEW h \in 1..off[Len(s)]
    PROVE  \E i \in 1..Len(s) : \E k \in 1..Len(chunk[i]) : h = off[i - 1] + k
<1> DEFINE n == Len(s)
           T == {i \in 0..n : h <= off[i]}
<1>1. n \in Nat /\ off[n] \in Nat /\ n \in T /\ T \in SUBSET Nat
  <2>1. n \in 0..n
    BY DEF Pieces
  <2> QED
    BY <2>1 DEF Offsets
<1>2. PICK i \in T : \A j \in T : i <= j
  <2> HIDE DEF T
  <2> QED
    BY <1>1, LeastNumber
<1>3. i # 0
  BY DEF Offsets
<1>4. i \in 1..n /\ i - 1 \in 0..n /\ ~(i <= i - 1)
  BY <1>1, <1>3
<1>5. i - 1 \notin T
  BY <1>2, <1>4
<1>6. off[i - 1] \in Nat /\ off[i] = off[i - 1] + Len(chunk[i]) /\ Len(chunk[i]) \in Nat
  BY <1>4 DEF Offsets, Pieces
<1>7. h - off[i - 1] \in 1..Len(chunk[i])
  BY <1>4, <1>5, <1>6
<1> QED
  BY <1>4, <1>6, <1>7

-----------------------------------------------------------------------------
\* The values.

\* What can be a value: something, and nothing a placeholder.
Plain == {v \in Seq(Char) : Len(v) >= 1 /\ \A i \in 1..Len(v) : v[i] \notin Marks}

CharPieces(v, special) == [i \in DOMAIN v |-> IF v[i] \in special THEN <<"\\", v[i]>> ELSE <<v[i]>>]
SymbolPieces(s, special) ==
    [i \in DOMAIN s |-> IF s[i].char \in special THEN <<Symbol("\\"), s[i]>> ELSE <<s[i]>>]

LEMMA CharPiecesFit ==
    ASSUME NEW special, NEW v \in Seq(Char)
    PROVE  /\ Pieces(Char, v, CharPieces(v, special))
           /\ EscapeChars(v, special) = Flat(v, CharPieces(v, special))
           /\ \A i \in 1..Len(v) : CharPieces(v, special)[i] \in {<<"\\", v[i]>>, <<v[i]>>}
<1>1. Len(v) \in Nat /\ DOMAIN v = 1..Len(v) /\ \A i \in 1..Len(v) : v[i] \in Char
  OBVIOUS
<1>2. \A i \in 1..Len(v) :
         CharPieces(v, special)[i] = IF v[i] \in special THEN <<"\\", v[i]>> ELSE <<v[i]>>
  BY <1>1 DEF CharPieces
<1>3. \A c \in Char : <<"\\", c>> \in Seq(Char) /\ <<c>> \in Seq(Char)
  <2>1. "\\" \in Char
    BY DEF Char
  <2> QED
    BY <2>1
<1>4. Pieces(Char, v, CharPieces(v, special))
  BY <1>1, <1>2, <1>3 DEF Pieces
<1>5. EscapeChars(v, special) = Flat(v, CharPieces(v, special))
  BY DEF EscapeChars, CharPieces
<1> QED
  BY <1>2, <1>4, <1>5

LEMMA EscapedIsPlain ==
    ASSUME NEW special, NEW v \in Plain
    PROVE  EscapeChars(v, special) \in Plain
<1> DEFINE p == CharPieces(v, special)
           r == EscapeChars(v, special)
<1>1. v \in Seq(Char) /\ Len(v) \in Nat /\ 1 \in 1..Len(v) /\ \A i \in 1..Len(v) : v[i] \notin Marks
  BY DEF Plain
<1>2. /\ Pieces(Char, v, p) /\ r = Flat(v, p)
      /\ \A i \in 1..Len(v) : p[i] \in {<<"\\", v[i]>>, <<v[i]>>}
  BY ONLY <1>1, CharPiecesFit
<1> HIDE DEF p, r
<1>3. PICK off : Offsets(off, v, p)
  BY <1>2, OffsetsExist
<1>4. Assembled(r, Char, off, v, p)
  BY <1>2, <1>3, FlatIs
<1>5. r \in Seq(Char) /\ Len(r) = off[Len(v)]
  BY <1>4 DEF Assembled
<1>6. Len(r) >= 1
  <2>1. off[1] <= off[Len(v)]
    <3>1. 1 \in 0..Len(v) /\ Len(v) \in 1..Len(v)
      BY <1>1
    <3> QED
      BY <1>2, <1>3, <3>1, OffsetsGrow
  <2>2. off[1] = Len(p[1])
    <3>1. off[0] = 0 /\ off[1] = off[1 - 1] + Len(p[1]) /\ 1 - 1 = 0
      BY <1>1, <1>3 DEF Offsets
    <3>2. Len(p[1]) \in Nat
      BY <1>1, <1>2
    <3> QED
      BY <3>1, <3>2
  <2>3. Len(p[1]) >= 1
    <3>1. p[1] = <<"\\", v[1]>> \/ p[1] = <<v[1]>>
      BY <1>1, <1>2
    <3>2. ASSUME NEW a, NEW b, NEW q, q = <<a, b>> \/ q = <<b>> PROVE Len(q) >= 1
      BY <3>2
    <3> QED
      BY ONLY <3>1, <3>2
  <2>4. off[Len(v)] \in Nat
    BY <1>5
  <2> QED
    BY <1>5, <2>1, <2>2, <2>3, <2>4
<1>7. ASSUME NEW h \in 1..Len(r) PROVE r[h] \notin Marks
  <2>1. PICK i \in 1..Len(v) : \E k \in 1..Len(p[i]) : h = off[i - 1] + k
    BY <1>2, <1>3, <1>5, <1>7, InAPiece
  <2>2. PICK k \in 1..Len(p[i]) : h = off[i - 1] + k
    BY <2>1
  <2>3. r[h] = p[i][k]
    BY <1>4, <2>2 DEF Assembled
  <2>4. p[i][k] = "\\" \/ p[i][k] = v[i]
    <3>1. p[i] = <<"\\", v[i]>> \/ p[i] = <<v[i]>>
      BY <1>2
    <3> QED
      BY <3>1
  <2>5. "\\" \notin Marks
    BY DEF Marks
  <2> QED
    BY <1>1, <2>3, <2>4, <2>5
<1>8. r \in Plain
  BY <1>5, <1>6, <1>7 DEF Plain
<1> QED
  BY <1>8 DEF r

LEMMA ValuesArePlain == Values \subseteq Plain
<1>1. ASSUME NEW v \in Held, IsRedactableValue(v) PROVE v \in Plain
  <2>1. v \in Seq(Char) /\ \A i \in DOMAIN v : v[i] \notin Marks
    <3>1. v \in Seq(STRING) /\ \A i \in DOMAIN v : v[i] \notin Marks
      BY RedactionAssumptions
    <3>2. v \in Seq(Char)
      BY <3>1 DEF Char
    <3> QED
      BY <3>1, <3>2
  <2>2. Len(v) >= 1
    BY <1>1, <2>1, RedactionAssumptions DEF IsRedactableValue
  <2> QED
    BY <2>1, <2>2 DEF Plain
<1>2. \A v \in Plain : \A special : EscapeChars(v, special) \in Plain
  BY EscapedIsPlain
<1>3. ASSUME NEW w \in Values PROVE w \in Plain
  <2>1. PICK v \in Redactable : w \in {v, EscapeChars(v, ReprEscaped(Chars(v))),
                                       EscapeChars(v, JsonEscaped)}
    BY <1>3 DEF Values
  <2> QED
    BY <1>1, <1>2, <2>1 DEF Redactable
<1> QED
  BY <1>3

\* ValueAt is the longest value that stands there.
LEMMA ValueAtIs ==
    ASSUME NEW s \in Seq(Sym), NEW i \in 1..Len(s)
    PROVE  IF ValueAt(s, i) = <<>> THEN \A v \in Values : ~StandsAt(v, s, i)
           ELSE /\ ValueAt(s, i) \in Values
                /\ StandsAt(ValueAt(s, i), s, i)
                /\ \A w \in Values : StandsAt(w, s, i) => Len(w) <= Len(ValueAt(s, i))
<1> DEFINE here == {v \in Values : StandsAt(v, s, i)}
           T == {Len(s) - Len(v) : v \in here}
<1>1. Len(s) \in Nat /\ i \in Nat /\ i >= 1
  OBVIOUS
<1>2. \A v \in Values : Len(v) \in Nat /\ Len(v) >= 1 /\ v # <<>>
  BY ValuesArePlain DEF Plain
<1>3. CASE here = {}
  BY <1>3 DEF ValueAt
<1>4. CASE here # {}
  <2>1. \A v \in here : i + Len(v) - 1 <= Len(s)
    BY DEF StandsAt
  <2>2. T \in SUBSET Nat /\ T # {}
    <3>1. \A v \in here : Len(s) - Len(v) \in Nat
      BY <1>1, <1>2, <2>1
    <3> HIDE DEF here
    <3> QED
      BY <3>1, <1>4
  <2>3. PICK m \in T : \A n \in T : m <= n
    BY <2>2, LeastNumber
  <2>4. PICK v \in here : m = Len(s) - Len(v)
    BY <2>3
  <2>5. ASSUME NEW w \in here PROVE Len(w) <= Len(v)
    <3>1. Len(s) - Len(w) \in T
      OBVIOUS
    <3>2. Len(s) - Len(v) <= Len(s) - Len(w)
      BY <3>1, <2>3, <2>4
    <3> QED
      BY <3>2, <1>1, <1>2
  <2>6. ValueAt(s, i) = CHOOSE u \in here : \A w \in here : Len(w) <= Len(u)
    BY <1>4 DEF ValueAt
  <2>7. ValueAt(s, i) \in here /\ \A w \in here : Len(w) <= Len(ValueAt(s, i))
    <3> HIDE DEF here
    <3> QED
      BY <2>5, <2>6
  <2> QED
    BY <1>2, <2>7
<1> QED
  BY <1>3, <1>4

-----------------------------------------------------------------------------
\* Passes that copy or put placeholders.

Marked(t, k) == t[k].char \in Marks

\* From k on t copies s from i on, up to the next placeholder.
Copied(t, k, s, i) ==
    \A n \in 0..(Len(t) - k + 1) :
        (\A m \in 0..(n - 1) : ~Marked(t, k + m)) =>
            i + n - 1 <= Len(s) /\ \A m \in 0..(n - 1) : t[k + m] = s[i + m]

\* t is made of pieces of s and of placeholders, and begins with what s has at i.
Carries(t, s, i) ==
    /\ t \in Seq(Sym)
    /\ Copied(t, 1, s, i)
    /\ \A k \in 1..Len(t) : ~Marked(t, k) => \E j \in 1..Len(s) : Copied(t, k, s, j)
    /\ \A k \in 1..Len(t) : t[k].at = 0 \/ \E j \in 1..Len(s) : t[k] = s[j]

LEMMA NothingCarries ==
    ASSUME NEW s \in Seq(Sym), NEW i \in 1..(Len(s) + 1)
    PROVE  Carries(<<>>, s, i)
<1>1. Len(<<>>) = 0 /\ <<>> \in Seq(Sym)
  OBVIOUS
<1>2. Len(s) \in Nat
  OBVIOUS
<1>3. Copied(<<>>, 1, s, i)
  <2>1. 0..(Len(<<>>) - 1 + 1) = {0} /\ 0..(0 - 1) = {}
    BY <1>1
  <2>2. i + 0 - 1 <= Len(s)
    BY <1>2
  <2> QED
    BY ONLY <2>1, <2>2 DEF Copied
<1> QED
  BY <1>1, <1>3 DEF Carries

\* What is put before t: where the elements of the whole come from.
LEMMA Joined ==
    ASSUME NEW a \in Seq(Sym), NEW t \in Seq(Sym)
    PROVE  /\ a \o t \in Seq(Sym)
           /\ Len(a) \in Nat /\ Len(t) \in Nat
           /\ Len(a \o t) = Len(a) + Len(t)
           /\ \A k \in 1..Len(a) : (a \o t)[k] = a[k]
           /\ \A k \in 1..Len(t) : (a \o t)[Len(a) + k] = t[k]
<1>1. /\ a \o t \in Seq(Sym) /\ Len(a \o t) = Len(a) + Len(t)
      /\ \A k \in 1..(Len(a) + Len(t)) :
             (a \o t)[k] = IF k <= Len(a) THEN a[k] ELSE t[k - Len(a)]
  BY ConcatProperties
<1>2. Len(a) \in Nat /\ Len(t) \in Nat
  OBVIOUS
<1>3. ASSUME NEW k \in 1..Len(a) PROVE (a \o t)[k] = a[k]
  BY <1>1, <1>2
<1>4. ASSUME NEW k \in 1..Len(t) PROVE (a \o t)[Len(a) + k] = t[k]
  <2>1. Len(a) + k \in 1..(Len(a) + Len(t)) /\ ~(Len(a) + k <= Len(a)) /\ Len(a) + k - Len(a) = k
    BY <1>2
  <2> QED
    BY <1>1, <2>1
<1> QED
  BY <1>1, <1>2, <1>3, <1>4

\* The same place of t in the whole.
LEMMA CopiedBehind ==
    ASSUME NEW a \in Seq(Sym), NEW t \in Seq(Sym), NEW s \in Seq(Sym),
           NEW k \in 1..Len(t), NEW j \in Nat, Copied(t, k, s, j)
    PROVE  Copied(a \o t, Len(a) + k, s, j)
<1> DEFINE u == a \o t
<1>1. /\ Len(a) \in Nat /\ Len(t) \in Nat /\ Len(u) = Len(a) + Len(t)
      /\ \A m \in 1..Len(t) : u[Len(a) + m] = t[m]
  BY Joined
<1> HIDE DEF u
<1>2. k \in Nat /\ k >= 1 /\ k <= Len(t)
  BY <1>1
<1> SUFFICES ASSUME NEW n \in 0..(Len(u) - (Len(a) + k) + 1),
                    \A m \in 0..(n - 1) : ~Marked(u, Len(a) + k + m)
             PROVE  j + n - 1 <= Len(s) /\ \A m \in 0..(n - 1) : u[Len(a) + k + m] = s[j + m]
  BY DEF Copied, u
<1>3. n \in 0..(Len(t) - k + 1)
  BY <1>1, <1>2
<1>4. ASSUME NEW m \in 0..(n - 1) PROVE u[Len(a) + k + m] = t[k + m]
  <2>1. k + m \in 1..Len(t) /\ Len(a) + k + m = Len(a) + (k + m)
    BY <1>1, <1>2, <1>3
  <2> QED
    BY <1>1, <2>1
<1>5. \A m \in 0..(n - 1) : ~Marked(t, k + m)
  BY <1>4 DEF Marked
<1>6. j + n - 1 <= Len(s) /\ \A m \in 0..(n - 1) : t[k + m] = s[j + m]
  BY <1>3, <1>5 DEF Copied
<1> QED
  BY <1>4, <1>6

LEMMA MarkCarries ==
    ASSUME NEW s \in Seq(Sym), NEW i \in 1..(Len(s) + 1), NEW j, NEW t, Carries(t, s, j),
           NEW c \in Marks
    PROVE  Carries(<<Symbol(c)>> \o t, s, i)
<1> DEFINE a == <<Symbol(c)>>
           u == a \o t
<1>1. Symbol(c) \in Sym /\ Symbol(c).char = c /\ Symbol(c).at = 0
  BY DEF Symbol, Sym, Char
<1>2. a \in Seq(Sym) /\ Len(a) = 1 /\ a[1] = Symbol(c) /\ t \in Seq(Sym)
  BY <1>1 DEF Carries
<1>3. /\ u \in Seq(Sym) /\ Len(t) \in Nat /\ Len(u) = 1 + Len(t)
      /\ u[1] = Symbol(c)
      /\ \A k \in 1..Len(t) : u[1 + k] = t[k]
  <2> HIDE DEF a
  <2>1. /\ a \o t \in Seq(Sym) /\ Len(t) \in Nat /\ Len(a \o t) = Len(a) + Len(t)
        /\ \A k \in 1..Len(a) : (a \o t)[k] = a[k]
        /\ \A k \in 1..Len(t) : (a \o t)[Len(a) + k] = t[k]
    BY ONLY <1>2, Joined
  <2>2. 1 \in 1..Len(a)
    BY <1>2
  <2> QED
    BY ONLY <1>2, <2>1, <2>2
<1>4. Marked(u, 1)
  BY <1>1, <1>3 DEF Marked
<1>5. \A k \in 1..Len(t) : \A l \in 1..Len(s) : Copied(t, k, s, l) => Copied(u, 1 + k, s, l)
  <2> SUFFICES ASSUME NEW k \in 1..Len(t), NEW l \in 1..Len(s), Copied(t, k, s, l)
               PROVE  Copied(u, 1 + k, s, l)
    OBVIOUS
  <2>1. Copied(a \o t, Len(a) + k, s, l)
    <3> HIDE DEF a
    <3>1. l \in Nat
      OBVIOUS
    <3> QED
      BY <1>2, <3>1, CopiedBehind
  <2> QED
    BY <1>2, <2>1
<1>6. Len(s) \in Nat /\ i \in Nat
  OBVIOUS
<1> HIDE DEF a, u
<1>7. Copied(u, 1, s, i)
  <2> SUFFICES ASSUME NEW n \in 0..(Len(u) - 1 + 1), \A m \in 0..(n - 1) : ~Marked(u, 1 + m)
               PROVE  i + n - 1 <= Len(s) /\ \A m \in 0..(n - 1) : u[1 + m] = s[i + m]
    BY DEF Copied
  <2>1. n = 0
    <3>1. n # 0 => 0 \in 0..(n - 1) /\ 1 + 0 = 1
      BY <1>3
    <3> QED
      BY <3>1, <1>4
  <2> QED
    BY <1>6, <2>1
<1>8. ASSUME NEW k \in 1..Len(u), k # 1 PROVE k - 1 \in 1..Len(t) /\ u[k] = t[k - 1] /\ k = 1 + (k - 1)
  <2>1. k - 1 \in 1..Len(t) /\ k = 1 + (k - 1)
    BY <1>3, <1>8
  <2> QED
    BY <1>3, <2>1
<1>9. ASSUME NEW k \in 1..Len(u), ~Marked(u, k) PROVE \E l \in 1..Len(s) : Copied(u, k, s, l)
  <2>1. k # 1
    BY <1>4, <1>9
  <2>2. k - 1 \in 1..Len(t) /\ u[k] = t[k - 1] /\ k = 1 + (k - 1)
    BY <1>8, <2>1
  <2>3. ~Marked(t, k - 1)
    BY <1>9, <2>2 DEF Marked
  <2>4. PICK l \in 1..Len(s) : Copied(t, k - 1, s, l)
    BY <2>2, <2>3 DEF Carries
  <2> QED
    BY <1>5, <2>2, <2>4
<1>10. ASSUME NEW k \in 1..Len(u) PROVE u[k].at = 0 \/ \E l \in 1..Len(s) : u[k] = s[l]
  <2>1. CASE k = 1
    BY <1>1, <1>3, <2>1
  <2>2. CASE k # 1
    BY <1>8, <2>2 DEF Carries
  <2> QED
    BY <2>1, <2>2
<1>11. Carries(u, s, i)
  BY <1>3, <1>7, <1>9, <1>10 DEF Carries
<1> QED
  BY <1>11 DEF a, u

LEMMA PieceCarries ==
    ASSUME NEW s \in Seq(Sym), NEW i \in 1..(Len(s) + 1), NEW e \in i..(Len(s) + 1),
           NEW t, Carries(t, s, e)
    PROVE  Carries(SubSeq(s, i, e - 1) \o t, s, i)
<1> DEFINE a == SubSeq(s, i, e - 1)
           u == a \o t
           d == e - i
<1>1. Len(s) \in Nat /\ i \in Nat /\ i >= 1 /\ e \in Nat /\ e <= Len(s) + 1 /\ i <= e /\ d \in Nat
  OBVIOUS
<1>2. a \in Seq(Sym) /\ Len(a) = d /\ \A k \in 1..d : a[k] = s[i + k - 1]
  <2>1. i \in 1..(Len(s) + 1) /\ e - 1 \in (i - 1)..Len(s) /\ e - 1 - i + 1 = d
    BY <1>1
  <2> QED
    BY <1>1, <2>1, SubSeqProperties
<1>3. /\ u \in Seq(Sym) /\ Len(t) \in Nat /\ Len(u) = d + Len(t) /\ t \in Seq(Sym)
      /\ \A k \in 1..d : u[k] = s[i + k - 1]
      /\ \A k \in 1..Len(t) : u[d + k] = t[k]
  <2>1. t \in Seq(Sym)
    BY DEF Carries
  <2> HIDE DEF a, d
  <2> QED
    BY <1>2, <2>1, Joined, ZenonT(60)
<1>4. \A k \in 1..Len(t) : \A l \in 1..Len(s) : Copied(t, k, s, l) => Copied(u, d + k, s, l)
  <2> SUFFICES ASSUME NEW k \in 1..Len(t), NEW l \in 1..Len(s), Copied(t, k, s, l)
               PROVE  Copied(u, d + k, s, l)
    OBVIOUS
  <2>1. Copied(a \o t, Len(a) + k, s, l)
    <3> HIDE DEF a, d
    <3>1. l \in Nat
      BY <1>1
    <3> QED
      BY <1>2, <1>3, <3>1, CopiedBehind
  <2> HIDE DEF a, d
  <2> QED
    BY <1>2, <2>1
<1>5. \A k \in 1..Len(u) : k > d => k - d \in 1..Len(t) /\ k = d + (k - d) /\ u[k] = t[k - d]
  <2> SUFFICES ASSUME NEW k \in 1..Len(u), k > d
               PROVE  k - d \in 1..Len(t) /\ k = d + (k - d) /\ u[k] = t[k - d]
    OBVIOUS
  <2> HIDE DEF a, d, u
  <2>1. k - d \in 1..Len(t) /\ k = d + (k - d)
    BY <1>1, <1>3
  <2> QED
    BY <1>3, <2>1
<1> HIDE DEF a, u, d
<1>6. ASSUME NEW k \in 1..(d + 1) PROVE Copied(u, k, s, i + k - 1)
  <2>0. k \in Nat /\ k >= 1 /\ k <= d + 1 /\ i + k - 1 \in Nat /\ i + d = e
    BY <1>1 DEF d
  <2> SUFFICES ASSUME NEW n \in 0..(Len(u) - k + 1), \A m \in 0..(n - 1) : ~Marked(u, k + m)
               PROVE  /\ i + k - 1 + n - 1 <= Len(s)
                      /\ \A m \in 0..(n - 1) : u[k + m] = s[i + k - 1 + m]
    BY DEF Copied
  <2>1. ASSUME NEW m \in 0..(n - 1), k + m <= d PROVE u[k + m] = s[i + k - 1 + m]
    <3>1. k + m \in 1..d /\ i + (k + m) - 1 = i + k - 1 + m
      BY <2>0, <2>1, <1>1
    <3> QED
      BY <1>3, <3>1
  <2>2. CASE k + n - 1 <= d
    <3>1. \A m \in 0..(n - 1) : k + m <= d
      BY <2>0, <2>2, <1>1
    <3>2. i + k - 1 + n - 1 <= Len(s)
      BY <2>0, <2>2, <1>1
    <3> QED
      BY <2>1, <3>1, <3>2
  <2>3. CASE ~(k + n - 1 <= d)
    <3> DEFINE l == k + n - 1 - d
    <3>0. n \in Nat /\ n <= Len(t) + d - k + 1
      BY <1>1, <1>3, <2>0
    <3>1. l \in 0..(Len(t) - 1 + 1)
      BY ONLY <1>1, <1>3, <2>0, <2>3, <3>0
    <3>2. ASSUME NEW m \in 0..(l - 1)
          PROVE  m + 1 \in 1..Len(t) /\ d + m + 1 - k \in 0..(n - 1)
      BY <1>1, <1>3, <2>0, <2>3
    <3>3. ASSUME NEW m \in 0..(l - 1) PROVE ~Marked(t, 1 + m) /\ u[d + 1 + m] = t[1 + m]
      <4>1. u[d + (m + 1)] = t[m + 1] /\ ~Marked(u, k + (d + m + 1 - k))
        BY <1>3, <3>2
      <4>2. k + (d + m + 1 - k) = d + 1 + m /\ d + (m + 1) = d + 1 + m /\ m + 1 = 1 + m
        BY <1>1, <2>0
      <4> QED
        BY <4>1, <4>2 DEF Marked
    <3>4. e + l - 1 <= Len(s) /\ \A m \in 0..(l - 1) : t[1 + m] = s[e + m]
      <4>1. Copied(t, 1, s, e)
        BY DEF Carries
      <4> HIDE DEF l
      <4> QED
        BY <3>1, <3>3, <4>1 DEF Copied
    <3>5. i + k - 1 + n - 1 <= Len(s)
      BY <3>4, <2>0, <1>1
    <3>6. ASSUME NEW m \in 0..(n - 1), k + m > d PROVE u[k + m] = s[i + k - 1 + m]
      <4> DEFINE m2 == k + m - d - 1
      <4>1. m2 \in 0..(l - 1) /\ d + 1 + m2 = k + m /\ e + m2 = i + k - 1 + m
        BY <3>6, <2>0, <1>1
      <4> HIDE DEF m2, l
      <4> QED
        BY <3>3, <3>4, <4>1
    <3>7. \A m \in 0..(n - 1) : k + m <= d \/ k + m > d
      BY <2>0, <1>1
    <3> QED
      BY <2>1, <3>5, <3>6, <3>7
  <2> QED
    BY <2>2, <2>3
<1>7. Copied(u, 1, s, i)
  <2>1. 1 \in 1..(d + 1) /\ i + 1 - 1 = i
    BY <1>1
  <2> QED
    BY <1>6, <2>1
<1>8. \A k \in 1..Len(u) : k > d \/ (k \in 1..d /\ k \in 1..(d + 1) /\ i + k - 1 \in 1..Len(s))
  BY <1>1, <1>3 DEF d
<1>9. ASSUME NEW k \in 1..Len(u), ~Marked(u, k) PROVE \E l \in 1..Len(s) : Copied(u, k, s, l)
  <2>1. CASE k > d
    <3>1. k - d \in 1..Len(t) /\ k = d + (k - d) /\ u[k] = t[k - d]
      BY <1>5, <2>1
    <3>2. ~Marked(t, k - d)
      BY <1>9, <3>1 DEF Marked
    <3>3. PICK l \in 1..Len(s) : Copied(t, k - d, s, l)
      BY <3>1, <3>2 DEF Carries
    <3> QED
      BY <1>4, <3>1, <3>3
  <2>2. CASE ~(k > d)
    BY <1>6, <1>8, <2>2
  <2> QED
    BY <2>1, <2>2
<1>10. ASSUME NEW k \in 1..Len(u) PROVE u[k].at = 0 \/ \E l \in 1..Len(s) : u[k] = s[l]
  <2>1. CASE k > d
    BY <1>5, <2>1 DEF Carries
  <2>2. CASE ~(k > d)
    BY <1>3, <1>8, <2>2
  <2> QED
    BY <2>1, <2>2
<1>11. Carries(u, s, i)
  BY <1>3, <1>7, <1>9, <1>10 DEF Carries
<1> QED
  BY <1>11 DEF a, u

LEMMA CopyCarries ==
    ASSUME NEW s \in Seq(Sym), NEW i \in 1..Len(s), NEW t, Carries(t, s, i + 1)
    PROVE  Carries(<<s[i]>> \o t, s, i)
<1>1. Len(s) \in Nat /\ i \in 1..(Len(s) + 1) /\ i + 1 \in i..(Len(s) + 1) /\ i + 1 - 1 = i
  OBVIOUS
<1>2. SubSeq(s, i, i) = <<s[i]>>
  <2>1. i \in Int /\ i <= i /\ i - i + 1 = 1 /\ \A k \in i..i : s[k] \in Sym
    BY <1>1
  <2>2. /\ SubSeq(s, i, i) \in Seq(Sym)
        /\ Len(SubSeq(s, i, i)) = IF i <= i THEN i - i + 1 ELSE 0
        /\ \A k \in 1..(i - i + 1) : SubSeq(s, i, i)[k] = s[i + k - 1]
    BY ONLY <2>1, SubSeqProperties
  <2>3. SubSeq(s, i, i) \in Seq(Sym) /\ Len(SubSeq(s, i, i)) = 1 /\ SubSeq(s, i, i)[1] = s[i]
    <3>1. 1 \in 1..1 /\ i + 1 - 1 = i
      BY <1>1
    <3> QED
      BY <2>1, <2>2, <3>1
  <2>4. \A q \in Seq(Sym) : Len(q) = 1 => q = <<q[1]>>
    OBVIOUS
  <2> QED
    BY <2>3, <2>4
<1>3. Carries(SubSeq(s, i, i + 1 - 1) \o t, s, i)
  BY ONLY <1>1, s \in Seq(Sym), Carries(t, s, i + 1), PieceCarries
<1> QED
  BY ONLY <1>1, <1>2, <1>3

\* A value in what a pass has left was there before.
LEMMA CarriesFound ==
    ASSUME NEW s \in Seq(Sym), NEW i \in 1..(Len(s) + 1), NEW t, Carries(t, s, i),
           NEW v \in Plain, NEW k \in 1..Len(t), StandsAt(v, t, k)
    PROVE  /\ \E j \in 1..Len(s) : StandsAt(v, s, j)
           /\ k = 1 => StandsAt(v, s, i)
<1>1. /\ v \in Seq(Char) /\ Len(v) \in Nat /\ Len(v) >= 1 /\ DOMAIN v = 1..Len(v)
      /\ \A m \in 1..Len(v) : v[m] \notin Marks
  BY DEF Plain
<1>2. t \in Seq(Sym) /\ Len(t) \in Nat /\ Len(s) \in Nat /\ k \in Nat
  BY DEF Carries
<1>3. k + Len(v) - 1 <= Len(t) /\ \A m \in 1..Len(v) : t[k + m - 1].char = v[m]
  BY <1>1 DEF StandsAt
<1>4. ASSUME NEW m \in 0..(Len(v) - 1) PROVE t[k + m].char = v[m + 1] /\ ~Marked(t, k + m)
  <2>1. m + 1 \in 1..Len(v) /\ k + (m + 1) - 1 = k + m
    BY <1>1, <1>2
  <2> QED
    BY <1>1, <1>3, <2>1 DEF Marked
<1>5. ASSUME NEW j \in Nat, Copied(t, k, s, j) PROVE StandsAt(v, s, j)
  <2>1. Len(v) \in 0..(Len(t) - k + 1)
    BY <1>1, <1>2, <1>3
  <2>2. j + Len(v) - 1 <= Len(s) /\ \A m \in 0..(Len(v) - 1) : t[k + m] = s[j + m]
    BY <1>4, <1>5, <2>1 DEF Copied
  <2>3. ASSUME NEW m \in 1..Len(v) PROVE s[j + m - 1].char = v[m]
    <3>1. m - 1 \in 0..(Len(v) - 1) /\ j + (m - 1) = j + m - 1 /\ (m - 1) + 1 = m
      BY <1>1
    <3> QED
      BY <1>4, <2>2, <3>1
  <2> QED
    BY <1>1, <2>2, <2>3 DEF StandsAt
<1>6. ~Marked(t, k)
  <2>1. 0 \in 0..(Len(v) - 1) /\ k + 0 = k
    BY <1>1, <1>2
  <2> QED
    BY <1>4, <2>1
<1>7. PICK j \in 1..Len(s) : Copied(t, k, s, j)
  BY <1>6 DEF Carries
<1>8. k = 1 => StandsAt(v, s, i)
  <2>1. i \in Nat
    BY <1>2
  <2> QED
    BY <1>5, <2>1 DEF Carries
<1>9. j \in Nat
  BY <1>2
<1> QED
  BY <1>5, <1>7, <1>8, <1>9

LEMMA CarriesPlaces ==
    ASSUME NEW s \in Seq(Sym), NEW i, NEW t, Carries(t, s, i)
    PROVE  t \in Seq(Sym) /\ Places(t) \subseteq Places(s)
<1>1. DOMAIN s = 1..Len(s)
  OBVIOUS
<1>2. t \in Seq(Sym) /\ DOMAIN t = 1..Len(t)
  BY DEF Carries
<1> QED
  BY <1>1, <1>2 DEF Carries, Places

-----------------------------------------------------------------------------
\* The pass for values.

Valueless(t) == \A v \in Values : \A k \in 1..Len(t) : ~StandsAt(v, t, k)

LEMMA ValuesPass ==
    ASSUME NEW s \in Seq(Sym)
    PROVE  Carries(RedactValues(s), s, 1) /\ Valueless(RedactValues(s))
<1> DEFINE n == Len(s)
           chunk == [i \in DOMAIN s |->
                        IF ValueAt(s, i) = <<>> THEN <<s[i]>> ELSE <<Symbol("<value>")>>]
           next == [i \in DOMAIN s |->
                        IF ValueAt(s, i) = <<>> THEN i + 1 ELSE i + Len(ValueAt(s, i))]
           Q == [i \in 1..(n + 1) |-> {t \in Seq(Sym) : Carries(t, s, i) /\ Valueless(t)}]
<1>1. n \in Nat /\ DOMAIN s = 1..n
  OBVIOUS
<1>2. ASSUME NEW i \in 1..n
      PROVE  \/ /\ ValueAt(s, i) = <<>> /\ \A v \in Values : ~StandsAt(v, s, i)
                /\ chunk[i] = <<s[i]>> /\ next[i] = i + 1
             \/ /\ ValueAt(s, i) \in Values
                /\ chunk[i] = <<Symbol("<value>")>> /\ next[i] \in (i + 1)..(n + 1)
  <2>1. CASE ValueAt(s, i) = <<>>
    <3>1. chunk[i] = <<s[i]>> /\ next[i] = i + 1
      BY <1>1, <2>1
    <3>2. \A v \in Values : ~StandsAt(v, s, i)
      BY <2>1, ValueAtIs
    <3> QED
      BY ONLY <2>1, <3>1, <3>2
  <2>2. CASE ValueAt(s, i) # <<>>
    <3>1. ValueAt(s, i) \in Values /\ StandsAt(ValueAt(s, i), s, i)
      BY <2>2, ValueAtIs
    <3>2. Len(ValueAt(s, i)) \in Nat /\ Len(ValueAt(s, i)) >= 1
      BY <3>1, ValuesArePlain DEF Plain
    <3>3. i + Len(ValueAt(s, i)) - 1 <= Len(s)
      BY <3>1 DEF StandsAt
    <3>4. chunk[i] = <<Symbol("<value>")>> /\ next[i] = i + Len(ValueAt(s, i))
      BY <1>1, <2>2
    <3>5. i + Len(ValueAt(s, i)) \in (i + 1)..(n + 1)
      BY <1>1, <3>2, <3>3
    <3> QED
      BY ONLY <3>1, <3>4, <3>5
  <2> QED
    BY <2>1, <2>2
<1> HIDE DEF chunk, next
<1>3. Scannable(s, chunk, next)
  <2>1. \A i \in 1..n : i + 1 \in (i + 1)..(n + 1)
    BY <1>1
  <2> QED
    BY <1>1, <1>2, <2>1 DEF Scannable
<1>4. <<>> \in Q[n + 1]
  <2>1. n + 1 \in 1..(n + 1) /\ n + 1 \in 1..(Len(s) + 1)
    BY <1>1
  <2>2. Carries(<<>>, s, n + 1)
    BY ONLY <2>1, s \in Seq(Sym), NothingCarries
  <2>3. Valueless(<<>>) /\ <<>> \in Seq(Sym)
    BY DEF Valueless
  <2> QED
    BY <2>1, <2>2, <2>3
<1>5. ASSUME NEW i \in 1..n, NEW t \in Q[next[i]] PROVE chunk[i] \o t \in Q[i]
  <2>0. i \in 1..(n + 1) /\ next[i] \in 1..(n + 1) /\ i \in 1..(Len(s) + 1)
    BY <1>1, <1>3 DEF Scannable
  <2>1. t \in Seq(Sym) /\ Carries(t, s, next[i]) /\ Valueless(t) /\ Len(t) \in Nat
    BY <2>0
  <2> DEFINE u == chunk[i] \o t
  <2>2. PICK c : chunk[i] = <<c>> /\ c \in Sym
    <3>1. s[i] \in Sym /\ Symbol("<value>") \in Sym
      <4>1. s[i] \in Sym
        BY <1>1
      <4>2. Symbol("<value>") \in Sym
        BY DEF Symbol, Sym, Char, Marks
      <4> QED
        BY <4>1, <4>2
    <3>2. chunk[i] = <<s[i]>> \/ chunk[i] = <<Symbol("<value>")>>
      BY ONLY <1>2
    <3> QED
      BY ONLY <3>1, <3>2
  <2>3. /\ u \in Seq(Sym) /\ Len(u) = 1 + Len(t) /\ u[1] = c
        /\ \A k \in 1..Len(t) : u[1 + k] = t[k]
    <3>1. <<c>> \in Seq(Sym) /\ Len(<<c>>) = 1 /\ <<c>>[1] = c /\ 1 \in 1..Len(<<c>>)
      BY <2>2
    <3>2. /\ <<c>> \o t \in Seq(Sym) /\ Len(<<c>> \o t) = Len(<<c>>) + Len(t)
          /\ \A k \in 1..Len(<<c>>) : (<<c>> \o t)[k] = <<c>>[k]
          /\ \A k \in 1..Len(t) : (<<c>> \o t)[Len(<<c>>) + k] = t[k]
      BY ONLY <3>1, <2>1, Joined
    <3> QED
      BY <2>2, <3>1, <3>2
  <2>4. Carries(u, s, i) /\ \A v \in Values : ~StandsAt(v, u, 1)
    <3>1. CASE ValueAt(s, i) = <<>> /\ chunk[i] = <<s[i]>> /\ next[i] = i + 1
      <4>1. Carries(u, s, i)
        BY <2>1, <3>1, CopyCarries
      <4>2. ASSUME NEW v \in Values, StandsAt(v, u, 1) PROVE FALSE
        <5>1. v \in Plain /\ 1 \in 1..Len(u) /\ s \in Seq(Sym)
          BY <2>1, <2>3, ValuesArePlain
        <5>2. StandsAt(v, s, i)
          <6> HIDE DEF u
          <6> QED
            BY ONLY <5>1, <4>1, <4>2, <2>0, CarriesFound
        <5> QED
          BY <1>2, <3>1, <5>2, ValueAtIs
      <4> QED
        BY <4>1, <4>2
    <3>2. CASE chunk[i] = <<Symbol("<value>")>>
      <4>1. Carries(u, s, i)
        <5>1. "<value>" \in Marks
          BY DEF Marks
        <5>2. Carries(<<Symbol("<value>")>> \o t, s, i)
          BY ONLY s \in Seq(Sym), <2>0, <2>1, <5>1, MarkCarries
        <5> QED
          BY <3>2, <5>2
      <4>2. ASSUME NEW v \in Values, StandsAt(v, u, 1) PROVE FALSE
        <5>1. u[1].char \in Marks
          <6>1. u[1] = Symbol("<value>")
            BY <2>2, <2>3, <3>2
          <6> QED
            BY <6>1 DEF Symbol, Marks
        <5>2. 1 \in DOMAIN v /\ v[1] \notin Marks /\ 1 + 1 - 1 = 1
          BY ValuesArePlain DEF Plain
        <5>3. u[1].char = v[1]
          <6> HIDE DEF u
          <6> QED
            BY <4>2, <5>2 DEF StandsAt
        <5> QED
          BY <5>1, <5>2, <5>3
      <4> QED
        BY <4>1, <4>2
    <3> QED
      BY <1>2, <3>1, <3>2
  <2>5. ASSUME NEW v \in Values, NEW k \in 1..Len(u), StandsAt(v, u, k) PROVE FALSE
    <3> HIDE DEF u
    <3>1. k # 1
      BY <2>4, <2>5
    <3>2. k - 1 \in 1..Len(t) /\ k \in Nat
      BY <2>1, <2>3, <3>1
    <3>3. Len(v) \in Nat /\ DOMAIN v = 1..Len(v)
      BY ValuesArePlain DEF Plain
    <3>4. k + Len(v) - 1 <= Len(u) /\ \A m \in 1..Len(v) : u[k + m - 1].char = v[m]
      BY <2>5, <3>3 DEF StandsAt
    <3>5. (k - 1) + Len(v) - 1 <= Len(t)
      BY <2>1, <2>3, <3>2, <3>3, <3>4
    <3>6. ASSUME NEW m \in 1..Len(v) PROVE t[(k - 1) + m - 1].char = v[m]
      <4>1. (k - 1) + m - 1 \in 1..Len(t) /\ 1 + ((k - 1) + m - 1) = k + m - 1
        BY <2>1, <3>2, <3>3, <3>5
      <4> QED
        BY <2>3, <3>4, <4>1
    <3>7. StandsAt(v, t, k - 1)
      BY <3>3, <3>5, <3>6 DEF StandsAt
    <3> QED
      BY <2>1, <3>2, <3>7 DEF Valueless
  <2>6. Valueless(u)
    BY <2>5 DEF Valueless
  <2> QED
    BY <2>0, <2>3, <2>4, <2>6
<1>6. Carried(Q, s, chunk, next)
  <2> HIDE DEF Q
  <2> QED
    BY <1>4, <1>5 DEF Carried
<1>7. RedactValues(s) \in Q[1]
  <2>1. RedactValues(s) = Rewritten(s, chunk, next)
    BY DEF RedactValues, chunk, next
  <2> HIDE DEF Q
  <2> QED
    BY <1>3, <1>6, <2>1, RewrittenIn
<1>8. 1 \in 1..(n + 1)
  BY <1>1
<1> QED
  BY <1>7, <1>8

-----------------------------------------------------------------------------
\* The pass for userinfo.

LEMMA RunEndIs ==
    ASSUME NEW s \in Seq(Sym), NEW i \in 1..(Len(s) + 1)
    PROVE  /\ RunEnd(s, i) \in i..(Len(s) + 1)
           /\ RunEnd(s, i) = Len(s) + 1 \/ s[RunEnd(s, i)].char = White
           /\ \A k \in i..(RunEnd(s, i) - 1) : s[k].char # White
<1> DEFINE T == {j \in i..(Len(s) + 1) : j = Len(s) + 1 \/ s[j].char = White}
           Ends(j) == /\ j = Len(s) + 1 \/ s[j].char = White
                      /\ \A k \in i..(j - 1) : s[k].char # White
<1>1. Len(s) \in Nat /\ i \in Nat /\ Len(s) + 1 \in T /\ T \in SUBSET Nat
  OBVIOUS
<1>2. PICK j \in T : \A k \in T : j <= k
  <2> HIDE DEF T
  <2> QED
    BY <1>1, LeastNumber
<1>3. ASSUME NEW k \in i..(j - 1), s[k].char = White PROVE FALSE
  <2>1. k \in T /\ ~(j <= k)
    BY <1>1, <1>3
  <2> QED
    BY <1>2, <2>1
<1>4. j \in i..(Len(s) + 1) /\ Ends(j)
  BY <1>3
<1>5. RunEnd(s, i) = CHOOSE l \in i..(Len(s) + 1) : Ends(l)
  BY DEF RunEnd
<1>6. RunEnd(s, i) \in i..(Len(s) + 1) /\ Ends(RunEnd(s, i))
  <2> HIDE DEF Ends
  <2> QED
    BY <1>4, <1>5
<1> QED
  BY <1>6

LEMMA UserinfoEndIs ==
    ASSUME NEW s \in Seq(Sym), NEW i \in 1..(Len(s) + 1)
    PROVE  IF UserinfoEnd(s, i) = 0
           THEN \A k \in i..(RunEnd(s, i) - 1) : s[k].char # "@"
           ELSE /\ UserinfoEnd(s, i) \in i..(RunEnd(s, i) - 1)
                /\ s[UserinfoEnd(s, i)].char = "@"
                /\ \A k \in i..(RunEnd(s, i) - 1) : s[k].char = "@" => k <= UserinfoEnd(s, i)
<1> DEFINE e == RunEnd(s, i)
           ats == {k \in i..(e - 1) : s[k].char = "@"}
           T == {e - k : k \in ats}
<1>1. Len(s) \in Nat /\ i \in Nat /\ i >= 1 /\ e \in Nat
  BY RunEndIs
<1>2. CASE ats = {}
  <2>1. UserinfoEnd(s, i) = 0
    BY <1>2 DEF UserinfoEnd
  <2> QED
    BY <1>2, <2>1
<1>3. CASE ats # {}
  <2> HIDE DEF e
  <2>1. T \in SUBSET Nat /\ T # {}
    BY <1>1, <1>3
  <2>2. PICK m \in T : \A n \in T : m <= n
    <3> HIDE DEF T
    <3> QED
      BY <2>1, LeastNumber
  <2>3. PICK k \in ats : m = e - k
    BY <2>2
  <2>4. ASSUME NEW j \in ats PROVE j <= k
    <3>1. e - j \in T
      OBVIOUS
    <3>2. e - k <= e - j
      BY <3>1, <2>2, <2>3
    <3> QED
      BY <3>2, <1>1
  <2>5. UserinfoEnd(s, i) = CHOOSE l \in ats : \A j \in ats : j <= l
    BY <1>3 DEF UserinfoEnd, e
  <2>6. UserinfoEnd(s, i) \in ats /\ \A j \in ats : j <= UserinfoEnd(s, i)
    <3> HIDE DEF ats
    <3> QED
      BY <2>4, <2>5
  <2>7. UserinfoEnd(s, i) # 0
    BY <1>1, <2>6
  <2> QED
    BY <2>6, <2>7 DEF e
<1> QED
  BY <1>2, <1>3

UrlChunks(s) == [i \in DOMAIN s |-> IF s[i].char = Sep THEN UrlAt(s, i) ELSE <<s[i]>>]
UrlNexts(s)  == [i \in DOMAIN s |-> IF s[i].char = Sep THEN RunEnd(s, i + 1) ELSE i + 1]

LEMMA MarkTyped ==
    ASSUME NEW c \in Marks
    PROVE  Symbol(c) \in Sym
BY DEF Symbol, Sym, Char

LEMMA PairIsConcat ==
    ASSUME NEW S, NEW c \in S, NEW d \in S
    PROVE  <<c, d>> \in Seq(S) /\ <<c, d>> = <<c>> \o <<d>>
<1>1. <<c>> \in Seq(S) /\ Len(<<c>>) = 1 /\ <<c>>[1] = c
  OBVIOUS
<1>2. <<d>> \in Seq(S) /\ Len(<<d>>) = 1 /\ <<d>>[1] = d
  OBVIOUS
<1>3. <<c, d>> \in Seq(S) /\ Len(<<c, d>>) = 2 /\ <<c, d>>[1] = c /\ <<c, d>>[2] = d
  OBVIOUS
<1>4. /\ <<c>> \o <<d>> \in Seq(S) /\ Len(<<c>> \o <<d>>) = Len(<<c>>) + Len(<<d>>)
      /\ \A k \in 1..(Len(<<c>>) + Len(<<d>>)) :
             (<<c>> \o <<d>>)[k] = IF k <= Len(<<c>>) THEN <<c>>[k] ELSE <<d>>[k - Len(<<c>>)]
  BY ONLY <1>1, <1>2, ConcatProperties
<1>5. Len(<<c>> \o <<d>>) = 2 /\ (<<c>> \o <<d>>)[1] = c /\ (<<c>> \o <<d>>)[2] = d
  BY ONLY <1>1, <1>2, <1>4
<1>6. 1..2 = {1, 2}
  OBVIOUS
<1>7. /\ <<c, d>> \in Seq(S) /\ <<c>> \o <<d>> \in Seq(S)
      /\ Len(<<c, d>>) = Len(<<c>> \o <<d>>)
      /\ \A k \in 1..Len(<<c, d>>) : <<c, d>>[k] = (<<c>> \o <<d>>)[k]
  BY ONLY <1>3, <1>4, <1>5, <1>6
<1> QED
  BY ONLY <1>7, SeqEqual

\* The three ends of a URL, with what is written behind it.
UrlWith(s, i, t, a, e) ==
    \/ a = 0 /\ UrlAt(s, i) \o t = SubSeq(s, i, e - 1) \o t
    \/ a # 0 /\ UrlAt(s, i) \o t = <<s[i]>> \o (<<Symbol("<redacted>")>> \o t)
    \/ a # 0 /\ UrlAt(s, i) \o t =
                    <<s[i]>> \o (<<Symbol("***")>> \o (SubSeq(s, a, e - 1) \o t))

LEMMA UrlCases ==
    ASSUME NEW s \in Seq(Sym), NEW i \in 1..Len(s), NEW t \in Seq(Sym)
    PROVE  UrlWith(s, i, t, UserinfoEnd(s, i + 1), RunEnd(s, i + 1))
<1> DEFINE e == RunEnd(s, i + 1)
           a == UserinfoEnd(s, i + 1)
<1>1. \A c \in Sym, d \in Sym : \A q \in Seq(Sym) :
          <<c, d>> \o q = <<c>> \o (<<d>> \o q)
  <2> SUFFICES ASSUME NEW c \in Sym, NEW d \in Sym, NEW q \in Seq(Sym)
               PROVE  <<c, d>> \o q = <<c>> \o (<<d>> \o q)
    OBVIOUS
  <2> HIDE DEF e, a
  <2>1. <<c>> \in Seq(Sym) /\ <<d>> \in Seq(Sym) /\ <<c, d>> = <<c>> \o <<d>>
    <3>1. <<c>> \in Seq(Sym) /\ <<d>> \in Seq(Sym)
      OBVIOUS
    <3> QED
      BY <3>1, PairIsConcat
  <2>2. (<<c>> \o <<d>>) \o q = <<c>> \o (<<d>> \o q)
    BY ONLY <2>1, q \in Seq(Sym), ConcatAssociative
  <2> QED
    BY ONLY <2>1, <2>2
<1>2. s[i] \in Sym /\ Symbol("<redacted>") \in Sym /\ Symbol("***") \in Sym
  <2>1. "<redacted>" \in Marks /\ "***" \in Marks
    BY DEF Marks
  <2> QED
    BY <2>1, MarkTyped
<1>3. CASE a = 0
  BY <1>3 DEF UrlAt, UrlWith
<1>4. CASE a # 0 /\ \E k \in (i + 1)..(a - 1) : s[k].char \in EndsAuthority
  <2>1. UrlAt(s, i) = <<s[i], Symbol("<redacted>")>>
    BY <1>4 DEF UrlAt
  <2>2. UrlAt(s, i) \o t = <<s[i]>> \o (<<Symbol("<redacted>")>> \o t)
    BY ONLY <1>1, <1>2, <2>1, t \in Seq(Sym), SMTT(60)
  <2> QED
    BY <1>4, <2>2 DEF UrlWith
<1>5. CASE a # 0 /\ ~\E k \in (i + 1)..(a - 1) : s[k].char \in EndsAuthority
  <2> DEFINE q == SubSeq(s, a, e - 1)
  <2>1. UrlAt(s, i) = <<s[i], Symbol("***")>> \o q
    BY <1>5 DEF UrlAt
  <2>2. q \in Seq(Sym)
    <3>1. i + 1 \in 1..(Len(s) + 1)
      OBVIOUS
    <3>2. a \in (i + 1)..(e - 1) /\ e \in (i + 1)..(Len(s) + 1)
      BY <1>5, <3>1, RunEndIs, UserinfoEndIs
    <3> HIDE DEF a, e
    <3>3. a \in Int /\ e - 1 \in Int /\ \A k \in a..(e - 1) : s[k] \in Sym
      BY <3>2
    <3> QED
      BY ONLY <3>3, SubSeqProperties
  <2> HIDE DEF q
  <2>3. <<s[i], Symbol("***")>> \in Seq(Sym)
    BY <1>2, PairIsConcat
  <2>4. (<<s[i], Symbol("***")>> \o q) \o t = <<s[i], Symbol("***")>> \o (q \o t) /\ q \o t \in Seq(Sym)
    BY ONLY <2>2, <2>3, t \in Seq(Sym), ConcatAssociative, ConcatProperties, SMTT(60)
  <2>5. <<s[i], Symbol("***")>> \o (q \o t) = <<s[i]>> \o (<<Symbol("***")>> \o (q \o t))
    BY <1>1, <1>2, <2>4
  <2> QED
    BY <1>5, <2>1, <2>4, <2>5 DEF q, UrlWith
<1> QED
  BY <1>3, <1>4, <1>5

LEMMA UrlNextsFit ==
    ASSUME NEW s \in Seq(Sym)
    PROVE  /\ Scannable(s, UrlChunks(s), UrlNexts(s))
           /\ \A i \in 1..Len(s) :
                  IF s[i].char = Sep
                  THEN UrlChunks(s)[i] = UrlAt(s, i) /\ UrlNexts(s)[i] = RunEnd(s, i + 1)
                  ELSE UrlChunks(s)[i] = <<s[i]>> /\ UrlNexts(s)[i] = i + 1
<1>1. Len(s) \in Nat /\ DOMAIN s = 1..Len(s)
  OBVIOUS
<1>2. ASSUME NEW i \in 1..Len(s)
      PROVE  IF s[i].char = Sep
             THEN UrlChunks(s)[i] = UrlAt(s, i) /\ UrlNexts(s)[i] = RunEnd(s, i + 1)
             ELSE UrlChunks(s)[i] = <<s[i]>> /\ UrlNexts(s)[i] = i + 1
  BY <1>1 DEF UrlChunks, UrlNexts
<1>3. ASSUME NEW i \in 1..Len(s) PROVE UrlNexts(s)[i] \in (i + 1)..(Len(s) + 1)
  <2>1. i + 1 \in (i + 1)..(Len(s) + 1) /\ i + 1 \in 1..(Len(s) + 1)
    BY <1>1
  <2>2. RunEnd(s, i + 1) \in (i + 1)..(Len(s) + 1)
    BY <2>1, RunEndIs
  <2> QED
    BY <1>2, <2>1, <2>2
<1> QED
  BY <1>1, <1>2, <1>3 DEF Scannable

LEMMA UrlPass ==
    ASSUME NEW s \in Seq(Sym)
    PROVE  Carries(RedactUrlUserinfo(s), s, 1)
<1> DEFINE n == Len(s)
           chunk == UrlChunks(s)
           next == UrlNexts(s)
           Q == [i \in 1..(n + 1) |-> {t \in Seq(Sym) : Carries(t, s, i)}]
<1>1. n \in Nat
  OBVIOUS
<1>2. /\ Scannable(s, chunk, next)
      /\ \A i \in 1..n : IF s[i].char = Sep
                         THEN chunk[i] = UrlAt(s, i) /\ next[i] = RunEnd(s, i + 1)
                         ELSE chunk[i] = <<s[i]>> /\ next[i] = i + 1
  BY UrlNextsFit
<1> HIDE DEF chunk, next
<1>0. \A i \in 1..(n + 1) : \A t : t \in Q[i] <=> Carries(t, s, i)
  BY DEF Carries
<1>3. <<>> \in Q[n + 1]
  <2>1. n + 1 \in 1..(n + 1) /\ n + 1 \in 1..(Len(s) + 1)
    BY <1>1
  <2>2. Carries(<<>>, s, n + 1)
    BY ONLY <2>1, s \in Seq(Sym), NothingCarries
  <2> QED
    BY <2>1, <2>2
<1>4. ASSUME NEW i \in 1..n, NEW t \in Q[next[i]] PROVE chunk[i] \o t \in Q[i]
  <2>0. i \in 1..(n + 1) /\ next[i] \in 1..(n + 1) /\ next[i] \in (i + 1)..(n + 1)
    BY <1>1, <1>2 DEF Scannable
  <2>1. t \in Seq(Sym) /\ Carries(t, s, next[i])
    BY <2>0
  <2>2. CASE s[i].char # Sep
    <3>1. Carries(<<s[i]>> \o t, s, i)
      BY <1>2, <2>1, <2>2, CopyCarries
    <3> QED
      <4> HIDE DEF Q
      <4> QED
        BY <1>0, <1>2, <2>0, <2>2, <3>1
  <2>3. CASE s[i].char = Sep
    <3> DEFINE e == RunEnd(s, i + 1)
               a == UserinfoEnd(s, i + 1)
    <3>1. chunk[i] = UrlAt(s, i) /\ next[i] = e /\ Carries(t, s, e)
      BY <1>2, <2>1, <2>3
    <3>2. i + 1 \in 1..(Len(s) + 1) /\ i \in 1..(Len(s) + 1)
      BY <1>1
    <3>3. e \in (i + 1)..(n + 1) /\ e \in i..(Len(s) + 1) /\ e \in 1..(Len(s) + 1)
      BY <1>1, <2>0, <3>1
    <3>4. "<redacted>" \in Marks /\ "***" \in Marks
      BY DEF Marks
    <3>5. \/ a = 0 /\ chunk[i] \o t = SubSeq(s, i, e - 1) \o t
          \/ a # 0 /\ chunk[i] \o t = <<s[i]>> \o (<<Symbol("<redacted>")>> \o t)
          \/ a # 0 /\ chunk[i] \o t =
                          <<s[i]>> \o (<<Symbol("***")>> \o (SubSeq(s, a, e - 1) \o t))
      <4>1. UrlWith(s, i, t, a, e)
        BY <2>1, UrlCases
      <4> HIDE DEF a, e
      <4> QED
        BY <3>1, <4>1 DEF UrlWith
    <3>6. Carries(chunk[i] \o t, s, i)
      <4> HIDE DEF e, n, Q
      <4>1. CASE a = 0 /\ chunk[i] \o t = SubSeq(s, i, e - 1) \o t
        BY <3>1, <3>2, <3>3, <4>1, PieceCarries
      <4>2. CASE a # 0 /\ chunk[i] \o t = <<s[i]>> \o (<<Symbol("<redacted>")>> \o t)
        <5>1. Carries(<<Symbol("<redacted>")>> \o t, s, i + 1)
          BY ONLY s \in Seq(Sym), <3>1, <3>2, <3>4, MarkCarries
        <5>2. Carries(<<s[i]>> \o (<<Symbol("<redacted>")>> \o t), s, i)
          BY <5>1, CopyCarries DEF n
        <5> QED
          BY <4>2, <5>2
      <4>3. CASE a # 0 /\ chunk[i] \o t =
                              <<s[i]>> \o (<<Symbol("***")>> \o (SubSeq(s, a, e - 1) \o t))
        <5>1. a \in (i + 1)..(e - 1) /\ a \in 1..(Len(s) + 1) /\ e \in a..(Len(s) + 1)
          <6>1. a \in (i + 1)..(e - 1)
            BY <3>2, <4>3, UserinfoEndIs DEF e
          <6> HIDE DEF a
          <6>2. e \in Nat /\ i \in Nat
            BY <1>1, <3>3
          <6> QED
            BY <6>1, <6>2, <3>2, <3>3
        <5>2. Carries(SubSeq(s, a, e - 1) \o t, s, a)
          <6> HIDE DEF a
          <6> QED
            BY ONLY s \in Seq(Sym), <5>1, <3>1, PieceCarries
        <5>3. Carries(<<Symbol("***")>> \o (SubSeq(s, a, e - 1) \o t), s, i + 1)
          <6> HIDE DEF a
          <6> QED
            BY ONLY s \in Seq(Sym), <5>2, <3>2, <3>4, MarkCarries
        <5>4. Carries(<<s[i]>> \o (<<Symbol("***")>> \o (SubSeq(s, a, e - 1) \o t)), s, i)
          <6> HIDE DEF a
          <6> QED
            BY <5>3, CopyCarries DEF n
        <5> QED
          BY <4>3, <5>4
      <4> QED
        BY <3>5, <4>1, <4>2, <4>3
    <3> QED
      <4> HIDE DEF Q
      <4> QED
        BY <1>0, <2>0, <3>6
  <2> QED
    BY <2>2, <2>3
<1>5. Carried(Q, s, chunk, next)
  <2> HIDE DEF Q
  <2> QED
    BY <1>3, <1>4 DEF Carried
<1>6. RedactUrlUserinfo(s) \in Q[1]
  <2>1. RedactUrlUserinfo(s) = Rewritten(s, chunk, next)
    BY DEF RedactUrlUserinfo, chunk, next, UrlChunks, UrlNexts
  <2> HIDE DEF Q
  <2> QED
    BY <1>2, <1>5, <2>1, RewrittenIn
<1>7. 1 \in 1..(n + 1)
  BY <1>1
<1> QED
  BY <1>6, <1>7

-----------------------------------------------------------------------------
\* The pass for shapes.

LEMMA ShapeEndIs ==
    ASSUME NEW s \in Seq(Sym), NEW i \in 1..Len(s)
    PROVE  \/ ShapeEnd(s, i) = 0
           \/ /\ ShapeEnd(s, i) \in i..Len(s)
              /\ \A k \in i..ShapeEnd(s, i) : s[k].char \in Hex
<1> DEFINE ends == {j \in (i + MinShape - 1)..Len(s) :
                        /\ \A k \in i..j : s[k].char \in Hex
                        /\ i = 1 \/ s[i - 1].char \notin Word
                        /\ j = Len(s) \/ s[j + 1].char \notin Word}
<1>1. CASE ends = {}
  BY <1>1 DEF ShapeEnd
<1>2. CASE ends # {}
  <2>1. ShapeEnd(s, i) = CHOOSE j \in ends : TRUE
    BY <1>2 DEF ShapeEnd
  <2>2. ShapeEnd(s, i) \in ends
    <3> HIDE DEF ends
    <3> QED
      BY <1>2, <2>1
  <2>3. MinShape \in Nat /\ MinShape >= 1 /\ Len(s) \in Nat /\ i \in Nat
    BY RedactionAssumptions
  <2> QED
    BY <2>2, <2>3
<1> QED
  BY <1>1, <1>2

ShapeChunks(s) == [i \in DOMAIN s |-> IF ShapeEnd(s, i) = 0 THEN <<s[i]>> ELSE <<Symbol("<hex>")>>]
ShapeNexts(s)  == [i \in DOMAIN s |-> IF ShapeEnd(s, i) = 0 THEN i + 1 ELSE ShapeEnd(s, i) + 1]

LEMMA ShapeNextsFit ==
    ASSUME NEW s \in Seq(Sym)
    PROVE  /\ Scannable(s, ShapeChunks(s), ShapeNexts(s))
           /\ \A i \in 1..Len(s) :
                  IF ShapeEnd(s, i) = 0
                  THEN ShapeChunks(s)[i] = <<s[i]>> /\ ShapeNexts(s)[i] = i + 1
                  ELSE /\ ShapeChunks(s)[i] = <<Symbol("<hex>")>>
                       /\ ShapeNexts(s)[i] = ShapeEnd(s, i) + 1
<1>1. Len(s) \in Nat /\ DOMAIN s = 1..Len(s)
  OBVIOUS
<1>2. ASSUME NEW i \in 1..Len(s)
      PROVE  IF ShapeEnd(s, i) = 0
             THEN ShapeChunks(s)[i] = <<s[i]>> /\ ShapeNexts(s)[i] = i + 1
             ELSE /\ ShapeChunks(s)[i] = <<Symbol("<hex>")>>
                  /\ ShapeNexts(s)[i] = ShapeEnd(s, i) + 1
  BY <1>1 DEF ShapeChunks, ShapeNexts
<1>3. ASSUME NEW i \in 1..Len(s) PROVE ShapeNexts(s)[i] \in (i + 1)..(Len(s) + 1)
  <2>1. i + 1 \in (i + 1)..(Len(s) + 1)
    BY <1>1
  <2>2. ShapeEnd(s, i) # 0 => ShapeEnd(s, i) + 1 \in (i + 1)..(Len(s) + 1)
    <3>1. ShapeEnd(s, i) = 0 \/ ShapeEnd(s, i) \in i..Len(s)
      BY ShapeEndIs
    <3> QED
      BY <1>1, <3>1
  <2> QED
    BY <1>2, <2>1, <2>2
<1> QED
  BY <1>1, <1>2, <1>3 DEF Scannable

LEMMA ShapesPass ==
    ASSUME NEW s \in Seq(Sym)
    PROVE  Carries(RedactShapes(s), s, 1)
<1> DEFINE n == Len(s)
           chunk == ShapeChunks(s)
           next == ShapeNexts(s)
           Q == [i \in 1..(n + 1) |-> {t \in Seq(Sym) : Carries(t, s, i)}]
<1>1. n \in Nat
  OBVIOUS
<1>2. /\ Scannable(s, chunk, next)
      /\ \A i \in 1..n : \/ chunk[i] = <<s[i]>> /\ next[i] = i + 1
                         \/ chunk[i] = <<Symbol("<hex>")>>
  BY ShapeNextsFit
<1> HIDE DEF chunk, next
<1>0. \A i \in 1..(n + 1) : \A t : t \in Q[i] <=> Carries(t, s, i)
  BY DEF Carries
<1>3. <<>> \in Q[n + 1]
  <2>1. n + 1 \in 1..(n + 1) /\ n + 1 \in 1..(Len(s) + 1)
    BY <1>1
  <2>2. Carries(<<>>, s, n + 1)
    BY ONLY <2>1, s \in Seq(Sym), NothingCarries
  <2> QED
    BY <2>1, <2>2
<1>4. ASSUME NEW i \in 1..n, NEW t \in Q[next[i]] PROVE chunk[i] \o t \in Q[i]
  <2>0. i \in 1..(n + 1) /\ next[i] \in 1..(n + 1)
    BY <1>1, <1>2 DEF Scannable
  <2>1. t \in Seq(Sym) /\ Carries(t, s, next[i])
    BY <2>0
  <2>2. CASE chunk[i] = <<s[i]>> /\ next[i] = i + 1
    <3>1. Carries(<<s[i]>> \o t, s, i)
      BY <2>1, <2>2, CopyCarries
    <3> QED
      <4> HIDE DEF Q
      <4> QED
        BY <1>0, <2>0, <2>2, <3>1
  <2>3. CASE chunk[i] = <<Symbol("<hex>")>>
    <3>1. "<hex>" \in Marks /\ i \in 1..(Len(s) + 1)
      BY <2>0 DEF Marks
    <3>2. Carries(<<Symbol("<hex>")>> \o t, s, i)
      BY ONLY s \in Seq(Sym), <2>1, <3>1, MarkCarries
    <3> QED
      <4> HIDE DEF Q
      <4> QED
        BY <1>0, <2>0, <2>3, <3>2
  <2> QED
    BY <1>2, <2>2, <2>3
<1>5. Carried(Q, s, chunk, next)
  <2> HIDE DEF Q
  <2> QED
    BY <1>3, <1>4 DEF Carried
<1>6. RedactShapes(s) \in Q[1]
  <2>1. RedactShapes(s) = Rewritten(s, chunk, next)
    BY DEF RedactShapes, chunk, next, ShapeChunks, ShapeNexts
  <2> HIDE DEF Q
  <2> QED
    BY <1>2, <1>5, <2>1, RewrittenIn
<1>7. 1 \in 1..(n + 1)
  BY <1>1
<1> QED
  BY <1>6, <1>7

\* No pass brings back what an earlier one has removed.
LEMMA PassKeepsValueless ==
    ASSUME NEW s \in Seq(Sym), Valueless(s), NEW t, Carries(t, s, 1)
    PROVE  Valueless(t)
<1>1. 1 \in 1..(Len(s) + 1)
  OBVIOUS
<1> SUFFICES ASSUME NEW v \in Values, NEW k \in 1..Len(t), StandsAt(v, t, k) PROVE FALSE
  BY DEF Valueless
<1>2. v \in Plain
  BY ValuesArePlain
<1>3. \E j \in 1..Len(s) : StandsAt(v, s, j)
  BY <1>1, <1>2, CarriesFound
<1> QED
  BY <1>3 DEF Valueless

LEMMA RedactedIsClean ==
    ASSUME NEW s \in Seq(Sym)
    PROVE  /\ RedactString(s) \in Seq(Sym)
           /\ Valueless(RedactString(s))
           /\ Places(RedactString(s)) \subseteq Places(RedactValues(s))
           /\ Places(RedactValues(s)) \subseteq Places(s)
<1> DEFINE a == RedactValues(s)
           b == RedactUrlUserinfo(a)
           c == RedactShapes(b)
<1>1. Carries(a, s, 1) /\ Valueless(a)
  BY ValuesPass
<1>2. a \in Seq(Sym) /\ Places(a) \subseteq Places(s)
  BY <1>1, CarriesPlaces
<1> HIDE DEF a
<1>3. Carries(b, a, 1)
  BY <1>2, UrlPass
<1>4. b \in Seq(Sym) /\ Places(b) \subseteq Places(a) /\ Valueless(b)
  BY <1>1, <1>2, <1>3, CarriesPlaces, PassKeepsValueless
<1> HIDE DEF b
<1>5. Carries(c, b, 1)
  BY <1>4, ShapesPass
<1>6. c \in Seq(Sym) /\ Places(c) \subseteq Places(b) /\ Valueless(c)
  BY <1>4, <1>5, CarriesPlaces, PassKeepsValueless
<1> HIDE DEF c
<1> QED
  BY <1>2, <1>4, <1>6 DEF a, b, c, RedactString

-----------------------------------------------------------------------------
\* What goes round the passes.

LEMMA SymbolPiecesFit ==
    ASSUME NEW special, NEW s \in Seq(Sym)
    PROVE  /\ Pieces(Sym, s, SymbolPieces(s, special))
           /\ Escape(s, special) = Flat(s, SymbolPieces(s, special))
           /\ \A i \in 1..Len(s) :
                  SymbolPieces(s, special)[i] =
                      IF s[i].char \in special THEN <<Symbol("\\"), s[i]>> ELSE <<s[i]>>
<1>1. Len(s) \in Nat /\ DOMAIN s = 1..Len(s) /\ \A i \in 1..Len(s) : s[i] \in Sym
  OBVIOUS
<1>2. \A i \in 1..Len(s) :
          SymbolPieces(s, special)[i] =
              IF s[i].char \in special THEN <<Symbol("\\"), s[i]>> ELSE <<s[i]>>
  BY <1>1 DEF SymbolPieces
<1>3. \A c \in Sym : <<Symbol("\\"), c>> \in Seq(Sym) /\ <<c>> \in Seq(Sym)
  <2>1. Symbol("\\") \in Sym
    BY DEF Symbol, Sym, Char
  <2>2. \A c \in Sym : <<c>> \in Seq(Sym)
    OBVIOUS
  <2> QED
    BY <2>1, <2>2, PairIsConcat
<1>4. Pieces(Sym, s, SymbolPieces(s, special))
  BY <1>1, <1>2, <1>3 DEF Pieces
<1>5. Escape(s, special) = Flat(s, SymbolPieces(s, special))
  BY DEF Escape, SymbolPieces
<1> QED
  BY <1>2, <1>4, <1>5

\* The elements of what escaping makes of s, piece by piece.
LEMMA EscapeIs ==
    ASSUME NEW special, NEW s \in Seq(Sym), NEW off, Offsets(off, s, SymbolPieces(s, special))
    PROVE  /\ Assembled(Escape(s, special), Sym, off, s, SymbolPieces(s, special))
           /\ \A i \in 1..Len(s) : \A k \in 1..Len(SymbolPieces(s, special)[i]) :
                  IF k = Len(SymbolPieces(s, special)[i]) THEN SymbolPieces(s, special)[i][k] = s[i]
                  ELSE SymbolPieces(s, special)[i][k] = Symbol("\\")
           /\ \A i \in 1..Len(s) :
                  Len(SymbolPieces(s, special)[i]) = IF s[i].char \in special THEN 2 ELSE 1
<1> DEFINE p == SymbolPieces(s, special)
<1>1. /\ Pieces(Sym, s, p) /\ Escape(s, special) = Flat(s, p)
      /\ \A i \in 1..Len(s) :
             p[i] = IF s[i].char \in special THEN <<Symbol("\\"), s[i]>> ELSE <<s[i]>>
  BY SymbolPiecesFit
<1> HIDE DEF p
<1>2. Assembled(Escape(s, special), Sym, off, s, p)
  <2>1. Offsets(off, s, p)
    BY DEF p
  <2> QED
    BY <1>1, <2>1, FlatIs
<1>3. \A c, d : Len(<<c, d>>) = 2 /\ <<c, d>>[1] = c /\ <<c, d>>[2] = d /\ Len(<<c>>) = 1 /\ <<c>>[1] = c
  OBVIOUS
<1>4. 1..2 = {1, 2} /\ 1..1 = {1}
  OBVIOUS
<1>5. ASSUME NEW i \in 1..Len(s)
      PROVE  /\ Len(p[i]) = IF s[i].char \in special THEN 2 ELSE 1
             /\ \A k \in 1..Len(p[i]) :
                    IF k = Len(p[i]) THEN p[i][k] = s[i] ELSE p[i][k] = Symbol("\\")
  <2>1. CASE s[i].char \in special
    <3>1. p[i] = <<Symbol("\\"), s[i]>>
      BY <1>1, <2>1
    <3>2. Len(p[i]) = 2 /\ p[i][1] = Symbol("\\") /\ p[i][2] = s[i]
      BY ONLY <1>3, <3>1
    <3> QED
      BY <1>4, <2>1, <3>2
  <2>2. CASE s[i].char \notin special
    <3>1. p[i] = <<s[i]>>
      BY <1>1, <2>2
    <3>2. Len(p[i]) = 1 /\ p[i][1] = s[i]
      BY ONLY <1>3, <3>1
    <3> QED
      BY <1>4, <2>2, <3>2
  <2> QED
    BY <2>1, <2>2
<1> QED
  BY <1>2, <1>5 DEF p

\* Every element of it is one of s, or an added backslash.
LEMMA EscapePlaces ==
    ASSUME NEW special, NEW s \in Seq(Sym)
    PROVE  Escape(s, special) \in Seq(Sym) /\ Places(Escape(s, special)) \subseteq Places(s)
<1> DEFINE p == SymbolPieces(s, special)
           r == Escape(s, special)
<1>1. Pieces(Sym, s, p)
  BY SymbolPiecesFit
<1>2. PICK off : Offsets(off, s, p)
  BY <1>1, OffsetsExist
<1>3. /\ Assembled(r, Sym, off, s, p)
      /\ \A i \in 1..Len(s) : \A k \in 1..Len(p[i]) :
             IF k = Len(p[i]) THEN p[i][k] = s[i] ELSE p[i][k] = Symbol("\\")
  BY <1>2, EscapeIs
<1>4. r \in Seq(Sym) /\ Len(r) = off[Len(s)] /\ DOMAIN r = 1..Len(r) /\ DOMAIN s = 1..Len(s)
  BY <1>3 DEF Assembled
<1>5. Symbol("\\").at = 0
  BY DEF Symbol
<1>6. ASSUME NEW h \in 1..Len(r), r[h].at # 0 PROVE \E i \in 1..Len(s) : r[h] = s[i]
  <2> HIDE DEF p, r
  <2>1. PICK i \in 1..Len(s) : \E k \in 1..Len(p[i]) : h = off[i - 1] + k
    BY <1>1, <1>2, <1>4, <1>6, InAPiece
  <2>2. PICK k \in 1..Len(p[i]) : h = off[i - 1] + k
    BY <2>1
  <2>3. r[h] = p[i][k]
    BY <1>3, <2>2 DEF Assembled
  <2> QED
    BY <1>3, <1>5, <1>6, <2>3
<1>7. Places(r) \subseteq Places(s)
  <2> HIDE DEF r, p
  <2> QED
    BY <1>4, <1>6 DEF Places
<1> QED
  BY <1>4, <1>7

LEMMA SanitizedPlaces ==
    ASSUME NEW s \in Seq(Sym)
    PROVE  /\ SanitizeString(s) \in Seq(Sym)
           /\ Places(SanitizeString(s)) \subseteq Places(RedactValues(s))
           /\ Places(SanitizeString(s)) \subseteq Places(RedactString(s))
<1> DEFINE r == RedactString(s)
           q == SubSeq(r, 1, MaxArg)
<1>1. r \in Seq(Sym) /\ Places(r) \subseteq Places(RedactValues(s))
  BY RedactedIsClean
<1> HIDE DEF r
<1>2. CASE ~(Len(r) > MaxArg)
  BY <1>1, <1>2 DEF SanitizeString, r
<1>3. CASE Len(r) > MaxArg
  <2>1. MaxArg \in Nat /\ Len(r) \in Nat /\ DOMAIN r = 1..Len(r)
    BY <1>1, RedactionAssumptions
  <2>2. q \in Seq(Sym) /\ Len(q) = MaxArg /\ \A k \in 1..MaxArg : q[k] = r[k]
    <3>1. 1 \in Int /\ MaxArg \in Int /\ \A k \in 1..MaxArg : r[k] \in Sym
      BY <1>1, <1>3, <2>1
    <3>2. /\ q \in Seq(Sym) /\ Len(q) = IF 1 <= MaxArg THEN MaxArg - 1 + 1 ELSE 0
          /\ \A k \in 1..(MaxArg - 1 + 1) : q[k] = r[1 + k - 1]
      BY ONLY <3>1, SubSeqProperties
    <3> HIDE DEF q
    <3>3. MaxArg - 1 + 1 = MaxArg /\ \A k \in 1..MaxArg : 1 + k - 1 = k
      BY <2>1
    <3>4. ~(1 <= MaxArg) => MaxArg = 0
      BY <2>1
    <3> QED
      BY ONLY <3>2, <3>3, <3>4
  <2> HIDE DEF q
  <2> DEFINE u == Append(q, Symbol("<truncated>"))
  <2>3. Symbol("<truncated>") \in Sym /\ Symbol("<truncated>").at = 0
    BY MarkTyped DEF Marks, Symbol
  <2>4. /\ u \in Seq(Sym) /\ Len(u) = Len(q) + 1
        /\ \A k \in 1..Len(q) : u[k] = q[k]
        /\ u[Len(q) + 1] = Symbol("<truncated>")
    BY ONLY <2>2, <2>3, AppendProperties
  <2> HIDE DEF u
  <2>5. ASSUME NEW k \in DOMAIN u, u[k].at # 0 PROVE k \in DOMAIN r /\ u[k] = r[k]
    <3>1. k \in 1..(MaxArg + 1)
      BY <2>2, <2>4
    <3>2. k # MaxArg + 1
      BY <2>2, <2>3, <2>4, <2>5
    <3>3. k \in 1..MaxArg /\ k \in 1..Len(r)
      BY <1>3, <2>1, <3>1, <3>2
    <3> QED
      BY <2>1, <2>2, <2>4, <3>3
  <2>6. Places(u) \subseteq Places(r)
    BY <2>5 DEF Places
  <2>7. SanitizeString(s) = u
    BY <1>3 DEF SanitizeString, r, q, u
  <2> QED
    BY <1>1, <2>4, <2>6, <2>7 DEF r
<1> QED
  BY <1>2, <1>3

LEMMA FormatTyped ==
    ASSUME NEW msg \in Seq(Sym), NEW args \in Seq(Seq(Sym)), NEW none
    PROVE  Format(msg, args, none) = none \/ Format(msg, args, none) \in Seq(Sym)
<1> DEFINE Upto(i) == {k \in Holes(msg) : k <= i}
           chunk == [i \in DOMAIN msg |->
                        IF i \in Holes(msg) THEN args[Cardinality(Upto(i))] ELSE <<msg[i]>>]
<1>1. CASE args = <<>>
  BY <1>1 DEF Format
<1>2. CASE args # <<>> /\ Cardinality(Holes(msg)) # Len(args)
  BY <1>2 DEF Format
<1>3. CASE args # <<>> /\ Cardinality(Holes(msg)) = Len(args)
  <2>1. Len(msg) \in Nat /\ DOMAIN msg = 1..Len(msg) /\ Len(args) \in Nat
    OBVIOUS
  <2>2. IsFiniteSet(Holes(msg))
    <3>1. IsFiniteSet(1..Len(msg))
      BY <2>1, FS_Interval
    <3>2. Holes(msg) \subseteq 1..Len(msg)
      BY <2>1 DEF Holes
    <3> QED
      BY <3>1, <3>2, FS_Subset
  <2>3. ASSUME NEW i \in 1..Len(msg) PROVE chunk[i] \in Seq(Sym)
    <3>1. CASE i \in Holes(msg)
      <4>1. Upto(i) \subseteq Holes(msg) /\ i \in Upto(i)
        BY <2>1, <3>1
      <4>2. /\ IsFiniteSet(Upto(i)) /\ Cardinality(Upto(i)) <= Cardinality(Holes(msg))
        BY <2>2, <4>1, FS_Subset
      <4>3. Cardinality(Upto(i)) \in Nat /\ Cardinality(Upto(i)) # 0
        BY <4>1, <4>2, FS_CardinalityType, FS_EmptySet
      <4>4. Cardinality(Upto(i)) \in 1..Len(args)
        <5> HIDE DEF Upto
        <5> QED
          BY <1>3, <2>1, <4>2, <4>3
      <4>5. chunk[i] = args[Cardinality(Upto(i))]
        BY <2>1, <3>1
      <4> HIDE DEF Upto
      <4> QED
        BY <4>4, <4>5
    <3>2. CASE i \notin Holes(msg)
      <4>1. chunk[i] = <<msg[i]>> /\ msg[i] \in Sym
        BY <2>1, <3>2
      <4>2. <<msg[i]>> \in Seq(Sym)
        BY <4>1
      <4> HIDE DEF chunk
      <4> QED
        BY <4>1, <4>2
    <3> QED
      BY <3>1, <3>2
  <2> HIDE DEF chunk
  <2>4. Pieces(Sym, msg, chunk)
    BY <2>1, <2>3 DEF Pieces
  <2>5. PICK off : Offsets(off, msg, chunk)
    BY <2>4, OffsetsExist
  <2>6. Assembled(Flat(msg, chunk), Sym, off, msg, chunk)
    BY <2>4, <2>5, FlatIs
  <2>7. Format(msg, args, none) = Flat(msg, chunk)
    BY <1>3 DEF Format, chunk
  <2> QED
    BY <2>6, <2>7 DEF Assembled
<1> QED
  BY <1>1, <1>2, <1>3

\* A record is shown without a value, whatever is put together for it.
LEMMA RecordIsClean ==
    ASSUME NEW msg \in Seq(Sym), NEW args \in Seq(Seq(Sym)), NEW plain \in BOOLEAN, NEW none
    PROVE  LET r == RedactRecord(msg, args, plain, none)
           IN  r # none => r \in Seq(Sym) /\ Valueless(r)
<1> DEFINE parts == [i \in DOMAIN args |-> RedactString(args[i])]
           whole == IF plain THEN Format(RedactString(msg), parts, none) ELSE Format(msg, args, none)
           r == RedactRecord(msg, args, plain, none)
<1>1. RedactString(msg) \in Seq(Sym) /\ Valueless(RedactString(msg))
  BY RedactedIsClean
<1>2. parts \in Seq(Seq(Sym))
  <2>1. Len(args) \in Nat /\ DOMAIN args = 1..Len(args) /\ \A i \in 1..Len(args) : args[i] \in Seq(Sym)
    OBVIOUS
  <2>2. \A i \in 1..Len(args) : RedactString(args[i]) \in Seq(Sym)
    BY <2>1, RedactedIsClean
  <2>3. parts \in [1..Len(args) -> Seq(Sym)]
    BY <2>1, <2>2
  <2> HIDE DEF parts
  <2>4. Seq(Seq(Sym)) = UNION {[1..n -> Seq(Sym)] : n \in Nat}
    BY ONLY SeqDef
  <2> QED
    BY ONLY <2>1, <2>3, <2>4
<1>3. whole = none \/ whole \in Seq(Sym)
  <2> HIDE DEF parts
  <2> QED
    BY <1>1, <1>2, FormatTyped
<1>4. r = IF whole = none \/ (plain /\ args = <<>>) THEN whole ELSE RedactString(whole)
  BY DEF RedactRecord
<1>5. plain /\ args = <<>> => whole = RedactString(msg)
  <2>1. args = <<>> => parts = <<>>
    OBVIOUS
  <2> HIDE DEF parts
  <2> QED
    BY <2>1 DEF Format
<1> HIDE DEF parts, whole, r
<1>6. whole \in Seq(Sym) => RedactString(whole) \in Seq(Sym) /\ Valueless(RedactString(whole))
  BY RedactedIsClean
<1> SUFFICES ASSUME r # none PROVE r \in Seq(Sym) /\ Valueless(r)
  BY DEF r
<1> QED
  BY <1>1, <1>3, <1>4, <1>5, <1>6

\* A record without arguments is its message, redacted.
LEMMA RecordAlone ==
    ASSUME NEW msg, NEW none
    PROVE  RedactRecord(msg, <<>>, TRUE, none) = RedactString(msg)
<1>1. [i \in DOMAIN <<>> |-> RedactString(<<>>[i])] = <<>>
  OBVIOUS
<1> QED
  BY <1>1 DEF RedactRecord, Format

-----------------------------------------------------------------------------
\* A value that stands from a to b and is where the places B are.

\* No value that begins before a reaches a.
Free(s, a) == \A w \in Values : \A j \in 1..(a - 1) : ~(StandsAt(w, s, j) /\ j + Len(w) > a)

LEMMA ValueGone ==
    ASSUME NEW s \in Seq(Sym), NEW a \in 1..Len(s), NEW b \in a..Len(s),
           NEW w \in Values, StandsAt(w, s, a), Len(w) = b - a + 1, Free(s, a),
           NEW B \in SUBSET (Nat \ {0}), \A h \in 1..Len(s) : s[h].at \in B => h \in a..b
    PROVE  Places(RedactValues(s)) \intersect B = {}
<1> DEFINE n == Len(s)
           chunk == [i \in DOMAIN s |->
                        IF ValueAt(s, i) = <<>> THEN <<s[i]>> ELSE <<Symbol("<value>")>>]
           next == [i \in DOMAIN s |->
                        IF ValueAt(s, i) = <<>> THEN i + 1 ELSE i + Len(ValueAt(s, i))]
           Clean(t) == \A h \in 1..Len(t) : t[h].at \notin B
           Q == [i \in 1..(n + 1) |-> {t \in Seq(Sym) : i <= a \/ i > b => Clean(t)}]
<1>1. n \in Nat /\ DOMAIN s = 1..n /\ a \in Nat /\ b \in Nat /\ a >= 1 /\ b <= n /\ a <= b
  OBVIOUS
<1>2. ASSUME NEW i \in 1..n
      PROVE  \/ /\ \A v \in Values : ~StandsAt(v, s, i)
                /\ chunk[i] = <<s[i]>> /\ next[i] = i + 1
             \/ /\ chunk[i] = <<Symbol("<value>")>> /\ next[i] \in (i + 1)..(n + 1)
                /\ i < a => next[i] <= a
                /\ i = a => next[i] > b
  <2>1. CASE ValueAt(s, i) = <<>>
    <3>1. chunk[i] = <<s[i]>> /\ next[i] = i + 1
      BY <1>1, <2>1
    <3>2. \A v \in Values : ~StandsAt(v, s, i)
      BY <2>1, ValueAtIs
    <3> QED
      BY ONLY <3>1, <3>2
  <2>2. CASE ValueAt(s, i) # <<>>
    <3> DEFINE v == ValueAt(s, i)
    <3>1. v \in Values /\ StandsAt(v, s, i) /\ (StandsAt(w, s, i) => Len(w) <= Len(v))
      BY <2>2, ValueAtIs
    <3>4. chunk[i] = <<Symbol("<value>")>> /\ next[i] = i + Len(v)
      BY <1>1, <2>2
    <3> HIDE DEF v, chunk, next
    <3>2. Len(v) \in Nat /\ Len(v) >= 1
      BY <3>1, ValuesArePlain DEF Plain
    <3>3. i + Len(v) - 1 <= Len(s)
      BY <3>1 DEF StandsAt
    <3>5. i + Len(v) \in (i + 1)..(n + 1)
      BY <1>1, <3>2, <3>3
    <3>6. i < a => i + Len(v) <= a
      <4>1. i < a => i \in 1..(a - 1)
        BY <1>1
      <4>2. i < a => ~(i + Len(v) > a)
        BY <3>1, <4>1 DEF Free
      <4> QED
        BY <1>1, <3>2, <4>2
    <3>7. i = a => i + Len(v) > b
      BY <1>1, <3>1, <3>2
    <3> QED
      BY ONLY <3>4, <3>5, <3>6, <3>7
  <2> QED
    BY <2>1, <2>2
<1> HIDE DEF chunk, next
<1>3. Scannable(s, chunk, next)
  <2>1. \A i \in 1..n : i + 1 \in (i + 1)..(n + 1)
    BY <1>1
  <2> QED
    BY <1>1, <1>2, <2>1 DEF Scannable
<1>4. <<>> \in Q[n + 1]
  <2>1. n + 1 \in 1..(n + 1) /\ Clean(<<>>) /\ <<>> \in Seq(Sym)
    BY <1>1
  <2> QED
    BY <2>1
<1>5. ASSUME NEW i \in 1..n, NEW t \in Q[next[i]] PROVE chunk[i] \o t \in Q[i]
  <2>0. i \in 1..(n + 1) /\ next[i] \in 1..(n + 1) /\ next[i] \in (i + 1)..(n + 1)
    BY <1>1, <1>3 DEF Scannable
  <2>1. t \in Seq(Sym) /\ (next[i] <= a \/ next[i] > b => Clean(t)) /\ Len(t) \in Nat
    BY <2>0
  <2>2. PICK c : chunk[i] = <<c>> /\ c \in Sym /\ (i < a \/ i = a \/ i > b => c.at \notin B)
    <3>1. CASE /\ \A v \in Values : ~StandsAt(v, s, i)
               /\ chunk[i] = <<s[i]>> /\ next[i] = i + 1
      <4>1. i # a
        BY <3>1
      <4>2. i < a \/ i > b => s[i].at \notin B
        BY <1>1
      <4>3. s[i] \in Sym
        BY <1>1
      <4> QED
        BY ONLY <3>1, <4>1, <4>2, <4>3
    <3>2. CASE chunk[i] = <<Symbol("<value>")>>
      <4>1. Symbol("<value>") \in Sym
        BY MarkTyped DEF Marks
      <4>2. Symbol("<value>").at \notin B
        BY DEF Symbol
      <4> QED
        BY ONLY <3>2, <4>1, <4>2
    <3> QED
      BY ONLY <1>2, <3>1, <3>2, i \in 1..n
  <2> DEFINE u == <<c>> \o t
  <2>3. /\ u \in Seq(Sym) /\ Len(u) = 1 + Len(t) /\ u[1] = c
        /\ \A k \in 1..Len(t) : u[1 + k] = t[k]
    <3>1. <<c>> \in Seq(Sym) /\ Len(<<c>>) = 1 /\ <<c>>[1] = c /\ 1 \in 1..Len(<<c>>)
      BY <2>2
    <3>2. /\ <<c>> \o t \in Seq(Sym) /\ Len(<<c>> \o t) = Len(<<c>>) + Len(t)
          /\ \A k \in 1..Len(<<c>>) : (<<c>> \o t)[k] = <<c>>[k]
          /\ \A k \in 1..Len(t) : (<<c>> \o t)[Len(<<c>>) + k] = t[k]
      BY ONLY <3>1, <2>1, Joined
    <3> QED
      BY <3>1, <3>2
  <2>4. i <= a \/ i > b => next[i] <= a \/ next[i] > b
    <3>1. i < a => next[i] <= a
      BY <1>1, <1>2
    <3>2. i = a => next[i] > b \/ next[i] = i + 1
      BY <1>2
    <3>3. i = a => ~(\A v \in Values : ~StandsAt(v, s, i))
      OBVIOUS
    <3>4. i = a => next[i] > b
      BY <1>2, <3>3
    <3>5. i > b => next[i] > b
      BY <1>1, <2>0
    <3>6. i <= a => i < a \/ i = a
      BY <1>1
    <3> QED
      BY ONLY <3>1, <3>4, <3>5, <3>6
  <2>5. i <= a \/ i > b => Clean(u)
    <3> SUFFICES ASSUME i <= a \/ i > b, NEW h \in 1..Len(u) PROVE u[h].at \notin B
      OBVIOUS
    <3> HIDE DEF u
    <3>1. CASE h = 1
      <4>1. i < a \/ i = a \/ i > b
        BY <1>1
      <4> QED
        BY <2>2, <2>3, <3>1, <4>1
    <3>2. CASE h # 1
      <4>1. h - 1 \in 1..Len(t) /\ 1 + (h - 1) = h
        BY <2>1, <2>3, <3>2
      <4>2. Clean(t)
        BY <2>1, <2>4
      <4> QED
        BY <2>3, <4>1, <4>2
    <3> QED
      BY <3>1, <3>2
  <2> HIDE DEF Clean, u
  <2>6. u \in Q[i]
    BY <2>0, <2>3, <2>5
  <2> QED
    BY <2>2, <2>6 DEF u
<1>6. Carried(Q, s, chunk, next)
  <2> HIDE DEF Q
  <2> QED
    BY <1>4, <1>5 DEF Carried
<1>7. RedactValues(s) \in Q[1]
  <2>1. RedactValues(s) = Rewritten(s, chunk, next)
    BY DEF RedactValues, chunk, next
  <2> HIDE DEF Q
  <2> QED
    BY <1>3, <1>6, <2>1, RewrittenIn
<1>8. RedactValues(s) \in Seq(Sym) /\ Clean(RedactValues(s))
  <2>1. 1 \in 1..(n + 1) /\ 1 <= a
    BY <1>1
  <2> HIDE DEF Clean
  <2> QED
    BY <1>7, <2>1
<1> QED
  BY <1>8 DEF Places

LEMMA Shifted ==
    ASSUME NEW x \in Nat, NEW y \in Nat, NEW z \in Nat
    PROVE  (x + 1) + (y + z) - 1 = (x + y) + z
OBVIOUS

\* The value v stands at i of s: where it is in Escape(s, special), as it is escaped itself.
EscapedStands(s, special, v, i, a, b) ==
    /\ a \in 1..Len(Escape(s, special)) /\ b \in a..Len(Escape(s, special))
    /\ StandsAt(EscapeChars(v, special), Escape(s, special), a)
    /\ Len(EscapeChars(v, special)) = b - a + 1
    /\ \A h \in 1..Len(Escape(s, special)) :
           Escape(s, special)[h].at \in i..(i + Len(v) - 1) => h \in a..b
    /\ i > 1 => a > 1 /\ Escape(s, special)[a - 1].at = i - 1
    /\ i = 1 => a = 1

LEMMA EscapedValue ==
    ASSUME NEW special, NEW s \in Seq(Sym), \A h \in 1..Len(s) : s[h].at = h,
           NEW v \in Plain, NEW i \in 1..Len(s), StandsAt(v, s, i)
    PROVE  \E a, b : EscapedStands(s, special, v, i, a, b)
<1> DEFINE n == Len(v)
           p == SymbolPieces(s, special)
           q == CharPieces(v, special)
           R == Escape(s, special)
           E == EscapeChars(v, special)
<1>1. /\ v \in Seq(Char) /\ n \in Nat /\ n >= 1 /\ DOMAIN v = 1..n /\ DOMAIN s = 1..Len(s)
      /\ Len(s) \in Nat /\ i \in Nat /\ i >= 1
  BY DEF Plain
<1>2. i + n - 1 <= Len(s) /\ \A k \in 1..n : s[i + k - 1].char = v[k]
  BY <1>1 DEF StandsAt
<1>3. /\ Pieces(Sym, s, p)
      /\ \A k \in 1..Len(s) :
             p[k] = IF s[k].char \in special THEN <<Symbol("\\"), s[k]>> ELSE <<s[k]>>
  BY SymbolPiecesFit
<1>4. /\ Pieces(Char, v, q) /\ E = Flat(v, q)
      /\ \A k \in 1..n : q[k] = IF v[k] \in special THEN <<"\\", v[k]>> ELSE <<v[k]>>
  <2>1. Pieces(Char, v, q) /\ E = Flat(v, q)
    BY ONLY <1>1, CharPiecesFit
  <2>2. \A k \in 1..n : q[k] = IF v[k] \in special THEN <<"\\", v[k]>> ELSE <<v[k]>>
    BY <1>1 DEF CharPieces
  <2> QED
    BY ONLY <2>1, <2>2
<1>5. PICK off : Offsets(off, s, p)
  BY <1>3, OffsetsExist
<1>6. PICK ofv : Offsets(ofv, v, q)
  BY <1>4, OffsetsExist
<1>7. /\ Assembled(R, Sym, off, s, p)
      /\ \A k \in 1..Len(s) : \A m \in 1..Len(p[k]) :
             IF m = Len(p[k]) THEN p[k][m] = s[k] ELSE p[k][m] = Symbol("\\")
      /\ \A k \in 1..Len(s) : Len(p[k]) = IF s[k].char \in special THEN 2 ELSE 1
  BY <1>5, EscapeIs
<1>8. Assembled(E, Char, ofv, v, q)
  BY <1>4, <1>6, FlatIs
<1> DEFINE a == off[i - 1] + 1
           b == off[i + n - 1]
<1> HIDE DEF p, q, R, E
<1>9. /\ R \in Seq(Sym) /\ Len(R) = off[Len(s)] /\ E \in Seq(Char) /\ Len(E) = ofv[n]
      /\ Len(R) \in Nat /\ Len(E) \in Nat /\ DOMAIN E = 1..Len(E)
  BY <1>7, <1>8 DEF Assembled
<1>10. /\ \A k \in 0..Len(s) : off[k] \in Nat
       /\ off[0] = 0
       /\ \A k \in 1..Len(s) : off[k] = off[k - 1] + Len(p[k])
       /\ \A k \in 0..n : ofv[k] \in Nat
       /\ ofv[0] = 0
       /\ \A k \in 1..n : ofv[k] = ofv[k - 1] + Len(q[k])
  BY <1>5, <1>6 DEF Offsets
\* The same pieces, but for the places.
<1>11. ASSUME NEW k \in 1..n
       PROVE  /\ i + k - 1 \in 1..Len(s) /\ s[i + k - 1].char = v[k]
              /\ Len(q[k]) = Len(p[i + k - 1])
              /\ \A m \in 1..Len(q[k]) : p[i + k - 1][m].char = q[k][m]
  <2> DEFINE j == i + k - 1
  <2>1. j \in 1..Len(s) /\ s[j].char = v[k]
    BY <1>1, <1>2
  <2> HIDE DEF j
  <2>2. \A c, d : /\ Len(<<c, d>>) = 2 /\ <<c, d>>[1] = c /\ <<c, d>>[2] = d
                  /\ Len(<<c>>) = 1 /\ <<c>>[1] = c
    OBVIOUS
  <2>3. 1..2 = {1, 2} /\ 1..1 = {1} /\ Symbol("\\").char = "\\"
    BY DEF Symbol
  <2>4. CASE v[k] \in special
    <3>1. q[k] = <<"\\", v[k]>> /\ p[j] = <<Symbol("\\"), s[j]>>
      BY <1>3, <1>4, <2>1, <2>4
    <3>2. Len(q[k]) = 2 /\ q[k][1] = "\\" /\ q[k][2] = v[k]
      BY ONLY <2>2, <3>1
    <3>3. Len(p[j]) = 2 /\ p[j][1] = Symbol("\\") /\ p[j][2] = s[j]
      BY ONLY <2>2, <3>1
    <3>4. Len(q[k]) = Len(p[j]) /\ \A m \in 1..Len(q[k]) : p[j][m].char = q[k][m]
      BY ONLY <2>1, <2>3, <3>2, <3>3
    <3> QED
      BY <2>1, <3>4 DEF j
  <2>5. CASE v[k] \notin special
    <3>1. q[k] = <<v[k]>> /\ p[j] = <<s[j]>>
      BY <1>3, <1>4, <2>1, <2>5
    <3>2. Len(q[k]) = 1 /\ q[k][1] = v[k]
      BY ONLY <2>2, <3>1
    <3>3. Len(p[j]) = 1 /\ p[j][1] = s[j]
      BY ONLY <2>2, <3>1
    <3>4. Len(q[k]) = Len(p[j]) /\ \A m \in 1..Len(q[k]) : p[j][m].char = q[k][m]
      BY ONLY <2>1, <2>3, <3>2, <3>3
    <3> QED
      BY <2>1, <3>4 DEF j
  <2> QED
    BY <2>4, <2>5
<1>12. \A k \in 0..n : i + k - 1 \in 0..Len(s) /\ off[i + k - 1] = off[i - 1] + ofv[k]
  <2> DEFINE S == {k \in 0..n : off[i + k - 1] = off[i - 1] + ofv[k]}
  <2>1. 0 \in S
    <3>1. i + 0 - 1 = i - 1 /\ i - 1 \in 0..Len(s) /\ 0 \in 0..n
      BY <1>1
    <3> QED
      BY <1>10, <3>1
  <2>2. ASSUME NEW k \in 1..n, k - 1 \in S PROVE k \in S
    <3>1. /\ i + (k - 1) - 1 = (i + k - 1) - 1 /\ k \in 0..n /\ k - 1 \in 0..n
          /\ i - 1 \in 0..Len(s) /\ (i + k - 1) - 1 \in 0..Len(s)
      BY <1>1, <1>2
    <3>2. off[(i + k - 1) - 1] = off[i - 1] + ofv[k - 1]
      BY <2>2, <3>1
    <3>3. off[i + k - 1] = off[(i + k - 1) - 1] + Len(p[i + k - 1])
      BY <1>10, <1>11
    <3>4. ofv[k] = ofv[k - 1] + Len(p[i + k - 1])
      BY <1>10, <1>11
    <3>5. off[i - 1] \in Nat /\ ofv[k - 1] \in Nat /\ Len(p[i + k - 1]) \in Nat
      <4>1. i + k - 1 \in 1..Len(s)
        BY <1>11
      <4> QED
        BY <1>10, <1>3, <3>1, <4>1 DEF Pieces
    <3>6. \A x, y, z \in Nat : (x + y) + z = x + (y + z)
      OBVIOUS
    <3>7. off[i + k - 1] = off[i - 1] + ofv[k]
      BY ONLY <3>2, <3>3, <3>4, <3>5, <3>6
    <3> QED
      BY <3>1, <3>7
  <2>3. 0..n \subseteq S
    <3> HIDE DEF S, n
    <3> QED
      BY <1>1, <2>1, <2>2, Stepwise
  <2>4. \A k \in 0..n : i + k - 1 \in 0..Len(s)
    BY <1>1, <1>2
  <2> QED
    BY <2>3, <2>4
<1>13. /\ i - 1 \in 0..Len(s) /\ i + n - 1 \in 0..Len(s) /\ off[i - 1] \in Nat
       /\ b = off[i - 1] + Len(E) /\ b <= Len(R) /\ b \in Nat
  <2>1. n \in 0..n /\ i - 1 \in 0..Len(s)
    BY <1>1
  <2>2. i + n - 1 \in 0..Len(s) /\ b = off[i - 1] + Len(E)
    BY <1>9, <1>12, <2>1
  <2>3. b <= off[Len(s)]
    <3>1. Len(s) \in (i + n - 1)..Len(s)
      BY <1>1, <2>2
    <3> QED
      BY <1>3, <1>5, <2>2, <3>1, OffsetsGrow
  <2> QED
    BY <1>9, <1>10, <2>1, <2>2, <2>3
<1>14. Len(E) >= 1
  <2>1. E \in Plain
    BY EscapedIsPlain DEF E
  <2> QED
    BY <2>1 DEF Plain
<1>15. a \in 1..Len(R) /\ b \in a..Len(R) /\ Len(E) = b - a + 1
  <2>1. \A x, y, z, e \in Nat : y = x + e /\ y <= z /\ e >= 1 =>
            x + 1 \in 1..z /\ y \in (x + 1)..z /\ e = y - (x + 1) + 1
    OBVIOUS
  <2> HIDE DEF b
  <2> QED
    BY ONLY <1>9, <1>13, <1>14, <2>1
<1>16. StandsAt(E, R, a)
  <2>1. ASSUME NEW h \in 1..Len(E) PROVE R[a + h - 1].char = E[h]
    <3>1. PICK k \in 1..n : \E m \in 1..Len(q[k]) : h = ofv[k - 1] + m
      <4>1. h \in 1..ofv[Len(v)]
        BY <1>9
      <4> QED
        BY <1>4, <1>6, <4>1, InAPiece
    <3>2. PICK m \in 1..Len(q[k]) : h = ofv[k - 1] + m
      BY <3>1
    <3>3. E[h] = q[k][m]
      BY <1>8, <3>2 DEF Assembled
    <3>4. /\ k - 1 \in 0..n /\ i + (k - 1) - 1 = (i + k - 1) - 1 /\ i + k - 1 \in 1..Len(s)
          /\ m \in 1..Len(p[i + k - 1])
      BY <1>1, <1>11
    <3>5. off[(i + k - 1) - 1] = off[i - 1] + ofv[k - 1] /\ ofv[k - 1] \in Nat
      BY <1>10, <1>12, <3>4
    <3>6. Len(q[k]) \in Nat
      BY <1>4 DEF Pieces
    <3>7. a + h - 1 = off[(i + k - 1) - 1] + m
      <4>1. m \in Nat /\ h \in Nat
        BY <1>9, <3>6
      <4>2. (off[i - 1] + 1) + (ofv[k - 1] + m) - 1 = (off[i - 1] + ofv[k - 1]) + m
        BY ONLY <1>13, <3>5, <4>1, Shifted, SMTT(60)
      <4> QED
        BY ONLY <3>2, <3>5, <4>2
    <3>8. R[off[(i + k - 1) - 1] + m] = p[i + k - 1][m]
      BY <1>7, <3>4 DEF Assembled
    <3>9. p[i + k - 1][m].char = q[k][m]
      BY <1>11
    <3> HIDE DEF a
    <3> QED
      BY ONLY <3>3, <3>7, <3>8, <3>9
  <2>2. a + Len(E) - 1 <= Len(R)
    <3>1. \A x, e, l \in Nat : x + e <= l => (x + 1) + e - 1 <= l
      OBVIOUS
    <3>2. off[i - 1] + Len(E) <= Len(R)
      BY <1>13
    <3> QED
      BY ONLY <1>9, <1>13, <3>1, <3>2
  <2> HIDE DEF a
  <2> QED
    BY <1>9, <2>1, <2>2 DEF StandsAt
<1>17. ASSUME NEW h \in 1..Len(R), R[h].at \in i..(i + n - 1) PROVE h \in a..b
  <2>1. PICK k \in 1..Len(s) : \E m \in 1..Len(p[k]) : h = off[k - 1] + m
    <3>1. h \in 1..off[Len(s)]
      BY <1>9
    <3>2. Pieces(Sym, s, p)
      BY <1>3
    <3> QED
      BY ONLY <1>5, <3>1, <3>2, InAPiece
  <2>2. PICK m \in 1..Len(p[k]) : h = off[k - 1] + m
    BY <2>1
  <2>3. R[h] = p[k][m]
    BY <1>7, <2>2 DEF Assembled
  <2>4. p[k][m] = s[k]
    <3>1. Symbol("\\").at = 0 /\ ~(0 \in i..(i + n - 1))
      BY <1>1 DEF Symbol
    <3> QED
      BY <1>7, <1>17, <2>3, <3>1
  <2>5. k \in i..(i + n - 1)
    BY <1>17, <2>3, <2>4
  <2>6. k - 1 \in 0..Len(s) /\ k \in 0..Len(s) /\ k - 1 \in (i - 1)..Len(s) /\ i + n - 1 \in k..Len(s)
    BY <1>1, <1>13, <2>5
  <2>7. off[i - 1] <= off[k - 1]
    BY <1>3, <1>5, <1>13, <2>6, OffsetsGrow
  <2>8. off[k] <= off[i + n - 1]
    BY <1>3, <1>5, <2>6, OffsetsGrow
  <2>9. off[k] = off[k - 1] + Len(p[k]) /\ off[k - 1] \in Nat /\ Len(p[k]) \in Nat
    BY <1>3, <1>10, <2>6 DEF Pieces
  <2>10. \A x, y, z, l, c \in Nat : \A d \in 1..l :
             x <= y /\ z = y + l /\ z <= c => y + d \in (x + 1)..c
    BY ONLY SMTT(60)
  <2>11. off[k] \in Nat /\ off[i - 1] \in Nat /\ off[i + n - 1] \in Nat
    BY <1>10, <1>13, <2>6
  <2> QED
    BY ONLY <2>2, <2>7, <2>8, <2>9, <2>10, <2>11
<1>18. i > 1 => a > 1 /\ R[a - 1].at = i - 1
  <2> SUFFICES ASSUME i > 1 PROVE a > 1 /\ R[a - 1].at = i - 1
    OBVIOUS
  <2> DEFINE k == i - 1
  <2>1. k \in 1..Len(s) /\ k - 1 \in 0..Len(s)
    BY <1>1
  <2>2. off[k] = off[k - 1] + Len(p[k]) /\ off[k - 1] \in Nat /\ Len(p[k]) \in {1, 2}
    BY <1>7, <1>10, <2>1
  <2> DEFINE m == Len(p[k])
  <2>3. m \in 1..Len(p[k]) /\ m \in Nat /\ m >= 1
    <3>1. \A x \in {1, 2} : x \in 1..x /\ x \in Nat /\ x >= 1
      OBVIOUS
    <3> QED
      BY ONLY <2>2, <3>1
  <2>4. R[off[k - 1] + m] = p[k][m]
    BY <1>7, <2>1, <2>3 DEF Assembled
  <2>5. p[k][m] = s[k] /\ s[k].at = k
    BY <1>7, <2>1, <2>3
  <2>6. a - 1 = off[k - 1] + m /\ a > 1
    <3> HIDE DEF k, m
    <3>1. a = off[k] + 1
      BY DEF k
    <3>2. off[k] = off[k - 1] + m
      BY <2>2 DEF m
    <3> HIDE DEF a
    <3> QED
      BY <2>2, <2>3, <3>1, <3>2
  <2> HIDE DEF a, m
  <2> QED
    BY <2>4, <2>5, <2>6
<1>19. i = 1 => a = 1
  BY <1>10
<1> QED
  <2> HIDE DEF a, b
  <2>1. EscapedStands(s, special, v, i, a, b)
    BY <1>15, <1>16, <1>17, <1>18, <1>19 DEF EscapedStands, R, E
  <2> QED
    BY <2>1

-----------------------------------------------------------------------------
\* Where what a pass leaves has been: f[k] is the place in s of the k-th symbol of t, which s
\* from i on has become; 0 is a placeholder's place, and the end of t has been the end of s.

InPlace(s, i, e, x, p) == IF p = 0 THEN x.char \in Marks /\ x.at = 0 ELSE p \in i..e /\ x = s[p]

Runs(f, n)  == \A k, l \in 1..n : l = k + 1 /\ f[k] # 0 /\ f[l] # 0 => f[l] = f[k] + 1
Rises(f, n) == \A k, l \in 1..n : k < l /\ f[k] # 0 /\ f[l] # 0 => f[k] < f[l]
Grows(f, n) == Runs(f, n) /\ Rises(f, n)

Traces(t, f, s, i) ==
    /\ t \in Seq(Sym)
    /\ f \in [1..(Len(t) + 1) -> Nat]
    /\ f[1] \in {0, i} /\ f[Len(t) + 1] = Len(s) + 1
    /\ \A k \in 1..Len(t) : InPlace(s, i, Len(s), t[k], f[k])
    /\ Grows(f, Len(t) + 1)

\* The same of the piece c that s from i to e - 1 becomes.
Chunk(c, g, s, i, e) ==
    /\ c \in Seq(Sym) /\ Len(c) >= 1
    /\ g \in [1..Len(c) -> Nat]
    /\ g[1] \in {0, i} /\ g[Len(c)] \in {0, e - 1}
    /\ \A k \in 1..Len(c) : InPlace(s, i, e - 1, c[k], g[k])
    /\ Grows(g, Len(c))

Join(g, n, f, m) == [k \in 1..(n + m) |-> IF k <= n THEN g[k] ELSE f[k - n]]

\* The symbol at m is still there.
In(f, t, m) == \E k \in 1..Len(t) : f[k] = m

Joins(h, g, n, f, m) ==
    /\ \A k \in 1..n : h[k] = g[k]
    /\ \A k \in 1..m : h[n + k] = f[k]

LEMMA JoinIs ==
    ASSUME NEW g, NEW n \in Nat, NEW f, NEW m \in Nat
    PROVE  Joins(Join(g, n, f, m), g, n, f, m)
<1>1. ASSUME NEW k \in 1..n PROVE Join(g, n, f, m)[k] = g[k]
  BY DEF Join
<1>2. ASSUME NEW k \in 1..m PROVE Join(g, n, f, m)[n + k] = f[k]
  <2>1. n + k \in 1..(n + m) /\ ~(n + k <= n) /\ (n + k) - n = k
    OBVIOUS
  <2> QED
    BY <2>1 DEF Join
<1> QED
  BY <1>1, <1>2 DEF Joins

LEMMA NothingTraces ==
    ASSUME NEW s \in Seq(Sym)
    PROVE  Traces(<<>>, [k \in 1..1 |-> Len(s) + 1], s, Len(s) + 1)
<1>1. Len(<<>>) = 0 /\ <<>> \in Seq(Sym) /\ Len(s) + 1 \in Nat /\ 0 + 1 = 1
  OBVIOUS
<1> QED
  BY <1>1 DEF Traces, Grows, Runs, Rises

LEMMA TraceJoin ==
    ASSUME NEW s \in Seq(Sym), NEW i \in 1..Len(s), NEW e \in (i + 1)..(Len(s) + 1),
           NEW c, NEW g, Chunk(c, g, s, i, e), NEW t, NEW f, Traces(t, f, s, e)
    PROVE  Traces(c \o t, Join(g, Len(c), f, Len(t) + 1), s, i)
<1> DEFINE n == Len(c)
           m == Len(t)
           u == c \o t
           h == Join(g, n, f, m + 1)
<1>1. c \in Seq(Sym) /\ t \in Seq(Sym) /\ n \in Nat /\ n >= 1 /\ m \in Nat /\ Len(s) \in Nat
  BY DEF Chunk, Traces
<1>2. /\ u \in Seq(Sym) /\ Len(u) = n + m
      /\ \A k \in 1..n : u[k] = c[k]
      /\ \A k \in 1..m : u[n + k] = t[k]
  BY ONLY <1>1, Joined
<1>3. /\ \A k \in 1..n : h[k] = g[k]
      /\ \A k \in 1..(m + 1) : h[n + k] = f[k]
  <2>1. m + 1 \in Nat
    BY <1>1
  <2>2. Joins(h, g, n, f, m + 1)
    BY ONLY <1>1, <2>1, JoinIs
  <2> HIDE DEF h, n, m
  <2> QED
    BY <2>2 DEF Joins
<1>4. /\ g \in [1..n -> Nat] /\ f \in [1..(m + 1) -> Nat]
      /\ g[1] \in {0, i} /\ g[n] \in {0, e - 1} /\ f[1] \in {0, e} /\ f[m + 1] = Len(s) + 1
      /\ \A k \in 1..n : InPlace(s, i, e - 1, c[k], g[k])
      /\ \A k \in 1..m : InPlace(s, e, Len(s), t[k], f[k])
      /\ Grows(g, n) /\ Grows(f, m + 1)
  BY DEF Chunk, Traces
<1>5. h \in [1..(n + (m + 1)) -> Nat]
  <2>1. h = [k \in 1..(n + (m + 1)) |-> h[k]]
    BY DEF Join
  <2>2. ASSUME NEW k \in 1..(n + (m + 1)) PROVE h[k] \in Nat
    <3>1. CASE k <= n
      <4>1. k \in 1..n
        BY <1>1, <3>1
      <4> HIDE DEF h
      <4> QED
        BY <1>3, <1>4, <4>1
    <3>2. CASE ~(k <= n)
      <4>1. k - n \in 1..(m + 1) /\ n + (k - n) = k
        BY <1>1, <3>2
      <4> HIDE DEF h
      <4> QED
        BY <1>3, <1>4, <4>1
    <3> QED
      BY <3>1, <3>2
  <2> HIDE DEF h
  <2> QED
    BY <2>1, <2>2
<1> HIDE DEF h, u, n, m
<1>6. h[1] \in {0, i}
  BY <1>1, <1>3, <1>4, SMTT(60)
<1>7. h[Len(u) + 1] = Len(s) + 1
  <2>1. m + 1 \in 1..(m + 1) /\ Len(u) + 1 = n + (m + 1)
    BY <1>1, <1>2
  <2> QED
    BY <1>3, <1>4, <2>1
<1>8. \A k \in 1..n : h[k] # 0 => h[k] \in i..(e - 1)
  BY <1>3, <1>4 DEF InPlace
<1>9. \A k \in 1..(m + 1) : h[n + k] # 0 => h[n + k] \in e..(Len(s) + 1)
  <2> SUFFICES ASSUME NEW k \in 1..(m + 1), f[k] # 0 PROVE f[k] \in e..(Len(s) + 1)
    BY <1>3
  <2>1. CASE k = m + 1
    BY <1>1, <1>4, <2>1
  <2>2. CASE k # m + 1
    <3>1. k \in 1..m
      BY <1>1, <2>2
    <3> QED
      BY <1>4, <3>1 DEF InPlace
  <2> QED
    BY <2>1, <2>2
<1>10. ASSUME NEW k \in 1..Len(u) PROVE InPlace(s, i, Len(s), u[k], h[k])
  <2>1. CASE k <= n
    <3>1. k \in 1..n
      BY <1>1, <2>1
    <3>2. InPlace(s, i, e - 1, u[k], h[k])
      BY <1>2, <1>3, <1>4, <3>1
    <3>3. \A p \in i..(e - 1) : p \in i..Len(s)
      OBVIOUS
    <3> QED
      BY <3>2, <3>3 DEF InPlace
  <2>2. CASE ~(k <= n)
    <3>1. k - n \in 1..m /\ k - n \in 1..(m + 1) /\ n + (k - n) = k
      BY <1>1, <1>2, <2>2
    <3>2. InPlace(s, e, Len(s), u[k], h[k])
      BY <1>2, <1>3, <1>4, <3>1
    <3>3. \A p \in e..Len(s) : p \in i..Len(s)
      OBVIOUS
    <3> QED
      BY <3>2, <3>3 DEF InPlace
  <2> QED
    BY <2>1, <2>2
<1>11. ASSUME NEW k \in 1..(Len(u) + 1), NEW l \in 1..(Len(u) + 1), l = k + 1, h[k] # 0, h[l] # 0
       PROVE  h[l] = h[k] + 1
  <2>1. k \in Nat /\ l \in Nat
    BY <1>1, <1>2
  <2>2. CASE l <= n
    <3>1. k \in 1..n /\ l \in 1..n
      BY <1>1, <1>11, <2>1, <2>2
    <3> QED
      BY <1>3, <1>4, <1>11, <3>1 DEF Grows, Runs
  <2>3. CASE k = n
    <3>1. n \in 1..n /\ 1 \in 1..(m + 1)
      BY <1>1
    <3> QED
      BY <1>3, <1>4, <1>11, <2>3, <3>1
  <2>4. CASE k > n
    <3> DEFINE d == k - n
               j == l - n
    <3>1. d \in 1..(m + 1) /\ j \in 1..(m + 1) /\ j = d + 1 /\ n + d = k /\ n + j = l
      BY <1>1, <1>2, <1>11, <2>4
    <3> HIDE DEF d, j
    <3>2. h[k] = f[d] /\ h[l] = f[j]
      BY <1>3, <3>1
    <3> QED
      BY <1>4, <1>11, <3>1, <3>2 DEF Grows, Runs
  <2> QED
    BY <1>1, <1>11, <2>1, <2>2, <2>3, <2>4
<1>12. ASSUME NEW k \in 1..(Len(u) + 1), NEW l \in 1..(Len(u) + 1), k < l, h[k] # 0, h[l] # 0
       PROVE  h[k] < h[l]
  <2>1. k \in Nat /\ l \in Nat
    BY <1>1, <1>2
  <2>2. CASE l <= n
    <3>1. k \in 1..n /\ l \in 1..n
      BY <1>1, <1>12, <2>2
    <3> QED
      BY <1>3, <1>4, <1>12, <3>1 DEF Grows, Rises
  <2>3. CASE k <= n /\ l > n
    <3>1. k \in 1..n /\ l - n \in 1..(m + 1) /\ n + (l - n) = l
      BY <1>1, <1>2, <2>3
    <3>2. h[k] \in i..(e - 1) /\ h[l] \in e..(Len(s) + 1)
      BY <1>8, <1>9, <1>12, <3>1
    <3> QED
      BY <3>2
  <2>4. CASE k > n
    <3>1. /\ k - n \in 1..(m + 1) /\ l - n \in 1..(m + 1) /\ k - n < l - n
          /\ n + (k - n) = k /\ n + (l - n) = l
      BY <1>1, <1>2, <1>12, <2>4, SMTT(60)
    <3> QED
      BY <1>3, <1>4, <1>12, <3>1 DEF Grows, Rises
  <2> QED
    BY <1>1, <2>1, <2>2, <2>3, <2>4
<1>13. Grows(h, Len(u) + 1)
  BY <1>11, <1>12 DEF Grows, Runs, Rises
<1>14. h \in [1..(Len(u) + 1) -> Nat]
  <2>1. Len(u) + 1 = n + (m + 1)
    BY <1>1, <1>2
  <2> QED
    BY <1>5, <2>1
<1>15. Traces(u, h, s, i)
  BY <1>2, <1>6, <1>7, <1>10, <1>13, <1>14 DEF Traces
<1> QED
  BY <1>15 DEF u, h, n, m

\* What is in the whole is in the piece or behind it.
LEMMA InJoined ==
    ASSUME NEW c \in Seq(Sym), NEW g, NEW t \in Seq(Sym), NEW f, NEW p
    PROVE  In(Join(g, Len(c), f, Len(t) + 1), c \o t, p) <=> In(g, c, p) \/ In(f, t, p)
<1> DEFINE n == Len(c)
           m == Len(t)
           u == c \o t
           h == Join(g, n, f, m + 1)
<1>1. n \in Nat /\ m \in Nat /\ Len(u) = n + m
  BY Joined
<1>2. /\ \A k \in 1..n : h[k] = g[k]
      /\ \A k \in 1..(m + 1) : h[n + k] = f[k]
  <2>1. m + 1 \in Nat
    BY <1>1
  <2>2. Joins(h, g, n, f, m + 1)
    BY ONLY <1>1, <2>1, JoinIs
  <2> HIDE DEF h, n, m
  <2> QED
    BY <2>2 DEF Joins
<1> HIDE DEF n, m, u, h
<1>3. ASSUME NEW k \in 1..Len(u), h[k] = p PROVE In(g, c, p) \/ In(f, t, p)
  <2>1. k \in 1..n \/ (k - n \in 1..m /\ k - n \in 1..(m + 1) /\ n + (k - n) = k)
    BY <1>1
  <2> QED
    BY <1>2, <1>3, <2>1 DEF In, n, m
<1>4. ASSUME NEW k \in 1..n, g[k] = p PROVE In(h, u, p)
  <2>1. k \in 1..Len(u)
    BY <1>1
  <2> QED
    BY <1>2, <1>4, <2>1 DEF In
<1>5. ASSUME NEW k \in 1..m, f[k] = p PROVE In(h, u, p)
  <2>1. n + k \in 1..Len(u) /\ k \in 1..(m + 1)
    BY <1>1
  <2> QED
    BY <1>2, <1>5, <2>1 DEF In
<1> QED
  BY <1>3, <1>4, <1>5 DEF In, n, m, u, h

LEMMA CopyChunk ==
    ASSUME NEW s \in Seq(Sym), NEW i \in 1..Len(s)
    PROVE  Chunk(<<s[i]>>, [k \in 1..1 |-> i], s, i, i + 1)
<1>1. s[i] \in Sym /\ i \in Nat /\ i \in i..(i + 1 - 1) /\ i + 1 - 1 = i /\ 1..1 = {1}
  OBVIOUS
<1>2. <<s[i]>> \in Seq(Sym) /\ Len(<<s[i]>>) = 1 /\ <<s[i]>>[1] = s[i]
  BY <1>1
<1> QED
  BY <1>1, <1>2 DEF Chunk, InPlace, Grows, Runs, Rises

LEMMA MarkChunk ==
    ASSUME NEW s, NEW i, NEW e, NEW c \in Marks
    PROVE  Chunk(<<Symbol(c)>>, [k \in 1..1 |-> 0], s, i, e)
<1>1. Symbol(c) \in Sym /\ Symbol(c).char \in Marks /\ Symbol(c).at = 0 /\ 1..1 = {1}
  BY MarkTyped DEF Symbol
<1>2. <<Symbol(c)>> \in Seq(Sym) /\ Len(<<Symbol(c)>>) = 1 /\ <<Symbol(c)>>[1] = Symbol(c)
  BY <1>1
<1> QED
  BY <1>1, <1>2 DEF Chunk, InPlace, Grows, Runs, Rises

\* Nothing is in a piece or behind it but what was there.
LEMMA InBounds ==
    ASSUME NEW s \in Seq(Sym), NEW i, NEW e, NEW p, p # 0
    PROVE  /\ \A c, g : Chunk(c, g, s, i, e) /\ In(g, c, p) => p \in i..(e - 1)
           /\ \A t, f : Traces(t, f, s, i) /\ In(f, t, p) => p \in i..Len(s)
BY DEF Chunk, Traces, In, InPlace

\* t is what comes behind the first n symbols of u.
Behind(u, h, t, f, n) ==
    /\ Len(u) = n + Len(t)
    /\ \A k \in 1..Len(t) : u[n + k] = t[k]
    /\ \A k \in 1..(Len(t) + 1) : h[n + k] = f[k]

LEMMA OneBehind ==
    ASSUME NEW x \in Sym, NEW p, NEW t \in Seq(Sym), NEW f
    PROVE  /\ Behind(<<x>> \o t, Join([k \in 1..1 |-> p], Len(<<x>>), f, Len(t) + 1), t, f, 1)
           /\ (<<x>> \o t)[1] = x /\ Join([k \in 1..1 |-> p], Len(<<x>>), f, Len(t) + 1)[1] = p
<1> DEFINE c == <<x>>
           g == [k \in 1..1 |-> p]
           h == Join(g, Len(c), f, Len(t) + 1)
<1>1. c \in Seq(Sym) /\ Len(c) = 1 /\ c[1] = x /\ g[1] = p /\ 1 \in 1..1
  OBVIOUS
<1>2. Len(t) \in Nat /\ Len(t) + 1 \in Nat /\ 1 \in Nat
  OBVIOUS
<1>3. /\ Len(c \o t) = Len(c) + Len(t)
      /\ \A k \in 1..Len(c) : (c \o t)[k] = c[k]
      /\ \A k \in 1..Len(t) : (c \o t)[Len(c) + k] = t[k]
  BY ONLY <1>1, t \in Seq(Sym), Joined
<1>4. Joins(h, g, 1, f, Len(t) + 1)
  BY ONLY <1>1, <1>2, JoinIs
<1> HIDE DEF c, g, h
<1>5. /\ h[1] = g[1]
      /\ \A k \in 1..(Len(t) + 1) : h[1 + k] = f[k]
  BY <1>1, <1>4 DEF Joins
<1>6. Behind(c \o t, h, t, f, 1) /\ (c \o t)[1] = x /\ h[1] = p
  BY <1>1, <1>2, <1>3, <1>5 DEF Behind
<1> QED
  BY <1>6 DEF c, h, g

\* u, traced by h, is symbol i of s in front of t, traced by f.
CopiedOn(u, h, s, i, t, f) ==
    /\ Traces(u, h, s, i) /\ Behind(u, h, t, f, 1) /\ u[1] = s[i] /\ h[1] = i
    /\ \A p : In(h, u, p) <=> p = i \/ In(f, t, p)

LEMMA CopyTraces ==
    ASSUME NEW s \in Seq(Sym), NEW i \in 1..Len(s), NEW t, NEW f, Traces(t, f, s, i + 1)
    PROVE  \E h : CopiedOn(<<s[i]>> \o t, h, s, i, t, f)
<1> DEFINE c == <<s[i]>>
           g == [k \in 1..1 |-> i]
           u == c \o t
           h == Join(g, Len(c), f, Len(t) + 1)
<1>1. Chunk(c, g, s, i, i + 1) /\ t \in Seq(Sym) /\ c \in Seq(Sym) /\ s[i] \in Sym
  <2>1. Chunk(c, g, s, i, i + 1)
    BY ONLY s \in Seq(Sym), i \in 1..Len(s), CopyChunk
  <2>2. c \in Seq(Sym) /\ s[i] \in Sym
    OBVIOUS
  <2> HIDE DEF c, g
  <2> QED
    BY <2>1, <2>2 DEF Traces
<1>2. i + 1 \in (i + 1)..(Len(s) + 1)
  OBVIOUS
<1>3. Traces(u, h, s, i)
  BY ONLY <1>1, <1>2, s \in Seq(Sym), i \in 1..Len(s), Traces(t, f, s, i + 1), TraceJoin
<1>4. \A p : In(h, u, p) <=> In(g, c, p) \/ In(f, t, p)
  BY ONLY <1>1, InJoined
<1>5. \A p : In(g, c, p) <=> p = i
  <2>1. Len(c) = 1 /\ 1..1 = {1}
    OBVIOUS
  <2> QED
    BY ONLY <2>1 DEF In
<1>6. Behind(u, h, t, f, 1) /\ u[1] = s[i] /\ h[1] = i
  BY ONLY <1>1, OneBehind
<1> HIDE DEF c, g, u, h
<1>7. CopiedOn(u, h, s, i, t, f)
  BY <1>3, <1>4, <1>5, <1>6 DEF CopiedOn
<1> QED
  BY <1>7 DEF u, c

LEMMA MarkTraces ==
    ASSUME NEW s \in Seq(Sym), NEW i \in 1..Len(s), NEW e \in (i + 1)..(Len(s) + 1),
           NEW x \in Marks, NEW t, NEW f, Traces(t, f, s, e)
    PROVE  \E h : /\ Traces(<<Symbol(x)>> \o t, h, s, i) /\ Behind(<<Symbol(x)>> \o t, h, t, f, 1)
                  /\ (<<Symbol(x)>> \o t)[1] = Symbol(x) /\ h[1] = 0
                  /\ \A p : In(h, <<Symbol(x)>> \o t, p) <=> p = 0 \/ In(f, t, p)
<1> DEFINE c == <<Symbol(x)>>
           g == [k \in 1..1 |-> 0]
           u == c \o t
           h == Join(g, Len(c), f, Len(t) + 1)
<1>1. Chunk(c, g, s, i, e) /\ t \in Seq(Sym) /\ c \in Seq(Sym) /\ Symbol(x) \in Sym
  <2>1. Chunk(c, g, s, i, e)
    BY ONLY x \in Marks, MarkChunk
  <2> QED
    BY <2>1, MarkTyped DEF Chunk, Traces
<1>2. Traces(u, h, s, i)
  BY ONLY <1>1, s \in Seq(Sym), i \in 1..Len(s), e \in (i + 1)..(Len(s) + 1),
          Traces(t, f, s, e), TraceJoin
<1>3. \A p : In(h, u, p) <=> In(g, c, p) \/ In(f, t, p)
  BY ONLY <1>1, InJoined
<1>4. \A p : In(g, c, p) <=> p = 0
  <2>1. Len(c) = 1 /\ 1..1 = {1}
    OBVIOUS
  <2> QED
    BY ONLY <2>1 DEF In
<1>5. Behind(u, h, t, f, 1) /\ u[1] = Symbol(x) /\ h[1] = 0
  BY ONLY <1>1, OneBehind
<1> HIDE DEF c, g, u, h
<1>6. Traces(u, h, s, i) /\ Behind(u, h, t, f, 1) /\ u[1] = Symbol(x) /\ h[1] = 0
      /\ \A p : In(h, u, p) <=> p = 0 \/ In(f, t, p)
  BY <1>2, <1>3, <1>4, <1>5
<1> QED
  BY <1>6 DEF u, c

-----------------------------------------------------------------------------
\* What the pass for values takes away.

\* The symbol at m is gone, with a value that stood there.
Swallowed(t, f, s, i, m) ==
    \E v \in Values : \E j \in i..m :
        /\ StandsAt(v, s, j) /\ m \in j..(j + Len(v) - 1)
        /\ \A h \in j..(j + Len(v) - 1) : ~In(f, t, h)

OnlyValuesGo(t, f, s, i) == \A m \in i..Len(s) : ~In(f, t, m) => Swallowed(t, f, s, i, m)

LEMMA SwallowedBehind ==
    ASSUME NEW s \in Seq(Sym), NEW i \in 1..Len(s), NEW e \in (i + 1)..(Len(s) + 1),
           NEW t, NEW f, NEW u, NEW h, \A p : In(h, u, p) => p < e \/ In(f, t, p),
           NEW m \in e..Len(s), Swallowed(t, f, s, e, m)
    PROVE  Swallowed(u, h, s, i, m)
<1>1. PICK v \in Values : \E j \in e..m :
          /\ StandsAt(v, s, j) /\ m \in j..(j + Len(v) - 1)
          /\ \A x \in j..(j + Len(v) - 1) : ~In(f, t, x)
  BY DEF Swallowed
<1>2. PICK j \in e..m :
          /\ StandsAt(v, s, j) /\ m \in j..(j + Len(v) - 1)
          /\ \A x \in j..(j + Len(v) - 1) : ~In(f, t, x)
  BY <1>1
<1>3. ASSUME NEW x \in j..(j + Len(v) - 1) PROVE ~In(h, u, x)
  <2>1. ~(x < e)
    BY <1>2
  <2> QED
    BY <1>2, <2>1
<1>4. j \in i..m
  BY <1>2
<1> QED
  BY <1>2, <1>3, <1>4 DEF Swallowed

LEMMA ValueTraces ==
    ASSUME NEW s \in Seq(Sym)
    PROVE  \E f : Traces(RedactValues(s), f, s, 1) /\ OnlyValuesGo(RedactValues(s), f, s, 1)
<1> DEFINE n == Len(s)
           chunk == [i \in DOMAIN s |->
                        IF ValueAt(s, i) = <<>> THEN <<s[i]>> ELSE <<Symbol("<value>")>>]
           next == [i \in DOMAIN s |->
                        IF ValueAt(s, i) = <<>> THEN i + 1 ELSE i + Len(ValueAt(s, i))]
           Good(t, f, i) == Traces(t, f, s, i) /\ OnlyValuesGo(t, f, s, i)
           Q == [i \in 1..(n + 1) |-> {t \in Seq(Sym) : \E f : Good(t, f, i)}]
<1>1. n \in Nat /\ DOMAIN s = 1..n
  OBVIOUS
<1>2. \A i \in 1..(n + 1) : \A t : t \in Q[i] <=> \E f : Good(t, f, i)
  <2>1. \A t, f, i : Good(t, f, i) => t \in Seq(Sym)
    BY DEF Traces
  <2> HIDE DEF Good
  <2> QED
    BY <2>1
<1> HIDE DEF Q
<1>3. ASSUME NEW i \in 1..n
      PROVE  \/ chunk[i] = <<s[i]>> /\ next[i] = i + 1
             \/ \E v \in Values : /\ StandsAt(v, s, i) /\ chunk[i] = <<Symbol("<value>")>>
                                  /\ next[i] = i + Len(v) /\ next[i] \in (i + 1)..(n + 1)
  <2>1. CASE ValueAt(s, i) = <<>>
    BY <1>1, <2>1
  <2>2. CASE ValueAt(s, i) # <<>>
    <3>1. ValueAt(s, i) \in Values /\ StandsAt(ValueAt(s, i), s, i)
      BY <2>2, ValueAtIs
    <3>2. Len(ValueAt(s, i)) \in Nat /\ Len(ValueAt(s, i)) >= 1
      BY <3>1, ValuesArePlain DEF Plain
    <3>3. i + Len(ValueAt(s, i)) - 1 <= Len(s)
      BY <3>1 DEF StandsAt
    <3>4. chunk[i] = <<Symbol("<value>")>> /\ next[i] = i + Len(ValueAt(s, i))
      BY <1>1, <2>2
    <3>5. i + Len(ValueAt(s, i)) \in (i + 1)..(n + 1)
      BY <1>1, <3>2, <3>3
    <3> QED
      BY ONLY <3>1, <3>4, <3>5
  <2> QED
    BY <2>1, <2>2
<1> HIDE DEF chunk, next
<1>4. Scannable(s, chunk, next)
  <2>1. \A i \in 1..n : i + 1 \in (i + 1)..(n + 1)
    BY <1>1
  <2> QED
    BY <1>1, <1>3, <2>1 DEF Scannable
<1>5. <<>> \in Q[n + 1]
  <2>1. Traces(<<>>, [k \in 1..1 |-> n + 1], s, n + 1)
    BY ONLY s \in Seq(Sym), NothingTraces
  <2>2. n + 1 \in 1..(n + 1)
    BY <1>1
  <2>3. OnlyValuesGo(<<>>, [k \in 1..1 |-> n + 1], s, n + 1)
    BY <1>1 DEF OnlyValuesGo
  <2> QED
    BY <1>2, <2>2, <2>1, <2>3
<1>6. ASSUME NEW i \in 1..n, NEW t \in Q[next[i]] PROVE chunk[i] \o t \in Q[i]
  <2>1. i \in 1..(n + 1) /\ next[i] \in 1..(n + 1) /\ next[i] \in (i + 1)..(n + 1)
    BY <1>1, <1>4 DEF Scannable
  <2>2. PICK f : Traces(t, f, s, next[i]) /\ OnlyValuesGo(t, f, s, next[i])
    BY <1>2, <2>1
  <2> DEFINE u == chunk[i] \o t
  <2>3. CASE chunk[i] = <<s[i]>> /\ next[i] = i + 1
    <3>1. PICK h : CopiedOn(<<s[i]>> \o t, h, s, i, t, f)
      BY <1>1, <2>2, <2>3, CopyTraces
    <3>2. Traces(u, h, s, i) /\ \A p : In(h, u, p) <=> p = i \/ In(f, t, p)
      BY <2>3, <3>1 DEF CopiedOn
    <3> HIDE DEF u
    <3>3. ASSUME NEW m \in i..Len(s), ~In(h, u, m) PROVE Swallowed(u, h, s, i, m)
      <4>1. m # i /\ ~In(f, t, m)
        BY <3>2, <3>3
      <4>2. m \in (i + 1)..Len(s)
        BY <4>1
      <4>3. Swallowed(t, f, s, i + 1, m)
        BY <2>2, <2>3, <4>1, <4>2 DEF OnlyValuesGo
      <4>4. \A p : In(h, u, p) => p < i + 1 \/ In(f, t, p)
        BY <3>2
      <4>5. i + 1 \in (i + 1)..(Len(s) + 1)
        BY <1>1
      <4> QED
        BY ONLY <4>2, <4>3, <4>4, <4>5, s \in Seq(Sym), i \in 1..n, SwallowedBehind DEF n
    <3>4. Good(u, h, i)
      BY <3>2, <3>3 DEF OnlyValuesGo
    <3> QED
      BY <1>2, <2>1, <3>4 DEF u
  <2>4. ASSUME NEW v \in Values, StandsAt(v, s, i), chunk[i] = <<Symbol("<value>")>>,
               next[i] = i + Len(v)
        PROVE  u \in Q[i]
    <3>1. "<value>" \in Marks
      BY DEF Marks
    <3>2. PICK h : /\ Traces(<<Symbol("<value>")>> \o t, h, s, i)
                   /\ \A p : In(h, <<Symbol("<value>")>> \o t, p) <=> p = 0 \/ In(f, t, p)
      BY ONLY <2>1, <2>2, <3>1, s \in Seq(Sym), i \in 1..n, MarkTraces DEF n
    <3>3. Traces(u, h, s, i) /\ \A p : In(h, u, p) <=> p = 0 \/ In(f, t, p)
      BY <2>4, <3>2
    <3> HIDE DEF u
    <3>4. ASSUME NEW m \in i..Len(s), ~In(h, u, m) PROVE Swallowed(u, h, s, i, m)
      <4>1. ~In(f, t, m)
        BY <3>3, <3>4
      <4>2. CASE m < next[i]
        <5>1. Len(v) \in Nat
          BY ValuesArePlain DEF Plain
        <5>2. i \in i..m /\ m \in i..(i + Len(v) - 1)
          BY <2>4, <4>2, <5>1
        <5>3. ASSUME NEW x \in i..(i + Len(v) - 1) PROVE ~In(h, u, x)
          <6>1. x # 0 /\ x \notin next[i]..Len(s)
            BY <2>4, <5>1
          <6>2. ~In(f, t, x)
            BY <2>2, <6>1, InBounds
          <6> QED
            BY <3>3, <6>1, <6>2
        <5> QED
          BY <2>4, <5>2, <5>3 DEF Swallowed
      <4>3. CASE ~(m < next[i])
        <5>1. m \in next[i]..Len(s)
          BY <2>1, <4>3
        <5>2. Swallowed(t, f, s, next[i], m)
          BY <2>2, <4>1, <5>1 DEF OnlyValuesGo
        <5>3. \A p : In(h, u, p) => p < next[i] \/ In(f, t, p)
          BY <2>1, <3>3
        <5> QED
          BY ONLY <2>1, <5>1, <5>2, <5>3, s \in Seq(Sym), i \in 1..n, SwallowedBehind DEF n
      <4> QED
        BY <4>2, <4>3
    <3>5. Good(u, h, i)
      BY <3>3, <3>4 DEF OnlyValuesGo
    <3> QED
      BY <1>2, <2>1, <3>5
  <2> QED
    BY <1>3, <2>3, <2>4
<1>7. Carried(Q, s, chunk, next)
  BY <1>5, <1>6 DEF Carried
<1>8. RedactValues(s) \in Q[1]
  <2>1. RedactValues(s) = Rewritten(s, chunk, next)
    BY DEF RedactValues, chunk, next
  <2> QED
    BY <1>4, <1>7, <2>1, RewrittenIn
<1>9. 1 \in 1..(n + 1)
  BY <1>1
<1> QED
  BY <1>2, <1>8, <1>9

-----------------------------------------------------------------------------
\* What the pass for shapes takes away.

OnlyHexGoes(t, f, s, i) == \A m \in i..Len(s) : ~In(f, t, m) => s[m].char \in Hex

LEMMA ShapeTraces ==
    ASSUME NEW s \in Seq(Sym)
    PROVE  \E f : Traces(RedactShapes(s), f, s, 1) /\ OnlyHexGoes(RedactShapes(s), f, s, 1)
<1> DEFINE n == Len(s)
           chunk == ShapeChunks(s)
           next == ShapeNexts(s)
           Good(t, f, i) == Traces(t, f, s, i) /\ OnlyHexGoes(t, f, s, i)
           Q == [i \in 1..(n + 1) |-> {t \in Seq(Sym) : \E f : Good(t, f, i)}]
<1>1. n \in Nat
  OBVIOUS
<1>2. \A i \in 1..(n + 1) : \A t : t \in Q[i] <=> \E f : Good(t, f, i)
  <2>1. \A t, f, i : Good(t, f, i) => t \in Seq(Sym)
    BY DEF Traces
  <2> HIDE DEF Good
  <2> QED
    BY <2>1
<1> HIDE DEF Q
<1>3. /\ Scannable(s, chunk, next)
      /\ \A i \in 1..n : \/ chunk[i] = <<s[i]>> /\ next[i] = i + 1
                         \/ /\ chunk[i] = <<Symbol("<hex>")>>
                            /\ \A m \in i..(next[i] - 1) : s[m].char \in Hex
  <2>1. ASSUME NEW i \in 1..n
        PROVE  \/ chunk[i] = <<s[i]>> /\ next[i] = i + 1
               \/ /\ chunk[i] = <<Symbol("<hex>")>>
                  /\ \A m \in i..(next[i] - 1) : s[m].char \in Hex
    <3>1. CASE ShapeEnd(s, i) = 0
      BY <3>1, ShapeNextsFit
    <3>2. CASE ShapeEnd(s, i) # 0
      <4>1. chunk[i] = <<Symbol("<hex>")>> /\ next[i] = ShapeEnd(s, i) + 1
        BY <3>2, ShapeNextsFit
      <4>2. ShapeEnd(s, i) \in i..Len(s) /\ \A m \in i..ShapeEnd(s, i) : s[m].char \in Hex
        BY <3>2, ShapeEndIs
      <4>3. next[i] - 1 = ShapeEnd(s, i)
        BY <4>1, <4>2
      <4> QED
        BY <4>1, <4>2, <4>3
    <3> QED
      BY <3>1, <3>2
  <2>2. Scannable(s, chunk, next)
    BY ShapeNextsFit
  <2> QED
    BY ONLY <2>1, <2>2
<1> HIDE DEF chunk, next
<1>4. <<>> \in Q[n + 1]
  <2>1. Traces(<<>>, [k \in 1..1 |-> n + 1], s, n + 1)
    BY ONLY s \in Seq(Sym), NothingTraces
  <2>2. n + 1 \in 1..(n + 1)
    BY <1>1
  <2>3. OnlyHexGoes(<<>>, [k \in 1..1 |-> n + 1], s, n + 1)
    BY <1>1 DEF OnlyHexGoes
  <2> QED
    BY <1>2, <2>1, <2>2, <2>3
<1>5. ASSUME NEW i \in 1..n, NEW t \in Q[next[i]] PROVE chunk[i] \o t \in Q[i]
  <2>1. i \in 1..(n + 1) /\ next[i] \in 1..(n + 1) /\ next[i] \in (i + 1)..(n + 1)
    BY <1>1, <1>3 DEF Scannable
  <2>2. PICK f : Traces(t, f, s, next[i]) /\ OnlyHexGoes(t, f, s, next[i])
    BY <1>2, <2>1
  <2> DEFINE u == chunk[i] \o t
  <2>3. CASE chunk[i] = <<s[i]>> /\ next[i] = i + 1
    <3>1. PICK h : CopiedOn(<<s[i]>> \o t, h, s, i, t, f)
      BY <1>1, <2>2, <2>3, CopyTraces
    <3>2. Traces(u, h, s, i) /\ \A p : In(h, u, p) <=> p = i \/ In(f, t, p)
      BY <2>3, <3>1 DEF CopiedOn
    <3> HIDE DEF u
    <3>3. ASSUME NEW m \in i..Len(s), ~In(h, u, m) PROVE s[m].char \in Hex
      <4>1. m # i /\ ~In(f, t, m)
        BY <3>2, <3>3
      <4>2. m \in (i + 1)..Len(s)
        BY <4>1
      <4> QED
        BY <2>2, <2>3, <4>1, <4>2 DEF OnlyHexGoes
    <3>4. Good(u, h, i)
      BY <3>2, <3>3 DEF OnlyHexGoes
    <3> QED
      BY <1>2, <2>1, <3>4 DEF u
  <2>4. CASE /\ chunk[i] = <<Symbol("<hex>")>>
             /\ \A m \in i..(next[i] - 1) : s[m].char \in Hex
    <3>1. "<hex>" \in Marks
      BY DEF Marks
    <3>2. PICK h : /\ Traces(<<Symbol("<hex>")>> \o t, h, s, i)
                   /\ \A p : In(h, <<Symbol("<hex>")>> \o t, p) <=> p = 0 \/ In(f, t, p)
      BY ONLY <2>1, <2>2, <3>1, s \in Seq(Sym), i \in 1..n, MarkTraces DEF n
    <3>3. Traces(u, h, s, i) /\ \A p : In(h, u, p) <=> p = 0 \/ In(f, t, p)
      BY <2>4, <3>2
    <3> HIDE DEF u
    <3>4. ASSUME NEW m \in i..Len(s), ~In(h, u, m) PROVE s[m].char \in Hex
      <4>1. ~In(f, t, m)
        BY <3>3, <3>4
      <4>2. CASE m < next[i]
        <5>1. m \in i..(next[i] - 1)
          BY <2>1, <4>2
        <5> QED
          BY <2>4, <5>1
      <4>3. CASE ~(m < next[i])
        <5>1. m \in next[i]..Len(s)
          BY <2>1, <4>3
        <5> QED
          BY <2>2, <4>1, <5>1 DEF OnlyHexGoes
      <4> QED
        BY <4>2, <4>3
    <3>5. Good(u, h, i)
      BY <3>3, <3>4 DEF OnlyHexGoes
    <3> QED
      BY <1>2, <2>1, <3>5 DEF u
  <2> QED
    BY <1>3, <2>3, <2>4
<1>6. Carried(Q, s, chunk, next)
  BY <1>4, <1>5 DEF Carried
<1>7. RedactShapes(s) \in Q[1]
  <2>1. RedactShapes(s) = Rewritten(s, chunk, next)
    BY DEF RedactShapes, chunk, next, ShapeChunks, ShapeNexts
  <2> QED
    BY <1>3, <1>6, <2>1, RewrittenIn
<1>8. 1 \in 1..(n + 1)
  BY <1>1
<1> QED
  BY <1>2, <1>7, <1>8

-----------------------------------------------------------------------------
\* What the pass for userinfo takes away.

\* What becomes of the run e - i long whose "://" is at i: from b on it is kept.
UrlPiece(c, g, s, i, b, e) ==
    /\ c[1] = s[i] /\ g[1] = i
    /\ b \in (i + 1)..e /\ \A q \in (b + 1)..(e - 1) : s[q].char # "@"
    /\ \A m \in (i + 1)..(e - 1) : In(g, c, m) => m >= b
    /\ \A m \in b..(e - 1) : In(g, c, m)
    /\ \/ \A k \in 1..Len(c) : g[k] = i + k - 1
       \/ Len(c) >= 2 /\ g[2] = 0

LEMMA WholeUrl ==
    ASSUME NEW s \in Seq(Sym), NEW i \in 1..Len(s), NEW e \in (i + 1)..(Len(s) + 1),
           \A q \in (i + 1)..(e - 1) : s[q].char # "@"
    PROVE  \E g : /\ Chunk(SubSeq(s, i, e - 1), g, s, i, e)
                  /\ UrlPiece(SubSeq(s, i, e - 1), g, s, i, i + 1, e)
<1> DEFINE c == SubSeq(s, i, e - 1)
           g == [k \in 1..(e - i) |-> i + k - 1]
<1>1. i \in Int /\ e - 1 \in Int /\ e \in Int /\ \A k \in i..(e - 1) : s[k] \in Sym
  OBVIOUS
<1>2. /\ c \in Seq(Sym)
      /\ Len(c) = IF i <= e - 1 THEN e - 1 - i + 1 ELSE 0
      /\ \A k \in 1..(e - 1 - i + 1) : c[k] = s[i + k - 1]
  BY ONLY <1>1, SubSeqProperties
<1>3. Len(c) = e - i /\ Len(c) >= 1 /\ \A k \in 1..(e - i) : c[k] = s[i + k - 1]
  <2> HIDE DEF c
  <2>1. i <= e - 1 /\ e - 1 - i + 1 = e - i /\ e - i >= 1
    BY <1>1
  <2> QED
    BY <1>2, <2>1
<1>4. \A k \in 1..(e - i) : g[k] = i + k - 1 /\ g[k] \in i..(e - 1) /\ g[k] # 0
  BY <1>1
<1>5. g \in [1..Len(c) -> Nat]
  <2>1. \A k \in 1..(e - i) : i + k - 1 \in Nat
    BY <1>1
  <2> QED
    BY <1>3, <2>1
<1> HIDE DEF c, g
<1>6. 1 \in 1..(e - i) /\ e - i \in 1..(e - i) /\ i + 1 - 1 = i /\ i + (e - i) - 1 = e - 1
  BY <1>1
<1>7. Grows(g, Len(c))
  BY <1>1, <1>3, <1>4 DEF Grows, Runs, Rises
<1>8. Chunk(c, g, s, i, e)
  BY <1>2, <1>3, <1>4, <1>5, <1>6, <1>7 DEF Chunk, InPlace
<1>9. ASSUME NEW m \in (i + 1)..(e - 1) PROVE In(g, c, m)
  <2>1. m - i + 1 \in 1..(e - i) /\ i + (m - i + 1) - 1 = m
    BY <1>1
  <2> QED
    BY <1>3, <1>4, <2>1 DEF In
<1>10. UrlPiece(c, g, s, i, i + 1, e)
  BY <1>1, <1>3, <1>4, <1>6, <1>9 DEF UrlPiece
<1> QED
  BY <1>8, <1>10 DEF c

LEMMA ShortUrl ==
    ASSUME NEW s \in Seq(Sym), NEW i \in 1..Len(s), NEW e \in (i + 1)..(Len(s) + 1),
           NEW b \in (i + 1)..e, \A q \in (b + 1)..(e - 1) : s[q].char # "@",
           NEW c \in Seq(Sym), Len(c) = 2 + (e - b), c[1] = s[i], c[2].char \in Marks,
           c[2].at = 0, \A k \in 1..(e - b) : c[2 + k] = s[b + k - 1]
    PROVE  \E g : Chunk(c, g, s, i, e) /\ UrlPiece(c, g, s, i, b, e)
<1> DEFINE n == 2 + (e - b)
           g == [k \in 1..n |-> IF k = 1 THEN i ELSE IF k = 2 THEN 0 ELSE b + k - 3]
<1>1. e \in Nat /\ b \in Nat /\ i \in Nat /\ i >= 1 /\ b > i /\ b <= e /\ n \in Nat /\ n >= 2
  OBVIOUS
<1>2. /\ g[1] = i /\ g[2] = 0
      /\ \A k \in 3..n : g[k] = b + k - 3 /\ g[k] # 0 /\ g[k] \in b..(e - 1)
  <2>1. \A k \in 3..n : k \in 1..n /\ k # 1 /\ k # 2 /\ b + k - 3 # 0 /\ b + k - 3 \in b..(e - 1)
    BY <1>1
  <2>2. 1 \in 1..n /\ 2 \in 1..n
    BY <1>1
  <2> HIDE DEF n
  <2> QED
    BY <2>1, <2>2
<1>3. g \in [1..Len(c) -> Nat]
  <2>1. \A k \in 1..n : k # 1 /\ k # 2 => b + k - 3 \in Nat
    BY <1>1
  <2> HIDE DEF n
  <2> QED
    BY <1>1, <2>1 DEF n
<1> HIDE DEF g
<1>4. ASSUME NEW k \in 1..n PROVE k = 1 \/ k = 2 \/ k \in 3..n
  BY <1>1
<1>5. \A k \in 3..n : c[k] = s[b + k - 3]
  <2> SUFFICES ASSUME NEW k \in 3..n PROVE c[k] = s[b + k - 3]
    OBVIOUS
  <2>1. k - 2 \in 1..(e - b) /\ 2 + (k - 2) = k /\ b + (k - 2) - 1 = b + k - 3
    BY <1>1
  <2>2. c[2 + (k - 2)] = s[b + (k - 2) - 1]
    BY <2>1
  <2> QED
    BY <2>1, <2>2
<1>6. ASSUME NEW k \in 1..n PROVE InPlace(s, i, e - 1, c[k], g[k])
  <2>1. CASE k = 1
    BY <1>1, <1>2, <2>1 DEF InPlace
  <2>2. CASE k = 2
    BY <1>2, <2>2 DEF InPlace
  <2>3. CASE k \in 3..n
    <3>1. g[k] \in i..(e - 1) /\ g[k] # 0 /\ c[k] = s[g[k]]
      BY <1>1, <1>2, <1>5, <2>3
    <3> QED
      BY <3>1 DEF InPlace
  <2> QED
    BY <1>4, <2>1, <2>2, <2>3
<1>7. Runs(g, n)
  <2> SUFFICES ASSUME NEW k \in 1..n, NEW l \in 1..n, l = k + 1, g[k] # 0, g[l] # 0
               PROVE  g[l] = g[k] + 1
    BY DEF Runs
  <2>1. k # 1 /\ k # 2 /\ l # 1 /\ l # 2
    BY <1>2
  <2> QED
    BY <1>1, <1>2, <1>4, <2>1
<1>8. Rises(g, n)
  <2> SUFFICES ASSUME NEW k \in 1..n, NEW l \in 1..n, k < l, g[k] # 0, g[l] # 0
               PROVE  g[k] < g[l]
    BY DEF Rises
  <2>1. k \in Nat /\ l \in Nat /\ l # 1
    BY <1>1
  <2>2. l \in 3..n
    BY <1>2, <1>4, <2>1
  <2>3. g[l] = b + l - 3
    BY <1>2, <2>2
  <2>4. CASE k = 1
    <3>1. g[k] = i /\ l >= 3
      BY <1>2, <2>2, <2>4
    <3> QED
      BY <1>1, <2>1, <2>3, <3>1
  <2>5. CASE k \in 3..n
    <3>1. g[k] = b + k - 3
      BY <1>2, <2>5
    <3> QED
      BY <1>1, <2>1, <2>3, <3>1
  <2> QED
    BY <1>2, <1>4, <2>4, <2>5
<1>9. g[n] \in {0, e - 1}
  <2>1. CASE n = 2
    BY <1>2, <2>1
  <2>2. CASE n # 2
    <3>1. n \in 3..n /\ b + n - 3 = e - 1
      BY <1>1, <2>2
    <3> QED
      BY <1>2, <3>1
  <2> QED
    BY <2>1, <2>2
<1>10. Chunk(c, g, s, i, e)
  BY <1>1, <1>2, <1>3, <1>6, <1>7, <1>8, <1>9 DEF Chunk, Grows
<1>11. ASSUME NEW m \in (i + 1)..(e - 1), In(g, c, m) PROVE m >= b
  <2>1. Len(c) = n
    OBVIOUS
  <2> HIDE DEF n
  <2>2. PICK k \in 1..n : g[k] = m
    BY <1>11, <2>1 DEF In
  <2>3. k \in 3..n
    BY <1>1, <1>2, <1>4, <1>11, <2>2
  <2> QED
    BY <1>1, <1>2, <2>2, <2>3, SMTT(60)
<1>12. ASSUME NEW m \in b..(e - 1) PROVE In(g, c, m)
  <2>1. m - b + 3 \in 3..n /\ m - b + 3 \in 1..n /\ b + (m - b + 3) - 3 = m
    BY <1>1
  <2> QED
    BY <1>2, <2>1 DEF In
<1>13. UrlPiece(c, g, s, i, b, e)
  BY <1>1, <1>2, <1>11, <1>12 DEF UrlPiece
<1> QED
  BY <1>10, <1>13

LEMMA UrlAtIs ==
    ASSUME NEW s \in Seq(Sym), NEW i \in 1..Len(s)
    PROVE  \E g, b : /\ Chunk(UrlAt(s, i), g, s, i, RunEnd(s, i + 1))
                     /\ UrlPiece(UrlAt(s, i), g, s, i, b, RunEnd(s, i + 1))
<1> DEFINE e == RunEnd(s, i + 1)
           a == UserinfoEnd(s, i + 1)
<1>1. i + 1 \in 1..(Len(s) + 1) /\ Len(s) \in Nat /\ i \in Nat
  OBVIOUS
<1>2. e \in (i + 1)..(Len(s) + 1)
  BY <1>1, RunEndIs
<1>3. IF a = 0 THEN \A k \in (i + 1)..(e - 1) : s[k].char # "@"
      ELSE /\ a \in (i + 1)..(e - 1)
           /\ \A k \in (i + 1)..(e - 1) : s[k].char = "@" => k <= a
  BY <1>1, UserinfoEndIs
<1>4. s[i] \in Sym /\ Symbol("<redacted>") \in Sym /\ Symbol("***") \in Sym
      /\ Symbol("<redacted>").char \in Marks /\ Symbol("***").char \in Marks
      /\ Symbol("<redacted>").at = 0 /\ Symbol("***").at = 0
  <2>1. "<redacted>" \in Marks /\ "***" \in Marks
    BY DEF Marks
  <2>2. Symbol("<redacted>") \in Sym /\ Symbol("***") \in Sym /\ s[i] \in Sym
    BY <2>1, MarkTyped
  <2> QED
    BY <2>1, <2>2 DEF Symbol
<1>5. CASE a = 0
  <2>1. UrlAt(s, i) = SubSeq(s, i, e - 1)
    BY <1>5 DEF UrlAt
  <2> HIDE DEF e, a
  <2>2. \E g : Chunk(SubSeq(s, i, e - 1), g, s, i, e) /\ UrlPiece(SubSeq(s, i, e - 1), g, s, i, i + 1, e)
    BY <1>2, <1>3, <1>5, WholeUrl
  <2> QED
    BY <2>1, <2>2 DEF e
<1>6. CASE a # 0 /\ \E k \in (i + 1)..(a - 1) : s[k].char \in EndsAuthority
  <2>1. UrlAt(s, i) = <<s[i], Symbol("<redacted>")>>
    BY <1>6 DEF UrlAt
  <2>2. UrlAt(s, i) \in Seq(Sym) /\ Len(UrlAt(s, i)) = 2 /\ UrlAt(s, i)[1] = s[i]
        /\ UrlAt(s, i)[2] = Symbol("<redacted>")
    BY <1>4, <2>1
  <2> HIDE DEF e, a
  <2>3. e \in (i + 1)..e /\ e - e = 0 /\ 2 = 2 + (e - e)
    BY <1>1, <1>2
  <2> DEFINE c == UrlAt(s, i)
  <2>4. c \in Seq(Sym) /\ Len(c) = 2 + (e - e) /\ c[1] = s[i] /\ c[2].char \in Marks /\ c[2].at = 0
    BY <1>4, <2>2, <2>3
  <2>5. (\A q \in (e + 1)..(e - 1) : s[q].char # "@") /\ \A k \in 1..(e - e) : c[2 + k] = s[e + k - 1]
    BY <1>1, <1>2, <2>3
  <2> HIDE DEF c
  <2>6. \E g : Chunk(c, g, s, i, e) /\ UrlPiece(c, g, s, i, e, e)
    BY ONLY <1>2, <2>3, <2>4, <2>5, s \in Seq(Sym), i \in 1..Len(s), ShortUrl
  <2> QED
    BY <2>6 DEF e, c
<1>7. CASE a # 0 /\ ~\E k \in (i + 1)..(a - 1) : s[k].char \in EndsAuthority
  <2> DEFINE q == SubSeq(s, a, e - 1)
             d == <<s[i], Symbol("***")>>
             c == UrlAt(s, i)
  <2>1. c = d \o q
    BY <1>7 DEF UrlAt
  <2>2. a \in (i + 1)..(e - 1) /\ \A k \in (i + 1)..(e - 1) : s[k].char = "@" => k <= a
    BY <1>3, <1>7
  <2> HIDE DEF a, e, c
  <2>3. a \in Int /\ e - 1 \in Int /\ (\A k \in a..(e - 1) : s[k] \in Sym) /\ a <= e - 1
        /\ e - 1 - a + 1 = e - a /\ a \in (i + 1)..e /\ e - a \in Nat
    BY <1>1, <1>2, <2>2
  <2>4. q \in Seq(Sym) /\ Len(q) = e - a /\ \A k \in 1..(e - a) : q[k] = s[a + k - 1]
    BY ONLY <2>3, SubSeqProperties
  <2>5. d \in Seq(Sym) /\ Len(d) = 2 /\ d[1] = s[i] /\ d[2] = Symbol("***") /\ 1 \in 1..2 /\ 2 \in 1..2
    BY <1>4
  <2> HIDE DEF q, d
  <2>6. /\ c \in Seq(Sym) /\ Len(c) = Len(d) + Len(q)
        /\ \A k \in 1..Len(d) : c[k] = d[k]
        /\ \A k \in 1..Len(q) : c[Len(d) + k] = q[k]
    BY ONLY <2>1, <2>4, <2>5, Joined, SMTT(60)
  <2>7. c \in Seq(Sym) /\ Len(c) = 2 + (e - a) /\ c[1] = s[i] /\ c[2].char \in Marks /\ c[2].at = 0
    BY <1>4, <2>4, <2>5, <2>6
  <2>8. \A k \in 1..(e - a) : c[2 + k] = s[a + k - 1]
    BY <2>4, <2>5, <2>6
  <2>9. \A k \in (a + 1)..(e - 1) : s[k].char # "@"
    BY <1>1, <1>2, <2>2, <2>3
  <2>10. \E g : Chunk(c, g, s, i, e) /\ UrlPiece(c, g, s, i, a, e)
    BY ONLY <1>2, <2>3, <2>7, <2>8, <2>9, s \in Seq(Sym), i \in 1..Len(s), ShortUrl
  <2> QED
    BY <2>10 DEF e, c
<1> QED
  BY <1>5, <1>6, <1>7

\* No white space from a to b.
Unwhite(s, a, b) == \A x \in a..b : s[x].char # White

\* What is gone stood behind a "://", with all there was in between.
OnlyUrlsGo(t, f, s, i) ==
    \A m \in i..Len(s) : ~In(f, t, m) =>
        \E p \in i..(m - 1) : s[p].char = Sep /\ \A x \in (p + 1)..m : ~In(f, t, x)

\* What stands between a "://" and an @ is gone.
BracketsGo(t, f, s, i) ==
    \A p, m, q \in i..Len(s) :
        (p < m /\ m < q /\ s[p].char = Sep /\ s[q].char = "@" /\ Unwhite(s, p, q))
            => ~In(f, t, m)

\* Left of k there is a "://": that at p, or one with a placeholder behind.
LeftEnd(t, f, k, p) ==
    \E l \in 1..(k - 1) : t[l].char = Sep /\ Unwhite(t, l, k - 1) /\ (f[l] = p \/ f[l + 1] = 0)

\* What is still there and stood behind a "://" stands behind a "://".
SepsStay(t, f, s, i) ==
    \A k \in 1..(Len(t) + 1) : \A p \in i..(f[k] - 1) :
        s[p].char = Sep /\ Unwhite(s, p, f[k] - 1) => LeftEnd(t, f, k, p)

UrlFacts(t, f, s, i) ==
    Traces(t, f, s, i) /\ OnlyUrlsGo(t, f, s, i) /\ BracketsGo(t, f, s, i) /\ SepsStay(t, f, s, i)

LEMMA LeftEndBehind ==
    ASSUME NEW n \in Nat, NEW u, NEW h, NEW t \in Seq(Sym), NEW f, Behind(u, h, t, f, n),
           NEW k \in 1..(Len(t) + 1), NEW p, LeftEnd(t, f, k, p)
    PROVE  LeftEnd(u, h, n + k, p)
<1>1. PICK l \in 1..(k - 1) :
          t[l].char = Sep /\ Unwhite(t, l, k - 1) /\ (f[l] = p \/ f[l + 1] = 0)
  BY DEF LeftEnd
<1>2. Len(t) \in Nat /\ k \in Nat /\ l \in Nat /\ k >= 1 /\ l >= 1 /\ l <= k - 1 /\ k <= Len(t) + 1
  OBVIOUS
<1>3. /\ n + l \in 1..(n + k - 1) /\ l \in 1..Len(t) /\ l \in 1..(Len(t) + 1)
      /\ l + 1 \in 1..(Len(t) + 1) /\ n + (l + 1) = n + l + 1
  BY <1>2
<1>4. u[n + l] = t[l] /\ h[n + l] = f[l] /\ h[n + l + 1] = f[l + 1]
  BY <1>3 DEF Behind
<1>5. ASSUME NEW x \in (n + l)..(n + k - 1) PROVE u[x].char # White
  <2>1. x - n \in l..(k - 1) /\ x - n \in 1..Len(t) /\ n + (x - n) = x
    BY <1>2
  <2>2. u[x] = t[x - n]
    BY <2>1 DEF Behind
  <2> QED
    BY <1>1, <2>1, <2>2 DEF Unwhite
<1>6. Unwhite(u, n + l, n + k - 1)
  BY <1>5 DEF Unwhite
<1>7. u[n + l].char = Sep /\ (h[n + l] = p \/ h[n + l + 1] = 0)
  BY <1>1, <1>4
<1> QED
  BY <1>3, <1>6, <1>7 DEF LeftEnd

LEMMA CopyUrlFacts ==
    ASSUME NEW s \in Seq(Sym), NEW i \in 1..Len(s), s[i].char # Sep,
           NEW t, NEW f, UrlFacts(t, f, s, i + 1)
    PROVE  \E h : UrlFacts(<<s[i]>> \o t, h, s, i)
<1>1. Traces(t, f, s, i + 1) /\ i \in Nat /\ i >= 1 /\ Len(s) \in Nat /\ i <= Len(s)
  BY DEF UrlFacts
<1>2. t \in Seq(Sym) /\ Len(t) \in Nat /\ f \in [1..(Len(t) + 1) -> Nat]
  BY <1>1 DEF Traces
<1> DEFINE u == <<s[i]>> \o t
<1>3. PICK h : /\ Traces(u, h, s, i) /\ Behind(u, h, t, f, 1) /\ u[1] = s[i] /\ h[1] = i
               /\ \A p : In(h, u, p) <=> p = i \/ In(f, t, p)
  <2>1. \E h : CopiedOn(u, h, s, i, t, f)
    BY ONLY <1>1, s \in Seq(Sym), i \in 1..Len(s), CopyTraces
  <2> QED
    BY ONLY <2>1 DEF CopiedOn
<1> HIDE DEF u
<1>4. Len(u) = 1 + Len(t) /\ \A k \in 1..(Len(t) + 1) : h[1 + k] = f[k]
  BY <1>3 DEF Behind
<1>5. ASSUME NEW m \in i..Len(s), ~In(h, u, m)
      PROVE  \E p \in i..(m - 1) : s[p].char = Sep /\ \A x \in (p + 1)..m : ~In(h, u, x)
  <2>1. m # i /\ ~In(f, t, m) /\ m \in (i + 1)..Len(s)
    BY <1>1, <1>3, <1>5
  <2>2. PICK p \in (i + 1)..(m - 1) : s[p].char = Sep /\ \A x \in (p + 1)..m : ~In(f, t, x)
    BY <2>1 DEF UrlFacts, OnlyUrlsGo
  <2>3. p \in i..(m - 1) /\ \A x \in (p + 1)..m : x # i
    BY <1>1
  <2> QED
    BY <1>3, <2>2, <2>3
<1>6. ASSUME NEW p \in i..Len(s), NEW m \in i..Len(s), NEW q \in i..Len(s),
             p < m, m < q, s[p].char = Sep, s[q].char = "@", Unwhite(s, p, q)
      PROVE  ~In(h, u, m)
  <2>1. p # i
    BY <1>6
  <2>2. p \in (i + 1)..Len(s) /\ m \in (i + 1)..Len(s) /\ q \in (i + 1)..Len(s) /\ m # i
    BY <1>1, <1>6, <2>1
  <2>3. ~In(f, t, m)
    BY <1>6, <2>2 DEF UrlFacts, BracketsGo
  <2> QED
    BY <1>3, <2>2, <2>3
<1>7. ASSUME NEW k \in 1..(Len(u) + 1), NEW p \in i..(h[k] - 1), s[p].char = Sep,
             Unwhite(s, p, h[k] - 1)
      PROVE  LeftEnd(u, h, k, p)
  <2>1. k # 1
    BY <1>1, <1>3, <1>7
  <2>2. k - 1 \in 1..(Len(t) + 1) /\ 1 + (k - 1) = k
    BY <1>2, <1>4, <2>1
  <2> DEFINE j == k - 1
  <2> HIDE DEF j
  <2>3. j \in 1..(Len(t) + 1) /\ 1 + j = k /\ h[k] = f[j]
    BY <1>4, <2>2 DEF j
  <2>4. p # i /\ f[j] \in Nat
    BY <1>2, <1>7, <2>3
  <2>5. p \in (i + 1)..(f[j] - 1)
    BY <1>1, <2>3, <2>4
  <2>6. LeftEnd(t, f, j, p)
    BY <1>7, <2>3, <2>5 DEF UrlFacts, SepsStay
  <2>7. LeftEnd(u, h, 1 + j, p)
    BY ONLY <1>2, <1>3, <2>3, <2>6, 1 \in Nat, LeftEndBehind
  <2> QED
    BY <2>3, <2>7
<1>8. UrlFacts(u, h, s, i)
  BY <1>3, <1>5, <1>6, <1>7 DEF UrlFacts, OnlyUrlsGo, BracketsGo, SepsStay
<1> QED
  BY <1>8 DEF u

LEMMA PieceTraces ==
    ASSUME NEW s \in Seq(Sym), NEW i \in 1..Len(s), NEW e \in (i + 1)..(Len(s) + 1),
           NEW c, NEW g, Chunk(c, g, s, i, e), NEW t, NEW f, Traces(t, f, s, e)
    PROVE  \E h : /\ Traces(c \o t, h, s, i) /\ Behind(c \o t, h, t, f, Len(c))
                  /\ \A k \in 1..Len(c) : (c \o t)[k] = c[k] /\ h[k] = g[k]
                  /\ \A p : In(h, c \o t, p) <=> In(g, c, p) \/ In(f, t, p)
<1> DEFINE u == c \o t
           h == Join(g, Len(c), f, Len(t) + 1)
<1>1. c \in Seq(Sym) /\ t \in Seq(Sym)
  BY DEF Chunk, Traces
<1>2. Len(c) \in Nat /\ Len(t) + 1 \in Nat
  BY <1>1
<1>3. Traces(u, h, s, i)
  BY TraceJoin
<1>4. \A p : In(h, u, p) <=> In(g, c, p) \/ In(f, t, p)
  BY ONLY <1>1, InJoined
<1>5. /\ Len(u) = Len(c) + Len(t)
      /\ \A k \in 1..Len(c) : u[k] = c[k]
      /\ \A k \in 1..Len(t) : u[Len(c) + k] = t[k]
  BY ONLY <1>1, Joined
<1>6. Joins(h, g, Len(c), f, Len(t) + 1)
  BY ONLY <1>2, JoinIs
<1> HIDE DEF u, h
<1>7. Behind(u, h, t, f, Len(c)) /\ \A k \in 1..Len(c) : u[k] = c[k] /\ h[k] = g[k]
  BY <1>5, <1>6 DEF Behind, Joins
<1> QED
  BY <1>3, <1>4, <1>7 DEF u

LEMMA PieceUrlFacts ==
    ASSUME NEW s \in Seq(Sym), NEW i \in 1..Len(s), NEW e \in (i + 1)..(Len(s) + 1),
           s[i].char = Sep, Unwhite(s, i + 1, e - 1), e = Len(s) + 1 \/ s[e].char = White,
           NEW c, NEW g, NEW b, Chunk(c, g, s, i, e), UrlPiece(c, g, s, i, b, e),
           NEW t, NEW f, UrlFacts(t, f, s, e)
    PROVE  \E h : UrlFacts(c \o t, h, s, i)
<1> DEFINE n == Len(c)
           u == c \o t
<1>1. Traces(t, f, s, e) /\ c \in Seq(Sym) /\ n \in Nat /\ n >= 1
  BY DEF UrlFacts, Chunk
<1>2. /\ t \in Seq(Sym) /\ Len(t) \in Nat /\ f \in [1..(Len(t) + 1) -> Nat]
      /\ g \in [1..n -> Nat]
      /\ i \in Nat /\ i >= 1 /\ e \in Nat /\ e > i /\ Len(s) \in Nat /\ e <= Len(s) + 1
  BY <1>1 DEF Traces, Chunk
<1>3. PICK h : /\ Traces(u, h, s, i) /\ Behind(u, h, t, f, n)
               /\ \A k \in 1..n : u[k] = c[k] /\ h[k] = g[k]
               /\ \A p : In(h, u, p) <=> In(g, c, p) \/ In(f, t, p)
  BY <1>1, PieceTraces
<1>4. Len(u) = n + Len(t) /\ \A k \in 1..(Len(t) + 1) : h[n + k] = f[k]
  BY <1>3 DEF Behind
<1>5. /\ \A p : p # 0 /\ In(g, c, p) => p \in i..(e - 1)
      /\ \A p : p # 0 /\ In(f, t, p) => p \in e..Len(s)
  BY <1>1, InBounds
<1>6. /\ c[1] = s[i] /\ g[1] = i /\ 1 \in 1..n
      /\ b \in (i + 1)..e /\ \A q \in (b + 1)..(e - 1) : s[q].char # "@"
      /\ \A m \in (i + 1)..(e - 1) : In(g, c, m) => m >= b
      /\ \A m \in b..(e - 1) : In(g, c, m)
  BY <1>1 DEF UrlPiece
<1>7. White \notin Marks /\ White # Sep
  BY DEF White, Marks, Sep
<1>8. \A k \in 1..n : /\ g[k] = 0 => c[k].char \in Marks
                      /\ g[k] # 0 => g[k] \in i..(e - 1) /\ c[k] = s[g[k]]
  BY DEF Chunk, InPlace
<1>9. \A x \in i..(e - 1) : s[x].char # White
  <2>1. \A x \in i..(e - 1) : x = i \/ x \in (i + 1)..(e - 1)
    BY <1>2
  <2> QED
    BY <1>7, <2>1 DEF Unwhite
<1>10. \A k \in 1..n : u[k].char # White
  BY <1>3, <1>7, <1>8, <1>9
<1>11. i # 0 /\ In(h, u, i)
  <2>1. In(g, c, i)
    BY <1>6 DEF In, n
  <2> QED
    BY <1>2, <1>3, <2>1
<1> HIDE DEF n, u
<1>12. ASSUME NEW m \in i..Len(s), ~In(h, u, m)
       PROVE  \E p \in i..(m - 1) : s[p].char = Sep /\ \A x \in (p + 1)..m : ~In(h, u, x)
  <2>1. ~In(g, c, m) /\ ~In(f, t, m) /\ m # i
    BY <1>3, <1>11, <1>12
  <2>2. CASE m < e
    <3>1. m \in (i + 1)..(e - 1)
      BY <1>2, <2>1, <2>2
    <3>2. m < b
      <4>1. ~(m \in b..(e - 1))
        BY <1>6, <2>1
      <4> QED
        BY <1>2, <1>6, <3>1, <4>1
    <3>3. ASSUME NEW x \in (i + 1)..m PROVE ~In(h, u, x)
      <4>1. x \in (i + 1)..(e - 1) /\ ~(x >= b) /\ x # 0 /\ x \notin e..Len(s)
        BY <1>2, <1>6, <3>1, <3>2
      <4> QED
        BY <1>3, <1>5, <1>6, <4>1
    <3>4. i \in i..(m - 1)
      BY <1>2, <3>1
    <3> QED
      BY <3>3, <3>4
  <2>3. CASE ~(m < e)
    <3>1. m \in e..Len(s)
      BY <1>2, <2>3
    <3>2. PICK p \in e..(m - 1) : s[p].char = Sep /\ \A x \in (p + 1)..m : ~In(f, t, x)
      BY <2>1, <3>1 DEF UrlFacts, OnlyUrlsGo
    <3>3. p \in i..(m - 1) /\ \A x \in (p + 1)..m : x # 0 /\ x \notin i..(e - 1)
      BY <1>2, <3>1, <3>2
    <3> QED
      BY <1>3, <1>5, <3>2, <3>3
  <2> QED
    BY <2>2, <2>3
<1>13. ASSUME NEW p \in i..Len(s), NEW m \in i..Len(s), NEW q \in i..Len(s),
              p < m, m < q, s[p].char = Sep, s[q].char = "@", Unwhite(s, p, q)
       PROVE  ~In(h, u, m)
  <2>1. CASE p < e
    <3>1. q < e
      <4> SUFFICES ASSUME q >= e PROVE FALSE
        BY <1>2
      <4>1. e \in p..q /\ e # Len(s) + 1
        BY <1>2, <2>1
      <4> QED
        BY <1>13, <4>1 DEF Unwhite
    <3>2. m \in (i + 1)..(e - 1) /\ q \in (i + 1)..(e - 1) /\ m # 0 /\ m \notin e..Len(s)
      BY <1>2, <1>13, <3>1
    <3>3. ~(m >= b)
      <4> SUFFICES ASSUME m >= b PROVE FALSE
        OBVIOUS
      <4>1. q \in (b + 1)..(e - 1)
        BY <1>2, <1>6, <1>13, <3>2
      <4> QED
        BY <1>6, <1>13, <4>1
    <3> QED
      BY <1>3, <1>5, <1>6, <3>2, <3>3
  <2>2. CASE ~(p < e)
    <3>1. /\ p \in e..Len(s) /\ m \in e..Len(s) /\ q \in e..Len(s)
          /\ m # 0 /\ m \notin i..(e - 1)
      BY <1>2, <1>13, <2>2
    <3>2. ~In(f, t, m)
      BY <1>13, <3>1 DEF UrlFacts, BracketsGo
    <3> QED
      BY <1>3, <1>5, <3>1, <3>2
  <2> QED
    BY <2>1, <2>2
\* The "://" within the piece that an @ further on will find.
<1>14. ASSUME NEW p \in i..(e - 1), s[p].char = Sep, NEW k \in Nat, k >= 2,
              k > n \/ (k \in 1..n /\ g[k] > p)
       PROVE  \E l \in 1..(k - 1) : /\ l \in 1..n /\ u[l].char = Sep
                                    /\ h[l] = p \/ h[l + 1] = 0
  <2>1. CASE \A x \in 1..n : g[x] = i + x - 1
    <3>1. g[n] \in {0, e - 1} /\ n \in 1..n
      BY <1>1 DEF Chunk, n
    <3>2. n = e - i
      BY <1>1, <1>2, <2>1, <3>1
    <3>3. p - i + 1 \in 1..n /\ i + (p - i + 1) - 1 = p
      BY <1>2, <3>2
    <3>4. p - i + 1 < k
      BY <1>1, <1>2, <1>14, <2>1, <3>3
    <3>5. g[p - i + 1] = p /\ p # 0
      BY <1>2, <2>1, <3>3
    <3>6. c[p - i + 1] = s[p]
      BY <1>8, <3>3, <3>5
    <3>7. u[p - i + 1].char = Sep /\ h[p - i + 1] = p
      BY <1>3, <1>14, <3>3, <3>5, <3>6
    <3>8. p - i + 1 \in 1..(k - 1)
      BY <1>1, <1>14, <3>3, <3>4
    <3> QED
      BY <3>3, <3>7, <3>8
  <2>2. CASE n >= 2 /\ g[2] = 0
    <3>1. 1 \in 1..(k - 1) /\ 2 \in 1..n
      BY <1>1, <1>14, <2>2
    <3> QED
      BY <1>3, <1>6, <2>2, <3>1
  <2> QED
    BY <2>1, <2>2 DEF UrlPiece, n
<1>15. ASSUME NEW k \in 1..(Len(u) + 1), NEW p \in i..(h[k] - 1), s[p].char = Sep,
              Unwhite(s, p, h[k] - 1)
       PROVE  LeftEnd(u, h, k, p)
  <2>1. k \in Nat /\ k >= 1
    BY <1>1, <1>2, <1>4
  <2>2. CASE k <= n
    <3>1. k \in 1..n
      BY <1>1, <2>1, <2>2
    <3>2. h[k] = g[k] /\ g[k] \in Nat
      BY <1>2, <1>3, <3>1
    <3>3. g[k] \in i..(e - 1) /\ k # 1 /\ p \in i..(e - 1) /\ g[k] > p
      BY <1>2, <1>6, <1>8, <3>1, <3>2, SMTT(60)
    <3>4. k >= 2
      BY <2>1, <3>3
    <3>5. PICK l \in 1..(k - 1) : l \in 1..n /\ u[l].char = Sep /\ (h[l] = p \/ h[l + 1] = 0)
      BY <1>14, <1>15, <2>1, <3>1, <3>3, <3>4
    <3>6. \A x \in l..(k - 1) : x \in 1..n
      BY <1>1, <3>1
    <3> QED
      BY <1>10, <3>5, <3>6 DEF LeftEnd, Unwhite
  <2>3. CASE ~(k <= n)
    <3> DEFINE j == k - n
    <3>1. j \in 1..(Len(t) + 1) /\ n + j = k /\ j \in Nat /\ k > n /\ k >= 2
      BY <1>1, <1>2, <1>4, <2>1, <2>3
    <3> HIDE DEF j
    <3>2. h[k] = f[j] /\ f[j] \in Nat
      BY <1>2, <1>4, <3>1
    <3>3. f[j] \in e..(Len(s) + 1)
      <4>1. f[j] # 0
        BY <1>2, <3>2
      <4>2. CASE j = Len(t) + 1
        BY <1>1, <1>2, <4>2 DEF Traces
      <4>3. CASE j # Len(t) + 1
        <5>1. j \in 1..Len(t)
          BY <1>2, <3>1, <4>3
        <5>2. f[j] \in e..Len(s)
          BY <1>1, <4>1, <5>1 DEF Traces, InPlace
        <5> QED
          BY <1>2, <5>2
      <4> QED
        BY <4>2, <4>3
    <3>4. CASE p < e
      <4>1. f[j] = e
        <5> SUFFICES ASSUME f[j] # e PROVE FALSE
          OBVIOUS
        <5>1. e \in p..(f[j] - 1) /\ e # Len(s) + 1
          BY <1>2, <3>3, <3>4
        <5> QED
          BY <1>15, <3>2, <5>1 DEF Unwhite
      <4>2. p \in i..(e - 1)
        BY <1>2, <3>4
      <4>3. PICK l \in 1..(k - 1) : l \in 1..n /\ u[l].char = Sep /\ (h[l] = p \/ h[l + 1] = 0)
        BY <1>14, <1>15, <2>1, <3>1, <4>2
      <4>4. ASSUME NEW x \in l..(k - 1) PROVE u[x].char # White
        <5>1. CASE x <= n
          <6>1. x \in 1..n
            BY <1>1, <4>3, <5>1
          <6> QED
            BY <1>10, <6>1
        <5>2. CASE ~(x <= n)
          <6> DEFINE y == x - n
          <6>1. x \in Nat /\ x <= k - 1 /\ j <= Len(t) + 1
            BY <2>1, <3>1
          <6>2. y \in 1..Len(t) /\ y \in 1..(Len(t) + 1) /\ n + y = x /\ y < j
            BY ONLY <1>1, <1>2, <2>1, <3>1, <5>2, <6>1
          <6> HIDE DEF y
          <6>3. f[y] = 0
            <7> SUFFICES ASSUME f[y] # 0 PROVE FALSE
              OBVIOUS
            <7>1. f[y] < f[j]
              BY <1>1, <1>2, <3>1, <4>1, <6>2 DEF Traces, Grows, Rises
            <7>2. f[y] \in e..Len(s)
              BY <1>1, <6>2 DEF Traces, InPlace
            <7> QED
              BY <1>2, <4>1, <7>1, <7>2
          <6>4. t[y].char \in Marks
            BY <1>1, <6>2, <6>3 DEF Traces, InPlace
          <6>5. u[x] = t[y]
            BY <1>3, <6>2 DEF Behind
          <6> QED
            BY <1>7, <6>4, <6>5
        <5> QED
          BY <5>1, <5>2
      <4> QED
        BY <4>3, <4>4 DEF LeftEnd, Unwhite
    <3>5. CASE ~(p < e)
      <4>1. p \in e..(f[j] - 1)
        BY <1>2, <3>2, <3>5
      <4>2. LeftEnd(t, f, j, p)
        BY <1>15, <3>1, <3>2, <4>1 DEF UrlFacts, SepsStay
      <4>3. LeftEnd(u, h, n + j, p)
        BY ONLY <1>1, <1>2, <1>3, <3>1, <4>2, LeftEndBehind
      <4> QED
        BY <3>1, <4>3
    <3> QED
      BY <3>4, <3>5
  <2> QED
    BY <2>2, <2>3
<1>16. UrlFacts(u, h, s, i)
  BY <1>3, <1>12, <1>13, <1>15 DEF UrlFacts, OnlyUrlsGo, BracketsGo, SepsStay
<1> QED
  BY <1>16 DEF u

LEMMA UrlTraces ==
    ASSUME NEW s \in Seq(Sym)
    PROVE  \E f : UrlFacts(RedactUrlUserinfo(s), f, s, 1)
<1> DEFINE n == Len(s)
           chunk == UrlChunks(s)
           next == UrlNexts(s)
           Q == [i \in 1..(n + 1) |-> {t \in Seq(Sym) : \E f : UrlFacts(t, f, s, i)}]
<1>1. n \in Nat
  OBVIOUS
<1>2. \A i \in 1..(n + 1) : \A t : t \in Q[i] <=> \E f : UrlFacts(t, f, s, i)
  BY DEF UrlFacts, Traces
<1> HIDE DEF Q
<1>3. /\ Scannable(s, chunk, next)
      /\ \A i \in 1..n : IF s[i].char = Sep
                         THEN chunk[i] = UrlAt(s, i) /\ next[i] = RunEnd(s, i + 1)
                         ELSE chunk[i] = <<s[i]>> /\ next[i] = i + 1
  BY UrlNextsFit
<1> HIDE DEF chunk, next
<1>4. <<>> \in Q[n + 1]
  <2> DEFINE f == [k \in 1..1 |-> n + 1]
  <2>1. Traces(<<>>, f, s, n + 1)
    BY ONLY s \in Seq(Sym), NothingTraces
  <2>2. n + 1 \in 1..(n + 1) /\ Len(<<>>) = 0 /\ 1..(0 + 1) = {1} /\ f[1] = n + 1
        /\ (n + 1)..n = {} /\ (n + 1)..(n + 1 - 1) = {}
    BY <1>1
  <2> HIDE DEF f
  <2>3. OnlyUrlsGo(<<>>, f, s, n + 1)
    BY ONLY <2>2 DEF OnlyUrlsGo, n
  <2>4. BracketsGo(<<>>, f, s, n + 1)
    BY ONLY <2>2 DEF BracketsGo, n
  <2>5. SepsStay(<<>>, f, s, n + 1)
    BY ONLY <2>2 DEF SepsStay
  <2>6. UrlFacts(<<>>, f, s, n + 1)
    BY <2>1, <2>3, <2>4, <2>5 DEF UrlFacts
  <2> QED
    BY <1>2, <2>2, <2>6
<1>5. ASSUME NEW i \in 1..n, NEW t \in Q[next[i]] PROVE chunk[i] \o t \in Q[i]
  <2>1. i \in 1..(n + 1) /\ next[i] \in 1..(n + 1) /\ next[i] \in (i + 1)..(n + 1)
    BY <1>1, <1>3 DEF Scannable
  <2>2. PICK f : UrlFacts(t, f, s, next[i])
    BY <1>2, <2>1
  <2>3. CASE s[i].char # Sep
    <3>1. chunk[i] = <<s[i]>> /\ next[i] = i + 1
      BY <1>3, <2>3
    <3>2. \E h : UrlFacts(<<s[i]>> \o t, h, s, i)
      BY <2>2, <2>3, <3>1, CopyUrlFacts
    <3> QED
      BY <1>2, <2>1, <3>1, <3>2
  <2>4. CASE s[i].char = Sep
    <3> DEFINE e == RunEnd(s, i + 1)
               c == UrlAt(s, i)
    <3>1. chunk[i] = c /\ next[i] = e
      BY <1>3, <2>4
    <3>2. i + 1 \in 1..(Len(s) + 1)
      BY <1>1
    <3>3. (e = Len(s) + 1 \/ s[e].char = White) /\ Unwhite(s, i + 1, e - 1)
      BY <3>2, RunEndIs DEF Unwhite
    <3>4. PICK g, b : Chunk(c, g, s, i, e) /\ UrlPiece(c, g, s, i, b, e)
      BY UrlAtIs
    <3> HIDE DEF e, c
    <3>5. e \in (i + 1)..(Len(s) + 1) /\ UrlFacts(t, f, s, e)
      BY <2>1, <2>2, <3>1
    <3>6. \E h : UrlFacts(c \o t, h, s, i)
      BY ONLY <2>4, <3>3, <3>4, <3>5, s \in Seq(Sym), i \in 1..n, PieceUrlFacts DEF n
    <3> QED
      BY <1>2, <2>1, <3>1, <3>6
  <2> QED
    BY <2>3, <2>4
<1>6. Carried(Q, s, chunk, next)
  BY <1>4, <1>5 DEF Carried
<1>7. RedactUrlUserinfo(s) \in Q[1]
  <2>1. RedactUrlUserinfo(s) = Rewritten(s, chunk, next)
    BY DEF RedactUrlUserinfo, chunk, next, UrlChunks, UrlNexts
  <2> QED
    BY <1>3, <1>6, <2>1, RewrittenIn
<1>8. 1 \in 1..(n + 1)
  BY <1>1
<1> QED
  BY <1>2, <1>7, <1>8

-----------------------------------------------------------------------------
\* One pass after the other.

Through(f, g, n) == [k \in 1..n |-> IF g[k] = 0 THEN 0 ELSE f[g[k]]]

\* h leads from t to where u has it from.
Leads(h, f, g, t) ==
    \A k \in 1..(Len(t) + 1) : h[k] = IF g[k] = 0 THEN 0 ELSE f[g[k]]

LEMMA TraceBounds ==
    ASSUME NEW s \in Seq(Sym), NEW t, NEW f, Traces(t, f, s, 1)
    PROVE  /\ t \in Seq(Sym) /\ Len(t) \in Nat /\ Len(s) \in Nat
           /\ \A k \in 1..(Len(t) + 1) : f[k] \in 0..(Len(s) + 1)
           /\ \A k \in 1..Len(t) : f[k] \in 0..Len(s)
           /\ \A k \in 1..Len(t) : f[k] # 0 => t[k] = s[f[k]]
           /\ \A k \in 1..Len(t) : f[k] = 0 => t[k].char \in Marks
           /\ \A k, l \in 1..(Len(t) + 1) : k < l /\ f[k] # 0 /\ f[l] # 0 => f[k] < f[l]
<1>1. t \in Seq(Sym) /\ Len(t) \in Nat /\ Len(s) \in Nat
  BY DEF Traces
<1>2. ASSUME NEW k \in 1..Len(t)
      PROVE  f[k] \in 0..Len(s) /\ (f[k] # 0 => t[k] = s[f[k]]) /\ (f[k] = 0 => t[k].char \in Marks)
  <2>1. InPlace(s, 1, Len(s), t[k], f[k])
    BY DEF Traces
  <2> QED
    BY <1>1, <2>1 DEF InPlace
<1>3. ASSUME NEW k \in 1..(Len(t) + 1) PROVE f[k] \in 0..(Len(s) + 1)
  <2>1. CASE k = Len(t) + 1
    BY <1>1, <2>1 DEF Traces
  <2>2. CASE k # Len(t) + 1
    <3>1. k \in 1..Len(t)
      BY <1>1, <2>2
    <3> QED
      BY <1>1, <1>2, <3>1
  <2> QED
    BY <2>1, <2>2
<1>4. \A k, l \in 1..(Len(t) + 1) : k < l /\ f[k] # 0 /\ f[l] # 0 => f[k] < f[l]
  BY DEF Traces, Grows, Rises
<1> QED
  BY <1>1, <1>2, <1>3, <1>4

LEMMA TracesCompose ==
    ASSUME NEW s \in Seq(Sym), NEW u, NEW f, Traces(u, f, s, 1), NEW t, NEW g, Traces(t, g, u, 1)
    PROVE  \E h : Traces(t, h, s, 1) /\ Leads(h, f, g, t)
<1> DEFINE n == Len(t) + 1
           h == Through(f, g, n)
<1>1. /\ u \in Seq(Sym) /\ Len(u) \in Nat /\ Len(s) \in Nat
      /\ \A k \in 1..(Len(u) + 1) : f[k] \in 0..(Len(s) + 1)
      /\ \A k \in 1..Len(u) : f[k] \in 0..Len(s)
      /\ \A k \in 1..Len(u) : f[k] # 0 => u[k] = s[f[k]]
      /\ \A k, l \in 1..(Len(u) + 1) : k < l /\ f[k] # 0 /\ f[l] # 0 => f[k] < f[l]
  BY TraceBounds
<1>2. /\ t \in Seq(Sym) /\ Len(t) \in Nat
      /\ \A k \in 1..n : g[k] \in 0..(Len(u) + 1)
      /\ \A k \in 1..Len(t) : g[k] \in 0..Len(u)
      /\ \A k, l \in 1..n : k < l /\ g[k] # 0 /\ g[l] # 0 => g[k] < g[l]
  BY <1>1, TraceBounds
<1>3. \A k \in 1..n : h[k] = IF g[k] = 0 THEN 0 ELSE f[g[k]]
  BY DEF Through
<1>4. \A k \in 1..n : g[k] # 0 => g[k] \in 1..(Len(u) + 1)
  BY <1>1, <1>2
<1>5. h \in [1..n -> Nat]
  <2>1. h = [k \in 1..n |-> h[k]]
    BY DEF Through
  <2>2. \A k \in 1..n : h[k] \in Nat
    <3> HIDE DEF h, n
    <3> QED
      BY <1>1, <1>3, <1>4
  <2> HIDE DEF h
  <2> QED
    BY <2>1, <2>2
<1> HIDE DEF h
<1>6. h[1] \in {0, 1}
  <2>1. f[1] \in {0, 1} /\ g[1] \in {0, 1} /\ 1 \in 1..n
    BY <1>2 DEF Traces
  <2> QED
    BY <1>3, <2>1
<1>7. h[n] = Len(s) + 1
  <2>1. f[Len(u) + 1] = Len(s) + 1 /\ g[n] = Len(u) + 1 /\ n \in 1..n
    BY <1>2 DEF Traces
  <2> QED
    BY <1>1, <1>3, <2>1
<1>8. ASSUME NEW k \in 1..Len(t) PROVE InPlace(s, 1, Len(s), t[k], h[k])
  <2>1. k \in 1..n
    BY <1>2
  <2>2. InPlace(u, 1, Len(u), t[k], g[k])
    BY DEF Traces
  <2>3. CASE g[k] = 0
    BY <1>3, <2>1, <2>2, <2>3 DEF InPlace
  <2>4. CASE g[k] # 0
    <3>1. g[k] \in 1..Len(u) /\ t[k] = u[g[k]] /\ h[k] = f[g[k]]
      BY <1>3, <2>1, <2>2, <2>4 DEF InPlace
    <3>2. InPlace(s, 1, Len(s), u[g[k]], f[g[k]])
      BY <3>1 DEF Traces
    <3> QED
      BY <3>1, <3>2
  <2> QED
    BY <2>3, <2>4
<1>9. ASSUME NEW k \in 1..n, NEW l \in 1..n, l = k + 1, h[k] # 0, h[l] # 0 PROVE h[l] = h[k] + 1
  <2>1. g[k] # 0 /\ g[l] # 0
    BY <1>3, <1>9
  <2>2. g[l] = g[k] + 1
    BY <1>9, <2>1 DEF Traces, Grows, Runs
  <2>3. h[k] = f[g[k]] /\ h[l] = f[g[l]] /\ g[k] \in 1..(Len(u) + 1) /\ g[l] \in 1..(Len(u) + 1)
    BY <1>3, <1>4, <2>1
  <2>4. Runs(f, Len(u) + 1)
    BY DEF Traces, Grows
  <2> QED
    BY ONLY <1>9, <2>2, <2>3, <2>4 DEF Runs
<1>10. ASSUME NEW k \in 1..n, NEW l \in 1..n, k < l, h[k] # 0, h[l] # 0 PROVE h[k] < h[l]
  <2>1. g[k] # 0 /\ g[l] # 0
    BY <1>3, <1>10
  <2>2. g[k] < g[l]
    BY <1>2, <1>10, <2>1
  <2>3. h[k] = f[g[k]] /\ h[l] = f[g[l]] /\ g[k] \in 1..(Len(u) + 1) /\ g[l] \in 1..(Len(u) + 1)
    BY <1>3, <1>4, <2>1
  <2> QED
    BY <1>1, <1>10, <2>2, <2>3
<1>11. Traces(t, h, s, 1)
  BY <1>2, <1>5, <1>6, <1>7, <1>8, <1>9, <1>10 DEF Traces, Grows, Runs, Rises
<1> QED
  BY <1>3, <1>11 DEF Leads

\* What is still there has been there all the time.
LEMMA InThrough ==
    ASSUME NEW s \in Seq(Sym), NEW u, NEW f, Traces(u, f, s, 1), NEW t, NEW g, Traces(t, g, u, 1),
           NEW h, Leads(h, f, g, t), NEW m, m # 0
    PROVE  /\ In(h, t, m) => \E x \in 1..Len(u) : In(g, t, x) /\ f[x] = m
           /\ In(h, t, m) => In(f, u, m)
           /\ \A x \in 1..Len(u) : In(g, t, x) /\ f[x] = m => In(h, t, m)
<1>1. u \in Seq(Sym) /\ Len(u) \in Nat
  BY TraceBounds
<1>2. Len(t) \in Nat /\ \A k \in 1..Len(t) : g[k] \in 0..Len(u)
  BY <1>1, TraceBounds
<1>3. \A k \in 1..Len(t) : h[k] = IF g[k] = 0 THEN 0 ELSE f[g[k]]
  BY <1>2 DEF Leads
<1>4. ASSUME In(h, t, m) PROVE \E x \in 1..Len(u) : In(g, t, x) /\ f[x] = m
  <2>1. PICK k \in 1..Len(t) : h[k] = m
    BY <1>4 DEF In
  <2>2. g[k] # 0 /\ f[g[k]] = m
    BY <1>3, <2>1
  <2>3. g[k] \in 1..Len(u) /\ In(g, t, g[k])
    BY <1>1, <1>2, <2>2 DEF In
  <2> QED
    BY <2>2, <2>3
<1>5. ASSUME NEW x \in 1..Len(u), In(g, t, x), f[x] = m PROVE In(h, t, m)
  <2>1. PICK k \in 1..Len(t) : g[k] = x
    BY <1>5 DEF In
  <2>2. h[k] = m
    BY <1>3, <1>5, <2>1
  <2> QED
    BY <2>2 DEF In
<1> QED
  BY <1>4, <1>5 DEF In

\* What two symbols of u have between them is what s has between them, and placeholders.
LEMMA UnwhiteThrough ==
    ASSUME NEW s \in Seq(Sym), NEW t, NEW f, Traces(t, f, s, 1),
           NEW k \in 1..(Len(t) + 1), NEW l \in 1..(Len(t) + 1), k <= l, f[k] # 0, f[l] # 0
    PROVE  /\ Unwhite(s, f[k], f[l] - 1) => Unwhite(t, k, l - 1)
           /\ l \in 1..Len(t) /\ Unwhite(s, f[k], f[l]) => Unwhite(t, k, l)
<1>1. /\ Len(t) \in Nat /\ Len(s) \in Nat
      /\ \A x \in 1..(Len(t) + 1) : f[x] \in 0..(Len(s) + 1)
      /\ \A x \in 1..Len(t) : f[x] # 0 => t[x] = s[f[x]]
      /\ \A x \in 1..Len(t) : f[x] = 0 => t[x].char \in Marks
      /\ \A x, y \in 1..(Len(t) + 1) : x < y /\ f[x] # 0 /\ f[y] # 0 => f[x] < f[y]
  BY TraceBounds
<1>2. White \notin Marks
  BY DEF White, Marks
<1>3. f[k] \in Nat /\ f[l] \in Nat
  BY <1>1
<1>4. ASSUME Unwhite(s, f[k], f[l] - 1), NEW x \in k..(l - 1) PROVE t[x].char # White
  <2>1. x \in 1..Len(t) /\ x \in 1..(Len(t) + 1) /\ x < l /\ (k < x \/ k = x)
    BY <1>1
  <2>2. CASE f[x] = 0
    BY <1>1, <1>2, <2>1, <2>2
  <2>3. CASE f[x] # 0
    <3>1. f[x] \in f[k]..(f[l] - 1)
      BY <1>1, <1>3, <2>1, <2>3, SMTT(60)
    <3> QED
      BY <1>1, <1>4, <2>1, <2>3, <3>1 DEF Unwhite
  <2> QED
    BY <2>2, <2>3
<1>5. ASSUME l \in 1..Len(t), Unwhite(s, f[k], f[l]), NEW x \in k..l PROVE t[x].char # White
  <2>1. x \in 1..Len(t) /\ x \in 1..(Len(t) + 1) /\ (x < l \/ x = l) /\ (k < x \/ k = x)
    BY <1>1, <1>5
  <2>2. CASE f[x] = 0
    BY <1>1, <1>2, <2>1, <2>2
  <2>3. CASE f[x] # 0
    <3>1. f[x] \in f[k]..f[l]
      BY <1>1, <1>3, <2>1, <2>3
    <3> QED
      BY <1>1, <1>5, <2>1, <2>3, <3>1 DEF Unwhite
  <2> QED
    BY <2>2, <2>3
<1> QED
  BY <1>4, <1>5 DEF Unwhite

-----------------------------------------------------------------------------
\* What the passes together take away.

BracketsGone(t, f, s) ==
    \A p, m, q \in 1..Len(s) :
        (/\ p < m /\ m < q /\ s[p].char = Sep /\ s[q].char = "@" /\ Unwhite(s, p, q)
         /\ ~Swallowed(t, f, s, 1, p) /\ ~Swallowed(t, f, s, 1, q))
            => ~In(f, t, m)

LeftEndsStay(t, f, s) ==
    \A k \in 1..(Len(t) + 1) : \A p \in 1..(f[k] - 1) :
        s[p].char = Sep /\ Unwhite(s, p, f[k] - 1) /\ ~Swallowed(t, f, s, 1, p)
            => LeftEnd(t, f, k, p)

AtsGoWithUrls(t, f, s) ==
    \A q \in 1..Len(s) :
        s[q].char = "@" /\ ~In(f, t, q) /\ ~Swallowed(t, f, s, 1, q) =>
            \E p \in 1..(q - 1) : s[p].char = Sep /\ \A x \in (p + 1)..q : ~In(f, t, x)

StringFacts(t, f, s) ==
    Traces(t, f, s, 1) /\ BracketsGone(t, f, s) /\ LeftEndsStay(t, f, s) /\ AtsGoWithUrls(t, f, s)

LEMMA StaysSwallowed ==
    ASSUME NEW s \in Seq(Sym), NEW u, NEW f, NEW t, NEW h,
           \A x : x # 0 /\ In(h, t, x) => In(f, u, x),
           NEW m \in Nat, Swallowed(u, f, s, 1, m)
    PROVE  Swallowed(t, h, s, 1, m)
<1>1. PICK v \in Values : \E j \in 1..m :
          /\ StandsAt(v, s, j) /\ m \in j..(j + Len(v) - 1)
          /\ \A x \in j..(j + Len(v) - 1) : ~In(f, u, x)
  BY DEF Swallowed
<1>2. PICK j \in 1..m :
          /\ StandsAt(v, s, j) /\ m \in j..(j + Len(v) - 1)
          /\ \A x \in j..(j + Len(v) - 1) : ~In(f, u, x)
  BY <1>1
<1>3. \A x \in j..(j + Len(v) - 1) : x # 0
  <2>1. j \in Nat /\ j >= 1
    OBVIOUS
  <2> QED
    BY <2>1
<1> QED
  BY <1>2, <1>3 DEF Swallowed

LEMMA ValuesThenUrls ==
    ASSUME NEW s \in Seq(Sym), NEW u, NEW f, Traces(u, f, s, 1), OnlyValuesGo(u, f, s, 1),
           NEW t, NEW g, UrlFacts(t, g, u, 1)
    PROVE  \E h : StringFacts(t, h, s)
<1>1. /\ u \in Seq(Sym) /\ Len(u) \in Nat /\ Len(s) \in Nat
      /\ \A k \in 1..(Len(u) + 1) : f[k] \in 0..(Len(s) + 1)
      /\ \A k \in 1..Len(u) : f[k] \in 0..Len(s)
      /\ \A k \in 1..Len(u) : f[k] # 0 => u[k] = s[f[k]]
      /\ \A k \in 1..Len(u) : f[k] = 0 => u[k].char \in Marks
      /\ \A k, l \in 1..(Len(u) + 1) : k < l /\ f[k] # 0 /\ f[l] # 0 => f[k] < f[l]
  BY TraceBounds
<1>2. /\ Traces(t, g, u, 1) /\ t \in Seq(Sym) /\ Len(t) \in Nat
      /\ \A k \in 1..(Len(t) + 1) : g[k] \in 0..(Len(u) + 1)
  BY <1>1, TraceBounds DEF UrlFacts
<1>3. PICK h : Traces(t, h, s, 1) /\ Leads(h, f, g, t)
  BY <1>1, <1>2, TracesCompose
<1>4. /\ \A m : m # 0 /\ In(h, t, m) => \E x \in 1..Len(u) : In(g, t, x) /\ f[x] = m
      /\ \A m : m # 0 /\ In(h, t, m) => In(f, u, m)
      /\ \A m : m # 0 => \A x \in 1..Len(u) : In(g, t, x) /\ f[x] = m => In(h, t, m)
  BY <1>2, <1>3, InThrough
<1>5. ASSUME NEW m \in 1..Len(s), ~Swallowed(t, h, s, 1, m)
      PROVE  \E x \in 1..Len(u) : f[x] = m /\ u[x] = s[m]
  <2>1. In(f, u, m)
    <3> SUFFICES ASSUME ~In(f, u, m) PROVE FALSE
      OBVIOUS
    <3>1. Swallowed(u, f, s, 1, m) /\ m \in Nat
      BY DEF OnlyValuesGo
    <3>2. Swallowed(t, h, s, 1, m)
      BY <1>4, <3>1, StaysSwallowed
    <3> QED
      BY <1>5, <3>2
  <2> QED
    BY <1>1, <2>1 DEF In
<1>6. ASSUME NEW p \in 1..Len(s), NEW m \in 1..Len(s), NEW q \in 1..Len(s),
             p < m, m < q, s[p].char = Sep, s[q].char = "@", Unwhite(s, p, q),
             ~Swallowed(t, h, s, 1, p), ~Swallowed(t, h, s, 1, q), In(h, t, m)
      PROVE  FALSE
  <2>1. PICK x \in 1..Len(u) : f[x] = p /\ u[x] = s[p]
    BY <1>5, <1>6
  <2>2. PICK z \in 1..Len(u) : f[z] = q /\ u[z] = s[q]
    BY <1>5, <1>6
  <2>3. PICK y \in 1..Len(u) : In(g, t, y) /\ f[y] = m
    BY <1>4, <1>6
  <2>4. p \in Nat /\ m \in Nat /\ q \in Nat /\ p # 0 /\ m # 0 /\ q # 0
    BY <1>1
  <2>5. \A k \in 1..Len(u) : k \in 1..(Len(u) + 1) /\ k \in Nat
    BY <1>1
  <2>6. x < y
    <3>1. ~(y < x) /\ y # x
      BY <1>1, <1>6, <2>1, <2>3, <2>4, <2>5
    <3> QED
      BY <2>5, <3>1
  <2>7. y < z
    <3>1. ~(z < y) /\ y # z
      BY <1>1, <1>6, <2>2, <2>3, <2>4, <2>5, SMTT(60)
    <3> QED
      BY <2>5, <3>1
  <2>8. Unwhite(u, x, z)
    <3>1. x <= z /\ x \in 1..(Len(u) + 1) /\ z \in 1..(Len(u) + 1)
      BY <2>5, <2>6, <2>7
    <3> QED
      BY <1>6, <2>1, <2>2, <2>4, <3>1, UnwhiteThrough
  <2>9. ~In(g, t, y)
    BY <1>6, <2>1, <2>2, <2>6, <2>7, <2>8 DEF UrlFacts, BracketsGo
  <2> QED
    BY <2>3, <2>9
<1>7. ASSUME NEW k \in 1..(Len(t) + 1), NEW p \in 1..(h[k] - 1), s[p].char = Sep,
             Unwhite(s, p, h[k] - 1), ~Swallowed(t, h, s, 1, p)
      PROVE  LeftEnd(t, h, k, p)
  <2>1. h[k] = IF g[k] = 0 THEN 0 ELSE f[g[k]]
    BY <1>3 DEF Leads
  <2>2. g[k] # 0 /\ h[k] = f[g[k]] /\ g[k] \in 1..(Len(u) + 1) /\ f[g[k]] \in 1..(Len(s) + 1)
    <3>1. g[k] # 0
      BY <2>1
    <3>2. g[k] \in 1..(Len(u) + 1)
      BY <1>1, <1>2, <3>1
    <3>3. f[g[k]] \in 0..(Len(s) + 1)
      BY <1>1, <3>2
    <3> QED
      BY <1>1, <2>1, <3>1, <3>2, <3>3
  <2>3. p \in 1..Len(s) /\ p \in Nat /\ p # 0 /\ p < f[g[k]]
    BY <1>1, <2>2
  <2>4. PICK x \in 1..Len(u) : f[x] = p /\ u[x] = s[p]
    BY <1>5, <1>7, <2>3
  <2>5. x \in 1..(Len(u) + 1) /\ x \in Nat /\ g[k] \in Nat
    BY <1>1, <2>2
  <2>6. x < g[k]
    <3>1. ~(g[k] < x) /\ g[k] # x
      BY <1>1, <2>2, <2>3, <2>4, <2>5
    <3> QED
      BY <2>5, <3>1
  <2>7. Unwhite(u, x, g[k] - 1)
    <3>1. x <= g[k] /\ f[x] # 0 /\ f[g[k]] # 0
      BY <2>2, <2>3, <2>4, <2>5, <2>6
    <3>2. Unwhite(s, f[x], f[g[k]] - 1)
      BY <1>7, <2>2, <2>4
    <3> QED
      BY ONLY <1>3, <2>2, <2>5, <3>1, <3>2, s \in Seq(Sym), Traces(u, f, s, 1), UnwhiteThrough
  <2>8. x \in 1..(g[k] - 1) /\ u[x].char = Sep
    BY <1>7, <2>4, <2>5, <2>6
  <2>9. LeftEnd(t, g, k, x)
    BY <2>7, <2>8 DEF UrlFacts, SepsStay
  <2>10. PICK l \in 1..(k - 1) :
             t[l].char = Sep /\ Unwhite(t, l, k - 1) /\ (g[l] = x \/ g[l + 1] = 0)
    BY <2>9 DEF LeftEnd
  <2>11. l \in 1..(Len(t) + 1) /\ l + 1 \in 1..(Len(t) + 1)
    BY <1>2
  <2>12. h[l] = p \/ h[l + 1] = 0
    <3>1. CASE g[l] = x
      <4>1. x # 0
        BY <2>4
      <4> QED
        BY <1>3, <2>4, <2>11, <3>1, <4>1 DEF Leads
    <3>2. CASE g[l + 1] = 0
      BY <1>3, <2>11, <3>2 DEF Leads
    <3> QED
      BY <2>10, <3>1, <3>2
  <2> QED
    BY <2>10, <2>12 DEF LeftEnd
<1>8. ASSUME NEW q \in 1..Len(s), s[q].char = "@", ~In(h, t, q), ~Swallowed(t, h, s, 1, q)
      PROVE  \E p \in 1..(q - 1) : s[p].char = Sep /\ \A x \in (p + 1)..q : ~In(h, t, x)
  <2>1. PICK z \in 1..Len(u) : f[z] = q /\ u[z] = s[q]
    BY <1>5, <1>8
  <2>2. q # 0 /\ ~In(g, t, z)
    BY <1>1, <1>4, <1>8, <2>1
  <2>3. PICK y \in 1..(z - 1) : u[y].char = Sep /\ \A x \in (y + 1)..z : ~In(g, t, x)
    BY <2>2 DEF UrlFacts, OnlyUrlsGo
  <2>4. /\ y \in 1..Len(u) /\ y < z
        /\ \A k \in 1..Len(u) : k \in 1..(Len(u) + 1) /\ k \in Nat
    BY <1>1
  <2>5. f[y] # 0 /\ u[y] = s[f[y]]
    <3>1. Sep \notin Marks
      BY DEF Sep, Marks
    <3> QED
      BY <1>1, <2>3, <2>4, <3>1
  <2>6. f[y] \in 1..(q - 1)
    <3>1. f[y] < f[z]
      BY <1>1, <2>1, <2>2, <2>4, <2>5
    <3>2. f[y] \in 0..Len(s)
      BY <1>1, <2>4
    <3> QED
      BY <1>1, <2>1, <2>5, <3>1, <3>2
  <2>7. ASSUME NEW x \in (f[y] + 1)..q, In(h, t, x) PROVE FALSE
    <3>1. x # 0 /\ x \in Nat /\ f[y] < x /\ x <= q /\ f[y] \in Nat
      BY <2>6
    <3>2. PICK w \in 1..Len(u) : In(g, t, w) /\ f[w] = x
      BY <1>4, <2>7, <3>1
    <3>3. \A k, l \in 1..(Len(u) + 1) : k < l /\ f[k] # 0 /\ f[l] # 0 => f[k] < f[l]
      BY <1>1
    <3>4. ~(w < y) /\ w # y
      <4>1. w < y => f[w] < f[y]
        BY ONLY <2>4, <2>5, <3>3, <3>1, <3>2
      <4> QED
        BY ONLY <3>1, <3>2, <4>1
    <3>5. ~(z < w)
      BY <1>1, <2>1, <2>2, <2>4, <3>1, <3>2, SMTT(60)
    <3>6. w \in (y + 1)..z
      BY <2>4, <3>4, <3>5
    <3> QED
      BY <2>3, <3>2, <3>6
  <2> QED
    BY <2>3, <2>5, <2>6, <2>7
<1>9. StringFacts(t, h, s)
  <2>1. BracketsGone(t, h, s)
    BY <1>6 DEF BracketsGone
  <2>2. LeftEndsStay(t, h, s)
    BY <1>7 DEF LeftEndsStay
  <2>3. AtsGoWithUrls(t, h, s)
    BY <1>8 DEF AtsGoWithUrls
  <2> QED
    BY <1>3, <2>1, <2>2, <2>3 DEF StringFacts
<1> QED
  BY <1>9

LEMMA ThenShapes ==
    ASSUME NEW s \in Seq(Sym), NEW u, NEW f, StringFacts(u, f, s),
           NEW t, NEW g, Traces(t, g, u, 1), OnlyHexGoes(t, g, u, 1)
    PROVE  \E h : StringFacts(t, h, s)
<1>1. Traces(u, f, s, 1)
  BY DEF StringFacts
<1>2. /\ u \in Seq(Sym) /\ Len(u) \in Nat /\ Len(s) \in Nat
      /\ \A k \in 1..(Len(u) + 1) : f[k] \in 0..(Len(s) + 1)
      /\ \A k \in 1..Len(u) : f[k] # 0 => u[k] = s[f[k]]
  BY <1>1, TraceBounds
<1>3. /\ t \in Seq(Sym) /\ Len(t) \in Nat
      /\ \A k \in 1..(Len(t) + 1) : g[k] \in 0..(Len(u) + 1)
      /\ \A k \in 1..Len(t) : g[k] # 0 => t[k] = u[g[k]]
      /\ \A k, l \in 1..(Len(t) + 1) : k < l /\ g[k] # 0 /\ g[l] # 0 => g[k] < g[l]
  BY <1>2, TraceBounds
<1>4. PICK h : Traces(t, h, s, 1) /\ Leads(h, f, g, t)
  BY <1>1, <1>2, TracesCompose
<1>5. /\ \A m : m # 0 /\ In(h, t, m) => In(f, u, m)
      /\ \A m : m # 0 => \A x \in 1..Len(u) : In(g, t, x) /\ f[x] = m => In(h, t, m)
  BY <1>1, <1>4, InThrough
<1>6. \A m \in Nat : Swallowed(u, f, s, 1, m) => Swallowed(t, h, s, 1, m)
  BY <1>5, StaysSwallowed
<1>7. Sep \notin Hex /\ "@" \notin Hex
  BY DEF Sep, Hex, Digits
<1>8. BracketsGone(t, h, s)
  <2> SUFFICES ASSUME NEW p \in 1..Len(s), NEW m \in 1..Len(s), NEW q \in 1..Len(s),
                      p < m, m < q, s[p].char = Sep, s[q].char = "@", Unwhite(s, p, q),
                      ~Swallowed(t, h, s, 1, p), ~Swallowed(t, h, s, 1, q)
               PROVE  ~In(h, t, m)
    BY DEF BracketsGone
  <2>1. ~Swallowed(u, f, s, 1, p) /\ ~Swallowed(u, f, s, 1, q) /\ m # 0
    BY <1>2, <1>6
  <2>2. ~In(f, u, m)
    BY <2>1 DEF StringFacts, BracketsGone
  <2> QED
    BY <1>5, <2>1, <2>2
<1>9. LeftEndsStay(t, h, s)
  <2> SUFFICES ASSUME NEW k \in 1..(Len(t) + 1), NEW p \in 1..(h[k] - 1), s[p].char = Sep,
                      Unwhite(s, p, h[k] - 1), ~Swallowed(t, h, s, 1, p)
               PROVE  LeftEnd(t, h, k, p)
    BY DEF LeftEndsStay
  <2>1. h[k] = IF g[k] = 0 THEN 0 ELSE f[g[k]]
    BY <1>4 DEF Leads
  <2>2. g[k] # 0 /\ h[k] = f[g[k]] /\ g[k] \in 1..(Len(u) + 1)
    <3>1. g[k] # 0
      BY <2>1
    <3> QED
      BY <1>2, <1>3, <2>1, <3>1
  <2>3. ~Swallowed(u, f, s, 1, p)
    BY <1>6
  <2>4. LeftEnd(u, f, g[k], p)
    BY <2>2, <2>3 DEF StringFacts, LeftEndsStay
  <2>5. PICK l \in 1..(g[k] - 1) :
            u[l].char = Sep /\ Unwhite(u, l, g[k] - 1) /\ (f[l] = p \/ f[l + 1] = 0)
    BY <2>4 DEF LeftEnd
  <2>6. l \in 1..Len(u) /\ l # 0 /\ l \in Nat /\ l < g[k] /\ g[k] \in Nat
    BY <1>2, <2>2
  <2>7. In(g, t, l)
    BY <1>7, <2>5, <2>6 DEF OnlyHexGoes
  <2>8. PICK x \in 1..Len(t) : g[x] = l
    BY <2>7 DEF In
  <2>9. x \in Nat /\ k \in Nat /\ x \in 1..(Len(t) + 1) /\ x + 1 \in 1..(Len(t) + 1)
    BY <1>3
  <2>10. x < k
    <3>1. ~(k < x) /\ k # x
      BY <1>3, <2>2, <2>6, <2>8, <2>9, SMTT(60)
    <3> QED
      BY <2>9, <3>1
  <2>11. x \in 1..(k - 1) /\ t[x].char = Sep
    BY <1>3, <2>5, <2>6, <2>8, <2>9, <2>10, SMTT(60)
  <2>12. Unwhite(t, x, k - 1)
    <3>1. x <= k /\ g[x] # 0
      BY <2>6, <2>8, <2>9, <2>10
    <3>2. Unwhite(u, g[x], g[k] - 1)
      BY <2>5, <2>8
    <3> QED
      BY ONLY <1>2, <2>2, <2>9, <3>1, <3>2, k \in 1..(Len(t) + 1), Traces(t, g, u, 1),
              UnwhiteThrough
  <2>13. h[x] = p \/ h[x + 1] = 0
    <3>1. h[x] = f[l]
      BY <1>4, <2>6, <2>8, <2>9 DEF Leads
    <3>2. h[x + 1] = IF g[x + 1] = 0 THEN 0 ELSE f[g[x + 1]]
      BY <1>4, <2>9 DEF Leads
    <3>3. g[x + 1] = 0 \/ g[x + 1] = l + 1
      <4>1. Runs(g, Len(t) + 1)
        BY DEF Traces, Grows
      <4> QED
        BY <2>6, <2>8, <2>9, <4>1 DEF Runs
    <3> QED
      BY <2>5, <3>1, <3>2, <3>3
  <2> QED
    BY <2>11, <2>12, <2>13 DEF LeftEnd
<1>10. AtsGoWithUrls(t, h, s)
  <2> SUFFICES ASSUME NEW q \in 1..Len(s), s[q].char = "@", ~In(h, t, q),
                      ~Swallowed(t, h, s, 1, q)
               PROVE  \E p \in 1..(q - 1) : s[p].char = Sep /\ \A x \in (p + 1)..q : ~In(h, t, x)
    BY DEF AtsGoWithUrls
  <2>1. ~Swallowed(u, f, s, 1, q) /\ q # 0 /\ q \in Nat
    BY <1>2, <1>6
  <2>2. ~In(f, u, q)
    <3> SUFFICES ASSUME In(f, u, q) PROVE FALSE
      OBVIOUS
    <3>1. PICK y \in 1..Len(u) : f[y] = q
      BY DEF In
    <3>2. u[y].char = "@"
      BY <1>2, <2>1, <3>1
    <3>3. In(g, t, y)
      BY <1>7, <3>2 DEF OnlyHexGoes
    <3> QED
      BY <1>5, <2>1, <3>1, <3>3
  <2>3. PICK p \in 1..(q - 1) : s[p].char = Sep /\ \A x \in (p + 1)..q : ~In(f, u, x)
    BY <2>1, <2>2 DEF StringFacts, AtsGoWithUrls
  <2>4. \A x \in (p + 1)..q : x # 0
    BY <2>1
  <2> QED
    BY <1>5, <2>3, <2>4
<1> QED
  BY <1>4, <1>8, <1>9, <1>10 DEF StringFacts

LEMMA RedactedFacts ==
    ASSUME NEW s \in Seq(Sym)
    PROVE  \E f : StringFacts(RedactString(s), f, s)
<1> DEFINE a == RedactValues(s)
           b == RedactUrlUserinfo(a)
           c == RedactShapes(b)
<1>1. PICK f : Traces(a, f, s, 1) /\ OnlyValuesGo(a, f, s, 1)
  BY ValueTraces
<1>2. a \in Seq(Sym)
  BY <1>1 DEF Traces
<1> HIDE DEF a
<1>3. PICK g : UrlFacts(b, g, a, 1)
  BY <1>2, UrlTraces
<1>4. b \in Seq(Sym)
  BY <1>3 DEF UrlFacts, Traces
<1> HIDE DEF b
<1>5. PICK h : StringFacts(b, h, s)
  BY <1>1, <1>3, ValuesThenUrls
<1>6. PICK l : Traces(c, l, b, 1) /\ OnlyHexGoes(c, l, b, 1)
  BY <1>4, ShapeTraces
<1> HIDE DEF c
<1>7. \E k : StringFacts(c, k, s)
  BY <1>5, <1>6, ThenShapes
<1> QED
  BY <1>7 DEF a, b, c, RedactString

-----------------------------------------------------------------------------
\* Where a value can stand.


\* No value stands over m.
Untouched(s, m) ==
    \A v \in Values : \A j \in 1..m : ~(StandsAt(v, s, j) /\ m \in j..(j + Len(v) - 1))

LEMMA UntouchedStays ==
    ASSUME NEW s, NEW m, Untouched(s, m), NEW t, NEW f
    PROVE  ~Swallowed(t, f, s, 1, m)
BY DEF Untouched, Swallowed

\* A value that is still there stands where it stood.
LEMMA ValueStretch ==
    ASSUME NEW s \in Seq(Sym), NEW t, NEW f, Traces(t, f, s, 1),
           NEW v \in Values, NEW j \in 1..Len(t), StandsAt(v, t, j)
    PROVE  /\ f[j] \in 1..Len(s) /\ StandsAt(v, s, f[j])
           /\ \A x \in 0..(Len(v) - 1) : f[j + x] = f[j] + x
<1> DEFINE n == Len(v)
           S == {x \in 0..(n - 1) : f[j + x] = f[j] + x}
<1>1. /\ t \in Seq(Sym) /\ Len(t) \in Nat /\ Len(s) \in Nat
      /\ \A k \in 1..Len(t) : f[k] \in 0..Len(s)
      /\ \A k \in 1..Len(t) : f[k] # 0 => t[k] = s[f[k]]
      /\ \A k \in 1..Len(t) : f[k] = 0 => t[k].char \in Marks
  BY TraceBounds
<1>2. n \in Nat /\ n >= 1 /\ DOMAIN v = 1..n /\ \A k \in 1..n : v[k] \notin Marks
  BY ValuesArePlain DEF Plain
<1>3. j + n - 1 <= Len(t) /\ \A k \in 1..n : t[j + k - 1].char = v[k]
  BY <1>2 DEF StandsAt
<1>4. ASSUME NEW x \in 0..(n - 1)
      PROVE  j + x \in 1..Len(t) /\ f[j + x] \in 1..Len(s) /\ s[f[j + x]].char = v[x + 1]
  <2>1. j + x \in 1..Len(t) /\ x + 1 \in 1..n /\ j + (x + 1) - 1 = j + x
    BY <1>1, <1>2, <1>3
  <2>2. t[j + x].char = v[x + 1] /\ v[x + 1] \notin Marks
    BY <1>2, <1>3, <2>1
  <2>3. f[j + x] # 0 /\ f[j + x] \in 0..Len(s)
    BY <1>1, <2>1, <2>2
  <2>4. f[j + x] \in 1..Len(s)
    BY <1>1, <2>3
  <2> QED
    BY <1>1, <2>1, <2>2, <2>3, <2>4
<1>5. ASSUME NEW x \in 0..(n - 1), \A y \in 0..(x - 1) : y \in S PROVE x \in S
  <2>1. CASE x = 0
    <3>1. j + 0 = j /\ f[j] \in 1..Len(s)
      BY <1>2, <1>4, <2>1
    <3> QED
      BY <2>1, <3>1
  <2>2. CASE x # 0
    <3>1. x - 1 \in 0..(x - 1) /\ x - 1 \in 0..(n - 1) /\ 0 \in 0..(n - 1) /\ j + 0 = j
      BY <1>2, <2>2
    <3>2. f[j + (x - 1)] = f[j] + (x - 1)
      BY <1>5, <3>1
    <3>3. /\ j + x \in 1..(Len(t) + 1) /\ j + (x - 1) \in 1..(Len(t) + 1)
          /\ j + x = (j + (x - 1)) + 1
      BY <1>1, <1>4, <3>1
    <3>4. f[j + x] \in 1..Len(s) /\ f[j + (x - 1)] \in 1..Len(s) /\ f[j] \in 1..Len(s)
      BY <1>4, <3>1
    <3>5. Runs(f, Len(t) + 1) /\ f[j + x] # 0 /\ f[j + (x - 1)] # 0
      BY <3>4 DEF Traces, Grows
    <3>6. f[j + x] = f[j + (x - 1)] + 1
      BY ONLY <3>3, <3>5 DEF Runs
    <3>7. f[j + x] = f[j] + x
      BY <3>2, <3>4, <3>6
    <3> QED
      BY <3>7
  <2> QED
    BY <2>1, <2>2
<1>6. \A x \in 0..(n - 1) : f[j + x] = f[j] + x
  <2>1. 0..(n - 1) \subseteq S
    <3>1. 0 \in Nat /\ n - 1 \in Nat
      BY <1>2
    <3> HIDE DEF S, n
    <3> QED
      BY <1>5, <3>1, Upwards
  <2> QED
    BY <2>1
<1>7. f[j] \in 1..Len(s)
  <2>1. 0 \in 0..(n - 1) /\ j + 0 = j
    BY <1>2
  <2> QED
    BY <1>4, <2>1
<1>8. StandsAt(v, s, f[j])
  <2>1. f[j] + n - 1 <= Len(s)
    <3>1. n - 1 \in 0..(n - 1)
      BY <1>2
    <3>2. f[j + (n - 1)] = f[j] + (n - 1) /\ f[j + (n - 1)] \in 1..Len(s)
      BY <1>4, <1>6, <3>1
    <3> QED
      BY <1>2, <1>7, <3>2
  <2>2. ASSUME NEW k \in 1..n PROVE s[f[j] + k - 1].char = v[k]
    <3>1. k - 1 \in 0..(n - 1) /\ (k - 1) + 1 = k /\ f[j] + (k - 1) = f[j] + k - 1
      BY <1>2, <1>7
    <3>2. f[j + (k - 1)] = f[j] + (k - 1) /\ s[f[j + (k - 1)]].char = v[(k - 1) + 1]
      BY <1>4, <1>6, <3>1
    <3> QED
      BY <3>1, <3>2
  <2> QED
    BY <1>2, <2>1, <2>2 DEF StandsAt
<1> QED
  BY <1>6, <1>7, <1>8

\* What the passes leave of what stands between a "://" and an @.
LEMMA BracketGone ==
    ASSUME NEW s \in Seq(Sym), NEW p \in 1..Len(s), NEW q \in 1..Len(s), p < q,
           s[p].char = Sep, s[q].char = "@", Unwhite(s, p, q), Untouched(s, p), Untouched(s, q),
           NEW B, 0 \notin B, \A h \in 1..Len(s) : s[h].at \in B => p < h /\ h < q
    PROVE  Places(RedactString(s)) \intersect B = {}
<1> DEFINE t == RedactString(s)
<1>1. PICK f : StringFacts(t, f, s)
  BY RedactedFacts
<1> HIDE DEF t
<1>2. Traces(t, f, s, 1) /\ t \in Seq(Sym) /\ DOMAIN t = 1..Len(t) /\ Len(s) \in Nat
  BY <1>1 DEF StringFacts, Traces
<1>3. ASSUME NEW k \in 1..Len(t), t[k].at \in B PROVE FALSE
  <2>1. InPlace(s, 1, Len(s), t[k], f[k])
    BY <1>2 DEF Traces
  <2>2. f[k] \in 1..Len(s) /\ t[k] = s[f[k]]
    BY <1>3, <2>1 DEF InPlace
  <2>3. p < f[k] /\ f[k] < q /\ In(f, t, f[k])
    BY <1>3, <2>2 DEF In
  <2>4. ~Swallowed(t, f, s, 1, p) /\ ~Swallowed(t, f, s, 1, q)
    BY UntouchedStays
  <2> QED
    BY <1>1, <2>2, <2>3, <2>4 DEF StringFacts, BracketsGone
<1>4. Places(t) \intersect B = {}
  BY <1>2, <1>3 DEF Places
<1> QED
  BY <1>4 DEF t

\* What is written for the symbols of s: e[m] is where Escape(s, special) has the m-th.
EscapedPlaces(s, special, e) ==
    /\ \A m \in 1..Len(s) : e[m] \in 1..Len(Escape(s, special)) /\ Escape(s, special)[e[m]] = s[m]
    /\ \A m, l \in 1..Len(s) : m < l => e[m] < e[l]
    /\ \A h \in 1..Len(Escape(s, special)) : \/ Escape(s, special)[h] = Symbol("\\")
                                    \/ \E m \in 1..Len(s) : h = e[m]

LEMMA EscapedPlacesExist ==
    ASSUME NEW special, NEW s \in Seq(Sym)
    PROVE  \E e : EscapedPlaces(s, special, e)
<1> DEFINE p == SymbolPieces(s, special)
           R == Escape(s, special)
           n == Len(s)
<1>1. Pieces(Sym, s, p) /\ n \in Nat
  BY SymbolPiecesFit
<1>2. PICK e : Offsets(e, s, p)
  BY <1>1, OffsetsExist
<1>3. /\ Assembled(R, Sym, e, s, p)
      /\ \A i \in 1..n : \A k \in 1..Len(p[i]) :
             IF k = Len(p[i]) THEN p[i][k] = s[i] ELSE p[i][k] = Symbol("\\")
      /\ \A i \in 1..n : Len(p[i]) = IF s[i].char \in special THEN 2 ELSE 1
  BY <1>2, EscapeIs
<1> HIDE DEF p, R
<1>4. Len(R) = e[n] /\ \A k \in 0..n : e[k] \in Nat
  BY <1>2, <1>3 DEF Assembled, Offsets
<1>5. ASSUME NEW m \in 1..n
      PROVE  /\ m - 1 \in 0..n /\ m \in 0..n /\ e[m] = e[m - 1] + Len(p[m])
             /\ Len(p[m]) \in Nat /\ Len(p[m]) >= 1
  BY <1>1, <1>2, <1>3 DEF Offsets
<1>6. ASSUME NEW m \in 1..n PROVE e[m] \in 1..Len(R) /\ R[e[m]] = s[m]
  <2>1. e[m] <= e[n]
    <3>1. m \in 0..Len(s) /\ n \in m..Len(s)
      BY <1>1
    <3> QED
      BY <1>1, <1>2, <3>1, OffsetsGrow
  <2>2. e[m] \in 1..Len(R)
    <3>1. n \in 0..n
      BY <1>1
    <3>2. e[m - 1] \in Nat /\ e[m] \in Nat /\ e[n] \in Nat
      BY <1>4, <1>5, <3>1
    <3> QED
      BY <1>4, <1>5, <2>1, <3>2
  <2>3. Len(p[m]) \in 1..Len(p[m])
    BY <1>5
  <2>4. R[e[m - 1] + Len(p[m])] = p[m][Len(p[m])] /\ p[m][Len(p[m])] = s[m]
    BY <1>3, <2>3 DEF Assembled
  <2> QED
    BY <1>5, <2>2, <2>4
<1>7. ASSUME NEW m \in 1..n, NEW l \in 1..n, m < l PROVE e[m] < e[l]
  <2>1. m \in 0..Len(s) /\ l - 1 \in m..Len(s) /\ l - 1 \in 0..n
    BY <1>1, <1>7
  <2>2. e[m] <= e[l - 1]
    BY <1>1, <1>2, <2>1, OffsetsGrow
  <2>3. e[m] \in Nat /\ e[l - 1] \in Nat
    BY <1>4, <1>5, <2>1
  <2>4. e[l] = e[l - 1] + Len(p[l]) /\ Len(p[l]) \in Nat /\ Len(p[l]) >= 1
    BY <1>5
  <2> QED
    BY <2>2, <2>3, <2>4
<1>8. ASSUME NEW h \in 1..Len(R) PROVE R[h] = Symbol("\\") \/ \E m \in 1..n : h = e[m]
  <2>1. PICK m \in 1..n : \E k \in 1..Len(p[m]) : h = e[m - 1] + k
    BY <1>1, <1>2, <1>4, <1>8, InAPiece
  <2>2. PICK k \in 1..Len(p[m]) : h = e[m - 1] + k
    BY <2>1
  <2>3. R[h] = p[m][k]
    BY <1>3, <2>2 DEF Assembled
  <2>4. CASE k = Len(p[m])
    BY <1>5, <2>2, <2>4
  <2>5. CASE k # Len(p[m])
    BY <1>3, <2>3, <2>5
  <2> QED
    BY <2>4, <2>5
<1>9. EscapedPlaces(s, special, e)
  BY <1>6, <1>7, <1>8 DEF EscapedPlaces, R
<1> QED
  BY <1>9

\* Something like a URL with userinfo stands from p to q of s, where no value stands over its ends.
Bracket(s, p, q) ==
    /\ p \in 1..Len(s) /\ q \in 1..Len(s) /\ p < q
    /\ s[p].char = Sep /\ s[q].char = "@" /\ Unwhite(s, p, q)

\* Every symbol is where it says.
InOrder(s) == \A h \in 1..Len(s) : s[h].at = h

LEMMA BracketGonePlain ==
    ASSUME NEW s \in Seq(Sym), InOrder(s), NEW i, NEW at, Bracket(s, i, at),
           Untouched(s, i), Untouched(s, at)
    PROVE  Places(RedactString(s)) \intersect (i + 1)..(at - 1) = {}
<1> DEFINE B == (i + 1)..(at - 1)
<1>1. i \in 1..Len(s) /\ at \in 1..Len(s) /\ i < at /\ Len(s) \in Nat
  BY DEF Bracket
<1>2. 0 \notin B /\ \A h \in 1..Len(s) : s[h].at \in B => i < h /\ h < at
  BY <1>1 DEF InOrder
<1>3. s[i].char = Sep /\ s[at].char = "@" /\ Unwhite(s, i, at)
  BY DEF Bracket
<1> HIDE DEF B
<1>4. Places(RedactString(s)) \intersect B = {}
  BY <1>1, <1>2, <1>3, BracketGone
<1> QED
  BY <1>4 DEF B

LEMMA BracketGoneEscaped ==
    ASSUME NEW special, NEW s \in Seq(Sym), InOrder(s), NEW i, NEW at, Bracket(s, i, at),
           \A m \in 1..Len(Escape(s, special)) :
               Escape(s, special)[m].at \in {i, at} => Untouched(Escape(s, special), m)
    PROVE  Places(RedactString(Escape(s, special))) \intersect (i + 1)..(at - 1) = {}
<1> DEFINE B == (i + 1)..(at - 1)
           R == Escape(s, special)
<1>1. i \in 1..Len(s) /\ at \in 1..Len(s) /\ i < at /\ Len(s) \in Nat
  BY DEF Bracket
<1>2. PICK e : EscapedPlaces(s, special, e)
  BY EscapedPlacesExist
<1>3. R \in Seq(Sym)
  BY EscapePlaces
<1>4. /\ \A m \in 1..Len(s) : e[m] \in 1..Len(R) /\ R[e[m]] = s[m]
      /\ \A m, l \in 1..Len(s) : m < l => e[m] < e[l]
      /\ \A h \in 1..Len(R) : R[h] = Symbol("\\") \/ \E m \in 1..Len(s) : h = e[m]
  BY <1>2 DEF EscapedPlaces
<1>5. \A m \in 1..Len(R) : R[m].at \in {i, at} => Untouched(R, m)
  OBVIOUS
<1>6. /\ s[i].char = Sep /\ s[at].char = "@" /\ \A x \in i..at : s[x].char # White
      /\ s[i].at = i /\ s[at].at = at
  BY <1>1 DEF Bracket, Unwhite, InOrder
<1> HIDE DEF R, B
<1>7. Len(R) \in Nat
  BY <1>3
<1> DEFINE p == e[i]
           q == e[at]
<1>8. /\ p \in 1..Len(R) /\ q \in 1..Len(R) /\ p < q
      /\ R[p] = s[i] /\ R[q] = s[at]
  BY <1>1, <1>4
<1>9. Untouched(R, p) /\ Untouched(R, q)
  BY <1>5, <1>6, <1>8
<1>10. Unwhite(R, p, q)
  <2> SUFFICES ASSUME NEW h \in p..q PROVE R[h].char # White
    BY DEF Unwhite
  <2>1. h \in 1..Len(R)
    BY <1>7, <1>8
  <2>2. CASE R[h] = Symbol("\\")
    BY <2>2 DEF Symbol, White
  <2>3. ASSUME NEW m \in 1..Len(s), h = e[m] PROVE R[h].char # White
    <3>1. (m < i => e[m] < p) /\ (at < m => q < e[m])
      BY <1>1, <1>4
    <3>2. p \in Nat /\ q \in Nat /\ p <= h /\ h <= q /\ h \in Nat
      BY <1>7, <1>8
    <3>3. ~(m < i) /\ ~(at < m)
      <4> HIDE DEF p, q
      <4>1. ~(h < p) /\ ~(q < h)
        BY ONLY <3>2
      <4> QED
        BY ONLY <2>3, <3>1, <4>1
    <3>4. m \in i..at
      BY <1>1, <3>3
    <3> QED
      BY <1>4, <1>6, <2>3, <3>4
  <2> QED
    BY <1>4, <2>1, <2>2, <2>3
<1>11. 0 \notin B
  BY <1>1 DEF B
<1>12. ASSUME NEW h \in 1..Len(R), R[h].at \in B PROVE p < h /\ h < q
  <2>1. R[h] # Symbol("\\")
    BY <1>11, <1>12 DEF Symbol
  <2>2. PICK m \in 1..Len(s) : h = e[m]
    BY <1>4, <2>1
  <2>3. R[h] = s[m] /\ s[m].at = m
    BY <1>4, <2>2 DEF InOrder
  <2>4. i < m /\ m < at
    BY <1>1, <1>12, <2>3 DEF B
  <2> QED
    BY <1>1, <1>4, <2>2, <2>4
<1> HIDE DEF p, q
<1>13. Places(RedactString(R)) \intersect B = {}
  <2>1. R[p].char = Sep /\ R[q].char = "@"
    BY <1>6, <1>8
  <2> QED
    BY <1>3, <1>8, <1>9, <1>10, <1>11, <1>12, <2>1, BracketGone
<1> QED
  BY <1>13 DEF B, R

=============================================================================
