--------------------------- MODULE PayloadsProofs ---------------------------
(***************************************************************************)
(* Proofs about what goes through the filters and into the log, for any    *)
(* patterns, rules, texts and values.                                      *)
(***************************************************************************)
EXTENDS Payloads, RedactionProofs

-----------------------------------------------------------------------------
\* The forms of a string.

LEMMA OnwardTyped ==
    ASSUME NEW t \in Texts, NEW step \in Steps
    PROVE  Onward(t, step) \in Texts
<1>1. Noise \in Texts
  BY DEF Noise, Texts
<1>2. Unquote(t) \in Texts
  BY DEF Unquote, Texts
<1>3. t.layers > 0 => [t EXCEPT !.layers = @ - 1] \in Texts
  BY DEF Texts
<1> QED
  BY <1>1, <1>2, <1>3 DEF Onward, Decoded, B64Decode

\* Forms is what its equations say.
LEMMA FormsStep ==
    ASSUME NEW t \in Texts, NEW decode \in Seq(Steps)
    PROVE  /\ Forms(t, decode) \in [0..Len(decode) -> Texts]
           /\ Forms(t, decode)[0] = t
           /\ \A k \in 1..Len(decode) :
                  Forms(t, decode)[k] = Onward(Forms(t, decode)[k - 1], decode[k])
<1> DEFINE n == Len(decode)
           step == [k \in 1..n |-> [u \in Texts |-> Onward(u, decode[k])]]
           Is(g) == g = [k \in 0..n |-> IF k = 0 THEN t ELSE Onward(g[k - 1], decode[k])]
<1>1. n \in Nat /\ \A k \in 1..n : decode[k] \in Steps
  OBVIOUS
<1>2. step \in [1..n -> [Texts -> Texts]]
  BY <1>1, OnwardTyped
<1>3. PICK g : Iterates(g, Texts, n, t, step)
  <2>1. Iterable(Texts, n, t, step)
    BY <1>1, <1>2 DEF Iterable
  <2> QED
    BY ONLY <2>1, Iteration
<1>4. /\ g \in [0..n -> Texts] /\ g[0] = t
      /\ \A k \in 1..n : g[k] = step[k][g[k - 1]]
  <2> HIDE DEF n, step
  <2> QED
    BY <1>3 DEF Iterates
<1>5. Is(g)
  <2>1. ASSUME NEW k \in 1..n PROVE g[k] = Onward(g[k - 1], decode[k])
    <3>1. k - 1 \in 0..n /\ g[k - 1] \in Texts
      BY <1>1, <1>4
    <3> QED
      BY <1>4, <3>1
  <2>2. g = [k \in 0..n |-> g[k]]
    BY <1>4
  <2>3. \A k \in 0..n : k # 0 => k \in 1..n
    BY <1>1
  <2> HIDE DEF n, step
  <2> QED
    BY <1>4, <2>1, <2>2, <2>3
<1>6. Forms(t, decode) = CHOOSE f : Is(f)
  BY DEF Forms
<1> DEFINE F == Forms(t, decode)
<1>7. Is(F)
  <2> HIDE DEF Is
  <2> QED
    BY <1>5, <1>6
<1>8. /\ F[0] = t
      /\ \A k \in 1..n : F[k] = Onward(F[k - 1], decode[k])
  <2> HIDE DEF F
  <2> QED
    BY <1>1, <1>7
<1>9. \A k \in 0..n : F[k] \in Texts
  <2> DEFINE S == {k \in 0..n : F[k] \in Texts}
  <2> HIDE DEF F
  <2>1. 0 \in S
    BY <1>1, <1>8
  <2>2. ASSUME NEW k \in 1..n, k - 1 \in S PROVE k \in S
    BY <1>1, <1>8, <2>2, OnwardTyped
  <2>3. 0..n \subseteq S
    <3> HIDE DEF S, n
    <3> QED
      BY <1>1, <2>1, <2>2, Stepwise
  <2> QED
    BY <2>3
<1> QED
  <2>1. F = [k \in 0..n |-> F[k]]
    <3> HIDE DEF F
    <3> QED
      BY <1>7
  <2> QED
    BY <1>8, <1>9, <2>1

\* What a step does, by what the string is.
LEMMA OnwardCases ==
    ASSUME NEW t \in Texts, NEW step \in Steps
    PROVE  /\ t.layers > 0 /\ step = "url" => Onward(t, step) = t
           /\ t.layers > 0 /\ step # "url" =>
                  \/ Onward(t, step) = [t EXCEPT !.layers = @ - 1]
                  \/ Onward(t, step) = t /\ ~(t.size = "small" /\ Undoes(step, t, t.layers))
           /\ t.layers = 0 /\ step = "url" => Onward(t, step) = Unquote(t)
           /\ t.layers = 0 /\ step # "url" /\ ~t.accident => Onward(t, step) = t
<1>1. Unquote(t) \in Texts
  BY DEF Unquote, Texts
<1>2. t.layers > 0 => [t EXCEPT !.layers = @ - 1] \in Texts
  BY DEF Texts
<1>3. t.layers \in 0..2
  BY DEF Texts
<1>4. CASE step = "url"
  BY <1>1, <1>3, <1>4, FiltersAssumptions DEF Onward, Decoded, Unquote
<1>5. CASE step # "url"
  <2> DEFINE d == B64Decode(t, step = "urlsafe_base64", {"small"})
  <2>1. Onward(t, step) = IF d = None THEN t ELSE d
    BY <1>5 DEF Onward, Decoded
  <2>2. step = "base64" \/ step = "urlsafe_base64"
    BY <1>5 DEF Steps
  <2>3. ASSUME t.layers > 0, t.size = "small", Undoes(step, t, t.layers)
        PROVE  d = [t EXCEPT !.layers = @ - 1]
    BY <2>2, <2>3 DEF B64Decode, Undoes
  <2>4. t.layers > 0 => d \in {None, [t EXCEPT !.layers = @ - 1]}
    BY DEF B64Decode
  <2>5. t.layers = 0 /\ ~t.accident => d = None
    BY <1>3 DEF B64Decode
  <2> HIDE DEF d
  <2> QED
    BY <1>2, <1>3, <1>5, <2>1, <2>3, <2>4, <2>5, FiltersAssumptions
<1> QED
  BY <1>4, <1>5

\* What the decode steps undo in turn is matched after one of them.
LEMMA ExposedIsHit ==
    ASSUME NEW t \in Texts, NEW decode \in Seq(Steps), NEW p \in Patterns,
           Exposed(p, t, decode), t.accident => p \in t.plain
    PROVE  \E k \in 0..Len(decode) : Search(p, Forms(t, decode)[k])
<1> SUFFICES ASSUME \A k \in 0..Len(decode) : ~Search(p, Forms(t, decode)[k]) PROVE FALSE
  OBVIOUS
<1>1. PICK at \in [1..t.layers -> DOMAIN decode] :
          /\ \A l \in 1..t.layers : Undoes(decode[at[l]], t, l)
          /\ \A l, m \in 1..t.layers : l < m => at[m] < at[l]
          /\ \/ p \in t.plain
             \/ p \in t.quoted /\ \E i \in DOMAIN decode :
                    decode[i] = "url" /\ \A l \in 1..t.layers : at[l] < i
  BY DEF Exposed
<1> DEFINE n == Len(decode)
           F == Forms(t, decode)
           Gone(k, u) == \A l \in 1..t.layers : at[l] <= k => u.layers < l
           Kept(k) == /\ F[k].layers <= t.layers
                      /\ Gone(k, F[k])
                      /\ F[k].refused = t.refused
                      /\ t.layers > 0 => F[k].size = "small"
                      /\ F[k].accident => p \in F[k].plain
                      /\ p \in F[k].plain \union F[k].quoted
                      /\ p \in t.plain => p \in F[k].plain
           S == {k \in 0..n : Kept(k)}
<1>2. /\ n \in Nat
      /\ \A k \in 1..n : decode[k] \in Steps
      /\ \A k \in 0..n : F[k] \in Texts
      /\ F[0] = t
      /\ \A k \in 1..n : F[k] = Onward(F[k - 1], decode[k])
  BY FormsStep
<1>3. DOMAIN decode = 1..n
  OBVIOUS
<1> HIDE DEF n, F
<1>4. /\ t.layers \in 0..2
      /\ \A l \in 1..t.layers : at[l] \in 1..n
  BY <1>1, <1>3 DEF Texts
<1>5. Kept(0)
  BY <1>1, <1>2, <1>4 DEF Exposed
<1>6. ASSUME NEW k \in 1..n, Kept(k - 1) PROVE Kept(k)
  <2> DEFINE u == F[k - 1]
  <2>1. k - 1 \in 0..n /\ u \in Texts /\ decode[k] \in Steps /\ F[k] = Onward(u, decode[k])
    BY <1>2
  <2>2. ~Search(p, u)
    BY <2>1 DEF F, n
  <2>3. Kept(k - 1) /\ F[k - 1] = u
    BY <1>6
  <2> HIDE DEF u
  <2>4. u.layers \in 0..2
    BY <2>1 DEF Texts
  <2>5. CASE u.layers > 0
    <3>1. \A l \in 1..t.layers : at[l] = k => u.layers <= l
      <4> SUFFICES ASSUME NEW l \in 1..t.layers, at[l] = k, l < u.layers PROVE FALSE
        BY <1>4, <2>4
      <4>1. l + 1 \in 1..t.layers /\ at[l + 1] < k
        BY <1>1, <1>4, <2>3, <2>4
      <4>2. u.layers < l + 1
        BY <1>4, <2>3, <4>1
      <4> QED
        BY <1>4, <2>4, <4>2
    <3>2. CASE F[k] = [u EXCEPT !.layers = @ - 1]
      <4>1. /\ F[k].layers = u.layers - 1 /\ F[k].size = u.size /\ F[k].accident = u.accident
            /\ F[k].plain = u.plain /\ F[k].quoted = u.quoted /\ F[k].refused = u.refused
        BY <2>1, <3>2 DEF Texts
      <4>2. Gone(k, F[k])
        <5> SUFFICES ASSUME NEW l \in 1..t.layers, at[l] <= k PROVE u.layers - 1 < l
          BY <4>1
        <5>1. CASE at[l] = k
          BY <1>4, <2>4, <3>1, <5>1
        <5>2. CASE at[l] <= k - 1
          BY <1>4, <2>3, <2>4, <5>2
        <5> QED
          BY <1>4, <5>1, <5>2
      <4> QED
        BY <1>4, <2>3, <2>4, <4>1, <4>2
    <3>3. CASE F[k] = u /\ ~(decode[k] # "url" /\ u.size = "small" /\ Undoes(decode[k], u, u.layers))
      <4>1. Gone(k, u)
        <5> SUFFICES ASSUME NEW l \in 1..t.layers, at[l] <= k PROVE u.layers < l
          OBVIOUS
        <5>1. CASE at[l] = k
          <6>1. SUFFICES ASSUME u.layers = l PROVE FALSE
            BY <1>4, <2>4, <3>1, <5>1
          <6>2. u.size = "small" /\ u.refused = t.refused
            BY <1>4, <2>3
          <6>3. Undoes(decode[k], t, l)
            BY <1>1, <5>1
          <6> QED
            BY <3>3, <6>1, <6>2, <6>3 DEF Undoes
        <5>2. CASE at[l] <= k - 1
          BY <1>4, <2>3, <2>4, <5>2
        <5> QED
          BY <1>4, <5>1, <5>2
      <4> QED
        BY <2>3, <3>3, <4>1
    <3> QED
      BY <2>1, <2>5, <3>2, <3>3, OnwardCases
  <2>6. CASE u.layers = 0
    <3>1. p \notin u.plain /\ p \in u.quoted /\ ~u.accident /\ p \notin t.plain
      BY <2>2, <2>3, <2>6 DEF Search
    <3>2. CASE decode[k] = "url"
      <4>1. F[k] = Unquote(u)
        BY <2>1, <2>6, <3>2, OnwardCases
      <4>2. Search(p, F[k])
        BY <2>1, <2>6, <3>1, <4>1 DEF Unquote, Search, Texts
      <4> QED
        BY <4>2 DEF F, n
    <3>3. CASE decode[k] # "url"
      <4>1. F[k] = u
        BY <2>1, <2>6, <3>1, <3>3, OnwardCases
      <4>2. Gone(k, u)
        BY <2>6
      <4> QED
        BY <2>3, <4>1, <4>2
    <3> QED
      BY <3>2, <3>3
  <2> QED
    BY <2>4, <2>5, <2>6
<1>7. \A k \in 0..n : Kept(k)
  <2>1. 0 \in S
    <3> HIDE DEF Kept
    <3> QED
      BY <1>2, <1>5
  <2>2. ASSUME NEW k \in 1..n, k - 1 \in S PROVE k \in S
    <3> HIDE DEF Kept
    <3> QED
      BY <1>2, <1>6, <2>2
  <2>3. 0..n \subseteq S
    <3> HIDE DEF S
    <3> QED
      BY <1>2, <2>1, <2>2, Stepwise
  <2> HIDE DEF Kept
  <2> QED
    BY <2>3
<1>8. \A k \in 0..n : F[k].layers = 0 => p \notin F[k].plain
  BY DEF F, n, Search
<1>9. ASSUME NEW k \in 0..n, \A l \in 1..t.layers : at[l] <= k PROVE F[k].layers = 0
  <2>1. F[k].layers \in 0..2 /\ F[k].layers <= t.layers /\ Gone(k, F[k])
    BY <1>2, <1>7 DEF Texts
  <2>2. F[k].layers > 0 => F[k].layers \in 1..t.layers
    BY <1>4, <2>1
  <2> QED
    BY <1>9, <2>1, <2>2
<1>10. CASE p \in t.plain
  <2>1. n \in 0..n /\ \A l \in 1..t.layers : at[l] <= n
    BY <1>2, <1>4
  <2> QED
    BY <1>7, <1>8, <1>9, <1>10, <2>1
<1>11. CASE p \notin t.plain
  <2>1. PICK i \in 1..n : decode[i] = "url" /\ \A l \in 1..t.layers : at[l] < i
    BY <1>1, <1>3, <1>11
  <2> DEFINE u == F[i - 1]
  <2>2. i - 1 \in 0..n /\ i \in 0..n /\ u \in Texts /\ F[i] = Onward(u, "url")
    BY <1>2, <2>1
  <2>3. u.layers = 0 /\ p \in u.quoted
    <3>1. \A l \in 1..t.layers : at[l] <= i - 1
      BY <1>4, <2>1
    <3>2. F[i - 1].layers = 0
      BY <1>9, <2>2, <3>1
    <3> QED
      BY <1>7, <1>8, <2>2, <3>2
  <2>4. F[i] = Unquote(u)
    <3> HIDE DEF u
    <3> QED
      BY <2>2, <2>3, OnwardCases DEF Steps
  <2>5. F[i].layers = 0 /\ p \in F[i].plain
    <3> HIDE DEF u
    <3>1. F[i] = [u EXCEPT !.plain = @ \union u.quoted, !.quoted = {}]
      BY <2>3, <2>4 DEF Unquote
    <3>2. F[i].layers = u.layers /\ F[i].plain = u.plain \union u.quoted
      BY <2>2, <3>1 DEF Texts
    <3> QED
      BY <2>3, <3>2
  <2> QED
    BY <1>8, <2>2, <2>5
<1> QED
  BY <1>10, <1>11

\* A string that is no base64 is matched on its face, or once it is unquoted.
LEMMA PlainIsHit ==
    ASSUME NEW t \in Texts, NEW rule, rule.decode \in Seq(Steps), rule.pattern \in Patterns,
           t.layers = 0, ~t.accident
    PROVE  Hits(rule, t) <=> \/ rule.pattern \in t.plain
                            \/ /\ rule.pattern \in t.quoted
                               /\ \E i \in DOMAIN rule.decode : rule.decode[i] = "url"
<1> DEFINE decode == rule.decode
           p == rule.pattern
           n == Len(decode)
           F == Forms(t, decode)
           Url == \E i \in DOMAIN decode : decode[i] = "url"
           Like(k) == /\ F[k].layers = 0 /\ ~F[k].accident
                      /\ F[k].quoted \subseteq t.quoted
                      /\ p \in F[k].plain => p \in t.plain \/ (p \in t.quoted /\ Url)
           S == {k \in 0..n : Like(k)}
<1>1. /\ n \in Nat
      /\ \A k \in 1..n : decode[k] \in Steps
      /\ \A k \in 0..n : F[k] \in Texts
      /\ F[0] = t
      /\ \A k \in 1..n : F[k] = Onward(F[k - 1], decode[k])
  BY FormsStep
<1>2. \A k \in 1..n : decode[k] = "url" => Url
  OBVIOUS
<1>3. Hits(rule, t) <=> \E k \in 0..n : Search(p, F[k])
  BY DEF Hits, CandidateStrings
<1>4. ASSUME p \in t.plain \/ (p \in t.quoted /\ Url) PROVE \E k \in 0..n : Search(p, F[k])
  <2>1. \A l \in 1..t.layers : FALSE
    OBVIOUS
  <2>2. [l \in 1..t.layers |-> 1] \in [1..t.layers -> DOMAIN decode]
    BY <2>1
  <2>3. Exposed(p, t, decode)
    BY <1>4, <2>1, <2>2 DEF Exposed
  <2> QED
    BY <2>3, ExposedIsHit
<1> HIDE DEF n, F, Url
<1>5. Like(0)
  BY <1>1
<1>6. ASSUME NEW k \in 1..n, Like(k - 1) PROVE Like(k)
  <2> DEFINE u == F[k - 1]
  <2>1. u \in Texts /\ decode[k] \in Steps /\ F[k] = Onward(u, decode[k])
    BY <1>1
  <2>2. u.layers = 0 /\ ~u.accident
    BY <1>6
  <2>3. CASE decode[k] = "url"
    <3>1. F[k] = [u EXCEPT !.plain = @ \union u.quoted, !.quoted = {}]
      <4> HIDE DEF u
      <4> QED
        BY <2>1, <2>2, <2>3, OnwardCases DEF Unquote
    <3>2. /\ F[k].layers = 0 /\ ~F[k].accident /\ F[k].plain = u.plain \union u.quoted
          /\ F[k].quoted = {}
      <4> HIDE DEF u
      <4> QED
        BY <2>1, <2>2, <3>1 DEF Texts
    <3> QED
      BY <1>2, <1>6, <2>3, <3>2
  <2>4. CASE decode[k] # "url"
    <3>1. F[k] = u
      <4> HIDE DEF u
      <4> QED
        BY <2>1, <2>2, <2>4, OnwardCases
    <3> QED
      BY <1>6, <3>1
  <2> QED
    BY <2>3, <2>4
<1>7. \A k \in 0..n : Like(k)
  <2>1. 0 \in S
    <3> HIDE DEF Like
    <3> QED
      BY <1>1, <1>5
  <2>2. ASSUME NEW k \in 1..n, k - 1 \in S PROVE k \in S
    <3> HIDE DEF Like
    <3> QED
      BY <1>1, <1>6, <2>2
  <2>3. 0..n \subseteq S
    <3> HIDE DEF S
    <3> QED
      BY <1>1, <2>1, <2>2, Stepwise
  <2> HIDE DEF Like
  <2> QED
    BY <2>3
<1>8. ASSUME \E k \in 0..n : Search(p, F[k]) PROVE p \in t.plain \/ (p \in t.quoted /\ Url)
  BY <1>7, <1>8 DEF Search
<1> QED
  BY <1>3, <1>4, <1>8 DEF Url

\* Nothing is found in noise.
LEMMA NoiseIsClean ==
    ASSUME NEW rule, rule.decode \in Seq(Steps), rule.pattern \in Patterns
    PROVE  Noise \in Texts /\ ~Hits(rule, Noise)
<1>1. Noise \in Texts /\ Noise.layers = 0 /\ ~Noise.accident /\ Noise.plain = {} /\ Noise.quoted = {}
  BY DEF Noise, Texts
<1> QED
  BY <1>1, PlainIsHit

\* What is on the face of a string is a hit.
LEMMA SearchIsHit ==
    ASSUME NEW t \in Texts, NEW rule, rule.decode \in Seq(Steps), Search(rule.pattern, t)
    PROVE  Hits(rule, t)
<1>1. Forms(t, rule.decode)[0] = t /\ 0 \in 0..Len(rule.decode)
  BY FormsStep
<1> QED
  BY <1>1 DEF Hits, CandidateStrings

-----------------------------------------------------------------------------
\* The response filter.

LEMMA ApplyRuleCases ==
    ASSUME NEW t \in Texts \union {None}, NEW rule
    PROVE  /\ ApplyRule(rule, None) = None
           /\ ApplyRule(rule, t) \in Texts \union {None}
           /\ ApplyRule(rule, t) # None => t # None
           /\ t \in Texts /\ ApplyRule(rule, t) # None =>
                  \/ ApplyRule(rule, t) = t /\ (rule.action = "warn" \/ ~Hits(rule, t))
                  \/ /\ Search(rule.pattern, t) /\ rule.action = "redact"
                     /\ ApplyRule(rule, t) = Substituted(t, rule.pattern)
                  \/ ApplyRule(rule, t) = Noise
<1>1. ASSUME t \in Texts PROVE Substituted(t, rule.pattern) \in Texts /\ Noise \in Texts /\ t # None
  <2>1. Substituted(t, rule.pattern) \in Texts
    BY <1>1 DEF Substituted, Texts
  <2>2. Noise \in Texts
    BY DEF Noise, Texts
  <2> QED
    BY <1>1, <2>1, <2>2, FiltersAssumptions
<1> QED
  BY <1>1, FiltersAssumptions DEF ApplyRule, Redacted, REDACTED

RespRules == Rules({"block", "warn", "redact"})

\* What the rules leave, one after another.
LEMMA FilterStringStep ==
    ASSUME NEW t \in Texts, NEW rs \in Seq(RespRules)
    PROVE  \E left \in [0..Len(rs) -> Texts \union {None}] :
               /\ left[0] = t
               /\ \A k \in 1..Len(rs) : left[k] = ApplyRule(rs[k], left[k - 1])
               /\ FilterString(rs, t) = left[Len(rs)]
<1> DEFINE n == Len(rs)
           D == Texts \union {None}
           step == [k \in 1..n |-> [u \in D |-> ApplyRule(rs[k], u)]]
           Is(g) == g = [k \in 0..n |-> IF k = 0 THEN t ELSE ApplyRule(rs[k], g[k - 1])]
           F == CHOOSE f : Is(f)
<1>1. n \in Nat /\ t \in D
  OBVIOUS
<1>2. step \in [1..n -> [D -> D]]
  BY ApplyRuleCases
<1>3. PICK g : Iterates(g, D, n, t, step)
  <2>1. Iterable(D, n, t, step)
    <3> HIDE DEF D, n, step
    <3> QED
      BY <1>1, <1>2 DEF Iterable
  <2> QED
    BY ONLY <2>1, Iteration
<1>4. /\ g \in [0..n -> D] /\ g[0] = t
      /\ \A k \in 1..n : g[k] = step[k][g[k - 1]]
  <2> HIDE DEF n, step, D
  <2> QED
    BY <1>3 DEF Iterates
<1>5. Is(g)
  <2>1. ASSUME NEW k \in 1..n PROVE g[k] = ApplyRule(rs[k], g[k - 1])
    <3>1. k - 1 \in 0..n /\ g[k - 1] \in D
      BY <1>1, <1>4
    <3> HIDE DEF D
    <3> QED
      BY <1>4, <3>1
  <2>2. g = [k \in 0..n |-> g[k]]
    BY <1>4
  <2>3. \A k \in 0..n : k # 0 => k \in 1..n
    BY <1>1
  <2> HIDE DEF n, step
  <2> QED
    BY <1>4, <2>1, <2>2, <2>3
<1>6. Is(F)
  <2> HIDE DEF Is
  <2> QED
    BY <1>5
<1>7. FilterString(rs, t) = F[n]
  BY DEF FilterString
<1> HIDE DEF F
<1>8. /\ F = [k \in 0..n |-> F[k]]
      /\ F[0] = t
      /\ \A k \in 1..n : F[k] = ApplyRule(rs[k], F[k - 1])
  BY <1>1, <1>6
<1>9. \A k \in 0..n : F[k] \in D
  <2> DEFINE S == {k \in 0..n : F[k] \in D}
  <2>1. 0 \in S
    BY <1>1, <1>8
  <2>2. ASSUME NEW k \in 1..n, k - 1 \in S PROVE k \in S
    BY <1>1, <1>8, <2>2, ApplyRuleCases
  <2>3. 0..n \subseteq S
    <3> HIDE DEF S, n
    <3> QED
      BY <1>1, <2>1, <2>2, Stepwise
  <2> QED
    BY <2>3
<1> QED
  <2>1. F \in [0..n -> D]
    BY <1>8, <1>9
  <2> QED
    BY <1>7, <1>8, <2>1

\* A string that has passed every rule: none that blocks or redacts finds anything on its face,
\* nor below it, but where it has substituted something or noise has hidden it.
LEMMA PassedIsClean ==
    ASSUME NEW t \in Texts, NEW rs \in Seq(RespRules), FilterString(rs, t) # None,
           NEW i \in 1..Len(rs), rs[i].action \in {"block", "redact"}
    PROVE  /\ ~Search(rs[i].pattern, FilterString(rs, t))
           /\ Hits(rs[i], FilterString(rs, t)) => Search(rs[i].pattern, t) \/ t.accident
<1> DEFINE n == Len(rs)
           p == rs[i].pattern
<1>1. PICK left \in [0..n -> Texts \union {None}] :
          /\ left[0] = t
          /\ \A k \in 1..n : left[k] = ApplyRule(rs[k], left[k - 1])
          /\ FilterString(rs, t) = left[n]
  BY FilterStringStep
<1>2. /\ n \in Nat
      /\ \A k \in 1..n : rs[k].pattern \in Patterns /\ rs[k].decode \in Seq(Steps)
  <2>1. \A k \in 1..n : rs[k] \in RespRules
    OBVIOUS
  <2> QED
    BY <2>1 DEF RespRules, Rules
<1> HIDE DEF n
<1>3. ASSUME NEW k \in 1..n, left[k] # None PROVE left[k - 1] # None
  <2>1. k - 1 \in 0..n
    BY <1>2
  <2> QED
    BY <1>1, <1>3, <2>1, ApplyRuleCases
<1>4. \A k \in 0..n : left[k] \in Texts
  <2> DEFINE S == {k \in 0..n : left[k] # None}
  <2>1. ASSUME NEW k \in 0..n, \A j \in (k + 1)..n : j \in S PROVE k \in S
    <3>1. CASE k = n
      BY <1>1, <1>2, <3>1
    <3>2. CASE k < n
      <4>1. k + 1 \in (k + 1)..n /\ k + 1 \in 1..n /\ (k + 1) - 1 = k
        BY <1>2, <3>2
      <4>2. k + 1 \in S
        BY <2>1, <4>1
      <4> QED
        BY <1>3, <4>1, <4>2
    <3> QED
      BY <1>2, <3>1, <3>2
  <2>2. 0..n \subseteq S
    <3>1. 0 \in Nat
      OBVIOUS
    <3> HIDE DEF S
    <3> QED
      BY <1>2, <2>1, <3>1, Downwards
  <2> QED
    BY <1>1, <2>2
\* A rule leaves a string, takes its pattern from its face, or leaves noise.
<1>5. ASSUME NEW k \in 1..n
      PROVE  /\ left[k - 1] \in Texts /\ left[k] \in Texts
             /\ \/ left[k] = left[k - 1] /\ (rs[k].action = "warn" \/ ~Hits(rs[k], left[k - 1]))
                \/ /\ Search(rs[k].pattern, left[k - 1])
                   /\ left[k] = Substituted(left[k - 1], rs[k].pattern)
                \/ left[k] = Noise
  <2>1. k - 1 \in 0..n /\ k \in 0..n
    BY <1>2
  <2>2. left[k - 1] \in Texts /\ left[k] \in Texts /\ left[k] # None
    BY <1>4, <2>1, FiltersAssumptions
  <2>3. left[k] = ApplyRule(rs[k], left[k - 1])
    BY <1>1
  <2> QED
    BY <2>2, <2>3, ApplyRuleCases
<1>6. ASSUME NEW u \in Texts, NEW q, Search(q, u)
      PROVE  /\ Substituted(u, q) \in Texts
             /\ Substituted(u, q).layers = 0 /\ u.layers = 0 /\ ~Substituted(u, q).accident
             /\ Substituted(u, q).plain = u.plain \ {q} /\ Substituted(u, q).quoted = u.quoted
  BY <1>6 DEF Substituted, Search, Texts
<1>7. /\ Noise.layers = 0 /\ ~Noise.accident /\ Noise.plain = {} /\ Noise.quoted = {}
      /\ ~Search(p, Noise) /\ ~Hits(rs[i], Noise)
  <2>1. i \in 1..n
    BY DEF n
  <2> QED
    BY <1>2, <2>1, NoiseIsClean DEF Noise, Search
\* What is on the face has been there from the start.
<1>8. \A k \in 0..n : /\ Search(p, left[k]) => Search(p, t)
                      /\ left[k].accident => t.accident
  <2> DEFINE S == {k \in 0..n : /\ Search(p, left[k]) => Search(p, t)
                                /\ left[k].accident => t.accident}
  <2>1. 0 \in S
    BY <1>1, <1>2
  <2>2. ASSUME NEW k \in 1..n, k - 1 \in S PROVE k \in S
    <3>1. CASE left[k] = left[k - 1]
      BY <2>2, <3>1
    <3>2. CASE /\ Search(rs[k].pattern, left[k - 1])
               /\ left[k] = Substituted(left[k - 1], rs[k].pattern)
      <4>1. /\ ~left[k].accident /\ left[k - 1].layers = 0
            /\ left[k].plain = left[k - 1].plain \ {rs[k].pattern}
        BY <1>5, <1>6, <3>2
      <4> QED
        BY <2>2, <4>1 DEF Search
    <3>3. CASE left[k] = Noise
      BY <1>7, <3>3
    <3> QED
      BY <1>5, <3>1, <3>2, <3>3
  <2>3. 0..n \subseteq S
    <3> HIDE DEF S
    <3> QED
      BY <1>2, <2>1, <2>2, Stepwise
  <2> QED
    BY <2>3
<1> DEFINE Clean(k) == /\ ~Search(p, left[k])
                       /\ Hits(rs[i], left[k]) => Search(p, t) \/ t.accident
<1>9. i \in 1..n /\ p \in Patterns /\ rs[i].decode \in Seq(Steps)
  BY <1>2 DEF n
<1>10. Clean(i)
  <2>1. CASE left[i] = left[i - 1] /\ ~Hits(rs[i], left[i - 1])
    <3>1. left[i] \in Texts /\ ~Hits(rs[i], left[i])
      BY <1>5, <1>9, <2>1
    <3> QED
      BY <1>9, <3>1, SearchIsHit
  <2>2. CASE Search(p, left[i - 1]) /\ left[i] = Substituted(left[i - 1], p)
    <3>1. p \notin left[i].plain
      BY <1>5, <1>6, <1>9, <2>2
    <3>2. i - 1 \in 0..n
      BY <1>2, <1>9
    <3> QED
      BY <1>8, <2>2, <3>1, <3>2 DEF Search
  <2>3. CASE left[i] = Noise
    BY <1>7, <2>3
  <2> QED
    BY <1>5, <1>9, <2>1, <2>2, <2>3
<1>11. ASSUME NEW k \in (i + 1)..n, Clean(k - 1) PROVE Clean(k)
  <2>1. k \in 1..n /\ k - 1 \in 0..n
    BY <1>2, <1>9
  <2>2. CASE left[k] = left[k - 1]
    BY <1>11, <2>2
  <2>3. CASE /\ Search(rs[k].pattern, left[k - 1])
             /\ left[k] = Substituted(left[k - 1], rs[k].pattern)
    <3> DEFINE u == left[k - 1]
               q == rs[k].pattern
    <3>1. /\ u \in Texts /\ left[k] \in Texts /\ u.layers = 0
          /\ left[k].layers = 0 /\ ~left[k].accident
          /\ left[k].plain = u.plain \ {q} /\ left[k].quoted = u.quoted
      BY <1>5, <1>6, <2>1, <2>3
    <3>2. ~Search(p, left[k])
      <4>1. p \notin u.plain
        BY <1>11, <3>1 DEF Search
      <4> QED
        BY <3>1, <4>1 DEF Search
    <3>3. CASE t.accident \/ Search(p, t)
      BY <3>2, <3>3
    <3>4. CASE ~t.accident /\ ~Search(p, t)
      <4>1. ~u.accident /\ ~Hits(rs[i], u)
        BY <1>8, <1>11, <2>1, <3>4
      <4>2. ~Hits(rs[i], left[k])
        <5> HIDE DEF u
        <5> QED
          BY <1>9, <3>1, <4>1, PlainIsHit
      <4> QED
        BY <3>2, <4>2
    <3> QED
      BY <3>3, <3>4
  <2>4. CASE left[k] = Noise
    BY <1>7, <2>4
  <2> QED
    BY <1>5, <2>1, <2>2, <2>3, <2>4
<1>12. Clean(n)
  <2> DEFINE S == {k \in i..n : Clean(k)}
  <2>1. ASSUME NEW k \in i..n, \A j \in i..(k - 1) : j \in S PROVE k \in S
    <3> HIDE DEF Clean
    <3>1. CASE k = i
      BY <1>2, <1>9, <1>10, <3>1
    <3>2. CASE k > i
      <4>1. k \in (i + 1)..n /\ k - 1 \in i..(k - 1)
        BY <1>2, <1>9, <3>2
      <4> QED
        BY <1>11, <2>1, <4>1
    <3> QED
      BY <1>2, <1>9, <3>1, <3>2
  <2>2. i..n \subseteq S
    <3>1. i \in Nat
      BY <1>9
    <3> HIDE DEF S
    <3> QED
      BY <1>2, <2>1, <3>1, Upwards
  <2>3. n \in i..n
    BY <1>2, <1>9
  <2> HIDE DEF Clean
  <2> QED
    BY <2>2, <2>3
<1>13. FilterString(rs, t) = left[n]
  BY <1>1
<1> QED
  BY <1>12, <1>13

\* What a response that goes out is, place by place.
LEMMA PassedPlaces ==
    ASSUME NEW rs \in RespRuleLists, NEW r \in Responses, NEW d \in FilterResponse(rs, r), d # None
    PROVE  /\ rs = <<>> => d = r
           /\ rs # <<>> => \A p \in DOMAIN r : FilterPlace(rs, p, r[p]) # None
                                              /\ d[p] = FilterPlace(rs, p, r[p])
           /\ "uri" \in DOMAIN r /\ d["uri"] = REDACTED => r["uri"] = REDACTED
<1> DEFINE out == [p \in DOMAIN r |-> FilterPlace(rs, p, r[p])]
<1>1. CASE rs = <<>>
  BY <1>1 DEF FilterResponse
<1>2. CASE rs # <<>>
  <2>1. \A p \in DOMAIN r : out[p] # None
    BY <1>2 DEF FilterResponse
  <2>2. d = out
    BY <1>2, <2>1 DEF FilterResponse
  <2>3. ASSUME "uri" \in DOMAIN r, out["uri"] = REDACTED PROVE r["uri"] = REDACTED
    <3>1. PICK valid \in Revalidations(r["uri"], out["uri"]) : d = IF valid THEN out ELSE None
      BY <1>2, <2>1, <2>3 DEF FilterResponse
    <3>2. valid \in BOOLEAN /\ (r["uri"] # REDACTED => ~valid)
      BY <2>3, <3>1 DEF Revalidations
    <3> QED
      BY <3>1, <3>2
  <2> QED
    BY <1>2, <2>1, <2>2, <2>3
<1> QED
  BY <1>1, <1>2

\* A text blob that goes out holds nothing that a block or redact rule finds.
LEMMA PassedBlob ==
    ASSUME NEW t \in Texts, NEW rs \in Seq(RespRules), BlobPasses(rs, t),
           NEW i \in 1..Len(rs), rs[i].action \in {"block", "redact"}
    PROVE  ~Search(rs[i].pattern, [t EXCEPT !.layers = @ - 1])
<1> DEFINE below == [t EXCEPT !.layers = @ - 1]
<1>1. t.layers \in 0..2 /\ below.layers = t.layers - 1
  BY DEF Texts
<1>2. CASE t.layers = 0
  BY <1>1, <1>2 DEF Search
<1>3. CASE t.layers > 0
  <2>1. below \in Texts
    BY <1>3, SMTT(60) DEF Texts
  <2>2. B64Decode(t, FALSE, {"small", "large"}) = below
    BY <1>3 DEF BlobPasses, B64Decode
  <2> HIDE DEF below
  <2>3. ~Hits(rs[i], below)
    <3>1. i \in DOMAIN rs /\ rs[i].action # "warn"
      OBVIOUS
    <3>2. rs[i].action = "warn" \/ ~Hits(rs[i], B64Decode(t, FALSE, {"small", "large"}))
      BY <3>1 DEF BlobPasses
    <3> QED
      BY <2>2, <3>1, <3>2
  <2>4. rs[i].decode \in Seq(Steps)
    <3>1. rs[i] \in RespRules
      OBVIOUS
    <3> QED
      BY <3>1 DEF RespRules, Rules
  <2>5. ~Search(rs[i].pattern, below)
    BY <2>1, <2>3, <2>4, SearchIsHit
  <2> QED
    BY <2>5 DEF below
<1> QED
  BY <1>1, <1>2, <1>3

-----------------------------------------------------------------------------
\* A call, from its arguments to its audit line.

CallInv ==
    /\ stage \in {"arguments", "tool"} => rules \in ArgRuleLists /\ kwargs \in Arguments
    /\ stage = "tool" => ~ArgumentFilter(rules, kwargs).blocked
    /\ stage = "returned" => rules \in RespRuleLists /\ response \in Responses
    /\ stage \in {"running", "returned", "scopeViolation", "raised", "cancelled", "done"} => executed
    /\ stage # "done" => delivered = None
    /\ stage \notin {"done", "gone"} => audit = <<>>
    /\ stage = "done" => \E line \in {"ok", "tool_error", "scope_violation"} :
                             audit = <<line>> /\ (line = "ok" <=> delivered # None)
    /\ delivered # None => /\ rules \in RespRuleLists /\ response \in Responses
                           /\ delivered \in FilterResponse(rules, response)

LEMMA CallAlways == Spec => []CallInv
<1>1. Init => CallInv
  BY DEF Init, Call, Line, CallInv
<1>2. CallInv /\ [Next]_vars => CallInv'
  <2> SUFFICES ASSUME CallInv, [Next]_vars PROVE CallInv'
    OBVIOUS
  <2> USE DEF CallInv, callVars, lineVars
  <2>1. CASE FilterArguments
    <3>1. /\ stage = "arguments" /\ UNCHANGED callVars
          /\ stage' \in {"refused", "tool"}
          /\ stage' = "tool" => ~ArgumentFilter(rules, kwargs).blocked
      BY <2>1 DEF FilterArguments
    <3>2. ArgumentFilter(rules, kwargs)' = ArgumentFilter(rules, kwargs)
      BY <3>1
    <3> QED
      BY <3>1, <3>2
  <2>2. CASE Handler
    BY <2>2 DEF Handler
  <2>3. CASE HandlerEnds
    BY <2>3 DEF HandlerEnds
  <2>4. CASE Audited
    <3>1. /\ stage = "returned" /\ stage' = "done" /\ audit = <<>> /\ executed' = executed
          /\ audit' = Append(audit, IF delivered' = None THEN "tool_error" ELSE "ok")
          /\ delivered' \in FilterResponse(rules, response)
          /\ rules' = rules /\ response' = response
      BY <2>4 DEF Audited
    <3>2. audit' = IF delivered' = None THEN <<"tool_error">> ELSE <<"ok">>
      BY <3>1
    <3>3. FilterResponse(rules, response)' = FilterResponse(rules, response)
      BY <3>1
    <3> QED
      BY <3>1, <3>2, <3>3
  <2>5. CASE AuditedException
    <3>1. /\ stage \in {"scopeViolation", "raised", "cancelled"} /\ audit = <<>> /\ delivered = None
          /\ UNCHANGED <<rules, kwargs, response, delivered, executed>>
      BY <2>5 DEF AuditedException
    <3>2. CASE stage = "cancelled"
      BY <2>5, <3>1, <3>2 DEF AuditedException
    <3>3. CASE stage # "cancelled"
      <4>1. stage' = "done" /\ audit' \in {<<"scope_violation">>, <<"tool_error">>}
        BY <2>5, <3>1, <3>3 DEF AuditedException
      <4> QED
        BY <3>1, <4>1
    <3> QED
      BY <3>2, <3>3
  <2>6. CASE SanitizeProcessor \/ Factory
    BY <2>6 DEF SanitizeProcessor, Factory
  <2>7. CASE UNCHANGED vars
    <3>1. ArgumentFilter(rules, kwargs)' = ArgumentFilter(rules, kwargs)
          /\ FilterResponse(rules, response)' = FilterResponse(rules, response)
      BY <2>7 DEF vars
    <3> QED
      BY <2>7, <3>1 DEF vars
  <2> QED
    BY <2>1, <2>2, <2>3, <2>4, <2>5, <2>6, <2>7 DEF Next
<1> QED
  BY <1>1, <1>2, PTL DEF Spec

\* arg_filter.py: whatever encodings of whatever depth a block rule undoes, in whatever order, a
\* handler is not called with what it looks for under them.
THEOREM EncodedIsBlocked == Spec => []EncodedIsCaught
<1>1. CallInv => EncodedIsCaught
  <2> SUFFICES ASSUME CallInv, stage = "tool", NEW i \in DOMAIN rules, NEW f \in DOMAIN kwargs,
                      rules[i].action = "block", kwargs[f].kind = "string",
                      rules[i].fields \intersect {"*", f} # {},
                      Exposed(rules[i].pattern, kwargs[f].text, rules[i].decode),
                      kwargs[f].text.accident => rules[i].pattern \in kwargs[f].text.plain
               PROVE  FALSE
    BY DEF EncodedIsCaught
  <2>1. /\ rules[i].pattern \in Patterns /\ rules[i].decode \in Seq(Steps)
    <3>1. rules \in Seq(Rules({"block", "warn"}))
      BY PayloadsAssumptions DEF CallInv
    <3>2. rules[i] \in Rules({"block", "warn"})
      BY <3>1
    <3> QED
      BY <3>2 DEF Rules
  <2>2. kwargs[f].text \in Texts
    <3>1. kwargs \in [DOMAIN kwargs -> [kind : {"string", "nested"}, text : Texts]]
      BY PayloadsAssumptions DEF CallInv
    <3>2. kwargs[f] \in [kind : {"string", "nested"}, text : Texts]
      BY <3>1
    <3> QED
      BY <3>2
  <2>3. Hits(rules[i], kwargs[f].text)
    BY <2>1, <2>2, ExposedIsHit DEF Hits, CandidateStrings
  <2>4. f \in Scanned(rules[i], kwargs)
    BY DEF Scanned, StringFields
  <2>5. i \in RulesHit(rules, "block", kwargs)
    BY <2>3, <2>4 DEF RulesHit, Scan
  <2> QED
    BY <2>5 DEF CallInv, ArgumentFilter
<1> QED
  BY <1>1, CallAlways, PTL

\* response_filter.py: nothing that a block or redact rule matches goes out on the face of a
\* string, nor below it but where the same rule has substituted something or noise has hidden it;
\* payloads go out as they came, text blobs only if nothing matches them.
THEOREM NothingMatchedGoesOut == Spec => []NothingMatchedDelivered
<1>1. CallInv => NothingMatchedDelivered
  <2> SUFFICES ASSUME CallInv, delivered # None PROVE NothingMatchedDelivered
    BY DEF NothingMatchedDelivered
  <2>1. /\ rules \in RespRuleLists /\ response \in Responses
        /\ delivered \in FilterResponse(rules, response)
    BY DEF CallInv
  <2>2. rules \in Seq(RespRules) /\ DOMAIN rules = 1..Len(rules)
    BY <2>1, PayloadsAssumptions DEF RespRules
  <2>3. \A p \in DOMAIN response : response[p] \in Texts
    BY <2>1, PayloadsAssumptions
  <2>4. ASSUME NEW p \in DOMAIN response \intersect {"leaf", "uri"}, NEW i \in DOMAIN rules,
               rules[i].action \in {"block", "redact"}
        PROVE  /\ ~Search(rules[i].pattern, delivered[p])
               /\ Hits(rules[i], delivered[p]) =>
                      Search(rules[i].pattern, response[p]) \/ response[p].accident
    <3>1. rules # <<>> /\ i \in 1..Len(rules)
      BY <2>2, <2>4
    <3>2. /\ delivered[p] = FilterString(rules, response[p])
          /\ FilterString(rules, response[p]) # None
      BY <2>1, <2>4, <3>1, PassedPlaces DEF FilterPlace
    <3> QED
      BY <2>2, <2>3, <2>4, <3>1, <3>2, PassedIsClean
  <2>5. ASSUME NEW p \in DOMAIN response \intersect {"textBlob", "payload"}
        PROVE  /\ delivered[p] = response[p]
               /\ rules # <<>> /\ p = "textBlob" => BlobPasses(rules, response[p])
    BY <2>1, PassedPlaces DEF FilterPlace
  <2>6. ASSUME "textBlob" \in DOMAIN response, NEW i \in DOMAIN rules,
               rules[i].action \in {"block", "redact"}
        PROVE  ~Search(rules[i].pattern, [response["textBlob"] EXCEPT !.layers = @ - 1])
    <3>1. rules # <<>> /\ i \in 1..Len(rules)
      BY <2>2
    <3>2. BlobPasses(rules, response["textBlob"])
      BY <2>5, <2>6, <3>1
    <3> QED
      BY <2>2, <2>3, <2>6, <3>1, <3>2, PassedBlob
  <2>7. "uri" \in DOMAIN response /\ delivered["uri"] = REDACTED => response["uri"] = REDACTED
    BY <2>1, PassedPlaces
  <2> QED
    BY <2>4, <2>5, <2>6, <2>7 DEF NothingMatchedDelivered
<1> QED
  BY <1>1, CallAlways, PTL

\* audit.py, audited: one audit line for every call that has run to its end, and "ok" in it just if
\* the client has got the response.
THEOREM EveryEndIsLogged == Spec => []ExecutedIsLogged
<1>1. CallInv => ExecutedIsLogged
  BY DEF CallInv, ExecutedIsLogged
<1> QED
  BY <1>1, CallAlways, PTL

-----------------------------------------------------------------------------
\* What a line has been made of.
LineInv ==
    /\ stage \in {"field", "record", "rendered", "written"} => source \in Strings
    /\ stage \in {"field", "rendered"} => where \in Positions
    /\ stage = "record" => where = "record"
    /\ where = "record" => source \in Strings /\ parts \in RecordsOf(source)
    /\ stage = "rendered" => shown = Json(Sanitize(where, source))
    /\ stage = "written" =>
           IF where = "record" THEN shown = RedactRecord(parts.msg, parts.args, parts.plain, None)
           ELSE /\ where \in Positions
                /\ shown = RedactRecord(Json(Sanitize(where, source)), <<>>, TRUE, None)

LEMMA LineAlways == Spec => []LineInv
<1>0. "record" \notin Positions
  BY PayloadsAssumptions
<1>1. Init => LineInv
  BY <1>0 DEF Init, Call, Line, LineInv
<1>2. LineInv /\ [Next]_vars => LineInv'
  <2> SUFFICES ASSUME LineInv, [Next]_vars PROVE LineInv'
    OBVIOUS
  <2>1. CASE FilterArguments \/ Handler \/ HandlerEnds \/ Audited \/ AuditedException
    <3>1. UNCHANGED lineVars /\ stage' \notin {"field", "record", "rendered", "written"}
      BY <2>1 DEF FilterArguments, Handler, HandlerEnds, Audited, AuditedException
    <3> QED
      BY <3>1 DEF LineInv, lineVars
  <2>2. CASE SanitizeProcessor
    <3>1. /\ stage = "field" /\ stage' = "rendered"
          /\ shown' = Json(Sanitize(where, source))
          /\ source' = source /\ where' = where /\ parts' = parts
      BY <2>2 DEF SanitizeProcessor
    <3>2. Json(Sanitize(where, source))' = Json(Sanitize(where, source))
      BY <3>1
    <3>3. RecordsOf(source)' = RecordsOf(source)
      BY <3>1
    <3> QED
      BY <3>1, <3>2, <3>3 DEF LineInv
  <2>3. CASE Factory
    <3>1. /\ stage \in {"rendered", "record"} /\ stage' = "written"
          /\ shown' = IF stage = "rendered" THEN RedactRecord(shown, <<>>, TRUE, None)
                      ELSE RedactRecord(parts.msg, parts.args, parts.plain, None)
          /\ source' = source /\ where' = where /\ parts' = parts
      BY <2>3 DEF Factory
    <3>2. Json(Sanitize(where, source))' = Json(Sanitize(where, source))
      BY <3>1
    <3>3. RecordsOf(source)' = RecordsOf(source)
      BY <3>1
    <3>4. CASE stage = "rendered"
      <4>1. where \in Positions /\ where # "record" /\ shown = Json(Sanitize(where, source))
        BY <1>0, <3>4 DEF LineInv
      <4>2. shown' = RedactRecord(Json(Sanitize(where, source)), <<>>, TRUE, None)
        BY <3>1, <3>4, <4>1
      <4> QED
        BY <3>1, <3>2, <3>4, <4>1, <4>2 DEF LineInv
    <3>5. CASE stage = "record"
      <4>1. where = "record"
        BY <3>5 DEF LineInv
      <4>2. shown' = RedactRecord(parts.msg, parts.args, parts.plain, None)
        BY <3>1, <3>5
      <4> QED
        BY <3>1, <3>3, <3>5, <4>1, <4>2 DEF LineInv
    <3> QED
      BY <3>1, <3>4, <3>5
  <2>4. CASE UNCHANGED vars
    BY <2>4 DEF LineInv, vars, lineVars
  <2> QED
    BY <2>1, <2>2, <2>3, <2>4 DEF Next
<1> QED
  BY <1>1, <1>2, PTL DEF Spec

\* A string that gets into a log, and what _sanitize_value makes of it.
LEMMA StringsTyped ==
    ASSUME NEW s \in Strings
    PROVE  s \in Seq(Sym) /\ \A h \in 1..Len(s) : s[h].at = h
<1>1. s \in Seq([char : STRING, at : Nat]) /\ \A i \in DOMAIN s : s[i].at = i
  BY PayloadsAssumptions
<1>2. [char : STRING, at : Nat] \subseteq Sym
  BY DEF Sym, Char
<1>3. s \in Seq(Sym)
  BY ONLY <1>1, <1>2, SeqMonotonic
<1> QED
  BY <1>1, <1>3

LEMMA SanitizedTyped ==
    ASSUME NEW s \in Seq(Sym), NEW w \in Positions
    PROVE  Sanitize(w, s) \in Seq(Sym)
<1>1. w \in {"preserved", "sensitive", "key", "object", "value"}
  BY PayloadsAssumptions
<1>2. CASE w = "preserved"
  BY <1>2 DEF Sanitize
<1>3. CASE w = "sensitive"
  <2>1. Symbol("<redacted>") \in Sym
    BY MarkTyped DEF Marks
  <2>2. Sanitize(w, s) = <<Symbol("<redacted>")>>
    BY <1>3 DEF Sanitize
  <2> QED
    BY <2>1, <2>2
<1>4. CASE w = "key"
  BY <1>4, RedactedIsClean DEF Sanitize
<1>5. CASE w = "object"
  <2>1. SanitizeString(Repr(s)) \in Seq(Sym)
    BY EscapePlaces, SanitizedPlaces DEF Repr
  <2> QED
    BY <1>5, <2>1 DEF Sanitize
<1>6. CASE w = "value"
  BY <1>6, SanitizedPlaces DEF Sanitize
<1> QED
  BY <1>1, <1>2, <1>3, <1>4, <1>5, <1>6

LEMMA RecordsTyped ==
    ASSUME NEW s \in Seq(Sym), NEW r \in RecordsOf(s)
    PROVE  r.msg \in Seq(Sym) /\ r.args \in Seq(Seq(Sym)) /\ r.plain \in BOOLEAN
<1>0. Len(s) \in Nat /\ DOMAIN s = 1..Len(s) /\ \A k \in 1..Len(s) : s[k] \in Sym
  OBVIOUS
<1>1. CASE r = [msg |-> s, args |-> <<>>, plain |-> TRUE]
  BY <1>1
<1>2. ASSUME NEW i \in 1..Len(s), NEW j \in i..Len(s), NEW p \in BOOLEAN, r = Cut(s, i, j, p)
      PROVE  r.msg \in Seq(Sym) /\ r.args \in Seq(Seq(Sym)) /\ r.plain \in BOOLEAN
  <2> DEFINE a == SubSeq(s, 1, i - 1)
             b == SubSeq(s, i, j)
             c == SubSeq(s, j + 1, Len(s))
             h == <<Symbol(Hole)>>
  <2>1. /\ 1 \in Int /\ i \in Int /\ i - 1 \in Int /\ j \in Int /\ j + 1 \in Int /\ Len(s) \in Int
        /\ \A k \in 1..(i - 1) : s[k] \in Sym
        /\ \A k \in i..j : s[k] \in Sym
        /\ \A k \in (j + 1)..Len(s) : s[k] \in Sym
    BY <1>0
  <2>2. a \in Seq(Sym) /\ b \in Seq(Sym) /\ c \in Seq(Sym)
    BY ONLY <2>1, SubSeqProperties
  <2>3. h \in Seq(Sym)
    <3>1. Symbol(Hole) \in Sym
      BY DEF Symbol, Sym, Char
    <3> QED
      BY <3>1
  <2>4. r = [msg |-> a \o h \o c, args |-> <<b>>, plain |-> p]
    BY <1>2 DEF Cut
  <2> HIDE DEF a, b, c, h
  <2>5. a \o h \in Seq(Sym)
    BY ONLY <2>2, <2>3, ConcatProperties
  <2>6. (a \o h) \o c \in Seq(Sym)
    BY ONLY <2>2, <2>5, ConcatProperties
  <2>7. <<b>> \in Seq(Seq(Sym))
    BY <2>2
  <2> QED
    BY <2>4, <2>6, <2>7
<1> QED
  BY <1>1, <1>2 DEF RecordsOf

\* A value is escaped in the same way by what is special to the same characters of it.
LEMMA EscapedAlike ==
    ASSUME NEW v \in Seq(Char), NEW a, NEW b, \A c \in Chars(v) : c \in a <=> c \in b
    PROVE  EscapeChars(v, a) = EscapeChars(v, b)
<1>1. \A i \in DOMAIN v : v[i] \in a <=> v[i] \in b
  BY DEF Chars
<1>2. CharPieces(v, a) = CharPieces(v, b)
  BY <1>1 DEF CharPieces
<1> QED
  BY <1>2, CharPiecesFit

\* audit.py, configure_value_redaction: what repr() writes for a value in a string is what the
\* set has, unless it quotes the value otherwise there.
LEMMA QuotedAlike ==
    ASSUME NEW v \in Seq(Char), NEW chars, Chars(v) \subseteq chars, ~QuotedOtherwise(v, chars)
    PROVE  EscapeChars(v, ReprEscaped(chars)) = EscapeChars(v, ReprEscaped(Chars(v)))
<1> DEFINE single == "'"
           double == "\""
<1>1. \A cs : ReprEscaped(cs) =
          {"\\"} \union (IF {single, double} \subseteq cs THEN {single} ELSE {})
  BY DEF ReprEscaped
<1>2. single \notin Chars(v) \/ double \notin chars \/ double \in Chars(v)
  BY DEF QuotedOtherwise
<1> HIDE DEF single, double
<1>3. \A c \in Chars(v) : c \in ReprEscaped(chars) <=> c \in ReprEscaped(Chars(v))
  BY <1>1, <1>2
<1> QED
  BY <1>3, EscapedAlike

LEMMA FormsAreValues == WrittenForms \subseteq Values
<1>1. ASSUME NEW v \in Redactable
      PROVE  /\ v \in Values /\ EscapeChars(v, JsonEscaped) \in Values
             /\ EscapeChars(v, ReprEscaped(Chars(v))) \in Values
  BY DEF Values
<1>2. ASSUME NEW v \in Redactable, NEW more, ~QuotedOtherwise(v, more)
      PROVE  EscapeChars(v, ReprEscaped(Chars(v) \union more)) \in Values
  <2>1. ~QuotedOtherwise(v, Chars(v) \union more)
    BY <1>2 DEF QuotedOtherwise
  <2>2. v \in Seq(Char)
    BY <1>1, ValuesArePlain DEF Plain
  <2> QED
    BY <1>1, <2>1, <2>2, QuotedAlike
<1>3. ASSUME NEW form \in WrittenForms PROVE form \in Values
  <2>1. CASE form \in Redactable \/ \E v \in Redactable : form = EscapeChars(v, JsonEscaped)
    BY <1>1, <2>1
  <2>2. ASSUME NEW v \in Redactable, NEW more, ~QuotedOtherwise(v, more),
               form = EscapeChars(v, ReprEscaped(Chars(v) \union more))
        PROVE  form \in Values
    BY <1>2, <2>2
  <2> QED
    BY <2>1, <2>2 DEF WrittenForms
<1> QED
  BY <1>3

\* audit.py: whatever a line is made of, and whatever the logging call put together for it,
\* it is written without a value that counts, plain or as JSON or repr() have it, unless repr()
\* quotes it otherwise than alone.
THEOREM NoValueIsWritten == Spec => []NothingHeldInLog
<1>1. LineInv => NothingHeldInLog
  <2> SUFFICES ASSUME LineInv, stage = "written", shown # None
               PROVE  \A v \in WrittenForms : \A i \in DOMAIN shown : ~StandsAt(v, shown, i)
    BY DEF NothingHeldInLog
  <2>1. source \in Strings /\ source \in Seq(Sym)
    BY StringsTyped DEF LineInv
  <2>2. shown \in Seq(Sym) /\ Valueless(shown)
    <3>1. CASE where = "record"
      <4>1. shown = RedactRecord(parts.msg, parts.args, parts.plain, None)
        BY <3>1 DEF LineInv
      <4>2. parts.msg \in Seq(Sym) /\ parts.args \in Seq(Seq(Sym)) /\ parts.plain \in BOOLEAN
        BY <2>1, <3>1, RecordsTyped DEF LineInv
      <4> QED
        BY <4>1, <4>2, RecordIsClean
    <3>2. CASE where # "record"
      <4>1. where \in Positions /\ shown = RedactString(Json(Sanitize(where, source)))
        BY <3>2, RecordAlone DEF LineInv
      <4>2. Json(Sanitize(where, source)) \in Seq(Sym)
        BY <2>1, <4>1, SanitizedTyped, EscapePlaces DEF Json
      <4> QED
        BY <4>1, <4>2, RedactedIsClean
    <3> QED
      BY <3>1, <3>2
  <2>3. DOMAIN shown = 1..Len(shown)
    BY <2>2
  <2> QED
    BY <2>2, <2>3, FormsAreValues DEF Valueless
<1> QED
  BY <1>1, LineAlways, PTL

\* A value that nothing else has begun to redact goes with all its symbols, as it is or escaped.
LEMMA ValueGoneAsItIs ==
    ASSUME NEW s \in Strings, NEW v \in Redactable,
           NEW i \in 1..Len(s), StandsAt(v, s, i),
           \A w \in Values : \A j, h \in DOMAIN s :
               ~(StandsAt(w, s, j) /\ h \in j..(j + Len(w) - 2) /\ s[h].at = i - 1 /\ i > 1)
    PROVE  Places(RedactValues(s)) \intersect i..(i + Len(v) - 1) = {}
<1> DEFINE b == i + Len(v) - 1
           B == i..b
<1>1. s \in Seq(Sym) /\ \A h \in 1..Len(s) : s[h].at = h
  BY StringsTyped
<1>2. v \in Values
  BY DEF Values
<1>3. Len(v) \in Nat /\ Len(v) >= 1 /\ i \in Nat /\ i >= 1 /\ Len(s) \in Nat /\ DOMAIN s = 1..Len(s)
  BY <1>1, <1>2, ValuesArePlain DEF Plain
<1>4. b <= Len(s)
  BY DEF StandsAt
<1>5. b \in i..Len(s) /\ Len(v) = b - i + 1 /\ B \in SUBSET (Nat \ {0})
  BY <1>3, <1>4
<1>6. \A h \in 1..Len(s) : s[h].at \in B => h \in i..b
  BY <1>1
<1>7. Free(s, i)
  <2> SUFFICES ASSUME NEW w \in Values, NEW j \in 1..(i - 1), StandsAt(w, s, j), j + Len(w) > i
               PROVE  FALSE
    BY DEF Free
  <2>1. Len(w) \in Nat
    BY ValuesArePlain DEF Plain
  <2>2. /\ j \in DOMAIN s /\ i - 1 \in DOMAIN s /\ i - 1 \in j..(j + Len(w) - 2)
        /\ s[i - 1].at = i - 1 /\ i > 1
    BY <1>1, <1>3, <2>1
  <2> QED
    BY <2>2
<1> HIDE DEF b, B
<1>8. Places(RedactValues(s)) \intersect B = {}
  BY <1>1, <1>2, <1>5, <1>6, <1>7, ValueGone
<1> QED
  BY <1>8 DEF b, B

LEMMA ValueGoneEscaped ==
    ASSUME NEW special, NEW s \in Strings,
           NEW v \in Redactable, EscapeChars(v, special) \in Values,
           NEW i \in 1..Len(s), StandsAt(v, s, i),
           \A w \in Values : \A j, h \in DOMAIN Escape(s, special) :
               ~(/\ StandsAt(w, Escape(s, special), j) /\ h \in j..(j + Len(w) - 2)
                 /\ Escape(s, special)[h].at = i - 1 /\ i > 1)
    PROVE  Places(RedactValues(Escape(s, special))) \intersect i..(i + Len(v) - 1) = {}
<1> DEFINE B == i..(i + Len(v) - 1)
           R == Escape(s, special)
           w == EscapeChars(v, special)
<1>1. s \in Seq(Sym) /\ \A h \in 1..Len(s) : s[h].at = h
  BY StringsTyped
<1>2. v \in Values /\ w \in Values /\ v \in Plain
  BY ValuesArePlain DEF Values
<1>3. PICK a, b : EscapedStands(s, special, v, i, a, b)
  BY <1>1, <1>2, EscapedValue
<1>4. /\ a \in 1..Len(R) /\ b \in a..Len(R) /\ StandsAt(w, R, a) /\ Len(w) = b - a + 1
      /\ \A h \in 1..Len(R) : R[h].at \in B => h \in a..b
      /\ i > 1 => a > 1 /\ R[a - 1].at = i - 1
      /\ i = 1 => a = 1
  BY <1>3 DEF EscapedStands
<1>5. R \in Seq(Sym)
  BY <1>1, EscapePlaces
<1> HIDE DEF R, w
<1>6. Len(R) \in Nat /\ DOMAIN R = 1..Len(R) /\ i \in Nat /\ i >= 1 /\ Len(v) \in Nat
  BY <1>2, <1>5 DEF Plain
<1>7. B \in SUBSET (Nat \ {0})
  BY <1>6
<1>8. Free(R, a)
  <2> SUFFICES ASSUME NEW x \in Values, NEW j \in 1..(a - 1), StandsAt(x, R, j), j + Len(x) > a
               PROVE  FALSE
    BY DEF Free
  <2>1. Len(x) \in Nat /\ a \in Nat /\ a > 1 /\ i > 1
    BY <1>4, <1>6, ValuesArePlain DEF Plain
  <2>2. j \in DOMAIN R /\ a - 1 \in DOMAIN R /\ a - 1 \in j..(j + Len(x) - 2)
    BY <1>4, <1>6, <2>1
  <2>3. R[a - 1].at = i - 1
    BY <1>4, <2>1
  <2> QED
    BY <2>1, <2>2, <2>3 DEF R
<1> HIDE DEF B
<1>9. Places(RedactValues(R)) \intersect B = {}
  BY <1>2, <1>4, <1>5, <1>7, <1>8, ValueGone
<1> QED
  BY <1>9 DEF B, R

LEMMA ValueChars ==
    ASSUME NEW s \in Seq(Sym), NEW v \in Redactable, NEW i \in 1..Len(s), StandsAt(v, s, i)
    PROVE  Chars(v) \subseteq CharsOf(s)
<1>1. v \in Seq(Char) /\ Len(v) \in Nat /\ DOMAIN v = 1..Len(v)
  BY ValuesArePlain DEF Values, Plain
<1>2. DOMAIN s = 1..Len(s) /\ Len(s) \in Nat
  OBVIOUS
<1>3. ASSUME NEW k \in DOMAIN v PROVE v[k] \in CharsOf(s)
  <2>1. i + k - 1 \in 1..Len(s) /\ s[i + k - 1].char = v[k]
    BY <1>1, <1>2 DEF StandsAt
  <2> QED
    BY <1>2, <2>1 DEF CharsOf
<1> QED
  BY <1>3 DEF Chars

\* audit.py: no part of a value is left of it in a field of an event, wherever that is cut and
\* whatever else is found in it, unless a value that begins before it reaches into it, or repr()
\* quotes it otherwise there than alone.
THEOREM NoPartIsWritten == Spec => []WholeValueGoes
<1>1. LineInv => WholeValueGoes
  <2> SUFFICES ASSUME LineInv, stage = "written", where # "record",
                      NEW v \in Redactable,
                      NEW i \in DOMAIN source, StandsAt(v, source, i),
                      ~(where = "object" /\ QuotedOtherwise(v, CharsOf(source))),
                      ~\E w \in Values : \E j, h \in DOMAIN Seen :
                          /\ StandsAt(w, Seen, j) /\ h \in j..(j + Len(w) - 2)
                          /\ Seen[h].at = i - 1 /\ i > 1
               PROVE  Places(shown) \intersect i..(i + Len(v) - 1) = {}
    BY DEF WholeValueGoes
  <2> DEFINE B == i..(i + Len(v) - 1)
  <2>1. /\ source \in Strings /\ source \in Seq(Sym) /\ i \in 1..Len(source)
        /\ where \in Positions /\ shown = RedactString(Json(Sanitize(where, source)))
    <3>1. source \in Strings /\ where \in Positions
      BY DEF LineInv
    <3>2. source \in Seq(Sym)
      BY <3>1, StringsTyped
    <3>3. shown = RedactRecord(Json(Sanitize(where, source)), <<>>, TRUE, None)
      BY DEF LineInv
    <3>4. RedactRecord(Json(Sanitize(where, source)), <<>>, TRUE, None)
              = RedactString(Json(Sanitize(where, source)))
      BY ONLY RecordAlone
    <3>5. DOMAIN source = 1..Len(source)
      BY <3>2
    <3> QED
      BY <3>1, <3>2, <3>3, <3>4, <3>5
  <2>2. Sanitize(where, source) \in Seq(Sym)
    BY <2>1, SanitizedTyped
  <2>3. /\ Places(shown) \subseteq Places(RedactValues(Json(Sanitize(where, source))))
        /\ Places(shown) \subseteq Places(Sanitize(where, source))
    <3>1. /\ Json(Sanitize(where, source)) \in Seq(Sym)
          /\ Places(Json(Sanitize(where, source))) \subseteq Places(Sanitize(where, source))
      BY <2>2, EscapePlaces DEF Json
    <3> QED
      BY <2>1, <3>1, RedactedIsClean
  <2>4. where = "preserved" => Places(RedactValues(Json(source))) \intersect B = {}
    <3> SUFFICES ASSUME where = "preserved"
                 PROVE  Places(RedactValues(Json(source))) \intersect B = {}
      OBVIOUS
    <3>1. Seen = Escape(source, JsonEscaped) /\ Json(source) = Escape(source, JsonEscaped)
      BY DEF Seen, Json
    <3>2. EscapeChars(v, JsonEscaped) \in Values
      BY DEF Values
    <3> QED
      BY <2>1, <3>1, <3>2, ValueGoneEscaped
  <2>12. where = "object" => Places(RedactValues(Repr(source))) \intersect B = {}
    <3> SUFFICES ASSUME where = "object"
                 PROVE  Places(RedactValues(Repr(source))) \intersect B = {}
      OBVIOUS
    <3> DEFINE special == ReprEscaped(CharsOf(source))
    <3>1. Seen = Escape(source, special) /\ Repr(source) = Escape(source, special)
      BY DEF Seen, Repr
    <3>2. Chars(v) \subseteq CharsOf(source)
      BY <2>1, ValueChars
    <3>3. v \in Seq(Char) /\ EscapeChars(v, ReprEscaped(Chars(v))) \in Values
      BY ValuesArePlain DEF Values, Plain
    <3>4. EscapeChars(v, special) \in Values
      BY <3>2, <3>3, QuotedAlike
    <3> HIDE DEF special
    <3> QED
      BY <2>1, <3>1, <3>4, ValueGoneEscaped
  <2>5. where \in {"key", "value"} => Places(RedactValues(source)) \intersect B = {}
    <3> SUFFICES ASSUME where \in {"key", "value"}
                 PROVE  Places(RedactValues(source)) \intersect B = {}
      OBVIOUS
    <3>1. Seen = source
      BY DEF Seen
    <3> QED
      BY <2>1, <3>1, ValueGoneAsItIs
  <2>6. where \in {"preserved", "sensitive", "key", "object", "value"}
    BY <2>1, PayloadsAssumptions
  <2> HIDE DEF B
  <2>7. CASE where = "preserved"
    <3>1. Sanitize(where, source) = source
      BY <2>7 DEF Sanitize
    <3> QED
      BY <2>3, <2>4, <2>7, <3>1 DEF B
  <2>8. CASE where = "sensitive"
    <3>1. Sanitize(where, source) = <<Symbol("<redacted>")>>
      BY <2>8 DEF Sanitize
    <3>2. Places(<<Symbol("<redacted>")>>) = {}
      BY DEF Places, Symbol
    <3> QED
      BY <2>3, <3>1, <3>2 DEF B
  <2>9. CASE where = "key"
    <3>1. Sanitize(where, source) = RedactString(source)
      BY <2>9 DEF Sanitize
    <3>2. Places(RedactString(source)) \subseteq Places(RedactValues(source))
      BY <2>1, RedactedIsClean
    <3> QED
      BY <2>3, <2>5, <2>9, <3>1, <3>2 DEF B
  <2>10. CASE where = "object"
    <3>1. Sanitize(where, source) = SanitizeString(Repr(source))
      BY <2>10 DEF Sanitize
    <3>2. Places(SanitizeString(Repr(source))) \subseteq Places(RedactValues(Repr(source)))
      BY <2>1, EscapePlaces, SanitizedPlaces DEF Repr
    <3> QED
      BY <2>3, <2>12, <2>10, <3>1, <3>2 DEF B
  <2>11. CASE where = "value"
    <3>1. Sanitize(where, source) = SanitizeString(source)
      BY <2>11 DEF Sanitize
    <3>2. Places(SanitizeString(source)) \subseteq Places(RedactValues(source))
      BY <2>1, SanitizedPlaces
    <3> QED
      BY <2>3, <2>5, <2>11, <3>1, <3>2 DEF B
  <2> QED
    BY <2>6, <2>7, <2>8, <2>9, <2>10, <2>11
<1> QED
  BY <1>1, LineAlways, PTL

-----------------------------------------------------------------------------
\* A message with one conversion, and an argument in its place.

\* w is m with the sequence a for what it has behind the first h symbols; r symbols come after it.
Spliced(w, m, h, r, a) ==
    /\ w \in Seq(Sym) /\ m \in Seq(Sym) /\ a \in Seq(Sym) /\ h \in Nat /\ r \in Nat
    /\ Len(m) = h + 1 + r /\ Len(w) = h + Len(a) + r
    /\ \A k \in 1..h : w[k] = m[k]
    /\ \A k \in 1..Len(a) : w[h + k] = a[k]
    /\ \A k \in 1..r : w[h + Len(a) + k] = m[h + 1 + k]

\* The three parts of what is spliced.
LEMMA ThreeParts ==
    ASSUME NEW h \in Nat, NEW n \in Nat, NEW r \in Nat, NEW k \in 1..(h + n + r)
    PROVE  \/ k \in 1..h
           \/ \E j \in 1..n : k = h + j
           \/ \E j \in 1..r : k = h + n + j
<1>1. CASE k <= h
  BY <1>1
<1>2. CASE h < k /\ k <= h + n
  <2>1. k - h \in 1..n /\ k = h + (k - h)
    BY <1>2
  <2> QED
    BY <2>1
<1>3. CASE h + n < k
  <2>1. k - (h + n) \in 1..r /\ k = h + n + (k - (h + n))
    BY <1>3
  <2> QED
    BY <2>1
<1> QED
  BY <1>1, <1>2, <1>3

LEMMA SplicedOnce ==
    ASSUME NEW w, NEW x, NEW m, NEW h, NEW r, NEW a, Spliced(w, m, h, r, a), Spliced(x, m, h, r, a)
    PROVE  w = x
<1>1. /\ w \in Seq(Sym) /\ x \in Seq(Sym) /\ h \in Nat /\ r \in Nat /\ Len(a) \in Nat
      /\ Len(w) = h + Len(a) + r /\ Len(x) = Len(w)
  BY DEF Spliced
<1>2. ASSUME NEW k \in 1..Len(w) PROVE w[k] = x[k]
  <2>1. k \in 1..(h + Len(a) + r)
    BY <1>1
  <2>2. \/ k \in 1..h
        \/ \E j \in 1..Len(a) : k = h + j
        \/ \E j \in 1..r : k = h + Len(a) + j
    <3> DEFINE n == Len(a)
    <3>1. h \in Nat /\ n \in Nat /\ r \in Nat /\ k \in 1..(h + n + r)
      BY <1>1, <2>1
    <3> HIDE DEF n
    <3>2. \/ k \in 1..h
          \/ \E j \in 1..n : k = h + j
          \/ \E j \in 1..r : k = h + n + j
      BY ONLY <3>1, ThreeParts
    <3> QED
      BY <3>2 DEF n
  <2>3. CASE k \in 1..h
    BY <2>3 DEF Spliced
  <2>4. CASE \E j \in 1..Len(a) : k = h + j
    BY <2>4 DEF Spliced
  <2>5. CASE \E j \in 1..r : k = h + Len(a) + j
    BY <2>5, ZenonT(60) DEF Spliced
  <2> QED
    BY <2>2, <2>3, <2>4, <2>5
<1> QED
  BY ONLY <1>1, <1>2, SeqEqual

LEMMA HolesFinite ==
    ASSUME NEW s \in Seq(Sym)
    PROVE  IsFiniteSet(Holes(s)) /\ Holes(s) \subseteq 1..Len(s)
<1>1. Len(s) \in Nat /\ DOMAIN s = 1..Len(s)
  OBVIOUS
<1>2. IsFiniteSet(1..Len(s))
  BY <1>1, FS_Interval
<1>3. Holes(s) \subseteq 1..Len(s)
  BY <1>1 DEF Holes
<1> QED
  BY <1>2, <1>3, FS_Subset

LEMMA FormatOne ==
    ASSUME NEW msg \in Seq(Sym), NEW a \in Seq(Sym), NEW none, Format(msg, <<a>>, none) # none
    PROVE  \E h, r \in Nat : /\ Holes(msg) = {h + 1}
                             /\ Spliced(Format(msg, <<a>>, none), msg, h, r, a)
<1> DEFINE n == Len(msg)
           args == <<a>>
           Upto(i) == {k \in Holes(msg) : k <= i}
           chunk == [i \in DOMAIN msg |->
                        IF i \in Holes(msg) THEN args[Cardinality(Upto(i))] ELSE <<msg[i]>>]
           w == Format(msg, <<a>>, none)
<1>1. n \in Nat /\ DOMAIN msg = 1..n /\ Len(a) \in Nat /\ \A k \in 1..n : msg[k] \in Sym
  OBVIOUS
<1>2. args # <<>> /\ Len(args) = 1 /\ args[1] = a
  OBVIOUS
<1>3. Cardinality(Holes(msg)) = 1 /\ w = Flat(msg, chunk)
  BY <1>2 DEF Format
<1>4. PICK y : Holes(msg) = {y}
  BY <1>3, HolesFinite, FS_Singleton
<1>5. y \in 1..n
  BY <1>4, HolesFinite
<1> DEFINE h == y - 1
           r == n - y
<1>6. h \in Nat /\ r \in Nat /\ y = h + 1 /\ n = h + 1 + r
  BY <1>1, <1>5
<1>7. chunk[y] = a
  <2>1. Upto(y) = {y}
    BY <1>4, <1>5
  <2>2. Cardinality(Upto(y)) = 1
    BY <2>1, FS_Singleton
  <2> QED
    BY <1>1, <1>2, <1>4, <1>5, <2>2
<1>8. \A i \in 1..n : i # y => chunk[i] = <<msg[i]>>
  BY <1>1, <1>4
<1> HIDE DEF chunk, w, n, h, r, args
<1> DEFINE off == [i \in 0..n |-> IF i <= h THEN i ELSE h + Len(a) + (i - y)]
<1>9. \A i \in 1..n : i # y => chunk[i] \in Seq(Sym) /\ Len(chunk[i]) = 1 /\ chunk[i][1] = msg[i]
  <2>1. \A c \in Sym : <<c>> \in Seq(Sym) /\ Len(<<c>>) = 1 /\ <<c>>[1] = c
    OBVIOUS
  <2>2. ASSUME NEW i \in 1..n, i # y
        PROVE  chunk[i] \in Seq(Sym) /\ Len(chunk[i]) = 1 /\ chunk[i][1] = msg[i]
    <3>1. chunk[i] = <<msg[i]>> /\ msg[i] \in Sym
      BY <1>1, <1>8, <2>2
    <3> QED
      BY ONLY <2>1, <3>1
  <2> QED
    BY <2>2
<1>10. Pieces(Sym, msg, chunk)
  BY <1>1, <1>7, <1>9 DEF Pieces, n
<1>11. Offsets(off, msg, chunk)
  <2>1. off \in [0..n -> Nat]
    BY <1>1, <1>6
  <2>2. off[0] = 0
    BY <1>1, <1>6
  <2>3. ASSUME NEW i \in 1..n PROVE off[i] = off[i - 1] + Len(chunk[i])
    <3>1. i - 1 \in 0..n /\ i \in 0..n
      BY <1>1
    <3>2. /\ off[i] = IF i <= h THEN i ELSE h + Len(a) + (i - y)
          /\ off[i - 1] = IF i - 1 <= h THEN i - 1 ELSE h + Len(a) + ((i - 1) - y)
      BY <3>1
    <3> HIDE DEF off
    <3>3. CASE i = y
      <4>1. ~(i <= h) /\ i - 1 <= h /\ i - y = 0 /\ i - 1 = h /\ h + Len(a) + 0 = h + Len(a)
        BY <1>1, <1>6, <3>3
      <4>2. off[i] = h + Len(a) /\ off[i - 1] = h
        BY <3>2, <4>1
      <4> QED
        BY <1>7, <3>3, <4>2
    <3>4. CASE i # y
      <4>1. Len(chunk[i]) = 1
        BY <1>9, <3>4
      <4> QED
        BY <1>1, <1>6, <3>2, <3>4, <4>1
    <3> QED
      BY <3>3, <3>4
  <2> QED
    BY <2>1, <2>2, <2>3 DEF Offsets, n
<1>12. /\ w \in Seq(Sym) /\ Len(w) = off[n]
       /\ \A i \in 1..n : \A k \in 1..Len(chunk[i]) : w[off[i - 1] + k] = chunk[i][k]
  <2> HIDE DEF off
  <2>1. Assembled(Flat(msg, chunk), Sym, off, msg, chunk)
    BY <1>10, <1>11, FlatIs
  <2> QED
    BY <1>3, <2>1 DEF Assembled, n
<1>13. \A i \in 0..n : off[i] = IF i <= h THEN i ELSE h + Len(a) + (i - y)
  OBVIOUS
<1> HIDE DEF off
<1>14. ASSUME NEW k \in 1..h PROVE w[k] = msg[k]
  <2>1. k \in 1..n /\ k # y /\ k - 1 \in 0..n /\ k - 1 <= h /\ 1 \in 1..1
    BY <1>6
  <2>2. w[off[k - 1] + 1] = msg[k]
    BY <1>9, <1>12, <2>1
  <2>3. off[k - 1] + 1 = k
    BY <1>6, <1>13, <2>1
  <2> QED
    BY <2>2, <2>3
<1>15. ASSUME NEW k \in 1..Len(a) PROVE w[h + k] = a[k]
  <2>1. w[off[y - 1] + k] = a[k]
    BY <1>5, <1>7, <1>12
  <2>2. off[y - 1] = h
    BY <1>6, <1>13
  <2> QED
    BY <2>1, <2>2
<1>16. ASSUME NEW k \in 1..r PROVE w[h + Len(a) + k] = msg[h + 1 + k]
  <2>1. h + 1 + k \in 1..n /\ h + 1 + k # y /\ (h + 1 + k) - 1 = h + k /\ h + k \in 0..n
    BY <1>6
  <2>2. w[off[h + k] + 1] = msg[h + 1 + k]
    <3>1. ASSUME NEW i \in 1..n, i # y PROVE w[off[i - 1] + 1] = msg[i]
      <4>1. Len(chunk[i]) = 1 /\ chunk[i][1] = msg[i] /\ 1 \in 1..1
        BY <1>9, <3>1
      <4>2. w[off[i - 1] + 1] = chunk[i][1]
        BY <1>12, <4>1
      <4> QED
        BY <4>1, <4>2
    <3>2. w[off[(h + 1 + k) - 1] + 1] = msg[h + 1 + k]
      BY <2>1, <3>1
    <3> QED
      BY <2>1, <3>2
  <2>3. off[h + k] = h + Len(a) + (k - 1)
    <3>1. ~(h + k <= h) /\ (h + k) - y = k - 1
      BY <1>6
    <3> QED
      BY <1>13, <2>1, <3>1
  <2>4. off[h + k] + 1 = h + Len(a) + k
    BY <1>1, <1>6, <2>3
  <2> QED
    BY <2>2, <2>4
<1>17. Len(w) = h + Len(a) + r
  <2>1. n \in 0..n /\ ~(n <= h) /\ n - y = r
    BY <1>6
  <2> QED
    BY <1>12, <1>13, <2>1
<1>18. Spliced(w, msg, h, r, a)
  BY <1>1, <1>6, <1>12, <1>14, <1>15, <1>16, <1>17 DEF Spliced, n
<1> QED
  BY <1>4, <1>6, <1>18 DEF w

\* c, between x and y.
Between(x, c, y) == x \o <<c>> \o y

\* s is x, a and y one after the other.
PartsOf(s, x, a, y, h, l, r) ==
    /\ s \in Seq(Sym) /\ Len(s) = h + l + r
    /\ x \in Seq(Sym) /\ Len(x) = h /\ \A k \in 1..h : x[k] = s[k]
    /\ a \in Seq(Sym) /\ Len(a) = l /\ \A k \in 1..l : a[k] = s[h + k]
    /\ y \in Seq(Sym) /\ Len(y) = r /\ \A k \in 1..r : y[k] = s[h + l + k]

LEMMA SplicedFromParts ==
    ASSUME NEW s, NEW x, NEW a, NEW y, NEW h \in Nat, NEW l \in Nat, NEW r \in Nat,
           PartsOf(s, x, a, y, h, l, r), NEW c \in Sym
    PROVE  Spliced(s, Between(x, c, y), h, r, a) /\ Between(x, c, y)[h + 1] = c
<1> DEFINE o == <<c>>
           z == x \o o
           m == x \o o \o y
<1>1. /\ s \in Seq(Sym) /\ Len(s) = h + l + r
      /\ x \in Seq(Sym) /\ Len(x) = h /\ \A k \in 1..h : x[k] = s[k]
      /\ a \in Seq(Sym) /\ Len(a) = l /\ \A k \in 1..l : a[k] = s[h + k]
      /\ y \in Seq(Sym) /\ Len(y) = r /\ \A k \in 1..r : y[k] = s[h + l + k]
  BY DEF PartsOf
<1>2. o \in Seq(Sym) /\ Len(o) = 1 /\ o[1] = c
  OBVIOUS
<1>3. x \in Seq(Sym) /\ y \in Seq(Sym)
  BY <1>1
<1> HIDE DEF o
<1>4. /\ z \in Seq(Sym) /\ Len(z) = Len(x) + Len(o)
      /\ \A k \in 1..(Len(x) + Len(o)) : z[k] = IF k <= Len(x) THEN x[k] ELSE o[k - Len(x)]
  BY ONLY <1>2, <1>3, ConcatProperties
<1>5. m = z \o y
  OBVIOUS
<1> HIDE DEF z, m
<1>6. /\ m \in Seq(Sym) /\ Len(m) = Len(z) + Len(y)
     /\ \A k \in 1..(Len(z) + Len(y)) : m[k] = IF k <= Len(z) THEN z[k] ELSE y[k - Len(z)]
  <2>1. /\ z \o y \in Seq(Sym) /\ Len(z \o y) = Len(z) + Len(y)
        /\ \A k \in 1..(Len(z) + Len(y)) : (z \o y)[k] = IF k <= Len(z) THEN z[k] ELSE y[k - Len(z)]
    <3>1. z \in Seq(Sym) /\ y \in Seq(Sym)
      BY <1>4, <1>3
    <3> QED
      BY ONLY <3>1, ConcatProperties
  <2> QED
    BY <1>5, <2>1
<1>7. /\ \A k \in 1..h : k \in 1..(h + 1) /\ k <= h
      /\ h + 1 \in 1..(h + 1) /\ ~(h + 1 <= h) /\ h + 1 - h = 1
      /\ \A k \in 1..(h + 1) : k \in 1..(h + 1 + r) /\ k <= h + 1
      /\ \A k \in 1..r : /\ h + 1 + k \in 1..(h + 1 + r) /\ ~(h + 1 + k <= h + 1)
                        /\ (h + 1 + k) - (h + 1) = k
  OBVIOUS
<1>8. Len(z) = h + 1 /\ (\A k \in 1..h : z[k] = x[k]) /\ z[h + 1] = c
  <2>1. Len(z) = h + 1 /\ \A k \in 1..(h + 1) : z[k] = IF k <= h THEN x[k] ELSE o[k - h]
    BY ONLY <1>1, <1>2, <1>4
  <2>2. z[h + 1] = o[(h + 1) - h] /\ \A k \in 1..h : z[k] = x[k]
    BY ONLY <1>7, <2>1
  <2> QED
    BY ONLY <1>2, <1>7, <2>1, <2>2
<1>9. /\ Len(m) = h + 1 + r /\ (\A k \in 1..(h + 1) : m[k] = z[k])
      /\ \A k \in 1..r : m[h + 1 + k] = y[k]
  <2>1. /\ Len(m) = h + 1 + r
        /\ \A k \in 1..(h + 1 + r) : m[k] = IF k <= h + 1 THEN z[k] ELSE y[k - (h + 1)]
    BY ONLY <1>1, <1>6, <1>8
  <2>2. \A k \in 1..(h + 1) : m[k] = z[k]
    BY ONLY <1>7, <2>1
  <2>3. ASSUME NEW k \in 1..r PROVE m[h + 1 + k] = y[k]
    <3>1. m[h + 1 + k] = y[(h + 1 + k) - (h + 1)]
      BY ONLY <1>7, <2>1, k \in 1..r
    <3> QED
      BY ONLY <1>7, <3>1, k \in 1..r
  <2> QED
    BY <2>1, <2>2, <2>3
<1>10. /\ \A k \in 1..h : s[k] = m[k]
       /\ m[h + 1] = c
  BY <1>1, <1>7, <1>8, <1>9
<1>11. /\ \A k \in 1..Len(a) : s[h + k] = a[k]
       /\ \A k \in 1..r : s[h + Len(a) + k] = m[h + 1 + k]
  BY <1>1, <1>9
<1>12. Spliced(s, m, h, r, a)
  BY <1>1, <1>6, <1>9, <1>10, <1>11 DEF Spliced
<1> QED
  BY <1>10, <1>12 DEF m, o, Between

\* A string with a part cut out of it is spliced from the two.
\* The message of a logging call, with a conversion for what stood from i to j.
Message(s, i, j) == SubSeq(s, 1, i - 1) \o <<Symbol(Hole)>> \o SubSeq(s, j + 1, Len(s))

LEMMA CutSpliced ==
    ASSUME NEW s \in Seq(Sym), NEW i \in 1..Len(s), NEW j \in i..Len(s)
    PROVE  /\ Spliced(s, Message(s, i, j), i - 1, Len(s) - j, SubSeq(s, i, j))
           /\ Message(s, i, j)[i] = Symbol(Hole)
<1> DEFINE n == Len(s)
           x == SubSeq(s, 1, i - 1)
           a == SubSeq(s, i, j)
           y == SubSeq(s, j + 1, n)
<1>1. n \in Nat /\ \A k \in 1..n : s[k] \in Sym
  OBVIOUS
<1>2. PICK h, l, r \in Nat : h = i - 1 /\ l = j - i + 1 /\ r = n - j /\ l >= 1
  <2>1. i - 1 \in Nat /\ j - i + 1 \in Nat /\ n - j \in Nat /\ j - i + 1 >= 1
    BY <1>1
  <2> QED
    BY <2>1
<1>3. /\ i = h + 1 /\ j = h + l /\ n = h + l + r
      /\ i - 1 - 1 + 1 = h /\ j - i + 1 = l /\ n - (j + 1) + 1 = r
      /\ 1 \in Int /\ i \in Int /\ i - 1 \in Int /\ j \in Int /\ j + 1 \in Int /\ n \in Int
      /\ (1 <= i - 1 \/ h = 0) /\ i <= j /\ (j + 1 <= n \/ r = 0)
  BY <1>1, <1>2
<1>4. /\ \A k \in 1..(i - 1) : s[k] \in Sym
      /\ \A k \in i..j : s[k] \in Sym
      /\ \A k \in (j + 1)..n : s[k] \in Sym
  BY <1>1
<1>5. /\ \A k \in 1..h : 1 + k - 1 = k
      /\ \A k \in 1..l : i + k - 1 = h + k
      /\ \A k \in 1..r : j + 1 + k - 1 = h + l + k
  BY <1>3
<1>6. x \in Seq(Sym) /\ Len(x) = h /\ \A k \in 1..h : x[k] = s[k]
  <2>1. /\ x \in Seq(Sym) /\ Len(x) = IF 1 <= i - 1 THEN i - 1 - 1 + 1 ELSE 0
        /\ \A k \in 1..(i - 1 - 1 + 1) : x[k] = s[1 + k - 1]
    BY ONLY <1>3, <1>4, SubSeqProperties
  <2> HIDE DEF x
  <2>2. Len(x) = h /\ \A k \in 1..h : x[k] = s[1 + k - 1]
    BY ONLY <1>3, <2>1
  <2> QED
    BY ONLY <1>5, <2>1, <2>2
<1>7. a \in Seq(Sym) /\ Len(a) = l /\ \A k \in 1..l : a[k] = s[h + k]
  <2>1. /\ a \in Seq(Sym) /\ Len(a) = IF i <= j THEN j - i + 1 ELSE 0
        /\ \A k \in 1..(j - i + 1) : a[k] = s[i + k - 1]
    BY ONLY <1>3, <1>4, SubSeqProperties
  <2> HIDE DEF a
  <2>2. Len(a) = l /\ \A k \in 1..l : a[k] = s[i + k - 1]
    BY ONLY <1>3, <2>1
  <2> QED
    BY ONLY <1>5, <2>1, <2>2
<1>8. y \in Seq(Sym) /\ Len(y) = r /\ \A k \in 1..r : y[k] = s[h + l + k]
  <2>1. /\ y \in Seq(Sym) /\ Len(y) = IF j + 1 <= n THEN n - (j + 1) + 1 ELSE 0
        /\ \A k \in 1..(n - (j + 1) + 1) : y[k] = s[j + 1 + k - 1]
    BY ONLY <1>3, <1>4, SubSeqProperties
  <2> HIDE DEF y
  <2>2. Len(y) = r /\ \A k \in 1..r : y[k] = s[j + 1 + k - 1]
    BY ONLY <1>3, <2>1
  <2> QED
    BY ONLY <1>5, <2>1, <2>2
<1>9. Symbol(Hole) \in Sym
  BY DEF Symbol, Sym, Char
<1>10. Len(s) = h + l + r
  BY <1>3
<1>11. Message(s, i, j) = x \o <<Symbol(Hole)>> \o y
  BY DEF Message
<1> HIDE DEF x, a, y, n
<1> DEFINE m == x \o <<Symbol(Hole)>> \o y
<1>12. Spliced(s, m, h, r, a) /\ m[h + 1] = Symbol(Hole)
  <2>1. PartsOf(s, x, a, y, h, l, r)
    BY <1>6, <1>7, <1>8, <1>10 DEF PartsOf
  <2> DEFINE c == Symbol(Hole)
  <2>2. c \in Sym
    BY <1>9
  <2> HIDE DEF c
  <2>3. Spliced(s, Between(x, c, y), h, r, a) /\ Between(x, c, y)[h + 1] = c
    BY <2>1, <2>2, SplicedFromParts
  <2> QED
    BY <2>3 DEF c, Between
<1> HIDE DEF m
<1>13. i - 1 = h /\ Len(s) - j = r /\ h + 1 = i
  BY <1>2, <1>3 DEF n
<1>14. Message(s, i, j) = m
  BY <1>11 DEF m
<1> QED
  BY <1>12, <1>13, <1>14 DEF a

\* What stands in a part stands in the whole.
LEMMA SplicedStands ==
    ASSUME NEW w, NEW m, NEW h, NEW r, NEW a, Spliced(w, m, h, r, a), NEW v \in Values
    PROVE  /\ \A j \in 1..Len(m) : StandsAt(v, m, j) /\ j + Len(v) - 1 <= h => StandsAt(v, w, j)
           /\ \A j \in 1..r : StandsAt(v, m, h + 1 + j) => StandsAt(v, w, h + Len(a) + j)
           /\ \A j \in 1..Len(a) : StandsAt(v, a, j) => StandsAt(v, w, h + j)
<1>1. /\ h \in Nat /\ r \in Nat /\ Len(a) \in Nat /\ Len(m) = h + 1 + r /\ Len(w) = h + Len(a) + r
      /\ \A k \in 1..h : w[k] = m[k]
      /\ \A k \in 1..Len(a) : w[h + k] = a[k]
      /\ \A k \in 1..r : w[h + Len(a) + k] = m[h + 1 + k]
  BY DEF Spliced
<1>2. Len(v) \in Nat /\ Len(v) >= 1 /\ DOMAIN v = 1..Len(v)
  BY ValuesArePlain DEF Plain
<1> DEFINE n == Len(a)
           l == Len(v)
<1>3. ASSUME NEW j \in 1..Len(m), StandsAt(v, m, j), j + Len(v) - 1 <= h PROVE StandsAt(v, w, j)
  <2>1. \A k \in 1..l : j + k - 1 \in 1..h
    BY <1>1, <1>2, <1>3
  <2>2. \A k \in 1..l : w[j + k - 1].char = v[k]
    BY <1>1, <1>2, <1>3, <2>1 DEF StandsAt
  <2>3. j + Len(v) - 1 <= Len(w)
    BY <1>1, <1>2, <1>3
  <2> QED
    BY <1>2, <2>2, <2>3 DEF StandsAt
<1>4. ASSUME NEW j \in 1..r, StandsAt(v, m, h + 1 + j) PROVE StandsAt(v, w, h + Len(a) + j)
  <2>1. h + 1 + j + l - 1 <= h + 1 + r /\ \A k \in 1..l : m[h + 1 + j + k - 1].char = v[k]
    BY <1>1, <1>2, <1>4 DEF StandsAt
  <2>2. \A k \in 1..l : /\ j + k - 1 \in 1..r
                        /\ h + 1 + j + k - 1 = h + 1 + (j + k - 1)
                        /\ h + n + j + k - 1 = h + n + (j + k - 1)
    <3> HIDE DEF n, l
    <3>1. n \in Nat /\ l \in Nat
      BY <1>1, <1>2 DEF n, l
    <3> QED
      BY <1>1, <2>1, <3>1
  <2>3. \A k \in 1..l : w[h + n + j + k - 1].char = v[k]
    <3> HIDE DEF l
    <3> QED
      BY <1>1, <2>1, <2>2, ZenonT(60)
  <2>4. h + n + j + l - 1 <= Len(w)
    <3> HIDE DEF n, l
    <3>1. n \in Nat /\ l \in Nat /\ Len(w) = h + n + r
      BY <1>1, <1>2 DEF n, l
    <3> QED
      BY <1>1, <2>1, <3>1
  <2> QED
    BY <1>2, <2>3, <2>4 DEF StandsAt
<1>5. ASSUME NEW j \in 1..Len(a), StandsAt(v, a, j) PROVE StandsAt(v, w, h + j)
  <2>1. j + l - 1 <= n /\ \A k \in 1..l : a[j + k - 1].char = v[k]
    BY <1>2, <1>5 DEF StandsAt
  <2>2. \A k \in 1..l : j + k - 1 \in 1..n /\ h + j + k - 1 = h + (j + k - 1)
    <3> HIDE DEF n, l
    <3>1. n \in Nat /\ l \in Nat /\ j \in 1..n
      BY <1>1, <1>2 DEF n, l
    <3> QED
      BY <1>1, <2>1, <3>1
  <2>3. \A k \in 1..l : w[h + j + k - 1].char = v[k]
    <3> HIDE DEF l
    <3> QED
      BY <1>1, <2>1, <2>2, ZenonT(60)
  <2>4. h + j + l - 1 <= Len(w)
    <3> HIDE DEF n, l
    <3>1. n \in Nat /\ l \in Nat /\ Len(w) = h + n + r /\ j \in 1..n
      BY <1>1, <1>2 DEF n, l
    <3> QED
      BY <1>1, <2>1, <3>1
  <2> QED
    BY <1>2, <2>3, <2>4 DEF StandsAt
<1> QED
  BY <1>3, <1>4, <1>5

-----------------------------------------------------------------------------
\* What becomes of the parts, and what becomes of the whole.

\* w is t with p in it, and s is m with a in it; t and p are what has become of m and a, and what
\* p is put in place of is what a is put in place of.
Redone(w, t, g, u, p, F, f, s, m, h, r, a) ==
    /\ Spliced(w, t, g, u, p) /\ Spliced(s, m, h, r, a)
    /\ Traces(t, F, m, 1) /\ Traces(p, f, a, 1)
    /\ F[g + 1] = h + 1 /\ Len(a) >= 1

\* G leads from w to s as F and f do from the parts: d symbols of p, and n of a.
Combined(G, F, f, g, d, u, h, n) ==
    /\ \A k \in 1..g : G[k] = F[k]
    /\ \A k \in 1..d : G[g + k] = IF f[k] = 0 THEN 0 ELSE h + f[k]
    /\ \A k \in 1..(u + 1) :
           G[g + d + k] = IF F[g + 1 + k] = 0 THEN 0 ELSE (F[g + 1 + k] - 1) + n

LEMMA CombinedExists ==
    ASSUME NEW F, NEW f, NEW g \in Nat, NEW d \in Nat, NEW u \in Nat, NEW h \in Nat, NEW n \in Nat,
           \A k \in 1..(g + 1 + u + 1) : F[k] \in Nat,
           \A k \in 1..d : f[k] \in Nat
    PROVE  \E G \in [1..(g + d + u + 1) -> Int] : Combined(G, F, f, g, d, u, h, n)
<1> DEFINE G == [k \in 1..(g + d + u + 1) |->
                    IF k <= g THEN F[k]
                    ELSE IF k <= g + d THEN IF f[k - g] = 0 THEN 0 ELSE h + f[k - g]
                    ELSE IF F[g + 1 + (k - (g + d))] = 0 THEN 0
                    ELSE (F[g + 1 + (k - (g + d))] - 1) + n]
<1>1. G \in [1..(g + d + u + 1) -> Int]
  <2> SUFFICES ASSUME NEW k \in 1..(g + d + u + 1) PROVE G[k] \in Int
    OBVIOUS
  <2>1. k <= g => F[k] \in Nat
    OBVIOUS
  <2>2. ~(k <= g) /\ k <= g + d => f[k - g] \in Nat
    OBVIOUS
  <2>3. ~(k <= g + d) => F[g + 1 + (k - (g + d))] \in Nat
    <3>1. ~(k <= g + d) => g + 1 + (k - (g + d)) \in 1..(g + 1 + u + 1)
      OBVIOUS
    <3> QED
      BY <3>1
  <2> QED
    BY <2>1, <2>2, <2>3
<1>2. \A k \in 1..g : G[k] = F[k]
  OBVIOUS
<1>3. ASSUME NEW k \in 1..d PROVE G[g + k] = IF f[k] = 0 THEN 0 ELSE h + f[k]
  <2>1. g + k \in 1..(g + d + u + 1) /\ ~(g + k <= g) /\ g + k <= g + d /\ (g + k) - g = k
    OBVIOUS
  <2> QED
    BY <2>1
<1>4. ASSUME NEW k \in 1..(u + 1)
      PROVE  G[g + d + k] = IF F[g + 1 + k] = 0 THEN 0 ELSE (F[g + 1 + k] - 1) + n
  <2>1. /\ g + d + k \in 1..(g + d + u + 1) /\ ~(g + d + k <= g) /\ ~(g + d + k <= g + d)
        /\ (g + d + k) - (g + d) = k
    OBVIOUS
  <2> QED
    BY <2>1
<1> QED
  BY <1>1, <1>2, <1>3, <1>4 DEF Combined

\* The traces of the parts, side by side.
Bands(F, f, g, d, u, h, r, n) ==
    /\ g \in Nat /\ d \in Nat /\ u \in Nat /\ h \in Nat /\ r \in Nat /\ n \in Nat /\ d >= 1 /\ n >= 1
    /\ \A k \in 1..(g + 1 + u + 1) : F[k] \in Nat
    /\ \A k \in 1..(d + 1) : f[k] \in Nat
    /\ \A k \in 1..g : F[k] <= h
    /\ \A k \in 1..d : f[k] <= n
    /\ \A k \in 1..(u + 1) : F[g + 1 + k] # 0 => F[g + 1 + k] \in (h + 2)..(h + 2 + r)
    /\ \A k \in 1..u : F[g + 1 + k] <= h + 1 + r
    /\ F[1] \in {0, 1} /\ F[g + 1] = h + 1 /\ F[g + 1 + (u + 1)] = h + 2 + r
    /\ f[1] \in {0, 1} /\ f[d + 1] = n + 1
    /\ Grows(F, g + 1 + u + 1) /\ Grows(f, d + 1)

LEMMA TraceEnds ==
    ASSUME NEW t, NEW f, NEW s, Traces(t, f, s, 1)
    PROVE  /\ f[1] \in {0, 1} /\ f[Len(t) + 1] = Len(s) + 1 /\ Grows(f, Len(t) + 1)
           /\ \A k \in 1..(Len(t) + 1) : f[k] \in Nat
BY DEF Traces

LEMMA BandsAre ==
    ASSUME NEW w, NEW t, NEW g, NEW u, NEW p, NEW F, NEW f, NEW s, NEW m, NEW h, NEW r, NEW a,
           Redone(w, t, g, u, p, F, f, s, m, h, r, a)
    PROVE  Bands(F, f, g, Len(p), u, h, r, Len(a))
<1> DEFINE d == Len(p)
           n == Len(a)
<1>1. /\ g \in Nat /\ u \in Nat /\ h \in Nat /\ r \in Nat /\ d \in Nat /\ n \in Nat /\ n >= 1
      /\ Len(t) = g + 1 + u /\ Len(m) = h + 1 + r /\ m \in Seq(Sym) /\ a \in Seq(Sym)
  BY DEF Redone, Spliced
<1>2. Traces(t, F, m, 1) /\ Traces(p, f, a, 1) /\ F[g + 1] = h + 1
  BY DEF Redone
<1>3. /\ \A k \in 1..(Len(t) + 1) : F[k] \in 0..(Len(m) + 1)
      /\ \A k \in 1..Len(t) : F[k] \in 0..Len(m)
      /\ \A k, l \in 1..(Len(t) + 1) : k < l /\ F[k] # 0 /\ F[l] # 0 => F[k] < F[l]
  BY <1>1, <1>2, TraceBounds
<1>4. /\ \A k \in 1..(d + 1) : f[k] \in 0..(n + 1)
      /\ \A k \in 1..d : f[k] \in 0..n
  BY <1>1, <1>2, TraceBounds
<1>5. /\ F[1] \in {0, 1} /\ F[Len(t) + 1] = Len(m) + 1 /\ Grows(F, Len(t) + 1)
      /\ f[1] \in {0, 1} /\ f[d + 1] = n + 1 /\ Grows(f, d + 1)
  BY <1>2, TraceEnds
<1> HIDE DEF d, n
<1>6. d >= 1
  <2>1. d # 0
    <3>1. d = 0 => d + 1 = 1
      BY <1>1
    <3> QED
      BY <1>1, <1>5, <3>1
  <2> QED
    BY <1>1, <2>1
<1>7. ASSUME NEW k \in 1..g PROVE F[k] <= h
  <2>1. k \in 1..(Len(t) + 1) /\ g + 1 \in 1..(Len(t) + 1) /\ k < g + 1
    BY <1>1
  <2>2. F[k] \in 0..(Len(m) + 1) /\ (F[k] # 0 => F[k] < h + 1)
    BY <1>1, <1>2, <1>3, <2>1
  <2> QED
    BY <1>1, <2>2
<1>8. ASSUME NEW k \in 1..(u + 1), F[g + 1 + k] # 0 PROVE F[g + 1 + k] \in (h + 2)..(h + 2 + r)
  <2>1. g + 1 + k \in 1..(Len(t) + 1) /\ g + 1 \in 1..(Len(t) + 1) /\ g + 1 < g + 1 + k
    BY <1>1
  <2>2. F[g + 1 + k] \in 0..(Len(m) + 1) /\ h + 1 < F[g + 1 + k]
    BY <1>1, <1>2, <1>3, <1>8, <2>1
  <2> QED
    BY <1>1, <2>2
<1>9. ASSUME NEW k \in 1..u PROVE F[g + 1 + k] <= h + 1 + r
  <2>1. g + 1 + k \in 1..Len(t)
    BY <1>1
  <2>2. F[g + 1 + k] \in 0..Len(m)
    BY <1>3, <2>1
  <2> QED
    BY <1>1, <2>2
<1>10. /\ \A k \in 1..(g + 1 + u + 1) : F[k] \in Nat
       /\ \A k \in 1..(d + 1) : f[k] \in Nat
       /\ \A k \in 1..d : f[k] <= n
  BY <1>1, <1>3, <1>4
<1>11. F[g + 1 + (u + 1)] = h + 2 + r /\ Grows(F, g + 1 + u + 1)
  <2>1. g + 1 + (u + 1) = Len(t) + 1 /\ g + 1 + u + 1 = Len(t) + 1 /\ h + 2 + r = Len(m) + 1
    BY <1>1
  <2> QED
    BY <1>5, <2>1
<1>12. Bands(F, f, g, d, u, h, r, n)
  BY <1>1, <1>2, <1>5, <1>6, <1>7, <1>8, <1>9, <1>10, <1>11 DEF Bands
<1> QED
  BY <1>12 DEF d, n

LEMMA CombinedBands ==
    ASSUME NEW F, NEW f, NEW g, NEW d, NEW u, NEW h, NEW r, NEW n, Bands(F, f, g, d, u, h, r, n),
           NEW G, Combined(G, F, f, g, d, u, h, n)
    PROVE  /\ \A k \in 1..g : G[k] \in 0..h
           /\ \A k \in 1..d : G[g + k] # 0 => G[g + k] \in (h + 1)..(h + n)
           /\ \A k \in 1..(u + 1) :
                  G[g + d + k] # 0 => G[g + d + k] \in (h + n + 1)..(h + n + r + 1)
           /\ \A k \in 1..u : G[g + d + k] # 0 => G[g + d + k] <= h + n + r
<1>1. /\ g \in Nat /\ d \in Nat /\ u \in Nat /\ h \in Nat /\ r \in Nat /\ n \in Nat
      /\ \A k \in 1..(g + 1 + u + 1) : F[k] \in Nat
      /\ \A k \in 1..(d + 1) : f[k] \in Nat
      /\ \A k \in 1..g : F[k] <= h
      /\ \A k \in 1..d : f[k] <= n
      /\ \A k \in 1..(u + 1) : F[g + 1 + k] # 0 => F[g + 1 + k] \in (h + 2)..(h + 2 + r)
      /\ \A k \in 1..u : F[g + 1 + k] <= h + 1 + r
  BY DEF Bands
<1>2. ASSUME NEW k \in 1..g PROVE G[k] \in 0..h
  <2>1. k \in 1..(g + 1 + u + 1)
    BY <1>1
  <2>2. F[k] \in Nat /\ F[k] <= h /\ G[k] = F[k]
    BY <1>1, <2>1 DEF Combined
  <2> QED
    BY <1>1, <2>2
<1>3. ASSUME NEW k \in 1..d, G[g + k] # 0 PROVE G[g + k] \in (h + 1)..(h + n)
  <2>1. k \in 1..(d + 1)
    BY <1>1
  <2>2. f[k] \in Nat /\ f[k] <= n /\ G[g + k] = IF f[k] = 0 THEN 0 ELSE h + f[k]
    BY <1>1, <2>1 DEF Combined
  <2> QED
    BY <1>1, <1>3, <2>2
<1>4. ASSUME NEW k \in 1..(u + 1), G[g + d + k] # 0
      PROVE  /\ G[g + d + k] \in (h + n + 1)..(h + n + r + 1)
             /\ k \in 1..u => G[g + d + k] <= h + n + r
  <2>1. G[g + d + k] = IF F[g + 1 + k] = 0 THEN 0 ELSE (F[g + 1 + k] - 1) + n
    BY DEF Combined
  <2>2. F[g + 1 + k] # 0 /\ F[g + 1 + k] \in (h + 2)..(h + 2 + r)
    BY <1>1, <1>4, <2>1
  <2>3. k \in 1..u => F[g + 1 + k] <= h + 1 + r
    BY <1>1
  <2> QED
    BY <1>1, <2>1, <2>2, <2>3
<1>5. \A k \in 1..u : k \in 1..(u + 1)
  BY <1>1
<1> QED
  BY <1>2, <1>3, <1>4, <1>5

LEMMA CombinedGrows ==
    ASSUME NEW F, NEW f, NEW g, NEW d, NEW u, NEW h, NEW r, NEW n, Bands(F, f, g, d, u, h, r, n),
           NEW G, Combined(G, F, f, g, d, u, h, n)
    PROVE  Grows(G, g + d + u + 1)
<1>1. /\ g \in Nat /\ d \in Nat /\ u \in Nat /\ h \in Nat /\ r \in Nat /\ n \in Nat /\ d >= 1
      /\ \A k \in 1..(g + 1 + u + 1) : F[k] \in Nat
      /\ \A k \in 1..(d + 1) : f[k] \in Nat
      /\ F[g + 1] = h + 1
      /\ f[1] \in {0, 1} /\ f[d + 1] = n + 1
  BY DEF Bands
<1>2. /\ \A k \in 1..g : G[k] \in 0..h
      /\ \A k \in 1..d : G[g + k] # 0 => G[g + k] \in (h + 1)..(h + n)
      /\ \A k \in 1..(u + 1) :
             G[g + d + k] # 0 => G[g + d + k] \in (h + n + 1)..(h + n + r + 1)
  BY CombinedBands
<1>3. /\ \A k \in 1..g : G[k] = F[k]
      /\ \A k \in 1..d : G[g + k] = IF f[k] = 0 THEN 0 ELSE h + f[k]
      /\ \A k \in 1..(u + 1) :
             G[g + d + k] = IF F[g + 1 + k] = 0 THEN 0 ELSE (F[g + 1 + k] - 1) + n
  BY DEF Combined
<1>4. \A k, l \in 1..(g + 1 + u + 1) : F[k] # 0 /\ F[l] # 0 =>
          (k < l => F[k] < F[l]) /\ (l = k + 1 => F[l] = F[k] + 1)
  BY DEF Bands, Grows, Runs, Rises
<1>5. \A k, l \in 1..(d + 1) : f[k] # 0 /\ f[l] # 0 =>
          (k < l => f[k] < f[l]) /\ (l = k + 1 => f[l] = f[k] + 1)
  BY DEF Bands, Grows, Runs, Rises
<1> DEFINE Step(k, l) == G[k] < G[l] /\ (l = k + 1 => G[l] = G[k] + 1)
<1>6. ASSUME NEW k \in 1..g, NEW l \in 1..g, k < l, G[k] # 0, G[l] # 0 PROVE Step(k, l)
  <2>1. k \in 1..(g + 1 + u + 1) /\ l \in 1..(g + 1 + u + 1)
    BY <1>1
  <2> QED
    BY <1>3, <1>4, <1>6, <2>1
<1>7. ASSUME NEW x \in 1..d, NEW y \in 1..d, g + x < g + y, G[g + x] # 0, G[g + y] # 0
      PROVE  Step(g + x, g + y)
  <2>1. x \in 1..(d + 1) /\ y \in 1..(d + 1) /\ x < y /\ (g + y = g + x + 1 <=> y = x + 1)
    BY <1>1, <1>7
  <2>2. f[x] # 0 /\ f[y] # 0 /\ G[g + x] = h + f[x] /\ G[g + y] = h + f[y]
    BY <1>3, <1>7
  <2>3. f[x] \in Nat /\ f[y] \in Nat /\ f[x] < f[y] /\ (y = x + 1 => f[y] = f[x] + 1)
    BY <1>1, <1>5, <2>1, <2>2
  <2> QED
    BY <1>1, <2>1, <2>2, <2>3
<1>8. ASSUME NEW x \in 1..(u + 1), NEW y \in 1..(u + 1), g + d + x < g + d + y,
             G[g + d + x] # 0, G[g + d + y] # 0
      PROVE  Step(g + d + x, g + d + y)
  <2>1. /\ g + 1 + x \in 1..(g + 1 + u + 1) /\ g + 1 + y \in 1..(g + 1 + u + 1)
        /\ g + 1 + x < g + 1 + y
        /\ (g + d + y = g + d + x + 1 <=> g + 1 + y = (g + 1 + x) + 1)
    BY <1>1, <1>8
  <2> DEFINE b == F[g + 1 + x]
             c == F[g + 1 + y]
  <2>2. b # 0 /\ c # 0 /\ G[g + d + x] = (b - 1) + n /\ G[g + d + y] = (c - 1) + n
    BY <1>3, <1>8
  <2>3. b \in Nat /\ c \in Nat /\ b < c /\ (g + 1 + y = (g + 1 + x) + 1 => c = b + 1)
    BY <1>1, <1>4, <2>1, <2>2
  <2> HIDE DEF b, c
  <2> QED
    BY <1>1, <2>1, <2>2, <2>3
<1>9. ASSUME NEW k \in 1..g, NEW y \in 1..d, G[k] # 0, G[g + y] # 0 PROVE Step(k, g + y)
  <2>1. G[k] < G[g + y]
    <3>1. G[k] \in 0..h /\ G[g + y] \in (h + 1)..(h + n)
      BY <1>2, <1>9
    <3>2. h \in Nat /\ n \in Nat /\ r \in Nat
      BY <1>1
    <3> QED
      BY ONLY <3>1, <3>2
  <2>2. ASSUME g + y = k + 1 PROVE G[g + y] = G[k] + 1
    <3>1. k = g /\ y = 1 /\ k \in 1..(g + 1 + u + 1) /\ g + 1 \in 1..(g + 1 + u + 1)
      BY <1>1, <2>2
    <3>2. F[g] # 0 /\ G[k] = F[g] /\ F[g] \in Nat
      BY <1>1, <1>3, <1>9, <3>1
    <3>3. F[g + 1] = F[g] + 1 /\ F[g + 1] # 0
      <4>1. F[g + 1] # 0
        BY <1>1
      <4> QED
        BY <1>4, <3>1, <3>2, <4>1
    <3>4. f[1] = 1 /\ G[g + y] = h + 1
      BY <1>1, <1>3, <1>9, <3>1
    <3> QED
      BY <1>1, <3>2, <3>3, <3>4
  <2> QED
    BY <2>1, <2>2
<1>10. ASSUME NEW k \in 1..g, NEW y \in 1..(u + 1), G[k] # 0, G[g + d + y] # 0
       PROVE  Step(k, g + d + y)
  <2>1. G[k] < G[g + d + y]
    <3>1. G[k] \in 0..h /\ G[g + d + y] \in (h + n + 1)..(h + n + r + 1)
      BY <1>2, <1>10
    <3>2. h \in Nat /\ n \in Nat /\ r \in Nat
      BY <1>1
    <3> QED
      BY ONLY <3>1, <3>2
  <2>2. g + d + y # k + 1
    BY <1>1
  <2> QED
    BY <2>1, <2>2
<1>11. ASSUME NEW x \in 1..d, NEW y \in 1..(u + 1), G[g + x] # 0, G[g + d + y] # 0
       PROVE  Step(g + x, g + d + y)
  <2>1. G[g + x] < G[g + d + y]
    <3>1. G[g + x] \in (h + 1)..(h + n) /\ G[g + d + y] \in (h + n + 1)..(h + n + r + 1)
      BY <1>2, <1>11
    <3>2. h \in Nat /\ n \in Nat /\ r \in Nat
      BY <1>1
    <3> QED
      BY ONLY <3>1, <3>2
  <2>2. ASSUME g + d + y = g + x + 1 PROVE G[g + d + y] = G[g + x] + 1
    <3>1. x = d /\ y = 1 /\ d \in 1..(d + 1) /\ d + 1 \in 1..(d + 1)
      BY <1>1, <2>2
    <3>2. f[d] # 0 /\ G[g + x] = h + f[d] /\ f[d] \in Nat
      BY <1>1, <1>3, <1>11, <3>1
    <3>3. f[d + 1] = f[d] + 1
      <4>1. f[d + 1] # 0
        BY <1>1
      <4> QED
        BY <1>5, <3>1, <3>2, <4>1
    <3>4. g + 1 + 1 \in 1..(g + 1 + u + 1) /\ g + 1 \in 1..(g + 1 + u + 1)
      BY <1>1
    <3>5. F[g + 1 + 1] # 0 /\ G[g + d + y] = (F[g + 1 + 1] - 1) + n
      BY <1>3, <1>11, <3>1
    <3>6. F[g + 1 + 1] = F[g + 1] + 1
      <4>1. F[g + 1] # 0
        BY <1>1
      <4> QED
        BY <1>4, <3>4, <3>5, <4>1
    <3> QED
      BY <1>1, <3>2, <3>3, <3>5, <3>6
  <2> QED
    BY <2>1, <2>2
<1>12. ASSUME NEW k \in 1..(g + d + u + 1), NEW l \in 1..(g + d + u + 1), k < l, G[k] # 0, G[l] # 0
       PROVE  Step(k, l)
  <2>1. ASSUME NEW x \in 1..(g + d + u + 1)
        PROVE  x \in 1..g \/ (\E j \in 1..d : x = g + j) \/ (\E j \in 1..(u + 1) : x = g + d + j)
    <3>1. u + 1 \in Nat /\ x \in 1..(g + d + (u + 1))
      BY <1>1
    <3> QED
      BY <1>1, <3>1, ThreeParts
  <2> HIDE DEF Step
  <2>2. CASE k \in 1..g
    <3>1. CASE l \in 1..g
      BY <1>6, <1>12, <2>2, <3>1
    <3>2. CASE \E j \in 1..d : l = g + j
      BY <1>9, <1>12, <2>2, <3>2
    <3>3. CASE \E j \in 1..(u + 1) : l = g + d + j
      BY <1>10, <1>12, <2>2, <3>3
    <3> QED
      BY <2>1, <3>1, <3>2, <3>3
  <2>3. ASSUME NEW x \in 1..d, k = g + x PROVE Step(k, l)
    <3>1. l \notin 1..g
      BY <1>1, <1>12, <2>3
    <3>2. CASE \E j \in 1..d : l = g + j
      BY <1>7, <1>12, <2>3, <3>2
    <3>3. CASE \E j \in 1..(u + 1) : l = g + d + j
      BY <1>11, <1>12, <2>3, <3>3
    <3> QED
      BY <2>1, <3>1, <3>2, <3>3
  <2>4. ASSUME NEW x \in 1..(u + 1), k = g + d + x PROVE Step(k, l)
    <3>1. l \notin 1..g /\ \A j \in 1..d : l # g + j
      BY <1>1, <1>12, <2>4
    <3>2. CASE \E j \in 1..(u + 1) : l = g + d + j
      BY <1>8, <1>12, <2>4, <3>2
    <3> QED
      BY <2>1, <3>1, <3>2
  <2> QED
    BY <2>1, <2>2, <2>3, <2>4
<1>13. \A k \in 1..(g + d + u + 1) : k < k + 1
  BY <1>1
<1> QED
  BY <1>12, <1>13 DEF Grows, Runs, Rises

LEMMA CombinedInPlace ==
    ASSUME NEW w, NEW t, NEW g, NEW u, NEW p, NEW F, NEW f, NEW s, NEW m, NEW h, NEW r, NEW a,
           Redone(w, t, g, u, p, F, f, s, m, h, r, a),
           NEW G, Combined(G, F, f, g, Len(p), u, h, Len(a)), NEW k \in 1..Len(w)
    PROVE  InPlace(s, 1, Len(s), w[k], G[k])
<1> DEFINE d == Len(p)
           n == Len(a)
<1>1. /\ g \in Nat /\ u \in Nat /\ h \in Nat /\ r \in Nat /\ d \in Nat /\ n \in Nat
      /\ Len(t) = g + 1 + u /\ Len(m) = h + 1 + r /\ Len(w) = g + d + u /\ Len(s) = h + n + r
  BY SMTT(60) DEF Redone, Spliced
<1>2. /\ \A x \in 1..g : w[x] = t[x]
      /\ \A x \in 1..d : w[g + x] = p[x]
      /\ \A x \in 1..u : w[g + d + x] = t[g + 1 + x]
  BY DEF Redone, Spliced
<1>3. /\ \A x \in 1..h : s[x] = m[x]
      /\ \A x \in 1..n : s[h + x] = a[x]
      /\ \A x \in 1..r : s[h + n + x] = m[h + 1 + x]
  BY DEF Redone, Spliced
<1>4. /\ \A x \in 1..Len(t) : InPlace(m, 1, Len(m), t[x], F[x])
      /\ \A x \in 1..d : InPlace(a, 1, n, p[x], f[x])
  BY DEF Redone, Traces
<1>5. Bands(F, f, g, d, u, h, r, n)
  BY BandsAre
<1>6. /\ \A x \in 1..g : G[x] = F[x]
      /\ \A x \in 1..d : G[g + x] = IF f[x] = 0 THEN 0 ELSE h + f[x]
      /\ \A x \in 1..(u + 1) :
             G[g + d + x] = IF F[g + 1 + x] = 0 THEN 0 ELSE (F[g + 1 + x] - 1) + n
  BY DEF Combined
<1>7. /\ \A x \in 1..g : G[x] \in 0..h
      /\ \A x \in 1..d : G[g + x] # 0 => G[g + x] \in (h + 1)..(h + n)
      /\ \A x \in 1..(u + 1) :
             G[g + d + x] # 0 => G[g + d + x] \in (h + n + 1)..(h + n + r + 1)
      /\ \A x \in 1..u : G[g + d + x] # 0 => G[g + d + x] <= h + n + r
  <2>1. Combined(G, F, f, g, d, u, h, n)
    OBVIOUS
  <2> HIDE DEF d, n
  <2> QED
    BY <1>5, <2>1, CombinedBands
<1> HIDE DEF d, n
<1>8. \/ k \in 1..g
      \/ \E j \in 1..d : k = g + j
      \/ \E j \in 1..u : k = g + d + j
  BY <1>1, ThreeParts
<1>9. CASE k \in 1..g
  <2>1. k \in 1..Len(t) /\ w[k] = t[k] /\ G[k] = F[k] /\ F[k] \in 0..h
    BY <1>1, <1>2, <1>6, <1>7, <1>9
  <2>2. InPlace(m, 1, Len(m), w[k], G[k])
    BY <1>4, <2>1
  <2>3. G[k] # 0 => G[k] \in 1..Len(s) /\ s[G[k]] = m[G[k]]
    BY <1>1, <1>3, <2>1
  <2> QED
    BY <2>2, <2>3 DEF InPlace
<1>10. ASSUME NEW x \in 1..d, k = g + x PROVE InPlace(s, 1, Len(s), w[k], G[k])
  <2>1. w[k] = p[x] /\ InPlace(a, 1, n, p[x], f[x]) /\ G[k] = IF f[x] = 0 THEN 0 ELSE h + f[x]
    BY <1>2, <1>4, <1>6, <1>10
  <2>2. CASE f[x] = 0
    BY <2>1, <2>2 DEF InPlace
  <2>3. CASE f[x] # 0
    <3>1. f[x] \in 1..n /\ w[k] = a[f[x]] /\ G[k] = h + f[x]
      BY <2>1, <2>3 DEF InPlace
    <3>2. s[h + f[x]] = a[f[x]]
      BY <1>3, <3>1
    <3>3. G[k] \in 1..Len(s) /\ G[k] # 0
      <4>1. \A y \in 1..n : h + y \in 1..Len(s) /\ h + y # 0
        BY <1>1
      <4> QED
        BY <3>1, <4>1
    <3> QED
      BY <3>1, <3>2, <3>3 DEF InPlace
  <2> QED
    BY <2>2, <2>3
<1>11. ASSUME NEW x \in 1..u, k = g + d + x PROVE InPlace(s, 1, Len(s), w[k], G[k])
  <2> DEFINE b == F[g + 1 + x]
  <2>1. x \in 1..(u + 1) /\ g + 1 + x \in 1..Len(t)
    BY <1>1
  <2>2. /\ w[k] = t[g + 1 + x] /\ InPlace(m, 1, Len(m), t[g + 1 + x], b)
        /\ G[k] = IF b = 0 THEN 0 ELSE (b - 1) + n
    BY <1>2, <1>4, <1>6, <1>11, <2>1
  <2>3. CASE b = 0
    BY <2>2, <2>3 DEF InPlace
  <2>4. CASE b # 0
    <3>1. b \in (h + 2)..(h + 2 + r) /\ b <= h + 1 + r
      BY <1>5, <2>1, <2>4 DEF Bands
    <3>2. w[k] = m[b] /\ G[k] = (b - 1) + n
      BY <2>2, <2>4 DEF InPlace
    <3> HIDE DEF b
    <3>3. PICK c \in 1..r : b = h + 1 + c
      <4>1. b - (h + 1) \in 1..r /\ b = h + 1 + (b - (h + 1))
        BY <1>1, <3>1
      <4> QED
        BY <4>1
    <3>4. G[k] = h + n + c /\ h + n + c \in 1..Len(s) /\ h + n + c # 0
      BY <1>1, <3>2, <3>3
    <3>5. s[h + n + c] = m[h + 1 + c]
      BY <1>3
    <3> QED
      BY <3>2, <3>3, <3>4, <3>5 DEF InPlace
  <2> QED
    BY <2>3, <2>4
<1> QED
  BY <1>8, <1>9, <1>10, <1>11

LEMMA SplicedTraces ==
    ASSUME NEW w, NEW t, NEW g, NEW u, NEW p, NEW F, NEW f, NEW s, NEW m, NEW h, NEW r, NEW a,
           Redone(w, t, g, u, p, F, f, s, m, h, r, a)
    PROVE  \E G : Traces(w, G, s, 1) /\ Combined(G, F, f, g, Len(p), u, h, Len(a))
<1> DEFINE d == Len(p)
           n == Len(a)
<1>1. /\ g \in Nat /\ u \in Nat /\ h \in Nat /\ r \in Nat /\ d \in Nat /\ n \in Nat
      /\ w \in Seq(Sym) /\ Len(w) = g + d + u /\ Len(s) = h + n + r
  BY DEF Redone, Spliced
<1>2. Bands(F, f, g, d, u, h, r, n)
  BY BandsAre
<1>3. PICK G \in [1..(g + d + u + 1) -> Int] : Combined(G, F, f, g, d, u, h, n)
  <2>1. (\A k \in 1..(g + 1 + u + 1) : F[k] \in Nat) /\ (\A k \in 1..d : f[k] \in Nat)
    <3> HIDE DEF d, n
    <3>1. (\A k \in 1..(g + 1 + u + 1) : F[k] \in Nat) /\ (\A k \in 1..(d + 1) : f[k] \in Nat)
      BY <1>2 DEF Bands
    <3> QED
      BY <1>1, <3>1
  <2> HIDE DEF d, n
  <2> QED
    BY <1>1, <2>1, CombinedExists
<1>4. \A k \in 1..Len(w) : InPlace(s, 1, Len(s), w[k], G[k])
  BY <1>3, CombinedInPlace
<1> HIDE DEF d, n
<1>5. Grows(G, g + d + u + 1)
  BY <1>2, <1>3, CombinedGrows
<1>6. /\ \A k \in 1..g : G[k] \in 0..h
      /\ \A k \in 1..d : G[g + k] # 0 => G[g + k] \in (h + 1)..(h + n)
      /\ \A k \in 1..(u + 1) :
             G[g + d + k] # 0 => G[g + d + k] \in (h + n + 1)..(h + n + r + 1)
  BY <1>2, <1>3, CombinedBands
<1>7. ASSUME NEW k \in 1..(g + d + u + 1) PROVE G[k] \in Nat
  <2>1. k \in 1..g \/ (\E j \in 1..d : k = g + j) \/ (\E j \in 1..(u + 1) : k = g + d + j)
    <3>1. u + 1 \in Nat /\ k \in 1..(g + d + (u + 1))
      BY <1>1
    <3> QED
      BY <1>1, <3>1, ThreeParts
  <2>2. (G[k] # 0 => G[k] \in 0..h \/ G[k] \in (h + 1)..(h + n) \/ G[k] \in (h + n + 1)..(h + n + r + 1))
    BY <1>6, <2>1
  <2>3. \A x \in Int : x \in 0..h \/ x \in (h + 1)..(h + n) \/ x \in (h + n + 1)..(h + n + r + 1) => x \in Nat
    BY <1>1
  <2> QED
    BY <1>3, <2>2, <2>3
<1>8. G[1] \in {0, 1}
  <2>1. /\ F[1] \in {0, 1} /\ F[g + 1] = h + 1 /\ f[1] \in {0, 1} /\ d >= 1
    BY <1>2 DEF Bands
  <2>2. CASE g = 0
    <3>1. h = 0 /\ 1 \in 1..d /\ g + 1 = 1
      BY <1>1, <2>1, <2>2
    <3>2. G[g + 1] = IF f[1] = 0 THEN 0 ELSE h + f[1]
      BY <1>3, <3>1 DEF Combined
    <3> QED
      BY <2>1, <3>1, <3>2
  <2>3. CASE g # 0
    <3>1. 1 \in 1..g
      BY <1>1, <2>3
    <3> QED
      BY <1>3, <2>1, <3>1 DEF Combined
  <2> QED
    BY <2>2, <2>3
<1>9. G[Len(w) + 1] = Len(s) + 1
  <2>1. F[g + 1 + (u + 1)] = h + 2 + r
    BY <1>2 DEF Bands
  <2>2. u + 1 \in 1..(u + 1)
    BY <1>1
  <2>3. G[g + d + (u + 1)] =
            IF F[g + 1 + (u + 1)] = 0 THEN 0 ELSE (F[g + 1 + (u + 1)] - 1) + n
    BY <1>3, <2>2 DEF Combined
  <2>4. g + d + (u + 1) = Len(w) + 1 /\ h + 2 + r # 0 /\ (h + 2 + r - 1) + n = Len(s) + 1
    BY <1>1
  <2> DEFINE b == F[g + 1 + (u + 1)]
             c == G[g + d + (u + 1)]
  <2>5. b = h + 2 + r /\ c = IF b = 0 THEN 0 ELSE (b - 1) + n
    BY <2>1, <2>3
  <2>6. c = (h + 2 + r - 1) + n
    <3> HIDE DEF b, c
    <3> QED
      BY <1>1, <2>5
  <2>7. c = G[Len(w) + 1]
    <3> DEFINE x == g + d + (u + 1)
               y == Len(w) + 1
    <3>1. x = y
      BY <2>4
    <3> HIDE DEF x, y
    <3>2. G[x] = G[y]
      BY <3>1
    <3> QED
      BY <3>2 DEF x, y
  <2> HIDE DEF c
  <2> QED
    BY <2>4, <2>6, <2>7
<1>10. g + d + u + 1 = Len(w) + 1
  BY <1>1
<1>11. G \in [1..(Len(w) + 1) -> Nat]
  BY <1>3, <1>7, <1>10
<1>12. Traces(w, G, s, 1)
  BY <1>1, <1>4, <1>5, <1>8, <1>9, <1>10, <1>11 DEF Traces
<1> QED
  BY <1>3, <1>12 DEF d, n

-----------------------------------------------------------------------------
\* What stands in brackets goes, wherever the brackets are.

\* The parts have been redacted and put together again to w.
Recast(w, t, g, u, p, F, f, s, m, h, r, a, G) ==
    /\ Redone(w, t, g, u, p, F, f, s, m, h, r, a)
    /\ StringFacts(t, F, m) /\ StringFacts(p, f, a)
    /\ m[h + 1].char = Hole
    /\ Traces(w, G, s, 1) /\ Combined(G, F, f, g, Len(p), u, h, Len(a))

\* No value in s ends in "://".
NoneEndsInSep(s) ==
    \A v \in Values : \A j \in 1..Len(s) : StandsAt(v, s, j) => v[Len(v)] # Sep

\* The only "://" of what stands between it and an @, and no value over either.
Sole(s, i, at) ==
    /\ Bracket(s, i, at) /\ Untouched(s, i) /\ Untouched(s, at) /\ NoneEndsInSep(s)
    /\ \A k \in (i + 1)..(at - 1) : s[k].char # Sep

LEMMA HoleStays ==
    ASSUME NEW w, NEW t, NEW g, NEW u, NEW p, NEW F, NEW f, NEW s, NEW m, NEW h, NEW r, NEW a,
           Redone(w, t, g, u, p, F, f, s, m, h, r, a)
    PROVE  In(F, t, h + 1)
<1>1. Len(t) = g + 1 + u /\ g \in Nat /\ u \in Nat /\ F[g + 1] = h + 1
  BY DEF Redone, Spliced
<1>2. g + 1 \in 1..Len(t)
  BY <1>1
<1> QED
  BY <1>1, <1>2 DEF In

\* What is not touched in the whole is not swallowed in a part.
LEMMA PartsUntouched ==
    ASSUME NEW w, NEW t, NEW g, NEW u, NEW p, NEW F, NEW f, NEW s, NEW m, NEW h, NEW r, NEW a,
           Redone(w, t, g, u, p, F, f, s, m, h, r, a)
    PROVE  /\ \A x \in 1..h : Untouched(s, x) => ~Swallowed(t, F, m, 1, x)
           /\ \A x \in 1..r : Untouched(s, h + Len(a) + x) => ~Swallowed(t, F, m, 1, h + 1 + x)
           /\ \A x \in 1..Len(a) : Untouched(s, h + x) => ~Swallowed(p, f, a, 1, x)
<1> DEFINE n == Len(a)
<1>1. /\ Spliced(s, m, h, r, a) /\ h \in Nat /\ r \in Nat /\ n \in Nat
      /\ Len(m) = h + 1 + r
  BY DEF Redone, Spliced
<1>2. In(F, t, h + 1)
  BY HoleStays
<1>3. ASSUME NEW v \in Values PROVE Len(v) \in Nat /\ Len(v) >= 1
  BY ValuesArePlain DEF Plain
<1>4. ASSUME NEW v \in Values
      PROVE  /\ \A j \in 1..Len(m) : StandsAt(v, m, j) /\ j + Len(v) - 1 <= h => StandsAt(v, s, j)
             /\ \A j \in 1..r : StandsAt(v, m, h + 1 + j) => StandsAt(v, s, h + n + j)
             /\ \A j \in 1..n : StandsAt(v, a, j) => StandsAt(v, s, h + j)
  BY <1>1, SplicedStands
<1> HIDE DEF n
<1>5. ASSUME NEW x \in 1..h, Untouched(s, x), Swallowed(t, F, m, 1, x) PROVE FALSE
  <2>1. PICK v \in Values : \E j \in 1..x :
            /\ StandsAt(v, m, j) /\ x \in j..(j + Len(v) - 1)
            /\ \A y \in j..(j + Len(v) - 1) : ~In(F, t, y)
    BY <1>5 DEF Swallowed
  <2>2. PICK j \in 1..x :
            /\ StandsAt(v, m, j) /\ x \in j..(j + Len(v) - 1)
            /\ \A y \in j..(j + Len(v) - 1) : ~In(F, t, y)
    BY <2>1
  <2>3. h + 1 \notin j..(j + Len(v) - 1)
    BY <1>2, <2>2
  <2>4. j + Len(v) - 1 <= h /\ j \in 1..Len(m)
    BY <1>1, <1>3, <2>3
  <2>5. StandsAt(v, s, j)
    BY <1>4, <2>2, <2>4
  <2> QED
    BY <1>5, <2>2, <2>5 DEF Untouched
<1>6. ASSUME NEW x \in 1..r, Untouched(s, h + n + x), Swallowed(t, F, m, 1, h + 1 + x) PROVE FALSE
  <2>1. PICK v \in Values : \E j \in 1..(h + 1 + x) :
            /\ StandsAt(v, m, j) /\ h + 1 + x \in j..(j + Len(v) - 1)
            /\ \A y \in j..(j + Len(v) - 1) : ~In(F, t, y)
    BY <1>6 DEF Swallowed
  <2>2. PICK j \in 1..(h + 1 + x) :
            /\ StandsAt(v, m, j) /\ h + 1 + x \in j..(j + Len(v) - 1)
            /\ \A y \in j..(j + Len(v) - 1) : ~In(F, t, y)
    BY <2>1
  <2>3. h + 1 \notin j..(j + Len(v) - 1)
    BY <1>2, <2>2
  <2>4. PICK c \in 1..x : j = h + 1 + c
    <3>1. j - (h + 1) \in 1..x /\ j = h + 1 + (j - (h + 1))
      BY <1>1, <1>3, <2>2, <2>3
    <3> QED
      BY <3>1
  <2>5. c \in 1..r
    BY <1>1
  <2>6. StandsAt(v, s, h + n + c)
    BY <1>4, <2>2, <2>4, <2>5
  <2>7. h + n + c \in 1..(h + n + x) /\ h + n + x \in (h + n + c)..(h + n + c + Len(v) - 1)
    BY <1>1, <1>3, <2>2, <2>4
  <2> QED
    BY <1>6, <2>6, <2>7 DEF Untouched
<1>7. ASSUME NEW x \in 1..n, Untouched(s, h + x), Swallowed(p, f, a, 1, x) PROVE FALSE
  <2>1. PICK v \in Values : \E j \in 1..x : StandsAt(v, a, j) /\ x \in j..(j + Len(v) - 1)
    BY <1>7 DEF Swallowed
  <2>2. PICK j \in 1..x : StandsAt(v, a, j) /\ x \in j..(j + Len(v) - 1)
    BY <2>1
  <2>3. j \in 1..n
    BY <1>1
  <2>4. StandsAt(v, s, h + j)
    BY <1>4, <2>2, <2>3
  <2>5. h + j \in 1..(h + x) /\ h + x \in (h + j)..(h + j + Len(v) - 1)
    BY <1>1, <1>3, <2>2
  <2> QED
    BY <1>7, <2>4, <2>5 DEF Untouched
<1> QED
  BY <1>5, <1>6, <1>7 DEF n

\* A "://" at l of w, with nothing white up to k and only what stood behind i from k on, opens
\* what the @ at q closes.
LEMMA EndsMeet ==
    ASSUME NEW w, NEW s \in Seq(Sym), NEW G, Traces(w, G, s, 1), NEW i, NEW at, Sole(s, i, at),
           NEW x, NEW e, BracketsGone(x, e, w),
           NEW y \in 1..Len(w), G[y] \in (i + 1)..(at - 1), In(e, x, y),
           NEW k \in 1..y, NEW l \in 1..(k - 1), w[l].char = Sep, Unwhite(w, l, k - 1),
           G[l] = i \/ G[l + 1] = 0,
           NEW q \in 1..Len(w), G[q] = at,
           \A z \in k..q : G[z] = 0 \/ G[z] >= i
    PROVE  FALSE
<1>1. /\ w \in Seq(Sym) /\ Len(w) \in Nat /\ Len(s) \in Nat
      /\ \A z \in 1..Len(w) : G[z] \in 0..Len(s)
      /\ \A z \in 1..Len(w) : G[z] # 0 => w[z] = s[G[z]]
      /\ \A z \in 1..Len(w) : G[z] = 0 => w[z].char \in Marks
      /\ \A z, c \in 1..(Len(w) + 1) : z < c /\ G[z] # 0 /\ G[c] # 0 => G[z] < G[c]
  BY TraceBounds
<1>2. /\ i \in 1..Len(s) /\ at \in 1..Len(s) /\ i < at
      /\ s[i].char = Sep /\ s[at].char = "@" /\ \A z \in i..at : s[z].char # White
  BY DEF Sole, Bracket, Unwhite
<1>3. y < q
  <2>1. y \in 1..(Len(w) + 1) /\ q \in 1..(Len(w) + 1) /\ G[y] # 0 /\ G[q] # 0
    BY <1>1, <1>2
  <2>2. ~(q < y) /\ q # y
    BY <1>1, <1>2, <2>1, SMTT(60)
  <2> QED
    BY <1>1, <2>2
<1>4. l < y /\ l \in 1..Len(w) /\ l + 1 \in 1..Len(w) /\ l < q /\ k \in 1..Len(w) /\ k < q
  <2>1. Len(w) \in Nat /\ y \in 1..Len(w) /\ q \in 1..Len(w) /\ k \in 1..y /\ l \in 1..(k - 1)
    BY <1>1
  <2> QED
    BY ONLY <1>3, <2>1
<1>5. w[q].char = "@"
  <2>1. G[q] # 0 /\ G[q] = at
    BY <1>2
  <2>2. w[q] = s[at]
    BY <1>1, <2>1
  <2> QED
    BY <1>2, <2>2
<1>6. Unwhite(w, l, q)
  <2> SUFFICES ASSUME NEW z \in l..q PROVE w[z].char # White
    BY DEF Unwhite
  <2>1. CASE z < k
    <3>1. z \in l..(k - 1)
      BY <1>4, <2>1
    <3> QED
      BY <3>1 DEF Unwhite
  <2>2. CASE ~(z < k)
    <3>1. z \in k..q /\ z \in 1..Len(w) /\ z \in 1..(Len(w) + 1) /\ q \in 1..(Len(w) + 1)
      BY <1>1, <1>4, <2>2, SMTT(60)
    <3>2. CASE G[z] = 0
      BY <1>1, <3>1, <3>2 DEF Marks, White
    <3>3. CASE G[z] # 0
      <4>1. G[z] >= i /\ G[z] \in 0..Len(s)
        BY <1>1, <3>1, <3>3
      <4>2. G[z] <= at
        <5>1. z = q \/ z < q
          BY <3>1
        <5>2. z < q => G[z] < G[q]
          <6>1. G[q] # 0
            BY <1>2
          <6> QED
            BY <1>1, <3>1, <3>3, <6>1
        <5> QED
          BY <1>1, <1>2, <4>1, <5>1, <5>2
      <4>3. G[z] \in i..at
        BY <1>2, <4>1, <4>2
      <4> QED
        BY <1>1, <1>2, <3>1, <3>3, <4>3
    <3> QED
      BY <3>2, <3>3
  <2> QED
    BY <2>1, <2>2
<1>7. ASSUME NEW v \in Values, NEW j \in 1..Len(w), StandsAt(v, w, j)
      PROVE  /\ Len(v) \in Nat /\ Len(v) >= 1 /\ v[Len(v)] # Sep
             /\ G[j] \in 1..Len(s) /\ StandsAt(v, s, G[j])
             /\ \A c \in 0..(Len(v) - 1) : G[j + c] = G[j] + c
  <2>1. Len(v) \in Nat /\ Len(v) >= 1
    BY ValuesArePlain DEF Plain
  <2>2. /\ G[j] \in 1..Len(s) /\ StandsAt(v, s, G[j])
        /\ \A c \in 0..(Len(v) - 1) : G[j + c] = G[j] + c
    BY <1>7, <2>1, ValueStretch
  <2>3. v[Len(v)] # Sep
    BY <2>2 DEF Sole, NoneEndsInSep
  <2> QED
    BY <2>1, <2>2, <2>3
<1>8. ASSUME NEW v \in Values, NEW b \in 1..Len(w), NEW j \in 1..b, StandsAt(v, w, j),
             b \in j..(j + Len(v) - 1)
      PROVE  ~Untouched(s, G[b])
  <2>1. j \in 1..Len(w)
    BY <1>1
  <2>2. /\ Len(v) \in Nat /\ G[j] \in 1..Len(s) /\ StandsAt(v, s, G[j])
        /\ \A c \in 0..(Len(v) - 1) : G[j + c] = G[j] + c
    BY <1>7, <1>8, <2>1
  <2>3. b - j \in 0..(Len(v) - 1) /\ j + (b - j) = b
    BY <1>8, <2>2
  <2>4. G[b] = G[j] + (b - j)
    BY <2>2, <2>3
  <2>5. G[j] \in 1..G[b] /\ G[b] \in G[j]..(G[j] + Len(v) - 1)
    BY <2>2, <2>3, <2>4, SMTT(60)
  <2> QED
    BY <2>2, <2>5 DEF Untouched
<1>9. Untouched(w, q)
  <2>1. Untouched(s, G[q])
    BY DEF Sole
  <2> QED
    BY <1>8, <2>1 DEF Untouched
<1>10. Untouched(w, l)
  <2>1. CASE G[l] = i
    <3>1. Untouched(s, G[l])
      BY <2>1 DEF Sole
    <3> QED
      BY <1>4, <1>8, <3>1 DEF Untouched
  <2>2. CASE G[l + 1] = 0
    <3> SUFFICES ASSUME NEW v \in Values, NEW j \in 1..l, StandsAt(v, w, j), l \in j..(j + Len(v) - 1)
                 PROVE  FALSE
      BY DEF Untouched
    <3>1. j \in 1..Len(w)
      BY <1>1, <1>4
    <3>2. /\ Len(v) \in Nat /\ Len(v) >= 1 /\ v[Len(v)] # Sep
          /\ G[j] \in 1..Len(s)
          /\ \A c \in 0..(Len(v) - 1) : G[j + c] = G[j] + c
      BY <1>7, <3>1
    <3>3. CASE l = j + Len(v) - 1
      <4>1. Len(v) \in DOMAIN v
        BY <3>2, ValuesArePlain DEF Plain
      <4>2. w[l].char = v[Len(v)]
        BY <3>3, <4>1 DEF StandsAt
      <4> QED
        BY <3>2, <4>2
    <3>4. CASE l # j + Len(v) - 1
      <4>1. (l + 1) - j \in 0..(Len(v) - 1) /\ j + ((l + 1) - j) = l + 1 /\ (l + 1) - j >= 0
        BY <3>2, <3>4, SMTT(60)
      <4>2. G[l + 1] = G[j] + ((l + 1) - j)
        BY <3>2, <4>1
      <4> QED
        BY <2>2, <3>2, <4>1, <4>2, SMTT(60)
    <3> QED
      BY <3>3, <3>4
  <2> QED
    BY <2>1, <2>2
<1>11. ~Swallowed(x, e, w, 1, l) /\ ~Swallowed(x, e, w, 1, q)
  BY <1>9, <1>10, UntouchedStays
<1> QED
  BY <1>3, <1>4, <1>5, <1>6, <1>11 DEF BracketsGone

\* What the parts and the whole have to do with each other.
RecastParts(w, t, g, u, p, F, f, s, m, h, r, a, d, n) ==
    /\ g \in Nat /\ u \in Nat /\ h \in Nat /\ r \in Nat /\ d \in Nat /\ n \in Nat /\ d >= 1 /\ n >= 1
    /\ Len(t) = g + 1 + u /\ Len(m) = h + 1 + r /\ Len(w) = g + d + u /\ Len(s) = h + n + r
    /\ s \in Seq(Sym) /\ m \in Seq(Sym) /\ a \in Seq(Sym)
    /\ \A x \in 1..g : w[x] = t[x]
    /\ \A x \in 1..d : w[g + x] = p[x]
    /\ \A x \in 1..u : w[g + d + x] = t[g + 1 + x]
    /\ \A x \in 1..h : s[x] = m[x]
    /\ \A x \in 1..n : s[h + x] = a[x]
    /\ \A x \in 1..r : s[h + n + x] = m[h + 1 + x]
    /\ F[g + 1] = h + 1 /\ m[h + 1].char = Hole /\ In(F, t, h + 1)

LEMMA RecastIs ==
    ASSUME NEW w, NEW t, NEW g, NEW u, NEW p, NEW F, NEW f, NEW s, NEW m, NEW h, NEW r, NEW a, NEW G,
           Recast(w, t, g, u, p, F, f, s, m, h, r, a, G)
    PROVE  /\ RecastParts(w, t, g, u, p, F, f, s, m, h, r, a, Len(p), Len(a))
           /\ Bands(F, f, g, Len(p), u, h, r, Len(a))
           /\ Combined(G, F, f, g, Len(p), u, h, Len(a))
           /\ \A k \in 1..g : G[k] \in 0..h
           /\ \A k \in 1..Len(p) : G[g + k] # 0 => G[g + k] \in (h + 1)..(h + Len(a))
           /\ \A k \in 1..u :
                  G[g + Len(p) + k] # 0 => G[g + Len(p) + k] \in (h + Len(a) + 1)..(h + Len(a) + r)
<1>1. Redone(w, t, g, u, p, F, f, s, m, h, r, a)
  BY DEF Recast
<1>2. Spliced(w, t, g, u, p) /\ Spliced(s, m, h, r, a) /\ F[g + 1] = h + 1 /\ Len(a) >= 1
  BY <1>1 DEF Redone
<1>3. Bands(F, f, g, Len(p), u, h, r, Len(a)) /\ In(F, t, h + 1)
  BY <1>1, BandsAre, HoleStays
<1>4. Combined(G, F, f, g, Len(p), u, h, Len(a)) /\ m[h + 1].char = Hole
  BY DEF Recast
<1>5. Len(p) >= 1
  BY <1>3 DEF Bands
<1>6. RecastParts(w, t, g, u, p, F, f, s, m, h, r, a, Len(p), Len(a))
  <2>1. /\ g \in Nat /\ u \in Nat /\ h \in Nat /\ r \in Nat
        /\ Len(t) = g + 1 + u /\ Len(w) = g + Len(p) + u
        /\ Len(m) = h + 1 + r /\ Len(s) = h + Len(a) + r
        /\ p \in Seq(Sym) /\ s \in Seq(Sym) /\ m \in Seq(Sym) /\ a \in Seq(Sym)
    BY <1>2 DEF Spliced
  <2>2. /\ \A x \in 1..g : w[x] = t[x]
        /\ \A x \in 1..Len(p) : w[g + x] = p[x]
        /\ \A x \in 1..u : w[g + Len(p) + x] = t[g + 1 + x]
    BY ONLY <1>2 DEF Spliced
  <2>3. /\ \A x \in 1..h : s[x] = m[x]
        /\ \A x \in 1..Len(a) : s[h + x] = a[x]
        /\ \A x \in 1..r : s[h + Len(a) + x] = m[h + 1 + x]
    BY ONLY <1>2 DEF Spliced
  <2>4. Len(p) \in Nat /\ Len(a) \in Nat
    BY <2>1
  <2> DEFINE d == Len(p)
             n == Len(a)
  <2> HIDE DEF d, n
  <2>5. RecastParts(w, t, g, u, p, F, f, s, m, h, r, a, d, n)
    BY <1>2, <1>3, <1>4, <1>5, <2>1, <2>2, <2>3, <2>4 DEF RecastParts, d, n
  <2> QED
    BY <2>5 DEF d, n
<1>7. /\ \A k \in 1..g : G[k] \in 0..h
      /\ \A k \in 1..Len(p) : G[g + k] # 0 => G[g + k] \in (h + 1)..(h + Len(a))
      /\ \A k \in 1..(u + 1) : G[g + Len(p) + k] # 0 =>
             G[g + Len(p) + k] \in (h + Len(a) + 1)..(h + Len(a) + r + 1)
      /\ \A k \in 1..u : G[g + Len(p) + k] # 0 => G[g + Len(p) + k] <= h + Len(a) + r
  BY <1>3, <1>4, CombinedBands
<1>8. \A k \in 1..u : k \in 1..(u + 1)
  BY <1>2 DEF Spliced
<1>9. h + Len(a) \in Nat /\ r \in Nat
  BY <1>2 DEF Spliced
<1>10. \A k \in 1..u :
           G[g + Len(p) + k] # 0 => G[g + Len(p) + k] \in (h + Len(a) + 1)..(h + Len(a) + r)
  BY <1>7, <1>8, <1>9
<1> QED
  BY <1>3, <1>4, <1>6, <1>7, <1>10

\* Both ends are in the argument.
LEMMA BothInArgument ==
    ASSUME NEW w, NEW t, NEW g, NEW u, NEW p, NEW F, NEW f, NEW s, NEW m, NEW h, NEW r, NEW a, NEW G,
           Recast(w, t, g, u, p, F, f, s, m, h, r, a, G),
           NEW i, NEW at, Sole(s, i, at),
           i \in (h + 1)..(h + Len(a)), at \in (h + 1)..(h + Len(a)),
           NEW y \in 1..Len(w), NEW v \in (i + 1)..(at - 1), G[y] = v
    PROVE  FALSE
<1> DEFINE d == Len(p)
           n == Len(a)
<1>1. /\ RecastParts(w, t, g, u, p, F, f, s, m, h, r, a, d, n)
      /\ Combined(G, F, f, g, d, u, h, n)
      /\ \A k \in 1..g : G[k] \in 0..h
      /\ \A k \in 1..u : G[g + d + k] # 0 => G[g + d + k] \in (h + n + 1)..(h + n + r)
  BY RecastIs
<1>2. /\ StringFacts(p, f, a)
      /\ \A x \in 1..n : Untouched(s, h + x) => ~Swallowed(p, f, a, 1, x)
  <2>1. Redone(w, t, g, u, p, F, f, s, m, h, r, a) /\ StringFacts(p, f, a)
    BY DEF Recast
  <2> QED
    BY <2>1, PartsUntouched
<1>3. /\ g \in Nat /\ u \in Nat /\ h \in Nat /\ r \in Nat /\ d \in Nat /\ n \in Nat
      /\ Len(w) = g + d + u
  BY <1>1 DEF RecastParts
<1>4. \A x \in 1..n : s[h + x] = a[x]
  BY <1>1 DEF RecastParts
<1>5. /\ \A k \in 1..g : G[k] \in 0..h
      /\ \A k \in 1..u : G[g + d + k] # 0 => G[g + d + k] \in (h + n + 1)..(h + n + r)
  BY <1>1
<1>6. /\ s[i].char = Sep /\ s[at].char = "@" /\ i < at /\ \A z \in i..at : s[z].char # White
      /\ Untouched(s, i) /\ Untouched(s, at)
  BY DEF Sole, Bracket, Unwhite
<1>7. i \in (h + 1)..(h + n) /\ at \in (h + 1)..(h + n)
  OBVIOUS
<1>8. BracketsGone(p, f, a) /\ Len(p) = d /\ Len(a) = n
  BY <1>2 DEF StringFacts
<1> HIDE DEF d, n
<1>9. PICK b \in 1..n, c \in 1..n : i = h + b /\ at = h + c
  <2>1. i - h \in 1..n /\ at - h \in 1..n /\ i = h + (i - h) /\ at = h + (at - h)
    BY <1>3, <1>7
  <2> QED
    BY <2>1
<1>10. PICK j \in 1..d : y = g + j
  <2>1. y \in 1..(g + d + u)
    BY <1>3
  <2>2. y \in 1..g \/ (\E j \in 1..d : y = g + j) \/ (\E j \in 1..u : y = g + d + j)
    BY <1>3, <2>1, ThreeParts
  <2>3. v \in Nat /\ v # 0 /\ v \notin 0..h /\ v \notin (h + n + 1)..(h + n + r)
    BY <1>3, <1>7
  <2> QED
    BY <1>5, <2>2, <2>3
<1>11. f[j] # 0 /\ v = h + f[j]
  <2>1. G[g + j] = IF f[j] = 0 THEN 0 ELSE h + f[j]
    BY <1>1 DEF Combined
  <2>2. v # 0 /\ v = G[g + j]
    BY <1>3, <1>7, <1>10
  <2> QED
    BY <2>1, <2>2
<1>12. f[j] \in Nat
  <2>1. \A k \in 1..Len(p) : f[k] \in Nat
    <3>1. Traces(p, f, a, 1) /\ a \in Seq(Sym)
      BY <1>1, <1>2 DEF StringFacts, RecastParts
    <3> QED
      BY <3>1, TraceBounds
  <2> QED
    BY <1>8, <2>1
<1>13. f[j] \in 1..n /\ b < f[j] /\ f[j] < c
  BY ONLY <1>3, <1>7, <1>9, <1>11, <1>12, v \in (i + 1)..(at - 1)
<1>14. Unwhite(a, b, c)
  <2> SUFFICES ASSUME NEW z \in b..c PROVE a[z].char # White
    BY DEF Unwhite
  <2>1. z \in 1..n /\ h + z \in i..at
    BY <1>3, <1>9
  <2> QED
    BY <1>4, <1>6, <2>1
<1>15. a[b].char = Sep /\ a[c].char = "@"
  BY <1>4, <1>6, <1>9
<1>16. ~Swallowed(p, f, a, 1, b) /\ ~Swallowed(p, f, a, 1, c)
  BY <1>2, <1>6, <1>9
<1>17. ~In(f, p, f[j])
  BY <1>8, <1>13, <1>14, <1>15, <1>16 DEF BracketsGone
<1> QED
  BY <1>8, <1>17 DEF In

\* Where the message has what the whole has at x.
InMessage(x, b, h, r, n) == (x \in 1..h /\ b = x) \/ \E c \in 1..r : x = h + n + c /\ b = h + 1 + c

LEMMA InMessageIs ==
    ASSUME NEW h \in Nat, NEW r \in Nat, NEW n \in Nat,
           NEW x \in 1..(h + n + r), x \notin (h + 1)..(h + n)
    PROVE  \E b \in 1..(h + 1 + r) : InMessage(x, b, h, r, n)
<1>1. CASE x <= h
  BY <1>1 DEF InMessage
<1>2. CASE ~(x <= h)
  <2>1. x - (h + n) \in 1..r /\ x = h + n + (x - (h + n))
    BY <1>2
  <2>2. h + 1 + (x - (h + n)) \in 1..(h + 1 + r)
    BY <2>1
  <2> QED
    BY <2>1, <2>2 DEF InMessage
<1> QED
  BY <1>1, <1>2

\* Both ends are in the message.
LEMMA BothInMessage ==
    ASSUME NEW w, NEW t, NEW g, NEW u, NEW p, NEW F, NEW f, NEW s, NEW m, NEW h, NEW r, NEW a, NEW G,
           Recast(w, t, g, u, p, F, f, s, m, h, r, a, G),
           NEW i, NEW at, Sole(s, i, at),
           i \notin (h + 1)..(h + Len(a)), at \notin (h + 1)..(h + Len(a)),
           NEW y \in 1..Len(w), NEW v \in (i + 1)..(at - 1), G[y] = v
    PROVE  FALSE
<1> DEFINE d == Len(p)
           n == Len(a)
<1>1. /\ RecastParts(w, t, g, u, p, F, f, s, m, h, r, a, d, n)
      /\ Bands(F, f, g, d, u, h, r, n)
      /\ Combined(G, F, f, g, d, u, h, n)
      /\ \A k \in 1..g : G[k] \in 0..h
      /\ \A k \in 1..d : G[g + k] # 0 => G[g + k] \in (h + 1)..(h + n)
      /\ \A k \in 1..u : G[g + d + k] # 0 => G[g + d + k] \in (h + n + 1)..(h + n + r)
  BY RecastIs
<1>2. /\ StringFacts(t, F, m)
      /\ \A x \in 1..h : Untouched(s, x) => ~Swallowed(t, F, m, 1, x)
      /\ \A x \in 1..r : Untouched(s, h + n + x) => ~Swallowed(t, F, m, 1, h + 1 + x)
  <2>1. Redone(w, t, g, u, p, F, f, s, m, h, r, a) /\ StringFacts(t, F, m)
    BY DEF Recast
  <2> QED
    BY <2>1, PartsUntouched
<1>3. /\ g \in Nat /\ u \in Nat /\ h \in Nat /\ r \in Nat /\ d \in Nat /\ n \in Nat /\ n >= 1
      /\ Len(w) = g + d + u /\ Len(t) = g + 1 + u /\ Len(m) = h + 1 + r /\ Len(s) = h + n + r
  BY <1>1 DEF RecastParts
<1>4. /\ \A x \in 1..h : s[x] = m[x]
      /\ \A x \in 1..r : s[h + n + x] = m[h + 1 + x]
      /\ m[h + 1].char = Hole /\ In(F, t, h + 1)
  BY <1>1 DEF RecastParts
<1>5. /\ \A k \in 1..g : G[k] \in 0..h
      /\ \A k \in 1..d : G[g + k] # 0 => G[g + k] \in (h + 1)..(h + n)
  BY <1>1
<1>6. /\ s[i].char = Sep /\ s[at].char = "@" /\ i < at /\ \A z \in i..at : s[z].char # White
      /\ Untouched(s, i) /\ Untouched(s, at) /\ i \in 1..Len(s) /\ at \in 1..Len(s)
  BY DEF Sole, Bracket, Unwhite
<1>7. i \notin (h + 1)..(h + n) /\ at \notin (h + 1)..(h + n)
  OBVIOUS
<1>8. BracketsGone(t, F, m)
  BY <1>2 DEF StringFacts
<1> HIDE DEF d, n
<1>9. PICK b \in 1..(h + 1 + r), c \in 1..(h + 1 + r) : InMessage(i, b, h, r, n) /\ InMessage(at, c, h, r, n)
  <2>1. i \in 1..(h + n + r) /\ at \in 1..(h + n + r)
    BY <1>3, <1>6
  <2>2. \E b \in 1..(h + 1 + r) : InMessage(i, b, h, r, n)
    BY <1>3, <1>7, <2>1, InMessageIs
  <2>3. \E c \in 1..(h + 1 + r) : InMessage(at, c, h, r, n)
    BY <1>3, <1>7, <2>1, InMessageIs
  <2> QED
    BY <2>2, <2>3
<1>10. ASSUME NEW x \in 1..Len(s), NEW q \in 1..(h + 1 + r), InMessage(x, q, h, r, n)
       PROVE  m[q] = s[x] /\ (Untouched(s, x) => ~Swallowed(t, F, m, 1, q))
  BY <1>2, <1>4, <1>10 DEF InMessage
<1>11. m[b].char = Sep /\ m[c].char = "@" /\ ~Swallowed(t, F, m, 1, b) /\ ~Swallowed(t, F, m, 1, c)
  BY <1>6, <1>9, <1>10
<1>12. /\ i \in Nat /\ at \in Nat /\ b \in Nat /\ c \in Nat /\ v \in Nat /\ v # 0 /\ i < v /\ v < at
  BY <1>3, <1>6
<1>13. Unwhite(m, b, c)
  <2> SUFFICES ASSUME NEW z \in b..c PROVE m[z].char # White
    BY DEF Unwhite
  <2>1. z \in 1..(h + 1 + r) /\ z \in Nat
    BY <1>3
  <2>2. CASE z = h + 1
    BY <1>4, <2>2 DEF Hole, White
  <2>3. ASSUME NEW x \in 1..Len(s), InMessage(x, z, h, r, n) PROVE m[z].char # White
    <3>1. x \in Nat
      BY <1>3
    <3>2. (x < i <=> z < b) /\ (at < x <=> c < z)
      <4>1. InMessage(i, b, h, r, n) /\ InMessage(at, c, h, r, n) /\ InMessage(x, z, h, r, n)
        BY <1>9, <2>3
      <4>2. x < i <=> z < b
        BY ONLY <1>3, <1>12, <2>1, <3>1, <4>1 DEF InMessage
      <4>3. at < x <=> c < z
        BY ONLY <1>3, <1>12, <2>1, <3>1, <4>1 DEF InMessage
      <4> QED
        BY <4>2, <4>3
    <3>3. x \in i..at
      BY <1>12, <3>1, <3>2
    <3>4. m[z] = s[x]
      BY <1>10, <2>1, <2>3
    <3> QED
      BY <1>6, <3>3, <3>4
  <2>4. z <= h => InMessage(z, z, h, r, n) /\ z \in 1..Len(s)
    BY <1>3, <2>1 DEF InMessage
  <2>5. ASSUME ~(z <= h), z # h + 1 PROVE \E x \in 1..Len(s) : InMessage(x, z, h, r, n)
    <3>1. z - (h + 1) \in 1..r /\ z = h + 1 + (z - (h + 1)) /\ h + n + (z - (h + 1)) \in 1..Len(s)
      BY ONLY <1>3, <2>1, <2>5
    <3> QED
      BY <3>1 DEF InMessage
  <2> QED
    BY <2>2, <2>3, <2>4, <2>5
<1>14. ASSUME NEW q \in 1..(h + 1 + r), b < q, q < c PROVE ~In(F, t, q)
  <2>1. b \in 1..Len(m) /\ q \in 1..Len(m) /\ c \in 1..Len(m)
    BY <1>3
  <2> QED
    BY <1>8, <1>11, <1>13, <1>14, <2>1 DEF BracketsGone
<1>15. ASSUME NEW q \in 1..(h + 1 + r), In(F, t, q), InMessage(v, q, h, r, n) PROVE FALSE
  <2>1. q \in Nat
    BY <1>3
  <2>2. InMessage(i, b, h, r, n) /\ InMessage(at, c, h, r, n)
    BY <1>9
  <2>3. i < v <=> b < q
    BY ONLY <1>3, <1>12, <1>15, <2>1, <2>2 DEF InMessage
  <2>4. v < at <=> q < c
    BY ONLY <1>3, <1>12, <1>15, <2>1, <2>2 DEF InMessage
  <2> QED
    BY <1>12, <1>14, <1>15, <2>3, <2>4
<1>16. y \in 1..g \/ (\E j \in 1..d : y = g + j) \/ (\E j \in 1..u : y = g + d + j)
  <2>1. y \in 1..(g + d + u)
    BY <1>3
  <2>2. g \in Nat /\ d \in Nat /\ u \in Nat
    BY <1>3
  <2> QED
    BY ONLY <2>1, <2>2, ThreeParts
<1>17. CASE y \in 1..g
  <2>1. F[y] = v
    BY <1>1, <1>17 DEF Combined
  <2>2. v \in 0..h
    BY <1>5, <1>17
  <2>3. y \in 1..Len(t) /\ v \in 1..h /\ v \in 1..(h + 1 + r)
    BY ONLY <1>3, <1>12, <1>17, <2>2
  <2>4. In(F, t, v) /\ InMessage(v, v, h, r, n)
    BY <2>1, <2>3 DEF In, InMessage
  <2> QED
    BY <1>15, <2>3, <2>4
<1>18. ASSUME NEW j \in 1..d, y = g + j PROVE FALSE
  <2>1. v \in (h + 1)..(h + n)
    BY <1>5, <1>12, <1>18
  <2>2. i <= h /\ at > h + n
    BY ONLY <1>3, <1>7, <1>12, <2>1
  <2>3. InMessage(i, b, h, r, n) /\ InMessage(at, c, h, r, n)
    BY <1>9
  <2>4. b < h + 1 /\ h + 1 < c /\ h + 1 \in 1..(h + 1 + r)
    BY ONLY <1>3, <1>12, <2>2, <2>3 DEF InMessage
  <2> QED
    BY <1>4, <1>14, <2>4
<1>19. ASSUME NEW j \in 1..u, y = g + d + j PROVE FALSE
  <2> DEFINE q == F[g + 1 + j]
  <2>1. g + 1 + j \in 1..Len(t) /\ j \in 1..(u + 1)
    BY <1>3
  <2>2. v = IF q = 0 THEN 0 ELSE (q - 1) + n
    BY <1>1, <1>19, <2>1 DEF Combined
  <2>3. q # 0 /\ q \in (h + 2)..(h + 2 + r) /\ q <= h + 1 + r
    BY <1>1, <1>12, <2>1, <2>2 DEF Bands
  <2>4. In(F, t, q)
    BY <2>1 DEF In
  <2> HIDE DEF q
  <2>5. PICK e \in 1..r : q = h + 1 + e
    <3>1. q - (h + 1) \in 1..r /\ q = h + 1 + (q - (h + 1))
      BY ONLY <1>3, <2>3
    <3> QED
      BY <3>1
  <2>6. v = h + n + e /\ q \in 1..(h + 1 + r)
    BY <1>3, <2>2, <2>3, <2>5
  <2>7. InMessage(v, q, h, r, n)
    BY <2>5, <2>6 DEF InMessage
  <2> QED
    BY <1>15, <2>4, <2>6, <2>7
<1> QED
  BY <1>16, <1>17, <1>18, <1>19

\* The end is in the argument, and still there if the beginning is before it.
LEMMA EndInArgument ==
    ASSUME NEW w, NEW t, NEW g, NEW u, NEW p, NEW F, NEW f, NEW s, NEW m, NEW h, NEW r, NEW a, NEW G,
           Recast(w, t, g, u, p, F, f, s, m, h, r, a, G),
           NEW i, NEW at, Sole(s, i, at), i <= h, at \in (h + 1)..(h + Len(a))
    PROVE  \E q \in 1..Len(w) : G[q] = at
<1> DEFINE d == Len(p)
           n == Len(a)
<1>1. /\ RecastParts(w, t, g, u, p, F, f, s, m, h, r, a, d, n)
      /\ Combined(G, F, f, g, d, u, h, n)
  BY RecastIs
<1>2. /\ StringFacts(p, f, a)
      /\ \A x \in 1..n : Untouched(s, h + x) => ~Swallowed(p, f, a, 1, x)
  <2>1. Redone(w, t, g, u, p, F, f, s, m, h, r, a) /\ StringFacts(p, f, a)
    BY DEF Recast
  <2> QED
    BY <2>1, PartsUntouched
<1>3. /\ g \in Nat /\ u \in Nat /\ h \in Nat /\ r \in Nat /\ d \in Nat /\ n \in Nat
      /\ Len(w) = g + d + u
  BY <1>1 DEF RecastParts
<1>4. \A x \in 1..n : s[h + x] = a[x]
  BY <1>1 DEF RecastParts
<1>5. /\ s[at].char = "@" /\ Untouched(s, at) /\ \A k \in (i + 1)..(at - 1) : s[k].char # Sep
  BY DEF Sole, Bracket
<1>6. at \in (h + 1)..(h + n) /\ i \in Nat /\ i <= h
  BY DEF Sole, Bracket
<1>7. AtsGoWithUrls(p, f, a) /\ Len(p) = d /\ Len(a) = n
  BY <1>2 DEF StringFacts
<1> HIDE DEF d, n
<1>8. PICK c \in 1..n : at = h + c
  <2>1. at - h \in 1..n /\ at = h + (at - h)
    BY ONLY <1>3, <1>6
  <2> QED
    BY <2>1
<1>9. a[c].char = "@" /\ ~Swallowed(p, f, a, 1, c)
  BY <1>2, <1>4, <1>5, <1>8
<1>10. In(f, p, c)
  <2> SUFFICES ASSUME ~In(f, p, c) PROVE FALSE
    OBVIOUS
  <2>1. PICK z \in 1..(c - 1) : a[z].char = Sep
    BY <1>7, <1>9 DEF AtsGoWithUrls
  <2>2. z \in 1..n /\ h + z \in (i + 1)..(at - 1)
    BY ONLY <1>3, <1>6, <1>8, c \in 1..n, z \in 1..(c - 1)
  <2> QED
    BY <1>4, <1>5, <2>1, <2>2
<1>11. PICK j \in 1..d : f[j] = c
  BY <1>7, <1>10 DEF In
<1>12. G[g + j] = h + c
  <2>1. G[g + j] = IF f[j] = 0 THEN 0 ELSE h + f[j]
    BY <1>1 DEF Combined
  <2> QED
    BY <1>11, <2>1
<1>13. g + j \in 1..Len(w)
  BY ONLY <1>3, j \in 1..d
<1> QED
  BY <1>8, <1>12, <1>13

LEMMA IntoArgument ==
    ASSUME NEW w, NEW t, NEW g, NEW u, NEW p, NEW F, NEW f, NEW s, NEW m, NEW h, NEW r, NEW a, NEW G,
           Recast(w, t, g, u, p, F, f, s, m, h, r, a, G),
           NEW i, NEW at, Sole(s, i, at), i <= h, at \in (h + 1)..(h + Len(a)),
           NEW x, NEW e, BracketsGone(x, e, w),
           NEW y \in 1..Len(w), NEW v \in (i + 1)..(at - 1), G[y] = v, In(e, x, y)
    PROVE  FALSE
<1> DEFINE d == Len(p)
           n == Len(a)
<1>1. /\ RecastParts(w, t, g, u, p, F, f, s, m, h, r, a, d, n)
      /\ Combined(G, F, f, g, d, u, h, n)
      /\ Bands(F, f, g, d, u, h, r, n)
      /\ \A k \in 1..d : G[g + k] # 0 => G[g + k] \in (h + 1)..(h + n)
      /\ \A k \in 1..u : G[g + d + k] # 0 => G[g + d + k] \in (h + n + 1)..(h + n + r)
  BY RecastIs
<1>2. /\ StringFacts(t, F, m)
      /\ \A z \in 1..h : Untouched(s, z) => ~Swallowed(t, F, m, 1, z)
  <2>1. Redone(w, t, g, u, p, F, f, s, m, h, r, a) /\ StringFacts(t, F, m)
    BY DEF Recast
  <2> QED
    BY <2>1, PartsUntouched
<1>3. /\ g \in Nat /\ u \in Nat /\ h \in Nat /\ r \in Nat /\ d \in Nat /\ n \in Nat
      /\ Len(w) = g + d + u /\ Len(t) = g + 1 + u /\ Len(m) = h + 1 + r /\ Len(s) = h + n + r
  BY <1>1 DEF RecastParts
<1>4. /\ \A z \in 1..h : s[z] = m[z]
      /\ \A z \in 1..g : w[z] = t[z]
  BY <1>1 DEF RecastParts
<1>5. /\ s[i].char = Sep /\ \A z \in i..at : s[z].char # White
      /\ Untouched(s, i) /\ s \in Seq(Sym)
  BY <1>1 DEF Sole, Bracket, Unwhite, RecastParts
<1>6. at \in (h + 1)..(h + n) /\ i \in 1..h /\ v \in Nat /\ v # 0 /\ i < v /\ v < at
  <2>1. i \in 1..Len(s) /\ h \in Nat /\ n \in Nat /\ at \in (h + 1)..(h + n)
    BY <1>3 DEF Sole, Bracket
  <2> QED
    BY ONLY <2>1, i <= h, v \in (i + 1)..(at - 1)
<1>7. LeftEndsStay(t, F, m) /\ Traces(w, G, s, 1)
  BY <1>2 DEF StringFacts, Recast
<1>8. PICK q \in 1..Len(w) : G[q] = at
  BY EndInArgument
<1> HIDE DEF d, n
<1>9. \A z \in 1..g : G[z] = F[z]
  BY <1>1 DEF Combined
<1>10. F[g + 1] = h + 1 /\ \A z \in 1..g : F[z] <= h /\ F[z] \in Nat
  <2>1. \A z \in 1..g : z \in 1..(g + 1 + u + 1)
    BY <1>3
  <2> QED
    BY <1>1, <2>1 DEF Bands
<1>11. PICK k \in 1..(g + 1) : (y <= g /\ k = y) \/ (y > g /\ k = g + 1)
  <2>1. y \in Nat /\ y >= 1 /\ (y <= g \/ y > g) /\ g + 1 \in 1..(g + 1)
    BY ONLY <1>3, y \in 1..Len(w)
  <2>2. y <= g => y \in 1..(g + 1)
    BY ONLY <1>3, <2>1
  <2> QED
    BY <2>1, <2>2
<1>12. /\ F[k] \in (i + 1)..(h + 1)
       /\ k \in 1..y /\ k \in 1..(Len(t) + 1) /\ k - 1 <= g
  <2>1. CASE y <= g /\ k = y
    <3>1. y \in 1..g
      BY ONLY <1>3, <2>1, y \in 1..Len(w)
    <3>2. F[k] = v /\ F[k] <= h
      BY <1>9, <1>10, <2>1, <3>1
    <3> QED
      BY ONLY <1>3, <1>6, <2>1, <3>1, <3>2
  <2>2. CASE y > g /\ k = g + 1
    BY ONLY <1>3, <1>6, <1>10, <2>2, y \in 1..Len(w)
  <2> QED
    BY <1>11, <2>1, <2>2
<1>13. m[i].char = Sep /\ ~Swallowed(t, F, m, 1, i)
  BY <1>2, <1>4, <1>5, <1>6
<1>14. Unwhite(m, i, F[k] - 1)
  <2> SUFFICES ASSUME NEW z \in i..(F[k] - 1) PROVE m[z].char # White
    BY DEF Unwhite
  <2>1. z \in 1..h /\ z \in i..at
    BY ONLY <1>3, <1>6, <1>12, z \in i..(F[k] - 1)
  <2> QED
    BY <1>4, <1>5, <2>1
<1>15. i \in 1..(F[k] - 1)
  BY ONLY <1>3, <1>6, <1>12
<1>16. LeftEnd(t, F, k, i)
  BY <1>7, <1>12, <1>13, <1>14, <1>15 DEF LeftEndsStay
<1>17. PICK l \in 1..(k - 1) : t[l].char = Sep /\ Unwhite(t, l, k - 1) /\ (F[l] = i \/ F[l + 1] = 0)
  BY <1>16 DEF LeftEnd
<1>18. l \in 1..g /\ l + 1 \in 1..(g + 1)
  BY ONLY <1>3, <1>12, k \in 1..(g + 1), l \in 1..(k - 1)
<1>19. w[l].char = Sep
  BY <1>4, <1>17, <1>18
<1>20. Unwhite(w, l, k - 1)
  <2> SUFFICES ASSUME NEW z \in l..(k - 1) PROVE w[z].char # White
    BY DEF Unwhite
  <2>1. z \in 1..g
    BY ONLY <1>3, <1>12, <1>18, z \in l..(k - 1), k \in 1..(g + 1)
  <2> QED
    BY <1>4, <1>17, <2>1 DEF Unwhite
<1>21. G[l] = i \/ G[l + 1] = 0
  <2>1. CASE F[l] = i
    BY <1>9, <1>18, <2>1
  <2>2. CASE F[l + 1] = 0
    <3>1. l + 1 # g + 1
      BY <1>3, <1>10, <2>2
    <3>2. l + 1 \in 1..g
      BY ONLY <1>3, <1>18, <3>1
    <3> QED
      BY <1>9, <2>2, <3>2
  <2> QED
    BY <1>17, <2>1, <2>2
<1>22. ASSUME NEW z \in k..q PROVE G[z] = 0 \/ G[z] >= i
  <2>1. z \in 1..Len(w) /\ z \in 1..(Len(w) + 1) /\ y \in 1..(Len(w) + 1)
    BY ONLY <1>3, <1>12, z \in k..q, q \in 1..Len(w), k \in 1..(g + 1), y \in 1..Len(w)
  <2>2. CASE y <= g /\ k = y
    <3>1. z = y \/ y < z
      BY ONLY <1>3, <2>2, <2>1, z \in k..q
    <3>2. CASE y < z /\ G[z] # 0
      <4>1. G[y] < G[z]
        <5>1. \A b, c \in 1..(Len(w) + 1) : b < c /\ G[b] # 0 /\ G[c] # 0 => G[b] < G[c]
          BY <1>5, <1>7, TraceBounds
        <5> QED
          BY <1>6, <2>1, <3>2, <5>1
      <4>2. G[z] \in Nat
        BY <1>5, <1>7, <2>1, TraceBounds
      <4> QED
        BY <1>3, <1>6, <4>1, <4>2, SMTT(60)
    <3> QED
      BY <1>6, <3>1, <3>2
  <2>3. CASE y > g /\ k = g + 1
    <3>1. z \in 1..(g + d + u) /\ z \notin 1..g
      BY ONLY <1>3, <2>1, <2>3, z \in k..q
    <3>2. (\E j \in 1..d : z = g + j) \/ (\E j \in 1..u : z = g + d + j)
      BY <1>3, <3>1, ThreeParts
    <3>3. G[z] # 0 => G[z] \in (h + 1)..(h + n) \/ G[z] \in (h + n + 1)..(h + n + r)
      BY <1>1, <3>2
    <3> QED
      BY ONLY <1>3, <1>6, <3>3
  <2> QED
    BY <1>11, <2>2, <2>3
<1>23. k \in 1..y
  BY <1>12
<1>24. BracketsGone(x, e, w) /\ Sole(s, i, at) /\ y \in 1..Len(w) /\ In(e, x, y) /\ G[y] \in (i + 1)..(at - 1)
  OBVIOUS
<1> QED
  BY ONLY <1>5, <1>7, <1>8, <1>17, <1>19, <1>20, <1>21, <1>22, <1>23, <1>24,
          l \in 1..(k - 1), q \in 1..Len(w), EndsMeet

\* The end is behind the argument, and still there if the beginning is in it.
LEMMA EndInTail ==
    ASSUME NEW w, NEW t, NEW g, NEW u, NEW p, NEW F, NEW f, NEW s, NEW m, NEW h, NEW r, NEW a, NEW G,
           Recast(w, t, g, u, p, F, f, s, m, h, r, a, G),
           NEW i, NEW at, Sole(s, i, at), i \in (h + 1)..(h + Len(a)), at \notin (h + 1)..(h + Len(a))
    PROVE  \E q \in 1..Len(w) : G[q] = at
<1> DEFINE d == Len(p)
           n == Len(a)
<1>1. /\ RecastParts(w, t, g, u, p, F, f, s, m, h, r, a, d, n)
      /\ Bands(F, f, g, d, u, h, r, n)
      /\ Combined(G, F, f, g, d, u, h, n)
  BY RecastIs
<1>2. /\ StringFacts(t, F, m)
      /\ \A x \in 1..r : Untouched(s, h + n + x) => ~Swallowed(t, F, m, 1, h + 1 + x)
  <2>1. Redone(w, t, g, u, p, F, f, s, m, h, r, a) /\ StringFacts(t, F, m)
    BY DEF Recast
  <2> QED
    BY <2>1, PartsUntouched
<1>3. /\ g \in Nat /\ u \in Nat /\ h \in Nat /\ r \in Nat /\ d \in Nat /\ n \in Nat
      /\ Len(w) = g + d + u /\ Len(t) = g + 1 + u /\ Len(m) = h + 1 + r /\ Len(s) = h + n + r
  BY <1>1 DEF RecastParts
<1>4. /\ \A x \in 1..r : s[h + n + x] = m[h + 1 + x]
      /\ m[h + 1].char = Hole /\ In(F, t, h + 1)
  BY <1>1 DEF RecastParts
<1>5. /\ s[at].char = "@" /\ Untouched(s, at) /\ \A k \in (i + 1)..(at - 1) : s[k].char # Sep
  BY DEF Sole, Bracket
<1>6. /\ i \in (h + 1)..(h + n) /\ at \in 1..Len(s) /\ i < at /\ at \notin (h + 1)..(h + n)
  BY DEF Sole, Bracket
<1>7. AtsGoWithUrls(t, F, m)
  BY <1>2 DEF StringFacts
<1> HIDE DEF d, n
<1>8. PICK c \in 1..r : at = h + n + c
  <2>1. at - (h + n) \in 1..r /\ at = h + n + (at - (h + n))
    BY ONLY <1>3, <1>6
  <2> QED
    BY <2>1
<1>9. m[h + 1 + c].char = "@" /\ ~Swallowed(t, F, m, 1, h + 1 + c)
  BY <1>2, <1>4, <1>5, <1>8
<1>10. In(F, t, h + 1 + c)
  <2> SUFFICES ASSUME ~In(F, t, h + 1 + c) PROVE FALSE
    OBVIOUS
  <2>1. h + 1 + c \in 1..Len(m)
    BY ONLY <1>3, c \in 1..r
  <2> DEFINE o == h + 1 + c
  <2>2. PICK z \in 1..(o - 1) : m[z].char = Sep /\ \A x \in (z + 1)..o : ~In(F, t, x)
    <3>1. m[o].char = "@" /\ ~Swallowed(t, F, m, 1, o) /\ o \in 1..Len(m) /\ ~In(F, t, o)
      BY <1>9, <2>1
    <3> HIDE DEF o
    <3> QED
      BY ONLY <1>7, <3>1 DEF AtsGoWithUrls
  <2>3. ~(h + 1 \in (z + 1)..(h + 1 + c))
    BY <1>4, <2>2
  <2>4. z # h + 1
    BY <1>4, <2>2 DEF Hole, Sep
  <2>5. z \in Nat /\ z > h + 1 /\ z < h + 1 + c
    BY ONLY <1>3, <2>3, <2>4, c \in 1..r, z \in 1..(h + 1 + c - 1)
  <2>6. PICK x \in 1..r : z = h + 1 + x /\ x < c
    <3>1. z - (h + 1) \in 1..r /\ z = h + 1 + (z - (h + 1)) /\ z - (h + 1) < c
      BY ONLY <1>3, <2>5, c \in 1..r
    <3> QED
      BY <3>1
  <2>7. h + n + x \in (i + 1)..(at - 1)
    BY ONLY <1>3, <1>6, <1>8, <2>6, c \in 1..r, x \in 1..r
  <2> QED
    BY <1>4, <1>5, <2>2, <2>6, <2>7
<1>11. PICK k \in 1..Len(t) : F[k] = h + 1 + c
  BY <1>10 DEF In
<1>12. F[g + 1] = h + 1 /\ \A z \in 1..g : F[z] <= h
  BY <1>1 DEF Bands
<1>13. k \notin 1..g /\ k # g + 1
  <2>1. ~(h + 1 + c <= h) /\ h + 1 + c # h + 1
    BY ONLY <1>3, c \in 1..r
  <2> QED
    BY <1>11, <1>12, <2>1
<1>14. PICK j \in 1..u : k = g + 1 + j
  <2>1. k - (g + 1) \in 1..u /\ k = g + 1 + (k - (g + 1))
    BY ONLY <1>3, <1>13, k \in 1..Len(t)
  <2> QED
    BY <2>1
<1>15. G[g + d + j] = at
  <2>1. j \in 1..(u + 1)
    BY ONLY <1>3, j \in 1..u
  <2>2. G[g + d + j] = IF F[g + 1 + j] = 0 THEN 0 ELSE (F[g + 1 + j] - 1) + n
    BY <1>1, <2>1 DEF Combined
  <2>3. F[g + 1 + j] = h + 1 + c
    BY <1>11, <1>14
  <2> QED
    BY ONLY <1>3, <1>8, <2>2, <2>3, c \in 1..r
<1>16. g + d + j \in 1..Len(w)
  BY ONLY <1>3, j \in 1..u
<1> QED
  BY <1>15, <1>16

LEMMA OutOfArgument ==
    ASSUME NEW w, NEW t, NEW g, NEW u, NEW p, NEW F, NEW f, NEW s, NEW m, NEW h, NEW r, NEW a, NEW G,
           Recast(w, t, g, u, p, F, f, s, m, h, r, a, G),
           NEW i, NEW at, Sole(s, i, at), i \in (h + 1)..(h + Len(a)), at \notin (h + 1)..(h + Len(a)),
           NEW x, NEW e, BracketsGone(x, e, w),
           NEW y \in 1..Len(w), NEW v \in (i + 1)..(at - 1), G[y] = v, In(e, x, y)
    PROVE  FALSE
<1> DEFINE d == Len(p)
           n == Len(a)
<1>1. /\ RecastParts(w, t, g, u, p, F, f, s, m, h, r, a, d, n)
      /\ Combined(G, F, f, g, d, u, h, n)
      /\ Bands(F, f, g, d, u, h, r, n)
      /\ \A k \in 1..g : G[k] \in 0..h
      /\ \A k \in 1..u : G[g + d + k] # 0 => G[g + d + k] \in (h + n + 1)..(h + n + r)
  BY RecastIs
<1>2. /\ StringFacts(p, f, a)
      /\ \A z \in 1..n : Untouched(s, h + z) => ~Swallowed(p, f, a, 1, z)
  <2>1. Redone(w, t, g, u, p, F, f, s, m, h, r, a) /\ StringFacts(p, f, a)
    BY DEF Recast
  <2> QED
    BY <2>1, PartsUntouched
<1>3. /\ g \in Nat /\ u \in Nat /\ h \in Nat /\ r \in Nat /\ d \in Nat /\ n \in Nat
      /\ Len(w) = g + d + u /\ Len(s) = h + n + r
  BY <1>1 DEF RecastParts
<1>4. /\ \A z \in 1..n : s[h + z] = a[z]
      /\ \A z \in 1..d : w[g + z] = p[z]
  BY <1>1 DEF RecastParts
<1>5. /\ s[i].char = Sep /\ \A z \in i..at : s[z].char # White
      /\ Untouched(s, i) /\ s \in Seq(Sym)
  BY <1>1 DEF Sole, Bracket, Unwhite, RecastParts
<1>6. /\ i \in (h + 1)..(h + n) /\ at \in Nat /\ at > h + n
      /\ v \in Nat /\ v # 0 /\ i < v /\ v < at
  <2>1. at \in 1..Len(s) /\ i < at /\ i \in (h + 1)..(h + n) /\ at \notin (h + 1)..(h + n)
    BY DEF Sole, Bracket
  <2> QED
    BY ONLY <1>3, <2>1, v \in (i + 1)..(at - 1)
<1>7. LeftEndsStay(p, f, a) /\ Traces(w, G, s, 1) /\ Len(p) = d /\ Len(a) = n
  BY <1>2 DEF StringFacts, Recast
<1>8. PICK q \in 1..Len(w) : G[q] = at
  BY EndInTail
<1> HIDE DEF d, n
<1>9. PICK b \in 1..n : i = h + b
  <2>1. i - h \in 1..n /\ i = h + (i - h)
    BY ONLY <1>3, <1>6
  <2> QED
    BY <2>1
<1>10. f[d + 1] = n + 1 /\ \A z \in 1..d : f[z] <= n /\ f[z] \in Nat
  <2>1. \A z \in 1..d : z \in 1..(d + 1)
    BY <1>3
  <2> QED
    BY <1>1, <2>1 DEF Bands
<1>11. \A z \in 1..d : G[g + z] = IF f[z] = 0 THEN 0 ELSE h + f[z]
  BY <1>1 DEF Combined
<1>12. y \notin 1..g
  <2>1. v \notin 0..h
    BY ONLY <1>3, <1>6
  <2> QED
    BY <1>1, <2>1
<1>13. PICK c \in 1..(d + 1) : (y <= g + d /\ y = g + c /\ c \in 1..d) \/ (y > g + d /\ c = d + 1)
  <2>1. y \in Nat /\ y > g /\ (y <= g + d \/ y > g + d) /\ d + 1 \in 1..(d + 1)
    BY ONLY <1>3, <1>12, y \in 1..Len(w)
  <2>2. y <= g + d => y - g \in 1..(d + 1) /\ y - g \in 1..d /\ y = g + (y - g)
    BY ONLY <1>3, <2>1
  <2> QED
    BY <2>1, <2>2
<1>14. f[c] \in (b + 1)..(n + 1)
  <2>1. CASE y = g + c /\ c \in 1..d
    <3>1. v = IF f[c] = 0 THEN 0 ELSE h + f[c]
      BY <1>11, <2>1
    <3>2. f[c] <= n /\ f[c] \in Nat
      BY <1>10, <2>1
    <3> QED
      BY ONLY <1>3, <1>6, <1>9, <3>1, <3>2, b \in 1..n
  <2>2. CASE c = d + 1
    <3>1. f[c] = n + 1
      BY <1>10, <2>2
    <3> QED
      BY ONLY <1>3, <3>1, b \in 1..n
  <2> QED
    BY <1>13, <2>1, <2>2
<1>15. a[b].char = Sep /\ ~Swallowed(p, f, a, 1, b)
  BY <1>2, <1>4, <1>5, <1>9
<1>16. Unwhite(a, b, f[c] - 1)
  <2> SUFFICES ASSUME NEW z \in b..(f[c] - 1) PROVE a[z].char # White
    BY DEF Unwhite
  <2>1. z \in 1..n /\ h + z \in i..at
    BY ONLY <1>3, <1>6, <1>9, <1>14, b \in 1..n, z \in b..(f[c] - 1)
  <2> QED
    BY <1>4, <1>5, <2>1
<1>17. b \in 1..(f[c] - 1) /\ c \in 1..(Len(p) + 1)
  <2>1. b \in 1..(f[c] - 1)
    BY ONLY <1>3, <1>14, b \in 1..n
  <2> QED
    BY <1>7, <2>1
<1>18. LeftEnd(p, f, c, b)
  BY <1>7, <1>15, <1>16, <1>17 DEF LeftEndsStay
<1>19. PICK j \in 1..(c - 1) : p[j].char = Sep /\ Unwhite(p, j, c - 1) /\ (f[j] = b \/ f[j + 1] = 0)
  BY <1>18 DEF LeftEnd
<1>20. PICK l, k \in Nat : l = g + j /\ k = g + c
  <2>1. g + j \in Nat /\ g + c \in Nat
    BY ONLY <1>3, c \in 1..(d + 1), j \in 1..(c - 1)
  <2> QED
    BY <2>1
<1>21. /\ j \in 1..d /\ j + 1 \in 1..(d + 1) /\ c - 1 <= d
       /\ l \in 1..(k - 1) /\ l + 1 = g + (j + 1) /\ k - 1 = g + (c - 1)
  BY ONLY <1>3, <1>20, c \in 1..(d + 1), j \in 1..(c - 1)
<1>22. w[l].char = Sep
  BY <1>4, <1>20, <1>19, <1>21
<1>23. Unwhite(w, l, k - 1)
  <2> SUFFICES ASSUME NEW z \in l..(k - 1) PROVE w[z].char # White
    BY DEF Unwhite
  <2>1. z - g \in 1..d /\ z = g + (z - g) /\ z - g \in j..(c - 1)
    BY ONLY <1>3, <1>21, <1>20, z \in l..(k - 1), c \in 1..(d + 1), j \in 1..(c - 1)
  <2>2. w[z] = p[z - g]
    BY <1>4, <2>1
  <2> QED
    BY <1>19, <2>1, <2>2 DEF Unwhite
<1>24. G[l] = i \/ G[l + 1] = 0
  <2>1. CASE f[j] = b
    <3>1. f[j] # 0
      BY ONLY <2>1, b \in 1..n
    <3> QED
      BY <1>9, <1>11, <1>21, <1>20, <2>1, <3>1
  <2>2. CASE f[j + 1] = 0
    <3>1. j + 1 # d + 1
      <4>1. n + 1 # 0
        BY <1>3
      <4> QED
        BY <1>10, <2>2, <4>1
    <3>2. j + 1 \in 1..d
      BY ONLY <1>3, <1>21, <3>1
    <3> QED
      BY <1>11, <1>21, <2>2, <3>2
  <2> QED
    BY <1>19, <2>1, <2>2
<1>25. k \in 1..y
  <2>1. y = g + c \/ (y > g + d /\ c = d + 1)
    BY <1>13
  <2> QED
    BY ONLY <1>3, <1>20, <2>1, c \in 1..(d + 1), y \in 1..Len(w)
<1>26. ASSUME NEW z \in k..q PROVE G[z] = 0 \/ G[z] >= i
  <2>1. z \in 1..Len(w) /\ z \in 1..(Len(w) + 1) /\ y \in 1..(Len(w) + 1)
    BY ONLY <1>3, <1>20, z \in k..q, q \in 1..Len(w), c \in 1..(d + 1), y \in 1..Len(w)
  <2>2. CASE y = k
    <3>1. z = y \/ y < z
      BY ONLY <1>3, <2>2, <2>1, z \in k..q
    <3>2. CASE y < z /\ G[z] # 0
      <4>1. G[y] < G[z]
        <5>1. \A x1, x2 \in 1..(Len(w) + 1) : x1 < x2 /\ G[x1] # 0 /\ G[x2] # 0 => G[x1] < G[x2]
          BY <1>5, <1>7, TraceBounds
        <5> QED
          BY <1>6, <2>1, <3>2, <5>1
      <4>2. G[z] \in Nat
        BY <1>5, <1>7, <2>1, TraceBounds
      <4> QED
        BY <1>3, <1>6, <4>1, <4>2
    <3>3. v >= i
      BY ONLY <1>3, <1>6
    <3> QED
      BY <3>1, <3>2, <3>3
  <2>3. CASE y > g + d /\ c = d + 1
    <3>1. z \in 1..(g + d + u) /\ z \notin 1..g /\ z > g + d
      BY ONLY <1>3, <1>20, <2>1, <2>3, z \in k..q
    <3>2. \E o \in 1..u : z = g + d + o
      <4>1. z - (g + d) \in 1..u /\ z = g + d + (z - (g + d))
        BY ONLY <1>3, <3>1
      <4> QED
        BY <4>1
    <3>3. G[z] # 0 => G[z] \in (h + n + 1)..(h + n + r)
      BY <1>1, <3>2
    <3> QED
      BY ONLY <1>3, <1>6, <3>3
  <2> QED
    BY <1>13, <1>20, <2>2, <2>3
<1>27. BracketsGone(x, e, w) /\ Sole(s, i, at) /\ y \in 1..Len(w) /\ In(e, x, y) /\ G[y] \in (i + 1)..(at - 1)
  OBVIOUS
<1>28. l \in 1..(k - 1)
  BY <1>21
<1> QED
  <2>1. s \in Seq(Sym) /\ Traces(w, G, s, 1)
    BY <1>5, <1>7
  <2>2. \A z \in k..q : G[z] = 0 \/ G[z] >= i
    BY <1>26
  <2> QED
    BY ONLY <2>1, <2>2, <1>8, <1>22, <1>23, <1>24, <1>25, <1>27, <1>28, q \in 1..Len(w), EndsMeet

\* The conversion is the only one that the message has, if the whole has none.
LEMMA OnlyHole ==
    ASSUME NEW s, NEW m, NEW h, NEW r, NEW a, Spliced(s, m, h, r, a), Holes(s) = {}, m[h + 1].char = Hole
    PROVE  Holes(m) = {h + 1}
<1> DEFINE n == Len(a)
<1>1. /\ s \in Seq(Sym) /\ m \in Seq(Sym) /\ h \in Nat /\ r \in Nat /\ n \in Nat
      /\ Len(m) = h + 1 + r /\ Len(s) = h + n + r
  BY DEF Spliced
<1>2. /\ \A x \in 1..h : s[x] = m[x]
      /\ \A x \in 1..r : s[h + n + x] = m[h + 1 + x]
  BY DEF Spliced
<1>3. \A x \in 1..Len(s) : s[x].char # Hole
  BY <1>1, SMTT(60) DEF Holes
<1> HIDE DEF n
<1>4. ASSUME NEW x \in 1..Len(m), m[x].char = Hole PROVE x = h + 1
  <2>1. CASE x <= h
    <3>1. x \in 1..h /\ x \in 1..Len(s)
      BY ONLY <1>1, <2>1, x \in 1..Len(m)
    <3> QED
      BY <1>2, <1>3, <1>4, <3>1
  <2>2. CASE ~(x <= h) /\ x # h + 1
    <3>1. PICK c \in 1..r : x = h + 1 + c
      <4>1. x - (h + 1) \in 1..r /\ x = h + 1 + (x - (h + 1))
        BY ONLY <1>1, <2>2, x \in 1..Len(m)
      <4> QED
        BY <4>1
    <3>2. h + n + c \in 1..Len(s)
      BY ONLY <1>1, c \in 1..r
    <3> QED
      BY <1>2, <1>3, <1>4, <3>1, <3>2
  <2> QED
    BY <2>1, <2>2
<1>5. h + 1 \in 1..Len(m) /\ DOMAIN m = 1..Len(m)
  BY <1>1
<1> QED
  BY <1>4, <1>5 DEF Holes

\* What is formatted after its parts have been redacted.
LEMMA RecastExists ==
    ASSUME NEW s, NEW m, NEW h, NEW r, NEW a, Spliced(s, m, h, r, a), Len(a) >= 1,
           Holes(m) = {h + 1}, NEW none,
           Format(RedactString(m), <<RedactString(a)>>, none) # none
    PROVE  \E g, u, F, f, G : Recast(Format(RedactString(m), <<RedactString(a)>>, none),
                                     RedactString(m), g, u, RedactString(a), F, f, s, m, h, r, a, G)
<1> DEFINE t == RedactString(m)
           p == RedactString(a)
           w == Format(t, <<p>>, none)
<1>1. m \in Seq(Sym) /\ a \in Seq(Sym) /\ h \in Nat /\ r \in Nat
  BY DEF Spliced
<1>2. PICK F : StringFacts(t, F, m)
  BY <1>1, RedactedFacts
<1>3. PICK f : StringFacts(p, f, a)
  BY <1>1, RedactedFacts
<1> HIDE DEF t, p
<1>4. Traces(t, F, m, 1) /\ Traces(p, f, a, 1)
  BY <1>2, <1>3 DEF StringFacts
<1>5. t \in Seq(Sym) /\ p \in Seq(Sym)
  BY <1>4 DEF Traces
<1>6. w # none
  BY DEF t, p
<1>7. PICK g, u \in Nat : Holes(t) = {g + 1} /\ Spliced(w, t, g, u, p)
  BY <1>5, <1>6, FormatOne
<1> HIDE DEF w
<1>8. g + 1 \in 1..Len(t) /\ t[g + 1].char = Hole
  BY <1>5, <1>7, HolesFinite DEF Holes
<1>9. F[g + 1] = h + 1 /\ m[h + 1].char = Hole
  <2>1. InPlace(m, 1, Len(m), t[g + 1], F[g + 1])
    BY <1>4, <1>8 DEF Traces
  <2>2. Hole \notin Marks
    BY DEF Hole, Marks
  <2>3. F[g + 1] \in 1..Len(m) /\ t[g + 1] = m[F[g + 1]]
    BY <1>8, <2>1, <2>2 DEF InPlace
  <2>4. DOMAIN m = 1..Len(m)
    BY <1>1
  <2>5. F[g + 1] \in Holes(m)
    BY <1>8, <2>3, <2>4 DEF Holes
  <2> QED
    BY <1>8, <2>3, <2>5
<1>10. Redone(w, t, g, u, p, F, f, s, m, h, r, a)
  BY <1>4, <1>7, <1>9 DEF Redone
<1>11. PICK G : Traces(w, G, s, 1) /\ Combined(G, F, f, g, Len(p), u, h, Len(a))
  BY <1>10, SplicedTraces
<1>12. Recast(w, t, g, u, p, F, f, s, m, h, r, a, G)
  BY <1>2, <1>3, <1>9, <1>10, <1>11 DEF Recast
<1> QED
  BY <1>12 DEF t, p, w

\* What has stood in brackets is gone once what was put together is redacted.
LEMMA RecastGone ==
    ASSUME NEW w, NEW t, NEW g, NEW u, NEW p, NEW F, NEW f, NEW s, NEW m, NEW h, NEW r, NEW a, NEW G,
           Recast(w, t, g, u, p, F, f, s, m, h, r, a, G),
           NEW i, NEW at, Sole(s, i, at), InOrder(s)
    PROVE  Places(RedactString(w)) \intersect (i + 1)..(at - 1) = {}
<1> DEFINE x == RedactString(w)
<1>1. Traces(w, G, s, 1) /\ s \in Seq(Sym) /\ w \in Seq(Sym)
  BY DEF Recast, Redone, Spliced
<1>2. PICK e : StringFacts(x, e, w)
  BY <1>1, RedactedFacts
<1> HIDE DEF x
<1>3. Traces(x, e, w, 1) /\ BracketsGone(x, e, w) /\ x \in Seq(Sym)
  BY <1>2 DEF StringFacts, Traces
<1>4. ASSUME NEW v \in (i + 1)..(at - 1), v \in Places(x) PROVE FALSE
  <2>1. i \in Nat /\ at \in Nat /\ v # 0
    <3>1. i \in 1..Len(s) /\ at \in 1..Len(s)
      BY DEF Sole, Bracket
    <3> QED
      BY ONLY <3>1, v \in (i + 1)..(at - 1)
  <2>2. PICK k \in 1..Len(x) : x[k].at = v
    BY <1>3, <1>4 DEF Places
  <2> DEFINE y == e[k]
  <2>3. InPlace(w, 1, Len(w), x[k], y)
    BY <1>3 DEF Traces
  <2>4. y \in 1..Len(w) /\ w[y].at = v
    BY <2>1, <2>2, <2>3 DEF InPlace
  <2>5. In(e, x, y)
    BY DEF In
  <2> HIDE DEF y
  <2>6. InPlace(s, 1, Len(s), w[y], G[y])
    BY <1>1, <2>4 DEF Traces
  <2>7. G[y] \in 1..Len(s) /\ w[y] = s[G[y]]
    BY <2>1, <2>4, <2>6 DEF InPlace
  <2>8. G[y] = v
    BY <2>4, <2>7 DEF InOrder
  <2>9. CASE i \in (h + 1)..(h + Len(a)) /\ at \in (h + 1)..(h + Len(a))
    BY <2>4, <2>8, <2>9, BothInArgument
  <2>10. CASE i \notin (h + 1)..(h + Len(a)) /\ at \notin (h + 1)..(h + Len(a))
    BY <2>4, <2>8, <2>10, BothInMessage
  <2>11. CASE i \in (h + 1)..(h + Len(a)) /\ at \notin (h + 1)..(h + Len(a))
    BY <1>3, <2>4, <2>5, <2>8, <2>11, OutOfArgument
  <2>12. CASE i \notin (h + 1)..(h + Len(a)) /\ at \in (h + 1)..(h + Len(a))
    <3>1. h \in Nat /\ Len(a) \in Nat /\ i \in Nat /\ i < at
      BY <2>1 DEF Recast, Redone, Spliced, Sole, Bracket
    <3>2. i <= h
      BY <2>12, <3>1
    <3> QED
      BY <1>3, <2>4, <2>5, <2>8, <2>12, <3>2, IntoArgument
  <2> QED
    BY <2>9, <2>10, <2>11, <2>12
<1> QED
  BY <1>4 DEF x

LEMMA RecordCases ==
    ASSUME NEW s, NEW record \in RecordsOf(s)
    PROVE  \/ record = [msg |-> s, args |-> <<>>, plain |-> TRUE]
           \/ \E i \in 1..Len(s) : \E j \in i..Len(s) :
                  record.msg = Message(s, i, j) /\ record.args = <<SubSeq(s, i, j)>>
<1>1. ASSUME NEW i \in 1..Len(s), NEW j \in i..Len(s), NEW p \in BOOLEAN, record = Cut(s, i, j, p)
      PROVE  record.msg = Message(s, i, j) /\ record.args = <<SubSeq(s, i, j)>>
  <2> DEFINE m == Message(s, i, j)
             a == <<SubSeq(s, i, j)>>
  <2>1. record = [msg |-> m, args |-> a, plain |-> p]
    BY <1>1 DEF Cut, Message
  <2> HIDE DEF m, a
  <2>2. record.msg = m /\ record.args = a
    BY <2>1
  <2> QED
    BY <2>2 DEF m, a
<1> QED
  BY <1>1 DEF RecordsOf

\* A record with an argument in its message.
Logged(x, s, b, c, record, none) ==
    /\ b \in 1..Len(s) /\ c \in b..Len(s)
    /\ record.msg = Message(s, b, c) /\ record.args = <<SubSeq(s, b, c)>>
    /\ x = RedactRecord(record.msg, record.args, record.plain, none) /\ x # none

LEMMA CutGone ==
    ASSUME NEW s \in Seq(Sym), InOrder(s), NEW x, NEW b, NEW c, NEW record, NEW none, Logged(x, s, b, c, record, none),
           NEW i, NEW at, Bracket(s, i, at), Untouched(s, i), Untouched(s, at),
           record.plain => Sole(s, i, at) /\ Holes(s) = {}
    PROVE  Places(x) \intersect (i + 1)..(at - 1) = {}
<1> DEFINE m == record.msg
           a == SubSeq(s, b, c)
           plain == record.plain
<1>1. /\ b \in 1..Len(s) /\ c \in b..Len(s)
      /\ record.msg = Message(s, b, c) /\ record.args = <<SubSeq(s, b, c)>>
      /\ x = RedactRecord(record.msg, record.args, record.plain, none) /\ x # none
  BY DEF Logged
<1>2. PICK h, r \in Nat : h = b - 1 /\ r = Len(s) - c /\ h + 1 = b
  <2>1. Len(s) \in Nat
    OBVIOUS
  <2>2. b - 1 \in Nat /\ Len(s) - c \in Nat /\ (b - 1) + 1 = b
    BY ONLY <1>1, <2>1
  <2> QED
    BY <2>2
<1>3. Spliced(s, m, h, r, a) /\ record.args = <<a>> /\ m[h + 1] = Symbol(Hole) /\ Len(a) >= 1
  <2>1. Spliced(s, m, b - 1, Len(s) - c, a) /\ record.args = <<a>> /\ m[b] = Symbol(Hole)
    BY <1>1, CutSpliced
  <2>2. Len(a) >= 1
    BY <1>1
  <2>3. h + 1 = b
    BY <1>2
  <2> QED
    BY <1>2, <2>1, <2>2, <2>3
<1> HIDE DEF m, a, plain
<1>4. m[h + 1].char = Hole /\ m \in Seq(Sym) /\ a \in Seq(Sym)
  BY <1>3 DEF Symbol, Spliced
<1>5. h + 1 \in Holes(m)
  <2>1. h + 1 \in 1..Len(m) /\ DOMAIN m = 1..Len(m)
    BY <1>3, <1>4 DEF Spliced
  <2> QED
    BY <1>4, <2>1 DEF Holes
<1> DEFINE whole == IF plain THEN Format(RedactString(m), <<RedactString(a)>>, none)
                    ELSE Format(m, <<a>>, none)
<1>6. /\ x = IF whole = none THEN whole ELSE RedactString(whole)
  <2>1. [k \in DOMAIN <<a>> |-> RedactString(<<a>>[k])] = <<RedactString(a)>>
    BY DOMAIN <<a>> = {1}
  <2>2. <<a>> # <<>>
    OBVIOUS
  <2> QED
    BY <1>1, <1>3, <2>1, <2>2 DEF RedactRecord, m, plain
<1>7. whole # none /\ x = RedactString(whole)
  BY <1>1, <1>6
<1>8. CASE plain
  <2>1. Sole(s, i, at) /\ Holes(s) = {}
    BY <1>8 DEF plain
  <2>2. Holes(m) = {h + 1}
    BY <1>3, <1>4, <2>1, OnlyHole
  <2>3. whole = Format(RedactString(m), <<RedactString(a)>>, none)
    BY <1>8
  <2>4. PICK g, u, F, f, G : Recast(whole, RedactString(m), g, u, RedactString(a), F, f, s, m, h, r, a, G)
    BY <1>3, <1>7, <2>3, <2>2, RecastExists
  <2> HIDE DEF whole
  <2>5. Places(RedactString(whole)) \intersect (i + 1)..(at - 1) = {}
    BY <2>1, <2>4, RecastGone
  <2> QED
    BY <1>7, <2>5
<1>9. CASE ~plain
  <2>1. whole = Format(m, <<a>>, none) /\ whole # none
    BY <1>7, <1>9
  <2>2. PICK g, u \in Nat : Holes(m) = {g + 1} /\ Spliced(whole, m, g, u, a)
    BY <1>4, <2>1, FormatOne
  <2> HIDE DEF whole
  <2>3. g = h /\ u = r
    <3>1. g + 1 = h + 1
      BY <1>5, <2>2
    <3>2. Len(m) = h + 1 + r /\ Len(m) = g + 1 + u
      BY <1>3, <2>2 DEF Spliced
    <3> QED
      BY <3>1, <3>2
  <2>4. whole = s
    BY <1>3, <2>2, <2>3, SplicedOnce
  <2>5. Places(RedactString(s)) \intersect (i + 1)..(at - 1) = {}
    BY BracketGonePlain
  <2> QED
    BY <1>7, <2>4, <2>5
<1> QED
  BY <1>8, <1>9

\* Userinfo stands in brackets.
LEMMA UserinfoIsBracket ==
    ASSUME NEW s \in Seq(Sym), NEW i \in 1..Len(s), NEW at \in 1..Len(s), Userinfo(s, i, at)
    PROVE  Bracket(s, i, at)
<1>1. /\ s[i].char # White /\ s[at].char # White
      /\ \A k \in (i + 1)..(at - 1) : s[k].char # White
  BY DEF Userinfo, Sep, White
<1>2. \A k \in i..at : k = i \/ k = at \/ k \in (i + 1)..(at - 1)
  OBVIOUS
<1>3. Unwhite(s, i, at)
  BY ONLY <1>1, <1>2 DEF Unwhite
<1> QED
  BY <1>3 DEF Bracket, Userinfo

\* audit.py, _redact_url_userinfo: what stands between "://" and an @ behind it is written
\* in no field of an event, and not in the message of a library either, unless a value has taken
\* one of the two away.  In a message whose parts are redacted one by one, none of its other
\* conversions is left, no second "://" stands between the two, and no value ends in one.
THEOREM NoUserinfoIsWritten == Spec => []UserinfoGone
<1>1. LineInv => UserinfoGone
  <2> SUFFICES ASSUME LineInv, stage = "written", shown # None,
                      NEW i \in DOMAIN source, NEW at \in DOMAIN source,
                      Userinfo(source, i, at),
                      parts.plain /\ parts.args # <<>> =>
                          /\ \A k \in (i + 1)..(at - 1) : source[k].char # Sep
                          /\ \A v \in Values : \A j \in DOMAIN source :
                                 StandsAt(v, source, j) => v[Len(v)] # Sep
                          /\ Holes(source) = {},
                      \A v \in Values : \A j, h \in DOMAIN Seen :
                          StandsAt(v, Seen, j) /\ h \in j..(j + Len(v) - 1)
                              => Seen[h].at \notin {i, at}
               PROVE  Places(shown) \intersect (i + 1)..(at - 1) = {}
    BY DEF UserinfoGone
  <2>1. /\ source \in Strings /\ source \in Seq(Sym) /\ InOrder(source)
        /\ i \in 1..Len(source) /\ at \in 1..Len(source) /\ DOMAIN source = 1..Len(source)
    <3>1. source \in Strings
      BY DEF LineInv
    <3>2. source \in Seq(Sym) /\ InOrder(source)
      BY <3>1, StringsTyped DEF InOrder
    <3> QED
      BY <3>1, <3>2
  <2>2. Bracket(source, i, at)
    BY <2>1, UserinfoIsBracket
  <2>3. /\ parts.plain /\ parts.args # <<>> =>
               /\ \A k \in (i + 1)..(at - 1) : source[k].char # Sep
               /\ NoneEndsInSep(source) /\ Holes(source) = {}
        /\ \A v \in Values : \A j, h \in DOMAIN Seen :
               StandsAt(v, Seen, j) /\ h \in j..(j + Len(v) - 1) => Seen[h].at \notin {i, at}
    BY <2>1 DEF NoneEndsInSep
  <2>4. Seen \in Seq(Sym)
    <3>1. Json(source) \in Seq(Sym) /\ Repr(source) \in Seq(Sym)
      BY <2>1, EscapePlaces DEF Json, Repr
    <3> QED
      BY <2>1, <3>1 DEF Seen
  <2>5. ASSUME NEW m \in 1..Len(Seen), Seen[m].at \in {i, at} PROVE Untouched(Seen, m)
    <3>1. DOMAIN Seen = 1..Len(Seen) /\ Len(Seen) \in Nat
      BY <2>4
    <3>2. \A j \in 1..m : j \in DOMAIN Seen
      BY <3>1
    <3> QED
      BY <2>3, <2>5, <3>1, <3>2 DEF Untouched
  <2>6. Seen = source => Untouched(source, i) /\ Untouched(source, at)
    <3> SUFFICES ASSUME Seen = source PROVE Untouched(source, i) /\ Untouched(source, at)
      OBVIOUS
    <3>1. i \in 1..Len(source) /\ at \in 1..Len(source) /\ source[i].at = i /\ source[at].at = at
      BY <2>1, <2>2 DEF Bracket, InOrder
    <3> QED
      BY <2>5, <3>1
  <2>7. CASE where = "record"
    <3>1. Seen = source
      BY <2>7 DEF Seen
    <3>2. Untouched(source, i) /\ Untouched(source, at)
      BY <2>6, <3>1
    <3>3. parts.plain /\ parts.args # <<>> => Sole(source, i, at) /\ Holes(source) = {}
      BY <2>2, <2>3, <3>2 DEF Sole
    <3>4. shown = RedactRecord(parts.msg, parts.args, parts.plain, None) /\ parts \in RecordsOf(source)
      BY <2>7 DEF LineInv
    <3>5. CASE parts = [msg |-> source, args |-> <<>>, plain |-> TRUE]
      <4>1. shown = RedactString(source)
        BY <3>4, <3>5, RecordAlone
      <4> QED
        BY <2>1, <2>2, <3>2, <4>1, BracketGonePlain
    <3>6. ASSUME NEW b \in 1..Len(source), NEW c \in b..Len(source),
                 parts.msg = Message(source, b, c), parts.args = <<SubSeq(source, b, c)>>
          PROVE  Places(shown) \intersect (i + 1)..(at - 1) = {}
      <4>1. Logged(shown, source, b, c, parts, None)
        BY <3>4, <3>6 DEF Logged
      <4>2. parts.plain => Sole(source, i, at) /\ Holes(source) = {}
        BY <3>3, <3>6
      <4> QED
        BY ONLY <2>1, <2>2, <3>2, <4>1, <4>2, CutGone
    <3>7. \/ parts = [msg |-> source, args |-> <<>>, plain |-> TRUE]
          \/ \E b \in 1..Len(source) : \E c \in b..Len(source) :
                 parts.msg = Message(source, b, c) /\ parts.args = <<SubSeq(source, b, c)>>
      BY <3>4, RecordCases
    <3> QED
      BY <3>5, <3>6, <3>7
  <2>8. CASE where # "record"
    <3>1. where \in Positions /\ shown = RedactString(Json(Sanitize(where, source)))
      BY <2>8, RecordAlone DEF LineInv
    <3>2. where \in {"preserved", "sensitive", "key", "object", "value"}
      BY <3>1, PayloadsAssumptions
    <3>3. Places(shown) \subseteq Places(Sanitize(where, source))
      <4>1. Sanitize(where, source) \in Seq(Sym)
        BY <2>1, <3>1, SanitizedTyped
      <4>2. /\ Json(Sanitize(where, source)) \in Seq(Sym)
            /\ Places(Json(Sanitize(where, source))) \subseteq Places(Sanitize(where, source))
        BY <4>1, EscapePlaces DEF Json
      <4> QED
        BY <3>1, <4>2, RedactedIsClean
    <3>4. Seen = source =>
              Places(RedactString(source)) \intersect (i + 1)..(at - 1) = {}
      BY <2>1, <2>2, <2>6, BracketGonePlain
    <3>5. ASSUME NEW special, Seen = Escape(source, special)
          PROVE  Places(RedactString(Escape(source, special))) \intersect (i + 1)..(at - 1) = {}
      <4>1. \A m \in 1..Len(Escape(source, special)) :
                Escape(source, special)[m].at \in {i, at} => Untouched(Escape(source, special), m)
        BY <2>5, <3>5
      <4> QED
        BY <2>1, <2>2, <4>1, BracketGoneEscaped
    <3>6. CASE where = "preserved"
      <4>1. Seen = Escape(source, JsonEscaped) /\ Sanitize(where, source) = source
        BY <3>6 DEF Seen, Sanitize, Json
      <4>2. Json(source) = Escape(source, JsonEscaped)
        BY DEF Json
      <4> QED
        BY <3>1, <3>5, <4>1, <4>2
    <3>7. CASE where = "sensitive"
      <4>1. Sanitize(where, source) = <<Symbol("<redacted>")>>
        BY <3>7 DEF Sanitize
      <4>2. Places(<<Symbol("<redacted>")>>) = {}
        BY DEF Places, Symbol
      <4> QED
        BY <3>3, <4>1, <4>2
    <3>8. CASE where = "key"
      <4>1. Seen = source /\ Sanitize(where, source) = RedactString(source)
        BY <3>8 DEF Seen, Sanitize
      <4> QED
        BY <3>3, <3>4, <4>1
    <3>9. CASE where = "object"
      <4> DEFINE special == ReprEscaped(CharsOf(source))
      <4>1. /\ Seen = Escape(source, special)
            /\ Sanitize(where, source) = SanitizeString(Escape(source, special))
        BY <3>9 DEF Seen, Sanitize, Repr
      <4> HIDE DEF special
      <4>2. Places(SanitizeString(Escape(source, special)))
                \subseteq Places(RedactString(Escape(source, special)))
        BY <2>1, EscapePlaces, SanitizedPlaces
      <4> QED
        BY <3>3, <3>5, <4>1, <4>2
    <3>10. CASE where = "value"
      <4>1. Seen = source /\ Sanitize(where, source) = SanitizeString(source)
        BY <3>10 DEF Seen, Sanitize
      <4>2. Places(SanitizeString(source)) \subseteq Places(RedactString(source))
        BY <2>1, SanitizedPlaces
      <4> QED
        BY <3>3, <3>4, <4>1, <4>2
    <3> QED
      BY <3>2, <3>6, <3>7, <3>8, <3>9, <3>10
  <2> QED
    BY <2>7, <2>8
<1> QED
  BY <1>1, LineAlways, PTL

=============================================================================
