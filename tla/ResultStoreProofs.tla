------------------------- MODULE ResultStoreProofs -------------------------
(***************************************************************************)
(* Proofs about ResultStore, for batches of any size and mix: the bulk     *)
(* statement writes what the individual updates would write, the rows only *)
(* ever show what AnswerLog allows, and a fault costs one answer at most.  *)
(***************************************************************************)
EXTENDS ResultStore, Integers, SequenceTheorems, FiniteSetTheorems, WellFoundedInduction, TLAPS

-----------------------------------------------------------------------------
(* Induction, on the set of the numbers for which a fact holds.            *)
LEMMA Least ==
    ASSUME NEW T \in SUBSET Nat, T # {}
    PROVE  \E m \in T : \A n \in T : m <= n
<1>. DEFINE R == OpToRel(<, Nat)
<1>1. IsWellFoundedOn(R, Nat)
  BY NatLessThanWellFounded
<1>2. \A x, y \in Nat : x < y => <<x, y>> \in R
  BY DEF OpToRel
<1>. HIDE DEF R
<1>3. \E x \in T : \A y \in T : ~(<<y, x>> \in R)
  BY <1>1, WFMin
<1>4. PICK m \in T : \A y \in T : ~(<<y, m>> \in R)
  BY <1>3
<1>5. ASSUME NEW n \in T PROVE m <= n
  <2>1. m \in Nat /\ n \in Nat /\ ~(n < m)
    BY <1>2, <1>4
  <2>. QED BY <2>1
<1>. QED BY <1>5

LEMMA Induction ==
    ASSUME NEW n \in Nat, NEW T, 0 \in T, \A i \in 1 .. n : i - 1 \in T => i \in T
    PROVE  0 .. n \subseteq T
<1>. SUFFICES ASSUME ~(0 .. n \subseteq T) PROVE FALSE
  OBVIOUS
<1>1. (0 .. n) \ T \in SUBSET Nat /\ (0 .. n) \ T # {}
  OBVIOUS
<1>2. PICK m \in (0 .. n) \ T : \A k \in (0 .. n) \ T : m <= k
  BY <1>1, Least
<1>3. m \in 1 .. n /\ m - 1 \in 0 .. n /\ ~(m <= m - 1)
  BY <1>2
<1>. QED BY <1>2, <1>3

(* A function defined step by step exists.                                 *)
\* g follows step from c, k times.
Follows(g, k, S, c, step) ==
    /\ g \in [0 .. k -> S]
    /\ g[0] = c
    /\ \A i \in 1 .. k : g[i] = step[i][g[i - 1]]

LEMMA Stepwise ==
    ASSUME NEW n \in Nat, NEW S, NEW c \in S, NEW step \in [1 .. n -> [S -> S]]
    PROVE  \E g : Follows(g, n, S, c, step)
<1>. DEFINE T == {k \in 0 .. n : \E g : Follows(g, k, S, c, step)}
<1>1. 0 \in T
  <2>1. Follows([i \in 0 .. 0 |-> c], 0, S, c, step)
    BY DEF Follows
  <2>. QED BY <2>1
<1>2. ASSUME NEW k \in 1 .. n, k - 1 \in T PROVE k \in T
  <2>1. PICK g : Follows(g, k - 1, S, c, step)
    BY <1>2
  <2>2. g[k - 1] \in S /\ step[k][g[k - 1]] \in S /\ \A i \in 0 .. k - 1 : g[i] \in S
    BY <2>1 DEF Follows
  <2>. DEFINE h == [i \in 0 .. k |-> IF i = k THEN step[k][g[k - 1]] ELSE g[i]]
  <2>3. h \in [0 .. k -> S]
    <3>1. \A i \in 0 .. k : (IF i = k THEN step[k][g[k - 1]] ELSE g[i]) \in S
      BY <2>2
    <3>. QED BY <3>1
  <2>4. h[0] = c /\ h[k] = step[k][h[k - 1]]
    BY <2>1 DEF Follows
  <2>5. \A i \in 1 .. k - 1 : h[i] = step[i][h[i - 1]]
    BY <2>1 DEF Follows
  <2>. HIDE DEF h
  <2>6. \A i \in 1 .. k : h[i] = step[i][h[i - 1]]
    BY <2>4, <2>5
  <2>7. Follows(h, k, S, c, step)
    BY <2>3, <2>4, <2>6 DEF Follows
  <2>. HIDE DEF Follows
  <2>. QED BY <2>7
<1>3. 0 .. n \subseteq T
  <2>. HIDE DEF T
  <2>. QED BY <1>1, <1>2, Induction
<1>. QED BY <1>3
-----------------------------------------------------------------------------
(* The statement.  The WHENs of a column are those of the requests of the  *)
(* batch that have a value for it.                                         *)
LEMMA WithRange ==
    ASSUME NEW b \in Seq(Results), NEW column \in {"message_id", "error"}
    PROVE  /\ With(b, column) \in Seq(Results)
           /\ \A k \in 1 .. Len(With(b, column)) : \E i \in 1 .. Len(b) :
                 With(b, column)[k] = b[i] /\ b[i].answer[column] # None
           /\ \A i \in 1 .. Len(b) : b[i].answer[column] # None =>
                 \E k \in 1 .. Len(With(b, column)) : With(b, column)[k] = b[i]
<1>. DEFINE n == Len(b)
            f == CHOOSE g : g = [i \in 0 .. Len(b) |->
                    IF i = 0 THEN <<>>
                    ELSE IF b[i].answer[column] = None THEN g[i - 1]
                    ELSE Append(g[i - 1], b[i])]
            step == [i \in 1 .. n |-> [s \in Seq(Results) |->
                        IF b[i].answer[column] = None THEN s ELSE Append(s, b[i])]]
            Sound(i, s) ==
                /\ s \in Seq(Results)
                /\ \A k \in 1 .. Len(s) : \E j \in 1 .. i :
                      s[k] = b[j] /\ b[j].answer[column] # None
                /\ \A j \in 1 .. i : b[j].answer[column] # None =>
                      \E k \in 1 .. Len(s) : s[k] = b[j]
<1>1. With(b, column) = f[n]
  BY DEF With
<1>2. n \in Nat /\ \A i \in 1 .. n : b[i] \in Results
  OBVIOUS
<1>3. step \in [1 .. n -> [Seq(Results) -> Seq(Results)]]
  BY <1>2
<1>4. PICK g : Follows(g, n, Seq(Results), <<>>, step)
  <2>1. <<>> \in Seq(Results)
    OBVIOUS
  <2>. HIDE DEF step, n
  <2>. QED BY <1>2, <1>3, <2>1, Stepwise
<1>5. /\ g \in [0 .. n -> Seq(Results)] /\ g[0] = <<>>
      /\ \A i \in 1 .. n : g[i] = IF b[i].answer[column] = None THEN g[i - 1]
                                  ELSE Append(g[i - 1], b[i])
  <2>1. /\ g \in [0 .. n -> Seq(Results)] /\ g[0] = <<>>
        /\ \A i \in 1 .. n : g[i] = step[i][g[i - 1]]
    <3>. HIDE DEF step, n
    <3>. QED BY <1>4 DEF Follows
  <2>2. ASSUME NEW i \in 1 .. n
        PROVE  g[i] = IF b[i].answer[column] = None THEN g[i - 1]
                      ELSE Append(g[i - 1], b[i])
    <3>1. g[i - 1] \in Seq(Results)
      <4>1. i - 1 \in 0 .. n
        BY <1>2
      <4>. HIDE DEF n
      <4>. QED BY <2>1, <4>1
    <3>2. g[i] = step[i][g[i - 1]]
      BY <2>1
    <3>. QED BY <3>1, <3>2
  <2>. QED BY <2>1, <2>2
<1>6. g = [i \in 0 .. Len(b) |->
              IF i = 0 THEN <<>>
              ELSE IF b[i].answer[column] = None THEN g[i - 1]
              ELSE Append(g[i - 1], b[i])]
  <2>. DEFINE h == [i \in 0 .. Len(b) |->
              IF i = 0 THEN <<>>
              ELSE IF b[i].answer[column] = None THEN g[i - 1]
              ELSE Append(g[i - 1], b[i])]
  <2>1. ASSUME NEW i \in 0 .. n PROVE g[i] = h[i]
    <3>1. CASE i = 0
      BY <1>5, <3>1
    <3>2. CASE i \in 1 .. n
      BY <1>5, <3>2
    <3>. QED BY <1>2, <3>1, <3>2
  <2>. QED BY <1>5, <2>1
<1>7. f = [i \in 0 .. Len(b) |->
              IF i = 0 THEN <<>>
              ELSE IF b[i].answer[column] = None THEN f[i - 1]
              ELSE Append(f[i - 1], b[i])]
  BY <1>6
<1>. HIDE DEF f
<1>8. f[0] = <<>>
  BY <1>2, <1>7
<1>9. ASSUME NEW i \in 1 .. n
      PROVE  f[i] = IF b[i].answer[column] = None THEN f[i - 1]
                    ELSE Append(f[i - 1], b[i])
  <2>1. i \in 0 .. Len(b) /\ i # 0
    BY <1>2
  <2>. HIDE DEF n
  <2>. QED BY <1>7, <2>1
<1>10. Sound(0, f[0])
  BY <1>8
<1>11. ASSUME NEW i \in 1 .. n, Sound(i - 1, f[i - 1])
       PROVE  Sound(i, f[i])
  <2>1. CASE b[i].answer[column] = None
    <3>1. f[i] = f[i - 1]
      BY <1>9, <2>1
    <3>. DEFINE s == f[i - 1]
    <3>2. /\ s \in Seq(Results)
          /\ \A k \in 1 .. Len(s) : \E j \in 1 .. i - 1 :
                s[k] = b[j] /\ b[j].answer[column] # None
          /\ \A j \in 1 .. i - 1 : b[j].answer[column] # None =>
                \E k \in 1 .. Len(s) : s[k] = b[j]
      BY <1>11
    <3>. HIDE DEF s
    <3>3. \A j \in 1 .. i - 1 : j \in 1 .. i
      OBVIOUS
    <3>4. \A j \in 1 .. i : j \in 1 .. i - 1 \/ j = i
      OBVIOUS
    <3>5. \A k \in 1 .. Len(s) : \E j \in 1 .. i :
             s[k] = b[j] /\ b[j].answer[column] # None
      BY <3>2, <3>3, Zenon
    <3>6. \A j \in 1 .. i : b[j].answer[column] # None =>
             \E k \in 1 .. Len(s) : s[k] = b[j]
      BY <2>1, <3>2, <3>4, Zenon
    <3>7. Sound(i, s)
      BY <3>2, <3>5, <3>6, Zenon
    <3>. QED BY <3>1, <3>7, Zenon DEF s
  <2>2. CASE b[i].answer[column] # None
    <3>1. f[i] = Append(f[i - 1], b[i]) /\ f[i - 1] \in Seq(Results)
      BY <1>9, <1>11, <2>2
    <3>. DEFINE s == f[i - 1]
                t == f[i]
    <3>2. /\ s \in Seq(Results) /\ t = Append(s, b[i])
          /\ \A k \in 1 .. Len(s) : \E j \in 1 .. i - 1 :
                s[k] = b[j] /\ b[j].answer[column] # None
          /\ \A j \in 1 .. i - 1 : b[j].answer[column] # None =>
                \E k \in 1 .. Len(s) : s[k] = b[j]
      BY <1>11, <3>1
    <3>. HIDE DEF s, t
    <3>3. /\ t \in Seq(Results) /\ Len(t) = Len(s) + 1 /\ Len(s) \in Nat
          /\ \A k \in 1 .. Len(s) : t[k] = s[k]
          /\ t[Len(t)] = b[i]
      BY <1>2, <3>2
    <3>4. ASSUME NEW k \in 1 .. Len(t)
          PROVE  \E j \in 1 .. i : t[k] = b[j] /\ b[j].answer[column] # None
      <4>1. CASE k = Len(t)
        BY <2>2, <3>3, <4>1
      <4>2. CASE k \in 1 .. Len(s)
        <5>1. t[k] = s[k]
          BY <3>3, <4>2
        <5>2. PICK j \in 1 .. i - 1 : s[k] = b[j] /\ b[j].answer[column] # None
          BY <3>2, <4>2, Zenon
        <5>3. j \in 1 .. i
          OBVIOUS
        <5>. QED BY <5>1, <5>2, <5>3, Zenon
      <4>. QED BY <3>3, <4>1, <4>2
    <3>5. ASSUME NEW j \in 1 .. i, b[j].answer[column] # None
          PROVE  \E k \in 1 .. Len(t) : t[k] = b[j]
      <4>1. CASE j = i
        BY <3>3, <4>1
      <4>2. CASE j \in 1 .. i - 1
        <5>1. PICK k \in 1 .. Len(s) : s[k] = b[j]
          BY <3>2, <3>5, <4>2
        <5>2. k \in 1 .. Len(t) /\ t[k] = b[j]
          BY <3>3, <5>1
        <5>. QED BY <5>2
      <4>. QED BY <4>1, <4>2
    <3>. QED BY <3>3, <3>4, <3>5 DEF t
  <2>. QED BY <2>1, <2>2
<1>12. Sound(n, f[n])
  <2>. DEFINE T == {i \in 0 .. n : Sound(i, f[i])}
  <2>1. 0 \in T
    BY <1>2, <1>10
  <2>2. ASSUME NEW i \in 1 .. n, i - 1 \in T PROVE i \in T
    <3>1. Sound(i - 1, f[i - 1])
      BY <2>2
    <3>. HIDE DEF Sound
    <3>. QED BY <1>2, <1>11, <3>1
  <2>. HIDE DEF T
  <2>3. 0 .. n \subseteq T
    BY <1>2, <2>1, <2>2, Induction
  <2>4. n \in T
    BY <1>2, <2>3
  <2>. QED BY <2>4 DEF T
<1>. QED BY <1>1, <1>12

(* Where the binds stand.                                                  *)
LEMMA FourParts ==
    ASSUME NEW S, NEW s \in Seq(S), NEW t \in Seq(S), NEW u \in Seq(S), NEW v \in Seq(S),
           NEW w, w = s \o t \o u \o v
    PROVE  /\ \A i \in 1 .. Len(s) : w[i] = s[i]
           /\ \A i \in 1 .. Len(t) : w[Len(s) + i] = t[i]
           /\ \A i \in 1 .. Len(u) : w[Len(s) + Len(t) + i] = u[i]
           /\ \A i \in 1 .. Len(v) : w[Len(s) + Len(t) + Len(u) + i] = v[i]
<1>. DEFINE st == s \o t
            stu == st \o u
<1>1. /\ Len(s) \in Nat /\ Len(t) \in Nat /\ Len(u) \in Nat /\ Len(v) \in Nat
  OBVIOUS
<1>2. /\ st \in Seq(S) /\ Len(st) = Len(s) + Len(t)
      /\ \A i \in 1 .. Len(s) + Len(t) : st[i] = IF i <= Len(s) THEN s[i] ELSE t[i - Len(s)]
  BY ConcatProperties
<1>. HIDE DEF st
<1>3. /\ stu \in Seq(S) /\ Len(stu) = Len(st) + Len(u)
      /\ \A i \in 1 .. Len(st) + Len(u) : stu[i] = IF i <= Len(st) THEN st[i] ELSE u[i - Len(st)]
  <2>1. st \in Seq(S)
    BY <1>2
  <2>. QED BY <2>1, ConcatProperties
<1>. HIDE DEF stu
<1>4. w = stu \o v
  BY DEF stu, st
<1>5. \A i \in 1 .. Len(stu) + Len(v) :
         w[i] = IF i <= Len(stu) THEN stu[i] ELSE v[i - Len(stu)]
  <2>1. stu \in Seq(S)
    BY <1>3
  <2>. QED BY <1>4, <2>1, ConcatProperties
<1>6. \A i \in 1 .. Len(s) : w[i] = s[i]
  BY <1>1, <1>2, <1>3, <1>5
<1>7. \A i \in 1 .. Len(t) : w[Len(s) + i] = t[i]
  BY <1>1, <1>2, <1>3, <1>5
<1>8. ASSUME NEW i \in 1 .. Len(u) PROVE w[Len(s) + Len(t) + i] = u[i]
  <2>1. w[Len(s) + Len(t) + i] = stu[Len(s) + Len(t) + i]
    BY <1>1, <1>2, <1>3, <1>5
  <2>2. stu[Len(s) + Len(t) + i] = u[i]
    <3>1. /\ Len(s) + Len(t) + i \in 1 .. Len(st) + Len(u)
          /\ ~(Len(s) + Len(t) + i <= Len(st)) /\ (Len(s) + Len(t) + i) - Len(st) = i
      BY <1>1, <1>2
    <3>2. stu[Len(s) + Len(t) + i] = u[(Len(s) + Len(t) + i) - Len(st)]
      BY <1>3, <3>1
    <3>. QED BY <3>1, <3>2
  <2>. QED BY <2>1, <2>2
<1>9. \A i \in 1 .. Len(v) : w[Len(s) + Len(t) + Len(u) + i] = v[i]
  BY <1>1, <1>2, <1>3, <1>5
<1>. QED BY <1>6, <1>7, <1>8, <1>9

LEMMA BindsAt ==
    ASSUME NEW b \in Seq(Results), NEW M \in Seq(Results), NEW E \in Seq(Results),
           M = With(b, "message_id"), E = With(b, "error")
    PROVE  /\ \A i \in 1 .. Len(b) : Binds(b)[i] = b[i].answer.status
           /\ \A k \in 1 .. Len(M) : Binds(b)[Len(b) + k] = M[k].answer.message_id
           /\ \A k \in 1 .. Len(E) : Binds(b)[Len(b) + Len(M) + k] = E[k].answer.error
           /\ \A i \in 1 .. Len(b) : Binds(b)[Len(b) + Len(M) + Len(E) + i] = b[i].id
<1>. DEFINE S == Requests \cup MessageIds \cup Errors \cup {"Sent", "Failed", None}
            s == ValuesOf(b, "status")
            t == ValuesOf(M, "message_id")
            u == ValuesOf(E, "error")
            v == IdsOf(b)
<1>1. ASSUME NEW q \in Results
      PROVE  /\ q.id \in S /\ q.answer["status"] \in S
             /\ q.answer["message_id"] \in S /\ q.answer["error"] \in S
  BY DEF Results, Answers
<1>. HIDE DEF S
<1>2. /\ s \in Seq(S) /\ Len(s) = Len(b)
      /\ \A i \in 1 .. Len(b) : s[i] = b[i].answer["status"]
  BY <1>1 DEF ValuesOf
<1>3. /\ t \in Seq(S) /\ Len(t) = Len(M)
      /\ \A i \in 1 .. Len(M) : t[i] = M[i].answer["message_id"]
  BY <1>1 DEF ValuesOf
<1>4. /\ u \in Seq(S) /\ Len(u) = Len(E)
      /\ \A i \in 1 .. Len(E) : u[i] = E[i].answer["error"]
  BY <1>1 DEF ValuesOf
<1>5. /\ v \in Seq(S) /\ Len(v) = Len(b)
      /\ \A i \in 1 .. Len(b) : v[i] = b[i].id
  BY <1>1 DEF IdsOf
<1>6. Binds(b) = s \o t \o u \o v
  BY DEF Binds
<1>. HIDE DEF s, t, u, v
<1>7. s \in Seq(S) /\ t \in Seq(S) /\ u \in Seq(S) /\ v \in Seq(S)
  BY <1>2, <1>3, <1>4, <1>5
<1>8. /\ \A i \in 1 .. Len(s) : Binds(b)[i] = s[i]
      /\ \A i \in 1 .. Len(t) : Binds(b)[Len(s) + i] = t[i]
      /\ \A i \in 1 .. Len(u) : Binds(b)[Len(s) + Len(t) + i] = u[i]
      /\ \A i \in 1 .. Len(v) : Binds(b)[Len(s) + Len(t) + Len(u) + i] = v[i]
  BY <1>6, <1>7, FourParts
<1>. QED BY <1>2, <1>3, <1>4, <1>5, <1>8

(* A CASE gives the bind of a WHEN that fits, or what was there.           *)
LEMMA CaseHits ==
    ASSUME NEW w \in Seq(Results), NEW r, NEW before, NEW binds, NEW old,
           \E k \in 1 .. Len(w) : w[k].id = r
    PROVE  \E k \in 1 .. Len(w) :
              w[k].id = r /\ Case(r, IdsOf(w), before, binds, old) = binds[before + k]
<1>. DEFINE hits == {k \in DOMAIN IdsOf(w) : IdsOf(w)[k] = r}
            first == CHOOSE k \in hits : \A j \in hits : k <= j
<1>1. hits = {k \in 1 .. Len(w) : w[k].id = r}
  BY DEF IdsOf
<1>2. hits \in SUBSET Nat /\ hits # {}
  BY <1>1
<1>3. \E k \in hits : \A j \in hits : k <= j
  <2>. HIDE DEF hits
  <2>. QED BY <1>2, Least
<1>4. first \in hits
  <2>. HIDE DEF hits
  <2>. QED BY <1>3
<1>5. Case(r, IdsOf(w), before, binds, old) = IF hits = {} THEN old ELSE binds[before + first]
  BY DEF Case
<1>. HIDE DEF hits, first
<1>. QED BY <1>1, <1>2, <1>4, <1>5

LEMMA CaseMisses ==
    ASSUME NEW w \in Seq(Results), NEW r, NEW before, NEW binds, NEW old,
           \A k \in 1 .. Len(w) : w[k].id # r
    PROVE  Case(r, IdsOf(w), before, binds, old) = old
<1>1. {k \in DOMAIN IdsOf(w) : IdsOf(w)[k] = r} = {}
  BY DEF IdsOf
<1>. QED BY <1>1 DEF Case

-----------------------------------------------------------------------------
(* A batch names every row once, and a row it names has no answer yet.     *)
Tables == [Requests -> Answers \cup {Unanswered}]
Distinct(b) == \A i, j \in 1 .. Len(b) : b[i].id = b[j].id => i = j
Fresh(tab, b) == \A i \in 1 .. Len(b) : tab[b[i].id] = Unanswered

\* The table new is tab with the first k answers of b written to it.
Wrote(new, tab, b, k) ==
    /\ new \in Tables
    /\ \A i \in 1 .. k : new[b[i].id] = b[i].answer
    /\ \A r \in Requests : (\A i \in 1 .. k : b[i].id # r) => new[r] = tab[r]

LEMMA WroteAll ==
    ASSUME NEW tab, NEW b \in Seq(Results), NEW s, NEW t,
           Wrote(s, tab, b, Len(b)), Wrote(t, tab, b, Len(b))
    PROVE  s = t
<1>1. ASSUME NEW r \in Requests PROVE s[r] = t[r]
  <2>1. CASE \E i \in 1 .. Len(b) : b[i].id = r
    BY <2>1 DEF Wrote
  <2>2. CASE \A i \in 1 .. Len(b) : b[i].id # r
    BY <2>2 DEF Wrote
  <2>. QED BY <2>1, <2>2
<1>2. s \in Tables /\ t \in Tables
  BY DEF Wrote
<1>. QED BY <1>1, <1>2 DEF Tables

(* The bulk statement writes every answer, and only those.                 *)
LEMMA BulkWrites ==
    ASSUME NEW tab \in Tables, NEW b \in Seq(Results), Distinct(b), Fresh(tab, b)
    PROVE  Wrote(BulkUpdate(tab, b), tab, b, Len(b))
<1>. DEFINE n == Len(b)
            M == With(b, "message_id")
            E == With(b, "error")
            binds == Binds(b)
            wanted == {binds[n + Len(M) + Len(E) + i] : i \in 1 .. n}
            status(r) == Case(r, IdsOf(b), 0, binds, tab[r].status)
            mid(r) == Case(r, IdsOf(M), n, binds, tab[r].message_id)
            err(r) == Case(r, IdsOf(E), n + Len(M), binds, tab[r].error)
<1>1. /\ n \in Nat /\ M \in Seq(Results) /\ E \in Seq(Results)
      /\ \A i \in 1 .. n : b[i] \in Results
  BY WithRange
<1>2. Len(IdsOf(M)) = Len(M) /\ Len(IdsOf(E)) = Len(E)
  BY <1>1 DEF IdsOf
<1>3. /\ \A i \in 1 .. n : binds[i] = b[i].answer.status
      /\ \A k \in 1 .. Len(M) : binds[n + k] = M[k].answer.message_id
      /\ \A k \in 1 .. Len(E) : binds[n + Len(M) + k] = E[k].answer.error
      /\ \A i \in 1 .. n : binds[n + Len(M) + Len(E) + i] = b[i].id
  BY <1>1, BindsAt
<1>4. BulkUpdate(tab, b) =
         [r \in Requests |-> IF r \notin wanted THEN tab[r] ELSE
             [status |-> status(r), message_id |-> mid(r), error |-> err(r)]]
  BY <1>2 DEF BulkUpdate
<1>5. wanted = {b[i].id : i \in 1 .. n}
  <2>. HIDE DEF n, M, E, binds
  <2>. QED BY <1>3
<1>6. /\ \A k \in 1 .. Len(M) : \E i \in 1 .. n : M[k] = b[i] /\ b[i].answer["message_id"] # None
      /\ \A i \in 1 .. n : b[i].answer["message_id"] # None => \E k \in 1 .. Len(M) : M[k] = b[i]
  BY WithRange
<1>7. /\ \A k \in 1 .. Len(E) : \E i \in 1 .. n : E[k] = b[i] /\ b[i].answer["error"] # None
      /\ \A i \in 1 .. n : b[i].answer["error"] # None => \E k \in 1 .. Len(E) : E[k] = b[i]
  BY WithRange
<1>8. \A i, j \in 1 .. n : b[i].id = b[j].id => i = j
  BY DEF Distinct
<1>9. ASSUME NEW i \in 1 .. n
      PROVE  [status |-> status(b[i].id), message_id |-> mid(b[i].id), error |-> err(b[i].id)]
                = b[i].answer
  <2>. DEFINE r == b[i].id
              a == b[i].answer
  <2>1. a \in Answers /\ tab[r] = Unanswered
    BY <1>1 DEF Fresh, Results
  <2>2. status(r) = a.status
    <3>1. PICK k \in 1 .. n : b[k].id = r /\ status(r) = binds[0 + k]
      <4>. HIDE DEF binds
      <4>. QED BY CaseHits
    <3>. QED BY <1>1, <1>3, <1>8, <3>1
  <2>3. mid(r) = a.message_id
    <3>1. CASE a.message_id # None
      <4>1. \A k \in 1 .. Len(M) : M[k].id = r => M[k] = b[i]
        BY <1>6, <1>8
      <4>2. \E k \in 1 .. Len(M) : M[k].id = r
        BY <1>6, <3>1
      <4>3. PICK k \in 1 .. Len(M) : M[k].id = r /\ mid(r) = binds[n + k]
        <5>1. M \in Seq(Results)
          BY <1>1
        <5>. HIDE DEF binds, M, n, r
        <5>. QED BY <4>2, <5>1, CaseHits
      <4>. HIDE DEF binds, M, n
      <4>. QED BY <1>3, <4>1, <4>3
    <3>2. CASE a.message_id = None
      <4>1. \A k \in 1 .. Len(M) : M[k].id # r
        BY <1>6, <1>8, <3>2
      <4>2. mid(r) = tab[r].message_id
        <5>. HIDE DEF binds, M, n
        <5>. QED BY <1>1, <4>1, CaseMisses
      <4>. QED BY <2>1, <3>2, <4>2 DEF Unanswered
    <3>. QED BY <3>1, <3>2
  <2>4. err(r) = a.error
    <3>1. CASE a.error # None
      <4>1. \A k \in 1 .. Len(E) : E[k].id = r => E[k] = b[i]
        BY <1>7, <1>8
      <4>2. \E k \in 1 .. Len(E) : E[k].id = r
        BY <1>7, <3>1
      <4>3. PICK k \in 1 .. Len(E) : E[k].id = r /\ err(r) = binds[n + Len(M) + k]
        <5>1. E \in Seq(Results)
          BY <1>1
        <5>. HIDE DEF binds, M, E, n, r
        <5>. QED BY <4>2, <5>1, CaseHits
      <4>. HIDE DEF binds, M, E, n
      <4>. QED BY <1>3, <4>1, <4>3
    <3>2. CASE a.error = None
      <4>1. \A k \in 1 .. Len(E) : E[k].id # r
        BY <1>7, <1>8, <3>2
      <4>2. err(r) = tab[r].error
        <5>. HIDE DEF binds, M, E, n
        <5>. QED BY <1>1, <4>1, CaseMisses
      <4>. QED BY <2>1, <3>2, <4>2 DEF Unanswered
    <3>. QED BY <3>1, <3>2
  <2>. HIDE DEF status, mid, err
  <2>5. a = [status |-> a.status, message_id |-> a.message_id, error |-> a.error]
    BY <2>1 DEF Answers
  <2>. QED BY <2>2, <2>3, <2>4, <2>5
<1>. HIDE DEF status, mid, err, wanted
<1>10. ASSUME NEW i \in 1 .. n PROVE BulkUpdate(tab, b)[b[i].id] = b[i].answer
  BY <1>1, <1>4, <1>5, <1>9 DEF Results
<1>11. ASSUME NEW r \in Requests, \A i \in 1 .. n : b[i].id # r
       PROVE  BulkUpdate(tab, b)[r] = tab[r]
  BY <1>4, <1>5, <1>11
<1>12. BulkUpdate(tab, b) \in Tables
  <2>1. ASSUME NEW r \in Requests
        PROVE  BulkUpdate(tab, b)[r] \in Answers \cup {Unanswered}
    <3>1. CASE \E i \in 1 .. n : b[i].id = r
      BY <1>1, <1>10, <3>1 DEF Results
    <3>2. CASE \A i \in 1 .. n : b[i].id # r
      BY <1>11, <3>2 DEF Tables
    <3>. QED BY <3>1, <3>2
  <2>2. BulkUpdate(tab, b) = [r \in Requests |-> BulkUpdate(tab, b)[r]]
    BY <1>4
  <2>. HIDE DEF n
  <2>. QED BY <2>1, <2>2 DEF Tables
<1>. QED BY <1>10, <1>11, <1>12 DEF Wrote

(* So do the individual updates, one after the other.                      *)
LEMMA UpdatesWrite ==
    ASSUME NEW tab \in Tables, NEW b \in Seq(Results), Distinct(b), NEW f,
           f = CHOOSE g : g = [i \in 0 .. Len(b) |->
                   IF i = 0 THEN tab ELSE Update(g[i - 1], b[i])]
    PROVE  Wrote(f[Len(b)], tab, b, Len(b))
<1>. DEFINE n == Len(b)
            step == [i \in 1 .. n |-> [t \in Tables |-> Update(t, b[i])]]
<1>1. n \in Nat /\ \A i \in 1 .. n : b[i].id \in Requests /\ b[i].answer \in Answers
  <2>1. n \in Nat /\ \A i \in 1 .. n : b[i] \in Results
    OBVIOUS
  <2>. QED BY <2>1 DEF Results
<1>2. ASSUME NEW i \in 1 .. n, NEW t \in Tables PROVE Update(t, b[i]) \in Tables
  BY <1>1 DEF Update, Tables
<1>3. step \in [1 .. n -> [Tables -> Tables]]
  BY <1>2
<1>4. PICK g : Follows(g, n, Tables, tab, step)
  <2>. HIDE DEF step, n
  <2>. QED BY <1>1, <1>3, Stepwise
<1>5. /\ g \in [0 .. n -> Tables] /\ g[0] = tab
      /\ \A i \in 1 .. n : g[i] = step[i][g[i - 1]]
  <2>. HIDE DEF step, n
  <2>. QED BY <1>4 DEF Follows
<1>6. ASSUME NEW i \in 1 .. n PROVE g[i] = Update(g[i - 1], b[i])
  <2>1. i - 1 \in 0 .. n
    BY <1>1
  <2>2. g[i - 1] \in Tables
    <3>. HIDE DEF n
    <3>. QED BY <1>5, <2>1
  <2>. QED BY <1>5, <2>2
<1>7. g = [i \in 0 .. Len(b) |-> IF i = 0 THEN tab ELSE Update(g[i - 1], b[i])]
  <2>. DEFINE h == [i \in 0 .. Len(b) |-> IF i = 0 THEN tab ELSE Update(g[i - 1], b[i])]
  <2>1. ASSUME NEW i \in 0 .. n PROVE g[i] = h[i]
    <3>1. CASE i = 0
      BY <1>5, <3>1
    <3>2. CASE i \in 1 .. n
      BY <1>6, <3>2
    <3>. QED BY <1>1, <3>1, <3>2
  <2>. QED BY <1>5, <2>1
<1>8. f = [i \in 0 .. Len(b) |-> IF i = 0 THEN tab ELSE Update(f[i - 1], b[i])]
  BY <1>7
<1>9. f[0] = tab
  BY <1>1, <1>8
<1>10. ASSUME NEW i \in 1 .. n PROVE f[i] = Update(f[i - 1], b[i])
  <2>1. i \in 0 .. Len(b) /\ i # 0
    BY <1>1
  <2>. HIDE DEF n
  <2>. QED BY <1>8, <2>1
<1>11. Wrote(f[0], tab, b, 0)
  <2>1. \A i \in 1 .. 0 : FALSE
    OBVIOUS
  <2>. QED BY <1>9, <2>1 DEF Wrote
<1>12. ASSUME NEW i \in 1 .. n, Wrote(f[i - 1], tab, b, i - 1)
       PROVE  Wrote(f[i], tab, b, i)
  <2>. DEFINE s == f[i - 1]
              t == f[i]
  <2>1. /\ s \in Tables /\ \A j \in 1 .. i - 1 : s[b[j].id] = b[j].answer
        /\ \A r \in Requests : (\A j \in 1 .. i - 1 : b[j].id # r) => s[r] = tab[r]
    BY <1>12 DEF Wrote
  <2>2. t = [s EXCEPT ![b[i].id] = b[i].answer]
    BY <1>10 DEF Update
  <2>. HIDE DEF s, t
  <2>3. /\ t \in Tables /\ t[b[i].id] = b[i].answer
        /\ \A r \in Requests : r # b[i].id => t[r] = s[r]
    BY <1>1, <2>1, <2>2 DEF Tables
  <2>4. ASSUME NEW j \in 1 .. i PROVE t[b[j].id] = b[j].answer
    <3>1. CASE j = i
      BY <2>3, <3>1
    <3>2. CASE j \in 1 .. i - 1
      <4>1. j \in 1 .. n /\ j # i
        BY <1>1, <3>2
      <4>2. b[j].id # b[i].id /\ b[j].id \in Requests
        BY <1>1, <4>1 DEF Distinct
      <4>. QED BY <2>1, <2>3, <3>2, <4>2
    <3>. QED BY <3>1, <3>2
  <2>5. ASSUME NEW r \in Requests, \A j \in 1 .. i : b[j].id # r PROVE t[r] = tab[r]
    BY <2>1, <2>3, <2>5
  <2>. QED BY <2>3, <2>4, <2>5 DEF Wrote, t
<1>13. Wrote(f[n], tab, b, n)
  <2>. DEFINE T == {i \in 0 .. n : Wrote(f[i], tab, b, i)}
  <2>1. 0 \in T
    BY <1>1, <1>11
  <2>2. ASSUME NEW i \in 1 .. n, i - 1 \in T PROVE i \in T
    BY <1>1, <1>12, <2>2
  <2>. HIDE DEF T
  <2>3. 0 .. n \subseteq T
    BY <1>1, <2>1, <2>2, Induction
  <2>4. n \in T
    BY <1>1, <2>3
  <2>. QED BY <2>4 DEF T
<1>. QED BY <1>13

-----------------------------------------------------------------------------
(* The strengthening.  What waits to be written was reported, stands in one*)
(* place only, and its row has no answer yet.                              *)
Waiting ==
    /\ Distinct(batch) /\ Fresh(rows, batch)
    /\ \A i \in 1 .. Len(batch) :
          batch[i].id \notin queue /\ reported[batch[i].id] = batch[i].answer
    /\ \A r \in queue : reported[r] # None /\ rows[r] = Unanswered
    /\ \A r \in Requests : reported[r] = None => rows[r] = Unanswered

IInv == TypeOK /\ Waiting /\ (ppc = "fallback" => batch # <<>>)

\* The batch, entry by entry.
LEMMA BatchFacts ==
    ASSUME TypeOK
    PROVE  /\ batch \in Seq(Results) /\ Len(batch) \in Nat
           /\ \A i \in 1 .. Len(batch) :
                 /\ batch[i] \in Results
                 /\ batch[i].id \in Requests /\ batch[i].answer \in Answers
<1>1. batch \in Seq(Results) /\ Len(batch) \in Nat
  BY DEF TypeOK
<1>2. \A i \in 1 .. Len(batch) : batch[i] \in Results
  BY <1>1
<1>. QED BY <1>1, <1>2 DEF Results

LEMMA NoAnswer == None \notin Answers /\ Unanswered \notin Answers
  BY ResultAssumption DEF Answers, Unanswered

LEMMA InitIInv == Init => IInv
<1>. SUFFICES ASSUME Init PROVE IInv
  OBVIOUS
<1>1. batch \in Seq(Results) /\ Len(batch) = 0
  BY DEF Init
<1>2. TypeOK
  BY <1>1, ResultAssumption DEF Init, TypeOK
<1>3. Waiting
  BY <1>1 DEF Init, Waiting, Distinct, Fresh
<1>. QED BY <1>2, <1>3 DEF Init, IInv

LEMMA ReportInv ==
    ASSUME IInv, NEW r \in Requests, NEW a \in Answers, Report(r, a)
    PROVE  IInv'
<1>1. /\ reported[r] = None /\ reported' = [reported EXCEPT ![r] = a]
      /\ queue' = queue \cup {r} /\ UNCHANGED <<rows, batch, ppc, faults>>
  BY DEF Report
<1>2. TypeOK'
  BY <1>1 DEF IInv, TypeOK
<1>3. \A i \in 1 .. Len(batch) : batch[i].id \in Requests /\ batch[i].id # r
  BY <1>1, BatchFacts, NoAnswer DEF IInv, Waiting
<1>4. rows[r] = Unanswered /\ a # None
  BY <1>1, NoAnswer DEF IInv, Waiting
<1>5. Waiting'
  <2>1. Distinct(batch)' /\ Fresh(rows, batch)'
    BY <1>1 DEF IInv, Waiting, Distinct, Fresh
  <2>2. \A i \in 1 .. Len(batch) :
           batch[i].id \notin queue' /\ reported'[batch[i].id] = batch[i].answer
    BY <1>1, <1>3 DEF IInv, Waiting, TypeOK
  <2>3. \A q \in queue' : reported'[q] # None /\ rows[q] = Unanswered
    BY <1>1, <1>4 DEF IInv, Waiting, TypeOK
  <2>4. \A q \in Requests : reported'[q] = None => rows[q] = Unanswered
    BY <1>1, <1>4 DEF IInv, Waiting, TypeOK
  <2>. QED BY <1>1, <2>1, <2>2, <2>3, <2>4 DEF Waiting
<1>. QED BY <1>1, <1>2, <1>5 DEF IInv

LEMMA ReceiveInv ==
    ASSUME IInv, NEW r \in Requests, Receive(r)
    PROVE  IInv'
<1>. DEFINE q == [id |-> r, answer |-> reported[r]]
<1>1. /\ ppc = "recv" /\ r \in queue /\ queue' = queue \ {r}
      /\ batch' = Append(batch, q)
      /\ UNCHANGED <<rows, reported, ppc, faults>>
  BY DEF Receive
<1>2. q \in Results /\ q.id = r /\ q.answer = reported[r] /\ rows[r] = Unanswered
  BY <1>1 DEF IInv, TypeOK, Waiting, Results
<1>. HIDE DEF q
<1>3. /\ batch' \in Seq(Results) /\ Len(batch') = Len(batch) + 1
      /\ \A i \in 1 .. Len(batch) : batch'[i] = batch[i]
      /\ batch'[Len(batch) + 1] = q
  BY <1>1, <1>2, BatchFacts DEF IInv
<1>4. \A i \in 1 .. Len(batch') : i \in 1 .. Len(batch) \/ i = Len(batch) + 1
  BY <1>3, BatchFacts DEF IInv
<1>5. \A i \in 1 .. Len(batch) : batch[i].id # r
  BY <1>1 DEF IInv, Waiting
<1>6. TypeOK'
  BY <1>1, <1>3 DEF IInv, TypeOK
<1>7. Distinct(batch')
  BY <1>2, <1>3, <1>4, <1>5 DEF IInv, Waiting, Distinct
<1>8. Fresh(rows, batch')
  BY <1>2, <1>3, <1>4 DEF IInv, Waiting, Fresh
<1>9. \A i \in 1 .. Len(batch') :
         batch'[i].id \notin queue' /\ reported[batch'[i].id] = batch'[i].answer
  BY <1>1, <1>2, <1>3, <1>4 DEF IInv, Waiting
<1>10. Waiting'
  BY <1>1, <1>7, <1>8, <1>9 DEF IInv, Waiting, Distinct, Fresh
<1>. QED BY <1>1, <1>6, <1>10 DEF IInv

\* Rows written from the batch: the rest keeps what it had.
LEMMA FlushInv ==
    ASSUME IInv, Flush
    PROVE  IInv'
<1>1. CASE rows' = BulkUpdate(rows, batch) /\ batch' = <<>> /\ UNCHANGED <<ppc, faults>>
  <2>1. /\ ppc = "recv" /\ UNCHANGED <<ppc, faults, reported, queue>> /\ batch' = <<>>
    BY <1>1 DEF Flush
  <2>2. Wrote(rows', rows, batch, Len(batch))
    BY <1>1, BatchFacts, BulkWrites DEF IInv, TypeOK, Waiting, Tables
  <2>3. batch' \in Seq(Results) /\ Len(batch') = 0
    BY <2>1
  <2>4. TypeOK'
    BY <2>1, <2>2, <2>3 DEF IInv, TypeOK, Wrote, Tables
  <2>5. \A r \in Requests : r \in queue \/ reported[r] = None => rows'[r] = rows[r]
    <3>1. ASSUME NEW r \in Requests, r \in queue \/ reported[r] = None
          PROVE  \A i \in 1 .. Len(batch) : batch[i].id # r
      BY <3>1, BatchFacts, NoAnswer DEF IInv, Waiting
    <3>. QED BY <2>2, <3>1 DEF Wrote
  <2>6. Waiting'
    BY <2>1, <2>3, <2>5 DEF IInv, TypeOK, Waiting, Distinct, Fresh
  <2>. QED BY <2>1, <2>4, <2>6 DEF IInv
<1>2. CASE faults < MaxFaults /\ faults' = faults + 1 /\ ppc' = "fallback"
           /\ UNCHANGED <<rows, batch>>
  <2>1. UNCHANGED <<rows, batch, reported, queue>> /\ batch # <<>>
    BY <1>2 DEF Flush
  <2>2. TypeOK'
    BY <1>2, <2>1, ResultAssumption DEF IInv, TypeOK
  <2>3. Waiting'
    BY <2>1 DEF IInv, Waiting, Distinct, Fresh
  <2>. QED BY <2>1, <2>2, <2>3 DEF IInv
<1>. QED BY <1>1, <1>2 DEF Flush

LEMMA UpdateOneInv ==
    ASSUME IInv, UpdateOne
    PROVE  IInv'
<1>1. /\ ppc = "fallback" /\ batch # <<>> /\ batch' = Tail(batch)
      /\ ppc' = IF batch' = <<>> THEN "recv" ELSE ppc
      /\ UNCHANGED <<reported, queue>>
      /\ \/ rows' = Update(rows, batch[1]) /\ UNCHANGED faults
         \/ faults < MaxFaults /\ faults' = faults + 1 /\ UNCHANGED rows
  BY DEF IInv, UpdateOne
<1>2. /\ batch' \in Seq(Results) /\ 1 \in 1 .. Len(batch)
      /\ \A i \in 1 .. Len(batch') :
            batch'[i] = batch[i + 1] /\ i + 1 \in 1 .. Len(batch) /\ i + 1 # 1
  BY <1>1, BatchFacts DEF IInv
<1>3. batch[1].id \in Requests /\ batch[1].answer \in Answers
  BY <1>2, BatchFacts DEF IInv
<1>4. /\ rows' \in Tables
      /\ \A r \in Requests : r # batch[1].id => rows'[r] = rows[r]
  BY <1>1, <1>3 DEF IInv, TypeOK, Update, Tables
<1>5. TypeOK'
  BY <1>1, <1>2, <1>4, ResultAssumption DEF IInv, TypeOK, Tables
<1>6. ASSUME NEW i \in 1 .. Len(batch')
      PROVE  batch'[i].id # batch[1].id /\ batch'[i].id \in Requests
  <2>1. batch'[i] = batch[i + 1] /\ i + 1 \in 1 .. Len(batch) /\ i + 1 # 1
    BY <1>2
  <2>2. batch[i + 1].id \in Requests
    BY <2>1, BatchFacts DEF IInv
  <2>3. batch[i + 1].id # batch[1].id
    BY <1>2, <2>1 DEF IInv, Waiting, Distinct
  <2>. QED BY <2>1, <2>2, <2>3
<1>7. Distinct(batch')
  <2>1. ASSUME NEW i \in 1 .. Len(batch'), NEW j \in 1 .. Len(batch'),
               batch'[i].id = batch'[j].id
        PROVE  i = j
    <3>1. batch[i + 1].id = batch[j + 1].id
      BY <1>2, <2>1
    <3>2. i + 1 = j + 1
      BY <1>2, <3>1 DEF IInv, Waiting, Distinct
    <3>. QED BY <3>2
  <2>. QED BY <2>1 DEF Distinct
<1>8. Fresh(rows', batch')
  BY <1>2, <1>4, <1>6 DEF IInv, Waiting, Fresh
<1>9. \A i \in 1 .. Len(batch') :
         batch'[i].id \notin queue /\ reported[batch'[i].id] = batch'[i].answer
  BY <1>2 DEF IInv, Waiting
<1>10. \A r \in Requests : r \in queue \/ reported[r] = None => rows'[r] = rows[r]
  BY <1>2, <1>3, <1>4, NoAnswer DEF IInv, Waiting
<1>11. Waiting'
  BY <1>1, <1>7, <1>8, <1>9, <1>10 DEF IInv, TypeOK, Waiting, Distinct, Fresh
<1>. QED BY <1>1, <1>5, <1>11 DEF IInv

LEMMA Inductive == Spec => []IInv
<1>1. IInv /\ [Next]_vars => IInv'
  <2>. SUFFICES ASSUME IInv, [Next]_vars PROVE IInv'
    OBVIOUS
  <2>1. ASSUME NEW r \in Requests, Receive(r) PROVE IInv'
    BY <2>1, ReceiveInv
  <2>2. ASSUME NEW r \in Requests, NEW a \in Answers, Report(r, a) PROVE IInv'
    BY <2>2, ReportInv
  <2>3. CASE UNCHANGED vars
    BY <2>3 DEF vars, IInv, TypeOK, Waiting, Distinct, Fresh
  <2>. QED BY <2>1, <2>2, <2>3, FlushInv, UpdateOneInv DEF Next
<1>. QED BY <1>1, InitIInv, PTL DEF Spec

-----------------------------------------------------------------------------
(* However many results a batch holds and whichever of them are failures,  *)
(* the statement of bulk_update_all, with its CASEs, its list of binds and *)
(* its WHERE, leaves the table the individual updates would leave.         *)
THEOREM BulkAsGoodAsIndividual == Spec => []BulkIsIndividual
<1>1. IInv => BulkIsIndividual
  <2>. SUFFICES ASSUME IInv PROVE BulkIsIndividual
    OBVIOUS
  <2>. DEFINE after == CHOOSE g : g = [i \in 0 .. Len(batch) |->
                          IF i = 0 THEN rows ELSE Update(g[i - 1], batch[i])]
  <2>1. /\ rows \in Tables /\ batch \in Seq(Results)
        /\ Distinct(batch) /\ Fresh(rows, batch)
    BY DEF IInv, TypeOK, Waiting, Tables
  <2>2. Wrote(BulkUpdate(rows, batch), rows, batch, Len(batch))
    BY <2>1, BulkWrites
  <2>3. Wrote(after[Len(batch)], rows, batch, Len(batch))
    BY <2>1, UpdatesWrite
  <2>4. BulkUpdate(rows, batch) = after[Len(batch)]
    <3>. HIDE DEF after
    <3>. QED BY <2>1, <2>2, <2>3, WroteAll
  <2>. QED BY <2>4 DEF BulkIsIndividual
<1>. QED BY <1>1, Inductive, PTL

-----------------------------------------------------------------------------
(* The refinement: a statement that succeeds records the answers of its    *)
(* rows, and every other step but a report leaves the log alone.           *)
Recorded == [r \in Requests |-> IF rows[r] = Unanswered THEN None ELSE rows[r]]

LEMMA RecordsBatch ==
    ASSUME IInv, IInv', NEW S \in SUBSET (1 .. Len(batch)), UNCHANGED reported,
           \A i \in S : rows'[batch[i].id] = batch[i].answer,
           \A r \in Requests : (\A i \in S : batch[i].id # r) => rows'[r] = rows[r]
    PROVE  Log!Next
<1>1. \A i \in S : batch[i].id \in Requests /\ batch[i].answer \in Answers
  BY BatchFacts DEF IInv
<1>. PICK ids \in SUBSET Requests : ids = {batch[i].id : i \in S}
  BY <1>1
<1>2. \A r \in ids : /\ r \in Requests /\ reported[r] \in Answers
                     /\ rows[r] = Unanswered /\ rows'[r] = reported[r]
  BY <1>1 DEF IInv, Waiting, Fresh
<1>3. \A r \in Requests \ ids : rows'[r] = rows[r]
  OBVIOUS
<1>4. \A r \in ids : reported[r] # None /\ Recorded[r] = None
  BY <1>2, NoAnswer DEF Recorded
<1>5. Recorded' = [r \in Requests |-> IF r \in ids THEN reported[r] ELSE Recorded[r]]
  BY <1>2, <1>3, NoAnswer DEF Recorded
<1>6. Log!Record(ids)
  BY <1>4, <1>5 DEF Log!Record, Recorded
<1>. QED BY <1>6 DEF Log!Next

(* Whatever fails, a row shows nothing or the whole answer that was        *)
(* reported for it, and what it shows once stays.                          *)
THEOREM StoreImplementsLog == Spec => ImplementsLog
<1>1. Init => Log!Init
  BY DEF Init, Log!Init
<1>2. IInv /\ IInv' /\ [Next]_vars => [Log!Next]_<<reported, Recorded>>
  <2>. SUFFICES ASSUME IInv, IInv', [Next]_vars
                PROVE  [Log!Next]_<<reported, Recorded>>
    OBVIOUS
  <2>1. ASSUME NEW r \in Requests, NEW a \in Answers, Report(r, a) PROVE Log!Next
    <3>1. Log!Report(r, a)
      BY <2>1 DEF Report, Log!Report
    <3>. QED BY <3>1 DEF Log!Next
  <2>2. ASSUME NEW r \in Requests, Receive(r) PROVE UNCHANGED <<reported, Recorded>>
    BY <2>2 DEF Receive, Recorded
  <2>3. ASSUME Flush PROVE Log!Next \/ UNCHANGED <<reported, Recorded>>
    <3>1. CASE rows' = BulkUpdate(rows, batch)
      <4>1. Wrote(rows', rows, batch, Len(batch))
        BY <3>1, BatchFacts, BulkWrites DEF IInv, TypeOK, Waiting, Tables
      <4>. DEFINE S == 1 .. Len(batch)
      <4>2. /\ UNCHANGED reported
            /\ \A i \in S : rows'[batch[i].id] = batch[i].answer
            /\ \A r \in Requests : (\A i \in S : batch[i].id # r) => rows'[r] = rows[r]
        BY <2>3, <4>1 DEF Flush, Wrote
      <4>3. S \in SUBSET (1 .. Len(batch))
        OBVIOUS
      <4>. HIDE DEF S
      <4>. QED BY <4>2, <4>3, RecordsBatch
    <3>2. CASE UNCHANGED rows
      BY <2>3, <3>2 DEF Flush, Recorded
    <3>. QED BY <2>3, <3>1, <3>2 DEF Flush
  <2>4. ASSUME UpdateOne PROVE Log!Next \/ UNCHANGED <<reported, Recorded>>
    <3>1. CASE rows' = Update(rows, batch[1])
      <4>1. 1 \in 1 .. Len(batch) /\ batch[1].id \in Requests
        BY <2>4, BatchFacts DEF IInv, UpdateOne
      <4>. DEFINE S == {1}
      <4>2. /\ UNCHANGED reported
            /\ \A i \in S : rows'[batch[i].id] = batch[i].answer
            /\ \A r \in Requests : (\A i \in S : batch[i].id # r) => rows'[r] = rows[r]
        BY <2>4, <3>1, <4>1 DEF UpdateOne, Update, IInv, TypeOK
      <4>3. S \in SUBSET (1 .. Len(batch))
        BY <4>1
      <4>. HIDE DEF S
      <4>. QED BY <4>2, <4>3, RecordsBatch
    <3>2. CASE UNCHANGED rows
      BY <2>4, <3>2 DEF UpdateOne, Recorded
    <3>. QED BY <2>4, <3>1, <3>2 DEF UpdateOne
  <2>5. CASE UNCHANGED vars
    BY <2>5 DEF vars, Recorded
  <2>. QED BY <2>1, <2>2, <2>3, <2>4, <2>5 DEF Next
<1>. QED BY <1>1, <1>2, Inductive, PTL DEF Spec, ImplementsLog, Log!Spec, Recorded

(* So an email that is reported is never shown as another one's result,    *)
(* nor as half of its own: a row with an answer has the one reported.      *)
THEOREM RowsShowReports ==
    Spec => [](\A r \in Requests : rows[r] # Unanswered => rows[r] = reported[r])
<1>. DEFINE Shown == \A r \in Requests : Recorded[r] # None => Recorded[r] = reported[r]
            Total == DOMAIN reported = Requests
<1>1. Log!Init => Shown /\ Total
  BY DEF Log!Init, Recorded
<1>2. Shown /\ Total /\ [Log!Next]_<<reported, Recorded>> => Shown' /\ Total'
  <2>. SUFFICES ASSUME Shown, Total, [Log!Next]_<<reported, Recorded>>
                PROVE  Shown' /\ Total'
    OBVIOUS
  <2>1. ASSUME NEW r \in Requests, NEW a \in Answers, Log!Report(r, a)
        PROVE  Shown' /\ Total'
    <3>1. reported[r] = None /\ reported' = [reported EXCEPT ![r] = a] /\ Recorded' = Recorded
      BY <2>1 DEF Log!Report, Recorded
    <3>. HIDE DEF Recorded
    <3>. QED BY <3>1
  <2>2. ASSUME NEW S \in SUBSET Requests, Log!Record(S) PROVE Shown' /\ Total'
    <3>1. /\ Recorded' = [r \in Requests |-> IF r \in S THEN reported[r] ELSE Recorded[r]]
          /\ reported' = reported
      BY <2>2 DEF Log!Record, Recorded
    <3>2. ASSUME NEW r \in Requests
          PROVE  Recorded'[r] = (IF r \in S THEN reported[r] ELSE Recorded[r])
      BY <3>1
    <3>. HIDE DEF Recorded
    <3>. QED BY <3>1, <3>2
  <2>. QED BY <2>1, <2>2 DEF Log!Next
<1>3. Spec => []Shown
  BY <1>1, <1>2, StoreImplementsLog, PTL DEF ImplementsLog, Log!Spec, Recorded
<1>4. IInv /\ Shown => \A r \in Requests : rows[r] # Unanswered => rows[r] = reported[r]
  BY NoAnswer DEF IInv, TypeOK, Recorded
<1>. QED BY <1>3, <1>4, Inductive, PTL

-----------------------------------------------------------------------------
(* Lost answers.  A batch that falls back has had one fault already, which *)
(* pays for no answer.                                                     *)
LossInv ==
    /\ IsFiniteSet(Lost)
    /\ (ppc = "recv" /\ Lost = {}) \/ Cardinality(Lost) < faults

LEMMA BatchDomain == ASSUME TypeOK PROVE DOMAIN batch = 1 .. Len(batch)
BY DEF TypeOK

(* No step but a failing update of the fallback loses an answer.           *)
LEMMA NoLoss ==
    ASSUME LossInv, Lost' = Lost, faults \in Nat,
           \/ faults' = faults /\ (ppc' = ppc \/ ppc = "fallback")
           \/ faults' = faults + 1
    PROVE  LossInv'
<1>1. Cardinality(Lost) \in Nat
  BY FS_CardinalityType DEF LossInv
<1>2. Lost = {} => Cardinality(Lost) = 0
  BY FS_EmptySet
<1>3. IsFiniteSet(Lost)' /\ Cardinality(Lost)' = Cardinality(Lost)
  BY DEF LossInv
<1>. QED BY <1>1, <1>2, <1>3 DEF LossInv

LEMMA ReportLoss ==
    ASSUME IInv, LossInv, NEW r \in Requests, NEW a \in Answers, Report(r, a)
    PROVE  LossInv'
<1>1. /\ reported[r] = None /\ reported' = [reported EXCEPT ![r] = a]
      /\ queue' = queue \cup {r} /\ UNCHANGED <<rows, batch, ppc, faults>>
  BY DEF Report
<1>2. Lost' = Lost
  BY <1>1 DEF Lost, IInv, TypeOK
<1>. QED BY <1>1, <1>2, NoLoss DEF IInv, TypeOK

LEMMA ReceiveLoss ==
    ASSUME IInv, IInv', LossInv, NEW r \in Requests, Receive(r)
    PROVE  LossInv'
<1>. DEFINE q == [id |-> r, answer |-> reported[r]]
<1>1. /\ r \in queue /\ queue' = queue \ {r} /\ batch' = Append(batch, q)
      /\ UNCHANGED <<rows, reported, ppc, faults>>
  BY DEF Receive
<1>2. q \in Results /\ q.id = r
  BY <1>1 DEF IInv, TypeOK, Waiting, Results
<1>. HIDE DEF q
<1>3. /\ Len(batch') = Len(batch) + 1 /\ Len(batch) \in Nat
      /\ \A i \in 1 .. Len(batch) : batch'[i] = batch[i]
      /\ batch'[Len(batch) + 1] = q
  BY <1>1, <1>2, BatchFacts DEF IInv
<1>4. DOMAIN batch = 1 .. Len(batch) /\ DOMAIN batch' = 1 .. Len(batch')
  BY BatchDomain DEF IInv, TypeOK
<1>5. ASSUME NEW x \in Requests
      PROVE  (\A i \in DOMAIN batch' : batch'[i].id # x)
                <=> x # r /\ (\A i \in DOMAIN batch : batch[i].id # x)
  <2>1. \A i \in DOMAIN batch' : i \in DOMAIN batch \/ i = Len(batch) + 1
    BY <1>3, <1>4
  <2>2. DOMAIN batch \subseteq DOMAIN batch' /\ Len(batch) + 1 \in DOMAIN batch'
    BY <1>3, <1>4
  <2>. QED BY <1>2, <1>3, <1>4, <2>1, <2>2
<1>6. Lost' = Lost
  BY <1>1, <1>5 DEF Lost
<1>. QED BY <1>1, <1>6, NoLoss DEF IInv, TypeOK

LEMMA FlushLoss ==
    ASSUME IInv, LossInv, Flush
    PROVE  LossInv'
<1>1. UNCHANGED <<reported, queue>> /\ faults \in Nat /\ ppc = "recv"
  BY DEF Flush, IInv, TypeOK
<1>2. CASE rows' = BulkUpdate(rows, batch) /\ batch' = <<>> /\ UNCHANGED <<ppc, faults>>
  <2>1. Wrote(rows', rows, batch, Len(batch))
    BY <1>2, BatchFacts, BulkWrites DEF IInv, TypeOK, Waiting, Tables
  <2>2. DOMAIN batch = 1 .. Len(batch) /\ DOMAIN batch' = {}
    BY <1>2, BatchDomain DEF IInv
  <2>3. ASSUME NEW i \in 1 .. Len(batch) PROVE rows'[batch[i].id] # Unanswered
    BY <2>1, <2>3, BatchFacts, NoAnswer DEF Wrote, IInv
  <2>4. ASSUME NEW x \in Requests PROVE x \in Lost' <=> x \in Lost
    <3>1. CASE \E i \in 1 .. Len(batch) : batch[i].id = x
      BY <2>2, <2>3, <3>1 DEF Lost
    <3>2. CASE \A i \in 1 .. Len(batch) : batch[i].id # x
      <4>1. rows'[x] = rows[x]
        BY <2>1, <3>2 DEF Wrote
      <4>. QED BY <1>1, <2>2, <3>2, <4>1 DEF Lost
    <3>. QED BY <3>1, <3>2
  <2>5. Lost' = Lost
    BY <2>4 DEF Lost
  <2>. QED BY <1>1, <1>2, <2>5, NoLoss
<1>3. CASE faults' = faults + 1 /\ UNCHANGED <<rows, batch>>
  <2>1. Lost' = Lost
    BY <1>1, <1>3 DEF Lost
  <2>. QED BY <1>1, <1>3, <2>1, NoLoss
<1>. QED BY <1>2, <1>3 DEF Flush

LEMMA UpdateOneLoss ==
    ASSUME IInv, LossInv, UpdateOne
    PROVE  LossInv'
<1>1. /\ ppc = "fallback" /\ batch # <<>> /\ batch' = Tail(batch)
      /\ UNCHANGED <<reported, queue>> /\ faults \in Nat
      /\ \/ rows' = Update(rows, batch[1]) /\ UNCHANGED faults
         \/ faults' = faults + 1 /\ UNCHANGED rows
  BY DEF IInv, TypeOK, UpdateOne
<1>. DEFINE d == batch[1].id
<1>2. /\ Len(batch) \in Nat \ {0} /\ Len(batch') = Len(batch) - 1
      /\ \A i \in 1 .. Len(batch') : batch'[i] = batch[i + 1]
      /\ DOMAIN batch = 1 .. Len(batch) /\ DOMAIN batch' = 1 .. Len(batch')
  BY <1>1, BatchFacts, BatchDomain DEF IInv
<1>3. d \in Requests /\ batch[1].answer \in Answers
  BY <1>2, BatchFacts DEF IInv
<1>4. ASSUME NEW x \in Requests
      PROVE  (\A i \in DOMAIN batch : batch[i].id # x)
                <=> x # d /\ (\A i \in DOMAIN batch' : batch'[i].id # x)
  <2>1. \A i \in DOMAIN batch : i = 1 \/ (i - 1 \in DOMAIN batch' /\ batch'[i - 1] = batch[i])
    BY <1>2
  <2>2. \A i \in DOMAIN batch' : i + 1 \in DOMAIN batch /\ batch'[i] = batch[i + 1]
    BY <1>2
  <2>3. 1 \in DOMAIN batch
    BY <1>2
  <2>. QED BY <2>1, <2>2, <2>3
<1>5. d \notin Lost
  BY <1>2 DEF Lost
<1>. HIDE DEF d
<1>6. CASE rows' = Update(rows, batch[1]) /\ UNCHANGED faults
  <2>1. /\ rows'[d] # Unanswered
        /\ \A x \in Requests : x # d => rows'[x] = rows[x]
    BY <1>3, <1>6, NoAnswer DEF Update, IInv, TypeOK, d
  <2>2. Lost' = Lost
    BY <1>1, <1>3, <1>4, <1>5, <2>1 DEF Lost
  <2>. QED BY <1>1, <1>6, <2>2, NoLoss
<1>7. CASE faults' = faults + 1 /\ UNCHANGED rows
  <2>1. reported[d] # None /\ rows[d] = Unanswered /\ d \notin queue
    BY <1>2, <1>3, NoAnswer DEF IInv, Waiting, Fresh, d
  <2>2. \A i \in DOMAIN batch' : batch'[i].id # d
    <3>1. \A i \in 1 .. Len(batch') : i + 1 \in 1 .. Len(batch) /\ i + 1 # 1
      BY <1>2
    <3>. QED BY <1>2, <3>1 DEF IInv, Waiting, Distinct, d
  <2>3. Lost' = Lost \cup {d}
    BY <1>1, <1>3, <1>4, <1>7, <2>1, <2>2 DEF Lost
  <2>4. /\ IsFiniteSet(Lost \cup {d}) /\ Cardinality(Lost) \in Nat
        /\ Cardinality(Lost \cup {d}) = Cardinality(Lost) + 1
    BY <1>5, FS_AddElement, FS_CardinalityType DEF LossInv
  <2>5. Cardinality(Lost) < faults
    BY <1>1 DEF LossInv
  <2>. QED BY <1>1, <1>7, <2>3, <2>4, <2>5 DEF LossInv
<1>. QED BY <1>1, <1>6, <1>7

(* However large the batches and however many statements fail, an answer   *)
(* is lost only to the failure of its own update, after that of its batch. *)
THEOREM FaultsCostOne == Spec => []OneFaultOneLoss
<1>1. Init => LossInv
  <2>. SUFFICES ASSUME Init PROVE LossInv
    OBVIOUS
  <2>1. Lost = {}
    BY DEF Init, Lost
  <2>. QED BY <2>1, FS_EmptySet DEF Init, LossInv
<1>2. IInv /\ IInv' /\ LossInv /\ [Next]_vars => LossInv'
  <2>. SUFFICES ASSUME IInv, IInv', LossInv, [Next]_vars PROVE LossInv'
    OBVIOUS
  <2>1. CASE UNCHANGED vars
    BY <2>1 DEF vars, LossInv, Lost
  <2>2. ASSUME NEW r \in Requests, Receive(r) PROVE LossInv'
    BY <2>2, ReceiveLoss
  <2>3. ASSUME NEW r \in Requests, NEW a \in Answers, Report(r, a) PROVE LossInv'
    BY <2>3, ReportLoss
  <2>. QED BY <2>1, <2>2, <2>3, FlushLoss, UpdateOneLoss DEF Next
<1>3. LossInv => OneFaultOneLoss
  BY DEF LossInv, OneFaultOneLoss
<1>. QED BY <1>1, <1>2, <1>3, Inductive, PTL DEF Spec
=============================================================================
