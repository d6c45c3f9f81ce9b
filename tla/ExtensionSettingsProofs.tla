------------------------ MODULE ExtensionSettingsProofs ------------------------
(***************************************************************************)
(* What the extension makes of a worktree's files and settings, for every  *)
(* project: the line-by-line reading of ROOT files finds the sessions the  *)
(* files declare, and the arguments carry the logic the README selects.    *)
(* The arguments flatten a sequence of sequences: an induction on their    *)
(* length, over sets of natural numbers and not over predicates.           *)
(***************************************************************************)
EXTENDS ExtensionSettings, SequenceTheorems, FiniteSetTheorems, WellFoundedInduction, TLAPS

-----------------------------------------------------------------------------
(* Induction. *)
LEMMA LeastNatural ==
    ASSUME NEW T \in SUBSET Nat, T # {}
    PROVE  \E x \in T : \A y \in T : x <= y
<1> DEFINE R == {pair \in Nat \X Nat : pair[1] < pair[2]}
<1>1. IsWellFoundedOn(R, Nat)
  BY NatLessThanWellFounded, Zenon DEF OpToRel
<1>2. PICK x \in T : \A y \in T : <<y, x>> \notin R
  <2> HIDE DEF R
  <2> QED BY <1>1, WFMin, Zenon
<1>3. ASSUME NEW y \in T
      PROVE  x <= y
  <2>1. <<y, x>> \in Nat \X Nat
    OBVIOUS
  <2>2. ~(y < x)
    BY <1>2, <2>1
  <2> QED BY <2>2
<1> QED BY <1>3

LEMMA Induction ==
    ASSUME NEW n \in Nat, NEW T, 1 \in T,
           \A m \in 1..(n - 1) : m \in T => m + 1 \in T
    PROVE  1..n \subseteq T
<1> SUFFICES ASSUME NEW k \in 1..n, k \notin T
             PROVE  FALSE
  OBVIOUS
<1> DEFINE Missing == {m \in Nat : m \in 1..n /\ m \notin T}
<1>1. Missing \in SUBSET Nat /\ k \in Missing
  OBVIOUS
<1>2. PICK x \in Missing : \A y \in Missing : x <= y
  BY <1>1, LeastNatural
<1>3. x \in 2..n /\ x \notin T
  OBVIOUS
<1>4. x - 1 \in 1..(n - 1) /\ x - 1 \in Nat
  BY <1>3
<1>5. x - 1 \in T
  BY <1>2, <1>4
<1> QED BY <1>3, <1>4, <1>5

-----------------------------------------------------------------------------
(* FlattenSeq.  Flattens(f, seqs, n): f[i] joins the first i of seqs. *)
Flattens(f, seqs, n) ==
    f = [i \in 1..n |-> IF i = 1 THEN seqs[i] ELSE f[i - 1] \o seqs[i]]

LEMMA FlattensExists ==
    ASSUME NEW seqs, NEW n \in Nat \ {0}
    PROVE  \E f : Flattens(f, seqs, n)
<1> DEFINE Done == {m \in 1..n : \E f : Flattens(f, seqs, m)}
<1>1. 1 \in Done
  <2> DEFINE f == [i \in 1..1 |-> seqs[1]]
  <2>1. f = [i \in 1..1 |-> IF i = 1 THEN seqs[i] ELSE f[i - 1] \o seqs[i]]
    OBVIOUS
  <2> HIDE DEF f
  <2>2. Flattens(f, seqs, 1)
    BY <2>1 DEF Flattens
  <2> QED BY <2>2
<1>2. ASSUME NEW m \in 1..(n - 1), m \in Done
      PROVE  m + 1 \in Done
  <2>1. PICK f : f = [i \in 1..m |-> IF i = 1 THEN seqs[i] ELSE f[i - 1] \o seqs[i]]
    BY <1>2 DEF Flattens
  <2> DEFINE g == [i \in 1..(m + 1) |-> IF i <= m THEN f[i] ELSE f[m] \o seqs[i]]
  <2>2. \A i \in 1..m : g[i] = f[i]
    OBVIOUS
  <2>3. ASSUME NEW i \in 1..(m + 1)
        PROVE  g[i] = IF i = 1 THEN seqs[i] ELSE g[i - 1] \o seqs[i]
    <3>1. CASE i = 1
      BY <2>1, <2>2, <3>1
    <3>2. CASE i \in 2..m
      <4>1. i - 1 \in 1..m /\ i \in 1..m /\ i # 1
        BY <3>2
      <4>2. f[i] = f[i - 1] \o seqs[i]
        BY <2>1, <4>1
      <4> QED BY <2>2, <4>1, <4>2
    <3>3. CASE i = m + 1
      <4>1. i # 1 /\ i - 1 = m /\ m \in 1..m /\ ~(i <= m)
        BY <3>3
      <4>2. g[i] = f[m] \o seqs[i]
        BY <4>1
      <4> QED BY <2>2, <4>1, <4>2
    <3> QED BY <3>1, <3>2, <3>3
  <2>4. g = [i \in 1..(m + 1) |-> g[i]]
    OBVIOUS
  <2> HIDE DEF g
  <2>5. Flattens(g, seqs, m + 1)
    BY <2>3, <2>4 DEF Flattens
  <2> QED BY <2>5
<1> HIDE DEF Done
<1>3. 1..n \subseteq Done
  BY <1>1, <1>2, Induction
<1>4. n \in Done
  BY <1>3
<1> QED BY <1>4 DEF Done

LEMMA FlattenSeqIs ==
    ASSUME NEW seqs, Len(seqs) \in Nat \ {0}
    PROVE  \E f : Flattens(f, seqs, Len(seqs)) /\ FlattenSeq(seqs) = f[Len(seqs)]
<1> DEFINE n == Len(seqs)
           f == CHOOSE f : f = [i \in 1..n |-> IF i = 1 THEN seqs[i] ELSE f[i - 1] \o seqs[i]]
<1>1. \E g : g = [i \in 1..n |-> IF i = 1 THEN seqs[i] ELSE g[i - 1] \o seqs[i]]
  BY FlattensExists DEF Flattens
<1>2. f = [i \in 1..n |-> IF i = 1 THEN seqs[i] ELSE f[i - 1] \o seqs[i]]
  BY <1>1, Zenon
<1>3. FlattenSeq(seqs) = f[n]
  BY DEF FlattenSeq
<1> HIDE DEF f
<1> QED BY <1>2, <1>3 DEF Flattens

(* Where the i-th of the sequences begins. *)
Start(f, i) == IF i = 1 THEN 0 ELSE Len(f[i - 1])

(* f[m] holds each of the first m sequences at its place, and nothing else. *)
Joined(f, seqs, T, m) ==
    /\ f[m] \in Seq(T)
    /\ \A i \in 1..m :
         /\ Start(f, i) \in Nat /\ Start(f, i) + Len(seqs[i]) = Len(f[i])
         /\ Len(f[i]) <= Len(f[m])
         /\ \A q \in 1..Len(seqs[i]) : f[m][Start(f, i) + q] = seqs[i][q]
    /\ \A p \in 1..Len(f[m]) : \E i \in 1..m : \E q \in 1..Len(seqs[i]) : p = Start(f, i) + q

LEMMA Within ==
    ASSUME NEW x \in Nat, NEW n \in Nat, NEW k \in Nat, x + n <= k, NEW q \in 1..n
    PROVE  x + q \in 1..k
OBVIOUS

LEMMA JoinedStep ==
    ASSUME NEW T, NEW seqs \in Seq(Seq(T)), NEW f, Flattens(f, seqs, Len(seqs)),
           NEW m \in 1..(Len(seqs) - 1), Joined(f, seqs, T, m)
    PROVE  Joined(f, seqs, T, m + 1)
<1> DEFINE a == f[m]
           b == seqs[m + 1]
           c == f[m + 1]
<1>1. m \in Nat /\ m + 1 \in 1..Len(seqs) /\ m + 1 # 1 /\ Len(seqs) \in Nat
  OBVIOUS
<1>2. c = a \o b
  <2>1. f[m + 1] = f[(m + 1) - 1] \o seqs[m + 1]
    BY <1>1 DEF Flattens
  <2>2. (m + 1) - 1 = m
    BY <1>1
  <2> QED BY <2>1, <2>2
<1>3. a \in Seq(T) /\ b \in Seq(T)
  BY <1>1 DEF Joined
<1>4. Start(f, m + 1) = Len(a)
  BY <1>1 DEF Start
<1> HIDE DEF a, b, c
<1>5. /\ c \in Seq(T) /\ Len(c) = Len(a) + Len(b) /\ Len(a) \in Nat /\ Len(b) \in Nat
      /\ \A p \in 1..Len(a) : c[p] = a[p]
      /\ \A q \in 1..Len(b) : c[Len(a) + q] = b[q]
  BY <1>2, <1>3
<1>6. ASSUME NEW i \in 1..(m + 1)
      PROVE  /\ Start(f, i) \in Nat /\ Start(f, i) + Len(seqs[i]) = Len(f[i])
             /\ Len(f[i]) <= Len(c)
             /\ \A q \in 1..Len(seqs[i]) : c[Start(f, i) + q] = seqs[i][q]
  <2>1. CASE i = m + 1
    <3>1. Start(f, i) = Len(a) /\ seqs[i] = b /\ f[i] = c
      BY <1>4, <2>1 DEF b, c
    <3>2. Len(a) + Len(b) = Len(c) /\ Len(c) <= Len(c)
      BY ONLY <1>5
    <3>3. \A q \in 1..Len(b) : c[Len(a) + q] = b[q]
      BY <1>5
    <3>4. Len(a) \in Nat
      BY <1>5
    <3> QED BY ONLY <3>1, <3>2, <3>3, <3>4
  <2>2. CASE i \in 1..m
    <3>1. /\ Start(f, i) \in Nat /\ Start(f, i) + Len(seqs[i]) = Len(f[i])
          /\ Len(f[i]) <= Len(a)
          /\ \A q \in 1..Len(seqs[i]) : a[Start(f, i) + q] = seqs[i][q]
      BY <2>2 DEF Joined, a
    <3>2. i \in 1..Len(seqs)
      BY <1>1, <2>2
    <3>3. seqs[i] \in Seq(T)
      BY <3>2
    <3>4. Len(seqs[i]) \in Nat
      BY <3>3
    <3>5. \A q \in 1..Len(seqs[i]) : Start(f, i) + q \in 1..Len(a)
      <4>1. Start(f, i) + Len(seqs[i]) <= Len(a)
        BY <3>1
      <4> QED BY <1>5, <3>1, <3>4, <4>1, Within
    <3>6. Len(f[i]) <= Len(c)
      <4>1. Len(f[i]) \in Nat
        BY ONLY <3>1, <3>4
      <4> QED BY ONLY <1>5, <3>1, <4>1
    <3> QED BY <1>5, <3>1, <3>5, <3>6
  <2>3. i = m + 1 \/ i \in 1..m
    BY ONLY <1>1, i \in 1..(m + 1)
  <2> QED BY <2>1, <2>2, <2>3
<1>7. ASSUME NEW p \in 1..Len(c)
      PROVE  \E i \in 1..(m + 1) : \E q \in 1..Len(seqs[i]) : p = Start(f, i) + q
  <2>1. CASE p \in 1..Len(a)
    <3>1. \E i \in 1..m : \E q \in 1..Len(seqs[i]) : p = Start(f, i) + q
      BY <2>1 DEF Joined, a
    <3>2. 1..m \subseteq 1..(m + 1)
      BY <1>1
    <3> QED BY <3>1, <3>2
  <2>2. CASE p \notin 1..Len(a)
    <3>1. Len(c) = Len(a) + Len(b) /\ Len(a) \in Nat /\ Len(b) \in Nat
      BY <1>5
    <3>2. p - Len(a) \in 1..Len(b) /\ p = Len(a) + (p - Len(a))
      BY ONLY <2>2, <3>1, p \in 1..Len(c)
    <3>3. p - Len(a) \in 1..Len(b) /\ p = Start(f, m + 1) + (p - Len(a))
      BY ONLY <1>4, <3>2
    <3>4. m + 1 \in 1..(m + 1)
      BY <1>1
    <3> QED BY <3>3, <3>4 DEF b
  <2> QED BY <2>1, <2>2
<1> QED BY <1>5, <1>6, <1>7 DEF Joined, c

LEMMA AllJoined ==
    ASSUME NEW T, NEW seqs \in Seq(Seq(T)), seqs # <<>>, NEW f, Flattens(f, seqs, Len(seqs))
    PROVE  \A m \in 1..Len(seqs) : Joined(f, seqs, T, m)
<1> DEFINE n == Len(seqs)
           Good == {m \in 1..n : Joined(f, seqs, T, m)}
<1>1. n \in Nat /\ n >= 1 /\ 1 \in 1..n /\ n \in 1..n
  BY EmptySeq
<1>2. f[1] = seqs[1] /\ seqs[1] \in Seq(T)
  BY <1>1 DEF Flattens
<1>3. Joined(f, seqs, T, 1)
  BY <1>2 DEF Joined, Start
<1>4. ASSUME NEW m \in 1..(n - 1), m \in Good
      PROVE  m + 1 \in Good
  <2>1. Joined(f, seqs, T, m + 1)
    BY <1>4, JoinedStep
  <2>2. m + 1 \in 1..n
    BY <1>1
  <2> QED BY <2>1, <2>2
<1>5. 1 \in Good
  BY <1>1, <1>3
<1> HIDE DEF Good
<1>6. 1..n \subseteq Good
  BY <1>1, <1>4, <1>5, Induction
<1> QED BY <1>6 DEF Good

(* Where each of the sequences stands in s, the join of them all. *)
Placed(seqs, at, s) ==
    /\ \A i \in DOMAIN seqs :
         /\ at[i] \in Nat /\ at[i] + Len(seqs[i]) <= Len(s)
         /\ \A q \in 1..Len(seqs[i]) : s[at[i] + q] = seqs[i][q]
    /\ \A i, j \in DOMAIN seqs : i < j => at[i] + Len(seqs[i]) <= at[j]
    /\ \A p \in 1..Len(s) : \E i \in DOMAIN seqs : \E q \in 1..Len(seqs[i]) : p = at[i] + q

LEMMA Flattened ==
    ASSUME NEW T, NEW seqs \in Seq(Seq(T))
    PROVE  /\ FlattenSeq(seqs) \in Seq(T)
           /\ \E at : Placed(seqs, at, FlattenSeq(seqs))
<1>1. CASE seqs = <<>>
  <2>1. FlattenSeq(seqs) = <<>> /\ DOMAIN seqs = {} /\ Len(<<>>) = 0
    BY <1>1 DEF FlattenSeq
  <2>2. <<>> \in Seq(T) /\ 1..0 = {}
    OBVIOUS
  <2> QED BY <2>1, <2>2 DEF Placed
<1>2. CASE seqs # <<>>
  <2> DEFINE n == Len(seqs)
             s == FlattenSeq(seqs)
  <2>1. n \in Nat /\ n # 0 /\ DOMAIN seqs = 1..n
    BY <1>2, EmptySeq
  <2>2. PICK f : Flattens(f, seqs, n) /\ s = f[n]
    BY <2>1, FlattenSeqIs
  <2>3. \A m \in 1..n : Joined(f, seqs, T, m)
    BY <1>2, <2>2, AllJoined
  <2> DEFINE at == [i \in 1..n |-> Start(f, i)]
  <2>4. \A i \in 1..n : at[i] = Start(f, i)
    OBVIOUS
  <2>5. n \in 1..n
    BY <2>1
  <2> HIDE DEF s, at
  <2>6. s \in Seq(T)
    BY <2>2, <2>3, <2>5 DEF Joined
  <2>7. ASSUME NEW i \in 1..n
        PROVE  /\ at[i] \in Nat /\ at[i] + Len(seqs[i]) <= Len(s)
               /\ \A q \in 1..Len(seqs[i]) : s[at[i] + q] = seqs[i][q]
    <3>1. /\ Start(f, i) \in Nat /\ Start(f, i) + Len(seqs[i]) = Len(f[i])
          /\ Len(f[i]) <= Len(f[n])
          /\ \A q \in 1..Len(seqs[i]) : f[n][Start(f, i) + q] = seqs[i][q]
      BY <2>3, <2>5 DEF Joined
    <3> QED BY <2>2, <2>4, <3>1
  <2>8. ASSUME NEW i \in 1..n, NEW j \in 1..n, i < j
        PROVE  at[i] + Len(seqs[i]) <= at[j]
    <3>1. j # 1 /\ j - 1 \in 1..n /\ i \in 1..(j - 1)
      BY <2>1, <2>8
    <3>2. at[j] = Len(f[j - 1])
      BY <2>4, <3>1 DEF Start
    <3>3. Start(f, i) + Len(seqs[i]) = Len(f[i]) /\ Len(f[i]) <= Len(f[j - 1])
      BY <2>3, <3>1 DEF Joined
    <3> QED BY <2>4, <3>2, <3>3
  <2>9. ASSUME NEW p \in 1..Len(s)
        PROVE  \E i \in 1..n : \E q \in 1..Len(seqs[i]) : p = at[i] + q
    <3>1. PICK i \in 1..n : \E q \in 1..Len(seqs[i]) : p = Start(f, i) + q
      BY <2>2, <2>3, <2>5 DEF Joined
    <3> QED BY <2>4, <3>1
  <2>10. DOMAIN seqs = 1..n
    BY <2>1
  <2>11. Placed(seqs, at, s)
    <3>1. \A i \in DOMAIN seqs :
            /\ at[i] \in Nat /\ at[i] + Len(seqs[i]) <= Len(s)
            /\ \A q \in 1..Len(seqs[i]) : s[at[i] + q] = seqs[i][q]
      BY ONLY <2>7, <2>10
    <3>2. \A i, j \in DOMAIN seqs : i < j => at[i] + Len(seqs[i]) <= at[j]
      BY ONLY <2>8, <2>10
    <3>3. \A p \in 1..Len(s) :
            \E i \in DOMAIN seqs : \E q \in 1..Len(seqs[i]) : p = at[i] + q
      BY ONLY <2>9, <2>10
    <3> QED BY ONLY <3>1, <3>2, <3>3 DEF Placed
  <2> QED BY <2>6, <2>11 DEF s
<1> QED BY <1>1, <1>2

-----------------------------------------------------------------------------
(* Reading a line. *)
LEMMA FirstIs ==
    ASSUME NEW S, NEW seq \in Seq(S), NEW token, NEW k \in 1..Len(seq), seq[k] = token,
           \A j \in 1..(k - 1) : seq[j] # token
    PROVE  First(seq, token) = k
<1> DEFINE Is == {i \in 1..Len(seq) : seq[i] = token}
<1>1. k \in Is /\ Is # {}
  OBVIOUS
<1>2. \A x \in Is : k <= x
  OBVIOUS
<1>3. \A x \in Is : (\A y \in Is : x <= y) => x = k
  BY <1>1, <1>2
<1>4. First(seq, token) = IF Is # {} THEN CHOOSE x \in Is : \A y \in Is : x <= y ELSE 0
  BY DEF First, SelectInSeq, Min
<1> HIDE DEF Is
<1> QED BY <1>1, <1>2, <1>3, <1>4

-----------------------------------------------------------------------------
(* The two readings of a file.  The tokens of a text in their order: *)
Text == Seq(Seq(Seq(STRING)))

(* Words of one token. *)
LEMMA Apart ==
    ASSUME NEW word, NEW token, word[1] # token
    PROVE  word # <<token>>
<1>1. <<token>>[1] = token
  OBVIOUS
<1> QED BY <1>1

LEMMA OneToken ==
    ASSUME NEW word, word \in Seq(STRING), DOMAIN word = {1}, NEW k \in 1..Len(word)
    PROVE  k = 1
<1>1. DOMAIN word = 1..Len(word)
  OBVIOUS
<1> QED BY <1>1

LEMMA PositionIs ==
    ASSUME NEW text \in Text, text # NoValue, NEW p \in Positions(text)
    PROVE  /\ p[1] \in Nat /\ p[2] \in Nat /\ p[3] \in Nat /\ p = <<p[1], p[2], p[3]>>
           /\ p[1] \in DOMAIN text /\ p[2] \in DOMAIN text[p[1]]
           /\ p[3] \in 1..Len(text[p[1]][p[2]]) /\ Len(text[p[1]][p[2]]) \in Nat
<1>1. PICK i \in DOMAIN text :
        p \in UNION {{<<i, w, k>> : k \in DOMAIN text[i][w]} : w \in DOMAIN text[i]}
  BY DEF Positions
<1>2. PICK w \in DOMAIN text[i] : p \in {<<i, w, k>> : k \in DOMAIN text[i][w]}
  BY <1>1
<1>3. PICK k \in DOMAIN text[i][w] : p = <<i, w, k>>
  BY <1>2
<1>4. text[i] \in Seq(Seq(STRING)) /\ i \in Nat
  BY DEF Text
<1>5. text[i][w] \in Seq(STRING) /\ w \in Nat
  BY <1>4
<1>6. k \in 1..Len(text[i][w]) /\ k \in Nat /\ Len(text[i][w]) \in Nat
  BY <1>5
<1> QED BY <1>3, <1>4, <1>5, <1>6

LEMMA IsPosition ==
    ASSUME NEW text \in Text, text # NoValue, NEW i \in DOMAIN text,
           NEW w \in DOMAIN text[i], NEW k \in DOMAIN text[i][w]
    PROVE  <<i, w, k>> \in Positions(text)
BY DEF Positions

LEMMA Ordered ==
    ASSUME NEW text \in Text, text # NoValue,
           NEW p \in Positions(text), NEW q \in Positions(text)
    PROVE  Before(p, q) \/ p = q \/ Before(q, p)
<1>1. /\ p[1] \in Nat /\ p[2] \in Nat /\ p[3] \in Nat /\ p = <<p[1], p[2], p[3]>>
      /\ q[1] \in Nat /\ q[2] \in Nat /\ q[3] \in Nat /\ q = <<q[1], q[2], q[3]>>
  BY PositionIs
<1>2. \/ Before(p, q) \/ Before(q, p)
      \/ p[1] = q[1] /\ p[2] = q[2] /\ p[3] = q[3]
  BY <1>1 DEF Before
<1> QED BY <1>1, <1>2

(* The i-th line is a heading with its "=" in the e-th word. *)
HeadingAt(text, i, e) ==
    /\ i \in DOMAIN text /\ e \in 3..(Len(text[i]) - 1) /\ Len(text[i]) \in Nat
    /\ text[i] \in Seq(Seq(STRING))
    /\ text[i][1] = <<"session">> /\ text[i][e] = <<"=">>
    /\ \A k \in 1..(e + 1) :
         /\ k \in DOMAIN text[i] /\ DOMAIN text[i][k] = {1}
         /\ text[i][k] = <<text[i][k][1]>> /\ text[i][k][1] \in STRING
         /\ text[i][k][1] \notin {"", "<comment", "comment>"}
    /\ \A k \in 2..(e - 1) : text[i][k][1] \notin {"=", "session"}
    /\ <<i, 1, 1>> \in Visible(text)

LEMMA HeadingIndex ==
    ASSUME NEW text \in Text, NEW i, NEW e, HeadingAt(text, i, e)
    PROVE  /\ i \in Nat /\ i \in DOMAIN text /\ e \in Nat /\ e >= 3
           /\ Len(text[i]) \in Nat /\ e < Len(text[i])
           /\ text[i] \in Seq(Seq(STRING)) /\ DOMAIN text[i] = 1..Len(text[i])
<1>1. /\ i \in DOMAIN text /\ e \in 3..(Len(text[i]) - 1) /\ Len(text[i]) \in Nat
      /\ text[i] \in Seq(Seq(STRING))
  BY DEF HeadingAt
<1>2. e \in Nat /\ e >= 3 /\ e < Len(text[i])
  BY ONLY <1>1
<1>3. i \in Nat
  BY <1>1 DEF Text
<1> QED BY <1>1, <1>2, <1>3

LEMMA HeadingIs ==
    ASSUME NEW text \in Text, text # NoValue, Plain(text),
           NEW i \in DOMAIN text, Heading(text[i])
    PROVE  \E e : HeadingAt(text, i, e)
<1> DEFINE line == text[i]
<1>1. line \in Seq(Seq(STRING)) /\ Len(line) \in Nat /\ DOMAIN line = 1..Len(line)
  BY DEF Text
<1>2. Spaced(line) /\ <<i, 1, 1>> \in Visible(text) /\ line[1] = <<"session">>
  BY DEF Plain, Heading
<1> HIDE DEF line
<1>3. PICK e \in 3..(Len(line) - 1) :
        /\ line[e] = <<"=">>
        /\ \A k \in 1..(e + 1) :
             Len(line[k]) = 1 /\ line[k][1] \notin {"", "<comment", "comment>"}
        /\ \A k \in 2..(e - 1) : line[k] \notin {<<"=">>, <<"session">>}
  BY <1>2 DEF Spaced
<1>4. ASSUME NEW k \in 1..(e + 1)
      PROVE  /\ k \in DOMAIN line /\ DOMAIN line[k] = {1}
             /\ line[k] = <<line[k][1]>> /\ line[k][1] \in STRING
             /\ line[k][1] \notin {"", "<comment", "comment>"}
  <2>1. k \in DOMAIN line
    BY <1>1
  <2>2. line[k] \in Seq(STRING) /\ Len(line[k]) = 1
    <3>1. line[k] \in Seq(STRING)
      BY <1>1, <2>1
    <3>2. Len(line[k]) = 1
      BY <1>3
    <3> QED BY <3>1, <3>2
  <2>3. DOMAIN line[k] = 1..1 /\ 1 \in 1..Len(line[k])
    BY <2>2
  <2>4. DOMAIN line[k] = {1} /\ line[k][1] \in STRING
    BY <2>2, <2>3
  <2>5. line[k] = <<line[k][1]>>
    BY <2>2, <2>3
  <2> QED BY <1>3, <2>1, <2>4, <2>5
<1>5. ASSUME NEW k \in 2..(e - 1)
      PROVE  line[k][1] \notin {"=", "session"}
  <2>1. k \in 1..(e + 1)
    OBVIOUS
  <2>2. line[k] = <<line[k][1]>> /\ line[k] \notin {<<"=">>, <<"session">>}
    BY <1>3, <1>4, <2>1
  <2> QED BY <2>2
<1> QED BY <1>1, <1>2, <1>3, <1>4, <1>5 DEF HeadingAt, line

(* The words of a heading up to the parent's name are visible tokens... *)
LEMMA HeadingVisible ==
    ASSUME NEW text \in Text, text # NoValue, NEW i, NEW e, HeadingAt(text, i, e),
           NEW k \in 1..(e + 1)
    PROVE  /\ <<i, k, 1>> \in Visible(text) /\ <<i, k, 1>> \in Positions(text)
           /\ Token(text, <<i, k, 1>>) = text[i][k][1]
<1> DEFINE p == <<i, k, 1>>
<1>0. i \in Nat /\ i \in DOMAIN text /\ e \in Nat /\ k \in Nat
  BY HeadingIndex
<1>1. /\ k \in DOMAIN text[i] /\ 1 \in DOMAIN text[i][k]
      /\ text[i][k][1] \notin {"<comment", "comment>"}
  BY DEF HeadingAt
<1>2. p \in Positions(text)
  BY <1>0, <1>1, IsPosition
<1>3. Token(text, p) = text[i][k][1]
  BY DEF Token
<1>4. ASSUME Hidden(text, p)
      PROVE  FALSE
  <2>1. PICK q \in Positions(text) :
          /\ Before(q, p) /\ Token(text, q) = "<comment"
          /\ \A r \in Positions(text) :
               Before(q, r) /\ Before(r, p) => Token(text, r) # "comment>"
    BY <1>4 DEF Hidden
  <2>2. /\ q[1] \in Nat /\ q[2] \in Nat /\ q[3] \in Nat /\ q = <<q[1], q[2], q[3]>>
        /\ q[3] \in 1..Len(text[q[1]][q[2]]) /\ Len(text[q[1]][q[2]]) \in Nat
        /\ q[1] \in DOMAIN text /\ q[2] \in DOMAIN text[q[1]]
    BY PositionIs
  <2>3. CASE q[1] < i
    <3>1. Before(q, <<i, 1, 1>>)
      BY <2>3 DEF Before
    <3>2. ASSUME NEW r \in Positions(text), Before(r, <<i, 1, 1>>)
          PROVE  Before(r, p)
      <4>1. r[1] \in Nat /\ r[2] \in Nat /\ r[3] \in Nat
        BY PositionIs
      <4> QED BY <1>0, <3>2, <4>1 DEF Before
    <3>3. Hidden(text, <<i, 1, 1>>)
      BY <2>1, <3>1, <3>2 DEF Hidden
    <3> QED BY <3>3 DEF HeadingAt, Visible
  <2>4. CASE ~(q[1] < i)
    <3>1. q[1] = i /\ (q[2] < k \/ (q[2] = k /\ q[3] < 1))
      BY <2>1, <2>4 DEF Before
    <3>2. q[1] = i /\ q[2] < k /\ q[2] >= 1
      <4>1. q[2] \in DOMAIN text[i] /\ DOMAIN text[i] = 1..Len(text[i])
        BY <2>2, <3>1, HeadingIndex
      <4> QED BY <2>2, <3>1, <4>1
    <3>3. q[2] \in 1..(e + 1)
      BY <1>0, <2>2, <3>2
    <3>4. DOMAIN text[i][q[2]] = {1} /\ text[i][q[2]][1] # "<comment"
      BY <3>3 DEF HeadingAt
    <3>5. q[3] \in 1..Len(text[i][q[2]]) /\ text[i][q[2]] \in Seq(STRING)
      BY <2>2, <3>1, HeadingIndex
    <3>6. q[3] = 1
      BY <3>4, <3>5, OneToken
    <3>7. Token(text, q) = text[i][q[2]][1]
      BY <3>1, <3>6 DEF Token
    <3> QED BY <2>1, <3>4, <3>7
  <2> QED BY <2>3, <2>4
<1> QED BY <1>1, <1>2, <1>3, <1>4 DEF Visible

(* ... and what lies between two of them is another. *)
LEMMA HeadingBetween ==
    ASSUME NEW text \in Text, text # NoValue, NEW i, NEW e, HeadingAt(text, i, e),
           NEW j \in 1..(e + 1), NEW k \in 1..(e + 1), NEW r \in Positions(text),
           Before(<<i, j, 1>>, r), Before(r, <<i, k, 1>>)
    PROVE  r[2] \in (j + 1)..(k - 1) /\ r = <<i, r[2], 1>>
<1>1. /\ r[1] \in Nat /\ r[2] \in Nat /\ r[3] \in Nat /\ r = <<r[1], r[2], r[3]>>
      /\ r[1] \in DOMAIN text /\ r[2] \in DOMAIN text[r[1]]
      /\ r[3] \in 1..Len(text[r[1]][r[2]]) /\ Len(text[r[1]][r[2]]) \in Nat
  BY PositionIs
<1>2. i \in Nat /\ e \in Nat /\ j \in Nat /\ k \in Nat /\ j >= 1 /\ k <= e + 1
  BY HeadingIndex
<1>3. r[1] = i /\ r[3] >= 1 /\ r[2] >= j /\ r[2] < k
  BY <1>1, <1>2 DEF Before
<1>4. r[2] \in 1..(e + 1)
  BY <1>2, <1>3, <1>1
<1>5. DOMAIN text[i][r[2]] = {1}
  BY <1>4 DEF HeadingAt
<1>6. r[3] = 1
  <2>1. r[3] \in 1..Len(text[i][r[2]]) /\ text[i][r[2]] \in Seq(STRING)
    BY <1>1, <1>3, HeadingIndex
  <2> QED BY <1>5, <2>1, OneToken
<1>7. r[2] # j
  BY <1>2, <1>3, <1>6 DEF Before
<1> QED BY <1>1, <1>2, <1>3, <1>6, <1>7

LEMMA HeadingAfter ==
    ASSUME NEW text \in Text, text # NoValue, NEW i, NEW e, HeadingAt(text, i, e),
           NEW k \in 1..e
    PROVE  After(Visible(text), <<i, k, 1>>) = {<<i, k + 1, 1>>}
<1> DEFINE p == <<i, k, 1>>
           n == <<i, k + 1, 1>>
<1>1. e \in Nat /\ k \in Nat /\ i \in Nat
  BY HeadingIndex
<1>2. k \in 1..(e + 1) /\ k + 1 \in 1..(e + 1)
  BY <1>1
<1>3. /\ p \in Positions(text) /\ n \in Positions(text) /\ n \in Visible(text)
  BY <1>2, HeadingVisible
<1>4. Before(p, n)
  BY <1>1 DEF Before
<1>5. ASSUME NEW r \in Positions(text)
      PROVE  ~(Before(p, r) /\ Before(r, n))
  <2>1. SUFFICES ASSUME Before(p, r), Before(r, n)
                 PROVE  FALSE
    OBVIOUS
  <2>2. r[2] \in (k + 1)..((k + 1) - 1)
    BY <1>2, <2>1, HeadingBetween
  <2> QED BY <1>1, <2>2
<1>6. Visible(text) \subseteq Positions(text)
  BY DEF Visible
<1> HIDE DEF p, n
<1>7. n \in After(Visible(text), p)
  BY <1>3, <1>4, <1>5, <1>6 DEF After
<1>8. ASSUME NEW q \in After(Visible(text), p)
      PROVE  q = n
  <2>1. /\ q \in Positions(text) /\ Before(p, q)
        /\ ~(Before(p, n) /\ Before(n, q))
    BY <1>3, <1>6 DEF After
  <2> QED BY <1>3, <1>4, <1>5, <2>1, Ordered
<1> QED BY <1>7, <1>8 DEF p, n

LEMMA HeadingEquals ==
    ASSUME NEW text \in Text, text # NoValue, NEW i, NEW e, HeadingAt(text, i, e)
    PROVE  EqualsOf(text, Visible(text), <<i, 1, 1>>) = {<<i, e, 1>>}
<1> DEFINE p == <<i, 1, 1>>
           n == <<i, e, 1>>
<1>1. e \in Nat /\ i \in Nat /\ e >= 3 /\ text[i][e] = <<"=">>
  BY HeadingIndex DEF HeadingAt
<1>2. 1 \in 1..(e + 1) /\ e \in 1..(e + 1) /\ e \in 1..e
  BY <1>1
<1>3. /\ p \in Positions(text) /\ n \in Positions(text) /\ n \in Visible(text)
      /\ Token(text, n) = text[i][e][1]
  BY <1>2, HeadingVisible
<1>4. Token(text, n) = "="
  BY <1>1, <1>3
<1>5. Before(p, n)
  BY <1>1 DEF Before
<1>6. After(Visible(text), n) # {}
  <2>1. After(Visible(text), n) = {<<i, e + 1, 1>>}
    BY <1>2, HeadingAfter
  <2> QED BY <2>1
<1>7. ASSUME NEW r \in Positions(text), Before(p, r), Before(r, n)
      PROVE  Token(text, r) \notin {"=", "session"}
  <2>1. r[2] \in (1 + 1)..(e - 1) /\ r = <<i, r[2], 1>>
    BY <1>2, <1>7, HeadingBetween
  <2>2. r[2] \in 2..(e - 1)
    BY <1>1, <2>1
  <2>3. text[i][r[2]][1] \notin {"=", "session"}
    BY <2>2 DEF HeadingAt
  <2>4. Token(text, r) = text[i][r[2]][1]
    BY <2>1 DEF Token
  <2> QED BY <2>3, <2>4
<1>8. Visible(text) \subseteq Positions(text)
  BY DEF Visible
<1> HIDE DEF p, n
<1>9. n \in EqualsOf(text, Visible(text), p)
  BY <1>3, <1>4, <1>5, <1>6, <1>7, <1>8 DEF EqualsOf
<1>10. ASSUME NEW q \in EqualsOf(text, Visible(text), p)
       PROVE  q = n
  <2>1. /\ q \in Positions(text) /\ Before(p, q) /\ Token(text, q) = "="
        /\ ~(Before(p, n) /\ Before(n, q))
    BY <1>3, <1>4, <1>8 DEF EqualsOf
  <2> QED BY <1>3, <1>5, <1>7, <2>1, Ordered
<1> QED BY <1>9, <1>10 DEF p, n

(* What a heading says, to the extension and to Isabelle. *)
LEMMA HeadingSays ==
    ASSUME NEW text \in Text, text # NoValue, NEW i, NEW e, HeadingAt(text, i, e)
    PROVE  SessionsFromLine(text[i]) = {[name |-> text[i][2], parent |-> text[i][e + 1]]}
<1> DEFINE line == text[i]
<1>1. /\ line[1] = <<"session">> /\ line[e] = <<"=">>
      /\ \A k \in 1..(e + 1) : line[k] = <<line[k][1]>> /\ line[k][1] # ""
      /\ \A k \in 2..(e - 1) : line[k][1] # "="
  BY DEF HeadingAt
<1>0. /\ line \in Seq(Seq(STRING)) /\ Len(line) \in Nat
      /\ e \in Nat /\ e >= 3 /\ e < Len(line)
  BY HeadingIndex
<1> HIDE DEF line
<1>2. e \in 1..Len(line) /\ Len(line) >= 2 /\ e \in 1..(Len(line) - 1)
  BY <1>0
<1>3. ASSUME NEW k \in 1..(e - 1)
      PROVE  line[k] # <<"=">>
  <2>1. CASE k = 1
    <3>1. <<"session">> # <<"=">>
      OBVIOUS
    <3> QED BY <1>1, <2>1, <3>1
  <2>2. CASE k # 1
    <3>1. k \in 2..(e - 1)
      BY <1>0, <2>2
    <3>2. line[k][1] # "="
      BY <1>1, <3>1
    <3> QED BY <3>2, Apart
  <2> QED BY <2>1, <2>2
<1>4. First(line, <<"=">>) = e
  BY <1>0, <1>1, <1>2, <1>3, FirstIs
<1>5. line[2] # <<"">> /\ line[e + 1] # <<"">>
  <2>1. 2 \in 1..(e + 1) /\ e + 1 \in 1..(e + 1)
    BY <1>0
  <2>2. line[2][1] # "" /\ line[e + 1][1] # ""
    BY <1>1, <2>1
  <2> QED BY <2>2, Apart
<1>6. ParentIn(line) = line[e + 1]
  BY <1>2, <1>4, <1>5 DEF ParentIn
<1> QED BY <1>1, <1>2, <1>5, <1>6 DEF SessionsFromLine, line

Said(text, i, e) == [name |-> text[i][2], parent |-> text[i][e + 1]]

(* Of a plain file, the extension finds the sessions that it declares. *)
LEMMA SessionsAreDeclared ==
    ASSUME NEW text \in {NoValue} \cup Text, Plain(text)
    PROVE  /\ SessionsFromRoot(text) = Declared(text)
           /\ \A s \in Declared(text) : Spelled(s.name) \in STRING
<1>1. CASE text = NoValue
  BY <1>1 DEF SessionsFromRoot, Declared, Visible, Positions
<1>2. CASE text # NoValue
  <2> DEFINE visible == Visible(text)
             Next(p)   == <<Token(text, CHOOSE q \in After(visible, p) : TRUE)>>
             Parent(p) == IF EqualsOf(text, visible, p) = {} THEN NoValue
                          ELSE Next(CHOOSE q \in EqualsOf(text, visible, p) : TRUE)
             Shown(p)  == [name |-> Next(p), parent |-> Parent(p)]
             Openings  == {p \in visible :
                             Token(text, p) = "session" /\ After(visible, p) # {}}
  <2>1. text \in Text
    BY <1>2
  <2>2. Declared(text) = {Shown(p) : p \in Openings}
    BY DEF Declared
  <2>3. ASSUME NEW i, NEW e, HeadingAt(text, i, e)
        PROVE  /\ <<i, 1, 1>> \in Openings /\ Shown(<<i, 1, 1>>) = Said(text, i, e)
               /\ Spelled(text[i][2]) \in STRING
    <3>1. e \in Nat /\ e >= 3 /\ text[i][1] = <<"session">>
      BY <2>1, <2>3, HeadingIndex DEF HeadingAt
    <3>2. 1 \in 1..(e + 1) /\ 2 \in 1..(e + 1) /\ e + 1 \in 1..(e + 1) /\ 1 \in 1..e /\ e \in 1..e
      BY <3>1
    <3>3. /\ <<i, 1, 1>> \in visible /\ Token(text, <<i, 1, 1>>) = text[i][1][1]
          /\ Token(text, <<i, 2, 1>>) = text[i][2][1]
          /\ Token(text, <<i, e + 1, 1>>) = text[i][e + 1][1]
      BY <1>2, <2>1, <2>3, <3>2, HeadingVisible
    <3>4. After(visible, <<i, 1, 1>>) = {<<i, 1 + 1, 1>>}
      BY <1>2, <2>1, <2>3, <3>2, HeadingAfter
    <3>5. After(visible, <<i, e, 1>>) = {<<i, e + 1, 1>>}
      BY <1>2, <2>1, <2>3, <3>2, HeadingAfter
    <3>6. EqualsOf(text, visible, <<i, 1, 1>>) = {<<i, e, 1>>}
      BY <1>2, <2>1, <2>3, HeadingEquals
    <3>7. /\ text[i][2] = <<text[i][2][1]>> /\ text[i][2][1] \in STRING
          /\ text[i][e + 1] = <<text[i][e + 1][1]>>
      BY <2>3, <3>2 DEF HeadingAt
    <3> HIDE DEF visible
    <3>8. Next(<<i, 1, 1>>) = text[i][2]
      BY <3>3, <3>4, <3>7
    <3>9. Next(<<i, e, 1>>) = text[i][e + 1]
      BY <3>3, <3>5, <3>7
    <3>10. Parent(<<i, 1, 1>>) = text[i][e + 1]
      <4>1. (CHOOSE q \in EqualsOf(text, visible, <<i, 1, 1>>) : TRUE) = <<i, e, 1>>
        BY <3>6
      <4> HIDE DEF Next
      <4> QED BY <3>6, <3>9, <4>1
    <3>11. Spelled(text[i][2]) \in STRING
      <4>1. Len(text[i][2]) = 1
        BY <3>7
      <4> QED BY <3>7, <4>1 DEF Spelled
    <3>12. <<i, 1, 1>> \in Openings
      BY <3>1, <3>3, <3>4
    <3> HIDE DEF Next, Parent
    <3> QED BY <3>8, <3>10, <3>11, <3>12 DEF Said
  <2>4. ASSUME NEW p \in Openings
        PROVE  \E i \in DOMAIN text : Heading(text[i]) /\ p = <<i, 1, 1>>
    <3>1. p = <<p[1], 1, 1>> /\ Heading(text[p[1]])
      BY <1>2 DEF Plain
    <3>2. p[1] \in DOMAIN text
      BY <1>2, <2>1, PositionIs DEF Visible
    <3> QED BY <3>1, <3>2
  <2> HIDE DEF Openings, Shown
  <2>5. ASSUME NEW x \in Declared(text)
        PROVE  x \in SessionsFromRoot(text) /\ Spelled(x.name) \in STRING
    <3>1. PICK p \in Openings : x = Shown(p)
      BY <2>2
    <3>2. PICK i \in DOMAIN text : Heading(text[i]) /\ p = <<i, 1, 1>>
      BY <2>4
    <3>3. PICK e : HeadingAt(text, i, e)
      BY <1>2, <2>1, <3>2, HeadingIs
    <3>4. x = Said(text, i, e) /\ Spelled(text[i][2]) \in STRING
      BY <2>3, <3>1, <3>2, <3>3
    <3>5. SessionsFromLine(text[i]) = {x}
      BY <1>2, <2>1, <3>3, <3>4, HeadingSays DEF Said
    <3>6. x \in SessionsFromRoot(text)
      BY <1>2, <3>5 DEF SessionsFromRoot
    <3>7. x.name = text[i][2]
      BY <3>4 DEF Said
    <3> QED BY <3>4, <3>6, <3>7
  <2>6. ASSUME NEW x \in SessionsFromRoot(text)
        PROVE  x \in Declared(text)
    <3>1. PICK i \in DOMAIN text : x \in SessionsFromLine(text[i])
      BY <1>2 DEF SessionsFromRoot
    <3>2. Heading(text[i])
      <4>1. Len(text[i]) >= 2 /\ text[i][1] = <<"session">>
        BY <3>1 DEF SessionsFromLine
      <4>2. text[i] # <<>>
        BY <4>1
      <4> QED BY <4>1, <4>2 DEF Heading
    <3>3. PICK e : HeadingAt(text, i, e)
      BY <1>2, <2>1, <3>2, HeadingIs
    <3>4. x = Said(text, i, e)
      BY <1>2, <2>1, <3>1, <3>3, HeadingSays DEF Said
    <3> QED BY <2>2, <2>3, <3>3, <3>4
  <2> QED BY <2>5, <2>6
<1> QED BY <1>1, <1>2

-----------------------------------------------------------------------------
(* The sessions of a worktree are finitely many, so counting names tells    *)
(* whether there is just one.                                               *)
LEMMA ImageFinite ==
    ASSUME NEW S, IsFiniteSet(S), NEW f, DOMAIN f = S, f = [x \in S |-> f[x]]
    PROVE  IsFiniteSet({f[x] : x \in S})
<1> DEFINE T == {f[x] : x \in S}
<1>1. f \in [S -> T]
  OBVIOUS
<1>2. \A t \in T : \E x \in S : f[x] = t
  OBVIOUS
<1> HIDE DEF T
<1>3. f \in Surjection(S, T)
  BY <1>1, <1>2 DEF Surjection
<1>4. IsFiniteSet(T)
  BY <1>3, FS_Surjection
<1> QED BY <1>4 DEF T

LEMMA SessionsFinite ==
    ASSUME NEW text \in {NoValue} \cup Text
    PROVE  IsFiniteSet(SessionsFromRoot(text))
<1>1. CASE text = NoValue
  BY <1>1, FS_EmptySet DEF SessionsFromRoot
<1>2. CASE text # NoValue
  <2>1. DOMAIN text = 1..Len(text) /\ Len(text) \in Nat
    BY <1>2 DEF Text
  <2> DEFINE f == [i \in DOMAIN text |-> [name |-> text[i][2], parent |-> ParentIn(text[i])]]
  <2>2. \A i \in DOMAIN text : SessionsFromLine(text[i]) \subseteq {f[i]}
    BY DEF SessionsFromLine
  <2>3. SessionsFromRoot(text) = UNION {SessionsFromLine(text[i]) : i \in DOMAIN text}
    BY <1>2 DEF SessionsFromRoot
  <2>4. f = [i \in DOMAIN text |-> f[i]] /\ DOMAIN f = DOMAIN text
    OBVIOUS
  <2>5. IsFiniteSet(DOMAIN text)
    BY <2>1, FS_Interval
  <2> HIDE DEF f
  <2>6. IsFiniteSet({f[i] : i \in DOMAIN text})
    BY <2>4, <2>5, ImageFinite
  <2>7. SessionsFromRoot(text) \subseteq {f[i] : i \in DOMAIN text}
    BY <2>2, <2>3
  <2> QED BY <2>6, <2>7, FS_Subset
<1> QED BY <1>1, <1>2

LEMMA NamesTyped ==
    ASSUME NEW S, IsFiniteSet(S), \A s \in S : Spelled(s.name) \in STRING
    PROVE  /\ IsFiniteSet(Names(S)) /\ \A n \in Names(S) : Spelled(n) \in STRING
           /\ Cardinality(Names(S)) = 1 <=> \E n : Names(S) = {n}
           /\ \A n : Names(S) = {n} => (CHOOSE s \in S : TRUE).name = n
<1> DEFINE f == [s \in S |-> s.name]
<1>1. f = [s \in S |-> f[s]] /\ DOMAIN f = S /\ \A s \in S : f[s] = s.name
  OBVIOUS
<1> HIDE DEF f
<1>2. IsFiniteSet({f[s] : s \in S})
  BY <1>1, ImageFinite
<1>3. Names(S) = {f[s] : s \in S}
  BY <1>1 DEF Names
<1>4. IsFiniteSet(Names(S)) /\ \A n \in Names(S) : Spelled(n) \in STRING
  BY <1>2, <1>3 DEF Names
<1>5. Cardinality(Names(S)) = 1 <=> \E n : Names(S) = {n}
  BY <1>4, FS_Singleton
<1>6. ASSUME NEW n, Names(S) = {n}
      PROVE  (CHOOSE s \in S : TRUE).name = n
  <2>1. S # {}
    BY <1>6 DEF Names
  <2>2. (CHOOSE s \in S : TRUE) \in S
    BY <2>1
  <2> QED BY <1>6, <2>2 DEF Names
<1> QED BY <1>4, <1>5, <1>6

(* The README's rules and the extension's agree on the logic. *)
LEMMA AutoLogicIsReadmes ==
    ASSUME NoValue \notin STRING, NEW project, WellFormed(project),
           \A text \in RootTexts(project) : Plain(text),
           NEW logic, logic = AutoLogicFromRoot(project)
    PROVE  /\ logic = NoValue => ReadmeLogic(project) = {"HOL"}
           /\ logic # NoValue => ReadmeLogic(project) = {logic}
<1> DEFINE own    == SessionsFromRoot(project.root)
           others == OtherSessions(project)
           dirs   == RootDirs(project.roots)
           all    == own \cup others
           hol    == {s \in all : s.parent = <<"HOL">>}
<1>1. /\ project.root \in {NoValue} \cup Text /\ Plain(project.root)
      /\ \A d \in dirs : /\ project.others[d] \in {NoValue} \cup Text
                          /\ Plain(project.others[d])
  BY DEF WellFormed, RootTexts, Text
<1>2. own = Declared(project.root) /\ \A s \in own : Spelled(s.name) \in STRING
  BY <1>1, SessionsAreDeclared
<1>3. \A d \in dirs :
        /\ SessionsFromRoot(project.others[d]) = Declared(project.others[d])
        /\ \A s \in SessionsFromRoot(project.others[d]) : Spelled(s.name) \in STRING
  BY <1>1, SessionsAreDeclared
<1>4. IsFiniteSet(own) /\ \A s \in own : Spelled(s.name) \in STRING
  BY <1>1, <1>2, SessionsFinite
<1>5. \A d \in dirs :
        /\ IsFiniteSet(SessionsFromRoot(project.others[d]))
        /\ \A s \in SessionsFromRoot(project.others[d]) : Spelled(s.name) \in STRING
  BY <1>1, <1>3, SessionsFinite
<1>6. IsFiniteSet(dirs)
  <2>1. CASE project.roots = NoValue
    BY <2>1, FS_EmptySet DEF RootDirs
  <2>2. CASE project.roots # NoValue
    <3> DEFINE f == project.roots
    <3>1. f \in Seq(STRING)
      BY <2>2 DEF WellFormed
    <3>2. f = [i \in DOMAIN f |-> f[i]] /\ DOMAIN f = 1..Len(f) /\ Len(f) \in Nat
      BY <3>1
    <3>3. IsFiniteSet(DOMAIN f)
      BY <3>2, FS_Interval
    <3> HIDE DEF f
    <3>4. IsFiniteSet({f[i] : i \in DOMAIN f})
      BY <3>2, <3>3, ImageFinite
    <3>5. dirs \subseteq {f[i] : i \in DOMAIN f}
      BY <2>2 DEF RootDirs, f
    <3> QED BY <3>4, <3>5, FS_Subset
  <2> QED BY <2>1, <2>2
<1>7. others = UNION {Declared(project.others[d]) : d \in dirs}
  BY <1>3 DEF OtherSessions
<1>8. IsFiniteSet(others) /\ \A s \in others : Spelled(s.name) \in STRING
  <2> DEFINE f == [d \in dirs |-> SessionsFromRoot(project.others[d])]
  <2>1. f = [d \in dirs |-> f[d]] /\ DOMAIN f = dirs
    OBVIOUS
  <2>2. \A d \in dirs : f[d] = SessionsFromRoot(project.others[d])
    OBVIOUS
  <2>3. others = UNION {f[d] : d \in dirs}
    BY DEF OtherSessions
  <2> HIDE DEF f, others, dirs
  <2>4. IsFiniteSet({f[d] : d \in dirs})
    BY <1>6, <2>1, ImageFinite
  <2>5. \A T \in {f[d] : d \in dirs} : IsFiniteSet(T) /\ \A s \in T : Spelled(s.name) \in STRING
    BY <1>5, <2>2
  <2>6. IsFiniteSet(others)
    BY <2>3, <2>4, <2>5, FS_UNION
  <2>7. \A s \in others : Spelled(s.name) \in STRING
    BY <2>3, <2>5
  <2> QED BY <2>6, <2>7
<1>9. IsFiniteSet(hol) /\ \A s \in hol : Spelled(s.name) \in STRING
  <2>1. IsFiniteSet(all) /\ \A s \in all : Spelled(s.name) \in STRING
    BY <1>4, <1>8, FS_Union
  <2>2. hol \in SUBSET all
    OBVIOUS
  <2> HIDE DEF hol, all
  <2> QED BY <2>1, <2>2, FS_Subset
<1>10. logic = CASE Cardinality(Names(own)) = 1 -> Spelled((CHOOSE s \in own : TRUE).name)
                 [] Cardinality(Names(own)) # 1 /\ Cardinality(Names(hol)) = 1
                      -> Spelled((CHOOSE s \in hol : TRUE).name)
                 [] OTHER -> NoValue
  BY DEF AutoLogicFromRoot, PickAutoLogic
<1>11. ReadmeLogic(project) =
         {Spelled(n) : n \in
            IF \E n \in Names(own) : Names(own) = {n} THEN Names(own)
            ELSE IF \E n \in Names(hol) : Names(hol) = {n} THEN Names(hol)
            ELSE {<<"HOL">>}}
  BY <1>2, <1>7 DEF ReadmeLogic
<1> HIDE DEF own, hol
<1>12. /\ \A n \in Names(own) \cup Names(hol) : Spelled(n) \in STRING
       /\ Cardinality(Names(own)) = 1 <=> \E n \in Names(own) : Names(own) = {n}
       /\ Cardinality(Names(hol)) = 1 <=> \E n \in Names(hol) : Names(hol) = {n}
       /\ \A n : Names(own) = {n} => (CHOOSE s \in own : TRUE).name = n
       /\ \A n : Names(hol) = {n} => (CHOOSE s \in hol : TRUE).name = n
  BY <1>4, <1>9, NamesTyped
<1>13. CASE Cardinality(Names(own)) = 1
  <2>1. PICK n \in Names(own) : Names(own) = {n}
    BY <1>12, <1>13
  <2>2. logic = Spelled(n) /\ Spelled(n) # NoValue
    BY <1>10, <1>12, <1>13, <2>1
  <2> QED BY <1>11, <2>1, <2>2
<1>14. CASE Cardinality(Names(own)) # 1 /\ Cardinality(Names(hol)) = 1
  <2>1. PICK n \in Names(hol) : Names(hol) = {n}
    BY <1>12, <1>14
  <2>2. logic = Spelled(n) /\ Spelled(n) # NoValue
    BY <1>10, <1>12, <1>14, <2>1
  <2> QED BY <1>11, <1>12, <1>14, <2>1, <2>2
<1>15. CASE Cardinality(Names(own)) # 1 /\ Cardinality(Names(hol)) # 1
  <2>1. logic = NoValue
    BY <1>10, <1>15
  <2>2. ReadmeLogic(project) = {Spelled(<<"HOL">>)}
    BY <1>11, <1>12, <1>15
  <2>3. Spelled(<<"HOL">>) = "HOL"
    BY DEF Spelled
  <2> QED BY <2>1, <2>2, <2>3
<1> QED BY <1>13, <1>14, <1>15

-----------------------------------------------------------------------------
(* The arguments.  Where a word occurs in a sequence: *)
Occurs(seq, word) == {i \in DOMAIN seq : seq[i] = word}

LEMMA OccursJoined ==
    ASSUME NEW S, NEW a \in Seq(S), NEW b \in Seq(S), NEW word
    PROVE  /\ Occurs(b, word) = {} => Occurs(a \o b, word) = Occurs(a, word)
           /\ Occurs(a, word) = {}
                => Occurs(a \o b, word) = {Len(a) + j : j \in Occurs(b, word)}
<1> DEFINE c == a \o b
<1>1. /\ c \in Seq(S) /\ Len(c) = Len(a) + Len(b) /\ Len(a) \in Nat /\ Len(b) \in Nat
      /\ \A i \in 1..Len(a) : c[i] = a[i]
      /\ \A j \in 1..Len(b) : c[Len(a) + j] = b[j]
  OBVIOUS
<1> HIDE DEF c
<1>2. DOMAIN a = 1..Len(a) /\ DOMAIN b = 1..Len(b) /\ DOMAIN c = 1..Len(c)
  BY <1>1
<1>3. \A i \in DOMAIN c : i \in DOMAIN a \/ (i - Len(a) \in DOMAIN b /\ i = Len(a) + (i - Len(a)))
  BY <1>1, <1>2
<1>4. DOMAIN a \subseteq DOMAIN c /\ \A j \in DOMAIN b : Len(a) + j \in DOMAIN c
  BY <1>1, <1>2
<1>5. ASSUME Occurs(b, word) = {}
      PROVE  Occurs(c, word) = Occurs(a, word)
  <2>1. \A j \in DOMAIN b : b[j] # word
    BY <1>5 DEF Occurs
  <2>2. \A i \in DOMAIN c : c[i] = word => i \in DOMAIN a
    BY <1>1, <1>2, <1>3, <2>1
  <2> QED BY <1>1, <1>2, <1>4, <2>2 DEF Occurs
<1>6. ASSUME Occurs(a, word) = {}
      PROVE  Occurs(c, word) = {Len(a) + j : j \in Occurs(b, word)}
  <2>1. \A i \in DOMAIN a : a[i] # word
    BY <1>6 DEF Occurs
  <2>2. ASSUME NEW i \in Occurs(c, word)
        PROVE  i \in {Len(a) + j : j \in Occurs(b, word)}
    <3>1. i \in DOMAIN c /\ c[i] = word
      BY DEF Occurs
    <3>2. i \notin DOMAIN a
      BY <1>1, <1>2, <2>1, <3>1
    <3>3. i - Len(a) \in DOMAIN b /\ i = Len(a) + (i - Len(a))
      BY <1>3, <3>1, <3>2
    <3>4. i - Len(a) \in Occurs(b, word)
      BY <1>1, <1>2, <3>1, <3>3 DEF Occurs
    <3> QED BY <3>3, <3>4
  <2>3. ASSUME NEW j \in Occurs(b, word)
        PROVE  Len(a) + j \in Occurs(c, word)
    BY <1>1, <1>2, <1>4 DEF Occurs
  <2> QED BY <2>2, <2>3
<1> QED BY <1>5, <1>6 DEF c

(* A word among "-d" and the directories. *)
DirArgs(dirs) == FlattenSeq([i \in DOMAIN dirs |-> <<"-d", dirs[i]>>])

LEMMA OccursInDirs ==
    ASSUME NEW S, NEW dirs \in Seq(S), "-d" \in S, NEW word, word # "-d"
    PROVE  /\ DirArgs(dirs) \in Seq(S)
           /\ Occurs(dirs, word) = {} => Occurs(DirArgs(dirs), word) = {}
           /\ \A i : Occurs(dirs, word) = {i} => \E k : Occurs(DirArgs(dirs), word) = {k}
<1> DEFINE pairs == [i \in DOMAIN dirs |-> <<"-d", dirs[i]>>]
           s == DirArgs(dirs)
<1>1. \A i \in DOMAIN dirs : /\ pairs[i] \in Seq(S) /\ Len(pairs[i]) = 2
                             /\ pairs[i][1] = "-d" /\ pairs[i][2] = dirs[i]
  OBVIOUS
<1>2. pairs = [i \in 1..Len(dirs) |-> pairs[i]] /\ DOMAIN pairs = DOMAIN dirs
  OBVIOUS
<1>3. DOMAIN dirs = 1..Len(dirs) /\ Len(dirs) \in Nat
  OBVIOUS
<1>4. s = FlattenSeq(pairs)
  BY DEF DirArgs
<1> HIDE DEF pairs, s
<1>5. pairs \in Seq(Seq(S))
  BY <1>1, <1>2, <1>3
<1>6. s \in Seq(S)
  BY <1>4, <1>5, Flattened
<1>7. PICK at : Placed(pairs, at, s)
  BY <1>4, <1>5, Flattened
<1>8. DOMAIN s = 1..Len(s) /\ Len(s) \in Nat
  BY <1>6
<1>9. ASSUME NEW p \in Occurs(s, word)
      PROVE  \E i \in Occurs(dirs, word) : p = at[i] + 2
  <2>1. p \in 1..Len(s) /\ s[p] = word
    BY <1>8 DEF Occurs
  <2>2. PICK i \in DOMAIN pairs : \E q \in 1..Len(pairs[i]) : p = at[i] + q
    BY <1>7, <2>1 DEF Placed
  <2>3. PICK q \in 1..2 : p = at[i] + q
    BY <1>1, <1>2, <2>2
  <2>4. s[at[i] + q] = pairs[i][q]
    <3>1. i \in DOMAIN dirs /\ q \in 1..Len(pairs[i])
      BY <1>1, <1>2
    <3> QED BY <1>7, <3>1 DEF Placed
  <2>5. q = 2
    <3>1. q # 1
      BY <1>1, <1>2, <2>1, <2>3, <2>4
    <3> QED BY <3>1
  <2>6. dirs[i] = word /\ i \in DOMAIN dirs
    BY <1>1, <1>2, <2>1, <2>3, <2>4, <2>5
  <2> QED BY <2>3, <2>5, <2>6 DEF Occurs
<1>10. ASSUME NEW i \in Occurs(dirs, word)
       PROVE  at[i] + 2 \in Occurs(s, word)
  <2>1. i \in DOMAIN dirs /\ dirs[i] = word /\ i \in DOMAIN pairs
    BY <1>2 DEF Occurs
  <2>2. /\ at[i] \in Nat /\ at[i] + 2 <= Len(s) /\ s[at[i] + 2] = word
    <3>1. /\ at[i] \in Nat /\ at[i] + Len(pairs[i]) <= Len(s)
          /\ \A q \in 1..Len(pairs[i]) : s[at[i] + q] = pairs[i][q]
      BY <1>7, <2>1 DEF Placed
    <3>2. Len(pairs[i]) = 2 /\ pairs[i][2] = word
      BY <1>1, <2>1
    <3> QED BY ONLY <3>1, <3>2
  <2>3. at[i] + 2 \in DOMAIN s
    BY <1>8, <2>2
  <2> QED BY <2>2, <2>3 DEF Occurs
<1>11. \A i : Occurs(dirs, word) = {i} => Occurs(s, word) = {at[i] + 2}
  BY <1>9, <1>10
<1>12. Occurs(dirs, word) = {} => Occurs(s, word) = {}
  BY <1>9
<1> QED BY <1>6, <1>11, <1>12 DEF s

LEMMA SessionDirsAre ==
    ASSUME NEW project, WellFormed(project)
    PROVE  /\ SessionDirs(project) \in Seq(STRING)
           /\ \A word : word \notin ToSet(project.dirs) \cup {project.path}
                          => Occurs(SessionDirs(project), word) = {}
           /\ HasSessionRoot(project) /\ ListedOnce(project)
                => \E i : Occurs(SessionDirs(project), project.path) = {i}
<1> DEFINE dirs == project.dirs
           path == project.path
<1>1. /\ dirs \in Seq(STRING) /\ path \in STRING
      /\ DOMAIN dirs = 1..Len(dirs) /\ Len(dirs) \in Nat
  BY DEF WellFormed
<1>2. CASE HasSessionRoot(project) /\ ~Contains(dirs, path)
  <2> DEFINE new == Append(dirs, path)
  <2>1. SessionDirs(project) = new
    BY <1>2 DEF SessionDirs
  <2>2. /\ new \in Seq(STRING) /\ DOMAIN new = 1..(Len(dirs) + 1)
        /\ \A i \in 1..Len(dirs) : new[i] = dirs[i]
        /\ new[Len(dirs) + 1] = path
    BY <1>1
  <2>3. \A i \in 1..Len(dirs) : dirs[i] # path
    BY <1>2 DEF Contains
  <2> HIDE DEF new
  <2>4. \A i \in DOMAIN new : i \in 1..Len(dirs) \/ i = Len(dirs) + 1
    BY <1>1, <2>2
  <2>5. Len(dirs) + 1 \in DOMAIN new
    BY <1>1, <2>2
  <2>6. Occurs(new, path) = {Len(dirs) + 1}
    BY <2>2, <2>3, <2>4, <2>5 DEF Occurs
  <2>7. \A word : word \notin ToSet(dirs) \cup {path} => Occurs(new, word) = {}
    BY <1>1, <2>2, <2>4 DEF Occurs, ToSet
  <2> QED BY <2>1, <2>2, <2>6, <2>7
<1>3. CASE ~(HasSessionRoot(project) /\ ~Contains(dirs, path))
  <2>1. SessionDirs(project) = dirs
    BY <1>3 DEF SessionDirs
  <2>2. \A word : word \notin ToSet(dirs) => Occurs(dirs, word) = {}
    BY DEF Occurs, ToSet
  <2>3. ASSUME HasSessionRoot(project), ListedOnce(project)
        PROVE  \E i : Occurs(dirs, path) = {i}
    <3>1. PICK i \in 1..Len(dirs) : dirs[i] = path
      BY <1>3, <2>3 DEF Contains
    <3>2. \A j \in DOMAIN dirs : dirs[j] = path => j = i
      BY <1>1, <2>3, <3>1 DEF ListedOnce
    <3>3. Occurs(dirs, path) = {i}
      BY <1>1, <3>1, <3>2 DEF Occurs
    <3> QED BY <3>3
  <2> QED BY <1>1, <2>1, <2>2, <2>3
<1> QED BY <1>2, <1>3

(* The words before the directories. *)
LogicArgs(logic) == IF logic = NoValue THEN <<>> ELSE <<"-l", logic>>
BuildArgs(noBuild) == IF noBuild THEN <<"-n">> ELSE <<>>
HeadArgs(logic, noBuild) == <<"vscode_server">> \o LogicArgs(logic) \o BuildArgs(noBuild)

LEMMA ConcatIs ==
    ASSUME NEW S, NEW a \in Seq(S), NEW b \in Seq(S)
    PROVE  /\ a \o b \in Seq(S) /\ Len(a \o b) = Len(a) + Len(b)
           /\ Len(a) \in Nat /\ Len(b) \in Nat
           /\ \A i \in 1..Len(a) : (a \o b)[i] = a[i]
           /\ \A i \in 1..Len(b) : (a \o b)[Len(a) + i] = b[i]
OBVIOUS

LEMMA HeadArgsAre ==
    ASSUME NEW S, "vscode_server" \in S, "-l" \in S, "-n" \in S,
           NEW logic \in S, NEW noBuild, NEW head, head = HeadArgs(logic, noBuild)
    PROVE  /\ head \in Seq(S)
           /\ \A word : word \notin {"vscode_server", "-l", "-n", logic}
                          => Occurs(head, word) = {}
           /\ logic = NoValue => Occurs(head, "-l") = {}
           /\ logic \notin {NoValue, "-l"} =>
                Occurs(head, "-l") = {2} /\ Len(head) >= 3 /\ head[3] = logic
<1> DEFINE a == <<"vscode_server">>
           b == LogicArgs(logic)
           c == BuildArgs(noBuild)
<1>1. a \in Seq(S)
  OBVIOUS
<1>2. Len(a) = 1
  OBVIOUS
<1>3. b \in Seq(S)
  BY DEF LogicArgs
<1>4. c \in Seq(S)
  BY DEF BuildArgs
<1>5. /\ \A word : word # "vscode_server" => Occurs(a, word) = {}
      /\ \A word : word \notin {"-l", logic} => Occurs(b, word) = {}
      /\ \A word : word # "-n" => Occurs(c, word) = {}
  BY DEF LogicArgs, BuildArgs, Occurs
<1>6. logic = NoValue => Occurs(b, "-l") = {}
  BY DEF LogicArgs, Occurs
<1>7. logic \notin {NoValue, "-l"} => /\ Len(b) = 2 /\ b[2] = logic
                                     /\ Occurs(b, "-l") = {1}
  BY DEF LogicArgs, Occurs
<1>8. head = (a \o b) \o c
  BY DEF HeadArgs
<1> HIDE DEF a, b, c
<1>9. /\ a \o b \in Seq(S) /\ Len(a \o b) = 1 + Len(b)
      /\ Len(b) \in Nat
      /\ \A i \in 1..Len(b) : (a \o b)[1 + i] = b[i]
  <2>1. /\ a \o b \in Seq(S) /\ Len(a \o b) = Len(a) + Len(b)
        /\ Len(b) \in Nat
        /\ \A i \in 1..Len(b) : (a \o b)[Len(a) + i] = b[i]
    BY <1>1, <1>3, ConcatIs
  <2> QED BY <1>2, <2>1
<1> DEFINE d == a \o b
<1>10. d \in Seq(S)
  BY <1>9
<1>11. Len(d) = 1 + Len(b) /\ \A i \in 1..Len(b) : d[1 + i] = b[i]
  BY <1>9
<1>12. ASSUME NEW word, Occurs(a, word) = {}
       PROVE  Occurs(d, word) = {1 + j : j \in Occurs(b, word)}
  <2>1. Occurs(a \o b, word) = {Len(a) + j : j \in Occurs(b, word)}
    BY <1>1, <1>3, <1>12, OccursJoined
  <2> QED BY <1>2, <2>1
<1>13. head = d \o c
  BY <1>8
<1> HIDE DEF d
<1>14. ASSUME NEW word, Occurs(c, word) = {}
       PROVE  Occurs(head, word) = Occurs(d, word)
  BY <1>4, <1>10, <1>13, <1>14, OccursJoined
<1>15. /\ head \in Seq(S) /\ Len(head) = Len(d) + Len(c)
       /\ Len(d) \in Nat /\ Len(c) \in Nat
       /\ \A i \in 1..Len(d) : head[i] = d[i]
  BY <1>4, <1>10, <1>13, ConcatIs
<1>16. ASSUME NEW word, word \notin {"vscode_server", "-l", "-n", logic}
       PROVE  Occurs(head, word) = {}
  <2>1. Occurs(a, word) = {} /\ Occurs(b, word) = {} /\ Occurs(c, word) = {}
    BY <1>5, <1>16
  <2> QED BY <1>12, <1>14, <2>1
<1>17. Occurs(head, "-l") = {1 + j : j \in Occurs(b, "-l")}
  <2>1. Occurs(a, "-l") = {} /\ Occurs(c, "-l") = {}
    BY <1>5
  <2> QED BY <1>12, <1>14, <2>1
<1>18. logic = NoValue => Occurs(head, "-l") = {}
  BY <1>6, <1>17
<1>19. ASSUME logic \notin {NoValue, "-l"}
       PROVE  Occurs(head, "-l") = {2} /\ Len(head) >= 3 /\ head[3] = logic
  <2>1. Occurs(head, "-l") = {2}
    BY <1>7, <1>17, <1>19
  <2>2. Len(b) = 2 /\ b[2] = logic
    BY <1>7, <1>19
  <2>3. Len(d) = 3 /\ d[3] = logic
    <3>1. 2 \in 1..Len(b) /\ 1 + 2 = 3
      BY <2>2
    <3> QED BY <1>11, <2>2, <3>1
  <2> QED BY <1>15, <2>1, <2>3
<1> QED BY <1>15, <1>16, <1>18, <1>19

LEMMA LargerSeq ==
    ASSUME NEW S, NEW T, S \subseteq T, NEW seq \in Seq(S)
    PROVE  seq \in Seq(T)
OBVIOUS

(* The command's arguments: the head, the directories, and what the settings *)
(* pass besides.                                                             *)
LEMMA NativeArgsAre ==
    ASSUME NEW project, WellFormed(project), NEW logic,
           logic = Setting(project.logic, AutoLogicFromRoot(project))
    PROVE  \E S, head, dirs :
             /\ NativeArgs(project) = (head \o DirArgs(dirs)) \o project.extra
             /\ dirs = SessionDirs(project) /\ head = HeadArgs(logic, project.noBuild)
             /\ head \in Seq(S) /\ dirs \in Seq(S) /\ project.extra \in Seq(S)
             /\ logic \in S /\ {"vscode_server", "-l", "-n", "-d"} \subseteq S
<1> DEFINE words == {"vscode_server", "-l", "-n", "-d", logic}
           S     == STRING \cup words
           dirs  == SessionDirs(project)
           head  == HeadArgs(logic, project.noBuild)
<1>1. /\ STRING \subseteq S /\ logic \in S
      /\ "vscode_server" \in S /\ "-l" \in S /\ "-n" \in S /\ "-d" \in S
  OBVIOUS
<1>2. NativeArgs(project) = (head \o DirArgs(dirs)) \o project.extra
  BY DEF NativeArgs, HeadArgs, LogicArgs, BuildArgs, DirArgs
<1> HIDE DEF words, S, head
<1>3. project.extra \in Seq(S)
  BY <1>1, LargerSeq DEF WellFormed
<1>4. dirs \in Seq(S)
  BY <1>1, LargerSeq, SessionDirsAre
<1> HIDE DEF dirs
<1>5. head = HeadArgs(logic, project.noBuild)
  BY DEF head
<1>6. head \in Seq(S)
  BY <1>1, <1>5, HeadArgsAre
<1>7. dirs = SessionDirs(project)
  BY DEF dirs
<1> QED BY <1>1, <1>2, <1>3, <1>4, <1>5, <1>6, <1>7

(* No settings but the extension's own put a -l into the arguments. *)
LEMMA LogicOccurs ==
    ASSUME NEW project, WellFormed(project), NEW logic,
           logic = Setting(project.logic, AutoLogicFromRoot(project)),
           "-l" \notin ToSet(project.dirs) \cup ToSet(project.extra) \cup {project.path},
           logic # NoValue => logic # "-l", NEW args, args = NativeArgs(project)
    PROVE  /\ Len(args) \in Nat /\ DOMAIN args = 1..Len(args)
           /\ logic = NoValue => Occurs(args, "-l") = {}
           /\ logic # NoValue => Occurs(args, "-l") = {2} /\ Len(args) >= 3 /\ args[3] = logic
<1> DEFINE extra == project.extra
<1>1. PICK S, head, dirs :
        /\ args = (head \o DirArgs(dirs)) \o extra
        /\ dirs = SessionDirs(project) /\ head = HeadArgs(logic, project.noBuild)
        /\ head \in Seq(S) /\ dirs \in Seq(S) /\ extra \in Seq(S)
        /\ logic \in S /\ {"vscode_server", "-l", "-n", "-d"} \subseteq S
  BY NativeArgsAre
<1> DEFINE rest  == DirArgs(dirs)
           first == head \o rest
<1>2. Occurs(extra, "-l") = {}
  BY DEF Occurs, ToSet
<1>3. Occurs(dirs, "-l") = {}
  BY <1>1, SessionDirsAre
<1>4. rest \in Seq(S) /\ Occurs(rest, "-l") = {}
  BY <1>1, <1>3, OccursInDirs
<1>5. args = first \o extra
  BY <1>1
<1> HIDE DEF rest
<1> HIDE DEF extra
<1>6. /\ logic = NoValue => Occurs(head, "-l") = {}
      /\ logic # NoValue => Occurs(head, "-l") = {2} /\ Len(head) >= 3 /\ head[3] = logic
  BY <1>1, HeadArgsAre
<1>7. /\ first \in Seq(S) /\ Len(first) = Len(head) + Len(rest)
      /\ Len(head) \in Nat /\ Len(rest) \in Nat
      /\ \A i \in 1..Len(head) : first[i] = head[i]
  BY <1>1, <1>4, ConcatIs
<1>8. Occurs(first, "-l") = Occurs(head, "-l")
  BY <1>1, <1>4, OccursJoined
<1>9. first \in Seq(S) /\ extra \in Seq(S)
  BY <1>1, <1>7
<1> HIDE DEF first
<1>10. /\ args \in Seq(S) /\ Len(args) = Len(first) + Len(extra)
      /\ Len(first) \in Nat /\ Len(extra) \in Nat
      /\ \A i \in 1..Len(first) : args[i] = first[i]
  BY ONLY <1>5, <1>9, ConcatIs
<1>11. Occurs(args, "-l") = Occurs(first, "-l")
  BY ONLY <1>2, <1>5, <1>9, OccursJoined
<1>12. Len(args) \in Nat /\ DOMAIN args = 1..Len(args)
  BY <1>10
<1>13. ASSUME logic # NoValue
       PROVE  Len(args) >= 3 /\ args[3] = logic
  <2>1. Len(head) >= 3 /\ head[3] = logic
    BY <1>6, <1>13
  <2>2. 3 \in 1..Len(head) /\ 3 \in 1..Len(first) /\ Len(args) >= 3
    BY ONLY <1>7, <1>10, <2>1
  <2> QED BY <1>7, <1>10, <2>1, <2>2
<1> QED BY <1>6, <1>8, <1>11, <1>12, <1>13

(* README.md 335-338: where every heading begins a line, is complete in it  *)
(* and has spaces around its "=", the logic that `isabelle vscode_server`   *)
(* is started with is the one the README's rules select from what Isabelle  *)
(* reads in the ROOT files (auto_logic_from_root, native_default_args,      *)
(* zed-extension/src/lib.rs 133-371).                                       *)
THEOREM LogicFollowsReadme ==
    ASSUME NoValue \notin STRING, NEW project, WellFormed(project),
           project.logic = NoValue, NoOtherLogic(project),
           \A text \in RootTexts(project) : Plain(text)
    PROVE  Logics(NativeArgs(project)) = ReadmeLogic(project)
<1> DEFINE logic == AutoLogicFromRoot(project)
           args  == NativeArgs(project)
<1>1. /\ logic = NoValue => ReadmeLogic(project) = {"HOL"}
      /\ logic # NoValue => ReadmeLogic(project) = {logic}
  BY AutoLogicIsReadmes
<1>2. logic = Setting(project.logic, AutoLogicFromRoot(project))
  BY DEF Setting
<1>3. logic # NoValue => logic # "-l"
  BY <1>1 DEF NoOtherLogic
<1> HIDE DEF logic
<1>4. /\ Len(args) \in Nat /\ DOMAIN args = 1..Len(args)
      /\ logic = NoValue => Occurs(args, "-l") = {}
      /\ logic # NoValue => Occurs(args, "-l") = {2} /\ Len(args) >= 3 /\ args[3] = logic
  BY <1>2, <1>3, LogicOccurs DEF NoOtherLogic
<1> HIDE DEF args
<1>5. CASE logic = NoValue
  <2>1. OptionValues(args, "-l") = {}
    BY <1>4, <1>5 DEF OptionValues, Occurs
  <2> QED BY <1>1, <1>5, <2>1 DEF Logics, args
<1>6. CASE logic # NoValue
  <2>1. {i \in 1..(Len(args) - 1) : args[i] = "-l"} = {2}
    BY <1>4, <1>6 DEF Occurs
  <2>2. OptionValues(args, "-l") = {logic}
    BY <1>4, <1>6, <2>1 DEF OptionValues
  <2> QED BY <1>1, <1>6, <2>2 DEF Logics, args
<1> QED BY <1>5, <1>6

(* README.md 331-334: the server is told exactly once of a worktree that    *)
(* has a ROOT or ROOTS file, whether the settings have listed it or not     *)
(* (native_default_args, zed-extension/src/lib.rs 147-159).                 *)
THEOREM WorktreeIsNamedOnce ==
    ASSUME NEW project, WellFormed(project), HasSessionRoot(project), ListedOnce(project)
    PROVE  Cardinality({i \in DOMAIN NativeArgs(project) :
                            NativeArgs(project)[i] = project.path}) = 1
<1> DEFINE extra == project.extra
           path  == project.path
           args  == NativeArgs(project)
           logic == Setting(project.logic, AutoLogicFromRoot(project))
<1>1. PICK S, head, dirs :
        /\ args = (head \o DirArgs(dirs)) \o extra
        /\ dirs = SessionDirs(project) /\ head = HeadArgs(logic, project.noBuild)
        /\ head \in Seq(S) /\ dirs \in Seq(S) /\ extra \in Seq(S)
        /\ logic \in S /\ {"vscode_server", "-l", "-n", "-d"} \subseteq S
  BY NativeArgsAre
<1> DEFINE rest  == DirArgs(dirs)
           first == head \o rest
<1>2. path \notin ToSet(extra) /\ path \notin {"vscode_server", "-l", "-n", "-d", logic}
  BY DEF ListedOnce
<1> HIDE DEF logic
<1>3. Occurs(extra, path) = {}
  BY <1>2 DEF Occurs, ToSet
<1>4. PICK i : Occurs(dirs, path) = {i}
  BY <1>1, SessionDirsAre
<1>5. rest \in Seq(S) /\ \E k : Occurs(rest, path) = {k}
  BY <1>1, <1>2, <1>4, OccursInDirs
<1>6. Occurs(head, path) = {}
  BY <1>1, <1>2, HeadArgsAre
<1>7. args = first \o extra
  BY <1>1
<1> HIDE DEF rest, args, extra, path
<1>8. PICK k : Occurs(rest, path) = {k}
  BY <1>5
<1>9. first \in Seq(S)
  BY <1>1, <1>5, ConcatIs
<1>10. head \in Seq(S) /\ rest \in Seq(S)
  BY <1>1, <1>5
<1>11. first = head \o rest
  OBVIOUS
<1> HIDE DEF first
<1>12. Occurs(first, path) = {Len(head) + k}
  <2>1. Occurs(first, path) = {Len(head) + j : j \in Occurs(rest, path)}
    BY ONLY <1>6, <1>10, <1>11, OccursJoined
  <2> QED BY <1>8, <2>1
<1>13. Occurs(args, path) = {Len(head) + k}
  <2>1. extra \in Seq(S)
    BY <1>1
  <2>2. Occurs(args, path) = Occurs(first, path)
    BY ONLY <1>3, <1>7, <1>9, <2>1, OccursJoined
  <2> QED BY <1>12, <2>2
<1>14. Cardinality({Len(head) + k}) = 1
  BY FS_Singleton
<1> QED BY <1>13, <1>14 DEF Occurs, args, path
=============================================================================
