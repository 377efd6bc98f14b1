--------------------------- MODULE SequenceLemmas ---------------------------
(***************************************************************************)
(* What Append, Head and Tail do to a queue and to one queue of a function *)
(* of queues, element by element, and what they do to queues in a row: the *)
(* facts the proofs about channels use.  And induction over sets of        *)
(* numbers, with which a fold of a list is reasoned about.                 *)
(***************************************************************************)
EXTENDS Naturals, Sequences, SequenceTheorems, WellFoundedInduction, TLAPS

\* A queue with one element more keeps the others where they are.
LEMMA AppendFacts ==
  ASSUME NEW S, NEW s \in Seq(S), NEW e \in S
  PROVE  /\ Append(s, e) \in Seq(S)
         /\ Len(s) \in Nat
         /\ Len(Append(s, e)) = Len(s) + 1
         /\ \A i \in 1..Len(s) : Append(s, e)[i] = s[i]
         /\ Append(s, e)[Len(s) + 1] = e
OBVIOUS

\* A queue whose first element is taken moves the others up by one.
LEMMA TailFacts ==
  ASSUME NEW S, NEW s \in Seq(S), s # << >>
  PROVE  /\ Tail(s) \in Seq(S)
         /\ Len(Tail(s)) \in Nat
         /\ Len(s) = Len(Tail(s)) + 1
         /\ \A i \in 1..Len(Tail(s)) : Tail(s)[i] = s[i + 1]
         /\ Head(s) = s[1]
         /\ Head(s) \in S
OBVIOUS

\* The same of one queue of a function of queues.
LEMMA PutFacts ==
  ASSUME NEW D, NEW S, NEW f \in [D -> Seq(S)], NEW d \in D, NEW e \in S,
         NEW g, g = [f EXCEPT ![d] = Append(@, e)]
  PROVE  /\ g \in [D -> Seq(S)]
         /\ \A c \in D \ {d} : g[c] = f[c]
         /\ Len(f[d]) \in Nat
         /\ Len(g[d]) = Len(f[d]) + 1
         /\ \A i \in 1..Len(f[d]) : g[d][i] = f[d][i]
         /\ g[d][Len(f[d]) + 1] = e
<1> DEFINE q == Append(f[d], e)
<1>1. /\ q \in Seq(S)
      /\ Len(f[d]) \in Nat
      /\ Len(q) = Len(f[d]) + 1
      /\ \A i \in 1..Len(f[d]) : q[i] = f[d][i]
      /\ q[Len(f[d]) + 1] = e
  BY AppendFacts
<1>2. g = [f EXCEPT ![d] = q]
  OBVIOUS
<1> HIDE DEF q
<1>3. g[d] = q /\ (\A c \in D \ {d} : g[c] = f[c]) /\ g \in [D -> Seq(S)]
  BY <1>1, <1>2
<1>4. QED
  BY <1>1, <1>3

\* One queue of a function of queues has its first element taken.
LEMMA TakeFacts ==
  ASSUME NEW D, NEW S, NEW f \in [D -> Seq(S)], NEW d \in D, f[d] # << >>,
         NEW g, g = [f EXCEPT ![d] = Tail(@)]
  PROVE  /\ g \in [D -> Seq(S)]
         /\ \A c \in D \ {d} : g[c] = f[c]
         /\ Len(g[d]) \in Nat
         /\ Len(f[d]) = Len(g[d]) + 1
         /\ \A i \in 1..Len(g[d]) : g[d][i] = f[d][i + 1]
         /\ Head(f[d]) = f[d][1]
         /\ Head(f[d]) \in S
<1> DEFINE q == Tail(f[d])
<1>1. /\ q \in Seq(S)
      /\ Len(q) \in Nat
      /\ Len(f[d]) = Len(q) + 1
      /\ \A i \in 1..Len(q) : q[i] = f[d][i + 1]
      /\ Head(f[d]) = f[d][1]
      /\ Head(f[d]) \in S
  BY TailFacts
<1>2. g = [f EXCEPT ![d] = q]
  OBVIOUS
<1> HIDE DEF q
<1>3. g[d] = q /\ (\A c \in D \ {d} : g[c] = f[c]) /\ g \in [D -> Seq(S)]
  BY <1>1, <1>2
<1>4. QED
  BY <1>1, <1>3
-----------------------------------------------------------------------------
\* Two queues in a row.
LEMMA ConcatFacts ==
  ASSUME NEW S, NEW x \in Seq(S), NEW y \in Seq(S)
  PROVE  /\ x \o y \in Seq(S)
         /\ Len(x) \in Nat /\ Len(y) \in Nat
         /\ Len(x \o y) = Len(x) + Len(y)
         /\ \A i \in 1..Len(x) : (x \o y)[i] = x[i]
         /\ \A i \in (Len(x) + 1)..(Len(x) + Len(y)) : (x \o y)[i] = y[i - Len(x)]
<1>1. Len(x) \in Nat /\ Len(y) \in Nat
  BY LenProperties
<1>2. x \o y \in Seq(S) /\ Len(x \o y) = Len(x) + Len(y)
  BY ConcatProperties
<1>3. ASSUME NEW i \in 1..Len(x)
      PROVE  (x \o y)[i] = x[i]
  <2>1. i \in 1..Len(x) + Len(y) /\ i <= Len(x)
    BY <1>1
  <2>2. QED
    BY <2>1, ConcatProperties
<1>4. ASSUME NEW i \in (Len(x) + 1)..(Len(x) + Len(y))
      PROVE  (x \o y)[i] = y[i - Len(x)]
  <2>1. i \in 1..Len(x) + Len(y) /\ ~ (i <= Len(x))
    BY <1>1
  <2>2. QED
    BY <2>1, ConcatProperties
<1>5. QED
  BY <1>1, <1>2, <1>3, <1>4

\* s without its element p.
Without(s, p) == SubSeq(s, 1, p - 1) \o SubSeq(s, p + 1, Len(s))

\* A queue without its element at p.
LEMMA WithoutFacts ==
  ASSUME NEW S, NEW s \in Seq(S), NEW p \in 1..Len(s)
  PROVE  /\ Without(s, p) \in Seq(S)
         /\ Len(Without(s, p)) = Len(s) - 1
         /\ \A i \in 1..Len(s) - 1 : Without(s, p)[i] = IF i < p THEN s[i] ELSE s[i + 1]
<1> DEFINE a == SubSeq(s, 1, p - 1)
           b == SubSeq(s, p + 1, Len(s))
<1>1. Len(s) \in Nat /\ p \in Nat
  BY LenProperties
<1>2. a \in Seq(S) /\ Len(a) = p - 1 /\ \A i \in 1..p - 1 : a[i] = s[i]
  BY <1>1, SubSeqProperties
<1>3. b \in Seq(S) /\ Len(b) = Len(s) - p /\ \A i \in 1..Len(s) - p : b[i] = s[p + i]
  BY <1>1, SubSeqProperties
<1>4. Without(s, p) = a \o b
  BY DEF Without
<1> HIDE DEF a, b
<1>5. /\ a \o b \in Seq(S) /\ Len(a \o b) = Len(s) - 1
      /\ \A i \in 1..Len(a) : (a \o b)[i] = a[i]
      /\ \A i \in (Len(a) + 1)..(Len(a) + Len(b)) : (a \o b)[i] = b[i - Len(a)]
  <2>1. Len(a) + Len(b) = Len(s) - 1
    BY <1>1, <1>2, <1>3
  <2>2. a \in Seq(S) /\ b \in Seq(S)
    BY <1>2, <1>3
  <2>3. /\ a \o b \in Seq(S) /\ Len(a \o b) = Len(a) + Len(b)
        /\ \A i \in 1..Len(a) : (a \o b)[i] = a[i]
        /\ \A i \in (Len(a) + 1)..(Len(a) + Len(b)) : (a \o b)[i] = b[i - Len(a)]
    BY <2>2, ConcatFacts
  <2>4. QED
    BY <2>1, <2>3
<1>6. ASSUME NEW i \in 1..Len(s) - 1
      PROVE  (a \o b)[i] = IF i < p THEN s[i] ELSE s[i + 1]
  <2>1. CASE i < p
    <3>1. i \in 1..Len(a) /\ i \in 1..p - 1
      BY <1>1, <1>2, <2>1
    <3>2. (a \o b)[i] = s[i]
      BY <1>2, <1>5, <3>1
    <3>3. QED
      BY <2>1, <3>2
  <2>2. CASE ~ (i < p)
    <3>0. i \in (Len(a) + 1)..(Len(a) + Len(b)) /\ i - Len(a) = i - (p - 1)
      BY <1>1, <1>2, <1>3, <2>2
    <3>1. (a \o b)[i] = b[i - (p - 1)]
      BY <1>5, <3>0
    <3>2. i - (p - 1) \in 1..Len(s) - p /\ p + (i - (p - 1)) = i + 1
      BY <1>1, <2>2
    <3>3. b[i - (p - 1)] = s[p + (i - (p - 1))]
      BY <1>3, <3>2
    <3>4. QED
      BY <1>1, <2>2, <3>1, <3>2, <3>3
  <2>3. QED
    BY <2>1, <2>2
<1>7. QED
  BY <1>4, <1>5, <1>6

\* Two queues in a row: the first element of the second moves to the end of
\* the first, or is lost.
LEMMA MoveHead ==
  ASSUME NEW S, NEW x \in Seq(S), NEW y \in Seq(S), y # << >>
  PROVE  Append(x, Head(y)) \o Tail(y) = x \o y
<1> DEFINE h == Head(y)
           t == Tail(y)
           u == Append(x, h)
<1>1. /\ t \in Seq(S) /\ h \in S /\ h = y[1] /\ Len(t) \in Nat /\ Len(y) = Len(t) + 1
      /\ \A i \in 1..Len(t) : t[i] = y[i + 1]
  BY TailFacts
<1>2. /\ u \in Seq(S) /\ Len(x) \in Nat /\ Len(u) = Len(x) + 1
      /\ \A i \in 1..Len(x) : u[i] = x[i]
      /\ u[Len(x) + 1] = h
  BY <1>1, AppendFacts
<1> HIDE DEF h, t, u
<1>3. /\ u \o t \in Seq(S) /\ Len(u \o t) = Len(x) + Len(y)
      /\ \A i \in 1..Len(u) : (u \o t)[i] = u[i]
      /\ \A i \in (Len(u) + 1)..(Len(u) + Len(t)) : (u \o t)[i] = t[i - Len(u)]
  <2>1. Len(u) + Len(t) = Len(x) + Len(y)
    BY <1>1, <1>2
  <2>2. u \in Seq(S) /\ t \in Seq(S)
    BY <1>1, <1>2
  <2>3. /\ u \o t \in Seq(S) /\ Len(u \o t) = Len(u) + Len(t)
        /\ \A i \in 1..Len(u) : (u \o t)[i] = u[i]
        /\ \A i \in (Len(u) + 1)..(Len(u) + Len(t)) : (u \o t)[i] = t[i - Len(u)]
    BY <2>2, ConcatFacts
  <2>4. QED
    BY <2>1, <2>3
<1>4. /\ x \o y \in Seq(S) /\ Len(x \o y) = Len(x) + Len(y)
      /\ \A i \in 1..Len(x) : (x \o y)[i] = x[i]
      /\ \A i \in (Len(x) + 1)..(Len(x) + Len(y)) : (x \o y)[i] = y[i - Len(x)]
  BY ConcatFacts
<1>5. ASSUME NEW i \in 1..Len(x) + Len(y)
      PROVE  (u \o t)[i] = (x \o y)[i]
  <2>1. CASE i <= Len(x)
    BY <1>1, <1>2, <1>3, <1>4, <2>1
  <2>2. CASE i = Len(x) + 1
    <3>1. (u \o t)[i] = y[1]
      BY <1>1, <1>2, <1>3, <2>2
    <3>2. (x \o y)[i] = y[1]
      BY <1>2, <1>4, <2>2
    <3>3. QED
      BY <3>1, <3>2
  <2>3. CASE i > Len(x) + 1
    <3>1. i - Len(u) \in 1..Len(t) /\ (i - Len(u)) + 1 = i - Len(x)
      BY <1>1, <1>2, <2>3
    <3>2. (u \o t)[i] = t[i - Len(u)]
      <4>1. i \in (Len(u) + 1)..(Len(u) + Len(t))
        BY <1>1, <1>2, <2>3
      <4>2. QED
        BY <1>3, <4>1
    <3>3. (x \o y)[i] = y[i - Len(x)]
      BY <1>2, <1>4, <2>3
    <3>4. QED
      BY <1>1, <3>1, <3>2, <3>3
  <2>4. QED
    BY <1>1, <1>2, <2>1, <2>2, <2>3
<1>6. u \o t = x \o y
  BY <1>3, <1>4, <1>5, SeqEqual
<1>7. QED
  BY <1>6 DEF h, t, u

\* The second of two queues in a row loses its first element.
LEMMA LoseHead ==
  ASSUME NEW S, NEW x \in Seq(S), NEW y \in Seq(S), y # << >>
  PROVE  /\ Len(x) + 1 \in 1..Len(x \o y)
         /\ x \o Tail(y) = Without(x \o y, Len(x) + 1)
<1> DEFINE t == Tail(y)
           z == x \o y
<1>1. /\ t \in Seq(S) /\ Len(t) \in Nat /\ Len(y) = Len(t) + 1
      /\ \A i \in 1..Len(t) : t[i] = y[i + 1]
  BY TailFacts
<1>2. Len(x) \in Nat
  BY LenProperties
<1> HIDE DEF t
<1>3. /\ x \o t \in Seq(S) /\ Len(x \o t) = Len(x) + Len(t)
      /\ \A i \in 1..Len(x) : (x \o t)[i] = x[i]
      /\ \A i \in (Len(x) + 1)..(Len(x) + Len(t)) : (x \o t)[i] = t[i - Len(x)]
  BY <1>1, ConcatFacts
<1>4. /\ z \in Seq(S) /\ Len(z) = Len(x) + Len(y)
      /\ \A i \in 1..Len(x) : z[i] = x[i]
      /\ \A i \in (Len(x) + 1)..(Len(x) + Len(y)) : z[i] = y[i - Len(x)]
  BY ConcatFacts
<1> HIDE DEF z
<1>5. Len(x) + 1 \in 1..Len(z)
  BY <1>1, <1>2, <1>4
<1>6. /\ Without(z, Len(x) + 1) \in Seq(S)
      /\ Len(Without(z, Len(x) + 1)) = Len(z) - 1
      /\ \A i \in 1..Len(z) - 1 : Without(z, Len(x) + 1)[i] = IF i < Len(x) + 1 THEN z[i] ELSE z[i + 1]
  BY <1>4, <1>5, WithoutFacts
<1>7. ASSUME NEW i \in 1..Len(x) + Len(t)
      PROVE  (x \o t)[i] = Without(z, Len(x) + 1)[i]
  <2>1. i \in 1..Len(z) - 1
    BY <1>1, <1>2, <1>4
  <2>2. CASE i <= Len(x)
    BY <1>1, <1>2, <1>3, <1>4, <1>6, <2>1, <2>2
  <2>3. CASE i > Len(x)
    <3>1. Without(z, Len(x) + 1)[i] = z[i + 1]
      BY <1>2, <1>6, <2>1, <2>3
    <3>2. z[i + 1] = y[(i + 1) - Len(x)]
      BY <1>1, <1>2, <1>4, <2>1, <2>3
    <3>3. (x \o t)[i] = t[i - Len(x)]
      BY <1>2, <1>3, <2>3
    <3>4. i - Len(x) \in 1..Len(t) /\ (i - Len(x)) + 1 = (i + 1) - Len(x)
      BY <1>1, <1>2, <2>3
    <3>5. QED
      BY <1>1, <3>1, <3>2, <3>3, <3>4
  <2>4. QED
    BY <1>2, <2>2, <2>3
<1>8. x \o t = Without(z, Len(x) + 1)
  <2>1. Len(x \o t) = Len(Without(z, Len(x) + 1))
    BY <1>1, <1>2, <1>3, <1>4, <1>6
  <2>2. QED
    BY <1>3, <1>6, <1>7, <2>1, SeqEqual
<1>9. QED
  BY <1>5, <1>8 DEF t, z

\* What happens to the first of two queues happens to both in a row.
LEMMA WithoutFirst ==
  ASSUME NEW S, NEW x \in Seq(S), NEW y \in Seq(S), NEW p \in 1..Len(x)
  PROVE  /\ p \in 1..Len(x \o y)
         /\ Without(x, p) \o y = Without(x \o y, p)
<1> DEFINE w == Without(x, p)
           z == x \o y
<1>1. Len(x) \in Nat /\ Len(y) \in Nat
  BY LenProperties
<1>2. /\ w \in Seq(S) /\ Len(w) = Len(x) - 1
      /\ \A i \in 1..Len(x) - 1 : w[i] = IF i < p THEN x[i] ELSE x[i + 1]
  BY WithoutFacts
<1>3. /\ z \in Seq(S) /\ Len(z) = Len(x) + Len(y)
      /\ \A i \in 1..Len(x) : z[i] = x[i]
      /\ \A i \in (Len(x) + 1)..(Len(x) + Len(y)) : z[i] = y[i - Len(x)]
  BY ConcatFacts
<1> HIDE DEF w, z
<1>4. p \in 1..Len(z)
  BY <1>1, <1>3
<1>5. /\ w \o y \in Seq(S) /\ Len(w \o y) = Len(z) - 1
      /\ \A i \in 1..Len(w) : (w \o y)[i] = w[i]
      /\ \A i \in (Len(w) + 1)..(Len(w) + Len(y)) : (w \o y)[i] = y[i - Len(w)]
  <2>1. Len(w) + Len(y) = Len(z) - 1
    BY <1>1, <1>2, <1>3
  <2>2. QED
    BY <1>2, <2>1, ConcatFacts
<1>6. /\ Without(z, p) \in Seq(S) /\ Len(Without(z, p)) = Len(z) - 1
      /\ \A i \in 1..Len(z) - 1 : Without(z, p)[i] = IF i < p THEN z[i] ELSE z[i + 1]
  BY <1>3, <1>4, WithoutFacts
<1>7. ASSUME NEW i \in 1..Len(z) - 1
      PROVE  (w \o y)[i] = Without(z, p)[i]
  <2>1. CASE i < p
    <3>1. (w \o y)[i] = w[i] /\ w[i] = x[i]
      BY <1>1, <1>2, <1>5, <2>1
    <3>2. Without(z, p)[i] = z[i] /\ z[i] = x[i]
      BY <1>1, <1>3, <1>6, <2>1
    <3>3. QED
      BY <3>1, <3>2
  <2>2. CASE ~ (i < p) /\ i < Len(x)
    <3>1. (w \o y)[i] = w[i] /\ w[i] = x[i + 1]
      BY <1>1, <1>2, <1>5, <2>2
    <3>2. i + 1 \in 1..Len(x)
      BY <1>1, <1>3, <2>2
    <3>3. Without(z, p)[i] = z[i + 1]
      BY <1>6, <2>2
    <3>4. z[i + 1] = x[i + 1]
      BY <1>3, <3>2
    <3>5. QED
      BY <3>1, <3>3, <3>4
  <2>3. CASE ~ (i < p) /\ ~ (i < Len(x))
    <3>1. (w \o y)[i] = y[i - Len(w)]
      <4>1. i \in (Len(w) + 1)..(Len(w) + Len(y))
        BY <1>1, <1>2, <1>3, <2>3
      <4>2. QED
        BY <1>5, <4>1
    <3>2. Without(z, p)[i] = z[i + 1] /\ z[i + 1] = y[(i + 1) - Len(x)]
      BY <1>1, <1>3, <1>6, <2>3
    <3>3. i - Len(w) = (i + 1) - Len(x)
      BY <1>1, <1>2
    <3>4. QED
      BY <3>1, <3>2, <3>3
  <2>4. QED
    BY <2>1, <2>2, <2>3
<1>8. w \o y = Without(z, p)
  BY <1>5, <1>6, <1>7, SeqEqual
<1>9. QED
  BY <1>4, <1>8 DEF w, z

\* The first of two queues in a row has its first element taken.
LEMMA TakeFirst ==
  ASSUME NEW S, NEW x \in Seq(S), NEW y \in Seq(S), x # << >>
  PROVE  /\ x \o y # << >>
         /\ Head(x \o y) = Head(x)
         /\ Tail(x \o y) = Tail(x) \o y
<1> DEFINE t == Tail(x)
           z == x \o y
<1>1. /\ t \in Seq(S) /\ Len(t) \in Nat /\ Len(x) = Len(t) + 1 /\ Head(x) = x[1]
      /\ \A i \in 1..Len(t) : t[i] = x[i + 1]
  BY TailFacts
<1>2. Len(y) \in Nat
  BY LenProperties
<1>3. /\ z \in Seq(S) /\ Len(z) = Len(x) + Len(y)
      /\ \A i \in 1..Len(x) : z[i] = x[i]
      /\ \A i \in (Len(x) + 1)..(Len(x) + Len(y)) : z[i] = y[i - Len(x)]
  BY ConcatFacts
<1> HIDE DEF t, z
<1>4. z # << >> /\ z[1] = x[1]
  BY <1>1, <1>2, <1>3
<1>5. /\ Tail(z) \in Seq(S) /\ Len(z) = Len(Tail(z)) + 1 /\ Head(z) = z[1] /\ Len(Tail(z)) \in Nat
      /\ \A i \in 1..Len(Tail(z)) : Tail(z)[i] = z[i + 1]
  BY <1>3, <1>4, TailFacts
<1>6. /\ t \o y \in Seq(S) /\ Len(t \o y) = Len(t) + Len(y)
      /\ \A i \in 1..Len(t) : (t \o y)[i] = t[i]
      /\ \A i \in (Len(t) + 1)..(Len(t) + Len(y)) : (t \o y)[i] = y[i - Len(t)]
  BY <1>1, ConcatFacts
<1>7. ASSUME NEW i \in 1..Len(Tail(z))
      PROVE  Tail(z)[i] = (t \o y)[i]
  <2>1. Tail(z)[i] = z[i + 1] /\ i \in Nat
    BY <1>5
  <2>2. CASE i <= Len(t)
    <3>1. z[i + 1] = x[i + 1]
      BY <1>1, <1>3, <2>1, <2>2
    <3>2. QED
      BY <1>1, <1>6, <2>1, <2>2, <3>1
  <2>3. CASE ~ (i <= Len(t))
    <3>1. z[i + 1] = y[(i + 1) - Len(x)]
      BY <1>1, <1>2, <1>3, <1>5, <2>1, <2>3
    <3>2. (t \o y)[i] = y[i - Len(t)]
      <4>1. i \in (Len(t) + 1)..(Len(t) + Len(y))
        BY <1>1, <1>2, <1>3, <1>5, <2>1, <2>3
      <4>2. QED
        BY <1>6, <4>1
    <3>3. (i + 1) - Len(x) = i - Len(t)
      BY <1>1, <2>1
    <3>4. QED
      BY <2>1, <3>1, <3>2, <3>3
  <2>4. QED
    BY <2>2, <2>3
<1>8. Tail(z) = t \o y
  <2>1. Len(Tail(z)) = Len(t \o y)
    BY <1>1, <1>2, <1>3, <1>5, <1>6
  <2>2. QED
    BY <1>5, <1>6, <1>7, <2>1, SeqEqual
<1>9. QED
  BY <1>1, <1>4, <1>5, <1>8 DEF t, z

\* The second of two queues in a row gets an element.
LEMMA AppendToBoth ==
  ASSUME NEW S, NEW x \in Seq(S), NEW y \in Seq(S), NEW e \in S
  PROVE  x \o Append(y, e) = Append(x \o y, e)
<1>1. << e >> \in Seq(S) /\ x \o y \in Seq(S)
  BY ConcatFacts
<1>2. Append(y, e) = y \o << e >>
  BY AppendIsConcat
<1>3. Append(x \o y, e) = (x \o y) \o << e >>
  BY <1>1, AppendIsConcat
<1>4. QED
  BY <1>1, <1>2, <1>3, ConcatAssociative

\* What happens to the second of two queues happens to both in a row.
LEMMA WithoutSecond ==
  ASSUME NEW S, NEW x \in Seq(S), NEW y \in Seq(S), NEW p \in 1..Len(y)
  PROVE  /\ Len(x) + p \in 1..Len(x \o y)
         /\ x \o Without(y, p) = Without(x \o y, Len(x) + p)
<1> DEFINE w == Without(y, p)
           z == x \o y
           k == Len(x) + p
<1>1. Len(x) \in Nat /\ Len(y) \in Nat /\ p \in Nat /\ p >= 1 /\ p <= Len(y)
  BY LenProperties
<1>2. /\ w \in Seq(S) /\ Len(w) = Len(y) - 1
      /\ \A i \in 1..Len(y) - 1 : w[i] = IF i < p THEN y[i] ELSE y[i + 1]
  BY WithoutFacts
<1>3. /\ z \in Seq(S) /\ Len(z) = Len(x) + Len(y)
      /\ \A i \in 1..Len(x) : z[i] = x[i]
      /\ \A i \in (Len(x) + 1)..(Len(x) + Len(y)) : z[i] = y[i - Len(x)]
  BY ConcatFacts
<1> HIDE DEF w, z
<1>4. k \in 1..Len(z)
  BY <1>1, <1>3
<1>5. /\ x \o w \in Seq(S) /\ Len(x \o w) = Len(z) - 1
      /\ \A i \in 1..Len(x) : (x \o w)[i] = x[i]
      /\ \A i \in (Len(x) + 1)..(Len(x) + Len(w)) : (x \o w)[i] = w[i - Len(x)]
  <2>1. Len(x) + Len(w) = Len(z) - 1
    BY <1>1, <1>2, <1>3
  <2>2. QED
    BY <1>2, <2>1, ConcatFacts
<1>6. /\ Without(z, k) \in Seq(S) /\ Len(Without(z, k)) = Len(z) - 1
      /\ \A i \in 1..Len(z) - 1 : Without(z, k)[i] = IF i < k THEN z[i] ELSE z[i + 1]
  <2> HIDE DEF k
  <2>1. QED
    BY <1>3, <1>4, WithoutFacts
<1>7. ASSUME NEW i \in 1..Len(z) - 1
      PROVE  (x \o w)[i] = Without(z, k)[i]
  <2>1. CASE i <= Len(x)
    <3>0. i \in 1..Len(x) /\ i < k
      BY <1>1, <2>1
    <3>1. (x \o w)[i] = x[i]
      BY <1>5, <3>0
    <3>2. Without(z, k)[i] = z[i] /\ z[i] = x[i]
      BY <1>3, <1>6, <3>0
    <3>3. QED
      BY <3>1, <3>2
  <2>2. CASE ~ (i <= Len(x)) /\ i < k
    <3>1. i \in (Len(x) + 1)..(Len(x) + Len(w)) /\ i - Len(x) \in 1..Len(y) - 1 /\ i - Len(x) < p
      BY <1>1, <1>2, <1>3, <2>2
    <3>2. (x \o w)[i] = w[i - Len(x)] /\ w[i - Len(x)] = y[i - Len(x)]
      <4>1. (x \o w)[i] = w[i - Len(x)]
        BY <1>5, <3>1
      <4> DEFINE n == i - Len(x)
      <4>2. n \in 1..Len(y) - 1 /\ n < p
        BY <3>1
      <4> HIDE DEF n
      <4>3. w[n] = y[n]
        BY <1>2, <4>2
      <4>4. QED
        BY <4>1, <4>3 DEF n
    <3>3. Without(z, k)[i] = z[i] /\ z[i] = y[i - Len(x)]
      <4>1. i \in (Len(x) + 1)..(Len(x) + Len(y))
        BY <1>1, <1>3, <2>2
      <4>2. QED
        BY <1>3, <1>6, <2>2, <4>1
    <3>4. QED
      BY <3>2, <3>3
  <2>3. CASE ~ (i <= Len(x)) /\ ~ (i < k)
    <3>1. /\ i \in (Len(x) + 1)..(Len(x) + Len(w)) /\ i - Len(x) \in 1..Len(y) - 1
          /\ ~ (i - Len(x) < p) /\ (i + 1) - Len(x) = (i - Len(x)) + 1
      BY <1>1, <1>2, <1>3, <2>3
    <3>2. (x \o w)[i] = y[(i + 1) - Len(x)]
      <4>1. (x \o w)[i] = w[i - Len(x)]
        BY <1>5, <3>1
      <4> DEFINE n == i - Len(x)
      <4>2. n \in 1..Len(y) - 1 /\ ~ (n < p) /\ (i + 1) - Len(x) = n + 1
        BY <3>1
      <4> HIDE DEF n
      <4>3. w[n] = y[n + 1]
        BY <1>2, <4>2
      <4>4. QED
        BY <4>1, <4>2, <4>3 DEF n
    <3>3. Without(z, k)[i] = z[i + 1] /\ z[i + 1] = y[(i + 1) - Len(x)]
      <4>1. i + 1 \in (Len(x) + 1)..(Len(x) + Len(y))
        BY <1>1, <1>3, <2>3
      <4>2. QED
        BY <1>3, <1>6, <2>3, <4>1
    <3>4. QED
      BY <3>2, <3>3
  <2>4. QED
    BY <2>1, <2>2, <2>3
<1>8. x \o w = Without(z, k)
  BY <1>5, <1>6, <1>7, SeqEqual
<1>9. QED
  BY <1>4, <1>8 DEF w, z
-----------------------------------------------------------------------------
\* The less-than relation on the natural numbers is well-founded, so a set of
\* them has a least member, and contains them all when each has its successor
\* in it.
Below == {pair \in Nat \X Nat : pair[1] < pair[2]}

\* The relation is well-founded.
LEMMA BelowWellFounded == IsWellFoundedOn(Below, Nat)
  BY NatLessThanWellFounded DEF OpToRel, Below

\* A set of natural numbers has a least member.
LEMMA LeastNumber ==
  ASSUME NEW T \in SUBSET Nat, T # {}
  PROVE  \E x \in T : \A y \in T : x <= y
<1>1. PICK x \in T : \A y \in T : ~ (<< y, x >> \in Below)
  BY WFMin, BelowWellFounded
<1>2. ASSUME NEW y \in T
      PROVE  x <= y
  <2>1. x \in Nat /\ y \in Nat /\ ~ (<< y, x >> \in Below)
    BY <1>1
  <2>2. ~ (y < x)
    BY <2>1 DEF Below
  <2>3. QED
    BY <2>1, <2>2
<1>3. QED
  BY <1>2

\* Induction, over a set.
LEMMA Induction ==
  ASSUME NEW S \in SUBSET Nat, 0 \in S, \A n \in S : n + 1 \in S
  PROVE  S = Nat
<1> SUFFICES ASSUME Nat \ S # {}
             PROVE  FALSE
  OBVIOUS
<1>1. PICK x \in Nat \ S : \A y \in Nat \ S : x <= y
  BY LeastNumber
<1>2. x - 1 \in Nat /\ x = (x - 1) + 1
  BY <1>1
<1>3. QED
  BY <1>1, <1>2

\* The function f folds, from b on, L elements with the steps G.
IsFoldOf(f, L, S, b, G) ==
  /\ f \in [0..L -> S]
  /\ f[0] = b
  /\ \A n \in 1..L : f[n] = G[<< n, f[n - 1] >>]

\* A fold of L elements into S, one after the other, exists.
LEMMA FoldExists ==
  ASSUME NEW L \in Nat, NEW S, NEW b \in S, NEW G,
         \A n \in 1..L, s \in S : G[<< n, s >>] \in S
  PROVE  \E f : IsFoldOf(f, L, S, b, G)
<1> DEFINE Upto(f, m) == /\ f \in [0..m -> S]
                         /\ f[0] = b
                         /\ \A n \in 1..m : f[n] = G[<< n, f[n - 1] >>]
           T == {m \in Nat : m <= L => \E f : Upto(f, m)}
<1>1. 0 \in T
  <2>1. Upto([n \in 0..0 |-> b], 0)
    OBVIOUS
  <2>2. QED
    BY <2>1
<1>2. ASSUME NEW m \in T
      PROVE  m + 1 \in T
  <2> SUFFICES ASSUME m + 1 <= L
               PROVE  \E f : Upto(f, m + 1)
    OBVIOUS
  <2>1. PICK f : Upto(f, m)
    OBVIOUS
  <2>2. m \in Nat /\ f[m] \in S /\ m + 1 \in 1..L
    BY <2>1
  <2> DEFINE g == [n \in 0..(m + 1) |-> IF n = m + 1 THEN G[<< m + 1, f[m] >>] ELSE f[n]]
  <2>3. G[<< m + 1, f[m] >>] \in S
    BY <2>2
  <2>4. g \in [0..(m + 1) -> S] /\ g[0] = b
    BY <2>1, <2>2, <2>3
  <2>5. ASSUME NEW n \in 1..(m + 1)
        PROVE  g[n] = G[<< n, g[n - 1] >>]
    <3>1. n - 1 \in 0..m /\ g[n - 1] = f[n - 1]
      BY <2>2
    <3>2. CASE n = m + 1
      <4>1. m + 1 \in 0..(m + 1)
        BY <2>2
      <4>2. g[m + 1] = G[<< m + 1, f[m] >>]
        BY <4>1
      <4>3. n - 1 = m
        BY <3>2, <2>2
      <4>4. g[n - 1] = f[m]
        BY <4>3, <3>1
      <4> HIDE DEF g
      <4>5. QED
        BY <4>2, <4>4, <3>2
    <3>3. CASE n # m + 1
      <4>1. n \in 1..m /\ g[n] = f[n]
        BY <3>3, <2>2
      <4>2. QED
        BY <4>1, <3>1, <2>1
    <3>4. QED
      BY <3>2, <3>3
  <2> HIDE DEF g
  <2>6. Upto(g, m + 1)
    BY <2>4, <2>5
  <2>7. QED
    BY <2>6
<1>3. T = Nat
  <2> HIDE DEF T
  <2>1. T \in SUBSET Nat
    BY DEF T
  <2>2. QED
    BY <1>1, <1>2, <2>1, Induction
<1>4. QED
  BY <1>3 DEF IsFoldOf

\* What each step of a fold leads to, the fold leads to.
LEMMA FoldInto ==
  ASSUME NEW L \in Nat, NEW f, NEW S, f[0] \in S[0],
         \A n \in 1..L : f[n - 1] \in S[n - 1] => f[n] \in S[n]
  PROVE  \A n \in 0..L : f[n] \in S[n]
<1> DEFINE T == {n \in Nat : n <= L => f[n] \in S[n]}
<1>1. 0 \in T
  OBVIOUS
<1>2. ASSUME NEW n \in T
      PROVE  n + 1 \in T
  <2> SUFFICES ASSUME n + 1 <= L
               PROVE  f[n + 1] \in S[n + 1]
    OBVIOUS
  <2>1. n + 1 \in 1..L /\ (n + 1) - 1 = n /\ f[n] \in S[n]
    OBVIOUS
  <2>2. QED
    BY <2>1
<1>3. T = Nat
  <2> HIDE DEF T
  <2>1. T \in SUBSET Nat
    BY DEF T
  <2>2. QED
    BY <1>1, <1>2, <2>1, Induction
<1>4. QED
  BY <1>3
=============================================================================
