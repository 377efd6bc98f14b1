-------------------------- MODULE ControllerProofs --------------------------
(***************************************************************************)
(* What the controller keeps through crashes, cancelled handlers and both  *)
(* shells, proved for any number of crashes and any sets of arguments and  *)
(* endpoints: the types, and the four invariants the run checks.           *)
(***************************************************************************)
EXTENDS Controller, SequenceLemmas

\* No two descriptors of the list are of one role and endpoint.
Unique(list) ==
  \A i, j \in 1..Len(list) : list[i].role = list[j].role /\ list[i].end = list[j].end => i = j

\* The list has a descriptor of this role and endpoint.
Lists(list, role, end) == \E i \in 1..Len(list) : list[i].role = role /\ list[i].end = end

\* Recording a descriptor keeps a list without duplicates so, and adds no
\* other endpoint to it.
LEMMA RecordedFacts ==
  ASSUME NEW list \in Seq(Descriptor), NEW d \in Descriptor
  PROVE  /\ Recorded(list, d) \in Seq(Descriptor)
         /\ Unique(list) => Unique(Recorded(list, d))
         /\ \A role, end : Lists(Recorded(list, d), role, end) =>
              Lists(list, role, end) \/ (d.role = role /\ d.end = end)
<1>1. CASE Places(list, d) = {}
  <2>1. Recorded(list, d) = Append(list, d)
    BY <1>1 DEF Recorded
  <2> DEFINE new == Append(list, d)
  <2>2. /\ new \in Seq(Descriptor)
        /\ Len(list) \in Nat
        /\ Len(new) = Len(list) + 1
        /\ \A i \in 1..Len(list) : new[i] = list[i]
        /\ new[Len(list) + 1] = d
    BY AppendFacts
  <2>3. \A i \in 1..Len(list) : ~ (list[i].role = d.role /\ list[i].end = d.end)
    BY <1>1 DEF Places
  <2> HIDE DEF new
  <2>4. \A i \in 1..Len(new) : i \in 1..Len(list) \/ i = Len(list) + 1
    BY <2>2
  <2>5. Unique(list) => Unique(new)
    BY <2>2, <2>3, <2>4 DEF Unique
  <2>6. \A role, end : Lists(new, role, end) =>
          Lists(list, role, end) \/ (d.role = role /\ d.end = end)
    BY <2>2, <2>4 DEF Lists
  <2>7. QED
    BY <2>1, <2>2, <2>5, <2>6 DEF new
<1>2. CASE Places(list, d) # {}
  <2>1. Places(list, d) \in SUBSET Nat
    BY DEF Places
  <2> DEFINE first == CHOOSE i \in Places(list, d) : \A j \in Places(list, d) : i <= j
  <2>2. first \in Places(list, d)
    BY <2>1, <1>2, LeastNumber
  <2>3. Recorded(list, d) = [list EXCEPT ![first] = d]
    BY <1>2 DEF Recorded
  <2> HIDE DEF first
  <2>4. /\ first \in 1..Len(list)
        /\ list[first].role = d.role
        /\ list[first].end = d.end
    BY <2>2 DEF Places
  <2> DEFINE new == [list EXCEPT ![first] = d]
  <2>5. /\ new \in Seq(Descriptor)
        /\ Len(new) = Len(list)
        /\ \A i \in 1..Len(list) : new[i] = IF i = first THEN d ELSE list[i]
    BY <2>4
  <2> HIDE DEF new
  <2>6. \A i \in 1..Len(new) : new[i].role = list[i].role /\ new[i].end = list[i].end
    BY <2>4, <2>5
  <2>7. Unique(list) => Unique(new)
    BY <2>5, <2>6 DEF Unique
  <2>8. \A role, end : Lists(new, role, end) => Lists(list, role, end)
    BY <2>5, <2>6 DEF Lists
  <2>9. QED
    BY <2>3, <2>5, <2>7, <2>8 DEF new
<1>3. QED
  BY <1>1, <1>2

\* Removing duplicates leaves a list without any, of the same endpoints.
LEMMA DedupedFacts ==
  ASSUME NEW list \in Seq(Descriptor)
  PROVE  /\ Deduped(list) \in Seq(Descriptor)
         /\ Unique(Deduped(list))
         /\ \A role, end : Lists(Deduped(list), role, end) => Lists(list, role, end)
<1> DEFINE L == Len(list)
           IsFold(h) == h = [n \in 0..L |-> IF n = 0 THEN << >> ELSE Recorded(h[n - 1], list[n])]
           upTo == CHOOSE h : IsFold(h)
           G == [p \in (1..L) \X Seq(Descriptor) |-> Recorded(p[2], list[p[1]])]
           Good == {s \in Seq(Descriptor) :
                      /\ Unique(s)
                      /\ \A role, end : Lists(s, role, end) => Lists(list, role, end)}
<1>1. L \in Nat /\ \A n \in 1..L : list[n] \in Descriptor
  OBVIOUS
<1>2. \A n \in 1..L, s \in Seq(Descriptor) : G[<< n, s >>] \in Seq(Descriptor)
  <2>1. ASSUME NEW p \in (1..L) \X Seq(Descriptor)
        PROVE  Recorded(p[2], list[p[1]]) \in Seq(Descriptor)
    BY <1>1, RecordedFacts
  <2>2. QED
    BY <2>1
<1>3. << >> \in Seq(Descriptor)
  OBVIOUS
<1>4. \E h : IsFold(h)
  <2> HIDE DEF G
  <2> HIDE DEF L
  <2>1. PICK f : IsFoldOf(f, L, Seq(Descriptor), << >>, G)
    BY <1>1, <1>2, <1>3, FoldExists
  <2> USE DEF L
  <2>2. /\ f \in [0..L -> Seq(Descriptor)]
        /\ f[0] = << >>
        /\ \A n \in 1..L : f[n] = G[<< n, f[n - 1] >>]
    BY <2>1 DEF IsFoldOf
  <2>3. ASSUME NEW n \in 1..L
        PROVE  f[n] = Recorded(f[n - 1], list[n])
    <3>1. n - 1 \in 0..L
      BY <1>1
    <3>2. << n, f[n - 1] >> \in (1..L) \X Seq(Descriptor)
      BY <2>2, <3>1
    <3>3. G[<< n, f[n - 1] >>] = Recorded(f[n - 1], list[n])
      BY <3>2 DEF G
    <3>4. QED
      BY <2>2, <3>3
  <2>4. ASSUME NEW n \in 0..L
        PROVE  f[n] = IF n = 0 THEN << >> ELSE Recorded(f[n - 1], list[n])
    BY <1>1, <2>2, <2>3
  <2>5. IsFold(f)
    BY <2>2, <2>4
  <2>6. QED
    BY <2>5
<1>5. IsFold(upTo)
  BY <1>4
<1>6. Deduped(list) = upTo[L]
  BY DEF Deduped
<1> HIDE DEF upTo
<1>7. upTo[0] = << >>
  BY <1>1, <1>5
<1>8. ASSUME NEW n \in 1..L
      PROVE  upTo[n] = Recorded(upTo[n - 1], list[n])
  <2>1. n \in 0..L /\ n # 0
    BY <1>1
  <2>2. QED
    BY <1>5, <2>1
<1> DEFINE S == [n \in 0..L |-> Good]
<1>9. << >> \in Good
  BY <1>3 DEF Unique, Lists
<1>10. ASSUME NEW n \in 1..L, upTo[n - 1] \in Good
       PROVE  upTo[n] \in Good
  <2> DEFINE s == upTo[n - 1]
  <2>1. /\ Recorded(s, list[n]) \in Seq(Descriptor)
        /\ Unique(Recorded(s, list[n]))
        /\ \A role, end : Lists(Recorded(s, list[n]), role, end) =>
             Lists(s, role, end) \/ (list[n].role = role /\ list[n].end = end)
    BY <1>1, <1>10, RecordedFacts
  <2>2. \A role, end : list[n].role = role /\ list[n].end = end => Lists(list, role, end)
    BY DEF Lists
  <2>3. Recorded(s, list[n]) \in Good
    BY <1>10, <2>1, <2>2
  <2>4. QED
    BY <1>8, <2>3
<1> HIDE DEF Good
<1>11. S[0] = Good /\ S[L] = Good /\ \A n \in 1..L : S[n - 1] = Good /\ S[n] = Good
  BY <1>1
<1> HIDE DEF S
<1>12. \A n \in 0..L : upTo[n] \in S[n]
  BY <1>1, <1>7, <1>9, <1>10, <1>11, FoldInto
<1>13. upTo[L] \in Good
  BY <1>1, <1>11, <1>12
<1>14. QED
  BY <1>6, <1>13 DEF Good

\* What a removal retains is part of the list, and has not the removed id.
LEMMA RetainedFacts ==
  ASSUME NEW list \in Seq(Descriptor), NEW e \in Ends
  PROVE  /\ Retained(list, e) \in Seq(Descriptor)
         /\ Unique(list) => Unique(Retained(list, e))
         /\ \A i \in 1..Len(Retained(list, e)) :
              \E j \in 1..Len(list) : /\ Retained(list, e)[i] = list[j]
                                      /\ ~ (list[j].id /\ list[j].end = e)
<1> DEFINE L == Len(list)
           Kept(s, d) == IF d.id /\ d.end = e THEN s ELSE Append(s, d)
           IsFold(h) == h = [n \in 0..L |-> IF n = 0 THEN << >>
                                            ELSE IF list[n].id /\ list[n].end = e
                                                 THEN h[n - 1] ELSE Append(h[n - 1], list[n])]
           upTo == CHOOSE h : IsFold(h)
           G == [p \in (1..L) \X Seq(Descriptor) |-> Kept(p[2], list[p[1]])]
           Part(s, n) == \A i \in 1..Len(s) :
                           \E j \in 1..n : s[i] = list[j] /\ ~ (list[j].id /\ list[j].end = e)
           Good(n) == {s \in Seq(Descriptor) : Part(s, n) /\ (Unique(list) => Unique(s))}
<1>1. L \in Nat /\ \A n \in 1..L : list[n] \in Descriptor
  OBVIOUS
<1>2. \A n \in 1..L, s \in Seq(Descriptor) : G[<< n, s >>] \in Seq(Descriptor)
  <2>1. ASSUME NEW p \in (1..L) \X Seq(Descriptor)
        PROVE  Kept(p[2], list[p[1]]) \in Seq(Descriptor)
    BY <1>1
  <2>2. QED
    BY <2>1
<1>3. << >> \in Seq(Descriptor)
  OBVIOUS
<1>4. \E h : IsFold(h)
  <2> HIDE DEF G
  <2> HIDE DEF L
  <2>1. PICK f : IsFoldOf(f, L, Seq(Descriptor), << >>, G)
    BY <1>1, <1>2, <1>3, FoldExists
  <2> USE DEF L
  <2>2. /\ f \in [0..L -> Seq(Descriptor)]
        /\ f[0] = << >>
        /\ \A n \in 1..L : f[n] = G[<< n, f[n - 1] >>]
    BY <2>1 DEF IsFoldOf
  <2>3. ASSUME NEW n \in 1..L
        PROVE  f[n] = Kept(f[n - 1], list[n])
    <3>1. n - 1 \in 0..L
      BY <1>1
    <3>2. << n, f[n - 1] >> \in (1..L) \X Seq(Descriptor)
      BY <2>2, <3>1
    <3>3. G[<< n, f[n - 1] >>] = Kept(f[n - 1], list[n])
      BY <3>2 DEF G
    <3>4. QED
      BY <2>2, <3>3
  <2>4. ASSUME NEW n \in 0..L
        PROVE  f[n] = IF n = 0 THEN << >>
                      ELSE IF list[n].id /\ list[n].end = e
                           THEN f[n - 1] ELSE Append(f[n - 1], list[n])
    <3>1. CASE n = 0
      BY <2>2, <3>1
    <3>2. CASE n # 0
      <4>1. n \in 1..L
        BY <1>1, <3>2
      <4>2. f[n] = Kept(f[n - 1], list[n])
        BY <2>3, <4>1
      <4>3. QED
        BY <3>2, <4>2
    <3>3. QED
      BY <3>1, <3>2
  <2>5. IsFold(f)
    BY <2>2, <2>4
  <2>6. QED
    BY <2>5
<1>5. IsFold(upTo)
  BY <1>4
<1>6. Retained(list, e) = upTo[L]
  BY DEF Retained
<1> HIDE DEF upTo
<1>7. upTo[0] = << >>
  BY <1>1, <1>5
<1>8. ASSUME NEW n \in 1..L
      PROVE  upTo[n] = Kept(upTo[n - 1], list[n])
  <2>1. n \in 0..L /\ n # 0
    BY <1>1
  <2>2. QED
    BY <1>5, <2>1
<1> DEFINE S == [n \in 0..L |-> Good(n)]
<1>9. << >> \in Good(0)
  BY <1>3 DEF Unique
<1>10. ASSUME NEW n \in 1..L, upTo[n - 1] \in Good(n - 1)
       PROVE  upTo[n] \in Good(n)
  <2>1. PICK s : s = upTo[n - 1]
    OBVIOUS
  <2>2. /\ s \in Seq(Descriptor)
        /\ Part(s, n - 1)
        /\ Unique(list) => Unique(s)
    BY <1>10, <2>1
  <2>3. Part(s, n)
    <3>1. 1..(n - 1) \subseteq 1..n
      BY <1>1
    <3>2. QED
      BY <2>2, <3>1
  <2>4. CASE list[n].id /\ list[n].end = e
    <3>1. upTo[n] = s
      BY <1>8, <2>1, <2>4
    <3> HIDE DEF Part
    <3>2. QED
      BY <2>2, <2>3, <3>1
  <2>5. CASE ~ (list[n].id /\ list[n].end = e)
    <3> DEFINE new == Append(s, list[n])
    <3>1. upTo[n] = new
      BY <1>8, <2>1, <2>5
    <3>2. /\ new \in Seq(Descriptor)
          /\ Len(s) \in Nat
          /\ Len(new) = Len(s) + 1
          /\ \A i \in 1..Len(s) : new[i] = s[i]
          /\ new[Len(s) + 1] = list[n]
      BY <1>1, <2>2, AppendFacts
    <3> HIDE DEF new
    <3>3. \A i \in 1..Len(new) : i \in 1..Len(s) \/ i = Len(s) + 1
      BY <3>2
    <3>4. Part(new, n)
      BY <2>3, <2>5, <3>2, <3>3
    <3>5. ASSUME Unique(list)
          PROVE  Unique(new)
      <4>1. Unique(s)
        BY <2>2, <3>5
      <4>2. \A i \in 1..Len(s) : ~ (s[i].role = list[n].role /\ s[i].end = list[n].end)
        BY <1>1, <2>2, <3>5 DEF Unique
      <4>3. ASSUME NEW i \in 1..Len(new), NEW j \in 1..Len(new),
                   new[i].role = new[j].role, new[i].end = new[j].end
            PROVE  i = j
        <5>1. CASE i \in 1..Len(s) /\ j \in 1..Len(s)
          BY <3>2, <4>1, <4>3, <5>1 DEF Unique
        <5>2. CASE i = Len(s) + 1 \/ j = Len(s) + 1
          BY <3>2, <3>3, <4>2, <4>3, <5>2
        <5>3. QED
          BY <3>3, <5>1, <5>2
      <4>4. QED
        BY <4>3 DEF Unique
    <3>6. QED
      BY <3>1, <3>2, <3>4, <3>5
  <2>6. QED
    BY <2>4, <2>5
<1>11. S[0] = Good(0) /\ S[L] = Good(L) /\ \A n \in 1..L : S[n - 1] = Good(n - 1) /\ S[n] = Good(n)
  <2> HIDE DEF Good
  <2>1. QED
    BY <1>1
<1> HIDE DEF Good
<1> HIDE DEF S
<1>12. \A n \in 0..L : upTo[n] \in S[n]
  BY <1>1, <1>7, <1>9, <1>10, <1>11, FoldInto
<1>13. upTo[L] \in Good(L)
  BY <1>1, <1>11, <1>12
<1>14. QED
  BY <1>6, <1>13 DEF Good
-----------------------------------------------------------------------------
\* The list has this element.
Has(list, x) == \E i \in 1..Len(list) : list[i] = x

\* Two lists in a row have the elements of both.
LEMMA ConcatHas ==
  ASSUME NEW S, NEW x \in Seq(S), NEW y \in Seq(S)
  PROVE  /\ x \o y \in Seq(S)
         /\ \A e : Has(x \o y, e) <=> Has(x, e) \/ Has(y, e)
<1> DEFINE z == x \o y
<1>1. /\ z \in Seq(S)
      /\ Len(x) \in Nat /\ Len(y) \in Nat
      /\ Len(z) = Len(x) + Len(y)
      /\ \A i \in 1..Len(x) : z[i] = x[i]
      /\ \A i \in (Len(x) + 1)..(Len(x) + Len(y)) : z[i] = y[i - Len(x)]
  BY ConcatFacts
<1> HIDE DEF z
<1>2. ASSUME NEW e, Has(z, e)
      PROVE  Has(x, e) \/ Has(y, e)
  <2>1. PICK i \in 1..Len(z) : z[i] = e
    BY <1>2 DEF Has
  <2>2. CASE i \in 1..Len(x)
    BY <1>1, <2>1, <2>2 DEF Has
  <2>3. CASE i \notin 1..Len(x)
    <3>1. i \in (Len(x) + 1)..(Len(x) + Len(y)) /\ i - Len(x) \in 1..Len(y)
      BY <1>1, <2>3
    <3>2. y[i - Len(x)] = e
      BY <1>1, <2>1, <3>1
    <3>3. QED
      BY <3>1, <3>2 DEF Has
  <2>4. QED
    BY <2>2, <2>3
<1>3. ASSUME NEW e, Has(x, e)
      PROVE  Has(z, e)
  <2>1. PICK i \in 1..Len(x) : x[i] = e
    BY <1>3 DEF Has
  <2>2. i \in 1..Len(z) /\ z[i] = e
    BY <1>1, <2>1
  <2>3. QED
    BY <2>2 DEF Has
<1>4. ASSUME NEW e, Has(y, e)
      PROVE  Has(z, e)
  <2>1. PICK i \in 1..Len(y) : y[i] = e
    BY <1>4 DEF Has
  <2>2. /\ i + Len(x) \in (Len(x) + 1)..(Len(x) + Len(y))
        /\ i + Len(x) \in 1..Len(z)
        /\ (i + Len(x)) - Len(x) = i
    BY <1>1
  <2>3. z[i + Len(x)] = e
    BY <1>1, <2>1, <2>2
  <2>4. QED
    BY <2>2, <2>3 DEF Has
<1>5. QED
  BY <1>1, <1>2, <1>3, <1>4 DEF z

\* A list has its head and what its tail has.
LEMMA TailHas ==
  ASSUME NEW S, NEW s \in Seq(S), s # << >>
  PROVE  /\ Tail(s) \in Seq(S)
         /\ Head(s) \in S
         /\ \A e : Has(s, e) <=> e = Head(s) \/ Has(Tail(s), e)
<1> DEFINE t == Tail(s)
           h == Head(s)
<1>1. /\ t \in Seq(S)
      /\ Len(t) \in Nat
      /\ Len(s) = Len(t) + 1
      /\ \A i \in 1..Len(t) : t[i] = s[i + 1]
      /\ h = s[1]
      /\ h \in S
  BY TailFacts
<1> HIDE DEF t, h
<1>2. ASSUME NEW e, Has(s, e)
      PROVE  e = h \/ Has(t, e)
  <2>1. PICK i \in 1..Len(s) : s[i] = e
    BY <1>2 DEF Has
  <2>2. CASE i # 1
    <3>1. i - 1 \in 1..Len(t) /\ (i - 1) + 1 = i
      BY <1>1, <2>2
    <3>2. t[i - 1] = e
      BY <1>1, <2>1, <3>1
    <3>3. QED
      BY <3>1, <3>2 DEF Has
  <2>3. QED
    BY <1>1, <2>1, <2>2
<1>3. ASSUME NEW e, e = h \/ Has(t, e)
      PROVE  Has(s, e)
  <2>1. CASE e = h
    <3>1. 1 \in 1..Len(s)
      BY <1>1
    <3>2. QED
      BY <1>1, <2>1, <3>1 DEF Has
  <2>2. CASE Has(t, e)
    <3>1. PICK i \in 1..Len(t) : t[i] = e
      BY <2>2 DEF Has
    <3>2. i + 1 \in 1..Len(s) /\ s[i + 1] = e
      BY <1>1, <3>1
    <3>3. QED
      BY <3>2 DEF Has
  <2>3. QED
    BY <1>3, <2>1, <2>2
<1>4. QED
  BY <1>1, <1>2, <1>3 DEF t, h

\* What resume is to restore: the components with a flag and arguments, and
\* the interfaces of the list.
Restores(s) == ToRun(s, "server") \o ToRun(s, "client") \o ToAttach(s) \o ToRun(s, "ds")

RunOf(c, args) == [what |-> "run", who |-> c, with |-> args]

\* A component is to be run with the arguments of the settings, if it has a flag and any.
LEMMA ToRunFacts ==
  ASSUME NEW s \in Settings, NEW c \in Components
  PROVE  /\ ToRun(s, c) \in Seq(Item)
         /\ \A x : Has(ToRun(s, c), x) <=>
              s.flag[c] /\ s.args[c] # None /\ x = RunOf(c, s.args[c])
<1>1. CASE s.flag[c] /\ s.args[c] # None
  <2>1. s.args[c] \in Args
    BY <1>1 DEF Settings
  <2> DEFINE y == RunOf(c, s.args[c])
  <2>2. y \in Item
    BY <2>1 DEF RunOf, Item
  <2>3. ToRun(s, c) = << y >>
    BY <1>1 DEF ToRun, RunOf
  <2> HIDE DEF y
  <2>4. << y >> \in Seq(Item) /\ \A x : Has(<< y >>, x) <=> x = y
    BY <2>2 DEF Has
  <2>5. QED
    BY <1>1, <2>3, <2>4 DEF y
<1>2. CASE ~ (s.flag[c] /\ s.args[c] # None)
  <2>1. ToRun(s, c) = << >>
    BY <1>2 DEF ToRun
  <2>2. << >> \in Seq(Item) /\ \A x : ~ Has(<< >>, x)
    BY DEF Has
  <2>3. QED
    BY <1>2, <2>1, <2>2
<1>3. QED
  BY <1>1, <1>2

\* The interfaces of the list are to be attached.
LEMMA ToAttachFacts ==
  ASSUME NEW s \in Settings
  PROVE  /\ ToAttach(s) \in Seq(Item)
         /\ \A x : Has(ToAttach(s), x) => /\ x.what = "attach"
                                          /\ Lists(s.interfaces, x.who, x.with)
<1> DEFINE list == s.interfaces
           item == [i \in 1..Len(list) |->
                      [what |-> "attach", who |-> list[i].role, with |-> list[i].end]]
<1>1. list \in Seq(Descriptor)
  BY DEF Settings
<1>2. ToAttach(s) = item
  BY DEF ToAttach
<1> HIDE DEF list
<1>3. Len(list) \in Nat /\ \A i \in 1..Len(list) : list[i].role \in Roles /\ list[i].end \in Ends
  <2>1. Len(list) \in Nat /\ \A i \in 1..Len(list) : list[i] \in Descriptor
    BY <1>1
  <2> HIDE DEF item
  <2>2. QED
    BY <2>1 DEF Descriptor
<1>4. ASSUME NEW i \in 1..Len(list)
      PROVE  item[i] \in Item
  <2>1. item[i] = [what |-> "attach", who |-> list[i].role, with |-> list[i].end]
    OBVIOUS
  <2>2. list[i].role \in Roles /\ list[i].end \in Ends
    BY <1>3
  <2> HIDE DEF item
  <2>3. item[i] \in [what : {"attach"}, who : Roles, with : Ends]
    BY <2>1, <2>2
  <2>4. QED
    BY <2>3 DEF Item
<1>5. item \in Seq(Item) /\ Len(item) = Len(list)
  <2>1. DOMAIN item = 1..Len(list) /\ item \in [1..Len(list) -> Item]
    BY <1>4
  <2> HIDE DEF item
  <2>2. QED
    BY <1>3, <2>1
<1>6. ASSUME NEW x, Has(item, x)
      PROVE  x.what = "attach" /\ Lists(list, x.who, x.with)
  <2>1. PICK i \in 1..Len(list) : item[i] = x
    BY <1>5, <1>6 DEF Has
  <2>2. x = [what |-> "attach", who |-> list[i].role, with |-> list[i].end]
    BY <2>1
  <2>3. QED
    BY <2>2 DEF Lists
<1>7. QED
  BY <1>2, <1>5, <1>6 DEF list

\* What resume restores is what the settings name.
LEMMA RestoresFacts ==
  ASSUME NEW s \in Settings
  PROVE  /\ Restores(s) \in Seq(Item)
         /\ \A x : Has(Restores(s), x) /\ x.what = "run" =>
              x.who \in Components /\ s.flag[x.who] /\ s.args[x.who] = x.with /\ x.with # None
         /\ \A x : Has(Restores(s), x) /\ x.what = "attach" =>
              Lists(s.interfaces, x.who, x.with)
         /\ \A c \in Components : s.flag[c] /\ s.args[c] # None =>
              Has(Restores(s), RunOf(c, s.args[c]))
<1> DEFINE a == ToRun(s, "server")
           b == ToRun(s, "client")
           c == ToAttach(s)
           d == ToRun(s, "ds")
<1>1. "server" \in Components /\ "client" \in Components /\ "ds" \in Components
  BY DEF Components, Roles
<1>2. \A k \in Components : /\ ToRun(s, k) \in Seq(Item)
                            /\ \A x : Has(ToRun(s, k), x) <=>
                                 s.flag[k] /\ s.args[k] # None /\ x = RunOf(k, s.args[k])
  BY ToRunFacts
<1>3. /\ c \in Seq(Item)
      /\ \A x : Has(c, x) => x.what = "attach" /\ Lists(s.interfaces, x.who, x.with)
  BY ToAttachFacts
<1>4. a \in Seq(Item) /\ b \in Seq(Item) /\ d \in Seq(Item)
  BY <1>1, <1>2
<1>5. Restores(s) = ((a \o b) \o c) \o d
  BY DEF Restores
<1>6. Restores(s) \in Seq(Item) /\ \A x : Has(Restores(s), x) <=> Has(a, x) \/ Has(b, x) \/ Has(c, x) \/ Has(d, x)
  <2> HIDE DEF a, b, c, d
  <2>1. a \o b \in Seq(Item) /\ \A x : Has(a \o b, x) <=> Has(a, x) \/ Has(b, x)
    BY <1>4, ConcatHas
  <2> DEFINE ab == a \o b
  <2>2. ab \o c \in Seq(Item) /\ \A x : Has(ab \o c, x) <=> Has(ab, x) \/ Has(c, x)
    <3> HIDE DEF ab
    <3>1. ab \in Seq(Item)
      BY <2>1 DEF ab
    <3>2. QED
      BY <3>1, <1>3, ConcatHas
  <2> DEFINE abc == ab \o c
  <2>3. abc \o d \in Seq(Item) /\ \A x : Has(abc \o d, x) <=> Has(abc, x) \/ Has(d, x)
    <3> HIDE DEF abc
    <3>1. abc \in Seq(Item)
      BY <2>2 DEF abc
    <3>2. QED
      BY <3>1, <1>4, ConcatHas
  <2>4. QED
    BY <1>5, <2>1, <2>2, <2>3
<1>7. \A k, args : /\ RunOf(k, args).what = "run"
                   /\ RunOf(k, args).who = k
                   /\ RunOf(k, args).with = args
  BY DEF RunOf
<1>8. ASSUME NEW x, Has(Restores(s), x), x.what = "run"
      PROVE  x.who \in Components /\ s.flag[x.who] /\ s.args[x.who] = x.with /\ x.with # None
  <2>1. PICK k \in Components : Has(ToRun(s, k), x)
    <3>1. ~ Has(c, x)
      BY <1>3, <1>8
    <3>2. QED
      BY <1>1, <1>6, <1>8, <3>1
  <2>2. s.flag[k] /\ s.args[k] # None /\ x = RunOf(k, s.args[k])
    BY <1>2, <2>1
  <2>3. QED
    BY <1>7, <2>2
<1>9. ASSUME NEW x, Has(Restores(s), x), x.what = "attach"
      PROVE  Lists(s.interfaces, x.who, x.with)
  <2>1. ASSUME NEW k \in Components
        PROVE  ~ Has(ToRun(s, k), x)
    <3>1. x # RunOf(k, s.args[k])
      BY <1>7, <1>9
    <3>2. QED
      BY <1>2, <3>1
  <2>2. Has(c, x)
    BY <1>1, <1>6, <1>9, <2>1
  <2>3. QED
    BY <1>3, <2>2
<1>10. ASSUME NEW k \in Components, s.flag[k], s.args[k] # None
       PROVE  Has(Restores(s), RunOf(k, s.args[k]))
  <2>1. Has(ToRun(s, k), RunOf(k, s.args[k]))
    BY <1>2, <1>10
  <2>2. k = "server" \/ k = "client" \/ k = "ds"
    BY DEF Components, Roles
  <2>3. QED
    BY <1>6, <2>1, <2>2
<1>11. QED
  BY <1>6, <1>8, <1>9, <1>10

\* What the file holds, none or one: the settings that are loaded.
FileOK == \A s \in file : s \in Settings /\ file = {s}

\* The settings to begin with have nothing to run or to attach.
LEMMA DefaultsFacts ==
  /\ Nothing \in [Components -> Args \cup {None}]
  /\ \A c \in Components : Nothing[c] = None
  /\ Defaults \in Settings
  /\ \A c \in Components : ~ Defaults.flag[c]
  /\ Defaults.interfaces = << >>
<1>1. Nothing \in [Components -> Args \cup {None}] /\ \A c \in Components : Nothing[c] = None
  BY DEF Nothing
<1>2. << >> \in Seq(Descriptor)
  OBVIOUS
<1>3. QED
  BY <1>1, <1>2 DEF Defaults, Settings

\* What is loaded are settings, the file's if it has any.
LEMMA LoadedFacts ==
  ASSUME FileOK
  PROVE  /\ Loaded(file) \in Settings
         /\ file = Unreadable => Loaded(file) = Defaults
         /\ file # Unreadable => file = {Loaded(file)} /\ Loaded(file) \in file
<1>1. CASE file = Unreadable
  BY <1>1, DefaultsFacts DEF Loaded
<1>2. CASE file # Unreadable
  <2>1. PICK s : s \in file
    BY <1>2 DEF Unreadable
  <2>2. file = {s} /\ s \in Settings
    BY <2>1 DEF FileOK
  <2>3. Loaded(file) = CHOOSE x \in file : TRUE
    BY <1>2 DEF Loaded
  <2>4. Loaded(file) = s
    BY <2>2, <2>3
  <2>5. QED
    BY <1>2, <2>2, <2>4
<1>3. QED
  BY <1>1, <1>2
-----------------------------------------------------------------------------
\* The settings stay settings: a component is noted with its flag and
\* arguments, its flag is cleared, and a list is put in place of the interfaces.
LEMMA SettingsFacts ==
  ASSUME NEW s \in Settings
  PROVE  /\ \A c \in Components, args \in Args \cup {None} :
              [s EXCEPT !.flag[c] = TRUE, !.args[c] = args] \in Settings
         /\ \A c \in Components : [s EXCEPT !.flag[c] = FALSE] \in Settings
         /\ \A list \in Seq(Descriptor) : [s EXCEPT !.interfaces = list] \in Settings
         /\ s.interfaces \in Seq(Descriptor)
  BY DEF Settings

\* The types hold at the start.
LEMMA InitType == Init => TypeOK
<1> SUFFICES ASSUME Init
             PROVE  TypeOK
  OBVIOUS
<1>1. file = Unreadable \/ \E s \in Settings : file = {s}
  <2>1. ASSUME NEW r \in Roles, NEW e \in Ends
        PROVE  [Defaults EXCEPT !.interfaces =
                 << [role |-> r, end |-> e, id |-> TRUE], [role |-> r, end |-> e, id |-> TRUE] >>] \in Settings
    <3> DEFINE d == [role |-> r, end |-> e, id |-> TRUE]
    <3>1. d \in Descriptor
      BY DEF Descriptor
    <3> HIDE DEF d
    <3>2. << d, d >> \in Seq(Descriptor)
      BY <3>1
    <3>3. QED
      BY <3>2, DefaultsFacts, SettingsFacts DEF d
  <2>2. QED
    BY <2>1 DEF Init
<1>2. \A s \in file : s \in Settings /\ file = {s}
  BY <1>1 DEF Unreadable
<1>3. << >> \in Seq(Item)
  OBVIOUS
<1>4. stopped \subseteq Components /\ expected \subseteq Item /\ torn \in BOOLEAN
      /\ removing \cup removed \cup idless \subseteq Roles \X Ends
  BY DEF Init
<1>5. QED
  BY <1>2, <1>3, <1>4, DefaultsFacts, ControllerAssumption DEF Init, TypeOK, Roles

\* Noting a component that runs.
LEMMA RunsType ==
  ASSUME TypeOK, NEW c \in Components, NEW args \in Args \cup {None}, Runs(c, args),
         running[c] = None \/ args # None
  PROVE  /\ running' \in [Components -> Args \cup {None}]
         /\ \A k \in Components : running'[k] = None => running[k] = None
         /\ settings' \in Settings
         /\ settings'.interfaces = settings.interfaces
         /\ op' = "save" /\ subj' = c /\ next' = None
<1>1. settings' = [settings EXCEPT !.flag[c] = TRUE, !.args[c] = args]
  BY DEF Runs
<1>2. settings \in Settings
  BY DEF TypeOK
<1>3. settings' \in Settings
  BY <1>1, <1>2, SettingsFacts
<1>4. settings'.interfaces = settings.interfaces
  BY <1>1, <1>2 DEF Settings
<1>5. QED
  BY <1>3, <1>4 DEF Runs, TypeOK

\* Attaching an interface.
LEMMA AttachesType ==
  ASSUME TypeOK, NEW r \in Roles, NEW e \in Ends, Attaches(r, e)
  PROVE  /\ attached' \in [Roles -> SUBSET Ends]
         /\ \A k \in Roles : running[k] = None => attached'[k] = {}
         /\ settings' \in Settings
         /\ \E b \in BOOLEAN : settings'.interfaces =
              Recorded(settings.interfaces, [role |-> r, end |-> e, id |-> b])
         /\ settings'.flag = settings.flag /\ settings'.args = settings.args
         /\ op' = "save" /\ UNCHANGED << subj, next, running >>
<1> DEFINE d == [role |-> r, end |-> e, id |-> e \notin attached[r]]
           list == Recorded(settings.interfaces, d)
<1>1. settings \in Settings /\ settings.interfaces \in Seq(Descriptor)
  BY SettingsFacts DEF TypeOK
<1>2. d \in Descriptor
  BY DEF Descriptor
<1>3. settings' = [settings EXCEPT !.interfaces = list]
  BY DEF Attaches
<1>4. list \in Seq(Descriptor)
  <2> HIDE DEF d
  <2>1. QED
    BY <1>1, <1>2, RecordedFacts
<1>5. \E b \in BOOLEAN : list = Recorded(settings.interfaces, [role |-> r, end |-> e, id |-> b])
  OBVIOUS
<1> HIDE DEF list
<1>6. /\ settings' \in Settings
      /\ settings'.interfaces = list
      /\ settings'.flag = settings.flag
      /\ settings'.args = settings.args
  <2>1. settings' \in Settings
    BY <1>1, <1>3, <1>4, SettingsFacts
  <2>2. QED
    BY <1>1, <1>3, <2>1 DEF Settings
<1>7. /\ attached' \in [Roles -> SUBSET Ends]
      /\ \A k \in Roles : running[k] = None => attached'[k] = {}
  BY DEF Attaches, TypeOK
<1>8. QED
  BY <1>5, <1>6, <1>7 DEF Attaches

\* An item of what resume has to restore.
LEMMA ItemFacts ==
  ASSUME NEW i \in Item
  PROVE  /\ i.what = "run" => i.who \in Components /\ i.with \in Args /\ i.with # None
         /\ i.what = "attach" => i.who \in Roles /\ i.with \in Ends
  BY ControllerAssumption DEF Item

\* The types are kept by what the operations do.
LEMMA OperationsType ==
  ASSUME TypeOK, Operations
  PROVE  TypeOK'
<1> USE DEF crashVars, removalVars
<1>1. settings \in Settings /\ \A c \in Components : settings.args[c] \in Args \cup {None}
  BY DEF TypeOK, Settings
<1>2. Roles \subseteq Components /\ "ds" \in Components /\ "client" \in Roles /\ "ds" \notin Roles
  BY DEF Components, Roles
<1>3. ASSUME NEW c \in Components, NEW then \in Args \cup {None}, Stop(c, then)
      PROVE  TypeOK'
  <2>1. running' \in [Components -> Args \cup {None}]
    BY <1>3 DEF Stop, TypeOK
  <2>2. /\ attached' \in [Roles -> SUBSET Ends]
        /\ \A r \in Roles : running'[r] = None => attached'[r] = {}
    BY <1>2, <1>3 DEF Stop, TypeOK
  <2>3. QED
    BY <1>3, <2>1, <2>2 DEF Stop, TypeOK
<1>4. ASSUME NEW c \in Roles, NEW args \in Args, Start(c, args)
      PROVE  TypeOK'
  BY <1>2, <1>4 DEF Start, TypeOK
<1>5. ASSUME NEW r \in Roles, NEW e \in Ends, AddInterface(r, e)
      PROVE  TypeOK'
  <2>1. Attaches(r, e)
    BY <1>5 DEF AddInterface
  <2>2. /\ attached' \in [Roles -> SUBSET Ends]
        /\ \A k \in Roles : running[k] = None => attached'[k] = {}
        /\ settings' \in Settings
        /\ op' = "save" /\ UNCHANGED << subj, next, running >>
    BY <1>5, <2>1, AttachesType
  <2>3. QED
    BY <1>5, <2>2 DEF AddInterface, TypeOK
<1>6. ASSUME NEW e \in Ends, RemoveInterface(e)
      PROVE  TypeOK'
  <2>1. PICK r \in Roles :
          /\ attached' = [attached EXCEPT ![r] = @ \ {e}]
          /\ removing' = {<< r, e >>}
          /\ idless' \subseteq idless \cup {<< r, e >>}
    BY <1>6 DEF RemoveInterface
  <2>2. attached' \in [Roles -> SUBSET Ends] /\ \A k \in Roles : running[k] = None => attached'[k] = {}
    BY <2>1 DEF TypeOK
  <2>3. removing' \cup removed' \cup idless' \subseteq Roles \X Ends
    BY <1>6, <2>1 DEF RemoveInterface, TypeOK
  <2>4. settings' \in Settings
    <3> DEFINE list == Retained(settings.interfaces, e)
    <3>1. list \in Seq(Descriptor)
      BY <1>1, SettingsFacts, RetainedFacts
    <3>2. settings' = [settings EXCEPT !.interfaces = list]
      BY <1>6 DEF RemoveInterface
    <3> HIDE DEF list
    <3>3. QED
      BY <1>1, <3>1, <3>2, SettingsFacts
  <2>5. QED
    BY <1>6, <2>2, <2>3, <2>4 DEF RemoveInterface, TypeOK
<1>7. ASSUME NEW args \in Args, DsStart(args) \/ DsCommand(args)
      PROVE  TypeOK'
  <2>1. Runs("ds", args) /\ args # None
    BY <1>7, ControllerAssumption DEF DsStart, DsCommand
  <2>2. /\ running' \in [Components -> Args \cup {None}]
        /\ \A k \in Components : running'[k] = None => running[k] = None
        /\ settings' \in Settings
        /\ op' = "save" /\ subj' = "ds" /\ next' = None
    BY <1>2, <2>1, RunsType
  <2>3. \A r \in Roles : running'[r] = None => attached[r] = {}
    BY <1>2, <2>2 DEF TypeOK
  <2>4. stopped' \subseteq Components
    BY <1>7 DEF DsStart, DsCommand, histVars, TypeOK
  <2>5. UNCHANGED << shell, proc, attached, file, todo, crashes, crashVars, removalVars >>
    BY <1>7 DEF DsStart, DsCommand, histVars
  <2>6. QED
    BY <1>2, <2>2, <2>3, <2>4, <2>5 DEF TypeOK
<1>8. QED
  BY <1>1, <1>2, <1>3, <1>4, <1>5, <1>6, <1>7 DEF Operations, Restart, ConnectAndLaunch

\* Where the process and the operation are, and what there can be then.
PhaseInv ==
  /\ proc = "down" => op = "none" /\ todo = << >> /\ running = Nothing
  /\ proc = "resuming" => next = None /\ op \in {"none", "save", "write"}
  /\ proc = "ready" => expected = {} /\ todo = << >>
  /\ op = "none" => subj = None /\ next = None
  /\ op \in {"starting", "stopping"} \/ next # None => subj \in Components /\ running[subj] = None
  /\ op = "starting" => next # None

\* What resume restores of the settings it has repaired, typed.
LEMMA BootFacts ==
  ASSUME TypeOK, Boot
  PROVE  \E s, t \in Settings :
           /\ s = Loaded(file)
           /\ t = [s EXCEPT !.interfaces = Deduped(s.interfaces)]
           /\ t.flag = s.flag /\ t.args = s.args
           /\ t.interfaces = Deduped(s.interfaces)
           /\ settings' = t
           /\ todo' = Restores(t)
<1>1. PICK s \in Settings : s = Loaded(file)
  BY LoadedFacts DEF TypeOK, FileOK
<1>2. PICK list \in Seq(Descriptor) : list = Deduped(s.interfaces)
  BY SettingsFacts, DedupedFacts
<1>3. PICK t \in Settings : t = [s EXCEPT !.interfaces = list]
  BY SettingsFacts
<1>4. t.flag = s.flag /\ t.args = s.args /\ t.interfaces = list
  BY <1>3 DEF Settings
<1>5. t = [Loaded(file) EXCEPT !.interfaces = Deduped(@)]
  BY <1>1, <1>2, <1>3
<1>6. settings' = t /\ todo' = Restores(t)
  BY <1>5 DEF Boot, Restores
<1>7. QED
  BY <1>1, <1>2, <1>3, <1>4, <1>6

\* The types are kept by every step.
LEMMA TypeStep ==
  ASSUME TypeOK, PhaseInv, [Next]_vars
  PROVE  TypeOK'
<1> USE DEF opVars, histVars, crashVars, removalVars
<1>1. CASE Operations
  BY <1>1, OperationsType
<1>2. CASE SaveBegins
  BY <1>2 DEF SaveBegins, TypeOK, Unreadable
<1>3. CASE Saves
  BY <1>3 DEF Saves, OpEnds, TypeOK
<1>4. CASE StartReturns
  <2>1. CASE Runs(subj, next)
    <3>1. subj \in Components /\ next \in Args \cup {None} /\ running[subj] = None
      BY <1>4 DEF StartReturns, PhaseInv, TypeOK
    <3>2. /\ running' \in [Components -> Args \cup {None}]
          /\ \A k \in Components : running'[k] = None => running[k] = None
          /\ settings' \in Settings
          /\ op' = "save" /\ subj' = subj /\ next' = None
      BY <2>1, <3>1, RunsType
    <3>3. \A r \in Roles : running'[r] = None => attached[r] = {}
      BY <3>2 DEF TypeOK, Components
    <3>4. QED
      BY <1>4, <3>1, <3>2, <3>3 DEF StartReturns, TypeOK
  <2>2. CASE OpEnds /\ UNCHANGED << running, settings >>
    BY <1>4, <2>2 DEF StartReturns, OpEnds, TypeOK
  <2>3. QED
    BY <1>4, <2>1, <2>2 DEF StartReturns
<1>5. CASE StopReturns
  <2>1. subj \in Components /\ settings \in Settings
    BY <1>5 DEF StopReturns, PhaseInv, TypeOK
  <2>2. settings' \in Settings
    BY <1>5, <2>1, SettingsFacts DEF StopReturns
  <2>3. QED
    BY <1>5, <2>1, <2>2 DEF StopReturns, TypeOK
<1>6. CASE Cancelled
  BY <1>6 DEF Cancelled, OpEnds, TypeOK
<1>7. CASE DsEnds
  <2>1. "ds" \in Components /\ "ds" \notin Roles
    BY DEF Components, Roles
  <2>2. /\ running' \in [Components -> Args \cup {None}]
        /\ \A r \in Roles : running'[r] = running[r]
    BY <1>7, <2>1 DEF DsEnds, TypeOK
  <2>3. QED
    BY <1>7, <2>2 DEF DsEnds, TypeOK
<1>8. CASE Boot
  <2>1. PICK t \in Settings : settings' = t /\ todo' = Restores(t)
    BY <1>8, BootFacts
  <2>2. settings' \in Settings /\ todo' \in Seq(Item)
    BY <2>1, RestoresFacts
  <2>3. QED
    BY <1>8, <2>2 DEF Boot, TypeOK
<1>9. CASE BootDesktop
  <2>1. settings' \in Settings
    BY <1>9, LoadedFacts DEF BootDesktop, FileOK, TypeOK
  <2>2. QED
    BY <1>9, <2>1 DEF BootDesktop, TypeOK
<1>10. CASE ResumeNext
  <2> DEFINE i == Head(todo)
  <2>1. i \in Item /\ Tail(todo) \in Seq(Item)
    BY <1>10, TailHas DEF ResumeNext, TypeOK
  <2> HIDE DEF i
  <2>2. CASE i.what = "run" /\ Runs(i.who, i.with) /\ UNCHANGED << attached, expected >>
    <3>1. i.who \in Components /\ i.with \in Args /\ i.with # None
      BY <2>1, <2>2, ItemFacts
    <3>2. /\ running' \in [Components -> Args \cup {None}]
          /\ \A k \in Components : running'[k] = None => running[k] = None
          /\ settings' \in Settings
          /\ op' = "save" /\ subj' = i.who /\ next' = None
      BY <2>2, <3>1, RunsType
    <3>3. \A r \in Roles : running'[r] = None => attached[r] = {}
      BY <3>2 DEF TypeOK, Components
    <3>4. QED
      BY <1>10, <2>1, <2>2, <3>1, <3>2, <3>3 DEF ResumeNext, TypeOK
  <2>3. CASE i.what = "attach" /\ Attaches(i.who, i.with) /\ UNCHANGED expected
    <3>1. i.who \in Roles /\ i.with \in Ends
      BY <2>1, <2>3, ItemFacts
    <3>2. /\ attached' \in [Roles -> SUBSET Ends]
          /\ \A k \in Roles : running[k] = None => attached'[k] = {}
          /\ settings' \in Settings
          /\ op' = "save" /\ UNCHANGED << subj, next, running >>
      BY <2>3, <3>1, AttachesType
    <3>3. QED
      BY <1>10, <2>1, <2>3, <3>2 DEF ResumeNext, TypeOK
  <2>4. CASE expected' = expected \ {i} /\ UNCHANGED << opVars, running, attached, settings >>
    BY <1>10, <2>1, <2>4 DEF ResumeNext, TypeOK
  <2>5. QED
    BY <1>10, <2>2, <2>3, <2>4 DEF ResumeNext, i
<1>11. CASE ResumeEnds
  BY <1>11 DEF ResumeEnds, TypeOK
<1>12. CASE Crash
  <2>1. << >> \in Seq(Item)
    OBVIOUS
  <2>2. expected' \subseteq Item
    BY <1>12 DEF Crash, TypeOK
  <2>3. crashes' \in 0..MaxCrashes
    BY <1>12, ControllerAssumption DEF Crash, TypeOK
  <2>4. settings' \in Settings /\ running' \in [Components -> Args \cup {None}]
    BY <1>12, DefaultsFacts DEF Crash
  <2>5. removing' \cup removed' \cup idless' \subseteq Roles \X Ends /\ stopped' \subseteq Components
    BY <1>12 DEF Crash, TypeOK
  <2>6. attached' \in [Roles -> SUBSET Ends] /\ \A r \in Roles : attached'[r] = {}
    BY <1>12 DEF Crash
  <2>7. QED
    BY <1>12, <2>1, <2>2, <2>3, <2>4, <2>5, <2>6 DEF Crash, TypeOK
<1>13. CASE UNCHANGED vars
  BY <1>13 DEF vars, TypeOK
<1>14. QED
  BY <1>1, <1>2, <1>3, <1>4, <1>5, <1>6, <1>7, <1>8, <1>9, <1>10, <1>11, <1>12, <1>13 DEF Next

\* The phases are kept by every step.
LEMMA PhaseStep ==
  ASSUME TypeOK, PhaseInv, [Next]_vars
  PROVE  PhaseInv'
<1> USE DEF opVars, histVars, crashVars, removalVars, PhaseInv
<1>1. CASE Operations
  <2>1. ASSUME NEW c \in Components, NEW then \in Args \cup {None}, Stop(c, then)
        PROVE  PhaseInv'
    <3>1. running'[c] = None
      BY <2>1 DEF Stop, TypeOK
    <3>2. QED
      BY <2>1, <3>1 DEF Stop, Idle, TypeOK
  <2>2. ASSUME NEW c \in Roles, NEW args \in Args, Start(c, args)
        PROVE  PhaseInv'
    BY <2>2, ControllerAssumption DEF Start, Idle, TypeOK, Components
  <2>3. ASSUME NEW r \in Roles, NEW e \in Ends, AddInterface(r, e)
        PROVE  PhaseInv'
    BY <2>3 DEF AddInterface, Attaches, Idle, TypeOK
  <2>4. ASSUME NEW e \in Ends, RemoveInterface(e)
        PROVE  PhaseInv'
    BY <2>4 DEF RemoveInterface, Idle, TypeOK
  <2>5. ASSUME NEW args \in Args, DsStart(args)
        PROVE  PhaseInv'
    BY <2>5 DEF DsStart, Runs, Idle, TypeOK
  <2>6. ASSUME NEW args \in Args, DsCommand(args)
        PROVE  PhaseInv'
    BY <2>6 DEF DsCommand, Runs, Idle, TypeOK
  <2>7. \A r \in Roles : r \in Components /\ settings.args[r] \in Args \cup {None}
    BY DEF Components, TypeOK, Settings
  <2>8. "client" \in Components
    BY DEF Components, Roles
  <2>9. QED
    BY <1>1, <2>1, <2>2, <2>3, <2>4, <2>5, <2>6, <2>7, <2>8 DEF Operations, Restart, ConnectAndLaunch
<1>2. CASE SaveBegins
  BY <1>2 DEF SaveBegins
<1>3. CASE Saves
  BY <1>3 DEF Saves, OpEnds
<1>4. CASE StartReturns
  BY <1>4 DEF StartReturns, Runs, OpEnds
<1>5. CASE StopReturns
  BY <1>5 DEF StopReturns
<1>6. CASE Cancelled
  BY <1>6 DEF Cancelled, OpEnds
<1>7. CASE DsEnds
  <2>1. \A c \in Components : running[c] = None => running'[c] = None
    BY <1>7 DEF DsEnds, TypeOK
  <2>2. proc # "down"
    BY <1>7, DefaultsFacts DEF DsEnds, Components
  <2>3. expected' \subseteq expected
    BY <1>7 DEF DsEnds
  <2>4. QED
    BY <1>7, <2>1, <2>2, <2>3 DEF DsEnds
<1>8. CASE Boot
  BY <1>8 DEF Boot
<1>9. CASE BootDesktop
  BY <1>9 DEF BootDesktop
<1>10. CASE ResumeNext
  BY <1>10 DEF ResumeNext, Runs, Attaches
<1>11. CASE ResumeEnds
  BY <1>11 DEF ResumeEnds
<1>12. CASE Crash
  BY <1>12 DEF Crash
<1>13. CASE UNCHANGED vars
  BY <1>13 DEF vars
<1>14. QED
  BY <1>1, <1>2, <1>3, <1>4, <1>5, <1>6, <1>7, <1>8, <1>9, <1>10, <1>11, <1>12, <1>13 DEF Next

\* The phases hold at the start.
LEMMA InitPhase == Init => PhaseInv
  BY DEF Init, PhaseInv

\* Whatever is started, cancelled or interrupted, every variable has its type,
\* and nothing is attached to the node of a session that does not run.
THEOREM TypeCorrect == Spec => []TypeOK
<1>1. Init => TypeOK /\ PhaseInv
  BY InitType, InitPhase
<1>2. TypeOK /\ PhaseInv /\ [Next]_vars => (TypeOK /\ PhaseInv)'
  BY TypeStep, PhaseStep
<1>3. QED
  BY <1>1, <1>2, PTL DEF Spec
-----------------------------------------------------------------------------
\* These settings have the component run with these arguments.
Agrees(s, c, args) == s.flag[c] /\ s.args[c] = args

\* What runs is noted; in the file too, unless that change is still to be saved
\* or the file is just being written.
Noted ==
  \A c \in Components : running[c] # None =>
    /\ Agrees(settings, c, running[c])
    /\ \/ \E s \in file : Agrees(s, c, running[c])
       \/ op = "write" \/ (op = "save" /\ subj = c)

\* What resume is still to start is noted.
ItemsNoted ==
  \A x \in Item : x.what = "run" /\ Has(todo, x) => Agrees(settings, x.who, x.with)

\* What a crash interrupted is in the file as it ran, unless the file is just
\* being written or was when the process went down; when resume has begun it is
\* in memory, and runs or is still to be started.
ExpectedNoted ==
  /\ \A x \in expected : x.what = "run"
  /\ ~ torn =>
       \A x \in expected :
         /\ op = "write" \/ \E s \in file : Agrees(s, x.who, x.with)
         /\ proc = "resuming" => /\ Agrees(settings, x.who, x.with)
                                 /\ running[x.who] = x.with \/ Has(todo, x)

\* What noting a component changes.
LEMMA RunsFacts ==
  ASSUME TypeOK, NEW c \in Components, NEW args \in Args, Runs(c, args)
  PROVE  /\ \A k \in Components : running'[k] = IF k = c THEN args ELSE running[k]
         /\ \A k \in Components : \A a : Agrees(settings', k, a) <=>
              IF k = c THEN a = args ELSE Agrees(settings, k, a)
         /\ op' = "save" /\ subj' = c /\ next' = None
<1>1. \A k \in Components : running'[k] = IF k = c THEN args ELSE running[k]
  BY DEF Runs, TypeOK
<1>2. settings' = [settings EXCEPT !.flag[c] = TRUE, !.args[c] = args]
  BY DEF Runs
<1>3. settings \in Settings
  BY DEF TypeOK
<1>4. \A k \in Components : /\ settings'.flag[k] = IF k = c THEN TRUE ELSE settings.flag[k]
                            /\ settings'.args[k] = IF k = c THEN args ELSE settings.args[k]
  BY <1>2, <1>3 DEF Settings
<1>5. QED
  BY <1>1, <1>4 DEF Runs, Agrees

\* What attaching an interface leaves alone.
LEMMA AttachesFacts ==
  ASSUME TypeOK, NEW r \in Roles, NEW e \in Ends, Attaches(r, e)
  PROVE  /\ \A k, a : Agrees(settings', k, a) <=> Agrees(settings, k, a)
         /\ op' = "save" /\ UNCHANGED << subj, next, running >>
  BY AttachesType DEF Agrees

\* A removal leaves the components alone.
LEMMA RemovesFacts ==
  ASSUME TypeOK, NEW e \in Ends, RemoveInterface(e)
  PROVE  /\ settings'.interfaces = Retained(settings.interfaces, e)
         /\ settings'.flag = settings.flag
         /\ settings'.args = settings.args
         /\ \A k, a : Agrees(settings', k, a) <=> Agrees(settings, k, a)
<1> DEFINE list == Retained(settings.interfaces, e)
<1>1. settings' = [settings EXCEPT !.interfaces = list]
  BY DEF RemoveInterface
<1>2. settings \in Settings
  BY DEF TypeOK
<1> HIDE DEF list
<1>3. settings'.interfaces = list /\ settings'.flag = settings.flag /\ settings'.args = settings.args
  BY <1>1, <1>2 DEF Settings
<1>4. QED
  BY <1>3 DEF Agrees, list

\* What the return of a stop changes.
LEMMA StopReturnsFacts ==
  ASSUME TypeOK, subj \in Components, StopReturns
  PROVE  /\ \A k \in Components : settings'.flag[k] = IF k = subj THEN FALSE ELSE settings.flag[k]
         /\ settings'.interfaces = settings.interfaces
         /\ \A k \in Components : \A a : k # subj =>
              (Agrees(settings', k, a) <=> Agrees(settings, k, a))
<1>1. settings' = [settings EXCEPT !.flag[subj] = FALSE]
  BY DEF StopReturns
<1>2. settings \in Settings
  BY DEF TypeOK
<1>3. /\ \A k \in Components : settings'.flag[k] = IF k = subj THEN FALSE ELSE settings.flag[k]
      /\ settings'.args = settings.args
      /\ settings'.interfaces = settings.interfaces
  BY <1>1, <1>2 DEF Settings
<1>4. QED
  BY <1>3 DEF Agrees

\* Of the handlers' operations, only those on the server's manager note anything.
LEMMA OperationKinds ==
  ASSUME TypeOK, Operations
  PROVE  /\ Idle
         /\ \/ \E c \in Components, then \in Args \cup {None} : Stop(c, then)
            \/ \E c \in Roles, args \in Args : Start(c, args)
            \/ \E args \in Args : DsStart(args) \/ DsCommand(args)
            \/ \E r \in Roles, e \in Ends : AddInterface(r, e)
            \/ \E e \in Ends : RemoveInterface(e)
<1>1. \A r \in Roles : r \in Components /\ settings.args[r] \in Args \cup {None}
  BY DEF Components, TypeOK, Settings
<1>2. "client" \in Components
  BY DEF Components, Roles
<1>3. \/ \E c \in Components, then \in Args \cup {None} : Stop(c, then)
      \/ \E c \in Roles, args \in Args : Start(c, args)
      \/ \E args \in Args : DsStart(args) \/ DsCommand(args)
      \/ \E r \in Roles, e \in Ends : AddInterface(r, e)
      \/ \E e \in Ends : RemoveInterface(e)
  BY <1>1, <1>2 DEF Operations, Restart, ConnectAndLaunch
<1>4. QED
  BY <1>3 DEF Stop, Start, DsStart, DsCommand, AddInterface, RemoveInterface

\* When a component begins to run, and the file agreed with what ran before.
LEMMA NotedWhenRun ==
  ASSUME TypeOK, Noted, NEW c \in Components, NEW args \in Args, Runs(c, args),
         op \notin {"save", "write"}, UNCHANGED file
  PROVE  Noted'
<1>1. /\ \A k \in Components : running'[k] = IF k = c THEN args ELSE running[k]
      /\ \A k \in Components : \A a : Agrees(settings', k, a) <=>
           IF k = c THEN a = args ELSE Agrees(settings, k, a)
      /\ op' = "save" /\ subj' = c
  BY RunsFacts
<1>2. QED
  BY <1>1 DEF Noted

\* Every step keeps what runs noted.
LEMMA NotedStep ==
  ASSUME TypeOK, PhaseInv, Noted, [Next]_vars
  PROVE  Noted'
<1> USE DEF opVars, histVars, crashVars, removalVars
<1>1. CASE Operations
  <2>1. op = "none"
    BY <1>1, OperationKinds DEF Idle
  <2>2. ASSUME NEW c \in Components, NEW then \in Args \cup {None}, Stop(c, then)
        PROVE  Noted'
    <3>1. \A k \in Components : running'[k] = IF k = c THEN None ELSE running[k]
      BY <2>2 DEF Stop, TypeOK
    <3>2. UNCHANGED << settings, file >>
      BY <2>2 DEF Stop
    <3>3. QED
      BY <2>1, <3>1, <3>2 DEF Noted
  <2>3. ASSUME NEW c \in Roles, NEW args \in Args, Start(c, args)
        PROVE  Noted'
    <3>1. UNCHANGED << running, settings, file >>
      BY <2>3 DEF Start
    <3>2. QED
      BY <2>1, <3>1 DEF Noted
  <2>4. ASSUME NEW args \in Args, DsStart(args) \/ DsCommand(args)
        PROVE  Noted'
    <3>1. Runs("ds", args) /\ UNCHANGED file /\ "ds" \in Components
      BY <2>4 DEF DsStart, DsCommand, Components
    <3>2. QED
      BY <2>1, <3>1, NotedWhenRun
  <2>5. ASSUME NEW r \in Roles, NEW e \in Ends, AddInterface(r, e)
        PROVE  Noted'
    <3>1. UNCHANGED << running, file >> /\ \A k, a : Agrees(settings', k, a) <=> Agrees(settings, k, a)
      BY <2>5, AttachesFacts DEF AddInterface
    <3>2. QED
      BY <2>1, <3>1 DEF Noted
  <2>6. ASSUME NEW e \in Ends, RemoveInterface(e)
        PROVE  Noted'
    <3>1. UNCHANGED << running, file >> /\ \A k, a : Agrees(settings', k, a) <=> Agrees(settings, k, a)
      BY <2>6, RemovesFacts DEF RemoveInterface
    <3>2. QED
      BY <2>1, <3>1 DEF Noted
  <2>7. QED
    BY <1>1, <2>2, <2>3, <2>4, <2>5, <2>6, OperationKinds
<1>2. CASE SaveBegins
  BY <1>2 DEF SaveBegins, Noted, Unreadable
<1>3. CASE Saves
  BY <1>3 DEF Saves, Noted
<1>4. CASE StartReturns
  <2>1. CASE Runs(subj, next)
    <3>1. subj \in Components /\ next \in Args /\ op = "starting" /\ UNCHANGED file
      BY <1>4 DEF StartReturns, PhaseInv, TypeOK
    <3>2. QED
      BY <2>1, <3>1, NotedWhenRun
  <2>2. CASE OpEnds /\ UNCHANGED << running, settings >>
    BY <1>4, <2>2 DEF StartReturns, OpEnds, Noted
  <2>3. QED
    BY <1>4, <2>1, <2>2 DEF StartReturns
<1>5. CASE StopReturns
  <2>1. subj \in Components /\ running[subj] = None /\ op = "stopping"
    BY <1>5 DEF StopReturns, PhaseInv
  <2>2. UNCHANGED << running, file >>
    BY <1>5 DEF StopReturns
  <2>3. QED
    BY <1>5, <2>1, <2>2, StopReturnsFacts DEF Noted
<1>6. CASE Cancelled
  BY <1>6 DEF Cancelled, OpEnds, Noted
<1>7. CASE DsEnds
  <2>1. \A k \in Components : running'[k] = IF k = "ds" THEN None ELSE running[k]
    BY <1>7 DEF DsEnds, TypeOK
  <2>2. UNCHANGED << settings, file, op, subj >>
    BY <1>7 DEF DsEnds
  <2>3. QED
    BY <2>1, <2>2 DEF Noted
<1>8. CASE Boot
  <2>1. running' = Nothing
    BY <1>8 DEF Boot, PhaseInv
  <2>2. QED
    BY <2>1, DefaultsFacts DEF Noted
<1>9. CASE BootDesktop
  <2>1. running' = Nothing
    BY <1>9 DEF BootDesktop, PhaseInv
  <2>2. QED
    BY <2>1, DefaultsFacts DEF Noted
<1>10. CASE ResumeNext
  <2> DEFINE i == Head(todo)
  <2>1. i \in Item
    BY <1>10, TailHas DEF ResumeNext, TypeOK
  <2> HIDE DEF i
  <2>2. op = "none" /\ UNCHANGED file
    BY <1>10 DEF ResumeNext
  <2>3. CASE i.what = "run" /\ Runs(i.who, i.with)
    BY <2>1, <2>2, <2>3, ItemFacts, NotedWhenRun
  <2>4. CASE i.what = "attach" /\ Attaches(i.who, i.with)
    <3>1. UNCHANGED running /\ \A k, a : Agrees(settings', k, a) <=> Agrees(settings, k, a)
      BY <2>1, <2>4, ItemFacts, AttachesFacts
    <3>2. QED
      BY <2>2, <3>1 DEF Noted
  <2>5. CASE UNCHANGED << opVars, running, attached, settings >>
    BY <2>2, <2>5 DEF Noted
  <2>6. QED
    BY <1>10, <2>3, <2>4, <2>5 DEF ResumeNext, i
<1>11. CASE ResumeEnds
  BY <1>11 DEF ResumeEnds, Noted
<1>12. CASE Crash
  BY <1>12, DefaultsFacts DEF Crash, Noted
<1>13. CASE UNCHANGED vars
  BY <1>13 DEF vars, Noted
<1>14. QED
  BY <1>1, <1>2, <1>3, <1>4, <1>5, <1>6, <1>7, <1>8, <1>9, <1>10, <1>11, <1>12, <1>13 DEF Next

\* What a step other than a start of resume does with what it has to restore.
LEMMA TodoFacts ==
  ASSUME TypeOK, PhaseInv, [Next]_vars
  PROVE  \/ todo' = todo
         \/ Boot \/ ResumeNext
         \/ todo' = << >>
  BY DEF Next, Operations, Restart, ConnectAndLaunch, Start, Stop, DsStart, DsCommand,
         AddInterface, RemoveInterface, SaveBegins, Saves, StartReturns, StopReturns, Cancelled,
         DsEnds, BootDesktop, ResumeEnds, Crash, vars

\* The empty list has no element.
LEMMA NoneHas == \A x : ~ Has(<< >>, x)
  BY DEF Has

\* Every step keeps what resume is still to start noted.
LEMMA ItemsStep ==
  ASSUME TypeOK, PhaseInv, ItemsNoted, [Next]_vars
  PROVE  ItemsNoted'
<1> USE DEF opVars, histVars, crashVars, removalVars
<1>1. ASSUME todo' = << >>
      PROVE  ItemsNoted'
  BY <1>1, NoneHas DEF ItemsNoted
<1>2. ASSUME UNCHANGED todo, UNCHANGED settings
      PROVE  ItemsNoted'
  BY <1>2 DEF ItemsNoted
<1>3. CASE proc = "ready"
  <2>1. todo = << >>
    BY <1>3 DEF PhaseInv
  <2>2. todo' = << >>
    BY <1>3, <2>1, TodoFacts DEF Boot, ResumeNext
  <2>3. QED
    BY <1>1, <2>2
<1>4. CASE Operations \/ StartReturns \/ StopReturns \/ Cancelled
  <2>1. proc = "ready"
    BY <1>4, OperationKinds DEF Idle, PhaseInv, TypeOK, StartReturns, StopReturns, Cancelled
  <2>2. QED
    BY <1>3, <2>1
<1>5. CASE SaveBegins \/ Saves \/ DsEnds \/ ResumeEnds \/ UNCHANGED vars
  BY <1>2, <1>5 DEF SaveBegins, Saves, DsEnds, ResumeEnds, vars
<1>6. CASE BootDesktop
  BY <1>1, <1>6 DEF BootDesktop, PhaseInv
<1>7. CASE Crash
  BY <1>1, <1>7 DEF Crash
<1>8. CASE Boot
  <2>1. PICK t \in Settings : settings' = t /\ todo' = Restores(t)
    BY <1>8, BootFacts
  <2>2. \A x : Has(Restores(t), x) /\ x.what = "run" => Agrees(t, x.who, x.with)
    BY RestoresFacts DEF Agrees
  <2>3. QED
    BY <2>1, <2>2 DEF ItemsNoted
<1>9. CASE ResumeNext
  <2>1. PICK i : i = Head(todo)
    OBVIOUS
  <2>2. i \in Item /\ \A x : Has(todo, x) <=> x = i \/ Has(Tail(todo), x)
    BY <1>9, <2>1, TailHas DEF ResumeNext, TypeOK
  <2>3. todo' = Tail(todo)
    BY <1>9 DEF ResumeNext
  <2>4. \A x \in Item : x.what = "run" /\ Has(todo', x) => Agrees(settings, x.who, x.with)
    BY <2>2, <2>3 DEF ItemsNoted
  <2>5. CASE i.what = "run" /\ Runs(i.who, i.with)
    <3>1. i.who \in Components /\ i.with \in Args
      BY <2>2, <2>5, ItemFacts
    <3>2. \A k \in Components : \A a : Agrees(settings', k, a) <=>
            IF k = i.who THEN a = i.with ELSE Agrees(settings, k, a)
      BY <2>5, <3>1, RunsFacts
    <3>3. Agrees(settings, i.who, i.with)
      BY <2>2, <2>5 DEF ItemsNoted
    <3>4. \A k \in Components : \A a : Agrees(settings, k, a) => Agrees(settings', k, a)
      BY <3>2, <3>3 DEF Agrees
    <3>5. \A x \in Item : x.what = "run" => x.who \in Components
      BY ItemFacts
    <3>6. QED
      BY <2>4, <3>4, <3>5 DEF ItemsNoted
  <2>6. CASE i.what = "attach" /\ Attaches(i.who, i.with)
    <3>1. \A k, a : Agrees(settings', k, a) <=> Agrees(settings, k, a)
      BY <2>2, <2>6, ItemFacts, AttachesFacts
    <3>2. QED
      BY <2>4, <3>1 DEF ItemsNoted
  <2>7. CASE UNCHANGED settings
    BY <2>4, <2>7 DEF ItemsNoted
  <2>8. QED
    BY <1>9, <2>1, <2>5, <2>6, <2>7 DEF ResumeNext
<1>10. QED
  BY <1>4, <1>5, <1>6, <1>7, <1>8, <1>9 DEF Next

\* An item that is to run is the run of its component.
LEMMA RunItem ==
  ASSUME NEW x \in Item, x.what = "run"
  PROVE  x = RunOf(x.who, x.with) /\ x.who \in Components /\ x.with \in Args /\ x.with # None
<1>1. x \in [what : {"run"}, who : Components, with : Args]
  BY DEF Item
<1>2. QED
  BY <1>1, ControllerAssumption DEF RunOf

\* Every step keeps what a crash interrupted known.
LEMMA ExpectedStep ==
  ASSUME TypeOK, PhaseInv, Noted, ItemsNoted, ExpectedNoted, [Next]_vars
  PROVE  ExpectedNoted'
<1> USE DEF opVars, histVars, crashVars, removalVars
<1>1. ASSUME proc' = "ready", expected' = {}
      PROVE  ExpectedNoted'
  BY <1>1 DEF ExpectedNoted
<1>2. CASE Operations \/ StartReturns \/ StopReturns \/ Cancelled
  <2>1. proc = "ready" /\ expected = {}
    BY <1>2, OperationKinds DEF Idle, PhaseInv, TypeOK, StartReturns, StopReturns, Cancelled
  <2>2. proc' = "ready" /\ expected' = {}
    BY <1>2, <2>1 DEF Operations, Restart, ConnectAndLaunch, Start, Stop, DsStart, DsCommand,
                      AddInterface, RemoveInterface, StartReturns, StopReturns, Cancelled
  <2>3. QED
    BY <1>1, <2>2
<1>3. CASE BootDesktop \/ ResumeEnds
  BY <1>1, <1>3 DEF BootDesktop, ResumeEnds
<1>4. CASE SaveBegins
  <2>1. op' = "write" /\ UNCHANGED << proc, expected, torn, settings, running, todo >>
    BY <1>4 DEF SaveBegins
  <2>2. QED
    BY <2>1 DEF ExpectedNoted
<1>5. CASE Saves
  <2>1. /\ proc # "down"
        /\ file' = {settings}
        /\ UNCHANGED << proc, expected, torn, settings, running, todo >>
    BY <1>5 DEF Saves, PhaseInv
  <2>2. proc = "resuming" \/ expected = {}
    BY <2>1 DEF PhaseInv, TypeOK
  <2>3. ASSUME ~ torn, NEW x \in expected
        PROVE  /\ \E s \in file' : Agrees(s, x.who, x.with)
               /\ Agrees(settings, x.who, x.with)
               /\ running[x.who] = x.with \/ Has(todo, x)
    <3>1. Agrees(settings, x.who, x.with) /\ (running[x.who] = x.with \/ Has(todo, x))
      BY <2>2, <2>3 DEF ExpectedNoted
    <3>2. QED
      BY <2>1, <3>1
  <2>4. QED
    BY <2>1, <2>3 DEF ExpectedNoted
<1>6. CASE DsEnds
  <2>1. /\ expected' = {x \in expected : x.who # "ds"}
        /\ UNCHANGED << proc, op, torn, settings, file, todo >>
        /\ \A k \in Components : k # "ds" => running'[k] = running[k]
    BY <1>6 DEF DsEnds, TypeOK
  <2>2. \A x \in expected : x.who \in Components
    BY RunItem DEF TypeOK, ExpectedNoted
  <2>3. QED
    BY <2>1, <2>2 DEF ExpectedNoted
<1>7. CASE Boot
  <2>1. PICK s, t \in Settings :
           /\ s = Loaded(file)
           /\ t.flag = s.flag /\ t.args = s.args
           /\ settings' = t
           /\ todo' = Restores(t)
    BY <1>7, BootFacts
  <2>2. /\ proc = "down" /\ proc' = "resuming" /\ op = "none"
        /\ UNCHANGED << expected, torn, file >>
    BY <1>7 DEF Boot, PhaseInv
  <2>3. ASSUME ~ torn, NEW x \in expected
        PROVE  /\ \E f \in file : Agrees(f, x.who, x.with)
               /\ Agrees(t, x.who, x.with) /\ Has(Restores(t), x)
    <3>1. \E f \in file : Agrees(f, x.who, x.with)
      BY <2>2, <2>3 DEF ExpectedNoted
    <3>2. file # Unreadable
      BY <3>1 DEF Unreadable
    <3>3. file = {s}
      BY <2>1, <3>2, LoadedFacts DEF FileOK, TypeOK
    <3>4. x = RunOf(x.who, x.with) /\ x.who \in Components /\ x.with # None
      BY RunItem DEF TypeOK, ExpectedNoted
    <3>5. t.flag[x.who] /\ t.args[x.who] = x.with
      BY <2>1, <3>1, <3>3 DEF Agrees
    <3>6. Has(Restores(t), RunOf(x.who, x.with))
      BY <3>4, <3>5, RestoresFacts
    <3>7. QED
      BY <3>1, <3>4, <3>5, <3>6 DEF Agrees
  <2>4. QED
    BY <2>1, <2>2, <2>3 DEF ExpectedNoted
<1>8. CASE ResumeNext
  <2>1. PICK i : i = Head(todo)
    OBVIOUS
  <2>2. i \in Item /\ \A x : Has(todo, x) <=> x = i \/ Has(Tail(todo), x)
    BY <1>8, <2>1, TailHas DEF ResumeNext, TypeOK
  <2>3. todo' = Tail(todo) /\ proc = "resuming" /\ op = "none" /\ UNCHANGED << proc, file, torn >>
    BY <1>8 DEF ResumeNext
  <2>4. \A x \in expected : x.what = "run" /\ x.who \in Components
    BY RunItem DEF TypeOK, ExpectedNoted
  <2>5. ~ torn => \A x \in expected : /\ \E s \in file : Agrees(s, x.who, x.with)
                                      /\ Agrees(settings, x.who, x.with)
                                      /\ running[x.who] = x.with \/ Has(todo', x) \/ x = i
    BY <2>2, <2>3 DEF ExpectedNoted
  <2>6. CASE i.what = "run" /\ Runs(i.who, i.with) /\ UNCHANGED expected
    <3>1. i.who \in Components /\ i.with \in Args
      BY <2>2, <2>6, ItemFacts
    <3>2. /\ \A k \in Components : running'[k] = IF k = i.who THEN i.with ELSE running[k]
          /\ \A k \in Components : \A a : Agrees(settings', k, a) <=>
               IF k = i.who THEN a = i.with ELSE Agrees(settings, k, a)
      BY <2>6, <3>1, RunsFacts
    <3>3. Agrees(settings, i.who, i.with)
      BY <2>2, <2>6 DEF ItemsNoted
    <3>4. ASSUME ~ torn, NEW x \in expected, x.who = i.who
          PROVE  x.with = i.with
      <4>1. settings.args[x.who] = x.with
        BY <2>5, <3>4 DEF Agrees
      <4>2. settings.args[i.who] = i.with
        BY <3>3 DEF Agrees
      <4>3. QED
        BY <3>4, <4>1, <4>2
    <3>5. ~ torn => \A x \in expected : /\ Agrees(settings', x.who, x.with)
                                        /\ running'[x.who] = x.with \/ Has(todo', x)
      BY <2>4, <2>5, <3>2, <3>4
    <3>6. QED
      BY <2>3, <2>4, <2>5, <2>6, <3>5 DEF ExpectedNoted
  <2>7. CASE i.what = "attach" /\ Attaches(i.who, i.with) /\ UNCHANGED expected
    <3>1. UNCHANGED running /\ \A k, a : Agrees(settings', k, a) <=> Agrees(settings, k, a)
      BY <2>2, <2>7, ItemFacts, AttachesFacts
    <3>2. \A x \in expected : x # i
      BY <2>4, <2>7
    <3>3. QED
      BY <2>3, <2>4, <2>5, <2>7, <3>1, <3>2 DEF ExpectedNoted
  <2>8. CASE expected' = expected \ {i} /\ UNCHANGED << opVars, running, attached, settings >>
    BY <2>3, <2>4, <2>5, <2>8 DEF ExpectedNoted
  <2>9. QED
    BY <1>8, <2>1, <2>6, <2>7, <2>8 DEF ResumeNext
<1>9. CASE Crash
  <2>1. UNCHANGED file /\ proc' = "down" /\ torn' = (torn \/ op = "write")
    BY <1>9 DEF Crash
  <2>2. ASSUME NEW x \in expected'
        PROVE  x.what = "run" /\ (~ torn' => \E s \in file : Agrees(s, x.who, x.with))
    <3>1. CASE x \in expected
      BY <2>1, <3>1 DEF ExpectedNoted
    <3>2. CASE x \in Item /\ x.what = "run" /\ x.who # subj /\ running[x.who] = x.with
      <4>1. x.who \in Components /\ x.with # None
        BY <3>2, RunItem
      <4>2. QED
        BY <2>1, <3>2, <4>1 DEF Noted
    <3>3. QED
      BY <1>9, <2>2, <3>1, <3>2 DEF Crash
  <2>3. QED
    BY <2>1, <2>2 DEF ExpectedNoted
<1>10. CASE UNCHANGED vars
  BY <1>10 DEF vars, ExpectedNoted
<1>11. QED
  BY <1>2, <1>3, <1>4, <1>5, <1>6, <1>7, <1>8, <1>9, <1>10 DEF Next

\* At the start nothing runs and nothing is expected.
LEMMA InitNoted == Init => Noted /\ ItemsNoted /\ ExpectedNoted
<1> SUFFICES ASSUME Init
             PROVE  Noted /\ ItemsNoted /\ ExpectedNoted
  OBVIOUS
<1>1. Noted
  BY DefaultsFacts DEF Init, Noted
<1>2. ItemsNoted
  BY NoneHas DEF Init, ItemsNoted
<1>3. ExpectedNoted
  BY DEF Init, ExpectedNoted
<1>4. QED
  BY <1>1, <1>2, <1>3

\* What a crash interrupted runs again when resume is through, or was reported
\* or had ended, however often the process went down, resume included; but for
\* the component an operation was just starting or stopping, and unless it went
\* down between the truncation of settings.json and its write.
THEOREM CrashSurvived == Spec => []RunningSurvivesCrash
<1> DEFINE IInv == TypeOK /\ PhaseInv /\ Noted /\ ItemsNoted /\ ExpectedNoted
<1>1. Init => IInv
  BY InitType, InitPhase, InitNoted
<1>2. IInv /\ [Next]_vars => IInv'
  BY TypeStep, PhaseStep, NotedStep, ItemsStep, ExpectedStep
<1>3. IInv => RunningSurvivesCrash
  BY NoneHas DEF ExpectedNoted, RunningSurvivesCrash
<1>4. QED
  BY <1>1, <1>2, <1>3, PTL DEF Spec
-----------------------------------------------------------------------------
\* What was stopped is noted as stopped; in the file too, unless that is still
\* to be saved.  Resume has it not to start, and no operation is about to.
StoppedNoted ==
  \A c \in stopped :
    /\ running[c] = None
    /\ ~ settings.flag[c]
    /\ \A x \in Item : x.what = "run" /\ x.who = c => ~ Has(todo, x)
    /\ \A s \in file : ~ s.flag[c] \/ (op = "save" /\ subj = c)
    /\ op # "none" /\ subj = c => op \in {"save", "write"} /\ next = None

\* A component begins to run that is not counted as stopped.
LEMMA StoppedWhenRun ==
  ASSUME TypeOK, StoppedNoted, NEW c \in Components, NEW args \in Args, Runs(c, args),
         op # "save", UNCHANGED file, stopped' \subseteq stopped, c \notin stopped',
         \A x : Has(todo', x) => Has(todo, x)
  PROVE  StoppedNoted'
<1>1. /\ \A k \in Components : running'[k] = IF k = c THEN args ELSE running[k]
      /\ op' = "save" /\ subj' = c
  BY RunsFacts
<1>2. \A k \in Components : k # c => settings'.flag[k] = settings.flag[k]
  <2>1. settings' = [settings EXCEPT !.flag[c] = TRUE, !.args[c] = args] /\ settings \in Settings
    BY DEF Runs, TypeOK
  <2>2. QED
    BY <2>1 DEF Settings
<1>3. \A k \in stopped' : k \in stopped /\ k \in Components /\ k # c
  BY DEF TypeOK
<1>4. QED
  BY <1>1, <1>2, <1>3 DEF StoppedNoted

\* An operation begins or ends that is about none of the stopped components.
LEMMA StoppedWhenOther ==
  ASSUME StoppedNoted, UNCHANGED << settings, file, todo >>, stopped' \subseteq stopped,
         \A c \in stopped' : running'[c] = None,
         op # "save", op' = "none" \/ subj' \notin stopped'
  PROVE  StoppedNoted'
  BY DEF StoppedNoted

\* Every step keeps what was stopped noted.
LEMMA StoppedStep ==
  ASSUME TypeOK, PhaseInv, StoppedNoted, [Next]_vars
  PROVE  StoppedNoted'
<1> USE DEF opVars, histVars, crashVars, removalVars
<1>1. CASE Operations
  <2>1. op = "none" /\ proc = "ready" /\ todo = << >>
    BY <1>1, OperationKinds DEF Idle, PhaseInv
  <2>2. ASSUME NEW c \in Components, NEW then \in Args \cup {None}, Stop(c, then)
        PROVE  StoppedNoted'
    <3>1. \A k \in Components : running'[k] = IF k = c THEN None ELSE running[k]
      BY <2>2 DEF Stop, TypeOK
    <3>2. \A k \in stopped' : running'[k] = None
      BY <2>2, <3>1 DEF Stop, StoppedNoted, TypeOK
    <3>3. QED
      BY <2>1, <2>2, <3>2, StoppedWhenOther DEF Stop
  <2>3. ASSUME NEW c \in Roles, NEW args \in Args, Start(c, args)
        PROVE  StoppedNoted'
    <3>1. \A k \in stopped' : running'[k] = None
      BY <2>3 DEF Start, StoppedNoted
    <3>2. QED
      BY <2>1, <2>3, <3>1, StoppedWhenOther DEF Start
  <2>4. ASSUME NEW args \in Args, DsStart(args) \/ DsCommand(args)
        PROVE  StoppedNoted'
    <3>1. Runs("ds", args) /\ UNCHANGED << file, todo >> /\ "ds" \in Components
      BY <2>4 DEF DsStart, DsCommand, Components
    <3>2. stopped' \subseteq stopped /\ "ds" \notin stopped'
      BY <2>4 DEF DsStart, DsCommand, StoppedNoted
    <3>3. QED
      BY <2>1, <3>1, <3>2, StoppedWhenRun
  <2>5. ASSUME UNCHANGED << running, file, todo, stopped, next >>, op' = "save",
               settings'.flag = settings.flag
        PROVE  StoppedNoted'
    <3>1. next' = None
      BY <2>1, <2>5 DEF PhaseInv
    <3>2. QED
      BY <2>1, <2>5, <3>1 DEF StoppedNoted
  <2>6. ASSUME NEW r \in Roles, NEW e \in Ends, AddInterface(r, e)
        PROVE  StoppedNoted'
    <3>1. settings'.flag = settings.flag
      BY <2>6, AttachesType DEF AddInterface
    <3>2. QED
      BY <2>5, <2>6, <3>1 DEF AddInterface, Attaches
  <2>7. ASSUME NEW e \in Ends, RemoveInterface(e)
        PROVE  StoppedNoted'
    <3>1. settings'.flag = settings.flag
      BY <2>7, RemovesFacts
    <3>2. QED
      BY <2>5, <2>7, <3>1 DEF RemoveInterface
  <2>8. QED
    BY <1>1, <2>2, <2>3, <2>4, <2>6, <2>7, OperationKinds
<1>2. CASE SaveBegins
  BY <1>2 DEF SaveBegins, StoppedNoted, Unreadable
<1>3. CASE Saves
  BY <1>3 DEF Saves, OpEnds, StoppedNoted
<1>4. CASE StartReturns
  <2>1. op = "starting" /\ subj \in Components /\ next \in Args /\ UNCHANGED << file, todo, stopped >>
    BY <1>4 DEF StartReturns, PhaseInv, TypeOK
  <2>2. subj \notin stopped
    BY <2>1 DEF StoppedNoted
  <2>3. CASE Runs(subj, next)
    BY <2>1, <2>2, <2>3, StoppedWhenRun
  <2>4. CASE OpEnds /\ UNCHANGED << running, settings >>
    BY <2>1, <2>4 DEF OpEnds, StoppedNoted
  <2>5. QED
    BY <1>4, <2>3, <2>4 DEF StartReturns
<1>5. CASE StopReturns
  <2>1. /\ subj \in Components /\ running[subj] = None /\ op = "stopping"
        /\ todo = << >>
    BY <1>5 DEF StopReturns, PhaseInv, TypeOK
  <2>2. /\ op' = "save"
        /\ UNCHANGED << running, file, todo, subj, next >>
        /\ stopped' = IF next = None THEN stopped \cup {subj} ELSE stopped
    BY <1>5 DEF StopReturns
  <2>3. \A k \in Components : settings'.flag[k] = IF k = subj THEN FALSE ELSE settings.flag[k]
    BY <1>5, <2>1, StopReturnsFacts
  <2>4. ASSUME NEW c \in stopped'
        PROVE  /\ c \in Components
               /\ c \in stopped \/ (c = subj /\ next = None)
    BY <2>1, <2>2 DEF TypeOK
  <2>5. \A c \in stopped : c # subj
    BY <2>1 DEF StoppedNoted
  <2>6. QED
    BY <2>1, <2>2, <2>3, <2>4, <2>5, NoneHas DEF StoppedNoted
<1>6. CASE Cancelled
  BY <1>6 DEF Cancelled, OpEnds, StoppedNoted
<1>7. CASE DsEnds
  <2>1. \A k \in Components : running'[k] = IF k = "ds" THEN None ELSE running[k]
    BY <1>7 DEF DsEnds, TypeOK
  <2>2. UNCHANGED << settings, file, op, subj, next, todo, stopped >>
    BY <1>7 DEF DsEnds
  <2>3. QED
    BY <2>1, <2>2 DEF StoppedNoted, TypeOK
<1>8. CASE Boot \/ BootDesktop
  <2>1. op = "none" /\ UNCHANGED << running, file, subj, next, stopped >>
    BY <1>8 DEF Boot, BootDesktop, PhaseInv
  <2>2. op' \in {"none", "save"} /\ next' = None
    BY <1>8, <2>1 DEF Boot, BootDesktop, PhaseInv
  <2>3. \A c \in stopped : ~ Loaded(file).flag[c]
    BY <2>1, LoadedFacts, DefaultsFacts DEF StoppedNoted, FileOK, TypeOK
  <2>4. CASE Boot
    <3>1. PICK s, t \in Settings :
             /\ s = Loaded(file)
             /\ t.flag = s.flag
             /\ settings' = t
             /\ todo' = Restores(t)
      BY <2>4, BootFacts
    <3>2. \A c \in stopped : ~ t.flag[c]
      BY <2>3, <3>1
    <3>3. \A x : Has(Restores(t), x) /\ x.what = "run" => t.flag[x.who]
      BY RestoresFacts
    <3>4. QED
      BY <2>1, <2>2, <3>1, <3>2, <3>3 DEF StoppedNoted
  <2>5. CASE BootDesktop
    BY <2>1, <2>2, <2>3, <2>5 DEF BootDesktop, StoppedNoted
  <2>6. QED
    BY <1>8, <2>4, <2>5
<1>9. CASE ResumeNext
  <2>1. PICK i : i = Head(todo)
    OBVIOUS
  <2>2. i \in Item /\ \A x : Has(todo, x) <=> x = i \/ Has(Tail(todo), x)
    BY <1>9, <2>1, TailHas DEF ResumeNext, TypeOK
  <2>3. op = "none" /\ next = None /\ todo' = Tail(todo) /\ UNCHANGED << file, stopped >>
    BY <1>9 DEF ResumeNext, PhaseInv
  <2>4. CASE i.what = "run" /\ Runs(i.who, i.with)
    <3>1. i.who \notin stopped
      BY <2>2, <2>4 DEF StoppedNoted
    <3>2. i.who \in Components /\ i.with \in Args
      BY <2>2, <2>4, ItemFacts
    <3>3. QED
      BY <2>2, <2>3, <2>4, <3>1, <3>2, StoppedWhenRun
  <2>5. CASE i.what = "attach" /\ Attaches(i.who, i.with)
    <3>1. settings'.flag = settings.flag /\ op' = "save" /\ UNCHANGED << subj, next, running >>
      BY <2>2, <2>5, ItemFacts, AttachesType
    <3>2. QED
      BY <2>2, <2>3, <3>1 DEF StoppedNoted
  <2>6. CASE UNCHANGED << opVars, running, attached, settings >>
    BY <2>2, <2>3, <2>6 DEF StoppedNoted
  <2>7. QED
    BY <1>9, <2>1, <2>4, <2>5, <2>6 DEF ResumeNext
<1>10. CASE ResumeEnds
  BY <1>10 DEF ResumeEnds, StoppedNoted
<1>11. CASE Crash
  <2>1. /\ op' = "none" /\ todo' = << >> /\ running' = Nothing /\ settings' = Defaults
        /\ stopped' = stopped \ {subj} /\ UNCHANGED file
    BY <1>11 DEF Crash
  <2>2. \A c \in stopped' : c \in Components /\ c \in stopped /\ c # subj
    BY <2>1 DEF TypeOK
  <2>3. QED
    BY <2>1, <2>2, DefaultsFacts, NoneHas DEF StoppedNoted
<1>12. CASE UNCHANGED vars
  BY <1>12 DEF vars, StoppedNoted
<1>13. QED
  BY <1>1, <1>2, <1>3, <1>4, <1>5, <1>6, <1>7, <1>8, <1>9, <1>10, <1>11, <1>12 DEF Next

\* A component whose stop has returned is down until it is started again,
\* whatever is saved, cancelled, restored or interrupted meanwhile.
THEOREM StopKept == Spec => []StopIsDurable
<1> DEFINE IInv == TypeOK /\ PhaseInv /\ StoppedNoted
<1>1. Init => IInv
  <2>1. Init => StoppedNoted
    BY DEF Init, StoppedNoted
  <2>2. QED
    BY <2>1, InitType, InitPhase
<1>2. IInv /\ [Next]_vars => IInv'
  BY TypeStep, PhaseStep, StoppedStep
<1>3. IInv => StopIsDurable
  BY DEF StoppedNoted, StopIsDurable
<1>4. QED
  BY <1>1, <1>2, <1>3, PTL DEF Spec
-----------------------------------------------------------------------------
\* In the web panel the list of interfaces has no duplicates.
SavedOnce == shell = "web" => Unique(settings.interfaces)

\* The list of interfaces is what only these steps change.
LEMMA InterfacesKept ==
  ASSUME TypeOK, PhaseInv, [Next]_vars
  PROVE  \/ settings'.interfaces = settings.interfaces
         \/ Boot \/ BootDesktop \/ Crash
         \/ \E r \in Roles, e \in Ends : Attaches(r, e)
         \/ \E e \in Ends : RemoveInterface(e)
<1> USE DEF opVars, histVars, crashVars, removalVars
<1>1. CASE Operations
  <2>1. ASSUME NEW args \in Args, DsStart(args) \/ DsCommand(args)
        PROVE  settings'.interfaces = settings.interfaces
    BY <2>1, ControllerAssumption, RunsType DEF DsStart, DsCommand, Components
  <2>2. ASSUME NEW c \in Components, NEW then \in Args \cup {None}, Stop(c, then)
        PROVE  settings'.interfaces = settings.interfaces
    BY <2>2 DEF Stop
  <2>3. ASSUME NEW c \in Roles, NEW args \in Args, Start(c, args)
        PROVE  settings'.interfaces = settings.interfaces
    BY <2>3 DEF Start
  <2>4. QED
    BY <1>1, <2>1, <2>2, <2>3, OperationKinds DEF AddInterface
<1>2. CASE StartReturns
  <2>1. subj \in Components /\ next \in Args /\ next # None
    BY <1>2 DEF StartReturns, PhaseInv, TypeOK
  <2>2. CASE Runs(subj, next)
    BY <2>1, <2>2, RunsType
  <2>3. CASE UNCHANGED << running, settings >>
    BY <2>3
  <2>4. QED
    BY <1>2, <2>2, <2>3 DEF StartReturns
<1>3. CASE StopReturns
  BY <1>3, StopReturnsFacts DEF PhaseInv, StopReturns
<1>4. CASE ResumeNext
  <2>1. PICK i : i = Head(todo)
    OBVIOUS
  <2>2. i \in Item
    BY <1>4, <2>1, TailHas DEF ResumeNext, TypeOK
  <2>3. CASE i.what = "run" /\ Runs(i.who, i.with)
    BY <2>2, <2>3, ItemFacts, RunsType
  <2>4. CASE i.what = "attach" /\ Attaches(i.who, i.with)
    BY <2>2, <2>4, ItemFacts
  <2>5. CASE UNCHANGED settings
    BY <2>5
  <2>6. QED
    BY <1>4, <2>1, <2>3, <2>4, <2>5 DEF ResumeNext
<1>5. CASE SaveBegins \/ Saves \/ Cancelled \/ DsEnds \/ ResumeEnds \/ UNCHANGED vars
  BY <1>5 DEF SaveBegins, Saves, Cancelled, DsEnds, ResumeEnds, vars
<1>6. QED
  BY <1>1, <1>2, <1>3, <1>4, <1>5 DEF Next

\* Every step keeps the list without duplicates.
LEMMA SavedOnceStep ==
  ASSUME TypeOK, PhaseInv, SavedOnce, [Next]_vars
  PROVE  SavedOnce'
<1>1. shell' = shell
  BY DEF Next, Operations, Restart, ConnectAndLaunch, Start, Stop, DsStart, DsCommand,
         AddInterface, RemoveInterface, SaveBegins, Saves, StartReturns, StopReturns, Cancelled,
         DsEnds, Boot, BootDesktop, ResumeNext, ResumeEnds, Crash, vars
<1> SUFFICES ASSUME shell = "web"
             PROVE  Unique(settings'.interfaces)
  BY <1>1 DEF SavedOnce, Unique
<1>2. PICK list : list = settings.interfaces
  OBVIOUS
<1>3. list \in Seq(Descriptor) /\ Unique(list)
  BY <1>2, SettingsFacts DEF TypeOK, SavedOnce
<1>4. CASE settings'.interfaces = settings.interfaces
  BY <1>2, <1>3, <1>4
<1>5. CASE Boot
  <2>1. PICK s, t \in Settings : t.interfaces = Deduped(s.interfaces) /\ settings' = t
    BY <1>5, BootFacts
  <2>2. Unique(t.interfaces)
    BY <2>1, SettingsFacts, DedupedFacts
  <2>3. QED
    BY <2>1, <2>2
<1>6. ~ BootDesktop
  BY DEF BootDesktop
<1>7. CASE Crash
  <2>1. settings'.interfaces = << >>
    BY <1>7, DefaultsFacts DEF Crash
  <2>2. QED
    BY <2>1 DEF Unique
<1>8. ASSUME NEW r \in Roles, NEW e \in Ends, Attaches(r, e)
      PROVE  Unique(settings'.interfaces)
  <2>1. PICK b \in BOOLEAN : settings'.interfaces = Recorded(list, [role |-> r, end |-> e, id |-> b])
    BY <1>2, <1>8, AttachesType
  <2>2. PICK d \in Descriptor : d = [role |-> r, end |-> e, id |-> b]
    BY DEF Descriptor
  <2>3. Unique(Recorded(list, d))
    BY <1>3, RecordedFacts
  <2>4. QED
    BY <2>1, <2>2, <2>3
<1>9. ASSUME NEW e \in Ends, RemoveInterface(e)
      PROVE  Unique(settings'.interfaces)
  <2>1. settings'.interfaces = Retained(list, e)
    BY <1>2, <1>9, RemovesFacts
  <2>2. Unique(Retained(list, e))
    BY <1>3, RetainedFacts
  <2>3. QED
    BY <2>1, <2>2
<1>10. QED
  BY <1>4, <1>5, <1>6, <1>7, <1>8, <1>9, InterfacesKept

\* The web panel saves no endpoint of a role twice, however often it is
\* attached, restored, or found twice in the file.
THEOREM SavedOnlyOnce == Spec => []InterfacesSavedOnce
<1> DEFINE IInv == TypeOK /\ PhaseInv /\ SavedOnce
<1>1. Init => IInv
  <2>1. Init => SavedOnce
    BY DefaultsFacts DEF Init, SavedOnce, Unique
  <2>2. QED
    BY <2>1, InitType, InitPhase
<1>2. IInv /\ [Next]_vars => IInv'
  BY TypeStep, PhaseStep, SavedOnceStep
<1>3. IInv => InterfacesSavedOnce
  BY DEF SavedOnce, Unique, InterfacesSavedOnce
<1>4. QED
  BY <1>1, <1>2, <1>3, PTL DEF Spec
-----------------------------------------------------------------------------
\* What was removed, and had an id, is neither attached nor in the list nor in
\* the file, and resume has it not to attach; an interface whose removal is
\* still to be saved is not attached nor in the list either.
RemovedGone ==
  /\ \A pair \in (removed \cup removing) \ idless :
       /\ pair[2] \notin attached[pair[1]]
       /\ ~ Lists(settings.interfaces, pair[1], pair[2])
  /\ \A pair \in removed \ idless :
       /\ \A s \in file : ~ Lists(s.interfaces, pair[1], pair[2])
       /\ \A x \in Item : x.what = "attach" /\ x.who = pair[1] /\ x.with = pair[2] => ~ Has(todo, x)
  /\ removing # {} => op \in {"save", "write"} /\ todo = << >>

\* A step that attaches nothing and leaves the list and the file alone.
LEMMA GoneWhenKept ==
  ASSUME TypeOK, RemovedGone, op \notin {"save", "write"},
         settings'.interfaces = settings.interfaces,
         \A r \in Roles : attached'[r] \subseteq attached[r],
         UNCHANGED << file, removalVars >>, \A x : Has(todo', x) => Has(todo, x)
  PROVE  RemovedGone'
<1>1. \A pair \in removed : pair[1] \in Roles
  BY DEF TypeOK
<1>2. removing = {}
  BY DEF RemovedGone
<1>3. QED
  BY <1>1, <1>2 DEF RemovedGone, removalVars

\* An interface is attached that does not count as removed.
LEMMA GoneWhenAttached ==
  ASSUME TypeOK, RemovedGone, NEW r \in Roles, NEW e \in Ends, Attaches(r, e),
         op \notin {"save", "write"}, UNCHANGED removing,
         removed' \ idless' \subseteq removed \ idless, << r, e >> \notin removed' \ idless',
         UNCHANGED file, \A x : Has(todo', x) => Has(todo, x)
  PROVE  RemovedGone'
<1>1. PICK b \in BOOLEAN :
        settings'.interfaces = Recorded(settings.interfaces, [role |-> r, end |-> e, id |-> b])
  BY AttachesType
<1>2. PICK d \in Descriptor : d = [role |-> r, end |-> e, id |-> b]
  BY DEF Descriptor
<1>3. \A role, end : Lists(settings'.interfaces, role, end) =>
        Lists(settings.interfaces, role, end) \/ (r = role /\ e = end)
  <2>1. settings.interfaces \in Seq(Descriptor)
    BY SettingsFacts DEF TypeOK
  <2>2. \A role, end : Lists(Recorded(settings.interfaces, d), role, end) =>
          Lists(settings.interfaces, role, end) \/ (d.role = role /\ d.end = end)
    BY <2>1, RecordedFacts
  <2>3. d.role = r /\ d.end = e
    BY <1>2
  <2>4. QED
    BY <1>1, <1>2, <2>2, <2>3
<1>4. \A k \in Roles : attached'[k] = IF k = r THEN attached[k] \cup {e} ELSE attached[k]
  BY DEF Attaches, TypeOK
<1>5. ASSUME NEW pair \in removed' \ idless'
      PROVE  pair \in removed \ idless /\ pair[1] \in Roles /\ ~ (pair[1] = r /\ pair[2] = e)
  <2>1. pair \in Roles \X Ends /\ pair \in removed \ idless
    BY DEF TypeOK
  <2>2. pair = << pair[1], pair[2] >> /\ pair[1] \in Roles
    BY <2>1
  <2>3. QED
    BY <2>1, <2>2
<1>6. removing' = {} /\ (removed \cup removing)' \ idless' = removed' \ idless'
  BY DEF RemovedGone
<1>7. ASSUME NEW pair \in removed' \ idless'
      PROVE  pair[2] \notin attached'[pair[1]] /\ ~ Lists(settings'.interfaces, pair[1], pair[2])
  <2>1. pair[2] \notin attached[pair[1]] /\ ~ Lists(settings.interfaces, pair[1], pair[2])
    BY <1>5 DEF RemovedGone
  <2>2. ~ Lists(settings'.interfaces, pair[1], pair[2])
    BY <1>3, <1>5, <2>1
  <2>3. pair[2] \notin attached'[pair[1]]
    BY <1>4, <1>5, <2>1
  <2>4. QED
    BY <2>2, <2>3
<1>8. ASSUME NEW pair \in removed' \ idless'
      PROVE  /\ \A s \in file' : ~ Lists(s.interfaces, pair[1], pair[2])
             /\ \A x \in Item : x.what = "attach" /\ x.who = pair[1] /\ x.with = pair[2] => ~ Has(todo', x)
  BY <1>5 DEF RemovedGone
<1>9. QED
  BY <1>6, <1>7, <1>8 DEF RemovedGone

\* A removal.
LEMMA GoneWhenRemoved ==
  ASSUME TypeOK, PhaseInv, RemovedGone, NEW e \in Ends, RemoveInterface(e)
  PROVE  RemovedGone'
<1>1. PICK r \in Roles :
        /\ attached' = [attached EXCEPT ![r] = @ \ {e}]
        /\ removing' = {<< r, e >>}
        /\ idless' = IF WithoutId(r, e) THEN idless \cup {<< r, e >>} ELSE idless
  BY DEF RemoveInterface
<1>2. op' = "save" /\ todo' = << >> /\ UNCHANGED << file, removed >>
  BY DEF RemoveInterface, Idle, PhaseInv
<1>3. PICK list \in Seq(Descriptor) : list = settings.interfaces
  BY SettingsFacts DEF TypeOK
<1>4. PICK kept \in Seq(Descriptor) :
        /\ kept = settings'.interfaces
        /\ \A i \in 1..Len(kept) :
             \E j \in 1..Len(list) : kept[i] = list[j] /\ ~ (list[j].id /\ list[j].end = e)
  <2>1. settings'.interfaces = Retained(list, e)
    BY <1>3, RemovesFacts
  <2> DEFINE new == Retained(list, e)
  <2>2. /\ new \in Seq(Descriptor)
        /\ \A i \in 1..Len(new) :
             \E j \in 1..Len(list) : new[i] = list[j] /\ ~ (list[j].id /\ list[j].end = e)
    BY RetainedFacts
  <2> HIDE DEF new
  <2>3. QED
    BY <2>1, <2>2 DEF new
<1>5. \A role, end : Lists(kept, role, end) => Lists(list, role, end)
  BY <1>4 DEF Lists
<1>6. ASSUME ~ WithoutId(r, e)
      PROVE  ~ Lists(kept, r, e)
  <2> SUFFICES ASSUME Lists(kept, r, e)
               PROVE  FALSE
    OBVIOUS
  <2>1. PICK i \in 1..Len(kept) : kept[i].role = r /\ kept[i].end = e
    BY DEF Lists
  <2>2. PICK j \in 1..Len(list) : kept[i] = list[j] /\ ~ (list[j].id /\ list[j].end = e)
    BY <1>4, <2>1
  <2>3. PICK d \in Descriptor : d = list[j]
    BY <1>3
  <2>4. d.role = r /\ d.end = e /\ ~ d.id
    BY <2>1, <2>2, <2>3
  <2>5. PICK ro \in Roles, en \in Ends, b \in BOOLEAN : d = [role |-> ro, end |-> en, id |-> b]
    BY <2>3 DEF Descriptor
  <2>6. ro = r /\ en = e /\ b = FALSE
    BY <2>4, <2>5
  <2>7. d = [role |-> r, end |-> e, id |-> FALSE]
    BY <2>5, <2>6
  <2>8. WithoutId(r, e)
    BY <1>3, <2>3, <2>7 DEF WithoutId
  <2>9. QED
    BY <1>6, <2>8
<1>7. ASSUME NEW pair \in (removed' \cup removing') \ idless'
      PROVE  pair[2] \notin attached'[pair[1]] /\ ~ Lists(kept, pair[1], pair[2])
  <2>1. CASE pair \in removed \ idless
    <3>1. pair[1] \in Roles /\ pair[2] \notin attached[pair[1]] /\ ~ Lists(list, pair[1], pair[2])
      BY <1>3, <2>1 DEF RemovedGone, TypeOK
    <3>2. attached'[pair[1]] \subseteq attached[pair[1]]
      BY <1>1, <3>1 DEF TypeOK
    <3>3. QED
      BY <1>5, <3>1, <3>2
  <2>2. CASE pair \notin removed \ idless
    <3>1. pair = << r, e >> /\ ~ WithoutId(r, e)
      BY <1>1, <1>2, <1>7, <2>2
    <3>2. pair[1] = r /\ pair[2] = e
      BY <3>1
    <3>3. e \notin attached'[r]
      BY <1>1 DEF TypeOK
    <3>4. QED
      BY <1>6, <3>1, <3>2, <3>3
  <2>3. QED
    BY <2>1, <2>2
<1>8. removed' \ idless' \subseteq removed \ idless
  BY <1>1, <1>2
<1>9. QED
  BY <1>2, <1>4, <1>7, <1>8, NoneHas DEF RemovedGone

\* Every step keeps what was removed gone.
LEMMA RemovedStep ==
  ASSUME TypeOK, PhaseInv, RemovedGone, [Next]_vars
  PROVE  RemovedGone'
<1> USE DEF opVars, histVars, crashVars, removalVars
<1>1. CASE Operations
  <2>1. op = "none" /\ proc = "ready" /\ todo = << >>
    BY <1>1, OperationKinds DEF Idle, PhaseInv
  <2>2. ASSUME NEW c \in Components, NEW then \in Args \cup {None}, Stop(c, then)
        PROVE  RemovedGone'
    <3>1. \A r \in Roles : attached'[r] \subseteq attached[r]
      BY <2>2 DEF Stop
    <3>2. UNCHANGED << settings, file, todo, removalVars >>
      BY <2>2 DEF Stop
    <3>3. QED
      BY <2>1, <3>1, <3>2, GoneWhenKept
  <2>3. ASSUME NEW c \in Roles, NEW args \in Args, Start(c, args)
        PROVE  RemovedGone'
    <3>1. UNCHANGED << attached, settings, file, todo, removalVars >>
      BY <2>3 DEF Start
    <3>2. QED
      BY <2>1, <3>1, GoneWhenKept
  <2>4. ASSUME NEW args \in Args, DsStart(args) \/ DsCommand(args)
        PROVE  RemovedGone'
    <3>1. Runs("ds", args) /\ "ds" \in Components /\ args # None
      BY <2>4, ControllerAssumption DEF DsStart, DsCommand, Components
    <3>2. settings'.interfaces = settings.interfaces
      BY <3>1, RunsType
    <3>3. UNCHANGED << attached, file, todo, removalVars >>
      BY <2>4 DEF DsStart, DsCommand
    <3>4. QED
      BY <2>1, <3>2, <3>3, GoneWhenKept
  <2>5. ASSUME NEW r \in Roles, NEW e \in Ends, AddInterface(r, e)
        PROVE  RemovedGone'
    <3>1. Attaches(r, e) /\ UNCHANGED << removing, file, todo >>
      BY <2>5 DEF AddInterface
    <3>2. removed' \ idless' = (removed \ idless) \ {<< r, e >>}
      BY <2>5 DEF AddInterface
    <3>3. QED
      BY <2>1, <3>1, <3>2, GoneWhenAttached
  <2>6. QED
    BY <1>1, <2>2, <2>3, <2>4, <2>5, GoneWhenRemoved, OperationKinds
<1>2. CASE SaveBegins
  BY <1>2 DEF SaveBegins, RemovedGone, Unreadable
<1>3. CASE Saves
  <2>1. /\ file' = {settings} /\ removed' = removed \cup removing /\ removing' = {}
        /\ UNCHANGED << attached, settings, todo, idless >>
    BY <1>3 DEF Saves
  <2>2. removing = {} \/ todo = << >>
    BY DEF RemovedGone
  <2>3. QED
    BY <2>1, <2>2, NoneHas DEF RemovedGone
<1>4. CASE StartReturns
  <2>1. /\ subj \in Components /\ next \in Args /\ next # None /\ op = "starting"
        /\ UNCHANGED << attached, file, todo, removalVars >>
    BY <1>4 DEF StartReturns, PhaseInv, TypeOK
  <2>2. settings'.interfaces = settings.interfaces
    BY <1>4, <2>1, RunsType DEF StartReturns
  <2>3. QED
    BY <2>1, <2>2, GoneWhenKept
<1>5. CASE StopReturns
  <2>1. op = "stopping" /\ subj \in Components /\ UNCHANGED << attached, file, todo, removalVars >>
    BY <1>5 DEF StopReturns, PhaseInv
  <2>2. settings'.interfaces = settings.interfaces
    BY <1>5, <2>1, StopReturnsFacts
  <2>3. QED
    BY <2>1, <2>2, GoneWhenKept
<1>6. CASE Cancelled
  <2>1. op \in {"starting", "stopping"} /\ UNCHANGED << attached, settings, file, todo, removalVars >>
    BY <1>6 DEF Cancelled
  <2>2. QED
    BY <2>1, GoneWhenKept
<1>7. CASE DsEnds
  BY <1>7 DEF DsEnds, RemovedGone
<1>8. CASE Boot \/ BootDesktop
  <2>1. op = "none" /\ UNCHANGED << attached, file, removalVars >>
    BY <1>8 DEF Boot, BootDesktop, PhaseInv
  <2>2. removing = {}
    BY <2>1 DEF RemovedGone
  <2>3. \A pair \in removed \ idless : ~ Lists(Loaded(file).interfaces, pair[1], pair[2])
    <3>1. CASE file = Unreadable
      BY <3>1, LoadedFacts, DefaultsFacts DEF FileOK, TypeOK, Lists
    <3>2. CASE file # Unreadable
      BY <3>2, LoadedFacts DEF RemovedGone, FileOK, TypeOK
    <3>3. QED
      BY <3>1, <3>2
  <2>4. CASE Boot
    <3>1. PICK s, t \in Settings :
             /\ s = Loaded(file)
             /\ t.interfaces = Deduped(s.interfaces)
             /\ settings' = t
             /\ todo' = Restores(t)
      BY <2>4, BootFacts
    <3>2. \A role, end : Lists(t.interfaces, role, end) => Lists(s.interfaces, role, end)
      BY <3>1, SettingsFacts, DedupedFacts
    <3>3. \A x : Has(Restores(t), x) /\ x.what = "attach" => Lists(t.interfaces, x.who, x.with)
      BY RestoresFacts
    <3>4. QED
      BY <2>1, <2>2, <2>3, <3>1, <3>2, <3>3 DEF RemovedGone
  <2>5. CASE BootDesktop
    <3>1. settings' = Loaded(file) /\ UNCHANGED todo
      BY <2>5 DEF BootDesktop
    <3>2. QED
      BY <2>1, <2>2, <2>3, <3>1 DEF RemovedGone
  <2>6. QED
    BY <1>8, <2>4, <2>5
<1>9. CASE ResumeNext
  <2>1. PICK i : i = Head(todo)
    OBVIOUS
  <2>2. i \in Item /\ \A x : Has(todo, x) <=> x = i \/ Has(Tail(todo), x)
    BY <1>9, <2>1, TailHas DEF ResumeNext, TypeOK
  <2>3. op = "none" /\ todo' = Tail(todo) /\ UNCHANGED << file, removalVars >>
    BY <1>9 DEF ResumeNext
  <2>4. CASE i.what = "run" /\ Runs(i.who, i.with) /\ UNCHANGED attached
    <3>1. settings'.interfaces = settings.interfaces
      BY <2>2, <2>4, ItemFacts, RunsType
    <3>2. QED
      BY <2>2, <2>3, <2>4, <3>1, GoneWhenKept
  <2>5. CASE i.what = "attach" /\ Attaches(i.who, i.with)
    <3>1. i.who \in Roles /\ i.with \in Ends
      BY <2>2, <2>5, ItemFacts
    <3>2. ASSUME << i.who, i.with >> \in removed \ idless
          PROVE  FALSE
      <4>1. PICK pair \in removed \ idless : pair = << i.who, i.with >>
        BY <3>2
      <4>2. pair[1] = i.who /\ pair[2] = i.with
        BY <4>1
      <4>3. ~ Has(todo, i)
        BY <2>2, <2>5, <4>1, <4>2 DEF RemovedGone
      <4>4. QED
        BY <2>2, <4>3
    <3>3. QED
      BY <2>2, <2>3, <2>5, <3>1, <3>2, GoneWhenAttached
  <2>6. CASE UNCHANGED << opVars, running, attached, settings >>
    BY <2>2, <2>3, <2>6, GoneWhenKept
  <2>7. QED
    BY <1>9, <2>1, <2>4, <2>5, <2>6 DEF ResumeNext
<1>10. CASE ResumeEnds
  BY <1>10 DEF ResumeEnds, RemovedGone
<1>11. CASE Crash
  <2>1. /\ todo' = << >> /\ settings' = Defaults /\ UNCHANGED file
        /\ attached' = [r \in Roles |-> {}]
        /\ removing' = {} /\ UNCHANGED << removed, idless >>
    BY <1>11 DEF Crash
  <2>2. \A pair \in removed : pair[1] \in Roles
    BY DEF TypeOK
  <2>3. \A role, end : ~ Lists(settings'.interfaces, role, end)
    BY <2>1, DefaultsFacts DEF Lists
  <2>4. QED
    BY <2>1, <2>2, <2>3, NoneHas DEF RemovedGone
<1>12. CASE UNCHANGED vars
  BY <1>12 DEF vars, RemovedGone
<1>13. QED
  BY <1>1, <1>2, <1>3, <1>4, <1>5, <1>6, <1>7, <1>8, <1>9, <1>10, <1>11, <1>12 DEF Next

\* An interface whose removal has returned stays away until it is added again:
\* resume does not bring it back, whatever happened before the process went
\* down; but for an endpoint added twice, whose saved descriptor has no id.
THEOREM RemovalKept == Spec => []RemovedStaysRemoved
<1> DEFINE IInv == TypeOK /\ PhaseInv /\ RemovedGone
<1>1. Init => IInv
  <2>1. Init => RemovedGone
    BY DEF Init, RemovedGone
  <2>2. QED
    BY <2>1, InitType, InitPhase
<1>2. IInv /\ [Next]_vars => IInv'
  BY TypeStep, PhaseStep, RemovedStep
<1>3. IInv => RemovedStaysRemoved
  <2> SUFFICES ASSUME IInv, NEW pair \in removed \ idless, NEW i \in 1..Len(settings.interfaces),
                      << settings.interfaces[i].role, settings.interfaces[i].end >> = pair
               PROVE  FALSE
    BY DEF RemovedGone, RemovedStaysRemoved
  <2>1. settings.interfaces[i].role = pair[1] /\ settings.interfaces[i].end = pair[2]
    OBVIOUS
  <2>2. Lists(settings.interfaces, pair[1], pair[2])
    BY <2>1 DEF Lists
  <2>3. QED
    BY <2>2 DEF RemovedGone
<1>4. QED
  BY <1>1, <1>2, <1>3, PTL DEF Spec
=============================================================================
